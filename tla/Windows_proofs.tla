--------------------------- MODULE Windows_proofs ---------------------------
(***************************************************************************)
(* Theorems about the windows on the screen: where they are put, for every *)
(* screen, every theme and every line a host may report; the candidate     *)
(* window in every reachable state; and the keys of the windows an         *)
(* application opens and closes, with the floating button that works under *)
(* them.                                                                   *)
(***************************************************************************)
EXTENDS CandidateWindow, FloatButton, SequenceTheorems, TLAPS

\* fit_position: the window lies in the area, or starts at its upper left.
LEMMA FitPositionReadable ==
    ASSUME NEW anchor \in Anchors, Upright(anchor), NEW w \in Nat, NEW h \in Nat,
           NEW area, Rectangle(area)
    PROVE  /\ FitPosition(anchor, w, h, area) \in [x : Int, y : Int]
           /\ Readable(FitPosition(anchor, w, h, area), w, h, area)
<1> DEFINE line == PulledIn(anchor, area)
           p == FitPosition(anchor, w, h, area)
<1>1. /\ area.left \in Int /\ area.top \in Int /\ area.right \in Int /\ area.bottom \in Int
      /\ area.left < area.right /\ area.top < area.bottom
      /\ anchor.x \in Int
  BY DEF Anchors, Areas, Rectangle
<1>2. /\ line.top \in Int /\ line.bottom \in Int
      /\ area.top <= line.bottom /\ line.bottom <= area.bottom
  BY DEF Anchors, Areas, Rectangle, Upright, PulledIn, AtLeast, AtMost
<1>3. /\ FitX(anchor.x, w, area) \in Int
      /\ area.left <= FitX(anchor.x, w, area)
      /\ \/ FitX(anchor.x, w, area) + w <= area.right
         \/ FitX(anchor.x, w, area) = area.left
  BY <1>1 DEF FitX, Clamp, AtLeast, AtMost
<1>4. /\ p = [x |-> p.x, y |-> p.y]
      /\ p.x = FitX(anchor.x, w, area)
      /\ p.y = IF line.bottom + h <= area.bottom THEN line.bottom
               ELSE IF line.top - h >= area.top /\ line.top <= area.bottom
               THEN line.top - h
               ELSE AgainstEdge(line.top - area.top, area.bottom - line.bottom, h, area)
  BY DEF FitPosition
<1> HIDE DEF line, p
<1>5. p.y \in Int /\ area.top <= p.y /\ (p.y + h <= area.bottom \/ p.y = area.top)
  BY <1>1, <1>2, <1>4 DEF AgainstEdge, AtLeast
<1>6. p \in [x : Int, y : Int] /\ Readable(p, w, h, area)
  BY <1>3, <1>4, <1>5 DEF Readable
<1> QED BY <1>6 DEF p

\* ... and leaves the line free when there is room beside it.
LEMMA FitPositionClear ==
    ASSUME NEW anchor \in Anchors, NEW w \in Nat, NEW h \in Nat,
           NEW area, Rectangle(area), LineInside(anchor, area),
           RoomBeside(h, anchor, area)
    PROVE  Clear(FitPosition(anchor, w, h, area), h, anchor)
  BY DEF Anchors, Areas, Rectangle, FitPosition, PulledIn, FitX, Clamp, AtLeast,
         AtMost, AgainstEdge, LineInside, RoomBeside, Clear

\* anchor_cg promises the same on macOS, for a line reported upside down too.
LEMMA AnchorCgReadable ==
    ASSUME NEW anchor \in Anchors, NEW w \in Nat, NEW h \in Nat,
           NEW area, Rectangle(area)
    PROVE  /\ AnchorCg(anchor, w, h, area) \in [x : Int, y : Int]
           /\ Readable(AnchorCg(anchor, w, h, area), w, h, area)
  BY DEF Anchors, Areas, Rectangle, AnchorCg, CandGap, FitX, Clamp,
         AtLeast, AtMost, AgainstEdge, Readable

LEMMA AnchorCgClear ==
    ASSUME NEW anchor \in Anchors, NEW w \in Nat, NEW h \in Nat,
           NEW area, Rectangle(area), LineInside(anchor, area),
           RoomBeside(h + CandGap, anchor, area)
    PROVE  Clear(AnchorCg(anchor, w, h, area), h, anchor)
  BY DEF Anchors, Areas, Rectangle, AnchorCg, CandGap, FitX, Clamp,
         AtLeast, AtMost, AgainstEdge, LineInside, RoomBeside, Clear

LEMMA CornerCgReadable ==
    ASSUME NEW w \in Nat, NEW h \in Nat, NEW area, Rectangle(area)
    PROVE  /\ CornerCg(w, h, area) \in [x : Int, y : Int]
           /\ Readable(CornerCg(w, h, area), w, h, area)
  BY DEF Areas, Rectangle, CornerCg, PanelInset, FitX, Clamp, AtLeast, AtMost,
         Readable

\* The area photographed is the same on both platforms: vision_rect_from_caret
\* mirrors fit_eye_rect.
THEOREM SameEyeRect ==
    ASSUME NEW anchor \in Anchors, NEW w \in Int, NEW h \in Int,
           NEW offset \in Int, NEW area \in Areas
    PROVE  VisionRect(anchor, w, h, offset, area) = EyeRect(anchor, w, h, offset, area)
  BY DEF VisionRect, EyeRect, FitEyeRect

\* What is photographed lies in the work area, beside the line when there is
\* room, for a line inside the area (one outside is not pulled in here).
THEOREM EyeRectSparesLine ==
    ASSUME NEW anchor \in Anchors, NEW w \in Int, NEW h \in Int,
           NEW offset \in Int, NEW area, Rectangle(area),
           LineInside(anchor, area),
           Fits(AtLeast(w, MinEye), AtLeast(h, MinEye), area)
    PROVE  LET p == EyeRect(anchor, w, h, offset, area)
               width == AtLeast(w, MinEye)
               height == AtLeast(h, MinEye)
           IN  /\ Inside(p, width, height, area)
               /\ RoomBeside(height + AtLeast(offset, 0), anchor, area)
                    => Clear(p, height, anchor)
  BY DEF Anchors, Areas, Rectangle, EyeRect, FitEyeRect, MinEye, FitX, Clamp,
         AtLeast, AtMost, AgainstEdge, LineInside, RoomBeside, Clear, Fits, Inside

\* bubble_anchor: the bubble never leaves the window, whatever caret it is given.
THEOREM BubbleInWindow ==
    ASSUME NEW anchor \in Anchors, NEW area, Rectangle(area)
    PROVE  /\ Readable(BubbleAnchor(anchor, area), BubbleSize, BubbleSize, area)
           /\ Readable(BubbleCorner(area), BubbleSize, BubbleSize, area)
  BY DEF Anchors, Areas, Rectangle, BubbleAnchor, BubbleCorner, BubbleSize,
         BubbleGap, BubbleMargin, FitX, Clamp, AtLeast, AtMost, Readable

\* button_origin: the floating button stays on the screen its anchor is on; an
\* anchor beyond the right or lower edge is not promised anything.
THEOREM ButtonOnScreen ==
    ASSUME NEW area, Rectangle(area), NEW x \in Int, NEW y \in Int,
           x <= area.right, y <= area.bottom
    PROVE  Readable(ButtonOrigin(x, y, area), ButtonSize, ButtonSize, area)
  BY DEF Areas, Rectangle, ButtonOrigin, ButtonSize, ButtonGap, AtLeast, Readable

-----------------------------------------------------------------------------
LEMMA AreaFacts ==
    ASSUME NEW a \in Places
    PROVE  /\ WorkArea[a] \in {m.work : m \in Monitors} /\ Rectangle(WorkArea[a])
           /\ PanelArea[a] \in {m.work : m \in Monitors} \cup {Main.frame}
           /\ Rectangle(PanelArea[a]) /\ Rectangle(Main.frame)
<1>1. MonitorWorkArea(a.x, a.bottom) \in {m.work : m \in Monitors}
  BY MonitorsAssumption DEF MonitorWorkArea
<1>2. DisplayWorkArea(a.x, a.top) \in {m.work : m \in Monitors} \cup {Main.frame}
  BY MonitorsAssumption DEF DisplayWorkArea
<1> QED BY <1>1, <1>2, MonitorsAssumption DEF WorkArea, PanelArea

LEMMA PlaceFacts ==
    ASSUME NEW a \in Places
    PROVE  a \in Anchors /\ Upright(a)
BY CaretsAssumption DEF Places, Origin, Anchors, Upright

LEMMA ScaledType ==
    ASSUME NEW t \in ThemeSet, NEW scale \in Scales
    PROVE  Scaled(t, scale) \in ThemeSet
<1>1. \A v \in Nat : ScaledTo(v, scale) \in Nat
  BY SizesAssumption DEF ScaledTo, AtLeast
<1> QED BY <1>1 DEF Scaled, ThemeSet

LEMMA SizeType ==
    ASSUME NEW c \in Controllers, NEW t \in ThemeSet
    PROVE  WindowWidth(t) \in Nat /\ WindowHeight(c, t) \in Nat
<1>1. WindowWidth(t) \in Nat
  BY DEF WindowWidth, ThemeSet
<1>2. PageItems(c) \in Nat
  BY DEF PageItems, PageSize, AtLeast, AtMost, Controllers
<1>3. /\ StatusHeight(c, t) \in Nat /\ HeaderHeight(c, t) \in Nat
      /\ FooterHeight(c, t) \in Nat
  BY DEF StatusHeight, HeaderHeight, FooterHeight, AtLeast, Controllers, ThemeSet
<1>4. ResultHeight(t, c.lines) \in Nat
  <2>1. c.lines * t.font_size \in Nat BY DEF Controllers, ThemeSet
  <2> QED BY <2>1 DEF ResultHeight
<1>5. t.item_height * (IF t.horizontal THEN 1 ELSE PageItems(c)) \in Nat
  BY <1>2 DEF ThemeSet
<1>6. t.padding * 2 \in Nat
  BY DEF ThemeSet
<1> QED BY <1>1, <1>3, <1>4, <1>5, <1>6 DEF WindowHeight

\* A window whose place and size are right: what the drawn window satisfies.
Sound(w, area, gap) ==
    /\ w \in Drawings
    /\ Readable(w, w.w, w.h, area)
    /\ LineInside(w.at, area) /\ RoomBeside(w.h + gap, w.at, area)
         => Clear(w, w.h, w.at)

LEMMA DrawnSound ==
    ASSUME theme \in ThemeSet, NEW c \in Controllers, NEW a \in Places,
           NEW scale \in Scales
    PROVE  /\ Sound(Drawn(c, a, scale), WorkArea[a], 0)
           /\ Drawn(c, a, scale).at = a /\ Drawn(c, a, scale).visible
           /\ Drawn(c, a, scale).shows = c
<1> DEFINE t == Scaled(theme, scale)
           w == WindowWidth(t)
           h == WindowHeight(c, t)
           p == FitPosition(a, w, h, WorkArea[a])
<1>1. w \in Nat /\ h \in Nat
  BY ScaledType, SizeType
<1>2. a \in Anchors /\ Upright(a) /\ Rectangle(WorkArea[a])
  BY PlaceFacts, AreaFacts
<1> HIDE DEF t, w, h
<1>3. p \in [x : Int, y : Int] /\ Readable(p, w, h, WorkArea[a])
  BY <1>1, <1>2, FitPositionReadable
<1>4. LineInside(a, WorkArea[a]) /\ RoomBeside(h, a, WorkArea[a]) => Clear(p, h, a)
  BY <1>1, <1>2, FitPositionClear
<1> HIDE DEF p
<1>5. Drawn(c, a, scale) = [visible |-> TRUE, x |-> p.x, y |-> p.y, w |-> w,
                            h |-> h, shows |-> c, at |-> a]
  BY DEF Drawn, p, w, h, t
<1>6. h + 0 = h BY <1>1
<1> QED BY <1>1, <1>3, <1>4, <1>5, <1>6 DEF Sound, Drawings, Readable, Clear

LEMMA MovedSound ==
    ASSUME win \in Drawings, NEW a \in Places, MoveTo(a)
    PROVE  Sound(win', WorkArea[a], 0) /\ win'.at = a /\ win'.shows = win.shows
           /\ win'.visible
<1> DEFINE p == FitPosition(a, win.w, win.h, WorkArea[a])
<1>1. win.w \in Nat /\ win.h \in Nat
  BY DEF Drawings
<1>2. a \in Anchors /\ Upright(a) /\ Rectangle(WorkArea[a])
  BY PlaceFacts, AreaFacts
<1>3. p \in [x : Int, y : Int] /\ Readable(p, win.w, win.h, WorkArea[a])
  BY <1>1, <1>2, FitPositionReadable
<1>4. LineInside(a, WorkArea[a]) /\ RoomBeside(win.h, a, WorkArea[a])
        => Clear(p, win.h, a)
  BY <1>1, <1>2, FitPositionClear
<1> HIDE DEF p
<1>5. win' = [win EXCEPT !.visible = TRUE, !.x = p.x, !.y = p.y, !.at = a]
  BY DEF MoveTo, p
<1>6. win' = [visible |-> TRUE, x |-> p.x, y |-> p.y, w |-> win.w, h |-> win.h,
              shows |-> win.shows, at |-> a]
  BY <1>5 DEF Drawings
<1>7. win.h + 0 = win.h BY <1>1
<1> QED BY <1>1, <1>3, <1>4, <1>6, <1>7 DEF Sound, Drawings, Readable, Clear

LEMMA ShowingSound ==
    ASSUME theme \in ThemeSet, caret \in Asked, NEW c \in Controllers,
           NEW scale \in Scales
    PROVE  /\ Showing(c, scale) \in Drawings
           /\ Showing(c, scale).at = caret.at
           /\ \E area \in {m.work : m \in Monitors} \cup {Main.frame} :
                 Readable(Showing(c, scale), Showing(c, scale).w,
                          Showing(c, scale).h, area)
           /\ caret # NoAnchor
                => Sound(Showing(c, scale), PanelArea[caret.at], CandGap)
<1> DEFINE t == Scaled(theme, scale)
           w == (WindowWidth(t) * 100 + scale \div 2) \div scale
           h == (WindowHeight(c, t) * 100 + scale \div 2) \div scale
           area == IF caret = NoAnchor THEN Main.frame ELSE PanelArea[caret.at]
           p == IF caret = NoAnchor THEN CornerCg(w, h, area)
                ELSE AnchorCg(caret.at, w, h, area)
<1>1. w \in Nat /\ h \in Nat
  <2>1. scale \in Nat \ {0} BY SizesAssumption
  <2>2. WindowWidth(t) \in Nat /\ WindowHeight(c, t) \in Nat BY ScaledType, SizeType
  <2> HIDE DEF t
  <2>3. \A v \in Nat : (v * 100 + scale \div 2) \div scale \in Nat BY <2>1
  <2> QED BY <2>2, <2>3
<1>2. /\ caret.at \in Places /\ caret.at \in Anchors /\ Upright(caret.at)
      /\ Rectangle(area) /\ area \in {m.work : m \in Monitors} \cup {Main.frame}
  BY PlaceFacts, AreaFacts DEF Asked
<1> HIDE DEF t, w, h, area
<1>3. p \in [x : Int, y : Int] /\ Readable(p, w, h, area)
  BY <1>1, <1>2, AnchorCgReadable, CornerCgReadable
<1>4. caret # NoAnchor /\ LineInside(caret.at, area)
        /\ RoomBeside(h + CandGap, caret.at, area) => Clear(p, h, caret.at)
  BY <1>1, <1>2, AnchorCgClear
<1> HIDE DEF p
<1>5. Showing(c, scale) = [visible |-> TRUE, x |-> p.x, y |-> p.y, w |-> w,
                           h |-> h, shows |-> c, at |-> caret.at]
  BY DEF Showing, p, area, w, h, t
<1>6. caret # NoAnchor => area = PanelArea[caret.at]
  BY DEF area
<1> QED BY <1>1, <1>2, <1>3, <1>4, <1>5, <1>6 DEF Sound, Drawings, Readable, Clear

\* What a list of the machine looks like in the controller.
LEMMA ListingFacts ==
    ASSUME NEW list \in Selectable, list.n # 0
    PROVE  /\ Paged(list) \in Controllers
           /\ Listing(list) \in Controllers
           /\ Listing(list).n = list.n /\ Listing(list).page = list.page
           /\ Listing(list).sel = list.sel
           /\ ShouldRender(Listing(list))
<1>1. /\ list.n \in Nat /\ list.page \in Nat /\ list.sel \in Nat
      /\ list.sel < PageSize /\ list.page * PageSize + list.sel < list.n
  BY DEF Selectable, NoList
<1> DEFINE first == [SetCandidates(Blank, list.n) EXCEPT !.preedit = TRUE]
           paged == SetPage(first, list.page)
<1>2. Blank \in Controllers
  BY DEF Blank, Controllers
<1>3. /\ SetCandidates(Blank, list.n) \in Controllers
      /\ SetCandidates(Blank, list.n).n = list.n
      /\ SetCandidates(Blank, list.n).lines = 0
  <2>1. Blank.lines = 0 BY DEF Blank
  <2> HIDE DEF Blank
  <2> QED BY <1>1, <1>2, <2>1 DEF SetCandidates, Controllers
<1>4. first \in Controllers /\ first.n = list.n /\ first.lines = 0
  BY <1>3 DEF Controllers
<1> HIDE DEF first
<1>5. AtMost(list.page, TotalPages(first) - 1) = list.page
  BY <1>1, <1>4 DEF AtMost, TotalPages, PageSize
<1>6. /\ paged \in Controllers /\ paged.n = list.n /\ paged.page = list.page
      /\ paged.lines = 0
  <2>1. paged = [first EXCEPT !.page = list.page, !.sel = 0]
    BY <1>1, <1>4, <1>5 DEF SetPage
  <2> HIDE DEF paged
  <2> QED BY <1>1, <1>4, <2>1 DEF Controllers
<1>7. Paged(list) = paged
  BY DEF Paged, first, paged
<1> HIDE DEF paged
<1>8. AtMost(list.sel, list.n - 1) = list.sel
  BY <1>1 DEF PageSize, AtMost
<1>9. list.sel < PageItems(paged)
  BY <1>1, <1>6 DEF PageItems, PageSize, AtLeast, AtMost
<1>10. Listing(list) = [paged EXCEPT !.sel = list.sel]
  BY <1>7, <1>8, <1>9 DEF Listing, SelectRelative
<1> QED BY <1>1, <1>6, <1>7, <1>10 DEF Controllers, ShouldRender

-----------------------------------------------------------------------------
\* Without a composition the machine lists nothing, and only Windows asks
\* again for the caret.
Quiet == /\ ~composing => machine = NoList
         /\ platform = "macos" => pending = NoRetry

\* What is inductive: the parts need each other only through the types.
Inv == /\ TypeOK /\ Quiet /\ WindowOnScreen /\ LineStaysFree
       /\ RetryMovesShownWindow /\ WindowsHighlight

LEMMA InitInv == Init => Inv
<1> SUFFICES ASSUME Init PROVE Inv OBVIOUS
<1>1. NoList \in Selectable /\ NoAnchor \in Asked /\ Blank \in Controllers
  BY DEF NoList, Selectable, NoAnchor, Asked, Places, Blank, Controllers
<1>2. Origin \in Places BY DEF Places
<1>3. TypeOK
  <2>1. win \in Drawings
    BY <1>1, <1>2 DEF Init, Drawings
  <2>2. platform \in {"windows", "macos"} /\ theme \in ThemeSet /\ composing \in BOOLEAN
    BY PlatformsAssumption, SizesAssumption DEF Init
  <2>3. machine \in Selectable /\ caret \in Asked /\ stash \in Asked
    BY <1>1 DEF Init
  <2>4. pending \in Int /\ pending >= NoRetry
    BY DEF Init, NoRetry
  <2> QED BY <2>1, <2>2, <2>3, <2>4 DEF TypeOK
<1>4. ~win.visible /\ pending = NoRetry BY DEF Init
<1>5. Quiet BY DEF Init, Quiet
<1> QED BY <1>3, <1>4, <1>5 DEF Inv, WindowOnScreen, LineStaysFree,
           RetryMovesShownWindow, WindowsHighlight, HighlightIsSelected

\* A window that was drawn or moved satisfies what is said of its place.
LEMMA SoundPlaced ==
    ASSUME platform' = "windows", NEW a \in Places, win'.at = a,
           Sound(win', WorkArea[a], 0)
    PROVE  WindowOnScreen' /\ LineStaysFree'
<1>1. WorkArea[a] \in {m.work : m \in Monitors}
  BY AreaFacts
<1>2. WindowOnScreen'
  BY <1>1 DEF WindowOnScreen, ScreenAreas, Sound
<1>3. LineStaysFree'
  BY DEF LineStaysFree, Sound
<1> QED BY <1>2, <1>3

LEMMA UpdateEffect ==
    ASSUME TypeOK, platform' = "windows", NEW c \in Controllers, ShouldRender(c),
           NEW a \in Places, Update(c, a)
    PROVE  /\ win' \in Drawings /\ win'.visible /\ win'.shows = c
           /\ WindowOnScreen' /\ LineStaysFree'
<1>1. PICK scale \in Scales : win' = Drawn(c, a, scale)
  BY DEF Update
<1>2. Sound(win', WorkArea[a], 0) /\ win'.at = a /\ win'.visible /\ win'.shows = c
  BY <1>1, DrawnSound DEF TypeOK
<1> QED BY <1>2, SoundPlaced DEF Sound

\* A window that is hidden, or left alone, is as good as it was.
LEMMA HiddenEffect ==
    ASSUME TypeOK, win' = Hidden(win)
    PROVE  win' \in Drawings /\ ~win'.visible
<1>1. win \in Drawings BY DEF TypeOK
<1> QED BY <1>1 DEF Hidden, Drawings

LEMMA SamePlace ==
    ASSUME WindowOnScreen, LineStaysFree, UNCHANGED <<platform, win>>
    PROVE  WindowOnScreen' /\ LineStaysFree'
BY DEF WindowOnScreen, LineStaysFree, ScreenAreas

LEMMA OverlayFacts ==
    ASSUME NEW c \in Overlays
    PROVE  c \in Controllers /\ ShouldRender(c)
<1>1. Blank \in Controllers
  BY DEF Blank, Controllers
<1> HIDE DEF Blank
<1>2. SetCandidates(Blank, 2) \in Controllers /\ SetCandidates(Blank, 2).n = 2
  BY <1>1 DEF SetCandidates, Controllers
<1>3. ASSUME NEW lines \in LineCounts
      PROVE  /\ SetResultLines(Blank, lines) \in Controllers
             /\ SetResultLines(Blank, lines).lines > 0
  <2>1. AtLeast(lines, 1) \in Nat /\ AtLeast(lines, 1) > 0
    BY SizesAssumption DEF AtLeast
  <2> QED BY <1>1, <2>1 DEF SetResultLines, Controllers
<1>4. ASSUME NEW d \in Controllers
      PROVE  LET e == [d EXCEPT !.status = TRUE]
             IN  e \in Controllers /\ e.n = d.n /\ e.lines = d.lines
  BY DEF Controllers
<1>5. CASE c = [SetCandidates(Blank, 2) EXCEPT !.status = TRUE]
  <2>1. c \in Controllers /\ c.n = 2 BY <1>2, <1>4, <1>5
  <2> QED BY <2>1 DEF ShouldRender
<1>6. ASSUME NEW lines \in LineCounts,
             c = [SetResultLines(Blank, lines) EXCEPT !.status = TRUE]
      PROVE  c \in Controllers /\ ShouldRender(c)
  <2>1. c \in Controllers /\ c.lines > 0 BY <1>3, <1>4, <1>6
  <2> QED BY <2>1 DEF ShouldRender
<1> QED BY <1>5, <1>6 DEF Overlays

\* The parts of the types a step does not touch.
LEMMA KeptTypes ==
    ASSUME TypeOK
    PROVE  /\ UNCHANGED platform => platform' \in {"windows", "macos"}
           /\ UNCHANGED theme => theme' \in ThemeSet
           /\ UNCHANGED machine => machine' \in Selectable
           /\ UNCHANGED caret => caret' \in Asked
           /\ UNCHANGED stash => stash' \in Asked
           /\ UNCHANGED win => win' \in Drawings
BY DEF TypeOK

LEMMA ConstantTypes ==
    /\ NoList \in Selectable /\ NoAnchor \in Asked /\ Origin \in Places
    /\ \A c \in Carets \cup Corners : c \in Places /\ Known(c) \in Asked
    /\ \A v \in ViewFallbacks : v \in Places
    /\ \A list \in Lists : list \in Selectable
<1>1. NoList \in Selectable BY DEF NoList, Selectable
<1>2. Origin \in Places BY DEF Places
<1>3. NoAnchor \in Asked BY <1>2 DEF NoAnchor, Asked
<1>4. \A c \in Carets \cup Corners : c \in Places /\ Known(c) \in Asked
  BY DEF Places, Known, Asked
<1>5. \A v \in ViewFallbacks : v \in Places
  BY DEF ViewFallbacks, Places
<1>6. \A list \in Lists : list \in Selectable
  BY SizesAssumption
<1> QED BY <1>1, <1>2, <1>3, <1>4, <1>5, <1>6

\* A window step on Windows that draws a controller keeps the invariant.
LEMMA DrawKeepsInv ==
    ASSUME Inv, NEW c \in Controllers, ShouldRender(c), NEW a \in Places,
           Update(c, a), platform = "windows", UNCHANGED <<platform, theme>>,
           composing' \in BOOLEAN, machine' \in Selectable, caret' \in Asked,
           stash' \in Asked, pending' \in Int, pending' >= NoRetry,
           machine'.n > 0 => c.n = machine'.n /\ c.page = machine'.page
                             /\ c.sel = machine'.sel,
           Quiet'
    PROVE  Inv'
<1>1. TypeOK /\ platform' = "windows" BY DEF Inv
<1>2. /\ win' \in Drawings /\ win'.visible /\ win'.shows = c
      /\ WindowOnScreen' /\ LineStaysFree'
  BY <1>1, UpdateEffect
<1>3. TypeOK'
  BY <1>1, <1>2, KeptTypes DEF TypeOK
<1>4. RetryMovesShownWindow'
  BY <1>2 DEF RetryMovesShownWindow
<1>5. WindowsHighlight'
  BY <1>2 DEF WindowsHighlight, HighlightIsSelected
<1> QED BY <1>2, <1>3, <1>4, <1>5 DEF Inv

\* A step that hides the window, with no retry left waiting.
LEMMA HideKeepsInv ==
    ASSUME Inv, win' = Hidden(win), UNCHANGED <<platform, theme>>,
           composing' \in BOOLEAN, machine' \in Selectable, caret' \in Asked,
           stash' \in Asked, pending' = NoRetry,
           Quiet'
    PROVE  Inv'
<1>1. TypeOK BY DEF Inv
<1>2. win' \in Drawings /\ ~win'.visible BY <1>1, HiddenEffect
<1>3. pending' \in Int /\ pending' >= NoRetry BY DEF NoRetry
<1>4. TypeOK' BY <1>1, <1>2, <1>3, KeptTypes DEF TypeOK
<1> QED BY <1>2, <1>4 DEF Inv, WindowOnScreen, LineStaysFree, RetryMovesShownWindow,
           WindowsHighlight, HighlightIsSelected

\* A step that leaves the window and the machine's list, or empties the list.
LEMMA KeepsInv ==
    ASSUME Inv, UNCHANGED <<platform, win>>, theme' \in ThemeSet,
           composing' \in BOOLEAN, caret' \in Asked, stash' \in Asked,
           pending' \in Int, pending' >= NoRetry,
           pending' # NoRetry => pending # NoRetry,
           UNCHANGED machine \/ machine' = NoList,
           Quiet'
    PROVE  Inv'
<1>1. TypeOK BY DEF Inv
<1>2. machine' \in Selectable BY <1>1, ConstantTypes, KeptTypes
<1>3. TypeOK' BY <1>1, <1>2, KeptTypes DEF TypeOK
<1>4. WindowOnScreen' /\ LineStaysFree' BY SamePlace DEF Inv
<1>5. RetryMovesShownWindow' BY DEF Inv, RetryMovesShownWindow
<1>6. WindowsHighlight'
  <2>1. CASE UNCHANGED machine
    BY <2>1 DEF Inv, WindowsHighlight, HighlightIsSelected
  <2>2. CASE machine' = NoList
    <3>1. NoList.n = 0 BY DEF NoList
    <3> QED BY <2>2, <3>1 DEF WindowsHighlight, HighlightIsSelected
  <2> QED BY <2>1, <2>2
<1> QED BY <1>3, <1>4, <1>5, <1>6 DEF Inv

-----------------------------------------------------------------------------
LEMMA UpdateKeepsInv ==
    ASSUME Inv, NEW list \in Lists, UpdateCandidateWindow(list)
    PROVE  Inv'
<1>1. TypeOK /\ list \in Selectable /\ platform = "windows" /\ machine' = list
      /\ composing' = TRUE /\ UNCHANGED <<platform, theme, caret, stash>>
  BY ConstantTypes DEF Inv, UpdateCandidateWindow
<1>a. Quiet' BY <1>1 DEF Quiet
<1>2. CASE list.n = 0
  <2>1. list = NoList BY <1>1, <1>2 DEF Selectable, NoList, PageSize
  <2>2. UNCHANGED <<win, pending>> BY <1>2 DEF UpdateCandidateWindow
  <2> QED BY <1>1, <1>a, <2>1, <2>2, KeepsInv DEF TypeOK
<1>3. CASE list.n # 0
  <2>1. /\ Listing(list) \in Controllers /\ ShouldRender(Listing(list))
        /\ Listing(list).n = list.n /\ Listing(list).page = list.page
        /\ Listing(list).sel = list.sel
    BY <1>1, <1>3, ListingFacts
  <2>2. PICK a \in Places : Update(Listing(list), a)
    <3>1. CASE caret # NoAnchor
      <4>1. caret.at \in Places BY <1>1 DEF TypeOK, Asked
      <4> QED BY <1>3, <3>1, <4>1 DEF UpdateCandidateWindow
    <3>2. CASE caret = NoAnchor
      BY <1>3, <3>2, ConstantTypes DEF UpdateCandidateWindow
    <3> QED BY <3>1, <3>2
  <2>3. pending' \in Int /\ pending' >= NoRetry
    BY <1>3, RetryAssumption DEF UpdateCandidateWindow, NoRetry
  <2>4. caret' \in Asked /\ stash' \in Asked /\ machine' \in Selectable
    BY <1>1 DEF TypeOK
  <2> QED BY <1>1, <1>a, <2>1, <2>2, <2>3, <2>4, DrawKeepsInv
<1> QED BY <1>2, <1>3

LEMMA OverlayKeepsInv ==
    ASSUME Inv, ShowOverlay \/ ShowOcrPreview
    PROVE  Inv'
<1>1. TypeOK /\ platform = "windows" /\ UNCHANGED <<platform, theme, pending>>
      /\ UNCHANGED <<composing, caret>>
  BY DEF Inv, ShowOverlay, ShowOcrPreview
<1>2. PICK c \in Overlays, a \in Places : Update(c, a)
  <2>1. CASE ShowOverlay
    <3>1. PICK c \in Overlays :
             IF caret # NoAnchor THEN Update(c, caret.at)
             ELSE \E view \in ViewFallbacks : Update(c, view)
      BY <2>1 DEF ShowOverlay
    <3>2. caret.at \in Places BY <1>1 DEF TypeOK, Asked
    <3> QED BY <3>1, <3>2, ConstantTypes
  <2>2. CASE ShowOcrPreview
    <3>1. PICK lines \in LineCounts :
             IF stash # NoAnchor
             THEN Update([SetResultLines(Blank, lines) EXCEPT !.status = TRUE], stash.at)
             ELSE \E view \in ViewFallbacks :
                     Update([SetResultLines(Blank, lines) EXCEPT !.status = TRUE], view)
      BY <2>2 DEF ShowOcrPreview
    <3>2. stash.at \in Places BY <1>1 DEF TypeOK, Asked
    <3>3. [SetResultLines(Blank, lines) EXCEPT !.status = TRUE] \in Overlays
      BY DEF Overlays
    <3> QED BY <3>1, <3>2, <3>3, ConstantTypes
  <2> QED BY <2>1, <2>2
<1>3. /\ win' \in Drawings /\ win'.visible /\ win'.shows = c
      /\ WindowOnScreen' /\ LineStaysFree'
  BY <1>1, <1>2, OverlayFacts, UpdateEffect
<1>4. machine' \in Selectable /\ stash' \in Asked /\ caret' \in Asked
      /\ composing' \in BOOLEAN /\ pending' \in Int /\ pending' >= NoRetry
  BY <1>1, ConstantTypes DEF ShowOverlay, ShowOcrPreview, TypeOK
<1>5. TypeOK' BY <1>1, <1>3, <1>4, KeptTypes DEF TypeOK
<1>6. RetryMovesShownWindow' BY <1>3 DEF RetryMovesShownWindow
<1>7. machine'.n = 0 => WindowsHighlight'
  BY DEF WindowsHighlight, HighlightIsSelected
<1>8. machine' = NoList
  BY <1>1 DEF Inv, Quiet, ShowOverlay, ShowOcrPreview
<1>9. Quiet' /\ NoList.n = 0 BY <1>1, <1>8 DEF Quiet, NoList
<1> QED BY <1>3, <1>5, <1>6, <1>7, <1>8, <1>9 DEF Inv

LEMMA RetryKeepsInv ==
    ASSUME Inv, RetryCandidatePos
    PROVE  Inv'
<1>1. TypeOK /\ platform = "windows" /\ pending # NoRetry /\ caret.at \in Places
      /\ UNCHANGED <<platform, theme, composing, machine, caret, stash>>
      /\ pending \in Int /\ pending >= NoRetry /\ NoRetry \in Int /\ win \in Drawings
  BY DEF Inv, RetryCandidatePos, TypeOK, Asked, NoRetry
<1>2. CASE pending > 0 /\ caret # NoAnchor
  <2>1. pending' = NoRetry /\ MoveTo(caret.at)
    BY <1>2 DEF RetryCandidatePos
  <2>2. /\ Sound(win', WorkArea[caret.at], 0) /\ win'.at = caret.at
        /\ win'.shows = win.shows /\ win'.visible
    BY <1>1, <2>1, MovedSound
  <2>3. WindowOnScreen' /\ LineStaysFree'
    BY <1>1, <2>2, SoundPlaced
  <2>4. TypeOK' /\ Quiet'
    BY <1>1, <2>1, <2>2, KeptTypes DEF TypeOK, Sound, Inv, Quiet
  <2>5. win.visible BY <1>1 DEF Inv, RetryMovesShownWindow
  <2>6. WindowsHighlight'
    BY <1>1, <2>2, <2>5 DEF Inv, WindowsHighlight, HighlightIsSelected
  <2> QED BY <2>1, <2>3, <2>4, <2>6 DEF Inv, RetryMovesShownWindow
<1>3. CASE ~(pending > 0 /\ caret # NoAnchor)
  <2>1. pending' = pending - 1 /\ UNCHANGED win
    BY <1>3 DEF RetryCandidatePos
  <2>2. pending' \in Int /\ pending' >= NoRetry
    BY <1>1, <2>1 DEF NoRetry
  <2>3. Quiet' BY <1>1 DEF Inv, Quiet
  <2> QED BY <1>1, <2>1, <2>2, <2>3, KeptTypes, KeepsInv DEF TypeOK
<1> QED BY <1>2, <1>3

LEMMA RefreshKeepsInv ==
    ASSUME Inv, NEW list \in Lists, RefreshCandidateWindow(list)
    PROVE  Inv'
<1>1. TypeOK /\ list \in Selectable /\ platform = "macos" /\ machine' = list
      /\ composing' = TRUE /\ UNCHANGED <<platform, theme, caret, stash, pending>>
  BY ConstantTypes DEF Inv, RefreshCandidateWindow
<1>a. Quiet' BY <1>1 DEF Inv, Quiet
<1>2. CASE list.n = 0
  <2>1. list = NoList BY <1>1, <1>2 DEF Selectable, NoList, PageSize
  <2>2. UNCHANGED win BY <1>2 DEF RefreshCandidateWindow
  <2> QED BY <1>1, <1>a, <2>1, <2>2, KeepsInv DEF TypeOK
<1>3. CASE list.n # 0
  <2>1. PICK scale \in Scales : win' = Showing(Paged(list), scale)
    BY <1>3 DEF RefreshCandidateWindow
  <2>2. Paged(list) \in Controllers BY <1>1, <1>3, ListingFacts
  <2>3. /\ win' \in Drawings /\ win'.at = caret.at
        /\ \E area \in {m.work : m \in Monitors} \cup {Main.frame} :
              Readable(win', win'.w, win'.h, area)
        /\ caret # NoAnchor => Sound(win', PanelArea[caret.at], CandGap)
    BY <1>1, <2>1, <2>2, ShowingSound DEF TypeOK
  <2>4. TypeOK'
    BY <1>1, <2>3, KeptTypes DEF TypeOK
  <2>5. WindowOnScreen'
    BY <1>1, <2>3 DEF WindowOnScreen, ScreenAreas
  <2>6. LineStaysFree'
    <3>1. win'.at # Origin => caret # NoAnchor BY <2>3 DEF NoAnchor
    <3> QED BY <1>1, <2>3, <3>1 DEF LineStaysFree, Sound
  <2>7. RetryMovesShownWindow'
    <3>1. win'.visible = TRUE BY <2>1 DEF Showing
    <3> QED BY <3>1 DEF RetryMovesShownWindow
  <2>8. WindowsHighlight' BY <1>1 DEF WindowsHighlight
  <2> QED BY <1>a, <2>4, <2>5, <2>6, <2>7, <2>8 DEF Inv
<1> QED BY <1>2, <1>3

\* Every step keeps the invariant.
LEMMA NextInv ==
    ASSUME Inv, [Next]_vars
    PROVE  Inv'
<1> USE ConstantTypes, KeptTypes
<1>0. TypeOK /\ pending \in Int /\ pending >= NoRetry /\ NoRetry \in Int
      /\ NoRetry >= NoRetry /\ composing \in BOOLEAN
  BY DEF Inv, TypeOK, NoRetry
<1>1. ASSUME NEW list \in Lists, UpdateCandidateWindow(list) PROVE Inv'
  BY <1>1, UpdateKeepsInv
<1>2. ASSUME NEW list \in Lists, RefreshCandidateWindow(list) PROVE Inv'
  BY <1>2, RefreshKeepsInv
<1>3. CASE ShowOverlay \/ ShowOcrPreview BY <1>3, OverlayKeepsInv
<1>4. CASE HideCandidateWindow
  BY <1>0, <1>4, HideKeepsInv DEF HideCandidateWindow, Quiet
<1>5. CASE TsfDeactivate
  BY <1>0, <1>5, KeepsInv DEF TsfDeactivate, Quiet
<1>6. CASE RetryCandidatePos BY <1>6, RetryKeepsInv
<1>7. CASE StashOcrAnchor
  <2>1. stash' \in Asked
    <3>1. CASE caret # NoAnchor
      BY <1>0, <1>7, <3>1 DEF StashOcrAnchor, TypeOK
    <3>2. CASE caret = NoAnchor
      <4>1. PICK view \in Corners \cup {NoAnchor} :
              stash' = IF view = NoAnchor THEN stash ELSE Known(view)
        BY <1>7, <3>2 DEF StashOcrAnchor
      <4> QED BY <1>0, <4>1 DEF TypeOK
    <3> QED BY <3>1, <3>2
  <2>2. machine = NoList
    BY <1>0, <1>7 DEF StashOcrAnchor, TypeOK, Selectable, NoList, PageSize
  <2>3. Quiet' BY <1>7, <2>2 DEF StashOcrAnchor, Quiet
  <2> QED BY <1>0, <1>7, <2>1, <2>3, KeepsInv DEF StashOcrAnchor, TypeOK
<1>8. CASE ResetOcrAnchor
  BY <1>0, <1>8, KeepsInv DEF ResetOcrAnchor, Inv, Quiet, TypeOK
<1>9. CASE HidePanel
  <2>1. pending' = NoRetry /\ Quiet'
    BY <1>9 DEF HidePanel, Inv, Quiet
  <2> QED BY <1>0, <1>9, <2>1, HideKeepsInv DEF HidePanel
<1>10. CASE HostLaysOut
  <2>1. caret' \in Asked BY <1>10 DEF HostLaysOut
  <2> QED BY <1>0, <1>10, <2>1, KeepsInv DEF HostLaysOut, Inv, Quiet, TypeOK
<1>11. CASE ReloadCandidateConfig
  BY <1>0, <1>11, KeepsInv, SizesAssumption DEF ReloadCandidateConfig, Inv, Quiet, TypeOK
<1>12. CASE UNCHANGED vars
  BY <1>0, <1>12, KeepsInv DEF vars, Inv, Quiet, TypeOK
<1> QED BY <1>1, <1>2, <1>3, <1>4, <1>5, <1>6, <1>7, <1>8, <1>9, <1>10, <1>11,
           <1>12 DEF Next

\* The variables keep their types: the caret and what is remembered are places
\* the host reported, the window's size is never negative.
THEOREM TypeCorrect == Spec => []TypeOK
<1>1. Init => Inv BY InitInv
<1>2. Inv /\ [Next]_vars => Inv' BY NextInv
<1>3. Inv => TypeOK BY DEF Inv
<1> QED BY <1>1, <1>2, <1>3, PTL DEF Spec

\* The candidate window is never lost off the screen, whatever place a host
\* reports for the caret: fit_position and anchor_cg.
THEOREM StaysOnScreen == Spec => []WindowOnScreen
<1>1. Init => Inv BY InitInv
<1>2. Inv /\ [Next]_vars => Inv' BY NextInv
<1>3. Inv => WindowOnScreen BY DEF Inv
<1> QED BY <1>1, <1>2, <1>3, PTL DEF Spec

\* The candidate window does not cover the line it stands beside when there is
\* room for it over or under the line.
THEOREM LeavesLineFree == Spec => []LineStaysFree
<1>1. Init => Inv BY InitInv
<1>2. Inv /\ [Next]_vars => Inv' BY NextInv
<1>3. Inv => LineStaysFree BY DEF Inv
<1> QED BY <1>1, <1>2, <1>3, PTL DEF Spec

\* The list is on a screen and leaves its line readable.
THEOREM StaysPlaced == Spec => []WindowPlaced
<1>1. Init => Inv BY InitInv
<1>2. Inv /\ [Next]_vars => Inv' BY NextInv
<1>3. Inv => WindowPlaced BY DEF Inv, WindowPlaced
<1> QED BY <1>1, <1>2, <1>3, PTL DEF Spec

\* No retry is left to bring a hidden window back.
THEOREM NoGhostWindow == Spec => []RetryMovesShownWindow
<1>1. Init => Inv BY InitInv
<1>2. Inv /\ [Next]_vars => Inv' BY NextInv
<1>3. Inv => RetryMovesShownWindow BY DEF Inv
<1> QED BY <1>1, <1>2, <1>3, PTL DEF Spec

\* On Windows the highlighted entry is the one the machine would send.
THEOREM HighlightShown == Spec => []WindowsHighlight
<1>1. Init => Inv BY InitInv
<1>2. Inv /\ [Next]_vars => Inv' BY NextInv
<1>3. Inv => WindowsHighlight BY DEF Inv
<1> QED BY <1>1, <1>2, <1>3, PTL DEF Spec

(***************************************************************************)
(* Proofs about the session keys of windows and the floating button that   *)
(* works under them, for any numbers of windows, handles, addresses,       *)
(* contexts listed and helpers.                                            *)
(*                                                                         *)
(* A key could name two windows if a number were given twice or a listed   *)
(* address came to hold another context.  The invariant therefore ties a   *)
(* number to the context that lies at its address as long as it is listed; *)
(* once it is not, the number is never given again.  A session could be    *)
(* ended under a living window if the handle remembered for the key were   *)
(* not its window's: the invariant says it is, as long as the window lives.*)
(***************************************************************************)

Number(key) == key[2]

HostInv ==
    /\ \A h \in Handles : owner[h] <= opened
    /\ \A a \in Addresses : host[a] # None =>
          /\ host[a].window <= opened
          /\ \A h \in Handles : owner[h] = host[a].window => h = host[a].handle

ListInv ==
    /\ \A a \in Listed :
          /\ host[a] # None
          /\ 0 < context_generations[a]
          /\ context_generations[a] <= next_context_generation
    /\ \A a, b \in Listed : context_generations[a] = context_generations[b] => a = b

UsedInv ==
    \A u \in used :
        /\ Number(u.key) <= next_context_generation
        /\ u.window <= opened
        /\ \A a \in Listed : context_generations[a] = Number(u.key)
                                => host[a].window = u.window

CacheInv ==
    last_session_hwnd # None =>
        \A u \in used, h \in Handles :
            u.key = last_session_key /\ owner[h] = u.window => h = last_session_hwnd

SessionInv ==
    /\ SessionTypeOK
    /\ HostInv /\ ListInv /\ UsedInv /\ KeyOfOneWindow /\ CacheInv
    /\ context # None => host[context] # None

ButtonInv == ButtonTypeOK /\ SessionInv /\ ButtonOfThisActivation

(***************************************************************************)
(* The list of contexts.                                                   *)
(***************************************************************************)
LEMMA ListedElements ==
    ASSUME context_order \in Seq(Addresses)
    PROVE  Listed \subseteq Addresses
BY ElementOfSeq DEF Listed

\* A full list loses its oldest context, never the one that is added.
LEMMA CappedFacts ==
    ASSUME context_order \in Seq(Addresses), Len(context_order) <= MaxContextSessions,
           NEW c \in Addresses
    PROVE  LET t == Capped(Append(context_order, c)) IN
           /\ t \in Seq(Addresses)
           /\ Len(t) <= MaxContextSessions
           /\ \A i \in DOMAIN t : t[i] \in Listed \cup {c}
           /\ \E i \in DOMAIN t : t[i] = c
<1> DEFINE n == Len(context_order)
           s == Append(context_order, c)
<1>1. /\ s \in Seq(Addresses) /\ Len(s) = n + 1 /\ n \in Nat
      /\ \A i \in 1..n : s[i] = context_order[i]
      /\ s[n + 1] = c
      /\ DOMAIN s = 1..(n + 1) /\ DOMAIN context_order = 1..n
  BY AppendProperties, LenProperties
<1> HIDE DEF s
<1>2. \A i \in 1..(n + 1) : s[i] \in Listed \cup {c}
  BY <1>1 DEF Listed
<1>3. CASE Len(s) > MaxContextSessions
  <2>1. /\ Tail(s) \in Seq(Addresses) /\ Len(Tail(s)) = n
        /\ \A i \in 1..n : Tail(s)[i] = s[i + 1]
        /\ DOMAIN Tail(s) = 1..n
    BY <1>1, HeadTailProperties, LenProperties
  <2>2. n \in 1..n
    BY <1>1, <1>3, SessionAssumption
  <2>3. Capped(s) = Tail(s)
    BY <1>3 DEF Capped
  <2>4. Tail(s)[n] = c /\ \A i \in 1..n : Tail(s)[i] \in Listed \cup {c}
    BY <1>1, <1>2, <2>1, <2>2
  <2>5. n <= MaxContextSessions
    OBVIOUS
  <2> QED BY <2>1, <2>2, <2>3, <2>4, <2>5 DEF s
<1>4. CASE ~(Len(s) > MaxContextSessions)
  <2>1. Capped(s) = s
    BY <1>4 DEF Capped
  <2> QED BY <1>1, <1>2, <1>4, <2>1, SessionAssumption DEF s
<1> QED BY <1>3, <1>4

\* What numbering a context does: it is listed under a number that no other
\* context has or had, and what stays on the list keeps its number.
LEMMA GenerationFacts ==
    ASSUME SessionTypeOK, ListInv, NEW c \in Addresses, host[c] # None,
           ContextGeneration(c), UNCHANGED host
    PROVE  /\ context_order' \in Seq(Addresses)
           /\ Len(context_order') <= MaxContextSessions
           /\ context_generations' \in [Addresses -> 0..MaxGenerations]
           /\ next_context_generation' \in 0..MaxGenerations
           /\ next_context_generation <= next_context_generation'
           /\ ListInv'
           /\ c \in Listed' /\ Listed' \subseteq Listed \cup {c}
           /\ context_generations'[c] = Generation(c)
           /\ \A a \in Listed' \ {c} : context_generations'[a] = context_generations[a]
           /\ \/ c \in Listed /\ Generation(c) = context_generations[c]
              \/ c \notin Listed /\ Generation(c) = next_context_generation + 1
           /\ Generation(c) \in 1..MaxGenerations
           /\ Generation(c) <= next_context_generation'
<1>0. /\ Listed \subseteq Addresses
      /\ next_context_generation \in 0..MaxGenerations
      /\ context_generations \in [Addresses -> 0..MaxGenerations]
      /\ MaxGenerations \in Nat
  BY ListedElements, SessionAssumption DEF SessionTypeOK
<1>1. CASE c \in Listed /\ UNCHANGED numbers
  <2>1. Listed' = Listed /\ UNCHANGED <<context_generations, next_context_generation>>
    BY <1>1 DEF numbers, Listed
  <2>2. ListInv'
    BY <2>1 DEF ListInv
  <2> QED BY <1>0, <1>1, <2>1, <2>2 DEF numbers, Generation, SessionTypeOK, ListInv
<1>2. CASE c \notin Listed /\ next_context_generation < MaxGenerations
  <2>1. /\ next_context_generation' = next_context_generation + 1
        /\ context_order' = Capped(Append(context_order, c))
        /\ context_generations' =
             [a \in Addresses |->
                IF a = c THEN next_context_generation'
                ELSE IF a \in Listed' THEN context_generations[a] ELSE 0]
    BY <1>2 DEF ContextGeneration
  <2>2. /\ context_order' \in Seq(Addresses)
        /\ Len(context_order') <= MaxContextSessions
        /\ Listed' \subseteq Listed \cup {c} /\ c \in Listed'
    <3> DEFINE t == Capped(Append(context_order, c))
    <3>1. /\ t \in Seq(Addresses)
          /\ Len(t) <= MaxContextSessions
          /\ \A i \in DOMAIN t : t[i] \in Listed \cup {c}
          /\ \E i \in DOMAIN t : t[i] = c
      BY CappedFacts DEF SessionTypeOK
    <3>2. context_order' = t
      BY <2>1
    <3> HIDE DEF t
    <3>3. Listed' = {t[i] : i \in DOMAIN t}
      BY <3>2 DEF Listed
    <3> QED BY <3>1, <3>2, <3>3
  <2>3. /\ context_generations'[c] = next_context_generation + 1
        /\ \A a \in Listed' \ {c} : context_generations'[a] = context_generations[a]
    BY <1>0, <2>1, <2>2
  <2>4. context_generations' \in [Addresses -> 0..MaxGenerations]
    BY <1>0, <1>2, <2>1
  <2>5. ListInv'
    BY <1>0, <2>1, <2>2, <2>3 DEF ListInv
  <2> QED BY <1>0, <1>2, <2>1, <2>2, <2>3, <2>4, <2>5 DEF Generation
<1> QED BY <1>1, <1>2 DEF ContextGeneration

(***************************************************************************)
(* The steps of the keys.                                                  *)
(***************************************************************************)
LEMMA KeyFacts ==
    ASSUME NEW c, NEW seen \in Handles \cup {None}, Generation(c) \in 1..MaxGenerations
    PROVE  KeyOf(c, seen) \in Keys /\ Number(KeyOf(c, seen)) = Generation(c)
<1>1. CASE seen # None
  BY <1>1 DEF KeyOf, Keys, Number
<1>2. CASE seen = None
  BY <1>2 DEF KeyOf, Keys, Number
<1> QED BY <1>1, <1>2

\* Using a key: it names the window it was made for and no other, and the
\* session it may end is that of a window that is gone.
LEMMA UseKeepsSession ==
    ASSUME SessionInv, NEW c \in Addresses \cup {None}, SessionKeyForUse(c),
           c # None => host[c] # None,
           UNCHANGED windows,
           context' \in Addresses \cup {None}, context' # None => host[context'] # None
    PROVE  /\ SessionInv'
           /\ \A u \in used : u.key \in ended' \ ended =>
                 \A h \in Handles : owner[h] # u.window
<1>1. CASE c = None
  <2>1. UNCHANGED <<numbers, cached, used, ended>>
    BY <1>1 DEF SessionKeyForUse
  <2>2. Listed' = Listed
    BY <2>1 DEF numbers, Listed
  <2> QED BY <2>1, <2>2 DEF SessionInv, SessionTypeOK, HostInv, ListInv, UsedInv,
            KeyOfOneWindow, CacheInv, windows, numbers, cached
<1>2. CASE c # None
  <2>1. PICK seen \in ActiveViewHwnd(c), now \in ActiveViewHwnd(c) :
          /\ ContextGeneration(c)
          /\ ended' = ended \cup Closed(now)
          /\ last_session_hwnd' = now
          /\ last_session_key' = KeyOf(c, seen)
          /\ used' = used \cup
               {[key |-> KeyOf(c, seen), window |-> host[c].window]}
    BY <1>2 DEF SessionKeyForUse
  <2> DEFINE k == KeyOf(c, seen)
             new == [key |-> k, window |-> host[c].window]
  <2>2. /\ c \in Addresses /\ host[c] \in Contexts
        /\ seen \in Handles \cup {None} /\ now \in {None, host[c].handle}
        /\ host[c].window \in 1..MaxWindows /\ host[c].handle \in Handles
    BY <1>2, <2>1 DEF SessionInv, SessionTypeOK, ActiveViewHwnd, Contexts
  <2>3. /\ context_order' \in Seq(Addresses)
        /\ Len(context_order') <= MaxContextSessions
        /\ context_generations' \in [Addresses -> 0..MaxGenerations]
        /\ next_context_generation' \in 0..MaxGenerations
        /\ next_context_generation <= next_context_generation'
        /\ ListInv'
        /\ c \in Listed' /\ Listed' \subseteq Listed \cup {c}
        /\ context_generations'[c] = Generation(c)
        /\ \A a \in Listed' \ {c} : context_generations'[a] = context_generations[a]
        /\ \/ c \in Listed /\ Generation(c) = context_generations[c]
           \/ c \notin Listed /\ Generation(c) = next_context_generation + 1
        /\ Generation(c) \in 1..MaxGenerations
        /\ Generation(c) <= next_context_generation'
    BY <1>2, <2>1, <2>2, GenerationFacts DEF SessionInv, windows
  <2>4. k \in Keys /\ Number(k) = Generation(c)
    BY <2>2, <2>3, KeyFacts
  <2>5. /\ last_session_hwnd \in Handles \cup {None}
        /\ last_session_key \in Keys \cup {None}
        /\ used \subseteq [key : Keys, window : 1..MaxWindows]
        /\ ended \subseteq Keys
        /\ \A h \in Handles : owner[h] \in 0..MaxWindows
        /\ next_context_generation \in Nat /\ opened \in Nat
    BY SessionAssumption DEF SessionInv, SessionTypeOK
  <2>6. new.key = k /\ new.window = host[c].window
        /\ new \in [key : Keys, window : 1..MaxWindows]
    BY <2>2, <2>4
  <2>7. \A u \in used : u.key = k => u.window = host[c].window
    <3> SUFFICES ASSUME NEW u \in used, u.key = k
                 PROVE  u.window = host[c].window
      OBVIOUS
    <3>1. Number(u.key) = Generation(c) /\ Number(u.key) <= next_context_generation
      BY <2>4 DEF SessionInv, UsedInv
    <3>2. c \in Listed /\ context_generations[c] = Number(u.key)
      BY <2>3, <2>5, <3>1
    <3> QED BY <3>2 DEF SessionInv, UsedInv
  <2> HIDE DEF k, new
  <2>8. used' = used \cup {new} /\ last_session_key' = k
    BY <2>1 DEF k, new
  <2>9. KeyOfOneWindow'
    BY <2>6, <2>7, <2>8 DEF SessionInv, KeyOfOneWindow
  <2>10. HostInv'
    BY DEF SessionInv, HostInv, windows
  <2>11. UsedInv'
    <3> SUFFICES ASSUME NEW u \in used'
                 PROVE  /\ Number(u.key) <= next_context_generation'
                        /\ u.window <= opened
                        /\ \A a \in Listed' :
                             context_generations'[a] = Number(u.key)
                                => host[a].window = u.window
      BY DEF UsedInv, windows
    <3>1. CASE u = new
      <4>1. Number(u.key) = Generation(c) /\ u.window = host[c].window
        BY <2>4, <2>6, <3>1
      <4>2. u.window <= opened
        BY <1>2, <2>2, <4>1 DEF SessionInv, HostInv
      <4>3. \A a \in Listed' : context_generations'[a] = Number(u.key) => a = c
        BY <2>3, <4>1 DEF ListInv
      <4> QED BY <2>3, <4>1, <4>2, <4>3
    <3>2. CASE u \in used
      <4>1. /\ Number(u.key) <= next_context_generation /\ u.window <= opened
            /\ \A a \in Listed : context_generations[a] = Number(u.key)
                                    => host[a].window = u.window
        BY <3>2 DEF SessionInv, UsedInv
      <4>2. Number(u.key) \in Nat
        BY <2>5, <3>2 DEF Keys, Number
      <4>3. ASSUME NEW a \in Listed', context_generations'[a] = Number(u.key)
            PROVE  host[a].window = u.window
        <5>1. CASE a = c
          BY <2>3, <2>5, <4>1, <4>2, <4>3, <5>1
        <5>2. CASE a # c
          BY <2>3, <4>1, <4>3, <5>2
        <5> QED BY <5>1, <5>2
      <4> QED BY <2>3, <2>5, <4>1, <4>2, <4>3
    <3> QED BY <2>8, <3>1, <3>2
  <2>12. CacheInv'
    <3> SUFFICES ASSUME last_session_hwnd' # None, NEW u \in used',
                        NEW h \in Handles, u.key = k, owner[h] = u.window
                 PROVE  h = last_session_hwnd'
      BY <2>8 DEF CacheInv, windows
    <3>1. u.window = host[c].window
      BY <2>6, <2>7, <2>8
    <3>2. h = host[c].handle
      BY <1>2, <2>2, <3>1 DEF SessionInv, HostInv
    <3>3. last_session_hwnd' = host[c].handle
      BY <2>1, <2>2
    <3> QED BY <3>2, <3>3
  <2>13. Closed(now) \subseteq Keys
    BY <2>5 DEF Closed
  <2>14. SessionTypeOK'
    BY <2>1, <2>2, <2>3, <2>4, <2>5, <2>6, <2>8, <2>13
       DEF SessionInv, SessionTypeOK, windows
  <2>15. ASSUME NEW u \in used, u.key \in ended' \ ended, NEW h \in Handles
         PROVE  owner[h] # u.window
    <3>1. /\ last_session_hwnd \notin {None, now} /\ owner[last_session_hwnd] = 0
          /\ u.key = last_session_key
      BY <2>1, <2>15 DEF Closed, IsWindow
    <3>2. u.window # 0
      BY <2>5
    <3>3. owner[h] = u.window => h = last_session_hwnd
      BY <3>1 DEF SessionInv, CacheInv
    <3> QED BY <3>1, <3>2, <3>3
  <2> QED BY <2>3, <2>9, <2>10, <2>11, <2>12, <2>14, <2>15 DEF SessionInv, windows
<1> QED BY <1>1, <1>2

\* The host opens a window at an address that neither it nor the service has.
LEMMA OpenKeepsSession ==
    ASSUME SessionInv, NEW h \in Handles, NEW a \in Addresses, OpenWindow(h, a)
    PROVE  SessionInv'
<1> DEFINE c == [window |-> opened + 1, handle |-> h]
<1>1. /\ opened \in Nat /\ opened + 1 \in 1..MaxWindows /\ opened' = opened + 1
      /\ owner \in [Handles -> 0..MaxWindows]
      /\ host \in [Addresses -> Contexts \cup {None}]
      /\ MaxWindows \in Nat
  BY SessionAssumption DEF SessionInv, SessionTypeOK, OpenWindow
<1>2. c \in Contexts /\ c # None /\ c.window = opened + 1 /\ c.handle = h
  <2>1. c \in Contexts
    BY <1>1 DEF Contexts
  <2> QED BY <2>1, SessionAssumption DEF Contexts
<1> HIDE DEF c
<1>3. /\ owner' = [owner EXCEPT ![h] = opened + 1]
      /\ host' = [host EXCEPT ![a] = c]
      /\ UNCHANGED <<context, numbers, cached, used, ended>>
      /\ a \notin Listed /\ context # a
  BY DEF OpenWindow, Owned, c
<1>4. Listed' = Listed /\ Listed \subseteq Addresses
  BY <1>3, ListedElements DEF Listed, numbers, SessionInv, SessionTypeOK
<1>5. SessionTypeOK'
  BY <1>1, <1>2, <1>3 DEF SessionInv, SessionTypeOK, numbers, cached
<1>6. HostInv'
  <2>1. \A b \in Addresses \ {a} : host'[b] = host[b]
    BY <1>1, <1>3
  <2>2. host'[a] = c /\ \A g \in Handles : owner'[g] = IF g = h THEN opened + 1
                                                      ELSE owner[g]
    BY <1>1, <1>3
  <2> QED BY <1>1, <1>2, <2>1, <2>2 DEF SessionInv, HostInv, Contexts
<1>7. ListInv' /\ UsedInv' /\ KeyOfOneWindow'
  <2>1. \A b \in Listed : host'[b] = host[b]
    BY <1>1, <1>3, <1>4
  <2>2. \A u \in used : u.window <= opened + 1
    BY <1>1 DEF SessionInv, SessionTypeOK, UsedInv
  <2> QED BY <1>1, <1>3, <1>4, <2>1, <2>2
          DEF SessionInv, ListInv, UsedInv, KeyOfOneWindow, numbers
<1>8. CacheInv'
  <2> SUFFICES ASSUME last_session_hwnd # None, NEW u \in used, NEW g \in Handles,
                      u.key = last_session_key, owner'[g] = u.window
               PROVE  g = last_session_hwnd
    BY <1>3 DEF CacheInv, cached
  <2>1. u.window <= opened /\ u.window \in Nat
    BY DEF SessionInv, SessionTypeOK, UsedInv
  <2>2. owner'[g] = owner[g]
    BY <1>1, <1>3, <2>1
  <2> QED BY <2>2 DEF SessionInv, CacheInv
<1>9. context' # None => host'[context'] # None
  BY <1>1, <1>3 DEF SessionInv, SessionTypeOK
<1> QED BY <1>5, <1>6, <1>7, <1>8, <1>9 DEF SessionInv

LEMMA CloseKeepsSession ==
    ASSUME SessionInv, NEW h \in Handles, CloseWindow(h)
    PROVE  SessionInv'
<1>1. /\ owner' \in [Handles -> 0..MaxWindows]
      /\ \A g \in Handles : owner'[g] = IF g = h THEN 0 ELSE owner[g]
      /\ UNCHANGED <<opened, host, context, numbers, cached, used, ended>>
  BY SessionAssumption DEF CloseWindow, SessionInv, SessionTypeOK
<1>2. Listed' = Listed
  BY <1>1 DEF Listed, numbers
<1>3. opened \in Nat /\ \A a \in Addresses : host[a] # None => host[a].window >= 1
  BY SessionAssumption DEF SessionInv, SessionTypeOK, Contexts
<1>4. \A u \in used : u.window \in Nat /\ u.window # 0
  BY DEF SessionInv, SessionTypeOK
<1>5. SessionTypeOK'
  BY <1>1 DEF SessionInv, SessionTypeOK, numbers, cached
<1>6. HostInv'
  BY <1>1, <1>3 DEF SessionInv, HostInv
<1>7. ListInv' /\ UsedInv' /\ KeyOfOneWindow'
  BY <1>1, <1>2 DEF SessionInv, ListInv, UsedInv, KeyOfOneWindow, numbers
<1>8. CacheInv'
  BY <1>1, <1>4 DEF SessionInv, CacheInv, cached
<1> QED BY <1>1, <1>5, <1>6, <1>7, <1>8 DEF SessionInv

\* Nothing of the keys changes but the context that is worked in.
LEMMA SameSession ==
    ASSUME SessionInv, UNCHANGED <<windows, numbers, cached, used, ended>>,
           context' \in Addresses \cup {None}, context' # None => host[context'] # None
    PROVE  SessionInv'
<1>1. Listed' = Listed
  BY DEF Listed, numbers
<1> QED BY <1>1 DEF SessionInv, SessionTypeOK, HostInv, ListInv, UsedInv,
          KeyOfOneWindow, CacheInv, windows, numbers, cached

(***************************************************************************)
(* The button.                                                             *)
(***************************************************************************)
\* The key of a button, or nothing.
LEMMA SpawnKeepsSession ==
    ASSUME SessionInv, NEW c \in Addresses \cup {None}, NEW birth, NEW settled,
           SpawnFloatButton(c, birth, settled),
           c # None => host[c] # None, UNCHANGED windows,
           context' \in Addresses \cup {None}, context' # None => host[context'] # None
    PROVE  /\ SessionInv'
           /\ \A u \in used : u.key \in ended' \ ended =>
                 \A h \in Handles : owner[h] # u.window
<1>1. CASE SpawnStarts(c, birth)
  BY <1>1, UseKeepsSession DEF SpawnStarts
<1>2. CASE NothingStarts
  BY <1>2, SameSession DEF NothingStarts
<1> QED BY <1>1, <1>2 DEF SpawnFloatButton

\* Whatever was running is killed before another one starts.
LEMMA KilledFacts ==
    ASSUME ButtonTypeOK, ButtonOfThisActivation
    PROVE  /\ Killed \in [Helpers -> Processes]
           /\ \A i \in Helpers : Killed[i].at \notin {"idle", "busy"}
<1>1. ASSUME NEW i \in Helpers
      PROVE  Killed[i] \in Processes /\ Killed[i].at \notin {"idle", "busy"}
  <2>1. CASE Runs(i)
    <3>1. Killed[i] = [helper[i] EXCEPT !.at = "gone"]
      BY <2>1 DEF Killed, ButtonOfThisActivation
    <3> QED BY <3>1 DEF ButtonTypeOK, Processes
  <2>2. CASE ~Runs(i)
    <3>1. Killed[i] = helper[i]
      BY <2>2 DEF Killed
    <3> QED BY <2>2, <3>1 DEF ButtonTypeOK, Runs
  <2> QED BY <2>1, <2>2
<1> QED BY <1>1 DEF Killed

ButtonTypes ==
    /\ float_epoch \in Nat
    /\ float_child \in Helpers \cup {None}
    /\ helper \in [Helpers -> Processes]
    /\ reader \in [Helpers -> Threads]

LEMMA SpawnKeepsButton ==
    ASSUME ButtonTypeOK, ButtonOfThisActivation, NEW c, NEW birth \in 0..MaxActivations,
           NEW settled, SpawnFloatButton(c, birth, settled),
           active' = TRUE
    PROVE  ButtonTypes' /\ ButtonOfThisActivation'
<1>1. CASE NothingStarts
  BY <1>1 DEF NothingStarts, ButtonTypes, ButtonTypeOK, ButtonOfThisActivation, Runs
<1>2. CASE SpawnStarts(c, birth)
  <2> DEFINE k == Killed
  <2>1. /\ k \in [Helpers -> Processes]
        /\ \A i \in Helpers : k[i].at \notin {"idle", "busy"}
    BY KilledFacts
  <2>2. /\ float_epoch' = float_epoch + 1
        /\ \/ \E i \in Helpers :
                /\ helper' = [k EXCEPT ![i].at = "idle", ![i].born = birth]
                /\ float_child' = i
                /\ reader' = [reader EXCEPT ![i].at = "starting"]
           \/ helper' = k /\ float_child' = None /\ UNCHANGED reader
    BY <1>2, Zenon DEF SpawnStarts, NextHelper
  <2> HIDE DEF k
  <2>3. float_epoch' \in Nat
    <3>1. float_epoch \in Nat
      BY DEF ButtonTypeOK
    <3> QED BY <2>2, <3>1
  <2>4. CASE helper' = k /\ float_child' = None /\ UNCHANGED reader
    BY <2>1, <2>3, <2>4 DEF ButtonTypes, ButtonTypeOK, ButtonOfThisActivation, Runs
  <2>5. ASSUME NEW i \in Helpers,
               helper' = [k EXCEPT ![i].at = "idle", ![i].born = birth],
               float_child' = i,
               reader' = [reader EXCEPT ![i].at = "starting"]
        PROVE  ButtonTypes' /\ ButtonOfThisActivation'
    <3> DEFINE p == [[k[i] EXCEPT !.at = "idle"] EXCEPT !.born = birth]
    <3>1. p \in Processes /\ p.at = "idle" /\ p.born = birth
      BY <2>1 DEF Processes
    <3>2. [reader[i] EXCEPT !.at = "starting"] \in Threads
      BY DEF ButtonTypeOK, Threads
    <3>3. helper' = [k EXCEPT ![i] = p]
      BY <2>1, <2>5
    <3>4. reader' = [reader EXCEPT ![i] = [reader[i] EXCEPT !.at = "starting"]]
      BY <2>5 DEF ButtonTypeOK
    <3> HIDE DEF p
    <3>5. helper' \in [Helpers -> Processes]
      BY <2>1, <3>1, <3>3
    <3>6. reader' \in [Helpers -> Threads]
      BY <3>2, <3>4 DEF ButtonTypeOK
    <3>7. helper'[i] = p /\ \A j \in Helpers \ {i} : helper'[j] = k[j]
      BY <2>1, <3>3
    <3>8. ButtonOfThisActivation'
      BY <2>1, <2>5, <3>1, <3>7 DEF ButtonOfThisActivation, Runs
    <3> QED BY <2>3, <2>5, <3>5, <3>6, <3>8 DEF ButtonTypes
  <2> QED BY <2>2, <2>4, <2>5
<1> QED BY <1>1, <1>2 DEF SpawnFloatButton

(***************************************************************************)
(* The steps of the service, the helpers and the readers.                  *)
(***************************************************************************)
EndsOnlyDead ==
    \A u \in used : u.key \in ended' \ ended =>
        \A h \in Handles : owner[h] # u.window

LEMMA Retries == FloatRetryTicks \in Nat /\ MaxActivations \in Nat /\ None \notin Nat
BY FloatAssumption

LEMMA ServiceKeepsInv ==
    ASSUME ButtonInv, Service
    PROVE  ButtonInv' /\ EndsOnlyDead
<1>1. CASE Activate
  <2>1. PICK c \in {a \in Addresses : Lives(a)} \cup {None}, settled \in BOOLEAN :
          /\ context' = c
          /\ SpawnFloatButton(c, activation + 1, settled)
          /\ float_retry' = IF settled THEN None ELSE FloatRetryTicks
    BY <1>1 DEF Activate
  <2>2. c \in Addresses \cup {None} /\ (c # None => host[c] # None)
    BY <2>1 DEF Lives
  <2>3. SessionInv' /\ EndsOnlyDead
    BY <1>1, <2>1, <2>2, SpawnKeepsSession DEF ButtonInv, Activate, EndsOnlyDead
  <2>4. activation + 1 \in 0..MaxActivations
    BY <1>1, Retries DEF Activate, ButtonInv, ButtonTypeOK
  <2>5. ButtonTypes' /\ ButtonOfThisActivation'
    BY <1>1, <2>1, <2>4, SpawnKeepsButton DEF ButtonInv, Activate
  <2>6. float_retry' \in (0..FloatRetryTicks) \cup {None}
    BY <2>1, Retries
  <2>7. ButtonTypeOK'
    BY <1>1, <2>3, <2>4, <2>5, <2>6
       DEF ButtonTypeOK, ButtonInv, SessionInv, ButtonTypes, Activate
  <2> QED BY <2>3, <2>5, <2>7 DEF ButtonInv
<1>2. CASE OnTimer
  <2>0. context \in Addresses \cup {None} /\ (context # None => host[context] # None)
    BY DEF ButtonInv, SessionInv, SessionTypeOK
  <2>1. SessionInv' /\ EndsOnlyDead /\ ButtonTypes' /\ ButtonOfThisActivation'
        /\ float_retry' \in (0..FloatRetryTicks) \cup {None}
    <3>1. CASE NothingStarts /\ float_retry' \in {None, float_retry}
      <4>1. SessionInv' /\ EndsOnlyDead
        BY <1>2, <2>0, <3>1, SameSession
           DEF ButtonInv, OnTimer, NothingStarts, EndsOnlyDead
      <4>2. ButtonTypes' /\ ButtonOfThisActivation'
        BY <1>2, <3>1 DEF ButtonInv, OnTimer, NothingStarts, ButtonTypes, ButtonTypeOK,
                          ButtonOfThisActivation, Runs
      <4> QED BY <3>1, <4>1, <4>2 DEF ButtonInv, ButtonTypeOK
    <3>2. ASSUME float_retry \in 1..FloatRetryTicks, NEW settled \in BOOLEAN,
                 SpawnFloatButton(context, activation, settled),
                 float_retry' = IF settled THEN None ELSE float_retry - 1
          PROVE  SessionInv' /\ EndsOnlyDead /\ ButtonTypes' /\ ButtonOfThisActivation'
                 /\ float_retry' \in (0..FloatRetryTicks) \cup {None}
      <4>1. SessionInv' /\ EndsOnlyDead
        BY <1>2, <2>0, <3>2, SpawnKeepsSession DEF ButtonInv, OnTimer, EndsOnlyDead
      <4>2. activation \in 0..MaxActivations
        BY DEF ButtonInv, ButtonTypeOK
      <4>3. ButtonTypes' /\ ButtonOfThisActivation'
        BY <1>2, <3>2, <4>2, SpawnKeepsButton DEF ButtonInv, OnTimer
      <4>4. float_retry' \in (0..FloatRetryTicks) \cup {None}
        BY <3>2, Retries
      <4> QED BY <4>1, <4>3, <4>4
    <3> QED BY <1>2, <3>1, <3>2 DEF OnTimer, RetryFloatButton
  <2>2. trigger_results' \in Seq(Helpers)
    BY <1>2 DEF OnTimer, DrainTriggerResults
  <2>3. shown' \subseteq Helpers
    <3>1. \A k \in DOMAIN trigger_results : trigger_results[k] \in Helpers
      BY ElementOfSeq DEF ButtonInv, ButtonTypeOK
    <3> QED BY <1>2, <3>1 DEF OnTimer, DrainTriggerResults, ButtonInv, ButtonTypeOK
  <2> QED BY <1>2, <2>1, <2>2, <2>3
          DEF ButtonInv, ButtonTypeOK, SessionInv, ButtonTypes, OnTimer
<1>3. CASE Deactivate
  <2>1. SessionInv' /\ EndsOnlyDead
    BY <1>3, SameSession DEF ButtonInv, Deactivate, EndsOnlyDead
  <2>2. helper' \in [Helpers -> Processes] /\ \A i \in Helpers : ~Runs(i)'
    BY <1>3, KilledFacts DEF ButtonInv, Deactivate, KillFloatButton, Runs
  <2>3. float_epoch' \in Nat /\ float_child' \in Helpers \cup {None}
    <3>1. float_epoch \in Nat
      BY DEF ButtonInv, ButtonTypeOK
    <3> QED BY <1>3, <3>1 DEF Deactivate, KillFloatButton
  <2>4. ButtonTypeOK'
    BY <1>3, <2>1, <2>2, <2>3 DEF ButtonInv, ButtonTypeOK, SessionInv, Deactivate
  <2>5. ButtonOfThisActivation'
    BY <2>2 DEF ButtonOfThisActivation
  <2> QED BY <2>1, <2>4, <2>5 DEF ButtonInv
<1>4. CASE UseKey
  <2>1. context \in Addresses \cup {None} /\ (context # None => host[context] # None)
    BY DEF ButtonInv, SessionInv, SessionTypeOK
  <2>2. SessionInv' /\ EndsOnlyDead
    BY <1>4, <2>1, UseKeepsSession DEF ButtonInv, UseKey, EndsOnlyDead
  <2> QED BY <1>4, <2>2
          DEF ButtonInv, ButtonTypeOK, SessionInv, UseKey, floatVars, serviceVars,
              ButtonOfThisActivation, Runs
<1> QED BY <1>1, <1>2, <1>3, <1>4 DEF Service

\* A helper that ends does not run again.
LEMMA HelperKeepsInv ==
    ASSUME ButtonInv, NEW i \in Helpers, Helper(i)
    PROVE  ButtonInv' /\ EndsOnlyDead
<1>1. UNCHANGED helperStep
  BY DEF Helper, Click, PipelineEnds, CancelButton, TakeResult, Expire, OwnerLost,
         OwnerBack
<1>2. SessionInv' /\ EndsOnlyDead
  BY <1>1, SameSession
     DEF ButtonInv, SessionInv, SessionTypeOK, helperStep, sessionVars, EndsOnlyDead
<1>3. helper[i] \in Processes
  BY DEF ButtonInv, ButtonTypeOK
<1>4. \E p \in Processes :
        helper' = [helper EXCEPT ![i] = p] /\ (p.at \in {"idle", "busy"} => Runs(i))
  <2>1. CASE Click(i)
    <3> DEFINE p == [[helper[i] EXCEPT !.at = "busy"] EXCEPT !.worker = "running"]
    <3>1. p \in Processes /\ helper' = [helper EXCEPT ![i] = p] /\ Runs(i)
      BY <1>3, <2>1 DEF Click, Processes, Runs
    <3> QED BY <3>1
  <2>2. CASE PipelineEnds(i)
    <3>1. PICK r \in {"reply", "failed"} :
            helper' = [helper EXCEPT ![i] = [helper[i] EXCEPT !.worker = r]]
      BY <2>2 DEF PipelineEnds
    <3>2. [helper[i] EXCEPT !.worker = r] \in Processes /\ Runs(i)
      BY <1>3, <2>2 DEF PipelineEnds, Processes, Runs
    <3> QED BY <3>1, <3>2
  <2>3. ASSUME NEW outcome, Finish(i, outcome)
        PROVE  \E p \in Processes : /\ helper' = [helper EXCEPT ![i] = p]
                                    /\ (p.at \in {"idle", "busy"} => Runs(i))
    <3> DEFINE w == Prints(outcome)
               p == [[helper[i] EXCEPT !.at = "gone"] EXCEPT !.wrote = w]
    <3>1. helper' = [helper EXCEPT ![i] = p]
      BY <2>3 DEF Finish
    <3>2. w \in BOOLEAN
      BY DEF Prints
    <3> HIDE DEF w
    <3>3. p \in Processes /\ p.at = "gone"
      BY <1>3, <3>2 DEF Processes
    <3> QED BY <3>1, <3>3
  <2>4. CASE CancelButton(i) \/ TakeResult(i) \/ Expire(i)
    BY <2>3, <2>4 DEF CancelButton, TakeResult, Expire
  <2>5. ASSUME NEW b \in BOOLEAN, Runs(i),
               helper' = [helper EXCEPT ![i] = [helper[i] EXCEPT !.lost = b]]
        PROVE  \E p \in Processes : /\ helper' = [helper EXCEPT ![i] = p]
                                    /\ (p.at \in {"idle", "busy"} => Runs(i))
    <3>1. [helper[i] EXCEPT !.lost = b] \in Processes
      BY <1>3 DEF Processes
    <3> QED BY <2>5, <3>1
  <2>6. CASE OwnerLost(i) \/ OwnerBack(i)
    BY <2>3, <2>5, <2>6 DEF OwnerLost, OwnerBack
  <2> QED BY <2>1, <2>2, <2>4, <2>6 DEF Helper
<1>5. helper' \in [Helpers -> Processes] /\ \A j \in Helpers : Runs(j)' => Runs(j)
  BY <1>4 DEF ButtonInv, ButtonTypeOK, Runs
<1>6. ButtonOfThisActivation'
  BY <1>1, <1>5 DEF ButtonInv, ButtonOfThisActivation, helperStep, serviceVars
<1> QED BY <1>1, <1>2, <1>5, <1>6
       DEF ButtonInv, ButtonTypeOK, SessionInv, helperStep, serviceVars

LEMMA ReaderKeepsInv ==
    ASSUME ButtonInv, NEW i \in Helpers, Reader(i)
    PROVE  ButtonInv' /\ EndsOnlyDead
<1>1. UNCHANGED readerStep
  BY DEF Reader, ReaderBegins, ReaderChecks, ReaderDelivers
<1>2. SessionInv' /\ EndsOnlyDead
  BY <1>1, SameSession
     DEF ButtonInv, SessionInv, SessionTypeOK, readerStep, sessionVars, EndsOnlyDead
<1>3. reader' \in [Helpers -> Threads]
  <2>1. reader[i] \in Threads /\ float_epoch \in Nat
    BY DEF ButtonInv, ButtonTypeOK
  <2>2. [at |-> "reading", epoch |-> float_epoch] \in Threads
    BY <2>1 DEF Threads
  <2>3. \A x \in {"checked", "done"} : [reader[i] EXCEPT !.at = x] \in Threads
    BY <2>1 DEF Threads
  <2>4. CASE ReaderBegins(i)
    BY <2>2, <2>4 DEF ReaderBegins, ButtonInv, ButtonTypeOK
  <2>5. CASE ReaderChecks(i)
    BY <2>3, <2>5 DEF ReaderChecks, ButtonInv, ButtonTypeOK
  <2>6. CASE ReaderDelivers(i)
    BY <2>3, <2>6 DEF ReaderDelivers, ButtonInv, ButtonTypeOK
  <2> QED BY <2>4, <2>5, <2>6 DEF Reader
<1>4. trigger_results' \in Seq(Helpers)
  BY AppendProperties DEF Reader, ReaderBegins, ReaderChecks, ReaderDelivers,
                          ButtonInv, ButtonTypeOK
<1> QED BY <1>1, <1>2, <1>3, <1>4
       DEF ButtonInv, ButtonTypeOK, SessionInv, readerStep, serviceVars, ButtonOfThisActivation,
           Runs

LEMMA HostKeepsInv ==
    ASSUME ButtonInv, Host
    PROVE  ButtonInv' /\ EndsOnlyDead
<1>1. SessionInv' /\ UNCHANGED ended
  <2>1. ASSUME NEW h \in Handles, NEW a \in Addresses, OpenWindow(h, a)
        PROVE  SessionInv' /\ UNCHANGED ended
    BY <2>1, OpenKeepsSession DEF ButtonInv, OpenWindow
  <2>2. ASSUME NEW h \in Handles, CloseWindow(h)
        PROVE  SessionInv' /\ UNCHANGED ended
    BY <2>2, CloseKeepsSession DEF ButtonInv, CloseWindow
  <2>3. ASSUME NEW a \in Addresses, HandleKey(a)
        PROVE  SessionInv' /\ UNCHANGED ended
    BY <2>3, SameSession DEF ButtonInv, HandleKey, Lives
  <2> QED BY <2>1, <2>2, <2>3 DEF Host
<1>2. UNCHANGED floatVars
  BY DEF Host
<1> QED BY <1>1, <1>2
       DEF ButtonInv, ButtonTypeOK, SessionInv, floatVars, serviceVars, ButtonOfThisActivation,
           Runs, EndsOnlyDead

LEMMA ButtonInitInv == ButtonInit => ButtonInv
<1> SUFFICES ASSUME ButtonInit PROVE ButtonInv
  OBVIOUS
<1>1. SessionTypeOK
  BY SessionAssumption DEF ButtonInit, SessionInit, SessionTypeOK
<1>2. SessionInv
  BY <1>1, SessionAssumption
     DEF ButtonInit, SessionInit, SessionInv, HostInv, ListInv, UsedInv, KeyOfOneWindow,
         CacheInv, Listed
<1>3. ButtonTypeOK
  <2>1. 0 \in 0..MaxActivations
    BY Retries
  <2> DEFINE q == [at |-> "none", lost |-> FALSE, worker |-> "none",
                   wrote |-> FALSE, born |-> 0]
  <2>2. q \in Processes
    BY <2>1 DEF Processes
  <2>3. [at |-> "none", epoch |-> 0] \in Threads
    BY DEF Threads
  <2>4. helper = [i \in Helpers |-> q]
    BY DEF ButtonInit
  <2> HIDE DEF q
  <2>5. helper \in [Helpers -> Processes] /\ reader \in [Helpers -> Threads]
    BY <2>2, <2>3, <2>4 DEF ButtonInit
  <2>6. trigger_results \in Seq(Helpers)
    BY DEF ButtonInit
  <2> QED BY <1>1, <2>1, <2>5, <2>6 DEF ButtonInit, ButtonTypeOK
<1>4. ButtonOfThisActivation
  BY DEF ButtonInit, ButtonOfThisActivation, Runs
<1> QED BY <1>2, <1>3, <1>4 DEF ButtonInv

LEMMA NextKeepsInv ==
    ButtonInv /\ [ButtonNext]_buttonVars =>
        ButtonInv' /\ (EndsOnlyDead \/ UNCHANGED buttonVars)
<1> SUFFICES ASSUME ButtonInv, [ButtonNext]_buttonVars
             PROVE  ButtonInv' /\ (EndsOnlyDead \/ UNCHANGED buttonVars)
  OBVIOUS
<1>1. CASE ButtonNext
  BY <1>1, HostKeepsInv, ServiceKeepsInv, HelperKeepsInv, ReaderKeepsInv DEF ButtonNext
<1>2. CASE UNCHANGED buttonVars
  <2>1. SessionInv'
    BY <1>2, SameSession DEF ButtonInv, SessionInv, SessionTypeOK, buttonVars, sessionVars
  <2> QED BY <1>2, <2>1
          DEF ButtonInv, ButtonTypeOK, SessionInv, buttonVars, floatVars, serviceVars,
              ButtonOfThisActivation, Runs
<1> QED BY <1>1, <1>2

(***************************************************************************)
(* The theorems.                                                           *)
(***************************************************************************)
\* The variables of keys and button keep their types.
THEOREM ButtonTypeCorrect == ButtonSpec => []ButtonTypeOK
<1>1. ButtonInv => ButtonTypeOK
  BY DEF ButtonInv
<1> QED BY <1>1, ButtonInitInv, NextKeepsInv, PTL DEF ButtonSpec

\* However the system recycles addresses and handles and the list of contexts
\* loses its oldest, no key names two windows (run FloatSessions).
THEOREM KeysAreUnique == ButtonSpec => []KeyOfOneWindow
<1>1. ButtonInv => KeyOfOneWindow
  BY DEF ButtonInv, SessionInv
<1> QED BY <1>1, ButtonInitInv, NextKeepsInv, PTL DEF ButtonSpec

\* A button runs only while the service is active, and as the one that
\* kill_float_button finds (run FloatSessions).
THEOREM ButtonsStay == ButtonSpec => []ButtonOfThisActivation
<1>1. ButtonInv => ButtonOfThisActivation
  BY DEF ButtonInv
<1> QED BY <1>1, ButtonInitInv, NextKeepsInv, PTL DEF ButtonSpec

\* No window that is open loses its session (run FloatSessions).
THEOREM LiveWindowsSpared == ButtonSpec => EndSparesLiveWindows
<1>1. ButtonInv /\ [ButtonNext]_buttonVars =>
        [\A u \in used : u.key \in ended' \ ended =>
            \A h \in Handles : owner[h] # u.window]_sessionVars
  BY NextKeepsInv DEF EndsOnlyDead, buttonVars
<1> QED BY <1>1, ButtonInitInv, NextKeepsInv, PTL DEF ButtonSpec, EndSparesLiveWindows
=============================================================================
