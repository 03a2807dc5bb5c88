--------------------------- MODULE CandidateWindow ---------------------------
(***************************************************************************)
(* The candidate window as the two front ends show it.  Both build a       *)
(* controller (verba-candidate: what is listed, the page, the highlighted  *)
(* entry, or the block of an AI result), compute the window's size from    *)
(* the theme, and place it beside the line being composed.                 *)
(*                                                                         *)
(* On Windows the place of that line is asked of the host inside an edit   *)
(* session and may not be known yet: the window is then put at the view's  *)
(* corner and a timer asks again, a bounded number of times.  The area of  *)
(* the text recognised on the screen is put where its command was given,   *)
(* which is remembered when the command ends its composition.  On macOS    *)
(* the place is asked for whenever the panel is refreshed.                 *)
(*                                                                         *)
(* The machine's list is an input: its length, and the page and entry of   *)
(* the machine's own selection (module CompositionMachine keeps them).     *)
(***************************************************************************)
EXTENDS WindowPlacement

CONSTANTS
    Platforms,          \* the front ends a run looks at
    Monitors, Main,     \* the monitors, each with its frame and work area
    Carets,             \* lines a host reports, some of them off the screen
    Corners,            \* upper left corners of a view, as anchors
    Lists,              \* [n, page, sel]: the machine's lists and selection
    LineCounts,         \* numbers of lines a result takes when it is laid out
    Themes,             \* themes of the configuration
    Scales,             \* scale factors of the monitors, in percent
    CandidatePosRetryTicks  \* times the place is asked for again

\* The upper left corner of the screen stands for a place nobody knows.
Origin == [x |-> 0, top |-> 0, bottom |-> 0]
NoAnchor == [known |-> FALSE, at |-> Origin]
Known(anchor) == [known |-> TRUE, at |-> anchor]
NoRetry == -1

ASSUME MonitorsAssumption ==
    /\ Main \in Monitors /\ Monitors \subseteq [frame : Areas, work : Areas]
    /\ \A m \in Monitors : Rectangle(m.frame) /\ Rectangle(m.work)
ASSUME CaretsAssumption ==
    /\ Carets \subseteq Anchors /\ \A c \in Carets : Upright(c)
    /\ Corners \subseteq Anchors /\ \A c \in Corners : Upright(c)
ASSUME RetryAssumption == CandidatePosRetryTicks \in Nat
ASSUME PlatformsAssumption == Platforms \subseteq {"windows", "macos"}

\* Every theme of the program lists nine entries on a page, as the machine does.
PageSize == 9
ThemeSet ==
    [font_size : Nat, padding : Nat, item_height : Nat, max_width : Nat,
     max_width_horizontal : Nat, header_height : Nat, footer_height : Nat,
     show_preedit : BOOLEAN, horizontal : BOOLEAN]
NoList == [n |-> 0, page |-> 0, sel |-> 0]
\* The machine's selection is an entry of its page: module CompositionMachine.
Selectable == {list \in [n : Nat, page : Nat, sel : Nat] :
                 list = NoList \/ (list.sel < PageSize
                                   /\ list.page * PageSize + list.sel < list.n)}
ASSUME SizesAssumption ==
    /\ Themes \subseteq ThemeSet /\ Scales \subseteq Nat \ {0}
    /\ LineCounts \subseteq Nat /\ Lists \subseteq Selectable

VARIABLES
    platform,   \* the front end at work
    theme,      \* the theme read last
    composing,  \* a composition is open
    machine,    \* the machine's list and selection; n = 0 outside a list
    caret,      \* what the host answers for the composition's line
    win,        \* the window: its place, its size, what it shows
    pending,    \* attempts left to find the caret, or NoRetry
    stash       \* where the last command was given, for its preview
vars == <<platform, theme, composing, machine, caret, win, pending, stash>>
-----------------------------------------------------------------------------
(* The controller and the size of the window.                              *)

\* A pixel size under a scale, never rounded down to nothing.
ScaledTo(v, scale) == AtLeast((v * scale + 50) \div 100, 1)
Scaled(t, scale) ==
    [t EXCEPT !.font_size = ScaledTo(@, scale), !.padding = ScaledTo(@, scale),
              !.item_height = ScaledTo(@, scale),
              !.max_width = ScaledTo(@, scale),
              !.max_width_horizontal = ScaledTo(@, scale),
              !.header_height = ScaledTo(@, scale),
              !.footer_height = ScaledTo(@, scale)]

\* A fresh controller lists nothing; set_candidates selects the first entry.
Blank == [n |-> 0, page |-> 0, sel |-> 0, lines |-> 0, status |-> FALSE,
          preedit |-> FALSE]
SetCandidates(c, n) == [c EXCEPT !.n = n, !.page = 0, !.sel = 0]
TotalPages(c) == (c.n + PageSize - 1) \div PageSize
PageItems(c) == AtLeast(AtMost(c.n - c.page * PageSize, PageSize), 0)
\* A page past the end is the last one; the selection goes to its first entry.
SetPage(c, p) ==
    [c EXCEPT !.page = IF c.n = 0 THEN 0 ELSE AtMost(p, TotalPages(c) - 1),
              !.sel = 0]
\* An entry that is not on the page is not selected.
SelectRelative(c, i) == IF i < PageItems(c) THEN [c EXCEPT !.sel = i] ELSE c
SetResultLines(c, lines) == [c EXCEPT !.lines = AtLeast(lines, 1)]
ShouldRender(c) == c.n > 0 \/ c.lines > 0

StatusHeight(c, t) == IF c.status THEN AtLeast(t.font_size + 4, 16) ELSE 0
HeaderHeight(c, t) == IF t.show_preedit /\ c.preedit THEN t.header_height ELSE 0
FooterHeight(c, t) == IF TotalPages(c) > 1 THEN t.footer_height ELSE 0
ResultHeight(t, lines) == (lines * t.font_size * 13 + 9) \div 10
WindowWidth(t) == IF t.horizontal THEN t.max_width_horizontal ELSE t.max_width
WindowHeight(c, t) ==
    t.padding * 2 + StatusHeight(c, t)
    + IF c.lines > 0 THEN ResultHeight(t, c.lines)
      ELSE HeaderHeight(c, t) + FooterHeight(c, t)
           + t.item_height * (IF t.horizontal THEN 1 ELSE PageItems(c))

-----------------------------------------------------------------------------
(* Windows.                                                                *)

\* The work area of the monitor next to a point, by squared distance.
Off(v, lo, hi) == IF v < lo THEN lo - v ELSE IF v >= hi THEN v - hi + 1 ELSE 0
Distance(area, x, y) ==
    LET dx == Off(x, area.left, area.right)
        dy == Off(y, area.top, area.bottom)
    IN  dx * dx + dy * dy
IsNearest(m, x, y) ==
    \A o \in Monitors : Distance(m.frame, x, y) <= Distance(o.frame, x, y)
MonitorWorkArea(x, y) ==
    IF \E m \in Monitors : IsNearest(m, x, y)
    THEN (CHOOSE m \in Monitors : IsNearest(m, x, y)).work ELSE Main.work
\* Whatever a window is placed at, and the work area beside its lower edge.
Places == Carets \cup Corners \cup {Origin}
WorkArea == [a \in Places |-> MonitorWorkArea(a.x, a.bottom)]

Hidden(w) == [w EXCEPT !.visible = FALSE]

\* The window drawn from a controller, at an anchor, under a monitor's scale.
Drawn(c, anchor, scale) ==
    LET t == Scaled(theme, scale)
        w == WindowWidth(t)
        h == WindowHeight(c, t)
        p == FitPosition(anchor, w, h, WorkArea[anchor])
    IN  [visible |-> TRUE, x |-> p.x, y |-> p.y, w |-> w, h |-> h, shows |-> c,
         at |-> anchor]

\* CandidateWindow::update
Update(c, anchor) ==
    IF ShouldRender(c)
    THEN \E scale \in Scales : win' = Drawn(c, anchor, scale)
    ELSE win' = Hidden(win)

\* CandidateWindow::move_to shows the window too, in the size drawn last.
MoveTo(anchor) ==
    LET p == FitPosition(anchor, win.w, win.h, WorkArea[anchor])
    IN  win' = [win EXCEPT !.visible = TRUE, !.x = p.x, !.y = p.y,
                           !.at = anchor]

\* The view's corner, which the host may not know either.
ViewFallbacks == Corners \cup {Origin}

\* The machine's list as it is shown: setting the page selects its first
\* entry, so the machine's entry is selected after it.
Paged(list) ==
    SetPage([SetCandidates(Blank, list.n) EXCEPT !.preedit = TRUE], list.page)
\* Fault: the entry is selected before the page is set.
SelectedTooEarly(list) ==
    LET first == [SetCandidates(Blank, list.n) EXCEPT !.preedit = TRUE]
    IN  SetPage(SelectRelative(first, AtMost(list.sel, list.n - 1)), list.page)
Listing(list) == SelectRelative(Paged(list), AtMost(list.sel, list.n - 1))

\* A key or an answer changed the list: update_candidate_window.  An empty
\* list leaves the window as it is, so that it does not flicker at each key.
UpdateCandidateWindow(list) ==
    /\ platform = "windows"
    /\ machine' = list /\ composing' = TRUE
    /\ IF list.n = 0 THEN UNCHANGED <<win, pending>>
       ELSE IF caret # NoAnchor
       THEN pending' = NoRetry /\ Update(Listing(list), caret.at)
       ELSE /\ pending' = CandidatePosRetryTicks
            /\ \E view \in ViewFallbacks : Update(Listing(list), view)
    /\ UNCHANGED <<platform, theme, caret, stash>>

\* The comparison of a rewritten text with its source, and the overlay of a
\* result: at the caret, else at the view, and not asked for again.
Overlays ==
    {[SetCandidates(Blank, 2) EXCEPT !.status = TRUE]}
    \cup {[SetResultLines(Blank, lines) EXCEPT !.status = TRUE] :
             lines \in LineCounts}
ShowOverlay ==
    /\ platform = "windows" /\ composing
    /\ \E c \in Overlays :
          IF caret # NoAnchor THEN Update(c, caret.at)
          ELSE \E view \in ViewFallbacks : Update(c, view)
    /\ machine' = NoList
    /\ UNCHANGED <<platform, theme, composing, caret, pending, stash>>

\* hide_candidate_window: a prompt begins, or the composition ended.
HideCandidateWindow ==
    /\ platform = "windows"
    /\ win' = Hidden(win) /\ pending' = NoRetry /\ machine' = NoList
    /\ \/ composing' = TRUE /\ UNCHANGED caret
       \/ composing' = FALSE /\ caret' = NoAnchor
    /\ UNCHANGED <<platform, theme, stash>>

\* tsf_deactivate forgets the composition and leaves the window.
TsfDeactivate ==
    /\ platform = "windows"
    /\ pending' = NoRetry /\ machine' = NoList
    /\ composing' = FALSE /\ caret' = NoAnchor
    /\ UNCHANGED <<platform, theme, win, stash>>

\* Fault: the attempts are counted before the last is made.
LastAttemptLost ==
    /\ platform = "windows" /\ pending # NoRetry
    /\ IF pending > 1 /\ caret # NoAnchor
       THEN pending' = NoRetry /\ MoveTo(caret.at)
       ELSE pending' = pending - 1 /\ UNCHANGED win
    /\ UNCHANGED <<platform, theme, composing, machine, caret, stash>>
\* retry_candidate_pos, at a tick of the timer.
RetryCandidatePos ==
    /\ platform = "windows" /\ pending # NoRetry
    /\ IF pending > 0 /\ caret # NoAnchor
       THEN pending' = NoRetry /\ MoveTo(caret.at)
       ELSE pending' = pending - 1 /\ UNCHANGED win
    /\ UNCHANGED <<platform, theme, composing, machine, caret, stash>>

\* A command of a prompt ends its composition and has something recognised:
\* the caret, or the view, is remembered when the host knows either
\* (stash_ocr_anchor).
StashOcrAnchor ==
    /\ platform = "windows" /\ composing /\ machine.n = 0 /\ ~win.visible
    /\ IF caret # NoAnchor THEN stash' = caret
       ELSE \E view \in Corners \cup {NoAnchor} :
                stash' = IF view = NoAnchor THEN stash ELSE Known(view)
    /\ composing' = FALSE /\ caret' = NoAnchor
    /\ UNCHANGED <<platform, theme, machine, win, pending>>

\* The hotkey has something recognised without a composition.
ResetOcrAnchor ==
    /\ platform = "windows" /\ stash' = NoAnchor
    /\ UNCHANGED <<platform, theme, composing, machine, caret, win, pending>>

\* The recognised text is shown where its command was given, once.
ShowOcrPreview ==
    /\ platform = "windows" /\ ~composing
    /\ \E lines \in LineCounts :
          LET c == [SetResultLines(Blank, lines) EXCEPT !.status = TRUE]
          IN  IF stash # NoAnchor THEN Update(c, stash.at)
              ELSE \E view \in ViewFallbacks : Update(c, view)
    /\ stash' = NoAnchor
    /\ UNCHANGED <<platform, theme, composing, machine, caret, pending>>

-----------------------------------------------------------------------------
(* macOS: the panel is refreshed from the controller's list and page.      *)

\* The work area of the display a point is on, else the main display's frame.
On(area, x, y) ==
    area.left <= x /\ x <= area.right /\ area.top <= y /\ y <= area.bottom
DisplayWorkArea(x, y) ==
    IF \E m \in Monitors : On(m.frame, x, y)
    THEN (CHOOSE m \in Monitors : On(m.frame, x, y)).work ELSE Main.frame
PanelArea == [a \in Places |-> DisplayWorkArea(a.x, a.top)]

Showing(c, scale) ==
    LET t == Scaled(theme, scale)
        w == (WindowWidth(t) * 100 + scale \div 2) \div scale
        h == (WindowHeight(c, t) * 100 + scale \div 2) \div scale
        area == IF caret = NoAnchor THEN Main.frame ELSE PanelArea[caret.at]
        p == IF caret = NoAnchor THEN CornerCg(w, h, area)
             ELSE AnchorCg(caret.at, w, h, area)
    IN  [visible |-> TRUE, x |-> p.x, y |-> p.y, w |-> w, h |-> h, shows |-> c,
         at |-> caret.at]

\* The entry the machine has selected is not given to the panel.
RefreshCandidateWindow(list) ==
    /\ platform = "macos" /\ machine' = list /\ composing' = TRUE
    /\ IF list.n = 0 THEN UNCHANGED win
       ELSE \E scale \in Scales : win' = Showing(Paged(list), scale)
    /\ UNCHANGED <<platform, theme, caret, pending, stash>>

HidePanel ==
    /\ platform = "macos" /\ win' = Hidden(win) /\ machine' = NoList
    /\ composing' = FALSE /\ caret' = NoAnchor
    /\ UNCHANGED <<platform, theme, pending, stash>>

-----------------------------------------------------------------------------
(* The host, the settings, and the whole.                                  *)

\* The host lays the composition out anew: it moves, or has no place yet.
HostLaysOut ==
    /\ composing
    /\ caret' \in {NoAnchor} \cup {Known(c) : c \in Carets}
    /\ UNCHANGED <<platform, theme, composing, machine, win, pending, stash>>

\* The timer finds the settings file changed and reads the theme again.
ReloadCandidateConfig ==
    /\ theme' \in Themes
    /\ UNCHANGED <<platform, composing, machine, caret, win, pending, stash>>

Init ==
    /\ platform \in Platforms /\ theme \in Themes
    /\ composing = FALSE /\ machine = NoList /\ caret = NoAnchor
    /\ win = [visible |-> FALSE, x |-> 0, y |-> 0, w |-> 10, h |-> 10,
              shows |-> Blank, at |-> Origin]
    /\ pending = NoRetry /\ stash = NoAnchor

Next ==
    \/ \E list \in Lists :
          UpdateCandidateWindow(list) \/ RefreshCandidateWindow(list)
    \/ ShowOverlay \/ HideCandidateWindow \/ TsfDeactivate \/ RetryCandidatePos
    \/ StashOcrAnchor \/ ResetOcrAnchor \/ ShowOcrPreview
    \/ HidePanel \/ HostLaysOut \/ ReloadCandidateConfig

\* The timer of the text service keeps firing while it is active.
Spec == Init /\ [][Next]_vars /\ WF_vars(RetryCandidatePos)

-----------------------------------------------------------------------------
(* Properties.                                                             *)

Controllers == [n : Nat, page : Nat, sel : Nat, lines : Nat,
                status : BOOLEAN, preedit : BOOLEAN]
Asked == [known : BOOLEAN, at : Places]
Drawings == [visible : BOOLEAN, x : Int, y : Int, w : Nat, h : Nat,
             shows : Controllers, at : Places]
TypeOK ==
    /\ platform \in {"windows", "macos"} /\ theme \in ThemeSet
    /\ composing \in BOOLEAN /\ machine \in Selectable
    /\ caret \in Asked /\ stash \in Asked
    /\ win \in Drawings
    /\ pending \in Int /\ pending >= NoRetry

\* Wherever a host says the caret is, the window lies on one monitor's work
\* area (on macOS the main display's frame when the caret is on none), or
\* starts at its upper left edge when it is larger: fit_position and
\* anchor_cg, also for the move of a retry, which takes the size drawn last.
ScreenAreas == {m.work : m \in Monitors} \cup
               (IF platform = "macos" THEN {Main.frame} ELSE {})
WindowOnScreen ==
    win.visible => \E area \in ScreenAreas : Readable(win, win.w, win.h, area)

\* The window does not cover the line it was placed for when there is room
\* for it over or under that line.
LineStaysFree ==
    LET area == IF platform = "windows"
                THEN WorkArea[win.at]
                ELSE PanelArea[win.at]
        gap == IF platform = "windows" THEN 0 ELSE CandGap
    IN  win.visible /\ win.at # Origin /\ LineInside(win.at, area)
            /\ RoomBeside(win.h + gap, win.at, area)
        => Clear(win, win.h, win.at)

\* Both together: wherever the host says the line is, the list is on the screen
\* and the line readable beside it, through retries, moves and new themes.
WindowPlaced == WindowOnScreen /\ LineStaysFree

\* A retry shows the window (SWP_SHOWWINDOW), so none is left waiting when
\* the window is hidden: it would bring back a list that was sent.
RetryMovesShownWindow == pending # NoRetry => win.visible

\* The entry drawn as selected is the one the machine would send at the next
\* space: same page, same entry, of a list of the same length.
HighlightIsSelected ==
    win.visible /\ win.shows.n > 0 /\ machine.n > 0
        => /\ win.shows.n = machine.n /\ win.shows.page = machine.page
           /\ win.shows.sel = machine.sel
WindowsHighlight == platform = "windows" => HighlightIsSelected

\* A list placed at the view's corner gets to the caret once the host keeps
\* answering where it is, before the attempts run out.
CoarseIsCorrected ==
    (pending > 0 /\ caret # NoAnchor)
        ~> (win.at = caret.at \/ caret = NoAnchor \/ ~win.visible)
=============================================================================
