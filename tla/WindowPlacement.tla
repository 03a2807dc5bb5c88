-------------------------- MODULE WindowPlacement --------------------------
(***************************************************************************)
(* Where the windows of the input method are put: the candidate window of  *)
(* both front ends, the area photographed for a prompt that asks about the *)
(* screen, and the floating button.  All of it is arithmetic on integer    *)
(* screen coordinates, y growing downwards; the Cocoa coordinates of macOS *)
(* are converted before and after, at the border of these functions.       *)
(*                                                                         *)
(* An anchor is the line of text the window belongs to: its left edge x    *)
(* and its upper and lower edge.  An area is a rectangle of the screen:    *)
(* a monitor without its task bar, menu bar or dock.                       *)
(***************************************************************************)
EXTENDS Integers

AtLeast(v, lo) == IF v < lo THEN lo ELSE v
AtMost(v, hi) == IF v > hi THEN hi ELSE v
Clamp(v, lo, hi) == AtMost(AtLeast(v, lo), AtLeast(hi, lo))

Areas == [left : Int, top : Int, right : Int, bottom : Int]
Rectangle(area) ==
    area \in Areas /\ area.left < area.right /\ area.top < area.bottom
Anchors == [x : Int, top : Int, bottom : Int]

\* The line itself, for an anchor a host may report upside down.
Upright(anchor) == anchor.top <= anchor.bottom

\* An anchor a host reports outside the area is moved into it as a whole.
PulledIn(anchor, area) ==
    LET height == AtLeast(anchor.bottom - anchor.top, 1)
    IN  IF anchor.bottom > area.bottom
        THEN [x |-> anchor.x, top |-> AtLeast(area.bottom - height, area.top),
              bottom |-> area.bottom]
        ELSE IF anchor.top < area.top
        THEN [x |-> anchor.x, top |-> area.top,
              bottom |-> AtMost(area.top + height, area.bottom)]
        ELSE anchor

\* Left-aligned with the line, moved into the area; flush left when too wide.
FitX(x, w, area) == Clamp(x, area.left, area.right - w)

\* The larger of the two gaps decides which edge a window too tall for both
\* is put against.
AgainstEdge(above, below, h, area) ==
    IF above >= below THEN area.top ELSE AtLeast(area.bottom - h, area.top)

\* Fault: a window put over the line begins at the line's lower edge.
FlipsOntoLine(anchor, w, h, area) ==
    LET line == PulledIn(anchor, area)
        over == AtLeast(line.bottom - h, area.top)
    IN  [x |-> FitX(anchor.x, w, area),
         y |-> IF line.bottom + h <= area.bottom THEN line.bottom ELSE over]
\* Windows: the candidate window goes under the line, over it when there is
\* no room, and against an edge when neither fits.
FitPosition(anchor, w, h, area) ==
    LET line == PulledIn(anchor, area)
    IN  [x |-> FitX(anchor.x, w, area),
         y |-> IF line.bottom + h <= area.bottom THEN line.bottom
               ELSE IF line.top - h >= area.top /\ line.top <= area.bottom
               THEN line.top - h
               ELSE AgainstEdge(line.top - area.top, area.bottom - line.bottom,
                                h, area)]

\* Windows: what is photographed lies over the line, a gap away, or under it.
FitEyeRect(anchor, w, h, offset, area) ==
    LET off == AtLeast(offset, 0)
        above == anchor.top - off - area.top
        below == area.bottom - anchor.bottom
    IN  [x |-> FitX(anchor.x, w, area),
         y |-> IF h <= above THEN anchor.top - off - h
               ELSE IF h <= below THEN anchor.bottom
               ELSE AgainstEdge(above, below, h, area)]

\* The settings are raised to 64 pixels before either platform uses them.
MinEye == 64
EyeRect(anchor, w, h, offset, area) ==
    FitEyeRect(anchor, AtLeast(w, MinEye), AtLeast(h, MinEye), offset, area)

\* macOS photographs the same rectangle.
VisionRect(anchor, w, h, offset, area) ==
    LET off == AtLeast(offset, 0)
        width == AtLeast(w, MinEye)
        height == AtLeast(h, MinEye)
        above == anchor.top - off - area.top
        below == area.bottom - anchor.bottom
    IN  [x |-> FitX(anchor.x, width, area),
         y |-> IF height <= above THEN anchor.top - off - height
               ELSE IF height <= below THEN anchor.bottom
               ELSE AgainstEdge(above, below, height, area)]

\* macOS: the candidate panel keeps a gap from the line, and is moved into
\* the area at the end; without a caret it stands in the area's corner.
CandGap == 4
PanelInset == 8
AnchorCg(anchor, w, h, area) ==
    LET below == anchor.bottom + CandGap
        above == anchor.top - CandGap - h
        y == IF below + h <= area.bottom THEN below
             ELSE IF above >= area.top THEN above
             ELSE AgainstEdge(anchor.top - area.top,
                              area.bottom - anchor.bottom, h, area)
    IN  [x |-> FitX(anchor.x, w, area),
         y |-> Clamp(y, area.top, area.bottom - h)]
CornerCg(w, h, area) ==
    [x |-> FitX(area.left + PanelInset, w, area),
     y |-> Clamp(area.top + PanelInset, area.top, area.bottom - h)]

\* macOS: the bubble stands under the caret's line inside the window that has
\* the focus, or over it, or to its left; without a caret in its upper right.
BubbleSize == 22
BubbleGap == 16
BubbleMargin == 12
BubbleAnchor(anchor, window) ==
    LET under == anchor.bottom + BubbleGap
        y == IF under + BubbleSize > window.bottom
             THEN anchor.top - BubbleGap - BubbleSize ELSE under
        x == IF anchor.x + BubbleSize > window.right
             THEN anchor.x - BubbleGap - BubbleSize ELSE anchor.x
    IN  [x |-> FitX(x, BubbleSize, window),
         y |-> Clamp(y, window.top, window.bottom - BubbleSize)]
BubbleCorner(window) ==
    [x |-> FitX(window.right - BubbleSize - BubbleMargin, BubbleSize, window),
     y |-> Clamp(window.top + BubbleMargin, window.top,
                 window.bottom - BubbleSize)]

\* The button of the floating window: right below the corner it is given,
\* above it when there is no room, and never left of or above the area.
ButtonSize == 44
ButtonGap == 8
ButtonOrigin(x, y, area) ==
    LET right == x + ButtonGap
        under == y + ButtonGap
        px == IF right + ButtonSize > area.right
              THEN AtLeast(area.right - ButtonSize, area.left) ELSE right
        py == IF under + ButtonSize > area.bottom
              THEN AtLeast(y - ButtonGap - ButtonSize, area.top) ELSE under
    IN  [x |-> AtLeast(px, area.left), y |-> AtLeast(py, area.top)]

-----------------------------------------------------------------------------
\* What the placements promise, for a rectangle of size w by h put at p.
Inside(p, w, h, area) ==
    /\ area.left <= p.x /\ p.x + w <= area.right
    /\ area.top <= p.y /\ p.y + h <= area.bottom
Fits(w, h, area) ==
    w <= area.right - area.left /\ h <= area.bottom - area.top

\* A window larger than the area starts at the area's corner, so that its
\* beginning can be read; one that fits lies in it.
Readable(p, w, h, area) ==
    /\ area.left <= p.x /\ area.top <= p.y
    /\ p.x + w <= area.right \/ p.x = area.left
    /\ p.y + h <= area.bottom \/ p.y = area.top

\* The rectangle leaves the line free: it lies wholly over or under it.
Clear(p, h, anchor) == p.y + h <= anchor.top \/ anchor.bottom <= p.y
LineInside(anchor, area) ==
    /\ area.top <= anchor.top /\ anchor.top <= anchor.bottom
    /\ anchor.bottom <= area.bottom
RoomBeside(h, anchor, area) ==
    anchor.bottom + h <= area.bottom \/ anchor.top - h >= area.top
=============================================================================
