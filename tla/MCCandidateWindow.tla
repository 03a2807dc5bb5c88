-------------------------- MODULE MCCandidateWindow --------------------------
(***************************************************************************)
(* The candidate window on two monitors of different heights side by side, *)
(* with the default theme, upright and as a row.  The lines a host reports *)
(* include one at the lower edge, one hundreds of pixels below the screen, *)
(* as terminals do, one above it and one between the monitors' edges; the  *)
(* results include one taller than a monitor.                              *)
(***************************************************************************)
EXTENDS CandidateWindow

Area(left, top, right, bottom) ==
    [left |-> left, top |-> top, right |-> right, bottom |-> bottom]
MCMain == [frame |-> Area(0, 0, 1920, 1080), work |-> Area(0, 25, 1920, 1040)]
MCMonitors ==
    {MCMain, [frame |-> Area(1920, 0, 3200, 720),
              work |-> Area(1920, 30, 3200, 720)]}
Line(x, top, height) == [x |-> x, top |-> top, bottom |-> top + height]
MCCarets ==
    {Line(100, 200, 20), Line(1800, 1010, 28), Line(2000, 1500, 20),
     Line(3190, -60, 20), Line(2500, 400, 30)}
MCCorners == {Line(1500, 60, 8)}
MCLists ==
    {[n |-> n, page |-> p, sel |-> s] :
        n \in {0, 10}, p \in {0, 1}, s \in {0, 3}}
    \ {[n |-> 10, page |-> 1, sel |-> 3], [n |-> 0, page |-> 0, sel |-> 3],
       [n |-> 0, page |-> 1, sel |-> 0], [n |-> 0, page |-> 1, sel |-> 3]}
Default ==
    [font_size |-> 18, padding |-> 6, item_height |-> 30,
     max_width |-> 360, max_width_horizontal |-> 560, header_height |-> 32,
     footer_height |-> 18, show_preedit |-> TRUE, horizontal |-> FALSE]
MCThemes == {Default, [Default EXCEPT !.horizontal = TRUE]}
=============================================================================
