------------------------------ MODULE MCScreen ------------------------------
(* Values for the constants of Screen.                                     *)
EXTENDS Screen

\* Every layout and both sides of each threshold: two lines, compact header,
\* panes, popup with and without the blank line, honesty line.
AllHeights == 0..12
\* No pane below 25 columns, no detail pane below 61, no popup below 66, no
\* connection in the footer of an unreachable UI below 67.
AllWidths == {1, 24, 25, 60, 61, 65, 66, 80}
AllCaps == {-1, 0, 2}
=============================================================================
