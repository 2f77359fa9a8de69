-------------------------------- MODULE MCGui --------------------------------
(***************************************************************************)
(* Two small windows on a screen of a few pixels: one with a border and a  *)
(* translucent title, one with a shadow and a button.  On the other bench  *)
(* a program pastes and removes rectangles of the region of a window.      *)
(***************************************************************************)
EXTENDS Gui

CONSTANTS main, tool, title, button

ASSUME MCGuiAssumption == tool \in Windows

VARIABLE bench

MCHeld == (main :> title) @@ (tool :> button)
MCBorder == [v \in Windows \cup Controls |-> IF v = main THEN 1 ELSE 0]
MCShadow == [v \in Windows \cup Controls |-> IF v = tool THEN 1 ELSE 0]
MCPrefSize == [c \in Controls |-> [w |-> 1, h |-> 1]]
MCLauncherBox == Box(1, 0, 3, 3)
MCScreenBox == Box(0, 0, 5, 3)
MCSizes == {<<3, 3>>}
MCPoints == {<<2, 1>>, <<3, 1>>, <<5, 1>>}
MCCuts == {r \in [x : 0 .. 2, y : 0 .. 2, x1 : 1 .. 3, y1 : 1 .. 3] : ~IsEmpty(r)}

MCInit == Init /\ bench \in {"screen", "regions"}
MCNext ==
  /\ bench' = bench
  /\ \/ bench = "screen" /\ Step
     \/ bench = "regions" /\ \E r \in Cuts : Mend(tool, r)

MCSpec == MCInit /\ [][MCNext]_<<vars, bench>>

\* RegionOps (Gui.tla) for every list a program makes of the region its window
\* covers, and every rectangle (region.cpp).
RegionsExact == bench = "regions" => \A c \in Cuts : RegionOps(tree.opaque[tool], c)
=============================================================================
