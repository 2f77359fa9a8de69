------------------------------ MODULE MCRouting ------------------------------
(* Small networks for the model checker: a triangle, where a ping can come   *)
(* back to its origin, and a line, where it cannot.                          *)
EXTENDS Routing

CONSTANTS a, b, c, gui, file

Three == {a, b, c}
Triangle == {<<x, y>> \in Three \X Three : x # y}
Line == {<<a, b>>, <<b, a>>, <<b, c>>, <<c, b>>}

\* Only a originates pings, those of the sessions below 3.
OneOrigin == [n \in Three |-> IF n = a THEN 3 ELSE 0]
OneDeclares == [n \in Three |-> IF n = a THEN 1 ELSE 0]

\* Two sessions of the end of the line.
LastSession == [n \in Three |-> IF n = a THEN 2 ELSE 0]

\* The far side of the triangle.
FarSide == {<<b, c>>, <<c, b>>}
=============================================================================
