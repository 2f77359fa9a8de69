----------------------------- MODULE MCParcels -----------------------------
(* Two parallel links and a third one behind them: a parcel of two fragments *)
(* that crosses both hops and a short message from the node in the middle.   *)
EXTENDS Parcels

CONSTANTS a, b, c, big, small, near, also, far

Starts == [m \in {big, small} |-> IF m = big THEN a ELSE b]
Ends == [m \in {big, small} |-> c]
Sizes == [m \in {big, small} |-> IF m = big THEN 2 ELSE 1]
Heads == [l \in {near, also, far} |-> IF l = far THEN b ELSE a]
Tails == [l \in {near, also, far} |-> IF l = far THEN c ELSE b]

\* Only a needs a via: b leads to c.
LineVias == [n \in {a, b, c} |-> [o \in {a, b, c} |->
               IF n = a /\ o = c THEN {b} ELSE {}]]
=============================================================================
