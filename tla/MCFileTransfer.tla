--------------------------- MODULE MCFileTransfer ---------------------------
(* Three services, which ask for a transfer each: x goes from s to t; y and w *)
(* go to s from s itself, w of a file that does not exist.  So s is to send   *)
(* when it receives, and may receive two files at a time.  Or x and y go from *)
(* t to s at the same time.                                                  *)
EXTENDS FileTransfer

CONSTANTS s, t, u, x, y, w

Asker == [i \in {x, y, w} |-> CASE i = x -> u [] i = y -> s [] i = w -> t]
ToBoth == [i \in {x, y, w} |-> IF i = x THEN t ELSE s]
OfOne == [i \in {x, y, w} |-> s]
Various == [i \in {x, y, w} |-> CASE i = x -> 1 [] i = y -> 5 [] i = w -> 0]
OwnTemp == [i \in {x, y, w} |-> i]

Either == [i \in {x, y} |-> IF i = y THEN t ELSE s]
ToOne == [i \in {x, y} |-> s]
OfOther == [i \in {x, y} |-> t]
OneEach == [i \in {x, y} |-> 1]
OneTemp == [i \in {x, y} |-> "temp.tmp"]
=============================================================================
