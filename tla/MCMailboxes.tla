---------------------------- MODULE MCMailboxes ----------------------------
(* A task that selects on two mailboxes and one that selects on one, with    *)
(* numbers that come round after four.                                       *)
EXTENDS Mailboxes

CONSTANTS app, file, p, q

TwoAndOne == [t \in {app, file} |-> IF t = app THEN 2 ELSE 1]
JustTwo == [t \in {app} |-> 2]
=============================================================================
