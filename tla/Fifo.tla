--------------------------------- MODULE Fifo ---------------------------------
(***************************************************************************)
(* What one direction of a link promises while nobody pulls it: messages   *)
(* come out in the order in which they went in, each of them once and as   *)
(* it was, and no more than Size of them are on the way.  The channel may  *)
(* break, and then promises nothing any more.                              *)
(***************************************************************************)
EXTENDS Integers, Sequences

CONSTANTS Message, Size

VARIABLES
  sent, \* the messages that went in
  got,  \* those that came out
  whole \* has it not been broken?

Init == sent = <<>> /\ got = <<>> /\ whole = TRUE

Send ==
  /\ whole /\ whole'
  /\ Len(sent) - Len(got) < Size
  /\ \E m \in Message : sent' = Append(sent, m)
  /\ UNCHANGED got

Receive ==
  /\ whole /\ whole'
  /\ Len(got) < Len(sent)
  /\ got' = Append(got, sent[Len(got) + 1])
  /\ UNCHANGED sent

Break == ~whole'

Spec == Init /\ [][Send \/ Receive \/ Break]_<<sent, got, whole>>

=============================================================================
