------------------------------- MODULE Delivery -------------------------------
(***************************************************************************)
(* What the network promises to those who send: a message is put into its  *)
(* mailbox at most once and as a whole, while the mailbox is open.  It may *)
(* be dropped instead, and then nothing of it is ever put there.           *)
(***************************************************************************)
CONSTANTS
  Msgs,   \* the messages
  Whole   \* Whole[m]: the content of m

VARIABLES
  sent,     \* the messages that were sent
  open,     \* those whose mailbox exists
  box,      \* box[m]: what was put into the mailbox of m
  dropped   \* the messages that will never be

Init ==
  /\ sent = {} /\ open = Msgs /\ dropped = {}
  /\ box = [m \in Msgs |-> <<>>]

Send(m) ==
  /\ m \notin sent
  /\ sent' = sent \cup {m}
  /\ UNCHANGED <<open, box, dropped>>

Put(m) ==
  /\ m \in (sent \cap open) \ dropped
  /\ box[m] = <<>>
  /\ box' = [box EXCEPT ![m] = <<Whole[m]>>]
  /\ UNCHANGED <<sent, open, dropped>>

\* A link that fails drops some of what is under way at once.
Drop ==
  /\ \E ms \in SUBSET {m \in sent : box[m] = <<>>} : dropped' = dropped \cup ms
  /\ UNCHANGED <<sent, open, box>>

Close(m) ==
  /\ open' = open \ {m}
  /\ UNCHANGED <<sent, box, dropped>>

Next == Drop \/ \E m \in Msgs : Send(m) \/ Put(m) \/ Close(m)

Spec == Init /\ [][Next]_<<sent, open, box, dropped>>

=============================================================================
