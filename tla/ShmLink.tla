------------------------------- MODULE ShmLink -------------------------------
(***************************************************************************)
(* A link over a segment of memory that two processes share.               *)
(*                                                                         *)
(* The segment has two channels, each a ring of slots, and a towel.  Each  *)
(* process clears the segment and lays its towel down if there is none;    *)
(* its two threads then choose the channels by whose towel they see.  A    *)
(* slot is ready to be written or busy with a message; sender and receiver *)
(* go round the ring on their own and poll the slot that is next.          *)
(*                                                                         *)
(* The status and the data of a slot are plain memory.  The model assumes  *)
(* that a process sees the writes of the other in the order of the program.*)
(***************************************************************************)
EXTENDS Integers, Sequences

CONSTANTS
  Ends,      \* the two processes
  Slots,     \* the slots of an lk_chan
  Nobody,    \* no towel, no peer
  None,      \* no message
  SendLimit  \* bound: SendLimit[p] is the number of messages p sends

ASSUME ShmLinkAssumption ==
  /\ Ends # {} /\ \A p \in Ends : \E q \in Ends : q # p /\ Ends = {p, q}
  /\ Slots \in Nat \ {0}
  /\ Nobody \notin Ends
  /\ SendLimit \in [Ends -> Nat]

Other(p) == CHOOSE q \in Ends : q # p

\* A ping has the same form as a message and is sent when there is none.
Message == UNION {[by : {p}, n : 1 .. SendLimit[p], ping : BOOLEAN] : p \in Ends}

\* What is read from a slot that was cleared after it had been written.
Blank == [by |-> Nobody, n |-> 0, ping |-> TRUE]

ASSUME NoneAssumption == None \notin Message \cup {Blank}

Channels == {1, 2}

VARIABLES
  towel,   \* m_towel
  slot,    \* slot[c][i]: status and data of a slot
  step,    \* step[p]: how far the constructor of p's link is
  running, \* running[p]: m_running
  tx, rx,  \* tx[p], rx[p]: the channel that a thread of p has chosen, or 0
  out, in, \* out[p], in[p]: the index of m_out, m_in
  hand,    \* hand[p]: the message written to a slot that is not marked yet
  take,    \* take[p]: the message copied from a slot not released yet
  peer,    \* peer[p]: m_remote_node_id, for which the router has the link
  sent,    \* history: sent[p]: what p has put into its channel
  got      \* history: got[p]: what p has handed to its router

vars == <<towel, slot, step, running, tx, rx, out, in, hand, take, peer, sent, got>>

Cleared == [c \in Channels |-> [i \in 0 .. Slots - 1 |->
              [status |-> "ready", data |-> Blank]]]

Init ==
  /\ towel = Nobody /\ slot = Cleared
  /\ step = [p \in Ends |-> "clear"]
  /\ running = [p \in Ends |-> TRUE]
  /\ tx = [p \in Ends |-> 0] /\ rx = [p \in Ends |-> 0]
  /\ out = [p \in Ends |-> 0] /\ in = [p \in Ends |-> 0]
  /\ hand = [p \in Ends |-> None] /\ take = [p \in Ends |-> None]
  /\ peer = [p \in Ends |-> Nobody]
  /\ sent = [p \in Ends |-> <<>>] /\ got = [p \in Ends |-> <<>>]

-----------------------------------------------------------------------------
(* The constructor.                                                         *)

\* Whatever is in the segment, messages and towel, is wiped out.
Clear(p) ==
  /\ step[p] = "clear"
  /\ towel' = Nobody /\ slot' = Cleared
  /\ step' = [step EXCEPT ![p] = "look"]
  /\ UNCHANGED <<running, tx, rx, out, in, hand, take, peer, sent, got>>

\* Mistake: the test of the towel the wrong way round.
SeemsTaken == towel # Nobody

SeemsFree == towel = Nobody

Look(p) ==
  /\ step[p] = "look"
  /\ step' = [step EXCEPT ![p] = IF SeemsFree THEN "lay" ELSE "on"]
  /\ UNCHANGED <<towel, slot, running, tx, rx, out, in, hand, take, peer, sent, got>>

Lay(p) ==
  /\ step[p] = "lay"
  /\ towel' = p
  /\ step' = [step EXCEPT ![p] = "on"]
  /\ UNCHANGED <<slot, running, tx, rx, out, in, hand, take, peer, sent, got>>

\* The manager starts the threads of the link that it has made.
Started(p) == step[p] = "on"

-----------------------------------------------------------------------------
(* The send thread.                                                         *)

TxChannel(p) == IF towel = p THEN 1 ELSE 2

ChooseTx(p) ==
  /\ Started(p) /\ tx[p] = 0
  /\ tx' = [tx EXCEPT ![p] = TxChannel(p)]
  /\ UNCHANGED <<towel, slot, step, running, rx, out, in, hand, take, peer, sent, got>>

\* The slot that follows, around the end of the ring.
\* Mistake: one slot too many.
NextPast(i) == IF i = Slots THEN 0 ELSE i + 1

NextSlot(i) == IF i + 1 = Slots THEN 0 ELSE i + 1

\* Mistake: the sender does not wait for a slot to be ready.
FreeAnyway(p) == TRUE

FreeSlot(p) == slot[tx[p]][out[p]].status = "ready"

\* The data of the slot is written.  A message for the peer can only be taken
\* from the router's queue when the peer is known.
Write(p, ping) ==
  /\ running[p] /\ tx[p] # 0 /\ hand[p] = None /\ FreeSlot(p)
  /\ Len(sent[p]) < SendLimit[p]
  /\ ping \/ peer[p] # Nobody
  /\ hand' = [hand EXCEPT ![p] = [by |-> p, n |-> Len(sent[p]) + 1, ping |-> ping]]
  /\ slot' = [slot EXCEPT ![tx[p]][out[p]].data = hand'[p]]
  /\ UNCHANGED <<towel, step, running, tx, rx, out, in, take, peer, sent, got>>

MarkBusy(p) ==
  /\ hand[p] # None
  /\ slot' = [slot EXCEPT ![tx[p]][out[p]].status = "busy"]
  /\ out' = [out EXCEPT ![p] = NextSlot(@)]
  /\ sent' = [sent EXCEPT ![p] = Append(@, hand[p])]
  /\ hand' = [hand EXCEPT ![p] = None]
  /\ UNCHANGED <<towel, step, running, tx, rx, in, take, peer, got>>

-----------------------------------------------------------------------------
(* The receive thread.                                                      *)

RxChannel(p) == IF towel = p THEN 2 ELSE 1

ChooseRx(p) ==
  /\ Started(p) /\ rx[p] = 0
  /\ rx' = [rx EXCEPT ![p] = RxChannel(p)]
  /\ UNCHANGED <<towel, slot, step, running, tx, out, in, hand, take, peer, sent, got>>

Copy(p) ==
  /\ running[p] /\ rx[p] # 0 /\ take[p] = None
  /\ slot[rx[p]][in[p]].status = "busy"
  /\ take' = [take EXCEPT ![p] = slot[rx[p]][in[p]].data]
  /\ UNCHANGED <<towel, slot, step, running, tx, rx, out, in, hand, peer, sent, got>>

\* The slot is ready again, the router is told if the peer is a new one, and
\* gets the message unless it is a ping.
Release(p) ==
  /\ take[p] # None
  /\ slot' = [slot EXCEPT ![rx[p]][in[p]].status = "ready"]
  /\ in' = [in EXCEPT ![p] = NextSlot(@)]
  /\ peer' = [peer EXCEPT ![p] = take[p].by]
  /\ got' = [got EXCEPT ![p] = Append(@, take[p])]
  /\ take' = [take EXCEPT ![p] = None]
  /\ UNCHANGED <<towel, step, running, tx, rx, out, hand, sent>>

-----------------------------------------------------------------------------

\* The manager stops its links.
Stop(p) ==
  /\ step[p] = "on" /\ running[p]
  /\ running' = [running EXCEPT ![p] = FALSE]
  /\ UNCHANGED <<towel, slot, step, tx, rx, out, in, hand, take, peer, sent, got>>

Constructor(p) == Clear(p) \/ Look(p) \/ Lay(p)

SendThread(p) == ChooseTx(p) \/ (\E ping \in BOOLEAN : Write(p, ping)) \/ MarkBusy(p)

ReceiveThread(p) == ChooseRx(p) \/ Copy(p) \/ Release(p)

Next == \E p \in Ends : Constructor(p) \/ SendThread(p) \/ ReceiveThread(p) \/ Stop(p)

Spec == Init /\ [][Next]_vars

FairSpec ==
  /\ Spec
  /\ \A p \in Ends : WF_vars(Constructor(p)) /\ WF_vars(SendThread(p))
                      /\ WF_vars(ReceiveThread(p))

-----------------------------------------------------------------------------
(* Properties.                                                             *)

\* Every variable keeps its type.
TypeOK ==
  /\ towel \in Ends \cup {Nobody}
  /\ slot \in [Channels -> [0 .. Slots - 1 ->
                 [status : {"ready", "busy"}, data : Message \cup {Blank}]]]
  /\ step \in [Ends -> {"clear", "look", "lay", "on"}]
  /\ running \in [Ends -> BOOLEAN]
  /\ tx \in [Ends -> {0} \cup Channels] /\ rx \in [Ends -> {0} \cup Channels]
  /\ out \in [Ends -> 0 .. Slots - 1] /\ in \in [Ends -> 0 .. Slots - 1]
  /\ hand \in [Ends -> Message \cup {None}]
  /\ take \in [Ends -> Message \cup {Blank, None}]
  /\ peer \in [Ends -> Ends \cup {Nobody}]
  /\ sent \in [Ends -> Seq(Message)] /\ got \in [Ends -> Seq(Message \cup {Blank})]

\* Every thread that has chosen a channel goes by the towel as it lies now.  An end
\* that comes up when a thread of the other has chosen takes that end's towel away,
\* and the link is broken (shm_link.h, SHM_Link::SHM_Link).
Agreed == \A p \in Ends : tx[p] \in {0, TxChannel(p)} /\ rx[p] \in {0, RxChannel(p)}

\* Each direction is a channel in good order: what an end puts in is what the
\* other gets, nothing of it doubled, skipped, overwritten or read half written,
\* and no more of it is on the way than there are slots; until the second end to
\* come up breaks it (shm_link.cpp, SHM_Link::send and SHM_Link::receive).
OneEnd == CHOOSE p \in Ends : TRUE

There == INSTANCE Fifo WITH
  Size <- Slots, sent <- sent[OneEnd], got <- got[Other(OneEnd)], whole <- Agreed

Back == INSTANCE Fifo WITH
  Size <- Slots, sent <- sent[Other(OneEnd)], got <- got[OneEnd], whole <- Agreed

IsFifo == There!Spec /\ Back!Spec

\* What is put in comes out, unless the other end is stopped or the link is broken.
Arrives ==
  \A p \in Ends : \A n \in 1 .. SendLimit[p] :
    Len(sent[p]) >= n ~> Len(got[Other(p)]) >= n \/ ~running[Other(p)] \/ ~Agreed

\* A broken link stays so, and only the start of the other end breaks it: the end
\* that clears the segment, or lays its towel on another, when a thread of the
\* first has chosen the channel of an end whose towel lies there.
BrokenByStart ==
  [][/\ Agreed' => Agreed
     /\ Agreed /\ ~Agreed' =>
          \E p \in Ends : (Clear(p) \/ Lay(p)) /\ (tx[Other(p)] = 1 \/ rx[Other(p)] = 2)]_vars

\* When all threads have chosen, the link is broken just if the ends send on one
\* channel or listen on one.
CrossedIfAgreed ==
  (\A p \in Ends : tx[p] # 0 /\ rx[p] # 0) =>
    (Agreed <=> \A p \in Ends : tx[p] # tx[Other(p)] /\ rx[p] # rx[Other(p)])

=============================================================================
