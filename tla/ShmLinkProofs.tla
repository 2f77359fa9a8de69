---------------------------- MODULE ShmLinkProofs ----------------------------
(***************************************************************************)
(* Proofs about the module ShmLink, for a ring of any number of slots and  *)
(* any number of messages and any start of the two ends: the two rings are *)
(* channels in good order for as long as the threads that have chosen a    *)
(* channel agree with the towel.                                           *)
(***************************************************************************)
EXTENDS ShmLink, TLAPS

-----------------------------------------------------------------------------
(* The inductive invariant.  In one direction the messages under way are   *)
(* those that the sender has marked busy and the receiver has not released:*)
(* they lie one after the other in the slots from in on, round the end of  *)
(* the ring, and the sender's index is the first slot behind them.         *)

AllOn == \A p \in Ends : step[p] = "on"

\* A thread moves when it has chosen, and chooses when its end is on.
Chosen(p) ==
  /\ step[p] # "on" => tx[p] = 0 /\ rx[p] = 0
  /\ tx[p] = 0 => hand[p] = None /\ sent[p] = <<>> /\ out[p] = 0
  /\ rx[p] = 0 => take[p] = None /\ got[p] = <<>> /\ in[p] = 0

\* An end whose towel lies there is on and has gone by it; an end that came up
\* before the other began has its own there.
Towel(p) ==
  /\ towel = p => step[p] = "on" /\ tx[p] \in {0, 1} /\ rx[p] \in {0, 2}
  /\ step[p] = "on" /\ step[Other(p)] = "clear" => towel = p

NoneChosen == \A p \in Ends : tx[p] = 0 /\ rx[p] = 0

SetUp ==
  /\ \A p \in Ends : Chosen(p) /\ Towel(p)
  /\ AllOn => towel \in Ends
  /\ NoneChosen => slot = Cleared

\* How many messages from p are under way.
UnderWay(p) == Len(sent[p]) - Len(got[Other(p)])

\* How far slot i is from the one that the receiver of p's messages is at.
Distance(p, i) ==
  IF i >= in[Other(p)] THEN i - in[Other(p)] ELSE i + Slots - in[Other(p)]

\* The channel that p sends on, or is going to if nobody comes in between.
Lane(p) == IF towel = p \/ (towel = Nobody /\ step[p] # "on") THEN 1 ELSE 2

Ring(p) == slot[Lane(p)]

\* What came out is what went in first, and no slot is used twice.
InOrder(p) ==
  /\ UnderWay(p) \in 0 .. Slots
  /\ \A n \in 1 .. Len(got[Other(p)]) : got[Other(p)][n] = sent[p][n]

\* The sender is at the first slot that is not under way.
SenderAt(p) ==
  out[p] = IF in[Other(p)] + UnderWay(p) >= Slots
           THEN in[Other(p)] + UnderWay(p) - Slots
           ELSE in[Other(p)] + UnderWay(p)

\* The slots hold what is under way, in order, and the others are ready.
Filled(p) ==
  \A i \in 0 .. Slots - 1 :
    IF Distance(p, i) < UnderWay(p)
    THEN /\ Ring(p)[i].status = "busy"
         /\ Ring(p)[i].data = sent[p][Len(got[Other(p)]) + 1 + Distance(p, i)]
    ELSE Ring(p)[i].status = "ready"

\* What the sender has written and not marked is in its slot, and what the
\* receiver has copied and not released is the next message to come out.
InHand(p) ==
  /\ hand[p] # None =>
       /\ tx[p] # 0 /\ UnderWay(p) < Slots
       /\ Ring(p)[out[p]].data = hand[p]
  /\ take[Other(p)] # None =>
       /\ rx[Other(p)] # 0 /\ UnderWay(p) > 0
       /\ take[Other(p)] = sent[p][Len(got[Other(p)]) + 1]

DirectionInv(p) == InOrder(p) /\ SenderAt(p) /\ Filled(p) /\ InHand(p)

InGoodOrder == \A p \in Ends : DirectionInv(p)

IInv == TypeOK /\ SetUp /\ (Agreed => InGoodOrder)

-----------------------------------------------------------------------------
(* The ends, and types.                                                    *)

\* There are two ends, and each is the other's other.
LEMMA TwoEnds ==
  ASSUME NEW p \in Ends
  PROVE  /\ Other(p) \in Ends /\ Other(p) # p /\ Other(Other(p)) = p
         /\ \A r \in Ends : r = p \/ r = Other(p)
<1>1. PICK q \in Ends : q # p /\ Ends = {p, q}
  BY ShmLinkAssumption
<1>2. Other(p) \in Ends /\ Other(p) # p
  BY <1>1 DEF Other
<1>3. Other(Other(p)) \in Ends /\ Other(Other(p)) # Other(p)
  BY <1>1, <1>2 DEF Other
<1> QED
  BY <1>1, <1>2, <1>3

\* The parts of the assumption on the constants that are about numbers.
LEMMA Numbers == Slots \in Nat \ {0} /\ SendLimit \in [Ends -> Nat]
BY ShmLinkAssumption

\* The indexes go round the ring.
LEMMA NextType ==
  ASSUME NEW i \in 0 .. Slots - 1
  PROVE  NextSlot(i) \in 0 .. Slots - 1
BY Numbers DEF NextSlot

Slot == [status : {"ready", "busy"}, data : Message \cup {Blank}]

Segment == [Channels -> [0 .. Slots - 1 -> Slot]]

\* A slot stays a slot when its data or its status is written.
LEMMA SlotWritten ==
  ASSUME slot \in Segment, NEW c \in {0} \cup Channels, NEW i \in 0 .. Slots - 1,
         NEW d \in Message \cup {Blank}, NEW s \in {"ready", "busy"}
  PROVE  /\ [slot EXCEPT ![c][i].data = d] \in Segment
         /\ [slot EXCEPT ![c][i].status = s] \in Segment
<1>1. CASE c \in Channels
  <2>1. slot[c][i] \in Slot /\ slot[c] \in [0 .. Slots - 1 -> Slot]
    BY <1>1 DEF Segment
  <2>2. [slot[c][i] EXCEPT !.data = d] \in Slot /\ [slot[c][i] EXCEPT !.status = s] \in Slot
    BY <2>1 DEF Slot
  <2> QED
    BY <1>1, <2>1, <2>2 DEF Segment
<1>2. CASE c \notin Channels
  <2>1. /\ [slot EXCEPT ![c][i].data = d] = slot
        /\ [slot EXCEPT ![c][i].status = s] = slot
    BY <1>2 DEF Segment
  <2> QED
    BY <2>1
<1> QED
  BY <1>1, <1>2

LEMMA SegmentType == TypeOK => slot \in Segment
BY DEF TypeOK, Segment, Slot

\* Every variable keeps its type, however the ends come up.
THEOREM TypeCorrect == Spec => []TypeOK
<1>1. Init => TypeOK
  <2> SUFFICES ASSUME Init PROVE TypeOK
    OBVIOUS
  <2>1. slot \in Segment
    BY DEF Init, Cleared, Slot, Segment
  <2>2. running \in [Ends -> BOOLEAN]
    BY Zenon DEF Init
  <2>3. 0 \in 0 .. Slots - 1
    BY Numbers
  <2>4. out \in [Ends -> 0 .. Slots - 1] /\ in \in [Ends -> 0 .. Slots - 1]
    BY <2>3 DEF Init
  <2> QED
    BY <2>1, <2>2, <2>4 DEF Init, TypeOK, Slot, Segment
<1>2. TypeOK /\ [Next]_vars => TypeOK'
  <2> SUFFICES ASSUME TypeOK, [Next]_vars PROVE TypeOK'
    OBVIOUS
  <2>1. ASSUME NEW p \in Ends, Clear(p) PROVE TypeOK'
    <3>1. slot' \in Segment
      BY <2>1 DEF Clear, Cleared, Slot, Segment
    <3> QED
      BY <2>1, <3>1 DEF Clear, TypeOK, Slot, Segment
  <2>2. ASSUME NEW p \in Ends, Look(p) PROVE TypeOK'
    BY <2>2 DEF Look, TypeOK
  <2>3. ASSUME NEW p \in Ends, Lay(p) PROVE TypeOK'
    BY <2>3 DEF Lay, TypeOK
  <2>4. ASSUME NEW p \in Ends, ChooseTx(p) PROVE TypeOK'
    BY <2>4 DEF ChooseTx, TypeOK, TxChannel, Channels
  <2>5. ASSUME NEW p \in Ends, NEW ping \in BOOLEAN, Write(p, ping) PROVE TypeOK'
    <3> DEFINE m == [by |-> p, n |-> Len(sent[p]) + 1, ping |-> ping]
    <3>1. m \in Message
      <4>1. Len(sent[p]) + 1 \in 1 .. SendLimit[p]
        <5>1. Len(sent[p]) \in Nat /\ SendLimit[p] \in Nat
          BY Numbers DEF TypeOK
        <5> QED
          BY <2>5, <5>1 DEF Write
      <4>2. m \in [by : {p}, n : 1 .. SendLimit[p], ping : BOOLEAN]
        BY <4>1
      <4> QED
        BY <4>2 DEF Message
    <3> HIDE DEF m
    <3>2. hand' = [hand EXCEPT ![p] = m]
      BY <2>5 DEF Write, m
    <3>3. hand' \in [Ends -> Message \cup {None}] /\ hand'[p] = m
      BY <3>1, <3>2 DEF TypeOK
    <3>4. slot' = [slot EXCEPT ![tx[p]][out[p]].data = m]
      BY <2>5, <3>3 DEF Write
    <3>5. slot' \in Segment
      BY <3>1, <3>4, SlotWritten DEF TypeOK, Slot, Segment
    <3> QED
      BY <2>5, <3>3, <3>5 DEF Write, TypeOK, Slot, Segment
  <2>6. ASSUME NEW p \in Ends, MarkBusy(p) PROVE TypeOK'
    <3>1. slot' \in Segment
      BY <2>6, SlotWritten DEF MarkBusy, TypeOK, Slot, Segment
    <3>2. out' \in [Ends -> 0 .. Slots - 1]
      BY <2>6, NextType DEF MarkBusy, TypeOK
    <3>3. sent' \in [Ends -> Seq(Message)]
      BY <2>6 DEF MarkBusy, TypeOK
    <3> QED
      BY <2>6, <3>1, <3>2, <3>3 DEF MarkBusy, TypeOK, Slot, Segment
  <2>7. ASSUME NEW p \in Ends, ChooseRx(p) PROVE TypeOK'
    BY <2>7 DEF ChooseRx, TypeOK, RxChannel, Channels
  <2>8. ASSUME NEW p \in Ends, Copy(p) PROVE TypeOK'
    <3>0. rx[p] \in Channels /\ in[p] \in 0 .. Slots - 1
      BY <2>8 DEF Copy, TypeOK
    <3>1. slot \in Segment
      BY DEF TypeOK, Slot, Segment
    <3>2. slot[rx[p]][in[p]] \in Slot
      BY <3>0, <3>1 DEF Segment
    <3>3. slot[rx[p]][in[p]].data \in Message \cup {Blank}
      BY <3>2 DEF Slot
    <3> QED
      BY <2>8, <3>3 DEF Copy, TypeOK
  <2>9. ASSUME NEW p \in Ends, Release(p) PROVE TypeOK'
    <3>1. take[p] \in Message \cup {Blank}
      BY <2>9 DEF Release, TypeOK
    <3>2. take[p].by \in Ends \cup {Nobody}
      BY <3>1 DEF Message, Blank
    <3>3. slot' \in Segment
      BY <2>9, SlotWritten DEF Release, TypeOK, Slot, Segment
    <3>4. in' \in [Ends -> 0 .. Slots - 1]
      BY <2>9, NextType DEF Release, TypeOK
    <3>5. got' \in [Ends -> Seq(Message \cup {Blank})]
      BY <2>9, <3>1 DEF Release, TypeOK
    <3> QED
      BY <2>9, <3>2, <3>3, <3>4, <3>5 DEF Release, TypeOK, Slot, Segment
  <2>10. ASSUME NEW p \in Ends, Stop(p) PROVE TypeOK'
    BY <2>10 DEF Stop, TypeOK
  <2>11. CASE UNCHANGED vars
    BY <2>11 DEF vars, TypeOK
  <2> QED
    BY <2>1, <2>2, <2>3, <2>4, <2>5, <2>6, <2>7, <2>8, <2>9, <2>10, <2>11
    DEF Next, Constructor, SendThread, ReceiveThread
<1> QED
  BY <1>1, <1>2, PTL DEF Spec

-----------------------------------------------------------------------------
(* The steps of the inductive invariant, one direction at a time.          *)

\* A thread that has chosen has the channel of its direction, and the two
\* directions have a ring each.
LEMMA Channel ==
  ASSUME TypeOK, SetUp, Agreed, NEW p \in Ends
  PROVE  /\ Lane(p) \in Channels
         /\ tx[p] # 0 => tx[p] = Lane(p)
         /\ rx[p] # 0 => rx[p] = Lane(Other(p))
         /\ tx[p] # 0 \/ rx[p] # 0 => Lane(Other(p)) # Lane(p)
<1> DEFINE q == Other(p)
<1>1. q \in Ends /\ q # p /\ \A r \in Ends : r = p \/ r = q
  BY TwoEnds
<1>2. Nobody # p /\ Nobody # q
  BY <1>1, ShmLinkAssumption
<1>3. /\ tx[p] \in {0, TxChannel(p)} /\ rx[p] \in {0, RxChannel(p)}
      /\ tx[p] # 0 \/ rx[p] # 0 => step[p] = "on"
  BY DEF Agreed, SetUp, Chosen
<1>4. step[p] = "on" => towel # Nobody \/ step[q] # "on"
  BY <1>1, ShmLinkAssumption DEF SetUp, AllOn
<1>5. towel \in {p, q, Nobody}
  BY <1>1 DEF TypeOK
<1> HIDE DEF q
<1>6. step[p] = "on" => Lane(p) = TxChannel(p) /\ Lane(q) = RxChannel(p) /\ Lane(q) # Lane(p)
  BY <1>1, <1>2, <1>4, <1>5 DEF Lane, TxChannel, RxChannel
<1> QED
  BY <1>3, <1>6 DEF Lane, Channels, q

\* A step that leaves alone both ends and the ring of a direction keeps what is
\* said of it.
LEMMA DirectionKept ==
  ASSUME NEW p \in Ends, DirectionInv(p),
         sent'[p] = sent[p], got'[Other(p)] = got[Other(p)],
         in'[Other(p)] = in[Other(p)], out'[p] = out[p],
         hand'[p] = hand[p], take'[Other(p)] = take[Other(p)],
         hand[p] # None => tx'[p] = tx[p],
         take[Other(p)] # None => rx'[Other(p)] = rx[Other(p)],
         Ring(p)' = Ring(p)
  PROVE  DirectionInv(p)'
<1>1. UnderWay(p)' = UnderWay(p) /\ \A i : Distance(p, i)' = Distance(p, i)
  BY DEF UnderWay, Distance
<1>2. InOrder(p)' /\ SenderAt(p)'
  BY <1>1 DEF DirectionInv, InOrder, SenderAt
<1>3. Filled(p)'
  BY <1>1 DEF DirectionInv, Filled
<1>4. InHand(p)'
  BY <1>1 DEF DirectionInv, InHand
<1> QED
  BY <1>2, <1>3, <1>4 DEF DirectionInv

\* In a ring of size slots, with m of them taken from slot a on: a slot i at
\* distance d from a is the one behind them just if d is m.
LEMMA RingNumbers ==
  ASSUME NEW size \in Nat, NEW a \in 0 .. size - 1, NEW m \in 0 .. size,
         NEW o \in 0 .. size - 1, o = (IF a + m >= size THEN a + m - size ELSE a + m),
         NEW i \in 0 .. size - 1, NEW d, d = (IF i >= a THEN i - a ELSE i + size - a)
  PROVE  /\ d \in 0 .. size - 1
         /\ m < size /\ i = o => d = m
         /\ m = size => o = a
         /\ i # o => d # m
         /\ i = a <=> d = 0
OBVIOUS

\* One more taken: the slot behind them is the next one.
LEMMA BehindNumbers ==
  ASSUME NEW size \in Nat, NEW a \in 0 .. size - 1, NEW m \in 0 .. size - 1,
         NEW o, o = (IF a + m >= size THEN a + m - size ELSE a + m)
  PROVE  (IF o + 1 = size THEN 0 ELSE o + 1)
           = (IF a + (m + 1) >= size THEN a + (m + 1) - size ELSE a + (m + 1))
OBVIOUS

\* The numbers of one direction.
LEMMA Counts ==
  ASSUME TypeOK, NEW p \in Ends, DirectionInv(p)
  PROVE  /\ Len(sent[p]) \in Nat /\ Len(got[Other(p)]) \in Nat
         /\ UnderWay(p) \in 0 .. Slots
         /\ Len(sent[p]) = Len(got[Other(p)]) + UnderWay(p)
         /\ out[p] \in 0 .. Slots - 1 /\ in[Other(p)] \in 0 .. Slots - 1
         /\ Distance(p, in[Other(p)]) = 0
         /\ UnderWay(p) < Slots => Distance(p, out[p]) = UnderWay(p)
         /\ UnderWay(p) = Slots => out[p] = in[Other(p)]
         /\ \A i \in 0 .. Slots - 1 :
              /\ Distance(p, i) \in 0 .. Slots - 1
              /\ i # out[p] => Distance(p, i) # UnderWay(p)
              /\ i # in[Other(p)] => Distance(p, i) # 0
<1>1. Other(p) \in Ends
  BY TwoEnds
<1>2. /\ out[p] \in 0 .. Slots - 1 /\ in[Other(p)] \in 0 .. Slots - 1
      /\ Len(sent[p]) \in Nat /\ Len(got[Other(p)]) \in Nat
  BY <1>1 DEF TypeOK
<1>3. UnderWay(p) \in 0 .. Slots /\ Slots \in Nat
  BY Numbers DEF DirectionInv, InOrder
<1>4. Len(sent[p]) = Len(got[Other(p)]) + UnderWay(p)
  BY <1>2 DEF UnderWay
<1>5. SenderAt(p)
  BY DEF DirectionInv
<1>6. ASSUME NEW i \in 0 .. Slots - 1
      PROVE  /\ Distance(p, i) \in 0 .. Slots - 1
             /\ UnderWay(p) < Slots /\ i = out[p] => Distance(p, i) = UnderWay(p)
             /\ UnderWay(p) = Slots => out[p] = in[Other(p)]
             /\ i # out[p] => Distance(p, i) # UnderWay(p)
             /\ i = in[Other(p)] <=> Distance(p, i) = 0
  <2> DEFINE a == in[Other(p)]
             o == out[p]
             m == UnderWay(p)
             d == Distance(p, i)
  <2>1. /\ Slots \in Nat /\ a \in 0 .. Slots - 1 /\ o \in 0 .. Slots - 1
        /\ m \in 0 .. Slots
        /\ o = IF a + m >= Slots THEN a + m - Slots ELSE a + m
        /\ d = IF i >= a THEN i - a ELSE i + Slots - a
    BY <1>2, <1>3, <1>5 DEF SenderAt, Distance
  <2> HIDE DEF a, o, m, d
  <2>2. /\ d \in 0 .. Slots - 1
        /\ m < Slots /\ i = o => d = m
        /\ m = Slots => o = a
        /\ i # o => d # m
        /\ i = a <=> d = 0
    BY <2>1, RingNumbers
  <2> QED
    BY <2>2 DEF a, o, m, d
<1> QED
  BY <1>2, <1>3, <1>4, <1>6

\* While nobody has chosen nothing is under way.
LEMMA Fresh ==
  ASSUME TypeOK, SetUp, NoneChosen, NEW p \in Ends
  PROVE  DirectionInv(p)
<1>1. /\ sent[p] = <<>> /\ got[Other(p)] = <<>> /\ hand[p] = None
      /\ take[Other(p)] = None /\ out[p] = 0 /\ in[Other(p)] = 0
  BY TwoEnds DEF NoneChosen, SetUp, Chosen
<1>2. UnderWay(p) = 0 /\ Len(got[Other(p)]) = 0
  BY <1>1 DEF UnderWay
<1>3. InOrder(p) /\ SenderAt(p) /\ InHand(p)
  BY <1>1, <1>2, Numbers DEF InOrder, SenderAt, InHand
<1>4. Filled(p)
  <2> SUFFICES ASSUME NEW i \in 0 .. Slots - 1
               PROVE  ~(Distance(p, i) < 0) /\ Ring(p)[i].status = "ready"
    BY <1>2 DEF Filled
  <2>1. Distance(p, i) = i
    BY <1>1 DEF Distance
  <2>2. slot = Cleared /\ Lane(p) \in Channels
    BY DEF SetUp, Lane, Channels
  <2>3. Cleared[Lane(p)][i].status = "ready"
    BY <2>2 DEF Cleared
  <2> QED
    BY <2>1, <2>2, <2>3 DEF Ring
<1> QED
  BY <1>3, <1>4 DEF DirectionInv

LEMMA AllFresh == TypeOK /\ SetUp /\ NoneChosen => InGoodOrder
BY Fresh DEF InGoodOrder

-----------------------------------------------------------------------------
(* How the ends come up.                                                   *)

\* While an end comes up its threads have not chosen.
LEMMA ConstructorSetUp ==
  ASSUME TypeOK, SetUp, TypeOK', NEW p \in Ends, Constructor(p)
  PROVE  SetUp'
<1> DEFINE q == Other(p)
<1>1. /\ q \in Ends /\ q # p /\ Other(q) = p /\ Other(p) = q
      /\ \A r \in Ends : r = p \/ r = q
  BY TwoEnds
<1>2. /\ UNCHANGED <<running, tx, rx, out, in, hand, take, peer, sent, got>>
      /\ step[p] # "on" /\ step'[q] = step[q]
  BY <1>1 DEF Constructor, Clear, Look, Lay, TypeOK
<1>3. Chosen(p)' /\ Chosen(q)'
  BY <1>1, <1>2 DEF SetUp, Chosen
<1>4. Chosen(p) /\ Chosen(q) /\ Towel(p) /\ Towel(q) /\ Nobody # p /\ Nobody # q
  BY <1>1, ShmLinkAssumption DEF SetUp
<1> HIDE DEF q
<1>5. CASE Clear(p)
  <2>1. towel' = Nobody /\ step'[p] = "look" /\ slot' = Cleared
    BY <1>5 DEF Clear, TypeOK
  <2>2. Towel(p)' /\ Towel(q)'
    BY <1>1, <1>2, <1>4, <2>1 DEF Towel
  <2>3. ~AllOn'
    BY <2>1 DEF AllOn
  <2> QED
    BY <1>1, <1>3, <2>1, <2>2, <2>3 DEF SetUp
<1>6. CASE Look(p)
  <2>1. /\ towel' = towel /\ slot' = slot /\ step[p] = "look"
        /\ step'[p] = IF towel = Nobody THEN "lay" ELSE "on"
    BY <1>6 DEF Look, SeemsFree, TypeOK
  <2>2. towel # p
    BY <1>4, <2>1 DEF Towel
  <2>3. towel \in {q, Nobody}
    BY <1>1, <2>2 DEF TypeOK
  <2>4. Towel(p)' /\ Towel(q)'
    BY <1>1, <1>2, <1>4, <2>1, <2>2, <2>3 DEF Towel
  <2>5. AllOn' => towel' \in Ends
    BY <1>1, <2>1, <2>3 DEF AllOn
  <2>6. NoneChosen' => slot' = Cleared
    BY <1>2, <2>1 DEF SetUp, NoneChosen
  <2> QED
    BY <1>1, <1>3, <2>4, <2>5, <2>6 DEF SetUp
<1>7. CASE Lay(p)
  <2>1. towel' = p /\ slot' = slot /\ step[p] = "lay" /\ step'[p] = "on"
    BY <1>7 DEF Lay, TypeOK
  <2>2. tx[p] = 0 /\ rx[p] = 0
    BY <1>4, <2>1 DEF Chosen
  <2>3. Towel(p)' /\ Towel(q)'
    BY <1>1, <1>2, <1>4, <2>1, <2>2 DEF Towel
  <2>4. NoneChosen' => slot' = Cleared
    BY <1>2, <2>1 DEF SetUp, NoneChosen
  <2> QED
    BY <1>1, <1>3, <2>1, <2>3, <2>4 DEF SetUp
<1> QED
  BY <1>5, <1>6, <1>7 DEF Constructor

\* A step that leaves the towel, the steps and the choices alone keeps what is
\* said of them, if a thread that has not chosen does nothing.
LEMMA SetUpKept ==
  ASSUME SetUp, step' = step, towel' = towel, tx' = tx, rx' = rx,
         NoneChosen => slot' = slot,
         \A p \in Ends :
           /\ tx[p] = 0 => hand'[p] = hand[p] /\ sent'[p] = sent[p] /\ out'[p] = out[p]
           /\ rx[p] = 0 => take'[p] = take[p] /\ got'[p] = got[p] /\ in'[p] = in[p]
  PROVE  SetUp'
<1>1. ASSUME NEW p \in Ends PROVE Chosen(p)' /\ Towel(p)'
  BY DEF SetUp, Chosen, Towel
<1>2. NoneChosen' => slot' = Cleared
  BY DEF SetUp, NoneChosen
<1> QED
  BY <1>1, <1>2 DEF SetUp, AllOn

LEMMA ChooseSetUp ==
  ASSUME TypeOK, SetUp, NEW p \in Ends, ChooseTx(p) \/ ChooseRx(p)
  PROVE  SetUp'
<1> DEFINE q == Other(p)
<1>1. q \in Ends /\ q # p /\ \A r \in Ends : r = p \/ r = q
  BY TwoEnds
<1>2. /\ UNCHANGED <<towel, slot, step, out, in, hand, take, sent, got>>
      /\ tx'[q] = tx[q] /\ rx'[q] = rx[q] /\ step[p] = "on"
      /\ tx'[p] \in {tx[p], TxChannel(p)} /\ rx'[p] \in {rx[p], RxChannel(p)}
      /\ tx[p] # 0 => tx'[p] = tx[p]
      /\ rx[p] # 0 => rx'[p] = rx[p]
      /\ tx'[p] # 0 \/ rx'[p] # 0
  BY <1>1 DEF ChooseTx, ChooseRx, Started, TypeOK, TxChannel, RxChannel
<1>3. ASSUME NEW r \in Ends PROVE Chosen(r)' /\ Towel(r)'
  BY <1>1, <1>2 DEF SetUp, Chosen, Towel, TxChannel, RxChannel
<1>4. ~NoneChosen'
  BY <1>2 DEF NoneChosen
<1> QED
  BY <1>2, <1>3, <1>4 DEF SetUp, AllOn

LEMMA SetUpStep ==
  ASSUME TypeOK, SetUp, TypeOK', [Next]_vars
  PROVE  SetUp'
<1>1. ASSUME NEW p \in Ends, Constructor(p) PROVE SetUp'
  BY <1>1, ConstructorSetUp
<1>2. ASSUME NEW p \in Ends, ChooseTx(p) \/ ChooseRx(p) PROVE SetUp'
  BY <1>2, ChooseSetUp
<1>3. ASSUME NEW p \in Ends, (\E ping \in BOOLEAN : Write(p, ping)) \/ MarkBusy(p) PROVE SetUp'
  <2>1. /\ UNCHANGED <<towel, step, tx, rx, in, take, got>> /\ tx[p] # 0
        /\ \A r \in Ends : r # p => hand'[r] = hand[r] /\ sent'[r] = sent[r] /\ out'[r] = out[r]
    <3>1. UNCHANGED <<towel, step, tx, rx, in, take, got>>
      BY <1>3 DEF Write, MarkBusy
    <3>2. tx[p] # 0
      <4>1. tx[p] = 0 => hand[p] = None
        BY DEF SetUp, Chosen
      <4> QED
        BY <1>3, <4>1 DEF Write, MarkBusy
    <3>3. ASSUME NEW r \in Ends, r # p
          PROVE  hand'[r] = hand[r] /\ sent'[r] = sent[r] /\ out'[r] = out[r]
      <4>1. CASE \E ping \in BOOLEAN : Write(p, ping)
        BY <3>3, <4>1 DEF Write, TypeOK
      <4>2. CASE MarkBusy(p)
        BY <3>3, <4>2 DEF MarkBusy, TypeOK
      <4> QED
        BY <1>3, <4>1, <4>2
    <3> QED
      BY <3>1, <3>2, <3>3
  <2>2. ~NoneChosen
    BY <2>1 DEF NoneChosen
  <2> QED
    BY <2>1, <2>2, SetUpKept
<1>4. ASSUME NEW p \in Ends, Copy(p) \/ Release(p) PROVE SetUp'
  <2>1. /\ UNCHANGED <<towel, step, tx, rx, out, hand, sent>> /\ rx[p] # 0
        /\ \A r \in Ends : r # p => take'[r] = take[r] /\ got'[r] = got[r] /\ in'[r] = in[r]
    BY <1>4 DEF Copy, Release, TypeOK, SetUp, Chosen
  <2>2. ~NoneChosen
    BY <2>1 DEF NoneChosen
  <2> QED
    BY <2>1, <2>2, SetUpKept
<1>5. ASSUME UNCHANGED vars \/ \E p \in Ends : Stop(p) PROVE SetUp'
  <2>1. UNCHANGED <<towel, slot, step, tx, rx, out, in, hand, take, sent, got>>
    BY <1>5 DEF Stop, vars
  <2> QED
    BY <2>1, SetUpKept
<1> QED
  BY <1>1, <1>2, <1>3, <1>4, <1>5 DEF Next, SendThread, ReceiveThread

\* Only the end that comes up takes the towel from under a choice that was made
\* by it, and no later step makes up for that.
LEMMA AgreedStep ==
  ASSUME TypeOK, SetUp, TypeOK', [Next]_vars
  PROVE  /\ Agreed' => Agreed
         /\ Agreed /\ ~Agreed' =>
              \E p \in Ends : (Clear(p) \/ Lay(p)) /\ (tx[Other(p)] = 1 \/ rx[Other(p)] = 2)
<1>1. ASSUME NEW p \in Ends, Clear(p) \/ Lay(p)
      PROVE  /\ Agreed' => Agreed
             /\ Agreed /\ ~Agreed' => tx[Other(p)] = 1 \/ rx[Other(p)] = 2
  <2> DEFINE q == Other(p)
  <2>1. q \in Ends /\ q # p /\ Other(q) = p /\ \A r \in Ends : r = p \/ r = q
    BY TwoEnds
  <2>2. /\ tx' = tx /\ rx' = rx /\ tx[p] = 0 /\ rx[p] = 0 /\ step[p] # "on"
        /\ towel' \in {Nobody, p} /\ Nobody # q
        /\ tx[q] \in {0, 1, 2} /\ rx[q] \in {0, 1, 2}
    BY <1>1, <2>1, ShmLinkAssumption DEF Clear, Lay, SetUp, Chosen, TypeOK, Channels
  <2> HIDE DEF q
  <2>3. Agreed' <=> tx[q] \in {0, 2} /\ rx[q] \in {0, 1}
    BY <2>1, <2>2 DEF Agreed, TxChannel, RxChannel
  <2>4. Agreed' => Agreed
    <3>1. towel = q => tx[q] \in {0, 1} /\ rx[q] \in {0, 2}
      BY <2>1 DEF SetUp, Towel
    <3> QED
      BY <2>1, <2>2, <2>3, <3>1 DEF Agreed, TxChannel, RxChannel
  <2> QED
    BY <2>2, <2>3, <2>4 DEF q
<1>2. ASSUME NEW p \in Ends, Look(p) PROVE Agreed' <=> Agreed
  BY <1>2 DEF Look, Agreed, TxChannel, RxChannel
<1>3. ASSUME NEW p \in Ends, ChooseTx(p) \/ ChooseRx(p) PROVE Agreed' <=> Agreed
  <2>1. /\ towel' = towel
        /\ \A r \in Ends : /\ tx'[r] \in {tx[r], TxChannel(r)} /\ (tx[r] # 0 => tx'[r] = tx[r])
                           /\ rx'[r] \in {rx[r], RxChannel(r)} /\ (rx[r] # 0 => rx'[r] = rx[r])
    BY <1>3 DEF ChooseTx, ChooseRx, TypeOK
  <2> QED
    BY <2>1 DEF Agreed, TxChannel, RxChannel
<1>4. ASSUME UNCHANGED <<towel, tx, rx>> PROVE Agreed' <=> Agreed
  BY <1>4 DEF Agreed, TxChannel, RxChannel
<1>5. \/ \E p \in Ends : Clear(p) \/ Lay(p)
      \/ \E p \in Ends : Look(p)
      \/ \E p \in Ends : ChooseTx(p) \/ ChooseRx(p)
      \/ UNCHANGED <<towel, tx, rx>>
  <2>1. ASSUME NEW p \in Ends, NEW ping \in BOOLEAN, Write(p, ping)
        PROVE  UNCHANGED <<towel, tx, rx>>
    BY <2>1 DEF Write
  <2>2. ASSUME NEW p \in Ends, MarkBusy(p) \/ Copy(p) \/ Release(p) \/ Stop(p)
        PROVE  UNCHANGED <<towel, tx, rx>>
    BY <2>2 DEF MarkBusy, Copy, Release, Stop
  <2>3. UNCHANGED vars => UNCHANGED <<towel, tx, rx>>
    BY DEF vars
  <2> QED
    BY <2>1, <2>2, <2>3 DEF Next, Constructor, SendThread, ReceiveThread
<1>6. (\E p \in Ends : Clear(p) \/ Lay(p)) \/ (Agreed' <=> Agreed)
  BY <1>2, <1>3, <1>4, <1>5
<1> QED
  BY <1>1, <1>6

-----------------------------------------------------------------------------
(* The steps of the two directions, while the threads agree.               *)

\* While an end comes up it moves nothing, and the rings stay whose they are
\* once a thread has chosen.
LEMMA ConstructorStep ==
  ASSUME TypeOK, SetUp, Agreed, InGoodOrder, TypeOK', SetUp', Agreed',
         NEW p \in Ends, Constructor(p)
  PROVE  InGoodOrder'
<1> DEFINE q == Other(p)
<1>1. q \in Ends /\ q # p /\ Other(q) = p /\ \A r \in Ends : r = p \/ r = q
  BY TwoEnds
<1>2. /\ UNCHANGED <<running, tx, rx, out, in, hand, take, peer, sent, got>>
      /\ step[p] # "on" /\ step'[q] = step[q] /\ tx[p] = 0 /\ rx[p] = 0
  BY <1>1 DEF Constructor, Clear, Look, Lay, TypeOK, SetUp, Chosen
<1>3. CASE NoneChosen'
  BY <1>3, AllFresh, PTL
<1>4. CASE ~NoneChosen'
  <2>1. tx[q] # 0 \/ rx[q] # 0
    BY <1>1, <1>2, <1>4 DEF NoneChosen
  <2>2. step[q] = "on"
    BY <1>1, <2>1 DEF SetUp, Chosen
  <2>3. Nobody # p /\ Nobody # q /\ towel \in {q, Nobody}
    BY <1>1, <1>2, ShmLinkAssumption DEF TypeOK, SetUp, Towel
  <2>4. towel = q => tx[q] \in {0, 1} /\ rx[q] \in {0, 2}
    BY <1>1 DEF SetUp, Towel
  <2>5. step[p] = "clear" => towel = q
    BY <1>1, <2>2 DEF SetUp, Towel
  <2> HIDE DEF q
  <2>6. towel' # q => tx[q] \in {0, 2} /\ rx[q] \in {0, 1}
    BY <1>1, <1>2 DEF Agreed, TxChannel, RxChannel
  <2>7. ~Clear(p)
    <3>1. Clear(p) => towel' # q /\ step[p] = "clear"
      BY <2>3 DEF Clear
    <3> QED
      BY <2>1, <2>4, <2>5, <2>6, <3>1
  <2>8. slot' = slot /\ Lane(p)' = Lane(p) /\ Lane(q)' = Lane(q)
    <3>1. CASE Look(p)
      <4>1. /\ towel' = towel /\ slot' = slot
            /\ step'[p] = IF towel = Nobody THEN "lay" ELSE "on"
        BY <3>1 DEF Look, SeemsFree, TypeOK
      <4> QED
        BY <1>2, <2>3, <4>1 DEF Lane
    <3>2. CASE Lay(p)
      <4>1. towel' = p /\ slot' = slot
        BY <3>2 DEF Lay
      <4>2. towel = Nobody
        BY <1>1, <2>1, <2>3, <2>4, <2>6, <4>1
      <4> QED
        BY <1>1, <1>2, <2>2, <2>3, <4>1, <4>2 DEF Lane
    <3> QED
      BY <2>7, <3>1, <3>2 DEF Constructor
  <2>9. ASSUME NEW r \in Ends PROVE DirectionInv(r)'
    <3>1. Ring(r)' = Ring(r)
      BY <1>1, <2>8 DEF Ring
    <3> QED
      BY <1>2, <3>1, DirectionKept DEF InGoodOrder
  <2> QED
    BY <2>9 DEF InGoodOrder
<1> QED
  BY <1>3, <1>4

\* A thread chooses the channel of its direction.
LEMMA ChooseStep ==
  ASSUME TypeOK, SetUp, InGoodOrder, NEW p \in Ends, ChooseTx(p) \/ ChooseRx(p)
  PROVE  InGoodOrder'
<1>1. /\ step' = step /\ towel' = towel /\ slot' = slot
      /\ UNCHANGED <<out, in, hand, take, sent, got>>
  BY DEF ChooseTx, ChooseRx
<1>2. ASSUME NEW r \in Ends PROVE DirectionInv(r)'
  <2>1. Ring(r)' = Ring(r)
    BY <1>1 DEF Ring, Lane
  <2>2. DirectionInv(r)
    BY DEF InGoodOrder
  <2>3. /\ hand[r] # None => tx[r] # 0
        /\ take[Other(r)] # None => rx[Other(r)] # 0
    BY <2>2 DEF DirectionInv, InHand
  <2>4. /\ tx[r] # 0 => tx'[r] = tx[r]
        /\ rx[Other(r)] # 0 => rx'[Other(r)] = rx[Other(r)]
    BY TwoEnds DEF ChooseTx, ChooseRx, TypeOK
  <2> QED
    BY <1>1, <2>1, <2>2, <2>3, <2>4, DirectionKept
<1> QED
  BY <1>2 DEF InGoodOrder

\* The sender writes into a slot that nothing is under way in.
LEMMA WriteStep ==
  ASSUME TypeOK, SetUp, Agreed, InGoodOrder, NEW p \in Ends, NEW ping \in BOOLEAN, Write(p, ping)
  PROVE  InGoodOrder'
<1> DEFINE q == Other(p)
           m == hand'[p]
           c == Lane(p)
<1>1. q \in Ends /\ q # p /\ Other(q) = p /\ \A r \in Ends : r = p \/ r = q
  BY TwoEnds
<1>2. tx[p] # 0 /\ tx[p] = c /\ c \in Channels
  <2>1. tx[p] # 0
    BY DEF Write
  <2> QED
    BY <2>1, Channel
<1>3. TypeOK /\ DirectionInv(p) /\ DirectionInv(q)
  BY <1>1 DEF InGoodOrder
<1>4. out[p] \in 0 .. Slots - 1
  BY <1>3 DEF TypeOK
<1>5. slot' = [slot EXCEPT ![c][out[p]].data = m]
  BY <1>2 DEF Write
<1>6. /\ step' = step /\ towel' = towel /\ tx' = tx /\ rx' = rx
      /\ UNCHANGED <<out, in, take, sent, got>>
  BY DEF Write
<1>8. \A i \in 0 .. Slots - 1 :
        /\ Ring(p)'[i].status = Ring(p)[i].status
        /\ Ring(p)'[i].data = IF i = out[p] THEN m ELSE Ring(p)[i].data
  <2>1. slot \in Segment /\ Ring(p) = slot[c] /\ Ring(p)' = slot'[c]
    BY <1>3, <1>6, SegmentType DEF Ring, Lane
  <2> HIDE DEF m, c
  <2>2. slot[c] \in [0 .. Slots - 1 -> Slot] /\ slot[c][out[p]] \in Slot
    BY <1>2, <1>4, <2>1 DEF Segment
  <2>3. slot'[c] = [slot[c] EXCEPT ![out[p]] = [slot[c][out[p]] EXCEPT !.data = m]]
    BY <1>2, <1>4, <1>5, <2>1 DEF Segment
  <2>4. /\ slot'[c][out[p]].status = slot[c][out[p]].status
        /\ slot'[c][out[p]].data = m
    BY <1>4, <2>2, <2>3 DEF Slot
  <2>5. \A i \in 0 .. Slots - 1 : i # out[p] => slot'[c][i] = slot[c][i]
    BY <2>2, <2>3
  <2> QED
    BY <2>1, <2>4, <2>5
<1>9. Ring(p)[out[p]].status = "ready"
  BY <1>2 DEF Write, FreeSlot, Ring
<1>10. UnderWay(p) < Slots /\ Distance(p, out[p]) = UnderWay(p)
  <2>1. CASE UnderWay(p) = Slots
    <3>1. out[p] = in[q] /\ Distance(p, out[p]) = 0 /\ 0 < UnderWay(p)
      BY <1>3, <2>1, Counts, Numbers
    <3>2. Ring(p)[out[p]].status = "busy"
      BY <1>3, <1>4, <3>1 DEF DirectionInv, Filled
    <3> QED
      BY <1>9, <3>2
  <2>2. UnderWay(p) \in 0 .. Slots /\ Slots \in Nat
    BY <1>3, Counts, Numbers
  <2>3. UnderWay(p) # Slots => UnderWay(p) < Slots
    BY <2>2
  <2> QED
    BY <1>3, <2>1, <2>3, Counts
<1>11. DirectionInv(p)'
  <2>1. UnderWay(p)' = UnderWay(p) /\ \A i : Distance(p, i)' = Distance(p, i)
    BY <1>6 DEF UnderWay, Distance
  <2>2. InOrder(p)' /\ SenderAt(p)'
    BY <1>3, <1>6, <2>1 DEF DirectionInv, InOrder, SenderAt
  <2>3. Filled(p)'
    <3> SUFFICES ASSUME NEW i \in 0 .. Slots - 1
                 PROVE  IF Distance(p, i) < UnderWay(p)
                        THEN /\ Ring(p)'[i].status = "busy"
                             /\ Ring(p)'[i].data = sent[p][Len(got[q]) + 1 + Distance(p, i)]
                        ELSE Ring(p)'[i].status = "ready"
      BY <1>6, <2>1 DEF Filled
    <3>1. Distance(p, i) < UnderWay(p) => i # out[p]
      BY <1>3, <1>10, Counts
    <3> QED
      BY <1>3, <1>8, <3>1 DEF DirectionInv, Filled
  <2>4. InHand(p)'
    BY <1>2, <1>3, <1>4, <1>6, <1>8, <1>10, <2>1 DEF DirectionInv, InHand
  <2> QED
    BY <2>2, <2>3, <2>4 DEF DirectionInv
<1>12. DirectionInv(q)'
  <2>1. Lane(q) # c
    BY <1>2, Channel
  <2>2. Ring(q)' = Ring(q)
    BY <1>3, <1>5, <1>6, <2>1 DEF Ring, Lane, TypeOK
  <2>3. hand'[q] = hand[q]
    BY <1>1, <1>3 DEF Write, TypeOK
  <2> QED
    BY <1>1, <1>3, <1>6, <2>2, <2>3, DirectionKept
<1> QED
  BY <1>1, <1>11, <1>12 DEF InGoodOrder

\* What the sender marks busy is the last of what is under way.
LEMMA MarkStep ==
  ASSUME TypeOK, SetUp, Agreed, InGoodOrder, NEW p \in Ends, MarkBusy(p)
  PROVE  /\ InGoodOrder'
         /\ UnderWay(p) < Slots
         /\ sent'[p] = Append(sent[p], hand[p]) /\ hand[p] \in Message
         /\ sent'[Other(p)] = sent[Other(p)] /\ got' = got
<1> DEFINE q == Other(p)
           m == hand[p]
           c == Lane(p)
           w == UnderWay(p)
<1>1. q \in Ends /\ q # p /\ Other(q) = p /\ \A r \in Ends : r = p \/ r = q
  BY TwoEnds
<1>2. TypeOK /\ DirectionInv(p) /\ DirectionInv(q)
  BY <1>1 DEF InGoodOrder
<1>3. tx[p] # 0 /\ w < Slots /\ Ring(p)[out[p]].data = m /\ m \in Message
  BY <1>2 DEF MarkBusy, DirectionInv, InHand, TypeOK
<1>4. tx[p] = c /\ c \in Channels
  BY <1>3, Channel
<1>5. /\ step' = step /\ towel' = towel /\ tx' = tx /\ rx' = rx
      /\ UNCHANGED <<in, take, got>>
      /\ slot' = [slot EXCEPT ![c][out[p]].status = "busy"]
  BY <1>4 DEF MarkBusy
<1>7. /\ out'[p] = NextSlot(out[p]) /\ sent'[p] = Append(sent[p], m) /\ hand'[p] = None
      /\ out'[q] = out[q] /\ sent'[q] = sent[q] /\ hand'[q] = hand[q]
  BY <1>1, <1>2 DEF MarkBusy, TypeOK
<1>8. /\ out[p] \in 0 .. Slots - 1 /\ in[q] \in 0 .. Slots - 1
      /\ Len(sent[p]) \in Nat /\ Len(got[q]) \in Nat /\ w \in 0 .. Slots
      /\ Len(sent[p]) = Len(got[q]) + w
      /\ Distance(p, out[p]) = w /\ Slots \in Nat /\ w + 1 \in 0 .. Slots
  <2>1. w \in 0 .. Slots /\ Slots \in Nat
    BY <1>2, Counts, Numbers
  <2>2. w + 1 \in 0 .. Slots
    BY <1>3, <2>1
  <2> QED
    BY <1>2, <1>3, <2>1, <2>2, Counts
<1>9. \A i \in 0 .. Slots - 1 :
        /\ Ring(p)'[i].status = IF i = out[p] THEN "busy" ELSE Ring(p)[i].status
        /\ Ring(p)'[i].data = Ring(p)[i].data
  <2>1. slot \in Segment /\ Ring(p) = slot[c] /\ Ring(p)' = slot'[c]
    BY <1>2, <1>5, SegmentType DEF Ring, Lane
  <2> HIDE DEF c
  <2>2. slot[c] \in [0 .. Slots - 1 -> Slot] /\ slot[c][out[p]] \in Slot
    BY <1>4, <1>5, <1>8, <2>1 DEF Segment
  <2>3. slot'[c] = [slot[c] EXCEPT ![out[p]] = [slot[c][out[p]] EXCEPT !.status = "busy"]]
    BY <1>4, <1>5, <1>8, <2>1 DEF Segment
  <2>4. /\ slot'[c][out[p]].data = slot[c][out[p]].data
        /\ slot'[c][out[p]].status = "busy"
    BY <1>4, <1>5, <1>8, <2>2, <2>3 DEF Slot
  <2>5. \A i \in 0 .. Slots - 1 : i # out[p] => slot'[c][i] = slot[c][i]
    BY <2>2, <2>3
  <2> QED
    BY <2>1, <2>4, <2>5
<1>10. /\ sent[p] \in Seq(Message) /\ Len(sent'[p]) = Len(sent[p]) + 1
       /\ \A n \in 1 .. Len(sent[p]) : sent'[p][n] = sent[p][n]
       /\ sent'[p][Len(sent[p]) + 1] = m
  BY <1>2, <1>3, <1>7 DEF TypeOK
<1>11. UnderWay(p)' = w + 1 /\ \A i : Distance(p, i)' = Distance(p, i)
  BY <1>5, <1>8, <1>10 DEF UnderWay, Distance
<1>12. InOrder(p)'
  <2>1. \A n \in 1 .. Len(got[q]) : n \in 1 .. Len(sent[p])
    BY <1>8
  <2>2. \A n \in 1 .. Len(got[q]) : got[q][n] = sent'[p][n]
    BY <1>2, <1>10, <2>1 DEF DirectionInv, InOrder
  <2> QED
    BY <1>5, <1>8, <1>11, <2>2 DEF InOrder
<1>13. SenderAt(p)'
  <2>1. SenderAt(p) /\ Slots \in Nat
    BY <1>2, Numbers DEF DirectionInv
  <2>2. out'[p] = IF in[q] + (w + 1) >= Slots THEN in[q] + (w + 1) - Slots
                  ELSE in[q] + (w + 1)
    <3>1. w \in 0 .. Slots - 1
      BY <1>3, <1>8
    <3>2. out[p] = IF in[q] + w >= Slots THEN in[q] + w - Slots ELSE in[q] + w
      BY <2>1 DEF SenderAt
    <3> DEFINE a == in[q]
               o == out[p]
    <3>3. /\ Slots \in Nat /\ a \in 0 .. Slots - 1 /\ w \in 0 .. Slots - 1
          /\ o = IF a + w >= Slots THEN a + w - Slots ELSE a + w
      BY <1>8, <3>1, <3>2
    <3> HIDE DEF a, o, w
    <3>4. (IF o + 1 = Slots THEN 0 ELSE o + 1)
            = IF a + (w + 1) >= Slots THEN a + (w + 1) - Slots ELSE a + (w + 1)
      BY <3>3, BehindNumbers
    <3> QED
      BY <1>7, <3>4 DEF NextSlot, a, o
  <2> QED
    BY <1>5, <1>11, <2>2 DEF SenderAt
<1>14. Filled(p)'
  <2> SUFFICES ASSUME NEW i \in 0 .. Slots - 1
               PROVE  IF Distance(p, i) < w + 1
                      THEN /\ Ring(p)'[i].status = "busy"
                           /\ Ring(p)'[i].data = sent'[p][Len(got[q]) + 1 + Distance(p, i)]
                      ELSE Ring(p)'[i].status = "ready"
    BY <1>5, <1>11 DEF Filled
  <2>1. CASE i = out[p]
    <3>1. Len(got[q]) + 1 + Distance(p, i) = Len(sent[p]) + 1
      BY <1>8, <2>1
    <3>2. Distance(p, i) < w + 1
      BY <1>8, <2>1
    <3> QED
      BY <1>3, <1>9, <1>10, <2>1, <3>1, <3>2
  <2>2. CASE i # out[p]
    <3>1. Distance(p, i) # w /\ Distance(p, i) \in 0 .. Slots - 1
      BY <1>2, <2>2, Counts
    <3> DEFINE d == Distance(p, i)
               l == Len(got[q])
    <3>2. /\ d < w + 1 <=> d < w
          /\ d < w => l + 1 + d \in 1 .. Len(sent[p])
      <4>1. /\ d \in 0 .. Slots - 1 /\ Slots \in Nat /\ w \in 0 .. Slots /\ d # w
            /\ l \in Nat /\ Len(sent[p]) = l + w
        BY <1>8, <3>1
      <4> HIDE DEF d, l, w
      <4> QED
        BY <4>1
    <3> QED
      BY <1>2, <1>9, <1>10, <2>2, <3>2 DEF DirectionInv, Filled
  <2> QED
    BY <2>1, <2>2
<1>15. InHand(p)'
  <2>1. take[q] # None => rx[q] # 0 /\ w > 0 /\ take[q] = sent[p][Len(got[q]) + 1]
    BY <1>2 DEF DirectionInv, InHand
  <2>2. w > 0 => Len(got[q]) + 1 \in 1 .. Len(sent[p]) /\ w + 1 > 0
    BY <1>8
  <2> QED
    BY <1>5, <1>7, <1>10, <1>11, <2>1, <2>2 DEF InHand
<1>16. DirectionInv(q)'
  <2>1. Lane(q) # c
    BY <1>3, Channel
  <2>2. Ring(q)' = Ring(q)
    BY <1>2, <1>5, <2>1 DEF Ring, Lane, TypeOK
  <2> QED
    BY <1>1, <1>2, <1>5, <1>7, <2>2, DirectionKept
<1>17. DirectionInv(p)'
  BY <1>12, <1>13, <1>14, <1>15 DEF DirectionInv
<1> QED
  BY <1>1, <1>3, <1>5, <1>7, <1>16, <1>17 DEF InGoodOrder

\* The receiver copies the message that is due, since only what is under way
\* is marked busy.
LEMMA CopyStep ==
  ASSUME TypeOK, SetUp, Agreed, InGoodOrder, NEW q \in Ends, Copy(q)
  PROVE  InGoodOrder'
<1> DEFINE p == Other(q)
<1>1. p \in Ends /\ q # p /\ Other(p) = q /\ \A r \in Ends : r = p \/ r = q
  BY TwoEnds
<1>2. TypeOK /\ DirectionInv(p) /\ DirectionInv(q)
  BY <1>1 DEF InGoodOrder
<1>3. /\ step' = step /\ towel' = towel /\ tx' = tx /\ rx' = rx /\ slot' = slot
      /\ UNCHANGED <<out, in, hand, sent, got>>
      /\ rx[q] # 0
  BY DEF Copy
<1>4. rx[q] = Lane(p)
  BY <1>3, Channel
<1>6. take'[q] = Ring(p)[in[q]].data /\ take'[p] = take[p] /\ Ring(p)[in[q]].status = "busy"
  BY <1>1, <1>2, <1>4 DEF Copy, Ring, TypeOK
<1>7. UnderWay(p) > 0 /\ take'[q] = sent[p][Len(got[q]) + 1]
  <2>1. /\ in[q] \in 0 .. Slots - 1 /\ Distance(p, in[q]) = 0
        /\ UnderWay(p) \in 0 .. Slots /\ Len(got[q]) \in Nat
    BY <1>1, <1>2, Counts
  <2>2. IF 0 < UnderWay(p)
        THEN Ring(p)[in[q]].data = sent[p][Len(got[q]) + 1 + 0]
        ELSE Ring(p)[in[q]].status = "ready"
    BY <1>1, <1>2, <2>1 DEF DirectionInv, Filled
  <2>3. Len(got[q]) + 1 + 0 = Len(got[q]) + 1
    BY <2>1
  <2> QED
    BY <1>6, <2>2, <2>3
<1>8. DirectionInv(p)'
  <2>1. UnderWay(p)' = UnderWay(p) /\ \A i : Distance(p, i)' = Distance(p, i)
        /\ Ring(p)' = Ring(p)
    BY <1>3 DEF UnderWay, Distance, Ring, Lane
  <2>2. InOrder(p)' /\ SenderAt(p)'
    BY <1>2, <1>3, <2>1 DEF DirectionInv, InOrder, SenderAt
  <2>3. Filled(p)'
    BY <1>2, <1>3, <2>1 DEF DirectionInv, Filled
  <2>4. InHand(p)'
    BY <1>1, <1>2, <1>3, <1>7, <2>1 DEF DirectionInv, InHand
  <2> QED
    BY <2>2, <2>3, <2>4 DEF DirectionInv
<1>9. DirectionInv(q)'
  <2>1. Ring(q)' = Ring(q)
    BY <1>3 DEF Ring, Lane
  <2> QED
    BY <1>1, <1>2, <1>3, <1>6, <2>1, DirectionKept
<1> QED
  BY <1>1, <1>8, <1>9 DEF InGoodOrder

\* One slot on: what was at distance d from the receiver is at distance d - 1,
\* and the slot it leaves is the farthest.
LEMMA AheadNumbers ==
  ASSUME NEW size \in Nat, NEW a \in 0 .. size - 1, NEW i \in 0 .. size - 1,
         NEW b, b = (IF a + 1 = size THEN 0 ELSE a + 1),
         NEW d, d = (IF i >= a THEN i - a ELSE i + size - a)
  PROVE  (IF i >= b THEN i - b ELSE i + size - b) = IF i = a THEN size - 1 ELSE d - 1
OBVIOUS

LEMMA BehindStays ==
  ASSUME NEW size \in Nat, NEW a \in 0 .. size - 1, NEW m \in 1 .. size,
         NEW b, b = (IF a + 1 = size THEN 0 ELSE a + 1)
  PROVE  (IF b + (m - 1) >= size THEN b + (m - 1) - size ELSE b + (m - 1))
           = IF a + m >= size THEN a + m - size ELSE a + m
OBVIOUS

\* What the receiver releases is the first of what is under way.
LEMMA ReleaseStep ==
  ASSUME TypeOK, SetUp, Agreed, InGoodOrder, NEW q \in Ends, Release(q)
  PROVE  /\ InGoodOrder'
         /\ UnderWay(Other(q)) > 0
         /\ got'[q] = Append(got[q], sent[Other(q)][Len(got[q]) + 1])
         /\ got'[Other(q)] = got[Other(q)] /\ sent' = sent
<1> DEFINE p == Other(q)
           m == take[q]
           c == Lane(p)
           w == UnderWay(p)
           l == Len(got[q])
<1>1. p \in Ends /\ q # p /\ Other(p) = q /\ \A r \in Ends : r = p \/ r = q
  BY TwoEnds
<1>2. TypeOK /\ DirectionInv(p) /\ DirectionInv(q)
  BY <1>1 DEF InGoodOrder
<1>3. rx[q] # 0 /\ w > 0 /\ m = sent[p][l + 1] /\ m \in Message
  <2>1. rx[q] # 0 /\ w > 0 /\ m = sent[p][l + 1]
    BY <1>1, <1>2 DEF Release, DirectionInv, InHand
  <2>2. sent[p] \in Seq(Message) /\ Len(sent[p]) = l + w /\ l \in Nat /\ w \in 0 .. Slots
    BY <1>1, <1>2, Counts DEF TypeOK
  <2>3. l + 1 \in 1 .. Len(sent[p])
    <3> HIDE DEF l, w
    <3> QED
      BY <2>1, <2>2, Numbers
  <2> QED
    BY <2>1, <2>2, <2>3
<1>4. rx[q] = c /\ c \in Channels
  BY <1>1, <1>3, Channel
<1>5. /\ step' = step /\ towel' = towel /\ tx' = tx /\ rx' = rx
      /\ UNCHANGED <<out, hand, sent>>
      /\ slot' = [slot EXCEPT ![c][in[q]].status = "ready"]
  BY <1>4 DEF Release
<1>7. /\ in'[q] = NextSlot(in[q]) /\ got'[q] = Append(got[q], m) /\ take'[q] = None
      /\ in'[p] = in[p] /\ got'[p] = got[p] /\ take'[p] = take[p]
  BY <1>1, <1>2 DEF Release, TypeOK
<1>8. /\ in[q] \in 0 .. Slots - 1 /\ Len(sent[p]) \in Nat /\ l \in Nat
      /\ w \in 1 .. Slots /\ Len(sent[p]) = l + w /\ Slots \in Nat
  <2>1. w \in 0 .. Slots /\ Slots \in Nat
    BY <1>1, <1>2, Counts, Numbers
  <2>2. w \in 1 .. Slots
    BY <1>3, <2>1
  <2> QED
    BY <1>1, <1>2, <2>1, <2>2, Counts
<1>9. \A i \in 0 .. Slots - 1 :
        /\ Ring(p)'[i].status = IF i = in[q] THEN "ready" ELSE Ring(p)[i].status
        /\ Ring(p)'[i].data = Ring(p)[i].data
  <2>1. slot \in Segment /\ Ring(p) = slot[c] /\ Ring(p)' = slot'[c]
    BY <1>2, <1>5, SegmentType DEF Ring, Lane
  <2> HIDE DEF c
  <2>2. slot[c] \in [0 .. Slots - 1 -> Slot] /\ slot[c][in[q]] \in Slot
    BY <1>4, <1>8, <2>1 DEF Segment
  <2>3. slot'[c] = [slot[c] EXCEPT ![in[q]] = [slot[c][in[q]] EXCEPT !.status = "ready"]]
    BY <1>4, <1>5, <1>8, <2>1 DEF Segment
  <2>4. /\ slot'[c][in[q]].data = slot[c][in[q]].data
        /\ slot'[c][in[q]].status = "ready"
    BY <1>8, <2>2, <2>3 DEF Slot
  <2>5. \A i \in 0 .. Slots - 1 : i # in[q] => slot'[c][i] = slot[c][i]
    BY <2>2, <2>3
  <2> QED
    BY <2>1, <2>4, <2>5
<1>10. /\ got[q] \in Seq(Message \cup {Blank}) /\ Len(got'[q]) = l + 1
       /\ \A n \in 1 .. l : got'[q][n] = got[q][n]
       /\ got'[q][l + 1] = m
  <2>1. got[q] \in Seq(Message \cup {Blank}) /\ m \in Message \cup {Blank}
    BY <1>2, <1>3 DEF TypeOK
  <2>2. got'[q] = Append(got[q], m)
    BY <1>7
  <2> HIDE DEF m
  <2> QED
    BY <2>1, <2>2
<1>11. UnderWay(p)' = w - 1
  <2>1. UnderWay(p)' = Len(sent[p]) - (l + 1)
    BY <1>1, <1>5, <1>10 DEF UnderWay
  <2> HIDE DEF w, l
  <2> QED
    BY <1>8, <2>1
<1>12. InOrder(p)'
  <2>1. w - 1 \in 0 .. Slots
    BY <1>8
  <2>2. ASSUME NEW n \in 1 .. l + 1 PROVE got'[q][n] = sent[p][n]
    <3>1. n \in 1 .. l \/ n = l + 1
      BY <1>8
    <3> QED
      BY <1>1, <1>2, <1>3, <1>10, <3>1 DEF DirectionInv, InOrder
  <2> QED
    BY <1>1, <1>5, <1>10, <1>11, <2>1, <2>2 DEF InOrder
<1>13. SenderAt(p)'
  <2> DEFINE a == in[q]
             b == in'[q]
             o == out[p]
  <2>1. /\ Slots \in Nat /\ a \in 0 .. Slots - 1 /\ w \in 1 .. Slots
        /\ b = (IF a + 1 = Slots THEN 0 ELSE a + 1)
        /\ o = IF a + w >= Slots THEN a + w - Slots ELSE a + w
    BY <1>1, <1>2, <1>7, <1>8 DEF NextSlot, DirectionInv, SenderAt
  <2> HIDE DEF a, b, o, w
  <2>2. o = IF b + (w - 1) >= Slots THEN b + (w - 1) - Slots ELSE b + (w - 1)
    BY <2>1, BehindStays
  <2> QED
    BY <1>1, <1>5, <1>11, <2>2 DEF SenderAt, a, b, o
<1>14. Filled(p)'
  <2> SUFFICES ASSUME NEW i \in 0 .. Slots - 1
               PROVE  IF Distance(p, i)' < w - 1
                      THEN /\ Ring(p)'[i].status = "busy"
                           /\ Ring(p)'[i].data = sent[p][l + 1 + 1 + Distance(p, i)']
                      ELSE Ring(p)'[i].status = "ready"
    BY <1>1, <1>5, <1>10, <1>11 DEF Filled
  <2> DEFINE d == Distance(p, i)
             e == Distance(p, i)'
             a == in[q]
             b == in'[q]
  <2>1. /\ Slots \in Nat /\ a \in 0 .. Slots - 1 /\ w \in 1 .. Slots /\ l \in Nat
        /\ b = (IF a + 1 = Slots THEN 0 ELSE a + 1)
        /\ d = (IF i >= a THEN i - a ELSE i + Slots - a)
        /\ e = (IF i >= b THEN i - b ELSE i + Slots - b)
    BY <1>1, <1>7, <1>8 DEF NextSlot, Distance
  <2>2. IF d < w
        THEN Ring(p)[i].status = "busy" /\ Ring(p)[i].data = sent[p][l + 1 + d]
        ELSE Ring(p)[i].status = "ready"
    BY <1>1, <1>2 DEF DirectionInv, Filled
  <2>3. /\ e = IF i = a THEN Slots - 1 ELSE d - 1
        /\ d \in 0 .. Slots - 1
    <3> HIDE DEF a, b, d, e, w, l
    <3> QED
      BY <2>1, AheadNumbers
  <2>4. CASE i = a
    <3>1. ~(e < w - 1)
      <4> HIDE DEF a, b, d, e, w, l
      <4> QED
        BY <2>1, <2>3, <2>4
    <3> QED
      BY <1>9, <2>4, <3>1
  <2>5. CASE i # a
    <3>1. (e < w - 1 <=> d < w) /\ l + 1 + 1 + e = l + 1 + d
      <4> HIDE DEF a, b, d, e, w, l
      <4> QED
        BY <2>1, <2>3, <2>5
    <3> QED
      BY <1>9, <2>2, <2>5, <3>1
  <2> QED
    BY <2>4, <2>5
<1>15. InHand(p)'
  <2>1. hand[p] # None => tx[p] # 0 /\ w < Slots /\ Ring(p)[out[p]].data = hand[p]
    BY <1>2 DEF DirectionInv, InHand
  <2>2. out[p] \in 0 .. Slots - 1 /\ w - 1 < Slots
    BY <1>1, <1>2, <1>8 DEF TypeOK
  <2> QED
    BY <1>1, <1>5, <1>7, <1>9, <1>11, <2>1, <2>2 DEF InHand
<1>16. DirectionInv(q)'
  <2>1. Lane(q) # c /\ Lane(q) \in Channels
    BY <1>1, <1>3, Channel
  <2>2. Ring(q)' = Ring(q)
    BY <1>2, <1>5, <2>1 DEF Ring, Lane, TypeOK
  <2> QED
    BY <1>1, <1>2, <1>5, <1>7, <2>2, DirectionKept
<1>17. DirectionInv(p)'
  BY <1>12, <1>13, <1>14, <1>15 DEF DirectionInv
<1> QED
  BY <1>1, <1>3, <1>5, <1>7, <1>16, <1>17 DEF InGoodOrder

-----------------------------------------------------------------------------
(* The theorems.                                                           *)

\* What one direction of the link does in a step, as its abstraction sees it.
Sends(p) ==
  /\ UnderWay(p) < Slots
  /\ \E m \in Message : sent'[p] = Append(sent[p], m)
  /\ got'[Other(p)] = got[Other(p)]

Receives(p) ==
  /\ UnderWay(p) > 0
  /\ got'[Other(p)] = Append(got[Other(p)], sent[p][Len(got[Other(p)]) + 1])
  /\ sent'[p] = sent[p]

Rests(p) == sent'[p] = sent[p] /\ got'[Other(p)] = got[Other(p)]

LEMMA DirectionStep ==
  ASSUME TypeOK, SetUp, Agreed, InGoodOrder, TypeOK', SetUp', Agreed', [Next]_vars
  PROVE  InGoodOrder' /\ \A r \in Ends : Sends(r) \/ Receives(r) \/ Rests(r)
<1> USE DEF Rests
<1>1. ASSUME NEW p \in Ends, Constructor(p)
      PROVE  InGoodOrder' /\ \A r \in Ends : Rests(r)
  BY <1>1, ConstructorStep DEF Constructor, Clear, Look, Lay
<1>2. ASSUME NEW p \in Ends, ChooseTx(p) \/ ChooseRx(p)
      PROVE  InGoodOrder' /\ \A r \in Ends : Rests(r)
  BY <1>2, ChooseStep DEF ChooseTx, ChooseRx
<1>3. ASSUME NEW p \in Ends, NEW ping \in BOOLEAN, Write(p, ping)
      PROVE  InGoodOrder' /\ \A r \in Ends : Rests(r)
  BY <1>3, WriteStep DEF Write
<1>4. ASSUME NEW p \in Ends, MarkBusy(p)
      PROVE  InGoodOrder' /\ \A r \in Ends : Sends(r) \/ Rests(r)
  BY <1>4, MarkStep, TwoEnds DEF Sends
<1>5. ASSUME NEW q \in Ends, Copy(q)
      PROVE  InGoodOrder' /\ \A r \in Ends : Rests(r)
  BY <1>5, CopyStep DEF Copy
<1>6. ASSUME NEW q \in Ends, Release(q)
      PROVE  InGoodOrder' /\ \A r \in Ends : Receives(r) \/ Rests(r)
  <2>1. Other(q) \in Ends /\ Other(Other(q)) = q /\ \A r \in Ends : r = q \/ r = Other(q)
    BY TwoEnds
  <2> QED
    BY <1>6, <2>1, ReleaseStep DEF Receives
<1>7. ASSUME UNCHANGED vars \/ \E p \in Ends : Stop(p)
      PROVE  InGoodOrder' /\ \A r \in Ends : Rests(r)
  <2>1. UNCHANGED <<towel, slot, step, tx, rx, out, in, hand, take, sent, got>>
    BY <1>7 DEF Stop, vars
  <2>2. ASSUME NEW r \in Ends PROVE DirectionInv(r)'
    <3>1. Ring(r)' = Ring(r)
      BY <2>1 DEF Ring, Lane
    <3> QED
      BY <2>1, <3>1, DirectionKept DEF InGoodOrder
  <2> QED
    BY <2>1, <2>2 DEF InGoodOrder
<1> QED
  BY <1>1, <1>2, <1>3, <1>4, <1>5, <1>6, <1>7, ShmLinkAssumption
  DEF Next, SendThread, ReceiveThread

\* However the ends come up: while the threads that have chosen agree with the
\* towel, the slots of both rings hold just what is under way, in order
\* (SHM_Link::send and SHM_Link::receive), for any number of slots and of messages.
THEOREM Inductive == Spec => []IInv
<1>1. Init /\ TypeOK => IInv
  <2> SUFFICES ASSUME Init, TypeOK PROVE IInv
    OBVIOUS
  <2>1. ~AllOn
    <3>1. PICK p \in Ends : TRUE
      BY ShmLinkAssumption
    <3> QED
      BY <3>1 DEF AllOn, Init
  <2>2. SetUp
    BY <2>1, ShmLinkAssumption DEF SetUp, Init, Chosen, Towel
  <2>3. NoneChosen
    BY DEF Init, NoneChosen
  <2> QED
    BY <2>2, <2>3, AllFresh DEF IInv
<1>2. IInv /\ TypeOK' /\ [Next]_vars => IInv'
  <2> SUFFICES ASSUME IInv, TypeOK', [Next]_vars PROVE IInv'
    OBVIOUS
  <2>1. SetUp'
    BY SetUpStep DEF IInv
  <2>2. Agreed' => Agreed
    BY AgreedStep DEF IInv
  <2>3. Agreed' => InGoodOrder'
    BY <2>1, <2>2, DirectionStep DEF IInv
  <2> QED
    BY <2>1, <2>3 DEF IInv
<1>3. Spec => []TypeOK
  BY TypeCorrect
<1> QED
  BY <1>1, <1>2, <1>3, PTL DEF Spec

\* Only an end that comes up when a thread of the other has chosen breaks the link,
\* and it does so for ever (SHM_Link::SHM_Link, whose memset takes the towel that
\* was laid for the other's threads to go by).
THEOREM BreaksForGood == Spec => BrokenByStart
<1>1. IInv /\ TypeOK' /\ [Next]_vars =>
        /\ Agreed' => Agreed
        /\ Agreed /\ ~Agreed' =>
             \E p \in Ends : (Clear(p) \/ Lay(p)) /\ (tx[Other(p)] = 1 \/ rx[Other(p)] = 2)
  BY AgreedStep DEF IInv
<1> QED
  BY <1>1, Inductive, TypeCorrect, PTL DEF Spec, BrokenByStart

\* When all threads have chosen, the channels cross if the link is not broken, and
\* if it is the ends send on one channel or listen on one (SHM_Link::run_send and
\* SHM_Link::run_receive).
THEOREM Crosses == Spec => []CrossedIfAgreed
<1>1. IInv => CrossedIfAgreed
  <2> SUFFICES ASSUME IInv, \A p \in Ends : tx[p] # 0 /\ rx[p] # 0
               PROVE  Agreed <=> \A p \in Ends : tx[p] # tx[Other(p)] /\ rx[p] # rx[Other(p)]
    BY DEF CrossedIfAgreed
  <2>1. towel \in Ends
    BY DEF IInv, SetUp, Chosen, AllOn
  <2> DEFINE q == Other(towel)
  <2>2. q \in Ends /\ q # towel /\ Other(q) = towel /\ \A r \in Ends : r = towel \/ r = q
    BY <2>1, TwoEnds
  <2>3. tx[towel] = 1 /\ rx[towel] = 2
    BY <2>1 DEF IInv, SetUp, Towel
  <2>4. tx[q] \in {1, 2} /\ rx[q] \in {1, 2}
    BY <2>2 DEF IInv, TypeOK, Channels
  <2> HIDE DEF q
  <2>5. Agreed <=> tx[q] = 2 /\ rx[q] = 1
    BY <2>1, <2>2, <2>3, <2>4 DEF Agreed, TxChannel, RxChannel
  <2>6. (\A p \in Ends : tx[p] # tx[Other(p)] /\ rx[p] # rx[Other(p)])
          <=> tx[q] # tx[towel] /\ rx[q] # rx[towel]
    BY <2>1, <2>2 DEF q
  <2> QED
    BY <2>3, <2>4, <2>5, <2>6
<1> QED
  BY <1>1, Inductive, PTL

LEMMA LessNumbers ==
  ASSUME NEW x \in Nat, NEW y \in Nat, x - y > 0
  PROVE  y < x
OBVIOUS

\* Each direction is a channel in good order until the link is broken, for any
\* number of slots and any start: the link implements the abstract channel both
\* ways (the refinement of Fifo).
THEOREM IsChannel == Spec => IsFifo
<1> DEFINE a == OneEnd
           b == Other(OneEnd)
<1>1. a \in Ends /\ b \in Ends /\ Other(b) = a
  <2>1. a \in Ends
    BY ShmLinkAssumption DEF OneEnd
  <2> QED
    BY <2>1, TwoEnds
<1>2. Init => There!Init /\ Back!Init
  <2>1. Init => Agreed
    BY DEF Init, Agreed
  <2> QED
    BY <1>1, <2>1 DEF Init, There!Init, Back!Init
<1>3. ASSUME IInv, IInv', [Next]_vars
      PROVE  /\ [There!Send \/ There!Receive \/ There!Break]_<<sent[a], got[b], Agreed>>
             /\ [Back!Send \/ Back!Receive \/ Back!Break]_<<sent[b], got[a], Agreed>>
  <2>1. CASE ~Agreed'
    BY <2>1 DEF There!Break, Back!Break
  <2>2. CASE Agreed'
    <3>1. Agreed
      BY <1>3, <2>2, AgreedStep DEF IInv
    <3>2. \A r \in Ends : Sends(r) \/ Receives(r) \/ Rests(r)
      BY <1>3, <2>2, <3>1, DirectionStep DEF IInv
    <3>3. Sends(a) \/ Receives(a) \/ Rests(a)
      BY <1>1, <3>2
    <3>4. Sends(b) \/ Receives(b) \/ Rests(b)
      BY <1>1, <3>2
    <3>5. /\ Len(sent[a]) \in Nat /\ Len(got[a]) \in Nat
          /\ Len(sent[b]) \in Nat /\ Len(got[b]) \in Nat
      <4>1. sent \in [Ends -> Seq(Message)] /\ got \in [Ends -> Seq(Message \cup {Blank})]
        BY <1>3 DEF IInv, TypeOK
      <4> HIDE DEF a, b
      <4> QED
        BY <1>1, <4>1
    <3>6. There!Send \/ There!Receive \/ UNCHANGED <<sent[a], got[b], Agreed>>
      <4>1. Sends(a) => There!Send
        BY <2>2, <3>1 DEF Sends, UnderWay, There!Send
      <4>2. Receives(a) => There!Receive
        <5>1. Receives(a) => Len(got[b]) < Len(sent[a])
          BY <3>5, LessNumbers DEF Receives, UnderWay
        <5> QED
          BY <2>2, <3>1, <5>1 DEF Receives, There!Receive
      <4>3. Rests(a) => UNCHANGED <<sent[a], got[b], Agreed>>
        BY <1>1, <2>2, <3>1 DEF Rests
      <4> QED
        BY <3>3, <4>1, <4>2, <4>3
    <3>7. Back!Send \/ Back!Receive \/ UNCHANGED <<sent[b], got[a], Agreed>>
      <4>1. Sends(b) => Back!Send
        BY <1>1, <2>2, <3>1 DEF Sends, UnderWay, Back!Send
      <4>2. Receives(b) => Back!Receive
        <5>1. Receives(b) => Len(got[a]) < Len(sent[b])
          BY <1>1, <3>5, LessNumbers DEF Receives, UnderWay
        <5> QED
          BY <1>1, <2>2, <3>1, <5>1 DEF Receives, Back!Receive
      <4>3. Rests(b) => UNCHANGED <<sent[b], got[a], Agreed>>
        BY <1>1, <2>2, <3>1 DEF Rests
      <4> QED
        BY <3>4, <4>1, <4>2, <4>3
    <3> QED
      BY <3>6, <3>7
  <2> QED
    BY <2>1, <2>2
<1>4. Spec => []IInv
  BY Inductive
<1> QED
  BY <1>2, <1>3, <1>4, PTL DEF Spec, IsFifo, There!Spec, Back!Spec
=============================================================================
