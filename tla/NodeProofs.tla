----------------------------- MODULE NodeProofs -----------------------------
(***************************************************************************)
(* Proofs about a node: every variable keeps its type, what is asked of    *)
(* the kernel is kept until it is done, and no thread or link is left      *)
(* behind, for any applications, connections, cables and clocks.           *)
(***************************************************************************)
EXTENDS Node, FiniteSetTheorems, WellFoundedInduction, TLAPS

-----------------------------------------------------------------------------
(* Lists.                                                                  *)

\* A nonempty set of naturals has a least element, which is its Min.
LEMMA LeastIsMin ==
  ASSUME NEW S \in SUBSET Nat, S # {}
  PROVE  Min(S) \in S /\ \A y \in S : Min(S) <= y
<1> DEFINE R == OpToRel(<, Nat)
<1>1. IsWellFoundedOn(R, Nat)
  BY NatLessThanWellFounded
<1>2. \A x, y \in Nat : x < y => <<x, y>> \in R
  BY DEF OpToRel
<1> HIDE DEF R
<1>3. PICK x \in S : \A y \in S : ~(<<y, x>> \in R)
  BY <1>1, WFMin
<1>4. \A y \in S : ~(y < x)
  BY <1>2, <1>3
<1>5. \A y \in S : x <= y
  BY <1>4
<1> QED BY <1>5 DEF Min

\* The places of a list that are kept can be counted off one by one.
LEMMA Ranks ==
  ASSUME NEW L \in Nat, NEW I \in SUBSET (1 .. L)
  PROVE  /\ Cardinality(I) \in Nat
         /\ \A n \in 1 .. Cardinality(I) : \E i \in I : Cardinality({k \in I : k <= i}) = n
         /\ \A i, j \in I :
              Cardinality({k \in I : k <= i}) = Cardinality({k \in I : k <= j}) => i = j
         /\ \A i \in I : Cardinality({k \in I : k <= i}) \in 1 .. Cardinality(I)
<1> DEFINE Low(i) == {k \in I : k <= i}
           C == Cardinality(I)
           rank == [i \in I |-> Cardinality(Low(i))]
<1>1. IsFiniteSet(I) /\ C \in Nat
  <2>1. IsFiniteSet(1 .. L)
    BY FS_Interval
  <2> QED BY <2>1, FS_Subset, FS_CardinalityType
<1>2. \A i \in I : IsFiniteSet(Low(i)) /\ Cardinality(Low(i)) \in Nat /\ Cardinality(Low(i)) <= C
  BY <1>1, FS_Subset, FS_CardinalityType
<1>3. \A i \in I : Cardinality(Low(i)) \in 1 .. C
  <2> SUFFICES ASSUME NEW i \in I PROVE Cardinality(Low(i)) # 0
    BY <1>1, <1>2
  <2>1. i \in Low(i)
    OBVIOUS
  <2> QED BY <1>2, <2>1, FS_EmptySet
<1>4. \A i, j \in I : Cardinality(Low(i)) = Cardinality(Low(j)) => i = j
  <2>1. ASSUME NEW i \in I, NEW j \in I, i < j, Cardinality(Low(i)) = Cardinality(Low(j)) PROVE FALSE
    <3>1. Low(i) \subseteq Low(j)
      <4>1. \A a, b, c \in Int : a <= b /\ b < c => a <= c
        OBVIOUS
      <4>2. I \subseteq Int
        OBVIOUS
      <4> QED BY <2>1, <4>1, <4>2
    <3>2. Low(i) = Low(j)
      BY <1>2, <2>1, <3>1, FS_Subset
    <3>3. j \in Low(j) /\ j \notin Low(i)
      BY <2>1
    <3> QED BY <3>2, <3>3
  <2>2. \A i, j \in I : i \in Int /\ j \in Int
    OBVIOUS
  <2> HIDE DEF Low
  <2> QED BY <2>1, <2>2
<1> HIDE DEF Low, C
<1>5. rank \in Injection(I, 1 .. C)
  BY <1>3, <1>4 DEF Injection, IsInjective
<1>6. IsFiniteSet(1 .. C) /\ Cardinality(1 .. C) = C
  <2>1. Cardinality(1 .. C) = IF 1 > C THEN 0 ELSE C - 1 + 1
    BY <1>1, FS_Interval
  <2> QED BY <1>1, <2>1, FS_Interval
<1>7. rank \in Surjection(I, 1 .. C)
  BY <1>5, <1>6, FS_Injection DEF C
<1>8. \A n \in 1 .. C : \E i \in I : Cardinality(Low(i)) = n
  BY <1>7 DEF Surjection
<1> QED BY <1>1, <1>3, <1>4, <1>8 DEF Low, C

-----------------------------------------------------------------------------
(* The list of timers.                                                     *)

\* What is pending are the timers of the list that are not due, each once.
LEMMA PendingTimers ==
  ASSUME NEW list \in Seq(Timer)
  PROVE  /\ Pending(list) \in Seq(Timer)
         /\ \E from \in [1 .. Len(Pending(list)) -> 1 .. Len(list)] :
              /\ \A n \in 1 .. Len(Pending(list)) :
                   Pending(list)[n] = list[from[n]] /\ list[from[n]].at > now
              /\ \A n, m \in 1 .. Len(Pending(list)) : from[n] = from[m] => n = m
         /\ \A i \in 1 .. Len(list) : list[i].at > now =>
              \E n \in 1 .. Len(Pending(list)) : Pending(list)[n] = list[i]
<1> DEFINE I == {i \in 1 .. Len(list) : list[i].at > now}
           C == Cardinality(I)
           rank(i) == Cardinality({k \in I : k <= i})
           from == [n \in 1 .. C |-> CHOOSE i \in I : rank(i) = n]
<1>1. Len(list) \in Nat /\ I \in SUBSET (1 .. Len(list)) /\ \A i \in I : list[i] \in Timer
  OBVIOUS
<1>2. /\ C \in Nat
      /\ \A n \in 1 .. C : \E i \in I : rank(i) = n
      /\ \A i, j \in I : rank(i) = rank(j) => i = j
      /\ \A i \in I : rank(i) \in 1 .. C
  BY <1>1, Ranks
<1>3. Pending(list) = [n \in 1 .. C |-> list[from[n]]]
  BY DEF Pending
<1>4. \A i \in I : list[i].at > now
  OBVIOUS
<1>5. \A i \in 1 .. Len(list) : list[i].at > now => i \in I
  OBVIOUS
<1> HIDE DEF I, C, rank
<1>6. \A n \in 1 .. C : from[n] \in I /\ rank(from[n]) = n
  BY <1>2
<1>7. \A i \in I : \E n \in 1 .. C : from[n] = i
  BY <1>2, <1>6
<1>8. from \in [1 .. C -> 1 .. Len(list)]
  BY <1>1, <1>6
<1>9. \A n, m \in 1 .. C : from[n] = from[m] => n = m
  BY <1>6
<1> HIDE DEF from
<1>10. Pending(list) \in Seq(Timer) /\ Len(Pending(list)) = C
  <2>1. \A n \in 1 .. C : list[from[n]] \in Timer
    BY <1>1, <1>6
  <2> QED BY <1>2, <1>3, <2>1
<1>11. \A n \in 1 .. C : Pending(list)[n] = list[from[n]] /\ list[from[n]].at > now
  BY <1>3, <1>4, <1>6
<1>12. \A i \in 1 .. Len(list) : list[i].at > now => \E n \in 1 .. C : Pending(list)[n] = list[i]
  BY <1>5, <1>7, <1>11
<1> QED BY <1>8, <1>9, <1>10, <1>11, <1>12

\* A timer more is in the list, the others are still there, each once.
LEMMA InsertedTimers ==
  ASSUME timers \in Seq(Timer), NEW timer \in Timer
  PROVE  /\ Inserted(timer) \in Seq(Timer)
         /\ \E new \in 1 .. Len(Inserted(timer)) :
              \E from \in [1 .. Len(Inserted(timer)) -> Int] :
                /\ Inserted(timer)[new] = timer
                /\ \A n \in 1 .. Len(Inserted(timer)) : n # new =>
                     from[n] \in 1 .. Len(timers) /\ Inserted(timer)[n] = timers[from[n]]
                /\ \A n, m \in 1 .. Len(Inserted(timer)) :
                     n # new /\ m # new /\ from[n] = from[m] => n = m
                /\ \A i \in 1 .. Len(timers) : \E n \in 1 .. Len(Inserted(timer)) :
                     Inserted(timer)[n] = timers[i]
<1> DEFINE S == {i \in 1 .. Len(timers) : timers[i].at <= timer.at} \cup {Len(timers) + 1}
           p == Min(S)
           list == Inserted(timer)
           from == [n \in 1 .. Len(timers) + 1 |-> IF n < p THEN n ELSE n - 1]
<1>1. Len(timers) \in Nat
  OBVIOUS
<1>2. p \in 1 .. Len(timers) + 1
  <2>1. S \in SUBSET Nat /\ S # {} /\ S \subseteq 1 .. Len(timers) + 1
    BY <1>1
  <2> HIDE DEF S
  <2> QED BY <2>1, LeastIsMin
<1> HIDE DEF S
<1>3. list = SubSeq(timers, 1, p - 1) \o <<timer>> \o SubSeq(timers, p, Len(timers))
  BY DEF Inserted, InsertAt, S
<1> HIDE DEF p, list
<1>4. /\ list \in Seq(Timer) /\ Len(list) = Len(timers) + 1
      /\ list[p] = timer
      /\ \A n \in 1 .. p - 1 : list[n] = timers[n]
      /\ \A n \in p + 1 .. Len(timers) + 1 : list[n] = timers[n - 1]
  <2> DEFINE a == SubSeq(timers, 1, p - 1)
             b == SubSeq(timers, p, Len(timers))
  <2>1. a \in Seq(Timer) /\ Len(a) = p - 1 /\ \A n \in 1 .. p - 1 : a[n] = timers[n]
    BY <1>1, <1>2
  <2>2. /\ b \in Seq(Timer) /\ Len(b) = Len(timers) - p + 1
        /\ \A n \in 1 .. Len(timers) - p + 1 : b[n] = timers[p + n - 1]
    BY <1>1, <1>2
  <2>3. list = (a \o <<timer>>) \o b
    BY <1>3
  <2> HIDE DEF a, b
  <2>4. /\ a \o <<timer>> \in Seq(Timer) /\ Len(a \o <<timer>>) = p
        /\ (a \o <<timer>>)[p] = timer /\ \A n \in 1 .. p - 1 : (a \o <<timer>>)[n] = timers[n]
    <3>1. <<timer>> \in Seq(Timer) /\ Len(<<timer>>) = 1 /\ <<timer>>[1] = timer
      BY <1>1
    <3>2. a \o <<timer>> \in Seq(Timer) /\ Len(a \o <<timer>>) = p
      BY <1>2, <2>1, <3>1
    <3>3. (a \o <<timer>>)[p] = timer
      BY <1>2, <2>1, <3>1
    <3>4. \A n \in 1 .. p - 1 : (a \o <<timer>>)[n] = a[n]
      BY <1>2, <2>1, <3>1
    <3> QED BY <2>1, <3>2, <3>3, <3>4
  <2>5. list \in Seq(Timer) /\ Len(list) = p + (Len(timers) - p + 1)
    <3> DEFINE front == a \o <<timer>>
    <3>1. front \in Seq(Timer) /\ Len(front) = p /\ list = front \o b
      BY <2>3, <2>4
    <3> HIDE DEF front, list
    <3>2. front \o b \in Seq(Timer)
      BY ONLY <2>2, <3>1
    <3>3. Len(front \o b) = Len(front) + Len(b)
      BY ONLY <2>2, <3>1
    <3> QED BY <2>2, <3>1, <3>2, <3>3
  <2>6. \A n \in 1 .. p : list[n] = (a \o <<timer>>)[n]
    BY <1>1, <1>2, <2>2, <2>3, <2>4
  <2>7. \A n \in p + 1 .. Len(timers) + 1 : list[n] = b[n - p]
    BY <1>1, <1>2, <2>2, <2>3, <2>4
  <2>8. \A n \in p + 1 .. Len(timers) + 1 : n - p \in 1 .. Len(timers) - p + 1 /\ p + (n - p) - 1 = n - 1
    BY <1>1, <1>2
  <2>9. \A n \in p + 1 .. Len(timers) + 1 : list[n] = timers[n - 1]
    BY <2>2, <2>7, <2>8
  <2> QED BY <1>1, <1>2, <2>4, <2>5, <2>6, <2>9
<1>5. \A n \in 1 .. Len(list) : n # p => from[n] \in 1 .. Len(timers) /\ list[n] = timers[from[n]]
  BY <1>1, <1>2, <1>4
<1>6. \A n, m \in 1 .. Len(list) : n # p /\ m # p /\ from[n] = from[m] => n = m
  BY <1>1, <1>2, <1>4
<1>7. \A i \in 1 .. Len(timers) : \E n \in 1 .. Len(list) : list[n] = timers[i]
  <2> SUFFICES ASSUME NEW i \in 1 .. Len(timers) PROVE \E n \in 1 .. Len(list) : list[n] = timers[i]
    OBVIOUS
  <2>1. CASE i < p
    BY <1>1, <1>2, <1>4, <2>1
  <2>2. CASE i >= p
    <3>1. i + 1 \in p + 1 .. Len(timers) + 1 /\ (i + 1) - 1 = i /\ i + 1 \in 1 .. Len(list)
      BY <1>1, <1>2, <1>4, <2>2
    <3>2. list[i + 1] = timers[(i + 1) - 1]
      BY <1>4, <3>1
    <3> QED BY <3>1, <3>2
  <2> QED BY <1>2, <2>1, <2>2
<1>8. from \in [1 .. Len(list) -> Int] /\ p \in 1 .. Len(list)
  BY <1>1, <1>2, <1>4
<1> HIDE DEF from
<1> QED BY <1>4, <1>5, <1>6, <1>7, <1>8 DEF list

\* What is left when a timer is removed was there before, each once; the timers of
\* others stay.
LEMMA RemovedTimers ==
  ASSUME timers \in Seq(Timer), NEW to
  PROVE  /\ Removed(to) \in Seq(Timer)
         /\ \E from \in [1 .. Len(Removed(to)) -> 1 .. Len(timers)] :
              /\ \A n \in 1 .. Len(Removed(to)) : Removed(to)[n] = timers[from[n]]
              /\ \A n, m \in 1 .. Len(Removed(to)) : from[n] = from[m] => n = m
         /\ \A i \in 1 .. Len(timers) : timers[i].to # to =>
              \E n \in 1 .. Len(Removed(to)) : Removed(to)[n] = timers[i]
<1> DEFINE own == {i \in 1 .. Len(timers) : timers[i].to = to}
           p == Min(own)
           list == Removed(to)
<1>1. Len(timers) \in Nat
  OBVIOUS
<1>2. CASE own = {}
  <2>1. list = timers
    BY <1>2 DEF Removed
  <2> DEFINE from == [n \in 1 .. Len(timers) |-> n]
  <2>2. from \in [1 .. Len(timers) -> 1 .. Len(timers)]
    OBVIOUS
  <2> HIDE DEF list
  <2> QED BY <2>1, <2>2 DEF list
<1>3. CASE own # {}
  <2>1. p \in 1 .. Len(timers) /\ timers[p].to = to
    <3>1. own \in SUBSET Nat
      BY <1>1
    <3>2. p \in own
      BY <1>3, <3>1, LeastIsMin
    <3> QED BY <3>2
  <2>2. list = SubSeq(timers, 1, p - 1) \o SubSeq(timers, p + 1, Len(timers))
    BY <1>3 DEF Removed, RemoveAt
  <2> HIDE DEF p, list, own
  <2> DEFINE a == SubSeq(timers, 1, p - 1)
             b == SubSeq(timers, p + 1, Len(timers))
             from == [n \in 1 .. Len(timers) - 1 |-> IF n < p THEN n ELSE n + 1]
  <2>3. a \in Seq(Timer) /\ Len(a) = p - 1 /\ \A n \in 1 .. p - 1 : a[n] = timers[n]
    BY <1>1, <2>1
  <2>4. /\ b \in Seq(Timer) /\ Len(b) = Len(timers) - p
        /\ \A n \in 1 .. Len(timers) - p : b[n] = timers[p + n]
    <3>1. b \in Seq(Timer) /\ Len(b) = IF p + 1 <= Len(timers) THEN Len(timers) - (p + 1) + 1 ELSE 0
      BY <1>1, <2>1
    <3>2. \A n \in 1 .. Len(timers) - p : b[n] = timers[(p + 1) + n - 1]
      BY <1>1, <2>1
    <3>3. \A n \in 1 .. Len(timers) - p : (p + 1) + n - 1 = p + n
      BY <1>1, <2>1
    <3> QED BY <1>1, <2>1, <3>1, <3>2, <3>3
  <2>5. list = a \o b
    BY <2>2
  <2> HIDE DEF a, b
  <2>6. list \in Seq(Timer) /\ Len(list) = (p - 1) + (Len(timers) - p)
    BY <2>3, <2>4, <2>5
  <2>7. Len(list) = Len(timers) - 1
    BY <1>1, <2>1, <2>6
  <2>8. \A n \in 1 .. p - 1 : list[n] = timers[n]
    BY <1>1, <2>1, <2>3, <2>4, <2>5
  <2>9. \A n \in p .. Len(timers) - 1 : list[n] = b[n - (p - 1)]
    BY <1>1, <2>1, <2>3, <2>4, <2>5
  <2>10. \A n \in p .. Len(timers) - 1 : n - (p - 1) \in 1 .. Len(timers) - p /\ p + (n - (p - 1)) = n + 1
    BY <1>1, <2>1
  <2>11. \A n \in p .. Len(timers) - 1 : list[n] = timers[n + 1]
    BY <2>4, <2>9, <2>10
  <2>12. \A n \in 1 .. Len(list) : from[n] \in 1 .. Len(timers) /\ list[n] = timers[from[n]]
    BY <1>1, <2>1, <2>7, <2>8, <2>11
  <2>13. \A n, m \in 1 .. Len(list) : from[n] = from[m] => n = m
    BY <1>1, <2>1, <2>7
  <2>14. \A i \in 1 .. Len(timers) : i # p => \E n \in 1 .. Len(list) : list[n] = timers[i]
    <3> SUFFICES ASSUME NEW i \in 1 .. Len(timers), i # p
                 PROVE  \E n \in 1 .. Len(list) : list[n] = timers[i]
      OBVIOUS
    <3>1. CASE i < p
      BY <1>1, <2>1, <2>7, <2>8, <3>1
    <3>2. CASE i > p
      <4>1. i - 1 \in p .. Len(timers) - 1 /\ (i - 1) + 1 = i /\ i - 1 \in 1 .. Len(list)
        BY <1>1, <2>1, <2>7, <3>2
      <4>2. list[i - 1] = timers[(i - 1) + 1]
        BY <2>11, <4>1
      <4> QED BY <4>1, <4>2
    <3>3. i < p \/ i > p
      <4>1. i \in Int /\ p \in Int /\ i # p
        BY <2>1
      <4> QED BY <4>1
    <3> QED BY <3>1, <3>2, <3>3
  <2>15. from \in [1 .. Len(list) -> 1 .. Len(timers)]
    BY <1>1, <2>1, <2>7
  <2> HIDE DEF from
  <2>16. \E f \in [1 .. Len(list) -> 1 .. Len(timers)] :
           /\ \A n \in 1 .. Len(list) : list[n] = timers[f[n]]
           /\ \A n, m \in 1 .. Len(list) : f[n] = f[m] => n = m
    BY <2>12, <2>13, <2>15
  <2>17. \A i \in 1 .. Len(timers) : timers[i].to # to => \E n \in 1 .. Len(list) : list[n] = timers[i]
    BY <2>1, <2>14
  <2> QED BY <2>6, <2>16, <2>17 DEF list
<1> QED BY <1>2, <1>3

-----------------------------------------------------------------------------
(* The inductive invariant of the kernel and its clients.                  *)

Events ==
  [evt : {"exit"}] \cup [evt : {"stop"}, task : Threads \cup {"kernel"}]
  \cup [evt : {"start"}, task : Apps, from : Threads] \cup [evt : {"callback"}, from : Threads]
  \cup [evt : {"timer"}, to : Apps, delay : Nat]

IsCall(e, t) == e.evt \in {"start", "callback"} /\ e.from = t

IsAsk(e, t) == e.evt = "timer" /\ e.to = t

\* Where the thread of the GUI service is before it starts the launcher.
Early == {"none", "serve", "begin", "init", "start"}

Starting == {"launch", "starting"}

\* A thread waits for the kernel if and only if one call of its is in the mailbox.
CalledOnce(t) ==
  /\ \A i, k \in 1 .. Len(box) : IsCall(box[i], t) /\ IsCall(box[k], t) => i = k
  /\ \A i \in 1 .. Len(box) : IsCall(box[i], t) =>
       thread[t] \in IF box[i].evt = "start" THEN Starting ELSE Waiting \ Starting
  /\ thread[t] \in Waiting => \E i \in 1 .. Len(box) : IsCall(box[i], t)

\* A task is started once, and none before the launcher.
StartedOnce ==
  /\ \A i \in 1 .. Len(box) : box[i].evt = "start" =>
       /\ thread[box[i].task] = "none"
       /\ \A k \in 1 .. Len(box) : box[k].evt = "start" /\ box[k].task = box[i].task => i = k
  /\ thread[Service] \in Early =>
       /\ \A t \in Apps : thread[t] = "none"
       /\ \A i \in 1 .. Len(box) : box[i].evt # "start"

HasTimer(list, t) == \E i \in 1 .. Len(list) : list[i].to = t

OneIn(list, t) == \A i, k \in 1 .. Len(list) : list[i].to = t /\ list[k].to = t => i = k

\* An application that waits for a timer will get mail; what it cancelled was asked
\* for earlier.
Armed(t) ==
  armed[t] =>
    /\ \/ HasTimer(timers, t) \/ "timer" \in mail[t]
       \/ \E i \in 1 .. Len(box) : IsAsk(box[i], t) /\ box[i].delay # 0
    /\ \A i \in 1 .. Len(box) : IsAsk(box[i], t) /\ box[i].delay = 0 =>
         \E k \in 1 .. Len(box) : k > i /\ IsAsk(box[k], t) /\ box[k].delay # 0

\* One that does not cancel has one request, one timer or one mail.
OneTimer(t) ==
  t \notin Cancellers =>
    /\ \A i \in 1 .. Len(box) : IsAsk(box[i], t) =>
         /\ box[i].delay # 0 /\ armed[t] /\ ~HasTimer(timers, t) /\ "timer" \notin mail[t]
         /\ \A k \in 1 .. Len(box) : IsAsk(box[k], t) => i = k
    /\ HasTimer(timers, t) => armed[t] /\ "timer" \notin mail[t]
    /\ "timer" \in mail[t] => armed[t]
    /\ OneIn(timers, t)

\* The kernel wakes before the next timer is due.
Punctual ==
  /\ kernel = "off" => timers = <<>>
  /\ kernel = "read" /\ timers # <<>> =>
       /\ wake \in Nat
       /\ \A i \in 1 .. Len(timers) : timers[i].at >= wake /\ timers[i].at >= now

KInv ==
  /\ KernelTypeOK /\ box \in Seq(Events) /\ StartedOnce /\ Punctual
  /\ \A t \in Threads : CalledOnce(t)
  /\ \A t \in Apps : Armed(t) /\ OneTimer(t)

-----------------------------------------------------------------------------
(* Mailboxes that grow and shrink.                                         *)

\* Where what is in a mailbox stays when more is added.
LEMMA Grown ==
  ASSUME NEW b \in Seq(Events), NEW new \in Seq(Events), NEW b1, b1 = b \o new
  PROVE  /\ b1 \in Seq(Events) /\ Len(b) \in Nat /\ Len(b1) = Len(b) + Len(new) /\ Len(new) \in Nat
         /\ \A i \in 1 .. Len(b) : i \in 1 .. Len(b1) /\ b1[i] = b[i]
         /\ \A i \in 1 .. Len(b1) : i \in 1 .. Len(b) \/
              (i > Len(b) /\ i - Len(b) \in 1 .. Len(new) /\ b1[i] = new[i - Len(b)])
<1>1. Len(b) \in Nat /\ Len(new) \in Nat /\ b1 \in Seq(Events) /\ Len(b1) = Len(b) + Len(new)
  OBVIOUS
<1>2. \A i \in 1 .. Len(b1) : b1[i] = IF i <= Len(b) THEN b[i] ELSE new[i - Len(b)]
  OBVIOUS
<1> QED BY <1>1, <1>2

\* The same for one event more.
LEMMA Appended ==
  ASSUME NEW b \in Seq(Events), NEW e \in Events, NEW b1, b1 = Append(b, e)
  PROVE  /\ b1 \in Seq(Events) /\ Len(b) \in Nat /\ Len(b1) = Len(b) + 1
         /\ \A i \in 1 .. Len(b) : i \in 1 .. Len(b1) /\ b1[i] = b[i]
         /\ \A i \in 1 .. Len(b1) : i \in 1 .. Len(b) \/ (i = Len(b) + 1 /\ b1[i] = e)
         /\ Len(b) + 1 \in 1 .. Len(b1) /\ b1[Len(b) + 1] = e
OBVIOUS

\* To say nothing, or one thing, is to say a list of things.
LEMMA Said ==
  ASSUME NEW b \in Seq(Events), NEW e \in Events
  PROVE  /\ <<>> \in Seq(Events) /\ b \o <<>> = b /\ \A i \in 1 .. Len(<<>>) : FALSE
         /\ <<e>> \in Seq(Events) /\ b \o <<e>> = Append(b, e)
         /\ \A i \in 1 .. Len(<<e>>) : <<e>>[i] = e
<1>1. Len(<<>>) = 0 /\ <<>> \in Seq(Events) /\ b \o <<>> = b
  OBVIOUS
<1>2. <<e>> \in Seq(Events) /\ b \o <<e>> = Append(b, e)
  OBVIOUS
<1>3. Len(<<e>>) = 1 /\ <<e>>[1] = e
  OBVIOUS
<1>4. \A i \in 1 .. 1 : i = 1
  OBVIOUS
<1> HIDE DEF Events
<1>5. \A i \in 1 .. Len(<<e>>) : <<e>>[i] = e
  BY <1>3, <1>4
<1>6. \A i \in 1 .. Len(<<>>) : FALSE
  BY <1>1
<1> QED BY <1>1, <1>2, <1>5, <1>6

\* The same for what is left when the first has been read.
LEMMA Read ==
  ASSUME NEW b \in Seq(Events), b # <<>>, NEW b1, b1 = Tail(b)
  PROVE  /\ b1 \in Seq(Events) /\ Head(b) = b[1] /\ Head(b) \in Events /\ 1 \in 1 .. Len(b)
         /\ \A i \in 1 .. Len(b1) : i \in Int /\ i + 1 \in 1 .. Len(b) /\ i + 1 # 1 /\ b1[i] = b[i + 1]
         /\ \A i \in 1 .. Len(b) : i = 1 \/ (i - 1 \in 1 .. Len(b1) /\ b1[i - 1] = b[i])
<1>1. Len(b) \in Nat /\ Len(b) > 0 /\ b1 \in Seq(Events) /\ Len(b1) = Len(b) - 1
  OBVIOUS
<1>2. \A i \in 1 .. Len(b1) : b1[i] = b[i + 1]
  OBVIOUS
<1>3. \A i \in 1 .. Len(b) : i # 1 => i - 1 \in 1 .. Len(b1) /\ (i - 1) + 1 = i
  BY <1>1
<1>4. \A i \in 1 .. Len(b1) : i \in Int /\ i + 1 \in 1 .. Len(b) /\ i + 1 # 1
  BY <1>1
<1>5. Head(b) = b[1] /\ b[1] \in Events
  BY <1>1
<1> QED BY <1>1, <1>2, <1>3, <1>4, <1>5

\* Calls and starts are left as they are by what says nothing of them.
LEMMA QuietCalls ==
  ASSUME KInv, NEW new \in Seq(Events), box' = box \o new,
         \A i \in 1 .. Len(new) : new[i].evt \notin {"start", "callback"},
         \A u \in Threads : \/ thread'[u] = thread[u]
                            \/ /\ thread[u] \notin Waiting /\ thread'[u] \notin Waiting
                               /\ u \in Apps => thread[u] # "none",
         thread'[Service] \in Early => thread[Service] \in Early
  PROVE  StartedOnce' /\ \A t \in Threads : CalledOnce(t)'
<1>1. box \in Seq(Events) /\ StartedOnce /\ \A t \in Threads : CalledOnce(t)
  BY DEF KInv
<1>2. /\ \A i \in 1 .. Len(box) : i \in 1 .. Len(box') /\ box'[i] = box[i]
      /\ \A i \in 1 .. Len(box') : i \in 1 .. Len(box) \/ box'[i].evt \notin {"start", "callback"}
  BY <1>1, Grown
<1>3. \A i \in 1 .. Len(box) : box[i].evt = "start" => box[i].task \in Apps
  <2>1. \A i \in 1 .. Len(box) : box[i] \in Events
    BY <1>1
  <2> QED BY <2>1 DEF Events
<1>4. ASSUME NEW t \in Threads PROVE CalledOnce(t)'
  <2>1. CalledOnce(t)
    BY <1>1
  <2>2. \A i \in 1 .. Len(box') : IsCall(box'[i], t) => i \in 1 .. Len(box) /\ IsCall(box[i], t) /\ box'[i] = box[i]
    BY <1>2 DEF IsCall
  <2>3. \A i \in 1 .. Len(box) : IsCall(box[i], t) => i \in 1 .. Len(box') /\ IsCall(box'[i], t)
    BY <1>2 DEF IsCall
  <2>4. CASE thread'[t] = thread[t]
    BY <2>1, <2>2, <2>3, <2>4 DEF CalledOnce
  <2>5. CASE thread[t] \notin Waiting /\ thread'[t] \notin Waiting
    <3>1. \A i \in 1 .. Len(box) : ~IsCall(box[i], t)
      BY <2>1, <2>5 DEF CalledOnce, Waiting, Starting
    <3>2. \A i \in 1 .. Len(box') : ~IsCall(box'[i], t)
      BY <2>2, <3>1
    <3> QED BY <2>5, <3>2 DEF CalledOnce
  <2> QED BY <2>4, <2>5
<1>5. StartedOnce'
  <2>1. \A i \in 1 .. Len(box') : box'[i].evt = "start" => i \in 1 .. Len(box) /\ box'[i] = box[i]
    BY <1>2
  <2>2. \A t \in Apps : thread[t] = "none" => thread'[t] = "none"
    BY DEF Threads
  <2>3. ASSUME NEW i \in 1 .. Len(box'), box'[i].evt = "start"
        PROVE  /\ thread'[box'[i].task] = "none"
               /\ \A k \in 1 .. Len(box') : box'[k].evt = "start" /\ box'[k].task = box'[i].task => i = k
    <3>1. i \in 1 .. Len(box) /\ box'[i] = box[i] /\ box[i].task \in Apps
      BY <1>3, <2>1, <2>3
    <3>2. thread[box[i].task] = "none"
      BY <1>1, <2>3, <3>1 DEF StartedOnce
    <3>3. \A k \in 1 .. Len(box) : box[k].evt = "start" /\ box[k].task = box[i].task => i = k
      BY <1>1, <2>3, <3>1 DEF StartedOnce
    <3> QED BY <2>1, <2>2, <3>1, <3>2, <3>3
  <2>4. ASSUME thread'[Service] \in Early
        PROVE  /\ \A t \in Apps : thread'[t] = "none"
               /\ \A i \in 1 .. Len(box') : box'[i].evt # "start"
    <3>1. /\ \A t \in Apps : thread[t] = "none"
          /\ \A i \in 1 .. Len(box) : box[i].evt # "start"
      BY <1>1, <2>4 DEF StartedOnce
    <3> QED BY <2>1, <2>2, <3>1
  <2> QED BY <2>3, <2>4 DEF StartedOnce
<1> QED BY <1>4, <1>5

\* So are timers.
LEMMA QuietTimers ==
  ASSUME KInv, NEW new \in Seq(Events), box' = box \o new,
         \A i \in 1 .. Len(new) : new[i].evt # "timer",
         UNCHANGED <<armed, timers>>,
         \A t \in Apps : "timer" \in mail'[t] <=> "timer" \in mail[t]
  PROVE  \A t \in Apps : Armed(t)' /\ OneTimer(t)'
<1>1. box \in Seq(Events) /\ \A t \in Apps : Armed(t) /\ OneTimer(t)
  BY DEF KInv
<1>2. /\ \A i \in 1 .. Len(box) : i \in 1 .. Len(box') /\ box'[i] = box[i]
      /\ \A i \in 1 .. Len(box') : i \in 1 .. Len(box) \/ box'[i].evt # "timer"
  BY <1>1, Grown
<1> SUFFICES ASSUME NEW t \in Apps PROVE Armed(t)' /\ OneTimer(t)'
  OBVIOUS
<1>3. /\ \A i \in 1 .. Len(box') : IsAsk(box'[i], t) => i \in 1 .. Len(box) /\ IsAsk(box[i], t) /\ box'[i] = box[i]
      /\ \A i \in 1 .. Len(box) : IsAsk(box[i], t) => i \in 1 .. Len(box') /\ IsAsk(box'[i], t) /\ box'[i] = box[i]
  BY <1>2 DEF IsAsk
<1>4. HasTimer(timers, t)' = HasTimer(timers, t) /\ OneIn(timers, t)' = OneIn(timers, t)
  BY DEF HasTimer, OneIn
<1>5. Armed(t)'
  BY <1>1, <1>3, <1>4 DEF Armed
<1>6. OneTimer(t)'
  BY <1>1, <1>3, <1>4 DEF OneTimer
<1> QED BY <1>5, <1>6

-----------------------------------------------------------------------------
(* The kernel thread.                                                      *)

MailType == [Threads -> SUBSET {"exit", "timer"}]

\* What happens to the timers of a list: each is still there or has become mail.
LEMMA Fired ==
  ASSUME KernelAssumption, now \in Nat, NEW list \in Seq(Timer), NEW box1 \in MailType,
         Fire(list, box1)
  PROVE  /\ timers' \in Seq(Timer) /\ wake' \in Nat \cup {Never} /\ mail' \in MailType
         /\ timers' # <<>> =>
              /\ wake' \in Nat
              /\ \A i \in 1 .. Len(timers') : timers'[i].at >= wake' /\ timers'[i].at >= now
         /\ \A t \in Apps :
              /\ HasTimer(list, t) => HasTimer(timers', t) \/ "timer" \in mail'[t]
              /\ HasTimer(timers', t) => HasTimer(list, t)
              /\ "timer" \in box1[t] => "timer" \in mail'[t]
              /\ "timer" \in mail'[t] => "timer" \in box1[t] \/ HasTimer(list, t)
              /\ OneIn(list, t) => OneIn(timers', t)
              /\ OneIn(list, t) /\ HasTimer(timers', t) => "timer" \in box1[t] \/ "timer" \notin mail'[t]
<1>1. /\ timers' = Pending(list) /\ wake' = WakeTime(timers')
      /\ mail' = [t \in Threads |-> box1[t] \cup {"timer" : i \in
                {j \in 1 .. Len(list) : list[j].at <= now /\ list[j].to = t}}]
  BY DEF Fire
<1>2. /\ timers' \in Seq(Timer)
      /\ \A i \in 1 .. Len(list) : list[i].at > now => \E n \in 1 .. Len(timers') : timers'[n] = list[i]
  BY <1>1, PendingTimers
<1>3. PICK from \in [1 .. Len(timers') -> 1 .. Len(list)] :
        /\ \A n \in 1 .. Len(timers') : timers'[n] = list[from[n]] /\ list[from[n]].at > now
        /\ \A n, m \in 1 .. Len(timers') : from[n] = from[m] => n = m
  BY <1>1, PendingTimers
<1>4. mail' \in MailType
  BY <1>1 DEF MailType
<1>5. \A i \in 1 .. Len(list) : list[i].at \in Nat
  <2>1. \A i \in 1 .. Len(list) : list[i] \in Timer
    OBVIOUS
  <2> QED BY <2>1 DEF Timer
<1>6. \A t \in Threads : "timer" \in mail'[t] <=>
        "timer" \in box1[t] \/ \E j \in 1 .. Len(list) : list[j].at <= now /\ list[j].to = t
  BY <1>1
<1>7. timers' # <<>> =>
        /\ wake' \in Nat
        /\ \A i \in 1 .. Len(timers') : timers'[i].at >= wake' /\ timers'[i].at >= now
  <2> SUFFICES ASSUME timers' # <<>>
               PROVE  /\ wake' \in Nat
                      /\ \A i \in 1 .. Len(timers') : timers'[i].at >= wake' /\ timers'[i].at >= now
    OBVIOUS
  <2>1. Head(timers') = timers'[1] /\ 1 \in 1 .. Len(timers')
    BY <1>2
  <2>2. \A i \in 1 .. Len(timers') : timers'[i].at > now /\ timers'[i].at \in Nat
    BY <1>3, <1>5
  <2>3. wake' = IF timers'[1].at < now + 1 THEN timers'[1].at ELSE now + 1
    BY <1>1, <2>1 DEF WakeTime
  <2>4. wake' \in Nat /\ wake' <= now + 1
    BY <2>1, <2>2, <2>3
  <2> QED BY <2>2, <2>4
<1>8. wake' \in Nat \cup {Never}
  BY <1>1, <1>7 DEF WakeTime
<1>9. ASSUME NEW t \in Apps
      PROVE  /\ HasTimer(list, t) => HasTimer(timers', t) \/ "timer" \in mail'[t]
             /\ HasTimer(timers', t) => HasTimer(list, t)
             /\ "timer" \in box1[t] => "timer" \in mail'[t]
             /\ "timer" \in mail'[t] => "timer" \in box1[t] \/ HasTimer(list, t)
             /\ OneIn(list, t) => OneIn(timers', t)
             /\ OneIn(list, t) /\ HasTimer(timers', t) => "timer" \in box1[t] \/ "timer" \notin mail'[t]
  <2>1. t \in Threads
    BY DEF Threads
  <2>2. HasTimer(list, t) => HasTimer(timers', t) \/ "timer" \in mail'[t]
    <3> SUFFICES ASSUME NEW i \in 1 .. Len(list), list[i].to = t
                 PROVE  HasTimer(timers', t) \/ "timer" \in mail'[t]
      BY DEF HasTimer
    <3>1. CASE list[i].at > now
      BY <1>2, <3>1 DEF HasTimer
    <3>2. CASE list[i].at <= now
      BY <1>6, <2>1, <3>2
    <3> QED BY <1>5, <3>1, <3>2
  <2>3. HasTimer(timers', t) => HasTimer(list, t)
    BY <1>3 DEF HasTimer
  <2>4. "timer" \in mail'[t] => "timer" \in box1[t] \/ HasTimer(list, t)
    BY <1>6, <2>1 DEF HasTimer
  <2>5. OneIn(list, t) => OneIn(timers', t)
    <3> SUFFICES ASSUME OneIn(list, t), NEW n \in 1 .. Len(timers'), NEW m \in 1 .. Len(timers'),
                        timers'[n].to = t, timers'[m].to = t
                 PROVE  n = m
      BY DEF OneIn
    <3>1. from[n] \in 1 .. Len(list) /\ from[m] \in 1 .. Len(list)
      OBVIOUS
    <3>2. list[from[n]].to = t /\ list[from[m]].to = t
      BY <1>3
    <3>3. from[n] = from[m]
      BY <3>1, <3>2 DEF OneIn
    <3> QED BY <1>3, <3>3
  <2>6. OneIn(list, t) /\ HasTimer(timers', t) => "timer" \in box1[t] \/ "timer" \notin mail'[t]
    <3> SUFFICES ASSUME OneIn(list, t), NEW n \in 1 .. Len(timers'), timers'[n].to = t,
                        NEW j \in 1 .. Len(list), list[j].at <= now, list[j].to = t
                 PROVE  FALSE
      BY <1>6, <2>1 DEF HasTimer
    <3>1. from[n] = j
      BY <1>3 DEF OneIn
    <3> QED BY <1>3, <1>5, <3>1
  <2> QED BY <1>6, <2>1, <2>2, <2>3, <2>4, <2>5, <2>6
<1> QED BY <1>2, <1>4, <1>7, <1>8, <1>9

\* The timers of a thread of which nothing is read, though time may be up for them.
LEMMA TimersKept ==
  ASSUME KInv, KernelAssumption, NEW d \in {0, 1}, NEW t \in Apps,
         \A i \in 1 .. Len(box') : i + d \in 1 .. Len(box) /\ box'[i] = box[i + d],
         \A i \in 1 .. Len(box) : IsAsk(box[i], t) => i - d \in 1 .. Len(box'),
         NEW list \in Seq(Timer), NEW box1 \in MailType, Fire(list, box1), UNCHANGED armed,
         "timer" \in box1[t] <=> "timer" \in mail[t],
         HasTimer(list, t) <=> HasTimer(timers, t), OneIn(timers, t) => OneIn(list, t)
  PROVE  Armed(t)' /\ OneTimer(t)'
<1>1. Armed(t) /\ OneTimer(t) /\ now \in Nat
  BY DEF KInv, KernelTypeOK, KernelAssumption
<1>2. /\ HasTimer(list, t) => HasTimer(timers', t) \/ "timer" \in mail'[t]
      /\ HasTimer(timers', t) => HasTimer(list, t)
      /\ "timer" \in box1[t] => "timer" \in mail'[t]
      /\ "timer" \in mail'[t] => "timer" \in box1[t] \/ HasTimer(list, t)
      /\ OneIn(list, t) => OneIn(timers', t)
      /\ OneIn(list, t) /\ HasTimer(timers', t) => "timer" \in box1[t] \/ "timer" \notin mail'[t]
  BY <1>1, Fired
<1>3. HasTimer(timers, t)' = HasTimer(timers', t) /\ OneIn(timers, t)' = OneIn(timers', t)
  BY DEF HasTimer, OneIn
<1>4. \A i \in 1 .. Len(box') : IsAsk(box'[i], t) => i + d \in 1 .. Len(box) /\ IsAsk(box[i + d], t)
  OBVIOUS
<1>5. \A i \in 1 .. Len(box) : IsAsk(box[i], t) =>
        /\ i - d \in 1 .. Len(box') /\ IsAsk(box'[i - d], t) /\ box'[i - d] = box[i]
  <2> SUFFICES ASSUME NEW i \in 1 .. Len(box), IsAsk(box[i], t)
               PROVE  i - d \in 1 .. Len(box') /\ box'[i - d] = box[i]
    OBVIOUS
  <2>1. i - d \in 1 .. Len(box') /\ (i - d) + d = i
    OBVIOUS
  <2> QED BY <2>1
<1>6. Armed(t)'
  <2> SUFFICES ASSUME armed[t]
               PROVE  /\ \/ HasTimer(timers', t) \/ "timer" \in mail'[t]
                         \/ \E i \in 1 .. Len(box') : IsAsk(box'[i], t) /\ box'[i].delay # 0
                      /\ \A i \in 1 .. Len(box') : IsAsk(box'[i], t) /\ box'[i].delay = 0 =>
                           \E k \in 1 .. Len(box') : k > i /\ IsAsk(box'[k], t) /\ box'[k].delay # 0
    BY <1>3 DEF Armed
  <2>1. \/ HasTimer(timers', t) \/ "timer" \in mail'[t]
        \/ \E i \in 1 .. Len(box') : IsAsk(box'[i], t) /\ box'[i].delay # 0
    <3>1. CASE HasTimer(timers, t) \/ "timer" \in mail[t]
      BY <1>2, <3>1
    <3>2. CASE \E i \in 1 .. Len(box) : IsAsk(box[i], t) /\ box[i].delay # 0
      BY <1>5, <3>2
    <3> QED BY <1>1, <3>1, <3>2 DEF Armed
  <2>2. ASSUME NEW i \in 1 .. Len(box'), IsAsk(box'[i], t), box'[i].delay = 0
        PROVE  \E k \in 1 .. Len(box') : k > i /\ IsAsk(box'[k], t) /\ box'[k].delay # 0
    <3>1. i + d \in 1 .. Len(box) /\ IsAsk(box[i + d], t) /\ box[i + d].delay = 0
      BY <1>4, <2>2
    <3>2. PICK k \in 1 .. Len(box) : k > i + d /\ IsAsk(box[k], t) /\ box[k].delay # 0
      BY <1>1, <3>1 DEF Armed
    <3>3. k - d > i
      BY <3>2
    <3>4. k - d \in 1 .. Len(box') /\ IsAsk(box'[k - d], t) /\ box'[k - d].delay # 0
      BY <1>5, <3>2
    <3> QED BY <3>3, <3>4
  <2> QED BY <2>1, <2>2
<1>7. OneTimer(t)'
  <2> SUFFICES ASSUME t \notin Cancellers
               PROVE  /\ \A i \in 1 .. Len(box') : IsAsk(box'[i], t) =>
                           /\ box'[i].delay # 0 /\ armed[t] /\ ~HasTimer(timers', t) /\ "timer" \notin mail'[t]
                           /\ \A k \in 1 .. Len(box') : IsAsk(box'[k], t) => i = k
                      /\ HasTimer(timers', t) => armed[t] /\ "timer" \notin mail'[t]
                      /\ "timer" \in mail'[t] => armed[t]
                      /\ OneIn(timers', t)
    BY <1>3 DEF OneTimer
  <2>1. ASSUME NEW i \in 1 .. Len(box'), IsAsk(box'[i], t)
        PROVE  /\ box'[i].delay # 0 /\ armed[t] /\ ~HasTimer(timers', t) /\ "timer" \notin mail'[t]
               /\ \A k \in 1 .. Len(box') : IsAsk(box'[k], t) => i = k
    <3>1. i + d \in 1 .. Len(box) /\ IsAsk(box[i + d], t) /\ box'[i] = box[i + d]
      BY <1>4, <2>1
    <3>2. /\ box[i + d].delay # 0 /\ armed[t] /\ ~HasTimer(timers, t) /\ "timer" \notin mail[t]
          /\ \A k \in 1 .. Len(box) : IsAsk(box[k], t) => i + d = k
      BY <1>1, <3>1 DEF OneTimer
    <3>3. \A k \in 1 .. Len(box') : IsAsk(box'[k], t) => i + d = k + d
      BY <1>4, <3>2
    <3>4. \A k \in 1 .. Len(box') : i + d = k + d => i = k
      OBVIOUS
    <3> QED BY <1>2, <3>1, <3>2, <3>3, <3>4
  <2> QED BY <1>1, <1>2, <2>1 DEF OneTimer
<1> QED BY <1>6, <1>7

\* Whose timers are in the list when one is put in.
LEMMA InsertedHas ==
  ASSUME timers \in Seq(Timer), NEW timer \in Timer, NEW u
  PROVE  /\ HasTimer(Inserted(timer), u) <=> u = timer.to \/ HasTimer(timers, u)
         /\ OneIn(timers, u) /\ (u = timer.to => ~HasTimer(timers, u)) => OneIn(Inserted(timer), u)
<1> DEFINE list == Inserted(timer)
<1>1. PICK new \in 1 .. Len(list) :
        \E from \in [1 .. Len(list) -> Int] :
          /\ list[new] = timer
          /\ \A n \in 1 .. Len(list) : n # new => from[n] \in 1 .. Len(timers) /\ list[n] = timers[from[n]]
          /\ \A n, m \in 1 .. Len(list) : n # new /\ m # new /\ from[n] = from[m] => n = m
          /\ \A i \in 1 .. Len(timers) : \E n \in 1 .. Len(list) : list[n] = timers[i]
  BY InsertedTimers
<1>2. PICK from \in [1 .. Len(list) -> Int] :
        /\ list[new] = timer
        /\ \A n \in 1 .. Len(list) : n # new => from[n] \in 1 .. Len(timers) /\ list[n] = timers[from[n]]
        /\ \A n, m \in 1 .. Len(list) : n # new /\ m # new /\ from[n] = from[m] => n = m
        /\ \A i \in 1 .. Len(timers) : \E n \in 1 .. Len(list) : list[n] = timers[i]
  BY <1>1
<1> HIDE DEF list
<1>3. HasTimer(list, u) <=> u = timer.to \/ HasTimer(timers, u)
  <2>1. ASSUME NEW n \in 1 .. Len(list), list[n].to = u PROVE u = timer.to \/ HasTimer(timers, u)
    <3>1. n # new => from[n] \in 1 .. Len(timers) /\ timers[from[n]].to = u
      BY <1>2, <2>1
    <3> QED BY <1>2, <2>1, <3>1 DEF HasTimer
  <2>2. u = timer.to => HasTimer(list, u)
    BY <1>2 DEF HasTimer
  <2>3. ASSUME NEW i \in 1 .. Len(timers), timers[i].to = u PROVE HasTimer(list, u)
    <3>1. PICK n \in 1 .. Len(list) : list[n] = timers[i]
      BY <1>2
    <3> QED BY <2>3, <3>1 DEF HasTimer
  <2> QED BY <2>1, <2>2, <2>3 DEF HasTimer
<1>4. ASSUME OneIn(timers, u), u = timer.to => ~HasTimer(timers, u) PROVE OneIn(list, u)
  <2> SUFFICES ASSUME NEW n \in 1 .. Len(list), NEW m \in 1 .. Len(list), list[n].to = u, list[m].to = u
               PROVE  n = m
    BY DEF OneIn
  <2>1. CASE n # new /\ m # new
    <3>1. from[n] \in 1 .. Len(timers) /\ from[m] \in 1 .. Len(timers)
      BY <1>2, <2>1
    <3>2. timers[from[n]].to = u /\ timers[from[m]].to = u
      BY <1>2, <2>1
    <3>3. from[n] = from[m]
      BY <1>4, <3>1, <3>2 DEF OneIn
    <3> QED BY <1>2, <2>1, <3>3
  <2>2. CASE n = new
    BY <1>2, <1>4, <2>2 DEF HasTimer
  <2>3. CASE m = new
    BY <1>2, <1>4, <2>3 DEF HasTimer
  <2> QED BY <2>1, <2>2, <2>3
<1> QED BY <1>3, <1>4 DEF list

\* The same when one is taken out.
LEMMA RemovedHas ==
  ASSUME timers \in Seq(Timer), NEW to, NEW u
  PROVE  /\ HasTimer(Removed(to), u) => HasTimer(timers, u)
         /\ u # to /\ HasTimer(timers, u) => HasTimer(Removed(to), u)
         /\ OneIn(timers, u) => OneIn(Removed(to), u)
<1> DEFINE list == Removed(to)
<1>1. \A i \in 1 .. Len(timers) : timers[i].to # to => \E n \in 1 .. Len(list) : list[n] = timers[i]
  BY RemovedTimers
<1>2. PICK from \in [1 .. Len(list) -> 1 .. Len(timers)] :
        /\ \A n \in 1 .. Len(list) : list[n] = timers[from[n]]
        /\ \A n, m \in 1 .. Len(list) : from[n] = from[m] => n = m
  BY RemovedTimers
<1> HIDE DEF list
<1>3. HasTimer(list, u) => HasTimer(timers, u)
  BY <1>2 DEF HasTimer
<1>4. u # to /\ HasTimer(timers, u) => HasTimer(list, u)
  BY <1>1 DEF HasTimer
<1>5. ASSUME OneIn(timers, u) PROVE OneIn(list, u)
  <2> SUFFICES ASSUME NEW n \in 1 .. Len(list), NEW m \in 1 .. Len(list), list[n].to = u, list[m].to = u
               PROVE  n = m
    BY DEF OneIn
  <2>1. from[n] = from[m]
    BY <1>2, <1>5 DEF OneIn
  <2> QED BY <1>2, <2>1
<1> QED BY <1>3, <1>4, <1>5 DEF list

\* A request for a timer, or to cancel one, is done.
LEMMA TimerEvent ==
  ASSUME KInv, KernelAssumption, box # <<>>, box' = Tail(box), UNCHANGED armed,
         NEW e, e = Head(box), e.evt = "timer", HandleTimer(e)
  PROVE  /\ \A t \in Apps : Armed(t)' /\ OneTimer(t)'
         /\ \E list \in Seq(Timer) : Fire(list, mail)
<1>1. /\ box \in Seq(Events) /\ timers \in Seq(Timer) /\ mail \in MailType /\ now \in Nat
      /\ \A t \in Apps : Armed(t) /\ OneTimer(t)
  BY DEF KInv, KernelTypeOK, KernelAssumption, MailType
<1>2. /\ e = box[1] /\ e \in Events /\ 1 \in 1 .. Len(box)
      /\ \A i \in 1 .. Len(box') : i \in Int /\ i + 1 \in 1 .. Len(box) /\ i + 1 # 1 /\ box'[i] = box[i + 1]
      /\ \A i \in 1 .. Len(box) : i = 1 \/ (i - 1 \in 1 .. Len(box') /\ box'[i - 1] = box[i])
  BY <1>1, Read
<1>3. e.to \in Apps /\ e.delay \in Nat
  BY <1>2 DEF Events
<1> DEFINE timer == [to |-> e.to, at |-> now + e.delay]
<1>4. timer \in Timer /\ timer.to = e.to
  BY <1>1, <1>3 DEF Timer
<1> HIDE DEF timer
<1>5. /\ \A u \in Apps : u # e.to => \A i \in 1 .. Len(box) : IsAsk(box[i], u) => i - 1 \in 1 .. Len(box')
      /\ IsAsk(box[1], e.to)
  BY <1>2 DEF IsAsk
<1>6. CASE e.delay # 0
  <2> DEFINE list == Inserted(timer)
  <2>1. list \in Seq(Timer) /\ Fire(list, mail)
    BY <1>1, <1>4, <1>6, InsertedTimers DEF HandleTimer, timer
  <2>2. \A u : /\ HasTimer(list, u) <=> u = e.to \/ HasTimer(timers, u)
               /\ OneIn(timers, u) /\ (u = e.to => ~HasTimer(timers, u)) => OneIn(list, u)
    BY <1>1, <1>4, InsertedHas
  <2> HIDE DEF list
  <2>3. ASSUME NEW t \in Apps, t # e.to PROVE Armed(t)' /\ OneTimer(t)'
    <3>1. (HasTimer(list, t) <=> HasTimer(timers, t)) /\ (OneIn(timers, t) => OneIn(list, t))
      BY <2>2, <2>3
    <3>2. \A i \in 1 .. Len(box) : IsAsk(box[i], t) => i - 1 \in 1 .. Len(box')
      BY <1>5, <2>3
    <3> QED BY <1>1, <1>2, <2>1, <2>3, <3>1, <3>2, TimersKept
  <2>4. ASSUME NEW t \in Apps, t = e.to PROVE Armed(t)' /\ OneTimer(t)'
    <3>1. HasTimer(timers', t) \/ "timer" \in mail'[t]
      BY <1>1, <2>1, <2>2, <2>4, Fired
    <3>2. HasTimer(timers, t)' = HasTimer(timers', t) /\ OneIn(timers, t)' = OneIn(timers', t)
      BY DEF HasTimer, OneIn
    <3>3. Armed(t)'
      <4>1. ASSUME armed[t], NEW i \in 1 .. Len(box'), IsAsk(box'[i], t), box'[i].delay = 0
            PROVE  \E k \in 1 .. Len(box') : k > i /\ IsAsk(box'[k], t) /\ box'[k].delay # 0
        <5>1. i + 1 \in 1 .. Len(box) /\ IsAsk(box[i + 1], t) /\ box[i + 1].delay = 0
          BY <1>2, <4>1
        <5>2. PICK k \in 1 .. Len(box) : k > i + 1 /\ IsAsk(box[k], t) /\ box[k].delay # 0
          BY <1>1, <4>1, <5>1 DEF Armed
        <5>3. k # 1 /\ k - 1 > i
          BY <1>2, <4>1, <5>1, <5>2
        <5>4. k - 1 \in 1 .. Len(box') /\ box'[k - 1] = box[k]
          BY <1>2, <5>3
        <5> QED BY <5>2, <5>3, <5>4
      <4> QED BY <3>1, <3>2, <4>1 DEF Armed
    <3>4. OneTimer(t)'
      <4> SUFFICES ASSUME t \notin Cancellers PROVE OneTimer(t)'
        BY DEF OneTimer
      <4>1. /\ armed[t] /\ ~HasTimer(timers, t) /\ "timer" \notin mail[t]
            /\ \A k \in 1 .. Len(box) : IsAsk(box[k], t) => 1 = k
        <5>1. 1 \in 1 .. Len(box) /\ IsAsk(box[1], t)
          BY <1>2, <1>5, <2>4
        <5>2. OneTimer(t)
          BY <1>1
        <5> QED BY <5>1, <5>2 DEF OneTimer
      <4>2. \A i \in 1 .. Len(box') : ~IsAsk(box'[i], t)
        BY <1>2, <4>1
      <4>3. OneIn(list, t)
        BY <1>1, <2>2, <4>1 DEF OneTimer
      <4>4. OneIn(timers', t) /\ (HasTimer(timers', t) => "timer" \notin mail'[t])
        BY <1>1, <2>1, <4>1, <4>3, Fired
      <4> QED BY <3>2, <4>1, <4>2, <4>4 DEF OneTimer
    <3> QED BY <3>3, <3>4
  <2> QED BY <1>1, <2>1, <2>3, <2>4
<1>7. CASE e.delay = 0
  <2> DEFINE list == Removed(e.to)
  <2>1. list \in Seq(Timer) /\ Fire(list, mail)
    BY <1>1, <1>7, RemovedTimers DEF HandleTimer
  <2>2. \A u : /\ HasTimer(list, u) => HasTimer(timers, u)
               /\ u # e.to /\ HasTimer(timers, u) => HasTimer(list, u)
               /\ OneIn(timers, u) => OneIn(list, u)
    BY <1>1, RemovedHas
  <2> HIDE DEF list
  <2>3. ASSUME NEW t \in Apps, t # e.to PROVE Armed(t)' /\ OneTimer(t)'
    <3>1. (HasTimer(list, t) <=> HasTimer(timers, t)) /\ (OneIn(timers, t) => OneIn(list, t))
      BY <2>2, <2>3
    <3>2. \A i \in 1 .. Len(box) : IsAsk(box[i], t) => i - 1 \in 1 .. Len(box')
      BY <1>5, <2>3
    <3> QED BY <1>1, <1>2, <2>1, <2>3, <3>1, <3>2, TimersKept
  <2>4. ASSUME NEW t \in Apps, t = e.to PROVE Armed(t)' /\ OneTimer(t)'
    <3>1. t \in Cancellers
      BY <1>1, <1>2, <1>5, <1>7, <2>4 DEF OneTimer
    <3>2. \A i \in 1 .. Len(box) : armed[t] /\ IsAsk(box[i], t) /\ box[i].delay = 0 =>
            \E k \in 1 .. Len(box') : k + 1 > i /\ IsAsk(box'[k], t) /\ box'[k].delay # 0
      <4> SUFFICES ASSUME NEW i \in 1 .. Len(box), armed[t], IsAsk(box[i], t), box[i].delay = 0
                   PROVE  \E k \in 1 .. Len(box') : k + 1 > i /\ IsAsk(box'[k], t) /\ box'[k].delay # 0
        OBVIOUS
      <4>1. PICK k \in 1 .. Len(box) : k > i /\ IsAsk(box[k], t) /\ box[k].delay # 0
        BY <1>1 DEF Armed
      <4>2. k # 1 /\ (k - 1) + 1 = k
        BY <4>1
      <4>3. k - 1 \in 1 .. Len(box') /\ box'[k - 1] = box[k]
        BY <1>2, <4>2
      <4>4. (k - 1) + 1 > i
        BY <4>1, <4>2
      <4> QED BY <4>1, <4>3, <4>4
    <3>3. Armed(t)'
      <4>1. armed[t] => \E k \in 1 .. Len(box') : IsAsk(box'[k], t) /\ box'[k].delay # 0
        BY <1>2, <1>5, <1>7, <2>4, <3>2
      <4>2. ASSUME armed[t], NEW i \in 1 .. Len(box'), IsAsk(box'[i], t), box'[i].delay = 0
            PROVE  \E k \in 1 .. Len(box') : k > i /\ IsAsk(box'[k], t) /\ box'[k].delay # 0
        <5>1. i + 1 \in 1 .. Len(box) /\ IsAsk(box[i + 1], t) /\ box[i + 1].delay = 0
          BY <1>2, <4>2
        <5>2. PICK k \in 1 .. Len(box') : k + 1 > i + 1 /\ IsAsk(box'[k], t) /\ box'[k].delay # 0
          BY <3>2, <4>2, <5>1
        <5>3. k > i
          BY <5>2
        <5> QED BY <5>2, <5>3
      <4> QED BY <4>1, <4>2 DEF Armed
    <3> QED BY <3>1, <3>3 DEF OneTimer
  <2> QED BY <1>1, <2>1, <2>3, <2>4
<1> QED BY <1>6, <1>7

\* A thread that makes no call, and whose call is not read, keeps the call it has made.
LEMMA CallsRead ==
  ASSUME KInv, box # <<>>, box' = Tail(box), NEW t \in Threads, ~IsCall(Head(box), t),
         thread'[t] = thread[t] \/ (thread[t] \notin Waiting /\ thread'[t] \notin Waiting)
  PROVE  CalledOnce(t)'
<1>1. box \in Seq(Events) /\ CalledOnce(t)
  BY DEF KInv
<1>2. /\ Head(box) = box[1]
      /\ \A i \in 1 .. Len(box') : i \in Int /\ i + 1 \in 1 .. Len(box) /\ i + 1 # 1 /\ box'[i] = box[i + 1]
      /\ \A i \in 1 .. Len(box) : i = 1 \/ (i - 1 \in 1 .. Len(box') /\ box'[i - 1] = box[i])
  BY <1>1, Read
<1>3. CASE thread[t] \notin Waiting /\ thread'[t] \notin Waiting
  <2>1. \A i \in 1 .. Len(box) : ~IsCall(box[i], t)
    BY <1>1, <1>3 DEF CalledOnce, Waiting, Starting
  <2>2. \A i \in 1 .. Len(box') : ~IsCall(box'[i], t)
    BY <1>2, <2>1
  <2> QED BY <1>3, <2>2 DEF CalledOnce
<1>4. CASE thread'[t] = thread[t]
  <2>1. \A i, k \in 1 .. Len(box') : IsCall(box'[i], t) /\ IsCall(box'[k], t) => i = k
    <3> SUFFICES ASSUME NEW i \in 1 .. Len(box'), NEW k \in 1 .. Len(box'),
                        IsCall(box'[i], t), IsCall(box'[k], t)
                 PROVE  i = k
      OBVIOUS
    <3>1. i + 1 = k + 1
      BY <1>1, <1>2 DEF CalledOnce
    <3> QED BY <3>1
  <2>2. \A i \in 1 .. Len(box') : IsCall(box'[i], t) =>
          thread'[t] \in IF box'[i].evt = "start" THEN Starting ELSE Waiting \ Starting
    BY <1>1, <1>2, <1>4 DEF CalledOnce
  <2>3. thread'[t] \in Waiting => \E i \in 1 .. Len(box') : IsCall(box'[i], t)
    <3> SUFFICES ASSUME thread[t] \in Waiting PROVE \E i \in 1 .. Len(box') : IsCall(box'[i], t)
      BY <1>4
    <3>1. PICK i \in 1 .. Len(box) : IsCall(box[i], t)
      BY <1>1 DEF CalledOnce
    <3>2. i - 1 \in 1 .. Len(box') /\ box'[i - 1] = box[i]
      BY <1>2, <3>1
    <3> QED BY <3>1, <3>2
  <2> QED BY <2>1, <2>2, <2>3 DEF CalledOnce
<1> QED BY <1>3, <1>4

\* A call that has been read is done.
LEMMA CallDone ==
  ASSUME KInv, box # <<>>, box' = Tail(box), NEW t \in Threads, IsCall(Head(box), t),
         thread'[t] \notin Waiting
  PROVE  CalledOnce(t)'
<1>1. box \in Seq(Events) /\ CalledOnce(t)
  BY DEF KInv
<1>2. /\ Head(box) = box[1] /\ 1 \in 1 .. Len(box)
      /\ \A i \in 1 .. Len(box') : i \in Int /\ i + 1 \in 1 .. Len(box) /\ i + 1 # 1 /\ box'[i] = box[i + 1]
  BY <1>1, Read
<1>3. \A i \in 1 .. Len(box) : IsCall(box[i], t) => i = 1
  BY <1>1, <1>2 DEF CalledOnce
<1>4. \A i \in 1 .. Len(box') : ~IsCall(box'[i], t)
  BY <1>2, <1>3
<1> QED BY <1>4 DEF CalledOnce

\* What is still to be started has not been started.
LEMMA StartsRead ==
  ASSUME KInv, box # <<>>, box' = Tail(box),
         \A u \in Apps : thread[u] = "none" =>
           thread'[u] = "none" \/ (Head(box).evt = "start" /\ Head(box).task = u),
         thread'[Service] \in Early => thread[Service] \in Early
  PROVE  StartedOnce'
<1>1. box \in Seq(Events) /\ StartedOnce
  BY DEF KInv
<1>2. /\ Head(box) = box[1] /\ 1 \in 1 .. Len(box)
      /\ \A i \in 1 .. Len(box') : i \in Int /\ i + 1 \in 1 .. Len(box) /\ i + 1 # 1 /\ box'[i] = box[i + 1]
  BY <1>1, Read
<1>3. \A i \in 1 .. Len(box) : box[i].evt = "start" => box[i].task \in Apps
  <2>1. \A i \in 1 .. Len(box) : box[i] \in Events
    BY <1>1
  <2> QED BY <2>1 DEF Events
<1>4. ASSUME NEW i \in 1 .. Len(box'), box'[i].evt = "start"
      PROVE  /\ thread'[box'[i].task] = "none"
             /\ \A k \in 1 .. Len(box') : box'[k].evt = "start" /\ box'[k].task = box'[i].task => i = k
  <2>1. i + 1 \in 1 .. Len(box) /\ i + 1 # 1 /\ box'[i] = box[i + 1]
    BY <1>2
  <2>2. \A k \in 1 .. Len(box) : box[k].evt = "start" /\ box[k].task = box[i + 1].task => i + 1 = k
    BY <1>1, <1>4, <2>1 DEF StartedOnce
  <2>3. ~(Head(box).evt = "start" /\ Head(box).task = box[i + 1].task)
    BY <1>2, <2>1, <2>2
  <2>4. thread[box[i + 1].task] = "none" /\ box[i + 1].task \in Apps
    BY <1>1, <1>3, <1>4, <2>1 DEF StartedOnce
  <2>5. \A k \in 1 .. Len(box') : box'[k].evt = "start" /\ box'[k].task = box'[i].task => i + 1 = k + 1
    BY <1>2, <2>1, <2>2
  <2>6. \A k \in 1 .. Len(box') : i + 1 = k + 1 => i = k
    OBVIOUS
  <2> QED BY <2>1, <2>3, <2>4, <2>5, <2>6
<1>5. ASSUME thread'[Service] \in Early
      PROVE  /\ \A t \in Apps : thread'[t] = "none"
             /\ \A i \in 1 .. Len(box') : box'[i].evt # "start"
  <2>1. /\ \A t \in Apps : thread[t] = "none"
        /\ \A i \in 1 .. Len(box) : box[i].evt # "start"
    BY <1>1, <1>5 DEF StartedOnce
  <2> QED BY <1>2, <2>1
<1> QED BY <1>4, <1>5 DEF StartedOnce

Places ==
  {"none", "serve", "begin", "init", "start", "launch", "poll", "frame", "drawing", "leave",
   "deinit", "quit", "show", "work", "starting", "call", "hide", "hidden", "tidy", "done", "over"}

\* The part of the type that says where threads are.
PlacesOK ==
  /\ krun \in BOOLEAN /\ tasks \subseteq Apps /\ thread \in [Threads -> Places]
  /\ run \in [Threads -> BOOLEAN] /\ windows \subseteq tasks
  /\ \A t \in Apps : thread[t] # "none" => t \in tasks

\* What the kernel thread needs to keep after an event or a timeout.
TurnDone ==
  /\ box' \in Seq(Events) /\ PlacesOK' /\ StartedOnce' /\ \A t \in Threads : CalledOnce(t)'
  /\ \A t \in Apps : Armed(t)' /\ OneTimer(t)'
  /\ \E list \in Seq(Timer) : \E box1 \in MailType : Fire(list, box1)
  /\ tasks \subseteq tasks'
  /\ thread[Service] \in {"none", "serve"} => thread'[Service] = thread[Service]

\* Where an event is read that does not ask for a timer, timers are kept.
LEMMA TimersRead ==
  ASSUME KInv, KernelAssumption, box # <<>>, box' = Tail(box), Head(box).evt # "timer",
         NEW box1 \in MailType, Fire(timers, box1), UNCHANGED armed,
         \A t \in Apps : "timer" \in box1[t] <=> "timer" \in mail[t]
  PROVE  \A t \in Apps : Armed(t)' /\ OneTimer(t)'
<1> SUFFICES ASSUME NEW t \in Apps PROVE Armed(t)' /\ OneTimer(t)'
  OBVIOUS
<1>1. box \in Seq(Events) /\ timers \in Seq(Timer)
  BY DEF KInv, KernelTypeOK
<1>2. /\ Head(box) = box[1]
      /\ \A i \in 1 .. Len(box') : i \in Int /\ i + 1 \in 1 .. Len(box) /\ i + 1 # 1 /\ box'[i] = box[i + 1]
      /\ \A i \in 1 .. Len(box) : i = 1 \/ (i - 1 \in 1 .. Len(box') /\ box'[i - 1] = box[i])
  BY <1>1, Read
<1>3. \A i \in 1 .. Len(box) : IsAsk(box[i], t) => i - 1 \in 1 .. Len(box')
  BY <1>2 DEF IsAsk
<1> QED BY <1>1, <1>2, <1>3, TimersKept

\* Where nothing happens to threads, nothing happens to calls.
LEMMA QuietRead ==
  ASSUME KInv, KernelAssumption, box # <<>>, box' = Tail(box),
         Head(box).evt \notin {"start", "callback"}, UNCHANGED thread
  PROVE  StartedOnce' /\ \A t \in Threads : CalledOnce(t)'
<1>1. \A t \in Threads : ~IsCall(Head(box), t)
  BY DEF IsCall
<1>2. \A t \in Threads : CalledOnce(t)'
  BY <1>1, CallsRead
<1>3. StartedOnce'
  BY StartsRead
<1> QED BY <1>2, <1>3

\* The kernel is told to exit, or a task is to be stopped.
LEMMA StopTurn ==
  ASSUME KInv, KernelAssumption, box # <<>>, box' = Tail(box), UNCHANGED <<armed, windows>>,
         \/ Head(box).evt = "exit" /\ HandleExit
         \/ Head(box).evt = "stop" /\ HandleStop(Head(box))
  PROVE  TurnDone
<1>1. /\ box \in Seq(Events) /\ timers \in Seq(Timer) /\ mail \in MailType /\ PlacesOK
  BY DEF KInv, KernelTypeOK, KernelAssumption, MailType, PlacesOK, Places
<1>2. StartedOnce' /\ (\A t \in Threads : CalledOnce(t)') /\ UNCHANGED <<thread, tasks>>
  BY QuietRead DEF HandleExit, HandleStop
<1>3. box' \in Seq(Events)
  BY <1>1, Read
<1>4. PICK box1 \in MailType :
        Fire(timers, box1) /\ \A t \in Apps : "timer" \in box1[t] <=> "timer" \in mail[t]
  <2>1. CASE Fire(timers, mail)
    BY <1>1, <2>1
  <2>2. ASSUME NEW u \in Threads, Fire(timers, Stopped(u))
        PROVE  \E box1 \in MailType :
                 Fire(timers, box1) /\ \A t \in Apps : "timer" \in box1[t] <=> "timer" \in mail[t]
    <3>1. Stopped(u) \in MailType /\ \A t \in Apps : "timer" \in Stopped(u)[t] <=> "timer" \in mail[t]
      BY <1>1 DEF Stopped, MailType, Threads
    <3> QED BY <2>2, <3>1
  <2>3. Head(box).evt = "stop" /\ Head(box).task \in tasks => Head(box).task \in Threads
    BY <1>1 DEF PlacesOK, Threads
  <2> QED BY <2>1, <2>2, <2>3 DEF HandleExit, HandleStop
<1>5. \A t \in Apps : Armed(t)' /\ OneTimer(t)'
  BY <1>4, TimersRead
<1>6. PlacesOK'
  BY <1>1 DEF PlacesOK, HandleExit, HandleStop
<1> QED BY <1>1, <1>2, <1>3, <1>4, <1>5, <1>6 DEF TurnDone

\* A task is started.
LEMMA StartTurn ==
  ASSUME KInv, KernelAssumption, box # <<>>, box' = Tail(box), UNCHANGED <<armed, windows>>,
         NEW e, e = Head(box), e.evt = "start", HandleStart(e)
  PROVE  TurnDone
<1>1. /\ box \in Seq(Events) /\ timers \in Seq(Timer) /\ mail \in MailType /\ PlacesOK
      /\ StartedOnce /\ \A t \in Threads : CalledOnce(t)
  BY DEF KInv, KernelTypeOK, KernelAssumption, MailType, PlacesOK, Places
<1>2. e = box[1] /\ e \in Events /\ 1 \in 1 .. Len(box) /\ box' \in Seq(Events)
  BY <1>1, Read
<1>3. e.task \in Apps /\ e.from \in Threads /\ e.task \in Threads /\ e.task # Service
  BY <1>2 DEF Events, Threads, KernelAssumption
<1>4. thread[e.task] = "none" /\ thread[e.from] \in Starting
  BY <1>1, <1>2, <1>3 DEF StartedOnce, CalledOnce, IsCall
<1>5. \A t \in Threads :
        thread'[t] = IF t = e.from THEN IF thread[t] = "launch" THEN "poll" ELSE "work"
                     ELSE IF t = e.task THEN IF run[t] THEN "none" ELSE "show"
                     ELSE thread[t]
  BY <1>1, <1>3, <1>4 DEF HandleStart, PlacesOK, Starting
<1>6. ASSUME NEW t \in Threads PROVE CalledOnce(t)'
  <2>1. CASE t = e.from
    <3>1. IsCall(Head(box), t) /\ thread'[t] \notin Waiting
      BY <1>5, <2>1 DEF IsCall, Waiting
    <3> QED BY <3>1, CallDone
  <2>2. CASE t # e.from
    <3>1. ~IsCall(Head(box), t)
      BY <2>2 DEF IsCall
    <3>2. thread'[t] = thread[t] \/ (thread[t] \notin Waiting /\ thread'[t] \notin Waiting)
      BY <1>4, <1>5, <2>2 DEF Waiting
    <3> QED BY <3>1, <3>2, CallsRead
  <2> QED BY <2>1, <2>2
<1>7. StartedOnce'
  <2>1. \A u \in Apps : u \in Threads /\ (thread[u] = "none" => u # e.from)
    BY <1>4 DEF Threads, Starting
  <2>2. \A u \in Apps : thread[u] = "none" => thread'[u] = "none" \/ u = e.task
    BY <1>5, <2>1
  <2>3. Service \in Threads /\ (thread'[Service] \in Early => thread[Service] \in Early)
    BY <1>3, <1>5 DEF Threads, Early
  <2> QED BY <2>2, <2>3, StartsRead
<1>8. PlacesOK'
  <2>1. thread' \in [Threads -> Places]
    BY <1>1, <1>3 DEF HandleStart, PlacesOK, Places
  <2>2. \A t \in Apps : thread'[t] # "none" => t \in tasks'
    <3>1. \A t \in Apps : t \in Threads /\ (thread'[t] # "none" => thread[t] # "none" \/ t = e.task)
      BY <1>4, <1>5 DEF Threads, Starting
    <3> QED BY <1>1, <3>1 DEF PlacesOK, HandleStart, Listed
  <2>3. /\ krun' \in BOOLEAN /\ tasks' \subseteq Apps /\ run' \in [Threads -> BOOLEAN]
        /\ windows' \subseteq tasks'
    BY <1>1, <1>3 DEF PlacesOK, HandleStart, Listed
  <2> QED BY <2>1, <2>2, <2>3 DEF PlacesOK
<1>9. Fire(timers, mail) /\ tasks \subseteq tasks'
  BY DEF HandleStart, Listed
<1>10. \A t \in Apps : Armed(t)' /\ OneTimer(t)'
  BY <1>1, <1>9, TimersRead
<1>11. thread[Service] \in {"none", "serve"} => thread'[Service] = thread[Service]
  BY <1>3, <1>4, <1>5 DEF Threads, Starting
<1> QED BY <1>1, <1>2, <1>6, <1>7, <1>8, <1>9, <1>10, <1>11 DEF TurnDone

\* A function is run for a thread.
LEMMA CallbackTurn ==
  ASSUME KInv, KernelAssumption, box # <<>>, box' = Tail(box), UNCHANGED <<armed, windows>>,
         NEW e, e = Head(box), e.evt = "callback", HandleCallback(e)
  PROVE  TurnDone
<1>1. /\ box \in Seq(Events) /\ timers \in Seq(Timer) /\ mail \in MailType /\ PlacesOK
      /\ StartedOnce /\ \A t \in Threads : CalledOnce(t)
  BY DEF KInv, KernelTypeOK, KernelAssumption, MailType, PlacesOK, Places
<1>2. e = box[1] /\ e \in Events /\ 1 \in 1 .. Len(box) /\ box' \in Seq(Events)
  BY <1>1, Read
<1>3. e.from \in Threads
  BY <1>2 DEF Events
<1>4. thread[e.from] \in Waiting \ Starting
  <2>1. CalledOnce(e.from)
    BY <1>1, <1>3
  <2>2. IsCall(box[1], e.from) /\ box[1].evt # "start"
    BY <1>2 DEF IsCall
  <2> QED BY <1>2, <2>1, <2>2 DEF CalledOnce
<1>5. /\ Returns(e.from) \in Places \ Waiting /\ Returns(e.from) # "none"
      /\ Returns(e.from) \in Early => thread[e.from] \in Early
  BY <1>4 DEF Returns, Waiting, Starting, Early, Places
<1>6. \A t \in Threads : thread'[t] = IF t = e.from THEN Returns(t) ELSE thread[t]
  BY <1>1 DEF HandleCallback, PlacesOK
<1>7. ASSUME NEW t \in Threads PROVE CalledOnce(t)'
  <2>1. CASE t = e.from
    <3>1. IsCall(Head(box), t) /\ thread'[t] \notin Waiting
      BY <1>5, <1>6, <2>1 DEF IsCall
    <3> QED BY <3>1, CallDone
  <2>2. CASE t # e.from
    <3>1. ~IsCall(Head(box), t)
      BY <2>2 DEF IsCall
    <3> QED BY <1>6, <2>2, <3>1, CallsRead
  <2> QED BY <2>1, <2>2
<1>8. StartedOnce'
  <2>1. \A u \in Apps : thread[u] = "none" => thread'[u] = "none"
    BY <1>4, <1>6 DEF Threads, Waiting
  <2>2. thread'[Service] \in Early => thread[Service] \in Early
    BY <1>5, <1>6 DEF Threads
  <2> QED BY <2>1, <2>2, StartsRead
<1>9. PlacesOK'
  <2>1. thread' \in [Threads -> Places]
    BY <1>1, <1>3, <1>5 DEF HandleCallback, PlacesOK
  <2>2. \A t \in Apps : thread'[t] # "none" => thread[t] # "none"
    BY <1>4, <1>6 DEF Threads, Waiting
  <2> QED BY <1>1, <2>1, <2>2 DEF PlacesOK, HandleCallback
<1>10. Fire(timers, mail) /\ tasks \subseteq tasks'
  BY DEF HandleCallback
<1>11. \A t \in Apps : Armed(t)' /\ OneTimer(t)'
  BY <1>1, <1>10, TimersRead
<1>12. thread[Service] \in {"none", "serve"} => thread'[Service] = thread[Service]
  BY <1>4, <1>6 DEF Threads, Waiting
<1> QED BY <1>1, <1>2, <1>7, <1>8, <1>9, <1>10, <1>11, <1>12 DEF TurnDone

\* A timer is asked for or cancelled.
LEMMA TimerTurn ==
  ASSUME KInv, KernelAssumption, box # <<>>, box' = Tail(box), UNCHANGED <<armed, windows>>,
         NEW e, e = Head(box), e.evt = "timer", HandleTimer(e)
  PROVE  TurnDone
<1>1. box \in Seq(Events) /\ mail \in MailType /\ PlacesOK
  BY DEF KInv, KernelTypeOK, KernelAssumption, MailType, PlacesOK, Places
<1>2. box' \in Seq(Events)
  BY <1>1, Read
<1>3. StartedOnce' /\ (\A t \in Threads : CalledOnce(t)') /\ UNCHANGED <<krun, thread, tasks, run>>
  BY QuietRead DEF HandleTimer
<1>4. /\ \A t \in Apps : Armed(t)' /\ OneTimer(t)'
      /\ \E list \in Seq(Timer) : Fire(list, mail)
  BY TimerEvent
<1>5. PlacesOK'
  BY <1>1, <1>3 DEF PlacesOK
<1> QED BY <1>1, <1>2, <1>3, <1>4, <1>5 DEF TurnDone

\* Nothing comes, and it is time for a timer.
LEMMA TimeoutTurn ==
  ASSUME KInv, KernelAssumption, Fire(timers, mail),
         UNCHANGED <<box, krun, tasks, thread, run, armed, windows>>
  PROVE  TurnDone
<1>1. /\ box \in Seq(Events) /\ timers \in Seq(Timer) /\ mail \in MailType /\ PlacesOK
      /\ StartedOnce /\ \A t \in Threads : CalledOnce(t)
  BY DEF KInv, KernelTypeOK, KernelAssumption, MailType, PlacesOK, Places
<1>2. ASSUME NEW t \in Apps PROVE Armed(t)' /\ OneTimer(t)'
  <2>1. /\ \A i \in 1 .. Len(box') : i + 0 \in 1 .. Len(box) /\ box'[i] = box[i + 0]
        /\ \A i \in 1 .. Len(box) : i - 0 \in 1 .. Len(box')
    BY <1>1
  <2> QED BY <1>1, <2>1, TimersKept
<1>3. StartedOnce' /\ PlacesOK'
  BY <1>1 DEF StartedOnce, PlacesOK
<1>4. \A t \in Threads : CalledOnce(t)'
  BY <1>1 DEF CalledOnce
<1> QED BY <1>1, <1>2, <1>3, <1>4 DEF TurnDone

\* A round of the kernel's loop keeps the invariant, the tasks in the list, and the
\* thread of a file service.
LEMMA TurnKeeps ==
  ASSUME KInv, KernelAssumption, Turn
  PROVE  /\ KInv' /\ tasks \subseteq tasks'
         /\ thread[Service] \in {"none", "serve"} => thread'[Service] = thread[Service]
<1>1. UNCHANGED <<kernel, armed, asks, windows, now>> /\ kernel = "read"
  BY DEF Turn
<1>2. TurnDone
  <2>1. CASE box # <<>> /\ box' = Tail(box) /\ Head(box).evt = "exit" /\ HandleExit
    BY <1>1, <2>1, StopTurn
  <2>2. CASE box # <<>> /\ box' = Tail(box) /\ Head(box).evt = "start" /\ HandleStart(Head(box))
    BY <1>1, <2>2, StartTurn
  <2>3. CASE box # <<>> /\ box' = Tail(box) /\ Head(box).evt = "stop" /\ HandleStop(Head(box))
    BY <1>1, <2>3, StopTurn
  <2>4. CASE box # <<>> /\ box' = Tail(box) /\ Head(box).evt = "callback" /\ HandleCallback(Head(box))
    BY <1>1, <2>4, CallbackTurn
  <2>5. CASE box # <<>> /\ box' = Tail(box) /\ Head(box).evt = "timer" /\ HandleTimer(Head(box))
    BY <1>1, <2>5, TimerTurn
  <2>6. CASE Fire(timers, mail) /\ UNCHANGED <<box, krun, tasks, thread, run>>
    BY <1>1, <2>6, TimeoutTurn
  <2> QED BY <2>1, <2>2, <2>3, <2>4, <2>5, <2>6 DEF Turn
<1>3. now \in Nat /\ KernelTypeOK
  BY DEF KInv, KernelTypeOK, KernelAssumption
<1>4. PICK list \in Seq(Timer), box1 \in MailType : Fire(list, box1)
  BY <1>2 DEF TurnDone
<1>5. /\ timers' \in Seq(Timer) /\ wake' \in Nat \cup {Never} /\ mail' \in MailType
      /\ timers' # <<>> =>
           /\ wake' \in Nat
           /\ \A i \in 1 .. Len(timers') : timers'[i].at >= wake' /\ timers'[i].at >= now
  BY <1>3, <1>4, Fired
<1>6. Punctual'
  BY <1>1, <1>5 DEF Punctual
<1>7. KernelTypeOK'
  BY <1>1, <1>2, <1>3, <1>5 DEF TurnDone, PlacesOK, Places, KernelTypeOK, MailType
<1> QED BY <1>2, <1>6, <1>7 DEF TurnDone, KInv

-----------------------------------------------------------------------------
(* Those who tell the kernel what to do.                                   *)

\* What is told neither calls nor asks for a timer, and no thread is started.
LEMMA QuietKeeps ==
  ASSUME KInv, KernelTypeOK', Punctual', NEW new \in Seq(Events), box' = box \o new,
         \A i \in 1 .. Len(new) : new[i].evt \in {"exit", "stop"},
         \A u \in Threads : \/ thread'[u] = thread[u]
                            \/ /\ thread[u] \notin Waiting /\ thread'[u] \notin Waiting
                               /\ u \in Apps => thread[u] # "none",
         thread'[Service] \in Early => thread[Service] \in Early,
         UNCHANGED <<armed, timers>>,
         \A t \in Apps : "timer" \in mail'[t] <=> "timer" \in mail[t]
  PROVE  KInv'
<1>1. box' \in Seq(Events)
  BY DEF KInv
<1>2. StartedOnce' /\ \A t \in Threads : CalledOnce(t)'
  BY QuietCalls
<1>3. \A t \in Apps : Armed(t)' /\ OneTimer(t)'
  BY QuietTimers
<1> QED BY <1>1, <1>2, <1>3 DEF KInv

\* A thread that does not wait makes a call.
LEMMA CallKeeps ==
  ASSUME KInv, KernelTypeOK', Punctual', NEW t \in Threads, thread[t] \notin Waiting,
         t \in Apps => thread[t] # "none",
         NEW e \in Events, IsCall(e, t), box' = Append(box, e),
         NEW next, thread' = [thread EXCEPT ![t] = next],
         next \in IF e.evt = "start" THEN Starting ELSE Waiting \ Starting,
         next \in Early => thread[t] \in Early /\ e.evt # "start",
         e.evt = "start" => /\ thread[e.task] = "none"
                            /\ \A i \in 1 .. Len(box) : box[i].evt = "start" => box[i].task # e.task
                            /\ thread'[Service] \notin Early,
         UNCHANGED <<armed, timers>>,
         \A u \in Apps : "timer" \in mail'[u] <=> "timer" \in mail[u]
  PROVE  KInv'
<1>1. /\ box \in Seq(Events) /\ StartedOnce /\ thread \in [Threads -> Places]
      /\ \A u \in Threads : CalledOnce(u)
  BY DEF KInv, KernelTypeOK, Places
<1>2. /\ box' \in Seq(Events) /\ Len(box) \in Nat /\ Len(box') = Len(box) + 1
      /\ \A i \in 1 .. Len(box) : i \in 1 .. Len(box') /\ box'[i] = box[i]
      /\ \A i \in 1 .. Len(box') : i \in 1 .. Len(box) \/ (i = Len(box) + 1 /\ box'[i] = e)
      /\ Len(box) + 1 \in 1 .. Len(box') /\ box'[Len(box) + 1] = e
  BY <1>1, Appended
<1>3. \A u \in Threads : thread'[u] = IF u = t THEN next ELSE thread[u]
  BY <1>1
<1>4. e.evt = "start" => e.task \in Apps /\ e.task \in Threads
  BY DEF Events, Threads
<1>5. ASSUME NEW u \in Threads PROVE CalledOnce(u)'
  <2>1. CASE u = t
    <3>1. \A i \in 1 .. Len(box) : ~IsCall(box[i], u)
      BY <1>1, <2>1 DEF CalledOnce, Waiting, Starting
    <3>2. \A i \in 1 .. Len(box') : IsCall(box'[i], u) => i = Len(box) + 1 /\ box'[i] = e
      BY <1>2, <3>1
    <3> QED BY <1>2, <1>3, <2>1, <3>2 DEF CalledOnce
  <2>2. CASE u # t
    <3>1. \A i \in 1 .. Len(box') : IsCall(box'[i], u) => i \in 1 .. Len(box) /\ box'[i] = box[i]
      BY <1>2, <2>2 DEF IsCall
    <3>2. CalledOnce(u) /\ thread'[u] = thread[u]
      BY <1>1, <1>3, <2>2
    <3> QED BY <1>2, <3>1, <3>2 DEF CalledOnce
  <2> QED BY <2>1, <2>2
<1>6. StartedOnce'
  <2>1. \A u \in Apps : u \in Threads /\ (thread[u] = "none" => thread'[u] = "none")
    BY <1>3 DEF Threads
  <2>2. \A i \in 1 .. Len(box) : box[i].evt = "start" => box[i].task \in Apps
    <3>1. \A i \in 1 .. Len(box) : box[i] \in Events
      BY <1>1
    <3> QED BY <3>1 DEF Events
  <2>3. ASSUME NEW i \in 1 .. Len(box'), box'[i].evt = "start"
        PROVE  /\ thread'[box'[i].task] = "none"
               /\ \A k \in 1 .. Len(box') : box'[k].evt = "start" /\ box'[k].task = box'[i].task => i = k
    <3>1. CASE i \in 1 .. Len(box)
      <4>1. box'[i] = box[i]
        BY <1>2, <3>1
      <4>2. /\ thread[box[i].task] = "none"
            /\ \A k \in 1 .. Len(box) : box[k].evt = "start" /\ box[k].task = box[i].task => i = k
        BY <1>1, <2>3, <3>1, <4>1 DEF StartedOnce
      <4>3. e.evt = "start" => e.task # box[i].task
        BY <2>3, <3>1, <4>1
      <4> QED BY <1>2, <2>1, <2>2, <2>3, <3>1, <4>1, <4>2, <4>3
    <3>2. CASE i = Len(box) + 1 /\ box'[i] = e
      BY <1>2, <1>4, <2>1, <2>3, <3>2
    <3> QED BY <1>2, <3>1, <3>2
  <2>4. ASSUME thread'[Service] \in Early
        PROVE  /\ \A u \in Apps : thread'[u] = "none"
               /\ \A i \in 1 .. Len(box') : box'[i].evt # "start"
    <3>1. Service \in Threads /\ thread[Service] \in Early
      BY <1>3, <2>4 DEF Threads
    <3>2. /\ \A u \in Apps : thread[u] = "none"
          /\ \A i \in 1 .. Len(box) : box[i].evt # "start"
      BY <1>1, <3>1 DEF StartedOnce
    <3> QED BY <1>2, <2>1, <2>4, <3>2
  <2> QED BY <2>3, <2>4 DEF StartedOnce
<1>7. \A u \in Apps : Armed(u)' /\ OneTimer(u)'
  <2>1. /\ <<e>> \in Seq(Events) /\ box' = box \o <<e>>
        /\ \A i \in 1 .. Len(<<e>>) : <<e>>[i].evt # "timer"
    BY <1>1 DEF IsCall
  <2> QED BY <2>1, QuietTimers
<1> QED BY <1>2, <1>5, <1>6, <1>7 DEF KInv

\* Types, where the kernel thread does nothing and time stands still.
LEMMA ClientTypes ==
  ASSUME KInv, UNCHANGED <<serviceVars, now>>, thread' \in [Threads -> Places],
         run' \in [Threads -> BOOLEAN], mail' \in MailType,
         armed' \in [Apps -> BOOLEAN], asks' \in [Apps -> Nat], windows' \subseteq tasks,
         \A u \in Apps : thread'[u] # "none" => u \in tasks
  PROVE  KernelTypeOK' /\ Punctual'
<1>1. KernelTypeOK /\ Punctual
  BY DEF KInv
<1>2. KernelTypeOK'
  BY <1>1 DEF KernelTypeOK, serviceVars, MailType, Places
<1>3. Punctual'
  BY <1>1 DEF Punctual, serviceVars
<1> QED BY <1>2, <1>3

\* The same where one thread goes from one step to the next.
LEMMA StepTypes ==
  ASSUME KInv, UNCHANGED <<serviceVars, run, windows, now>>,
         NEW t \in Threads, NEW next \in Places, thread' = [thread EXCEPT ![t] = next],
         t \in Apps => thread[t] # "none",
         mail' \in MailType, armed' \in [Apps -> BOOLEAN], asks' \in [Apps -> Nat]
  PROVE  /\ KernelTypeOK' /\ Punctual'
         /\ \A u \in Threads : thread'[u] = IF u = t THEN next ELSE thread[u]
<1>1. KernelTypeOK /\ thread \in [Threads -> Places]
  BY DEF KInv, KernelTypeOK, Places
<1>2. /\ thread' \in [Threads -> Places]
      /\ \A u \in Threads : thread'[u] = IF u = t THEN next ELSE thread[u]
  BY <1>1
<1>3. \A u \in Apps : thread'[u] # "none" => u \in tasks
  BY <1>1, <1>2 DEF KernelTypeOK, Threads
<1>4. run' \in [Threads -> BOOLEAN] /\ windows' \subseteq tasks
  BY <1>1 DEF KernelTypeOK
<1> QED BY <1>2, <1>3, <1>4, ClientTypes

\* The GUI service.
LEMMA GuiKeeps ==
  ASSUME KInv, KernelAssumption, Gui
  PROVE  /\ KInv' /\ UNCHANGED <<kernel, tasks>>
         /\ thread[Service] \in {"none", "serve"} => thread'[Service] = thread[Service]
<1>1. /\ KernelTypeOK /\ thread \in [Threads -> Places] /\ mail \in MailType
      /\ armed \in [Apps -> BOOLEAN] /\ asks \in [Apps -> Nat]
      /\ run \in [Threads -> BOOLEAN] /\ box \in Seq(Events) /\ StartedOnce
  BY DEF KInv, KernelTypeOK, Places, MailType
<1>2. Service \in Threads /\ Service \notin Apps /\ Launcher \in Apps
  BY DEF Threads, KernelAssumption
<1>3. UNCHANGED <<kernel, tasks>>
  BY DEF Gui, InitHost, StartLauncher, Frame, DeinitHost, GuiStep, Quit, Serve, serviceVars
<1>4. ASSUME NEW from, NEW e \in Events, NEW next \in Waiting, GuiStep(from, e, next),
             from \notin Waiting, from \notin {"none", "serve"}, IsCall(e, Service),
             next \in IF e.evt = "start" THEN Starting ELSE Waiting \ Starting,
             next \in Early => from \in Early /\ e.evt # "start",
             e.evt = "start" => e.task = Launcher /\ from \in Early /\ next \notin Early
      PROVE  KInv' /\ thread[Service] \notin {"none", "serve"}
  <2>1. /\ thread[Service] = from /\ box' = Append(box, e)
        /\ thread' = [thread EXCEPT ![Service] = next]
        /\ UNCHANGED <<serviceVars, run, mail, armed, asks, windows, now>>
    BY <1>4 DEF GuiStep, Tell
  <2>2. next \in Places
    BY DEF Waiting, Places
  <2>3. /\ KernelTypeOK' /\ Punctual'
        /\ \A u \in Threads : thread'[u] = IF u = Service THEN next ELSE thread[u]
    BY <1>1, <1>2, <2>1, <2>2, StepTypes
  <2>4. e.evt = "start" => /\ thread[e.task] = "none"
                           /\ \A i \in 1 .. Len(box) : box[i].evt = "start" => box[i].task # e.task
                           /\ thread'[Service] \notin Early
    BY <1>1, <1>2, <1>4, <2>1, <2>3 DEF StartedOnce
  <2> QED BY <1>2, <1>4, <2>1, <2>3, <2>4, CallKeeps DEF serviceVars
<1>5. /\ Callback(Service) \in Events /\ IsCall(Callback(Service), Service)
      /\ Callback(Service).evt # "start"
  BY <1>2 DEF Callback, Events, IsCall
<1>6. /\ StartTask(Service, Launcher) \in Events /\ IsCall(StartTask(Service, Launcher), Service)
      /\ StartTask(Service, Launcher).evt = "start" /\ StartTask(Service, Launcher).task = Launcher
  BY <1>2 DEF StartTask, Events, IsCall
<1>7. CASE InitHost
  <2>1. "init" \in Waiting /\ "init" \notin Starting /\ "begin" \notin Waiting /\ "begin" \in Early
    BY DEF Waiting, Starting, Early
  <2> QED BY <1>3, <1>4, <1>5, <1>7, <2>1 DEF InitHost
<1>8. CASE StartLauncher
  <2>1. "launch" \in Waiting /\ "launch" \in Starting /\ "start" \notin Waiting /\ "start" \in Early /\ "launch" \notin Early
    BY DEF Waiting, Starting, Early
  <2> QED BY <1>3, <1>4, <1>6, <1>8, <2>1 DEF StartLauncher
<1>9. CASE Frame
  <2>1. "drawing" \in Waiting /\ "drawing" \notin Starting /\ "frame" \notin Waiting /\ "drawing" \notin Early
    BY DEF Waiting, Starting, Early
  <2> QED BY <1>3, <1>4, <1>5, <1>9, <2>1 DEF Frame
<1>10. CASE DeinitHost
  <2>1. "deinit" \in Waiting /\ "deinit" \notin Starting /\ "leave" \notin Waiting /\ "deinit" \notin Early
    BY DEF Waiting, Starting, Early
  <2> QED BY <1>3, <1>4, <1>5, <1>10, <2>1 DEF DeinitHost
<1>11. CASE Quit
  <2> DEFINE new == <<TaskEvent("stop", Service), JoinTask(Service), Event("exit"), JoinTask(Service)>>
  <2>1. TaskEvent("stop", Service) \in Events /\ JoinTask(Service) \in Events /\ Event("exit") \in Events
    BY <1>2 DEF TaskEvent, JoinTask, Event, Events
  <2>2. new \in Seq(Events) /\ \A i \in 1 .. Len(new) : new[i].evt \in {"exit", "stop"}
    <3>1. /\ Len(new) = 4 /\ new[1] = TaskEvent("stop", Service) /\ new[2] = JoinTask(Service)
          /\ new[3] = Event("exit") /\ new[4] = JoinTask(Service) /\ new \in Seq(Events)
      BY <2>1
    <3> HIDE DEF new
    <3>2. \A i \in 1 .. Len(new) : i \in {1, 2, 3, 4}
      BY <3>1
    <3> QED BY <3>1, <3>2 DEF TaskEvent, JoinTask, Event
  <2>3. /\ thread[Service] = "quit" /\ box' = box \o new
        /\ thread' = [thread EXCEPT ![Service] = "over"]
        /\ UNCHANGED <<serviceVars, run, mail, armed, asks, windows, now>>
    BY <1>11 DEF Quit
  <2> HIDE DEF new
  <2>4. /\ KernelTypeOK' /\ Punctual'
        /\ \A u \in Threads : thread'[u] = IF u = Service THEN "over" ELSE thread[u]
    <3>1. "over" \in Places
      BY DEF Places
    <3> QED BY <1>1, <1>2, <2>3, <3>1, StepTypes
  <2>5. KInv'
    <3>1. \A u \in Threads : \/ thread'[u] = thread[u]
                             \/ /\ thread[u] \notin Waiting /\ thread'[u] \notin Waiting
                                /\ u \in Apps => thread[u] # "none"
      BY <1>2, <2>3, <2>4 DEF Waiting
    <3>2. thread'[Service] \notin Early
      BY <1>2, <2>4 DEF Early
    <3>3. UNCHANGED <<armed, timers>> /\ \A u \in Apps : "timer" \in mail'[u] <=> "timer" \in mail[u]
      BY <2>3 DEF serviceVars
    <3> QED BY <2>2, <2>3, <2>4, <3>1, <3>2, <3>3, QuietKeeps
  <2> QED BY <1>3, <2>3, <2>5
<1>12. ASSUME NEW t \in Apps, Serve(t)
       PROVE  KInv' /\ thread[Service] \notin {"none", "serve"}
  <2>1. /\ thread[Service] \in {"poll", "frame"} /\ UNCHANGED <<box, serviceVars, run, mail, armed, asks, now>>
        /\ thread[t] \in {"show", "hide"} /\ windows' \subseteq windows \cup {t}
        /\ \E next \in {"work", "hidden"} : thread' = [thread EXCEPT ![t] = next, ![Service] = "frame"]
    BY <1>12 DEF Serve
  <2>2. PICK next \in {"work", "hidden"} : thread' = [thread EXCEPT ![t] = next, ![Service] = "frame"]
    BY <2>1
  <2>3. \A u \in Threads : thread'[u] = IF u = Service THEN "frame" ELSE IF u = t THEN next ELSE thread[u]
    BY <1>1, <1>2, <2>2
  <2>4. thread' \in [Threads -> Places]
    BY <1>1, <2>2 DEF Places
  <2>5. t \in tasks /\ windows' \subseteq tasks /\ \A u \in Apps : thread'[u] # "none" => u \in tasks
    BY <1>1, <1>2, <2>1, <2>3 DEF KernelTypeOK, Threads
  <2>6. KernelTypeOK' /\ Punctual'
    BY <1>1, <2>1, <2>4, <2>5, ClientTypes
  <2>7. <<>> \in Seq(Events) /\ box' = box \o <<>> /\ Len(<<>>) = 0
    BY <1>1, <2>1
  <2>8. \A u \in Threads : \/ thread'[u] = thread[u]
                           \/ /\ thread[u] \notin Waiting /\ thread'[u] \notin Waiting
                              /\ u \in Apps => thread[u] # "none"
    BY <1>2, <2>1, <2>3 DEF Waiting
  <2>9. thread'[Service] \notin Early
    BY <1>2, <2>3 DEF Early
  <2>10. KInv'
    <3>1. UNCHANGED <<armed, timers>> /\ \A u \in Apps : "timer" \in mail'[u] <=> "timer" \in mail[u]
      BY <2>1 DEF serviceVars
    <3>2. \A i \in 1 .. Len(<<>>) : <<>>[i].evt \in {"exit", "stop"}
      BY <2>7
    <3> QED BY <2>6, <2>7, <2>8, <2>9, <3>1, <3>2, QuietKeeps
  <2> QED BY <2>1, <2>10
<1> QED BY <1>3, <1>7, <1>8, <1>9, <1>10, <1>11, <1>12 DEF Gui

\* What an application at work is not.
LEMMA WorkKeeps ==
  ASSUME KInv, KernelAssumption, NEW t \in Apps, thread[t] \notin Waiting, thread[t] # "none",
         UNCHANGED <<serviceVars, run, windows, now>>,
         NEW next \in Places \ Waiting, thread' = [thread EXCEPT ![t] = next],
         mail' \in MailType, armed' \in [Apps -> BOOLEAN], asks' \in [Apps -> Nat],
         NEW new \in Seq(Events), box' = box \o new,
         \A i \in 1 .. Len(new) : new[i].evt \notin {"start", "callback"}
  PROVE  /\ KernelTypeOK' /\ Punctual' /\ box' \in Seq(Events)
         /\ StartedOnce' /\ \A u \in Threads : CalledOnce(u)'
         /\ thread'[Service] = thread[Service]
<1>1. t \in Threads /\ Service \in Threads /\ t # Service
  BY DEF Threads, KernelAssumption
<1>2. /\ KernelTypeOK' /\ Punctual'
      /\ \A u \in Threads : thread'[u] = IF u = t THEN next ELSE thread[u]
  BY <1>1, StepTypes
<1>3. thread'[Service] = thread[Service]
  BY <1>1, <1>2
<1>4. \A u \in Threads : \/ thread'[u] = thread[u]
                         \/ /\ thread[u] \notin Waiting /\ thread'[u] \notin Waiting
                            /\ u \in Apps => thread[u] # "none"
  BY <1>2
<1>5. StartedOnce' /\ \A u \in Threads : CalledOnce(u)'
  BY <1>3, <1>4, QuietCalls
<1>6. box' \in Seq(Events)
  BY DEF KInv
<1> QED BY <1>2, <1>3, <1>5, <1>6

\* A step that tells the kernel nothing, or to stop.
LEMMA AppQuiet ==
  ASSUME KInv, KernelAssumption, NEW t \in Apps, thread[t] \notin Waiting, thread[t] # "none",
         UNCHANGED <<serviceVars, run, mail, armed, asks, windows, now>>,
         NEW next \in Places \ Waiting, thread' = [thread EXCEPT ![t] = next],
         box' = box \/ \E u \in Threads : box' = Append(box, TaskEvent("stop", u))
  PROVE  KInv' /\ thread'[Service] = thread[Service]
<1>1. /\ mail \in MailType /\ armed \in [Apps -> BOOLEAN] /\ asks \in [Apps -> Nat] /\ box \in Seq(Events)
  BY DEF KInv, KernelTypeOK, MailType
<1>2. PICK new \in Seq(Events) : box' = box \o new /\ \A i \in 1 .. Len(new) : new[i].evt = "stop"
  <2>1. CASE box' = box
    <3>1. Event("exit") \in Events
      BY DEF Event, Events
    <3>2. <<>> \in Seq(Events) /\ box' = box \o <<>> /\ \A i \in 1 .. Len(<<>>) : FALSE
      BY <1>1, <2>1, <3>1, Said
    <3> QED BY <3>2
  <2>2. ASSUME NEW u \in Threads, box' = Append(box, TaskEvent("stop", u))
        PROVE  \E new \in Seq(Events) : box' = box \o new /\ \A i \in 1 .. Len(new) : new[i].evt = "stop"
    <3> DEFINE e == TaskEvent("stop", u)
    <3>1. e \in Events /\ e.evt = "stop"
      BY DEF TaskEvent, Events
    <3> HIDE DEF e
    <3>2. /\ <<e>> \in Seq(Events) /\ box \o <<e>> = Append(box, e)
          /\ \A i \in 1 .. Len(<<e>>) : <<e>>[i] = e
      BY <1>1, <3>1, Said
    <3>3. box' = box \o <<e>>
      BY <2>2, <3>2 DEF e
    <3> QED BY <3>1, <3>2, <3>3
  <2> QED BY <2>1, <2>2
<1>3. /\ KernelTypeOK' /\ Punctual' /\ box' \in Seq(Events)
      /\ StartedOnce' /\ \A u \in Threads : CalledOnce(u)'
      /\ thread'[Service] = thread[Service]
  BY <1>1, <1>2, WorkKeeps
<1>4. \A u \in Apps : Armed(u)' /\ OneTimer(u)'
  BY <1>2, QuietTimers DEF serviceVars
<1> QED BY <1>3, <1>4 DEF KInv

\* A step that calls the kernel, and waits for the answer.
LEMMA AppCalls ==
  ASSUME KInv, KernelAssumption, NEW t \in Apps, thread[t] \notin Waiting, thread[t] # "none",
         UNCHANGED <<serviceVars, run, mail, armed, windows, now>>, asks' \in [Apps -> Nat],
         NEW next \in Waiting \ {"init"}, NEW e, Tell(t, e, next),
         \/ e = Callback(t) /\ next \notin Starting
         \/ \E task \in Apps : /\ e = StartTask(t, task) /\ next \in Starting /\ thread[task] = "none"
                               /\ \A i \in 1 .. Len(box) : box[i].evt = "start" => box[i].task # task
  PROVE  KInv' /\ thread'[Service] = thread[Service]
<1>1. /\ mail \in MailType /\ armed \in [Apps -> BOOLEAN] /\ StartedOnce
  BY DEF KInv, KernelTypeOK, MailType
<1>2. t \in Threads /\ Service \in Threads /\ t # Service
  BY DEF Threads, KernelAssumption
<1>3. next \in Places /\ next \notin Early
  BY DEF Waiting, Places, Early
<1>4. box' = Append(box, e) /\ thread' = [thread EXCEPT ![t] = next]
  BY DEF Tell
<1>5. /\ KernelTypeOK' /\ Punctual'
      /\ \A u \in Threads : thread'[u] = IF u = t THEN next ELSE thread[u]
  <2>1. mail' \in MailType /\ armed' \in [Apps -> BOOLEAN] /\ UNCHANGED <<serviceVars, run, windows, now>>
    BY <1>1
  <2>2. /\ thread' = [thread EXCEPT ![t] = next] /\ next \in Places /\ t \in Threads
        /\ thread[t] # "none"
    BY <1>2, <1>3, <1>4
  <2> HIDE DEF Starting, Waiting
  <2> QED BY ONLY KInv, <2>1, <2>2, asks' \in [Apps -> Nat], StepTypes
<1>6. thread'[Service] = thread[Service]
  BY <1>2, <1>5
<1>7. thread[Service] \notin Early
  BY <1>1 DEF StartedOnce
<1>8. UNCHANGED <<armed, timers>>
  BY DEF serviceVars
<1>9. CASE e = Callback(t) /\ next \notin Starting
  <2>1. e \in Events /\ IsCall(e, t) /\ e.evt # "start"
    BY <1>2, <1>9 DEF Callback, Events, IsCall
  <2>2. next \in Waiting \ Starting /\ \A u \in Apps : "timer" \in mail'[u] <=> "timer" \in mail[u]
    BY <1>9
  <2>3. KInv'
    BY <1>2, <1>3, <1>4, <1>5, <1>8, <2>1, <2>2, CallKeeps
  <2> QED BY <1>6, <2>3
<1>10. ASSUME NEW task \in Apps, e = StartTask(t, task), next \in Starting, thread[task] = "none",
              \A i \in 1 .. Len(box) : box[i].evt = "start" => box[i].task # task
       PROVE  KInv' /\ thread'[Service] = thread[Service]
  <2>1. e \in Events /\ IsCall(e, t) /\ e.evt = "start" /\ e.task = task
    BY <1>2, <1>10 DEF StartTask, Events, IsCall
  <2>2. /\ next \in Starting /\ thread'[Service] \notin Early
        /\ \A u \in Apps : "timer" \in mail'[u] <=> "timer" \in mail[u]
    BY <1>6, <1>7, <1>10
  <2>3. /\ thread[e.task] = "none"
        /\ \A i \in 1 .. Len(box) : box[i].evt = "start" => box[i].task # e.task
    BY <1>10, <2>1
  <2>4. KInv'
    BY <1>2, <1>3, <1>4, <1>5, <1>8, <2>1, <2>2, <2>3, CallKeeps
  <2> QED BY <1>6, <2>4
<1> QED BY <1>9, <1>10

\* A timer is asked for.
LEMMA ArmKeeps ==
  ASSUME KInv, KernelAssumption, NEW t \in Apps, NEW d \in Delays, Arm(t, d)
  PROVE  KInv' /\ thread'[Service] = thread[Service]
<1> DEFINE e == TimedMail(t, d)
<1>1. /\ KernelTypeOK /\ mail \in MailType /\ armed \in [Apps -> BOOLEAN] /\ asks \in [Apps -> Nat]
      /\ box \in Seq(Events) /\ \A u \in Apps : Armed(u) /\ OneTimer(u)
  BY DEF KInv, KernelTypeOK, MailType
<1>2. d \in Nat /\ d # 0
  BY DEF KernelAssumption
<1>3. e \in Events /\ e.evt = "timer" /\ e.to = t /\ e.delay # 0
  BY <1>2 DEF TimedMail, Events
<1>4. /\ thread[t] = "work" /\ ~armed[t] /\ box' = Append(box, e)
      /\ thread' = [thread EXCEPT ![t] = "work"]
      /\ armed' = [armed EXCEPT ![t] = TRUE] /\ asks' \in [Apps -> Nat]
      /\ UNCHANGED <<serviceVars, run, mail, windows, now>>
  BY <1>1 DEF Arm, Working, Tell
<1> HIDE DEF e
<1>5. "work" \in Places /\ "work" \notin Waiting
  BY DEF Places, Waiting
<1>6. /\ KernelTypeOK' /\ Punctual' /\ box' \in Seq(Events)
      /\ StartedOnce' /\ \A u \in Threads : CalledOnce(u)'
      /\ thread'[Service] = thread[Service]
  <2>1. /\ <<e>> \in Seq(Events) /\ box' = box \o <<e>>
        /\ \A i \in 1 .. Len(<<e>>) : <<e>>[i] = e
    BY <1>1, <1>3, <1>4, Said
  <2>2. \A i \in 1 .. Len(<<e>>) : <<e>>[i].evt \notin {"start", "callback"}
    BY <1>3, <2>1
  <2>3. mail' \in MailType /\ armed' \in [Apps -> BOOLEAN]
    BY <1>1, <1>4
  <2> QED BY <1>4, <1>5, <2>1, <2>2, <2>3, WorkKeeps
<1>7. /\ Len(box) \in Nat /\ Len(box') = Len(box) + 1
      /\ \A i \in 1 .. Len(box) : i \in 1 .. Len(box') /\ box'[i] = box[i]
      /\ \A i \in 1 .. Len(box') : i \in 1 .. Len(box) \/ (i = Len(box) + 1 /\ box'[i] = e)
      /\ Len(box) + 1 \in 1 .. Len(box') /\ box'[Len(box) + 1] = e
  BY <1>1, <1>3, <1>4, Appended
<1>8. ASSUME NEW u \in Apps PROVE Armed(u)' /\ OneTimer(u)'
  <2>1. UNCHANGED <<timers, mail>> /\ Armed(u) /\ OneTimer(u)
    BY <1>1, <1>4 DEF serviceVars
  <2>2. HasTimer(timers, u)' = HasTimer(timers, u) /\ OneIn(timers, u)' = OneIn(timers, u)
    BY <2>1 DEF HasTimer, OneIn
  <2>3. CASE u # t
    <3>1. armed'[u] = armed[u]
      BY <1>1, <1>4, <2>3
    <3>2. \A i \in 1 .. Len(box') : IsAsk(box'[i], u) => i \in 1 .. Len(box) /\ IsAsk(box[i], u) /\ box'[i] = box[i]
      BY <1>3, <1>7, <2>3 DEF IsAsk
    <3>3. \A i \in 1 .. Len(box) : IsAsk(box[i], u) => i \in 1 .. Len(box') /\ IsAsk(box'[i], u) /\ box'[i] = box[i]
      BY <1>7
    <3>4. Armed(u)'
      BY <2>1, <2>2, <3>1, <3>2, <3>3 DEF Armed
    <3>5. OneTimer(u)'
      BY <2>1, <2>2, <3>1, <3>2, <3>3 DEF OneTimer
    <3> QED BY <3>4, <3>5
  <2>4. CASE u = t
    <3>1. IsAsk(e, u) /\ armed'[u]
      BY <1>1, <1>3, <1>4, <2>4 DEF IsAsk
    <3>2. Armed(u)'
      <4>1. \A i \in 1 .. Len(box') : box'[i].delay = 0 => Len(box) + 1 > i
        BY <1>3, <1>7
      <4> QED BY <1>3, <1>7, <3>1, <4>1 DEF Armed
    <3>3. OneTimer(u)'
      <4> SUFFICES ASSUME u \notin Cancellers PROVE OneTimer(u)'
        BY DEF OneTimer
      <4>1. /\ \A i \in 1 .. Len(box) : ~IsAsk(box[i], u)
            /\ ~HasTimer(timers, u) /\ "timer" \notin mail[u] /\ OneIn(timers, u)
        BY <1>4, <2>1, <2>4 DEF OneTimer
      <4>2. \A i \in 1 .. Len(box') : IsAsk(box'[i], u) => i = Len(box) + 1 /\ box'[i] = e
        BY <1>7, <4>1
      <4> QED BY <1>3, <2>1, <2>2, <3>1, <4>1, <4>2 DEF OneTimer
    <3> QED BY <3>2, <3>3
  <2> QED BY <2>3, <2>4
<1> QED BY <1>6, <1>8 DEF KInv

\* A timer is cancelled, or its mail is read.
LEMMA DisarmKeeps ==
  ASSUME KInv, KernelAssumption, NEW t \in Apps, Disarm(t) \/ ReadTimer(t)
  PROVE  KInv' /\ thread'[Service] = thread[Service]
<1> DEFINE e == TimedMail(t, 0)
<1>1. /\ KernelTypeOK /\ mail \in MailType /\ armed \in [Apps -> BOOLEAN] /\ asks \in [Apps -> Nat]
      /\ box \in Seq(Events) /\ thread \in [Threads -> Places] /\ \A u \in Apps : Armed(u) /\ OneTimer(u)
  BY DEF KInv, KernelTypeOK, MailType, Places
<1>2. t \in Threads
  BY DEF Threads
<1>3. e \in Events /\ e.evt = "timer" /\ e.to = t
  BY DEF TimedMail, Events
<1>4. /\ thread[t] = "work" /\ thread' = [thread EXCEPT ![t] = "work"]
      /\ armed' = [armed EXCEPT ![t] = FALSE]
      /\ UNCHANGED <<serviceVars, run, asks, windows, now>>
      /\ \/ t \in Cancellers /\ box' = box \o <<e>> /\ mail' = mail
         \/ box' = box \o <<>> /\ "timer" \in mail[t] /\ mail' = [mail EXCEPT ![t] = @ \ {"timer"}]
  BY <1>1, <1>2, <1>3 DEF Disarm, ReadTimer, Working, Tell
<1> HIDE DEF e
<1>5. mail' \in MailType /\ armed' \in [Apps -> BOOLEAN]
      /\ \A u \in Apps : u # t => mail'[u] = mail[u] /\ armed'[u] = armed[u]
  <2>1. mail' \in MailType
    <3>1. mail[t] \ {"timer"} \in SUBSET {"exit", "timer"}
      BY <1>1, <1>2 DEF MailType
    <3>2. mail' = mail \/ mail' = [mail EXCEPT ![t] = mail[t] \ {"timer"}]
      BY <1>4
    <3> QED BY <1>1, <3>1, <3>2 DEF MailType
  <2>2. \A u \in Apps : u # t => mail'[u] = mail[u]
    BY <1>1, <1>4 DEF MailType, Threads
  <2> QED BY <1>1, <1>4, <2>1, <2>2
<1>6. PICK new \in Seq(Events) : box' = box \o new /\ \A i \in 1 .. Len(new) : new[i] = e
  <2>1. /\ <<e>> \in Seq(Events) /\ \A i \in 1 .. Len(<<e>>) : <<e>>[i] = e
        /\ <<>> \in Seq(Events) /\ \A i \in 1 .. Len(<<>>) : FALSE
    BY <1>1, <1>3, Said
  <2>2. CASE box' = box \o <<e>>
    BY <2>1, <2>2
  <2>3. CASE box' = box \o <<>>
    BY <2>1, <2>3
  <2> QED BY <1>4, <2>2, <2>3
<1>7. /\ KernelTypeOK' /\ Punctual' /\ box' \in Seq(Events)
      /\ StartedOnce' /\ \A u \in Threads : CalledOnce(u)'
      /\ thread'[Service] = thread[Service]
  <2>1. "work" \in Places /\ "work" \notin Waiting /\ "work" # "none"
    BY DEF Places, Waiting
  <2>2. asks' \in [Apps -> Nat]
    BY <1>1, <1>4
  <2>3. \A i \in 1 .. Len(new) : new[i].evt \notin {"start", "callback"}
    BY <1>3, <1>6
  <2> QED BY <1>4, <1>5, <1>6, <2>1, <2>2, <2>3, WorkKeeps
<1>8. ASSUME NEW u \in Apps PROVE Armed(u)' /\ OneTimer(u)'
  <2>1. timers' = timers /\ Armed(u) /\ OneTimer(u)
    BY <1>1, <1>4 DEF serviceVars
  <2>2. HasTimer(timers, u)' = HasTimer(timers, u) /\ OneIn(timers, u)' = OneIn(timers, u)
    BY <2>1 DEF HasTimer, OneIn
  <2>3. CASE u # t
    <3>1. armed'[u] = armed[u] /\ mail'[u] = mail[u]
      BY <1>5, <2>3
    <3>2. /\ \A i \in 1 .. Len(box) : i \in 1 .. Len(box') /\ box'[i] = box[i]
          /\ \A i \in 1 .. Len(box') : i \in 1 .. Len(box) \/ box'[i] = e
      BY <1>1, <1>6, Grown
    <3>3. /\ \A i \in 1 .. Len(box') : IsAsk(box'[i], u) => i \in 1 .. Len(box) /\ IsAsk(box[i], u) /\ box'[i] = box[i]
          /\ \A i \in 1 .. Len(box) : IsAsk(box[i], u) => i \in 1 .. Len(box') /\ IsAsk(box'[i], u) /\ box'[i] = box[i]
      BY <1>3, <2>3, <3>2 DEF IsAsk
    <3>4. Armed(u)'
      BY <2>1, <2>2, <3>1, <3>3 DEF Armed
    <3>5. OneTimer(u)'
      BY <2>1, <2>2, <3>1, <3>3 DEF OneTimer
    <3> QED BY <3>4, <3>5
  <2>4. CASE u = t
    <3>1. ~armed'[u]
      BY <1>1, <1>4, <2>4
    <3>2. CASE u \in Cancellers
      BY <3>1, <3>2 DEF Armed, OneTimer
    <3>3. CASE u \notin Cancellers
      <4>1. /\ "timer" \in mail[t] /\ mail' = [mail EXCEPT ![t] = @ \ {"timer"}] /\ box' = box
        BY <1>1, <1>4, <2>4, <3>3
      <4>2. "timer" \notin mail'[u]
        BY <1>1, <1>2, <2>4, <4>1 DEF MailType
      <4>3. ~HasTimer(timers, u) /\ OneIn(timers, u) /\ \A i \in 1 .. Len(box) : ~IsAsk(box[i], u)
        BY <2>1, <2>4, <3>3, <4>1 DEF OneTimer
      <4> QED BY <2>2, <3>1, <4>1, <4>2, <4>3 DEF Armed, OneTimer
    <3> QED BY <3>2, <3>3
  <2> QED BY <2>3, <2>4
<1> QED BY <1>7, <1>8 DEF KInv

\* Applications.
LEMMA LeaveKeeps ==
  ASSUME KInv, KernelAssumption, NEW t \in Apps, Leave(t)
  PROVE  KInv' /\ UNCHANGED <<kernel, tasks>> /\ thread'[Service] = thread[Service]
<1>1. t \in Threads /\ JoinTask(t) = TaskEvent("stop", t)
  BY DEF Threads, JoinTask
<1>2. UNCHANGED <<serviceVars, run, mail, armed, asks, windows, now>> /\ UNCHANGED <<kernel, tasks>>
  BY DEF Leave, serviceVars
<1>3. asks \in [Apps -> Nat]
  BY DEF KInv, KernelTypeOK
<1>4. ASSUME NEW from, NEW next \in {"hide", "done", "over"}, thread[t] = from, from \in {"work", "hidden", "done"},
             thread' = [thread EXCEPT ![t] = next], box' = box \/ box' = Append(box, JoinTask(t))
      PROVE  KInv' /\ thread'[Service] = thread[Service]
  <2>1. next \in Places \ Waiting /\ from \notin Waiting /\ from # "none"
    BY <1>4 DEF Places, Waiting
  <2>2. box' = box \/ \E u \in Threads : box' = Append(box, TaskEvent("stop", u))
    BY <1>1, <1>4
  <2> QED BY <1>2, <1>4, <2>1, <2>2, AppQuiet
<1>5. CASE Working(t) /\ thread' = [thread EXCEPT ![t] = "hide"] /\ UNCHANGED box
  BY <1>2, <1>4, <1>5 DEF Working
<1>6. CASE thread[t] = "hidden" /\ Tell(t, Callback(t), "tidy")
  <2>1. "tidy" \in Waiting \ {"init"} /\ "tidy" \notin Starting /\ "hidden" \notin Waiting
    BY DEF Waiting, Starting
  <2> QED BY <1>2, <1>3, <1>6, <2>1, AppCalls
<1>7. CASE thread[t] = "hidden" /\ thread' = [thread EXCEPT ![t] = "done"] /\ UNCHANGED box
  BY <1>2, <1>4, <1>7
<1>8. CASE thread[t] = "done" /\ Tell(t, JoinTask(t), "over")
  BY <1>2, <1>4, <1>8 DEF Tell
<1> QED BY <1>2, <1>5, <1>6, <1>7, <1>8 DEF Leave

LEMMA AppKeeps ==
  ASSUME KInv, KernelAssumption, NEW t \in Apps, App(t)
  PROVE  KInv' /\ UNCHANGED <<kernel, tasks>> /\ thread'[Service] = thread[Service]
<1>1. /\ asks \in [Apps -> Nat] /\ thread \in [Threads -> Places] /\ t \in Threads
  BY DEF KInv, KernelTypeOK, Places, Threads
<1>2. "work" \in Places \ Waiting /\ "work" # "none" /\ "call" \in Waiting \ {"init"} /\ "call" \notin Starting
  BY DEF Places, Waiting, Starting
<1>3. CASE CallBack(t)
  <2>1. /\ asks' \in [Apps -> Nat] /\ Tell(t, Callback(t), "call") /\ thread[t] = "work"
        /\ UNCHANGED <<serviceVars, run, mail, armed, windows, now>>
    BY <1>1, <1>3 DEF CallBack, Working
  <2>2. UNCHANGED <<kernel, tasks>>
    BY <2>1 DEF serviceVars
  <2> QED BY <1>2, <2>1, <2>2, AppCalls
<1>4. CASE \E d \in Delays : Arm(t, d)
  <2>1. UNCHANGED <<kernel, tasks>>
    BY <1>4 DEF Arm, serviceVars
  <2> QED BY <1>4, <2>1, ArmKeeps
<1>5. CASE Disarm(t) \/ ReadTimer(t)
  <2>1. UNCHANGED <<kernel, tasks>>
    BY <1>5 DEF Disarm, ReadTimer, serviceVars
  <2> QED BY <1>5, <2>1, DisarmKeeps
<1>6. CASE Close(t)
  <2>1. /\ thread[t] = "work" /\ thread' = [thread EXCEPT ![t] = "work"]
        /\ box' = Append(box, TaskEvent("stop", t))
        /\ UNCHANGED <<serviceVars, run, mail, armed, asks, windows, now>>
    BY <1>6 DEF Close, Working, Tell
  <2>2. UNCHANGED <<kernel, tasks>>
    BY <2>1 DEF serviceVars
  <2> QED BY <1>1, <1>2, <2>1, <2>2, AppQuiet
<1>7. CASE Leave(t)
  BY <1>7, LeaveKeeps
<1> QED BY <1>3, <1>4, <1>5, <1>6, <1>7 DEF App

\* The launcher starts a task.
LEMMA LaunchKeeps ==
  ASSUME KInv, KernelAssumption, NEW task \in Offers, Launch(task)
  PROVE  KInv' /\ UNCHANGED <<kernel, tasks>> /\ thread'[Service] = thread[Service]
<1>1. Launcher \in Apps /\ task \in Apps
  BY DEF KernelAssumption
<1>2. asks \in [Apps -> Nat] /\ box \in Seq(Events)
  BY DEF KInv, KernelTypeOK
<1>3. /\ thread[Launcher] = "work" /\ thread[task] = "none"
      /\ \A i \in DOMAIN box : box[i].evt = "start" => box[i].task # task
      /\ Tell(Launcher, StartTask(Launcher, task), "starting")
      /\ UNCHANGED <<serviceVars, run, mail, armed, asks, windows, now>>
  BY DEF Launch, Working
<1>4. UNCHANGED <<kernel, tasks>> /\ asks' \in [Apps -> Nat] /\ DOMAIN box = 1 .. Len(box)
  BY <1>2, <1>3 DEF serviceVars
<1>5. "starting" \in Waiting \ {"init"} /\ "starting" \in Starting /\ "work" \notin Waiting
  BY DEF Waiting, Starting
<1>6. \A i \in 1 .. Len(box) : box[i].evt = "start" => box[i].task # task
  BY <1>3, <1>4
<1>7. KInv' /\ thread'[Service] = thread[Service]
  BY <1>1, <1>3, <1>4, <1>5, <1>6, AppCalls
<1> QED BY <1>4, <1>7

\* Time passes, and no timer is late.
LEMMA TickKeeps ==
  ASSUME KInv, KernelAssumption, Tick
  PROVE  KInv' /\ UNCHANGED <<kernel, tasks, thread>>
<1>1. /\ now' = now + 1 /\ now < MaxTime /\ timers # <<>> /\ (kernel = "read" => ~Expired)
      /\ UNCHANGED <<box, kernel, krun, wake, timers, tasks, thread, run, mail, armed, asks, windows>>
  BY DEF Tick, serviceVars, taskVars
<1>2. KernelTypeOK /\ now \in Nat /\ MaxTime \in Nat /\ Never \notin Nat
  BY DEF KInv, KernelTypeOK, KernelAssumption
<1>3. KernelTypeOK'
  <2>1. now' \in 0 .. MaxTime
    BY <1>1, <1>2
  <2> QED BY <1>1, <1>2, <2>1 DEF KernelTypeOK
<1>4. Punctual'
  <2>1. timers \in Seq(Timer)
    BY <1>2 DEF KernelTypeOK
  <2>2. \A i \in 1 .. Len(timers) : timers[i].at \in Nat
    <3>1. \A i \in 1 .. Len(timers) : timers[i] \in Timer
      BY <2>1
    <3> QED BY <3>1 DEF Timer
  <2>3. kernel # "off"
    BY <1>1 DEF KInv, Punctual
  <2>4. ASSUME kernel = "read"
        PROVE  /\ wake \in Nat
               /\ \A i \in 1 .. Len(timers) : timers[i].at >= wake /\ timers[i].at >= now + 1
    <3>1. wake \in Nat /\ \A i \in 1 .. Len(timers) : timers[i].at >= wake
      BY <1>1, <2>4 DEF KInv, Punctual
    <3>2. wake > now
      BY <1>1, <1>2, <2>4, <3>1 DEF Expired
    <3> QED BY <1>2, <2>2, <3>1, <3>2
  <2> QED BY <1>1, <2>3, <2>4 DEF Punctual
<1>5. StartedOnce' /\ box' \in Seq(Events)
  BY <1>1 DEF KInv, StartedOnce
<1>6. \A t \in Threads : CalledOnce(t)'
  BY <1>1 DEF KInv, CalledOnce
<1>7. \A t \in Apps : Armed(t)' /\ OneTimer(t)'
  <2> SUFFICES ASSUME NEW t \in Apps PROVE Armed(t)' /\ OneTimer(t)'
    OBVIOUS
  <2>1. Armed(t) /\ OneTimer(t)
    BY DEF KInv
  <2> QED BY <1>1, <2>1 DEF Armed, OneTimer, HasTimer, OneIn
<1> QED BY <1>1, <1>3, <1>4, <1>5, <1>6, <1>7 DEF KInv

\* All that tasks do.
LEMMA TasksKeep ==
  ASSUME KInv, KernelAssumption, Tasks
  PROVE  /\ KInv' /\ UNCHANGED <<kernel, tasks>>
         /\ thread[Service] \in {"none", "serve"} => thread'[Service] = thread[Service]
BY TickKeeps, GuiKeeps, AppKeeps, LaunchKeeps DEF Tasks

\* The kernel thread ends.
LEMMA EndKernelKeeps ==
  ASSUME KInv, KernelAssumption, NEW own, EndKernel(own)
  PROVE  KInv' /\ UNCHANGED <<tasks, thread>> /\ kernel' = "over"
<1>1. /\ kernel' = "over" /\ (box' = box \/ box' = Append(box, JoinTask("kernel")))
      /\ UNCHANGED <<krun, wake, timers, tasks, thread, run, mail, armed, asks, windows, now>>
  BY DEF EndKernel, taskVars
<1>2. /\ box \in Seq(Events) /\ KernelTypeOK
      /\ JoinTask("kernel") \in Events /\ JoinTask("kernel").evt = "stop"
  BY DEF KInv, JoinTask, TaskEvent, Events
<1>3. PICK new \in Seq(Events) : box' = box \o new /\ \A i \in 1 .. Len(new) : new[i].evt = "stop"
  <2>1. /\ <<>> \in Seq(Events) /\ box \o <<>> = box /\ \A i \in 1 .. Len(<<>>) : FALSE
        /\ <<JoinTask("kernel")>> \in Seq(Events)
        /\ box \o <<JoinTask("kernel")>> = Append(box, JoinTask("kernel"))
        /\ \A i \in 1 .. Len(<<JoinTask("kernel")>>) : <<JoinTask("kernel")>>[i] = JoinTask("kernel")
    BY <1>2, Said
  <2>2. CASE box' = box
    BY <2>1, <2>2
  <2>3. CASE box' = Append(box, JoinTask("kernel"))
    <3>1. \A i \in 1 .. Len(<<JoinTask("kernel")>>) : <<JoinTask("kernel")>>[i].evt = "stop"
      BY <1>2, <2>1
    <3> QED BY <2>1, <2>3, <3>1
  <2> QED BY <1>1, <2>2, <2>3
<1>4. KernelTypeOK' /\ Punctual'
  BY <1>1, <1>2 DEF KernelTypeOK, Punctual
<1>5. KInv'
  BY <1>1, <1>3, <1>4, QuietKeeps
<1> QED BY <1>1, <1>5

-----------------------------------------------------------------------------
(* Windows and applications.                                               *)

AppPlaces == AtWork \cup {"none", "show", "hidden", "tidy", "done", "over"}

Loop == {"poll", "frame", "drawing"}

ServicePlaces ==
  Loop \cup {"none", "serve", "begin", "init", "start", "launch", "leave", "deinit", "quit", "over"}

\* An application at work has a window, and while there is one the GUI service is
\* in its loop.
WindowInv ==
  /\ \A t \in Apps : thread[t] \in AppPlaces /\ (thread[t] \in AtWork => t \in windows)
  /\ thread[Service] \in ServicePlaces
  /\ windows # {} => thread[Service] \in Loop

\* One thread goes on, and no window comes or goes.
LEMMA WindowStep ==
  ASSUME KernelAssumption, WindowInv, thread \in [Threads -> Places], NEW u \in Threads, NEW next,
         thread' = [thread EXCEPT ![u] = next], UNCHANGED windows,
         u \in Apps => next \in AppPlaces /\ (next \in AtWork => thread[u] \in AtWork),
         u = Service => next \in ServicePlaces /\ (windows # {} => next \in Loop)
  PROVE  WindowInv'
<1>1. \A t \in Threads : thread'[t] = IF t = u THEN next ELSE thread[t]
  OBVIOUS
<1>2. Service \in Threads /\ \A t \in Apps : t \in Threads
  BY DEF Threads
<1> QED BY <1>1, <1>2 DEF WindowInv

\* The kernel answers a thread that waits for it.
LEMMA WindowTurn ==
  ASSUME KInv, KernelAssumption, WindowInv, Turn
  PROVE  WindowInv'
<1>1. /\ thread \in [Threads -> Places] /\ box \in Seq(Events) /\ StartedOnce
      /\ \A t \in Threads : CalledOnce(t)
  BY DEF KInv, KernelTypeOK, Places
<1>2. Service \in Threads /\ Service \notin Apps /\ \A t \in Apps : t \in Threads
  BY DEF Threads, KernelAssumption
<1>3. UNCHANGED windows
  BY DEF Turn
<1>4. CASE UNCHANGED thread
  BY <1>3, <1>4 DEF WindowInv
<1>5. ASSUME NEW e, box # <<>>, e = Head(box), e.evt = "start", HandleStart(e)
      PROVE  WindowInv'
  <2>1. e = box[1] /\ e \in Events /\ 1 \in 1 .. Len(box)
    BY <1>1, <1>5, Read
  <2>2. e.task \in Apps /\ e.from \in Threads
    BY <1>5, <2>1 DEF Events
  <2>3. thread[e.task] = "none" /\ thread[e.from] \in Starting
    BY <1>1, <1>5, <2>1, <2>2 DEF StartedOnce, CalledOnce, IsCall
  <2>4. \A t \in Threads :
          thread'[t] = IF t = e.from THEN IF thread[t] = "launch" THEN "poll" ELSE "work"
                       ELSE IF t = e.task THEN IF run[t] THEN "none" ELSE "show"
                       ELSE thread[t]
    BY <1>1, <1>2, <1>5, <2>2, <2>3 DEF HandleStart, Starting
  <2>5. ASSUME NEW t \in Apps
        PROVE  thread'[t] \in AppPlaces /\ (thread'[t] \in AtWork => t \in windows)
    <3>1. t \in Threads /\ thread[t] \in AppPlaces /\ (thread[t] \in AtWork => t \in windows)
      BY <1>2 DEF WindowInv
    <3>2. t = e.from => thread[t] = "starting"
      BY <2>3, <3>1 DEF Starting, AppPlaces, AtWork
    <3> QED BY <2>4, <3>1, <3>2 DEF AppPlaces, AtWork
  <2>6. /\ thread'[Service] \in ServicePlaces
        /\ windows # {} => thread'[Service] \in Loop
    <3>1. /\ thread[Service] \in ServicePlaces
          /\ windows # {} => thread[Service] \in Loop
      BY DEF WindowInv
    <3>2. Service # e.task /\ (Service = e.from => thread[Service] = "launch")
      BY <1>2, <2>2, <2>3, <3>1 DEF Starting, ServicePlaces, Loop
    <3> QED BY <1>2, <2>4, <3>1, <3>2 DEF ServicePlaces, Loop
  <2> QED BY <1>3, <2>5, <2>6 DEF WindowInv
<1>6. ASSUME NEW e, box # <<>>, e = Head(box), e.evt = "callback", HandleCallback(e)
      PROVE  WindowInv'
  <2>1. e = box[1] /\ e \in Events /\ 1 \in 1 .. Len(box)
    BY <1>1, <1>6, Read
  <2>2. e.from \in Threads
    BY <1>6, <2>1 DEF Events
  <2>3. thread[e.from] \in Waiting \ Starting
    <3>1. CalledOnce(e.from)
      BY <1>1, <2>2
    <3>2. IsCall(box[1], e.from) /\ box[1].evt # "start"
      BY <1>6, <2>1 DEF IsCall
    <3> QED BY <2>1, <3>1, <3>2 DEF CalledOnce
  <2>4. thread' = [thread EXCEPT ![e.from] = Returns(e.from)]
    BY <1>6 DEF HandleCallback
  <2>5. e.from \in Apps => /\ Returns(e.from) \in AppPlaces
                           /\ Returns(e.from) \in AtWork => thread[e.from] \in AtWork
    <3>1. e.from \in Apps => thread[e.from] \in {"call", "tidy"}
      BY <2>3 DEF WindowInv, Waiting, Starting, AppPlaces, AtWork
    <3> QED BY <3>1 DEF Returns, AppPlaces, AtWork
  <2>6. e.from = Service => /\ Returns(e.from) \in ServicePlaces
                            /\ windows # {} => Returns(e.from) \in Loop
    <3>1. e.from = Service => thread[e.from] \in {"init", "drawing", "deinit"}
      BY <2>3 DEF WindowInv, Waiting, Starting, ServicePlaces, Loop
    <3>2. e.from = Service /\ windows # {} => thread[e.from] = "drawing"
      BY <3>1 DEF WindowInv, Loop
    <3> QED BY <3>1, <3>2 DEF Returns, ServicePlaces, Loop
  <2> QED BY <1>1, <1>3, <2>2, <2>4, <2>5, <2>6, WindowStep
<1> QED BY <1>4, <1>5, <1>6 DEF Turn, HandleExit, HandleStop, HandleTimer

\* The GUI service gets and loses windows, and ends without one.
LEMMA WindowGui ==
  ASSUME KInv, KernelAssumption, WindowInv, Gui
  PROVE  WindowInv'
<1>1. thread \in [Threads -> Places]
  BY DEF KInv, KernelTypeOK, Places
<1>2. Service \in Threads /\ Service \notin Apps /\ \A t \in Apps : t \in Threads
  BY DEF Threads, KernelAssumption
<1>3. ASSUME NEW next, UNCHANGED windows, thread' = [thread EXCEPT ![Service] = next],
             next \in ServicePlaces, thread[Service] \in Loop => next \in Loop
      PROVE  WindowInv'
  <2>1. windows # {} => next \in Loop
    BY <1>3 DEF WindowInv
  <2> QED BY <1>1, <1>2, <1>3, <2>1, WindowStep
<1>4. CASE InitHost \/ StartLauncher \/ Frame \/ DeinitHost \/ Quit
  <2>1. \E next \in {"init", "launch", "drawing", "deinit", "over"} :
          /\ thread' = [thread EXCEPT ![Service] = next] /\ UNCHANGED windows
          /\ next # "drawing" => thread[Service] \in {"begin", "start", "leave", "quit"}
    BY <1>4 DEF InitHost, StartLauncher, Frame, DeinitHost, Quit, GuiStep, Tell
  <2> QED BY <1>3, <2>1 DEF ServicePlaces, Loop
<1>5. ASSUME NEW t \in Apps, Serve(t) PROVE WindowInv'
  <2>1. \/ /\ windows' = windows \cup {t}
           /\ thread' = [thread EXCEPT ![t] = "work", ![Service] = "frame"]
        \/ /\ windows' = windows \ {t}
           /\ thread' = [thread EXCEPT ![t] = "hidden", ![Service] = "frame"]
    BY <1>5 DEF Serve
  <2>2. thread'[Service] = "frame" /\ \A u \in Apps : u # t => thread'[u] = thread[u]
    BY <1>1, <1>2, <2>1
  <2>3. \/ windows' = windows \cup {t} /\ thread'[t] = "work"
        \/ windows' = windows \ {t} /\ thread'[t] = "hidden"
    BY <1>1, <1>2, <2>1
  <2>4. "work" \in AppPlaces /\ "hidden" \in AppPlaces \ AtWork /\ "frame" \in Loop \cap ServicePlaces
    BY DEF AppPlaces, AtWork, Loop, ServicePlaces
  <2> QED BY <2>2, <2>3, <2>4 DEF WindowInv
<1> QED BY <1>4, <1>5 DEF Gui

\* An application is at work only while it has its window.
LEMMA WindowTasks ==
  ASSUME KInv, KernelAssumption, WindowInv, Tasks
  PROVE  WindowInv'
<1>1. thread \in [Threads -> Places]
  BY DEF KInv, KernelTypeOK, Places
<1>2. ASSUME NEW t \in Apps, NEW next, UNCHANGED windows, thread' = [thread EXCEPT ![t] = next],
             next \in AppPlaces, next \in AtWork => thread[t] \in AtWork
      PROVE  WindowInv'
  <2>1. t \in Threads /\ t # Service
    BY DEF Threads, KernelAssumption
  <2> QED BY <1>1, <1>2, <2>1, WindowStep
<1>3. CASE UNCHANGED <<thread, windows>>
  BY <1>3 DEF WindowInv
<1>4. ASSUME NEW t \in Apps, App(t) PROVE WindowInv'
  <2>1. \/ UNCHANGED <<thread, windows>>
        \/ \E next \in {"work", "call", "hide", "tidy", "done", "over"} :
             /\ thread' = [thread EXCEPT ![t] = next] /\ UNCHANGED windows
             /\ next \in {"work", "call", "hide"} => thread[t] = "work"
    BY <1>4 DEF App, CallBack, Arm, Disarm, ReadTimer, Close, Leave, Working, Tell
  <2> QED BY <1>2, <1>3, <1>4, <2>1 DEF AppPlaces, AtWork
<1>5. ASSUME NEW task \in Offers, Launch(task) PROVE WindowInv'
  <2>1. /\ Launcher \in Apps /\ thread[Launcher] = "work" /\ UNCHANGED windows
        /\ thread' = [thread EXCEPT ![Launcher] = "starting"]
    BY <1>5 DEF Launch, Working, Tell, KernelAssumption
  <2> QED BY <1>2, <2>1 DEF AppPlaces, AtWork
<1>6. CASE Tick
  BY <1>3, <1>6 DEF Tick, taskVars
<1> QED BY <1>4, <1>5, <1>6, WindowGui DEF Tasks

-----------------------------------------------------------------------------
(* The IP links.                                                           *)

\* The router holds a link only while its receive thread reads, and that only while
\* there is one; a manager that is not at work has none.
LinkKept(p, c) ==
  /\ link[p][c].known => link[p][c].receiver = "read"
  /\ link[p][c].receiver = "read" => link[p][c].at = "live"
  /\ manager[p].at \in {"off", "over"} => link[p][c].at # "live"

IpInv ==
  /\ IpTypeOK
  /\ \A p \in Ends : manager[p].at = "purge" => manager[p].purges \in Conns
  /\ \A p \in Ends : \A c \in Conns : LinkKept(p, c)

ManagerState == [at : {"off", "loop", "purge", "close", "over", "exited"},
                 on : BOOLEAN, io : BOOLEAN, purges : Conns \cup {NoConn}]

\* One link changes, and no manager.
LEMMA OneLink ==
  ASSUME IpInv, NEW p \in Ends, NEW c \in Conns, NEW l \in IpLink,
         link' = [link EXCEPT ![p][c] = l], UNCHANGED <<dials, dialled, manager>>,
         conn' \in [Conns -> {"free", "dialled", "open", "broken"}],
         l.known => l.receiver = "read", l.receiver = "read" => l.at = "live",
         l.at = "live" => link[p][c].at = "live" \/ manager[p].at \notin {"off", "over"}
  PROVE  IpInv'
<1>1. link \in [Ends -> [Conns -> IpLink]] /\ IpTypeOK
  BY DEF IpInv, IpTypeOK
<1>2. /\ link' \in [Ends -> [Conns -> IpLink]]
      /\ \A q \in Ends : \A d \in Conns : link'[q][d] = IF q = p /\ d = c THEN l ELSE link[q][d]
  BY <1>1
<1>3. ASSUME NEW q \in Ends, NEW d \in Conns PROVE LinkKept(q, d)'
  BY <1>2 DEF IpInv, LinkKept
<1>4. IpTypeOK'
  BY <1>1, <1>2 DEF IpTypeOK
<1> QED BY <1>3, <1>4 DEF IpInv

\* A manager goes from one step to another, and no link changes.
LEMMA ManagerMoves ==
  ASSUME IpInv, NEW p \in Ends, NEW m \in ManagerState, manager' = [manager EXCEPT ![p] = m],
         UNCHANGED <<dials, dialled, link>>,
         conn' \in [Conns -> {"free", "dialled", "open", "broken"}],
         m.at = "purge" => m.purges \in Conns,
         m.at \in {"off", "over"} => manager[p].at \in {"off", "over"}
  PROVE  IpInv'
<1>1. manager \in [Ends -> ManagerState] /\ IpTypeOK
  BY DEF IpInv, IpTypeOK, ManagerState
<1>2. \A q \in Ends : manager'[q] = IF q = p THEN m ELSE manager[q]
  BY <1>1
<1>3. IpTypeOK'
  BY <1>1 DEF IpTypeOK, ManagerState
<1>4. ASSUME NEW q \in Ends, NEW d \in Conns PROVE LinkKept(q, d)'
  BY <1>2 DEF IpInv, LinkKept
<1> QED BY <1>2, <1>3, <1>4 DEF IpInv

\* Packets are sent and received.
LEMMA LinkThreads ==
  ASSUME IpInv, NEW p \in Ends, NEW c \in Conns, SendThread(p, c) \/ ReceiveThread(p, c)
  PROVE  IpInv' /\ UNCHANGED manager
<1>1. /\ link \in [Ends -> [Conns -> IpLink]] /\ conn \in [Conns -> {"free", "dialled", "open", "broken"}]
      /\ \A q \in Ends : LinkKept(q, c)
  BY DEF IpInv, IpTypeOK
<1>2. UNCHANGED <<dials, dialled, manager, conn>>
  BY DEF SendThread, SendPacket, EndSend, ReceiveThread
<1>3. Other(p) \in Ends
  BY DEF Other, Ends
<1>4. \A q \in Ends : link[q][c] \in IpLink
  BY <1>1
<1>5. ASSUME NEW q \in Ends, NEW l \in IpLink, link' = [link EXCEPT ![q][c] = l],
             l.known => link[q][c].known /\ l.receiver = link[q][c].receiver,
             l.receiver = "read" => link[q][c].receiver = "read", l.at = link[q][c].at
      PROVE  IpInv'
  BY <1>1, <1>2, <1>5, OneLink DEF LinkKept
<1>6. CASE SendPacket(p, c)
  <2>1. CASE Reaches(p, c)
    <3> DEFINE q == Other(p)
               l == [link[q][c] EXCEPT !.data = TRUE]
    <3>1. link' = [link EXCEPT ![q][c] = l]
      BY <1>6, <2>1 DEF SendPacket
    <3>2. /\ l \in IpLink /\ l.known = link[q][c].known /\ l.receiver = link[q][c].receiver
          /\ l.at = link[q][c].at
      BY <1>3, <1>4 DEF IpLink
    <3> HIDE DEF l, q
    <3>3. q \in Ends
      BY <1>3 DEF q
    <3> QED BY <1>2, <1>5, <3>1, <3>2, <3>3
  <2>2. CASE ~Reaches(p, c)
    <3> DEFINE l == [link[p][c] EXCEPT !.on = FALSE]
    <3>1. link' = [link EXCEPT ![p][c] = l]
      BY <1>6, <2>2 DEF SendPacket
    <3>2. /\ l \in IpLink /\ l.known = link[p][c].known /\ l.receiver = link[p][c].receiver
          /\ l.at = link[p][c].at
      BY <1>4 DEF IpLink
    <3> HIDE DEF l
    <3> QED BY <1>2, <1>5, <3>1, <3>2
  <2> QED BY <2>1, <2>2
<1>7. CASE EndSend(p, c)
  <2> DEFINE l == [link[p][c] EXCEPT !.sender = "over"]
  <2>1. link' = [link EXCEPT ![p][c] = l]
    BY <1>7 DEF EndSend
  <2>2. /\ l \in IpLink /\ l.known = link[p][c].known /\ l.receiver = link[p][c].receiver
        /\ l.at = link[p][c].at
    BY <1>4 DEF IpLink
  <2> HIDE DEF l
  <2> QED BY <1>2, <1>5, <2>1, <2>2
<1>8. CASE ReceiveThread(p, c)
  <2>1. link[p][c].receiver = "read" /\ link[p][c].at = "live"
    BY <1>1, <1>8 DEF ReceiveThread, LinkKept
  <2>2. ASSUME NEW l0 \in IpLink, l0.receiver = "read", l0.at = "live",
               link' = [link EXCEPT ![p][c] = NextRound(l0)]
        PROVE  IpInv'
    <3> DEFINE l == NextRound(l0)
    <3>1. /\ l \in IpLink /\ l.at = "live" /\ (l.known => l.receiver = "read")
      BY <2>2 DEF NextRound, IpLink
    <3>2. link' = [link EXCEPT ![p][c] = l]
      BY <2>2
    <3> HIDE DEF l
    <3> QED BY <1>1, <1>2, <2>1, <3>1, <3>2, OneLink
  <2>3. ASSUME NEW good \in BOOLEAN,
               link' = [link EXCEPT ![p][c] = NextRound(Received(@, good))]
        PROVE  IpInv'
    <3> DEFINE l0 == Received(link[p][c], good)
    <3>1. link' = [link EXCEPT ![p][c] = NextRound(l0)]
      BY <2>3
    <3>2. l0 \in IpLink /\ l0.receiver = "read" /\ l0.at = "live"
      <4>1. (link[p][c].known \/ good) \in BOOLEAN
        BY <1>4, <2>3 DEF IpLink
      <4> QED BY <1>4, <2>1, <4>1 DEF Received, IpLink
    <3> HIDE DEF l0
    <3> QED BY <2>2, <3>1, <3>2
  <2>4. ASSUME link' = [link EXCEPT ![p][c] = NextRound([@ EXCEPT !.on = FALSE])]
        PROVE  IpInv'
    <3> DEFINE l0 == [link[p][c] EXCEPT !.on = FALSE]
    <3>1. link' = [link EXCEPT ![p][c] = NextRound(l0)]
      BY <2>4
    <3>2. l0 \in IpLink /\ l0.receiver = "read" /\ l0.at = "live"
      BY <1>4, <2>1 DEF IpLink
    <3> HIDE DEF l0
    <3> QED BY <2>2, <3>1, <3>2
  <2> QED BY <1>2, <1>8, <2>3, <2>4 DEF ReceiveThread
<1> QED BY <1>2, <1>6, <1>7, <1>8 DEF SendThread

\* All the live links of a manager change, and the manager.
LEMMA AllLinks ==
  ASSUME IpInv, NEW p \in Ends, NEW f \in [Conns -> IpLink],
         NEW at \in {"close", "over"}, manager[p].at \in {"loop", "close"},
         manager' = [manager EXCEPT ![p].at = at], link' = [link EXCEPT ![p] = f],
         UNCHANGED <<dials, dialled, conn>>,
         \A c \in Conns : /\ f[c].known => f[c].receiver = "read"
                          /\ f[c].receiver = "read" => f[c].at = "live"
                          /\ at = "over" => f[c].at # "live"
  PROVE  IpInv'
<1>1. IpTypeOK /\ manager \in [Ends -> ManagerState] /\ link \in [Ends -> [Conns -> IpLink]]
  BY DEF IpInv, IpTypeOK, ManagerState
<1> DEFINE m == [manager[p] EXCEPT !.at = at]
<1>2. m \in ManagerState /\ m.at = at /\ manager' = [manager EXCEPT ![p] = m]
  BY <1>1 DEF ManagerState
<1> HIDE DEF m
<1>3. \A q \in Ends : manager'[q] = (IF q = p THEN m ELSE manager[q]) /\ link'[q] = IF q = p THEN f ELSE link[q]
  BY <1>1, <1>2
<1>4. IpTypeOK'
  BY <1>1, <1>2 DEF IpTypeOK, ManagerState
<1>5. ASSUME NEW q \in Ends, NEW d \in Conns PROVE LinkKept(q, d)'
  <2>1. CASE q = p
    BY <1>2, <1>3, <2>1 DEF LinkKept
  <2>2. CASE q # p
    BY <1>3, <2>2 DEF IpInv, LinkKept
  <2> QED BY <2>1, <2>2
<1>6. \A q \in Ends : manager'[q].at = "purge" => manager'[q].purges \in Conns
  BY <1>2, <1>3 DEF IpInv
<1> QED BY <1>4, <1>5, <1>6 DEF IpInv

\* What the links' managers do.
LEMMA ManagerKeeps ==
  ASSUME IpInv, IpAssumption, NEW p \in Ends, Manager(p)
  PROVE  /\ IpInv' /\ manager[p].at # "off"
         /\ \A q \in Ends : q # p => manager'[q] = manager[q]
<1>1. /\ IpTypeOK /\ manager \in [Ends -> ManagerState] /\ link \in [Ends -> [Conns -> IpLink]]
      /\ conn \in [Conns -> {"free", "dialled", "open", "broken"}]
      /\ dialled \in 0 .. MaxDials /\ dials \in 0 .. dialled
      /\ Client \in Ends /\ Server \in Ends /\ MaxDials \in Nat
  BY DEF IpInv, IpTypeOK, ManagerState, Ends, IpAssumption
<1>2. \A q \in Ends : manager[q] \in ManagerState /\ \A c \in Conns : link[q][c] \in IpLink /\ LinkKept(q, c)
  BY <1>1 DEF IpInv
<1>3. ASSUME p = Client, Connect PROVE IpInv' /\ manager' = manager /\ manager[p].at # "off"
  <2>1. conn' \in [Conns -> {"free", "dialled", "open", "broken"}]
    BY <1>1, <1>3 DEF Connect
  <2>2. dials' = 0 /\ UNCHANGED <<dialled, manager, link>> /\ manager[p].at # "off"
    BY <1>3 DEF Connect
  <2>3. 0 \in 0 .. dialled
    BY <1>1
  <2>4. IpTypeOK'
    BY <1>1, <2>1, <2>2, <2>3 DEF IpTypeOK
  <2>5. \A q \in Ends, c \in Conns : LinkKept(q, c)'
    BY <1>2, <2>2 DEF LinkKept
  <2> QED BY <2>2, <2>4, <2>5 DEF IpInv
<1>4. ASSUME NEW q \in Ends, NEW c \in Conns, q = p, manager[q].at = "loop",
             link' = [link EXCEPT ![q][c] = FreshIpLink(@)], UNCHANGED <<dials, dialled, manager>>,
             conn' \in [Conns -> {"free", "dialled", "open", "broken"}]
      PROVE  IpInv' /\ manager' = manager /\ manager[p].at # "off"
  <2> DEFINE l == FreshIpLink(link[q][c])
  <2>1. link' = [link EXCEPT ![q][c] = l]
    BY <1>4
  <2>2. l \in IpLink /\ l.receiver = "read" /\ l.at = "live"
    <3>1. link[q][c] \in IpLink
      BY <1>2
    <3> QED BY <3>1 DEF FreshIpLink, IpLink
  <2> HIDE DEF l
  <2>3. UNCHANGED <<dials, dialled, manager>> /\ manager[q].at \notin {"off", "over"}
    BY <1>4
  <2>4. conn' \in [Conns -> {"free", "dialled", "open", "broken"}]
    BY <1>4
  <2>5. l.known => l.receiver = "read"
    BY <2>2
  <2>6. l.receiver = "read" => l.at = "live"
    BY <2>2
  <2>7. l.at = "live" => link[q][c].at = "live" \/ manager[q].at \notin {"off", "over"}
    BY <2>3
  <2>8. IpInv'
    BY <2>1, <2>2, <2>3, <2>4, <2>5, <2>6, <2>7, OneLink
  <2> QED BY <1>4, <2>8
<1>5. ASSUME p = Client, NEW c \in Conns, Connected(c)
      PROVE  IpInv' /\ manager' = manager /\ manager[p].at # "off"
  BY <1>1, <1>4, <1>5 DEF Connected, Handles
<1>6. ASSUME p = Client, RunOut
      PROVE  IpInv' /\ (\A q \in Ends : q # p => manager'[q] = manager[q]) /\ manager[p].at # "off"
  <2> DEFINE m == [manager[p] EXCEPT !.io = FALSE]
  <2>1. m \in ManagerState /\ m.at = "loop"
    BY <1>2, <1>6 DEF RunOut, Handles, ManagerState
  <2>2. manager' = [manager EXCEPT ![p] = m] /\ UNCHANGED <<dials, dialled, conn, link>> /\ manager[p].at = "loop"
    BY <1>1, <1>6 DEF RunOut, Handles
  <2> HIDE DEF m
  <2>3. IpInv'
    BY <1>1, <2>1, <2>2, ManagerMoves
  <2> QED BY <2>2, <2>3
<1>7. ASSUME p = Server, NEW c \in Conns, Accept(c)
      PROVE  IpInv' /\ manager' = manager /\ manager[p].at # "off"
  BY <1>1, <1>4, <1>7 DEF Accept, Handles
<1>8. ASSUME NEW c \in Conns, PurgeLink(p, c)
      PROVE  IpInv' /\ (\A q \in Ends : q # p => manager'[q] = manager[q]) /\ manager[p].at # "off"
  <2> DEFINE m == [manager[p] EXCEPT !.at = "purge", !.purges = c]
  <2>1. m \in ManagerState /\ m.at = "purge" /\ m.purges = c
    BY <1>2 DEF ManagerState
  <2>2. manager' = [manager EXCEPT ![p] = m] /\ UNCHANGED <<dials, dialled, conn, link>> /\ manager[p].at = "loop"
    BY <1>1, <1>8 DEF PurgeLink
  <2> HIDE DEF m
  <2>3. IpInv'
    BY <1>1, <2>1, <2>2, ManagerMoves
  <2> QED BY <2>2, <2>3
<1>9. ASSUME LinkPurged(p)
      PROVE  IpInv' /\ (\A q \in Ends : q # p => manager'[q] = manager[q]) /\ manager[p].at # "off"
  <2> DEFINE m == [manager[p] EXCEPT !.at = "loop", !.purges = NoConn]
             c == manager[p].purges
             l == Destroyed(link[p][c])
  <2>1. /\ m \in ManagerState /\ m.at = "loop"
        /\ manager' = [manager EXCEPT ![p] = m] /\ manager[p].at = "purge"
    BY <1>1, <1>2, <1>9 DEF LinkPurged, ManagerState
  <2>2. /\ c \in Conns /\ link[p][c].receiver = "over" /\ link' = [link EXCEPT ![p][c] = l]
        /\ UNCHANGED <<dials, dialled, conn>>
    BY <1>9 DEF IpInv, LinkPurged, Joined
  <2> HIDE DEF m, c
  <2>3. ~link[p][c].known
    BY <1>2, <2>2 DEF LinkKept
  <2>4. l \in IpLink /\ ~l.known /\ l.receiver = "none" /\ l.at = "gone"
    BY <1>2, <2>2, <2>3 DEF Destroyed, NoLink, IpLink
  <2> HIDE DEF l
  <2>5. \A q \in Ends : manager'[q] = IF q = p THEN m ELSE manager[q]
    BY <1>1, <2>1
  <2>6. /\ link' \in [Ends -> [Conns -> IpLink]]
        /\ \A q \in Ends : \A d \in Conns : link'[q][d] = IF q = p /\ d = c THEN l ELSE link[q][d]
    BY <1>1, <2>2, <2>4
  <2>7. IpTypeOK'
    BY <1>1, <2>1, <2>2, <2>6 DEF IpTypeOK, ManagerState
  <2>8. ASSUME NEW q \in Ends, NEW d \in Conns PROVE LinkKept(q, d)'
    <3>1. CASE q = p /\ d = c
      BY <2>4, <2>6, <3>1 DEF LinkKept
    <3>2. CASE ~(q = p /\ d = c)
      <4>1. link'[q][d] = link[q][d] /\ (manager'[q].at \in {"off", "over"} => manager[q].at \in {"off", "over"})
        BY <2>1, <2>5, <2>6, <3>2
      <4> QED BY <1>2, <4>1 DEF LinkKept
    <3> QED BY <3>1, <3>2
  <2>9. \A q \in Ends : manager'[q].at = "purge" => manager'[q].purges \in Conns
    BY <2>1, <2>5 DEF IpInv
  <2> QED BY <2>1, <2>5, <2>7, <2>8, <2>9 DEF IpInv
<1>10. ASSUME CloseLinks(p)
       PROVE  IpInv' /\ (\A q \in Ends : q # p => manager'[q] = manager[q]) /\ manager[p].at # "off"
  <2> DEFINE f == [c \in Conns |-> IF c \in Live(p) THEN [link[p][c] EXCEPT !.on = FALSE] ELSE link[p][c]]
  <2>1. /\ link' = [link EXCEPT ![p] = f] /\ manager' = [manager EXCEPT ![p].at = "close"]
        /\ UNCHANGED <<dials, dialled, conn>> /\ manager[p].at = "loop"
    BY <1>10 DEF CloseLinks
  <2>2. \A c \in Conns : /\ f[c] \in IpLink /\ f[c].known = link[p][c].known
                         /\ f[c].receiver = link[p][c].receiver /\ f[c].at = link[p][c].at
    <3> SUFFICES ASSUME NEW c \in Conns
                 PROVE  /\ f[c] \in IpLink /\ f[c].known = link[p][c].known
                        /\ f[c].receiver = link[p][c].receiver /\ f[c].at = link[p][c].at
      OBVIOUS
    <3>1. link[p][c] \in IpLink /\ (f[c] = link[p][c] \/ f[c] = [link[p][c] EXCEPT !.on = FALSE])
      BY <1>2
    <3> HIDE DEF f
    <3> QED BY <3>1 DEF IpLink
  <2>3. f \in [Conns -> IpLink]
    BY <2>2
  <2> HIDE DEF f
  <2>4. \A c \in Conns : /\ f[c].known => f[c].receiver = "read"
                         /\ f[c].receiver = "read" => f[c].at = "live"
    BY <1>2, <2>2 DEF LinkKept
  <2>5. IpInv'
    BY <2>1, <2>3, <2>4, AllLinks
  <2> QED BY <1>1, <2>1, <2>5
<1>11. ASSUME EndManager(p)
       PROVE  IpInv' /\ (\A q \in Ends : q # p => manager'[q] = manager[q]) /\ manager[p].at # "off"
  <2> DEFINE f == [c \in Conns |-> IF c \in Live(p) THEN Destroyed(link[p][c]) ELSE link[p][c]]
  <2>1. /\ link' = [link EXCEPT ![p] = f] /\ manager' = [manager EXCEPT ![p].at = "over"]
        /\ UNCHANGED <<dials, dialled, conn>> /\ manager[p].at = "close"
        /\ \A c \in Live(p) : link[p][c].receiver = "over"
    BY <1>11 DEF EndManager, Joined
  <2>2. ASSUME NEW c \in Conns
        PROVE  /\ f[c] \in IpLink /\ f[c].at # "live"
               /\ f[c].known => f[c].receiver = "read"
               /\ f[c].receiver = "read" => f[c].at = "live"
    <3>1. CASE c \in Live(p)
      <4>1. ~link[p][c].known /\ f[c] = Destroyed(link[p][c])
        BY <1>2, <2>1, <3>1 DEF LinkKept
      <4> QED BY <1>2, <4>1 DEF Destroyed, NoLink, IpLink
    <3>2. CASE c \notin Live(p)
      <4>1. f[c] = link[p][c] /\ link[p][c].at # "live"
        BY <3>2 DEF Live
      <4> QED BY <1>2, <4>1 DEF LinkKept
    <3> QED BY <3>1, <3>2
  <2>3. f \in [Conns -> IpLink]
    BY <2>2
  <2> HIDE DEF f
  <2>4. IpInv'
    BY <2>1, <2>2, <2>3, AllLinks
  <2> QED BY <1>1, <2>1, <2>4
<1> QED BY <1>3, <1>5, <1>6, <1>7, <1>8, <1>9, <1>10, <1>11 DEF Manager

\* What main and the world outside do to the links.
LEMMA OutsideKeeps ==
  ASSUME IpInv, IpAssumption, NEW p \in Ends,
         StartManager(p) \/ Dial \/ StopManager(p) \/ EndProcess(p) \/ Network
  PROVE  IpInv' /\ UNCHANGED link /\ \A q \in Ends : q # p => manager'[q] = manager[q]
<1>1. /\ IpTypeOK /\ manager \in [Ends -> ManagerState] /\ manager[p] \in ManagerState
      /\ conn \in [Conns -> {"free", "dialled", "open", "broken"}]
      /\ dialled \in 0 .. MaxDials /\ dials \in 0 .. dialled /\ MaxDials \in Nat
  BY DEF IpInv, IpTypeOK, ManagerState, IpAssumption
<1>2. UNCHANGED link
  BY DEF StartManager, Dial, StopManager, EndProcess, Network, Open, Break
<1>3. ASSUME NEW m \in ManagerState, manager' = [manager EXCEPT ![p] = m],
             UNCHANGED <<dials, dialled>>,
             conn' \in [Conns -> {"free", "dialled", "open", "broken"}],
             m.at = "purge" => m.purges \in Conns,
             m.at \in {"off", "over"} => manager[p].at \in {"off", "over"}
      PROVE  IpInv' /\ \A q \in Ends : q # p => manager'[q] = manager[q]
  BY <1>1, <1>2, <1>3, ManagerMoves
<1>4. CASE StartManager(p)
  <2> DEFINE m == [manager[p] EXCEPT !.at = "loop", !.on = TRUE, !.io = TRUE]
  <2>1. m \in ManagerState /\ m.at = "loop" /\ manager' = [manager EXCEPT ![p] = m]
    BY <1>1, <1>4 DEF StartManager, ManagerState
  <2> HIDE DEF m
  <2> QED BY <1>1, <1>2, <1>3, <1>4, <2>1 DEF StartManager
<1>5. CASE StopManager(p)
  <2> DEFINE m == [manager[p] EXCEPT !.on = FALSE, !.io = FALSE]
  <2>1. /\ m \in ManagerState /\ m.at = manager[p].at /\ m.purges = manager[p].purges
        /\ manager' = [manager EXCEPT ![p] = m]
    BY <1>1, <1>5 DEF StopManager, ManagerState
  <2> HIDE DEF m
  <2>2. m.at = "purge" => m.purges \in Conns
    BY <2>1 DEF IpInv
  <2> QED BY <1>1, <1>2, <1>3, <1>5, <2>1, <2>2 DEF StopManager
<1>6. CASE EndProcess(p)
  <2> DEFINE m == [manager[p] EXCEPT !.at = "exited"]
  <2>1. m \in ManagerState /\ m.at = "exited" /\ manager' = [manager EXCEPT ![p] = m]
    BY <1>1, <1>6 DEF EndProcess, ManagerState
  <2> HIDE DEF m
  <2>2. conn' \in [Conns -> {"free", "dialled", "open", "broken"}]
    BY <1>1, <1>6 DEF EndProcess
  <2> QED BY <1>2, <1>3, <1>6, <2>1, <2>2 DEF EndProcess
<1>7. CASE Dial
  <2>1. dialled' \in 0 .. MaxDials /\ dials' \in 0 .. dialled' /\ UNCHANGED <<manager, conn, link>>
    BY <1>1, <1>7 DEF Dial
  <2>2. IpTypeOK'
    BY <1>1, <2>1 DEF IpTypeOK
  <2>3. \A q \in Ends, d \in Conns : LinkKept(q, d)'
    BY <2>1 DEF IpInv, LinkKept
  <2> QED BY <2>1, <2>2, <2>3 DEF IpInv
<1>8. CASE Network
  <2>1. conn' \in [Conns -> {"free", "dialled", "open", "broken"}] /\ UNCHANGED <<dials, dialled, manager, link>>
    BY <1>1, <1>8 DEF Network, Open, Break
  <2>2. IpTypeOK'
    BY <1>1, <2>1 DEF IpTypeOK
  <2>3. \A q \in Ends, d \in Conns : LinkKept(q, d)'
    BY <2>1 DEF IpInv, LinkKept
  <2> QED BY <2>1, <2>2, <2>3 DEF IpInv
<1> QED BY <1>2, <1>4, <1>5, <1>6, <1>7, <1>8

-----------------------------------------------------------------------------
(* The USB link.                                                           *)

\* The router holds the link only while its receive thread runs, and that only while
\* there is a link; a manager that is not at work has none.
UsbInv ==
  /\ UsbTypeOK
  /\ ulink.known => ulink.receiver
  /\ ulink.receiver => ulink.there
  /\ usb.at \in {"off", "over"} => ~ulink.there

UsbState == [at : {"off", "loop", "purge", "close", "over"}, on : BOOLEAN]

\* Threads, the manager and whoever plugs cables in.
LEMMA UsbKeeps ==
  ASSUME UsbInv, UsbAssumption, UsbThreads \/ UsbManager \/ Plug \/ Unplug
  PROVE  /\ UsbInv'
         /\ Plug \/ Unplug \/ UsbThreads => UNCHANGED usb
         /\ UsbManager => usb.at # "off"
<1>1. /\ plugs \in 0 .. MaxPlugs /\ port \in 0 .. plugs /\ swapped \in BOOLEAN /\ usb \in UsbState
      /\ ulink \in [there : BOOLEAN, cable : 0 .. plugs, on : BOOLEAN, sender : BOOLEAN,
                    receiver : BOOLEAN, known : BOOLEAN]
      /\ ulink.known => ulink.receiver
      /\ ulink.receiver => ulink.there
      /\ usb.at \in {"off", "over"} => ~ulink.there
  BY DEF UsbInv, UsbTypeOK, UsbState
<1>2. MaxPlugs \in Nat /\ plugs \in Nat /\ 0 \in 0 .. plugs
  BY <1>1 DEF UsbAssumption
<1> DEFINE Links == [there : BOOLEAN, cable : 0 .. plugs, on : BOOLEAN, sender : BOOLEAN,
                     receiver : BOOLEAN, known : BOOLEAN]
<1>3. ASSUME UNCHANGED <<port, plugs, swapped>>, usb' \in UsbState, ulink' \in Links,
             ulink'.known => ulink'.receiver, ulink'.receiver => ulink'.there,
             usb'.at \in {"off", "over"} => ~ulink'.there
      PROVE  UsbInv'
  BY <1>1, <1>3 DEF UsbInv, UsbTypeOK, UsbState
<1>4. ASSUME Plug PROVE UsbInv'
  <2>1. plugs' \in 0 .. MaxPlugs /\ port' \in 0 .. plugs' /\ swapped' \in BOOLEAN /\ UNCHANGED <<usb, ulink>>
    BY <1>1, <1>2, <1>4 DEF Plug
  <2>2. ulink.cable \in 0 .. plugs'
    BY <1>1, <1>2, <1>4 DEF Plug
  <2>3. ulink' \in [there : BOOLEAN, cable : 0 .. plugs', on : BOOLEAN, sender : BOOLEAN,
                    receiver : BOOLEAN, known : BOOLEAN]
    BY <1>1, <2>1, <2>2
  <2>4. UsbTypeOK'
    BY <1>1, <2>1, <2>3 DEF UsbTypeOK, UsbState
  <2>5. ulink' = ulink /\ usb' = usb
    BY <2>1
  <2> QED BY <2>4, <2>5 DEF UsbInv
<1>5. ASSUME Unplug PROVE UsbInv'
  <2>1. UNCHANGED <<plugs, usb, ulink, swapped>> /\ port' \in 0 .. plugs
    BY <1>2, <1>5 DEF Unplug
  <2> QED BY <1>1, <2>1 DEF UsbInv, UsbTypeOK, UsbState
<1>6. ASSUME UsbThreads PROVE UsbInv'
  <2>1. /\ UNCHANGED <<port, plugs, usb, swapped>>
        /\ \/ ulink.receiver /\ ulink' = [ulink EXCEPT !.known = TRUE]
           \/ ulink' = [ulink EXCEPT !.sender = FALSE]
           \/ ulink' = [ulink EXCEPT !.receiver = FALSE, !.known = FALSE]
    BY <1>6 DEF UsbThreads, UsbReceive, UsbSendEnds, UsbReceiveEnds
  <2>2. /\ ulink' \in Links /\ (ulink'.known => ulink'.receiver)
        /\ (ulink'.receiver => ulink'.there) /\ ulink'.there = ulink.there
    BY <1>1, <2>1
  <2>3. usb' \in UsbState /\ (usb'.at \in {"off", "over"} => ~ulink'.there)
    BY <1>1, <2>1, <2>2
  <2>4. UNCHANGED <<port, plugs, swapped>>
    BY <2>1
  <2> HIDE DEF Links
  <2> QED BY <1>3, <2>2, <2>3, <2>4
<1>7. ASSUME UsbManager PROVE UsbInv'
  <2>1. NoUsbLink \in Links /\ FreshLink \in Links /\ ~NoUsbLink.there /\ FreshLink.there
        /\ ~NoUsbLink.known /\ ~NoUsbLink.receiver /\ ~FreshLink.known
    BY <1>1, <1>2 DEF NoUsbLink, FreshLink
  <2>2. /\ UNCHANGED <<port, plugs, swapped>> /\ usb.at # "off"
        /\ \/ usb.at = "loop" /\ ulink' = FreshLink /\ usb' = usb
           \/ ulink' = [ulink EXCEPT !.on = FALSE]
              /\ (usb' = [usb EXCEPT !.at = "purge"] \/ usb' = [usb EXCEPT !.at = "close"])
           \/ ulink' = NoUsbLink
              /\ (usb' = [usb EXCEPT !.at = "loop"] \/ usb' = [usb EXCEPT !.at = "over"])
    BY <1>7 DEF UsbManager, Scan, Purge, UsbClose, UsbEnd
  <2>3. usb' \in UsbState
    BY <1>1, <2>2 DEF UsbState
  <2>4. /\ ulink' \in Links /\ (ulink'.known => ulink'.receiver)
        /\ (ulink'.receiver => ulink'.there)
    BY <1>1, <2>1, <2>2
  <2>5. usb'.at \in {"off", "over"} => ~ulink'.there
    BY <1>1, <2>1, <2>2 DEF UsbState
  <2> QED BY <1>3, <2>2, <2>3, <2>4, <2>5
<1>8. Plug \/ Unplug \/ UsbThreads => UNCHANGED usb
  BY DEF Plug, Unplug, UsbThreads, UsbReceive, UsbSendEnds, UsbReceiveEnds
<1>9. UsbManager => usb.at # "off"
  BY DEF UsbManager, Scan, Purge, UsbClose, UsbEnd
<1>10. UsbInv'
  BY <1>4, <1>5, <1>6, <1>7
<1> QED BY <1>8, <1>9, <1>10

-----------------------------------------------------------------------------
(* The main function.                                                      *)

\* Where main is tells what the kernel and the managers do.
MainInv ==
  /\ kind \in {"hub", "gui", "files"} /\ parts \subseteq {"ip", "usb"} /\ here \in Ends
  /\ main \in {"begin", "managers", "up", "stop", "stop services", "join", "done", "aborted"}
  /\ main = "begin" => kernel = "off" /\ thread[Service] = "none"
  /\ kind # "gui" => thread[Service] \in {"none", "serve"}
  /\ kind = "gui" /\ main = "managers" => kernel = "off"
  /\ kind = "gui" /\ main \in {"stop", "stop services", "join"} => kernel = "over"
  /\ "usb" \notin parts => usb.at = "off"
  /\ "ip" \notin parts => manager[here].at = "off"
  /\ main = "done" =>
       /\ kernel = "over" /\ usb.at \in {"off", "over"} /\ ~ulink.there
       /\ \A c \in Conns : link[here][c].at # "live"
       /\ windows = {}
  /\ main = "aborted" => kind = "files"

\* A node as it may be at any time.
IInv == KInv /\ WindowInv /\ IpInv /\ UsbInv /\ MainInv

LEMMA SameKernel == ASSUME KInv, UNCHANGED kernelVars PROVE KInv'
<1>1. /\ UNCHANGED <<box, kernel, krun, wake, timers, tasks, thread, run, mail, armed, asks, windows, now>>
  BY DEF kernelVars, serviceVars, taskVars
<1>2. KernelTypeOK' /\ StartedOnce' /\ Punctual' /\ box' \in Seq(Events)
  BY <1>1 DEF KInv, KernelTypeOK, StartedOnce, Punctual
<1>3. \A t \in Threads : CalledOnce(t)'
  BY <1>1 DEF KInv, CalledOnce
<1>4. \A t \in Apps : Armed(t)' /\ OneTimer(t)'
  <2> SUFFICES ASSUME NEW t \in Apps PROVE Armed(t)' /\ OneTimer(t)'
    OBVIOUS
  <2>1. Armed(t) /\ OneTimer(t)
    BY DEF KInv
  <2> QED BY <1>1, <2>1 DEF Armed, OneTimer, HasTimer, OneIn
<1> QED BY <1>2, <1>3, <1>4 DEF KInv

LEMMA SameIp == ASSUME IpInv, UNCHANGED ipVars PROVE IpInv' /\ UNCHANGED <<manager, link>>
<1>1. UNCHANGED <<dials, dialled, manager, conn, link>>
  BY DEF ipVars
<1>2. IpTypeOK' /\ \A p \in Ends, c \in Conns : LinkKept(p, c)'
  BY <1>1 DEF IpInv, IpTypeOK, LinkKept
<1> QED BY <1>1, <1>2 DEF IpInv

LEMMA SameUsb == ASSUME UsbInv, UNCHANGED usbVars PROVE UsbInv' /\ UNCHANGED <<usb, ulink>>
BY DEF UsbInv, UsbTypeOK, usbVars

\* main starts the kernel and the service.
LEMMA BeginKeeps ==
  ASSUME IInv, KernelAssumption, Begin
  PROVE  KInv'
<1>1. /\ KInv /\ main = "begin" /\ kernel = "off" /\ thread[Service] = "none"
      /\ UNCHANGED <<box, wake, timers, tasks, mail, armed, asks, windows, now>>
      /\ kernel' \in {"off", "read"} /\ (krun' = krun \/ krun' = TRUE)
      /\ (run' = run \/ run' = [run EXCEPT ![Service] = TRUE])
      /\ \/ thread' = thread
         \/ \E place \in {"begin", "serve"} : thread' = [thread EXCEPT ![Service] = place]
  BY DEF IInv, MainInv, Begin
<1>2. KernelTypeOK /\ timers = <<>> /\ StartedOnce /\ thread \in [Threads -> Places] /\ box \in Seq(Events)
  BY <1>1 DEF KInv, Punctual, KernelTypeOK, Places
<1>3. Service \in Threads /\ Service \notin Apps
  BY DEF Threads, KernelAssumption
<1>4. PICK place \in {"none", "begin", "serve"} :
        \A u \in Threads : thread'[u] = IF u = Service THEN place ELSE thread[u]
  BY <1>1, <1>2, <1>3
<1>5. KernelTypeOK'
  <2>1. thread' \in [Threads -> Places] /\ run' \in [Threads -> BOOLEAN] /\ krun' \in BOOLEAN
    <3>1. run \in [Threads -> BOOLEAN] /\ krun \in BOOLEAN
      BY <1>2 DEF KernelTypeOK
    <3>2. run' \in [Threads -> BOOLEAN]
      BY <1>1, <1>3, <3>1
    <3>3. "begin" \in Places /\ "serve" \in Places
      BY DEF Places
    <3>4. thread' \in [Threads -> Places]
      BY <1>1, <1>2, <1>3, <3>3
    <3> QED BY <1>1, <3>1, <3>2, <3>4
  <2>2. \A t \in Apps : thread'[t] # "none" => t \in tasks
    BY <1>2, <1>3, <1>4 DEF KernelTypeOK, Threads
  <2> QED BY <1>1, <1>2, <2>1, <2>2 DEF KernelTypeOK, Places
<1>6. Punctual'
  BY <1>1, <1>2 DEF Punctual
<1>7. \A u \in Threads : \/ thread'[u] = thread[u]
                         \/ /\ thread[u] \notin Waiting /\ thread'[u] \notin Waiting
                            /\ u \in Apps => thread[u] # "none"
  BY <1>1, <1>3, <1>4 DEF Waiting
<1>8. thread[Service] \in Early
  BY <1>1 DEF Early
<1>9. <<>> \in Seq(Events) /\ box' = box \o <<>> /\ \A i \in 1 .. Len(<<>>) : FALSE
  <2>1. Event("exit") \in Events
    BY DEF Event, Events
  <2> QED BY <1>1, <1>2, <2>1, Said
<1> QED BY <1>1, <1>5, <1>6, <1>7, <1>8, <1>9, QuietKeeps

\* main runs the kernel itself, or starts the managers only.
LEMMA StartManagersKeep ==
  ASSUME IInv, StartManagers
  PROVE  KInv'
<1>1. /\ KInv /\ UNCHANGED <<box, wake, timers, tasks, thread, run, mail, armed, asks, windows, now>>
      /\ \/ UNCHANGED <<kernel, krun>>
         \/ kernel = "off" /\ kernel' = "read" /\ krun' = TRUE
  BY DEF IInv, MainInv, StartManagers, OwnThread, taskVars
<1>2. KernelTypeOK'
  BY <1>1 DEF KInv, KernelTypeOK
<1>3. Punctual'
  BY <1>1 DEF KInv, Punctual
<1>4. StartedOnce' /\ box' \in Seq(Events)
  BY <1>1 DEF KInv, StartedOnce
<1>5. \A t \in Threads : CalledOnce(t)'
  BY <1>1 DEF KInv, CalledOnce
<1>6. \A t \in Apps : Armed(t)' /\ OneTimer(t)'
  <2> SUFFICES ASSUME NEW t \in Apps PROVE Armed(t)' /\ OneTimer(t)'
    OBVIOUS
  <2>1. Armed(t) /\ OneTimer(t)
    BY <1>1 DEF KInv
  <2> QED BY <1>1, <2>1 DEF Armed, OneTimer, HasTimer, OneIn
<1> QED BY <1>2, <1>3, <1>4, <1>5, <1>6 DEF KInv

\* main stops the service and tells the kernel to exit.
LEMMA StopServicesKeep ==
  ASSUME IInv, KernelAssumption, StopServices
  PROVE  KInv'
<1>1. /\ KInv /\ UNCHANGED <<kernel, wake, timers, tasks, thread, armed, asks, windows, now>>
      /\ (krun' = krun \/ krun' = FALSE)
      /\ (box' = box \/ box' = Append(box, Event("exit")))
      /\ (run' = run \/ run' = [run EXCEPT ![Service] = FALSE])
      /\ (mail' = mail \/ mail' = [mail EXCEPT ![Service] = @ \cup {"exit"}])
  BY DEF IInv, StopServices, Stopped
<1>2. KernelTypeOK /\ box \in Seq(Events) /\ Event("exit") \in Events /\ Event("exit").evt = "exit"
  BY <1>1 DEF KInv, Event, Events
<1>3. Service \in Threads /\ Service \notin Apps
  BY DEF Threads, KernelAssumption
<1>4. KernelTypeOK'
  <2>1. mail' \in MailType
    <3>1. mail \in MailType /\ mail[Service] \cup {"exit"} \in SUBSET {"exit", "timer"}
      BY <1>2, <1>3 DEF KernelTypeOK, MailType
    <3>2. mail' = mail \/ mail' = [mail EXCEPT ![Service] = mail[Service] \cup {"exit"}]
      BY <1>1
    <3> QED BY <3>1, <3>2 DEF MailType
  <2>2. run' \in [Threads -> BOOLEAN] /\ krun' \in BOOLEAN
    BY <1>1, <1>2 DEF KernelTypeOK
  <2> QED BY <1>1, <1>2, <2>1, <2>2 DEF KernelTypeOK, MailType
<1>5. Punctual'
  BY <1>1 DEF KInv, Punctual
<1>6. \A u \in Apps : "timer" \in mail'[u] <=> "timer" \in mail[u]
  <2>1. \A u \in Apps : u # Service /\ u \in Threads
    BY <1>3 DEF Threads
  <2>2. \A u \in Apps : mail'[u] = mail[u]
    BY <1>1, <1>2, <2>1 DEF KernelTypeOK
  <2> QED BY <2>2
<1>7. PICK new \in Seq(Events) : box' = box \o new /\ \A i \in 1 .. Len(new) : new[i].evt = "exit"
  <2>1. /\ <<>> \in Seq(Events) /\ box \o <<>> = box /\ \A i \in 1 .. Len(<<>>) : FALSE
        /\ <<Event("exit")>> \in Seq(Events)
        /\ box \o <<Event("exit")>> = Append(box, Event("exit"))
        /\ \A i \in 1 .. Len(<<Event("exit")>>) : <<Event("exit")>>[i] = Event("exit")
    BY <1>2, Said
  <2>2. CASE box' = box
    BY <2>1, <2>2
  <2>3. CASE box' = Append(box, Event("exit"))
    <3>1. \A i \in 1 .. Len(<<Event("exit")>>) : <<Event("exit")>>[i].evt = "exit"
      BY <1>2, <2>1
    <3> QED BY <2>1, <2>3, <3>1
  <2> QED BY <1>1, <2>2, <2>3
<1> QED BY <1>1, <1>4, <1>5, <1>6, <1>7, QuietKeeps

-----------------------------------------------------------------------------
(* A node.                                                                 *)

\* What may change in a step of a thread without main noticing.
LEMMA MainStays ==
  ASSUME IInv, main \notin {"done", "aborted"}, UNCHANGED <<main, stay>>,
         kernel' = kernel \/ kernel' = "over",
         kernel = "off" => UNCHANGED kernel,
         thread[Service] \in {"none", "serve"} => thread'[Service] = thread[Service],
         usb.at = "off" => usb'.at = "off",
         "ip" \notin parts => manager'[here] = manager[here]
  PROVE  MainInv'
<1>1. main \notin {"done", "aborted"} /\ UNCHANGED <<kind, parts, here, main>> /\ MainInv
  BY DEF IInv, stay
<1> QED BY <1>1 DEF MainInv

LEMMA InitIInv ==
  ASSUME KernelAssumption, IpAssumption, UsbAssumption, Init
  PROVE  IInv
<1>1. KInv
  <2>1. KernelInit
    BY DEF Init
  <2>2. KernelTypeOK
    <3>1. 0 \in Nat /\ 0 \in 0 .. MaxTime
      BY DEF KernelAssumption
    <3>2. thread \in [Threads -> Places] /\ \A t \in Apps : thread[t] = "none"
      BY <2>1 DEF KernelInit, Places, Threads
    <3>3. timers \in Seq(Timer) /\ tasks = {} /\ windows = {}
      BY <2>1 DEF KernelInit
    <3>4. /\ mail \in [Threads -> SUBSET {"exit", "timer"}] /\ run \in [Threads -> BOOLEAN]
          /\ armed \in [Apps -> BOOLEAN] /\ asks \in [Apps -> Nat]
      BY <2>1 DEF KernelInit
    <3>5. kernel = "off" /\ krun = FALSE /\ wake = Never /\ now = 0
      BY <2>1 DEF KernelInit
    <3> QED BY <3>1, <3>2, <3>3, <3>4, <3>5 DEF KernelTypeOK, Places
  <2>3. box = <<>> /\ box \in Seq(Events) /\ Len(box) = 0 /\ timers = <<>> /\ Len(timers) = 0
    BY <2>1 DEF KernelInit
  <2>4. StartedOnce
    BY <2>1, <2>3 DEF KernelInit, StartedOnce, Threads
  <2>5. Punctual
    BY <2>1 DEF KernelInit, Punctual
  <2>6. \A t \in Threads : CalledOnce(t)
    BY <2>1, <2>3 DEF KernelInit, CalledOnce, Waiting
  <2>7. \A t \in Apps : Armed(t) /\ OneTimer(t)
    <3>1. \A t \in Apps : ~armed[t] /\ "timer" \notin mail[t] /\ ~HasTimer(timers, t) /\ OneIn(timers, t)
      BY <2>1, <2>3 DEF KernelInit, HasTimer, OneIn, Threads
    <3> QED BY <2>3, <3>1 DEF Armed, OneTimer
  <2> QED BY <2>2, <2>3, <2>4, <2>5, <2>6, <2>7 DEF KInv
<1>2. IpInv
  <2>1. IpInit /\ MaxDials \in Nat
    BY DEF Init, IpAssumption
  <2>2. NoLink \in IpLink
    BY DEF NoLink, IpLink
  <2>3. IpTypeOK
    BY <2>1, <2>2 DEF IpInit, IpTypeOK
  <2>4. \A p \in Ends : \A c \in Conns : LinkKept(p, c)
    BY <2>1 DEF IpInit, LinkKept, NoLink
  <2> QED BY <2>1, <2>3, <2>4 DEF IpInv, IpInit
<1>3. UsbInv
  <2>1. /\ port = 0 /\ plugs = 0 /\ swapped = FALSE /\ usb = [at |-> "off", on |-> FALSE]
        /\ ulink = NoUsbLink
    BY DEF Init, UsbInit
  <2>2. 0 \in 0 .. MaxPlugs /\ 0 \in 0 .. 0
    BY DEF UsbAssumption
  <2>3. UsbTypeOK
    BY <2>1, <2>2 DEF UsbTypeOK, NoUsbLink
  <2> QED BY <2>1, <2>3 DEF UsbInv, NoUsbLink
<1>4. MainInv
  <2>1. kernel = "off" /\ thread[Service] = "none" /\ usb.at = "off" /\ manager[here].at = "off"
    BY DEF Init, KernelInit, UsbInit, IpInit, Threads
  <2> QED BY <2>1 DEF Init, MainInv
<1>5. WindowInv
  BY DEF Init, KernelInit, WindowInv, Threads, AppPlaces, ServicePlaces, AtWork
<1> QED BY <1>1, <1>2, <1>3, <1>4, <1>5 DEF IInv

\* Windows are taken in and given up by the GUI service alone.
LEMMA WindowsKept ==
  ASSUME KernelAssumption, IInv, [Next]_vars
  PROVE  WindowInv'
<1>1. KInv /\ WindowInv /\ MainInv
  BY DEF IInv
<1>2. CASE UNCHANGED <<thread, windows>>
  BY <1>1, <1>2 DEF WindowInv
<1>3. CASE UNCHANGED kernelVars
  BY <1>2, <1>3 DEF kernelVars, taskVars
<1>4. CASE KernelThread
  <2>1. Turn \/ UNCHANGED <<thread, windows>>
    BY <1>4 DEF KernelThread, EndKernel, taskVars
  <2> QED BY <1>1, <1>2, <2>1, WindowTurn
<1>5. CASE OtherTasks
  BY <1>1, <1>5, WindowTasks DEF OtherTasks
<1>6. CASE MainThread
  <2>1. CASE Begin
    <3>1. /\ thread \in [Threads -> Places] /\ Service \in Threads /\ Service \notin Apps
          /\ windows = {}
      <4>1. thread[Service] = "none"
        BY <1>1, <2>1 DEF Begin, MainInv
      <4> QED BY <1>1, <4>1 DEF KInv, KernelTypeOK, Places, Threads, KernelAssumption, WindowInv, Loop
    <3>2. \/ UNCHANGED <<thread, windows>>
          \/ \E next \in {"begin", "serve"} :
               thread' = [thread EXCEPT ![Service] = next] /\ UNCHANGED windows
      BY <2>1 DEF Begin
    <3>3. {"begin", "serve"} \subseteq ServicePlaces
      BY DEF ServicePlaces
    <3> QED BY <1>1, <1>2, <3>1, <3>2, <3>3, WindowStep
  <2>2. CASE ~Begin
    <3>1. UNCHANGED <<thread, windows>>
      BY <1>6, <2>2 DEF MainThread, Main, StartManagers, DialOut, LeaveLoop, StopManagers,
                        StopServices, Return, kernelVars, taskVars
    <3> QED BY <1>2, <3>1
  <2> QED BY <2>1, <2>2
<1>7. CASE FileThread
  BY <1>3, <1>7 DEF FileThread, EndFileService
<1>8. CASE \E p \in Ends : IpManager(p) \/ \E c \in Conns : IpSend(p, c) \/ IpReceive(p, c)
  BY <1>3, <1>8 DEF IpManager, IpSend, IpReceive
<1>9. CASE UsbThread \/ UsbManagerThread \/ Outside
  BY <1>3, <1>9 DEF UsbThread, UsbManagerThread, Outside
<1>10. CASE UNCHANGED vars
  BY <1>3, <1>10 DEF vars
<1> QED BY <1>4, <1>5, <1>6, <1>7, <1>8, <1>9, <1>10 DEF Next

LEMMA NextIInv ==
  ASSUME KernelAssumption, IpAssumption, UsbAssumption, IInv, [Next]_vars
  PROVE  IInv'
<1>0. WindowInv'
  BY WindowsKept
<1>1. KInv /\ WindowInv /\ IpInv /\ UsbInv /\ MainInv
  BY DEF IInv
<1>2. here \in Ends /\ There \in Ends
  BY <1>1 DEF MainInv, There, Other, Ends
<1>3. \A p : Runs(p) => main \notin {"done", "aborted"}
  BY DEF Runs
<1>4. ASSUME KernelThread PROVE IInv'
  <2>1. Runs(here) /\ (Turn \/ EndKernel(OwnThread)) /\ UNCHANGED <<ipVars, usbVars, main, stay>>
    BY <1>4 DEF KernelThread
  <2>2. IpInv' /\ UsbInv' /\ UNCHANGED <<manager, usb>>
    BY <1>1, <2>1, SameIp, SameUsb
  <2>3. /\ KInv' /\ tasks \subseteq tasks' /\ (kernel' = kernel \/ kernel' = "over") /\ kernel # "off"
        /\ thread[Service] \in {"none", "serve"} => thread'[Service] = thread[Service]
    <3>1. CASE Turn
      <4>1. kernel' = kernel /\ kernel # "off"
        BY <3>1 DEF Turn
      <4> QED BY <1>1, <3>1, <4>1, TurnKeeps
    <3>2. CASE EndKernel(OwnThread)
      <4>1. kernel # "off"
        BY <3>2 DEF EndKernel
      <4> QED BY <1>1, <3>2, <4>1, EndKernelKeeps
    <3> QED BY <2>1, <3>1, <3>2
  <2>5. MainInv'
    BY <1>3, <2>1, <2>2, <2>3, MainStays
  <2> QED BY <1>0, <2>2, <2>3, <2>5 DEF IInv
<1>5. ASSUME OtherTasks PROVE IInv'
  <2>1. Runs(here) /\ Tasks /\ UNCHANGED <<ipVars, usbVars, main, stay>>
    BY <1>5 DEF OtherTasks
  <2>2. IpInv' /\ UsbInv' /\ UNCHANGED <<manager, usb>>
    BY <1>1, <2>1, SameIp, SameUsb
  <2>3. /\ KInv' /\ UNCHANGED <<kernel, tasks>>
        /\ thread[Service] \in {"none", "serve"} => thread'[Service] = thread[Service]
    BY <1>1, <2>1, TasksKeep
  <2>5. MainInv'
    BY <1>3, <2>1, <2>2, <2>3, MainStays
  <2> QED BY <1>0, <2>2, <2>3, <2>5 DEF IInv
<1>6. ASSUME UNCHANGED <<kernelVars, usbVars, main, stay>>, main \notin {"done", "aborted"}, IpInv',
             "ip" \notin parts => manager'[here] = manager[here]
      PROVE  IInv'
  <2>1. KInv' /\ UsbInv' /\ UNCHANGED <<usb, kernel, thread, tasks>>
    BY <1>1, <1>6, SameKernel, SameUsb DEF kernelVars, serviceVars, taskVars
  <2>2. MainInv'
    BY <1>6, <2>1, MainStays
  <2> QED BY <1>0, <1>6, <2>1, <2>2 DEF IInv
<1>7. ASSUME UNCHANGED <<kernelVars, ipVars, main, stay>>, main \notin {"done", "aborted"}, UsbInv',
             usb.at = "off" => usb'.at = "off"
      PROVE  IInv'
  <2>1. KInv' /\ IpInv' /\ UNCHANGED <<manager, kernel, thread, tasks>>
    BY <1>1, <1>7, SameKernel, SameIp DEF kernelVars, serviceVars, taskVars
  <2>2. MainInv'
    BY <1>7, <2>1, MainStays
  <2> QED BY <1>0, <1>7, <2>1, <2>2 DEF IInv
<1>8. ASSUME NEW p \in Ends, IpManager(p) PROVE IInv'
  <2>1. Runs(p) /\ Manager(p) /\ UNCHANGED <<kernelVars, usbVars, main, stay>>
    BY <1>8 DEF IpManager
  <2>2. IpInv' /\ manager[p].at # "off" /\ \A q \in Ends : q # p => manager'[q] = manager[q]
    BY <1>1, <2>1, ManagerKeeps
  <2>3. "ip" \notin parts => manager'[here] = manager[here]
    BY <1>1, <1>2, <2>2 DEF MainInv
  <2> QED BY <1>3, <1>6, <2>1, <2>2, <2>3
<1>9. ASSUME NEW p \in Ends, NEW c \in Conns, IpSend(p, c) \/ IpReceive(p, c) PROVE IInv'
  <2>1. /\ Runs(p) /\ (SendThread(p, c) \/ ReceiveThread(p, c))
        /\ UNCHANGED <<kernelVars, usbVars, main, stay>>
    BY <1>9 DEF IpSend, IpReceive
  <2>2. IpInv' /\ UNCHANGED manager
    BY <1>1, <2>1, LinkThreads
  <2> QED BY <1>3, <1>6, <2>1, <2>2
<1>10. ASSUME UsbThread \/ UsbManagerThread PROVE IInv'
  <2>1. Runs(here) /\ (UsbThreads \/ UsbManager) /\ UNCHANGED <<kernelVars, ipVars, main, stay>>
    BY <1>10 DEF UsbThread, UsbManagerThread
  <2>2. UsbInv' /\ (usb.at = "off" => usb'.at = "off")
    BY <1>1, <2>1, UsbKeeps
  <2> QED BY <1>3, <1>7, <2>1, <2>2
<1>11. ASSUME Outside PROVE IInv'
  <2>1. main \notin {"done", "aborted"}
    BY <1>3, <1>11 DEF Outside
  <2>2. CASE (Peer \/ Network) /\ "ip" \in parts /\ UNCHANGED <<kernelVars, usbVars, main, stay>>
    <3>1. StartManager(There) \/ Dial \/ StopManager(There) \/ EndProcess(There) \/ Network
      BY <2>2 DEF Peer
    <3>2. IpInv'
      BY <1>1, <1>2, <3>1, OutsideKeeps
    <3> QED BY <1>6, <2>1, <2>2, <3>2
  <2>3. CASE (Plug \/ Unplug) /\ "usb" \in parts /\ UNCHANGED <<kernelVars, ipVars, main, stay>>
    <3>1. UsbInv' /\ UNCHANGED usb
      BY <1>1, <2>3, UsbKeeps
    <3> QED BY <1>7, <2>1, <2>3, <3>1
  <2> QED BY <1>11, <2>2, <2>3 DEF Outside
<1>12. ASSUME FileThread PROVE IInv'
  <2>1. /\ kind = "files" /\ main' = "aborted" /\ UNCHANGED <<kernelVars, usbVars, stay>>
        /\ IF "ip" \in parts THEN EndProcess(here) ELSE UNCHANGED ipVars
    BY <1>12 DEF FileThread, EndFileService
  <2>2. KInv' /\ UsbInv' /\ UNCHANGED <<usb, thread>>
    BY <1>1, <2>1, SameKernel, SameUsb DEF kernelVars, taskVars
  <2>3. IpInv' /\ ("ip" \notin parts => UNCHANGED manager)
    BY <1>1, <1>2, <2>1, SameIp, OutsideKeeps
  <2>4. UNCHANGED <<kind, parts, here>>
    BY <2>1 DEF stay
  <2>5. MainInv'
    BY <1>1, <2>1, <2>2, <2>3, <2>4 DEF MainInv
  <2> QED BY <1>0, <2>2, <2>3, <2>5 DEF IInv
<1>13. ASSUME MainThread PROVE IInv'
  <2>1. UNCHANGED <<kind, parts, here>> /\ Main
    BY <1>13 DEF MainThread, stay
  <2>2. CASE Begin
    <3>1. /\ KInv' /\ main = "begin" /\ main' = "managers" /\ UNCHANGED <<ipVars, usbVars>>
          /\ kind = "gui" => kernel' = kernel
          /\ thread' = thread \/ (kind # "gui" => thread' = [thread EXCEPT ![Service] = "serve"])
      BY <2>2, BeginKeeps DEF Begin, OwnThread
    <3>2. IpInv' /\ UsbInv' /\ UNCHANGED <<manager, usb>>
      BY <1>1, <3>1, SameIp, SameUsb
    <3>3. kind # "gui" => thread'[Service] \in {"none", "serve"}
      <4>1. Service \in DOMAIN thread
        BY <1>1 DEF KInv, KernelTypeOK, Threads
      <4> QED BY <1>1, <3>1, <4>1 DEF MainInv
    <3>4. MainInv'
      BY <1>1, <2>1, <3>1, <3>2, <3>3 DEF MainInv
    <3> QED BY <1>0, <3>1, <3>2, <3>4 DEF IInv
  <2>3. CASE StartManagers
    <3>1. /\ main' = "up" /\ UNCHANGED <<port, plugs, ulink, swapped, thread>>
          /\ IF "ip" \in parts THEN StartManager(here) ELSE UNCHANGED ipVars
          /\ IF "usb" \in parts THEN usb' = [at |-> "loop", on |-> TRUE] ELSE UNCHANGED usb
      BY <2>3 DEF StartManagers, taskVars
    <3>2. KInv'
      BY <2>3, StartManagersKeep
    <3>3. IpInv' /\ ("ip" \notin parts => UNCHANGED manager)
      BY <1>1, <1>2, <3>1, SameIp, OutsideKeeps
    <3>4. UsbInv'
      <4>1. /\ usb' \in UsbState /\ usb \in UsbState
            /\ usb'.at \in {"off", "over"} => usb'.at = usb.at
        <5>1. usb \in UsbState
          BY <1>1 DEF UsbInv, UsbTypeOK, UsbState
        <5>2. usb' = usb \/ usb' = [at |-> "loop", on |-> TRUE]
          BY <3>1
        <5>3. [at |-> "loop", on |-> TRUE] \in UsbState
          BY DEF UsbState
        <5>4. [at |-> "loop", on |-> TRUE].at = "loop"
          OBVIOUS
        <5>5. usb' = [at |-> "loop", on |-> TRUE] => usb'.at \notin {"off", "over"}
          BY <5>4
        <5> HIDE DEF UsbState
        <5>6. CASE usb' = usb
          BY <5>1, <5>6
        <5>7. CASE usb' = [at |-> "loop", on |-> TRUE]
          BY <5>1, <5>3, <5>5, <5>7
        <5> QED BY <5>2, <5>6, <5>7
      <4>2. UNCHANGED <<port, plugs, ulink, swapped>>
        BY <3>1
      <4>3. UsbTypeOK'
        BY <1>1, <4>1, <4>2 DEF UsbInv, UsbTypeOK, UsbState
      <4> QED BY <1>1, <4>1, <4>2, <4>3 DEF UsbInv
    <3>5. MainInv'
      BY <1>1, <2>1, <3>1, <3>3 DEF MainInv
    <3> QED BY <1>0, <3>2, <3>3, <3>4, <3>5 DEF IInv
  <2>4. CASE DialOut
    <3>1. Dial /\ "ip" \in parts /\ main = "up" /\ UNCHANGED <<main, kernelVars, usbVars, stay>>
      BY <2>1, <2>4 DEF DialOut, stay
    <3>2. IpInv'
      BY <1>1, <1>2, <3>1, OutsideKeeps
    <3> QED BY <1>6, <3>1, <3>2
  <2>5. CASE LeaveLoop
    <3>1. /\ main' = "stop" /\ (kind = "gui" => kernel = "over")
          /\ UNCHANGED <<kernelVars, ipVars, usbVars>> /\ UNCHANGED <<kernel, thread>>
      BY <2>5 DEF LeaveLoop, kernelVars, serviceVars, taskVars
    <3>2. KInv' /\ IpInv' /\ UsbInv' /\ UNCHANGED <<manager, usb>>
      BY <1>1, <3>1, SameKernel, SameIp, SameUsb
    <3>3. MainInv'
      BY <1>1, <2>1, <3>1, <3>2 DEF MainInv
    <3> QED BY <1>0, <3>2, <3>3 DEF IInv
  <2>6. CASE StopManagers
    <3>1. /\ main = "stop" /\ main' = "stop services" /\ UNCHANGED <<kernelVars, port, plugs, ulink, swapped>>
          /\ UNCHANGED <<kernel, thread>>
          /\ IF "ip" \in parts THEN StopManager(here) ELSE UNCHANGED ipVars
          /\ IF "usb" \in parts THEN usb' = [usb EXCEPT !.on = FALSE] ELSE UNCHANGED usb
      BY <2>6 DEF StopManagers, kernelVars, serviceVars, taskVars
    <3>2. KInv'
      BY <1>1, <3>1, SameKernel
    <3>3. IpInv' /\ ("ip" \notin parts => UNCHANGED manager)
      BY <1>1, <1>2, <3>1, SameIp, OutsideKeeps
    <3>4. usb' \in UsbState /\ usb'.at = usb.at
      BY <1>1, <3>1 DEF UsbInv, UsbTypeOK, UsbState
    <3>5. UsbInv'
      BY <1>1, <3>1, <3>4 DEF UsbInv, UsbTypeOK, UsbState
    <3>6. MainInv'
      BY <1>1, <2>1, <3>1, <3>3, <3>4 DEF MainInv
    <3> QED BY <1>0, <3>2, <3>3, <3>5, <3>6 DEF IInv
  <2>7. CASE StopServices
    <3>1. /\ main = "stop services" /\ main' = "join" /\ UNCHANGED <<ipVars, usbVars>> /\ UNCHANGED <<kernel, thread>>
      BY <2>7 DEF StopServices
    <3>2. KInv' /\ IpInv' /\ UsbInv' /\ UNCHANGED <<manager, usb>>
      BY <1>1, <2>7, <3>1, StopServicesKeep, SameIp, SameUsb
    <3>3. MainInv'
      BY <1>1, <2>1, <3>1, <3>2 DEF MainInv
    <3> QED BY <1>0, <3>2, <3>3 DEF IInv
  <2>8. CASE Return
    <3>1. /\ main = "join" /\ AllJoined /\ main' = "done"
          /\ UNCHANGED <<kernelVars, usbVars>> /\ UNCHANGED <<kernel, thread, windows>>
          /\ IF "ip" \in parts THEN EndProcess(here) ELSE UNCHANGED ipVars
      BY <2>8 DEF Return, kernelVars, serviceVars, taskVars
    <3>2. KInv' /\ UsbInv' /\ UNCHANGED <<usb, ulink>>
      BY <1>1, <3>1, SameKernel, SameUsb
    <3>3. IpInv' /\ UNCHANGED link /\ ("ip" \notin parts => UNCHANGED manager)
      BY <1>1, <1>2, <3>1, SameIp, OutsideKeeps
    <3>4. kernel = "over"
      <4>1. kind # "gui" => Over("kernel")
        BY <3>1 DEF AllJoined, Started, OwnThread
      <4> QED BY <1>1, <3>1, <4>1 DEF Over, MainInv
    <3>5. usb.at \in {"off", "over"} /\ ~ulink.there
      <4>1. "usb" \in parts => Over("usb")
        BY <3>1 DEF AllJoined, Started
      <4> QED BY <1>1, <4>1 DEF Over, MainInv, UsbInv
    <3>6. \A c \in Conns : link[here][c].at # "live"
      <4>1. "ip" \in parts => Over("ip")
        BY <3>1 DEF AllJoined, Started
      <4>2. manager[here].at \in {"off", "over"}
        BY <1>1, <4>1 DEF Over, MainInv
      <4> QED BY <1>1, <1>2, <4>2 DEF IpInv, LinkKept
    <3>7. windows = {}
      <4>1. kind = "gui" => Over("service")
        BY <3>1 DEF AllJoined, Started
      <4>2. thread[Service] \in {"none", "serve", "over"}
        BY <1>1, <4>1 DEF Over, MainInv
      <4> QED BY <1>1, <4>2 DEF WindowInv, Loop
    <3>8. MainInv'
      BY <1>1, <2>1, <3>1, <3>2, <3>3, <3>4, <3>5, <3>6, <3>7 DEF MainInv
    <3> QED BY <1>0, <3>2, <3>3, <3>8 DEF IInv
  <2> QED BY <2>1, <2>2, <2>3, <2>4, <2>5, <2>6, <2>7, <2>8 DEF Main
<1>14. ASSUME UNCHANGED vars PROVE IInv'
  <2>1. /\ UNCHANGED <<kernelVars, ipVars, usbVars>> /\ UNCHANGED <<kind, parts, here, main>>
        /\ UNCHANGED <<kernel, thread, tasks, windows>>
    BY <1>14 DEF vars, kernelVars, serviceVars, taskVars
  <2>2. KInv' /\ IpInv' /\ UsbInv' /\ UNCHANGED <<manager, link, usb, ulink>>
    BY <1>1, <2>1, SameKernel, SameIp, SameUsb
  <2>3. MainInv'
    BY <1>1, <2>1, <2>2 DEF MainInv
  <2> QED BY <1>0, <2>2, <2>3 DEF IInv
<1> QED BY <1>4, <1>5, <1>8, <1>9, <1>10, <1>11, <1>12, <1>13, <1>14 DEF Next

\* The invariant of a node holds for ever.
THEOREM Inductive == Spec => []IInv
<1>1. Init => IInv
  BY InitIInv, KernelAssumption, IpAssumption, UsbAssumption
<1>2. IInv /\ [Next]_vars => IInv'
  BY NextIInv, KernelAssumption, IpAssumption, UsbAssumption
<1> QED BY <1>1, <1>2, PTL DEF Spec

\* Every variable of a node keeps its type: the kernel's list and mailbox, the
\* managers and links, and what main has come to.
THEOREM TypeCorrect == Spec => []TypeOK
<1>1. IInv => TypeOK
  BY DEF IInv, KInv, IpInv, UsbInv, MainInv, TypeOK
<1> QED BY <1>1, Inductive, PTL

\* What is asked of the kernel is kept until it is done, whatever else is asked and
\* whenever time is up (kernel_service.cpp run, start_task, callback, timed_mail).
THEOREM KeepsRequests == Spec => []RequestsKept
<1>1. ASSUME KInv, KernelAssumption PROVE RequestsKept
  <2> SUFFICES ASSUME kernel = "read"
               PROVE  /\ \A t \in Threads : thread[t] \in Waiting => Asks(t, {"start", "callback"}) # {}
                      /\ \A i \in DOMAIN timers : timers[i].at >= now
                      /\ \A t \in Apps :
                           LET kept == {i \in DOMAIN timers : timers[i].to = t}
                           IN  /\ t \notin Cancellers => Cardinality(kept) <= 1
                               /\ armed[t] => \/ kept # {} \/ "timer" \in mail[t]
                                              \/ Asks(t, {"timer"}) # {}
    BY DEF RequestsKept
  <2>1. /\ box \in Seq(Events) /\ timers \in Seq(Timer) /\ Punctual
        /\ \A t \in Threads : CalledOnce(t)
        /\ \A t \in Apps : Armed(t) /\ OneTimer(t)
    BY <1>1 DEF KInv, KernelTypeOK
  <2>2. DOMAIN box = 1 .. Len(box) /\ DOMAIN timers = 1 .. Len(timers)
    BY <2>1
  <2>3. ASSUME NEW t \in Threads, thread[t] \in Waiting PROVE Asks(t, {"start", "callback"}) # {}
    <3>1. PICK i \in 1 .. Len(box) : IsCall(box[i], t)
      BY <2>1, <2>3 DEF CalledOnce
    <3> QED BY <2>2, <3>1 DEF Asks, IsCall
  <2>4. \A i \in DOMAIN timers : timers[i].at >= now
    <3>1. ASSUME NEW i \in 1 .. Len(timers) PROVE timers # <<>>
      BY <3>1
    <3> QED BY <2>1, <2>2, <3>1 DEF Punctual
  <2>5. ASSUME NEW t \in Apps, t \notin Cancellers
        PROVE  Cardinality({i \in DOMAIN timers : timers[i].to = t}) <= 1
    <3> DEFINE kept == {i \in DOMAIN timers : timers[i].to = t}
    <3>1. \A i, k \in kept : i = k
      BY <2>1, <2>2, <2>5 DEF OneTimer, OneIn
    <3> HIDE DEF kept
    <3>2. kept = {} => Cardinality(kept) = 0
      BY FS_EmptySet
    <3>3. ASSUME NEW i \in kept PROVE Cardinality(kept) = 1
      <4>1. kept = {i}
        BY <3>1, <3>3
      <4> QED BY <4>1, FS_Singleton
    <3>4. Cardinality(kept) <= 1
      BY <3>2, <3>3
    <3> QED BY <3>4 DEF kept
  <2>6. ASSUME NEW t \in Apps, armed[t]
        PROVE  \/ {i \in DOMAIN timers : timers[i].to = t} # {} \/ "timer" \in mail[t]
               \/ Asks(t, {"timer"}) # {}
    <3>1. CASE HasTimer(timers, t)
      BY <2>2, <3>1 DEF HasTimer
    <3>2. CASE \E i \in 1 .. Len(box) : IsAsk(box[i], t) /\ box[i].delay # 0
      BY <2>2, <3>2 DEF Asks, IsAsk
    <3> QED BY <2>1, <2>6, <3>1, <3>2 DEF Armed
  <2> QED BY <2>3, <2>4, <2>5, <2>6
<1>2. IInv => RequestsKept
  BY <1>1, KernelAssumption DEF IInv
<1> QED BY <1>2, Inductive, PTL

\* The router never holds a link that is gone, and a node that has ended has left no
\* thread and no link behind (link.cpp run_receive, ip_link.cpp run, the main
\* functions).
THEOREM LeavesNothing == Spec => []NothingLeftBehind
<1>1. IInv => NothingLeftBehind
  <2> SUFFICES ASSUME IInv PROVE NothingLeftBehind
    OBVIOUS
  <2>1. IpInv /\ UsbInv /\ MainInv /\ WindowInv
    BY DEF IInv
  <2>2. \A p \in Ends : \A c \in Conns : link[p][c].known => link[p][c].at = "live"
    BY <2>1 DEF IpInv, LinkKept
  <2> QED BY <2>1, <2>2 DEF UsbInv, MainInv, WindowInv, NothingLeftBehind
<1> QED BY <1>1, Inductive, PTL
=============================================================================
