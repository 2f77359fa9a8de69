---------------------------- MODULE ParcelsProofs ----------------------------
(***************************************************************************)
(* Proofs about the module Parcels, for any network, any number of         *)
(* messages of any length and any number of failures: no packet is lost    *)
(* unseen or doubled, and a message is given to its mailbox once and whole.*)
(***************************************************************************)
EXTENDS Parcels, FiniteSetTheorems, TLAPS

-----------------------------------------------------------------------------
(* The inductive invariant says of each packet which is the one thing that *)
(* holds it, and of everything else that it does not.                      *)

Once(s, e) ==
  \E i \in 1 .. Len(s) : s[i] = e /\ \A j \in 1 .. Len(s) : s[j] = e => j = i

Never(s, e) == \A i \in 1 .. Len(s) : s[i] # e

Holds(s, e, here) == IF here THEN Once(s, e) ELSE Never(s, e)

InQueues(p, kind, x) == \A n \in Nodes : Holds(queue[n], p, kind = "queue" /\ x = n)

InThreads(p, kind, x) == \A l \in Links : out[l] = p <=> kind = "out" /\ x = l

OnWires(p, kind, x) == \A l \in Links : Holds(wire[l], p, kind = "wire" /\ x = l)

InParcel(p, kind) == Holds(parcel[p[1]], p[2], kind = "parcel")

InMail(p, kind, x) ==
  \A i \in 1 .. Len(mail[p[1]]) : Holds(mail[p[1]][i], p[2], kind = "mail" /\ x = i)

IsLost(p, kind) == p \in lost <=> kind = "lost"

\* Packet p is at the place x of a kind, once, and nowhere else.
At(p, kind, x) ==
  /\ InQueues(p, kind, x) /\ InThreads(p, kind, x) /\ OnWires(p, kind, x)
  /\ InParcel(p, kind) /\ InMail(p, kind, x) /\ IsLost(p, kind)

Somewhere(p) ==
  \/ \E n \in Nodes : At(p, "queue", n)
  \/ \E l \in Links : At(p, "out", l) \/ At(p, "wire", l)
  \/ \E i \in 1 .. Len(mail[p[1]]) : At(p, "mail", i)
  \/ At(p, "parcel", 0) \/ At(p, "lost", 0)

Housed(p) == IF p[1] \in sent THEN Somewhere(p) ELSE At(p, "none", 0)

Resident == \A p \in Packets : Housed(p)

\* What is posted is as long as the message.
FullLength == \A m \in Msgs : \A i \in 1 .. Len(mail[m]) : Len(mail[m][i]) = Frags[m]

IInv == TypeOK /\ Resident /\ FullLength

-----------------------------------------------------------------------------
(* Sequences that hold an element once or never.                           *)

\* A sequence does not hold an element both once and never.
LEMMA NotBoth == \A s, e : ~(Once(s, e) /\ Never(s, e))
BY DEF Once, Never

LEMMA AppendOnce ==
  ASSUME NEW S, NEW s \in Seq(S), NEW e \in S
  PROVE  /\ Append(s, e) \in Seq(S)
         /\ Never(s, e) => Once(Append(s, e), e)
         /\ \A f : f # e => /\ Once(s, f) => Once(Append(s, e), f)
                            /\ Never(s, f) => Never(Append(s, e), f)
<1>1. /\ Append(s, e) \in Seq(S) /\ Len(s) \in Nat /\ Len(Append(s, e)) = Len(s) + 1
      /\ Append(s, e)[Len(s) + 1] = e
      /\ \A i \in 1 .. Len(s) : Append(s, e)[i] = s[i]
  OBVIOUS
<1>2. 1 .. Len(s) + 1 = (1 .. Len(s)) \cup {Len(s) + 1} /\ Len(s) + 1 \notin 1 .. Len(s)
  BY <1>1
<1> QED
  BY <1>1, <1>2 DEF Once, Never

LEMMA RemoveOnce ==
  ASSUME NEW S, NEW s \in Seq(S), NEW n \in 1 .. Len(s)
  PROVE  /\ RemoveAt(s, n) \in Seq(S)
         /\ Once(s, s[n]) => Never(RemoveAt(s, n), s[n])
         /\ \A f : f # s[n] => /\ Once(s, f) => Once(RemoveAt(s, n), f)
                               /\ Never(s, f) => Never(RemoveAt(s, n), f)
<1> DEFINE r == RemoveAt(s, n)
<1>1. /\ r \in Seq(S) /\ Len(s) \in Nat \ {0} /\ Len(r) = Len(s) - 1
      /\ \A i \in 1 .. Len(r) : r[i] = IF i < n THEN s[i] ELSE s[i + 1]
  <2>1. Len(s) \in Nat
    OBVIOUS
  <2>2. /\ SubSeq(s, 1, n - 1) \in Seq(S) /\ Len(SubSeq(s, 1, n - 1)) = n - 1
        /\ \A i \in 1 .. n - 1 : SubSeq(s, 1, n - 1)[i] = s[i]
    OBVIOUS
  <2>3. /\ SubSeq(s, n + 1, Len(s)) \in Seq(S) /\ Len(SubSeq(s, n + 1, Len(s))) = Len(s) - n
        /\ \A i \in 1 .. Len(s) - n : SubSeq(s, n + 1, Len(s))[i] = s[i + n]
    OBVIOUS
  <2> DEFINE a == SubSeq(s, 1, n - 1)
             b == SubSeq(s, n + 1, Len(s))
  <2>8. r = a \o b /\ a \in Seq(S) /\ b \in Seq(S)
    BY <2>2, <2>3 DEF RemoveAt
  <2> HIDE DEF a, b, r
  <2>4. /\ a \o b \in Seq(S) /\ Len(a \o b) = Len(a) + Len(b)
        /\ \A i \in 1 .. Len(a) + Len(b) :
             (a \o b)[i] = IF i <= Len(a) THEN a[i] ELSE b[i - Len(a)]
    BY <2>8
  <2>5. Len(a) = n - 1 /\ Len(b) = Len(s) - n /\ n \in 1 .. Len(s)
    BY <2>2, <2>3 DEF a, b
  <2>6. Len(a \o b) = Len(s) - 1
    BY <2>1, <2>4, <2>5
  <2>7. ASSUME NEW i \in 1 .. Len(s) - 1
        PROVE  (a \o b)[i] = IF i < n THEN s[i] ELSE s[i + 1]
    <3>1. (a \o b)[i] = IF i <= n - 1 THEN a[i] ELSE b[i - (n - 1)]
      BY <2>1, <2>4, <2>5
    <3>2. CASE i < n
      <4>1. i <= n - 1 /\ i \in 1 .. n - 1
        BY <2>1, <3>2
      <4> QED
        BY <2>2, <3>1, <3>2, <4>1 DEF a
    <3>3. CASE i >= n
      <4>1. /\ ~(i <= n - 1) /\ ~(i < n) /\ i - (n - 1) \in 1 .. Len(s) - n
            /\ (i - (n - 1)) + n = i + 1
        BY <2>1, <3>3
      <4> QED
        BY <2>3, <3>1, <4>1 DEF b
    <3>4. i < n \/ i >= n
      BY <2>1
    <3> QED
      BY <3>2, <3>3, <3>4
  <2>9. Len(s) \in Nat \ {0}
    BY <2>1
  <2> QED
    BY <2>4, <2>6, <2>7, <2>8, <2>9
<1> HIDE DEF r
<1>2. \A i \in 1 .. Len(r) : /\ i < n => i \in 1 .. Len(s) /\ r[i] = s[i] /\ i # n
                             /\ i >= n => i + 1 \in 1 .. Len(s) /\ r[i] = s[i + 1] /\ i + 1 # n
  BY <1>1
<1>3. \A i \in 1 .. Len(s) : /\ i < n => i \in 1 .. Len(r) /\ r[i] = s[i]
                             /\ i > n => i - 1 \in 1 .. Len(r) /\ r[i - 1] = s[i]
  BY <1>1
<1>4. ASSUME Once(s, s[n]) PROVE Never(r, s[n])
  <2>1. \A j \in 1 .. Len(s) : s[j] = s[n] => j = n
    BY <1>4 DEF Once
  <2>2. \A i \in 1 .. Len(r) : i < n \/ i >= n
    BY <1>1
  <2> QED
    BY <1>2, <2>1, <2>2 DEF Never
<1>5. ASSUME NEW f, f # s[n], Never(s, f) PROVE Never(r, f)
  BY <1>1, <1>2, <1>5 DEF Never
<1>6. ASSUME NEW f, f # s[n], Once(s, f) PROVE Once(r, f)
  <2>1. PICK i \in 1 .. Len(s) : s[i] = f /\ \A j \in 1 .. Len(s) : s[j] = f => j = i
    BY <1>6 DEF Once
  <2>2. i # n
    BY <1>6, <2>1
  <2>3. CASE i < n
    <3>1. i \in 1 .. Len(r) /\ r[i] = f
      BY <1>3, <2>1, <2>3
    <3>2. \A j \in 1 .. Len(r) : r[j] = f => j = i
      BY <1>1, <1>2, <2>1, <2>3
    <3> QED
      BY <3>1, <3>2 DEF Once
  <2>4. CASE i > n
    <3>1. i - 1 \in 1 .. Len(r) /\ r[i - 1] = f
      BY <1>3, <2>1, <2>4
    <3>2. \A j \in 1 .. Len(r) : r[j] = f => j = i - 1
      BY <1>1, <1>2, <2>1, <2>4
    <3> QED
      BY <3>1, <3>2 DEF Once
  <2> QED
    BY <2>2, <2>3, <2>4
<1> QED
  BY <1>1, <1>4, <1>5, <1>6 DEF r

LEMMA TailOnce ==
  ASSUME NEW S, NEW s \in Seq(S), s # <<>>
  PROVE  /\ Tail(s) \in Seq(S) /\ Head(s) \in S /\ Head(s) = s[1] /\ 1 \in 1 .. Len(s)
         /\ Once(s, Head(s)) => Never(Tail(s), Head(s))
         /\ \A f : f # Head(s) => /\ Once(s, f) => Once(Tail(s), f)
                                  /\ Never(s, f) => Never(Tail(s), f)
<1>1. /\ Len(s) \in Nat \ {0} /\ Tail(s) \in Seq(S) /\ Head(s) = s[1] /\ Head(s) \in S
      /\ Len(Tail(s)) = Len(s) - 1 /\ \A i \in 1 .. Len(s) - 1 : Tail(s)[i] = s[i + 1]
  OBVIOUS
<1>2. \A i \in 1 .. Len(Tail(s)) : i + 1 \in 1 .. Len(s) /\ Tail(s)[i] = s[i + 1] /\ i + 1 # 1
  BY <1>1
<1>3. \A i \in 1 .. Len(s) : i # 1 => i - 1 \in 1 .. Len(Tail(s)) /\ Tail(s)[i - 1] = s[i]
  BY <1>1
<1>4. Once(s, Head(s)) => Never(Tail(s), Head(s))
  BY <1>1, <1>2 DEF Once, Never
<1>5. ASSUME NEW f, f # Head(s), Never(s, f) PROVE Never(Tail(s), f)
  BY <1>1, <1>2, <1>5 DEF Never
<1>6. ASSUME NEW f, f # Head(s), Once(s, f) PROVE Once(Tail(s), f)
  <2>1. PICK i \in 1 .. Len(s) : s[i] = f /\ \A j \in 1 .. Len(s) : s[j] = f => j = i
    BY <1>6 DEF Once
  <2>2. i - 1 \in 1 .. Len(Tail(s)) /\ Tail(s)[i - 1] = f
    BY <1>1, <1>3, <1>6, <2>1
  <2>3. \A j \in 1 .. Len(Tail(s)) : Tail(s)[j] = f => j = i - 1
    BY <1>1, <1>2, <2>1
  <2> QED
    BY <2>2, <2>3 DEF Once
<1> QED
  BY <1>1, <1>4, <1>5, <1>6

LEMMA CutOnce ==
  ASSUME NEW S, NEW s \in Seq(S), NEW k \in 0 .. Len(s)
  PROVE  LET a == SubSeq(s, 1, k)
             b == SubSeq(s, k + 1, Len(s))
         IN  /\ a \in Seq(S) /\ ToSet(b) \subseteq S
             /\ \A f : Never(s, f) => Never(a, f) /\ f \notin ToSet(b)
             /\ \A f : Once(s, f) => \/ Once(a, f) /\ f \notin ToSet(b)
                                     \/ Never(a, f) /\ f \in ToSet(b)
<1> DEFINE a == SubSeq(s, 1, k)
           b == SubSeq(s, k + 1, Len(s))
<1>1. /\ a \in Seq(S) /\ Len(a) = k /\ \A i \in 1 .. k : a[i] = s[i]
      /\ Len(s) \in Nat
  OBVIOUS
<1>2. /\ b \in Seq(S) /\ Len(b) = Len(s) - k /\ \A i \in 1 .. Len(s) - k : b[i] = s[i + k]
      /\ DOMAIN b = 1 .. Len(s) - k
  OBVIOUS
<1> HIDE DEF a, b
<1>3. \A f : f \in ToSet(b) <=> \E i \in k + 1 .. Len(s) : s[i] = f
  <2>1. ASSUME NEW f, f \in ToSet(b) PROVE \E i \in k + 1 .. Len(s) : s[i] = f
    <3>1. PICK i \in 1 .. Len(s) - k : b[i] = f
      BY <1>2, <2>1 DEF ToSet
    <3>2. i + k \in k + 1 .. Len(s) /\ s[i + k] = f
      BY <1>1, <1>2, <3>1
    <3> QED BY <3>2
  <2>2. ASSUME NEW i \in k + 1 .. Len(s) PROVE s[i] \in ToSet(b)
    <3>1. i - k \in 1 .. Len(s) - k /\ (i - k) + k = i
      BY <1>1
    <3>2. b[i - k] = s[i]
      BY <1>2, <3>1
    <3> QED
      BY <1>2, <3>1, <3>2 DEF ToSet
  <2> QED
    BY <2>1, <2>2
<1>4. \A i \in 1 .. Len(s) : i \in 1 .. k \/ i \in k + 1 .. Len(s)
  BY <1>1
<1>5. \A i \in 1 .. Len(s) : ~(i \in 1 .. k /\ i \in k + 1 .. Len(s))
  BY <1>1
<1>6. 1 .. k \subseteq 1 .. Len(s) /\ k + 1 .. Len(s) \subseteq 1 .. Len(s)
  BY <1>1
<1>7. \A f : Never(s, f) => Never(a, f) /\ f \notin ToSet(b)
  BY <1>1, <1>3, <1>6 DEF Never
<1>8. ASSUME NEW f, Once(s, f)
      PROVE  \/ Once(a, f) /\ f \notin ToSet(b)
             \/ Never(a, f) /\ f \in ToSet(b)
  <2>1. PICK i \in 1 .. Len(s) : s[i] = f /\ \A j \in 1 .. Len(s) : s[j] = f => j = i
    BY <1>8 DEF Once
  <2>2. CASE i \in 1 .. k
    <3>1. a[i] = f /\ \A j \in 1 .. k : a[j] = f => j = i
      BY <1>1, <1>6, <2>1, <2>2
    <3>2. f \notin ToSet(b)
      BY <1>3, <1>5, <1>6, <2>1, <2>2
    <3> QED
      BY <1>1, <2>2, <3>1, <3>2 DEF Once
  <2>3. CASE i \in k + 1 .. Len(s)
    BY <1>1, <1>3, <1>5, <1>6, <2>1, <2>3 DEF Never
  <2> QED
    BY <1>4, <2>2, <2>3
<1>9. ToSet(b) \subseteq S
  BY <1>2 DEF ToSet
<1> QED
  BY <1>1, <1>7, <1>8, <1>9 DEF a, b

LEMMA ToSetElements ==
  ASSUME NEW S, NEW s \in Seq(S)
  PROVE  ToSet(s) \subseteq S /\ \A e : e \in ToSet(s) <=> ~Never(s, e)
<1>1. DOMAIN s = 1 .. Len(s) /\ \A i \in 1 .. Len(s) : s[i] \in S
  OBVIOUS
<1> QED
  BY <1>1 DEF ToSet, Never

-----------------------------------------------------------------------------
(* Types.                                                                  *)

LEMMA PacketParts ==
  /\ \A p \in Packets : /\ p[1] \in Msgs /\ p[2] \in 1 .. Frags[p[1]]
                        /\ p = <<p[1], p[2]>> /\ p # Idle
  /\ \A m \in Msgs : \A k \in 1 .. Frags[m] :
       <<m, k>> \in Packets /\ <<m, k>>[1] = m /\ <<m, k>>[2] = k
  /\ \A m \in Msgs : Frags[m] \in Nat \ {0} /\ From[m] \in Nodes /\ To[m] \in Nodes
<1>1. ASSUME NEW p \in Packets
      PROVE  p[1] \in Msgs /\ p[2] \in 1 .. Frags[p[1]] /\ p = <<p[1], p[2]>>
  <2>1. PICK m \in Msgs : p \in {m} \X (1 .. Frags[m])
    BY DEF Packets
  <2> QED
    BY <2>1
<1>2. ASSUME NEW m \in Msgs, NEW k \in 1 .. Frags[m]
      PROVE  <<m, k>> \in Packets
  <2>1. <<m, k>> \in {m} \X (1 .. Frags[m])
    OBVIOUS
  <2> QED
    BY <2>1 DEF Packets
<1> QED
  BY <1>1, <1>2, IdleAssumption, ParcelsAssumption

\* The slices of a message.
LEMMA Slices ==
  ASSUME NEW m \in Msgs, NEW s \in Seq(Packets)
  PROVE  LET t == [k \in 1 .. Frags[m] |-> <<m, k>>]
         IN  /\ t \in Seq(Packets) /\ Len(t) = Frags[m] /\ s \o t \in Seq(Packets)
             /\ Len(s \o t) = Len(s) + Frags[m]
             /\ \A i \in 1 .. Len(s) : (s \o t)[i] = s[i]
             /\ \A k \in 1 .. Frags[m] : (s \o t)[Len(s) + k] = <<m, k>>
<1> DEFINE t == [k \in 1 .. Frags[m] |-> <<m, k>>]
<1>1. Frags[m] \in Nat /\ \A k \in 1 .. Frags[m] : <<m, k>> \in Packets
  BY PacketParts
<1>2. t \in Seq(Packets) /\ Len(t) = Frags[m] /\ \A k \in 1 .. Frags[m] : t[k] = <<m, k>>
  BY <1>1
<1> HIDE DEF t
<1>3. /\ s \o t \in Seq(Packets) /\ Len(s) \in Nat /\ Len(s \o t) = Len(s) + Len(t)
      /\ \A i \in 1 .. Len(s) + Len(t) :
           (s \o t)[i] = IF i <= Len(s) THEN s[i] ELSE t[i - Len(s)]
  <2>1. t \in Seq(Packets) /\ s \in Seq(Packets)
    BY <1>2
  <2> QED
    BY <2>1
<1>4. ASSUME NEW i \in 1 .. Len(s) PROVE (s \o t)[i] = s[i]
  BY <1>1, <1>2, <1>3
<1>5. ASSUME NEW k \in 1 .. Frags[m] PROVE (s \o t)[Len(s) + k] = <<m, k>>
  <2>1. /\ Len(s) + k \in 1 .. Len(s) + Len(t) /\ ~(Len(s) + k <= Len(s))
        /\ (Len(s) + k) - Len(s) = k
    BY <1>1, <1>2, <1>3
  <2> QED
    BY <1>2, <1>3, <2>1
<1> QED
  BY <1>2, <1>3, <1>4, <1>5 DEF t

\* What a packet completes or is kept for.
LEMMA DeliverType ==
  ASSUME TypeOK, NEW p \in Packets, Deliver(p)
  PROVE  /\ queue' \in [Nodes -> Seq(Packets)] /\ lost' \subseteq Packets
         /\ parcel' \in [Msgs -> Seq(Nat)] /\ mail' \in [Msgs -> Seq(Seq(Nat))]
         /\ \A m \in Msgs : /\ parcel'[m] \in Seq(1 .. Frags[m])
                            /\ Len(parcel'[m]) < Frags[m]
                            /\ mail'[m] \in Seq(Seq(1 .. Frags[m]))
<1> DEFINE q == p[1]
<1>1. q \in Msgs /\ p[2] \in 1 .. Frags[q] /\ Frags[q] \in Nat \ {0}
  BY PacketParts
<1>2. CASE q \notin open
  BY <1>2 DEF Deliver, TypeOK
<1>3. CASE q \in open
  <2>1. /\ Collected(p) \in Seq(1 .. Frags[q]) /\ Collected(p) \in Seq(Nat)
        /\ Len(parcel[q]) \in Nat /\ Len(Collected(p)) = Len(parcel[q]) + 1
        /\ Len(Collected(p)) <= Frags[q]
    <3>1. parcel[q] \in Seq(1 .. Frags[q]) /\ parcel[q] \in Seq(Nat) /\ Len(parcel[q]) < Frags[q]
      BY <1>1 DEF TypeOK
    <3>2. p[2] \in Nat
      BY <1>1
    <3> QED
      BY <1>1, <3>1, <3>2 DEF Collected
  <2>2. Left(p) \in Seq(1 .. Frags[q]) /\ Left(p) \in Seq(Nat) /\ Len(Left(p)) < Frags[q]
    <3>1. CASE Complete(p)
      BY <1>1, <3>1 DEF Left
    <3>2. CASE ~Complete(p)
      <4>1. Left(p) = Collected(p)
        BY <3>2 DEF Left
      <4>2. Len(Collected(p)) # Frags[q]
        BY <3>2 DEF Complete
      <4>3. Len(Collected(p)) < Frags[q]
        BY <1>1, <2>1, <4>2
      <4> QED
        BY <2>1, <4>1, <4>3
    <3> QED
      BY <3>1, <3>2
  <2>3. parcel' = [parcel EXCEPT ![q] = Left(p)]
    BY <1>3 DEF Deliver
  <2>4. /\ parcel' \in [Msgs -> Seq(Nat)]
        /\ \A m \in Msgs : parcel'[m] \in Seq(1 .. Frags[m]) /\ Len(parcel'[m]) < Frags[m]
    BY <1>1, <2>2, <2>3 DEF TypeOK
  <2>5. /\ mail' \in [Msgs -> Seq(Seq(Nat))]
        /\ \A m \in Msgs : mail'[m] \in Seq(Seq(1 .. Frags[m]))
    <3>1. CASE Complete(p)
      <4>1. mail' = [mail EXCEPT ![q] = Append(@, Collected(p))]
        BY <1>3, <3>1 DEF Deliver
      <4>2. /\ mail[q] \in Seq(Seq(Nat)) /\ mail[q] \in Seq(Seq(1 .. Frags[q]))
            /\ mail \in [Msgs -> Seq(Seq(Nat))]
        BY <1>1 DEF TypeOK
      <4>3. /\ Append(mail[q], Collected(p)) \in Seq(Seq(Nat))
            /\ Append(mail[q], Collected(p)) \in Seq(Seq(1 .. Frags[q]))
        BY <2>1, <4>2
      <4> QED
        BY <1>1, <4>1, <4>2, <4>3 DEF TypeOK
    <3>2. CASE ~Complete(p)
      BY <1>3, <3>2 DEF Deliver, TypeOK
    <3> QED
      BY <3>1, <3>2
  <2> QED
    BY <1>3, <2>4, <2>5 DEF Deliver, TypeOK
<1> QED
  BY <1>2, <1>3

LEMMA TypeKept == TypeOK /\ [Next]_vars => TypeOK'
<1> SUFFICES ASSUME TypeOK, [Next]_vars PROVE TypeOK'
  OBVIOUS
<1>0. /\ queue \in [Nodes -> Seq(Packets)] /\ wire \in [Links -> Seq(Packets)]
      /\ \A l \in Links : Src[l] \in Nodes /\ Dst[l] \in Nodes
  BY ParcelsAssumption DEF TypeOK
<1>1. ASSUME NEW m \in Msgs, Send(m) PROVE TypeOK'
  <2>1. queue[From[m]] \in Seq(Packets) /\ From[m] \in Nodes
    BY <1>0, PacketParts
  <2>2. queue[From[m]] \o [k \in 1 .. Frags[m] |-> <<m, k>>] \in Seq(Packets)
    BY <2>1, Slices
  <2>3. queue' \in [Nodes -> Seq(Packets)]
    BY <1>0, <1>1, <2>1, <2>2 DEF Send
  <2> QED
    BY <1>1, <2>3 DEF Send, TypeOK
<1>2. ASSUME NEW m \in Msgs, Close(m) PROVE TypeOK'
  BY <1>2 DEF Close, TypeOK
<1>3. ASSUME NEW m \in Msgs, PurgeParcel(m) PROVE TypeOK'
  <2>1. {m} \X ToSet(parcel[m]) \subseteq Packets
    <3> SUFFICES ASSUME NEW k \in ToSet(parcel[m]) PROVE <<m, k>> \in Packets
      OBVIOUS
    <3>1. k \in 1 .. Frags[m]
      <4>1. parcel[m] \in Seq(1 .. Frags[m])
        BY DEF TypeOK
      <4> QED
        BY <4>1, ToSetElements
    <3> QED
      BY <3>1, PacketParts
  <2>2. <<>> \in Seq(Nat) /\ \A S : <<>> \in Seq(S)
    OBVIOUS
  <2>3. /\ parcel' \in [Msgs -> Seq(Nat)]
        /\ \A x \in Msgs : parcel'[x] \in Seq(1 .. Frags[x]) /\ Len(parcel'[x]) < Frags[x]
    <3>1. parcel' = [parcel EXCEPT ![m] = <<>>]
      BY <1>3 DEF PurgeParcel
    <3>2. Frags[m] \in Nat \ {0} /\ Len(<<>>) = 0
      BY PacketParts
    <3>3. parcel' \in [Msgs -> Seq(Nat)]
      BY <2>2, <3>1 DEF TypeOK
    <3>4. ASSUME NEW x \in Msgs
          PROVE  parcel'[x] \in Seq(1 .. Frags[x]) /\ Len(parcel'[x]) < Frags[x]
      <4>1. CASE x = m
        <5>1. parcel'[x] = <<>>
          BY <3>1, <4>1 DEF TypeOK
        <5> QED
          BY <2>2, <3>2, <4>1, <5>1
      <4>2. CASE x # m
        BY <3>1, <4>2 DEF TypeOK
      <4> QED
        BY <4>1, <4>2
    <3> QED
      BY <3>3, <3>4
  <2> QED
    BY <1>3, <2>1, <2>3 DEF PurgeParcel, TypeOK
<1>4. ASSUME NEW n \in Nodes, PurgeMessage(n) PROVE TypeOK'
  <2>1. PICK i \in 1 .. Len(queue[n]) :
          /\ queue' = [queue EXCEPT ![n] = RemoveAt(@, i)]
          /\ lost' = lost \cup {queue[n][i]}
    BY <1>4 DEF PurgeMessage
  <2>2. queue[n] \in Seq(Packets)
    BY <1>0
  <2>3. RemoveAt(queue[n], i) \in Seq(Packets) /\ queue[n][i] \in Packets
    BY <2>2, RemoveOnce
  <2> QED
    BY <1>4, <2>1, <2>3 DEF PurgeMessage, TypeOK
<1>5. ASSUME NEW l \in Links, Take(l) PROVE TypeOK'
  <2>1. PICK i \in 1 .. Len(queue[Src[l]]) :
          /\ queue' = [queue EXCEPT ![Src[l]] = RemoveAt(@, i)]
          /\ out' = [out EXCEPT ![l] = queue[Src[l]][i]]
    BY <1>5 DEF Take
  <2>2. queue[Src[l]] \in Seq(Packets)
    BY <1>0
  <2>3. RemoveAt(queue[Src[l]], i) \in Seq(Packets) /\ queue[Src[l]][i] \in Packets
    BY <2>2, RemoveOnce
  <2> QED
    BY <1>0, <1>5, <2>1, <2>3 DEF Take, TypeOK
<1>6. ASSUME NEW l \in Links, Transmit(l) PROVE TypeOK'
  <2>1. out[l] \in Packets /\ wire[l] \in Seq(Packets)
    BY <1>6 DEF Transmit, TypeOK
  <2>2. Append(wire[l], out[l]) \in Seq(Packets)
    BY <2>1
  <2> QED
    BY <1>6, <2>2 DEF Transmit, SentFrom, TypeOK
<1>7. ASSUME NEW l \in Links, EndSend(l) PROVE TypeOK'
  <2>1. out[l] # Idle => Append(queue[Src[l]], out[l]) \in Seq(Packets)
    BY <1>0 DEF TypeOK
  <2>2. queue' \in [Nodes -> Seq(Packets)]
    BY <1>0, <1>7, <2>1 DEF EndSend, Reposted
  <2> QED
    BY <1>7, <2>2 DEF EndSend, TypeOK
<1>8. ASSUME NEW l \in Links, Overwrite(l) PROVE TypeOK'
  BY <1>8 DEF Overwrite, TypeOK
<1>9. ASSUME NEW l \in Links, Receive(l) PROVE TypeOK'
  <2>1. Tail(wire[l]) \in Seq(Packets) /\ Head(wire[l]) \in Packets
    BY <1>0, <1>9, TailOnce DEF Receive
  <2>2. wire' \in [Links -> Seq(Packets)]
    BY <1>0, <1>9, <2>1 DEF Receive
  <2>3. CASE Deliver(Head(wire[l]))
    BY <1>9, <2>1, <2>2, <2>3, DeliverType DEF Receive, TypeOK
  <2>4. CASE Forward(Dst[l], Head(wire[l]))
    <3>1. Append(queue[Dst[l]], Head(wire[l])) \in Seq(Packets)
      BY <1>0, <2>1
    <3>2. queue' \in [Nodes -> Seq(Packets)]
      BY <1>0, <2>4, <3>1 DEF Forward
    <3> QED
      BY <1>9, <2>2, <2>4, <3>2 DEF Receive, Forward, TypeOK
  <2> QED
    BY <1>9, <2>3, <2>4 DEF Receive
<1>10. ASSUME NEW l \in Links, Fail(l) PROVE TypeOK'
  <2>1. PICK k \in 0 .. Len(wire[l]) :
          /\ wire' = [wire EXCEPT ![l] = SubSeq(@, 1, k)]
          /\ lost' = lost \cup ToSet(SubSeq(wire[l], k + 1, Len(wire[l])))
    BY <1>10 DEF Fail
  <2>2. wire[l] \in Seq(Packets)
    BY <1>0
  <2>3. /\ SubSeq(wire[l], 1, k) \in Seq(Packets)
        /\ ToSet(SubSeq(wire[l], k + 1, Len(wire[l]))) \subseteq Packets
    BY <2>2, CutOnce
  <2>4. fails' \in 0 .. FailLimit
    BY <1>10, ParcelsAssumption DEF Fail, TypeOK
  <2> QED
    BY <1>10, <2>1, <2>3, <2>4 DEF Fail, TypeOK
<1>11. ASSUME NEW l \in Links, Reconnect(l) PROVE TypeOK'
  BY <1>11 DEF Reconnect, TypeOK
<1>12. CASE UNCHANGED vars
  BY <1>12 DEF vars, TypeOK
<1> QED
  BY <1>1, <1>2, <1>3, <1>4, <1>5, <1>6, <1>7, <1>8, <1>9, <1>10, <1>11, <1>12
  DEF Next, SendThread

\* Every variable keeps its type, and no parcel is left complete.
THEOREM TypeCorrect == Spec => []TypeOK
<1>1. Init => TypeOK
  <2> SUFFICES ASSUME Init PROVE TypeOK
    OBVIOUS
  <2>1. \A S : <<>> \in Seq(S) /\ Len(<<>>) = 0
    OBVIOUS
  <2>2. \A m \in Msgs : 0 < Frags[m]
    BY PacketParts
  <2>3. FailLimit \in Nat
    BY ParcelsAssumption
  <2> QED
    BY <2>1, <2>2, <2>3 DEF Init, TypeOK
<1> QED
  BY <1>1, TypeKept, PTL DEF Spec

-----------------------------------------------------------------------------
(* Where a packet is, and what leaves it there.                            *)

\* What is found somewhere is there and nowhere else, and belongs to a message
\* that was sent.
LEMMA Found ==
  ASSUME NEW p, Housed(p)
  PROVE  /\ \A n \in Nodes : ~Never(queue[n], p) => At(p, "queue", n) /\ p[1] \in sent
         /\ \A l \in Links : out[l] = p => At(p, "out", l) /\ p[1] \in sent
         /\ \A l \in Links : ~Never(wire[l], p) => At(p, "wire", l) /\ p[1] \in sent
         /\ ~Never(parcel[p[1]], p[2]) => At(p, "parcel", 0) /\ p[1] \in sent
         /\ p \in lost => At(p, "lost", 0) /\ p[1] \in sent
<1>1. CASE At(p, "none", 0)
  BY <1>1 DEF At, InQueues, InThreads, OnWires, InParcel, IsLost, Holds
<1>2. CASE p[1] \in sent /\ \E n \in Nodes : At(p, "queue", n)
  BY <1>2 DEF At, InQueues, InThreads, OnWires, InParcel, IsLost, Holds
<1>3. CASE p[1] \in sent /\ \E l \in Links : At(p, "out", l)
  BY <1>3 DEF At, InQueues, InThreads, OnWires, InParcel, IsLost, Holds
<1>4. CASE p[1] \in sent /\ \E l \in Links : At(p, "wire", l)
  BY <1>4 DEF At, InQueues, InThreads, OnWires, InParcel, IsLost, Holds
<1>5. CASE p[1] \in sent /\ \E i \in 1 .. Len(mail[p[1]]) : At(p, "mail", i)
  BY <1>5 DEF At, InQueues, InThreads, OnWires, InParcel, IsLost, Holds
<1>6. CASE p[1] \in sent /\ At(p, "parcel", 0)
  BY <1>6 DEF At, InQueues, InThreads, OnWires, InParcel, IsLost, Holds
<1>7. CASE p[1] \in sent /\ At(p, "lost", 0)
  BY <1>7 DEF At, InQueues, InThreads, OnWires, InParcel, IsLost, Holds
<1> QED
  BY <1>1, <1>2, <1>3, <1>4, <1>5, <1>6, <1>7 DEF Housed, Somewhere

\* A sequence holds an element as the other does.
Same(s, t, e) == (Once(s, e) => Once(t, e)) /\ (Never(s, e) => Never(t, e))

\* A packet stays where it is if nothing that could hold it changes.
LEMMA Bystander ==
  ASSUME NEW p, Housed(p),
         \A n \in Nodes : Same(queue[n], queue'[n], p),
         \A l \in Links : out'[l] = p <=> out[l] = p,
         \A l \in Links : Same(wire[l], wire'[l], p),
         Same(parcel[p[1]], parcel'[p[1]], p[2]),
         \A i \in 1 .. Len(mail[p[1]]) :
           i \in 1 .. Len(mail'[p[1]]) /\ mail'[p[1]][i] = mail[p[1]][i],
         \A i \in 1 .. Len(mail'[p[1]]) :
           i \in 1 .. Len(mail[p[1]]) \/ Never(mail'[p[1]][i], p[2]),
         p \in lost' <=> p \in lost,
         p[1] \in sent' <=> p[1] \in sent
  PROVE  Housed(p)'
<1>1. ASSUME NEW k, NEW x, At(p, k, x),
             k = "mail" => x \in 1 .. Len(mail[p[1]])
      PROVE  At(p, k, x)'
  <2>1. InQueues(p, k, x)' /\ OnWires(p, k, x)' /\ InParcel(p, k)'
    BY <1>1 DEF At, InQueues, OnWires, InParcel, Holds, Same
  <2>2. InThreads(p, k, x)' /\ IsLost(p, k)'
    BY <1>1 DEF At, InThreads, IsLost
  <2>3. InMail(p, k, x)'
    <3> SUFFICES ASSUME NEW i \in 1 .. Len(mail'[p[1]])
                 PROVE  Holds(mail'[p[1]][i], p[2], k = "mail" /\ x = i)
      BY DEF InMail, Holds, Once, Never
    <3>1. CASE i \in 1 .. Len(mail[p[1]])
      BY <1>1, <3>1 DEF At, InMail
    <3>2. CASE i \notin 1 .. Len(mail[p[1]])
      BY <1>1, <3>2 DEF Holds
    <3> QED
      BY <3>1, <3>2
  <2> QED
    BY <2>1, <2>2, <2>3 DEF At
<1>2. CASE p[1] \notin sent
  BY <1>1, <1>2 DEF Housed
<1>3. CASE p[1] \in sent
  <2>1. ASSUME NEW n \in Nodes, At(p, "queue", n) PROVE Somewhere(p)'
    BY <1>1, <2>1 DEF Somewhere
  <2>2. ASSUME NEW l \in Links, At(p, "out", l) \/ At(p, "wire", l) PROVE Somewhere(p)'
    BY <1>1, <2>2 DEF Somewhere
  <2>3. ASSUME NEW i \in 1 .. Len(mail[p[1]]), At(p, "mail", i) PROVE Somewhere(p)'
    <3>1. At(p, "mail", i)' /\ i \in 1 .. Len(mail'[p[1]])
      BY <1>1, <2>3
    <3> QED
      BY <3>1 DEF Somewhere
  <2>4. At(p, "parcel", 0) \/ At(p, "lost", 0) => Somewhere(p)'
    BY <1>1 DEF Somewhere
  <2>5. Somewhere(p)'
    BY <1>3, <2>1, <2>2, <2>3, <2>4 DEF Housed, Somewhere
  <2> QED
    BY <1>3, <2>5 DEF Housed
<1> QED
  BY <1>2, <1>3

LEMMA SameSame == \A s, e : Same(s, s, e)
BY DEF Same

\* One packet more, at the end of a queue or on a wire.
LEMMA AppendSame ==
  ASSUME NEW S, NEW s \in Seq(S), NEW e \in S, NEW f, f # e
  PROVE  Same(s, Append(s, e), f)
BY AppendOnce DEF Same

LEMMA RemoveSame ==
  ASSUME NEW S, NEW s \in Seq(S), NEW n \in 1 .. Len(s)
  PROVE  /\ Once(s, s[n]) => Never(RemoveAt(s, n), s[n])
         /\ \A f : f # s[n] => Same(s, RemoveAt(s, n), f)
BY RemoveOnce DEF Same

\* The slices of a message are in the queue, each once.
LEMMA SliceOnce ==
  ASSUME NEW m \in Msgs, NEW s \in Seq(Packets), NEW p \in Packets
  PROVE  LET t == [k \in 1 .. Frags[m] |-> <<m, k>>]
         IN  /\ p[1] = m /\ Never(s, p) => Once(s \o t, p)
             /\ p[1] # m => Same(s, s \o t, p)
<1> DEFINE t == [k \in 1 .. Frags[m] |-> <<m, k>>]
           u == s \o t
<1>1. /\ Len(s) \in Nat /\ Len(u) = Len(s) + Frags[m] /\ Frags[m] \in Nat \ {0}
      /\ \A i \in 1 .. Len(s) : u[i] = s[i]
      /\ \A k \in 1 .. Frags[m] : u[Len(s) + k] = <<m, k>>
  BY Slices, PacketParts
<1>2. p[2] \in 1 .. Frags[p[1]] /\ p = <<p[1], p[2]>>
  BY PacketParts
<1> HIDE DEF u
<1>3. ASSUME NEW i \in 1 .. Len(u), i \notin 1 .. Len(s)
      PROVE  /\ i - Len(s) \in 1 .. Frags[m] /\ u[i] = <<m, i - Len(s)>>
  <2>1. i - Len(s) \in 1 .. Frags[m] /\ Len(s) + (i - Len(s)) = i
    BY <1>1, <1>3
  <2> QED
    BY <1>1, <2>1
<1>4. 1 .. Len(s) \subseteq 1 .. Len(u)
  BY <1>1
<1>5. ASSUME p[1] = m, Never(s, p) PROVE Once(u, p)
  <2> DEFINE i == Len(s) + p[2]
  <2>1. i \in 1 .. Len(u) /\ u[i] = p
    <3>1. p[2] \in 1 .. Frags[m] /\ p = <<m, p[2]>>
      BY <1>2, <1>5
    <3>2. u[i] = p
      BY <1>1, <3>1
    <3>3. i \in 1 .. Len(u)
      BY <1>1, <3>1
    <3> QED
      BY <3>2, <3>3
  <2>2. ASSUME NEW j \in 1 .. Len(u), u[j] = p PROVE j = i
    <3>1. j \notin 1 .. Len(s)
      BY <1>1, <1>5, <2>2 DEF Never
    <3>2. p[2] = j - Len(s)
      BY <1>3, <2>2, <3>1
    <3> QED
      BY <1>1, <3>2
  <2> QED
    BY <2>1, <2>2 DEF Once
<1>6. ASSUME p[1] # m PROVE Same(s, u, p)
  <2>1. \A i \in 1 .. Len(u) : u[i] = p => i \in 1 .. Len(s)
    BY <1>2, <1>3, <1>6
  <2>2. Never(s, p) => Never(u, p)
    BY <1>1, <2>1 DEF Never
  <2>3. Once(s, p) => Once(u, p)
    BY <1>1, <1>4, <2>1 DEF Once
  <2> QED
    BY <2>2, <2>3 DEF Same
<1> QED
  BY <1>5, <1>6 DEF u

-----------------------------------------------------------------------------
(* The steps.                                                              *)

\* What every step needs of the state it starts from.
LEMMA Sequences ==
  ASSUME TypeOK
  PROVE  /\ queue \in [Nodes -> Seq(Packets)] /\ out \in [Links -> Packets \cup {Idle}]
         /\ wire \in [Links -> Seq(Packets)]
         /\ parcel \in [Msgs -> Seq(Nat)] /\ mail \in [Msgs -> Seq(Seq(Nat))]
         /\ \A l \in Links : Src[l] \in Nodes /\ Dst[l] \in Nodes
BY ParcelsAssumption DEF TypeOK

LEMMA SendStep ==
  ASSUME TypeOK, Resident, NEW m \in Msgs, Send(m)
  PROVE  Resident'
<1> DEFINE n == From[m]
           t == [k \in 1 .. Frags[m] |-> <<m, k>>]
<1>1. n \in Nodes /\ queue[n] \in Seq(Packets)
  BY Sequences, PacketParts
<1>2. /\ queue'[n] = queue[n] \o t
      /\ \A x \in Nodes : x # n => queue'[x] = queue[x]
      /\ sent' = sent \cup {m} /\ m \notin sent
      /\ UNCHANGED <<out, wire, parcel, mail, lost>>
  BY <1>1, Sequences DEF Send
<1> HIDE DEF n, t
<1> SUFFICES ASSUME NEW p \in Packets PROVE Housed(p)'
  BY DEF Resident
<1>3. Housed(p)
  BY DEF Resident
<1>4. CASE p[1] # m
  <2>1. Same(queue[n], queue'[n], p)
    BY <1>1, <1>2, <1>4, SliceOnce DEF t
  <2> QED
    BY <1>2, <1>3, <1>4, <2>1, SameSame, Bystander
<1>5. CASE p[1] = m
  <2>1. At(p, "none", 0)
    BY <1>2, <1>3, <1>5 DEF Housed
  <2>2. Never(queue[n], p)
    BY <1>1, <2>1 DEF At, InQueues, Holds
  <2>3. Once(queue'[n], p)
    BY <1>1, <1>2, <1>5, <2>2, SliceOnce DEF t
  <2>4. InQueues(p, "queue", n)'
    BY <1>2, <2>1, <2>3 DEF At, InQueues, Holds
  <2>5. At(p, "queue", n)'
    BY <1>2, <2>1, <2>4 DEF At, InThreads, OnWires, InParcel, InMail, IsLost, Holds
  <2> QED
    BY <1>1, <1>2, <1>5, <2>5 DEF Housed, Somewhere
<1> QED
  BY <1>4, <1>5

LEMMA TakeStep ==
  ASSUME TypeOK, Resident, NEW l \in Links, Take(l)
  PROVE  Resident'
<1> DEFINE n == Src[l]
<1>1. n \in Nodes /\ queue[n] \in Seq(Packets)
  BY Sequences
<1>2. PICK i \in 1 .. Len(queue[n]) :
        /\ out' = [out EXCEPT ![l] = queue[n][i]]
        /\ queue' = [queue EXCEPT ![n] = RemoveAt(@, i)]
  BY DEF Take
<1> DEFINE q == queue[n][i]
<1>3. q \in Packets /\ out[l] = Idle /\ q # Idle
  BY <1>1, PacketParts DEF Take
<1>4. /\ queue'[n] = RemoveAt(queue[n], i)
      /\ \A x \in Nodes : x # n => queue'[x] = queue[x]
      /\ out'[l] = q /\ \A x \in Links : x # l => out'[x] = out[x]
      /\ UNCHANGED <<sent, wire, parcel, mail, lost>>
  BY <1>1, <1>2, Sequences DEF Take
<1>5. /\ Once(queue[n], q) => Never(queue'[n], q)
      /\ \A p : p # q => Same(queue[n], queue'[n], p)
  BY <1>1, <1>4, RemoveSame
<1>6. ~Never(queue[n], q)
  BY DEF Never
<1> HIDE DEF n, q
<1> SUFFICES ASSUME NEW p \in Packets PROVE Housed(p)'
  BY DEF Resident
<1>7. Housed(p) /\ p # Idle
  BY PacketParts DEF Resident
<1>8. CASE p # q
  <2>1. \A x \in Links : out'[x] = p <=> out[x] = p
    BY <1>3, <1>4, <1>7, <1>8
  <2> QED
    BY <1>4, <1>5, <1>7, <1>8, <2>1, SameSame, Bystander
<1>9. CASE p = q
  <2>1. At(p, "queue", n) /\ p[1] \in sent
    BY <1>1, <1>6, <1>7, <1>9, Found
  <2>2. InQueues(p, "out", l)'
    <3>1. Once(queue[n], p)
      BY <1>1, <2>1 DEF At, InQueues, Holds
    <3> QED
      BY <1>4, <1>5, <1>9, <2>1, <3>1 DEF At, InQueues, Holds
  <2>3. InThreads(p, "out", l)'
    BY <1>4, <1>9, <2>1 DEF At, InThreads
  <2>4. At(p, "out", l)'
    BY <1>4, <2>1, <2>2, <2>3 DEF At, OnWires, InParcel, InMail, IsLost, Holds
  <2> QED
    BY <1>4, <2>1, <2>4 DEF Housed, Somewhere
<1> QED
  BY <1>8, <1>9

\* What a thread holds goes on the wire, back to the queue, or is lost.
LEMMA OutStep ==
  ASSUME TypeOK, Resident, NEW l \in Links, out[l] # Idle,
         out' = [out EXCEPT ![l] = Idle], UNCHANGED <<sent, parcel, mail>>,
         \/ /\ wire' = [wire EXCEPT ![l] = Append(@, out[l])]
            /\ UNCHANGED <<queue, lost>>
         \/ /\ queue' = [queue EXCEPT ![Src[l]] = Append(@, out[l])]
            /\ UNCHANGED <<wire, lost>>
         \/ /\ lost' = lost \cup {out[l]}
            /\ UNCHANGED <<queue, wire>>
  PROVE  Resident'
<1> DEFINE q == out[l]
           n == Src[l]
<1>1. /\ q \in Packets /\ q # Idle
      /\ n \in Nodes /\ queue[n] \in Seq(Packets) /\ wire[l] \in Seq(Packets)
  BY Sequences
<1>2. out'[l] = Idle /\ \A x \in Links : x # l => out'[x] = out[x]
  BY Sequences
<1>3. \/ /\ wire'[l] = Append(wire[l], q)
         /\ \A x \in Links : x # l => wire'[x] = wire[x]
         /\ UNCHANGED <<queue, lost>>
      \/ /\ queue'[n] = Append(queue[n], q)
         /\ \A x \in Nodes : x # n => queue'[x] = queue[x]
         /\ UNCHANGED <<wire, lost>>
      \/ lost' = lost \cup {q} /\ UNCHANGED <<queue, wire>>
  BY <1>1, Sequences
<1> HIDE DEF q, n
<1>7. out[l] = q
  BY DEF q
<1> SUFFICES ASSUME NEW p \in Packets PROVE Housed(p)'
  BY DEF Resident
<1>4. Housed(p) /\ p # Idle
  BY PacketParts DEF Resident
<1>5. CASE p # q
  <2>1. \A x \in Links : out'[x] = p <=> out[x] = p
    BY <1>2, <1>4, <1>5, <1>7
  <2>2. \A x \in Links : Same(wire[x], wire'[x], p)
    BY <1>1, <1>3, <1>5, AppendSame, SameSame
  <2>3. \A x \in Nodes : Same(queue[x], queue'[x], p)
    <3>1. Same(queue[n], Append(queue[n], q), p)
      BY <1>1, <1>5, AppendSame
    <3> QED
      BY <1>3, <3>1, SameSame
  <2>4. p \in lost' <=> p \in lost
    BY <1>3, <1>5
  <2> QED
    BY <1>4, <2>1, <2>2, <2>3, <2>4, SameSame, Bystander
<1>6. CASE p = q
  <2>1. At(p, "out", l) /\ p[1] \in sent
    BY <1>4, <1>6, <1>7, Found
  <2>2. InThreads(p, "none", 0)'
    BY <1>2, <1>4, <2>1 DEF At, InThreads
  <2>3. CASE /\ wire'[l] = Append(wire[l], q)
             /\ \A x \in Links : x # l => wire'[x] = wire[x]
             /\ UNCHANGED <<queue, lost>>
    <3>1. Once(wire'[l], p)
      BY <1>1, <1>6, <2>1, <2>3, AppendOnce DEF At, OnWires, Holds
    <3>2. At(p, "wire", l)'
      BY <2>1, <2>2, <2>3, <3>1
      DEF At, InQueues, InThreads, OnWires, InParcel, InMail, IsLost, Holds
    <3> QED
      BY <2>1, <3>2 DEF Housed, Somewhere
  <2>4. CASE /\ queue'[n] = Append(queue[n], q)
             /\ \A x \in Nodes : x # n => queue'[x] = queue[x]
             /\ UNCHANGED <<wire, lost>>
    <3>1. Once(queue'[n], p)
      BY <1>1, <1>6, <2>1, <2>4, AppendOnce DEF At, InQueues, Holds
    <3>2. At(p, "queue", n)'
      BY <2>1, <2>2, <2>4, <3>1
      DEF At, InQueues, InThreads, OnWires, InParcel, InMail, IsLost, Holds
    <3> QED
      BY <1>1, <2>1, <3>2 DEF Housed, Somewhere
  <2>5. CASE lost' = lost \cup {q} /\ UNCHANGED <<queue, wire>>
    <3>1. At(p, "lost", 0)'
      BY <1>6, <2>1, <2>2, <2>5
      DEF At, InQueues, InThreads, OnWires, InParcel, InMail, IsLost, Holds
    <3> QED
      BY <2>1, <3>1 DEF Housed, Somewhere
  <2> QED
    BY <1>3, <2>3, <2>4, <2>5
<1> QED
  BY <1>5, <1>6

\* Nothing moves.
LEMMA StillStep ==
  ASSUME Resident, UNCHANGED <<sent, queue, out, wire, parcel, mail, lost>>
  PROVE  Resident'
<1> SUFFICES ASSUME NEW p \in Packets PROVE Housed(p)'
  BY DEF Resident
<1> QED
  BY SameSame, Bystander DEF Resident

LEMMA FailStep ==
  ASSUME TypeOK, Resident, NEW l \in Links, Fail(l)
  PROVE  Resident'
<1>1. wire[l] \in Seq(Packets)
  BY Sequences
<1>2. PICK k \in 0 .. Len(wire[l]) :
        /\ wire' = [wire EXCEPT ![l] = SubSeq(@, 1, k)]
        /\ lost' = lost \cup ToSet(SubSeq(wire[l], k + 1, Len(wire[l])))
  BY DEF Fail
<1> DEFINE a == SubSeq(wire[l], 1, k)
           b == SubSeq(wire[l], k + 1, Len(wire[l]))
<1>3. /\ wire'[l] = a /\ \A x \in Links : x # l => wire'[x] = wire[x]
      /\ lost' = lost \cup ToSet(b)
      /\ UNCHANGED <<sent, queue, out, parcel, mail>>
  BY <1>2, Sequences DEF Fail
<1>4. /\ \A f : Never(wire[l], f) => Never(a, f) /\ f \notin ToSet(b)
      /\ \A f : Once(wire[l], f) => \/ Once(a, f) /\ f \notin ToSet(b)
                                    \/ Never(a, f) /\ f \in ToSet(b)
  BY <1>1, CutOnce
<1> HIDE DEF a, b
<1> SUFFICES ASSUME NEW p \in Packets PROVE Housed(p)'
  BY DEF Resident
<1>5. Housed(p)
  BY DEF Resident
<1>6. CASE Never(wire[l], p)
  <2>1. \A x \in Links : Same(wire[x], wire'[x], p)
    BY <1>3, <1>4, <1>6, NotBoth, SameSame DEF Same
  <2>2. p \in lost' <=> p \in lost
    BY <1>3, <1>4, <1>6
  <2> QED
    BY <1>3, <1>5, <2>1, <2>2, SameSame, Bystander
<1>7. CASE ~Never(wire[l], p)
  <2>1. At(p, "wire", l) /\ p[1] \in sent
    BY <1>5, <1>7, Found
  <2>2. Once(wire[l], p)
    BY <2>1 DEF At, OnWires, Holds
  <2>3. CASE Once(a, p) /\ p \notin ToSet(b)
    <3>1. At(p, "wire", l)'
      BY <1>3, <2>1, <2>3
      DEF At, InQueues, InThreads, OnWires, InParcel, InMail, IsLost, Holds
    <3> QED
      BY <1>3, <2>1, <3>1 DEF Housed, Somewhere
  <2>4. CASE Never(a, p) /\ p \in ToSet(b)
    <3>1. At(p, "lost", 0)'
      BY <1>3, <2>1, <2>4
      DEF At, InQueues, InThreads, OnWires, InParcel, InMail, IsLost, Holds
    <3> QED
      BY <1>3, <2>1, <3>1 DEF Housed, Somewhere
  <2> QED
    BY <1>4, <2>2, <2>3, <2>4
<1> QED
  BY <1>6, <1>7

LEMMA PurgeMessageStep ==
  ASSUME TypeOK, Resident, NEW n \in Nodes, PurgeMessage(n)
  PROVE  Resident'
<1>1. queue[n] \in Seq(Packets)
  BY Sequences
<1>2. PICK i \in 1 .. Len(queue[n]) :
        /\ queue' = [queue EXCEPT ![n] = RemoveAt(@, i)]
        /\ lost' = lost \cup {queue[n][i]}
  BY DEF PurgeMessage
<1> DEFINE q == queue[n][i]
<1>3. /\ queue'[n] = RemoveAt(queue[n], i)
      /\ \A x \in Nodes : x # n => queue'[x] = queue[x]
      /\ lost' = lost \cup {q}
      /\ UNCHANGED <<sent, out, wire, parcel, mail>>
  BY <1>2, Sequences DEF PurgeMessage
<1>4. /\ Once(queue[n], q) => Never(queue'[n], q)
      /\ \A p : p # q => Same(queue[n], queue'[n], p)
  BY <1>1, <1>3, RemoveSame
<1>5. ~Never(queue[n], q)
  BY DEF Never
<1> HIDE DEF q
<1> SUFFICES ASSUME NEW p \in Packets PROVE Housed(p)'
  BY DEF Resident
<1>6. Housed(p)
  BY DEF Resident
<1>7. CASE p # q
  <2>1. p \in lost' <=> p \in lost
    BY <1>3, <1>7
  <2> QED
    BY <1>3, <1>4, <1>6, <1>7, <2>1, SameSame, Bystander
<1>8. CASE p = q
  <2>1. At(p, "queue", n) /\ p[1] \in sent
    BY <1>5, <1>6, <1>8, Found
  <2>2. Once(queue[n], p)
    BY <2>1 DEF At, InQueues, Holds
  <2>3. At(p, "lost", 0)'
    BY <1>3, <1>4, <1>8, <2>1, <2>2
    DEF At, InQueues, InThreads, OnWires, InParcel, InMail, IsLost, Holds
  <2> QED
    BY <1>3, <2>1, <2>3 DEF Housed, Somewhere
<1> QED
  BY <1>7, <1>8

LEMMA PurgeParcelStep ==
  ASSUME TypeOK, Resident, NEW m \in Msgs, PurgeParcel(m)
  PROVE  Resident'
<1>1. /\ parcel'[m] = <<>> /\ \A x \in Msgs : x # m => parcel'[x] = parcel[x]
      /\ lost' = lost \cup ({m} \X ToSet(parcel[m]))
      /\ UNCHANGED <<sent, queue, out, wire, mail>>
  BY Sequences DEF PurgeParcel
<1> SUFFICES ASSUME NEW p \in Packets PROVE Housed(p)'
  BY DEF Resident
<1>2. Housed(p) /\ p[1] \in Msgs /\ p = <<p[1], p[2]>>
  BY PacketParts DEF Resident
<1>3. Never(parcel'[m], p[2])
  BY <1>1 DEF Never
<1>4. p[1] = m => (p \in {m} \X ToSet(parcel[m]) <=> ~Never(parcel[m], p[2]))
  <2>1. p[2] \in ToSet(parcel[m]) <=> ~Never(parcel[m], p[2])
    BY Sequences, ToSetElements
  <2> QED
    BY <1>2, <2>1
<1>5. CASE p[1] # m \/ Never(parcel[m], p[2])
  <2>1. p \in lost' <=> p \in lost
    BY <1>1, <1>2, <1>4, <1>5
  <2>2. Same(parcel[p[1]], parcel'[p[1]], p[2])
    BY <1>1, <1>2, <1>3, <1>5, NotBoth, SameSame DEF Same
  <2> QED
    BY <1>1, <1>2, <2>1, <2>2, SameSame, Bystander
<1>6. CASE p[1] = m /\ ~Never(parcel[m], p[2])
  <2>1. At(p, "parcel", 0) /\ p[1] \in sent
    BY <1>2, <1>6, Found
  <2>2. p \in lost'
    BY <1>1, <1>4, <1>6
  <2>3. At(p, "lost", 0)'
    BY <1>1, <1>3, <1>6, <2>1, <2>2
    DEF At, InQueues, InThreads, OnWires, InParcel, InMail, IsLost, Holds
  <2> QED
    BY <1>1, <2>1, <2>3 DEF Housed, Somewhere
<1> QED
  BY <1>5, <1>6

\* A packet that is read off a wire is on none.
LEMMA OffWire ==
  ASSUME TypeOK, Resident, NEW l \in Links, Receive(l)
  PROVE  LET q == Head(wire[l])
         IN  /\ q \in Packets /\ At(q, "wire", l) /\ q[1] \in sent
             /\ \A p : p # q => \A x \in Links : Same(wire[x], wire'[x], p)
             /\ \A x \in Links : Never(wire'[x], q)
             /\ UNCHANGED <<sent, out>>
<1> DEFINE q == Head(wire[l])
<1>1. wire[l] \in Seq(Packets) /\ wire[l] # <<>>
  BY Sequences DEF Receive
<1>2. /\ wire'[l] = Tail(wire[l]) /\ \A x \in Links : x # l => wire'[x] = wire[x]
      /\ UNCHANGED <<sent, out>>
  BY Sequences DEF Receive
<1>3. /\ q \in Packets /\ ~Never(wire[l], q)
      /\ Once(wire[l], q) => Never(wire'[l], q)
      /\ \A p : p # q => Same(wire[l], wire'[l], p)
  BY <1>1, <1>2, TailOnce DEF Same, Never
<1> HIDE DEF q
<1>4. At(q, "wire", l) /\ q[1] \in sent
  BY <1>3, Found DEF Resident
<1>5. \A x \in Links : Never(wire'[x], q)
  BY <1>2, <1>3, <1>4 DEF At, OnWires, Holds
<1> QED
  BY <1>2, <1>3, <1>4, <1>5, SameSame DEF q

LEMMA ForwardStep ==
  ASSUME TypeOK, Resident, NEW l \in Links, Receive(l), Forward(Dst[l], Head(wire[l]))
  PROVE  Resident'
<1> DEFINE q == Head(wire[l])
           n == Dst[l]
<1>1. /\ q \in Packets /\ At(q, "wire", l) /\ q[1] \in sent
      /\ \A p : p # q => \A x \in Links : Same(wire[x], wire'[x], p)
      /\ \A x \in Links : Never(wire'[x], q)
      /\ UNCHANGED <<sent, out>>
  BY OffWire
<1>2. n \in Nodes /\ queue[n] \in Seq(Packets)
  BY Sequences
<1>3. /\ queue'[n] = Append(queue[n], q)
      /\ \A x \in Nodes : x # n => queue'[x] = queue[x]
      /\ UNCHANGED <<parcel, mail, lost>>
  BY <1>2, Sequences DEF Forward
<1> HIDE DEF q, n
<1> SUFFICES ASSUME NEW p \in Packets PROVE Housed(p)'
  BY DEF Resident
<1>4. Housed(p)
  BY DEF Resident
<1>5. CASE p # q
  <2>1. Same(queue[n], queue'[n], p)
    BY <1>1, <1>2, <1>3, <1>5, AppendSame
  <2> QED
    BY <1>1, <1>3, <1>4, <1>5, <2>1, SameSame, Bystander
<1>6. CASE p = q
  <2>1. Once(queue'[n], p)
    BY <1>1, <1>2, <1>3, <1>6, AppendOnce DEF At, InQueues, Holds
  <2>2. At(p, "queue", n)'
    BY <1>1, <1>3, <1>6, <2>1
    DEF At, InQueues, InThreads, OnWires, InParcel, InMail, IsLost, Holds
  <2> QED
    BY <1>1, <1>2, <1>6, <2>2 DEF Housed, Somewhere
<1> QED
  BY <1>5, <1>6

\* A packet for a mailbox that is gone, or for a parcel that stays incomplete.
LEMMA CollectStep ==
  ASSUME TypeOK, Resident, NEW l \in Links, Receive(l), Deliver(Head(wire[l])),
         Head(wire[l])[1] \notin open \/ ~Complete(Head(wire[l]))
  PROVE  Resident' /\ mail' = mail
<1> DEFINE q == Head(wire[l])
           m == q[1]
<1>1. /\ q \in Packets /\ At(q, "wire", l) /\ q[1] \in sent
      /\ \A p : p # q => \A x \in Links : Same(wire[x], wire'[x], p)
      /\ \A x \in Links : Never(wire'[x], q)
      /\ UNCHANGED <<sent, out>>
  BY OffWire
<1>2. m \in Msgs /\ q[2] \in Nat /\ parcel[m] \in Seq(Nat) /\ q = <<q[1], q[2]>>
  BY <1>1, PacketParts, Sequences
<1>3. /\ mail' = mail /\ queue' = queue
      /\ \/ lost' = lost \cup {q} /\ parcel' = parcel
         \/ /\ lost' = lost /\ parcel'[m] = Append(parcel[m], q[2])
            /\ \A x \in Msgs : x # m => parcel'[x] = parcel[x]
  BY <1>2, Sequences DEF Deliver, Left, Collected
<1> HIDE DEF q
<1>4. SUFFICES ASSUME NEW p \in Packets PROVE Housed(p)'
  BY <1>3 DEF Resident
<1>5. Housed(p) /\ p = <<p[1], p[2]>> /\ p[1] \in Msgs
  BY PacketParts DEF Resident
<1>6. CASE p # q
  <2>1. p \in lost' <=> p \in lost
    BY <1>3, <1>6
  <2>2. Same(parcel[p[1]], parcel'[p[1]], p[2])
    <3>1. p[1] = m => p[2] # q[2]
      BY <1>2, <1>5, <1>6
    <3>2. p[1] = m => Same(parcel[m], Append(parcel[m], q[2]), p[2])
      BY <1>2, <3>1, AppendSame
    <3> QED
      BY <1>3, <1>5, <3>2, SameSame
  <2> QED
    BY <1>1, <1>3, <1>5, <1>6, <2>1, <2>2, SameSame, Bystander
<1>7. CASE p = q
  <2>1. CASE lost' = lost \cup {q} /\ parcel' = parcel
    <3>1. At(p, "lost", 0)'
      BY <1>1, <1>3, <1>7, <2>1
      DEF At, InQueues, InThreads, OnWires, InParcel, InMail, IsLost, Holds
    <3> QED
      BY <1>1, <1>7, <3>1 DEF Housed, Somewhere
  <2>2. CASE lost' = lost /\ parcel'[m] = Append(parcel[m], q[2])
    <3>1. Once(parcel'[p[1]], p[2])
      BY <1>1, <1>2, <1>7, <2>2, AppendOnce DEF At, InParcel, Holds
    <3>2. At(p, "parcel", 0)'
      BY <1>1, <1>3, <1>7, <2>2, <3>1
      DEF At, InQueues, InThreads, OnWires, InParcel, InMail, IsLost, Holds
    <3> QED
      BY <1>1, <1>7, <3>2 DEF Housed, Somewhere
  <2> QED
    BY <1>3, <2>1, <2>2
<1> QED
  BY <1>6, <1>7

LEMMA EmptyNever == \A e : Never(<<>>, e)
BY DEF Never

LEMMA AppendParts ==
  ASSUME NEW S, NEW s \in Seq(S), NEW e \in S, NEW n \in Nat, n = Len(s)
  PROVE  /\ Len(Append(s, e)) = n + 1 /\ Append(s, e)[n + 1] = e
         /\ \A i \in 1 .. n : i \in 1 .. n + 1 /\ Append(s, e)[i] = s[i]
         /\ \A i \in 1 .. n + 1 : i \in 1 .. n \/ i = n + 1
         /\ n + 1 \in 1 .. n + 1 /\ n + 1 \notin 1 .. n
OBVIOUS

\* The last packet of a parcel: all of them move to the mailbox together.
LEMMA PostStep ==
  ASSUME TypeOK, Resident, FullLength, NEW l \in Links, Receive(l),
         Deliver(Head(wire[l])),
         Head(wire[l])[1] \in open, Complete(Head(wire[l]))
  PROVE  Resident' /\ FullLength'
<1> DEFINE q == Head(wire[l])
           m == q[1]
           c == Append(parcel[m], q[2])
<1>1. /\ q \in Packets /\ At(q, "wire", l) /\ q[1] \in sent
      /\ \A p : p # q => \A x \in Links : Same(wire[x], wire'[x], p)
      /\ \A x \in Links : Never(wire'[x], q)
      /\ UNCHANGED <<sent, out>>
  BY OffWire
<1>2. /\ m \in Msgs /\ q[2] \in Nat /\ parcel[m] \in Seq(Nat) /\ mail[m] \in Seq(Seq(Nat))
      /\ q = <<q[1], q[2]>>
  BY <1>1, PacketParts, Sequences
<1>3. c \in Seq(Nat) /\ Len(c) = Frags[m]
  BY <1>2 DEF Complete, Collected
<1>4. /\ mail' = [mail EXCEPT ![m] = Append(mail[m], c)]
      /\ parcel' = [parcel EXCEPT ![m] = <<>>]
      /\ UNCHANGED <<queue, lost>>
  BY DEF Deliver, Left, Collected
<1> HIDE DEF q, c
<1>5. /\ mail'[m] = Append(mail[m], c) /\ parcel'[m] = <<>>
      /\ \A x \in Msgs : x # m => mail'[x] = mail[x] /\ parcel'[x] = parcel[x]
  BY <1>2, <1>4, Sequences
<1>14. PICK L \in Nat : L = Len(mail[m])
  <2>1. Len(mail[m]) \in Nat
    BY <1>2
  <2> QED BY <2>1
<1>15. mail[m] \in Seq(Seq(Nat)) /\ c \in Seq(Nat)
  BY <1>2, <1>3
<1>6. /\ Len(mail'[m]) = L + 1 /\ mail'[m][L + 1] = c
      /\ \A i \in 1 .. L : i \in 1 .. L + 1 /\ mail'[m][i] = mail[m][i]
      /\ \A i \in 1 .. L + 1 : i \in 1 .. L \/ i = L + 1
      /\ L + 1 \in 1 .. L + 1 /\ L + 1 \notin 1 .. L
  <2> DEFINE T == Seq(Nat)
             s == mail[m]
  <2>1. mail'[m] = Append(s, c) /\ s \in Seq(T) /\ c \in T /\ L = Len(s) /\ L \in Nat
    BY <1>5, <1>14, <1>15
  <2> HIDE DEF s, T
  <2>2. /\ Len(Append(s, c)) = L + 1 /\ Append(s, c)[L + 1] = c
        /\ \A i \in 1 .. L : i \in 1 .. L + 1 /\ Append(s, c)[i] = s[i]
        /\ \A i \in 1 .. L + 1 : i \in 1 .. L \/ i = L + 1
        /\ L + 1 \in 1 .. L + 1 /\ L + 1 \notin 1 .. L
    BY <2>1, AppendParts
  <2> QED BY <2>1, <2>2 DEF s
<1>7. FullLength'
  <2> SUFFICES ASSUME NEW x \in Msgs, NEW i \in 1 .. Len(mail'[x])
               PROVE  Len(mail'[x][i]) = Frags[x]
    BY DEF FullLength
  <2>1. CASE x # m
    BY <1>5, <2>1 DEF FullLength
  <2>2. CASE x = m
    BY <1>2, <1>3, <1>6, <1>14, <2>2 DEF FullLength
  <2> QED
    BY <2>1, <2>2
<1> SUFFICES ASSUME NEW p \in Packets PROVE Housed(p)'
  BY <1>7 DEF Resident
<1>8. Housed(p) /\ p = <<p[1], p[2]>> /\ p[1] \in Msgs
  BY PacketParts DEF Resident
<1>9. Never(parcel'[m], p[2])
  BY <1>5, EmptyNever
<1>10. p[1] = m /\ p # q => p[2] # q[2]
  BY <1>2, <1>8
<1>11. CASE p[1] # m
  <2>1. p # q
    BY <1>11
  <2>2. mail'[p[1]] = mail[p[1]] /\ parcel'[p[1]] = parcel[p[1]]
    BY <1>5, <1>8, <1>11
  <2> QED
    BY <1>1, <1>4, <1>8, <2>1, <2>2, SameSame, Bystander
<1>12. CASE p[1] = m /\ p # q /\ Never(parcel[m], p[2])
  <2>1. Never(c, p[2])
    BY <1>2, <1>10, <1>12, AppendOnce DEF c
  <2>2. Same(parcel[p[1]], parcel'[p[1]], p[2])
    BY <1>9, <1>12, NotBoth DEF Same
  <2>3. /\ \A i \in 1 .. Len(mail[p[1]]) :
             i \in 1 .. Len(mail'[p[1]]) /\ mail'[p[1]][i] = mail[p[1]][i]
        /\ \A i \in 1 .. Len(mail'[p[1]]) :
             i \in 1 .. Len(mail[p[1]]) \/ Never(mail'[p[1]][i], p[2])
    BY <1>6, <1>12, <1>14, <2>1
  <2> QED
    BY <1>1, <1>4, <1>8, <1>12, <2>2, <2>3, SameSame, Bystander
<1>13. CASE p[1] = m /\ (p = q \/ ~Never(parcel[m], p[2]))
  <2>1. p[1] \in sent /\ \E k, x : At(p, k, x) /\ k # "mail" /\ (k = "wire" => p = q)
    BY <1>1, <1>8, <1>13, Found
  <2>2. PICK k, x : At(p, k, x) /\ k # "mail" /\ (k = "wire" => p = q)
    BY <2>1
  <2>3. /\ p = q => At(p, "wire", l)
        /\ p # q => At(p, "parcel", 0)
    BY <1>1, <1>8, <1>13, Found
  <2>4. Once(c, p[2])
    <3>1. p = q => Never(parcel[m], p[2])
      BY <1>13, <2>3 DEF At, InParcel, Holds
    <3>2. p # q => Once(parcel[m], p[2])
      BY <1>13, <2>3 DEF At, InParcel, Holds
    <3> QED
      BY <1>2, <1>10, <1>13, <3>1, <3>2, AppendOnce DEF c
  <2>5. \A x1 \in Links : Never(wire'[x1], p)
    <3>1. p # q => \A x1 \in Links : Never(wire[x1], p)
      BY <2>3 DEF At, OnWires, Holds
    <3> QED
      BY <1>1, <3>1 DEF Same
  <2>6. InMail(p, "mail", L + 1)'
    <3> SUFFICES ASSUME NEW i \in 1 .. Len(mail'[p[1]])
                 PROVE  Holds(mail'[p[1]][i], p[2], "mail" = "mail" /\ L + 1 = i)
      BY DEF InMail, Holds, Once, Never
    <3>1. \A j \in 1 .. L : Never(mail[m][j], p[2])
      BY <1>13, <1>14, <2>2 DEF At, InMail, Holds
    <3> QED
      BY <1>6, <1>13, <2>4, <3>1 DEF Holds
  <2>7. /\ InQueues(p, "mail", L + 1)' /\ InThreads(p, "mail", L + 1)'
        /\ OnWires(p, "mail", L + 1)' /\ InParcel(p, "mail")' /\ IsLost(p, "mail")'
    BY <1>1, <1>4, <1>9, <1>13, <2>3, <2>5
    DEF At, InQueues, InThreads, OnWires, InParcel, IsLost, Holds
  <2>8. At(p, "mail", L + 1)'
    BY <2>6, <2>7 DEF At
  <2> QED
    BY <1>1, <1>6, <1>13, <2>1, <2>8 DEF Housed, Somewhere
<1> QED
  BY <1>11, <1>12, <1>13

\* Every packet of a message that was sent is in one place and in no second
\* one, and what is posted has the length of the message, for ever.
THEOREM Inductive == Spec => []IInv
<1>1. Init => Resident /\ FullLength
  <2> SUFFICES ASSUME Init PROVE Resident /\ FullLength
    OBVIOUS
  <2>1. FullLength
    BY DEF Init, FullLength
  <2>2. ASSUME NEW p \in Packets PROVE Housed(p)
    <3>1. p[1] \in Msgs /\ p # Idle /\ p[1] \notin sent
      BY PacketParts DEF Init
    <3>2. At(p, "none", 0)
      BY <3>1, EmptyNever
      DEF Init, At, InQueues, InThreads, OnWires, InParcel, InMail, IsLost, Holds
    <3> QED
      BY <3>1, <3>2 DEF Housed
  <2> QED
    BY <2>1, <2>2 DEF Resident
<1>2. IInv /\ [Next]_vars => Resident' /\ FullLength'
  <2> SUFFICES ASSUME IInv, [Next]_vars PROVE Resident' /\ FullLength'
    OBVIOUS
  <2>0. TypeOK /\ Resident /\ FullLength
    BY DEF IInv
  <2>1. mail' = mail => FullLength'
    BY <2>0 DEF FullLength
  <2>2. ASSUME NEW m \in Msgs, Send(m) PROVE Resident' /\ FullLength'
    BY <2>0, <2>1, <2>2, SendStep DEF Send
  <2>3. ASSUME NEW m \in Msgs, Close(m) PROVE Resident' /\ FullLength'
    BY <2>0, <2>1, <2>3, StillStep DEF Close
  <2>4. ASSUME NEW m \in Msgs, PurgeParcel(m) PROVE Resident' /\ FullLength'
    BY <2>0, <2>1, <2>4, PurgeParcelStep DEF PurgeParcel
  <2>5. ASSUME NEW n \in Nodes, PurgeMessage(n) PROVE Resident' /\ FullLength'
    BY <2>0, <2>1, <2>5, PurgeMessageStep DEF PurgeMessage
  <2>6. ASSUME NEW l \in Links, Take(l) PROVE Resident' /\ FullLength'
    BY <2>0, <2>1, <2>6, TakeStep DEF Take
  <2>7. ASSUME NEW l \in Links, Transmit(l) PROVE Resident' /\ FullLength'
    BY <2>0, <2>1, <2>7, OutStep DEF Transmit, SentFrom
  <2>8. ASSUME NEW l \in Links, EndSend(l) PROVE Resident' /\ FullLength'
    <3>1. CASE out[l] = Idle
      <4>1. out' = out
        BY <2>0, <2>8, <3>1 DEF EndSend, TypeOK
      <4> QED
        BY <2>0, <2>1, <2>8, <3>1, <4>1, StillStep DEF EndSend, Reposted
    <3>2. CASE out[l] # Idle
      BY <2>0, <2>1, <2>8, <3>2, OutStep DEF EndSend, Reposted
    <3> QED
      BY <3>1, <3>2
  <2>9. ASSUME NEW l \in Links, Overwrite(l) PROVE Resident' /\ FullLength'
    BY <2>0, <2>1, <2>9, OutStep DEF Overwrite
  <2>10. ASSUME NEW l \in Links, Receive(l) PROVE Resident' /\ FullLength'
    <3> DEFINE q == Head(wire[l])
    <3>1. CASE Forward(Dst[l], q)
      BY <2>0, <2>1, <2>10, <3>1, ForwardStep DEF Forward
    <3>2. CASE Deliver(q) /\ (q[1] \notin open \/ ~Complete(q))
      BY <2>0, <2>1, <2>10, <3>2, CollectStep
    <3>3. CASE Deliver(q) /\ q[1] \in open /\ Complete(q)
      BY <2>0, <2>10, <3>3, PostStep
    <3> QED
      BY <2>10, <3>1, <3>2, <3>3 DEF Receive
  <2>11. ASSUME NEW l \in Links, Fail(l) PROVE Resident' /\ FullLength'
    BY <2>0, <2>1, <2>11, FailStep DEF Fail
  <2>12. ASSUME NEW l \in Links, Reconnect(l) PROVE Resident' /\ FullLength'
    BY <2>0, <2>1, <2>12, StillStep DEF Reconnect
  <2>13. CASE UNCHANGED vars
    BY <2>0, <2>1, <2>13, StillStep DEF vars
  <2> QED
    BY <2>2, <2>3, <2>4, <2>5, <2>6, <2>7, <2>8, <2>9, <2>10, <2>11, <2>12, <2>13
    DEF Next, SendThread
<1>3. Spec => []TypeOK
  BY TypeCorrect
<1> QED
  BY <1>1, <1>2, <1>3, PTL DEF Spec, IInv

-----------------------------------------------------------------------------
(* The theorems.                                                           *)

\* One sequence of a family has an element, and once, or none has it.
LEMMA SpotsCount ==
  ASSUME NEW kind, NEW D, NEW f, NEW e
  PROVE  /\ (\A x \in D : Never(f[x], e)) => Spots(kind, D, f, e) = {}
         /\ \A n \in D : Once(f[n], e) /\ (\A x \in D : x # n => Never(f[x], e))
                           => \E place : Spots(kind, D, f, e) = {place}
<1> DEFINE Indices(x) == {j \in 1 .. Len(f[x]) : f[x][j] = e}
           U == UNION {{<<kind, x, i>> : i \in Indices(x)} : x \in D}
<1>1. \A x : Never(f[x], e) => Indices(x) = {}
  BY DEF Never
<1>2. \A u : u \in U <=> \E x \in D : \E i \in Indices(x) : u = <<kind, x, i>>
  OBVIOUS
<1>3. ASSUME \A x \in D : Never(f[x], e) PROVE U = {}
  BY <1>1, <1>2, <1>3
<1>4. ASSUME NEW n \in D, Once(f[n], e), \A x \in D : x # n => Never(f[x], e)
      PROVE  \E place : U = {place}
  <2>1. PICK i \in 1 .. Len(f[n]) : f[n][i] = e /\ \A j \in 1 .. Len(f[n]) : f[n][j] = e => j = i
    BY <1>4 DEF Once
  <2>2. Indices(n) = {i}
    BY <2>1
  <2>3. \A u : u \in U <=> u = <<kind, n, i>>
    <3> HIDE DEF U, Indices
    <3> QED
      BY <1>1, <1>2, <1>4, <2>2
  <2>4. U = {<<kind, n, i>>}
    <3> HIDE DEF U
    <3> QED
      BY <2>3
  <2> QED
    BY <2>4
<1> QED
  BY <1>3, <1>4 DEF Spots

\* Router::send, get_next_msg, run_send and run_receive neither double a packet
\* nor forget it, whatever fails and whatever is purged.
THEOREM NothingLost == Spec => []Conserved
<1>1. IInv => Conserved
  <2> SUFFICES ASSUME IInv, NEW p \in Packets
               PROVE  IF p[1] \in sent
                      THEN \E place \in Places(p) : Places(p) = {place}
                      ELSE Places(p) = {}
    BY DEF Conserved
  <2> DEFINE m == p[1]
             Q == Spots("queue", Nodes, queue, p)
             O == {<<"out", l>> : l \in {x \in Links : out[x] = p}}
             W == Spots("wire", Links, wire, p)
             C == Spots("parcel", {m}, parcel, p[2])
             M == Spots("mail", 1 .. Len(mail[m]), mail[m], p[2])
             X == IF p \in lost THEN {<<"lost">>} ELSE {}
  <2>1. Places(p) = Q \cup O \cup W \cup C \cup M \cup X
    BY Zenon DEF Places
  <2>2. /\ (\A n \in Nodes : Never(queue[n], p)) => Q = {}
        /\ \A n \in Nodes : Once(queue[n], p) /\ (\A x \in Nodes : x # n => Never(queue[x], p))
                              => \E place : Q = {place}
    BY SpotsCount
  <2>3. /\ (\A l \in Links : Never(wire[l], p)) => W = {}
        /\ \A l \in Links : Once(wire[l], p) /\ (\A x \in Links : x # l => Never(wire[x], p))
                              => \E place : W = {place}
    BY SpotsCount
  <2>4. /\ (\A i \in 1 .. Len(mail[m]) : Never(mail[m][i], p[2])) => M = {}
        /\ \A i \in 1 .. Len(mail[m]) :
             Once(mail[m][i], p[2]) /\ (\A x \in 1 .. Len(mail[m]) : x # i => Never(mail[m][x], p[2]))
               => \E place : M = {place}
    BY SpotsCount
  <2>5. /\ Never(parcel[m], p[2]) => C = {}
        /\ Once(parcel[m], p[2]) => \E place : C = {place}
    <3>1. \A x \in {m} : x = m
      OBVIOUS
    <3> QED
      BY <3>1, SpotsCount
  <2>6. /\ (\A l \in Links : out[l] # p) => O = {}
        /\ \A l \in Links : out[l] = p /\ (\A x \in Links : out[x] = p => x = l) => O = {<<"out", l>>}
    OBVIOUS
  <2>7. /\ p \notin lost => X = {}
        /\ p \in lost => X = {<<"lost">>}
    OBVIOUS
  <2>8. Housed(p)
    BY DEF IInv, Resident
  <2> HIDE DEF Q, O, W, C, M, X
  <2>9. CASE m \notin sent
    <3>1. At(p, "none", 0)
      BY <2>8, <2>9 DEF Housed
    <3> QED
      BY <2>1, <2>2, <2>3, <2>4, <2>5, <2>6, <2>7, <2>9, <3>1
      DEF At, InQueues, InThreads, OnWires, InParcel, InMail, IsLost, Holds
  <2>10. CASE m \in sent
    <3> SUFFICES \E place : Places(p) = {place}
      BY <2>10
    <3>1. ASSUME NEW n \in Nodes, At(p, "queue", n) PROVE \E place : Places(p) = {place}
      <4>1. (\E place : Q = {place}) /\ O = {} /\ W = {} /\ C = {} /\ M = {} /\ X = {}
        BY <2>2, <2>3, <2>4, <2>5, <2>6, <2>7, <3>1
        DEF At, InQueues, InThreads, OnWires, InParcel, InMail, IsLost, Holds
      <4> QED
        BY <2>1, <4>1
    <3>2. ASSUME NEW l \in Links, At(p, "out", l) PROVE \E place : Places(p) = {place}
      <4>1. O = {<<"out", l>>} /\ Q = {} /\ W = {} /\ C = {} /\ M = {} /\ X = {}
        BY <2>2, <2>3, <2>4, <2>5, <2>6, <2>7, <3>2
        DEF At, InQueues, InThreads, OnWires, InParcel, InMail, IsLost, Holds
      <4> QED
        BY <2>1, <4>1
    <3>3. ASSUME NEW l \in Links, At(p, "wire", l) PROVE \E place : Places(p) = {place}
      <4>1. (\E place : W = {place}) /\ Q = {} /\ O = {} /\ C = {} /\ M = {} /\ X = {}
        BY <2>2, <2>3, <2>4, <2>5, <2>6, <2>7, <3>3
        DEF At, InQueues, InThreads, OnWires, InParcel, InMail, IsLost, Holds
      <4> QED
        BY <2>1, <4>1
    <3>4. ASSUME At(p, "parcel", 0) PROVE \E place : Places(p) = {place}
      <4>1. (\E place : C = {place}) /\ Q = {} /\ O = {} /\ W = {} /\ M = {} /\ X = {}
        BY <2>2, <2>3, <2>4, <2>5, <2>6, <2>7, <3>4
        DEF At, InQueues, InThreads, OnWires, InParcel, InMail, IsLost, Holds
      <4> QED
        BY <2>1, <4>1
    <3>5. ASSUME NEW i \in 1 .. Len(mail[m]), At(p, "mail", i)
          PROVE  \E place : Places(p) = {place}
      <4>1. (\E place : M = {place}) /\ Q = {} /\ O = {} /\ W = {} /\ C = {} /\ X = {}
        BY <2>2, <2>3, <2>4, <2>5, <2>6, <2>7, <3>5
        DEF At, InQueues, InThreads, OnWires, InParcel, InMail, IsLost, Holds
      <4> QED
        BY <2>1, <4>1
    <3>6. ASSUME At(p, "lost", 0) PROVE \E place : Places(p) = {place}
      <4>1. X = {<<"lost">>} /\ Q = {} /\ O = {} /\ W = {} /\ C = {} /\ M = {}
        BY <2>2, <2>3, <2>4, <2>5, <2>6, <2>7, <3>6
        DEF At, InQueues, InThreads, OnWires, InParcel, InMail, IsLost, Holds
      <4> QED
        BY <2>1, <4>1
    <3> QED
      BY <2>8, <2>10, <3>1, <3>2, <3>3, <3>4, <3>5, <3>6 DEF Housed, Somewhere
  <2> QED
    BY <2>9, <2>10
<1> QED
  BY <1>1, Inductive, PTL

\* A sequence of n different numbers from 1 to n has all of them.
LEMMA AllOfThem ==
  ASSUME NEW n \in Nat \ {0}, NEW s \in Seq(1 .. n), Len(s) = n,
         \A k \in 1 .. n : Once(s, k) \/ Never(s, k)
  PROVE  ToSet(s) = 1 .. n
<1>1. DOMAIN s = 1 .. n /\ s \in [1 .. n -> 1 .. n]
  OBVIOUS
<1>2. \A i, j \in 1 .. n : s[i] = s[j] => i = j
  <2> SUFFICES ASSUME NEW i \in 1 .. n, NEW j \in 1 .. n, s[i] = s[j] PROVE i = j
    OBVIOUS
  <2>1. s[i] \in 1 .. n
    BY <1>1
  <2>2. Once(s, s[i])
    BY <2>1 DEF Never
  <2> QED
    BY <2>2 DEF Once
<1>3. s \in Injection(1 .. n, 1 .. n)
  BY <1>1, <1>2 DEF Injection, IsInjective
<1>4. IsFiniteSet(1 .. n)
  BY FS_Interval
<1>5. s \in Surjection(1 .. n, 1 .. n)
  BY <1>3, <1>4, FS_Injection
<1> QED
  BY <1>1, <1>5 DEF Surjection, ToSet

\* A mailbox is given a message once and whole: each fragment once, in whatever
\* order they came.
Intact ==
  \A m \in Msgs :
    /\ Len(mail[m]) <= 1
    /\ \A i \in 1 .. Len(mail[m]) :
         Len(mail[m][i]) = Frags[m] /\ ToSet(mail[m][i]) = 1 .. Frags[m]

LEMMA HousedIntact == IInv => Intact
<1> SUFFICES ASSUME IInv, NEW m \in Msgs
             PROVE  /\ Len(mail[m]) <= 1
                    /\ \A i \in 1 .. Len(mail[m]) :
                         Len(mail[m][i]) = Frags[m] /\ ToSet(mail[m][i]) = 1 .. Frags[m]
  BY DEF Intact
<1>1. Frags[m] \in Nat \ {0} /\ mail[m] \in Seq(Seq(1 .. Frags[m])) /\ Len(mail[m]) \in Nat
  BY PacketParts DEF IInv, TypeOK
<1>2. \A i \in 1 .. Len(mail[m]) : mail[m][i] \in Seq(1 .. Frags[m]) /\ Len(mail[m][i]) = Frags[m]
  <2>1. \A i \in 1 .. Len(mail[m]) : Len(mail[m][i]) = Frags[m]
    BY DEF IInv, FullLength
  <2>2. \A S : \A s \in Seq(S) : \A i \in 1 .. Len(s) : s[i] \in S
    OBVIOUS
  <2> QED
    BY <1>1, <2>1, <2>2
<1>3. ASSUME NEW k \in 1 .. Frags[m]
      PROVE  \/ \A i \in 1 .. Len(mail[m]) : Never(mail[m][i], k)
             \/ \E x \in 1 .. Len(mail[m]) :
                  /\ Once(mail[m][x], k)
                  /\ \A i \in 1 .. Len(mail[m]) : i # x => Never(mail[m][i], k)
  <2> DEFINE p == <<m, k>>
  <2>1. p \in Packets /\ p[1] = m /\ p[2] = k
    BY PacketParts
  <2>2. Housed(p)
    BY <2>1 DEF IInv, Resident
  <2> HIDE DEF p
  <2> QED
    BY <2>1, <2>2 DEF Housed, Somewhere, At, InMail, Holds
<1>4. ASSUME NEW i \in 1 .. Len(mail[m]) PROVE ToSet(mail[m][i]) = 1 .. Frags[m]
  <2>1. \A k \in 1 .. Frags[m] : Once(mail[m][i], k) \/ Never(mail[m][i], k)
    BY <1>3
  <2> QED
    BY <1>1, <1>2, <2>1, AllOfThem
<1>5. Len(mail[m]) <= 1
  <2> SUFFICES ASSUME ~(Len(mail[m]) <= 1) PROVE FALSE
    OBVIOUS
  <2>1. 1 \in 1 .. Len(mail[m]) /\ 2 \in 1 .. Len(mail[m]) /\ 1 \in 1 .. Frags[m]
    BY <1>1
  <2>2. ~Never(mail[m][1], 1) /\ ~Never(mail[m][2], 1)
    BY <1>2, <1>4, <2>1, ToSetElements
  <2> QED
    BY <1>3, <2>1, <2>2
<1> QED
  BY <1>2, <1>4, <1>5

\* What a mailbox is given is given once and whole.
THEOREM MailIntact == Spec => []Intact
BY HousedIntact, Inductive, PTL

-----------------------------------------------------------------------------
(* The refinement of Delivery.  What is dropped grows in many ways; that   *)
(* nothing of it was or will be delivered is seen from the invariant.      *)

Box == [m \in Msgs |-> [i \in 1 .. Len(mail[m]) |-> ToSet(mail[m][i])]]

Dropped == {p[1] : p \in lost}

\* A packet that was dropped is of a message that was sent and not delivered.
NotDelivered == \A p \in lost : p[1] \in sent /\ mail[p[1]] = <<>>

LEMMA DroppedNotDelivered == IInv => NotDelivered
<1> SUFFICES ASSUME IInv, NEW p \in lost
             PROVE  p[1] \in sent /\ mail[p[1]] = <<>>
  BY DEF NotDelivered
<1>1. p \in Packets /\ p[1] \in Msgs /\ p[2] \in 1 .. Frags[p[1]]
  BY PacketParts DEF IInv, TypeOK
<1>2. Housed(p)
  BY <1>1 DEF IInv, Resident
<1>3. p[1] \in sent
  BY <1>2 DEF Housed, At, IsLost
<1>4. InMail(p, "lost", 0)
  BY <1>2, <1>3 DEF Housed, Somewhere, At, IsLost
<1>5. ASSUME mail[p[1]] # <<>> PROVE FALSE
  <2> DEFINE s == mail[p[1]]
  <2>1. s \in Seq(Seq(1 .. Frags[p[1]]))
    BY <1>1 DEF IInv, TypeOK
  <2> HIDE DEF s
  <2>2. 1 \in 1 .. Len(s) /\ s[1] \in Seq(1 .. Frags[p[1]])
    <3>1. s # <<>>
      BY <1>5 DEF s
    <3> QED
      BY <2>1, <3>1
  <2>3. ToSet(s[1]) = 1 .. Frags[p[1]]
    BY <1>1, <2>2, HousedIntact DEF Intact, s
  <2>4. ~Never(s[1], p[2])
    BY <1>1, <2>2, <2>3, ToSetElements
  <2>5. Never(s[1], p[2])
    BY <1>4, <2>2 DEF InMail, Holds, s
  <2> QED
    BY <2>4, <2>5
<1> QED
  BY <1>3, <1>5

BoxedAsMailed ==
  \A m \in Msgs : /\ mail[m] = <<>> => Box[m] = <<>>
                  /\ Len(mail[m]) = 1 => Box[m] = <<ToSet(mail[m][1])>>

LEMMA BoxSequences == BoxedAsMailed
<1> SUFFICES ASSUME NEW m \in Msgs
             PROVE  /\ mail[m] = <<>> => Box[m] = <<>>
                    /\ Len(mail[m]) = 1 => Box[m] = <<ToSet(mail[m][1])>>
  BY DEF BoxedAsMailed
<1>1. Box[m] = [i \in 1 .. Len(mail[m]) |-> ToSet(mail[m][i])]
  BY DEF Box
<1>2. ASSUME mail[m] = <<>> PROVE Box[m] = <<>>
  <2>1. Len(mail[m]) = 0
    BY <1>2
  <2> QED
    BY <1>1, <2>1
<1>3. ASSUME Len(mail[m]) = 1 PROVE Box[m] = <<ToSet(mail[m][1])>>
  BY <1>1, <1>3
<1> QED
  BY <1>2, <1>3

\* Whatever is forwarded, collected, lost or purged, at most more is dropped.
LEMMA DropStep ==
  ASSUME IInv, IInv', mail' = mail, sent' = sent, open' = open, lost \subseteq lost'
  PROVE  Service!Drop
<1>1. \A p \in lost' : p[1] \in Msgs /\ p[1] \in sent /\ mail[p[1]] = <<>>
  <2> SUFFICES ASSUME NEW p \in lost'
               PROVE  p[1] \in Msgs /\ p[1] \in sent /\ mail[p[1]] = <<>>
    OBVIOUS
  <2>1. p[1] \in sent' /\ mail'[p[1]] = <<>>
    <3>1. IInv' => NotDelivered'
      BY DroppedNotDelivered, PTL
    <3> QED
      BY <3>1 DEF NotDelivered
  <2>2. p[1] \in Msgs
    BY PacketParts DEF IInv, TypeOK
  <2> QED
    BY <2>1, <2>2
<1>2. Dropped' \in SUBSET {m \in sent : Box[m] = <<>>}
  BY <1>1, BoxSequences DEF BoxedAsMailed, Dropped
<1>3. Dropped' = Dropped \cup Dropped'
  BY DEF Dropped
<1>4. Box' = Box
  BY DEF Box
<1>5. UNCHANGED <<sent, open, Box>>
  BY <1>4
<1> QED
  BY <1>2, <1>3, <1>5 DEF Service!Drop, Dropped, Box

\* The fragment that completes a parcel delivers the message.
LEMMA PutStep ==
  ASSUME IInv, IInv', NEW q \in Packets, Deliver(q), q[1] \in open, Complete(q),
         sent' = sent, open' = open, q[1] \in sent
  PROVE  Service!Put(q[1])
<1> DEFINE m == q[1]
<1>1. m \in Msgs /\ mail[m] \in Seq(Seq(1 .. Frags[m])) /\ mail' = [mail EXCEPT ![m] = Append(@, Collected(q))]
      /\ lost' = lost /\ mail \in [Msgs -> Seq(Seq(Nat))] /\ q \in Packets
  BY PacketParts DEF IInv, TypeOK, Deliver
<1>2. Len(mail[m]) \in Nat /\ mail'[m] = Append(mail[m], Collected(q))
      /\ \A x \in Msgs : x # m => mail'[x] = mail[x]
  BY <1>1
<1>3. Len(mail'[m]) = Len(mail[m]) + 1
  BY <1>1, <1>2
<1>4. Len(mail'[m]) <= 1 /\ ToSet(mail'[m][1]) = 1 .. Frags[m]
  <2>1. IInv' => Intact'
    BY HousedIntact, PTL
  <2>2. /\ Len(mail'[m]) <= 1
        /\ \A i \in 1 .. Len(mail'[m]) : ToSet(mail'[m][i]) = 1 .. Frags[m]
    BY <1>1, <2>1 DEF Intact
  <2>3. 1 \in 1 .. Len(mail'[m])
    BY <1>2, <1>3, <2>2
  <2> QED
    BY <2>2, <2>3
<1>5. Len(mail'[m]) = 1 /\ mail[m] = <<>>
  BY <1>1, <1>2, <1>3, <1>4
<1>6. Box[m] = <<>>
  BY <1>1, <1>5, BoxSequences DEF BoxedAsMailed
<1>7. Box'[m] = <<1 .. Frags[m]>>
  <2>1. BoxedAsMailed'
    BY BoxSequences, PTL
  <2> QED
    BY <1>1, <1>4, <1>5, <2>1 DEF BoxedAsMailed
<1>8. \A x \in Msgs : x # m => Box'[x] = Box[x]
  BY <1>2 DEF Box
<1>9. Box' = [Box EXCEPT ![m] = <<1 .. Frags[m]>>]
  BY <1>1, <1>7, <1>8 DEF Box
<1>10. m \notin Dropped
  <2> SUFFICES ASSUME NEW p \in lost, p[1] = m PROVE FALSE
    BY DEF Dropped
  <2>1. mail'[m] = <<>>
    <3>1. IInv' => NotDelivered'
      BY DroppedNotDelivered, PTL
    <3> QED
      BY <1>1, <1>5, <3>1 DEF NotDelivered
  <2> QED
    BY <1>5, <2>1
<1>11. Dropped' = Dropped
  BY <1>1 DEF Dropped
<1>12. Box' = [Box EXCEPT ![m] = <<[x \in Msgs |-> 1 .. Frags[x]][m]>>]
  BY <1>1, <1>9
<1> QED
  BY <1>6, <1>10, <1>11, <1>12 DEF Service!Put, Dropped, Box

\* The network implements the delivery service, whatever the routes, the
\* failures and the order of packets: router, links and parcels deliver a
\* message once and whole or never (the refinement of Delivery).
THEOREM Delivers == Spec => IsDelivery
<1>1. Init => Service!Init
  <2> SUFFICES ASSUME Init PROVE Service!Init
    OBVIOUS
  <2>1. \A m \in Msgs : mail[m] = <<>>
    BY DEF Init
  <2>2. Box = [m \in Msgs |-> <<>>]
    BY <2>1, BoxSequences DEF BoxedAsMailed, Box
  <2>3. Dropped = {}
    BY DEF Init, Dropped
  <2> QED
    BY <2>2, <2>3 DEF Init, Service!Init, Box, Dropped
<1>2. IInv /\ IInv' /\ [Next]_vars => Service!Next
  <2> SUFFICES ASSUME IInv, IInv', [Next]_vars PROVE Service!Next
    OBVIOUS
  <2>0. Service!Drop => Service!Next
    BY DEF Service!Next
  <2>1. ASSUME NEW m \in Msgs, Send(m) PROVE Service!Next
    <3>1. Service!Send(m)
      BY <2>1 DEF Send, Service!Send
    <3> QED
      BY <3>1 DEF Service!Next
  <2>2. ASSUME NEW m \in Msgs, Close(m) PROVE Service!Next
    <3>1. Service!Close(m)
      BY <2>2 DEF Close, Service!Close
    <3> QED
      BY <3>1 DEF Service!Next
  <2>3. ASSUME NEW m \in Msgs, PurgeParcel(m) PROVE Service!Next
    BY <2>0, <2>3, DropStep DEF PurgeParcel
  <2>4. ASSUME NEW n \in Nodes, PurgeMessage(n) PROVE Service!Next
    BY <2>0, <2>4, DropStep DEF PurgeMessage
  <2>5. ASSUME NEW l \in Links, SendThread(l) PROVE Service!Next
    BY <2>0, <2>5, DropStep DEF SendThread, Take, Transmit, EndSend, Overwrite
  <2>6. ASSUME NEW l \in Links, Receive(l) PROVE Service!Next
    <3>1. PICK q \in Packets : q = Head(wire[l]) /\ ~Never(wire[l], q)
      <4>1. wire[l] \in Seq(Packets) /\ wire[l] # <<>>
        BY <2>6 DEF IInv, TypeOK, Receive
      <4> QED
        BY <4>1, TailOnce DEF Never
    <3>2. q[1] \in sent /\ q[1] \in Msgs
      BY <3>1, Found, PacketParts DEF IInv, Resident
    <3>3. sent' = sent /\ open' = open /\ (Deliver(q) \/ Forward(Dst[l], q))
      BY <2>6, <3>1 DEF Receive
    <3>4. CASE Deliver(q) /\ q[1] \in open /\ Complete(q)
      <4>1. Service!Put(q[1])
        BY <3>1, <3>2, <3>3, <3>4, PutStep
      <4> QED
        BY <3>2, <4>1 DEF Service!Next
    <3>5. CASE Deliver(q) /\ (q[1] \notin open \/ ~Complete(q))
      BY <2>0, <3>3, <3>5, DropStep DEF Deliver
    <3>6. CASE Forward(Dst[l], q)
      BY <2>0, <3>3, <3>6, DropStep DEF Forward
    <3> QED
      BY <3>3, <3>4, <3>5, <3>6
  <2>7. ASSUME NEW l \in Links, Fail(l) \/ Reconnect(l) PROVE Service!Next
    BY <2>0, <2>7, DropStep DEF Fail, Reconnect
  <2>8. CASE UNCHANGED vars
    BY <2>0, <2>8, DropStep DEF vars
  <2> QED
    BY <2>1, <2>2, <2>3, <2>4, <2>5, <2>6, <2>7, <2>8 DEF Next
<1>3. Spec => []IInv
  BY Inductive
<1> QED
  BY <1>1, <1>2, <1>3, PTL DEF Spec, IsDelivery, Service!Spec

=============================================================================
