------------------------------ MODULE FarmProofs ------------------------------
(***************************************************************************)
(* Proofs about the farm: it keeps its types, every job of the present     *)
(* farm has one fate, and a reply retires the ticket of the very job that  *)
(* it answers, for any number of workers, farms and jobs.                  *)
(***************************************************************************)
EXTENDS Farm, Integers, FiniteSetTheorems, TLAPS

-----------------------------------------------------------------------------
(* Sets in order.                                                           *)

\* The list order has every member of S at one place.
Lists(order, S) ==
  /\ order \in [1 .. Cardinality(S) -> S]
  /\ \A i, j \in 1 .. Cardinality(S) : order[i] = order[j] => i = j
  /\ \A x \in S : \E i \in 1 .. Cardinality(S) : order[i] = x

\* R is a strict total order of S.
StrictlyOrders(R, S) ==
  /\ \A x \in S : <<x, x>> \notin R
  /\ \A x, y, z \in S : <<x, y>> \in R /\ <<y, z>> \in R => <<x, z>> \in R
  /\ \A x, y \in S : x = y \/ <<x, y>> \in R \/ <<y, x>> \in R

\* In a strict total order R of S, as many members come before the n-th as are
\* to come, and before no two members come equally many.
LEMMA Ranked ==
  ASSUME NEW S, IsFiniteSet(S), NEW R, StrictlyOrders(R, S)
  PROVE  LET rank(x) == Cardinality({y \in S : <<y, x>> \in R})
         IN  /\ Cardinality(S) \in Nat
             /\ \A n \in 1 .. Cardinality(S) : \E x \in S : rank(x) = n - 1
             /\ \A x, y \in S : rank(x) = rank(y) => x = y
             /\ \A x \in S : rank(x) \in Nat /\ rank(x) + 1 \in 1 .. Cardinality(S)
<1> DEFINE Low(x) == {y \in S : <<y, x>> \in R}
           C == Cardinality(S)
           place == [x \in S |-> Cardinality(Low(x)) + 1]
<1>1. C \in Nat
  BY FS_CardinalityType
<1>2. \A x \in S : Low(x) \subseteq S /\ x \notin Low(x)
  BY DEF StrictlyOrders
<1>3. \A x \in S : IsFiniteSet(Low(x)) /\ Cardinality(Low(x)) \in Nat
  BY <1>2, FS_Subset, FS_CardinalityType
<1>4. \A x \in S : Cardinality(Low(x)) < C
  <2> SUFFICES ASSUME NEW x \in S PROVE Cardinality(Low(x)) < C
    OBVIOUS
  <2>1. Cardinality(Low(x)) <= C /\ (C = Cardinality(Low(x)) => S = Low(x))
    BY <1>2, FS_Subset
  <2>2. S # Low(x)
    BY <1>2
  <2> QED BY <1>1, <1>3, <2>1, <2>2
<1>5. \A x, y \in S : <<x, y>> \in R => Cardinality(Low(x)) # Cardinality(Low(y))
  <2> SUFFICES ASSUME NEW x \in S, NEW y \in S, <<x, y>> \in R,
                      Cardinality(Low(x)) = Cardinality(Low(y))
               PROVE  FALSE
    OBVIOUS
  <2>1. Low(x) \subseteq Low(y)
    BY DEF StrictlyOrders
  <2>2. Low(x) = Low(y)
    BY <1>3, <2>1, FS_Subset
  <2>3. x \in Low(y)
    OBVIOUS
  <2> QED BY <1>2, <2>2, <2>3
<1> HIDE DEF Low, C
<1>6. \A x, y \in S : Cardinality(Low(x)) = Cardinality(Low(y)) => x = y
  BY <1>5 DEF StrictlyOrders
<1>7. \A x \in S : Cardinality(Low(x)) + 1 \in 1 .. C
  BY <1>1, <1>3, <1>4
<1>8. place \in Injection(S, 1 .. C)
  <2>1. \A x, y \in S : Cardinality(Low(x)) + 1 = Cardinality(Low(y)) + 1 => x = y
    BY <1>3, <1>6
  <2> QED BY <1>7, <2>1 DEF Injection, IsInjective
<1>9. IsFiniteSet(1 .. C) /\ Cardinality(1 .. C) = C
  <2>1. Cardinality(1 .. C) = IF 1 > C THEN 0 ELSE C - 1 + 1
    BY <1>1, FS_Interval
  <2> QED BY <1>1, <2>1, FS_Interval
<1>10. place \in Surjection(S, 1 .. C)
  BY <1>8, <1>9, FS_Injection DEF C
<1>11. \A n \in 1 .. C : \E x \in S : Cardinality(Low(x)) = n - 1
  <2> SUFFICES ASSUME NEW n \in 1 .. C PROVE \E x \in S : Cardinality(Low(x)) = n - 1
    OBVIOUS
  <2>1. PICK x \in S : place[x] = n
    BY <1>10 DEF Surjection
  <2> QED BY <1>1, <1>3, <2>1
<1> QED BY <1>1, <1>3, <1>6, <1>7, <1>11 DEF Low, C

\* So a list in which n - 1 members come before the n-th is complete.
LEMMA ListedByRank ==
  ASSUME NEW S, IsFiniteSet(S), NEW R, StrictlyOrders(R, S),
         NEW order \in [1 .. Cardinality(S) -> S],
         \A n \in 1 .. Cardinality(S) :
           Cardinality({y \in S : <<y, order[n]>> \in R}) = n - 1
  PROVE  Lists(order, S)
<1> DEFINE rank(x) == Cardinality({y \in S : <<y, x>> \in R})
           C == Cardinality(S)
<1>1. /\ C \in Nat
      /\ \A x, y \in S : rank(x) = rank(y) => x = y
      /\ \A x \in S : rank(x) \in Nat /\ rank(x) + 1 \in 1 .. C
  BY Ranked, Zenon
<1>2. \A n \in 1 .. C : order[n] \in S /\ rank(order[n]) = n - 1
  OBVIOUS
<1>3. order \in [1 .. C -> S]
  OBVIOUS
<1> SUFFICES Lists(order, S)
  OBVIOUS
<1> HIDE DEF rank
<1>4. \A x \in S : order[rank(x) + 1] = x
  <2> SUFFICES ASSUME NEW x \in S PROVE order[rank(x) + 1] = x
    OBVIOUS
  <2>1. rank(x) \in Nat /\ rank(x) + 1 \in 1 .. C
    BY <1>1
  <2>2. order[rank(x) + 1] \in S /\ rank(order[rank(x) + 1]) = rank(x)
    BY <1>2, <2>1
  <2> QED BY <1>1, <2>2
<1>5. \A x \in S : \E i \in 1 .. C : order[i] = x
  BY <1>1, <1>4
<1>6. \A i, j \in 1 .. C : order[i] = order[j] => i = j
  <2> SUFFICES ASSUME NEW i \in 1 .. C, NEW j \in 1 .. C, order[i] = order[j]
               PROVE  i = j
    OBVIOUS
  <2>1. i - 1 = j - 1
    BY <1>2
  <2> QED BY <1>1, <2>1
<1> QED BY <1>3, <1>5, <1>6 DEF Lists

\* A finite set of numbers, sorted by size, is listed.
LEMMA SortedNumbers ==
  ASSUME NEW S \in SUBSET Nat, IsFiniteSet(S)
  PROVE  Cardinality(S) \in Nat /\ Lists(Sorted(S, <), S)
<1> DEFINE R == {p \in S \X S : p[1] < p[2]}
           order == Sorted(S, <)
           low(x) == Cardinality({y \in S : <<y, x>> \in R})
           rank(x) == Cardinality({y \in S : y < x})
<1>1. \A x, y \in S : <<x, y>> \in R <=> x < y
  OBVIOUS
<1>2. \A x \in S : low(x) = rank(x)
  <2> SUFFICES ASSUME NEW x \in S
               PROVE  {y \in S : <<y, x>> \in R} = {y \in S : y < x}
    OBVIOUS
  <2> HIDE DEF R
  <2> QED BY <1>1
<1>3. StrictlyOrders(R, S)
  <2>1. S \subseteq Int
    OBVIOUS
  <2> HIDE DEF R
  <2> QED BY <1>1, <2>1 DEF StrictlyOrders
<1>4. \A n \in 1 .. Cardinality(S) : \E x \in S : low(x) = n - 1
  <2> HIDE DEF R
  <2>1. /\ Cardinality(S) \in Nat
        /\ \A n \in 1 .. Cardinality(S) : \E x \in S : low(x) = n - 1
        /\ \A x, y \in S : low(x) = low(y) => x = y
        /\ \A x \in S : low(x) \in Nat /\ low(x) + 1 \in 1 .. Cardinality(S)
    BY <1>3, Ranked, Zenon
  <2> QED BY <2>1
<1>5. order = [n \in 1 .. Cardinality(S) |-> CHOOSE x \in S : rank(x) = n - 1]
  BY DEF Sorted
<1> HIDE DEF R, order, low, rank
<1>6. \A n \in 1 .. Cardinality(S) : order[n] \in S /\ low(order[n]) = n - 1
  BY <1>2, <1>4, <1>5
<1>7. order \in [1 .. Cardinality(S) -> S]
  BY <1>5, <1>6
<1>8. Lists(order, S)
  <2>1. \A n \in 1 .. Cardinality(S) :
          Cardinality({y \in S : <<y, order[n]>> \in R}) = n - 1
    BY <1>6 DEF low
  <2> QED BY <1>3, <1>7, <2>1, ListedByRank
<1> QED BY <1>8, FS_CardinalityType DEF order

\* Earlier is a strict total order of pairs of numbers.
LEMMA EarlierOrders ==
  ASSUME NEW S \in SUBSET (Int \X Int)
  PROVE  /\ \A x \in S : ~Earlier(x, x)
         /\ \A x, y, z \in S : Earlier(x, y) /\ Earlier(y, z) => Earlier(x, z)
         /\ \A x, y \in S : x = y \/ Earlier(x, y) \/ Earlier(y, x)
<1>1. \A x \in S : x[1] \in Int /\ x[2] \in Int
  OBVIOUS
<1>2. \A x, y \in S : x[1] = y[1] /\ x[2] = y[2] => x = y
  OBVIOUS
<1> QED BY <1>1, <1>2 DEF Earlier

\* A finite set of pairs, in the order of Earlier, is listed.
LEMMA SortedPairs ==
  ASSUME NEW S \in SUBSET (Int \X Int), IsFiniteSet(S)
  PROVE  Cardinality(S) \in Nat /\ Lists(Sorted(S, Earlier), S)
<1> DEFINE R == {p \in S \X S : Earlier(p[1], p[2])}
           order == Sorted(S, Earlier)
           low(x) == Cardinality({y \in S : <<y, x>> \in R})
           rank(x) == Cardinality({y \in S : Earlier(y, x)})
<1>1. \A x, y \in S : <<x, y>> \in R <=> Earlier(x, y)
  OBVIOUS
<1>2. \A x \in S : low(x) = rank(x)
  <2> SUFFICES ASSUME NEW x \in S
               PROVE  {y \in S : <<y, x>> \in R} = {y \in S : Earlier(y, x)}
    OBVIOUS
  <2> HIDE DEF R
  <2> QED BY <1>1
<1>3. StrictlyOrders(R, S)
  <2> HIDE DEF R
  <2> QED BY <1>1, EarlierOrders DEF StrictlyOrders
<1>4. \A n \in 1 .. Cardinality(S) : \E x \in S : low(x) = n - 1
  <2> HIDE DEF R
  <2>1. /\ Cardinality(S) \in Nat
        /\ \A n \in 1 .. Cardinality(S) : \E x \in S : low(x) = n - 1
        /\ \A x, y \in S : low(x) = low(y) => x = y
        /\ \A x \in S : low(x) \in Nat /\ low(x) + 1 \in 1 .. Cardinality(S)
    BY <1>3, Ranked, SMTT(60)
  <2> QED BY <2>1
<1>5. order = [n \in 1 .. Cardinality(S) |-> CHOOSE x \in S : rank(x) = n - 1]
  BY DEF Sorted
<1> HIDE DEF R, order, low, rank
<1>6. \A n \in 1 .. Cardinality(S) : order[n] \in S /\ low(order[n]) = n - 1
  BY <1>2, <1>4, <1>5
<1>7. order \in [1 .. Cardinality(S) -> S]
  BY <1>5, <1>6
<1>8. Lists(order, S)
  <2>1. \A n \in 1 .. Cardinality(S) :
          Cardinality({y \in S : <<y, order[n]>> \in R}) = n - 1
    BY <1>6 DEF low
  <2> QED BY <1>3, <1>7, <2>1, ListedByRank
<1> QED BY <1>8, FS_CardinalityType DEF order

\* So it is when sorted in the opposite order.
LEMMA SortedBackwards ==
  ASSUME NEW S \in SUBSET (Int \X Int), IsFiniteSet(S)
  PROVE  /\ Cardinality(S) \in Nat
         /\ Lists(Sorted(S, LAMBDA c, d : Earlier(d, c)), S)
<1> DEFINE R == {p \in S \X S : Earlier(p[2], p[1])}
           order == Sorted(S, LAMBDA c, d : Earlier(d, c))
           low(x) == Cardinality({y \in S : <<y, x>> \in R})
           rank(x) == Cardinality({y \in S : Earlier(x, y)})
<1>1. \A x, y \in S : <<x, y>> \in R <=> Earlier(y, x)
  OBVIOUS
<1>2. \A x \in S : low(x) = rank(x)
  <2> SUFFICES ASSUME NEW x \in S
               PROVE  {y \in S : <<y, x>> \in R} = {y \in S : Earlier(x, y)}
    OBVIOUS
  <2> HIDE DEF R
  <2> QED BY <1>1
<1>3. StrictlyOrders(R, S)
  <2> HIDE DEF R
  <2> QED BY <1>1, EarlierOrders DEF StrictlyOrders
<1>4. \A n \in 1 .. Cardinality(S) : \E x \in S : low(x) = n - 1
  <2> HIDE DEF R
  <2>1. /\ Cardinality(S) \in Nat
        /\ \A n \in 1 .. Cardinality(S) : \E x \in S : low(x) = n - 1
        /\ \A x, y \in S : low(x) = low(y) => x = y
        /\ \A x \in S : low(x) \in Nat /\ low(x) + 1 \in 1 .. Cardinality(S)
    BY <1>3, Ranked, SMTT(60)
  <2> QED BY <2>1
<1>5. order = [n \in 1 .. Cardinality(S) |-> CHOOSE x \in S : rank(x) = n - 1]
  BY DEF Sorted
<1> HIDE DEF R, order, low, rank
<1>6. \A n \in 1 .. Cardinality(S) : order[n] \in S /\ low(order[n]) = n - 1
  BY <1>2, <1>4, <1>5
<1>7. order \in [1 .. Cardinality(S) -> S]
  BY <1>5, <1>6
<1>8. Lists(order, S)
  <2>1. \A n \in 1 .. Cardinality(S) :
          Cardinality({y \in S : <<y, order[n]>> \in R}) = n - 1
    BY <1>6 DEF low
  <2> QED BY <1>3, <1>7, <2>1, ListedByRank
<1> QED BY <1>8, FS_CardinalityType DEF order

\* What is taken from a sequence is at its places, each once.
LEMMA Taken ==
  ASSUME NEW T, NEW s \in Seq(T), NEW S \in SUBSET (1 .. Len(s))
  PROVE  /\ Cardinality(S) \in Nat /\ Cardinality(S) <= Len(s)
         /\ AtPlaces(s, S) \in Seq(T) /\ Len(AtPlaces(s, S)) = Cardinality(S)
         /\ \E order :
              /\ Lists(order, S)
              /\ \A n \in 1 .. Cardinality(S) : AtPlaces(s, S)[n] = s[order[n]]
<1> DEFINE order == Sorted(S, <)
           C == Cardinality(S)
<1>1. Len(s) \in Nat /\ S \in SUBSET Nat
  OBVIOUS
<1>2. IsFiniteSet(1 .. Len(s)) /\ Cardinality(1 .. Len(s)) = Len(s)
  <2>1. Cardinality(1 .. Len(s)) = IF 1 > Len(s) THEN 0 ELSE Len(s) - 1 + 1
    BY <1>1, FS_Interval, SMTT(60)
  <2> QED BY <1>1, <2>1, FS_Interval, SMTT(60)
<1>3. IsFiniteSet(S) /\ C <= Len(s)
  BY <1>2, FS_Subset
<1>4. C \in Nat /\ Lists(order, S)
  BY <1>1, <1>3, SortedNumbers
<1>5. AtPlaces(s, S) = [n \in 1 .. C |-> s[order[n]]]
  BY DEF AtPlaces
<1> HIDE DEF order, C
<1>6. \A n \in 1 .. C : s[order[n]] \in T
  <2>1. \A n \in 1 .. C : order[n] \in S
    BY <1>4 DEF Lists, C
  <2>2. \A i \in 1 .. Len(s) : s[i] \in T
    OBVIOUS
  <2> QED BY <2>1, <2>2
<1>7. AtPlaces(s, S) \in Seq(T) /\ Len(AtPlaces(s, S)) = C
  BY <1>4, <1>5, <1>6
<1>8. \A n \in 1 .. C : AtPlaces(s, S)[n] = s[order[n]]
  BY <1>5
<1> QED BY <1>3, <1>4, <1>7, <1>8 DEF C

-----------------------------------------------------------------------------
(* What a farm holds.                                                       *)

Farms ==
  [ready : Seq(Msgs), workers : Seq(Workers),
   assigned : UNION {[ws -> Seq(Msgs)] : ws \in SUBSET Workers},
   key : Nat, body : [Msgs -> Body], pending : SUBSET (Msgs \X Nat)]

\* The places where a farm has jobs: among those that are ready, under -1, and
\* among the tickets of its workers.
Slots(f) ==
  {x \in ({-1} \cup Workers) \X (Nat \ {0}) :
     \/ x[1] = -1 /\ x[2] <= Len(f.ready)
     \/ x[1] \in DOMAIN f.assigned /\ x[2] <= Len(f.assigned[x[1]])}

JobAt(f, x) == IF x[1] = -1 THEN f.ready[x[2]] ELSE f.assigned[x[1]][x[2]]

Holds(f, m) == \E x \in Slots(f) : JobAt(f, x) = m

Once(f) == \A x, y \in Slots(f) : JobAt(f, x) = JobAt(f, y) => x = y

\* g has the jobs of f, perhaps at other places.
Rearranged(f, g) ==
  /\ \A m : Holds(f, m) <=> Holds(g, m)
  /\ Once(f) => Once(g)

\* A one-to-one correspondence of places that keeps the jobs is enough for that.
LEMMA Rearrangement ==
  ASSUME NEW f, NEW g, NEW from \in [Slots(g) -> Slots(f)],
         \A x, y \in Slots(g) : from[x] = from[y] => x = y,
         \A y \in Slots(f) : \E x \in Slots(g) : from[x] = y,
         \A x \in Slots(g) : JobAt(g, x) = JobAt(f, from[x])
  PROVE  Rearranged(f, g)
<1>1. \A m : Holds(f, m) <=> Holds(g, m)
  BY DEF Holds
<1>2. Once(f) => Once(g)
  BY DEF Once
<1> QED BY <1>1, <1>2 DEF Rearranged

\* A place is one in m_jobs_ready or a ticket of one worker.
LEMMA SlotKinds ==
  ASSUME NEW f \in Farms
  PROVE  /\ \A i \in Int : <<-1, i>> \in Slots(f) <=> i \in 1 .. Len(f.ready)
         /\ \A w \in Workers, i \in Int :
              <<w, i>> \in Slots(f) <=>
                w \in DOMAIN f.assigned /\ i \in 1 .. Len(f.assigned[w])
         /\ \A x \in Slots(f) :
              \/ \E i \in 1 .. Len(f.ready) : x = <<-1, i>>
              \/ \E w \in DOMAIN f.assigned : \E i \in 1 .. Len(f.assigned[w]) : x = <<w, i>>
         /\ \A i : JobAt(f, <<-1, i>>) = f.ready[i]
         /\ \A w \in Workers, i \in Int : JobAt(f, <<w, i>>) = f.assigned[w][i]
         /\ \A x \in Slots(f) : JobAt(f, x) \in Msgs
<1>1. /\ f.ready \in Seq(Msgs) /\ Len(f.ready) \in Nat
      /\ DOMAIN f.assigned \subseteq Workers
      /\ \A w \in DOMAIN f.assigned :
           f.assigned[w] \in Seq(Msgs) /\ Len(f.assigned[w]) \in Nat
  BY DEF Farms
<1>2. Workers \subseteq Nat
  BY FarmAssumption
<1>3. \A w \in Workers : w # -1
  BY <1>2
<1>4. \A i \in Int : <<-1, i>> \in Slots(f) <=> i \in 1 .. Len(f.ready)
  BY <1>1, <1>3 DEF Slots
<1>5. \A w \in Workers, i \in Int :
        <<w, i>> \in Slots(f) <=>
          w \in DOMAIN f.assigned /\ i \in 1 .. Len(f.assigned[w])
  BY <1>1, <1>3 DEF Slots
<1>6. \A x \in Slots(f) :
        \/ \E i \in 1 .. Len(f.ready) : x = <<-1, i>>
        \/ \E w \in DOMAIN f.assigned : \E i \in 1 .. Len(f.assigned[w]) : x = <<w, i>>
  <2> SUFFICES ASSUME NEW x \in Slots(f)
               PROVE  \/ \E i \in 1 .. Len(f.ready) : x = <<-1, i>>
                      \/ \E w \in DOMAIN f.assigned :
                           \E i \in 1 .. Len(f.assigned[w]) : x = <<w, i>>
    OBVIOUS
  <2>1. x = <<x[1], x[2]>> /\ x[2] \in Nat \ {0}
    BY DEF Slots
  <2>2. CASE x[1] = -1 /\ x[2] <= Len(f.ready)
    BY <1>1, <2>1, <2>2
  <2>3. CASE x[1] \in DOMAIN f.assigned /\ x[2] <= Len(f.assigned[x[1]])
    <3>1. x[2] \in 1 .. Len(f.assigned[x[1]])
      BY <1>1, <2>1, <2>3
    <3> QED BY <2>1, <2>3, <3>1
  <2> QED BY <2>2, <2>3 DEF Slots
<1>7. \A i : JobAt(f, <<-1, i>>) = f.ready[i]
  BY DEF JobAt
<1>8. \A w \in Workers, i \in Int : JobAt(f, <<w, i>>) = f.assigned[w][i]
  BY <1>3 DEF JobAt
<1>9. \A x \in Slots(f) : JobAt(f, x) \in Msgs
  <2> SUFFICES ASSUME NEW x \in Slots(f) PROVE JobAt(f, x) \in Msgs
    OBVIOUS
  <2>1. CASE \E i \in 1 .. Len(f.ready) : x = <<-1, i>>
    BY <1>1, <1>7, <2>1
  <2>2. CASE \E w \in DOMAIN f.assigned : \E i \in 1 .. Len(f.assigned[w]) : x = <<w, i>>
    <3>0. PICK w \in DOMAIN f.assigned : \E i \in 1 .. Len(f.assigned[w]) : x = <<w, i>>
      BY <2>2
    <3>1. PICK i \in 1 .. Len(f.assigned[w]) : x = <<w, i>>
      BY <3>0
    <3>2. f.assigned[w][i] \in Msgs
      BY <1>1
    <3>3. JobAt(f, x) = f.assigned[w][i]
      BY <1>1, <1>8, <3>1
    <3> QED BY <3>2, <3>3
  <2> QED BY <1>6, <2>1, <2>2
<1> QED BY <1>4, <1>5, <1>6, <1>7, <1>8, <1>9

-----------------------------------------------------------------------------
(* Jobs are handed out.                                                     *)

\* A worker without an entry has no tickets.
LEMMA TicketsType ==
  ASSUME NEW f \in Farms, NEW w \in Workers
  PROVE  /\ Tickets(f, w) \in Seq(Msgs) /\ Len(Tickets(f, w)) \in Nat
         /\ w \in DOMAIN f.assigned => Tickets(f, w) = f.assigned[w]
         /\ w \notin DOMAIN f.assigned => Len(Tickets(f, w)) = 0
<1>1. \A v \in DOMAIN f.assigned : f.assigned[v] \in Seq(Msgs)
  BY DEF Farms
<1>2. w \in DOMAIN f.assigned => Tickets(f, w) = f.assigned[w]
  BY DEF Tickets
<1>3. w \notin DOMAIN f.assigned => Tickets(f, w) = <<>>
  BY DEF Tickets
<1>4. CASE w \in DOMAIN f.assigned
  BY <1>1, <1>2, <1>4
<1>5. CASE w \notin DOMAIN f.assigned
  <2>1. <<>> \in Seq(Msgs) /\ Len(<<>>) = 0
    OBVIOUS
  <2> QED BY <1>3, <1>5, <2>1
<1> QED BY <1>4, <1>5

\* g is f after its first n ready jobs went to the first n of the workers ws.
HandedOut(f, g, ws, n, reply) ==
  /\ n \in 0 .. Len(f.ready) /\ n <= Len(ws)
  /\ g \in Farms
  /\ g.ready = SubSeq(f.ready, n + 1, Len(f.ready))
  /\ g.workers = f.workers
  /\ g.key = f.key + n
  /\ g.pending = f.pending \cup {<<f.ready[i], f.key + i - 1>> : i \in 1 .. n}
  /\ DOMAIN g.assigned = DOMAIN f.assigned \cup {ws[i] : i \in 1 .. n}
  /\ \A w \in DOMAIN g.assigned :
       g.assigned[w] = Tickets(f, w) \o AtPlaces(f.ready, {i \in 1 .. n : ws[i] = w})
  /\ \A m \in Msgs :
       \/ /\ \A i \in 1 .. n : f.ready[i] # m
          /\ g.body[m] = f.body[m]
       \/ \E i \in 1 .. n :
            /\ f.ready[i] = m
            /\ g.body[m] = [worker |-> ws[i], key |-> f.key + i - 1, reply |-> reply]

\* What dispatching comes to: the first n jobs go to the first n workers of ws.
LEMMA DispatchedShape ==
  ASSUME NEW f \in Farms, NEW ws \in Seq(Workers), NEW reply \in Nat
  PROVE  \E n : HandedOut(f, Dispatched(f, ws, reply), ws, n, reply)
<1> DEFINE g == Dispatched(f, ws, reply)
           n == IF Len(ws) < Len(f.ready) THEN Len(ws) ELSE Len(f.ready)
           Given(w) == {i \in 1 .. n : ws[i] = w}
           At(m) == {i \in 1 .. n : f.ready[i] = m}
           assigned == [w \in DOMAIN f.assigned \cup {ws[i] : i \in 1 .. n} |->
                          Tickets(f, w) \o AtPlaces(f.ready, Given(w))]
           body == [m \in Msgs |->
                      IF At(m) = {} THEN f.body[m]
                      ELSE LET i == CHOOSE i \in At(m) : TRUE
                           IN  [worker |-> ws[i], key |-> f.key + i - 1, reply |-> reply]]
           pending == f.pending \cup {<<f.ready[i], f.key + i - 1>> : i \in 1 .. n}
           ready == SubSeq(f.ready, n + 1, Len(f.ready))
<1>1. g = [f EXCEPT !.ready = ready, !.assigned = assigned, !.body = body,
                    !.key = f.key + n, !.pending = pending]
  BY DEF Dispatched
<1>2. /\ f.ready \in Seq(Msgs) /\ f.workers \in Seq(Workers) /\ f.key \in Nat
      /\ f.body \in [Msgs -> Body] /\ f.pending \subseteq Msgs \X Nat
      /\ DOMAIN f.assigned \subseteq Workers
  BY DEF Farms
<1>3. /\ n \in 0 .. Len(f.ready) /\ n <= Len(ws) /\ n \in Nat
      /\ Len(f.ready) \in Nat /\ Len(ws) \in Nat
  BY <1>2
<1>4. \A i \in 1 .. n : ws[i] \in Workers /\ f.ready[i] \in Msgs
  BY <1>2, <1>3
<1> HIDE DEF n
<1>5. ready \in Seq(Msgs)
  BY <1>2, <1>3
<1>6. assigned \in UNION {[vs -> Seq(Msgs)] : vs \in SUBSET Workers}
  <2> DEFINE vs == DOMAIN f.assigned \cup {ws[i] : i \in 1 .. n}
  <2>1. vs \in SUBSET Workers
    BY <1>2, <1>4
  <2>2. \A w \in vs : Tickets(f, w) \o AtPlaces(f.ready, Given(w)) \in Seq(Msgs)
    <3> SUFFICES ASSUME NEW w \in vs
                 PROVE  Tickets(f, w) \o AtPlaces(f.ready, Given(w)) \in Seq(Msgs)
      OBVIOUS
    <3>1. Tickets(f, w) \in Seq(Msgs)
      BY <2>1, TicketsType
    <3>2. Given(w) \in SUBSET (1 .. Len(f.ready))
      BY <1>3
    <3>3. AtPlaces(f.ready, Given(w)) \in Seq(Msgs)
      BY <1>2, <3>2, Taken
    <3> QED BY <3>1, <3>3
  <2>3. assigned \in [vs -> Seq(Msgs)]
    BY <2>2
  <2> HIDE DEF vs, assigned
  <2> QED BY <2>1, <2>3
<1>7. \A m \in Msgs :
        \/ /\ \A i \in 1 .. n : f.ready[i] # m
           /\ body[m] = f.body[m]
        \/ \E i \in 1 .. n :
             /\ f.ready[i] = m
             /\ body[m] = [worker |-> ws[i], key |-> f.key + i - 1, reply |-> reply]
  <2> SUFFICES ASSUME NEW m \in Msgs
               PROVE  \/ /\ \A i \in 1 .. n : f.ready[i] # m
                         /\ body[m] = f.body[m]
                      \/ \E i \in 1 .. n :
                           /\ f.ready[i] = m
                           /\ body[m] = [worker |-> ws[i], key |-> f.key + i - 1,
                                         reply |-> reply]
    OBVIOUS
  <2>1. CASE At(m) = {}
    BY <2>1
  <2>2. CASE At(m) # {}
    <3> DEFINE i == CHOOSE i \in At(m) : TRUE
    <3>1. i \in At(m)
      BY <2>2
    <3>2. body[m] = [worker |-> ws[i], key |-> f.key + i - 1, reply |-> reply]
      BY <2>2
    <3> HIDE DEF i, body
    <3> QED BY <3>1, <3>2
  <2> QED BY <2>1, <2>2
<1>8. body \in [Msgs -> Body]
  <2>1. \A i \in 1 .. n :
          [worker |-> ws[i], key |-> f.key + i - 1, reply |-> reply] \in Body
    BY <1>2, <1>3, <1>4, SMTT(60) DEF Body
  <2>2. \A m \in Msgs : body[m] \in Body
    <3> HIDE DEF body
    <3> QED BY <1>2, <1>7, <2>1, ZenonT(60)
  <2> QED BY <2>2
<1>9. pending \in SUBSET (Msgs \X Nat)
  <2>1. \A i \in 1 .. n : <<f.ready[i], f.key + i - 1>> \in Msgs \X Nat
    BY <1>2, <1>3, <1>4
  <2> QED BY <1>2, <2>1
<1>10. f.key + n \in Nat
  BY <1>2, <1>3
<1>11. \A w \in DOMAIN assigned : assigned[w] = Tickets(f, w) \o AtPlaces(f.ready, Given(w))
  OBVIOUS
<1>12. DOMAIN assigned = DOMAIN f.assigned \cup {ws[i] : i \in 1 .. n}
  OBVIOUS
<1> HIDE DEF g, ready, assigned, body, pending, Given
<1>13. /\ g \in Farms
       /\ g.ready = ready /\ g.workers = f.workers /\ g.key = f.key + n
       /\ g.pending = pending /\ g.assigned = assigned /\ g.body = body
  BY <1>1, <1>5, <1>6, <1>8, <1>9, <1>10 DEF Farms
<1>14. /\ DOMAIN g.assigned = DOMAIN f.assigned \cup {ws[i] : i \in 1 .. n}
       /\ \A w \in DOMAIN g.assigned :
            g.assigned[w] = Tickets(f, w) \o AtPlaces(f.ready, {i \in 1 .. n : ws[i] = w})
  BY <1>11, <1>12, <1>13 DEF Given
<1>15. g.pending = f.pending \cup {<<f.ready[i], f.key + i - 1>> : i \in 1 .. n}
  BY <1>13 DEF pending
<1>16. HandedOut(f, g, ws, n, reply)
  BY <1>3, <1>7, <1>13, <1>14, <1>15 DEF HandedOut, ready
<1> QED BY <1>16 DEF g

\* Where two sequences are joined, each keeps its members and their order.
LEMMA Joining ==
  ASSUME NEW T, NEW s \in Seq(T), NEW t \in Seq(T)
  PROVE  /\ s \o t \in Seq(T) /\ Len(s) \in Nat /\ Len(t) \in Nat
         /\ Len(s \o t) = Len(s) + Len(t)
         /\ \A i \in 1 .. Len(s) : (s \o t)[i] = s[i]
         /\ \A i \in 1 .. Len(t) : (s \o t)[Len(s) + i] = t[i]
OBVIOUS

\* The jobs are where they were, nearer to the front, or with a worker.
LEMMA DispatchedJobs ==
  ASSUME NEW f \in Farms, NEW ws \in Seq(Workers), NEW reply \in Nat
  PROVE  Rearranged(f, Dispatched(f, ws, reply))
<1> DEFINE g == Dispatched(f, ws, reply)
<1>0. PICK n : HandedOut(f, g, ws, n, reply)
  BY DispatchedShape
<1>1. /\ n \in 0 .. Len(f.ready) /\ n <= Len(ws)
      /\ g \in Farms
      /\ g.ready = SubSeq(f.ready, n + 1, Len(f.ready))
      /\ DOMAIN g.assigned = DOMAIN f.assigned \cup {ws[i] : i \in 1 .. n}
      /\ \A w \in DOMAIN g.assigned :
           g.assigned[w] = Tickets(f, w) \o AtPlaces(f.ready, {i \in 1 .. n : ws[i] = w})
  BY <1>0 DEF HandedOut
<1> HIDE DEF g
<1> DEFINE Given(w) == {i \in 1 .. n : ws[i] = w}
           order == [w \in DOMAIN g.assigned |->
                       CHOOSE o : /\ Lists(o, Given(w))
                                  /\ \A k \in 1 .. Cardinality(Given(w)) :
                                       AtPlaces(f.ready, Given(w))[k] = f.ready[o[k]]]
           L(w) == Len(Tickets(f, w))
           C(w) == Cardinality(Given(w))
           from == [x \in Slots(g) |->
                      IF x[1] = -1 THEN <<-1, x[2] + n>>
                      ELSE IF x[2] <= L(x[1]) THEN x
                      ELSE <<-1, order[x[1]][x[2] - L(x[1])]>>]
<1>2. /\ f.ready \in Seq(Msgs) /\ Len(f.ready) \in Nat /\ n \in Nat
      /\ DOMAIN f.assigned \subseteq Workers /\ DOMAIN g.assigned \subseteq Workers
      /\ Workers \subseteq Nat
  <2>1. \A h \in Farms : DOMAIN h.assigned \subseteq Workers
    BY DEF Farms
  <2>2. f.ready \in Seq(Msgs)
    BY DEF Farms
  <2> QED BY <1>1, <2>1, <2>2, FarmAssumption, SMTT(60)
<1>3. \A w \in DOMAIN g.assigned :
        /\ Given(w) \subseteq 1 .. n /\ C(w) \in Nat
        /\ Lists(order[w], Given(w))
        /\ \A k \in 1 .. C(w) : AtPlaces(f.ready, Given(w))[k] = f.ready[order[w][k]]
        /\ AtPlaces(f.ready, Given(w)) \in Seq(Msgs)
        /\ Len(AtPlaces(f.ready, Given(w))) = C(w)
  <2> SUFFICES ASSUME NEW w \in DOMAIN g.assigned
               PROVE  /\ C(w) \in Nat
                      /\ Lists(order[w], Given(w))
                      /\ \A k \in 1 .. C(w) :
                           AtPlaces(f.ready, Given(w))[k] = f.ready[order[w][k]]
                      /\ AtPlaces(f.ready, Given(w)) \in Seq(Msgs)
                      /\ Len(AtPlaces(f.ready, Given(w))) = C(w)
    OBVIOUS
  <2>1. Given(w) \in SUBSET (1 .. Len(f.ready))
    BY <1>1, <1>2
  <2> HIDE DEF Given
  <2>2. /\ C(w) \in Nat
        /\ AtPlaces(f.ready, Given(w)) \in Seq(Msgs)
        /\ Len(AtPlaces(f.ready, Given(w))) = C(w)
        /\ \E o : /\ Lists(o, Given(w))
                  /\ \A k \in 1 .. C(w) : AtPlaces(f.ready, Given(w))[k] = f.ready[o[k]]
    BY <1>2, <2>1, Taken
  <2>3. order[w] = CHOOSE o : /\ Lists(o, Given(w))
                              /\ \A k \in 1 .. C(w) :
                                   AtPlaces(f.ready, Given(w))[k] = f.ready[o[k]]
    BY Zenon
  <2> HIDE DEF order, C
  <2>4. /\ Lists(order[w], Given(w))
        /\ \A k \in 1 .. C(w) : AtPlaces(f.ready, Given(w))[k] = f.ready[order[w][k]]
    BY <2>2, <2>3, Zenon
  <2> QED BY <2>2, <2>4
<1> HIDE DEF order
<1>4. \A w \in DOMAIN g.assigned :
        /\ \A k \in 1 .. C(w) : order[w][k] \in 1 .. n /\ ws[order[w][k]] = w
        /\ \A k, l \in 1 .. C(w) : order[w][k] = order[w][l] => k = l
        /\ \A i \in 1 .. n : ws[i] = w => \E k \in 1 .. C(w) : order[w][k] = i
  <2> SUFFICES ASSUME NEW w \in DOMAIN g.assigned
               PROVE  /\ \A k \in 1 .. C(w) : order[w][k] \in 1 .. n /\ ws[order[w][k]] = w
                      /\ \A k, l \in 1 .. C(w) : order[w][k] = order[w][l] => k = l
                      /\ \A i \in 1 .. n : ws[i] = w =>
                           \E k \in 1 .. C(w) : order[w][k] = i
    OBVIOUS
  <2>1. /\ \A k \in 1 .. C(w) : order[w][k] \in Given(w)
        /\ \A k, l \in 1 .. C(w) : order[w][k] = order[w][l] => k = l
        /\ \A i \in Given(w) : \E k \in 1 .. C(w) : order[w][k] = i
    <3>1. Lists(order[w], Given(w))
      BY <1>3
    <3> HIDE DEF Given
    <3> QED BY <3>1 DEF Lists, C
  <2>2. \A i : i \in Given(w) <=> i \in 1 .. n /\ ws[i] = w
    OBVIOUS
  <2> HIDE DEF C, Given
  <2> QED BY <2>1, <2>2
<1>5. /\ Len(g.ready) = Len(f.ready) - n
      /\ \A i \in 1 .. Len(f.ready) - n : g.ready[i] = f.ready[i + n]
  BY <1>1, <1>2
<1>6. \A w \in DOMAIN g.assigned :
        /\ L(w) \in Nat
        /\ Len(g.assigned[w]) = L(w) + C(w)
        /\ \A i \in 1 .. L(w) : g.assigned[w][i] = Tickets(f, w)[i]
        /\ \A k \in 1 .. C(w) : g.assigned[w][L(w) + k] = f.ready[order[w][k]]
        /\ w \in DOMAIN f.assigned => Tickets(f, w) = f.assigned[w]
        /\ w \notin DOMAIN f.assigned => L(w) = 0
  <2> SUFFICES ASSUME NEW w \in DOMAIN g.assigned
               PROVE  /\ L(w) \in Nat
                      /\ Len(g.assigned[w]) = L(w) + C(w)
                      /\ \A i \in 1 .. L(w) : g.assigned[w][i] = Tickets(f, w)[i]
                      /\ \A k \in 1 .. C(w) : g.assigned[w][L(w) + k] = f.ready[order[w][k]]
                      /\ w \in DOMAIN f.assigned => Tickets(f, w) = f.assigned[w]
                      /\ w \notin DOMAIN f.assigned => L(w) = 0
    OBVIOUS
  <2>1. /\ Tickets(f, w) \in Seq(Msgs) /\ L(w) \in Nat
        /\ w \in DOMAIN f.assigned => Tickets(f, w) = f.assigned[w]
        /\ w \notin DOMAIN f.assigned => L(w) = 0
    BY <1>2, TicketsType
  <2>2. g.assigned[w] = Tickets(f, w) \o AtPlaces(f.ready, Given(w))
    BY <1>1
  <2> HIDE DEF Given
  <2>3. /\ Len(g.assigned[w]) = L(w) + C(w)
        /\ \A i \in 1 .. L(w) : g.assigned[w][i] = Tickets(f, w)[i]
        /\ \A k \in 1 .. C(w) : g.assigned[w][L(w) + k] = AtPlaces(f.ready, Given(w))[k]
    <3> DEFINE t == AtPlaces(f.ready, Given(w))
               s == Tickets(f, w)
    <3>1. t \in Seq(Msgs) /\ Len(t) = C(w)
      BY <1>3
    <3>2. s \in Seq(Msgs)
      BY <2>1
    <3> HIDE DEF t, s, C
    <3>3. /\ Len(s \o t) = Len(s) + Len(t)
          /\ \A i \in 1 .. Len(s) : (s \o t)[i] = s[i]
          /\ \A k \in 1 .. Len(t) : (s \o t)[Len(s) + k] = t[k]
      <4>0. s \in Seq(Msgs) /\ t \in Seq(Msgs)
        BY <3>1, <3>2
      <4>1. Len(s \o t) = Len(s) + Len(t)
        BY <4>0, Joining
      <4>2. \A i \in 1 .. Len(s) : (s \o t)[i] = s[i]
        BY <4>0, Joining
      <4>3. \A k \in 1 .. Len(t) : (s \o t)[Len(s) + k] = t[k]
        BY <4>0, Joining
      <4> QED BY <4>1, <4>2, <4>3
    <3> QED BY <2>2, <3>1, <3>3 DEF t, s
  <2> QED BY <1>3, <2>1, <2>3
<1> HIDE DEF L, C, Given
<1>7. \A x \in Slots(g) :
        \/ \E i \in 1 .. Len(f.ready) - n :
             x = <<-1, i>> /\ from[x] = <<-1, i + n>>
        \/ \E w \in DOMAIN g.assigned : \E i \in 1 .. L(w) :
             x = <<w, i>> /\ from[x] = <<w, i>>
        \/ \E w \in DOMAIN g.assigned : \E k \in 1 .. C(w) :
             x = <<w, L(w) + k>> /\ from[x] = <<-1, order[w][k]>>
  <2> SUFFICES ASSUME NEW x \in Slots(g)
               PROVE  \/ \E i \in 1 .. Len(f.ready) - n :
                           x = <<-1, i>> /\ from[x] = <<-1, i + n>>
                      \/ \E w \in DOMAIN g.assigned : \E i \in 1 .. L(w) :
                           x = <<w, i>> /\ from[x] = <<w, i>>
                      \/ \E w \in DOMAIN g.assigned : \E k \in 1 .. C(w) :
                           x = <<w, L(w) + k>> /\ from[x] = <<-1, order[w][k]>>
    OBVIOUS
  <2>1. CASE \E i \in 1 .. Len(g.ready) : x = <<-1, i>>
    BY <1>5, <2>1
  <2>2. CASE \E w \in DOMAIN g.assigned : \E i \in 1 .. Len(g.assigned[w]) : x = <<w, i>>
    <3>1. PICK w \in DOMAIN g.assigned : \E i \in 1 .. Len(g.assigned[w]) : x = <<w, i>>
      BY <2>2
    <3>2. PICK i \in 1 .. Len(g.assigned[w]) : x = <<w, i>>
      BY <3>1
    <3>3. w # -1 /\ i \in 1 .. L(w) + C(w) /\ L(w) \in Nat /\ C(w) \in Nat
      BY <1>2, <1>3, <1>6
    <3>4. CASE i <= L(w)
      <4>1. i \in 1 .. L(w)
        BY <3>3, <3>4
      <4>2. from[x] = <<w, i>>
        BY <3>2, <3>3, <3>4
      <4> QED BY <3>2, <4>1, <4>2
    <3>5. CASE i > L(w)
      <4>0. i - L(w) \in 1 .. C(w) /\ i = L(w) + (i - L(w))
        BY <3>3, <3>5
      <4>1. PICK k \in 1 .. C(w) : i = L(w) + k /\ i - L(w) = k
        BY <4>0
      <4>2. from[x] = <<-1, order[w][k]>>
        BY <3>2, <3>3, <3>5, <4>1
      <4>3. x = <<w, L(w) + k>>
        BY <3>2, <4>1
      <4> HIDE DEF from
      <4> QED BY <4>2, <4>3
    <3>6. i <= L(w) \/ i > L(w)
      BY <3>3
    <3> HIDE DEF from
    <3> QED BY <3>4, <3>5, <3>6
  <2> QED BY <1>1, <2>1, <2>2, SlotKinds
<1> HIDE DEF from
<1>8. from \in [Slots(g) -> Slots(f)]
  <2>1. \A x \in Slots(g) : from[x] \in Slots(f)
    <3> SUFFICES ASSUME NEW x \in Slots(g) PROVE from[x] \in Slots(f)
      OBVIOUS
    <3>1. CASE \E i \in 1 .. Len(f.ready) - n : x = <<-1, i>> /\ from[x] = <<-1, i + n>>
      <4>1. PICK i \in 1 .. Len(f.ready) - n : from[x] = <<-1, i + n>>
        BY <3>1
      <4>2. i + n \in 1 .. Len(f.ready) /\ i + n \in Int
        BY <1>2
      <4> QED BY <4>1, <4>2, SlotKinds
    <3>2. CASE \E w \in DOMAIN g.assigned : \E i \in 1 .. L(w) :
                 x = <<w, i>> /\ from[x] = <<w, i>>
      <4>1. PICK w \in DOMAIN g.assigned : \E i \in 1 .. L(w) : from[x] = <<w, i>>
        BY <3>2
      <4>2. PICK i \in 1 .. L(w) : from[x] = <<w, i>>
        BY <4>1
      <4>3. w \in DOMAIN f.assigned /\ L(w) = Len(f.assigned[w]) /\ w \in Workers
        BY <1>2, <1>6 DEF L
      <4>4. i \in Int /\ i \in 1 .. Len(f.assigned[w])
        BY <1>6, <4>3
      <4> QED BY <4>2, <4>3, <4>4, SlotKinds
    <3>3. CASE \E w \in DOMAIN g.assigned : \E k \in 1 .. C(w) :
                 x = <<w, L(w) + k>> /\ from[x] = <<-1, order[w][k]>>
      <4>1. PICK w \in DOMAIN g.assigned : \E k \in 1 .. C(w) : from[x] = <<-1, order[w][k]>>
        BY <3>3
      <4>2. PICK k \in 1 .. C(w) : from[x] = <<-1, order[w][k]>>
        BY <4>1
      <4>3. order[w][k] \in 1 .. Len(f.ready) /\ order[w][k] \in Int
        BY <1>1, <1>2, <1>4
      <4> QED BY <4>2, <4>3, SlotKinds
    <3> QED BY <1>7, <3>1, <3>2, <3>3
  <2> QED BY <2>1 DEF from
<1>9. /\ \A i \in 1 .. Len(f.ready) - n :
          <<-1, i>> \in Slots(g) /\ from[<<-1, i>>] = <<-1, i + n>>
      /\ \A w \in DOMAIN g.assigned : \A i \in 1 .. L(w) :
           <<w, i>> \in Slots(g) /\ from[<<w, i>>] = <<w, i>>
      /\ \A w \in DOMAIN g.assigned : \A k \in 1 .. C(w) :
           <<w, L(w) + k>> \in Slots(g) /\ from[<<w, L(w) + k>>] = <<-1, order[w][k]>>
  <2>1. \A i \in 1 .. Len(f.ready) - n :
          <<-1, i>> \in Slots(g) /\ from[<<-1, i>>] = <<-1, i + n>>
    <3> SUFFICES ASSUME NEW i \in 1 .. Len(f.ready) - n
                 PROVE  <<-1, i>> \in Slots(g) /\ from[<<-1, i>>] = <<-1, i + n>>
      OBVIOUS
    <3>1. <<-1, i>> \in Slots(g)
      BY <1>1, <1>2, <1>5, SlotKinds
    <3> QED BY <3>1 DEF from
  <2>2. ASSUME NEW w \in DOMAIN g.assigned, NEW i \in 1 .. L(w) + C(w)
        PROVE  /\ <<w, i>> \in Slots(g)
               /\ i <= L(w) => from[<<w, i>>] = <<w, i>>
               /\ i > L(w) => from[<<w, i>>] = <<-1, order[w][i - L(w)]>>
    <3>1. w \in Workers /\ w # -1 /\ L(w) \in Nat /\ C(w) \in Nat /\ i \in Int
      BY <1>2, <1>3, <1>6
    <3>2. <<w, i>> \in Slots(g)
      <4>1. i \in 1 .. Len(g.assigned[w])
        BY <1>6
      <4> QED BY <1>1, <3>1, <4>1, SlotKinds
    <3> QED BY <3>1, <3>2 DEF from
  <2>3. ASSUME NEW w \in DOMAIN g.assigned, NEW i \in 1 .. L(w)
        PROVE  <<w, i>> \in Slots(g) /\ from[<<w, i>>] = <<w, i>>
    <3>1. i \in 1 .. L(w) + C(w) /\ i <= L(w)
      BY <1>3, <1>6
    <3> QED BY <2>2, <3>1
  <2>4. ASSUME NEW w \in DOMAIN g.assigned, NEW k \in 1 .. C(w)
        PROVE  /\ <<w, L(w) + k>> \in Slots(g)
               /\ from[<<w, L(w) + k>>] = <<-1, order[w][k]>>
    <3>1. /\ L(w) + k \in 1 .. L(w) + C(w) /\ L(w) + k > L(w)
          /\ (L(w) + k) - L(w) = k
      BY <1>3, <1>6
    <3> QED BY <2>2, <3>1
  <2> QED BY <2>1, <2>3, <2>4
<1>10. \A y \in Slots(f) : \E x \in Slots(g) : from[x] = y
  <2> SUFFICES ASSUME NEW y \in Slots(f) PROVE \E x \in Slots(g) : from[x] = y
    OBVIOUS
  <2>1. CASE \E i \in 1 .. Len(f.ready) : y = <<-1, i>>
    <3>1. PICK i \in 1 .. Len(f.ready) : y = <<-1, i>>
      BY <2>1
    <3>2. CASE i > n
      <4>1. i - n \in 1 .. Len(f.ready) - n /\ (i - n) + n = i
        BY <1>2, <3>2
      <4> QED BY <1>9, <3>1, <4>1
    <3>3. CASE i <= n
      <4>1. i \in 1 .. n
        BY <1>2, <3>3
      <4>2. ws[i] \in DOMAIN g.assigned
        BY <1>1, <4>1
      <4>3. PICK k \in 1 .. C(ws[i]) : order[ws[i]][k] = i
        BY <1>4, <4>1, <4>2
      <4> QED BY <1>9, <3>1, <4>2, <4>3
    <3> QED BY <1>2, <3>2, <3>3
  <2>2. CASE \E w \in DOMAIN f.assigned : \E i \in 1 .. Len(f.assigned[w]) : y = <<w, i>>
    <3>1. PICK w \in DOMAIN f.assigned : \E i \in 1 .. Len(f.assigned[w]) : y = <<w, i>>
      BY <2>2
    <3>2. w \in DOMAIN g.assigned /\ L(w) = Len(f.assigned[w])
      BY <1>1, <1>6 DEF L
    <3> QED BY <1>9, <3>1, <3>2
  <2> QED BY <2>1, <2>2, SlotKinds
<1>11. \A x \in Slots(g) : JobAt(g, x) = JobAt(f, from[x])
  <2> SUFFICES ASSUME NEW x \in Slots(g) PROVE JobAt(g, x) = JobAt(f, from[x])
    OBVIOUS
  <2>1. CASE \E i \in 1 .. Len(f.ready) - n : x = <<-1, i>> /\ from[x] = <<-1, i + n>>
    <3>1. PICK i \in 1 .. Len(f.ready) - n : x = <<-1, i>> /\ from[x] = <<-1, i + n>>
      BY <2>1
    <3>2. JobAt(g, x) = g.ready[i] /\ JobAt(f, from[x]) = f.ready[i + n]
      BY <1>1, <3>1, SlotKinds
    <3> QED BY <1>5, <3>2
  <2>2. CASE \E w \in DOMAIN g.assigned : \E i \in 1 .. L(w) :
               x = <<w, i>> /\ from[x] = <<w, i>>
    <3>1. PICK w \in DOMAIN g.assigned : \E i \in 1 .. L(w) :
            x = <<w, i>> /\ from[x] = <<w, i>>
      BY <2>2
    <3>2. PICK i \in 1 .. L(w) : x = <<w, i>> /\ from[x] = <<w, i>>
      BY <3>1
    <3>3. w \in Workers /\ i \in Int /\ g.assigned[w][i] = f.assigned[w][i]
      BY <1>2, <1>6
    <3> QED BY <1>1, <3>2, <3>3, SlotKinds
  <2>3. CASE \E w \in DOMAIN g.assigned : \E k \in 1 .. C(w) :
               x = <<w, L(w) + k>> /\ from[x] = <<-1, order[w][k]>>
    <3>1. PICK w \in DOMAIN g.assigned : \E k \in 1 .. C(w) :
            x = <<w, L(w) + k>> /\ from[x] = <<-1, order[w][k]>>
      BY <2>3
    <3>2. PICK k \in 1 .. C(w) : x = <<w, L(w) + k>> /\ from[x] = <<-1, order[w][k]>>
      BY <3>1
    <3>3. /\ w \in Workers /\ L(w) + k \in Int
          /\ g.assigned[w][L(w) + k] = f.ready[order[w][k]]
      BY <1>2, <1>6
    <3> QED BY <1>1, <3>2, <3>3, SlotKinds
  <2> QED BY <1>7, <2>1, <2>2, <2>3
<1>12. \A x, y \in Slots(g) : from[x] = from[y] => x = y
  <2> DEFINE ToReady(x) == \E i \in 1 .. Len(f.ready) - n :
                             x = <<-1, i>> /\ from[x] = <<-1, i + n>>
             ToTicket(x) == \E w \in DOMAIN g.assigned : \E i \in 1 .. L(w) :
                              x = <<w, i>> /\ from[x] = <<w, i>>
             ToGiven(x) == \E w \in DOMAIN g.assigned : \E k \in 1 .. C(w) :
                             x = <<w, L(w) + k>> /\ from[x] = <<-1, order[w][k]>>
  <2> SUFFICES ASSUME NEW x \in Slots(g), NEW y \in Slots(g), from[x] = from[y]
               PROVE  x = y
    OBVIOUS
  <2>1. ASSUME NEW z \in Slots(g), ToTicket(z) PROVE from[z] = z /\ z[1] # -1
    <3>1. \A w \in DOMAIN g.assigned : w # -1
      BY <1>2
    <3> QED BY <2>1, <3>1
  <2>2. ASSUME NEW z \in Slots(g), ToReady(z)
        PROVE  from[z][1] = -1 /\ from[z][2] \in Int /\ from[z][2] > n /\ z = <<-1, from[z][2] - n>>
    <3>1. PICK i \in 1 .. Len(f.ready) - n : z = <<-1, i>> /\ from[z] = <<-1, i + n>>
      BY <2>2
    <3>2. i + n \in Int /\ i + n > n /\ (i + n) - n = i
      BY <1>2
    <3> QED BY <3>1, <3>2
  <2>3. ASSUME NEW z \in Slots(g), ToGiven(z)
        PROVE  \E w \in DOMAIN g.assigned : \E k \in 1 .. C(w) :
                 /\ z = <<w, L(w) + k>>
                 /\ from[z][1] = -1 /\ from[z][2] = order[w][k]
                 /\ order[w][k] \in 1 .. n /\ ws[order[w][k]] = w
    <3>1. PICK w \in DOMAIN g.assigned : \E k \in 1 .. C(w) :
            z = <<w, L(w) + k>> /\ from[z] = <<-1, order[w][k]>>
      BY <2>3
    <3>2. PICK k \in 1 .. C(w) : z = <<w, L(w) + k>> /\ from[z] = <<-1, order[w][k]>>
      BY <3>1
    <3>3. order[w][k] \in 1 .. n /\ ws[order[w][k]] = w
      BY <1>4
    <3> QED BY <3>2, <3>3
  <2>11. /\ ToReady(x) \/ ToTicket(x) \/ ToGiven(x)
         /\ ToReady(y) \/ ToTicket(y) \/ ToGiven(y)
    BY <1>7
  <2> HIDE DEF ToReady, ToTicket, ToGiven
  <2>4. CASE ToReady(x) /\ ToReady(y)
    BY <2>2, <2>4
  <2>5. CASE ToTicket(x) /\ ToTicket(y)
    BY <2>1, <2>5
  <2>6. CASE ToGiven(x) /\ ToGiven(y)
    <3>1. PICK w \in DOMAIN g.assigned : \E k \in 1 .. C(w) :
            /\ x = <<w, L(w) + k>> /\ from[x][2] = order[w][k] /\ ws[order[w][k]] = w
      BY <2>3, <2>6
    <3>2. PICK k \in 1 .. C(w) :
            /\ x = <<w, L(w) + k>> /\ from[x][2] = order[w][k] /\ ws[order[w][k]] = w
      BY <3>1
    <3>3. PICK v \in DOMAIN g.assigned : \E l \in 1 .. C(v) :
            /\ y = <<v, L(v) + l>> /\ from[y][2] = order[v][l] /\ ws[order[v][l]] = v
      BY <2>3, <2>6
    <3>4. PICK l \in 1 .. C(v) :
            /\ y = <<v, L(v) + l>> /\ from[y][2] = order[v][l] /\ ws[order[v][l]] = v
      BY <3>3
    <3>5. w = v
      BY <3>2, <3>4
    <3>6. k = l
      BY <1>4, <3>2, <3>4, <3>5
    <3> QED BY <3>2, <3>4, <3>5, <3>6
  <2>7. ASSUME NEW a \in Slots(g), NEW b \in Slots(g), ToReady(a), ToTicket(b)
        PROVE  from[a] # from[b]
    BY <2>1, <2>2, <2>7
  <2>8. ASSUME NEW a \in Slots(g), NEW b \in Slots(g), ToGiven(a), ToTicket(b)
        PROVE  from[a] # from[b]
    BY <2>1, <2>3, <2>8
  <2>9. ASSUME NEW a \in Slots(g), NEW b \in Slots(g), ToReady(a), ToGiven(b)
        PROVE  from[a] # from[b]
    <3>1. from[a][2] > n
      BY <2>2, <2>9
    <3>2. from[b][2] \in 1 .. n
      BY <2>3, <2>9
    <3> QED BY <1>2, <3>1, <3>2
  <2>12. CASE ToReady(x)
    BY <2>4, <2>7, <2>9, <2>11, <2>12
  <2>13. CASE ToTicket(x)
    BY <2>5, <2>7, <2>8, <2>11, <2>13
  <2>14. CASE ToGiven(x)
    BY <2>6, <2>8, <2>9, <2>11, <2>14
  <2> QED BY <2>11, <2>12, <2>13, <2>14
<1> QED BY <1>8, <1>10, <1>11, <1>12, Rearrangement DEF g

-----------------------------------------------------------------------------
(* Jobs are taken back.                                                     *)

Limited(f) == \A w \in DOMAIN f.assigned : Len(f.assigned[w]) <= JobLimit

\* g is f but for the order of its jobs; what tickets it has, f has too.
TakenBack(f, g) ==
  /\ g \in Farms /\ Limited(g) /\ Rearranged(f, g)
  /\ g.key = f.key /\ g.body = f.body /\ g.pending = f.pending
  /\ DOMAIN g.assigned \subseteq DOMAIN f.assigned
  /\ \A w \in DOMAIN g.assigned : \A i \in 1 .. Len(g.assigned[w]) :
       \E j \in 1 .. Len(f.assigned[w]) : g.assigned[w][i] = f.assigned[w][j]

\* Late tickets go to the front of the jobs that are ready, the others stay.
LEMMA RestartedJobs ==
  ASSUME NEW f \in Farms, Limited(f), NEW old
  PROVE  /\ TakenBack(f, Restarted(f, old))
         /\ Restarted(f, old).workers = f.workers
<1> DEFINE g == Restarted(f, old)
           D == DOMAIN f.assigned
           IsOld(w) == {i \in 1 .. Len(f.assigned[w]) : f.assigned[w][i] \in old}
           late == UNION {{w} \X IsOld(w) : w \in D}
           C == Cardinality(late)
           order == Sorted(late, LAMBDA c, d : Earlier(d, c))
           front == [n \in 1 .. C |-> f.assigned[order[n][1]][order[n][2]]]
           Stay(w) == (1 .. Len(f.assigned[w])) \ IsOld(w)
           assigned == [w \in D |-> AtPlaces(f.assigned[w], Stay(w))]
<1>1. /\ f.ready \in Seq(Msgs) /\ Len(f.ready) \in Nat
      /\ D \subseteq Workers
      /\ \A w \in D : f.assigned[w] \in Seq(Msgs) /\ Len(f.assigned[w]) \in 0 .. JobLimit
  <2>1. \A w \in D : f.assigned[w] \in Seq(Msgs)
    BY DEF Farms
  <2>2. f.ready \in Seq(Msgs) /\ D \subseteq Workers
    BY DEF Farms
  <2> QED BY <2>1, <2>2 DEF Limited
<1>2. JobLimit \in Nat /\ Workers \subseteq Nat /\ IsFiniteSet(Workers)
  BY FarmAssumption
<1>3. g = [f EXCEPT !.ready = front \o f.ready, !.assigned = assigned]
  BY DEF Restarted
<1>4. \A w, i : <<w, i>> \in late <=>
        w \in D /\ i \in 1 .. Len(f.assigned[w]) /\ f.assigned[w][i] \in old
  OBVIOUS
<1>5. \A x \in late : x \in D \X (1 .. JobLimit)
  <2> SUFFICES ASSUME NEW w \in D, NEW x \in {w} \X IsOld(w)
               PROVE  x \in D \X (1 .. JobLimit)
    OBVIOUS
  <2>1. IsOld(w) \subseteq 1 .. JobLimit
    BY <1>1, <1>2
  <2> QED BY <2>1
<1> HIDE DEF g, late
<1>6. C \in Nat /\ Lists(order, late)
  <2>1. IsFiniteSet(1 .. JobLimit)
    BY <1>2, FS_Interval
  <2>2. IsFiniteSet(D)
    BY <1>1, <1>2, FS_Subset
  <2>3. IsFiniteSet(D \X (1 .. JobLimit))
    BY <2>1, <2>2, FS_Product
  <2>4. IsFiniteSet(late)
    <3>1. late \in SUBSET (D \X (1 .. JobLimit))
      BY <1>5
    <3> QED BY <2>3, <3>1, FS_Subset
  <2>5. late \in SUBSET (Int \X Int)
    <3>1. D \subseteq Int /\ 1 .. JobLimit \subseteq Int
      <4>1. \A v \in Workers : v \in Int
        BY <1>2
      <4> HIDE DEF D
      <4> QED BY <1>1, <1>2, <4>1
    <3>2. D \X (1 .. JobLimit) \subseteq Int \X Int
      BY <3>1
    <3> QED BY <1>5, <3>2
  <2> QED BY <2>4, <2>5, SortedBackwards
<1> HIDE DEF order, C
<1>7. /\ \A n \in 1 .. C : order[n] \in late
      /\ \A n, k \in 1 .. C : order[n] = order[k] => n = k
      /\ \A x \in late : \E n \in 1 .. C : order[n] = x
  BY <1>6 DEF Lists, C
<1>8. \A n \in 1 .. C :
        /\ order[n] = <<order[n][1], order[n][2]>>
        /\ order[n][1] \in D /\ order[n][2] \in 1 .. Len(f.assigned[order[n][1]])
        /\ front[n] \in Msgs
  <2> SUFFICES ASSUME NEW n \in 1 .. C
               PROVE  /\ order[n] = <<order[n][1], order[n][2]>>
                      /\ order[n][1] \in D
                      /\ order[n][2] \in 1 .. Len(f.assigned[order[n][1]])
                      /\ front[n] \in Msgs
    OBVIOUS
  <2>1. order[n] \in late /\ order[n] \in D \X (1 .. JobLimit)
    BY <1>5, <1>7
  <2>2. order[n] = <<order[n][1], order[n][2]>>
    BY <2>1
  <2>3. order[n][1] \in D /\ order[n][2] \in 1 .. Len(f.assigned[order[n][1]])
    BY <1>4, <2>1, <2>2
  <2> QED BY <1>1, <2>2, <2>3
<1>9. front \in Seq(Msgs) /\ Len(front) = C
  BY <1>6, <1>8
<1>10. \A w \in D :
         /\ assigned[w] \in Seq(Msgs) /\ Len(assigned[w]) = Cardinality(Stay(w))
         /\ Cardinality(Stay(w)) \in Nat /\ Cardinality(Stay(w)) <= Len(f.assigned[w])
         /\ \E o : /\ Lists(o, Stay(w))
                   /\ \A n \in 1 .. Cardinality(Stay(w)) :
                        assigned[w][n] = f.assigned[w][o[n]]
  <2> SUFFICES ASSUME NEW w \in D
               PROVE  /\ assigned[w] \in Seq(Msgs) /\ Len(assigned[w]) = Cardinality(Stay(w))
                      /\ Cardinality(Stay(w)) \in Nat
                      /\ Cardinality(Stay(w)) <= Len(f.assigned[w])
                      /\ \E o : /\ Lists(o, Stay(w))
                                /\ \A n \in 1 .. Cardinality(Stay(w)) :
                                     assigned[w][n] = f.assigned[w][o[n]]
    OBVIOUS
  <2>1. Stay(w) \in SUBSET (1 .. Len(f.assigned[w])) /\ f.assigned[w] \in Seq(Msgs)
    BY <1>1
  <2>2. assigned[w] = AtPlaces(f.assigned[w], Stay(w))
    OBVIOUS
  <2> HIDE DEF Stay, assigned
  <2> QED BY <2>1, <2>2, Taken
<1>11. assigned \in [D -> Seq(Msgs)]
  BY <1>10
<1> HIDE DEF front, assigned
<1>12. /\ g \in Farms /\ g.ready = front \o f.ready /\ g.assigned = assigned
       /\ g.workers = f.workers /\ g.key = f.key /\ g.body = f.body /\ g.pending = f.pending
  <2>1. front \o f.ready \in Seq(Msgs)
    BY <1>1, <1>9, Joining
  <2>2. assigned \in UNION {[ws -> Seq(Msgs)] : ws \in SUBSET Workers}
    BY <1>1, <1>11
  <2> HIDE DEF D
  <2> QED BY <1>3, <2>1, <2>2 DEF Farms
<1> DEFINE kept == [w \in D |->
                      CHOOSE o : /\ Lists(o, Stay(w))
                                 /\ \A n \in 1 .. Cardinality(Stay(w)) :
                                      assigned[w][n] = f.assigned[w][o[n]]]
           K(w) == Cardinality(Stay(w))
           from == [x \in Slots(g) |->
                      IF x[1] = -1
                      THEN IF x[2] <= C THEN order[x[2]] ELSE <<-1, x[2] - C>>
                      ELSE <<x[1], kept[x[1]][x[2]]>>]
<1>13. \A w \in D : /\ Lists(kept[w], Stay(w))
                    /\ \A n \in 1 .. K(w) : assigned[w][n] = f.assigned[w][kept[w][n]]
  <2> SUFFICES ASSUME NEW w \in D
               PROVE  /\ Lists(kept[w], Stay(w))
                      /\ \A n \in 1 .. K(w) : assigned[w][n] = f.assigned[w][kept[w][n]]
    OBVIOUS
  <2>1. kept[w] = CHOOSE o : /\ Lists(o, Stay(w))
                             /\ \A n \in 1 .. K(w) : assigned[w][n] = f.assigned[w][o[n]]
    BY Zenon
  <2> HIDE DEF kept, Stay
  <2> QED BY <1>10, <2>1, Zenon
<1> HIDE DEF kept
<1>14. \A w \in D :
         /\ K(w) \in Nat /\ Len(g.assigned[w]) = K(w)
         /\ \A n \in 1 .. K(w) :
              /\ kept[w][n] \in 1 .. Len(f.assigned[w])
              /\ f.assigned[w][kept[w][n]] \notin old
              /\ g.assigned[w][n] = f.assigned[w][kept[w][n]]
         /\ \A n, k \in 1 .. K(w) : kept[w][n] = kept[w][k] => n = k
         /\ \A i \in 1 .. Len(f.assigned[w]) : f.assigned[w][i] \notin old =>
              \E n \in 1 .. K(w) : kept[w][n] = i
  <2> SUFFICES ASSUME NEW w \in D
               PROVE  /\ K(w) \in Nat /\ Len(g.assigned[w]) = K(w)
                      /\ \A n \in 1 .. K(w) :
                           /\ kept[w][n] \in 1 .. Len(f.assigned[w])
                           /\ f.assigned[w][kept[w][n]] \notin old
                           /\ g.assigned[w][n] = f.assigned[w][kept[w][n]]
                      /\ \A n, k \in 1 .. K(w) : kept[w][n] = kept[w][k] => n = k
                      /\ \A i \in 1 .. Len(f.assigned[w]) : f.assigned[w][i] \notin old =>
                           \E n \in 1 .. K(w) : kept[w][n] = i
    OBVIOUS
  <2>1. \A i : i \in Stay(w) <=> i \in 1 .. Len(f.assigned[w]) /\ f.assigned[w][i] \notin old
    OBVIOUS
  <2>2. K(w) \in Nat /\ Len(g.assigned[w]) = K(w)
    BY <1>10, <1>12
  <2>3. /\ \A n \in 1 .. K(w) : kept[w][n] \in Stay(w)
        /\ \A n, k \in 1 .. K(w) : kept[w][n] = kept[w][k] => n = k
        /\ \A i \in Stay(w) : \E n \in 1 .. K(w) : kept[w][n] = i
    <3>1. Lists(kept[w], Stay(w))
      BY <1>13
    <3> HIDE DEF kept, Stay
    <3> QED BY <3>1 DEF Lists, K
  <2>4. \A n \in 1 .. K(w) : g.assigned[w][n] = f.assigned[w][kept[w][n]]
    BY <1>12, <1>13
  <2> HIDE DEF Stay, K
  <2> QED BY <2>1, <2>2, <2>3, <2>4
<1> HIDE DEF K, Stay
<1>15. /\ Len(g.ready) = C + Len(f.ready)
       /\ \A n \in 1 .. C : g.ready[n] = f.assigned[order[n][1]][order[n][2]]
       /\ \A i \in 1 .. Len(f.ready) : g.ready[C + i] = f.ready[i]
  <2>1. /\ Len(front \o f.ready) = Len(front) + Len(f.ready)
        /\ \A i \in 1 .. Len(front) : (front \o f.ready)[i] = front[i]
        /\ \A i \in 1 .. Len(f.ready) : (front \o f.ready)[Len(front) + i] = f.ready[i]
    <3>0. front \in Seq(Msgs) /\ f.ready \in Seq(Msgs)
      BY <1>1, <1>9
    <3>1. Len(front \o f.ready) = Len(front) + Len(f.ready)
      BY <3>0, Joining
    <3>2. \A i \in 1 .. Len(front) : (front \o f.ready)[i] = front[i]
      BY <3>0, Joining
    <3>3. \A i \in 1 .. Len(f.ready) : (front \o f.ready)[Len(front) + i] = f.ready[i]
      BY <3>0, Joining
    <3> QED BY <3>1, <3>2, <3>3
  <2>2. \A n \in 1 .. C : front[n] = f.assigned[order[n][1]][order[n][2]]
    BY DEF front
  <2> QED BY <1>9, <1>12, <2>1, <2>2
<1>16. DOMAIN g.assigned = D
  BY <1>11, <1>12
<1>17. \A w \in D : w \in Workers /\ w \in Int /\ w # -1
  <2>1. \A v \in Workers : v \in Int /\ v # -1
    BY <1>2
  <2> HIDE DEF D
  <2> QED BY <1>1, <2>1
\* From where the jobs come: from a late ticket, from where they were.
<1>18. /\ \A n \in 1 .. C : <<-1, n>> \in Slots(g) /\ from[<<-1, n>>] = order[n]
       /\ \A i \in 1 .. Len(f.ready) :
            <<-1, C + i>> \in Slots(g) /\ from[<<-1, C + i>>] = <<-1, i>>
       /\ \A w \in D : \A n \in 1 .. K(w) :
            <<w, n>> \in Slots(g) /\ from[<<w, n>>] = <<w, kept[w][n]>>
  <2>1. \A n \in 1 .. C : <<-1, n>> \in Slots(g) /\ from[<<-1, n>>] = order[n]
    <3> SUFFICES ASSUME NEW n \in 1 .. C
                 PROVE  <<-1, n>> \in Slots(g) /\ from[<<-1, n>>] = order[n]
      OBVIOUS
    <3>1. n \in Int /\ n \in 1 .. Len(g.ready) /\ n <= C
      BY <1>1, <1>6, <1>15
    <3>2. <<-1, n>> \in Slots(g)
      BY <1>12, <3>1, SlotKinds
    <3> QED BY <3>1, <3>2 DEF from
  <2>2. \A i \in 1 .. Len(f.ready) :
          <<-1, C + i>> \in Slots(g) /\ from[<<-1, C + i>>] = <<-1, i>>
    <3> SUFFICES ASSUME NEW i \in 1 .. Len(f.ready)
                 PROVE  <<-1, C + i>> \in Slots(g) /\ from[<<-1, C + i>>] = <<-1, i>>
      OBVIOUS
    <3>1. C + i \in Int /\ C + i \in 1 .. Len(g.ready) /\ ~(C + i <= C) /\ (C + i) - C = i
      BY <1>1, <1>6, <1>15
    <3>2. <<-1, C + i>> \in Slots(g)
      BY <1>12, <3>1, SlotKinds
    <3> QED BY <3>1, <3>2 DEF from
  <2>3. \A w \in D : \A n \in 1 .. K(w) :
          <<w, n>> \in Slots(g) /\ from[<<w, n>>] = <<w, kept[w][n]>>
    <3> SUFFICES ASSUME NEW w \in D, NEW n \in 1 .. K(w)
                 PROVE  <<w, n>> \in Slots(g) /\ from[<<w, n>>] = <<w, kept[w][n]>>
      OBVIOUS
    <3>1. n \in Int /\ n \in 1 .. Len(g.assigned[w]) /\ w \in Workers /\ w # -1
      BY <1>14, <1>17
    <3>2. <<w, n>> \in Slots(g)
      BY <1>12, <1>16, <3>1, SlotKinds
    <3> QED BY <3>1, <3>2 DEF from
  <2> QED BY <2>1, <2>2, <2>3
<1> HIDE DEF from, D
<1>19. \A x \in Slots(g) :
         \/ \E n \in 1 .. C : x = <<-1, n>>
         \/ \E i \in 1 .. Len(f.ready) : x = <<-1, C + i>>
         \/ \E w \in D : \E n \in 1 .. K(w) : x = <<w, n>>
  <2> SUFFICES ASSUME NEW x \in Slots(g)
               PROVE  \/ \E n \in 1 .. C : x = <<-1, n>>
                      \/ \E i \in 1 .. Len(f.ready) : x = <<-1, C + i>>
                      \/ \E w \in D : \E n \in 1 .. K(w) : x = <<w, n>>
    OBVIOUS
  <2>1. CASE \E i \in 1 .. Len(g.ready) : x = <<-1, i>>
    <3>1. PICK i \in 1 .. Len(g.ready) : x = <<-1, i>>
      BY <2>1
    <3>2. CASE i <= C
      <4>1. i \in 1 .. C
        BY <1>1, <1>6, <1>15, <3>2
      <4> QED BY <3>1, <4>1
    <3>3. CASE i > C
      <4>1. i - C \in 1 .. Len(f.ready) /\ i = C + (i - C)
        BY <1>1, <1>6, <1>15, <3>3
      <4>2. PICK j \in 1 .. Len(f.ready) : i = C + j
        BY <4>1
      <4> QED BY <3>1, <4>2
    <3> QED BY <1>6, <3>2, <3>3
  <2>2. CASE \E w \in DOMAIN g.assigned : \E i \in 1 .. Len(g.assigned[w]) : x = <<w, i>>
    BY <1>14, <1>16, <2>2
  <2> QED BY <1>12, <2>1, <2>2, SlotKinds
<1>20. \A n \in 1 .. C :
         /\ order[n] \in Slots(f) /\ order[n][1] # -1
         /\ JobAt(f, order[n]) = f.assigned[order[n][1]][order[n][2]]
         /\ JobAt(f, order[n]) \in old
  <2> SUFFICES ASSUME NEW n \in 1 .. C
               PROVE  /\ order[n] \in Slots(f) /\ order[n][1] # -1
                      /\ JobAt(f, order[n]) = f.assigned[order[n][1]][order[n][2]]
                      /\ JobAt(f, order[n]) \in old
    OBVIOUS
  <2> DEFINE w == order[n][1]
             i == order[n][2]
  <2>1. order[n] = <<w, i>> /\ w \in D /\ i \in 1 .. Len(f.assigned[w]) /\ i \in Int
    BY <1>8
  <2>2. w \in Workers /\ w # -1
    BY <1>17, <2>1
  <2>3. order[n] \in late
    BY <1>7
  <2> HIDE DEF w, i
  <2>4. f.assigned[w][i] \in old
    BY <1>4, <2>1, <2>3
  <2>5. order[n] \in Slots(f) /\ JobAt(f, order[n]) = f.assigned[w][i]
    BY <2>1, <2>2, SlotKinds DEF D
  <2> QED BY <2>2, <2>4, <2>5 DEF w, i
<1>21. \A w \in D : \A n \in 1 .. K(w) :
         /\ <<w, kept[w][n]>> \in Slots(f)
         /\ JobAt(f, <<w, kept[w][n]>>) = f.assigned[w][kept[w][n]]
         /\ JobAt(f, <<w, kept[w][n]>>) \notin old
  <2> SUFFICES ASSUME NEW w \in D, NEW n \in 1 .. K(w)
               PROVE  /\ <<w, kept[w][n]>> \in Slots(f)
                      /\ JobAt(f, <<w, kept[w][n]>>) = f.assigned[w][kept[w][n]]
                      /\ JobAt(f, <<w, kept[w][n]>>) \notin old
    OBVIOUS
  <2>1. /\ w \in Workers /\ kept[w][n] \in Int /\ kept[w][n] \in 1 .. Len(f.assigned[w])
        /\ f.assigned[w][kept[w][n]] \notin old
    BY <1>14, <1>17
  <2> QED BY <2>1, SlotKinds DEF D
<1>22. from \in [Slots(g) -> Slots(f)]
  <2>1. \A x \in Slots(g) : from[x] \in Slots(f)
    <3> SUFFICES ASSUME NEW x \in Slots(g) PROVE from[x] \in Slots(f)
      OBVIOUS
    <3>1. \A i \in 1 .. Len(f.ready) : <<-1, i>> \in Slots(f)
      <4>1. \A i \in 1 .. Len(f.ready) : i \in Int
        OBVIOUS
      <4> QED BY <4>1, SlotKinds
    <3> QED BY <1>18, <1>19, <1>20, <1>21, <3>1
  <2> QED BY <2>1 DEF from
<1>23. \A x \in Slots(g) : JobAt(g, x) = JobAt(f, from[x])
  <2> SUFFICES ASSUME NEW x \in Slots(g) PROVE JobAt(g, x) = JobAt(f, from[x])
    OBVIOUS
  <2>1. CASE \E n \in 1 .. C : x = <<-1, n>>
    <3>1. PICK n \in 1 .. C : x = <<-1, n>>
      BY <2>1
    <3>2. JobAt(g, x) = g.ready[n]
      BY <1>12, <3>1, SlotKinds
    <3> QED BY <1>15, <1>18, <1>20, <3>1, <3>2
  <2>2. CASE \E i \in 1 .. Len(f.ready) : x = <<-1, C + i>>
    <3>1. PICK i \in 1 .. Len(f.ready) : x = <<-1, C + i>>
      BY <2>2
    <3>2. JobAt(g, x) = g.ready[C + i] /\ JobAt(f, <<-1, i>>) = f.ready[i]
      BY <1>12, <3>1, SlotKinds
    <3> QED BY <1>15, <1>18, <3>1, <3>2
  <2>3. CASE \E w \in D : \E n \in 1 .. K(w) : x = <<w, n>>
    <3>1. PICK w \in D : \E n \in 1 .. K(w) : x = <<w, n>>
      BY <2>3
    <3>2. PICK n \in 1 .. K(w) : x = <<w, n>>
      BY <3>1
    <3>3. JobAt(g, x) = g.assigned[w][n]
      <4>1. w \in Workers /\ n \in Int
        BY <1>17
      <4> QED BY <1>12, <3>2, <4>1, SlotKinds
    <3>4. from[x] = <<w, kept[w][n]>>
      BY <1>18, <3>2
    <3>5. JobAt(f, from[x]) = f.assigned[w][kept[w][n]]
      BY <1>21, <3>4
    <3> QED BY <1>14, <3>3, <3>5
  <2> QED BY <1>19, <2>1, <2>2, <2>3
<1>24. \A y \in Slots(f) : \E x \in Slots(g) : from[x] = y
  <2> SUFFICES ASSUME NEW y \in Slots(f) PROVE \E x \in Slots(g) : from[x] = y
    OBVIOUS
  <2>1. CASE \E i \in 1 .. Len(f.ready) : y = <<-1, i>>
    BY <1>18, <2>1
  <2>2. CASE \E w \in D : \E i \in 1 .. Len(f.assigned[w]) : y = <<w, i>>
    <3>1. PICK w \in D : \E i \in 1 .. Len(f.assigned[w]) : y = <<w, i>>
      BY <2>2
    <3>2. PICK i \in 1 .. Len(f.assigned[w]) : y = <<w, i>>
      BY <3>1
    <3>3. CASE f.assigned[w][i] \in old
      <4>1. y \in late
        BY <1>4, <3>2, <3>3
      <4>2. PICK n \in 1 .. C : order[n] = y
        BY <1>7, <4>1
      <4> QED BY <1>18, <4>2
    <3>4. CASE f.assigned[w][i] \notin old
      <4>1. PICK n \in 1 .. K(w) : kept[w][n] = i
        BY <1>14, <3>4
      <4> QED BY <1>18, <3>2, <4>1
    <3> QED BY <3>3, <3>4
  <2> QED BY <2>1, <2>2, SlotKinds DEF D
<1>25. \A x, y \in Slots(g) : from[x] = from[y] => x = y
  <2> SUFFICES ASSUME NEW x \in Slots(g), NEW y \in Slots(g), from[x] = from[y]
               PROVE  x = y
    OBVIOUS
  <2> DEFINE Late(z) == \E n \in 1 .. C : z = <<-1, n>>
             Ready(z) == \E i \in 1 .. Len(f.ready) : z = <<-1, C + i>>
             Kept(z) == \E w \in D : \E n \in 1 .. K(w) : z = <<w, n>>
  <2>1. ASSUME NEW z \in Slots(g), Late(z)
        PROVE  from[z][1] # -1 /\ JobAt(f, from[z]) \in old
    BY <1>18, <1>20, <2>1
  <2>2. ASSUME NEW z \in Slots(g), Ready(z) PROVE from[z][1] = -1
    BY <1>18, <2>2
  <2>3. ASSUME NEW z \in Slots(g), Kept(z)
        PROVE  from[z][1] # -1 /\ JobAt(f, from[z]) \notin old
    <3>1. PICK w \in D : \E n \in 1 .. K(w) : z = <<w, n>>
      BY <2>3
    <3>2. PICK n \in 1 .. K(w) : z = <<w, n>>
      BY <3>1
    <3>3. from[z] = <<w, kept[w][n]>> /\ w # -1
      BY <1>17, <1>18, <3>2
    <3> QED BY <1>21, <3>3
  <2>4. CASE Late(x) /\ Late(y)
    BY <1>7, <1>18, <2>4
  <2>5. CASE Ready(x) /\ Ready(y)
    BY <1>18, <2>5
  <2>6. CASE Kept(x) /\ Kept(y)
    <3>1. PICK w \in D : \E n \in 1 .. K(w) : x = <<w, n>>
      BY <2>6
    <3>2. PICK n \in 1 .. K(w) : x = <<w, n>>
      BY <3>1
    <3>3. PICK v \in D : \E k \in 1 .. K(v) : y = <<v, k>>
      BY <2>6
    <3>4. PICK k \in 1 .. K(v) : y = <<v, k>>
      BY <3>3
    <3>5. w = v /\ kept[w][n] = kept[v][k]
      BY <1>18, <3>2, <3>4
    <3> QED BY <1>14, <3>2, <3>4, <3>5
  <2>7. Late(x) \/ Ready(x) \/ Kept(x)
    BY <1>19
  <2>8. Late(y) \/ Ready(y) \/ Kept(y)
    BY <1>19
  <2> HIDE DEF Late, Ready, Kept
  <2> QED BY <2>1, <2>2, <2>3, <2>4, <2>5, <2>6, <2>7, <2>8
<1>26. Rearranged(f, g)
  BY <1>22, <1>23, <1>24, <1>25, Rearrangement
<1>27. Limited(g)
  <2>1. \A w \in D : K(w) <= Len(f.assigned[w]) /\ Len(f.assigned[w]) <= JobLimit
    BY <1>1, <1>10 DEF K
  <2>2. \A w \in D : Len(f.assigned[w]) \in Int
    BY <1>1
  <2> QED BY <1>2, <1>14, <1>16, <2>1, <2>2 DEF Limited
<1>28. \A w \in DOMAIN g.assigned : \A i \in 1 .. Len(g.assigned[w]) :
         \E j \in 1 .. Len(f.assigned[w]) : g.assigned[w][i] = f.assigned[w][j]
  <2> SUFFICES ASSUME NEW w \in D, NEW i \in 1 .. Len(g.assigned[w])
               PROVE  \E j \in 1 .. Len(f.assigned[w]) : g.assigned[w][i] = f.assigned[w][j]
    BY <1>16
  <2>1. i \in 1 .. K(w)
    BY <1>14
  <2>2. /\ kept[w][i] \in 1 .. Len(f.assigned[w])
        /\ g.assigned[w][i] = f.assigned[w][kept[w][i]]
    BY <1>14, <2>1
  <2> QED BY <2>2
<1> QED BY <1>12, <1>16, <1>26, <1>27, <1>28 DEF g, D, TakenBack

\* The workers are listed once each, and only they have tickets.
Listed(f) ==
  /\ \A a, b \in 1 .. Len(f.workers) : f.workers[a] = f.workers[b] => a = b
  /\ \A w \in DOMAIN f.assigned : \E a \in 1 .. Len(f.workers) : f.workers[a] = w

\* The tickets of those that have left go to the end of the jobs that are ready.
LEMMA DepartedJobs ==
  ASSUME NEW f \in Farms, Limited(f), Listed(f), NEW present
  PROVE  /\ TakenBack(f, Departed(f, present))
         /\ Listed(Departed(f, present))
<1> DEFINE g == Departed(f, present)
           D == DOMAIN f.assigned
           N == Len(f.workers)
           gone == {i \in 1 .. N : f.workers[i] \notin present}
           theirs == UNION {{i} \X (1 .. Len(Tickets(f, f.workers[i]))) : i \in gone}
           C == Cardinality(theirs)
           order == Sorted(theirs, Earlier)
           back == [n \in 1 .. C |-> f.assigned[f.workers[order[n][1]]][order[n][2]]]
           left == {f.workers[i] : i \in gone}
           workers == AtPlaces(f.workers, (1 .. N) \ gone)
           assigned == [w \in D \ left |-> f.assigned[w]]
<1>1. /\ f.ready \in Seq(Msgs) /\ Len(f.ready) \in Nat
      /\ f.workers \in Seq(Workers) /\ N \in Nat
      /\ D \subseteq Workers
      /\ \A w \in D : f.assigned[w] \in Seq(Msgs) /\ Len(f.assigned[w]) \in 0 .. JobLimit
  <2>1. \A w \in D : f.assigned[w] \in Seq(Msgs)
    BY DEF Farms
  <2>2. f.ready \in Seq(Msgs) /\ D \subseteq Workers /\ f.workers \in Seq(Workers)
    BY DEF Farms
  <2> QED BY <2>1, <2>2 DEF Limited
<1>2. JobLimit \in Nat /\ \A v \in Workers : v \in Int /\ v # -1
  BY FarmAssumption
<1>3. g = [f EXCEPT !.workers = workers, !.ready = f.ready \o back, !.assigned = assigned]
  BY DEF Departed
<1>4. \A a \in 1 .. N :
        /\ f.workers[a] \in Workers
        /\ f.workers[a] \in D =>
             Tickets(f, f.workers[a]) = f.assigned[f.workers[a]]
        /\ f.workers[a] \notin D => Len(Tickets(f, f.workers[a])) = 0
  <2>1. \A a \in 1 .. N : f.workers[a] \in Workers
    BY <1>1
  <2> QED BY <2>1, TicketsType
<1>5. \A a, i : <<a, i>> \in theirs <=>
        /\ a \in gone /\ f.workers[a] \in D
        /\ i \in 1 .. Len(f.assigned[f.workers[a]])
  <2> SUFFICES ASSUME NEW a, NEW i
               PROVE  <<a, i>> \in theirs <=>
                        /\ a \in gone /\ f.workers[a] \in D
                        /\ i \in 1 .. Len(f.assigned[f.workers[a]])
    OBVIOUS
  <2>1. <<a, i>> \in theirs <=> a \in gone /\ i \in 1 .. Len(Tickets(f, f.workers[a]))
    <3> HIDE DEF gone
    <3> QED OBVIOUS
  <2>2. ASSUME a \in gone
        PROVE  i \in 1 .. Len(Tickets(f, f.workers[a])) <=>
                 f.workers[a] \in D /\ i \in 1 .. Len(f.assigned[f.workers[a]])
    BY <1>4, <2>2
  <2> HIDE DEF theirs, gone
  <2> QED BY <2>1, <2>2
<1>6. \A x \in theirs : x \in (1 .. N) \X (1 .. JobLimit)
  <2> SUFFICES ASSUME NEW a \in gone, NEW x \in {a} \X (1 .. Len(Tickets(f, f.workers[a])))
               PROVE  x \in (1 .. N) \X (1 .. JobLimit)
    OBVIOUS
  <2>1. a \in 1 .. N
    OBVIOUS
  <2>2. Len(Tickets(f, f.workers[a])) \in 0 .. JobLimit
    <3>1. CASE f.workers[a] \in D
      <4>1. Tickets(f, f.workers[a]) = f.assigned[f.workers[a]]
        BY <1>4, <2>1, <3>1
      <4> QED BY <1>1, <3>1, <4>1
    <3>2. CASE f.workers[a] \notin D
      BY <1>2, <1>4, <2>1, <3>2
    <3> QED BY <3>1, <3>2
  <2>3. 1 .. Len(Tickets(f, f.workers[a])) \subseteq 1 .. JobLimit
    BY <1>2, <2>2
  <2> QED BY <2>1, <2>3
<1> HIDE DEF g, theirs
<1>7. C \in Nat /\ Lists(order, theirs)
  <2>1. IsFiniteSet(1 .. JobLimit) /\ IsFiniteSet(1 .. N)
    <3>1. 1 \in Int /\ JobLimit \in Int /\ N \in Int
      BY <1>1, <1>2
    <3> HIDE DEF N
    <3> QED BY <3>1, FS_Interval
  <2>2. IsFiniteSet((1 .. N) \X (1 .. JobLimit))
    BY <2>1, FS_Product
  <2>3. IsFiniteSet(theirs)
    <3>1. theirs \in SUBSET ((1 .. N) \X (1 .. JobLimit))
      BY <1>6
    <3> QED BY <2>2, <3>1, FS_Subset
  <2>4. theirs \in SUBSET (Int \X Int)
    <3>1. (1 .. N) \X (1 .. JobLimit) \subseteq Int \X Int
      BY <1>1, <1>2
    <3> QED BY <1>6, <3>1
  <2> QED BY <2>3, <2>4, SortedPairs
<1> HIDE DEF order, C
<1>8. /\ \A n \in 1 .. C : order[n] \in theirs
      /\ \A n, k \in 1 .. C : order[n] = order[k] => n = k
      /\ \A x \in theirs : \E n \in 1 .. C : order[n] = x
  BY <1>7 DEF Lists, C
<1>9. \A n \in 1 .. C :
        /\ order[n] = <<order[n][1], order[n][2]>>
        /\ order[n][1] \in gone /\ f.workers[order[n][1]] \in D
        /\ order[n][2] \in 1 .. Len(f.assigned[f.workers[order[n][1]]])
        /\ back[n] \in Msgs
  <2> SUFFICES ASSUME NEW n \in 1 .. C
               PROVE  /\ order[n] = <<order[n][1], order[n][2]>>
                      /\ order[n][1] \in gone /\ f.workers[order[n][1]] \in D
                      /\ order[n][2] \in 1 .. Len(f.assigned[f.workers[order[n][1]]])
                      /\ back[n] \in Msgs
    OBVIOUS
  <2>1. order[n] \in theirs /\ order[n] \in (1 .. N) \X (1 .. JobLimit)
    BY <1>6, <1>8
  <2>2. order[n] = <<order[n][1], order[n][2]>>
    BY <2>1
  <2> HIDE DEF D, gone
  <2>3. /\ order[n][1] \in gone /\ f.workers[order[n][1]] \in D
        /\ order[n][2] \in 1 .. Len(f.assigned[f.workers[order[n][1]]])
    BY <1>5, <2>1, <2>2
  <2>4. f.assigned[f.workers[order[n][1]]] \in Seq(Msgs)
    BY <1>1, <2>3
  <2>5. f.assigned[f.workers[order[n][1]]][order[n][2]] \in Msgs
    BY <2>3, <2>4
  <2> QED BY <2>2, <2>3, <2>5
<1>10. back \in Seq(Msgs) /\ Len(back) = C
  <2>1. \A n \in 1 .. C : back[n] \in Msgs
    BY <1>9
  <2>2. back \in [1 .. C -> Msgs]
    BY <2>1
  <2> HIDE DEF back
  <2> QED BY <1>7, <2>2
<1>11. /\ workers \in Seq(Workers)
       /\ \E o : /\ Lists(o, (1 .. N) \ gone)
                 /\ Len(workers) = Cardinality((1 .. N) \ gone)
                 /\ \A n \in 1 .. Len(workers) : workers[n] = f.workers[o[n]]
  <2> DEFINE S == (1 .. N) \ gone
  <2>1. S \in SUBSET (1 .. Len(f.workers))
    OBVIOUS
  <2>2. workers = AtPlaces(f.workers, S)
    OBVIOUS
  <2> HIDE DEF gone, workers, S
  <2>3. /\ workers \in Seq(Workers) /\ Len(workers) = Cardinality(S)
        /\ \E o : /\ Lists(o, S)
                  /\ \A n \in 1 .. Cardinality(S) : workers[n] = f.workers[o[n]]
    <3>1. f.workers \in Seq(Workers)
      BY <1>1
    <3> QED BY <2>1, <2>2, <3>1, Taken
  <2> QED BY <2>3 DEF S
<1>12. assigned \in [D \ left -> Seq(Msgs)]
  BY <1>1
<1> HIDE DEF back, workers
<1>13. /\ g \in Farms /\ g.ready = f.ready \o back /\ g.assigned = assigned
       /\ g.workers = workers /\ g.key = f.key /\ g.body = f.body /\ g.pending = f.pending
  <2>1. f.ready \o back \in Seq(Msgs)
    BY <1>1, <1>10, Joining
  <2>2. assigned \in UNION {[ws -> Seq(Msgs)] : ws \in SUBSET Workers}
    <3>1. D \ left \in SUBSET Workers
      BY <1>1
    <3> HIDE DEF assigned, D, left
    <3> QED BY <1>12, <3>1
  <2> HIDE DEF D, assigned
  <2> QED BY <1>3, <1>11, <2>1, <2>2 DEF Farms
<1>14. DOMAIN g.assigned = D \ left /\ \A w \in D \ left : g.assigned[w] = f.assigned[w]
  BY <1>13
<1>15. /\ Len(g.ready) = Len(f.ready) + C
       /\ \A i \in 1 .. Len(f.ready) : g.ready[i] = f.ready[i]
       /\ \A n \in 1 .. C :
            g.ready[Len(f.ready) + n] = f.assigned[f.workers[order[n][1]]][order[n][2]]
  <2>1. f.ready \in Seq(Msgs) /\ back \in Seq(Msgs)
    BY <1>1, <1>10
  <2>2. Len(f.ready \o back) = Len(f.ready) + Len(back)
    BY <2>1, Joining
  <2>3. \A i \in 1 .. Len(f.ready) : (f.ready \o back)[i] = f.ready[i]
    BY <2>1, Joining
  <2>4. \A n \in 1 .. Len(back) : (f.ready \o back)[Len(f.ready) + n] = back[n]
    BY <2>1, Joining
  <2>5. \A n \in 1 .. C : back[n] = f.assigned[f.workers[order[n][1]]][order[n][2]]
    BY DEF back
  <2> QED BY <1>10, <1>13, <2>2, <2>3, <2>4, <2>5
<1>16. \A w : w \in left <=> \E a \in gone : f.workers[a] = w
  OBVIOUS
<1>17. \A w \in D : w \in Workers /\ w # -1
  <2> HIDE DEF D
  <2> QED BY <1>1, <1>2
<1>18. gone \subseteq 1 .. N
  OBVIOUS
<1> DEFINE from == [x \in Slots(g) |->
                      IF x[1] = -1 /\ x[2] > Len(f.ready)
                      THEN <<f.workers[order[x[2] - Len(f.ready)][1]],
                             order[x[2] - Len(f.ready)][2]>>
                      ELSE x]
           source(n) == <<f.workers[order[n][1]], order[n][2]>>
<1> HIDE DEF D, gone, left, assigned
\* From where the jobs come: from where they were, from those that have left.
<1>19. /\ \A i \in 1 .. Len(f.ready) :
            <<-1, i>> \in Slots(g) /\ from[<<-1, i>>] = <<-1, i>>
       /\ \A n \in 1 .. C :
            /\ <<-1, Len(f.ready) + n>> \in Slots(g)
            /\ from[<<-1, Len(f.ready) + n>>] = source(n)
       /\ \A w \in D \ left : \A i \in 1 .. Len(f.assigned[w]) :
            <<w, i>> \in Slots(g) /\ from[<<w, i>>] = <<w, i>>
  <2>1. \A i \in 1 .. Len(f.ready) :
          <<-1, i>> \in Slots(g) /\ from[<<-1, i>>] = <<-1, i>>
    <3> SUFFICES ASSUME NEW i \in 1 .. Len(f.ready)
                 PROVE  <<-1, i>> \in Slots(g) /\ from[<<-1, i>>] = <<-1, i>>
      OBVIOUS
    <3>1. i \in Int /\ i \in 1 .. Len(g.ready) /\ ~(i > Len(f.ready))
      BY <1>1, <1>7, <1>15
    <3>2. <<-1, i>> \in Slots(g)
      BY <1>13, <3>1, SlotKinds
    <3> QED BY <3>1, <3>2 DEF from
  <2>2. \A n \in 1 .. C :
          /\ <<-1, Len(f.ready) + n>> \in Slots(g)
          /\ from[<<-1, Len(f.ready) + n>>] = source(n)
    <3> SUFFICES ASSUME NEW n \in 1 .. C
                 PROVE  /\ <<-1, Len(f.ready) + n>> \in Slots(g)
                        /\ from[<<-1, Len(f.ready) + n>>] = source(n)
      OBVIOUS
    <3> DEFINE k == Len(f.ready) + n
    <3>1. k \in Int /\ k \in 1 .. Len(g.ready) /\ k > Len(f.ready) /\ k - Len(f.ready) = n
      BY <1>1, <1>7, <1>15
    <3> HIDE DEF k
    <3>2. <<-1, k>> \in Slots(g)
      BY <1>13, <3>1, SlotKinds
    <3>3. from[<<-1, k>>] = source(n)
      BY <3>1, <3>2
    <3> QED BY <3>2, <3>3 DEF k
  <2>3. \A w \in D \ left : \A i \in 1 .. Len(f.assigned[w]) :
          <<w, i>> \in Slots(g) /\ from[<<w, i>>] = <<w, i>>
    <3> SUFFICES ASSUME NEW w \in D \ left, NEW i \in 1 .. Len(f.assigned[w])
                 PROVE  <<w, i>> \in Slots(g) /\ from[<<w, i>>] = <<w, i>>
      OBVIOUS
    <3>1. i \in Int /\ i \in 1 .. Len(g.assigned[w]) /\ w \in Workers /\ w # -1
      BY <1>14, <1>17
    <3>2. <<w, i>> \in Slots(g)
      BY <1>13, <1>14, <3>1, SlotKinds
    <3> QED BY <3>1, <3>2 DEF from
  <2> QED BY <2>1, <2>2, <2>3
<1> HIDE DEF from
<1>20. \A x \in Slots(g) :
         \/ \E i \in 1 .. Len(f.ready) : x = <<-1, i>>
         \/ \E n \in 1 .. C : x = <<-1, Len(f.ready) + n>>
         \/ \E w \in D \ left : \E i \in 1 .. Len(f.assigned[w]) : x = <<w, i>>
  <2> SUFFICES ASSUME NEW x \in Slots(g)
               PROVE  \/ \E i \in 1 .. Len(f.ready) : x = <<-1, i>>
                      \/ \E n \in 1 .. C : x = <<-1, Len(f.ready) + n>>
                      \/ \E w \in D \ left : \E i \in 1 .. Len(f.assigned[w]) : x = <<w, i>>
    OBVIOUS
  <2>1. CASE \E i \in 1 .. Len(g.ready) : x = <<-1, i>>
    <3>1. PICK i \in 1 .. Len(g.ready) : x = <<-1, i>>
      BY <2>1
    <3>2. CASE i <= Len(f.ready)
      <4>1. i \in 1 .. Len(f.ready)
        BY <1>1, <1>7, <1>15, <3>2
      <4> QED BY <3>1, <4>1
    <3>3. CASE i > Len(f.ready)
      <4>1. i - Len(f.ready) \in 1 .. C /\ i = Len(f.ready) + (i - Len(f.ready))
        BY <1>1, <1>7, <1>15, <3>3
      <4>2. PICK n \in 1 .. C : i = Len(f.ready) + n
        BY <4>1
      <4> QED BY <3>1, <4>2
    <3> QED BY <1>1, <3>2, <3>3
  <2>2. CASE \E w \in DOMAIN g.assigned : \E i \in 1 .. Len(g.assigned[w]) : x = <<w, i>>
    BY <1>14, <2>2
  <2> QED BY <1>13, <2>1, <2>2, SlotKinds
<1>21. \A n \in 1 .. C :
         /\ source(n) \in Slots(f) /\ source(n)[1] \in left /\ source(n)[1] # -1
         /\ JobAt(f, source(n)) = f.assigned[f.workers[order[n][1]]][order[n][2]]
  <2> SUFFICES ASSUME NEW n \in 1 .. C
               PROVE  /\ source(n) \in Slots(f) /\ source(n)[1] \in left
                      /\ source(n)[1] # -1
                      /\ JobAt(f, source(n)) = f.assigned[f.workers[order[n][1]]][order[n][2]]
    OBVIOUS
  <2> DEFINE a == order[n][1]
             i == order[n][2]
             w == f.workers[a]
  <2>1. a \in gone /\ w \in D /\ i \in 1 .. Len(f.assigned[w]) /\ i \in Int
    BY <1>9
  <2>2. w \in Workers /\ w # -1 /\ w \in left
    BY <1>16, <1>17, <2>1
  <2>3. source(n) = <<w, i>>
    OBVIOUS
  <2> HIDE DEF a, i, w, source
  <2>4. source(n) \in Slots(f) /\ JobAt(f, source(n)) = f.assigned[w][i]
    BY <2>1, <2>2, <2>3, SlotKinds DEF D
  <2> QED BY <2>2, <2>3, <2>4 DEF a, i, w
<1>22. \A n, k \in 1 .. C : source(n) = source(k) => n = k
  <2> SUFFICES ASSUME NEW n \in 1 .. C, NEW k \in 1 .. C, source(n) = source(k)
               PROVE  n = k
    OBVIOUS
  <2>1. f.workers[order[n][1]] = f.workers[order[k][1]] /\ order[n][2] = order[k][2]
    OBVIOUS
  <2>2. order[n][1] \in 1 .. Len(f.workers) /\ order[k][1] \in 1 .. Len(f.workers)
    BY <1>9, <1>18
  <2>3. order[n][1] = order[k][1]
    BY <2>1, <2>2, SMTT(60) DEF Listed
  <2>4. order[n] = order[k]
    BY <1>9, <2>1, <2>3
  <2> QED BY <1>8, <2>4
<1> HIDE DEF source
<1>23. \A w \in D : \A i \in 1 .. Len(f.assigned[w]) :
         <<w, i>> \in Slots(f) /\ JobAt(f, <<w, i>>) = f.assigned[w][i]
  <2> SUFFICES ASSUME NEW w \in D, NEW i \in 1 .. Len(f.assigned[w])
               PROVE  <<w, i>> \in Slots(f) /\ JobAt(f, <<w, i>>) = f.assigned[w][i]
    OBVIOUS
  <2>1. w \in Workers /\ i \in Int
    BY <1>17
  <2> QED BY <2>1, SlotKinds DEF D
<1>24. \A i \in 1 .. Len(f.ready) :
         <<-1, i>> \in Slots(f) /\ JobAt(f, <<-1, i>>) = f.ready[i]
  <2>1. \A i \in 1 .. Len(f.ready) : i \in Int
    OBVIOUS
  <2> QED BY <2>1, SlotKinds
<1>25. from \in [Slots(g) -> Slots(f)]
  <2>1. \A x \in Slots(g) : from[x] \in Slots(f)
    <3> SUFFICES ASSUME NEW x \in Slots(g) PROVE from[x] \in Slots(f)
      OBVIOUS
    <3>1. CASE \E i \in 1 .. Len(f.ready) : x = <<-1, i>>
      BY <1>19, <1>24, <3>1
    <3>2. CASE \E n \in 1 .. C : x = <<-1, Len(f.ready) + n>>
      BY <1>19, <1>21, <3>2
    <3>3. CASE \E w \in D \ left : \E i \in 1 .. Len(f.assigned[w]) : x = <<w, i>>
      BY <1>19, <1>23, <3>3
    <3> QED BY <1>20, <3>1, <3>2, <3>3
  <2> QED BY <2>1 DEF from
<1>26. \A x \in Slots(g) : JobAt(g, x) = JobAt(f, from[x])
  <2> SUFFICES ASSUME NEW x \in Slots(g) PROVE JobAt(g, x) = JobAt(f, from[x])
    OBVIOUS
  <2>1. CASE \E i \in 1 .. Len(f.ready) : x = <<-1, i>>
    <3>1. PICK i \in 1 .. Len(f.ready) : x = <<-1, i>>
      BY <2>1
    <3>2. JobAt(g, x) = g.ready[i] /\ JobAt(f, from[x]) = f.ready[i]
      BY <1>13, <1>19, <1>24, <3>1, SlotKinds
    <3> QED BY <1>15, <3>2
  <2>2. CASE \E n \in 1 .. C : x = <<-1, Len(f.ready) + n>>
    <3>1. PICK n \in 1 .. C : x = <<-1, Len(f.ready) + n>>
      BY <2>2
    <3>2. JobAt(g, x) = g.ready[Len(f.ready) + n]
      BY <1>13, <3>1, SlotKinds
    <3>3. from[x] = source(n)
      BY <1>19, <3>1
    <3> QED BY <1>15, <1>21, <3>2, <3>3
  <2>3. CASE \E w \in D \ left : \E i \in 1 .. Len(f.assigned[w]) : x = <<w, i>>
    <3>1. PICK w \in D \ left : \E i \in 1 .. Len(f.assigned[w]) : x = <<w, i>>
      BY <2>3
    <3>2. PICK i \in 1 .. Len(f.assigned[w]) : x = <<w, i>>
      BY <3>1
    <3>3. JobAt(g, x) = g.assigned[w][i]
      <4>1. w \in Workers /\ i \in Int
        BY <1>17
      <4> QED BY <1>13, <3>2, <4>1, SlotKinds
    <3>4. JobAt(f, from[x]) = f.assigned[w][i]
      BY <1>19, <1>23, <3>2
    <3> QED BY <1>14, <3>3, <3>4
  <2> QED BY <1>20, <2>1, <2>2, <2>3
<1>27. \A y \in Slots(f) : \E x \in Slots(g) : from[x] = y
  <2> SUFFICES ASSUME NEW y \in Slots(f) PROVE \E x \in Slots(g) : from[x] = y
    OBVIOUS
  <2>1. CASE \E i \in 1 .. Len(f.ready) : y = <<-1, i>>
    BY <1>19, <2>1
  <2>2. CASE \E w \in D : \E i \in 1 .. Len(f.assigned[w]) : y = <<w, i>>
    <3>1. PICK w \in D : \E i \in 1 .. Len(f.assigned[w]) : y = <<w, i>>
      BY <2>2
    <3>2. PICK i \in 1 .. Len(f.assigned[w]) : y = <<w, i>>
      BY <3>1
    <3>3. CASE w \in left
      <4>1. PICK a \in gone : f.workers[a] = w
        BY <1>16, <3>3
      <4>2. <<a, i>> \in theirs
        BY <1>5, <4>1
      <4>3. PICK n \in 1 .. C : order[n] = <<a, i>>
        BY <1>8, <4>2
      <4>4. source(n) = y
        BY <3>2, <4>1, <4>3 DEF source
      <4> QED BY <1>19, <4>4
    <3>4. CASE w \notin left
      BY <1>19, <3>2, <3>4
    <3> QED BY <3>3, <3>4
  <2> QED BY <2>1, <2>2, SlotKinds DEF D
<1>28. \A x, y \in Slots(g) : from[x] = from[y] => x = y
  <2> SUFFICES ASSUME NEW x \in Slots(g), NEW y \in Slots(g), from[x] = from[y]
               PROVE  x = y
    OBVIOUS
  <2> DEFINE Ready(z) == \E i \in 1 .. Len(f.ready) : z = <<-1, i>>
             Back(z) == \E n \in 1 .. C : z = <<-1, Len(f.ready) + n>>
             Stays(z) == \E w \in D \ left : \E i \in 1 .. Len(f.assigned[w]) : z = <<w, i>>
  <2>1. ASSUME NEW z \in Slots(g), Ready(z) PROVE from[z] = z /\ from[z][1] = -1
    <3>1. PICK i \in 1 .. Len(f.ready) : z = <<-1, i>>
      BY <2>1
    <3>2. from[z] = <<-1, i>>
      BY <1>19, <3>1
    <3> QED BY <3>1, <3>2
  <2>2. ASSUME NEW z \in Slots(g), Back(z)
        PROVE  from[z][1] \in left /\ from[z][1] # -1
    BY <1>19, <1>21, <2>2
  <2>3. ASSUME NEW z \in Slots(g), Stays(z)
        PROVE  from[z] = z /\ from[z][1] \notin left /\ from[z][1] # -1
    <3>1. PICK w \in D \ left : \E i \in 1 .. Len(f.assigned[w]) : z = <<w, i>>
      BY <2>3
    <3>2. PICK i \in 1 .. Len(f.assigned[w]) : z = <<w, i>>
      BY <3>1
    <3>3. from[z] = <<w, i>>
      BY <1>19, <3>2
    <3>4. w # -1
      BY <1>17
    <3> QED BY <3>2, <3>3, <3>4
  <2>4. CASE Back(x) /\ Back(y)
    <3>1. PICK n \in 1 .. C : x = <<-1, Len(f.ready) + n>>
      BY <2>4
    <3>2. PICK k \in 1 .. C : y = <<-1, Len(f.ready) + k>>
      BY <2>4
    <3> QED BY <1>19, <1>22, <3>1, <3>2
  <2>5. Ready(x) \/ Back(x) \/ Stays(x)
    BY <1>20
  <2>6. Ready(y) \/ Back(y) \/ Stays(y)
    BY <1>20
  <2> HIDE DEF Ready, Back, Stays
  <2> QED BY <2>1, <2>2, <2>3, <2>4, <2>5, <2>6
<1>29. Rearranged(f, g)
  BY <1>25, <1>26, <1>27, <1>28, Rearrangement
<1>30. Limited(g)
  BY <1>14 DEF Limited, D
<1>31. TakenBack(f, g)
  <2>1. DOMAIN g.assigned \subseteq DOMAIN f.assigned
    BY <1>14 DEF D
  <2>2. \A w \in DOMAIN g.assigned : g.assigned[w] = f.assigned[w]
    BY <1>14
  <2> QED BY <1>13, <1>29, <1>30, <2>1, <2>2 DEF TakenBack
<1>32. Listed(g)
  <2> DEFINE S == (1 .. N) \ gone
  <2>1. PICK o : /\ Lists(o, S) /\ Len(workers) = Cardinality(S)
                 /\ \A n \in 1 .. Len(workers) : workers[n] = f.workers[o[n]]
    BY <1>11
  <2>2. /\ \A n \in 1 .. Len(workers) : o[n] \in S
        /\ \A n, k \in 1 .. Len(workers) : o[n] = o[k] => n = k
        /\ \A a \in S : \E n \in 1 .. Len(workers) : o[n] = a
    <3> HIDE DEF S
    <3> QED BY <2>1 DEF Lists
  <2>3. \A a, b \in 1 .. Len(g.workers) : g.workers[a] = g.workers[b] => a = b
    <3> SUFFICES ASSUME NEW a \in 1 .. Len(workers), NEW b \in 1 .. Len(workers),
                        workers[a] = workers[b]
                 PROVE  a = b
      BY <1>13
    <3>1. f.workers[o[a]] = f.workers[o[b]]
      BY <2>1
    <3>2. o[a] \in 1 .. Len(f.workers) /\ o[b] \in 1 .. Len(f.workers)
      BY <2>2
    <3>3. o[a] = o[b]
      BY <3>1, <3>2 DEF Listed
    <3> QED BY <2>2, <3>3
  <2>4. \A w \in DOMAIN g.assigned : \E a \in 1 .. Len(g.workers) : g.workers[a] = w
    <3> SUFFICES ASSUME NEW w \in D \ left
                 PROVE  \E a \in 1 .. Len(workers) : workers[a] = w
      BY <1>13, <1>14
    <3>1. PICK a \in 1 .. N : f.workers[a] = w
      BY DEF Listed, D
    <3>2. a \in S
      BY <1>16, <3>1
    <3>3. PICK n \in 1 .. Len(workers) : o[n] = a
      BY <2>2, <3>2
    <3> QED BY <2>1, <3>1, <3>3
  <2> QED BY <2>3, <2>4 DEF Listed
<1> QED BY <1>31, <1>32 DEF g

-----------------------------------------------------------------------------
(* What a reply can be matched by.                                          *)

\* Within a mailbox a key names one job, and what is on its way to the present
\* mailbox b, and what has a ticket, bears it.
Labelled(f, b, rs) ==
  /\ \A m \in Msgs : f.body[m].reply <= b
  /\ \A m \in Msgs : f.body[m].reply = b => f.body[m].key < f.key
  /\ \A m, k \in Msgs :
       f.body[m].reply = b /\ f.body[k].reply = b /\ f.body[m].key = f.body[k].key => m = k
  /\ \A r \in rs : r.box <= b /\ (r.box = b => r.key < f.key)
  /\ \A r \in rs, m \in Msgs :
       r.box = b /\ f.body[m].reply = b /\ f.body[m].key = r.key => m = r.msg
  /\ \A p \in f.pending : f.body[p[1]].worker \in Workers
  /\ \A w \in DOMAIN f.assigned : \A i \in 1 .. Len(f.assigned[w]) :
       f.body[f.assigned[w][i]].reply = b

Replies == [msg : Msgs, sent : Nat, worker : Workers, key : Nat, box : Nat]

\* Taking jobs back leaves the marks on the jobs as they are.
LEMMA TakenBackLabels ==
  ASSUME NEW f \in Farms, NEW g, TakenBack(f, g), NEW b, NEW rs, Labelled(f, b, rs)
  PROVE  Labelled(g, b, rs)
<1>1. g.key = f.key /\ g.body = f.body /\ g.pending = f.pending
  BY DEF TakenBack
<1>2. \A w \in DOMAIN g.assigned : \A i \in 1 .. Len(g.assigned[w]) :
        f.body[g.assigned[w][i]].reply = b
  <2> SUFFICES ASSUME NEW w \in DOMAIN g.assigned, NEW i \in 1 .. Len(g.assigned[w])
               PROVE  f.body[g.assigned[w][i]].reply = b
    OBVIOUS
  <2>1. PICK j \in 1 .. Len(f.assigned[w]) : g.assigned[w][i] = f.assigned[w][j]
    BY DEF TakenBack
  <2>2. w \in DOMAIN f.assigned
    BY DEF TakenBack
  <2> QED BY <2>1, <2>2 DEF Labelled
<1> QED BY <1>1, <1>2 DEF Labelled

\* A job that is handed out gets the present mailbox and a key of its own.
LEMMA DispatchedLabels ==
  ASSUME NEW f \in Farms, NEW ws \in Seq(Workers), NEW b \in Nat,
         NEW rs \in SUBSET Replies, Labelled(f, b, rs)
  PROVE  Labelled(Dispatched(f, ws, b), b, rs)
<1> DEFINE g == Dispatched(f, ws, b)
<1>1. PICK n : HandedOut(f, g, ws, n, b)
  BY DispatchedShape
<1> HIDE DEF g
<1>2. /\ n \in Nat /\ n <= Len(f.ready) /\ n <= Len(ws) /\ g \in Farms
      /\ f.ready \in Seq(Msgs) /\ Len(f.ready) \in Nat
      /\ f.key \in Nat /\ g.key = f.key + n
      /\ f.body \in [Msgs -> Body] /\ g.body \in [Msgs -> Body]
      /\ f.pending \subseteq Msgs \X Nat
  BY <1>1, SMTT(60) DEF HandedOut, Farms
<1>3. \A i \in 1 .. n : f.ready[i] \in Msgs /\ ws[i] \in Workers /\ i \in Nat
  BY <1>2
\* A job is as it was, or is the i-th of those that were handed out.
<1>4. \A m \in Msgs :
        \/ /\ \A i \in 1 .. n : f.ready[i] # m
           /\ g.body[m] = f.body[m]
        \/ \E i \in 1 .. n :
             /\ f.ready[i] = m
             /\ g.body[m].worker = ws[i] /\ g.body[m].key = f.key + i - 1
             /\ g.body[m].reply = b
  <2> SUFFICES ASSUME NEW m \in Msgs
               PROVE  \/ /\ \A i \in 1 .. n : f.ready[i] # m
                         /\ g.body[m] = f.body[m]
                      \/ \E i \in 1 .. n :
                           /\ f.ready[i] = m
                           /\ g.body[m].worker = ws[i] /\ g.body[m].key = f.key + i - 1
                           /\ g.body[m].reply = b
    OBVIOUS
  <2>1. CASE (\A i \in 1 .. n : f.ready[i] # m) /\ g.body[m] = f.body[m]
    BY <2>1
  <2>2. CASE \E i \in 1 .. n :
               /\ f.ready[i] = m
               /\ g.body[m] = [worker |-> ws[i], key |-> f.key + i - 1, reply |-> b]
    BY <2>2
  <2> QED BY <1>1, <2>1, <2>2 DEF HandedOut
<1>5. \A m \in Msgs :
        /\ f.body[m].key \in Nat /\ f.body[m].reply \in Nat
        /\ g.body[m].key \in Nat /\ g.body[m].reply \in Nat
  BY <1>2 DEF Body
<1>6. \A r \in rs : r.key \in Nat /\ r.box \in Nat /\ r.msg \in Msgs
  BY DEF Replies
<1> DEFINE New(m) == \E i \in 1 .. n :
                       /\ f.ready[i] = m
                       /\ g.body[m].worker = ws[i] /\ g.body[m].key = f.key + i - 1
                       /\ g.body[m].reply = b
<1>7. \A m \in Msgs : g.body[m] = f.body[m] \/ New(m)
  BY <1>4
<1>8. \A m \in Msgs : New(m) =>
        /\ g.body[m].reply = b /\ g.body[m].worker \in Workers
        /\ f.key <= g.body[m].key /\ g.body[m].key < g.key
  BY <1>2, <1>3
<1>9. \A m, k \in Msgs : New(m) /\ New(k) /\ g.body[m].key = g.body[k].key => m = k
  <2> SUFFICES ASSUME NEW m \in Msgs, NEW k \in Msgs, New(m), New(k),
                      g.body[m].key = g.body[k].key
               PROVE  m = k
    OBVIOUS
  <2>1. PICK i \in 1 .. n : f.ready[i] = m /\ g.body[m].key = f.key + i - 1
    OBVIOUS
  <2>2. PICK j \in 1 .. n : f.ready[j] = k /\ g.body[k].key = f.key + j - 1
    OBVIOUS
  <2>3. f.key + i - 1 = f.key + j - 1
    BY <2>1, <2>2
  <2>4. f.key \in Int /\ i \in Int /\ j \in Int
    BY <1>2
  <2>5. i = j
    BY <2>3, <2>4
  <2> QED BY <2>1, <2>2, <2>5
<1> HIDE DEF New
<1>10. \A m \in Msgs : f.body[m].reply <= b /\ (f.body[m].reply = b => f.body[m].key < f.key)
  BY DEF Labelled
<1>11. \A m \in Msgs :
         /\ g.body[m].reply <= b
         /\ g.body[m].reply = b => g.body[m].key < g.key
         /\ g.body[m].reply = b /\ g.body[m].key < f.key => g.body[m] = f.body[m]
         /\ g.body[m].reply = b /\ ~(g.body[m].key < f.key) => New(m)
  <2> SUFFICES ASSUME NEW m \in Msgs
               PROVE  /\ g.body[m].reply <= b
                      /\ g.body[m].reply = b => g.body[m].key < g.key
                      /\ g.body[m].reply = b /\ g.body[m].key < f.key =>
                           g.body[m] = f.body[m]
                      /\ g.body[m].reply = b /\ ~(g.body[m].key < f.key) => New(m)
    OBVIOUS
  <2>1. CASE g.body[m] = f.body[m]
    BY <1>2, <1>5, <1>10, <2>1
  <2>2. CASE New(m)
    BY <1>2, <1>5, <1>8, <2>2
  <2> QED BY <1>7, <2>1, <2>2
<1>12. \A m, k \in Msgs :
         g.body[m].reply = b /\ g.body[k].reply = b /\ g.body[m].key = g.body[k].key => m = k
  <2> SUFFICES ASSUME NEW m \in Msgs, NEW k \in Msgs, g.body[m].reply = b,
                      g.body[k].reply = b, g.body[m].key = g.body[k].key
               PROVE  m = k
    OBVIOUS
  <2>1. CASE g.body[m].key < f.key
    BY <1>11, <2>1 DEF Labelled
  <2>2. CASE ~(g.body[m].key < f.key)
    BY <1>9, <1>11, <2>2
  <2> QED BY <2>1, <2>2
<1>13. \A r \in rs : r.box <= b /\ (r.box = b => r.key < f.key /\ r.key < g.key)
  BY <1>2, <1>6 DEF Labelled
<1>14. \A r \in rs, m \in Msgs :
         r.box = b /\ g.body[m].reply = b /\ g.body[m].key = r.key => m = r.msg
  BY <1>11, <1>13 DEF Labelled
<1>15. \A p \in g.pending : g.body[p[1]].worker \in Workers
  <2> SUFFICES ASSUME NEW p \in g.pending PROVE g.body[p[1]].worker \in Workers
    OBVIOUS
  <2>1. p \in f.pending \/ \E i \in 1 .. n : p = <<f.ready[i], f.key + i - 1>>
    BY <1>1 DEF HandedOut
  <2>2. CASE p \in f.pending
    <3>1. p[1] \in Msgs /\ f.body[p[1]].worker \in Workers
      BY <1>2, <2>2 DEF Labelled
    <3> QED BY <1>7, <1>8, <3>1
  <2>3. CASE \E i \in 1 .. n : p = <<f.ready[i], f.key + i - 1>>
    <3>1. PICK i \in 1 .. n : p[1] = f.ready[i]
      BY <2>3
    <3>2. f.ready[i] \in Msgs /\ ~(\A j \in 1 .. n : f.ready[j] # f.ready[i])
      BY <1>3
    <3>3. New(f.ready[i])
      BY <1>4, <3>2 DEF New
    <3> QED BY <1>8, <3>1, <3>2, <3>3
  <2> QED BY <2>1, <2>2, <2>3
<1>16. \A w \in DOMAIN g.assigned : \A i \in 1 .. Len(g.assigned[w]) :
         g.body[g.assigned[w][i]].reply = b
  <2> SUFFICES ASSUME NEW w \in DOMAIN g.assigned, NEW i \in 1 .. Len(g.assigned[w])
               PROVE  g.body[g.assigned[w][i]].reply = b
    OBVIOUS
  <2> DEFINE S == {j \in 1 .. n : ws[j] = w}
             s == Tickets(f, w)
             t == AtPlaces(f.ready, S)
  <2>1. w \in Workers
    BY <1>2 DEF Farms
  <2>2. /\ s \in Seq(Msgs) /\ (w \in DOMAIN f.assigned => s = f.assigned[w])
        /\ (w \notin DOMAIN f.assigned => Len(s) = 0)
    BY <2>1, TicketsType
  <2>3. /\ t \in Seq(Msgs) /\ Len(t) = Cardinality(S)
        /\ \E o : Lists(o, S) /\ \A k \in 1 .. Cardinality(S) : t[k] = f.ready[o[k]]
    <3>1. S \in SUBSET (1 .. Len(f.ready))
      BY <1>2
    <3> HIDE DEF S
    <3>2. f.ready \in Seq(Msgs)
      BY <1>2
    <3> QED BY <3>1, <3>2, Taken
  <2>4. g.assigned[w] = s \o t
    BY <1>1 DEF HandedOut
  <2> HIDE DEF s, t
  <2>5. /\ Len(s) \in Nat /\ Len(t) \in Nat /\ Len(s \o t) = Len(s) + Len(t)
        /\ \A j \in 1 .. Len(s) : (s \o t)[j] = s[j]
    <3>1. s \in Seq(Msgs) /\ t \in Seq(Msgs)
      BY <2>2, <2>3
    <3>2. Len(s) \in Nat /\ Len(t) \in Nat /\ Len(s \o t) = Len(s) + Len(t)
      BY <3>1, Joining
    <3>3. \A j \in 1 .. Len(s) : (s \o t)[j] = s[j]
      BY <3>1, Joining
    <3> QED BY <3>2, <3>3
  <2>6. \A j \in 1 .. Len(t) : (s \o t)[Len(s) + j] = t[j]
    BY <2>2, <2>3, Joining
  <2>7. CASE i <= Len(s)
    <3>1. i \in 1 .. Len(s) /\ g.assigned[w][i] = s[i]
      BY <2>4, <2>5, <2>7
    <3>2. w \in DOMAIN f.assigned /\ s = f.assigned[w]
      BY <2>2, <3>1
    <3>3. f.body[s[i]].reply = b /\ s[i] \in Msgs
      BY <2>2, <3>1, <3>2 DEF Labelled
    <3> QED BY <1>7, <1>8, <3>1, <3>3
  <2>8. CASE i > Len(s)
    <3>1. i - Len(s) \in 1 .. Len(t) /\ i = Len(s) + (i - Len(s))
      BY <2>4, <2>5, <2>8
    <3>2. PICK k \in 1 .. Len(t) : i = Len(s) + k
      BY <3>1
    <3>3. g.assigned[w][i] = t[k]
      BY <2>4, <2>6, <3>2
    <3>4. PICK j \in 1 .. n : t[k] = f.ready[j]
      <4>1. PICK o : Lists(o, S) /\ \A l \in 1 .. Cardinality(S) : t[l] = f.ready[o[l]]
        BY <2>3
      <4>2. k \in 1 .. Cardinality(S)
        BY <2>3
      <4>3. o[k] \in S
        <5> HIDE DEF S
        <5> QED BY <4>1, <4>2 DEF Lists
      <4> QED BY <4>1, <4>2, <4>3
    <3>5. f.ready[j] \in Msgs /\ ~(\A l \in 1 .. n : f.ready[l] # f.ready[j])
      BY <1>3
    <3>6. New(f.ready[j])
      BY <1>4, <3>5 DEF New
    <3> QED BY <1>8, <3>3, <3>4, <3>5, <3>6
  <2> QED BY <2>5, <2>7, <2>8
<1> QED BY <1>11, <1>12, <1>13, <1>14, <1>15, <1>16 DEF g, Labelled

-----------------------------------------------------------------------------
(* The limit.                                                               *)

\* A worker that has room for the jobs it is handed stays within its limit.
LEMMA DispatchedLimit ==
  ASSUME NEW f \in Farms, Limited(f), NEW ws \in Seq(Workers), NEW b \in Nat,
         \A w \in Workers :
           Len(Tickets(f, w)) + Cardinality({a \in 1 .. Len(ws) : ws[a] = w}) <= JobLimit
  PROVE  LET g == Dispatched(f, ws, b)
         IN  /\ g \in Farms /\ Limited(g) /\ g.workers = f.workers
             /\ DOMAIN g.assigned \subseteq
                  DOMAIN f.assigned \cup {ws[a] : a \in 1 .. Len(ws)}
<1> DEFINE g == Dispatched(f, ws, b)
<1>1. PICK n : HandedOut(f, g, ws, n, b)
  BY DispatchedShape
<1> HIDE DEF g
<1>2. /\ n \in Nat /\ n <= Len(f.ready) /\ n <= Len(ws) /\ g \in Farms
      /\ f.ready \in Seq(Msgs) /\ Len(f.ready) \in Nat /\ Len(ws) \in Nat
      /\ g.workers = f.workers
      /\ DOMAIN g.assigned = DOMAIN f.assigned \cup {ws[i] : i \in 1 .. n}
  BY <1>1 DEF HandedOut, Farms
<1>3. 1 .. n \subseteq 1 .. Len(ws)
  BY <1>2
<1>4. DOMAIN g.assigned \subseteq DOMAIN f.assigned \cup {ws[a] : a \in 1 .. Len(ws)}
  BY <1>2, <1>3
<1>5. Limited(g)
  <2> SUFFICES ASSUME NEW w \in DOMAIN g.assigned PROVE Len(g.assigned[w]) <= JobLimit
    BY DEF Limited
  <2> DEFINE S == {i \in 1 .. n : ws[i] = w}
             T == {a \in 1 .. Len(ws) : ws[a] = w}
             s == Tickets(f, w)
             t == AtPlaces(f.ready, S)
  <2>1. w \in Workers
    BY <1>2 DEF Farms
  <2>2. s \in Seq(Msgs) /\ Len(s) \in Nat
    BY <2>1, TicketsType
  <2>3. S \in SUBSET (1 .. Len(f.ready)) /\ S \in SUBSET T
    BY <1>2
  <2>4. t \in Seq(Msgs) /\ Len(t) = Cardinality(S) /\ Cardinality(S) \in Nat
    <3> HIDE DEF S
    <3>1. f.ready \in Seq(Msgs)
      BY <1>2
    <3> QED BY <2>3, <3>1, Taken
  <2>5. IsFiniteSet(T) /\ Cardinality(T) \in Nat
    <3>1. IsFiniteSet(1 .. Len(ws))
      BY <1>2, FS_Interval
    <3> QED BY <3>1, FS_Subset, FS_CardinalityType
  <2>6. Cardinality(S) <= Cardinality(T)
    <3> HIDE DEF S, T
    <3> QED BY <2>3, <2>5, FS_Subset
  <2>7. Len(s) + Cardinality(T) <= JobLimit
    BY <2>1
  <2>8. g.assigned[w] = s \o t
    BY <1>1 DEF HandedOut
  <2> HIDE DEF s, t, S, T
  <2>9. Len(g.assigned[w]) = Len(s) + Cardinality(S)
    <3>1. Len(s \o t) = Len(s) + Len(t)
      BY <2>2, <2>4, Joining
    <3> QED BY <2>4, <2>8, <3>1
  <2>10. JobLimit \in Int
    BY FarmAssumption
  <2> QED BY <2>2, <2>4, <2>5, <2>6, <2>7, <2>9, <2>10
<1> QED BY <1>2, <1>4, <1>5 DEF g

\* assign_work never gives a worker more than it has places for.
LEMMA ChosenFit ==
  ASSUME NEW f \in Farms, Limited(f)
  PROVE  /\ Chosen(f) \in Seq(Workers)
         /\ \A a \in 1 .. Len(Chosen(f)) : Chosen(f)[a] \in DOMAIN f.assigned
         /\ \A w \in Workers :
              Len(Tickets(f, w)) + Cardinality({a \in 1 .. Len(Chosen(f)) : Chosen(f)[a] = w})
                <= JobLimit
<1> DEFINE P == Places(f)
           C == Cardinality(P)
           order == Sorted(P, Earlier)
           D == DOMAIN f.assigned
<1>1. /\ JobLimit \in Nat /\ JobLimit # 0 /\ IsFiniteSet(Workers)
      /\ D \subseteq Workers /\ \A w \in Workers : w \in Int
      /\ \A w \in D : Len(f.assigned[w]) \in 0 .. JobLimit
  <2>1. \A w \in D : f.assigned[w] \in Seq(Msgs)
    BY DEF Farms
  <2>2. \A w \in D : Len(f.assigned[w]) \in Nat
    BY <2>1
  <2>3. D \subseteq Workers
    BY DEF Farms
  <2> HIDE DEF D
  <2>4. \A w \in D : Len(f.assigned[w]) <= JobLimit
    BY DEF Limited, D
  <2>5. JobLimit \in Nat /\ JobLimit # 0 /\ IsFiniteSet(Workers) /\ \A w \in Workers : w \in Int
    BY FarmAssumption
  <2> QED BY <2>2, <2>3, <2>4, <2>5
<1>2. \A c \in P : c = <<c[1], c[2]>> /\ c[1] \in 0 .. JobLimit - 1 /\ c[2] \in D
                     /\ Len(f.assigned[c[2]]) <= c[1]
  BY DEF Places
<1>3. C \in Nat /\ Lists(order, P)
  <2>1. IsFiniteSet(0 .. JobLimit - 1) /\ IsFiniteSet(D)
    <3>1. IsFiniteSet(0 .. JobLimit - 1)
      BY <1>1, FS_Interval
    <3>2. IsFiniteSet(D)
      BY <1>1, FS_Subset
    <3> QED BY <3>1, <3>2
  <2>2. IsFiniteSet((0 .. JobLimit - 1) \X D)
    BY <2>1, FS_Product
  <2>3. IsFiniteSet(P)
    <3>1. P \in SUBSET ((0 .. JobLimit - 1) \X D)
      BY DEF Places
    <3> QED BY <2>2, <3>1, FS_Subset
  <2>4. P \in SUBSET (Int \X Int)
    <3> HIDE DEF P, D
    <3>1. \A c \in P : c[1] \in Int /\ c[2] \in Int
      BY <1>1, <1>2
    <3> QED BY <1>2, <3>1
  <2> QED BY <2>3, <2>4, SortedPairs
<1>4. Chosen(f) = [i \in 1 .. C |-> order[i][2]]
  BY DEF Chosen
<1> HIDE DEF order, C, P, D
<1>5. \A i \in 1 .. C : order[i] \in P
  BY <1>3 DEF Lists, C
<1>6. \A i, j \in 1 .. C : order[i] = order[j] => i = j
  BY <1>3 DEF Lists, C
<1>7. /\ Chosen(f) \in Seq(Workers) /\ Len(Chosen(f)) = C
      /\ \A a \in 1 .. C : Chosen(f)[a] = order[a][2] /\ Chosen(f)[a] \in D
  <2>1. \A i \in 1 .. C : order[i][2] \in D /\ order[i][2] \in Workers
    BY <1>1, <1>2, <1>5
  <2> QED BY <1>3, <1>4, <2>1
<1>8. ASSUME NEW w \in Workers
      PROVE  Len(Tickets(f, w)) + Cardinality({a \in 1 .. C : Chosen(f)[a] = w}) <= JobLimit
  <2> DEFINE T == {a \in 1 .. C : Chosen(f)[a] = w}
             L == Len(f.assigned[w])
             I == L .. JobLimit - 1
             level == [a \in T |-> order[a][1]]
  <2>1. CASE w \in D
    <3>1. Tickets(f, w) = f.assigned[w] /\ L \in 0 .. JobLimit
      BY <1>1, <2>1 DEF Tickets, D
    <3>2. \A a \in T : order[a] = <<order[a][1], w>> /\ order[a][1] \in I
      <4> SUFFICES ASSUME NEW a \in T
                   PROVE  order[a] = <<order[a][1], w>> /\ order[a][1] \in I
        OBVIOUS
      <4>1. a \in 1 .. C /\ order[a][2] = w
        BY <1>7
      <4>2. order[a] \in P
        BY <1>5, <4>1
      <4>3. order[a] = <<order[a][1], w>> /\ order[a][1] \in 0 .. JobLimit - 1 /\ L <= order[a][1]
        BY <1>2, <4>1, <4>2
      <4> QED BY <1>1, <3>1, <4>3
    <3> HIDE DEF L
    <3>3. level \in Injection(T, I)
      <4>1. \A a \in T : level[a] \in I
        BY <3>2
      <4>2. \A a, b \in T : level[a] = level[b] => a = b
        <5> SUFFICES ASSUME NEW a \in T, NEW b \in T, order[a][1] = order[b][1]
                     PROVE  a = b
          OBVIOUS
        <5>1. order[a] = order[b]
          BY <3>2
        <5> QED BY <1>6, <5>1
      <4> HIDE DEF T, I
      <4> QED BY <4>1, <4>2 DEF Injection, IsInjective
    <3>4. IsFiniteSet(I) /\ Cardinality(I) = JobLimit - L
      <4>1. L \in Int /\ JobLimit - 1 \in Int
        BY <1>1, <3>1
      <4>2. IsFiniteSet(I) /\ Cardinality(I) = IF L > JobLimit - 1 THEN 0 ELSE JobLimit - 1 - L + 1
        BY <4>1, FS_Interval
      <4> QED BY <1>1, <3>1, <4>2
    <3>5. IsFiniteSet(T) /\ Cardinality(T) <= Cardinality(I)
      <4> HIDE DEF T, I, level
      <4> QED BY <3>3, <3>4, FS_Injection
    <3>6. Cardinality(T) \in Nat
      BY <3>5, FS_CardinalityType
    <3> QED BY <1>1, <3>1, <3>4, <3>5, <3>6 DEF L
  <2>2. CASE w \notin D
    <3>1. Len(Tickets(f, w)) = 0
      BY <2>2, TicketsType DEF D
    <3>2. T = {}
      BY <1>7, <2>2
    <3>3. Cardinality(T) = 0
      BY <3>2, FS_EmptySet
    <3> QED BY <1>1, <3>1, <3>3
  <2> QED BY <2>1, <2>2
<1> QED BY <1>7, <1>8 DEF D

-----------------------------------------------------------------------------
(* Refresh and a reply, step by step.                                       *)

\* What holds of a farm between the steps of a handler, whatever its jobs are:
\* b is the present mailbox, rs are the replies on their way.
Sound(f, b, rs) ==
  f \in Farms /\ Limited(f) /\ Listed(f) /\ Labelled(f, b, rs)

\* Rearranging twice is rearranging.
LEMMA Rearrangements ==
  ASSUME NEW f, NEW g, NEW h, Rearranged(f, g), Rearranged(g, h)
  PROVE  Rearranged(f, h)
BY DEF Rearranged

\* Taking jobs back leaves a farm sound.
LEMMA TakenBackSound ==
  ASSUME NEW f, NEW g, NEW b, NEW rs, Sound(f, b, rs), TakenBack(f, g), Listed(g)
  PROVE  Sound(g, b, rs) /\ Rearranged(f, g)
BY TakenBackLabels DEF Sound, TakenBack

\* Work is given to workers that have an entry, and as much as they have room for.
LEMMA DispatchedSound ==
  ASSUME NEW f, NEW b \in Nat, NEW rs \in SUBSET Replies, Sound(f, b, rs),
         NEW ws \in Seq(Workers),
         \A a \in 1 .. Len(ws) : ws[a] \in DOMAIN f.assigned,
         \A w \in Workers :
           Len(Tickets(f, w)) + Cardinality({a \in 1 .. Len(ws) : ws[a] = w}) <= JobLimit
  PROVE  LET g == Dispatched(f, ws, b)
         IN  Sound(g, b, rs) /\ Rearranged(f, g)
<1> DEFINE g == Dispatched(f, ws, b)
<1>1. f \in Farms /\ Limited(f) /\ Listed(f) /\ Labelled(f, b, rs)
  BY DEF Sound
<1>2. /\ g \in Farms /\ Limited(g) /\ g.workers = f.workers
      /\ DOMAIN g.assigned \subseteq DOMAIN f.assigned \cup {ws[a] : a \in 1 .. Len(ws)}
  BY <1>1, DispatchedLimit, Zenon
<1>3. Labelled(g, b, rs)
  BY <1>1, DispatchedLabels, Zenon
<1>4. Rearranged(f, g)
  BY <1>1, DispatchedJobs, Zenon
<1> HIDE DEF g
<1>5. Listed(g)
  BY <1>1, <1>2 DEF Listed
<1> QED BY <1>2, <1>3, <1>4, <1>5 DEF Sound, g

\* The joiners are new, each is handed one job at most.
LEMMA JoinedSound ==
  ASSUME NEW f, NEW b \in Nat, NEW rs \in SUBSET Replies, Sound(f, b, rs),
         NEW present \in SUBSET Workers
  PROVE  LET g == Joined(f, Joiners(f, present), b)
         IN  Sound(g, b, rs) /\ Rearranged(f, g)
<1> DEFINE S == present \ ToSet(f.workers)
           new == Sorted(S, <)
           h == Dispatched(f, new, b)
           g == [h EXCEPT !.workers = f.workers \o new]
<1>1. f \in Farms /\ Limited(f) /\ Listed(f) /\ Labelled(f, b, rs)
  BY DEF Sound
<1>2. f.workers \in Seq(Workers) /\ Len(f.workers) \in Nat /\ DOMAIN f.assigned \subseteq Workers
  BY <1>1 DEF Farms
<1>3. S \subseteq Workers /\ \A a \in 1 .. Len(f.workers) : f.workers[a] \notin S
  BY <1>2 DEF ToSet
<1> HIDE DEF S
<1>4. Cardinality(S) \in Nat /\ Lists(new, S) /\ IsFiniteSet(S)
  <2>1. S \in SUBSET Nat /\ IsFiniteSet(S)
    BY <1>3, FarmAssumption, FS_Subset
  <2> QED BY <2>1, SortedNumbers
<1> HIDE DEF new
<1>5. /\ new \in Seq(Workers) /\ Len(new) = Cardinality(S)
      /\ \A a \in 1 .. Len(new) : new[a] \in S
      /\ \A a, c \in 1 .. Len(new) : new[a] = new[c] => a = c
  <2>1. new \in [1 .. Cardinality(S) -> S]
    BY <1>4 DEF Lists
  <2>2. new \in [1 .. Cardinality(S) -> Workers]
    BY <1>3, <2>1
  <2>3. new \in Seq(Workers) /\ Len(new) = Cardinality(S)
    BY <1>4, <2>2
  <2> QED BY <1>4, <2>1, <2>3 DEF Lists
<1>6. \A w \in DOMAIN f.assigned : w \notin S
  BY <1>1, <1>3 DEF Listed
<1>7. \A w \in Workers :
        Len(Tickets(f, w)) + Cardinality({a \in 1 .. Len(new) : new[a] = w}) <= JobLimit
  <2> SUFFICES ASSUME NEW w \in Workers
               PROVE  Len(Tickets(f, w)) + Cardinality({a \in 1 .. Len(new) : new[a] = w})
                        <= JobLimit
    OBVIOUS
  <2> DEFINE T == {a \in 1 .. Len(new) : new[a] = w}
  <2>1. JobLimit \in Nat /\ JobLimit # 0
    BY FarmAssumption
  <2>2. CASE w \in S
    <3>1. Len(Tickets(f, w)) = 0
      BY <1>1, <1>6, <2>2, TicketsType
    <3>2. T = {} \/ \E a : T = {a}
      <4> SUFFICES ASSUME T # {} PROVE \E a : T = {a}
        OBVIOUS
      <4>1. PICK a \in T : TRUE
        OBVIOUS
      <4>2. \A c \in T : c = a
        BY <1>5
      <4>3. T = {a}
        BY <4>2
      <4> QED BY <4>3
    <3>3. Cardinality(T) = 0 \/ Cardinality(T) = 1
      <4> HIDE DEF T
      <4> QED BY <3>2, FS_EmptySet, FS_Singleton
    <3> QED BY <2>1, <3>1, <3>3
  <2>3. CASE w \notin S
    <3>1. T = {}
      BY <1>5, <2>3
    <3>2. Cardinality(T) = 0
      BY <3>1, FS_EmptySet
    <3>3. Len(Tickets(f, w)) \in Nat /\ Len(Tickets(f, w)) <= JobLimit
      <4>1. CASE w \in DOMAIN f.assigned
        BY <1>1, <4>1, TicketsType DEF Limited
      <4>2. CASE w \notin DOMAIN f.assigned
        BY <1>1, <2>1, <4>2, TicketsType
      <4> QED BY <4>1, <4>2
    <3> QED BY <2>1, <3>2, <3>3
  <2> QED BY <2>2, <2>3
<1>8. /\ h \in Farms /\ Limited(h) /\ h.workers = f.workers
      /\ DOMAIN h.assigned \subseteq DOMAIN f.assigned \cup {new[a] : a \in 1 .. Len(new)}
  BY <1>1, <1>5, <1>7, DispatchedLimit, Zenon
<1>9. Labelled(h, b, rs) /\ Rearranged(f, h)
  <2>1. Labelled(h, b, rs)
    BY <1>1, <1>5, DispatchedLabels, Zenon
  <2>2. Rearranged(f, h)
    BY <1>1, <1>5, DispatchedJobs, Zenon
  <2> QED BY <2>1, <2>2
<1>10. Joined(f, Joiners(f, present), b) = g
  <2>1. Joiners(f, present) = new
    BY DEF Joiners, InOrder, new, S
  <2>2. Joined(f, new, b) = [h EXCEPT !.workers = h.workers \o new]
    BY DEF Joined
  <2> HIDE DEF h
  <2> QED BY <1>8, <2>1, <2>2 DEF h
<1> HIDE DEF h
<1>11. f.workers \o new \in Seq(Workers)
  BY <1>2, <1>5, Joining
<1>12. /\ g \in Farms /\ g.workers = f.workers \o new
       /\ g.ready = h.ready /\ g.assigned = h.assigned /\ g.key = h.key
       /\ g.body = h.body /\ g.pending = h.pending
  BY <1>8, <1>11 DEF Farms
<1> HIDE DEF g
<1>13. Slots(g) = Slots(h) /\ \A x : JobAt(g, x) = JobAt(h, x)
  BY <1>12 DEF Slots, JobAt
<1>14. Rearranged(f, g)
  BY <1>9, <1>13 DEF Rearranged, Holds, Once
<1>15. Limited(g) /\ Labelled(g, b, rs)
  BY <1>8, <1>9, <1>12 DEF Limited, Labelled
<1>16. Listed(g)
  <2> DEFINE N == Len(f.workers)
             ws == f.workers \o new
  <2>1. Len(ws) = N + Len(new) /\ Len(new) \in Nat
    <3>1. f.workers \in Seq(Workers) /\ new \in Seq(Workers)
      BY <1>2, <1>5
    <3> QED BY <3>1, Joining
  <2>2. \A a \in 1 .. N : ws[a] = f.workers[a]
    BY <1>2, <1>5, Joining
  <2>3. \A a \in 1 .. Len(new) : ws[N + a] = new[a]
    BY <1>2, <1>5, Joining
  <2> HIDE DEF ws
  <2>4. \A a \in 1 .. Len(ws) : a \in 1 .. N \/ (a - N \in 1 .. Len(new) /\ a = N + (a - N))
    BY <1>2, <2>1
  <2>5. \A a \in 1 .. Len(ws) :
          \/ a \in 1 .. N /\ ws[a] = f.workers[a] /\ ws[a] \notin S
          \/ \E c \in 1 .. Len(new) : a = N + c /\ ws[a] = new[c] /\ ws[a] \in S
    <3> SUFFICES ASSUME NEW a \in 1 .. Len(ws)
                 PROVE  \/ a \in 1 .. N /\ ws[a] = f.workers[a] /\ ws[a] \notin S
                        \/ \E c \in 1 .. Len(new) : a = N + c /\ ws[a] = new[c] /\ ws[a] \in S
      OBVIOUS
    <3>1. CASE a \in 1 .. N
      BY <1>3, <2>2, <3>1
    <3>2. CASE a - N \in 1 .. Len(new) /\ a = N + (a - N)
      <4>1. PICK c \in 1 .. Len(new) : a = N + c
        BY <3>2
      <4> QED BY <1>5, <2>3, <4>1
    <3> QED BY <2>4, <3>1, <3>2
  <2>6. \A a, c \in 1 .. Len(ws) : ws[a] = ws[c] => a = c
    BY <1>1, <1>5, <2>5 DEF Listed
  <2>7. \A w \in DOMAIN g.assigned : \E a \in 1 .. Len(ws) : ws[a] = w
    <3> SUFFICES ASSUME NEW w \in DOMAIN g.assigned PROVE \E a \in 1 .. Len(ws) : ws[a] = w
      OBVIOUS
    <3>1. CASE w \in DOMAIN f.assigned
      <4>1. PICK a \in 1 .. N : f.workers[a] = w
        BY <1>1, <3>1 DEF Listed
      <4>2. a \in 1 .. Len(ws)
        BY <1>2, <2>1
      <4> QED BY <2>2, <4>1, <4>2
    <3>2. CASE \E a \in 1 .. Len(new) : new[a] = w
      <4>1. PICK a \in 1 .. Len(new) : new[a] = w
        BY <3>2
      <4>2. N + a \in 1 .. Len(ws)
        BY <1>2, <2>1
      <4> QED BY <2>3, <4>1, <4>2
    <3> QED BY <1>8, <1>12, <3>1, <3>2
  <2> QED BY <1>12, <2>6, <2>7 DEF Listed, ws
<1>17. Sound(g, b, rs)
  BY <1>12, <1>15, <1>16 DEF Sound
<1> QED BY <1>10, <1>14, <1>17

\* What complete_job takes away: the i-th ticket of the worker w.
Retired(f, w, i) == [f EXCEPT !.assigned[w] = RemoveAt(@, i)]

\* A ticket goes and its job with it; the others stay.
LEMMA RetiredTicket ==
  ASSUME NEW f, NEW b, NEW rs, Sound(f, b, rs), Once(f),
         NEW w \in DOMAIN f.assigned, NEW i \in 1 .. Len(f.assigned[w])
  PROVE  /\ Sound(Retired(f, w, i), b, rs) /\ Once(Retired(f, w, i))
         /\ DOMAIN Retired(f, w, i).assigned = DOMAIN f.assigned
         /\ Len(Retired(f, w, i).assigned[w]) + 1 = Len(f.assigned[w])
         /\ \A m : Holds(Retired(f, w, i), m) <=> Holds(f, m) /\ m # f.assigned[w][i]
<1> DEFINE s == f.assigned[w]
           t == RemoveAt(s, i)
           assigned == [f.assigned EXCEPT ![w] = t]
           g == [f EXCEPT !.assigned = assigned]
           D == DOMAIN f.assigned
<1>1. f \in Farms /\ Limited(f) /\ Listed(f) /\ Labelled(f, b, rs)
  BY DEF Sound
<1>2. /\ D \subseteq Workers /\ f.assigned \in [D -> Seq(Msgs)]
      /\ w \in Workers /\ s \in Seq(Msgs) /\ Len(s) \in Nat
  <2>1. D \subseteq Workers /\ f.assigned \in [D -> Seq(Msgs)]
    BY <1>1 DEF Farms
  <2>2. s \in Seq(Msgs)
    BY <2>1
  <2> QED BY <2>1, <2>2
<1>3. /\ t \in Seq(Msgs) /\ Len(t) + 1 = Len(s) /\ Len(t) \in Nat
      /\ \A j \in 1 .. Len(t) : t[j] = IF j < i THEN s[j] ELSE s[j + 1]
  <2> DEFINE c == SubSeq(s, 1, i - 1)
             d == SubSeq(s, i + 1, Len(s))
  <2> HIDE DEF s
  <2>1. i \in 1 .. Len(s) /\ Len(s) \in Nat
    BY <1>2 DEF s
  <2>2. c \in Seq(Msgs) /\ Len(c) = i - 1 /\ \A j \in 1 .. i - 1 : c[j] = s[j]
    BY <1>2, <2>1
  <2>3. d \in Seq(Msgs) /\ Len(d) = Len(s) - i /\ \A j \in 1 .. Len(s) - i : d[j] = s[j + i]
    BY <1>2, <2>1
  <2>4. t = c \o d
    BY DEF RemoveAt
  <2> HIDE DEF c, d, t
  <2>5. t \in Seq(Msgs) /\ Len(t) = Len(c) + Len(d)
    BY <2>2, <2>3, <2>4, Joining
  <2>6. \A j \in 1 .. Len(c) : t[j] = c[j]
    BY <2>2, <2>3, <2>4, Joining
  <2>7. \A j \in 1 .. Len(d) : t[Len(c) + j] = d[j]
    BY <2>2, <2>3, <2>4, Joining
  <2>8. Len(t) + 1 = Len(s) /\ Len(t) \in Nat
    BY <2>1, <2>2, <2>3, <2>5, SMTT(60)
  <2>9. \A j \in 1 .. Len(t) : t[j] = IF j < i THEN s[j] ELSE s[j + 1]
    <3> SUFFICES ASSUME NEW j \in 1 .. Len(t)
                 PROVE  t[j] = IF j < i THEN s[j] ELSE s[j + 1]
      OBVIOUS
    <3>1. CASE j < i
      <4>1. j \in 1 .. i - 1 /\ j \in 1 .. Len(c)
        BY <2>1, <2>2, <3>1
      <4> QED BY <2>2, <2>6, <3>1, <4>1
    <3>2. CASE ~(j < i)
      <4>1. j - (i - 1) \in 1 .. Len(d) /\ j - (i - 1) \in 1 .. Len(s) - i
            /\ j = (i - 1) + (j - (i - 1)) /\ (j - (i - 1)) + i = j + 1
        BY <2>1, <2>3, <2>8, <3>2
      <4>2. PICK k \in 1 .. Len(d) : k \in 1 .. Len(s) - i /\ j = (i - 1) + k /\ k + i = j + 1
        BY <4>1
      <4>3. t[j] = d[k] /\ d[k] = s[j + 1]
        BY <2>2, <2>3, <2>7, <4>2
      <4> QED BY <3>2, <4>3
    <3> QED BY <3>1, <3>2
  <2> QED BY <2>5, <2>8, <2>9
<1>4. g = Retired(f, w, i)
  <2> SUFFICES [f EXCEPT !.assigned[w] = RemoveAt(@, i)] =
                 [f EXCEPT !.assigned = [f.assigned EXCEPT ![w] = RemoveAt(f.assigned[w], i)]]
    BY DEF Retired
  <2> QED BY <1>1 DEF Farms
<1> HIDE DEF t
<1>5. /\ assigned \in [D -> Seq(Msgs)] /\ assigned[w] = t
      /\ \A v \in D : v # w => assigned[v] = f.assigned[v]
  BY <1>2, <1>3
<1>6. assigned \in UNION {[vs -> Seq(Msgs)] : vs \in SUBSET Workers}
  <2> HIDE DEF assigned, D
  <2> QED BY <1>2, <1>5
<1> HIDE DEF assigned
<1>7. /\ g \in Farms /\ g.assigned = assigned /\ g.ready = f.ready /\ g.workers = f.workers
      /\ g.key = f.key /\ g.body = f.body /\ g.pending = f.pending
  BY <1>1, <1>6 DEF Farms
<1> HIDE DEF g
<1>8. DOMAIN g.assigned = D
  BY <1>5, <1>7
\* The place in f of a place in g.
<1> DEFINE at(x) == IF x[1] = w /\ ~(x[2] < i) THEN <<w, x[2] + 1>> ELSE x
<1>9. w # -1 /\ \A v \in D : v \in Workers /\ v # -1
  BY <1>2, FarmAssumption
<1>10. \A v \in D : \A j \in 1 .. Len(f.assigned[v]) :
         j \in Int /\ <<v, j>> \in Slots(f) /\ JobAt(f, <<v, j>>) = f.assigned[v][j]
  <2> SUFFICES ASSUME NEW v \in D, NEW j \in 1 .. Len(f.assigned[v])
               PROVE  /\ j \in Int /\ <<v, j>> \in Slots(f)
                      /\ JobAt(f, <<v, j>>) = f.assigned[v][j]
    OBVIOUS
  <2>1. j \in Int /\ v \in Workers
    BY <1>9
  <2> QED BY <1>1, <2>1, SlotKinds
<1>11. \A v \in D : \A j \in 1 .. Len(g.assigned[v]) :
         j \in Int /\ <<v, j>> \in Slots(g) /\ JobAt(g, <<v, j>>) = g.assigned[v][j]
  <2> SUFFICES ASSUME NEW v \in D, NEW j \in 1 .. Len(g.assigned[v])
               PROVE  /\ j \in Int /\ <<v, j>> \in Slots(g)
                      /\ JobAt(g, <<v, j>>) = g.assigned[v][j]
    OBVIOUS
  <2>1. j \in Int /\ v \in Workers /\ v \in DOMAIN g.assigned
    BY <1>8, <1>9
  <2> QED BY <1>7, <2>1, SlotKinds
<1>12. /\ \A k \in 1 .. Len(f.ready) :
            /\ k \in Int /\ <<-1, k>> \in Slots(f) /\ <<-1, k>> \in Slots(g)
            /\ JobAt(f, <<-1, k>>) = f.ready[k] /\ JobAt(g, <<-1, k>>) = f.ready[k]
  BY <1>1, <1>7, SlotKinds
<1>13. \A x \in Slots(g) :
         /\ at(x) \in Slots(f) /\ JobAt(g, x) = JobAt(f, at(x)) /\ at(x) # <<w, i>>
         /\ x[2] \in Int
  <2> SUFFICES ASSUME NEW x \in Slots(g)
               PROVE  /\ at(x) \in Slots(f) /\ JobAt(g, x) = JobAt(f, at(x))
                      /\ at(x) # <<w, i>> /\ x[2] \in Int
    OBVIOUS
  <2>1. CASE \E k \in 1 .. Len(g.ready) : x = <<-1, k>>
    <3>1. PICK k \in 1 .. Len(f.ready) : x = <<-1, k>>
      BY <1>7, <2>1
    <3>2. at(x) = x /\ x[1] # w
      BY <1>9, <3>1
    <3> QED BY <1>9, <1>12, <3>1, <3>2
  <2>2. CASE \E v \in DOMAIN g.assigned : \E j \in 1 .. Len(g.assigned[v]) : x = <<v, j>>
    <3>1. PICK v \in D : \E j \in 1 .. Len(g.assigned[v]) : x = <<v, j>>
      BY <1>8, <2>2
    <3>2. PICK j \in 1 .. Len(g.assigned[v]) : x = <<v, j>>
      BY <3>1
    <3>3. j \in Int /\ JobAt(g, x) = g.assigned[v][j]
      BY <1>11, <3>2
    <3>4. CASE v # w
      <4>1. g.assigned[v] = f.assigned[v]
        BY <1>5, <1>7, <3>4
      <4>2. at(x) = <<v, j>> /\ at(x) # <<w, i>>
        BY <3>2, <3>4
      <4> QED BY <1>10, <3>2, <3>3, <4>1, <4>2
    <3>5. CASE v = w /\ j < i
      <4>1. j \in 1 .. Len(t) /\ j \in 1 .. Len(s) /\ t[j] = s[j]
        BY <1>3, <1>5, <1>7, <3>5
      <4>2. at(x) = <<w, j>> /\ at(x) # <<w, i>>
        BY <3>2, <3>3, <3>5
      <4> QED BY <1>5, <1>7, <1>10, <3>2, <3>3, <3>5, <4>1, <4>2
    <3>6. CASE v = w /\ ~(j < i)
      <4>1. j \in 1 .. Len(t) /\ j + 1 \in 1 .. Len(s) /\ t[j] = s[j + 1] /\ j + 1 # i
        BY <1>3, <1>5, <1>7, <3>6
      <4>2. at(x) = <<w, j + 1>> /\ at(x) # <<w, i>>
        BY <3>2, <3>3, <3>6, <4>1
      <4> QED BY <1>5, <1>7, <1>10, <3>2, <3>3, <3>6, <4>1, <4>2
    <3> QED BY <3>4, <3>5, <3>6
  <2> QED BY <1>7, <2>1, <2>2, SlotKinds
<1>14. \A x, y \in Slots(g) : at(x) = at(y) => x = y
  <2>1. \A x \in Slots(g) : x = <<x[1], x[2]>> /\ x[2] \in Int
    BY <1>13 DEF Slots
  <2>2. i \in Int
    OBVIOUS
  <2> SUFFICES ASSUME NEW x \in Slots(g), NEW y \in Slots(g), at(x) = at(y)
               PROVE  x = y
    OBVIOUS
  <2>3. x[1] = y[1]
    OBVIOUS
  <2>4. x[2] = y[2]
    BY <2>1, <2>2, <2>3
  <2> QED BY <2>1, <2>3, <2>4
<1>15. \A y \in Slots(f) : y # <<w, i>> => \E x \in Slots(g) : at(x) = y
  <2> SUFFICES ASSUME NEW y \in Slots(f), y # <<w, i>> PROVE \E x \in Slots(g) : at(x) = y
    OBVIOUS
  <2>1. CASE \E k \in 1 .. Len(f.ready) : y = <<-1, k>>
    <3>1. PICK k \in 1 .. Len(f.ready) : y = <<-1, k>>
      BY <2>1
    <3>2. at(y) = y
      BY <1>9, <3>1
    <3> QED BY <1>12, <3>1, <3>2
  <2>2. CASE \E v \in D : \E j \in 1 .. Len(f.assigned[v]) : y = <<v, j>>
    <3>1. PICK v \in D : \E j \in 1 .. Len(f.assigned[v]) : y = <<v, j>>
      BY <2>2
    <3>2. PICK j \in 1 .. Len(f.assigned[v]) : y = <<v, j>>
      BY <3>1
    <3>3. CASE v # w
      <4>1. at(y) = y /\ g.assigned[v] = f.assigned[v]
        BY <1>5, <1>7, <3>2, <3>3
      <4> QED BY <1>11, <3>2, <4>1
    <3>4. CASE v = w /\ j < i
      <4>1. j \in 1 .. Len(g.assigned[w])
        BY <1>2, <1>3, <1>5, <1>7, <3>4
      <4>2. at(y) = y
        BY <3>2, <3>4
      <4> QED BY <1>11, <3>2, <3>4, <4>1, <4>2
    <3>5. CASE v = w /\ ~(j < i)
      <4>1. j # i
        BY <3>2, <3>5
      <4>2. j - 1 \in 1 .. Len(g.assigned[w]) /\ (j - 1) + 1 = j /\ ~(j - 1 < i)
        BY <1>2, <1>3, <1>5, <1>7, <3>5, <4>1
      <4>3. PICK k \in 1 .. Len(g.assigned[w]) : k + 1 = j /\ ~(k < i)
        BY <4>2
      <4>4. at(<<w, k>>) = y
        BY <3>2, <3>5, <4>3
      <4> QED BY <1>11, <4>4
    <3> QED BY <3>3, <3>4, <3>5
  <2> QED BY <1>1, <2>1, <2>2, SlotKinds
<1> HIDE DEF at
<1>16. <<w, i>> \in Slots(f) /\ JobAt(f, <<w, i>>) = s[i]
  BY <1>10
<1>17. \A m : Holds(g, m) <=> Holds(f, m) /\ m # s[i]
  <2>1. ASSUME NEW m, Holds(g, m) PROVE Holds(f, m) /\ m # s[i]
    <3>1. PICK x \in Slots(g) : JobAt(g, x) = m
      BY <2>1 DEF Holds
    <3>2. at(x) \in Slots(f) /\ JobAt(f, at(x)) = m /\ at(x) # <<w, i>>
      BY <1>13, <3>1
    <3> QED BY <1>16, <3>2 DEF Holds, Once
  <2>2. ASSUME NEW m, Holds(f, m), m # s[i] PROVE Holds(g, m)
    <3>1. PICK y \in Slots(f) : JobAt(f, y) = m
      BY <2>2 DEF Holds
    <3>2. y # <<w, i>>
      BY <1>16, <2>2, <3>1
    <3>3. PICK x \in Slots(g) : at(x) = y
      BY <1>15, <3>2
    <3> QED BY <1>13, <3>1, <3>3 DEF Holds
  <2> QED BY <2>1, <2>2
<1>18. Once(g)
  BY <1>13, <1>14 DEF Once
<1>19. Limited(g) /\ Listed(g)
  <2>1. \A v \in D : Len(g.assigned[v]) <= JobLimit
    <3> SUFFICES ASSUME NEW v \in D PROVE Len(g.assigned[v]) <= JobLimit
      OBVIOUS
    <3>1. CASE v # w
      BY <1>1, <1>5, <1>7, <3>1 DEF Limited
    <3>2. CASE v = w
      <4>1. Len(s) <= JobLimit /\ JobLimit \in Int
        BY <1>1, FarmAssumption DEF Limited
      <4> QED BY <1>2, <1>3, <1>5, <1>7, <3>2, <4>1
    <3> QED BY <3>1, <3>2
  <2> QED BY <1>1, <1>7, <1>8, <2>1 DEF Limited, Listed
<1>20. Labelled(g, b, rs)
  <2>1. \A v \in D : \A j \in 1 .. Len(g.assigned[v]) :
          \E k \in 1 .. Len(f.assigned[v]) : g.assigned[v][j] = f.assigned[v][k]
    <3> SUFFICES ASSUME NEW v \in D, NEW j \in 1 .. Len(g.assigned[v])
                 PROVE  \E k \in 1 .. Len(f.assigned[v]) : g.assigned[v][j] = f.assigned[v][k]
      OBVIOUS
    <3>1. CASE v # w
      BY <1>5, <1>7, <3>1
    <3>2. CASE v = w
      <4>1. j \in 1 .. Len(s) /\ j + 1 \in 1 .. Len(s)
            /\ (g.assigned[w][j] = s[j] \/ g.assigned[w][j] = s[j + 1])
        BY <1>2, <1>3, <1>5, <1>7, <3>2
      <4> QED BY <3>2, <4>1
    <3> QED BY <3>1, <3>2
  <2>2. \A v \in D : \A j \in 1 .. Len(g.assigned[v]) : f.body[g.assigned[v][j]].reply = b
    BY <1>1, <2>1, SMTT(60) DEF Labelled
  <2> QED BY <1>1, <1>7, <1>8, <2>2 DEF Labelled
<1>21. Sound(g, b, rs)
  BY <1>7, <1>19, <1>20 DEF Sound
<1> QED BY <1>3, <1>4, <1>5, <1>7, <1>8, <1>17, <1>18, <1>21

-----------------------------------------------------------------------------
(* The steps of the farm.                                                   *)

\* Refreshing takes jobs back and hands jobs out, but makes and loses none.
LEMMA RefreshedSound ==
  ASSUME NEW f, NEW b \in Nat, NEW rs \in SUBSET Replies, Sound(f, b, rs),
         NEW old, NEW present \in SUBSET Workers
  PROVE  LET d == Departed(Restarted(f, old), present)
             g == Joined(d, Joiners(d, present), b)
             h == Dispatched(g, Chosen(g), b)
         IN  Sound(h, b, rs) /\ Rearranged(f, h)
<1> DEFINE e == Restarted(f, old)
           d == Departed(e, present)
           g == Joined(d, Joiners(d, present), b)
           h == Dispatched(g, Chosen(g), b)
<1>1. f \in Farms /\ Limited(f) /\ Listed(f)
  BY DEF Sound
<1>2. TakenBack(f, e) /\ e.workers = f.workers
  BY <1>1, RestartedJobs
<1> HIDE DEF e
<1>3. Listed(e)
  BY <1>1, <1>2 DEF TakenBack, Listed
<1>4. Sound(e, b, rs) /\ Rearranged(f, e)
  BY <1>2, <1>3, TakenBackSound
<1>5. TakenBack(e, d) /\ Listed(d)
  BY <1>4, DepartedJobs DEF Sound
<1> HIDE DEF d
<1>6. Sound(d, b, rs) /\ Rearranged(e, d)
  BY <1>4, <1>5, TakenBackSound
<1>7. Sound(g, b, rs) /\ Rearranged(d, g)
  BY <1>6, JoinedSound, Zenon
<1> HIDE DEF g
<1>8. /\ Chosen(g) \in Seq(Workers)
      /\ \A a \in 1 .. Len(Chosen(g)) : Chosen(g)[a] \in DOMAIN g.assigned
      /\ \A w \in Workers :
           Len(Tickets(g, w)) + Cardinality({a \in 1 .. Len(Chosen(g)) : Chosen(g)[a] = w})
             <= JobLimit
  BY <1>7, ChosenFit DEF Sound
<1>9. Sound(h, b, rs) /\ Rearranged(g, h)
  BY <1>7, <1>8, DispatchedSound, Zenon
<1>10. Rearranged(f, h)
  BY <1>4, <1>6, <1>7, <1>9, Rearrangements
<1> QED BY <1>9, <1>10 DEF e, d, g

\* A reply that matches a ticket is to the job of that ticket, which is retired.
LEMMA CompletedSound ==
  ASSUME NEW f, NEW rs \in SUBSET Replies, NEW r \in rs, box \in Nat,
         Sound(f, box, rs), Once(f), r.box = box, Matching(f, r) # {}
  PROVE  /\ Sound(Completed(f, r), box, rs) /\ Once(Completed(f, r))
         /\ \A m : Holds(Completed(f, r), m) <=> Holds(f, m) /\ m # r.msg
         /\ r.worker \in DOMAIN f.assigned
         /\ \E i \in 1 .. Len(f.assigned[r.worker]) : f.assigned[r.worker][i] = r.msg
<1> DEFINE w == r.worker
           i == CHOOSE i \in Matching(f, r) : TRUE
           e == Retired(f, w, i)
           g == Dispatched(e, <<w>>, box)
<1>1. f \in Farms /\ Limited(f) /\ Labelled(f, box, rs)
  BY DEF Sound
<1>2. w \in Workers /\ r \in Replies
  BY DEF Replies
<1>3. i \in Matching(f, r)
  OBVIOUS
<1>4. Completed(f, r) = g
  BY DEF Completed, Retired
<1> HIDE DEF i
<1>5. i \in 1 .. Len(Tickets(f, w)) /\ f.body[Tickets(f, w)[i]].key = r.key
  BY <1>3 DEF Matching
<1>6. w \in DOMAIN f.assigned /\ Tickets(f, w) = f.assigned[w] /\ f.assigned[w] \in Seq(Msgs)
  <2>1. w \in DOMAIN f.assigned
    BY <1>1, <1>2, <1>5, TicketsType
  <2> QED BY <1>1, <1>2, <2>1, TicketsType
<1>7. /\ i \in 1 .. Len(f.assigned[w]) /\ f.assigned[w][i] \in Msgs
      /\ f.body[f.assigned[w][i]].key = r.key
  BY <1>5, <1>6
<1>8. f.assigned[w][i] = r.msg
  BY <1>1, <1>6, <1>7 DEF Labelled
<1>9. /\ Sound(e, box, rs) /\ Once(e)
      /\ DOMAIN e.assigned = DOMAIN f.assigned
      /\ Len(e.assigned[w]) + 1 = Len(f.assigned[w])
      /\ \A m : Holds(e, m) <=> Holds(f, m) /\ m # r.msg
  <2>1. /\ Sound(e, box, rs) /\ Once(e)
        /\ DOMAIN e.assigned = DOMAIN f.assigned
        /\ Len(e.assigned[w]) + 1 = Len(f.assigned[w])
        /\ \A m : Holds(e, m) <=> Holds(f, m) /\ m # f.assigned[w][i]
    BY <1>6, <1>7, RetiredTicket, SMTT(60)
  <2> QED BY <1>8, <2>1
<1> HIDE DEF e
<1>10. <<w>> \in Seq(Workers) /\ Len(<<w>>) = 1 /\ <<w>>[1] = w
  BY <1>2
<1>11. \A a \in 1 .. Len(<<w>>) : <<w>>[a] \in DOMAIN e.assigned
  BY <1>6, <1>9, <1>10
<1>12. \A v \in Workers :
         Len(Tickets(e, v)) + Cardinality({a \in 1 .. Len(<<w>>) : <<w>>[a] = v}) <= JobLimit
  <2> SUFFICES ASSUME NEW v \in Workers
               PROVE  Len(Tickets(e, v)) + Cardinality({a \in 1 .. Len(<<w>>) : <<w>>[a] = v})
                        <= JobLimit
    OBVIOUS
  <2>1. e \in Farms /\ Limited(e) /\ JobLimit \in Nat /\ JobLimit # 0
    BY <1>9, FarmAssumption DEF Sound
  <2>2. CASE v = w
    <3>1. {a \in 1 .. Len(<<w>>) : <<w>>[a] = v} = {1}
      BY <1>10, <2>2
    <3>2. Cardinality({a \in 1 .. Len(<<w>>) : <<w>>[a] = v}) = 1
      BY <3>1, FS_Singleton
    <3>3. Len(Tickets(e, v)) + 1 <= JobLimit
      BY <1>1, <1>6, <1>9, <2>1, <2>2, TicketsType DEF Limited
    <3> QED BY <3>2, <3>3
  <2>3. CASE v # w
    <3>1. {a \in 1 .. Len(<<w>>) : <<w>>[a] = v} = {}
      BY <1>10, <2>3
    <3>2. Cardinality({a \in 1 .. Len(<<w>>) : <<w>>[a] = v}) = 0
      BY <3>1, FS_EmptySet
    <3>3. Len(Tickets(e, v)) \in Nat /\ Len(Tickets(e, v)) <= JobLimit
      <4>1. CASE v \in DOMAIN e.assigned
        BY <2>1, <4>1, TicketsType DEF Limited
      <4>2. CASE v \notin DOMAIN e.assigned
        BY <2>1, <4>2, TicketsType
      <4> QED BY <4>1, <4>2
    <3> QED BY <3>2, <3>3
  <2> QED BY <2>2, <2>3
<1>13. Sound(g, box, rs) /\ Rearranged(e, g)
  BY <1>9, <1>10, <1>11, <1>12, DispatchedSound, Zenon
<1> HIDE DEF g
<1>14. Once(g) /\ \A m : Holds(g, m) <=> Holds(f, m) /\ m # r.msg
  BY <1>9, <1>13 DEF Rearranged
<1>15. \E k \in 1 .. Len(f.assigned[r.worker]) : f.assigned[r.worker][k] = r.msg
  BY <1>7, <1>8
<1> QED BY <1>4, <1>6, <1>13, <1>14, <1>15

-----------------------------------------------------------------------------
(* The jobs of the farms.                                                   *)

\* Every farm has its own jobs, each once.
LEMMA JobsApart ==
  /\ \A r \in DOMAIN Jobs :
       /\ Jobs[r] \in Nat /\ JobsOf(r) \in Seq(Msgs) /\ Len(JobsOf(r)) = Jobs[r]
       /\ \A j \in 1 .. Jobs[r] : JobsOf(r)[j] = <<r, j>>
  /\ \A r \in DOMAIN Jobs : \A m : m \in ToSet(JobsOf(r)) <=> m \in Msgs /\ m[1] = r
  /\ DOMAIN Jobs = 1 .. Len(Jobs) /\ Len(Jobs) \in Nat \ {0}
<1>1. /\ DOMAIN Jobs = 1 .. Len(Jobs) /\ Len(Jobs) \in Nat \ {0}
      /\ \A r \in DOMAIN Jobs : Jobs[r] \in Nat \ {0}
  BY FarmAssumption
<1>2. \A r \in DOMAIN Jobs : /\ DOMAIN JobsOf(r) = 1 .. Jobs[r]
                             /\ \A j \in 1 .. Jobs[r] : JobsOf(r)[j] = <<r, j>>
  BY DEF JobsOf
<1>3. \A r \in DOMAIN Jobs : \A m : m \in ToSet(JobsOf(r)) <=> \E j \in 1 .. Jobs[r] : m = <<r, j>>
  BY <1>2 DEF ToSet
<1>4. \A m \in Msgs : \E r \in DOMAIN Jobs : m \in ToSet(JobsOf(r))
  BY DEF Msgs
<1>5. \A r \in DOMAIN Jobs : \A m : m \in ToSet(JobsOf(r)) => m \in Msgs
  BY DEF Msgs
<1>6. \A r \in DOMAIN Jobs : JobsOf(r) \in Seq(Msgs) /\ Len(JobsOf(r)) = Jobs[r]
  <2> SUFFICES ASSUME NEW r \in DOMAIN Jobs
               PROVE  JobsOf(r) \in Seq(Msgs) /\ Len(JobsOf(r)) = Jobs[r]
    OBVIOUS
  <2>1. \A j \in 1 .. Jobs[r] : <<r, j>> \in Msgs
    BY <1>3, <1>5
  <2>2. JobsOf(r) = [j \in 1 .. Jobs[r] |-> <<r, j>>]
    BY DEF JobsOf
  <2>3. Jobs[r] \in Nat
    BY <1>1
  <2> HIDE DEF Msgs
  <2> QED BY <2>1, <2>2, <2>3
<1>7. \A r \in DOMAIN Jobs : \A m : m \in ToSet(JobsOf(r)) <=> m \in Msgs /\ m[1] = r
  <2>1. ASSUME NEW r \in DOMAIN Jobs, NEW m, m \in ToSet(JobsOf(r))
        PROVE  m \in Msgs /\ m[1] = r
    BY <1>3, <1>5, <2>1
  <2>2. ASSUME NEW m \in Msgs PROVE m \in ToSet(JobsOf(m[1]))
    <3>1. PICK r \in DOMAIN Jobs : m \in ToSet(JobsOf(r))
      BY <1>4
    <3>2. m[1] = r
      BY <2>1, <3>1
    <3> QED BY <3>1, <3>2
  <2> QED BY <2>1, <2>2
<1> QED BY <1>1, <1>2, <1>6, <1>7

\* There are finitely many jobs.
LEMMA JobsFinite == IsFiniteSet(Msgs)
<1>1. /\ DOMAIN Jobs = 1 .. Len(Jobs) /\ Len(Jobs) \in Nat
      /\ \A r \in DOMAIN Jobs : JobsOf(r) \in Seq(Msgs) /\ Jobs[r] \in Nat
                                /\ Len(JobsOf(r)) = Jobs[r]
  BY JobsApart
<1>2. \A r \in DOMAIN Jobs : IsFiniteSet(ToSet(JobsOf(r)))
  <2> SUFFICES ASSUME NEW r \in DOMAIN Jobs PROVE IsFiniteSet(ToSet(JobsOf(r)))
    OBVIOUS
  <2>1. IsFiniteSet(1 .. Jobs[r]) /\ DOMAIN JobsOf(r) = 1 .. Jobs[r]
    BY <1>1, FS_Interval
  <2>2. JobsOf(r) \in Surjection(1 .. Jobs[r], ToSet(JobsOf(r)))
    BY <1>1, <2>1 DEF Surjection, ToSet
  <2> QED BY <2>1, <2>2, FS_Surjection
<1> DEFINE parts == {ToSet(JobsOf(r)) : r \in DOMAIN Jobs}
           part == [r \in DOMAIN Jobs |-> ToSet(JobsOf(r))]
<1>3. IsFiniteSet(DOMAIN Jobs)
  BY <1>1, FS_Interval
<1>4. part \in Surjection(DOMAIN Jobs, parts)
  BY DEF Surjection
<1>5. IsFiniteSet(parts)
  BY <1>3, <1>4, FS_Surjection
<1>6. \A T \in parts : IsFiniteSet(T)
  BY <1>2
<1> HIDE DEF parts
<1>7. IsFiniteSet(UNION parts)
  BY <1>5, <1>6, FS_UNION
<1> QED BY <1>7 DEF Msgs, parts

-----------------------------------------------------------------------------
(* The inductive invariant.                                                 *)

\* The variables other than the farm keep their types.
Sorts ==
  /\ round \in DOMAIN Jobs /\ box \in Nat /\ census \subseteq Workers
  /\ replies \subseteq Replies /\ used \in [Msgs -> Nat]
  /\ losses \in 0 .. LossLimit /\ slow \in 0 .. SlowLimit /\ changes \in 0 .. ChangeLimit

\* The farm holds the jobs of its round that are not done, each once, and no
\* other; a job of a later round has had no reply.
Fates ==
  /\ Once(farm)
  /\ \A m : Holds(farm, m) => m \in Msgs /\ m[1] = round
  /\ \A m \in Msgs : m[1] = round => used[m] = IF Holds(farm, m) THEN 0 ELSE 1
  /\ \A m \in Msgs : m[1] > round => used[m] = 0

IInv == Sorts /\ Sound(farm, box, replies) /\ Fates

\* A farm with only jobs that are ready holds these.
LEMMA NewJobs ==
  ASSUME NEW r \in DOMAIN Jobs, NEW f, f \in Farms, NEW b \in Nat, NEW rs \in SUBSET Replies,
         \A m \in Msgs : f.body[m].reply < b,
         \A x \in rs : x.box < b,
         \A p \in f.pending : f.body[p[1]].worker \in Workers
  PROVE  LET g == NewFarm(f, r)
         IN  /\ Sound(g, b, rs) /\ Once(g)
             /\ \A m : Holds(g, m) <=> m \in Msgs /\ m[1] = r
<1> DEFINE g == [f EXCEPT !.ready = JobsOf(r), !.workers = <<>>, !.assigned = <<>>, !.key = 0]
<1>1. NewFarm(f, r) = g
  BY DEF NewFarm
<1>2. /\ Jobs[r] \in Nat /\ JobsOf(r) \in Seq(Msgs) /\ Len(JobsOf(r)) = Jobs[r]
      /\ \A j \in 1 .. Jobs[r] : JobsOf(r)[j] = <<r, j>>
  BY JobsApart
<1>3. <<>> \in Seq(Workers) /\ Len(<<>>) = 0 /\ DOMAIN <<>> = {}
  OBVIOUS
<1>4. <<>> \in [{} -> Seq(Msgs)]
  BY <1>3
<1>5. <<>> \in UNION {[ws -> Seq(Msgs)] : ws \in SUBSET Workers}
  BY <1>4
<1>6. /\ g.ready = JobsOf(r) /\ g.workers = <<>> /\ g.assigned = <<>> /\ g.key = 0
      /\ g.body = f.body /\ g.pending = f.pending
  BY DEF Farms
<1>7. g \in Farms
  BY <1>2, <1>3, <1>5 DEF Farms
<1> HIDE DEF g
<1>8. f.body \in [Msgs -> Body] /\ \A m \in Msgs : f.body[m].reply \in Nat
  BY DEF Farms, Body
<1>9. \A m \in Msgs : f.body[m].reply <= b /\ f.body[m].reply # b
  BY <1>8
<1>10. \A x \in rs : x.box <= b /\ x.box # b
  BY DEF Replies
<1>11. Sound(g, b, rs)
  <2>1. Limited(g) /\ Listed(g)
    BY <1>3, <1>6 DEF Limited, Listed
  <2>2. Labelled(g, b, rs)
    BY <1>3, <1>6, <1>9, <1>10 DEF Labelled
  <2> QED BY <1>7, <2>1, <2>2 DEF Sound
<1>12. \A x \in Slots(g) : \E j \in 1 .. Jobs[r] : x = <<-1, j>> /\ JobAt(g, x) = <<r, j>>
  <2> SUFFICES ASSUME NEW x \in Slots(g)
               PROVE  \E j \in 1 .. Jobs[r] : x = <<-1, j>> /\ JobAt(g, x) = <<r, j>>
    OBVIOUS
  <2>1. \/ \E j \in 1 .. Len(g.ready) : x = <<-1, j>>
        \/ \E w \in DOMAIN g.assigned : \E j \in 1 .. Len(g.assigned[w]) : x = <<w, j>>
    BY <1>7, SlotKinds
  <2>2. PICK j \in 1 .. Jobs[r] : x = <<-1, j>>
    BY <1>2, <1>3, <1>6, <2>1
  <2>3. JobAt(g, <<-1, j>>) = g.ready[j]
    BY <1>7, SlotKinds
  <2> QED BY <1>2, <1>6, <2>2, <2>3
<1>13. \A j \in 1 .. Jobs[r] : <<-1, j>> \in Slots(g) /\ JobAt(g, <<-1, j>>) = <<r, j>>
  <2> SUFFICES ASSUME NEW j \in 1 .. Jobs[r]
               PROVE  <<-1, j>> \in Slots(g) /\ JobAt(g, <<-1, j>>) = <<r, j>>
    OBVIOUS
  <2>1. j \in Int /\ j \in 1 .. Len(g.ready)
    BY <1>2, <1>6
  <2>2. <<-1, j>> \in Slots(g) /\ JobAt(g, <<-1, j>>) = g.ready[j]
    BY <1>7, <2>1, SlotKinds
  <2> QED BY <1>2, <1>6, <2>2
<1>14. Once(g)
  BY <1>12 DEF Once
<1>15. \A m : m \in Msgs /\ m[1] = r <=> \E j \in 1 .. Jobs[r] : m = <<r, j>>
  <2>1. \A m : m \in ToSet(JobsOf(r)) <=> m \in Msgs /\ m[1] = r
    BY JobsApart, Zenon
  <2>2. DOMAIN JobsOf(r) = 1 .. Jobs[r]
    BY <1>2
  <2>3. \A m : m \in ToSet(JobsOf(r)) <=> \E j \in 1 .. Jobs[r] : m = <<r, j>>
    BY <1>2, <2>2 DEF ToSet
  <2> QED BY <2>1, <2>3, Zenon
<1>16. \A m : Holds(g, m) <=> m \in Msgs /\ m[1] = r
  <2>1. \A m : Holds(g, m) => \E j \in 1 .. Jobs[r] : m = <<r, j>>
    BY <1>12 DEF Holds
  <2>2. \A m : (\E j \in 1 .. Jobs[r] : m = <<r, j>>) => Holds(g, m)
    BY <1>13 DEF Holds
  <2> QED BY <1>15, <2>1, <2>2, Zenon
<1> QED BY <1>1, <1>11, <1>14, <1>16

\* At first the jobs of the first farm are ready.
LEMMA InitInv == Init => IInv
<1> SUFFICES ASSUME Init PROVE IInv
  OBVIOUS
<1> DEFINE f == [ready |-> <<>>, workers |-> <<>>, assigned |-> <<>>, key |-> 0,
                 body |-> [m \in Msgs |-> NoBody], pending |-> {}]
<1>1. 1 \in DOMAIN Jobs
  BY JobsApart
<1>2. f \in Farms
  <2>1. <<>> \in Seq(Msgs) /\ <<>> \in Seq(Workers)
    OBVIOUS
  <2>2. <<>> \in [{} -> Seq(Msgs)]
    OBVIOUS
  <2>3. NoBody \in Body
    BY DEF NoBody, Body
  <2>4. [m \in Msgs |-> NoBody] \in [Msgs -> Body]
    BY <2>3
  <2>5. <<>> \in UNION {[ws -> Seq(Msgs)] : ws \in SUBSET Workers}
    BY <2>2
  <2> QED BY <2>1, <2>4, <2>5 DEF Farms
<1>3. \A m \in Msgs : f.body[m].reply < 1
  BY DEF NoBody
<1>4. f.pending = {}
  OBVIOUS
<1>5. farm = NewFarm(f, 1) /\ round = 1 /\ box = 1 /\ replies = {}
  BY DEF Init
<1> HIDE DEF f
<1>6. /\ Sound(NewFarm(f, 1), 1, {}) /\ Once(NewFarm(f, 1))
      /\ \A m : Holds(NewFarm(f, 1), m) <=> m \in Msgs /\ m[1] = 1
  <2>1. {} \in SUBSET Replies /\ 1 \in Nat
    OBVIOUS
  <2>2. (\A x \in {} : x.box < 1) /\ \A p \in f.pending : f.body[p[1]].worker \in Workers
    BY <1>4
  <2> QED BY <1>1, <1>2, <1>3, <2>1, <2>2, NewJobs, Zenon
<1>7. Sorts
  BY <1>1, <1>5, FarmAssumption DEF Init, Sorts
<1>8. used = [m \in Msgs |-> 0]
  BY DEF Init
<1>9. Fates
  BY <1>5, <1>6, <1>8 DEF Fates
<1> QED BY <1>5, <1>6, <1>7, <1>9 DEF IInv

\* What happens to references and replies leaves the jobs where they are.
LEMMA SameJobs ==
  ASSUME NEW f, NEW g, g.ready = f.ready, g.assigned = f.assigned
  PROVE  /\ \A m : Holds(f, m) <=> Holds(g, m)
         /\ Once(f) <=> Once(g)
<1>1. Slots(f) = Slots(g) /\ \A x : JobAt(f, x) = JobAt(g, x)
  BY DEF Slots, JobAt
<1> QED BY <1>1 DEF Holds, Once

\* Fewer references in the queue and fewer replies on their way do no harm.
LEMMA FewerSound ==
  ASSUME NEW f, NEW b, NEW rs, Sound(f, b, rs), NEW qs \in SUBSET f.pending, NEW ts \in SUBSET rs
  PROVE  LET g == [f EXCEPT !.pending = qs] IN Sound(g, b, ts)
<1> DEFINE g == [f EXCEPT !.pending = qs]
<1>1. f \in Farms /\ Limited(f) /\ Listed(f) /\ Labelled(f, b, rs)
  BY DEF Sound
<1>2. /\ g.ready = f.ready /\ g.workers = f.workers /\ g.assigned = f.assigned
      /\ g.key = f.key /\ g.body = f.body /\ g.pending = qs /\ g \in Farms
  BY <1>1 DEF Farms
<1> HIDE DEF g
<1>3. Limited(g) /\ Listed(g)
  BY <1>1, <1>2 DEF Limited, Listed
<1>4. Labelled(g, b, ts)
  BY <1>1, <1>2 DEF Labelled
<1> QED BY <1>2, <1>3, <1>4 DEF Sound, g

\* What has a ticket is a job that the farm holds.
LEMMA TicketsHeld ==
  ASSUME NEW f \in Farms
  PROVE  \A m \in UNION {ToSet(f.assigned[w]) : w \in DOMAIN f.assigned} :
           m \in Msgs /\ Holds(f, m)
<1>1. \A w \in DOMAIN f.assigned : f.assigned[w] \in Seq(Msgs) /\ w \in Workers
  BY DEF Farms
<1>2. \A w \in DOMAIN f.assigned : \A i \in 1 .. Len(f.assigned[w]) :
        /\ f.assigned[w][i] \in Msgs
        /\ <<w, i>> \in Slots(f) /\ JobAt(f, <<w, i>>) = f.assigned[w][i]
  <2> SUFFICES ASSUME NEW w \in DOMAIN f.assigned, NEW i \in 1 .. Len(f.assigned[w])
               PROVE  /\ f.assigned[w][i] \in Msgs
                      /\ <<w, i>> \in Slots(f) /\ JobAt(f, <<w, i>>) = f.assigned[w][i]
    OBVIOUS
  <2>1. i \in Int /\ w \in Workers /\ f.assigned[w][i] \in Msgs
    BY <1>1
  <2> QED BY <2>1, SlotKinds
<1>3. \A m \in UNION {ToSet(f.assigned[w]) : w \in DOMAIN f.assigned} :
        \E w \in DOMAIN f.assigned : \E i \in 1 .. Len(f.assigned[w]) : f.assigned[w][i] = m
  BY <1>1 DEF ToSet
<1> QED BY <1>2, <1>3 DEF Holds

\* Refreshing rearranges the jobs.
LEMMA RefreshInv ==
  ASSUME IInv, NEW old \in SUBSET Assigned, Refresh(old)
  PROVE  IInv'
<1> DEFINE d == Departed(Restarted(farm, old), census)
           g == Joined(d, Joiners(d, census), box)
           h == Dispatched(g, Chosen(g), box)
           early == {m \in old : ~Dead(m)}
<1>1. /\ Sorts /\ Sound(farm, box, replies) /\ Fates
      /\ box \in Nat /\ census \in SUBSET Workers /\ replies \in SUBSET Replies
  BY DEF IInv, Sorts
<1>2. farm' = h
  BY DEF Refresh
<1>3. /\ UNCHANGED <<round, box, census, replies, used, losses, changes>>
      /\ slow + Cardinality(early) <= SlowLimit /\ slow' = slow + Cardinality(early)
  BY DEF Refresh
<1>4. Sound(h, box, replies) /\ Rearranged(farm, h)
  BY <1>1, RefreshedSound, Zenon
<1> HIDE DEF h
<1>5. Fates'
  BY <1>1, <1>2, <1>3, <1>4 DEF Fates, Rearranged
<1>6. Cardinality(early) \in Nat
  <2>1. early \subseteq Msgs
    BY <1>1, TicketsHeld DEF Sound, Assigned
  <2> QED BY <2>1, JobsFinite, FS_Subset, FS_CardinalityType
<1> HIDE DEF early
<1>7. Sorts'
  BY <1>1, <1>3, <1>6, FarmAssumption, SMTT(60) DEF Sorts
<1> QED BY <1>2, <1>3, <1>4, <1>5, <1>7 DEF IInv

\* A reply that is used retires its job.
LEMMA TakeReplyInv ==
  ASSUME IInv, NEW r, TakeReply(r)
  PROVE  /\ IInv'
         /\ \A m \in Msgs : used'[m] # used[m] =>
              m[1] = round /\ m \in Assigned /\ ~Holds(farm', m)
<1>1. /\ Sorts /\ Sound(farm, box, replies) /\ Fates
      /\ box \in Nat /\ census \in SUBSET Workers /\ replies \in SUBSET Replies
  BY DEF IInv, Sorts
<1>2. /\ r \in replies /\ r.box = box /\ replies' = replies \ {r}
      /\ UNCHANGED <<round, box, census, losses, slow, changes>>
  BY DEF TakeReply
<1>3. replies' \in SUBSET replies
  BY <1>2
<1>4. ASSUME NEW f, Sound(f, box, replies)
      PROVE  Sound(f, box, replies')
  <2> DEFINE g == [f EXCEPT !.pending = f.pending]
  <2>1. f.pending \in SUBSET f.pending
    OBVIOUS
  <2>2. Sound(g, box, replies')
    BY <1>3, <1>4, <2>1, FewerSound, Zenon
  <2>3. g = f
    BY <1>4 DEF Sound, Farms
  <2> QED BY <2>2, <2>3
<1>5. CASE Matching(farm, r) = {}
  <2>1. UNCHANGED <<farm, used>>
    BY <1>5 DEF TakeReply
  <2>2. Sound(farm, box, replies)'
    BY <1>1, <1>2, <1>4, <2>1
  <2>3. Fates'
    BY <1>1, <1>2, <2>1 DEF Fates
  <2>4. Sorts'
    BY <1>1, <1>2, <2>1 DEF Sorts
  <2> QED BY <2>1, <2>2, <2>3, <2>4 DEF IInv
<1>6. CASE Matching(farm, r) # {}
  <2> DEFINE g == Completed(farm, r)
  <2>1. farm' = g /\ used' = [used EXCEPT ![r.msg] = @ + 1]
    BY <1>6 DEF TakeReply
  <2>2. /\ Sound(g, box, replies) /\ Once(g)
        /\ \A m : Holds(g, m) <=> Holds(farm, m) /\ m # r.msg
        /\ r.worker \in DOMAIN farm.assigned
        /\ \E i \in 1 .. Len(farm.assigned[r.worker]) : farm.assigned[r.worker][i] = r.msg
    <3>1. /\ replies \in SUBSET Replies /\ box \in Nat /\ Sound(farm, box, replies)
          /\ Once(farm) /\ r \in replies /\ r.box = box
      BY <1>1, <1>2 DEF Fates
    <3>2. Matching(farm, r) # {}
      BY <1>6
    <3> QED BY <3>1, <3>2, CompletedSound
  <2> HIDE DEF g
  <2>3. r.msg \in Assigned /\ r.msg \in Msgs /\ Holds(farm, r.msg) /\ r.msg[1] = round
    <3>1. farm \in Farms /\ \A w \in DOMAIN farm.assigned : farm.assigned[w] \in Seq(Msgs)
      BY <1>1 DEF Sound, Farms
    <3>2. r.msg \in Assigned
      BY <2>2, <3>1 DEF Assigned, ToSet
    <3>3. r.msg \in Msgs /\ Holds(farm, r.msg)
      BY <3>1, <3>2, TicketsHeld DEF Assigned
    <3> QED BY <1>1, <3>2, <3>3 DEF Fates
  <2>4. /\ used \in [Msgs -> Nat] /\ used'[r.msg] = used[r.msg] + 1
        /\ \A m \in Msgs : m # r.msg => used'[m] = used[m]
        /\ used' \in [Msgs -> Nat]
    BY <1>1, <2>1, <2>3 DEF Sorts
  <2>5. used[r.msg] = 0
    BY <1>1, <2>3 DEF Fates
  <2>6. Sound(farm, box, replies)'
    BY <1>2, <1>4, <2>1, <2>2
  <2>7. Fates'
    <3>1. Once(farm') /\ \A m : Holds(farm', m) => m \in Msgs /\ m[1] = round'
      BY <1>1, <1>2, <2>1, <2>2 DEF Fates
    <3>2. \A m \in Msgs : m[1] = round' => used'[m] = IF Holds(farm', m) THEN 0 ELSE 1
      <4> SUFFICES ASSUME NEW m \in Msgs, m[1] = round
                   PROVE  used'[m] = IF Holds(farm', m) THEN 0 ELSE 1
        BY <1>2
      <4>1. CASE m = r.msg
        BY <2>1, <2>2, <2>4, <2>5, <4>1
      <4>2. CASE m # r.msg
        <5>1. used[m] = IF Holds(farm, m) THEN 0 ELSE 1
          BY <1>1 DEF Fates
        <5> QED BY <2>1, <2>2, <2>4, <4>2, <5>1
      <4> QED BY <4>1, <4>2
    <3>3. \A m \in Msgs : m[1] > round' => used'[m] = 0
      <4>1. round \in Nat
        BY <1>1, JobsApart DEF Sorts
      <4> QED BY <1>1, <1>2, <2>3, <2>4, <4>1 DEF Fates
    <3> QED BY <3>1, <3>2, <3>3 DEF Fates
  <2>8. Sorts'
    BY <1>1, <1>2, <2>4 DEF Sorts
  <2>9. \A m \in Msgs : used'[m] # used[m] =>
          m[1] = round /\ m \in Assigned /\ ~Holds(farm', m)
    BY <2>1, <2>2, <2>3, <2>4
  <2> QED BY <2>6, <2>7, <2>8, <2>9 DEF IInv
<1> QED BY <1>5, <1>6

\* The jobs of a new farm are ready; earlier replies are for other mailboxes.
LEMMA ResetInv ==
  ASSUME IInv, Reset
  PROVE  IInv'
<1>1. /\ Sorts /\ Sound(farm, box, replies) /\ Fates
      /\ box \in Nat /\ box + 1 \in Nat /\ replies \in SUBSET Replies
      /\ round \in DOMAIN Jobs
  BY DEF IInv, Sorts
<1>2. /\ round < Len(Jobs) /\ round' = round + 1 /\ box' = box + 1
      /\ farm' = NewFarm(farm, round + 1)
      /\ UNCHANGED <<census, replies, used, losses, slow, changes>>
  BY DEF Reset, NewBox
<1>3. round + 1 \in DOMAIN Jobs /\ round \in Nat
  BY <1>1, <1>2, JobsApart
<1>4. farm \in Farms /\ Labelled(farm, box, replies)
  BY <1>1 DEF Sound
<1>5. \A m \in Msgs : farm.body[m].reply < box + 1
  <2>1. \A m \in Msgs : farm.body[m].reply \in Nat /\ farm.body[m].reply <= box
    BY <1>4 DEF Labelled, Farms, Body
  <2> QED BY <1>1, <2>1
<1>6. \A x \in replies : x.box < box + 1
  <2>1. \A x \in replies : x.box \in Nat /\ x.box <= box
    BY <1>1, <1>4 DEF Labelled, Replies
  <2> QED BY <1>1, <2>1
<1>7. \A p \in farm.pending : farm.body[p[1]].worker \in Workers
  BY <1>4 DEF Labelled
<1>8. /\ Sound(NewFarm(farm, round + 1), box + 1, replies) /\ Once(NewFarm(farm, round + 1))
      /\ \A m : Holds(NewFarm(farm, round + 1), m) <=> m \in Msgs /\ m[1] = round + 1
  BY <1>1, <1>3, <1>4, <1>5, <1>6, <1>7, NewJobs, Zenon
<1>9. Sorts'
  BY <1>1, <1>2, <1>3 DEF Sorts
<1>10. Fates'
  <2>1. \A m \in Msgs : m[1] \in Nat
    <3> SUFFICES ASSUME NEW m \in Msgs PROVE m[1] \in Nat
      OBVIOUS
    <3>1. PICK r \in DOMAIN Jobs : m \in ToSet(JobsOf(r))
      BY DEF Msgs
    <3>2. m[1] = r
      BY <3>1, JobsApart
    <3> QED BY <3>2, JobsApart
  <2>2. \A m \in Msgs : m[1] > round => used[m] = 0
    BY <1>1 DEF Fates
  <2>3. \A m \in Msgs : m[1] = round + 1 => used[m] = 0 /\ Holds(farm', m)
    BY <1>2, <1>3, <1>8, <2>1, <2>2
  <2>4. \A m \in Msgs : m[1] > round + 1 => used[m] = 0
    BY <1>3, <2>1, <2>2
  <2>5. Once(farm') /\ \A m : Holds(farm', m) => m \in Msgs /\ m[1] = round'
    BY <1>2, <1>8
  <2> QED BY <1>2, <2>3, <2>4, <2>5 DEF Fates
<1> QED BY <1>2, <1>8, <1>9, <1>10 DEF IInv

\* The answer of a worker bears the marks that the job has.
LEMMA WorkInv ==
  ASSUME IInv, NEW p, Work(p)
  PROVE  IInv'
<1> DEFINE b == farm.body[p[1]]
           r == [msg |-> p[1], sent |-> p[2], worker |-> b.worker, key |-> b.key,
                 box |-> b.reply]
           g == [farm EXCEPT !.pending = farm.pending \ {p}]
           rs == replies \cup {r}
<1>1. /\ Sorts /\ Sound(farm, box, replies) /\ Fates
      /\ box \in Nat /\ replies \in SUBSET Replies
  BY DEF IInv, Sorts
<1>2. /\ p \in farm.pending /\ farm' = g /\ replies' = rs
      /\ UNCHANGED <<round, box, census, used, losses, slow, changes>>
  BY DEF Work
<1>3. /\ farm \in Farms /\ Limited(farm) /\ Listed(farm) /\ Labelled(farm, box, replies)
      /\ farm.pending \subseteq Msgs \X Nat /\ farm.body \in [Msgs -> Body]
  BY <1>1 DEF Sound, Farms
<1>4. p[1] \in Msgs /\ p[2] \in Nat /\ b \in Body /\ b.worker \in Workers
  BY <1>2, <1>3 DEF Labelled
<1> HIDE DEF b
<1>5. r \in Replies
  BY <1>4 DEF Replies, Body
<1>6. /\ r.msg = p[1] /\ r.key = b.key /\ r.box = b.reply
  OBVIOUS
<1> HIDE DEF r
<1>7. Sound(g, box, replies)
  <2>1. farm.pending \ {p} \in SUBSET farm.pending /\ replies \in SUBSET replies
    OBVIOUS
  <2> QED BY <1>1, <2>1, FewerSound, Zenon
<1>8. g.ready = farm.ready /\ g.assigned = farm.assigned /\ g.body = farm.body /\ g.key = farm.key
  BY <1>3 DEF Farms
<1> HIDE DEF g
<1>9. /\ b.reply <= box /\ (b.reply = box => b.key < g.key)
      /\ \A m \in Msgs :
           b.reply = box /\ g.body[m].reply = box /\ g.body[m].key = b.key => m = p[1]
  BY <1>3, <1>4, <1>8 DEF Labelled, b
<1>10. Labelled(g, box, rs)
  <2>1. \A x \in rs : x.box <= box /\ (x.box = box => x.key < g.key)
    BY <1>6, <1>7, <1>9 DEF Sound, Labelled
  <2>2. \A x \in rs, m \in Msgs :
          x.box = box /\ g.body[m].reply = box /\ g.body[m].key = x.key => m = x.msg
    BY <1>6, <1>7, <1>9 DEF Sound, Labelled
  <2> HIDE DEF rs
  <2> QED BY <1>7, <2>1, <2>2 DEF Sound, Labelled
<1>11. Sound(farm, box, replies)'
  BY <1>2, <1>7, <1>10 DEF Sound
<1>12. Fates'
  <2>1. (\A m : Holds(farm, m) <=> Holds(g, m)) /\ (Once(farm) <=> Once(g))
    BY <1>8, SameJobs
  <2> QED BY <1>1, <1>2, <2>1 DEF Fates
<1>13. Sorts'
  BY <1>1, <1>2, <1>5 DEF Sorts
<1> QED BY <1>11, <1>12, <1>13 DEF IInv

\* What is lost on its way has no effect on the farm.
LEMMA LossInv ==
  /\ \A p : IInv /\ LoseJob(p) => IInv'
  /\ \A r : IInv /\ LoseReply(r) => IInv'
<1>1. ASSUME IInv
      PROVE  /\ Sorts /\ Sound(farm, box, replies) /\ Fates /\ farm \in Farms
             /\ LossLimit \in Nat /\ losses \in 0 .. LossLimit
  BY <1>1, FarmAssumption DEF IInv, Sorts, Sound
<1>2. ASSUME IInv, NEW p, LoseJob(p)
      PROVE  IInv'
  <2> DEFINE g == [farm EXCEPT !.pending = farm.pending \ {p}]
  <2>1. /\ farm' = g /\ losses' \in 0 .. LossLimit
        /\ UNCHANGED <<round, box, census, replies, used, slow, changes>>
    BY <1>1, <1>2 DEF LoseJob
  <2>2. Sound(g, box, replies)
    <3>1. farm.pending \ {p} \in SUBSET farm.pending /\ replies \in SUBSET replies
      OBVIOUS
    <3> QED BY <1>1, <1>2, <3>1, FewerSound, Zenon
  <2>3. g.ready = farm.ready /\ g.assigned = farm.assigned
    BY <1>1, <1>2 DEF Farms
  <2> HIDE DEF g
  <2>4. (\A m : Holds(farm, m) <=> Holds(g, m)) /\ (Once(farm) <=> Once(g))
    BY <2>3, SameJobs
  <2>5. Fates'
    BY <1>1, <1>2, <2>1, <2>4 DEF Fates
  <2>6. Sorts'
    BY <1>1, <1>2, <2>1 DEF Sorts
  <2> QED BY <2>1, <2>2, <2>5, <2>6 DEF IInv
<1>3. ASSUME IInv, NEW r, LoseReply(r)
      PROVE  IInv'
  <2> DEFINE g == [farm EXCEPT !.pending = farm.pending]
  <2>1. /\ replies' = replies \ {r} /\ losses' \in 0 .. LossLimit
        /\ UNCHANGED <<farm, round, box, census, used, slow, changes>>
    BY <1>1, <1>3 DEF LoseReply
  <2>2. Sound(g, box, replies \ {r})
    <3>1. farm.pending \in SUBSET farm.pending /\ replies \ {r} \in SUBSET replies
      OBVIOUS
    <3> QED BY <1>1, <1>3, <3>1, FewerSound, Zenon
  <2>3. g = farm
    BY <1>1, <1>3 DEF Farms
  <2>4. Fates'
    BY <1>1, <1>3, <2>1 DEF Fates
  <2>5. Sorts'
    BY <1>1, <1>3, <2>1 DEF Sorts
  <2> QED BY <2>1, <2>2, <2>3, <2>4, <2>5 DEF IInv
<1> QED BY <1>2, <1>3

\* The census is read when the farm is refreshed and not before.
LEMMA ChangeInv ==
  ASSUME IInv, NEW w \in Workers, Change(w)
  PROVE  IInv'
<1>1. /\ census' \subseteq Workers /\ changes' \in 0 .. ChangeLimit
      /\ UNCHANGED <<farm, round, box, replies, used, losses, slow>>
  BY FarmAssumption DEF IInv, Sorts, Change
<1>2. Sorts'
  BY <1>1 DEF IInv, Sorts
<1>3. Fates'
  BY <1>1 DEF IInv, Fates
<1> QED BY <1>1, <1>2, <1>3 DEF IInv

\* So every step preserves the invariant.
LEMMA StepInv ==
  ASSUME IInv, [Next]_vars
  PROVE  IInv'
<1>1. ASSUME NEW p, Work(p) \/ LoseJob(p) PROVE IInv'
  BY <1>1, WorkInv, LossInv
<1>2. ASSUME NEW r, TakeReply(r) \/ LoseReply(r) PROVE IInv'
  BY <1>2, TakeReplyInv, LossInv
<1>3. ASSUME NEW old \in SUBSET Assigned, Refresh(old) PROVE IInv'
  BY <1>3, RefreshInv
<1>4. ASSUME Reset PROVE IInv'
  BY <1>4, ResetInv
<1>5. ASSUME NEW w \in Workers, Change(w) PROVE IInv'
  BY <1>5, ChangeInv
<1>6. ASSUME UNCHANGED vars PROVE IInv'
  BY <1>6 DEF vars, IInv, Sorts, Fates
<1> QED BY <1>1, <1>2, <1>3, <1>4, <1>5, <1>6 DEF Next, Working, Replying, Refreshing

-----------------------------------------------------------------------------
(* The theorems.                                                            *)

\* The invariant holds in every state of every behaviour.
THEOREM FarmInductive == Spec => []IInv
<1>1. IInv /\ [Next]_vars => IInv'
  BY StepInv
<1> QED BY InitInv, <1>1, PTL DEF Spec

\* Every variable keeps its type, and no worker has more tickets than
\* m_job_limit: assign_work, add_worker and complete_job together stay below it.
THEOREM FarmTypeCorrect == Spec => []TypeOK
<1>1. IInv => TypeOK
  <2> SUFFICES ASSUME IInv PROVE TypeOK
    OBVIOUS
  <2>1. Sorts /\ farm \in Farms /\ Limited(farm)
    BY DEF IInv, Sound
  <2>2. /\ farm.ready \in Seq(Msgs) /\ farm.workers \in Seq(Workers)
        /\ DOMAIN farm.assigned \subseteq Workers
        /\ \A w \in DOMAIN farm.assigned : farm.assigned[w] \in Seq(Msgs)
        /\ farm.key \in Nat
        /\ farm.body \in [Msgs -> Body] /\ farm.pending \subseteq Msgs \X Nat
    BY <2>1 DEF Farms
  <2> QED BY <2>1, <2>2 DEF TypeOK, Sorts, Limited, Replies
<1> QED BY FarmInductive, <1>1, PTL

\* A job of the present farm is ready, has a ticket or is done, only one of
\* these and once: whatever is lost, late, doubled or left behind, refresh and
\* complete_job forget no job, and no reply is used a second time.
THEOREM JobsHaveOneFate == Spec => []OneFate
<1>1. IInv => OneFate
  <2> SUFFICES ASSUME IInv, NEW m \in ToSet(JobsOf(round))
               PROVE  LET inReady == {i \in 1 .. Len(farm.ready) : farm.ready[i] = m}
                          inTickets == {x \in Workers \X (1 .. JobLimit) :
                                          x[1] \in DOMAIN farm.assigned
                                            /\ x[2] \in 1 .. Len(farm.assigned[x[1]])
                                            /\ farm.assigned[x[1]][x[2]] = m}
                      IN  Cardinality(inReady) + Cardinality(inTickets) + used[m] = 1
    BY DEF OneFate
  <2> DEFINE inReady == {i \in 1 .. Len(farm.ready) : farm.ready[i] = m}
             inTickets == {x \in Workers \X (1 .. JobLimit) :
                             x[1] \in DOMAIN farm.assigned
                               /\ x[2] \in 1 .. Len(farm.assigned[x[1]])
                               /\ farm.assigned[x[1]][x[2]] = m}
  <2> SUFFICES Cardinality(inReady) + Cardinality(inTickets) + used[m] = 1
    OBVIOUS
  <2>1. Sorts /\ farm \in Farms /\ Limited(farm) /\ Fates
    BY DEF IInv, Sound
  <2>2. m \in Msgs /\ m[1] = round
    BY <2>1, JobsApart DEF Sorts
  <2>3. used[m] = IF Holds(farm, m) THEN 0 ELSE 1
    BY <2>1, <2>2 DEF Fates
  <2>4. \A i \in inReady : <<-1, i>> \in Slots(farm) /\ JobAt(farm, <<-1, i>>) = m
    <3> SUFFICES ASSUME NEW i \in inReady
                 PROVE  <<-1, i>> \in Slots(farm) /\ JobAt(farm, <<-1, i>>) = m
      OBVIOUS
    <3>1. i \in Int /\ i \in 1 .. Len(farm.ready) /\ farm.ready[i] = m
      OBVIOUS
    <3> QED BY <2>1, <3>1, SlotKinds
  <2>5. \A x \in inTickets : x \in Slots(farm) /\ JobAt(farm, x) = m /\ x[1] # -1
    <3> SUFFICES ASSUME NEW x \in inTickets
                 PROVE  x \in Slots(farm) /\ JobAt(farm, x) = m /\ x[1] # -1
      OBVIOUS
    <3>1. /\ x = <<x[1], x[2]>> /\ x[1] \in Workers /\ x[2] \in Int
          /\ x[1] \in DOMAIN farm.assigned /\ x[2] \in 1 .. Len(farm.assigned[x[1]])
          /\ farm.assigned[x[1]][x[2]] = m
      BY FarmAssumption
    <3>2. <<x[1], x[2]>> \in Slots(farm) /\ JobAt(farm, <<x[1], x[2]>>) = m
      BY <2>1, <3>1, SlotKinds
    <3> QED BY <3>1, <3>2, FarmAssumption, SMTT(60)
  <2>6. \A x \in Slots(farm) : JobAt(farm, x) = m =>
          (\E i \in inReady : x = <<-1, i>>) \/ x \in inTickets
    <3> SUFFICES ASSUME NEW x \in Slots(farm), JobAt(farm, x) = m
                 PROVE  (\E i \in inReady : x = <<-1, i>>) \/ x \in inTickets
      OBVIOUS
    <3>1. CASE \E i \in 1 .. Len(farm.ready) : x = <<-1, i>>
      <4>1. PICK i \in 1 .. Len(farm.ready) : x = <<-1, i>>
        BY <3>1
      <4>2. farm.ready[i] = m
        BY <2>1, <4>1, SlotKinds
      <4> QED BY <4>1, <4>2
    <3>2. CASE \E w \in DOMAIN farm.assigned : \E i \in 1 .. Len(farm.assigned[w]) : x = <<w, i>>
      <4>1. PICK w \in DOMAIN farm.assigned : \E i \in 1 .. Len(farm.assigned[w]) : x = <<w, i>>
        BY <3>2
      <4>2. PICK i \in 1 .. Len(farm.assigned[w]) : x = <<w, i>>
        BY <4>1
      <4>3. w \in Workers /\ farm.assigned[w] \in Seq(Msgs) /\ Len(farm.assigned[w]) <= JobLimit
        BY <2>1 DEF Farms, Limited
      <4>4. i \in Int /\ i \in 1 .. JobLimit
        BY <4>3, FarmAssumption
      <4>5. farm.assigned[w][i] = m
        BY <2>1, <4>2, <4>3, <4>4, SlotKinds
      <4> QED BY <4>2, <4>3, <4>4, <4>5
    <3> QED BY <2>1, <3>1, <3>2, SlotKinds
  <2> HIDE DEF inReady, inTickets
  <2>7. \A x, y \in Slots(farm) : JobAt(farm, x) = m /\ JobAt(farm, y) = m => x = y
    BY <2>1 DEF Fates, Once
  <2>8. CASE ~Holds(farm, m)
    <3>1. inReady = {} /\ inTickets = {}
      BY <2>4, <2>5, <2>8 DEF Holds
    <3>2. Cardinality(inReady) = 0 /\ Cardinality(inTickets) = 0
      BY <3>1, FS_EmptySet
    <3> QED BY <2>3, <2>8, <3>2
  <2>9. CASE Holds(farm, m)
    <3>1. PICK x \in Slots(farm) : JobAt(farm, x) = m
      BY <2>9 DEF Holds
    <3>2. CASE \E i \in inReady : x = <<-1, i>>
      <4>1. PICK i \in inReady : x = <<-1, i>>
        BY <3>2
      <4>2. \A j \in inReady : j = i
        BY <2>4, <2>7, <4>1
      <4>3. inReady = {i}
        BY <4>2
      <4>4. inTickets = {}
        BY <2>5, <2>7, <3>1, <4>1
      <4>5. Cardinality(inReady) = 1 /\ Cardinality(inTickets) = 0
        BY <4>3, <4>4, FS_EmptySet, FS_Singleton
      <4> QED BY <2>3, <2>9, <4>5
    <3>3. CASE x \in inTickets
      <4>1. \A y \in inTickets : y = x
        BY <2>5, <2>7, <3>1
      <4>2. inTickets = {x}
        BY <3>3, <4>1
      <4>3. inReady = {}
        <5> SUFFICES ASSUME NEW j \in inReady PROVE FALSE
          OBVIOUS
        <5>1. x = <<-1, j>> /\ x[1] # -1
          BY <2>4, <2>5, <2>7, <3>1, <3>3
        <5> QED BY <5>1
      <4>4. Cardinality(inReady) = 0 /\ Cardinality(inTickets) = 1
        BY <4>2, <4>3, FS_EmptySet, FS_Singleton
      <4> QED BY <2>3, <2>9, <4>4
    <3> QED BY <2>6, <3>1, <3>2, <3>3
  <2> QED BY <2>8, <2>9
<1> QED BY FarmInductive, <1>1, PTL

\* A reply that validate_job accepts is for the present farm and retires the
\* ticket of the very job that it answers: the job has one before and none after.
THEOREM RepliesRetireTheirTicket == Spec => RightTicket
<1> DEFINE A == \A m \in Msgs : used'[m] # used[m] =>
                  m[1] = round /\ m \in Assigned /\ m \notin Assigned'
<1>1. ASSUME IInv, [Next]_vars PROVE [A]_vars
  <2>1. ASSUME NEW r, TakeReply(r) PROVE A
    <3>1. /\ IInv'
          /\ \A m \in Msgs : used'[m] # used[m] =>
               m[1] = round /\ m \in Assigned /\ ~Holds(farm', m)
      BY <1>1, <2>1, TakeReplyInv
    <3>2. farm' \in Farms
      BY <3>1 DEF IInv, Sound
    <3>3. \A m \in Assigned' : Holds(farm', m)
      BY <3>2, TicketsHeld DEF Assigned
    <3> QED BY <3>1, <3>3
  <2>2. ASSUME UNCHANGED used PROVE A
    BY <2>2
  <2>3. ASSUME NEW p, Work(p) \/ LoseJob(p) PROVE UNCHANGED used
    BY <2>3 DEF Work, LoseJob
  <2>4. ASSUME NEW r, LoseReply(r) PROVE UNCHANGED used
    BY <2>4 DEF LoseReply
  <2>5. ASSUME NEW old, Refresh(old) PROVE UNCHANGED used
    BY <2>5 DEF Refresh
  <2>6. ASSUME Reset PROVE UNCHANGED used
    BY <2>6 DEF Reset
  <2>7. ASSUME NEW w, Change(w) PROVE UNCHANGED used
    BY <2>7 DEF Change
  <2> HIDE DEF A
  <2>8. ASSUME Next PROVE A
    BY <2>1, <2>2, <2>3, <2>4, <2>5, <2>6, <2>7, <2>8
       DEF Next, Working, Replying, Refreshing
  <2> QED BY <1>1, <2>8
<1>2. RightTicket <=> [][A]_vars
  BY DEF RightTicket
<1> HIDE DEF A
<1>3. IInv /\ [Next]_vars => [A]_vars
  BY <1>1
<1> QED BY FarmInductive, <1>2, <1>3, PTL DEF Spec

=============================================================================
