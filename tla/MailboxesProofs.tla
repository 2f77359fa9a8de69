--------------------------- MODULE MailboxesProofs ---------------------------
(***************************************************************************)
(* Proofs about the module Mailboxes, for any number of tasks, posters and *)
(* mailboxes, and wherever the numbers come round.                         *)
(***************************************************************************)
EXTENDS Mailboxes, TLAPS, WellFoundedInduction

-----------------------------------------------------------------------------
(* The inductive invariant.  What select promises depends on what it has   *)
(* armed and locked so far, so the pointers and locks of the mailboxes are *)
(* told from the task's place in the code, and the other way round.        *)

\* The places of the task's list whose mailboxes point to its Sync.
Armed(t) ==
  {k \in Slots(t) : \/ pc[t] = "arm" /\ k < pos[t]
                    \/ pc[t] \in {"armed", "wait"}
                    \/ pc[t] = "disarm" /\ k >= pos[t]}

\* The places of the task's list whose mailboxes it has locked.
Held(t) ==
  {k \in Slots(t) : \/ pc[t] \in {"arm", "disarm"} /\ k < pos[t]
                    \/ pc[t] \in {"armed", "find"}}

\* Inside select the task holds all of its mailboxes, and its place is one
\* of its list while it goes from one to the next.
InPlace(t) ==
  /\ pc[t] # "idle" => \A k \in Slots(t) : own[t][k] # NoId
  /\ pc[t] \in {"look", "arm", "disarm"} => pos[t] \in Slots(t)
  /\ pc[t] \in {"armed", "wait"} => pos[t] = 1

\* The pointers to the task's Sync and the locks it holds are those of its
\* place, no more and no fewer.
InStep(t) ==
  \A i \in Ids :
    /\ select[i] = t <=> \E k \in Armed(t) : own[t][k] = i
    /\ boxLock[i] = t <=> \E k \in Held(t) : own[t][k] = i

\* A task that has been woken, or has got past its wait, has mail.
Stirred(t) ==
  /\ awake[t] => pc[t] \in {"arm", "armed", "wait", "disarm", "find"}
  /\ awake[t] \/ pc[t] \in {"disarm", "find"}
       => \E k \in Slots(t) : mail[own[t][k]] # <<>>

\* Mail in an armed mailbox was there before, or has woken the task.
Roused(t) ==
  pc[t] \in {"arm", "armed", "wait"} =>
    \A k \in Armed(t) :
      mail[own[t][k]] # <<>> => awake[t] \/ own[t][k] \in late[t]

\* The mailbox that select has chosen has mail.
Chosen(t) ==
  pc[t] = "read" => pos[t] \in Slots(t) /\ mail[own[t][pos[t]]] # <<>>

TaskInv(t) == InStep(t) /\ Stirred(t) /\ Roused(t) /\ Chosen(t)

\* A mailbox has one place in one list, and the kernel's has none.
Owners ==
  /\ Kernel \in boxes
  /\ \A t \in Tasks : \A k \in Slots(t) :
       own[t][k] # NoId => own[t][k] \in boxes \ {Kernel}
  /\ \A t, u \in Tasks : \A k \in Slots(t), j \in Slots(u) :
       own[t][k] = own[u][j] /\ own[t][k] # NoId => t = u /\ k = j

Typed ==
  /\ TypeOK
  /\ own = [t \in Tasks |-> own[t]]
  /\ \A t \in Tasks : InPlace(t)

IInv ==
  /\ Typed
  /\ Owners
  /\ routerLock # Nobody => target[routerLock] \in boxes
  /\ \A t \in Tasks : TaskInv(t)

-----------------------------------------------------------------------------
(* Numbers.                                                                *)

\* A nonempty set of naturals has a least element.
LEMMA Least ==
  ASSUME NEW T \in SUBSET Nat, T # {}
  PROVE  \E x \in T : \A y \in T : x <= y
<1> DEFINE Less == {ss \in Nat \X Nat : ss[1] < ss[2]}
<1>1. OpToRel(<, Nat) = Less
  BY Zenon DEF OpToRel
<1>2. \E x \in T : \A y \in T : <<y, x>> \notin Less
  <2> HIDE DEF Less
  <2> QED
    BY <1>1, NatLessThanWellFounded, WFMin, Zenon
<1>3. \A x, y \in T : <<y, x>> \notin Less => x <= y
  OBVIOUS
<1> QED
  BY <1>2, <1>3

\* Numbers come round within the width of a Mailbox_ID.
LEMMA Round ==
  ASSUME NEW i \in Int
  PROVE  i % (MaxId + 1) \in Ids
BY MailboxesAssumption DEF Ids

\* Router::alloc gives out a number that is free and is not the one that
\* means none.
LEMMA FreshIsFree ==
  ASSUME nextId \in Ids, Ids \ Taken # {}
  PROVE  FreshId \in (Ids \ {MaxId}) \ boxes
<1> DEFINE Unused == Ids \ Taken
           away(i) == (i - nextId) % (MaxId + 1)
           Aways == {away(i) : i \in Unused}
<1>1. \A i \in Unused : away(i) \in Nat
  BY Round DEF Ids
<1>2. PICK i \in Unused : \A j \in Unused : away(i) <= away(j)
  <2>1. Aways \in SUBSET Nat /\ Aways # {}
    BY <1>1
  <2>2. PICK x \in Aways : \A y \in Aways : x <= y
    BY <2>1, Least
  <2> QED
    BY <2>2
<1>3. FreshId \in Unused
  BY <1>2 DEF FreshId
<1> QED
  BY <1>3 DEF Taken

\* Of any places of a task's list one comes first.
LEMMA FirstPlace ==
  ASSUME NEW t \in Tasks, NEW S \in SUBSET Slots(t), S # {}
  PROVE  (CHOOSE k \in S : \A j \in S : k <= j) \in S
<1>1. S \in SUBSET Nat
  BY MailboxesAssumption DEF Slots
<1>2. \E k \in S : \A j \in S : k <= j
  BY <1>1, Least
<1> QED
  BY <1>2

-----------------------------------------------------------------------------
(* Types.                                                                  *)

\* While the task looks at its list it has one of its mailboxes in hand.
LEMMA HereIsId ==
  ASSUME Typed, NEW t \in Tasks, pc[t] # "idle", pos[t] \in Slots(t)
  PROVE  Here(t) \in Ids \ {MaxId}
BY DEF Typed, TypeOK, InPlace, Here

\* Every task has a first mailbox.
LEMMA FirstSlot == \A t \in Tasks : 1 \in Slots(t)
BY MailboxesAssumption DEF Slots

Phases == {"idle", "look", "arm", "armed", "wait", "disarm", "find", "read"}

\* What the end of one step on a list of mailboxes leaves.
Moved(t, phase) ==
  \/ /\ pos[t] < Size[t] /\ pc' = pc
     /\ pos' = [pos EXCEPT ![t] = pos[t] + 1] /\ pos[t] + 1 \in Slots(t)
  \/ /\ pos[t] = Size[t] /\ pc' = [pc EXCEPT ![t] = phase]
     /\ pos' = [pos EXCEPT ![t] = 1] /\ 1 \in Slots(t)

LEMMA Advanced ==
  ASSUME Typed, NEW t \in Tasks, pos[t] \in Slots(t), NEW phase, Advance(t, phase)
  PROVE  Moved(t, phase)
BY MailboxesAssumption DEF Typed, TypeOK, Advance, Slots, Moved

\* The end of such a step keeps the types and the places.
LEMMA MovedInPlace ==
  ASSUME Typed, NEW t \in Tasks, pc[t] \in {"look", "arm", "disarm"},
         NEW phase \in Phases, Moved(t, phase), own' = own
  PROVE  /\ pc' \in [Tasks -> Phases] /\ pos' \in [Tasks -> Nat]
         /\ \A u \in Tasks : InPlace(u)'
<1> USE DEF Typed, TypeOK
<1>1. pc' \in [Tasks -> Phases] /\ pos' \in [Tasks -> Nat]
  <2>1. Slots(t) \subseteq Nat
    BY DEF Slots
  <2> QED
    BY <2>1 DEF Moved, Phases
<1>2. ASSUME NEW u \in Tasks, u # t
      PROVE  InPlace(u)'
  <2>1. pc'[u] = pc[u] /\ pos'[u] = pos[u]
    BY <1>2 DEF Moved
  <2> QED
    BY <2>1 DEF InPlace, Slots
<1>3. InPlace(t)'
  <2>1. \A k \in Slots(t) : own'[t][k] # NoId
    BY DEF InPlace
  <2>2. pos'[t] \in Slots(t) /\ (pc'[t] = pc[t] \/ pos'[t] = 1)
    BY DEF Moved
  <2> QED
    BY <2>1, <2>2 DEF InPlace, Slots
<1> QED
  BY <1>1, <1>2, <1>3

\* Every variable keeps its type, and every task its place.
LEMMA Typing == Spec => []Typed
<1>1. Init => Typed
  BY MailboxesAssumption DEF Init, Typed, TypeOK, InPlace, Ids, Kernel
<1>2. Typed /\ [Next]_vars => Typed'
  <2> SUFFICES ASSUME Typed, [Next]_vars PROVE Typed'
    OBVIOUS
  <2> USE DEF Typed
  <2>1. ASSUME NEW t \in Tasks, NEW k \in Slots(t), Alloc(t, k)
        PROVE  Typed'
    <3>1. FreshId \in (Ids \ {MaxId}) \ boxes
      BY <2>1, FreshIsFree DEF Alloc, TypeOK
    <3>2. nextId' \in Ids
      BY <2>1, <3>1, Round DEF Alloc, After, Ids
    <3>3. \A u \in Tasks : own'[u] \in [Slots(u) -> (Ids \ {MaxId}) \cup {NoId}]
      BY <2>1, <3>1 DEF Alloc, TypeOK
    <3>4. own' = [u \in Tasks |-> own'[u]]
      BY <2>1 DEF Alloc
    <3>5. \A u \in Tasks : InPlace(u)'
      BY <2>1 DEF Alloc, InPlace, Slots
    <3> QED
      BY <2>1, <3>1, <3>2, <3>3, <3>4, <3>5 DEF Alloc, TypeOK
  <2>2. ASSUME NEW t \in Tasks, NEW k \in Slots(t), Free(t, k)
        PROVE  Typed'
    <3>1. own'[t] \in [Slots(t) -> (Ids \ {MaxId}) \cup {NoId}]
      BY <2>2 DEF Free, TypeOK
    <3>2. own' = [u \in Tasks |-> own'[u]]
      BY <2>2 DEF Free
    <3>3. own[t][k] \in Ids /\ mail' \in [Ids -> Seq(Posters)]
      BY <2>2 DEF Free, TypeOK
    <3>4. \A u \in Tasks : InPlace(u)'
      BY <2>2 DEF Free, InPlace, Slots
    <3> QED
      BY <2>2, <3>1, <3>2, <3>3, <3>4 DEF Free, TypeOK
  <2>3. ASSUME NEW p \in Posters, NEW i \in Ids, Validate(p, i)
        PROVE  Typed'
    BY <2>3 DEF Validate, TypeOK, InPlace, Slots
  <2>4. ASSUME NEW p \in Posters, Post(p)
        PROVE  Typed'
    <3>1. target[p] \in Ids /\ mail[target[p]] \in Seq(Posters)
      BY DEF TypeOK
    <3>2. mail' \in [Ids -> Seq(Posters)]
      BY <2>4, <3>1 DEF Post, TypeOK
    <3>3. awake' \in [Tasks -> BOOLEAN]
      BY <2>4, Zenon DEF Post, TypeOK
    <3>4. routerLock' \in Posters \cup {Nobody}
      BY <2>4 DEF Post
    <3>5. \A u \in Tasks : InPlace(u)'
      BY <2>4 DEF Post, InPlace, Slots
    <3> QED
      BY <2>4, <3>2, <3>3, <3>4, <3>5, Zenon DEF Post, TypeOK
  <2>5. ASSUME NEW t \in Tasks, BeginSelect(t)
        PROVE  Typed'
    <3>1. pc' \in [Tasks -> Phases] /\ pos' \in [Tasks -> Nat]
      BY <2>5 DEF BeginSelect, TypeOK, Phases
    <3>2. \A u \in Tasks : InPlace(u)'
      <4>1. \A k \in Slots(t) : own[t][k] # NoId
        BY <2>5 DEF BeginSelect
      <4>2. Slots(t)' = Slots(t)
        BY DEF Slots
      <4> QED
        BY <2>5, <4>1, <4>2, FirstSlot DEF BeginSelect, TypeOK, InPlace
    <3> QED
      BY <2>5, <3>1, <3>2 DEF BeginSelect, TypeOK, Phases
  <2>6. ASSUME NEW t \in Tasks, Look(t)
        PROVE  Typed'
    <3>1. pos[t] \in Slots(t)
      BY <2>6 DEF Look, InPlace
    <3>2. CASE Advance(t, "arm")
      <4>1. Moved(t, "arm")
        BY <3>1, <3>2, Advanced
      <4>2. /\ pc' \in [Tasks -> Phases] /\ pos' \in [Tasks -> Nat]
            /\ \A u \in Tasks : InPlace(u)'
        BY <2>6, <4>1, MovedInPlace DEF Look, Phases
      <4> QED
        BY <2>6, <4>2 DEF Look, TypeOK, Phases
    <3>3. CASE pc' = [pc EXCEPT ![t] = "read"] /\ pos' = pos
      <4>1. \A u \in Tasks : InPlace(u)'
        BY <2>6, <3>3 DEF Look, TypeOK, InPlace, Slots
      <4> QED
        BY <2>6, <3>3, <4>1 DEF Look, TypeOK
    <3> QED
      BY <2>6, <3>2, <3>3 DEF Look
  <2>7. ASSUME NEW t \in Tasks, Arm(t)
        PROVE  Typed'
    <3>1. pos[t] \in Slots(t) /\ Here(t) \in Ids
      BY <2>7, HereIsId DEF Arm, InPlace
    <3>2. Moved(t, "armed")
      BY <2>7, <3>1, Advanced DEF Arm
    <3>3. /\ pc' \in [Tasks -> Phases] /\ pos' \in [Tasks -> Nat]
          /\ \A u \in Tasks : InPlace(u)'
      BY <2>7, <3>2, MovedInPlace DEF Arm, Phases
    <3>4. late' \in [Tasks -> SUBSET Ids]
      BY <2>7, <3>1 DEF Arm, TypeOK
    <3> QED
      BY <2>7, <3>3, <3>4 DEF Arm, TypeOK, Phases
  <2>8. ASSUME NEW t \in Tasks, UnlockArmed(t)
        PROVE  Typed'
    BY <2>8 DEF UnlockArmed, Unlocked, TypeOK, InPlace, Slots
  <2>9. ASSUME NEW t \in Tasks, Wait(t)
        PROVE  Typed'
    <3>1. \A u \in Tasks : InPlace(u)'
      <4>1. \A u \in Tasks : Slots(u)' = Slots(u)
        BY DEF Slots
      <4> QED
        BY <2>9, <4>1, FirstSlot DEF Wait, TypeOK, InPlace
    <3> QED
      BY <2>9, <3>1 DEF Wait, TypeOK
  <2>10. ASSUME NEW t \in Tasks, Disarm(t)
         PROVE  Typed'
    <3>1. pos[t] \in Slots(t)
      BY <2>10 DEF Disarm, InPlace
    <3>2. Moved(t, "find")
      BY <2>10, <3>1, Advanced DEF Disarm
    <3>3. /\ pc' \in [Tasks -> Phases] /\ pos' \in [Tasks -> Nat]
          /\ \A u \in Tasks : InPlace(u)'
      BY <2>10, <3>2, MovedInPlace DEF Disarm, Phases
    <3>4. select' \in [Ids -> Tasks \cup {Nobody}]
      BY <2>10 DEF Disarm, Disarmed, TypeOK
    <3> QED
      BY <2>10, <3>3, <3>4 DEF Disarm, TypeOK, Phases
  <2>11. ASSUME NEW t \in Tasks, Find(t)
         PROVE  Typed'
    <3> DEFINE full == {k \in Slots(t) : mail[own[t][k]] # <<>>}
    <3>1. full # {} => (CHOOSE k \in full : \A j \in full : k <= j) \in full
      BY FirstPlace, Zenon
    <3>2. Size[t] + 1 \in Nat /\ full \subseteq Nat
      BY MailboxesAssumption DEF Slots
    <3>3. pos' \in [Tasks -> Nat]
      BY <2>11, <3>1, <3>2 DEF Find, TypeOK
    <3>4. boxLock' \in [Ids -> Tasks \cup {Nobody}]
      BY <2>11 DEF Find, Unlocked, TypeOK
    <3>5. \A u \in Tasks : InPlace(u)'
      BY <2>11 DEF Find, TypeOK, InPlace, Slots
    <3> QED
      BY <2>11, <3>3, <3>4, <3>5 DEF Find, TypeOK
  <2>12. ASSUME NEW t \in Tasks, Read(t)
         PROVE  Typed'
    <3>1. Here(t) \in Ids
      BY <2>12, HereIsId DEF Read
    <3>2. mail[Here(t)] \in Seq(Posters) /\ mail[Here(t)] # <<>>
      BY <2>12, <3>1 DEF Read, TypeOK
    <3>3. Tail(mail[Here(t)]) \in Seq(Posters)
      BY <3>2
    <3>4. \A u \in Tasks : InPlace(u)'
      BY <2>12 DEF Read, TypeOK, InPlace, Slots
    <3> QED
      BY <2>12, <3>3, <3>4 DEF Read, TypeOK
  <2>13. ASSUME UNCHANGED vars
         PROVE  Typed'
    BY <2>13 DEF vars, TypeOK, InPlace, Slots
  <2> QED
    BY <2>1, <2>2, <2>3, <2>4, <2>5, <2>6, <2>7, <2>8, <2>9, <2>10, <2>11,
       <2>12, <2>13 DEF Next, Select
<1> QED
  BY <1>1, <1>2, PTL DEF Spec

-----------------------------------------------------------------------------
(* The steps of the inductive invariant.                                   *)

\* A step that leaves alone what a task has and what points to it keeps what
\* is said of that task.
LEMMA Bystander ==
  ASSUME Typed, NEW u \in Tasks, TaskInv(u),
         own'[u] = own[u], pc'[u] = pc[u], pos'[u] = pos[u],
         awake'[u] = awake[u], late'[u] = late[u],
         pc[u] # "idle" => \A k \in Slots(u) : mail'[own[u][k]] = mail[own[u][k]],
         \A i \in Ids : /\ select'[i] = u <=> select[i] = u
                        /\ boxLock'[i] = u <=> boxLock[i] = u
  PROVE  TaskInv(u)'
<1>1. Slots(u)' = Slots(u) /\ Armed(u)' = Armed(u) /\ Held(u)' = Held(u)
  BY DEF Slots, Armed, Held
<1>2. Armed(u) \subseteq Slots(u)
  BY DEF Armed
<1>3. InStep(u)'
  BY <1>1 DEF TaskInv, InStep
<1>4. Stirred(u)'
  BY <1>1 DEF TaskInv, Stirred
<1>5. Roused(u)'
  BY <1>1, <1>2 DEF TaskInv, Roused
<1>6. Chosen(u)'
  BY <1>1 DEF TaskInv, Chosen
<1> QED
  BY <1>3, <1>4, <1>5, <1>6 DEF TaskInv

\* A step that moves no mailbox keeps the owners and the poster's target.
Settled == own' = own /\ boxes' = boxes /\ routerLock' = routerLock /\ target' = target

LEMMA OwnersKept ==
  ASSUME Owners, own' = own, boxes' = boxes
  PROVE  Owners'
BY DEF Owners, Slots

\* An idle task has armed and locked nothing, whatever it owns.
LEMMA IdleInv ==
  ASSUME NEW t \in Tasks, pc'[t] = "idle", ~awake'[t],
         \A i \in Ids : select'[i] # t /\ boxLock'[i] # t
  PROVE  TaskInv(t)'
BY DEF TaskInv, InStep, Stirred, Roused, Chosen, Armed, Held

LEMMA Idle ==
  ASSUME NEW t \in Tasks, TaskInv(t), pc[t] \in {"idle", "look", "read"}
  PROVE  ~awake[t] /\ \A i \in Ids : select[i] # t /\ boxLock[i] # t
BY DEF TaskInv, InStep, Stirred, Armed, Held

LEMMA AllocStep ==
  ASSUME IInv, Typed', NEW t \in Tasks, NEW k \in Slots(t), Alloc(t, k)
  PROVE  IInv'
<1> USE DEF IInv
<1>1. FreshId \in Ids /\ FreshId \notin boxes /\ FreshId # NoId
  BY FreshIsFree, MailboxesAssumption DEF Alloc, Typed, TypeOK, Ids
<1>2. \A u \in Tasks : \A j \in Slots(u) :
        own'[u][j] = IF u = t /\ j = k THEN FreshId ELSE own[u][j]
  BY DEF Alloc, Typed, TypeOK
<1>3. Owners'
  <2>1. \A u \in Tasks : \A j \in Slots(u) : own[u][j] # NoId => own[u][j] # FreshId
    BY <1>1 DEF Owners
  <2>2. boxes' = boxes \cup {FreshId} /\ FreshId # Kernel
    BY <1>1 DEF Alloc, Owners
  <2>3. \A u \in Tasks : Slots(u)' = Slots(u)
    BY DEF Slots
  <2> QED
    BY <1>1, <1>2, <2>1, <2>2, <2>3 DEF Owners
<1>4. TaskInv(t)'
  BY Idle, IdleInv DEF Alloc
<1>5. ASSUME NEW u \in Tasks, u # t PROVE TaskInv(u)'
  <2>1. own'[u] = own[u]
    BY <1>5 DEF Alloc, Typed
  <2> QED
    BY <2>1, Bystander DEF Alloc
<1> QED
  BY <1>3, <1>4, <1>5 DEF Alloc

LEMMA FreeStep ==
  ASSUME IInv, Typed', NEW t \in Tasks, NEW k \in Slots(t), Free(t, k)
  PROVE  IInv'
<1> USE DEF IInv
<1>1. own[t][k] \in boxes \ {Kernel} /\ own[t][k] \in Ids /\ own[t][k] # NoId
  BY DEF Free, Owners, Typed, TypeOK
<1>2. \A u \in Tasks : \A j \in Slots(u) :
        own'[u][j] = IF u = t /\ j = k THEN NoId ELSE own[u][j]
  BY DEF Free, Typed, TypeOK
<1>3. Owners'
  <2>1. \A u \in Tasks : \A j \in Slots(u) : u # t \/ j # k => own[u][j] # own[t][k]
    BY <1>1 DEF Owners
  <2>2. boxes' = boxes \ {own[t][k]}
    BY DEF Free
  <2>3. \A u \in Tasks : Slots(u)' = Slots(u)
    BY DEF Slots
  <2> QED
    BY <1>1, <1>2, <2>1, <2>2, <2>3 DEF Owners
<1>4. TaskInv(t)'
  BY Idle, IdleInv DEF Free
<1>5. ASSUME NEW u \in Tasks, u # t PROVE TaskInv(u)'
  <2>1. own'[u] = own[u]
    BY <1>5 DEF Free, Typed
  <2>2. ASSUME NEW j \in Slots(u) PROVE mail'[own[u][j]] = mail[own[u][j]]
    <3>1. own[u][j] # own[t][k]
      BY <1>1, <1>5 DEF Owners
    <3>2. pc[u] # "idle" => own[u][j] \in Ids
      BY DEF Typed, TypeOK, InPlace
    <3> QED
      BY <3>1, <3>2 DEF Free, Typed, TypeOK
  <2> QED
    BY <2>1, <2>2, Bystander DEF Free
<1> QED
  BY <1>3, <1>4, <1>5 DEF Free

LEMMA ValidateStep ==
  ASSUME IInv, Typed', NEW p \in Posters, NEW i \in Ids, Validate(p, i)
  PROVE  IInv'
<1>1. Owners'
  BY OwnersKept DEF IInv, Validate
<1>2. (routerLock # Nobody => target[routerLock] \in boxes)'
  BY DEF Validate, IInv, Typed, TypeOK
<1>3. ASSUME NEW u \in Tasks PROVE TaskInv(u)'
  BY Bystander DEF IInv, Validate
<1> QED
  BY <1>1, <1>2, <1>3 DEF IInv

\* Mbox::post: the mailbox has mail now, and the task whose Sync it points to
\* is awake.
LEMMA PostStep ==
  ASSUME IInv, Typed', NEW p \in Posters, Post(p)
  PROVE  IInv'
<1> USE DEF IInv
<1> DEFINE i == target[p]
<1>1. i \in Ids /\ mail'[i] # <<>> /\ \A j \in Ids : mail[j] # <<>> => mail'[j] # <<>>
  <2>1. i \in Ids /\ mail \in [Ids -> Seq(Posters)]
    BY DEF Typed, TypeOK
  <2>2. mail' = [mail EXCEPT ![i] = Append(mail[i], p)] /\ mail[i] \in Seq(Posters)
    BY <2>1 DEF Post
  <2>3. Append(mail[i], p) # <<>>
    BY <2>2
  <2> QED
    BY <2>1, <2>2, <2>3
<1>2. \A j \in Ids : j # i => mail'[j] = mail[j]
  BY DEF Post, Typed, TypeOK
<1>3. \A u \in Tasks : awake'[u] <=> awake[u] \/ select[i] = u
  BY Zenon DEF Post
<1>4. Owners'
  BY OwnersKept DEF Post
<1>5. ASSUME NEW u \in Tasks PROVE TaskInv(u)'
  <2>1. Slots(u)' = Slots(u) /\ Armed(u)' = Armed(u) /\ Held(u)' = Held(u)
    BY DEF Slots, Armed, Held, Post
  <2>2. \A k \in Slots(u) : pc[u] # "idle" => own[u][k] \in Ids
    BY DEF Typed, TypeOK, InPlace
  <2>3. InStep(u)'
    BY <2>1 DEF TaskInv, InStep, Post
  <2>4. select[i] = u => \E k \in Armed(u) : own[u][k] = i
    BY <1>1 DEF TaskInv, InStep
  <2>5. pc'[u] = pc[u] /\ own'[u] = own[u] /\ late'[u] = late[u] /\ pos'[u] = pos[u]
    BY DEF Post
  <2>6. Stirred(u)'
    <3>1. select[i] = u => /\ pc[u] \in {"arm", "armed", "wait", "disarm"}
                           /\ \E k \in Slots(u) : mail'[own[u][k]] # <<>>
      BY <1>1, <2>4 DEF Armed
    <3>2. (awake[u] \/ pc[u] \in {"disarm", "find"})
            => \E k \in Slots(u) : mail'[own[u][k]] # <<>>
      BY <1>1, <2>2 DEF TaskInv, Stirred
    <3>3. awake[u] => pc[u] \in {"arm", "armed", "wait", "disarm", "find"}
      BY DEF TaskInv, Stirred
    <3> QED
      BY <1>3, <2>1, <2>5, <3>1, <3>2, <3>3 DEF Stirred
  <2>7. Roused(u)'
    <3> SUFFICES ASSUME pc[u] \in {"arm", "armed", "wait"}, NEW k \in Armed(u),
                        mail'[own[u][k]] # <<>>
                 PROVE  awake'[u] \/ own[u][k] \in late[u]
      BY <2>1, <2>5 DEF Roused
    <3>1. own[u][k] \in Ids
      BY <2>2 DEF Armed
    <3>2. CASE own[u][k] = i
      BY <1>3, <3>1, <3>2 DEF TaskInv, InStep
    <3>3. CASE own[u][k] # i
      BY <1>2, <1>3, <3>1, <3>3 DEF TaskInv, Roused
    <3> QED
      BY <3>2, <3>3
  <2>8. Chosen(u)'
    <3>1. pc[u] = "read" => own[u][pos[u]] \in Ids
      BY <2>2 DEF TaskInv, Chosen
    <3> QED
      BY <1>1, <2>1, <2>5, <3>1 DEF TaskInv, Chosen
  <2> QED
    BY <2>3, <2>6, <2>7, <2>8 DEF TaskInv
<1> QED
  BY <1>4, <1>5 DEF Post

\* A step of select is one task's: it moves no mailbox, wakes nobody, and
\* takes for itself or gives back pointers and locks that are its own.
LEMMA OthersKept ==
  ASSUME IInv, NEW t \in Tasks,
         own' = own, mail' = mail,
         \A u \in Tasks \ {t} :
           /\ pc'[u] = pc[u] /\ pos'[u] = pos[u]
           /\ awake'[u] = awake[u] /\ late'[u] = late[u],
         \A i \in Ids : /\ select'[i] = select[i] \/ {select[i], select'[i]} \subseteq {t, Nobody}
                        /\ boxLock'[i] = boxLock[i] \/ {boxLock[i], boxLock'[i]} \subseteq {t, Nobody}
  PROVE  \A u \in Tasks \ {t} : TaskInv(u)'
<1> SUFFICES ASSUME NEW u \in Tasks \ {t} PROVE TaskInv(u)'
  OBVIOUS
<1>1. \A i \in Ids : /\ select'[i] = u <=> select[i] = u
                     /\ boxLock'[i] = u <=> boxLock[i] = u
  BY MailboxesAssumption
<1> QED
  BY <1>1, Bystander DEF IInv

LEMMA BeginStep ==
  ASSUME IInv, Typed', NEW t \in Tasks, BeginSelect(t)
  PROVE  IInv'
<1> USE DEF IInv, Typed, TypeOK
<1>1. Owners'
  BY OwnersKept DEF BeginSelect
<1>2. \A u \in Tasks \ {t} : TaskInv(u)'
  BY OthersKept DEF BeginSelect
<1>3. TaskInv(t)'
  <2>1. pc'[t] = "look" /\ ~awake[t]
    BY Idle DEF BeginSelect
  <2>2. \A i \in Ids : select[i] # t /\ boxLock[i] # t
    BY Idle DEF BeginSelect
  <2> QED
    BY <2>1, <2>2 DEF BeginSelect, TaskInv, InStep, Stirred, Roused, Chosen, Armed, Held
<1> QED
  BY <1>1, <1>2, <1>3 DEF BeginSelect

LEMMA LookStep ==
  ASSUME IInv, Typed', NEW t \in Tasks, Look(t)
  PROVE  IInv'
<1> USE DEF IInv
<1>1. Owners'
  BY OwnersKept DEF Look
<1>2. pos[t] \in Slots(t)
  BY DEF Look, Typed, InPlace
<1>3. \/ pc' = [pc EXCEPT ![t] = "read"] /\ pos' = pos /\ mail[Here(t)] # <<>>
      \/ Moved(t, "arm")
  BY <1>2, Advanced DEF Look
<1>4. \A u \in Tasks \ {t} : pc'[u] = pc[u] /\ pos'[u] = pos[u]
  BY <1>3 DEF Moved, Typed, TypeOK
<1>5. \A u \in Tasks \ {t} : TaskInv(u)'
  BY <1>4, OthersKept DEF Look
<1>6. ~awake[t] /\ \A i \in Ids : select[i] # t /\ boxLock[i] # t
  BY Idle DEF Look
<1>7. \/ pc'[t] = "read" /\ pos'[t] = pos[t] /\ mail[Here(t)] # <<>>
      \/ pc'[t] = "look"
      \/ pc'[t] = "arm" /\ pos'[t] = 1
  BY <1>3 DEF Moved, Typed, TypeOK, Look
<1>8. TaskInv(t)'
  <2>1. Armed(t)' = {} /\ Held(t)' = {}
    BY <1>7 DEF Armed, Held, Slots
  <2>2. InStep(t)' /\ Stirred(t)' /\ Roused(t)'
    BY <1>6, <1>7, <2>1 DEF InStep, Stirred, Roused, Look
  <2>3. Chosen(t)'
    BY <1>2, <1>7 DEF Chosen, Here, Look, Slots
  <2> QED
    BY <2>2, <2>3 DEF TaskInv
<1> QED
  BY <1>1, <1>5, <1>8 DEF Look

\* The mailbox that the task arms joins those it has armed and locked.
LEMMA ArmStep ==
  ASSUME IInv, Typed', NEW t \in Tasks, Arm(t)
  PROVE  IInv'
<1> USE DEF IInv
<1> DEFINE h == Here(t)
<1>1. Owners'
  BY OwnersKept DEF Arm
<1>2. pos[t] \in Slots(t) /\ h \in Ids /\ boxLock[h] = Nobody /\ pc[t] = "arm"
  BY HereIsId DEF Arm, Typed, InPlace
<1>3. Moved(t, "armed")
  BY <1>2, Advanced DEF Arm
<1>4. select[h] \in {t, Nobody}
  <2>1. ASSUME NEW u \in Tasks, u # t PROVE select[h] # u
    <3>1. select[h] = u => \E k \in Armed(u) : own[u][k] = h
      BY <1>2 DEF TaskInv, InStep
    <3>2. \A k \in Slots(u) : own[u][k] # h
      BY <1>2, <2>1, MailboxesAssumption DEF Owners, Here, Ids
    <3> QED
      BY <3>1, <3>2 DEF Armed
  <2> QED
    BY <1>2, <2>1 DEF Typed, TypeOK
<1>5. \A i \in Ids : /\ select'[i] = IF i = h THEN t ELSE select[i]
                     /\ boxLock'[i] = IF i = h THEN t ELSE boxLock[i]
  BY <1>2 DEF Arm, Typed, TypeOK
<1>6. \A u \in Tasks \ {t} : /\ pc'[u] = pc[u] /\ pos'[u] = pos[u]
                             /\ awake'[u] = awake[u] /\ late'[u] = late[u]
  BY <1>3 DEF Moved, Typed, TypeOK, Arm
<1>7. \A u \in Tasks \ {t} : TaskInv(u)'
  BY <1>2, <1>4, <1>5, <1>6, OthersKept DEF Arm
<1>8. Armed(t)' = Armed(t) \cup {pos[t]} /\ Held(t)' = Held(t) \cup {pos[t]}
  <2>1. pos[t] \in 1 .. Size[t] /\ Size[t] \in Nat
    BY <1>2, MailboxesAssumption DEF Slots
  <2>2. CASE pos[t] < Size[t] /\ pc'[t] = "arm" /\ pos'[t] = pos[t] + 1
    BY <1>2, <2>1, <2>2 DEF Armed, Held, Slots
  <2>3. CASE pos[t] = Size[t] /\ pc'[t] = "armed" /\ pos'[t] = 1
    BY <1>2, <2>1, <2>3 DEF Armed, Held, Slots
  <2> QED
    BY <1>2, <1>3, <2>2, <2>3 DEF Moved, Typed, TypeOK
<1>9. InStep(t)'
  <2>1. \A i \in Ids : /\ select'[i] = t <=> \E k \in Armed(t) \cup {pos[t]} : own[t][k] = i
                       /\ boxLock'[i] = t <=> \E k \in Held(t) \cup {pos[t]} : own[t][k] = i
    BY <1>2, <1>5 DEF TaskInv, InStep, Here
  <2> QED
    BY <1>8, <2>1 DEF InStep, Arm
<1>10. pc'[t] \in {"arm", "armed"} /\ awake'[t] = awake[t]
  BY <1>2, <1>3 DEF Moved, Typed, TypeOK, Arm
<1>11. Stirred(t)'
  BY <1>2, <1>10 DEF TaskInv, Stirred, Arm, Slots
<1>12. Roused(t)'
  <2>1. late'[t] = IF mail[h] = <<>> THEN late[t] ELSE late[t] \cup {h}
    BY DEF Arm, Typed, TypeOK
  <2>2. \A k \in Armed(t) : mail[own[t][k]] # <<>> => awake[t] \/ own[t][k] \in late[t]
    BY <1>2 DEF TaskInv, Roused
  <2>3. own[t][pos[t]] = h /\ own' = own /\ mail' = mail
    BY DEF Here, Arm
  <2> QED
    BY <1>8, <1>10, <2>1, <2>2, <2>3 DEF Roused
<1>13. Chosen(t)'
  BY <1>10 DEF Chosen
<1> QED
  BY <1>1, <1>7, <1>9, <1>11, <1>12, <1>13 DEF Arm, TaskInv

LEMMA UnlockStep ==
  ASSUME IInv, Typed', NEW t \in Tasks, UnlockArmed(t)
  PROVE  IInv'
<1> USE DEF IInv
<1>1. Owners'
  BY OwnersKept DEF UnlockArmed
<1>2. \A i \in Ids : boxLock'[i] = IF boxLock[i] = t THEN Nobody ELSE boxLock[i]
  BY DEF UnlockArmed, Unlocked
<1>3. pc' = [pc EXCEPT ![t] = "wait"] /\ pos' = pos /\ pc[t] = "armed"
  BY DEF UnlockArmed
<1>4. \A u \in Tasks \ {t} : pc'[u] = pc[u]
  BY <1>3 DEF Typed, TypeOK
<1>5. \A u \in Tasks \ {t} : TaskInv(u)'
  BY <1>2, <1>4, OthersKept DEF UnlockArmed
<1>6. pc'[t] = "wait"
  BY <1>3 DEF Typed, TypeOK
<1>7. Armed(t)' = Armed(t) /\ Held(t)' = {} /\ Slots(t)' = Slots(t)
  BY <1>3, <1>6 DEF Armed, Held, Slots
<1>8. InStep(t)'
  BY <1>2, <1>7, MailboxesAssumption DEF InStep, TaskInv, UnlockArmed
<1>9. Stirred(t)' /\ Roused(t)' /\ Chosen(t)'
  BY <1>3, <1>6, <1>7 DEF TaskInv, Stirred, Roused, Chosen, UnlockArmed
<1> QED
  BY <1>1, <1>5, <1>8, <1>9 DEF UnlockArmed, TaskInv

\* Whoever gets past its wait has been woken, so it has mail.
LEMMA WaitStep ==
  ASSUME IInv, Typed', NEW t \in Tasks, Wait(t)
  PROVE  IInv'
<1> USE DEF IInv
<1>1. Owners'
  BY OwnersKept DEF Wait
<1>2. pc[t] = "wait" /\ awake[t] /\ pos[t] = 1 /\ pos' = pos
  BY DEF Wait, Typed, InPlace
<1>3. pc'[t] = "disarm" /\ ~awake'[t]
  BY DEF Wait, Typed, TypeOK
<1>4. \A u \in Tasks \ {t} : pc'[u] = pc[u] /\ awake'[u] = awake[u]
  BY DEF Wait, Typed, TypeOK
<1>5. \A u \in Tasks \ {t} : TaskInv(u)'
  BY <1>4, OthersKept DEF Wait
<1>6. Armed(t)' = Armed(t) /\ Held(t)' = Held(t) /\ Slots(t)' = Slots(t)
  BY <1>2, <1>3 DEF Armed, Held, Slots
<1>7. InStep(t)'
  BY <1>6 DEF TaskInv, InStep, Wait
<1>8. Stirred(t)' /\ Roused(t)' /\ Chosen(t)'
  BY <1>2, <1>3, <1>6 DEF TaskInv, Stirred, Roused, Chosen, Wait
<1> QED
  BY <1>1, <1>5, <1>7, <1>8 DEF Wait, TaskInv

\* The mailbox that the task disarms leaves the armed ones and joins those it
\* has locked.
LEMMA DisarmStep ==
  ASSUME IInv, Typed', NEW t \in Tasks, Disarm(t)
  PROVE  IInv'
<1> USE DEF IInv
<1> DEFINE h == Here(t)
<1>1. Owners'
  BY OwnersKept DEF Disarm
<1>2. pos[t] \in Slots(t) /\ h \in Ids /\ boxLock[h] = Nobody /\ pc[t] = "disarm"
  BY HereIsId DEF Disarm, Typed, InPlace
<1>3. Moved(t, "find")
  BY <1>2, Advanced DEF Disarm
<1>4. select[h] = t
  BY <1>2 DEF TaskInv, InStep, Armed, Here, Slots
<1>5. \A i \in Ids : /\ select'[i] = IF i = h THEN Nobody ELSE select[i]
                     /\ boxLock'[i] = IF i = h THEN t ELSE boxLock[i]
  BY <1>2 DEF Disarm, Disarmed, Typed, TypeOK
<1>6. \A u \in Tasks \ {t} : pc'[u] = pc[u] /\ pos'[u] = pos[u]
  BY <1>3 DEF Moved, Typed, TypeOK
<1>7. \A u \in Tasks \ {t} : TaskInv(u)'
  BY <1>2, <1>4, <1>5, <1>6, OthersKept DEF Disarm
<1>8. Armed(t)' = Armed(t) \ {pos[t]} /\ Held(t)' = Held(t) \cup {pos[t]}
  <2>1. pos[t] \in 1 .. Size[t] /\ Size[t] \in Nat
    BY <1>2, MailboxesAssumption DEF Slots
  <2>2. CASE pos[t] < Size[t] /\ pc'[t] = "disarm" /\ pos'[t] = pos[t] + 1
    BY <1>2, <2>1, <2>2 DEF Armed, Held, Slots
  <2>3. CASE pos[t] = Size[t] /\ pc'[t] = "find" /\ pos'[t] = 1
    BY <1>2, <2>1, <2>3 DEF Armed, Held, Slots
  <2> QED
    BY <1>2, <1>3, <2>2, <2>3 DEF Moved, Typed, TypeOK
<1>9. \A k \in Armed(t) : own[t][k] = h => k = pos[t]
  BY <1>2, MailboxesAssumption DEF Owners, Here, Armed, Ids
<1>10. InStep(t)'
  <2>1. \A i \in Ids : /\ select'[i] = t <=> \E k \in Armed(t) \ {pos[t]} : own[t][k] = i
                       /\ boxLock'[i] = t <=> \E k \in Held(t) \cup {pos[t]} : own[t][k] = i
    BY <1>2, <1>5, <1>9, MailboxesAssumption DEF TaskInv, InStep, Here
  <2> QED
    BY <1>8, <2>1 DEF InStep, Disarm
<1>11. pc'[t] \in {"disarm", "find"}
  BY <1>2, <1>3 DEF Moved, Typed, TypeOK
<1>12. Stirred(t)' /\ Roused(t)' /\ Chosen(t)'
  BY <1>2, <1>11 DEF TaskInv, Stirred, Roused, Chosen, Disarm, Slots
<1> QED
  BY <1>1, <1>7, <1>10, <1>12 DEF Disarm, TaskInv

\* Some mailbox has mail when the task looks again, so the first that has is
\* one of its list.
LEMMA FindStep ==
  ASSUME IInv, Typed', NEW t \in Tasks, Find(t)
  PROVE  IInv'
<1> USE DEF IInv
<1> DEFINE full == {k \in Slots(t) : mail[own[t][k]] # <<>>}
           first == CHOOSE k \in full : \A j \in full : k <= j
<1>1. Owners'
  BY OwnersKept DEF Find
<1>2. pc[t] = "find"
  BY DEF Find
<1>3. full # {}
  BY <1>2 DEF TaskInv, Stirred
<1>4. first \in full
  BY <1>3, FirstPlace
<1>5. pos' = [pos EXCEPT ![t] = first]
  BY <1>3 DEF Find
<1>6. /\ pos'[t] = first /\ pc'[t] = "read" /\ ~awake'[t]
      /\ \A u \in Tasks \ {t} : /\ pc'[u] = pc[u] /\ pos'[u] = pos[u]
                                /\ awake'[u] = awake[u] /\ late'[u] = late[u]
  <2> HIDE DEF first
  <2> QED
    BY <1>5 DEF Find, Typed, TypeOK
<1>7. \A i \in Ids : boxLock'[i] = IF boxLock[i] = t THEN Nobody ELSE boxLock[i]
  BY DEF Find, Unlocked
<1>8. \A u \in Tasks \ {t} : TaskInv(u)'
  BY <1>6, <1>7, OthersKept DEF Find
<1>9. \A i \in Ids : select'[i] # t /\ boxLock'[i] # t
  BY <1>2, <1>7, MailboxesAssumption DEF TaskInv, InStep, Armed, Find
<1>10. Armed(t)' = {} /\ Held(t)' = {}
  BY <1>6 DEF Armed, Held
<1>11. InStep(t)' /\ Stirred(t)' /\ Roused(t)'
  BY <1>6, <1>9, <1>10 DEF InStep, Stirred, Roused
<1>12. Chosen(t)'
  <2> HIDE DEF first
  <2>1. first \in Slots(t) /\ mail[own[t][first]] # <<>>
    BY <1>4
  <2> QED
    BY <1>6, <2>1 DEF Chosen, Find, Slots
<1> QED
  BY <1>1, <1>8, <1>11, <1>12 DEF Find, TaskInv

LEMMA ReadStep ==
  ASSUME IInv, Typed', NEW t \in Tasks, Read(t)
  PROVE  IInv'
<1> USE DEF IInv
<1> DEFINE h == Here(t)
<1>1. Owners'
  BY OwnersKept DEF Read
<1>2. pos[t] \in Slots(t) /\ h \in Ids /\ pc[t] = "read"
  BY HereIsId DEF Read
<1>3. \A i \in Ids : i # h => mail'[i] = mail[i]
  BY DEF Read, Typed, TypeOK
<1>4. TaskInv(t)'
  <2>1. pc'[t] = "idle"
    BY DEF Read, Typed, TypeOK
  <2> QED
    BY <1>2, <2>1, Idle, IdleInv DEF Read
<1>5. ASSUME NEW u \in Tasks \ {t} PROVE TaskInv(u)'
  <2>1. pc'[u] = pc[u]
    BY DEF Read, Typed, TypeOK
  <2>2. ASSUME pc[u] # "idle", NEW k \in Slots(u)
        PROVE  mail'[own[u][k]] = mail[own[u][k]]
    <3>1. own[u][k] # h
      BY <1>2, <2>2, MailboxesAssumption DEF Owners, Here, Ids
    <3>2. own[u][k] \in Ids
      BY <2>2 DEF Typed, TypeOK, InPlace
    <3> QED
      BY <1>3, <3>1, <3>2
  <2> QED
    BY <2>1, <2>2, Bystander DEF Read
<1> QED
  BY <1>1, <1>4, <1>5 DEF Read

-----------------------------------------------------------------------------
(* The theorems.                                                           *)

\* What is said of every task's place, pointers, locks and mail holds for
\* ever, whatever is allocated, freed, posted, selected and read meanwhile.
THEOREM Inductive == Spec => []IInv
<1>1. Init => IInv
  <2> SUFFICES ASSUME Init PROVE IInv
    OBVIOUS
  <2>1. Typed
    BY MailboxesAssumption DEF Init, Typed, TypeOK, InPlace, Ids, Kernel
  <2>2. Owners
    BY DEF Init, Owners
  <2>3. routerLock = Nobody
    BY DEF Init
  <2>4. ASSUME NEW t \in Tasks PROVE TaskInv(t)
    BY MailboxesAssumption
    DEF Init, TaskInv, InStep, Stirred, Roused, Chosen, Armed, Held
  <2> QED
    BY <2>1, <2>2, <2>3, <2>4 DEF IInv
<1>2. IInv /\ Typed' /\ [Next]_vars => IInv'
  <2> SUFFICES ASSUME IInv, Typed', [Next]_vars PROVE IInv'
    OBVIOUS
  <2>1. CASE UNCHANGED vars
    <3>1. Owners'
      BY <2>1, OwnersKept DEF vars, IInv
    <3>2. \A u \in Tasks : TaskInv(u)'
      BY <2>1, Bystander DEF vars, IInv
    <3> QED
      BY <2>1, <3>1, <3>2 DEF vars, IInv
  <2>2. ASSUME NEW t \in Tasks, NEW k \in Slots(t), Alloc(t, k) \/ Free(t, k)
        PROVE  IInv'
    BY <2>2, AllocStep, FreeStep
  <2>3. ASSUME NEW t \in Tasks, BeginSelect(t) \/ Select(t) \/ Read(t)
        PROVE  IInv'
    BY <2>3, BeginStep, LookStep, ArmStep, UnlockStep, WaitStep, DisarmStep,
       FindStep, ReadStep DEF Select
  <2>4. ASSUME NEW p \in Posters, (\E i \in Ids : Validate(p, i)) \/ Post(p)
        PROVE  IInv'
    BY <2>4, ValidateStep, PostStep
  <2> QED
    BY <2>1, <2>2, <2>3, <2>4 DEF Next
<1> QED
  BY <1>1, <1>2, Typing, PTL DEF Spec

\* The types of the tables, queues, locks and lists.
THEOREM TypeCorrect == Spec => []TypeOK
<1>1. Typed => TypeOK
  BY DEF Typed
<1> QED
  BY <1>1, Typing, PTL

\* The index that Router::select returns is always one of the list, and of a
\* mailbox with mail: the assertion that a wake-up means mail.
THEOREM SelectFinds == Spec => []SelectFindsMail
<1>1. IInv => SelectFindsMail
  BY DEF IInv, TaskInv, Chosen, SelectFindsMail, Here
<1> QED
  BY <1>1, Inductive, PTL

\* No m_select outlives the Sync on the stack of select that it points to,
\* and Router::send holds no mailbox that Router::free has destroyed.
THEOREM NothingDangles == Spec => []NoDangling
<1>1. IInv => NoDangling
  <2> SUFFICES ASSUME IInv, NEW i \in Ids, NEW t \in Tasks, select[i] = t
               PROVE  i \in Owned(t) /\ pc[t] \in {"arm", "armed", "wait", "disarm"}
    BY DEF IInv, NoDangling
  <2>1. PICK k \in Armed(t) : own[t][k] = i
    BY DEF IInv, TaskInv, InStep
  <2>2. k \in Slots(t) /\ pc[t] \in {"arm", "armed", "wait", "disarm"}
    BY DEF Armed
  <2>3. i # NoId
    BY MailboxesAssumption DEF Ids
  <2> QED
    BY <2>1, <2>2, <2>3 DEF Owned
<1> QED
  BY <1>1, Inductive, PTL

\* Router::alloc never gives out a mailbox that a task or the kernel has, even
\* after the numbers have come round.
THEOREM OwnersAlone == Spec => []OneOwner
<1>1. IInv => OneOwner
  BY DEF IInv, Owners, OneOwner, Owned
<1> QED
  BY <1>1, Inductive, PTL

\* A post to an armed mailbox wakes the task that sleeps on it.
THEOREM ArmedWakesUp == Spec => []ArmedWakes
<1>1. IInv => ArmedWakes
  <2> SUFFICES ASSUME IInv, NEW t \in Tasks, pc[t] = "wait", ~awake[t],
                      NEW i \in Owned(t), mail[i] # <<>>
               PROVE  i \in late[t]
    BY DEF ArmedWakes
  <2>1. PICK k \in Slots(t) : own[t][k] = i
    BY DEF Owned
  <2>2. k \in Armed(t)
    BY DEF Armed
  <2> QED
    BY <2>1, <2>2 DEF IInv, TaskInv, Roused
<1> QED
  BY <1>1, Inductive, PTL
=============================================================================
