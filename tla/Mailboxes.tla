------------------------------ MODULE Mailboxes ------------------------------
(***************************************************************************)
(* The mailboxes of one node: allocation, posting, select and read.        *)
(*                                                                         *)
(* A task owns a fixed number of mailboxes, waits for mail in any of them  *)
(* with Router::select and reads one message of the mailbox it is given.   *)
(* Other threads post at any time, under the router's mutex and then the   *)
(* mailbox's.  Every step is the code between two lock operations, or one  *)
(* look at a mailbox where the code looks without a lock.                  *)
(***************************************************************************)
EXTENDS Integers, Sequences

CONSTANTS
  Tasks,      \* threads that own mailboxes
  Posters,    \* threads that post
  Size,       \* Size[t]: how many mailboxes the task selects on
  MaxId,      \* MAX_ID, the largest number a Mailbox_ID can hold
  MailLimit,  \* bound: messages queued in a mailbox
  Nobody,     \* the holder of a free lock, the Sync of a null m_select
  NoId        \* the slot of a task that holds no mailbox now

ASSUME MailboxesAssumption ==
  /\ Size \in [Tasks -> Nat \ {0}]
  /\ MaxId \in Nat \ {0}
  /\ MailLimit \in Nat
  /\ Nobody \notin Tasks \cup Posters
  /\ NoId \notin 0 .. MaxId
  /\ Tasks \cap Posters = {}

VARIABLES
  boxes,      \* the keys of m_mailboxes
  nextId,     \* m_next_mailbox_id
  mail,       \* mail[i]: m_mail of mailbox i, each message by its sender
  select,     \* select[i]: the task whose Sync m_select of mailbox i points to
  boxLock,    \* boxLock[i]: the task that holds m_mutex of mailbox i
  routerLock, \* the poster that holds Router::m_mutex
  target,     \* target[p]: the mailbox that p has validated
  own,        \* own[t]: the mailboxes of the task, a list of ids
  pc, pos,    \* what the task does next, and at which mailbox of its list
  awake,      \* awake[t]: ~m_state of the Sync on the stack of select
  late        \* history: the mailboxes that held mail when they were armed

vars == <<boxes, nextId, mail, select, boxLock, routerLock, target,
          own, pc, pos, awake, late>>

Ids == 0 .. MaxId

Kernel == 0   \* the kernel service allocates first

Slots(t) == 1 .. Size[t]

Owned(t) == {own[t][k] : k \in Slots(t)} \ {NoId}

Init ==
  /\ boxes = {Kernel} /\ nextId = 1
  /\ mail = [i \in Ids |-> <<>>]
  /\ select = [i \in Ids |-> Nobody]
  /\ boxLock = [i \in Ids |-> Nobody]
  /\ routerLock = Nobody
  /\ target = [p \in Posters |-> Kernel]
  /\ own = [t \in Tasks |-> [k \in Slots(t) |-> NoId]]
  /\ pc = [t \in Tasks |-> "idle"]
  /\ pos = [t \in Tasks |-> 1]
  /\ awake = [t \in Tasks |-> FALSE]
  /\ late = [t \in Tasks |-> {}]

-----------------------------------------------------------------------------
(* Router::alloc and Router::free.                                          *)

After(i) == (i + 1) % (MaxId + 1)

\* The ids that the search of alloc passes over.
\* Mistake: the number that means none is given out.
TakenBoxes == boxes

Taken == boxes \cup {MaxId}

\* The first id from nextId on, around the end of the numbers, that is free.
\* Mistake: the search is left out, numbers are thought not to come round.
UnsearchedId == nextId

FreshId ==
  CHOOSE i \in Ids \ Taken :
    \A j \in Ids \ Taken :
      (i - nextId) % (MaxId + 1) <= (j - nextId) % (MaxId + 1)

Alloc(t, k) ==
  /\ pc[t] = "idle" /\ routerLock = Nobody
  /\ own[t][k] = NoId /\ Ids \ Taken # {}
  /\ boxes' = boxes \cup {FreshId}
  /\ nextId' = After(FreshId)
  /\ own' = [own EXCEPT ![t][k] = FreshId]
  /\ UNCHANGED <<mail, select, boxLock, routerLock, target, pc, pos, awake, late>>

Free(t, k) ==
  /\ pc[t] = "idle" /\ routerLock = Nobody
  /\ own[t][k] # NoId
  /\ boxes' = boxes \ {own[t][k]}
  /\ mail' = [mail EXCEPT ![own[t][k]] = <<>>]
  /\ own' = [own EXCEPT ![t][k] = NoId]
  /\ UNCHANGED <<nextId, select, boxLock, routerLock, target, pc, pos, awake, late>>

-----------------------------------------------------------------------------
(* Router::send to a mailbox of this node, and Mbox::post.                  *)

\* A message for a mailbox that does not exist (any more) is dropped and
\* changes nothing.
Validate(p, i) ==
  /\ routerLock = Nobody /\ i \in boxes
  /\ Len(mail[i]) < MailLimit
  /\ routerLock' = p
  /\ target' = [target EXCEPT ![p] = i]
  /\ UNCHANGED <<boxes, nextId, mail, select, boxLock, own, pc, pos, awake, late>>

Post(p) ==
  /\ routerLock = p /\ boxLock[target[p]] = Nobody
  /\ mail' = [mail EXCEPT ![target[p]] = Append(@, p)]
  /\ awake' = [t \in Tasks |-> awake[t] \/ select[target[p]] = t]
  /\ routerLock' = Nobody
  /\ UNCHANGED <<boxes, nextId, select, boxLock, target, own, pc, pos, late>>

-----------------------------------------------------------------------------
(* Router::select.                                                          *)

\* The mailbox in the task's hands.
Here(t) == own[t][pos[t]]

\* The step is done at this mailbox: on to the next one, or to the next phase.
Advance(t, phase) ==
  IF pos[t] < Size[t]
  THEN pos' = [pos EXCEPT ![t] = @ + 1] /\ pc' = pc
  ELSE pos' = [pos EXCEPT ![t] = 1] /\ pc' = [pc EXCEPT ![t] = phase]

BeginSelect(t) ==
  /\ pc[t] = "idle" /\ routerLock = Nobody
  /\ NoId \notin {own[t][k] : k \in Slots(t)}
  /\ pc' = [pc EXCEPT ![t] = "look"]
  /\ pos' = [pos EXCEPT ![t] = 1]
  /\ UNCHANGED <<boxes, nextId, mail, select, boxLock, routerLock, target, own,
                 awake, late>>

\* The first look takes no lock.
Look(t) ==
  /\ pc[t] = "look"
  /\ IF mail[Here(t)] # <<>>
     THEN pc' = [pc EXCEPT ![t] = "read"] /\ pos' = pos
     ELSE Advance(t, "arm")
  /\ UNCHANGED <<boxes, nextId, mail, select, boxLock, routerLock, target, own,
                 awake, late>>

\* Lock the mailbox and set its select, one mailbox after the other.
\* Mistake: only the mailbox that select looks at first is given the Sync.
ArmFirst(t) ==
  /\ pc[t] = "arm" /\ boxLock[Here(t)] = Nobody
  /\ boxLock' = [boxLock EXCEPT ![Here(t)] = t]
  /\ select' = [select EXCEPT ![own[t][1]] = t]
  /\ late' = [late EXCEPT ![t] = IF mail[Here(t)] = <<>> THEN @ ELSE @ \cup {Here(t)}]
  /\ Advance(t, "armed")
  /\ UNCHANGED <<boxes, nextId, mail, routerLock, target, own, awake>>

Arm(t) ==
  /\ pc[t] = "arm" /\ boxLock[Here(t)] = Nobody
  /\ boxLock' = [boxLock EXCEPT ![Here(t)] = t]
  /\ select' = [select EXCEPT ![Here(t)] = t]
  /\ late' = [late EXCEPT ![t] = IF mail[Here(t)] = <<>> THEN @ ELSE @ \cup {Here(t)}]
  /\ Advance(t, "armed")
  /\ UNCHANGED <<boxes, nextId, mail, routerLock, target, own, awake>>

\* Mistake: only the first mailbox of the list is unlocked.
UnlockedFirst(t) == [boxLock EXCEPT ![own[t][1]] = Nobody]

Unlocked(t) == [i \in Ids |-> IF boxLock[i] = t THEN Nobody ELSE boxLock[i]]

UnlockArmed(t) ==
  /\ pc[t] = "armed"
  /\ boxLock' = Unlocked(t)
  /\ pc' = [pc EXCEPT ![t] = "wait"]
  /\ UNCHANGED <<boxes, nextId, mail, select, routerLock, target, own, pos,
                 awake, late>>

\* Sync::wait suspends the task until a post has woken it.
\* Mistake: a spurious wake-up is taken for a post.
WaitOnce(t) ==
  /\ pc[t] = "wait"
  /\ awake' = [awake EXCEPT ![t] = FALSE]
  /\ pc' = [pc EXCEPT ![t] = "disarm"]
  /\ UNCHANGED <<boxes, nextId, mail, select, boxLock, routerLock, target, own,
                 pos, late>>

Wait(t) ==
  /\ pc[t] = "wait" /\ awake[t]
  /\ awake' = [awake EXCEPT ![t] = FALSE]
  /\ pc' = [pc EXCEPT ![t] = "disarm"]
  /\ UNCHANGED <<boxes, nextId, mail, select, boxLock, routerLock, target, own,
                 pos, late>>

\* Mistake: only the mailbox that has mail is taken back.
DisarmedFull(t) ==
  [select EXCEPT ![Here(t)] = IF mail[Here(t)] = <<>> THEN @ ELSE Nobody]

Disarmed(t) == [select EXCEPT ![Here(t)] = Nobody]

Disarm(t) ==
  /\ pc[t] = "disarm" /\ boxLock[Here(t)] = Nobody
  /\ boxLock' = [boxLock EXCEPT ![Here(t)] = t]
  /\ select' = Disarmed(t)
  /\ Advance(t, "find")
  /\ UNCHANGED <<boxes, nextId, mail, routerLock, target, own, awake, late>>

\* The second look, with every mailbox locked.  An index past the end of the
\* list says that none held mail.  The Sync goes with the frame of select.
Find(t) ==
  /\ pc[t] = "find"
  /\ LET full == {k \in Slots(t) : mail[own[t][k]] # <<>>}
         first == IF full = {} THEN Size[t] + 1
                  ELSE CHOOSE k \in full : \A j \in full : k <= j
     IN  pos' = [pos EXCEPT ![t] = first]
  /\ boxLock' = Unlocked(t)
  /\ awake' = [awake EXCEPT ![t] = FALSE]
  /\ late' = [late EXCEPT ![t] = {}]
  /\ pc' = [pc EXCEPT ![t] = "read"]
  /\ UNCHANGED <<boxes, nextId, mail, select, routerLock, target, own>>

\* Router::read of the mailbox that select has chosen, and Mbox::read.
Read(t) ==
  /\ pc[t] = "read"
  /\ pos[t] \in Slots(t) /\ mail[Here(t)] # <<>> /\ boxLock[Here(t)] = Nobody
  /\ mail' = [mail EXCEPT ![Here(t)] = Tail(@)]
  /\ pc' = [pc EXCEPT ![t] = "idle"]
  /\ UNCHANGED <<boxes, nextId, select, boxLock, routerLock, target, own, pos,
                 awake, late>>

-----------------------------------------------------------------------------

Select(t) == Look(t) \/ Arm(t) \/ UnlockArmed(t) \/ Wait(t) \/ Disarm(t) \/ Find(t)

Next ==
  \/ \E t \in Tasks : \E k \in Slots(t) : Alloc(t, k) \/ Free(t, k)
  \/ \E t \in Tasks : BeginSelect(t) \/ Select(t) \/ Read(t)
  \/ \E p \in Posters : (\E i \in Ids : Validate(p, i)) \/ Post(p)

Spec == Init /\ [][Next]_vars

\* A thread that can go on within select, read or post does.
FairSpec ==
  /\ Spec
  /\ \A t \in Tasks : WF_vars(Select(t)) /\ WF_vars(Read(t))
  /\ \A p \in Posters : WF_vars(Post(p))

-----------------------------------------------------------------------------
(* Properties.                                                             *)

\* Every variable keeps its type.
TypeOK ==
  /\ boxes \subseteq Ids \ {MaxId} /\ nextId \in Ids
  /\ mail \in [Ids -> Seq(Posters)]
  /\ select \in [Ids -> Tasks \cup {Nobody}]
  /\ boxLock \in [Ids -> Tasks \cup {Nobody}]
  /\ routerLock \in Posters \cup {Nobody}
  /\ target \in [Posters -> Ids]
  /\ \A t \in Tasks : own[t] \in [Slots(t) -> (Ids \ {MaxId}) \cup {NoId}]
  /\ pc \in [Tasks -> {"idle", "look", "arm", "armed", "wait", "disarm",
                       "find", "read"}]
  /\ pos \in [Tasks -> Nat]
  /\ awake \in [Tasks -> BOOLEAN]
  /\ late \in [Tasks -> SUBSET Ids]

\* The index that select returns is one of the list, of a mailbox with mail:
\* the read that follows does not block.
SelectFindsMail ==
  \A t \in Tasks : pc[t] = "read" => pos[t] \in Slots(t) /\ mail[Here(t)] # <<>>

\* No mailbox points to the Sync of a select that has returned, and no poster
\* holds the address of a mailbox that is gone.
NoDangling ==
  /\ \A i \in Ids, t \in Tasks :
       select[i] = t => i \in Owned(t) /\ pc[t] \in {"arm", "armed", "wait", "disarm"}
  /\ routerLock # Nobody => target[routerLock] \in boxes

\* A mailbox has one owner, and nobody is given the one of the kernel service,
\* however often the numbers come round.
OneOwner ==
  /\ Kernel \in boxes
  /\ \A t \in Tasks : Owned(t) \subseteq boxes \ {Kernel}
  /\ \A t, u \in Tasks : \A k \in Slots(t), j \in Slots(u) :
       own[t][k] = own[u][j] /\ own[t][k] # NoId => t = u /\ k = j

\* A task sleeps on mail only if the mail was there before its mailbox was
\* armed: whatever is posted to an armed mailbox wakes the task.
ArmedWakes ==
  \A t \in Tasks : pc[t] = "wait" /\ ~awake[t] =>
    \A i \in Owned(t) : mail[i] # <<>> => i \in late[t]

\* A task that sleeps in select has no mail.  The code lets mail in between
\* the first look and the arming.
NoSleepOnMail ==
  \A t \in Tasks : pc[t] = "wait" /\ ~awake[t] =>
    \A i \in Owned(t) : mail[i] = <<>>

\* The sending thread does not block: no select holds a mailbox for ever.
SenderGoesOn == \A p \in Posters : routerLock = p ~> routerLock # p

=============================================================================
