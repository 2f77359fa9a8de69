--------------------------------- MODULE Farm ---------------------------------
(***************************************************************************)
(* The task farm of an application, and the workers it farms its jobs out  *)
(* to.                                                                     *)
(*                                                                         *)
(* A farm knows its workers by the services of a common prefix in the      *)
(* directory.  It hands each of them a limited number of jobs, takes jobs  *)
(* back that are not answered in time or whose worker has left, and hands  *)
(* them out again.  The application starts over with a new farm and a new  *)
(* reply mailbox.  A job is one message that is sent again and again: the  *)
(* farm writes the worker and a key into it while earlier references to it *)
(* may still wait in the outgoing queue or in a local mailbox.             *)
(***************************************************************************)
EXTENDS Naturals, Sequences, SequencesExt, FiniteSets

CONSTANTS
  Workers,     \* the Net_IDs of the workers, ordered as in the std::map
  Jobs,        \* Jobs[r]: how many jobs the r-th farm has; bound: its length
  JobLimit,    \* m_job_limit
  LossLimit,   \* bound: messages that are lost
  SlowLimit,   \* bound: jobs taken back though an answer is on its way
  ChangeLimit  \* bound: changes of the census

ASSUME FarmAssumption ==
  /\ Workers \subseteq Nat /\ IsFiniteSet(Workers)
  /\ Jobs \in Seq(Nat \ {0}) /\ Jobs # <<>>
  /\ JobLimit \in Nat \ {0}
  /\ {LossLimit, SlowLimit, ChangeLimit} \subseteq Nat

VARIABLES
  farm,    \* the members of the Farm, its jobs and the references to them
  round,   \* how many farms the application has made
  box,     \* its reply mailbox, m_select[select_reply]
  census,  \* the workers that Router::enquire finds
  replies, \* replies on their way, or in the mailbox they are for
  used,    \* history: used[m]: how many replies to m were used
  losses, slow, changes \* how far the bounds are used up

vars == <<farm, round, box, census, replies, used, losses, slow, changes>>

\* The job messages: each farm has its own.
JobsOf(r) == [j \in 1 .. Jobs[r] |-> <<r, j>>]

Msgs == UNION {ToSet(JobsOf(r)) : r \in DOMAIN Jobs}

\* The elements of S, each where as many come before it as precede it.
Sorted(S, Before(_, _)) ==
  [n \in 1 .. Cardinality(S) |->
     CHOOSE x \in S : Cardinality({y \in S : Before(y, x)}) = n - 1]

\* What the sequence s has at the places S, in its order.
AtPlaces(s, S) ==
  LET order == Sorted(S, <)
  IN  [n \in 1 .. Cardinality(S) |-> s[order[n]]]

\* The order of pairs: by their first component, then by their second.
Earlier(c, d) == c[1] < d[1] \/ (c[1] = d[1] /\ c[2] < d[2])

\* What a farm has written into a job.
Body == [worker : Workers \cup {0}, key : Nat, reply : Nat]
NoBody == [worker |-> 0, key |-> 0, reply |-> 0]

\* Farm::Farm and the add_job calls of reset.
NewFarm(f, r) ==
  [f EXCEPT !.ready = JobsOf(r), !.workers = <<>>, !.assigned = <<>>, !.key = 0]

\* ready is m_jobs_ready, workers m_workers, assigned m_jobs_assigned (the
\* tickets of each worker) and key m_job_key.  body[m] is seen through every
\* reference to m; pending are those that no worker has fetched yet, each with
\* the key it was sent with.
Init ==
  /\ farm = NewFarm([ready |-> <<>>, workers |-> <<>>, assigned |-> <<>>,
                     key |-> 0, body |-> [m \in Msgs |-> NoBody],
                     pending |-> {}], 1)
  /\ round = 1 /\ box = 1
  /\ census \in SUBSET Workers
  /\ replies = {}
  /\ used = [m \in Msgs |-> 0]
  /\ losses = 0 /\ slow = 0 /\ changes = 0

-----------------------------------------------------------------------------
(* Handing out jobs.                                                        *)

\* m_jobs_assigned[w], which makes an empty list where there is none.
Tickets(f, w) == IF w \in DOMAIN f.assigned THEN f.assigned[w] ELSE <<>>

\* Farm::dispatch for the first jobs that are ready, the next of them to the
\* next of the workers ws, as far as jobs and workers go.
Dispatched(f, ws, reply) ==
  LET n == IF Len(ws) < Len(f.ready) THEN Len(ws) ELSE Len(f.ready)
      Given(w) == {i \in 1 .. n : ws[i] = w}
      At(m) == {i \in 1 .. n : f.ready[i] = m}
  IN  [f EXCEPT
        !.ready = SubSeq(@, n + 1, Len(@)),
        !.assigned = [w \in DOMAIN @ \cup {ws[i] : i \in 1 .. n} |->
                        Tickets(f, w) \o AtPlaces(f.ready, Given(w))],
        !.body = [m \in Msgs |->
                    IF At(m) = {} THEN @[m]
                    ELSE LET i == CHOOSE i \in At(m) : TRUE
                         IN  [worker |-> ws[i], key |-> f.key + i - 1, reply |-> reply]],
        !.key = @ + n,
        !.pending = @ \cup {<<f.ready[i], f.key + i - 1>> : i \in 1 .. n}]

\* assign_work always chooses the worker with the fewest tickets below the
\* limit, the first such in the map: it fills places in the order of these
\* pairs.  Only workers with an entry in m_jobs_assigned have any.
\* Mistake: a worker may be one above the limit.
PlacesAbove(f) ==
  {c \in (0 .. JobLimit) \X DOMAIN f.assigned : Len(f.assigned[c[2]]) <= c[1]}

Places(f) ==
  {c \in (0 .. JobLimit - 1) \X DOMAIN f.assigned : Len(f.assigned[c[2]]) <= c[1]}

Chosen(f) ==
  LET order == Sorted(Places(f), Earlier)
  IN  [i \in 1 .. Cardinality(Places(f)) |-> order[i][2]]

-----------------------------------------------------------------------------
(* Farm::refresh.                                                           *)

InOrder(ws) == Sorted(ws, <)

\* restart: each job whose ticket is too old goes to the front, worker by worker
\* and ticket by ticket.
\* Mistake: tickets do not grow old.
RestartedNone(f, old) == f

Restarted(f, old) ==
  LET IsOld(w) == {i \in 1 .. Len(f.assigned[w]) : f.assigned[w][i] \in old}
      late == UNION {{w} \X IsOld(w) : w \in DOMAIN f.assigned}
      order == Sorted(late, LAMBDA c, d : Earlier(d, c))
  IN  [f EXCEPT
        !.ready = [n \in 1 .. Cardinality(late) |->
                     f.assigned[order[n][1]][order[n][2]]] \o @,
        !.assigned = [w \in DOMAIN @ |->
                        AtPlaces(@[w], (1 .. Len(@[w])) \ IsOld(w))]]

\* leavers: the jobs of a worker that has left are ready again, at the end.
\* Mistake: a worker that leaves takes its jobs along.
DepartedWithJobs(f, present) ==
  [f EXCEPT !.workers = AtPlaces(@, {i \in 1 .. Len(@) : @[i] \in present}),
            !.assigned = [w \in DOMAIN @ \cap present |-> @[w]]]

Departed(f, present) ==
  LET gone == {i \in 1 .. Len(f.workers) : f.workers[i] \notin present}
      theirs == UNION {{i} \X (1 .. Len(Tickets(f, f.workers[i]))) : i \in gone}
      order == Sorted(theirs, Earlier)
  IN  [f EXCEPT
        !.workers = AtPlaces(@, (1 .. Len(@)) \ gone),
        !.ready = @ \o [n \in 1 .. Cardinality(theirs) |->
                          f.assigned[f.workers[order[n][1]]][order[n][2]]],
        !.assigned = [w \in DOMAIN @ \ {f.workers[i] : i \in gone} |-> @[w]]]

\* joiners: a worker that has come is handed one job, if one is ready.  If none
\* is, it gets no entry in m_jobs_assigned.
Joiners(f, present) == InOrder(present \ ToSet(f.workers))

Joined(f, new, reply) == [Dispatched(f, new, reply) EXCEPT !.workers = @ \o new]

\* A ticket whose answer will not come any more.
Dead(m) ==
  /\ \A p \in farm.pending : p[1] # m
  /\ \A r \in replies : r.msg # m \/ r.key # farm.body[m].key

Assigned == UNION {ToSet(farm.assigned[w]) : w \in DOMAIN farm.assigned}

\* The timer has come, m_timeout has passed for the tickets old.
Refresh(old) ==
  /\ LET early == {m \in old : ~Dead(m)} IN
     /\ slow + Cardinality(early) <= SlowLimit
     /\ slow' = slow + Cardinality(early)
  /\ \E f \in {Departed(Restarted(farm, old), census)} :
     \E new \in {Joiners(f, census)} :
     \E g \in {Joined(f, new, box)} :
     \E ws \in {Chosen(g)} : farm' = Dispatched(g, ws, box)
  /\ UNCHANGED <<round, box, census, replies, used, losses, changes>>

-----------------------------------------------------------------------------
(* A reply: validate_job, use it, complete_job.                             *)

\* The tickets that a reply can be for: by its worker and by its key.
Matching(f, r) ==
  {i \in 1 .. Len(Tickets(f, r.worker)) :
     f.body[Tickets(f, r.worker)[i]].key = r.key}

\* The ticket goes, the worker is handed another job.
Completed(f, r) ==
  LET i == CHOOSE i \in Matching(f, r) : TRUE
  IN  Dispatched([f EXCEPT !.assigned[r.worker] = RemoveAt(@, i)], <<r.worker>>, box)

TakeReply(r) ==
  /\ r \in replies /\ r.box = box
  /\ IF Matching(farm, r) = {} THEN UNCHANGED <<farm, used>>
     ELSE /\ farm' = Completed(farm, r)
          /\ used' = [used EXCEPT ![r.msg] = @ + 1]
  /\ replies' = replies \ {r}
  /\ UNCHANGED <<round, box, census, losses, slow, changes>>

-----------------------------------------------------------------------------
(* The application starts over.                                             *)

\* Mistake: the reply mailbox is used for the next farm as well.
SameBox(b) == b

\* Router::free and Router::alloc.
NewBox(b) == b + 1

\* The new farm knows no workers yet: its assign_work does nothing.
Reset ==
  /\ round < Len(Jobs)
  /\ round' = round + 1
  /\ box' = NewBox(box)
  /\ farm' = NewFarm(farm, round + 1)
  /\ UNCHANGED <<census, replies, used, losses, slow, changes>>

-----------------------------------------------------------------------------
(* The workers.                                                             *)

\* A worker, or the link to it, fetches a job, with what is in it by now; its
\* answer names the worker and the key and goes to the mailbox it found there.
Work(p) ==
  /\ p \in farm.pending
  /\ farm' = [farm EXCEPT !.pending = @ \ {p}]
  /\ LET b == farm.body[p[1]] IN
     replies' = replies \cup {[msg |-> p[1], sent |-> p[2], worker |-> b.worker,
                               key |-> b.key, box |-> b.reply]}
  /\ UNCHANGED <<round, box, census, used, losses, slow, changes>>

\* A job on its way to a worker is lost, or its worker ends before it answers.
LoseJob(p) ==
  /\ p \in farm.pending
  /\ \/ losses < LossLimit /\ losses' = losses + 1
     \/ farm.body[p[1]].worker \notin census /\ UNCHANGED losses
  /\ farm' = [farm EXCEPT !.pending = @ \ {p}]
  /\ UNCHANGED <<round, box, census, replies, used, slow, changes>>

\* A reply is lost, or finds no mailbox.
LoseReply(r) ==
  /\ r \in replies
  /\ \/ r.box = box /\ losses < LossLimit /\ losses' = losses + 1
     \/ r.box # box /\ UNCHANGED losses
  /\ replies' = replies \ {r}
  /\ UNCHANGED <<farm, round, box, census, used, slow, changes>>

\* A worker declares its service or forgets it, is heard of or is purged.
Change(w) ==
  /\ changes < ChangeLimit
  /\ changes' = changes + 1
  /\ census' = IF w \in census THEN census \ {w} ELSE census \cup {w}
  /\ UNCHANGED <<farm, round, box, replies, used, losses, slow>>

-----------------------------------------------------------------------------

Working == \E p \in farm.pending : Work(p) \/ LoseJob(p)

Replying == \E r \in replies : TakeReply(r) \/ LoseReply(r)

Refreshing == \E old \in SUBSET Assigned : Refresh(old)

Next ==
  \/ Working \/ Replying \/ Refreshing \/ Reset
  \/ \E w \in Workers : Change(w)

Spec == Init /\ [][Next]_vars

\* The timer is started again each time.  What will not be answered becomes too
\* old, and only SlowLimit times something else does.
LateRefresh == Refresh({m \in Assigned : Dead(m)})

\* Everything comes to an end, so it is enough that somebody goes on who can.
Advance == Working \/ Replying \/ LateRefresh

FairSpec == Spec /\ WF_vars(Advance)

-----------------------------------------------------------------------------
(* Properties.                                                             *)

\* Every variable keeps its type, and no worker has more tickets than it may.
TypeOK ==
  /\ farm.ready \in Seq(Msgs) /\ farm.workers \in Seq(Workers)
  /\ DOMAIN farm.assigned \subseteq Workers
  /\ \A w \in DOMAIN farm.assigned :
       farm.assigned[w] \in Seq(Msgs) /\ Len(farm.assigned[w]) <= JobLimit
  /\ farm.key \in Nat
  /\ farm.body \in [Msgs -> Body] /\ farm.pending \subseteq Msgs \X Nat
  /\ round \in DOMAIN Jobs /\ box \in Nat
  /\ census \subseteq Workers
  /\ replies \subseteq [msg : Msgs, sent : Nat, worker : Workers, key : Nat, box : Nat]
  /\ used \in [Msgs -> Nat]
  /\ losses \in 0 .. LossLimit /\ slow \in 0 .. SlowLimit /\ changes \in 0 .. ChangeLimit

\* A job of the present farm is ready, has a ticket or is done, and only one
\* of these, once: whatever is lost, late, doubled or left behind, no job is
\* forgotten, and no reply is used a second time.
OneFate ==
  \A m \in ToSet(JobsOf(round)) :
    LET inReady == {i \in 1 .. Len(farm.ready) : farm.ready[i] = m}
        inTickets == {x \in Workers \X (1 .. JobLimit) :
                        x[1] \in DOMAIN farm.assigned /\ x[2] \in 1 .. Len(farm.assigned[x[1]])
                          /\ farm.assigned[x[1]][x[2]] = m}
    IN  Cardinality(inReady) + Cardinality(inTickets) + used[m] = 1

\* A reply is used only if it retires the ticket of the very job that it
\* answers, one of the present farm.
RightTicket ==
  [][\A m \in Msgs : used'[m] # used[m] =>
       m[1] = round /\ m \in Assigned /\ m \notin Assigned']_vars

\* All jobs get done, or the farm ends up without a worker that it uses.
DoneOrAlone ==
  <>[](\/ \A m \in ToSet(JobsOf(round)) : used[m] = 1
       \/ DOMAIN farm.assigned = {})

\* All jobs get done, or no workers are left.  This is more than the code keeps:
\* a worker that joins when no job is ready is in no entry of m_jobs_assigned
\* and is never used (farm.cpp, add_worker and assign_work).
KeepsGoing ==
  <>[](\/ \A m \in ToSet(JobsOf(round)) : used[m] = 1
       \/ census = {})

=============================================================================
