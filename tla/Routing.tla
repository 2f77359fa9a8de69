------------------------------- MODULE Routing -------------------------------
(***************************************************************************)
(* The distributed service directory and the routing tables.               *)
(*                                                                         *)
(* Every node floods a ping that carries its starred services.  A ping     *)
(* names its origin, the origin's session number, the last node that       *)
(* relayed it and its distance.  A node that hears of a new session        *)
(* replaces its directory entry for the origin and relays the ping to all  *)
(* its peers but the one it came from; every ping of the current session   *)
(* refines the set of neighbours through which the origin is reached.      *)
(*                                                                         *)
(* Three threads of a node are modelled: application threads that declare  *)
(* and forget services, the directory manager (Router::run) and the kernel *)
(* service (the evt_ping case of Kernel_Service::run).                     *)
(***************************************************************************)
EXTENDS Naturals, FiniteSets

CONSTANTS
  Nodes,         \* the Node_IDs; a process that restarts gets a fresh one
  Services,      \* directory entries a node may declare
  Starred,       \* the entries whose name starts with '*'
  NoHops,        \* the distance of an empty route, uint32_t(-1)
  FirstSessions, \* values the uninitialized m_next_parcel_id may start with
  Wires,         \* bound: the directed pairs a link can connect
  SessionLimit,  \* bound: pings are originated below this session number
  WakeLimit,     \* bound: wake-ups queued for each directory manager
  Crashable,     \* bound: the nodes that may stop
  Failing,       \* bound: the wires whose links and pings may be lost
  Prompt         \* is every ping handled before its session can age out?

ASSUME RoutingAssumption ==
  /\ Starred \subseteq Services
  /\ NoHops \in Nat
  /\ FirstSessions \subseteq Nat
  /\ Wires \subseteq Nodes \X Nodes
  /\ SessionLimit \in [Nodes -> Nat]
  /\ WakeLimit \in [Nodes -> Nat]
  /\ Crashable \subseteq Nodes
  /\ Failing \subseteq Wires
  /\ Prompt \in BOOLEAN

VARIABLES
  alive,    \* alive[n]: the process of node n runs
  peers,    \* peers[n]: the remote nodes of the links registered at n
  next,     \* next[n]: m_next_parcel_id, the source of session numbers
  wakes,    \* wakes[n]: wake-ups waiting in m_wake_mbox
  route,    \* route[n][o]: the Route that n keeps for origin o
  dir,      \* dir[n][o]: the Directory record that n keeps for origin o
  pings,    \* evt_ping messages queued or on a link
  declared  \* history: what the applications of n declared and not forgot

vars == <<alive, peers, next, wakes, route, dir, pings, declared>>

-----------------------------------------------------------------------------

\* A missing map entry and a default-constructed one are not told apart:
\* every lookup in the code is an operator[] that creates the default.
NoRoute == [session |-> 0, hops |-> NoHops, vias |-> {}]
NoDir   == [session |-> 0, services |-> {}]

Route == [session : Nat, hops : Nat, vias : SUBSET Nodes]
Directory == [session : Nat, services : SUBSET Services]
Ping == [dest : Nodes, via : Nodes, origin : Nodes, session : Nat,
         hops : Nat, services : SUBSET Services]

Init ==
  /\ alive = [n \in Nodes |-> TRUE]
  /\ peers = [n \in Nodes |-> {}]
  /\ next \in [Nodes -> FirstSessions]
  /\ wakes = [n \in Nodes |-> 0]
  /\ route = [n \in Nodes |-> [o \in Nodes |-> NoRoute]]
  /\ dir = [n \in Nodes |-> [o \in Nodes |-> NoDir]]
  /\ pings = {}
  /\ declared = [n \in Nodes |-> {}]

-----------------------------------------------------------------------------
(* Links come and go.                                                      *)

LinkUp(n, p) ==
  /\ alive[n] /\ alive[p]
  /\ <<n, p>> \in Wires /\ p \notin peers[n]
  /\ peers' = [peers EXCEPT ![n] = @ \cup {p}]
  /\ UNCHANGED <<alive, next, wakes, route, dir, pings, declared>>

LinkDown(n, p) ==
  /\ <<n, p>> \in Failing \/ ~alive[p]
  /\ alive[n] /\ p \in peers[n]
  /\ peers' = [peers EXCEPT ![n] = @ \ {p}]
  /\ UNCHANGED <<alive, next, wakes, route, dir, pings, declared>>

\* A message that outlives MAX_MESSAGE_AGE in a queue, or that a failing link
\* held, is gone; so is one whose destination or relays have stopped.
Lose(m) ==
  /\ <<m.via, m.dest>> \in Failing \/ ~alive[m.dest] \/ ~alive[m.via]
  /\ m \in pings
  /\ pings' = pings \ {m}
  /\ UNCHANGED <<alive, peers, next, wakes, route, dir, declared>>

Crash(n) ==
  /\ n \in Crashable /\ alive[n]
  /\ alive' = [alive EXCEPT ![n] = FALSE]
  /\ UNCHANGED <<peers, next, wakes, route, dir, pings, declared>>

-----------------------------------------------------------------------------
(* Application threads.                                                    *)

Declare(n, s) ==
  /\ alive[n] /\ wakes[n] < WakeLimit[n]
  /\ s \notin declared[n]
  /\ dir' = [dir EXCEPT ![n][n].services = @ \cup {s}]
  /\ wakes' = [wakes EXCEPT ![n] = @ + 1]
  /\ declared' = [declared EXCEPT ![n] = @ \cup {s}]
  /\ UNCHANGED <<alive, peers, next, route, pings>>

Forget(n, s) ==
  /\ alive[n] /\ wakes[n] < WakeLimit[n]
  /\ s \in declared[n]
  /\ dir' = [dir EXCEPT ![n][n].services = @ \ {s}]
  /\ wakes' = [wakes EXCEPT ![n] = @ + 1]
  /\ declared' = [declared EXCEPT ![n] = @ \ {s}]
  /\ UNCHANGED <<alive, peers, next, route, pings>>

-----------------------------------------------------------------------------
(* The directory manager: one turn of Router::run.                         *)

\* No ping of the recorded session, or of an older one, is still on its way.
Settled(o, session) ==
  \A m \in pings : m.origin = o => m.session > session

\* The entries purge_routes and purge_dir may find too old.  The clock is
\* abstracted: an entry of another node may have any age, except that under
\* Prompt it outlives the pings of its session.
OldRoutes(n) == {o \in Nodes \ {n} : Prompt => Settled(o, route[n][o].session)}

\* Mistake: only what is known of the direct peers grows old.
OldPeerDirs(n) == {o \in peers[n] : Prompt => Settled(o, dir[n][o].session)}

OldDirs(n) == {o \in Nodes \ {n} : Prompt => Settled(o, dir[n][o].session)}

Purged(table, old, none) ==
  [o \in Nodes |-> IF o \in old THEN none ELSE table[o]]

\* Bound: the pings that a manager originates from SessionLimit on are left
\* out.  No table entry depends on the pings of another origin, so this hides
\* later sessions of n and nothing else; the purging goes on.
Originates(n) == next[n] < SessionLimit[n]

\* Mistake: a node that has nothing to tell tells nothing.
OriginatedIfAny(n) ==
  IF dir[n][n].services \cap Starred = {} THEN {} ELSE
  [dest : peers[n], via : {n}, origin : {n}, session : {next[n]},
   hops : {0}, services : {dir[n][n].services \cap Starred}]

Originated(n) ==
  [dest : peers[n], via : {n}, origin : {n}, session : {next[n]},
   hops : {0}, services : {dir[n][n].services \cap Starred}]

\* Mistake: a turn taken on the timeout uses up a wake-up too.
WokenAlways(w) == w - 1

Woken(w) == IF w = 0 THEN 0 ELSE w - 1

\* The turn is taken on a wake-up or when DIRECTORY_PING_RATE has passed.
ManagerTurn(n, oldDirs, oldRoutes) ==
  /\ alive[n]
  /\ wakes' = [wakes EXCEPT ![n] = Woken(@)]
  /\ next' = [next EXCEPT ![n] = IF Originates(n) THEN @ + 1 ELSE @]
  /\ pings' = IF Originates(n) THEN pings \cup Originated(n) ELSE pings
  /\ dir' = [dir EXCEPT ![n] = Purged(@, oldDirs, NoDir)]
  /\ route' = [route EXCEPT ![n] = Purged(@, oldRoutes, NoRoute)]
  /\ UNCHANGED <<alive, peers, declared>>

-----------------------------------------------------------------------------
(* The kernel service: the evt_ping case.                                  *)

\* Router::update_route: its result, and the table entry it leaves.
RouteAccepts(r, m) == m.session >= r.session

\* Mistake: a worse way counts as one more way.
RouteWithAnyVia(r, m) ==
  IF m.session # r.session
  THEN [session |-> m.session, hops |-> m.hops, vias |-> {m.via}]
  ELSE [r EXCEPT !.vias = @ \cup {m.via}]

UpdatedRoute(r, m) ==
  IF m.session # r.session
  THEN [session |-> m.session, hops |-> m.hops, vias |-> {m.via}]
  ELSE IF m.hops < r.hops
  THEN [r EXCEPT !.hops = m.hops, !.vias = {m.via}]
  ELSE IF m.hops = r.hops
  THEN [r EXCEPT !.vias = @ \cup {m.via}]
  ELSE r

\* Router::update_dir: its result, and the directory entry it leaves.
\* Mistake: the session that is known already is taken again.
DirAcceptsSame(d, m) == m.session >= d.session

DirAccepts(d, m) == m.session > d.session

\* Mistake: the services of the session before are not cleared.
MergedDir(d, m) ==
  [session |-> m.session, services |-> d.services \cup m.services]

UpdatedDir(d, m) == [session |-> m.session, services |-> m.services]

\* The ping is mutated (new via, one hop more) and sent to the other peers.
\* Mistake: the sender is looked up after it has been overwritten.
FloodedBack(n, m) ==
  [dest : peers[n] \ {n}, via : {n}, origin : {m.origin},
   session : {m.session}, hops : {m.hops + 1}, services : {m.services}]

Flooded(n, m) ==
  [dest : peers[n] \ {m.via}, via : {n}, origin : {m.origin},
   session : {m.session}, hops : {m.hops + 1}, services : {m.services}]

\* The ping is too old for the routing table: update_dir is not called.
IgnorePing(n, m) ==
  /\ alive[n] /\ m \in pings /\ m.dest = n
  /\ ~RouteAccepts(route[n][m.origin], m)
  /\ pings' = pings \ {m}
  /\ UNCHANGED <<alive, peers, next, wakes, route, dir, declared>>

\* The session is known to the directory: only the route is refined.
RefineRoute(n, m) ==
  /\ alive[n] /\ m \in pings /\ m.dest = n
  /\ RouteAccepts(route[n][m.origin], m)
  /\ ~DirAccepts(dir[n][m.origin], m)
  /\ route' = [route EXCEPT ![n][m.origin] = UpdatedRoute(@, m)]
  /\ pings' = pings \ {m}
  /\ UNCHANGED <<alive, peers, next, wakes, dir, declared>>

\* A new session: take it over and flood it.  Bound: the distance stays below
\* the one of an empty route.
AcceptPing(n, m) ==
  /\ alive[n] /\ m \in pings /\ m.dest = n /\ m.hops + 1 < NoHops
  /\ RouteAccepts(route[n][m.origin], m)
  /\ DirAccepts(dir[n][m.origin], m)
  /\ route' = [route EXCEPT ![n][m.origin] = UpdatedRoute(@, m)]
  /\ dir' = [dir EXCEPT ![n][m.origin] = UpdatedDir(@, m)]
  /\ pings' = (pings \ {m}) \cup Flooded(n, m)
  /\ UNCHANGED <<alive, peers, next, wakes, declared>>

HandlePing(n, m) == IgnorePing(n, m) \/ RefineRoute(n, m) \/ AcceptPing(n, m)

-----------------------------------------------------------------------------

\* DIRECTORY_PING_RATE passes again and again.
ManagerTurns(n) ==
  \E oldDirs \in SUBSET OldDirs(n), oldRoutes \in SUBSET OldRoutes(n) :
    ManagerTurn(n, oldDirs, oldRoutes)

\* The kernel thread reads its mailbox and the link threads pick up what is
\* queued for their peer for as long as the process runs.
KernelTurns(n) == \E m \in pings : HandlePing(n, m)

Next ==
  \/ \E n, p \in Nodes : LinkUp(n, p) \/ LinkDown(n, p)
  \/ \E n \in Nodes : Crash(n)
  \/ \E n \in Nodes, s \in Services : Declare(n, s) \/ Forget(n, s)
  \/ \E n \in Nodes : ManagerTurns(n) \/ KernelTurns(n)
  \/ \E m \in pings : Lose(m)

Spec == Init /\ [][Next]_vars

\* An entry that is not renewed becomes too old.
Purges(n, o) ==
  \E oldDirs \in SUBSET OldDirs(n) : o \in oldDirs /\ ManagerTurn(n, oldDirs, {})

\* A message that nobody fetches is purged from the queue it waits in.
Expires == \E m \in pings : ~alive[m.dest] /\ Lose(m)

Fairness ==
  /\ \A n \in Nodes : WF_vars(ManagerTurns(n)) /\ WF_vars(KernelTurns(n))
  /\ \A n \in Nodes, o \in Crashable : WF_vars(Purges(n, o))
  /\ WF_vars(Expires)

FairSpec == Spec /\ Fairness

-----------------------------------------------------------------------------
(* Properties.                                                             *)

\* Every variable keeps its type.
TypeOK ==
  /\ alive \in [Nodes -> BOOLEAN]
  /\ peers \in [Nodes -> SUBSET Nodes]
  /\ next \in [Nodes -> Nat]
  /\ wakes \in [Nodes -> Nat]
  /\ route \in [Nodes -> [Nodes -> Route]]
  /\ dir \in [Nodes -> [Nodes -> Directory]]
  /\ pings \in SUBSET Ping
  /\ declared \in [Nodes -> SUBSET Services]

\* Router::get_next_msg lets a link to v take a message for node o when v is
\* the destination or one of the vias recorded for it.
CanForward(n, v, o) == v = o \/ v \in route[n][o].vias

\* No set of nodes can hand messages for o around among themselves for ever:
\* in each of them some node forwards only to the outside.
LoopFree ==
  \A o \in Nodes : \A S \in SUBSET (Nodes \ {o}) :
    S # {} => \E n \in S : \A v \in S : ~CanForward(n, v, o)

\* Two nodes that hold the same session of an origin hold the same services,
\* whichever way and in whatever order the pings reached them.
SessionsAgree ==
  \A o \in Nodes : \A n1, n2 \in Nodes \ {o} :
    /\ dir[n1][o].session = dir[n2][o].session
    /\ dir[n1][o] # NoDir /\ dir[n2][o] # NoDir
    => dir[n1][o].services = dir[n2][o].services

\* A flood dies out: a ping is relayed at most once by each node, the origin
\* included, before every directory that it can reach knows its session.
FloodDiesOut == \A m \in pings : m.hops <= Cardinality(Nodes)

\* What the applications of a node declared stays in its own directory entry,
\* the one it floods, until they forget it.
DeclaredKept == \A n \in Nodes : declared[n] \subseteq dir[n][n].services

\* What the applications of a node have forgotten does not come back to its
\* own directory entry.
ForgottenGone == \A n \in Nodes : dir[n][n].services \subseteq declared[n]

\* Where no cycle of links exists both hold.
OwnServicesKept == DeclaredKept /\ ForgottenGone

\* Where all the links are up and none fails, the next session of a node
\* reaches every other node's directory, unless a node stops first.
AllUp == \A w \in Wires : w[2] \in peers[w[1]]

FloodReaches ==
  \A o, n \in Nodes : \A s \in 1 .. SessionLimit[o] - 1 :
    (o # n /\ AllUp /\ next[o] = s)
      ~> (dir[n][o].session >= s \/ \E x \in Nodes : ~alive[x])

\* A node that has stopped vanishes for good from the directories of the
\* nodes that keep running.
StoppedVanish ==
  \A o, n \in Nodes :
    (o # n /\ ~alive[o]) ~> (alive[n] => [](dir[n][o] = NoDir))

-----------------------------------------------------------------------------
(* Why no message for o goes round in circles.  Order the places at which    *)
(* o can be known by session first and by nearness second.  Whoever is named *)
(* as a via stays ahead of what it is named for, or has dropped its route    *)
(* when nothing of that session or of an older one was left on its way.      *)

Ahead(v, o, session, hops) ==
  \/ v = o
  \/ route[v][o].session > session
  \/ route[v][o].session = session /\ route[v][o].hops < hops
  \/ route[v][o] = NoRoute /\ Settled(o, session)

\* What is known of an origin is older than its next session.
Known ==
  /\ \A m \in pings : m.session < next[m.origin]
  /\ \A n, o \in Nodes :
       route[n][o] # NoRoute => route[n][o].session < next[o]
  /\ \A o \in Nodes : \A n \in Nodes \ {o} :
       dir[n][o] # NoDir => dir[n][o].session \in 1 .. next[o] - 1

PingsAhead == \A m \in pings : Ahead(m.via, m.origin, m.session, m.hops)

ViasAhead ==
  \A o \in Nodes : \A n \in Nodes \ {o} : \A v \in route[n][o].vias :
    Ahead(v, o, route[n][o].session, route[n][o].hops)

\* A session of an origin has one content, in every ping and directory.
OneContent ==
  /\ \A m1, m2 \in pings :
       m1.origin = m2.origin /\ m1.session = m2.session
         => m1.services = m2.services
  /\ \A m \in pings : \A n \in Nodes \ {m.origin} :
       dir[n][m.origin] # NoDir /\ dir[n][m.origin].session = m.session
         => dir[n][m.origin].services = m.services

=============================================================================
