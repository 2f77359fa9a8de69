--------------------------- MODULE RoutingProofs ---------------------------
(***************************************************************************)
(* Proofs about the module Routing, for every network: any set of nodes,   *)
(* any links, any bound on sessions, any loss and any crash.               *)
(***************************************************************************)
EXTENDS Routing, Sequences, TLAPS, WellFoundedInduction, FiniteSetTheorems

-----------------------------------------------------------------------------
(* Types.                                                                  *)

\* The routing table entry that a ping leaves is a Route (update_route).
LEMMA UpdatedRouteType ==
  ASSUME NEW r \in Route, NEW m \in Ping
  PROVE  UpdatedRoute(r, m) \in Route
BY DEF UpdatedRoute, Route, Ping

\* The messages a node floods are pings, whether it is the origin
\* (Router::run) or passes another node's ping on (evt_ping).
LEMMA FloodType ==
  ASSUME TypeOK, NEW n \in Nodes
  PROVE  /\ Originated(n) \in SUBSET Ping
         /\ \A m \in pings : Flooded(n, m) \in SUBSET Ping
BY DEF TypeOK, Originated, Flooded, Ping, Directory

\* Purging a table leaves a table.
LEMMA PurgedType ==
  ASSUME NEW T, NEW none \in T, NEW table \in [Nodes -> T], NEW old
  PROVE  Purged(table, old, none) \in [Nodes -> T]
BY DEF Purged

\* The default-constructed entries of both tables are entries.
LEMMA NoneType == NoRoute \in Route /\ NoDir \in Directory
BY RoutingAssumption DEF NoRoute, NoDir, Route, Directory

\* Every reachable state of the tables, queues and counters is well typed.
THEOREM TypeCorrect == Spec => []TypeOK
<1>1. Init => TypeOK
  <2> SUFFICES ASSUME Init PROVE TypeOK
    OBVIOUS
  <2>1. next \in [Nodes -> Nat]
    BY RoutingAssumption DEF Init
  <2>2. route \in [Nodes -> [Nodes -> Route]] /\ dir \in [Nodes -> [Nodes -> Directory]]
    BY NoneType DEF Init
  <2>3. alive \in [Nodes -> BOOLEAN]
    BY Zenon DEF Init
  <2> QED
    BY <2>1, <2>2, <2>3 DEF Init, TypeOK
<1>2. TypeOK /\ [Next]_vars => TypeOK'
  <2> SUFFICES ASSUME TypeOK, [Next]_vars PROVE TypeOK'
    OBVIOUS
  <2>1. ASSUME NEW n \in Nodes, NEW p \in Nodes, LinkUp(n, p)
        PROVE  TypeOK'
    BY <2>1 DEF LinkUp, TypeOK
  <2>2. ASSUME NEW n \in Nodes, NEW p \in Nodes, LinkDown(n, p)
        PROVE  TypeOK'
    BY <2>2 DEF LinkDown, TypeOK
  <2>3. ASSUME NEW n \in Nodes, Crash(n)
        PROVE  TypeOK'
    <3>1. alive' \in [Nodes -> BOOLEAN]
      BY <2>3 DEF Crash, TypeOK
    <3> QED
      BY <2>3, <3>1 DEF Crash, TypeOK
  <2>4. ASSUME NEW n \in Nodes, NEW s \in Services, Declare(n, s)
        PROVE  TypeOK'
    <3> DEFINE entry == [dir[n][n] EXCEPT !.services = @ \cup {s}]
    <3>0. dir[n][n] \in Directory
      BY DEF TypeOK
    <3>1. entry \in Directory
      BY <3>0 DEF Directory
    <3>2. dir' = [dir EXCEPT ![n] = [dir[n] EXCEPT ![n] = entry]]
      BY <2>4 DEF Declare
    <3>3. dir' \in [Nodes -> [Nodes -> Directory]]
      BY <3>1, <3>2 DEF TypeOK
    <3>4. wakes' \in [Nodes -> Nat]
      BY <2>4 DEF Declare, TypeOK
    <3>5. declared' \in [Nodes -> SUBSET Services]
      BY <2>4 DEF Declare, TypeOK
    <3> QED
      BY <2>4, <3>3, <3>4, <3>5 DEF Declare, TypeOK
  <2>5. ASSUME NEW n \in Nodes, NEW s \in Services, Forget(n, s)
        PROVE  TypeOK'
    <3> DEFINE entry == [dir[n][n] EXCEPT !.services = @ \ {s}]
    <3>0. dir[n][n] \in Directory
      BY DEF TypeOK
    <3>1. entry \in Directory
      BY <3>0 DEF Directory
    <3>2. dir' = [dir EXCEPT ![n] = [dir[n] EXCEPT ![n] = entry]]
      BY <2>5 DEF Forget
    <3>3. dir' \in [Nodes -> [Nodes -> Directory]]
      BY <3>1, <3>2 DEF TypeOK
    <3>4. wakes' \in [Nodes -> Nat]
      BY <2>5 DEF Forget, TypeOK
    <3>5. declared' \in [Nodes -> SUBSET Services]
      BY <2>5 DEF Forget, TypeOK
    <3> QED
      BY <2>5, <3>3, <3>4, <3>5 DEF Forget, TypeOK
  <2>6. ASSUME NEW n \in Nodes, NEW oldDirs, NEW oldRoutes,
               ManagerTurn(n, oldDirs, oldRoutes)
        PROVE  TypeOK'
    <3>1. pings' \in SUBSET Ping
      BY <2>6, FloodType DEF ManagerTurn, TypeOK
    <3>2. dir' \in [Nodes -> [Nodes -> Directory]]
      BY <2>6, PurgedType, NoneType DEF ManagerTurn, TypeOK
    <3>3. route' \in [Nodes -> [Nodes -> Route]]
      BY <2>6, PurgedType, NoneType DEF ManagerTurn, TypeOK
    <3>4. next' \in [Nodes -> Nat] /\ wakes' \in [Nodes -> Nat]
      BY <2>6 DEF ManagerTurn, TypeOK, Woken
    <3> QED
      BY <2>6, <3>1, <3>2, <3>3, <3>4 DEF ManagerTurn, TypeOK
  <2>7. ASSUME NEW n \in Nodes, NEW m \in pings, IgnorePing(n, m)
        PROVE  TypeOK'
    BY <2>7 DEF IgnorePing, TypeOK
  <2>8. ASSUME NEW n \in Nodes, NEW m \in pings, RefineRoute(n, m)
        PROVE  TypeOK'
    <3>1. m \in Ping /\ m.origin \in Nodes
      BY DEF TypeOK, Ping
    <3>2. route' \in [Nodes -> [Nodes -> Route]]
      BY <2>8, <3>1, UpdatedRouteType DEF RefineRoute, TypeOK
    <3> QED
      BY <2>8, <3>2 DEF RefineRoute, TypeOK
  <2>9. ASSUME NEW n \in Nodes, NEW m \in pings, AcceptPing(n, m)
        PROVE  TypeOK'
    <3>1. m \in Ping /\ m.origin \in Nodes
      BY DEF TypeOK, Ping
    <3>2. route' \in [Nodes -> [Nodes -> Route]]
      BY <2>9, <3>1, UpdatedRouteType DEF AcceptPing, TypeOK
    <3>3. UpdatedDir(dir[n][m.origin], m) \in Directory
      BY <3>1 DEF UpdatedDir, Directory, Ping
    <3>4. dir' \in [Nodes -> [Nodes -> Directory]]
      BY <2>9, <3>1, <3>3 DEF AcceptPing, TypeOK
    <3>5. pings' \in SUBSET Ping
      BY <2>9, FloodType DEF AcceptPing, TypeOK
    <3> QED
      BY <2>9, <3>2, <3>4, <3>5 DEF AcceptPing, TypeOK
  <2>10. ASSUME NEW m \in pings, Lose(m)
        PROVE  TypeOK'
    BY <2>10 DEF Lose, TypeOK
  <2>11. ASSUME UNCHANGED vars
         PROVE  TypeOK'
    BY <2>11 DEF vars, TypeOK
  <2> QED
    BY <2>1, <2>2, <2>3, <2>4, <2>5, <2>6, <2>7, <2>8, <2>9, <2>10, <2>11
    DEF Next, ManagerTurns, KernelTurns, HandlePing
<1> QED
  BY <1>1, <1>2, PTL DEF Spec

-----------------------------------------------------------------------------
(* Nobody falls behind.  The three lemmas say for each kind of step that a *)
(* node which is ahead of a session and a distance stays ahead of them.    *)

\* Steps that change no route and let no ping into the network.
LEMMA AheadQuiet ==
  ASSUME NEW v, NEW o, NEW s, NEW h, Ahead(v, o, s, h),
         route' = route, pings' \subseteq pings
  PROVE  Ahead(v, o, s, h)'
BY DEF Ahead, Settled

\* A directory manager's turn: what it drops is settled, and what it sends
\* is of a session that nobody knows yet.
LEMMA AheadTurn ==
  ASSUME TypeOK, Prompt,
         NEW n \in Nodes, NEW oldDirs, NEW oldRoutes \in SUBSET OldRoutes(n),
         ManagerTurn(n, oldDirs, oldRoutes),
         NEW v \in Nodes, NEW o \in Nodes, NEW s \in Nat, NEW h \in Nat,
         s < next[o], Ahead(v, o, s, h)
  PROVE  Ahead(v, o, s, h)'
<1>1. \A m \in pings' : m \in pings \/ (m.origin = n /\ m.session = next[n])
  BY DEF ManagerTurn, Originated
<1>2. Settled(o, s) => Settled(o, s)'
  BY <1>1 DEF Settled
<1>3. CASE v = o
  BY <1>3 DEF Ahead
<1>4. CASE v # o /\ v = n /\ o \in oldRoutes
  <2>1. route'[v][o] = NoRoute
    BY <1>4 DEF ManagerTurn, Purged, TypeOK
  <2>2. Settled(o, route[v][o].session)
    BY <1>4 DEF OldRoutes
  <2>3. route[v][o].session \in Nat /\ \A m \in pings : m.session \in Nat
    BY DEF TypeOK, Route, Ping
  <2>4. Settled(o, s)
    BY <1>4, <2>2, <2>3 DEF Ahead, Settled
  <2> QED
    BY <1>2, <2>1, <2>4 DEF Ahead
<1>5. CASE v # o /\ ~(v = n /\ o \in oldRoutes)
  <2>1. route'[v][o] = route[v][o]
    BY <1>5 DEF ManagerTurn, Purged, TypeOK
  <2> QED
    BY <1>2, <2>1 DEF Ahead
<1> QED
  BY <1>3, <1>4, <1>5

\* A ping that is accepted (update_route) leaves a route of its session that
\* is as near as the ping at least.
LEMMA RouteRefined ==
  ASSUME NEW r \in Route, NEW m \in Ping, RouteAccepts(r, m)
  PROVE  LET u == UpdatedRoute(r, m)
         IN  /\ u.session = m.session
             /\ u.hops \in Nat /\ u.hops <= m.hops
             /\ m.session = r.session => u.hops <= r.hops
             /\ \A v \in u.vias :
                  \/ v = m.via /\ u.hops = m.hops
                  \/ v \in r.vias /\ u.session = r.session /\ u.hops = r.hops
BY DEF RouteAccepts, UpdatedRoute, Route, Ping

\* The evt_ping case of the kernel service, after update_route.
Refines(n, m) ==
  /\ RouteAccepts(route[n][m.origin], m)
  /\ route' = [route EXCEPT ![n][m.origin] = UpdatedRoute(@, m)]
  /\ pings' \subseteq pings \cup Flooded(n, m)
  /\ next' = next

LEMMA AheadRefines ==
  ASSUME TypeOK, NEW n \in Nodes, NEW m \in pings, Refines(n, m),
         NEW v \in Nodes, NEW o \in Nodes, NEW s \in Nat, NEW h \in Nat,
         Ahead(v, o, s, h)
  PROVE  Ahead(v, o, s, h)'
<1> DEFINE r == route[v][o]
<1>1. /\ m \in Ping /\ m.origin \in Nodes /\ m.session \in Nat /\ m.hops \in Nat
      /\ r \in Route /\ r.session \in Nat /\ r.hops \in Nat
  BY DEF TypeOK, Ping, Route
<1>2. Settled(o, s) => Settled(o, s)'
  BY <1>1 DEF Refines, Settled, Flooded
<1>3. CASE v = n /\ o = m.origin
  <2> DEFINE u == UpdatedRoute(r, m)
  <2>1. route'[v][o] = u
    BY <1>1, <1>3 DEF Refines, TypeOK
  <2>2. RouteAccepts(r, m)
    BY <1>3 DEF Refines
  <2>3. /\ u.session = m.session /\ u.hops \in Nat
        /\ m.session = r.session => u.hops <= r.hops
    BY <1>1, <2>2, RouteRefined
  <2>4. m.session >= r.session
    BY <2>2 DEF RouteAccepts
  <2>5. CASE v = o
    BY <2>5 DEF Ahead
  <2>6. CASE r.session > s
    <3>1. u.session > s
      BY <1>1, <2>3, <2>4, <2>6
    <3> QED
      BY <2>1, <3>1 DEF Ahead
  <2>7. CASE r.session = s /\ r.hops < h
    <3>1. u.session > s \/ (u.session = s /\ u.hops < h)
      BY <1>1, <2>3, <2>4, <2>7
    <3> QED
      BY <2>1, <3>1 DEF Ahead
  <2>8. CASE Settled(o, s)
    <3>1. u.session > s
      BY <1>3, <2>3, <2>8 DEF Settled
    <3> QED
      BY <2>1, <3>1 DEF Ahead
  <2> QED
    BY <2>5, <2>6, <2>7, <2>8 DEF Ahead
<1>4. CASE ~(v = n /\ o = m.origin)
  <2>1. route'[v][o] = route[v][o]
    BY <1>1, <1>4 DEF Refines, TypeOK
  <2> QED
    BY <1>2, <2>1 DEF Ahead
<1> QED
  BY <1>3, <1>4

-----------------------------------------------------------------------------
(* The inductive invariant: TypeOK alone says too little about who is ahead,*)
(* and who is ahead depends on what is known of each session.               *)

IInv ==
  /\ TypeOK
  /\ Known /\ PingsAhead /\ ViasAhead
  /\ OneContent /\ SessionsAgree

\* A node with a via for o has a route for o (update_route inserts the via
\* of a ping whose session it records).
LEMMA ViaKnown ==
  ASSUME IInv, NEW n \in Nodes, NEW o \in Nodes, NEW v \in route[n][o].vias
  PROVE  /\ v \in Nodes
         /\ route[n][o].session \in Nat /\ route[n][o].hops \in Nat
         /\ route[n][o].session < next[o]
<1>1. route[n][o] \in Route
  BY DEF IInv, TypeOK
<1>2. route[n][o] # NoRoute
  BY DEF NoRoute
<1> QED
  BY <1>1, <1>2 DEF IInv, Known, Route

\* Steps that change no route, no session and no entry of another node.
LEMMA QuietStep ==
  ASSUME IInv, TypeOK', route' = route, next' = next, pings' \subseteq pings,
         \A o \in Nodes : \A n \in Nodes \ {o} : dir'[n][o] = dir[n][o]
  PROVE  IInv'
<1>1. \A m \in pings : m \in Ping
  BY DEF IInv, TypeOK
<1>2. Known'
  BY DEF IInv, Known
<1>3. PingsAhead'
  BY AheadQuiet DEF IInv, PingsAhead
<1>4. ViasAhead'
  BY AheadQuiet DEF IInv, ViasAhead
<1>5. OneContent'
  BY <1>1 DEF IInv, OneContent, Ping
<1>6. SessionsAgree'
  BY DEF IInv, SessionsAgree
<1> QED
  BY <1>2, <1>3, <1>4, <1>5, <1>6 DEF IInv

\* One turn of Router::run.
LEMMA TurnStep ==
  ASSUME IInv, TypeOK', Prompt,
         NEW n \in Nodes, NEW oldDirs \in SUBSET OldDirs(n),
         NEW oldRoutes \in SUBSET OldRoutes(n),
         ManagerTurn(n, oldDirs, oldRoutes)
  PROVE  IInv'
<1> USE DEF IInv
<1>1. \A m \in pings' :
        \/ m \in pings
        \/ m \in Originated(n) /\ next'[n] = next[n] + 1
  BY DEF ManagerTurn, TypeOK
<1>2. \A m \in Originated(n) :
        /\ m.via = n /\ m.origin = n /\ m.session = next[n]
        /\ m.services = dir[n][n].services \cap Starred
  BY DEF Originated
<1>3. \A o \in Nodes : next[o] \in Nat /\ next'[o] \in Nat /\ next'[o] >= next[o]
  BY DEF ManagerTurn, TypeOK
<1>4. \A x, o \in Nodes : route'[x][o] = NoRoute \/ route'[x][o] = route[x][o]
  BY DEF ManagerTurn, TypeOK, Purged
<1>5. \A x, o \in Nodes : dir'[x][o] = NoDir \/ dir'[x][o] = dir[x][o]
  BY DEF ManagerTurn, TypeOK, Purged
<1>6. \A m \in pings : /\ m \in Ping /\ m.via \in Nodes /\ m.origin \in Nodes
                       /\ m.session \in Nat /\ m.hops \in Nat
                       /\ m.session < next[m.origin]
  BY DEF TypeOK, Ping, Known
<1>7. \A x, o \in Nodes : /\ route[x][o].session \in Nat
                          /\ dir[x][o].session \in Nat
  BY DEF TypeOK, Route, Directory
<1>8. Known'
  <2>1. \A m \in pings' : m.session < next'[m.origin]
    BY <1>1, <1>2, <1>3, <1>6
  <2>2. \A x, o \in Nodes :
          route'[x][o] # NoRoute => route'[x][o].session < next'[o]
    BY <1>3, <1>4, <1>7 DEF Known
  <2>3. \A o \in Nodes : \A x \in Nodes \ {o} :
          dir'[x][o] # NoDir => dir'[x][o].session \in 1 .. next'[o] - 1
    BY <1>3, <1>5, <1>7 DEF Known
  <2> QED
    BY <2>1, <2>2, <2>3 DEF Known
<1>9. PingsAhead'
  <2> SUFFICES ASSUME NEW m \in pings'
               PROVE  Ahead(m.via, m.origin, m.session, m.hops)'
    BY DEF PingsAhead
  <2>1. CASE m \in pings
    BY <2>1, <1>6, AheadTurn DEF PingsAhead
  <2>2. CASE m \in Originated(n)
    BY <2>2, <1>2 DEF Ahead
  <2> QED
    BY <1>1, <2>1, <2>2
<1>10. ViasAhead'
  <2> SUFFICES ASSUME NEW o \in Nodes, NEW x \in Nodes \ {o}, NEW v \in route'[x][o].vias
               PROVE  Ahead(v, o, route[x][o].session, route[x][o].hops)'
    BY DEF ViasAhead
  <2>1. route'[x][o] = route[x][o]
    BY <1>4 DEF NoRoute
  <2>2. /\ v \in Nodes /\ route[x][o].session \in Nat /\ route[x][o].hops \in Nat
        /\ route[x][o].session < next[o]
    BY <2>1, ViaKnown
  <2>3. Ahead(v, o, route[x][o].session, route[x][o].hops)
    BY <2>1 DEF ViasAhead
  <2> DEFINE s == route[x][o].session
             h == route[x][o].hops
  <2>4. \A s0, h0 \in Nat : s0 < next[o] /\ Ahead(v, o, s0, h0) => Ahead(v, o, s0, h0)'
    BY <2>2, AheadTurn
  <2>5. \A s0, h0 \in Nat : s0 = s /\ h0 = h => Ahead(v, o, s0, h0)'
    BY <2>2, <2>3, <2>4
  <2> QED
    BY <2>1, <2>2, <2>5 DEF Ahead
<1>11. OneContent'
  <2>1. \A m1, m2 \in pings' :
          m1.origin = m2.origin /\ m1.session = m2.session
            => m1.services = m2.services
    <3> SUFFICES ASSUME NEW m1 \in pings', NEW m2 \in pings',
                        m1.origin = m2.origin, m1.session = m2.session
                 PROVE  m1.services = m2.services
      OBVIOUS
    <3>1. CASE m1 \in pings /\ m2 \in pings
      BY <3>1 DEF OneContent
    <3>2. CASE m1 \in Originated(n) /\ m2 \in Originated(n)
      BY <3>2, <1>2
    <3>3. ASSUME NEW old \in pings, NEW new \in Originated(n)
          PROVE  ~(old.origin = new.origin /\ old.session = new.session)
      BY <1>2, <1>3, <1>6
    <3> QED
      BY <1>1, <3>1, <3>2, <3>3
  <2>2. \A m \in pings' : \A x \in Nodes \ {m.origin} :
          dir'[x][m.origin] # NoDir /\ dir'[x][m.origin].session = m.session
            => dir'[x][m.origin].services = m.services
    <3> SUFFICES ASSUME NEW m \in pings', NEW x \in Nodes \ {m.origin},
                        dir'[x][m.origin] # NoDir,
                        dir'[x][m.origin].session = m.session
                 PROVE  dir'[x][m.origin].services = m.services
      OBVIOUS
    <3>1. m.origin \in Nodes
      BY <1>1, <1>2, <1>6
    <3>2. dir'[x][m.origin] = dir[x][m.origin]
      BY <1>5, <3>1
    <3>3. m.session < next[m.origin]
      BY <1>3, <1>7, <3>1, <3>2 DEF Known
    <3>4. m \in pings
      BY <1>1, <1>2, <1>3, <3>3
    <3> QED
      BY <3>2, <3>4 DEF OneContent
  <2> QED
    BY <2>1, <2>2 DEF OneContent
<1>12. SessionsAgree'
  BY <1>5 DEF SessionsAgree
<1> QED
  BY <1>8, <1>9, <1>10, <1>11, <1>12

\* The evt_ping case of the kernel service: the ping refines a route and is
\* flooded where its session is new to the directory.
LEMMA PingStep ==
  ASSUME IInv, TypeOK', NEW n \in Nodes, NEW m \in pings, Refines(n, m),
         \/ dir' = dir
         \/ /\ DirAccepts(dir[n][m.origin], m)
            /\ dir' = [dir EXCEPT ![n][m.origin] = UpdatedDir(@, m)]
  PROVE  IInv'
<1> USE DEF IInv
<1> DEFINE o == m.origin
           r == route[n][o]
           u == UpdatedRoute(r, m)
<1>1. \A k \in pings : /\ k \in Ping /\ k.via \in Nodes /\ k.origin \in Nodes
                       /\ k.session \in Nat /\ k.hops \in Nat
                       /\ k.session < next[k.origin]
  BY DEF TypeOK, Ping, Known
<1>2. \A k \in pings' :
        \/ k \in pings
        \/ /\ k.via = n /\ k.origin = o /\ k.session = m.session
           /\ k.hops = m.hops + 1 /\ k.services = m.services
  BY DEF Refines, Flooded
<1>3. \A x, y \in Nodes : route'[x][y] = IF x = n /\ y = o THEN u ELSE route[x][y]
  BY <1>1 DEF Refines, TypeOK
<1>4. r \in Route /\ RouteAccepts(r, m)
  BY <1>1 DEF TypeOK, Refines
<1>5. /\ u.session = m.session
      /\ u.hops \in Nat /\ u.hops <= m.hops
      /\ \A v \in u.vias :
           \/ v = m.via /\ u.hops = m.hops
           \/ v \in r.vias /\ u.session = r.session /\ u.hops = r.hops
  BY <1>1, <1>4, RouteRefined
<1>6. \A x, y \in Nodes : /\ dir[x][y] \in Directory /\ dir[x][y].session \in Nat
                          /\ next[y] \in Nat /\ next'[y] = next[y]
  BY DEF TypeOK, Directory, Refines
<1>7. \A x, y \in Nodes :
        \/ dir'[x][y] = dir[x][y]
        \/ /\ x = n /\ y = o /\ m.session > dir[n][o].session
           /\ dir'[x][y].session = m.session /\ dir'[x][y].services = m.services
  BY <1>1, <1>6 DEF TypeOK, UpdatedDir, DirAccepts
<1>8. Known'
  <2>1. \A k \in pings' : k.session < next'[k.origin]
    BY <1>1, <1>2, <1>6
  <2>2. \A x, y \in Nodes :
          route'[x][y] # NoRoute => route'[x][y].session < next'[y]
    BY <1>1, <1>3, <1>5, <1>6 DEF Known
  <2>3. \A y \in Nodes : \A x \in Nodes \ {y} :
          dir'[x][y] # NoDir => dir'[x][y].session \in 1 .. next'[y] - 1
    BY <1>1, <1>6, <1>7 DEF Known
  <2> QED
    BY <2>1, <2>2, <2>3 DEF Known
<1>9. ASSUME NEW v \in Nodes, NEW y \in Nodes, NEW s \in Nat, NEW h \in Nat,
             Ahead(v, y, s, h)
      PROVE  Ahead(v, y, s, h)'
  BY <1>9, AheadRefines
<1>10. PingsAhead'
  <2> SUFFICES ASSUME NEW k \in pings'
               PROVE  Ahead(k.via, k.origin, k.session, k.hops)'
    BY DEF PingsAhead
  <2>1. CASE k \in pings
    BY <2>1, <1>1, <1>9 DEF PingsAhead
  <2>2. CASE k.via = n /\ k.origin = o /\ k.session = m.session /\ k.hops = m.hops + 1
    <3>1. route'[n][o] = u /\ u.hops < m.hops + 1
      BY <1>1, <1>3, <1>5
    <3> QED
      BY <2>2, <3>1, <1>5 DEF Ahead
  <2> QED
    BY <1>2, <2>1, <2>2
<1>11. ViasAhead'
  <2> SUFFICES ASSUME NEW y \in Nodes, NEW x \in Nodes \ {y}, NEW v \in route'[x][y].vias
               PROVE  Ahead(v, y, route[x][y].session, route[x][y].hops)'
    BY DEF ViasAhead
  <2>1. CASE x = n /\ y = o
    <3>1. route'[x][y] = u
      BY <2>1, <1>3
    <3>2. CASE v = m.via /\ u.hops = m.hops
      <4>1. Ahead(v, y, m.session, m.hops)
        BY <2>1, <3>2 DEF PingsAhead
      <4>2. Ahead(v, y, m.session, m.hops)'
        BY <4>1, <3>2, <1>1, <1>9
      <4> QED
        BY <4>2, <3>1, <3>2, <1>5 DEF Ahead
    <3>3. CASE v \in r.vias /\ u.session = r.session /\ u.hops = r.hops
      <4>1. Ahead(v, y, r.session, r.hops)
        BY <2>1, <3>3 DEF ViasAhead
      <4>2. r.session \in Nat /\ r.hops \in Nat /\ v \in Nodes
        BY <1>4, <3>3 DEF Route
      <4>3. \A s0, h0 \in Nat : Ahead(v, y, s0, h0) => Ahead(v, y, s0, h0)'
        BY <4>2, <1>9
      <4>4. \A s0, h0 \in Nat : s0 = r.session /\ h0 = r.hops => Ahead(v, y, s0, h0)'
        BY <4>1, <4>3
      <4> QED
        BY <4>2, <4>4, <3>1, <3>3 DEF Ahead
    <3> QED
      BY <3>1, <3>2, <3>3, <1>5
  <2>2. CASE ~(x = n /\ y = o)
    <3>1. route'[x][y] = route[x][y]
      BY <2>2, <1>3
    <3>2. /\ v \in Nodes /\ route[x][y].session \in Nat /\ route[x][y].hops \in Nat
      BY <3>1, ViaKnown
    <3>3. Ahead(v, y, route[x][y].session, route[x][y].hops)
      BY <3>1 DEF ViasAhead
    <3>4. \A s0, h0 \in Nat : Ahead(v, y, s0, h0) => Ahead(v, y, s0, h0)'
      BY <3>2, <1>9
    <3>5. \A s0, h0 \in Nat : s0 = route[x][y].session /\ h0 = route[x][y].hops
            => Ahead(v, y, s0, h0)'
      BY <3>3, <3>4
    <3> QED
      BY <3>1, <3>2, <3>5 DEF Ahead
  <2> QED
    BY <2>1, <2>2
<1>12. OneContent'
  <2>1. \A m1, m2 \in pings' :
          m1.origin = m2.origin /\ m1.session = m2.session
            => m1.services = m2.services
    BY <1>2 DEF OneContent
  <2>2. \A k \in pings' : \A x \in Nodes \ {k.origin} :
          dir'[x][k.origin] # NoDir /\ dir'[x][k.origin].session = k.session
            => dir'[x][k.origin].services = k.services
    <3> SUFFICES ASSUME NEW k \in pings', NEW x \in Nodes \ {k.origin},
                        dir'[x][k.origin] # NoDir,
                        dir'[x][k.origin].session = k.session
                 PROVE  dir'[x][k.origin].services = k.services
      OBVIOUS
    <3>1. PICK j \in pings : j.origin = k.origin /\ j.session = k.session
                              /\ j.services = k.services
      BY <1>2
    <3>2. CASE dir'[x][k.origin] = dir[x][k.origin]
      BY <3>1, <3>2 DEF OneContent
    <3>3. CASE k.origin = o /\ dir'[x][k.origin].session = m.session
                 /\ dir'[x][k.origin].services = m.services
      BY <3>1, <3>3 DEF OneContent
    <3> QED
      BY <1>1, <1>7, <3>1, <3>2, <3>3
  <2> QED
    BY <2>1, <2>2 DEF OneContent
<1>13. SessionsAgree'
  <2> SUFFICES ASSUME NEW y \in Nodes, NEW n1 \in Nodes \ {y}, NEW n2 \in Nodes \ {y},
                      dir'[n1][y].session = dir'[n2][y].session,
                      dir'[n1][y] # NoDir, dir'[n2][y] # NoDir
               PROVE  dir'[n1][y].services = dir'[n2][y].services
    BY DEF SessionsAgree
  <2>1. \A x \in Nodes \ {y} :
          \/ dir'[x][y] = dir[x][y]
          \/ y = o /\ dir'[x][y].session = m.session /\ dir'[x][y].services = m.services
    BY <1>7
  <2>2. \A x \in Nodes \ {o} :
          dir[x][o] # NoDir /\ dir[x][o].session = m.session
            => dir[x][o].services = m.services
    BY DEF OneContent
  <2> QED
    BY <2>1, <2>2 DEF SessionsAgree
<1> QED
  BY <1>8, <1>10, <1>11, <1>12, <1>13

\* Whatever the network does, the invariant stays, as long as every ping is
\* handled before its session ages out.
THEOREM Inductive == Prompt => (Spec => []IInv)
<1> SUFFICES ASSUME Prompt PROVE Spec => []IInv
  OBVIOUS
<1>1. Init => Known /\ PingsAhead /\ ViasAhead /\ OneContent /\ SessionsAgree
  BY DEF Init, Known, PingsAhead, ViasAhead, OneContent, SessionsAgree, NoRoute, NoDir
<1>2. IInv /\ TypeOK' /\ [Next]_vars => IInv'
  <2> SUFFICES ASSUME IInv, TypeOK', [Next]_vars PROVE IInv'
    OBVIOUS
  <2> USE DEF IInv
  <2>1. ASSUME NEW n \in Nodes, NEW p \in Nodes, LinkUp(n, p) \/ LinkDown(n, p)
        PROVE  IInv'
    BY <2>1, QuietStep DEF LinkUp, LinkDown
  <2>2. ASSUME NEW n \in Nodes, Crash(n)
        PROVE  IInv'
    BY <2>2, QuietStep DEF Crash
  <2>3. ASSUME NEW n \in Nodes, NEW s \in Services, Declare(n, s) \/ Forget(n, s)
        PROVE  IInv'
    <3>1. PICK e : dir' = [dir EXCEPT ![n] = [dir[n] EXCEPT ![n] = e]]
      BY <2>3 DEF Declare, Forget
    <3>2. \A o \in Nodes : \A x \in Nodes \ {o} : dir'[x][o] = dir[x][o]
      BY <3>1 DEF TypeOK
    <3> QED
      BY <2>3, <3>2, QuietStep DEF Declare, Forget
  <2>4. ASSUME NEW n \in Nodes, NEW oldDirs \in SUBSET OldDirs(n),
               NEW oldRoutes \in SUBSET OldRoutes(n),
               ManagerTurn(n, oldDirs, oldRoutes)
        PROVE  IInv'
    BY <2>4, TurnStep
  <2>5. ASSUME NEW n \in Nodes, NEW m \in pings, IgnorePing(n, m)
        PROVE  IInv'
    BY <2>5, QuietStep DEF IgnorePing
  <2>6. ASSUME NEW n \in Nodes, NEW m \in pings, RefineRoute(n, m)
        PROVE  IInv'
    <3>1. Refines(n, m) /\ dir' = dir
      BY <2>6 DEF RefineRoute, Refines
    <3> QED
      BY <3>1, PingStep
  <2>7. ASSUME NEW n \in Nodes, NEW m \in pings, AcceptPing(n, m)
        PROVE  IInv'
    <3>1. /\ Refines(n, m) /\ DirAccepts(dir[n][m.origin], m)
          /\ dir' = [dir EXCEPT ![n][m.origin] = UpdatedDir(@, m)]
      BY <2>7 DEF AcceptPing, Refines
    <3> QED
      BY <3>1, PingStep
  <2>8. ASSUME NEW m \in pings, Lose(m)
        PROVE  IInv'
    BY <2>8, QuietStep DEF Lose
  <2>9. ASSUME UNCHANGED vars
        PROVE  IInv'
    BY <2>9, QuietStep DEF vars
  <2> QED
    BY <2>1, <2>2, <2>3, <2>4, <2>5, <2>6, <2>7, <2>8, <2>9
    DEF Next, ManagerTurns, KernelTurns, HandlePing
<1>3. Spec => []TypeOK
  BY TypeCorrect
<1> QED
  BY <1>1, <1>2, <1>3, PTL DEF Spec, IInv

-----------------------------------------------------------------------------
(* What follows from it.                                                   *)

\* A nonempty set of naturals has a least element.
LEMMA Least ==
  ASSUME NEW T \in SUBSET Nat, T # {}
  PROVE  \E x \in T : \A y \in T : x <= y
<1> DEFINE Less == {ss \in Nat \X Nat : ss[1] < ss[2]}
<1>1. OpToRel(<, Nat) = Less
  BY Zenon DEF OpToRel
<1>2. \E x \in T : \A y \in T : <<y, x>> \notin Less
  <2> HIDE DEF Less
  <2> QED
    BY <1>1, NatLessThanWellFounded, WFMin, Zenon
<1>3. \A x, y \in T : <<y, x>> \notin Less => x <= y
  OBVIOUS
<1> QED
  BY <1>2, <1>3

\* v has a later session than n, or the same and is nearer.
Leads(sess, dist, v, n) ==
  sess[v] > sess[n] \/ (sess[v] = sess[n] /\ dist[v] < dist[n])

\* In a nonempty set of places, one has the latest session and, of those that
\* have it, is the nearest.
LEMMA Foremost ==
  ASSUME NEW S, S # {}, NEW sess \in [S -> Nat], NEW dist \in [S -> Nat],
         NEW top \in Nat, \A n \in S : sess[n] < top
  PROVE  \E n \in S : \A v \in S : ~Leads(sess, dist, v, n)
<1>1. PICK n1 \in S : \A n \in S : sess[n] <= sess[n1]
  <2> DEFINE Ages == {top - sess[n] : n \in S}
  <2>1. Ages \in SUBSET Nat /\ Ages # {}
    OBVIOUS
  <2>2. PICK x \in Ages : \A y \in Ages : x <= y
    BY <2>1, Least
  <2>3. PICK n1 \in S : x = top - sess[n1]
    OBVIOUS
  <2>4. ASSUME NEW n \in S PROVE sess[n] <= sess[n1]
    <3>1. x <= top - sess[n]
      BY <2>2
    <3>2. sess[n] \in Nat /\ sess[n1] \in Nat
      OBVIOUS
    <3> QED
      BY <2>3, <3>1, <3>2
  <2> QED
    BY <2>4
<1> DEFINE Near == {dist[n] : n \in {x \in S : sess[x] = sess[n1]}}
<1>2. Near \in SUBSET Nat /\ Near # {}
  OBVIOUS
<1>3. PICK x \in Near : \A y \in Near : x <= y
  BY <1>2, Least
<1>4. PICK n2 \in S : sess[n2] = sess[n1] /\ x = dist[n2]
  OBVIOUS
<1>5. ASSUME NEW v \in S
      PROVE  ~Leads(sess, dist, v, n2)
  <2>1. sess[v] \in Nat /\ sess[n1] \in Nat /\ dist[v] \in Nat /\ dist[n2] \in Nat
    OBVIOUS
  <2>2. sess[v] <= sess[n1]
    BY <1>1
  <2>3. sess[v] = sess[n1] => x <= dist[v]
    BY <1>3
  <2> QED
    BY <1>4, <2>1, <2>2, <2>3 DEF Leads
<1> QED
  BY <1>5

\* Messages for o cannot go round in circles: of any set of nodes, one that
\* has heard the latest session from nearest by forwards to the outside
\* (Router::get_next_msg hands a message to a via of its destination).
THEOREM NoLoops == Prompt => (Spec => []LoopFree)
<1>1. IInv => LoopFree
  <2> SUFFICES ASSUME IInv, NEW o \in Nodes, NEW S \in SUBSET (Nodes \ {o}), S # {},
                      \A n \in S : \E v \in S : CanForward(n, v, o)
               PROVE  FALSE
    BY DEF LoopFree
  <2> DEFINE sess == [n \in S |-> route[n][o].session]
             dist == [n \in S |-> route[n][o].hops]
  <2>1. ASSUME NEW n \in S
        PROVE  /\ sess[n] \in Nat /\ dist[n] \in Nat
               /\ sess[n] < next[o] /\ route[n][o] # NoRoute
    <3>1. PICK v \in S : v \in route[n][o].vias
      BY <2>1 DEF CanForward
    <3> QED
      BY <2>1, <3>1, ViaKnown DEF NoRoute
  <2>2. ASSUME NEW n \in S
        PROVE  \E v \in S : Leads(sess, dist, v, n)
    <3>1. PICK v \in S : v \in route[n][o].vias
      BY <2>2 DEF CanForward
    <3>2. Ahead(v, o, route[n][o].session, route[n][o].hops)
      BY <2>2, <3>1 DEF IInv, ViasAhead
    <3> QED
      BY <2>1, <3>1, <3>2 DEF Ahead, Leads
  <2>3. next[o] \in Nat /\ sess \in [S -> Nat] /\ dist \in [S -> Nat]
    BY <2>1 DEF IInv, TypeOK
  <2>4. \A n \in S : sess[n] < next[o]
    BY <2>1
  <2>5. \E n \in S : \A v \in S : ~Leads(sess, dist, v, n)
    <3> HIDE DEF sess, dist
    <3> QED
      BY <2>3, <2>4, Foremost
  <2> QED
    BY <2>2, <2>5
<1> QED
  BY <1>1, Inductive, PTL

\* Any two nodes that know the same session of a third know the same of it,
\* in whatever order and over whatever ways the pings came (update_dir).
THEOREM DirectoriesAgree == Prompt => (Spec => []SessionsAgree)
<1>1. IInv => SessionsAgree
  BY DEF IInv
<1> QED
  BY <1>1, Inductive, PTL

-----------------------------------------------------------------------------
(* Why a flood dies out.                                                   *)

\* As many nodes as a ping has made hops know its session, or a later one.
Relayed(m) ==
  \E R \in SUBSET Nodes :
    /\ IsFiniteSet(R) /\ Cardinality(R) = m.hops
    /\ \A x \in R : dir[x][m.origin].session >= m.session

\* Who knows the session of a ping that is on its way goes on knowing it.
LEMMA StaysRelayed ==
  ASSUME NEW m, Relayed(m),
         \A x \in Nodes : dir[x][m.origin].session >= m.session
                            => dir'[x][m.origin].session >= m.session
  PROVE  Relayed(m)'
<1>1. PICK R \in SUBSET Nodes :
        /\ IsFiniteSet(R) /\ Cardinality(R) = m.hops
        /\ \A x \in R : dir[x][m.origin].session >= m.session
  BY DEF Relayed
<1>2. \A x \in R : dir'[x][m.origin].session >= m.session
  BY <1>1
<1> QED
  BY <1>1, <1>2 DEF Relayed

\* Whoever passes a ping on had not heard of its session (update_dir).
LEMMA RelaysOnce ==
  ASSUME TypeOK, NEW n \in Nodes, NEW m \in pings, AcceptPing(n, m), Relayed(m),
         NEW k \in Flooded(n, m)
  PROVE  Relayed(k)'
<1>1. /\ m \in Ping /\ m.origin \in Nodes /\ m.session \in Nat /\ m.hops \in Nat
      /\ k.origin = m.origin /\ k.session = m.session /\ k.hops = m.hops + 1
      /\ \A x \in Nodes : dir[x][m.origin].session \in Nat
  BY DEF TypeOK, Ping, Flooded, Directory
<1>2. PICK R \in SUBSET Nodes :
        /\ IsFiniteSet(R) /\ Cardinality(R) = m.hops
        /\ \A x \in R : dir[x][m.origin].session >= m.session
  BY DEF Relayed
<1>3. dir[n][m.origin].session < m.session
  BY <1>1 DEF AcceptPing, DirAccepts
<1>4. \A x \in Nodes : dir'[x][m.origin].session =
                         IF x = n THEN m.session ELSE dir[x][m.origin].session
  BY <1>1 DEF AcceptPing, UpdatedDir, TypeOK
<1>5. n \notin R
  BY <1>1, <1>2, <1>3
<1>6. IsFiniteSet(R \cup {n}) /\ Cardinality(R \cup {n}) = m.hops + 1
  BY <1>2, <1>5, FS_AddElement
<1>7. \A x \in R \cup {n} : dir'[x][m.origin].session >= m.session
  BY <1>1, <1>2, <1>4
<1> QED
  BY <1>1, <1>6, <1>7 DEF Relayed

\* An application's call changes the services of its node's own entry.
LEMMA OwnEntry ==
  ASSUME TypeOK, NEW n \in Nodes, NEW s \in Services, Declare(n, s) \/ Forget(n, s)
  PROVE  /\ \A x, o \in Nodes : dir[x][o].session = dir'[x][o].session
         /\ \A x \in Nodes : dir[x][x].services = declared[x]
                               => dir'[x][x].services = declared'[x]
         /\ UNCHANGED <<pings, peers>>
<1>1. /\ \A x, o \in Nodes : dir[x][o] \in Directory
      /\ dir \in [Nodes -> [Nodes -> Directory]] /\ declared \in [Nodes -> SUBSET Services]
  BY DEF TypeOK
<1>2. PICK set :
        /\ dir' = [dir EXCEPT ![n] = [dir[n] EXCEPT ![n] = [dir[n][n] EXCEPT !.services = set]]]
        /\ dir[n][n].services = declared[n] => declared'[n] = set
        /\ \A x \in Nodes : x # n => declared'[x] = declared[x]
  <2>1. CASE Declare(n, s)
    <3> WITNESS dir[n][n].services \cup {s}
    <3> QED BY <1>1, <2>1 DEF Declare
  <2>2. CASE Forget(n, s)
    <3> WITNESS dir[n][n].services \ {s}
    <3> QED BY <1>1, <2>2 DEF Forget
  <2> QED BY <2>1, <2>2
<1> DEFINE e == [dir[n][n] EXCEPT !.services = set]
<1>3. e.session = dir[n][n].session /\ e.services = set
  BY <1>1 DEF Directory
<1>4. UNCHANGED <<pings, peers>>
  BY DEF Declare, Forget
<1>5. dir' = [dir EXCEPT ![n] = [dir[n] EXCEPT ![n] = e]]
  BY <1>2
<1> HIDE DEF e
<1>6. \A x, o \in Nodes : dir'[x][o] = IF x = n /\ o = n THEN e ELSE dir[x][o]
  BY <1>1, <1>5
<1> QED
  BY <1>2, <1>3, <1>4, <1>6

AllRelayed == \A m \in pings : Relayed(m)

\* Entries that are dropped are of sessions with no ping on its way, and a ping
\* that sets out has made no hop.
LEMMA RelayedTurn ==
  ASSUME TypeOK, AllRelayed, Prompt, NEW n \in Nodes, NEW oldDirs \in SUBSET OldDirs(n),
         NEW oldRoutes, ManagerTurn(n, oldDirs, oldRoutes)
  PROVE  AllRelayed'
<1> SUFFICES ASSUME NEW m \in pings' PROVE Relayed(m)'
  BY DEF AllRelayed
<1>1. CASE m \in pings
  <2>1. m.origin \in Nodes /\ m.session \in Nat
    BY <1>1 DEF TypeOK, Ping
  <2>2. ASSUME NEW x \in Nodes, dir[x][m.origin].session >= m.session
        PROVE  dir'[x][m.origin].session >= m.session
    <3>1. CASE x = n /\ m.origin \in oldDirs
      <4>1. Settled(m.origin, dir[x][m.origin].session)
        BY <3>1 DEF OldDirs
      <4>2. m.session > dir[x][m.origin].session /\ dir[x][m.origin].session \in Nat
        BY <1>1, <2>1, <4>1 DEF Settled, TypeOK, Directory
      <4> QED
        BY <2>1, <2>2, <4>2
    <3>2. CASE ~(x = n /\ m.origin \in oldDirs)
      <4>1. dir'[x][m.origin] = dir[x][m.origin]
        BY <2>1, <3>2 DEF ManagerTurn, Purged, TypeOK
      <4> QED
        BY <2>2, <4>1
    <3> QED
      BY <3>1, <3>2
  <2> QED
    BY <1>1, <2>2, StaysRelayed DEF AllRelayed
<1>2. CASE m \in Originated(n)
  <2>1. m.hops = 0
    BY <1>2 DEF Originated
  <2>2. IsFiniteSet({}) /\ Cardinality({}) = m.hops
    BY <2>1, FS_EmptySet
  <2> QED
    BY <2>2 DEF Relayed
<1> QED
  BY <1>1, <1>2 DEF ManagerTurn

\* A flood dies out: no ping makes more hops than there are nodes, the origin
\* included, whatever the links and whatever is lost (evt_ping, update_dir).
THEOREM FloodEnds ==
  ASSUME IsFiniteSet(Nodes)
  PROVE  Prompt => (Spec => []FloodDiesOut)
<1> SUFFICES ASSUME Prompt PROVE Spec => []FloodDiesOut
  OBVIOUS
<1>1. Init => AllRelayed
  BY DEF Init, AllRelayed
<1>2. AllRelayed /\ TypeOK /\ [Next]_vars => AllRelayed'
  <2> SUFFICES ASSUME AllRelayed, TypeOK, [Next]_vars PROVE AllRelayed'
    OBVIOUS
  <2>1. ASSUME pings' \subseteq pings,
               \A x, o \in Nodes : dir[x][o].session = dir'[x][o].session
        PROVE  AllRelayed'
    <3> SUFFICES ASSUME NEW m \in pings' PROVE Relayed(m)'
      BY DEF AllRelayed
    <3>1. m \in pings /\ m.origin \in Nodes
      BY <2>1 DEF TypeOK, Ping
    <3> QED
      BY <2>1, <3>1, StaysRelayed DEF AllRelayed
  <2>2. ASSUME NEW n \in Nodes, NEW s \in Services, Declare(n, s) \/ Forget(n, s)
        PROVE  AllRelayed'
    <3>1. /\ \A x, o \in Nodes : dir[x][o].session = dir'[x][o].session
          /\ UNCHANGED pings
      BY <2>2, OwnEntry
    <3> QED
      BY <2>1, <3>1
  <2>3. ASSUME NEW n \in Nodes, ManagerTurns(n) PROVE AllRelayed'
    BY <2>3, RelayedTurn DEF ManagerTurns
  <2>4. ASSUME NEW n \in Nodes, NEW m \in pings, AcceptPing(n, m) PROVE AllRelayed'
    <3> SUFFICES ASSUME NEW k \in pings' PROVE Relayed(k)'
      BY DEF AllRelayed
    <3>1. CASE k \in Flooded(n, m)
      BY <2>4, <3>1, RelaysOnce DEF AllRelayed
    <3>2. CASE k \in pings
      <4>1. /\ k.origin \in Nodes /\ k.session \in Nat
            /\ m.origin \in Nodes /\ m.session \in Nat
            /\ \A x, o \in Nodes : dir[x][o].session \in Nat
        BY <3>2 DEF TypeOK, Ping, Directory
      <4>2. \A x, o \in Nodes : \/ dir'[x][o] = dir[x][o]
                                \/ /\ dir'[x][o].session = m.session
                                   /\ dir[x][o].session < m.session
        BY <2>4, <4>1 DEF AcceptPing, UpdatedDir, DirAccepts, TypeOK
      <4>3. \A x \in Nodes : dir[x][k.origin].session >= k.session
                               => dir'[x][k.origin].session >= k.session
        BY <4>1, <4>2
      <4> QED
        BY <3>2, <4>3, StaysRelayed DEF AllRelayed
    <3> QED
      BY <2>4, <3>1, <3>2 DEF AcceptPing
  <2>5. ASSUME NEW n \in Nodes, NEW m \in pings, IgnorePing(n, m) \/ RefineRoute(n, m)
        PROVE  AllRelayed'
    BY <2>1, <2>5 DEF IgnorePing, RefineRoute
  <2>6. ASSUME NEW n \in Nodes, NEW p \in Nodes, LinkUp(n, p) \/ LinkDown(n, p)
        PROVE  AllRelayed'
    BY <2>1, <2>6 DEF LinkUp, LinkDown
  <2>7. ASSUME NEW n \in Nodes, Crash(n) PROVE AllRelayed'
    BY <2>1, <2>7 DEF Crash
  <2>8. ASSUME NEW m \in pings, Lose(m) PROVE AllRelayed'
    BY <2>1, <2>8 DEF Lose
  <2>9. ASSUME UNCHANGED vars PROVE AllRelayed'
    BY <2>1, <2>9 DEF vars
  <2> QED
    BY <2>2, <2>3, <2>4, <2>5, <2>6, <2>7, <2>8, <2>9
    DEF Next, KernelTurns, HandlePing
<1>3. AllRelayed => FloodDiesOut
  <2> SUFFICES ASSUME NEW m \in pings, Relayed(m) PROVE m.hops <= Cardinality(Nodes)
    BY DEF AllRelayed, FloodDiesOut
  <2>1. PICK R \in SUBSET Nodes : Cardinality(R) = m.hops
    BY DEF Relayed
  <2> QED
    BY <2>1, FS_Subset
<1> QED
  BY <1>1, <1>2, <1>3, TypeCorrect, PTL DEF Spec

-----------------------------------------------------------------------------
(* Why a node's own entry is left alone where no cycle of links exists.    *)

\* A walk along links that never turns back on itself.
Walk(p) ==
  /\ p \in Seq(Nodes) /\ Len(p) >= 2
  /\ \A i \in 1 .. Len(p) - 1 : <<p[i], p[i + 1]>> \in Wires
  /\ \A i \in 1 .. Len(p) - 2 : p[i] # p[i + 2]

\* No such walk comes back to where it set out.
NoCycle == \A p : Walk(p) => p[1] # p[Len(p)]

\* A ping has walked from its origin over the node that relayed it last.
Walked(m) ==
  \E p : /\ Walk(p) /\ p[1] = m.origin
         /\ p[Len(p) - 1] = m.via /\ p[Len(p)] = m.dest

\* One more hop, and not back where it came from (evt_ping).
LEMMA WalksOn ==
  ASSUME NEW p, Walk(p), NEW n \in Nodes, <<p[Len(p)], n>> \in Wires, n # p[Len(p) - 1]
  PROVE  \E q : Walk(q) /\ q[1] = p[1] /\ q[Len(q) - 1] = p[Len(p)] /\ q[Len(q)] = n
<1> DEFINE q == Append(p, n)
<1>1. PICK L \in Nat : L = Len(p) /\ L >= 2
  <2>1. Len(p) \in Nat
    BY DEF Walk
  <2> QED
    BY <2>1 DEF Walk
<1>2. q \in Seq(Nodes) /\ Len(q) = L + 1 /\ q[L + 1] = n /\ \A i \in 1 .. L : q[i] = p[i]
  BY <1>1 DEF Walk
<1>3. /\ \A i \in 1 .. L - 1 : <<p[i], p[i + 1]>> \in Wires
      /\ \A i \in 1 .. L - 2 : p[i] # p[i + 2]
      /\ <<p[L], n>> \in Wires /\ n # p[L - 1]
  BY <1>1 DEF Walk
<1> HIDE DEF q
<1>4. ASSUME NEW i \in 1 .. L PROVE <<q[i], q[i + 1]>> \in Wires
  <2>1. CASE i = L
    BY <1>1, <1>2, <1>3, <2>1
  <2>2. CASE i \in 1 .. L - 1
    BY <1>1, <1>2, <1>3, <2>2
  <2> QED
    BY <1>1, <2>1, <2>2
<1>5. ASSUME NEW i \in 1 .. L - 1 PROVE q[i] # q[i + 2]
  <2>1. CASE i = L - 1
    BY <1>1, <1>2, <1>3, <2>1
  <2>2. CASE i \in 1 .. L - 2
    BY <1>1, <1>2, <1>3, <2>2
  <2> QED
    BY <1>1, <2>1, <2>2
<1>6. Walk(q)
  <2>1. Len(q) - 1 = L /\ Len(q) - 2 = L - 1 /\ Len(q) >= 2
    BY <1>1, <1>2
  <2> QED
    BY <1>2, <1>4, <1>5, <2>1 DEF Walk
<1>7. q[1] = p[1] /\ q[L] = p[L] /\ Len(q) - 1 = L
  BY <1>1, <1>2
<1> QED
  BY <1>1, <1>2, <1>6, <1>7

\* The first hop (Router::run).
LEMMA WalksOff ==
  ASSUME NEW a \in Nodes, NEW b \in Nodes, <<a, b>> \in Wires
  PROVE  \E q : Walk(q) /\ q[1] = a /\ q[Len(q) - 1] = a /\ q[Len(q)] = b
<1> DEFINE q == <<a, b>>
<1>1. q \in Seq(Nodes) /\ Len(q) = 2 /\ q[1] = a /\ q[2] = b
  OBVIOUS
<1> HIDE DEF q
<1>2. \A i \in 1 .. Len(q) - 1 : i = 1 /\ i + 1 = 2
  BY <1>1
<1>3. \A i \in 1 .. Len(q) - 2 : FALSE
  BY <1>1
<1>4. Walk(q)
  BY <1>1, <1>2, <1>3 DEF Walk
<1>5. Len(q) - 1 = 1
  BY <1>1
<1> QED
  BY <1>1, <1>4, <1>5

\* Every ping has walked, its peers are at the end of a link, and the entry of a
\* node for itself holds what its applications declared.
OwnIInv ==
  /\ TypeOK
  /\ \A n \in Nodes : \A x \in peers[n] : <<n, x>> \in Wires
  /\ \A m \in pings : Walked(m)
  /\ \A n \in Nodes : dir[n][n].services = declared[n]

\* A ping never comes back to its origin, so only the origin's applications
\* change its own entry.
LEMMA OwnStep ==
  ASSUME NoCycle, OwnIInv, TypeOK', [Next]_vars
  PROVE  OwnIInv'
<1>1. /\ \A n \in Nodes : peers[n] \subseteq Nodes
      /\ \A n \in Nodes : \A x \in peers[n] : <<n, x>> \in Wires
      /\ \A m \in pings : m \in Ping /\ Walked(m)
      /\ \A n \in Nodes : dir[n][n].services = declared[n]
      /\ peers \in [Nodes -> SUBSET Nodes] /\ dir \in [Nodes -> [Nodes -> Directory]]
  BY DEF OwnIInv, TypeOK
<1>2. ASSUME UNCHANGED <<peers, declared>>, pings' \subseteq pings,
             \A n \in Nodes : dir'[n][n] = dir[n][n]
      PROVE  OwnIInv'
  BY <1>1, <1>2 DEF OwnIInv, Walked
<1>3. ASSUME NEW n \in Nodes, NEW p \in Nodes, LinkUp(n, p) PROVE OwnIInv'
  <2>1. \A x \in Nodes : \A y \in peers'[x] : <<x, y>> \in Wires
    BY <1>1, <1>3 DEF LinkUp
  <2> QED
    BY <1>1, <1>3, <2>1 DEF LinkUp, OwnIInv, Walked
<1>4. ASSUME NEW n \in Nodes, NEW p \in Nodes, LinkDown(n, p) PROVE OwnIInv'
  <2>1. \A x \in Nodes : \A y \in peers'[x] : <<x, y>> \in Wires
    BY <1>1, <1>4 DEF LinkDown
  <2> QED
    BY <1>1, <1>4, <2>1 DEF LinkDown, OwnIInv, Walked
<1>5. ASSUME NEW n \in Nodes, NEW s \in Services, Declare(n, s) \/ Forget(n, s) PROVE OwnIInv'
  <2>1. /\ UNCHANGED <<pings, peers>>
        /\ \A x \in Nodes : dir'[x][x].services = declared'[x]
    <3>1. TypeOK
      BY DEF OwnIInv
    <3> QED BY <1>1, <1>5, <3>1, OwnEntry
  <2> QED
    BY <1>1, <2>1 DEF OwnIInv, Walked
<1>6. ASSUME NEW n \in Nodes, ManagerTurns(n) PROVE OwnIInv'
  <2>1. PICK oldDirs \in SUBSET OldDirs(n), oldRoutes \in SUBSET OldRoutes(n) :
          ManagerTurn(n, oldDirs, oldRoutes)
    BY <1>6 DEF ManagerTurns
  <2>2. \A x \in Nodes : dir'[x][x] = dir[x][x]
    BY <1>1, <2>1 DEF ManagerTurn, Purged, OldDirs
  <2>3. ASSUME NEW m \in Originated(n) PROVE Walked(m)'
    <3>1. /\ m.origin = n /\ m.via = n /\ m.dest \in Nodes /\ <<n, m.dest>> \in Wires
      BY <1>1, <2>3 DEF Originated
    <3>2. PICK q : Walk(q) /\ q[1] = n /\ q[Len(q) - 1] = n /\ q[Len(q)] = m.dest
      BY <3>1, WalksOff
    <3> QED
      BY <3>1, <3>2 DEF Walked
  <2>4. \A m \in pings' : Walked(m)'
    BY <1>1, <2>1, <2>3 DEF ManagerTurn, Walked
  <2> QED
    BY <1>1, <2>1, <2>2, <2>4 DEF ManagerTurn, OwnIInv
<1>7. ASSUME NEW n \in Nodes, NEW m \in pings, AcceptPing(n, m) PROVE OwnIInv'
  <2>1. PICK p : /\ Walk(p) /\ p[1] = m.origin
                 /\ p[Len(p) - 1] = m.via /\ p[Len(p)] = m.dest
    BY <1>1 DEF Walked
  <2>2. n = m.dest /\ n # m.origin /\ m.origin \in Nodes
    BY <1>1, <1>7, <2>1 DEF NoCycle, AcceptPing, Ping
  <2>3. \A x \in Nodes : dir'[x][x] = dir[x][x]
    BY <1>1, <1>7, <2>2 DEF AcceptPing
  <2>4. ASSUME NEW k \in Flooded(n, m) PROVE Walked(k)'
    <3>1. /\ k.origin = m.origin /\ k.via = n /\ k.dest \in Nodes
          /\ <<n, k.dest>> \in Wires /\ k.dest # m.via
      BY <1>1, <2>4 DEF Flooded
    <3>2. PICK q : Walk(q) /\ q[1] = p[1] /\ q[Len(q) - 1] = p[Len(p)] /\ q[Len(q)] = k.dest
      BY <2>1, <2>2, <3>1, WalksOn
    <3> QED
      BY <2>1, <2>2, <3>1, <3>2 DEF Walked
  <2>5. \A k \in pings' : Walked(k)'
    BY <1>1, <1>7, <2>4 DEF AcceptPing, Walked
  <2> QED
    BY <1>1, <1>7, <2>3, <2>5 DEF AcceptPing, OwnIInv
<1>8. ASSUME NEW n \in Nodes, NEW m \in pings, IgnorePing(n, m) \/ RefineRoute(n, m)
      PROVE  OwnIInv'
  BY <1>2, <1>8 DEF IgnorePing, RefineRoute
<1>9. ASSUME NEW n \in Nodes, Crash(n) PROVE OwnIInv'
  BY <1>2, <1>9 DEF Crash
<1>10. ASSUME NEW m \in pings, Lose(m) PROVE OwnIInv'
  BY <1>2, <1>10 DEF Lose
<1>11. ASSUME UNCHANGED vars PROVE OwnIInv'
  BY <1>2, <1>11 DEF vars
<1> QED
  BY <1>3, <1>4, <1>5, <1>6, <1>7, <1>8, <1>9, <1>10, <1>11
  DEF Next, KernelTurns, HandlePing

\* Where no cycle of links exists, what the applications of a node declared, and
\* nothing else, is in the entry that it floods, whatever fails and whatever ages
\* (Router::declare, forget, run, update_dir).
THEOREM OwnEntriesKept ==
  ASSUME NoCycle
  PROVE  Spec => []OwnServicesKept
<1>1. Init /\ TypeOK => OwnIInv
  BY DEF Init, OwnIInv, NoDir
<1>2. OwnIInv /\ TypeOK' /\ [Next]_vars => OwnIInv'
  BY OwnStep
<1>3. OwnIInv => OwnServicesKept
  BY DEF OwnIInv, OwnServicesKept, DeclaredKept, ForgottenGone
<1> QED
  BY <1>1, <1>2, <1>3, TypeCorrect, PTL DEF Spec

=============================================================================
