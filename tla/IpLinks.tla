------------------------------- MODULE IpLinks -------------------------------
(***************************************************************************)
(* The IP links between two nodes and their managers.                      *)
(*                                                                         *)
(* One node dials, the other accepts.  Each manager is a thread that       *)
(* connects and accepts, throws away links that have failed, and at the    *)
(* end stops and joins all of them.  A link is made by a handler of the    *)
(* manager's io_context, which stops for good when it has nothing to wait  *)
(* for; the connection that a later dial makes has a link at one end only. *)
(* A link has a send thread, which sends a ping when there is nothing else,*)
(* and a receive thread, which is in a read until a packet comes or the    *)
(* connection ends.  What is sent is in Parcels; here a packet only says   *)
(* who is at the other end.                                                *)
(***************************************************************************)
EXTENDS Integers, FiniteSets

CONSTANTS
  Client, Server, \* the node that dials, the node that accepts
  Conns,          \* bound: the TCP connections that are ever made
  MaxDials,       \* bound: how often the client dials
  NoConn          \* the manager purges no link

ASSUME IpAssumption ==
  /\ Client # Server /\ NoConn \notin Conns /\ MaxDials \in Nat

Ends == {Client, Server}
Other(p) == IF p = Client THEN Server ELSE Client

VARIABLES
  dials,   \* the length of the client's m_dial_que
  dialled, \* how often the client has dialled
  manager, \* manager[p]: where its run is, m_running, does m_io_context run
           \* handlers, the link it purges
  conn,    \* conn[c]: free, dialled, open, broken
  link     \* link[p][c]: is there a link (none, live, gone), m_running, the two
           \* threads, is there a packet to read, does the router know the link

ipVars == <<dials, dialled, manager, conn, link>>

NoLink == [at |-> "none", on |-> FALSE, sender |-> "none", receiver |-> "none",
           data |-> FALSE, known |-> FALSE]

IpInit ==
  /\ dials = 0 /\ dialled = 0
  /\ manager = [p \in Ends |-> [at |-> "off", on |-> FALSE, io |-> FALSE, purges |-> NoConn]]
  /\ conn = [c \in Conns |-> "free"]
  /\ link = [p \in Ends |-> [c \in Conns |-> NoLink]]

-----------------------------------------------------------------------------
(* The threads of a link.                                                   *)

\* Is the other end of the connection still held open?
Reaches(p, c) == conn[c] = "open" /\ link[Other(p)][c].at # "gone"

\* A packet reaches the other end, where it waits to be read.  A failed write
\* clears m_running.
SendPacket(p, c) ==
  /\ link[p][c].sender = "run" /\ link[p][c].on
  /\ link' = IF Reaches(p, c) THEN [link EXCEPT ![Other(p)][c].data = TRUE]
             ELSE [link EXCEPT ![p][c].on = FALSE]
  /\ UNCHANGED <<dials, dialled, manager, conn>>

EndSend(p, c) ==
  /\ link[p][c].sender = "run" /\ ~link[p][c].on
  /\ link' = [link EXCEPT ![p][c].sender = "over"]
  /\ UNCHANGED <<dials, dialled, manager, conn>>

\* Mistake: the receive thread goes on until the connection ends.
ReadsOn(l) == l

\* The receive thread looks at m_running after each packet; it takes the link
\* from the router when it ends.
NextRound(l) == IF l.on THEN l ELSE [l EXCEPT !.receiver = "over", !.known = FALSE]

\* A packet tells the router who is at the other end, unless its hash is wrong.
Received(l, good) == [l EXCEPT !.data = FALSE, !.known = l.known \/ good]

\* A read that fails clears m_running; one that waits for a packet does not end.
ReceiveThread(p, c) ==
  /\ link[p][c].receiver = "read"
  /\ \/ /\ link[p][c].data
        /\ \E good \in BOOLEAN :
             link' = [link EXCEPT ![p][c] = NextRound(Received(@, good))]
     \/ /\ ~Reaches(p, c)
        /\ link' = [link EXCEPT ![p][c] = NextRound([@ EXCEPT !.on = FALSE])]
  /\ UNCHANGED <<dials, dialled, manager, conn>>

SendThread(p, c) == SendPacket(p, c) \/ EndSend(p, c)

-----------------------------------------------------------------------------
(* The managers.                                                            *)

\* main starts the manager, and dials.
StartManager(p) ==
  /\ manager[p].at = "off"
  /\ manager' = [manager EXCEPT ![p].at = "loop", ![p].on = TRUE, ![p].io = TRUE]
  /\ UNCHANGED <<dials, dialled, conn, link>>

Dial ==
  /\ manager[Client].at # "off" /\ dialled < MaxDials
  /\ dialled' = dialled + 1 /\ dials' = dials + 1
  /\ UNCHANGED <<manager, conn, link>>

\* An address that cannot be resolved is dropped.
Connect ==
  /\ manager[Client].at = "loop" /\ dials > 0
  /\ \E S \in SUBSET {c \in Conns : conn[c] = "free"} :
       /\ Cardinality(S) <= dials
       /\ conn' = [c \in Conns |-> IF c \in S THEN "dialled" ELSE conn[c]]
  /\ dials' = 0
  /\ UNCHANGED <<dialled, manager, link>>

FreshIpLink(l) == [l EXCEPT !.at = "live", !.on = TRUE, !.sender = "run", !.receiver = "read"]

\* Connections for which the handler of the client has not been run.
Awaited == {c \in Conns : conn[c] = "dialled"
                            \/ (conn[c] = "open" /\ link[Client][c].at = "none")}

\* A handler is run while the manager is in run_for, and only by a context that
\* has not been stopped.
Handles(p) == manager[p].at = "loop" /\ manager[p].io

Connected(c) ==
  /\ Handles(Client) /\ c \in Awaited /\ conn[c] = "open"
  /\ link' = [link EXCEPT ![Client][c] = FreshIpLink(@)]
  /\ UNCHANGED <<dials, dialled, manager, conn>>

\* run_for finds nothing to wait for, unless the client listens as well.  That
\* stops the context, which nobody restarts.
RunOut ==
  /\ Handles(Client) /\ Awaited = {}
  /\ manager' = [manager EXCEPT ![Client].io = FALSE]
  /\ UNCHANGED <<dials, dialled, conn, link>>

Accept(c) ==
  /\ Handles(Server) /\ conn[c] = "open" /\ link[Server][c].at = "none"
  /\ link' = [link EXCEPT ![Server][c] = FreshIpLink(@)]
  /\ UNCHANGED <<dials, dialled, manager, conn>>

\* The manager has found a link that does not run, and joins its threads.
PurgeLink(p, c) ==
  /\ manager[p].at = "loop" /\ link[p][c].at = "live" /\ ~link[p][c].on
  /\ manager' = [manager EXCEPT ![p].at = "purge", ![p].purges = c]
  /\ UNCHANGED <<dials, dialled, conn, link>>

\* Mistake: only the send thread is joined.
SenderJoined(p, c) == link[p][c].sender = "over"

Joined(p, c) == link[p][c].sender = "over" /\ link[p][c].receiver = "over"

\* The socket is closed, with what has not been read; only the router may know
\* of the link still.
Destroyed(l) == [NoLink EXCEPT !.at = "gone", !.known = l.known]

LinkPurged(p) ==
  /\ manager[p].at = "purge" /\ Joined(p, manager[p].purges)
  /\ link' = [link EXCEPT ![p][manager[p].purges] = Destroyed(@)]
  /\ manager' = [manager EXCEPT ![p].at = "loop", ![p].purges = NoConn]
  /\ UNCHANGED <<dials, dialled, conn>>

StopManager(p) ==
  /\ manager[p].on
  /\ manager' = [manager EXCEPT ![p].on = FALSE, ![p].io = FALSE]
  /\ UNCHANGED <<dials, dialled, conn, link>>

Live(p) == {c \in Conns : link[p][c].at = "live"}

\* After the loop all links are stopped, then all joined, then all destroyed,
\* and only that closes a socket.
CloseLinks(p) ==
  /\ manager[p].at = "loop" /\ ~manager[p].on
  /\ link' = [link EXCEPT ![p] = [c \in Conns |->
                IF c \in Live(p) THEN [@[c] EXCEPT !.on = FALSE] ELSE @[c]]]
  /\ manager' = [manager EXCEPT ![p].at = "close"]
  /\ UNCHANGED <<dials, dialled, conn>>

EndManager(p) ==
  /\ manager[p].at = "close" /\ \A c \in Live(p) : Joined(p, c)
  /\ link' = [link EXCEPT ![p] = [c \in Conns |->
                IF c \in Live(p) THEN Destroyed(@[c]) ELSE @[c]]]
  /\ manager' = [manager EXCEPT ![p].at = "over"]
  /\ UNCHANGED <<dials, dialled, conn>>

\* What the loop does is done before m_running is looked at again.
Manager(p) ==
  \/ p = Client /\ (Connect \/ RunOut \/ \E c \in Conns : Connected(c))
  \/ p = Server /\ \E c \in Conns : Accept(c)
  \/ (\E c \in Conns : PurgeLink(p, c)) \/ LinkPurged(p) \/ CloseLinks(p) \/ EndManager(p)

-----------------------------------------------------------------------------
(* The network.                                                             *)

\* The connection is made when the server listens, whether or not a manager looks.
Open(c) ==
  /\ conn[c] = "dialled" /\ manager[Server].at \notin {"off", "exited"}
  /\ conn' = [conn EXCEPT ![c] = "open"]
  /\ UNCHANGED <<dials, dialled, manager, link>>

\* Nobody listens, or the connection ends.
Break(c) ==
  /\ conn[c] \in {"dialled", "open"}
  /\ conn' = [conn EXCEPT ![c] = "broken"]
  /\ UNCHANGED <<dials, dialled, manager, link>>

\* A process that ends takes its sockets with it.
EndProcess(p) ==
  /\ manager' = [manager EXCEPT ![p].at = "exited"]
  /\ conn' = [c \in Conns |-> IF conn[c] = "open" \/ (conn[c] = "dialled" /\ p = Client)
                              THEN "broken" ELSE conn[c]]
  /\ UNCHANGED <<dials, dialled, link>>

Network == \E c \in Conns : Open(c) \/ Break(c)

-----------------------------------------------------------------------------
(* Properties.                                                             *)

IpLink ==
  [at : {"none", "live", "gone"}, on : BOOLEAN, sender : {"none", "run", "over"},
   receiver : {"none", "read", "over"}, data : BOOLEAN, known : BOOLEAN]

IpTypeOK ==
  /\ dialled \in 0 .. MaxDials /\ dials \in 0 .. dialled
  /\ manager \in [Ends -> [at : {"off", "loop", "purge", "close", "over", "exited"},
                           on : BOOLEAN, io : BOOLEAN, purges : Conns \cup {NoConn}]]
  /\ conn \in [Conns -> {"free", "dialled", "open", "broken"}]
  /\ link \in [Ends -> [Conns -> IpLink]]
=============================================================================
