------------------------------- MODULE Parcels -------------------------------
(***************************************************************************)
(* Messages on their way through the network.                              *)
(*                                                                         *)
(* Router::send cuts a message that is too long for a packet into          *)
(* fragments and queues them.  The send thread of each link takes from the *)
(* queue what its peer is, or leads to, the destination of; the receive    *)
(* thread at the other end hands every packet to the router there, which   *)
(* queues it again, posts it, or collects it in the parcel it belongs to.  *)
(* Parallel links let fragments overtake each other, links fail and are    *)
(* made again, and what waits too long is purged.                          *)
(***************************************************************************)
EXTENDS Integers, Sequences, SequencesExt

CONSTANTS
  Nodes,     \* the Node_IDs
  Msgs,      \* the messages, each with a mailbox of its own
  From, To,  \* From[m], To[m]: the node that sends m, the one of its mailbox
  Frags,     \* Frags[m]: in how many packets m goes off a node
  Links,     \* the directions of links, one send and one receive thread each
  Src, Dst,  \* Src[l], Dst[l]: the two ends
  Vias,      \* Vias[n][o]: the m_vias of the route that n has to o
  Stubborn,  \* the links whose failed send leaves m_running set
  FailLimit, \* bound: how often links fail
  Idle       \* the out_msg of a send thread that holds none

ASSUME ParcelsAssumption ==
  /\ From \in [Msgs -> Nodes] /\ To \in [Msgs -> Nodes]
  /\ \A m \in Msgs : From[m] # To[m]
  /\ Frags \in [Msgs -> Nat \ {0}]
  /\ Src \in [Links -> Nodes] /\ Dst \in [Links -> Nodes]
  /\ Vias \in [Nodes -> [Nodes -> SUBSET Nodes]]
  /\ Stubborn \subseteq Links
  /\ FailLimit \in Nat

Packets == UNION {{m} \X (1 .. Frags[m]) : m \in Msgs}

ASSUME IdleAssumption == Idle \notin Packets

VARIABLES
  sent,      \* history: the messages handed to Router::send
  queue,     \* queue[n]: m_outgoing_msg_que
  link,      \* link[l]: "up", "failed", or "ended" when run_send has returned
  out,       \* out[l]: out_msg of run_send
  wire,      \* wire[l]: packets written and not read yet
  parcel,    \* parcel[m]: fragments copied into the entry of m_parcels
  open,      \* the messages whose mailbox exists
  mail,      \* mail[m]: what was posted to the mailbox, fragments as they came
  lost,      \* history: packets that were dropped
  fails      \* how often a link has failed

vars == <<sent, queue, link, out, wire, parcel, open, mail, lost, fails>>

Init ==
  /\ sent = {} /\ queue = [n \in Nodes |-> <<>>]
  /\ link = [l \in Links |-> "up"]
  /\ out = [l \in Links |-> Idle]
  /\ wire = [l \in Links |-> <<>>]
  /\ parcel = [m \in Msgs |-> <<>>]
  /\ open = Msgs
  /\ mail = [m \in Msgs |-> <<>>]
  /\ lost = {} /\ fails = 0

-----------------------------------------------------------------------------
(* Router::send.                                                            *)

\* The message leaves in one packet or in as many slices as it takes.
Send(m) ==
  /\ m \notin sent
  /\ sent' = sent \cup {m}
  /\ queue' = [queue EXCEPT ![From[m]] = @ \o [k \in 1 .. Frags[m] |-> <<m, k>>]]
  /\ UNCHANGED <<link, out, wire, parcel, open, mail, lost, fails>>

\* What the parcel of m holds once a packet of it has been copied in.  The
\* code counts the bytes still missing down to none.
Collected(p) == Append(parcel[p[1]], p[2])

Complete(p) == Len(Collected(p)) = Frags[p[1]]

\* The parcel entry that stays.
\* Mistake: the entry of the finished parcel is not erased.
LeftCollected(p) == Collected(p)

Left(p) == IF Complete(p) THEN <<>> ELSE Collected(p)

\* A packet reaches the node of its mailbox: dropped, collected or posted.
Deliver(p) ==
  LET m == p[1] IN
  IF m \in open
  THEN /\ parcel' = [parcel EXCEPT ![m] = Left(p)]
       /\ mail' = IF Complete(p) THEN [mail EXCEPT ![m] = Append(@, Collected(p))]
                  ELSE mail
       /\ UNCHANGED <<queue, lost>>
  ELSE /\ lost' = lost \cup {p}
       /\ UNCHANGED <<parcel, mail, queue>>

\* A packet for another node is queued, in the order of arrival.
Forward(n, p) ==
  /\ queue' = [queue EXCEPT ![n] = Append(@, p)]
  /\ UNCHANGED <<parcel, mail, lost>>

-----------------------------------------------------------------------------
(* Link::run_send and Router::get_next_msg.                                 *)

\* Mistake: only the packets that end at the peer are sent down a link.
ViableDirect(l, p) == Dst[l] = To[p[1]]

Viable(l, p) == Dst[l] = To[p[1]] \/ Dst[l] \in Vias[Src[l]][To[p[1]]]

\* The first packet of the queue that this link can bring nearer.
Take(l) ==
  /\ link[l] # "ended" /\ out[l] = Idle
  /\ LET n == Src[l] IN
     \E i \in 1 .. Len(queue[n]) :
       /\ Viable(l, queue[n][i])
       /\ \A j \in 1 .. i - 1 : ~Viable(l, queue[n][j])
       /\ out' = [out EXCEPT ![l] = queue[n][i]]
       /\ queue' = [queue EXCEPT ![n] = RemoveAt(@, i)]
  /\ UNCHANGED <<sent, link, wire, parcel, open, mail, lost, fails>>

\* Mistake: the reference to a packet that was sent is not dropped.
KeptAfter(l) == out

SentFrom(l) == [out EXCEPT ![l] = Idle]

Transmit(l) ==
  /\ link[l] = "up" /\ out[l] # Idle
  /\ wire' = [wire EXCEPT ![l] = Append(@, out[l])]
  /\ out' = SentFrom(l)
  /\ UNCHANGED <<sent, queue, link, parcel, open, mail, lost, fails>>

\* The send fails, or the link is stopped before it: run_send returns and
\* posts the message that was not sent back to the router.
\* Mistake: it just returns.
RepostedNone(l) == queue

Reposted(l) ==
  IF out[l] = Idle THEN queue
  ELSE [queue EXCEPT ![Src[l]] = Append(@, out[l])]

EndSend(l) ==
  /\ link[l] = "failed"
  /\ queue' = Reposted(l)
  /\ out' = [out EXCEPT ![l] = Idle]
  /\ link' = [link EXCEPT ![l] = "ended"]
  /\ UNCHANGED <<sent, wire, parcel, open, mail, lost, fails>>

\* The send fails and the thread runs on: get_next_msg overwrites out_msg.
Overwrite(l) ==
  /\ link[l] = "failed" /\ l \in Stubborn /\ out[l] # Idle
  /\ lost' = lost \cup {out[l]}
  /\ out' = [out EXCEPT ![l] = Idle]
  /\ UNCHANGED <<sent, queue, link, wire, parcel, open, mail, fails>>

-----------------------------------------------------------------------------
(* Link::run_receive.                                                       *)

\* What was written before a link failed may still be read after it.
Receive(l) ==
  /\ wire[l] # <<>>
  /\ LET p == Head(wire[l]) IN
     IF To[p[1]] = Dst[l] THEN Deliver(p) ELSE Forward(Dst[l], p)
  /\ wire' = [wire EXCEPT ![l] = Tail(@)]
  /\ UNCHANGED <<sent, link, out, open, fails>>

-----------------------------------------------------------------------------
(* Failures, and the purging of Router::purge_routes.                       *)

\* Of what was written only a first part still arrives.
Fail(l) ==
  /\ link[l] = "up" /\ fails < FailLimit
  /\ link' = [link EXCEPT ![l] = "failed"]
  /\ fails' = fails + 1
  /\ \E k \in 0 .. Len(wire[l]) :
       /\ wire' = [wire EXCEPT ![l] = SubSeq(@, 1, k)]
       /\ lost' = lost \cup ToSet(SubSeq(wire[l], k + 1, Len(wire[l])))
  /\ UNCHANGED <<sent, queue, out, parcel, open, mail>>

\* The link manager drops the dead link and a new one is made.
Reconnect(l) ==
  /\ link[l] = "ended" /\ wire[l] = <<>>
  /\ link' = [link EXCEPT ![l] = "up"]
  /\ UNCHANGED <<sent, queue, out, wire, parcel, open, mail, lost, fails>>

\* A packet has waited for MAX_MESSAGE_AGE.
PurgeMessage(n) ==
  /\ \E i \in 1 .. Len(queue[n]) :
       /\ queue' = [queue EXCEPT ![n] = RemoveAt(@, i)]
       /\ lost' = lost \cup {queue[n][i]}
  /\ UNCHANGED <<sent, link, out, wire, parcel, open, mail, fails>>

\* A parcel is still incomplete after MAX_PARCEL_AGE.
PurgeParcel(m) ==
  /\ parcel[m] # <<>>
  /\ lost' = lost \cup ({m} \X ToSet(parcel[m]))
  /\ parcel' = [parcel EXCEPT ![m] = <<>>]
  /\ UNCHANGED <<sent, queue, link, out, wire, open, mail, fails>>

\* The receiver frees its mailbox.  The parcel stays until it is purged.
Close(m) ==
  /\ m \in open
  /\ open' = open \ {m}
  /\ UNCHANGED <<sent, queue, link, out, wire, parcel, mail, lost, fails>>

-----------------------------------------------------------------------------

SendThread(l) == Take(l) \/ Transmit(l) \/ EndSend(l) \/ Overwrite(l)

Next ==
  \/ \E m \in Msgs : Send(m) \/ Close(m) \/ PurgeParcel(m)
  \/ \E n \in Nodes : PurgeMessage(n)
  \/ \E l \in Links : SendThread(l) \/ Receive(l) \/ Fail(l) \/ Reconnect(l)

Spec == Init /\ [][Next]_vars

\* The link threads run, and the manager makes a new link for one that ended.
FairSpec ==
  /\ Spec
  /\ \A l \in Links : WF_vars(SendThread(l)) /\ WF_vars(Receive(l))
                        /\ WF_vars(Reconnect(l))

-----------------------------------------------------------------------------
(* Properties.                                                             *)

\* Every variable keeps its type.  A parcel is never left complete.
TypeOK ==
  /\ sent \subseteq Msgs /\ open \subseteq Msgs
  /\ queue \in [Nodes -> Seq(Packets)]
  /\ link \in [Links -> {"up", "failed", "ended"}]
  /\ out \in [Links -> Packets \cup {Idle}]
  /\ wire \in [Links -> Seq(Packets)]
  /\ parcel \in [Msgs -> Seq(Nat)] /\ mail \in [Msgs -> Seq(Seq(Nat))]
  /\ \A m \in Msgs : /\ parcel[m] \in Seq(1 .. Frags[m])
                     /\ Len(parcel[m]) < Frags[m]
                     /\ mail[m] \in Seq(Seq(1 .. Frags[m]))
  /\ lost \subseteq Packets /\ fails \in 0 .. FailLimit

\* Whatever way its packets take, in whatever order they come and whatever was
\* purged before, a message is put into its mailbox once and whole, or never:
\* the bytes that a parcel counts are those of all its fragments, each of them
\* once, and a message that a packet was dropped of is not delivered after all.
Service == INSTANCE Delivery WITH
  Whole <- [m \in Msgs |-> 1 .. Frags[m]],
  box <- [m \in Msgs |-> [i \in 1 .. Len(mail[m]) |-> ToSet(mail[m][i])]],
  dropped <- {p[1] : p \in lost}

IsDelivery == Service!Spec

\* Where the sequences f[x] of a kind of place have e.
Spots(kind, D, f, e) ==
  UNION {{<<kind, x, i>> : i \in {j \in 1 .. Len(f[x]) : f[x][j] = e}} : x \in D}

\* Where a packet is: queued, held by a send thread, on a link, in a parcel,
\* in a mailbox, or gone.
Places(p) ==
  Spots("queue", Nodes, queue, p)
  \cup {<<"out", l>> : l \in {x \in Links : out[x] = p}}
  \cup Spots("wire", Links, wire, p)
  \cup Spots("parcel", {p[1]}, parcel, p[2])
  \cup Spots("mail", 1 .. Len(mail[p[1]]), mail[p[1]], p[2])
  \cup (IF p \in lost THEN {<<"lost">>} ELSE {})

\* A packet of a message that was sent is in one place, never in two and never
\* in none: a link that fails or is stopped at any moment neither doubles nor
\* forgets the packet its send thread holds.
Conserved ==
  \A p \in Packets :
    IF p[1] \in sent THEN \E place \in Places(p) : Places(p) = {place} ELSE Places(p) = {}

\* A message that was sent arrives, over as many nodes and through as many
\* failures as it takes, unless one of its packets is dropped or the receiver
\* has gone.
Arrives ==
  \A m \in Msgs :
    m \in sent ~> \/ mail[m] # <<>>
                  \/ m \notin open
                  \/ \E k \in 1 .. Frags[m] : <<m, k>> \in lost

=============================================================================
