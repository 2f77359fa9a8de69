-------------------------- MODULE FileTransferProofs --------------------------
(***************************************************************************)
(* Proofs about the file transfers: every variable keeps its type and the  *)
(* source stays within two windows whatever is lost and whoever gives up;  *)
(* and where no two transfers share a temporary file, a transfer that is   *)
(* reported to be all right is whole.                                      *)
(***************************************************************************)
EXTENDS FileTransfer, FiniteSetTheorems, TLAPS

\* The chunks, or the acknowledgements, of x that are on their way.
Flight(what, x) == {k \in Positions : <<what, x, k>> \in net}

\* A job is queued once, in one pool.
QueuedOnce ==
  \A p, q \in Pools : \A i \in 1 .. Len(pool[p]) : \A k \in 1 .. Len(pool[q]) :
    /\ stage[pool[p][i]] = "queued"
    /\ pool[p][i] = pool[q][k] => p = q /\ i = k

\* A request is sent once, by a job that has started, and starts a job once.
RequestedOnce(x) ==
  LET ask == stage[<<"ask", x>>]  receive == stage[<<"receive", x>>]
      send == stage[<<"send", x>>]
  IN  /\ <<"receive", x>> \in net => receive = "none"
      /\ <<"receive", x>> \in net \/ receive # "none" => ask \notin {"none", "queued"}
      /\ <<"send", x>> \in net => send = "none"
      /\ <<"send", x>> \in net \/ send # "none" => receive \notin {"none", "queued"}

\* A chunk is sent once, and is on its way, written or lost.
SentOnce(x) ==
  /\ stage[<<"send", x>>] \in {"none", "queued"} => sent[x] = 0
  /\ stage[<<"send", x>>] = "going" => sent[x] < Chunks[x]
  /\ \A k \in Flight("chunk", x) : k <= sent[x]
  /\ got[x] + Cardinality(Flight("chunk", x)) <= sent[x]

\* The destination has sent d acknowledgements, one for the first chunk of every
\* window it has begun; the source has read c, one for every window it has sent
\* but the last.  None is read that was not sent.
Paced(x) ==
  /\ \A i \in Flight("ack", x) : i <= got[x]
  /\ stage[<<"send", x>>] # "ended" =>
       \E c, d \in Nat :
         /\ d * Window < got[x] + Window
         /\ c + Cardinality(Flight("ack", x)) <= d
         /\ c * Window <= sent[x]
         /\ IF stage[<<"send", x>>] = "waiting" THEN sent[x] = (c + 1) * Window
            ELSE sent[x] < (c + 1) * Window

\* The inductive invariant.
IInv ==
  /\ TypeOK /\ QueuedOnce /\ WithinTwoWindows
  /\ \A x \in Transfers : RequestedOnce(x) /\ SentOnce(x) /\ Paced(x)

\* The chunks of x that have been written.
Written(x) == {k \in Positions : temp[Temp[x]][k] = x}

\* While a transfer goes on its temporary file holds its chunks; when it has been
\* copied the asker may know.
Kept(x) ==
  /\ stage[<<"receive", x>>] = "waiting" /\ got[x] > 0 =>
       /\ x \in stream
       /\ \A k \in Positions : temp[Temp[x]][k] \in {x, None}
       /\ Cardinality(Written(x)) = got[x]
       /\ \A k \in Written(x) : k <= sent[x] /\ k \notin Flight("chunk", x)
  /\ stage[<<"receive", x>>] = "whole" => temp[Temp[x]] = Contents(x)
  /\ <<"done", x>> \in net \/ result[x] = "ok" =>
       stage[<<"receive", x>>] = "ended" /\ file[x] = Contents(x)

OwnTempFiles == \A x, y \in Transfers : Temp[x] = Temp[y] => x = y

WholeIInv == IInv /\ \A x \in Transfers : Kept(x)

-----------------------------------------------------------------------------
(* Arithmetic.                                                             *)

\* Multiples are ordered as what they are multiples of.
LEMMA TimesLess ==
  ASSUME NEW a \in Int, NEW b \in Int, NEW w \in Nat \ {0}, a * w < b * w
  PROVE  a + 1 <= b
<1>1. ASSUME b <= a PROVE FALSE
  <2>1. PICK d \in Nat : a = b + d
    <3>1. a - b \in Nat /\ a = b + (a - b)
      BY <1>1
    <3> QED BY <3>1
  <2>2. a * w = b * w + d * w
    BY <2>1
  <2>3. d * w >= 0
    OBVIOUS
  <2>4. a * w \in Int /\ b * w \in Int /\ d * w \in Int
    OBVIOUS
  <2> HIDE <2>1
  <2> QED BY <2>2, <2>3, <2>4
<1> QED BY <1>1

\* What leaves no remainder is a multiple, and the other way round.
LEMMA Multiple ==
  ASSUME NEW n \in Nat, NEW w \in Nat \ {0}, n % w = 0
  PROVE  \E q \in Nat : n = q * w
<1>1. n = w * (n \div w) + (n % w) /\ n \div w \in Nat
  OBVIOUS
<1> QED BY <1>1

LEMMA NoRemainder ==
  ASSUME NEW q \in Nat, NEW w \in Nat \ {0}
  PROVE  (q * w) % w = 0
OBVIOUS

-----------------------------------------------------------------------------
(* Types and initial states.                                               *)

\* What the assumption says, one thing at a time.
LEMMA Constants ==
  /\ By \in [Transfers -> Services] /\ To \in [Transfers -> Services]
  /\ Of \in [Transfers -> Services] /\ Longest \in Nat \ {0}
  /\ \A x \in Transfers : Chunks[x] \in Nat /\ Chunks[x] <= Longest /\ Temp[x] \in TempFiles
  /\ Window \in Nat \ {0} /\ None \notin Transfers
BY FileTransferAssumption DEF TempFiles

\* A job has a pool.
LEMMA JobPools ==
  ASSUME NEW j \in Jobs
  PROVE  /\ PoolOf(j) \in Pools /\ j[2] \in Transfers
         /\ j[1] \in {"ask", "receive", "send"} /\ j = <<j[1], j[2]>>
BY Constants DEF Jobs, PoolOf, Pools

\* The chunks, or the acknowledgements, on their way are finitely many.
LEMMA Flights ==
  ASSUME NEW what, NEW x
  PROVE  /\ IsFiniteSet(Flight(what, x)) /\ Flight(what, x) \subseteq Positions
         /\ Cardinality(Flight(what, x)) \in Nat
<1>1. IsFiniteSet(Positions)
  BY Constants, FS_Interval DEF Positions
<1> QED BY <1>1, FS_Subset, FS_CardinalityType DEF Flight

\* The messages there are.
LEMMA MessageTypes ==
  ASSUME NEW x \in Transfers
  PROVE  /\ \A kind \in {"receive", "send", "done", "no file"} : <<kind, x>> \in Messages
         /\ \A what \in {"chunk", "ack"} : \A k \in Positions : <<what, x, k>> \in Messages
BY DEF Messages

\* The initial states.
LEMMA InitType == Init => TypeOK
<1> SUFFICES ASSUME Init PROVE TypeOK
  OBVIOUS
<1>1. pool \in [Pools -> Seq(Jobs)]
  BY DEF Init
<1>2. Empty \in [Positions -> Transfers \cup {None}]
  BY DEF Empty
<1> QED BY <1>1, <1>2, Constants DEF Init, TypeOK

\* The initial states.
LEMMA InitInv == Init => IInv
<1> SUFFICES ASSUME Init PROVE IInv
  OBVIOUS
<1>1. QueuedOnce
  BY DEF Init, QueuedOnce
<1>2. WithinTwoWindows
  BY Constants DEF Init, WithinTwoWindows
<1>3. ASSUME NEW x \in Transfers PROVE RequestedOnce(x) /\ SentOnce(x) /\ Paced(x)
  <2>1. /\ stage[<<"ask", x>>] = "none" /\ stage[<<"receive", x>>] = "none"
        /\ stage[<<"send", x>>] = "none"
    BY DEF Init, Jobs
  <2>2. net = {} /\ sent[x] = 0 /\ got[x] = 0
    BY DEF Init
  <2>3. \A what : Flight(what, x) = {}
    BY <2>2 DEF Flight
  <2>4. \A what : Cardinality(Flight(what, x)) = 0
    BY <2>3, FS_EmptySet
  <2>5. RequestedOnce(x)
    BY <2>1, <2>2 DEF RequestedOnce
  <2>6. SentOnce(x)
    BY <2>1, <2>2, <2>3, <2>4 DEF SentOnce
  <2>7. /\ 0 * Window < 0 + Window /\ 0 + 0 <= 0 /\ 0 * Window <= 0 /\ 0 < (0 + 1) * Window
    BY Constants
  <2>8. Paced(x)
    BY <2>1, <2>2, <2>3, <2>4, <2>7 DEF Paced
  <2> QED BY <2>5, <2>6, <2>8
<1> QED BY <1>1, <1>2, <1>3, InitType DEF IInv

-----------------------------------------------------------------------------
(* What a step leaves alone.                                               *)

\* Of the jobs only j has gone on, from one step of its work to the next.
Works(j) ==
  \A i \in Jobs : stage'[i] # stage[i] =>
    i = j /\ stage[i] \in Running /\ stage'[i] \in Running \cup {"ended"}

\* The requests on their way are old ones.
NoRequest == \A kind \in {"receive", "send"} : \A x \in Transfers :
               <<kind, x>> \in net' => <<kind, x>> \in net

\* A job that goes on leaves the queues as they are.
LEMMA QueuedKept ==
  ASSUME QueuedOnce, TypeOK, NEW j \in Jobs, Works(j), UNCHANGED pool
  PROVE  QueuedOnce'
<1>1. ASSUME NEW p \in Pools, NEW i \in 1 .. Len(pool[p])
      PROVE  stage'[pool[p][i]] = "queued"
  <2>1. pool[p][i] \in Jobs
    <3>1. pool[p] \in Seq(Jobs)
      BY DEF TypeOK
    <3> QED BY <3>1
  <2>2. stage[pool[p][i]] = "queued"
    BY DEF QueuedOnce
  <2> QED BY <2>1, <2>2 DEF Works, Running
<1> QED BY <1>1 DEF QueuedOnce

\* So does it leave the requests.
LEMMA RequestedKept ==
  ASSUME NEW x \in Transfers, RequestedOnce(x), NEW j \in Jobs, Works(j), NoRequest
  PROVE  RequestedOnce(x)'
<1> DEFINE J == {<<"ask", x>>, <<"receive", x>>, <<"send", x>>}
<1>1. J \subseteq Jobs
  BY DEF Jobs
<1>2. \A i \in J : /\ stage'[i] = "none" <=> stage[i] = "none"
                   /\ stage'[i] = "queued" <=> stage[i] = "queued"
  BY <1>1 DEF Works, Running
<1>3. \A kind \in {"receive", "send"} : <<kind, x>> \in net' => <<kind, x>> \in net
  BY DEF NoRequest
<1> QED BY <1>2, <1>3 DEF RequestedOnce

\* The source of x has stopped at most.
SourceRests(x) ==
  stage'[<<"send", x>>] = stage[<<"send", x>>] \/ stage'[<<"send", x>>] = "ended"

\* Messages that go, and a source that stops, do no harm to the count of the chunks,
LEMMA SentKept ==
  ASSUME NEW x \in Transfers, SentOnce(x), TypeOK, SourceRests(x),
         sent'[x] = sent[x], got'[x] = got[x],
         Flight("chunk", x)' \subseteq Flight("chunk", x)
  PROVE  SentOnce(x)'
<1>1. Cardinality(Flight("chunk", x)') <= Cardinality(Flight("chunk", x))
  BY Flights, FS_Subset
<1>2. /\ Cardinality(Flight("chunk", x)') \in Nat /\ Cardinality(Flight("chunk", x)) \in Nat
  BY Flights, FS_Subset, FS_CardinalityType
<1>3. got[x] \in Nat /\ sent[x] \in Nat
  BY DEF TypeOK
<1>4. got[x] + Cardinality(Flight("chunk", x)) <= sent[x]
  BY DEF SentOnce
<1>5. got[x] + Cardinality(Flight("chunk", x)') <= sent[x]
  BY <1>1, <1>2, <1>3, <1>4
<1> QED BY <1>5 DEF SentOnce, SourceRests

\* nor to that of the acknowledgements.
LEMMA PacedKept ==
  ASSUME NEW x \in Transfers, Paced(x), TypeOK, SourceRests(x),
         sent'[x] = sent[x], got'[x] = got[x],
         Flight("ack", x)' \subseteq Flight("ack", x)
  PROVE  Paced(x)'
<1>1. Cardinality(Flight("ack", x)') <= Cardinality(Flight("ack", x))
  BY Flights, FS_Subset
<1>2. /\ Cardinality(Flight("ack", x)') \in Nat /\ Cardinality(Flight("ack", x)) \in Nat
  BY Flights, FS_Subset, FS_CardinalityType
<1>3. CASE stage'[<<"send", x>>] = "ended"
  BY <1>3 DEF Paced
<1>4. CASE stage'[<<"send", x>>] # "ended"
  <2>1. stage'[<<"send", x>>] = stage[<<"send", x>>]
    BY <1>4 DEF SourceRests
  <2>2. PICK c, d \in Nat :
         /\ d * Window < got[x] + Window
         /\ c + Cardinality(Flight("ack", x)) <= d
         /\ c * Window <= sent[x]
         /\ IF stage[<<"send", x>>] = "waiting" THEN sent[x] = (c + 1) * Window
            ELSE sent[x] < (c + 1) * Window
    BY <1>4, <2>1 DEF Paced
  <2>3. c + Cardinality(Flight("ack", x)') <= d
    BY <1>1, <1>2, <2>2
  <2> HIDE <1>1, <1>2
  <2> QED BY <2>1, <2>2, <2>3 DEF Paced
<1> QED BY <1>3, <1>4

\* A step that is not about x leaves what is said of x as it was.
Aside(x) ==
  /\ \A kind \in {"ask", "receive", "send"} : stage'[<<kind, x>>] = stage[<<kind, x>>]
  /\ sent'[x] = sent[x] /\ got'[x] = got[x]
  /\ \A m \in net' : m[2] = x => m \in net

\* Such a step keeps what the invariant says of x.
LEMMA AsideKept ==
  ASSUME NEW x \in Transfers, IInv, Aside(x)
  PROVE  RequestedOnce(x)' /\ SentOnce(x)' /\ Paced(x)'
<1>1. RequestedOnce(x) /\ SentOnce(x) /\ Paced(x) /\ TypeOK
  BY DEF IInv
<1>2. \A kind : <<kind, x>> \in net' => <<kind, x>> \in net
  BY DEF Aside
<1>3. \A what : Flight(what, x)' \subseteq Flight(what, x)
  <2>1. \A what : \A k : <<what, x, k>> \in net' => <<what, x, k>> \in net
    BY DEF Aside
  <2> QED BY <2>1 DEF Flight
<1>4. RequestedOnce(x)'
  BY <1>1, <1>2 DEF Aside, RequestedOnce
<1>5. SourceRests(x)
  BY DEF Aside, SourceRests
<1>6. SentOnce(x)'
  BY <1>1, <1>3, <1>5, SentKept DEF Aside
<1>7. Paced(x)'
  BY <1>1, <1>3, <1>5, PacedKept DEF Aside
<1> QED BY <1>4, <1>6, <1>7

\* A step that takes no message in and sends none that the invariant counts.
LEMMA WorkKept ==
  ASSUME IInv, NEW j \in Jobs, Works(j), NoRequest, TypeOK', UNCHANGED <<pool, sent, got>>,
         \A x \in Transfers : SourceRests(x),
         \A what \in {"chunk", "ack"} : \A x \in Transfers : Flight(what, x)' \subseteq Flight(what, x)
  PROVE  IInv'
<1>1. QueuedOnce'
  BY QueuedKept DEF IInv
<1>2. WithinTwoWindows'
  BY DEF IInv, WithinTwoWindows
<1>3. ASSUME NEW x \in Transfers PROVE RequestedOnce(x)' /\ SentOnce(x)' /\ Paced(x)'
  <2>1. RequestedOnce(x) /\ SentOnce(x) /\ Paced(x) /\ TypeOK
    BY DEF IInv
  <2>2. SourceRests(x) /\ sent'[x] = sent[x] /\ got'[x] = got[x]
    OBVIOUS
  <2>3. Flight("chunk", x)' \subseteq Flight("chunk", x) /\ Flight("ack", x)' \subseteq Flight("ack", x)
    OBVIOUS
  <2>4. RequestedOnce(x)'
    BY <2>1, RequestedKept
  <2>5. SentOnce(x)'
    BY <2>1, <2>2, <2>3, SentKept
  <2>6. Paced(x)'
    BY <2>1, <2>2, <2>3, PacedKept
  <2> QED BY <2>4, <2>5, <2>6
<1> QED BY <1>1, <1>2, <1>3 DEF IInv

-----------------------------------------------------------------------------
(* The steps of a job that only ends.                                      *)

\* Finish keeps the invariant.
LEMMA FinishKeeps ==
  ASSUME IInv, NEW x \in Transfers, Finish(x)
  PROVE  IInv'
<1> DEFINE j == <<"receive", x>>
<1>1. TypeOK /\ j \in Jobs
  BY DEF IInv, Jobs
<1>2. stage' = [stage EXCEPT ![j] = "ended"] /\ stage[j] = "whole"
  BY DEF Finish
<1>3. Works(j)
  BY <1>1, <1>2 DEF Works, Running, TypeOK
<1>4. net' = net \cup {<<"done", x>>} /\ UNCHANGED <<pool, sent, got>>
  BY DEF Finish
<1>5. TypeOK'
  <2>1. temp[Temp[x]] \in [Positions -> Transfers \cup {None}] /\ Temp[x] \in TempFiles
    BY <1>1, Constants DEF TypeOK
  <2>2. Empty \in [Positions -> Transfers \cup {None}]
    BY DEF Empty
  <2>3. file' \in [Transfers -> [Positions -> Transfers \cup {None}]]
    BY <1>1, <2>1 DEF TypeOK, Finish
  <2>4. temp' \in [TempFiles -> [Positions -> Transfers \cup {None}]]
    BY <1>1, <2>1, <2>2 DEF TypeOK, Finish
  <2>5. stream' \subseteq Transfers
    BY <1>1 DEF TypeOK, Finish
  <2>6. stage' \in [Jobs -> Running \cup {"none", "queued", "ended"}]
    BY <1>1, <1>2 DEF TypeOK
  <2>7. net' \subseteq Messages
    BY <1>1, <1>4, MessageTypes DEF TypeOK
  <2>8. result' = result
    BY DEF Finish
  <2> QED BY <1>1, <1>4, <2>3, <2>4, <2>5, <2>6, <2>7, <2>8 DEF TypeOK
<1>6. NoRequest
  BY <1>4 DEF NoRequest
<1>7. \A y \in Transfers : SourceRests(y)
  BY <1>1, <1>2 DEF SourceRests, Jobs, TypeOK
<1>8. \A what \in {"chunk", "ack"} : \A y \in Transfers : Flight(what, y)' \subseteq Flight(what, y)
  BY <1>4 DEF Flight
<1> QED BY <1>1, <1>3, <1>4, <1>5, <1>6, <1>7, <1>8, WorkKept

\* A job reads a message and ends, or ends without one.
LEMMA EndKeeps ==
  ASSUME IInv, NEW j \in Jobs, stage[j] = "waiting", stage' = [stage EXCEPT ![j] = "ended"],
         net' \subseteq net, result' \in [Transfers -> {"none", "ok", "error"}],
         UNCHANGED <<pool, sent, got, temp, stream, file>>
  PROVE  IInv'
<1>1. TypeOK
  BY DEF IInv
<1>2. Works(j)
  BY <1>1 DEF Works, Running, TypeOK
<1>3. TypeOK'
  <2>1. stage' \in [Jobs -> Running \cup {"none", "queued", "ended"}]
    BY <1>1 DEF TypeOK
  <2> QED BY <1>1, <2>1 DEF TypeOK
<1>4. NoRequest
  BY DEF NoRequest
<1>5. \A y \in Transfers : SourceRests(y)
  BY <1>1 DEF SourceRests, Jobs, TypeOK
<1>6. \A what \in {"chunk", "ack"} : \A y \in Transfers : Flight(what, y)' \subseteq Flight(what, y)
  BY DEF Flight
<1> QED BY <1>2, <1>3, <1>4, <1>5, <1>6, WorkKept

\* NoFile keeps the invariant.
LEMMA NoFileKeeps ==
  ASSUME IInv, NEW x \in Transfers, NoFile(x)
  PROVE  IInv'
<1>1. <<"receive", x>> \in Jobs
  BY DEF Jobs
<1>2. net' \subseteq net /\ result' \in [Transfers -> {"none", "ok", "error"}]
  BY DEF IInv, TypeOK, NoFile
<1> QED BY <1>1, <1>2, EndKeeps DEF NoFile

\* TransferOK keeps it.
LEMMA TransferOKKeeps ==
  ASSUME IInv, NEW x \in Transfers, TransferOK(x)
  PROVE  IInv'
<1>1. <<"ask", x>> \in Jobs
  BY DEF Jobs
<1>2. net' \subseteq net /\ result' \in [Transfers -> {"none", "ok", "error"}]
  BY DEF IInv, TypeOK, TransferOK
<1> QED BY <1>1, <1>2, EndKeeps DEF TransferOK

\* Timeout keeps it.
LEMMA TimeoutKeeps ==
  ASSUME IInv, NEW j \in Jobs, Timeout(j)
  PROVE  IInv'
<1>1. net' \subseteq net
  BY DEF Timeout
<1>2. result' \in [Transfers -> {"none", "ok", "error"}]
  BY DEF IInv, TypeOK, Timeout
<1> QED BY <1>1, <1>2, EndKeeps DEF Timeout, Impatient

\* A message that is lost changes nothing.
LEMMA LoseKeeps ==
  ASSUME IInv, NEW m \in net, Lose(m)
  PROVE  IInv'
<1>1. net' \subseteq net /\ UNCHANGED <<pool, stage, result, sent, got, temp, stream, file>>
  BY DEF Lose
<1>2. TypeOK'
  BY <1>1 DEF IInv, TypeOK
<1>3. QueuedOnce' /\ WithinTwoWindows'
  BY <1>1 DEF IInv, QueuedOnce, WithinTwoWindows
<1>4. \A y \in Transfers : Aside(y)
  BY <1>1 DEF Aside
<1> QED BY <1>2, <1>3, <1>4, AsideKept DEF IInv

-----------------------------------------------------------------------------
(* The source sends a chunk and reads an acknowledgement.                  *)

\* A step of a job of x does not touch the other transfers.
LEMMA JobAside ==
  ASSUME TypeOK, NEW x \in Transfers, NEW y \in Transfers \ {x}, NEW j \in Jobs, j[2] = x,
         NEW next, stage' = [stage EXCEPT ![j] = next],
         sent'[y] = sent[y], got'[y] = got[y],
         \A m \in net' : m \in net \/ m[2] = x
  PROVE  Aside(y)
<1>1. \A kind \in {"ask", "receive", "send"} : <<kind, y>> # j /\ <<kind, y>> \in Jobs
  BY DEF Jobs
<1> QED BY <1>1 DEF Aside, TypeOK

\* Where the source is when it sends chunk n, the last of a window or not.
LEMMA NextPace ==
  ASSUME NEW n \in Nat \ {0}, NEW c \in Nat, c * Window <= n - 1, n - 1 < (c + 1) * Window
  PROVE  /\ c * Window <= n
         /\ WindowFull(n) => n = (c + 1) * Window
         /\ ~WindowFull(n) => n < (c + 1) * Window
<1>1. Window \in Nat \ {0} /\ c + 1 \in Nat /\ c + 2 \in Nat
  BY Constants
<1>2. c * Window \in Int /\ (c + 1) * Window \in Int
  BY <1>1
<1>3. ASSUME WindowFull(n) PROVE n = (c + 1) * Window
  <2>1. PICK q \in Nat : n = q * Window
    BY <1>1, <1>3, Multiple DEF WindowFull
  <2>2. c + 1 <= q
    <3>1. c * Window < q * Window
      BY <1>2, <2>1
    <3> QED BY <1>1, <3>1, TimesLess
  <2>3. q <= c + 1
    <3>1. (c + 2) * Window = (c + 1) * Window + Window
      BY <1>1
    <3>2. q * Window < (c + 2) * Window
      BY <1>1, <1>2, <2>1, <3>1
    <3>3. q + 1 <= c + 2
      BY <1>1, <3>2, TimesLess
    <3> QED BY <3>3
  <2>4. q = c + 1
    BY <2>2, <2>3
  <2> QED BY <2>1, <2>4
<1>4. ASSUME ~WindowFull(n) PROVE n < (c + 1) * Window
  <2>1. n # (c + 1) * Window
    BY <1>1, <1>4, NoRemainder DEF WindowFull
  <2> QED BY <1>2, <2>1
<1> QED BY <1>2, <1>3, <1>4

\* A source that keeps its pace is not two windows ahead.
LEMMA PaceBounds ==
  ASSUME NEW n \in Nat, NEW g \in Nat, NEW c \in Nat, NEW d \in Nat, c <= d,
         d * Window < g + Window, n <= (c + 1) * Window
  PROVE  n - g < 2 * Window
<1>1. Window \in Nat \ {0}
  BY Constants
<1>2. c * Window \in Int /\ d * Window \in Int /\ (c + 1) * Window = c * Window + Window
  BY <1>1
<1>3. c * Window <= d * Window
  <2>1. ASSUME d * Window < c * Window PROVE FALSE
    <3>1. d + 1 <= c
      BY <1>1, <2>1, TimesLess
    <3> QED BY <3>1
  <2> QED BY <1>2, <2>1
<1>4. \A a, b, w \in Int : a <= b /\ b < g + w /\ n <= a + w => n - g < 2 * w
  OBVIOUS
<1> QED BY <1>1, <1>2, <1>3, <1>4

\* SendChunk keeps the invariant.
LEMMA SendChunkKeeps ==
  ASSUME IInv, NEW x \in Transfers, SendChunk(x)
  PROVE  IInv'
<1> DEFINE n == sent[x] + 1
           j == <<"send", x>>
           next == IF WindowFull(n) THEN "waiting" ELSE IF More(x, n) THEN "going" ELSE "ended"
<1>1. /\ TypeOK /\ QueuedOnce /\ WithinTwoWindows /\ RequestedOnce(x) /\ SentOnce(x) /\ Paced(x)
      /\ j \in Jobs /\ j[2] = x
  BY DEF IInv, Jobs
<1>2. /\ stage[j] = "going" /\ stage' = [stage EXCEPT ![j] = next]
      /\ net' = net \cup {<<"chunk", x, n>>} /\ sent' = [sent EXCEPT ![x] = n]
      /\ UNCHANGED <<pool, result, got, temp, stream, file>>
  BY DEF SendChunk
<1>3. /\ sent[x] \in Nat /\ got[x] \in Nat /\ Chunks[x] \in Nat /\ n \in Nat \ {0}
      /\ got[x] <= sent[x]
  BY <1>1, Constants DEF TypeOK
<1>4. sent'[x] = n /\ stage'[j] = next /\ got'[x] = got[x]
  BY <1>1, <1>2 DEF TypeOK
<1>5. n <= Chunks[x] /\ n \in Positions
  <2>1. sent[x] < Chunks[x]
    BY <1>1, <1>2 DEF SentOnce
  <2> QED BY <2>1, <1>3, Constants DEF Positions
<1>6. next \in Running \cup {"ended"} /\ next # "none" /\ next # "queued"
  BY DEF Running
<1> HIDE DEF n, next
<1>7. Works(j)
  BY <1>1, <1>2, <1>6 DEF Works, Running, TypeOK
<1>8. TypeOK'
  <2>1. stage' \in [Jobs -> Running \cup {"none", "queued", "ended"}]
    BY <1>1, <1>2, <1>6 DEF TypeOK
  <2>2. net' \subseteq Messages
    BY <1>1, <1>2, <1>5, MessageTypes DEF TypeOK
  <2>3. sent' \in [Transfers -> Nat]
    BY <1>1, <1>2, <1>3 DEF TypeOK
  <2>4. \A y \in Transfers : got'[y] <= sent'[y] /\ sent'[y] <= Chunks[y]
    BY <1>1, <1>2, <1>3, <1>5 DEF TypeOK, n
  <2> QED BY <1>1, <1>2, <2>1, <2>2, <2>3, <2>4 DEF TypeOK
<1>9. QueuedOnce'
  BY <1>1, <1>2, <1>7, QueuedKept
<1>10. RequestedOnce(x)'
  <2>1. NoRequest
    BY <1>2 DEF NoRequest
  <2> QED BY <1>1, <1>7, <2>1, RequestedKept
<1>11. Flight("chunk", x)' = Flight("chunk", x) \cup {n} /\ Flight("ack", x)' = Flight("ack", x)
  BY <1>2, <1>5 DEF Flight
<1>12. \A k \in Flight("chunk", x) : k <= sent[x]
  BY <1>1 DEF SentOnce
<1>13. Cardinality(Flight("chunk", x)') = Cardinality(Flight("chunk", x)) + 1
  <2>1. n \notin Flight("chunk", x)
    BY <1>3, <1>12 DEF n
  <2> QED BY <1>11, <2>1, Flights, FS_AddElement
<1>14. SentOnce(x)'
  <2>1. got[x] + Cardinality(Flight("chunk", x)) <= sent[x] /\ Cardinality(Flight("chunk", x)) \in Nat
    BY <1>1, Flights DEF SentOnce
  <2>2. got[x] + (Cardinality(Flight("chunk", x)) + 1) <= n
    BY <1>3, <2>1 DEF n
  <2>3. \A k \in Flight("chunk", x)' : k <= n
    <3>1. \A k \in Flight("chunk", x) : k \in Nat
      BY Constants DEF Flight, Positions
    <3> QED BY <1>3, <1>11, <1>12, <3>1 DEF n
  <2>4. next = "going" => n < Chunks[x]
    BY DEF next, More
  <2> QED BY <1>4, <1>6, <1>13, <2>2, <2>3, <2>4 DEF SentOnce
<1>15. PICK c, d \in Nat :
         /\ d * Window < got[x] + Window
         /\ c + Cardinality(Flight("ack", x)) <= d
         /\ c * Window <= sent[x]
         /\ sent[x] < (c + 1) * Window
  BY <1>1, <1>2 DEF Paced
<1>16. /\ c * Window <= n
       /\ WindowFull(n) => n = (c + 1) * Window
       /\ ~WindowFull(n) => n < (c + 1) * Window
  <2>1. n - 1 = sent[x]
    BY <1>3 DEF n
  <2> QED BY <1>3, <1>15, <2>1, NextPace
<1>17. Paced(x)'
  <2>1. next = "waiting" <=> WindowFull(n)
    BY DEF next
  <2>2. \A i \in Flight("ack", x)' : i <= got'[x]
    BY <1>1, <1>4, <1>11 DEF Paced
  <2>3. /\ d * Window < got'[x] + Window
        /\ c + Cardinality(Flight("ack", x)') <= d
    BY <1>4, <1>11, <1>15
  <2>4. IF next = "waiting" THEN n = (c + 1) * Window ELSE n < (c + 1) * Window
    BY <1>16, <2>1
  <2> QED BY <1>4, <1>16, <2>2, <2>3, <2>4 DEF Paced
<1>18. WithinTwoWindows'
  <2>1. c <= d
    BY <1>15, Flights
  <2>2. n <= (c + 1) * Window
    <3>1. (c + 1) * Window \in Int
      BY Constants
    <3> QED BY <1>3, <1>16, <3>1
  <2>3. n - got[x] < 2 * Window
    BY <1>3, <1>15, <2>1, <2>2, PaceBounds
  <2> QED BY <1>1, <1>2, <1>4, <2>3 DEF WithinTwoWindows, TypeOK
<1>19. \A y \in Transfers \ {x} : RequestedOnce(y)' /\ SentOnce(y)' /\ Paced(y)'
  <2>1. ASSUME NEW y \in Transfers \ {x} PROVE Aside(y)
    <3>1. sent'[y] = sent[y] /\ got'[y] = got[y]
      BY <1>1, <1>2 DEF TypeOK
    <3>2. \A m \in net' : m \in net \/ m[2] = x
      BY <1>2
    <3> QED BY <1>1, <1>2, <3>1, <3>2, JobAside
  <2> QED BY <2>1, AsideKept
<1> QED BY <1>8, <1>9, <1>10, <1>14, <1>17, <1>18, <1>19 DEF IInv

\* ReadAck keeps it.
LEMMA ReadAckKeeps ==
  ASSUME IInv, NEW x \in Transfers, NEW i \in Positions, ReadAck(x, i)
  PROVE  IInv'
<1> DEFINE j == <<"send", x>>
           next == IF More(x, sent[x]) THEN "going" ELSE "ended"
<1>1. /\ TypeOK /\ QueuedOnce /\ WithinTwoWindows /\ RequestedOnce(x) /\ SentOnce(x) /\ Paced(x)
      /\ j \in Jobs /\ j[2] = x
  BY DEF IInv, Jobs
<1>2. /\ stage[j] = "waiting" /\ stage' = [stage EXCEPT ![j] = next]
      /\ <<"ack", x, i>> \in net /\ net' = net \ {<<"ack", x, i>>}
      /\ UNCHANGED <<pool, result, sent, got, temp, stream, file>>
  BY DEF ReadAck
<1>3. next \in Running \cup {"ended"} /\ next \notin {"none", "queued", "waiting"}
  BY DEF Running
<1>4. next = "going" => sent[x] < Chunks[x]
  BY DEF More
<1> HIDE DEF next
<1>5. Works(j) /\ stage'[j] = next
  BY <1>1, <1>2, <1>3 DEF Works, Running, TypeOK
<1>6. TypeOK'
  <2>1. stage' \in [Jobs -> Running \cup {"none", "queued", "ended"}]
    BY <1>1, <1>2, <1>3 DEF TypeOK
  <2> QED BY <1>1, <1>2, <2>1 DEF TypeOK
<1>7. QueuedOnce'
  BY <1>1, <1>2, <1>5, QueuedKept
<1>8. RequestedOnce(x)'
  <2>1. NoRequest
    BY <1>2 DEF NoRequest
  <2> QED BY <1>1, <1>5, <2>1, RequestedKept
<1>9. Flight("chunk", x)' = Flight("chunk", x) /\ Flight("ack", x)' = Flight("ack", x) \ {i}
  BY <1>2 DEF Flight
<1>10. SentOnce(x)'
  BY <1>1, <1>2, <1>3, <1>4, <1>5, <1>9 DEF SentOnce
<1>11. Cardinality(Flight("ack", x)') = Cardinality(Flight("ack", x)) - 1
  <2>1. i \in Flight("ack", x)
    BY <1>2 DEF Flight
  <2> QED BY <1>9, <2>1, Flights, FS_RemoveElement
<1>12. Paced(x)'
  <2>1. PICK c, d \in Nat :
         /\ d * Window < got[x] + Window
         /\ c + Cardinality(Flight("ack", x)) <= d
         /\ c * Window <= sent[x]
         /\ sent[x] = (c + 1) * Window
    BY <1>1, <1>2 DEF Paced
  <2>2. (c + 1) + Cardinality(Flight("ack", x)') <= d
    BY <1>11, <2>1, Flights
  <2>3. sent[x] < ((c + 1) + 1) * Window /\ (c + 1) * Window <= sent[x]
    <3>1. ((c + 1) + 1) * Window = (c + 1) * Window + Window /\ (c + 1) * Window \in Int
      BY Constants
    <3>2. sent[x] \in Nat /\ Window \in Nat \ {0}
      BY <1>1, Constants DEF TypeOK
    <3> QED BY <2>1, <3>1, <3>2
  <2>4. \A k \in Flight("ack", x)' : k <= got'[x]
    BY <1>1, <1>2, <1>9 DEF Paced
  <2>5. c + 1 \in Nat
    OBVIOUS
  <2> QED BY <1>2, <1>3, <1>5, <2>1, <2>2, <2>3, <2>4, <2>5 DEF Paced
<1>13. WithinTwoWindows'
  BY <1>1, <1>2 DEF WithinTwoWindows
<1>14. \A y \in Transfers \ {x} : RequestedOnce(y)' /\ SentOnce(y)' /\ Paced(y)'
  <2>1. ASSUME NEW y \in Transfers \ {x} PROVE Aside(y)
    BY <1>1, <1>2, JobAside
  <2> QED BY <2>1, AsideKept
<1> QED BY <1>6, <1>7, <1>8, <1>10, <1>12, <1>13, <1>14 DEF IInv

-----------------------------------------------------------------------------
(* The destination reads a chunk.                                          *)

\* An acknowledgement more is due for the first chunk of a window.
LEMMA NextDue ==
  ASSUME NEW g \in Nat, NEW d \in Nat, d * Window < g + Window, AckDue(g + 1)
  PROVE  (d + 1) * Window < (g + 1) + Window
<1>1. Window \in Nat \ {0} /\ d * Window \in Int /\ (d + 1) * Window = d * Window + Window
  BY Constants
<1>2. PICK q \in Nat : g = q * Window
  <2>1. g % Window = 0
    <3>1. (g + 1) - 1 = g
      OBVIOUS
    <3> QED BY <3>1 DEF AckDue
  <2> QED BY <1>1, <2>1, Multiple
<1>3. (q + 1) * Window = g + Window
  BY <1>1, <1>2
<1>4. d + 1 <= q + 1
  <2>1. d * Window < (q + 1) * Window
    BY <1>3
  <2> QED BY <1>1, <2>1, TimesLess
<1>5. d * Window <= q * Window
  <2>1. ASSUME q * Window < d * Window PROVE FALSE
    <3>1. q + 1 <= d
      BY <1>1, <2>1, TimesLess
    <3> QED BY <1>4, <3>1
  <2>2. q * Window \in Int
    BY <1>1
  <2> QED BY <1>1, <2>1, <2>2
<1>6. \A a, w, b \in Int : b = a + w /\ a <= g => b < (g + 1) + w
  OBVIOUS
<1> QED BY <1>1, <1>2, <1>5, <1>6

\* ReadChunk keeps the invariant.
LEMMA ReadChunkKeeps ==
  ASSUME IInv, NEW x \in Transfers, NEW k \in Positions, ReadChunk(x, k)
  PROVE  IInv'
<1> DEFINE n == got[x] + 1
           j == <<"receive", x>>
           next == IF Whole(x, k) THEN "whole" ELSE stage[j]
           acks == IF AckDue(n) THEN {<<"ack", x, n>>} ELSE {}
<1>1. /\ TypeOK /\ QueuedOnce /\ WithinTwoWindows /\ RequestedOnce(x) /\ SentOnce(x) /\ Paced(x)
      /\ j \in Jobs /\ j[2] = x
  BY DEF IInv, Jobs
<1>2. /\ stage[j] = "waiting" /\ stage' = [stage EXCEPT ![j] = next]
      /\ <<"chunk", x, k>> \in net /\ net' = (net \ {<<"chunk", x, k>>}) \cup acks
      /\ got' = [got EXCEPT ![x] = n]
      /\ UNCHANGED <<pool, result, sent, file>>
  BY <1>1 DEF ReadChunk, TypeOK
<1>3. next \in Running
  BY <1>2 DEF Running
<1>4. /\ Flight("chunk", x)' = Flight("chunk", x) \ {k} /\ k \in Flight("chunk", x)
  BY <1>2 DEF Flight
<1>5. Cardinality(Flight("chunk", x)') = Cardinality(Flight("chunk", x)) - 1
  BY <1>4, Flights, FS_RemoveElement
<1>6. /\ got[x] \in Nat /\ sent[x] \in Nat /\ Chunks[x] \in Nat /\ n \in Nat \ {0}
      /\ sent[x] <= Chunks[x]
  BY <1>1, Constants DEF TypeOK
<1>7. n + Cardinality(Flight("chunk", x)') <= sent[x] /\ Cardinality(Flight("chunk", x)') \in Nat
  <2>1. Cardinality(Flight("chunk", x)') \in Nat
    BY <1>4, Flights, FS_Subset, FS_CardinalityType
  <2>2. got[x] + Cardinality(Flight("chunk", x)) <= sent[x] /\ Cardinality(Flight("chunk", x)) \in Nat
    BY <1>1, Flights DEF SentOnce
  <2> QED BY <1>5, <1>6, <2>1, <2>2
<1>8. n <= sent[x] /\ n \in Positions
  <2>1. n <= sent[x]
    BY <1>6, <1>7
  <2> QED BY <1>6, <2>1, Constants DEF Positions
<1>9. acks \subseteq {<<"ack", x, n>>}
  OBVIOUS
<1>10. AckDue(n) => acks = {<<"ack", x, n>>}
  OBVIOUS
<1>11. ~AckDue(n) => acks = {}
  OBVIOUS
<1>12. n = got[x] + 1
  OBVIOUS
<1> HIDE DEF n, next, acks
<1>13. Works(j)
  BY <1>1, <1>2, <1>3 DEF Works, Running, TypeOK
<1>14. TypeOK'
  <2>1. stage' \in [Jobs -> Running \cup {"none", "queued", "ended"}]
    BY <1>1, <1>2, <1>3 DEF TypeOK
  <2>2. net' \subseteq Messages
    BY <1>1, <1>2, <1>8, <1>9, MessageTypes DEF TypeOK
  <2>3. got' \in [Transfers -> Nat]
    BY <1>1, <1>2, <1>6 DEF TypeOK
  <2>4. \A y \in Transfers : got'[y] <= sent'[y] /\ sent'[y] <= Chunks[y]
    BY <1>1, <1>2, <1>8 DEF TypeOK
  <2>5. temp' \in [TempFiles -> [Positions -> Transfers \cup {None}]]
    <3>1. Opened(x) \in [Positions -> Transfers \cup {None}]
      BY <1>1, Constants DEF Opened, Empty, TypeOK
    <3>2. [Opened(x) EXCEPT ![k] = x] \in [Positions -> Transfers \cup {None}]
      BY <3>1
    <3>3. temp' = temp \/ temp' = [temp EXCEPT ![Temp[x]] = [Opened(x) EXCEPT ![k] = x]]
      BY DEF ReadChunk
    <3> QED BY <1>1, <3>2, <3>3, Constants DEF TypeOK
  <2>6. stream' \subseteq Transfers
    <3>1. stream' \subseteq stream \cup {x}
      BY DEF ReadChunk
    <3> QED BY <1>1, <3>1 DEF TypeOK
  <2> QED BY <1>1, <1>2, <2>1, <2>2, <2>3, <2>4, <2>5, <2>6 DEF TypeOK
<1>15. QueuedOnce'
  BY <1>1, <1>2, <1>13, QueuedKept
<1>16. RequestedOnce(x)'
  <2>1. NoRequest
    BY <1>2, <1>9 DEF NoRequest
  <2> QED BY <1>1, <1>13, <2>1, RequestedKept
<1>17. got'[x] = n /\ sent'[x] = sent[x]
  BY <1>1, <1>2 DEF TypeOK
<1>18. stage'[<<"send", x>>] = stage[<<"send", x>>]
  BY <1>1, <1>2 DEF TypeOK, Jobs
<1>19. SentOnce(x)'
  <2>1. \A i \in Flight("chunk", x)' : i <= sent[x]
    BY <1>1, <1>4 DEF SentOnce
  <2>2. sent[x] = 0 => FALSE
    BY <1>6, <1>8
  <2> QED BY <1>1, <1>7, <1>17, <1>18, <2>1, <2>2 DEF SentOnce
<1>20. Flight("ack", x)' = IF AckDue(n) THEN Flight("ack", x) \cup {n} ELSE Flight("ack", x)
  BY <1>2, <1>8, <1>10, <1>11 DEF Flight
<1>21. \A i \in Flight("ack", x) : i <= got[x] /\ i \in Nat
  BY <1>1, Constants DEF Paced, Flight, Positions
<1>22. \A i \in Flight("ack", x)' : i <= n
  BY <1>6, <1>12, <1>20, <1>21
<1>23. ASSUME stage[<<"send", x>>] # "ended"
       PROVE  \E c, d \in Nat :
         /\ d * Window < n + Window
         /\ c + Cardinality(Flight("ack", x)') <= d
         /\ c * Window <= sent[x]
         /\ IF stage[<<"send", x>>] = "waiting" THEN sent[x] = (c + 1) * Window
            ELSE sent[x] < (c + 1) * Window
  <2>1. PICK c, d \in Nat :
         /\ d * Window < got[x] + Window
         /\ c + Cardinality(Flight("ack", x)) <= d
         /\ c * Window <= sent[x]
         /\ IF stage[<<"send", x>>] = "waiting" THEN sent[x] = (c + 1) * Window
            ELSE sent[x] < (c + 1) * Window
    BY <1>1, <1>23 DEF Paced
  <2>2. CASE AckDue(n)
    <3>1. (d + 1) * Window < n + Window
      BY <1>6, <1>12, <2>1, <2>2, NextDue
    <3>2. n \notin Flight("ack", x)
      BY <1>6, <1>12, <1>21
    <3>3. Cardinality(Flight("ack", x)') = Cardinality(Flight("ack", x)) + 1
      BY <1>20, <2>2, <3>2, Flights, FS_AddElement
    <3>4. c + Cardinality(Flight("ack", x)') <= d + 1
      BY <2>1, <3>3, Flights
    <3>5. d + 1 \in Nat
      OBVIOUS
    <3> QED BY <2>1, <3>1, <3>4, <3>5
  <2>3. CASE ~AckDue(n)
    <3>1. d * Window < n + Window
      <4>1. d * Window \in Int /\ Window \in Nat
        BY Constants
      <4>2. \A a, w, g \in Int : a < g + w => a < (g + 1) + w
        OBVIOUS
      <4> QED BY <1>6, <1>12, <2>1, <4>1, <4>2
    <3> QED BY <1>20, <2>1, <2>3, <3>1
  <2> QED BY <2>2, <2>3
<1>24. Paced(x)'
  BY <1>17, <1>18, <1>22, <1>23 DEF Paced
<1>25. WithinTwoWindows'
  <2>1. sent[x] - n < 2 * Window
    <3>1. sent[x] - got[x] < 2 * Window /\ Window \in Nat
      BY <1>1, Constants DEF WithinTwoWindows
    <3> QED BY <1>6, <1>12, <3>1
  <2> QED BY <1>1, <1>2, <1>17, <2>1 DEF WithinTwoWindows, TypeOK
<1>26. \A y \in Transfers \ {x} : RequestedOnce(y)' /\ SentOnce(y)' /\ Paced(y)'
  <2>1. ASSUME NEW y \in Transfers \ {x} PROVE Aside(y)
    <3>1. sent'[y] = sent[y] /\ got'[y] = got[y]
      BY <1>1, <1>2 DEF TypeOK
    <3>2. \A m \in net' : m \in net \/ m[2] = x
      BY <1>2, <1>9
    <3> QED BY <1>1, <1>2, <3>1, <3>2, JobAside
  <2> QED BY <2>1, AsideKept
<1> QED BY <1>14, <1>15, <1>16, <1>19, <1>24, <1>25, <1>26 DEF IInv

-----------------------------------------------------------------------------
(* Jobs are queued and started.                                            *)

\* A job that is in no queue yet can be put into one.
LEMMA EnqueueKeeps ==
  ASSUME TypeOK, QueuedOnce, NEW j \in Jobs, stage[j] = "none", Enqueue(j)
  PROVE  /\ QueuedOnce' /\ pool' \in [Pools -> Seq(Jobs)]
         /\ stage' \in [Jobs -> Running \cup {"none", "queued", "ended"}]
<1> DEFINE P == PoolOf(j)
<1>1. P \in Pools /\ pool \in [Pools -> Seq(Jobs)]
  BY JobPools DEF TypeOK
<1> HIDE DEF P
<1>2. pool' = [pool EXCEPT ![P] = Append(pool[P], j)] /\ stage' = [stage EXCEPT ![j] = "queued"]
  BY DEF Enqueue, P
<1>3. pool' \in [Pools -> Seq(Jobs)]
  BY <1>1, <1>2
<1>4. stage' \in [Jobs -> Running \cup {"none", "queued", "ended"}]
  BY <1>2 DEF TypeOK
<1>5. ASSUME NEW p \in Pools, NEW i \in 1 .. Len(pool'[p])
      PROVE  \/ i \in 1 .. Len(pool[p]) /\ pool'[p][i] = pool[p][i] /\ pool[p][i] # j
             \/ p = P /\ i = Len(pool[P]) + 1 /\ pool'[p][i] = j
  <2>1. \A l \in 1 .. Len(pool[p]) : pool[p][l] # j
    BY DEF QueuedOnce
  <2>2. pool[p] \in Seq(Jobs)
    BY <1>1
  <2>3. CASE p = P
    <3>1. pool'[p] = Append(pool[p], j)
      BY <1>1, <1>2, <2>3
    <3> QED BY <2>1, <2>2, <2>3, <3>1
  <2>4. CASE p # P
    <3>1. pool'[p] = pool[p]
      BY <1>1, <1>2, <2>4
    <3> QED BY <2>1, <3>1
  <2> QED BY <2>3, <2>4
<1>6. ASSUME NEW p \in Pools, NEW i \in 1 .. Len(pool'[p])
      PROVE  stage'[pool'[p][i]] = "queued"
  <2>1. CASE i \in 1 .. Len(pool[p]) /\ pool'[p][i] = pool[p][i] /\ pool[p][i] # j
    <3>1. stage[pool[p][i]] = "queued"
      BY <2>1 DEF QueuedOnce
    <3>2. pool[p][i] \in Jobs
      <4>1. pool[p] \in Seq(Jobs)
        BY <1>1
      <4> QED BY <2>1, <4>1
    <3> QED BY <1>2, <2>1, <3>1, <3>2 DEF TypeOK
  <2>2. CASE pool'[p][i] = j
    BY <1>2, <2>2 DEF TypeOK
  <2> QED BY <1>5, <2>1, <2>2
<1>7. ASSUME NEW p \in Pools, NEW q \in Pools, NEW i \in 1 .. Len(pool'[p]),
             NEW k \in 1 .. Len(pool'[q]), pool'[p][i] = pool'[q][k]
      PROVE  p = q /\ i = k
  <2>1. \/ i \in 1 .. Len(pool[p]) /\ pool'[p][i] = pool[p][i] /\ pool[p][i] # j
        \/ p = P /\ i = Len(pool[P]) + 1 /\ pool'[p][i] = j
    BY <1>5
  <2>2. \/ k \in 1 .. Len(pool[q]) /\ pool'[q][k] = pool[q][k] /\ pool[q][k] # j
        \/ q = P /\ k = Len(pool[P]) + 1 /\ pool'[q][k] = j
    BY <1>5
  <2> QED BY <1>7, <2>1, <2>2 DEF QueuedOnce
<1> QED BY <1>3, <1>4, <1>6, <1>7 DEF QueuedOnce

\* TransferFile keeps the invariant.
LEMMA TransferFileKeeps ==
  ASSUME IInv, NEW x \in Transfers, TransferFile(x)
  PROVE  IInv'
<1> DEFINE j == <<"ask", x>>
<1>1. /\ TypeOK /\ QueuedOnce /\ WithinTwoWindows /\ RequestedOnce(x) /\ SentOnce(x) /\ Paced(x)
      /\ j \in Jobs /\ j[2] = x
  BY DEF IInv, Jobs
<1>2. /\ stage[j] = "none" /\ Enqueue(j) /\ stage' = [stage EXCEPT ![j] = "queued"]
      /\ UNCHANGED <<net, result, sent, got, temp, stream, file>>
  BY DEF TransferFile, Enqueue
<1>3. QueuedOnce' /\ TypeOK'
  BY <1>1, <1>2, EnqueueKeeps DEF TypeOK
<1>4. /\ stage'[<<"send", x>>] = stage[<<"send", x>>]
      /\ stage'[<<"receive", x>>] = stage[<<"receive", x>>] /\ stage'[j] = "queued"
  BY <1>1, <1>2 DEF TypeOK, Jobs
<1>5. RequestedOnce(x)'
  BY <1>1, <1>2, <1>4 DEF RequestedOnce
<1>6. \A what : Flight(what, x)' = Flight(what, x)
  BY <1>2 DEF Flight
<1>7. SourceRests(x)
  BY <1>4 DEF SourceRests
<1>8. SentOnce(x)' /\ Paced(x)'
  BY <1>1, <1>2, <1>6, <1>7, SentKept, PacedKept
<1>9. \A y \in Transfers \ {x} : RequestedOnce(y)' /\ SentOnce(y)' /\ Paced(y)'
  <2>1. ASSUME NEW y \in Transfers \ {x} PROVE Aside(y)
    BY <1>1, <1>2, JobAside
  <2> QED BY <2>1, AsideKept
<1>10. WithinTwoWindows'
  BY <1>1, <1>2 DEF WithinTwoWindows
<1> QED BY <1>3, <1>5, <1>8, <1>9, <1>10 DEF IInv

\* Serve keeps it.
LEMMA ServeKeeps ==
  ASSUME IInv, NEW x \in Transfers, NEW request \in {"receive", "send"}, Serve(x, request)
  PROVE  IInv'
<1> DEFINE j == <<request, x>>
<1>1. /\ TypeOK /\ QueuedOnce /\ WithinTwoWindows /\ RequestedOnce(x) /\ SentOnce(x) /\ Paced(x)
      /\ j \in Jobs /\ j[2] = x
  BY DEF IInv, Jobs
<1>2. /\ j \in net /\ net' = net \ {j} /\ Enqueue(j) /\ stage' = [stage EXCEPT ![j] = "queued"]
      /\ UNCHANGED <<result, sent, got, temp, stream, file>>
  BY DEF Serve, Enqueue
<1>3. stage[j] = "none"
  BY <1>1, <1>2 DEF RequestedOnce
<1>4. QueuedOnce' /\ TypeOK'
  BY <1>1, <1>2, <1>3, EnqueueKeeps DEF TypeOK
<1>5. /\ stage'[<<"ask", x>>] = stage[<<"ask", x>>]
      /\ stage'[<<"send", x>>] = IF request = "send" THEN "queued" ELSE stage[<<"send", x>>]
      /\ stage'[<<"receive", x>>] = IF request = "receive" THEN "queued" ELSE stage[<<"receive", x>>]
  BY <1>1, <1>2 DEF TypeOK, Jobs
<1>6. RequestedOnce(x)'
  BY <1>1, <1>2, <1>3, <1>5 DEF RequestedOnce
<1>7. Flight("chunk", x)' = Flight("chunk", x) /\ Flight("ack", x)' = Flight("ack", x)
  BY <1>2 DEF Flight
<1>8. SentOnce(x)'
  BY <1>1, <1>2, <1>3, <1>5, <1>7 DEF SentOnce
<1>9. Paced(x)'
  BY <1>1, <1>2, <1>3, <1>5, <1>7 DEF Paced
<1>10. \A y \in Transfers \ {x} : RequestedOnce(y)' /\ SentOnce(y)' /\ Paced(y)'
  <2>1. ASSUME NEW y \in Transfers \ {x} PROVE Aside(y)
    BY <1>1, <1>2, JobAside
  <2> QED BY <2>1, AsideKept
<1>11. WithinTwoWindows'
  BY <1>1, <1>2 DEF WithinTwoWindows
<1> QED BY <1>4, <1>6, <1>8, <1>9, <1>10, <1>11 DEF IInv

\* StartJob keeps it.
LEMMA StartJobKeeps ==
  ASSUME IInv, NEW p \in Pools, StartJob(p)
  PROVE  IInv'
<1> DEFINE j == Head(pool[p])
           next == FirstStage(j)
<1>1. TypeOK /\ QueuedOnce /\ WithinTwoWindows /\ pool[p] \in Seq(Jobs) /\ pool[p] # <<>>
  BY DEF IInv, StartJob, TypeOK
<1>2. j \in Jobs /\ j = pool[p][1] /\ 1 \in 1 .. Len(pool[p])
  BY <1>1
<1>3. stage[j] = "queued"
  BY <1>2 DEF IInv, QueuedOnce
<1>5. /\ net' = net \cup FirstMessages(j) /\ stage' = [stage EXCEPT ![j] = next]
      /\ pool' = [pool EXCEPT ![p] = Tail(pool[p])]
      /\ UNCHANGED <<result, sent, got, temp, stream, file>>
  BY DEF StartJob
<1>4. PICK x \in Transfers, kind \in {"ask", "receive", "send"} : j = <<kind, x>>
  BY <1>2, JobPools
<1>6. j[1] = kind /\ j[2] = x
  BY <1>4
<1>7. /\ kind = "ask" => FirstMessages(j) = {<<"receive", x>>}
      /\ kind = "receive" => FirstMessages(j) = {<<"send", x>>}
      /\ kind = "send" => FirstMessages(j) \subseteq {<<"no file", x>>}
  BY <1>6 DEF FirstMessages
<1>8. next = IF kind # "send" THEN "waiting" ELSE IF Chunks[x] = 0 THEN "ended" ELSE "going"
  BY <1>6 DEF FirstStage
<1> HIDE DEF j, next
<1>9. \A q \in Pools : Tail(pool[p]) \in Seq(Jobs) /\ Len(Tail(pool[p])) = Len(pool[p]) - 1
        /\ \A i \in 1 .. Len(pool[p]) - 1 : Tail(pool[p])[i] = pool[p][i + 1]
  BY <1>1
<1>10. pool' \in [Pools -> Seq(Jobs)]
  BY <1>1, <1>5, <1>9 DEF TypeOK
<1>11. ASSUME NEW q \in Pools, NEW i \in 1 .. Len(pool'[q])
       PROVE  LET o == IF q = p THEN i + 1 ELSE i
              IN  /\ o \in 1 .. Len(pool[q]) /\ pool'[q][i] = pool[q][o]
                  /\ pool[q][o] # j /\ pool[q][o] \in Jobs
  <2>1. \A o \in 1 .. Len(pool[q]) : pool[q][o] \in Jobs
    <3>1. pool[q] \in Seq(Jobs)
      BY <1>1 DEF TypeOK
    <3> QED BY <3>1
  <2>2. \A o \in 1 .. Len(pool[q]) : pool[q][o] = j => q = p /\ o = 1
    BY <1>1, <1>2 DEF QueuedOnce
  <2>3. CASE q = p
    <3>1. pool'[q] = Tail(pool[p])
      BY <1>1, <1>5, <2>3 DEF TypeOK
    <3>2. Len(pool[p]) \in Nat
      BY <1>1
    <3>3. i \in 1 .. Len(pool[p]) - 1
      BY <1>9, <3>1
    <3>4. i + 1 \in 1 .. Len(pool[p]) /\ i + 1 # 1
      BY <3>2, <3>3
    <3> QED BY <1>9, <2>1, <2>2, <2>3, <3>1, <3>3, <3>4
  <2>4. CASE q # p
    <3>1. pool'[q] = pool[q]
      BY <1>1, <1>5, <2>4 DEF TypeOK
    <3> QED BY <2>1, <2>2, <2>4, <3>1
  <2> QED BY <2>3, <2>4
<1>12. QueuedOnce'
  <2>1. ASSUME NEW q \in Pools, NEW i \in 1 .. Len(pool'[q]) PROVE stage'[pool'[q][i]] = "queued"
    BY <1>1, <1>2, <1>5, <1>11 DEF QueuedOnce, TypeOK
  <2>2. ASSUME NEW q \in Pools, NEW r \in Pools, NEW i \in 1 .. Len(pool'[q]),
               NEW k \in 1 .. Len(pool'[r]), pool'[q][i] = pool'[r][k]
        PROVE  q = r /\ i = k
    <3>1. PICK a \in 1 .. Len(pool[q]) : pool[q][a] = pool'[q][i] /\ a = IF q = p THEN i + 1 ELSE i
      BY <1>11
    <3>2. PICK b \in 1 .. Len(pool[r]) : pool[r][b] = pool'[r][k] /\ b = IF r = p THEN k + 1 ELSE k
      BY <1>11
    <3>3. q = r /\ a = b
      BY <1>1, <2>2, <3>1, <3>2 DEF QueuedOnce
    <3>4. i \in Int /\ k \in Int
      OBVIOUS
    <3> QED BY <3>1, <3>2, <3>3, <3>4
  <2> QED BY <2>1, <2>2 DEF QueuedOnce
<1>13. TypeOK'
  <2>1. next \in Running \cup {"none", "queued", "ended"}
    BY <1>8 DEF Running
  <2>2. stage' \in [Jobs -> Running \cup {"none", "queued", "ended"}]
    BY <1>1, <1>5, <2>1 DEF TypeOK
  <2>3. FirstMessages(j) \subseteq Messages
    BY <1>4, <1>7, MessageTypes
  <2>4. net' \subseteq Messages
    BY <1>1, <1>5, <2>3 DEF TypeOK
  <2> QED BY <1>1, <1>5, <1>10, <2>2, <2>4 DEF TypeOK
<1>14. RequestedOnce(x) /\ SentOnce(x) /\ Paced(x)
  BY <1>4 DEF IInv
<1>15. Flight("chunk", x)' = Flight("chunk", x) /\ Flight("ack", x)' = Flight("ack", x)
  BY <1>4, <1>5, <1>7 DEF Flight
<1>16. /\ <<"ask", x>> \in Jobs /\ <<"receive", x>> \in Jobs /\ <<"send", x>> \in Jobs
       /\ stage'[<<"ask", x>>] = IF kind = "ask" THEN next ELSE stage[<<"ask", x>>]
       /\ stage'[<<"receive", x>>] = IF kind = "receive" THEN next ELSE stage[<<"receive", x>>]
       /\ stage'[<<"send", x>>] = IF kind = "send" THEN next ELSE stage[<<"send", x>>]
  BY <1>1, <1>4, <1>5 DEF TypeOK, Jobs
<1>17. ASSUME kind = "ask" PROVE RequestedOnce(x)' /\ SentOnce(x)' /\ Paced(x)'
  <2>1. <<"send", x>> \in net' <=> <<"send", x>> \in net
    BY <1>4, <1>5, <1>7, <1>17
  <2>2. RequestedOnce(x)'
    BY <1>3, <1>4, <1>8, <1>14, <1>16, <1>17, <2>1 DEF RequestedOnce
  <2>3. SourceRests(x)
    BY <1>16, <1>17 DEF SourceRests
  <2>4. SentOnce(x)' /\ Paced(x)'
    BY <1>1, <1>4, <1>5, <1>14, <1>15, <2>3, SentKept, PacedKept
  <2> QED BY <2>2, <2>4
<1>18. ASSUME kind = "receive" PROVE RequestedOnce(x)' /\ SentOnce(x)' /\ Paced(x)'
  <2>1. <<"receive", x>> \in net' <=> <<"receive", x>> \in net
    BY <1>4, <1>5, <1>7, <1>18
  <2>2. RequestedOnce(x)'
    BY <1>3, <1>4, <1>8, <1>14, <1>16, <1>18, <2>1 DEF RequestedOnce
  <2>3. SourceRests(x)
    BY <1>16, <1>18 DEF SourceRests
  <2>4. SentOnce(x)' /\ Paced(x)'
    BY <1>1, <1>4, <1>5, <1>14, <1>15, <2>3, SentKept, PacedKept
  <2> QED BY <2>2, <2>4
<1>19. ASSUME kind = "send" PROVE RequestedOnce(x)' /\ SentOnce(x)' /\ Paced(x)'
  <2>1. /\ <<"receive", x>> \in net' <=> <<"receive", x>> \in net
        /\ <<"send", x>> \in net' <=> <<"send", x>> \in net
    BY <1>4, <1>5, <1>7, <1>19
  <2>2. next \in {"ended", "going"}
    BY <1>8, <1>19
  <2>3. RequestedOnce(x)'
    BY <1>3, <1>4, <1>14, <1>16, <1>19, <2>1, <2>2 DEF RequestedOnce
  <2>4. stage[<<"send", x>>] = "queued" /\ stage'[<<"send", x>>] = next
    BY <1>3, <1>4, <1>16, <1>19
  <2>5. next = "going" => 0 < Chunks[x]
    BY <1>4, <1>8, <1>19, Constants
  <2>6. SentOnce(x)'
    BY <1>5, <1>14, <1>15, <2>2, <2>4, <2>5 DEF SentOnce
  <2>7. Paced(x)'
    BY <1>5, <1>14, <1>15, <2>2, <2>4 DEF Paced
  <2> QED BY <2>3, <2>6, <2>7
<1>20. \A y \in Transfers \ {x} : RequestedOnce(y)' /\ SentOnce(y)' /\ Paced(y)'
  <2>1. ASSUME NEW y \in Transfers \ {x} PROVE Aside(y)
    <3>1. \A m \in FirstMessages(j) : m[2] = x
      <4>1. FirstMessages(j) \subseteq {<<"receive", x>>, <<"send", x>>, <<"no file", x>>}
        BY <1>4, <1>7
      <4>2. <<"receive", x>>[2] = x /\ <<"send", x>>[2] = x /\ <<"no file", x>>[2] = x
        OBVIOUS
      <4> QED BY <4>1, <4>2
    <3>3. \A m \in net' : m \in net \/ m[2] = x
      BY <1>5, <3>1
    <3> QED BY <1>1, <1>2, <1>5, <1>6, <3>3, JobAside
  <2> QED BY <2>1, AsideKept
<1>21. WithinTwoWindows'
  BY <1>1, <1>5 DEF WithinTwoWindows
<1> QED BY <1>12, <1>13, <1>17, <1>18, <1>19, <1>20, <1>21 DEF IInv

-----------------------------------------------------------------------------
(* The theorems.                                                           *)

\* Every step keeps the invariant.
LEMMA StepKeeps == IInv /\ [Next]_vars => IInv'
<1> SUFFICES ASSUME IInv, [Next]_vars PROVE IInv'
  OBVIOUS
<1>1. ASSUME NEW x \in Transfers, NEW request \in {"receive", "send"}, Serve(x, request) PROVE IInv'
  BY <1>1, ServeKeeps
<1>2. ASSUME NEW x \in Transfers, SendChunk(x) PROVE IInv'
  BY <1>2, SendChunkKeeps
<1>3. ASSUME NEW x \in Transfers, NEW i \in Positions, ReadAck(x, i) PROVE IInv'
  BY <1>3, ReadAckKeeps
<1>4. ASSUME NEW x \in Transfers, NEW k \in Positions, ReadChunk(x, k) PROVE IInv'
  BY <1>4, ReadChunkKeeps
<1>5. ASSUME NEW x \in Transfers, Finish(x) PROVE IInv'
  BY <1>5, FinishKeeps
<1>6. ASSUME NEW x \in Transfers, NoFile(x) PROVE IInv'
  BY <1>6, NoFileKeeps
<1>7. ASSUME NEW x \in Transfers, TransferOK(x) PROVE IInv'
  BY <1>7, TransferOKKeeps
<1>8. ASSUME NEW p \in Pools, StartJob(p) PROVE IInv'
  BY <1>8, StartJobKeeps
<1>9. ASSUME NEW j \in Jobs, Timeout(j) PROVE IInv'
  BY <1>9, TimeoutKeeps
<1>10. ASSUME NEW x \in Transfers, TransferFile(x) PROVE IInv'
  BY <1>10, TransferFileKeeps
<1>11. ASSUME NEW m \in net, Lose(m) PROVE IInv'
  BY <1>11, LoseKeeps
<1>12. ASSUME UNCHANGED vars PROVE IInv'
  <2>1. TypeOK' /\ QueuedOnce' /\ WithinTwoWindows'
    BY <1>12 DEF IInv, vars, TypeOK, QueuedOnce, WithinTwoWindows
  <2>2. \A y \in Transfers : Aside(y)
    BY <1>12 DEF Aside, vars
  <2> QED BY <2>1, <2>2, AsideKept DEF IInv
<1>13. ASSUME Advance PROVE IInv'
  BY <1>1, <1>2, <1>3, <1>4, <1>5, <1>6, <1>7, <1>8, <1>9, <1>13
     DEF Advance, Serves, Source, Destination
<1> QED BY <1>10, <1>11, <1>12, <1>13 DEF Next

\* The inductive invariant holds, whatever the transfers, the windows and the
\* pools, whatever is lost and whoever gives up.
THEOREM Inductive == Spec => []IInv
BY InitInv, StepKeeps, PTL DEF Spec

\* Every variable keeps its type, and no job works past the end of its file
\* (file_service.cpp evt_send_file, evt_transfer_file).
THEOREM TypeCorrect == Spec => []TypeOK
<1>1. IInv => TypeOK
  BY DEF IInv
<1> QED BY <1>1, Inductive, PTL

\* The source is never two windows ahead of the destination (file_service.cpp
\* evt_send_file waits after each window, evt_transfer_file acknowledges its first
\* chunk).
THEOREM FlowControl == Spec => []WithinTwoWindows
<1>1. IInv => WithinTwoWindows
  BY DEF IInv
<1> QED BY <1>1, Inductive, PTL

-----------------------------------------------------------------------------
(* What is reported to be all right.                                       *)

\* What every other step leaves of a transfer's temporary file, copy and report.
LEMMA KeptAside ==
  ASSUME NEW x \in Transfers, IInv, Kept(x), got'[x] = got[x], sent[x] <= sent'[x],
         sent'[x] \in Nat,
         LET receive == <<"receive", x>>
         IN  \/ stage'[receive] = stage[receive]
             \/ /\ stage[receive] # "ended" /\ stage'[receive] # "whole"
                /\ stage'[receive] = "waiting" => got[x] = 0,
         x \in stream => x \in stream',
         temp'[Temp[x]] = temp[Temp[x]], file'[x] = file[x],
         <<"done", x>> \in net' \/ result'[x] = "ok" => <<"done", x>> \in net \/ result[x] = "ok",
         \A k \in Flight("chunk", x)' : k \in Flight("chunk", x) \/ k > sent[x]
  PROVE  Kept(x)'
<1>1. sent[x] \in Nat /\ got[x] \in Nat
  BY DEF IInv, TypeOK
<1>2. Written(x)' = Written(x)
  BY DEF Written
<1>3. ASSUME stage'[<<"receive", x>>] = "waiting", got'[x] > 0
      PROVE  /\ x \in stream'
             /\ \A k \in Positions : temp'[Temp[x]][k] \in {x, None}
             /\ Cardinality(Written(x)') = got'[x]
             /\ \A k \in Written(x)' : k <= sent'[x] /\ k \notin Flight("chunk", x)'
  <2>1. stage[<<"receive", x>>] = "waiting" /\ got[x] > 0
    BY <1>1, <1>3
  <2>2. /\ x \in stream
        /\ \A k \in Positions : temp[Temp[x]][k] \in {x, None}
        /\ Cardinality(Written(x)) = got[x]
        /\ \A k \in Written(x) : k <= sent[x] /\ k \notin Flight("chunk", x)
    BY <2>1 DEF Kept
  <2>3. \A k \in Written(x) : k \in Nat
    BY Constants DEF Written, Positions
  <2> QED BY <1>1, <1>2, <2>2, <2>3
<1>4. stage'[<<"receive", x>>] = "whole" => temp'[Temp[x]] = Contents(x)
  BY DEF Kept
<1>5. <<"done", x>> \in net' \/ result'[x] = "ok" =>
        stage'[<<"receive", x>>] = "ended" /\ file'[x] = Contents(x)
  BY DEF Kept
<1> QED BY <1>3, <1>4, <1>5 DEF Kept

\* A destination that has not started has written nothing.
LEMMA NothingWritten ==
  ASSUME NEW x \in Transfers, IInv, stage[<<"receive", x>>] \in {"none", "queued"}
  PROVE  got[x] = 0
<1>1. RequestedOnce(x) /\ SentOnce(x) /\ TypeOK
  BY DEF IInv
<1>2. stage[<<"send", x>>] = "none"
  BY <1>1 DEF RequestedOnce
<1>3. sent[x] = 0 /\ got[x] \in Nat /\ got[x] <= sent[x]
  BY <1>1, <1>2 DEF SentOnce, TypeOK
<1> QED BY <1>3

\* A file of which as many chunks have been written as it has is whole.
LEMMA AllWritten ==
  ASSUME NEW x \in Transfers, NEW t \in [Positions -> {x, None}],
         Cardinality({k \in Positions : t[k] = x}) = Chunks[x],
         \A k \in Positions : t[k] = x => k <= Chunks[x]
  PROVE  t = Contents(x)
<1> DEFINE W == {k \in Positions : t[k] = x}
<1>1. Chunks[x] \in Nat /\ IsFiniteSet(1 .. Chunks[x]) /\ Cardinality(1 .. Chunks[x]) = Chunks[x]
  <2>1. Chunks[x] \in Nat
    BY Constants
  <2>2. IsFiniteSet(1 .. Chunks[x])
    BY <2>1, FS_Interval
  <2>3. Cardinality(1 .. Chunks[x]) = IF 1 > Chunks[x] THEN 0 ELSE Chunks[x] - 1 + 1
    BY <2>1, FS_Interval
  <2> QED BY <2>1, <2>2, <2>3
<1>2. W \subseteq 1 .. Chunks[x]
  BY Constants DEF Positions
<1>3. W = 1 .. Chunks[x]
  BY <1>1, <1>2, FS_Subset
<1>4. \A k \in Positions : t[k] = IF k <= Chunks[x] THEN x ELSE None
  BY <1>1, <1>3, Constants DEF Positions
<1> QED BY <1>4 DEF Contents

\* Reading a chunk keeps what is said of the transfer it belongs to.
LEMMA ReadChunkWrites ==
  ASSUME NEW x \in Transfers, NEW k \in Positions, IInv, IInv', Kept(x), ReadChunk(x, k)
  PROVE  Kept(x)'
<1> DEFINE n == got[x] + 1
           j == <<"receive", x>>
           t == temp'[Temp[x]]
<1>1. TypeOK /\ j \in Jobs /\ SentOnce(x) /\ Temp[x] \in TempFiles /\ x # None
  BY Constants DEF IInv, Jobs
<1>2. /\ stage[j] = "waiting" /\ stage'[j] = IF Whole(x, k) THEN "whole" ELSE "waiting"
      /\ got'[x] = n /\ sent' = sent /\ result' = result /\ file' = file
  BY <1>1 DEF ReadChunk, TypeOK
<1>3. Flight("chunk", x)' = Flight("chunk", x) \ {k} /\ k \in Flight("chunk", x)
  <2>1. <<"chunk", x, k>> \in net
    BY DEF ReadChunk
  <2>2. \A l \in Positions : <<"chunk", x, l>> \in net' <=> <<"chunk", x, l>> \in net /\ l # k
    BY DEF ReadChunk
  <2> QED BY <2>1, <2>2 DEF Flight
<1>4. <<"done", x>> \in net' => <<"done", x>> \in net
  BY DEF ReadChunk
<1>5. got[x] \in Nat /\ sent[x] \in Nat /\ Chunks[x] \in Nat /\ sent[x] <= Chunks[x]
  BY <1>1, Constants DEF TypeOK
<1>6. \A y \in Positions : y \in Nat
  BY Constants DEF Positions
<1>7. k <= sent[x]
  BY <1>1, <1>3 DEF SentOnce
<1>8. ASSUME NEW o \in [Positions -> {x, None}], x \in stream', temp' = [temp EXCEPT ![Temp[x]] = [o EXCEPT ![k] = x]],
             Cardinality({l \in Positions : o[l] = x}) = got[x],
             \A l \in Positions : o[l] = x => l <= sent[x] /\ l \notin Flight("chunk", x)
      PROVE  Kept(x)'
  <2> DEFINE W == {l \in Positions : o[l] = x}
  <2>1. t = [o EXCEPT ![k] = x]
    BY <1>1, <1>8 DEF TypeOK
  <2>2. t \in [Positions -> {x, None}]
    BY <2>1
  <2> HIDE DEF t
  <2>3. \A l \in Positions : t[l] = IF l = k THEN x ELSE o[l]
    BY <2>1
  <2>4. {l \in Positions : t[l] = x} = W \cup {k}
    BY <2>3
  <2>5. Cardinality(W \cup {k}) = got[x] + 1
    <3>1. k \notin W
      BY <1>3, <1>8
    <3>2. IsFiniteSet(W)
      <4>1. IsFiniteSet(Positions) /\ W \subseteq Positions
        BY Constants, FS_Interval DEF Positions
      <4> QED BY <4>1, FS_Subset
    <3> QED BY <1>8, <3>1, <3>2, FS_AddElement
  <2>6. \A l \in Positions : t[l] = x => l <= sent[x] /\ l \notin Flight("chunk", x)'
    BY <1>3, <1>7, <1>8, <2>3
  <2>7. ASSUME Whole(x, k) PROVE t = Contents(x)
    <3>1. Cardinality({l \in Positions : t[l] = x}) = Chunks[x]
      BY <2>4, <2>5, <2>7 DEF Whole
    <3>2. \A l \in Positions : t[l] = x => l <= Chunks[x]
      BY <1>5, <1>6, <2>6
    <3> QED BY <2>2, <3>1, <3>2, AllWritten
  <2>8. Written(x)' = {l \in Positions : t[l] = x}
    BY DEF Written, t
  <2>9. ~(<<"done", x>> \in net' \/ result'[x] = "ok")
    BY <1>2, <1>4 DEF Kept
  <2>10. /\ \A l \in Positions : t[l] \in {x, None}
         /\ Cardinality(Written(x)') = got'[x]
         /\ \A l \in Written(x)' : l <= sent'[x] /\ l \notin Flight("chunk", x)'
    BY <1>2, <2>2, <2>4, <2>5, <2>6, <2>8
  <2> QED BY <1>2, <1>8, <2>7, <2>9, <2>10 DEF Kept, t
<1>9. CASE got[x] = 0
  <2>1. x \in stream'
    BY <1>9 DEF ReadChunk
  <2>2. Empty \in [Positions -> {x, None}] /\ \A l \in Positions : Empty[l] # x
    BY <1>1 DEF Empty
  <2>3. temp' = [temp EXCEPT ![Temp[x]] = [Empty EXCEPT ![k] = x]]
    BY <1>9, <2>1 DEF ReadChunk, Opened
  <2>4. Cardinality({l \in Positions : Empty[l] = x}) = got[x]
    <3>1. {l \in Positions : Empty[l] = x} = {}
      BY <2>2
    <3> QED BY <1>9, <3>1, FS_EmptySet
  <2> HIDE DEF t
  <2> QED BY <1>8, <2>1, <2>2, <2>3, <2>4
<1>10. CASE got[x] > 0
  <2>1. /\ x \in stream
        /\ \A l \in Positions : temp[Temp[x]][l] \in {x, None}
        /\ Cardinality(Written(x)) = got[x]
        /\ \A l \in Written(x) : l <= sent[x] /\ l \notin Flight("chunk", x)
    BY <1>2, <1>10 DEF Kept
  <2>2. x \in stream'
    BY <2>1 DEF ReadChunk
  <2>3. temp[Temp[x]] \in [Positions -> {x, None}]
    BY <1>1, <2>1 DEF TypeOK
  <2>4. temp' = [temp EXCEPT ![Temp[x]] = [temp[Temp[x]] EXCEPT ![k] = x]]
    <3>1. Opened(x) = temp[Temp[x]]
      BY <1>5, <1>10 DEF Opened
    <3>2. temp' = [temp EXCEPT ![Temp[x]] = [Opened(x) EXCEPT ![k] = x]]
      BY <2>2 DEF ReadChunk
    <3> HIDE DEF t
    <3> QED BY <3>1, <3>2
  <2> HIDE DEF t
  <2> QED BY <1>8, <2>1, <2>2, <2>3, <2>4 DEF Written
<1> QED BY <1>5, <1>9, <1>10

\* Copying the temporary file makes the destination whole.
LEMMA FinishCopies ==
  ASSUME NEW x \in Transfers, IInv, Kept(x), Finish(x)
  PROVE  Kept(x)'
<1> DEFINE j == <<"receive", x>>
<1>1. TypeOK /\ j \in Jobs
  BY DEF IInv, Jobs
<1>2. stage[j] = "whole" /\ stage'[j] = "ended" /\ file'[x] = temp[Temp[x]]
  BY <1>1 DEF Finish, TypeOK
<1>3. temp[Temp[x]] = Contents(x)
  BY <1>2 DEF Kept
<1> QED BY <1>2, <1>3 DEF Kept, Contents

\* A step of a transfer touches nothing that is another's alone, where no two
\* share a temporary file.
LEMMA OthersKept ==
  ASSUME OwnTempFiles, NEW x \in Transfers, NEW y \in Transfers \ {x}, IInv, Kept(y),
         NEW j \in Jobs, j[2] = x, NEW next, stage' = [stage EXCEPT ![j] = next],
         got'[y] = got[y], sent'[y] = sent[y], file'[y] = file[y], result'[y] = result[y],
         y \in stream => y \in stream',
         \A f \in TempFiles \ {Temp[x]} : temp'[f] = temp[f],
         \A m \in net' : m \in net \/ m[2] = x
  PROVE  Kept(y)'
<1>1. Temp[y] \in TempFiles \ {Temp[x]}
  BY Constants DEF OwnTempFiles
<1>2. TypeOK /\ sent[y] \in Nat
  BY DEF IInv, TypeOK
<1>3. stage'[<<"receive", y>>] = stage[<<"receive", y>>]
  BY <1>2 DEF TypeOK, Jobs
<1>4. <<"done", y>> \in net' => <<"done", y>> \in net
  OBVIOUS
<1>5. \A k \in Flight("chunk", y)' : k \in Flight("chunk", y)
  BY DEF Flight
<1> QED BY <1>1, <1>2, <1>3, <1>4, <1>5, KeptAside

\* Every step keeps what is said of every transfer.
LEMMA KeptKeeps ==
  ASSUME OwnTempFiles, WholeIInv, IInv', [Next]_vars
  PROVE  \A y \in Transfers : Kept(y)'
<1> SUFFICES ASSUME NEW y \in Transfers PROVE Kept(y)'
  OBVIOUS
<1> DEFINE J(kind) == <<kind, y>>
<1>1. IInv /\ Kept(y) /\ TypeOK /\ sent[y] \in Nat /\ got[y] \in Nat
      /\ \A kind \in {"ask", "receive", "send"} : J(kind) \in Jobs
  BY DEF WholeIInv, IInv, TypeOK, Jobs
<1>2. ASSUME NEW x \in Transfers, NEW request \in {"receive", "send"}, Serve(x, request) PROVE Kept(y)'
  <2>1. /\ <<request, x>> \in net /\ <<request, x>> \in Jobs /\ net' \subseteq net
        /\ stage' = [stage EXCEPT ![<<request, x>>] = "queued"]
        /\ UNCHANGED <<result, sent, got, temp, stream, file>>
    BY <1>2 DEF Serve, Enqueue, Jobs
  <2>2. stage[<<request, x>>] = "none"
    BY <1>1, <2>1 DEF IInv, RequestedOnce
  <2>3. \/ stage'[J("receive")] = stage[J("receive")]
        \/ stage[J("receive")] = "none" /\ stage'[J("receive")] = "queued"
    BY <1>1, <2>1, <2>2 DEF TypeOK
  <2>4. \A k \in Flight("chunk", y)' : k \in Flight("chunk", y)
    BY <2>1 DEF Flight
  <2>5. /\ <<"done", y>> \in net' \/ result'[y] = "ok" => <<"done", y>> \in net \/ result[y] = "ok"
        /\ sent'[y] \in Nat /\ sent[y] <= sent'[y]
    BY <1>1, <2>1
  <2> QED BY <1>1, <2>1, <2>3, <2>4, <2>5, KeptAside
<1>3. ASSUME NEW x \in Transfers, SendChunk(x) PROVE Kept(y)'
  <2> DEFINE next == IF WindowFull(sent[x] + 1) THEN "waiting"
                     ELSE IF More(x, sent[x] + 1) THEN "going" ELSE "ended"
  <2>1. /\ stage' = [stage EXCEPT ![<<"send", x>>] = next] /\ <<"send", x>> \in Jobs
        /\ net' = net \cup {<<"chunk", x, sent[x] + 1>>} /\ sent' = [sent EXCEPT ![x] = sent[x] + 1]
        /\ UNCHANGED <<result, got, temp, stream, file>>
    BY <1>3 DEF SendChunk, Jobs
  <2> HIDE DEF next
  <2>2. stage'[J("receive")] = stage[J("receive")]
    BY <1>1, <2>1 DEF TypeOK
  <2>3. sent'[y] \in Nat /\ sent[y] <= sent'[y]
    BY <1>1, <2>1 DEF TypeOK
  <2>4. \A k \in Flight("chunk", y)' : k \in Flight("chunk", y) \/ k > sent[y]
    BY <1>1, <2>1 DEF Flight
  <2>5. <<"done", y>> \in net' => <<"done", y>> \in net
    BY <2>1
  <2> QED BY <1>1, <2>1, <2>2, <2>3, <2>4, <2>5, KeptAside
<1>4. ASSUME NEW x \in Transfers, NEW i \in Positions, ReadAck(x, i) PROVE Kept(y)'
  <2>1. /\ <<"send", x>> \in Jobs /\ net' \subseteq net
        /\ UNCHANGED <<result, sent, got, temp, stream, file>>
    BY <1>4 DEF ReadAck, Jobs
  <2>2. stage'[J("receive")] = stage[J("receive")]
    BY <1>1, <1>4, <2>1 DEF ReadAck, TypeOK
  <2>3. \A k \in Flight("chunk", y)' : k \in Flight("chunk", y)
    BY <2>1 DEF Flight
  <2>4. /\ <<"done", y>> \in net' \/ result'[y] = "ok" => <<"done", y>> \in net \/ result[y] = "ok"
        /\ sent'[y] \in Nat /\ sent[y] <= sent'[y]
    BY <1>1, <2>1
  <2> QED BY <1>1, <2>1, <2>2, <2>3, <2>4, KeptAside
<1>5. ASSUME NEW x \in Transfers, NEW k \in Positions, ReadChunk(x, k) PROVE Kept(y)'
  <2>1. CASE x = y
    BY <1>1, <1>5, <2>1, ReadChunkWrites
  <2>2. CASE x # y
    <3> DEFINE next == IF Whole(x, k) THEN "whole" ELSE stage[<<"receive", x>>]
    <3>1. <<"receive", x>> \in Jobs /\ stage' = [stage EXCEPT ![<<"receive", x>>] = next]
      BY <1>1, <1>5 DEF ReadChunk, Jobs, TypeOK
    <3>2. got'[y] = got[y] /\ UNCHANGED <<sent, file, result>>
      BY <1>1, <1>5, <2>2 DEF ReadChunk, TypeOK
    <3>3. y \in stream => y \in stream'
      BY <1>5 DEF ReadChunk
    <3>4. \A f \in TempFiles \ {Temp[x]} : temp'[f] = temp[f]
      BY <1>1, <1>5 DEF ReadChunk, TypeOK
    <3>5. \A m \in net' : m \in net \/ m[2] = x
      BY <1>5 DEF ReadChunk
    <3> HIDE DEF next
    <3> QED BY <1>1, <2>2, <3>1, <3>2, <3>3, <3>4, <3>5, OthersKept
  <2> QED BY <2>1, <2>2
<1>6. ASSUME NEW x \in Transfers, Finish(x) PROVE Kept(y)'
  <2>1. CASE x = y
    BY <1>1, <1>6, <2>1, FinishCopies
  <2>2. CASE x # y
    <3>1. <<"receive", x>> \in Jobs /\ stage' = [stage EXCEPT ![<<"receive", x>>] = "ended"]
      BY <1>6 DEF Finish, Jobs
    <3>2. file'[y] = file[y] /\ UNCHANGED <<sent, got, result>>
      BY <1>1, <1>6, <2>2 DEF Finish, TypeOK
    <3>3. y \in stream => y \in stream'
      BY <1>6, <2>2 DEF Finish, OwnTempFiles
    <3>4. \A f \in TempFiles \ {Temp[x]} : temp'[f] = temp[f]
      BY <1>1, <1>6 DEF Finish, TypeOK
    <3>5. \A m \in net' : m \in net \/ m[2] = x
      BY <1>6 DEF Finish
    <3> QED BY <1>1, <2>2, <3>1, <3>2, <3>3, <3>4, <3>5, OthersKept
  <2> QED BY <2>1, <2>2
<1>7. ASSUME NEW j \in Jobs, stage[j] = "waiting", stage' = [stage EXCEPT ![j] = "ended"],
             net' \subseteq net,
             <<"done", y>> \in net' \/ result'[y] = "ok" => <<"done", y>> \in net \/ result[y] = "ok",
             UNCHANGED <<sent, got, temp, stream, file>>
      PROVE  Kept(y)'
  <2>1. \/ stage'[J("receive")] = stage[J("receive")]
        \/ stage[J("receive")] = "waiting" /\ stage'[J("receive")] = "ended"
    BY <1>1, <1>7 DEF TypeOK
  <2>2. \A k \in Flight("chunk", y)' : k \in Flight("chunk", y)
    BY <1>7 DEF Flight
  <2> QED BY <1>1, <1>7, <2>1, <2>2, KeptAside
<1>8. ASSUME NEW x \in Transfers, NoFile(x) PROVE Kept(y)'
  <2>1. <<"receive", x>> \in Jobs /\ net' \subseteq net
    BY <1>8 DEF NoFile, Jobs
  <2> QED BY <1>7, <1>8, <2>1 DEF NoFile
<1>9. ASSUME NEW x \in Transfers, TransferOK(x) PROVE Kept(y)'
  <2>1. <<"ask", x>> \in Jobs /\ net' \subseteq net
    BY <1>9 DEF TransferOK, Jobs
  <2>2. result'[y] = "ok" => result[y] = "ok" \/ <<"done", y>> \in net
    BY <1>1, <1>9 DEF TransferOK, TypeOK
  <2> QED BY <1>7, <1>9, <2>1, <2>2 DEF TransferOK
<1>10. ASSUME NEW p \in Pools, StartJob(p) PROVE Kept(y)'
  <2> DEFINE j == Head(pool[p])
             next == FirstStage(j)
  <2>1. pool[p] \in Seq(Jobs) /\ pool[p] # <<>>
    BY <1>1, <1>10 DEF StartJob, TypeOK
  <2>2. j \in Jobs /\ j = pool[p][1] /\ 1 \in 1 .. Len(pool[p])
    BY <2>1
  <2>3. stage[j] = "queued"
    BY <1>1, <2>2 DEF IInv, QueuedOnce
  <2>4. /\ net' = net \cup FirstMessages(j) /\ stage' = [stage EXCEPT ![j] = next]
        /\ UNCHANGED <<result, sent, got, temp, stream, file>>
    BY <1>10 DEF StartJob
  <2>5. FirstMessages(j) \subseteq {<<kind, j[2]>> : kind \in {"receive", "send", "no file"}}
    BY <2>2, JobPools DEF FirstMessages
  <2>6. next # "whole"
    BY DEF FirstStage
  <2> HIDE DEF j, next
  <2>7. J("receive") = j => got[y] = 0
    BY <1>1, <2>3, NothingWritten
  <2>8. \/ stage'[J("receive")] = stage[J("receive")]
        \/ /\ stage[J("receive")] # "ended" /\ stage'[J("receive")] # "whole"
           /\ stage'[J("receive")] = "waiting" => got[y] = 0
    BY <1>1, <2>3, <2>4, <2>6, <2>7 DEF TypeOK
  <2>9. <<"done", y>> \in net' => <<"done", y>> \in net
    BY <2>4, <2>5
  <2>10. \A k \in Flight("chunk", y)' : k \in Flight("chunk", y)
    BY <2>4, <2>5 DEF Flight
  <2> QED BY <1>1, <2>4, <2>8, <2>9, <2>10, KeptAside
<1>11. ASSUME NEW j \in Jobs, Timeout(j) PROVE Kept(y)'
  <2>1. result'[y] = "ok" => result[y] = "ok"
    BY <1>1, <1>11 DEF Timeout, TypeOK
  <2> QED BY <1>7, <1>11, <2>1 DEF Timeout, Impatient
<1>12. ASSUME NEW x \in Transfers, TransferFile(x) PROVE Kept(y)'
  <2>1. /\ <<"ask", x>> \in Jobs /\ stage' = [stage EXCEPT ![<<"ask", x>>] = "queued"]
        /\ UNCHANGED <<net, result, sent, got, temp, stream, file>>
    BY <1>12 DEF TransferFile, Enqueue, Jobs
  <2>2. stage'[J("receive")] = stage[J("receive")]
    BY <1>1, <2>1 DEF TypeOK
  <2>3. \A k \in Flight("chunk", y)' : k \in Flight("chunk", y)
    BY <2>1 DEF Flight
  <2>4. /\ <<"done", y>> \in net' \/ result'[y] = "ok" => <<"done", y>> \in net \/ result[y] = "ok"
        /\ sent'[y] \in Nat /\ sent[y] <= sent'[y]
    BY <1>1, <2>1
  <2> QED BY <1>1, <2>1, <2>2, <2>3, <2>4, KeptAside
<1>13. ASSUME net' \subseteq net, UNCHANGED <<pool, stage, result, sent, got, temp, stream, file>>
       PROVE  Kept(y)'
  <2>1. \A k \in Flight("chunk", y)' : k \in Flight("chunk", y)
    BY <1>13 DEF Flight
  <2>2. /\ <<"done", y>> \in net' \/ result'[y] = "ok" => <<"done", y>> \in net \/ result[y] = "ok"
        /\ sent'[y] \in Nat /\ sent[y] <= sent'[y]
    BY <1>1, <1>13
  <2> QED BY <1>1, <1>13, <2>1, <2>2, KeptAside
<1>14. ASSUME NEW m \in net, Lose(m) PROVE Kept(y)'
  BY <1>13, <1>14 DEF Lose
<1>15. ASSUME UNCHANGED vars PROVE Kept(y)'
  BY <1>13, <1>15 DEF vars
<1>16. ASSUME Advance PROVE Kept(y)'
  BY <1>2, <1>3, <1>4, <1>5, <1>6, <1>8, <1>9, <1>10, <1>11, <1>16
     DEF Advance, Serves, Source, Destination
<1> QED BY <1>12, <1>14, <1>15, <1>16 DEF Next

\* A transfer that is reported to be all right is whole, whatever is lost and in
\* whatever order the chunks come, where no two transfers share a temporary file;
\* where they do it need not be, which a run shows (file_service.cpp
\* evt_transfer_file, in_temp_file).
THEOREM ReportedWhole ==
  ASSUME OwnTempFiles
  PROVE  Spec => []OkMeansWhole
<1>1. Init => WholeIInv
  <2> SUFFICES ASSUME Init, NEW x \in Transfers PROVE Kept(x)
    BY InitInv DEF WholeIInv
  <2>1. stage[<<"receive", x>>] = "none" /\ net = {} /\ result[x] = "none"
    BY DEF Init, Jobs
  <2> QED BY <2>1 DEF Kept
<1>2. WholeIInv /\ [Next]_vars => WholeIInv'
  <2> SUFFICES ASSUME WholeIInv, [Next]_vars PROVE WholeIInv'
    OBVIOUS
  <2>1. IInv'
    BY StepKeeps DEF WholeIInv
  <2>2. \A y \in Transfers : Kept(y)'
    BY <2>1, KeptKeeps
  <2> QED BY <2>1, <2>2 DEF WholeIInv
<1>3. WholeIInv => OkMeansWhole
  BY DEF WholeIInv, Kept, OkMeansWhole
<1> QED BY <1>1, <1>2, <1>3, PTL DEF Spec
=============================================================================
