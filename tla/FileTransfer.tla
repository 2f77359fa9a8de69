----------------------------- MODULE FileTransfer -----------------------------
(***************************************************************************)
(* The file services: transfers of files between the nodes.                *)
(*                                                                         *)
(* A transfer takes three jobs.  The service that asks waits for progress  *)
(* reports; the destination requests the file, collects its chunks in a    *)
(* temporary file and copies that over the destination; the source sends   *)
(* the chunks and, after each window of them, waits for an acknowledgement *)
(* of the destination.  The jobs run on the threads of two pools per       *)
(* service.  Messages are delivered in any order, may be lost, and may     *)
(* come after whoever waits for them has lost patience.                    *)
(***************************************************************************)
EXTENDS Integers, Sequences, FiniteSets

CONSTANTS
  Services,    \* the file services
  Transfers,   \* the calls of transfer_file
  By, To, Of,  \* the service that asks, the destination, the source
  Chunks,      \* Chunks[x]: how many packets the file fills, 0 for no file
  Window,      \* FILE_CHUNK_WINDOW_SIZE
  Temp,        \* Temp[x]: the name that in_temp_file returns for x
  Longest,     \* bound: the chunks of the longest file
  Unlucky,     \* bound: transfers whose messages may be lost or late
  None         \* no transfer, in the place of a chunk's content

ASSUME FileTransferAssumption ==
  /\ By \in [Transfers -> Services]
  /\ To \in [Transfers -> Services]
  /\ Of \in [Transfers -> Services]
  /\ Longest \in Nat \ {0}
  /\ Chunks \in [Transfers -> 0 .. Longest]
  /\ Window \in Nat \ {0}
  /\ Unlucky \subseteq Transfers
  /\ None \notin Transfers

VARIABLES
  net,      \* messages on their way or in the mailbox they are for
  pool,     \* pool[p]: the queue of a thread pool
  stage,    \* stage[j]: how far a job is
  result,   \* result[x]: "ok" or "error" once the asker has been told
  sent,     \* sent[x]: chunks sent, num_packets and offset of the source
  got,      \* got[x]: chunks written, num_packets and amount of the destination
  temp,     \* temp[f]: whose chunk is at each position of a temporary file
  stream,   \* the transfers whose open stream still has a name
  file      \* file[x]: the destination file of x

vars == <<net, pool, stage, result, sent, got, temp, stream, file>>

-----------------------------------------------------------------------------

Jobs == {"ask", "receive", "send"} \X Transfers

\* The pool a job runs in: m_thread_pool2 for the asker's, m_thread_pool1 for
\* the two others.
PoolOf(j) ==
  CASE j[1] = "ask" -> <<By[j[2]], 2>>
    [] j[1] = "receive" -> <<To[j[2]], 1>>
    [] j[1] = "send" -> <<Of[j[2]], 1>>

Pools == Services \X {1, 2}

\* Mistake: the sizes of the two pools are swapped.
ThreadsSwapped(p) == p[2]

Threads(p) == IF p[2] = 1 THEN 2 ELSE 1

Running == {"going", "waiting", "whole"}

Busy(p) == {j \in Jobs : PoolOf(j) = p /\ stage[j] \in Running}

TempFiles == {Temp[x] : x \in Transfers}

Positions == 1 .. Longest

Empty == [k \in Positions |-> None]

Contents(x) == [k \in Positions |-> IF k <= Chunks[x] THEN x ELSE None]

Init ==
  /\ net = {}
  /\ pool = [p \in Pools |-> <<>>]
  /\ stage = [j \in Jobs |-> "none"]
  /\ result = [x \in Transfers |-> "none"]
  /\ sent = [x \in Transfers |-> 0]
  /\ got = [x \in Transfers |-> 0]
  /\ temp = [f \in TempFiles |-> Empty]
  /\ stream = {}
  /\ file = [x \in Transfers |-> Empty]

-----------------------------------------------------------------------------
(* The pools.                                                               *)

Enqueue(j) ==
  /\ pool' = [pool EXCEPT ![PoolOf(j)] = Append(@, j)]
  /\ stage' = [stage EXCEPT ![j] = "queued"]

\* The application calls transfer_file.
TransferFile(x) ==
  /\ stage[<<"ask", x>>] = "none"
  /\ Enqueue(<<"ask", x>>)
  /\ UNCHANGED <<net, result, sent, got, temp, stream, file>>

\* File_Service::run reads a request and hives it off.
Serve(x, request) ==
  /\ <<request, x>> \in net
  /\ net' = net \ {<<request, x>>}
  /\ Enqueue(<<request, x>>)
  /\ UNCHANGED <<result, sent, got, temp, stream, file>>

\* What a job does first: the asker and the destination send a request on, the
\* source of no file says so.
FirstMessages(j) ==
  CASE j[1] = "ask" -> {<<"receive", j[2]>>}
    [] j[1] = "receive" -> {<<"send", j[2]>>}
    [] j[1] = "send" -> IF Chunks[j[2]] = 0 THEN {<<"no file", j[2]>>} ELSE {}

FirstStage(j) ==
  IF j[1] # "send" THEN "waiting"
  ELSE IF Chunks[j[2]] = 0 THEN "ended" ELSE "going"

\* A free thread of the pool takes the oldest job.
StartJob(p) ==
  /\ pool[p] # <<>> /\ Cardinality(Busy(p)) < Threads(p)
  /\ LET j == Head(pool[p]) IN
     /\ net' = net \cup FirstMessages(j)
     /\ stage' = [stage EXCEPT ![j] = FirstStage(j)]
  /\ pool' = [pool EXCEPT ![p] = Tail(@)]
  /\ UNCHANGED <<result, sent, got, temp, stream, file>>

-----------------------------------------------------------------------------
(* The source: evt_send_file.                                               *)

\* Mistake: the file is thought to go on after its last chunk.
MoreAlways(x, n) == n <= Chunks[x]

More(x, n) == n < Chunks[x]

\* Mistake: only the first window is waited for.
WindowFullOnce(n) == n = Window

WindowFull(n) == n % Window = 0

SendChunk(x) ==
  LET n == sent[x] + 1  j == <<"send", x>> IN
  /\ stage[j] = "going"
  /\ net' = net \cup {<<"chunk", x, n>>}
  /\ sent' = [sent EXCEPT ![x] = n]
  /\ stage' = [stage EXCEPT ![j] = IF WindowFull(n) THEN "waiting"
                                   ELSE IF More(x, n) THEN "going" ELSE "ended"]
  /\ UNCHANGED <<pool, result, got, temp, stream, file>>

ReadAck(x, i) ==
  LET j == <<"send", x>> IN
  /\ stage[j] = "waiting" /\ <<"ack", x, i>> \in net
  /\ net' = net \ {<<"ack", x, i>>}
  /\ stage' = [stage EXCEPT ![j] = IF More(x, sent[x]) THEN "going" ELSE "ended"]
  /\ UNCHANGED <<pool, result, sent, got, temp, stream, file>>

-----------------------------------------------------------------------------
(* The destination: evt_transfer_file.                                      *)

\* An ack goes out with the first chunk and with the first of each window.
AckDue(n) == (n - 1) % Window = 0

\* The transfer is complete when as many bytes have come as the file has.
\* Mistake: when the last byte of the file has come.
WholeAtEnd(x, k) == k = Chunks[x]

Whole(x, k) == got[x] + 1 = Chunks[x]

\* The first chunk, whichever it is, opens and truncates the temporary file.
Opened(x) == IF got[x] = 0 THEN Empty ELSE temp[Temp[x]]

\* Chunks are written where they belong, in any order.  A stream whose file
\* was removed writes to nowhere.
ReadChunk(x, k) ==
  LET n == got[x] + 1  j == <<"receive", x>>  m == <<"chunk", x, k>> IN
  /\ stage[j] = "waiting" /\ m \in net
  /\ net' = (net \ {m}) \cup (IF AckDue(n) THEN {<<"ack", x, n>>} ELSE {})
  /\ got' = [got EXCEPT ![x] = n]
  /\ stream' = IF n = 1 THEN stream \cup {x} ELSE stream
  /\ temp' = IF x \in stream' THEN [temp EXCEPT ![Temp[x]] = [Opened(x) EXCEPT ![k] = x]]
             ELSE temp
  /\ stage' = [stage EXCEPT ![j] = IF Whole(x, k) THEN "whole" ELSE @]
  /\ UNCHANGED <<pool, result, sent, file>>

\* The temporary file is copied over the destination and removed, the asker
\* is told.
Finish(x) ==
  LET j == <<"receive", x>> IN
  /\ stage[j] = "whole"
  /\ file' = [file EXCEPT ![x] = temp[Temp[x]]]
  /\ temp' = [temp EXCEPT ![Temp[x]] = Empty]
  /\ stream' = {y \in stream : Temp[y] # Temp[x]}
  /\ net' = net \cup {<<"done", x>>}
  /\ stage' = [stage EXCEPT ![j] = "ended"]
  /\ UNCHANGED <<pool, result, sent, got>>

\* There is no such file, or it is empty: the asker is not told.
NoFile(x) ==
  LET j == <<"receive", x>> IN
  /\ stage[j] = "waiting" /\ <<"no file", x>> \in net
  /\ net' = net \ {<<"no file", x>>}
  /\ stage' = [stage EXCEPT ![j] = "ended"]
  /\ UNCHANGED <<pool, result, sent, got, temp, stream, file>>

-----------------------------------------------------------------------------
(* The asker: transfer_file.  The progress reports in between only restart   *)
(* its clock, and clocks are left out.                                       *)

TransferOK(x) ==
  LET j == <<"ask", x>> IN
  /\ stage[j] = "waiting" /\ <<"done", x>> \in net
  /\ net' = net \ {<<"done", x>>}
  /\ result' = [result EXCEPT ![x] = "ok"]
  /\ stage' = [stage EXCEPT ![j] = "ended"]
  /\ UNCHANGED <<pool, sent, got, temp, stream, file>>

-----------------------------------------------------------------------------
(* What can go wrong.                                                       *)

Lose(m) ==
  /\ m \in net /\ m[2] \in Unlucky
  /\ net' = net \ {m}
  /\ UNCHANGED <<pool, stage, result, sent, got, temp, stream, file>>

\* A service receives two files at a time, which takes both threads of its pool 1.
Crowded ==
  \E x, y \in Transfers :
    /\ x # y /\ To[x] = To[y]
    /\ stage[<<"receive", x>>] \in Running /\ stage[<<"receive", y>>] \in Running

\* Nobody works on what j waits for: there is no thread for it, or the destination
\* has ended without a word to the asker.
InVain(j) ==
  \/ Crowded /\ \E k \in {"receive", "send"} : stage[<<k, j[2]>>] = "queued"
  \/ stage[<<"receive", j[2]>>] = "ended" /\ <<"done", j[2]>> \notin net

\* FILE_TRANSFER_TIMEOUT passes without the awaited message.  Nobody tells the
\* others: they time out by themselves, and the temporary file stays.
\* Mistake: the asker reads its mailbox without a timeout.
PatientAsker(j) == stage[j] = "waiting" /\ j[1] # "ask"

Impatient(j) == stage[j] = "waiting"

Timeout(j) ==
  /\ Impatient(j)
  /\ j[2] \in Unlucky \/ Chunks[j[2]] = 0 \/ InVain(j)
  /\ stage' = [stage EXCEPT ![j] = "ended"]
  /\ result' = [result EXCEPT ![j[2]] = IF j[1] = "ask" THEN "error" ELSE @]
  /\ UNCHANGED <<net, pool, sent, got, temp, stream, file>>

-----------------------------------------------------------------------------

Source(x) == SendChunk(x) \/ \E i \in Positions : ReadAck(x, i)

Destination(x) == (\E k \in Positions : ReadChunk(x, k)) \/ Finish(x) \/ NoFile(x)

Serves(x) == \E request \in {"receive", "send"} : Serve(x, request)

\* What threads that run, messages that arrive and clocks that tick do.
Advance ==
  \/ \E x \in Transfers : Serves(x) \/ Source(x) \/ Destination(x) \/ TransferOK(x)
  \/ \E p \in Pools : StartJob(p)
  \/ \E j \in Jobs : Timeout(j)

Next ==
  \/ Advance
  \/ \E x \in Transfers : TransferFile(x)
  \/ \E m \in net : Lose(m)

Spec == Init /\ [][Next]_vars

\* Every job is finite, so it is enough that somebody goes on who can.
FairSpec == Spec /\ WF_vars(Advance)

-----------------------------------------------------------------------------
(* Properties.                                                             *)

Messages == ({"receive", "send", "done", "no file"} \X Transfers)
              \cup ({"chunk", "ack"} \X Transfers \X Positions)

\* Every variable keeps its type.  No job works past the end of its file.
TypeOK ==
  /\ net \subseteq Messages
  /\ pool \in [Pools -> Seq(Jobs)]
  /\ stage \in [Jobs -> Running \cup {"none", "queued", "ended"}]
  /\ result \in [Transfers -> {"none", "ok", "error"}]
  /\ sent \in [Transfers -> Nat] /\ got \in [Transfers -> Nat]
  /\ \A x \in Transfers : got[x] <= sent[x] /\ sent[x] <= Chunks[x]
  /\ temp \in [TempFiles -> [Positions -> Transfers \cup {None}]]
  /\ stream \subseteq Transfers
  /\ file \in [Transfers -> [Positions -> Transfers \cup {None}]]

\* A transfer that is reported to be all right has put every chunk of the file
\* in its place and nothing else, in whatever order the chunks came.
OkMeansWhole == \A x \in Transfers : result[x] = "ok" => file[x] = Contents(x)

\* Flow control: the source is never two windows ahead of the destination.
WithinTwoWindows == \A x \in Transfers : sent[x] - got[x] < 2 * Window

\* In the end every thread is free again and no job waits for one, whatever
\* was lost and whoever gave up.
ThreadsFreed ==
  <>[](\A j \in Jobs : stage[j] \in {"none", "ended"})

\* A transfer that nothing happens to succeeds, whatever happens to others that
\* share its pools, as long as no service receives two files at a time: no window
\* is waited for in vain, and a thread that waits for chunks leaves one to send
\* them.  Two such threads leave none, and transfers that cross all time out.
Succeeds ==
  \A x \in {y \in Transfers \ Unlucky : Chunks[y] > 0} :
    stage[<<"ask", x>>] = "queued" ~> result[x] = "ok" \/ Crowded

=============================================================================
