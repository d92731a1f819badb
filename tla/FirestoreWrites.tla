--------------------------- MODULE FirestoreWrites ---------------------------
(***************************************************************************)
(* The write path of the Firestore client of one device: what happens to a *)
(* setData of the chat screen until the server has it and the device knows.*)
(*                                                                         *)
(*   setData -> worker queue -> mutation queue (on disk) -> write pipeline *)
(*           -> write stream -> gRPC call -> server                        *)
(*                                                                         *)
(* Everything of the client runs on one worker queue, so a worker          *)
(* operation is one action; gRPC completes its operations on a thread of   *)
(* its own and enqueues each completion on the worker queue, where it      *)
(* waits behind those before it.                                           *)
(*                                                                         *)
(* A request is the number of a write, or 0 for the handshake; a response  *)
(* carries the number it answers, which the client cannot see.  The server *)
(* and the network are external: the server serves the requests of a call  *)
(* in order and ends the call at one it refuses; a broken call may deliver *)
(* any prefix of what was sent, and requests it delivered may still be     *)
(* served until the server shakes hands with the next call.                *)
(***************************************************************************)
EXTENDS Integers, Sequences, FiniteSets

CONSTANTS
  Paths,             \* document paths
  MaxWrites,         \* bound: writes are numbered 1..MaxWrites
  PathOf,            \* the path of each write
  Denied,            \* writes the server refuses with a permanent error
  MaxPendingWrites,  \* kMaxPendingWrites (10 in the code)
  MaxBreaks,         \* bound: errors of the network or of the token
  MaxEnds            \* bound: ends of the process

Writes == 1..MaxWrites
Handshake == 0

ASSUME ConstantsAssumption ==
  /\ MaxWrites \in Nat
  /\ PathOf \in [Writes -> Paths]
  /\ Denied \subseteq Writes
  /\ MaxPendingWrites \in Nat \ {0}
  /\ MaxBreaks \in Nat
  /\ MaxEnds \in Nat

VARIABLES
  alive,        \* the process runs and its Firestore client is configured
  calls,        \* setData calls so far
  handed,       \* writes whose operation waits on the worker queue
  queue,        \* disk: the mutation queue, batches in the order of their ids
  nextBatchId,
  client,       \* the write pipeline and the write stream
  wire,         \* the gRPC call between the client and the server
  late,         \* requests of a call the client has given up
  store,        \* server: the last write applied to each path
  committed,    \* history: writes the server applied at least once
  applied,      \* history: the queued writes the present call has applied
  outcome,      \* history: how the client resolved each write
  lost,         \* history: writes the process took with it
  breaks, ends  \* counters of the bounds

disk_vars    == <<queue, nextBatchId>>
server_vars  == <<late, store, committed>>
history_vars == <<outcome, lost, breaks, ends>>
vars == <<alive, calls, handed, disk_vars, client, wire, server_vars, applied,
          history_vars>>

Batch == [id : Nat, write : Writes]

-----------------------------------------------------------------------------
(* GrpcStream: one write at a time is with gRPC, the others are buffered.  *)

NoCall == [reading |-> FALSE, writing |-> FALSE, issued |-> <<>>,
           buffer |-> <<>>, finished |-> FALSE, completions |-> <<>>]

NoWire == [requests |-> <<>>, responses |-> <<>>, trailer |-> "none",
           shaken |-> FALSE]

TryStartWrite(call) ==
  IF call.buffer = <<>> \/ call.writing THEN call
  ELSE [call EXCEPT !.writing = TRUE,
                    !.issued = <<Head(call.buffer)>>,
                    !.buffer = Tail(@)]

EnqueueWrites(call, requests) ==
  TryStartWrite([call EXCEPT !.buffer = @ \o requests])

\* FinishGrpcCall: all completions are cancelled, those that only wait for
\* the worker too, and the call's status is asked for.
FinishGrpcCall(call) ==
  [call EXCEPT !.finished = TRUE, !.reading = FALSE, !.issued = <<>>,
               !.completions = <<[type |-> "finish"]>>]

-----------------------------------------------------------------------------
(* Stream and WriteStream *)

IsStarted(c) == c.state \in {"Starting", "Open", "Backoff"}
IsOpen(c)    == c.state = "Open"

\* Start: after an error the stream first backs off.
Start(c) ==
  IF c.state = "Error" THEN [c EXCEPT !.state = "Backoff"]
  ELSE [c EXCEPT !.state = "Starting", !.asked = @ + 1]

Write(c, requests) ==
  [c EXCEPT !.idle = @ /\ requests = <<>>,
            !.call = EnqueueWrites(@, requests)]

MarkIdle(c) == IF IsOpen(c) THEN [c EXCEPT !.idle = TRUE] ELSE c

\* Variant: a token asked for before the close still counts.
CloseKeepingToken(c, state) ==
  [c EXCEPT !.idle = FALSE, !.call = NoCall, !.state = state]

\* Close up to the callback: timers are cancelled, the close count makes an
\* outstanding token stale, the gRPC stream is gone.
Close(c, state) ==
  [c EXCEPT !.idle = FALSE,
            !.asked = 0,
            !.stale = @ \/ c.asked > 0,
            !.call = NoCall,
            !.state = state]

\* Variant: the handshake of the closed stream is remembered.
ForgetHandshakeNever(c) == c

\* NotifyStreamClose resets the handshake after the callback.
ForgetHandshake(c) == [c EXCEPT !.handshake = FALSE]

\* What becomes of the call on the server when the client drops it.
AbandonWire ==
  /\ wire' = NoWire
  /\ IF wire.shaken
     THEN \E m \in 0..Len(wire.requests) : late' = SubSeq(wire.requests, 1, m)
     ELSE late' = late

-----------------------------------------------------------------------------
(* RemoteStore *)

ShouldStartWriteStream(c) == ~IsStarted(c) /\ c.pipeline # <<>>

StartIfNeeded(c) == IF ShouldStartWriteStream(c) THEN Start(c) ELSE c

WritesOf(batches) == [i \in DOMAIN batches |-> batches[i].write]

\* NextMutationBatchAfterBatchId, again and again: the keys are in order.
BatchesAfter(q, id) ==
  SubSeq(q, Cardinality({i \in DOMAIN q : q[i].id <= id}) + 1, Len(q))

AtMost(s, n) == SubSeq(s, 1, IF Len(s) < n THEN Len(s) ELSE n)

\* Variant: the search starts at the front of the queue.
FillWritePipelineAnew(c, q) ==
  LET added   == AtMost(q, MaxPendingWrites - Len(c.pipeline))
      filled  == [c EXCEPT !.pipeline = @ \o added]
      written == IF IsOpen(c) /\ c.handshake
                 THEN Write(filled, WritesOf(added)) ELSE filled
  IN  StartIfNeeded(IF filled.pipeline = <<>> THEN MarkIdle(written) ELSE written)

\* FillWritePipeline with AddToWritePipeline: batches enter the pipeline in
\* order, up to its limit, and are written at once on a stream that has
\* shaken hands.  With nothing to send the stream is marked idle.
FillWritePipeline(c, q) ==
  LET last    == IF c.pipeline = <<>> THEN 0 ELSE c.pipeline[Len(c.pipeline)].id
      added   == AtMost(BatchesAfter(q, last), MaxPendingWrites - Len(c.pipeline))
      filled  == [c EXCEPT !.pipeline = @ \o added]
      written == IF IsOpen(c) /\ c.handshake
                 THEN Write(filled, WritesOf(added)) ELSE filled
  IN  StartIfNeeded(IF filled.pipeline = <<>> THEN MarkIdle(written) ELSE written)

\* RemoveMutationBatch, which asserts that the batch is at the front.
Without(q, batch) == IF q # <<>> /\ Head(q) = batch THEN Tail(q) ELSE q

-----------------------------------------------------------------------------
\* asked and stale: the token requests of this opening of the stream, and
\* whether one of an earlier opening is still to be answered.
NewClient == [pipeline |-> <<>>, state |-> "Initial", handshake |-> FALSE,
              idle |-> FALSE, asked |-> 0, stale |-> FALSE, call |-> NoCall]

Init ==
  /\ alive = TRUE
  /\ calls = 0
  /\ handed = <<>>
  /\ queue = <<>>
  /\ nextBatchId = 1
  /\ client = NewClient
  /\ wire = NoWire
  /\ late = <<>>
  /\ store = [p \in Paths |-> 0]
  /\ committed = {}
  /\ applied = 0
  /\ outcome = [w \in Writes |-> "none"]
  /\ lost = {}
  /\ breaks = 0
  /\ ends = 0

(* The user and the worker queue *)

\* setData: the write is handed to the worker queue.
SetData ==
  /\ alive
  /\ calls < MaxWrites
  /\ calls' = calls + 1
  /\ handed' = Append(handed, calls + 1)
  /\ UNCHANGED <<alive, disk_vars, client, wire, server_vars, applied,
                 history_vars>>

\* SyncEngine::WriteMutations: the batch is stored and the pipeline filled.
WriteMutations ==
  /\ alive
  /\ handed # <<>>
  /\ LET q == Append(queue, [id |-> nextBatchId, write |-> Head(handed)]) IN
     /\ queue' = q
     /\ client' = FillWritePipeline(client, q)
  /\ nextBatchId' = nextBatchId + 1
  /\ handed' = Tail(handed)
  /\ UNCHANGED <<alive, calls, wire, server_vars, applied, history_vars>>

\* ResumeStartWithCredentials with a token: the call starts to read, the
\* stream is open and the handshake is written.
ReceiveToken ==
  /\ alive
  /\ client.asked > 0
  /\ client' = Write([client EXCEPT !.asked = @ - 1,
                                    !.state = "Open",
                                    !.call = [NoCall EXCEPT !.reading = TRUE]],
                     <<Handshake>>)
  /\ wire' = NoWire
  /\ UNCHANGED <<alive, calls, handed, disk_vars, server_vars, applied,
                 history_vars>>

\* A token that was asked for before the stream was closed is ignored.
ReceiveStaleToken ==
  /\ alive
  /\ client.stale
  /\ client' = [client EXCEPT !.stale = FALSE]
  /\ UNCHANGED <<alive, calls, handed, disk_vars, wire, server_vars, applied,
                 history_vars>>

\* The token could not be had: the stream closes with that error.
FailToken ==
  /\ alive
  /\ client.asked > 0
  /\ breaks < MaxBreaks
  /\ breaks' = breaks + 1
  /\ client' = ForgetHandshake(StartIfNeeded(
                 Close([client EXCEPT !.asked = @ - 1], "Error")))
  /\ UNCHANGED <<alive, calls, handed, disk_vars, wire, server_vars, applied,
                 outcome, lost, ends>>

\* The delay of BackoffAndTryRestarting is over.
BackoffElapsed ==
  /\ alive
  /\ client.state = "Backoff"
  /\ client' = Start([client EXCEPT !.state = "Initial"])
  /\ UNCHANGED <<alive, calls, handed, disk_vars, wire, server_vars, applied,
                 history_vars>>

\* The idle timer: a graceful stop.
IdleTimeout ==
  /\ alive
  /\ client.idle
  /\ client' = ForgetHandshake(StartIfNeeded(Close(client, "Initial")))
  /\ AbandonWire
  /\ UNCHANGED <<alive, calls, handed, disk_vars, store, committed, applied,
                 history_vars>>

\* RestartNetwork, when the connectivity changed: the stream is stopped, the
\* pipeline emptied, the backoff inhibited and the pipeline filled anew.
RestartNetwork ==
  /\ alive
  /\ breaks < MaxBreaks
  /\ breaks' = breaks + 1
  /\ LET stopped == ForgetHandshake(Close(client, "Initial")) IN
     client' = FillWritePipeline([stopped EXCEPT !.pipeline = <<>>], queue)
  /\ AbandonWire
  /\ UNCHANGED <<alive, calls, handed, disk_vars, store, committed, applied,
                 outcome, lost, ends>>

(* Completions on the worker queue *)

Completes(type) ==
  /\ alive
  /\ client.call.completions # <<>>
  /\ Head(client.call.completions).type = type

\* The call with its first completion taken off the worker queue.
Rest == [client.call EXCEPT !.completions = Tail(@)]

\* OnRead of the first response: the handshake is complete and the pipeline
\* is written.
OnWriteStreamHandshakeComplete ==
  /\ Completes("read")
  /\ ~client.handshake
  /\ client' = Write([client EXCEPT !.handshake = TRUE,
                                    !.call = [Rest EXCEPT !.reading = TRUE]],
                     WritesOf(client.pipeline))
  /\ UNCHANGED <<alive, calls, handed, disk_vars, wire, server_vars, applied,
                 history_vars>>

\* OnRead of a later response: it is taken for the answer to the first write
\* of the pipeline, which HandleSuccessfulWrite removes from the disk.
OnWriteStreamMutationResult ==
  /\ Completes("read")
  /\ client.handshake
  /\ client.pipeline # <<>>
  /\ LET batch == Head(client.pipeline)
         q     == Without(queue, batch)
         c     == [client EXCEPT !.pipeline = Tail(@),
                                 !.call = [Rest EXCEPT !.reading = TRUE]]
     IN  /\ queue' = q
         /\ client' = FillWritePipeline(c, q)
         /\ outcome' = [outcome EXCEPT ![batch.write] = "acknowledged"]
  /\ applied' = IF applied > 0 THEN applied - 1 ELSE 0
  /\ UNCHANGED <<alive, calls, handed, nextBatchId, wire, server_vars, lost,
                 breaks, ends>>

\* OnWrite: the next buffered write goes to gRPC.
OnWrite ==
  /\ Completes("write")
  /\ client' = [client EXCEPT !.call = TryStartWrite([Rest EXCEPT !.writing = FALSE])]
  /\ UNCHANGED <<alive, calls, handed, disk_vars, wire, server_vars, applied,
                 history_vars>>

\* OnOperationFailed: the first failure finishes the call, a later one is
\* ignored.
OnOperationFailed ==
  /\ Completes("failed")
  /\ client' = [client EXCEPT !.call = IF @.finished THEN Rest ELSE FinishGrpcCall(Rest)]
  /\ UNCHANGED <<alive, calls, handed, disk_vars, wire, server_vars, applied,
                 history_vars>>

\* OnStreamFinish with an error that says nothing about a write: the stream
\* restarts if there is still something to send.
OnStreamFinish ==
  /\ Completes("finish")
  /\ ~(wire.trailer = "permanent" /\ client.handshake /\ client.pipeline # <<>>)
  /\ client' = ForgetHandshake(StartIfNeeded(Close(client, "Error")))
  /\ AbandonWire
  /\ UNCHANGED <<alive, calls, handed, disk_vars, store, committed, applied,
                 history_vars>>

\* Variant: the refused batch stays in the pipeline.
HandleWriteErrorRetrying ==
  /\ Completes("finish")
  /\ wire.trailer = "permanent" /\ client.handshake /\ client.pipeline # <<>>
  /\ client' = ForgetHandshake(StartIfNeeded(Close(client, "Error")))
  /\ AbandonWire
  /\ UNCHANGED <<alive, calls, handed, disk_vars, store, committed, applied,
                 history_vars>>

\* OnStreamFinish with a permanent error after the handshake: the first write
\* of the pipeline is taken for the one at fault and rejected, backoff is
\* inhibited, and the pipeline is filled (which restarts the stream).
HandleWriteError ==
  /\ Completes("finish")
  /\ wire.trailer = "permanent" /\ client.handshake /\ client.pipeline # <<>>
  /\ LET batch == Head(client.pipeline)
         q     == Without(queue, batch)
         c     == [Close(client, "Initial") EXCEPT !.pipeline = Tail(@)]
     IN  /\ queue' = q
         /\ client' = ForgetHandshake(StartIfNeeded(FillWritePipeline(c, q)))
         /\ outcome' = [outcome EXCEPT ![batch.write] = "rejected"]
  /\ applied' = IF applied > 0 THEN applied - 1 ELSE 0
  /\ AbandonWire
  /\ UNCHANGED <<alive, calls, handed, nextBatchId, store, committed, lost,
                 breaks, ends>>

(* gRPC, on its own thread *)

Completion(call, type) == [call EXCEPT !.completions = Append(@, [type |-> type])]

\* The issued write is accepted by the transport.
WriteSucceeds ==
  /\ client.call.issued # <<>>
  /\ wire.trailer = "none"
  /\ wire' = [wire EXCEPT !.requests = @ \o client.call.issued]
  /\ client' = [client EXCEPT !.call = Completion([@ EXCEPT !.issued = <<>>], "write")]
  /\ UNCHANGED <<alive, calls, handed, disk_vars, server_vars, applied,
                 history_vars>>

\* The call has ended: the issued write fails.
WriteFails ==
  /\ client.call.issued # <<>>
  /\ wire.trailer # "none"
  /\ client' = [client EXCEPT !.call = Completion([@ EXCEPT !.issued = <<>>], "failed")]
  /\ UNCHANGED <<alive, calls, handed, disk_vars, wire, server_vars, applied,
                 history_vars>>

\* A response completes the pending read.
ReadSucceeds ==
  /\ client.call.reading
  /\ wire.responses # <<>>
  /\ wire' = [wire EXCEPT !.responses = Tail(@)]
  /\ client' = [client EXCEPT !.call = Completion([@ EXCEPT !.reading = FALSE], "read")]
  /\ UNCHANGED <<alive, calls, handed, disk_vars, server_vars, applied,
                 history_vars>>

\* There will be no more responses: the pending read fails.
ReadFails ==
  /\ client.call.reading
  /\ wire.responses = <<>>
  /\ wire.trailer # "none"
  /\ client' = [client EXCEPT !.call = Completion([@ EXCEPT !.reading = FALSE], "failed")]
  /\ UNCHANGED <<alive, calls, handed, disk_vars, wire, server_vars, applied,
                 history_vars>>

\* The call breaks; what was on its way may be lost from the end.
BreakCall ==
  /\ IsOpen(client)
  /\ wire.trailer = "none"
  /\ breaks < MaxBreaks
  /\ breaks' = breaks + 1
  /\ \E m \in 0..Len(wire.requests), n \in 0..Len(wire.responses) :
       /\ wire' = [NoWire EXCEPT !.responses = SubSeq(wire.responses, 1, n),
                                 !.trailer = "transient"]
       /\ late' = IF wire.shaken THEN SubSeq(wire.requests, 1, m) ELSE late
  /\ UNCHANGED <<alive, calls, handed, disk_vars, client, store, committed,
                 applied, outcome, lost, ends>>

(* The server *)

Apply(w) ==
  /\ store' = [store EXCEPT ![PathOf[w]] = w]
  /\ committed' = committed \cup {w}
  /\ applied' = applied + 1

Serving == wire.requests # <<>> /\ wire.trailer = "none"

\* The handshake of a call puts an end to the calls before it.
ServeHandshake ==
  /\ Serving
  /\ Head(wire.requests) = Handshake
  /\ wire' = [wire EXCEPT !.requests = Tail(@), !.shaken = TRUE,
                          !.responses = Append(@, Handshake)]
  /\ late' = <<>>
  /\ applied' = 0
  /\ UNCHANGED <<alive, calls, handed, disk_vars, client, store, committed,
                 history_vars>>

ServeWrite ==
  /\ Serving
  /\ Head(wire.requests) \in Writes \ Denied
  /\ Apply(Head(wire.requests))
  /\ wire' = [wire EXCEPT !.requests = Tail(@),
                          !.responses = Append(@, Head(wire.requests))]
  /\ UNCHANGED <<alive, calls, handed, disk_vars, client, late, history_vars>>

RefuseWrite ==
  /\ Serving
  /\ Head(wire.requests) \in Denied
  /\ wire' = [NoWire EXCEPT !.responses = wire.responses, !.trailer = "permanent"]
  /\ UNCHANGED <<alive, calls, handed, disk_vars, client, server_vars, applied,
                 history_vars>>

\* A request of an abandoned call.
ServeLate ==
  /\ late # <<>>
  /\ \/ /\ Head(late) \notin Denied
        /\ Apply(Head(late))
        /\ late' = Tail(late)
     \/ /\ Head(late) \in Denied
        /\ late' = <<>>
        /\ UNCHANGED <<store, committed, applied>>
  /\ UNCHANGED <<alive, calls, handed, disk_vars, client, wire, history_vars>>

(* The process *)

\* The process ends; only the disk stays.
EndProcess ==
  /\ alive
  /\ ends < MaxEnds
  /\ ends' = ends + 1
  /\ alive' = FALSE
  /\ lost' = lost \cup {handed[i] : i \in DOMAIN handed}
  /\ handed' = <<>>
  /\ client' = NewClient
  /\ AbandonWire
  /\ UNCHANGED <<calls, disk_vars, store, committed, applied, outcome, breaks>>

\* Variant: the batch ids of every process start at 1.
InitializeAtOne ==
  /\ ~alive
  /\ alive' = TRUE
  /\ nextBatchId' = 1
  /\ client' = FillWritePipeline(NewClient, queue)
  /\ UNCHANGED <<calls, handed, queue, wire, server_vars, applied, history_vars>>

\* The first use of Firestore in a new process: LocalStore::Start reads the
\* next batch id off the disk, RemoteStore::Start fills the pipeline.
Initialize ==
  /\ ~alive
  /\ alive' = TRUE
  /\ nextBatchId' = 1 + (IF queue = <<>> THEN 0 ELSE queue[Len(queue)].id)
  /\ client' = FillWritePipeline(NewClient, queue)
  /\ UNCHANGED <<calls, handed, queue, wire, server_vars, applied, history_vars>>

-----------------------------------------------------------------------------
Worker ==
  \/ WriteMutations \/ ReceiveToken \/ ReceiveStaleToken \/ BackoffElapsed
  \/ OnWriteStreamHandshakeComplete \/ OnWriteStreamMutationResult
  \/ OnWrite \/ OnOperationFailed \/ OnStreamFinish \/ HandleWriteError
  \/ Initialize

Grpc == WriteSucceeds \/ WriteFails \/ ReadSucceeds \/ ReadFails

Server == ServeHandshake \/ ServeWrite \/ RefuseWrite \/ ServeLate

Environment ==
  \/ SetData \/ FailToken \/ IdleTimeout \/ RestartNetwork \/ BreakCall \/ EndProcess

Next == Worker \/ Grpc \/ Server \/ Environment

\* The worker queue runs what is on it, gRPC completes its operations, the
\* server answers.  Nothing makes the user write, the idle timer fire or the
\* network break.
Fairness == WF_vars(Worker) /\ WF_vars(Grpc) /\ WF_vars(Server)

Spec == Init /\ [][Next]_vars /\ Fairness
-----------------------------------------------------------------------------
(* Properties *)

Saved == (1..calls) \ (lost \cup {handed[i] : i \in DOMAIN handed})

Queued == {queue[i].write : i \in DOMAIN queue}

\* Whatever happens to the connection and to the process, a write is only
\* reported as done, and only leaves the disk as done, when the server has
\* applied it: the client pairs responses with the pipeline by position alone
\* (OnWriteStreamMutationResult:432-450, NotifyStreamClose:112-117).
DoneIsCommitted ==
  \A w \in Writes : outcome[w] = "acknowledged" => w \in committed

\* A write that was stored is never forgotten: it is on the disk until it was
\* resolved, and one that the server never applied was refused
\* (AddMutationBatch:158-185, LoadNextBatchIdFromDb:58-125).
StoredIsResolved ==
  \A w \in Saved :
    /\ w \in Queued <=> outcome[w] = "none"
    /\ w \notin Queued /\ w \notin committed => w \in Denied

\* None of the assertions of the write path fails: a result never arrives for
\* an empty pipeline, the idle timer never stops a stream that is needed, a
\* token never arrives for a stream that is not starting, and a batch that is
\* resolved is at the front of the queue on disk (remote_store.cc:437 and 456,
\* stream.cc:130 and 173, leveldb_mutation_queue.cc:196-202).
HardAssertsHold ==
  /\ Completes("read") /\ client.handshake => client.pipeline # <<>>
  /\ client.idle => IsOpen(client) /\ client.pipeline = <<>>
  /\ client.asked = (IF client.state = "Starting" THEN 1 ELSE 0)
  /\ client.handshake => IsOpen(client)
  /\ client.pipeline = SubSeq(queue, 1, Len(client.pipeline))
  /\ Len(client.pipeline) <= MaxPendingWrites

\* Once the process stays alive, everything that was stored is resolved, no
\* matter where errors and restarts fell.
Drains == <>[]alive => []<>(queue = <<>>)

-----------------------------------------------------------------------------
Queue == INSTANCE WriteQueue WITH
  Slots   <- Paths,
  Posts   <- Writes,
  SlotOf  <- PathOf,
  Refused <- Denied,
  pending <- [i \in DOMAIN queue |-> queue[i].write],
  reached <- applied,
  board   <- store

\* The write path implements WriteQueue, the queue the chat room relies on.
QueueSpec == Queue!Spec
=============================================================================
