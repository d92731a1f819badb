------------------------ MODULE FirestoreWritesProofs ------------------------
(***************************************************************************)
(* Theorems about FirestoreWrites, for every number of writes, refused or  *)
(* not, every limit of the pipeline and any number of broken calls and     *)
(* ends of the process: no write is reported done before the server has    *)
(* applied it, the assertions of the write path hold, and the write path   *)
(* implements WriteQueue.                                                  *)
(*                                                                         *)
(* All rest on one count.  While a call works, what the server has applied *)
(* of the queue is as long as the answers that are on their way, and what  *)
(* follows in the queue, up to the end of the pipeline, is exactly what is *)
(* with the server, with gRPC and in the buffer, in this order.  The call  *)
(* may break, and its requests may come late, but only the count of the    *)
(* answers can fall behind.                                                *)
(***************************************************************************)
EXTENDS FirestoreWrites, SequenceTheorems, FiniteSetTheorems, TLAPS

Requests == Writes \cup {Handshake}
CompletionType == [type : {"read", "write", "failed", "finish"}]
Call ==
  [reading : BOOLEAN, writing : BOOLEAN, issued : Seq(Requests),
   buffer : Seq(Requests), finished : BOOLEAN, completions : Seq(CompletionType)]
Wire ==
  [requests : Seq(Requests), responses : Seq(Requests),
   trailer : {"none", "transient", "permanent"}, shaken : BOOLEAN]
Client ==
  [pipeline : Seq(Batch), handshake : BOOLEAN, idle : BOOLEAN, asked : Nat,
   state : {"Initial", "Starting", "Open", "Backoff", "Error"},
   stale : BOOLEAN, call : Call]

Has(completions, type) == \E i \in DOMAIN completions : completions[i].type = type
AtMostOne(completions, type) ==
  \A i, j \in DOMAIN completions :
    completions[i].type = type /\ completions[j].type = type => i = j

-----------------------------------------------------------------------------
\* The batches on disk are in the order of their ids, below the next one.
InOrder(q, next) ==
  /\ next \in Nat \ {0}
  /\ \A i \in DOMAIN q : 0 < q[i].id /\ q[i].id < next
  /\ \A i, j \in DOMAIN q : i < j => q[i].id < q[j].id

\* Reads and writes of a call: one of each at a time, and a failure tells
\* that the call is over.
CallOK(call, trailer) ==
  /\ call.reading \/ call.finished => ~Has(call.completions, "read")
  /\ call.finished => ~call.reading
  /\ AtMostOne(call.completions, "read")
  /\ call.issued # <<>> => call.writing /\ ~Has(call.completions, "write")
  /\ Has(call.completions, "write") => call.writing
  /\ AtMostOne(call.completions, "write")
  /\ call.finished \/ Has(call.completions, "failed") => trailer # "none"

\* The pipeline is the front of the queue.
FrontOK(c, q) ==
  /\ Len(c.pipeline) <= Len(q)
  /\ Len(c.pipeline) <= MaxPendingWrites
  /\ \A i \in 1..Len(c.pipeline) : c.pipeline[i] = q[i]

\* An open stream is there for the pipeline, or idle.
Opened(c) ==
  /\ c.asked = 0
  /\ c.idle => c.handshake /\ c.pipeline = <<>>
  /\ ~c.handshake => c.pipeline # <<>>

\* One that is not open has no call, and is only started for the pipeline.
Shut(c) ==
  /\ c.state # "Open"
  /\ c.asked = IF c.state = "Starting" THEN 1 ELSE 0
  /\ c.state \in {"Starting", "Backoff"} => c.pipeline # <<>>
  /\ ~c.idle
  /\ c.call = NoCall

ClientOK(c, q) ==
  /\ FrontOK(c, q)
  /\ IF c.state = "Open" THEN Opened(c) ELSE Shut(c) /\ ~c.handshake

\* A call that is over carries no requests, one that is not there nothing.
WireOK(c, w) ==
  /\ w.shaken => w.trailer = "none"
  /\ w.trailer # "none" => w.requests = <<>>
  /\ c.state # "Open" => w = NoWire

\* Answers on their way to the client, and requests on theirs to the server.
Answers(c, w) ==
  Len(w.responses) + (IF Has(c.call.completions, "read") THEN 1 ELSE 0)
Out(c, w) == (w.requests \o c.call.issued) \o c.call.buffer

\* Before the handshake is answered, and after.
Shaking(c, w, a, l) ==
  /\ w.trailer # "permanent"
  /\ Answers(c, w) <= 1
  /\ Answers(c, w) = 1 => a = 0 /\ l = <<>>
  /\ w.trailer = "none" /\ ~w.shaken =>
       Answers(c, w) = 0 /\ Len(Out(c, w)) = 1 /\ Out(c, w)[1] = Handshake
  /\ w.trailer = "none" /\ w.shaken => Answers(c, w) = 1 /\ Len(Out(c, w)) = 0

Sending(c, w, q, a, l) ==
  /\ Answers(c, w) <= a
  /\ a + Len(l) <= Len(c.pipeline)
  /\ w.trailer = "none" =>
       /\ w.shaken /\ l = <<>> /\ Answers(c, w) = a
       /\ Len(Out(c, w)) + a = Len(c.pipeline)
       /\ \A i \in 1..Len(Out(c, w)) : Out(c, w)[i] = q[a + i].write
  /\ w.trailer = "permanent" =>
       l = <<>> /\ a < Len(c.pipeline) /\ q[a + 1].write \in Denied

Flow(c, w, q, a, l) ==
  c.state = "Open" => IF c.handshake THEN Sending(c, w, q, a, l)
                                     ELSE Shaking(c, w, a, l)

\* What the server has applied of the queue, and may still get of it.
LateOK(q, a, l, done) ==
  /\ a + Len(l) <= Len(q)
  /\ \A i \in 1..a : q[i].write \in done
  /\ \A i \in 1..Len(l) : l[i] = q[a + i].write

TypeOK ==
  /\ calls \in 0..MaxWrites
  /\ handed \in Seq(Writes)
  /\ queue \in Seq(Batch)
  /\ client \in Client
  /\ wire \in Wire
  /\ late \in Seq(Requests)
  /\ applied \in Nat
  /\ outcome \in [Writes -> {"none", "acknowledged", "rejected"}]

IInv ==
  /\ TypeOK
  /\ InOrder(queue, nextBatchId)
  /\ CallOK(client.call, wire.trailer)
  /\ ClientOK(client, queue)
  /\ WireOK(client, wire)
  /\ Flow(client, wire, queue, applied, late)
  /\ LateOK(queue, applied, late, committed)
  /\ ~alive => client.state # "Open"
  /\ DoneIsCommitted

-----------------------------------------------------------------------------
(* Completions.                                                            *)

LEMMA CompletionsTail ==
  ASSUME NEW s \in Seq(CompletionType), s # <<>>, NEW type
  PROVE  /\ Tail(s) \in Seq(CompletionType)
         /\ Has(Tail(s), type) => Has(s, type)
         /\ AtMostOne(s, type) => AtMostOne(Tail(s), type)
         /\ Head(s).type # type => (Has(Tail(s), type) <=> Has(s, type))
         /\ AtMostOne(s, type) /\ Head(s).type = type =>
              Has(s, type) /\ ~Has(Tail(s), type)
<1>1. /\ Tail(s) \in Seq(CompletionType) /\ Len(Tail(s)) = Len(s) - 1
      /\ \A i \in 1..Len(Tail(s)) : Tail(s)[i] = s[i + 1]
      /\ Len(s) \in Nat \ {0} /\ DOMAIN s = 1..Len(s)
  BY HeadTailProperties, LenProperties, EmptySeq
<1>2. DOMAIN Tail(s) = 1..(Len(s) - 1) /\ Head(s) = s[1]
  BY <1>1, LenProperties
<1> DEFINE t == Tail(s)
<1>3. \A i \in DOMAIN t : i + 1 \in DOMAIN s /\ t[i] = s[i + 1] /\ i + 1 # 1
  BY <1>1, <1>2
<1>4. \A i \in DOMAIN s : i = 1 \/ (i - 1 \in DOMAIN t /\ t[i - 1] = s[i])
  BY <1>1, <1>2
<1>5. DOMAIN t \subseteq Int /\ 1 \in DOMAIN s
  BY <1>1, <1>2
<1> HIDE DEF t
<1>6. Has(t, type) => Has(s, type)
  BY <1>3 DEF Has
<1>7. AtMostOne(s, type) => AtMostOne(t, type)
  BY <1>3, <1>5 DEF AtMostOne
<1>8. s[1].type # type => (Has(t, type) <=> Has(s, type))
  BY <1>3, <1>4, ZenonT(60) DEF Has
<1>9. AtMostOne(s, type) /\ s[1].type = type => Has(s, type) /\ ~Has(t, type)
  BY <1>3, <1>5 DEF Has, AtMostOne
<1> QED
  BY <1>1, <1>2, <1>6, <1>7, <1>8, <1>9 DEF t

LEMMA CompletionsAppend ==
  ASSUME NEW s \in Seq(CompletionType), NEW new \in CompletionType, NEW type
  PROVE  /\ Append(s, new) \in Seq(CompletionType)
         /\ Has(Append(s, new), type) <=> Has(s, type) \/ new.type = type
         /\ AtMostOne(s, type) /\ (new.type # type \/ ~Has(s, type)) =>
              AtMostOne(Append(s, new), type)
<1> DEFINE t == Append(s, new)
<1>1. /\ t \in Seq(CompletionType) /\ Len(t) = Len(s) + 1
      /\ \A i \in 1..Len(s) : t[i] = s[i]
      /\ t[Len(s) + 1] = new
      /\ Len(s) \in Nat /\ DOMAIN s = 1..Len(s)
  BY AppendProperties, LenProperties
<1>2. DOMAIN t = 1..(Len(s) + 1)
  BY <1>1, LenProperties
<1> DEFINE n == Len(s) + 1
<1>3. /\ DOMAIN t = DOMAIN s \cup {n} /\ n \notin DOMAIN s /\ t[n] = new
      /\ \A i \in DOMAIN s : t[i] = s[i]
  BY <1>1, <1>2
<1> HIDE DEF t, n
<1>4. Has(t, type) <=> Has(s, type) \/ new.type = type
  BY <1>3 DEF Has
<1>5. AtMostOne(s, type) /\ (new.type # type \/ ~Has(s, type)) => AtMostOne(t, type)
  BY <1>3 DEF Has, AtMostOne
<1> QED
  BY <1>1, <1>4, <1>5 DEF t

LEMMA NoCompletions ==
  ASSUME NEW type
  PROVE  /\ ~Has(<<>>, type) /\ AtMostOne(<<>>, type)
         /\ type # "finish" => ~Has(<<[type |-> "finish"]>>, type)
         /\ AtMostOne(<<[type |-> "finish"]>>, type)
BY DEF Has, AtMostOne

-----------------------------------------------------------------------------
(* The call of the client.                                                 *)

LEMMA NoCallOK ==
  /\ NoCall \in Call
  /\ \A trailer : CallOK(NoCall, trailer)
  /\ NoCall.reading = FALSE /\ NoCall.issued = <<>> /\ NoCall.buffer = <<>>
  /\ NoCall.completions = <<>> /\ NoCall.finished = FALSE /\ NoCall.writing = FALSE
<1>1. NoCall \in Call
  BY EmptySeq DEF NoCall, Call
<1>2. /\ NoCall.reading = FALSE /\ NoCall.issued = <<>> /\ NoCall.buffer = <<>>
      /\ NoCall.completions = <<>> /\ NoCall.finished = FALSE
      /\ NoCall.writing = FALSE
  BY DEF NoCall
<1> QED
  BY <1>1, <1>2, NoCompletions DEF CallOK

\* What is with gRPC and what is buffered stay one sequence.
LEMMA TryStartWriteOK ==
  ASSUME NEW call \in Call, NEW trailer, CallOK(call, trailer)
  PROVE  LET new == TryStartWrite(call)
         IN  /\ new \in Call /\ CallOK(new, trailer)
             /\ new.issued \o new.buffer = call.issued \o call.buffer
             /\ new.completions = call.completions
<1> DEFINE new == TryStartWrite(call)
<1>1. CASE call.buffer = <<>> \/ call.writing
  BY <1>1 DEF TryStartWrite
<1>2. CASE ~(call.buffer = <<>> \/ call.writing)
  <2>1. new = [call EXCEPT !.writing = TRUE, !.issued = <<Head(call.buffer)>>,
                           !.buffer = Tail(call.buffer)]
    BY <1>2 DEF TryStartWrite
  <2>2. /\ call.buffer \in Seq(Requests) /\ call.buffer # <<>>
        /\ call.issued = <<>> /\ ~Has(call.completions, "write")
    BY <1>2 DEF Call, CallOK
  <2>3. /\ Head(call.buffer) \in Requests /\ Tail(call.buffer) \in Seq(Requests)
        /\ <<Head(call.buffer)>> \o Tail(call.buffer) = call.buffer
    BY <2>2, HeadTailProperties
  <2>4. /\ <<Head(call.buffer)>> \in Seq(Requests)
    BY <2>3
  <2>5. <<>> \o call.buffer = call.buffer
    BY <2>2, ConcatEmptySeq
  <2>6. /\ new \in Call /\ new.writing = TRUE /\ new.issued = <<Head(call.buffer)>>
        /\ new.buffer = Tail(call.buffer)
        /\ new.reading = call.reading /\ new.finished = call.finished
        /\ new.completions = call.completions
    BY <2>1, <2>3, <2>4 DEF Call
  <2>7. CallOK(new, trailer)
    BY <2>2, <2>6 DEF CallOK
  <2> QED
    BY <2>2, <2>3, <2>5, <2>6, <2>7
<1> QED
  BY <1>1, <1>2

LEMMA EnqueueWritesOK ==
  ASSUME NEW call \in Call, NEW trailer, CallOK(call, trailer),
         NEW requests \in Seq(Requests)
  PROVE  LET new == EnqueueWrites(call, requests)
         IN  /\ new \in Call /\ CallOK(new, trailer)
             /\ new.issued \o new.buffer = (call.issued \o call.buffer) \o requests
             /\ new.completions = call.completions
<1> DEFINE filled == [call EXCEPT !.buffer = @ \o requests]
<1>1. /\ call.issued \in Seq(Requests) /\ call.buffer \in Seq(Requests)
      /\ call.buffer \o requests \in Seq(Requests)
  BY ConcatProperties DEF Call
<1>2. /\ filled \in Call /\ filled.buffer = call.buffer \o requests
      /\ filled.issued = call.issued /\ filled.completions = call.completions
      /\ filled.reading = call.reading /\ filled.finished = call.finished
      /\ filled.writing = call.writing
  BY <1>1 DEF Call
<1>3. CallOK(filled, trailer)
  BY <1>2 DEF CallOK
<1>4. EnqueueWrites(call, requests) = TryStartWrite(filled)
  BY DEF EnqueueWrites
<1>5. filled.issued \o filled.buffer = (call.issued \o call.buffer) \o requests
  <2>1. (call.issued \o call.buffer) \o requests
          = call.issued \o (call.buffer \o requests)
    <3>1. \A s, t, u \in Seq(Requests) : (s \o t) \o u = s \o (t \o u)
      BY ConcatAssociative, SMTT(60)
    <3> QED
      BY <1>1, <3>1, ZenonT(60)
  <2> HIDE DEF filled
  <2> QED
    BY <1>2, <2>1
<1> QED
  BY <1>2, <1>3, <1>4, <1>5, TryStartWriteOK

-----------------------------------------------------------------------------
(* The pipeline.                                                           *)

LEMMA WritesOfBatches ==
  ASSUME NEW s \in Seq(Batch)
  PROVE  /\ WritesOf(s) \in Seq(Requests)
         /\ Len(WritesOf(s)) = Len(s)
         /\ \A i \in 1..Len(s) : WritesOf(s)[i] = s[i].write
<1>1. Len(s) \in Nat /\ DOMAIN s = 1..Len(s) /\ \A i \in 1..Len(s) : s[i] \in Batch
  BY LenProperties, ElementOfSeq
<1>2. \A i \in 1..Len(s) : s[i].write \in Requests
  BY <1>1, SMTT(60) DEF Batch, Requests
<1> QED
  BY <1>1, <1>2 DEF WritesOf

\* The batches that are not in the pipeline are those behind it.
LEMMA BatchesBehind ==
  ASSUME NEW q \in Seq(Batch), NEW next, InOrder(q, next),
         NEW n \in 0..Len(q), NEW id, id = IF n = 0 THEN 0 ELSE q[n].id
  PROVE  /\ BatchesAfter(q, id) \in Seq(Batch)
         /\ Len(BatchesAfter(q, id)) = Len(q) - n
         /\ \A i \in 1..(Len(q) - n) : BatchesAfter(q, id)[i] = q[n + i]
<1>1. /\ Len(q) \in Nat /\ DOMAIN q = 1..Len(q) /\ n \in Nat
      /\ \A i \in 1..Len(q) : q[i] \in Batch /\ q[i].id \in Nat
  <2>1. Len(q) \in Nat /\ DOMAIN q = 1..Len(q) /\ \A i \in 1..Len(q) : q[i] \in Batch
    BY LenProperties, ElementOfSeq
  <2> QED
    BY <2>1 DEF Batch
<1>2. {i \in DOMAIN q : q[i].id <= id} = 1..n
  <2>1. ASSUME NEW i \in DOMAIN q PROVE q[i].id <= id <=> i <= n
    <3>1. CASE n = 0
      BY <1>1, <3>1 DEF InOrder
    <3>2. CASE n # 0
      <4>1. n \in DOMAIN q /\ id = q[n].id
        BY <1>1, <3>2
      <4>2. /\ i < n => q[i].id < q[n].id
            /\ n < i => q[n].id < q[i].id
        BY <4>1 DEF InOrder
      <4> QED
        BY <1>1, <4>1, <4>2
    <3> QED
      BY <3>1, <3>2
  <2> QED
    BY <1>1, <2>1
<1>3. Cardinality(1..n) = n
  BY <1>1, FS_Interval
<1>4. BatchesAfter(q, id) = SubSeq(q, n + 1, Len(q))
  BY <1>2, <1>3, ZenonT(60) DEF BatchesAfter
<1> DEFINE t == SubSeq(q, n + 1, Len(q))
<1>5. /\ t \in Seq(Batch)
      /\ Len(t) = IF n + 1 <= Len(q) THEN Len(q) - (n + 1) + 1 ELSE 0
      /\ \A i \in 1..(Len(q) - (n + 1) + 1) : t[i] = q[(n + 1) + i - 1]
  <2>1. \A i \in (n + 1)..Len(q) : q[i] \in Batch
    BY <1>1
  <2> QED
    BY <1>1, <2>1, SubSeqProperties
<1> HIDE DEF t
<1>6. Len(t) = Len(q) - n /\ Len(q) - (n + 1) + 1 = Len(q) - n
  <2>1. n <= Len(q) /\ Len(q) - (n + 1) + 1 = Len(q) - n
    BY <1>1
  <2>2. CASE n + 1 <= Len(q)
    BY <1>5, <2>1, <2>2
  <2>3. CASE ~(n + 1 <= Len(q))
    <3>1. Len(t) = 0
      BY <1>5, <2>3
    <3>2. Len(q) = n
      BY <1>1, <2>1, <2>3
    <3> QED
      BY <1>1, <2>1, <3>1, <3>2
  <2> QED
    BY <2>1, <2>2, <2>3, ZenonT(60)
<1>7. ASSUME NEW i \in 1..(Len(q) - n) PROVE t[i] = q[n + i]
  <2>1. t[i] = q[(n + 1) + i - 1]
    BY <1>5, <1>6
  <2>2. (n + 1) + i - 1 = n + i
    BY <1>1
  <2> QED
    BY <2>1, <2>2
<1> QED
  BY <1>4, <1>5, <1>6, <1>7, ZenonT(60) DEF t

LEMMA AtMostProperties ==
  ASSUME NEW s \in Seq(Batch), NEW n \in Nat
  PROVE  /\ AtMost(s, n) \in Seq(Batch)
         /\ Len(AtMost(s, n)) <= n /\ Len(AtMost(s, n)) <= Len(s)
         /\ \A i \in 1..Len(AtMost(s, n)) : AtMost(s, n)[i] = s[i]
<1>1. Len(s) \in Nat /\ \A i \in 1..Len(s) : s[i] \in Batch
  BY LenProperties, ElementOfSeq
<1>2. PICK k \in Nat : /\ k <= n /\ k <= Len(s)
                       /\ AtMost(s, n) = SubSeq(s, 1, k)
  BY <1>1 DEF AtMost
<1>3. \A i \in 1..k : s[i] \in Batch
  BY <1>1, <1>2
<1>4. /\ SubSeq(s, 1, k) \in Seq(Batch)
      /\ Len(SubSeq(s, 1, k)) = IF 1 <= k THEN k - 1 + 1 ELSE 0
      /\ \A i \in 1..(k - 1 + 1) : SubSeq(s, 1, k)[i] = s[1 + i - 1]
  BY <1>2, <1>3, SubSeqProperties
<1>5. Len(SubSeq(s, 1, k)) = k /\ \A i \in 1..k : SubSeq(s, 1, k)[i] = s[i]
  BY <1>2, <1>4
<1> QED
  BY <1>2, <1>4, <1>5

\* Start, where it is called for.
LEMMA StartOK ==
  ASSUME NEW c \in Client, Shut(c), c.state \in {"Initial", "Error"},
         c.pipeline # <<>>
  PROVE  /\ Start(c) \in Client /\ Shut(Start(c))
         /\ Start(c).pipeline = c.pipeline /\ Start(c).handshake = c.handshake
<1>1. c.asked = 0 /\ ~c.idle /\ c.call = NoCall
  BY DEF Shut
<1>2. CASE c.state = "Error"
  <2>1. Start(c) = [c EXCEPT !.state = "Backoff"]
    BY <1>2 DEF Start
  <2>2. /\ Start(c) \in Client /\ Start(c).state = "Backoff"
        /\ Start(c).pipeline = c.pipeline /\ Start(c).handshake = c.handshake
        /\ Start(c).idle = c.idle /\ Start(c).asked = c.asked
        /\ Start(c).call = c.call
    BY <2>1 DEF Client
  <2> QED
    BY <1>1, <2>2 DEF Shut
<1>3. CASE c.state = "Initial"
  <2>1. Start(c) = [c EXCEPT !.state = "Starting", !.asked = 1]
    BY <1>1, <1>3 DEF Start
  <2> DEFINE new == Start(c)
             half == [c EXCEPT !.state = "Starting"]
  <2>a. new = [half EXCEPT !.asked = 1]
    BY <2>1 DEF Client
  <2>b. /\ half \in Client /\ half.state = "Starting"
        /\ half.pipeline = c.pipeline /\ half.handshake = c.handshake
        /\ half.idle = c.idle /\ half.call = c.call
    BY DEF Client
  <2> HIDE DEF half, new
  <2>c. new \in Client /\ new.asked = 1
    BY <2>a, <2>b DEF Client
  <2>d. /\ new.state = half.state
        /\ new.pipeline = half.pipeline /\ new.handshake = half.handshake
        /\ new.idle = half.idle /\ new.call = half.call
    BY <2>a, <2>b DEF Client
  <2>2. /\ Start(c) \in Client /\ Start(c).state = "Starting"
        /\ Start(c).pipeline = c.pipeline /\ Start(c).handshake = c.handshake
        /\ Start(c).idle = c.idle /\ Start(c).asked = 1
        /\ Start(c).call = c.call
    BY <2>b, <2>c, <2>d DEF new
  <2> QED
    BY <1>1, <2>2 DEF Shut
<1> QED
  BY <1>2, <1>3

LEMMA StartIfNeededOK ==
  ASSUME NEW c \in Client
  PROVE  LET new == StartIfNeeded(c)
         IN  /\ new \in Client /\ new.pipeline = c.pipeline
             /\ Shut(c) => Shut(new) /\ new.handshake = c.handshake
             /\ c.state = "Open" => new = c
<1>1. CASE ShouldStartWriteStream(c)
  <2>1. c.state \in {"Initial", "Error"} /\ c.pipeline # <<>>
    BY <1>1 DEF ShouldStartWriteStream, IsStarted, Client
  <2>2. StartIfNeeded(c) = Start(c)
    BY <1>1 DEF StartIfNeeded
  <2>3. Start(c) \in Client /\ Start(c).pipeline = c.pipeline
    <3>1. c.asked + 1 \in Nat
      BY DEF Client
    <3> QED
      BY <3>1 DEF Start, Client
  <2> QED
    BY <2>1, <2>2, <2>3, StartOK
<1>2. CASE ~ShouldStartWriteStream(c)
  BY <1>2 DEF StartIfNeeded
<1> QED
  BY <1>1, <1>2

\* A stream that is closed leaves a client without a call.
LEMMA CloseOK ==
  ASSUME NEW c \in Client, NEW state \in {"Initial", "Error"}
  PROVE  LET new == Close(c, state)
         IN  /\ new \in Client /\ Shut(new) /\ new.state = state
             /\ new.pipeline = c.pipeline
<1> DEFINE new == Close(c, state)
<1>1. /\ new \in Client /\ new.state = state /\ new.pipeline = c.pipeline
      /\ new.idle = FALSE /\ new.asked = 0 /\ new.call = NoCall
  BY NoCallOK DEF Close, Client
<1> HIDE DEF new
<1> QED
  BY <1>1 DEF Shut, new

LEMMA ForgetOK ==
  ASSUME NEW c \in Client, Shut(c), NEW q, FrontOK(c, q)
  PROVE  LET new == ForgetHandshake(c)
         IN  /\ new \in Client /\ ClientOK(new, q) /\ Shut(new)
             /\ new.pipeline = c.pipeline /\ new.state = c.state
<1> DEFINE new == ForgetHandshake(c)
<1>1. /\ new \in Client /\ new.state = c.state /\ new.pipeline = c.pipeline
      /\ new.idle = c.idle /\ new.asked = c.asked /\ new.call = c.call
      /\ ~new.handshake
  BY DEF ForgetHandshake, Client
<1> HIDE DEF new
<1> QED
  BY <1>1 DEF Shut, ClientOK, FrontOK, new

\* What is left of a client whose stream was closed.
LEMMA ClosedOK ==
  ASSUME NEW c \in Client, NEW state \in {"Initial", "Error"}, NEW q, FrontOK(c, q)
  PROVE  LET new == ForgetHandshake(StartIfNeeded(Close(c, state)))
         IN  new \in Client /\ ClientOK(new, q) /\ Shut(new)
<1> DEFINE closed == Close(c, state)
           started == StartIfNeeded(closed)
<1>1. closed \in Client /\ Shut(closed) /\ closed.pipeline = c.pipeline
  BY CloseOK
<1> HIDE DEF closed
<1>2. started \in Client /\ Shut(started) /\ started.pipeline = c.pipeline
  BY <1>1, StartIfNeededOK
<1>3. FrontOK(started, q)
  BY <1>2 DEF FrontOK
<1> HIDE DEF started
<1> QED
  BY <1>2, <1>3, ForgetOK DEF closed, started

-----------------------------------------------------------------------------
(* FillWritePipeline.                                                      *)

LastId(c) == IF c.pipeline = <<>> THEN 0 ELSE c.pipeline[Len(c.pipeline)].id
Added(c, q) == AtMost(BatchesAfter(q, LastId(c)), MaxPendingWrites - Len(c.pipeline))
Filled(c, q) == [c EXCEPT !.pipeline = @ \o Added(c, q)]

LEMMA FillForm ==
  ASSUME NEW c, NEW q
  PROVE  FillWritePipeline(c, q) =
           LET written == IF IsOpen(c) /\ c.handshake
                          THEN Write(Filled(c, q), WritesOf(Added(c, q)))
                          ELSE Filled(c, q)
           IN  StartIfNeeded(IF Filled(c, q).pipeline = <<>> THEN MarkIdle(written)
                             ELSE written)
BY DEF FillWritePipeline, Filled, Added, LastId

LEMMA AddedOK ==
  ASSUME NEW q \in Seq(Batch), NEW next, InOrder(q, next),
         NEW c \in Client, FrontOK(c, q)
  PROVE  /\ Added(c, q) \in Seq(Batch)
         /\ Len(c.pipeline) + Len(Added(c, q)) <= Len(q)
         /\ Len(c.pipeline) + Len(Added(c, q)) <= MaxPendingWrites
         /\ \A i \in 1..Len(Added(c, q)) : Added(c, q)[i] = q[Len(c.pipeline) + i]
<1> DEFINE n == Len(c.pipeline)
           rest == BatchesAfter(q, LastId(c))
<1>1. /\ c.pipeline \in Seq(Batch) /\ n \in Nat /\ Len(q) \in Nat
      /\ n <= Len(q) /\ n <= MaxPendingWrites /\ MaxPendingWrites \in Nat
      /\ (c.pipeline = <<>>) <=> (n = 0)
  BY LenProperties, EmptySeq, ConstantsAssumption DEF Client, FrontOK
<1>2. LastId(c) = IF n = 0 THEN 0 ELSE q[n].id
  <2>1. CASE n = 0
    BY <1>1, <2>1 DEF LastId
  <2>2. CASE n # 0
    <3>1. c.pipeline[n] = q[n]
      BY <1>1, <2>2 DEF FrontOK
    <3> QED
      BY <1>1, <2>2, <3>1 DEF LastId
  <2> QED
    BY <2>1, <2>2
<1>3. n \in 0..Len(q) /\ MaxPendingWrites - n \in Nat
  BY <1>1
<1>4. /\ rest \in Seq(Batch) /\ Len(rest) = Len(q) - n
      /\ \A i \in 1..(Len(q) - n) : rest[i] = q[n + i]
  <2> HIDE DEF n
  <2> QED
    BY <1>2, <1>3, BatchesBehind
<1> DEFINE added == AtMost(rest, MaxPendingWrites - n)
<1> HIDE DEF rest, n
<1>5. /\ added \in Seq(Batch)
      /\ Len(added) <= MaxPendingWrites - n /\ Len(added) <= Len(rest)
      /\ \A i \in 1..Len(added) : added[i] = rest[i]
  BY <1>3, <1>4, AtMostProperties
<1>6. Added(c, q) = added
  BY DEF Added, n, rest
<1> HIDE DEF added
<1>7. Len(added) \in Nat
  BY <1>5, LenProperties
<1>8. n + Len(added) <= Len(q) /\ n + Len(added) <= MaxPendingWrites
  BY <1>1, <1>4, <1>5, <1>7
<1>9. ASSUME NEW i \in 1..Len(added) PROVE added[i] = q[n + i]
  <2>1. i \in 1..(Len(q) - n)
    BY <1>1, <1>4, <1>5, <1>7
  <2> QED
    BY <1>4, <1>5, <2>1
<1> QED
  BY <1>5, <1>6, <1>8, <1>9 DEF n

LEMMA FilledOK ==
  ASSUME NEW q \in Seq(Batch), NEW next, InOrder(q, next),
         NEW c \in Client, FrontOK(c, q)
  PROVE  /\ Filled(c, q) \in Client
         /\ FrontOK(Filled(c, q), q)
         /\ Len(Filled(c, q).pipeline) = Len(c.pipeline) + Len(Added(c, q))
         /\ c.pipeline # <<>> => Filled(c, q).pipeline # <<>>
         /\ \A f \in {"state", "handshake", "idle", "asked", "stale", "call"} :
              Filled(c, q)[f] = c[f]
<1> DEFINE added == Added(c, q)
           p == c.pipeline \o added
<1>1. /\ added \in Seq(Batch) /\ c.pipeline \in Seq(Batch)
      /\ Len(c.pipeline) + Len(added) <= Len(q)
      /\ Len(c.pipeline) + Len(added) <= MaxPendingWrites
      /\ \A i \in 1..Len(added) : added[i] = q[Len(c.pipeline) + i]
  BY AddedOK DEF Client
<1>2. Len(c.pipeline) \in Nat /\ Len(added) \in Nat
  BY <1>1, LenProperties
<1> HIDE DEF added
<1>3. /\ p \in Seq(Batch) /\ Len(p) = Len(c.pipeline) + Len(added)
      /\ \A i \in 1..(Len(c.pipeline) + Len(added)) :
           p[i] = IF i <= Len(c.pipeline) THEN c.pipeline[i]
                  ELSE added[i - Len(c.pipeline)]
  BY <1>1, ConcatProperties
<1>4. Filled(c, q) = [c EXCEPT !.pipeline = p]
  BY DEF Filled, added
<1>5. ASSUME NEW i \in 1..Len(p) PROVE p[i] = q[i]
  <2>1. CASE i <= Len(c.pipeline)
    <3>1. i \in 1..Len(c.pipeline) /\ p[i] = c.pipeline[i]
      BY <1>2, <1>3, <2>1
    <3> QED
      BY <3>1 DEF FrontOK
  <2>2. CASE ~(i <= Len(c.pipeline))
    <3> DEFINE j == i - Len(c.pipeline)
    <3>1. j \in 1..Len(added) /\ Len(c.pipeline) + j = i /\ p[i] = added[j]
      BY <1>2, <1>3, <2>2
    <3> HIDE DEF j
    <3> QED
      BY <1>1, <3>1
  <2> QED
    BY <2>1, <2>2
<1>6. c.pipeline # <<>> => p # <<>>
  <2>1. c.pipeline # <<>> => Len(c.pipeline) # 0
    BY <1>1, EmptySeq
  <2>2. p = <<>> => Len(p) = 0
    BY EmptySeq
  <2> QED
    BY <1>2, <1>3, <2>1, <2>2
<1> HIDE DEF p
<1>7. Filled(c, q) \in Client /\ Filled(c, q).pipeline = p
  BY <1>3, <1>4 DEF Client
<1>8. \A f \in {"state", "handshake", "idle", "asked", "stale", "call"} :
        Filled(c, q)[f] = c[f]
  BY <1>4 DEF Client
<1> QED
  BY <1>1, <1>3, <1>5, <1>6, <1>7, <1>8 DEF FrontOK, added

\* FillWritePipeline of a client that is not open.
LEMMA FillShut ==
  ASSUME NEW q \in Seq(Batch), NEW next, InOrder(q, next),
         NEW c \in Client, FrontOK(c, q), Shut(c)
  PROVE  LET new == FillWritePipeline(c, q)
         IN  /\ new \in Client /\ FrontOK(new, q) /\ Shut(new)
             /\ new.handshake = c.handshake
<1> DEFINE filled == Filled(c, q)
<1>1. /\ filled \in Client /\ FrontOK(filled, q)
      /\ c.pipeline # <<>> => filled.pipeline # <<>>
      /\ filled.state = c.state /\ filled.handshake = c.handshake
      /\ filled.idle = c.idle /\ filled.asked = c.asked /\ filled.call = c.call
  BY FilledOK
<1>2. FillWritePipeline(c, q) =
        StartIfNeeded(IF filled.pipeline = <<>> THEN MarkIdle(filled) ELSE filled)
  BY FillForm DEF IsOpen, Shut
<1> HIDE DEF filled
<1>3. MarkIdle(filled) = filled
  BY <1>1 DEF MarkIdle, IsOpen, Shut
<1>4. FillWritePipeline(c, q) = StartIfNeeded(filled)
  BY <1>2, <1>3
<1>5. Shut(filled)
  BY <1>1 DEF Shut
<1> DEFINE new == StartIfNeeded(filled)
<1>6. /\ new \in Client /\ new.pipeline = filled.pipeline
      /\ Shut(new) /\ new.handshake = filled.handshake
  BY <1>1, <1>5, StartIfNeededOK
<1> HIDE DEF new
<1>7. FrontOK(new, q)
  BY <1>1, <1>6 DEF FrontOK
<1> QED
  BY <1>1, <1>4, <1>6, <1>7 DEF new

LEMMA OutType ==
  ASSUME NEW c \in Client, NEW w \in Wire
  PROVE  /\ w.requests \in Seq(Requests) /\ w.responses \in Seq(Requests)
         /\ c.call \in Call
         /\ c.call.issued \in Seq(Requests) /\ c.call.buffer \in Seq(Requests)
         /\ Out(c, w) \in Seq(Requests)
         /\ Out(c, w) = w.requests \o (c.call.issued \o c.call.buffer)
         /\ Answers(c, w) \in Nat /\ Len(w.responses) \in Nat
<1>1. /\ w.requests \in Seq(Requests) /\ w.responses \in Seq(Requests)
      /\ c.call \in Call
  BY DEF Client, Wire
<1>2. c.call.issued \in Seq(Requests) /\ c.call.buffer \in Seq(Requests)
  BY <1>1 DEF Call
<1>3. \A s, t, u \in Seq(Requests) : (s \o t) \o u = s \o (t \o u)
  BY ConcatAssociative, SMTT(60)
<1>4. \A s, t \in Seq(Requests) : s \o t \in Seq(Requests)
  BY ConcatProperties
<1>5. Out(c, w) = w.requests \o (c.call.issued \o c.call.buffer)
  BY <1>1, <1>2, <1>3, ZenonT(60) DEF Out
<1>6. Out(c, w) \in Seq(Requests)
  BY <1>1, <1>2, <1>4, <1>5
<1>7. Len(w.responses) \in Nat
  BY <1>1, LenProperties
<1>8. Answers(c, w) \in Nat
  <2>1. CASE Has(c.call.completions, "read")
    BY <1>7, <2>1 DEF Answers
  <2>2. CASE ~Has(c.call.completions, "read")
    BY <1>7, <2>2 DEF Answers
  <2> QED
    BY <2>1, <2>2
<1> QED
  BY <1>1, <1>2, <1>5, <1>6, <1>7, <1>8

\* More requests are put behind those that are out.
LEMMA OutLonger ==
  ASSUME NEW c \in Client, NEW d \in Client, NEW w \in Wire,
         NEW requests \in Seq(Requests),
         d.call.issued \o d.call.buffer = (c.call.issued \o c.call.buffer) \o requests
  PROVE  /\ Out(d, w) = Out(c, w) \o requests
         /\ Len(Out(d, w)) = Len(Out(c, w)) + Len(requests)
         /\ \A i \in 1..(Len(Out(c, w)) + Len(requests)) :
              Out(d, w)[i] = IF i <= Len(Out(c, w)) THEN Out(c, w)[i]
                             ELSE requests[i - Len(Out(c, w))]
<1>1. \A s, t, u \in Seq(Requests) : (s \o t) \o u = s \o (t \o u)
  BY ConcatAssociative, SMTT(60)
<1>2. /\ w.requests \in Seq(Requests) /\ Out(c, w) \in Seq(Requests)
      /\ c.call.issued \o c.call.buffer \in Seq(Requests)
      /\ Out(c, w) = w.requests \o (c.call.issued \o c.call.buffer)
      /\ Out(d, w) = w.requests \o (d.call.issued \o d.call.buffer)
  BY OutType, ConcatProperties
<1>3. Out(d, w) = Out(c, w) \o requests
  <2> DEFINE mid == c.call.issued \o c.call.buffer
  <2>1. mid \in Seq(Requests) /\ Out(c, w) = w.requests \o mid
        /\ Out(d, w) = w.requests \o (mid \o requests)
    BY <1>2
  <2>2. w.requests \in Seq(Requests)
    BY <1>2
  <2> HIDE DEF mid
  <2>3. (w.requests \o mid) \o requests = w.requests \o (mid \o requests)
    BY <1>1, <2>1, <2>2
  <2> QED
    BY <2>1, <2>3, Zenon
<1> DEFINE s == Out(c, w)
<1>4. s \in Seq(Requests)
  BY <1>2
<1> HIDE DEF s
<1>5. /\ Len(s \o requests) = Len(s) + Len(requests)
      /\ \A i \in 1..(Len(s) + Len(requests)) :
           (s \o requests)[i] = IF i <= Len(s) THEN s[i] ELSE requests[i - Len(s)]
  BY <1>4, ConcatProperties
<1> QED
  BY <1>3, <1>5 DEF s

\* FillWritePipeline before the handshake has nothing to do on the stream.
LEMMA FillUnshaken ==
  ASSUME NEW q \in Seq(Batch), NEW next, InOrder(q, next),
         NEW c \in Client, FrontOK(c, q), c.state = "Open", ~c.handshake, Opened(c)
  PROVE  LET new == FillWritePipeline(c, q)
         IN  /\ new \in Client /\ FrontOK(new, q) /\ Opened(new)
             /\ new.state = "Open" /\ ~new.handshake /\ new.call = c.call
<1> DEFINE filled == Filled(c, q)
<1>1. /\ filled \in Client /\ FrontOK(filled, q)
      /\ c.pipeline # <<>> => filled.pipeline # <<>>
      /\ filled.state = c.state /\ filled.handshake = c.handshake
      /\ filled.idle = c.idle /\ filled.asked = c.asked /\ filled.call = c.call
  BY FilledOK
<1>2. filled.pipeline # <<>>
  BY <1>1 DEF Opened
<1>3. FillWritePipeline(c, q) = StartIfNeeded(filled)
  BY <1>2, FillForm
<1> HIDE DEF filled
<1>4. StartIfNeeded(filled) = filled
  BY <1>1, StartIfNeededOK
<1> QED
  BY <1>1, <1>2, <1>3, <1>4 DEF Opened

\* After it, the batches that enter the pipeline are written at once.
LEMMA FillShaken ==
  ASSUME NEW q \in Seq(Batch), NEW next, InOrder(q, next),
         NEW c \in Client, FrontOK(c, q), c.state = "Open", c.handshake, Opened(c),
         NEW trailer, CallOK(c.call, trailer)
  PROVE  LET new     == FillWritePipeline(c, q)
             written == WritesOf(Added(c, q))
         IN  /\ new \in Client /\ FrontOK(new, q) /\ Opened(new)
             /\ new.state = "Open" /\ new.handshake
             /\ CallOK(new.call, trailer)
             /\ new.call.completions = c.call.completions
             /\ new.call.issued \o new.call.buffer
                  = (c.call.issued \o c.call.buffer) \o written
             /\ Len(new.pipeline) = Len(c.pipeline) + Len(written)
             /\ written \in Seq(Requests)
             /\ \A i \in 1..Len(written) : written[i] = q[Len(c.pipeline) + i].write
<1> DEFINE filled == Filled(c, q)
           added == Added(c, q)
           written == WritesOf(added)
<1>1. /\ filled \in Client /\ FrontOK(filled, q)
      /\ Len(filled.pipeline) = Len(c.pipeline) + Len(added)
      /\ c.pipeline # <<>> => filled.pipeline # <<>>
      /\ filled.state = c.state /\ filled.handshake = c.handshake
      /\ filled.idle = c.idle /\ filled.asked = c.asked /\ filled.call = c.call
  BY FilledOK
<1>2. /\ added \in Seq(Batch)
      /\ \A i \in 1..Len(added) : added[i] = q[Len(c.pipeline) + i]
  BY AddedOK
<1>3. FillWritePipeline(c, q) =
        StartIfNeeded(IF filled.pipeline = <<>> THEN MarkIdle(Write(filled, written))
                      ELSE Write(filled, written))
  BY FillForm DEF IsOpen
<1> HIDE DEF filled, added
<1>4. /\ written \in Seq(Requests) /\ Len(written) = Len(added)
      /\ \A i \in 1..Len(added) : written[i] = added[i].write
  BY <1>2, WritesOfBatches
<1>5. /\ Len(added) \in Nat /\ Len(c.pipeline) \in Nat
      /\ (filled.pipeline = <<>>) <=> (Len(filled.pipeline) = 0)
      /\ (c.pipeline = <<>>) <=> (Len(c.pipeline) = 0)
      /\ (written = <<>>) <=> (Len(written) = 0)
  <2>1. c.pipeline \in Seq(Batch) /\ filled.pipeline \in Seq(Batch)
    BY <1>1 DEF Client
  <2> QED
    BY <1>2, <1>4, <2>1, LenProperties, EmptySeq
<1> HIDE DEF written
<1> DEFINE call == EnqueueWrites(c.call, written)
           wrote == Write(filled, written)
<1>6. /\ call \in Call /\ CallOK(call, trailer)
      /\ call.issued \o call.buffer = (c.call.issued \o c.call.buffer) \o written
      /\ call.completions = c.call.completions
  <2>1. c.call \in Call
    BY DEF Client
  <2> QED
    BY <1>4, <2>1, EnqueueWritesOK
<1>7. wrote = [filled EXCEPT !.idle = filled.idle /\ written = <<>>, !.call = call]
  BY <1>1 DEF Write
<1> HIDE DEF call
<1>8. /\ wrote \in Client /\ wrote.call = call
      /\ wrote.pipeline = filled.pipeline /\ wrote.state = filled.state
      /\ wrote.handshake = filled.handshake /\ wrote.asked = filled.asked
  BY <1>1, <1>6, <1>7 DEF Client
<1>9. wrote.idle <=> filled.idle /\ written = <<>>
  BY <1>1, <1>7 DEF Client
<1> HIDE DEF wrote
<1>10. FrontOK(wrote, q)
  BY <1>1, <1>8 DEF FrontOK
<1> DEFINE new == IF filled.pipeline = <<>> THEN MarkIdle(wrote) ELSE wrote
<1>11. /\ new \in Client /\ new.call = call /\ new.pipeline = filled.pipeline
       /\ new.state = "Open" /\ new.handshake /\ new.asked = 0
       /\ FrontOK(new, q) /\ (new.idle => new.pipeline = <<>>)
  <2>1. wrote.state = "Open" /\ wrote.handshake /\ wrote.asked = 0
    BY <1>1, <1>8 DEF Opened
  <2>2. CASE filled.pipeline = <<>>
    <3>1. new = [wrote EXCEPT !.idle = TRUE]
      BY <2>1, <2>2 DEF MarkIdle, IsOpen
    <3> HIDE DEF new
    <3>2. /\ new \in Client /\ new.call = wrote.call /\ new.pipeline = wrote.pipeline
          /\ new.state = wrote.state /\ new.handshake = wrote.handshake
          /\ new.asked = wrote.asked
      BY <1>8, <3>1 DEF Client
    <3> QED
      BY <1>8, <1>10, <2>1, <2>2, <3>2 DEF FrontOK
  <2>3. CASE filled.pipeline # <<>>
    <3>1. new = wrote
      BY <2>3
    <3>2. ~wrote.idle
      <4>1. CASE written = <<>>
        <5>1. c.pipeline # <<>>
          BY <1>1, <1>4, <1>5, <2>3, <4>1
        <5> QED
          BY <1>1, <1>9, <5>1 DEF Opened
      <4>2. CASE written # <<>>
        BY <1>9, <4>2
      <4> QED
        BY <4>1, <4>2
    <3> HIDE DEF new
    <3> QED
      BY <1>8, <1>10, <2>1, <3>1, <3>2
  <2> QED
    BY <2>2, <2>3
<1>12. FillWritePipeline(c, q) = StartIfNeeded(new)
  BY <1>3 DEF wrote
<1> HIDE DEF new
<1>13. StartIfNeeded(new) = new
  BY <1>11, StartIfNeededOK
<1>14. Opened(new)
  BY <1>11 DEF Opened
<1>15. Len(new.pipeline) = Len(c.pipeline) + Len(written)
  BY <1>1, <1>4, <1>11
<1>16. \A i \in 1..Len(written) : written[i] = q[Len(c.pipeline) + i].write
  BY <1>2, <1>4
<1> QED
  BY <1>4, <1>6, <1>11, <1>12, <1>13, <1>14, <1>15, <1>16 DEF written, added

\* FillWritePipeline of a client that is as it should be.
LEMMA FillOK ==
  ASSUME NEW q \in Seq(Batch), NEW next, InOrder(q, next),
         NEW c \in Client, ClientOK(c, q),
         NEW w \in Wire, CallOK(c.call, w.trailer),
         NEW a \in Nat, NEW l \in Seq(Requests), Flow(c, w, q, a, l)
  PROVE  LET new == FillWritePipeline(c, q)
         IN  /\ new \in Client /\ ClientOK(new, q)
             /\ CallOK(new.call, w.trailer)
             /\ Flow(new, w, q, a, l)
             /\ new.state = "Open" <=> c.state = "Open"
<1> DEFINE new == FillWritePipeline(c, q)
<1>1. CASE c.state # "Open"
  <2>1. FrontOK(c, q) /\ Shut(c) /\ ~c.handshake
    BY <1>1 DEF ClientOK
  <2>2. /\ new \in Client /\ FrontOK(new, q) /\ Shut(new) /\ ~new.handshake
    BY <2>1, FillShut
  <2> HIDE DEF new
  <2>3. new.state # "Open" /\ new.call = NoCall
    BY <2>2 DEF Shut
  <2> QED
    BY <1>1, <2>2, <2>3, NoCallOK DEF ClientOK, Flow, new
<1>2. CASE c.state = "Open" /\ ~c.handshake
  <2>1. FrontOK(c, q) /\ Opened(c)
    BY <1>2 DEF ClientOK
  <2>2. /\ new \in Client /\ FrontOK(new, q) /\ Opened(new)
        /\ new.state = "Open" /\ ~new.handshake /\ new.call = c.call
    BY <1>2, <2>1, FillUnshaken
  <2>3. Shaking(c, w, a, l)
    BY <1>2 DEF Flow
  <2> HIDE DEF new
  <2>4. Answers(new, w) = Answers(c, w) /\ Out(new, w) = Out(c, w)
    BY <2>2 DEF Answers, Out
  <2>5. Shaking(new, w, a, l)
    BY <2>3, <2>4 DEF Shaking
  <2> QED
    BY <1>2, <2>2, <2>5 DEF ClientOK, Flow, new
<1>3. CASE c.state = "Open" /\ c.handshake
  <2> DEFINE written == WritesOf(Added(c, q))
  <2>1. FrontOK(c, q) /\ Opened(c) /\ Sending(c, w, q, a, l)
    BY <1>3 DEF ClientOK, Flow
  <2>2. /\ new \in Client /\ FrontOK(new, q) /\ Opened(new)
        /\ new.state = "Open" /\ new.handshake
        /\ CallOK(new.call, w.trailer)
        /\ new.call.completions = c.call.completions
        /\ new.call.issued \o new.call.buffer
             = (c.call.issued \o c.call.buffer) \o written
        /\ Len(new.pipeline) = Len(c.pipeline) + Len(written)
        /\ written \in Seq(Requests)
        /\ \A i \in 1..Len(written) : written[i] = q[Len(c.pipeline) + i].write
    BY <1>3, <2>1, FillShaken
  <2> HIDE DEF new, written
  <2>3. Answers(new, w) = Answers(c, w)
    BY <2>2 DEF Answers
  <2> DEFINE out == Out(c, w)
             more == Out(new, w)
  <2>4. /\ Len(more) = Len(out) + Len(written)
        /\ \A i \in 1..(Len(out) + Len(written)) :
             more[i] = IF i <= Len(out) THEN out[i] ELSE written[i - Len(out)]
    BY <2>2, OutLonger
  <2>5. /\ Len(out) \in Nat /\ Len(written) \in Nat /\ Len(c.pipeline) \in Nat
        /\ Len(l) \in Nat /\ Answers(c, w) \in Nat
    <3>1. c.pipeline \in Seq(Batch) /\ out \in Seq(Requests)
      BY OutType DEF Client
    <3> HIDE DEF out
    <3> QED
      BY <2>2, <3>1, OutType, LenProperties
  <2> HIDE DEF out, more
  <2>6. Answers(new, w) <= a /\ a + Len(l) <= Len(new.pipeline)
    <3>1. Answers(c, w) <= a /\ a + Len(l) <= Len(c.pipeline)
      BY <2>1 DEF Sending
    <3> QED
      BY <2>2, <2>3, <2>5, <3>1
  <2>7. ASSUME w.trailer = "none"
        PROVE  /\ w.shaken /\ l = <<>> /\ Answers(new, w) = a
               /\ Len(more) + a = Len(new.pipeline)
               /\ \A i \in 1..Len(more) : more[i] = q[a + i].write
    <3>1. /\ w.shaken /\ l = <<>> /\ Answers(c, w) = a
          /\ Len(out) + a = Len(c.pipeline)
          /\ \A i \in 1..Len(out) : out[i] = q[a + i].write
      BY <2>1, <2>7 DEF Sending, out
    <3>2. Len(more) + a = Len(new.pipeline)
      <4>1. /\ Len(more) = Len(out) + Len(written)
            /\ Len(out) + a = Len(c.pipeline)
            /\ Len(new.pipeline) = Len(c.pipeline) + Len(written)
        BY <2>2, <2>4, <3>1
      <4>2. /\ Len(out) \in Nat /\ Len(written) \in Nat /\ a \in Nat
        BY <2>5
      <4> QED
        BY <4>1, <4>2, SMTT(60)
    <3>3. ASSUME NEW i \in 1..Len(more) PROVE more[i] = q[a + i].write
      <4>1. CASE i <= Len(out)
        <5>1. i \in 1..Len(out) /\ more[i] = out[i]
          BY <2>4, <2>5, <4>1
        <5> QED
          BY <3>1, <5>1
      <4>2. CASE ~(i <= Len(out))
        <5> DEFINE j == i - Len(out)
        <5>1. /\ j \in 1..Len(written) /\ Len(c.pipeline) + j = a + i
          <6>1. Len(more) = Len(out) + Len(written) /\ Len(out) + a = Len(c.pipeline)
            BY <2>4, <3>1
          <6>2. /\ Len(out) \in Nat /\ Len(written) \in Nat /\ a \in Nat
                /\ i \in 1..(Len(out) + Len(written))
            BY <2>5, <6>1
          <6> QED
            BY <4>2, <6>1, <6>2, SMTT(60)
        <5>3. more[i] = written[j]
          <6>1. i \in 1..(Len(out) + Len(written))
            BY <2>4
          <6> QED
            BY <2>4, <4>2, <6>1
        <5> HIDE DEF j
        <5>2. written[j] = q[Len(c.pipeline) + j].write
          BY <2>2, <5>1
        <5> QED
          BY <5>1, <5>2, <5>3
      <4> QED
        BY <4>1, <4>2
    <3> QED
      BY <2>3, <3>1, <3>2, <3>3
  <2>8. ASSUME w.trailer = "permanent"
        PROVE  l = <<>> /\ a < Len(new.pipeline) /\ q[a + 1].write \in Denied
    <3>1. l = <<>> /\ a < Len(c.pipeline) /\ q[a + 1].write \in Denied
      BY <2>1, <2>8 DEF Sending
    <3> QED
      BY <2>2, <2>5, <3>1
  <2>9. Sending(new, w, q, a, l)
    BY <2>6, <2>7, <2>8 DEF Sending, more
  <2> QED
    BY <1>3, <2>2, <2>9 DEF ClientOK, Flow, new
<1> QED
  BY <1>1, <1>2, <1>3

-----------------------------------------------------------------------------
(* What a longer queue, a lost call and an answer leave of the rest.       *)

LEMMA LongerQueue ==
  ASSUME NEW q \in Seq(Batch), NEW r \in Seq(Batch), Len(q) <= Len(r),
         \A i \in 1..Len(q) : r[i] = q[i],
         NEW c \in Client, ClientOK(c, q),
         NEW w \in Wire, NEW a \in Nat, NEW l \in Seq(Requests), NEW done,
         Flow(c, w, q, a, l), LateOK(q, a, l, done)
  PROVE  ClientOK(c, r) /\ Flow(c, w, r, a, l) /\ LateOK(r, a, l, done)
<1>1. /\ Len(q) \in Nat /\ Len(r) \in Nat /\ Len(c.pipeline) \in Nat
      /\ Len(l) \in Nat /\ Len(Out(c, w)) \in Nat
  <2>1. c.pipeline \in Seq(Batch) /\ Out(c, w) \in Seq(Requests)
    BY OutType DEF Client
  <2> QED
    BY <2>1, LenProperties
<1>2. ClientOK(c, r)
  BY <1>1 DEF ClientOK, FrontOK
<1>3. LateOK(r, a, l, done)
  <2>1. /\ a + Len(l) <= Len(q)
        /\ \A i \in 1..a : q[i].write \in done
        /\ \A i \in 1..Len(l) : l[i] = q[a + i].write
    BY DEF LateOK
  <2>2. \A i \in 1..a : r[i] = q[i]
    BY <1>1, <2>1
  <2>3. \A i \in 1..Len(l) : a + i \in 1..Len(q)
    BY <1>1, <2>1
  <2> QED
    BY <1>1, <2>1, <2>2, <2>3, SMTT(60) DEF LateOK
<1>4. ASSUME Sending(c, w, q, a, l) PROVE Sending(c, w, r, a, l)
  <2>1. Len(c.pipeline) <= Len(q)
    BY DEF ClientOK, FrontOK
  <2>2. ASSUME w.trailer = "none"
        PROVE  \A i \in 1..Len(Out(c, w)) : Out(c, w)[i] = r[a + i].write
    <3>1. /\ Len(Out(c, w)) + a = Len(c.pipeline)
          /\ \A i \in 1..Len(Out(c, w)) : Out(c, w)[i] = q[a + i].write
      BY <1>4, <2>2 DEF Sending
    <3>2. \A i \in 1..Len(Out(c, w)) : a + i \in 1..Len(q)
      BY <1>1, <2>1, <3>1
    <3> QED
      BY <3>1, <3>2
  <2>3. ASSUME w.trailer = "permanent" PROVE r[a + 1].write \in Denied
    <3>1. a < Len(c.pipeline) /\ q[a + 1].write \in Denied
      BY <1>4, <2>3 DEF Sending
    <3>2. a + 1 \in 1..Len(q)
      BY <1>1, <2>1, <3>1
    <3> QED
      BY <3>1, <3>2
  <2> QED
    BY <1>4, <2>2, <2>3 DEF Sending
<1> QED
  BY <1>2, <1>3, <1>4 DEF Flow

LEMMA Prefix ==
  ASSUME NEW S, NEW s \in Seq(S), NEW m \in 0..Len(s)
  PROVE  /\ SubSeq(s, 1, m) \in Seq(S)
         /\ Len(SubSeq(s, 1, m)) = m
         /\ \A i \in 1..m : SubSeq(s, 1, m)[i] = s[i]
<1>1. Len(s) \in Nat /\ \A i \in 1..Len(s) : s[i] \in S
  BY LenProperties, ElementOfSeq
<1>2. m \in Nat /\ \A i \in 1..m : s[i] \in S
  BY <1>1
<1>3. /\ SubSeq(s, 1, m) \in Seq(S)
      /\ Len(SubSeq(s, 1, m)) = IF 1 <= m THEN m - 1 + 1 ELSE 0
      /\ \A i \in 1..(m - 1 + 1) : SubSeq(s, 1, m)[i] = s[1 + i - 1]
  BY <1>2, SubSeqProperties
<1> QED
  BY <1>2, <1>3

LEMMA OutStart ==
  ASSUME NEW c \in Client, NEW w \in Wire
  PROVE  /\ Len(w.requests) <= Len(Out(c, w))
         /\ Len(w.requests) \in Nat /\ Len(Out(c, w)) \in Nat
         /\ \A i \in 1..Len(w.requests) : Out(c, w)[i] = w.requests[i]
<1> DEFINE rest == c.call.issued \o c.call.buffer
           r == w.requests
<1>1. /\ r \in Seq(Requests) /\ rest \in Seq(Requests) /\ Out(c, w) = r \o rest
  BY OutType, ConcatProperties
<1> HIDE DEF rest, r
<1>2. /\ Len(r \o rest) = Len(r) + Len(rest)
      /\ \A i \in 1..(Len(r) + Len(rest)) :
           (r \o rest)[i] = IF i <= Len(r) THEN r[i] ELSE rest[i - Len(r)]
  BY <1>1, ConcatProperties
<1>3. Len(r) \in Nat /\ Len(rest) \in Nat
  BY <1>1, LenProperties
<1>4. /\ Len(r) <= Len(Out(c, w)) /\ Len(Out(c, w)) \in Nat
      /\ \A i \in 1..Len(r) : Out(c, w)[i] = r[i]
  BY <1>1, <1>2, <1>3
<1> QED
  BY <1>3, <1>4 DEF r

\* What may still come late of a call that is given up.
LEMMA AbandonOK ==
  ASSUME NEW q \in Seq(Batch), NEW c \in Client, NEW w \in Wire,
         NEW a \in Nat, NEW l \in Seq(Requests), NEW done,
         ClientOK(c, q), WireOK(c, w), Flow(c, w, q, a, l), LateOK(q, a, l, done),
         NEW r,
         IF w.shaken
         THEN \E m \in 0..Len(w.requests) : r = SubSeq(w.requests, 1, m)
         ELSE r = l
  PROVE  /\ r \in Seq(Requests) /\ LateOK(q, a, r, done)
         /\ w.trailer # "none" => r = l
         /\ c.state = "Open" /\ c.handshake => a + Len(r) <= Len(c.pipeline)
         /\ w.shaken /\ ~c.handshake => r = <<>>
<1>1. CASE ~w.shaken
  <2>1. r = l
    BY <1>1
  <2>2. c.state = "Open" /\ c.handshake => a + Len(l) <= Len(c.pipeline)
    BY DEF Flow, Sending
  <2> QED
    BY <1>1, <2>1, <2>2
<1>2. CASE w.shaken
  <2>1. w.trailer = "none"
    BY <1>2 DEF WireOK
  <2>2. c.state = "Open"
    BY <1>2 DEF WireOK, NoWire
  <2>3. PICK m \in 0..Len(w.requests) : r = SubSeq(w.requests, 1, m)
    BY <1>2
  <2>4. w.requests \in Seq(Requests)
    BY OutType
  <2>5. /\ r \in Seq(Requests) /\ Len(r) = m
        /\ \A i \in 1..m : r[i] = w.requests[i]
    BY <2>3, <2>4, Prefix
  <2> DEFINE out == Out(c, w)
  <2>6. /\ Len(w.requests) <= Len(out)
        /\ Len(w.requests) \in Nat /\ Len(out) \in Nat
        /\ \A i \in 1..Len(w.requests) : out[i] = w.requests[i]
    BY OutStart
  <2>7. /\ a + Len(l) <= Len(q) /\ Len(l) \in Nat /\ Len(q) \in Nat
        /\ \A i \in 1..a : q[i].write \in done
    BY LenProperties DEF LateOK
  <2>8. CASE c.handshake
    <3>1. /\ Len(out) + a = Len(c.pipeline)
          /\ \A i \in 1..Len(out) : out[i] = q[a + i].write
      BY <2>1, <2>2, <2>8 DEF Flow, Sending
    <3>2. Len(c.pipeline) <= Len(q)
      BY DEF ClientOK, FrontOK
    <3> HIDE DEF out
    <3>3. Len(c.pipeline) \in Nat /\ m \in Nat /\ m <= Len(out)
      BY <2>3, <2>6, <3>1
    <3>4. a + m <= Len(c.pipeline) /\ a + m <= Len(q)
      BY <2>6, <2>7, <3>1, <3>2, <3>3
    <3>5. ASSUME NEW i \in 1..Len(r) PROVE r[i] = q[a + i].write
      <4>1. i \in 1..m /\ i \in 1..Len(w.requests) /\ i \in 1..Len(out)
        BY <2>3, <2>5, <2>6, <3>3
      <4> QED
        BY <2>5, <2>6, <3>1, <4>1
    <3> QED
      BY <2>1, <2>5, <2>7, <2>8, <3>4, <3>5 DEF LateOK
  <2>9. CASE ~c.handshake
    <3>1. Len(out) = 0
      BY <1>2, <2>1, <2>2, <2>9 DEF Flow, Shaking
    <3> HIDE DEF out
    <3>2. m = 0
      BY <2>3, <2>6, <3>1
    <3>3. a + Len(r) <= Len(q) /\ (\A i \in 1..Len(r) : FALSE) /\ r = <<>>
      BY <2>5, <2>7, <3>2, EmptySeq
    <3> QED
      BY <2>1, <2>5, <2>7, <2>9, <3>3 DEF LateOK
  <2> QED
    BY <2>8, <2>9
<1> QED
  BY <1>1, <1>2

\* The first batch is taken out of the queue and of the pipeline.
LEMMA FirstOut ==
  ASSUME NEW q \in Seq(Batch), NEW next, InOrder(q, next),
         NEW c \in Client, FrontOK(c, q), c.pipeline # <<>>,
         NEW d, d.pipeline = Tail(c.pipeline)
  PROVE  /\ Len(q) \in Nat \ {0} /\ Head(c.pipeline) = q[1] /\ q[1] \in Batch
         /\ Without(q, Head(c.pipeline)) = Tail(q)
         /\ Tail(q) \in Seq(Batch) /\ Len(Tail(q)) = Len(q) - 1
         /\ \A i \in 1..(Len(q) - 1) : Tail(q)[i] = q[i + 1]
         /\ InOrder(Tail(q), next)
         /\ d.pipeline \in Seq(Batch) /\ Len(d.pipeline) = Len(c.pipeline) - 1
         /\ Len(c.pipeline) \in Nat \ {0}
         /\ FrontOK(d, Tail(q))
<1> DEFINE p == c.pipeline
<1>1. p \in Seq(Batch) /\ p # <<>>
  BY DEF Client
<1>2. /\ Len(p) <= Len(q) /\ Len(p) <= MaxPendingWrites
      /\ \A i \in 1..Len(p) : p[i] = q[i]
  BY DEF FrontOK
<1> HIDE DEF p
<1>3. /\ Tail(p) \in Seq(Batch) /\ Len(Tail(p)) = Len(p) - 1
      /\ \A i \in 1..Len(Tail(p)) : Tail(p)[i] = p[i + 1]
      /\ Len(p) \in Nat \ {0} /\ Head(p) = p[1]
  BY <1>1, HeadTailProperties, LenProperties, EmptySeq
<1>4. Len(q) \in Nat \ {0} /\ q # <<>>
  <2>1. Len(q) \in Nat
    BY LenProperties
  <2> QED
    BY <1>2, <1>3, <2>1, EmptySeq
<1>5. /\ Tail(q) \in Seq(Batch) /\ Len(Tail(q)) = Len(q) - 1
      /\ \A i \in 1..Len(Tail(q)) : Tail(q)[i] = q[i + 1]
      /\ Head(q) = q[1]
  BY <1>4, HeadTailProperties
<1>6. Head(p) = q[1] /\ q[1] \in Batch
  <2>1. 1 \in 1..Len(p) /\ 1 \in 1..Len(q)
    BY <1>3, <1>4, SMTT(60)
  <2> QED
    BY <1>2, <1>3, <2>1, ElementOfSeq
<1>7. Without(q, Head(p)) = Tail(q)
  BY <1>4, <1>5, <1>6, ZenonT(60) DEF Without
<1>8. InOrder(Tail(q), next)
  <2> DEFINE t == Tail(q)
  <2>1. DOMAIN t = 1..(Len(q) - 1) /\ DOMAIN q = 1..Len(q)
    BY <1>5, LenProperties
  <2>2. \A i \in DOMAIN t : i + 1 \in DOMAIN q /\ t[i] = q[i + 1] /\ i \in Int
    BY <1>4, <1>5, <2>1
  <2> HIDE DEF t
  <2>3. \A i \in DOMAIN t : 0 < t[i].id /\ t[i].id < next
    BY <2>2 DEF InOrder
  <2>4. \A i, j \in DOMAIN t : i < j => t[i].id < t[j].id
    <3>1. \A i, j \in DOMAIN t : i < j => i + 1 < j + 1
      BY <2>2
    <3> QED
      BY <2>2, <3>1 DEF InOrder
  <2> QED
    BY <2>3, <2>4 DEF InOrder, t
<1>9. FrontOK(d, Tail(q))
  <2>1. d.pipeline = Tail(p)
    BY DEF p
  <2>2. Len(Tail(p)) <= Len(Tail(q)) /\ Len(Tail(p)) <= MaxPendingWrites
    BY <1>2, <1>3, <1>4, <1>5, ConstantsAssumption
  <2>3. ASSUME NEW i \in 1..Len(Tail(p)) PROVE Tail(p)[i] = Tail(q)[i]
    <3>1. i + 1 \in 1..Len(p) /\ i \in 1..Len(Tail(q))
      BY <1>2, <1>3, <1>4, <1>5
    <3> QED
      BY <1>2, <1>3, <1>5, <3>1
  <2> QED
    BY <2>1, <2>2, <2>3 DEF FrontOK
<1> QED
  BY <1>3, <1>4, <1>5, <1>6, <1>7, <1>8, <1>9 DEF p

\* What the server has applied of the queue once its first batch is out.
AfterFirst(a) == IF a > 0 THEN a - 1 ELSE 0

LEMMA LateAfterFirst ==
  ASSUME NEW q \in Seq(Batch), NEW t, Len(q) \in Nat \ {0}, Len(t) = Len(q) - 1,
         \A i \in 1..(Len(q) - 1) : t[i] = q[i + 1],
         NEW a \in Nat, NEW l \in Seq(Requests), a > 0 \/ l = <<>>,
         NEW done, LateOK(q, a, l, done)
  PROVE  AfterFirst(a) \in Nat /\ LateOK(t, AfterFirst(a), l, done)
<1>1. /\ a + Len(l) <= Len(q) /\ Len(l) \in Nat
      /\ \A i \in 1..a : q[i].write \in done
      /\ \A i \in 1..Len(l) : l[i] = q[a + i].write
  BY LenProperties DEF LateOK
<1>2. CASE a > 0
  <2>1. AfterFirst(a) = a - 1 /\ a - 1 \in Nat /\ (a - 1) + Len(l) <= Len(t)
    BY <1>1, <1>2 DEF AfterFirst
  <2>2. ASSUME NEW i \in 1..(a - 1) PROVE t[i].write \in done
    <3>1. i \in 1..(Len(q) - 1) /\ i + 1 \in 1..a
      BY <1>1, <1>2
    <3> QED
      BY <1>1, <3>1
  <2>3. ASSUME NEW i \in 1..Len(l) PROVE l[i] = t[(a - 1) + i].write
    <3>1. (a - 1) + i \in 1..(Len(q) - 1) /\ ((a - 1) + i) + 1 = a + i
      BY <1>1, <1>2
    <3> QED
      BY <1>1, <3>1
  <2> QED
    BY <2>1, <2>2, <2>3 DEF LateOK
<1>3. CASE ~(a > 0)
  <2>1. AfterFirst(a) = 0 /\ a = 0 /\ l = <<>> /\ Len(l) = 0
    BY <1>3 DEF AfterFirst
  <2> QED
    BY <1>1, <2>1 DEF LateOK
<1> QED
  BY <1>2, <1>3

-----------------------------------------------------------------------------
(* Steps of the call.                                                      *)

OtherThanCall == <<alive, calls, handed, queue, nextBatchId, late, applied,
                   committed, outcome>>

LEMMA CallStep ==
  ASSUME IInv, client.state = "Open",
         NEW call \in Call, NEW w \in Wire, CallOK(call, w.trailer),
         w.trailer = wire.trailer, w.shaken = wire.shaken,
         w.trailer # "none" => w.requests = <<>>,
         NEW new, new = [client EXCEPT !.call = call],
         Answers(new, w) <= Answers(client, wire),
         w.trailer = "none" => /\ Answers(new, w) = Answers(client, wire)
                               /\ Out(new, w) = Out(client, wire),
         client' = new, wire' = w, UNCHANGED OtherThanCall
  PROVE  IInv'
<1>1. /\ client \in Client /\ wire \in Wire /\ ClientOK(client, queue)
      /\ WireOK(client, wire) /\ Flow(client, wire, queue, applied, late)
      /\ applied \in Nat
  BY DEF IInv, TypeOK
<1>2. /\ new \in Client /\ new.call = call /\ new.pipeline = client.pipeline
      /\ new.state = "Open" /\ new.handshake = client.handshake
      /\ new.idle = client.idle /\ new.asked = client.asked
  BY <1>1 DEF Client
<1>3. ClientOK(new, queue)
  BY <1>1, <1>2 DEF ClientOK, FrontOK, Opened
<1>4. WireOK(new, w)
  BY <1>1, <1>2 DEF WireOK
<1>5. Answers(new, w) \in Nat /\ Answers(client, wire) \in Nat
  BY <1>1, <1>2, OutType
<1>6. Flow(new, w, queue, applied, late)
  <2>1. CASE client.handshake
    <3>1. Sending(client, wire, queue, applied, late)
      BY <1>1, <2>1 DEF Flow
    <3>2. Answers(new, w) <= applied
      <4>1. Answers(client, wire) <= applied
        BY <3>1 DEF Sending
      <4> QED
        BY <1>1, <1>5, <4>1
    <3> QED
      BY <1>2, <2>1, <3>1, <3>2 DEF Flow, Sending
  <2>2. CASE ~client.handshake
    <3>1. Shaking(client, wire, applied, late)
      BY <1>1, <2>2 DEF Flow
    <3>2. Answers(new, w) <= 1 /\ (Answers(new, w) = 1 => Answers(client, wire) = 1)
      <4>1. Answers(client, wire) <= 1
        BY <3>1 DEF Shaking
      <4> QED
        BY <1>5, <4>1
    <3> QED
      BY <1>2, <2>2, <3>1, <3>2 DEF Flow, Shaking
  <2> QED
    BY <2>1, <2>2
<1>7. UNCHANGED <<alive, calls, handed, queue, nextBatchId, late, applied,
                  committed, outcome>>
  BY DEF OtherThanCall
<1>8. TypeOK'
  BY <1>2, <1>7 DEF IInv, TypeOK
<1> QED
  BY <1>2, <1>3, <1>4, <1>6, <1>7, <1>8 DEF IInv, DoneIsCommitted

\* A client whose call has something to do is open.
LEMMA CallIsOpen ==
  ASSUME IInv
  PROVE  /\ client.call.completions # <<>> => client.state = "Open"
         /\ client.call.issued # <<>> => client.state = "Open"
         /\ client.call.reading => client.state = "Open"
BY NoCallOK DEF IInv, ClientOK, Shut

\* The first completion, and the call without it.
LEMMA RestOK ==
  ASSUME IInv, NEW type, Completes(type)
  PROVE  /\ client.call \in Call /\ client.state = "Open"
         /\ client.call.completions \in Seq(CompletionType)
         /\ client.call.completions # <<>>
         /\ Head(client.call.completions).type = type
         /\ Has(client.call.completions, type)
         /\ Rest \in Call
         /\ Rest.completions = Tail(client.call.completions)
         /\ Rest.reading = client.call.reading
         /\ Rest.writing = client.call.writing
         /\ Rest.issued = client.call.issued
         /\ Rest.buffer = client.call.buffer
         /\ Rest.finished = client.call.finished
<1>1. client.call \in Call
  BY DEF IInv, TypeOK, Client
<1>2. client.call.completions # <<>> /\ Head(client.call.completions).type = type
  BY DEF Completes
<1>3. client.call.completions \in Seq(CompletionType)
  BY <1>1 DEF Call
<1>4. Tail(client.call.completions) \in Seq(CompletionType)
  BY <1>2, <1>3, CompletionsTail
<1>5. Has(client.call.completions, type)
  <2> DEFINE s == client.call.completions
  <2>1. s \in Seq(CompletionType) /\ s # <<>> /\ Head(s).type = type
    BY <1>2, <1>3
  <2> HIDE DEF s
  <2>2. DOMAIN s = 1..Len(s) /\ Len(s) \in Nat \ {0} /\ Head(s) = s[1]
    BY <2>1, LenProperties, EmptySeq, HeadTailProperties
  <2>3. 1 \in DOMAIN s /\ s[1].type = type
    BY <2>1, <2>2
  <2>4. Has(s, type)
    BY <2>3 DEF Has
  <2> QED
    BY <2>4 DEF s
<1>6. /\ Rest \in Call
      /\ Rest.completions = Tail(client.call.completions)
      /\ Rest.reading = client.call.reading
      /\ Rest.writing = client.call.writing
      /\ Rest.issued = client.call.issued
      /\ Rest.buffer = client.call.buffer
      /\ Rest.finished = client.call.finished
  BY <1>1, <1>4 DEF Rest, Call
<1> QED
  BY <1>1, <1>2, <1>3, <1>5, <1>6, CallIsOpen

LEMMA OnWriteStep ==
  ASSUME IInv, OnWrite
  PROVE  IInv'
<1> DEFINE half == [Rest EXCEPT !.writing = FALSE]
           call == TryStartWrite(half)
           new == [client EXCEPT !.call = call]
           s == client.call.completions
<1>1. Completes("write") /\ client' = new /\ wire' = wire /\ UNCHANGED OtherThanCall
  BY DEF OnWrite, OtherThanCall, disk_vars, server_vars, history_vars
<1>2. /\ client.call \in Call /\ client.state = "Open" /\ s \in Seq(CompletionType)
      /\ s # <<>> /\ Head(s).type = "write" /\ Has(s, "write") /\ Rest \in Call
      /\ Rest.completions = Tail(s) /\ Rest.reading = client.call.reading
      /\ Rest.issued = client.call.issued /\ Rest.buffer = client.call.buffer
      /\ Rest.finished = client.call.finished
  BY <1>1, RestOK
<1>3. client \in Client /\ wire \in Wire /\ CallOK(client.call, wire.trailer)
  BY DEF IInv, TypeOK
<1>4. /\ half \in Call /\ half.completions = Tail(s)
      /\ half.reading = client.call.reading /\ ~half.writing
      /\ half.issued = client.call.issued /\ half.buffer = client.call.buffer
      /\ half.finished = client.call.finished
  BY <1>2 DEF Call
<1>5. /\ ~Has(Tail(s), "write") /\ AtMostOne(Tail(s), "write")
      /\ Has(Tail(s), "read") <=> Has(s, "read")
      /\ Has(Tail(s), "failed") <=> Has(s, "failed")
      /\ AtMostOne(Tail(s), "read")
  BY <1>2, <1>3, CompletionsTail DEF CallOK
<1> HIDE DEF half, s
<1>6. CallOK(half, wire.trailer)
  BY <1>2, <1>3, <1>4, <1>5 DEF CallOK, s
<1>7. /\ call \in Call /\ CallOK(call, wire.trailer)
      /\ call.issued \o call.buffer = half.issued \o half.buffer
      /\ call.completions = half.completions
  BY <1>4, <1>6, TryStartWriteOK
<1> HIDE DEF call
<1>8. new \in Client /\ new.call = call
  BY <1>3, <1>7 DEF Client
<1> HIDE DEF new
<1>9. Answers(new, wire) = Answers(client, wire)
  BY <1>4, <1>5, <1>7, <1>8 DEF Answers, s
<1>10. Out(new, wire) = Out(client, wire)
  BY <1>3, <1>4, <1>7, <1>8, OutType
<1>11. Answers(client, wire) \in Nat
  BY <1>3, OutType
<1>12. wire.trailer # "none" => wire.requests = <<>>
  BY DEF IInv, WireOK
<1> QED
  BY <1>1, <1>2, <1>3, <1>7, <1>9, <1>10, <1>11, <1>12, CallStep DEF new

LEMMA OnOperationFailedStep ==
  ASSUME IInv, OnOperationFailed
  PROVE  IInv'
<1> DEFINE call == IF client.call.finished THEN Rest ELSE FinishGrpcCall(Rest)
           new == [client EXCEPT !.call = call]
           s == client.call.completions
<1>1. Completes("failed") /\ client' = new /\ wire' = wire /\ UNCHANGED OtherThanCall
  BY DEF OnOperationFailed, OtherThanCall, disk_vars, server_vars, history_vars
<1>2. /\ client.call \in Call /\ client.state = "Open" /\ s \in Seq(CompletionType)
      /\ s # <<>> /\ Head(s).type = "failed" /\ Has(s, "failed") /\ Rest \in Call
      /\ Rest.completions = Tail(s) /\ Rest.reading = client.call.reading
      /\ Rest.issued = client.call.issued /\ Rest.buffer = client.call.buffer
      /\ Rest.finished = client.call.finished
      /\ Rest.writing = client.call.writing
  BY <1>1, RestOK
<1>3. client \in Client /\ wire \in Wire /\ CallOK(client.call, wire.trailer)
  BY DEF IInv, TypeOK
<1>4. wire.trailer # "none"
  BY <1>2, <1>3 DEF CallOK
<1>5. /\ Has(Tail(s), "read") <=> Has(s, "read")
      /\ Has(Tail(s), "write") <=> Has(s, "write")
      /\ AtMostOne(Tail(s), "read") /\ AtMostOne(Tail(s), "write")
  BY <1>2, <1>3, CompletionsTail DEF CallOK
<1>6. /\ call \in Call /\ CallOK(call, wire.trailer)
      /\ Has(call.completions, "read") => Has(s, "read")
  <2>1. CASE client.call.finished
    <3>1. call = Rest
      BY <2>1
    <3> HIDE DEF call, s
    <3> QED
      BY <1>2, <1>3, <1>4, <1>5, <3>1 DEF CallOK, s
  <2>2. CASE ~client.call.finished
    <3> DEFINE finish == <<[type |-> "finish"]>>
    <3>1. finish \in Seq(CompletionType)
      <4>1. [type |-> "finish"] \in CompletionType
        BY DEF CompletionType
      <4> QED
        BY <4>1
    <3>2. /\ ~Has(finish, "read") /\ ~Has(finish, "write")
          /\ AtMostOne(finish, "read") /\ AtMostOne(finish, "write")
      BY NoCompletions
    <3>3. call = [Rest EXCEPT !.finished = TRUE, !.reading = FALSE, !.issued = <<>>,
                              !.completions = finish]
      BY <2>2 DEF FinishGrpcCall
    <3> HIDE DEF call, s, finish
    <3>4. <<>> \in Seq(Requests)
      BY EmptySeq
    <3>5. call \in Call
      BY <1>2, <3>1, <3>3, <3>4 DEF Call
    <3>6. /\ call.completions = finish /\ ~call.reading /\ call.issued = <<>>
      BY <1>2, <3>3 DEF Call
    <3> QED
      BY <1>4, <3>2, <3>5, <3>6 DEF CallOK
  <2> QED
    BY <2>1, <2>2
<1> HIDE DEF call
<1>7. new \in Client /\ new.call = call
  BY <1>3, <1>6 DEF Client
<1> HIDE DEF new
<1>8. Answers(new, wire) <= Answers(client, wire)
  <2>1. Len(wire.responses) \in Nat
    BY <1>3, OutType
  <2> QED
    BY <1>6, <1>7, <2>1 DEF Answers, s
<1>9. wire.trailer # "none" => wire.requests = <<>>
  BY DEF IInv, WireOK
<1> QED
  BY <1>1, <1>2, <1>3, <1>4, <1>6, <1>8, <1>9, CallStep DEF new

\* A completion that gRPC adds.
LEMMA CompletionOK ==
  ASSUME NEW call \in Call, NEW type \in {"read", "write", "failed"}
  PROVE  LET new == Completion(call, type)
         IN  /\ new \in Call
             /\ new.completions = Append(call.completions, [type |-> type])
             /\ new.reading = call.reading /\ new.writing = call.writing
             /\ new.issued = call.issued /\ new.buffer = call.buffer
             /\ new.finished = call.finished
             /\ \A other \in {"read", "write", "failed"} :
                  /\ Has(new.completions, other) <=>
                       Has(call.completions, other) \/ other = type
                  /\ AtMostOne(call.completions, other)
                       /\ (other # type \/ ~Has(call.completions, other)) =>
                     AtMostOne(new.completions, other)
<1> DEFINE s == call.completions
           one == [type |-> type]
<1>1. s \in Seq(CompletionType) /\ one \in CompletionType /\ one.type = type
  BY DEF Call, CompletionType
<1> HIDE DEF s, one
<1>2. Append(s, one) \in Seq(CompletionType)
  BY <1>1, CompletionsAppend
<1>3. \A other \in {"read", "write", "failed"} :
        /\ Has(Append(s, one), other) <=> Has(s, other) \/ one.type = other
        /\ AtMostOne(s, other) /\ (one.type # other \/ ~Has(s, other)) =>
             AtMostOne(Append(s, one), other)
  BY <1>1, CompletionsAppend
<1> DEFINE new == Completion(call, type)
<1>4. new = [call EXCEPT !.completions = Append(s, one)]
  BY DEF Completion, s, one
<1> HIDE DEF new
<1>5. /\ new \in Call /\ new.completions = Append(s, one)
      /\ new.reading = call.reading /\ new.writing = call.writing
      /\ new.issued = call.issued /\ new.buffer = call.buffer
      /\ new.finished = call.finished
  BY <1>2, <1>4 DEF Call
<1> QED
  BY <1>1, <1>3, <1>5 DEF new, s, one

LEMMA WriteSucceedsStep ==
  ASSUME IInv, WriteSucceeds
  PROVE  IInv'
<1> DEFINE done == [client.call EXCEPT !.issued = <<>>]
           call == Completion(done, "write")
           new == [client EXCEPT !.call = call]
           w == [wire EXCEPT !.requests = wire.requests \o client.call.issued]
<1>1. /\ client' = new /\ wire' = w /\ UNCHANGED OtherThanCall
      /\ client.call.issued # <<>> /\ wire.trailer = "none"
  BY DEF WriteSucceeds, OtherThanCall, disk_vars, server_vars, history_vars
<1>2. client \in Client /\ wire \in Wire /\ CallOK(client.call, wire.trailer)
  BY DEF IInv, TypeOK
<1>3. client.state = "Open"
  BY <1>1, CallIsOpen
<1>4. /\ client.call \in Call /\ client.call.issued \in Seq(Requests)
      /\ client.call.buffer \in Seq(Requests) /\ wire.requests \in Seq(Requests)
      /\ Out(client, wire) = (wire.requests \o client.call.issued) \o client.call.buffer
      /\ wire.requests \o client.call.issued \in Seq(Requests)
      /\ Len(wire.responses) \in Nat
  BY <1>2, OutType, ConcatProperties DEF Out
<1>5. /\ done \in Call /\ done.issued = <<>> /\ done.buffer = client.call.buffer
      /\ done.reading = client.call.reading /\ done.writing = client.call.writing
      /\ done.finished = client.call.finished
      /\ done.completions = client.call.completions
  BY <1>4, EmptySeq DEF Call
<1> HIDE DEF done
<1>6. /\ call \in Call
      /\ call.reading = done.reading /\ call.writing = done.writing
      /\ call.issued = done.issued /\ call.buffer = done.buffer
      /\ call.finished = done.finished
      /\ \A other \in {"read", "write", "failed"} :
           /\ Has(call.completions, other) <=>
                Has(done.completions, other) \/ other = "write"
           /\ AtMostOne(done.completions, other)
                /\ (other # "write" \/ ~Has(done.completions, other)) =>
              AtMostOne(call.completions, other)
  BY <1>5, CompletionOK
<1> HIDE DEF call
<1>7. CallOK(call, wire.trailer)
  BY <1>1, <1>2, <1>5, <1>6 DEF CallOK
<1>8. /\ w.requests = wire.requests \o client.call.issued
      /\ w.responses = wire.responses /\ w.trailer = wire.trailer
      /\ w.shaken = wire.shaken /\ w \in Wire
  BY <1>2, <1>4 DEF Wire
<1>9. new \in Client /\ new.call = call
  BY <1>2, <1>6 DEF Client
<1> HIDE DEF new, w
<1>10. Answers(new, w) = Answers(client, wire)
  BY <1>5, <1>6, <1>8, <1>9 DEF Answers
<1>11. Out(new, w) = Out(client, wire)
  <2> DEFINE r == wire.requests \o client.call.issued
  <2>1. r \in Seq(Requests)
    BY <1>4
  <2>2. Out(new, w) = (r \o <<>>) \o client.call.buffer
    BY <1>5, <1>6, <1>8, <1>9 DEF Out
  <2>3. Out(client, wire) = r \o client.call.buffer
    BY <1>4
  <2> HIDE DEF r
  <2>4. r \o <<>> = r
    BY <2>1, ConcatEmptySeq
  <2> QED
    BY <2>2, <2>3, <2>4
<1>12. Answers(client, wire) \in Nat
  BY <1>2, OutType
<1> QED
  BY <1>1, <1>3, <1>6, <1>7, <1>8, <1>10, <1>11, <1>12, CallStep DEF new

LEMMA WriteFailsStep ==
  ASSUME IInv, WriteFails
  PROVE  IInv'
<1> DEFINE done == [client.call EXCEPT !.issued = <<>>]
           call == Completion(done, "failed")
           new == [client EXCEPT !.call = call]
<1>1. /\ client' = new /\ wire' = wire /\ UNCHANGED OtherThanCall
      /\ client.call.issued # <<>> /\ wire.trailer # "none"
  BY DEF WriteFails, OtherThanCall, disk_vars, server_vars, history_vars
<1>2. client \in Client /\ wire \in Wire /\ CallOK(client.call, wire.trailer)
  BY DEF IInv, TypeOK
<1>3. client.state = "Open"
  BY <1>1, CallIsOpen
<1>4. client.call \in Call /\ Len(wire.responses) \in Nat
  BY <1>2, OutType
<1>5. /\ done \in Call /\ done.issued = <<>>
      /\ done.reading = client.call.reading /\ done.writing = client.call.writing
      /\ done.finished = client.call.finished
      /\ done.completions = client.call.completions
  BY <1>4, EmptySeq DEF Call
<1> HIDE DEF done
<1>6. /\ call \in Call
      /\ call.reading = done.reading /\ call.writing = done.writing
      /\ call.issued = done.issued /\ call.finished = done.finished
      /\ \A other \in {"read", "write", "failed"} :
           /\ Has(call.completions, other) <=>
                Has(done.completions, other) \/ other = "failed"
           /\ AtMostOne(done.completions, other)
                /\ (other # "failed" \/ ~Has(done.completions, other)) =>
              AtMostOne(call.completions, other)
  BY <1>5, CompletionOK
<1> HIDE DEF call
<1>7. CallOK(call, wire.trailer)
  BY <1>1, <1>2, <1>5, <1>6 DEF CallOK
<1>8. new \in Client /\ new.call = call
  BY <1>2, <1>6 DEF Client
<1> HIDE DEF new
<1>9. Answers(new, wire) = Answers(client, wire)
  BY <1>5, <1>6, <1>8 DEF Answers
<1>10. Answers(client, wire) \in Nat
  BY <1>2, OutType
<1>11. wire.trailer # "none" => wire.requests = <<>>
  BY DEF IInv, WireOK
<1> QED
  BY <1>1, <1>2, <1>3, <1>6, <1>7, <1>9, <1>10, <1>11, CallStep DEF new

LEMMA ReadSucceedsStep ==
  ASSUME IInv, ReadSucceeds
  PROVE  IInv'
<1> DEFINE done == [client.call EXCEPT !.reading = FALSE]
           call == Completion(done, "read")
           new == [client EXCEPT !.call = call]
           w == [wire EXCEPT !.responses = Tail(wire.responses)]
<1>1. /\ client' = new /\ wire' = w /\ UNCHANGED OtherThanCall
      /\ client.call.reading /\ wire.responses # <<>>
  BY DEF ReadSucceeds, OtherThanCall, disk_vars, server_vars, history_vars
<1>2. client \in Client /\ wire \in Wire /\ CallOK(client.call, wire.trailer)
  BY DEF IInv, TypeOK
<1>3. client.state = "Open"
  BY <1>1, CallIsOpen
<1>4. client.call \in Call /\ wire.responses \in Seq(Requests)
  BY <1>2, OutType
<1>5. /\ done \in Call /\ done.issued = client.call.issued
      /\ done.buffer = client.call.buffer
      /\ ~done.reading /\ done.writing = client.call.writing
      /\ done.finished = client.call.finished
      /\ done.completions = client.call.completions
  BY <1>4 DEF Call
<1> HIDE DEF done
<1>6. /\ call \in Call
      /\ call.reading = done.reading /\ call.writing = done.writing
      /\ call.issued = done.issued /\ call.buffer = done.buffer
      /\ call.finished = done.finished
      /\ \A other \in {"read", "write", "failed"} :
           /\ Has(call.completions, other) <=>
                Has(done.completions, other) \/ other = "read"
           /\ AtMostOne(done.completions, other)
                /\ (other # "read" \/ ~Has(done.completions, other)) =>
              AtMostOne(call.completions, other)
  BY <1>5, CompletionOK
<1> HIDE DEF call
<1>7. CallOK(call, wire.trailer)
  BY <1>1, <1>2, <1>5, <1>6 DEF CallOK
<1>8. /\ Tail(wire.responses) \in Seq(Requests)
      /\ Len(Tail(wire.responses)) = Len(wire.responses) - 1
      /\ Len(wire.responses) \in Nat
  BY <1>1, <1>4, HeadTailProperties, LenProperties
<1>9. /\ w.responses = Tail(wire.responses)
      /\ w.requests = wire.requests /\ w.trailer = wire.trailer
      /\ w.shaken = wire.shaken /\ w \in Wire
  BY <1>2, <1>8 DEF Wire
<1>10. new \in Client /\ new.call = call
  BY <1>2, <1>6 DEF Client
<1> HIDE DEF new, w
<1>11. Answers(new, w) = Answers(client, wire)
  <2>1. ~Has(client.call.completions, "read")
    BY <1>1, <1>2 DEF CallOK
  <2>2. Has(new.call.completions, "read")
    BY <1>6, <1>10
  <2>3. /\ Answers(new, w) = Len(Tail(wire.responses)) + 1
        /\ Answers(client, wire) = Len(wire.responses) + 0
    BY <1>9, <2>1, <2>2 DEF Answers
  <2> QED
    BY <1>8, <2>3
<1>12. Out(new, w) = Out(client, wire)
  BY <1>5, <1>6, <1>9, <1>10 DEF Out
<1>13. Answers(client, wire) \in Nat
  BY <1>2, OutType
<1>14. wire.trailer # "none" => wire.requests = <<>>
  BY DEF IInv, WireOK
<1> QED
  BY <1>1, <1>3, <1>6, <1>7, <1>9, <1>11, <1>12, <1>13, <1>14, CallStep DEF new

LEMMA ReadFailsStep ==
  ASSUME IInv, ReadFails
  PROVE  IInv'
<1> DEFINE done == [client.call EXCEPT !.reading = FALSE]
           call == Completion(done, "failed")
           new == [client EXCEPT !.call = call]
<1>1. /\ client' = new /\ wire' = wire /\ UNCHANGED OtherThanCall
      /\ client.call.reading /\ wire.trailer # "none"
  BY DEF ReadFails, OtherThanCall, disk_vars, server_vars, history_vars
<1>2. client \in Client /\ wire \in Wire /\ CallOK(client.call, wire.trailer)
  BY DEF IInv, TypeOK
<1>3. client.state = "Open"
  BY <1>1, CallIsOpen
<1>4. client.call \in Call
  BY <1>2, OutType
<1>5. /\ done \in Call /\ done.issued = client.call.issued
      /\ ~done.reading /\ done.writing = client.call.writing
      /\ done.finished = client.call.finished
      /\ done.completions = client.call.completions
  BY <1>4 DEF Call
<1> HIDE DEF done
<1>6. /\ call \in Call
      /\ call.reading = done.reading /\ call.writing = done.writing
      /\ call.issued = done.issued /\ call.finished = done.finished
      /\ \A other \in {"read", "write", "failed"} :
           /\ Has(call.completions, other) <=>
                Has(done.completions, other) \/ other = "failed"
           /\ AtMostOne(done.completions, other)
                /\ (other # "failed" \/ ~Has(done.completions, other)) =>
              AtMostOne(call.completions, other)
  BY <1>5, CompletionOK
<1> HIDE DEF call
<1>7. CallOK(call, wire.trailer)
  BY <1>1, <1>2, <1>5, <1>6 DEF CallOK
<1>8. new \in Client /\ new.call = call
  BY <1>2, <1>6 DEF Client
<1> HIDE DEF new
<1>9. Answers(new, wire) = Answers(client, wire)
  BY <1>5, <1>6, <1>8 DEF Answers
<1>10. Answers(client, wire) \in Nat
  BY <1>2, OutType
<1>11. wire.trailer # "none" => wire.requests = <<>>
  BY DEF IInv, WireOK
<1> QED
  BY <1>1, <1>2, <1>3, <1>6, <1>7, <1>9, <1>10, <1>11, CallStep DEF new

-----------------------------------------------------------------------------
(* Steps after which the stream is not open.                               *)

LEMMA ShutStep ==
  ASSUME IInv, NEW new \in Client, ClientOK(new, queue'), Shut(new),
         client' = new, wire' = NoWire,
         queue' \in Seq(Batch), InOrder(queue', nextBatchId'),
         late' \in Seq(Requests), applied' \in Nat,
         LateOK(queue', applied', late', committed'),
         calls' \in 0..MaxWrites, handed' \in Seq(Writes),
         outcome' \in [Writes -> {"none", "acknowledged", "rejected"}],
         DoneIsCommitted'
  PROVE  IInv'
<1>1. new.state # "Open" /\ new.call = NoCall
  BY DEF Shut
<1>2. NoWire \in Wire
  BY EmptySeq DEF NoWire, Wire
<1>3. WireOK(new, NoWire)
  BY <1>1 DEF WireOK, NoWire
<1>4. Flow(new, NoWire, queue', applied', late')
  BY <1>1 DEF Flow
<1>5. CallOK(new.call, NoWire.trailer)
  BY <1>1, NoCallOK
<1>6. TypeOK'
  BY <1>2 DEF TypeOK
<1> QED
  BY <1>1, <1>3, <1>4, <1>5, <1>6 DEF IInv

LEMMA AbandonStep ==
  ASSUME IInv, AbandonWire
  PROVE  /\ wire' = NoWire /\ late' \in Seq(Requests)
         /\ LateOK(queue, applied, late', committed)
         /\ wire.trailer # "none" => late' = late
<1>1. /\ client \in Client /\ wire \in Wire /\ queue \in Seq(Batch)
      /\ applied \in Nat /\ late \in Seq(Requests)
      /\ ClientOK(client, queue) /\ WireOK(client, wire)
      /\ Flow(client, wire, queue, applied, late)
      /\ LateOK(queue, applied, late, committed)
  BY DEF IInv, TypeOK
<1>2. /\ wire' = NoWire
      /\ IF wire.shaken
         THEN \E m \in 0..Len(wire.requests) : late' = SubSeq(wire.requests, 1, m)
         ELSE late' = late
  BY DEF AbandonWire
<1> QED
  BY <1>1, <1>2, AbandonOK

LEMMA FailTokenStep ==
  ASSUME IInv, FailToken
  PROVE  IInv'
<1> DEFINE c == [client EXCEPT !.asked = @ - 1]
           new == ForgetHandshake(StartIfNeeded(Close(c, "Error")))
<1>1. client \in Client /\ ClientOK(client, queue) /\ WireOK(client, wire)
  BY DEF IInv, TypeOK
<1>2. client.asked > 0 /\ client' = new
  BY DEF FailToken
<1>3. c \in Client /\ c.pipeline = client.pipeline
  <2>1. client.asked - 1 \in Nat
    BY <1>1, <1>2 DEF Client
  <2> QED
    BY <1>1, <2>1 DEF Client
<1>4. FrontOK(client, queue) /\ client.state # "Open"
  BY <1>1, <1>2 DEF ClientOK, Opened
<1> HIDE DEF c
<1>5. FrontOK(c, queue)
  BY <1>3, <1>4 DEF FrontOK
<1>6. new \in Client /\ ClientOK(new, queue) /\ Shut(new)
  BY <1>3, <1>5, ClosedOK
<1>7. wire' = NoWire
  BY <1>1, <1>4 DEF WireOK, FailToken
<1>8. UNCHANGED <<queue, nextBatchId, late, applied, committed, calls, handed, outcome>>
  BY DEF FailToken, disk_vars, server_vars
<1>9. DoneIsCommitted'
  BY <1>8 DEF IInv, DoneIsCommitted
<1> HIDE DEF new
<1> QED
  BY <1>2, <1>6, <1>7, <1>8, <1>9, ShutStep DEF IInv, TypeOK

LEMMA BackoffElapsedStep ==
  ASSUME IInv, BackoffElapsed
  PROVE  IInv'
<1> DEFINE c == [client EXCEPT !.state = "Initial"]
           new == Start(c)
<1>1. client \in Client /\ ClientOK(client, queue) /\ WireOK(client, wire)
  BY DEF IInv, TypeOK
<1>2. client.state = "Backoff" /\ client' = new
  BY DEF BackoffElapsed
<1>3. FrontOK(client, queue) /\ Shut(client) /\ ~client.handshake
  BY <1>1, <1>2 DEF ClientOK
<1>4. /\ c \in Client /\ c.state = "Initial" /\ c.pipeline = client.pipeline
      /\ c.handshake = client.handshake /\ c.idle = client.idle
      /\ c.asked = client.asked /\ c.call = client.call
  BY <1>1 DEF Client
<1> HIDE DEF c
<1>5. Shut(c) /\ c.pipeline # <<>>
  BY <1>2, <1>3, <1>4 DEF Shut
<1>6. /\ new \in Client /\ Shut(new)
      /\ new.pipeline = c.pipeline /\ new.handshake = c.handshake
  BY <1>4, <1>5, StartOK
<1> HIDE DEF new
<1>7. ClientOK(new, queue)
  BY <1>3, <1>4, <1>6 DEF ClientOK, FrontOK, Shut
<1>8. wire' = NoWire
  BY <1>1, <1>2 DEF WireOK, BackoffElapsed
<1>9. UNCHANGED <<queue, nextBatchId, late, applied, committed, calls, handed, outcome>>
  BY DEF BackoffElapsed, disk_vars, server_vars, history_vars
<1>10. DoneIsCommitted'
  BY <1>9 DEF IInv, DoneIsCommitted
<1> QED
  BY <1>2, <1>6, <1>7, <1>8, <1>9, <1>10, ShutStep DEF IInv, TypeOK

LEMMA StopStep ==
  ASSUME IInv, IdleTimeout \/ OnStreamFinish
  PROVE  IInv'
<1> DEFINE New(state) == ForgetHandshake(StartIfNeeded(Close(client, state)))
<1>1. client \in Client /\ FrontOK(client, queue)
  BY DEF IInv, TypeOK, ClientOK
<1>2. PICK state \in {"Initial", "Error"} : client' = New(state)
  BY DEF IdleTimeout, OnStreamFinish
<1> DEFINE new == New(state)
<1>3. new \in Client /\ ClientOK(new, queue) /\ Shut(new)
  BY <1>1, ClosedOK
<1>4. /\ UNCHANGED <<queue, nextBatchId, applied, committed, calls, handed, outcome>>
      /\ AbandonWire
  BY DEF IdleTimeout, OnStreamFinish, disk_vars, history_vars
<1>5. DoneIsCommitted'
  BY <1>4 DEF IInv, DoneIsCommitted
<1>6. client' = new
  BY <1>2
<1> HIDE DEF new
<1> QED
  BY <1>3, <1>4, <1>5, <1>6, AbandonStep, ShutStep DEF IInv, TypeOK

LEMMA RestartNetworkStep ==
  ASSUME IInv, RestartNetwork
  PROVE  IInv'
<1> DEFINE closed == Close(client, "Initial")
           stopped == ForgetHandshake(closed)
           emptied == [stopped EXCEPT !.pipeline = <<>>]
           new == FillWritePipeline(emptied, queue)
<1>1. /\ client \in Client /\ FrontOK(client, queue) /\ queue \in Seq(Batch)
      /\ InOrder(queue, nextBatchId)
  BY DEF IInv, TypeOK, ClientOK
<1>2. /\ closed \in Client /\ Shut(closed) /\ closed.state = "Initial"
      /\ closed.pipeline = client.pipeline
  BY <1>1, CloseOK
<1>3. client' = new
  BY DEF RestartNetwork
<1> HIDE DEF closed
<1>4. FrontOK(closed, queue)
  BY <1>1, <1>2 DEF FrontOK
<1>5. /\ stopped \in Client /\ ClientOK(stopped, queue) /\ Shut(stopped)
      /\ stopped.state = "Initial"
  BY <1>2, <1>4, ForgetOK
<1> HIDE DEF stopped
<1>6. ~stopped.handshake
  BY <1>5 DEF ClientOK
<1>7. /\ emptied \in Client /\ emptied.pipeline = <<>>
      /\ emptied.state = "Initial" /\ emptied.handshake = stopped.handshake
      /\ emptied.idle = stopped.idle /\ emptied.asked = stopped.asked
      /\ emptied.call = stopped.call
  BY <1>5, EmptySeq DEF Client
<1> HIDE DEF emptied
<1>8. Shut(emptied)
  BY <1>5, <1>7 DEF Shut
<1>9. FrontOK(emptied, queue)
  <2>1. Len(emptied.pipeline) = 0 /\ Len(queue) \in Nat /\ MaxPendingWrites \in Nat
    BY <1>1, <1>7, LenProperties, EmptySeq, ConstantsAssumption
  <2> QED
    BY <2>1 DEF FrontOK
<1>10. new \in Client /\ FrontOK(new, queue) /\ Shut(new) /\ ~new.handshake
  BY <1>1, <1>6, <1>7, <1>8, <1>9, FillShut
<1> HIDE DEF new
<1>11. ClientOK(new, queue)
  BY <1>10 DEF ClientOK, Shut
<1>12. /\ UNCHANGED <<queue, nextBatchId, applied, committed, calls, handed, outcome>>
       /\ AbandonWire
  BY DEF RestartNetwork, disk_vars
<1>13. DoneIsCommitted'
  BY <1>12 DEF IInv, DoneIsCommitted
<1> QED
  BY <1>3, <1>10, <1>11, <1>12, <1>13, AbandonStep, ShutStep DEF IInv, TypeOK

LEMMA NewClientOK ==
  ASSUME NEW q \in Seq(Batch)
  PROVE  NewClient \in Client /\ FrontOK(NewClient, q) /\ Shut(NewClient)
         /\ ~NewClient.handshake
<1> DEFINE c == NewClient
<1>1. /\ c \in Client /\ c.pipeline = <<>> /\ c.state = "Initial" /\ ~c.handshake
      /\ ~c.idle /\ c.asked = 0 /\ c.call = NoCall
  BY NoCallOK, EmptySeq DEF NewClient, Client
<1> HIDE DEF c
<1>2. Len(c.pipeline) = 0 /\ Len(q) \in Nat /\ MaxPendingWrites \in Nat
  BY <1>1, LenProperties, EmptySeq, ConstantsAssumption
<1> QED
  BY <1>1, <1>2 DEF FrontOK, Shut, c

LEMMA EndProcessStep ==
  ASSUME IInv, EndProcess
  PROVE  IInv'
<1>1. queue \in Seq(Batch)
  BY DEF IInv, TypeOK
<1>2. ClientOK(NewClient, queue) /\ NewClient \in Client /\ Shut(NewClient)
  BY <1>1, NewClientOK DEF ClientOK, Shut
<1>3. /\ UNCHANGED <<queue, nextBatchId, applied, committed, calls, outcome>>
      /\ AbandonWire /\ client' = NewClient /\ handed' = <<>>
  BY DEF EndProcess, disk_vars
<1>4. DoneIsCommitted'
  BY <1>3 DEF IInv, DoneIsCommitted
<1>5. handed' \in Seq(Writes)
  BY <1>3, EmptySeq
<1> QED
  BY <1>2, <1>3, <1>4, <1>5, AbandonStep, ShutStep DEF IInv, TypeOK

LEMMA InitializeStep ==
  ASSUME IInv, Initialize
  PROVE  IInv'
<1> DEFINE new == FillWritePipeline(NewClient, queue)
           last == IF queue = <<>> THEN 0 ELSE queue[Len(queue)].id
<1>1. /\ client \in Client /\ queue \in Seq(Batch) /\ InOrder(queue, nextBatchId)
      /\ WireOK(client, wire) /\ client.state # "Open"
  BY DEF IInv, TypeOK, Initialize
<1>2. new \in Client /\ FrontOK(new, queue) /\ Shut(new) /\ ~new.handshake
  BY <1>1, NewClientOK, FillShut
<1>3. client' = new /\ wire' = NoWire /\ nextBatchId' = 1 + last
  BY <1>1 DEF Initialize, WireOK
<1> HIDE DEF new
<1>4. ClientOK(new, queue)
  BY <1>2 DEF ClientOK, Shut
<1>5. UNCHANGED <<queue, late, applied, committed, calls, handed, outcome>>
  BY DEF Initialize, server_vars, history_vars
<1>6. InOrder(queue, 1 + last)
  <2>1. /\ Len(queue) \in Nat /\ DOMAIN queue = 1..Len(queue)
        /\ (queue = <<>>) <=> (Len(queue) = 0)
        /\ \A i \in 1..Len(queue) : queue[i] \in Batch
    BY <1>1, LenProperties, EmptySeq, ElementOfSeq
  <2>2. \A i \in DOMAIN queue : queue[i].id \in Nat
    BY <2>1 DEF Batch
  <2>3. last \in Nat
    <3>1. CASE queue = <<>>
      BY <3>1
    <3>2. CASE queue # <<>>
      <4>1. Len(queue) \in DOMAIN queue
        BY <2>1, <3>2
      <4> QED
        BY <2>2, <3>2, <4>1
    <3> QED
      BY <3>1, <3>2
  <2>4. ASSUME NEW i \in DOMAIN queue PROVE queue[i].id <= last
    <3>1. /\ Len(queue) \in DOMAIN queue /\ queue # <<>>
          /\ i < Len(queue) \/ i = Len(queue)
      BY <2>1
    <3>2. i < Len(queue) => queue[i].id < queue[Len(queue)].id
      BY <1>1, <3>1 DEF InOrder
    <3> QED
      BY <2>2, <3>1, <3>2
  <2> HIDE DEF last
  <2>5. 1 + last \in Nat \ {0} /\ \A i \in DOMAIN queue : queue[i].id < 1 + last
    BY <2>2, <2>3, <2>4
  <2> QED
    BY <1>1, <2>5 DEF InOrder
<1>7. DoneIsCommitted'
  BY <1>5 DEF IInv, DoneIsCommitted
<1> HIDE DEF last
<1> QED
  BY <1>2, <1>3, <1>4, <1>5, <1>6, <1>7, ShutStep DEF IInv, TypeOK

-----------------------------------------------------------------------------
(* Writes are made, and batches resolved.                                  *)

LEMMA SetDataStep ==
  ASSUME IInv, SetData
  PROVE  IInv'
<1>1. calls' = calls + 1 /\ handed' = Append(handed, calls + 1)
  BY DEF SetData
<1>2. calls + 1 \in Writes /\ calls' \in 0..MaxWrites
  <2>1. calls \in Nat /\ MaxWrites \in Nat /\ calls < MaxWrites
    BY ConstantsAssumption DEF IInv, TypeOK, SetData
  <2> QED
    BY <1>1, <2>1 DEF Writes
<1>3. handed' \in Seq(Writes)
  BY <1>1, <1>2, AppendProperties DEF IInv, TypeOK
<1>4. UNCHANGED <<alive, queue, nextBatchId, client, wire, late, applied,
                  committed, outcome>>
  BY DEF SetData, disk_vars, server_vars, history_vars
<1> QED
  BY <1>2, <1>3, <1>4 DEF IInv, TypeOK, DoneIsCommitted

\* Steps that fill the pipeline of a client for another queue.
LEMMA FillStep ==
  ASSUME IInv, NEW q \in Seq(Batch), NEW next, InOrder(q, next),
         NEW c \in Client, ClientOK(c, q), CallOK(c.call, wire.trailer),
         NEW a \in Nat, Flow(c, wire, q, a, late), LateOK(q, a, late, committed),
         c.state = client.state,
         client' = FillWritePipeline(c, q), queue' = q, nextBatchId' = next,
         applied' = a, UNCHANGED <<alive, calls, wire, late, committed>>,
         handed' \in Seq(Writes),
         outcome' \in [Writes -> {"none", "acknowledged", "rejected"}],
         DoneIsCommitted'
  PROVE  IInv'
<1> DEFINE new == FillWritePipeline(c, q)
<1>1. wire \in Wire /\ late \in Seq(Requests) /\ WireOK(client, wire)
  BY DEF IInv, TypeOK
<1>2. /\ new \in Client /\ ClientOK(new, q) /\ CallOK(new.call, wire.trailer)
      /\ Flow(new, wire, q, a, late)
      /\ new.state = "Open" <=> c.state = "Open"
  BY <1>1, FillOK
<1> HIDE DEF new
<1>3. WireOK(new, wire)
  BY <1>1, <1>2 DEF WireOK
<1>4. client' = new
  BY DEF new
<1>5. TypeOK'
  BY <1>2, <1>4 DEF IInv, TypeOK
<1> QED
  BY <1>2, <1>3, <1>4, <1>5 DEF IInv

LEMMA WriteMutationsStep ==
  ASSUME IInv, WriteMutations
  PROVE  IInv'
<1> DEFINE b == [id |-> nextBatchId, write |-> Head(handed)]
           q == Append(queue, b)
<1>1. /\ client \in Client /\ queue \in Seq(Batch) /\ InOrder(queue, nextBatchId)
      /\ handed \in Seq(Writes) /\ handed # <<>> /\ ClientOK(client, queue)
      /\ wire \in Wire /\ applied \in Nat /\ late \in Seq(Requests)
      /\ Flow(client, wire, queue, applied, late)
      /\ LateOK(queue, applied, late, committed)
      /\ CallOK(client.call, wire.trailer)
      /\ nextBatchId \in Nat \ {0}
  BY DEF IInv, TypeOK, WriteMutations, InOrder
<1>2. Head(handed) \in Writes /\ Tail(handed) \in Seq(Writes)
  BY <1>1, HeadTailProperties
<1>3. b \in Batch /\ b.id = nextBatchId
  BY <1>1, <1>2 DEF Batch
<1>4. /\ client' = FillWritePipeline(client, q) /\ queue' = q
      /\ nextBatchId' = nextBatchId + 1 /\ handed' = Tail(handed)
      /\ UNCHANGED <<alive, calls, wire, late, committed, applied, outcome>>
  BY DEF WriteMutations, server_vars, history_vars
<1> HIDE DEF b
<1>5. /\ q \in Seq(Batch) /\ Len(q) = Len(queue) + 1
      /\ \A i \in 1..Len(queue) : q[i] = queue[i]
      /\ q[Len(queue) + 1] = b /\ Len(queue) \in Nat
  BY <1>1, <1>3, AppendProperties, LenProperties
<1> HIDE DEF q
<1>6. InOrder(q, nextBatchId + 1)
  <2> DEFINE n == Len(queue) + 1
  <2>1. /\ DOMAIN queue = 1..Len(queue) /\ DOMAIN q = 1..n
        /\ \A i \in 1..Len(queue) : queue[i].id \in Nat
    <3>1. DOMAIN queue = 1..Len(queue) /\ \A i \in 1..Len(queue) : queue[i] \in Batch
      BY <1>1, LenProperties, ElementOfSeq
    <3> QED
      BY <1>5, <3>1, LenProperties DEF Batch
  <2>2. ASSUME NEW i \in DOMAIN q
        PROVE  \/ i \in DOMAIN queue /\ q[i] = queue[i] /\ i < n
               \/ i = n /\ q[i] = b
    BY <1>5, <2>1
  <2>3. \A i \in DOMAIN q : 0 < q[i].id /\ q[i].id < nextBatchId + 1
    <3> SUFFICES ASSUME NEW i \in DOMAIN q
                 PROVE  0 < q[i].id /\ q[i].id < nextBatchId + 1
      OBVIOUS
    <3>1. CASE i \in DOMAIN queue /\ q[i] = queue[i]
      <4>1. 0 < queue[i].id /\ queue[i].id < nextBatchId /\ queue[i].id \in Nat
        BY <1>1, <2>1, <3>1 DEF InOrder
      <4> QED
        BY <1>1, <3>1, <4>1
    <3>2. CASE i = n /\ q[i] = b
      BY <1>1, <1>3, <3>2
    <3> QED
      BY <2>2, <3>1, <3>2
  <2>4. \A i, j \in DOMAIN q : i < j => q[i].id < q[j].id
    <3> SUFFICES ASSUME NEW i \in DOMAIN q, NEW j \in DOMAIN q, i < j
                 PROVE  q[i].id < q[j].id
      OBVIOUS
    <3>1. i \in DOMAIN queue /\ q[i] = queue[i]
      BY <1>5, <2>1, <2>2
    <3>2. CASE j \in DOMAIN queue /\ q[j] = queue[j]
      BY <1>1, <3>1, <3>2 DEF InOrder
    <3>3. CASE j = n /\ q[j] = b
      BY <1>1, <1>3, <3>1, <3>3 DEF InOrder
    <3> QED
      BY <2>2, <3>2, <3>3
  <2>5. nextBatchId + 1 \in Nat \ {0}
    BY <1>1
  <2> QED
    BY <2>3, <2>4, <2>5 DEF InOrder
<1>7. ClientOK(client, q) /\ Flow(client, wire, q, applied, late)
      /\ LateOK(q, applied, late, committed)
  <2>1. Len(queue) <= Len(q)
    BY <1>5
  <2> QED
    BY <1>1, <1>5, <2>1, LongerQueue
<1>8. DoneIsCommitted'
  BY <1>4 DEF IInv, DoneIsCommitted
<1>9. outcome' \in [Writes -> {"none", "acknowledged", "rejected"}]
  BY <1>4 DEF IInv, TypeOK
<1> QED
  BY <1>1, <1>2, <1>4, <1>5, <1>6, <1>7, <1>8, <1>9, FillStep

\* An answer is only read when the server has applied the first batch.
LEMMA ReadMeansApplied ==
  ASSUME IInv, Completes("read"), client.handshake
  PROVE  /\ client.state = "Open" /\ Sending(client, wire, queue, applied, late)
         /\ applied > 0 /\ client.pipeline # <<>>
<1>1. client.state = "Open" /\ Has(client.call.completions, "read")
  BY RestOK
<1>2. Sending(client, wire, queue, applied, late) /\ applied \in Nat
      /\ client \in Client /\ wire \in Wire /\ late \in Seq(Requests)
  BY <1>1 DEF IInv, Flow, TypeOK
<1>3. Len(wire.responses) \in Nat /\ Len(late) \in Nat
  BY <1>2, OutType, LenProperties
<1>4. Answers(client, wire) = Len(wire.responses) + 1
  BY <1>1 DEF Answers
<1>5. Answers(client, wire) <= applied /\ applied + Len(late) <= Len(client.pipeline)
  BY <1>2 DEF Sending
<1>6. applied > 0
  BY <1>2, <1>3, <1>4, <1>5
<1>7. Len(client.pipeline) # 0
  <2>1. Len(client.pipeline) \in Nat
    BY <1>2, LenProperties DEF Client
  <2> QED
    BY <1>2, <1>3, <1>5, <1>6, <2>1
<1> QED
  BY <1>1, <1>2, <1>6, <1>7, EmptySeq

LEMMA OnWriteStreamMutationResultStep ==
  ASSUME IInv, OnWriteStreamMutationResult
  PROVE  IInv'
<1> DEFINE batch == Head(client.pipeline)
           t == Tail(queue)
           s == client.call.completions
           call == [Rest EXCEPT !.reading = TRUE]
           c == [client EXCEPT !.pipeline = Tail(client.pipeline), !.call = call]
           a == AfterFirst(applied)
<1>1. /\ Completes("read") /\ client.handshake
      /\ queue' = Without(queue, batch)
      /\ client' = FillWritePipeline(c, Without(queue, batch))
      /\ outcome' = [outcome EXCEPT ![batch.write] = "acknowledged"]
      /\ applied' = a
      /\ UNCHANGED <<alive, calls, handed, nextBatchId, wire, late, committed>>
  BY DEF OnWriteStreamMutationResult, server_vars, AfterFirst
<1>2. /\ client.state = "Open" /\ Sending(client, wire, queue, applied, late)
      /\ applied > 0 /\ client.pipeline # <<>>
  BY <1>1, ReadMeansApplied
<1>3. /\ client \in Client /\ wire \in Wire /\ CallOK(client.call, wire.trailer)
      /\ queue \in Seq(Batch) /\ InOrder(queue, nextBatchId)
      /\ FrontOK(client, queue) /\ Opened(client) /\ applied \in Nat
      /\ late \in Seq(Requests) /\ LateOK(queue, applied, late, committed)
  BY <1>2 DEF IInv, TypeOK, ClientOK
<1>4. /\ client.call \in Call /\ s \in Seq(CompletionType) /\ s # <<>>
      /\ Head(s).type = "read" /\ Has(s, "read") /\ Rest \in Call
      /\ Rest.completions = Tail(s) /\ Rest.writing = client.call.writing
      /\ Rest.issued = client.call.issued /\ Rest.buffer = client.call.buffer
      /\ Rest.finished = client.call.finished
  BY <1>1, RestOK
<1>5. /\ ~Has(Tail(s), "read") /\ AtMostOne(Tail(s), "read")
      /\ Has(Tail(s), "write") <=> Has(s, "write")
      /\ Has(Tail(s), "failed") <=> Has(s, "failed")
      /\ AtMostOne(Tail(s), "write")
  BY <1>3, <1>4, CompletionsTail DEF CallOK
<1>6. /\ call \in Call /\ call.completions = Tail(s) /\ call.reading
      /\ call.writing = client.call.writing /\ call.issued = client.call.issued
      /\ call.buffer = client.call.buffer /\ call.finished = client.call.finished
  BY <1>4 DEF Call
<1> HIDE DEF call, s
<1>7. CallOK(call, wire.trailer)
  BY <1>3, <1>4, <1>5, <1>6 DEF CallOK, s
<1>8. Tail(client.pipeline) \in Seq(Batch)
  BY <1>2, <1>3, HeadTailProperties DEF Client
<1>9. /\ c \in Client /\ c.pipeline = Tail(client.pipeline) /\ c.call = call
      /\ c.state = "Open" /\ c.handshake /\ c.idle = client.idle
      /\ c.asked = client.asked
  <2> DEFINE half == [client EXCEPT !.pipeline = Tail(client.pipeline)]
  <2>1. /\ half \in Client /\ half.pipeline = Tail(client.pipeline)
        /\ half.state = "Open" /\ half.handshake /\ half.idle = client.idle
        /\ half.asked = client.asked
    BY <1>1, <1>2, <1>3, <1>8 DEF Client
  <2>2. c = [half EXCEPT !.call = call]
    BY <1>3 DEF Client
  <2> HIDE DEF half, c
  <2> QED
    BY <1>6, <2>1, <2>2 DEF Client
<1> HIDE DEF c
<1>10. /\ Len(queue) \in Nat \ {0} /\ batch = queue[1] /\ queue[1] \in Batch
       /\ Without(queue, batch) = t
       /\ t \in Seq(Batch) /\ Len(t) = Len(queue) - 1
       /\ \A i \in 1..(Len(queue) - 1) : t[i] = queue[i + 1]
       /\ InOrder(t, nextBatchId)
       /\ Len(c.pipeline) = Len(client.pipeline) - 1
       /\ Len(client.pipeline) \in Nat \ {0}
       /\ FrontOK(c, t)
  BY <1>2, <1>3, <1>9, FirstOut
<1> HIDE DEF t, batch
<1>11. a \in Nat /\ LateOK(t, a, late, committed) /\ a = applied - 1
  BY <1>2, <1>3, <1>10, LateAfterFirst DEF AfterFirst
<1>12. ClientOK(c, t)
  <2>1. ~client.idle
    BY <1>2, <1>3 DEF Opened
  <2> QED
    BY <1>3, <1>9, <1>10, <2>1 DEF ClientOK, Opened
<1>13. Answers(client, wire) = Answers(c, wire) + 1 /\ Answers(c, wire) \in Nat
       /\ Out(c, wire) = Out(client, wire)
  <2>1. Len(wire.responses) \in Nat
    BY <1>3, OutType
  <2>2. Answers(c, wire) = Len(wire.responses)
    <3>1. ~Has(c.call.completions, "read")
      BY <1>5, <1>6, <1>9
    <3>2. Answers(c, wire) = Len(wire.responses) + 0
      BY <3>1 DEF Answers
    <3> QED
      BY <2>1, <3>2
  <2>3. Answers(client, wire) = Len(wire.responses) + 1
    BY <1>4 DEF Answers, s
  <2> QED
    BY <1>6, <1>9, <2>1, <2>2, <2>3 DEF Out
<1> HIDE DEF a
<1>14. Sending(c, wire, t, a, late)
  <2>1. Answers(client, wire) <= applied /\ applied + Len(late) <= Len(client.pipeline)
        /\ Len(client.pipeline) <= Len(queue)
    BY <1>2, <1>3 DEF Sending, FrontOK
  <2>2. Len(late) \in Nat
    BY <1>3, LenProperties
  <2>3. Answers(c, wire) <= a /\ a + Len(late) <= Len(c.pipeline)
    BY <1>3, <1>10, <1>11, <1>13, <2>1, <2>2
  <2>4. ASSUME wire.trailer = "none"
        PROVE  /\ wire.shaken /\ late = <<>> /\ Answers(c, wire) = a
               /\ Len(Out(c, wire)) + a = Len(c.pipeline)
               /\ \A i \in 1..Len(Out(c, wire)) : Out(c, wire)[i] = t[a + i].write
    <3> DEFINE out == Out(client, wire)
    <3>1. /\ wire.shaken /\ late = <<>> /\ Answers(client, wire) = applied
          /\ Len(out) + applied = Len(client.pipeline)
          /\ \A i \in 1..Len(out) : out[i] = queue[applied + i].write
      BY <1>2, <2>4 DEF Sending
    <3>2. Len(out) \in Nat
      BY <1>3, OutStart
    <3> HIDE DEF out
    <3>3. Len(out) + a = Len(c.pipeline) /\ Answers(c, wire) = a
      <4>1. /\ Len(out) + applied = Len(client.pipeline) /\ a = applied - 1
            /\ Len(c.pipeline) = Len(client.pipeline) - 1
            /\ Answers(c, wire) + 1 = applied
        BY <1>10, <1>11, <1>13, <3>1
      <4>2. /\ Len(out) \in Nat /\ applied \in Nat /\ Answers(c, wire) \in Nat
            /\ Len(client.pipeline) \in Nat
        BY <1>3, <1>10, <1>13, <3>2
      <4> QED
        BY <4>1, <4>2
    <3>4. ASSUME NEW i \in 1..Len(out) PROVE out[i] = t[a + i].write
      <4>1. a + i \in 1..(Len(queue) - 1) /\ (a + i) + 1 = applied + i
        BY <1>3, <1>10, <1>11, <2>1, <3>1, <3>2
      <4> QED
        BY <1>10, <3>1, <4>1, ZenonT(60)
    <3> QED
      BY <1>13, <3>1, <3>3, <3>4 DEF out
  <2>5. ASSUME wire.trailer = "permanent"
        PROVE  late = <<>> /\ a < Len(c.pipeline) /\ t[a + 1].write \in Denied
    <3>1. /\ late = <<>> /\ applied < Len(client.pipeline)
          /\ queue[applied + 1].write \in Denied
      BY <1>2, <2>5 DEF Sending
    <3>2. a + 1 \in 1..(Len(queue) - 1) /\ (a + 1) + 1 = applied + 1
          /\ a < Len(c.pipeline)
      BY <1>2, <1>3, <1>10, <1>11, <2>1, <3>1
    <3> QED
      BY <1>10, <3>1, <3>2
  <2> QED
    BY <2>3, <2>4, <2>5 DEF Sending
<1>15. Flow(c, wire, t, a, late)
  BY <1>9, <1>14 DEF Flow
<1>16. batch.write \in Writes /\ batch.write \in committed
  <2>1. 1 \in 1..applied
    BY <1>2, <1>3
  <2> QED
    BY <1>3, <1>10, <2>1 DEF LateOK, Batch
<1>17. outcome' \in [Writes -> {"none", "acknowledged", "rejected"}]
  BY <1>1 DEF IInv, TypeOK
<1>18. DoneIsCommitted'
  <2>1. outcome \in [Writes -> {"none", "acknowledged", "rejected"}]
        /\ \A w \in Writes : outcome[w] = "acknowledged" => w \in committed
    BY DEF IInv, TypeOK, DoneIsCommitted
  <2>2. \A w \in Writes : outcome'[w] = "acknowledged" => w \in committed
    BY <1>1, <1>16, <2>1
  <2> QED
    BY <1>1, <2>2 DEF DoneIsCommitted
<1>19. handed' \in Seq(Writes)
  BY <1>1 DEF IInv, TypeOK
<1> QED
  BY <1>1, <1>2, <1>7, <1>9, <1>10, <1>11, <1>12, <1>15, <1>17, <1>18, <1>19, FillStep, SMTT(60)

LEMMA HandleWriteErrorStep ==
  ASSUME IInv, HandleWriteError
  PROVE  IInv'
<1> DEFINE batch == Head(client.pipeline)
           t == Tail(queue)
           closed == Close(client, "Initial")
           c == [closed EXCEPT !.pipeline = Tail(closed.pipeline)]
           filled == FillWritePipeline(c, t)
           started == StartIfNeeded(filled)
           new == ForgetHandshake(started)
           a == AfterFirst(applied)
<1>1. /\ Completes("finish") /\ wire.trailer = "permanent" /\ client.handshake
      /\ client.pipeline # <<>> /\ AbandonWire
      /\ queue' = Without(queue, batch)
      /\ client' = ForgetHandshake(StartIfNeeded(
                     FillWritePipeline(c, Without(queue, batch))))
      /\ outcome' = [outcome EXCEPT ![batch.write] = "rejected"]
      /\ applied' = a
      /\ UNCHANGED <<alive, calls, handed, nextBatchId, committed>>
  BY DEF HandleWriteError, AfterFirst
<1>2. /\ client \in Client /\ wire \in Wire /\ queue \in Seq(Batch)
      /\ InOrder(queue, nextBatchId) /\ FrontOK(client, queue) /\ applied \in Nat
      /\ late \in Seq(Requests) /\ LateOK(queue, applied, late, committed)
      /\ client.state = "Open"
  <2>1. client.state = "Open"
    BY <1>1, RestOK
  <2> QED
    BY <2>1 DEF IInv, TypeOK, ClientOK
<1>3. late = <<>> /\ late' = late
  <2>1. Sending(client, wire, queue, applied, late)
    BY <1>1, <1>2 DEF IInv, Flow
  <2>2. late' = late
    BY <1>1, AbandonStep
  <2> QED
    BY <1>1, <2>1, <2>2 DEF Sending
<1>4. /\ closed \in Client /\ Shut(closed) /\ closed.state = "Initial"
      /\ closed.pipeline = client.pipeline
  BY <1>2, CloseOK
<1>5. FrontOK(closed, queue)
  BY <1>2, <1>4 DEF FrontOK
<1> HIDE DEF closed
<1>6. c.pipeline = Tail(closed.pipeline) /\ Tail(closed.pipeline) \in Seq(Batch)
  BY <1>1, <1>4, HeadTailProperties DEF Client
<1>7. /\ c \in Client /\ c.state = closed.state /\ c.idle = closed.idle
      /\ c.asked = closed.asked /\ c.call = closed.call
  BY <1>4, <1>6 DEF Client
<1> HIDE DEF c
<1>8. /\ Len(queue) \in Nat \ {0} /\ batch = queue[1]
      /\ Without(queue, batch) = t
      /\ t \in Seq(Batch) /\ Len(t) = Len(queue) - 1
      /\ \A i \in 1..(Len(queue) - 1) : t[i] = queue[i + 1]
      /\ InOrder(t, nextBatchId)
      /\ FrontOK(c, t)
  BY <1>1, <1>2, <1>4, <1>5, <1>6, FirstOut
<1>9. a \in Nat /\ LateOK(t, a, late, committed)
  BY <1>2, <1>3, <1>8, LateAfterFirst
<1>10. Shut(c)
  BY <1>4, <1>6, <1>7 DEF Shut
<1> HIDE DEF t, a
<1>11. filled \in Client /\ FrontOK(filled, t) /\ Shut(filled)
  BY <1>7, <1>8, <1>10, FillShut
<1>12. client' = new
  BY <1>1, <1>8
<1> HIDE DEF filled
<1>13. started \in Client /\ Shut(started) /\ started.pipeline = filled.pipeline
  BY <1>11, StartIfNeededOK
<1> HIDE DEF started
<1>14. FrontOK(started, t)
  BY <1>11, <1>13 DEF FrontOK
<1>15. new \in Client /\ ClientOK(new, t) /\ Shut(new)
  BY <1>13, <1>14, ForgetOK
<1> HIDE DEF new
<1>16. outcome' \in [Writes -> {"none", "acknowledged", "rejected"}]
  BY <1>1 DEF IInv, TypeOK
<1>17. DoneIsCommitted'
  <2>1. outcome \in [Writes -> {"none", "acknowledged", "rejected"}]
        /\ \A w \in Writes : outcome[w] = "acknowledged" => w \in committed
    BY DEF IInv, TypeOK, DoneIsCommitted
  <2>2. \A w \in Writes : outcome'[w] = "acknowledged" => outcome[w] = "acknowledged"
    BY <1>1, <2>1
  <2> QED
    BY <1>1, <2>1, <2>2 DEF DoneIsCommitted
<1>18. queue' = t /\ wire' = NoWire /\ nextBatchId' = nextBatchId
  BY <1>1, <1>8 DEF AbandonWire
<1> QED
  BY <1>1, <1>2, <1>3, <1>8, <1>9, <1>12, <1>15, <1>16, <1>17, <1>18, ShutStep
     DEF IInv, TypeOK

-----------------------------------------------------------------------------
(* Steps after which the stream is open.                                   *)

LEMMA OpenStep ==
  ASSUME IInv, alive, NEW new \in Client, NEW w \in Wire, new.state = "Open",
         FrontOK(new, queue), Opened(new), CallOK(new.call, w.trailer),
         WireOK(new, w), Flow(new, w, queue, applied', late'),
         client' = new, wire' = w, late' \in Seq(Requests), applied' \in Nat,
         LateOK(queue, applied', late', committed'),
         committed \subseteq committed',
         UNCHANGED <<alive, calls, handed, queue, nextBatchId, outcome>>
  PROVE  IInv'
<1>1. ClientOK(new, queue)
  BY DEF ClientOK
<1>2. TypeOK'
  BY DEF IInv, TypeOK
<1>3. DoneIsCommitted'
  BY DEF IInv, DoneIsCommitted
<1> QED
  BY <1>1, <1>2, <1>3 DEF IInv

LEMMA ReceiveTokenStep ==
  ASSUME IInv, ReceiveToken
  PROVE  IInv'
<1> DEFINE reading == [NoCall EXCEPT !.reading = TRUE]
           requests == <<Handshake>>
           call == EnqueueWrites(reading, requests)
           one == [client EXCEPT !.asked = client.asked - 1]
           two == [one EXCEPT !.state = "Open"]
           three == [two EXCEPT !.idle = FALSE]
           new == [three EXCEPT !.call = call]
<1>1. /\ client.asked > 0 /\ wire' = NoWire /\ alive
      /\ client' = Write([client EXCEPT !.asked = @ - 1, !.state = "Open",
                                        !.call = reading], requests)
      /\ UNCHANGED <<alive, calls, handed, queue, nextBatchId, late, applied,
                     committed, outcome>>
  BY DEF ReceiveToken, disk_vars, server_vars, history_vars
<1>2. /\ client \in Client /\ ClientOK(client, queue) /\ applied \in Nat
      /\ late \in Seq(Requests) /\ LateOK(queue, applied, late, committed)
  BY DEF IInv, TypeOK
<1>3. client.state = "Starting" /\ client.asked = 1
  <2>1. client.asked # 0
    BY <1>1
  <2> QED
    BY <1>2, <2>1 DEF ClientOK, Opened, Shut
<1>4. /\ FrontOK(client, queue) /\ Shut(client) /\ ~client.handshake
      /\ client.pipeline # <<>> /\ ~client.idle
  BY <1>2, <1>3 DEF ClientOK, Shut
<1>5. requests \in Seq(Requests) /\ Len(requests) = 1 /\ requests[1] = Handshake
      /\ requests # <<>>
  BY DEF Requests
<1> HIDE DEF requests
<1>6. client' = new
  BY <1>1, <1>2, <1>4, <1>5 DEF Write, Client
<1>7. /\ reading \in Call /\ reading.issued = <<>> /\ reading.buffer = <<>>
      /\ reading.completions = <<>> /\ ~reading.finished /\ ~reading.writing
  BY NoCallOK DEF Call
<1> HIDE DEF reading
<1>8. CallOK(reading, "none")
  BY <1>7, NoCompletions DEF CallOK
<1>9. /\ call \in Call /\ CallOK(call, "none") /\ call.completions = <<>>
      /\ call.issued \o call.buffer = (<<>> \o <<>>) \o requests
  BY <1>5, <1>7, <1>8, EnqueueWritesOK
<1> HIDE DEF call
<1>10. /\ one \in Client /\ one.asked = 0 /\ one.pipeline = client.pipeline
       /\ one.handshake = client.handshake
  BY <1>2, <1>3 DEF Client
<1> HIDE DEF one
<1>11. /\ two \in Client /\ two.asked = 0 /\ two.pipeline = client.pipeline
       /\ two.handshake = client.handshake /\ two.state = "Open"
  BY <1>10 DEF Client
<1> HIDE DEF two
<1>12. /\ three \in Client /\ three.asked = 0 /\ three.pipeline = client.pipeline
       /\ three.handshake = client.handshake /\ three.state = "Open" /\ ~three.idle
  BY <1>11 DEF Client
<1> HIDE DEF three
<1>13. /\ new \in Client /\ new.asked = 0 /\ new.pipeline = client.pipeline
       /\ ~new.handshake /\ new.state = "Open" /\ ~new.idle /\ new.call = call
  BY <1>4, <1>9, <1>12 DEF Client
<1> HIDE DEF new
<1>14. FrontOK(new, queue) /\ Opened(new)
  BY <1>4, <1>13 DEF FrontOK, Opened
<1>15. /\ NoWire \in Wire /\ NoWire.trailer = "none" /\ NoWire.requests = <<>>
       /\ NoWire.responses = <<>> /\ ~NoWire.shaken
  BY EmptySeq DEF NoWire, Wire
<1>16. WireOK(new, NoWire)
  BY <1>15 DEF WireOK
<1>17. Answers(new, NoWire) = 0
  BY <1>9, <1>13, <1>15, NoCompletions DEF Answers
<1>18. Len(Out(new, NoWire)) = 1 /\ Out(new, NoWire)[1] = Handshake
  <2>1. Out(new, NoWire) = <<>> \o ((<<>> \o <<>>) \o requests)
    BY <1>9, <1>13, <1>15, OutType
  <2>2. <<>> \o requests = requests /\ <<>> \o <<>> = <<>>
    BY <1>5, ConcatEmptySeq, EmptySeq
  <2> QED
    BY <1>5, <2>1, <2>2
<1>19. Flow(new, NoWire, queue, applied, late)
  BY <1>13, <1>15, <1>17, <1>18 DEF Flow, Shaking
<1>20. CallOK(new.call, NoWire.trailer)
  BY <1>9, <1>13, <1>15
<1> QED
  BY <1>1, <1>2, <1>6, <1>13, <1>14, <1>15, <1>16, <1>19, <1>20, OpenStep

LEMMA ReceiveStaleTokenStep ==
  ASSUME IInv, ReceiveStaleToken
  PROVE  IInv'
<1> DEFINE new == [client EXCEPT !.stale = FALSE]
<1>1. /\ client \in Client /\ wire \in Wire /\ ClientOK(client, queue)
      /\ WireOK(client, wire) /\ Flow(client, wire, queue, applied, late)
      /\ CallOK(client.call, wire.trailer)
  BY DEF IInv, TypeOK
<1>2. /\ client' = new
      /\ UNCHANGED <<alive, calls, handed, queue, nextBatchId, wire, late, applied,
                     committed, outcome>>
  BY DEF ReceiveStaleToken, disk_vars, server_vars, history_vars
<1>3. /\ new \in Client /\ new.pipeline = client.pipeline /\ new.state = client.state
      /\ new.handshake = client.handshake /\ new.idle = client.idle
      /\ new.asked = client.asked /\ new.call = client.call
  BY <1>1 DEF Client
<1> HIDE DEF new
<1>4. ClientOK(new, queue) /\ WireOK(new, wire)
  BY <1>1, <1>3 DEF ClientOK, FrontOK, Opened, Shut, WireOK
<1>5. Answers(new, wire) = Answers(client, wire) /\ Out(new, wire) = Out(client, wire)
  BY <1>3 DEF Answers, Out
<1>6. Flow(new, wire, queue, applied, late)
  BY <1>1, <1>3, <1>5 DEF Flow, Sending, Shaking
<1>7. TypeOK'
  BY <1>2, <1>3 DEF IInv, TypeOK
<1> QED
  BY <1>1, <1>2, <1>3, <1>4, <1>6, <1>7 DEF IInv, DoneIsCommitted

LEMMA OnWriteStreamHandshakeCompleteStep ==
  ASSUME IInv, OnWriteStreamHandshakeComplete
  PROVE  IInv'
<1> DEFINE s == client.call.completions
           reading == [Rest EXCEPT !.reading = TRUE]
           requests == WritesOf(client.pipeline)
           call == EnqueueWrites(reading, requests)
           shaken == [client EXCEPT !.handshake = TRUE]
           idle == client.idle /\ requests = <<>>
           marked == [shaken EXCEPT !.idle = idle]
           new == [marked EXCEPT !.call = call]
<1>1. /\ Completes("read") /\ ~client.handshake /\ alive
      /\ client' = Write([client EXCEPT !.handshake = TRUE, !.call = reading], requests)
      /\ UNCHANGED <<alive, calls, handed, queue, nextBatchId, wire, late, applied,
                     committed, outcome>>
  BY DEF OnWriteStreamHandshakeComplete, Completes, disk_vars, server_vars,
         history_vars
<1>2. /\ client \in Client /\ client.call \in Call /\ client.state = "Open"
      /\ s \in Seq(CompletionType) /\ s # <<>> /\ Head(s).type = "read"
      /\ Has(s, "read") /\ Rest \in Call /\ Rest.completions = Tail(s)
      /\ Rest.writing = client.call.writing
      /\ Rest.issued = client.call.issued /\ Rest.buffer = client.call.buffer
      /\ Rest.finished = client.call.finished
  BY <1>1, RestOK DEF IInv, TypeOK
<1>3. /\ wire \in Wire /\ FrontOK(client, queue) /\ Opened(client)
      /\ CallOK(client.call, wire.trailer) /\ WireOK(client, wire)
      /\ Shaking(client, wire, applied, late)
      /\ applied \in Nat /\ late \in Seq(Requests)
      /\ LateOK(queue, applied, late, committed) /\ queue \in Seq(Batch)
  BY <1>1, <1>2 DEF IInv, TypeOK, ClientOK, Flow
<1>4. /\ ~Has(Tail(s), "read") /\ AtMostOne(Tail(s), "read")
      /\ Has(Tail(s), "write") <=> Has(s, "write")
      /\ Has(Tail(s), "failed") <=> Has(s, "failed")
      /\ AtMostOne(Tail(s), "write")
  BY <1>2, <1>3, CompletionsTail DEF CallOK
<1>5. /\ reading \in Call /\ reading.completions = Tail(s) /\ reading.reading
      /\ reading.writing = client.call.writing /\ reading.issued = client.call.issued
      /\ reading.buffer = client.call.buffer
      /\ reading.finished = client.call.finished
  BY <1>2 DEF Call
<1>6. client' = new
  BY <1>1, <1>2 DEF Write, Client
<1> HIDE DEF reading, s
<1>7. CallOK(reading, wire.trailer)
  BY <1>2, <1>3, <1>4, <1>5 DEF CallOK, s
<1>8. client.pipeline \in Seq(Batch)
  BY <1>2 DEF Client
<1>9. /\ requests \in Seq(Requests) /\ Len(requests) = Len(client.pipeline)
      /\ \A i \in 1..Len(client.pipeline) : requests[i] = client.pipeline[i].write
  BY <1>8, WritesOfBatches
<1> HIDE DEF requests
<1>10. /\ call \in Call /\ CallOK(call, wire.trailer)
       /\ call.completions = Tail(s)
       /\ call.issued \o call.buffer
            = (client.call.issued \o client.call.buffer) \o requests
  BY <1>5, <1>7, <1>9, EnqueueWritesOK, ZenonT(60)
<1> HIDE DEF call
<1>11. ~client.idle
  BY <1>1, <1>3 DEF Opened
<1>12. idle = FALSE
  BY <1>11
<1> HIDE DEF idle
<1>13. /\ shaken \in Client /\ shaken.pipeline = client.pipeline
       /\ shaken.state = "Open" /\ shaken.handshake /\ shaken.asked = client.asked
  BY <1>2 DEF Client
<1> HIDE DEF shaken
<1>14. /\ marked \in Client /\ marked.pipeline = client.pipeline /\ ~marked.idle
       /\ marked.state = "Open" /\ marked.handshake /\ marked.asked = client.asked
  BY <1>12, <1>13 DEF Client
<1> HIDE DEF marked
<1>15. /\ new \in Client /\ new.pipeline = client.pipeline /\ ~new.idle
       /\ new.state = "Open" /\ new.handshake /\ new.asked = client.asked
       /\ new.call = call
  BY <1>10, <1>14 DEF Client
<1> HIDE DEF new
<1>16. FrontOK(new, queue) /\ Opened(new) /\ WireOK(new, wire)
  BY <1>3, <1>15 DEF FrontOK, Opened, WireOK
<1>17. Answers(client, wire) = 1 /\ Answers(new, wire) = 0
  <2>1. Len(wire.responses) \in Nat
    BY <1>2, <1>3, OutType
  <2>2. Answers(client, wire) = Len(wire.responses) + 1 /\ Answers(client, wire) <= 1
    BY <1>2, <1>3 DEF Answers, Shaking, s
  <2>3. ~Has(new.call.completions, "read")
    BY <1>4, <1>10, <1>15
  <2>4. Answers(new, wire) = Len(wire.responses) + 0
    BY <2>3 DEF Answers
  <2> QED
    BY <2>1, <2>2, <2>4
<1>18. /\ applied = 0 /\ late = <<>> /\ wire.trailer # "permanent"
       /\ wire.trailer = "none" => wire.shaken /\ Len(Out(client, wire)) = 0
  BY <1>3, <1>17 DEF Shaking
<1>19. ASSUME wire.trailer = "none"
       PROVE  /\ Len(Out(new, wire)) = Len(client.pipeline)
              /\ \A i \in 1..Len(client.pipeline) :
                   Out(new, wire)[i] = queue[i].write
  <2> DEFINE more == Out(new, wire)
  <2>1. Len(client.pipeline) \in Nat
    BY <1>8, LenProperties
  <2>2. /\ Len(more) = Len(Out(client, wire)) + Len(requests)
        /\ \A i \in 1..(Len(Out(client, wire)) + Len(requests)) :
             more[i] = IF i <= Len(Out(client, wire)) THEN Out(client, wire)[i]
                       ELSE requests[i - Len(Out(client, wire))]
    BY <1>2, <1>3, <1>9, <1>10, <1>15, OutLonger, ZenonT(60)
  <2>3. Len(Out(client, wire)) = 0
    BY <1>18, <1>19
  <2> HIDE DEF more
  <2>4. /\ Len(more) = Len(client.pipeline)
        /\ \A i \in 1..Len(client.pipeline) : more[i] = requests[i]
    <3>1. 0 + Len(requests) = Len(client.pipeline)
      BY <1>9, <2>1
    <3>2. \A i \in 1..Len(client.pipeline) : ~(i <= 0) /\ i - 0 = i
      BY <2>1
    <3> QED
      BY <2>2, <2>3, <3>1, <3>2
  <2>5. \A i \in 1..Len(client.pipeline) : client.pipeline[i] = queue[i]
    BY <1>3 DEF FrontOK
  <2>6. \A i \in 1..Len(client.pipeline) : more[i] = queue[i].write
    BY <1>9, <2>4, <2>5
  <2> QED
    BY <2>4, <2>6 DEF more
<1>20. Len(client.pipeline) \in Nat /\ Len(late) = 0
  BY <1>8, <1>18, LenProperties, EmptySeq
<1>21. Sending(new, wire, queue, applied, late)
  <2>1. Answers(new, wire) <= applied /\ applied + Len(late) <= Len(new.pipeline)
    BY <1>15, <1>17, <1>18, <1>20
  <2>2. ASSUME wire.trailer = "none"
        PROVE  /\ wire.shaken /\ late = <<>> /\ Answers(new, wire) = applied
               /\ Len(Out(new, wire)) + applied = Len(new.pipeline)
               /\ \A i \in 1..Len(Out(new, wire)) :
                    Out(new, wire)[i] = queue[applied + i].write
    <3>1. \A i \in 1..Len(client.pipeline) : 0 + i = i
      BY <1>20
    <3> QED
      BY <1>15, <1>17, <1>18, <1>19, <1>20, <2>2, <3>1
  <2> QED
    BY <1>18, <2>1, <2>2 DEF Sending
<1>22. Flow(new, wire, queue, applied, late)
  BY <1>15, <1>21 DEF Flow
<1> QED
  BY <1>1, <1>3, <1>6, <1>10, <1>15, <1>16, <1>22, OpenStep

-----------------------------------------------------------------------------
(* Steps of the network and of the server.                                 *)

LEMMA BreakCallStep ==
  ASSUME IInv, BreakCall
  PROVE  IInv'
<1>1. /\ client \in Client /\ wire \in Wire /\ ClientOK(client, queue)
      /\ CallOK(client.call, wire.trailer) /\ WireOK(client, wire)
      /\ Flow(client, wire, queue, applied, late) /\ queue \in Seq(Batch)
      /\ applied \in Nat /\ late \in Seq(Requests)
      /\ LateOK(queue, applied, late, committed)
  BY DEF IInv, TypeOK
<1>2. /\ client.state = "Open" /\ wire.trailer = "none" /\ alive
      /\ UNCHANGED <<alive, calls, handed, queue, nextBatchId, client, applied,
                     committed, outcome>>
  BY DEF BreakCall, IsOpen, disk_vars, IInv
<1>3. FrontOK(client, queue) /\ Opened(client)
  BY <1>1, <1>2 DEF ClientOK
<1>4. PICK m \in 0..Len(wire.requests), n \in 0..Len(wire.responses) :
        /\ wire' = [NoWire EXCEPT !.responses = SubSeq(wire.responses, 1, n),
                                  !.trailer = "transient"]
        /\ late' = IF wire.shaken THEN SubSeq(wire.requests, 1, m) ELSE late
  BY ZenonT(60) DEF BreakCall
<1> DEFINE kept == SubSeq(wire.responses, 1, n)
           w == [NoWire EXCEPT !.responses = kept, !.trailer = "transient"]
<1>5. /\ late' \in Seq(Requests) /\ LateOK(queue, applied, late', committed)
      /\ client.handshake => applied + Len(late') <= Len(client.pipeline)
      /\ wire.shaken /\ ~client.handshake => late' = <<>>
  <2>1. IF wire.shaken
        THEN \E k \in 0..Len(wire.requests) : late' = SubSeq(wire.requests, 1, k)
        ELSE late' = late
    BY <1>4
  <2> QED
    BY <1>1, <1>2, <2>1, AbandonOK
<1>6. kept \in Seq(Requests) /\ Len(kept) = n /\ n \in Nat
      /\ n <= Len(wire.responses) /\ Len(wire.responses) \in Nat
  <2>1. wire.responses \in Seq(Requests) /\ Len(wire.responses) \in Nat
    BY <1>1, OutType
  <2> QED
    BY <2>1, Prefix
<1>7. wire' = w
  BY <1>4
<1> HIDE DEF kept
<1>8. /\ w \in Wire /\ w.responses = kept /\ w.trailer = "transient"
      /\ w.requests = <<>> /\ ~w.shaken
  BY <1>6, EmptySeq DEF NoWire, Wire
<1> HIDE DEF w
<1>9. CallOK(client.call, w.trailer)
  BY <1>1, <1>8 DEF CallOK
<1>10. WireOK(client, w)
  BY <1>2, <1>8 DEF WireOK
<1>11. Answers(client, w) <= Answers(client, wire) /\ Answers(client, w) \in Nat
       /\ Answers(client, wire) \in Nat
  <2>1. CASE Has(client.call.completions, "read")
    <3>1. Answers(client, w) = n + 1 /\ Answers(client, wire) = Len(wire.responses) + 1
      BY <1>6, <1>8, <2>1 DEF Answers
    <3> QED
      BY <1>6, <3>1
  <2>2. CASE ~Has(client.call.completions, "read")
    <3>1. Answers(client, w) = n + 0 /\ Answers(client, wire) = Len(wire.responses) + 0
      BY <1>6, <1>8, <2>2 DEF Answers
    <3> QED
      BY <1>6, <3>1
  <2> QED
    BY <2>1, <2>2
<1>12. ASSUME client.handshake PROVE Sending(client, w, queue, applied, late')
  <2>1. Answers(client, wire) <= applied
    BY <1>1, <1>2, <1>12 DEF Flow, Sending
  <2>2. Answers(client, w) <= applied
    BY <1>1, <1>11, <2>1
  <2> QED
    BY <1>5, <1>8, <1>12, <2>2 DEF Sending
<1>13. ASSUME ~client.handshake PROVE Shaking(client, w, applied, late')
  <2>1. /\ Answers(client, wire) <= 1
        /\ Answers(client, wire) = 1 => applied = 0 /\ wire.shaken
    <3>1. Shaking(client, wire, applied, late)
      BY <1>1, <1>2, <1>13 DEF Flow
    <3> QED
      BY <1>2, <3>1 DEF Shaking
  <2>2. Answers(client, w) <= 1 /\ (Answers(client, w) = 1 => Answers(client, wire) = 1)
    BY <1>11, <2>1
  <2>3. Answers(client, w) = 1 => applied = 0 /\ late' = <<>>
    BY <1>5, <1>13, <2>1, <2>2
  <2> QED
    BY <1>8, <2>2, <2>3 DEF Shaking
<1>14. Flow(client, w, queue, applied, late')
  BY <1>12, <1>13 DEF Flow
<1>15. /\ client' = client /\ applied' = applied /\ committed \subseteq committed'
       /\ committed' = committed
  BY <1>2
<1> QED
  BY <1>1, <1>2, <1>3, <1>5, <1>7, <1>8, <1>9, <1>10, <1>14, <1>15, OpenStep

\* A request leaves the network.
LEMMA OutTail ==
  ASSUME NEW c \in Client, NEW w \in Wire, w.requests # <<>>,
         NEW v \in Wire, v.requests = Tail(w.requests)
  PROVE  /\ Len(Out(c, w)) \in Nat \ {0} /\ Out(c, w)[1] = Head(w.requests)
         /\ Len(Out(c, v)) = Len(Out(c, w)) - 1
         /\ \A i \in 1..(Len(Out(c, w)) - 1) : Out(c, v)[i] = Out(c, w)[i + 1]
<1> DEFINE rest == c.call.issued \o c.call.buffer
           r == w.requests
           t == Tail(r)
<1>1. /\ r \in Seq(Requests) /\ rest \in Seq(Requests) /\ r # <<>>
      /\ Out(c, w) = r \o rest /\ Out(c, v) = t \o rest
  BY OutType, ConcatProperties
<1> HIDE DEF rest, r
<1>2. /\ t \in Seq(Requests) /\ Len(t) = Len(r) - 1 /\ Head(r) = r[1]
      /\ \A i \in 1..Len(t) : t[i] = r[i + 1]
      /\ Len(r) \in Nat \ {0} /\ Len(rest) \in Nat
  BY <1>1, HeadTailProperties, LenProperties, EmptySeq
<1> HIDE DEF t
<1>3. /\ Len(r \o rest) = Len(r) + Len(rest)
      /\ \A i \in 1..(Len(r) + Len(rest)) :
           (r \o rest)[i] = IF i <= Len(r) THEN r[i] ELSE rest[i - Len(r)]
  BY <1>1, ConcatProperties
<1>4. /\ Len(t \o rest) = Len(t) + Len(rest)
      /\ \A i \in 1..(Len(t) + Len(rest)) :
           (t \o rest)[i] = IF i <= Len(t) THEN t[i] ELSE rest[i - Len(t)]
  BY <1>1, <1>2, ConcatProperties
<1>5. Len(r \o rest) \in Nat \ {0} /\ (r \o rest)[1] = Head(r)
      /\ Len(t \o rest) = Len(r \o rest) - 1
  BY <1>2, <1>3, <1>4
<1>6. ASSUME NEW i \in 1..(Len(r \o rest) - 1)
      PROVE  (t \o rest)[i] = (r \o rest)[i + 1]
  <2>1. /\ i \in 1..(Len(t) + Len(rest)) /\ i + 1 \in 1..(Len(r) + Len(rest))
        /\ (i <= Len(t)) <=> (i + 1 <= Len(r))
        /\ i - Len(t) = (i + 1) - Len(r)
    BY <1>2, <1>3
  <2>2. CASE i <= Len(t)
    <3>1. i \in 1..Len(t)
      BY <1>2, <2>1, <2>2
    <3> QED
      BY <1>2, <1>3, <1>4, <2>1, <2>2, <3>1
  <2>3. CASE ~(i <= Len(t))
    BY <1>3, <1>4, <2>1, <2>3
  <2> QED
    BY <2>2, <2>3
<1> QED
  BY <1>1, <1>5, <1>6 DEF r

\* What the server finds to serve.
LEMMA ServingOK ==
  ASSUME IInv, Serving
  PROVE  /\ client.state = "Open" /\ alive
         /\ client \in Client /\ wire \in Wire /\ queue \in Seq(Batch)
         /\ applied \in Nat /\ late \in Seq(Requests) /\ Len(queue) \in Nat
         /\ Len(client.pipeline) \in Nat
         /\ FrontOK(client, queue) /\ Opened(client)
         /\ CallOK(client.call, wire.trailer)
         /\ LateOK(queue, applied, late, committed)
         /\ wire.trailer = "none" /\ wire.requests # <<>>
         /\ wire.requests \in Seq(Requests) /\ Tail(wire.requests) \in Seq(Requests)
         /\ wire.responses \in Seq(Requests)
         /\ Len(Out(client, wire)) \in Nat \ {0}
         /\ Out(client, wire)[1] = Head(wire.requests)
<1>1. /\ client \in Client /\ wire \in Wire /\ queue \in Seq(Batch)
      /\ applied \in Nat /\ late \in Seq(Requests)
      /\ CallOK(client.call, wire.trailer) /\ ClientOK(client, queue)
      /\ LateOK(queue, applied, late, committed) /\ WireOK(client, wire)
  BY DEF IInv, TypeOK
<1>2. wire.trailer = "none" /\ wire.requests # <<>>
  BY DEF Serving
<1>3. client.state = "Open"
  BY <1>1, <1>2 DEF WireOK, NoWire
<1>4. alive
  BY <1>3 DEF IInv
<1>5. /\ wire.requests \in Seq(Requests) /\ wire.responses \in Seq(Requests)
      /\ client.pipeline \in Seq(Batch)
  BY <1>1, OutType DEF Client
<1>6. Tail(wire.requests) \in Seq(Requests)
  BY <1>2, <1>5, HeadTailProperties
<1>7. Len(queue) \in Nat /\ Len(client.pipeline) \in Nat
  BY <1>1, <1>5, LenProperties
<1>8. Len(Out(client, wire)) \in Nat \ {0} /\ Out(client, wire)[1] = Head(wire.requests)
  <2> DEFINE v == [wire EXCEPT !.requests = Tail(wire.requests)]
  <2>1. v \in Wire /\ v.requests = Tail(wire.requests)
    BY <1>1, <1>6 DEF Wire
  <2> HIDE DEF v
  <2> QED
    BY <1>1, <1>2, <2>1, OutTail
<1> QED
  BY <1>1, <1>2, <1>3, <1>4, <1>5, <1>6, <1>7, <1>8 DEF ClientOK

\* The server answers a request.
LEMMA AnsweredOK ==
  ASSUME NEW c \in Client, NEW w \in Wire, NEW v \in Wire, NEW x \in Requests,
         v.responses = Append(w.responses, x)
  PROVE  Answers(c, v) = Answers(c, w) + 1 /\ Answers(c, w) \in Nat
<1>1. /\ Len(v.responses) = Len(w.responses) + 1 /\ Len(w.responses) \in Nat
      /\ Answers(c, w) \in Nat
  <2>1. w.responses \in Seq(Requests) /\ Answers(c, w) \in Nat /\ Len(w.responses) \in Nat
    BY OutType
  <2>2. \A s \in Seq(Requests) : Len(Append(s, x)) = Len(s) + 1
    BY AppendProperties
  <2> QED
    BY <2>1, <2>2
<1>2. CASE Has(c.call.completions, "read")
  <2>1. /\ Answers(c, v) = Len(v.responses) + 1
        /\ Answers(c, w) = Len(w.responses) + 1
    BY <1>2 DEF Answers
  <2> QED
    BY <1>1, <2>1
<1>3. CASE ~Has(c.call.completions, "read")
  <2>1. /\ Answers(c, v) = Len(v.responses) + 0
        /\ Answers(c, w) = Len(w.responses) + 0
    BY <1>3 DEF Answers
  <2> QED
    BY <1>1, <2>1
<1> QED
  BY <1>1, <1>2, <1>3

LEMMA ServeHandshakeStep ==
  ASSUME IInv, ServeHandshake
  PROVE  IInv'
<1> DEFINE one == [wire EXCEPT !.requests = Tail(wire.requests)]
           two == [one EXCEPT !.shaken = TRUE]
           w == [two EXCEPT !.responses = Append(wire.responses, Handshake)]
<1>1. /\ Serving /\ Head(wire.requests) = Handshake /\ late' = <<>> /\ applied' = 0
      /\ UNCHANGED <<alive, calls, handed, queue, nextBatchId, client, committed,
                     outcome>>
      /\ wire' = [wire EXCEPT !.requests = Tail(@), !.shaken = TRUE,
                              !.responses = Append(@, Handshake)]
  BY DEF ServeHandshake, disk_vars, history_vars
<1>2. /\ client.state = "Open" /\ alive /\ client \in Client /\ wire \in Wire
      /\ queue \in Seq(Batch) /\ Len(queue) \in Nat /\ applied \in Nat
      /\ FrontOK(client, queue) /\ Opened(client)
      /\ CallOK(client.call, wire.trailer)
      /\ wire.trailer = "none" /\ wire.requests # <<>>
      /\ Tail(wire.requests) \in Seq(Requests) /\ wire.responses \in Seq(Requests)
      /\ Len(Out(client, wire)) \in Nat \ {0}
      /\ Out(client, wire)[1] = Handshake /\ Len(client.pipeline) \in Nat
  BY <1>1, ServingOK
<1>3. wire' = w
  BY <1>1, <1>2 DEF Wire
<1>4. Handshake \in Requests /\ Append(wire.responses, Handshake) \in Seq(Requests)
  BY <1>2, AppendProperties DEF Requests
<1>5. /\ one \in Wire /\ one.requests = Tail(wire.requests)
      /\ one.trailer = "none"
  BY <1>2 DEF Wire
<1> HIDE DEF one
<1>6. /\ two \in Wire /\ two.requests = Tail(wire.requests) /\ two.shaken
      /\ two.trailer = "none"
  BY <1>5 DEF Wire
<1> HIDE DEF two
<1>7. /\ w \in Wire /\ w.requests = Tail(wire.requests) /\ w.shaken
      /\ w.trailer = "none" /\ w.responses = Append(wire.responses, Handshake)
  BY <1>4, <1>6 DEF Wire
<1> HIDE DEF w
<1>8. ~client.handshake
  <2> SUFFICES ASSUME client.handshake PROVE FALSE
    OBVIOUS
  <2> DEFINE out == Out(client, wire)
  <2>1. /\ Len(out) + applied = Len(client.pipeline)
        /\ \A i \in 1..Len(out) : out[i] = queue[applied + i].write
    BY <1>2 DEF IInv, Flow, Sending
  <2>2. Len(client.pipeline) <= Len(queue)
    BY <1>2 DEF FrontOK
  <2>3. Len(out) \in Nat \ {0} /\ out[1] = Handshake
    BY <1>2
  <2> HIDE DEF out
  <2>4. 1 \in 1..Len(out) /\ applied + 1 \in 1..Len(queue)
    BY <1>2, <2>1, <2>2, <2>3
  <2>5. queue[applied + 1].write \in Writes /\ queue[applied + 1].write = Handshake
    <3>1. queue[applied + 1] \in Batch
      BY <1>2, <2>4, ElementOfSeq
    <3> QED
      BY <2>1, <2>3, <2>4, <3>1 DEF Batch
  <2> QED
    BY <2>5 DEF Writes, Handshake
<1>9. Answers(client, wire) = 0 /\ Len(Out(client, wire)) = 1
  <2>1. Shaking(client, wire, applied, late)
    BY <1>2, <1>8 DEF IInv, Flow
  <2>2. ~wire.shaken
    BY <1>2, <2>1 DEF Shaking
  <2> QED
    BY <1>2, <2>1, <2>2 DEF Shaking
<1>10. Answers(client, w) = 1
  BY <1>2, <1>4, <1>7, <1>9, AnsweredOK, SMTT(60)
<1>11. Len(Out(client, w)) = 0
  <2>1. Len(Out(client, w)) = Len(Out(client, wire)) - 1
    BY <1>2, <1>7, OutTail
  <2> QED
    BY <1>9, <2>1
<1>12. Flow(client, w, queue, 0, <<>>)
  BY <1>7, <1>8, <1>10, <1>11 DEF Flow, Shaking
<1>13. WireOK(client, w)
  BY <1>2, <1>7 DEF WireOK
<1>14. LateOK(queue, 0, <<>>, committed) /\ <<>> \in Seq(Requests)
  BY <1>2, EmptySeq DEF LateOK
<1>15. /\ client' = client /\ committed' = committed
  BY <1>1
<1> QED
  BY <1>1, <1>2, <1>3, <1>7, <1>12, <1>13, <1>14, <1>15, OpenStep

\* A write that is served is the first of the queue the server has not applied.
LEMMA ServingWrite ==
  ASSUME IInv, Serving, Head(wire.requests) \in Writes
  PROVE  /\ client.handshake /\ wire.shaken /\ late = <<>>
         /\ Answers(client, wire) = applied
         /\ Len(Out(client, wire)) + applied = Len(client.pipeline)
         /\ \A i \in 1..Len(Out(client, wire)) :
              Out(client, wire)[i] = queue[applied + i].write
         /\ queue[applied + 1].write = Head(wire.requests)
         /\ applied < Len(client.pipeline) /\ Len(client.pipeline) <= Len(queue)
<1>1. /\ client.state = "Open" /\ FrontOK(client, queue)
      /\ wire.trailer = "none" /\ applied \in Nat
      /\ Len(Out(client, wire)) \in Nat \ {0} /\ Len(client.pipeline) \in Nat
      /\ Out(client, wire)[1] = Head(wire.requests)
  BY ServingOK
<1>2. client.handshake
  <2> SUFFICES ASSUME ~client.handshake PROVE FALSE
    OBVIOUS
  <2>1. Shaking(client, wire, applied, late)
    BY <1>1 DEF IInv, Flow
  <2>2. Out(client, wire)[1] = Handshake
    BY <1>1, <2>1 DEF Shaking
  <2>3. Handshake \in Writes
    BY <1>1, <2>2
  <2> QED
    BY <2>3 DEF Writes, Handshake
<1>3. /\ wire.shaken /\ late = <<>> /\ Answers(client, wire) = applied
      /\ Len(Out(client, wire)) + applied = Len(client.pipeline)
      /\ \A i \in 1..Len(Out(client, wire)) :
           Out(client, wire)[i] = queue[applied + i].write
  BY <1>1, <1>2 DEF IInv, Flow, Sending
<1>4. applied < Len(client.pipeline) /\ 1 \in 1..Len(Out(client, wire))
  BY <1>1, <1>3
<1>5. Len(client.pipeline) <= Len(queue)
  BY <1>1 DEF FrontOK
<1> QED
  BY <1>1, <1>2, <1>3, <1>4, <1>5

LEMMA ServeWriteStep ==
  ASSUME IInv, ServeWrite
  PROVE  IInv'
<1> DEFINE x == Head(wire.requests)
           one == [wire EXCEPT !.requests = Tail(wire.requests)]
           w == [one EXCEPT !.responses = Append(wire.responses, x)]
           out == Out(client, wire)
           more == Out(client, w)
<1>1. /\ Serving /\ x \in Writes \ Denied
      /\ applied' = applied + 1 /\ committed' = committed \cup {x}
      /\ UNCHANGED <<alive, calls, handed, queue, nextBatchId, client, late, outcome>>
      /\ wire' = [wire EXCEPT !.requests = Tail(@), !.responses = Append(@, x)]
  BY DEF ServeWrite, Apply, disk_vars, history_vars
<1>2. /\ client.state = "Open" /\ alive /\ client \in Client /\ wire \in Wire
      /\ queue \in Seq(Batch) /\ Len(queue) \in Nat /\ applied \in Nat
      /\ late \in Seq(Requests) /\ LateOK(queue, applied, late, committed)
      /\ FrontOK(client, queue) /\ Opened(client)
      /\ CallOK(client.call, wire.trailer)
      /\ wire.trailer = "none" /\ wire.requests # <<>>
      /\ Tail(wire.requests) \in Seq(Requests) /\ wire.responses \in Seq(Requests)
      /\ Len(client.pipeline) \in Nat
  BY <1>1, ServingOK
<1>3. /\ client.handshake /\ wire.shaken /\ late = <<>>
      /\ Answers(client, wire) = applied
      /\ Len(out) + applied = Len(client.pipeline)
      /\ \A i \in 1..Len(out) : out[i] = queue[applied + i].write
      /\ queue[applied + 1].write = x
      /\ applied < Len(client.pipeline) /\ Len(client.pipeline) <= Len(queue)
  BY <1>1, ServingWrite
<1>4. wire' = w
  BY <1>1, <1>2 DEF Wire
<1>5. x \in Requests /\ Append(wire.responses, x) \in Seq(Requests)
  <2>1. x \in Requests
    BY <1>1 DEF Requests
  <2> QED
    BY <1>2, <2>1, AppendProperties
<1> HIDE DEF x
<1>6. /\ one \in Wire /\ one.requests = Tail(wire.requests)
      /\ one.trailer = "none" /\ one.shaken
  BY <1>2, <1>3 DEF Wire
<1> HIDE DEF one
<1>7. /\ w \in Wire /\ w.requests = Tail(wire.requests) /\ w.shaken
      /\ w.trailer = "none" /\ w.responses = Append(wire.responses, x)
  BY <1>5, <1>6 DEF Wire
<1> HIDE DEF w
<1>8. Answers(client, w) = applied + 1
  BY <1>2, <1>3, <1>5, <1>7, AnsweredOK
<1>9. /\ Len(out) \in Nat \ {0} /\ Len(more) = Len(out) - 1
      /\ \A i \in 1..(Len(out) - 1) : more[i] = out[i + 1]
  BY <1>2, <1>7, OutTail
<1> HIDE DEF out, more
<1>10. Len(more) + (applied + 1) = Len(client.pipeline)
       /\ (applied + 1) + 0 <= Len(client.pipeline)
  <2>1. /\ Len(out) + applied = Len(client.pipeline) /\ Len(more) = Len(out) - 1
        /\ Len(out) \in Nat \ {0} /\ applied \in Nat
    BY <1>2, <1>3, <1>9
  <2> QED
    BY <2>1
<1>11. ASSUME NEW i \in 1..Len(more) PROVE more[i] = queue[(applied + 1) + i].write
  <2>1. /\ i \in 1..(Len(out) - 1) /\ i + 1 \in 1..Len(out)
        /\ applied + (i + 1) = (applied + 1) + i
    BY <1>2, <1>9
  <2> QED
    BY <1>3, <1>9, <2>1
<1>12. Len(late) = 0
  BY <1>3, EmptySeq
<1>13. Sending(client, w, queue, applied + 1, late)
  <2>1. Answers(client, w) <= applied + 1
    BY <1>2, <1>8
  <2> QED
    BY <1>3, <1>7, <1>8, <1>10, <1>11, <1>12, <2>1 DEF Sending, more
<1>14. Flow(client, w, queue, applied + 1, late)
  BY <1>3, <1>13 DEF Flow
<1>15. WireOK(client, w)
  BY <1>2, <1>7 DEF WireOK
<1>16. LateOK(queue, applied + 1, late, committed')
  <2>1. (applied + 1) + Len(late) <= Len(queue)
    BY <1>2, <1>3, <1>10, <1>12
  <2>2. ASSUME NEW i \in 1..(applied + 1) PROVE queue[i].write \in committed'
    <3>1. i \in 1..applied \/ i = applied + 1
      BY <1>2
    <3>2. \A k \in 1..applied : queue[k].write \in committed
      BY <1>2 DEF LateOK
    <3> QED
      BY <1>1, <1>3, <3>1, <3>2
  <2>3. \A i \in 1..Len(late) : late[i] = queue[(applied + 1) + i].write
    BY <1>12
  <2> QED
    BY <2>1, <2>2, <2>3 DEF LateOK
<1>17. /\ client' = client /\ committed \subseteq committed' /\ applied + 1 \in Nat
       /\ late' = late
  BY <1>1, <1>2
<1> QED
  BY <1>1, <1>2, <1>4, <1>7, <1>14, <1>15, <1>16, <1>17, OpenStep

LEMMA RefuseWriteStep ==
  ASSUME IInv, RefuseWrite
  PROVE  IInv'
<1> DEFINE x == Head(wire.requests)
           w == [NoWire EXCEPT !.responses = wire.responses, !.trailer = "permanent"]
<1>1. /\ Serving /\ x \in Denied /\ wire' = w
      /\ UNCHANGED <<alive, calls, handed, queue, nextBatchId, client, late, applied,
                     committed, outcome>>
  BY DEF RefuseWrite, disk_vars, server_vars, history_vars
<1>2. /\ client.state = "Open" /\ alive /\ client \in Client /\ wire \in Wire
      /\ queue \in Seq(Batch) /\ applied \in Nat
      /\ late \in Seq(Requests) /\ LateOK(queue, applied, late, committed)
      /\ FrontOK(client, queue) /\ Opened(client)
      /\ CallOK(client.call, wire.trailer) /\ wire.responses \in Seq(Requests)
      /\ Len(client.pipeline) \in Nat
  BY <1>1, ServingOK
<1>3. x \in Writes
  BY <1>1, ConstantsAssumption
<1>4. /\ client.handshake /\ late = <<>> /\ Answers(client, wire) = applied
      /\ queue[applied + 1].write = x /\ applied < Len(client.pipeline)
  BY <1>1, <1>3, ServingWrite
<1> HIDE DEF x
<1>5. /\ w \in Wire /\ w.responses = wire.responses /\ w.trailer = "permanent"
      /\ w.requests = <<>> /\ ~w.shaken
  BY <1>2, EmptySeq DEF NoWire, Wire
<1> HIDE DEF w
<1>6. CallOK(client.call, w.trailer)
  BY <1>2, <1>5 DEF CallOK
<1>7. WireOK(client, w)
  BY <1>2, <1>5 DEF WireOK
<1>8. Answers(client, w) = applied
  BY <1>4, <1>5 DEF Answers
<1>9. Len(late) = 0
  BY <1>4, EmptySeq
<1>10. Answers(client, w) <= applied /\ applied + Len(late) <= Len(client.pipeline)
  BY <1>2, <1>4, <1>8, <1>9
<1>11. Sending(client, w, queue, applied, late)
  BY <1>1, <1>4, <1>5, <1>10 DEF Sending
<1>12. Flow(client, w, queue, applied, late)
  BY <1>4, <1>11 DEF Flow
<1>13. client' = client /\ committed' = committed /\ late' = late /\ applied' = applied
  BY <1>1
<1> QED
  BY <1>1, <1>2, <1>5, <1>6, <1>7, <1>12, <1>13, OpenStep

LEMMA ServeLateStep ==
  ASSUME IInv, ServeLate
  PROVE  IInv'
<1>1. /\ client \in Client /\ wire \in Wire /\ queue \in Seq(Batch)
      /\ Flow(client, wire, queue, applied, late)
      /\ applied \in Nat /\ late \in Seq(Requests)
      /\ LateOK(queue, applied, late, committed)
  BY DEF IInv, TypeOK
<1>2. /\ late # <<>>
      /\ UNCHANGED <<alive, calls, handed, queue, nextBatchId, client, wire, outcome>>
  BY DEF ServeLate, disk_vars, history_vars
<1>3. /\ Tail(late) \in Seq(Requests) /\ Len(Tail(late)) = Len(late) - 1
      /\ \A i \in 1..Len(Tail(late)) : Tail(late)[i] = late[i + 1]
      /\ Head(late) = late[1] /\ Len(late) \in Nat \ {0}
  BY <1>1, <1>2, HeadTailProperties, LenProperties, EmptySeq
<1>4. /\ applied + Len(late) <= Len(queue) /\ Len(queue) \in Nat
      /\ \A i \in 1..applied : queue[i].write \in committed
      /\ \A i \in 1..Len(late) : late[i] = queue[applied + i].write
  BY <1>1, LenProperties DEF LateOK
<1>5. CASE /\ applied' = applied + 1 /\ committed' = committed \cup {Head(late)}
           /\ late' = Tail(late)
  <2> DEFINE t == Tail(late)
             a == applied + 1
  <2>1. LateOK(queue, a, t, committed')
    <3>1. a + Len(t) <= Len(queue)
      BY <1>1, <1>3, <1>4
    <3>2. ASSUME NEW i \in 1..a PROVE queue[i].write \in committed'
      <4>1. i \in 1..applied \/ i = applied + 1
        BY <1>1
      <4>2. 1 \in 1..Len(late) /\ Head(late) = queue[applied + 1].write
        BY <1>3, <1>4
      <4> QED
        BY <1>4, <1>5, <4>1, <4>2
    <3>3. ASSUME NEW i \in 1..Len(t) PROVE t[i] = queue[a + i].write
      <4>1. i + 1 \in 1..Len(late) /\ applied + (i + 1) = a + i
        BY <1>1, <1>3
      <4> QED
        BY <1>3, <1>4, <4>1
    <3> QED
      BY <3>1, <3>2, <3>3 DEF LateOK
  <2>2. Flow(client, wire, queue, a, t)
    <3> SUFFICES ASSUME client.state = "Open"
                 PROVE  IF client.handshake THEN Sending(client, wire, queue, a, t)
                                            ELSE Shaking(client, wire, a, t)
      BY DEF Flow
    <3>1. CASE client.handshake
      <4>1. Sending(client, wire, queue, applied, late)
        BY <1>1, <3>1 DEF Flow
      <4>2. wire.trailer # "none" /\ wire.trailer # "permanent"
        BY <1>2, <4>1 DEF Sending
      <4>3. /\ Answers(client, wire) <= applied /\ Answers(client, wire) \in Nat
            /\ applied + Len(late) <= Len(client.pipeline)
            /\ Len(client.pipeline) \in Nat
        <5>1. client.pipeline \in Seq(Batch)
          BY <1>1 DEF Client
        <5> QED
          BY <1>1, <4>1, <5>1, OutType, LenProperties DEF Sending
      <4>4. Answers(client, wire) <= a /\ a + Len(t) <= Len(client.pipeline)
        BY <1>1, <1>3, <4>3
      <4> QED
        BY <3>1, <4>2, <4>4 DEF Sending
    <3>2. CASE ~client.handshake
      <4>1. Shaking(client, wire, applied, late)
        BY <1>1, <3>2 DEF Flow
      <4>2. Answers(client, wire) # 1
        BY <1>2, <4>1 DEF Shaking
      <4> QED
        BY <3>2, <4>1, <4>2 DEF Shaking
    <3> QED
      BY <3>1, <3>2
  <2> HIDE DEF t, a
  <2>3. late' = t /\ applied' = a /\ t \in Seq(Requests) /\ a \in Nat
    BY <1>1, <1>3, <1>5 DEF t, a
  <2>4. TypeOK'
    BY <1>2, <2>3 DEF IInv, TypeOK
  <2> QED
    BY <1>2, <1>5, <2>1, <2>2, <2>3, <2>4 DEF IInv, DoneIsCommitted
<1>6. CASE late' = <<>> /\ UNCHANGED <<applied, committed>>
  <2>1. LateOK(queue, applied, <<>>, committed) /\ Len(<<>>) = 0
    BY <1>1, <1>3, <1>4 DEF LateOK
  <2>2. Flow(client, wire, queue, applied, <<>>)
    <3>1. Len(late) \in Nat /\ Len(client.pipeline) \in Nat
      BY <1>1, LenProperties DEF Client
    <3>2. Sending(client, wire, queue, applied, late) =>
            Sending(client, wire, queue, applied, <<>>)
      BY <1>1, <2>1, <3>1 DEF Sending
    <3>3. Shaking(client, wire, applied, late) => Shaking(client, wire, applied, <<>>)
      BY DEF Shaking
    <3> QED
      BY <1>1, <3>2, <3>3 DEF Flow
  <2>3. TypeOK'
    BY <1>2, <1>6, EmptySeq DEF IInv, TypeOK
  <2> QED
    BY <1>2, <1>6, <2>1, <2>2, <2>3 DEF IInv, DoneIsCommitted
<1> QED
  BY <1>5, <1>6 DEF ServeLate, Apply

-----------------------------------------------------------------------------
(* The invariant.                                                          *)

LEMMA InitInv == Init => IInv
<1> SUFFICES ASSUME Init PROVE IInv
  OBVIOUS
<1>1. /\ calls = 0 /\ handed = <<>> /\ queue = <<>> /\ client = NewClient
      /\ nextBatchId = 1 /\ wire = NoWire /\ late = <<>> /\ applied = 0
      /\ outcome = [w \in Writes |-> "none"] /\ committed = {}
  BY DEF Init
<1>2. queue \in Seq(Batch) /\ handed \in Seq(Writes) /\ late \in Seq(Requests)
  BY <1>1, EmptySeq
<1>3. /\ client \in Client /\ FrontOK(client, queue) /\ Shut(client)
      /\ ~client.handshake
  BY <1>1, <1>2, NewClientOK
<1>4. ClientOK(client, queue) /\ client.state # "Open" /\ client.call = NoCall
  BY <1>3 DEF ClientOK, Shut
<1>5. wire \in Wire /\ ~wire.shaken /\ wire.requests = <<>>
  BY <1>1, EmptySeq DEF NoWire, Wire
<1>6. WireOK(client, wire) /\ Flow(client, wire, queue, applied, late)
      /\ CallOK(client.call, wire.trailer)
  BY <1>1, <1>4, <1>5, NoCallOK DEF WireOK, Flow
<1>7. LateOK(queue, applied, late, committed)
  BY <1>1 DEF LateOK
<1>8. InOrder(queue, nextBatchId)
  BY <1>1 DEF InOrder
<1>9. calls \in 0..MaxWrites /\ applied \in Nat
  BY <1>1, ConstantsAssumption
<1>10. outcome \in [Writes -> {"none", "acknowledged", "rejected"}] /\ DoneIsCommitted
  BY <1>1 DEF DoneIsCommitted
<1> QED
  BY <1>2, <1>3, <1>4, <1>5, <1>6, <1>7, <1>8, <1>9, <1>10 DEF IInv, TypeOK

LEMMA InvStep == IInv /\ [Next]_vars => IInv'
<1> SUFFICES ASSUME IInv, [Next]_vars PROVE IInv'
  OBVIOUS
<1>1. CASE Worker
  BY <1>1, WriteMutationsStep, ReceiveTokenStep, ReceiveStaleTokenStep,
     BackoffElapsedStep, OnWriteStreamHandshakeCompleteStep,
     OnWriteStreamMutationResultStep, OnWriteStep, OnOperationFailedStep, StopStep,
     HandleWriteErrorStep, InitializeStep DEF Worker
<1>2. CASE Grpc
  BY <1>2, WriteSucceedsStep, WriteFailsStep, ReadSucceedsStep, ReadFailsStep DEF Grpc
<1>3. CASE Server
  BY <1>3, ServeHandshakeStep, ServeWriteStep, RefuseWriteStep, ServeLateStep
     DEF Server
<1>4. CASE Environment
  BY <1>4, SetDataStep, FailTokenStep, StopStep, RestartNetworkStep, BreakCallStep,
     EndProcessStep DEF Environment
<1>5. CASE UNCHANGED vars
  BY <1>5 DEF vars, disk_vars, server_vars, history_vars, IInv, TypeOK,
              DoneIsCommitted
<1> QED
  BY <1>1, <1>2, <1>3, <1>4, <1>5 DEF Next

\* The invariant of the write path.
LEMMA Invariance == Spec => []IInv
BY InitInv, InvStep, PTL DEF Spec

-----------------------------------------------------------------------------
(* Theorems.                                                               *)

\* Whatever happens to the connection and to the process, a write is only
\* reported as done when the server has applied it: responses are paired with
\* the pipeline by position alone (OnWriteStreamMutationResult:432-450,
\* NotifyStreamClose:112-117).
THEOREM DoneMeansCommitted == Spec => []DoneIsCommitted
<1>1. IInv => DoneIsCommitted
  BY DEF IInv
<1> QED
  BY <1>1, Invariance, PTL

\* No assertion of the write path fails: results find a write in the pipeline,
\* only an idle stream is stopped for idleness, a token finds the stream that
\* asked for it starting, and the pipeline is the front of the queue on disk
\* (remote_store.cc:437 and 456, stream.cc:130 and 173,
\* leveldb_mutation_queue.cc:196-202).
THEOREM AssertionsHold == Spec => []HardAssertsHold
<1>1. IInv => HardAssertsHold
  <2> SUFFICES ASSUME IInv PROVE HardAssertsHold
    OBVIOUS
  <2>1. /\ client \in Client /\ queue \in Seq(Batch) /\ ClientOK(client, queue)
    BY DEF IInv, TypeOK
  <2>2. FrontOK(client, queue)
    BY <2>1 DEF ClientOK
  <2>3. Completes("read") /\ client.handshake => client.pipeline # <<>>
    BY ReadMeansApplied
  <2>4. client.idle => IsOpen(client) /\ client.pipeline = <<>>
    BY <2>1 DEF ClientOK, Opened, Shut, IsOpen
  <2>5. client.asked = (IF client.state = "Starting" THEN 1 ELSE 0)
    BY <2>1 DEF ClientOK, Opened, Shut
  <2>6. client.handshake => IsOpen(client)
    BY <2>1 DEF ClientOK, IsOpen
  <2>7. client.pipeline = SubSeq(queue, 1, Len(client.pipeline))
    <3> DEFINE p == client.pipeline
    <3>1. p \in Seq(Batch)
      BY <2>1 DEF Client
    <3>2. Len(p) <= Len(queue) /\ \A i \in 1..Len(p) : p[i] = queue[i]
      BY <2>2 DEF FrontOK
    <3> HIDE DEF p
    <3>3. Len(p) \in 0..Len(queue)
      BY <2>1, <3>1, <3>2, LenProperties
    <3> DEFINE front == SubSeq(queue, 1, Len(p))
    <3>4. /\ front \in Seq(Batch) /\ Len(front) = Len(p)
          /\ \A i \in 1..Len(p) : front[i] = queue[i]
      BY <2>1, <3>3, Prefix
    <3> HIDE DEF front
    <3>5. Len(p) = Len(front) /\ \A i \in 1..Len(p) : p[i] = front[i]
      BY <3>2, <3>4
    <3>6. p = front
      BY <3>1, <3>4, <3>5, SeqEqual
    <3> QED
      BY <3>6 DEF p, front
  <2>8. Len(client.pipeline) <= MaxPendingWrites
    BY <2>2 DEF FrontOK
  <2> QED
    BY <2>3, <2>4, <2>5, <2>6, <2>7, <2>8 DEF HardAssertsHold
<1> QED
  BY <1>1, Invariance, PTL

-----------------------------------------------------------------------------
(* The queue as WriteQueue sees it.                                        *)

LEMMA WritesAppend ==
  ASSUME NEW q \in Seq(Batch), NEW b \in Batch
  PROVE  WritesOf(Append(q, b)) = Append(WritesOf(q), b.write)
<1> DEFINE r == Append(q, b)
           s == WritesOf(q)
           t == WritesOf(r)
           u == Append(s, b.write)
<1>1. /\ r \in Seq(Batch) /\ Len(r) = Len(q) + 1 /\ Len(q) \in Nat
      /\ \A i \in 1..Len(q) : r[i] = q[i]
      /\ r[Len(q) + 1] = b
  BY AppendProperties, LenProperties
<1> HIDE DEF r
<1>2. s \in Seq(Requests) /\ Len(s) = Len(q) /\ \A i \in 1..Len(q) : s[i] = q[i].write
  BY WritesOfBatches
<1>3. t \in Seq(Requests) /\ Len(t) = Len(r) /\ \A i \in 1..Len(r) : t[i] = r[i].write
  BY <1>1, WritesOfBatches
<1> HIDE DEF s, t
<1>4. b.write \in Requests
  BY DEF Batch, Requests
<1>5. /\ u \in Seq(Requests) /\ Len(u) = Len(s) + 1
      /\ \A i \in 1..Len(s) : u[i] = s[i]
      /\ u[Len(s) + 1] = b.write
  BY <1>2, <1>4, AppendProperties
<1> HIDE DEF u
<1>6. Len(t) = Len(u)
  BY <1>1, <1>2, <1>3, <1>5
<1>7. ASSUME NEW i \in 1..Len(t) PROVE t[i] = u[i]
  <2>1. i \in 1..Len(q) \/ i = Len(q) + 1
    BY <1>1, <1>3
  <2>2. t[i] = r[i].write
    BY <1>3
  <2> QED
    BY <1>1, <1>2, <1>5, <2>1, <2>2
<1>8. t = u
  BY <1>3, <1>5, <1>6, <1>7, SeqEqual
<1> QED
  BY <1>8 DEF r, s, t, u

LEMMA WritesTail ==
  ASSUME NEW q \in Seq(Batch), q # <<>>
  PROVE  /\ WritesOf(Tail(q)) = Tail(WritesOf(q)) /\ WritesOf(q) # <<>>
         /\ Head(WritesOf(q)) = q[1].write
<1> DEFINE r == Tail(q)
           s == WritesOf(q)
           t == WritesOf(r)
           u == Tail(s)
<1>1. /\ r \in Seq(Batch) /\ Len(r) = Len(q) - 1 /\ Len(q) \in Nat \ {0}
      /\ \A i \in 1..Len(r) : r[i] = q[i + 1]
  BY HeadTailProperties, EmptySeq
<1> HIDE DEF r
<1>2. s \in Seq(Requests) /\ Len(s) = Len(q) /\ \A i \in 1..Len(q) : s[i] = q[i].write
  BY WritesOfBatches
<1>3. t \in Seq(Requests) /\ Len(t) = Len(r) /\ \A i \in 1..Len(r) : t[i] = r[i].write
  BY <1>1, WritesOfBatches
<1> HIDE DEF s, t
<1>4. s # <<>>
  BY <1>1, <1>2, EmptySeq
<1>5. /\ u \in Seq(Requests) /\ Len(u) = Len(s) - 1
      /\ \A i \in 1..Len(u) : u[i] = s[i + 1]
      /\ Head(s) = s[1]
  BY <1>2, <1>4, HeadTailProperties
<1> HIDE DEF u
<1>6. Len(t) = Len(u)
  BY <1>1, <1>2, <1>3, <1>5
<1>7. ASSUME NEW i \in 1..Len(t) PROVE t[i] = u[i]
  <2>1. i \in 1..Len(r) /\ i \in 1..Len(u) /\ i + 1 \in 1..Len(q)
    BY <1>1, <1>3, <1>6
  <2> QED
    BY <1>1, <1>2, <1>3, <1>5, <2>1
<1>8. t = u
  BY <1>3, <1>5, <1>6, <1>7, SeqEqual
<1>9. Head(s) = q[1].write
  BY <1>1, <1>2, <1>5
<1> QED
  BY <1>4, <1>8, <1>9 DEF r, s, t, u

LEMMA SubmitStep ==
  ASSUME IInv, WriteMutations
  PROVE  \E p \in Writes : Queue!Submit(p)
<1> DEFINE b == [id |-> nextBatchId, write |-> Head(handed)]
<1>1. /\ queue' = Append(queue, b) /\ UNCHANGED <<applied, store>>
      /\ handed \in Seq(Writes) /\ handed # <<>> /\ queue \in Seq(Batch)
      /\ nextBatchId \in Nat
  BY DEF WriteMutations, server_vars, IInv, TypeOK, InOrder
<1>2. Head(handed) \in Writes
  BY <1>1, HeadTailProperties
<1>3. b \in Batch /\ b.write = Head(handed)
  BY <1>1, <1>2 DEF Batch
<1> HIDE DEF b
<1>4. WritesOf(queue') = Append(WritesOf(queue), Head(handed))
  BY <1>1, <1>3, WritesAppend
<1>5. \E p \in Writes : /\ WritesOf(queue') = Append(WritesOf(queue), p)
                         /\ UNCHANGED <<applied, store>>
  BY <1>1, <1>2, <1>4
<1> QED
  BY <1>5 DEF Queue!Submit, WritesOf

\* The batch that is resolved is the first of the queue.
LEMMA FirstOfOpen ==
  ASSUME IInv, client.state = "Open", client.pipeline # <<>>,
         queue' = Without(queue, Head(client.pipeline))
  PROVE  /\ queue # <<>> /\ queue' = Tail(queue)
         /\ Head(client.pipeline) = queue[1]
<1>1. /\ client \in Client /\ queue \in Seq(Batch) /\ InOrder(queue, nextBatchId)
      /\ FrontOK(client, queue)
  BY DEF IInv, TypeOK, ClientOK
<1> DEFINE d == [pipeline |-> Tail(client.pipeline)]
<1>2. d.pipeline = Tail(client.pipeline)
  OBVIOUS
<1> HIDE DEF d
<1>3. /\ Len(queue) \in Nat \ {0} /\ Head(client.pipeline) = queue[1]
      /\ Without(queue, Head(client.pipeline)) = Tail(queue)
  BY <1>1, <1>2, FirstOut
<1> QED
  BY <1>1, <1>3, EmptySeq

LEMMA AcknowledgeStep ==
  ASSUME IInv, OnWriteStreamMutationResult
  PROVE  Queue!Acknowledge
<1>1. /\ Completes("read") /\ client.handshake /\ UNCHANGED store
      /\ queue' = Without(queue, Head(client.pipeline))
      /\ applied' = IF applied > 0 THEN applied - 1 ELSE 0
  BY DEF OnWriteStreamMutationResult, server_vars
<1>2. client.state = "Open" /\ applied > 0 /\ client.pipeline # <<>>
  BY <1>1, ReadMeansApplied
<1>3. /\ client \in Client /\ queue \in Seq(Batch) /\ InOrder(queue, nextBatchId)
      /\ FrontOK(client, queue)
  BY <1>2 DEF IInv, TypeOK, ClientOK
<1>4. queue' = Tail(queue) /\ queue # <<>>
  BY <1>1, <1>2, FirstOfOpen
<1>5. WritesOf(queue') = Tail(WritesOf(queue))
  BY <1>3, <1>4, WritesTail
<1> QED
  BY <1>1, <1>2, <1>5 DEF Queue!Acknowledge, WritesOf

LEMMA RejectStep ==
  ASSUME IInv, HandleWriteError
  PROVE  Queue!Acknowledge \/ Queue!Reject
<1>1. /\ Completes("finish") /\ wire.trailer = "permanent" /\ client.handshake
      /\ client.pipeline # <<>> /\ UNCHANGED store
      /\ queue' = Without(queue, Head(client.pipeline))
      /\ applied' = IF applied > 0 THEN applied - 1 ELSE 0
  BY DEF HandleWriteError
<1>2. client.state = "Open"
  BY <1>1, RestOK
<1>3. /\ client \in Client /\ queue \in Seq(Batch) /\ InOrder(queue, nextBatchId)
      /\ FrontOK(client, queue) /\ applied \in Nat
  BY <1>2 DEF IInv, TypeOK, ClientOK
<1>4. queue' = Tail(queue) /\ queue # <<>>
  BY <1>1, <1>2, FirstOfOpen
<1>5. /\ WritesOf(queue') = Tail(WritesOf(queue)) /\ WritesOf(queue) # <<>>
      /\ Head(WritesOf(queue)) = queue[1].write
  BY <1>3, <1>4, WritesTail
<1>6. queue[applied + 1].write \in Denied
  BY <1>1, <1>2 DEF IInv, Flow, Sending
<1>7. CASE applied > 0
  <2>1. applied' = applied - 1
    BY <1>1, <1>7
  <2> QED
    BY <1>1, <1>5, <1>7, <2>1 DEF Queue!Acknowledge, WritesOf
<1>8. CASE ~(applied > 0)
  <2>1. applied = 0 /\ applied' = 0 /\ applied + 1 = 1
    BY <1>1, <1>3, <1>8
  <2>2. Head(WritesOf(queue)) \in Denied
    BY <1>5, <1>6, <2>1
  <2> QED
    BY <1>1, <1>5, <2>1, <2>2 DEF Queue!Reject, WritesOf
<1> QED
  BY <1>7, <1>8

\* A write that reaches the server is the first of the queue not yet applied.
LEMMA LandStep ==
  ASSUME IInv, NEW w, w \in Writes \ Denied, Apply(w), queue' = queue,
         applied < Len(queue), queue[applied + 1].write = w
  PROVE  Queue!Land
<1>1. queue \in Seq(Batch) /\ applied \in Nat
  BY DEF IInv, TypeOK
<1>2. /\ Len(WritesOf(queue)) = Len(queue)
      /\ \A i \in 1..Len(queue) : WritesOf(queue)[i] = queue[i].write
  BY <1>1, WritesOfBatches
<1>3. applied + 1 \in 1..Len(queue)
  BY <1>1, LenProperties
<1>4. WritesOf(queue)[applied + 1] = w
  BY <1>2, <1>3
<1>5. /\ applied < Len(WritesOf(queue)) /\ WritesOf(queue') = WritesOf(queue)
      /\ store' = [store EXCEPT ![PathOf[w]] = w] /\ applied' = applied + 1
  BY <1>2 DEF Apply
<1> QED
  BY <1>4, <1>5 DEF Queue!Land, WritesOf

LEMMA ServeWriteLands ==
  ASSUME IInv, ServeWrite
  PROVE  Queue!Land
<1>1. /\ Serving /\ Head(wire.requests) \in Writes \ Denied
      /\ Apply(Head(wire.requests)) /\ queue' = queue
  BY DEF ServeWrite, disk_vars
<1>2. /\ queue[applied + 1].write = Head(wire.requests)
      /\ applied < Len(client.pipeline) /\ Len(client.pipeline) <= Len(queue)
  BY <1>1, ServingWrite
<1>3. applied < Len(queue)
  <2>1. applied \in Nat /\ Len(queue) \in Nat /\ Len(client.pipeline) \in Nat
    BY <1>1, ServingOK
  <2> QED
    BY <1>2, <2>1
<1> QED
  BY <1>1, <1>2, <1>3, LandStep

LEMMA ServeLateLands ==
  ASSUME IInv, ServeLate
  PROVE  Queue!Land \/ UNCHANGED <<queue, applied, store>>
<1>1. late # <<>> /\ queue' = queue
  BY DEF ServeLate, disk_vars
<1>2. CASE Head(late) \notin Denied /\ Apply(Head(late))
  <2>1. /\ late \in Seq(Requests) /\ queue \in Seq(Batch) /\ applied \in Nat
        /\ LateOK(queue, applied, late, committed)
    BY DEF IInv, TypeOK
  <2>2. Len(late) \in Nat \ {0} /\ Head(late) = late[1] /\ Len(queue) \in Nat
    BY <1>1, <2>1, HeadTailProperties, EmptySeq, LenProperties
  <2>3. /\ applied + Len(late) <= Len(queue)
        /\ \A i \in 1..Len(late) : late[i] = queue[applied + i].write
    BY <2>1 DEF LateOK
  <2>4. applied < Len(queue) /\ queue[applied + 1].write = Head(late)
        /\ applied + 1 \in 1..Len(queue)
    BY <2>1, <2>2, <2>3
  <2>5. Head(late) \in Writes
    <3>1. queue[applied + 1] \in Batch
      BY <2>1, <2>4, ElementOfSeq
    <3> QED
      BY <2>4, <3>1 DEF Batch
  <2> QED
    BY <1>1, <1>2, <2>4, <2>5, LandStep
<1>3. CASE UNCHANGED <<store, committed, applied>>
  BY <1>1, <1>3
<1> QED
  BY <1>2, <1>3 DEF ServeLate

LEMMA QueueStep ==
  ASSUME IInv, [Next]_vars
  PROVE  [Queue!Next]_(Queue!vars)
<1>1. ASSUME UNCHANGED <<queue, applied, store>> PROVE UNCHANGED Queue!vars
  BY <1>1 DEF Queue!vars
<1>2. CASE Worker
  <2>1. CASE WriteMutations
    BY <2>1, SubmitStep DEF Queue!Next
  <2>2. CASE OnWriteStreamMutationResult
    BY <2>2, AcknowledgeStep DEF Queue!Next
  <2>3. CASE HandleWriteError
    BY <2>3, RejectStep DEF Queue!Next
  <2>4. CASE \/ ReceiveToken \/ ReceiveStaleToken \/ BackoffElapsed
             \/ OnWriteStreamHandshakeComplete \/ OnWrite \/ OnOperationFailed
             \/ OnStreamFinish \/ Initialize
    BY <1>1, <2>4
       DEF ReceiveToken, ReceiveStaleToken, BackoffElapsed,
           OnWriteStreamHandshakeComplete, OnWrite, OnOperationFailed,
           OnStreamFinish, Initialize, disk_vars, server_vars
  <2> QED
    BY <1>2, <2>1, <2>2, <2>3, <2>4 DEF Worker
<1>3. CASE Grpc
  BY <1>1, <1>3 DEF Grpc, WriteSucceeds, WriteFails, ReadSucceeds, ReadFails,
                    disk_vars, server_vars
<1>4. CASE Server
  <2>1. CASE ServeHandshake
    <3>1. UNCHANGED <<queue, store>> /\ applied' = 0
      BY <2>1 DEF ServeHandshake, disk_vars
    <3> QED
      BY <3>1 DEF Queue!Next, Queue!Reconnect
  <2>2. CASE ServeWrite
    BY <2>2, ServeWriteLands DEF Queue!Next
  <2>3. CASE RefuseWrite
    BY <1>1, <2>3 DEF RefuseWrite, disk_vars, server_vars
  <2>4. CASE ServeLate
    BY <1>1, <2>4, ServeLateLands DEF Queue!Next
  <2> QED
    BY <1>4, <2>1, <2>2, <2>3, <2>4 DEF Server
<1>5. CASE Environment
  BY <1>1, <1>5, ZenonT(60) DEF Environment, SetData, FailToken, IdleTimeout, RestartNetwork,
                    BreakCall, EndProcess, disk_vars, server_vars
<1>6. CASE UNCHANGED vars
  BY <1>1, <1>6 DEF vars, disk_vars, server_vars
<1> QED
  BY <1>2, <1>3, <1>4, <1>5, <1>6 DEF Next

\* The write path implements WriteQueue: writes land in the order they were
\* made, each at least once, one leaves the queue only when it has landed or
\* was refused, and every connection starts again at the front.
THEOREM ImplementsWriteQueue == Spec => QueueSpec
<1>1. Init => Queue!Init
  <2> SUFFICES ASSUME Init PROVE Queue!Init
    OBVIOUS
  <2>1. queue = <<>> /\ applied = 0 /\ store = [p \in Paths |-> 0]
    BY DEF Init
  <2>2. WritesOf(<<>>) = <<>>
    <3>1. <<>> \in Seq(Batch) /\ Len(<<>>) = 0
      BY EmptySeq
    <3>2. WritesOf(<<>>) \in Seq(Requests) /\ Len(WritesOf(<<>>)) = 0
      BY <3>1, WritesOfBatches
    <3> QED
      BY <3>2, EmptySeq
  <2> QED
    BY <2>1, <2>2 DEF Queue!Init, WritesOf
<1>2. IInv /\ [Next]_vars => [Queue!Next]_(Queue!vars)
  BY QueueStep
<1> QED
  BY <1>1, <1>2, Invariance, PTL DEF Spec, QueueSpec, Queue!Spec

-----------------------------------------------------------------------------
(* No write is forgotten.                                                  *)

Elements(s) == {s[i] : i \in DOMAIN s}
Once(s) == \A i, j \in DOMAIN s : s[i] = s[j] => i = j

LEMMA ElementsAppend ==
  ASSUME NEW S, NEW s \in Seq(S), NEW x \in S
  PROVE  /\ Elements(Append(s, x)) = Elements(s) \cup {x}
         /\ Once(s) /\ x \notin Elements(s) => Once(Append(s, x))
<1> DEFINE t == Append(s, x)
           n == Len(s) + 1
<1>1. /\ t \in Seq(S) /\ Len(t) = Len(s) + 1
      /\ \A i \in 1..Len(s) : t[i] = s[i]
      /\ t[Len(s) + 1] = x /\ Len(s) \in Nat /\ DOMAIN s = 1..Len(s)
  BY AppendProperties, LenProperties
<1>2. DOMAIN t = 1..(Len(s) + 1)
  BY <1>1, LenProperties
<1>3. /\ DOMAIN t = DOMAIN s \cup {n} /\ n \notin DOMAIN s /\ t[n] = x
      /\ \A i \in DOMAIN s : t[i] = s[i]
  BY <1>1, <1>2
<1> HIDE DEF t, n
<1>4. Elements(t) = Elements(s) \cup {x}
  BY <1>3 DEF Elements
<1>5. Once(s) /\ x \notin Elements(s) => Once(t)
  BY <1>3 DEF Elements, Once
<1> QED
  BY <1>4, <1>5 DEF t

LEMMA ElementsTail ==
  ASSUME NEW S, NEW s \in Seq(S), s # <<>>
  PROVE  /\ Head(s) \in Elements(s)
         /\ Once(s) => /\ Elements(Tail(s)) = Elements(s) \ {Head(s)}
                       /\ Once(Tail(s))
<1> DEFINE t == Tail(s)
<1>1. /\ t \in Seq(S) /\ Len(t) = Len(s) - 1 /\ Head(s) = s[1]
      /\ \A i \in 1..Len(t) : t[i] = s[i + 1]
      /\ Len(s) \in Nat \ {0} /\ DOMAIN s = 1..Len(s)
  BY HeadTailProperties, EmptySeq, LenProperties
<1>2. DOMAIN t = 1..(Len(s) - 1)
  BY <1>1, LenProperties
<1> HIDE DEF t
<1>3. /\ \A i \in DOMAIN t : i + 1 \in DOMAIN s /\ t[i] = s[i + 1] /\ i + 1 # 1
      /\ \A i \in DOMAIN s : i = 1 \/ (i - 1 \in DOMAIN t /\ t[i - 1] = s[i])
      /\ 1 \in DOMAIN s /\ \A i, j \in DOMAIN t : i + 1 = j + 1 => i = j
  BY <1>1, <1>2
<1>4. Head(s) \in Elements(s)
  BY <1>1, <1>3 DEF Elements
<1>5. ASSUME Once(s) PROVE Elements(t) = Elements(s) \ {s[1]}
  <2>1. ASSUME NEW x \in Elements(t) PROVE x \in Elements(s) \ {s[1]}
    BY <1>3, <1>5, <2>1 DEF Elements, Once
  <2>2. ASSUME NEW x \in Elements(s) \ {s[1]} PROVE x \in Elements(t)
    BY <1>3, <2>2 DEF Elements
  <2> QED
    BY <2>1, <2>2
<1>6. ASSUME Once(s) PROVE Once(t)
  BY <1>3, <1>6 DEF Once
<1> QED
  BY <1>1, <1>4, <1>5, <1>6 DEF t

\* Every write is in one place: not yet stored, on the disk, or resolved.
Placed(upTo, waiting, stored, gone, resolved, done) ==
  /\ Elements(waiting) \subseteq 1..upTo /\ Once(waiting)
  /\ Elements(stored) \subseteq 1..upTo /\ Once(stored)
  /\ Elements(waiting) \cap Elements(stored) = {}
  /\ \A w \in Writes :
       w \in Elements(waiting) \/ w \in Elements(stored) => resolved[w] = "none"
  /\ \A w \in ((1..upTo) \ (gone \cup Elements(waiting))) \ Elements(stored) :
       resolved[w] # "none"
  /\ \A w \in Writes : w \notin 1..upTo => resolved[w] = "none"
  /\ \A w \in Writes : resolved[w] = "rejected" => w \in done \cup Denied

StoredInv == Placed(calls, handed, WritesOf(queue), lost, outcome, committed)

LEMMA StoredInvSuffices ==
  ASSUME IInv, StoredInv
  PROVE  StoredIsResolved
<1>1. /\ queue \in Seq(Batch) /\ calls \in 0..MaxWrites /\ DoneIsCommitted
      /\ outcome \in [Writes -> {"none", "acknowledged", "rejected"}]
  BY DEF IInv, TypeOK
<1>2. Elements(WritesOf(queue)) = Queued
  BY DEF Elements, WritesOf, Queued
<1>3. Saved = (1..calls) \ (lost \cup Elements(handed))
  BY DEF Saved, Elements
<1>4. Saved \subseteq Writes
  <2>1. MaxWrites \in Nat
    BY ConstantsAssumption
  <2>2. 1..calls \subseteq Writes
    BY <1>1, <2>1 DEF Writes
  <2> QED
    BY <1>3, <2>2
<1> SUFFICES ASSUME NEW w \in Saved
             PROVE  /\ w \in Queued <=> outcome[w] = "none"
                    /\ w \notin Queued /\ w \notin committed => w \in Denied
  BY DEF StoredIsResolved
<1>5. w \in Writes /\ outcome[w] \in {"none", "acknowledged", "rejected"}
  BY <1>1, <1>4
<1>6. w \in Queued <=> outcome[w] = "none"
  BY <1>2, <1>3, <1>5 DEF StoredInv, Placed
<1>7. outcome[w] = "rejected" => w \in committed \cup Denied
  BY <1>5 DEF StoredInv, Placed
<1>8. outcome[w] = "acknowledged" => w \in committed
  BY <1>1, <1>5 DEF DoneIsCommitted
<1> QED
  BY <1>5, <1>6, <1>7, <1>8

LEMMA StoredInit == Init => StoredInv
<1> SUFFICES ASSUME Init PROVE StoredInv
  OBVIOUS
<1>1. /\ calls = 0 /\ handed = <<>> /\ queue = <<>>
      /\ outcome = [w \in Writes |-> "none"]
  BY DEF Init
<1>2. WritesOf(queue) = <<>>
  BY <1>1 DEF WritesOf
<1>3. Elements(<<>>) = {} /\ Once(<<>>)
  BY DEF Elements, Once
<1>4. 1..calls = {}
  BY <1>1
<1> QED
  BY <1>1, <1>2, <1>3, <1>4 DEF StoredInv, Placed

LEMMA StoredSetData ==
  ASSUME IInv, StoredInv, SetData
  PROVE  StoredInv'
<1>1. /\ calls' = calls + 1 /\ handed' = Append(handed, calls + 1)
      /\ UNCHANGED <<queue, lost, outcome, committed>>
  BY DEF SetData, disk_vars, server_vars, history_vars
<1>2. calls + 1 \in Writes /\ calls \in Nat
  <2>1. calls \in Nat /\ MaxWrites \in Nat /\ calls < MaxWrites
    BY ConstantsAssumption DEF IInv, TypeOK, SetData
  <2> QED
    BY <2>1 DEF Writes
<1>3. 1..(calls + 1) = (1..calls) \cup {calls + 1} /\ calls + 1 \notin 1..calls
  BY <1>2
<1>4. calls + 1 \notin Elements(handed) /\ calls + 1 \notin Elements(WritesOf(queue))
  BY <1>3 DEF StoredInv, Placed
<1>5. Elements(handed') = Elements(handed) \cup {calls + 1} /\ Once(handed')
  BY <1>1, <1>2, <1>4, ElementsAppend DEF IInv, TypeOK, StoredInv, Placed
<1>6. outcome[calls + 1] = "none"
  BY <1>2, <1>3 DEF StoredInv, Placed
<1> QED
  BY <1>1, <1>2, <1>3, <1>4, <1>5, <1>6 DEF StoredInv, Placed

LEMMA StoredWriteMutations ==
  ASSUME IInv, StoredInv, WriteMutations
  PROVE  StoredInv'
<1> DEFINE b == [id |-> nextBatchId, write |-> Head(handed)]
           w == Head(handed)
<1>1. /\ queue' = Append(queue, b) /\ handed' = Tail(handed) /\ handed # <<>>
      /\ handed \in Seq(Writes) /\ queue \in Seq(Batch) /\ nextBatchId \in Nat
      /\ UNCHANGED <<calls, lost, outcome, committed>>
  BY DEF WriteMutations, server_vars, history_vars, IInv, TypeOK, InOrder
<1>2. w \in Writes
  BY <1>1, HeadTailProperties
<1>3. b \in Batch /\ b.write = w
  BY <1>1, <1>2 DEF Batch
<1> HIDE DEF b
<1>4. WritesOf(queue') = Append(WritesOf(queue), w)
  BY <1>1, <1>3, WritesAppend
<1>5. /\ w \in Elements(handed) /\ Elements(handed') = Elements(handed) \ {w}
      /\ Once(handed')
  BY <1>1, ElementsTail DEF StoredInv, Placed
<1>6. w \notin Elements(WritesOf(queue))
  BY <1>5 DEF StoredInv, Placed
<1>7. /\ Elements(WritesOf(queue')) = Elements(WritesOf(queue)) \cup {w}
      /\ Once(WritesOf(queue'))
  <2>1. WritesOf(queue) \in Seq(Requests) /\ w \in Requests
    BY <1>1, <1>2, WritesOfBatches DEF Requests
  <2>2. Once(WritesOf(queue))
    BY DEF StoredInv, Placed
  <2> QED
    BY <1>4, <1>6, <2>1, <2>2, ElementsAppend
<1> HIDE DEF w
<1> DEFINE t == WritesOf(queue)
           u == WritesOf(queue')
<1>8. /\ Elements(u) = Elements(t) \cup {w} /\ Once(u)
      /\ Placed(calls, handed, t, lost, outcome, committed)
  BY <1>7 DEF StoredInv
<1>9. StoredInv' <=> Placed(calls, handed', u, lost, outcome, committed)
  BY <1>1 DEF StoredInv
<1> HIDE DEF t, u
<1>10. Placed(calls, handed', u, lost, outcome, committed)
  BY <1>2, <1>5, <1>8 DEF Placed
<1> QED
  BY <1>9, <1>10

\* The first write of the queue is resolved.
LEMMA StoredResolved ==
  ASSUME IInv, StoredInv, queue # <<>>, queue' = Tail(queue),
         NEW how \in {"acknowledged", "rejected"},
         outcome' = [outcome EXCEPT ![queue[1].write] = how],
         how = "rejected" => queue[1].write \in committed \cup Denied,
         UNCHANGED <<calls, handed, lost, committed>>
  PROVE  StoredInv'
<1> DEFINE t == WritesOf(queue)
           u == WritesOf(queue')
           w == queue[1].write
<1>1. /\ queue \in Seq(Batch)
      /\ outcome \in [Writes -> {"none", "acknowledged", "rejected"}]
  BY DEF IInv, TypeOK
<1>2. t \in Seq(Requests) /\ t # <<>> /\ Head(t) = w /\ u = Tail(t)
  BY <1>1, WritesOfBatches, WritesTail
<1>3. w \in Writes
  <2>1. 1 \in 1..Len(queue)
    BY <1>1, EmptySeq
  <2>2. queue[1] \in Batch
    BY <1>1, <2>1, ElementOfSeq
  <2> QED
    BY <2>2 DEF Batch
<1>4. StoredInv' <=> Placed(calls, handed, u, lost, outcome', committed)
  BY DEF StoredInv
<1>5. Placed(calls, handed, t, lost, outcome, committed)
  BY DEF StoredInv
<1> HIDE DEF t, u, w
<1>6. w \in Elements(t) /\ Elements(u) = Elements(t) \ {w} /\ Once(u)
  BY <1>2, <1>5, ElementsTail DEF Placed
<1>7. outcome'[w] = how /\ \A v \in Writes \ {w} : outcome'[v] = outcome[v]
  BY <1>1, <1>3 DEF w
<1>8. how # "none" /\ (how = "rejected" => w \in committed \cup Denied)
  BY DEF w
<1>9. 1..calls \subseteq Writes
  <2>1. calls \in 0..MaxWrites /\ MaxWrites \in Nat
    BY ConstantsAssumption DEF IInv, TypeOK
  <2> QED
    BY <2>1 DEF Writes
<1>10. Placed(calls, handed, u, lost, outcome', committed)
  <2>1. \A v \in Writes : v \in Elements(handed) \/ v \in Elements(u) => outcome'[v] = "none"
    BY <1>5, <1>6, <1>7 DEF Placed
  <2>2. \A v \in ((1..calls) \ (lost \cup Elements(handed))) \ Elements(u) :
          outcome'[v] # "none"
    BY <1>5, <1>6, <1>7, <1>8, <1>9 DEF Placed
  <2>3. \A v \in Writes : v \notin 1..calls => outcome'[v] = "none"
    BY <1>5, <1>6, <1>7 DEF Placed
  <2>4. \A v \in Writes : outcome'[v] = "rejected" => v \in committed \cup Denied
    BY <1>5, <1>7, <1>8 DEF Placed
  <2>5. /\ Elements(handed) \subseteq 1..calls /\ Once(handed)
        /\ Elements(u) \subseteq 1..calls /\ Once(u)
        /\ Elements(handed) \cap Elements(u) = {}
    BY <1>5, <1>6 DEF Placed
  <2> QED
    BY <2>1, <2>2, <2>3, <2>4, <2>5 DEF Placed
<1> QED
  BY <1>4, <1>10

LEMMA StoredMutationResult ==
  ASSUME IInv, StoredInv, OnWriteStreamMutationResult
  PROVE  StoredInv'
<1>1. /\ Completes("read") /\ client.handshake
      /\ queue' = Without(queue, Head(client.pipeline))
      /\ outcome' = [outcome EXCEPT ![Head(client.pipeline).write] = "acknowledged"]
      /\ UNCHANGED <<calls, handed, lost, committed>>
  BY DEF OnWriteStreamMutationResult, server_vars
<1>2. client.state = "Open" /\ client.pipeline # <<>>
  BY <1>1, ReadMeansApplied
<1>3. queue # <<>> /\ queue' = Tail(queue) /\ Head(client.pipeline) = queue[1]
  BY <1>1, <1>2, FirstOfOpen
<1> QED
  BY <1>1, <1>3, StoredResolved

LEMMA StoredWriteError ==
  ASSUME IInv, StoredInv, HandleWriteError
  PROVE  StoredInv'
<1>1. /\ Completes("finish") /\ wire.trailer = "permanent" /\ client.handshake
      /\ client.pipeline # <<>>
      /\ queue' = Without(queue, Head(client.pipeline))
      /\ outcome' = [outcome EXCEPT ![Head(client.pipeline).write] = "rejected"]
      /\ UNCHANGED <<calls, handed, lost, committed>>
  BY DEF HandleWriteError
<1>2. client.state = "Open"
  BY <1>1, RestOK
<1>3. queue # <<>> /\ queue' = Tail(queue) /\ Head(client.pipeline) = queue[1]
  BY <1>1, <1>2, FirstOfOpen
<1>4. queue[1].write \in committed \cup Denied
  <2>1. /\ queue[applied + 1].write \in Denied /\ applied \in Nat
        /\ LateOK(queue, applied, late, committed)
    BY <1>1, <1>2 DEF IInv, Flow, Sending, TypeOK
  <2>2. CASE applied = 0
    BY <2>1, <2>2
  <2>3. CASE applied # 0
    <3>1. 1 \in 1..applied
      BY <2>1, <2>3
    <3> QED
      BY <2>1, <3>1 DEF LateOK
  <2> QED
    BY <2>2, <2>3
<1> QED
  BY <1>1, <1>3, <1>4, StoredResolved

LEMMA StoredEndProcess ==
  ASSUME IInv, StoredInv, EndProcess
  PROVE  StoredInv'
<1>1. /\ lost' = lost \cup Elements(handed) /\ handed' = <<>>
      /\ UNCHANGED <<calls, queue, outcome, committed>>
  BY DEF EndProcess, disk_vars, Elements
<1>2. Elements(<<>>) = {} /\ Once(<<>>)
  BY DEF Elements, Once
<1> QED
  BY <1>1, <1>2 DEF StoredInv, Placed

LEMMA StoredElsewhere ==
  ASSUME StoredInv, UNCHANGED <<calls, handed, queue, lost, outcome>>,
         committed \subseteq committed'
  PROVE  StoredInv'
<1>1. StoredInv' <=> Placed(calls, handed, WritesOf(queue), lost, outcome, committed')
  BY DEF StoredInv
<1> QED
  BY <1>1 DEF StoredInv, Placed

LEMMA StoredStep == IInv /\ StoredInv /\ [Next]_vars => StoredInv'
<1> SUFFICES ASSUME IInv, StoredInv, [Next]_vars PROVE StoredInv'
  OBVIOUS
<1>1. CASE Worker
  <2>1. CASE \/ ReceiveToken \/ ReceiveStaleToken \/ BackoffElapsed
             \/ OnWriteStreamHandshakeComplete \/ OnWrite \/ OnOperationFailed
             \/ OnStreamFinish \/ Initialize
    BY <2>1, StoredElsewhere
       DEF ReceiveToken, ReceiveStaleToken, BackoffElapsed,
           OnWriteStreamHandshakeComplete, OnWrite, OnOperationFailed,
           OnStreamFinish, Initialize, disk_vars, server_vars, history_vars
  <2> QED
    BY <1>1, <2>1, StoredWriteMutations, StoredMutationResult, StoredWriteError
       DEF Worker
<1>2. CASE Grpc
  BY <1>2, StoredElsewhere DEF Grpc, WriteSucceeds, WriteFails, ReadSucceeds,
     ReadFails, disk_vars, server_vars, history_vars
<1>3. CASE Server
  BY <1>3, StoredElsewhere DEF Server, ServeHandshake, ServeWrite, RefuseWrite,
     ServeLate, Apply, disk_vars, server_vars, history_vars
<1>4. CASE Environment
  <2>1. CASE FailToken \/ IdleTimeout \/ RestartNetwork \/ BreakCall
    BY <2>1, StoredElsewhere, ZenonT(60) DEF FailToken, IdleTimeout, RestartNetwork, BreakCall,
       disk_vars, server_vars, history_vars
  <2> QED
    BY <1>4, <2>1, StoredSetData, StoredEndProcess DEF Environment
<1>5. CASE UNCHANGED vars
  BY <1>5, StoredElsewhere DEF vars, disk_vars, server_vars, history_vars
<1> QED
  BY <1>1, <1>2, <1>3, <1>4, <1>5 DEF Next

\* A write that was stored is never forgotten: it is on the disk until it was
\* resolved, and one that the server never applied was refused
\* (AddMutationBatch:158-185, LoadNextBatchIdFromDb:58-125).
THEOREM NothingForgotten == Spec => []StoredIsResolved
<1>1. IInv /\ StoredInv => StoredIsResolved
  BY StoredInvSuffices
<1> QED
  BY <1>1, StoredInit, StoredStep, Invariance, PTL DEF Spec
=============================================================================
