---------------------------- MODULE RequestPlane ----------------------------
(***************************************************************************)
(* One inference request through the request plane: the gateway handler    *)
(* (request-plane/gateway/gateway.go) that queues it and waits for its     *)
(* result or its timeout, and the dispatcher goroutines                    *)
(* (request-plane/dispatcher/dispatcher.go) that pop it, try the upstream  *)
(* router model by model, and answer through ResultCh and, for a stream,   *)
(* Chunks.  The queue is the abstract LaneQueue; its poppers are the       *)
(* dispatcher goroutines.                                                  *)
(*                                                                         *)
(* The upstream router is external: an attempt ends in any way the code    *)
(* distinguishes.  A fallback model is its position in the chain; setModel *)
(* and buildRequest cannot fail here, because the gateway has already      *)
(* parsed the body as a JSON object.                                       *)
(***************************************************************************)
EXTENDS LaneQueue, FiniteSets

CONSTANTS
    Streams,        \* the requests with "stream": true
    ChainLength,    \* 1 + number of fallback models
    maxAttempts,    \* attempts per model
    ChunkBuffer,    \* capacity of Request.Chunks (16 in the code)
    MaxChunks       \* bound: chunks in an upstream response body

ASSUME StreamsAssumption == Streams \subseteq Requests
ASSUME ChainAssumption == ChainLength \in Nat \ {0}
ASSUME AttemptsAssumption == maxAttempts \in Nat \ {0}
ASSUME ChunkAssumption == ChunkBuffer \in Nat /\ MaxChunks \in Nat

VARIABLES
    handler,    \* request -> where its handleInference is
    reply,      \* request -> what the client was answered
    resultCh,   \* request -> the contents of ResultCh, capacity 1
    chunks,     \* request -> the contents of Chunks
    closed,     \* request -> Chunks is closed
    written,    \* request -> the chunks written to the client
    stats,      \* the counters of admin.Stats
    work,       \* dispatcher -> where its dispatch is
    read,       \* request -> chunks read from upstream so far
    tries,      \* request -> attempts the upstream has seen for it
    process     \* "running", "stopping" (ctx is cancelled) or "exited"

gatewayVars == <<handler, reply, written, stats>>
channelVars == <<resultCh, chunks, closed>>
upstreamVars == <<read, tries>>
planeVars == <<queueVars, gatewayVars, channelVars, work, upstreamVars, process>>

Idle == [at |-> "pop", model |-> 1, attempt |-> 1]

(* A Result: an error (Err), a 2xx or another status; the ServedModel; and *)
(* whether the body follows through Chunks.                                *)
Outcomes == {"error", "2xx", "other status"}
Result(o, model, streaming) ==
    [outcome |-> o, ServedModel |-> model, Streaming |-> streaming]

Init ==
    /\ QueueInit
    /\ handler = [r \in Requests |-> "new"]
    /\ reply = [r \in Requests |-> "none"]
    /\ resultCh = [r \in Requests |-> <<>>]
    /\ chunks = [r \in Requests |-> <<>>]
    /\ closed = [r \in Requests |-> FALSE]
    /\ written = [r \in Requests |-> <<>>]
    /\ stats = [total |-> 0, success |-> 0, errors |-> 0]
    /\ work = [d \in Poppers |-> Idle]
    /\ read = [r \in Requests |-> 0]
    /\ tries = [r \in Requests |-> 0]
    /\ process = "running"

-----------------------------------------------------------------------------
(* Gateway.                                                                *)

(* Mutant of Count: what is not a success is not counted apart.            *)
CountWithoutErrors(s, success) ==
    [s EXCEPT !.total = @ + 1, !.success = IF success THEN @ + 1 ELSE @]

(* The deferred onRequest hook: Stats.Hook.  Its two atomic additions are  *)
(* one step: no modelled operation reads the counters between them.        *)
Count(s, success) ==
    [s EXCEPT !.total = @ + 1,
              !.success = IF success THEN @ + 1 ELSE @,
              !.errors = IF success THEN @ ELSE @ + 1]

(* The handler answers the client and returns.                             *)
Finish(r, answer, success) ==
    /\ handler' = [handler EXCEPT ![r] = "done"]
    /\ reply' = [reply EXCEPT ![r] = answer]
    /\ stats' = Count(stats, success)

(* Every return before TryPush: method, authentication, rate limit, body,  *)
(* backpressure.                                                           *)
Refuse(r) ==
    /\ handler[r] = "new"
    /\ Finish(r, "refused", FALSE)
    /\ UNCHANGED <<queueVars, channelVars, written, work, upstreamVars, process>>

QueueFull(r) ==
    /\ handler[r] = "new"
    /\ Full(PriorityOf[r])
    /\ Finish(r, "queue full", FALSE)
    /\ UNCHANGED <<queueVars, channelVars, written, work, upstreamVars, process>>

(* TryPush succeeds, into the lane or to a waiting dispatcher.             *)
Submit(r) ==
    /\ handler[r] = "new"
    /\ handler' = [handler EXCEPT ![r] = "waiting"]
    /\ \/ Accept(r) /\ UNCHANGED work
       \/ \E d \in Poppers :
             /\ work[d].at = "pop"
             /\ HandOver(r, d)
             /\ work' = [work EXCEPT ![d].at = "try"]
    /\ UNCHANGED <<reply, written, stats, channelVars, upstreamVars, process>>

(* select: the result.  A stream goes on in streamResponse.                *)
TakeResult(r) ==
    LET result == Head(resultCh[r]) IN
    /\ handler[r] = "waiting"
    /\ resultCh[r] # <<>>
    /\ resultCh' = [resultCh EXCEPT ![r] = Tail(@)]
    /\ IF result.Streaming
       THEN /\ handler' = [handler EXCEPT ![r] = "streaming"]
            /\ reply' = [reply EXCEPT ![r] = result.outcome]
            /\ UNCHANGED stats
       ELSE Finish(r, result.outcome, result.outcome = "2xx")
    /\ UNCHANGED <<queueVars, chunks, closed, written, work, upstreamVars, process>>

(* select: time.After(waitTimeout).                                        *)
Timeout(r) ==
    /\ handler[r] = "waiting"
    /\ Finish(r, "timed out", FALSE)
    /\ UNCHANGED <<queueVars, channelVars, written, work, upstreamVars, process>>

(* streamResponse: one chunk.                                              *)
WriteChunk(r) ==
    /\ handler[r] = "streaming"
    /\ chunks[r] # <<>>
    /\ written' = [written EXCEPT ![r] = Append(@, Head(chunks[r]))]
    /\ chunks' = [chunks EXCEPT ![r] = Tail(@)]
    /\ UNCHANGED <<queueVars, handler, reply, stats, resultCh, closed, work,
                   upstreamVars, process>>

(* streamResponse: the range loop ends once Chunks is closed and drained.  *)
EndStream(r) ==
    /\ handler[r] = "streaming"
    /\ chunks[r] = <<>> /\ closed[r]
    /\ Finish(r, reply[r], reply[r] = "2xx")
    /\ UNCHANGED <<queueVars, channelVars, written, work, upstreamVars, process>>

-----------------------------------------------------------------------------
(* Dispatcher.                                                             *)

PopRequest(d) ==
    /\ work[d].at = "pop"
    /\ \E l \in Priorities : Take(d, l)
    /\ work' = [work EXCEPT ![d].at = "try"]
    /\ UNCHANGED <<gatewayVars, channelVars, upstreamVars, process>>

(* Pop's ctx.Done() case ends the goroutine.                               *)
StopWorker(d) ==
    /\ process = "stopping"
    /\ work[d].at = "pop"
    /\ work' = [work EXCEPT ![d].at = "stopped"]
    /\ UNCHANGED <<queueVars, gatewayVars, channelVars, upstreamVars, process>>

(* Mutant of Done: Chunks is not closed.                                   *)
DoneUnclosed(d, r) ==
    /\ work' = [work EXCEPT ![d] = Idle]
    /\ Release(d)
    /\ UNCHANGED closed

(* The dispatch of r ends; a stream's Chunks is closed by the defer.       *)
Done(d, r) ==
    /\ work' = [work EXCEPT ![d] = Idle]
    /\ Release(d)
    /\ closed' = [closed EXCEPT ![r] = r \in Streams]

(* Mutant of Send: ResultCh without a buffer, a rendezvous with the        *)
(* handler.                                                                *)
SendUnbuffered(r, result) ==
    /\ handler[r] = "waiting"
    /\ resultCh' = [resultCh EXCEPT ![r] = Append(@, result)]

(* req.ResultCh <- result.                                                 *)
Send(r, result) ==
    /\ Len(resultCh[r]) < 1
    /\ resultCh' = [resultCh EXCEPT ![r] = Append(@, result)]

(* Mutant of AfterRetryable: one attempt too many.                         *)
AfterRetryableOnceMore(w) ==
    IF w.attempt <= maxAttempts THEN [w EXCEPT !.attempt = @ + 1]
    ELSE IF w.model < ChainLength THEN [w EXCEPT !.model = @ + 1, !.attempt = 1]
    ELSE [w EXCEPT !.at = "give up"]

(* Mutant of AfterRetryable: the first failure falls back.                 *)
AfterRetryableImpatient(w) ==
    IF w.model < ChainLength THEN [w EXCEPT !.model = @ + 1]
    ELSE IF w.attempt < maxAttempts THEN [w EXCEPT !.attempt = @ + 1]
    ELSE [w EXCEPT !.at = "give up"]

(* What follows a retryable attempt: the next attempt, the next model, or  *)
(* giving up.                                                              *)
AfterRetryable(w) ==
    IF w.attempt < maxAttempts THEN [w EXCEPT !.attempt = @ + 1]
    ELSE IF w.model < ChainLength THEN [w EXCEPT !.model = @ + 1, !.attempt = 1]
    ELSE [w EXCEPT !.at = "give up"]

(* An attempt that fails in a retryable way: unreachable, 502 or 503.      *)
AttemptFails(d) ==
    /\ work[d].at = "try"
    /\ tries' = [tries EXCEPT ![got[d]] = @ + 1]
    /\ work' = [work EXCEPT ![d] = AfterRetryable(@)]
    /\ UNCHANGED <<queueVars, gatewayVars, channelVars, read, process>>

(* The chain is exhausted: final, the last failure, is the result.         *)
GiveUp(d) ==
    /\ work[d].at = "give up"
    /\ \E o \in {"error", "other status"} :
           Send(got[d], Result(o, work[d].model, FALSE))
    /\ Done(d, got[d])
    /\ UNCHANGED <<gatewayVars, chunks, upstreamVars, process>>

(* dispatchBuffered: an attempt with a final answer; reading its body may  *)
(* still fail, which is not retried.                                       *)
AttemptAnswered(d) ==
    /\ work[d].at = "try"
    /\ got[d] \notin Streams
    /\ tries' = [tries EXCEPT ![got[d]] = @ + 1]
    /\ \E o \in Outcomes : Send(got[d], Result(o, work[d].model, FALSE))
    /\ Done(d, got[d])
    /\ UNCHANGED <<gatewayVars, chunks, read, process>>

(* Mutant of Committed: the retry loop goes on after the commit.           *)
CommittedAndRetries(w) == AfterRetryable(w)

Committed(w) == [w EXCEPT !.at = "pump"]

(* dispatchStream: a status that is not retryable commits to the stream.   *)
AttemptCommits(d) ==
    /\ work[d].at = "try"
    /\ got[d] \in Streams
    /\ tries' = [tries EXCEPT ![got[d]] = @ + 1]
    /\ \E o \in {"2xx", "other status"} :
           Send(got[d], Result(o, work[d].model, TRUE))
    /\ work' = [work EXCEPT ![d] = Committed(@)]
    /\ UNCHANGED <<queueVars, gatewayVars, chunks, closed, read, process>>

(* Mutant of AfterRead: data that comes together with io.EOF is dropped.   *)
AfterReadDrops(eof) == IF eof THEN "pump" ELSE "send"

AfterRead(eof) == IF eof THEN "last send" ELSE "send"

(* streamBody: one Read that returns data, and perhaps the end with it.    *)
ReadChunk(d, eof) ==
    /\ work[d].at = "pump"
    /\ read[got[d]] < MaxChunks
    /\ read' = [read EXCEPT ![got[d]] = @ + 1]
    /\ work' = [work EXCEPT ![d].at = AfterRead(eof)]
    /\ UNCHANGED <<queueVars, gatewayVars, channelVars, tries, process>>

(* streamBody: chunks <- chunk, which blocks while the buffer is full.     *)
SendChunk(d) ==
    LET r == got[d] IN
    /\ work[d].at \in {"send", "last send"}
    /\ Len(chunks[r]) < ChunkBuffer
    /\ chunks' = [chunks EXCEPT ![r] = Append(@, read[r])]
    /\ IF work[d].at = "last send"
       THEN Done(d, r)
       ELSE /\ work' = [work EXCEPT ![d].at = "pump"]
            /\ UNCHANGED <<queueVars, closed>>
    /\ UNCHANGED <<gatewayVars, resultCh, upstreamVars, process>>

(* streamBody: a Read that returns only io.EOF or an error.                *)
EndOfBody(d) ==
    /\ work[d].at = "pump"
    /\ Done(d, got[d])
    /\ UNCHANGED <<gatewayVars, resultCh, chunks, upstreamVars, process>>

-----------------------------------------------------------------------------
(* The process.                                                            *)

(* SIGINT or SIGTERM cancels ctx, which the dispatchers' Pop and main's    *)
(* closing goroutine wait for.                                             *)
Shutdown ==
    /\ process = "running"
    /\ process' = "stopping"
    /\ UNCHANGED <<queueVars, gatewayVars, channelVars, work, upstreamVars>>

(* srv.Close() closes every connection, ListenAndServe returns and so does *)
(* main: nothing waits for handlers or dispatchers.  A client that has no  *)
(* complete answer is cut off, one that comes later finds no listener, and *)
(* what lanes, channels and dispatchers held is lost where it was.         *)
Exit ==
    /\ process = "stopping"
    /\ process' = "exited"
    /\ handler' = [r \in Requests |-> IF handler[r] = "done" THEN "done" ELSE "cut off"]
    /\ UNCHANGED <<queueVars, reply, written, stats, channelVars, work, upstreamVars>>

Dispatch(d) ==
    /\ process # "exited"
    /\ \/ PopRequest(d) \/ StopWorker(d)
       \/ AttemptFails(d) \/ AttemptAnswered(d) \/ AttemptCommits(d) \/ GiveUp(d)
       \/ EndOfBody(d) \/ SendChunk(d)
       \/ \E eof \in BOOLEAN : ReadChunk(d, eof)

Handle(r) ==
    \/ Refuse(r) \/ QueueFull(r) \/ Submit(r)
    \/ TakeResult(r) \/ Timeout(r) \/ WriteChunk(r) \/ EndStream(r)

Serve == (\E r \in Requests : Handle(r)) \/ (\E d \in Poppers : Dispatch(d))

Next == Serve \/ Shutdown \/ Exit

Spec == Init /\ [][Next]_planeVars

(* A handler that is reading a stream goes on: its client reads, or hangs  *)
(* up, which makes the writes fail.                                        *)
HandlersRun ==
    \A r \in Requests :
        WF_planeVars(TakeResult(r) \/ Timeout(r) \/ WriteChunk(r) \/ EndStream(r))

(* Handlers run and the gateway's timer fires.  A dispatcher goroutine     *)
(* runs, and a buffered attempt ends, by itself or by the client's 60 s    *)
(* timeout; the streaming client has none, so a stream owes nothing.       *)
(* Nobody is obliged to send a request or to stop the process.             *)
FairSpec ==
    /\ Spec
    /\ HandlersRun
    /\ \A d \in Poppers : WF_planeVars(got[d] \notin Streams /\ Dispatch(d))

(* An upstream whose streams answer and end.                               *)
UpstreamEnds == \A d \in Poppers : WF_planeVars(Dispatch(d))

(* The same with such an upstream and while nobody stops the process.      *)
UpstreamEndsSpec ==
    /\ Init /\ [][Serve]_planeVars
    /\ HandlersRun
    /\ UpstreamEnds

-----------------------------------------------------------------------------
(* Types of the plane's channels, handlers and dispatchers.                *)
TypeOK ==
    /\ lanes \in [Priorities -> Seq(Requests)]
    /\ got \in [Poppers -> Requests \cup {None}]
    /\ handler \in [Requests -> {"new", "waiting", "streaming", "done", "cut off"}]
    /\ reply \in [Requests -> Outcomes \cup
                      {"none", "refused", "queue full", "timed out"}]
    /\ \A r \in Requests : Len(resultCh[r]) <= 1 /\ Len(chunks[r]) <= ChunkBuffer
    /\ closed \in [Requests -> BOOLEAN]
    /\ work \in [Poppers -> [at : {"pop", "try", "give up", "pump", "send",
                                   "last send", "stopped"},
                             model : 1..ChainLength, attempt : 1..maxAttempts]]
    /\ tries \in [Requests -> 0..(ChainLength * maxAttempts)]
    /\ process \in {"running", "stopping", "exited"}

(* ResultCh receives exactly one Result per dispatch (queue.go:59-63,      *)
(* dispatcher.go:129-160): a dispatcher that is about to send never finds  *)
(* the channel occupied, whether or not the gateway is still there, and a  *)
(* request is never dispatched twice.                                      *)
ExactlyOneResult ==
    /\ \A d \in Poppers : work[d].at \in {"try", "give up"} =>
           resultCh[got[d]] = <<>> /\ handler[got[d]] # "streaming"
    /\ \A d, e \in Poppers : d # e /\ got[d] # None => got[d] # got[e]

(* A fallback model answers only after every model before it in the chain  *)
(* used up all its attempts (dispatcher.go:137-158): the result that       *)
(* arrives names the model of the last attempt upstream has seen.          *)
FallbackAfterExhaustion ==
    \A r \in Requests : resultCh[r] # <<>> =>
        LET m == Head(resultCh[r]).ServedModel
        IN  (m - 1) * maxAttempts < tries[r] /\ tries[r] <= m * maxAttempts

(* A client that is streamed to gets the upstream body in order and whole  *)
(* (dispatcher.go:246-263, gateway.go:241-260): what was written and what  *)
(* is buffered is what was read, up to the chunk in the dispatcher's hand, *)
(* and nothing is missing at the end.                                      *)
StreamIsWhole ==
    \A r \in Requests :
        /\ LET inHand == \E d \in Poppers :
                            got[d] = r /\ work[d].at \in {"send", "last send"}
           IN  written[r] \o chunks[r] =
                   [i \in 1..(IF inHand THEN read[r] - 1 ELSE read[r]) |-> i]
        /\ handler[r] = "done" /\ reply[r] \in {"2xx", "other status"}
              /\ r \in Streams => Len(written[r]) = read[r]

(* Every request is counted exactly once, and as a success exactly when    *)
(* the client was answered 2xx (admin/stats.go:9-32, gateway.go:115-119).  *)
CountedOnce ==
    LET finished == {r \in Requests : handler[r] = "done"}
    IN  /\ stats.total = Cardinality(finished)
        /\ stats.success = Cardinality({r \in finished : reply[r] = "2xx"})
        /\ stats.total = stats.success + stats.errors

(* A dispatcher goroutine that works on a buffered request becomes free    *)
(* again, also when the gateway has given up on the request, as long as    *)
(* the process lives (dispatcher.go:129-160).                              *)
BufferedIsReleased ==
    \A d \in Poppers :
        got[d] \in Requests \ Streams ~>
            got[d] \notin Requests \ Streams \/ process = "exited"

(* A client that is streamed to sees the end of its stream, if upstream    *)
(* ends the body (dispatcher.go:191-192, 246-263, gateway.go:254-260):     *)
(* handler and dispatcher never wait for each other for good over the      *)
(* bounded buffer, and Chunks is closed however the body ends.             *)
StreamEnds ==
    UpstreamEnds =>
        \A r \in Requests : handler[r] = "streaming" ~> handler[r] \in {"done", "cut off"}

(* "The dispatcher closes this channel when the upstream body is fully     *)
(* read or the connection breaks" (queue.go:55-57): the dispatch of a      *)
(* stream ends, its Chunks closed by the defer, if upstream ends it.       *)
StreamIsClosed ==
    \A d \in Poppers : got[d] \in Streams ~> got[d] \notin Streams
=============================================================================
