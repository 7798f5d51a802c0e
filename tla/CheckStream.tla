----------------------------- MODULE CheckStream -----------------------------
(***************************************************************************)
(* One streamed propagation check: the WebSocket handler StreamCheck       *)
(* (internal/api/v1/stream.go) and the goroutines that Checker.Stream      *)
(* (internal/checker/stream.go) starts for it.                             *)
(*                                                                         *)
(*   worker[r]    goroutine of the r-th resolver of the resolver list      *)
(*   coord        goroutine that waits for the workers, summarises, saves  *)
(*   handler      goroutine of the HTTP request                            *)
(*   client       the browser at the other end of the socket (environment) *)
(*                                                                         *)
(* They share the request context ctx, the semaphore sem, the slice        *)
(* results (under mu), the buffered channel resultCh and the one-slot      *)
(* channel doneCh.  A frame is a message on the socket; its payload is     *)
(* abstracted to the resolver it reports on (0 for the other frames).      *)
(***************************************************************************)
EXTENDS Integers, Sequences, FiniteSets

CONSTANTS
    N,                        \* length of the resolver list
    PerResolverConcurrency,   \* cfg.DNS.PerResolverConcurrency
    ResultCap                 \* capacity of resultCh (64 in the code)

ASSUME NAssumption == N \in Nat
ASSUME ConcurrencyAssumption == PerResolverConcurrency \in Int
ASSUME CapAssumption == ResultCap \in Nat \ {0}

Resolvers == 1..N

\* The size of the semaphore: a setting that is not positive means 4.
Slots == IF PerResolverConcurrency <= 0 THEN 4 ELSE PerResolverConcurrency

VARIABLES
    client,     \* "reading", "stalled" (open but not reading) or "gone"
    ctx,        \* "live" or "cancelled"
    handler,    \* pc of the request handler
    inHand,     \* result the handler took from resultCh and is writing; 0 if none
    worker,     \* pc of each worker
    outcome,    \* what each worker's query returned
    sem,        \* tokens in the semaphore channel
    results,    \* the results slice, as resolvers in append order
    resultCh,   \* content of resultCh, oldest first
    closed,     \* which of the channels are closed
    doneCh,     \* summaries in doneCh (0 or 1)
    coord,      \* pc of the coordinator
    store,      \* "open" or "closed"
    stored,     \* result lists persisted under the id of this check
    frames      \* frames the client was sent

vars == <<client, ctx, handler, inHand, worker, outcome, sem, results,
          resultCh, closed, doneCh, coord, store, stored, frames>>

Frame(type, r) == [type |-> type, resolver |-> r]

Frames == [type : {"total", "result", "done", "error"}, resolver : 0..N]

Outcomes == {"answer", "failed", "aborted"}

TypeOK ==
    /\ client \in {"reading", "stalled", "gone"}
    /\ ctx \in {"live", "cancelled"}
    /\ handler \in {"read", "reject", "total", "drain", "write", "summary",
                    "done", "return", "exit"}
    /\ inHand \in 0..N
    /\ worker \in [Resolvers -> {"idle", "start", "query", "send", "append", "exit"}]
    /\ outcome \in [Resolvers -> {"none"} \cup Outcomes]
    /\ sem \in 0..Slots
    /\ results \in Seq(Resolvers)
    /\ resultCh \in Seq(Resolvers)
    /\ closed \subseteq {"resultCh", "doneCh"}
    /\ doneCh \in 0..1
    /\ coord \in {"idle", "wait", "check", "save", "send", "closeDone",
                  "closeResult", "exit"}
    /\ store \in {"open", "closed"}
    /\ stored \subseteq Seq(Resolvers)
    /\ frames \in Seq(Frames)

Init ==
    /\ client = "reading"
    /\ ctx = "live"
    /\ handler = "read"
    /\ inHand = 0
    /\ worker = [r \in Resolvers |-> "idle"]
    /\ outcome = [r \in Resolvers |-> "none"]
    /\ sem = 0
    /\ results = <<>>
    /\ resultCh = <<>>
    /\ closed = {}
    /\ doneCh = 0
    /\ coord = "idle"
    /\ store = "open"
    /\ stored = {}
    /\ frames = <<>>

-----------------------------------------------------------------------------
(* The request: the socket is accepted, the request frame read, and Stream *)
(* validates it and spawns the coordinator and the workers before it       *)
(* returns.                                                                *)

\* The connection ends before the request frame is read.
ReadFails ==
    /\ handler = "read"
    /\ client = "gone"
    /\ handler' = "reject"
    /\ UNCHANGED <<client, ctx, inHand, worker, outcome, sem, results, resultCh,
                   closed, doneCh, coord, store, stored, frames>>

\* A frame arrives that does not parse, lacks a name or a type, or is refused by
\* Stream.
RejectRequest ==
    /\ handler = "read"
    /\ client # "gone"
    /\ handler' = "reject"
    /\ UNCHANGED <<client, ctx, inHand, worker, outcome, sem, results, resultCh,
                   closed, doneCh, coord, store, stored, frames>>

\* Stream is called: validation passed, the channels exist, the goroutines run.
StartStream ==
    /\ handler = "read"
    /\ client # "gone"
    /\ handler' = "total"
    /\ coord' = "wait"
    /\ worker' = [r \in Resolvers |-> "start"]
    /\ UNCHANGED <<client, ctx, inHand, outcome, sem, results, resultCh, closed,
                   doneCh, store, stored, frames>>

-----------------------------------------------------------------------------
(* Workers.                                                                *)

\* Mutant of Acquire: the token is never put into the semaphore.
AcquireUncounted(r) ==
    /\ worker[r] = "start"
    /\ sem < Slots
    /\ worker' = [worker EXCEPT ![r] = "query"]
    /\ UNCHANGED <<client, ctx, handler, inHand, outcome, sem, results, resultCh,
                   closed, doneCh, coord, store, stored, frames>>

\* sem <- struct{}{}
Acquire(r) ==
    /\ worker[r] = "start"
    /\ sem < Slots
    /\ sem' = sem + 1
    /\ worker' = [worker EXCEPT ![r] = "query"]
    /\ UNCHANGED <<client, ctx, handler, inHand, outcome, results, resultCh, closed,
                   doneCh, coord, store, stored, frames>>

\* queryWithCache with noCache: an answer or a failure of the resolver, or, on a
\* cancelled context, the timeout result that Query fabricates for it.
QueryReturns(r) ==
    /\ worker[r] = "query"
    /\ worker' = [worker EXCEPT ![r] = "send"]
    /\ \E o \in {"answer", "failed"} \cup (IF ctx = "cancelled" THEN {"aborted"} ELSE {}) :
          outcome' = [outcome EXCEPT ![r] = o]
    /\ UNCHANGED <<client, ctx, handler, inHand, sem, results, resultCh, closed,
                   doneCh, coord, store, stored, frames>>

\* case resultCh <- result
SendResult(r) ==
    /\ worker[r] = "send"
    /\ Len(resultCh) < ResultCap
    /\ resultCh' = Append(resultCh, r)
    /\ worker' = [worker EXCEPT ![r] = "append"]
    /\ UNCHANGED <<client, ctx, handler, inHand, outcome, sem, results, closed,
                   doneCh, coord, store, stored, frames>>

\* Mutant of DropResult: the release is not deferred, an early return keeps the slot.
DropResultKeepsSlot(r) ==
    /\ worker[r] = "send"
    /\ ctx = "cancelled"
    /\ worker' = [worker EXCEPT ![r] = "exit"]
    /\ UNCHANGED <<client, ctx, handler, inHand, outcome, sem, results, resultCh,
                   closed, doneCh, coord, store, stored, frames>>

\* case <-ctx.Done(): return, through the deferred release of the semaphore.
DropResult(r) ==
    /\ worker[r] = "send"
    /\ ctx = "cancelled"
    /\ worker' = [worker EXCEPT ![r] = "exit"]
    /\ sem' = sem - 1
    /\ UNCHANGED <<client, ctx, handler, inHand, outcome, results, resultCh, closed,
                   doneCh, coord, store, stored, frames>>

\* The append under mu and the deferred release of the semaphore.
AppendResult(r) ==
    /\ worker[r] = "append"
    /\ results' = Append(results, r)
    /\ worker' = [worker EXCEPT ![r] = "exit"]
    /\ sem' = sem - 1
    /\ UNCHANGED <<client, ctx, handler, inHand, outcome, resultCh, closed, doneCh,
                   coord, store, stored, frames>>

-----------------------------------------------------------------------------
(* Coordinator.                                                            *)

\* Mutant of WaitReturns: wg.Add runs inside the goroutine, so that workers that have
\* not started are not waited for.
WaitReturnsEarly ==
    /\ coord = "wait"
    /\ \A r \in Resolvers : worker[r] \in {"start", "exit"}
    /\ coord' = "check"
    /\ UNCHANGED <<client, ctx, handler, inHand, worker, outcome, sem, results,
                   resultCh, closed, doneCh, store, stored, frames>>

\* wg.Wait()
WaitReturns ==
    /\ coord = "wait"
    /\ \A r \in Resolvers : worker[r] = "exit"
    /\ coord' = "check"
    /\ UNCHANGED <<client, ctx, handler, inHand, worker, outcome, sem, results,
                   resultCh, closed, doneCh, store, stored, frames>>

\* A cancelled check is neither summarised nor saved.
CheckContext ==
    /\ coord = "check"
    /\ coord' = IF ctx = "cancelled" THEN "closeDone" ELSE "save"
    /\ UNCHANGED <<client, ctx, handler, inHand, worker, outcome, sem, results,
                   resultCh, closed, doneCh, store, stored, frames>>

\* Mutant of SaveCheck: the save runs in a goroutine of its own.
SaveCheckLater ==
    /\ \/ coord = "save" /\ coord' = "send" /\ UNCHANGED stored
       \/ /\ coord = "exit" /\ ctx = "live" /\ store = "open"
          /\ stored' = stored \cup {results}
          /\ UNCHANGED coord
    /\ UNCHANGED <<client, ctx, handler, inHand, worker, outcome, sem, results,
                   resultCh, closed, doneCh, store, frames>>

\* SaveCheck under the request's context: it writes only while the context is
\* live and the store open, and may fail even then.  The error is ignored.
SaveCheck ==
    /\ coord = "save"
    /\ coord' = "send"
    /\ \/ /\ ctx = "live" /\ store = "open"
          /\ stored' = stored \cup {results}
       \/ UNCHANGED stored
    /\ UNCHANGED <<client, ctx, handler, inHand, worker, outcome, sem, results,
                   resultCh, closed, doneCh, store, frames>>

\* doneCh <- &summary; the slot is free, nothing else sends on doneCh.
SendSummary ==
    /\ coord = "send"
    /\ doneCh = 0
    /\ doneCh' = 1
    /\ coord' = "closeDone"
    /\ UNCHANGED <<client, ctx, handler, inHand, worker, outcome, sem, results,
                   resultCh, closed, store, stored, frames>>

\* Deferred calls run last first: close(doneCh), then close(resultCh).
CloseDone ==
    /\ coord = "closeDone"
    /\ closed' = closed \cup {"doneCh"}
    /\ coord' = "closeResult"
    /\ UNCHANGED <<client, ctx, handler, inHand, worker, outcome, sem, results,
                   resultCh, doneCh, store, stored, frames>>

CloseResult ==
    /\ coord = "closeResult"
    /\ closed' = closed \cup {"resultCh"}
    /\ coord' = "exit"
    /\ UNCHANGED <<client, ctx, handler, inHand, worker, outcome, sem, results,
                   resultCh, doneCh, store, stored, frames>>

-----------------------------------------------------------------------------
(* Handler.  A write either reaches a client that reads, after which the   *)
(* handler goes on to pc next, or fails because the client is gone or the  *)
(* context is cancelled, after which it goes on to pc onError.             *)

Write(frame, next, onError) ==
    \/ /\ client = "reading"
       /\ frames' = Append(frames, frame)
       /\ handler' = next
    \/ /\ client = "gone" \/ ctx = "cancelled"
       /\ handler' = onError
       /\ UNCHANGED frames

SendWSError ==
    /\ handler = "reject"
    /\ Write(Frame("error", 0), "return", "return")
    /\ UNCHANGED <<client, ctx, inHand, worker, outcome, sem, results, resultCh,
                   closed, doneCh, coord, store, stored>>

WriteTotal ==
    /\ handler = "total"
    /\ Write(Frame("total", 0), "drain", "return")
    /\ UNCHANGED <<client, ctx, inHand, worker, outcome, sem, results, resultCh,
                   closed, doneCh, coord, store, stored>>

\* One iteration of "for result := range resultCh": a buffered result is received
\* even when the channel is closed already.
ReceiveResult ==
    /\ handler = "drain"
    /\ resultCh # <<>>
    /\ inHand' = Head(resultCh)
    /\ resultCh' = Tail(resultCh)
    /\ handler' = "write"
    /\ UNCHANGED <<client, ctx, worker, outcome, sem, results, closed, doneCh, coord,
                   store, stored, frames>>

WriteResult ==
    /\ handler = "write"
    /\ Write(Frame("result", inHand), "drain", "return")
    /\ inHand' = 0
    /\ UNCHANGED <<client, ctx, worker, outcome, sem, results, resultCh, closed,
                   doneCh, coord, store, stored>>

\* Mutant of DrainEnds: the loop selects on both channels and leaves on the summary.
DrainEndsOnSummary ==
    /\ handler = "drain"
    /\ doneCh = 1
    /\ handler' = "summary"
    /\ UNCHANGED <<client, ctx, inHand, worker, outcome, sem, results, resultCh,
                   closed, doneCh, coord, store, stored, frames>>

\* The range loop ends: resultCh is closed and empty.
DrainEnds ==
    /\ handler = "drain"
    /\ resultCh = <<>> /\ "resultCh" \in closed
    /\ handler' = "summary"
    /\ UNCHANGED <<client, ctx, inHand, worker, outcome, sem, results, resultCh,
                   closed, doneCh, coord, store, stored, frames>>

\* summary, ok := <-doneCh: the summary, or not ok when doneCh closed without one.
ReceiveSummary ==
    /\ handler = "summary"
    /\ \/ /\ doneCh = 1
          /\ doneCh' = 0
          /\ handler' = "done"
       \/ /\ doneCh = 0 /\ "doneCh" \in closed
          /\ handler' = "return"
          /\ UNCHANGED doneCh
    /\ UNCHANGED <<client, ctx, inHand, worker, outcome, sem, results, resultCh,
                   closed, coord, store, stored, frames>>

\* The done frame; its write error is ignored and conn.Close follows.
WriteDone ==
    /\ handler = "done"
    /\ Write(Frame("done", 0), "return", "return")
    /\ UNCHANGED <<client, ctx, inHand, worker, outcome, sem, results, resultCh,
                   closed, doneCh, coord, store, stored>>

\* The handler returns: the deferred CloseNow, and net/http, cancel the context.
HandlerReturns ==
    /\ handler = "return"
    /\ handler' = "exit"
    /\ ctx' = "cancelled"
    /\ client' = "gone"
    /\ UNCHANGED <<inHand, worker, outcome, sem, results, resultCh, closed, doneCh,
                   coord, store, stored, frames>>

-----------------------------------------------------------------------------
(* Environment.                                                            *)

\* The client closes the page or the connection breaks, at any moment.
Disconnect ==
    /\ client # "gone"
    /\ client' = "gone"
    /\ UNCHANGED <<ctx, handler, inHand, worker, outcome, sem, results, resultCh,
                   closed, doneCh, coord, store, stored, frames>>

\* The goroutine of conn.CloseRead sees the connection end and cancels ctx.
CloseReadCancels ==
    /\ client = "gone"
    /\ ctx = "live"
    /\ handler # "read" /\ handler # "reject"
    /\ ctx' = "cancelled"
    /\ UNCHANGED <<client, handler, inHand, worker, outcome, sem, results, resultCh,
                   closed, doneCh, coord, store, stored, frames>>

\* The client stops reading, and reads again: its receive window fills and drains.
StallOrResume ==
    /\ \/ client = "reading" /\ client' = "stalled"
       \/ client = "stalled" /\ client' = "reading"
    /\ UNCHANGED <<ctx, handler, inHand, worker, outcome, sem, results, resultCh,
                   closed, doneCh, coord, store, stored, frames>>

\* program.Stop closes the store; http.Server.Shutdown does not wait for hijacked
\* connections, so a streamed check may still be running.
StoreCloses ==
    /\ store = "open"
    /\ store' = "closed"
    /\ UNCHANGED <<client, ctx, handler, inHand, worker, outcome, sem, results,
                   resultCh, closed, doneCh, coord, stored, frames>>

-----------------------------------------------------------------------------
WorkerStep(r) ==
    \/ Acquire(r)
    \/ QueryReturns(r)
    \/ SendResult(r)
    \/ DropResult(r)
    \/ AppendResult(r)

CoordStep ==
    \/ WaitReturns
    \/ CheckContext
    \/ SaveCheck
    \/ SendSummary
    \/ CloseDone
    \/ CloseResult

RequestArrives ==
    \/ RejectRequest
    \/ StartStream

HandlerStep ==
    \/ ReadFails
    \/ SendWSError
    \/ WriteTotal
    \/ ReceiveResult
    \/ WriteResult
    \/ DrainEnds
    \/ ReceiveSummary
    \/ WriteDone
    \/ HandlerReturns

Next ==
    \/ \E r \in Resolvers : WorkerStep(r)
    \/ CoordStep
    \/ RequestArrives
    \/ HandlerStep
    \/ CloseReadCancels
    \/ Disconnect
    \/ StallOrResume
    \/ StoreCloses

Spec == Init /\ [][Next]_vars

(* Every goroutine that can go on does (a query ends by its timeout at the *)
(* latest); nothing is assumed of the client or of the shutdown.           *)
Fairness ==
    /\ \A r \in Resolvers : WF_vars(WorkerStep(r))
    /\ WF_vars(CoordStep)
    /\ WF_vars(HandlerStep)
    /\ WF_vars(CloseReadCancels)

FairSpec == Spec /\ Fairness

-----------------------------------------------------------------------------
(* Properties.                                                             *)

InRange(r, seq) == \E i \in 1..Len(seq) : seq[i] = r

Distinct(seq) == \A i, j \in 1..Len(seq) : seq[i] = seq[j] => i = j

(* Stream never persists a partial check ("Don't persist a partial check   *)
(* if the client disconnected mid-stream"): a stored list holds the result *)
(* of every resolver exactly once, and none of them is the timeout that    *)
(* the cancelled request itself caused, however the disconnect interleaves *)
(* with queries, sends and the context check.                              *)
PersistedComplete ==
    \A s \in stored :
        /\ Distinct(s)
        /\ \A r \in Resolvers : InRange(r, s) /\ outcome[r] \in {"answer", "failed"}

(* No worker can send on resultCh, and the coordinator cannot send on      *)
(* doneCh, once the channel is closed: in Go that send panics and takes    *)
(* the whole server down.                                                  *)
NoSendAfterClose ==
    /\ "resultCh" \in closed =>
          \A r \in Resolvers : worker[r] \notin {"start", "query", "send"}
    /\ "doneCh" \in closed => coord \notin {"save", "send", "closeDone"}

(* What the client sees of a completed check: the total frame first, the   *)
(* done frame last, and before it exactly one result frame per resolver,   *)
(* although results pass through a channel that may be full or closed.     *)
DoneAfterEveryResult ==
    \A i \in 1..Len(frames) : frames[i].type = "done" =>
        /\ i = Len(frames)
        /\ frames[1].type = "total"
        /\ \A r \in Resolvers : InRange(Frame("result", r), frames)
        /\ Distinct(frames)

(* The goroutines, channels and dropped errors behind it implement the     *)
(* streamed check a page relies on: done follows every result, and nothing *)
(* is saved after it, so that the permalink that comes with done works now *)
(* or never (the error of SaveCheck is dropped, but not its order).        *)
Page == INSTANCE StreamedCheck WITH
            shown <- {r \in Resolvers : InRange(Frame("result", r), frames)},
            kept <- stored # {},
            done <- InRange(Frame("done", 0), frames)

IsStreamedCheck == Page!Spec

(* No goroutine of the request is left and the semaphore is drained.       *)
Finished ==
    /\ handler = "exit"
    /\ coord \in {"idle", "exit"}
    /\ \A r \in Resolvers : worker[r] \in {"idle", "exit"}
    /\ sem = 0

(* Once a request frame arrived or the connection broke, every goroutine   *)
(* of the request ends, whether the check completes or is cancelled while  *)
(* resultCh is full and nobody drains it.  The exception is a client that  *)
(* keeps the connection open without sending or reading: the socket has no *)
(* deadline, so Read and Write wait for it.                                *)
ReleasedUnlessStalled ==
    <>(handler # "read" \/ client = "gone") /\ <>[](client # "stalled") => <>Finished
=============================================================================
