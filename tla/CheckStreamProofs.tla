-------------------------- MODULE CheckStreamProofs --------------------------
(***************************************************************************)
(* Proofs about CheckStream, for every number of resolvers, every          *)
(* semaphore size and every channel capacity.                              *)
(*                                                                         *)
(* No safety property of CheckStream is inductive alone.  The inductive    *)
(* invariant SafetyInv adds what ties the goroutines together: the tokens  *)
(* of the semaphore are its holders (SemCounts), the pc of one goroutine   *)
(* bounds the pcs of the others (Control), and a worker that ended while   *)
(* the context was live left its result in the slice (Collected).          *)
(***************************************************************************)
EXTENDS CheckStream, FiniteSetTheorems, TLAPS

Holding == {r \in Resolvers : worker[r] \in {"query", "send", "append"}}

\* The semaphore holds one token for each worker between Acquire and its return.
SemCounts == sem = Cardinality(Holding)

\* Before Stream is called nothing runs; after wg.Wait no worker runs; only the
\* last steps of the coordinator persist or close anything.
Control ==
    /\ handler \in {"read", "reject"} => coord = "idle"
    /\ coord = "idle" => \A r \in Resolvers : worker[r] = "idle"
    /\ coord # "idle" => \A r \in Resolvers : worker[r] # "idle"
    /\ coord \notin {"idle", "wait"} => \A r \in Resolvers : worker[r] = "exit"
    /\ coord \in {"idle", "wait", "check", "save"} => stored = {}
    /\ "doneCh" \in closed => coord \in {"closeResult", "exit"}
    /\ "resultCh" \in closed => coord = "exit"

\* A worker that ended without being cancelled left its result in the slice, once.
Collected ==
    /\ \A r \in Resolvers :
          worker[r] \in {"send", "append", "exit"} => outcome[r] \in Outcomes
    /\ ctx = "live" => \A r \in Resolvers : outcome[r] # "aborted"
    /\ Distinct(results)
    /\ \A r \in Resolvers : InRange(r, results) => worker[r] = "exit"
    /\ ctx = "live" => \A r \in Resolvers : worker[r] = "exit" => InRange(r, results)

SafetyInv == TypeOK /\ SemCounts /\ Control /\ Collected /\ PersistedComplete

-----------------------------------------------------------------------------
(* The semaphore.                                                          *)

(* The semaphore that Stream makes always has at least one slot.           *)
LEMMA SlotsPositive == Slots \in Nat /\ Slots > 0
BY ConcurrencyAssumption DEF Slots

(* Only finitely many workers hold a slot.                                 *)
LEMMA HoldingFinite == IsFiniteSet(Holding) /\ IsFiniteSet(Holding')
<1>1. IsFiniteSet(Resolvers)
  BY NAssumption, FS_Interval DEF Resolvers
<1>2. Holding \subseteq Resolvers /\ Holding' \subseteq Resolvers
  BY DEF Holding
<1> QED
  BY <1>1, <1>2, FS_Subset

(* Acquire is the only step that adds a holder, and it adds a token.       *)
LEMMA SemAcquire ==
  ASSUME TypeOK, SemCounts, NEW r \in Resolvers, Acquire(r)
  PROVE  SemCounts'
<1>1. Holding' = Holding \cup {r} /\ r \notin Holding
  BY DEF Holding, Acquire, TypeOK
<1>2. Cardinality(Holding') = Cardinality(Holding) + 1
  BY <1>1, HoldingFinite, FS_AddElement
<1> QED
  BY <1>2 DEF SemCounts, Acquire

(* A worker that leaves, dropping or appending its result, takes its token *)
(* out of a semaphore that is not empty.                                   *)
LEMMA SemRelease ==
  ASSUME TypeOK, SemCounts, NEW r \in Resolvers,
         DropResult(r) \/ AppendResult(r)
  PROVE  SemCounts' /\ sem' \in 0..Slots
<1>1. Holding' = Holding \ {r} /\ r \in Holding
  BY DEF Holding, DropResult, AppendResult, TypeOK
<1>2. Cardinality(Holding') = Cardinality(Holding) - 1
  BY <1>1, HoldingFinite, FS_RemoveElement
<1>3. Cardinality(Holding') \in Nat
  BY HoldingFinite, FS_CardinalityType
<1>4. sem' = sem - 1
  BY DEF DropResult, AppendResult
<1> QED
  BY <1>2, <1>3, <1>4, SlotsPositive DEF SemCounts, TypeOK

(* No other step moves a worker into or out of the critical section.       *)
LEMMA SemStep ==
  ASSUME TypeOK, SemCounts, Control, [Next]_vars
  PROVE  SemCounts'
<1>1. ASSUME NEW r \in Resolvers, QueryReturns(r) \/ SendResult(r)
      PROVE  SemCounts'
  <2>1. Holding' = Holding
    BY <1>1 DEF Holding, QueryReturns, SendResult, TypeOK
  <2> QED
    BY <1>1, <2>1 DEF SemCounts, QueryReturns, SendResult
<1>2. CASE StartStream
  <2>1. Holding' = Holding
    BY <1>2 DEF Holding, StartStream, Control
  <2> QED
    BY <1>2, <2>1 DEF SemCounts, StartStream
<1>3. CASE UNCHANGED <<worker, sem>>
  BY <1>3 DEF SemCounts, Holding
<1>4. \/ \E r \in Resolvers : WorkerStep(r)
      \/ StartStream
      \/ UNCHANGED <<worker, sem>>
  BY DEF Next, CoordStep, RequestArrives, HandlerStep, vars, WaitReturns,
         CheckContext, SaveCheck, SendSummary, CloseDone, CloseResult, ReadFails,
         RejectRequest, SendWSError, WriteTotal, ReceiveResult, WriteResult,
         DrainEnds, ReceiveSummary, WriteDone, HandlerReturns, CloseReadCancels,
         Disconnect, StallOrResume, StoreCloses
<1> QED
  BY <1>1, <1>2, <1>3, <1>4, SemAcquire, SemRelease DEF WorkerStep

-----------------------------------------------------------------------------
(* Types.                                                                  *)

(* The initial state is typed.                                             *)
LEMMA TypeInit == Init => TypeOK
BY NAssumption, SlotsPositive DEF Init, TypeOK, Resolvers

(* A write appends a well-formed frame or leaves the frames alone.         *)
LEMMA WriteTyped ==
  ASSUME TypeOK, NEW frame \in Frames, NEW next, NEW onError,
         Write(frame, next, onError)
  PROVE  frames' \in Seq(Frames) /\ handler' \in {next, onError}
<1>1. frames \in Seq(Frames)
  BY DEF TypeOK
<1>2. Append(frames, frame) \in Seq(Frames)
  BY <1>1
<1> QED
  BY <1>1, <1>2 DEF Write

(* The frames of the protocol.                                             *)
LEMMA FrameTyped ==
  ASSUME NEW type \in {"total", "result", "done", "error"}, NEW r \in 0..N
  PROVE  Frame(type, r) \in Frames
BY DEF Frame, Frames

(* Every step keeps the types; the semaphore never goes below zero.        *)
LEMMA TypeStep ==
  ASSUME TypeOK, SemCounts, [Next]_vars
  PROVE  TypeOK'
<1>1. ASSUME NEW r \in Resolvers, Acquire(r) PROVE TypeOK'
  BY <1>1, SlotsPositive DEF TypeOK, Acquire
<1>2. ASSUME NEW r \in Resolvers, QueryReturns(r) PROVE TypeOK'
  BY <1>2 DEF TypeOK, QueryReturns, Outcomes
<1>3. ASSUME NEW r \in Resolvers, SendResult(r) PROVE TypeOK'
  BY <1>3 DEF TypeOK, SendResult
<1>4. ASSUME NEW r \in Resolvers, DropResult(r) PROVE TypeOK'
  <2>1. sem' \in 0..Slots
    BY <1>4, SemRelease
  <2> QED
    BY <1>4, <2>1 DEF TypeOK, DropResult
<1>5. ASSUME NEW r \in Resolvers, AppendResult(r) PROVE TypeOK'
  <2>1. sem' \in 0..Slots
    BY <1>5, SemRelease
  <2> QED
    BY <1>5, <2>1 DEF TypeOK, AppendResult
<1>6. CASE CoordStep
  <2>1. CASE WaitReturns \/ CheckContext
    BY <1>6, <2>1 DEF TypeOK, WaitReturns, CheckContext
  <2>2. CASE SaveCheck
    BY <1>6, <2>2 DEF TypeOK, SaveCheck
  <2>3. CASE SendSummary
    BY <1>6, <2>3 DEF TypeOK, SendSummary
  <2>4. CASE CloseDone
    BY <1>6, <2>4 DEF TypeOK, CloseDone
  <2>5. CASE CloseResult
    BY <1>6, <2>5 DEF TypeOK, CloseResult
  <2> QED
    BY <1>6, <2>1, <2>2, <2>3, <2>4, <2>5 DEF CoordStep
<1>7. CASE RequestArrives
  BY <1>7 DEF TypeOK, RequestArrives, RejectRequest, StartStream
<1>8. CASE SendWSError
  <2>1. Frame("error", 0) \in Frames
    BY NAssumption, FrameTyped DEF TypeOK
  <2>2. frames' \in Seq(Frames) /\ handler' \in {"return", "drain"}
    BY <1>8, <2>1, WriteTyped DEF SendWSError
  <2> QED
    BY <1>8, <2>2, NAssumption DEF TypeOK, SendWSError
<1>9. CASE WriteTotal
  <2>1. Frame("total", 0) \in Frames
    BY NAssumption, FrameTyped DEF TypeOK
  <2>2. frames' \in Seq(Frames) /\ handler' \in {"return", "drain"}
    BY <1>9, <2>1, WriteTyped DEF WriteTotal
  <2> QED
    BY <1>9, <2>2, NAssumption DEF TypeOK, WriteTotal
<1>10. CASE WriteResult
  <2>1. Frame("result", inHand) \in Frames
    BY NAssumption, FrameTyped DEF TypeOK
  <2>2. frames' \in Seq(Frames) /\ handler' \in {"return", "drain"}
    BY <1>10, <2>1, WriteTyped DEF WriteResult
  <2> QED
    BY <1>10, <2>2, NAssumption DEF TypeOK, WriteResult
<1>11. CASE WriteDone
  <2>1. Frame("done", 0) \in Frames
    BY NAssumption, FrameTyped DEF TypeOK
  <2>2. frames' \in Seq(Frames) /\ handler' \in {"return", "drain"}
    BY <1>11, <2>1, WriteTyped DEF WriteDone
  <2> QED
    BY <1>11, <2>2, NAssumption DEF TypeOK, WriteDone
<1>12. CASE ReceiveResult
  BY <1>12, NAssumption DEF TypeOK, ReceiveResult, Resolvers
<1>13. CASE ReadFails \/ DrainEnds \/ ReceiveSummary \/ HandlerReturns
  <2>1. CASE ReadFails \/ DrainEnds
    BY <2>1 DEF TypeOK, ReadFails, DrainEnds
  <2>2. CASE ReceiveSummary
    BY <2>2 DEF TypeOK, ReceiveSummary
  <2>3. CASE HandlerReturns
    BY <2>3 DEF TypeOK, HandlerReturns
  <2> QED
    BY <1>13, <2>1, <2>2, <2>3
<1>14. CASE CloseReadCancels \/ Disconnect \/ StallOrResume \/ StoreCloses
  <2>1. CASE CloseReadCancels
    BY <2>1 DEF TypeOK, CloseReadCancels
  <2>2. CASE Disconnect
    BY <2>2 DEF TypeOK, Disconnect
  <2>3. CASE StallOrResume
    BY <2>3 DEF TypeOK, StallOrResume
  <2>4. CASE StoreCloses
    BY <2>4 DEF TypeOK, StoreCloses
  <2> QED
    BY <1>14, <2>1, <2>2, <2>3, <2>4
<1>15. CASE UNCHANGED vars
  BY <1>15 DEF TypeOK, vars
<1> QED
  BY <1>1, <1>2, <1>3, <1>4, <1>5, <1>6, <1>7, <1>8, <1>9, <1>10, <1>11, <1>12,
     <1>13, <1>14, <1>15 DEF Next, WorkerStep, HandlerStep

-----------------------------------------------------------------------------
(* Control.                                                                *)

(* Every step respects the order in which the goroutines start and end.    *)
LEMMA ControlStep ==
  ASSUME TypeOK, Control, [Next]_vars
  PROVE  Control'
<1>1. ASSUME NEW r \in Resolvers, WorkerStep(r) PROVE Control'
  BY <1>1 DEF TypeOK, Control, WorkerStep, Acquire, QueryReturns, SendResult, DropResult,
              AppendResult
<1>2. CASE WaitReturns \/ CheckContext \/ SaveCheck \/ SendSummary
  BY <1>2 DEF TypeOK, Control, WaitReturns, CheckContext, SaveCheck, SendSummary
<1>3. CASE CloseDone \/ CloseResult
  BY <1>3 DEF TypeOK, Control, CloseDone, CloseResult
<1>4. CASE RequestArrives
  BY <1>4 DEF TypeOK, Control, RequestArrives, RejectRequest, StartStream
<1>5. CASE SendWSError \/ WriteTotal \/ WriteResult \/ WriteDone
  BY <1>5 DEF TypeOK, Control, SendWSError, WriteTotal, WriteResult, WriteDone, Write
<1>6. CASE \/ ReadFails \/ ReceiveResult \/ DrainEnds \/ ReceiveSummary
           \/ HandlerReturns
  BY <1>6 DEF TypeOK, Control, ReadFails, ReceiveResult, DrainEnds, ReceiveSummary,
              HandlerReturns
<1>7. CASE \/ CloseReadCancels \/ Disconnect \/ StallOrResume \/ StoreCloses
           \/ UNCHANGED vars
  BY <1>7 DEF Control, CloseReadCancels, Disconnect, StallOrResume, StoreCloses, vars
<1> QED
  BY <1>1, <1>2, <1>3, <1>4, <1>5, <1>6, <1>7
  DEF Next, CoordStep, HandlerStep

-----------------------------------------------------------------------------
(* The results slice and what is persisted.                                *)

(* Appending a value adds that value to the range of a sequence and no     *)
(* other.                                                                  *)
LEMMA AppendRange ==
  ASSUME NEW S, NEW seq \in Seq(S), NEW e \in S, NEW x
  PROVE  InRange(x, Append(seq, e)) <=> InRange(x, seq) \/ x = e
<1>1. /\ Len(Append(seq, e)) = Len(seq) + 1
      /\ \A i \in 1..Len(seq) : Append(seq, e)[i] = seq[i]
      /\ Append(seq, e)[Len(seq) + 1] = e
      /\ Len(seq) \in Nat
  OBVIOUS
<1> QED
  BY <1>1 DEF InRange

(* Appending a value that is not there keeps a sequence free of            *)
(* duplicates.                                                             *)
LEMMA AppendDistinct ==
  ASSUME NEW S, NEW seq \in Seq(S), NEW e \in S, Distinct(seq), ~InRange(e, seq)
  PROVE  Distinct(Append(seq, e))
<1>1. /\ Len(Append(seq, e)) = Len(seq) + 1
      /\ \A i \in 1..Len(seq) : Append(seq, e)[i] = seq[i]
      /\ Append(seq, e)[Len(seq) + 1] = e
      /\ Len(seq) \in Nat
  OBVIOUS
<1> QED
  BY <1>1 DEF InRange, Distinct

(* While the context is live the slice holds the result of every worker    *)
(* that has ended.                                                         *)
LEMMA CollectedStep ==
  ASSUME TypeOK, Control, Collected, [Next]_vars
  PROVE  Collected'
<1>1. ASSUME NEW r \in Resolvers, Acquire(r) PROVE Collected'
  BY <1>1 DEF TypeOK, Collected, Acquire
<1>2. ASSUME NEW r \in Resolvers, QueryReturns(r) PROVE Collected'
  BY <1>2 DEF TypeOK, Collected, QueryReturns, Outcomes
<1>3. ASSUME NEW r \in Resolvers, SendResult(r) PROVE Collected'
  BY <1>3 DEF TypeOK, Collected, SendResult
<1>4. ASSUME NEW r \in Resolvers, DropResult(r) PROVE Collected'
  BY <1>4 DEF TypeOK, Collected, DropResult
<1>5. ASSUME NEW r \in Resolvers, AppendResult(r) PROVE Collected'
  <2>1. results \in Seq(Resolvers) /\ results' = Append(results, r)
    BY <1>5 DEF TypeOK, AppendResult
  <2>2. ~InRange(r, results)
    BY <1>5 DEF Collected, AppendResult
  <2>3. Distinct(results')
    BY <2>1, <2>2, AppendDistinct DEF Collected
  <2>4. \A x \in Resolvers : InRange(x, results)' <=> InRange(x, results) \/ x = r
    BY <2>1, AppendRange DEF InRange
  <2> QED
    BY <1>5, <2>3, <2>4 DEF TypeOK, Collected, AppendResult
<1>6. CASE StartStream
  BY <1>6 DEF TypeOK, Control, Collected, StartStream
<1>7. CASE HandlerReturns \/ CloseReadCancels
  BY <1>7 DEF Collected, InRange, HandlerReturns, CloseReadCancels
<1>8. CASE UNCHANGED <<ctx, worker, outcome, results>>
  BY <1>8 DEF Collected, InRange, Distinct
<1>9. \/ \E r \in Resolvers : WorkerStep(r)
      \/ StartStream \/ HandlerReturns \/ CloseReadCancels
      \/ UNCHANGED <<ctx, worker, outcome, results>>
  BY DEF Next, CoordStep, RequestArrives, HandlerStep, vars, WaitReturns, CheckContext,
         SaveCheck, SendSummary, CloseDone, CloseResult, ReadFails, RejectRequest,
         SendWSError, WriteTotal, ReceiveResult, WriteResult, DrainEnds,
         ReceiveSummary, WriteDone, Disconnect, StallOrResume, StoreCloses
<1> QED
  BY <1>1, <1>2, <1>3, <1>4, <1>5, <1>6, <1>7, <1>8, <1>9 DEF WorkerStep

(* A persisted list stays complete: nothing is saved before wg.Wait, and   *)
(* after it the outcomes no longer change.                                 *)
LEMMA PersistedStep ==
  ASSUME TypeOK, Control, Collected, PersistedComplete, [Next]_vars
  PROVE  PersistedComplete'
<1>1. CASE SaveCheck
  <2>1. CASE UNCHANGED stored
    BY <1>1, <2>1 DEF PersistedComplete, SaveCheck
  <2>2. CASE ctx = "live" /\ stored' = stored \cup {results}
    <3>1. \A r \in Resolvers : worker[r] = "exit"
      BY <1>1 DEF Control, SaveCheck
    <3>2. Distinct(results) /\ \A r \in Resolvers : InRange(r, results)
      BY <2>2, <3>1 DEF Collected
    <3>3. \A r \in Resolvers : outcome[r] \in {"answer", "failed"}
      BY <2>2, <3>1 DEF Collected, Outcomes
    <3> QED
      BY <1>1, <2>2, <3>2, <3>3 DEF PersistedComplete, SaveCheck
  <2> QED
    BY <1>1, <2>1, <2>2 DEF SaveCheck
<1>2. CASE stored = {} /\ stored' = stored
  BY <1>2 DEF PersistedComplete
<1>3. CASE UNCHANGED <<stored, outcome>>
  BY <1>3 DEF PersistedComplete
<1>4. ASSUME NEW r \in Resolvers, QueryReturns(r) PROVE stored = {} /\ stored' = stored
  BY <1>4 DEF TypeOK, Control, QueryReturns
<1>5. \/ SaveCheck
      \/ \E r \in Resolvers : QueryReturns(r)
      \/ UNCHANGED <<stored, outcome>>
  BY DEF Next, WorkerStep, Acquire, SendResult, DropResult, AppendResult, CoordStep,
         RequestArrives, HandlerStep, vars, WaitReturns, CheckContext, SendSummary,
         CloseDone, CloseResult, ReadFails, RejectRequest, StartStream, SendWSError,
         WriteTotal, ReceiveResult, WriteResult, DrainEnds, ReceiveSummary, WriteDone,
         HandlerReturns, CloseReadCancels, Disconnect, StallOrResume, StoreCloses
<1> QED
  BY <1>1, <1>2, <1>3, <1>4, <1>5

-----------------------------------------------------------------------------
(* The theorems.                                                           *)

(* SafetyInv holds initially and every step preserves it.                  *)
LEMMA SafetyInvariant == Spec => []SafetyInv
<1>1. Init => SafetyInv
  <2> SUFFICES ASSUME Init PROVE SafetyInv
    OBVIOUS
  <2>1. TypeOK
    BY TypeInit
  <2>2. SemCounts
    <3>1. Holding = {}
      BY DEF Init, Holding
    <3> QED
      BY <3>1, FS_EmptySet DEF Init, SemCounts
  <2>3. Control /\ PersistedComplete
    BY DEF Init, Control, PersistedComplete
  <2>4. Collected
    BY DEF Init, Collected, Distinct, InRange
  <2> QED
    BY <2>1, <2>2, <2>3, <2>4 DEF SafetyInv
<1>2. SafetyInv /\ [Next]_vars => SafetyInv'
  BY TypeStep, SemStep, ControlStep, CollectedStep, PersistedStep DEF SafetyInv
<1> QED
  BY <1>1, <1>2, PTL DEF Spec

(* Type correctness of every state of a streamed check; the semaphore of   *)
(* Stream stays within 0..Slots, whatever path the workers leave by.       *)
THEOREM TypeCorrect == Spec => []TypeOK
<1>1. SafetyInv => TypeOK
  BY DEF SafetyInv
<1> QED
  BY <1>1, SafetyInvariant, PTL

(* Stream persists complete checks only, for every number of resolvers,    *)
(* concurrency and channel capacity: no disconnect, however timed, leaves  *)
(* a check in the store that lacks a result or holds an aborted query.     *)
THEOREM PersistedIsComplete == Spec => []PersistedComplete
<1>1. SafetyInv => PersistedComplete
  BY DEF SafetyInv
<1> QED
  BY <1>1, SafetyInvariant, PTL

(* No goroutine of Stream ever sends on a channel that is closed.          *)
THEOREM NeverSendsOnClosed == Spec => []NoSendAfterClose
<1>1. SafetyInv => NoSendAfterClose
  BY DEF SafetyInv, Control, NoSendAfterClose, TypeOK
<1> QED
  BY <1>1, SafetyInvariant, PTL

-----------------------------------------------------------------------------
(***************************************************************************)
(* CheckStream implements StreamedCheck, and done is the last of all       *)
(* frames, for every number of resolvers, semaphore size and channel       *)
(* capacity.                                                               *)
(*                                                                         *)
(* On top of SafetyInv the proof follows a result on its way from the      *)
(* worker through resultCh and the hand of the handler to the socket:      *)
(* while the handler still listens nothing is lost (Flow), nothing is      *)
(* there twice (Once), and what was written depends on how far the handler *)
(* came (Written).                                                         *)
(***************************************************************************)

Sent(r) == InRange(Frame("result", r), frames)

HasDone == \E i \in 1..Len(frames) : frames[i].type = "done"

Written ==
    /\ handler \in {"read", "reject", "total"} => frames = <<>>
    /\ handler \in {"drain", "write", "summary", "done"} =>
          Len(frames) > 0 /\ frames[1].type = "total"
    /\ HasDone => handler \in {"return", "exit"} /\ coord = "exit"
    /\ inHand # 0 => handler = "write"
    /\ handler = "write" => inHand # 0

Flow ==
    /\ handler \in {"total", "drain", "write", "summary", "done"} =>
          \A r \in Resolvers : worker[r] = "append" \/ InRange(r, results) =>
              InRange(r, resultCh) \/ inHand = r \/ Sent(r)
    /\ handler \in {"summary", "done"} => coord = "exit" /\ resultCh = <<>>
    /\ coord \in {"save", "send"} \/ doneCh = 1 \/ handler = "done" =>
          \A r \in Resolvers : InRange(r, results)

Once ==
    /\ Distinct(frames) /\ Distinct(resultCh)
    /\ \A r \in Resolvers :
          /\ InRange(r, resultCh) => inHand # r /\ ~Sent(r)
          /\ inHand = r => ~Sent(r)
          /\ InRange(r, resultCh) \/ inHand = r \/ Sent(r) => worker[r] \in {"append", "exit"}

Delivery == Written /\ Flow /\ Once /\ DoneAfterEveryResult

-----------------------------------------------------------------------------
(* Sequences and frames.                                                   *)

(* What taking the head off a sequence leaves.                             *)
LEMMA TailRange ==
  ASSUME NEW S, NEW seq \in Seq(S), seq # <<>>
  PROVE  /\ Head(seq) \in S /\ Tail(seq) \in Seq(S)
         /\ \A x : InRange(x, seq) <=> x = Head(seq) \/ InRange(x, Tail(seq))
         /\ Distinct(seq) => Distinct(Tail(seq)) /\ ~InRange(Head(seq), Tail(seq))
<1>1. /\ Len(seq) \in Nat /\ Len(seq) >= 1 /\ Head(seq) = seq[1] /\ Head(seq) \in S
      /\ Tail(seq) \in Seq(S) /\ Len(Tail(seq)) = Len(seq) - 1
      /\ \A i \in 1..Len(seq) - 1 : Tail(seq)[i] = seq[i + 1]
  OBVIOUS
<1>2. ASSUME NEW x, InRange(x, seq), x # Head(seq) PROVE InRange(x, Tail(seq))
  <2>1. PICK i \in 1..Len(seq) : seq[i] = x
    BY <1>2 DEF InRange
  <2>2. i - 1 \in 1..Len(seq) - 1 /\ Tail(seq)[i - 1] = x
    BY <1>1, <1>2, <2>1
  <2> QED
    BY <1>1, <2>2 DEF InRange
<1>3. ASSUME NEW x, x = Head(seq) \/ InRange(x, Tail(seq)) PROVE InRange(x, seq)
  <2>1. CASE x = Head(seq)
    BY <1>1, <2>1 DEF InRange
  <2>2. CASE InRange(x, Tail(seq))
    <3>1. PICK i \in 1..Len(seq) - 1 : Tail(seq)[i] = x
      BY <1>1, <2>2 DEF InRange
    <3>2. i + 1 \in 1..Len(seq) /\ seq[i + 1] = x
      BY <1>1, <3>1
    <3> QED
      BY <3>2 DEF InRange
  <2> QED
    BY <1>3, <2>1, <2>2
<1>4. ASSUME Distinct(seq) PROVE Distinct(Tail(seq)) /\ ~InRange(Head(seq), Tail(seq))
  <2>1. \A i, j \in 1..Len(seq) : seq[i] = seq[j] => i = j
    BY <1>4 DEF Distinct
  <2>2. \A i, j \in 1..Len(seq) - 1 : Tail(seq)[i] = Tail(seq)[j] => i = j
    <3> SUFFICES ASSUME NEW i \in 1..Len(seq) - 1, NEW j \in 1..Len(seq) - 1,
                        Tail(seq)[i] = Tail(seq)[j]
                 PROVE  i = j
      OBVIOUS
    <3>1. i + 1 \in 1..Len(seq) /\ j + 1 \in 1..Len(seq) /\ seq[i + 1] = seq[j + 1]
      BY <1>1
    <3> QED
      BY <1>1, <2>1, <3>1
  <2>3. \A i \in 1..Len(seq) - 1 : Tail(seq)[i] # Head(seq)
    <3> SUFFICES ASSUME NEW i \in 1..Len(seq) - 1, Tail(seq)[i] = Head(seq) PROVE FALSE
      OBVIOUS
    <3>1. i + 1 \in 1..Len(seq) /\ 1 \in 1..Len(seq) /\ seq[i + 1] = seq[1]
      BY <1>1
    <3> QED
      BY <1>1, <2>1, <3>1
  <2> QED
    BY <1>1, <2>2, <2>3 DEF Distinct, InRange
<1> QED
  BY <1>1, <1>2, <1>3, <1>4

(* Nothing is in the empty sequence.                                       *)
LEMMA EmptyRange == (\A x : ~InRange(x, << >>)) /\ Distinct(<< >>)
BY DEF InRange, Distinct

(* What is said of the frames does not change while they do not.           *)
LEMMA FramesStay ==
  ASSUME UNCHANGED frames
  PROVE  /\ \A r : Sent(r)' <=> Sent(r)
         /\ HasDone' <=> HasDone
         /\ DoneAfterEveryResult' <=> DoneAfterEveryResult
BY DEF Sent, HasDone, DoneAfterEveryResult, InRange, Distinct

(* Frames of different kinds, or about different resolvers, differ.        *)
LEMMA FrameFields ==
  ASSUME NEW type, NEW r
  PROVE  Frame(type, r).type = type /\ Frame(type, r).resolver = r
BY DEF Frame

(* One more frame.                                                         *)
LEMMA FrameAdded ==
  ASSUME TypeOK, NEW frame \in Frames, frames' = Append(frames, frame)
  PROVE  /\ frames' # <<>> /\ Len(frames') > 0
         /\ frames = <<>> => frames'[1] = frame
         /\ frames # <<>> => frames'[1] = frames[1]
         /\ \A x : InRange(x, frames') <=> InRange(x, frames) \/ x = frame
         /\ HasDone' <=> HasDone \/ frame.type = "done"
         /\ Distinct(frames) /\ ~InRange(frame, frames) => Distinct(frames')
<1>1. /\ frames \in Seq(Frames) /\ Len(frames) \in Nat
      /\ Len(frames') = Len(frames) + 1
      /\ \A i \in 1..Len(frames) : frames'[i] = frames[i]
      /\ frames'[Len(frames) + 1] = frame
      /\ frames = <<>> <=> Len(frames) = 0
  BY DEF TypeOK
<1>2. \A x : InRange(x, frames') <=> InRange(x, frames) \/ x = frame
  BY <1>1, AppendRange
<1>3. HasDone' <=> HasDone \/ frame.type = "done"
  BY <1>1 DEF HasDone
<1>4. Distinct(frames) /\ ~InRange(frame, frames) => Distinct(frames')
  BY <1>1, AppendDistinct
<1>5. frames' # <<>>
  BY <1>1
<1> QED
  BY <1>1, <1>2, <1>3, <1>4, <1>5

-----------------------------------------------------------------------------
(* The way of a result.                                                    *)

(* A worker that has not sent its result leaves no trace of it.            *)
LEMMA WorkerKeeps ==
  ASSUME SafetyInv, Delivery, NEW r \in Resolvers, WorkerStep(r)
  PROVE  Delivery'
<1>1. UNCHANGED <<handler, inHand, frames, coord, doneCh>>
  BY DEF WorkerStep, Acquire, QueryReturns, SendResult, DropResult, AppendResult
<1>2. /\ \A x : Sent(x)' <=> Sent(x)
      /\ HasDone' <=> HasDone
      /\ DoneAfterEveryResult' /\ Distinct(frames')
  BY <1>1, FramesStay DEF Delivery, Once
<1>3. Written'
  BY <1>1, <1>2 DEF Delivery, Written
<1>4. CASE Acquire(r) \/ QueryReturns(r) \/ DropResult(r)
  <2>1. /\ UNCHANGED <<results, resultCh>> /\ worker[r] \notin {"append", "exit"}
        /\ \A q \in Resolvers \ {r} : worker'[q] = worker[q]
        /\ worker'[r] # "append"
    BY <1>4 DEF SafetyInv, TypeOK, Acquire, QueryReturns, DropResult
  <2>2. Flow'
    BY <1>1, <1>2, <2>1 DEF Delivery, Flow
  <2>3. Once'
    BY <1>1, <1>2, <2>1 DEF Delivery, Once
  <2> QED
    BY <1>2, <1>3, <2>2, <2>3 DEF Delivery
<1>5. CASE SendResult(r)
  <2>1. /\ UNCHANGED results /\ worker[r] = "send" /\ worker'[r] = "append"
        /\ \A q \in Resolvers \ {r} : worker'[q] = worker[q]
        /\ resultCh \in Seq(Resolvers) /\ resultCh' = Append(resultCh, r)
    BY <1>5 DEF SafetyInv, TypeOK, SendResult
  <2>2. \A q : InRange(q, resultCh') <=> InRange(q, resultCh) \/ q = r
    BY <2>1, AppendRange
  <2>3. Distinct(resultCh')
    BY <2>1, AppendDistinct DEF Delivery, Once
  <2>4. coord \in {"idle", "wait"}
    BY <2>1 DEF SafetyInv, Control
  <2>5. Flow'
    BY <1>1, <1>2, <2>1, <2>2, <2>4 DEF Delivery, Flow
  <2>6. Once'
    BY <1>1, <1>2, <2>1, <2>2, <2>3 DEF Delivery, Once
  <2> QED
    BY <1>2, <1>3, <2>5, <2>6 DEF Delivery
<1>6. CASE AppendResult(r)
  <2>1. /\ UNCHANGED resultCh /\ worker[r] = "append" /\ worker'[r] = "exit"
        /\ \A q \in Resolvers \ {r} : worker'[q] = worker[q]
        /\ results \in Seq(Resolvers) /\ results' = Append(results, r)
    BY <1>6 DEF SafetyInv, TypeOK, AppendResult
  <2>2. \A q : InRange(q, results') <=> InRange(q, results) \/ q = r
    BY <2>1, AppendRange
  <2>3. Flow'
    BY <1>1, <1>2, <2>1, <2>2 DEF Delivery, Flow
  <2>4. Once'
    BY <1>1, <1>2, <2>1 DEF Delivery, Once
  <2> QED
    BY <1>2, <1>3, <2>3, <2>4 DEF Delivery
<1> QED
  BY <1>4, <1>5, <1>6 DEF WorkerStep

(* The coordinator summarises and saves only a complete slice.             *)
LEMMA CoordKeeps ==
  ASSUME SafetyInv, Delivery, CoordStep
  PROVE  Delivery'
<1>1. UNCHANGED <<handler, inHand, frames, worker, results, resultCh>>
  BY DEF CoordStep, WaitReturns, CheckContext, SaveCheck, SendSummary, CloseDone,
         CloseResult
<1>2. /\ \A x : Sent(x)' <=> Sent(x)
      /\ HasDone' <=> HasDone
      /\ DoneAfterEveryResult' /\ Distinct(frames')
  BY <1>1, FramesStay DEF Delivery, Once
<1>3. Once'
  BY <1>1, <1>2 DEF Delivery, Once
<1>4. coord # "exit"
  BY DEF CoordStep, WaitReturns, CheckContext, SaveCheck, SendSummary, CloseDone,
         CloseResult
<1>5. Written'
  BY <1>1, <1>2, <1>4 DEF Delivery, Written
<1>6. coord' \in {"save", "send"} \/ doneCh' = 1 => \A r \in Resolvers : InRange(r, results)
  <2>1. CASE CheckContext
    <3>1. ctx = "live" => \A r \in Resolvers : InRange(r, results)
      BY <2>1 DEF CheckContext, SafetyInv, Control, Collected
    <3> QED
      BY <2>1, <3>1 DEF CheckContext, Delivery, Flow, SafetyInv, TypeOK
  <2>2. CASE WaitReturns \/ SaveCheck \/ SendSummary \/ CloseDone \/ CloseResult
    BY <2>2 DEF WaitReturns, SaveCheck, SendSummary, CloseDone, CloseResult, Delivery, Flow
  <2> QED
    BY <2>1, <2>2 DEF CoordStep
<1>7. Flow'
  BY <1>1, <1>2, <1>4, <1>6 DEF Delivery, Flow
<1> QED
  BY <1>2, <1>3, <1>5, <1>7 DEF Delivery

(* Steps that leave the way of the results alone.                          *)
LEMMA DeliveryStays ==
  ASSUME Delivery, UNCHANGED <<handler, inHand, frames, worker, results, resultCh,
                               coord, doneCh>>
  PROVE  Delivery'
<1>1. /\ \A x : Sent(x)' <=> Sent(x)
      /\ HasDone' <=> HasDone
      /\ DoneAfterEveryResult' /\ Distinct(frames')
  BY FramesStay DEF Delivery, Once
<1>2. Written' /\ Flow' /\ Once'
  BY <1>1 DEF Delivery, Written, Flow, Once
<1> QED
  BY <1>1, <1>2 DEF Delivery

(* A request arrives, or none does.                                        *)
LEMMA RequestKeeps ==
  ASSUME SafetyInv, Delivery, ReadFails \/ RequestArrives
  PROVE  Delivery'
<1>1. /\ UNCHANGED <<inHand, frames, results, resultCh, doneCh>>
      /\ handler = "read" /\ handler' \in {"reject", "total"}
      /\ coord = "idle" /\ coord' \in {"idle", "wait"}
  BY DEF ReadFails, RequestArrives, RejectRequest, StartStream, SafetyInv, Control
<1>2. /\ \A x : Sent(x)' <=> Sent(x)
      /\ HasDone' <=> HasDone
      /\ DoneAfterEveryResult' /\ Distinct(frames')
  BY <1>1, FramesStay DEF Delivery, Once
<1>3. /\ \A r \in Resolvers : worker[r] = "idle" /\ worker'[r] # "append"
      /\ \A r \in Resolvers : ~InRange(r, results)
  BY <1>1 DEF ReadFails, RequestArrives, RejectRequest, StartStream, SafetyInv, Control,
              Collected
<1>4. Written'
  BY <1>1, <1>2 DEF Delivery, Written
<1>5. Flow'
  BY <1>1, <1>2, <1>3 DEF Delivery, Flow
<1>6. Once'
  BY <1>1, <1>2, <1>3 DEF Delivery, Once
<1> QED
  BY <1>2, <1>4, <1>5, <1>6 DEF Delivery

(* The handler moves on without writing.                                   *)
LEMMA HandlerKeeps ==
  ASSUME SafetyInv, Delivery, ReceiveResult \/ DrainEnds \/ ReceiveSummary \/ HandlerReturns
  PROVE  Delivery'
<1>1. UNCHANGED <<frames, worker, results, coord>>
  BY DEF ReceiveResult, DrainEnds, ReceiveSummary, HandlerReturns
<1>2. /\ \A x : Sent(x)' <=> Sent(x)
      /\ HasDone' <=> HasDone
      /\ DoneAfterEveryResult' /\ Distinct(frames')
  BY <1>1, FramesStay DEF Delivery, Once
<1>3. CASE ReceiveResult
  <2>1. /\ resultCh \in Seq(Resolvers) /\ resultCh # <<>> /\ handler = "drain"
        /\ inHand' = Head(resultCh) /\ resultCh' = Tail(resultCh)
        /\ handler' = "write" /\ UNCHANGED doneCh
    BY <1>3 DEF ReceiveResult, SafetyInv, TypeOK
  <2>2. inHand' \in Resolvers /\ inHand' # 0 /\ inHand = 0
    <3>1. inHand' \in Resolvers
      BY <2>1, TailRange
    <3> QED
      BY <2>1, <3>1, NAssumption DEF Resolvers, Delivery, Written
  <2>3. \A q : InRange(q, resultCh) <=> q = inHand' \/ InRange(q, resultCh')
    BY <2>1, TailRange
  <2>4. Distinct(resultCh') /\ ~InRange(inHand', resultCh')
    BY <2>1, TailRange DEF Delivery, Once
  <2>5. Written'
    BY <1>1, <1>2, <2>1, <2>2 DEF Delivery, Written
  <2>6. Flow'
    BY <1>1, <1>2, <2>1, <2>2, <2>3 DEF Delivery, Flow, Resolvers
  <2>7. Once'
    BY <1>1, <1>2, <2>2, <2>3, <2>4 DEF Delivery, Once
  <2> QED
    BY <1>2, <2>5, <2>6, <2>7 DEF Delivery
<1>4. CASE DrainEnds
  <2>1. /\ UNCHANGED <<inHand, resultCh, doneCh>> /\ resultCh = <<>> /\ coord = "exit"
        /\ handler = "drain" /\ handler' = "summary"
    BY <1>4 DEF DrainEnds, SafetyInv, Control
  <2>2. Written' /\ Flow' /\ Once'
    BY <1>1, <1>2, <2>1 DEF Delivery, Written, Flow, Once
  <2> QED
    BY <1>2, <2>2 DEF Delivery
<1>5. CASE ReceiveSummary
  <2>1. /\ UNCHANGED <<inHand, resultCh>> /\ handler = "summary"
        /\ \/ doneCh = 1 /\ handler' = "done" /\ doneCh' = 0
           \/ handler' = "return" /\ UNCHANGED doneCh
    BY <1>5 DEF ReceiveSummary
  <2>2. Written' /\ Flow' /\ Once'
    BY <1>1, <1>2, <2>1 DEF Delivery, Written, Flow, Once
  <2> QED
    BY <1>2, <2>2 DEF Delivery
<1>6. CASE HandlerReturns
  <2>1. /\ UNCHANGED <<inHand, resultCh, doneCh>> /\ handler = "return"
        /\ handler' = "exit"
    BY <1>6 DEF HandlerReturns
  <2>2. Written' /\ Flow' /\ Once'
    BY <1>1, <1>2, <2>1 DEF Delivery, Written, Flow, Once
  <2> QED
    BY <1>2, <2>2 DEF Delivery
<1> QED
  BY <1>3, <1>4, <1>5, <1>6

(* No resolver has number zero.                                            *)
LEMMA ZeroIsNone == \A r \in Resolvers : r # 0 /\ r \in 0..N
BY NAssumption DEF Resolvers

(* A failed write ends the handler; what it held is lost with the client.  *)
LEMMA WriteFailsKeeps ==
  ASSUME Delivery, UNCHANGED <<frames, worker, results, resultCh, coord, doneCh>>,
         inHand' = 0, handler' = "return"
  PROVE  Delivery'
<1>1. /\ \A x : Sent(x)' <=> Sent(x)
      /\ HasDone' <=> HasDone
      /\ DoneAfterEveryResult' /\ Distinct(frames')
  BY FramesStay DEF Delivery, Once
<1>2. Written' /\ Flow'
  BY <1>1 DEF Delivery, Written, Flow
<1>3. Once'
  BY <1>1, ZeroIsNone DEF Delivery, Once
<1> QED
  BY <1>1, <1>2, <1>3 DEF Delivery

(* The frames before done: an error, the total, a result.                  *)
LEMMA WritesKeep ==
  ASSUME SafetyInv, Delivery, SendWSError \/ WriteTotal \/ WriteResult
  PROVE  Delivery'
<1>1. /\ UNCHANGED <<worker, results, resultCh, coord, doneCh>>
      /\ inHand' = 0 /\ ~HasDone /\ DoneAfterEveryResult
  BY DEF SendWSError, WriteTotal, WriteResult, Delivery, Written
<1>2. CASE UNCHANGED frames /\ handler' = "return"
  BY <1>1, <1>2, WriteFailsKeeps
<1>3. ASSUME NEW frame \in Frames, frames' = Append(frames, frame), frame.type # "done"
      PROVE  ~HasDone' /\ DoneAfterEveryResult'
  <2>1. ~HasDone'
    BY <1>1, <1>3, FrameAdded DEF SafetyInv
  <2> QED
    BY <2>1 DEF HasDone, DoneAfterEveryResult
<1>4. CASE /\ SendWSError \/ WriteTotal
           /\ frames' = Append(frames, Frame("error", 0))
              \/ frames' = Append(frames, Frame("total", 0))
           /\ handler' = "return" \/ (handler' = "drain" /\ WriteTotal)
           /\ WriteTotal => frames' = Append(frames, Frame("total", 0))
  <2>1. PICK t \in {"error", "total"} :
            /\ frames' = Append(frames, Frame(t, 0))
            /\ handler' = "return"
               \/ (handler' = "drain" /\ t = "total" /\ handler = "total")
    BY <1>4 DEF WriteTotal
  <2>2. /\ Frame(t, 0) \in Frames /\ Frame(t, 0).type = t
        /\ \A r \in Resolvers : Frame("result", r) # Frame(t, 0)
    BY NAssumption, FrameTyped, FrameFields
  <2>3. frames = <<>> /\ handler \in {"reject", "total"}
    BY <1>4 DEF SendWSError, WriteTotal, Delivery, Written
  <2>4. /\ Len(frames') > 0 /\ frames'[1] = Frame(t, 0)
        /\ \A x : InRange(x, frames') <=> InRange(x, frames) \/ x = Frame(t, 0)
        /\ Distinct(frames) /\ ~InRange(Frame(t, 0), frames) => Distinct(frames')
    BY <2>1, <2>2, <2>3, FrameAdded DEF SafetyInv
  <2>5. Distinct(frames')
    BY <2>3, <2>4, EmptyRange
  <2>6. \A r \in Resolvers : Sent(r)' <=> Sent(r)
    BY <2>2, <2>4 DEF Sent
  <2>7. ~HasDone' /\ DoneAfterEveryResult'
    BY <1>3, <2>1, <2>2
  <2>8. inHand = 0
    BY <2>3 DEF Delivery, Written
  <2>9. Written'
    BY <1>1, <2>1, <2>2, <2>4, <2>7 DEF Written
  <2>10. Flow'
    BY <1>1, <2>1, <2>3, <2>6, <2>8 DEF Delivery, Flow
  <2>11. Once'
    BY <1>1, <2>5, <2>6, <2>8 DEF Delivery, Once
  <2> QED
    BY <2>7, <2>9, <2>10, <2>11 DEF Delivery
<1>5. CASE /\ WriteResult
           /\ frames' = Append(frames, Frame("result", inHand))
           /\ handler' = "drain"
  <2>1. PICK q \in Resolvers : q = inHand
    BY <1>5 DEF WriteResult, Delivery, Written, SafetyInv, TypeOK, Resolvers
  <2>2. handler = "write" /\ frames' = Append(frames, Frame("result", q))
    BY <1>5, <2>1 DEF WriteResult
  <2>3. /\ Frame("result", q) \in Frames /\ Frame("result", q).type = "result"
        /\ \A r : Frame("result", r) = Frame("result", q) => r = q
    BY FrameTyped, FrameFields, ZeroIsNone
  <2>4. frames # <<>> /\ frames[1].type = "total" /\ ~Sent(q)
    BY <2>1, <2>2 DEF Delivery, Written, Once
  <2>5. /\ Len(frames') > 0 /\ frames'[1] = frames[1]
        /\ \A x : InRange(x, frames') <=> InRange(x, frames) \/ x = Frame("result", q)
        /\ Distinct(frames) /\ ~InRange(Frame("result", q), frames) => Distinct(frames')
    BY <2>2, <2>3, <2>4, FrameAdded DEF SafetyInv
  <2>6. Distinct(frames')
    BY <2>4, <2>5 DEF Sent, Delivery, Once
  <2>7. \A r \in Resolvers : Sent(r)' <=> Sent(r) \/ r = q
    BY <2>3, <2>5 DEF Sent
  <2>8. ~HasDone' /\ DoneAfterEveryResult'
    BY <1>3, <2>2, <2>3
  <2>9. Written'
    BY <1>1, <1>5, <2>4, <2>5, <2>8 DEF Written
  <2>10. Flow'
    BY <1>1, <1>5, <2>1, <2>2, <2>7 DEF Delivery, Flow
  <2>11. Once'
    BY <1>1, <2>1, <2>6, <2>7, ZeroIsNone DEF Delivery, Once
  <2> QED
    BY <2>8, <2>9, <2>10, <2>11 DEF Delivery
<1> QED
  BY <1>2, <1>4, <1>5 DEF SendWSError, WriteTotal, WriteResult, Write

(* When the handler is about to write done, every result was written.      *)
LEMMA DoneIsDue ==
  ASSUME SafetyInv, Delivery, handler = "done"
  PROVE  /\ \A r \in Resolvers : Sent(r)
         /\ coord = "exit" /\ inHand = 0 /\ ~HasDone
         /\ frames # <<>> /\ frames[1].type = "total"
<1>1. \A r \in Resolvers : InRange(r, resultCh) \/ inHand = r \/ Sent(r)
  BY DEF Delivery, Flow
<1>2. inHand = 0 /\ coord = "exit" /\ resultCh = <<>> /\ ~HasDone
      /\ Len(frames) > 0 /\ frames[1].type = "total"
  BY DEF Delivery, Written, Flow
<1> QED
  BY <1>1, <1>2, EmptyRange, ZeroIsNone

(* The done frame.                                                         *)
LEMMA WriteDoneKeeps ==
  ASSUME SafetyInv, Delivery, WriteDone
  PROVE  Delivery'
<1>1. /\ UNCHANGED <<inHand, worker, results, resultCh, coord, doneCh>>
      /\ handler = "done" /\ handler' = "return"
      /\ UNCHANGED frames \/ frames' = Append(frames, Frame("done", 0))
  BY DEF WriteDone, Write
<1>2. /\ \A r \in Resolvers : Sent(r)
      /\ coord = "exit" /\ inHand = 0 /\ ~HasDone
      /\ frames # <<>> /\ frames[1].type = "total"
  BY <1>1, DoneIsDue
<1>3. CASE UNCHANGED frames
  BY <1>1, <1>2, <1>3, WriteFailsKeeps
<1>4. CASE frames' = Append(frames, Frame("done", 0))
  <2>1. /\ Frame("done", 0) \in Frames /\ Frame("done", 0).type = "done"
        /\ \A r : Frame("result", r) # Frame("done", 0)
    BY NAssumption, FrameTyped, FrameFields
  <2>2. ~InRange(Frame("done", 0), frames)
    BY <1>2, <2>1 DEF InRange, HasDone
  <2>3. /\ frames'[1] = frames[1]
        /\ \A x : InRange(x, frames') <=> InRange(x, frames) \/ x = Frame("done", 0)
        /\ Distinct(frames')
    BY <1>2, <1>4, <2>1, <2>2, FrameAdded DEF SafetyInv, Delivery, Once
  <2>4. \A r \in Resolvers : Sent(r)' <=> Sent(r)
    BY <2>1, <2>3 DEF Sent
  <2>5. DoneAfterEveryResult'
    <3>1. \A i \in 1..Len(frames') : frames'[i].type = "done" => i = Len(frames')
      <4>1. frames \in Seq(Frames) /\ Len(frames) \in Nat /\ Len(frames') = Len(frames) + 1
            /\ \A i \in 1..Len(frames) : frames'[i] = frames[i]
        BY <1>4, <2>1 DEF SafetyInv, TypeOK
      <4> QED
        BY <1>2, <4>1 DEF HasDone
    <3>2. \A r \in Resolvers : InRange(Frame("result", r), frames')
      BY <1>2, <2>3 DEF Sent
    <3> QED
      BY <1>2, <2>3, <3>1, <3>2 DEF DoneAfterEveryResult
  <2>6. Written' /\ Flow'
    BY <1>1, <1>2 DEF Delivery, Written, Flow
  <2>7. Once'
    BY <1>1, <2>3, <2>4 DEF Delivery, Once
  <2> QED
    BY <2>5, <2>6, <2>7 DEF Delivery
<1> QED
  BY <1>1, <1>3, <1>4

(* Results stay on their way, whatever happens.                            *)
LEMMA DeliveryStep ==
  ASSUME SafetyInv, Delivery, [Next]_vars
  PROVE  Delivery'
<1>1. CASE \/ CloseReadCancels \/ Disconnect \/ StallOrResume \/ StoreCloses
           \/ UNCHANGED vars
  BY <1>1, DeliveryStays
  DEF CloseReadCancels, Disconnect, StallOrResume, StoreCloses, vars
<1> QED
  BY <1>1, WorkerKeeps, CoordKeeps, RequestKeeps, HandlerKeeps, WritesKeep, WriteDoneKeeps
  DEF Next, HandlerStep

(* Both invariants together.                                               *)
LEMMA DeliveryInvariant == Spec => [](SafetyInv /\ Delivery)
<1>1. Init => Delivery
  <2> SUFFICES ASSUME Init PROVE Delivery
    OBVIOUS
  <2>1. frames = <<>> /\ resultCh = <<>> /\ results = <<>> /\ inHand = 0
        /\ handler = "read" /\ coord = "idle" /\ doneCh = 0
    BY DEF Init
  <2>2. ~HasDone /\ DoneAfterEveryResult /\ \A r : ~Sent(r)
    BY <2>1 DEF HasDone, DoneAfterEveryResult, Sent, InRange
  <2>3. Written /\ Flow /\ Once
    BY <2>1, <2>2, EmptyRange, ZeroIsNone DEF Written, Flow, Once
  <2> QED
    BY <2>2, <2>3 DEF Delivery
<1>2. SafetyInv /\ Delivery /\ [Next]_vars => Delivery'
  BY DeliveryStep
<1> QED
  BY <1>1, <1>2, SafetyInvariant, PTL DEF Spec

-----------------------------------------------------------------------------
(* Theorems.                                                               *)

(* A client that is told "done" was sent the total first and the result of *)
(* every resolver exactly once, and is sent nothing afterwards, for every  *)
(* number of resolvers and every channel capacity.                         *)
THEOREM DoneComesLast == Spec => []DoneAfterEveryResult
<1>1. SafetyInv /\ Delivery => DoneAfterEveryResult
  BY DEF Delivery
<1> QED
  BY <1>1, DeliveryInvariant, PTL

(* Of all steps of the server only four change what the page sees.         *)
LEMMA PageStep ==
  ASSUME SafetyInv, Delivery, [Next]_vars
  PROVE  \/ SaveCheck \/ SendWSError \/ WriteTotal \/ WriteResult \/ WriteDone
         \/ UNCHANGED <<frames, stored>>
BY DEF Next, WorkerStep, Acquire, QueryReturns, SendResult, DropResult, AppendResult,
       CoordStep, RequestArrives, HandlerStep, vars, WaitReturns, CheckContext, SendSummary,
       CloseDone, CloseResult, ReadFails, RejectRequest, StartStream, ReceiveResult,
       DrainEnds, ReceiveSummary, HandlerReturns, CloseReadCancels, Disconnect,
       StallOrResume, StoreCloses

(* The view of the page: which results it shows, and whether it is done.   *)
Shown == {r \in Resolvers : InRange(Frame("result", r), frames)}
Done == InRange(Frame("done", 0), frames)
Saved == stored # {}

(* The done frame is there only at the end.                                *)
LEMMA DoneMeansDone ==
  ASSUME ~HasDone
  PROVE  ~Done
BY FrameFields DEF Done, HasDone, InRange

(* A frame that is neither a result nor done changes nothing on the page.  *)
LEMMA OtherFrame ==
  ASSUME SafetyInv, NEW t \in {"error", "total"},
         UNCHANGED frames \/ frames' = Append(frames, Frame(t, 0))
  PROVE  Shown' = Shown /\ Done' = Done
<1>1. CASE UNCHANGED frames
  BY <1>1 DEF Shown, Done, InRange
<1>2. CASE frames' = Append(frames, Frame(t, 0))
  <2>1. /\ Frame(t, 0) \in Frames
        /\ \A r : Frame("result", r) # Frame(t, 0)
        /\ Frame("done", 0) # Frame(t, 0)
    BY NAssumption, FrameTyped, FrameFields
  <2>2. \A x : InRange(x, frames') <=> InRange(x, frames) \/ x = Frame(t, 0)
    BY <1>2, <2>1, FrameAdded DEF SafetyInv
  <2>3. Shown' = Shown
    BY <2>1, <2>2 DEF Shown
  <2>4. Done' = Done
    BY <2>1, <2>2 DEF Done, InRange
  <2> QED
    BY <2>3, <2>4
<1> QED
  BY <1>1, <1>2

(* Every step of the server is a step of the page or none.                 *)
LEMMA PageSimulates ==
  ASSUME SafetyInv, Delivery, [Next]_vars
  PROVE  [Page!Next]_<<Shown, Saved, Done>>
<1>1. CASE UNCHANGED <<frames, stored>>
  BY <1>1 DEF Shown, Saved, Done, InRange
<1>2. CASE SaveCheck
  <2>1. UNCHANGED frames /\ Shown' = Shown /\ Done' = Done
    BY <1>2 DEF SaveCheck, Shown, Done, InRange
  <2>2. stored = {} /\ ~Done
    BY <1>2, DoneMeansDone DEF SaveCheck, SafetyInv, Control, Delivery, Written
  <2>3. stored' = stored \/ stored' # {}
    BY <1>2 DEF SaveCheck
  <2> QED
    BY <2>1, <2>2, <2>3 DEF Page!Next, Page!Keep, Shown, Saved, Done
<1>3. CASE SendWSError \/ WriteTotal
  <2>1. PICK t \in {"error", "total"} :
            UNCHANGED frames \/ frames' = Append(frames, Frame(t, 0))
    BY <1>3 DEF SendWSError, WriteTotal, Write
  <2>2. Shown' = Shown /\ Done' = Done
    BY <2>1, OtherFrame
  <2>3. Saved' = Saved
    BY <1>3 DEF SendWSError, WriteTotal, Saved
  <2> QED
    BY <2>2, <2>3
<1>4. CASE WriteResult
  <2>1. Saved' = Saved /\ handler = "write"
    BY <1>4 DEF WriteResult, Saved
  <2>2. CASE UNCHANGED frames
    BY <2>1, <2>2 DEF Shown, Done, InRange
  <2>3. CASE frames' = Append(frames, Frame("result", inHand))
    <3>1. PICK q \in Resolvers : q = inHand
      BY <2>1 DEF Delivery, Written, SafetyInv, TypeOK, Resolvers
    <3>2. /\ Frame("result", q) \in Frames
          /\ \A r : Frame("result", r) = Frame("result", q) => r = q
          /\ Frame("done", 0) # Frame("result", q)
      BY FrameTyped, FrameFields, ZeroIsNone
    <3>3. \A x : InRange(x, frames') <=> InRange(x, frames) \/ x = Frame("result", q)
      BY <2>3, <3>1, <3>2, FrameAdded DEF SafetyInv
    <3>4. Shown' = Shown \cup {q}
      BY <3>2, <3>3 DEF Shown
    <3>5. Done' = Done
      BY <3>2, <3>3 DEF Done, InRange
    <3>6. ~Done
      BY <2>1, DoneMeansDone DEF Delivery, Written
    <3> QED
      BY <2>1, <3>4, <3>5, <3>6 DEF Page!Next, Page!Show, Shown, Saved, Done
  <2> QED
    BY <1>4, <2>2, <2>3 DEF WriteResult, Write
<1>5. CASE WriteDone
  <2>1. Saved' = Saved /\ handler = "done"
    BY <1>5 DEF WriteDone, Saved
  <2>2. CASE UNCHANGED frames
    BY <2>1, <2>2 DEF Shown, Done, InRange
  <2>3. CASE frames' = Append(frames, Frame("done", 0))
    <3>1. (\A r \in Resolvers : Sent(r)) /\ ~Done
      BY <2>1, DoneIsDue, DoneMeansDone
    <3>2. /\ Frame("done", 0) \in Frames
          /\ \A r : Frame("result", r) # Frame("done", 0)
      BY NAssumption, FrameTyped, FrameFields
    <3>3. \A x : InRange(x, frames') <=> InRange(x, frames) \/ x = Frame("done", 0)
      BY <2>3, <3>2, FrameAdded DEF SafetyInv
    <3>4. Shown = Resolvers /\ Shown' = Shown
      BY <3>1, <3>2, <3>3 DEF Shown, Sent
    <3>5. Done'
      BY <3>3 DEF Done
    <3> QED
      BY <2>1, <3>1, <3>4, <3>5 DEF Page!Next, Page!Finish, Shown, Saved, Done
  <2> QED
    BY <1>5, <2>2, <2>3 DEF WriteDone, Write
<1> QED
  BY <1>1, <1>2, <1>3, <1>4, <1>5, PageStep

(* The server implements the streamed check a page relies on: results are  *)
(* shown before done, every resolver is shown when done comes, and nothing *)
(* is saved after it.                                                      *)
THEOREM ImplementsStreamedCheck == Spec => IsStreamedCheck
<1>1. Init => Page!Init
  <2> SUFFICES ASSUME Init PROVE Page!Init
    OBVIOUS
  <2>1. frames = <<>> /\ stored = {}
    BY DEF Init
  <2> QED
    BY <2>1, EmptyRange DEF Page!Init
<1>2. SafetyInv /\ Delivery /\ [Next]_vars => [Page!Next]_<<Shown, Saved, Done>>
  BY PageSimulates
<1>3. SafetyInv /\ Delivery /\ [Next]_vars =>
        [Page!Next]_<<{r \in Resolvers : InRange(Frame("result", r), frames)},
                      stored # {}, InRange(Frame("done", 0), frames)>>
  BY <1>2 DEF Shown, Saved, Done
<1> QED
  BY <1>1, <1>3, DeliveryInvariant, PTL DEF Spec, IsStreamedCheck, Page!Spec
=============================================================================
