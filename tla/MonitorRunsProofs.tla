-------------------------- MODULE MonitorRunsProofs --------------------------
(***************************************************************************)
(* Proofs about MonitorRuns and MonitorHistory, for any number of          *)
(* concurrent requests, ids, values and faults.                            *)
(*                                                                         *)
(* PropagationHasExpected is not inductive alone: what protects a stored   *)
(* propagation monitor from a run that writes a stale copy with an empty   *)
(* baseline is that such a copy is a whole change monitor (CopiesValid).   *)
(*                                                                         *)
(* NotifiedWasSent needs the requests that have sent an alert and are      *)
(* still to record it (Accounted): these and the marks in the changelog    *)
(* are together no more than the alerts.                                   *)
(*                                                                         *)
(* The last three properties rest on what the requests in flight know of   *)
(* the tables: that the monitor they have in hand is stored (Attended),    *)
(* that its baseline is the one they loaded as long as its era has not     *)
(* passed (Current), that the baseline they have replaced is one that      *)
(* nobody else can report (OwnChange), and that a run saves the value it   *)
(* is going to record (SavesObserved).                                     *)
(***************************************************************************)
EXTENDS MonitorHistory, FiniteSetTheorems, TLAPS

\* What the copies in flight are worth: a body that passed validate is valid, and a
\* run only writes back a monitor it evaluated as a change monitor.
CopiesValid ==
    \A c \in Requests :
        /\ req[c].pc \in {"create", "load", "update"} => ValidMonitor(req[c].m)
        /\ req[c].pc = "rebaseline" => req[c].m.type = "change"

Inv == TypeOK /\ CopiesValid /\ PropagationHasExpected

-----------------------------------------------------------------------------
(* Types.                                                                  *)

(* Events built by the evaluator and the handlers are typed.               *)
LEMMA EventTyped ==
  ASSUME NEW s \in Statuses, NEW v \in ValueLists, NEW n \in BOOLEAN
  PROVE  Event(s, v, n) \in Events
BY DEF Event, Events

(* A request that moves to another pc stays typed if it holds a monitor    *)
(* where the new pc demands one.                                           *)
LEMMA GotoTyped ==
  ASSUME req \in [Requests -> Request], NEW c \in Requests, NEW pc \in Pcs, Goto(c, pc),
         pc \in HasCopy => req[c].m \in Monitor
  PROVE  req' \in [Requests -> Request]
<1>1. [req[c] EXCEPT !.pc = pc] \in Request
  BY DEF Request
<1> QED
  BY <1>1 DEF Goto

(* The absent monitor is not a monitor.                                    *)
LEMMA AbsentIsNone == Absent \notin Monitor
BY DEF Absent, Monitor

(* A request in a pc of HasCopy holds a monitor, a typed one.              *)
LEMMA CopyTyped ==
  ASSUME TypeOK, NEW c \in Requests
  PROVE  /\ req[c].pc \in HasCopy => req[c].m \in Monitor
         /\ req[c].id \in Ids
         /\ req[c].ev \in Events
         /\ req[c].old \in ValueLists
         /\ req[c].m.expected \in ValueLists
BY NoValuesAssumption DEF TypeOK, Request, Monitor, Absent

(* The initial state is typed.                                             *)
LEMMA TypeInit == Init => TypeOK
<1> SUFFICES ASSUME Init PROVE TypeOK
  OBVIOUS
<1>1. NoEvent \in Events
  BY EventTyped, NoValuesAssumption DEF NoEvent, Statuses
<1>2. (CHOOSE id \in Ids : TRUE) \in Ids
  BY IdsAssumption
<1>3. [pc |-> "idle", id |-> CHOOSE id \in Ids : TRUE, m |-> Absent, ev |-> NoEvent,
       old |-> NoValues] \in Request
  BY <1>1, <1>2, NoValuesAssumption DEF Request, Pcs, HasCopy
<1>4. req \in [Requests -> Request]
  BY <1>3 DEF Init
<1> QED
  BY <1>4, BoundsAssumption DEF Init, TypeOK

(* An arriving request leaves the tables alone and brings a typed state.   *)
LEMMA ArriveTyped ==
  ASSUME TypeOK, NEW c \in Requests, NEW op, NEW pc \in Pcs, NEW id \in Ids,
         NEW m \in Monitor \cup {Absent}, Arrive(c, op, pc, id, m),
         pc \in HasCopy => m \in Monitor, issued' \subseteq Ids
  PROVE  TypeOK'
<1>1. NoEvent \in Events
  BY EventTyped, NoValuesAssumption DEF NoEvent, Statuses
<1>2. [pc |-> pc, id |-> id, m |-> m, ev |-> NoEvent, old |-> NoValues] \in Request
  BY <1>1, NoValuesAssumption DEF Request
<1>3. req' \in [Requests -> Request]
  BY <1>2 DEF TypeOK, Arrive
<1>4. made' \in 0..MaxRequests
  BY BoundsAssumption DEF TypeOK, Arrive
<1> QED
  BY <1>3, <1>4 DEF TypeOK, Arrive

(* A fault is counted within its bound.                                    *)
LEMMA FaultTyped ==
  ASSUME TypeOK, Fault \/ UNCHANGED faults
  PROVE  faults' \in 0..MaxFaults
BY BoundsAssumption DEF TypeOK, Fault

(* Appending an entry to the list of one id, or emptying it, keeps a table *)
(* of lists typed.                                                         *)
LEMMA TableTyped ==
  ASSUME NEW S, NEW f \in [Ids -> Seq(S)], NEW id \in Ids, NEW e \in S
  PROVE  /\ [f EXCEPT ![id] = Append(@, e)] \in [Ids -> Seq(S)]
         /\ [f EXCEPT ![id] = <<>>] \in [Ids -> Seq(S)]
<1>1. Append(f[id], e) \in Seq(S) /\ <<>> \in Seq(S)
  OBVIOUS
<1> QED
  BY <1>1

(* What an evaluation of a change monitor makes of the request is typed.   *)
LEMMA EvaluateTyped ==
  ASSUME TypeOK, NEW c \in Requests, req[c].pc = "check", NEW observed \in ValueLists,
         NEW check,
         EvaluateChange(c, observed) \/ EvaluatePropagation(c, check, observed)
  PROVE  req' \in [Requests -> Request]
<1>1. /\ Event("ok", observed, FALSE) \in Events
      /\ Event("changed", observed, FALSE) \in Events
      /\ Event("not_propagated", observed, FALSE) \in Events
  BY EventTyped DEF Statuses
<1>2. req[c].m \in Monitor /\ req[c].m.expected \in ValueLists
  BY CopyTyped DEF HasCopy
<1>3. [req[c].m EXCEPT !.expected = observed] \in Monitor
  BY <1>2 DEF Monitor
<1>4. req \in [Requests -> Request] /\ req[c] \in Request
  BY DEF TypeOK
<1>5. CASE EvaluateChange(c, observed)
  <2> DEFINE Captured == [req[c] EXCEPT !.pc = "rebaseline", !.m.expected = observed,
                                        !.ev = Event("ok", observed, FALSE)]
             Changed == [req[c] EXCEPT !.pc = "rebaseline", !.m.expected = observed,
                                       !.old = req[c].m.expected,
                                       !.ev = Event("changed", observed, FALSE)]
             Same == [req[c] EXCEPT !.pc = "append", !.ev = Event("ok", observed, FALSE)]
  <2>1. Captured \in Request
    BY <1>1, <1>2, <1>3, <1>4 DEF Request, Pcs, HasCopy
  <2>2. Changed \in Request
    BY <1>1, <1>2, <1>3, <1>4 DEF Request, Pcs, HasCopy
  <2>3. Same \in Request
    BY <1>1, <1>2, <1>4 DEF Request, Pcs, HasCopy
  <2>4. \/ req' = [req EXCEPT ![c] = Captured]
        \/ req' = [req EXCEPT ![c] = Changed]
        \/ req' = [req EXCEPT ![c] = Same]
    BY <1>4, <1>5, Zenon DEF EvaluateChange
  <2> QED
    BY <1>4, <2>1, <2>2, <2>3, <2>4
<1>6. CASE EvaluatePropagation(c, check, observed)
  <2>1. \A ev \in Events :
           /\ [req[c] EXCEPT !.pc = "append", !.ev = ev] \in Request
           /\ [req[c] EXCEPT !.pc = "notify", !.ev = ev] \in Request
    BY <1>2, <1>4 DEF Request, Pcs, HasCopy
  <2> QED
    BY <1>1, <1>4, <1>6, <2>1 DEF EvaluatePropagation
<1> QED
  BY <1>5, <1>6

(* consensus returns one of the value lists.                               *)
LEMMA ConsensusTyped ==
  ASSUME NEW check \in [Resolvers -> Results]
  PROVE  Consensus(check) \subseteq ValueLists
<1>1. \A r \in Resolvers : check[r].values \in ValueLists
  BY NoValuesAssumption DEF Results
<1> QED
  BY <1>1, NoValuesAssumption DEF Consensus

(* Every step keeps the types.                                             *)
LEMMA TypeStep ==
  ASSUME TypeOK, [Next]_vars
  PROVE  TypeOK'
<1> USE DEF Pcs, HasCopy
<1>1. ASSUME NEW c \in Requests, CreateMonitor(c) PROVE TypeOK'
  BY <1>1, ArriveTyped, BindingsAssumption DEF CreateMonitor, Monitor, TypeOK
<1>2. ASSUME NEW c \in Requests, UpdateMonitor(c) PROVE TypeOK'
  BY <1>2, ArriveTyped, BindingsAssumption DEF UpdateMonitor, Monitor, TypeOK
<1>3. ASSUME NEW c \in Requests, DeleteMonitor(c) \/ RunMonitor(c) PROVE TypeOK'
  BY <1>3, ArriveTyped DEF DeleteMonitor, RunMonitor, TypeOK
<1>6. ASSUME NEW c \in Requests, CreateSaves(c) PROVE TypeOK'
  <2>1. req' \in [Requests -> Request]
    BY <1>6, CopyTyped, GotoTyped DEF TypeOK, CreateSaves, StoreCall
  <2>2. faults' \in 0..MaxFaults
    BY <1>6, FaultTyped DEF CreateSaves, StoreCall
  <2>3. monitors' \in [Ids -> Monitor \cup {Absent}] /\ log' \in [Ids -> Seq(Events)]
    BY <1>6, CopyTyped DEF TypeOK, CreateSaves, StoreCall, Save
  <2> QED
    BY <1>6, <2>1, <2>2, <2>3 DEF TypeOK, CreateSaves
<1>7. ASSUME NEW c \in Requests, CreateSeeds(c) PROVE TypeOK'
  <2>0. Event("created", req[c].m.expected, FALSE) \in Events
    BY CopyTyped, EventTyped DEF Statuses
  <2>1. req' \in [Requests -> Request]
    BY <1>7, CopyTyped, GotoTyped DEF TypeOK, CreateSeeds, StoreCall
  <2>2. faults' \in 0..MaxFaults
    BY <1>7, FaultTyped DEF CreateSeeds, StoreCall
  <2>3. [log EXCEPT ![req[c].id] =
                     Append(@, Event("created", req[c].m.expected, FALSE))] \in [Ids -> Seq(Events)]
    BY CopyTyped, TableTyped, <2>0 DEF TypeOK
  <2>4. monitors' \in [Ids -> Monitor \cup {Absent}] /\ log' \in [Ids -> Seq(Events)]
    BY <1>7, <2>3 DEF TypeOK, CreateSeeds, StoreCall, AppendEvent
  <2> QED
    BY <1>7, <2>1, <2>2, <2>4 DEF TypeOK, CreateSeeds
<1>8. ASSUME NEW c \in Requests, UpdateLoads(c) PROVE TypeOK'
  <2>1. req' \in [Requests -> Request]
    BY <1>8, CopyTyped, GotoTyped DEF TypeOK, UpdateLoads
  <2>2. faults' \in 0..MaxFaults
    BY <1>8, FaultTyped DEF UpdateLoads
  <2>3. monitors' \in [Ids -> Monitor \cup {Absent}] /\ log' \in [Ids -> Seq(Events)]
    BY <1>8, CopyTyped DEF TypeOK, UpdateLoads
  <2> QED
    BY <1>8, <2>1, <2>2, <2>3 DEF TypeOK, UpdateLoads
<1>9. ASSUME NEW c \in Requests, UpdateSaves(c) PROVE TypeOK'
  <2>1. req' \in [Requests -> Request]
    BY <1>9, CopyTyped, GotoTyped DEF TypeOK, UpdateSaves, StoreCall
  <2>2. faults' \in 0..MaxFaults
    BY <1>9, FaultTyped DEF UpdateSaves, StoreCall
  <2>3. monitors' \in [Ids -> Monitor \cup {Absent}] /\ log' \in [Ids -> Seq(Events)]
    BY <1>9, CopyTyped DEF TypeOK, UpdateSaves, StoreCall, Save
  <2> QED
    BY <1>9, <2>1, <2>2, <2>3 DEF TypeOK, UpdateSaves
<1>10. ASSUME NEW c \in Requests, DeleteRow(c) PROVE TypeOK'
  <2>1. req' \in [Requests -> Request]
    BY <1>10, CopyTyped, GotoTyped DEF TypeOK, DeleteRow, StoreCall
  <2>2. faults' \in 0..MaxFaults
    BY <1>10, FaultTyped DEF DeleteRow, StoreCall
  <2>3. monitors' \in [Ids -> Monitor \cup {Absent}] /\ log' \in [Ids -> Seq(Events)]
    BY <1>10, CopyTyped DEF TypeOK, DeleteRow, StoreCall, Save
  <2> QED
    BY <1>10, <2>1, <2>2, <2>3 DEF TypeOK, DeleteRow
<1>11. ASSUME NEW c \in Requests, DeleteEvents(c) PROVE TypeOK'
  <2>1. req' \in [Requests -> Request]
    BY <1>11, CopyTyped, GotoTyped DEF TypeOK, DeleteEvents, StoreCall
  <2>2. faults' \in 0..MaxFaults
    BY <1>11, FaultTyped DEF DeleteEvents, StoreCall
  <2>3. [log EXCEPT ![req[c].id] = <<>>] \in [Ids -> Seq(Events)]
    BY CopyTyped, TableTyped DEF TypeOK
  <2>4. monitors' \in [Ids -> Monitor \cup {Absent}] /\ log' \in [Ids -> Seq(Events)]
    BY <1>11, <2>3 DEF TypeOK, DeleteEvents, StoreCall
  <2> QED
    BY <1>11, <2>1, <2>2, <2>4, CopyTyped DEF TypeOK, DeleteEvents
<1>12. ASSUME NEW c \in Requests, RunLoads(c) PROVE TypeOK'
  <2>1. req' \in [Requests -> Request]
    <3>1. CASE Goto(c, "idle")
      BY <3>1, GotoTyped DEF TypeOK
    <3>2. CASE /\ monitors[req[c].id] # Absent
               /\ req' = [req EXCEPT ![c].pc = "check", ![c].m = monitors[req[c].id]]
      <4>1. monitors[req[c].id] \in Monitor
        BY <3>2, CopyTyped DEF TypeOK
      <4>2. [req[c] EXCEPT !.pc = "check", !.m = monitors[req[c].id]] \in Request
        BY <4>1 DEF TypeOK, Request
      <4> QED
        BY <3>2, <4>2 DEF TypeOK
    <3> QED
      BY <1>12, <3>1, <3>2 DEF RunLoads
  <2>2. faults' \in 0..MaxFaults
    BY <1>12, FaultTyped DEF RunLoads
  <2> QED
    BY <1>12, <2>1, <2>2 DEF TypeOK, RunLoads
<1>13. ASSUME NEW c \in Requests, CheckReturns(c) PROVE TypeOK'
  <2>1. req' \in [Requests -> Request]
    <3>1. CASE req' = [req EXCEPT ![c].pc = "append",
                                  ![c].ev = Event("error", NoValues, FALSE)]
      <4>1. Event("error", NoValues, FALSE) \in Events
        BY EventTyped, NoValuesAssumption DEF Statuses
      <4>2. [req[c] EXCEPT !.pc = "append", !.ev = Event("error", NoValues, FALSE)]
               \in Request
        BY <4>1 DEF TypeOK, Request
      <4> QED
        BY <3>1, <4>2 DEF TypeOK
    <3>2. ASSUME NEW check \in [Resolvers -> Results], NEW observed \in Consensus(check),
                 EvaluateChange(c, observed) \/ EvaluatePropagation(c, check, observed)
          PROVE  req' \in [Requests -> Request]
      <4>1. observed \in ValueLists /\ req[c].pc = "check"
        BY <1>13, <3>2, ConsensusTyped DEF CheckReturns
      <4> QED
        BY <3>2, <4>1, EvaluateTyped
    <3> QED
      BY <1>13, <3>1, <3>2 DEF CheckReturns
  <2>2. faults' \in 0..MaxFaults
    BY <1>13, FaultTyped DEF CheckReturns
  <2> QED
    BY <1>13, <2>1, <2>2 DEF TypeOK, CheckReturns
<1>14. ASSUME NEW c \in Requests, Rebaseline(c) PROVE TypeOK'
  <2>1. req' \in [Requests -> Request]
    BY <1>14, CopyTyped, GotoTyped DEF TypeOK, Rebaseline, StoreCall
  <2>2. faults' \in 0..MaxFaults
    BY <1>14, FaultTyped DEF Rebaseline, StoreCall
  <2>3. monitors' \in [Ids -> Monitor \cup {Absent}] /\ log' \in [Ids -> Seq(Events)]
    BY <1>14, CopyTyped DEF TypeOK, Rebaseline, StoreCall, Save
  <2> QED
    BY <1>14, <2>1, <2>2, <2>3 DEF TypeOK, Rebaseline
<1>15. ASSUME NEW c \in Requests, Notify(c) PROVE TypeOK'
  <2>1. ASSUME NEW ok \in BOOLEAN
        PROVE  [req EXCEPT ![c].pc = "append", ![c].ev.notified = ok]
                  \in [Requests -> Request]
    <3>1. [req[c].ev EXCEPT !.notified = ok] \in Events
      BY CopyTyped DEF Events
    <3>2. [req[c] EXCEPT !.pc = "append", !.ev.notified = ok] \in Request
      BY <3>1 DEF TypeOK, Request
    <3> QED
      BY <3>2 DEF TypeOK
  <2>2. [alerts EXCEPT ![req[c].id] =
            Append(@, [from |-> req[c].old, to |-> req[c].ev.observed])]
           \in [Ids -> Seq([from : ValueLists, to : ValueLists])]
    <3>1. [from |-> req[c].old, to |-> req[c].ev.observed]
             \in [from : ValueLists, to : ValueLists]
      BY CopyTyped DEF Events
    <3> QED
      BY <3>1, CopyTyped, TableTyped DEF TypeOK
  <2>3. ASSUME NEW sent \in Send PROVE sent.ok \in BOOLEAN
    BY DEF Send
  <2>4. req' \in [Requests -> Request]
    <3>1. CASE Goto(c, "append")
      BY <3>1, GotoTyped DEF TypeOK
    <3>2. ASSUME NEW sent \in Send,
                 req' = [req EXCEPT ![c].pc = "append", ![c].ev.notified = sent.ok]
          PROVE  req' \in [Requests -> Request]
      BY <2>1, <2>3, <3>2
    <3> QED
      BY <1>15, <3>1, <3>2 DEF Notify
  <2>5. faults' \in 0..MaxFaults
    BY <1>15, FaultTyped DEF Notify
  <2>6. alerts' \in [Ids -> Seq([from : ValueLists, to : ValueLists])]
    BY <1>15, <2>2 DEF Notify, TypeOK
  <2> QED
    BY <1>15, <2>4, <2>5, <2>6 DEF TypeOK, Notify
<1>16. ASSUME NEW c \in Requests, RunRecords(c) PROVE TypeOK'
  <2>1. req' \in [Requests -> Request]
    BY <1>16, CopyTyped, GotoTyped DEF TypeOK, RunRecords, StoreCall
  <2>2. faults' \in 0..MaxFaults
    BY <1>16, FaultTyped DEF RunRecords, StoreCall
  <2>3. [log EXCEPT ![req[c].id] = Append(@, req[c].ev)] \in [Ids -> Seq(Events)]
    BY CopyTyped, TableTyped DEF TypeOK
  <2>4. monitors' \in [Ids -> Monitor \cup {Absent}] /\ log' \in [Ids -> Seq(Events)]
    BY <1>16, <2>3 DEF TypeOK, RunRecords, StoreCall, AppendEvent
  <2> QED
    BY <1>16, <2>1, <2>2, <2>4 DEF TypeOK, RunRecords
<1>17. CASE Crash
  <2>1. \A c \in Requests : [req[c] EXCEPT !.pc = "idle"] \in Request
    BY DEF TypeOK, Request
  <2>2. req' \in [Requests -> Request]
    BY <1>17, <2>1 DEF Crash
  <2>3. faults' \in 0..MaxFaults
    BY <1>17, FaultTyped DEF Crash
  <2> QED
    BY <1>17, <2>2, <2>3 DEF Crash, TypeOK
<1>18. CASE UNCHANGED vars
  BY <1>18 DEF vars, TypeOK
<1> QED
  BY <1>1, <1>2, <1>3, <1>6, <1>7, <1>8, <1>9, <1>10, <1>11, <1>12, <1>13, <1>14,
     <1>15, <1>16, <1>17, <1>18 DEF Next, Step

-----------------------------------------------------------------------------
(* The invariant.                                                          *)

(* A step that only moves request c, to a pc that needs no valid copy or   *)
(* from one that already had it, keeps the copies valid.                   *)
LEMMA GotoValid ==
  ASSUME TypeOK, CopiesValid, NEW c \in Requests, NEW pc, Goto(c, pc),
         pc \in {"create", "load", "update"} => ValidMonitor(req[c].m),
         pc = "rebaseline" => req[c].m.type = "change"
  PROVE  CopiesValid'
<1>1. \A d \in Requests : req'[d] = IF d = c THEN [req[c] EXCEPT !.pc = pc] ELSE req[d]
  BY DEF TypeOK, Goto
<1>2. /\ req'[c].pc = pc
      /\ req'[c].m = req[c].m
  BY <1>1 DEF TypeOK, Request
<1> QED
  BY <1>1, <1>2 DEF CopiesValid, ValidMonitor

(* A request that arrives with a validated body, or with none, keeps the   *)
(* copies valid and touches no table.                                      *)
LEMMA ArriveValid ==
  ASSUME TypeOK, CopiesValid, PropagationHasExpected, NEW c \in Requests, NEW op,
         NEW pc, NEW id, NEW m, Arrive(c, op, pc, id, m),
         pc \in {"create", "load", "update"} => ValidMonitor(m), pc # "rebaseline"
  PROVE  CopiesValid' /\ PropagationHasExpected'
<1>1. \A d \in Requests \ {c} : req'[d] = req[d]
  BY DEF TypeOK, Arrive
<1>2. req'[c].pc = pc /\ req'[c].m = m
  BY DEF TypeOK, Arrive
<1> QED
  BY <1>1, <1>2 DEF Arrive, CopiesValid, PropagationHasExpected, ValidMonitor

(* A document written whole keeps the table valid if the document is.      *)
LEMMA SaveValid ==
  ASSUME TypeOK, PropagationHasExpected, NEW id \in Ids, NEW m, Save(id, m),
         m = Absent \/ ValidMonitor(m)
  PROVE  PropagationHasExpected'
BY DEF TypeOK, PropagationHasExpected, Save, ValidMonitor

(* Every step keeps the copies in flight and the stored monitors valid.    *)
LEMMA ValidStep ==
  ASSUME Inv, [Next]_vars
  PROVE  CopiesValid' /\ PropagationHasExpected'
<1> USE DEF Inv
<1>0. UNCHANGED monitors => PropagationHasExpected'
  BY DEF PropagationHasExpected, ValidMonitor
<1>1. ASSUME NEW c \in Requests,
             CreateMonitor(c) \/ UpdateMonitor(c) \/ DeleteMonitor(c) \/ RunMonitor(c)
      PROVE  CopiesValid' /\ PropagationHasExpected'
  BY <1>1, ArriveValid DEF CreateMonitor, UpdateMonitor, DeleteMonitor, RunMonitor
<1>2. ASSUME NEW c \in Requests, CreateSaves(c) \/ UpdateSaves(c)
      PROVE  CopiesValid' /\ PropagationHasExpected'
  <2>1. ValidMonitor(req[c].m) /\ req[c].id \in Ids
    BY <1>2, CopyTyped DEF CopiesValid, CreateSaves, UpdateSaves
  <2>2. CopiesValid'
    BY <1>2, GotoValid DEF CreateSaves, UpdateSaves, StoreCall
  <2>3. PropagationHasExpected'
    BY <1>2, <1>0, <2>1, SaveValid DEF CreateSaves, UpdateSaves, StoreCall
  <2> QED
    BY <2>2, <2>3
<1>3. ASSUME NEW c \in Requests,
             CreateSeeds(c) \/ UpdateLoads(c) \/ DeleteEvents(c) \/ RunRecords(c)
      PROVE  CopiesValid' /\ PropagationHasExpected'
  <2>1. UNCHANGED monitors
    BY <1>3 DEF CreateSeeds, UpdateLoads, DeleteEvents, RunRecords, StoreCall, AppendEvent
  <2>2. CASE CreateSeeds(c) \/ DeleteEvents(c) \/ RunRecords(c)
    BY <1>0, <2>1, <2>2, GotoValid DEF CreateSeeds, DeleteEvents, RunRecords, StoreCall
  <2>3. CASE UpdateLoads(c)
    BY <1>0, <2>1, <2>3, GotoValid DEF UpdateLoads, CopiesValid
  <2> QED
    BY <1>3, <2>2, <2>3
<1>4. ASSUME NEW c \in Requests, DeleteRow(c)
      PROVE  CopiesValid' /\ PropagationHasExpected'
  <2>1. CopiesValid'
    BY <1>4, GotoValid DEF DeleteRow, StoreCall
  <2>2. PropagationHasExpected'
    BY <1>4, <1>0, CopyTyped, SaveValid DEF DeleteRow, StoreCall
  <2> QED
    BY <2>1, <2>2
<1>5. ASSUME NEW c \in Requests, RunLoads(c) \/ CheckReturns(c) \/ Notify(c)
      PROVE  CopiesValid' /\ PropagationHasExpected'
  <2>1. UNCHANGED monitors
    BY <1>5 DEF RunLoads, CheckReturns, Notify
  <2>2. \A d \in Requests \ {c} : req'[d] = req[d]
    BY <1>5 DEF TypeOK, RunLoads, CheckReturns, Notify, EvaluateChange,
                EvaluatePropagation, Goto
  <2>3. /\ req'[c].pc \in {"idle", "check", "append", "notify", "rebaseline"}
        /\ req'[c].pc = "rebaseline" => req'[c].m.type = "change"
    <3>1. CASE RunLoads(c) \/ Notify(c)
      BY <3>1 DEF TypeOK, Request, RunLoads, Notify, Goto
    <3>2. CASE CheckReturns(c)
      <4>1. req \in [Requests -> Request] /\ req[c] \in Request
        BY DEF TypeOK
      <4>2. req[c].m.type = "change" => req[c].m \in Monitor
        BY <4>1 DEF Request, Absent
      <4>3. ASSUME req[c].m.type = "change", NEW v, EvaluateChange(c, v)
            PROVE  /\ req'[c].pc \in {"append", "rebaseline"}
                   /\ req'[c].m.type = "change"
        <5>1. /\ req[c].m \in Monitor
              /\ [req[c].m EXCEPT !.expected = v].type = "change"
          BY <4>2, <4>3 DEF Monitor
        <5>2. \/ req'[c].pc = "append" /\ req'[c].m = req[c].m
              \/ req'[c].pc = "rebaseline" /\ req'[c].m = [req[c].m EXCEPT !.expected = v]
          <6> DEFINE q(e) == [req[c] EXCEPT !.pc = "rebaseline", !.m.expected = v, !.ev = e]
                     p(e) == [req[c] EXCEPT !.pc = "rebaseline", !.m.expected = v,
                                            !.old = req[c].m.expected, !.ev = e]
                     a(e) == [req[c] EXCEPT !.pc = "append", !.ev = e]
          <6>1. \A e :
                  /\ q(e).pc = "rebaseline" /\ q(e).m = [req[c].m EXCEPT !.expected = v]
                  /\ p(e).pc = "rebaseline" /\ p(e).m = [req[c].m EXCEPT !.expected = v]
                  /\ a(e).pc = "append" /\ a(e).m = req[c].m
            BY <4>1 DEF Request
          <6>2. \E e : \/ req' = [req EXCEPT ![c] = q(e)]
                       \/ req' = [req EXCEPT ![c] = p(e)]
                       \/ req' = [req EXCEPT ![c] = a(e)]
            BY <4>3, Zenon DEF EvaluateChange
          <6>3. PICK e : req'[c] = q(e) \/ req'[c] = p(e) \/ req'[c] = a(e)
            BY <4>1, <6>2
          <6> HIDE DEF q, p, a
          <6> QED
            BY <6>1, <6>3
        <5> QED
          BY <4>3, <5>1, <5>2
      <4>4. ASSUME NEW check, NEW v, EvaluatePropagation(c, check, v)
            PROVE  req'[c].pc \in {"append", "notify"}
        BY <4>1, <4>4 DEF Request, EvaluatePropagation
      <4>5. ASSUME req' = [req EXCEPT ![c].pc = "append",
                                      ![c].ev = Event("error", NoValues, FALSE)]
            PROVE  req'[c].pc = "append"
        BY <4>1, <4>5 DEF Request
      <4> QED
        BY <3>2, <4>3, <4>4, <4>5 DEF CheckReturns
    <3> QED
      BY <1>5, <3>1, <3>2
  <2>4. CopiesValid'
    BY <2>2, <2>3 DEF CopiesValid, ValidMonitor
  <2> QED
    BY <1>0, <2>1, <2>4
<1>6. ASSUME NEW c \in Requests, Rebaseline(c)
      PROVE  CopiesValid' /\ PropagationHasExpected'
  <2>1. ValidMonitor(req[c].m) /\ req[c].id \in Ids
    BY <1>6, CopyTyped DEF CopiesValid, Rebaseline, ValidMonitor
  <2>2. CopiesValid'
    BY <1>6, GotoValid DEF Rebaseline, StoreCall
  <2>3. PropagationHasExpected'
    BY <1>6, <1>0, <2>1, SaveValid DEF Rebaseline, StoreCall
  <2> QED
    BY <2>2, <2>3
<1>7. CASE Crash
  <2>1. \A c \in Requests : req'[c].pc = "idle"
    BY <1>7 DEF Crash, TypeOK, Request
  <2> QED
    BY <1>7, <1>0, <2>1 DEF Crash, CopiesValid
<1>8. CASE UNCHANGED vars
  BY <1>0, <1>8 DEF vars, CopiesValid, ValidMonitor
<1> QED
  BY <1>1, <1>2, <1>3, <1>4, <1>5, <1>6, <1>7, <1>8 DEF Next, Step

(* Inv is inductive.                                                       *)
LEMMA Invariance == Spec => []Inv
<1>1. Init => Inv
  <2> SUFFICES ASSUME Init PROVE Inv
    OBVIOUS
  <2>1. CopiesValid /\ PropagationHasExpected
    BY DEF Init, CopiesValid, PropagationHasExpected
  <2> QED
    BY <2>1, TypeInit DEF Inv
<1>2. Inv /\ [Next]_vars => Inv'
  BY TypeStep, ValidStep DEF Inv
<1> QED
  BY <1>1, <1>2, PTL DEF Spec

(* Type correctness of the tables and of every request in flight.          *)
THEOREM MonitorsTyped == Spec => []TypeOK
<1>1. Inv => TypeOK
  BY DEF Inv
<1> QED
  BY <1>1, Invariance, PTL

(* However runs, updates and deletes of a monitor interleave, fail or are  *)
(* cut off by a crash, a stored propagation monitor has an expected value. *)
THEOREM PropagationMonitorsAreValid == Spec => []PropagationHasExpected
<1>1. Inv => PropagationHasExpected
  BY DEF Inv
<1> QED
  BY <1>1, Invariance, PTL

-----------------------------------------------------------------------------
(* Deliveries and the changelog.                                           *)

\* The entries of a changelog that claim an alert.
Marks(s) == {i \in 1..Len(s) : s[i].status = "changed" /\ s[i].notified}

\* Request c is about to write such an entry for id.
Claims(c, id) ==
    /\ req[c].pc = "append"
    /\ req[c].id = id
    /\ req[c].ev.status = "changed" /\ req[c].ev.notified

Claimants(id) == {c \in Requests : Claims(c, id)}

\* No event is marked before its delivery, and every entry that claims an alert or is
\* about to has one of its own.
Accounted ==
    /\ \A c \in Requests : req[c].pc \in {"rebaseline", "notify"} => ~req[c].ev.notified
    /\ \A id \in Ids :
          /\ IsFiniteSet(Claimants(id))
          /\ Cardinality(Marks(log[id])) + Cardinality(Claimants(id)) <= Len(alerts[id])

(* The marks of a changelog are finitely many, and an entry adds one of    *)
(* them if it is marked itself.                                            *)
LEMMA MarksCounted ==
  ASSUME NEW s \in Seq(Events)
  PROVE  IsFiniteSet(Marks(s)) /\ Cardinality(Marks(s)) \in Nat
<1>1. Len(s) \in Nat
  OBVIOUS
<1>2. IsFiniteSet(1..Len(s))
  BY <1>1, FS_Interval
<1>3. Marks(s) \in SUBSET (1..Len(s))
  BY DEF Marks
<1> QED
  BY ONLY <1>2, <1>3, FS_Subset, FS_CardinalityType

LEMMA MarksAppended ==
  ASSUME NEW s \in Seq(Events), NEW e \in Events
  PROVE  /\ e.status = "changed" /\ e.notified =>
               Cardinality(Marks(Append(s, e))) = Cardinality(Marks(s)) + 1
         /\ ~(e.status = "changed" /\ e.notified) =>
               Cardinality(Marks(Append(s, e))) = Cardinality(Marks(s))
<1> DEFINE n == Len(s) + 1
           t == Append(s, e)
<1>1. Len(s) \in Nat /\ Len(t) = n /\ t[n] = e /\ \A i \in 1..Len(s) : t[i] = s[i]
  OBVIOUS
<1>2. \A i : i \in 1..n <=> i \in 1..Len(s) \/ i = n
  BY <1>1
<1>3. n \notin 1..Len(s)
  BY <1>1
<1> HIDE DEF n, t
<1>4. \A i \in 1..Len(s) : i \in Marks(t) <=> i \in Marks(s)
  BY <1>1, <1>2 DEF Marks
<1>5. n \in Marks(t) <=> e.status = "changed" /\ e.notified
  BY <1>1, <1>2 DEF Marks
<1>6. (\A i \in Marks(s) : i \in 1..Len(s)) /\ \A i \in Marks(t) : i \in 1..n
  BY <1>1 DEF Marks
<1>7. n \notin Marks(s)
  BY <1>3, <1>6
<1>8. CASE e.status = "changed" /\ e.notified
  <2>1. Marks(t) = Marks(s) \cup {n}
    BY <1>2, <1>4, <1>5, <1>6, <1>8
  <2>2. Cardinality(Marks(s) \cup {n}) = Cardinality(Marks(s)) + 1
    BY <1>7, MarksCounted, FS_AddElement
  <2> QED
    BY <1>8, <2>1, <2>2 DEF t
<1>9. CASE ~(e.status = "changed" /\ e.notified)
  <2>1. Marks(t) = Marks(s)
    BY <1>2, <1>4, <1>5, <1>6, <1>9
  <2> QED
    BY <1>9, <2>1 DEF t
<1> QED
  BY <1>8, <1>9

\* No event is marked in the hands of a run that has still to notify.
Unmarked == \A c \in Requests : req[c].pc \in {"rebaseline", "notify"} => ~req[c].ev.notified

(* A step that adds no claim keeps the account.                            *)
LEMMA NoNewClaim ==
  ASSUME TypeOK, TypeOK', Accounted, Unmarked',
         \A c \in Requests : \A id \in Ids : Claims(c, id)' => Claims(c, id),
         \A id \in Ids : /\ Cardinality(Marks(log'[id])) <= Cardinality(Marks(log[id]))
                         /\ Len(alerts[id]) <= Len(alerts'[id])
  PROVE  Accounted'
<1> SUFFICES ASSUME NEW id \in Ids
             PROVE  /\ IsFiniteSet(Claimants(id)')
                    /\ Cardinality(Marks(log'[id])) + Cardinality(Claimants(id)')
                          <= Len(alerts'[id])
  BY DEF Accounted, Unmarked
<1>1. /\ IsFiniteSet(Claimants(id))
      /\ Cardinality(Marks(log[id])) + Cardinality(Claimants(id)) <= Len(alerts[id])
  BY DEF Accounted
<1>2. Claimants(id)' \in SUBSET Claimants(id)
  BY DEF Claimants
<1>3. IsFiniteSet(Claimants(id)') /\ Cardinality(Claimants(id)') <= Cardinality(Claimants(id))
      /\ Cardinality(Claimants(id)') \in Nat /\ Cardinality(Claimants(id)) \in Nat
  BY ONLY <1>1, <1>2, FS_Subset, FS_CardinalityType
<1>4. log[id] \in Seq(Events) /\ log'[id] \in Seq(Events)
  BY DEF TypeOK
<1>5. Cardinality(Marks(log[id])) \in Nat /\ Cardinality(Marks(log'[id])) \in Nat
  BY <1>4, MarksCounted
<1>6. Len(alerts[id]) \in Nat /\ Len(alerts'[id]) \in Nat
  BY DEF TypeOK
<1>7. Cardinality(Marks(log'[id])) <= Cardinality(Marks(log[id]))
      /\ Len(alerts[id]) <= Len(alerts'[id])
  OBVIOUS
<1>8. Cardinality(Marks(log'[id])) + Cardinality(Claimants(id)') <= Len(alerts'[id])
  <2>1. \A m, n, k, l, a, b \in Nat :
          m + k <= a /\ n <= m /\ l <= k /\ a <= b => n + l <= b
    OBVIOUS
  <2> QED
    BY ONLY <1>1, <1>3, <1>5, <1>6, <1>7, <2>1, Zenon
<1> QED
  BY ONLY <1>3, <1>8

(* Only c moved, and it claims nothing.                                    *)
LEMMA ClaimsNothing ==
  ASSUME TypeOK, TypeOK', Accounted, NEW c \in Requests,
         \A d \in Requests \ {c} : req'[d] = req[d],
         req'[c].pc \in {"rebaseline", "notify"} => ~req'[c].ev.notified,
         req'[c].pc = "append" => ~(req'[c].ev.status = "changed" /\ req'[c].ev.notified),
         \A id \in Ids : /\ Cardinality(Marks(log'[id])) <= Cardinality(Marks(log[id]))
                         /\ Len(alerts[id]) <= Len(alerts'[id])
  PROVE  Accounted'
<1>1. Unmarked'
  BY DEF Unmarked, Accounted
<1>2. \A d \in Requests : \A id \in Ids : Claims(d, id)' => Claims(d, id)
  BY DEF Claims
<1> QED
  BY <1>1, <1>2, NoNewClaim

(* What an evaluation leaves in the hands of the run.                      *)
EvaluatedTo(c, observed) ==
    /\ req'[c].ev.observed = observed
    /\ \/ /\ req'[c].pc = "rebaseline" /\ req'[c].ev.status = "ok"
          /\ req[c].m.expected = NoValues
       \/ /\ req'[c].pc = "rebaseline" /\ req'[c].ev.status = "changed"
          /\ req'[c].old = req[c].m.expected /\ req[c].m.expected # observed
       \/ /\ req'[c].pc = "append" /\ req'[c].ev.status = "ok"
          /\ req[c].m.expected = observed
       \/ req'[c].pc = "notify" /\ req'[c].ev.status = "not_propagated"
    /\ req'[c].pc = "rebaseline" =>
          req'[c].m.bound = req[c].m.bound /\ req'[c].m.expected = observed

(* A change monitor.                                                       *)
LEMMA ChangeEvaluated ==
  ASSUME TypeOK, NEW c \in Requests, req[c].pc = "check", NEW v \in ValueLists,
         EvaluateChange(c, v)
  PROVE  ~req'[c].ev.notified /\ req'[c].id = req[c].id /\ EvaluatedTo(c, v)
<1>1. req \in [Requests -> Request] /\ req[c] \in Request /\ req[c].m \in Monitor
  BY CopyTyped DEF TypeOK, HasCopy
<1>2. [req[c].m EXCEPT !.expected = v].bound = req[c].m.bound
      /\ [req[c].m EXCEPT !.expected = v].expected = v
  BY <1>1 DEF Monitor
<1> DEFINE Captured(e) == [req[c] EXCEPT !.pc = "rebaseline", !.m.expected = v, !.ev = e]
           Changed(e) == [req[c] EXCEPT !.pc = "rebaseline", !.m.expected = v,
                                        !.old = req[c].m.expected, !.ev = e]
           Same(e) == [req[c] EXCEPT !.pc = "append", !.ev = e]
<1>4. \A e : /\ Captured(e).pc = "rebaseline" /\ Captured(e).id = req[c].id
             /\ Captured(e).m.bound = req[c].m.bound /\ Captured(e).m.expected = v
             /\ Captured(e).ev = e
  <2> SUFFICES ASSUME NEW e
               PROVE  /\ Captured(e).pc = "rebaseline" /\ Captured(e).id = req[c].id
                      /\ Captured(e).m.bound = req[c].m.bound /\ Captured(e).m.expected = v
                      /\ Captured(e).ev = e
    BY Zenon
  <2>1. /\ Captured(e).pc = "rebaseline" /\ Captured(e).id = req[c].id
        /\ Captured(e).m = [req[c].m EXCEPT !.expected = v] /\ Captured(e).ev = e
    BY <1>1 DEF Request
  <2> QED
    BY <1>2, <2>1, Zenon
<1>5. \A e : /\ Changed(e).pc = "rebaseline" /\ Changed(e).id = req[c].id
             /\ Changed(e).m.bound = req[c].m.bound /\ Changed(e).m.expected = v
             /\ Changed(e).ev = e /\ Changed(e).old = req[c].m.expected
  <2> SUFFICES ASSUME NEW e
               PROVE  /\ Changed(e).pc = "rebaseline" /\ Changed(e).id = req[c].id
                      /\ Changed(e).m.bound = req[c].m.bound /\ Changed(e).m.expected = v
                      /\ Changed(e).ev = e /\ Changed(e).old = req[c].m.expected
    BY Zenon
  <2>1. /\ Changed(e).pc = "rebaseline" /\ Changed(e).id = req[c].id
        /\ Changed(e).m = [req[c].m EXCEPT !.expected = v] /\ Changed(e).ev = e
        /\ Changed(e).old = req[c].m.expected
    BY <1>1 DEF Request
  <2> QED
    BY <1>2, <2>1, Zenon
<1>6. \A e : Same(e).pc = "append" /\ Same(e).id = req[c].id /\ Same(e).ev = e
  BY <1>1 DEF Request
<1>7. \/ req[c].m.expected = NoValues /\ req' = [req EXCEPT ![c] = Captured(Event("ok", v, FALSE))]
      \/ /\ req[c].m.expected # v
         /\ req' = [req EXCEPT ![c] = Changed(Event("changed", v, FALSE))]
      \/ req[c].m.expected = v /\ req' = [req EXCEPT ![c] = Same(Event("ok", v, FALSE))]
  BY Zenon DEF EvaluateChange
<1> HIDE DEF Captured, Changed, Same
<1>8. \/ req[c].m.expected = NoValues /\ req'[c] = Captured(Event("ok", v, FALSE))
      \/ req[c].m.expected # v /\ req'[c] = Changed(Event("changed", v, FALSE))
      \/ req[c].m.expected = v /\ req'[c] = Same(Event("ok", v, FALSE))
  BY <1>1, <1>7
<1>9. CASE req[c].m.expected = NoValues /\ req'[c] = Captured(Event("ok", v, FALSE))
  <2>1. /\ req'[c].pc = "rebaseline" /\ req'[c].id = req[c].id
        /\ req'[c].m.bound = req[c].m.bound /\ req'[c].m.expected = v
        /\ req'[c].ev = Event("ok", v, FALSE)
    BY <1>4, <1>9
  <2> QED
    BY <1>9, <2>1 DEF EvaluatedTo, Event
<1>10. CASE req[c].m.expected # v /\ req'[c] = Changed(Event("changed", v, FALSE))
  <2>1. /\ req'[c].pc = "rebaseline" /\ req'[c].id = req[c].id
        /\ req'[c].m.bound = req[c].m.bound /\ req'[c].m.expected = v
        /\ req'[c].ev = Event("changed", v, FALSE) /\ req'[c].old = req[c].m.expected
    BY <1>5, <1>10
  <2> QED
    BY <1>10, <2>1 DEF EvaluatedTo, Event
<1>11. CASE req[c].m.expected = v /\ req'[c] = Same(Event("ok", v, FALSE))
  <2>1. /\ req'[c].pc = "append" /\ req'[c].id = req[c].id
        /\ req'[c].ev = Event("ok", v, FALSE)
    BY <1>6, <1>11
  <2> QED
    BY <1>11, <2>1 DEF EvaluatedTo, Event
<1> QED
  BY <1>8, <1>9, <1>10, <1>11

(* A propagation monitor: when all that responded serve the expected list, *)
(* it is the consensus.                                                    *)
LEMMA PropagationEvaluated ==
  ASSUME TypeOK, NEW c \in Requests, req[c].pc = "check",
         NEW check \in [Resolvers -> Results], NEW v \in Consensus(check),
         EvaluatePropagation(c, check, v)
  PROVE  ~req'[c].ev.notified /\ req'[c].id = req[c].id /\ EvaluatedTo(c, v)
<1>1. req \in [Requests -> Request] /\ req[c] \in Request
  BY DEF TypeOK
<1>3. ASSUME Propagated(check, req[c].m.expected) PROVE req[c].m.expected = v
  <2> DEFINE w == req[c].m.expected
  <2>1. \E r \in Resolvers : check[r].status = "ok"
    BY <1>3 DEF Propagated, Serving
  <2>2. \A r \in Resolvers : check[r].status = "ok" => check[r].values = w
    BY <1>3 DEF Propagated, Serving
  <2>3. \E r \in Resolvers : check[r].status = "ok" /\ v = check[r].values
    BY <2>1 DEF Consensus
  <2> QED
    BY <2>2, <2>3
<1> DEFINE Same(e) == [req[c] EXCEPT !.pc = "append", !.ev = e]
           Missing(e) == [req[c] EXCEPT !.pc = "notify", !.ev = e]
<1>4. \A e : /\ Same(e).pc = "append" /\ Same(e).id = req[c].id /\ Same(e).ev = e
             /\ Missing(e).pc = "notify" /\ Missing(e).id = req[c].id /\ Missing(e).ev = e
  BY <1>1 DEF Request
<1>5. \/ req[c].m.expected = v /\ req' = [req EXCEPT ![c] = Same(Event("ok", v, FALSE))]
      \/ req' = [req EXCEPT ![c] = Missing(Event("not_propagated", v, FALSE))]
  BY <1>3, Zenon DEF EvaluatePropagation
<1> HIDE DEF Same, Missing
<1>6. \/ req[c].m.expected = v /\ req'[c] = Same(Event("ok", v, FALSE))
      \/ req'[c] = Missing(Event("not_propagated", v, FALSE))
  BY <1>1, <1>5
<1>7. CASE req[c].m.expected = v /\ req'[c] = Same(Event("ok", v, FALSE))
  <2>1. /\ req'[c].pc = "append" /\ req'[c].id = req[c].id
        /\ req'[c].ev = Event("ok", v, FALSE)
    BY <1>4, <1>7
  <2> QED
    BY <1>7, <2>1 DEF EvaluatedTo, Event
<1>8. CASE req'[c] = Missing(Event("not_propagated", v, FALSE))
  <2>1. /\ req'[c].pc = "notify" /\ req'[c].id = req[c].id
        /\ req'[c].ev = Event("not_propagated", v, FALSE)
    BY <1>4, <1>8
  <2> QED
    BY <2>1 DEF EvaluatedTo, Event
<1> QED
  BY <1>6, <1>7, <1>8

(* A check returns: with an error, or it is evaluated.                     *)
LEMMA CheckOutcome ==
  ASSUME TypeOK, NEW c \in Requests, CheckReturns(c)
  PROVE  /\ ~req'[c].ev.notified /\ req'[c].id = req[c].id
         /\ \/ Fault /\ req'[c].pc = "append" /\ req'[c].ev.status = "error"
            \/ \E v \in ValueLists : EvaluatedTo(c, v)
<1>1. req \in [Requests -> Request] /\ req[c] \in Request /\ req[c].pc = "check"
  BY DEF TypeOK, CheckReturns
<1>2. CASE Fault /\ req' = [req EXCEPT ![c].pc = "append",
                                       ![c].ev = Event("error", NoValues, FALSE)]
  <2>1. req'[c].pc = "append" /\ req'[c].id = req[c].id
        /\ req'[c].ev = Event("error", NoValues, FALSE)
    BY <1>1, <1>2 DEF Request
  <2> QED
    BY <1>2, <2>1 DEF Event
<1>3. ASSUME NEW check \in [Resolvers -> Results], NEW v \in Consensus(check),
             EvaluateChange(c, v) \/ EvaluatePropagation(c, check, v)
      PROVE  ~req'[c].ev.notified /\ req'[c].id = req[c].id
             /\ \E w \in ValueLists : EvaluatedTo(c, w)
  <2>1. v \in ValueLists
    BY ConsensusTyped
  <2> QED
    BY <1>1, <1>3, <2>1, ChangeEvaluated, PropagationEvaluated
<1> QED
  BY <1>2, <1>3, Zenon DEF CheckReturns

(* Only the request that takes a step changes.                             *)
LEMMA OthersStay ==
  ASSUME TypeOK, NEW c \in Requests,
         CreateMonitor(c) \/ UpdateMonitor(c) \/ DeleteMonitor(c) \/ RunMonitor(c) \/ Step(c)
  PROVE  \A d \in Requests \ {c} : req'[d] = req[d]
<1>1. req \in [Requests -> Request]
  BY DEF TypeOK
<1>2. CASE CreateMonitor(c) \/ UpdateMonitor(c) \/ DeleteMonitor(c) \/ RunMonitor(c)
  BY <1>1, <1>2 DEF CreateMonitor, UpdateMonitor, DeleteMonitor, RunMonitor, Arrive
<1>3. CASE CreateSaves(c) \/ CreateSeeds(c) \/ UpdateLoads(c) \/ UpdateSaves(c)
           \/ DeleteRow(c) \/ DeleteEvents(c) \/ Rebaseline(c) \/ RunRecords(c)
  BY <1>1, <1>3 DEF CreateSaves, CreateSeeds, UpdateLoads, UpdateSaves, DeleteRow,
     DeleteEvents, Rebaseline, RunRecords, StoreCall, Goto
<1>4. CASE RunLoads(c) \/ Notify(c)
  BY <1>1, <1>4 DEF RunLoads, Notify, Goto
<1>5. CASE CheckReturns(c)
  <2>1. \E q : req' = [req EXCEPT ![c] = q]
    BY <1>5, Zenon DEF CheckReturns, EvaluateChange, EvaluatePropagation
  <2> QED
    BY <1>1, <2>1
<1> QED
  BY <1>2, <1>3, <1>4, <1>5 DEF Step

(* A request that goes on.                                                 *)
LEMMA WentTo ==
  ASSUME TypeOK, NEW c \in Requests, NEW pc, Goto(c, pc)
  PROVE  /\ req'[c].pc = pc /\ req'[c].id = req[c].id /\ req'[c].m = req[c].m
         /\ req'[c].ev = req[c].ev /\ req'[c].old = req[c].old
BY DEF TypeOK, Request, Goto

(* Entries of the changelog of one id.                                     *)
LEMMA LogAppended ==
  ASSUME TypeOK, NEW id \in Ids, NEW ev, AppendEvent(id, ev)
  PROVE  /\ log'[id] = Append(log[id], ev) /\ log[id] \in Seq(Events)
         /\ \A x \in Ids \ {id} : log'[x] = log[x]
BY DEF TypeOK, AppendEvent

(* A run records its event.                                                *)
LEMMA RecordsClaim ==
  ASSUME TypeOK, TypeOK', Accounted, NEW c \in Requests, RunRecords(c)
  PROVE  Accounted'
<1>1. \A d \in Requests \ {c} : req'[d] = req[d]
  BY OthersStay DEF Step
<1>2. req'[c].pc = "idle" /\ req[c].pc = "append" /\ UNCHANGED alerts
  BY WentTo DEF RunRecords, StoreCall
<1>3. req[c].id \in Ids /\ req[c].ev \in Events
  BY CopyTyped
<1>4. CASE UNCHANGED log
  <2>1. \A id \in Ids : /\ Cardinality(Marks(log'[id])) <= Cardinality(Marks(log[id]))
                        /\ Len(alerts[id]) <= Len(alerts'[id])
    <3> SUFFICES ASSUME NEW id \in Ids
                 PROVE  /\ Cardinality(Marks(log'[id])) <= Cardinality(Marks(log[id]))
                        /\ Len(alerts[id]) <= Len(alerts'[id])
      OBVIOUS
    <3>1. log[id] \in Seq(Events) /\ Len(alerts[id]) \in Nat
      BY DEF TypeOK
    <3>2. Cardinality(Marks(log[id])) \in Nat
      BY <3>1, MarksCounted
    <3> QED
      BY <1>2, <1>4, <3>1, <3>2
  <2> QED
    BY <1>1, <1>2, <2>1, ClaimsNothing
<1>5. CASE AppendEvent(req[c].id, req[c].ev)
  <2>1. Unmarked'
    BY <1>1, <1>2 DEF Unmarked, Accounted
  <2>2. ASSUME NEW id \in Ids
        PROVE  /\ IsFiniteSet(Claimants(id)')
               /\ Cardinality(Marks(log'[id])) + Cardinality(Claimants(id)')
                     <= Len(alerts'[id])
    <3>1. /\ IsFiniteSet(Claimants(id))
          /\ Cardinality(Marks(log[id])) + Cardinality(Claimants(id)) <= Len(alerts[id])
      BY DEF Accounted
    <3>2. Claimants(id)' = Claimants(id) \ {c}
      BY <1>1, <1>2 DEF Claimants, Claims
    <3>3. /\ IsFiniteSet(Claimants(id) \ {c})
          /\ Cardinality(Claimants(id) \ {c}) \in Nat /\ Cardinality(Claimants(id)) \in Nat
          /\ c \in Claimants(id) => Cardinality(Claimants(id) \ {c}) = Cardinality(Claimants(id)) - 1
          /\ Cardinality(Claimants(id) \ {c}) <= Cardinality(Claimants(id))
      <4>1. Claimants(id) \ {c} \in SUBSET Claimants(id)
        OBVIOUS
      <4> QED
        BY ONLY <3>1, <4>1, FS_RemoveElement, FS_Subset, FS_CardinalityType
    <3>4. log[id] \in Seq(Events) /\ Len(alerts[id]) \in Nat
      BY DEF TypeOK
    <3>5. Cardinality(Marks(log[id])) \in Nat
      BY <3>4, MarksCounted
    <3>6. CASE c \in Claimants(id)
      <4>1. id = req[c].id /\ req[c].ev.status = "changed" /\ req[c].ev.notified
        BY <3>6 DEF Claimants, Claims
      <4>2. log'[id] = Append(log[id], req[c].ev)
        BY <1>3, <1>5, <4>1, LogAppended
      <4>3. Cardinality(Marks(log'[id])) = Cardinality(Marks(log[id])) + 1
        BY <1>3, <3>4, <4>1, <4>2, MarksAppended
      <4> QED
        BY <1>2, <3>1, <3>2, <3>3, <3>4, <3>5, <3>6, <4>3
    <3>7. CASE c \notin Claimants(id)
      <4>1. id # req[c].id \/ ~(req[c].ev.status = "changed" /\ req[c].ev.notified)
        BY <1>2, <3>7 DEF Claimants, Claims
      <4>2. CASE id # req[c].id
        <5>1. log'[id] = log[id]
          BY <1>3, <1>5, <4>2, LogAppended
        <5> QED
          BY <1>2, <3>1, <3>2, <3>3, <3>4, <3>5, <5>1
      <4>3. CASE id = req[c].id /\ ~(req[c].ev.status = "changed" /\ req[c].ev.notified)
        <5>1. log'[id] = Append(log[id], req[c].ev)
          BY <1>3, <1>5, <4>3, LogAppended
        <5>2. Cardinality(Marks(log'[id])) = Cardinality(Marks(log[id]))
          BY <1>3, <3>4, <4>3, <5>1, MarksAppended
        <5> QED
          BY <1>2, <3>1, <3>2, <3>3, <3>4, <3>5, <5>2
      <4> QED
        BY <4>1, <4>2, <4>3
    <3> QED
      BY <3>6, <3>7
  <2> QED
    BY <2>1, <2>2 DEF Accounted, Unmarked
<1> QED
  BY <1>4, <1>5 DEF RunRecords, StoreCall

(* A run notifies: an alert goes out, or none does.                        *)
LEMMA NotifyOutcome ==
  ASSUME TypeOK, NEW c \in Requests, Notify(c)
  PROVE  /\ req[c].pc = "notify" /\ req'[c].pc = "append" /\ req'[c].id = req[c].id
         /\ req'[c].ev.status = req[c].ev.status /\ req'[c].ev.observed = req[c].ev.observed
         /\ \/ /\ req[c].ev.status = "changed" /\ req[c].m.bound /\ channelOn
               /\ alerts'[req[c].id] =
                     Append(alerts[req[c].id], [from |-> req[c].old, to |-> req[c].ev.observed])
               /\ \A id \in Ids \ {req[c].id} : alerts'[id] = alerts[id]
            \/ /\ UNCHANGED alerts
               /\ req[c].ev.status = "changed" =>
                     /\ req'[c].ev.notified => req[c].ev.notified
                     /\ Fault \/ ~(req[c].m.bound /\ channelOn)
<1>1. /\ req \in [Requests -> Request] /\ req[c] \in Request /\ req[c].pc = "notify"
      /\ req[c].id \in Ids /\ req[c].ev \in Events
      /\ alerts \in [Ids -> Seq([from : ValueLists, to : ValueLists])]
  BY CopyTyped DEF TypeOK, Notify
<1>2. CASE Goto(c, "append") /\ UNCHANGED alerts /\ (Fault \/ ~(req[c].m.bound /\ channelOn))
  <2>1. req'[c].pc = "append" /\ req'[c].id = req[c].id /\ req'[c].ev = req[c].ev
    BY <1>2, WentTo
  <2> QED
    BY <1>1, <1>2, <2>1
<1>3. ASSUME NEW sent \in Send, req[c].m.bound /\ channelOn,
             req' = [req EXCEPT ![c].pc = "append", ![c].ev.notified = sent.ok],
             alerts' = IF sent.delivered /\ req[c].ev.status = "changed"
                       THEN [alerts EXCEPT ![req[c].id] =
                               Append(@, [from |-> req[c].old, to |-> req[c].ev.observed])]
                       ELSE alerts,
             IF sent.ok THEN UNCHANGED faults ELSE Fault
      PROVE  /\ req'[c].pc = "append" /\ req'[c].id = req[c].id
             /\ req'[c].ev.status = req[c].ev.status
             /\ req'[c].ev.observed = req[c].ev.observed
             /\ \/ /\ req[c].ev.status = "changed"
                   /\ alerts'[req[c].id] =
                         Append(alerts[req[c].id],
                                [from |-> req[c].old, to |-> req[c].ev.observed])
                   /\ \A id \in Ids \ {req[c].id} : alerts'[id] = alerts[id]
                \/ /\ UNCHANGED alerts
                   /\ req[c].ev.status = "changed" => ~req'[c].ev.notified /\ Fault
  <2> DEFINE ev == [req[c].ev EXCEPT !.notified = sent.ok]
  <2>1. ev.status = req[c].ev.status /\ ev.observed = req[c].ev.observed
        /\ ev.notified = sent.ok
    BY <1>1 DEF Events
  <2>2. req'[c].pc = "append" /\ req'[c].id = req[c].id /\ req'[c].ev = ev
    BY <1>1, <1>3 DEF Request
  <2>3. sent.ok => sent.delivered
    BY DEF Send
  <2> HIDE DEF ev
  <2>4. CASE sent.delivered /\ req[c].ev.status = "changed"
    <3>1. /\ alerts'[req[c].id] =
               Append(alerts[req[c].id], [from |-> req[c].old, to |-> req[c].ev.observed])
          /\ \A id \in Ids \ {req[c].id} : alerts'[id] = alerts[id]
      BY <1>1, <1>3, <2>4
    <3> QED
      BY <2>1, <2>2, <2>4, <3>1
  <2>5. CASE ~(sent.delivered /\ req[c].ev.status = "changed")
    <3>1. UNCHANGED alerts
      BY <1>3, <2>5
    <3>2. req[c].ev.status = "changed" => ~sent.ok /\ Fault
      BY <1>3, <2>3, <2>5
    <3>3. req[c].ev.status = "changed" => ~req'[c].ev.notified /\ Fault
      BY <2>1, <2>2, <3>2
    <3> QED
      BY <2>1, <2>2, <3>1, <3>3
  <2> QED
    BY <2>4, <2>5
<1>4. \/ Goto(c, "append") /\ UNCHANGED alerts /\ (Fault \/ ~(req[c].m.bound /\ channelOn))
      \/ /\ req[c].m.bound /\ channelOn
         /\ \E sent \in Send :
             /\ req' = [req EXCEPT ![c].pc = "append", ![c].ev.notified = sent.ok]
             /\ alerts' = IF sent.delivered /\ req[c].ev.status = "changed"
                          THEN [alerts EXCEPT ![req[c].id] =
                                  Append(@, [from |-> req[c].old, to |-> req[c].ev.observed])]
                          ELSE alerts
             /\ IF sent.ok THEN UNCHANGED faults ELSE Fault
  BY Zenon DEF Notify
<1> QED
  BY <1>1, <1>2, <1>3, <1>4, Zenon

(* Changelogs that stay, are emptied or get an entry that is not marked.   *)
LEMMA NoNewMark ==
  ASSUME TypeOK, UNCHANGED alerts,
         \A id \in Ids : \/ log'[id] = log[id]
                         \/ log'[id] = <<>>
                         \/ \E e \in Events : /\ ~(e.status = "changed" /\ e.notified)
                                              /\ log'[id] = Append(log[id], e)
  PROVE  \A id \in Ids : /\ Cardinality(Marks(log'[id])) <= Cardinality(Marks(log[id]))
                         /\ Len(alerts[id]) <= Len(alerts'[id])
<1> SUFFICES ASSUME NEW id \in Ids
             PROVE  /\ Cardinality(Marks(log'[id])) <= Cardinality(Marks(log[id]))
                    /\ Len(alerts[id]) <= Len(alerts'[id])
  OBVIOUS
<1>1. log[id] \in Seq(Events) /\ Len(alerts[id]) \in Nat
  BY DEF TypeOK
<1>2. Cardinality(Marks(log[id])) \in Nat
  BY <1>1, MarksCounted
<1>3. CASE log'[id] = log[id]
  BY <1>1, <1>2, <1>3
<1>4. CASE log'[id] = <<>>
  <2>1. Marks(log'[id]) = {}
    BY <1>4 DEF Marks
  <2>2. Cardinality(Marks(log'[id])) = 0
    BY <2>1, FS_EmptySet
  <2> QED
    BY <1>1, <1>2, <2>2
<1>5. ASSUME NEW e \in Events, ~(e.status = "changed" /\ e.notified),
             log'[id] = Append(log[id], e)
      PROVE  Cardinality(Marks(log'[id])) = Cardinality(Marks(log[id]))
  BY <1>1, <1>5, MarksAppended
<1> QED
  BY <1>1, <1>2, <1>3, <1>4, <1>5

(* A run notifies.                                                         *)
LEMMA NotifyClaims ==
  ASSUME TypeOK, TypeOK', Accounted, NEW c \in Requests, Notify(c)
  PROVE  Accounted'
<1>1. \A d \in Requests \ {c} : req'[d] = req[d]
  BY OthersStay DEF Step
<1>2. req[c].pc = "notify" /\ req'[c].pc = "append" /\ req'[c].id = req[c].id
      /\ req'[c].ev.status = req[c].ev.status
  BY NotifyOutcome
<1>3. UNCHANGED log /\ ~req[c].ev.notified
  BY <1>2 DEF Accounted, Notify
<1>4. CASE UNCHANGED alerts /\ ~(req'[c].ev.status = "changed" /\ req'[c].ev.notified)
  <2>1. \A id \in Ids : /\ Cardinality(Marks(log'[id])) <= Cardinality(Marks(log[id]))
                        /\ Len(alerts[id]) <= Len(alerts'[id])
    BY <1>3, <1>4, NoNewMark
  <2> QED
    BY <1>1, <1>2, <1>4, <2>1, ClaimsNothing
<1>5. CASE /\ alerts'[req[c].id] =
                Append(alerts[req[c].id], [from |-> req[c].old, to |-> req[c].ev.observed])
           /\ \A id \in Ids \ {req[c].id} : alerts'[id] = alerts[id]
  <2>1. Unmarked'
    BY <1>1, <1>2 DEF Unmarked, Accounted
  <2>2. ASSUME NEW id \in Ids
        PROVE  /\ IsFiniteSet(Claimants(id)')
               /\ Cardinality(Marks(log'[id])) + Cardinality(Claimants(id)')
                     <= Len(alerts'[id])
    <3>1. /\ IsFiniteSet(Claimants(id))
          /\ Cardinality(Marks(log[id])) + Cardinality(Claimants(id)) <= Len(alerts[id])
      BY DEF Accounted
    <3>0. log[id] \in Seq(Events) /\ alerts[id] \in Seq([from : ValueLists, to : ValueLists])
      BY DEF TypeOK
    <3>2. /\ log[id] \in Seq(Events) /\ Len(alerts[id]) \in Nat
          /\ alerts[id] \in Seq([from : ValueLists, to : ValueLists])
      BY ONLY <3>0
    <3>3. Cardinality(Marks(log[id])) \in Nat /\ log'[id] = log[id]
      BY <1>3, <3>2, MarksCounted
    <3>4. CASE id # req[c].id
      <4>1. Claimants(id)' = Claimants(id)
        BY <1>1, <1>2, <3>4 DEF Claimants, Claims
      <4>2. alerts'[id] = alerts[id]
        BY <1>5, <3>4
      <4> QED
        BY <3>1, <3>3, <4>1, <4>2
    <3>5. CASE id = req[c].id
      <4>1. Claimants(id)' \in SUBSET (Claimants(id) \cup {c})
        BY <1>1, <1>2 DEF Claimants, Claims
      <4>2. /\ IsFiniteSet(Claimants(id) \cup {c})
            /\ Cardinality(Claimants(id) \cup {c}) <= Cardinality(Claimants(id)) + 1
            /\ Cardinality(Claimants(id)) \in Nat
        <5>1. /\ IsFiniteSet(Claimants(id) \cup {c})
              /\ Cardinality(Claimants(id) \cup {c}) =
                    IF c \in Claimants(id) THEN Cardinality(Claimants(id))
                                          ELSE Cardinality(Claimants(id)) + 1
          BY ONLY <3>1, FS_AddElement
        <5>2. Cardinality(Claimants(id)) \in Nat
          BY ONLY <3>1, FS_CardinalityType
        <5> QED
          BY ONLY <5>1, <5>2
      <4>3. /\ IsFiniteSet(Claimants(id)')
            /\ Cardinality(Claimants(id)') <= Cardinality(Claimants(id) \cup {c})
            /\ Cardinality(Claimants(id)') \in Nat
            /\ Cardinality(Claimants(id) \cup {c}) \in Nat
        BY ONLY <4>1, <4>2, FS_Subset, FS_CardinalityType
      <4>4. Len(alerts'[id]) = Len(alerts[id]) + 1
        <5>1. [from |-> req[c].old, to |-> req[c].ev.observed]
                 \in [from : ValueLists, to : ValueLists]
          BY CopyTyped DEF Events
        <5> QED
          BY <1>5, <3>2, <3>5, <5>1
      <4>5. \A m, k, l, u, a, b \in Nat :
               m + k <= a /\ u <= k + 1 /\ l <= u /\ b = a + 1 => m + l <= b
        OBVIOUS
      <4>6. Len(alerts'[id]) \in Nat
        BY <3>2, <4>4
      <4>7. Cardinality(Marks(log[id])) + Cardinality(Claimants(id)') <= Len(alerts'[id])
        BY ONLY <3>1, <3>2, <3>3, <4>2, <4>3, <4>4, <4>5, <4>6, Zenon
      <4> QED
        BY <3>3, <4>3, <4>7
    <3> QED
      BY <3>4, <3>5
  <2> QED
    BY <2>1, <2>2 DEF Accounted, Unmarked
<1> QED
  BY <1>2, <1>3, <1>4, <1>5, NotifyOutcome

(* Every step keeps the account.                                           *)
LEMMA AccountedStep ==
  ASSUME TypeOK, TypeOK', Accounted, [Next]_vars
  PROVE  Accounted'
<1>1. ASSUME NEW c \in Requests,
             CreateMonitor(c) \/ UpdateMonitor(c) \/ DeleteMonitor(c) \/ RunMonitor(c)
      PROVE  Accounted'
  <2>1. \A d \in Requests \ {c} : req'[d] = req[d]
    BY <1>1, OthersStay
  <2>2. req'[c].pc \in {"create", "load", "delete", "get"} /\ UNCHANGED <<log, alerts>>
    <3>1. \E pc \in {"create", "load", "delete", "get"} : \E op, id, m : Arrive(c, op, pc, id, m)
      BY <1>1, Zenon DEF CreateMonitor, UpdateMonitor, DeleteMonitor, RunMonitor
    <3>2. req \in [Requests -> Request]
      BY DEF TypeOK
    <3> QED
      BY <3>1, <3>2 DEF Arrive
  <2>3. \A id \in Ids : /\ Cardinality(Marks(log'[id])) <= Cardinality(Marks(log[id]))
                        /\ Len(alerts[id]) <= Len(alerts'[id])
    BY <2>2, NoNewMark
  <2> QED
    BY <2>1, <2>2, <2>3, ClaimsNothing
<1>2. ASSUME NEW c \in Requests,
             \/ CreateSaves(c) \/ UpdateLoads(c) \/ UpdateSaves(c) \/ DeleteRow(c)
             \/ CreateSeeds(c) \/ DeleteEvents(c) \/ RunLoads(c)
      PROVE  Accounted'
  <2>1. \A d \in Requests \ {c} : req'[d] = req[d]
    BY <1>2, OthersStay DEF Step
  <2>2. req'[c].pc \in {"seed", "idle", "update", "purge", "check"}
    <3>1. CASE RunLoads(c)
      BY <3>1 DEF RunLoads, Goto, TypeOK, Request
    <3>2. CASE ~RunLoads(c)
      BY <1>2, <3>2, WentTo DEF CreateSaves, UpdateLoads, UpdateSaves, DeleteRow, CreateSeeds,
         DeleteEvents, StoreCall
    <3> QED
      BY <3>1, <3>2
  <2>3. UNCHANGED alerts
    BY <1>2 DEF CreateSaves, UpdateLoads, UpdateSaves, DeleteRow, CreateSeeds, DeleteEvents,
       RunLoads
  <2>4. req[c].id \in Ids
    BY CopyTyped
  <2>5. \A id \in Ids : \/ log'[id] = log[id]
                        \/ log'[id] = <<>>
                        \/ \E e \in Events : /\ ~(e.status = "changed" /\ e.notified)
                                             /\ log'[id] = Append(log[id], e)
    <3>1. CASE CreateSeeds(c)
      <4> DEFINE e == Event("created", req[c].m.expected, FALSE)
      <4>1. e \in Events /\ ~(e.status = "changed" /\ e.notified)
        BY CopyTyped, EventTyped DEF Statuses, Event
      <4> HIDE DEF e
      <4>2. UNCHANGED log \/ AppendEvent(req[c].id, e)
        BY <3>1 DEF CreateSeeds, StoreCall, e
      <4> QED
        BY <2>4, <4>1, <4>2, LogAppended
    <3>2. CASE DeleteEvents(c)
      BY <2>4, <3>2 DEF DeleteEvents, StoreCall, TypeOK
    <3>3. CASE CreateSaves(c) \/ UpdateLoads(c) \/ UpdateSaves(c) \/ DeleteRow(c) \/ RunLoads(c)
      BY <3>3 DEF CreateSaves, UpdateLoads, UpdateSaves, DeleteRow, RunLoads, StoreCall, Save
    <3> QED
      BY <1>2, <3>1, <3>2, <3>3
  <2>6. \A id \in Ids : /\ Cardinality(Marks(log'[id])) <= Cardinality(Marks(log[id]))
                        /\ Len(alerts[id]) <= Len(alerts'[id])
    BY <2>3, <2>5, NoNewMark
  <2> QED
    BY <2>1, <2>2, <2>6, ClaimsNothing
<1>3. ASSUME NEW c \in Requests, CheckReturns(c) \/ Rebaseline(c) PROVE Accounted'
  <2>1. \A d \in Requests \ {c} : req'[d] = req[d]
    BY <1>3, OthersStay DEF Step
  <2>2. UNCHANGED <<log, alerts>>
    BY <1>3 DEF CheckReturns, Rebaseline, StoreCall, Save
  <2>3. ~req'[c].ev.notified
    <3>1. CASE CheckReturns(c)
      BY <3>1, CheckOutcome
    <3>2. CASE Rebaseline(c)
      <4>1. req'[c].ev = req[c].ev /\ ~req[c].ev.notified
        BY <3>2, WentTo DEF Rebaseline, StoreCall, Accounted
      <4> QED
        BY <4>1
    <3> QED
      BY <1>3, <3>1, <3>2
  <2>4. \A id \in Ids : /\ Cardinality(Marks(log'[id])) <= Cardinality(Marks(log[id]))
                        /\ Len(alerts[id]) <= Len(alerts'[id])
    BY <2>2, NoNewMark
  <2> QED
    BY <2>1, <2>3, <2>4, ClaimsNothing
<1>4. ASSUME NEW c \in Requests, Notify(c) PROVE Accounted'
  BY <1>4, NotifyClaims
<1>5. ASSUME NEW c \in Requests, RunRecords(c) PROVE Accounted'
  BY <1>5, RecordsClaim
<1>6. CASE Crash \/ UNCHANGED vars
  <2>1. UNCHANGED <<log, alerts>>
    BY <1>6 DEF Crash, vars
  <2>2. (\A c \in Requests : req'[c].pc = "idle") \/ UNCHANGED req
    BY <1>6 DEF Crash, vars, TypeOK, Request
  <2>3. Unmarked'
    BY <2>2 DEF Unmarked, Accounted
  <2>4. \A c \in Requests : \A id \in Ids : Claims(c, id)' => Claims(c, id)
    BY <2>2 DEF Claims
  <2>5. \A id \in Ids : /\ Cardinality(Marks(log'[id])) <= Cardinality(Marks(log[id]))
                        /\ Len(alerts[id]) <= Len(alerts'[id])
    BY <2>1, NoNewMark
  <2> QED
    BY <2>3, <2>4, <2>5, NoNewClaim
<1> QED
  BY <1>1, <1>2, <1>3, <1>4, <1>5, <1>6 DEF Next, Step

(* Every change that the changelog marks as notified has an alert of its   *)
(* own that was delivered, for any number of concurrent runs, failures and *)
(* crashes.                                                                *)
THEOREM NotifiedWereSent == Spec => []NotifiedWasSent
<1>1. Init => Accounted
  <2> SUFFICES ASSUME Init PROVE Accounted
    OBVIOUS
  <2>1. \A c \in Requests : req[c].pc = "idle"
    BY DEF Init
  <2>2. \A id \in Ids : log[id] = <<>> /\ alerts[id] = <<>>
    BY DEF Init
  <2>3. \A id \in Ids : Claimants(id) = {} /\ Marks(log[id]) = {}
    BY <2>1, <2>2 DEF Claimants, Claims, Marks
  <2>4. \A id \in Ids : Len(alerts[id]) = 0
    BY <2>2
  <2>5. \A id \in Ids : /\ IsFiniteSet(Claimants(id)) /\ Cardinality(Claimants(id)) = 0
                        /\ Cardinality(Marks(log[id])) = 0
    BY <2>3, FS_EmptySet
  <2> QED
    BY <2>1, <2>4, <2>5 DEF Accounted
<1>2. TypeOK /\ TypeOK' /\ Accounted /\ [Next]_vars => Accounted'
  BY AccountedStep
<1>3. TypeOK /\ Accounted => NotifiedWasSent
  <2> SUFFICES ASSUME TypeOK, Accounted, NEW id \in Ids
               PROVE  Cardinality(Marks(log[id])) <= Len(alerts[id])
    BY DEF NotifiedWasSent, Marks
  <2>1. /\ IsFiniteSet(Claimants(id))
        /\ Cardinality(Marks(log[id])) + Cardinality(Claimants(id)) <= Len(alerts[id])
    BY DEF Accounted
  <2>2. Cardinality(Claimants(id)) \in Nat
    BY ONLY <2>1, FS_CardinalityType
  <2>3. log[id] \in Seq(Events) /\ Len(alerts[id]) \in Nat
    BY DEF TypeOK
  <2>4. Cardinality(Marks(log[id])) \in Nat
    BY <2>3, MarksCounted
  <2> QED
    BY <2>1, <2>2, <2>3, <2>4
<1> QED
  BY <1>1, <1>2, <1>3, MonitorsTyped, PTL DEF Spec

-----------------------------------------------------------------------------
(* What a step does to the tables and to its request.                      *)

(* A request arrives.                                                      *)
LEMMA Arrivals ==
  ASSUME TypeOK, NEW c \in Requests,
         CreateMonitor(c) \/ UpdateMonitor(c) \/ DeleteMonitor(c) \/ RunMonitor(c)
  PROVE  /\ req[c].pc = "idle" /\ UNCHANGED <<monitors, log, alerts, deleted, faults>>
         /\ req'[c].pc \in {"create", "load", "delete", "get"}
         /\ \/ /\ req'[c].pc = "create" /\ req'[c].id \in Ids \ issued
               /\ issued' = issued \cup {req'[c].id}
            \/ req'[c].pc # "create" /\ req'[c].id \in issued /\ issued' = issued
<1>1. req \in [Requests -> Request] /\ issued \subseteq Ids
  BY DEF TypeOK
<1>2. ASSUME NEW op, NEW pc, NEW id, NEW m, Arrive(c, op, pc, id, m)
      PROVE  /\ req[c].pc = "idle" /\ UNCHANGED <<monitors, log, alerts, deleted, faults>>
             /\ req'[c].pc = pc /\ req'[c].id = id
  BY <1>1, <1>2 DEF Arrive, Idle
<1>3. CASE CreateMonitor(c)
  <2>1. PICK id, m : /\ id \in Ids \ issued /\ Arrive(c, "create", "create", id, m)
                     /\ issued' = issued \cup {id}
    BY <1>3, Zenon DEF CreateMonitor
  <2> QED
    BY <1>2, <2>1
<1>4. CASE UpdateMonitor(c)
  <2>1. PICK id, m : id \in issued /\ Arrive(c, "update", "load", id, m) /\ UNCHANGED issued
    BY <1>4, Zenon DEF UpdateMonitor
  <2> QED
    BY <1>2, <2>1
<1>5. CASE DeleteMonitor(c)
  <2>1. PICK id : id \in issued /\ Arrive(c, "delete", "delete", id, Absent) /\ UNCHANGED issued
    BY <1>5, Zenon DEF DeleteMonitor
  <2> QED
    BY <1>2, <2>1
<1>6. CASE RunMonitor(c)
  <2>1. PICK id : id \in issued /\ Arrive(c, "run", "get", id, Absent) /\ UNCHANGED issued
    BY <1>6, Zenon DEF RunMonitor
  <2> QED
    BY <1>2, <2>1
<1> QED
  BY <1>3, <1>4, <1>5, <1>6

LEMMA MonitorSaved ==
  ASSUME TypeOK, NEW id \in Ids, NEW m, Save(id, m)
  PROVE  /\ monitors'[id] = m /\ UNCHANGED log
         /\ \A x \in Ids \ {id} : monitors'[x] = monitors[x]
BY DEF TypeOK, Save

Failed == faults' # faults

(* A failing call is counted.                                              *)
LEMMA FaultCounts ==
  ASSUME TypeOK, Fault
  PROVE  Failed
<1>1. faults \in Int /\ faults' = faults + 1
  BY BoundsAssumption DEF TypeOK, Fault
<1> QED
  BY <1>1 DEF Failed

\* Request c writes the row of its monitor: the copy m, unless the call fails.
Writes(c, m) ==
    \/ monitors'[req[c].id] = m
    \/ UNCHANGED monitors /\ Failed

\* Request c writes the changelog of its monitor.
Logs(c, events) ==
    \/ log'[req[c].id] = events
    \/ UNCHANGED log /\ Failed

Elsewhere(c) ==
    \A x \in Ids \ {req[c].id} : monitors'[x] = monitors[x] /\ log'[x] = log[x]

\* The request keeps what it has in hand.
Keeps(c) == req'[c].m = req[c].m /\ req'[c].ev = req[c].ev /\ req'[c].old = req[c].old

\* A statement that saves m has returned.
Saved(c, m, next, onError) ==
    /\ Writes(c, m) /\ UNCHANGED log /\ Elsewhere(c) /\ Keeps(c)
    /\ req'[c].id = req[c].id
    /\ \/ req'[c].pc = next /\ ~Failed /\ monitors'[req[c].id] = m
       \/ req'[c].pc = onError /\ Failed

(* Statements.                                                             *)
LEMMA SavesEffect ==
  ASSUME TypeOK, NEW c \in Requests, NEW m, NEW next, NEW onError,
         StoreCall(c, Save(req[c].id, m), next, onError)
  PROVE  Saved(c, m, next, onError)
<1>1. req[c].id \in Ids
  BY CopyTyped
<1>2. CASE Save(req[c].id, m) /\ Goto(c, next) /\ UNCHANGED faults
  BY <1>1, <1>2, MonitorSaved, WentTo DEF Saved, Writes, Elsewhere, Keeps, Failed
<1>3. CASE Fault /\ Goto(c, onError) /\ Save(req[c].id, m)
  BY <1>1, <1>3, MonitorSaved, WentTo, FaultCounts DEF Saved, Writes, Elsewhere, Keeps
<1>4. CASE Fault /\ Goto(c, onError) /\ UNCHANGED <<monitors, log>>
  BY <1>4, WentTo, FaultCounts DEF Saved, Writes, Elsewhere, Keeps
<1> QED
  BY <1>2, <1>3, <1>4 DEF StoreCall

LEMMA AppendsEffect ==
  ASSUME TypeOK, NEW c \in Requests, NEW ev, NEW next, NEW onError,
         StoreCall(c, AppendEvent(req[c].id, ev), next, onError)
  PROVE  /\ Logs(c, Append(log[req[c].id], ev)) /\ UNCHANGED monitors /\ Elsewhere(c)
         /\ req'[c].id = req[c].id /\ req'[c].pc \in {next, onError}
<1>1. req[c].id \in Ids
  BY CopyTyped
<1>2. AppendEvent(req[c].id, ev) =>
         /\ log'[req[c].id] = Append(log[req[c].id], ev) /\ UNCHANGED monitors
         /\ \A x \in Ids \ {req[c].id} : log'[x] = log[x]
  BY <1>1, LogAppended DEF AppendEvent
<1>3. CASE AppendEvent(req[c].id, ev) /\ (Goto(c, next) \/ Goto(c, onError))
  BY <1>2, <1>3, WentTo DEF Logs, Elsewhere
<1>4. CASE Fault /\ Goto(c, onError) /\ UNCHANGED <<monitors, log>>
  BY <1>4, WentTo, FaultCounts DEF Logs, Elsewhere
<1> QED
  BY <1>3, <1>4 DEF StoreCall

(* What a step of request c may do, by where the request is.               *)
CreateEffect(c) ==
    /\ req[c].pc = "create" /\ UNCHANGED <<log, alerts, deleted>> /\ Keeps(c)
    /\ Writes(c, req[c].m)
    /\ \/ req'[c].pc = "seed" /\ ~Failed /\ monitors'[req[c].id] = req[c].m
       \/ req'[c].pc = "idle" /\ Failed

SeedEffect(c) ==
    /\ req[c].pc = "seed" /\ UNCHANGED <<monitors, alerts, deleted>> /\ req'[c].pc = "idle"
    /\ Logs(c, Append(log[req[c].id], Event("created", req[c].m.expected, FALSE)))

LoadEffect(c) ==
    /\ req[c].pc = "load" /\ UNCHANGED <<monitors, log, alerts, deleted>>
    /\ \/ req'[c].pc = "idle"
       \/ req'[c].pc = "update" /\ monitors[req[c].id] # Absent

UpdateEffect(c) ==
    /\ req[c].pc = "update" /\ UNCHANGED <<log, alerts, deleted>> /\ req'[c].pc = "idle"
    /\ Writes(c, req[c].m)

DeleteEffect(c) ==
    /\ req[c].pc = "delete" /\ UNCHANGED <<log, alerts, deleted>>
    /\ \/ UNCHANGED monitors /\ req'[c].pc = "idle"
       \/ /\ monitors[req[c].id] # Absent /\ monitors'[req[c].id] = Absent
          /\ req'[c].pc \in {"purge", "idle"}

PurgeEffect(c) ==
    /\ req[c].pc = "purge" /\ UNCHANGED <<monitors, alerts>> /\ req'[c].pc = "idle"
    /\ Logs(c, <<>>)
    /\ deleted' = deleted \cup {req[c].id}

GetEffect(c) ==
    /\ req[c].pc = "get" /\ UNCHANGED <<monitors, log, alerts, deleted>>
    /\ \/ req'[c].pc = "idle"
       \/ /\ req'[c].pc = "check" /\ monitors[req[c].id] # Absent
          /\ req'[c].m = monitors[req[c].id]

CheckEffect(c) ==
    /\ req[c].pc = "check" /\ UNCHANGED <<monitors, log, alerts, deleted>>
    /\ \/ req'[c].pc \in {"append", "notify"} /\ req'[c].ev.status # "changed"
       \/ /\ req'[c].pc = "rebaseline" /\ req'[c].m.expected = req'[c].ev.observed
          /\ req'[c].ev.status = "changed" =>
                /\ req'[c].old = req[c].m.expected
                /\ req[c].m.expected # req'[c].m.expected

RebaselineEffect(c) ==
    /\ req[c].pc = "rebaseline" /\ UNCHANGED <<log, alerts, deleted>> /\ Keeps(c)
    /\ Writes(c, req[c].m)
    /\ req'[c].pc = IF req[c].ev.status = "changed" THEN "notify" ELSE "append"

NotifyEffect(c) ==
    /\ req[c].pc = "notify" /\ UNCHANGED <<monitors, log, deleted>>
    /\ req'[c].pc = "append" /\ req'[c].ev.observed = req[c].ev.observed
    /\ UNCHANGED alerts \/ req[c].ev.status = "changed"

RecordEffect(c) ==
    /\ req[c].pc = "append" /\ UNCHANGED <<monitors, alerts, deleted>> /\ req'[c].pc = "idle"
    /\ Logs(c, Append(log[req[c].id], req[c].ev))

Effect(c) ==
    \/ CreateEffect(c) \/ SeedEffect(c) \/ LoadEffect(c) \/ UpdateEffect(c)
    \/ DeleteEffect(c) \/ PurgeEffect(c) \/ GetEffect(c) \/ CheckEffect(c)
    \/ RebaselineEffect(c) \/ NotifyEffect(c) \/ RecordEffect(c)

(* Every step is one of these.                                             *)
LEMMA StepEffect ==
  ASSUME TypeOK, NEW c \in Requests, Step(c)
  PROVE  Effect(c) /\ Elsewhere(c) /\ req'[c].id = req[c].id /\ issued' = issued
<1>0. req \in [Requests -> Request] /\ req[c] \in Request /\ req[c].id \in Ids
  BY CopyTyped DEF TypeOK
<1>1. CASE CreateSaves(c)
  <2>1. Saved(c, req[c].m, "seed", "idle")
    BY <1>1, SavesEffect, Zenon DEF CreateSaves
  <2> QED
    BY <1>1, <2>1 DEF CreateSaves, CreateEffect, Effect, Saved
<1>2. CASE CreateSeeds(c)
  <2>1. /\ Logs(c, Append(log[req[c].id], Event("created", req[c].m.expected, FALSE)))
        /\ UNCHANGED monitors /\ Elsewhere(c)
        /\ req'[c].id = req[c].id /\ req'[c].pc \in {"idle", "idle"}
    BY <1>2, AppendsEffect, Zenon DEF CreateSeeds
  <2> QED
    BY <1>2, <2>1 DEF CreateSeeds, SeedEffect, Effect
<1>3. CASE UpdateLoads(c)
  BY <1>3, WentTo DEF UpdateLoads, LoadEffect, Effect, Elsewhere
<1>4. CASE UpdateSaves(c)
  <2>1. Saved(c, req[c].m, "idle", "idle")
    BY <1>4, SavesEffect, Zenon DEF UpdateSaves
  <2> QED
    BY <1>4, <2>1 DEF UpdateSaves, UpdateEffect, Effect, Saved
<1>5. CASE DeleteRow(c)
  <2>1. CASE monitors[req[c].id] = Absent /\ Goto(c, "idle") /\ UNCHANGED <<monitors, log, faults>>
    BY <1>5, <2>1, WentTo DEF DeleteRow, DeleteEffect, Effect, Elsewhere
  <2>2. CASE /\ monitors[req[c].id] # Absent
             /\ StoreCall(c, Save(req[c].id, Absent), "purge", "idle")
    <3>1. Saved(c, Absent, "purge", "idle")
      BY <2>2, SavesEffect, Zenon
    <3> QED
      BY <1>5, <2>2, <3>1 DEF DeleteRow, DeleteEffect, Effect, Saved, Writes
  <2> QED
    BY <1>5, <2>1, <2>2 DEF DeleteRow
<1>6. CASE DeleteEvents(c)
  <2> DEFINE purge == log' = [log EXCEPT ![req[c].id] = <<>>] /\ UNCHANGED monitors
  <2>1. Goto(c, "idle") /\ (purge \/ (Fault /\ UNCHANGED <<monitors, log>>))
    BY <1>6 DEF DeleteEvents, StoreCall
  <2>2. purge => log'[req[c].id] = <<>> /\ \A x \in Ids \ {req[c].id} : log'[x] = log[x]
    BY <1>0 DEF TypeOK
  <2>3. Logs(c, <<>>) /\ UNCHANGED monitors /\ Elsewhere(c)
    BY <2>1, <2>2, FaultCounts DEF Logs, Elsewhere
  <2> QED
    BY <1>6, <2>1, <2>3, WentTo DEF DeleteEvents, PurgeEffect, Effect
<1>7. CASE RunLoads(c)
  <2>1. CASE Goto(c, "idle")
    BY <1>7, <2>1, WentTo DEF RunLoads, GetEffect, Effect, Elsewhere
  <2>2. CASE /\ monitors[req[c].id] # Absent
             /\ req' = [req EXCEPT ![c].pc = "check", ![c].m = monitors[req[c].id]]
    <3>1. req'[c].pc = "check" /\ req'[c].m = monitors[req[c].id] /\ req'[c].id = req[c].id
      BY <1>0, <2>2 DEF Request
    <3> QED
      BY <1>7, <2>2, <3>1 DEF RunLoads, GetEffect, Effect, Elsewhere
  <2> QED
    BY <1>7, <2>1, <2>2 DEF RunLoads
<1>8. CASE CheckReturns(c)
  <2>1. req[c].pc = "check" /\ UNCHANGED <<monitors, log, alerts, deleted, issued>>
    BY <1>8 DEF CheckReturns
  <2>2. req'[c].id = req[c].id
        /\ \/ req'[c].pc = "append" /\ req'[c].ev.status = "error"
           \/ \E v \in ValueLists : EvaluatedTo(c, v)
    BY <1>8, CheckOutcome
  <2>3. CheckEffect(c)
    BY <2>1, <2>2 DEF CheckEffect, EvaluatedTo
  <2> QED
    BY <2>1, <2>2, <2>3 DEF Effect, Elsewhere
<1>9. CASE Rebaseline(c)
  <2> DEFINE next == IF req[c].ev.status = "changed" THEN "notify" ELSE "append"
  <2>1. req[c].pc = "rebaseline" /\ StoreCall(c, Save(req[c].id, req[c].m), next, next)
        /\ UNCHANGED <<alerts, deleted, issued>>
    BY <1>9 DEF Rebaseline
  <2> HIDE DEF next
  <2>2. Saved(c, req[c].m, next, next)
    BY <2>1, SavesEffect, Zenon
  <2> QED
    BY <2>1, <2>2 DEF RebaselineEffect, Effect, Saved, next
<1>10. CASE Notify(c)
  <2>1. UNCHANGED <<monitors, log, deleted, issued>>
    BY <1>10 DEF Notify
  <2> QED
    BY <1>10, <2>1, NotifyOutcome DEF NotifyEffect, Effect, Elsewhere
<1>11. CASE RunRecords(c)
  <2>1. /\ Logs(c, Append(log[req[c].id], req[c].ev)) /\ UNCHANGED monitors /\ Elsewhere(c)
        /\ req'[c].id = req[c].id /\ req'[c].pc \in {"idle", "idle"}
    BY <1>11, AppendsEffect, Zenon DEF RunRecords
  <2> QED
    BY <1>11, <2>1 DEF RunRecords, RecordEffect, Effect
<1> QED
  BY <1>1, <1>2, <1>3, <1>4, <1>5, <1>6, <1>7, <1>8, <1>9, <1>10, <1>11 DEF Step

-----------------------------------------------------------------------------
(* Deletes.                                                                *)

\* Where a request is bound to the row of its monitor.
Bound == InHand \cup {"create", "purge"}

\* What request c may rely on: the monitor it has in hand is stored, the row that it
\* deleted is gone, unless the row was deleted under somebody's hands, and nobody else
\* is bound to a row that it is about to create.
Attended(c) ==
    LET id == req[c].id
    IN  /\ req[c].pc # "idle" => id \in issued
        /\ req[c].pc \in InHand => monitors[id] # Absent \/ id \in caught
        /\ req[c].pc = "purge" => monitors[id] = Absent \/ id \in caught
        /\ req[c].pc = "create" =>
              /\ monitors[id] = Absent /\ id \notin deleted
              /\ \A d \in Requests \ {c} : req[d].id = id => req[d].pc \notin Bound

\* Ids that were not handed out are not in use.
NewIds == \A id \in Ids \ issued : monitors[id] = Absent /\ id \notin deleted

DeleteInv == NewIds /\ DeletedStays /\ \A c \in Requests : Attended(c)

\* The record of deletes after a step of request c for id.
ObservesDelete(c, id) ==
    /\ caught' = Put(caught, id,
                     /\ req[c].pc = "delete" /\ monitors' # monitors
                     /\ \E d \in Requests : req[d].id = id /\ req[d].pc \in InHand)
    /\ unpurged' = Put(unpurged, id, req[c].pc = "purge" /\ Failed)

LEMMA DeleteObserved ==
  ASSUME NEW c, NEW id, Observe(c, id)
  PROVE  ObservesDelete(c, id)
BY DEF Observe, ObservesDelete, Failed

(* A request arrives, for a new id or for one that was handed out.         *)
LEMMA ArrivesAttended ==
  ASSUME TypeOK, TypeOK', DeleteInv, NEW c \in Requests,
         CreateMonitor(c) \/ UpdateMonitor(c) \/ DeleteMonitor(c) \/ RunMonitor(c),
         ObservesDelete(c, req'[c].id)
  PROVE  DeleteInv'
<1>1. \A d \in Requests \ {c} : req'[d] = req[d]
  BY OthersStay
<1>2. /\ req[c].pc = "idle" /\ UNCHANGED <<monitors, log, deleted>>
      /\ req'[c].pc \in {"create", "load", "delete", "get"}
      /\ \/ /\ req'[c].pc = "create" /\ req'[c].id \in Ids \ issued
            /\ issued' = issued \cup {req'[c].id}
         \/ req'[c].pc # "create" /\ req'[c].id \in issued /\ issued' = issued
  BY Arrivals
<1>3. UNCHANGED <<caught, unpurged>>
  BY <1>2 DEF ObservesDelete, Put
<1>4. NewIds' /\ DeletedStays'
  BY <1>2, <1>3 DEF DeleteInv, NewIds, DeletedStays
<1>5. \A d \in Requests : req[d].id = req'[c].id /\ req'[c].pc = "create" => req[d].pc = "idle"
  BY <1>2 DEF DeleteInv, Attended
<1>6. Attended(c)'
  BY <1>1, <1>2, <1>3, <1>5 DEF DeleteInv, NewIds, Attended, InHand, Bound
<1>7. ASSUME NEW d \in Requests \ {c} PROVE Attended(d)'
  <2>1. Attended(d) /\ req'[d] = req[d]
    BY <1>1 DEF DeleteInv
  <2>2. req'[d].pc = "create" => req'[c].id # req'[d].id \/ req'[c].pc \notin Bound
    BY <1>2, <2>1 DEF Attended, Bound, InHand
  <2> QED
    BY <1>1, <1>2, <1>3, <2>1, <2>2 DEF Attended
<1> QED
  BY <1>4, <1>6, <1>7 DEF DeleteInv

(* The requests that do not move keep what they rely on, if the row of the *)
(* one that moves appears only where that one relied on it, and disappears *)
(* only on record.                                                         *)
LEMMA OthersAttended ==
  ASSUME TypeOK, TypeOK', DeleteInv, NEW c \in Requests,
         \A d \in Requests \ {c} : req'[d] = req[d],
         req'[c].id = req[c].id, issued' = issued, Elsewhere(c),
         caught \subseteq caught', 
         \/ monitors'[req[c].id] = monitors[req[c].id]
         \/ /\ monitors'[req[c].id] # Absent
            /\ req[c].pc \in {"create", "update", "rebaseline"}
         \/ monitors'[req[c].id] = Absent /\ monitors[req[c].id] # Absent
            /\ \A d \in Requests : req[d].id = req[c].id /\ req[d].pc \in InHand =>
                  req[c].id \in caught',
         deleted' = deleted \/ (deleted' = deleted \cup {req[c].id} /\ req[c].pc = "purge"),
         req'[c].pc \in Bound =>
            req[c].pc \in Bound \/ monitors[req[c].id] # Absent,
         NEW d \in Requests \ {c}
  PROVE  Attended(d)'
<1> DEFINE id == req[c].id
           x == req[d].id
<1>1. req'[d] = req[d] /\ Attended(d) /\ Attended(c) /\ id \in Ids /\ x \in Ids
  BY CopyTyped DEF DeleteInv
<1>2. x # id => monitors'[x] = monitors[x]
  BY <1>1 DEF Elsewhere
<1>3. req[d].pc = "create" /\ x = id => req[c].pc \notin Bound /\ monitors[id] = Absent
  BY <1>1 DEF Attended
<1>4. req[d].pc \in InHand => monitors'[x] # Absent \/ x \in caught'
  BY <1>1, <1>2 DEF Attended
<1>5. req[d].pc = "purge" => monitors'[x] = Absent \/ x \in caught'
  <2> SUFFICES ASSUME req[d].pc = "purge", x = id, monitors'[id] # Absent,
                      monitors[id] = Absent, req[c].pc \in {"create", "update", "rebaseline"}
               PROVE  x \in caught'
    BY <1>1, <1>2 DEF Attended
  <2>1. req[c].pc # "create"
    BY <1>1 DEF Attended, Bound
  <2> QED
    BY <1>1, <2>1 DEF Attended, InHand
<1>6. req[d].pc = "create" => monitors'[x] = Absent /\ x \notin deleted'
  <2> SUFFICES ASSUME req[d].pc = "create" PROVE monitors'[x] = Absent /\ x \notin deleted'
    OBVIOUS
  <2>1. monitors[x] = Absent /\ x \notin deleted
    BY <1>1 DEF Attended
  <2>2. CASE x # id
    BY <1>2, <2>1, <2>2
  <2>3. CASE x = id
    BY <1>3, <2>1, <2>3 DEF Bound, InHand
  <2> QED
    BY <2>2, <2>3
<1>7. ASSUME req[d].pc = "create", NEW e \in Requests \ {d}, req'[e].id = x
      PROVE  req'[e].pc \notin Bound
  <2>1. CASE e = c
    BY <1>3, <1>7, <2>1
  <2>2. CASE e # c
    BY <1>1, <1>7, <2>2 DEF Attended
  <2> QED
    BY <2>1, <2>2
<1> QED
  BY <1>1, <1>4, <1>5, <1>6, <1>7 DEF Attended

(* What a step does to the row, the events and the record of its monitor,  *)
(* as far as deletes are concerned.                                        *)
LEMMA RowChanges ==
  ASSUME TypeOK, NEW c \in Requests, Effect(c), ObservesDelete(c, req[c].id)
  PROVE  /\ caught \subseteq caught' /\ unpurged \subseteq unpurged'
         /\ \/ monitors'[req[c].id] = monitors[req[c].id]
            \/ /\ monitors'[req[c].id] # Absent
               /\ req[c].pc \in {"create", "update", "rebaseline"}
            \/ /\ monitors'[req[c].id] = Absent /\ monitors[req[c].id] # Absent
               /\ \A d \in Requests : req[d].id = req[c].id /\ req[d].pc \in InHand =>
                     req[c].id \in caught'
         /\ deleted' = deleted \/ (deleted' = deleted \cup {req[c].id} /\ req[c].pc = "purge")
         /\ req'[c].pc \in Bound => req[c].pc \in Bound \/ monitors[req[c].id] # Absent
<1> DEFINE id == req[c].id
<1>1. caught \subseteq caught' /\ unpurged \subseteq unpurged'
  BY DEF ObservesDelete, Put
<1>2. req[c].pc \in {"create", "update", "rebaseline"} => req[c].m # Absent
  BY CopyTyped, AbsentIsNone DEF HasCopy
<1>3. CASE CreateEffect(c) \/ UpdateEffect(c) \/ RebaselineEffect(c)
  BY <1>1, <1>2, <1>3 DEF CreateEffect, UpdateEffect, RebaselineEffect, Writes, Bound, InHand
<1>4. CASE DeleteEffect(c)
  BY <1>1, <1>4 DEF DeleteEffect, ObservesDelete, Put, Bound, InHand
<1>5. CASE SeedEffect(c) \/ LoadEffect(c) \/ PurgeEffect(c) \/ GetEffect(c) \/ CheckEffect(c)
           \/ NotifyEffect(c) \/ RecordEffect(c)
  BY <1>1, <1>5 DEF SeedEffect, LoadEffect, PurgeEffect, GetEffect, CheckEffect, NotifyEffect,
                    RecordEffect, Bound, InHand
<1> QED
  BY <1>3, <1>4, <1>5 DEF Effect

(* The request that moves.                                                 *)
LEMMA MoverAttended ==
  ASSUME TypeOK, TypeOK', DeleteInv, NEW c \in Requests, Effect(c), Elsewhere(c),
         \A d \in Requests \ {c} : req'[d] = req[d],
         req'[c].id = req[c].id, issued' = issued, ObservesDelete(c, req[c].id)
  PROVE  Attended(c)'
<1> DEFINE id == req[c].id
<1>1. Attended(c) /\ caught \subseteq caught'
  BY DEF DeleteInv, ObservesDelete, Put
<1>2. req[c].pc \in {"create", "update", "rebaseline"} => req[c].m # Absent
  BY CopyTyped, AbsentIsNone DEF HasCopy
<1>3. CASE CreateEffect(c)
  BY <1>1, <1>2, <1>3 DEF Attended, CreateEffect, InHand, Bound
<1>4. CASE RebaselineEffect(c)
  BY <1>1, <1>2, <1>4 DEF Attended, RebaselineEffect, Writes, InHand, Bound
<1>5. CASE SeedEffect(c) \/ UpdateEffect(c) \/ PurgeEffect(c) \/ RecordEffect(c)
  BY <1>1, <1>5 DEF Attended, SeedEffect, UpdateEffect, PurgeEffect, RecordEffect, InHand, Bound
<1>6. CASE DeleteEffect(c)
  BY <1>1, <1>6 DEF Attended, DeleteEffect, InHand, Bound
<1>7. CASE LoadEffect(c) \/ GetEffect(c)
  BY <1>1, <1>7 DEF Attended, LoadEffect, GetEffect, InHand, Bound
<1>8. CASE CheckEffect(c) \/ NotifyEffect(c)
  BY <1>1, <1>8 DEF Attended, CheckEffect, NotifyEffect, InHand, Bound
<1> QED
  BY <1>3, <1>4, <1>5, <1>6, <1>7, <1>8 DEF Effect

(* A monitor whose delete was answered has no request that would bring it  *)
(* or an event of it back.                                                 *)
LEMMA StepStays ==
  ASSUME TypeOK, TypeOK', DeleteInv, NEW c \in Requests, Effect(c), Elsewhere(c),
         ObservesDelete(c, req[c].id)
  PROVE  DeletedStays'
<1> DEFINE id == req[c].id
<1>0. id \in Ids /\ Attended(c)
  BY CopyTyped DEF DeleteInv
<1>1. caught \subseteq caught' /\ unpurged \subseteq unpurged'
      /\ (deleted' = deleted \/ (deleted' = deleted \cup {id} /\ req[c].pc = "purge"))
  BY RowChanges
<1> SUFFICES ASSUME NEW x \in deleted' \ caught'
             PROVE  monitors'[x] = Absent /\ (x \notin unpurged' => log'[x] = <<>>)
  BY DEF DeletedStays
<1>2. x \in Ids /\ x \notin caught
  BY <1>1 DEF TypeOK
<1>3. CASE x # id
  <2>1. monitors'[x] = monitors[x] /\ log'[x] = log[x] /\ x \in deleted
    BY <1>1, <1>2, <1>3 DEF Elsewhere
  <2> QED
    BY <1>1, <1>2, <2>1 DEF DeleteInv, DeletedStays
<1>4. CASE x = id /\ PurgeEffect(c)
  <2>1. monitors'[x] = Absent
    BY <1>0, <1>2, <1>4 DEF Attended, PurgeEffect
  <2>2. x \notin unpurged' => log'[x] = <<>>
    BY <1>4 DEF PurgeEffect, Logs, ObservesDelete, Put
  <2> QED
    BY <2>1, <2>2
<1>5. CASE x = id /\ ~PurgeEffect(c)
  <2>1. x \in deleted /\ monitors[x] = Absent /\ (x \notin unpurged => log[x] = <<>>)
    BY <1>1, <1>2, <1>5 DEF DeleteInv, DeletedStays, Effect, CreateEffect, SeedEffect, LoadEffect,
       UpdateEffect, DeleteEffect, GetEffect, CheckEffect, RebaselineEffect, NotifyEffect,
       RecordEffect
  <2>2. req[c].pc \notin InHand /\ req[c].pc # "create"
    BY <1>0, <1>2, <1>5, <2>1 DEF Attended
  <2>3. LoadEffect(c) \/ DeleteEffect(c) \/ GetEffect(c)
    BY <1>5, <2>2 DEF Effect, InHand, CreateEffect, SeedEffect, UpdateEffect, CheckEffect,
       RebaselineEffect, NotifyEffect, RecordEffect
  <2>4. monitors'[x] = Absent /\ log'[x] = log[x]
    BY <1>5, <2>1, <2>3 DEF LoadEffect, DeleteEffect, GetEffect
  <2> QED
    BY <1>1, <2>1, <2>4
<1> QED
  BY <1>3, <1>4, <1>5

LEMMA StepAttended ==
  ASSUME TypeOK, TypeOK', DeleteInv, NEW c \in Requests, Step(c), ObservesDelete(c, req'[c].id)
  PROVE  DeleteInv'
<1>1. /\ Effect(c) /\ Elsewhere(c) /\ req'[c].id = req[c].id /\ issued' = issued
      /\ \A d \in Requests \ {c} : req'[d] = req[d]
  BY StepEffect, OthersStay
<1>2. ObservesDelete(c, req[c].id)
  BY <1>1
<1>3. DeletedStays' /\ Attended(c)'
  BY <1>1, <1>2, StepStays, MoverAttended, Zenon
<1>4. /\ caught \subseteq caught' /\ unpurged \subseteq unpurged'
      /\ \/ monitors'[req[c].id] = monitors[req[c].id]
         \/ /\ monitors'[req[c].id] # Absent
            /\ req[c].pc \in {"create", "update", "rebaseline"}
         \/ /\ monitors'[req[c].id] = Absent /\ monitors[req[c].id] # Absent
            /\ \A d \in Requests : req[d].id = req[c].id /\ req[d].pc \in InHand =>
                  req[c].id \in caught'
      /\ deleted' = deleted \/ (deleted' = deleted \cup {req[c].id} /\ req[c].pc = "purge")
      /\ req'[c].pc \in Bound => req[c].pc \in Bound \/ monitors[req[c].id] # Absent
  BY <1>1, <1>2, RowChanges, Zenon
<1>5. ASSUME NEW d \in Requests \ {c} PROVE Attended(d)'
  BY <1>1, <1>4, OthersAttended, Zenon
<1>6. NewIds'
  <2>1. req[c].id \in issued
    BY <1>1 DEF DeleteInv, Attended, Effect, CreateEffect, SeedEffect, LoadEffect, UpdateEffect,
       DeleteEffect, PurgeEffect, GetEffect, CheckEffect, RebaselineEffect, NotifyEffect,
       RecordEffect
  <2> QED
    BY <1>1, <1>4, <2>1 DEF DeleteInv, NewIds, Elsewhere
<1> QED
  BY <1>3, <1>5, <1>6 DEF DeleteInv

(* The process ends: its requests are gone.                                *)
LEMMA CrashStops ==
  ASSUME TypeOK, Crash
  PROVE  /\ \A c \in Requests : /\ req'[c].pc = "idle" /\ req'[c].id = req[c].id
                                /\ req'[c].m = req[c].m /\ req'[c].ev = req[c].ev
         /\ UNCHANGED <<monitors, log, alerts, issued, deleted>>
BY DEF Crash, TypeOK, Request

(* A step of HNext is a request's, with what it adds to the record, or the *)
(* end of the process.                                                     *)
LEMMA HistorySteps ==
  ASSUME [HNext]_hvars
  PROVE  \/ \E c \in Requests :
               /\ \/ CreateMonitor(c) \/ UpdateMonitor(c) \/ DeleteMonitor(c) \/ RunMonitor(c)
                  \/ Step(c)
               /\ Observe(c, req'[c].id)
         \/ Crash /\ ObserveCrash
         \/ UNCHANGED hvars
BY Zenon DEF HNext, Act

(* The record only watches.                                                *)
LEMMA HistoryRefines == HSpec => Spec
<1>1. HInit => Init
  BY DEF HInit
<1>2. [HNext]_hvars => [Next]_vars
  BY Zenon DEF HNext, Act, Next, hvars
<1> QED
  BY <1>1, <1>2, PTL DEF HSpec, Spec

LEMMA DeleteInvStep == TypeOK /\ TypeOK' /\ DeleteInv /\ [HNext]_hvars => DeleteInv'
<1> SUFFICES ASSUME TypeOK, TypeOK', DeleteInv, [HNext]_hvars PROVE DeleteInv'
  OBVIOUS
<1>1. ASSUME NEW c \in Requests, Observe(c, req'[c].id),
             CreateMonitor(c) \/ UpdateMonitor(c) \/ DeleteMonitor(c) \/ RunMonitor(c)
      PROVE  DeleteInv'
  BY <1>1, DeleteObserved, ArrivesAttended, Zenon
<1>2. ASSUME NEW c \in Requests, Observe(c, req'[c].id), Step(c)
      PROVE  DeleteInv'
  BY <1>2, DeleteObserved, StepAttended, Zenon
<1>3. CASE Crash /\ ObserveCrash
  <2>1. /\ \A c \in Requests : req'[c].pc = "idle" /\ req'[c].id = req[c].id
        /\ UNCHANGED <<monitors, log, issued, deleted, caught, unpurged>>
    BY <1>3, CrashStops DEF ObserveCrash
  <2>2. \A c \in Requests : Attended(c)'
    BY <2>1 DEF Attended, InHand
  <2> QED
    BY <2>1, <2>2 DEF DeleteInv, NewIds, DeletedStays
<1>4. CASE UNCHANGED hvars
  BY <1>4 DEF hvars, vars, history, DeleteInv, NewIds, DeletedStays, Attended
<1> QED
  BY <1>1, <1>2, <1>3, <1>4, HistorySteps

LEMMA DeleteInvAlways == HSpec => []DeleteInv
<1>1. HInit => DeleteInv
  BY DEF HInit, Init, DeleteInv, NewIds, DeletedStays, Attended, InHand
<1>2. HSpec => []TypeOK
  BY HistoryRefines, MonitorsTyped, PTL
<1> QED
  BY <1>1, <1>2, DeleteInvStep, PTL DEF HSpec

(* For any number of overlapping requests, failing calls and crashes: once *)
(* a delete was answered, no update and no run brings the monitor or an    *)
(* event of it back, unless its row was deleted while a request had the    *)
(* monitor in hand.                                                        *)
THEOREM DeletedMonitorsStayAway == HSpec => []DeletedStays
<1>1. DeleteInv => DeletedStays
  BY DEF DeleteInv
<1> QED
  BY <1>1, DeleteInvAlways, PTL

-----------------------------------------------------------------------------
(* Alerts.                                                                 *)

\* A run that is about to report a change.
Reporting(c) == req[c].pc = "notify" /\ req[c].ev.status = "changed"

\* What a run knows of the stored baseline as long as the era that it loaded lasts: it
\* is the one that the run has in hand, or is going to replace by another.
Current(c) ==
    LET id == req[c].id
    IN  /\ req[c].pc \in {"check", "rebaseline"} => base[c] <= era[id]
        /\ req[c].pc = "check" /\ base[c] = era[id] =>
              monitors[id].expected = req[c].m.expected
        /\ req[c].pc = "rebaseline" /\ req[c].ev.status = "changed" =>
              /\ req[c].m.expected # req[c].old
              /\ base[c] = era[id] => monitors[id].expected = req[c].old

\* The baseline that a run reports as replaced is a past one, and nobody else has
\* reported it or is about to.
OwnChange(c) ==
    LET id == req[c].id
    IN  Reporting(c) /\ id \notin crossed =>
            /\ base[c] < era[id]
            /\ \A i \in 1..Len(reported[id]) : reported[id][i] # base[c]
            /\ \A d \in Requests \ {c} : req[d].id = id /\ Reporting(d) => base[d] # base[c]

\* Alerts only report past baselines.
PastReported ==
    \A id \in Ids \ crossed : \A i \in 1..Len(reported[id]) : reported[id][i] < era[id]

RecordTyped ==
    era \in [Ids -> Nat] /\ base \in [Requests -> Nat] /\ reported \in [Ids -> Seq(Nat)]

AlertInv ==
    /\ RecordTyped
    /\ \A c \in Requests : Current(c) /\ OwnChange(c)
    /\ PastReported
    /\ ChangeAlertsOnce

\* What a step of request c for id may do to the eras and the reports.
Advances(c, id) ==
    /\ id \in Ids /\ req'[c].id = id /\ RecordTyped'
    /\ \A x \in Ids : /\ era[x] <= era'[x]
                      /\ era'[x] = era[x] => monitors'[x].expected = monitors[x].expected
    /\ \A d \in Requests \ {c} : base'[d] = base[d] /\ req'[d] = req[d]
    /\ crossed \subseteq crossed'
    /\ \/ reported' = reported
       \/ /\ Reporting(c) /\ req[c].id = id
          /\ reported'[id] = Append(reported[id], base[c])
          /\ \A x \in Ids \ {id} : reported'[x] = reported[x]
    /\ Reporting(c)' => /\ ~Reporting(c) /\ base'[c] = base[c]
                        /\ id \notin crossed' => base[c] = era[id] /\ era[id] < era'[id]

LEMMA AppendedItem ==
  ASSUME NEW s \in Seq(Nat), NEW n \in Nat, NEW i \in 1..Len(Append(s, n))
  PROVE  \/ i \in 1..Len(s) /\ Append(s, n)[i] = s[i]
         \/ i = Len(s) + 1 /\ Append(s, n)[i] = n
OBVIOUS

(* The requests that do not move know what they knew.                      *)
LEMMA OthersCurrent ==
  ASSUME TypeOK, AlertInv, NEW c \in Requests, NEW id, Advances(c, id),
         NEW d \in Requests \ {c}
  PROVE  Current(d)'
<1>1. /\ req'[d] = req[d] /\ base'[d] = base[d] /\ req[d].id \in Ids
      /\ Current(d) /\ RecordTyped /\ RecordTyped'
  BY CopyTyped DEF Advances, AlertInv
<1> DEFINE x == req[d].id
<1>2. /\ era[x] \in Nat /\ era'[x] \in Nat /\ base[d] \in Nat /\ era[x] <= era'[x]
      /\ era'[x] = era[x] => monitors'[x].expected = monitors[x].expected
  BY <1>1 DEF RecordTyped, Advances
<1> QED
  BY <1>1, <1>2 DEF Current

(* What is reported stays different.                                       *)
LEMMA ReportsDiffer ==
  ASSUME TypeOK, AlertInv, NEW c \in Requests, NEW id, Advances(c, id)
  PROVE  (\A d \in Requests : OwnChange(d)') /\ PastReported' /\ ChangeAlertsOnce'
<1>0. /\ id \in Ids /\ RecordTyped /\ RecordTyped' /\ crossed \subseteq crossed'
      /\ base \in [Requests -> Nat] /\ reported \in [Ids -> Seq(Nat)]
  BY DEF Advances, AlertInv, RecordTyped
<1>1. ASSUME NEW x \in Ids
      PROVE  era[x] \in Nat /\ era'[x] \in Nat /\ era[x] <= era'[x]
  BY <1>0 DEF Advances, RecordTyped
<1>2. ASSUME NEW x \in Ids, x \notin crossed', NEW i \in 1..Len(reported'[x])
      PROVE  \/ i \in 1..Len(reported[x]) /\ reported'[x][i] = reported[x][i]
             \/ /\ x = id /\ req[c].id = id /\ Reporting(c) /\ i = Len(reported[x]) + 1
                /\ reported'[x][i] = base[c]
  <2>1. CASE reported'[x] = reported[x]
    BY <1>2, <2>1
  <2>2. CASE /\ x = id /\ Reporting(c) /\ req[c].id = id
             /\ reported'[id] = Append(reported[id], base[c])
    BY <1>0, <1>2, <2>2, AppendedItem
  <2> QED
    BY <1>2, <2>1, <2>2 DEF Advances
<1>3. Reporting(c) /\ req[c].id \notin crossed =>
        /\ base[c] < era[req[c].id]
        /\ \A i \in 1..Len(reported[req[c].id]) : reported[req[c].id][i] # base[c]
        /\ \A d \in Requests \ {c} : req[d].id = req[c].id /\ Reporting(d) => base[d] # base[c]
  BY DEF AlertInv, OwnChange
<1>4. PastReported'
  <2> SUFFICES ASSUME NEW x \in Ids \ crossed', NEW i \in 1..Len(reported'[x])
               PROVE  reported'[x][i] < era'[x]
    BY DEF PastReported
  <2>1. x \in Ids \ crossed /\ era[x] \in Nat /\ era'[x] \in Nat /\ era[x] <= era'[x]
    BY <1>0, <1>1
  <2>2. CASE i \in 1..Len(reported[x]) /\ reported'[x][i] = reported[x][i]
    <3>1. reported[x][i] < era[x] /\ reported[x][i] \in Nat
      BY <1>0, <2>1, <2>2 DEF AlertInv, PastReported
    <3> QED
      BY <2>1, <2>2, <3>1
  <2>3. CASE x = id /\ req[c].id = id /\ Reporting(c) /\ reported'[x][i] = base[c]
    <3>1. base[c] < era[x] /\ base[c] \in Nat
      BY <1>0, <1>3, <2>1, <2>3
    <3> QED
      BY <2>1, <2>3, <3>1
  <2> QED
    BY <1>2, <2>2, <2>3
<1>5. ChangeAlertsOnce'
  <2> SUFFICES ASSUME NEW x \in Ids \ crossed', NEW i \in 1..Len(reported'[x]),
                      NEW j \in 1..Len(reported'[x]), reported'[x][i] = reported'[x][j]
               PROVE  i = j
    BY DEF ChangeAlertsOnce
  <2>1. x \in Ids /\ x \notin crossed /\ x \notin crossed'
    BY <1>0
  <2>2. CASE /\ i \in 1..Len(reported[x]) /\ reported'[x][i] = reported[x][i]
             /\ j \in 1..Len(reported[x]) /\ reported'[x][j] = reported[x][j]
    BY <2>1, <2>2 DEF AlertInv, ChangeAlertsOnce
  <2>3. ASSUME NEW k \in 1..Len(reported[x]), Reporting(c), x = id, req[c].id = id
        PROVE  reported[x][k] # base[c]
    BY <1>3, <2>1, <2>3
  <2>4. CASE i = Len(reported[x]) + 1 /\ reported'[x][i] = base[c] /\ Reporting(c)
             /\ x = id /\ req[c].id = id
    BY <1>2, <2>1, <2>3, <2>4
  <2>5. CASE j = Len(reported[x]) + 1 /\ reported'[x][j] = base[c] /\ Reporting(c)
             /\ x = id /\ req[c].id = id
    BY <1>2, <2>1, <2>3, <2>5
  <2> QED
    BY <1>2, <2>1, <2>2, <2>4, <2>5
<1>6. ASSUME NEW d \in Requests PROVE OwnChange(d)'
  <2> DEFINE x == req'[d].id
  <2> SUFFICES ASSUME Reporting(d)', x \notin crossed'
               PROVE  /\ base'[d] < era'[x]
                      /\ \A i \in 1..Len(reported'[x]) : reported'[x][i] # base'[d]
                      /\ \A e \in Requests \ {d} :
                            req'[e].id = x /\ Reporting(e)' => base'[e] # base'[d]
    BY Zenon DEF OwnChange
  <2>1. CASE d = c
    <3>1. /\ x = id /\ ~Reporting(c) /\ base'[c] = base[c] /\ base[c] = era[id]
          /\ era[id] < era'[id] /\ reported' = reported
      BY <2>1 DEF Advances
    <3>2. \A i \in 1..Len(reported[id]) : reported[id][i] < era[id] /\ reported[id][i] \in Nat
      BY <1>0, <3>1 DEF AlertInv, PastReported
    <3>3. ASSUME NEW e \in Requests \ {c}, req'[e].id = id, Reporting(e)'
          PROVE  base'[e] # base[c]
      <4>1. req'[e] = req[e] /\ base'[e] = base[e]
        BY <3>3 DEF Advances
      <4>2. req[e].id = id /\ Reporting(e)
        BY <3>3, <4>1 DEF Reporting
      <4>3. base[e] < era[id] /\ base[e] \in Nat /\ era[id] \in Nat
        BY <1>0, <1>1, <3>1, <4>2 DEF AlertInv, OwnChange
      <4> QED
        BY <3>1, <4>1, <4>3
    <3>4. \A i \in 1..Len(reported'[id]) : reported'[id][i] # base'[c]
      BY <1>0, <1>1, <3>1, <3>2
    <3> QED
      BY <2>1, <3>1, <3>3, <3>4
  <2>2. CASE d # c
    <3>1. req'[d] = req[d] /\ base'[d] = base[d] /\ x = req[d].id /\ x \in Ids
      BY <2>2, CopyTyped DEF Advances
    <3>2. Reporting(d) /\ x \notin crossed
      BY <1>0, <3>1 DEF Reporting
    <3>3. /\ base[d] < era[x] /\ \A i \in 1..Len(reported[x]) : reported[x][i] # base[d]
          /\ \A e \in Requests \ {d} : req[e].id = x /\ Reporting(e) => base[e] # base[d]
      BY <3>1, <3>2 DEF AlertInv, OwnChange
    <3>4. base[d] < era'[x]
      BY <1>0, <1>1, <3>1, <3>3
    <3>5. ASSUME NEW i \in 1..Len(reported'[x]) PROVE reported'[x][i] # base[d]
      BY <1>2, <2>2, <3>1, <3>3, <3>5
    <3>6. ASSUME NEW e \in Requests \ {d}, req'[e].id = x, Reporting(e)'
          PROVE  base'[e] # base[d]
      <4>1. CASE e # c
        <5>1. req'[e] = req[e] /\ base'[e] = base[e]
          BY <4>1 DEF Advances
        <5> QED
          BY <3>3, <3>6, <5>1 DEF Reporting
      <4>2. CASE e = c
        <5>1. x = id /\ base'[c] = base[c] /\ base[c] = era[id]
          BY <3>6, <4>2 DEF Advances
        <5> QED
          BY <1>0, <1>1, <3>3, <4>2, <5>1
      <4> QED
        BY <4>1, <4>2
    <3> QED
      BY <3>1, <3>4, <3>5, <3>6
  <2> QED
    BY <2>1, <2>2
<1> QED
  BY <1>4, <1>5, <1>6

\* The record of baselines and alerts after a step of request c for id.
ObservesAlert(c, id) ==
    /\ era' = [x \in Ids |-> IF monitors'[x].expected = monitors[x].expected THEN era[x]
                             ELSE era[x] + 1]
    /\ base' = IF req[c].pc = "get" THEN [base EXCEPT ![c] = era[id]] ELSE base
    /\ reported' = IF alerts' = alerts THEN reported
                   ELSE [reported EXCEPT ![id] = Append(@, base[c])]
    /\ crossed' = Put(crossed, id, req[c].pc = "rebaseline" /\ (Failed \/ base[c] # era[id]))

LEMMA AlertObserved ==
  ASSUME NEW c, NEW id, Observe(c, id)
  PROVE  ObservesAlert(c, id)
BY DEF Observe, ObservesAlert, Failed

(* Eras only grow, and by one whenever the baseline changes.               *)
LEMMA EraGrows ==
  ASSUME RecordTyped, NEW c \in Requests, NEW id \in Ids, ObservesAlert(c, id)
  PROVE  /\ RecordTyped' /\ crossed \subseteq crossed'
         /\ \A d \in Requests \ {c} : base'[d] = base[d]
         /\ \A x \in Ids :
               /\ era[x] <= era'[x]
               /\ era'[x] = era[x] => monitors'[x].expected = monitors[x].expected
               /\ monitors'[x].expected # monitors[x].expected => era[x] < era'[x]
         /\ \/ reported' = reported
            \/ /\ alerts' # alerts /\ reported'[id] = Append(reported[id], base[c])
               /\ \A x \in Ids \ {id} : reported'[x] = reported[x]
<1>0. era \in [Ids -> Nat] /\ base \in [Requests -> Nat] /\ reported \in [Ids -> Seq(Nat)]
  BY DEF RecordTyped
<1>1. \A x \in Ids : /\ era'[x] \in Nat /\ era[x] <= era'[x]
                     /\ era'[x] = era[x] => monitors'[x].expected = monitors[x].expected
                     /\ monitors'[x].expected # monitors[x].expected => era[x] < era'[x]
  BY <1>0 DEF ObservesAlert
<1>2. era' \in [Ids -> Nat]
  BY <1>1 DEF ObservesAlert
<1>3. base' \in [Requests -> Nat] /\ \A d \in Requests \ {c} : base'[d] = base[d]
  BY <1>0 DEF ObservesAlert
<1>4. /\ reported' \in [Ids -> Seq(Nat)]
      /\ \/ reported' = reported
         \/ /\ alerts' # alerts /\ reported'[id] = Append(reported[id], base[c])
            /\ \A x \in Ids \ {id} : reported'[x] = reported[x]
  BY <1>0 DEF ObservesAlert
<1>5. crossed \subseteq crossed'
  BY DEF ObservesAlert, Put
<1> QED
  BY <1>1, <1>2, <1>3, <1>4, <1>5 DEF RecordTyped

LEMMA ArrivalAdvances ==
  ASSUME TypeOK, TypeOK', AlertInv, NEW c \in Requests,
         CreateMonitor(c) \/ UpdateMonitor(c) \/ DeleteMonitor(c) \/ RunMonitor(c),
         ObservesAlert(c, req'[c].id)
  PROVE  Advances(c, req'[c].id) /\ Current(c)'
<1>1. /\ req'[c].pc \in {"create", "load", "delete", "get"} /\ UNCHANGED alerts
      /\ req'[c].id \in Ids
  BY Arrivals DEF TypeOK
<1>2. \A d \in Requests \ {c} : req'[d] = req[d]
  BY OthersStay
<1>3. Advances(c, req'[c].id)
  BY <1>1, <1>2, EraGrows DEF AlertInv, Advances, Reporting
<1>4. Current(c)'
  BY <1>1 DEF Current
<1> QED
  BY <1>3, <1>4

(* Alerts are sent by a run that reports, and a run comes to report by a   *)
(* re-baseline.                                                            *)
LEMMA ReportComes ==
  ASSUME NEW c \in Requests, Effect(c)
  PROVE  /\ alerts' # alerts => Reporting(c)
         /\ Reporting(c)' => RebaselineEffect(c) /\ req[c].ev.status = "changed"
<1>1. CASE CreateEffect(c) \/ SeedEffect(c) \/ LoadEffect(c) \/ UpdateEffect(c)
  BY <1>1 DEF CreateEffect, SeedEffect, LoadEffect, UpdateEffect, Reporting
<1>2. CASE DeleteEffect(c) \/ PurgeEffect(c) \/ GetEffect(c) \/ CheckEffect(c)
  BY <1>2 DEF DeleteEffect, PurgeEffect, GetEffect, CheckEffect, Reporting
<1>3. CASE RebaselineEffect(c)
  BY <1>3 DEF RebaselineEffect, Keeps, Reporting
<1>4. CASE NotifyEffect(c) \/ RecordEffect(c)
  BY <1>4 DEF NotifyEffect, RecordEffect, Reporting
<1> QED
  BY <1>1, <1>2, <1>3, <1>4 DEF Effect

LEMMA StepAdvances ==
  ASSUME TypeOK, TypeOK', AlertInv, NEW c \in Requests, Effect(c),
         \A d \in Requests \ {c} : req'[d] = req[d], req'[c].id = req[c].id,
         ObservesAlert(c, req[c].id)
  PROVE  Advances(c, req[c].id)
<1> DEFINE id == req[c].id
<1>1. id \in Ids /\ RecordTyped /\ Current(c)
  BY CopyTyped DEF AlertInv
<1>2. Reporting(c)' => ~Reporting(c) /\ base'[c] = base[c]
  BY ReportComes DEF RebaselineEffect, Reporting, ObservesAlert
<1>3. ASSUME Reporting(c)', id \notin crossed'
      PROVE  base[c] = era[id] /\ era[id] < era'[id]
  <2>1. req[c].pc = "rebaseline" /\ req[c].ev.status = "changed" /\ Writes(c, req[c].m)
    BY <1>3, ReportComes DEF RebaselineEffect
  <2>2. base[c] = era[id] /\ ~Failed
    BY <1>3, <2>1 DEF ObservesAlert, Put
  <2>3. monitors'[id].expected # monitors[id].expected
    BY <1>1, <2>1, <2>2 DEF Current, Writes
  <2> QED
    BY <1>1, <2>2, <2>3, EraGrows
<1>4. /\ RecordTyped' /\ crossed \subseteq crossed'
      /\ \A d \in Requests \ {c} : base'[d] = base[d]
      /\ \A x \in Ids : /\ era[x] <= era'[x]
                        /\ era'[x] = era[x] => monitors'[x].expected = monitors[x].expected
      /\ \/ reported' = reported
         \/ /\ alerts' # alerts /\ reported'[id] = Append(reported[id], base[c])
            /\ \A x \in Ids \ {id} : reported'[x] = reported[x]
  BY <1>1, EraGrows
<1> QED
  BY <1>1, <1>2, <1>3, <1>4, ReportComes DEF Advances

(* The request that moves.                                                 *)
LEMMA MoverCurrent ==
  ASSUME TypeOK, TypeOK', AlertInv, NEW c \in Requests, Effect(c), req'[c].id = req[c].id,
         ObservesAlert(c, req[c].id)
  PROVE  Current(c)'
<1> DEFINE id == req[c].id
<1>1. id \in Ids /\ Current(c) /\ era \in [Ids -> Nat] /\ base \in [Requests -> Nat]
  BY CopyTyped DEF AlertInv, RecordTyped
<1>2. UNCHANGED monitors => era'[id] = era[id]
  BY <1>1 DEF ObservesAlert
<1>3. CASE req'[c].pc \notin {"check", "rebaseline"}
  BY <1>3 DEF Current
<1>4. CASE GetEffect(c)
  BY <1>1, <1>2, <1>4 DEF GetEffect, Current, ObservesAlert
<1>5. CASE CheckEffect(c)
  <2>1. base' = base /\ UNCHANGED monitors
    BY <1>5 DEF CheckEffect, ObservesAlert
  <2> QED
    BY <1>1, <1>2, <1>5, <2>1 DEF CheckEffect, Current
<1>6. Effect(c) => GetEffect(c) \/ CheckEffect(c) \/ req'[c].pc \notin {"check", "rebaseline"}
  BY DEF Effect, CreateEffect, SeedEffect, LoadEffect, UpdateEffect, DeleteEffect, PurgeEffect,
         RebaselineEffect, NotifyEffect, RecordEffect
<1> QED
  BY <1>3, <1>4, <1>5, <1>6

LEMMA AlertInvStep == TypeOK /\ TypeOK' /\ AlertInv /\ [HNext]_hvars => AlertInv'
<1> SUFFICES ASSUME TypeOK, TypeOK', AlertInv, [HNext]_hvars PROVE AlertInv'
  OBVIOUS
<1>1. ASSUME NEW c \in Requests, NEW id, Advances(c, id), Current(c)' PROVE AlertInv'
  <2>1. \A d \in Requests : Current(d)'
    BY <1>1, OthersCurrent, Zenon
  <2>2. (\A d \in Requests : OwnChange(d)') /\ PastReported' /\ ChangeAlertsOnce' /\ RecordTyped'
    BY <1>1, ReportsDiffer DEF Advances
  <2> QED
    BY <2>1, <2>2 DEF AlertInv
<1>2. ASSUME NEW c \in Requests, Observe(c, req'[c].id),
             CreateMonitor(c) \/ UpdateMonitor(c) \/ DeleteMonitor(c) \/ RunMonitor(c)
      PROVE  AlertInv'
  BY <1>1, <1>2, AlertObserved, ArrivalAdvances, Zenon
<1>3. ASSUME NEW c \in Requests, Observe(c, req'[c].id), Step(c)
      PROVE  AlertInv'
  <2>1. /\ Effect(c) /\ req'[c].id = req[c].id /\ \A d \in Requests \ {c} : req'[d] = req[d]
        /\ ObservesAlert(c, req'[c].id)
    BY <1>3, StepEffect, OthersStay, AlertObserved
  <2>2. ObservesAlert(c, req[c].id)
    BY <2>1
  <2>3. Advances(c, req[c].id) /\ Current(c)'
    BY <2>1, <2>2, StepAdvances, MoverCurrent, Zenon
  <2> QED
    BY <1>1, <2>3
<1>4. CASE Crash /\ ObserveCrash
  <2>1. /\ \A c \in Requests : req'[c].pc = "idle"
        /\ UNCHANGED <<monitors, era, base, reported, crossed>>
    BY <1>4, CrashStops DEF ObserveCrash
  <2>2. \A c \in Requests : Current(c)' /\ OwnChange(c)'
    BY <2>1 DEF Current, OwnChange, Reporting
  <2> QED
    BY <2>1, <2>2 DEF AlertInv, RecordTyped, PastReported, ChangeAlertsOnce
<1>5. CASE UNCHANGED hvars
  <2>1. UNCHANGED <<monitors, req, era, base, reported, crossed>>
    BY <1>5 DEF hvars, vars, history
  <2>2. \A c \in Requests : Current(c)' /\ OwnChange(c)'
    BY <2>1 DEF AlertInv, Current, OwnChange, Reporting
  <2> QED
    BY <2>1, <2>2 DEF AlertInv, RecordTyped, PastReported, ChangeAlertsOnce
<1> QED
  BY <1>2, <1>3, <1>4, <1>5, HistorySteps

(* For any number of overlapping requests, failing calls and crashes: a    *)
(* baseline that was replaced is reported by one alert at most, until a    *)
(* run fails to save its baseline or replaces one that it had not          *)
(* evaluated.                                                              *)
THEOREM EachBaselineReportedOnce == HSpec => []ChangeAlertsOnce
<1>1. HInit => AlertInv
  BY DEF HInit, Init, AlertInv, RecordTyped, Current, OwnChange, Reporting, PastReported,
         ChangeAlertsOnce
<1>2. HSpec => []TypeOK
  BY HistoryRefines, MonitorsTyped, PTL
<1>3. AlertInv => ChangeAlertsOnce
  BY DEF AlertInv
<1> QED
  BY <1>1, <1>2, <1>3, AlertInvStep, PTL DEF HSpec

-----------------------------------------------------------------------------
(* The changelog.                                                          *)

\* The baseline of a monitor is in its changelog.
Logged(id) == \E i \in 1..Len(log[id]) : log[id][i].observed = monitors[id].expected

\* Request c is on its way to write it there.
OnItsWay(c, id) ==
    /\ req[c].id = id
    /\ \/ req[c].pc = "seed" /\ req[c].m.expected = monitors[id].expected
       \/ req[c].pc \in {"notify", "append"} /\ req[c].ev.observed = monitors[id].expected

Recorded(id) == monitors[id] # Absent => Logged(id) \/ \E c \in Requests : OnItsWay(c, id)

\* A run that re-baselines records the value that it saves.
SavesObserved(c) == req[c].pc = "rebaseline" => req[c].m.expected = req[c].ev.observed

RecordInv == BaselineRecorded /\ \A c \in Requests : SavesObserved(c)

LEMMA RecordedEach == BaselineRecorded <=> \A id \in Ids \ (unlogged \cup caught) : Recorded(id)
BY Zenon DEF BaselineRecorded, Recorded, Logged, OnItsWay

\* The record of events after a step of request c for id.
ObservesLog(c, id) ==
    /\ caught \subseteq caught'
    /\ unlogged' = IF req[c].pc = "rebaseline" /\ monitors'[id] = req[c].m THEN unlogged \ {id}
                   ELSE Put(unlogged, id, \/ req[c].pc = "update"
                                          \/ req[c].pc \in {"create", "seed", "append"} /\ Failed)

LEMMA LogObserved ==
  ASSUME NEW c, NEW id, Observe(c, id)
  PROVE  ObservesLog(c, id)
BY DEF Observe, ObservesLog, Failed, Put

(* A baseline that does not change stays recorded, if the step neither     *)
(* shortens the changelog nor drops an event that is on its way.           *)
LEMMA RecordedStays ==
  ASSUME TypeOK, NEW c \in Requests, NEW x \in Ids, Recorded(x),
         monitors'[x] = monitors[x], \A d \in Requests \ {c} : req'[d] = req[d],
         \/ log'[x] = log[x] /\ (OnItsWay(c, x) => OnItsWay(c, x)')
         \/ \E ev : /\ log'[x] = Append(log[x], ev)
                    /\ OnItsWay(c, x) => ev.observed = monitors[x].expected
  PROVE  Recorded(x)'
<1>0. log[x] \in Seq(Events)
  BY DEF TypeOK
<1> SUFFICES ASSUME monitors[x] # Absent
             PROVE  Logged(x)' \/ \E d \in Requests : OnItsWay(d, x)'
  BY DEF Recorded
<1>1. ASSUME NEW ev, log'[x] = Append(log[x], ev)
      PROVE  /\ Logged(x) => Logged(x)'
             /\ ev.observed = monitors[x].expected => Logged(x)'
  <2>1. /\ Len(log'[x]) = Len(log[x]) + 1 /\ Len(log[x]) \in Nat
        /\ log'[x][Len(log[x]) + 1] = ev
        /\ \A i \in 1..Len(log[x]) : log'[x][i] = log[x][i]
    BY <1>0, <1>1
  <2>2. ASSUME NEW i \in 1..Len(log'[x]), log'[x][i].observed = monitors[x].expected
        PROVE  Logged(x)'
    BY <2>2 DEF Logged
  <2>3. Len(log[x]) + 1 \in 1..Len(log'[x]) /\ 1..Len(log[x]) \subseteq 1..Len(log'[x])
    BY <2>1
  <2>4. Logged(x) => Logged(x)'
    BY <2>1, <2>2, <2>3 DEF Logged
  <2> QED
    BY <2>1, <2>2, <2>3, <2>4
<1>2. Logged(x) => Logged(x)'
  BY <1>1 DEF Logged
<1>3. ASSUME NEW d \in Requests \ {c}, OnItsWay(d, x) PROVE OnItsWay(d, x)'
  BY <1>3 DEF OnItsWay
<1>4. OnItsWay(c, x) => OnItsWay(c, x)' \/ Logged(x)'
  BY <1>1
<1> QED
  BY <1>2, <1>3, <1>4 DEF Recorded

(* The monitor of the request that moves.                                  *)
LEMMA MoverRecorded ==
  ASSUME TypeOK, TypeOK', DeleteInv, RecordInv, NEW c \in Requests, Effect(c),
         \A d \in Requests \ {c} : req'[d] = req[d], req'[c].id = req[c].id,
         ObservesLog(c, req[c].id), req[c].id \notin unlogged' \cup caught'
  PROVE  Recorded(req[c].id)'
<1> DEFINE id == req[c].id
<1>0. id \in Ids /\ id \notin caught /\ Attended(c) /\ SavesObserved(c)
  BY CopyTyped DEF ObservesLog, DeleteInv, RecordInv
<1>1. ASSUME ~(req[c].pc = "rebaseline" /\ monitors'[id] = req[c].m) PROVE Recorded(id)
  <2>1. id \notin unlogged
    BY <1>1 DEF ObservesLog, Put
  <2> QED
    BY <1>0, <2>1, RecordedEach DEF RecordInv
<1>2. CASE CreateEffect(c)
  <2>1. req'[c].pc = "seed" /\ monitors'[id] = req[c].m /\ req'[c].m = req[c].m
    BY <1>2 DEF CreateEffect, Keeps, ObservesLog, Put
  <2>2. OnItsWay(c, id)'
    BY <2>1 DEF OnItsWay
  <2> QED
    BY <2>2 DEF Recorded
<1>3. CASE SeedEffect(c)
  <2>1. /\ UNCHANGED monitors /\ Recorded(id) /\ req[c].pc = "seed"
        /\ log'[id] = Append(log[id], Event("created", req[c].m.expected, FALSE))
    BY <1>1, <1>3 DEF SeedEffect, Logs, ObservesLog, Put
  <2>2. OnItsWay(c, id) =>
           Event("created", req[c].m.expected, FALSE).observed = monitors[id].expected
    BY <2>1 DEF OnItsWay, Event
  <2> QED
    BY <1>0, <2>1, <2>2, RecordedStays
<1>4. CASE RecordEffect(c)
  <2>1. /\ UNCHANGED monitors /\ Recorded(id) /\ req[c].pc = "append"
        /\ log'[id] = Append(log[id], req[c].ev)
    BY <1>1, <1>4 DEF RecordEffect, Logs, ObservesLog, Put
  <2>2. OnItsWay(c, id) => req[c].ev.observed = monitors[id].expected
    BY <2>1 DEF OnItsWay
  <2> QED
    BY <1>0, <2>1, <2>2, RecordedStays
<1>5. CASE UpdateEffect(c)
  BY <1>5 DEF UpdateEffect, ObservesLog, Put
<1>6. CASE PurgeEffect(c)
  BY <1>0, <1>6 DEF PurgeEffect, Attended, Recorded
<1>7. CASE DeleteEffect(c) /\ monitors'[id] = Absent
  BY <1>7 DEF Recorded
<1>8. CASE \/ DeleteEffect(c) /\ UNCHANGED monitors
           \/ LoadEffect(c) \/ GetEffect(c) \/ CheckEffect(c)
  <2>1. UNCHANGED <<monitors, log>> /\ req[c].pc \in {"delete", "load", "get", "check"}
    BY <1>8 DEF DeleteEffect, LoadEffect, GetEffect, CheckEffect
  <2>2. Recorded(id) /\ ~OnItsWay(c, id)
    BY <1>1, <2>1 DEF OnItsWay
  <2> QED
    BY <1>0, <2>1, <2>2, RecordedStays
<1>9. CASE NotifyEffect(c)
  <2>1. /\ UNCHANGED <<monitors, log>> /\ req[c].pc = "notify" /\ req'[c].pc = "append"
        /\ req'[c].ev.observed = req[c].ev.observed
    BY <1>9 DEF NotifyEffect
  <2>2. Recorded(id) /\ (OnItsWay(c, id) => OnItsWay(c, id)')
    BY <1>1, <2>1 DEF OnItsWay
  <2> QED
    BY <1>0, <2>1, <2>2, RecordedStays
<1>10. CASE RebaselineEffect(c) /\ monitors'[id] = req[c].m
  <2>1. /\ req'[c].pc \in {"notify", "append"} /\ req'[c].ev = req[c].ev
        /\ req[c].m.expected = req[c].ev.observed
    BY <1>0, <1>10 DEF RebaselineEffect, Keeps, SavesObserved
  <2>2. OnItsWay(c, id)'
    BY <1>10, <2>1 DEF OnItsWay
  <2> QED
    BY <2>2 DEF Recorded
<1>11. CASE RebaselineEffect(c) /\ monitors'[id] # req[c].m
  <2>1. UNCHANGED <<monitors, log>> /\ req[c].pc = "rebaseline"
    BY <1>11 DEF RebaselineEffect, Writes
  <2>2. Recorded(id) /\ ~OnItsWay(c, id)
    BY <1>1, <1>11, <2>1 DEF OnItsWay
  <2> QED
    BY <1>0, <2>1, <2>2, RecordedStays
<1>12. DeleteEffect(c) => UNCHANGED monitors \/ monitors'[id] = Absent
  BY DEF DeleteEffect
<1> QED
  BY <1>2, <1>3, <1>4, <1>5, <1>6, <1>7, <1>8, <1>9, <1>10, <1>11, <1>12 DEF Effect

(* Other monitors, of a step for id.                                       *)
LEMMA OthersRecorded ==
  ASSUME TypeOK, RecordInv, NEW c \in Requests, NEW id, ObservesLog(c, id),
         req[c].pc = "idle" \/ req[c].id = id,
         \A d \in Requests \ {c} : req'[d] = req[d],
         NEW x \in Ids \ {id}, monitors'[x] = monitors[x], log'[x] = log[x],
         x \notin unlogged' \cup caught'
  PROVE  Recorded(x)'
<1>1. x \notin unlogged \cup caught
  BY DEF ObservesLog, Put
<1>2. Recorded(x)
  BY <1>1, RecordedEach DEF RecordInv
<1>3. ~OnItsWay(c, x)
  BY DEF OnItsWay
<1> QED
  BY <1>2, <1>3, RecordedStays

LEMMA RecordInvStep ==
  TypeOK /\ TypeOK' /\ DeleteInv /\ RecordInv /\ [HNext]_hvars => RecordInv'
<1> SUFFICES ASSUME TypeOK, TypeOK', DeleteInv, RecordInv, [HNext]_hvars PROVE RecordInv'
  OBVIOUS
<1>0. ASSUME \A x \in Ids \ (unlogged' \cup caught') : Recorded(x)' PROVE BaselineRecorded'
  BY <1>0, Zenon DEF BaselineRecorded, Recorded, Logged, OnItsWay
<1>1. ASSUME NEW c \in Requests, Observe(c, req'[c].id),
             CreateMonitor(c) \/ UpdateMonitor(c) \/ DeleteMonitor(c) \/ RunMonitor(c)
      PROVE  RecordInv'
  <2>1. /\ req[c].pc = "idle" /\ UNCHANGED <<monitors, log>>
        /\ req'[c].pc \in {"create", "load", "delete", "get"}
        /\ \A d \in Requests \ {c} : req'[d] = req[d] /\ ObservesLog(c, req'[c].id)
    BY <1>1, Arrivals, OthersStay, LogObserved
  <2>2. ASSUME NEW x \in Ids \ (unlogged' \cup caught') PROVE Recorded(x)'
    <3>1. x \notin unlogged \cup caught
      BY <1>1, <2>1, LogObserved DEF ObservesLog, Put
    <3>2. Recorded(x) /\ ~OnItsWay(c, x)
      BY <2>1, <3>1, RecordedEach DEF RecordInv, OnItsWay
    <3> QED
      BY <2>1, <3>2, RecordedStays
  <2>3. \A d \in Requests : SavesObserved(d)'
    BY <2>1 DEF RecordInv, SavesObserved
  <2> QED
    BY <1>0, <2>2, <2>3 DEF RecordInv
<1>2. ASSUME NEW c \in Requests, Observe(c, req'[c].id), Step(c)
      PROVE  RecordInv'
  <2>1. /\ Effect(c) /\ Elsewhere(c) /\ req'[c].id = req[c].id
        /\ \A d \in Requests \ {c} : req'[d] = req[d]
    BY <1>2, StepEffect, OthersStay
  <2>2. ObservesLog(c, req[c].id)
    BY <1>2, <2>1, LogObserved
  <2>3. ASSUME NEW x \in Ids \ (unlogged' \cup caught') PROVE Recorded(x)'
    <3>1. CASE x = req[c].id
      BY <2>1, <2>2, <3>1, MoverRecorded
    <3>2. CASE x # req[c].id
      <4>1. monitors'[x] = monitors[x] /\ log'[x] = log[x]
        BY <2>1, <3>2 DEF Elsewhere
      <4> QED
        BY <2>1, <2>2, <3>2, <4>1, OthersRecorded
    <3> QED
      BY <3>1, <3>2
  <2>4. SavesObserved(c)'
    BY <2>1 DEF Effect, CreateEffect, SeedEffect, LoadEffect, UpdateEffect, DeleteEffect,
       PurgeEffect, GetEffect, CheckEffect, RebaselineEffect, NotifyEffect, RecordEffect,
       SavesObserved
  <2>5. \A d \in Requests : SavesObserved(d)'
    BY <2>1, <2>4 DEF RecordInv, SavesObserved
  <2> QED
    BY <1>0, <2>3, <2>5 DEF RecordInv
<1>3. CASE Crash /\ ObserveCrash
  <2>1. /\ \A c \in Requests : req'[c].pc = "idle"
        /\ UNCHANGED <<monitors, log, caught>>
        /\ unlogged' = unlogged \cup {req[c].id : c \in {d \in Requests : req[d].pc \in Recording}}
    BY <1>3, CrashStops DEF ObserveCrash
  <2>2. ASSUME NEW x \in Ids \ (unlogged' \cup caught') PROVE Recorded(x)'
    <3>1. Recorded(x)
      BY <2>1, RecordedEach DEF RecordInv
    <3>2. \A c \in Requests : ~OnItsWay(c, x)
      BY <2>1 DEF OnItsWay, Recording
    <3> QED
      BY <2>1, <3>1, <3>2 DEF Recorded, Logged
  <2>3. \A d \in Requests : SavesObserved(d)'
    BY <2>1 DEF SavesObserved
  <2> QED
    BY <1>0, <2>2, <2>3 DEF RecordInv
<1>4. CASE UNCHANGED hvars
  <2>1. UNCHANGED <<monitors, log, req, unlogged, caught>>
    BY <1>4 DEF hvars, vars, history
  <2> QED
    BY <2>1 DEF RecordInv, BaselineRecorded, SavesObserved
<1> QED
  BY <1>1, <1>2, <1>3, <1>4, HistorySteps

(* For any number of overlapping requests, failing calls and crashes: the  *)
(* baseline that a monitor is stored with is in its changelog or on its    *)
(* way there, unless an update has set it, an entry was lost or the row    *)
(* was deleted under a request.                                            *)
THEOREM BaselinesAreRecorded == HSpec => []BaselineRecorded
<1>1. HInit => RecordInv
  BY DEF HInit, Init, RecordInv, BaselineRecorded, SavesObserved
<1>2. HSpec => []TypeOK
  BY HistoryRefines, MonitorsTyped, PTL
<1>3. RecordInv => BaselineRecorded
  BY DEF RecordInv
<1> QED
  BY <1>1, <1>2, <1>3, DeleteInvAlways, RecordInvStep, PTL DEF HSpec
=============================================================================
