----------------------------- MODULE MonitorRuns -----------------------------
(***************************************************************************)
(* Monitors: the evaluator (internal/monitor/monitor.go), the handlers     *)
(* that create, update, delete and run a monitor                           *)
(* (internal/api/v1/monitors.go) and the tables they share                 *)
(* (internal/storage/sqlite/monitors.go).                                  *)
(*                                                                         *)
(* Each HTTP request is a process; a step of it is one statement against   *)
(* the store, one propagation check or one delivery to a channel.  The     *)
(* store runs one statement at a time (SetMaxOpenConns(1)) and no handler  *)
(* opens a transaction, so requests interleave between statements.         *)
(*                                                                         *)
(* A list of record values is opaque up to order, which is how setEqual    *)
(* compares it; only the empty list, NoValues, is told apart.              *)
(***************************************************************************)
EXTENDS Naturals, Sequences, FiniteSets

CONSTANTS
    Requests,      \* HTTP requests that may be in flight together
    Ids,           \* ids that settings.NewID may hand out
    Ops,           \* operations requested: a subset of AllOps
    ValueLists,    \* value lists of a record, up to order
    NoValues,      \* the empty list
    Resolvers,     \* resolvers a check asks
    Bindings,      \* whether requests bind the notification channel
    MaxRequests,   \* bound on the requests made
    MaxFaults      \* bound on failed store calls, failed deliveries and crashes

AllOps == {"create", "update", "delete", "run"}

ASSUME NoValuesAssumption == NoValues \in ValueLists
ASSUME IdsAssumption == Ids # {}
ASSUME OpsAssumption == Ops \subseteq AllOps
ASSUME BindingsAssumption == Bindings \subseteq BOOLEAN
ASSUME BoundsAssumption == MaxRequests \in Nat /\ MaxFaults \in Nat

VARIABLES
    monitors,     \* table monitors: the document stored under each id
    log,          \* table monitor_events: the events of each id, oldest first
    channelOn,    \* the settings document has the channel, enabled
    req,          \* state of each request
    alerts,       \* alerts of change monitors that were delivered, per id
    issued,       \* ids handed out so far
    deleted,      \* ids whose delete was answered with 204
    made, faults  \* requests made and faults injected so far

vars == <<monitors, log, channelOn, req, alerts, issued, deleted, made, faults>>

Monitor == [type : {"propagation", "change"}, expected : ValueLists, bound : BOOLEAN]

Absent == [type |-> "absent", expected |-> NoValues, bound |-> FALSE]

\* The conditions of monitorRequest.validate that a well-formed body can fail.
ValidMonitor(m) == m.type = "propagation" => m.expected # NoValues

Event(status, observed, notified) ==
    [status |-> status, observed |-> observed, notified |-> notified]

Statuses == {"created", "ok", "changed", "not_propagated", "error"}

Events == [status : Statuses, observed : ValueLists, notified : BOOLEAN]

NoEvent == Event("ok", NoValues, FALSE)

Pcs == {"idle", "create", "seed", "load", "update", "delete", "purge", "get", "check",
        "rebaseline", "notify", "append"}

\* Where a request holds a monitor, from its body or from the store.
HasCopy == {"create", "seed", "load", "update", "check", "rebaseline", "notify"}

\* m is the request's own copy of a monitor, ev the event it is building, old the
\* baseline an alert reports as replaced.
Request ==
    {q \in [pc : Pcs, id : Ids, m : Monitor \cup {Absent}, ev : Events, old : ValueLists] :
        q.pc \in HasCopy => q.m \in Monitor}

Idle(c) == req[c].pc = "idle"

TypeOK ==
    /\ monitors \in [Ids -> Monitor \cup {Absent}]
    /\ log \in [Ids -> Seq(Events)]
    /\ channelOn \in BOOLEAN
    /\ req \in [Requests -> Request]
    /\ alerts \in [Ids -> Seq([from : ValueLists, to : ValueLists])]
    /\ issued \subseteq Ids
    /\ deleted \subseteq Ids
    /\ made \in 0..MaxRequests
    /\ faults \in 0..MaxFaults

Init ==
    /\ monitors = [id \in Ids |-> Absent]
    /\ log = [id \in Ids |-> <<>>]
    /\ channelOn \in BOOLEAN
    /\ req = [c \in Requests |-> [pc |-> "idle", id |-> CHOOSE id \in Ids : TRUE,
                                  m |-> Absent, ev |-> NoEvent, old |-> NoValues]]
    /\ alerts = [id \in Ids |-> <<>>]
    /\ issued = {}
    /\ deleted = {}
    /\ made = 0
    /\ faults = 0

-----------------------------------------------------------------------------
(* Steps of a request.                                                     *)

Goto(c, pc) == req' = [req EXCEPT ![c].pc = pc]

\* A call that returns an error, while the bound allows one.
Fault == faults < MaxFaults /\ faults' = faults + 1

\* A store call of request c: on success the table change given by effect; the
\* request goes on to pc next, or to pc onError when the call fails.  A statement that
\* is reported as failed (its context ended) may have been carried out.
StoreCall(c, effect, next, onError) ==
    \/ effect /\ Goto(c, next) /\ UNCHANGED faults
    \/ /\ Fault /\ Goto(c, onError)
       /\ effect \/ UNCHANGED <<monitors, log>>

Save(id, m) == monitors' = [monitors EXCEPT ![id] = m] /\ UNCHANGED log

AppendEvent(id, ev) == log' = [log EXCEPT ![id] = Append(@, ev)] /\ UNCHANGED monitors

\* A request arrives and starts at pc.
Arrive(c, op, pc, id, m) ==
    /\ op \in Ops
    /\ Idle(c)
    /\ made < MaxRequests
    /\ made' = made + 1
    /\ req' = [req EXCEPT ![c] = [pc |-> pc, id |-> id, m |-> m, ev |-> NoEvent,
                                  old |-> NoValues]]
    /\ UNCHANGED <<monitors, log, channelOn, alerts, deleted, faults>>

\* POST /monitors: decode and validate, then take a fresh id.
CreateMonitor(c) ==
    \E id \in Ids \ issued, type \in {"propagation", "change"}, expected \in ValueLists,
       bound \in Bindings :
        LET m == [type |-> type, expected |-> expected, bound |-> bound]
        IN  /\ ValidMonitor(m)
            /\ Arrive(c, "create", "create", id, m)
            /\ issued' = issued \cup {id}

\* store.SaveMonitor of the new monitor; on error the handler answers 500.
CreateSaves(c) ==
    /\ req[c].pc = "create"
    /\ StoreCall(c, Save(req[c].id, req[c].m), "seed", "idle")
    /\ UNCHANGED <<channelOn, alerts, issued, deleted, made>>

\* Mutant of CreateSeeds: the first entry does not hold the monitor's values.
CreateSeedsEmpty(c) ==
    /\ req[c].pc = "seed"
    /\ StoreCall(c, AppendEvent(req[c].id, Event("created", NoValues, FALSE)), "idle", "idle")
    /\ UNCHANGED <<channelOn, alerts, issued, deleted, made>>

\* The changelog is seeded; the error is ignored.
CreateSeeds(c) ==
    /\ req[c].pc = "seed"
    /\ StoreCall(c, AppendEvent(req[c].id, Event("created", req[c].m.expected, FALSE)),
                 "idle", "idle")
    /\ UNCHANGED <<channelOn, alerts, issued, deleted, made>>

\* PUT /monitors/{id}: the validated body.
UpdateMonitor(c) ==
    \E id \in issued, type \in {"propagation", "change"}, expected \in ValueLists,
       bound \in Bindings :
        LET m == [type |-> type, expected |-> expected, bound |-> bound]
        IN  /\ ValidMonitor(m)
            /\ Arrive(c, "update", "load", id, m)
            /\ UNCHANGED issued

\* GetMonitor: not found ends the request; otherwise every field that is modelled
\* is replaced by the body's.
UpdateLoads(c) ==
    /\ req[c].pc = "load"
    /\ \/ monitors[req[c].id] = Absent /\ Goto(c, "idle") /\ UNCHANGED faults
       \/ monitors[req[c].id] # Absent /\ Goto(c, "update") /\ UNCHANGED faults
       \/ Fault /\ Goto(c, "idle")
    /\ UNCHANGED <<monitors, log, channelOn, alerts, issued, deleted, made>>

UpdateSaves(c) ==
    /\ req[c].pc = "update"
    /\ StoreCall(c, Save(req[c].id, req[c].m), "idle", "idle")
    /\ UNCHANGED <<channelOn, alerts, issued, deleted, made>>

DeleteMonitor(c) ==
    \E id \in issued : Arrive(c, "delete", "delete", id, Absent) /\ UNCHANGED issued

\* DELETE FROM monitors: no row affected is ErrNotFound.
DeleteRow(c) ==
    /\ req[c].pc = "delete"
    /\ \/ /\ monitors[req[c].id] = Absent
          /\ Goto(c, "idle")
          /\ UNCHANGED <<monitors, log, faults>>
       \/ /\ monitors[req[c].id] # Absent
          /\ StoreCall(c, Save(req[c].id, Absent), "purge", "idle")
    /\ UNCHANGED <<channelOn, alerts, issued, deleted, made>>

\* Mutant of DeleteEvents: the second statement is missing.
DeleteEventsSkipped(c) ==
    /\ req[c].pc = "purge"
    /\ Goto(c, "idle")
    /\ deleted' = deleted \cup {req[c].id}
    /\ UNCHANGED <<monitors, log, faults, channelOn, alerts, issued, made>>

\* DELETE FROM monitor_events, a statement of its own whose error is ignored; the
\* handler answers 204.
DeleteEvents(c) ==
    /\ req[c].pc = "purge"
    /\ StoreCall(c, log' = [log EXCEPT ![req[c].id] = <<>>] /\ UNCHANGED monitors,
                 "idle", "idle")
    /\ deleted' = deleted \cup {req[c].id}
    /\ UNCHANGED <<channelOn, alerts, issued, made>>

-----------------------------------------------------------------------------
(* A run: load, check, evaluate, re-baseline, notify, record.              *)

RunMonitor(c) ==
    \E id \in issued : Arrive(c, "run", "get", id, Absent) /\ UNCHANGED issued

\* Mutant of RunLoads: a missing row is not an error and a zero monitor is run.
RunLoadsMissing(c) ==
    /\ req[c].pc = "get"
    /\ req' = [req EXCEPT ![c].pc = "check", ![c].m = monitors[req[c].id]]
    /\ UNCHANGED <<monitors, log, channelOn, alerts, issued, deleted, made, faults>>

\* RunByID: GetMonitor into the request's own copy.
RunLoads(c) ==
    /\ req[c].pc = "get"
    /\ \/ /\ monitors[req[c].id] = Absent
          /\ Goto(c, "idle")
          /\ UNCHANGED faults
       \/ /\ monitors[req[c].id] # Absent
          /\ req' = [req EXCEPT ![c].pc = "check", ![c].m = monitors[req[c].id]]
          /\ UNCHANGED faults
       \/ Fault /\ Goto(c, "idle")
    /\ UNCHANGED <<monitors, log, channelOn, alerts, issued, deleted, made>>

\* What one resolver contributes to a check.
Results ==
    {[status |-> s, values |-> NoValues] : s \in {"nxdomain", "failed"}}
        \cup {[status |-> "ok", values |-> v] : v \in ValueLists}

\* Resolvers that answered OK, with the list v.
Serving(check, v) ==
    {r \in Resolvers : check[r].status = "ok" /\ check[r].values = v}

\* consensus(check): the lists it may return.  Ties are broken by the iteration order
\* of a map, so any most common list may win; without an OK result it is empty.
Consensus(check) ==
    LET ok == {check[r].values : r \in {x \in Resolvers : check[x].status = "ok"}}
    IN  IF ok = {} THEN {NoValues}
        ELSE {v \in ok : \A w \in ok :
                Cardinality(Serving(check, w)) <= Cardinality(Serving(check, v))}

\* evaluatePropagation: every resolver that responded, and at least one did, serves
\* the expected list.
Propagated(check, expected) ==
    LET responded == {r \in Resolvers : check[r].status \in {"ok", "nxdomain"}}
    IN  responded # {} /\ responded = Serving(check, expected)

\* Mutant of EvaluateChange: the copy keeps the replaced baseline, so that the saved
\* monitor is not re-baselined.
EvaluateChangeKeepsBaseline(c, observed) ==
    LET m == req[c].m
    IN  \/ /\ m.expected # NoValues /\ observed # m.expected
           /\ req' = [req EXCEPT ![c].pc = "rebaseline", ![c].old = m.expected,
                                 ![c].ev = Event("changed", observed, FALSE)]
        \/ /\ m.expected = NoValues
           /\ req' = [req EXCEPT ![c].pc = "rebaseline", ![c].m.expected = observed,
                                 ![c].ev = Event("ok", observed, FALSE)]
        \/ /\ m.expected # NoValues /\ observed = m.expected
           /\ req' = [req EXCEPT ![c].pc = "append",
                                 ![c].ev = Event("ok", observed, FALSE)]

\* evaluateChange: an empty baseline is captured, a different observation replaces it.
EvaluateChange(c, observed) ==
    LET m == req[c].m
    IN  \/ /\ m.expected = NoValues
           /\ req' = [req EXCEPT ![c].pc = "rebaseline", ![c].m.expected = observed,
                                 ![c].ev = Event("ok", observed, FALSE)]
        \/ /\ m.expected # NoValues /\ observed # m.expected
           /\ req' = [req EXCEPT ![c].pc = "rebaseline", ![c].m.expected = observed,
                                 ![c].old = m.expected,
                                 ![c].ev = Event("changed", observed, FALSE)]
        \/ /\ m.expected # NoValues /\ observed = m.expected
           /\ req' = [req EXCEPT ![c].pc = "append",
                                 ![c].ev = Event("ok", observed, FALSE)]

EvaluatePropagation(c, check, observed) ==
    \/ /\ Propagated(check, req[c].m.expected)
       /\ req' = [req EXCEPT ![c].pc = "append", ![c].ev = Event("ok", observed, FALSE)]
    \/ /\ ~Propagated(check, req[c].m.expected)
       /\ req' = [req EXCEPT ![c].pc = "notify",
                             ![c].ev = Event("not_propagated", observed, FALSE)]

\* check.Check returns, with an error (no resolver list, refused name) or a check.
CheckReturns(c) ==
    /\ req[c].pc = "check"
    /\ \/ /\ Fault
          /\ req' = [req EXCEPT ![c].pc = "append",
                                ![c].ev = Event("error", NoValues, FALSE)]
       \/ /\ \E check \in [Resolvers -> Results] : \E observed \in Consensus(check) :
                 IF req[c].m.type = "change"
                 THEN EvaluateChange(c, observed)
                 ELSE EvaluatePropagation(c, check, observed)
          /\ UNCHANGED faults
    /\ UNCHANGED <<monitors, log, channelOn, alerts, issued, deleted, made>>

\* Mutant of Rebaseline: only the expected values of the stored row are replaced.
RebaselineField(c) ==
    /\ req[c].pc = "rebaseline"
    /\ StoreCall(c, Save(req[c].id, [monitors[req[c].id] EXCEPT !.expected = req[c].m.expected]),
                 IF req[c].ev.status = "changed" THEN "notify" ELSE "append",
                 IF req[c].ev.status = "changed" THEN "notify" ELSE "append")
    /\ UNCHANGED <<channelOn, alerts, issued, deleted, made>>

\* SaveMonitor of the request's copy, an upsert of the whole document whose error is
\* ignored.
Rebaseline(c) ==
    LET next == IF req[c].ev.status = "changed" THEN "notify" ELSE "append"
    IN  /\ req[c].pc = "rebaseline"
        /\ StoreCall(c, Save(req[c].id, req[c].m), next, next)
        /\ UNCHANGED <<channelOn, alerts, issued, deleted, made>>

\* Mutant of Notify: the event is marked before the delivery is known to succeed.
NotifyMarksFirst(c) ==
    /\ req[c].pc = "notify"
    /\ req[c].m.bound /\ channelOn
    /\ req' = [req EXCEPT ![c].pc = "append", ![c].ev.notified = TRUE]
    /\ Fault /\ UNCHANGED alerts
    /\ UNCHANGED <<monitors, log, channelOn, issued, deleted, made>>

\* What Send may come to: a channel of an unknown type or without its configuration
\* is refused, a message may not get through, and one that did may still be reported
\* as failed (no answer within the timeout, an error status, a closed request).
Send == {sent \in [delivered : BOOLEAN, ok : BOOLEAN] : sent.ok => sent.delivered}

\* maybeNotify: without a channel, or when GetSettings fails, nothing is sent; the
\* event is marked when Send reports success.
Notify(c) ==
    /\ req[c].pc = "notify"
    /\ \/ /\ req[c].m.bound /\ channelOn
          /\ \E sent \in Send :
                /\ req' = [req EXCEPT ![c].pc = "append", ![c].ev.notified = sent.ok]
                /\ alerts' = IF sent.delivered /\ req[c].ev.status = "changed"
                             THEN [alerts EXCEPT ![req[c].id] =
                                     Append(@, [from |-> req[c].old, to |-> req[c].ev.observed])]
                             ELSE alerts
                /\ IF sent.ok THEN UNCHANGED faults ELSE Fault
       \/ /\ ~(req[c].m.bound /\ channelOn)
          /\ Goto(c, "append")
          /\ UNCHANGED <<alerts, faults>>
       \/ Fault /\ Goto(c, "append") /\ UNCHANGED alerts
    /\ UNCHANGED <<monitors, log, channelOn, issued, deleted, made>>

\* AppendMonitorEvent; the error is ignored.
RunRecords(c) ==
    /\ req[c].pc = "append"
    /\ StoreCall(c, AppendEvent(req[c].id, req[c].ev), "idle", "idle")
    /\ UNCHANGED <<channelOn, alerts, issued, deleted, made>>

-----------------------------------------------------------------------------
(* The process is killed: the requests are gone, the tables stay.          *)
Crash ==
    /\ Fault
    /\ \E c \in Requests : ~Idle(c)
    /\ req' = [c \in Requests |-> [req[c] EXCEPT !.pc = "idle"]]
    /\ UNCHANGED <<monitors, log, channelOn, alerts, issued, deleted, made>>

Step(c) ==
    \/ CreateSaves(c) \/ CreateSeeds(c)
    \/ UpdateLoads(c) \/ UpdateSaves(c)
    \/ DeleteRow(c) \/ DeleteEvents(c)
    \/ RunLoads(c) \/ CheckReturns(c) \/ Rebaseline(c) \/ Notify(c) \/ RunRecords(c)

Next ==
    \/ \E c \in Requests :
          \/ CreateMonitor(c) \/ UpdateMonitor(c) \/ DeleteMonitor(c) \/ RunMonitor(c)
          \/ Step(c)
    \/ Crash

Spec == Init /\ [][Next]_vars

-----------------------------------------------------------------------------
(* Properties.                                                             *)

(* A stored propagation monitor always has an expected value, as validate  *)
(* demands ("Propagation monitors require at least one expected value"),   *)
(* although runs write stale copies, possibly with an empty baseline, over *)
(* a monitor whose type an update has changed in the meantime.             *)
PropagationHasExpected ==
    \A id \in Ids : monitors[id] # Absent => ValidMonitor(monitors[id])

(* The changelog claims no alert that was not delivered: it never holds    *)
(* more changes marked as notified than alerts of the monitor went out,    *)
(* although the event is written after the delivery, by a request whose    *)
(* delivery, settings or store calls may fail and whose process may die.   *)
NotifiedWasSent ==
    \A id \in Ids :
        Cardinality({i \in 1..Len(log[id]) :
                        log[id][i].status = "changed" /\ log[id][i].notified})
            <= Len(alerts[id])

(* Comment in evaluateChange: "Re-baseline so each distinct change alerts  *)
(* once": no two alerts in a row of a monitor report the same change, from *)
(* one value to another.  (The loss of every answer may be reported again: *)
(* the recovery from it is captured as a fresh baseline without an alert.) *)
AlertsOnce ==
    \A id \in Ids : \A i \in 1..(Len(alerts[id]) - 1) :
        alerts[id][i].to # NoValues => alerts[id][i] # alerts[id][i + 1]

(* Comment of DeleteMonitor in the store, "removes a monitor and its       *)
(* events": once the delete was answered the monitor is gone and does not  *)
(* come back.                                                              *)
DeletedForGood == \A id \in deleted : monitors[id] = Absent
=============================================================================
