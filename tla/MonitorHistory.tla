--------------------------- MODULE MonitorHistory ---------------------------
(***************************************************************************)
(* MonitorRuns with a record of what happened to each monitor.             *)
(*                                                                         *)
(* Requests for one monitor overlap, fail and are cut off, and the code    *)
(* excludes none of it: that a change alerts once, that a delete is for    *)
(* good and that the changelog holds the baseline are not true of every    *)
(* behaviour.  The variables added here say when one of the events has     *)
(* happened that the code does not guard against, so that the properties   *)
(* can say that nothing else breaks the promise.                           *)
(*                                                                         *)
(* They only watch: HSpec allows the steps of Spec and no other.           *)
(***************************************************************************)
EXTENDS MonitorRuns

VARIABLES
    era,        \* how many times the stored baseline of an id has changed
    base,       \* the era of the baseline that a run has loaded
    reported,   \* the era of the baseline that each alert of an id reports as replaced
    crossed,    \* ids with a re-baseline that failed or replaced another baseline than
                \* the one that it had evaluated
    caught,     \* ids deleted while another request had the monitor in hand
    unpurged,   \* ids whose events a delete may have left
    unlogged    \* ids whose baseline was set by an update, or whose event was lost

history == <<era, base, reported, crossed, caught, unpurged, unlogged>>

hvars == <<vars, history>>

HInit ==
    /\ Init
    /\ era = [id \in Ids |-> 0]
    /\ base = [c \in Requests |-> 0]
    /\ reported = [id \in Ids |-> <<>>]
    /\ crossed = {} /\ caught = {} /\ unpurged = {} /\ unlogged = {}

\* Where a request has found the monitor, and will write it or an event of it.
InHand == {"seed", "update", "check", "rebaseline", "notify", "append"}

\* Where the baseline is stored, and an event with it is on its way to the changelog.
Recording == {"seed", "notify", "append"}

Put(S, id, condition) == IF condition THEN S \cup {id} ELSE S

\* What a step of request c, which is about the monitor id, adds to the record.
Observe(c, id) ==
    LET pc     == req[c].pc
        failed == faults' # faults
    IN  /\ era' = [x \in Ids |-> IF monitors'[x].expected = monitors[x].expected THEN era[x]
                                 ELSE era[x] + 1]
        /\ base' = IF pc = "get" THEN [base EXCEPT ![c] = era[id]] ELSE base
        /\ reported' = IF alerts' = alerts THEN reported
                       ELSE [reported EXCEPT ![id] = Append(@, base[c])]
        /\ crossed' = Put(crossed, id, pc = "rebaseline" /\ (failed \/ base[c] # era[id]))
        /\ caught' = Put(caught, id,
                         /\ pc = "delete" /\ monitors' # monitors
                         /\ \E d \in Requests : req[d].id = id /\ req[d].pc \in InHand)
        /\ unpurged' = Put(unpurged, id, pc = "purge" /\ failed)
        /\ unlogged' = IF pc = "rebaseline" /\ monitors'[id] = req[c].m THEN unlogged \ {id}
                       ELSE Put(unlogged, id,
                                pc = "update" \/ (pc \in {"create", "seed", "append"} /\ failed))

\* What the end of the process adds: events that were on their way are lost.
ObserveCrash ==
    /\ unlogged' = unlogged \cup {req[c].id : c \in {d \in Requests : req[d].pc \in Recording}}
    /\ UNCHANGED <<era, base, reported, crossed, caught, unpurged>>

Act(c) ==
    CreateMonitor(c) \/ UpdateMonitor(c) \/ DeleteMonitor(c) \/ RunMonitor(c) \/ Step(c)

HNext ==
    \/ \E c \in Requests : Act(c) /\ Observe(c, req'[c].id)
    \/ Crash /\ ObserveCrash

HSpec == HInit /\ [][HNext]_hvars

-----------------------------------------------------------------------------
(* Properties.                                                             *)

(* Comment in evaluateChange: "Re-baseline so each distinct change alerts  *)
(* once": whatever else requests do at the same time and whatever fails,   *)
(* at most one alert reports that a baseline was replaced, until a run of  *)
(* the monitor fails to save its baseline or replaces one that it had not  *)
(* evaluated.                                                              *)
ChangeAlertsOnce ==
    \A id \in Ids \ crossed : \A i, j \in 1..Len(reported[id]) :
        reported[id][i] = reported[id][j] => i = j

(* Comment of DeleteMonitor in the store, "removes a monitor and its       *)
(* events": once the delete was answered the monitor stays away, and so do *)
(* its events if they were deleted, through any later requests for its id  *)
(* and crashes, unless the row was deleted while another request already   *)
(* had the monitor in hand.                                                *)
DeletedStays ==
    \A id \in deleted \ caught :
        monitors[id] = Absent /\ (id \notin unpurged => log[id] = <<>>)

(* Comment of MonitorEvent, "a changelog entry": the baseline that a       *)
(* monitor is stored with is found in its changelog, or is on its way to   *)
(* it, however many runs re-baseline it at the same time, unless an update *)
(* has set it or an entry was lost.                                        *)
BaselineRecorded ==
    \A id \in Ids \ (unlogged \cup caught) :
        monitors[id] # Absent =>
            \/ \E i \in 1..Len(log[id]) : log[id][i].observed = monitors[id].expected
            \/ \E c \in Requests :
                  /\ req[c].id = id
                  /\ \/ req[c].pc = "seed" /\ req[c].m.expected = monitors[id].expected
                     \/ /\ req[c].pc \in {"notify", "append"}
                        /\ req[c].ev.observed = monitors[id].expected
=============================================================================
