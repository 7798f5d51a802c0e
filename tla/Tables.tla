------------------------------- MODULE Tables -------------------------------
(***************************************************************************)
(* The server process of Lifecycle with the handlers that keep rows in its *)
(* database: API tokens and schedules (internal/api/v1/settings.go), and   *)
(* the history of checks (internal/api/v1/history.go, SaveCheck), over the *)
(* SQLite driver (internal/storage/sqlite).                                *)
(*                                                                         *)
(* A handler runs one statement at a time; between two of them, and        *)
(* between the last one and its answer, anything may happen, the end of    *)
(* the process included.  A statement succeeds, fails without effect (the  *)
(* request was cancelled, the disk is full, the store is closed), or takes *)
(* effect although an error is reported.  The tables do not interact, so a *)
(* behaviour is about one of them, or about the history being read while   *)
(* checks are saved.                                                       *)
(***************************************************************************)
EXTENDS Lifecycle, FiniteSetsExt

CONSTANTS
    MaxIds,         \* bound: how many ids NewID returns, by the topic of a behaviour
    MaxLimit,       \* the largest page of the history (100 in the code)
    DefaultLimit,   \* the page of a request without a valid limit (20)
    MaxTime         \* bound of the clock

Topics == {"token", "schedule", "check", "history"}

ASSUME IdsAssumption == MaxIds \in [Topics -> Nat]
ASSUME LimitsAssumption == MaxLimit \in Nat \ {0} /\ DefaultLimit \in 1..MaxLimit
ASSUME TimeAssumption == MaxTime \in Nat

\* Ids are random and opaque: they are numbered here as they are issued.
MaxId == Max({MaxIds[t] : t \in Topics})
Ids == 1..MaxId
NoId == 0
Times == 0..MaxTime

VARIABLES
    topic,        \* the table this behaviour is about
    tokens,       \* ids of the rows of api_tokens
    schedules,    \* rows of schedules by id
    checks,       \* rows of checks
    h,            \* what the handler of each request is doing
    now,          \* the clock, in seconds as the columns keep them
    issued,       \* number of ids that NewID has returned
    acked,        \* ids whose creation was answered with success
    doomed,       \* ids some request asked to delete
    gone,         \* schedules that a DELETE removed
    overlapped,   \* those of them an update had read and was about to write
    reader        \* a client that pages through the history

rows == <<tokens, schedules, checks>>
ghosts == <<acked, doomed, gone, overlapped>>
tableVars == <<topic, rows, h, now, issued, ghosts, reader>>
vars == <<processVars, tableVars>>

\* The times in the document of a schedule or a check.
Doc(created, updated) == [created |-> created, updated |-> updated]
Docs == [created : Times, updated : Times]

\* A schedule is kept as its document and two columns taken from it.
Row(doc, created, updated) == [doc |-> doc, created |-> created, updated |-> updated]
NoRow == Row(Doc(0, 0), -1, -1)
Rows == [doc : Docs, created : Times, updated : Times]

Handler(pc, op, id, doc) ==
    [pc |-> pc, op |-> op, id |-> id, doc |-> doc]
Handlers ==
    [pc : {"idle", "upgrade", "find", "save", "delete", "list", "reply"},
     op : {"none", "create", "stream", "update", "delete", "page"},
     id : Ids \cup {NoId}, doc : Docs]
Idle == Handler("idle", "none", NoId, Doc(0, 0))

NewReader ==
    [pc |-> "ready", offset |-> 0, base |-> {}, seen |-> {}]

TypeOK ==
    /\ ProcessTypeOK
    /\ topic \in Topics
    /\ tokens \subseteq Ids
    /\ schedules \in [Ids -> Rows \cup {NoRow}]
    /\ checks \subseteq [id : Ids, created : Times, rowid : 1..MaxId]
    /\ h \in [Requests -> Handlers]
    /\ now \in Times
    /\ issued \in 0..MaxId
    /\ acked \subseteq Ids /\ doomed \subseteq Ids
    /\ gone \subseteq Ids /\ overlapped \subseteq Ids
    /\ reader \in [pc : {"ready", "waiting", "done"}, offset : 0..MaxId,
                   base : SUBSET Ids, seen : SUBSET Ids]

\* The rows of a table that held old rows when the first process was started.
Init ==
    /\ ProcessInit
    /\ topic \in Topics
    /\ now = 0
    /\ issued \in IF applied = {} THEN {0} ELSE 0..MaxIds[topic]
    /\ acked = 1..issued
    /\ tokens = IF topic = "token" THEN 1..issued ELSE {}
    /\ schedules = [id \in Ids |->
                      IF topic = "schedule" /\ id <= issued THEN Row(Doc(0, 0), 0, 0)
                                                            ELSE NoRow]
    /\ checks = IF topic \in {"check", "history"}
                THEN [id : 1..issued, created : {0}, rowid : 1..issued]
                     \cap {[id |-> i, created |-> 0, rowid |-> i] : i \in Ids}
                ELSE {}
    /\ h = [c \in Requests |-> Idle]
    /\ doomed = {}
    /\ gone = {}
    /\ overlapped = {}
    /\ reader = NewReader

Present(id) ==
    CASE topic = "token"    -> id \in tokens
      [] topic = "schedule" -> schedules[id] # NoRow
      [] OTHER              -> \E k \in checks : k.id = id

-----------------------------------------------------------------------------
(* Requests arrive.                                                        *)

Begin(c, handler) ==
    /\ Accept(c)
    /\ h' = [h EXCEPT ![c] = handler]

\* A request that is answered without a statement, and reports no row as created.
AnswerOnly(c) ==
    /\ Begin(c, Handler("reply", "none", NoId, Doc(0, 0)))
    /\ UNCHANGED <<topic, rows, now, issued, ghosts, reader>>

\* An invalid body, a cron expression that does not pass validCron, no WebSocket.
Refuse(c) == AnswerOnly(c)

\* NewID, and the time of creation.
BeginNew(c, pc, op) ==
    /\ issued < MaxIds[topic]
    /\ issued' = issued + 1
    /\ Begin(c, Handler(pc, op, issued + 1, Doc(now, now)))
    /\ UNCHANGED <<topic, rows, now, ghosts, reader>>

BeginDelete(c) ==
    \E id \in 1..issued :
        /\ Begin(c, Handler("delete", "delete", id, Doc(0, 0)))
        /\ doomed' = doomed \cup {id}
        /\ UNCHANGED <<topic, rows, now, issued, acked, gone, overlapped, reader>>

CreateToken(c) == topic = "token" /\ BeginNew(c, "save", "create")

DeleteToken(c) == topic = "token" /\ BeginDelete(c)

CreateSchedule(c) == topic = "schedule" /\ BeginNew(c, "save", "create")

\* Mutant of UpdateSchedule: the schedule is not looked up before it is saved.
UpdateScheduleBlindly(c) ==
    /\ topic = "schedule"
    /\ \E id \in 1..issued : Begin(c, Handler("save", "update", id, Doc(now, now)))
    /\ UNCHANGED <<topic, rows, now, issued, ghosts, reader>>

UpdateSchedule(c) ==
    /\ topic = "schedule"
    /\ \E id \in 1..issued : Begin(c, Handler("find", "update", id, Doc(0, 0)))
    /\ UNCHANGED <<topic, rows, now, issued, ghosts, reader>>

DeleteSchedule(c) == topic = "schedule" /\ BeginDelete(c)

\* A check is saved when the request asks for it, and otherwise only answered (its id
\* then names no row and is not numbered).
PostCheck(c) ==
    /\ topic \in {"check", "history"}
    /\ BeginNew(c, "save", "create") \/ AnswerOnly(c)

\* A streamed check: the connection is hijacked before the check runs.
StreamCheck(c) == topic = "check" /\ BeginNew(c, "upgrade", "stream")

Upgrade(c) ==
    /\ h[c].pc = "upgrade"
    /\ Hijack(c)
    /\ h' = [h EXCEPT ![c].pc = "save", ![c].doc = Doc(now, now)]
    /\ UNCHANGED <<topic, rows, now, issued, ghosts, reader>>

DeleteHistory(c) == topic = "check" /\ BeginDelete(c)

\* The reader asks for its next page.
AskPage(c) ==
    /\ topic = "history"
    /\ reader.pc = "ready"
    /\ Begin(c, Handler("list", "page", NoId, Doc(0, 0)))
    /\ reader' = [reader EXCEPT !.pc = "waiting"]
    /\ UNCHANGED <<topic, rows, now, issued, ghosts>>

-----------------------------------------------------------------------------
(* Statements.                                                             *)

\* The answer to come; of what it says only the row it reports as created is kept.
Answers(c, id) == h' = [h EXCEPT ![c] = Handler("reply", "none", id, Doc(0, 0))]

\* The schedule is in the list that ListSchedules returns.
findSchedule(id) == schedules[id] # NoRow

\* Mutant of LoadSchedule: the document is rebuilt instead of changed.
LoadScheduleAnew(c) ==
    /\ h[c].pc = "find"
    /\ \/ /\ store = "open" /\ findSchedule(h[c].id)
          /\ h' = [h EXCEPT ![c].pc = "save", ![c].doc = Doc(now, now)]
       \/ Answers(c, NoId)
    /\ UNCHANGED <<processVars, topic, rows, now, issued, ghosts, reader>>

\* The list of schedules is read, and the document of this one changed in memory; it
\* may not be there, and the read may fail.
LoadSchedule(c) ==
    /\ h[c].pc = "find"
    /\ \/ /\ store = "open" /\ findSchedule(h[c].id)
          /\ h' = [h EXCEPT ![c].pc = "save",
                            ![c].doc = Doc(schedules[h[c].id].doc.created, now)]
       \/ Answers(c, NoId)
    /\ UNCHANGED <<processVars, topic, rows, now, issued, ghosts, reader>>

CreateAPIToken(id) ==
    /\ tokens' = tokens \cup {id}
    /\ UNCHANGED <<schedules, checks>>

\* INSERT ... ON CONFLICT(id) DO UPDATE SET data, updated_at
SaveSchedule(id, doc) ==
    /\ schedules' = [schedules EXCEPT ![id] =
                        IF @ = NoRow THEN Row(doc, doc.created, doc.updated)
                                     ELSE Row(doc, @.created, doc.updated)]
    /\ UNCHANGED <<tokens, checks>>

\* INSERT OR REPLACE; SQLite numbers a row one above the largest row number.
SaveCheck(id, doc) ==
    /\ LET others == {k \in checks : k.id # id}
           rowid == Max({0} \cup {k.rowid : k \in others}) + 1
       IN  checks' = others \cup {[id |-> id, created |-> doc.created, rowid |-> rowid]}
    /\ UNCHANGED <<tokens, schedules>>

Insert(id, doc) ==
    \/ topic = "token" /\ CreateAPIToken(id)
    \/ topic = "schedule" /\ SaveSchedule(id, doc)
    \/ topic \in {"check", "history"} /\ SaveCheck(id, doc)

\* What a successful answer reports as created.  An update creates nothing, and the
\* done frame of a stream, sent whether the check was saved or not, says nothing.
Created(c) == IF h[c].op = "create" THEN h[c].id ELSE NoId

\* Mutant of Save: the error of the statement is not looked at.
SaveUnchecked(c) ==
    /\ h[c].pc = "save"
    /\ \/ store = "open" /\ Insert(h[c].id, h[c].doc)
       \/ UNCHANGED rows
    /\ Answers(c, Created(c))
    /\ UNCHANGED <<processVars, topic, now, issued, ghosts, reader>>

Save(c) ==
    /\ h[c].pc = "save"
    /\ \/ /\ store = "open" /\ Insert(h[c].id, h[c].doc)
          /\ \E id \in {Created(c), NoId} : Answers(c, id)
       \/ /\ UNCHANGED rows
          /\ Answers(c, NoId)
    /\ UNCHANGED <<processVars, topic, now, issued, ghosts, reader>>

DeleteAPIToken(id) ==
    /\ tokens' = tokens \ {id}
    /\ UNCHANGED <<schedules, checks>>

\* Store.DeleteSchedule
DropSchedule(id) ==
    /\ schedules' = [schedules EXCEPT ![id] = NoRow]
    /\ UNCHANGED <<tokens, checks>>

DeleteCheck(id) ==
    /\ checks' = {k \in checks : k.id # id}
    /\ UNCHANGED <<tokens, schedules>>

Remove(id) ==
    \/ topic = "token" /\ DeleteAPIToken(id)
    \/ topic = "schedule" /\ DropSchedule(id)
    \/ topic = "check" /\ DeleteCheck(id)

\* Removed, not found (no row affected) or failed.
Delete(c) ==
    LET id == h[c].id IN
    /\ h[c].pc = "delete"
    /\ \/ /\ store = "open"
          /\ Remove(id)
          /\ gone' = IF schedules[id] # NoRow THEN gone \cup {id} ELSE gone
          /\ overlapped' = IF \E d \in Requests : /\ h[d].op = "update"
                                                  /\ h[d].pc = "save" /\ h[d].id = id
                           THEN overlapped \cup {id} ELSE overlapped
       \/ UNCHANGED <<rows, gone, overlapped>>
    /\ Answers(c, NoId)
    /\ UNCHANGED <<processVars, topic, now, issued, acked, doomed, reader>>

-----------------------------------------------------------------------------
(* The history, newest first.  Equal times are read backwards from the     *)
(* index on created_at, whose entries are ordered by row number then.      *)

Newer(j, k) == j.created > k.created \/ (j.created = k.created /\ j.rowid > k.rowid)

\* Mutant of ListChecks: the offset is taken for a page number.
ListChecksByPage(limit, offset) ==
    {k \in checks : Cardinality({j \in checks : Newer(j, k)})
                      \in limit * offset .. limit * offset + limit - 1}

\* ORDER BY created_at DESC LIMIT ... OFFSET ...
ListChecks(limit, offset) ==
    {k \in checks : Cardinality({j \in checks : Newer(j, k)})
                      \in offset .. offset + limit - 1}

\* A limit that is not in 1..MaxLimit is replaced by the default.
PageLimit(n) == IF n \in 1..MaxLimit THEN n ELSE DefaultLimit

\* The page is read and answered: the reader goes on behind the rows it received until
\* there are none, and asks again when it gets no page.
ListHistory(c) ==
    /\ h[c].pc = "list"
    /\ \/ /\ store = "open"
          /\ \E n \in 0..MaxLimit + 1 :
               LET page == ListChecks(PageLimit(n), reader.offset)
               IN  reader' =
                     [reader EXCEPT
                        !.pc = IF page = {} THEN "done" ELSE "ready",
                        !.offset = @ + Cardinality(page),
                        !.base = IF reader.seen = {} THEN {k.id : k \in checks} ELSE @,
                        !.seen = @ \cup {k.id : k \in page}]
       \/ reader' = [reader EXCEPT !.pc = "ready"]
    /\ h' = [h EXCEPT ![c] = Idle]
    /\ Finish(c)
    /\ UNCHANGED <<topic, rows, now, issued, ghosts>>

-----------------------------------------------------------------------------
\* The answer is written and the handler returns.
Answer(c) ==
    /\ h[c].pc = "reply"
    /\ h' = [h EXCEPT ![c] = Idle]
    /\ Finish(c)
    /\ acked' = acked \cup ({h[c].id} \ {NoId})
    /\ UNCHANGED <<topic, rows, now, issued, doomed, gone, overlapped, reader>>

Tick ==
    /\ now < MaxTime
    /\ now' = now + 1
    /\ UNCHANGED <<processVars, topic, rows, h, issued, ghosts, reader>>

\* The process ends and takes the handlers with it; the reader begins again.
Gone ==
    /\ Terminates
    /\ h' = [c \in Requests |-> Idle]
    /\ reader' = NewReader
    /\ UNCHANGED <<topic, rows, now, issued, ghosts>>

Arrives(c) ==
    \/ Refuse(c)
    \/ CreateToken(c)
    \/ DeleteToken(c)
    \/ CreateSchedule(c)
    \/ UpdateSchedule(c)
    \/ DeleteSchedule(c)
    \/ PostCheck(c)
    \/ StreamCheck(c)
    \/ DeleteHistory(c)
    \/ AskPage(c)

Handles(c) ==
    \/ Upgrade(c)
    \/ LoadSchedule(c)
    \/ Save(c)
    \/ Delete(c)
    \/ ListHistory(c)
    \/ Answer(c)

Next ==
    \/ Advances /\ UNCHANGED tableVars
    \/ Gone
    \/ \E c \in Requests : Arrives(c) \/ Handles(c)
    \/ Tick

Spec == Init /\ [][Next]_vars

(* Stop runs to its end: its steps wait for nothing but the deadline.      *)
(* Nothing is assumed of requests.                                         *)
Fairness ==
    /\ WF_vars((ShutdownReturns \/ ShutdownExpires \/ CloseStore) /\ UNCHANGED tableVars)
    /\ WF_vars(Gone /\ Exit)

FairSpec == Spec /\ Fairness

-----------------------------------------------------------------------------
(* Properties.                                                             *)

(* What was created stays: a token whose secret was shown, a schedule and  *)
(* a check (of a POST /check that asked to save it) that were answered     *)
(* with success are in their table as long as nobody asked to delete them, *)
(* through shutdowns in the middle of requests, crashes, and the scripts   *)
(* that every start runs again.                                            *)
AckedKept == \A id \in acked \ doomed : Present(id)

(* A deleted schedule comes back only through an update that had read it   *)
(* when it was deleted (UpdateSchedule reads, changes and upserts); any    *)
(* update that starts later, on this process or the next, finds nothing.   *)
RevivedOnlyByOverlap ==
    \A id \in gone : schedules[id] # NoRow => id \in overlapped

(* ListSchedules orders by the column created_at, which the upsert does    *)
(* not touch: it is still the time of the document, also after concurrent  *)
(* updates and after a schedule came back from a deletion.                 *)
ColumnsAgree ==
    \A id \in Ids : schedules[id] # NoRow =>
        schedules[id].doc = Doc(schedules[id].created, schedules[id].updated)

(* A reader that goes on behind the rows it received sees every check that *)
(* was there when it began, whatever limits it asks for (an invalid one is *)
(* replaced, not clamped) and whichever checks are saved meanwhile: a      *)
(* check may be saved later than a newer one, CreatedAt being taken before *)
(* the save, and times are equal within a second.  Deletions are left out  *)
(* of these behaviours: one moves the rows behind it past the reader.      *)
PagedAll == reader.pc = "done" => reader.base \subseteq reader.seen
=============================================================================
