---------------------------- MODULE TablesProofs ----------------------------
(***************************************************************************)
(* Proofs about Lifecycle and Tables, for any number of requests, starts,  *)
(* migration statements, ids and rows.                                     *)
(*                                                                         *)
(* The process.  Neither GraceKept nor ServedReady is inductive: LifeInv   *)
(* says which parts of the process exist in which phase of its life        *)
(* (Phases), and how far the scripts have come (Migrated).                 *)
(*                                                                         *)
(* The rows.  The properties speak of rows; what makes them inductive      *)
(* speaks of the handlers that are about to write or to answer.  Kept: a   *)
(* row that is about to be reported as created is there or was asked to be *)
(* deleted.  Fresh: a new schedule is unknown to every other request until *)
(* it is saved, and an update of a schedule that is gone overlapped its    *)
(* deletion.  Agree: all pending updates of a schedule carry the creation  *)
(* time of its row, the one they read.                                     *)
(*                                                                         *)
(* The history.  A row has a rank, the number of rows before it in the     *)
(* order of the list.  CheckRows: rows have distinct ids and row numbers,  *)
(* and no number is larger than the number of ids that are settled, those  *)
(* no handler is about to save (so the ranks leave no gap, and the rows    *)
(* are no more than the ids).  Reading: every row that the reader has      *)
(* still to see has a rank of at least its offset; a new row only raises   *)
(* ranks.                                                                  *)
(***************************************************************************)
EXTENDS Tables, FiniteSetTheorems, FunctionTheorems, WellFoundedInduction, TLAPS

-----------------------------------------------------------------------------
(* The process.                                                            *)

\* Before run there is no server and no request; the store is closed only at the
\* ends of the process; what is left after Shutdown outlived the grace period.
Phases ==
    /\ proc \in {"down", "migrate", "wire"} =>
          server = "none" /\ inflight = {} /\ hijacked = {} /\ grace = "kept"
    /\ store = "closed" => proc \in {"down", "exit"}
    /\ proc \in {"close", "exit"} /\ inflight # {} => grace = "expired"
    /\ server = "listening" => proc = "running"

\* The statements before the next one are in the database; once they are through,
\* all of them are.
Migrated ==
    /\ proc = "down" => script = 1
    /\ proc = "migrate" => 1..script - 1 \subseteq applied
    /\ proc \notin {"down", "migrate"} => applied = 1..Scripts

LifeInv == ProcessTypeOK /\ Phases /\ Migrated

(* What is left of an ended process satisfies the invariant.               *)
LEMMA EndsTyped ==
  ASSUME LifeInv, ProcessEnds
  PROVE  LifeInv'
BY ScriptsAssumption DEF LifeInv, ProcessEnds, ProcessTypeOK, Phases, Migrated

(* The initial states satisfy the invariant.                               *)
LEMMA LifeInit == ProcessInit => LifeInv
BY ScriptsAssumption, StartsAssumption
DEF ProcessInit, LifeInv, ProcessTypeOK, Phases, Migrated

(* Every step of the process, and every request that comes or goes,        *)
(* preserves the invariant.                                                *)
LEMMA LifeStep ==
  ASSUME LifeInv, [ProcessNext]_processVars
  PROVE  LifeInv'
<1> USE ScriptsAssumption, StartsAssumption
<1>1. CASE Boot
  BY <1>1 DEF LifeInv, Boot, ProcessTypeOK, Phases, Migrated
<1>2. CASE Migrate
  <2>1. CASE script <= Scripts /\ applied' = applied \cup {script} /\ script' = script + 1
             /\ UNCHANGED proc
    <3>1. 1..script' - 1 \subseteq applied'
      BY <1>2, <2>1 DEF Migrate, LifeInv, ProcessTypeOK, Migrated
    <3> QED
      BY <1>2, <2>1, <3>1 DEF LifeInv, Migrate, ProcessTypeOK, Phases, Migrated
  <2>2. CASE script > Scripts /\ proc' = "wire" /\ UNCHANGED <<applied, script>>
    <3>1. script = Scripts + 1
      BY <2>2 DEF LifeInv, ProcessTypeOK
    <3>2. 1..Scripts \subseteq applied /\ applied \subseteq 1..Scripts
      BY <1>2, <3>1 DEF Migrate, LifeInv, ProcessTypeOK, Migrated
    <3>3. applied' = 1..Scripts
      BY <2>2, <3>2
    <3> QED
      BY <1>2, <2>2, <3>3 DEF LifeInv, Migrate, ProcessTypeOK, Phases, Migrated
  <2> QED
    BY <1>2, <2>1, <2>2 DEF Migrate
<1>3. CASE MigrateFails \/ WireFails \/ Exit \/ Crash
  BY <1>3, EndsTyped DEF MigrateFails, WireFails, Exit, Crash
<1>4. CASE Wire \/ Listen
  BY <1>4 DEF LifeInv, Wire, Listen, ProcessTypeOK, Phases, Migrated
<1>5. CASE ListenFails
  <2>1. CASE ProcessEnds
    BY <2>1, EndsTyped
  <2>2. CASE server' = "failed" /\ UNCHANGED <<proc, store, applied, script, inflight,
                                               hijacked, grace, starts>>
    BY <1>5, <2>2 DEF ListenFails, LifeInv, ProcessTypeOK, Phases, Migrated
  <2> QED
    BY <1>5, <2>1, <2>2 DEF ListenFails
<1>6. CASE Stop \/ ShutdownReturns \/ ShutdownExpires
  BY <1>6 DEF LifeInv, Stop, ShutdownReturns, ShutdownExpires, ProcessTypeOK, Phases,
              Migrated
<1>7. CASE CloseStore
  BY <1>7 DEF LifeInv, CloseStore, ProcessTypeOK, Phases, Migrated
<1>8. ASSUME NEW c \in Requests, Accept(c) PROVE LifeInv'
  BY <1>8 DEF LifeInv, Accept, ProcessTypeOK, Phases, Migrated
<1>9. ASSUME NEW c \in Requests, Hijack(c) PROVE LifeInv'
  BY <1>9 DEF LifeInv, Hijack, ProcessTypeOK, Phases, Migrated
<1>10. ASSUME NEW c \in Requests, Finish(c) PROVE LifeInv'
  BY <1>10 DEF LifeInv, Finish, ProcessTypeOK, Phases, Migrated
<1>11. CASE UNCHANGED processVars
  BY <1>11 DEF LifeInv, processVars, ProcessTypeOK, Phases, Migrated
<1> QED
  BY <1>1, <1>2, <1>3, <1>4, <1>5, <1>6, <1>7, <1>8, <1>9, <1>10, <1>11
  DEF ProcessNext, Advances, Terminates, RequestStep

(* The invariant holds in every state of a process.                        *)
LEMMA LifeInvariant == ProcessSpec => []LifeInv
<1>1. LifeInv /\ [ProcessNext]_processVars => LifeInv'
  BY LifeStep
<1> QED
  BY <1>1, LifeInit, PTL DEF ProcessSpec

(* A process with handlers behaves like a process: what the handlers do to *)
(* its requests is to accept, hijack and finish them.                      *)
THEOREM TablesRunInProcess == Spec => ProcessSpec
<1>1. Init => ProcessInit
  BY DEF Init
<1>2. [Next]_vars => [ProcessNext]_processVars
  <2> SUFFICES ASSUME [Next]_vars PROVE [ProcessNext]_processVars
    OBVIOUS
  <2>1. CASE Advances /\ UNCHANGED tableVars
    BY <2>1 DEF ProcessNext
  <2>2. CASE Gone
    BY <2>2 DEF Gone, ProcessNext
  <2>3. ASSUME NEW c \in Requests, Arrives(c) PROVE ProcessNext
    <3>1. Accept(c)
      BY <2>3 DEF Arrives, Refuse, AnswerOnly, BeginNew, BeginDelete, Begin, CreateToken,
         DeleteToken, CreateSchedule, UpdateSchedule, DeleteSchedule, PostCheck,
         StreamCheck, DeleteHistory, AskPage
    <3> QED
      BY <3>1 DEF ProcessNext, RequestStep
  <2>4. ASSUME NEW c \in Requests, Handles(c) PROVE [ProcessNext]_processVars
    BY <2>4 DEF Handles, Upgrade, LoadSchedule, Save, Delete, ListHistory, Answer,
                ProcessNext, RequestStep
  <2>5. CASE Tick \/ UNCHANGED vars
    BY <2>5 DEF Tick, vars
  <2> QED
    BY <2>1, <2>2, <2>3, <2>4, <2>5 DEF Next
<1> QED
  BY <1>1, <1>2, PTL DEF Spec, ProcessSpec

(* No request that is answered within the grace period of Stop meets a     *)
(* closed store.                                                           *)
THEOREM StopDrains == Spec => []GraceKept
<1>1. LifeInv => GraceKept
  BY DEF LifeInv, Phases, GraceKept
<1> QED
  BY <1>1, LifeInvariant, TablesRunInProcess, PTL

(* Requests run against the complete schema, and the listener is up only   *)
(* while the process runs on an open store, whichever crash left whichever *)
(* half of the migration behind.                                           *)
THEOREM ServesOnlyReady == Spec => []ServedReady
<1>1. LifeInv => ServedReady
  BY DEF LifeInv, Phases, Migrated, ServedReady, ProcessTypeOK
<1> QED
  BY <1>1, LifeInvariant, TablesRunInProcess, PTL

-----------------------------------------------------------------------------
(* The rows.                                                               *)

TableTypes ==
    /\ topic \in Topics
    /\ schedules \in [Ids -> Rows \cup {NoRow}]
    /\ h \in [Requests -> Handlers]
    /\ now \in Times
    /\ issued \in 0..MaxIds[topic]
    /\ \A c \in Requests :
          h[c].pc \in {"upgrade", "find", "save", "delete"} => h[c].id \in 1..issued

AckedOK == acked \subseteq Ids /\ AckedKept

Kept ==
    /\ AckedOK
    /\ \A c \in Requests :
          /\ h[c].pc = "reply" /\ h[c].id # NoId => h[c].id \in doomed \/ Present(h[c].id)
          /\ h[c].pc = "delete" => h[c].id \in doomed

Fresh ==
    /\ gone \subseteq 1..issued
    /\ \A id \in Ids : schedules[id] # NoRow => topic = "schedule" /\ id <= issued
    /\ \A c \in Requests :
          /\ h[c].pc = "upgrade" => topic # "schedule" /\ h[c].op # "update"
          /\ h[c].pc = "find" => h[c].op = "update"
          /\ topic = "schedule" /\ h[c].pc = "save" /\ h[c].op # "update" =>
                /\ schedules[h[c].id] = NoRow /\ h[c].id \notin gone
                /\ \A d \in Requests \ {c} : h[d].pc = "save" => h[d].id # h[c].id
          /\ h[c].pc = "save" /\ h[c].op = "update" /\ h[c].id \in gone =>
                h[c].id \in overlapped
    /\ RevivedOnlyByOverlap

Agree ==
    /\ ColumnsAgree
    /\ \A c \in Requests : h[c].pc = "save" /\ h[c].op = "update" =>
          /\ schedules[h[c].id] # NoRow => schedules[h[c].id].created = h[c].doc.created
          /\ \A d \in Requests :
                h[d].pc = "save" /\ h[d].op = "update" /\ h[d].id = h[c].id =>
                    h[d].doc.created = h[c].doc.created

TableInv == TableTypes /\ Kept /\ Fresh /\ Agree

-----------------------------------------------------------------------------
(* Ids, rows and handlers.                                                 *)

(* Every topic's ids are ids.                                              *)
LEMMA IdsBound == MaxId \in Nat /\ \A t \in Topics : MaxIds[t] \in Nat /\ MaxIds[t] <= MaxId
<1> DEFINE a == MaxIds["token"]
           b == MaxIds["schedule"]
           d == MaxIds["check"]
           e == MaxIds["history"]
           S == {MaxIds[t] : t \in Topics}
<1>1. a \in Nat /\ b \in Nat /\ d \in Nat /\ e \in Nat
  BY IdsAssumption DEF Topics
<1>2. S = {a, b, d, e}
  BY DEF Topics
<1> HIDE DEF a, b, d, e, S
<1>3. \E x \in S : \A y \in S : x >= y
  BY <1>1, <1>2
<1>4. MaxId = CHOOSE x \in S : \A y \in S : x >= y
  BY DEF MaxId, Max, S
<1>5. MaxId \in S /\ \A y \in S : MaxId >= y
  BY <1>3, <1>4
<1> QED
  BY <1>1, <1>2, <1>5 DEF Topics, a, b, d, e

(* What is saved for a schedule is a row, and never taken for a missing    *)
(* one.                                                                    *)
LEMMA RowFacts ==
  ASSUME NEW doc \in Docs, NEW created \in Times
  PROVE  /\ Row(doc, created, doc.updated) \in Rows
         /\ Row(doc, created, doc.updated) # NoRow
BY TimeAssumption DEF Row, Rows, Docs, NoRow, Times

(* What is read from a row whose columns agree.                            *)
LEMMA RowRead ==
  ASSUME schedules \in [Ids -> Rows \cup {NoRow}], ColumnsAgree,
         NEW id \in Ids, schedules[id] # NoRow
  PROVE  /\ schedules[id].created \in Times
         /\ schedules[id].doc.created = schedules[id].created
<1>1. schedules[id] \in Rows /\ schedules[id].created \in Times
  BY DEF Rows
<1>2. schedules[id].doc = Doc(schedules[id].created, schedules[id].updated)
  BY DEF ColumnsAgree
<1> QED
  BY <1>1, <1>2 DEF Doc

(* One handler moves, the others stay.                                     *)
LEMMA HandlerMoves ==
  ASSUME h \in [Requests -> Handlers], NEW c \in Requests, NEW v \in Handlers,
         h' = [h EXCEPT ![c] = v]
  PROVE  /\ h' \in [Requests -> Handlers]
         /\ h'[c] = v
         /\ \A d \in Requests \ {c} : h'[d] = h[d]
OBVIOUS

(* The initial tables.                                                     *)
LEMMA TablesInit == Init => TableInv
<1> SUFFICES ASSUME Init PROVE TableInv
  OBVIOUS
<1>1. issued \in 0..MaxIds[topic] /\ topic \in Topics /\ 1..issued \subseteq Ids
  BY IdsBound DEF Init, Ids
<1>2. /\ Idle \in Handlers /\ Idle.pc = "idle"
      /\ Doc(0, 0) \in Docs /\ 0 \in Times
  BY TimeAssumption DEF Idle, Handler, Handlers, Doc, Docs, Times, NoId
<1>3. Row(Doc(0, 0), 0, 0) \in Rows /\ Row(Doc(0, 0), 0, 0) # NoRow
  BY <1>2, RowFacts DEF Doc
<1>4. /\ schedules \in [Ids -> Rows \cup {NoRow}]
      /\ \A id \in Ids : schedules[id] # NoRow <=> topic = "schedule" /\ id <= issued
      /\ \A id \in Ids : schedules[id] # NoRow => schedules[id] = Row(Doc(0, 0), 0, 0)
  BY <1>3 DEF Init
<1>5. \A c \in Requests : h[c] = Idle
  BY DEF Init
<1>6. TableTypes
  BY <1>1, <1>2, <1>4, <1>5 DEF Init, TableTypes
<1>7. AckedOK
  <2> SUFFICES ASSUME NEW id \in 1..issued PROVE Present(id)
    BY <1>1 DEF Init, AckedOK, AckedKept
  <2>1. CASE topic = "token"
    BY <2>1 DEF Init, Present
  <2>2. CASE topic = "schedule"
    BY <1>1, <1>4, <2>2 DEF Present
  <2>3. CASE topic \in {"check", "history"}
    <3>1. [id |-> id, created |-> 0, rowid |-> id] \in checks
      BY <1>1, <2>3 DEF Init
    <3> QED
      BY <2>3, <3>1 DEF Present
  <2> QED
    BY <1>1, <2>1, <2>2, <2>3 DEF Topics
<1>8. Kept
  BY <1>2, <1>5, <1>7 DEF Kept
<1>9. Fresh
  BY <1>1, <1>2, <1>4, <1>5 DEF Init, Fresh, RevivedOnlyByOverlap
<1>10. Agree
  BY <1>2, <1>4, <1>5 DEF Agree, ColumnsAgree, Row, Doc
<1> QED
  BY <1>6, <1>8, <1>9, <1>10 DEF TableInv

-----------------------------------------------------------------------------
(* Steps that write no row.                                                *)

(* A handler moves on without touching a row, and without a document to    *)
(* save.                                                                   *)
LEMMA QuietMove ==
  ASSUME TableInv, NEW c \in Requests, NEW v \in Handlers, h' = [h EXCEPT ![c] = v],
         UNCHANGED <<topic, rows, now, issued, gone, overlapped>>,
         doomed \subseteq doomed', AckedOK',
         v.pc \notin {"save", "upgrade"},
         v.pc \in {"find", "delete"} => v.id \in 1..issued,
         v.pc = "find" => v.op = "update",
         v.pc = "delete" => v.id \in doomed',
         v.pc = "reply" /\ v.id # NoId => v.id \in doomed \/ Present(v.id)
  PROVE  TableInv'
<1>1. /\ h' \in [Requests -> Handlers] /\ h'[c] = v
      /\ \A d \in Requests \ {c} : h'[d] = h[d]
  BY HandlerMoves DEF TableInv, TableTypes
<1>2. UNCHANGED <<topic, tokens, schedules, checks, now, issued, gone, overlapped>>
  BY DEF rows
<1>3. TableTypes'
  BY <1>1, <1>2 DEF TableInv, TableTypes
<1>4. \A id : Present(id)' <=> Present(id)
  BY <1>2 DEF Present
<1>5. Kept'
  BY <1>1, <1>4 DEF TableInv, Kept
<1>6. Fresh'
  BY <1>1, <1>2 DEF TableInv, Fresh, RevivedOnlyByOverlap
<1>7. Agree'
  BY <1>1, <1>2 DEF TableInv, Agree, ColumnsAgree
<1> QED
  BY <1>3, <1>5, <1>6, <1>7 DEF TableInv

(* Unchanged rows keep what was acknowledged, however many deletions are   *)
(* asked for.                                                              *)
LEMMA AckedStays ==
  ASSUME AckedOK, UNCHANGED <<topic, rows, acked>>, doomed \subseteq doomed'
  PROVE  AckedOK'
<1>1. \A id : Present(id)' <=> Present(id)
  BY DEF Present, rows
<1> QED
  BY <1>1 DEF AckedOK, AckedKept

(* The handlers that actions put in place are handlers.                    *)
LEMMA HandlersTyped ==
  /\ \A id \in Ids \cup {NoId} : Handler("reply", "none", id, Doc(0, 0)) \in Handlers
  /\ \A id \in Ids : Handler("delete", "delete", id, Doc(0, 0)) \in Handlers
  /\ \A id \in Ids : Handler("find", "update", id, Doc(0, 0)) \in Handlers
  /\ Handler("list", "page", NoId, Doc(0, 0)) \in Handlers
  /\ Idle \in Handlers
BY TimeAssumption DEF Handler, Handlers, Doc, Docs, Times, Idle

(* Arrivals that create nothing.                                           *)
LEMMA ArrivesQuietly ==
  ASSUME TableInv, NEW c \in Requests,
         Refuse(c) \/ BeginDelete(c) \/ UpdateSchedule(c) \/ AskPage(c)
  PROVE  TableInv'
<1>0. 1..issued \subseteq Ids /\ AckedOK
  BY IdsBound DEF TableInv, TableTypes, Ids, Kept
<1>1. CASE Refuse(c)
  <2>1. AckedOK'
    BY <1>0, <1>1, AckedStays DEF Refuse, AnswerOnly, ghosts
  <2>2. Handler("reply", "none", NoId, Doc(0, 0)).pc = "reply"
        /\ Handler("reply", "none", NoId, Doc(0, 0)).id = NoId
    BY DEF Handler
  <2> QED
    BY <1>1, <2>1, <2>2, QuietMove, HandlersTyped DEF Refuse, AnswerOnly, Begin, ghosts
<1>2. CASE BeginDelete(c)
  <2>1. PICK id \in 1..issued :
            /\ Begin(c, Handler("delete", "delete", id, Doc(0, 0)))
            /\ doomed' = doomed \cup {id}
            /\ UNCHANGED <<topic, rows, now, issued, acked, gone, overlapped, reader>>
    BY <1>2 DEF BeginDelete
  <2>2. AckedOK'
    BY <1>0, <2>1, AckedStays
  <2> DEFINE v == Handler("delete", "delete", id, Doc(0, 0))
  <2>3. v \in Handlers /\ v.pc = "delete" /\ v.id = id
    BY <1>0, HandlersTyped DEF Handler
  <2>4. h' = [h EXCEPT ![c] = v]
    BY <2>1 DEF Begin
  <2> HIDE DEF v
  <2> QED
    BY <2>1, <2>2, <2>3, <2>4, QuietMove
<1>3. CASE UpdateSchedule(c)
  <2>1. PICK id \in 1..issued : Begin(c, Handler("find", "update", id, Doc(0, 0)))
    BY <1>3 DEF UpdateSchedule
  <2>2. AckedOK'
    BY <1>0, <1>3, AckedStays DEF UpdateSchedule, ghosts
  <2> DEFINE v == Handler("find", "update", id, Doc(0, 0))
  <2>3. v \in Handlers /\ v.pc = "find" /\ v.op = "update" /\ v.id = id
    BY <1>0, HandlersTyped DEF Handler
  <2>4. h' = [h EXCEPT ![c] = v]
    BY <2>1 DEF Begin
  <2> HIDE DEF v
  <2> QED
    BY <1>3, <2>1, <2>2, <2>3, <2>4, QuietMove DEF UpdateSchedule, ghosts
<1>4. CASE AskPage(c)
  <2>1. AckedOK'
    BY <1>0, <1>4, AckedStays DEF AskPage, ghosts
  <2>2. Handler("list", "page", NoId, Doc(0, 0)).pc = "list"
    BY DEF Handler
  <2> QED
    BY <1>4, <2>1, <2>2, QuietMove, HandlersTyped DEF AskPage, Begin, ghosts
<1> QED
  BY <1>1, <1>2, <1>3, <1>4

(* A request that creates a row carries an id that no other request and no *)
(* table knows.                                                            *)
LEMMA ArrivesNew ==
  ASSUME TableInv, NEW c \in Requests, NEW pc \in {"save", "upgrade"},
         NEW op \in {"create", "stream"}, BeginNew(c, pc, op),
         pc = "upgrade" => topic # "schedule"
  PROVE  TableInv'
<1> DEFINE v == Handler(pc, op, issued + 1, Doc(now, now))
<1>1. /\ issued \in Nat /\ issued' = issued + 1 /\ issued' \in 0..MaxIds[topic]
      /\ issued' \in Ids /\ topic \in Topics
  BY IdsBound DEF TableInv, TableTypes, BeginNew, Ids
<1>2. v \in Handlers /\ v.pc = pc /\ v.op = op /\ v.id = issued + 1
  BY <1>1 DEF Handler, Handlers, Doc, Docs, TableInv, TableTypes
<1>3. h' = [h EXCEPT ![c] = v]
  BY DEF BeginNew, Begin
<1> HIDE DEF v
<1>4. /\ h' \in [Requests -> Handlers] /\ h'[c] = v
      /\ \A d \in Requests \ {c} : h'[d] = h[d]
  BY <1>2, <1>3, HandlerMoves DEF TableInv, TableTypes
<1>5. UNCHANGED <<topic, tokens, schedules, checks, now, acked, doomed, gone, overlapped>>
  BY DEF BeginNew, rows, ghosts
<1>6. TableTypes'
  BY <1>1, <1>2, <1>4, <1>5 DEF TableInv, TableTypes
<1>7. Kept'
  <2>1. \A id : Present(id)' <=> Present(id)
    BY <1>5 DEF Present
  <2> QED
    BY <1>2, <1>4, <1>5, <2>1 DEF TableInv, Kept, AckedOK, AckedKept
<1>8. Fresh'
  BY <1>1, <1>2, <1>4, <1>5 DEF TableInv, TableTypes, Fresh, RevivedOnlyByOverlap
<1>9. Agree'
  BY <1>2, <1>4, <1>5 DEF TableInv, Agree, ColumnsAgree
<1> QED
  BY <1>6, <1>7, <1>8, <1>9 DEF TableInv

-----------------------------------------------------------------------------
(* Steps of a handler that write no row.                                   *)

(* The connection of a streamed check is taken over.                       *)
LEMMA UpgradeKeeps ==
  ASSUME TableInv, NEW c \in Requests, Upgrade(c)
  PROVE  TableInv'
<1> DEFINE v == [h[c] EXCEPT !.pc = "save", !.doc = Doc(now, now)]
<1>1. h[c] \in Handlers /\ h[c].pc = "upgrade" /\ now \in Times /\ topic # "schedule"
      /\ h[c].op # "update"
  BY DEF TableInv, TableTypes, Fresh, Upgrade
<1>2. v \in Handlers /\ v.pc = "save" /\ v.id = h[c].id /\ v.op = h[c].op
  BY <1>1 DEF Handlers, Docs, Doc
<1>3. h' = [h EXCEPT ![c] = v]
  BY DEF Upgrade, TableInv, TableTypes
<1> HIDE DEF v
<1>4. /\ h' \in [Requests -> Handlers] /\ h'[c] = v
      /\ \A d \in Requests \ {c} : h'[d] = h[d]
  BY <1>2, <1>3, HandlerMoves DEF TableInv, TableTypes
<1>5. UNCHANGED <<topic, tokens, schedules, checks, now, issued, acked, doomed, gone,
                  overlapped>>
  BY DEF Upgrade, rows, ghosts
<1>6. TableTypes'
  BY <1>1, <1>2, <1>4, <1>5 DEF TableInv, TableTypes
<1>7. Kept'
  <2>1. \A id : Present(id)' <=> Present(id)
    BY <1>5 DEF Present
  <2> QED
    BY <1>2, <1>4, <1>5, <2>1 DEF TableInv, Kept, AckedOK, AckedKept
<1>8. Fresh'
  BY <1>1, <1>2, <1>4, <1>5 DEF TableInv, Fresh, RevivedOnlyByOverlap
<1>9. Agree'
  BY <1>1, <1>2, <1>4, <1>5 DEF TableInv, Agree, ColumnsAgree
<1> QED
  BY <1>6, <1>7, <1>8, <1>9 DEF TableInv

(* An update reads its schedule.                                           *)
LEMMA LoadScheduleKeeps ==
  ASSUME TableInv, NEW c \in Requests, LoadSchedule(c)
  PROVE  TableInv'
<1>1. /\ h[c] \in Handlers /\ h[c].pc = "find" /\ now \in Times /\ h[c].id \in 1..issued
      /\ 1..issued \subseteq Ids /\ h[c].op = "update"
  BY IdsBound DEF TableInv, TableTypes, Fresh, LoadSchedule, Ids
<1>2. CASE Answers(c, NoId)
  <2>1. AckedOK'
    BY AckedStays DEF TableInv, Kept, LoadSchedule, ghosts
  <2>2. Handler("reply", "none", NoId, Doc(0, 0)).pc = "reply"
        /\ Handler("reply", "none", NoId, Doc(0, 0)).id = NoId
    BY DEF Handler
  <2> QED
    BY <1>2, <2>1, <2>2, QuietMove, HandlersTyped DEF Answers, LoadSchedule, ghosts
<1>3. CASE /\ findSchedule(h[c].id)
           /\ h' = [h EXCEPT ![c].pc = "save",
                             ![c].doc = Doc(schedules[h[c].id].doc.created, now)]
  <2> DEFINE id == h[c].id
             v == [h[c] EXCEPT !.pc = "save", !.doc = Doc(schedules[id].doc.created, now)]
  <2>0. id \in Ids /\ schedules[id] # NoRow
    BY <1>1, <1>3 DEF findSchedule
  <2>1. /\ id \in Ids /\ schedules[id] # NoRow
        /\ schedules[id].created = schedules[id].doc.created
        /\ schedules[id].doc.created \in Times
    BY <2>0, RowRead DEF TableInv, TableTypes, Agree
  <2>2. /\ v \in Handlers /\ v.pc = "save" /\ v.id = id
        /\ v.doc.created = schedules[id].created /\ v.op = h[c].op
    BY <1>1, <2>1 DEF Handlers, Docs, Doc
  <2>3. h' = [h EXCEPT ![c] = v]
    BY <1>3 DEF TableInv, TableTypes
  <2> HIDE DEF v
  <2>4. /\ h' \in [Requests -> Handlers] /\ h'[c] = v
        /\ \A d \in Requests \ {c} : h'[d] = h[d]
    BY <2>2, <2>3, HandlerMoves DEF TableInv, TableTypes
  <2>5. UNCHANGED <<topic, tokens, schedules, checks, now, issued, acked, doomed, gone,
                    overlapped>>
    BY DEF LoadSchedule, rows, ghosts
  <2>6. TableTypes'
    BY <1>1, <2>2, <2>4, <2>5 DEF TableInv, TableTypes
  <2>7. Kept'
    <3>1. \A i : Present(i)' <=> Present(i)
      BY <2>5 DEF Present
    <3> QED
      BY <2>2, <2>4, <2>5, <3>1 DEF TableInv, Kept, AckedOK, AckedKept
  <2>8. Fresh'
    BY <1>1, <2>1, <2>2, <2>4, <2>5 DEF TableInv, Fresh, RevivedOnlyByOverlap
  <2>9. Agree'
    BY <1>1, <2>1, <2>2, <2>4, <2>5 DEF TableInv, Agree, ColumnsAgree
  <2> QED
    BY <2>6, <2>7, <2>8, <2>9 DEF TableInv
<1> QED
  BY <1>2, <1>3 DEF LoadSchedule

-----------------------------------------------------------------------------
(* Steps that write rows.                                                  *)

(* A statement that inserts leaves the other rows and is seen at once.     *)
LEMMA InsertShows ==
  ASSUME TableInv, NEW id \in Ids, NEW doc \in Docs, Insert(id, doc), UNCHANGED topic
  PROVE  Present(id)' /\ \A i \in Ids : Present(i) => Present(i)'
<1>1. CASE topic = "token" /\ CreateAPIToken(id)
  BY <1>1 DEF CreateAPIToken, Present
<1>2. CASE topic = "schedule" /\ SaveSchedule(id, doc)
  <2>1. schedules'[id] # NoRow
    <3>1. CASE schedules[id] = NoRow
      <4>1. schedules'[id] = Row(doc, doc.created, doc.updated)
        BY <1>2, <3>1 DEF SaveSchedule, TableInv, TableTypes
      <4> QED
        BY <4>1, RowFacts DEF Docs
    <3>2. CASE schedules[id] # NoRow
      <4>1. schedules'[id] = Row(doc, schedules[id].created, doc.updated)
        BY <1>2, <3>2 DEF SaveSchedule, TableInv, TableTypes
      <4>2. schedules[id].created \in Times
        BY <3>2, RowRead DEF TableInv, TableTypes, Agree
      <4> QED
        BY <4>1, <4>2, RowFacts
    <3> QED
      BY <3>1, <3>2
  <2>2. \A i \in Ids \ {id} : schedules'[i] = schedules[i]
    BY <1>2 DEF SaveSchedule, TableInv, TableTypes
  <2> QED
    BY <1>2, <2>1, <2>2 DEF Present
<1>3. CASE topic \in {"check", "history"} /\ SaveCheck(id, doc)
  <2>1. PICK rowid : checks' = {k \in checks : k.id # id}
                       \cup {[id |-> id, created |-> doc.created, rowid |-> rowid]}
    BY <1>3 DEF SaveCheck
  <2>2. \E k \in checks' : k.id = id
    <3>1. [id |-> id, created |-> doc.created, rowid |-> rowid] \in checks'
      BY <2>1
    <3> QED
      BY <3>1
  <2>3. \A k \in checks : k.id # id => k \in checks'
    BY <2>1
  <2> QED
    BY <1>3, <2>2, <2>3 DEF Present
<1> QED
  BY <1>1, <1>2, <1>3 DEF Insert

(* Only SaveSchedule writes schedules: the row it leaves carries the time  *)
(* of creation of the document it was given.                               *)
LEMMA SavedRow ==
  ASSUME TableInv, NEW c \in Requests, h[c].pc = "save", topic = "schedule",
         SaveSchedule(h[c].id, h[c].doc)
  PROVE  \E r \in Rows :
            /\ schedules' = [schedules EXCEPT ![h[c].id] = r]
            /\ r # NoRow /\ r.created = h[c].doc.created
            /\ r.doc = Doc(r.created, r.updated)
<1> DEFINE id == h[c].id
           doc == h[c].doc
           r == Row(doc, doc.created, doc.updated)
<1>1. id \in Ids /\ doc \in Docs
  BY IdsBound DEF TableInv, TableTypes, Ids, Handlers
<1>2. /\ r \in Rows /\ r # NoRow /\ r.created = doc.created
      /\ doc.created \in Times
  BY <1>1, RowFacts DEF Docs, Row
<1>3. r.doc = Doc(r.created, r.updated)
  BY <1>1 DEF Row, Doc, Docs
<1>4. schedules[id] # NoRow => schedules[id].created = doc.created
  BY DEF TableInv, Fresh, Agree
<1>5. schedules' = [schedules EXCEPT ![id] = r]
  BY <1>4 DEF SaveSchedule
<1> HIDE DEF r
<1> QED
  BY <1>2, <1>3, <1>5

(* The save of a handler, whether it takes effect or not.                  *)
LEMMA SaveKeeps ==
  ASSUME TableInv, NEW c \in Requests, Save(c)
  PROVE  TableInv'
<1>0. PICK id \in Ids, doc \in Docs : id = h[c].id /\ doc = h[c].doc
  BY IdsBound DEF TableInv, TableTypes, Save, Ids, Handlers
<1>1. /\ h[c] \in Handlers /\ h[c].pc = "save" /\ id \in 1..issued
      /\ id = h[c].id /\ doc = h[c].doc /\ topic \in Topics /\ issued \in Nat
  BY <1>0, IdsBound DEF TableInv, TableTypes, Save, Ids
<1>2. UNCHANGED <<topic, now, issued, acked, doomed, gone, overlapped>>
  BY DEF Save, ghosts
<1>3. CASE UNCHANGED rows /\ Answers(c, NoId)
  <2>1. AckedOK'
    BY <1>2, <1>3, AckedStays DEF TableInv, Kept
  <2>2. Handler("reply", "none", NoId, Doc(0, 0)).pc = "reply"
        /\ Handler("reply", "none", NoId, Doc(0, 0)).id = NoId
    BY DEF Handler
  <2> QED
    BY <1>2, <1>3, <2>1, <2>2, QuietMove, HandlersTyped DEF Answers
<1>4. CASE Insert(id, doc) /\ \E i \in {Created(c), NoId} : Answers(c, i)
  <2>1. PICK i \in {id, NoId} : Answers(c, i)
    BY <1>1, <1>4 DEF Created
  <2> DEFINE v == Handler("reply", "none", i, Doc(0, 0))
  <2>2. v \in Handlers /\ v.pc = "reply" /\ v.id = i
    BY <1>1, HandlersTyped DEF Handler
  <2>3. h' = [h EXCEPT ![c] = v]
    BY <2>1 DEF Answers
  <2> HIDE DEF v
  <2>4. /\ h' \in [Requests -> Handlers] /\ h'[c] = v
        /\ \A d \in Requests \ {c} : h'[d] = h[d]
    BY <2>2, <2>3, HandlerMoves DEF TableInv, TableTypes
  <2>5. Present(id)' /\ \A j \in Ids : Present(j) => Present(j)'
    BY <1>1, <1>2, <1>4, InsertShows
  <2>6. Kept'
    <3>1. AckedOK'
      BY <1>2, <2>5 DEF TableInv, Kept, AckedOK, AckedKept
    <3>2. \A d \in Requests : h[d].id \in Ids \cup {NoId}
      BY DEF TableInv, TableTypes, Handlers
    <3> QED
      BY <1>2, <2>2, <2>4, <2>5, <3>1, <3>2 DEF TableInv, Kept
  <2>7. CASE topic # "schedule"
    <3>1. UNCHANGED schedules
      BY <1>4, <2>7 DEF Insert, CreateAPIToken, SaveCheck
    <3>2. TableTypes'
      BY <1>2, <2>2, <2>4, <3>1 DEF TableInv, TableTypes
    <3>3. Fresh'
      BY <1>2, <2>2, <2>4, <3>1 DEF TableInv, Fresh, RevivedOnlyByOverlap
    <3>4. Agree'
      BY <1>2, <2>2, <2>4, <3>1 DEF TableInv, Agree, ColumnsAgree
    <3> QED
      BY <2>6, <3>2, <3>3, <3>4 DEF TableInv
  <2>8. CASE topic = "schedule"
    <3>1. PICK r \in Rows :
              /\ schedules' = [schedules EXCEPT ![id] = r]
              /\ r # NoRow /\ r.created = doc.created
              /\ r.doc = Doc(r.created, r.updated)
      BY <1>1, <1>4, <2>8, SavedRow DEF Insert
    <3>2. /\ schedules' \in [Ids -> Rows \cup {NoRow}]
          /\ schedules'[id] = r
          /\ \A j \in Ids \ {id} : schedules'[j] = schedules[j]
      BY <1>1, <3>1 DEF TableInv, TableTypes
    <3>3. TableTypes'
      BY <1>2, <2>2, <2>4, <3>2 DEF TableInv, TableTypes
    <3>4. id \in gone => id \in overlapped
      BY <1>1, <2>8 DEF TableInv, Fresh
    <3>5. gone \subseteq Ids
      BY IdsBound DEF TableInv, TableTypes, Fresh, Ids
    <3>6. \A d \in Requests \ {c} : h[d].pc = "save" /\ h[d].op # "update" =>
              h[d].id # id /\ h[d].id \in Ids
      BY <1>1, <2>8, IdsBound DEF TableInv, TableTypes, Fresh, Ids
    <3>7. Fresh'
      <4>1. RevivedOnlyByOverlap'
        BY <1>2, <3>2, <3>4, <3>5 DEF TableInv, Fresh, RevivedOnlyByOverlap
      <4>2. \A j \in Ids : schedules'[j] # NoRow => topic = "schedule" /\ j <= issued
        BY <1>1, <2>8, <3>2 DEF TableInv, Fresh
      <4>3. \A d \in Requests \ {c} : h[d].pc = "save" /\ h[d].op # "update" =>
                schedules'[h[d].id] = NoRow
        BY <2>8, <3>2, <3>6 DEF TableInv, Fresh
      <4> QED
        BY <1>2, <2>2, <2>4, <4>1, <4>2, <4>3 DEF TableInv, Fresh
    <3>8. Agree'
      <4>1. ColumnsAgree'
        BY <3>1, <3>2 DEF TableInv, Agree, ColumnsAgree
      <4>2. \A d \in Requests \ {c} : h[d].pc = "save" => h[d].id \in Ids
        BY IdsBound DEF TableInv, TableTypes, Ids
      <4>3. \A d \in Requests \ {c} :
                h[d].pc = "save" /\ h[d].op = "update" /\ h[d].id = id =>
                    h[d].doc.created = doc.created
        BY <1>1, <2>8 DEF TableInv, Fresh, Agree
      <4>4. \A d \in Requests \ {c} : h[d].pc = "save" /\ h[d].op = "update" =>
                (schedules'[h[d].id] # NoRow =>
                    schedules'[h[d].id].created = h[d].doc.created)
        BY <3>1, <3>2, <4>2, <4>3 DEF TableInv, Agree
      <4> QED
        BY <2>2, <2>4, <4>1, <4>4 DEF TableInv, Agree
    <3> QED
      BY <2>6, <3>3, <3>7, <3>8 DEF TableInv
  <2> QED
    BY <2>7, <2>8
<1> QED
  BY <1>1, <1>3, <1>4 DEF Save

(* The deletion of a row, whether it takes effect or not.                  *)
LEMMA DeleteKeeps ==
  ASSUME TableInv, NEW c \in Requests, Delete(c)
  PROVE  TableInv'
<1>0. PICK id \in Ids : id = h[c].id
  BY IdsBound DEF TableInv, TableTypes, Delete, Ids
<1>1. /\ id = h[c].id /\ h[c].pc = "delete" /\ id \in 1..issued /\ id \in doomed
      /\ topic \in Topics
  BY <1>0 DEF TableInv, TableTypes, Kept, Delete
<1>2. UNCHANGED <<topic, now, issued, acked, doomed>> /\ Answers(c, NoId)
  BY DEF Delete
<1> DEFINE v == Handler("reply", "none", NoId, Doc(0, 0))
<1>3. v \in Handlers /\ v.pc = "reply" /\ v.id = NoId
  BY HandlersTyped DEF Handler
<1>4. h' = [h EXCEPT ![c] = v]
  BY <1>2 DEF Answers
<1> HIDE DEF v
<1>5. /\ h' \in [Requests -> Handlers] /\ h'[c] = v
      /\ \A d \in Requests \ {c} : h'[d] = h[d]
  BY <1>3, <1>4, HandlerMoves DEF TableInv, TableTypes
<1>6. CASE UNCHANGED <<rows, gone, overlapped>>
  <2>1. AckedOK'
    BY <1>2, <1>6, AckedStays DEF TableInv, Kept
  <2> QED
    BY <1>2, <1>3, <1>4, <1>6, <2>1, QuietMove
<1>7. CASE /\ Remove(id)
           /\ gone' = IF schedules[id] # NoRow THEN gone \cup {id} ELSE gone
           /\ overlapped' = IF \E d \in Requests : /\ h[d].op = "update"
                                                   /\ h[d].pc = "save" /\ h[d].id = id
                            THEN overlapped \cup {id} ELSE overlapped
  <2>1. \A i \in Ids \ {id} : Present(i) => Present(i)'
    <3>1. CASE topic = "token" /\ DeleteAPIToken(id)
      BY <1>2, <3>1 DEF DeleteAPIToken, Present
    <3>2. CASE topic = "schedule" /\ DropSchedule(id)
      BY <1>2, <3>2 DEF DropSchedule, Present, TableInv, TableTypes
    <3>3. CASE topic = "check" /\ DeleteCheck(id)
      BY <1>2, <3>3 DEF DeleteCheck, Present
    <3> QED
      BY <1>7, <3>1, <3>2, <3>3 DEF Remove
  <2>2. Kept'
    <3>1. AckedOK'
      BY <1>1, <1>2, <2>1 DEF TableInv, Kept, AckedOK, AckedKept
    <3>2. \A d \in Requests : h[d].id \in Ids \cup {NoId}
      BY DEF TableInv, TableTypes, Handlers
    <3> QED
      BY <1>1, <1>2, <1>3, <1>5, <2>1, <3>1, <3>2 DEF TableInv, Kept
  <2>3. /\ schedules' \in [Ids -> Rows \cup {NoRow}]
        /\ \A i \in Ids : schedules'[i] = NoRow \/ schedules'[i] = schedules[i]
        /\ topic = "schedule" => schedules'[id] = NoRow
    BY <1>7 DEF Remove, DeleteAPIToken, DropSchedule, DeleteCheck, TableInv, TableTypes
  <2>4. TableTypes'
    BY <1>2, <1>3, <1>5, <2>3 DEF TableInv, TableTypes
  <2>5. gone \subseteq Ids /\ gone' \subseteq 1..issued /\ gone' \subseteq gone \cup {id}
        /\ overlapped \subseteq overlapped'
    <3>1. gone \subseteq Ids /\ gone \subseteq 1..issued
      BY IdsBound DEF TableInv, TableTypes, Fresh, Ids
    <3>2. gone' \subseteq gone \cup {id} /\ overlapped \subseteq overlapped'
      BY <1>7
    <3> QED
      BY <1>1, <3>1, <3>2
  <2>6. \A d \in Requests : h[d].pc = "save" => h[d].id \in Ids
    BY IdsBound DEF TableInv, TableTypes, Ids
  <2>7. id \in gone' /\ id \notin gone => schedules'[id] = NoRow
    BY <1>7, <2>3 DEF TableInv, Fresh
  <2>8. Fresh'
    <3>1. RevivedOnlyByOverlap'
      BY <2>3, <2>5, <2>7 DEF TableInv, Fresh, RevivedOnlyByOverlap
    <3>2. \A d \in Requests :
              topic = "schedule" /\ h[d].pc = "save" /\ h[d].op # "update" =>
                 schedules'[h[d].id] = NoRow /\ h[d].id \notin gone'
      BY <1>7, <2>3, <2>6 DEF TableInv, Fresh
    <3>3. \A d \in Requests :
              h[d].pc = "save" /\ h[d].op = "update" /\ h[d].id \in gone' =>
                 h[d].id \in overlapped'
      BY <1>7, <2>5 DEF TableInv, Fresh
    <3>4. \A i \in Ids : schedules'[i] # NoRow => topic = "schedule" /\ i <= issued
      BY <2>3 DEF TableInv, Fresh
    <3> QED
      BY <1>2, <1>3, <1>5, <2>5, <3>1, <3>2, <3>3, <3>4 DEF TableInv, Fresh
  <2>9. Agree'
    <3>1. ColumnsAgree'
      BY <2>3 DEF TableInv, Agree, ColumnsAgree
    <3>2. \A d \in Requests : h[d].pc = "save" /\ h[d].op = "update" =>
              (schedules'[h[d].id] # NoRow =>
                  schedules'[h[d].id].created = h[d].doc.created)
      BY <2>3, <2>6 DEF TableInv, Agree
    <3> QED
      BY <1>3, <1>5, <3>1, <3>2 DEF TableInv, Agree
  <2> QED
    BY <2>2, <2>4, <2>8, <2>9 DEF TableInv
<1> QED
  BY <1>1, <1>6, <1>7 DEF Delete

-----------------------------------------------------------------------------
(* Answers, and the end of the process.                                    *)

(* A handler returns: what it reports as created is there.                 *)
LEMMA ReturnKeeps ==
  ASSUME TableInv, NEW c \in Requests, ListHistory(c) \/ Answer(c)
  PROVE  TableInv'
<1>1. Idle \in Handlers /\ Idle.pc = "idle"
  BY HandlersTyped DEF Idle, Handler
<1>2. CASE ListHistory(c)
  <2>1. UNCHANGED <<topic, rows, now, issued, acked, doomed, gone, overlapped>>
        /\ h' = [h EXCEPT ![c] = Idle]
    <3>1. UNCHANGED <<topic, rows, now, issued, ghosts>> /\ h' = [h EXCEPT ![c] = Idle]
      BY <1>2, Zenon DEF ListHistory
    <3> QED
      BY <3>1 DEF ghosts
  <2>2. AckedOK'
    BY <2>1, AckedStays DEF TableInv, Kept
  <2> QED
    BY <1>1, <2>1, <2>2, QuietMove
<1>3. CASE Answer(c)
  <2>1. UNCHANGED <<topic, rows, now, issued, doomed, gone, overlapped>>
        /\ h' = [h EXCEPT ![c] = Idle] /\ h[c].pc = "reply"
        /\ acked' = acked \cup ({h[c].id} \ {NoId})
    BY <1>3 DEF Answer
  <2>2. AckedOK'
    <3>1. \A i : Present(i)' <=> Present(i)
      BY <2>1 DEF Present, rows
    <3>2. h[c].id # NoId => h[c].id \in Ids /\ (h[c].id \in doomed \/ Present(h[c].id))
      BY <2>1 DEF TableInv, TableTypes, Kept, Handlers
    <3>3. acked' \subseteq Ids
      BY <2>1, <3>2 DEF TableInv, Kept, AckedOK
    <3>4. \A i \in acked' \ doomed' : Present(i)'
      BY <2>1, <3>1, <3>2 DEF TableInv, Kept, AckedOK, AckedKept
    <3> QED
      BY <3>3, <3>4 DEF AckedOK, AckedKept
  <2> QED
    BY <1>1, <2>1, <2>2, QuietMove
<1> QED
  BY <1>2, <1>3

(* The tables outlive the process.                                         *)
LEMMA GoneKeeps ==
  ASSUME TableInv, Gone
  PROVE  TableInv'
<1>1. Idle \in Handlers /\ Idle.pc = "idle"
  BY HandlersTyped DEF Idle, Handler
<1>2. UNCHANGED <<topic, tokens, schedules, checks, now, issued, acked, doomed, gone,
                  overlapped>>
      /\ h' \in [Requests -> Handlers] /\ \A c \in Requests : h'[c].pc = "idle"
  BY <1>1 DEF Gone, rows, ghosts
<1>3. TableTypes'
  BY <1>2 DEF TableInv, TableTypes
<1>4. AckedOK'
  BY <1>2, AckedStays DEF TableInv, Kept, rows
<1>5. Kept'
  BY <1>2, <1>4 DEF Kept
<1>6. Fresh'
  BY <1>2 DEF TableInv, Fresh, RevivedOnlyByOverlap
<1>7. Agree'
  BY <1>2 DEF TableInv, Agree, ColumnsAgree
<1> QED
  BY <1>3, <1>5, <1>6, <1>7 DEF TableInv

(* Steps of the process and of the clock touch no table.                   *)
LEMMA TablesUntouched ==
  ASSUME TableInv, UNCHANGED <<topic, rows, h, issued, ghosts>>, now' \in Times
  PROVE  TableInv'
<1>1. UNCHANGED <<topic, tokens, schedules, checks, h, issued, acked, doomed, gone,
                  overlapped>>
  BY DEF rows, ghosts
<1>2. TableTypes'
  BY <1>1 DEF TableInv, TableTypes
<1>3. \A i : Present(i)' <=> Present(i)
  BY <1>1 DEF Present
<1>4. Kept'
  BY <1>1, <1>3 DEF TableInv, Kept, AckedOK, AckedKept
<1>5. Fresh'
  BY <1>1 DEF TableInv, Fresh, RevivedOnlyByOverlap
<1>6. Agree'
  BY <1>1 DEF TableInv, Agree, ColumnsAgree
<1> QED
  BY <1>2, <1>4, <1>5, <1>6 DEF TableInv

(* Every step preserves the invariant.                                     *)
LEMMA TablesStep ==
  ASSUME TableInv, [Next]_vars
  PROVE  TableInv'
<1>1. CASE Advances /\ UNCHANGED tableVars
  BY <1>1, TablesUntouched DEF tableVars, TableInv, TableTypes
<1>2. CASE Gone
  BY <1>2, GoneKeeps
<1>3. ASSUME NEW c \in Requests, Arrives(c) PROVE TableInv'
  <2>1. CASE Refuse(c) \/ BeginDelete(c) \/ UpdateSchedule(c) \/ AskPage(c)
    BY <2>1, ArrivesQuietly
  <2>2. CASE BeginNew(c, "save", "create")
    BY <2>2, ArrivesNew
  <2>3. CASE StreamCheck(c)
    BY <2>3, ArrivesNew DEF StreamCheck
  <2> QED
    BY <1>3, <2>1, <2>2, <2>3
    DEF Arrives, Refuse, CreateToken, DeleteToken, CreateSchedule, DeleteSchedule, PostCheck,
        DeleteHistory
<1>4. ASSUME NEW c \in Requests, Handles(c) PROVE TableInv'
  BY <1>4, UpgradeKeeps, LoadScheduleKeeps, SaveKeeps, DeleteKeeps, ReturnKeeps
  DEF Handles
<1>5. CASE Tick
  <2>1. now' \in Times
    BY <1>5, TimeAssumption DEF Tick, TableInv, TableTypes, Times
  <2> QED
    BY <1>5, <2>1, TablesUntouched DEF Tick
<1>6. CASE UNCHANGED vars
  BY <1>6, TablesUntouched DEF vars, tableVars, TableInv, TableTypes
<1> QED
  BY <1>1, <1>2, <1>3, <1>4, <1>5, <1>6 DEF Next

(* The invariant of the tables.                                            *)
LEMMA TableInvariant == Spec => []TableInv
<1>1. Init => TableInv
  BY TablesInit
<1>2. TableInv /\ [Next]_vars => TableInv'
  BY TablesStep
<1> QED
  BY <1>1, <1>2, PTL DEF Spec

-----------------------------------------------------------------------------
(* Theorems.                                                               *)

(* A token, schedule or check whose creation was answered with success is  *)
(* in its table until somebody asks to delete it, for any number of        *)
(* concurrent requests, failed statements, shutdowns, crashes and          *)
(* restarts.                                                               *)
THEOREM AckedRowsKept == Spec => []AckedKept
<1>1. TableInv => AckedKept
  BY DEF TableInv, Kept, AckedOK
<1> QED
  BY <1>1, TableInvariant, PTL

(* UpdateSchedule brings a deleted schedule back only when it had read it  *)
(* before the deletion and saves it after it.                              *)
THEOREM DeletedSchedulesStayGone == Spec => []RevivedOnlyByOverlap
<1>1. TableInv => RevivedOnlyByOverlap
  BY DEF TableInv, Fresh
<1> QED
  BY <1>1, TableInvariant, PTL

(* The column that ListSchedules orders by is the creation time in the     *)
(* document, whatever updates and deletions overlap.                       *)
THEOREM ScheduleColumnsAgree == Spec => []ColumnsAgree
<1>1. TableInv => ColumnsAgree
  BY DEF TableInv, Agree
<1> QED
  BY <1>1, TableInvariant, PTL

-----------------------------------------------------------------------------
(* The history, read page by page.                                         *)

Less == {pair \in Nat \X Nat : pair[1] < pair[2]}

(* The least element of a non-empty set of natural numbers.                *)
LEMMA LeastElement ==
  ASSUME NEW T \in SUBSET Nat, T # {}
  PROVE  \E x \in T : \A y \in T : x <= y
<1>1. IsWellFoundedOn(Less, Nat)
  BY NatLessThanWellFounded DEF OpToRel, Less
<1>2. PICK x \in T : \A y \in T : ~ (<<y, x>> \in Less)
  BY <1>1, WFMin
<1>3. ASSUME NEW y \in T PROVE x <= y
  <2>1. ~ (<<y, x>> \in Less)
    BY <1>2
  <2>2. x \in Nat /\ y \in Nat
    OBVIOUS
  <2> QED
    BY <2>1, <2>2 DEF Less
<1> QED
  BY <1>3

(* The largest element of a bounded set: what Max chooses is there.        *)
LEMMA MaxElement ==
  ASSUME NEW n \in Nat, NEW S \in SUBSET (0..n), S # {}
  PROVE  Max(S) \in S /\ \A y \in S : y <= Max(S)
<1> DEFINE U == {u \in Nat : \A y \in S : y <= u}
<1>1. n \in U
  OBVIOUS
<1>2. PICK u \in U : \A v \in U : u <= v
  <2>1. U \in SUBSET Nat /\ U # {}
    BY <1>1
  <2> HIDE DEF U
  <2> QED
    BY <2>1, LeastElement
<1>3. u \in Nat /\ \A y \in S : y \in Nat /\ y <= u
  OBVIOUS
<1>4. u \in S
  <2> SUFFICES ASSUME u \notin S PROVE FALSE
    OBVIOUS
  <2>1. \A y \in S : y <= u - 1
    BY <1>3
  <2>2. u - 1 \in Nat
    <3>1. PICK y \in S : TRUE
      OBVIOUS
    <3>2. y \in Nat /\ y <= u - 1
      BY <1>3, <2>1
    <3> QED
      BY <1>3, <3>2
  <2>3. u - 1 \in U
    BY <2>1, <2>2
  <2> QED
    BY <1>2, <1>3, <2>3
<1>5. \E x \in S : \A y \in S : x >= y
  BY <1>3, <1>4
<1>6. Max(S) = CHOOSE x \in S : \A y \in S : x >= y
  BY DEF Max
<1>7. Max(S) \in S /\ \A y \in S : Max(S) >= y
  BY <1>5, <1>6
<1>8. \A y \in S : y \in Nat
  OBVIOUS
<1> QED
  BY <1>7, <1>8

\* Rows in an order: no two of them share their row number.
Ordered(R) ==
    /\ IsFiniteSet(R)
    /\ \A k \in R : k.created \in Nat /\ k.rowid \in Nat
    /\ \A j, k \in R : j.rowid = k.rowid => j = k

Ahead(R, k) == {j \in R : Newer(j, k)}

\* The place of a row in the history, counted from 0.
Rank(R, k) == Cardinality(Ahead(R, k))

(* Whichever row is ahead of another, so are the rows ahead of it.         *)
LEMMA AheadOrder ==
  ASSUME NEW R, Ordered(R)
  PROVE  /\ \A k \in R : k \notin Ahead(R, k)
         /\ \A j, k \in R : j = k \/ j \in Ahead(R, k) \/ k \in Ahead(R, j)
         /\ \A j, k \in R : j \in Ahead(R, k) => Ahead(R, j) \in SUBSET Ahead(R, k)
<1>1. \A k \in R : k.created \in Nat /\ k.rowid \in Nat
  BY DEF Ordered
<1>2. \A j, k \in R : j.rowid = k.rowid => j = k
  BY DEF Ordered
<1>3. ASSUME NEW k \in R PROVE k \notin Ahead(R, k)
  BY <1>1 DEF Ahead, Newer
<1>4. ASSUME NEW j \in R, NEW k \in R PROVE j = k \/ j \in Ahead(R, k) \/ k \in Ahead(R, j)
  BY <1>1, <1>2 DEF Ahead, Newer
<1>5. ASSUME NEW j \in R, NEW k \in R, j \in Ahead(R, k), NEW i \in Ahead(R, j)
      PROVE  i \in Ahead(R, k)
  <2>1. i \in R /\ Newer(i, j) /\ Newer(j, k)
    BY <1>5 DEF Ahead
  <2>2. Newer(i, k)
    BY <1>1, <2>1 DEF Newer
  <2> QED
    BY <2>1, <2>2 DEF Ahead
<1> QED
  BY <1>3, <1>4, <1>5

(* Ranks are places: rows ahead rank lower, no two rows rank the same, and *)
(* no row ranks behind all of them.                                        *)
LEMMA Ranks ==
  ASSUME NEW R, Ordered(R)
  PROVE  /\ \A k \in R : Rank(R, k) \in Nat /\ Rank(R, k) < Cardinality(R)
         /\ \A j, k \in R : j \in Ahead(R, k) => Rank(R, j) < Rank(R, k)
         /\ \A j, k \in R : Rank(R, j) = Rank(R, k) => j = k
<1>1. IsFiniteSet(R) /\ Cardinality(R) \in Nat
  BY FS_CardinalityType DEF Ordered
<1>2. \A k : Ahead(R, k) \in SUBSET R
  BY DEF Ahead
<1>3. \A k : IsFiniteSet(Ahead(R, k)) /\ Rank(R, k) \in Nat
  BY <1>1, <1>2, FS_Subset, FS_CardinalityType DEF Rank
<1>4. ASSUME NEW k \in R PROVE Rank(R, k) < Cardinality(R)
  <2>1. Ahead(R, k) # R
    BY AheadOrder
  <2>2. Cardinality(Ahead(R, k)) <= Cardinality(R) /\ Cardinality(R) # Cardinality(Ahead(R, k))
    BY <1>1, <1>2, <2>1, FS_Subset
  <2> QED
    BY <2>2, <1>1, <1>3 DEF Rank
<1>5. ASSUME NEW j \in R, NEW k \in R, j \in Ahead(R, k) PROVE Rank(R, j) < Rank(R, k)
  <2>1. Ahead(R, j) \in SUBSET Ahead(R, k) /\ Ahead(R, k) # Ahead(R, j)
    BY <1>5, AheadOrder
  <2>2. Cardinality(Ahead(R, j)) <= Cardinality(Ahead(R, k))
        /\ Cardinality(Ahead(R, k)) # Cardinality(Ahead(R, j))
    BY <1>3, <2>1, FS_Subset
  <2> QED
    BY <2>2, <1>3 DEF Rank
<1>6. ASSUME NEW j \in R, NEW k \in R, Rank(R, j) = Rank(R, k) PROVE j = k
  BY <1>3, <1>5, <1>6, AheadOrder
<1> QED
  BY <1>3, <1>4, <1>5, <1>6

(* No more rows fit between two places than there are places.              *)
LEMMA RowsBetween ==
  ASSUME NEW R, Ordered(R), NEW P \in SUBSET R, NEW a \in Nat, NEW b \in Nat, a <= b,
         \A k \in P : Rank(R, k) \in a..(b - 1)
  PROVE  IsFiniteSet(P) /\ Cardinality(P) \in Nat /\ Cardinality(P) <= b - a
<1> DEFINE f == [k \in P |-> Rank(R, k)]
<1>1. f \in [P -> a..(b - 1)]
  OBVIOUS
<1>2. \A j, k \in P : f[j] = f[k] => j = k
  BY Ranks
<1> HIDE DEF f
<1>3. f \in Injection(P, a..(b - 1))
  BY <1>1, <1>2, Fun_IsInj
<1>4. IsFiniteSet(a..(b - 1)) /\ Cardinality(a..(b - 1)) = b - a
  <2>1. b - 1 \in Int /\ a \in Int
    OBVIOUS
  <2>2. IsFiniteSet(a..(b - 1))
        /\ Cardinality(a..(b - 1)) = IF a > b - 1 THEN 0 ELSE (b - 1) - a + 1
    BY ONLY <2>1, FS_Interval
  <2> QED
    BY <2>2
<1>5. IsFiniteSet(P) /\ Cardinality(P) <= Cardinality(a..(b - 1))
  BY <1>3, <1>4, FS_Injection
<1> QED
  BY <1>4, <1>5, FS_CardinalityType

(* There is no gap before a row: up to its own place, every place is       *)
(* taken.                                                                  *)
LEMMA NoGap ==
  ASSUME NEW R, Ordered(R), NEW k \in R, NEW n \in Nat, n <= Rank(R, k)
  PROVE  \E m \in R : Rank(R, m) = n
<1> DEFINE T == {r \in Nat : n <= r /\ \E m \in R : Rank(R, m) = r}
<1>1. Rank(R, k) \in T
  BY Ranks
<1>2. PICK r \in T : \A y \in T : r <= y
  <2>1. T \in SUBSET Nat /\ T # {}
    BY <1>1
  <2> HIDE DEF T
  <2> QED
    BY <2>1, LeastElement
<1>3. PICK m \in R : Rank(R, m) = r
  OBVIOUS
<1>4. \A j \in Ahead(R, m) : Rank(R, j) \in 0..(n - 1)
  <2> SUFFICES ASSUME NEW j \in Ahead(R, m) PROVE Rank(R, j) \in 0..(n - 1)
    OBVIOUS
  <2>1. j \in R
    BY DEF Ahead
  <2>2. Rank(R, j) \in Nat /\ Rank(R, j) < r
    BY <1>3, <2>1, Ranks
  <2>3. Rank(R, j) \notin T
    BY <1>2, <2>2
  <2> QED
    BY <2>1, <2>2, <2>3
<1>5. Ahead(R, m) \in SUBSET R
  BY DEF Ahead
<1>6. Cardinality(Ahead(R, m)) <= n - 0
  BY <1>4, <1>5, RowsBetween
<1>7. r <= n
  BY <1>3, <1>6 DEF Rank
<1>8. r = n
  BY <1>2, <1>7
<1> QED
  BY <1>3, <1>8

Writing(c) == h[c].pc \in {"save", "upgrade"}

\* Ids of rows that a handler is about to insert.
Pending == {id \in 1..issued : \E c \in Requests : Writing(c) /\ h[c].id = id}

\* Ids whose rows were inserted, or will never be.
Settled == 1..issued \ Pending

\* A check is inserted once, under the next row number: there are no more numbers than
\* ids that are settled.
CheckRows ==
    /\ \A k \in checks : /\ k \in [id : 1..issued, created : Times, rowid : Nat \ {0}]
                         /\ k.rowid <= Cardinality(Settled)
    /\ \A j, k \in checks : j.id = k.id \/ j.rowid = k.rowid => j = k
    /\ topic \notin {"check", "history"} => checks = {}
    /\ topic \in {"check", "history"} => \A c \in Requests : Writing(c) =>
          /\ \A k \in checks : k.id # h[c].id
          /\ \A d \in Requests \ {c} : Writing(d) => h[d].id # h[c].id

OtherRows == tokens \subseteq Ids /\ doomed \subseteq Ids /\ overlapped \subseteq Ids

\* What the reader has still to see lies behind its offset.
Reading ==
    /\ reader \in [pc : {"ready", "waiting", "done"}, offset : Nat,
                   base : SUBSET Ids, seen : SUBSET Ids]
    /\ topic # "history" => reader = NewReader /\ \A c \in Requests : h[c].pc # "list"
    /\ reader.offset <= Cardinality(checks)
    /\ reader.seen = {} => reader.offset = 0
    /\ \A id \in reader.base \ reader.seen :
          \E k \in checks : k.id = id /\ reader.offset <= Rank(checks, k)
    /\ PagedAll

(* Ids are finitely many.                                                  *)
LEMMA SomeIds ==
  ASSUME NEW n \in Nat, NEW S \in SUBSET (1..n)
  PROVE  IsFiniteSet(S) /\ Cardinality(S) \in Nat /\ Cardinality(S) <= n
<1>1. IsFiniteSet(1..n) /\ Cardinality(1..n) = n
  BY FS_Interval
<1> QED
  BY <1>1, FS_Subset, FS_CardinalityType

(* The rows of the history are in an order, and no more than the ids.      *)
LEMMA RowsOrdered ==
  ASSUME NEW n \in Nat, NEW R,
         \A k \in R : k \in [id : 1..n, created : Times, rowid : Nat \ {0}],
         \A j, k \in R : j.id = k.id \/ j.rowid = k.rowid => j = k
  PROVE  Ordered(R) /\ Cardinality(R) \in Nat /\ Cardinality(R) <= n
<1> DEFINE f == [k \in R |-> k.id]
<1>1. f \in [R -> 1..n] /\ \A j, k \in R : f[j] = f[k] => j = k
  OBVIOUS
<1> HIDE DEF f
<1>2. f \in Injection(R, 1..n)
  BY <1>1, Fun_IsInj
<1>3. IsFiniteSet(1..n) /\ Cardinality(1..n) = n
  BY FS_Interval
<1>4. IsFiniteSet(R) /\ Cardinality(R) <= n
  BY <1>2, <1>3, FS_Injection
<1>5. \A k \in R : k.created \in Nat /\ k.rowid \in Nat
  BY TimeAssumption DEF Times
<1>6. Ordered(R)
  BY <1>4, <1>5 DEF Ordered
<1> QED
  BY <1>4, <1>6, FS_CardinalityType

LEMMA ChecksOrdered ==
  ASSUME CheckRows, issued \in Nat
  PROVE  Ordered(checks) /\ Cardinality(checks) \in Nat /\ Cardinality(checks) <= issued
BY RowsOrdered DEF CheckRows

(* The old rows that the database held are numbered like their ids.        *)
LEMMA HistoryInit == Init => CheckRows /\ OtherRows /\ Reading
<1> SUFFICES ASSUME Init PROVE CheckRows /\ OtherRows /\ Reading
  OBVIOUS
<1>1. issued \in Nat /\ issued <= MaxId /\ MaxId \in Nat /\ topic \in Topics
  BY IdsBound DEF Init
<1>2. \A c \in Requests : h[c].pc = "idle"
  BY DEF Init, Idle, Handler
<1>3. Pending = {}
  BY <1>2 DEF Pending, Writing
<1>4. Settled = 1..issued
  BY <1>3 DEF Settled
<1>5. Cardinality(Settled) = issued
  BY <1>1, <1>4, FS_Interval
<1>6. \A k \in checks : k \in [id : 1..issued, created : Times, rowid : Nat \ {0}]
                        /\ k.rowid <= issued /\ k.created = 0 /\ k.rowid = k.id
  <2> SUFFICES ASSUME NEW k \in checks
               PROVE  /\ k \in [id : 1..issued, created : Times, rowid : Nat \ {0}]
                      /\ k.rowid <= issued /\ k.created = 0 /\ k.rowid = k.id
    OBVIOUS
  <2>1. k \in [id : 1..issued, created : {0}, rowid : 1..issued]
        /\ k \in {[id |-> i, created |-> 0, rowid |-> i] : i \in Ids}
    BY DEF Init
  <2>2. 0 \in Times
    BY TimeAssumption DEF Times
  <2> QED
    BY <1>1, <2>1, <2>2
<1>7. \A j, k \in checks : j.id = k.id \/ j.rowid = k.rowid => j = k
  BY <1>6
<1>8. topic \notin {"check", "history"} => checks = {}
  BY DEF Init
<1>9. CheckRows
  BY <1>2, <1>5, <1>6, <1>7, <1>8 DEF CheckRows, Writing
<1>10. OtherRows
  BY <1>1 DEF Init, OtherRows, Ids
<1>11. reader = NewReader
  BY DEF Init
<1>12. Cardinality(checks) \in Nat
  BY <1>1, <1>9, ChecksOrdered
<1>13. Reading
  BY <1>2, <1>11, <1>12 DEF Reading, NewReader, PagedAll
<1> QED
  BY <1>9, <1>10, <1>13

(* Rows are only removed, handlers only stop writing.                      *)
LEMMA FewerWriters ==
  ASSUME CheckRows, issued \in Nat, UNCHANGED <<topic, issued>>,
         \A k \in checks' : k \in checks,
         topic \in {"check", "history"} =>
            \A c \in Requests : Writing(c)' => Writing(c) /\ h'[c].id = h[c].id
  PROVE  CheckRows'
<1>1. CASE topic \in {"check", "history"}
  <2>1. Settled \in SUBSET Settled'
    BY <1>1 DEF Settled, Pending
  <2>2. IsFiniteSet(Settled)' /\ issued' \in Nat /\ Cardinality(Settled)' \in Nat
        /\ Cardinality(Settled) \in Nat
    <3>1. issued' \in Nat /\ Settled' \in SUBSET (1..issued') /\ Settled \in SUBSET (1..issued)
      BY DEF Settled
    <3> QED
      BY <3>1, SomeIds
  <2>3. Cardinality(Settled) <= Cardinality(Settled')
    BY <2>1, <2>2, FS_Subset
  <2>4. \A k \in checks' : /\ k \in [id : 1..issued, created : Times, rowid : Nat \ {0}]
                           /\ k.rowid <= Cardinality(Settled')
    <3> SUFFICES ASSUME NEW k \in checks'
                 PROVE  /\ k \in [id : 1..issued, created : Times, rowid : Nat \ {0}]
                        /\ k.rowid <= Cardinality(Settled')
      OBVIOUS
    <3>1. k \in [id : 1..issued, created : Times, rowid : Nat \ {0}]
          /\ k.rowid <= Cardinality(Settled)
      BY DEF CheckRows
    <3>2. k.rowid \in Nat
      BY <3>1
    <3> QED
      BY <2>2, <2>3, <3>1, <3>2
  <2> QED
    BY <1>1, <2>4 DEF CheckRows
<1>2. CASE topic \notin {"check", "history"}
  <2>1. checks = {} /\ checks' = {}
    BY <1>2 DEF CheckRows
  <2> QED
    BY <1>2, <2>1 DEF CheckRows
<1> QED
  BY <1>1, <1>2

(* A new id is pending: what was settled still is.                         *)
LEMMA NewWriter ==
  ASSUME TableInv, CheckRows, NEW c \in Requests, NEW pc \in {"save", "upgrade"},
         NEW op, BeginNew(c, pc, op)
  PROVE  CheckRows'
<1> DEFINE v == Handler(pc, op, issued + 1, Doc(now, now))
<1>1. /\ issued \in Nat /\ issued' = issued + 1
      /\ UNCHANGED <<topic, checks>> /\ h' = [h EXCEPT ![c] = v]
  BY DEF TableInv, TableTypes, BeginNew, Begin, rows
<1>2. v.pc = pc /\ v.id = issued + 1
  BY DEF Handler
<1> HIDE DEF v
<1>3. h'[c] = v /\ \A d \in Requests \ {c} : h'[d] = h[d]
  BY <1>1 DEF TableInv, TableTypes
<1>4. \A d \in Requests : Writing(d) => h[d].id \in 1..issued
  BY DEF Writing, TableInv, TableTypes
<1>5. Settled \in SUBSET Settled'
  <2> SUFFICES ASSUME NEW id \in Settled PROVE id \in Settled'
    OBVIOUS
  <2>1. id \in 1..issued /\ id \notin Pending
    BY DEF Settled
  <2>2. id \in 1..issued' /\ id # issued + 1
    BY <1>1, <2>1
  <2>3. \A d \in Requests : ~(Writing(d)' /\ h'[d].id = id)
    BY <1>2, <1>3, <2>1, <2>2 DEF Pending, Writing
  <2> QED
    BY <2>2, <2>3 DEF Settled, Pending
<1>6. IsFiniteSet(Settled') /\ Cardinality(Settled') \in Nat /\ Cardinality(Settled) \in Nat
  <2>1. Settled \in SUBSET (1..issued) /\ Settled' \in SUBSET (1..issued') /\ issued' \in Nat
    BY <1>1 DEF Settled
  <2> QED
    BY <1>1, <2>1, SomeIds
<1>7. Cardinality(Settled) <= Cardinality(Settled')
  BY <1>5, <1>6, FS_Subset
<1>8. \A k \in checks : /\ k \in [id : 1..issued', created : Times, rowid : Nat \ {0}]
                        /\ k.rowid <= Cardinality(Settled') /\ k.id # issued + 1
  <2> SUFFICES ASSUME NEW k \in checks
               PROVE  /\ k \in [id : 1..issued', created : Times, rowid : Nat \ {0}]
                      /\ k.rowid <= Cardinality(Settled') /\ k.id # issued + 1
    OBVIOUS
  <2>1. k \in [id : 1..issued, created : Times, rowid : Nat \ {0}]
        /\ k.rowid <= Cardinality(Settled)
    BY DEF CheckRows
  <2>2. k.rowid \in Nat /\ k.id \in 1..issued
    BY <2>1
  <2>3. 1..issued \subseteq 1..issued'
    BY <1>1
  <2> QED
    BY <1>1, <1>6, <1>7, <2>1, <2>2, <2>3
<1>9. \A d \in Requests \ {c} : Writing(d)' => Writing(d) /\ h'[d].id = h[d].id
                                               /\ h[d].id # issued + 1
  BY <1>1, <1>3, <1>4 DEF Writing
<1>10. h'[c].id = issued + 1
  BY <1>2, <1>3
<1>11. topic \in {"check", "history"} => \A d \in Requests : Writing(d)' =>
          /\ \A k \in checks : k.id # h'[d].id
          /\ \A e \in Requests \ {d} : Writing(e)' => h'[e].id # h'[d].id
  BY <1>8, <1>9, <1>10 DEF CheckRows
<1> QED
  BY <1>1, <1>8, <1>11 DEF CheckRows

(* The row of a check is added under the next row number, and its id is    *)
(* settled.                                                                *)
LEMMA RowSaved ==
  ASSUME TableInv, CheckRows, NEW c \in Requests, Save(c),
         topic \in {"check", "history"}, SaveCheck(h[c].id, h[c].doc),
         NEW v, v.pc = "reply", h' = [h EXCEPT ![c] = v]
  PROVE  CheckRows' /\ checks \in SUBSET checks'
<1>1. PICK id \in 1..issued, doc \in Docs : id = h[c].id /\ doc = h[c].doc
  BY DEF TableInv, TableTypes, Save, Handlers
<1>2. issued \in Nat /\ UNCHANGED <<topic, issued>> /\ Writing(c)
  BY DEF TableInv, TableTypes, Save, Writing
<1>3. h'[c] = v /\ \A d \in Requests \ {c} : h'[d] = h[d]
  BY DEF TableInv, TableTypes
<1>4. \A k \in checks : k.id # id
  BY <1>1, <1>2 DEF CheckRows
<1> DEFINE S == {0} \cup {k.rowid : k \in checks}
           n == Cardinality(Settled)
           new == [id |-> id, created |-> doc.created, rowid |-> Max(S) + 1]
<1>5. checks' = checks \cup {new}
  <2>1. {k \in checks : k.id # id} = checks
    BY <1>4
  <2> QED
    BY <1>1, <2>1 DEF SaveCheck
<1>6. Settled \in SUBSET (1..issued) /\ n \in Nat /\ IsFiniteSet(Settled)
  <2>1. Settled \in SUBSET (1..issued)
    BY DEF Settled
  <2> QED
    BY <1>2, <2>1, SomeIds
<1>7. \A k \in checks : k.rowid \in Nat \ {0} /\ k.rowid <= n
  BY DEF CheckRows
<1>8. Max(S) \in 0..n /\ \A k \in checks : k.rowid <= Max(S)
  <2>1. S \in SUBSET (0..n) /\ S # {}
    BY <1>6, <1>7
  <2>2. \A k \in checks : k.rowid \in S
    OBVIOUS
  <2> HIDE DEF S, n
  <2>3. Max(S) \in S /\ \A y \in S : y <= Max(S)
    BY <1>6, <2>1, MaxElement
  <2> QED
    BY <2>1, <2>2, <2>3
<1> HIDE DEF S
<1>9. n + 1 <= Cardinality(Settled')
  <2>1. \A d \in Requests : Writing(d)' => d # c /\ Writing(d) /\ h'[d].id = h[d].id
    BY <1>3 DEF Writing
  <2>2. \A d \in Requests \ {c} : Writing(d) => h[d].id # id
    BY <1>1, <1>2 DEF CheckRows
  <2>3. id \notin Settled
    BY <1>1, <1>2 DEF Settled, Pending
  <2>4. \A i \in Settled : i \in Settled'
    BY <1>2, <2>1 DEF Settled, Pending
  <2>5. id \in Settled'
    BY <1>1, <1>2, <2>1, <2>2 DEF Settled, Pending
  <2>6. Settled \cup {id} \in SUBSET Settled'
    BY <2>4, <2>5
  <2>7. Cardinality(Settled \cup {id}) = n + 1
    BY <1>6, <2>3, FS_AddElement
  <2>8. Settled' \in SUBSET (1..issued')
    BY DEF Settled
  <2>9. IsFiniteSet(Settled')
    BY <1>2, <2>8, SomeIds
  <2> QED
    BY <2>6, <2>7, <2>9, FS_Subset
<1>10. Cardinality(Settled') \in Nat
  <2>1. Settled' \in SUBSET (1..issued') /\ issued' \in Nat
    BY <1>2 DEF Settled
  <2> QED
    BY <2>1, SomeIds
<1>11. new \in [id : 1..issued, created : Times, rowid : Nat \ {0}]
       /\ new.id = id /\ new.rowid = Max(S) + 1
  BY <1>6, <1>8 DEF Docs
<1> HIDE DEF new, n
<1>12. \A k \in checks' : /\ k \in [id : 1..issued, created : Times, rowid : Nat \ {0}]
                          /\ k.rowid <= Cardinality(Settled')
  <2>1. new.rowid <= Cardinality(Settled')
    BY <1>6, <1>8, <1>9, <1>10, <1>11
  <2>2. \A k \in checks : k.rowid <= Cardinality(Settled')
    BY <1>6, <1>7, <1>9, <1>10
  <2> QED
    BY <1>5, <1>11, <2>1, <2>2 DEF CheckRows
<1>13. \A k \in checks : k.id # new.id /\ k.rowid # new.rowid
  BY <1>4, <1>6, <1>7, <1>8, <1>11
<1>14. \A j, k \in checks' : j.id = k.id \/ j.rowid = k.rowid => j = k
  BY <1>5, <1>13 DEF CheckRows
<1>15. \A d \in Requests : Writing(d)' =>
          /\ \A k \in checks' : k.id # h'[d].id
          /\ \A e \in Requests \ {d} : Writing(e)' => h'[e].id # h'[d].id
  <2>1. \A d \in Requests : Writing(d)' => d # c /\ Writing(d) /\ h'[d].id = h[d].id
    BY <1>3 DEF Writing
  <2>2. \A d \in Requests \ {c} : Writing(d) => h[d].id # id
    BY <1>1, <1>2 DEF CheckRows
  <2> QED
    BY <1>5, <1>11, <2>1, <2>2 DEF CheckRows
<1> QED
  BY <1>2, <1>5, <1>12, <1>14, <1>15 DEF CheckRows

(* Handlers that stop writing, or never did, and rows that only go.        *)
LEMMA StopsWriting ==
  ASSUME TableInv, CheckRows, NEW c \in Requests, NEW v, h' = [h EXCEPT ![c] = v],
         UNCHANGED <<topic, issued>>, \A k \in checks' : k \in checks,
         v.pc \notin {"save", "upgrade"}
  PROVE  CheckRows'
<1>1. h'[c] = v /\ \A d \in Requests \ {c} : h'[d] = h[d]
  BY DEF TableInv, TableTypes
<1>2. \A d \in Requests : Writing(d)' => Writing(d) /\ h'[d].id = h[d].id
  BY <1>1 DEF Writing
<1>3. issued \in Nat
  BY DEF TableInv, TableTypes
<1> QED
  BY <1>2, <1>3, FewerWriters

(* Every step keeps the rows of the checks numbered.                       *)
LEMMA CheckRowsStep ==
  ASSUME TableInv, CheckRows, [Next]_vars
  PROVE  CheckRows'
<1>0. issued \in Nat
  BY DEF TableInv, TableTypes
<1>1. CASE UNCHANGED <<topic, rows, h, issued>>
  <2>1. \A c \in Requests : Writing(c)' => Writing(c) /\ h'[c].id = h[c].id
    BY <1>1 DEF Writing
  <2> QED
    BY <1>0, <1>1, <2>1, FewerWriters DEF rows
<1>2. CASE Gone
  <2>1. UNCHANGED <<topic, checks, issued>> /\ \A c \in Requests : h'[c].pc = "idle"
    BY <1>2 DEF Gone, rows, Idle, Handler
  <2>2. \A c \in Requests : ~Writing(c)'
    BY <2>1 DEF Writing
  <2> QED
    BY <1>0, <2>1, <2>2, FewerWriters
<1>3. ASSUME NEW c \in Requests, Arrives(c) PROVE CheckRows'
  <2>1. CASE Refuse(c)
    <3>1. Handler("reply", "none", NoId, Doc(0, 0)).pc = "reply"
      BY DEF Handler
    <3> QED
      BY <2>1, <3>1, StopsWriting DEF Refuse, AnswerOnly, Begin, rows
  <2>2. CASE BeginDelete(c)
    <3>1. PICK id \in 1..issued : Begin(c, Handler("delete", "delete", id, Doc(0, 0)))
      BY <2>2 DEF BeginDelete
    <3>2. Handler("delete", "delete", id, Doc(0, 0)).pc = "delete"
      BY DEF Handler
    <3>3. UNCHANGED <<topic, checks, issued>>
      BY <2>2 DEF BeginDelete, rows
    <3> QED
      BY <3>1, <3>2, <3>3, StopsWriting DEF Begin
  <2>3. CASE UpdateSchedule(c)
    <3>1. PICK id \in 1..issued : Begin(c, Handler("find", "update", id, Doc(0, 0)))
      BY <2>3 DEF UpdateSchedule
    <3>2. Handler("find", "update", id, Doc(0, 0)).pc = "find"
      BY DEF Handler
    <3>3. UNCHANGED <<topic, checks, issued>>
      BY <2>3 DEF UpdateSchedule, rows
    <3> QED
      BY <3>1, <3>2, <3>3, StopsWriting DEF Begin
  <2>4. CASE AskPage(c)
    <3>1. Handler("list", "page", NoId, Doc(0, 0)).pc = "list"
      BY DEF Handler
    <3> QED
      BY <2>4, <3>1, StopsWriting DEF AskPage, Begin, rows
  <2>5. CASE BeginNew(c, "save", "create") \/ BeginNew(c, "upgrade", "stream")
    BY <2>5, NewWriter
  <2> QED
    BY <1>3, <2>1, <2>2, <2>3, <2>4, <2>5
    DEF Arrives, Refuse, CreateToken, DeleteToken, CreateSchedule, DeleteSchedule, PostCheck,
        StreamCheck, DeleteHistory
<1>4. ASSUME NEW c \in Requests, Upgrade(c) PROVE CheckRows'
  <2> DEFINE v == [h[c] EXCEPT !.pc = "save", !.doc = Doc(now, now)]
  <2>1. h[c] \in Handlers /\ h[c].pc = "upgrade" /\ UNCHANGED <<topic, checks, issued>>
    BY <1>4 DEF Upgrade, TableInv, TableTypes, rows
  <2>2. v.pc = "save" /\ v.id = h[c].id
    BY <2>1 DEF Handlers
  <2>3. h' = [h EXCEPT ![c] = v]
    BY <1>4 DEF Upgrade, TableInv, TableTypes
  <2> HIDE DEF v
  <2>4. h'[c] = v /\ \A d \in Requests \ {c} : h'[d] = h[d]
    BY <2>3 DEF TableInv, TableTypes
  <2>5. \A d \in Requests : Writing(d)' => Writing(d) /\ h'[d].id = h[d].id
    BY <2>1, <2>2, <2>4 DEF Writing
  <2> QED
    BY <1>0, <2>1, <2>5, FewerWriters
<1>5. ASSUME NEW c \in Requests, LoadSchedule(c) PROVE CheckRows'
  <2>1. CASE Answers(c, NoId)
    <3>1. Handler("reply", "none", NoId, Doc(0, 0)).pc = "reply"
      BY DEF Handler
    <3> QED
      BY <1>5, <2>1, <3>1, StopsWriting DEF LoadSchedule, Answers, rows
  <2>2. CASE findSchedule(h[c].id)
    <3>1. h[c].id \in Ids /\ schedules[h[c].id] # NoRow
      BY <1>5, <2>2, IdsBound DEF findSchedule, LoadSchedule, TableInv, TableTypes, Ids
    <3>2. topic = "schedule" /\ UNCHANGED <<topic, checks, issued>>
      BY <1>5, <3>1 DEF TableInv, Fresh, LoadSchedule, rows
    <3> QED
      BY <1>0, <3>2, FewerWriters
  <2> QED
    BY <1>5, <2>1, <2>2 DEF LoadSchedule
<1>6. ASSUME NEW c \in Requests, Save(c) PROVE CheckRows'
  <2>1. PICK id : Answers(c, id)
    BY <1>6 DEF Save
  <2>2. Handler("reply", "none", id, Doc(0, 0)).pc = "reply"
    BY DEF Handler
  <2>3. CASE checks' = checks
    BY <1>6, <2>1, <2>2, <2>3, StopsWriting DEF Save, Answers
  <2>4. CASE topic \in {"check", "history"} /\ SaveCheck(h[c].id, h[c].doc)
    BY <1>6, <2>1, <2>2, <2>4, RowSaved DEF Answers
  <2> QED
    BY <1>6, <2>3, <2>4 DEF Save, Insert, CreateAPIToken, SaveSchedule, rows
<1>7. ASSUME NEW c \in Requests, Delete(c) PROVE CheckRows'
  <2>1. Handler("reply", "none", NoId, Doc(0, 0)).pc = "reply"
    BY DEF Handler
  <2>2. UNCHANGED <<topic, issued>> /\ Answers(c, NoId)
    BY <1>7 DEF Delete
  <2>3. \A k \in checks' : k \in checks
    BY <1>7 DEF Delete, Remove, DeleteAPIToken, DropSchedule, DeleteCheck, rows
  <2> QED
    BY <2>1, <2>2, <2>3, StopsWriting DEF Answers
<1>8. ASSUME NEW c \in Requests, ListHistory(c) \/ Answer(c) PROVE CheckRows'
  <2>1. UNCHANGED <<topic, rows, issued>> /\ h' = [h EXCEPT ![c] = Idle]
    <3>1. CASE ListHistory(c)
      BY <3>1, Zenon DEF ListHistory
    <3>2. CASE Answer(c)
      BY <3>2 DEF Answer
    <3> QED
      BY <1>8, <3>1, <3>2
  <2>2. Idle.pc = "idle"
    BY DEF Idle, Handler
  <2> QED
    BY <2>1, <2>2, StopsWriting DEF rows
<1>9. CASE (Advances /\ UNCHANGED tableVars) \/ Tick \/ UNCHANGED vars
  BY <1>1, <1>9 DEF tableVars, vars, Tick
<1> QED
  BY <1>2, <1>3, <1>4, <1>5, <1>6, <1>7, <1>8, <1>9 DEF Next, Handles

(* Tokens, deletions asked for and overlaps are about ids.                 *)
LEMMA OtherRowsStep ==
  ASSUME TableInv, OtherRows, [Next]_vars
  PROVE  OtherRows'
<1>0. 1..issued \subseteq Ids
  BY IdsBound DEF TableInv, TableTypes, Ids
<1>1. CASE UNCHANGED <<tokens, doomed, overlapped>>
  BY <1>1 DEF OtherRows
<1>2. ASSUME NEW c \in Requests, BeginDelete(c) PROVE OtherRows'
  <2>1. PICK id \in 1..issued : doomed' = doomed \cup {id}
    BY <1>2 DEF BeginDelete
  <2>2. UNCHANGED <<tokens, overlapped>>
    BY <1>2 DEF BeginDelete, rows
  <2> QED
    BY <1>0, <2>1, <2>2 DEF OtherRows
<1>3. ASSUME NEW c \in Requests, Arrives(c) PROVE OtherRows'
  BY <1>1, <1>2, <1>3
  DEF Arrives, Refuse, AnswerOnly, CreateToken, DeleteToken, CreateSchedule, UpdateSchedule,
      DeleteSchedule, PostCheck, StreamCheck, DeleteHistory, AskPage, BeginNew, rows, ghosts
<1>4. ASSUME NEW c \in Requests, Save(c) PROVE OtherRows'
  <2>1. h[c].id \in Ids
    BY <1>0, <1>4 DEF TableInv, TableTypes, Save
  <2>2. UNCHANGED <<doomed, overlapped>>
    BY <1>4 DEF Save, ghosts
  <2>3. tokens' = tokens \/ tokens' = tokens \cup {h[c].id}
    BY <1>4 DEF Save, Insert, CreateAPIToken, SaveSchedule, SaveCheck, rows
  <2> QED
    BY <2>1, <2>2, <2>3 DEF OtherRows
<1>5. ASSUME NEW c \in Requests, Delete(c) PROVE OtherRows'
  <2>1. h[c].id \in Ids
    BY <1>0, <1>5 DEF TableInv, TableTypes, Delete
  <2>2. UNCHANGED doomed /\ (overlapped' = overlapped \/ overlapped' = overlapped \cup {h[c].id})
    BY <1>5 DEF Delete
  <2>3. tokens' \subseteq tokens
    BY <1>5 DEF Delete, Remove, DeleteAPIToken, DropSchedule, DeleteCheck, rows
  <2> QED
    BY <2>1, <2>2, <2>3 DEF OtherRows
<1>6. ASSUME NEW c \in Requests, ListHistory(c) PROVE OtherRows'
  <2>1. UNCHANGED <<rows, ghosts>>
    BY <1>6, Zenon DEF ListHistory
  <2> QED
    BY <1>1, <2>1 DEF rows, ghosts
<1>7. ASSUME NEW c \in Requests, Upgrade(c) \/ LoadSchedule(c) \/ Answer(c) PROVE OtherRows'
  BY <1>1, <1>7 DEF Upgrade, LoadSchedule, Answer, rows, ghosts
<1>8. CASE (Advances /\ UNCHANGED tableVars) \/ Gone \/ Tick \/ UNCHANGED vars
  BY <1>1, <1>8 DEF tableVars, vars, Tick, Gone, rows, ghosts
<1> QED
  BY <1>3, <1>4, <1>5, <1>6, <1>7, <1>8 DEF Next, Handles

(* New rows only push those behind the reader's offset further back.       *)
LEMMA ReaderStays ==
  ASSUME TableInv, TableInv', CheckRows, CheckRows', Reading, UNCHANGED <<reader, topic>>,
         checks \in SUBSET checks' \/ topic # "history",
         topic # "history" => \A c \in Requests : h'[c].pc # "list"
  PROVE  Reading'
<1>1. Cardinality(checks') \in Nat /\ IsFiniteSet(checks')
  <2>1. issued' \in Nat
    BY DEF TableInv, TableTypes
  <2>2. Ordered(checks') /\ Cardinality(checks') \in Nat
    BY <2>1, RowsOrdered DEF CheckRows
  <2> QED
    BY <2>2 DEF Ordered
<1>2. CASE topic # "history"
  <2>1. reader' = NewReader
    BY <1>2 DEF Reading
  <2> QED
    BY <1>1, <1>2, <2>1 DEF Reading, NewReader, PagedAll
<1>3. CASE checks \in SUBSET checks'
  <2>1. Cardinality(checks) \in Nat /\ Cardinality(checks) <= Cardinality(checks')
    BY <1>1, <1>3, FS_Subset, FS_CardinalityType
  <2>2. ASSUME NEW k \in checks
        PROVE  /\ Rank(checks, k) \in Nat /\ Rank(checks', k) \in Nat
               /\ Rank(checks, k) <= Rank(checks', k)
    <3>1. Ahead(checks, k) \in SUBSET Ahead(checks', k) /\ Ahead(checks', k) \in SUBSET checks'
      BY <1>3 DEF Ahead
    <3>2. IsFiniteSet(Ahead(checks', k))
      BY <1>1, <3>1, FS_Subset
    <3> QED
      BY <3>1, <3>2, FS_Subset, FS_CardinalityType DEF Rank
  <2>3. reader.offset \in Nat
    BY DEF Reading
  <2>4. reader.offset <= Cardinality(checks')
    BY <1>1, <2>1, <2>3 DEF Reading
  <2>5. ASSUME NEW id \in reader.base \ reader.seen
        PROVE  \E k \in checks' : k.id = id /\ reader.offset <= Rank(checks', k)
    <3>1. PICK k \in checks : k.id = id /\ reader.offset <= Rank(checks, k)
      BY DEF Reading
    <3>2. reader.offset <= Rank(checks', k)
      BY <2>2, <2>3, <3>1
    <3> QED
      BY <1>3, <3>1, <3>2
  <2>6. reader' = reader /\ topic' = topic
    OBVIOUS
  <2> QED
    BY <2>4, <2>5, <2>6 DEF Reading, PagedAll
<1> QED
  BY <1>2, <1>3

Readers == [pc : {"ready", "waiting", "done"}, offset : Nat, base : SUBSET Ids,
            seen : SUBSET Ids]

\* A reader whose fields are all given.
ReaderWith(r, pc, offset, base, seen) ==
    [r EXCEPT !.pc = pc, !.offset = offset, !.base = base, !.seen = seen]

LEMMA ReaderFields ==
  ASSUME NEW r \in Readers, NEW pc \in {"ready", "waiting", "done"}, NEW offset \in Nat,
         NEW base \in SUBSET Ids, NEW seen \in SUBSET Ids
  PROVE  /\ ReaderWith(r, pc, offset, base, seen) \in Readers
         /\ ReaderWith(r, pc, offset, base, seen).pc = pc
         /\ ReaderWith(r, pc, offset, base, seen).offset = offset
         /\ ReaderWith(r, pc, offset, base, seen).base = base
         /\ ReaderWith(r, pc, offset, base, seen).seen = seen
  BY DEF ReaderWith, Readers

(* A page is read: it takes no more places than the limit, so every row    *)
(* behind the offset is on it or behind the next offset; and it is empty   *)
(* only if there is no row behind the offset.                              *)
LEMMA PageRead ==
  ASSUME TableInv, CheckRows, Reading, topic = "history", UNCHANGED <<topic, checks>>,
         NEW limit \in Nat \ {0}, NEW page, page = ListChecks(limit, reader.offset),
         reader' = ReaderWith(reader, IF page = {} THEN "done" ELSE "ready",
                              reader.offset + Cardinality(page),
                              IF reader.seen = {} THEN {k.id : k \in checks} ELSE reader.base,
                              reader.seen \cup {k.id : k \in page})
  PROVE  Reading'
<1> DEFINE o == reader.offset
           ids == {k.id : k \in checks}
           shown == {k.id : k \in page}
<1>1. reader \in Readers
  BY DEF Reading, Readers
<1>2. Ordered(checks) /\ Cardinality(checks) \in Nat
  BY ChecksOrdered DEF TableInv, TableTypes
<1>3. o \in Nat /\ o <= Cardinality(checks)
  BY DEF Reading
<1>4. page \in SUBSET checks /\ \A k \in checks : k \in page <=> Rank(checks, k) \in o..(o + limit - 1)
  BY DEF ListChecks, Rank, Ahead
<1>5. IsFiniteSet(page) /\ Cardinality(page) \in Nat /\ Cardinality(page) <= limit
  <2>1. o + limit \in Nat /\ o <= o + limit
    BY <1>3
  <2>2. \A k \in page : Rank(checks, k) \in o..((o + limit) - 1)
    BY <1>3, <1>4
  <2>3. IsFiniteSet(page) /\ Cardinality(page) \in Nat /\ Cardinality(page) <= (o + limit) - o
    BY <1>2, <1>3, <1>4, <2>1, <2>2, RowsBetween
  <2> QED
    BY <1>3, <2>3
<1>6. o + Cardinality(page) <= Cardinality(checks)
  <2>1. \A k \in page : Rank(checks, k) \in o..(Cardinality(checks) - 1)
    <3> SUFFICES ASSUME NEW k \in page PROVE Rank(checks, k) \in o..(Cardinality(checks) - 1)
      OBVIOUS
    <3>1. Rank(checks, k) \in Nat /\ Rank(checks, k) < Cardinality(checks)
      BY <1>2, <1>4, Ranks
    <3>2. Rank(checks, k) \in o..(o + limit - 1)
      BY <1>4
    <3> QED
      BY <1>2, <1>3, <3>1, <3>2
  <2>2. Cardinality(page) <= Cardinality(checks) - o
    BY <1>2, <1>3, <1>4, <2>1, RowsBetween
  <2> QED
    BY <1>2, <1>3, <1>5, <2>2
<1>7. ids \in SUBSET Ids /\ shown \in SUBSET Ids
  <2>1. \A k \in checks : k.id \in Ids
    BY IdsBound DEF CheckRows, TableInv, TableTypes, Ids
  <2> QED
    BY <1>4, <2>1
<1>8. page # {} => shown # {}
  OBVIOUS
<1>9. \A k \in page : k.id \in shown
  OBVIOUS
<1>10. \A id \in ids : \E k \in checks : k.id = id
  OBVIOUS
<1> HIDE DEF ids, shown
<1> DEFINE pc == IF page = {} THEN "done" ELSE "ready"
           base == IF reader.seen = {} THEN ids ELSE reader.base
           seen == reader.seen \cup shown
<1>11. reader' = ReaderWith(reader, pc, o + Cardinality(page), base, seen)
  BY DEF ids, shown
<1>12. /\ reader' \in Readers
       /\ reader'.pc = IF page = {} THEN "done" ELSE "ready"
       /\ reader'.offset = o + Cardinality(page)
       /\ reader'.base = IF reader.seen = {} THEN ids ELSE reader.base
       /\ reader'.seen = reader.seen \cup shown
  <2>1. /\ pc \in {"ready", "waiting", "done"} /\ o + Cardinality(page) \in Nat
        /\ base \in SUBSET Ids /\ seen \in SUBSET Ids
    BY <1>1, <1>3, <1>5, <1>7 DEF Readers
  <2> HIDE DEF o, pc, base, seen
  <2>2. /\ reader' \in Readers /\ reader'.pc = pc /\ reader'.offset = o + Cardinality(page)
        /\ reader'.base = base /\ reader'.seen = seen
    BY ONLY <1>1, <1>11, <2>1, ReaderFields
  <2> QED
    BY <2>2 DEF pc, base, seen
<1> HIDE DEF o, pc, base, seen
<1>13. ASSUME NEW id \in reader'.base \ reader'.seen
       PROVE  \E k \in checks : k.id = id /\ k \notin page /\ o <= Rank(checks, k)
  <2>1. \E k \in checks : k.id = id /\ o <= Rank(checks, k)
    <3>1. CASE reader.seen = {}
      <4>1. PICK k \in checks : k.id = id
        BY <1>10, <1>12, <3>1
      <4>2. o = 0 /\ Rank(checks, k) \in Nat
        BY <1>2, <3>1, Ranks DEF Reading, o
      <4> QED
        BY <4>1, <4>2
    <3>2. CASE reader.seen # {}
      BY <1>12, <3>2 DEF Reading, o
    <3> QED
      BY <3>1, <3>2
  <2>2. PICK k \in checks : k.id = id /\ o <= Rank(checks, k)
    BY <2>1
  <2>3. k \notin page
    BY ONLY <1>9, <1>12, <2>2, id \in reader'.base \ reader'.seen
  <2> QED
    BY <2>2, <2>3
<1>14. ASSUME NEW id \in reader'.base \ reader'.seen
       PROVE  page # {} /\ \E k \in checks : k.id = id /\ reader'.offset <= Rank(checks, k)
  <2>1. PICK k \in checks : k.id = id /\ k \notin page /\ o <= Rank(checks, k)
    BY <1>13
  <2>2. Rank(checks, k) \in Nat
    BY <1>2, Ranks
  <2>3. o + limit <= Rank(checks, k)
    BY <1>3, <1>4, <2>1, <2>2
  <2>4. reader'.offset <= Rank(checks, k)
    BY <1>3, <1>5, <1>12, <2>2, <2>3
  <2>5. PICK m \in checks : Rank(checks, m) = o
    BY <1>2, <1>3, <2>1, NoGap
  <2>6. m \in page
    BY <1>3, <1>4, <2>5
  <2> QED
    BY <2>1, <2>4, <2>6
<1>15. PagedAll'
  BY <1>12, <1>14 DEF PagedAll
<1>16. reader'.seen = {} => reader'.offset = 0
  <2> SUFFICES ASSUME reader'.seen = {} PROVE reader'.offset = 0
    OBVIOUS
  <2>1. reader.seen = {} /\ page = {}
    BY <1>8, <1>12
  <2>2. o = 0
    BY <2>1 DEF Reading, o
  <2>3. Cardinality(page) = 0
    BY <2>1, FS_EmptySet
  <2> QED
    BY <1>12, <2>2, <2>3
<1> QED
  BY <1>6, <1>12, <1>14, <1>15, <1>16 DEF Reading, Readers

(* The reader stays where it is while a handler that does not list the     *)
(* history takes a step.                                                   *)
LEMMA ReaderWaits ==
  ASSUME TableInv, TableInv', CheckRows, CheckRows', Reading, UNCHANGED <<reader, topic>>,
         checks \in SUBSET checks' \/ topic # "history",
         NEW c \in Requests, NEW v, h' = [h EXCEPT ![c] = v], v.pc # "list"
  PROVE  Reading'
<1>1. h'[c] = v /\ \A d \in Requests \ {c} : h'[d] = h[d]
  BY DEF TableInv, TableTypes
<1>2. topic # "history" => \A d \in Requests : h'[d].pc # "list"
  BY <1>1 DEF Reading
<1> QED
  BY <1>2, ReaderStays

(* A new page is asked for.                                                *)
LEMMA PageAsked ==
  ASSUME Reading, NEW pc \in {"ready", "waiting"}, reader' = [reader EXCEPT !.pc = pc],
         UNCHANGED <<topic, checks>>, topic = "history"
  PROVE  Reading'
<1>1. /\ reader' \in Readers
      /\ reader'.pc = pc /\ reader'.offset = reader.offset
      /\ reader'.base = reader.base /\ reader'.seen = reader.seen
  BY DEF Reading, Readers
<1>2. PagedAll'
  BY <1>1 DEF PagedAll
<1> QED
  BY <1>1, <1>2 DEF Reading, Readers

(* The process ended: the reader begins again.                             *)
LEMMA ReaderRestarts ==
  ASSUME TableInv, CheckRows, UNCHANGED <<topic, checks>>, reader' = NewReader,
         \A c \in Requests : h'[c].pc # "list"
  PROVE  Reading'
<1>1. /\ reader' \in Readers
      /\ reader'.pc = "ready" /\ reader'.offset = 0 /\ reader'.base = {} /\ reader'.seen = {}
  BY DEF NewReader, Readers
<1>2. Cardinality(checks') \in Nat
  BY ChecksOrdered DEF TableInv, TableTypes
<1>3. PagedAll'
  BY <1>1 DEF PagedAll
<1> QED
  BY <1>1, <1>2, <1>3 DEF Reading, Readers

(* A handler lists the history.                                            *)
LEMMA HistoryListed ==
  ASSUME TableInv, CheckRows, Reading, NEW c \in Requests, ListHistory(c)
  PROVE  Reading'
<1>1. h[c].pc = "list" /\ UNCHANGED <<topic, rows>>
  BY Zenon DEF ListHistory
<1>2. topic = "history" /\ UNCHANGED <<topic, checks>>
  BY <1>1 DEF Reading, rows
<1>3. CASE reader' = [reader EXCEPT !.pc = "ready"]
  BY <1>2, <1>3, PageAsked
<1>4. CASE \E n \in 0..MaxLimit + 1 :
             LET page == ListChecks(PageLimit(n), reader.offset)
             IN  reader' = ReaderWith(reader, IF page = {} THEN "done" ELSE "ready",
                              reader.offset + Cardinality(page),
                              IF reader.seen = {} THEN {k.id : k \in checks} ELSE reader.base,
                              reader.seen \cup {k.id : k \in page})
  <2>1. PICK n \in 0..MaxLimit + 1 :
             LET page == ListChecks(PageLimit(n), reader.offset)
             IN  reader' = ReaderWith(reader, IF page = {} THEN "done" ELSE "ready",
                              reader.offset + Cardinality(page),
                              IF reader.seen = {} THEN {k.id : k \in checks} ELSE reader.base,
                              reader.seen \cup {k.id : k \in page})
    BY <1>4
  <2>2. PageLimit(n) \in Nat \ {0}
    BY LimitsAssumption DEF PageLimit
  <2> QED
    BY <1>2, <2>1, <2>2, PageRead
<1> QED
  BY <1>3, <1>4, Zenon DEF ListHistory, ReaderWith

(* Every step keeps what the reader has still to see behind its offset.    *)
LEMMA ReadingStep ==
  ASSUME TableInv, TableInv', CheckRows, CheckRows', Reading, [Next]_vars
  PROVE  Reading'
<1>1. CASE UNCHANGED <<topic, checks, h, reader>>
  <2>1. topic # "history" => \A c \in Requests : h'[c].pc # "list"
    BY <1>1 DEF Reading
  <2> QED
    BY <1>1, <2>1, ReaderStays
<1>2. CASE Gone
  <2>1. UNCHANGED <<topic, checks>> /\ reader' = NewReader
        /\ \A c \in Requests : h'[c].pc = "idle"
    BY <1>2 DEF Gone, rows, Idle, Handler
  <2> QED
    BY <2>1, ReaderRestarts
<1>3. ASSUME NEW c \in Requests, Arrives(c) PROVE Reading'
  <2>1. CASE AskPage(c)
    <3>1. topic = "history" /\ UNCHANGED <<topic, checks>>
          /\ reader' = [reader EXCEPT !.pc = "waiting"]
      BY <2>1 DEF AskPage, rows
    <3> QED
      BY <3>1, PageAsked
  <2>2. CASE \E pc \in {"reply", "delete", "find", "save", "upgrade"} : \E op, id, doc :
               /\ Begin(c, Handler(pc, op, id, doc))
               /\ UNCHANGED <<topic, checks, reader>>
    <3>1. PICK pc, op, id, doc :
               /\ pc \in {"reply", "delete", "find", "save", "upgrade"}
               /\ Begin(c, Handler(pc, op, id, doc))
               /\ UNCHANGED <<topic, checks, reader>>
      BY <2>2
    <3>2. Handler(pc, op, id, doc).pc # "list"
      BY <3>1 DEF Handler
    <3> QED
      BY <3>1, <3>2, ReaderWaits DEF Begin
  <2>3. CASE Refuse(c)
    BY <2>2, <2>3 DEF Refuse, AnswerOnly, rows
  <2>4. CASE BeginDelete(c)
    BY <2>2, <2>4 DEF BeginDelete, rows
  <2>5. CASE UpdateSchedule(c)
    BY <2>2, <2>5 DEF UpdateSchedule, rows
  <2>6. CASE BeginNew(c, "save", "create") \/ BeginNew(c, "upgrade", "stream")
    BY <2>2, <2>6 DEF BeginNew, rows
  <2> QED
    BY <1>3, <2>1, <2>3, <2>4, <2>5, <2>6
    DEF Arrives, Refuse, CreateToken, DeleteToken, CreateSchedule, DeleteSchedule, PostCheck,
        StreamCheck, DeleteHistory
<1>4. ASSUME NEW c \in Requests, Upgrade(c) PROVE Reading'
  <2>1. h'[c].pc = "save" /\ \A d \in Requests \ {c} : h'[d] = h[d]
    BY <1>4 DEF Upgrade, TableInv, TableTypes, Handlers
  <2>2. UNCHANGED <<topic, checks, reader>>
    BY <1>4 DEF Upgrade, rows
  <2>3. topic # "history" => \A d \in Requests : h'[d].pc # "list"
    BY <2>1 DEF Reading
  <2> QED
    BY <2>2, <2>3, ReaderStays
<1>5. ASSUME NEW c \in Requests, LoadSchedule(c) PROVE Reading'
  <2>1. UNCHANGED <<topic, checks, reader>>
    BY <1>5 DEF LoadSchedule, rows
  <2>2. CASE Answers(c, NoId)
    <3>1. Handler("reply", "none", NoId, Doc(0, 0)).pc # "list"
      BY DEF Handler
    <3> QED
      BY <2>1, <2>2, <3>1, ReaderWaits DEF Answers
  <2>3. CASE h' = [h EXCEPT ![c].pc = "save",
                            ![c].doc = Doc(schedules[h[c].id].doc.created, now)]
    <3>1. h'[c].pc = "save" /\ \A d \in Requests \ {c} : h'[d] = h[d]
      BY <2>3 DEF TableInv, TableTypes, Handlers
    <3>2. topic # "history" => \A d \in Requests : h'[d].pc # "list"
      BY <3>1 DEF Reading
    <3> QED
      BY <2>1, <3>2, ReaderStays
  <2> QED
    BY <1>5, <2>2, <2>3 DEF LoadSchedule
<1>6. ASSUME NEW c \in Requests, Save(c) PROVE Reading'
  <2>1. PICK id : Answers(c, id)
    BY <1>6 DEF Save
  <2>2. Handler("reply", "none", id, Doc(0, 0)).pc = "reply"
    BY DEF Handler
  <2>3. UNCHANGED <<topic, reader>>
    BY <1>6 DEF Save
  <2>4. CASE checks' = checks
    BY <2>1, <2>2, <2>3, <2>4, ReaderWaits DEF Answers
  <2>5. CASE topic \in {"check", "history"} /\ SaveCheck(h[c].id, h[c].doc)
    <3>1. checks \in SUBSET checks'
      BY <1>6, <2>1, <2>2, <2>5, RowSaved DEF Answers
    <3> QED
      BY <2>1, <2>2, <2>3, <3>1, ReaderWaits DEF Answers
  <2> QED
    BY <1>6, <2>4, <2>5 DEF Save, Insert, CreateAPIToken, SaveSchedule, rows
<1>7. ASSUME NEW c \in Requests, Delete(c) PROVE Reading'
  <2>1. Handler("reply", "none", NoId, Doc(0, 0)).pc = "reply"
    BY DEF Handler
  <2>2. UNCHANGED <<topic, reader>> /\ Answers(c, NoId)
    BY <1>7 DEF Delete
  <2>3. checks' = checks \/ topic # "history"
    BY <1>7 DEF Delete, Remove, DeleteAPIToken, DropSchedule, DeleteCheck, rows
  <2> QED
    BY <2>1, <2>2, <2>3, ReaderWaits DEF Answers
<1>8. ASSUME NEW c \in Requests, ListHistory(c) PROVE Reading'
  BY <1>8, HistoryListed
<1>9. ASSUME NEW c \in Requests, Answer(c) PROVE Reading'
  <2>1. Idle.pc = "idle"
    BY DEF Idle, Handler
  <2> QED
    BY <1>9, <2>1, ReaderWaits DEF Answer, rows
<1>10. CASE (Advances /\ UNCHANGED tableVars) \/ Tick \/ UNCHANGED vars
  BY <1>1, <1>10 DEF tableVars, vars, Tick, rows
<1> QED
  BY <1>2, <1>3, <1>4, <1>5, <1>6, <1>7, <1>8, <1>9, <1>10 DEF Next, Handles

(* The invariant of the history.                                           *)
LEMMA HistoryInvariant == Spec => [](TableInv /\ CheckRows /\ OtherRows /\ Reading)
<1>1. Init => TableInv /\ CheckRows /\ OtherRows /\ Reading
  BY TablesInit, HistoryInit
<1>2. TableInv /\ CheckRows /\ OtherRows /\ Reading /\ [Next]_vars
      => (TableInv /\ CheckRows /\ OtherRows /\ Reading)'
  <2> SUFFICES ASSUME TableInv, CheckRows, OtherRows, Reading, [Next]_vars
               PROVE  (TableInv /\ CheckRows /\ OtherRows /\ Reading)'
    OBVIOUS
  <2>1. TableInv'
    BY TablesStep
  <2>2. CheckRows'
    BY CheckRowsStep
  <2>3. OtherRows'
    BY OtherRowsStep
  <2>4. Reading'
    BY <2>1, <2>2, ReadingStep
  <2> QED
    BY <2>1, <2>2, <2>3, <2>4
<1> QED
  BY <1>1, <1>2, PTL DEF Spec

(* A reader that goes on behind the rows it received until there are none  *)
(* has seen every check that was there when it began, whatever limits it   *)
(* asks for and however many checks are saved between two pages, in any    *)
(* order of their creation times.                                          *)
THEOREM ReaderSeesAll == Spec => []PagedAll
<1>1. Reading => PagedAll
  BY DEF Reading
<1> QED
  BY <1>1, HistoryInvariant, PTL

(* The process, the tables and the handlers stay well formed; in           *)
(* particular no row of the history is numbered beyond the ids issued,     *)
(* although numbers are reused after a deletion.                           *)
THEOREM TablesTyped == Spec => []TypeOK
<1>1. TableInv /\ CheckRows /\ OtherRows /\ Reading /\ LifeInv => TypeOK
  <2> SUFFICES ASSUME TableInv, CheckRows, OtherRows, Reading, LifeInv PROVE TypeOK
    OBVIOUS
  <2>1. issued \in Nat /\ issued <= MaxId /\ MaxId \in Nat
    BY IdsBound DEF TableInv, TableTypes
  <2>2. checks \subseteq [id : Ids, created : Times, rowid : 1..MaxId]
    <3> SUFFICES ASSUME NEW k \in checks
                 PROVE  k \in [id : Ids, created : Times, rowid : 1..MaxId]
      OBVIOUS
    <3>1. Settled \in SUBSET (1..issued)
      BY DEF Settled
    <3>2. Cardinality(Settled) \in Nat /\ Cardinality(Settled) <= issued
      BY <2>1, <3>1, SomeIds
    <3>3. k \in [id : 1..issued, created : Times, rowid : Nat \ {0}]
          /\ k.rowid <= Cardinality(Settled)
      BY DEF CheckRows
    <3>4. k.id \in Ids /\ k.rowid \in 1..MaxId
      BY <2>1, <3>2, <3>3 DEF Ids
    <3> QED
      BY <3>3, <3>4
  <2>3. reader \in [pc : {"ready", "waiting", "done"}, offset : 0..MaxId,
                    base : SUBSET Ids, seen : SUBSET Ids]
    <3>1. Cardinality(checks) \in Nat /\ Cardinality(checks) <= issued
      BY <2>1, ChecksOrdered
    <3>2. reader.offset \in 0..MaxId
      BY <2>1, <3>1 DEF Reading
    <3> QED
      BY <3>2 DEF Reading
  <2>4. ProcessTypeOK
    BY DEF LifeInv
  <2>5. acked \subseteq Ids /\ gone \subseteq Ids
    BY <2>1 DEF TableInv, Kept, AckedOK, Fresh, Ids
  <2>6. issued \in 0..MaxId
    BY <2>1
  <2> QED
    BY <2>2, <2>3, <2>4, <2>5, <2>6 DEF TypeOK, TableInv, TableTypes, OtherRows
<1> QED
  BY <1>1, HistoryInvariant, LifeInvariant, TablesRunInProcess, PTL
=============================================================================
