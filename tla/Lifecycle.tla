------------------------------ MODULE Lifecycle ------------------------------
(***************************************************************************)
(* The life of the server process (cmd/dnsmon/main.go): Start opens the    *)
(* store, which runs the migration scripts (internal/storage/sqlite), and  *)
(* wires the server; run listens in a goroutine of its own; Stop shuts the *)
(* server down within a grace period and closes the store.  The process    *)
(* may be killed at any moment and started again on the same database.     *)
(*                                                                         *)
(* A request is plain, which Shutdown waits for, or hijacked (the sockets  *)
(* of streamed checks), which it does not.  What requests do is left to    *)
(* the modules that extend this one.                                       *)
(***************************************************************************)
EXTENDS Integers, FiniteSets

CONSTANTS
    Requests,     \* requests that may be in progress
    Scripts,      \* number of statements in the migration scripts
    MaxStarts     \* bound: how often the process is started

ASSUME ScriptsAssumption == Scripts \in Nat
ASSUME StartsAssumption == MaxStarts \in Nat

VARIABLES
    proc,       \* what the main goroutine is doing
    server,     \* what the goroutine of run and its listener are doing
    store,      \* the connection to the database: "open" or "closed"
    applied,    \* migration statements the database has seen
    script,     \* next migration statement of this process
    inflight,   \* plain requests in progress
    hijacked,   \* requests whose connection was hijacked
    grace,      \* whether the grace period of Stop was "kept" or has "expired"
    starts      \* how often the process was started

processVars == <<proc, server, store, applied, script, inflight, hijacked,
                 grace, starts>>

ProcessTypeOK ==
    /\ proc \in {"down", "migrate", "wire", "running", "shutdown", "close", "exit"}
    /\ server \in {"none", "starting", "listening", "closed", "failed"}
    /\ store \in {"open", "closed"}
    /\ applied \subseteq 1..Scripts
    /\ script \in 1..Scripts + 1
    /\ inflight \subseteq Requests
    /\ hijacked \subseteq Requests
    /\ grace \in {"kept", "expired"}
    /\ starts \in 0..MaxStarts

\* A new installation, or a database that an earlier process migrated.
ProcessInit ==
    /\ proc = "down"
    /\ server = "none"
    /\ store = "closed"
    /\ applied \in {{}, 1..Scripts}
    /\ script = 1
    /\ inflight = {}
    /\ hijacked = {}
    /\ grace = "kept"
    /\ starts = 0

-----------------------------------------------------------------------------
(* Start.                                                                  *)

\* The process is gone: only the database outlives it.
ProcessEnds ==
    /\ proc' = "down"
    /\ server' = "none"
    /\ store' = "closed"
    /\ script' = 1
    /\ inflight' = {}
    /\ hijacked' = {}
    /\ grace' = "kept"
    /\ UNCHANGED <<applied, starts>>

\* newStorage opens the database and pings it; a failure ends the process.
Boot ==
    /\ proc = "down"
    /\ starts < MaxStarts
    /\ starts' = starts + 1
    /\ \/ proc' = "migrate" /\ store' = "open"
       \/ UNCHANGED <<proc, store>>
    /\ UNCHANGED <<server, applied, script, inflight, hijacked, grace>>

\* Mutant of Migrate: the loop runs one statement past the last one.
MigrateOneTooMany ==
    /\ proc = "migrate"
    /\ \/ /\ script <= Scripts + 1
          /\ applied' = applied \cup {script}
          /\ script' = script + 1
          /\ UNCHANGED proc
       \/ /\ script > Scripts + 1
          /\ proc' = "wire"
          /\ UNCHANGED <<applied, script>>
    /\ UNCHANGED <<server, store, inflight, hijacked, grace, starts>>

\* migrate runs every statement of every script at every start, each written to do
\* nothing the second time (CREATE ... IF NOT EXISTS).
Migrate ==
    /\ proc = "migrate"
    /\ \/ /\ script <= Scripts
          /\ applied' = applied \cup {script}
          /\ script' = script + 1
          /\ UNCHANGED proc
       \/ /\ script > Scripts
          /\ proc' = "wire"
          /\ UNCHANGED <<applied, script>>
    /\ UNCHANGED <<server, store, inflight, hijacked, grace, starts>>

\* A statement fails: New closes the database and returns the error to main.
MigrateFails ==
    /\ proc = "migrate" /\ script <= Scripts
    /\ ProcessEnds

\* The cache, the registry, the checker and the routes; then go p.run().
Wire ==
    /\ proc = "wire"
    /\ proc' = "running"
    /\ server' = "starting"
    /\ UNCHANGED <<store, applied, script, inflight, hijacked, grace, starts>>

\* The cache or the resolver list cannot be loaded: Start fails, main exits.
WireFails ==
    /\ proc = "wire"
    /\ ProcessEnds

-----------------------------------------------------------------------------
(* run.                                                                    *)

\* Mutant of Listen: run does not learn that Shutdown came first.
ListenAnyway ==
    /\ server = "starting"
    /\ server' = "listening"
    /\ UNCHANGED <<proc, store, applied, script, inflight, hijacked, grace, starts>>

\* ListenAndServe returns ErrServerClosed when Shutdown came first.
Listen ==
    /\ server = "starting"
    /\ server' = IF proc = "running" THEN "listening" ELSE "closed"
    /\ UNCHANGED <<proc, store, applied, script, inflight, hijacked, grace, starts>>

\* The address cannot be bound: an interactive process exits, one started by a
\* service manager stays, without a listener.
ListenFails ==
    /\ server = "starting" /\ proc = "running"
    /\ \/ ProcessEnds
       \/ /\ server' = "failed"
          /\ UNCHANGED <<proc, store, applied, script, inflight, hijacked, grace,
                         starts>>

-----------------------------------------------------------------------------
(* Stop.                                                                   *)

\* Mutant of Stop: the store is released before the server is shut down.
StopClosesStoreFirst ==
    /\ proc = "running"
    /\ proc' = "shutdown"
    /\ server' = IF server = "listening" THEN "closed" ELSE server
    /\ store' = "closed"
    /\ UNCHANGED <<applied, script, inflight, hijacked, grace, starts>>

\* Shutdown closes the listener and waits for the plain requests.
Stop ==
    /\ proc = "running"
    /\ proc' = "shutdown"
    /\ server' = IF server = "listening" THEN "closed" ELSE server
    /\ UNCHANGED <<store, applied, script, inflight, hijacked, grace, starts>>

ShutdownReturns ==
    /\ proc = "shutdown"
    /\ inflight = {}
    /\ proc' = "close"
    /\ UNCHANGED <<server, store, applied, script, inflight, hijacked, grace, starts>>

\* Mutant of ShutdownExpires: Shutdown is given a context without a deadline.
ShutdownNeverExpires == FALSE /\ UNCHANGED processVars

\* The thirty seconds are over; the error is logged and Stop goes on.
ShutdownExpires ==
    /\ proc = "shutdown"
    /\ inflight # {}
    /\ proc' = "close"
    /\ grace' = "expired"
    /\ UNCHANGED <<server, store, applied, script, inflight, hijacked, starts>>

\* p.store.Close(), then the cache: what still runs finds its store closed.
CloseStore ==
    /\ proc = "close"
    /\ proc' = "exit"
    /\ store' = "closed"
    /\ UNCHANGED <<server, applied, script, inflight, hijacked, grace, starts>>

\* Stop returned, and with it main.
Exit ==
    /\ proc = "exit"
    /\ ProcessEnds

Crash ==
    /\ proc # "down"
    /\ ProcessEnds

-----------------------------------------------------------------------------
(* Requests, as the process sees them.                                     *)

Accept(c) ==
    /\ server = "listening"
    /\ c \notin inflight \cup hijacked
    /\ inflight' = inflight \cup {c}
    /\ UNCHANGED <<proc, server, store, applied, script, hijacked, grace, starts>>

\* websocket.Accept takes the connection over from the server.
Hijack(c) ==
    /\ c \in inflight
    /\ inflight' = inflight \ {c}
    /\ hijacked' = hijacked \cup {c}
    /\ UNCHANGED <<proc, server, store, applied, script, grace, starts>>

Finish(c) ==
    /\ c \in inflight \cup hijacked
    /\ inflight' = inflight \ {c}
    /\ hijacked' = hijacked \ {c}
    /\ UNCHANGED <<proc, server, store, applied, script, grace, starts>>

-----------------------------------------------------------------------------
\* Steps of the process that leave the requests alone: before it listens there are
\* none.
Advances ==
    \/ Boot
    \/ Migrate
    \/ MigrateFails
    \/ Wire
    \/ WireFails
    \/ Listen
    \/ ListenFails
    \/ Stop
    \/ ShutdownReturns
    \/ ShutdownExpires
    \/ CloseStore

\* Steps that end the process, and every request with it.
Terminates == Exit \/ Crash

RequestStep == \E c \in Requests : Accept(c) \/ Hijack(c) \/ Finish(c)

ProcessNext ==
    \/ Advances
    \/ Terminates
    \/ RequestStep

ProcessSpec == ProcessInit /\ [][ProcessNext]_processVars

-----------------------------------------------------------------------------
(* Properties.                                                             *)

(* Stop releases the store only when no plain request uses it any more, or *)
(* the grace period is over: a request that was accepted before the signal *)
(* and is answered in time never meets a closed store.                     *)
GraceKept == store = "closed" /\ inflight # {} => grace = "expired"

(* A request only ever runs against the complete schema, and the listener  *)
(* is up only while the process is running on an open store: although run  *)
(* is a goroutine that Stop may overtake, and although a crash may leave a *)
(* half-migrated database for the next process to start from.              *)
ServedReady ==
    /\ inflight \cup hijacked # {} => applied = 1..Scripts
    /\ server = "listening" =>
          proc = "running" /\ store = "open" /\ applied = 1..Scripts

(* A stopped process ends, also when requests never return.                *)
StopReturns == proc = "shutdown" ~> proc = "down"
=============================================================================
