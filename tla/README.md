# A TLA+ verification project for dnsmon

dnsmon is a self-hosted DNS propagation checker: an HTTP server asks many public
resolvers for a record at once, streams or returns their answers with a summary,
keeps checks for permalinks, and runs monitors that compare what the resolvers
serve with an expected or an earlier value and alert on a difference. This
directory models the parts of it that have state and concurrency, checks them
with TLC and proves their main safety properties with TLAPS.

`PROJECT.json` is the machine-readable index: components, runs, mutants, the map
from definitions to source lines, findings, hazards and theorems. Paths below are
relative to the repository.

## 1. Inventory

| Component | State | Operations | Where it is hard | Module |
|---|---|---|---|---|
| Streamed check: `internal/checker/stream.go`, `internal/api/v1/stream.go` | semaphore, `results` slice under `mu`, `resultCh`, `doneCh`, request context, socket | accept, read request, spawn a worker per resolver, send, append, wait, save, summarise, close, write frames | several kinds of goroutines, a client that leaves or stops reading, channels that are full or closed, a store that closes at shutdown | `CheckStream`, `StreamedCheck` |
| Propagation check: `internal/checker/checker.go`, `internal/api/v1/check.go` | results by position, semaphore | build the resolver list, fan out, collect, save, answer | workers queue for slots; cancellation anywhere | `PropagationCheck` |
| Response cache: `internal/cache` | entries with an expiry, bounded size | get, set | shared by all checks, filled by whoever ends last | `PropagationCheck` |
| DNS client: `internal/dnsclient/client.go` | none across queries | up to 1 + `dns.retry` exchanges | timeouts, retries, cancellation between attempts | `PropagationCheck` |
| Check summary: `buildSummary` in `checker.go` | none | counts, consensus, percentage, ETA | ties, rounding, arrival order | `CheckSummary` |
| Monitors: `internal/monitor`, `internal/api/v1/monitors.go`, `internal/storage/*/monitors.go` | tables `monitors` and `monitor_events` | create, update, delete, run (load, check, evaluate, re-baseline, notify, record) | a run holds its copy for the seconds a check takes and then writes it back whole; every call may fail | `MonitorRuns`, `MonitorHistory` |
| Settings and authentication: `internal/api/v1/settings.go`, `auth.go`, `internal/settings`, `internal/api/middleware.go` | the singleton settings document, session cookies | update, login, `RequireAuth` | read-modify-write of one document by concurrent requests | `SettingsAuth` |
| Tokens and schedules: `internal/api/v1/settings.go`, `internal/storage/*/settings.go` | two tables | create, update, delete | read-modify-write of a schedule; the process ends between a statement and its answer | `Tables` |
| History: `internal/api/v1/history.go`, `SaveCheck`, `ListChecks`, `DeleteCheck` | table `checks` | save, delete, read page by page | offsets into a list that grows while it is read; equal times | `Tables` |
| Process: `cmd/dnsmon/main.go`, `New` and `migrate` of the store | main goroutine, listener, database connection, requests in progress | start, migrate, listen, stop, crash | a listener goroutine that Stop may overtake, a deadline for draining, hijacked sockets, a migration cut short | `Lifecycle` |
| Notifications: `internal/notify` | none | send | a delivery may be reported as failed although it arrived | `MonitorRuns` |
| Trace: `internal/checker/trace.go`, `internal/api/v1/trace.go` | the list of next servers, the steps so far | one query per hop, UDP then TCP; gather the next servers | loops in delegations, hop limit, three sources of addresses that each may fail | `Trace` |
| Rate limiter: `internal/ratelimit` (not installed by the server, `README.md:486`) | token buckets | allow, evict | lazy refill against eviction | `RateLimit`, `TokenBucket` |
| Resolver registry: `internal/resolvers` | resolver list and index | reload, get, all | duplicate ids | `PropagationCheck` |
| Lookup, reverse: `internal/api/v1/lookup.go`, `reverse.go` | none of their own | one query, a check | – | `PropagationCheck` |
| Export, geoip, HTTP server, configuration, frontend | none of their own | read, format, route | – | not modelled, see section 7 |

How they interact. `StreamCheck` and `PostCheck` call the checker; the checker
reads the registry and the disabled resolvers in the settings, and its workers
share the cache and call the DNS client. A monitor's run calls the same `Check`
with `NoCache` and then writes to the monitor tables and to a notification
channel named in the settings. Everything persistent is in one store; with SQLite
it has one connection (`SetMaxOpenConns(1)`), so statements are atomic and
ordered, but no handler opens a transaction: requests interleave between
statements. Nothing locks across handlers. `main` starts the process, which opens and
migrates the store before it listens, and on a signal shuts the server down within
thirty seconds and closes the store; the handlers run inside that life, and whatever
they have not written when it ends is lost.

What makes each part correct:

- streamed check: only complete checks are persisted; no send on a closed
  channel; the client sees every result before `done`; all goroutines end;
- propagation check and cache: bounded concurrency and size, results attributed
  to the resolver that was asked, no result older than promised, every check
  returns;
- summary: 100 % means unanimous, the ETA is when it will be, arrival order is
  irrelevant;
- monitors: the stored row stays valid, each change is one alert, the changelog claims
  no alert that was not delivered and accounts for the stored baseline, a deleted
  monitor stays deleted;
- process: it serves only a migrated store, drains before it closes the store, and
  ends when told to;
- tables: what was acknowledged stays, a deleted schedule stays deleted, the columns
  agree with the documents, a reader of the history misses nothing;
- settings: nobody is locked out, sessions survive, a login changes nothing but
  the secret;
- trace: it follows the referrals, never to a private address, gives up only for a
  reason, and ends;
- rate limiter: no window admits more than the burst and the sustained rate allow, and
  lazy refill cannot be told from buckets that fill all the time.

## 2. Modules and their correspondence to the code

**`CheckStream`.** One request of `/api/v1/check/stream`. `worker[r]`, `coord` and
`handler` are the program counters of the three kinds of goroutines that
`Checker.Stream` and `StreamCheck` run; `sem`, `results`, `resultCh`, `doneCh`,
`closed` and `ctx` are the variables of the same names. There is one action per
statement that another goroutine can observe: `Acquire`, `QueryReturns`,
`SendResult` or `DropResult` (the two arms of the select), `AppendResult`,
`WaitReturns`, `CheckContext`, `SaveCheck`, `SendSummary`, `CloseDone` and
`CloseResult` (the deferred closes, in reverse order), and on the handler's side
the writes of frames and the receives. The environment is the browser (`Disconnect`,
`StallOrResume`), the library goroutine that cancels the context when the peer is
gone (`CloseReadCancels`) and `program.Stop`, which closes the store without
waiting for hijacked sockets (`StoreCloses`). A result is the resolver it is
about.

**`StreamedCheck`.** The abstract specification of a streamed check, as the page sees
it: results are shown one at a time, the check is kept under its id at most once, and
done comes after every result and after everything that is kept. `CheckStream`
implements it with `shown` and `done` mapped to the frames on the socket and `kept` to
the row in the store.

**`PropagationCheck`.** POST checks, reverse checks, lookups and monitor checks in
progress together, over the registry that `Reload` builds from the builtin list and
the resolvers file. A lookup is a check of one resolver without the cache.
`check[c]` is a call of `Checker.Check`, `work[c][i]` the goroutine that fills
`results[i]`, `cache` the memory cache. `Acquire` takes a semaphore token and does
the `Get`; `Exchange` is the end of one `ExchangeContext` with its three outcomes
(a final result, a timeout that is retried, an error because of cancellation);
`Returns` stores and delivers. A step contains at most one cache access, together
with what the goroutine does alone around it: steps that no other goroutine
observes are not separated. Time is counted in ticks of `dns.query_timeout` and
kept as ages instead of a clock, so no bound on time is needed: an entry has
`left` until `expiresAt` and a result the `age` of its query, not told apart
beyond `Old`. A resolver has an id and an address: the list holds both, the index of
`Get` keeps the last entry of an id, `cache.Key` hashes the id only, and an answer is
about the address that was asked. A resolvers file may repeat an id (`registry.go:109`),
and a request may bring resolvers of its own, which share the empty id.

**`CheckSummary`.** `buildSummary` and `answersKey` as operators over a sequence of
results; the one action appends a result, so that the reachable states are all
result lists up to the bounds. The map iteration that picks the majority is a
choice among all most common keys (`Majorities`).

**`MonitorRuns`.** Each HTTP request is a process with a pc and its own copy of a
monitor (`req[c].m`), an event under construction and the baseline an alert
replaces. One step is one store statement, one check or one delivery. `Fault`
lets any call fail within a bound and `Crash` kills all requests; a store call that
fails may have been carried out all the same (`StoreCall`). `Consensus`
returns any of the most common lists, as the map iteration of `consensus` does.
`alerts`, `issued`, `deleted` record what was promised to somebody. `Send` is what a
delivery may come to (`internal/notify`): it is refused or lost, it arrives, or it
arrives and is still reported as failed.

**`MonitorHistory`.** `MonitorRuns` with history variables, which no action reads. The
code does nothing against two requests for one monitor overlapping, so what it says of
alerts and deletes is not true of every behaviour (two runs below show it). The history
says when one of the events has happened that break it, per monitor: `crossed`, a run
could not save its baseline or replaced another one than it had evaluated; `caught`, the
row was deleted while another request had it in hand; `unpurged`, the second statement
of a delete failed; `unlogged`, an update has set the baseline, or the entry for it was
lost. `era` counts the changes of the stored baseline, `base` is the era a run has
loaded, and `reported` the eras that alerts reported as over, so that two alerts for one
change can be told from two changes between the same values. The properties say that
nothing but these events breaks what the code promises, under any interleaving, failure
or crash.

**`SettingsAuth`.** The settings document with its credentials, its signing secret
and the rest as one opaque value; requests read it, change their copy and write it
back. A hash is the password it verifies; a session is the secret and the name it
was signed with; `ParseSession` refuses a name with a bar because it splits the
payload at the first one. `stale` and `clobbered` are history variables: which
copies in flight are older than the row, and whether one was ever written. They
let the properties say exactly when the unprotected read-modify-write is harmless.

**`Trace`.** One POST /trace. `Trace` and `traceStep` are the steps `ExchangeUDP`,
`ExchangeTCP` (the retry), `GatherGlue` and `GatherLookup` (one NS record of the
referral each) and `Advance` (the loop). Name servers and the system resolver answer
anything: a referral is a list of NS names and the IPv4 and IPv6 glue of each, which
may be private; a lookup fails or returns any set of addresses. `servers`, `next` and
`steps` are the variables of the code, `resp` its glue maps; `seen` holds the elements
of `next`. A step of the trace also records which usable addresses its referral
offered, which the properties refer to. A cancelled request is an error of an
exchange or of a lookup.

**`RateLimit`, `TokenBucket`.** `TokenBucket` is the abstract specification: one bucket
per client, full at first, filled by a rate up to a burst, emptied by a token per
admitted request, and forgotten only after the cutoff. `RateLimit` is the code: buckets are made on use,
refilled by `Allow` (also when it refuses), dropped by `evictStale` when idle beyond
the cutoff. It implements `TokenBucket` with `available` mapped to what `Allow` would
find after its refill. A client that was idle beyond the cutoff may be forgotten by
both, and then starts with a full bucket. Time is discrete, and tokens are counted in
parts (`Unit` of them to a token) so that a tick may add a fraction, which stands for
the code's floating point numbers; rounding is not modelled. Eviction may come at any
time. `New` takes any rate and burst, and so do the constants: with a burst above five
minutes' worth of the rate, eviction hands out a burst per `Period` (the fewest ticks
after which a bucket is dropped), which is more than the rate. `Sustained` is the larger
of the two, and `excess`, a history variable, the largest amount by which any window
that ends now exceeded it.

**`Lifecycle`.** The process: `proc` is the main goroutine (start, migrate, wire,
running, shutdown, close), `server` the goroutine of `run` and its listener, `store`
the connection, `applied` the migration statements that the database has seen.
`Migrate` runs every statement of every script at each start, as `migrate` does, with
a failure or a crash possible between any two. `Listen` returns at once when
`Shutdown` came first (`ErrServerClosed`), and `ListenFails` has the two outcomes of a
bind error. `ShutdownReturns` and `ShutdownExpires` are the two ways out of
`Shutdown`: no plain request left, or thirty seconds over. A hijacked request is one
that `Shutdown` does not wait for. `Accept`, `Hijack` and `Finish` are what a request
does to the process.

**`Tables`.** `Lifecycle` with the handlers of tokens, schedules and checks, composed
by conjunction: a step of a handler that arrives, hijacks or returns is also the step
of the process. `h[c]` is the handler of a request with its id and its document. A
statement of the SQLite driver is one step (`CreateAPIToken`, `SaveSchedule`,
`SaveCheck`, `DeleteAPIToken`, `DropSchedule` for the store's `DeleteSchedule`,
`DeleteCheck`, `ListChecks`), which may fail, take effect with an error reported, or
meet a closed store; the answer is a step of its own. A schedule is its document and
the columns the driver fills from it, so the upsert that leaves `created_at` alone is
modelled as it is. The rows of a check carry the row number by which SQLite orders
equal times. Tables do not interact, so each behaviour is about one of them (`topic`).
`reader` is a client that pages through the history. `acked`, `doomed`, `gone` and
`overlapped` are history variables. A POST /check with `save` false is answered
without a row and claims none (`AnswerOnly`).

**`CheckStreamProofs`, `PropagationCheckProofs`, `CheckSummaryProofs`,
`MonitorRunsProofs`, `SettingsAuthProofs`, `TraceProofs`, `RateLimitProofs`,
`TablesProofs`** hold the theorems (section 5); `CheckStreamProofs` also has the
refinement of `StreamedCheck`, `TablesProofs` the theorems about `Lifecycle`,
`MonitorRunsProofs` those about `MonitorHistory`. `MCPropagationCheck`,
`MCSettingsAuth` and `MCTables` give TLC a registry, a symmetry and the numbers of ids.

Definitions named "Mutant of X" replace X by a plausible mistake; each property
has one that breaks it.

### Abstractions shared by the modules

- Answers are opaque: value lists in `MonitorRuns` are compared up to order, as
  `setEqual` does, and `CheckSummary` represents the joined key of `answersKey` by
  the multiset of values, which is the same for values without a comma.
- `channelOn` in `MonitorRuns` is chosen once per behaviour.
- Requests that validation refuses change no state and are not steps, except where
  the refusal itself has an effect (`RejectRequest` writes an error frame).
- In `PropagationCheck` only exchanges and waiting take time.

## 3. Runs

Passing runs:

| Run | Bounds | Checks | States |
|---|---|---|---|
| `stream` | 3 resolvers, 2 slots, `resultCh` of 1 | `TypeOK`, `PersistedComplete`, `NoSendAfterClose`, `DoneAfterEveryResult`, `IsStreamedCheck`, `ReleasedUnlessStalled` | 223 000 |
| `check` | a POST request and a monitor's, lists up to 3, 2 slots, 1 retry, TTL 1, cache of 1, a resolver without an id, with fairness | `TypeOK`, `OwnAnswers`, `CachedIsRecent`, `MonitorsLive`, `EveryCheckReturns` | 307 000 |
| `summary` | lists of up to 3 results, up to 2 answers each, 2 values, 2 TTLs | `ConvergedMeansUnanimous`, `OrderIrrelevant`, `ConvergesByEta` | 14 000 |
| `monitor_concurrent` | two requests interleaved, 4 requests of all kinds, 3 value lists, 1 fault or crash | `TypeOK`, `PropagationHasExpected`, `NotifiedWasSent`, `ChangeAlertsOnce`, `DeletedStays`, `BaselineRecorded` | 2 560 000 |
| `settings` | two requests interleaved (symmetric), 2 user names, one of them with a bar, 2 secrets | `TypeOK`, `EnabledHasCredentials`, `SessionsHold`, `LoginKeepsSettings` | 1 900 000 |
| `trace` | 2 name servers, 2 IPv4, 1 IPv6 and 1 private address, limit of 3 steps, with fairness | `TypeOK`, `ChainOfReferrals`, `PublicOnly`, `StopsForAReason`, `TraceEnds` | 183 000 |
| `rate_limit` | 2 clients, half a token per tick, burst of 2.5 tokens, cutoff of 2 ticks | `TypeOK`, `WindowBound`, `IsTokenBucket` | 4 000 |
| `server` | 2 requests, 2 starts, 2 migration statements, 2 tokens or 1 schedule or 2 checks or a history of 3, pages of up to 2, 2 clock values, with fairness of Stop | `TypeOK`, `GraceKept`, `ServedReady`, `AckedKept`, `RevivedOnlyByOverlap`, `ColumnsAgree`, `PagedAll`, `StopReturns` | 625 000 |

Why the bounds are enough. `stream` has more workers than slots, and more results
than the channel holds, so that workers wait at the semaphore and at the channel,
and a disconnect meets every combination of them. `check` has three workers for two
slots whose list may name one resolver several times, so workers race on one key of
a cache that a second key must evict; a retry and a TTL of one tick make entries
that are stored late, expire and are replaced. Two POST checks that overlap add no
other access to the cache than two workers of one check do, except that they are
cancelled separately; a request that comes after the cancelled one reads what it
left. `monitor_concurrent` lets an update, a delete or a second run fall between any two
statements of a run; after the create, three requests are what it takes for two alerts
and something between them, and the history variables are sharp: without any one of
them as an exception TLC finds a counterexample. `settings` has two secrets because it takes two to lose one. `trace` has two name
servers, so that the second may repeat an address of the first, and enough addresses
for each source to offer something new, something seen and something refused; three
steps reach a referral back to the root and the limit. `rate_limit` has a burst that
takes longer than the cutoff to refill, so that eviction makes a difference, and that is
not a whole number of tokens. `server` starts twice, so that the second process
finds what a crash of the first left: part of a schema, rows without an answer. Two
requests are what it takes to overlap an update with a delete, or a save with a page;
one schedule is enough because a statement touches one row, while the history has three
checks for pages of one and two to overlap. Two clock values give equal and unequal
times.

What the passing runs show is stated above each property in the modules. Some need
a word:

- `ReleasedUnlessStalled` excludes the client that keeps the socket open and stops
  reading: the hijacked connection has no write deadline, and such a client keeps
  the handler and the workers for ever.
- `SessionsHold` and `LoginKeepsSettings` speak of copies that are not stale.
  Without that condition they fail, which `settings_secret_kept` shows.
- `RevivedOnlyByOverlap` does not say that a deleted schedule stays deleted: an update
  that read it before the deletion writes it back (`settings.go:331`). The property
  bounds this to updates in flight, `ColumnsAgree` says that the row is then consistent.
- `AckedKept` speaks of ids a client was told; the done frame of a stream is not counted,
  since it is sent whether the check was saved or not. A row may exist that nobody was
  told of: a client that loses the answer of `CreateToken` leaves a token behind whose
  secret nobody knows.
- `PagedAll` leaves deletions out: one moves the rows behind it past the reader. Equal
  times come in the order of the row numbers because the index on `created_at` is read
  backwards; Postgres promises no order between equal times.
- `NotifiedWasSent` does not hold the other way round: an alert that arrived may be
  recorded as not sent, when the answer of the channel is late or an error.
- `ChangeAlertsOnce` counts alerts for one replaced baseline, whatever the values; a
  value that changes back and forth alerts each time. It bounds what
  `monitor_alerts_once` shows to the monitors where a run wrote over a baseline that it
  had not evaluated, or could not save its own.
- `DeletedStays` bounds what `monitor_deleted` shows to rows that were deleted while
  another request had the monitor in hand: later requests, failures and crashes bring
  nothing back. Its events stay away too if the second statement of the delete did not
  fail; that error is dropped (`internal/storage/sqlite/monitors.go:79`).
- `BaselineRecorded` covers the baseline that is captured without an alert after an
  outage (`monitor.go:85`): there the changelog is the only place that tells of it.
- `ConvergesByEta` lets the TTLs run down and computes the percentage again. With a
  resolver that answered NXDOMAIN or nothing there is no time after which it is 100,
  and the code reports the time after which only such resolvers are left.
- `OwnAnswers` speaks of addresses for checks without the cache and for ids that stand
  for one address; of ids otherwise. `check_by_address` shows that it cannot be stronger.

Runs that show a disagreement between the code and what it says of itself:

| Run | Statement | What happens |
|---|---|---|
| `monitor_alerts_once` | "each distinct change alerts once" (`monitor.go:95`) | two overlapping runs evaluate the same baseline and both alert |
| `monitor_deleted` | "removes a monitor and its events" (`sqlite/monitors.go:70`) | a run that loaded the monitor before the delete inserts it again (`monitor.go:98`) after the delete was answered |
| `check_by_address` | the cache key is `sha256(name + "\|" + type + "\|" + resolverIP)` (`docs/ARCHITECTURE.md:127`) | the key hashes the id: with an id that two addresses share, a check is given the answer of the address it did not ask |
| `settings_secret_kept` | "generate and persist a signing secret on first login" (`auth.go:51`) | a second first login, or an update with an older copy, replaces the secret |

Observed while modelling, without a run of its own:

- "Zero means already fully propagated" (`internal/dnsclient/result.go:94`): the ETA
  is also zero when resolvers diverge by NXDOMAIN or by an empty answer, which have no
  TTL to contribute (`checker.go:378`). `ConvergesByEta` says exactly when.
- "ParseSession reverses it" (`internal/settings/session.go:17`): a bar in the user
  name, which `UpdateSettings` accepts, shifts the fields of the payload, and the
  sessions of that user are refused (`session.go:38`). `ParseSession` of `SettingsAuth`
  models it.
- "Retry over TCP on truncation or timeout" (`trace.go:93`): the retry follows an error
  of the exchange; a truncated response is not one and is used as it is.
- "We strongly prefer IPv4" (`trace.go:166`): when the system resolver fails, the IPv6
  glue of an earlier name server precedes the IPv4 glue of a later one, and only the
  first address is asked.
- `Stream` drops the error of `SaveCheck` and sends `done` with the id all the same
  (`stream.go:112`).
- When no resolver answers, the empty list becomes the baseline of a change monitor
  and the next value is captured, without an alert, as if there had never been one
  (`monitor.go:85`).
- A run or a settings update that was read earlier overwrites an operator's edit.
- "under a service manager the manager decides on restart policy" (`main.go:162`): after
  a bind error the goroutine of `run` returns and the process stays up without a
  listener, so the manager sees nothing to restart.
- The no-op driver acknowledges every write and keeps nothing; `AckedKept` is about the
  SQLite driver.
- `docs/ARCHITECTURE.md:177` says the `total` frame is sent before any query
  begins; the workers are started first.
- `docs/CONFIGURATION.md:104` describes a purge job; `PurgeOldChecks` is called
  nowhere.

## 4. Fairness

Only liveness properties assume fairness, and only weak fairness of steps of the
program itself: a goroutine that can continue does, which the Go scheduler
guarantees; a query ends, because every exchange has a timeout and attempts are
counted; wake-ups of channels and semaphores need no strong fairness because each
worker competes for a slot once. `CloseReadCancels` is fair because the WebSocket
library reads until the connection ends. `StopReturns` assumes that `Stop`, once it
runs, goes on to its end: it waits for nothing but the deadline of its context. Nothing
is assumed of clients, of requests, of time, or that a signal ever comes. `TraceEnds` assumes that the trace goes on while it can: exchanges
end by their timeout, lookups by the resolver's.

## 5. Proofs

Every safety invariant and action property that a passing run checks is also proved, as
are both refinements. All theorems hold for every value of the constants under the
assumptions named in the modules (`N` a natural number, the channel capacity positive,
the empty list one of the value lists, the empty string no user name, at least one
record value and one name, and so on), all of which the code justifies; no theorem has
another hypothesis. TLC checked each inductive invariant on the
configuration of its run before it was proved.

**`CheckStreamProofs`**: `TypeCorrect`, `PersistedIsComplete`, `NeverSendsOnClosed`.
The inductive invariant `SafetyInv` adds to the types

- `SemCounts`: the tokens in the semaphore are exactly the workers between
  `Acquire` and their return. Without it the release could take a token from an
  empty channel; the proof counts with `FS_AddElement` and `FS_RemoveElement`;
- `Control`: before `Stream` is called nothing runs, after `wg.Wait` no worker does,
  and only the last steps of the coordinator persist or close anything. This is what
  `NoSendAfterClose` follows from;
- `Collected`: as long as the context is live no outcome is aborted, and a worker
  that ended has appended its result once. With the context check before the save it
  gives `PersistedComplete`.

There too: `DoneComesLast`, `ImplementsStreamedCheck`. The invariant
`Delivery` follows a result on its way: `Flow` says that the result of a worker which
sent it is in the channel, in the handler's hand or among the frames, unless the handler
gave up; `Once` that it is in one place only; `Written` ties the frames to the handler's
pc. Since the channel is closed only when no worker runs, a handler that finds it closed
and empty has written all of them, which is `DoneAfterEveryResult`. The refinement needs
in addition that done is on the socket only when the coordinator has ended (`Written`),
so that no save follows it.

**`MonitorRunsProofs`**: `MonitorsTyped`, `PropagationMonitorsAreValid`. A run with an
empty baseline may write its copy over a monitor that an update has made a
propagation monitor in the meantime. The row stays valid because the copy is
written whole and is a change monitor: `CopiesValid` says so of every copy in
flight, and makes `PropagationHasExpected` inductive.

`NotifiedWereSent` is about the same concurrent, failing and crashing requests. An alert
goes out before its event is recorded, so the changelog and the alerts disagree in
between: `Accounted` counts the marks in the changelog of an id together with the
requests about to append a marked change to it, and says that they are no more than the
alerts. A request joins them only in the step that delivers an alert, and leaves them
when its mark is appended, or without one when it fails or dies.

`DeletedMonitorsStayAway`, `EachBaselineReportedOnce` and `BaselinesAreRecorded` are
about `MonitorHistory`, for any number of overlapping requests, failing calls and
crashes. `StepEffect` says once what each step does to the tables and to its request;
the three invariants use nothing else. `DeleteInv`: the monitor that a request has in
hand is stored, the row it has deleted is gone (`Attended`), both unless the row was
deleted under somebody's hands, and nobody works on an id before it is stored. A
deleted monitor that was not `caught` is thus in nobody's hands. `AlertInv`: as long as
the era that a run loaded lasts, the stored baseline is the one it evaluated
(`Current`), so a re-baseline that is not `crossed` ends that era, and the era belongs
to this run alone: no alert has reported it and no other run is about to (`OwnChange`,
`PastReported`). `RecordInv`: a run saves the value that its event holds
(`SavesObserved`); with `Attended`, no purge takes the entries of a stored monitor.

**`SettingsAuthProofs`**: `SettingsTyped`, `NeverLockedOut`, `SessionsSurvive`,
`LoginIsFrugal`. `CopiesChecked` says that a copy about to be written passed the
check for credentials, or was read while authentication was enabled; `FreshCopies`
that a copy which is not stale carries the stored secret, or brings a new one to a
row that had none. The latter makes `Signed` inductive (every session handed
out carries the stored secret until a stale copy is written), from which `SessionsHold`
follows for every name that the gate can split; the action property
`LoginKeepsSettings` follows from it for each step.

**`RateLimitProofs`**: `LimiterTyped`, `RateIsKept`, `LimiterIsTokenBucket`, for every
rate, burst and cutoff. The lemmas say what a refill yields and how each step changes
`Level(k)`, the tokens client `k` would find if it asked now: `Allow` takes a token or
nothing, eviction fills the level of a client that was idle beyond the cutoff, a tick
adds the rate up to the burst. The refinement follows step by step. `WindowBound` is not
inductive; `Covered` says that what a client was admitted beyond the sustained rate is
missing from its level, and `Decayed` that it has gone down by that rate with every tick
the bucket was idle, so that an evicted bucket has none left.

**`TablesProofs`**: `StopDrains`, `ServesOnlyReady`, `TablesRunInProcess`. The
invariant ties the progress of the main goroutine to the schema and the store: the
statements before `script` have been applied, there is no listener and no request before
the process runs, the store is open from `Boot` to `CloseStore`, and after a drained
shutdown no plain request is left. `TablesRunInProcess` shows that every step of
`Tables` is a step of the process or leaves it alone; the two invariants are proved of
the process alone and carried over to `Tables` by it.

There too, about the rows: `TablesTyped`, `AckedRowsKept`, `DeletedSchedulesStayGone`,
`ScheduleColumnsAgree`, `ReaderSeesAll`. The invariant `TableInv` has four parts: the types; `Kept`, an id
that is about to be reported as created has its row, or somebody asked to delete it;
`Fresh`, a new schedule is unknown to every other request until it is saved, and an
update of a schedule that is gone overlapped its deletion; `Agree`, all pending updates
of a schedule carry the creation time of its row. `AckedKept` rests on `Kept`,
`RevivedOnlyByOverlap` on `Fresh`, `ColumnsAgree` on `Agree`.

`PagedAll` is about ranks: a row's rank is the number of rows before it in the order of
the list. `CheckRows` says that rows have distinct ids and row numbers, and that no
number exceeds the number of ids no handler is still about to save; it makes the ranks of
the rows exactly the numbers below their count. `Reading` says that every row the reader
has still to see has a rank of at least its offset. A row that is saved meanwhile only
raises ranks, and a page that comes back short ends at the last rank, so nothing is left
behind it.

**`PropagationCheckProofs`**: `CheckTyped`, `AnswersAreOwn`, `ServesRecent`,
`MonitorsAreLive`, for any registry, repeated ids included. `OwnAnswers` rests on every
entry of the cache being about a resolver with the id in its key that a check which uses
the cache could ask (`OwnEntries`), on the lists of such checks holding no other
resolvers (`AskedLists`), and on workers being at places of the list (`PlacedWorkers`).
`CachedIsRecent` rests on `DueEntries`: the age of an entry and the
time it has left add up to at most `Life`; a tick moves one unit from the one to the
other, and a result stored late starts with the age it already has. The bounds of the
semaphore and of the cache need the finiteness of what they count. The list of a check
is built by `Only`, which keeps the enabled resolvers in their order; the proof that it
is a list of them (`NthPlace`) takes the least place up to which there are `n` kept ones.

**`TraceProofs`**: `TraceTyped`, `WalksReferrals`, `AsksOnlyPublic`, `GivesUpForAReason`.
`Walk` says, for each place of the walk, where the addresses in hand came from: the
server asked next was offered by the last step, and while next hops are gathered they are
offered ones, and there are none only if none was offered. `Public` says that whatever is
in hand, the filtered glue included, is public.

**`CheckSummaryProofs`**: `HundredMeansUnanimous`, `EtaIsWhenConverged`,
`OrderDoesNotMatter`, for lists of any length. The invariant is only that the results are
a sequence of results; the rest is counting. The percentage is 100 exactly if the largest
group is as large as all that responded, and a part of a finite set of its size is the
set. After any number of seconds those that diverge are the ones whose last answer has
not expired and those that are stuck, so the percentage is 100 from the largest of the
expiries on, which a finite non-empty set of numbers has. An order of the
results is a bijection of their places, so groups keep their size. `Values` must not be
empty: without a value the key of an empty answer would be the key of no answer.

Only model-checked: liveness (`ReleasedUnlessStalled`, `EveryCheckReturns`,
`TraceEnds`, `StopReturns`), which is outside the prover.

## 6. Plan

Done: the components of section 1 with their runs, the abstract specifications
`TokenBucket` and `StreamedCheck` with their refinements, the process with crashes and
restarts and the tables composed with it, and the proofs of the safety properties.

Left, in order of what matters most:

1. An atomic register of settings that `SettingsAuth` implements while no stale copy is
   written.
2. A changelog as an abstract specification that `MonitorHistory` implements while no
   request is caught or crossed.

## 7. Not modelled

Pure formatting (export to CSV, SVG, PNG and PDF), wire formats and record
conversion, routing, headers and logging, the read-only handlers (permalinks, resolvers,
record types, health), geoip, and the rendering in the browser have no state whose order
matters. Configuration and flags are read once, before anything runs; their values are
constants of the modules, within the documented ranges (a negative `dns.retry`, which the
configuration accepts, would leave `Query` without a response to look at,
`client.go:57`). The HTTP middlewares other than `RequireAuth` (request id, recovery,
logging, CORS, security headers) change nothing but the response; `recovery` turns a panic into a 500,
which the modules would see as a request that fails. An installed service's commands
(install, start, stop) call the service manager.

The Postgres driver has the same statements as the SQLite driver, but allows several
connections; since no handler relies on the order of two statements of different
requests, the interleavings are the same. Its times have microseconds and it promises no
order between equal ones, so `PagedAll` is about SQLite. The redis cache keeps the same
keys and expiry in a service. Ids are taken to be unique: a check's id is about 48 bits of a
hash over name, type and time, and an equal one would replace the row. Hashing of
passwords and signing of sessions are taken to be perfect.

## 8. Running

    tlc -config CheckStream.cfg CheckStream
    tlapm CheckStreamProofs.tla

and likewise for the other configurations (`PROJECT.json` names the module of each)
and proof modules. The longest run takes between two and three minutes with two workers.
