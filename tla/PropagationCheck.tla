-------------------------- MODULE PropagationCheck --------------------------
(***************************************************************************)
(* Synchronous propagation checks (Checker.Check and the fan-out behind it *)
(* in internal/checker/checker.go) that share the response cache           *)
(* (internal/cache) and query resolvers with retries                       *)
(* (internal/dnsclient/client.go).                                         *)
(*                                                                         *)
(* A check is a POST /check or /reverse, which uses the cache and may name *)
(* its resolvers and bring its own, the check of a monitor's run, which    *)
(* does neither, or a POST /lookup, which is a check of one resolver       *)
(* without the cache.  Its i-th worker queries the i-th resolver of its    *)
(* list.  A resolver is an id and an address; the resolvers file may       *)
(* repeat an id, and a request may give a resolver that it brings any id,  *)
(* or none, so several addresses may share an id.                          *)
(*                                                                         *)
(* A tick is the time after which an exchange with a resolver times out.   *)
(* Only exchanges and the wait for the semaphore take time.  Instead of a  *)
(* clock the state holds ages, which do not count beyond Old.  What a      *)
(* resolver answered is left out: a result is told apart by the resolver   *)
(* it is about, the age of its query, and whether the cancellation of the  *)
(* request ended it.                                                       *)
(*                                                                         *)
(* A step of a worker holds at most one access to the cache, and all that  *)
(* the goroutine does alone before and after it.                           *)
(***************************************************************************)
EXTENDS Integers, Sequences, FiniteSets

CONSTANTS
    Posts,          \* POST requests that may be in progress together
    Monitors,       \* runs of monitors that may be in progress together
    Known,          \* ids of resolvers that are built in or in the resolvers file
    NoId,           \* an id that is not known, such as the empty one
    Addresses,      \* addresses of resolvers
    NoAddress,      \* the empty one
    Builtin,        \* the builtin resolvers, or none if they are switched off
    File,           \* the resolvers of the file, or none
    Customs,        \* resolvers that requests bring
    Names,          \* domain names (with a record type)
    Slots,          \* cfg.DNS.PerResolverConcurrency
    MaxResolvers,   \* maxResolvers (200 in the code)
    Retry,          \* cfg.DNS.Retry
    TTL,            \* cfg.Cache.TTL, in ticks
    Size            \* capacity of the cache

Ids == Known \cup {NoId}

Resolvers == [id : Ids, ip : Addresses]

ASSUME RegistryAssumption ==
    /\ NoId \notin Known /\ IsFiniteSet(Known) /\ NoAddress \in Addresses
    /\ {Builtin, File} \subseteq Seq(Resolvers)
    /\ Customs \subseteq Resolvers
ASSUME ChecksAssumption == Posts \cap Monitors = {} /\ Names # {}
ASSUME LimitsAssumption ==
    /\ Slots \in Nat \ {0} /\ MaxResolvers \in Nat \ {0} /\ Size \in Nat \ {0}
    /\ Retry \in Nat /\ TTL \in Nat

VARIABLES
    cache,   \* the entry under each key
    check,   \* state of each check
    work     \* state of each worker of each check

vars == <<cache, check, work>>

Checks == Posts \cup Monitors

Positions == 1..MaxResolvers

Lists(S) == UNION {[1..n -> S] : n \in 0..MaxResolvers}

\* The longest a query and the life of its entry in the cache may take together.
Life == TTL + Retry + 1

\* Ages from here on are not told apart.
Old == Life + 1

Ages == 0..Old

Older(age) == IF age < Old THEN age + 1 ELSE Old

Results == [resolver : Resolvers, status : {"ended", "aborted"}, age : Ages]

NoResolver == [id |-> NoId, ip |-> NoAddress]

NoResult == [resolver |-> NoResolver, status |-> "none", age |-> 0]

\* A result in its place in results; the status is kept for monitors only.
Outcomes == [resolver : Resolvers, aborted : BOOLEAN]

NoOutcome == [resolver |-> NoResolver, aborted |-> FALSE]

\* Mutant of Key: the resolver is left out of the key.
KeyOfName(resolver, name) == <<NoId, name>>

\* cache.Key: the resolver's id, not its address, and the question.
Key(resolver, name) == <<resolver.id, name>>

Keys == Ids \X Names

\* An entry and the time left until it expires.
Entries == [result : Results, left : -1..TTL]

NoEntry == [result |-> NoResult, left |-> -1]

Worker == [pc : {"none", "start", "exchange", "exit"}, tries : 0..Retry, due : BOOLEAN,
           outcome : Outcomes]

Check == [running : BOOLEAN, cancelled : BOOLEAN, name : Names, noCache : BOOLEAN,
          list : Lists(Resolvers)]

\* Workers of c that hold a token of its semaphore.
Holding(c) == {i \in Positions : work[c][i].pc = "exchange"}

Cached == {k \in Keys : cache[k] # NoEntry}

\* Types, and the bounds of the semaphore and of the cache.
TypeOK ==
    /\ cache \in [Keys -> Entries \cup {NoEntry}]
    /\ check \in [Checks -> Check]
    /\ work \in [Checks -> [Positions -> Worker]]
    /\ \A c \in Checks : Cardinality(Holding(c)) <= Slots
    /\ Cardinality(Cached) <= Size

NoWorker == [pc |-> "none", tries |-> 0, due |-> FALSE, outcome |-> NoOutcome]

NoCheck == [running |-> FALSE, cancelled |-> FALSE, name |-> CHOOSE n \in Names : TRUE,
            noCache |-> FALSE, list |-> <<>>]

Init ==
    /\ cache = [k \in Keys |-> NoEntry]
    /\ check = [c \in Checks |-> NoCheck]
    /\ work = [c \in Checks |-> [i \in Positions |-> NoWorker]]

-----------------------------------------------------------------------------
(* Check: the resolver list, and one goroutine per element of it.          *)

\* The elements of a sequence that are in S, in their order: the n-th of them is at the
\* place up to which there are n.
Only(s, S) ==
    LET kept == {i \in 1..Len(s) : s[i] \in S}
    IN  [n \in 1..Cardinality(kept) |->
            s[CHOOSE i \in kept : Cardinality({j \in kept : j <= i}) = n]]

IsValid(resolver) == resolver.ip # NoAddress

\* Load and LoadFile: the valid resolvers, also those with an id that was seen before.
Load(resolvers) == Only(resolvers, {r \in Resolvers : IsValid(r)})

\* registry.Reload; registry.All returns the list.
All == Load(Builtin) \o Load(File)

\* The ids that registry.Get finds, and the resolver it returns: the one that was
\* loaded last.
Registry == {All[i].id : i \in 1..Len(All)}

Get(id) ==
    LET same == Only(All, {r \in Resolvers : r.id = id})
    IN  same[Len(same)]

\* The named resolvers, or all of the registry, without the disabled ones, and then
\* the request's own, cut off at maxResolvers.
buildResolverList(ids, custom, disabled) ==
    LET named == IF ids = <<>> THEN All ELSE [i \in 1..Len(ids) |-> Get(ids[i])]
        list  == Only(named, {r \in Resolvers : r.id \notin disabled}) \o custom
    IN  SubSeq(list, 1, IF Len(list) < MaxResolvers THEN Len(list) ELSE MaxResolvers)

Start(c, name, noCache, list) ==
    /\ ~check[c].running
    /\ check' = [check EXCEPT ![c] = [NoCheck EXCEPT !.running = TRUE, !.name = name,
                                                     !.noCache = noCache, !.list = list]]
    /\ work' = [work EXCEPT ![c] =
          [i \in Positions |-> IF i <= Len(list) THEN [NoWorker EXCEPT !.pc = "start"]
                               ELSE NoWorker]]
    /\ UNCHANGED cache

\* The condition of validateRequest that a well-formed body can fail.
validateRequest(ids, custom) == Len(ids) + Len(custom) <= MaxResolvers

\* POST /check; a request that is refused changes nothing.  The set of disabled
\* resolvers is empty when the settings cannot be read.
PostCheck(c) ==
    \E name \in Names, ids \in Lists(Registry), custom \in Lists(Customs),
       disabled \in SUBSET Registry :
        /\ validateRequest(ids, custom)
        /\ Start(c, name, FALSE, buildResolverList(ids, custom, disabled))

\* POST /reverse: a check for a PTR record; the name cannot be a private one.
PostReverse(c) ==
    \E name \in Names, ids \in Lists(Registry), disabled \in SUBSET Registry :
        /\ validateRequest(ids, <<>>)
        /\ Start(c, name, FALSE, buildResolverList(ids, <<>>, disabled))

\* Lookup: one query of a resolver of the registry, unless it is disabled.
Lookup(c, name, id, disabled) == id \notin disabled /\ Start(c, name, TRUE, <<Get(id)>>)

\* Lookup of what is not in the registry: an address, under an id of its own.
LookupAddress(c, name, ip) == Start(c, name, TRUE, <<[id |-> NoId, ip |-> ip]>>)

\* POST /lookup; an address that is not public is refused.
PostLookup(c) ==
    \E name \in Names :
        \/ \E id \in Registry, disabled \in SUBSET Registry : Lookup(c, name, id, disabled)
        \/ \E ip \in Addresses \ {NoAddress} : LookupAddress(c, name, ip)

\* The check of a monitor's run.
MonitorCheck(c) ==
    \E name \in Names, disabled \in SUBSET Registry :
        Start(c, name, TRUE, buildResolverList(<<>>, <<>>, disabled))

-----------------------------------------------------------------------------
(* queryWithCache around client.Query.                                     *)

KeyOf(c, i) == Key(check[c].list[i], check[c].name)

\* Worker i of c has its result: it takes its place in results, the token is released.
Deliver(c, i, result) ==
    LET outcome == [resolver |-> result.resolver,
                    aborted |-> check[c].noCache /\ result.status = "aborted"]
    IN  work' = [work EXCEPT ![c][i] = [NoWorker EXCEPT !.pc = "exit", !.outcome = outcome]]

\* Memory.Set.  A full cache evicts an entry: the least recently used one in the
\* library, any one here.
CacheSet(k, result) ==
    \E out \in IF k \notin Cached /\ Cardinality(Cached) = Size THEN Cached ELSE {k} :
        cache' = [[cache EXCEPT ![out] = NoEntry] EXCEPT ![k] = [result |-> result, left |-> TTL]]

\* The time since Query was entered: a timeout takes a tick.
Elapsed(w) == w.tries + IF w.due THEN 1 ELSE 0

\* Query returns after the given time; whatever it returned is stored.
Returns(c, i, status, time) ==
    LET result == [resolver |-> check[c].list[i], status |-> status, age |-> time]
    IN  /\ Deliver(c, i, result)
        /\ IF check[c].noCache THEN UNCHANGED cache ELSE CacheSet(KeyOf(c, i), result)

\* The next attempt of Query: select on ctx.Done, then the exchange.
Attempt(c, i, tries) ==
    \/ /\ check[c].cancelled
       /\ Returns(c, i, "aborted", tries)
    \/ /\ ~check[c].cancelled
       /\ work' = [work EXCEPT ![c][i] = [NoWorker EXCEPT !.pc = "exchange", !.tries = tries]]
       /\ UNCHANGED cache

\* Mutant of Fresh: entries do not expire.
FreshForEver(k) == cache[k] # NoEntry

\* Memory.Get: an entry is served up to and including the moment it expires at.
Fresh(k) == cache[k] # NoEntry /\ cache[k].left >= 0

\* Mutant of Acquire: the cache is consulted for every check.
AcquireForCache(c, i) ==
    /\ work[c][i].pc = "start"
    /\ Cardinality(Holding(c)) < Slots
    /\ IF Fresh(KeyOf(c, i))
       THEN Deliver(c, i, cache[KeyOf(c, i)].result) /\ UNCHANGED cache
       ELSE Attempt(c, i, 0)
    /\ UNCHANGED check

\* Mutant of Acquire: the semaphore is not consulted.
AcquireUnbounded(c, i) ==
    /\ work[c][i].pc = "start"
    /\ IF ~check[c].noCache /\ Fresh(KeyOf(c, i))
       THEN Deliver(c, i, cache[KeyOf(c, i)].result) /\ UNCHANGED cache
       ELSE Attempt(c, i, 0)
    /\ UNCHANGED check

\* A token of the semaphore and then, unless noCache, Get: a hit is the result,
\* whoever stored it.  (Get removes an expired entry, which no Get would serve.)
Acquire(c, i) ==
    /\ work[c][i].pc = "start"
    /\ Cardinality(Holding(c)) < Slots
    /\ IF ~check[c].noCache /\ Fresh(KeyOf(c, i))
       THEN Deliver(c, i, cache[KeyOf(c, i)].result) /\ UNCHANGED cache
       ELSE Attempt(c, i, 0)
    /\ UNCHANGED check

\* Mutant of Exchange: attempts are not counted.
ExchangeUncounted(c, i) ==
    LET w == work[c][i]
    IN  /\ w.pc = "exchange"
        /\ \/ Returns(c, i, "ended", Elapsed(w))
           \/ w.due /\ w.tries < Retry /\ Attempt(c, i, w.tries)
        /\ UNCHANGED check

\* An answer, an error or the last timeout; a timeout that is retried; or the error of
\* an exchange whose context was cancelled.
Exchange(c, i) ==
    LET w == work[c][i]
    IN  /\ w.pc = "exchange"
        /\ \/ Returns(c, i, "ended", Elapsed(w))
           \/ w.due /\ w.tries < Retry /\ Attempt(c, i, w.tries + 1)
           \/ check[c].cancelled /\ Returns(c, i, "aborted", Elapsed(w))
        /\ UNCHANGED check

\* wg.Wait returns, the summary is built, the check is saved if that was asked for,
\* and the check or the error of SaveCheck is the answer.
Answer(c) ==
    /\ check[c].running
    /\ \A i \in 1..Len(check[c].list) : work[c][i].pc = "exit"
    /\ check' = [check EXCEPT ![c] = NoCheck]
    /\ work' = [work EXCEPT ![c] = [i \in Positions |-> NoWorker]]
    /\ UNCHANGED cache

\* The client of a check goes away.
Cancel(c) ==
    /\ check[c].running /\ ~check[c].cancelled
    /\ check' = [check EXCEPT ![c].cancelled = TRUE]
    /\ UNCHANGED <<cache, work>>

\* Time passes; an exchange lasts a tick at most.
Tick ==
    /\ \A c \in Checks, i \in Positions : ~work[c][i].due
    /\ cache' = [k \in Keys |->
          IF cache[k] = NoEntry THEN NoEntry
          ELSE [result |-> [cache[k].result EXCEPT !.age = Older(@)],
                left |-> IF cache[k].left >= 0 THEN cache[k].left - 1 ELSE -1]]
    /\ work' = [c \in Checks |-> [i \in Positions |->
          [work[c][i] EXCEPT !.due = work[c][i].pc = "exchange"]]]
    /\ UNCHANGED check

WorkerStep(c, i) == Acquire(c, i) \/ Exchange(c, i)

Next ==
    \/ \E c \in Posts : PostCheck(c) \/ PostReverse(c) \/ PostLookup(c)
    \/ \E c \in Monitors : MonitorCheck(c)
    \/ \E c \in Checks :
          \/ Answer(c) \/ Cancel(c)
          \/ \E i \in Positions : WorkerStep(c, i)
    \/ Tick

Spec == Init /\ [][Next]_vars

(* Goroutines that can go on do; an exchange ends by its timeout.          *)
Fairness ==
    \A c \in Checks : WF_vars(Answer(c)) /\ \A i \in Positions : WF_vars(WorkerStep(c, i))

FairSpec == Spec /\ Fairness

-----------------------------------------------------------------------------
(* Properties.                                                             *)

Delivered(c, i) == work[c][i].pc = "exit"

\* The resolvers that a check which uses the cache can ask, and those of their ids that
\* stand for one address only.
Asked == {All[i] : i \in 1..Len(All)} \cup Customs

Unambiguous(id) == \A q, r \in Asked : q.id = id /\ r.id = id => q = r

\* What a check that asked one resolver may be given as the answer of another: the same
\* id, and the same address unless the cache was used and the id leaves it open.
IsAnswerOf(resolver, asked, noCache) ==
    /\ resolver.id = asked.id
    /\ noCache \/ Unambiguous(asked.id) => resolver = asked

(* results[idx] of fanOut is the answer of the idx-th resolver of the      *)
(* list, address included, although the cache is shared and knows          *)
(* resolvers by id: for every check that does not use the cache, and for   *)
(* every resolver whose id stands for one address.  Where addresses share  *)
(* an id, the answer is still one of that id.                              *)
OwnAnswers ==
    \A c \in Checks, i \in Positions :
        Delivered(c, i) =>
            IsAnswerOf(work[c][i].outcome.resolver, check[c].list[i], check[c].noCache)

(* ARCHITECTURE.md, on the cache: the key is                               *)
(* sha256(name + "|" + type + "|" + resolverIP).  If it were, no check     *)
(* would be given the answer of another address than it asked.             *)
AnswersByAddress ==
    \A c \in Checks, i \in Positions :
        Delivered(c, i) => work[c][i].outcome.resolver.ip = check[c].list[i].ip

(* CONFIGURATION.md, cache.ttl: "How long a cached (name, type, resolver)  *)
(* response is considered fresh": Get serves no result whose query began   *)
(* longer ago than the TTL and the longest query (all of its attempts      *)
(* timing out) take together, in whichever order overlapping checks store  *)
(* their results.                                                          *)
CachedIsRecent == \A k \in Keys : Fresh(k) => cache[k].result.age <= Life

(* Comment of CheckRequest.NoCache, "forces a fresh query to every         *)
(* resolver [...] so each run is a full live test": a monitor's check, and *)
(* a lookup, is not given the failures that a cancelled request leaves in  *)
(* the cache, so no monitor reports trouble because somebody closed a      *)
(* browser tab.                                                            *)
MonitorsLive ==
    \A c \in Checks, i \in Positions :
        check[c].noCache /\ Delivered(c, i) /\ work[c][i].outcome.aborted => check[c].cancelled

(* Every check that was started returns, although its workers queue for    *)
(* the semaphore, retry and may be cancelled anywhere.                     *)
EveryCheckReturns == \A c \in Checks : check[c].running ~> ~check[c].running
=============================================================================
