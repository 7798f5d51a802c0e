------------------------------ MODULE RateLimit ------------------------------
(***************************************************************************)
(* The rate limiter (internal/ratelimit): token buckets that are made on a *)
(* client's first request, refilled when they are used, and dropped by a   *)
(* background goroutine when they were not used for a while.               *)
(*                                                                         *)
(* Allow and evictStale each hold the mutex throughout, so each is one     *)
(* step.  Time is discrete; in place of lastRefill a bucket holds the      *)
(* ticks since then, up to MaxIdle, past which neither the cutoff of       *)
(* evictStale nor the refill tells them apart.  Tokens are counted in      *)
(* parts, see TokenBucket.                                                 *)
(***************************************************************************)
EXTENDS Integers

CONSTANTS
    Clients,   \* addresses
    None,      \* a header that is not set
    Unit,      \* parts of a token
    Rate,      \* parts per tick: ratePerMin
    Burst,     \* parts of burst tokens
    Cutoff     \* ticks in the five minutes of evictStale

(* New takes any rate and burst, also a burst that takes longer to refill  *)
(* than the cutoff.                                                        *)
ASSUME LimiterAssumption ==
    /\ None \notin Clients
    /\ Unit \in Nat \ {0} /\ Rate \in Nat /\ Burst \in Nat /\ Cutoff \in Nat

VARIABLES
    buckets,   \* the bucket of each client
    excess     \* history: the most that any window of time that ends now has admitted
               \* beyond the sustained rate, in parts times Period

vars == <<buckets, excess>>

\* What a request says of its client: the first address of X-Forwarded-For, X-Real-IP,
\* and the address of the connection.
Requests == [xff : Clients \cup {None}, xri : Clients \cup {None}, remote : Clients]

\* The bound on the ticks a bucket counts: past the cutoff, and enough to fill it.
MaxIdle == Cutoff + 1 + Burst

Bucket == [tokens : 0..Burst, idle : 0..MaxIdle]

NoBucket == [tokens |-> -1, idle |-> 0]

TypeOK ==
    /\ buckets \in [Clients -> Bucket \cup {NoBucket}]
    /\ excess \in [Clients -> Nat]

Init ==
    /\ buckets = [k \in Clients |-> NoBucket]
    /\ excess = [k \in Clients |-> 0]

-----------------------------------------------------------------------------
Least(a, b) == IF a <= b THEN a ELSE b

\* The fewest ticks after which a bucket is dropped.
Period == Cutoff + 1

\* What a client can get per Period in the long run: what the rate adds in it, or a
\* burst, when its bucket is dropped and made anew before it would have filled.
Sustained == IF Burst <= Rate * Period THEN Rate * Period ELSE Burst

\* The tokens of a bucket after the refill of Allow; a new bucket is full.
Refilled(b) ==
    IF b = NoBucket THEN Burst ELSE Least(Burst, b.tokens + b.idle * Rate)

\* Mutant of Allow: the refill is not written back when the request is refused, but
\* its time is.
AllowForgets(k) ==
    LET tokens == Refilled(buckets[k])
    IN  \/ /\ tokens < Unit
           /\ buckets' = [buckets EXCEPT ![k] =
                             [tokens |-> IF @ = NoBucket THEN Burst ELSE @.tokens, idle |-> 0]]
           /\ UNCHANGED excess
        \/ /\ tokens >= Unit
           /\ buckets' = [buckets EXCEPT ![k] = [tokens |-> tokens - Unit, idle |-> 0]]
           /\ excess' = [excess EXCEPT ![k] = @ + Unit * Period]

\* Mutant of Allow: a request that finds no token is admitted on credit.
AllowOnCredit(k) ==
    LET tokens == Refilled(buckets[k])
    IN  /\ buckets' = [buckets EXCEPT ![k] = [tokens |-> tokens - Unit, idle |-> 0]]
        /\ excess' = [excess EXCEPT ![k] = @ + Unit * Period]

\* Allow: refill, then refuse or admit.
Allow(k) ==
    LET tokens == Refilled(buckets[k])
    IN  \/ /\ tokens < Unit
           /\ buckets' = [buckets EXCEPT ![k] = [tokens |-> tokens, idle |-> 0]]
           /\ UNCHANGED excess
        \/ /\ tokens >= Unit
           /\ buckets' = [buckets EXCEPT ![k] = [tokens |-> tokens - Unit, idle |-> 0]]
           /\ excess' = [excess EXCEPT ![k] = @ + Unit * Period]

\* Mutant of evictStale: buckets are dropped when they were unused for one tick.
evictStaleEarly ==
    /\ buckets' = [k \in Clients |-> IF buckets[k].idle > 0 THEN NoBucket ELSE buckets[k]]
    /\ UNCHANGED excess

\* The key of a request.
clientIP(r) == IF r.xff # None THEN r.xff ELSE IF r.xri # None THEN r.xri ELSE r.remote

\* Middleware: a request that is refused is answered with 429.
Middleware(r) == Allow(clientIP(r))

\* evictStale, on a tick of cleanup's ticker, which may come at any time: buckets
\* unused for longer than the cutoff are dropped.
evictStale ==
    /\ buckets' = [k \in Clients |-> IF buckets[k].idle > Cutoff THEN NoBucket ELSE buckets[k]]
    /\ UNCHANGED excess

\* Time passes.  What a tick allows is taken off the excess: what remains is the
\* largest, over all windows that end now, of what was admitted in the window minus
\* what its length allows.
Tick ==
    /\ buckets' = [k \in Clients |->
          IF buckets[k] = NoBucket THEN NoBucket
          ELSE [buckets[k] EXCEPT !.idle = Least(MaxIdle, @ + 1)]]
    /\ excess' = [k \in Clients |-> IF excess[k] >= Sustained THEN excess[k] - Sustained ELSE 0]

Next == (\E r \in Requests : Middleware(r)) \/ evictStale \/ Tick

Spec == Init /\ [][Next]_vars

-----------------------------------------------------------------------------
(* Properties.                                                             *)

(* However a client spreads its requests and whenever its bucket is        *)
(* dropped, no window of time admits more of them than the burst and what  *)
(* the sustained rate allows in its length: the configured rate, or a      *)
(* burst per period when the cutoff is too short to refill a burst.        *)
WindowBound == \A k \in Clients : excess[k] <= Burst * Period

(* The limiter is a token bucket that starts anew only for clients idle    *)
(* beyond the cutoff: the refill on use, also by refused requests, and the *)
(* time at which an eviction comes make no other difference to what is     *)
(* admitted.                                                               *)
Ideal == INSTANCE TokenBucket WITH
    available <- [k \in Clients |-> Refilled(buckets[k])],
    idle <- [k \in Clients |->
               IF buckets[k] = NoBucket THEN Cutoff + 1 ELSE Least(Cutoff + 1, buckets[k].idle)]

IsTokenBucket == Ideal!Spec
=============================================================================
