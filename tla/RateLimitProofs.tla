--------------------------- MODULE RateLimitProofs ---------------------------
(***************************************************************************)
(* Proofs about RateLimit, for every rate, burst size and cutoff.          *)
(*                                                                         *)
(* WindowBound is not inductive: what a client has been admitted beyond    *)
(* the sustained rate must be missing from its bucket (Covered), where the *)
(* tokens of a bucket are those it would have if it were refilled now; and *)
(* it has gone down by that rate in every tick the bucket was idle         *)
(* (Decayed), so that none is left when the bucket may be dropped.  How    *)
(* the levels change with each step (the lemmas) is also what the          *)
(* refinement needs.                                                       *)
(***************************************************************************)
EXTENDS RateLimit, TLAPS

Level(k) == Refilled(buckets[k])

Covered == \A k \in Clients : excess[k] + Level(k) * Period <= Burst * Period

Decayed ==
    \A k \in Clients :
        excess[k] = 0 \/ excess[k] + Sustained * buckets[k].idle <= Burst * Period

Inv == TypeOK /\ Covered /\ Decayed

-----------------------------------------------------------------------------
(* Arithmetic of the refill.                                               *)

(* The sustained rate is no less than the configured one, nor than a burst *)
(* in a period.                                                            *)
LEMMA SustainedBounds ==
  /\ Period \in Nat \ {0} /\ Sustained \in Nat /\ MaxIdle \in Nat
  /\ Rate * Period <= Sustained /\ Burst <= Sustained
<1>1. Period \in Nat \ {0} /\ MaxIdle \in Nat
  BY LimiterAssumption DEF Period, MaxIdle
<1>2. Rate * Period \in Nat
  BY <1>1, LimiterAssumption
<1> QED
  BY <1>1, <1>2, LimiterAssumption DEF Sustained

(* A bucket holds at most a burst after a refill.                          *)
LEMMA RefilledType ==
  ASSUME NEW b \in Bucket \cup {NoBucket}
  PROVE  Refilled(b) \in 0..Burst
<1>1. CASE b = NoBucket
  BY <1>1, LimiterAssumption DEF Refilled
<1>2. CASE b # NoBucket
  <2>1. b.tokens \in 0..Burst /\ b.idle \in Nat
    BY <1>2, LimiterAssumption DEF Bucket
  <2>2. b.idle * Rate \in Nat
    BY <2>1, LimiterAssumption
  <2> QED
    BY <1>2, <2>1, <2>2, LimiterAssumption DEF Refilled, Least
<1> QED
  BY <1>1, <1>2

(* A bucket that was just used holds what Allow left in it.                *)
LEMMA RefilledAtOnce ==
  ASSUME NEW t \in 0..Burst
  PROVE  Refilled([tokens |-> t, idle |-> 0]) = t
<1>1. [tokens |-> t, idle |-> 0] # NoBucket
  BY DEF NoBucket
<1>2. t + 0 * Rate = t
  BY LimiterAssumption
<1> QED
  BY <1>1, <1>2, LimiterAssumption DEF Refilled, Least

(* A tick adds the rate, up to the burst.                                  *)
LEMMA RefilledAfterTick ==
  ASSUME NEW b \in Bucket
  PROVE  LET c == [b EXCEPT !.idle = Least(MaxIdle, @ + 1)]
         IN  c \in Bucket /\ Refilled(c) = Least(Burst, Refilled(b) + Rate)
<1> DEFINE c == [b EXCEPT !.idle = Least(MaxIdle, @ + 1)]
<1>1. /\ b.tokens \in 0..Burst /\ b.idle \in 0..MaxIdle
      /\ c \in Bucket /\ c.tokens = b.tokens /\ c.idle = Least(MaxIdle, b.idle + 1)
  BY SustainedBounds DEF Bucket, Least
<1>2. b # NoBucket /\ c # NoBucket
  BY <1>1, LimiterAssumption DEF NoBucket
<1>3. CASE b.idle < MaxIdle
  <2>1. c.idle = b.idle + 1
    BY <1>1, <1>3, SustainedBounds DEF Least
  <2>2. (b.idle + 1) * Rate = b.idle * Rate + Rate /\ b.idle * Rate \in Nat
    BY <1>1, LimiterAssumption, SustainedBounds
  <2> QED
    BY <1>1, <1>2, <2>1, <2>2, LimiterAssumption DEF Refilled, Least
<1>4. CASE b.idle >= MaxIdle
  <2>1. b.idle = MaxIdle /\ c.idle = MaxIdle
    BY <1>1, <1>4, SustainedBounds DEF Least
  <2>2. CASE Rate = 0
    BY <1>1, <1>2, <2>1, <2>2, SustainedBounds, LimiterAssumption DEF Refilled, Least
  <2>3. CASE Rate # 0
    <3>1. MaxIdle * Rate >= MaxIdle
      BY <2>3, LimiterAssumption, SustainedBounds
    <3>2. MaxIdle * Rate >= Burst /\ MaxIdle * Rate \in Nat
      BY <3>1, LimiterAssumption, SustainedBounds DEF MaxIdle
    <3>3. Refilled(b) = Burst /\ Refilled(c) = Burst
      BY <1>1, <1>2, <2>1, <3>2, LimiterAssumption DEF Refilled, Least
    <3> QED
      BY <1>1, <3>3, LimiterAssumption DEF Least
  <2> QED
    BY <2>2, <2>3
<1> QED
  BY <1>1, <1>3, <1>4, SustainedBounds

-----------------------------------------------------------------------------
(* What each step does to the levels.                                      *)

(* A request that comes through the middleware is one of some client.      *)
LEMMA MiddlewareAllows ==
  ASSUME \E r \in Requests : Middleware(r)
  PROVE  \E k \in Clients : Allow(k)
<1>1. PICK r \in Requests : Allow(clientIP(r))
  BY DEF Middleware
<1>2. clientIP(r) \in Clients
  BY DEF Requests, clientIP
<1> QED
  BY <1>1, <1>2

(* Allow takes a token if there is one, and touches no other bucket.       *)
LEMMA AllowLevels ==
  ASSUME TypeOK, NEW k \in Clients, Allow(k)
  PROVE  /\ buckets' \in [Clients -> Bucket \cup {NoBucket}]
         /\ \A j \in Clients \ {k} : buckets'[j] = buckets[j] /\ Level(j)' = Level(j)
         /\ buckets'[k] \in Bucket /\ buckets'[k].idle = 0
         /\ \/ Level(k) < Unit /\ Level(k)' = Level(k) /\ excess' = excess
            \/ /\ Level(k) >= Unit /\ Level(k)' = Level(k) - Unit
               /\ excess' = [excess EXCEPT ![k] = @ + Unit * Period]
<1>1. Level(k) \in 0..Burst
  BY RefilledType DEF Level, TypeOK
<1>2. ASSUME NEW t \in 0..Burst, buckets' = [buckets EXCEPT ![k] = [tokens |-> t, idle |-> 0]]
      PROVE  /\ buckets' \in [Clients -> Bucket \cup {NoBucket}]
             /\ \A j \in Clients \ {k} : buckets'[j] = buckets[j] /\ Level(j)' = Level(j)
             /\ buckets'[k] \in Bucket /\ buckets'[k].idle = 0
             /\ Level(k)' = t
  <2>1. [tokens |-> t, idle |-> 0] \in Bucket
    BY SustainedBounds DEF Bucket
  <2>2. buckets'[k] = [tokens |-> t, idle |-> 0]
    BY <1>2 DEF TypeOK
  <2>3. \A j \in Clients \ {k} : buckets'[j] = buckets[j]
    BY <1>2 DEF TypeOK
  <2> QED
    BY <1>2, <2>1, <2>2, <2>3, RefilledAtOnce DEF Level, TypeOK
<1>3. CASE Level(k) < Unit
  <2>1. buckets' = [buckets EXCEPT ![k] = [tokens |-> Level(k), idle |-> 0]] /\ excess' = excess
    BY <1>1, <1>3, LimiterAssumption DEF Allow, Level
  <2> QED
    BY <1>1, <1>2, <1>3, <2>1
<1>4. CASE Level(k) >= Unit
  <2>1. /\ buckets' = [buckets EXCEPT ![k] = [tokens |-> Level(k) - Unit, idle |-> 0]]
        /\ excess' = [excess EXCEPT ![k] = @ + Unit * Period]
    BY <1>1, <1>4, LimiterAssumption DEF Allow, Level
  <2>2. Level(k) - Unit \in 0..Burst
    BY <1>1, <1>4, LimiterAssumption
  <2> QED
    BY <1>2, <1>4, <2>1, <2>2
<1> QED
  BY <1>1, <1>3, <1>4, LimiterAssumption

(* Eviction fills the buckets that it drops, and only those past the cutoff. *)
LEMMA EvictLevels ==
  ASSUME TypeOK, evictStale
  PROVE  /\ buckets' \in [Clients -> Bucket \cup {NoBucket}]
         /\ \A k \in Clients :
               \/ buckets'[k] = buckets[k] /\ Level(k)' = Level(k)
               \/ /\ buckets[k] \in Bucket /\ buckets[k].idle >= Period
                  /\ buckets'[k] = NoBucket /\ Level(k)' = Burst
<1>1. ASSUME NEW k \in Clients
      PROVE  \/ buckets'[k] = buckets[k] /\ Level(k)' = Level(k)
             \/ /\ buckets[k] \in Bucket /\ buckets[k].idle >= Period
                /\ buckets'[k] = NoBucket /\ Level(k)' = Burst
  <2>1. CASE buckets[k].idle > Cutoff
    <3>1. buckets[k] \in Bucket
      BY <2>1, LimiterAssumption DEF TypeOK, NoBucket
    <3>2. buckets'[k] = NoBucket
      BY <2>1 DEF evictStale
    <3>3. buckets[k].idle \in Nat
      BY <3>1, SustainedBounds DEF Bucket
    <3> QED
      BY <2>1, <3>1, <3>2, <3>3, LimiterAssumption DEF Level, Refilled, Period
  <2>2. CASE ~(buckets[k].idle > Cutoff)
    BY <2>2 DEF evictStale, Level
  <2> QED
    BY <2>1, <2>2
<1> QED
  BY <1>1 DEF evictStale, TypeOK

(* A tick fills every bucket by the rate; a client without one has all.    *)
LEMMA TickLevels ==
  ASSUME TypeOK, Tick
  PROVE  /\ buckets' \in [Clients -> Bucket \cup {NoBucket}]
         /\ \A k \in Clients :
               /\ Level(k)' = Least(Burst, Level(k) + Rate)
               /\ \/ buckets[k] = NoBucket /\ buckets'[k] = NoBucket
                  \/ /\ buckets[k] \in Bucket /\ buckets'[k] \in Bucket
                     /\ buckets'[k].idle = Least(MaxIdle, buckets[k].idle + 1)
<1>1. ASSUME NEW k \in Clients
      PROVE  /\ Level(k)' = Least(Burst, Level(k) + Rate)
             /\ \/ buckets[k] = NoBucket /\ buckets'[k] = NoBucket
                \/ /\ buckets[k] \in Bucket /\ buckets'[k] \in Bucket
                   /\ buckets'[k].idle = Least(MaxIdle, buckets[k].idle + 1)
  <2>1. CASE buckets[k] = NoBucket
    BY <2>1, LimiterAssumption DEF Tick, Level, Refilled, Least
  <2>2. CASE buckets[k] # NoBucket
    <3>1. buckets[k] \in Bucket
      BY <2>2 DEF TypeOK
    <3>2. buckets'[k] = [buckets[k] EXCEPT !.idle = Least(MaxIdle, @ + 1)]
      BY <2>2 DEF Tick
    <3>3. buckets'[k].idle = Least(MaxIdle, buckets[k].idle + 1)
      BY <3>1, <3>2 DEF Bucket
    <3> QED
      BY <3>1, <3>2, <3>3, RefilledAfterTick DEF Level
  <2> QED
    BY <2>1, <2>2
<1> QED
  BY <1>1 DEF Tick

-----------------------------------------------------------------------------
(* The invariant.                                                          *)

(* All clients start with full buckets and no excess.                      *)
LEMMA InvInit == Init => Inv
<1>1. Burst * Period \in Nat
  BY SustainedBounds, LimiterAssumption
<1> QED
  BY <1>1, LimiterAssumption DEF Init, Inv, TypeOK, Covered, Decayed, Level, Refilled

(* What the arithmetic of a step comes to, for one client: x is its excess, *)
(* l its level, i its idle time.                                           *)
LEMMA TakeToken ==
  ASSUME NEW x \in Nat, NEW l \in 0..Burst, x + l * Period <= Burst * Period, l >= Unit
  PROVE  /\ x + Unit * Period \in Nat
         /\ (x + Unit * Period) + (l - Unit) * Period <= Burst * Period
<1>1. (l - Unit) * Period = l * Period - Unit * Period
  BY SustainedBounds, LimiterAssumption
<1>2. Unit * Period \in Nat /\ l * Period \in Nat /\ Burst * Period \in Nat
  BY SustainedBounds, LimiterAssumption
<1> QED
  BY <1>1, <1>2

LEMMA PassTick ==
  ASSUME NEW x \in Nat, NEW l \in 0..Burst, x + l * Period <= Burst * Period
  PROVE  LET y == IF x >= Sustained THEN x - Sustained ELSE 0
         IN  y \in Nat /\ y + Least(Burst, l + Rate) * Period <= Burst * Period
<1> DEFINE y == IF x >= Sustained THEN x - Sustained ELSE 0
<1> DEFINE n == Least(Burst, l + Rate)
<1>1. n \in Nat /\ n <= Burst /\ n <= l + Rate
  BY LimiterAssumption DEF Least
<1>2. n * Period <= Burst * Period /\ n * Period \in Nat /\ Burst * Period \in Nat
  BY <1>1, SustainedBounds, LimiterAssumption
<1>3. n * Period <= (l + Rate) * Period /\ (l + Rate) * Period = l * Period + Rate * Period
  BY <1>1, SustainedBounds, LimiterAssumption
<1>4. l * Period \in Nat /\ Rate * Period \in Nat
  BY SustainedBounds, LimiterAssumption
<1> HIDE DEF n
<1>5. y \in Nat /\ y + n * Period <= Burst * Period
  BY <1>2, <1>3, <1>4, SustainedBounds
<1> QED
  BY <1>5 DEF n

LEMMA DecayTick ==
  ASSUME NEW x \in Nat, NEW i \in 0..MaxIdle, x = 0 \/ x + Sustained * i <= Burst * Period
  PROVE  LET y == IF x >= Sustained THEN x - Sustained ELSE 0
         IN  y = 0 \/ y + Sustained * Least(MaxIdle, i + 1) <= Burst * Period
<1> DEFINE y == IF x >= Sustained THEN x - Sustained ELSE 0
<1> DEFINE n == Least(MaxIdle, i + 1)
<1>1. n \in Nat /\ n <= i + 1
  BY SustainedBounds DEF Least
<1>2. Sustained * n <= Sustained * (i + 1) /\ Sustained * (i + 1) = Sustained * i + Sustained
  BY <1>1, SustainedBounds
<1>3. Sustained * n \in Nat /\ Sustained * i \in Nat /\ Burst * Period \in Nat
  BY <1>1, SustainedBounds, LimiterAssumption
<1> HIDE DEF n
<1>4. y = 0 \/ y + Sustained * n <= Burst * Period
  BY <1>2, <1>3, SustainedBounds
<1> QED
  BY <1>4 DEF n

(* Nothing is left of the excess when a bucket is dropped.                 *)
LEMMA DecayedAtPeriod ==
  ASSUME NEW x \in Nat, NEW i \in Nat, i >= Period,
         x = 0 \/ x + Sustained * i <= Burst * Period
  PROVE  x = 0
<1>1. Sustained * i >= Sustained * Period /\ Sustained * Period >= Burst * Period
  BY SustainedBounds, LimiterAssumption
<1>2. Sustained * i \in Nat /\ Sustained * Period \in Nat /\ Burst * Period \in Nat
  BY SustainedBounds, LimiterAssumption
<1> QED
  BY <1>1, <1>2

(* Every step of the limiter keeps the excess covered and decayed.         *)
LEMMA InvStep == Inv /\ [Next]_vars => Inv'
<1> SUFFICES ASSUME Inv, [Next]_vars PROVE Inv'
  OBVIOUS
<1>1. \A k \in Clients : /\ Level(k) \in 0..Burst /\ excess[k] \in Nat
                         /\ excess[k] + Level(k) * Period <= Burst * Period
                         /\ excess[k] = 0 \/ excess[k] + Sustained * buckets[k].idle <= Burst * Period
  BY RefilledType DEF Inv, TypeOK, Level, Covered, Decayed
<1>2. ASSUME NEW k \in Clients, Allow(k) PROVE Inv'
  <2>1. /\ excess'[k] \in Nat /\ excess'[k] + Level(k)' * Period <= Burst * Period
        /\ \A j \in Clients \ {k} : excess'[j] = excess[j]
        /\ DOMAIN excess' = Clients
    <3>1. CASE Level(k) < Unit /\ Level(k)' = Level(k) /\ excess' = excess
      BY <1>1, <3>1 DEF Inv, TypeOK
    <3>2. CASE /\ Level(k) >= Unit /\ Level(k)' = Level(k) - Unit
               /\ excess' = [excess EXCEPT ![k] = @ + Unit * Period]
      <4>1. /\ excess'[k] = excess[k] + Unit * Period
            /\ \A j \in Clients \ {k} : excess'[j] = excess[j]
            /\ DOMAIN excess' = Clients
        BY <3>2 DEF Inv, TypeOK
      <4> QED
        BY <1>1, <3>2, <4>1, TakeToken
    <3> QED
      BY <1>2, <3>1, <3>2, AllowLevels DEF Inv
  <2>2. TypeOK'
    <3>1. \A j \in Clients : excess'[j] \in Nat
      BY <1>1, <2>1
    <3>2. excess' \in [Clients -> Nat]
      <4>1. excess' = [j \in Clients |-> excess'[j]]
        BY <1>2, <2>1, AllowLevels DEF Inv, TypeOK
      <4> QED
        BY <3>1, <4>1
    <3> QED
      BY <1>2, <3>2, AllowLevels DEF Inv, TypeOK
  <2>3. Covered'
    BY <1>1, <1>2, <2>1, AllowLevels DEF Inv, Covered
  <2>4. ASSUME NEW j \in Clients
        PROVE  excess'[j] = 0 \/ excess'[j] + Sustained * buckets'[j].idle <= Burst * Period
    <3>1. CASE j = k
      <4>1. buckets'[k].idle = 0
        BY <1>2, AllowLevels DEF Inv
      <4>2. Level(k)' \in 0..Burst
        BY <2>2, <1>2, AllowLevels, <1>1, LimiterAssumption DEF Inv
      <4>3. Level(k)' * Period \in Nat /\ Sustained * 0 = 0 /\ Burst * Period \in Nat
        BY <4>2, SustainedBounds, LimiterAssumption
      <4> QED
        BY <2>1, <3>1, <4>1, <4>3
    <3>2. CASE j # k
      BY <1>1, <1>2, <2>1, <3>2, AllowLevels DEF Inv
    <3> QED
      BY <3>1, <3>2
  <2> QED
    BY <2>2, <2>3, <2>4 DEF Inv, Decayed
<1>3. CASE evictStale
  <2>1. excess' = excess
    BY <1>3 DEF evictStale
  <2>2. TypeOK'
    BY <1>3, <2>1, EvictLevels DEF Inv, TypeOK
  <2>3. ASSUME NEW k \in Clients
        PROVE  /\ excess'[k] + Level(k)' * Period <= Burst * Period
               /\ excess'[k] = 0 \/ excess'[k] + Sustained * buckets'[k].idle <= Burst * Period
    <3>1. CASE buckets'[k] = buckets[k] /\ Level(k)' = Level(k)
      BY <1>1, <2>1, <3>1
    <3>2. CASE /\ buckets[k] \in Bucket /\ buckets[k].idle >= Period
               /\ buckets'[k] = NoBucket /\ Level(k)' = Burst
      <4>1. buckets[k].idle \in Nat
        BY <3>2, SustainedBounds DEF Bucket
      <4>2. excess[k] = 0
        BY <1>1, <3>2, <4>1, DecayedAtPeriod
      <4>3. Burst * Period \in Nat
        BY SustainedBounds, LimiterAssumption
      <4> QED
        BY <2>1, <3>2, <4>2, <4>3
    <3> QED
      BY <1>3, <3>1, <3>2, EvictLevels DEF Inv
  <2> QED
    BY <2>2, <2>3 DEF Inv, Covered, Decayed
<1>4. CASE Tick
  <2>1. /\ excess' = [k \in Clients |-> excess'[k]]
        /\ \A k \in Clients :
              excess'[k] = IF excess[k] >= Sustained THEN excess[k] - Sustained ELSE 0
    BY <1>4 DEF Tick
  <2>2. ASSUME NEW k \in Clients
        PROVE  /\ excess'[k] \in Nat
               /\ excess'[k] + Level(k)' * Period <= Burst * Period
    <3>1. Level(k)' = Least(Burst, Level(k) + Rate)
      BY <1>4, TickLevels DEF Inv
    <3> QED
      BY <1>1, <2>1, <3>1, PassTick
  <2>3. TypeOK'
    BY <1>4, <2>1, <2>2, TickLevels DEF Inv, TypeOK
  <2>4. ASSUME NEW k \in Clients
        PROVE  excess'[k] = 0 \/ excess'[k] + Sustained * buckets'[k].idle <= Burst * Period
    <3>1. CASE buckets[k] = NoBucket /\ buckets'[k] = NoBucket
      <4>1. buckets'[k].idle = 0 /\ Sustained * 0 = 0
        BY <3>1, SustainedBounds DEF NoBucket
      <4>2. excess'[k] \in Nat /\ excess'[k] <= excess[k]
        BY <1>1, <2>1, SustainedBounds
      <4>3. Level(k) * Period \in Nat /\ Burst * Period \in Nat
        BY <1>1, SustainedBounds, LimiterAssumption
      <4> QED
        BY <1>1, <4>1, <4>2, <4>3
    <3>2. CASE /\ buckets[k] \in Bucket /\ buckets'[k] \in Bucket
               /\ buckets'[k].idle = Least(MaxIdle, buckets[k].idle + 1)
      <4>1. buckets[k].idle \in 0..MaxIdle
        BY <3>2 DEF Bucket
      <4> QED
        BY <1>1, <2>1, <3>2, <4>1, DecayTick
    <3> QED
      BY <1>4, <3>1, <3>2, TickLevels DEF Inv
  <2> QED
    BY <2>2, <2>3, <2>4 DEF Inv, Covered, Decayed
<1>5. CASE UNCHANGED vars
  BY <1>5 DEF vars, Inv, TypeOK, Covered, Decayed, Level
<1> QED
  BY <1>2, <1>3, <1>4, <1>5, MiddlewareAllows DEF Next

(* The inductive invariant holds throughout.                               *)
LEMMA Invariant == Spec => []Inv
BY InvInit, InvStep, PTL DEF Spec

(* Buckets never hold more than a burst or less than nothing.              *)
THEOREM LimiterTyped == Spec => []TypeOK
BY Invariant, PTL DEF Inv

(* No window of time admits more than the burst and the sustained rate     *)
(* allow, however Allow, evictStale and time interleave and whatever rate  *)
(* and burst New was given.                                                *)
THEOREM RateIsKept == Spec => []WindowBound
<1>1. Inv => WindowBound
  <2> SUFFICES ASSUME Inv, NEW k \in Clients PROVE excess[k] <= Burst * Period
    BY Zenon DEF WindowBound
  <2>1. Level(k) \in 0..Burst /\ excess[k] \in Nat
    BY RefilledType DEF Inv, TypeOK, Level
  <2>2. Level(k) * Period \in Nat /\ Burst * Period \in Nat
    BY <2>1, SustainedBounds, LimiterAssumption
  <2> QED
    BY <2>1, <2>2 DEF Inv, Covered
<1> QED
  BY <1>1, Invariant, PTL

(* The sustained rate is the configured one whenever the cutoff is long    *)
(* enough to refill a burst, which holds of the defaults of the            *)
(* configuration: eviction then grants nothing.                            *)
LEMMA SustainedIsConfigured == Burst <= Rate * Period => Sustained = Rate * Period
BY DEF Sustained

-----------------------------------------------------------------------------
(* The refinement.                                                         *)

Available == [k \in Clients |-> Refilled(buckets[k])]

IdleTime(b) == IF b = NoBucket THEN Cutoff + 1 ELSE Least(Cutoff + 1, b.idle)

IdleTimes == [k \in Clients |-> IdleTime(buckets[k])]

(* All ideal buckets are full at first.                                    *)
LEMMA IdealInit == Init => Ideal!Init
BY DEF Init, Ideal!Init, Refilled

(* A tick makes a client idle for one more tick.                           *)
LEMMA IdleTimeTick ==
  ASSUME NEW b \in Bucket, NEW c \in Bucket, c.idle = Least(MaxIdle, b.idle + 1)
  PROVE  IdleTime(c) = Least(Cutoff + 1, IdleTime(b) + 1)
<1>1. b.idle \in 0..MaxIdle /\ b.tokens \in 0..Burst /\ c.tokens \in 0..Burst
  BY DEF Bucket
<1>2. b # NoBucket /\ c # NoBucket
  BY <1>1, LimiterAssumption DEF NoBucket
<1> QED
  BY <1>1, <1>2, LimiterAssumption DEF IdleTime, Least, MaxIdle

(* Each step of the limiter is a step of the ideal buckets, or none.       *)
LEMMA IdealStep == Inv /\ [Next]_vars => Ideal!Next \/ UNCHANGED <<Available, IdleTimes>>
<1> SUFFICES ASSUME Inv, [Next]_vars PROVE Ideal!Next \/ UNCHANGED <<Available, IdleTimes>>
  OBVIOUS
<1>1. TypeOK
  BY DEF Inv
<1>2. ASSUME NEW k \in Clients, Allow(k) PROVE Ideal!Next
  <2>1. IdleTimes' = [IdleTimes EXCEPT ![k] = 0]
    <3>1. buckets'[k] # NoBucket /\ buckets'[k].idle = 0
      <4>1. buckets'[k] \in Bucket /\ buckets'[k].idle = 0
        BY <1>1, <1>2, AllowLevels
      <4>2. buckets'[k].tokens \in 0..Burst
        BY <4>1 DEF Bucket
      <4> QED
        BY <4>1, <4>2, LimiterAssumption DEF NoBucket
    <3>2. IdleTime(buckets'[k]) = 0
      BY <3>1, LimiterAssumption DEF IdleTime, Least
    <3>3. \A j \in Clients \ {k} : IdleTime(buckets'[j]) = IdleTime(buckets[j])
      BY <1>1, <1>2, AllowLevels
    <3> QED
      BY <3>2, <3>3 DEF IdleTimes
  <2>2. CASE Level(k) < Unit /\ Level(k)' = Level(k)
    <3>1. Available' = Available
      BY <1>1, <1>2, <2>2, AllowLevels DEF Level, Available
    <3>2. Ideal!Refuse(k)
      BY <2>1, <2>2, <3>1 DEF Ideal!Refuse, Level, Available, IdleTimes, IdleTime
    <3> QED
      BY <3>2 DEF Ideal!Next
  <2>3. CASE Level(k) >= Unit /\ Level(k)' = Level(k) - Unit
    <3>1. Available' = [Available EXCEPT ![k] = @ - Unit]
      BY <1>1, <1>2, <2>3, AllowLevels DEF Level, Available
    <3>2. Ideal!Admit(k)
      BY <2>1, <2>3, <3>1 DEF Ideal!Admit, Level, Available, IdleTimes, IdleTime
    <3> QED
      BY <3>2 DEF Ideal!Next
  <2> QED
    BY <1>1, <1>2, <2>2, <2>3, AllowLevels
<1>3. CASE evictStale
  <2> DEFINE ks == {k \in Clients : buckets'[k] = NoBucket}
  <2>1. ASSUME NEW k \in Clients
        PROVE  /\ k \in ks => IdleTime(buckets[k]) = Cutoff + 1
               /\ IdleTime(buckets'[k]) = IdleTime(buckets[k])
               /\ Level(k)' = IF k \in ks THEN Burst ELSE Level(k)
    <3>1. CASE buckets'[k] = buckets[k] /\ Level(k)' = Level(k)
      BY <3>1 DEF IdleTime, Level, Refilled
    <3>2. CASE /\ buckets[k] \in Bucket /\ buckets[k].idle >= Period
               /\ buckets'[k] = NoBucket /\ Level(k)' = Burst
      <4>1. buckets[k].idle \in Nat
        BY <3>2, SustainedBounds DEF Bucket
      <4> QED
        BY <3>2, <4>1, LimiterAssumption DEF IdleTime, Least, Period
    <3> QED
      BY <1>1, <1>3, <3>1, <3>2, EvictLevels
  <2>2. IdleTimes' = IdleTimes
    BY <2>1 DEF IdleTimes
  <2>3. \A k \in ks : IdleTimes[k] > Cutoff
    BY <2>1, LimiterAssumption DEF IdleTimes
  <2>4. Available' = [k \in Clients |-> IF k \in ks THEN Burst ELSE Available[k]]
    BY <2>1 DEF Level, Available
  <2> HIDE DEF ks
  <2>5. Ideal!Forget(ks)
    BY <2>2, <2>3, <2>4 DEF Ideal!Forget, Available, IdleTimes, IdleTime
  <2>6. ks \in SUBSET Clients
    BY DEF ks
  <2> QED
    BY <2>5, <2>6 DEF Ideal!Next
<1>4. CASE Tick
  <2>1. \A k \in Clients : /\ Level(k)' = Least(Burst, Level(k) + Rate)
                           /\ IdleTime(buckets'[k]) = Least(Cutoff + 1, IdleTime(buckets[k]) + 1)
    <3> SUFFICES ASSUME NEW k \in Clients
                 PROVE  /\ Level(k)' = Least(Burst, Level(k) + Rate)
                        /\ IdleTime(buckets'[k]) = Least(Cutoff + 1, IdleTime(buckets[k]) + 1)
      OBVIOUS
    <3>1. CASE buckets[k] = NoBucket /\ buckets'[k] = NoBucket
      BY <1>1, <1>4, <3>1, TickLevels, LimiterAssumption DEF IdleTime, Least
    <3>2. CASE /\ buckets[k] \in Bucket /\ buckets'[k] \in Bucket
               /\ buckets'[k].idle = Least(MaxIdle, buckets[k].idle + 1)
      BY <1>1, <1>4, <3>2, TickLevels, IdleTimeTick
    <3> QED
      BY <1>1, <1>4, <3>1, <3>2, TickLevels
  <2>2. /\ Available' = [k \in Clients |-> Least(Burst, Available[k] + Rate)]
        /\ IdleTimes' = [k \in Clients |-> Least(Cutoff + 1, IdleTimes[k] + 1)]
    BY <2>1 DEF Level, Available, IdleTimes
  <2>3. Ideal!Fill
    BY <2>2 DEF Ideal!Fill, Ideal!Least, Least, Available, IdleTimes, IdleTime
  <2> QED
    BY <2>3 DEF Ideal!Next
<1>5. CASE UNCHANGED vars
  BY <1>5 DEF vars, Available, IdleTimes
<1> QED
  BY <1>2, <1>3, <1>4, <1>5, MiddlewareAllows DEF Next

(* The limiter implements the token bucket that starts anew only for       *)
(* clients idle beyond the cutoff, whatever rate and burst New was given.  *)
THEOREM LimiterIsTokenBucket == Spec => IsTokenBucket
<1>1. Inv /\ [Next]_vars => [Ideal!Next]_(Ideal!vars)
  BY IdealStep DEF Ideal!vars, Available, IdleTimes, IdleTime
<1> QED
  BY <1>1, Invariant, IdealInit, PTL DEF Spec, IsTokenBucket, Ideal!Spec
=============================================================================
