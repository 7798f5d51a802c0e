---------------------- MODULE PropagationCheckProofs ----------------------
(***************************************************************************)
(* Safety of concurrent propagation checks, for any number of checks,      *)
(* resolvers, names and slots, any registry and any size of the cache.     *)
(*                                                                         *)
(* The properties are not inductive as they stand.  That an answer is one  *)
(* of the resolver asked rests on every entry of the cache being about a   *)
(* resolver with the id in its key that a caching check could ask          *)
(* (OwnEntries), on lists of caching checks holding such resolvers only    *)
(* (AskedLists), and on workers being at places of the list                *)
(* (PlacedWorkers); that a served result is recent, on the age of an entry *)
(* and the time it has left adding up to at most Life (DueEntries), which  *)
(* no tick changes.                                                        *)
(***************************************************************************)
EXTENDS PropagationCheck, FiniteSetTheorems, SequenceTheorems, WellFoundedInduction, TLAPS

Less == {pair \in Nat \X Nat : pair[1] < pair[2]}

(* The least element of a non-empty set of natural numbers.                *)
LEMMA LeastElement ==
    ASSUME NEW T \in SUBSET Nat, T # {}
    PROVE  \E x \in T : \A y \in T : x <= y
<1>1. IsWellFoundedOn(Less, Nat)
  BY NatLessThanWellFounded DEF OpToRel, Less
<1>2. PICK x \in T : \A y \in T : ~ (<<y, x>> \in Less)
  BY <1>1, WFMin
<1>3. ASSUME NEW y \in T PROVE x <= y
  <2>1. ~ (<<y, x>> \in Less)
    BY <1>2
  <2>2. x \in Nat /\ y \in Nat
    OBVIOUS
  <2> QED
    BY <2>1, <2>2 DEF Less
<1> QED
  BY <1>3

(* For every n up to its size, a set of places holds one up to which there *)
(* are n of them: the CHOOSE of Only is always of something.               *)
LEMMA NthPlace ==
    ASSUME NEW m \in Nat, NEW kept \in SUBSET (1..m),
           NEW n \in 1..Cardinality(kept)
    PROVE  \E i \in kept : Cardinality({j \in kept : j <= i}) = n
<1> DEFINE Upto(i) == {j \in kept : j <= i}
           T == {i \in 0..m : n <= Cardinality(Upto(i))}
<1>0. \A j \in kept : j \in Nat /\ 1 <= j /\ j <= m
  OBVIOUS
<1>1. IsFiniteSet(kept)
  <2>1. IsFiniteSet(1..m)
    BY FS_Interval
  <2> QED
    BY <2>1, FS_Subset
<1>2. Cardinality(kept) \in Nat
  BY <1>1, FS_CardinalityType
<1>3. \A i : Upto(i) \in SUBSET kept
  OBVIOUS
<1>4. \A i : IsFiniteSet(Upto(i)) /\ Cardinality(Upto(i)) \in Nat
  <2> HIDE DEF Upto
  <2> QED
    BY <1>1, <1>3, FS_Subset, FS_CardinalityType
<1>5. Upto(m) = kept
  BY <1>0
<1>6. Upto(0) = {}
  <2>1. ASSUME NEW j \in kept PROVE ~ (j <= 0)
    BY <1>0
  <2> QED
    BY <2>1
<1>7. ASSUME NEW i \in 1..m
      PROVE  Upto(i) = IF i \in kept THEN Upto(i - 1) \cup {i} ELSE Upto(i - 1)
  <2>1. \A j \in kept : j <= i <=> j <= i - 1 \/ j = i
    BY <1>0
  <2> QED
    BY <2>1
<1>8. \A i \in 1..m : i \notin Upto(i - 1)
  BY <1>0
<1> HIDE DEF Upto
<1>9. PICK i \in T : \A y \in T : i <= y
  <2>1. T \in SUBSET Nat /\ m \in T
    BY <1>5, <1>2
  <2> HIDE DEF T
  <2> QED
    BY <2>1, LeastElement
<1>10. i \in 1..m
  BY <1>6, <1>9, FS_EmptySet, <1>2
<1>11. Cardinality(Upto(i - 1)) < n
  <2>1. i - 1 \in 0..m /\ i - 1 \notin T
    BY <1>9, <1>10
  <2> QED
    BY <2>1, <1>4, <1>2
<1>12. i \in kept
  BY <1>7, <1>9, <1>10, <1>11, <1>4, <1>2
<1>13. Cardinality(Upto(i)) = Cardinality(Upto(i - 1)) + 1
  BY <1>12, <1>7, <1>8, <1>10, <1>4, FS_AddElement
<1>14. Cardinality(Upto(i)) = n
  BY <1>13, <1>11, <1>9, <1>4, <1>2
<1> QED
  BY <1>12, <1>14 DEF Upto

(* What Load and buildResolverList keep of a list is a list of elements of *)
(* it that were to be kept, and is empty only if there were none.          *)
LEMMA OnlyType ==
    ASSUME NEW T, NEW s \in Seq(T), NEW S
    PROVE  /\ Only(s, S) \in Seq(S \cap T)
           /\ \A i \in 1..Len(s) : s[i] \in S => Len(Only(s, S)) > 0
<1> DEFINE kept == {i \in 1..Len(s) : s[i] \in S}
           Place(n) == CHOOSE i \in kept : Cardinality({j \in kept : j <= i}) = n
<1>1. Len(s) \in Nat /\ kept \in SUBSET (1..Len(s))
  OBVIOUS
<1>2. IsFiniteSet(kept) /\ Cardinality(kept) \in Nat
  <2>1. IsFiniteSet(1..Len(s))
    BY <1>1, FS_Interval
  <2> HIDE DEF kept
  <2> QED
    BY <1>1, <2>1, FS_Subset, FS_CardinalityType
<1>3. \A n \in 1..Cardinality(kept) : s[Place(n)] \in S \cap T
  <2> TAKE n \in 1..Cardinality(kept)
  <2>1. \E i \in kept : Cardinality({j \in kept : j <= i}) = n
    <3> HIDE DEF kept
    <3> QED
      BY <1>1, NthPlace
  <2>2. Place(n) \in kept
    BY <2>1
  <2> QED
    BY <2>2
<1>4. Only(s, S) = [n \in 1..Cardinality(kept) |-> s[Place(n)]]
  BY DEF Only
<1>5. ASSUME NEW i \in 1..Len(s), s[i] \in S PROVE Cardinality(kept) > 0
  <2>1. kept # {}
    BY <1>5
  <2> HIDE DEF kept
  <2> QED
    BY <1>2, <2>1, FS_EmptySet
<1> HIDE DEF kept, Place
<1>6. Only(s, S) \in Seq(S \cap T) /\ Len(Only(s, S)) = Cardinality(kept)
  BY <1>2, <1>3, <1>4
<1> QED
  BY <1>5, <1>6

(* Lists are the sequences of at most MaxResolvers elements.               *)
LEMMA ListIsSeq ==
    ASSUME NEW S, NEW s \in Lists(S)
    PROVE  s \in Seq(S) /\ Len(s) \in 0..MaxResolvers
<1>1. PICK n \in 0..MaxResolvers : s \in [1..n -> S]
  BY DEF Lists
<1> QED
  BY <1>1, LimitsAssumption

LEMMA SeqIsList ==
    ASSUME NEW S, NEW s \in Seq(S), Len(s) <= MaxResolvers
    PROVE  s \in Lists(S)
<1>1. s \in [1..Len(s) -> S] /\ Len(s) \in 0..MaxResolvers
  BY LimitsAssumption
<1> QED
  BY <1>1 DEF Lists

\* The resolvers that Reload loaded.
Loaded == {All[i] : i \in 1..Len(All)}

(* The registry holds resolvers, whatever the resolvers file repeats.      *)
LEMMA RegistryType ==
    /\ All \in Seq(Loaded)
    /\ Loaded \subseteq Resolvers
    /\ \A id \in Registry : Get(id) \in Loaded
<1> DEFINE Valid == {r \in Resolvers : IsValid(r)}
<1>1. Builtin \in Seq(Resolvers) /\ File \in Seq(Resolvers)
  BY RegistryAssumption
<1>2. Load(Builtin) \in Seq(Resolvers) /\ Load(File) \in Seq(Resolvers)
  <2> HIDE DEF Valid
  <2>1. \A s \in Seq(Resolvers) : Only(s, Valid) \in Seq(Valid \cap Resolvers)
    BY OnlyType
  <2>2. \A s \in Seq(Resolvers) : Only(s, Valid) \in Seq(Resolvers)
    BY <2>1
  <2> QED
    BY <1>1, <2>2 DEF Load, Valid
<1>3. All \in Seq(Resolvers) /\ Len(All) \in Nat
  BY <1>2 DEF All
<1>4. All \in Seq(Loaded) /\ Loaded \subseteq Resolvers
  BY <1>3 DEF Loaded
<1>5. ASSUME NEW id \in Registry PROVE Get(id) \in Loaded
  <2> DEFINE Same == {r \in Resolvers : r.id = id}
             same == Only(All, Same)
  <2>1. PICK i \in 1..Len(All) : All[i].id = id
    BY DEF Registry
  <2>2. All[i] \in Same
    BY <1>3, <2>1
  <2> HIDE DEF Same
  <2>3. same \in Seq(Same \cap Loaded) /\ Len(same) > 0
    BY <1>4, <2>2, OnlyType
  <2> HIDE DEF same
  <2>4. same[Len(same)] \in Loaded
    BY <2>3
  <2> QED
    BY <2>4 DEF Get, same, Same
<1> QED
  BY <1>4, <1>5

(* However the request names, brings and disables resolvers, its list is   *)
(* one of at most MaxResolvers resolvers that are loaded or its own.       *)
LEMMA ListType ==
    ASSUME NEW ids \in Lists(Registry), NEW custom \in Lists(Customs), NEW disabled
    PROVE  buildResolverList(ids, custom, disabled) \in Lists(Asked)
<1> DEFINE named == IF ids = <<>> THEN All ELSE [i \in 1..Len(ids) |-> Get(ids[i])]
           Enabled == {r \in Resolvers : r.id \notin disabled}
           list == Only(named, Enabled) \o custom
           n == IF Len(list) < MaxResolvers THEN Len(list) ELSE MaxResolvers
<1>1. named \in Seq(Loaded)
  <2>1. ids \in Seq(Registry)
    BY ListIsSeq
  <2>2. \A i \in 1..Len(ids) : Get(ids[i]) \in Loaded
    BY <2>1, RegistryType
  <2>3. [i \in 1..Len(ids) |-> Get(ids[i])] \in Seq(Loaded)
    BY <2>1, <2>2
  <2> QED
    BY <2>3, RegistryType
<1>2. Asked = Loaded \cup Customs
  BY DEF Asked, Loaded
<1>3. Only(named, Enabled) \in Seq(Asked)
  <2> HIDE DEF named, Enabled
  <2>1. Only(named, Enabled) \in Seq(Enabled \cap Loaded)
    BY <1>1, OnlyType
  <2> QED
    BY <1>2, <2>1
<1>4. list \in Seq(Asked)
  <2> HIDE DEF named, Enabled
  <2>1. custom \in Seq(Customs)
    BY ListIsSeq
  <2>2. custom \in Seq(Asked)
    BY <1>2, <2>1
  <2> QED
    BY <1>3, <2>2
<1> HIDE DEF list
<1>5. n \in 0..Len(list) /\ n <= MaxResolvers
  BY <1>4, LimitsAssumption
<1>6. SubSeq(list, 1, n) \in Seq(Asked) /\ Len(SubSeq(list, 1, n)) <= MaxResolvers
  <2> HIDE DEF n
  <2> QED
    BY <1>4, <1>5, LimitsAssumption
<1>7. SubSeq(list, 1, n) \in Lists(Asked)
  BY <1>6, SeqIsList
<1> QED
  BY <1>7 DEF buildResolverList, list, named, Enabled

(* Resolvers that a check can ask are resolvers, and lists of them lists.  *)
LEMMA AskedType ==
    /\ Asked \subseteq Resolvers
    /\ \A s \in Lists(Asked) : s \in Lists(Resolvers) /\ \A i \in 1..Len(s) : s[i] \in Asked
<1>1. Asked \subseteq Resolvers
  BY RegistryType, RegistryAssumption DEF Asked, Loaded
<1>2. ASSUME NEW s \in Lists(Asked)
      PROVE  s \in Lists(Resolvers) /\ \A i \in 1..Len(s) : s[i] \in Asked
  <2>1. s \in Seq(Asked) /\ Len(s) \in 0..MaxResolvers
    BY ListIsSeq
  <2>2. s \in Seq(Resolvers) /\ Len(s) <= MaxResolvers
    BY <1>1, <2>1, LimitsAssumption
  <2> QED
    BY <2>1, <2>2, SeqIsList
<1> QED
  BY <1>1, <1>2

-----------------------------------------------------------------------------
(* The invariant.                                                          *)

\* Workers are at places of their check's list.
PlacedWorkers ==
    \A c \in Checks, i \in Positions : work[c][i].pc # "none" => i <= Len(check[c].list)

\* Checks that use the cache ask resolvers of the registry and of requests.
AskedLists ==
    \A c \in Checks :
        ~check[c].noCache => \A i \in 1..Len(check[c].list) : check[c].list[i] \in Asked

\* An entry is about such a resolver with the id in its key.
OwnEntries ==
    \A k \in Keys :
        cache[k] # NoEntry =>
            cache[k].result.resolver.id = k[1] /\ cache[k].result.resolver \in Asked

\* An entry expires before it is older than Life.
DueEntries == \A k \in Keys : Fresh(k) => cache[k].result.age + cache[k].left <= Life

CacheInv ==
    /\ cache \in [Keys -> Entries \cup {NoEntry}]
    /\ IsFiniteSet(Cached)
    /\ Cardinality(Cached) <= Size
    /\ OwnEntries
    /\ DueEntries

WorkInv ==
    /\ check \in [Checks -> Check]
    /\ work \in [Checks -> [Positions -> Worker]]
    /\ \A c \in Checks : Cardinality(Holding(c)) <= Slots
    /\ PlacedWorkers
    /\ AskedLists
    /\ OwnAnswers
    /\ MonitorsLive

(* A result is never taken for the absence of one.                         *)
LEMMA EntryTypes ==
    /\ NoEntry \notin Entries
    /\ NoWorker \in Worker
    /\ NoCheck \in Check
<1>1. NoEntry \notin Entries
  BY DEF NoEntry, NoResult, Entries, Results
<1>2. NoOutcome \in Outcomes
  BY RegistryAssumption DEF NoOutcome, NoResolver, Outcomes, Resolvers, Ids
<1>3. NoWorker \in Worker
  BY <1>2, LimitsAssumption DEF NoWorker, Worker
<1>4. <<>> \in Lists(Resolvers)
  <2>1. <<>> \in Seq(Resolvers) /\ Len(<<>>) <= MaxResolvers
    BY LimitsAssumption
  <2> QED
    BY <2>1, SeqIsList
<1>5. (CHOOSE n \in Names : TRUE) \in Names
  BY ChecksAssumption
<1>6. NoCheck \in Check
  BY <1>4, <1>5 DEF NoCheck, Check
<1> QED
  BY <1>1, <1>3, <1>6

(* Nothing is cached and no worker runs at first.                          *)
LEMMA CheckInit == Init => CacheInv /\ WorkInv
<1> SUFFICES ASSUME Init PROVE CacheInv /\ WorkInv
  OBVIOUS
<1>1. cache = [k \in Keys |-> NoEntry] /\ check = [c \in Checks |-> NoCheck]
      /\ work = [c \in Checks |-> [i \in Positions |-> NoWorker]]
  BY DEF Init
<1>2. Cached = {}
  BY <1>1 DEF Cached
<1>3. CacheInv
  BY <1>1, <1>2, FS_EmptySet, LimitsAssumption DEF CacheInv, OwnEntries, DueEntries, Fresh
<1>4. \A c \in Checks, i \in Positions : work[c][i].pc = "none"
  BY <1>1 DEF NoWorker
<1>5. \A c \in Checks : Holding(c) = {}
  BY <1>4 DEF Holding
<1>6. \A c \in Checks : Cardinality(Holding(c)) <= Slots
  BY <1>5, FS_EmptySet, LimitsAssumption
<1>7. check \in [Checks -> Check] /\ work \in [Checks -> [Positions -> Worker]]
  BY <1>1, EntryTypes
<1>8. AskedLists
  BY <1>1 DEF AskedLists, NoCheck
<1>9. WorkInv
  BY <1>4, <1>6, <1>7, <1>8 DEF WorkInv, PlacedWorkers, OwnAnswers, MonitorsLive, Delivered
<1> QED
  BY <1>3, <1>9

(* What Query returned goes into the cache: an entry of its own resolver   *)
(* that has the TTL left after at most the longest query, in the place of  *)
(* another one if the cache is full.                                       *)
LEMMA SetKeepsCache ==
    ASSUME CacheInv, NEW k \in Keys, NEW result \in Results,
           result.resolver.id = k[1], result.resolver \in Asked,
           result.age <= Retry + 1, CacheSet(k, result)
    PROVE  CacheInv'
<1> DEFINE e == [result |-> result, left |-> TTL]
<1>1. e \in Entries /\ e.result = result /\ e.left = TTL
  BY LimitsAssumption DEF Entries
<1>2. e # NoEntry
  BY <1>1, EntryTypes
<1> HIDE DEF e
<1>3. PICK out \in IF k \notin Cached /\ Cardinality(Cached) = Size THEN Cached ELSE {k} :
         cache' = [[cache EXCEPT ![out] = NoEntry] EXCEPT ![k] = e]
  BY DEF CacheSet, e
<1>4. out \in Keys
  BY <1>3 DEF Cached
<1>5. cache \in [Keys -> Entries \cup {NoEntry}]
  BY DEF CacheInv
<1>6. /\ cache'[k] = e
      /\ \A j \in Keys \ {k} : cache'[j] = IF j = out THEN NoEntry ELSE cache[j]
  BY <1>3, <1>4, <1>5
<1>7. cache' \in [Keys -> Entries \cup {NoEntry}]
  BY <1>1, <1>3, <1>4, <1>5
<1>8. Cached' = (Cached \ {out}) \cup {k}
  BY <1>2, <1>3, <1>4, <1>6 DEF Cached
<1>9. IsFiniteSet(Cached) /\ Cardinality(Cached) \in Nat /\ Cardinality(Cached) <= Size
  BY FS_CardinalityType DEF CacheInv
<1>10. IsFiniteSet(Cached \ {out})
       /\ Cardinality(Cached \ {out}) = IF out \in Cached THEN Cardinality(Cached) - 1
                                        ELSE Cardinality(Cached)
  BY <1>9, FS_RemoveElement
<1>11. IsFiniteSet(Cached')
       /\ Cardinality(Cached') = IF k \in Cached \ {out} THEN Cardinality(Cached \ {out})
                                 ELSE Cardinality(Cached \ {out}) + 1
  BY <1>8, <1>10, FS_AddElement
<1>12. Cardinality(Cached') <= Size
  <2>1. CASE k \notin Cached /\ Cardinality(Cached) = Size
    <3>1. out \in Cached
      BY <2>1, <1>3
    <3> QED
      BY <3>1, <1>9, <1>10, <1>11, LimitsAssumption
  <2>2. CASE ~ (k \notin Cached /\ Cardinality(Cached) = Size)
    <3>1. out = k
      BY <2>2, <1>3
    <3> QED
      BY <3>1, <2>2, <1>9, <1>10, <1>11, LimitsAssumption
  <2> QED
    BY <2>1, <2>2
<1>13. OwnEntries'
  <2> SUFFICES ASSUME NEW j \in Keys, cache'[j] # NoEntry
               PROVE  cache'[j].result.resolver.id = j[1] /\ cache'[j].result.resolver \in Asked
    BY DEF OwnEntries
  <2> QED
    BY <1>1, <1>6 DEF CacheInv, OwnEntries
<1>14. DueEntries'
  <2> SUFFICES ASSUME NEW j \in Keys, Fresh(j)'
               PROVE  cache'[j].result.age + cache'[j].left <= Life
    BY DEF DueEntries
  <2>1. CASE j = k
    <3>1. result.age \in Int
      BY LimitsAssumption DEF Results, Ages, Old, Life
    <3> QED
      BY <2>1, <3>1, <1>1, <1>6, LimitsAssumption DEF Life
  <2>2. CASE j # k
    <3>1. cache'[j] = cache[j]
      BY <2>2, <1>6 DEF Fresh
    <3> QED
      BY <3>1 DEF Fresh, CacheInv, DueEntries
  <2> QED
    BY <2>1, <2>2
<1> QED
  BY <1>7, <1>11, <1>12, <1>13, <1>14 DEF CacheInv

(* A tick takes from the time an entry has left what it adds to its age.   *)
LEMMA TickKeepsCache == CacheInv /\ Tick => CacheInv'
<1> SUFFICES ASSUME CacheInv, Tick PROVE CacheInv'
  OBVIOUS
<1> DEFINE Aged(e) == [result |-> [e.result EXCEPT !.age = Older(@)],
                       left |-> IF e.left >= 0 THEN e.left - 1 ELSE -1]
<1>1. \A e \in Entries :
         /\ Aged(e) \in Entries
         /\ Aged(e).result.resolver = e.result.resolver
         /\ Aged(e).left = IF e.left >= 0 THEN e.left - 1 ELSE -1
         /\ Aged(e).result.age = Older(e.result.age)
         /\ e.left \in -1..TTL
         /\ e.result.age \in Ages
  <2> TAKE e \in Entries
  <2> DEFINE r == [e.result EXCEPT !.age = Older(@)]
  <2>1. e.result \in Results /\ e.left \in -1..TTL
    BY DEF Entries
  <2>2. e.result.age \in Ages /\ Older(e.result.age) \in Ages
    BY <2>1, LimitsAssumption DEF Results, Ages, Older, Old, Life
  <2>3. r \in Results /\ r.resolver = e.result.resolver /\ r.age = Older(e.result.age)
    BY <2>1, <2>2 DEF Results
  <2> HIDE DEF r
  <2>4. (IF e.left >= 0 THEN e.left - 1 ELSE -1) \in -1..TTL
    BY <2>1, LimitsAssumption
  <2>5. Aged(e) = [result |-> r, left |-> IF e.left >= 0 THEN e.left - 1 ELSE -1]
    BY DEF r
  <2> HIDE DEF Aged
  <2>6. Aged(e) \in Entries /\ Aged(e).result = r
        /\ Aged(e).left = IF e.left >= 0 THEN e.left - 1 ELSE -1
    BY <2>3, <2>4, <2>5 DEF Entries
  <2> QED
    BY <2>1, <2>2, <2>3, <2>6
<1>2. cache' = [k \in Keys |-> IF cache[k] = NoEntry THEN NoEntry ELSE Aged(cache[k])]
  BY DEF Tick
<1> HIDE DEF Aged
<1>3. cache \in [Keys -> Entries \cup {NoEntry}]
  BY DEF CacheInv
<1>4. \A k \in Keys : cache[k] # NoEntry => cache[k] \in Entries /\ cache'[k] = Aged(cache[k])
  BY <1>2, <1>3
<1>5. \A k \in Keys : cache[k] = NoEntry => cache'[k] = NoEntry
  BY <1>2
<1>6. cache' \in [Keys -> Entries \cup {NoEntry}]
  BY <1>1, <1>2, <1>4
<1>7. Cached' = Cached
  BY <1>1, <1>4, <1>5, EntryTypes DEF Cached
<1>8. OwnEntries'
  BY <1>1, <1>4, <1>5 DEF CacheInv, OwnEntries
<1>9. DueEntries'
  <2> SUFFICES ASSUME NEW k \in Keys, cache'[k] # NoEntry, cache'[k].left >= 0
               PROVE  cache'[k].result.age + cache'[k].left <= Life
    BY DEF DueEntries, Fresh
  <2>1. cache[k] # NoEntry
    BY <1>5
  <2> DEFINE e == cache[k]
  <2>2. e \in Entries /\ cache'[k] = Aged(e)
    BY <1>4, <2>1
  <2>3. cache[k].left >= 0 => e.result.age + e.left <= Life
    BY <2>1 DEF CacheInv, DueEntries, Fresh
  <2>4. /\ cache'[k].left = IF e.left >= 0 THEN e.left - 1 ELSE -1
        /\ cache'[k].result.age = Older(e.result.age)
        /\ e.left \in -1..TTL
        /\ e.result.age \in Ages
    BY <1>1, <2>2
  <2> QED
    BY <2>3, <2>4, LimitsAssumption DEF Older, Ages, Old, Life
<1> QED
  BY <1>6, <1>7, <1>8, <1>9 DEF CacheInv

LEMMA HoldingFinite ==
    ASSUME NEW c PROVE IsFiniteSet(Holding(c)) /\ Cardinality(Holding(c)) \in Nat
<1>1. IsFiniteSet(Positions)
  BY FS_Interval, LimitsAssumption DEF Positions
<1>2. Holding(c) \in SUBSET Positions
  BY DEF Holding
<1> QED
  BY <1>1, <1>2, FS_Subset, FS_CardinalityType

(* One worker moves: it is at a place of the list, takes a token only if   *)
(* one is left, and delivers its own answer, live if its check is.         *)
LEMMA PutWorker ==
    ASSUME WorkInv, NEW c \in Checks, NEW i \in Positions, NEW w \in Worker,
           work' = [work EXCEPT ![c][i] = w], check' = check,
           i <= Len(check[c].list),
           w.pc = "exchange" => Cardinality(Holding(c)) < Slots \/ work[c][i].pc = "exchange",
           w.pc = "exit" =>
               IsAnswerOf(w.outcome.resolver, check[c].list[i], check[c].noCache),
           w.pc = "exit" /\ check[c].noCache /\ w.outcome.aborted => check[c].cancelled
    PROVE  WorkInv'
<1>1. work \in [Checks -> [Positions -> Worker]] /\ check \in [Checks -> Check]
  BY DEF WorkInv
<1>2. work' \in [Checks -> [Positions -> Worker]]
  BY <1>1
<1>3. work'[c][i] = w
  BY <1>1
<1>4. \A d \in Checks, j \in Positions : d # c \/ j # i => work'[d][j] = work[d][j]
  BY <1>1
<1>5. \A d \in Checks \ {c} : Holding(d)' = Holding(d)
  BY <1>4 DEF Holding
<1>6. Cardinality(Holding(c)') <= Slots
  <2>1. IsFiniteSet(Holding(c)) /\ Cardinality(Holding(c)) \in Nat
        /\ Cardinality(Holding(c)) <= Slots
    BY HoldingFinite DEF WorkInv
  <2>2. CASE w.pc = "exchange"
    <3>1. Holding(c)' = Holding(c) \cup {i}
      BY <1>3, <1>4, <2>2 DEF Holding
    <3>2. work[c][i].pc = "exchange" <=> i \in Holding(c)
      BY DEF Holding
    <3>3. Cardinality(Holding(c)') = IF i \in Holding(c) THEN Cardinality(Holding(c))
                                     ELSE Cardinality(Holding(c)) + 1
      BY ONLY <2>1, <3>1, FS_AddElement
    <3> QED
      BY <2>1, <2>2, <3>2, <3>3, LimitsAssumption
  <2>3. CASE w.pc # "exchange"
    <3>1. Holding(c)' = Holding(c) \ {i}
      BY <1>3, <1>4, <2>3 DEF Holding
    <3>2. Cardinality(Holding(c)') = IF i \in Holding(c) THEN Cardinality(Holding(c)) - 1
                                     ELSE Cardinality(Holding(c))
      BY ONLY <2>1, <3>1, FS_RemoveElement
    <3> QED
      BY <2>1, <3>2, LimitsAssumption
  <2> QED
    BY <2>2, <2>3
<1>7. \A d \in Checks : Cardinality(Holding(d)') <= Slots
  BY <1>5, <1>6 DEF WorkInv
<1>8. PlacedWorkers'
  <2> SUFFICES ASSUME NEW d \in Checks, NEW j \in Positions, work'[d][j].pc # "none"
               PROVE  j <= Len(check[d].list)
    BY DEF PlacedWorkers
  <2> QED
    BY <1>4 DEF WorkInv, PlacedWorkers
<1>9. OwnAnswers'
  <2> SUFFICES ASSUME NEW d \in Checks, NEW j \in Positions, work'[d][j].pc = "exit"
               PROVE  IsAnswerOf(work'[d][j].outcome.resolver, check[d].list[j], check[d].noCache)
    BY DEF OwnAnswers, Delivered
  <2> QED
    BY <1>3, <1>4 DEF WorkInv, OwnAnswers, Delivered
<1>10. MonitorsLive'
  <2> SUFFICES ASSUME NEW d \in Checks, NEW j \in Positions, check[d].noCache,
                      work'[d][j].pc = "exit", work'[d][j].outcome.aborted
               PROVE  check[d].cancelled
    BY DEF MonitorsLive, Delivered
  <2> QED
    BY <1>3, <1>4 DEF WorkInv, MonitorsLive, Delivered
<1>11. AskedLists'
  BY DEF WorkInv, AskedLists
<1> QED
  BY <1>1, <1>2, <1>7, <1>8, <1>9, <1>10, <1>11 DEF WorkInv

(* All workers of a check are put to their start, or away: no answer of an *)
(* earlier check is left in their places.                                  *)
LEMMA PutCheck ==
    ASSUME WorkInv, NEW c \in Checks, NEW r \in Check, NEW ws \in [Positions -> Worker],
           check' = [check EXCEPT ![c] = r], work' = [work EXCEPT ![c] = ws],
           ~r.noCache => \A i \in 1..Len(r.list) : r.list[i] \in Asked,
           \A i \in Positions : (ws[i].pc = "start" /\ i <= Len(r.list)) \/ ws[i].pc = "none"
    PROVE  WorkInv'
<1>1. work \in [Checks -> [Positions -> Worker]] /\ check \in [Checks -> Check]
  BY DEF WorkInv
<1>2. work' \in [Checks -> [Positions -> Worker]] /\ check' \in [Checks -> Check]
  BY <1>1
<1>3. work'[c] = ws /\ check'[c] = r
  BY <1>1
<1>4. \A d \in Checks \ {c} : work'[d] = work[d] /\ check'[d] = check[d]
  BY <1>1
<1>5. \A d \in Checks \ {c} : Holding(d)' = Holding(d)
  BY <1>4 DEF Holding
<1>6. Holding(c)' = {}
  BY <1>3 DEF Holding
<1>7. \A d \in Checks : Cardinality(Holding(d)') <= Slots
  <2>1. \A d \in Checks : Cardinality(Holding(d)) <= Slots
    BY DEF WorkInv
  <2>2. Cardinality(Holding(c)') <= Slots
    BY ONLY <1>6, FS_EmptySet, LimitsAssumption
  <2> QED
    BY ONLY <1>5, <2>1, <2>2
<1>8. PlacedWorkers'
  <2> SUFFICES ASSUME NEW d \in Checks, NEW j \in Positions, work'[d][j].pc # "none"
               PROVE  j <= Len(check'[d].list)
    BY DEF PlacedWorkers
  <2> QED
    BY <1>3, <1>4 DEF WorkInv, PlacedWorkers
<1>9. OwnAnswers'
  <2> SUFFICES ASSUME NEW d \in Checks, NEW j \in Positions, work'[d][j].pc = "exit"
               PROVE  IsAnswerOf(work'[d][j].outcome.resolver, check'[d].list[j],
                                 check'[d].noCache)
    BY DEF OwnAnswers, Delivered
  <2>1. d # c
    BY <1>3
  <2> QED
    BY <2>1, <1>4 DEF WorkInv, OwnAnswers, Delivered
<1>10. MonitorsLive'
  <2> SUFFICES ASSUME NEW d \in Checks, NEW j \in Positions, check'[d].noCache,
                      work'[d][j].pc = "exit", work'[d][j].outcome.aborted
               PROVE  check'[d].cancelled
    BY DEF MonitorsLive, Delivered
  <2>1. d # c
    BY <1>3
  <2> QED
    BY <2>1, <1>4 DEF WorkInv, MonitorsLive, Delivered
<1>11. AskedLists'
  BY <1>3, <1>4 DEF WorkInv, AskedLists
<1> QED
  BY <1>2, <1>7, <1>8, <1>9, <1>10, <1>11 DEF WorkInv

LEMMA SameCache == CacheInv /\ UNCHANGED cache => CacheInv'
  BY DEF CacheInv, OwnEntries, DueEntries, Fresh, Cached

-----------------------------------------------------------------------------
(* Every action preserves the invariant.                                   *)

(* The fan-out starts with every worker of the list at its start.          *)
LEMMA StartKeeps ==
    ASSUME CacheInv, WorkInv, NEW c \in Checks, NEW name \in Names,
           NEW noCache \in BOOLEAN, NEW list \in Lists(Resolvers),
           ~noCache => \A i \in 1..Len(list) : list[i] \in Asked,
           Start(c, name, noCache, list)
    PROVE  CacheInv' /\ WorkInv'
<1> DEFINE r == [NoCheck EXCEPT !.running = TRUE, !.name = name,
                                !.noCache = noCache, !.list = list]
           w == [NoWorker EXCEPT !.pc = "start"]
           ws == [i \in Positions |-> IF i <= Len(list) THEN w ELSE NoWorker]
<1>1. r \in Check /\ r.list = list /\ r.noCache = noCache
  BY EntryTypes DEF NoCheck, Check
<1>2. w \in Worker /\ w.pc = "start"
  BY EntryTypes DEF NoWorker, Worker
<1>3. check' = [check EXCEPT ![c] = r] /\ work' = [work EXCEPT ![c] = ws] /\ UNCHANGED cache
  BY DEF Start
<1> HIDE DEF r, w
<1>4. ws \in [Positions -> Worker]
  BY <1>2, EntryTypes
<1>5. \A i \in Positions : (ws[i].pc = "start" /\ i <= Len(r.list)) \/ ws[i].pc = "none"
  BY <1>1, <1>2 DEF NoWorker
<1> HIDE DEF ws
<1>6. WorkInv'
  BY <1>1, <1>3, <1>4, <1>5, PutCheck
<1> QED
  BY <1>3, <1>6, SameCache

(* POST /check, /reverse and /lookup and the check of a monitor's run.     *)
LEMMA RequestsKeep ==
    ASSUME CacheInv, WorkInv, NEW c \in Checks,
           PostCheck(c) \/ PostReverse(c) \/ PostLookup(c) \/ MonitorCheck(c)
    PROVE  CacheInv' /\ WorkInv'
<1>0. <<>> \in Lists(Registry) /\ <<>> \in Lists(Customs)
  <2>1. <<>> \in Seq(Registry) /\ <<>> \in Seq(Customs) /\ Len(<<>>) <= MaxResolvers
    BY LimitsAssumption
  <2> QED
    BY <2>1, SeqIsList
<1>1. ASSUME NEW name \in Names, NEW noCache \in BOOLEAN, NEW list \in Lists(Asked),
             Start(c, name, noCache, list)
      PROVE  CacheInv' /\ WorkInv'
  BY <1>1, AskedType, StartKeeps
<1>2. ASSUME NEW name \in Names, NEW resolver \in Resolvers, Start(c, name, TRUE, <<resolver>>)
      PROVE  CacheInv' /\ WorkInv'
  <2>1. <<resolver>> \in Seq(Resolvers) /\ Len(<<resolver>>) <= MaxResolvers
    BY LimitsAssumption
  <2>2. <<resolver>> \in Lists(Resolvers)
    BY <2>1, SeqIsList
  <2> QED
    BY <1>2, <2>2, StartKeeps
<1>3. CASE PostCheck(c)
  <2>1. PICK name \in Names, ids \in Lists(Registry), custom \in Lists(Customs),
             disabled \in SUBSET Registry :
           Start(c, name, FALSE, buildResolverList(ids, custom, disabled))
    BY <1>3 DEF PostCheck
  <2> QED
    BY <2>1, <1>1, ListType
<1>4. CASE PostReverse(c)
  <2>1. PICK name \in Names, ids \in Lists(Registry), disabled \in SUBSET Registry :
           Start(c, name, FALSE, buildResolverList(ids, <<>>, disabled))
    BY <1>4 DEF PostReverse
  <2> QED
    BY <1>0, <2>1, <1>1, ListType
<1>5. CASE PostLookup(c)
  <2>1. PICK name \in Names :
           \/ \E id \in Registry, disabled \in SUBSET Registry : Lookup(c, name, id, disabled)
           \/ \E ip \in Addresses \ {NoAddress} : LookupAddress(c, name, ip)
    BY <1>5 DEF PostLookup
  <2>2. ASSUME NEW id \in Registry, NEW disabled, Lookup(c, name, id, disabled)
        PROVE  CacheInv' /\ WorkInv'
    <3>1. Get(id) \in Resolvers
      BY RegistryType
    <3> QED
      BY <1>2, <2>2, <3>1 DEF Lookup
  <2>3. ASSUME NEW ip \in Addresses, LookupAddress(c, name, ip)
        PROVE  CacheInv' /\ WorkInv'
    <3>1. [id |-> NoId, ip |-> ip] \in Resolvers
      BY DEF Resolvers, Ids
    <3> QED
      BY <1>2, <2>3, <3>1 DEF LookupAddress
  <2> QED
    BY <2>1, <2>2, <2>3
<1>6. CASE MonitorCheck(c)
  <2>1. PICK name \in Names, disabled \in SUBSET Registry :
           Start(c, name, TRUE, buildResolverList(<<>>, <<>>, disabled))
    BY <1>6 DEF MonitorCheck
  <2> QED
    BY <1>0, <2>1, <1>1, ListType
<1> QED
  BY <1>3, <1>4, <1>5, <1>6

(* The resolver at a worker's place, and the key of its question.          *)
LEMMA PlaceType ==
    ASSUME WorkInv, NEW c \in Checks, NEW i \in Positions, i <= Len(check[c].list)
    PROVE  /\ check[c].list[i] \in Resolvers
           /\ ~check[c].noCache => check[c].list[i] \in Asked
           /\ KeyOf(c, i) \in Keys /\ KeyOf(c, i)[1] = check[c].list[i].id
<1>1. check[c].list \in Lists(Resolvers) /\ check[c].name \in Names
  BY DEF WorkInv, Check
<1>2. check[c].list \in Seq(Resolvers)
  BY <1>1, ListIsSeq
<1>3. i \in 1..Len(check[c].list)
  BY <1>2, LimitsAssumption DEF Positions
<1>4. check[c].list[i] \in Resolvers
  BY <1>2, <1>3
<1>5. check[c].list[i].id \in Ids
  BY <1>4 DEF Resolvers
<1>6. ~check[c].noCache => check[c].list[i] \in Asked
  BY <1>3 DEF WorkInv, AskedLists
<1> QED
  BY <1>1, <1>4, <1>5, <1>6 DEF KeyOf, Key, Keys

(* A worker delivers an answer of its own resolver, aborted only if its    *)
(* check was cancelled or uses the cache.                                  *)
LEMMA DeliverKeeps ==
    ASSUME WorkInv, NEW c \in Checks, NEW i \in Positions, i <= Len(check[c].list),
           NEW result, result.resolver \in Resolvers,
           IsAnswerOf(result.resolver, check[c].list[i], check[c].noCache),
           check[c].noCache /\ result.status = "aborted" => check[c].cancelled,
           Deliver(c, i, result), check' = check
    PROVE  WorkInv'
<1> DEFINE outcome == [resolver |-> result.resolver,
                       aborted |-> check[c].noCache /\ result.status = "aborted"]
           w == [NoWorker EXCEPT !.pc = "exit", !.outcome = outcome]
<1>3. outcome \in Outcomes
  BY DEF Outcomes
<1>4. w \in Worker /\ w.pc = "exit" /\ w.outcome = outcome
  <2> HIDE DEF outcome
  <2> QED
    BY <1>3, EntryTypes DEF NoWorker, Worker
<1>5. work' = [work EXCEPT ![c][i] = w]
  BY DEF Deliver
<1>6. w.outcome.resolver = result.resolver
      /\ (w.pc = "exit" /\ check[c].noCache /\ w.outcome.aborted => check[c].cancelled)
  <2>1. outcome.resolver = result.resolver
        /\ (outcome.aborted <=> check[c].noCache /\ result.status = "aborted")
    OBVIOUS
  <2> HIDE DEF w, outcome
  <2> QED
    BY <1>4, <2>1
<1> HIDE DEF w
<1> QED
  BY <1>4, <1>5, <1>6, PutWorker

(* Query returns: the result is delivered and, unless noCache, stored.     *)
LEMMA ReturnsKeeps ==
    ASSUME CacheInv, WorkInv, NEW c \in Checks, NEW i \in Positions,
           i <= Len(check[c].list), NEW status \in {"ended", "aborted"},
           NEW time \in 0..(Retry + 1), status = "aborted" => check[c].cancelled,
           Returns(c, i, status, time), check' = check
    PROVE  CacheInv' /\ WorkInv'
<1> DEFINE result == [resolver |-> check[c].list[i], status |-> status, age |-> time]
<1>2. check[c].list[i] \in Resolvers /\ (~check[c].noCache => check[c].list[i] \in Asked)
  BY PlaceType
<1>3. time \in Ages
  BY LimitsAssumption DEF Ages, Old, Life
<1>4. /\ result \in Results
      /\ result.resolver = check[c].list[i] /\ result.status = status /\ result.age = time
  BY <1>2, <1>3 DEF Results
<1>5. /\ Deliver(c, i, result)
      /\ IF check[c].noCache THEN UNCHANGED cache ELSE CacheSet(KeyOf(c, i), result)
  BY DEF Returns
<1> HIDE DEF result
<1>6. WorkInv'
  <2>1. IsAnswerOf(result.resolver, check[c].list[i], check[c].noCache)
    BY <1>4 DEF IsAnswerOf
  <2> QED
    BY <1>2, <1>4, <1>5, <2>1, DeliverKeeps
<1>7. KeyOf(c, i) \in Keys /\ KeyOf(c, i)[1] = check[c].list[i].id
  BY PlaceType
<1>8. result.age <= Retry + 1
  BY <1>4, LimitsAssumption
<1>9. CacheInv'
  <2>1. CASE UNCHANGED cache
    BY <2>1, SameCache
  <2>2. CASE ~check[c].noCache /\ CacheSet(KeyOf(c, i), result)
    BY <2>2, <1>2, <1>4, <1>7, <1>8, SetKeepsCache
  <2> QED
    BY <1>5, <2>1, <2>2
<1> QED
  BY <1>6, <1>9

(* The next attempt: the end of the context, or another exchange.          *)
LEMMA AttemptKeeps ==
    ASSUME CacheInv, WorkInv, NEW c \in Checks, NEW i \in Positions,
           i <= Len(check[c].list), NEW tries \in 0..Retry,
           Cardinality(Holding(c)) < Slots \/ work[c][i].pc = "exchange",
           Attempt(c, i, tries), check' = check
    PROVE  CacheInv' /\ WorkInv'
<1>1. CASE check[c].cancelled /\ Returns(c, i, "aborted", tries)
  <2>1. tries \in 0..(Retry + 1)
    BY LimitsAssumption
  <2> QED
    BY <1>1, <2>1, ReturnsKeeps
<1>2. CASE /\ work' = [work EXCEPT ![c][i] = [NoWorker EXCEPT !.pc = "exchange", !.tries = tries]]
           /\ UNCHANGED cache
  <2> DEFINE w == [NoWorker EXCEPT !.pc = "exchange", !.tries = tries]
  <2>1. w \in Worker /\ w.pc = "exchange"
    BY EntryTypes DEF NoWorker, Worker
  <2> HIDE DEF w
  <2>2. work' = [work EXCEPT ![c][i] = w]
    BY <1>2 DEF w
  <2>3. WorkInv'
    BY <2>1, <2>2, PutWorker
  <2> QED
    BY <1>2, <2>3, SameCache
<1> QED
  BY <1>1, <1>2 DEF Attempt

(* A token, and then a hit or the first attempt.                           *)
LEMMA AcquireKeeps ==
    ASSUME CacheInv, WorkInv, NEW c \in Checks, NEW i \in Positions, Acquire(c, i)
    PROVE  CacheInv' /\ WorkInv'
<1>1. work[c][i].pc = "start" /\ Cardinality(Holding(c)) < Slots /\ check' = check
  BY DEF Acquire
<1>2. i <= Len(check[c].list)
  BY <1>1 DEF WorkInv, PlacedWorkers
<1>3. CASE /\ ~check[c].noCache /\ Fresh(KeyOf(c, i))
           /\ Deliver(c, i, cache[KeyOf(c, i)].result) /\ UNCHANGED cache
  <2> DEFINE result == cache[KeyOf(c, i)].result
  <2>1. KeyOf(c, i) \in Keys /\ KeyOf(c, i)[1] = check[c].list[i].id
        /\ check[c].list[i] \in Asked
    BY <1>2, <1>3, PlaceType
  <2>2. result.resolver.id = check[c].list[i].id /\ result.resolver \in Asked
    BY <1>3, <2>1 DEF CacheInv, OwnEntries, Fresh
  <2>3. IsAnswerOf(result.resolver, check[c].list[i], check[c].noCache)
    BY <1>3, <2>1, <2>2 DEF IsAnswerOf, Unambiguous
  <2>4. result.resolver \in Resolvers
    BY <2>2, AskedType
  <2> HIDE DEF result
  <2>5. Deliver(c, i, result)
    BY <1>3 DEF result
  <2>6. WorkInv'
    BY <1>1, <1>2, <1>3, <2>3, <2>4, <2>5, DeliverKeeps
  <2> QED
    BY <1>3, <2>6, SameCache
<1>4. CASE Attempt(c, i, 0)
  <2>1. 0 \in 0..Retry
    BY LimitsAssumption
  <2> QED
    BY <1>1, <1>2, <1>4, <2>1, AttemptKeeps
<1> QED
  BY <1>3, <1>4 DEF Acquire

(* The end of an exchange, or its timeout and the next attempt.            *)
LEMMA ExchangeKeeps ==
    ASSUME CacheInv, WorkInv, NEW c \in Checks, NEW i \in Positions, Exchange(c, i)
    PROVE  CacheInv' /\ WorkInv'
<1> DEFINE w == work[c][i]
<1>1. w.pc = "exchange" /\ check' = check
  BY DEF Exchange
<1>2. i <= Len(check[c].list)
  BY <1>1 DEF WorkInv, PlacedWorkers
<1>3. w.tries \in 0..Retry
  BY DEF WorkInv, Worker
<1>4. Elapsed(w) \in 0..(Retry + 1)
  BY <1>3, LimitsAssumption DEF Elapsed
<1>5. CASE Returns(c, i, "ended", Elapsed(w))
  BY <1>1, <1>2, <1>4, <1>5, ReturnsKeeps
<1>6. CASE w.tries < Retry /\ Attempt(c, i, w.tries + 1)
  <2>1. w.tries + 1 \in 0..Retry
    BY <1>3, <1>6, LimitsAssumption
  <2> QED
    BY <1>1, <1>2, <1>6, <2>1, AttemptKeeps
<1>7. CASE check[c].cancelled /\ Returns(c, i, "aborted", Elapsed(w))
  BY <1>1, <1>2, <1>4, <1>7, ReturnsKeeps
<1> QED
  BY <1>5, <1>6, <1>7 DEF Exchange

(* The check is answered and forgotten.                                    *)
LEMMA AnswerKeeps ==
    ASSUME CacheInv, WorkInv, NEW c \in Checks, Answer(c)
    PROVE  CacheInv' /\ WorkInv'
<1> DEFINE ws == [i \in Positions |-> NoWorker]
<1>1. ws \in [Positions -> Worker] /\ \A i \in Positions : ws[i].pc = "none"
  BY EntryTypes DEF NoWorker
<1>2. check' = [check EXCEPT ![c] = NoCheck] /\ work' = [work EXCEPT ![c] = ws] /\ UNCHANGED cache
  BY DEF Answer
<1> HIDE DEF ws
<1>3. WorkInv'
  <2>1. \A i \in 1..Len(NoCheck.list) : NoCheck.list[i] \in Asked
    BY DEF NoCheck
  <2> QED
    BY <1>1, <1>2, <2>1, EntryTypes, PutCheck
<1> QED
  BY <1>2, <1>3, SameCache

(* The client goes away; nothing that was delivered changes.               *)
LEMMA CancelKeeps ==
    ASSUME CacheInv, WorkInv, NEW c \in Checks, Cancel(c)
    PROVE  CacheInv' /\ WorkInv'
<1>1. check' = [check EXCEPT ![c].cancelled = TRUE] /\ work' = work /\ cache' = cache
  BY DEF Cancel
<1>2. check \in [Checks -> Check]
  BY DEF WorkInv
<1>3. check' \in [Checks -> Check]
  BY <1>1, <1>2 DEF Check
<1>4. \A d \in Checks : /\ check'[d].list = check[d].list /\ check'[d].noCache = check[d].noCache
                        /\ check[d].cancelled => check'[d].cancelled
  BY <1>1, <1>2 DEF Check
<1>5. \A d \in Checks : Holding(d)' = Holding(d)
  BY <1>1 DEF Holding
<1>6. PlacedWorkers' /\ AskedLists' /\ OwnAnswers' /\ MonitorsLive'
  BY <1>1, <1>4 DEF WorkInv, PlacedWorkers, AskedLists, OwnAnswers, MonitorsLive, Delivered
<1>7. WorkInv'
  BY <1>1, <1>3, <1>5, <1>6 DEF WorkInv
<1> QED
  BY <1>1, <1>7, SameCache

(* Time passes for the cache and for the exchanges.                        *)
LEMMA TickKeeps == CacheInv /\ WorkInv /\ Tick => CacheInv' /\ WorkInv'
<1> SUFFICES ASSUME CacheInv, WorkInv, Tick PROVE CacheInv' /\ WorkInv'
  OBVIOUS
<1> DEFINE Late(w) == [w EXCEPT !.due = w.pc = "exchange"]
<1>1. \A w \in Worker : Late(w) \in Worker /\ Late(w).pc = w.pc /\ Late(w).outcome = w.outcome
  BY DEF Worker
<1>2. work' = [c \in Checks |-> [i \in Positions |-> Late(work[c][i])]] /\ check' = check
  BY DEF Tick
<1> HIDE DEF Late
<1>3. work \in [Checks -> [Positions -> Worker]]
  BY DEF WorkInv
<1>4. \A c \in Checks, i \in Positions :
         /\ work'[c][i] \in Worker
         /\ work'[c][i].pc = work[c][i].pc /\ work'[c][i].outcome = work[c][i].outcome
  BY <1>1, <1>2, <1>3
<1>5. work' \in [Checks -> [Positions -> Worker]]
  BY <1>1, <1>2, <1>3
<1>6. \A c \in Checks : Holding(c)' = Holding(c)
  BY <1>4 DEF Holding
<1>7. PlacedWorkers' /\ AskedLists' /\ OwnAnswers' /\ MonitorsLive'
  <2>1. check' = check /\ PlacedWorkers /\ AskedLists /\ OwnAnswers /\ MonitorsLive
    BY <1>2 DEF WorkInv
  <2>2. PlacedWorkers'
    BY ONLY <2>1, <1>4 DEF PlacedWorkers
  <2>3. OwnAnswers'
    BY ONLY <2>1, <1>4 DEF OwnAnswers, Delivered
  <2>4. MonitorsLive'
    BY ONLY <2>1, <1>4 DEF MonitorsLive, Delivered
  <2>5. AskedLists'
    BY ONLY <2>1 DEF AskedLists
  <2> QED
    BY <2>2, <2>3, <2>4, <2>5
<1>8. WorkInv'
  BY <1>2, <1>5, <1>6, <1>7 DEF WorkInv
<1> QED
  BY <1>8, TickKeepsCache

(* The invariant is inductive.                                             *)
LEMMA CheckStep == CacheInv /\ WorkInv /\ [Next]_vars => CacheInv' /\ WorkInv'
<1> SUFFICES ASSUME CacheInv, WorkInv, [Next]_vars PROVE CacheInv' /\ WorkInv'
  OBVIOUS
<1>1. ASSUME NEW c \in Posts, PostCheck(c) \/ PostReverse(c) \/ PostLookup(c)
      PROVE  CacheInv' /\ WorkInv'
  BY <1>1, RequestsKeep DEF Checks
<1>2. ASSUME NEW c \in Monitors, MonitorCheck(c) PROVE CacheInv' /\ WorkInv'
  BY <1>2, RequestsKeep DEF Checks
<1>3. ASSUME NEW c \in Checks, Answer(c) PROVE CacheInv' /\ WorkInv'
  BY <1>3, AnswerKeeps
<1>4. ASSUME NEW c \in Checks, Cancel(c) PROVE CacheInv' /\ WorkInv'
  BY <1>4, CancelKeeps
<1>5. ASSUME NEW c \in Checks, NEW i \in Positions, WorkerStep(c, i)
      PROVE  CacheInv' /\ WorkInv'
  BY <1>5, AcquireKeeps, ExchangeKeeps DEF WorkerStep
<1>6. CASE Tick
  BY <1>6, TickKeeps
<1>7. CASE UNCHANGED vars
  <2>1. cache' = cache /\ check' = check /\ work' = work
    BY <1>7 DEF vars
  <2>2. WorkInv'
    BY <2>1 DEF WorkInv, Holding, PlacedWorkers, AskedLists, OwnAnswers, MonitorsLive, Delivered
  <2> QED
    BY <2>1, <2>2, SameCache
<1> QED
  BY <1>1, <1>2, <1>3, <1>4, <1>5, <1>6, <1>7 DEF Next

LEMMA CheckInvariant == Spec => [](CacheInv /\ WorkInv)
  BY CheckInit, CheckStep, PTL DEF Spec

-----------------------------------------------------------------------------
(* Theorems.                                                               *)

(* Workers never hold more tokens than a check's semaphore has, and the    *)
(* cache never holds more entries than its capacity.                       *)
THEOREM CheckTyped == Spec => []TypeOK
<1>1. CacheInv /\ WorkInv => TypeOK
  BY DEF CacheInv, WorkInv, TypeOK
<1> QED
  BY <1>1, CheckInvariant, PTL

(* results[idx] of fanOut is the answer of the idx-th resolver of the      *)
(* list, whatever other checks store in the shared cache and evict from    *)
(* it: of its address if the check does not use the cache or no other      *)
(* resolver that can be asked has its id, and of its id in any case.       *)
THEOREM AnswersAreOwn == Spec => []OwnAnswers
<1>1. WorkInv => OwnAnswers
  BY DEF WorkInv
<1> QED
  BY <1>1, CheckInvariant, PTL

(* Get serves no result whose query began longer ago than the TTL and the  *)
(* longest query take together, in whichever order results are stored.     *)
THEOREM ServesRecent == Spec => []CachedIsRecent
<1>1. CacheInv => CachedIsRecent
  <2> SUFFICES ASSUME CacheInv, NEW k \in Keys, Fresh(k) PROVE cache[k].result.age <= Life
    BY DEF CachedIsRecent
  <2>1. cache[k] \in Entries /\ cache[k].left >= 0
        /\ cache[k].result.age + cache[k].left <= Life
    BY DEF CacheInv, DueEntries, Fresh
  <2>2. cache[k].left \in -1..TTL /\ cache[k].result.age \in Ages
    BY <2>1 DEF Entries, Results
  <2> QED
    BY <2>1, <2>2, LimitsAssumption DEF Ages, Old, Life
<1> QED
  BY <1>1, CheckInvariant, PTL

(* The check of a monitor and a lookup are not given what a cancelled      *)
(* request left in the cache.                                              *)
THEOREM MonitorsAreLive == Spec => []MonitorsLive
<1>1. WorkInv => MonitorsLive
  BY DEF WorkInv
<1> QED
  BY <1>1, CheckInvariant, PTL
=============================================================================
