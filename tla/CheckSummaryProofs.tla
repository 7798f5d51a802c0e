------------------------- MODULE CheckSummaryProofs -------------------------
(***************************************************************************)
(* Proofs about CheckSummary, for any values, any TTLs and any number of   *)
(* results and answers.  buildSummary is a function of the results, so the *)
(* invariant is only that the results are a sequence of them (Collected);  *)
(* what the properties need is counting: a part of a finite set that is as *)
(* large as the set is the set, an injection of a finite set into itself   *)
(* is onto, and a finite non-empty set of numbers has a largest one.       *)
(***************************************************************************)
EXTENDS CheckSummary, FiniteSetTheorems, FunctionTheorems, WellFoundedInduction, TLAPS

Collected == results \in Seq(Results)

LEMMA CollectedInvariant == Spec => []Collected
<1>1. Init => Collected
  BY DEF Init, Collected
<1>2. Collected /\ [Next]_results => Collected'
  BY DEF Collected, Next, Collect
<1> QED
  BY <1>1, <1>2, PTL DEF Spec

-----------------------------------------------------------------------------
(* Sets of numbers and of results.                                         *)

Less == {pair \in Nat \X Nat : pair[1] < pair[2]}

(* A non-empty set of natural numbers has a least element.                 *)
LEMMA LeastNumber ==
  ASSUME NEW T \in SUBSET Nat, T # {}
  PROVE  \E x \in T : \A y \in T : x <= y
<1>1. IsWellFoundedOn(Less, Nat)
  BY NatLessThanWellFounded DEF OpToRel, Less
<1>2. PICK x \in T : \A y \in T : ~ (<<y, x>> \in Less)
  BY <1>1, WFMin
<1>3. ASSUME NEW y \in T PROVE x <= y
  <2>1. ~ (<<y, x>> \in Less)
    BY <1>2
  <2>2. x \in Nat /\ y \in Nat
    OBVIOUS
  <2> QED
    BY <2>1, <2>2 DEF Less
<1> QED
  BY <1>3

(* A finite one has a largest element: the one with the fewest above it.   *)
LEMMA LargestNumber ==
  ASSUME NEW T \in SUBSET Nat, T # {}, IsFiniteSet(T)
  PROVE  \E x \in T : \A y \in T : y <= x
<1> DEFINE Above(x) == {y \in T : x < y}
           Sizes == {Cardinality(Above(x)) : x \in T}
<1>1. \A x \in T : IsFiniteSet(Above(x)) /\ Cardinality(Above(x)) \in Nat
  <2> SUFFICES ASSUME NEW x \in T
               PROVE  IsFiniteSet(Above(x)) /\ Cardinality(Above(x)) \in Nat
    OBVIOUS
  <2>1. Above(x) \in SUBSET T
    OBVIOUS
  <2> HIDE DEF Above
  <2> QED
    BY <2>1, FS_Subset, FS_CardinalityType
<1>2. PICK x \in T : \A y \in T : Cardinality(Above(x)) <= Cardinality(Above(y))
  <2>1. Sizes \in SUBSET Nat /\ Sizes # {}
    BY <1>1
  <2>2. \E m \in Sizes : \A l \in Sizes : m <= l
    <3> HIDE DEF Sizes
    <3> QED
      BY <2>1, LeastNumber
  <2> HIDE DEF Above
  <2> QED
    BY <2>2
<1>3. ASSUME NEW y \in T, x < y PROVE FALSE
  <2>0. \A z \in T : z \in Nat
    OBVIOUS
  <2>1. Above(y) \in SUBSET Above(x) /\ y \in Above(x) /\ y \notin Above(y)
    <3>1. \A z \in Above(y) : z \in Above(x)
      BY <1>3, <2>0
    <3>2. y \in Above(x)
      BY <1>3
    <3>3. y \notin Above(y)
      BY <2>0
    <3> HIDE DEF Above
    <3> QED
      BY <3>1, <3>2, <3>3
  <2> HIDE DEF Above
  <2>2. IsFiniteSet(Above(x)) /\ Cardinality(Above(y)) <= Cardinality(Above(x))
        /\ (Cardinality(Above(x)) = Cardinality(Above(y)) => Above(x) = Above(y))
    BY <1>1, <2>1, FS_Subset
  <2>3. Cardinality(Above(x)) = Cardinality(Above(y))
    BY <1>1, <1>2, <2>2
  <2> QED
    BY <2>1, <2>2, <2>3
<1>4. \A y \in T : x \in Nat /\ y \in Nat /\ ~(x < y)
  BY <1>3
<1> QED
  BY <1>4

(* The image of a finite set under a function is finite.                   *)
LEMMA ImageFinite ==
  ASSUME NEW S, NEW T, NEW f \in [S -> T], \A t \in T : \E x \in S : f[x] = t,
         IsFiniteSet(S)
  PROVE  IsFiniteSet(T)
<1>1. f \in Surjection(S, T)
  BY Fun_IsSurj
<1> QED
  BY <1>1, FS_Surjection

(* The results of a list, by their place.                                  *)
LEMMA Places ==
  ASSUME NEW rs \in Seq(Results)
  PROVE  /\ IsFiniteSet(DOMAIN rs)
         /\ \A i \in DOMAIN rs : /\ rs[i] \in Results
                                 /\ rs[i].status \in {"ok", "nxdomain", "timeout", "error"}
                                 /\ rs[i].status = "ok" => rs[i].answers \in Answers
<1>1. Len(rs) \in Nat /\ DOMAIN rs = 1..Len(rs)
  OBVIOUS
<1>2. IsFiniteSet(1..Len(rs))
  BY <1>1, FS_Interval
<1>3. \A i \in DOMAIN rs : rs[i] \in Results
  BY <1>1
<1>4. \A r \in Results : /\ r.status \in {"ok", "nxdomain", "timeout", "error"}
                         /\ r.status = "ok" => r.answers \in Answers
  BY DEF Results, Result
<1> QED
  BY <1>1, <1>2, <1>3, <1>4

(* Any set of places is finite.                                            *)
LEMMA SomePlaces ==
  ASSUME NEW rs \in Seq(Results), NEW I \in SUBSET DOMAIN rs
  PROVE  IsFiniteSet(I) /\ Cardinality(I) \in Nat
  BY Places, FS_Subset, FS_CardinalityType

(* The key of an answer list counts, so it is not the initial majorityKey. *)
LEMMA KeyIsNotNoKey ==
  ASSUME NEW a \in Answers
  PROVE  answersKey(a) # NoKey
<1>1. PICK n \in 0..MaxAnswers : a \in [1..n -> Answer]
  BY DEF Answers
<1>2. n \in Nat
  BY <1>1, SummaryBounds
<1>3. PICK v \in Values : TRUE
  BY ValuesAssumption
<1> DEFINE I == {i \in DOMAIN a : a[i].value = v}
<1>4. I \in SUBSET (1..n)
  BY <1>1
<1> HIDE DEF I
<1>5. IsFiniteSet(1..n)
  BY <1>2, FS_Interval
<1>6. Cardinality(I) \in Nat
  BY <1>4, <1>5, FS_Subset, FS_CardinalityType
<1>7. answersKey(a)[v] = Cardinality(I)
  BY <1>3 DEF answersKey, I
<1>8. NoKey[v] = -1
  BY <1>3 DEF NoKey
<1> QED
  BY <1>6, <1>7, <1>8

-----------------------------------------------------------------------------
(* The majority.                                                           *)

\* The places of the OK results with the key k.
Serving(rs, k) == {i \in With(rs, "ok") : answersKey(rs[i].answers) = k}

Responding(rs) == With(rs, "ok") \cup With(rs, "nxdomain")

(* What is counted, and how the counts compare.                            *)
LEMMA Counts ==
  ASSUME NEW rs \in Seq(Results), NEW k
  PROVE  /\ With(rs, "ok") \in SUBSET DOMAIN rs
         /\ Responding(rs) \in SUBSET DOMAIN rs
         /\ Serving(rs, k) \in SUBSET Responding(rs)
         /\ IsFiniteSet(Responding(rs))
         /\ Count(rs, k) = Cardinality(Serving(rs, k))
         /\ Responded(rs) = Cardinality(Responding(rs))
         /\ Count(rs, k) \in Nat /\ Responded(rs) \in Nat
         /\ Count(rs, k) <= Responded(rs)
<1>1. /\ With(rs, "ok") \in SUBSET DOMAIN rs
      /\ Responding(rs) \in SUBSET DOMAIN rs
      /\ Serving(rs, k) \in SUBSET Responding(rs)
  BY DEF With, Responding, Serving
<1>2. Count(rs, k) = Cardinality(Serving(rs, k)) /\ Responded(rs) = Cardinality(Responding(rs))
  BY DEF Count, Serving, Responded, Responding
<1>3. Serving(rs, k) \in SUBSET DOMAIN rs
  BY <1>1
<1>4. IsFiniteSet(Responding(rs)) /\ Cardinality(Responding(rs)) \in Nat
      /\ Cardinality(Serving(rs, k)) \in Nat
  BY <1>1, <1>3, SomePlaces
<1>5. Cardinality(Serving(rs, k)) <= Cardinality(Responding(rs))
  BY <1>1, <1>4, FS_Subset
<1> QED
  BY <1>1, <1>2, <1>4, <1>5

(* The keys are finitely many, and none of them is the initial one.        *)
LEMMA KeysFinite ==
  ASSUME NEW rs \in Seq(Results)
  PROVE  IsFiniteSet(Keys(rs)) /\ NoKey \notin Keys(rs)
<1> DEFINE S == With(rs, "ok")
           f == [i \in S |-> answersKey(rs[i].answers)]
<1>1. \A i \in S : rs[i].answers \in Answers
  BY Places DEF With
<1>2. NoKey \notin Keys(rs)
  BY <1>1, KeyIsNotNoKey DEF Keys
<1>3. IsFiniteSet(S)
  BY Counts, SomePlaces
<1>4. f \in [S -> Keys(rs)] /\ \A k \in Keys(rs) : \E i \in S : f[i] = k
  BY DEF Keys
<1> HIDE DEF f, S
<1> QED
  BY <1>2, <1>3, <1>4, ImageFinite

(* Rounding down gives 100 only to the whole.                              *)
LEMMA Hundred ==
  ASSUME NEW m \in Nat, NEW r \in Nat, r > 0, m <= r
  PROVE  (m * 100) \div r = 100 <=> m = r
<1>1. CASE m = r
  BY <1>1
<1>2. CASE m < r
  <2>1. m * 100 < r * 100
    BY <1>2
  <2>2. (m * 100) \div r < 100
    BY <2>1
  <2> QED
    BY <1>2, <2>2
<1> QED
  BY <1>1, <1>2

(* All that respond serve k exactly if there is no other key and no        *)
(* NXDOMAIN.                                                               *)
LEMMA Unanimous ==
  ASSUME NEW rs \in Seq(Results), NEW k \in Keys(rs)
  PROVE  Count(rs, k) = Responded(rs)
         <=> Cardinality(Keys(rs)) = 1 /\ Cardinality(With(rs, "nxdomain")) = 0
<1>1. Count(rs, k) = Responded(rs) <=> Serving(rs, k) = Responding(rs)
  <2>1. /\ Serving(rs, k) \in SUBSET Responding(rs)
        /\ IsFiniteSet(Responding(rs))
        /\ Count(rs, k) = Cardinality(Serving(rs, k))
        /\ Responded(rs) = Cardinality(Responding(rs))
    BY Counts
  <2>2. Cardinality(Responding(rs)) = Cardinality(Serving(rs, k))
        => Responding(rs) = Serving(rs, k)
    BY ONLY <2>1, FS_Subset
  <2> QED
    BY ONLY <2>1, <2>2
<1>2. Cardinality(Keys(rs)) = 1 <=> Keys(rs) = {k}
  <2>1. IsFiniteSet(Keys(rs))
    BY KeysFinite
  <2>2. Cardinality(Keys(rs)) = 1 <=> \E x : Keys(rs) = {x}
    BY ONLY <2>1, FS_Singleton
  <2> QED
    BY <2>2
<1>3. Cardinality(With(rs, "nxdomain")) = 0 <=> With(rs, "nxdomain") = {}
  <2>1. With(rs, "nxdomain") \in SUBSET DOMAIN rs
    BY DEF With
  <2>2. IsFiniteSet(With(rs, "nxdomain"))
    BY <2>1, SomePlaces
  <2> QED
    BY ONLY <2>2, FS_EmptySet
<1>4. ASSUME Serving(rs, k) = Responding(rs)
      PROVE  Keys(rs) = {k} /\ With(rs, "nxdomain") = {}
  <2>1. \A i \in With(rs, "nxdomain") : i \notin With(rs, "ok")
    BY DEF With
  <2>2. With(rs, "nxdomain") = {}
    BY <1>4, <2>1 DEF Serving, Responding
  <2>3. \A i \in With(rs, "ok") : answersKey(rs[i].answers) = k
    BY <1>4 DEF Serving, Responding
  <2>4. \A l \in Keys(rs) : l = k
    BY <2>3 DEF Keys
  <2> QED
    BY <2>2, <2>4
<1>5. ASSUME Keys(rs) = {k}, With(rs, "nxdomain") = {}
      PROVE  Serving(rs, k) = Responding(rs)
  <2>1. \A i \in With(rs, "ok") : answersKey(rs[i].answers) \in Keys(rs)
    BY DEF Keys
  <2>2. \A i \in With(rs, "ok") : i \in Serving(rs, k)
    BY <1>5, <2>1 DEF Serving
  <2> QED
    BY <1>5, <2>2 DEF Serving, Responding
<1> QED
  BY <1>1, <1>2, <1>3, <1>4, <1>5

(* The fields of a summary that the properties read.                       *)
LEMMA SummaryFields ==
  ASSUME NEW rs, NEW k
  PROVE  /\ buildSummary(rs, k).Responded = Responded(rs)
         /\ buildSummary(rs, k).NXDomain = Cardinality(With(rs, "nxdomain"))
         /\ buildSummary(rs, k).UniqueAnswerSets = Cardinality(Keys(rs))
         /\ buildSummary(rs, k).ConvergedPct = ConvergedPct(rs, k)
         /\ buildSummary(rs, k).PropagationETA = PropagationETA(rs, k)
BY DEF buildSummary

(* The percentage of a key is 100 exactly if all that respond serve it.    *)
LEMMA HundredMeansAll ==
  ASSUME NEW rs \in Seq(Results), NEW k \in Keys(rs)
  PROVE  /\ ConvergedPct(rs, k) = 100 <=> Count(rs, k) = Responded(rs)
         /\ ConvergedPct(rs, k) = 100 <=> Serving(rs, k) = Responding(rs)
<1>1. MajorityCount(rs, k) = Count(rs, k)
  BY KeysFinite DEF MajorityCount
<1>2. /\ Serving(rs, k) \in SUBSET Responding(rs)
      /\ IsFiniteSet(Responding(rs))
      /\ Count(rs, k) = Cardinality(Serving(rs, k))
      /\ Responded(rs) = Cardinality(Responding(rs))
      /\ Count(rs, k) \in Nat /\ Responded(rs) \in Nat
      /\ Count(rs, k) <= Responded(rs)
  BY Counts
<1>3. Responded(rs) > 0
  <2>1. PICK i \in With(rs, "ok") : TRUE
    BY DEF Keys
  <2>2. i \in Responding(rs)
    BY <2>1 DEF Responding
  <2>3. Responded(rs) # 0
    BY ONLY <1>2, <2>2, FS_EmptySet
  <2> QED
    BY <1>2, <2>3
<1>4. ConvergedPct(rs, k) = (Count(rs, k) * 100) \div Responded(rs)
  BY <1>1, <1>3 DEF ConvergedPct
<1>5. ConvergedPct(rs, k) = 100 <=> Count(rs, k) = Responded(rs)
  BY ONLY <1>2, <1>3, <1>4, Hundred
<1>6. Count(rs, k) = Responded(rs) <=> Serving(rs, k) = Responding(rs)
  <2>1. Cardinality(Responding(rs)) = Cardinality(Serving(rs, k))
        => Responding(rs) = Serving(rs, k)
    BY ONLY <1>2, FS_Subset
  <2> QED
    BY ONLY <1>2, <2>1
<1> QED
  BY <1>5, <1>6

(* It is 0 when there is no OK result.                                     *)
LEMMA NothingIsZero ==
  ASSUME NEW rs \in Seq(Results), Keys(rs) = {}
  PROVE  ConvergedPct(rs, NoKey) = 0
<1>1. MajorityCount(rs, NoKey) = 0
  BY DEF MajorityCount
<1>2. Responded(rs) \in Nat
  BY Counts
<1>3. CASE Responded(rs) = 0
  BY <1>3 DEF ConvergedPct
<1>4. CASE Responded(rs) > 0
  <2>1. (0 * 100) \div Responded(rs) = 0
    BY <1>2, <1>4
  <2> QED
    BY <1>1, <1>4, <2>1 DEF ConvergedPct
<1> QED
  BY <1>2, <1>3, <1>4

(* A check is reported as converged to 100 percent exactly if all that     *)
(* responded gave one and the same answer set.                             *)
THEOREM HundredMeansUnanimous == Spec => []ConvergedMeansUnanimous
<1>1. Collected => ConvergedMeansUnanimous
  <2> SUFFICES ASSUME Collected, NEW k \in Majorities(results)
               PROVE  ConvergedPct(results, k) = 100
                      <=> /\ Cardinality(Keys(results)) = 1
                          /\ Cardinality(With(results, "nxdomain")) = 0
    BY SummaryFields DEF ConvergedMeansUnanimous, Summaries
  <2>1. results \in Seq(Results)
    BY DEF Collected
  <2>2. CASE Keys(results) = {}
    <3>1. Cardinality(Keys(results)) = 0
      BY <2>2, FS_EmptySet
    <3>2. k = NoKey
      BY <2>2 DEF Majorities
    <3> QED
      BY <2>1, <2>2, <3>1, <3>2, NothingIsZero
  <2>3. CASE Keys(results) # {}
    <3>1. k \in Keys(results)
      BY <2>3 DEF Majorities
    <3> QED
      BY <2>1, <3>1, HundredMeansAll, Unanimous
  <2> QED
    BY <2>2, <2>3
<1> QED
  BY <1>1, CollectedInvariant, PTL

-----------------------------------------------------------------------------
(* The ETA.                                                                *)

\* The TTLs of an answer list.
TTLSet(a) == {a[j].ttl : j \in DOMAIN a}

LEMMA TTLSetFinite ==
  ASSUME NEW a \in Answers
  PROVE  TTLSet(a) \in SUBSET Nat /\ IsFiniteSet(TTLSet(a))
<1>1. PICK n \in 0..MaxAnswers : a \in [1..n -> Answer]
  BY DEF Answers
<1>2. n \in Nat
  BY <1>1, SummaryBounds
<1>3. IsFiniteSet(1..n)
  BY <1>2, FS_Interval
<1>4. \A j \in 1..n : a[j].ttl \in Nat
  BY <1>1, TTLAssumption DEF Answer
<1>5. DOMAIN a = 1..n
  BY <1>1
<1> DEFINE f == [j \in 1..n |-> a[j].ttl]
<1>6. f \in [1..n -> TTLSet(a)] /\ \A t \in TTLSet(a) : \E j \in 1..n : f[j] = t
  BY <1>5 DEF TTLSet
<1>7. TTLSet(a) \in SUBSET Nat
  BY <1>4, <1>5 DEF TTLSet
<1> HIDE DEF f
<1> QED
  BY <1>3, <1>6, <1>7, ImageFinite

LEMMA TTLsOfFinite ==
  ASSUME NEW rs \in Seq(Results), NEW I \in SUBSET With(rs, "ok")
  PROVE  /\ TTLsOf(rs, I) \in SUBSET Nat
         /\ IsFiniteSet(TTLsOf(rs, I))
         /\ \A t : t \in TTLsOf(rs, I) <=> \E i \in I : t \in TTLSet(rs[i].answers)
<1> DEFINE F == {TTLSet(rs[i].answers) : i \in I}
           f == [i \in I |-> TTLSet(rs[i].answers)]
<1>1. \A i \in I : rs[i].answers \in Answers
  BY Places DEF With
<1>2. TTLsOf(rs, I) = UNION F
  BY DEF TTLsOf, TTLSet
<1>3. IsFiniteSet(I)
  <2>1. I \in SUBSET DOMAIN rs
    BY DEF With
  <2> QED
    BY <2>1, SomePlaces
<1>4. f \in [I -> F] /\ \A t \in F : \E i \in I : f[i] = t
  OBVIOUS
<1>5. \A T \in F : T \in SUBSET Nat /\ IsFiniteSet(T)
  BY <1>1, TTLSetFinite
<1>6. \A t : t \in UNION F <=> \E i \in I : t \in TTLSet(rs[i].answers)
  OBVIOUS
<1>7. IsFiniteSet(F)
  <2> HIDE DEF f, F
  <2> QED
    BY <1>3, <1>4, ImageFinite
<1>8. IsFiniteSet(UNION F) /\ UNION F \in SUBSET Nat
  <2> HIDE DEF F
  <2> QED
    BY <1>5, <1>7, FS_UNION
<1> QED
  BY <1>2, <1>6, <1>8

(* The loop ends with the largest TTL of those that diverge.               *)
LEMMA EtaIsLargest ==
  ASSUME NEW rs \in Seq(Results), NEW k, Responded(rs) # 0
  PROVE  /\ PropagationETA(rs, k) \in Nat
         /\ PropagationETA(rs, k) \in TTLsOf(rs, Divergent(rs, k)) \cup {0}
         /\ \A u \in TTLsOf(rs, Divergent(rs, k)) : u <= PropagationETA(rs, k)
<1> DEFINE T == TTLsOf(rs, Divergent(rs, k))
<1>1. Divergent(rs, k) \in SUBSET With(rs, "ok")
  BY DEF Divergent
<1>2. T \in SUBSET Nat /\ IsFiniteSet(T)
  BY <1>1, TTLsOfFinite
<1> HIDE DEF T
<1>3. T \cup {0} \in SUBSET Nat /\ T \cup {0} # {}
  BY <1>2
<1>4. IsFiniteSet(T \cup {0})
  BY <1>2, FS_AddElement
<1>5. \E t \in T \cup {0} : \A u \in T : u <= t
  <2>1. \E t \in T \cup {0} : \A u \in T \cup {0} : u <= t
    BY <1>3, <1>4, LargestNumber
  <2> QED
    BY <2>1
<1>6. PropagationETA(rs, k) = CHOOSE t \in T \cup {0} : \A u \in T : u <= t
  BY DEF PropagationETA, T
<1>7. /\ PropagationETA(rs, k) \in T \cup {0}
      /\ \A u \in T : u <= PropagationETA(rs, k)
  BY <1>5, <1>6
<1> QED
  BY <1>3, <1>7 DEF T

\* The resolvers that ask again by the time t.
Expired(rs, k, t) ==
    {i \in Divergent(rs, k) :
        /\ rs[i].answers # <<>>
        /\ \A j \in DOMAIN rs[i].answers : rs[i].answers[j].ttl <= t}

\* Every answer that differs from k has expired by the time t.
AllExpired(rs, k, t) ==
    \A i \in Divergent(rs, k) : \A j \in DOMAIN rs[i].answers : rs[i].answers[j].ttl <= t

(* After some time the same resolvers respond; those that serve k are the  *)
(* ones that did, and those that asked again.                              *)
LEMMA AfterServes ==
  ASSUME NEW rs \in Seq(Results), NEW k \in Keys(rs), NEW t, NEW q, q = After(rs, k, t)
  PROVE  /\ q \in Seq(Results)
         /\ k \in Keys(q)
         /\ Responding(q) = Responding(rs)
         /\ Serving(q, k) = Serving(rs, k) \cup Expired(rs, k, t)
<1>1. PICK m \in With(rs, "ok") :
         /\ answersKey(rs[m].answers) = k
         /\ q = [i \in DOMAIN rs |-> IF i \in Expired(rs, k, t) THEN rs[m] ELSE rs[i]]
  <2>1. \E i \in With(rs, "ok") : answersKey(rs[i].answers) = k
    BY DEF Keys
  <2> DEFINE m == CHOOSE i \in With(rs, "ok") : answersKey(rs[i].answers) = k
  <2>2. m \in With(rs, "ok") /\ answersKey(rs[m].answers) = k
    BY <2>1
  <2>3. q = [i \in DOMAIN rs |-> IF i \in Expired(rs, k, t) THEN rs[m] ELSE rs[i]]
    BY Zenon DEF After, Expired
  <2> HIDE DEF m
  <2> QED
    BY <2>2, <2>3
<1>2. Len(rs) \in Nat /\ DOMAIN rs = 1..Len(rs) /\ \A i \in DOMAIN rs : rs[i] \in Results
  OBVIOUS
<1>3. m \in DOMAIN rs /\ rs[m].status = "ok"
  BY <1>1 DEF With
<1>4. q \in [1..Len(rs) -> Results]
  BY <1>1, <1>2, <1>3
<1>5. q \in Seq(Results) /\ DOMAIN q = DOMAIN rs
  BY <1>2, <1>4
<1>6. \A i \in DOMAIN rs : q[i] = IF i \in Expired(rs, k, t) THEN rs[m] ELSE rs[i]
  BY <1>1
<1>7. \A i \in Expired(rs, k, t) : i \in DOMAIN rs /\ rs[i].status = "ok"
                                 /\ answersKey(rs[i].answers) # k
  BY DEF Expired, Divergent, With
<1>8. \A i \in DOMAIN rs : q[i].status = rs[i].status
  BY <1>3, <1>6, <1>7
<1>9. With(q, "ok") = With(rs, "ok") /\ With(q, "nxdomain") = With(rs, "nxdomain")
  BY <1>5, <1>8 DEF With
<1>10. \A i \in DOMAIN rs : answersKey(q[i].answers) = k
                            <=> answersKey(rs[i].answers) = k \/ i \in Expired(rs, k, t)
  BY <1>1, <1>6
<1>11. \A i \in With(rs, "ok") : i \in DOMAIN rs
  BY DEF With
<1>12. Serving(q, k) = Serving(rs, k) \cup Expired(rs, k, t)
  <2>1. \A i : i \in Serving(q, k) => i \in Serving(rs, k) \cup Expired(rs, k, t)
    BY <1>9, <1>10, <1>11 DEF Serving
  <2>2. \A i : i \in Serving(rs, k) \cup Expired(rs, k, t) => i \in Serving(q, k)
    BY <1>7, <1>9, <1>10, <1>11 DEF Serving, With
  <2> QED
    BY <2>1, <2>2
<1>13. k \in Keys(q)
  BY <1>1, <1>3, <1>9, <1>10 DEF Keys
<1> QED
  BY <1>5, <1>9, <1>12, <1>13 DEF Responding

(* All that respond serve k by the time t exactly if none of them is stuck *)
(* and all that diverge asked again.                                       *)
LEMMA AllServeAfter ==
  ASSUME NEW rs \in Seq(Results), NEW k, NEW t
  PROVE  Serving(rs, k) \cup Expired(rs, k, t) = Responding(rs)
         <=> /\ Stuck(rs, k) = {}
             /\ AllExpired(rs, k, t)
<1>1. \A i \in With(rs, "nxdomain") : i \notin With(rs, "ok")
  BY DEF With
<1>2. \A i : i \in With(rs, "ok") <=> i \in Serving(rs, k) \/ i \in Divergent(rs, k)
  BY DEF Serving, Divergent
<1>3. \A i \in Divergent(rs, k) : i \notin Serving(rs, k)
  BY DEF Serving, Divergent
<1>4. \A i \in Expired(rs, k, t) : i \in Divergent(rs, k)
  BY DEF Expired
<1>5. ASSUME Serving(rs, k) \cup Expired(rs, k, t) = Responding(rs)
      PROVE  /\ With(rs, "nxdomain") = {}
             /\ \A i \in Divergent(rs, k) : i \in Expired(rs, k, t)
  <2>1. \A i : i \in Responding(rs) => i \in With(rs, "ok")
    BY <1>2, <1>4, <1>5
  <2>2. With(rs, "nxdomain") = {}
    BY <1>1, <2>1 DEF Responding
  <2> QED
    BY <1>2, <1>3, <1>5, <2>2 DEF Responding
<1>6. ASSUME With(rs, "nxdomain") = {}, \A i \in Divergent(rs, k) : i \in Expired(rs, k, t)
      PROVE  Serving(rs, k) \cup Expired(rs, k, t) = Responding(rs)
  BY <1>2, <1>4, <1>6 DEF Responding
<1>7. (\A i \in Divergent(rs, k) : i \in Expired(rs, k, t))
      <=> /\ \A i \in Divergent(rs, k) : rs[i].answers # <<>>
          /\ AllExpired(rs, k, t)
  BY DEF Expired, AllExpired
<1>8. Stuck(rs, k) = {} <=> /\ With(rs, "nxdomain") = {}
                           /\ \A i \in Divergent(rs, k) : rs[i].answers # <<>>
  BY DEF Stuck
<1> QED
  BY <1>5, <1>6, <1>7, <1>8

(* The ETA has come exactly if every answer that diverges has expired.     *)
LEMMA EtaHasCome ==
  ASSUME NEW rs \in Seq(Results), NEW k, Responded(rs) # 0,
         NEW t \in 0..(PropagationETA(rs, k) + 1)
  PROVE  t >= PropagationETA(rs, k)
         <=> AllExpired(rs, k, t)
<1> DEFINE eta == PropagationETA(rs, k)
           T == TTLsOf(rs, Divergent(rs, k))
<1>1. eta \in Nat /\ eta \in T \cup {0} /\ \A u \in T : u <= eta
  BY EtaIsLargest
<1>2. Divergent(rs, k) \in SUBSET With(rs, "ok")
  BY DEF Divergent
<1>3. T \in SUBSET Nat
      /\ \A u : u \in T <=> \E i \in Divergent(rs, k) : u \in TTLSet(rs[i].answers)
  BY <1>2, TTLsOfFinite
<1>4. t \in Nat
  BY <1>1
<1> HIDE DEF eta, T
<1>5. (\A u \in T : u <= t)
      <=> \A i \in Divergent(rs, k) : \A u \in TTLSet(rs[i].answers) : u <= t
  BY <1>3
<1>6. (\A u \in T : u <= t)
      <=> AllExpired(rs, k, t)
  BY <1>5 DEF TTLSet, AllExpired
<1>7. ASSUME t >= eta, NEW u \in T PROVE u <= t
  BY <1>1, <1>3, <1>4, <1>7
<1>8. ASSUME \A u \in T : u <= t PROVE t >= eta
  BY <1>1, <1>4, <1>8
<1> QED
  BY <1>6, <1>7, <1>8 DEF eta

(* The ETA is the fewest seconds after which the percentage is 100, unless *)
(* a resolver is stuck, and then it never is.                              *)
THEOREM EtaIsWhenConverged == Spec => []ConvergesByEta
<1>1. Collected => ConvergesByEta
  <2> SUFFICES ASSUME Collected, NEW k \in Majorities(results), Responded(results) > 0,
                      NEW t \in 0..(PropagationETA(results, k) + 1)
               PROVE  ConvergedPct(After(results, k, t), k) = 100
                      <=> t >= PropagationETA(results, k) /\ Stuck(results, k) = {}
    BY SummaryFields DEF ConvergesByEta
  <2>1. results \in Seq(Results) /\ Responded(results) # 0
    BY DEF Collected
  <2> DEFINE q == After(results, k, t)
  <2>2. CASE k \in Keys(results)
    <3>1. /\ q \in Seq(Results) /\ k \in Keys(q)
          /\ Responding(q) = Responding(results)
          /\ Serving(q, k) = Serving(results, k) \cup Expired(results, k, t)
      BY <2>1, <2>2, AfterServes
    <3> HIDE DEF q
    <3>2. ConvergedPct(q, k) = 100 <=> Serving(q, k) = Responding(q)
      BY <3>1, HundredMeansAll
    <3>3. ConvergedPct(q, k) = 100
          <=> Serving(results, k) \cup Expired(results, k, t) = Responding(results)
      BY <3>1, <3>2
    <3>4. ConvergedPct(q, k) = 100 <=> t >= PropagationETA(results, k) /\ Stuck(results, k) = {}
      BY <2>1, <3>3, AllServeAfter, EtaHasCome
    <3> QED
      BY <3>4 DEF q
  <2>3. CASE Keys(results) = {}
    <3>1. k = NoKey /\ With(results, "ok") = {}
      BY <2>3 DEF Majorities, Keys
    <3>2. Divergent(results, k) = {}
      BY <3>1 DEF Divergent
    <3>3. q = [i \in DOMAIN results |-> results[i]]
      <4>1. \A i \in DOMAIN results : q[i] = results[i]
        BY <3>2 DEF After
      <4>2. q = [i \in DOMAIN results |-> q[i]]
        BY DEF After
      <4> HIDE DEF q
      <4> QED
        BY <4>1, <4>2
    <3>4. q = results
      BY <2>1, <3>3
    <3> HIDE DEF q
    <3>5. ConvergedPct(q, k) = 0
      BY <2>1, <2>3, <3>1, <3>4, NothingIsZero
    <3>6. Stuck(results, k) # {}
      <4>1. Responding(results) = With(results, "nxdomain")
        BY <3>1 DEF Responding
      <4>2. Responded(results) = Cardinality(Responding(results))
        BY <2>1, Counts
      <4>3. Responding(results) # {}
        BY <2>1, <4>2, FS_EmptySet
      <4> QED
        BY <4>1, <4>3 DEF Stuck
    <3> QED
      BY <3>5, <3>6 DEF q
  <2> QED
    BY <2>2, <2>3 DEF Majorities
<1> QED
  BY <1>1, CollectedInvariant, PTL

-----------------------------------------------------------------------------
(* The order of the results.                                               *)

\* p is an order of the places of rs.
Permutes(p, rs) ==
    /\ p \in [DOMAIN rs -> DOMAIN rs]
    /\ \A i, j \in DOMAIN rs : p[i] = p[j] => i = j

Reordered(p, rs) == [i \in DOMAIN rs |-> rs[p[i]]]

(* A one-to-one map of the places is onto.                                 *)
LEMMA PermutesOnto ==
  ASSUME NEW rs \in Seq(Results), NEW p, Permutes(p, rs)
  PROVE  \A i \in DOMAIN rs : \E j \in DOMAIN rs : p[j] = i
<1>1. IsFiniteSet(DOMAIN rs)
  BY Places
<1>2. p \in Injection(DOMAIN rs, DOMAIN rs)
  BY Fun_IsInj DEF Permutes
<1>3. p \in Surjection(DOMAIN rs, DOMAIN rs)
  BY ONLY <1>1, <1>2, FS_Injection
<1> QED
  BY ONLY <1>3, Fun_SurjectionProperties

(* Places that p takes to each other are as many.                          *)
LEMMA SameNumber ==
  ASSUME NEW rs \in Seq(Results), NEW p, Permutes(p, rs),
         NEW S \in SUBSET DOMAIN rs, NEW T \in SUBSET DOMAIN rs,
         \A i \in DOMAIN rs : i \in T <=> p[i] \in S
  PROVE  Cardinality(T) = Cardinality(S)
<1> DEFINE f == [i \in T |-> p[i]]
<1>1. f \in [T -> S] /\ \A i, j \in T : f[i] = f[j] => i = j
  BY DEF Permutes
<1>2. \A s \in S : \E i \in T : f[i] = s
  BY PermutesOnto
<1> HIDE DEF f
<1>3. f \in Bijection(T, S)
  BY ONLY <1>1, <1>2, Fun_IsBij
<1>4. ExistsBijection(T, S)
  BY <1>3 DEF ExistsBijection
<1>5. IsFiniteSet(T)
  BY SomePlaces
<1> QED
  BY ONLY <1>4, <1>5, FS_Bijection

LEMMA ReorderedIsAList ==
  ASSUME NEW rs \in Seq(Results), NEW p, Permutes(p, rs)
  PROVE  /\ Reordered(p, rs) \in Seq(Results)
         /\ DOMAIN Reordered(p, rs) = DOMAIN rs
         /\ Len(Reordered(p, rs)) = Len(rs)
         /\ \A i \in DOMAIN rs : p[i] \in DOMAIN rs /\ Reordered(p, rs)[i] = rs[p[i]]
<1>1. Len(rs) \in Nat /\ DOMAIN rs = 1..Len(rs) /\ \A i \in DOMAIN rs : rs[i] \in Results
  OBVIOUS
<1>2. \A i \in DOMAIN rs : p[i] \in DOMAIN rs
  BY DEF Permutes
<1>3. DOMAIN Reordered(p, rs) = DOMAIN rs
      /\ \A i \in DOMAIN rs : Reordered(p, rs)[i] = rs[p[i]]
  BY DEF Reordered
<1>4. Reordered(p, rs) \in [1..Len(rs) -> Results]
  BY <1>1, <1>2 DEF Reordered
<1> QED
  BY <1>1, <1>2, <1>3, <1>4

(* Each number and set of the summary is the same in either order.         *)
LEMMA SameCounts ==
  ASSUME NEW rs \in Seq(Results), NEW p, Permutes(p, rs),
         NEW q, q = Reordered(p, rs)
  PROVE  /\ \A s : Cardinality(With(q, s)) = Cardinality(With(rs, s))
         /\ Responded(q) = Responded(rs)
         /\ Keys(q) = Keys(rs)
         /\ \A k : Count(q, k) = Count(rs, k)
         /\ \A k : TTLsOf(q, Divergent(q, k)) = TTLsOf(rs, Divergent(rs, k))
<1>1. /\ q \in Seq(Results) /\ DOMAIN q = DOMAIN rs
      /\ \A i \in DOMAIN rs : p[i] \in DOMAIN rs /\ q[i] = rs[p[i]]
  BY ReorderedIsAList
<1>2. \A i \in DOMAIN rs : \E j \in DOMAIN rs : p[j] = i
  BY PermutesOnto
<1>3. \A s : With(q, s) \in SUBSET DOMAIN rs /\ With(rs, s) \in SUBSET DOMAIN rs
  BY <1>1 DEF With
<1>4. \A s : \A i \in DOMAIN rs : i \in With(q, s) <=> p[i] \in With(rs, s)
  BY <1>1 DEF With
<1>5. \A s : Cardinality(With(q, s)) = Cardinality(With(rs, s))
  BY <1>3, <1>4, SameNumber
<1>6. Responded(q) = Responded(rs)
  <2>1. \A i \in DOMAIN rs : i \in Responding(q) <=> p[i] \in Responding(rs)
    BY <1>4 DEF Responding
  <2>2. Responding(q) \in SUBSET DOMAIN rs /\ Responding(rs) \in SUBSET DOMAIN rs
    BY <1>3 DEF Responding
  <2>3. Cardinality(Responding(q)) = Cardinality(Responding(rs))
    BY <2>1, <2>2, SameNumber
  <2> QED
    BY <2>3 DEF Responded, Responding
<1>7. \A i \in With(q, "ok") : q[i] = rs[p[i]] /\ p[i] \in With(rs, "ok")
  BY <1>1, <1>3, <1>4
<1>8. \A i \in With(rs, "ok") : \E j \in With(q, "ok") : p[j] = i /\ q[j] = rs[i]
  <2> SUFFICES ASSUME NEW i \in With(rs, "ok")
               PROVE  \E j \in With(q, "ok") : p[j] = i /\ q[j] = rs[i]
    OBVIOUS
  <2>1. PICK j \in DOMAIN rs : p[j] = i
    BY <1>2, <1>3
  <2> QED
    BY <1>1, <1>4, <2>1
<1>9. Keys(q) = Keys(rs)
  <2>1. \A k \in Keys(q) : k \in Keys(rs)
    BY <1>7 DEF Keys
  <2>2. \A k \in Keys(rs) : k \in Keys(q)
    BY <1>8 DEF Keys
  <2> QED
    BY <2>1, <2>2
<1>10. ASSUME NEW k PROVE Count(q, k) = Count(rs, k)
  <2>1. \A i \in DOMAIN rs : i \in Serving(q, k) <=> p[i] \in Serving(rs, k)
    BY <1>1, <1>4 DEF Serving
  <2>2. Serving(q, k) \in SUBSET DOMAIN rs /\ Serving(rs, k) \in SUBSET DOMAIN rs
    BY <1>3 DEF Serving
  <2>3. Cardinality(Serving(q, k)) = Cardinality(Serving(rs, k))
    BY <2>1, <2>2, SameNumber
  <2> QED
    BY <2>3 DEF Count, Serving
<1>11. ASSUME NEW k PROVE TTLsOf(q, Divergent(q, k)) = TTLsOf(rs, Divergent(rs, k))
  <2>1. Divergent(q, k) \in SUBSET With(q, "ok") /\ Divergent(rs, k) \in SUBSET With(rs, "ok")
    BY DEF Divergent
  <2>2. \A t : t \in TTLsOf(q, Divergent(q, k))
              <=> \E i \in Divergent(q, k) : t \in TTLSet(q[i].answers)
    BY <1>1, <2>1, TTLsOfFinite
  <2>3. \A t : t \in TTLsOf(rs, Divergent(rs, k))
              <=> \E i \in Divergent(rs, k) : t \in TTLSet(rs[i].answers)
    BY <2>1, TTLsOfFinite
  <2>4. \A i \in Divergent(q, k) : p[i] \in Divergent(rs, k) /\ q[i] = rs[p[i]]
    BY <1>7 DEF Divergent
  <2>5. \A i \in Divergent(rs, k) : \E j \in Divergent(q, k) : q[j] = rs[i]
    BY <1>8 DEF Divergent
  <2>6. \A t : t \in TTLsOf(q, Divergent(q, k)) <=> t \in TTLsOf(rs, Divergent(rs, k))
    BY ONLY <2>2, <2>3, <2>4, <2>5
  <2> QED
    BY ONLY <2>6
<1> QED
  BY <1>5, <1>6, <1>9, <1>10, <1>11

LEMMA SameSummaries ==
  ASSUME NEW rs \in Seq(Results), NEW p, Permutes(p, rs)
  PROVE  Summaries(Reordered(p, rs)) = Summaries(rs)
<1> DEFINE q == Reordered(p, rs)
<1>1. Len(q) = Len(rs)
  BY ReorderedIsAList
<1>2. /\ \A s : Cardinality(With(q, s)) = Cardinality(With(rs, s))
      /\ Responded(q) = Responded(rs)
      /\ Keys(q) = Keys(rs)
      /\ \A k : Count(q, k) = Count(rs, k)
      /\ \A k : TTLsOf(q, Divergent(q, k)) = TTLsOf(rs, Divergent(rs, k))
  BY SameCounts
<1> HIDE DEF q
<1>3. Majorities(q) = Majorities(rs)
  <2>1. CASE Keys(rs) = {}
    BY <1>2, <2>1 DEF Majorities
  <2>2. CASE Keys(rs) # {}
    <3>1. \A k \in Keys(rs) : (\A l \in Keys(rs) : Count(q, l) <= Count(q, k))
                              <=> \A l \in Keys(rs) : Count(rs, l) <= Count(rs, k)
      BY ONLY <1>2
    <3>2. Majorities(q) = {k \in Keys(rs) : \A l \in Keys(rs) : Count(q, l) <= Count(q, k)}
      BY <1>2, <2>2 DEF Majorities
    <3>3. Majorities(rs) = {k \in Keys(rs) : \A l \in Keys(rs) : Count(rs, l) <= Count(rs, k)}
      BY <2>2 DEF Majorities
    <3> QED
      BY ONLY <3>1, <3>2, <3>3
  <2> QED
    BY <2>1, <2>2
<1>4. ASSUME NEW k PROVE buildSummary(q, k) = buildSummary(rs, k)
  <2>1. ConvergedPct(q, k) = ConvergedPct(rs, k)
    BY <1>2 DEF ConvergedPct, MajorityCount
  <2>2. PropagationETA(q, k) = PropagationETA(rs, k)
    <3> DEFINE eta(r, T) == IF r = 0 THEN NoETA
                            ELSE CHOOSE t \in T \cup {0} : \A u \in T : u <= t
    <3>1. /\ PropagationETA(q, k) = eta(Responded(q), TTLsOf(q, Divergent(q, k)))
          /\ PropagationETA(rs, k) = eta(Responded(rs), TTLsOf(rs, Divergent(rs, k)))
      BY Zenon DEF PropagationETA
    <3> HIDE DEF eta
    <3> QED
      BY <1>2, <3>1
  <2>3. [l \in Keys(q) |-> Count(q, l)] = [l \in Keys(rs) |-> Count(rs, l)]
    BY <1>2
  <2> QED
    BY <1>1, <1>2, <2>1, <2>2, <2>3, Zenon DEF buildSummary
<1>5. Summaries(q) = Summaries(rs)
  BY <1>3, <1>4 DEF Summaries
<1> QED
  BY <1>5 DEF q

(* What a summary may say does not depend on the order in which the        *)
(* queries happen to end.                                                  *)
THEOREM OrderDoesNotMatter == Spec => []OrderIrrelevant
<1>1. Collected => OrderIrrelevant
  <2> SUFFICES ASSUME Collected, NEW p \in [DOMAIN results -> DOMAIN results],
                      \A i, j \in DOMAIN results : p[i] = p[j] => i = j
               PROVE  Summaries([i \in DOMAIN results |-> results[p[i]]]) = Summaries(results)
    BY DEF OrderIrrelevant
  <2>1. results \in Seq(Results) /\ Permutes(p, results)
    BY DEF Collected, Permutes
  <2>2. Summaries(Reordered(p, results)) = Summaries(results)
    BY <2>1, SameSummaries
  <2> QED
    BY <2>2 DEF Reordered
<1> QED
  BY <1>1, CollectedInvariant, PTL
=============================================================================
