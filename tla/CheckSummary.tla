---------------------------- MODULE CheckSummary ----------------------------
(***************************************************************************)
(* buildSummary (internal/checker/checker.go): the counts, the consensus,  *)
(* the convergence percentage and the propagation ETA of a check.          *)
(*                                                                         *)
(* The results are those of a streamed check, in the order in which the    *)
(* workers appended them; an answer is a value with its TTL.  The key that *)
(* answersKey makes of an answer list (the sorted values, joined) is       *)
(* modelled as the number of times the list holds each value, which two    *)
(* lists share exactly when their sorted values agree.                     *)
(***************************************************************************)
EXTENDS Integers, Sequences, FiniteSets

CONSTANTS
    Values,       \* record values
    TTLs,         \* TTLs of answers
    MaxAnswers,   \* bound on the answers of one result
    MaxResults    \* bound on the results of a check

ASSUME ValuesAssumption == Values # {}
ASSUME TTLAssumption == TTLs \subseteq Nat
ASSUME SummaryBounds == MaxAnswers \in Nat /\ MaxResults \in Nat

VARIABLE results

Answer == [value : Values, ttl : TTLs]

Answers == UNION {[1..n -> Answer] : n \in 0..MaxAnswers}

Result(status, answers) == [status |-> status, answers |-> answers]

\* A result that is not OK carries no answer that the summary looks at.
Results ==
    {Result("ok", a) : a \in Answers}
        \cup {Result(s, <<>>) : s \in {"nxdomain", "timeout", "error"}}

Init == results = <<>>

\* One more worker appends its result.
Collect ==
    /\ Len(results) < MaxResults
    /\ \E r \in Results : results' = Append(results, r)

Next == Collect

Spec == Init /\ [][Next]_results

-----------------------------------------------------------------------------
(* The summary of a list of results rs.                                    *)

With(rs, status) == {i \in DOMAIN rs : rs[i].status = status}

answersKey(answers) ==
    [v \in Values |-> Cardinality({i \in DOMAIN answers : answers[i].value = v})]

\* The keys of the map Consensus, and the count under each.
Keys(rs) == {answersKey(rs[i].answers) : i \in With(rs, "ok")}

Count(rs, k) == Cardinality({i \in With(rs, "ok") : answersKey(rs[i].answers) = k})

\* Mutant of Responded: an NXDOMAIN is not a response.
RespondedOK(rs) == Cardinality(With(rs, "ok"))

Responded(rs) == Cardinality(With(rs, "ok") \cup With(rs, "nxdomain"))

\* majorityKey before any key is seen; it equals no key of an answer list.
NoKey == [v \in Values |-> -1]

\* Mutant of Majorities: the key of the first OK result wins a tie and more.
MajoritiesFirst(rs) ==
    IF Keys(rs) = {} THEN {NoKey}
    ELSE {answersKey(rs[i].answers) :
             i \in {j \in With(rs, "ok") : \A l \in With(rs, "ok") : j <= l}}

\* The key the loop over the map may end with: any of the most common ones, for the
\* iteration order is random.
Majorities(rs) ==
    IF Keys(rs) = {} THEN {NoKey}
    ELSE {k \in Keys(rs) : \A l \in Keys(rs) : Count(rs, l) <= Count(rs, k)}

MajorityCount(rs, k) == IF k = NoKey THEN 0 ELSE Count(rs, k)

ConvergedPct(rs, k) ==
    IF Responded(rs) > 0 THEN (MajorityCount(rs, k) * 100) \div Responded(rs) ELSE 0

Divergent(rs, k) == {i \in With(rs, "ok") : answersKey(rs[i].answers) # k}

TTLsOf(rs, I) == UNION {{rs[i].answers[j].ttl : j \in DOMAIN rs[i].answers} : i \in I}

NoETA == -1

\* Mutant of PropagationETA: the TTLs of the majority count too.
PropagationETAAll(rs, k) ==
    IF Responded(rs) = 0 THEN NoETA
    ELSE CHOOSE t \in TTLsOf(rs, With(rs, "ok")) \cup {0} :
            \A u \in TTLsOf(rs, With(rs, "ok")) : u <= t

\* The largest TTL among OK results that do not serve the majority, 0 if there is
\* none; nil (NoETA) when nothing responded.
PropagationETA(rs, k) ==
    IF Responded(rs) = 0 THEN NoETA
    ELSE CHOOSE t \in TTLsOf(rs, Divergent(rs, k)) \cup {0} :
            \A u \in TTLsOf(rs, Divergent(rs, k)) : u <= t

buildSummary(rs, k) ==
    [TotalResolvers   |-> Len(rs),
     Responded        |-> Responded(rs),
     NXDomain         |-> Cardinality(With(rs, "nxdomain")),
     Timeouts         |-> Cardinality(With(rs, "timeout")),
     Errors           |-> Cardinality(With(rs, "error")),
     UniqueAnswerSets |-> Cardinality(Keys(rs)),
     Consensus        |-> [l \in Keys(rs) |-> Count(rs, l)],
     ConvergedPct     |-> ConvergedPct(rs, k),
     PropagationETA   |-> PropagationETA(rs, k)]

\* Every summary that buildSummary may return for rs.
Summaries(rs) == {buildSummary(rs, k) : k \in Majorities(rs)}

-----------------------------------------------------------------------------
(* Properties.                                                             *)

(* ConvergedPct ("the percentage of responding resolvers serving the       *)
(* majority answer") is 100 exactly when every resolver that responded     *)
(* serves one and the same answer set; rounding down never hides a         *)
(* resolver that diverges, be it by another answer or by NXDOMAIN.         *)
ConvergedMeansUnanimous ==
    \A s \in Summaries(results) :
        s.ConvergedPct = 100 <=>
            /\ s.UniqueAnswerSets = 1
            /\ s.NXDomain = 0

(* A streamed check appends results in the order in which queries happen   *)
(* to end, so no arrival order may change what buildSummary can return.    *)
OrderIrrelevant ==
    \A p \in [DOMAIN results -> DOMAIN results] :
        (\A i, j \in DOMAIN results : p[i] = p[j] => i = j)
            => Summaries([i \in DOMAIN results |-> results[p[i]]]) = Summaries(results)

\* The results after t seconds, as a resolver can change them by itself: one that
\* answered otherwise than the majority asks again once all of its answers expired,
\* and is then given the majority's.
After(rs, k, t) ==
    LET majority == CHOOSE i \in With(rs, "ok") : answersKey(rs[i].answers) = k
        expired  == {i \in Divergent(rs, k) :
                        /\ rs[i].answers # <<>>
                        /\ \A j \in DOMAIN rs[i].answers : rs[i].answers[j].ttl <= t}
    IN  [i \in DOMAIN rs |-> IF i \in expired THEN rs[majority] ELSE rs[i]]

\* Those that hold nothing that could expire: they answered NXDOMAIN, or with no
\* record where the majority has one.
Stuck(rs, k) == With(rs, "nxdomain") \cup {i \in Divergent(rs, k) : rs[i].answers = <<>>}

(* The percentage and the ETA of a summary fit together: "the estimated    *)
(* seconds until full propagation" are the fewest seconds after which the  *)
(* same percentage, computed again, is 100.  The comment of PropagationETA *)
(* goes on to say "Zero means already fully propagated", which the code    *)
(* keeps except for resolvers that are stuck: no ETA is right with those,  *)
(* and the code reports the time after which only they are left, zero when *)
(* they are all that diverges.                                             *)
ConvergesByEta ==
    \A k \in Majorities(results) :
        LET s == buildSummary(results, k)
        IN  s.Responded > 0 =>
              \A t \in 0..(s.PropagationETA + 1) :
                 buildSummary(After(results, k, t), k).ConvergedPct = 100
                    <=> t >= s.PropagationETA /\ Stuck(results, k) = {}
=============================================================================
