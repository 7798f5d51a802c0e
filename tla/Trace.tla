-------------------------------- MODULE Trace --------------------------------
(***************************************************************************)
(* The delegation trace: Checker.Trace and traceStep                       *)
(* (internal/checker/trace.go), which walk from a root server down the     *)
(* referrals to an authoritative answer.                                   *)
(*                                                                         *)
(* The name servers of the world answer anything: each response and each   *)
(* answer of the system resolver is chosen freely.  A response is          *)
(* abstracted to what the walk depends on: whether it is authoritative,    *)
(* the NS records of its authority section in order, and the glue address  *)
(* of each, if any, by family.                                             *)
(***************************************************************************)
EXTENDS Naturals, Sequences

CONSTANTS
    Root,            \* rootServers[0], the only root that is asked
    V4, V6,          \* public addresses
    Private,         \* addresses, of either family, that isPrivateOrLocal refuses
    Nameservers,     \* names in NS records
    None,            \* no glue record
    MaxNS,           \* bound on the NS records of a response
    MaxTraceSteps    \* maxTraceSteps (24 in the code)

ASSUME AddressAssumption ==
    /\ Root \in V4
    /\ V4 \cap V6 = {} /\ (V4 \cup V6) \cap Private = {} /\ None \notin V4 \cup V6 \cup Private
ASSUME TraceBounds == MaxNS \in Nat /\ MaxTraceSteps \in Nat \ {0}

VARIABLES
    pc,        \* where Trace is
    servers,   \* addresses to ask, of which only the first one is
    resp,      \* the NS records and the glue maps that next hops are gathered from
    todo,      \* its NS records not looked at yet
    next,      \* next hops gathered so far
    steps      \* the trace: server asked, what came of it, usable addresses it offered

vars == <<pc, servers, resp, todo, next, steps>>

\* Responses that are not authoritative.  Glue of names without an NS record is never
\* looked at and left out.
Responses ==
    {r \in [ns : UNION {[1..n -> Nameservers] : n \in 0..MaxNS},
            v4 : [Nameservers -> V4 \cup Private \cup {None}],
            v6 : [Nameservers -> V6 \cup Private \cup {None}]] :
        \A n \in Nameservers :
            (\A i \in 1..Len(r.ns) : r.ns[i] # n) => r.v4[n] = None /\ r.v6[n] = None}

NoResponse == [ns |-> <<>>, v4 |-> [n \in Nameservers |-> None],
               v6 |-> [n \in Nameservers |-> None]]

InSeq(x, seq) == \E i \in 1..Len(seq) : seq[i] = x

TypeOK ==
    /\ pc \in {"request", "udp", "tcp", "gather", "answered"}
    /\ servers \in Seq(V4 \cup V6 \cup Private)
    /\ resp \in Responses
    /\ todo \in Seq(Nameservers)
    /\ next \in Seq(V4 \cup V6 \cup Private)
    /\ steps \in Seq([ip : V4 \cup V6 \cup Private,
                      outcome : {"referral", "authoritative", "error"},
                      offers : SUBSET (V4 \cup V6)])
    /\ Len(steps) <= MaxTraceSteps

Init ==
    /\ pc = "request"
    /\ servers = <<Root>>
    /\ resp = NoResponse
    /\ todo = <<>>
    /\ next = <<>>
    /\ steps = <<>>

\* POST /trace: a request that the handler or Trace refuses ends there.
PostTrace ==
    /\ pc = "request"
    /\ pc' \in {"udp", "answered"}
    /\ UNCHANGED <<servers, resp, todo, next, steps>>

-----------------------------------------------------------------------------
(* traceStep: one query, over UDP and then over TCP.                       *)

Step(outcome) == [ip |-> servers[1], outcome |-> outcome, offers |-> {}]

\* The glue maps hold public addresses only.
Glue(g) == [n \in Nameservers |-> IF g[n] \in Private THEN None ELSE g[n]]

\* Mutant of Receive: IPv6 glue is not filtered.
ReceiveAnyGlue ==
    \/ /\ steps' = Append(steps, Step("authoritative"))
       /\ pc' = "answered"
       /\ UNCHANGED <<servers, resp, todo, next>>
    \/ /\ \E r \in Responses :
             /\ resp' = [r EXCEPT !.v4 = Glue(@)]
             /\ todo' = r.ns
       /\ next' = <<>>
       /\ steps' = Append(steps, Step("referral"))
       /\ pc' = "gather"
       /\ UNCHANGED servers

\* A server answers; the step is complete, or its next hops are gathered.
Receive ==
    \/ /\ steps' = Append(steps, Step("authoritative"))
       /\ pc' = "answered"
       /\ UNCHANGED <<servers, resp, todo, next>>
    \/ /\ \E r \in Responses :
             /\ resp' = [r EXCEPT !.v4 = Glue(@), !.v6 = Glue(@)]
             /\ todo' = r.ns
       /\ next' = <<>>
       /\ steps' = Append(steps, Step("referral"))
       /\ pc' = "gather"
       /\ UNCHANGED servers

\* The exchange over UDP; any error is retried over TCP.
ExchangeUDP ==
    /\ pc = "udp"
    /\ \/ Receive
       \/ pc' = "tcp" /\ UNCHANGED <<servers, resp, todo, next, steps>>

\* The exchange over TCP; an error ends the trace.
ExchangeTCP ==
    /\ pc = "tcp"
    /\ \/ Receive
       \/ /\ steps' = Append(steps, Step("error"))
          /\ pc' = "answered"
          /\ UNCHANGED <<servers, resp, todo, next>>

-----------------------------------------------------------------------------
(* The next hops: one name server of the referral after the other.         *)

New(ip) == ip # None /\ ~InSeq(ip, next)

\* The name server n is left behind; all are usable addresses it was found to have.
Take(n, gathered, all) ==
    /\ todo' = Tail(todo)
    /\ next' = gathered
    /\ steps' = [steps EXCEPT ![Len(steps)].offers = @ \cup (all \ {None})]
    /\ UNCHANGED <<pc, servers, resp>>

\* The system resolver returns the addresses found for n, in any order: the first new
\* public IPv4 one is taken; without one the IPv6 glue is, if nothing else was yet.
LookUp(n, found) ==
    LET eligible == {ip \in found \cap V4 : New(ip)}
        offered == (found \cap V4) \cup {resp.v4[n], resp.v6[n]}
    IN  \/ \E ip \in eligible : Take(n, Append(next, ip), offered)
        \/ eligible = {} /\ next # <<>> /\ Take(n, next, offered)
        \/ /\ eligible = {} /\ next = <<>>
           /\ Take(n, IF New(resp.v6[n]) THEN <<resp.v6[n]>> ELSE <<>>, offered)

\* Mutant of GatherLookup: a failed lookup skips the name server.
GatherLookupSkips ==
    /\ pc = "gather" /\ todo # <<>>
    /\ ~New(resp.v4[Head(todo)])
    /\ LET n == Head(todo)
       IN  \/ \E found \in SUBSET (V4 \cup V6 \cup Private) : LookUp(n, found)
           \/ Take(n, next, {resp.v4[n], resp.v6[n]})

\* The head of todo has IPv4 glue that is not among the next hops yet.
GatherGlue ==
    /\ pc = "gather" /\ todo # <<>>
    /\ LET n == Head(todo)
       IN  New(resp.v4[n]) /\ Take(n, Append(next, resp.v4[n]), {resp.v4[n], resp.v6[n]})

\* Otherwise it is looked up; when that fails its IPv6 glue is the last resort.
GatherLookup ==
    /\ pc = "gather" /\ todo # <<>>
    /\ ~New(resp.v4[Head(todo)])
    /\ LET n == Head(todo)
       IN  \/ \E found \in SUBSET (V4 \cup V6 \cup Private) : LookUp(n, found)
           \/ Take(n, IF New(resp.v6[n]) THEN Append(next, resp.v6[n]) ELSE next,
                   {resp.v4[n], resp.v6[n]})

\* Mutant of Advance: the limit is off by one.
AdvanceOnceMore ==
    /\ pc = "gather" /\ todo = <<>>
    /\ resp' = NoResponse /\ next' = <<>>
    /\ \/ /\ next # <<>> /\ Len(steps) <= MaxTraceSteps
          /\ pc' = "udp"
          /\ servers' = next
       \/ /\ next = <<>> \/ Len(steps) > MaxTraceSteps
          /\ pc' = "answered"
          /\ UNCHANGED servers
    /\ UNCHANGED <<todo, steps>>

\* Mutant of Advance: a referral to a server that was asked before does not count.
AdvanceUncounted ==
    /\ pc = "gather" /\ todo = <<>>
    /\ resp' = NoResponse /\ next' = <<>>
    /\ \/ /\ next # <<>> /\ Len(steps) < MaxTraceSteps
          /\ pc' = "udp"
          /\ servers' = next
          /\ steps' = IF \E i \in 1..Len(steps) : steps[i].ip = next[1]
                      THEN SubSeq(steps, 1, Len(steps) - 1) ELSE steps
       \/ /\ next = <<>> \/ Len(steps) = MaxTraceSteps
          /\ pc' = "answered"
          /\ UNCHANGED <<servers, steps>>
    /\ UNCHANGED todo

\* Mutant of Advance: the servers are not replaced.
AdvanceInPlace ==
    /\ pc = "gather" /\ todo = <<>>
    /\ pc' = IF next # <<>> /\ Len(steps) < MaxTraceSteps THEN "udp" ELSE "answered"
    /\ resp' = NoResponse /\ next' = <<>>
    /\ UNCHANGED <<todo, servers, steps>>

\* Back in Trace: on to the next hops, unless there are none or the limit is reached.
Advance ==
    /\ pc = "gather" /\ todo = <<>>
    /\ resp' = NoResponse /\ next' = <<>>
    /\ \/ /\ next # <<>> /\ Len(steps) < MaxTraceSteps
          /\ pc' = "udp"
          /\ servers' = next
       \/ /\ next = <<>> \/ Len(steps) = MaxTraceSteps
          /\ pc' = "answered"
          /\ UNCHANGED servers
    /\ UNCHANGED <<todo, steps>>

Next == PostTrace \/ ExchangeUDP \/ ExchangeTCP \/ GatherGlue \/ GatherLookup \/ Advance

Spec == Init /\ [][Next]_vars

(* Exchanges and lookups end by their timeouts.                            *)
FairSpec == Spec /\ WF_vars(Next)

-----------------------------------------------------------------------------
(* Properties.                                                             *)

(* "walks the DNS delegation chain": every server after the first one is   *)
(* one that the referral before it offered, by glue or through the system  *)
(* resolver, and nothing is asked after an answer or an error.             *)
ChainOfReferrals ==
    \A i \in 1..(Len(steps) - 1) :
        steps[i].outcome = "referral" /\ steps[i + 1].ip \in steps[i].offers

(* No server on a private or local address is asked, whichever of the      *)
(* three sources its address came from and whatever was refused before.    *)
PublicOnly == \A i \in 1..Len(steps) : steps[i].ip \in V4 \cup V6

(* A trace that ends at a referral was cut off by the hop limit or had     *)
(* nowhere to go: no name server of the referral had a usable address,     *)
(* although addresses already seen, failed lookups and refused glue send   *)
(* the search from one source to another.                                  *)
StopsForAReason ==
    pc = "answered" /\ steps # <<>> /\ steps[Len(steps)].outcome = "referral" =>
        Len(steps) = MaxTraceSteps \/ steps[Len(steps)].offers = {}

(* A trace ends, also when delegations lead back to servers already asked. *)
TraceEnds == <>(pc = "answered")
=============================================================================
