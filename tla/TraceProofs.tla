----------------------------- MODULE TraceProofs -----------------------------
(***************************************************************************)
(* Safety of the delegation trace, for any set of addresses, name servers  *)
(* and any hop limit.                                                      *)
(*                                                                         *)
(* The invariant says, for each place of the walk, where the addresses in  *)
(* hand came from (Walk): while next hops are gathered they are usable and *)
(* offered by the last step, and there are none only if it offered none;   *)
(* the server asked next is one of them.  Public: what is in hand or was   *)
(* asked is public.                                                        *)
(***************************************************************************)
EXTENDS Trace, SequenceTheorems, TLAPS

Addresses == V4 \cup V6

\* The steps of the walk.
StepSet == [ip : V4 \cup V6 \cup Private,
            outcome : {"referral", "authoritative", "error"},
            offers : SUBSET (V4 \cup V6)]

Last == steps[Len(steps)]

\* What traceStep keeps of a response.
Filter(r) == [r EXCEPT !.v4 = Glue(@), !.v6 = Glue(@)]

Public ==
    /\ \A i \in 1..Len(servers) : servers[i] \in Addresses
    /\ \A i \in 1..Len(next) : next[i] \in Addresses
    /\ \A n \in Nameservers : resp.v4[n] \in V4 \cup {None} /\ resp.v6[n] \in V6 \cup {None}

Walk ==
    /\ pc = "request" => steps = <<>>
    /\ pc \in {"request", "udp", "tcp"} =>
          /\ servers # <<>>
          /\ Len(steps) < MaxTraceSteps
          /\ steps # <<>> => Last.outcome = "referral" /\ servers[1] \in Last.offers
    /\ pc = "gather" =>
          /\ steps # <<>>
          /\ Last.outcome = "referral"
          /\ \A i \in 1..Len(next) : next[i] \in Last.offers
          /\ next = <<>> => Last.offers = {}

TraceInv ==
    /\ TypeOK
    /\ Public
    /\ Walk
    /\ ChainOfReferrals
    /\ PublicOnly
    /\ StopsForAReason

(* The first server is public and the walk not at its limit: the initial   *)
(* state satisfies the invariant.                                          *)
LEMMA TraceInit == Init => TraceInv
<1> SUFFICES ASSUME Init PROVE TraceInv
  OBVIOUS
<1>1. NoResponse \in Responses
  <2>1. <<>> \in [1..0 -> Nameservers] /\ 0 \in 0..MaxNS
    BY TraceBounds
  <2> QED
    BY <2>1 DEF NoResponse, Responses
<1>2. TypeOK
  BY <1>1, AddressAssumption, TraceBounds DEF Init, TypeOK
<1>3. Public /\ Walk
  BY AddressAssumption, TraceBounds DEF Init, Public, Walk, Addresses, NoResponse
<1>4. ChainOfReferrals /\ PublicOnly /\ StopsForAReason
  BY DEF Init, ChainOfReferrals, PublicOnly, StopsForAReason
<1> QED
  BY <1>2, <1>3, <1>4 DEF TraceInv

(* A step of the trace is recorded for the server that was asked: the      *)
(* chain is continued by one of the addresses that the last step offered.  *)
LEMMA Recorded ==
  ASSUME TraceInv, pc \in {"udp", "tcp"},
         NEW o \in {"referral", "authoritative", "error"},
         steps' = Append(steps, Step(o))
  PROVE  /\ steps' \in Seq(StepSet)
         /\ Len(steps') = Len(steps) + 1 /\ Len(steps') <= MaxTraceSteps
         /\ Last' = Step(o)
         /\ ChainOfReferrals' /\ PublicOnly'
<1>1. /\ steps \in Seq(StepSet) /\ Len(steps) \in Nat /\ Len(steps) < MaxTraceSteps
      /\ servers \in Seq(V4 \cup V6 \cup Private) /\ servers # <<>>
  BY DEF TraceInv, TypeOK, Walk, StepSet
<1>2. servers[1] \in Addresses
  BY <1>1 DEF TraceInv, Public
<1>3. Step(o) \in StepSet /\ Step(o).ip = servers[1]
  BY <1>2 DEF Step, StepSet, Addresses
<1>4. /\ steps' \in Seq(StepSet) /\ Len(steps') = Len(steps) + 1
      /\ steps'[Len(steps) + 1] = Step(o)
      /\ \A i \in 1..Len(steps) : steps'[i] = steps[i]
  BY <1>1, <1>3
<1>5. ChainOfReferrals'
  <2> SUFFICES ASSUME NEW i \in 1..(Len(steps') - 1)
               PROVE  steps'[i].outcome = "referral" /\ steps'[i + 1].ip \in steps'[i].offers
    BY DEF ChainOfReferrals
  <2>1. i \in 1..Len(steps)
    BY <1>1, <1>4
  <2>2. CASE i = Len(steps)
    BY <1>1, <1>3, <1>4, <2>1, <2>2 DEF TraceInv, Walk, Last
  <2>3. CASE i # Len(steps)
    <3>1. i \in 1..(Len(steps) - 1) /\ i + 1 \in 1..Len(steps)
      BY <1>1, <2>1, <2>3
    <3> QED
      BY <1>4, <2>1, <3>1 DEF TraceInv, ChainOfReferrals
  <2> QED
    BY <2>2, <2>3
<1>6. PublicOnly'
  <2> SUFFICES ASSUME NEW i \in 1..Len(steps') PROVE steps'[i].ip \in V4 \cup V6
    BY DEF PublicOnly
  <2>1. i \in 1..Len(steps) \/ i = Len(steps) + 1
    BY <1>1, <1>4
  <2> QED
    BY <1>2, <1>3, <1>4, <2>1 DEF TraceInv, PublicOnly, Addresses
<1>7. Last' = Step(o) /\ Len(steps') <= MaxTraceSteps
  BY <1>1, <1>4, TraceBounds DEF Last
<1> QED
  BY <1>4, <1>5, <1>6, <1>7

(* The response of a server, filtered, is a response with public glue.     *)
LEMMA Filtered ==
  ASSUME NEW r \in Responses
  PROVE  /\ Filter(r) \in Responses
         /\ \A n \in Nameservers : /\ Filter(r).v4[n] \in V4 \cup {None}
                                   /\ Filter(r).v6[n] \in V6 \cup {None}
         /\ r.ns \in Seq(Nameservers)
<1> DEFINE f == Filter(r)
           NS == UNION {[1..n -> Nameservers] : n \in 0..MaxNS}
           Map4 == [Nameservers -> V4 \cup Private \cup {None}]
           Map6 == [Nameservers -> V6 \cup Private \cup {None}]
<1>1. r \in [ns : NS, v4 : Map4, v6 : Map6]
  BY DEF Responses
<1>2. /\ Glue(r.v4) \in Map4 /\ Glue(r.v6) \in Map6
      /\ \A n \in Nameservers : /\ Glue(r.v4)[n] \in V4 \cup {None}
                                /\ Glue(r.v6)[n] \in V6 \cup {None}
                                /\ r.v4[n] = None => Glue(r.v4)[n] = None
                                /\ r.v6[n] = None => Glue(r.v6)[n] = None
  BY <1>1 DEF Glue
<1>3. /\ f \in [ns : NS, v4 : Map4, v6 : Map6]
      /\ f.ns = r.ns /\ f.v4 = Glue(r.v4) /\ f.v6 = Glue(r.v6)
  <2> HIDE DEF NS, Map4, Map6
  <2> QED
    BY <1>1, <1>2 DEF Filter
<1>4. f \in Responses
  <2> HIDE DEF f
  <2> QED
    BY <1>2, <1>3 DEF Responses
<1>5. r.ns \in Seq(Nameservers)
  <2>1. PICK n \in 0..MaxNS : r.ns \in [1..n -> Nameservers]
    BY <1>1
  <2> QED
    BY <2>1, TraceBounds
<1> HIDE DEF f
<1>6. \A n \in Nameservers : f.v4[n] \in V4 \cup {None} /\ f.v6[n] \in V6 \cup {None}
  BY <1>2, <1>3
<1> QED
  BY <1>4, <1>5, <1>6 DEF f

(* One more name server is left behind: the last step is offered its       *)
(* addresses, and nothing else of the trace changes.                       *)
LEMMA Offered ==
  ASSUME TraceInv, pc = "gather", todo # <<>>, NEW n, NEW gathered, NEW all,
         all \ {None} \subseteq Addresses, Take(n, gathered, all)
  PROVE  /\ steps' \in Seq(StepSet) /\ Len(steps') = Len(steps) /\ steps' # <<>>
         /\ Last'.outcome = Last.outcome
         /\ Last'.offers = Last.offers \cup (all \ {None})
         /\ ChainOfReferrals' /\ PublicOnly'
<1> DEFINE l == Len(steps)
           s == [steps[l] EXCEPT !.offers = @ \cup (all \ {None})]
<1>0. steps \in Seq(StepSet) /\ steps # <<>>
  BY DEF TraceInv, TypeOK, Walk, StepSet
<1>1. l \in Nat \ {0} /\ steps[l] \in StepSet
  BY <1>0, ElementOfSeq
<1>2. /\ s \in StepSet /\ s.ip = steps[l].ip /\ s.outcome = steps[l].outcome
      /\ s.offers = steps[l].offers \cup (all \ {None})
  BY <1>1 DEF StepSet, Addresses
<1>3. steps' = [steps EXCEPT ![l] = s]
  BY DEF Take
<1>4. /\ steps' \in Seq(StepSet) /\ Len(steps') = l
      /\ \A i \in 1..l : steps'[i] = IF i = l THEN s ELSE steps[i]
  <2> HIDE DEF s
  <2> QED
    BY <1>0, <1>1, <1>2, <1>3, ExceptSeq
<1>5. Last' = s /\ Last = steps[l] /\ steps' # <<>>
  <2> HIDE DEF s
  <2> QED
    BY <1>1, <1>4 DEF Last
<1>6. \A i \in 1..l : /\ steps'[i].ip = steps[i].ip
                      /\ steps'[i].outcome = steps[i].outcome
                      /\ steps[i].offers \subseteq steps'[i].offers
  <2> HIDE DEF s
  <2> QED
    BY <1>1, <1>2, <1>4
<1> HIDE DEF s
<1>7. ChainOfReferrals'
  <2> SUFFICES ASSUME NEW i \in 1..(l - 1)
               PROVE  steps'[i].outcome = "referral" /\ steps'[i + 1].ip \in steps'[i].offers
    BY <1>4 DEF ChainOfReferrals
  <2>1. i \in 1..l /\ i + 1 \in 1..l
    BY <1>1
  <2> QED
    BY <1>6, <2>1 DEF TraceInv, ChainOfReferrals
<1>8. PublicOnly'
  BY <1>4, <1>6 DEF TraceInv, PublicOnly
<1> QED
  BY <1>2, <1>4, <1>5, <1>7, <1>8

(* Next hops that are taken from what the name server offers keep the      *)
(* invariant, if none is left out while there is no other.                 *)
LEMMA TakeKeeps ==
  ASSUME TraceInv, pc = "gather", todo # <<>>, NEW n, NEW gathered, NEW all,
         all \ {None} \subseteq Addresses, Take(n, gathered, all),
         \/ gathered = next /\ (next = <<>> => all \ {None} = {})
         \/ \E ip \in all \ {None} : gathered = Append(next, ip)
  PROVE  TraceInv'
<1>1. /\ steps' \in Seq(StepSet) /\ Len(steps') = Len(steps) /\ steps' # <<>>
      /\ Last'.outcome = Last.outcome
      /\ Last'.offers = Last.offers \cup (all \ {None})
      /\ ChainOfReferrals' /\ PublicOnly'
  BY Offered
<1>2. /\ next' = gathered /\ todo' = Tail(todo) /\ UNCHANGED <<pc, servers, resp>>
  BY DEF Take
<1>3. /\ next \in Seq(V4 \cup V6 \cup Private)
      /\ \A i \in 1..Len(next) : next[i] \in Addresses /\ next[i] \in Last.offers
      /\ next = <<>> => Last.offers = {}
  BY DEF TraceInv, TypeOK, Public, Walk
<1>4. /\ gathered \in Seq(V4 \cup V6 \cup Private)
      /\ \A i \in 1..Len(gathered) : gathered[i] \in Addresses /\ gathered[i] \in Last'.offers
      /\ gathered = <<>> => Last'.offers = {}
  <2>1. CASE gathered = next /\ (next = <<>> => all \ {None} = {})
    BY <1>1, <1>3, <2>1
  <2>2. ASSUME NEW ip \in all \ {None}, gathered = Append(next, ip)
        PROVE  <1>4!:
    <3>1. ip \in Addresses /\ ip \in V4 \cup V6 \cup Private
      BY DEF Addresses
    <3> QED
      BY <1>1, <1>3, <2>2, <3>1
  <2> QED
    BY <2>1, <2>2
<1>5. TypeOK'
  BY <1>1, <1>2, <1>4 DEF TraceInv, TypeOK, StepSet
<1>6. Public' /\ Walk'
  BY <1>1, <1>2, <1>4 DEF TraceInv, Public, Walk
<1>7. StopsForAReason'
  BY <1>2 DEF StopsForAReason
<1> QED
  BY <1>1, <1>5, <1>6, <1>7 DEF TraceInv

(* A server answers, with authority or with a referral.                    *)
LEMMA ReceiveKeeps ==
  ASSUME TraceInv, pc \in {"udp", "tcp"}, Receive
  PROVE  TraceInv'
<1>1. CASE /\ steps' = Append(steps, Step("authoritative"))
           /\ pc' = "answered"
           /\ UNCHANGED <<servers, resp, todo, next>>
  <2>1. /\ steps' \in Seq(StepSet) /\ Len(steps') <= MaxTraceSteps
        /\ Last' = Step("authoritative") /\ ChainOfReferrals' /\ PublicOnly'
    BY <1>1, Recorded
  <2>2. TypeOK'
    BY <1>1, <2>1 DEF TraceInv, TypeOK, StepSet
  <2>3. Public' /\ Walk'
    BY <1>1 DEF TraceInv, Public, Walk
  <2>4. StopsForAReason'
    BY <2>1 DEF StopsForAReason, Last, Step
  <2> QED
    BY <2>1, <2>2, <2>3, <2>4 DEF TraceInv
<1>2. ASSUME NEW r \in Responses,
             resp' = Filter(r), todo' = r.ns,
             next' = <<>>, steps' = Append(steps, Step("referral")), pc' = "gather",
             UNCHANGED servers
      PROVE  TraceInv'
  <2>1. /\ steps' \in Seq(StepSet) /\ Len(steps') <= MaxTraceSteps
        /\ Len(steps') = Len(steps) + 1
        /\ Last' = Step("referral") /\ ChainOfReferrals' /\ PublicOnly'
    BY <1>2, Recorded
  <2>2. /\ resp' \in Responses /\ todo' \in Seq(Nameservers)
        /\ \A n \in Nameservers : resp'.v4[n] \in V4 \cup {None} /\ resp'.v6[n] \in V6 \cup {None}
    BY <1>2, Filtered
  <2>3. TypeOK'
    BY <1>2, <2>1, <2>2 DEF TraceInv, TypeOK, StepSet
  <2>4. Public'
    BY <1>2, <2>2 DEF TraceInv, Public
  <2>5. steps' # <<>> /\ Last'.outcome = "referral" /\ Last'.offers = {}
    <3>1. Len(steps) \in Nat
      BY DEF TraceInv, TypeOK
    <3> QED
      BY <2>1, <3>1 DEF Step
  <2>6. Walk'
    BY <1>2, <2>5 DEF Walk
  <2>7. StopsForAReason'
    BY <1>2 DEF StopsForAReason
  <2> QED
    BY <2>1, <2>3, <2>4, <2>6, <2>7 DEF TraceInv
<1> QED
  BY <1>1, <1>2, Zenon DEF Receive, Filter

(* The addresses that a name server is found to have are usable.           *)
LEMMA GlueUsable ==
  ASSUME TraceInv, pc = "gather", todo # <<>>
  PROVE  /\ Head(todo) \in Nameservers
         /\ {resp.v4[Head(todo)], resp.v6[Head(todo)]} \ {None} \subseteq Addresses
<1>1. Head(todo) \in Nameservers
  BY HeadTailProperties DEF TraceInv, TypeOK
<1> QED
  BY <1>1 DEF TraceInv, Public, Addresses

(* Every step preserves the invariant.                                     *)
LEMMA TraceStep ==
  ASSUME TraceInv, [Next]_vars
  PROVE  TraceInv'
<1>1. CASE PostTrace
  <2>1. TypeOK' /\ Public'
    BY <1>1 DEF PostTrace, TraceInv, TypeOK, Public
  <2>2. Walk'
    BY <1>1 DEF PostTrace, TraceInv, Walk, Last
  <2>3. ChainOfReferrals' /\ PublicOnly' /\ StopsForAReason'
    BY <1>1 DEF PostTrace, TraceInv, Walk, ChainOfReferrals, PublicOnly, StopsForAReason
  <2> QED
    BY <2>1, <2>2, <2>3 DEF TraceInv
<1>2. CASE ExchangeUDP
  <2>1. CASE pc' = "tcp" /\ UNCHANGED <<servers, resp, todo, next, steps>>
    <3>1. TypeOK' /\ Public'
      BY <2>1 DEF TraceInv, TypeOK, Public
    <3>2. Walk'
      BY <1>2, <2>1 DEF ExchangeUDP, TraceInv, Walk, Last
    <3>3. ChainOfReferrals' /\ PublicOnly' /\ StopsForAReason'
      BY <2>1 DEF TraceInv, ChainOfReferrals, PublicOnly, StopsForAReason
    <3> QED
      BY <3>1, <3>2, <3>3 DEF TraceInv
  <2> QED
    BY <1>2, <2>1, ReceiveKeeps DEF ExchangeUDP
<1>3. CASE ExchangeTCP
  <2>1. CASE /\ steps' = Append(steps, Step("error"))
             /\ pc' = "answered" /\ UNCHANGED <<servers, resp, todo, next>>
    <3>1. /\ steps' \in Seq(StepSet) /\ Len(steps') <= MaxTraceSteps
          /\ Last' = Step("error") /\ ChainOfReferrals' /\ PublicOnly'
      BY <1>3, <2>1, Recorded DEF ExchangeTCP
    <3>2. TypeOK'
      BY <2>1, <3>1 DEF TraceInv, TypeOK, StepSet
    <3>3. Public' /\ Walk'
      BY <2>1 DEF TraceInv, Public, Walk
    <3>4. StopsForAReason'
      BY <3>1 DEF StopsForAReason, Last, Step
    <3> QED
      BY <3>1, <3>2, <3>3, <3>4 DEF TraceInv
  <2> QED
    BY <1>3, <2>1, ReceiveKeeps DEF ExchangeTCP
<1>4. CASE GatherGlue
  <2> DEFINE n == Head(todo)
             all == {resp.v4[n], resp.v6[n]}
  <2>1. /\ pc = "gather" /\ todo # <<>> /\ resp.v4[n] # None
        /\ Take(n, Append(next, resp.v4[n]), all)
    BY <1>4 DEF GatherGlue, New
  <2>2. all \ {None} \subseteq Addresses /\ resp.v4[n] \in all \ {None}
    BY <2>1, GlueUsable
  <2> HIDE DEF all
  <2> QED
    BY <2>1, <2>2, TakeKeeps
<1>5. CASE GatherLookup
  <2> DEFINE n == Head(todo)
             glue == {resp.v4[n], resp.v6[n]}
  <2>1. pc = "gather" /\ todo # <<>> /\ ~New(resp.v4[n])
    BY <1>5 DEF GatherLookup
  <2>2. glue \ {None} \subseteq Addresses
    BY <2>1, GlueUsable
  <2>3. next \in Seq(V4 \cup V6 \cup Private)
    BY DEF TraceInv, TypeOK
  <2>4. next = <<>> => (\A ip : New(ip) <=> ip # None) /\ resp.v4[n] = None
    BY <2>1 DEF New, InSeq
  <2>5. ASSUME NEW found \in SUBSET (V4 \cup V6 \cup Private), LookUp(n, found)
        PROVE  TraceInv'
    <3> DEFINE eligible == {ip \in found \cap V4 : New(ip)}
               all == (found \cap V4) \cup glue
    <3>1. all \ {None} \subseteq Addresses
      BY <2>2 DEF Addresses
    <3>2. ASSUME NEW ip \in eligible, Take(n, Append(next, ip), all)
          PROVE  TraceInv'
      <4>1. ip \in all \ {None}
        BY DEF New
      <4> HIDE DEF all
      <4> QED
        BY <2>1, <3>1, <3>2, <4>1, TakeKeeps
    <3>3. CASE eligible = {} /\ next # <<>> /\ Take(n, next, all)
      <4> HIDE DEF all
      <4> QED
        BY <2>1, <3>1, <3>3, TakeKeeps
    <3>4. CASE /\ eligible = {} /\ next = <<>>
               /\ Take(n, IF New(resp.v6[n]) THEN <<resp.v6[n]>> ELSE <<>>, all)
      <4>1. found \cap V4 = {}
        BY <2>4, <3>4, AddressAssumption
      <4>2. CASE resp.v6[n] = None
        <5>1. all \ {None} = {}
          BY <2>4, <3>4, <4>1, <4>2
        <5>2. Take(n, next, all)
          BY <2>4, <3>4, <4>2
        <5> HIDE DEF all
        <5> QED
          BY <2>1, <3>1, <5>1, <5>2, TakeKeeps
      <4>3. CASE resp.v6[n] # None
        <5>1. Append(next, resp.v6[n]) = <<resp.v6[n]>>
          BY <3>4
        <5>2. Take(n, Append(next, resp.v6[n]), all)
          BY <2>4, <3>4, <4>3, <5>1
        <5>3. resp.v6[n] \in all \ {None}
          BY <4>3
        <5> HIDE DEF all
        <5> QED
          BY <2>1, <3>1, <5>2, <5>3, TakeKeeps
      <4> QED
        BY <4>2, <4>3
    <3> QED
      BY <2>5, <3>2, <3>3, <3>4 DEF LookUp
  <2>6. CASE Take(n, IF New(resp.v6[n]) THEN Append(next, resp.v6[n]) ELSE next, glue)
    <3>1. CASE New(resp.v6[n])
      <4>1. resp.v6[n] \in glue \ {None} /\ Take(n, Append(next, resp.v6[n]), glue)
        BY <2>6, <3>1 DEF New
      <4> HIDE DEF glue
      <4> QED
        BY <2>1, <2>2, <4>1, TakeKeeps
    <3>2. CASE ~New(resp.v6[n])
      <4>1. Take(n, next, glue) /\ (next = <<>> => glue \ {None} = {})
        BY <2>4, <2>6, <3>2
      <4> HIDE DEF glue
      <4> QED
        BY <2>1, <2>2, <4>1, TakeKeeps
    <3> QED
      BY <3>1, <3>2
  <2> QED
    BY <1>5, <2>5, <2>6 DEF GatherLookup
<1>6. CASE Advance
  <2>1. /\ NoResponse \in Responses
        /\ \A n \in Nameservers : NoResponse.v4[n] = None /\ NoResponse.v6[n] = None
    <3>1. <<>> \in [1..0 -> Nameservers] /\ 0 \in 0..MaxNS
      BY TraceBounds
    <3> QED
      BY <3>1 DEF NoResponse, Responses
  <2>2. TypeOK' /\ Public'
    BY <1>6, <2>1 DEF Advance, TraceInv, TypeOK, Public
  <2>3. ChainOfReferrals' /\ PublicOnly'
    BY <1>6 DEF Advance, TraceInv, ChainOfReferrals, PublicOnly
  <2>4. Last' = Last /\ pc = "gather" /\ steps' = steps
    BY <1>6 DEF Advance, Last
  <2>5. CASE /\ next # <<>> /\ Len(steps) < MaxTraceSteps
             /\ pc' = "udp" /\ servers' = next
    <3>1. 1 \in 1..Len(next)
      BY <2>5 DEF TraceInv, TypeOK
    <3>2. Walk'
      BY <2>4, <2>5, <3>1 DEF TraceInv, Walk
    <3>3. StopsForAReason'
      BY <2>5 DEF StopsForAReason
    <3> QED
      BY <2>2, <2>3, <3>2, <3>3 DEF TraceInv
  <2>6. CASE /\ next = <<>> \/ Len(steps) = MaxTraceSteps
             /\ pc' = "answered" /\ UNCHANGED servers
    <3>1. Walk'
      BY <2>6 DEF Walk
    <3>2. StopsForAReason'
      BY <2>4, <2>6 DEF TraceInv, Walk, StopsForAReason, Last
    <3> QED
      BY <2>2, <2>3, <3>1, <3>2 DEF TraceInv
  <2> QED
    BY <1>6, <2>5, <2>6 DEF Advance
<1>7. CASE UNCHANGED vars
  BY <1>7 DEF vars, TraceInv, TypeOK, Public, Walk, Last, ChainOfReferrals, PublicOnly,
              StopsForAReason
<1> QED
  BY <1>1, <1>2, <1>3, <1>4, <1>5, <1>6, <1>7 DEF Next

(* The invariant holds in every reachable state.                           *)
LEMMA TraceInvariant == Spec => []TraceInv
BY TraceInit, TraceStep, PTL DEF Spec

(* Types, and the hop limit: whatever the name servers of the world say,   *)
(* no trace has more than maxTraceSteps steps.                             *)
THEOREM TraceTyped == Spec => []TypeOK
BY TraceInvariant, PTL DEF TraceInv

(* Trace walks a chain: every server after the first one was offered by    *)
(* the referral of the one before.                                         *)
THEOREM WalksReferrals == Spec => []ChainOfReferrals
BY TraceInvariant, PTL DEF TraceInv

(* No private or local address is ever asked, from glue of either family   *)
(* or from the system resolver (isPrivateOrLocal guards all three).        *)
THEOREM AsksOnlyPublic == Spec => []PublicOnly
BY TraceInvariant, PTL DEF TraceInv

(* traceStep loses no usable address on its way through the three sources: *)
(* a trace that ends at a referral was at its limit or had none.           *)
THEOREM GivesUpForAReason == Spec => []StopsForAReason
BY TraceInvariant, PTL DEF TraceInv
=============================================================================
