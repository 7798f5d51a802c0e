------------------------- MODULE MCPropagationCheck -------------------------
(* PropagationCheck for TLC: one resolver is built in.  The resolvers file *)
(* repeats its id without an address, or also with another address;        *)
(* requests may bring a resolver without an id.                            *)
EXTENDS PropagationCheck

CONSTANTS r1, a, b

MCKnown == {r1}

MCAddresses == {NoAddress, a, b}

MCBuiltin == <<[id |-> r1, ip |-> a]>>

MCFile == <<[id |-> r1, ip |-> NoAddress]>>

MCFileRepeats == <<[id |-> r1, ip |-> NoAddress], [id |-> r1, ip |-> b]>>

MCCustoms == {[id |-> NoId, ip |-> b]}
=============================================================================
