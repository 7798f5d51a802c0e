----------------------------- MODULE TokenBucket -----------------------------
(***************************************************************************)
(* What the rate limiter promises: each client has a bucket that is full   *)
(* at first, fills at a constant rate up to the burst size, and gives one  *)
(* token for each request it admits.  A client is forgotten only when it   *)
(* made no request for longer than the cutoff; it then starts anew, with a *)
(* full bucket.                                                            *)
(*                                                                         *)
(* Tokens are counted in parts, Unit of them to a token, so that a tick    *)
(* may add less than one token.                                            *)
(***************************************************************************)
EXTENDS Naturals

CONSTANTS
    Clients,   \* keys of clients
    Unit,      \* parts of a token
    Rate,      \* parts added per tick
    Burst,     \* parts in a full bucket
    Cutoff     \* ticks without a request after which a client may be forgotten

VARIABLES
    available,   \* parts in each bucket
    idle         \* ticks since each client's last request, up to Cutoff + 1

vars == <<available, idle>>

Least(a, b) == IF a <= b THEN a ELSE b

Init ==
    /\ available = [k \in Clients |-> Burst]
    /\ idle = [k \in Clients |-> Cutoff + 1]

Admit(k) ==
    /\ available[k] >= Unit
    /\ available' = [available EXCEPT ![k] = @ - Unit]
    /\ idle' = [idle EXCEPT ![k] = 0]

Refuse(k) ==
    /\ available[k] < Unit
    /\ idle' = [idle EXCEPT ![k] = 0]
    /\ UNCHANGED available

Fill ==
    /\ available' = [k \in Clients |-> Least(Burst, available[k] + Rate)]
    /\ idle' = [k \in Clients |-> Least(Cutoff + 1, idle[k] + 1)]

Forget(ks) ==
    /\ \A k \in ks : idle[k] > Cutoff
    /\ available' = [k \in Clients |-> IF k \in ks THEN Burst ELSE available[k]]
    /\ UNCHANGED idle

Next ==
    \/ \E k \in Clients : Admit(k) \/ Refuse(k)
    \/ \E ks \in SUBSET Clients : Forget(ks)
    \/ Fill

Spec == Init /\ [][Next]_vars
=============================================================================
