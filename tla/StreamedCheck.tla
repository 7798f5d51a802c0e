---------------------------- MODULE StreamedCheck ----------------------------
(***************************************************************************)
(* What a streamed check promises to the page that asked for it: results   *)
(* are shown one at a time, the check is kept under its id at most once,   *)
(* and "done" comes when every resolver was shown and it is settled        *)
(* whether the check was kept.  From then on the permalink in the done     *)
(* frame either works or never will.                                       *)
(***************************************************************************)
CONSTANT Resolvers   \* resolvers the check asks

VARIABLES
    shown,   \* resolvers whose result was shown
    kept,    \* the check can be found under its id
    done     \* the page was told that the check is complete

Init == shown = {} /\ kept = FALSE /\ done = FALSE

Show(r) ==
    /\ ~done
    /\ shown' = shown \cup {r}
    /\ UNCHANGED <<kept, done>>

Keep ==
    /\ ~done /\ ~kept
    /\ kept' = TRUE
    /\ UNCHANGED <<shown, done>>

Finish ==
    /\ ~done
    /\ shown = Resolvers
    /\ done' = TRUE
    /\ UNCHANGED <<shown, kept>>

Next == (\E r \in Resolvers : Show(r)) \/ Keep \/ Finish

Spec == Init /\ [][Next]_<<shown, kept, done>>
=============================================================================
