------------------------------ MODULE GraphStates ------------------------------
(***************************************************************************)
(* What the life of a graph promises: vx_graph_state_e as the values move  *)
(* over time.  sound says that the graph has been verified, optimised and  *)
(* initialised and that nobody edited it since.  An execution begins only  *)
(* on a sound graph, and only a running graph completes or is abandoned.   *)
(* GraphLifecycle implements this specification.                           *)
(***************************************************************************)
VARIABLES state, sound

States == {"UNVERIFIED", "VERIFIED", "RUNNING", "ABANDONED", "COMPLETED"}

Init == state = "UNVERIFIED" /\ sound = FALSE

\* An edit, or a verification that begins or fails.
Withdraw ==
    /\ state' \in {"UNVERIFIED", "VERIFIED"}
    /\ sound' = FALSE

VerifyOk ==
    /\ state' = "VERIFIED"
    /\ sound' = TRUE

Begin ==
    /\ sound
    /\ state' = "RUNNING"
    /\ UNCHANGED sound

Finish ==
    /\ state = "RUNNING"
    /\ state' \in {"COMPLETED", "ABANDONED"}
    /\ UNCHANGED sound

Next == Withdraw \/ VerifyOk \/ Begin \/ Finish

Spec == Init /\ [][Next]_<<state, sound>>
================================================================================
