---------------------------- MODULE MCLifecycleTimer ----------------------------
(***************************************************************************)
(* Class profiles for TLC, scaled down: the order of the times is kept, so *)
(* that a wait can be longer or shorter than the least wait.               *)
(***************************************************************************)
EXTENDS LifecycleTimer, TLC

\* A class with every time-to-live (congestion, scaled).
FullProfile == ("reported" :> 1) @@ ("validated" :> 1) @@ ("active" :> 2) @@ ("clearing" :> 1)
================================================================================
