------------------------------- MODULE MCDelivery -------------------------------
(***************************************************************************)
(* A small instance of Delivery for TLC: a payload of two candidates,      *)
(* published one a batch, and a payload of a source without an adapter.    *)
(***************************************************************************)
EXTENDS Delivery, TLC

CONSTANTS feed, orphan, c1, c2

SmallYields == (feed :> <<c1, c2>>) @@ (orphan :> <<>>)
================================================================================
