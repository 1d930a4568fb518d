------------------------------- MODULE EventLog -------------------------------
(***************************************************************************)
(* What the event store and the writers on it promise together, seen from  *)
(* outside: every event has one history of states, a history grows by one  *)
(* entry at a time and only at its end, it opens with a report, and each   *)
(* entry either keeps the state before it or follows an edge of the        *)
(* lifecycle table that needs no operator.                                 *)
(***************************************************************************)
EXTENDS Lifecycle, Sequences

CONSTANT EventIds

VARIABLE log  \* EventIds -> its history, a sequence of states

LogInit == log = [e \in EventIds |-> <<>>]

Follows(from, to) ==
    from = to \/ \E t \in TRANSITIONS : t.from = from /\ t.to = to

\* The states a history may grow by.
Continuations(history) ==
    IF history = <<>> THEN {"reported"}
    ELSE {state \in LifecycleStates : Follows(history[Len(history)], state)}

Grow(e) ==
    \E state \in Continuations(log[e]) : log' = [log EXCEPT ![e] = Append(@, state)]

LogNext == \E e \in EventIds : Grow(e)

LogSpec == LogInit /\ [][LogNext]_log
================================================================================
