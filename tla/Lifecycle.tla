------------------------------- MODULE Lifecycle -------------------------------
(***************************************************************************)
(* The event lifecycle of core/lifecycle.py: the states an event can be    *)
(* in, the table of legal edges with the triggers that may take each, and  *)
(* the per-class time-to-live of every state.  The table is data in the    *)
(* code and data here.                                                     *)
(***************************************************************************)
EXTENDS Naturals

LifecycleStates ==
    {"reported", "validated", "active", "clearing", "cleared", "merged", "archived"}

Triggers ==
    {"source_update", "source_absent", "derived_signal", "timer_ttl", "validation_pass",
     "validation_fail", "dedup_decision", "operator_override", "retention_rule"}

TransitionRule(from, to, triggers) == [from |-> from, to |-> to, triggers |-> triggers]

TRANSITIONS ==
    { TransitionRule("reported", "validated", {"validation_pass"}),
      TransitionRule("reported", "cleared", {"validation_fail", "timer_ttl"}),
      TransitionRule("validated", "active", {"source_update", "timer_ttl"}),
      TransitionRule("validated", "merged", {"dedup_decision"}),
      TransitionRule("active", "merged", {"dedup_decision"}),
      TransitionRule("active", "clearing",
                     {"source_update", "derived_signal", "source_absent", "timer_ttl"}),
      TransitionRule("active", "cleared", {"source_update", "operator_override"}),
      TransitionRule("clearing", "cleared", {"source_update", "derived_signal", "timer_ttl"}),
      TransitionRule("clearing", "active", {"source_update", "derived_signal"}),
      TransitionRule("cleared", "active", {"source_update"}),
      TransitionRule("merged", "active", {"dedup_decision", "operator_override"}),
      TransitionRule("cleared", "archived", {"retention_rule"}),
      TransitionRule("merged", "archived", {"retention_rule"}) }

\* An operator may force any edge out of a state the table knows, and any change of state.
IsLegalTransition(from, to, trigger) ==
    IF trigger = "operator_override"
    THEN (\E t \in TRANSITIONS : t.from = from) \/ from # to
    ELSE \E t \in TRANSITIONS : t.from = from /\ t.to = to /\ trigger \in t.triggers

(***************************************************************************)
(* What the timer does to a state whose time-to-live has lapsed            *)
(* (core/resolution.py, TTL_LADDER).  A state outside the ladder is one    *)
(* the timer stops at.                                                     *)
(***************************************************************************)
TTL_LADDER ==
    [state \in {"reported", "validated", "active", "clearing"} |->
        CASE state = "reported"  -> "cleared"
          [] state = "validated" -> "active"
          [] state = "active"    -> "clearing"
          [] state = "clearing"  -> "cleared"]

OnLadder(state) == state \in DOMAIN TTL_LADDER

\* The states a new report may be matched against (core/resolution.py).
MATCHABLE_STATES == {"reported", "validated", "active", "clearing"}
================================================================================
