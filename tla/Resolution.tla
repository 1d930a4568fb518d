------------------------------ MODULE Resolution ------------------------------
(***************************************************************************)
(* The resolution policy of core/resolution.py: given what was read from   *)
(* the store, the steps to write.  Pure, like the code.  The outcome of a  *)
(* policy function is a plan: the steps in the order they are written, the *)
(* ambiguous events to queue for review, the created events whose timer is *)
(* armed, and the event the record's pointer will name.                    *)
(*                                                                         *)
(* Three judgements on a candidate's data are parameters here, free for    *)
(* the caller to choose: `valid` (it can be located, its times parse and   *)
(* its confidence reaches the class floor), `due` (now lies in its active  *)
(* window) and which events the matcher scores as a merge or a review.     *)
(***************************************************************************)
EXTENDS CanonicalEvent

Plan == [writes : Seq(Step), reviews : SUBSET EventIds, arm : SUBSET EventIds,
         subject : EventIds \cup {None}]

NoPlan == [writes |-> <<>>, reviews |-> {}, arm |-> {}, subject |-> None]

(***************************************************************************)
(* Building the version chain                                              *)
(***************************************************************************)

\* A new version; the old one is an immutable record.
Revise(event, state) == [event EXCEPT !.version = @ + 1, !.state = state]

\* The step that stores `event` as a successor of a version in state `from`.
StepTo(id, event, from, trigger) ==
    [id |-> id, event |-> event, creating |-> FALSE,
     audit |-> [sequence |-> event.version, from |-> from,
                to |-> event.state, trigger |-> trigger]]

\* Move an event along an edge of the table. The code raises IllegalTransition on an edge
\* the table does not have; here the step is taken, so that HistoryIsLegal says that the
\* policy never asks for one.
Advance(id, event, to, trigger) == StepTo(id, Revise(event, to), event.state, trigger)

\* Version 1 of a new event: always `reported`, resting on the one record.
EventFromCandidate(c) ==
    [version |-> 1, state |-> "reported", related |-> {},
     sources |-> [r \in Records |-> IF r = RecordOf[c] THEN StampOf[c] ELSE NotHeld]]

FirstStep(id, c) ==
    [StepTo(id, EventFromCandidate(c), "none", "source_update") EXCEPT !.creating = TRUE]

(***************************************************************************)
(* Recency                                                                 *)
(***************************************************************************)

SameSource(r, q) == SourceOf[r] = SourceOf[q]

HoldsSource(event, record) ==
    \E r \in Records : SameSource(r, record) /\ event.sources[r] # NotHeld

NeverLate(event, c) == FALSE

\* The report is older than what the event already holds from the same source. Unknown
\* on either side is not late.
Late(event, c) ==
    \E r \in Records :
        /\ SameSource(r, RecordOf[c])
        /\ Dated(event.sources[r]) /\ Dated(StampOf[c])
        /\ StampOf[c] < event.sources[r]

\* A source's new word replaces its own earlier one.
Superseded(event, c) ==
    [r \in Records |-> IF r = RecordOf[c] THEN StampOf[c]
                       ELSE IF SameSource(r, RecordOf[c]) THEN NotHeld
                       ELSE event.sources[r]]

(***************************************************************************)
(* The entry points                                                        *)
(***************************************************************************)

\* Walk a reported event as far as its data allows (promote).
Promote(id, event, valid, due) ==
    LET validated == Advance(id, event, "validated", "validation_pass")
    IN  CASE ~valid        -> <<Advance(id, event, "cleared", "validation_fail")>>
          [] valid /\ ~due -> <<validated>>
          [] valid /\ due  ->
                <<validated, Advance(id, validated.event, "active", "source_update")>>

\* Only a published event gets a timer.
ResolveNewArmingActive(id, c, ambiguous, valid, due) ==
    [writes  |-> <<FirstStep(id, c)>> \o Promote(id, EventFromCandidate(c), valid, due),
     reviews |-> ambiguous,
     arm     |-> IF valid /\ due THEN {id} ELSE {},
     subject |-> id]

\* A record never seen, matched by nothing. Its timer is armed unless it was closed on
\* arrival, and every ambiguous neighbour goes to review.
ResolveNew(id, c, ambiguous, valid, due) ==
    [writes  |-> <<FirstStep(id, c)>> \o Promote(id, EventFromCandidate(c), valid, due),
     reviews |-> ambiguous,
     arm     |-> IF valid THEN {id} ELSE {},
     subject |-> id]

\* Any live event the matcher scores high enough.
MatchableBySameSource(event, c) == event.state \in MATCHABLE_STATES

\* What an event may absorb: one in a matchable state that holds nothing from the source.
Matchable(event, c) ==
    event.state \in MATCHABLE_STATES /\ ~HoldsSource(event, RecordOf[c])

\* The parent gains the child's source and names the child; its state stays.
Absorb(parentId, parent, child, c) ==
    StepTo(parentId,
           [Revise(parent, parent.state) EXCEPT
               !.sources[RecordOf[c]] = StampOf[c],
               !.related = @ \cup {child}],
           parent.state, "dedup_decision")

\* The child walks reported -> validated -> merged and names its parent.
ChildSteps(child, c, parentId) ==
    LET reported  == FirstStep(child, c)
        validated == Advance(child, reported.event, "validated", "validation_pass")
        merged    == Advance(child, validated.event, "merged", "dedup_decision")
    IN  <<reported, validated, [merged EXCEPT !.event.related = @ \cup {parentId}]>>

\* The parent is revised before the child it absorbs exists.
MergeParentFirst(child, c, parentId, parent) ==
    [writes  |-> <<Absorb(parentId, parent, child, c)>> \o ChildSteps(child, c, parentId),
     reviews |-> {}, arm |-> {}, subject |-> child]

\* Two events are written: the whole child first, then the parent.
Merge(child, c, parentId, parent) ==
    [writes  |-> ChildSteps(child, c, parentId) \o <<Absorb(parentId, parent, child, c)>>,
     reviews |-> {}, arm |-> {}, subject |-> child]

\* The same record again, with different content. A late report is recorded and not
\* applied; any other is applied, and may start a validated event whose window is open.
\* No other state is moved by its own source's update.
ResolveUpdate(id, event, c, due) ==
    LET noted   == StepTo(id, Revise(event, event.state), event.state, "source_update")
        updated == [noted EXCEPT !.event.sources = Superseded(event, c)]
    IN  [NoPlan EXCEPT
            !.subject = id,
            !.writes = IF Late(event, c) THEN <<noted>>
                       ELSE IF event.state = "validated" /\ due
                       THEN <<updated, Advance(id, updated.event, "active", "source_update")>>
                       ELSE <<updated>>]

\* Silence taken for confirmation: every lapse closes the event.
ExpireToCleared(id, event) == Advance(id, event, "cleared", "timer_ttl")

\* A lapsed time-to-live moves the event one rung down the ladder (expire, action
\* `expired`).
Expire(id, event) == Advance(id, event, TTL_LADDER[event.state], "timer_ttl")
================================================================================
