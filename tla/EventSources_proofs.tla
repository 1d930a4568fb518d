-------------------------- MODULE EventSources_proofs --------------------------
(***************************************************************************)
(* More theorems about EventHub, on top of those of EventHub_proofs: what  *)
(* an event rests on, and what an answer of `done` is worth, for every     *)
(* value of the constants.                                                 *)
(***************************************************************************)
EXTENDS EventHub_proofs

(***************************************************************************)
(* What an event rests on: at most one record of each source.              *)
(*                                                                         *)
(* A matcher may have read any old version of the event it merges into,    *)
(* but it decided on a version that is stored, and the transaction         *)
(* commits only against that version.  So a property of versions that      *)
(* every policy function keeps holds of all versions, stored or still to   *)
(* be written.                                                             *)
(***************************************************************************)

\* The event rests on at most one record of each source.
OnePerSource(event) ==
    \A r, q \in Records :
        r # q /\ SameSource(r, q) /\ event.sources[r] # NotHeld => event.sources[q] = NotHeld

VersionsPure ==
    \A e \in EventIds, n \in 1..MaxVersion :
        versions[e][n] # None => OnePerSource(versions[e][n])

\* Every step of a chain is pure.
PureChain(q) == \A i \in 1..Len(q) : OnePerSource(q[i].event)

PlansPure == \A w \in Workers : PureChain(plan[w].writes)

TicksPure == \A e \in EventIds : timer[e] = "writing" => OnePerSource(tick[e].event)

PInv == RInv /\ VersionsPure /\ PlansPure /\ TicksPure

(***************************************************************************)
(* What an invocation has in hand, from one step to the next.              *)
(***************************************************************************)

\* What one invocation has in hand stays, is dropped, or changes by one of five calls.
LEMMA HandsMove ==
    ASSUME IInv, [Next]_vars, NEW w \in Workers
    PROVE  \/ cand'[w] = cand[w] /\ known'[w] = known[w] /\ plan'[w] = plan[w]
           \/ known'[w] = None /\ plan'[w] = NoPlan
           \/ \E c \in Candidates : Deliver(w, c)
           \/ ReadPointer(w) \/ ResolveKnown(w) \/ ResolveUnknown(w) \/ WriteStep(w)
<1>1. /\ known \in [Workers -> Pointer \cup {None}] /\ plan \in [Workers -> GoodPlans]
      /\ cand \in [Workers -> Candidates \cup {None}]
  BY DEF IInv, WorkerInv, WorkerTypeOK
<1>2. ASSUME Resolver(w)
      PROVE  \/ cand'[w] = cand[w] /\ known'[w] = known[w] /\ plan'[w] = plan[w]
             \/ known'[w] = None /\ plan'[w] = NoPlan
             \/ ReadPointer(w) \/ ResolveKnown(w) \/ ResolveUnknown(w) \/ WriteStep(w)
  <2>1. CASE ResolveUnchanged(w) \/ MovePointer(w)
    BY <1>1, <2>1 DEF ResolveUnchanged, MovePointer, Leave
  <2>2. CASE WriteRefused(w) \/ WriteCancelled(w)
    BY <1>1, <2>2 DEF WriteRefused, WriteCancelled, AlreadyWritten, Conflict, Leave
  <2>3. CASE WriteReviews(w) \/ ArmTimers(w)
    BY <2>3 DEF WriteReviews, ArmTimers
  <2> QED
    BY <1>2, <2>1, <2>2, <2>3 DEF Resolver
<1>3. ASSUME Die(w) PROVE known'[w] = None /\ plan'[w] = NoPlan
  BY <1>1, <1>3 DEF Die, Leave
<1> QED
  BY <1>2, <1>3, WhoMoves

(***************************************************************************)
(* The policy keeps an event's records apart.                              *)
(***************************************************************************)

\* A candidate's event rests on one record.
LEMMA CandidateIsPure ==
    ASSUME NEW c \in Candidates
    PROVE  OnePerSource(EventFromCandidate(c))
BY DEF OnePerSource, EventFromCandidate

\* Words that stay are as pure as they were.
LEMMA SameIsPure ==
    ASSUME NEW event, OnePerSource(event), NEW later, later.sources = event.sources
    PROVE  OnePerSource(later)
BY DEF OnePerSource

\* A parent absorbs a record of a source it rests on nothing of.
LEMMA AbsorbIsPure ==
    ASSUME NEW event \in Event, OnePerSource(event), NEW c \in Candidates,
           ~HoldsSource(event, RecordOf[c]),
           NEW later, later.sources = [event.sources EXCEPT ![RecordOf[c]] = StampOf[c]]
    PROVE  OnePerSource(later)
<1>1. event.sources \in [Records -> Nat] /\ RecordOf[c] \in Records
  BY TypesAssumption DEF Event
<1>2. \A r \in Records : SameSource(r, RecordOf[c]) => event.sources[r] = NotHeld
  BY DEF HoldsSource
<1>3. \A r \in Records :
         later.sources[r] = IF r = RecordOf[c] THEN StampOf[c] ELSE event.sources[r]
  BY <1>1
<1> QED
  BY <1>1, <1>2, <1>3 DEF OnePerSource, SameSource

\* An update drops the source's other records.
LEMMA SupersededIsPure ==
    ASSUME NEW event, OnePerSource(event), NEW c \in Candidates,
           NEW later, later.sources = Superseded(event, c)
    PROVE  OnePerSource(later)
<1>1. \A r \in Records :
         later.sources[r] = IF r = RecordOf[c] THEN StampOf[c]
                            ELSE IF SameSource(r, RecordOf[c]) THEN NotHeld
                            ELSE event.sources[r]
  BY DEF Superseded
<1> QED
  BY <1>1 DEF OnePerSource, SameSource

(***************************************************************************)
(* The shape of the policy's plans.                                        *)
(***************************************************************************)

\* Moving an event along an edge: the whole step.
LEMMA AdvanceShape ==
    ASSUME NEW id, NEW event \in Event, NEW to, NEW trigger
    PROVE  LET s == Advance(id, event, to, trigger)
           IN  /\ s.id = id /\ ~s.creating /\ s.audit.from = event.state
               /\ s.event = [version |-> event.version + 1, state |-> to,
                             sources |-> event.sources, related |-> event.related]
BY DEF Advance, StepTo, Revise, Event

\* The same of an event given by its fields.
LEMMA AdvanceFields ==
    ASSUME NEW id, NEW version, NEW state, NEW sources, NEW related, NEW to, NEW trigger
    PROVE  LET event == [version |-> version, state |-> state,
                         sources |-> sources, related |-> related]
               s == Advance(id, event, to, trigger)
           IN  /\ s.id = id /\ ~s.creating /\ s.audit.from = state
               /\ s.event = [version |-> version + 1, state |-> to,
                             sources |-> sources, related |-> related]
BY DEF Advance, StepTo, Revise

\* A candidate's first version: the whole step.
LEMMA FirstShape ==
    ASSUME NEW id, NEW c
    PROVE  LET s == FirstStep(id, c)
           IN  /\ s.id = id /\ s.creating /\ s.event = EventFromCandidate(c)
               /\ s.event.version = 1 /\ s.event.state = "reported"
BY DEF FirstStep, StepTo, EventFromCandidate

\* Plan p opens event id for the report c: two or three versions of it, all resting on the
\* report alone. Only one that was closed on arrival ends off the ladder, and only that one
\* has no timer.
Opens(p, id, c) ==
    LET q == p.writes
    IN  /\ p.subject = id /\ p.arm \subseteq {id}
        /\ Len(q) \in {2, 3}
        /\ \A i \in 1..Len(q) :
              /\ q[i].id = id /\ q[i].event.version = i
              /\ q[i].event.sources = EventFromCandidate(c).sources
              /\ q[i].creating <=> i = 1
              /\ i > 1 => OnLadder(q[i].audit.from)
        /\ OnLadder(q[Len(q)].event.state) => id \in p.arm

\* Plan p merges the report c, as event child, into `parent`: three versions of the child,
\* which ends merged, and one of the parent, which gains the record and keeps its state.
Merges(p, child, c, parentId, parent) ==
    LET q == p.writes
    IN  /\ p.subject = child /\ p.arm = {} /\ Len(q) = 4
        /\ \A i \in 1..3 :
              /\ q[i].id = child /\ q[i].event.version = i
              /\ q[i].event.sources = EventFromCandidate(c).sources
              /\ q[i].creating <=> i = 1
              /\ i > 1 => OnLadder(q[i].audit.from)
        /\ ~OnLadder(q[3].event.state)
        /\ q[4].id = parentId /\ ~q[4].creating
        /\ q[4].event.state = parent.state /\ q[4].audit.from = parent.state
        /\ q[4].event.sources = [parent.sources EXCEPT ![RecordOf[c]] = StampOf[c]]

\* Plan p updates `event`: one or two versions of it, whose words are those it had when the
\* report is late and else those the report leaves. None comes back to the ladder.
Updates(p, id, event, c) ==
    LET q == p.writes
    IN  /\ p.subject = id /\ p.arm = {} /\ Len(q) \in {1, 2}
        /\ \A i \in 1..Len(q) :
              /\ q[i].id = id /\ q[i].event.version = event.version + i
              /\ q[i].event.sources = IF Late(event, c) THEN event.sources
                                      ELSE Superseded(event, c)
              /\ ~q[i].creating /\ q[i].audit.from = event.state
              /\ OnLadder(q[i].event.state) => OnLadder(event.state)

\* A record never seen opens an event.
LEMMA NewShape ==
    ASSUME NEW id \in EventIds, NEW c \in Candidates, NEW ambiguous,
           NEW valid \in BOOLEAN, NEW due \in BOOLEAN
    PROVE  Opens(ResolveNew(id, c, ambiguous, valid, due), id, c)
<1> DEFINE first     == FirstStep(id, c)
           event     == EventFromCandidate(c)
           validated == Advance(id, event, "validated", "validation_pass")
           cleared   == Advance(id, event, "cleared", "validation_fail")
           started   == Advance(id, validated.event, "active", "source_update")
           p         == ResolveNew(id, c, ambiguous, valid, due)
           q         == p.writes
<1>1. /\ event \in Event /\ event.version = 1 /\ event.state = "reported"
      /\ first.id = id /\ first.creating /\ first.event = event
  BY FirstStepGood, FirstShape
<1>2. /\ validated.id = id /\ ~validated.creating /\ validated.audit.from = "reported"
      /\ validated.event = [version |-> 2, state |-> "validated",
                            sources |-> event.sources, related |-> event.related]
      /\ cleared.id = id /\ ~cleared.creating /\ cleared.audit.from = "reported"
      /\ cleared.event = [version |-> 2, state |-> "cleared",
                          sources |-> event.sources, related |-> event.related]
  BY <1>1, AdvanceShape
<1>3. /\ started.id = id /\ ~started.creating /\ started.audit.from = "validated"
      /\ started.event = [version |-> 3, state |-> "active",
                          sources |-> event.sources, related |-> event.related]
  <2> HIDE DEF validated
  <2> QED
    BY <1>2, AdvanceFields
<1>4. /\ p.subject = id /\ p.arm = IF valid THEN {id} ELSE {}
      /\ q = IF ~valid THEN <<first>> \o <<cleared>>
             ELSE IF ~due THEN <<first>> \o <<validated>>
             ELSE <<first>> \o <<validated, started>>
  BY DEF ResolveNew, Promote
<1>5. OnLadder("reported") /\ OnLadder("validated") /\ ~OnLadder("cleared")
  BY DEF OnLadder, TTL_LADDER
<1> HIDE DEF p, q, first, event, validated, cleared, started
<1>6. CASE ~valid
  <2>1. Len(q) = 2 /\ q[1] = first /\ q[2] = cleared
    BY <1>4, <1>6
  <2>2. \A i \in 1..Len(q) : i = 1 \/ i = 2
    BY <2>1
  <2> QED
    BY <1>1, <1>2, <1>4, <1>5, <1>6, <2>1, <2>2 DEF p, q, event, Opens
<1>7. CASE valid /\ ~due
  <2>1. Len(q) = 2 /\ q[1] = first /\ q[2] = validated /\ id \in p.arm
    BY <1>4, <1>7
  <2>2. \A i \in 1..Len(q) : i = 1 \/ i = 2
    BY <2>1
  <2> QED
    BY <1>1, <1>2, <1>4, <1>5, <2>1, <2>2 DEF p, q, event, Opens
<1>8. CASE valid /\ due
  <2>1. Len(q) = 3 /\ q[1] = first /\ q[2] = validated /\ q[3] = started
    BY <1>4, <1>8
  <2>2. \A i \in 1..Len(q) : i = 1 \/ i = 2 \/ i = 3
    BY <2>1
  <2> QED
    BY <1>1, <1>2, <1>3, <1>4, <1>5, <1>8, <2>1, <2>2 DEF p, q, event, Opens
<1> QED
  BY <1>6, <1>7, <1>8 DEF p

\* A match that is merged.
LEMMA MergeShape ==
    ASSUME NEW child \in EventIds, NEW c \in Candidates, NEW parentId \in EventIds,
           NEW parent \in Event
    PROVE  Merges(Merge(child, c, parentId, parent), child, c, parentId, parent)
<1> DEFINE reported  == FirstStep(child, c)
           event     == EventFromCandidate(c)
           validated == Advance(child, reported.event, "validated", "validation_pass")
           merged    == Advance(child, validated.event, "merged", "dedup_decision")
           named     == [merged EXCEPT !.event.related = @ \cup {parentId}]
           absorb    == Absorb(parentId, parent, child, c)
           p         == Merge(child, c, parentId, parent)
           q         == p.writes
<1>1. /\ event \in Event /\ event.version = 1 /\ event.state = "reported"
      /\ reported.id = child /\ reported.creating /\ reported.event = event
  BY FirstStepGood, FirstShape
<1>2. /\ validated.id = child /\ ~validated.creating /\ validated.audit.from = "reported"
      /\ validated.event = [version |-> 2, state |-> "validated",
                            sources |-> event.sources, related |-> event.related]
  BY <1>1, AdvanceShape
<1>3. /\ named.id = child /\ ~named.creating /\ named.audit.from = "validated"
      /\ named.event.version = 3 /\ named.event.state = "merged"
      /\ named.event.sources = event.sources
  <2>1. /\ merged.id = child /\ ~merged.creating /\ merged.audit.from = "validated"
        /\ merged.event = [version |-> 3, state |-> "merged",
                           sources |-> event.sources, related |-> event.related]
    <3> HIDE DEF validated
    <3> QED
      BY <1>2, AdvanceFields
  <2>2. merged \in [id : {merged.id}, event : {merged.event},
                    audit : {merged.audit}, creating : {merged.creating}]
    BY DEF Advance, StepTo
  <2> HIDE DEF merged
  <2> QED
    BY <2>1, <2>2
<1>4. /\ absorb.id = parentId /\ ~absorb.creating
      /\ absorb.event.state = parent.state /\ absorb.audit.from = parent.state
      /\ absorb.event.sources = [parent.sources EXCEPT ![RecordOf[c]] = StampOf[c]]
  BY DEF Absorb, StepTo, Revise, Event
<1>5. /\ p.subject = child /\ p.arm = {}
      /\ q = <<reported, validated, named>> \o <<absorb>>
  BY DEF Merge, ChildSteps
<1>6. OnLadder("reported") /\ OnLadder("validated") /\ ~OnLadder("merged")
  BY DEF OnLadder, TTL_LADDER
<1> HIDE DEF p, q, reported, event, validated, merged, named, absorb
<1>7. Len(q) = 4 /\ q[1] = reported /\ q[2] = validated /\ q[3] = named /\ q[4] = absorb
  BY <1>5
<1>8. \A i \in 1..3 : i = 1 \/ i = 2 \/ i = 3
  OBVIOUS
<1> QED
  BY <1>1, <1>2, <1>3, <1>4, <1>5, <1>6, <1>7, <1>8 DEF p, q, event, Merges

\* A record seen before updates its event.
LEMMA UpdateShape ==
    ASSUME NEW id \in EventIds, NEW event \in Event, NEW c \in Candidates,
           NEW due \in BOOLEAN
    PROVE  Updates(ResolveUpdate(id, event, c, due), id, event, c)
<1> DEFINE noted   == StepTo(id, Revise(event, event.state), event.state, "source_update")
           updated == [noted EXCEPT !.event.sources = Superseded(event, c)]
           started == Advance(id, updated.event, "active", "source_update")
           p       == ResolveUpdate(id, event, c, due)
           q       == p.writes
<1>1. /\ noted.id = id /\ ~noted.creating /\ noted.audit.from = event.state
      /\ noted.event = [version |-> event.version + 1, state |-> event.state,
                        sources |-> event.sources, related |-> event.related]
  BY DEF StepTo, Revise, Event
<1>2. /\ updated.id = id /\ ~updated.creating /\ updated.audit.from = event.state
      /\ updated.event = [version |-> event.version + 1, state |-> event.state,
                          sources |-> Superseded(event, c), related |-> event.related]
  BY DEF StepTo, Revise, Event
<1>3. /\ started.id = id /\ ~started.creating /\ started.audit.from = event.state
      /\ started.event.version = event.version + 1 + 1
      /\ started.event.sources = Superseded(event, c)
  <2> DEFINE base == [version |-> event.version + 1, state |-> event.state,
                      sources |-> Superseded(event, c), related |-> event.related]
  <2>1. started = Advance(id, base, "active", "source_update")
    BY <1>2
  <2>2. LET s == Advance(id, base, "active", "source_update")
        IN  /\ s.id = id /\ ~s.creating /\ s.audit.from = event.state
            /\ s.event = [version |-> (event.version + 1) + 1, state |-> "active",
                          sources |-> Superseded(event, c), related |-> event.related]
    BY AdvanceFields
  <2> HIDE DEF started, base
  <2> QED
    BY <2>1, <2>2
<1>4. /\ p.subject = id /\ p.arm = {}
      /\ q = IF Late(event, c) THEN <<noted>>
             ELSE IF event.state = "validated" /\ due THEN <<updated, started>>
             ELSE <<updated>>
  BY DEF ResolveUpdate, NoPlan
<1>5. OnLadder("validated") /\ event.version \in Nat
  BY DEF OnLadder, TTL_LADDER, Event
<1> HIDE DEF p, q, noted, updated, started
<1>6. CASE Late(event, c)
  <2>1. Len(q) = 1 /\ q[1] = noted /\ \A i \in 1..Len(q) : i = 1
    BY <1>4, <1>6
  <2> QED
    BY <1>1, <1>4, <1>6, <2>1 DEF p, q, Updates
<1>7. CASE ~Late(event, c) /\ event.state = "validated" /\ due
  <2>1. Len(q) = 2 /\ q[1] = updated /\ q[2] = started /\ \A i \in 1..Len(q) : i = 1 \/ i = 2
    BY <1>4, <1>7
  <2> QED
    BY <1>2, <1>3, <1>4, <1>5, <1>7, <2>1 DEF p, q, Updates
<1>8. CASE ~Late(event, c) /\ ~(event.state = "validated" /\ due)
  <2>1. Len(q) = 1 /\ q[1] = updated /\ \A i \in 1..Len(q) : i = 1
    BY <1>4, <1>8
  <2> QED
    BY <1>2, <1>4, <1>8, <2>1 DEF p, q, Updates
<1> QED
  BY <1>6, <1>7, <1>8 DEF p

(***************************************************************************)
(* At most one record of a source.                                         *)
(***************************************************************************)

\* What is decided in one step is pure.
LEMMA DecisionsPure ==
    ASSUME PInv, NEW w \in Workers, ResolveKnown(w) \/ ResolveUnknown(w)
    PROVE  /\ \A v \in Workers \ {w} : plan'[v] = plan[v]
           /\ PureChain(plan'[w].writes)
<1>1. IInv /\ plan \in [Workers -> GoodPlans] /\ known \in [Workers -> Pointer \cup {None}]
      /\ (pc[w] # "idle" => cand[w] \in Candidates)
  BY DEF PInv, RInv, IInv, WorkerInv, WorkerTypeOK
<1>2. ASSUME NEW p, Decide(w, p), PureChain(p.writes)
      PROVE  /\ \A v \in Workers \ {w} : plan'[v] = plan[v]
             /\ PureChain(plan'[w].writes)
  BY <1>1, <1>2 DEF Decide
<1>3. ASSUME NEW e \in EventIds, NEW event \in Event, StoredIn(versions, e, event)
      PROVE  OnePerSource(event)
  <2>1. event.version \in 1..MaxVersion
    BY DEF Event
  <2> QED
    BY <1>3, <2>1 DEF PInv, VersionsPure, StoredIn
<1>4. CASE ResolveKnown(w)
  <2> DEFINE id == known[w].id
  <2>1. id \in EventIds /\ current[id] # None /\ cand[w] \in Candidates
    BY <1>1, <1>4 DEF ResolveKnown, IsKnown, Pointer
  <2>2. current[id] \in Event /\ StoredIn(versions, id, current[id])
    BY <1>1, <2>1, CurrentIsStored DEF IInv, StoreInv, StoreTypeOK
  <2>3. PICK due \in BOOLEAN : Decide(w, ResolveUpdate(id, current[id], cand[w], due))
    BY <1>4 DEF ResolveKnown
  <2> DEFINE q == ResolveUpdate(id, current[id], cand[w], due).writes
  <2> HIDE DEF id
  <2>4. \A i \in 1..Len(q) :
           q[i].event.sources \in {current[id].sources, Superseded(current[id], cand[w])}
    BY <2>1, <2>2, UpdateShape DEF Updates
  <2>5. OnePerSource(current[id])
    BY <1>3, <2>1, <2>2
  <2> HIDE DEF q
  <2>6. ASSUME NEW i \in 1..Len(q) PROVE OnePerSource(q[i].event)
    <3>1. CASE q[i].event.sources = current[id].sources
      BY <2>5, <3>1, SameIsPure
    <3>2. CASE q[i].event.sources = Superseded(current[id], cand[w])
      BY <2>1, <2>5, <3>2, SupersededIsPure
    <3> QED
      BY <2>4, <3>1, <3>2
  <2>7. PureChain(q)
    BY <2>6 DEF PureChain
  <2> QED
    BY <1>2, <2>3, <2>7 DEF q
<1>5. CASE ResolveUnknown(w)
  <2>1. cand[w] \in Candidates /\ OnePerSource(EventFromCandidate(cand[w]))
    BY <1>1, <1>5, CandidateIsPure DEF ResolveUnknown
  <2>2. PICK id \in EventIds \ minted :
           \/ \E p \in MergeChoices(cand[w]) : Decide(w, Merge(id, cand[w], p[1], p[2]))
           \/ \E ambiguous \in SUBSET {p[1] : p \in MergeChoices(cand[w])},
                 valid, due \in BOOLEAN :
                 Decide(w, ResolveNew(id, cand[w], ambiguous, valid, due))
    BY <1>5 DEF ResolveUnknown
  <2>3. ASSUME NEW p \in MergeChoices(cand[w])
        PROVE  PureChain(Merge(id, cand[w], p[1], p[2]).writes)
    <3> DEFINE q == Merge(id, cand[w], p[1], p[2]).writes
    <3>1. p[1] \in EventIds /\ p[2] \in Event /\ Matchable(p[2], cand[w])
          /\ StoredIn(versions, p[1], p[2])
      BY <1>1, <2>1, MergeChoicesType, MergeChoiceIsStored
    <3>2. /\ Len(q) = 4
          /\ \A i \in 1..3 : q[i].event.sources = EventFromCandidate(cand[w]).sources
          /\ q[4].event.sources = [p[2].sources EXCEPT ![RecordOf[cand[w]]] = StampOf[cand[w]]]
      BY <2>1, <3>1, MergeShape DEF Merges
    <3> HIDE DEF q
    <3>3. \A i \in 1..3 : OnePerSource(q[i].event)
      BY <2>1, <3>2, SameIsPure
    <3>4. OnePerSource(q[4].event)
      BY <1>3, <2>1, <3>1, <3>2, AbsorbIsPure DEF Matchable
    <3>5. \A i \in 1..Len(q) : i \in 1..3 \/ i = 4
      BY <3>2
    <3> QED
      BY <3>3, <3>4, <3>5 DEF PureChain, q
  <2>4. ASSUME NEW ambiguous, NEW valid \in BOOLEAN, NEW due \in BOOLEAN
        PROVE  PureChain(ResolveNew(id, cand[w], ambiguous, valid, due).writes)
    <3> DEFINE p == ResolveNew(id, cand[w], ambiguous, valid, due)
    <3>1. Opens(p, id, cand[w])
      BY <2>1, NewShape
    <3> HIDE DEF p
    <3>2. \A i \in 1..Len(p.writes) :
             p.writes[i].event.sources = EventFromCandidate(cand[w]).sources
      BY <3>1 DEF Opens
    <3> QED
      BY <2>1, <3>2, SameIsPure DEF PureChain, p
  <2> QED
    BY <1>2, <2>2, <2>3, <2>4
<1> QED
  BY <1>4, <1>5

\* A transaction of a pure step keeps the versions pure.
LEMMA TransactPure ==
    ASSUME IInv, VersionsPure, NEW s \in GoodSteps, Transact(s), OnePerSource(s.event)
    PROVE  VersionsPure'
<1>1. \A e \in EventIds, n \in 1..MaxVersion :
         \/ versions'[e][n] = versions[e][n]
         \/ versions'[e][n] = s.event
  BY TransactAppends, GoodStepParts DEF IInv, StoreInv
<1> QED
  BY <1>1 DEF VersionsPure

\* The versions stay pure.
LEMMA VersionsPureNext ==
    ASSUME PInv, [Next]_vars
    PROVE  VersionsPure'
<1>1. IInv /\ VersionsPure
  BY DEF PInv, RInv
<1>2. CASE UNCHANGED <<versions, audit, current>>
  BY <1>1, <1>2 DEF VersionsPure
<1>3. ASSUME NEW w \in Workers, WriteStep(w) PROVE VersionsPure'
  <2>1. /\ plan[w].writes \in Seq(GoodSteps) /\ plan[w].writes # <<>>
        /\ Head(plan[w].writes) \in GoodSteps /\ Transact(Head(plan[w].writes))
    BY <1>1, <1>3, NextWriteGood DEF IInv, GoodPlans, WriteStep
  <2>2. 1 \in 1..Len(plan[w].writes) /\ Head(plan[w].writes) = plan[w].writes[1]
    BY <2>1
  <2>3. OnePerSource(Head(plan[w].writes).event)
    BY <2>2 DEF PInv, PlansPure, PureChain
  <2> QED
    BY <1>1, <2>1, <2>3, TransactPure
<1>4. ASSUME NEW e \in EventIds, TickWrites(e) PROVE VersionsPure'
  <2>1. tick[e] \in GoodSteps /\ Transact(tick[e]) /\ OnePerSource(tick[e].event)
    BY <1>1, <1>4 DEF PInv, TicksPure, IInv, TimerInv, TickWrites
  <2> QED
    BY <1>1, <2>1, TransactPure
<1> QED
  BY <1>2, <1>3, <1>4, OnlyWritersWrite

\* So do the plans.
LEMMA PlansPureNext ==
    ASSUME PInv, [Next]_vars
    PROVE  PlansPure'
<1>1. IInv /\ plan \in [Workers -> GoodPlans]
  BY DEF PInv, RInv, IInv, WorkerInv
<1>2. ASSUME NEW w \in Workers PROVE PureChain(plan'[w].writes)
  <2>1. PureChain(plan[w].writes) /\ plan[w].writes \in Seq(GoodSteps)
    BY <1>1 DEF PInv, PlansPure, GoodPlans
  <2>2. CASE plan'[w] = plan[w]
    BY <2>1, <2>2
  <2>3. CASE plan'[w] = NoPlan
    BY <2>3 DEF NoPlan, PureChain
  <2>4. CASE (\E c \in Candidates : Deliver(w, c)) \/ ReadPointer(w)
    BY <2>1, <2>4 DEF Deliver, ReadPointer
  <2>5. CASE ResolveKnown(w) \/ ResolveUnknown(w)
    BY <2>5, DecisionsPure
  <2>6. CASE WriteStep(w)
    <3> DEFINE q == plan[w].writes
    <3>1. q \in Seq(GoodSteps) /\ q # <<>> /\ plan'[w].writes = Tail(q)
      BY <1>1, <2>1, <2>6 DEF WriteStep, GoodPlans
    <3> HIDE DEF q
    <3>2. \A i \in 1..Len(Tail(q)) : i + 1 \in 1..Len(q) /\ Tail(q)[i] = q[i + 1]
      BY <3>1
    <3> QED
      BY <2>1, <3>1, <3>2 DEF PureChain, q
  <2> QED
    BY <1>1, <2>2, <2>3, <2>4, <2>5, <2>6, HandsMove
<1> QED
  BY <1>2 DEF PlansPure

\* And the ticks, which leave the words alone.
LEMMA TicksPureNext ==
    ASSUME PInv, [Next]_vars
    PROVE  TicksPure'
<1>1. IInv
  BY DEF PInv, RInv
<1>2. ASSUME NEW e \in EventIds, TickExpires(e) PROVE OnePerSource(tick'[e].event)
  <2>1. /\ current[e] \in Event /\ current[e] # None /\ tick'[e] = Expire(e, current[e])
    BY <1>1, <1>2 DEF IInv, StoreInv, StoreTypeOK, TimerInv, TimerTypeOK, TickExpires
  <2>2. StoredIn(versions, e, current[e]) /\ current[e].version \in 1..MaxVersion
    BY <1>1, <2>1, CurrentIsStored DEF Event
  <2>3. OnePerSource(current[e])
    BY <2>2 DEF PInv, VersionsPure, StoredIn
  <2>4. Expire(e, current[e]).event.sources = current[e].sources
    BY <2>1, AdvanceKeepsWords DEF Expire
  <2> QED
    BY <2>1, <2>3, <2>4, SameIsPure
<1> QED
  BY <1>1, <1>2, WhoWrites DEF PInv, TicksPure

\* The invariant holds at the start and is inductive.
LEMMA PInvInductive == (Init => PInv) /\ (PInv /\ [Next]_vars => PInv')
<1>1. ASSUME Init PROVE PInv
  <2>1. VersionsPure /\ PlansPure /\ TicksPure
    BY <1>1 DEF Init, StoreInit, NoPlan, VersionsPure, PlansPure, PureChain, TicksPure
  <2> QED
    BY <1>1, <2>1, RInvInit DEF PInv
<1>2. ASSUME PInv, [Next]_vars PROVE PInv'
  BY <1>2, RInvNext, VersionsPureNext, PlansPureNext, TicksPureNext DEF PInv
<1> QED
  BY <1>1, <1>2

\* Every version, stored or still to be written, rests on at most one record of a source.
THEOREM SourcesStayApart == Spec => []PInv
BY PInvInductive, PTL DEF Spec

\* A source never merges with itself, however stale the version the matcher was shown and
\* however the merges that built the event raced.
THEOREM NoSourceTwice == Spec => []OneRecordPerSource
<1>1. ASSUME PInv PROVE OneRecordPerSource
  <2>1. ASSUME NEW e \in EventIds, current[e] # None PROVE OnePerSource(current[e])
    <3>1. IInv /\ VersionsPure
      BY <1>1 DEF PInv, RInv
    <3>2. current[e] \in Event /\ StoredIn(versions, e, current[e])
      BY <2>1, <3>1, CurrentIsStored DEF IInv, StoreInv, StoreTypeOK
    <3>3. current[e].version \in 1..MaxVersion
      BY <3>2 DEF Event
    <3> QED
      BY <3>1, <3>2, <3>3 DEF VersionsPure, StoredIn
  <2> QED
    BY <2>1 DEF OneRecordPerSource, OnePerSource
<1>2. PInv => OneRecordPerSource
  BY <1>1
<1> QED
  BY <1>2, SourcesStayApart, PTL

(***************************************************************************)
(* A report answered as done left its mark.                                *)
(*                                                                         *)
(* A late report is noted without its words, but then the event rests on a *)
(* later word of the same source, and by the above on the same record.     *)
(***************************************************************************)

\* Some stored version rests on report c of its record, or on a later one.
Marked(vs, c) ==
    \E e \in EventIds, n \in 1..MaxVersion :
        vs[e][n] # None /\ vs[e][n].sources[RecordOf[c]] >= StampOf[c]

\* So does a step of the chain q.
Marks(q, c) == \E i \in 1..Len(q) : q[i].event.sources[RecordOf[c]] >= StampOf[c]

PlansMark ==
    \A w \in Workers :
        plan[w].subject # None =>
            Marked(versions, cand[w]) \/ Marks(plan[w].writes, cand[w])

PointersMark == \A r \in Records : pointers[r] # None => Marked(versions, pointers[r].hash)

KnownMark == \A w \in Workers : known[w] # None => Marked(versions, known[w].hash)

MInv == PInv /\ PlansMark /\ PointersMark /\ KnownMark

\* What was marked stays marked.
LEMMA MarkedGrows ==
    ASSUME NEW vs, NEW us, Grows(vs, us), NEW c, Marked(vs, c)
    PROVE  Marked(us, c)
BY DEF Marked, Grows

\* A report that opens an event, alone or to be merged, marks it with its first step.
LEMMA OpeningMarks ==
    ASSUME NEW c \in Candidates, NEW q, 1 \in 1..Len(q),
           q[1].event.sources = EventFromCandidate(c).sources
    PROVE  Marks(q, c)
<1>1. RecordOf[c] \in Records /\ StampOf[c] \in Nat
  BY TypesAssumption
<1>2. q[1].event.sources[RecordOf[c]] = StampOf[c]
  BY <1>1 DEF EventFromCandidate
<1> QED
  BY <1>1, <1>2 DEF Marks

\* An update marks the event, unless the event holds a later word already.
LEMMA UpdateMarks ==
    ASSUME NEW id \in EventIds, NEW event \in Event, NEW c \in Candidates,
           StoredIn(versions, id, event), OnePerSource(event),
           event.sources[RecordOf[c]] # NotHeld, NEW p, Updates(p, id, event, c)
    PROVE  Marked(versions, c) \/ Marks(p.writes, c)
<1>1. /\ RecordOf[c] \in Records /\ StampOf[c] \in Nat
      /\ event.sources \in [Records -> Nat] /\ event.version \in 1..MaxVersion
  BY TypesAssumption DEF Event
<1>2. CASE Late(event, c)
  <2>1. PICK r \in Records : SameSource(r, RecordOf[c]) /\ Dated(event.sources[r])
                             /\ StampOf[c] < event.sources[r]
    BY <1>2 DEF Late
  <2>2. event.sources[r] # NotHeld
    BY <1>1, <2>1 DEF Dated, NotHeld, Undated
  <2>3. r = RecordOf[c]
    BY <1>1, <2>1, <2>2 DEF OnePerSource, SameSource
  <2>4. event.sources[RecordOf[c]] >= StampOf[c]
    BY <1>1, <2>1, <2>3
  <2> QED
    BY <1>1, <2>4 DEF Marked, StoredIn
<1>3. CASE ~Late(event, c)
  <2>1. 1 \in 1..Len(p.writes) /\ p.writes[1].event.sources = Superseded(event, c)
    <3>1. Len(p.writes) = 1 \/ Len(p.writes) = 2
      BY DEF Updates
    <3>2. 1 \in 1..Len(p.writes)
      BY <3>1
    <3> QED
      BY <1>3, <3>2 DEF Updates
  <2>2. Superseded(event, c)[RecordOf[c]] = StampOf[c]
    BY <1>1 DEF Superseded
  <2> QED
    BY <1>1, <2>1, <2>2 DEF Marks
<1> QED
  BY <1>2, <1>3

\* What is decided in one step marks its report.
LEMMA DecisionsMark ==
    ASSUME MInv, NEW w \in Workers, ResolveKnown(w) \/ ResolveUnknown(w)
    PROVE  /\ cand'[w] = cand[w] /\ known'[w] = known[w]
           /\ Marked(versions, cand[w]) \/ Marks(plan'[w].writes, cand[w])
<1>1. /\ RInv /\ PInv /\ IInv /\ plan \in [Workers -> GoodPlans]
      /\ known \in [Workers -> Pointer \cup {None}]
      /\ (pc[w] # "idle" => cand[w] \in Candidates)
  BY DEF MInv, PInv, RInv, IInv, WorkerInv, WorkerTypeOK
<1>2. ASSUME NEW p, Decide(w, p), Marked(versions, cand[w]) \/ Marks(p.writes, cand[w])
      PROVE  /\ cand'[w] = cand[w] /\ known'[w] = known[w]
             /\ Marked(versions, cand[w]) \/ Marks(plan'[w].writes, cand[w])
  BY <1>1, <1>2 DEF Decide
<1>3. CASE ResolveKnown(w)
  <2> DEFINE id == known[w].id
  <2>1. id \in EventIds /\ current[id] # None /\ cand[w] \in Candidates /\ known[w] # None
    BY <1>1, <1>3 DEF ResolveKnown, IsKnown, Pointer
  <2>2. /\ current[id] \in Event /\ StoredIn(versions, id, current[id])
        /\ current[id].version \in 1..MaxVersion
    BY <1>1, <2>1, CurrentIsStored DEF IInv, StoreInv, StoreTypeOK, Event
  <2>3. PICK due \in BOOLEAN : Decide(w, ResolveUpdate(id, current[id], cand[w], due))
    BY <1>3 DEF ResolveKnown
  <2>4. OnePerSource(current[id])
    BY <1>1, <2>1, <2>2 DEF PInv, VersionsPure, StoredIn
  <2>5. current[id].sources[RecordOf[cand[w]]] # NotHeld
    <3>1. Owns(versions, id, RecordOf[cand[w]]) /\ RecordOf[cand[w]] \in Records
      BY <1>1, <2>1, TypesAssumption DEF RInv, KnownRefers
    <3> QED
      BY <1>1, <2>1, <2>2, <3>1, StoredRestsOnOwner DEF RInv
  <2> HIDE DEF id
  <2>6. Updates(ResolveUpdate(id, current[id], cand[w], due), id, current[id], cand[w])
    BY <2>1, <2>2, UpdateShape
  <2> QED
    BY <1>2, <2>1, <2>2, <2>3, <2>4, <2>5, <2>6, UpdateMarks
<1>4. CASE ResolveUnknown(w)
  <2>1. cand[w] \in Candidates
    BY <1>1, <1>4 DEF ResolveUnknown
  <2>2. PICK id \in EventIds \ minted :
           \/ \E p \in MergeChoices(cand[w]) : Decide(w, Merge(id, cand[w], p[1], p[2]))
           \/ \E ambiguous \in SUBSET {p[1] : p \in MergeChoices(cand[w])},
                 valid, due \in BOOLEAN :
                 Decide(w, ResolveNew(id, cand[w], ambiguous, valid, due))
    BY <1>4 DEF ResolveUnknown
  <2>3. ASSUME NEW p \in MergeChoices(cand[w])
        PROVE  Marks(Merge(id, cand[w], p[1], p[2]).writes, cand[w])
    <3> DEFINE q == Merge(id, cand[w], p[1], p[2]).writes
    <3>1. p[1] \in EventIds /\ p[2] \in Event
      BY <1>1, <2>1, MergeChoicesType
    <3>2. /\ Len(q) = 4
          /\ \A i \in 1..3 : q[i].event.sources = EventFromCandidate(cand[w]).sources
      <4>1. Merges(Merge(id, cand[w], p[1], p[2]), id, cand[w], p[1], p[2])
        BY <2>1, <3>1, MergeShape
      <4> QED
        BY <4>1 DEF Merges
    <3> HIDE DEF q
    <3>3. Marks(q, cand[w])
      <4>1. 1 \in 1..3 /\ 1 \in 1..Len(q)
        BY <3>2
      <4> QED
        BY <2>1, <3>2, <4>1, OpeningMarks
    <3> QED
      BY <3>3 DEF q
  <2>4. ASSUME NEW ambiguous, NEW valid \in BOOLEAN, NEW due \in BOOLEAN
        PROVE  Marks(ResolveNew(id, cand[w], ambiguous, valid, due).writes, cand[w])
    <3> DEFINE p == ResolveNew(id, cand[w], ambiguous, valid, due)
    <3>1. Opens(p, id, cand[w])
      BY <2>1, NewShape
    <3> HIDE DEF p
    <3>2. Len(p.writes) = 2 \/ Len(p.writes) = 3
      BY <3>1 DEF Opens
    <3>3. 1 \in 1..Len(p.writes)
      BY <3>2
    <3>4. p.writes[1].event.sources = EventFromCandidate(cand[w]).sources
      BY <3>1, <3>3 DEF Opens
    <3>5. Marks(p.writes, cand[w])
      BY <2>1, <3>3, <3>4, OpeningMarks
    <3> QED
      BY <3>5 DEF p
  <2> QED
    BY <1>2, <2>2, <2>3, <2>4
<1> QED
  BY <1>3, <1>4

\* What every invocation has in hand marks its report, or is marked.
LEMMA HandsMarkNext ==
    ASSUME MInv, [Next]_vars
    PROVE  PlansMark' /\ KnownMark'
<1>1. /\ PInv /\ RInv /\ IInv /\ plan \in [Workers -> GoodPlans] /\ Grows(versions, versions')
      /\ known \in [Workers -> Pointer \cup {None}]
  BY NextGrows DEF MInv, PInv, RInv, IInv, WorkerInv, WorkerTypeOK
<1>2. SUFFICES ASSUME NEW w \in Workers
               PROVE  /\ plan'[w].subject # None =>
                            Marked(versions', cand'[w]) \/ Marks(plan'[w].writes, cand'[w])
                      /\ known'[w] # None => Marked(versions', known'[w].hash)
  BY DEF PlansMark, KnownMark
<1>3. /\ plan[w].subject # None =>
            Marked(versions', cand[w]) \/ Marks(plan[w].writes, cand[w])
      /\ known[w] # None => Marked(versions', known[w].hash)
  BY <1>1, MarkedGrows DEF MInv, PlansMark, KnownMark
<1>4. CASE cand'[w] = cand[w] /\ known'[w] = known[w] /\ plan'[w] = plan[w]
  BY <1>3, <1>4
<1>5. CASE known'[w] = None /\ plan'[w] = NoPlan
  BY <1>5 DEF NoPlan
<1>6. CASE \E c \in Candidates : Deliver(w, c)
  <2>1. known[w] = None /\ plan[w].subject = None /\ UNCHANGED <<known, plan>>
    BY <1>1, <1>6 DEF RInv, PhasesHold, Deliver
  <2> QED
    BY <2>1
<1>7. CASE ReadPointer(w)
  <2>1. /\ known'[w] = pointers[RecordOf[cand[w]]] /\ UNCHANGED <<plan, cand>>
        /\ RecordOf[cand[w]] \in Records
    BY <1>1, <1>7, TypesAssumption
       DEF ReadPointer, IInv, WorkerInv, WorkerTypeOK
  <2> QED
    BY <1>1, <1>3, <2>1, MarkedGrows DEF MInv, PointersMark
<1>8. CASE ResolveKnown(w) \/ ResolveUnknown(w)
  BY <1>1, <1>3, <1>8, DecisionsMark, MarkedGrows
<1>9. CASE WriteStep(w)
  <2> DEFINE q == plan[w].writes
  <2>1. /\ q \in Seq(GoodSteps) /\ q # <<>> /\ Head(q) \in GoodSteps /\ Transact(Head(q))
        /\ plan'[w].writes = Tail(q) /\ plan'[w].subject = plan[w].subject
        /\ cand'[w] = cand[w] /\ known'[w] = known[w]
    BY <1>1, <1>9, NextWriteGood DEF WriteStep, GoodPlans, IInv
  <2> HIDE DEF q
  <2>2. /\ Head(q).id \in EventIds /\ Head(q).event.version \in 1..MaxVersion
        /\ versions'[Head(q).id][Head(q).event.version] = Head(q).event
        /\ Head(q).event # None
    BY <1>1, <2>1, TransactAppends, GoodStepParts DEF IInv, StoreInv
  <2>3. ASSUME Marks(q, cand[w]) PROVE Marked(versions', cand[w]) \/ Marks(Tail(q), cand[w])
    <3>1. PICK i \in 1..Len(q) : q[i].event.sources[RecordOf[cand[w]]] >= StampOf[cand[w]]
      BY <2>3 DEF Marks
    <3>2. CASE i = 1
      BY <2>1, <2>2, <3>1, <3>2 DEF Marked
    <3>3. CASE i # 1
      <4>1. i - 1 \in 1..Len(Tail(q)) /\ Tail(q)[i - 1] = q[i]
        BY <2>1, <3>3
      <4> QED
        BY <3>1, <4>1 DEF Marks
    <3> QED
      BY <3>2, <3>3
  <2> QED
    BY <1>3, <2>1, <2>3 DEF q
<1> QED
  BY <1>1, <1>4, <1>5, <1>6, <1>7, <1>8, <1>9, HandsMove

\* Only one action moves a pointer.
LEMMA OnlyMovesPoint ==
    ASSUME [Next]_vars
    PROVE  UNCHANGED pointers \/ \E w \in Workers : MovePointer(w)
<1>1. ASSUME NEW w \in Workers, (\E c \in Candidates : Deliver(w, c)) \/ Die(w)
      PROVE  UNCHANGED pointers
  BY <1>1 DEF Deliver, Die, storeVars
<1>2. ASSUME NEW w \in Workers, Resolver(w) PROVE UNCHANGED pointers \/ MovePointer(w)
  <2>1. CASE ReadPointer(w) \/ ResolveUnchanged(w) \/ ArmTimers(w)
    BY <2>1 DEF ReadPointer, ResolveUnchanged, ArmTimers, storeVars
  <2>2. CASE ResolveKnown(w)
    BY <2>2 DEF ResolveKnown, Decide, storeVars
  <2>3. CASE ResolveUnknown(w)
    BY <2>3 DEF ResolveUnknown, Decide, storeVars
  <2>4. CASE WriteStep(w) \/ WriteReviews(w)
    BY <2>4 DEF WriteStep, Transact, WriteReviews, PutReview, storeVars
  <2>5. CASE WriteRefused(w) \/ WriteCancelled(w)
    BY <2>5 DEF WriteRefused, WriteCancelled, AlreadyWritten, Conflict, storeVars
  <2> QED
    BY <1>2, <2>1, <2>2, <2>3, <2>4, <2>5 DEF Resolver
<1>3. ASSUME NEW e \in EventIds, Timer(e) PROVE UNCHANGED pointers
  BY <1>3 DEF Timer, TickExpires, TickEnds, TickWrites, TickSuperseded, Transact, storeVars
<1>4. CASE UNCHANGED vars
  BY <1>4 DEF vars, storeVars
<1> QED
  BY <1>1, <1>2, <1>3, <1>4 DEF Next

\* An invocation that has written its plan has marked its report.
LEMMA WrittenIsMarked ==
    ASSUME MInv, NEW w \in Workers, pc[w] = "point"
    PROVE  cand[w] \in Candidates /\ Marked(versions, cand[w])
<1>1. /\ cand[w] \in Candidates /\ plan[w].subject \in EventIds /\ plan[w].writes = <<>>
  BY DEF MInv, PInv, RInv, IInv, WorkerInv, WorkerTypeOK, PhasesHold
<1>2. ~Marks(plan[w].writes, cand[w])
  BY <1>1 DEF Marks
<1> QED
  BY <1>1, <1>2, NoneAssumption DEF MInv, PlansMark

\* A pointer is moved to a report whose plan has been written.
LEMMA PointersMarkNext ==
    ASSUME MInv, [Next]_vars
    PROVE  PointersMark'
<1>1. /\ PInv /\ RInv /\ IInv /\ Grows(versions, versions')
      /\ pointers \in [Records -> Pointer \cup {None}]
  BY NextGrows DEF MInv, PInv, RInv, IInv, StoreInv, StoreTypeOK
<1>2. \A r \in Records : pointers[r] # None => Marked(versions', pointers[r].hash)
  BY <1>1, MarkedGrows DEF MInv, PointersMark
<1>3. ASSUME NEW w \in Workers, MovePointer(w) PROVE PointersMark'
  <2>1. Marked(versions', cand[w]) /\ cand[w] \in Candidates
    BY <1>1, <1>3, WrittenIsMarked, MarkedGrows DEF MovePointer
  <2>2. pointers' = [pointers EXCEPT ![RecordOf[cand[w]]] =
                           [id |-> plan[w].subject, hash |-> cand[w]]]
    BY <1>3 DEF MovePointer, PutPointer
  <2>3. ASSUME NEW r \in Records, pointers'[r] # None PROVE Marked(versions', pointers'[r].hash)
    BY <1>1, <1>2, <2>1, <2>2, <2>3
  <2> QED
    BY <2>3 DEF PointersMark
<1>4. CASE UNCHANGED pointers
  BY <1>2, <1>4 DEF PointersMark
<1> QED
  BY <1>1, <1>3, <1>4, OnlyMovesPoint

\* The invariant holds at the start and is inductive.
LEMMA MInvInductive == (Init => MInv) /\ (MInv /\ [Next]_vars => MInv')
<1>1. ASSUME Init PROVE MInv
  <2>1. PlansMark /\ PointersMark /\ KnownMark
    BY <1>1 DEF Init, StoreInit, NoPlan, PlansMark, PointersMark, KnownMark
  <2> QED
    BY <1>1, <2>1, PInvInductive DEF MInv
<1>2. ASSUME MInv, [Next]_vars PROVE MInv'
  BY <1>2, PInvInductive, HandsMarkNext, PointersMarkNext DEF MInv
<1> QED
  BY <1>1, <1>2

\* Whatever a pointer says was handled, and whatever an invocation has decided, is stored
\* or about to be, in either store.
THEOREM PointersAreMarked == Spec => []MInv
BY MInvInductive, PTL DEF Spec

(***************************************************************************)
(* What an answer of `done` is worth, in either store.                     *)
(***************************************************************************)

\* A mark is on a version the event has.
LEMMA MarkedIsStored ==
    ASSUME IInv, NEW c, Marked(versions, c)
    PROVE  IsStored(c)
<1>1. PICK e \in EventIds, n \in 1..MaxVersion :
         versions[e][n] # None /\ versions[e][n].sources[RecordOf[c]] >= StampOf[c]
  BY DEF Marked
<1>2. StoreTypeOK /\ HistoryHasNoHoles /\ n \in Nat /\ n >= 1
  BY TypesAssumption DEF IInv, StoreInv
<1>3. n <= Height(e)
  BY <1>1, <1>2 DEF HistoryHasNoHoles
<1>4. Height(e) \in Nat
  BY <1>2 DEF StoreTypeOK, Height, Event
<1>5. n \in 1..Height(e)
  BY <1>2, <1>3, <1>4
<1> QED
  BY <1>1, <1>5 DEF IsStored

\* A step that was decided on a stored version is refused only if its own version is stored:
\* each of the three conditions of the transaction comes to that.
LEMMA RefusedIsOvertaken ==
    ASSUME IInv, NEW s \in GoodSteps, Based(versions, s), ~Admits(s)
    PROVE  versions[s.id][s.event.version] # None
<1> DEFINE id == s.id
           v == s.event.version
<1>1. /\ id \in EventIds /\ v \in 1..MaxVersion /\ v \in Nat
      /\ s.audit.sequence = v /\ (s.creating <=> v = 1)
  BY GoodStepParts
<1>2. /\ \A n \in 1..MaxVersion : /\ versions[id][n] # None => n <= Height(id)
                                  /\ audit[id][n] # None => n <= Height(id)
                                  /\ n <= Height(id) => versions[id][n] # None
      /\ current[id] # None => current[id] \in Event
  BY <1>1 DEF IInv, StoreInv, StoreTypeOK, HistoryHasNoHoles
<1>3. Height(id) \in Nat /\ (current[id] = None => Height(id) = 0)
      /\ (current[id] # None => Height(id) = current[id].version /\ Height(id) >= 1)
  BY <1>2, TypesAssumption DEF Height, Event
<1> SUFFICES versions[id][v] # None
  OBVIOUS
<1> HIDE DEF id, v
<1>4. \/ versions[id][v] # None
      \/ audit[id][v] # None
      \/ s.creating /\ current[id] # None
      \/ ~s.creating /\ (current[id] = None \/ current[id].version # v - 1)
  BY <1>1 DEF Admits, id, v
<1>5. CASE versions[id][v] # None \/ audit[id][v] # None
  BY <1>1, <1>2, <1>5
<1>6. CASE s.creating /\ current[id] # None
  <2>1. v <= Height(id)
    BY <1>1, <1>3, <1>6
  <2> QED
    BY <1>1, <1>2, <2>1
<1>7. CASE ~s.creating /\ (current[id] = None \/ current[id].version # v - 1)
  <2>1. versions[id][v - 1] # None
    BY <1>7 DEF Based, id, v
  <2>2. v - 1 \in 1..MaxVersion
    BY <1>1, <1>7, TypesAssumption
  <2>3. v - 1 <= Height(id)
    BY <1>2, <2>1, <2>2
  <2>4. v <= Height(id)
    BY <1>1, <1>3, <1>7, <2>2, <2>3
  <2> QED
    BY <1>1, <1>2, <2>4
<1> QED
  BY <1>4, <1>5, <1>6, <1>7

\* Only three calls answer `done`.
LEMMA WhoAnswers ==
    ASSUME [Next]_vars
    PROVE  \/ UNCHANGED handled
           \/ \E w \in Workers :
                 ResolveUnchanged(w) \/ MovePointer(w) \/ (WriteRefused(w) /\ AlreadyWritten(w))
<1>1. ASSUME NEW w \in Workers, Resolver(w), ~ResolveUnchanged(w), ~MovePointer(w),
             ~(WriteRefused(w) /\ AlreadyWritten(w))
      PROVE  UNCHANGED handled
  <2>1. CASE ReadPointer(w) \/ WriteStep(w) \/ WriteReviews(w) \/ ArmTimers(w)
    BY <2>1 DEF ReadPointer, WriteStep, WriteReviews, ArmTimers
  <2>2. CASE ResolveKnown(w)
    BY <2>2 DEF ResolveKnown, Decide
  <2>3. CASE ResolveUnknown(w)
    BY <2>3 DEF ResolveUnknown, Decide
  <2>4. CASE WriteRefused(w) \/ WriteCancelled(w)
    BY <1>1, <2>4 DEF WriteRefused, WriteCancelled, Conflict
  <2> QED
    BY <1>1, <2>1, <2>2, <2>3, <2>4 DEF Resolver
<1>2. ASSUME NEW w \in Workers, (\E c \in Candidates : Deliver(w, c)) \/ Die(w)
      PROVE  UNCHANGED handled
  BY <1>2 DEF Deliver, Die
<1>3. ASSUME NEW e \in EventIds, Timer(e) PROVE UNCHANGED handled
  BY <1>3 DEF Timer, TickExpires, TickEnds, TickWrites, TickSuperseded
<1>4. CASE UNCHANGED vars
  BY <1>4 DEF vars
<1> QED
  BY <1>1, <1>2, <1>3, <1>4 DEF Next

\* Each of the three has its reason.
LEMMA AnswersHaveReasons ==
    ASSUME MInv, HInv, [Next]_vars, NEW c \in Candidates, handled'[c] > handled[c]
    PROVE  IsStored(c)' \/ \E w \in Workers : cand[w] = c /\ Overtaken(w)
<1>1. /\ IInv /\ Grows(versions, versions') /\ handled \in [Candidates -> Nat]
  BY NextGrows DEF HInv, IInv, CountInv
<1>2. IInv'
  BY <1>1, NextInv
<1>3. ~UNCHANGED handled
  BY <1>1
<1>4. ASSUME NEW w \in Workers, Answer(w) PROVE cand[w] = c
  BY <1>1, <1>4 DEF Answer
<1>5. ASSUME Marked(versions, c) PROVE IsStored(c)'
  <2>1. Marked(versions', c)
    BY <1>1, <1>5, MarkedGrows
  <2>2. (IInv /\ Marked(versions, c) => IsStored(c))'
    BY MarkedIsStored, PTL
  <2>3. Marked(versions, c)'
    BY <2>1 DEF Marked
  <2> QED
    BY <1>2, <2>2, <2>3
<1>6. ASSUME NEW w \in Workers, ResolveUnchanged(w) PROVE IsStored(c)'
  <2>1. known[w] # None /\ known[w].hash = cand[w] /\ cand[w] = c
    BY <1>4, <1>6 DEF ResolveUnchanged, IsKnown
  <2> QED
    BY <1>5, <2>1 DEF MInv, KnownMark
<1>7. ASSUME NEW w \in Workers, MovePointer(w) PROVE IsStored(c)'
  <2>1. pc[w] = "point" /\ cand[w] = c
    BY <1>4, <1>7 DEF MovePointer
  <2> QED
    BY <1>5, <2>1, WrittenIsMarked
<1>8. ASSUME NEW w \in Workers, WriteRefused(w), AlreadyWritten(w)
      PROVE  cand[w] = c /\ Overtaken(w)
  <2> DEFINE q == plan[w].writes
  <2>1. cand[w] = c
    BY <1>4, <1>8 DEF AlreadyWritten
  <2>2. pc[w] = "write" /\ q # <<>> /\ ~Admits(Head(q))
    BY <1>8 DEF WriteRefused
  <2>3. q \in Seq(GoodSteps) /\ Decided(versions, q)
    BY <1>1 DEF IInv, WorkerInv, GoodPlans, HInv, PlanInv
  <2> HIDE DEF q
  <2>4. 1 \in 1..Len(q) /\ q[1] = Head(q) /\ Head(q) \in GoodSteps
    BY <2>2, <2>3
  <2>5. Based(versions, Head(q))
    BY <2>3, <2>4 DEF Decided
  <2>6. versions[Head(q).id][Head(q).event.version] # None
    BY <1>1, <2>2, <2>4, <2>5, RefusedIsOvertaken
  <2> QED
    BY <2>1, <2>2, <2>6 DEF Overtaken, q
<1> QED
  BY <1>3, <1>6, <1>7, <1>8, WhoAnswers

\* However many invocations race, die or are given the same report, and whichever store
\* refuses them, an answer of `done` means that the report or a later one of its record is
\* stored, or that another writer has stored the very version the invocation was to write.
THEOREM DoneHasItsReason == Spec => DoneIsStoredOrOvertaken
<1>1. MInv /\ HInv /\ [Next]_vars =>
         [\A c \in Candidates : handled'[c] > handled[c] =>
             \/ IsStored(c)'
             \/ \E w \in Workers : cand[w] = c /\ Overtaken(w)]_vars
  BY AnswersHaveReasons
<1> QED
  BY <1>1, PointersAreMarked, PlansAreBased, PTL DEF Spec, DoneIsStoredOrOvertaken
================================================================================
