---------------------------- MODULE EventHub_proofs ----------------------------
(***************************************************************************)
(* Theorems about EventHub, for any number of workers, events, records,    *)
(* candidates and deliveries, for both stores, with and without crashes:   *)
(* 1. types and the numbering of versions and audit records (IInv);        *)
(* 2. legal histories, and the abstract EventLog (HInv);                   *)
(* 3. references, their owners and merged events (RInv, KInv).             *)
(***************************************************************************)
EXTENDS EventHub, SequenceTheorems, TLAPS

(***************************************************************************)
(* Part 1.  The table.  The inductive invariant adds to TypeOK and         *)
(* HistoryHasNoHoles what they rest on: every step that anybody still      *)
(* means to write is well formed, so that the conditions of one            *)
(* transaction are enough to keep the two numberings in step.              *)
(***************************************************************************)

\* A step whose audit record explains the version it stores, and which creates exactly
\* when it stores version 1.
GoodSteps ==
    {s \in Step : /\ s.audit.sequence = s.event.version
                  /\ s.audit.to = s.event.state
                  /\ s.creating <=> s.event.version = 1}

GoodPlans == [writes : Seq(GoodSteps), reviews : SUBSET EventIds, arm : SUBSET EventIds,
              subject : EventIds \cup {None}]

StoreInv == StoreTypeOK /\ HistoryHasNoHoles

WorkerInv == WorkerTypeOK /\ plan \in [Workers -> GoodPlans]

TimerInv == TimerTypeOK /\ \A e \in EventIds : timer[e] = "writing" => tick[e] \in GoodSteps

CountInv ==
    /\ minted \subseteq EventIds
    /\ budget \in 0..MaxDeliveries
    /\ handled \in [Candidates -> Nat]

IInv == StoreInv /\ WorkerInv /\ TimerInv /\ CountInv

(***************************************************************************)
(* The policy returns well-formed steps.                                   *)
(***************************************************************************)

\* Revising an event that has room gives the event with the next version.
LEMMA ReviseType ==
    ASSUME NEW event \in Event, event.version < MaxVersion, NEW state \in LifecycleStates
    PROVE  /\ Revise(event, state) \in Event
           /\ Revise(event, state).version = event.version + 1
           /\ Revise(event, state).state = state
<1>1. event.version \in 1..MaxVersion /\ event.version + 1 \in 1..MaxVersion
  BY TypesAssumption DEF Event
<1> QED
  BY <1>1 DEF Revise, Event

\* A step that stores any version but the first is well formed.
LEMMA StepToGood ==
    ASSUME NEW id \in EventIds, NEW event \in Event, event.version # 1,
           NEW from \in LifecycleStates \cup {"none"}, NEW trigger \in Triggers
    PROVE  StepTo(id, event, from, trigger) \in GoodSteps
BY TypesAssumption DEF StepTo, GoodSteps, Step, Event, AuditRecord

\* Moving an event along an edge is a well-formed step to the next version.
LEMMA AdvanceGood ==
    ASSUME NEW id \in EventIds, NEW event \in Event, event.version < MaxVersion,
           NEW to \in LifecycleStates, NEW trigger \in Triggers
    PROVE  /\ Advance(id, event, to, trigger) \in GoodSteps
           /\ Advance(id, event, to, trigger).event = Revise(event, to)
<1>1. /\ Revise(event, to) \in Event
      /\ Revise(event, to).version = event.version + 1
  BY ReviseType
<1>2. Revise(event, to).version # 1 /\ event.state \in LifecycleStates
  BY <1>1, TypesAssumption DEF Event
<1>3. StepTo(id, Revise(event, to), event.state, trigger) \in GoodSteps
  BY <1>1, <1>2, StepToGood
<1> QED
  BY <1>3 DEF Advance, StepTo

\* A candidate's first version and the step that creates it.
LEMMA FirstStepGood ==
    ASSUME NEW id \in EventIds, NEW c \in Candidates
    PROVE  /\ EventFromCandidate(c) \in Event
           /\ EventFromCandidate(c).version = 1
           /\ FirstStep(id, c) \in GoodSteps
           /\ FirstStep(id, c).event = EventFromCandidate(c)
<1>1. EventFromCandidate(c) \in Event /\ EventFromCandidate(c).version = 1
  BY TypesAssumption DEF EventFromCandidate, Event, LifecycleStates, NotHeld
<1>2. "source_update" \in Triggers
  BY DEF Triggers
<1> QED
  BY <1>1, <1>2, TypesAssumption DEF FirstStep, StepTo, GoodSteps, Step, AuditRecord, Event

\* Reported to validated to active, or to cleared: one or two well-formed steps.
LEMMA PromoteGood ==
    ASSUME NEW id \in EventIds, NEW event \in Event, event.version + 2 <= MaxVersion,
           NEW valid \in BOOLEAN, NEW due \in BOOLEAN
    PROVE  Promote(id, event, valid, due) \in Seq(GoodSteps)
<1> DEFINE validated == Advance(id, event, "validated", "validation_pass")
<1> DEFINE cleared == Advance(id, event, "cleared", "validation_fail")
<1>0. event.version < MaxVersion
  BY TypesAssumption DEF Event
<1>a. "validation_pass" \in Triggers /\ "validation_fail" \in Triggers
      /\ "source_update" \in Triggers
  BY DEF Triggers
<1>b. "validated" \in LifecycleStates /\ "cleared" \in LifecycleStates
      /\ "active" \in LifecycleStates
  BY DEF LifecycleStates
<1>1. validated \in GoodSteps /\ validated.event = Revise(event, "validated")
  BY <1>0, <1>a, <1>b, AdvanceGood
<1>2. cleared \in GoodSteps
  BY <1>0, <1>a, <1>b, AdvanceGood
<1>3. validated.event \in Event /\ validated.event.version < MaxVersion
  <2>1. /\ Revise(event, "validated") \in Event
        /\ Revise(event, "validated").version = event.version + 1
    BY <1>0, <1>b, ReviseType
  <2> QED
    BY <2>1, <1>1, TypesAssumption DEF Event
<1>4. Advance(id, validated.event, "active", "source_update") \in GoodSteps
  BY <1>3, <1>a, <1>b, AdvanceGood
<1> HIDE DEF validated, cleared
<1>5. CASE ~valid
  <2>1. Promote(id, event, valid, due) = <<cleared>>
    BY <1>5 DEF Promote, cleared
  <2> QED
    BY <2>1, <1>2
<1>6. CASE valid /\ ~due
  <2>1. Promote(id, event, valid, due) = <<validated>>
    BY <1>6 DEF Promote, validated
  <2> QED
    BY <2>1, <1>1
<1>7. CASE valid /\ due
  <2>1. Promote(id, event, valid, due)
           = <<validated, Advance(id, validated.event, "active", "source_update")>>
    BY <1>7 DEF Promote, validated
  <2> QED
    BY <2>1, <1>1, <1>4
<1> QED
  BY <1>5, <1>6, <1>7

\* A new event's plan: the first step and the walk after it.
LEMMA ResolveNewGood ==
    ASSUME NEW id \in EventIds, NEW c \in Candidates, NEW ambiguous \in SUBSET EventIds,
           NEW valid \in BOOLEAN, NEW due \in BOOLEAN
    PROVE  /\ ResolveNew(id, c, ambiguous, valid, due) \in GoodPlans
           /\ ResolveNew(id, c, ambiguous, valid, due).subject = id
<1>1. FirstStep(id, c) \in GoodSteps
  BY FirstStepGood
<1>2. Promote(id, EventFromCandidate(c), valid, due) \in Seq(GoodSteps)
  <2>1. EventFromCandidate(c) \in Event /\ EventFromCandidate(c).version = 1
    BY FirstStepGood
  <2> QED
    BY <2>1, PromoteGood, TypesAssumption
<1>3. <<FirstStep(id, c)>> \o Promote(id, EventFromCandidate(c), valid, due)
         \in Seq(GoodSteps)
  BY <1>1, <1>2, ConcatProperties
<1> QED
  BY <1>3 DEF ResolveNew, GoodPlans

\* The child of a merge: three well-formed steps.
LEMMA ChildStepsGood ==
    ASSUME NEW child \in EventIds, NEW c \in Candidates, NEW parentId \in EventIds
    PROVE  ChildSteps(child, c, parentId) \in Seq(GoodSteps)
<1> DEFINE reported  == FirstStep(child, c)
           validated == Advance(child, reported.event, "validated", "validation_pass")
           merged    == Advance(child, validated.event, "merged", "dedup_decision")
           named     == [merged EXCEPT !.event.related = @ \cup {parentId}]
<1>a. "validation_pass" \in Triggers /\ "dedup_decision" \in Triggers
      /\ "validated" \in LifecycleStates /\ "merged" \in LifecycleStates
  BY DEF Triggers, LifecycleStates
<1>1. /\ reported \in GoodSteps
      /\ reported.event \in Event /\ reported.event.version = 1
  BY FirstStepGood
<1>2. /\ validated \in GoodSteps
      /\ validated.event \in Event /\ validated.event.version = 2
  BY <1>1, <1>a, AdvanceGood, ReviseType, TypesAssumption
<1>3. /\ merged \in GoodSteps
      /\ merged.event \in Event /\ merged.event.version = 3
  BY <1>2, <1>a, AdvanceGood, ReviseType, TypesAssumption
<1> HIDE DEF reported, validated, merged
<1>4. named \in GoodSteps
  <2>1. [merged.event EXCEPT !.related = @ \cup {parentId}] \in Event
    BY <1>3 DEF Event
  <2>2. /\ [merged.event EXCEPT !.related = @ \cup {parentId}].version = 3
        /\ [merged.event EXCEPT !.related = @ \cup {parentId}].state = merged.event.state
    BY <1>3 DEF Event
  <2> DEFINE renamed == [merged.event EXCEPT !.related = @ \cup {parentId}]
  <2>3. renamed \in Event /\ renamed.version = 3 /\ renamed.state = merged.event.state
    BY <2>1, <2>2
  <2>4. named = [merged EXCEPT !.event = renamed]
    BY <1>3 DEF GoodSteps, Step
  <2> HIDE DEF renamed
  <2> QED
    BY <2>3, <2>4, <1>3 DEF GoodSteps, Step
<1>5. ChildSteps(child, c, parentId) = <<reported, validated, named>>
  BY DEF ChildSteps, reported, validated, merged
<1> QED
  BY <1>1, <1>2, <1>4, <1>5

\* Absorbing a child is a well-formed step of the parent.
LEMMA AbsorbGood ==
    ASSUME NEW parentId \in EventIds, NEW parent \in Event, parent.version < MaxVersion,
           NEW child \in EventIds, NEW c \in Candidates
    PROVE  Absorb(parentId, parent, child, c) \in GoodSteps
<1> DEFINE revised  == Revise(parent, parent.state)
           absorbed == [revised EXCEPT !.sources[RecordOf[c]] = StampOf[c],
                                       !.related = @ \cup {child}]
<1>1. parent.state \in LifecycleStates /\ parent.version \in 1..MaxVersion
  BY DEF Event
<1>2. revised \in Event /\ revised.version = parent.version + 1
  BY <1>1, ReviseType
<1> HIDE DEF revised
<1>3. absorbed \in Event /\ absorbed.version = revised.version
  <2>1. RecordOf[c] \in Records /\ StampOf[c] \in Nat
    BY TypesAssumption
  <2> QED
    BY <2>1, <1>2 DEF Event
<1>4. absorbed.version # 1
  BY <1>1, <1>2, <1>3
<1>5. "dedup_decision" \in Triggers
  BY DEF Triggers
<1> HIDE DEF absorbed
<1>6. StepTo(parentId, absorbed, parent.state, "dedup_decision") \in GoodSteps
  BY <1>1, <1>3, <1>4, <1>5, StepToGood
<1> QED
  BY <1>6 DEF Absorb, absorbed, revised

\* A merge's plan.
LEMMA MergeGood ==
    ASSUME NEW child \in EventIds, NEW c \in Candidates, NEW parentId \in EventIds,
           NEW parent \in Event, parent.version < MaxVersion
    PROVE  /\ Merge(child, c, parentId, parent) \in GoodPlans
           /\ Merge(child, c, parentId, parent).subject = child
<1>1. ChildSteps(child, c, parentId) \in Seq(GoodSteps)
  BY ChildStepsGood
<1>2. <<Absorb(parentId, parent, child, c)>> \in Seq(GoodSteps)
  BY AbsorbGood
<1>3. ChildSteps(child, c, parentId) \o <<Absorb(parentId, parent, child, c)>>
         \in Seq(GoodSteps)
  BY <1>1, <1>2, ConcatProperties
<1> QED
  BY <1>3 DEF Merge, GoodPlans

\* A lapse is a well-formed step.
LEMMA ExpireGood ==
    ASSUME NEW id \in EventIds, NEW event \in Event, event.version < MaxVersion,
           OnLadder(event.state)
    PROVE  Expire(id, event) \in GoodSteps /\ Expire(id, event).id = id
<1>1. TTL_LADDER[event.state] \in LifecycleStates /\ "timer_ttl" \in Triggers
  BY DEF OnLadder, TTL_LADDER, LifecycleStates, Triggers
<1>2. Expire(id, event) \in GoodSteps
  BY <1>1, AdvanceGood DEF Expire
<1> QED
  BY <1>2 DEF Expire, Advance, StepTo

\* An update's plan, when the event has room for it.
LEMMA ResolveUpdateGood ==
    ASSUME NEW id \in EventIds, NEW event \in Event, NEW c \in Candidates,
           NEW due \in BOOLEAN,
           event.version + Len(ResolveUpdate(id, event, c, due).writes) <= MaxVersion
    PROVE  /\ ResolveUpdate(id, event, c, due) \in GoodPlans
           /\ ResolveUpdate(id, event, c, due).subject = id
<1> DEFINE noted   == StepTo(id, Revise(event, event.state), event.state, "source_update")
           updated == [noted EXCEPT !.event.sources = Superseded(event, c)]
           started == Advance(id, updated.event, "active", "source_update")
           starts  == event.state = "validated" /\ due
           writes  == IF Late(event, c) THEN <<noted>>
                      ELSE IF starts THEN <<updated, started>> ELSE <<updated>>
<1>a. /\ "source_update" \in Triggers /\ "active" \in LifecycleStates
      /\ event.state \in LifecycleStates /\ event.version \in 1..MaxVersion
  BY DEF Triggers, LifecycleStates, Event
<1>1. ResolveUpdate(id, event, c, due) = [NoPlan EXCEPT !.subject = id, !.writes = writes]
  BY DEF ResolveUpdate
<1>2. ResolveUpdate(id, event, c, due).writes = writes
  BY <1>1 DEF NoPlan
<1>3. event.version < MaxVersion /\ (~Late(event, c) /\ starts => event.version + 2 <= MaxVersion)
  <2>1. Len(writes) \in {1, 2} /\ (~Late(event, c) /\ starts => Len(writes) = 2)
    BY DEF writes
  <2>2. event.version + Len(writes) <= MaxVersion
    BY <1>2
  <2>3. MaxVersion \in Nat
    BY TypesAssumption
  <2> HIDE DEF writes
  <2>4. event.version < MaxVersion /\ (Len(writes) = 2 => event.version + 2 <= MaxVersion)
    <3>1. Len(writes) \in {1, 2} /\ event.version \in 1..MaxVersion
      BY <2>1, <1>a
    <3>2. \A n \in {1, 2}, v \in 1..MaxVersion :
             v + n <= MaxVersion => v < MaxVersion /\ (n = 2 => v + 2 <= MaxVersion)
      BY <2>3
    <3> QED
      BY <3>1, <3>2, <2>2, Zenon
  <2> HIDE DEF starts
  <2> QED
    BY <2>1, <2>4
<1>4. /\ Revise(event, event.state) \in Event
      /\ Revise(event, event.state).version = event.version + 1
  BY <1>3, <1>a, ReviseType
<1>5. noted \in GoodSteps /\ noted.event = Revise(event, event.state)
  <2>1. Revise(event, event.state).version # 1
    BY <1>4, <1>a
  <2> QED
    BY <2>1, <1>4, <1>a, StepToGood DEF StepTo
<1> HIDE DEF noted
<1>6. /\ updated \in GoodSteps
      /\ updated.event \in Event /\ updated.event.version = event.version + 1
  <2> DEFINE resourced == [noted.event EXCEPT !.sources = Superseded(event, c)]
  <2>1. Superseded(event, c) \in [Records -> Nat]
    BY TypesAssumption DEF Superseded, Event, NotHeld
  <2>2. /\ resourced \in Event /\ resourced.version = noted.event.version
        /\ resourced.state = noted.event.state
    BY <2>1, <1>4, <1>5 DEF Event
  <2>3. updated = [noted EXCEPT !.event = resourced]
    BY <1>5 DEF GoodSteps, Step
  <2> HIDE DEF resourced
  <2> QED
    BY <2>2, <2>3, <1>4, <1>5 DEF GoodSteps, Step
<1> HIDE DEF updated
<1>7. ~Late(event, c) /\ starts => started \in GoodSteps
  <2>1. ~Late(event, c) /\ starts => updated.event.version < MaxVersion
    BY <1>3, <1>6, <1>a, TypesAssumption
  <2> QED
    BY <2>1, <1>6, <1>a, AdvanceGood
<1> HIDE DEF started, starts
<1>8. writes \in Seq(GoodSteps)
  BY <1>5, <1>6, <1>7
<1> HIDE DEF writes
<1> QED
  BY <1>1, <1>8 DEF NoPlan, GoodPlans

(***************************************************************************)
(* One transaction.                                                        *)
(***************************************************************************)

\* What the parts of a well-formed step are.
LEMMA GoodStepParts ==
    ASSUME NEW s \in GoodSteps
    PROVE  /\ s.id \in EventIds /\ s.event \in Event /\ s.audit \in AuditRecord
           /\ s.event.version \in 1..MaxVersion /\ s.event.version \in Nat
           /\ s.audit.sequence = s.event.version /\ s.audit.to = s.event.state
           /\ s.creating <=> s.event.version = 1
           /\ s.event # None /\ s.audit # None
BY TypesAssumption, NoneAssumption DEF GoodSteps, Step, Event, AuditRecord

\* A transaction that is admitted stores the version after the last one.
LEMMA TransactExtends ==
    ASSUME StoreTypeOK, NEW s \in GoodSteps, Transact(s)
    PROVE  /\ Height(s.id) = s.event.version - 1
           /\ Height(s.id)' = s.event.version
           /\ \A e \in EventIds \ {s.id} : current'[e] = current[e] /\ Height(e)' = Height(e)
<1>1. s.id \in EventIds /\ s.event # None /\ s.event.version \in Nat
      /\ (s.creating <=> s.event.version = 1)
  BY GoodStepParts
<1>2. current' = [current EXCEPT ![s.id] = s.event]
  BY DEF Transact
<1>3. current \in [EventIds -> Event \cup {None}]
  BY DEF StoreTypeOK
<1>4. current'[s.id] = s.event /\ \A e \in EventIds \ {s.id} : current'[e] = current[e]
  BY <1>1, <1>2, <1>3
<1>5. Height(s.id) = s.event.version - 1
  <2>1. CASE s.creating
    <3>1. current[s.id] = None /\ s.event.version = 1
      BY <2>1, <1>1 DEF Transact, Admits
    <3> QED
      BY <3>1 DEF Height
  <2>2. CASE ~s.creating
    <3>1. current[s.id] # None /\ current[s.id].version = s.event.version - 1
      BY <2>2 DEF Transact, Admits
    <3> QED
      BY <3>1 DEF Height
  <2> QED
    BY <2>1, <2>2
<1> QED
  BY <1>1, <1>4, <1>5 DEF Height

\* The store keeps its types.
LEMMA TransactType ==
    ASSUME StoreTypeOK, NEW s \in GoodSteps, Transact(s)
    PROVE  StoreTypeOK'
<1>1. s.id \in EventIds /\ s.event \in Event /\ s.audit \in AuditRecord
      /\ s.event.version \in 1..MaxVersion /\ s.audit.sequence = s.event.version
  BY GoodStepParts
<1> QED
  BY <1>1 DEF StoreTypeOK, Transact

\* Nothing is overwritten: the slots the transaction fills were empty.
LEMMA TransactAppends ==
    ASSUME StoreTypeOK, NEW s \in GoodSteps, Transact(s)
    PROVE  /\ versions[s.id][s.event.version] = None
           /\ audit[s.id][s.event.version] = None
           /\ versions'[s.id][s.event.version] = s.event
           /\ audit'[s.id][s.event.version] = s.audit
           /\ \A e \in EventIds, n \in 1..MaxVersion :
                 e # s.id \/ n # s.event.version
                    => versions'[e][n] = versions[e][n] /\ audit'[e][n] = audit[e][n]
<1>1. s.id \in EventIds /\ s.event.version \in 1..MaxVersion
      /\ s.audit.sequence = s.event.version
  BY GoodStepParts
<1> QED
  BY <1>1 DEF StoreTypeOK, Transact, Admits

\* A transaction that commits leaves no hole.
LEMMA TransactKeepsHistory ==
    ASSUME StoreTypeOK, HistoryHasNoHoles, NEW s \in GoodSteps, Transact(s)
    PROVE  HistoryHasNoHoles'
<1> DEFINE v == s.event.version
<1>1. /\ s.id \in EventIds /\ s.event # None /\ s.audit # None
      /\ v \in 1..MaxVersion /\ s.audit.sequence = v /\ s.audit.to = s.event.state
  BY GoodStepParts
<1>2. /\ Height(s.id) = v - 1 /\ Height(s.id)' = v
      /\ \A e \in EventIds \ {s.id} : current'[e] = current[e] /\ Height(e)' = Height(e)
  BY TransactExtends
<1>3. /\ versions'[s.id][v] = s.event /\ audit'[s.id][v] = s.audit
      /\ \A e \in EventIds, n \in 1..MaxVersion :
            e # s.id \/ n # v => versions'[e][n] = versions[e][n] /\ audit'[e][n] = audit[e][n]
  BY TransactAppends
<1>4. current'[s.id] = s.event
  BY <1>1 DEF Transact, StoreTypeOK
<1>5. SUFFICES ASSUME NEW e \in EventIds
               PROVE  /\ \A n \in 1..MaxVersion :
                            /\ (versions'[e][n] # None) <=> (n <= Height(e)')
                            /\ (audit'[e][n] # None) <=> (n <= Height(e)')
                            /\ n <= Height(e)' => /\ versions'[e][n].version = n
                                                 /\ audit'[e][n].sequence = n
                                                 /\ audit'[e][n].to = versions'[e][n].state
                      /\ current'[e] # None => current'[e] = versions'[e][Height(e)']
  BY DEF HistoryHasNoHoles
<1>6. CASE e # s.id
  <2>1. current'[e] = current[e] /\ Height(e)' = Height(e)
    BY <1>2, <1>6
  <2>2. \A n \in 1..MaxVersion : versions'[e][n] = versions[e][n] /\ audit'[e][n] = audit[e][n]
    BY <1>3, <1>6
  <2>3. current[e] # None => Height(e) \in 1..MaxVersion
    BY DEF Height, StoreTypeOK, Event
  <2> QED
    BY <2>1, <2>2, <2>3 DEF HistoryHasNoHoles
<1>7. CASE e = s.id
  <2>1. ASSUME NEW n \in 1..MaxVersion
        PROVE  /\ (versions'[e][n] # None) <=> (n <= v)
               /\ (audit'[e][n] # None) <=> (n <= v)
               /\ n <= v => /\ versions'[e][n].version = n
                            /\ audit'[e][n].sequence = n
                            /\ audit'[e][n].to = versions'[e][n].state
    <3>1. CASE n = v
      BY <3>1, <1>1, <1>3, <1>7
    <3>2. CASE n # v
      <4>1. versions'[e][n] = versions[e][n] /\ audit'[e][n] = audit[e][n]
        BY <3>2, <1>3
      <4>2. n <= v <=> n <= Height(e)
        BY <3>2, <1>1, <1>2, <1>7
      <4> QED
        BY <4>1, <4>2 DEF HistoryHasNoHoles
    <3> QED
      BY <3>1, <3>2
  <2> QED
    BY <2>1, <1>2, <1>3, <1>4, <1>7
<1> QED
  BY <1>6, <1>7

\* A step that leaves the three items alone leaves the history alone.
LEMMA HistoryUntouched ==
    ASSUME HistoryHasNoHoles, UNCHANGED <<versions, audit, current>>
    PROVE  HistoryHasNoHoles'
BY DEF HistoryHasNoHoles, Height

(***************************************************************************)
(* The parts of the invariant, each under the steps that move it.          *)
(***************************************************************************)

\* Well-formed steps and plans are steps and plans.
LEMMA GoodIsTyped == GoodSteps \subseteq Step /\ GoodPlans \subseteq Plan
<1>1. GoodSteps \subseteq Step
  BY DEF GoodSteps
<1>2. ASSUME NEW q \in Seq(GoodSteps) PROVE q \in Seq(Step)
  BY <1>1
<1> QED
  BY <1>1, <1>2 DEF GoodPlans, Plan

\* A step that leaves the table alone keeps the store's part.
LEMMA StoreStutters ==
    ASSUME StoreInv, UNCHANGED storeVars
    PROVE  StoreInv'
BY DEF StoreInv, StoreTypeOK, HistoryHasNoHoles, Height, storeVars

\* So does a transaction that commits.
LEMMA StoreTransacts ==
    ASSUME StoreInv, NEW s \in GoodSteps, Transact(s)
    PROVE  StoreInv'
BY TransactType, TransactKeepsHistory DEF StoreInv

\* So does moving a record's pointer.
LEMMA StorePoints ==
    ASSUME StoreInv, NEW record \in Records, NEW id \in EventIds, NEW hash \in Candidates,
           PutPointer(record, id, hash)
    PROVE  StoreInv'
<1>1. StoreTypeOK'
  BY DEF StoreInv, StoreTypeOK, PutPointer, Pointer
<1>2. HistoryHasNoHoles'
  BY HistoryUntouched DEF StoreInv, PutPointer
<1> QED
  BY <1>1, <1>2 DEF StoreInv

\* So does queueing a review.
LEMMA StoreQueues ==
    ASSUME StoreInv, NEW id \in EventIds, NEW other \in EventIds, PutReview(id, other)
    PROVE  StoreInv'
<1>1. StoreTypeOK'
  BY DEF StoreInv, StoreTypeOK, PutReview
<1>2. HistoryHasNoHoles'
  BY HistoryUntouched DEF StoreInv, PutReview
<1> QED
  BY <1>1, <1>2 DEF StoreInv

\* A step that leaves the invocations alone keeps the workers' part.
LEMMA WorkersStutter ==
    ASSUME WorkerInv, UNCHANGED workerVars
    PROVE  WorkerInv'
BY DEF WorkerInv, WorkerTypeOK, workerVars

\* Having nothing to do is a well-formed plan.
LEMMA NoPlanGood == NoPlan \in GoodPlans /\ NoPlan \in Plan
<1>1. NoPlan \in GoodPlans
  BY DEF NoPlan, GoodPlans
<1> QED
  BY <1>1, GoodIsTyped

\* So does an invocation that ends.
LEMMA WorkerLeaves ==
    ASSUME WorkerInv, NEW w \in Workers, Leave(w)
    PROVE  WorkerInv'
BY NoPlanGood DEF WorkerInv, WorkerTypeOK, Leave, PCs, Attempts

\* So does an invocation that takes a well-formed plan.
LEMMA WorkerDecides ==
    ASSUME WorkerInv, NEW w \in Workers, pc[w] = "decide",
           NEW p \in GoodPlans, p.subject \in EventIds, Decide(w, p)
    PROVE  WorkerInv'
BY GoodIsTyped DEF WorkerInv, WorkerTypeOK, Decide, PCs

\* So does an invocation that decides again or gives up.
LEMMA WorkerConflicts ==
    ASSUME WorkerInv, NEW w \in Workers, pc[w] = "write", Conflict(w)
    PROVE  WorkerInv'
<1>1. CASE attempt[w] < Attempts
  <2>1. attempt[w] + 1 \in 1..Attempts
    BY <1>1 DEF WorkerInv, WorkerTypeOK, Attempts
  <2> QED
    BY <1>1, <2>1, NoPlanGood DEF WorkerInv, WorkerTypeOK, Conflict, PCs
<1>2. CASE ~(attempt[w] < Attempts)
  BY <1>2, WorkerLeaves DEF Conflict
<1> QED
  BY <1>1, <1>2

\* A step that leaves the timers alone keeps the timers' part.
LEMMA TimersStutter ==
    ASSUME TimerInv, UNCHANGED timerVars
    PROVE  TimerInv'
BY DEF TimerInv, TimerTypeOK, timerVars

\* So does a timer that waits again.
LEMMA TimerRearms ==
    ASSUME TimerInv, NEW e \in EventIds, Rearm(e)
    PROVE  TimerInv'
BY DEF TimerInv, TimerTypeOK, Rearm

\* A step that leaves the counts alone keeps them in range.
LEMMA CountsStutter ==
    ASSUME CountInv, UNCHANGED <<minted, budget, handled>>
    PROVE  CountInv'
BY DEF CountInv

(***************************************************************************)
(* Init and Next.                                                          *)
(***************************************************************************)

\* The invariant holds at the start.
LEMMA InitInv == Init => IInv
<1> SUFFICES ASSUME Init PROVE IInv
  OBVIOUS
<1>1. StoreInv
  <2>1. StoreTypeOK
    BY DEF Init, StoreInit, StoreTypeOK
  <2>2. HistoryHasNoHoles
    BY DEF Init, StoreInit, HistoryHasNoHoles, Height
  <2> QED
    BY <2>1, <2>2 DEF StoreInv
<1>2. WorkerInv
  BY NoPlanGood DEF Init, WorkerInv, WorkerTypeOK, PCs, Attempts
<1>3. TimerInv
  BY DEF Init, TimerInv, TimerTypeOK
<1>4. CountInv
  BY HubAssumption DEF Init, CountInv
<1> QED
  BY <1>1, <1>2, <1>3, <1>4 DEF IInv

\* A delivery only loads the candidate.
LEMMA DeliverInv ==
    ASSUME IInv, NEW w \in Workers, NEW c \in Candidates, Deliver(w, c)
    PROVE  IInv'
<1>1. StoreInv' /\ TimerInv'
  BY StoreStutters, TimersStutter DEF IInv, Deliver
<1>2. WorkerInv'
  BY DEF IInv, WorkerInv, WorkerTypeOK, Deliver, PCs
<1>3. CountInv'
  BY HubAssumption DEF IInv, CountInv, Deliver
<1> QED
  BY <1>1, <1>2, <1>3 DEF IInv

\* What is read of a pointer is a pointer or nothing.
LEMMA ReadPointerInv ==
    ASSUME IInv, NEW w \in Workers, ReadPointer(w)
    PROVE  IInv'
<1>1. StoreInv' /\ TimerInv' /\ CountInv'
  BY StoreStutters, TimersStutter, CountsStutter DEF IInv, ReadPointer
<1>2. WorkerInv'
  <2>1. cand[w] \in Candidates
    BY DEF IInv, WorkerInv, WorkerTypeOK, ReadPointer
  <2>2. pointers[RecordOf[cand[w]]] \in Pointer \cup {None}
    BY <2>1, TypesAssumption DEF IInv, StoreInv, StoreTypeOK
  <2> QED
    BY <2>1, <2>2 DEF IInv, WorkerInv, WorkerTypeOK, ReadPointer, PCs
<1> QED
  BY <1>1, <1>2 DEF IInv

\* An unchanged report only ends the invocation.
LEMMA ResolveUnchangedInv ==
    ASSUME IInv, NEW w \in Workers, ResolveUnchanged(w)
    PROVE  IInv'
<1>1. StoreInv' /\ TimerInv' /\ WorkerInv'
  BY StoreStutters, TimersStutter, WorkerLeaves DEF IInv, ResolveUnchanged
<1>2. CountInv'
  <2>1. cand[w] \in Candidates
    BY DEF IInv, WorkerInv, WorkerTypeOK, ResolveUnchanged
  <2> QED
    BY <2>1 DEF IInv, CountInv, ResolveUnchanged, Answer
<1> QED
  BY <1>1, <1>2 DEF IInv

\* An update is decided on the event that was just read, so its plan is well formed.
LEMMA ResolveKnownInv ==
    ASSUME IInv, NEW w \in Workers, ResolveKnown(w)
    PROVE  IInv'
<1> DEFINE id == known[w].id
<1>1. id \in EventIds /\ current[id] \in Event /\ cand[w] \in Candidates
  <2>1. known[w] \in Pointer
    BY DEF IInv, WorkerInv, WorkerTypeOK, ResolveKnown, IsKnown
  <2>2. id \in EventIds
    BY <2>1 DEF Pointer
  <2>3. current[id] \in Event
    BY <2>2 DEF IInv, StoreInv, StoreTypeOK, ResolveKnown, IsKnown
  <2> QED
    BY <2>2, <2>3 DEF IInv, WorkerInv, WorkerTypeOK, ResolveKnown
<1>2. PICK due \in BOOLEAN :
         LET p == ResolveUpdate(id, current[id], cand[w], due)
         IN  current[id].version + Len(p.writes) <= MaxVersion /\ Decide(w, p)
  BY DEF ResolveKnown
<1> DEFINE p == ResolveUpdate(id, current[id], cand[w], due)
<1>3. p \in GoodPlans /\ p.subject = id
  BY <1>1, <1>2, ResolveUpdateGood
<1>4. Decide(w, p)
  BY <1>2
<1> HIDE DEF p
<1>5. WorkerInv'
  BY <1>1, <1>3, <1>4, WorkerDecides DEF IInv, ResolveKnown
<1>6. StoreInv' /\ TimerInv' /\ CountInv'
  BY <1>4, StoreStutters, TimersStutter, CountsStutter DEF IInv, ResolveKnown, Decide
<1> QED
  BY <1>5, <1>6 DEF IInv

\* What the index returns for an event is a version of it.
LEMMA MergeChoicesType ==
    ASSUME IInv, NEW c \in Candidates, NEW p \in MergeChoices(c)
    PROVE  /\ p[1] \in EventIds /\ p[2] \in Event /\ p[2].version < MaxVersion
           /\ Matchable(p[2], c)
<1>1. PICK e \in EventIds : p \in {e} \X IndexViews(e)
  BY DEF MergeChoices
<1>2. PICK n \in 1..Height(e) : p[2] = versions[e][n]
  BY <1>1 DEF IndexViews
<1>3. Height(e) \in 0..MaxVersion
  BY TypesAssumption DEF IInv, StoreInv, StoreTypeOK, Height, Event
<1>4. n \in 1..MaxVersion /\ n <= Height(e)
  BY <1>2, <1>3, TypesAssumption
<1>5. versions[e][n] # None
  BY <1>4 DEF IInv, StoreInv, HistoryHasNoHoles
<1>6. versions[e][n] \in Event
  <2>1. versions[e] \in [1..MaxVersion -> Event \cup {None}]
    BY DEF IInv, StoreInv, StoreTypeOK
  <2> QED
    BY <2>1, <1>4, <1>5
<1>7. p[2].version < MaxVersion /\ Matchable(p[2], c)
  BY DEF MergeChoices
<1> QED
  BY <1>1, <1>2, <1>6, <1>7

\* Whatever version the index returned, a merge or a new event is well formed.
LEMMA ResolveUnknownInv ==
    ASSUME IInv, NEW w \in Workers, ResolveUnknown(w)
    PROVE  IInv'
<1>1. cand[w] \in Candidates /\ pc[w] = "decide"
  BY DEF IInv, WorkerInv, WorkerTypeOK, ResolveUnknown
<1>2. PICK id \in EventIds \ minted :
         /\ minted' = minted \cup {id}
         /\ \/ \E p \in MergeChoices(cand[w]) : Decide(w, Merge(id, cand[w], p[1], p[2]))
            \/ \E ambiguous \in SUBSET {p[1] : p \in MergeChoices(cand[w])},
                  valid, due \in BOOLEAN :
                  Decide(w, ResolveNew(id, cand[w], ambiguous, valid, due))
  BY DEF ResolveUnknown
<1>3. PICK q \in GoodPlans : q.subject = id /\ Decide(w, q)
  <2>1. CASE \E p \in MergeChoices(cand[w]) : Decide(w, Merge(id, cand[w], p[1], p[2]))
    <3>1. PICK p \in MergeChoices(cand[w]) : Decide(w, Merge(id, cand[w], p[1], p[2]))
      BY <2>1
    <3>2. p[1] \in EventIds /\ p[2] \in Event /\ p[2].version < MaxVersion
      BY <1>1, MergeChoicesType
    <3> QED
      BY <1>1, <3>1, <3>2, MergeGood
  <2>2. CASE \E ambiguous \in SUBSET {p[1] : p \in MergeChoices(cand[w])},
                valid, due \in BOOLEAN :
                Decide(w, ResolveNew(id, cand[w], ambiguous, valid, due))
    <3>1. {p[1] : p \in MergeChoices(cand[w])} \subseteq EventIds
      BY <1>1, MergeChoicesType
    <3>2. PICK ambiguous \in SUBSET {p[1] : p \in MergeChoices(cand[w])},
               valid \in BOOLEAN, due \in BOOLEAN :
               Decide(w, ResolveNew(id, cand[w], ambiguous, valid, due))
      BY <2>2
    <3>3. ambiguous \in SUBSET EventIds
      BY <3>1, <3>2
    <3> QED
      BY <1>1, <3>2, <3>3, ResolveNewGood
  <2> QED
    BY <1>2, <2>1, <2>2
<1>4. WorkerInv'
  BY <1>1, <1>3, WorkerDecides DEF IInv
<1>5. StoreInv' /\ TimerInv'
  BY <1>3, StoreStutters, TimersStutter DEF IInv, Decide
<1>6. CountInv'
  BY <1>2, <1>3 DEF IInv, CountInv, Decide
<1> QED
  BY <1>4, <1>5, <1>6 DEF IInv

\* What a worker writes next is a well-formed step.
LEMMA NextWriteGood ==
    ASSUME WorkerInv, NEW w \in Workers, plan[w].writes # <<>>
    PROVE  /\ Head(plan[w].writes) \in GoodSteps
           /\ Tail(plan[w].writes) \in Seq(GoodSteps)
           /\ plan[w] \in GoodPlans
<1>1. plan[w] \in GoodPlans
  BY DEF WorkerInv
<1>2. plan[w].writes \in Seq(GoodSteps)
  BY <1>1 DEF GoodPlans
<1> QED
  BY <1>1, <1>2

\* A committed write keeps the history and leaves the rest of the plan well formed.
LEMMA WriteStepInv ==
    ASSUME IInv, NEW w \in Workers, WriteStep(w)
    PROVE  IInv'
<1>1. /\ Head(plan[w].writes) \in GoodSteps
      /\ Tail(plan[w].writes) \in Seq(GoodSteps)
      /\ plan[w] \in GoodPlans
  BY NextWriteGood DEF IInv, WriteStep
<1>2. StoreInv'
  BY <1>1, StoreTransacts DEF IInv, WriteStep
<1>3. WorkerInv'
  <2> DEFINE rest == [plan[w] EXCEPT !.writes = Tail(@)]
  <2>1. rest \in GoodPlans /\ rest.subject = plan[w].subject
    BY <1>1 DEF GoodPlans
  <2>2. plan' = [plan EXCEPT ![w] = rest]
    BY DEF WriteStep
  <2> HIDE DEF rest
  <2> QED
    BY <2>1, <2>2, GoodIsTyped DEF IInv, WorkerInv, WorkerTypeOK, WriteStep
<1>4. TimerInv' /\ CountInv'
  BY TimersStutter, CountsStutter DEF IInv, WriteStep
<1> QED
  BY <1>2, <1>3, <1>4 DEF IInv

\* A refused write taken for a duplicate only ends the invocation.
LEMMA AlreadyWrittenInv ==
    ASSUME IInv, NEW w \in Workers, pc[w] # "idle", AlreadyWritten(w)
    PROVE  IInv'
<1>1. StoreInv' /\ TimerInv' /\ WorkerInv'
  BY StoreStutters, TimersStutter, WorkerLeaves DEF IInv, AlreadyWritten
<1>2. CountInv'
  <2>1. cand[w] \in Candidates
    BY DEF IInv, WorkerInv, WorkerTypeOK
  <2> QED
    BY <2>1 DEF IInv, CountInv, AlreadyWritten, Answer
<1> QED
  BY <1>1, <1>2 DEF IInv

\* A conflict drops the plan.
LEMMA ConflictInv ==
    ASSUME IInv, NEW w \in Workers, pc[w] = "write", Conflict(w)
    PROVE  IInv'
<1>1. WorkerInv'
  BY WorkerConflicts DEF IInv
<1>2. StoreInv' /\ TimerInv' /\ CountInv'
  BY StoreStutters, TimersStutter, CountsStutter DEF IInv, Conflict
<1> QED
  BY <1>1, <1>2 DEF IInv

\* The review items leave events alone.
LEMMA WriteReviewsInv ==
    ASSUME IInv, NEW w \in Workers, WriteReviews(w)
    PROVE  IInv'
<1>1. plan[w].subject \in EventIds /\ plan[w].reviews \in SUBSET EventIds
  BY DEF IInv, WorkerInv, WorkerTypeOK, WriteReviews, Plan
<1>2. StoreInv'
  <2>1. CASE UNCHANGED storeVars
    BY <2>1, StoreStutters DEF IInv
  <2>2. ASSUME NEW other \in plan[w].reviews, PutReview(plan[w].subject, other) PROVE StoreInv'
    BY <1>1, <2>2, StoreQueues DEF IInv
  <2> QED
    BY <2>1, <2>2 DEF WriteReviews
<1>3. WorkerInv'
  BY DEF IInv, WorkerInv, WorkerTypeOK, WriteReviews, PCs
<1>4. TimerInv' /\ CountInv'
  BY TimersStutter, CountsStutter DEF IInv, WriteReviews
<1> QED
  BY <1>2, <1>3, <1>4 DEF IInv

\* An armed timer waits; it has nothing to write yet.
LEMMA ArmTimersInv ==
    ASSUME IInv, NEW w \in Workers, ArmTimers(w)
    PROVE  IInv'
<1>1. StoreInv' /\ CountInv'
  BY StoreStutters, CountsStutter DEF IInv, ArmTimers
<1>2. WorkerInv'
  BY DEF IInv, WorkerInv, WorkerTypeOK, ArmTimers, PCs
<1>3. TimerInv'
  <2>1. PICK started : timer' = [e \in EventIds |->
            IF e \in started /\ timer[e] = "none" THEN "waiting" ELSE timer[e]]
    BY DEF ArmTimers
  <2> QED
    BY <2>1 DEF IInv, TimerInv, TimerTypeOK, ArmTimers
<1> QED
  BY <1>1, <1>2, <1>3 DEF IInv

\* The pointer names an event id, and the invocation ends.
LEMMA MovePointerInv ==
    ASSUME IInv, NEW w \in Workers, MovePointer(w)
    PROVE  IInv'
<1>1. plan[w].subject \in EventIds /\ cand[w] \in Candidates
  BY DEF IInv, WorkerInv, WorkerTypeOK, MovePointer
<1>2. RecordOf[cand[w]] \in Records
  BY <1>1, TypesAssumption
<1>3. StoreInv'
  BY <1>1, <1>2, StorePoints DEF IInv, MovePointer
<1>4. WorkerInv' /\ TimerInv'
  BY WorkerLeaves, TimersStutter DEF IInv, MovePointer
<1>5. CountInv'
  BY <1>1 DEF IInv, CountInv, MovePointer, Answer
<1> QED
  BY <1>3, <1>4, <1>5 DEF IInv

\* A dead invocation leaves its plan behind.
LEMMA DieInv ==
    ASSUME IInv, NEW w \in Workers, Die(w)
    PROVE  IInv'
<1>1. StoreInv' /\ WorkerInv' /\ TimerInv' /\ CountInv'
  BY StoreStutters, WorkerLeaves, TimersStutter, CountsStutter DEF IInv, Die
<1> QED
  BY <1>1 DEF IInv

\* A tick decides a well-formed step and writes it, drops it or ends.
LEMMA TimerStepInv ==
    ASSUME IInv, NEW e \in EventIds, Timer(e)
    PROVE  IInv'
<1>1. WorkerInv' /\ CountInv'
  BY WorkersStutter, CountsStutter
     DEF IInv, Timer, TickExpires, TickEnds, TickWrites, TickSuperseded
<1>2. CASE TickExpires(e)
  <2>1. current[e] \in Event
    BY <1>2 DEF IInv, StoreInv, StoreTypeOK, TickExpires
  <2>2. Expire(e, current[e]) \in GoodSteps /\ Expire(e, current[e]).id = e
    BY <1>2, <2>1, ExpireGood DEF TickExpires
  <2>3. TimerInv'
    BY <1>2, <2>2, GoodIsTyped DEF IInv, TimerInv, TimerTypeOK, TickExpires
  <2>4. StoreInv'
    BY <1>2, StoreStutters DEF IInv, TickExpires
  <2> QED
    BY <1>1, <2>3, <2>4 DEF IInv
<1>3. CASE TickEnds(e)
  <2>1. StoreInv'
    BY <1>3, StoreStutters DEF IInv, TickEnds
  <2>2. TimerInv'
    BY <1>3 DEF IInv, TimerInv, TimerTypeOK, TickEnds
  <2> QED
    BY <1>1, <2>1, <2>2 DEF IInv
<1>4. CASE TickWrites(e)
  <2>1. tick[e] \in GoodSteps
    BY <1>4 DEF IInv, TimerInv, TickWrites
  <2>2. StoreInv'
    BY <1>4, <2>1, StoreTransacts DEF IInv, TickWrites
  <2>3. TimerInv'
    BY <1>4, TimerRearms DEF IInv, TickWrites
  <2> QED
    BY <1>1, <2>2, <2>3 DEF IInv
<1>5. CASE TickSuperseded(e)
  <2>1. StoreInv' /\ TimerInv'
    BY <1>5, StoreStutters, TimerRearms DEF IInv, TickSuperseded
  <2> QED
    BY <1>1, <2>1 DEF IInv
<1> QED
  BY <1>2, <1>3, <1>4, <1>5 DEF Timer

\* The invariant is inductive.
LEMMA NextInv == IInv /\ [Next]_vars => IInv'
<1> SUFFICES ASSUME IInv, [Next]_vars PROVE IInv'
  OBVIOUS
<1>1. ASSUME NEW w \in Workers, NEW c \in Candidates, Deliver(w, c) PROVE IInv'
  BY <1>1, DeliverInv
<1>2. ASSUME NEW w \in Workers, Resolver(w) PROVE IInv'
  <2>1. CASE ReadPointer(w)
    BY <2>1, ReadPointerInv
  <2>2. CASE ResolveUnchanged(w)
    BY <2>2, ResolveUnchangedInv
  <2>3. CASE ResolveKnown(w)
    BY <2>3, ResolveKnownInv
  <2>4. CASE ResolveUnknown(w)
    BY <2>4, ResolveUnknownInv
  <2>5. CASE WriteStep(w)
    BY <2>5, WriteStepInv
  <2>6. CASE WriteRefused(w)
    BY <2>6, AlreadyWrittenInv, ConflictInv DEF WriteRefused
  <2>7. CASE WriteCancelled(w)
    BY <2>7, ConflictInv DEF WriteCancelled
  <2>8. CASE WriteReviews(w)
    BY <2>8, WriteReviewsInv
  <2>9. CASE ArmTimers(w)
    BY <2>9, ArmTimersInv
  <2>10. CASE MovePointer(w)
    BY <2>10, MovePointerInv
  <2> QED
    BY <1>2, <2>1, <2>2, <2>3, <2>4, <2>5, <2>6, <2>7, <2>8, <2>9, <2>10 DEF Resolver
<1>3. ASSUME NEW w \in Workers, Die(w) PROVE IInv'
  BY <1>3, DieInv
<1>4. ASSUME NEW e \in EventIds, Timer(e) PROVE IInv'
  BY <1>4, TimerStepInv
<1>5. CASE UNCHANGED vars
  <2>1. UNCHANGED storeVars /\ UNCHANGED workerVars /\ UNCHANGED timerVars
        /\ UNCHANGED <<minted, budget, handled>>
    BY <1>5 DEF vars
  <2> QED
    BY <2>1, StoreStutters, WorkersStutter, TimersStutter, CountsStutter DEF IInv
<1> QED
  BY <1>1, <1>2, <1>3, <1>4, <1>5 DEF Next

\* Only two actions write event items; every other step of the hub leaves them alone.
LEMMA OnlyWritersWrite ==
    ASSUME [Next]_vars
    PROVE  \/ UNCHANGED <<versions, audit, current>>
           \/ \E w \in Workers : WriteStep(w)
           \/ \E e \in EventIds : TickWrites(e)
<1>1. ASSUME NEW w \in Workers, NEW c \in Candidates, Deliver(w, c)
      PROVE  UNCHANGED <<versions, audit, current>>
  BY <1>1 DEF Deliver, storeVars
<1>2. ASSUME NEW w \in Workers, Resolver(w)
      PROVE  UNCHANGED <<versions, audit, current>> \/ WriteStep(w)
  <2>1. CASE ReadPointer(w) \/ ResolveUnchanged(w)
    BY <2>1 DEF ReadPointer, ResolveUnchanged, storeVars
  <2>2. CASE ResolveKnown(w)
    BY <2>2 DEF ResolveKnown, Decide, storeVars
  <2>3. CASE ResolveUnknown(w)
    BY <2>3 DEF ResolveUnknown, Decide, storeVars
  <2>4. CASE WriteRefused(w) \/ WriteCancelled(w)
    BY <2>4 DEF WriteRefused, WriteCancelled, AlreadyWritten, Conflict, storeVars
  <2>5. CASE WriteReviews(w) \/ ArmTimers(w) \/ MovePointer(w)
    BY <2>5 DEF WriteReviews, ArmTimers, MovePointer, PutReview, PutPointer, storeVars
  <2> QED
    BY <1>2, <2>1, <2>2, <2>3, <2>4, <2>5 DEF Resolver
<1>3. ASSUME NEW w \in Workers, Die(w)
      PROVE  UNCHANGED <<versions, audit, current>>
  BY <1>3 DEF Die, storeVars
<1>4. ASSUME NEW e \in EventIds, Timer(e)
      PROVE  UNCHANGED <<versions, audit, current>> \/ TickWrites(e)
  BY <1>4 DEF Timer, TickExpires, TickEnds, TickSuperseded, storeVars
<1>5. CASE UNCHANGED vars
  BY <1>5 DEF vars, storeVars
<1> QED
  BY <1>1, <1>2, <1>3, <1>4, <1>5 DEF Next

\* Every step of the hub leaves the event items alone or commits one well-formed
\* transaction.
LEMMA OneTransactionAtATime ==
    ASSUME IInv, [Next]_vars
    PROVE  \/ UNCHANGED <<versions, audit, current>>
           \/ \E s \in GoodSteps : Transact(s)
<1>1. ASSUME NEW w \in Workers, WriteStep(w)
      PROVE  \E s \in GoodSteps : Transact(s)
  <2>1. Head(plan[w].writes) \in GoodSteps
    BY <1>1, NextWriteGood DEF IInv, WriteStep
  <2> QED
    BY <1>1, <2>1 DEF WriteStep
<1>2. ASSUME NEW e \in EventIds, TickWrites(e)
      PROVE  \E s \in GoodSteps : Transact(s)
  <2>1. tick[e] \in GoodSteps
    BY <1>2 DEF IInv, TimerInv, TickWrites
  <2> QED
    BY <1>2, <2>1 DEF TickWrites
<1> QED
  BY <1>1, <1>2, OnlyWritersWrite

\* A step of the hub overwrites nothing and takes no event back to an earlier version.
LEMMA NextAppends ==
    ASSUME IInv, [Next]_vars, NEW e \in EventIds
    PROVE  /\ \A n \in 1..MaxVersion :
                 /\ versions[e][n] # None => versions'[e][n] = versions[e][n]
                 /\ audit[e][n] # None => audit'[e][n] = audit[e][n]
           /\ Height(e) <= Height(e)'
<1>1. Height(e) \in Nat
  BY DEF IInv, StoreInv, StoreTypeOK, Height, Event
<1>2. CASE UNCHANGED <<versions, audit, current>>
  <2>1. versions' = versions /\ audit' = audit /\ Height(e)' = Height(e)
    BY <1>2 DEF Height
  <2> QED
    BY <2>1, <1>1
<1>3. ASSUME NEW s \in GoodSteps, Transact(s)
      PROVE  /\ \A n \in 1..MaxVersion :
                   /\ versions[e][n] # None => versions'[e][n] = versions[e][n]
                   /\ audit[e][n] # None => audit'[e][n] = audit[e][n]
             /\ Height(e) <= Height(e)'
  <2>1. StoreTypeOK
    BY DEF IInv, StoreInv
  <2>2. /\ versions[s.id][s.event.version] = None
        /\ audit[s.id][s.event.version] = None
        /\ \A f \in EventIds, n \in 1..MaxVersion :
              f # s.id \/ n # s.event.version
                 => versions'[f][n] = versions[f][n] /\ audit'[f][n] = audit[f][n]
    BY <1>3, <2>1, TransactAppends
  <2>3. Height(e) <= Height(e)'
    <3>1. /\ Height(s.id) = s.event.version - 1
          /\ Height(s.id)' = s.event.version
          /\ e # s.id => Height(e)' = Height(e)
      BY <1>3, <2>1, TransactExtends
    <3>2. s.event.version \in Nat
      BY <1>3, GoodStepParts
    <3>3. CASE e = s.id
      <4>1. Height(e) = s.event.version - 1 /\ Height(e)' = s.event.version
        BY <3>1, <3>3
      <4> QED
        BY <4>1, <3>2
    <3> QED
      BY <3>1, <3>3, <1>1
  <2> QED
    BY <2>2, <2>3
<1> QED
  BY <1>2, <1>3, OneTransactionAtATime

(***************************************************************************)
(* Theorems                                                                *)
(***************************************************************************)

\* The inductive invariant holds of every behaviour of the hub.
THEOREM Inductive == Spec => []IInv
BY InitInv, NextInv, PTL DEF Spec

\* Types: every value in the store, in an invocation and in a timer stays of its type, and
\* an invocation past its policy decision always names the event its pointer will hold.
THEOREM TypeCorrect == Spec => []TypeOK
<1>1. IInv => TypeOK
  BY DEF IInv, StoreInv, WorkerInv, TimerInv, CountInv, TypeOK
<1> QED
  BY <1>1, Inductive, PTL

\* An event's versions and its audit records are numbered without a hole, in step with each
\* other, however many workers and timers race for the next number and wherever they die.
THEOREM NoHoles == Spec => []HistoryHasNoHoles
<1>1. IInv => HistoryHasNoHoles
  BY DEF IInv, StoreInv
<1> QED
  BY <1>1, Inductive, PTL

\* The store is append only: whoever writes, and whatever it races with, no version and no
\* audit record is ever replaced, and no event goes back to an earlier version.
THEOREM NothingIsRewritten == Spec => AppendOnly
<1>1. IInv /\ [Next]_vars =>
         [\A e \in EventIds :
            /\ \A n \in 1..MaxVersion :
                  /\ versions[e][n] # None => versions'[e][n] = versions[e][n]
                  /\ audit[e][n] # None => audit'[e][n] = audit[e][n]
            /\ Height(e) <= Height(e)']_storeVars
  BY NextAppends
<1> QED
  BY <1>1, Inductive, PTL DEF Spec, AppendOnly

(***************************************************************************)
(* Part 2.  Every history is legal, and the hub implements the abstract    *)
(* EventLog, for every value of the constants.                             *)
(*                                                                         *)
(* Writers decide on versions they read some calls earlier, and write a    *)
(* chain of versions one transaction at a time.  The invariant says what   *)
(* each pending step was decided on: a version that is stored, which no    *)
(* race can change any more, or the step before it in the same chain.      *)
(***************************************************************************)

\* An audit record that keeps the state or names an edge, with no operator's help.
LegalEdge(a) ==
    /\ a.trigger # "operator_override"
    /\ a.from = a.to \/ IsLegalTransition(a.from, a.to, a.trigger)

\* A step that opens a history with a report, or follows an edge.
LegalSteps ==
    {s \in GoodSteps : IF s.creating
                       THEN s.audit.from = "none" /\ s.audit.to = "reported"
                       ELSE LegalEdge(s.audit)}

\* No dated word of `event` is replaced by an older one in `later`.
NoOlder(event, later) ==
    \A r \in Records : Dated(event.sources[r]) /\ Dated(later.sources[r])
                          => event.sources[r] <= later.sources[r]

\* What was merged stays merged, and keeps the parents it names.
StaysMerged(event, later) ==
    event.state = "merged" => later.state = "merged" /\ event.related \subseteq later.related

\* Step s leaves the state of `event`, takes none of its words back and undoes no merge.
Succeeds(event, s) ==
    event.state = s.audit.from /\ NoOlder(event, s.event) /\ StaysMerged(event, s.event)

\* The version a step was decided on is among the stored versions vs.
Based(vs, s) ==
    s.creating \/ /\ vs[s.id][s.event.version - 1] # None
                  /\ Succeeds(vs[s.id][s.event.version - 1], s)

\* Step t was decided on what step s stores.
Chains(s, t) ==
    /\ t.id = s.id
    /\ t.event.version = s.event.version + 1
    /\ Succeeds(s.event, t)

\* A chain whose every step is legal and rests on a stored version or on the step before.
Decided(vs, q) ==
    \A i \in 1..Len(q) :
        /\ q[i] \in LegalSteps
        /\ Based(vs, q[i]) \/ (i > 1 /\ Chains(q[i - 1], q[i]))

PlanInv == \A w \in Workers : Decided(versions, plan[w].writes)

TickInv == \A e \in EventIds : timer[e] = "writing" =>
              tick[e] \in LegalSteps /\ Based(versions, tick[e])

HInv == IInv /\ PlanInv /\ TickInv /\ HistoryIsLegal

\* The stored versions us are the stored versions vs and perhaps more.
Grows(vs, us) ==
    \A e \in EventIds, n \in 1..MaxVersion : vs[e][n] # None => us[e][n] = vs[e][n]

\* The version `event` of id is stored in vs.
StoredIn(vs, id, event) == vs[id][event.version] # None /\ vs[id][event.version] = event

(***************************************************************************)
(* What was decided on stored versions stays decided.                      *)
(***************************************************************************)

\* A stored version is never replaced, so a step that rests on one goes on to.
LEMMA BasedGrows ==
    ASSUME NEW vs, NEW us, Grows(vs, us), NEW s \in GoodSteps, Based(vs, s)
    PROVE  Based(us, s)
<1>1. CASE s.creating
  BY <1>1 DEF Based
<1>2. CASE ~s.creating
  <2>1. s.id \in EventIds /\ s.event.version - 1 \in 1..MaxVersion
    BY <1>2, GoodStepParts, TypesAssumption
  <2> QED
    BY <1>2, <2>1 DEF Based, Grows
<1> QED
  BY <1>1, <1>2

\* So does a chain.
LEMMA DecidedGrows ==
    ASSUME NEW vs, NEW us, Grows(vs, us), NEW q, Decided(vs, q)
    PROVE  Decided(us, q)
<1>1. \A s \in LegalSteps : s \in GoodSteps
  BY DEF LegalSteps
<1>2. ASSUME NEW i \in 1..Len(q)
      PROVE  q[i] \in LegalSteps /\ (Based(us, q[i]) \/ (i > 1 /\ Chains(q[i - 1], q[i])))
  <2>1. q[i] \in LegalSteps /\ (Based(vs, q[i]) \/ (i > 1 /\ Chains(q[i - 1], q[i])))
    BY DEF Decided
  <2> QED
    BY <1>1, <2>1, BasedGrows
<1> QED
  BY <1>2 DEF Decided

\* Once the first step of a chain is stored, the rest is decided on it.
LEMMA DecidedTail ==
    ASSUME NEW vs, NEW us, Grows(vs, us), NEW q \in Seq(GoodSteps), q # <<>>,
           Decided(vs, q), us[Head(q).id][Head(q).event.version] = Head(q).event
    PROVE  Decided(us, Tail(q))
<1>1. Decided(us, q)
  BY DecidedGrows
<1>2. Len(Tail(q)) = Len(q) - 1 /\ Len(q) \in Nat \ {0}
      /\ \A i \in 1..Len(Tail(q)) : Tail(q)[i] = q[i + 1]
  OBVIOUS
<1>3. ASSUME NEW i \in 1..Len(Tail(q))
      PROVE  /\ Tail(q)[i] \in LegalSteps
             /\ Based(us, Tail(q)[i]) \/ (i > 1 /\ Chains(Tail(q)[i - 1], Tail(q)[i]))
  <2>1. i + 1 \in 1..Len(q) /\ Tail(q)[i] = q[i + 1]
    BY <1>2
  <2>2. q[i + 1] \in LegalSteps /\ (Based(us, q[i + 1]) \/ Chains(q[i], q[i + 1]))
    BY <1>1, <2>1 DEF Decided
  <2>3. CASE i = 1
    <3>1. q[1] = Head(q) /\ q[1] \in GoodSteps
      OBVIOUS
    <3>2. q[1].event # None /\ q[1].event.version \in Nat
      BY <3>1, GoodStepParts
    <3>3. us[q[1].id][q[1].event.version] = q[1].event
      BY <3>1
    <3>4. ASSUME Chains(q[1], q[2]) PROVE Based(us, q[2])
      <4>1. q[2].event.version - 1 = q[1].event.version
        BY <3>2, <3>4 DEF Chains
      <4> QED
        BY <3>2, <3>3, <3>4, <4>1 DEF Chains, Based
    <3> QED
      BY <2>1, <2>2, <2>3, <3>4
  <2>4. CASE i # 1
    <3>1. i - 1 \in 1..Len(Tail(q)) /\ Tail(q)[i - 1] = q[i] /\ i > 1
      BY <1>2, <2>4
    <3> QED
      BY <2>1, <2>2, <3>1
  <2> QED
    BY <2>3, <2>4
<1> QED
  BY <1>3 DEF Decided

\* A chain of nothing is decided.
LEMMA DecidedEmpty == \A vs : Decided(vs, <<>>)
BY DEF Decided

\* A chain grows by a legal step that rests on its last step, or on a stored version.
LEMMA DecidedAppend ==
    ASSUME NEW vs, NEW q \in Seq(GoodSteps), Decided(vs, q), NEW s \in LegalSteps,
           Based(vs, s) \/ (q # <<>> /\ Chains(q[Len(q)], s))
    PROVE  Append(q, s) \in Seq(GoodSteps) /\ Decided(vs, Append(q, s))
<1> DEFINE r == Append(q, s)
<1>1. s \in GoodSteps
  BY DEF LegalSteps
<1>2. /\ r \in Seq(GoodSteps) /\ Len(r) = Len(q) + 1 /\ Len(q) \in Nat
      /\ r[Len(q) + 1] = s /\ \A i \in 1..Len(q) : r[i] = q[i]
  BY <1>1
<1> HIDE DEF r
<1>3. ASSUME NEW i \in 1..Len(r)
      PROVE  r[i] \in LegalSteps /\ (Based(vs, r[i]) \/ (i > 1 /\ Chains(r[i - 1], r[i])))
  <2>1. CASE i \in 1..Len(q)
    <3>1. r[i] = q[i] /\ (i > 1 => r[i - 1] = q[i - 1])
      BY <1>2, <2>1
    <3>2. q[i] \in LegalSteps /\ (Based(vs, q[i]) \/ (i > 1 /\ Chains(q[i - 1], q[i])))
      BY <2>1 DEF Decided
    <3> QED
      BY <3>1, <3>2
  <2>2. CASE i = Len(q) + 1
    <3>1. q # <<>> => Len(q) \in 1..Len(q)
      OBVIOUS
    <3>2. r[i] = s /\ (q # <<>> => i > 1 /\ r[i - 1] = q[Len(q)])
      BY <1>2, <2>2, <3>1
    <3> QED
      BY <3>2
  <2> QED
    BY <1>2, <2>1, <2>2
<1> QED
  BY <1>2, <1>3 DEF Decided, r

(***************************************************************************)
(* The policy decides legally.                                             *)
(***************************************************************************)

\* The edges the policy and the timer take are in the table.
LEMMA PolicyEdges ==
    /\ IsLegalTransition("reported", "validated", "validation_pass")
    /\ IsLegalTransition("reported", "cleared", "validation_fail")
    /\ IsLegalTransition("validated", "active", "source_update")
    /\ IsLegalTransition("validated", "merged", "dedup_decision")
    /\ \A state \in DOMAIN TTL_LADDER : IsLegalTransition(state, TTL_LADDER[state], "timer_ttl")
<1>1. /\ TransitionRule("reported", "validated", {"validation_pass"}) \in TRANSITIONS
      /\ TransitionRule("reported", "cleared", {"validation_fail", "timer_ttl"}) \in TRANSITIONS
      /\ TransitionRule("validated", "active", {"source_update", "timer_ttl"}) \in TRANSITIONS
      /\ TransitionRule("validated", "merged", {"dedup_decision"}) \in TRANSITIONS
      /\ TransitionRule("active", "clearing",
                        {"source_update", "derived_signal", "source_absent", "timer_ttl"})
            \in TRANSITIONS
      /\ TransitionRule("clearing", "cleared", {"source_update", "derived_signal", "timer_ttl"})
            \in TRANSITIONS
  BY DEF TRANSITIONS
<1>2. ASSUME NEW from, NEW to, NEW triggers, NEW trigger \in triggers,
             trigger # "operator_override", TransitionRule(from, to, triggers) \in TRANSITIONS
      PROVE  IsLegalTransition(from, to, trigger)
  BY <1>2 DEF IsLegalTransition, TransitionRule
<1>3. /\ IsLegalTransition("reported", "validated", "validation_pass")
      /\ IsLegalTransition("reported", "cleared", "validation_fail")
      /\ IsLegalTransition("validated", "active", "source_update")
      /\ IsLegalTransition("validated", "merged", "dedup_decision")
  BY <1>1, <1>2
<1>4. /\ IsLegalTransition("reported", "cleared", "timer_ttl")
      /\ IsLegalTransition("validated", "active", "timer_ttl")
      /\ IsLegalTransition("active", "clearing", "timer_ttl")
      /\ IsLegalTransition("clearing", "cleared", "timer_ttl")
  BY <1>1, <1>2
<1> QED
  BY <1>3, <1>4 DEF TTL_LADDER

\* An event that keeps its words takes none of them back.
LEMMA SameIsNoOlder ==
    ASSUME NEW event \in Event, NEW later, later.sources = event.sources
    PROVE  NoOlder(event, later)
<1>1. event.sources \in [Records -> Nat]
  BY DEF Event
<1> QED
  BY <1>1 DEF NoOlder

\* Nor does a parent that absorbs a source it did not hold.
LEMMA AbsorbIsNoOlder ==
    ASSUME NEW event \in Event, NEW c \in Candidates, ~HoldsSource(event, RecordOf[c]),
           NEW later, later.sources = [event.sources EXCEPT ![RecordOf[c]] = StampOf[c]]
    PROVE  NoOlder(event, later)
<1>1. event.sources \in [Records -> Nat] /\ RecordOf[c] \in Records
  BY TypesAssumption DEF Event
<1>2. event.sources[RecordOf[c]] = NotHeld
  BY <1>1 DEF HoldsSource, SameSource
<1>3. ~Dated(event.sources[RecordOf[c]])
  BY <1>2 DEF Dated, NotHeld, Undated
<1> QED
  BY <1>1, <1>3 DEF NoOlder

\* Nor does an update that is not late: the source's words are replaced by a newer one.
LEMMA UpdateIsNoOlder ==
    ASSUME NEW event \in Event, NEW c \in Candidates, ~Late(event, c),
           NEW later, later.sources = Superseded(event, c)
    PROVE  NoOlder(event, later)
<1>1. event.sources \in [Records -> Nat] /\ RecordOf[c] \in Records /\ StampOf[c] \in Nat
  BY TypesAssumption DEF Event
<1>2. SUFFICES ASSUME NEW r \in Records, Dated(event.sources[r]), Dated(later.sources[r])
               PROVE  event.sources[r] <= later.sources[r]
  BY DEF NoOlder
<1>3. CASE r = RecordOf[c]
  <2>1. later.sources[r] = StampOf[c] /\ SameSource(r, RecordOf[c])
    BY <1>3 DEF Superseded, SameSource
  <2>2. ~(StampOf[c] < event.sources[r])
    BY <1>2, <2>1 DEF Late
  <2> QED
    BY <1>1, <2>1, <2>2
<1>4. CASE r # RecordOf[c] /\ SameSource(r, RecordOf[c])
  BY <1>2, <1>4 DEF Superseded, Dated, NotHeld, Undated
<1>5. CASE r # RecordOf[c] /\ ~SameSource(r, RecordOf[c])
  BY <1>1, <1>5 DEF Superseded
<1> QED
  BY <1>3, <1>4, <1>5

\* Moving an event along an edge is a legal step decided on that event.
LEMMA AdvanceLegal ==
    ASSUME NEW id \in EventIds, NEW event \in Event, event.version < MaxVersion,
           NEW to \in LifecycleStates, NEW trigger \in Triggers,
           trigger # "operator_override", IsLegalTransition(event.state, to, trigger),
           event.state # "merged"
    PROVE  LET s == Advance(id, event, to, trigger)
           IN  /\ s \in LegalSteps
               /\ s.id = id /\ ~s.creating /\ Succeeds(event, s)
               /\ s.event \in Event /\ s.event.version = event.version + 1
               /\ s.event.state = to
<1> DEFINE s == Advance(id, event, to, trigger)
<1>1. s \in GoodSteps /\ s.event = Revise(event, to)
  BY AdvanceGood
<1>2. s.id = id /\ ~s.creating /\ s.audit.from = event.state
      /\ s.audit.to = Revise(event, to).state /\ s.audit.trigger = trigger
  BY DEF Advance, StepTo
<1>3. /\ Revise(event, to) \in Event /\ Revise(event, to).version = event.version + 1
      /\ Revise(event, to).state = to
  BY ReviseType
<1> HIDE DEF s
<1>4. LegalEdge(s.audit)
  BY <1>2, <1>3 DEF LegalEdge
<1>5. Succeeds(event, s)
  <2>1. Revise(event, to).sources = event.sources
    BY DEF Revise, Event
  <2> QED
    BY <1>1, <1>2, <2>1, SameIsNoOlder DEF Succeeds, StaysMerged
<1> QED
  BY <1>1, <1>2, <1>3, <1>4, <1>5 DEF LegalSteps, s

\* A candidate's first step is legal and rests on nothing.
LEMMA FirstStepLegal ==
    ASSUME NEW id \in EventIds, NEW c \in Candidates
    PROVE  LET s == FirstStep(id, c)
           IN  /\ s \in LegalSteps
               /\ s.id = id /\ s.creating
               /\ s.event = EventFromCandidate(c) /\ s.event \in Event
               /\ s.event.version = 1 /\ s.event.state = "reported"
<1> DEFINE s == FirstStep(id, c)
<1>1. s \in GoodSteps /\ s.event = EventFromCandidate(c) /\ s.event \in Event
      /\ s.event.version = 1
  BY FirstStepGood
<1>2. s.id = id /\ s.creating /\ s.audit.from = "none" /\ s.audit.to = "reported"
      /\ s.event.state = "reported"
  BY DEF FirstStep, StepTo, EventFromCandidate
<1> QED
  BY <1>1, <1>2 DEF LegalSteps

\* One legal step that rests on a stored version is a chain.
LEMMA DecidedOne ==
    ASSUME NEW vs, NEW s \in LegalSteps, Based(vs, s)
    PROVE  <<s>> \in Seq(GoodSteps) /\ Decided(vs, <<s>>)
<1>1. <<>> \in Seq(GoodSteps) /\ Append(<<>>, s) = <<s>>
  OBVIOUS
<1> QED
  BY <1>1, DecidedEmpty, DecidedAppend

\* A new event's chain: each step rests on the one before.
LEMMA ResolveNewDecided ==
    ASSUME NEW vs, NEW id \in EventIds, NEW c \in Candidates, NEW ambiguous,
           NEW valid \in BOOLEAN, NEW due \in BOOLEAN
    PROVE  Decided(vs, ResolveNew(id, c, ambiguous, valid, due).writes)
<1> DEFINE first     == FirstStep(id, c)
           event     == EventFromCandidate(c)
           validated == Advance(id, event, "validated", "validation_pass")
           cleared   == Advance(id, event, "cleared", "validation_fail")
           started   == Advance(id, validated.event, "active", "source_update")
           writes    == ResolveNew(id, c, ambiguous, valid, due).writes
<1>a. /\ {"validation_pass", "validation_fail", "source_update"} \subseteq Triggers
      /\ {"validated", "cleared", "active"} \subseteq LifecycleStates
      /\ MaxVersion \in Nat /\ MaxVersion >= 3
  BY TypesAssumption DEF Triggers, LifecycleStates
<1>1. /\ first \in LegalSteps /\ first.id = id /\ first.creating
      /\ first.event = event /\ event \in Event
      /\ event.version = 1 /\ event.state = "reported"
  BY FirstStepLegal
<1> HIDE DEF first, event
<1>2. /\ validated \in LegalSteps /\ validated.id = id /\ Succeeds(first.event, validated)
      /\ validated.event \in Event /\ validated.event.version = 2
      /\ validated.event.state = "validated"
  BY <1>a, <1>1, AdvanceLegal, PolicyEdges
<1>3. /\ cleared \in LegalSteps /\ cleared.id = id /\ Succeeds(first.event, cleared)
      /\ cleared.event.version = 2
  BY <1>a, <1>1, AdvanceLegal, PolicyEdges
<1> HIDE DEF validated, cleared
<1>4. /\ started \in LegalSteps /\ started.id = id /\ Succeeds(validated.event, started)
      /\ started.event.version = 3
  BY <1>a, <1>2, AdvanceLegal, PolicyEdges
<1> HIDE DEF started
<1>5. /\ <<first>> \in Seq(GoodSteps) /\ Decided(vs, <<first>>)
      /\ <<first>> # <<>> /\ <<first>>[Len(<<first>>)] = first
  BY <1>1, DecidedOne DEF Based
<1>6. Chains(first, validated) /\ Chains(first, cleared) /\ Chains(validated, started)
  BY <1>1, <1>2, <1>3, <1>4 DEF Chains
<1>7. CASE ~valid
  <2>1. writes = Append(<<first>>, cleared)
    BY <1>7 DEF ResolveNew, Promote, first, cleared, event
  <2> HIDE DEF writes
  <2>2. Decided(vs, Append(<<first>>, cleared))
    BY <1>3, <1>5, <1>6, DecidedAppend
  <2> QED
    BY <2>1, <2>2 DEF writes
<1>8. CASE valid
  <2> DEFINE two == Append(<<first>>, validated)
  <2>1. two \in Seq(GoodSteps) /\ Decided(vs, two)
    BY <1>2, <1>5, <1>6, DecidedAppend
  <2>2. two # <<>> /\ two[Len(two)] = validated
    OBVIOUS
  <2>3. CASE ~due
    <3>1. writes = two
      BY <1>8, <2>3 DEF ResolveNew, Promote, first, validated, event
    <3> QED
      BY <2>1, <3>1
  <2>4. CASE due
    <3>1. writes = Append(two, started)
      BY <1>8, <2>4 DEF ResolveNew, Promote, first, validated, started, event
    <3> HIDE DEF writes, two
    <3>2. Decided(vs, Append(two, started))
      BY <1>4, <1>6, <2>1, <2>2, DecidedAppend
    <3> QED
      BY <3>1, <3>2 DEF writes
  <2> QED
    BY <2>3, <2>4
<1> QED
  BY <1>7, <1>8

\* A step that succeeds a stored version rests on it.
LEMMA BasedOnStored ==
    ASSUME NEW vs, NEW id, NEW event \in Event, StoredIn(vs, id, event),
           NEW s, s.id = id, s.event.version = event.version + 1, Succeeds(event, s)
    PROVE  Based(vs, s)
<1>1. s.event.version - 1 = event.version
  BY DEF Event
<1> QED
  BY <1>1 DEF Based, StoredIn

\* Appending to one element, twice.
LEMMA AppendTwice ==
    ASSUME NEW S, NEW a \in S, NEW b \in S, NEW c \in S
    PROVE  Append(Append(<<a>>, b), c) = <<a, b, c>>
<1> DEFINE q == <<a>>  r == <<a, b>>  t == <<a, b, c>>
<1>1. q \in Seq(S) /\ r \in Seq(S) /\ t \in Seq(S)
  OBVIOUS
<1>2. /\ Len(q) = 1 /\ q[1] = a
      /\ Len(r) = 2 /\ r[1] = a /\ r[2] = b
      /\ Len(t) = 3 /\ t[1] = a /\ t[2] = b /\ t[3] = c
  OBVIOUS
<1> HIDE DEF q, r, t
<1>3. Append(q, b) = r
  <2>0. /\ Append(q, b) \in Seq(S) /\ Len(Append(q, b)) = Len(q) + 1
        /\ Append(q, b)[Len(q) + 1] = b
        /\ \A i \in 1..Len(q) : Append(q, b)[i] = q[i]
    BY <1>1, AppendProperties
  <2>1. /\ Append(q, b) \in Seq(S) /\ Len(Append(q, b)) = 2
        /\ Append(q, b)[1] = a /\ Append(q, b)[2] = b
    BY <2>0, <1>2
  <2>2. \A i \in 1..Len(Append(q, b)) : i = 1 \/ i = 2
    BY <2>1
  <2> QED
    BY <1>1, <1>2, <2>1, <2>2, SeqEqual
<1>4. Append(r, c) = t
  <2>0. /\ Append(r, c) \in Seq(S) /\ Len(Append(r, c)) = Len(r) + 1
        /\ Append(r, c)[Len(r) + 1] = c
        /\ \A i \in 1..Len(r) : Append(r, c)[i] = r[i]
    BY <1>1, AppendProperties
  <2>1. /\ Append(r, c) \in Seq(S) /\ Len(Append(r, c)) = 3
        /\ Append(r, c)[1] = a /\ Append(r, c)[2] = b /\ Append(r, c)[3] = c
    BY <2>0, <1>2
  <2>2. \A i \in 1..Len(Append(r, c)) : i = 1 \/ i = 2 \/ i = 3
    BY <2>1
  <2> QED
    BY <1>1, <1>2, <2>1, <2>2, SeqEqual
<1> QED
  BY <1>3, <1>4 DEF q, t

\* A merge's chain: the child's steps rest on one another, and the parent's on the version
\* of the parent the index returned, which is stored although it may be an old one.
LEMMA MergeDecided ==
    ASSUME NEW vs, NEW child \in EventIds, NEW c \in Candidates, NEW parentId \in EventIds,
           NEW parent \in Event, parent.version < MaxVersion, StoredIn(vs, parentId, parent),
           ~HoldsSource(parent, RecordOf[c])
    PROVE  Decided(vs, Merge(child, c, parentId, parent).writes)
<1> DEFINE reported  == FirstStep(child, c)
           validated == Advance(child, reported.event, "validated", "validation_pass")
           merged    == Advance(child, validated.event, "merged", "dedup_decision")
           named     == [merged EXCEPT !.event.related = @ \cup {parentId}]
           absorb    == Absorb(parentId, parent, child, c)
           two       == Append(<<reported>>, validated)
           three     == Append(two, named)
<1>a. /\ {"validation_pass", "dedup_decision"} \subseteq Triggers
      /\ {"validated", "merged"} \subseteq LifecycleStates
      /\ MaxVersion \in Nat /\ MaxVersion >= 3
  BY TypesAssumption DEF Triggers, LifecycleStates
<1>1. /\ reported \in LegalSteps /\ reported.id = child /\ reported.creating
      /\ reported.event \in Event
      /\ reported.event.version = 1 /\ reported.event.state = "reported"
  BY FirstStepLegal
<1> HIDE DEF reported
<1>2. /\ validated \in LegalSteps /\ validated.id = child /\ Succeeds(reported.event, validated)
      /\ validated.event \in Event /\ validated.event.version = 2
      /\ validated.event.state = "validated"
  BY <1>a, <1>1, AdvanceLegal, PolicyEdges
<1> HIDE DEF validated
<1>3. /\ merged \in LegalSteps /\ merged.id = child /\ ~merged.creating
      /\ Succeeds(validated.event, merged)
      /\ merged.event \in Event /\ merged.event.version = 3
  BY <1>a, <1>2, AdvanceLegal, PolicyEdges
<1> HIDE DEF merged
<1>4. named \in LegalSteps /\ Chains(validated, named)
  <2> DEFINE renamed == [merged.event EXCEPT !.related = @ \cup {parentId}]
  <2>1. /\ renamed \in Event /\ renamed.version = 3 /\ renamed.state = merged.event.state
        /\ renamed.sources = merged.event.sources
    BY <1>3 DEF Event
  <2>2. merged \in Step /\ merged \in GoodSteps /\ LegalEdge(merged.audit)
    BY <1>3 DEF LegalSteps, GoodSteps
  <2>3. named = [merged EXCEPT !.event = renamed]
    BY <2>2 DEF Step
  <2> HIDE DEF renamed, named
  <2>4. /\ named \in Step /\ named.event = renamed /\ named.audit = merged.audit
        /\ named.id = child /\ ~named.creating
    BY <1>3, <2>1, <2>2, <2>3 DEF Step
  <2>5. named \in GoodSteps
    BY <1>3, <2>1, <2>2, <2>4 DEF GoodSteps
  <2>6. Succeeds(validated.event, named)
    BY <1>2, <1>3, <2>1, <2>4 DEF Succeeds, NoOlder, StaysMerged
  <2> QED
    BY <1>2, <1>3, <2>1, <2>2, <2>4, <2>5, <2>6 DEF LegalSteps, Chains
<1>5. absorb \in LegalSteps /\ Based(vs, absorb)
  <2>1. parent.state \in LifecycleStates /\ parent.version \in Nat
    BY DEF Event
  <2>2. /\ absorb.id = parentId /\ ~absorb.creating
        /\ absorb.audit.from = parent.state /\ absorb.audit.to = absorb.event.state
        /\ absorb.audit.trigger = "dedup_decision"
        /\ absorb.event.version = parent.version + 1 /\ absorb.event.state = parent.state
        /\ absorb.event.sources = [parent.sources EXCEPT ![RecordOf[c]] = StampOf[c]]
        /\ parent.related \subseteq absorb.event.related
    BY <2>1 DEF Absorb, StepTo, Revise, Event
  <2>3. absorb \in GoodSteps
    BY AbsorbGood
  <2> HIDE DEF absorb
  <2>4. LegalEdge(absorb.audit)
    BY <2>2 DEF LegalEdge
  <2>5. Based(vs, absorb)
    <3>1. Succeeds(parent, absorb)
      BY <2>2, AbsorbIsNoOlder DEF Succeeds, StaysMerged
    <3> QED
      BY <2>2, <3>1, BasedOnStored
  <2> QED
    BY <2>2, <2>3, <2>4, <2>5 DEF LegalSteps
<1>6. /\ Merge(child, c, parentId, parent).writes = three \o <<absorb>>
      /\ three = <<reported, validated, named>>
  <2>1. ChildSteps(child, c, parentId) = <<reported, validated, named>>
    BY DEF ChildSteps, reported, validated, merged
  <2>2. Merge(child, c, parentId, parent).writes = ChildSteps(child, c, parentId) \o <<absorb>>
    BY DEF Merge
  <2>3. three = <<reported, validated, named>>
    BY <1>1, <1>2, <1>4, AppendTwice
  <2> QED
    BY <2>1, <2>2, <2>3
<1> HIDE DEF named, absorb
<1>7. Chains(reported, validated)
  BY <1>1, <1>2 DEF Chains
<1>8. two \in Seq(GoodSteps) /\ Decided(vs, two) /\ two # <<>> /\ two[Len(two)] = validated
  <2>1. <<reported>> \in Seq(GoodSteps) /\ Decided(vs, <<reported>>)
    BY <1>1, DecidedOne DEF Based
  <2>2. <<reported>> # <<>> /\ <<reported>>[Len(<<reported>>)] = reported
    OBVIOUS
  <2>3. two \in Seq(GoodSteps) /\ Decided(vs, two)
    BY <1>2, <1>7, <2>1, <2>2, DecidedAppend
  <2> QED
    BY <2>3
<1> HIDE DEF two
<1>9. three \in Seq(GoodSteps) /\ Decided(vs, three)
  BY <1>4, <1>8, DecidedAppend
<1> HIDE DEF three
<1>10. Decided(vs, Append(three, absorb))
  BY <1>5, <1>9, DecidedAppend
<1>11. three \o <<absorb>> = Append(three, absorb)
  BY <1>5, <1>9 DEF LegalSteps
<1> QED
  BY <1>6, <1>10, <1>11

\* An update's chain rests on the version of the event that was read.
LEMMA ResolveUpdateDecided ==
    ASSUME NEW vs, NEW id \in EventIds, NEW event \in Event, NEW c \in Candidates,
           NEW due \in BOOLEAN, StoredIn(vs, id, event),
           event.version + Len(ResolveUpdate(id, event, c, due).writes) <= MaxVersion
    PROVE  Decided(vs, ResolveUpdate(id, event, c, due).writes)
<1> DEFINE noted   == StepTo(id, Revise(event, event.state), event.state, "source_update")
           updated == [noted EXCEPT !.event.sources = Superseded(event, c)]
           started == Advance(id, updated.event, "active", "source_update")
           writes  == ResolveUpdate(id, event, c, due).writes
<1>a. /\ "source_update" \in Triggers /\ "active" \in LifecycleStates
      /\ event.state \in LifecycleStates /\ event.version \in 1..MaxVersion
      /\ MaxVersion \in Nat
  BY TypesAssumption DEF Triggers, LifecycleStates, Event
<1>1. writes \in Seq(GoodSteps)
  BY ResolveUpdateGood DEF GoodPlans
<1>2. /\ ~noted.creating /\ noted.id = id /\ LegalEdge(noted.audit)
      /\ noted.audit.from = event.state /\ noted.event.version = event.version + 1
      /\ noted.event.state = event.state /\ noted.event.sources = event.sources
      /\ noted.event.related = event.related
  BY <1>a DEF StepTo, Revise, Event, LegalEdge
<1>3. /\ updated.id = noted.id /\ updated.creating = noted.creating
      /\ updated.audit = noted.audit /\ updated.event.version = noted.event.version
      /\ updated.event.state = noted.event.state
      /\ updated.event.sources = Superseded(event, c)
      /\ updated.event.related = event.related
  BY <1>a DEF StepTo, Revise, Event
<1>4. CASE Late(event, c)
  <2>1. writes = <<noted>>
    BY <1>4 DEF ResolveUpdate, NoPlan
  <2>2. noted \in LegalSteps
    BY <1>1, <1>2, <2>1 DEF LegalSteps
  <2>3. Based(vs, noted)
    <3> HIDE DEF noted
    <3>1. Succeeds(event, noted)
      BY <1>2, SameIsNoOlder DEF Succeeds, StaysMerged
    <3> QED
      BY <1>2, <3>1, BasedOnStored
  <2> QED
    BY <2>1, <2>2, <2>3, DecidedOne
<1>5. CASE ~Late(event, c) /\ ~(event.state = "validated" /\ due)
  <2>1. writes = <<updated>>
    BY <1>5 DEF ResolveUpdate, NoPlan
  <2>2. updated \in LegalSteps
    <3>1. updated \in GoodSteps
      BY <1>1, <2>1
    <3> HIDE DEF updated, noted
    <3> QED
      BY <1>2, <1>3, <3>1 DEF LegalSteps
  <2>3. Based(vs, updated)
    <3> HIDE DEF updated, noted
    <3>1. Succeeds(event, updated)
      BY <1>2, <1>3, <1>5, UpdateIsNoOlder DEF Succeeds, StaysMerged
    <3> QED
      BY <1>2, <1>3, <3>1, BasedOnStored
  <2> QED
    BY <2>1, <2>2, <2>3, DecidedOne
<1>6. CASE ~Late(event, c) /\ event.state = "validated" /\ due
  <2>1. writes = <<updated, started>>
    BY <1>6 DEF ResolveUpdate, NoPlan
  <2>2. updated \in GoodSteps /\ started \in GoodSteps
    BY <1>1, <2>1
  <2>3. event.version + 2 <= MaxVersion
    BY <2>1, <1>a
  <2>4. updated \in LegalSteps
    BY <1>2, <1>3, <2>2 DEF LegalSteps
  <2>5. Based(vs, updated)
    <3> HIDE DEF updated, noted
    <3>1. Succeeds(event, updated)
      BY <1>2, <1>3, <1>6, UpdateIsNoOlder DEF Succeeds, StaysMerged
    <3> QED
      BY <1>2, <1>3, <3>1, BasedOnStored
  <2>6. updated.event \in Event /\ updated.event.version < MaxVersion
        /\ updated.event.state = "validated" /\ updated.id = id
    <3> HIDE DEF updated, noted
    <3>1. updated.event \in Event
      BY <2>2, GoodStepParts
    <3>2. updated.event.version < MaxVersion
      BY <1>a, <1>2, <1>3, <2>3
    <3> QED
      BY <1>2, <1>3, <1>6, <3>1, <3>2
  <2> HIDE DEF updated
  <2>7. /\ started \in LegalSteps /\ started.id = id
        /\ Succeeds(updated.event, started)
        /\ started.event.version = updated.event.version + 1
    BY <1>a, <2>6, AdvanceLegal, PolicyEdges
  <2>8. Chains(updated, started)
    BY <2>6, <2>7 DEF Chains
  <2> HIDE DEF started
  <2>9. <<updated>> \in Seq(GoodSteps) /\ Decided(vs, <<updated>>)
    BY <2>4, <2>5, DecidedOne
  <2>10. <<updated>> # <<>> /\ <<updated>>[Len(<<updated>>)] = updated
         /\ <<updated, started>> = Append(<<updated>>, started)
    OBVIOUS
  <2>11. Decided(vs, Append(<<updated>>, started))
    BY <2>7, <2>8, <2>9, <2>10, DecidedAppend
  <2> QED
    BY <2>1, <2>10, <2>11
<1> QED
  BY <1>4, <1>5, <1>6

\* A lapse is a legal step that rests on the version the tick read.
LEMMA ExpireDecided ==
    ASSUME NEW vs, NEW id \in EventIds, NEW event \in Event, event.version < MaxVersion,
           OnLadder(event.state), StoredIn(vs, id, event)
    PROVE  Expire(id, event) \in LegalSteps /\ Based(vs, Expire(id, event))
<1> DEFINE s == Expire(id, event)
<1>1. /\ TTL_LADDER[event.state] \in LifecycleStates /\ "timer_ttl" \in Triggers
      /\ IsLegalTransition(event.state, TTL_LADDER[event.state], "timer_ttl")
  <2>1. event.state \in DOMAIN TTL_LADDER
    BY DEF OnLadder
  <2> QED
    BY <2>1, PolicyEdges DEF TTL_LADDER, LifecycleStates, Triggers
<1>2. event.state # "merged"
  BY DEF OnLadder, TTL_LADDER
<1>3. /\ s \in LegalSteps /\ s.id = id /\ Succeeds(event, s)
      /\ s.event.version = event.version + 1
  BY <1>1, <1>2, AdvanceLegal DEF Expire
<1> HIDE DEF s
<1>4. Based(vs, s)
  BY <1>3, BasedOnStored
<1> QED
  BY <1>3, <1>4 DEF s

(***************************************************************************)
(* One transaction, and one step of the hub.                               *)
(***************************************************************************)

\* A transaction of a legal step that rests on a stored version keeps every history legal:
\* the version it was decided on is the last one, or it would have been refused.
LEMMA TransactLegal ==
    ASSUME IInv, HistoryIsLegal, NEW s \in LegalSteps, Based(versions, s), Transact(s)
    PROVE  HistoryIsLegal'
<1> DEFINE v == s.event.version
<1>1. s \in GoodSteps /\ StoreTypeOK /\ HistoryHasNoHoles
  BY DEF LegalSteps, IInv, StoreInv
<1>2. /\ s.id \in EventIds /\ v \in 1..MaxVersion /\ v \in Nat /\ s.audit.sequence = v
      /\ (s.creating <=> v = 1) /\ s.audit.to = s.event.state
  BY <1>1, GoodStepParts
<1>3. /\ Height(s.id) = v - 1 /\ Height(s.id)' = v
      /\ \A e \in EventIds \ {s.id} : Height(e)' = Height(e)
  BY <1>1, TransactExtends
<1>4. /\ audit'[s.id][v] = s.audit
      /\ \A e \in EventIds, n \in 1..MaxVersion :
            e # s.id \/ n # v => versions'[e][n] = versions[e][n] /\ audit'[e][n] = audit[e][n]
  BY <1>1, TransactAppends
<1>5. \A e \in EventIds : Height(e) \in 0..MaxVersion
  BY <1>1, TypesAssumption DEF StoreTypeOK, Height, Event
<1> DEFINE Entry(a, vs, e, n) ==
              IF n = 1
              THEN a.from = "none" /\ a.to = "reported"
              ELSE /\ a.from = vs[e][n - 1].state
                   /\ a.from = a.to \/ IsLegalTransition(a.from, a.to, a.trigger)
<1>6. SUFFICES ASSUME NEW e \in EventIds, NEW n \in 1..Height(e)'
               PROVE  Entry(audit'[e][n], versions', e, n)
  BY DEF HistoryIsLegal
<1>7. ASSUME NEW m \in 1..Height(e) PROVE Entry(audit[e][m], versions, e, m)
  BY DEF HistoryIsLegal
<1>8. CASE e = s.id /\ n = v
  <2>1. CASE s.creating
    BY <1>2, <1>4, <1>8, <2>1 DEF LegalSteps
  <2>2. CASE ~s.creating
    <3>1. v # 1 /\ v - 1 \in 1..MaxVersion /\ v - 1 # v
      BY <1>2, <2>2, TypesAssumption
    <3>2. versions'[e][v - 1] = versions[e][v - 1]
      BY <1>4, <1>8, <3>1
    <3>3. versions[e][v - 1].state = s.audit.from
      BY <1>8, <2>2 DEF Based, Succeeds
    <3>4. s.audit.from = s.audit.to
             \/ IsLegalTransition(s.audit.from, s.audit.to, s.audit.trigger)
      BY <2>2 DEF LegalSteps, LegalEdge
    <3> QED
      BY <1>4, <1>8, <3>1, <3>2, <3>3, <3>4
  <2> QED
    BY <2>1, <2>2
<1>9. CASE ~(e = s.id /\ n = v)
  <2>1. n \in 1..Height(e) /\ n \in 1..MaxVersion
    BY <1>2, <1>3, <1>5, <1>9, TypesAssumption
  <2>2. n # 1 => n - 1 \in 1..MaxVersion /\ ~(e = s.id /\ n - 1 = v)
    BY <1>2, <1>3, <2>1, TypesAssumption
  <2>3. audit'[e][n] = audit[e][n] /\ (n # 1 => versions'[e][n - 1] = versions[e][n - 1])
    BY <1>4, <1>9, <2>1, <2>2
  <2>4. Entry(audit[e][n], versions, e, n)
    BY <1>7, <2>1
  <2> QED
    BY <2>3, <2>4
<1> QED
  BY <1>8, <1>9

\* Nothing else touches a history.
LEMMA LegalUntouched ==
    ASSUME HistoryIsLegal, UNCHANGED <<versions, audit, current>>
    PROVE  HistoryIsLegal'
BY DEF HistoryIsLegal, Height

\* What is stored stays stored.
LEMMA NextGrows ==
    ASSUME IInv, [Next]_vars
    PROVE  Grows(versions, versions')
BY NextAppends DEF Grows

\* What the table holds as `current`, and what the index returns, is stored.
LEMMA CurrentIsStored ==
    ASSUME IInv, NEW e \in EventIds, current[e] # None
    PROVE  StoredIn(versions, e, current[e])
<1>1. Height(e) = current[e].version /\ current[e] \in Event
  BY DEF Height, IInv, StoreInv, StoreTypeOK
<1>2. Height(e) \in 1..MaxVersion /\ Height(e) <= Height(e)
  BY <1>1 DEF Event
<1>3. current[e] = versions[e][Height(e)] /\ versions[e][Height(e)] # None
  BY <1>2 DEF IInv, StoreInv, HistoryHasNoHoles
<1> QED
  BY <1>1, <1>3 DEF StoredIn

\* What the index returns is stored, be it the last version or not.
LEMMA MergeChoiceIsStored ==
    ASSUME IInv, NEW c \in Candidates, NEW p \in MergeChoices(c)
    PROVE  StoredIn(versions, p[1], p[2])
<1>1. PICK e \in EventIds : p \in {e} \X IndexViews(e)
  BY DEF MergeChoices
<1>2. PICK n \in 1..Height(e) : p[2] = versions[e][n] /\ p[1] = e
  BY <1>1 DEF IndexViews
<1>3. Height(e) \in 0..MaxVersion
  BY TypesAssumption DEF IInv, StoreInv, StoreTypeOK, Height, Event
<1>4. n \in 1..MaxVersion /\ n <= Height(e)
  BY <1>3, TypesAssumption
<1>5. versions[e][n] # None /\ versions[e][n].version = n
  BY <1>4 DEF IInv, StoreInv, HistoryHasNoHoles
<1> QED
  BY <1>2, <1>5 DEF StoredIn

\* An invocation that ends has nothing to write.
LEMMA LeaveEmpties ==
    ASSUME WorkerInv, NEW v \in Workers, Leave(v), NEW w \in Workers
    PROVE  plan'[w].writes = plan[w].writes \/ plan'[w].writes = <<>>
<1>1. plan \in [Workers -> Plan] /\ plan' = [plan EXCEPT ![v] = NoPlan]
  BY DEF WorkerInv, WorkerTypeOK, Leave
<1>2. plan'[w] = IF w = v THEN NoPlan ELSE plan[w]
  BY <1>1
<1> QED
  BY <1>2 DEF NoPlan

\* An invocation that meets a conflict has nothing to write either.
LEMMA ConflictEmpties ==
    ASSUME WorkerInv, NEW v \in Workers, Conflict(v), NEW w \in Workers
    PROVE  plan'[w].writes = plan[w].writes \/ plan'[w].writes = <<>>
<1>1. CASE attempt[v] < Attempts
  <2>1. plan \in [Workers -> Plan] /\ plan' = [plan EXCEPT ![v] = NoPlan]
    BY <1>1 DEF WorkerInv, WorkerTypeOK, Conflict
  <2>2. plan'[w] = IF w = v THEN NoPlan ELSE plan[w]
    BY <2>1
  <2> QED
    BY <2>2 DEF NoPlan
<1>2. CASE ~(attempt[v] < Attempts)
  BY <1>2, LeaveEmpties DEF Conflict
<1> QED
  BY <1>1, <1>2

\* What an invocation decides rests on versions that are stored, whatever has become of the
\* events since.
LEMMA ResolverDecides ==
    ASSUME IInv, NEW v \in Workers, ResolveKnown(v) \/ ResolveUnknown(v)
    PROVE  \E q \in Plan : Decided(versions, q.writes) /\ plan' = [plan EXCEPT ![v] = q]
<1>1. cand[v] \in Candidates
  BY DEF IInv, WorkerInv, WorkerTypeOK, ResolveKnown, ResolveUnknown
<1>2. CASE ResolveKnown(v)
  <2> DEFINE id == known[v].id
  <2>1. id \in EventIds /\ current[id] \in Event /\ current[id] # None
    <3>1. known[v] \in Pointer /\ current[id] # None
      BY <1>2 DEF IInv, WorkerInv, WorkerTypeOK, ResolveKnown, IsKnown
    <3>2. id \in EventIds
      BY <3>1 DEF Pointer
    <3> QED
      BY <3>1, <3>2 DEF IInv, StoreInv, StoreTypeOK
  <2>2. PICK due \in BOOLEAN :
           LET p == ResolveUpdate(id, current[id], cand[v], due)
           IN  current[id].version + Len(p.writes) <= MaxVersion /\ Decide(v, p)
    BY <1>2 DEF ResolveKnown
  <2> DEFINE p == ResolveUpdate(id, current[id], cand[v], due)
  <2>3. StoredIn(versions, id, current[id])
    BY <2>1, CurrentIsStored
  <2>4. Decided(versions, p.writes)
    BY <1>1, <2>1, <2>2, <2>3, ResolveUpdateDecided
  <2>5. p \in Plan
    BY <1>1, <2>1, <2>2, ResolveUpdateGood, GoodIsTyped
  <2>6. plan' = [plan EXCEPT ![v] = p]
    BY <2>2 DEF Decide
  <2> QED
    BY <2>4, <2>5, <2>6
<1>3. CASE ResolveUnknown(v)
  <2>1. PICK id \in EventIds \ minted :
           \/ \E p \in MergeChoices(cand[v]) : Decide(v, Merge(id, cand[v], p[1], p[2]))
           \/ \E ambiguous \in SUBSET {p[1] : p \in MergeChoices(cand[v])},
                 valid, due \in BOOLEAN :
                 Decide(v, ResolveNew(id, cand[v], ambiguous, valid, due))
    BY <1>3 DEF ResolveUnknown
  <2>2. CASE \E p \in MergeChoices(cand[v]) : Decide(v, Merge(id, cand[v], p[1], p[2]))
    <3>1. PICK p \in MergeChoices(cand[v]) : Decide(v, Merge(id, cand[v], p[1], p[2]))
      BY <2>2
    <3>2. /\ p[1] \in EventIds /\ p[2] \in Event /\ p[2].version < MaxVersion
          /\ StoredIn(versions, p[1], p[2]) /\ ~HoldsSource(p[2], RecordOf[cand[v]])
      BY <1>1, MergeChoicesType, MergeChoiceIsStored DEF Matchable
    <3> DEFINE q == Merge(id, cand[v], p[1], p[2])
    <3>3. q \in Plan /\ Decided(versions, q.writes)
      BY <1>1, <3>2, MergeGood, MergeDecided, GoodIsTyped
    <3>4. plan' = [plan EXCEPT ![v] = q]
      BY <3>1 DEF Decide
    <3> QED
      BY <3>3, <3>4
  <2>3. CASE \E ambiguous \in SUBSET {p[1] : p \in MergeChoices(cand[v])},
                valid, due \in BOOLEAN :
                Decide(v, ResolveNew(id, cand[v], ambiguous, valid, due))
    <3>1. PICK ambiguous \in SUBSET {p[1] : p \in MergeChoices(cand[v])},
               valid \in BOOLEAN, due \in BOOLEAN :
               Decide(v, ResolveNew(id, cand[v], ambiguous, valid, due))
      BY <2>3
    <3>2. ambiguous \in SUBSET EventIds
      BY <1>1, <3>1, MergeChoicesType
    <3> DEFINE q == ResolveNew(id, cand[v], ambiguous, valid, due)
    <3>3. q \in Plan
      BY <1>1, <3>2, ResolveNewGood, GoodIsTyped
    <3>4. Decided(versions, q.writes)
      BY <1>1, ResolveNewDecided
    <3>5. plan' = [plan EXCEPT ![v] = q]
      BY <3>1 DEF Decide
    <3> QED
      BY <3>3, <3>4, <3>5
  <2> QED
    BY <2>1, <2>2, <2>3
<1> QED
  BY <1>2, <1>3

\* A plan is kept, dropped, decided on stored versions, or shortened by what was written.
LEMMA PlansMove ==
    ASSUME IInv, [Next]_vars, NEW w \in Workers
    PROVE  \/ plan'[w].writes = plan[w].writes
           \/ plan'[w].writes = <<>>
           \/ Decided(versions, plan'[w].writes)
           \/ /\ plan[w].writes # <<>> /\ Transact(Head(plan[w].writes))
              /\ plan'[w].writes = Tail(plan[w].writes)
<1>0. WorkerInv /\ plan \in [Workers -> Plan]
  BY DEF IInv, WorkerInv, WorkerTypeOK
<1>1. ASSUME NEW v \in Workers, NEW c \in Candidates, Deliver(v, c) PROVE plan' = plan
  BY <1>1 DEF Deliver
<1>2. ASSUME NEW v \in Workers, Resolver(v)
      PROVE  \/ plan'[w].writes = plan[w].writes
             \/ plan'[w].writes = <<>>
             \/ Decided(versions, plan'[w].writes)
             \/ /\ plan[w].writes # <<>> /\ Transact(Head(plan[w].writes))
                /\ plan'[w].writes = Tail(plan[w].writes)
  <2>1. CASE ReadPointer(v) \/ WriteReviews(v) \/ ArmTimers(v)
    BY <2>1 DEF ReadPointer, WriteReviews, ArmTimers
  <2>2. CASE ResolveUnchanged(v) \/ MovePointer(v)
    BY <1>0, <2>2, LeaveEmpties DEF ResolveUnchanged, MovePointer
  <2>3. CASE ResolveKnown(v) \/ ResolveUnknown(v)
    <3>1. PICK q \in Plan :
             Decided(versions, q.writes) /\ plan' = [plan EXCEPT ![v] = q]
      BY <2>3, ResolverDecides
    <3>2. plan'[w] = IF w = v THEN q ELSE plan[w]
      BY <1>0, <3>1
    <3> QED
      BY <3>1, <3>2
  <2>4. CASE WriteStep(v)
    <3> DEFINE rest == [plan[v] EXCEPT !.writes = Tail(@)]
    <3>1. plan' = [plan EXCEPT ![v] = rest]
      BY <2>4 DEF WriteStep
    <3>2. rest.writes = Tail(plan[v].writes)
      BY <1>0 DEF Plan
    <3> HIDE DEF rest
    <3>3. plan'[w] = IF w = v THEN rest ELSE plan[w]
      BY <1>0, <3>1
    <3> QED
      BY <2>4, <3>2, <3>3 DEF WriteStep
  <2>5. CASE WriteRefused(v) \/ WriteCancelled(v)
    BY <1>0, <2>5, LeaveEmpties, ConflictEmpties
       DEF WriteRefused, WriteCancelled, AlreadyWritten
  <2> QED
    BY <1>2, <2>1, <2>2, <2>3, <2>4, <2>5 DEF Resolver
<1>3. ASSUME NEW v \in Workers, Die(v)
      PROVE  plan'[w].writes = plan[w].writes \/ plan'[w].writes = <<>>
  BY <1>0, <1>3, LeaveEmpties DEF Die
<1>4. ASSUME NEW e \in EventIds, Timer(e) PROVE plan' = plan
  BY <1>4 DEF Timer, TickExpires, TickEnds, TickWrites, TickSuperseded, workerVars
<1>5. CASE UNCHANGED vars
  BY <1>5 DEF vars, workerVars
<1> QED
  BY <1>1, <1>2, <1>3, <1>4, <1>5 DEF Next

\* Plans stay decided.
LEMMA PlanInvNext ==
    ASSUME HInv, [Next]_vars
    PROVE  PlanInv'
<1>1. IInv /\ PlanInv /\ Grows(versions, versions')
  BY NextGrows DEF HInv
<1>2. ASSUME NEW w \in Workers PROVE Decided(versions', plan'[w].writes)
  <2>1. Decided(versions, plan[w].writes)
    BY <1>1 DEF PlanInv
  <2>2. CASE plan'[w].writes = plan[w].writes \/ Decided(versions, plan'[w].writes)
    BY <1>1, <2>1, <2>2, DecidedGrows
  <2>3. CASE plan'[w].writes = <<>>
    BY <2>3, DecidedEmpty
  <2>4. CASE /\ plan[w].writes # <<>> /\ Transact(Head(plan[w].writes))
             /\ plan'[w].writes = Tail(plan[w].writes)
    <3>1. plan[w].writes \in Seq(GoodSteps) /\ Head(plan[w].writes) \in GoodSteps
      BY <1>1, <2>4, NextWriteGood DEF IInv, GoodPlans
    <3>2. versions'[Head(plan[w].writes).id][Head(plan[w].writes).event.version]
             = Head(plan[w].writes).event
      BY <1>1, <2>4, <3>1, TransactAppends DEF IInv, StoreInv
    <3>3. Decided(versions', Tail(plan[w].writes))
      BY <1>1, <2>1, <2>4, <3>1, <3>2, DecidedTail
    <3> QED
      BY <2>4, <3>3
  <2> QED
    BY <1>1, <2>2, <2>3, <2>4, PlansMove
<1> QED
  BY <1>2 DEF PlanInv

\* So does what a tick means to write.
LEMMA TickInvNext ==
    ASSUME HInv, [Next]_vars
    PROVE  TickInv'
<1>1. /\ IInv /\ TickInv /\ Grows(versions, versions')
      /\ timer \in [EventIds -> {"none", "waiting", "writing", "ended"}]
      /\ tick \in [EventIds -> Step \cup {None}]
  BY NextGrows DEF HInv, IInv, TimerInv, TimerTypeOK
<1> DEFINE Kept == \A e \in EventIds :
                      timer'[e] = "writing" => timer[e] = "writing" /\ tick'[e] = tick[e]
<1>2. ASSUME NEW w \in Workers, NEW c \in Candidates, Deliver(w, c) PROVE Kept
  BY <1>2 DEF Deliver, timerVars
<1>3. ASSUME NEW w \in Workers, Resolver(w) PROVE Kept
  <2>1. CASE ReadPointer(w) \/ ResolveUnchanged(w) \/ MovePointer(w) \/ WriteReviews(w)
    BY <2>1 DEF ReadPointer, ResolveUnchanged, MovePointer, WriteReviews, timerVars
  <2>2. CASE ResolveKnown(w)
    BY <2>2 DEF ResolveKnown, Decide, timerVars
  <2>3. CASE ResolveUnknown(w)
    BY <2>3 DEF ResolveUnknown, Decide, timerVars
  <2>4. CASE WriteStep(w)
    BY <2>4 DEF WriteStep, timerVars
  <2>5. CASE WriteRefused(w) \/ WriteCancelled(w)
    BY <2>5 DEF WriteRefused, WriteCancelled, AlreadyWritten, Conflict, timerVars
  <2>6. CASE ArmTimers(w)
    <3>1. PICK started : timer' = [e \in EventIds |->
              IF e \in started /\ timer[e] = "none" THEN "waiting" ELSE timer[e]]
      BY <2>6 DEF ArmTimers
    <3> QED
      BY <2>6, <3>1 DEF ArmTimers
  <2> QED
    BY <1>3, <2>1, <2>2, <2>3, <2>4, <2>5, <2>6 DEF Resolver
<1>4. ASSUME NEW w \in Workers, Die(w) PROVE Kept
  BY <1>4 DEF Die, timerVars
<1>5. ASSUME NEW f \in EventIds, TickExpires(f) PROVE TickInv'
  <2>1. current[f] \in Event /\ current[f] # None
    BY <1>1, <1>5 DEF IInv, StoreInv, StoreTypeOK, TickExpires
  <2>2. StoredIn(versions, f, current[f])
    BY <1>1, <2>1, CurrentIsStored
  <2>3. Expire(f, current[f]) \in LegalSteps /\ Based(versions, Expire(f, current[f]))
    BY <1>5, <2>1, <2>2, ExpireDecided DEF TickExpires
  <2>4. UNCHANGED versions /\ \A e \in EventIds :
           /\ tick'[e] = IF e = f THEN Expire(f, current[f]) ELSE tick[e]
           /\ e # f => timer'[e] = timer[e]
    BY <1>1, <1>5 DEF TickExpires, storeVars
  <2> QED
    BY <1>1, <2>3, <2>4 DEF TickInv
<1>6. ASSUME NEW f \in EventIds, TickEnds(f) \/ TickWrites(f) \/ TickSuperseded(f) PROVE Kept
  BY <1>1, <1>6 DEF TickEnds, TickWrites, TickSuperseded, Rearm
<1>7. ASSUME UNCHANGED vars PROVE Kept
  BY <1>7 DEF vars, timerVars
<1>8. ASSUME Kept PROVE TickInv'
  <2>1. ASSUME NEW e \in EventIds, timer'[e] = "writing"
        PROVE  tick'[e] \in LegalSteps /\ Based(versions', tick'[e])
    <3>1. timer[e] = "writing" /\ tick'[e] = tick[e]
      BY <1>8, <2>1
    <3>2. tick[e] \in LegalSteps /\ tick[e] \in GoodSteps /\ Based(versions, tick[e])
      BY <1>1, <3>1 DEF TickInv, LegalSteps
    <3> QED
      BY <1>1, <3>1, <3>2, BasedGrows
  <2> QED
    BY <2>1 DEF TickInv
<1> HIDE DEF Kept
<1> QED
  BY <1>2, <1>3, <1>4, <1>5, <1>6, <1>7, <1>8 DEF Next, Timer

\* Every step of the hub leaves the event items alone or commits one legal step that was
\* decided on a stored version.
LEMMA OneLegalStep ==
    ASSUME HInv, [Next]_vars
    PROVE  \/ UNCHANGED <<versions, audit, current>>
           \/ \E s \in LegalSteps : Based(versions, s) /\ Transact(s)
<1>1. ASSUME NEW w \in Workers, WriteStep(w)
      PROVE  \E s \in LegalSteps : Based(versions, s) /\ Transact(s)
  <2> DEFINE q == plan[w].writes
  <2>1. q \in Seq(GoodSteps) /\ q # <<>>
    BY <1>1, NextWriteGood DEF HInv, IInv, GoodPlans, WriteStep
  <2>2. Decided(versions, q)
    BY DEF HInv, PlanInv
  <2> HIDE DEF q
  <2>3. 1 \in 1..Len(q) /\ Head(q) = q[1]
    BY <2>1
  <2>4. q[1] \in LegalSteps /\ Based(versions, q[1])
    BY <2>2, <2>3 DEF Decided
  <2> QED
    BY <1>1, <2>3, <2>4 DEF WriteStep, q
<1>2. ASSUME NEW e \in EventIds, TickWrites(e)
      PROVE  \E s \in LegalSteps : Based(versions, s) /\ Transact(s)
  <2>1. tick[e] \in LegalSteps /\ Based(versions, tick[e])
    BY <1>2 DEF HInv, TickInv, TickWrites
  <2> QED
    BY <1>2, <2>1 DEF TickWrites
<1> QED
  BY <1>1, <1>2, OnlyWritersWrite

\* A transaction that commits takes none of its event's words back.
LEMMA TransactKeepsWords ==
    ASSUME IInv, NEW s \in LegalSteps, Based(versions, s), Transact(s),
           NEW e \in EventIds, current[e] # None
    PROVE  NoOlder(current[e], current'[e])
<1>1. /\ s \in GoodSteps /\ s.id \in EventIds /\ s.event.version \in Nat
      /\ current \in [EventIds -> Event \cup {None}] /\ current[e] \in Event
  BY GoodStepParts DEF LegalSteps, IInv, StoreInv, StoreTypeOK
<1>2. current' = [current EXCEPT ![s.id] = s.event]
  BY DEF Transact
<1>3. CASE e # s.id
  <2>1. current'[e] = current[e]
    BY <1>1, <1>2, <1>3
  <2> QED
    BY <1>1, <2>1, SameIsNoOlder
<1>4. CASE e = s.id
  <2>1. /\ current'[e] = s.event
        /\ ~s.creating /\ current[e].version = s.event.version - 1
    BY <1>1, <1>2, <1>4 DEF Transact, Admits
  <2>2. StoredIn(versions, e, current[e])
    BY CurrentIsStored
  <2>3. Succeeds(current[e], s)
    BY <1>4, <2>1, <2>2 DEF Based, StoredIn
  <2> QED
    BY <2>1, <2>3 DEF Succeeds
<1> QED
  BY <1>3, <1>4

\* The invariant holds at the start.
LEMMA HInvInit == Init => HInv
<1> SUFFICES ASSUME Init PROVE HInv
  OBVIOUS
<1>1. IInv
  BY InitInv
<1>2. PlanInv
  <2>1. \A w \in Workers : plan[w].writes = <<>>
    BY DEF Init, NoPlan
  <2> QED
    BY <2>1, DecidedEmpty DEF PlanInv
<1>3. TickInv
  BY DEF Init, TickInv
<1>4. HistoryIsLegal
  BY DEF Init, StoreInit, HistoryIsLegal, Height
<1> QED
  BY <1>1, <1>2, <1>3, <1>4 DEF HInv

\* And it is inductive.
LEMMA HInvNext == HInv /\ [Next]_vars => HInv'
<1> SUFFICES ASSUME HInv, [Next]_vars PROVE HInv'
  OBVIOUS
<1>1. IInv'
  BY NextInv DEF HInv
<1>2. HistoryIsLegal'
  <2>1. IInv /\ HistoryIsLegal
    BY DEF HInv
  <2> QED
    BY <2>1, OneLegalStep, TransactLegal, LegalUntouched
<1> QED
  BY <1>1, <1>2, PlanInvNext, TickInvNext DEF HInv

(***************************************************************************)
(* Theorems                                                                *)
(***************************************************************************)

\* What every pending step was decided on is stored, or is the step before it.
THEOREM PlansAreBased == Spec => []HInv
BY HInvInit, HInvNext, PTL DEF Spec

\* Every history is legal: each audit record names the state the event really was in, and
\* an edge of the table, whatever was read stale and whoever won which race.
THEOREM LegalHistories == Spec => []HistoryIsLegal
<1>1. HInv => HistoryIsLegal
  BY DEF HInv
<1> QED
  BY <1>1, PlansAreBased, PTL

\* No word of a record is taken back: an event's information from a record never goes back
\* to an older dated report, whichever writers race, in whatever order reports arrive.
THEOREM NothingRegresses == Spec => NoRegress
<1>1. ASSUME HInv, [Next]_vars, NEW e \in EventIds, current[e] # None
      PROVE  NoOlder(current[e], current'[e])
  <2>1. CASE UNCHANGED <<versions, audit, current>>
    <3>1. current'[e] = current[e] /\ current[e] \in Event
      BY <1>1, <2>1 DEF HInv, IInv, StoreInv, StoreTypeOK
    <3> QED
      BY <3>1, SameIsNoOlder
  <2>2. ASSUME NEW s \in LegalSteps, Based(versions, s), Transact(s)
        PROVE  NoOlder(current[e], current'[e])
    BY <1>1, <2>2, TransactKeepsWords DEF HInv
  <2> QED
    BY <1>1, <2>1, <2>2, OneLegalStep
<1>2. HInv /\ [Next]_vars =>
         [\A e \in EventIds : current[e] # None =>
            \A r \in Records :
               Dated(current[e].sources[r]) /\ Dated(current'[e].sources[r])
                  => current[e].sources[r] <= current'[e].sources[r]]_vars
  BY <1>1 DEF NoOlder
<1> QED
  BY <1>2, PlansAreBased, PTL DEF Spec, NoRegress

(***************************************************************************)
(* Refinement of EventLog.                                                 *)
(***************************************************************************)

\* The states of a trail of m audit records are a sequence of length m.
LEMMA TrailIsSeq ==
    ASSUME NEW m \in Nat, NEW trail, \A n \in 1..m : trail[n].to \in LifecycleStates
    PROVE  LET h == [n \in 1..m |-> trail[n].to]
           IN  /\ h \in Seq(LifecycleStates) /\ Len(h) = m
               /\ \A n \in 1..m : h[n] = trail[n].to
<1> DEFINE h == [n \in 1..m |-> trail[n].to]
<1>1. h \in [1..m -> LifecycleStates]
  OBVIOUS
<1>2. h \in Seq(LifecycleStates) /\ Len(h) = m
  BY <1>1, SeqDef
<1> QED
  BY <1>2

\* The audit trail, read as a history, is a sequence of states as long as the event is high.
LEMMA HistoryIsSeq ==
    ASSUME IInv, NEW e \in EventIds
    PROVE  /\ History(e) \in Seq(LifecycleStates)
           /\ Len(History(e)) = Height(e) /\ Height(e) \in 0..MaxVersion
           /\ \A n \in 1..Height(e) : History(e)[n] = audit[e][n].to
<1>1. Height(e) \in 0..MaxVersion /\ Height(e) \in Nat
  BY TypesAssumption DEF IInv, StoreInv, StoreTypeOK, Height, Event
<1>2. ASSUME NEW n \in 1..Height(e) PROVE audit[e][n].to \in LifecycleStates
  <2>1. n \in 1..MaxVersion /\ n <= Height(e)
    BY <1>1, TypesAssumption
  <2>2. audit[e][n] \in AuditRecord \cup {None} /\ audit[e][n] # None
    BY <2>1 DEF IInv, StoreInv, StoreTypeOK, HistoryHasNoHoles
  <2> QED
    BY <2>2 DEF AuditRecord
<1> QED
  BY <1>1, <1>2, TrailIsSeq DEF History

\* The abstract log's table is the hub's.
LEMMA SameTable == Log!TRANSITIONS = TRANSITIONS /\ Log!LifecycleStates = LifecycleStates
BY DEF Log!TRANSITIONS, TRANSITIONS, Log!TransitionRule, TransitionRule,
       Log!LifecycleStates, LifecycleStates

\* A legal transaction appends one state to one history, and the state follows the last.
LEMMA TransactGrows ==
    ASSUME IInv, NEW s \in LegalSteps, Based(versions, s), Transact(s)
    PROVE  /\ s.id \in EventIds /\ s.audit.to \in LifecycleStates
           /\ History(s.id)' = Append(History(s.id), s.audit.to)
           /\ \A e \in EventIds \ {s.id} : History(e)' = History(e)
           /\ IF History(s.id) = <<>> THEN s.audit.to = "reported"
              ELSE Log!Follows(History(s.id)[Len(History(s.id))], s.audit.to)
<1> DEFINE v == s.event.version
           h == History(s.id)
<1>1. s \in GoodSteps /\ StoreTypeOK /\ HistoryHasNoHoles
  BY DEF LegalSteps, IInv, StoreInv
<1>2. /\ s.id \in EventIds /\ v \in 1..MaxVersion /\ v \in Nat
      /\ (s.creating <=> v = 1) /\ s.audit.to \in LifecycleStates
  BY <1>1, GoodStepParts DEF AuditRecord
<1>3. /\ Height(s.id) = v - 1 /\ Height(s.id)' = v
      /\ \A e \in EventIds \ {s.id} : Height(e)' = Height(e)
  BY <1>1, TransactExtends
<1>4. /\ audit'[s.id][v] = s.audit
      /\ \A e \in EventIds, n \in 1..MaxVersion :
            e # s.id \/ n # v => audit'[e][n] = audit[e][n]
  BY <1>1, TransactAppends
<1>5. /\ h \in Seq(LifecycleStates) /\ Len(h) = v - 1
      /\ \A n \in 1..(v - 1) : h[n] = audit[s.id][n].to
  BY <1>2, <1>3, HistoryIsSeq
<1>6. /\ h' \in Seq(LifecycleStates) /\ Len(h') = v
      /\ \A n \in 1..v : h'[n] = audit'[s.id][n].to
  <2>1. h' = [n \in 1..v |-> audit'[s.id][n].to]
    BY <1>3 DEF History
  <2>2. ASSUME NEW n \in 1..v PROVE audit'[s.id][n].to \in LifecycleStates
    <3>1. CASE n = v
      BY <1>2, <1>4, <3>1
    <3>2. CASE n # v
      <4>1. n \in 1..(v - 1) /\ n \in 1..MaxVersion
        BY <1>2, <3>2, TypesAssumption
      <4>2. audit'[s.id][n] = audit[s.id][n]
        BY <1>2, <1>4, <3>2, <4>1
      <4>3. h[n] = audit[s.id][n].to /\ h[n] \in LifecycleStates
        <5> HIDE DEF h
        <5> QED
          BY <1>5, <4>1, ElementOfSeq
      <4> QED
        BY <4>2, <4>3
    <3> QED
      BY <3>1, <3>2
  <2> QED
    BY <1>2, <2>1, <2>2, TrailIsSeq
<1>7. h' = Append(h, s.audit.to)
  <2> DEFINE g == Append(h, s.audit.to)
             k == h'
  <2>1. /\ g \in Seq(LifecycleStates) /\ Len(g) = v /\ g[v] = s.audit.to
        /\ \A n \in 1..(v - 1) : g[n] = h[n]
    <3> HIDE DEF h
    <3>1. /\ g \in Seq(LifecycleStates) /\ Len(g) = Len(h) + 1
          /\ g[Len(h) + 1] = s.audit.to
          /\ \A n \in 1..Len(h) : g[n] = h[n]
      BY <1>2, <1>5, AppendProperties
    <3> HIDE DEF g
    <3> QED
      BY <1>2, <1>5, <3>1
  <2>2. k \in Seq(LifecycleStates) /\ Len(k) = v /\ \A n \in 1..v : k[n] = audit'[s.id][n].to
    BY <1>6
  <2> HIDE DEF g, k, h
  <2>3. \A n \in 1..v : k[n] = g[n]
    <3>1. ASSUME NEW n \in 1..v PROVE k[n] = g[n]
      <4>1. CASE n = v
        BY <1>4, <2>1, <2>2, <4>1
      <4>2. CASE n # v
        <5>1. n \in 1..(v - 1) /\ n \in 1..MaxVersion
          BY <1>2, <4>2, TypesAssumption
        <5> QED
          <6>1. audit'[s.id][n] = audit[s.id][n]
            BY <1>2, <1>4, <4>2, <5>1
          <6>2. g[n] = h[n] /\ k[n] = audit'[s.id][n].to /\ h[n] = audit[s.id][n].to
            BY <1>5, <2>1, <2>2, <5>1
          <6> QED
            BY <6>1, <6>2
      <4> QED
        BY <4>1, <4>2
    <3> QED
      BY <3>1
  <2>4. k = g
    BY <2>1, <2>2, <2>3, SeqEqual
  <2> QED
    BY <2>4 DEF g, k
<1>8. ASSUME NEW e \in EventIds \ {s.id} PROVE History(e)' = History(e)
  <2>1. Height(e)' = Height(e) /\ Height(e) \in 0..MaxVersion
    BY <1>3, HistoryIsSeq
  <2>2. \A n \in 1..Height(e) : n \in 1..MaxVersion
    BY <2>1, TypesAssumption
  <2>3. \A n \in 1..Height(e) : audit'[e][n] = audit[e][n]
    BY <1>4, <1>8, <2>2
  <2> QED
    BY <2>1, <2>3 DEF History
<1>9. IF h = <<>> THEN s.audit.to = "reported" ELSE Log!Follows(h[Len(h)], s.audit.to)
  <2>1. CASE s.creating
    <3>1. h = <<>>
      BY <1>2, <1>5, <2>1
    <3> QED
      BY <2>1, <3>1 DEF LegalSteps
  <2>2. CASE ~s.creating
    <3>1. v - 1 \in 1..MaxVersion /\ v - 1 <= Height(s.id) /\ v - 1 \in 1..(v - 1)
      BY <1>2, <1>3, <2>2, TypesAssumption
    <3>2. audit[s.id][v - 1].to = versions[s.id][v - 1].state
      BY <1>1, <1>2, <3>1 DEF HistoryHasNoHoles
    <3>3. h # <<>> /\ h[Len(h)] = s.audit.from
      BY <1>2, <1>5, <2>2, <3>1, <3>2 DEF Based, Succeeds
    <3>4. Log!Follows(s.audit.from, s.audit.to)
      BY <2>2, SameTable DEF LegalSteps, LegalEdge, IsLegalTransition, Log!Follows
    <3> QED
      BY <3>3, <3>4
  <2> QED
    BY <2>1, <2>2
<1> QED
  BY <1>2, <1>7, <1>8, <1>9

\* The empty store is the empty log.
LEMMA RefinesInit == Init => Log!LogInit
<1> SUFFICES ASSUME Init PROVE Log!LogInit
  OBVIOUS
<1>1. IInv
  BY InitInv
<1>2. ASSUME NEW e \in EventIds PROVE History(e) = <<>>
  <2>1. Height(e) = 0
    BY DEF Init, StoreInit, Height
  <2>2. History(e) \in Seq(LifecycleStates) /\ Len(History(e)) = 0
    BY <1>1, <2>1, HistoryIsSeq
  <2> QED
    BY <2>2, EmptySeq
<1> QED
  BY <1>2 DEF Log!LogInit

\* A step of the hub is a step of the log, or leaves the log alone.
LEMMA RefinesNext ==
    ASSUME HInv, [Next]_vars
    PROVE  \/ Log!LogNext
           \/ UNCHANGED [e \in EventIds |-> History(e)]
<1>1. CASE UNCHANGED <<versions, audit, current>>
  <2>1. \A e \in EventIds : History(e)' = History(e)
    BY <1>1 DEF History, Height
  <2> QED
    BY <2>1
<1>2. ASSUME NEW s \in LegalSteps, Based(versions, s), Transact(s)
      PROVE  Log!LogNext
  <2> DEFINE log  == [e \in EventIds |-> History(e)]
             next == s.audit.to
  <2>1. /\ s.id \in EventIds /\ next \in LifecycleStates
        /\ History(s.id)' = Append(History(s.id), next)
        /\ \A e \in EventIds \ {s.id} : History(e)' = History(e)
        /\ IF History(s.id) = <<>> THEN next = "reported"
           ELSE Log!Follows(History(s.id)[Len(History(s.id))], next)
    BY <1>2, TransactGrows DEF HInv
  <2>2. log' = [log EXCEPT ![s.id] = Append(@, next)]
    BY <2>1
  <2>3. next \in Log!Continuations(log[s.id])
    BY <2>1, SameTable DEF Log!Continuations
  <2>4. Log!Grow(s.id)
    BY <2>2, <2>3 DEF Log!Grow
  <2> QED
    BY <2>1, <2>4 DEF Log!LogNext
<1> QED
  BY <1>1, <1>2, OneLegalStep

\* The hub implements the abstract event log: seen from outside, an event has one history
\* that grows at its end, along the edges of the table, whatever happens inside.
THEOREM HubImplementsLog == Spec => ImplementsEventLog
<1>1. HInv /\ [Next]_vars => [Log!LogNext]_([e \in EventIds |-> History(e)])
  BY RefinesNext
<1> QED
  BY <1>1, RefinesInit, PlansAreBased, PTL DEF Spec, ImplementsEventLog, Log!LogSpec

(***************************************************************************)
(* Part 3.  What the table refers to exists, and a live parent has the     *)
(* children it names, for every value of the constants.                    *)
(*                                                                         *)
(* The record whose report opened an event owns it.  A pointer names an    *)
(* event only for its owner, so every later update of that event comes     *)
(* from the owner; and an update replaces the words of the updating        *)
(* source's other records, never its own.  An event therefore rests on     *)
(* its owner in every version, whoever merges into it meanwhile.           *)
(***************************************************************************)

\* The first version of e rests on r alone.
Owns(vs, e, r) ==
    /\ vs[e][1] # None
    /\ \A q \in Records : vs[e][1].sources[q] # NotHeld <=> q = r

\* Step s, of an event that exists, does not drop the event's owner.
KeepsOwner(vs, s) ==
    /\ vs[s.id][1] # None
    /\ \A r \in Records : Owns(vs, s.id, r) => s.event.sources[r] # NotHeld

\* Step s opens event e for r.
Founds(s, e, r) ==
    /\ s.id = e /\ s.creating
    /\ \A q \in Records : s.event.sources[q] # NotHeld <=> q = r

\* Plan p of a report of r: r owns the event the pointer will name, or comes to own it by
\* the first step; no step drops an owner; and every neighbour to review exists.
Refers(vs, p, r) ==
    /\ \A i \in 1..Len(p.writes) :
          IF p.writes[i].id = p.subject
          THEN p.writes[i].event.sources[r] # NotHeld
          ELSE KeepsOwner(vs, p.writes[i])
    /\ Owns(vs, p.subject, r) \/ (p.writes # <<>> /\ Founds(p.writes[1], p.subject, r))
    /\ \A e \in p.reviews : vs[e][1] # None

OwnersStay ==
    \A e \in EventIds, n \in 1..MaxVersion, r \in Records :
        versions[e][n] # None /\ Owns(versions, e, r) => versions[e][n].sources[r] # NotHeld

PointersRefer ==
    \A r \in Records : pointers[r] # None => Owns(versions, pointers[r].id, r)

ReviewsRefer == \A pair \in reviews : versions[pair[1]][1] # None /\ versions[pair[2]][1] # None

KnownRefers ==
    \A w \in Workers : known[w] # None => Owns(versions, known[w].id, RecordOf[cand[w]])

PlansRefer ==
    \A w \in Workers : plan[w].subject # None
                          => Refers(versions, plan[w], RecordOf[cand[w]])

\* Nothing is in hand between two deliveries, and nothing is left to write when the timer
\* is armed.
PhasesHold ==
    \A w \in Workers :
        /\ pc[w] = "idle" => known[w] = None /\ plan[w].subject = None
        /\ pc[w] \in {"arm", "point"} => plan[w].writes = <<>>

TicksRefer ==
    \A e \in EventIds : timer[e] = "writing" => KeepsOwner(versions, tick[e])

RInv ==
    /\ IInv /\ OwnersStay /\ PointersRefer /\ ReviewsRefer
    /\ KnownRefers /\ PlansRefer /\ PhasesHold /\ TicksRefer

(***************************************************************************)
(* Growth: stored versions stay, so what they say of owners stays.         *)
(***************************************************************************)

\* There is always a first version.
LEMMA OneIsVersion == 1 \in 1..MaxVersion
BY TypesAssumption

\* Owners stay owners, and stored events stay stored.
LEMMA OwnsGrows ==
    ASSUME NEW vs, NEW us, Grows(vs, us), NEW e \in EventIds, vs[e][1] # None
    PROVE  us[e][1] # None /\ \A r : Owns(us, e, r) <=> Owns(vs, e, r)
BY OneIsVersion DEF Grows, Owns

\* A step that keeps the owner of a stored event goes on to.
LEMMA KeepsGrows ==
    ASSUME NEW vs, NEW us, Grows(vs, us), NEW s, s.id \in EventIds, KeepsOwner(vs, s)
    PROVE  KeepsOwner(us, s)
<1>1. vs[s.id][1] # None
  BY DEF KeepsOwner
<1>2. us[s.id][1] # None /\ \A r : Owns(us, s.id, r) <=> Owns(vs, s.id, r)
  BY <1>1, OwnsGrows
<1> QED
  BY <1>2 DEF KeepsOwner

\* A plan whose references hold keeps them.
LEMMA RefersGrows ==
    ASSUME NEW vs, NEW us, Grows(vs, us), NEW p \in GoodPlans, p.subject \in EventIds,
           NEW r, Refers(vs, p, r)
    PROVE  Refers(us, p, r)
<1>1. p.writes \in Seq(GoodSteps) /\ p.reviews \subseteq EventIds
  BY DEF GoodPlans
<1>2. ASSUME NEW i \in 1..Len(p.writes)
      PROVE  IF p.writes[i].id = p.subject
             THEN p.writes[i].event.sources[r] # NotHeld
             ELSE KeepsOwner(us, p.writes[i])
  <2>1. p.writes[i] \in GoodSteps
    BY <1>1, ElementOfSeq
  <2>2. p.writes[i].id \in EventIds
    BY <2>1, GoodStepParts
  <2> QED
    BY <2>2, KeepsGrows DEF Refers
<1>3. ASSUME Owns(vs, p.subject, r) PROVE Owns(us, p.subject, r)
  <2>1. vs[p.subject][1] # None
    BY <1>3 DEF Owns
  <2> QED
    BY <1>3, <2>1, OwnsGrows
<1>4. \A e \in p.reviews : us[e][1] # None
  BY <1>1, OwnsGrows DEF Refers
<1> QED
  BY <1>2, <1>3, <1>4 DEF Refers

(***************************************************************************)
(* The policy's plans refer to what is stored.                             *)
(***************************************************************************)

\* Moving an event along an edge leaves its words alone.
LEMMA AdvanceKeepsWords ==
    ASSUME NEW id, NEW event \in Event, NEW to, NEW trigger
    PROVE  /\ Advance(id, event, to, trigger).id = id
           /\ Advance(id, event, to, trigger).event.sources = event.sources
BY DEF Advance, StepTo, Revise, Event

\* A candidate's first version rests on its record alone.
LEMMA CandidateFounds ==
    ASSUME NEW id \in EventIds, NEW c \in Candidates
    PROVE  /\ Founds(FirstStep(id, c), id, RecordOf[c])
           /\ EventFromCandidate(c).sources[RecordOf[c]] # NotHeld
<1>1. RecordOf[c] \in Records /\ StampOf[c] # NotHeld
  BY TypesAssumption
<1>2. FirstStep(id, c).event = EventFromCandidate(c)
  BY FirstStepGood
<1>3. FirstStep(id, c).id = id /\ FirstStep(id, c).creating
  BY DEF FirstStep, StepTo
<1>4. \A q \in Records : EventFromCandidate(c).sources[q] # NotHeld <=> q = RecordOf[c]
  BY <1>1 DEF EventFromCandidate
<1> QED
  BY <1>1, <1>2, <1>3, <1>4 DEF Founds

\* An update of an event by its owner.
LEMMA UpdateRefers ==
    ASSUME NEW vs, NEW id \in EventIds, NEW event \in Event, NEW c \in Candidates,
           NEW due \in BOOLEAN, Owns(vs, id, RecordOf[c]),
           event.sources[RecordOf[c]] # NotHeld
    PROVE  Refers(vs, ResolveUpdate(id, event, c, due), RecordOf[c])
<1> DEFINE noted   == StepTo(id, Revise(event, event.state), event.state, "source_update")
           updated == [noted EXCEPT !.event.sources = Superseded(event, c)]
           started == Advance(id, updated.event, "active", "source_update")
           p       == ResolveUpdate(id, event, c, due)
           r       == RecordOf[c]
<1>1. r \in Records /\ StampOf[c] # NotHeld
  BY TypesAssumption
<1>2. noted.id = id /\ noted.event.sources[r] # NotHeld
  BY DEF StepTo, Revise, Event
<1>3. updated.id = id /\ updated.event.sources[r] # NotHeld
  BY <1>1 DEF StepTo, Revise, Event, Superseded
<1>4. started.id = id /\ started.event.sources[r] # NotHeld
  <2>1. updated.event = [version |-> event.version + 1, state |-> event.state,
                         sources |-> Superseded(event, c), related |-> event.related]
    BY DEF StepTo, Revise, Event
  <2> HIDE DEF updated
  <2>2. started.event.sources = updated.event.sources
    BY <2>1 DEF Advance, StepTo, Revise
  <2> QED
    BY <1>3, <2>2 DEF Advance, StepTo
<1>5. p.subject = id /\ p.reviews = {}
  BY DEF ResolveUpdate, NoPlan
<1>6. p.writes = IF Late(event, c) THEN <<noted>>
                 ELSE IF event.state = "validated" /\ due THEN <<updated, started>>
                 ELSE <<updated>>
  BY DEF ResolveUpdate, NoPlan
<1> HIDE DEF p, noted, updated, started
<1>7. \A i \in 1..Len(p.writes) : p.writes[i] \in {noted, updated, started}
  BY <1>6
<1> QED
  BY <1>2, <1>3, <1>4, <1>5, <1>7 DEF Refers, p

\* A new event, with neighbours that are stored.
LEMMA NewRefers ==
    ASSUME NEW vs, NEW id \in EventIds, NEW c \in Candidates, NEW ambiguous,
           NEW valid \in BOOLEAN, NEW due \in BOOLEAN, \A e \in ambiguous : vs[e][1] # None
    PROVE  Refers(vs, ResolveNew(id, c, ambiguous, valid, due), RecordOf[c])
<1> DEFINE first     == FirstStep(id, c)
           event     == EventFromCandidate(c)
           validated == Advance(id, event, "validated", "validation_pass")
           cleared   == Advance(id, event, "cleared", "validation_fail")
           started   == Advance(id, validated.event, "active", "source_update")
           p         == ResolveNew(id, c, ambiguous, valid, due)
           r         == RecordOf[c]
<1>1. Founds(first, id, r) /\ event.sources[r] # NotHeld
  BY CandidateFounds
<1>2. event \in Event /\ first.event = event /\ first.id = id
  BY FirstStepGood, <1>1 DEF Founds
<1>3. /\ validated.id = id /\ validated.event.sources = event.sources
      /\ cleared.id = id /\ cleared.event.sources = event.sources
  BY <1>2, AdvanceKeepsWords
<1>4. started.id = id /\ started.event.sources = event.sources
  BY <1>2 DEF Advance, StepTo, Revise, Event
<1>5. p.subject = id /\ p.reviews = ambiguous
  BY DEF ResolveNew
<1>6. p.writes \in {<<first>> \o <<cleared>>, <<first>> \o <<validated>>,
                    <<first>> \o <<validated, started>>}
  BY DEF ResolveNew, Promote
<1> HIDE DEF p, first, event, validated, cleared, started
<1>7. /\ p.writes # <<>> /\ p.writes[1] = first
      /\ \A i \in 1..Len(p.writes) : p.writes[i] \in {first, validated, cleared, started}
  BY <1>6
<1> QED
  BY <1>1, <1>2, <1>3, <1>4, <1>5, <1>7 DEF Refers, p

\* A merge into a version of the parent that still rests on the parent's owner.
LEMMA MergeRefers ==
    ASSUME NEW vs, NEW child \in EventIds, NEW c \in Candidates, NEW parentId \in EventIds,
           NEW parent \in Event, vs[parentId][1] # None,
           \A q \in Records : Owns(vs, parentId, q) => parent.sources[q] # NotHeld
    PROVE  Refers(vs, Merge(child, c, parentId, parent), RecordOf[c])
<1> DEFINE reported  == FirstStep(child, c)
           validated == Advance(child, reported.event, "validated", "validation_pass")
           merged    == Advance(child, validated.event, "merged", "dedup_decision")
           named     == [merged EXCEPT !.event.related = @ \cup {parentId}]
           absorb    == Absorb(parentId, parent, child, c)
           p         == Merge(child, c, parentId, parent)
           r         == RecordOf[c]
<1>1. /\ Founds(reported, child, r) /\ reported.id = child
      /\ reported.event.sources[r] # NotHeld /\ reported.event \in Event
  BY CandidateFounds, FirstStepGood DEF Founds
<1>2. validated.id = child /\ validated.event.sources = reported.event.sources
  BY <1>1, AdvanceKeepsWords
<1>3. named.id = child /\ named.event.sources = reported.event.sources
  BY <1>1 DEF Advance, StepTo, Revise, Event
<1>4. absorb.id = parentId
      /\ absorb.event.sources = [parent.sources EXCEPT ![r] = StampOf[c]]
  BY DEF Absorb, StepTo, Revise, Event
<1>5. r \in Records /\ StampOf[c] # NotHeld /\ parent.sources \in [Records -> Nat]
  BY TypesAssumption DEF Event
<1>6. p.subject = child /\ p.reviews = {}
  BY DEF Merge
<1>7. p.writes = <<reported, validated, named>> \o <<absorb>>
  BY DEF Merge, ChildSteps
<1> HIDE DEF p, reported, validated, merged, named, absorb
<1>8. /\ p.writes # <<>> /\ p.writes[1] = reported
      /\ \A i \in 1..Len(p.writes) : p.writes[i] \in {reported, validated, named, absorb}
  BY <1>7
<1>9. KeepsOwner(vs, absorb) /\ absorb.event.sources[r] # NotHeld
  BY <1>4, <1>5 DEF KeepsOwner
<1> QED
  BY <1>1, <1>2, <1>3, <1>6, <1>8, <1>9 DEF Refers, p

(***************************************************************************)
(* What is read of the table rests on its owner.                           *)
(***************************************************************************)

\* An event that has any version has a first one, and a `current` one.
LEMMA StoredIsFounded ==
    ASSUME IInv, NEW e \in EventIds
    PROVE  /\ versions[e][1] # None <=> current[e] # None
           /\ \A n \in 1..MaxVersion : versions[e][n] # None => versions[e][1] # None
<1>1. Height(e) \in 0..MaxVersion /\ (current[e] # None <=> Height(e) >= 1)
  <2>1. current[e] # None => current[e] \in Event
    BY DEF IInv, StoreInv, StoreTypeOK
  <2> QED
    BY <2>1, TypesAssumption DEF Height, Event
<1>2. \A n \in 1..MaxVersion : versions[e][n] # None <=> n <= Height(e)
  BY DEF IInv, StoreInv, HistoryHasNoHoles
<1>3. versions[e][1] # None <=> 1 <= Height(e)
  BY <1>2, OneIsVersion
<1> QED
  BY <1>1, <1>2, <1>3

\* A stored version rests on the event's owner.
LEMMA StoredRestsOnOwner ==
    ASSUME IInv, OwnersStay, NEW e \in EventIds, NEW event \in Event,
           StoredIn(versions, e, event)
    PROVE  /\ versions[e][1] # None
           /\ \A r \in Records : Owns(versions, e, r) => event.sources[r] # NotHeld
<1>1. event.version \in 1..MaxVersion
  BY DEF Event
<1> QED
  BY <1>1, StoredIsFounded DEF StoredIn, OwnersStay

\* What the matcher is offered is stored and rests on its owner.
LEMMA ChoicesRestOnOwner ==
    ASSUME IInv, OwnersStay, NEW c \in Candidates, NEW p \in MergeChoices(c)
    PROVE  /\ p[1] \in EventIds /\ p[2] \in Event
           /\ versions[p[1]][1] # None
           /\ \A r \in Records : Owns(versions, p[1], r) => p[2].sources[r] # NotHeld
BY MergeChoicesType, MergeChoiceIsStored, StoredRestsOnOwner

(***************************************************************************)
(* One transaction.                                                        *)
(***************************************************************************)

\* A transaction of a step that rests on the owner, as it is once the step is stored.
LEMMA TransactKeepsOwners ==
    ASSUME IInv, OwnersStay, NEW s \in GoodSteps, Transact(s),
           \A r \in Records : Owns(versions', s.id, r) => s.event.sources[r] # NotHeld
    PROVE  OwnersStay'
<1>1. s.id \in EventIds /\ s.event.version \in 1..MaxVersion
  BY GoodStepParts
<1>2. /\ versions'[s.id][s.event.version] = s.event
      /\ versions[s.id][s.event.version] = None
      /\ \A e \in EventIds, n \in 1..MaxVersion :
            e # s.id \/ n # s.event.version => versions'[e][n] = versions[e][n]
  BY TransactAppends DEF IInv, StoreInv
<1>3. ASSUME NEW e \in EventIds, NEW n \in 1..MaxVersion, NEW r \in Records,
             versions'[e][n] # None, Owns(versions', e, r)
      PROVE  versions'[e][n].sources[r] # NotHeld
  <2>1. CASE e = s.id /\ n = s.event.version
    BY <1>2, <1>3, <2>1
  <2>2. CASE ~(e = s.id /\ n = s.event.version)
    <3>1. versions'[e][n] = versions[e][n] /\ versions[e][n] # None
      BY <1>2, <1>3, <2>2
    <3>2. versions[e][1] # None
      BY <3>1, StoredIsFounded
    <3>3. versions'[e][1] = versions[e][1]
      BY <1>2, <3>2, OneIsVersion
    <3>4. Owns(versions, e, r)
      BY <1>3, <3>3 DEF Owns
    <3> QED
      BY <3>1, <3>4 DEF OwnersStay
  <2> QED
    BY <2>1, <2>2
<1> QED
  BY <1>3 DEF OwnersStay

\* The next write of a plan keeps what the plan refers to, and every owner.
LEMMA PlanWrites ==
    ASSUME RInv, NEW w \in Workers, WriteStep(w), [Next]_vars
    PROVE  /\ OwnersStay'
           /\ Refers(versions', plan'[w], RecordOf[cand[w]])
<1> DEFINE p == plan[w]
           q == p.writes
           s == Head(q)
           r == RecordOf[cand[w]]
<1>1. /\ q \in Seq(GoodSteps) /\ q # <<>> /\ p \in GoodPlans
      /\ s \in GoodSteps /\ Transact(s)
      /\ p.subject \in EventIds /\ cand[w] \in Candidates
  BY NextWriteGood DEF RInv, IInv, WorkerInv, WorkerTypeOK, WriteStep, GoodPlans
<1>2. Refers(versions, p, r) /\ r \in Records
  BY <1>1, NoneAssumption, TypesAssumption DEF RInv, PlansRefer
<1>3. Grows(versions, versions')
  BY NextGrows DEF RInv
<1>4. /\ s = q[1] /\ 1 \in 1..Len(q)
      /\ Len(Tail(q)) = Len(q) - 1 /\ \A i \in 1..Len(Tail(q)) : Tail(q)[i] = q[i + 1]
  BY <1>1
<1>5. /\ s.id \in EventIds /\ s.event.version \in 1..MaxVersion
      /\ versions'[s.id][s.event.version] = s.event /\ s.event # None
      /\ (s.creating <=> s.event.version = 1)
  BY <1>1, GoodStepParts, TransactAppends DEF RInv, IInv, StoreInv
<1>6. plan'[w] = [p EXCEPT !.writes = Tail(q)]
  BY <1>1 DEF WriteStep, RInv, IInv, WorkerInv
<1> HIDE DEF p
<1>7. Owns(versions', p.subject, r)
  <2>1. CASE Owns(versions, p.subject, r)
    <3>1. versions[p.subject][1] # None
      BY <2>1 DEF Owns
    <3> QED
      BY <1>1, <1>3, <2>1, <3>1, OwnsGrows
  <2>2. CASE Founds(q[1], p.subject, r)
    BY <1>4, <1>5, <2>2 DEF Founds, Owns
  <2> QED
    BY <1>2, <2>1, <2>2 DEF Refers
<1>8. Refers(versions', p, r)
  BY <1>1, <1>2, <1>3, RefersGrows
<1>9. OwnersStay'
  <2>1. ASSUME NEW o \in Records, Owns(versions', s.id, o)
        PROVE  s.event.sources[o] # NotHeld
    <3>1. CASE s.id = p.subject
      <4>1. o = r
        BY <1>2, <1>7, <2>1, <3>1 DEF Owns
      <4> QED
        BY <1>2, <1>4, <3>1, <4>1 DEF Refers
    <3>2. CASE s.id # p.subject
      BY <1>4, <1>8, <2>1, <3>2 DEF Refers, KeepsOwner
    <3> QED
      BY <3>1, <3>2
  <2> HIDE DEF s
  <2> QED
    BY <1>1, <2>1, TransactKeepsOwners DEF RInv
<1>10. Refers(versions', plan'[w], r)
  <2>1. p \in [writes : Seq(GoodSteps), reviews : SUBSET EventIds, arm : SUBSET EventIds,
               subject : EventIds \cup {None}]
    BY <1>1 DEF GoodPlans
  <2>2. /\ plan'[w].writes = Tail(q) /\ plan'[w].subject = p.subject
        /\ plan'[w].reviews = p.reviews
    BY <1>6, <2>1
  <2>3. ASSUME NEW i \in 1..Len(Tail(q))
        PROVE  IF Tail(q)[i].id = p.subject
               THEN Tail(q)[i].event.sources[r] # NotHeld
               ELSE KeepsOwner(versions', Tail(q)[i])
    <3>1. i + 1 \in 1..Len(q) /\ Tail(q)[i] = q[i + 1]
      BY <1>1, <1>4
    <3> QED
      BY <1>8, <3>1 DEF Refers
  <2> HIDE DEF q
  <2> QED
    BY <1>7, <1>8, <2>2, <2>3 DEF Refers
<1> QED
  BY <1>9, <1>10

(***************************************************************************)
(* One step of the hub, part by part.                                      *)
(***************************************************************************)

\* Every event keeps its owner.
LEMMA OwnersStayNext ==
    ASSUME RInv, [Next]_vars
    PROVE  OwnersStay'
<1>1. CASE UNCHANGED <<versions, audit, current>>
  BY <1>1 DEF RInv, OwnersStay, Owns
<1>2. ASSUME NEW w \in Workers, WriteStep(w) PROVE OwnersStay'
  BY <1>2, PlanWrites
<1>3. ASSUME NEW e \in EventIds, TickWrites(e) PROVE OwnersStay'
  <2>1. KeepsOwner(versions, tick[e]) /\ tick[e] \in GoodSteps /\ Transact(tick[e])
    BY <1>3 DEF RInv, TicksRefer, IInv, TimerInv, TickWrites
  <2>2. KeepsOwner(versions', tick[e])
    <3>1. Grows(versions, versions') /\ tick[e].id \in EventIds
      BY <2>1, NextGrows, GoodStepParts DEF RInv
    <3> QED
      BY <2>1, <3>1, KeepsGrows
  <2> QED
    BY <2>1, <2>2, TransactKeepsOwners DEF RInv, KeepsOwner
<1> QED
  BY <1>1, <1>2, <1>3, OnlyWritersWrite

\* A step of the hub in which one invocation takes a call, or none does, and the tables it
\* may change.
LEMMA WhoMoves ==
    ASSUME IInv, [Next]_vars
    PROVE  \/ \E w \in Workers :
                 /\ \/ \E c \in Candidates : Deliver(w, c)
                    \/ Resolver(w)
                    \/ Die(w)
                 /\ \A v \in Workers \ {w} :
                       /\ pc'[v] = pc[v] /\ cand'[v] = cand[v]
                       /\ known'[v] = known[v] /\ plan'[v] = plan[v]
           \/ UNCHANGED <<pointers, reviews, pc, cand, known, plan>>
<1>0. /\ pc \in [Workers -> PCs] /\ cand \in [Workers -> Candidates \cup {None}]
      /\ known \in [Workers -> Pointer \cup {None}] /\ plan \in [Workers -> GoodPlans]
  BY DEF IInv, WorkerInv, WorkerTypeOK
<1>1. ASSUME NEW w \in Workers, NEW c \in Candidates, Deliver(w, c)
      PROVE  \A v \in Workers \ {w} : /\ pc'[v] = pc[v] /\ cand'[v] = cand[v]
                                      /\ known'[v] = known[v] /\ plan'[v] = plan[v]
  BY <1>0, <1>1 DEF Deliver
<1>2. ASSUME NEW w \in Workers, Resolver(w) \/ Die(w)
      PROVE  \A v \in Workers \ {w} : /\ pc'[v] = pc[v] /\ cand'[v] = cand[v]
                                      /\ known'[v] = known[v] /\ plan'[v] = plan[v]
  <2>1. CASE ReadPointer(w) \/ WriteStep(w) \/ WriteReviews(w) \/ ArmTimers(w)
    BY <1>0, <2>1 DEF ReadPointer, WriteStep, WriteReviews, ArmTimers
  <2>2. CASE ResolveUnchanged(w) \/ MovePointer(w) \/ Die(w)
    BY <1>0, <2>2 DEF ResolveUnchanged, MovePointer, Die, Leave
  <2>3. CASE ResolveKnown(w)
    BY <1>0, <2>3 DEF ResolveKnown, Decide
  <2>4. CASE ResolveUnknown(w)
    BY <1>0, <2>4 DEF ResolveUnknown, Decide
  <2>5. CASE WriteRefused(w) \/ WriteCancelled(w)
    BY <1>0, <2>5 DEF WriteRefused, WriteCancelled, AlreadyWritten, Conflict, Leave
  <2> QED
    BY <1>2, <2>1, <2>2, <2>3, <2>4, <2>5 DEF Resolver
<1>3. ASSUME NEW e \in EventIds, Timer(e)
      PROVE  UNCHANGED <<pointers, reviews, pc, cand, known, plan>>
  BY <1>3 DEF Timer, TickExpires, TickEnds, TickWrites, TickSuperseded, Transact,
              storeVars, workerVars
<1>4. CASE UNCHANGED vars
  BY <1>4 DEF vars, storeVars, workerVars
<1> QED
  BY <1>1, <1>2, <1>3, <1>4 DEF Next

\* What the worker's own step makes of what it has in hand.
LEMMA HandsNext ==
    ASSUME RInv, [Next]_vars, NEW w \in Workers,
           (\E c \in Candidates : Deliver(w, c)) \/ Resolver(w) \/ Die(w)
    PROVE  /\ known'[w] # None => Owns(versions', known'[w].id, RecordOf[cand'[w]])
           /\ plan'[w].subject # None => Refers(versions', plan'[w], RecordOf[cand'[w]])
           /\ pc'[w] = "idle" => known'[w] = None /\ plan'[w].subject = None
           /\ pc'[w] \in {"arm", "point"} => plan'[w].writes = <<>>
<1> DEFINE Fine ==
             /\ known'[w] # None => Owns(versions', known'[w].id, RecordOf[cand'[w]])
             /\ plan'[w].subject # None => Refers(versions', plan'[w], RecordOf[cand'[w]])
             /\ pc'[w] = "idle" => known'[w] = None /\ plan'[w].subject = None
             /\ pc'[w] \in {"arm", "point"} => plan'[w].writes = <<>>
<1>1. /\ pc \in [Workers -> PCs] /\ cand \in [Workers -> Candidates \cup {None}]
      /\ known \in [Workers -> Pointer \cup {None}] /\ plan \in [Workers -> GoodPlans]
      /\ (pc[w] # "idle" => cand[w] \in Candidates)
      /\ (pc[w] \in {"write", "arm", "point"} => plan[w].subject \in EventIds)
  BY DEF RInv, IInv, WorkerInv, WorkerTypeOK
<1>2. /\ known[w] # None => Owns(versions, known[w].id, RecordOf[cand[w]])
      /\ plan[w].subject # None => Refers(versions, plan[w], RecordOf[cand[w]])
      /\ pc[w] = "idle" => known[w] = None /\ plan[w].subject = None
      /\ pc[w] \in {"arm", "point"} => plan[w].writes = <<>>
  BY DEF RInv, KnownRefers, PlansRefer, PhasesHold
<1>3. \A c \in Candidates : RecordOf[c] \in Records
  BY TypesAssumption
<1>4. NoPlan.subject = None /\ NoPlan.writes = <<>>
  BY DEF NoPlan
<1>5. ASSUME NEW c \in Candidates, Deliver(w, c) PROVE Fine
  BY <1>1, <1>2, <1>5 DEF Deliver
<1>6. CASE ReadPointer(w)
  <2>1. /\ known'[w] = pointers[RecordOf[cand[w]]] /\ pc'[w] = "decide"
        /\ UNCHANGED <<versions, cand, plan>>
    BY <1>1, <1>6 DEF ReadPointer, storeVars
  <2>2. pointers[RecordOf[cand[w]]] # None
           => Owns(versions, pointers[RecordOf[cand[w]]].id, RecordOf[cand[w]])
    BY <1>1, <1>3, <1>6 DEF RInv, PointersRefer, ReadPointer
  <2> QED
    BY <1>2, <2>1, <2>2
<1>7. CASE ResolveUnchanged(w) \/ MovePointer(w) \/ Die(w)
  <2>1. Leave(w)
    BY <1>7 DEF ResolveUnchanged, MovePointer, Die
  <2> QED
    BY <1>1, <1>4, <2>1 DEF Leave
<1>8. CASE WriteRefused(w) \/ WriteCancelled(w)
  <2>1. Leave(w) \/ (pc'[w] = "pointer" /\ known'[w] = None /\ plan'[w] = NoPlan)
    BY <1>1, <1>8 DEF WriteRefused, WriteCancelled, AlreadyWritten, Conflict
  <2> QED
    BY <1>1, <1>4, <2>1 DEF Leave
<1>9. ASSUME NEW p, Decide(w, p), p.subject # None => Refers(versions, p, RecordOf[cand[w]])
      PROVE  Fine
  BY <1>1, <1>2, <1>9 DEF Decide, storeVars
<1>10. CASE ResolveKnown(w)
  <2> DEFINE id == known[w].id
  <2>1. known[w] \in Pointer /\ known[w] # None /\ current[id] # None
        /\ cand[w] \in Candidates
    BY <1>1, <1>10 DEF ResolveKnown, IsKnown
  <2>2. id \in EventIds /\ current[id] \in Event
    BY <2>1 DEF Pointer, RInv, IInv, StoreInv, StoreTypeOK
  <2>3. PICK due \in BOOLEAN : Decide(w, ResolveUpdate(id, current[id], cand[w], due))
    BY <1>10 DEF ResolveKnown
  <2>4. Owns(versions, id, RecordOf[cand[w]])
    BY <1>2, <2>1
  <2>5. StoredIn(versions, id, current[id])
    BY <2>1, <2>2, CurrentIsStored DEF RInv
  <2>6. current[id].sources[RecordOf[cand[w]]] # NotHeld
    BY <1>3, <2>1, <2>2, <2>4, <2>5, StoredRestsOnOwner DEF RInv
  <2> HIDE DEF id
  <2>7. Refers(versions, ResolveUpdate(id, current[id], cand[w], due), RecordOf[cand[w]])
    BY <2>1, <2>2, <2>4, <2>6, UpdateRefers
  <2> QED
    BY <1>9, <2>3, <2>7
<1>11. CASE ResolveUnknown(w)
  <2>1. cand[w] \in Candidates
    BY <1>1, <1>11 DEF ResolveUnknown
  <2>2. PICK id \in EventIds \ minted :
           \/ \E p \in MergeChoices(cand[w]) : Decide(w, Merge(id, cand[w], p[1], p[2]))
           \/ \E ambiguous \in SUBSET {p[1] : p \in MergeChoices(cand[w])},
                 valid, due \in BOOLEAN :
                 Decide(w, ResolveNew(id, cand[w], ambiguous, valid, due))
    BY <1>11 DEF ResolveUnknown
  <2>3. ASSUME NEW p \in MergeChoices(cand[w]), Decide(w, Merge(id, cand[w], p[1], p[2]))
        PROVE  Fine
    <3>1. /\ p[1] \in EventIds /\ p[2] \in Event
          /\ versions[p[1]][1] # None
          /\ \A r \in Records : Owns(versions, p[1], r) => p[2].sources[r] # NotHeld
      BY <2>1, ChoicesRestOnOwner DEF RInv
    <3>2. Refers(versions, Merge(id, cand[w], p[1], p[2]), RecordOf[cand[w]])
      BY <2>1, <3>1, MergeRefers
    <3> QED
      BY <1>9, <2>3, <3>2
  <2>4. ASSUME NEW ambiguous \in SUBSET {p[1] : p \in MergeChoices(cand[w])},
               NEW valid \in BOOLEAN, NEW due \in BOOLEAN,
               Decide(w, ResolveNew(id, cand[w], ambiguous, valid, due))
        PROVE  Fine
    <3>1. \A e \in ambiguous : versions[e][1] # None
      BY <2>1, ChoicesRestOnOwner DEF RInv
    <3>2. Refers(versions, ResolveNew(id, cand[w], ambiguous, valid, due), RecordOf[cand[w]])
      BY <2>1, <3>1, NewRefers
    <3> QED
      BY <1>9, <2>4, <3>2
  <2> QED
    BY <2>2, <2>3, <2>4
<1>12. CASE WriteStep(w)
  <2>1. pc'[w] = "write" /\ known'[w] = known[w] /\ cand'[w] = cand[w]
    BY <1>12 DEF WriteStep
  <2>2. Refers(versions', plan'[w], RecordOf[cand[w]])
    BY <1>12, PlanWrites
  <2>3. ASSUME known[w] # None PROVE Owns(versions', known[w].id, RecordOf[cand[w]])
    <3>1. known[w].id \in EventIds /\ Owns(versions, known[w].id, RecordOf[cand[w]])
      BY <1>1, <1>2, <2>3 DEF Pointer
    <3>2. versions[known[w].id][1] # None /\ Grows(versions, versions')
      BY <3>1, NextGrows DEF Owns, RInv
    <3> QED
      BY <3>1, <3>2, OwnsGrows
  <2> QED
    BY <2>1, <2>2, <2>3
<1>13. CASE WriteReviews(w) \/ ArmTimers(w)
  <2>1. /\ plan[w].writes = <<>> /\ pc'[w] \in {"write", "arm", "point"}
        /\ UNCHANGED <<versions, cand, known, plan>>
    BY <1>1, <1>2, <1>13 DEF WriteReviews, ArmTimers, PutReview, storeVars
  <2> QED
    BY <1>2, <2>1
<1> HIDE DEF Fine
<1>14. Fine
  BY <1>5, <1>6, <1>7, <1>8, <1>10, <1>11, <1>12, <1>13 DEF Resolver, Fine
<1> QED
  BY <1>14 DEF Fine

\* What every invocation has in hand, whoever moved.
LEMMA AllHandsNext ==
    ASSUME RInv, [Next]_vars
    PROVE  KnownRefers' /\ PlansRefer' /\ PhasesHold'
<1>1. /\ known \in [Workers -> Pointer \cup {None}] /\ plan \in [Workers -> GoodPlans]
      /\ IInv /\ Grows(versions, versions')
  BY NextGrows DEF RInv, IInv, WorkerInv, WorkerTypeOK
<1>2. ASSUME NEW v \in Workers, pc'[v] = pc[v], cand'[v] = cand[v],
             known'[v] = known[v], plan'[v] = plan[v]
      PROVE  /\ known'[v] # None => Owns(versions', known'[v].id, RecordOf[cand'[v]])
             /\ plan'[v].subject # None => Refers(versions', plan'[v], RecordOf[cand'[v]])
             /\ pc'[v] = "idle" => known'[v] = None /\ plan'[v].subject = None
             /\ pc'[v] \in {"arm", "point"} => plan'[v].writes = <<>>
  <2>1. ASSUME known[v] # None PROVE Owns(versions', known[v].id, RecordOf[cand[v]])
    <3>1. known[v].id \in EventIds /\ Owns(versions, known[v].id, RecordOf[cand[v]])
      BY <1>1, <2>1 DEF Pointer, RInv, KnownRefers
    <3>2. versions[known[v].id][1] # None
      BY <3>1 DEF Owns
    <3> QED
      BY <1>1, <3>1, <3>2, OwnsGrows
  <2>2. ASSUME plan[v].subject # None PROVE Refers(versions', plan[v], RecordOf[cand[v]])
    <3>1. plan[v] \in GoodPlans /\ plan[v].subject \in EventIds
      BY <1>1, <2>2 DEF GoodPlans
    <3>2. Refers(versions, plan[v], RecordOf[cand[v]])
      BY <2>2 DEF RInv, PlansRefer
    <3> QED
      BY <1>1, <3>1, <3>2, RefersGrows
  <2>3. /\ pc[v] = "idle" => known[v] = None /\ plan[v].subject = None
        /\ pc[v] \in {"arm", "point"} => plan[v].writes = <<>>
    BY DEF RInv, PhasesHold
  <2> QED
    BY <1>2, <2>1, <2>2, <2>3
<1>3. ASSUME NEW v \in Workers
      PROVE  /\ known'[v] # None => Owns(versions', known'[v].id, RecordOf[cand'[v]])
             /\ plan'[v].subject # None => Refers(versions', plan'[v], RecordOf[cand'[v]])
             /\ pc'[v] = "idle" => known'[v] = None /\ plan'[v].subject = None
             /\ pc'[v] \in {"arm", "point"} => plan'[v].writes = <<>>
  BY <1>1, <1>2, WhoMoves, HandsNext
<1> QED
  BY <1>3 DEF KnownRefers, PlansRefer, PhasesHold

\* A pointer is moved by an invocation that has written its whole plan, and the reviews are
\* queued by one.
LEMMA TablesReferNext ==
    ASSUME RInv, [Next]_vars
    PROVE  PointersRefer' /\ ReviewsRefer'
<1>1. /\ pointers \in [Records -> Pointer \cup {None}] /\ reviews \subseteq EventIds \X EventIds
      /\ IInv /\ Grows(versions, versions')
  BY NextGrows DEF RInv, IInv, StoreInv, StoreTypeOK
<1>2. ASSUME NEW r \in Records, pointers[r] # None PROVE Owns(versions', pointers[r].id, r)
  <2>1. pointers[r].id \in EventIds /\ Owns(versions, pointers[r].id, r)
    BY <1>1, <1>2 DEF Pointer, RInv, PointersRefer
  <2>2. versions[pointers[r].id][1] # None
    BY <2>1 DEF Owns
  <2> QED
    BY <1>1, <2>1, <2>2, OwnsGrows
<1>3. \A pair \in reviews : versions'[pair[1]][1] # None /\ versions'[pair[2]][1] # None
  BY <1>1, OwnsGrows DEF RInv, ReviewsRefer
<1>4. ASSUME NEW w \in Workers, MovePointer(w) PROVE PointersRefer' /\ ReviewsRefer'
  <2>1. /\ cand[w] \in Candidates /\ plan[w].subject \in EventIds /\ plan[w].writes = <<>>
        /\ RecordOf[cand[w]] \in Records
    BY <1>4, TypesAssumption
       DEF RInv, IInv, WorkerInv, WorkerTypeOK, MovePointer, PhasesHold
  <2>2. Owns(versions, plan[w].subject, RecordOf[cand[w]])
    BY <2>1, NoneAssumption DEF RInv, PlansRefer, Refers
  <2>3. /\ pointers' = [pointers EXCEPT ![RecordOf[cand[w]]] =
                           [id |-> plan[w].subject, hash |-> cand[w]]]
        /\ UNCHANGED <<versions, reviews>>
    BY <1>4 DEF MovePointer, PutPointer
  <2>4. ASSUME NEW r \in Records, pointers'[r] # None PROVE Owns(versions', pointers'[r].id, r)
    <3>1. CASE r = RecordOf[cand[w]]
      BY <1>1, <2>1, <2>2, <2>3, <3>1
    <3>2. CASE r # RecordOf[cand[w]]
      BY <1>1, <1>2, <2>3, <2>4, <3>2
    <3> QED
      BY <3>1, <3>2
  <2> QED
    BY <1>3, <2>3, <2>4 DEF PointersRefer, ReviewsRefer
<1>5. ASSUME NEW w \in Workers, WriteReviews(w) PROVE PointersRefer' /\ ReviewsRefer'
  <2>1. plan[w].subject \in EventIds /\ plan[w].writes = <<>>
    BY <1>5 DEF RInv, IInv, WorkerInv, WorkerTypeOK, WriteReviews
  <2>2. Refers(versions, plan[w], RecordOf[cand[w]])
    BY <2>1, NoneAssumption DEF RInv, PlansRefer
  <2>3. versions[plan[w].subject][1] # None /\ \A e \in plan[w].reviews : versions[e][1] # None
    BY <2>1, <2>2 DEF Refers, Owns
  <2>4. /\ UNCHANGED <<versions, pointers>>
        /\ \/ UNCHANGED reviews
           \/ \E other \in plan[w].reviews :
                 reviews' = reviews \cup {<<plan[w].subject, other>>}
    BY <1>5 DEF WriteReviews, PutReview, storeVars
  <2> QED
    BY <1>2, <1>3, <2>3, <2>4 DEF PointersRefer, ReviewsRefer
<1>6. CASE UNCHANGED <<pointers, reviews>>
  BY <1>2, <1>3, <1>6 DEF PointersRefer, ReviewsRefer
<1>7. ASSUME NEW w \in Workers, NEW c \in Candidates, Deliver(w, c)
      PROVE  UNCHANGED <<pointers, reviews>>
  BY <1>7 DEF Deliver, storeVars
<1>8. ASSUME NEW w \in Workers, Resolver(w), ~MovePointer(w), ~WriteReviews(w)
      PROVE  UNCHANGED <<pointers, reviews>>
  <2>1. CASE ReadPointer(w) \/ ResolveUnchanged(w) \/ ArmTimers(w)
    BY <2>1 DEF ReadPointer, ResolveUnchanged, ArmTimers, storeVars
  <2>2. CASE ResolveKnown(w)
    BY <2>2 DEF ResolveKnown, Decide, storeVars
  <2>3. CASE ResolveUnknown(w)
    BY <2>3 DEF ResolveUnknown, Decide, storeVars
  <2>4. CASE WriteStep(w)
    BY <2>4 DEF WriteStep, Transact
  <2>5. CASE WriteRefused(w) \/ WriteCancelled(w)
    BY <2>5 DEF WriteRefused, WriteCancelled, AlreadyWritten, Conflict, storeVars
  <2> QED
    BY <1>8, <2>1, <2>2, <2>3, <2>4, <2>5 DEF Resolver
<1>9. ASSUME NEW w \in Workers, Die(w) PROVE UNCHANGED <<pointers, reviews>>
  BY <1>9 DEF Die, storeVars
<1> QED
  BY <1>1, <1>4, <1>5, <1>6, <1>7, <1>8, <1>9, WhoMoves

\* A timer that has a step to write had it before, or has just decided it.
LEMMA WhoWrites ==
    ASSUME IInv, [Next]_vars
    PROVE  \A e \in EventIds : timer'[e] = "writing" =>
              \/ timer[e] = "writing" /\ tick'[e] = tick[e]
              \/ TickExpires(e)
<1>1. timer \in [EventIds -> {"none", "waiting", "writing", "ended"}]
      /\ tick \in [EventIds -> Step \cup {None}]
  BY DEF IInv, TimerInv, TimerTypeOK
<1>2. ASSUME NEW f \in EventIds, Timer(f), NEW e \in EventIds, timer'[e] = "writing"
      PROVE  (timer[e] = "writing" /\ tick'[e] = tick[e]) \/ TickExpires(e)
  BY <1>1, <1>2 DEF Timer, TickExpires, TickEnds, TickWrites, TickSuperseded, Rearm
<1>3. ASSUME NEW w \in Workers, Resolver(w), NEW e \in EventIds, timer'[e] = "writing"
      PROVE  timer[e] = "writing" /\ tick'[e] = tick[e]
  <2>1. CASE ArmTimers(w)
    <3>1. PICK started : timer' = [f \in EventIds |->
              IF f \in started /\ timer[f] = "none" THEN "waiting" ELSE timer[f]]
      BY <2>1 DEF ArmTimers
    <3> QED
      BY <1>3, <2>1, <3>1 DEF ArmTimers
  <2>2. CASE ~ArmTimers(w)
    <3>1. UNCHANGED <<timer, tick>>
      BY <1>3, <2>2 DEF Resolver, ReadPointer, ResolveUnchanged, ResolveKnown,
            ResolveUnknown, Decide, WriteStep, WriteRefused, WriteCancelled, AlreadyWritten,
            Conflict, WriteReviews, MovePointer, timerVars
    <3> QED
      BY <1>3, <3>1
  <2> QED
    BY <2>1, <2>2
<1>4. ASSUME NEW w \in Workers, NEW c \in Candidates, Deliver(w, c)
      PROVE  UNCHANGED <<timer, tick>>
  BY <1>4 DEF Deliver, timerVars
<1>5. ASSUME NEW w \in Workers, Die(w) PROVE UNCHANGED <<timer, tick>>
  BY <1>5 DEF Die, timerVars
<1>6. CASE UNCHANGED vars
  BY <1>6 DEF vars, timerVars
<1> QED
  BY <1>2, <1>3, <1>4, <1>5, <1>6 DEF Next

\* A tick writes to the event it read, and keeps the words of that version.
LEMMA TicksReferNext ==
    ASSUME RInv, [Next]_vars
    PROVE  TicksRefer'
<1>1. IInv /\ OwnersStay /\ Grows(versions, versions')
  BY NextGrows DEF RInv
<1>2. ASSUME NEW e \in EventIds, timer[e] = "writing", tick'[e] = tick[e]
      PROVE  KeepsOwner(versions', tick'[e])
  <2>1. KeepsOwner(versions, tick[e]) /\ tick[e] \in GoodSteps
    BY <1>1, <1>2 DEF RInv, TicksRefer, IInv, TimerInv
  <2>2. tick[e].id \in EventIds
    BY <2>1, GoodStepParts
  <2> QED
    BY <1>1, <1>2, <2>1, <2>2, KeepsGrows
<1>3. ASSUME NEW e \in EventIds, TickExpires(e) PROVE KeepsOwner(versions', tick'[e])
  <2>1. /\ current[e] \in Event /\ current[e] # None
        /\ tick'[e] = Expire(e, current[e]) /\ UNCHANGED versions
    BY <1>1, <1>3 DEF IInv, StoreInv, StoreTypeOK, TimerInv, TimerTypeOK, TickExpires, storeVars
  <2>2. /\ versions[e][1] # None
        /\ \A r \in Records : Owns(versions, e, r) => current[e].sources[r] # NotHeld
    BY <1>1, <2>1, CurrentIsStored, StoredRestsOnOwner
  <2>3. Expire(e, current[e]).id = e
        /\ Expire(e, current[e]).event.sources = current[e].sources
    BY <2>1, AdvanceKeepsWords DEF Expire
  <2> QED
    BY <2>1, <2>2, <2>3 DEF KeepsOwner
<1> QED
  BY <1>1, <1>2, <1>3, WhoWrites DEF TicksRefer

(***************************************************************************)
(* Theorems                                                                *)
(***************************************************************************)

\* The invariant holds at the start.
LEMMA RInvInit == Init => RInv
<1> SUFFICES ASSUME Init PROVE RInv
  OBVIOUS
<1>1. IInv
  BY InitInv
<1>2. OwnersStay /\ PointersRefer /\ ReviewsRefer
  BY DEF Init, StoreInit, OwnersStay, PointersRefer, ReviewsRefer
<1>3. KnownRefers /\ PlansRefer /\ PhasesHold /\ TicksRefer
  BY DEF Init, NoPlan, KnownRefers, PlansRefer, PhasesHold, TicksRefer
<1> QED
  BY <1>1, <1>2, <1>3 DEF RInv

\* And it is inductive.
LEMMA RInvNext == RInv /\ [Next]_vars => RInv'
<1> SUFFICES ASSUME RInv, [Next]_vars PROVE RInv'
  OBVIOUS
<1>1. IInv'
  BY NextInv DEF RInv
<1> QED
  BY <1>1, OwnersStayNext, AllHandsNext, TablesReferNext, TicksReferNext DEF RInv

\* Every event rests in every version on the record that owns it, pointers name events only
\* for their owners, and everything in hand refers to what is stored.
THEOREM OwnersAreKept == Spec => []RInv
BY RInvInit, RInvNext, PTL DEF Spec

\* No record is marked as handled whose event is not stored or no longer rests on it, and no
\* review names an event that is not there, wherever an invocation dies.
THEOREM ReferencesHold == Spec => []ReferencesResolve
<1>1. ASSUME RInv PROVE ReferencesResolve
  <2>1. /\ IInv /\ OwnersStay /\ PointersRefer /\ ReviewsRefer
        /\ pointers \in [Records -> Pointer \cup {None}]
        /\ reviews \subseteq EventIds \X EventIds
    BY <1>1 DEF RInv, IInv, StoreInv, StoreTypeOK
  <2>2. ASSUME NEW r \in Records, pointers[r] # None
        PROVE  /\ current[pointers[r].id] # None
               /\ current[pointers[r].id].sources[r] # NotHeld
    <3> DEFINE e == pointers[r].id
    <3>1. e \in EventIds /\ Owns(versions, e, r) /\ versions[e][1] # None
      BY <2>1, <2>2 DEF Pointer, PointersRefer, Owns
    <3>2. current[e] # None /\ current[e] \in Event
      BY <2>1, <3>1, StoredIsFounded DEF IInv, StoreInv, StoreTypeOK
    <3>3. StoredIn(versions, e, current[e])
      BY <2>1, <3>1, <3>2, CurrentIsStored
    <3> HIDE DEF e
    <3>4. current[e].sources[r] # NotHeld
      BY <2>1, <3>1, <3>2, <3>3, StoredRestsOnOwner
    <3> QED
      BY <3>2, <3>4 DEF e
  <2>3. ASSUME NEW pair \in reviews PROVE current[pair[1]] # None /\ current[pair[2]] # None
    <3>1. /\ pair[1] \in EventIds /\ pair[2] \in EventIds
          /\ versions[pair[1]][1] # None /\ versions[pair[2]][1] # None
      BY <2>1, <2>3 DEF ReviewsRefer
    <3> QED
      BY <2>1, <3>1, StoredIsFounded
  <2> QED
    BY <2>2, <2>3 DEF ReferencesResolve
<1>2. RInv => ReferencesResolve
  BY <1>1
<1> QED
  BY <1>2, OwnersAreKept, PTL

(***************************************************************************)
(* A live parent has the children it names.                                *)
(*                                                                         *)
(* A plan writes the whole child before the parent, and a child once       *)
(* merged stays merged: so whatever version of the parent is looked at,    *)
(* each child it names was merged into it before, and still is.            *)
(***************************************************************************)

\* Some stored version of child was merged into e.
Sealed(vs, child, e) ==
    \E n \in 1..MaxVersion : /\ vs[child][n] # None
                             /\ vs[child][n].state = "merged"
                             /\ e \in vs[child][n].related

\* Step s merges child into e.
Seals(s, child, e) == s.id = child /\ s.event.state = "merged" /\ e \in s.event.related

\* Every child a version of e names was merged into e, unless the version is itself merged.
HasKin(vs, e, event) ==
    event.state # "merged" => \A child \in event.related : Sealed(vs, child, e)

\* The same of a step of a chain, where an earlier step may do the merging.
KinInTurn(vs, q) ==
    \A i \in 1..Len(q) : q[i].event.state # "merged" =>
        \A child \in q[i].event.related :
            \/ Sealed(vs, child, q[i].id)
            \/ \E j \in 1..Len(q) : j < i /\ Seals(q[j], child, q[i].id)

VersionsHaveKin ==
    \A e \in EventIds, n \in 1..MaxVersion :
        versions[e][n] # None => HasKin(versions, e, versions[e][n])

MergesStay ==
    \A e \in EventIds, n \in 1..MaxVersion :
        versions[e][n] # None => StaysMerged(versions[e][n], current[e])

PlansHaveKin == \A w \in Workers : KinInTurn(versions, plan[w].writes)

TicksHaveKin ==
    \A e \in EventIds : timer[e] = "writing" => HasKin(versions, tick[e].id, tick[e].event)

KInv == HInv /\ VersionsHaveKin /\ MergesStay /\ PlansHaveKin /\ TicksHaveKin

\* What was merged is merged in every larger set of versions.
LEMMA SealedGrows ==
    ASSUME NEW vs, NEW us, Grows(vs, us), NEW child \in EventIds, NEW e, Sealed(vs, child, e)
    PROVE  Sealed(us, child, e)
BY DEF Sealed, Grows

\* So a version that has its children keeps them.
LEMMA KinGrows ==
    ASSUME NEW vs, NEW us, Grows(vs, us), NEW e, NEW event \in Event, HasKin(vs, e, event)
    PROVE  HasKin(us, e, event)
<1>1. event.related \subseteq EventIds
  BY DEF Event
<1> QED
  BY <1>1, SealedGrows DEF HasKin

\* And so does a chain.
LEMMA TurnGrows ==
    ASSUME NEW vs, NEW us, Grows(vs, us), NEW q \in Seq(GoodSteps), KinInTurn(vs, q)
    PROVE  KinInTurn(us, q)
<1>1. ASSUME NEW i \in 1..Len(q) PROVE q[i].event.related \subseteq EventIds
  <2>1. q[i] \in GoodSteps
    BY ElementOfSeq
  <2> QED
    BY <2>1, GoodStepParts DEF Event
<1> QED
  BY <1>1, SealedGrows DEF KinInTurn

\* Once its first step is stored, the rest of a chain has the children it names.
LEMMA TurnTail ==
    ASSUME NEW us, NEW q \in Seq(GoodSteps), q # <<>>, KinInTurn(us, q),
           us[Head(q).id][Head(q).event.version] = Head(q).event
    PROVE  KinInTurn(us, Tail(q))
<1>1. /\ Len(Tail(q)) = Len(q) - 1 /\ Len(q) \in Nat \ {0} /\ Head(q) = q[1]
      /\ \A i \in 1..Len(Tail(q)) : Tail(q)[i] = q[i + 1]
  OBVIOUS
<1>2. /\ q[1].event # None /\ q[1].event.version \in 1..MaxVersion
  <2>1. q[1] \in GoodSteps
    BY <1>1, ElementOfSeq
  <2> QED
    BY <2>1, GoodStepParts
<1>3. ASSUME NEW i \in 1..Len(Tail(q)), Tail(q)[i].event.state # "merged",
             NEW child \in Tail(q)[i].event.related
      PROVE  \/ Sealed(us, child, Tail(q)[i].id)
             \/ \E j \in 1..Len(Tail(q)) : j < i /\ Seals(Tail(q)[j], child, Tail(q)[i].id)
  <2>1. i + 1 \in 1..Len(q) /\ Tail(q)[i] = q[i + 1]
    BY <1>1
  <2>2. \/ Sealed(us, child, q[i + 1].id)
        \/ \E j \in 1..Len(q) : j < i + 1 /\ Seals(q[j], child, q[i + 1].id)
    BY <1>3, <2>1 DEF KinInTurn
  <2>3. ASSUME NEW j \in 1..Len(q), j < i + 1, Seals(q[j], child, q[i + 1].id)
        PROVE  \/ Sealed(us, child, q[i + 1].id)
               \/ \E k \in 1..Len(Tail(q)) : k < i /\ Seals(Tail(q)[k], child, q[i + 1].id)
    <3>1. CASE j = 1
      BY <1>1, <1>2, <2>3, <3>1 DEF Seals, Sealed
    <3>2. CASE j # 1
      <4>1. j - 1 \in 1..Len(Tail(q)) /\ j - 1 < i /\ Tail(q)[j - 1] = q[j]
        BY <1>1, <2>3, <3>2
      <4> QED
        BY <2>3, <4>1
    <3> QED
      BY <3>1, <3>2
  <2> QED
    BY <2>1, <2>2, <2>3
<1> QED
  BY <1>3 DEF KinInTurn

\* A step that names no children needs none.
LEMMA AdvanceKeepsKin ==
    ASSUME NEW id, NEW event \in Event, NEW to, NEW trigger
    PROVE  /\ Advance(id, event, to, trigger).id = id
           /\ Advance(id, event, to, trigger).event.related = event.related
           /\ Advance(id, event, to, trigger).event.state = to
BY DEF Advance, StepTo, Revise, Event

\* A new event names nobody.
LEMMA NewHasKin ==
    ASSUME NEW vs, NEW id \in EventIds, NEW c \in Candidates, NEW ambiguous,
           NEW valid \in BOOLEAN, NEW due \in BOOLEAN
    PROVE  KinInTurn(vs, ResolveNew(id, c, ambiguous, valid, due).writes)
<1> DEFINE first     == FirstStep(id, c)
           event     == EventFromCandidate(c)
           validated == Advance(id, event, "validated", "validation_pass")
           cleared   == Advance(id, event, "cleared", "validation_fail")
           started   == Advance(id, validated.event, "active", "source_update")
           q         == ResolveNew(id, c, ambiguous, valid, due).writes
<1>1. event \in Event /\ event.related = {} /\ first.event = event
  BY FirstStepGood DEF EventFromCandidate
<1>2. validated.event.related = {} /\ cleared.event.related = {}
  BY <1>1, AdvanceKeepsKin
<1>3. started.event.related = {}
  BY <1>1 DEF Advance, StepTo, Revise, Event
<1>4. q \in {<<first>> \o <<cleared>>, <<first>> \o <<validated>>,
             <<first>> \o <<validated, started>>}
  BY DEF ResolveNew, Promote
<1> HIDE DEF q, first, event, validated, cleared, started
<1>5. \A i \in 1..Len(q) : q[i] \in {first, validated, cleared, started}
  BY <1>4
<1> QED
  BY <1>1, <1>2, <1>3, <1>5 DEF KinInTurn, q

\* An update names whom the event named.
LEMMA UpdateHasKin ==
    ASSUME NEW vs, NEW id \in EventIds, NEW event \in Event, NEW c \in Candidates,
           NEW due \in BOOLEAN, HasKin(vs, id, event)
    PROVE  KinInTurn(vs, ResolveUpdate(id, event, c, due).writes)
<1> DEFINE noted   == StepTo(id, Revise(event, event.state), event.state, "source_update")
           updated == [noted EXCEPT !.event.sources = Superseded(event, c)]
           started == Advance(id, updated.event, "active", "source_update")
           q       == ResolveUpdate(id, event, c, due).writes
<1>1. /\ noted.id = id /\ noted.event.related = event.related
      /\ noted.event.state = event.state
  BY DEF StepTo, Revise, Event
<1>2. updated.event = [version |-> event.version + 1, state |-> event.state,
                       sources |-> Superseded(event, c), related |-> event.related]
      /\ updated.id = id
  BY DEF StepTo, Revise, Event
<1>3. started.id = id /\ started.event.related = event.related
  <2>1. started.id = id
    BY DEF Advance, StepTo
  <2> HIDE DEF updated
  <2>2. started.event.related = updated.event.related
    BY <1>2 DEF Advance, StepTo, Revise
  <2> QED
    BY <1>2, <2>1, <2>2
<1>4. q = IF Late(event, c) THEN <<noted>>
          ELSE IF event.state = "validated" /\ due THEN <<updated, started>>
          ELSE <<updated>>
  BY DEF ResolveUpdate, NoPlan
<1> HIDE DEF q, noted, updated, started
<1>5. \A i \in 1..Len(q) : q[i] \in {noted, updated}
                           \/ (q[i] = started /\ event.state = "validated")
  BY <1>4
<1>6. ASSUME NEW i \in 1..Len(q), q[i].event.state # "merged"
      PROVE  q[i].id = id /\ q[i].event.related = event.related /\ event.state # "merged"
  BY <1>1, <1>2, <1>3, <1>5, <1>6
<1>7. \A i \in 1..Len(q) : q[i].event.state # "merged" =>
         \A child \in q[i].event.related : Sealed(vs, child, q[i].id)
  BY <1>6 DEF HasKin
<1> QED
  BY <1>7 DEF KinInTurn, q

\* A merge's parent names whom it named, and the child that the step before merges into it.
LEMMA MergeHasKin ==
    ASSUME NEW vs, NEW child \in EventIds, NEW c \in Candidates, NEW parentId \in EventIds,
           NEW parent \in Event, Matchable(parent, c), HasKin(vs, parentId, parent)
    PROVE  KinInTurn(vs, Merge(child, c, parentId, parent).writes)
<1> DEFINE reported  == FirstStep(child, c)
           validated == Advance(child, reported.event, "validated", "validation_pass")
           merged    == Advance(child, validated.event, "merged", "dedup_decision")
           named     == [merged EXCEPT !.event.related = @ \cup {parentId}]
           absorb    == Absorb(parentId, parent, child, c)
           q         == Merge(child, c, parentId, parent).writes
<1>1. reported.event \in Event /\ reported.event.related = {}
  <2>1. reported.event = EventFromCandidate(c) /\ EventFromCandidate(c) \in Event
    BY FirstStepGood
  <2> QED
    BY <2>1 DEF EventFromCandidate
<1>2. validated.event.related = {}
  BY <1>1, AdvanceKeepsKin
<1>3. named.id = child /\ named.event.state = "merged" /\ parentId \in named.event.related
  BY <1>1 DEF Advance, StepTo, Revise, Event
<1>4. absorb.id = parentId /\ absorb.event.related = parent.related \cup {child}
  BY DEF Absorb, StepTo, Revise, Event
<1>5. parent.state # "merged"
  BY DEF Matchable, MATCHABLE_STATES
<1>6. q = <<reported, validated, named>> \o <<absorb>>
  BY DEF Merge, ChildSteps
<1> HIDE DEF q, reported, validated, merged, named, absorb
<1>7. /\ Len(q) = 4 /\ q[1] = reported /\ q[2] = validated /\ q[3] = named /\ q[4] = absorb
      /\ \A i \in 1..Len(q) : i \in {1, 2, 3, 4}
  BY <1>6
<1>8. ASSUME NEW x \in absorb.event.related
      PROVE  Sealed(vs, x, absorb.id)
             \/ \E j \in 1..Len(q) : j < 4 /\ Seals(q[j], x, absorb.id)
  <2>1. CASE x \in parent.related
    BY <1>4, <1>5, <2>1 DEF HasKin
  <2>2. CASE x = child
    <3>1. 3 \in 1..Len(q) /\ 3 < 4 /\ Seals(q[3], x, absorb.id)
      BY <1>3, <1>4, <1>7, <2>2 DEF Seals
    <3> QED
      BY <3>1
  <2> QED
    BY <1>4, <1>8, <2>1, <2>2
<1>9. ASSUME NEW i \in 1..Len(q), q[i].event.state # "merged", NEW x \in q[i].event.related
      PROVE  Sealed(vs, x, q[i].id) \/ \E j \in 1..Len(q) : j < i /\ Seals(q[j], x, q[i].id)
  <2>1. i # 1 /\ i # 2 /\ i # 3
    BY <1>1, <1>2, <1>3, <1>7, <1>9
  <2>2. i = 4
    BY <1>7, <2>1
  <2> QED
    BY <1>7, <1>8, <1>9, <2>2
<1> QED
  BY <1>9 DEF KinInTurn, q

\* A transaction of a step that names only children it has.
LEMMA TransactHasKin ==
    ASSUME IInv, VersionsHaveKin, NEW s \in GoodSteps, Transact(s),
           HasKin(versions, s.id, s.event), Grows(versions, versions')
    PROVE  VersionsHaveKin'
<1>1. s.id \in EventIds /\ s.event.version \in 1..MaxVersion /\ s.event \in Event
  BY GoodStepParts
<1>2. /\ versions'[s.id][s.event.version] = s.event
      /\ \A e \in EventIds, n \in 1..MaxVersion :
            e # s.id \/ n # s.event.version => versions'[e][n] = versions[e][n]
  BY TransactAppends DEF IInv, StoreInv
<1>3. ASSUME NEW e \in EventIds, NEW n \in 1..MaxVersion, versions'[e][n] # None
      PROVE  HasKin(versions', e, versions'[e][n])
  <2>1. CASE e = s.id /\ n = s.event.version
    BY <1>1, <1>2, <2>1, KinGrows
  <2>2. CASE ~(e = s.id /\ n = s.event.version)
    <3>1. versions'[e][n] = versions[e][n] /\ versions[e][n] # None
      BY <1>2, <1>3, <2>2
    <3>2. versions[e] \in [1..MaxVersion -> Event \cup {None}]
      BY DEF IInv, StoreInv, StoreTypeOK
    <3>3. versions[e][n] \in Event
      BY <3>1, <3>2
    <3> QED
      BY <3>1, <3>3, KinGrows DEF VersionsHaveKin
  <2> QED
    BY <2>1, <2>2
<1> QED
  BY <1>3 DEF VersionsHaveKin

\* A transaction of a step that was decided on a stored version undoes no merge.
LEMMA TransactStaysMerged ==
    ASSUME IInv, MergesStay, NEW s \in LegalSteps, Based(versions, s), Transact(s)
    PROVE  MergesStay'
<1>1. /\ s \in GoodSteps /\ s.id \in EventIds /\ s.event.version \in 1..MaxVersion
      /\ (s.creating <=> s.event.version = 1)
      /\ current \in [EventIds -> Event \cup {None}]
  BY GoodStepParts DEF LegalSteps, IInv, StoreInv, StoreTypeOK
<1>2. /\ versions'[s.id][s.event.version] = s.event
      /\ \A e \in EventIds, n \in 1..MaxVersion :
            e # s.id \/ n # s.event.version => versions'[e][n] = versions[e][n]
  BY <1>1, TransactAppends DEF IInv, StoreInv
<1>3. current' = [current EXCEPT ![s.id] = s.event]
  BY DEF Transact
<1>4. ASSUME NEW e \in EventIds, NEW n \in 1..MaxVersion, versions'[e][n] # None
      PROVE  StaysMerged(versions'[e][n], current'[e])
  <2>1. CASE e = s.id /\ n = s.event.version
    BY <1>1, <1>2, <1>3, <2>1 DEF StaysMerged
  <2>2. CASE e = s.id /\ n # s.event.version
    <3>1. versions'[e][n] = versions[e][n] /\ versions[e][n] # None
      BY <1>2, <1>4, <2>2
    <3>2. current[e] # None /\ StaysMerged(versions[e][n], current[e])
      BY <3>1, StoredIsFounded DEF MergesStay
    <3>3. ~s.creating /\ current[e].version = s.event.version - 1
      BY <2>2, <3>2 DEF Transact, Admits
    <3>4. StoredIn(versions, e, current[e])
      BY <3>2, CurrentIsStored
    <3>5. StaysMerged(current[e], s.event)
      BY <2>2, <3>3, <3>4 DEF Based, StoredIn, Succeeds
    <3> QED
      BY <1>1, <1>3, <2>2, <3>1, <3>2, <3>5 DEF StaysMerged
  <2>3. CASE e # s.id
    BY <1>1, <1>2, <1>3, <1>4, <2>3 DEF MergesStay
  <2> QED
    BY <2>1, <2>2, <2>3
<1> QED
  BY <1>4 DEF MergesStay

\* The first step of an invocation's chain has the children it names.
LEMMA HeadHasKin ==
    ASSUME NEW vs, NEW q \in Seq(GoodSteps), q # <<>>, KinInTurn(vs, q)
    PROVE  HasKin(vs, Head(q).id, Head(q).event)
<1>1. 1 \in 1..Len(q) /\ Head(q) = q[1] /\ ~\E j \in 1..Len(q) : j < 1
  OBVIOUS
<1> QED
  BY <1>1 DEF KinInTurn, HasKin

\* Stored versions have the children they name, and no merge is undone.
LEMMA VersionsHaveKinNext ==
    ASSUME KInv, [Next]_vars
    PROVE  VersionsHaveKin' /\ MergesStay'
<1>1. HInv /\ IInv /\ Grows(versions, versions')
  BY NextGrows DEF KInv, HInv
<1>2. CASE UNCHANGED <<versions, audit, current>>
  BY <1>2 DEF KInv, VersionsHaveKin, HasKin, Sealed, MergesStay
<1>3. MergesStay'
  BY <1>1, <1>2, OneLegalStep, TransactStaysMerged DEF KInv
<1>4. ASSUME NEW w \in Workers, WriteStep(w) PROVE VersionsHaveKin'
  <2>1. /\ plan[w].writes \in Seq(GoodSteps) /\ plan[w].writes # <<>>
        /\ Head(plan[w].writes) \in GoodSteps /\ Transact(Head(plan[w].writes))
    BY <1>1, <1>4, NextWriteGood DEF IInv, GoodPlans, WriteStep
  <2>2. HasKin(versions, Head(plan[w].writes).id, Head(plan[w].writes).event)
    BY <2>1, HeadHasKin DEF KInv, PlansHaveKin
  <2> QED
    BY <1>1, <2>1, <2>2, TransactHasKin DEF KInv
<1>5. ASSUME NEW e \in EventIds, TickWrites(e) PROVE VersionsHaveKin'
  <2>1. tick[e] \in GoodSteps /\ Transact(tick[e])
        /\ HasKin(versions, tick[e].id, tick[e].event)
    BY <1>1, <1>5 DEF KInv, TicksHaveKin, IInv, TimerInv, TickWrites
  <2> QED
    BY <1>1, <2>1, TransactHasKin DEF KInv
<1> QED
  BY <1>2, <1>3, <1>4, <1>5, OnlyWritersWrite

\* What is decided in one step has the children it names.
LEMMA DecisionsHaveKin ==
    ASSUME KInv, NEW w \in Workers, ResolveKnown(w) \/ ResolveUnknown(w)
    PROVE  /\ \A v \in Workers \ {w} : plan'[v] = plan[v]
           /\ KinInTurn(versions, plan'[w].writes)
<1>1. IInv /\ plan \in [Workers -> GoodPlans] /\ known \in [Workers -> Pointer \cup {None}]
      /\ (pc[w] # "idle" => cand[w] \in Candidates)
  BY DEF KInv, HInv, IInv, WorkerInv, WorkerTypeOK
<1>2. ASSUME NEW p, Decide(w, p), KinInTurn(versions, p.writes)
      PROVE  /\ \A v \in Workers \ {w} : plan'[v] = plan[v]
             /\ KinInTurn(versions, plan'[w].writes)
  BY <1>1, <1>2 DEF Decide
<1>3. ASSUME NEW e \in EventIds, NEW event \in Event, StoredIn(versions, e, event)
      PROVE  HasKin(versions, e, event)
  <2>1. event.version \in 1..MaxVersion
    BY DEF Event
  <2> QED
    BY <1>3, <2>1 DEF KInv, VersionsHaveKin, StoredIn
<1>4. CASE ResolveKnown(w)
  <2> DEFINE id == known[w].id
  <2>1. id \in EventIds /\ current[id] # None /\ cand[w] \in Candidates
    BY <1>1, <1>4 DEF ResolveKnown, IsKnown, Pointer
  <2>2. current[id] \in Event /\ StoredIn(versions, id, current[id])
    BY <1>1, <2>1, CurrentIsStored DEF IInv, StoreInv, StoreTypeOK
  <2>3. PICK due \in BOOLEAN : Decide(w, ResolveUpdate(id, current[id], cand[w], due))
    BY <1>4 DEF ResolveKnown
  <2> HIDE DEF id
  <2>4. KinInTurn(versions, ResolveUpdate(id, current[id], cand[w], due).writes)
    BY <1>3, <2>1, <2>2, UpdateHasKin
  <2> QED
    BY <1>2, <2>3, <2>4
<1>5. CASE ResolveUnknown(w)
  <2>1. cand[w] \in Candidates
    BY <1>1, <1>5 DEF ResolveUnknown
  <2>2. PICK id \in EventIds \ minted :
           \/ \E p \in MergeChoices(cand[w]) : Decide(w, Merge(id, cand[w], p[1], p[2]))
           \/ \E ambiguous \in SUBSET {p[1] : p \in MergeChoices(cand[w])},
                 valid, due \in BOOLEAN :
                 Decide(w, ResolveNew(id, cand[w], ambiguous, valid, due))
    BY <1>5 DEF ResolveUnknown
  <2>3. ASSUME NEW p \in MergeChoices(cand[w])
        PROVE  KinInTurn(versions, Merge(id, cand[w], p[1], p[2]).writes)
    <3>1. p[1] \in EventIds /\ p[2] \in Event /\ Matchable(p[2], cand[w])
          /\ StoredIn(versions, p[1], p[2])
      BY <1>1, <2>1, MergeChoicesType, MergeChoiceIsStored
    <3> QED
      BY <1>3, <2>1, <3>1, MergeHasKin
  <2>4. \A ambiguous, valid, due : valid \in BOOLEAN /\ due \in BOOLEAN =>
           KinInTurn(versions, ResolveNew(id, cand[w], ambiguous, valid, due).writes)
    BY <2>1, NewHasKin
  <2> QED
    BY <1>2, <2>2, <2>3, <2>4
<1> QED
  BY <1>4, <1>5

\* So have the plans of all invocations.
LEMMA PlansHaveKinNext ==
    ASSUME KInv, [Next]_vars
    PROVE  PlansHaveKin'
<1>1. IInv /\ Grows(versions, versions') /\ plan \in [Workers -> GoodPlans]
  BY NextGrows DEF KInv, HInv, IInv, WorkerInv
<1>2. \A v \in Workers : plan[v].writes \in Seq(GoodSteps)
                         /\ KinInTurn(versions, plan[v].writes)
  BY <1>1 DEF GoodPlans, KInv, PlansHaveKin
<1>3. \A v \in Workers : KinInTurn(versions', plan[v].writes)
  BY <1>1, <1>2, TurnGrows
<1>4. KinInTurn(versions', <<>>) /\ NoPlan.writes = <<>>
  BY DEF KinInTurn, NoPlan
<1>5. CASE \A v \in Workers : plan'[v] \in {plan[v], NoPlan}
  BY <1>3, <1>4, <1>5 DEF PlansHaveKin
<1>6. ASSUME NEW w \in Workers, ResolveKnown(w) \/ ResolveUnknown(w) PROVE PlansHaveKin'
  <2>1. UNCHANGED versions
    BY <1>6 DEF ResolveKnown, ResolveUnknown, Decide, storeVars
  <2> QED
    BY <1>3, <1>6, <2>1, DecisionsHaveKin DEF PlansHaveKin
<1>7. ASSUME NEW w \in Workers, WriteStep(w) PROVE PlansHaveKin'
  <2> DEFINE q == plan[w].writes
  <2>1. q \in Seq(GoodSteps) /\ q # <<>> /\ Head(q) \in GoodSteps /\ Transact(Head(q))
    BY <1>1, <1>2, <1>7, NextWriteGood DEF IInv, WriteStep
  <2>2. versions'[Head(q).id][Head(q).event.version] = Head(q).event
    BY <1>1, <2>1, TransactAppends DEF IInv, StoreInv
  <2>3. KinInTurn(versions', Tail(q))
    BY <1>3, <2>1, <2>2, TurnTail
  <2>4. /\ plan'[w].writes = Tail(q) /\ \A v \in Workers \ {w} : plan'[v] = plan[v]
    BY <1>1, <1>7 DEF WriteStep, GoodPlans
  <2> QED
    BY <1>3, <2>3, <2>4 DEF PlansHaveKin
<1>8. ASSUME NEW w \in Workers, Resolver(w), ~ResolveKnown(w), ~ResolveUnknown(w), ~WriteStep(w)
      PROVE  \A v \in Workers : plan'[v] \in {plan[v], NoPlan}
  <2>1. CASE ReadPointer(w) \/ WriteReviews(w) \/ ArmTimers(w)
    BY <2>1 DEF ReadPointer, WriteReviews, ArmTimers
  <2>2. CASE ResolveUnchanged(w) \/ MovePointer(w)
    BY <1>1, <2>2 DEF ResolveUnchanged, MovePointer, Leave
  <2>3. CASE WriteRefused(w) \/ WriteCancelled(w)
    BY <1>1, <2>3 DEF WriteRefused, WriteCancelled, AlreadyWritten, Conflict, Leave
  <2> QED
    BY <1>8, <2>1, <2>2, <2>3 DEF Resolver
<1>9. ASSUME NEW w \in Workers, (\E c \in Candidates : Deliver(w, c)) \/ Die(w)
      PROVE  \A v \in Workers : plan'[v] \in {plan[v], NoPlan}
  BY <1>1, <1>9 DEF Deliver, Die, Leave
<1>10. ASSUME NEW e \in EventIds, Timer(e) PROVE UNCHANGED plan
  BY <1>10 DEF Timer, TickExpires, TickEnds, TickWrites, TickSuperseded, workerVars
<1>11. ASSUME UNCHANGED vars PROVE UNCHANGED plan
  BY <1>11 DEF vars, workerVars
<1> QED
  BY <1>5, <1>6, <1>7, <1>8, <1>9, <1>10, <1>11 DEF Next

\* And the pending steps of the timers: only a version with its children can lapse.
LEMMA TicksHaveKinNext ==
    ASSUME KInv, [Next]_vars
    PROVE  TicksHaveKin'
<1>1. IInv /\ Grows(versions, versions')
  BY NextGrows DEF KInv, HInv
<1>2. ASSUME NEW e \in EventIds, timer[e] = "writing", tick'[e] = tick[e]
      PROVE  HasKin(versions', tick'[e].id, tick'[e].event)
  <2>1. tick[e] \in GoodSteps /\ HasKin(versions, tick[e].id, tick[e].event)
    BY <1>1, <1>2 DEF KInv, TicksHaveKin, IInv, TimerInv
  <2>2. tick[e].event \in Event
    BY <2>1, GoodStepParts
  <2> QED
    BY <1>1, <1>2, <2>1, <2>2, KinGrows
<1>3. ASSUME NEW e \in EventIds, TickExpires(e)
      PROVE  HasKin(versions', tick'[e].id, tick'[e].event)
  <2>1. /\ current[e] \in Event /\ current[e] # None /\ current[e].state # "merged"
        /\ tick'[e] = Expire(e, current[e]) /\ UNCHANGED versions
    BY <1>1, <1>3 DEF IInv, StoreInv, StoreTypeOK, TimerInv, TimerTypeOK, TickExpires,
                      storeVars, OnLadder, TTL_LADDER
  <2>2. StoredIn(versions, e, current[e]) /\ current[e].version \in 1..MaxVersion
    BY <1>1, <2>1, CurrentIsStored DEF Event
  <2>3. HasKin(versions, e, current[e])
    BY <2>2 DEF KInv, VersionsHaveKin, StoredIn
  <2>4. Expire(e, current[e]).id = e
        /\ Expire(e, current[e]).event.related = current[e].related
    BY <2>1, AdvanceKeepsKin DEF Expire
  <2> QED
    BY <2>1, <2>3, <2>4 DEF HasKin
<1> QED
  BY <1>1, <1>2, <1>3, WhoWrites DEF TicksHaveKin

\* The invariant holds at the start and is inductive.
LEMMA KInvInductive == (Init => KInv) /\ (KInv /\ [Next]_vars => KInv')
<1>1. ASSUME Init PROVE KInv
  <2>1. VersionsHaveKin /\ MergesStay /\ TicksHaveKin
    BY <1>1 DEF Init, StoreInit, VersionsHaveKin, MergesStay, TicksHaveKin
  <2>2. PlansHaveKin
    BY <1>1 DEF Init, NoPlan, PlansHaveKin, KinInTurn
  <2> QED
    BY <1>1, <2>1, <2>2, HInvInit DEF KInv
<1>2. ASSUME KInv, [Next]_vars PROVE KInv'
  BY <1>2, HInvNext, VersionsHaveKinNext, PlansHaveKinNext, TicksHaveKinNext DEF KInv
<1> QED
  BY <1>1, <1>2

\* Every version, stored or still to be written, has the children it names.
THEOREM FamiliesAreWhole == Spec => []KInv
BY KInvInductive, PTL DEF Spec

\* A live parent has every event it says it absorbed, stored in `merged` and naming it back,
\* even while a merge is half written or was abandoned there.
THEOREM ParentsHaveChildren == Spec => []AbsorbedHasChild
<1>1. ASSUME KInv PROVE AbsorbedHasChild
  <2>1. IInv /\ VersionsHaveKin /\ MergesStay
    BY <1>1 DEF KInv, HInv
  <2>2. ASSUME NEW e \in EventIds, current[e] # None, current[e].state # "merged",
               NEW child \in current[e].related
        PROVE  /\ current[child] # None
               /\ current[child].state = "merged"
               /\ e \in current[child].related
    <3>1. current[e] \in Event /\ StoredIn(versions, e, current[e])
      BY <2>1, <2>2, CurrentIsStored DEF IInv, StoreInv, StoreTypeOK
    <3>2. child \in EventIds /\ current[e].version \in 1..MaxVersion
      BY <2>2, <3>1 DEF Event
    <3>3. Sealed(versions, child, e)
      BY <2>1, <2>2, <3>1, <3>2 DEF VersionsHaveKin, HasKin, StoredIn
    <3>4. PICK n \in 1..MaxVersion : /\ versions[child][n] # None
                                     /\ versions[child][n].state = "merged"
                                     /\ e \in versions[child][n].related
      BY <3>3 DEF Sealed
    <3>5. current[child] # None
      BY <2>1, <3>2, <3>4, StoredIsFounded
    <3>6. StaysMerged(versions[child][n], current[child])
      BY <2>1, <3>2, <3>4 DEF MergesStay
    <3> QED
      BY <3>4, <3>5, <3>6 DEF StaysMerged
  <2> QED
    BY <2>2 DEF AbsorbedHasChild
<1>2. KInv => AbsorbedHasChild
  BY <1>1
<1> QED
  BY <1>2, FamiliesAreWhole, PTL
================================================================================
