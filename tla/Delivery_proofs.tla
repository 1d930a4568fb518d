----------------------------- MODULE Delivery_proofs -----------------------------
(***************************************************************************)
(* What the delivery pipeline keeps, for any payloads and candidates, any  *)
(* batch size, any number of retries and any set of failing messages.      *)
(***************************************************************************)
EXTENDS Delivery, TLAPS

USE DeliveryAssumption DEF Message, Replays

LEMMA QueueFacts ==
    /\ QueueNames = {"normalizer", "rule", "resolver", "resolver_rule"}
    /\ DOMAIN Queues = 1..4 /\ Len(Queues) = 4
    /\ \A m : HandlerDlq(m) \in QueueNames /\ RuleDlq(m) \in QueueNames
<1>1. DOMAIN Queues = 1..4 /\ Len(Queues) = 4
  BY DEF Queues
<1>2. QueueNames = {"normalizer", "rule", "resolver", "resolver_rule"}
  BY <1>1 DEF QueueNames, Queues
<1> QED
  BY <1>1, <1>2 DEF HandlerDlq, RuleDlq

\* What an accepted call of PutEvents can do.
LEMMA PutGrows ==
    ASSUME NEW entries, PutEvents(entries)
    PROVE  /\ bus \subseteq bus' /\ bus' \subseteq bus \cup entries
           /\ accepted \subseteq accepted' /\ accepted' \subseteq accepted \cup entries
           /\ bus' \ bus \subseteq accepted'
           /\ ~LossyPut => accepted' = accepted \cup entries
           /\ UNCHANGED repeats
  BY DEF PutEvents, Takes

LEMMA BatchType ==
    ASSUME NEW p \in Polls
    PROVE  Batch(p) \subseteq Candidates
  BY DEF Batch

LEMMA RestartType ==
    ASSUME TypeOK, NEW m \in Message, NEW n \in 0..Synchronous, Restart(m, n)
    PROVE  /\ attempt' \in [Message -> 0..Synchronous]
           /\ published' \in [Polls -> Nat]
  BY DEF Restart, TypeOK

LEMMA AttemptBounds ==
    /\ Attempts \in Nat \ {0}
    /\ Synchronous = Attempts + 1
  BY DEF Attempts, Synchronous

LEMMA InitType == Init => TypeOK
  BY QueueFacts DEF Init, TypeOK, Idle, Synchronous, Attempts

LEMMA SourceType ==
    ASSUME TypeOK, NEW p \in Polls, StoreRaw(p) \/ AnnounceRaw(p) \/ CollectorEnds(p)
    PROVE  TypeOK'
<1>1. CASE StoreRaw(p)
  BY <1>1 DEF StoreRaw, TypeOK, busVars, lambdaVars
<1>2. CASE AnnounceRaw(p)
  <2>1. bus' \subseteq Message /\ accepted' \subseteq Message /\ repeats' = repeats
    BY <1>2, PutGrows DEF AnnounceRaw, TypeOK
  <2> QED
    BY <1>2, <2>1 DEF AnnounceRaw, TypeOK, lambdaVars
<1>3. CASE CollectorEnds(p)
  BY <1>3 DEF CollectorEnds, TypeOK, busVars, lambdaVars
<1> QED
  BY <1>1, <1>2, <1>3

LEMMA BusType ==
    ASSUME TypeOK, NEW m \in Message, BusDelivers(m) \/ BusGivesUp(m)
    PROVE  TypeOK'
<1>1. CASE BusDelivers(m)
  <2>1. attempt' \in [Message -> 0..Synchronous]
    BY <1>1 DEF BusDelivers, TypeOK, Synchronous, Attempts
  <2>2. repeats' \in 0..MaxRepeats /\ bus' \subseteq Message
    BY <1>1 DEF BusDelivers, TypeOK
  <2> QED
    BY <1>1, <2>1, <2>2 DEF BusDelivers, TypeOK, sourceVars
<1>2. CASE BusGivesUp(m)
  <2>1. letters' \in [QueueNames -> SUBSET Message]
    BY <1>2, QueueFacts DEF BusGivesUp, TypeOK
  <2> QED
    BY <1>2, <2>1 DEF BusGivesUp, TypeOK, sourceVars, lambdaVars
<1> QED
  BY <1>1, <1>2

LEMMA ReportedType ==
    ASSUME TypeOK, NEW m, NEW o \in {"returned", "raised"}
    PROVE  Reported(m, o) \in Replays
  BY DEF Reported, TypeOK

LEMMA HandlerType ==
    ASSUME TypeOK, NEW m \in Message, Handler(m) \/ Raise(m)
    PROVE  TypeOK'
<1>1. ASSUME Returns(m), UNCHANGED busVars, quarantined' \subseteq Polls
      PROVE  TypeOK'
  <2>1. attempt' \in [Message -> 0..Synchronous] /\ published' \in [Polls -> Nat]
    <3>1. Restart(m, 0) /\ 0 \in 0..Synchronous
      BY <1>1, AttemptBounds DEF Returns
    <3> QED
      BY <3>1, RestartType
  <2>2. done' \subseteq Message
    BY <1>1 DEF Returns, TypeOK
  <2>3. replay' \in Replays
    BY <1>1, ReportedType DEF Returns
  <2> QED
    BY <1>1, <2>1, <2>2, <2>3 DEF Returns, TypeOK, sourceVars, busVars
<1>2. CASE m \in Polls /\ PublishBatch(m)
  <2>1. bus' \subseteq Message /\ accepted' \subseteq Message /\ repeats' = repeats
    BY <1>2, PutGrows, BatchType DEF PublishBatch, TypeOK
  <2>2. published' \in [Polls -> Nat]
    BY <1>2 DEF PublishBatch, TypeOK
  <2> QED
    BY <1>2, <2>1, <2>2 DEF PublishBatch, TypeOK, sourceVars
<1>3. CASE Normalized(m)
  BY <1>1, <1>3 DEF Normalized, TypeOK
<1>4. CASE m \in Polls /\ Quarantine(m)
  <2>1. quarantined' \subseteq Polls
    BY <1>4 DEF Quarantine, Takes, TypeOK
  <2> QED
    BY <1>1, <1>4, <2>1 DEF Quarantine
<1>5. CASE Resolve(m)
  BY <1>1, <1>5 DEF Resolve, TypeOK
<1>6. CASE Raise(m)
  <2>1. attempt' \in [Message -> 0..Synchronous] /\ published' \in [Polls -> Nat]
    <3>1. PICK n \in 0..Synchronous : Restart(m, n)
      BY <1>6, AttemptBounds DEF Raise, TypeOK
    <3> QED
      BY <3>1, RestartType
  <2>2. letters' \in [QueueNames -> SUBSET Message]
    <3>1. HandlerDlq(m) \in QueueNames
      BY QueueFacts
    <3>2. letters' = letters \/ letters' = [letters EXCEPT ![HandlerDlq(m)] = @ \cup {m}]
      BY <1>6 DEF Raise
    <3> QED
      BY <3>1, <3>2 DEF TypeOK
  <2> QED
    BY <1>6, <2>1, <2>2, ReportedType DEF Raise, TypeOK, sourceVars, busVars
<1> QED
  BY <1>2, <1>3, <1>4, <1>5, <1>6 DEF Handler

LEMMA OperatorType ==
    ASSUME TypeOK, Operator
    PROVE  TypeOK'
<1>1. CASE ReplayStarts
  <2>1. replay' \in Replays
    <3>1. 1 \in 0..Len(Queues)
      BY QueueFacts
    <3> QED
      BY <1>1, <3>1 DEF ReplayStarts, TypeOK
  <2> QED
    BY <1>1, <2>1 DEF ReplayStarts, TypeOK, replayAlone, sourceVars, busVars, lambdaVars
<1>2. ASSUME NEW m \in Message, Invoke(m)
      PROVE  TypeOK'
  <2>1. attempt' \in [Message -> 0..Synchronous]
    BY <1>2 DEF Invoke, TypeOK, Synchronous, Attempts
  <2> QED
    BY <1>2, <2>1 DEF Invoke, TypeOK, sourceVars, busVars
<1>3. ASSUME NEW m \in Message, InvokeFails(m)
      PROVE  TypeOK'
  BY <1>3 DEF InvokeFails, TypeOK, replayAlone, sourceVars, busVars, lambdaVars
<1>4. CASE DeleteLetter
  BY <1>4 DEF DeleteLetter, TypeOK, sourceVars, busVars, lambdaVars
<1>5. CASE LeaveLetter \/ ReceiveNothing \/ ReplayStops
  <2>1. replay' \in Replays
    BY <1>5, QueueFacts
       DEF LeaveLetter, ReceiveNothing, ReplayStops, NextQueue, Idle, TypeOK
  <2> QED
    BY <1>5, <2>1 DEF LeaveLetter, ReceiveNothing, ReplayStops, TypeOK, replayAlone,
                      sourceVars, busVars, lambdaVars
<1> QED
  BY <1>1, <1>2, <1>3, <1>4, <1>5 DEF Operator

LEMMA NextType ==
    ASSUME TypeOK, [Next]_vars
    PROVE  TypeOK'
<1>1. CASE UNCHANGED vars
  BY <1>1 DEF vars, sourceVars, busVars, lambdaVars, TypeOK
<1>2. CASE Next
  BY <1>2, SourceType, BusType, HandlerType, OperatorType DEF Next
<1> QED
  BY <1>1, <1>2

\* Every variable keeps its type, whatever fails, repeats or is replayed.
THEOREM DeliveryTypeCorrect == Spec => []TypeOK
  BY InitType, NextType, PTL DEF Spec

(***************************************************************************)
(* Nothing vanishes                                                        *)
(***************************************************************************)

\* What the script takes for a success is one, or its call to Lambda failed.
ReplayKnows ==
    /\ replay.outcome = "unreached" => replay.hand \in InvokeErrors
    /\ replay.outcome = "returned" => replay.hand \in done

KInv == TypeOK /\ ReplayKnows /\ NothingVanishes

LEMMA ReportKnows ==
    ASSUME KInv, NEW m, NEW o \in {"returned", "raised"},
           replay' = Reported(m, o), done \subseteq done', o = "returned" => m \in done'
    PROVE  ReplayKnows'
<1>1. CASE replay' = replay
  BY <1>1 DEF KInv, ReplayKnows
<1>2. CASE replay.hand = m /\ replay' = [replay EXCEPT !.outcome = o]
  <2>1. replay'.hand = m /\ replay'.outcome = o
    BY <1>2 DEF KInv, TypeOK
  <2> QED
    BY <2>1 DEF ReplayKnows
<1> QED
  BY <1>1, <1>2 DEF Reported

LEMMA KInvSource ==
    ASSUME KInv, NEW p \in Polls, StoreRaw(p) \/ AnnounceRaw(p) \/ CollectorEnds(p)
    PROVE  ReplayKnows' /\ NothingVanishes'
<1>1. /\ \A x \in accepted' : x \in accepted \/ x \in bus'
      /\ bus \subseteq bus' /\ attempt' = attempt /\ done' = done
      /\ letters' = letters /\ replay' = replay
  BY PutGrows DEF StoreRaw, AnnounceRaw, CollectorEnds, busVars, lambdaVars, PutEvents
<1> QED
  BY <1>1 DEF KInv, ReplayKnows, NothingVanishes, Dead

LEMMA KInvBus ==
    ASSUME KInv, NEW m \in Message, BusDelivers(m) \/ BusGivesUp(m)
    PROVE  ReplayKnows' /\ NothingVanishes'
<1>1. CASE BusDelivers(m)
  <2>1. attempt'[m] = 1 /\ 1 \in 1..Attempts
    BY <1>1, AttemptBounds DEF BusDelivers, KInv, TypeOK
  <2>2. \A x \in Message \ {m} : attempt'[x] = attempt[x] /\ (x \in bus => x \in bus')
    BY <1>1 DEF BusDelivers, KInv, TypeOK
  <2>3. UNCHANGED <<accepted, done, letters, replay>>
    BY <1>1 DEF BusDelivers
  <2> QED
    BY <2>1, <2>2, <2>3 DEF KInv, TypeOK, ReplayKnows, NothingVanishes, Dead
<1>2. CASE BusGivesUp(m)
  <2>1. RuleDlq(m) \in QueueNames
    BY QueueFacts
  <2>2. /\ m \in letters'[RuleDlq(m)]
        /\ \A q \in QueueNames : letters[q] \subseteq letters'[q]
    BY <1>2, <2>1 DEF BusGivesUp, KInv, TypeOK
  <2>3. Dead(m)' /\ \A x : Dead(x) => Dead(x)'
    BY <2>1, <2>2 DEF Dead
  <2>4. bus' = bus \ {m} /\ UNCHANGED <<accepted, attempt, done, replay>>
    BY <1>2 DEF BusGivesUp, lambdaVars
  <2> QED
    BY <2>3, <2>4 DEF KInv, ReplayKnows, NothingVanishes
<1> QED
  BY <1>1, <1>2

LEMMA RestartOthers ==
    ASSUME TypeOK, NEW m \in Message, NEW n, Restart(m, n)
    PROVE  attempt'[m] = n /\ \A x \in Message \ {m} : attempt'[x] = attempt[x]
  BY DEF Restart, TypeOK

LEMMA KInvHandler ==
    ASSUME KInv, NEW m \in Message, Handler(m) \/ Raise(m)
    PROVE  ReplayKnows' /\ NothingVanishes'
<1>1. ASSUME Returns(m), UNCHANGED busVars
      PROVE  ReplayKnows' /\ NothingVanishes'
  <2>1. ReplayKnows'
    BY <1>1, ReportKnows DEF Returns
  <2>2. \A x \in Message \ {m} : attempt'[x] = attempt[x]
    BY <1>1, RestartOthers DEF Returns, KInv
  <2>3. UNCHANGED <<bus, accepted, letters>> /\ done' = done \cup {m}
    BY <1>1 DEF Returns, busVars
  <2> QED
    BY <2>1, <2>2, <2>3 DEF KInv, TypeOK, NothingVanishes, Dead
<1>2. CASE m \in Polls /\ PublishBatch(m)
  <2>1. /\ \A x \in accepted' : x \in accepted \/ x \in bus'
        /\ bus \subseteq bus' /\ attempt' = attempt /\ done' = done
        /\ letters' = letters /\ replay' = replay
    BY <1>2 DEF PublishBatch, PutEvents
  <2> QED
    BY <2>1 DEF KInv, ReplayKnows, NothingVanishes, Dead
<1>3. CASE Normalized(m) \/ (m \in Polls /\ Quarantine(m)) \/ Resolve(m)
  BY <1>1, <1>3 DEF Normalized, Quarantine, Resolve
<1>4. CASE Raise(m)
  <2>1. ReplayKnows'
    BY <1>4, ReportKnows DEF Raise
  <2>2. \A x \in Message \ {m} : attempt'[x] = attempt[x]
    BY <1>4, RestartOthers DEF Raise, KInv
  <2>3. HandlerDlq(m) \in QueueNames
    BY QueueFacts
  <2>4. \A q \in QueueNames : letters[q] \subseteq letters'[q]
    BY <1>4, <2>3 DEF Raise, KInv, TypeOK
  <2>5. \A x : Dead(x) => Dead(x)'
    BY <2>4 DEF Dead
  <2>6. UNCHANGED <<bus, accepted, done>>
    BY <1>4 DEF Raise, busVars
  <2>7. attempt[m] \in 1..Attempts => attempt'[m] \in 1..Attempts \/ Dead(m)'
    <3>1. CASE attempt[m] < Attempts /\ Restart(m, attempt[m] + 1)
      <4>1. attempt'[m] = attempt[m] + 1 /\ attempt[m] \in Nat
        BY <3>1, RestartOthers, AttemptBounds DEF KInv, TypeOK
      <4> QED
        BY <3>1, <4>1, AttemptBounds
    <3>2. CASE letters' = [letters EXCEPT ![HandlerDlq(m)] = @ \cup {m}]
      BY <2>3, <3>2 DEF KInv, TypeOK, Dead
    <3>3. CASE attempt[m] = Synchronous
      BY <3>3, AttemptBounds
    <3> QED
      BY <1>4, <3>1, <3>2, <3>3 DEF Raise
  <2> QED
    BY <2>1, <2>2, <2>5, <2>6, <2>7 DEF KInv, TypeOK, NothingVanishes
<1> QED
  BY <1>2, <1>3, <1>4 DEF Handler

LEMMA KInvOperator ==
    ASSUME KInv, Operator
    PROVE  ReplayKnows' /\ NothingVanishes'
<1>1. CASE ReplayStarts \/ LeaveLetter \/ ReceiveNothing \/ ReplayStops
  <2>1. replay'.outcome = "none"
    BY <1>1 DEF ReplayStarts, LeaveLetter, ReceiveNothing, ReplayStops, NextQueue, Idle
  <2>2. UNCHANGED <<bus, accepted, attempt, done, letters>>
    BY <1>1 DEF ReplayStarts, LeaveLetter, ReceiveNothing, ReplayStops, replayAlone,
                busVars, lambdaVars
  <2> QED
    BY <2>1, <2>2 DEF KInv, ReplayKnows, NothingVanishes, Dead
<1>2. ASSUME NEW m \in Message, Invoke(m)
      PROVE  ReplayKnows' /\ NothingVanishes'
  <2>1. replay'.outcome = "running"
    BY <1>2 DEF Invoke, KInv, TypeOK
  <2>2. attempt[m] \notin 1..Attempts /\ \A x \in Message \ {m} : attempt'[x] = attempt[x]
    BY <1>2, AttemptBounds DEF Invoke, KInv, TypeOK
  <2>3. UNCHANGED <<bus, accepted, done, letters>>
    BY <1>2 DEF Invoke, busVars
  <2> QED
    BY <2>1, <2>2, <2>3 DEF KInv, TypeOK, ReplayKnows, NothingVanishes, Dead
<1>3. CASE DeleteLetter
  <2>1. (replay.hand \in done \/ replay.hand \in InvokeErrors) /\ replay'.outcome = "none"
    BY <1>3 DEF DeleteLetter, KInv, TypeOK, ReplayKnows
  <2>2. \A x, q : q \in QueueNames /\ x \in letters[q] /\ x # replay.hand => x \in letters'[q]
    BY <1>3 DEF DeleteLetter, KInv, TypeOK
  <2>3. UNCHANGED <<bus, accepted, attempt, done>>
    BY <1>3 DEF DeleteLetter, busVars, lambdaVars
  <2>4. \A x : Dead(x) /\ x # replay.hand => Dead(x)'
    BY <2>2 DEF Dead
  <2> QED
    BY <2>1, <2>3, <2>4 DEF KInv, TypeOK, ReplayKnows, NothingVanishes
<1>4. ASSUME NEW m \in Message, InvokeFails(m)
      PROVE  ReplayKnows' /\ NothingVanishes'
  <2>1. replay'.outcome = "unreached" /\ replay'.hand = m /\ m \in InvokeErrors
    BY <1>4 DEF InvokeFails, KInv, TypeOK
  <2>2. UNCHANGED <<bus, accepted, attempt, done, letters>>
    BY <1>4 DEF InvokeFails, replayAlone, busVars, lambdaVars
  <2> QED
    BY <2>1, <2>2 DEF KInv, ReplayKnows, NothingVanishes, Dead
<1> QED
  BY <1>1, <1>2, <1>3, <1>4 DEF Operator

LEMMA KInvInit == Init => KInv
  BY InitType DEF Init, KInv, ReplayKnows, NothingVanishes, Idle

LEMMA KInvNext ==
    ASSUME KInv, [Next]_vars
    PROVE  KInv'
<1>1. ReplayKnows' /\ NothingVanishes'
  <2>1. CASE UNCHANGED vars
    BY <2>1 DEF vars, busVars, lambdaVars, KInv, ReplayKnows, NothingVanishes, Dead
  <2>2. CASE Next
    BY <2>2, KInvSource, KInvBus, KInvHandler, KInvOperator DEF Next
  <2> QED
    BY <2>1, <2>2
<1> QED
  BY <1>1, NextType DEF KInv

\* Nothing EventBridge took is lost before a handler returned normally for it, whatever the
\* handlers, EventBridge and the operator do, but a message whose own replay fails unseen.
THEOREM NothingIsLost == Spec => []NothingVanishes
<1>1. KInv => NothingVanishes
  BY DEF KInv
<1>2. KInv /\ [Next]_vars => KInv'
  BY KInvNext
<1> QED
  BY <1>1, <1>2, KInvInit, PTL DEF Spec
(***************************************************************************)
(* A normalized payload is a published one                                 *)
(***************************************************************************)

LEMMA YieldsFacts ==
    ASSUME NEW p \in Polls
    PROVE  Len(Yields[p]) \in Nat /\ DOMAIN Yields[p] = 1..Len(Yields[p])
  OBVIOUS

\* What the running normalizer has gone through was taken.
PublishedIsAccepted ==
    \A p \in Polls, i \in Nat :
        i \in DOMAIN Yields[p] /\ i <= published[p] => Yields[p][i] \in accepted

PInv == TypeOK /\ PublishedIsAccepted /\ NormalizedIsPublished

\* A step that takes nothing back and restarts no further along keeps both facts.
LEMMA PInvKept ==
    ASSUME PInv, TypeOK', accepted \subseteq accepted', quarantined \subseteq quarantined',
           \A p \in Polls : published'[p] = published[p] \/ published'[p] = 0,
           done' \cap Polls \subseteq done
    PROVE  PublishedIsAccepted' /\ NormalizedIsPublished'
<1>1. PublishedIsAccepted'
  <2> SUFFICES ASSUME NEW p \in Polls, NEW i \in Nat,
                      i \in DOMAIN Yields[p], i <= published'[p]
               PROVE  Yields[p][i] \in accepted'
    BY DEF PublishedIsAccepted
  <2>1. i <= published[p]
    <3>1. i > 0
      BY YieldsFacts
    <3>2. published[p] \in Nat /\ (published'[p] = published[p] \/ published'[p] = 0)
      BY DEF PInv, TypeOK
    <3> QED
      BY <3>1, <3>2
  <2> QED
    BY <2>1 DEF PInv, PublishedIsAccepted
<1>2. NormalizedIsPublished'
  BY DEF PInv, NormalizedIsPublished
<1> QED
  BY <1>1, <1>2

LEMMA RestartPublished ==
    ASSUME TypeOK, NEW m, NEW n, Restart(m, n)
    PROVE  \A p \in Polls : published'[p] = published[p] \/ published'[p] = 0
  BY DEF Restart, TypeOK

LEMMA PInvHandler ==
    ASSUME PInv, TypeOK', NEW m \in Message, Handler(m) \/ Raise(m), ~LossyPut
    PROVE  PublishedIsAccepted' /\ NormalizedIsPublished'
<1>1. CASE m \in Polls /\ PublishBatch(m)
  <2>1. accepted' = accepted \cup Batch(m)
    BY <1>1, PutGrows DEF PublishBatch
  <2>2. published' = [published EXCEPT ![m] = @ + BatchSize]
    BY <1>1 DEF PublishBatch
  <2>3. PublishedIsAccepted'
    <3> SUFFICES ASSUME NEW p \in Polls, NEW i \in Nat,
                        i \in DOMAIN Yields[p], i <= published'[p]
                 PROVE  Yields[p][i] \in accepted'
      BY DEF PublishedIsAccepted
    <3>1. CASE i <= published[p]
      BY <2>1, <3>1 DEF PInv, PublishedIsAccepted
    <3>2. CASE ~(i <= published[p])
      <4>1. p = m /\ published[p] < i /\ i <= published[p] + BatchSize
        BY <2>2, <3>2 DEF PInv, TypeOK
      <4> QED
        BY <2>1, <4>1 DEF Batch
    <3> QED
      BY <3>1, <3>2
  <2>4. NormalizedIsPublished'
    BY <1>1, <2>1 DEF PublishBatch, PInv, NormalizedIsPublished
  <2> QED
    BY <2>3, <2>4
<1>2. ASSUME Returns(m), UNCHANGED accepted, quarantined \subseteq quarantined',
             m \in Polls =>
                 IF m \in Unregistered THEN m \in quarantined'
                 ELSE \A i \in DOMAIN Yields[m] : Yields[m][i] \in accepted
      PROVE  PublishedIsAccepted' /\ NormalizedIsPublished'
  <2>1. \A p \in Polls : published'[p] = published[p] \/ published'[p] = 0
    BY <1>2, RestartPublished DEF Returns, PInv
  <2>2. PublishedIsAccepted'
    <3> SUFFICES ASSUME NEW p \in Polls, NEW i \in Nat,
                        i \in DOMAIN Yields[p], i <= published'[p]
                 PROVE  Yields[p][i] \in accepted'
      BY DEF PublishedIsAccepted
    <3>1. i <= published[p]
      <4>1. i > 0
        BY YieldsFacts
      <4>2. published[p] \in Nat /\ (published'[p] = published[p] \/ published'[p] = 0)
        BY <2>1 DEF PInv, TypeOK
      <4> QED
        BY <4>1, <4>2
    <3> QED
      BY <1>2, <3>1 DEF PInv, PublishedIsAccepted
  <2>3. done' = done \cup {m}
    BY <1>2 DEF Returns
  <2>4. NormalizedIsPublished'
    BY <1>2, <2>3 DEF PInv, NormalizedIsPublished
  <2> QED
    BY <2>2, <2>4
<1>3. CASE m \in Polls /\ Normalized(m)
  <2>1. \A i \in DOMAIN Yields[m] : i \in Nat /\ i <= published[m]
    <3>1. Len(Yields[m]) \in Nat /\ DOMAIN Yields[m] = 1..Len(Yields[m])
      BY <1>3, YieldsFacts
    <3>2. published[m] \in Nat /\ published[m] >= Len(Yields[m])
      BY <1>3 DEF Normalized, PInv, TypeOK
    <3> QED
      BY <3>1, <3>2
  <2>2. \A i \in DOMAIN Yields[m] : Yields[m][i] \in accepted
    BY <1>3, <2>1 DEF PInv, PublishedIsAccepted
  <2> QED
    BY <1>2, <1>3, <2>2 DEF Normalized, busVars
<1>4. CASE m \in Polls /\ Quarantine(m)
  <2>1. quarantined' = quarantined \cup {m}
    BY <1>4 DEF Quarantine, Takes
  <2> QED
    BY <1>2, <1>4, <2>1 DEF Quarantine, busVars
<1>5. CASE m \in Candidates /\ Resolve(m)
  BY <1>2, <1>5 DEF Resolve, busVars
<1>6. CASE Raise(m)
  <2>1. \A p \in Polls : published'[p] = published[p] \/ published'[p] = 0
    BY <1>6, RestartPublished DEF Raise, PInv
  <2> QED
    BY <1>6, <2>1, PInvKept DEF Raise, busVars
<1> QED
  BY <1>1, <1>3, <1>4, <1>5, <1>6 DEF Handler

LEMMA PInvOther ==
    ASSUME PInv, TypeOK',
           \/ UNCHANGED vars
           \/ \E p \in Polls : StoreRaw(p) \/ AnnounceRaw(p) \/ CollectorEnds(p)
           \/ \E m \in Message : BusDelivers(m) \/ BusGivesUp(m)
           \/ Operator
    PROVE  PublishedIsAccepted' /\ NormalizedIsPublished'
<1>1. accepted \subseteq accepted' /\ UNCHANGED <<published, quarantined, done>>
  <2>1. ASSUME NEW p \in Polls, AnnounceRaw(p)
        PROVE  accepted \subseteq accepted' /\ UNCHANGED <<published, quarantined, done>>
    BY <2>1, PutGrows DEF AnnounceRaw, lambdaVars
  <2> QED
    BY <2>1 DEF vars, StoreRaw, CollectorEnds, BusDelivers, BusGivesUp, Operator, ReplayStarts,
                Invoke, InvokeFails, DeleteLetter, LeaveLetter, ReceiveNothing, ReplayStops,
                replayAlone, busVars, lambdaVars
<1> QED
  BY <1>1, PInvKept

\* A payload the normalizer has returned for, at whatever attempt and however the earlier ones
\* ended, has every candidate on the bus, unless PutEvents refuses entries unseen.
THEOREM NormalizedWasPublished ==
    ASSUME ~LossyPut
    PROVE  Spec => []NormalizedIsPublished
<1>1. Init => PInv
  <2>1. Init => PublishedIsAccepted
    BY DEF Init, PublishedIsAccepted
  <2> QED
    BY <2>1, InitType DEF Init, PInv, NormalizedIsPublished
<1>2. PInv /\ [Next]_vars => PInv'
  <2> SUFFICES ASSUME PInv, [Next]_vars
               PROVE  PInv'
    OBVIOUS
  <2>1. TypeOK'
    BY NextType DEF PInv
  <2> QED
    BY <2>1, PInvHandler, PInvOther DEF PInv, Next
<1>3. PInv => NormalizedIsPublished
  BY DEF PInv
<1> QED
  BY <1>1, <1>2, <1>3, PTL DEF Spec
(***************************************************************************)
(* Everything can be traced to stored bytes                                *)
(***************************************************************************)

\* What is announced next is stored, and no place holds what EventBridge never took.
Traced ==
    /\ \A p \in Polls : collector[p] = "stored" => p \in raw
    /\ bus \subseteq accepted
    /\ \A m \in Message : attempt[m] > 0 \/ Dead(m) => m \in accepted

BInv == TypeOK /\ Traced /\ BytesAreStored

LEMMA BInvSource ==
    ASSUME BInv, NEW p \in Polls, StoreRaw(p) \/ AnnounceRaw(p) \/ CollectorEnds(p)
    PROVE  Traced' /\ BytesAreStored'
<1>1. CASE StoreRaw(p)
  BY <1>1 DEF StoreRaw, BInv, TypeOK, Traced, BytesAreStored, Dead, busVars, lambdaVars
<1>2. CASE AnnounceRaw(p)
  <2>1. /\ p \in raw /\ raw' = raw
        /\ \A q \in Polls : collector'[q] = "stored" => collector[q] = "stored"
    BY <1>2 DEF AnnounceRaw, BInv, TypeOK, Traced
  <2>2. /\ accepted \subseteq accepted' /\ accepted' \subseteq accepted \cup {p}
        /\ bus' \subseteq bus \cup {p} /\ bus' \ bus \subseteq accepted'
    BY <1>2, PutGrows DEF AnnounceRaw
  <2>3. UNCHANGED <<attempt, letters>>
    BY <1>2 DEF AnnounceRaw, lambdaVars
  <2>4. Traced'
    BY <2>1, <2>2, <2>3 DEF BInv, Traced, Dead
  <2>5. BytesAreStored'
    BY <2>1, <2>2 DEF BInv, BytesAreStored
  <2> QED
    BY <2>4, <2>5
<1>3. CASE CollectorEnds(p)
  BY <1>3 DEF CollectorEnds, BInv, TypeOK, Traced, BytesAreStored, Dead, busVars, lambdaVars
<1> QED
  BY <1>1, <1>2, <1>3

\* A step that moves messages from place to place and takes no new one.
LEMMA BInvMoves ==
    ASSUME BInv, UNCHANGED <<collector, raw, accepted>>, bus' \subseteq bus,
           \A x \in Message : attempt'[x] > 0 \/ Dead(x)' => x \in accepted
    PROVE  Traced' /\ BytesAreStored'
  BY DEF BInv, Traced, BytesAreStored

LEMMA BInvBus ==
    ASSUME BInv, NEW m \in Message, BusDelivers(m) \/ BusGivesUp(m)
    PROVE  Traced' /\ BytesAreStored'
<1>1. m \in accepted
  BY DEF BusDelivers, BusGivesUp, BInv, Traced
<1>2. CASE BusDelivers(m)
  <2>1. \A x \in Message : attempt'[x] > 0 \/ Dead(x)' => x \in accepted
    BY <1>1, <1>2 DEF BusDelivers, BInv, TypeOK, Traced, Dead
  <2> QED
    BY <1>2, <2>1, BInvMoves DEF BusDelivers, sourceVars
<1>3. CASE BusGivesUp(m)
  <2>1. \A q \in QueueNames : letters'[q] \subseteq letters[q] \cup {m}
    BY <1>3 DEF BusGivesUp, BInv, TypeOK
  <2>2. \A x \in Message : attempt'[x] > 0 \/ Dead(x)' => x \in accepted
    BY <1>1, <1>3, <2>1 DEF BusGivesUp, BInv, Traced, Dead, lambdaVars
  <2> QED
    BY <1>3, <2>2, BInvMoves DEF BusGivesUp, sourceVars
<1> QED
  BY <1>2, <1>3

LEMMA BInvHandler ==
    ASSUME BInv, NEW m \in Message, Handler(m) \/ Raise(m)
    PROVE  Traced' /\ BytesAreStored'
<1>1. CASE m \in Polls /\ PublishBatch(m)
  <2>1. m \in accepted /\ m \in raw /\ raw' = raw
    BY <1>1 DEF PublishBatch, BInv, Traced, BytesAreStored, sourceVars
  <2>2. /\ accepted \subseteq accepted' /\ accepted' \subseteq accepted \cup Batch(m)
        /\ bus' \ bus \subseteq accepted'
    BY <1>1, PutGrows DEF PublishBatch
  <2>3. UNCHANGED <<attempt, letters, collector>>
    BY <1>1 DEF PublishBatch, sourceVars
  <2>4. Traced'
    BY <2>1, <2>2, <2>3 DEF BInv, Traced, Dead
  <2>5. \A c \in Batch(m) : \E i \in DOMAIN Yields[m] : Yields[m][i] = c
    BY DEF Batch
  <2>6. Batch(m) \cap Polls = {}
    BY <1>1, BatchType
  <2>7. BytesAreStored'
    BY <2>1, <2>2, <2>5, <2>6 DEF BInv, BytesAreStored
  <2> QED
    BY <2>4, <2>7
<1>2. ASSUME Returns(m), UNCHANGED busVars
      PROVE  Traced' /\ BytesAreStored'
  <2>1. attempt'[m] = 0 /\ \A x \in Message \ {m} : attempt'[x] = attempt[x]
    BY <1>2, RestartOthers DEF Returns, BInv
  <2>2. UNCHANGED <<bus, accepted, letters, collector, raw>>
    BY <1>2 DEF Returns, busVars, sourceVars
  <2>3. ~(attempt'[m] > 0)
    BY <2>1
  <2>4. \A x : Dead(x)' => Dead(x)
    BY <2>2 DEF Dead
  <2>5. \A x \in Message : attempt'[x] > 0 \/ Dead(x)' => x \in accepted
    BY <2>1, <2>3, <2>4 DEF BInv, Traced
  <2> QED
    BY <2>2, <2>5, BInvMoves
<1>3. CASE Normalized(m) \/ (m \in Polls /\ Quarantine(m)) \/ Resolve(m)
  BY <1>2, <1>3 DEF Normalized, Quarantine, Resolve
<1>4. CASE Raise(m)
  <2>1. m \in accepted
    BY <1>4 DEF Raise, BInv, Traced
  <2>2. \A x \in Message \ {m} : attempt'[x] = attempt[x]
    BY <1>4, RestartOthers DEF Raise, BInv
  <2>3. \A q \in QueueNames : letters'[q] \subseteq letters[q] \cup {m}
    BY <1>4 DEF Raise, BInv, TypeOK
  <2>4. \A x \in Message : attempt'[x] > 0 \/ Dead(x)' => x \in accepted
    BY <2>1, <2>2, <2>3 DEF BInv, Traced, Dead
  <2> QED
    BY <1>4, <2>4, BInvMoves DEF Raise, busVars, sourceVars
<1> QED
  BY <1>1, <1>3, <1>4 DEF Handler

LEMMA BInvOperator ==
    ASSUME BInv, Operator
    PROVE  Traced' /\ BytesAreStored'
<1>1. ASSUME NEW m \in Message, Invoke(m)
      PROVE  Traced' /\ BytesAreStored'
  <2>1. Dead(m) /\ UNCHANGED letters
    <3>1. Queues[replay.queue] \in QueueNames
      BY <1>1, QueueFacts DEF Invoke, BInv, TypeOK, QueueNames
    <3> QED
      BY <1>1, <3>1 DEF Invoke, Dead
  <2>2. \A x \in Message \ {m} : attempt'[x] = attempt[x]
    BY <1>1 DEF Invoke, BInv, TypeOK
  <2>3. \A x \in Message : attempt'[x] > 0 \/ Dead(x)' => x \in accepted
    BY <2>1, <2>2 DEF BInv, Traced, Dead
  <2> QED
    BY <1>1, <2>3, BInvMoves DEF Invoke, busVars, sourceVars
<1>2. CASE DeleteLetter
  <2>1. \A q \in QueueNames : letters'[q] \subseteq letters[q]
    BY <1>2 DEF DeleteLetter, BInv, TypeOK
  <2>2. \A x \in Message : attempt'[x] > 0 \/ Dead(x)' => x \in accepted
    BY <1>2, <2>1 DEF DeleteLetter, BInv, Traced, Dead, lambdaVars
  <2> QED
    BY <1>2, <2>2, BInvMoves DEF DeleteLetter, busVars, sourceVars
<1>3. CASE UNCHANGED replayAlone
  <2>1. UNCHANGED <<collector, raw, accepted, bus, attempt, letters>>
    BY <1>3 DEF replayAlone, sourceVars, busVars, lambdaVars
  <2> QED
    BY <2>1 DEF BInv, Traced, BytesAreStored, Dead
<1> QED
  BY <1>1, <1>2, <1>3 DEF Operator, ReplayStarts, InvokeFails, LeaveLetter, ReceiveNothing,
                          ReplayStops

\* What EventBridge took was stored before: behind every announced payload and every candidate,
\* wherever it is now, are bytes in the bucket, also when PutEvents or a replay fails.
THEOREM BytesStayBehind == Spec => []BytesAreStored
<1>1. Init => BInv
  <2>1. Init => Traced
    BY DEF Init, Traced, Dead
  <2> QED
    BY <2>1, InitType DEF Init, BInv, BytesAreStored
<1>2. BInv /\ [Next]_vars => BInv'
  <2> SUFFICES ASSUME BInv, [Next]_vars
               PROVE  BInv'
    OBVIOUS
  <2>1. TypeOK'
    BY NextType DEF BInv
  <2>2. CASE UNCHANGED vars
    BY <2>1, <2>2 DEF vars, sourceVars, busVars, lambdaVars, BInv, Traced, BytesAreStored, Dead
  <2>3. CASE Next
    BY <2>1, <2>3, BInvSource, BInvBus, BInvHandler, BInvOperator DEF BInv, Next
  <2> QED
    BY <2>2, <2>3
<1>3. BInv => BytesAreStored
  BY DEF BInv
<1> QED
  BY <1>1, <1>2, <1>3, PTL DEF Spec
================================================================================
