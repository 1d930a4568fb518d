------------------------------- MODULE EventHub -------------------------------
(***************************************************************************)
(* The event-resolution core: resolver invocations (handlers/resolver.py)  *)
(* and per-event lifecycle timers (handlers/lifecycle.py) acting on one    *)
(* event store.  The bus delivers a candidate at least once and in any     *)
(* order, up to ten resolver invocations run at a time, an invocation can  *)
(* die between any two calls, and a timer can fire between any two of      *)
(* theirs.  Every call to the store is a step of its own.                  *)
(*                                                                         *)
(* Time is abstracted to choice: whether a time-to-live has lapsed when a  *)
(* timer ticks, and whether a start time has come when a candidate is      *)
(* resolved, may go either way.  LifecycleTimer.tla has the clock.         *)
(***************************************************************************)
EXTENDS Resolution, EventStore

CONSTANTS
    Workers,        \* concurrent resolver invocations
    MaxDeliveries,  \* bound: invocations in all, duplicates and retries included
    Crashes,        \* whether invocations may die and timers fail to start
    Backend         \* "dynamo" (DynamoEventStore) or "memory" (InMemoryEventStore)

ASSUME HubAssumption ==
    /\ MaxDeliveries \in Nat
    /\ Crashes \in BOOLEAN
    /\ Backend \in {"dynamo", "memory"}

VARIABLES
    pc,       \* Workers -> the next call of the invocation
    cand,     \* Workers -> the candidate being resolved, or None
    attempt,  \* Workers -> which of the handler's two attempts this is
    known,    \* Workers -> the pointer the invocation read, or None
    plan,     \* Workers -> what the policy decided and is still to be done
    minted,   \* event ids new_event_id has returned
    budget,   \* deliveries left
    handled,  \* Candidates -> how many invocations have returned normally for it
    timer,    \* EventIds -> state of the event's Step Functions execution
    tick      \* EventIds -> the step a tick decided to write, or None

workerVars == <<pc, cand, attempt, known, plan>>
timerVars == <<timer, tick>>
vars == <<storeVars, workerVars, timerVars, minted, budget, handled>>

PCs == {"idle", "pointer", "decide", "write", "arm", "point"}
Attempts == 2

WorkerTypeOK ==
    /\ pc \in [Workers -> PCs]
    /\ cand \in [Workers -> Candidates \cup {None}]
    /\ attempt \in [Workers -> 1..Attempts]
    /\ known \in [Workers -> Pointer \cup {None}]
    /\ plan \in [Workers -> Plan]
    /\ \A w \in Workers :
          /\ pc[w] # "idle" => cand[w] \in Candidates
          /\ pc[w] \in {"write", "arm", "point"} => plan[w].subject \in EventIds

TimerTypeOK ==
    /\ timer \in [EventIds -> {"none", "waiting", "writing", "ended"}]
    /\ tick \in [EventIds -> Step \cup {None}]
    /\ \A e \in EventIds : timer[e] = "writing" => tick[e] \in Step /\ tick[e].id = e

TypeOK ==
    /\ StoreTypeOK
    /\ WorkerTypeOK
    /\ TimerTypeOK
    /\ minted \subseteq EventIds
    /\ budget \in 0..MaxDeliveries
    /\ handled \in [Candidates -> Nat]

Init ==
    /\ StoreInit
    /\ pc = [w \in Workers |-> "idle"]
    /\ cand = [w \in Workers |-> None]
    /\ attempt = [w \in Workers |-> 1]
    /\ known = [w \in Workers |-> None]
    /\ plan = [w \in Workers |-> NoPlan]
    /\ minted = {}
    /\ budget = MaxDeliveries
    /\ handled = [c \in Candidates |-> 0]
    /\ timer = [e \in EventIds |-> "none"]
    /\ tick = [e \in EventIds |-> None]

(***************************************************************************)
(* The resolver                                                            *)
(***************************************************************************)

\* The handler answers that its candidate is done.
Answer(w) == handled' = [handled EXCEPT ![cand[w]] = @ + 1]

\* The invocation is over, one way or the other.
Leave(w) ==
    /\ pc' = [pc EXCEPT ![w] = "idle"]
    /\ cand' = [cand EXCEPT ![w] = None]
    /\ attempt' = [attempt EXCEPT ![w] = 1]
    /\ known' = [known EXCEPT ![w] = None]
    /\ plan' = [plan EXCEPT ![w] = NoPlan]

\* A candidate reaches the handler: the first time, again from the bus, or as a retry.
Deliver(w, c) ==
    /\ pc[w] = "idle"
    /\ budget > 0
    /\ budget' = budget - 1
    /\ pc' = [pc EXCEPT ![w] = "pointer"]
    /\ cand' = [cand EXCEPT ![w] = c]
    /\ UNCHANGED <<storeVars, timerVars, attempt, known, plan, minted, handled>>

\* The pointer is read from a replica that may not have it yet.
ReadPointerEventually(w) ==
    /\ pc[w] = "pointer"
    /\ known' \in {[known EXCEPT ![w] = ptr] : ptr \in {None, pointers[RecordOf[cand[w]]]}}
    /\ pc' = [pc EXCEPT ![w] = "decide"]
    /\ UNCHANGED <<storeVars, timerVars, cand, attempt, plan, minted, budget, handled>>

ReadPointer(w) ==
    /\ pc[w] = "pointer"
    /\ known' = [known EXCEPT ![w] = pointers[RecordOf[cand[w]]]]
    /\ pc' = [pc EXCEPT ![w] = "decide"]
    /\ UNCHANGED <<storeVars, timerVars, cand, attempt, plan, minted, budget, handled>>

\* The record is one we know and its event is there.
IsKnown(w) == known[w] # None /\ current[known[w].id] # None

\* Identical content: nothing is written and the pointer stays.
ResolveUnchanged(w) ==
    /\ pc[w] = "decide" /\ IsKnown(w)
    /\ known[w].hash = cand[w]
    /\ Answer(w)
    /\ Leave(w)
    /\ UNCHANGED <<storeVars, timerVars, minted, budget>>

\* The pointer is moved before anything is written.
DecideMovingPointer(w, p) ==
    /\ plan' = [plan EXCEPT ![w] = p]
    /\ pc' = [pc EXCEPT ![w] = "write"]
    /\ PutPointer(RecordOf[cand[w]], p.subject, cand[w])
    /\ UNCHANGED <<timerVars, cand, attempt, known, budget, handled>>

\* The policy's decision becomes the invocation's plan.
Decide(w, p) ==
    /\ plan' = [plan EXCEPT ![w] = p]
    /\ pc' = [pc EXCEPT ![w] = "write"]
    /\ UNCHANGED <<storeVars, timerVars, cand, attempt, known, budget, handled>>

ResolveKnown(w) ==
    /\ pc[w] = "decide" /\ IsKnown(w)
    /\ known[w].hash # cand[w]
    /\ LET id == known[w].id
       IN  \E due \in BOOLEAN :
              LET p == ResolveUpdate(id, current[id], cand[w], due)
              IN  /\ current[id].version + Len(p.writes) <= MaxVersion
                  /\ Decide(w, p)
    /\ UNCHANGED minted

\* What the corridor index may return for an event: it is eventually consistent, so any
\* version the event has had, or nothing at all.
IndexViews(e) == {versions[e][n] : n \in 1..Height(e)}

\* The events the index returns in time, and what it returns for each, that the
\* candidate may be matched against.
MergeChoices(c) ==
    {p \in UNION {{e} \X IndexViews(e) : e \in EventIds} :
        Matchable(p[2], c) /\ p[2].version < MaxVersion}

\* A record with no event: a clear match is absorbed, and otherwise the candidate becomes
\* an event of its own, with every ambiguous neighbour queued.
ResolveUnknown(w) ==
    /\ pc[w] = "decide" /\ ~IsKnown(w)
    /\ \E id \in EventIds \ minted :
          /\ minted' = minted \cup {id}
          /\ \/ \E p \in MergeChoices(cand[w]) : Decide(w, Merge(id, cand[w], p[1], p[2]))
             \/ \E ambiguous \in SUBSET {p[1] : p \in MergeChoices(cand[w])},
                   valid, due \in BOOLEAN :
                   Decide(w, ResolveNew(id, cand[w], ambiguous, valid, due))

\* The next transaction of the plan commits.
WriteStep(w) ==
    /\ pc[w] = "write" /\ plan[w].writes # <<>>
    /\ Transact(Head(plan[w].writes))
    /\ plan' = [plan EXCEPT ![w].writes = Tail(@)]
    /\ UNCHANGED <<timerVars, pc, cand, attempt, known, minted, budget, handled>>

\* Every conflict is decided again, however often.
ConflictRetriedForever(w) ==
    /\ pc' = [pc EXCEPT ![w] = "pointer"]
    /\ attempt' = [attempt EXCEPT ![w] = @ + 1]
    /\ known' = [known EXCEPT ![w] = None]
    /\ plan' = [plan EXCEPT ![w] = NoPlan]
    /\ UNCHANGED <<storeVars, timerVars, cand, minted, budget, handled>>

\* ConcurrentModification: decide again on fresh state once, then raise.
Conflict(w) ==
    /\ IF attempt[w] < Attempts
       THEN /\ pc' = [pc EXCEPT ![w] = "pointer"]
            /\ attempt' = [attempt EXCEPT ![w] = @ + 1]
            /\ known' = [known EXCEPT ![w] = None]
            /\ plan' = [plan EXCEPT ![w] = NoPlan]
            /\ UNCHANGED cand
       ELSE Leave(w)
    /\ UNCHANGED <<storeVars, timerVars, minted, budget, handled>>

\* VersionAlreadyExists: reported as a duplicate delivery, and the work as done.
AlreadyWritten(w) ==
    /\ Answer(w)
    /\ Leave(w)
    /\ UNCHANGED <<storeVars, timerVars, minted, budget>>

\* The next transaction fails a condition. DynamoEventStore reports every failed
\* condition as a version that already exists; InMemoryEventStore looks at `current`
\* first and reports a version it did not expect as a conflict.
WriteRefused(w) ==
    /\ pc[w] = "write" /\ plan[w].writes # <<>>
    /\ ~Admits(Head(plan[w].writes))
    /\ IF Backend = "dynamo" THEN AlreadyWritten(w) ELSE Conflict(w)

\* Every cancellation is taken for a duplicate delivery, whatever its reasons.
CancelledAsDuplicate(w) ==
    /\ Backend = "dynamo"
    /\ pc[w] = "write" /\ plan[w].writes # <<>>
    /\ AlreadyWritten(w)

\* DynamoDB cancels a transaction that meets another on the same items, or for want of
\* capacity: no condition failed, and the store reports a conflict.
WriteCancelled(w) ==
    /\ Backend = "dynamo"
    /\ pc[w] = "write" /\ plan[w].writes # <<>>
    /\ Conflict(w)

\* After the last transaction: the reviews, one put each, then the timer of a created
\* event, then the pointer, last of all. Only a new event has reviews, so those of its
\* pairs that are not in the table are the ones still to put.
WriteReviews(w) ==
    /\ pc[w] = "write" /\ plan[w].writes = <<>>
    /\ LET unput == {other \in plan[w].reviews : <<plan[w].subject, other>> \notin reviews}
       IN  \/ /\ unput = {}
              /\ pc' = [pc EXCEPT ![w] = "arm"]
              /\ UNCHANGED storeVars
           \/ /\ \E other \in unput : PutReview(plan[w].subject, other)
              /\ UNCHANGED pc
    /\ UNCHANGED <<timerVars, cand, attempt, known, plan, minted, budget, handled>>

\* StartExecution is named after the event, so a second start of it changes nothing; a
\* start that fails is logged and the resolution goes on without a timer.
ArmTimers(w) ==
    /\ pc[w] = "arm"
    /\ \E started \in {plan[w].arm} \cup (IF Crashes THEN {{}} ELSE {}) :
          timer' = [e \in EventIds |->
                      IF e \in started /\ timer[e] = "none" THEN "waiting" ELSE timer[e]]
    /\ pc' = [pc EXCEPT ![w] = "point"]
    /\ UNCHANGED <<storeVars, tick, cand, attempt, known, plan, minted, budget, handled>>

MovePointer(w) ==
    /\ pc[w] = "point"
    /\ PutPointer(RecordOf[cand[w]], plan[w].subject, cand[w])
    /\ Answer(w)
    /\ Leave(w)
    /\ UNCHANGED <<timerVars, minted, budget>>

\* The invocation dies: a timeout, a throttled call, a lost container.
Die(w) ==
    /\ Crashes
    /\ pc[w] # "idle"
    /\ Leave(w)
    /\ UNCHANGED <<storeVars, timerVars, minted, budget, handled>>

(***************************************************************************)
(* The lifecycle timer                                                     *)
(***************************************************************************)

\* A tick reads the event and finds its time-to-live lapsed.
TickExpires(e) ==
    /\ timer[e] = "waiting"
    /\ current[e] # None
    /\ OnLadder(current[e].state)
    /\ current[e].version < MaxVersion
    /\ timer' = [timer EXCEPT ![e] = "writing"]
    /\ tick' = [tick EXCEPT ![e] = Expire(e, current[e])]
    /\ UNCHANGED <<storeVars, workerVars, minted, budget, handled>>

\* A tick finds nothing left to expire and the execution ends.
TickEnds(e) ==
    /\ timer[e] = "waiting"
    /\ current[e] # None => ~OnLadder(current[e].state)
    /\ timer' = [timer EXCEPT ![e] = "ended"]
    /\ UNCHANGED <<storeVars, workerVars, tick, minted, budget, handled>>

Rearm(e) ==
    /\ timer' = [timer EXCEPT ![e] = "waiting"]
    /\ tick' = [tick EXCEPT ![e] = None]

TickWrites(e) ==
    /\ timer[e] = "writing"
    /\ Transact(tick[e])
    /\ Rearm(e)
    /\ UNCHANGED <<workerVars, minted, budget, handled>>

\* The resolver got there first, the transaction was cancelled, or the tick died and is
\* retried: read again.
TickSuperseded(e) ==
    /\ timer[e] = "writing"
    /\ \/ ~Admits(tick[e])
       \/ Backend = "dynamo"
       \/ Crashes
    /\ Rearm(e)
    /\ UNCHANGED <<storeVars, workerVars, minted, budget, handled>>

(***************************************************************************)
(* Specification                                                           *)
(***************************************************************************)

Resolver(w) ==
    \/ ReadPointer(w) \/ ResolveUnchanged(w) \/ ResolveKnown(w) \/ ResolveUnknown(w)
    \/ WriteStep(w) \/ WriteRefused(w) \/ WriteCancelled(w)
    \/ WriteReviews(w) \/ ArmTimers(w) \/ MovePointer(w)

Timer(e) == TickExpires(e) \/ TickEnds(e) \/ TickWrites(e) \/ TickSuperseded(e)

Next ==
    \/ \E w \in Workers, c \in Candidates : Deliver(w, c)
    \/ \E w \in Workers : Resolver(w)
    \/ \E w \in Workers : Die(w)
    \/ \E e \in EventIds : Timer(e)

Spec == Init /\ [][Next]_vars

(***************************************************************************)
(* Safety                                                                  *)
(***************************************************************************)

\* Every version an event has gone through was reached legally from the one before it,
\* although the writer decided on a version it read some calls earlier: the audit record
\* names the state the event really was in, and the edge is in the table.
HistoryIsLegal ==
    \A e \in EventIds : \A n \in 1..Height(e) :
        LET a == audit[e][n]
        IN  IF n = 1
            THEN a.from = "none" /\ a.to = "reported"
            ELSE /\ a.from = versions[e][n - 1].state
                 /\ a.from = a.to \/ IsLegalTransition(a.from, a.to, a.trigger)

\* A late update is recorded but does not regress what is published: whoever writes, an
\* event's word from a record never goes back to an older dated one.
NoRegress ==
    [][\A e \in EventIds : current[e] # None =>
          \A r \in Records :
             Dated(current[e].sources[r]) /\ Dated(current'[e].sources[r])
                => current[e].sources[r] <= current'[e].sources[r]]_vars

\* No record is marked as handled whose event was never written, and no review names an
\* event that is not stored: what the table refers to exists, and rests on the record.
ReferencesResolve ==
    /\ \A r \in Records : pointers[r] # None =>
          /\ current[pointers[r].id] # None
          /\ current[pointers[r].id].sources[r] # NotHeld
    /\ \A pair \in reviews : current[pair[1]] # None /\ current[pair[2]] # None

\* A live parent that names an absorbed event has its evidence, even while the merge is half
\* written or was abandoned there: the child is stored in `merged` and names the parent back.
AbsorbedHasChild ==
    \A e \in EventIds : current[e] # None /\ current[e].state # "merged" =>
        \A child \in current[e].related :
            /\ current[child] # None
            /\ current[child].state = "merged"
            /\ e \in current[child].related

\* A source never merges with itself: an event rests on at most one record of a source,
\* however the merges that built it raced.
OneRecordPerSource ==
    \A e \in EventIds : current[e] # None =>
        \A r, q \in Records :
            /\ r # q /\ SameSource(r, q)
            /\ current[e].sources[r] # NotHeld
            => current[e].sources[q] = NotHeld

\* A record is published once: no two live events rest on one record, whichever of its
\* reports created, updated or joined them.
OneLiveEventPerRecord ==
    \A e, f \in EventIds : \A r \in Records :
        /\ e # f
        /\ current[e] # None /\ current[f] # None
        /\ OnLadder(current[e].state) /\ OnLadder(current[f].state)
        /\ current[e].sources[r] # NotHeld
        => current[f].sources[r] = NotHeld

\* Some stored version rests on report c of its record, or on a later one.
IsStored(c) ==
    \E e \in EventIds : \E n \in 1..Height(e) :
        versions[e][n].sources[RecordOf[c]] >= StampOf[c]

\* A candidate the resolver reported as done left its mark.
HandledIsStored == \A c \in Candidates : handled[c] > 0 => IsStored(c)

\* Another writer has stored the version that worker w was about to write.
Overtaken(w) ==
    /\ pc[w] = "write" /\ plan[w].writes # <<>>
    /\ LET s == Head(plan[w].writes) IN versions[s.id][s.event.version] # None

\* Whoever races or dies, an invocation answers `done` in two cases only: its report, or a
\* later one of the record, is stored; or the very version it was about to write has been
\* stored by another writer. No report is dropped for anything else.
DoneIsStoredOrOvertaken ==
    [][\A c \in Candidates : handled'[c] > handled[c] =>
          \/ IsStored(c)'
          \/ \E w \in Workers : cand[w] = c /\ Overtaken(w)]_vars

\* Nothing stays live with nobody watching it: while no invocation is at work, every event
\* in a state that can lapse has a running timer execution.
LiveEventsAreTimed ==
    (\A w \in Workers : pc[w] = "idle") =>
        \A e \in EventIds : current[e] # None /\ OnLadder(current[e].state)
                               => timer[e] \in {"waiting", "writing"}

(***************************************************************************)
(* Refinement: the audit trail, read as a history, is an EventLog.         *)
(***************************************************************************)

History(e) == [n \in 1..Height(e) |-> audit[e][n].to]

Log == INSTANCE EventLog WITH log <- [e \in EventIds |-> History(e)]

ImplementsEventLog == Log!LogSpec
================================================================================
