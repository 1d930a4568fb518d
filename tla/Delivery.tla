-------------------------------- MODULE Delivery --------------------------------
(***************************************************************************)
(* How a payload becomes candidates and a candidate reaches the resolver:  *)
(* handlers/collector.py, handlers/normalizer.py, the rules, retries and   *)
(* dead-letter queues of lib/ingest-stack.ts, and the replay of            *)
(* scripts/dlq.sh.  The question is where a message can be lost.           *)
(*                                                                         *)
(* A message is the payload or the candidate it carries.  EventBridge      *)
(* holds an accepted message until its target takes it or it gives up;     *)
(* Lambda then runs the handler, again after a failure, and hands what     *)
(* failed every time to a queue.  Two invocations for one message never    *)
(* overlap here; EventHub.tla has resolver invocations that do.            *)
(***************************************************************************)
EXTENDS Naturals, Sequences

CONSTANTS
    Polls,         \* collector invocations; each would store one payload
    Candidates,    \* the candidate events in the payloads
    Yields,        \* Polls -> the candidates its bytes parse into, in order
    Unregistered,  \* the polls of a source without an adapter
    BatchSize,     \* entries per PutEvents call (10 in the code)
    Retries,       \* Lambda's asynchronous retries (2 in the code)
    MaxRepeats,    \* bound: deliveries EventBridge makes twice
    FaultySets,    \* bound: the sets of messages that may fail or repeat, one a behaviour
    LossyPut,      \* whether PutEvents may reject entries of a call it accepts
    InvokeErrors,  \* the messages whose replay may fail before the function runs
    None           \* no message

Message == Polls \cup Candidates

ASSUME DeliveryAssumption ==
    /\ Polls \cap Candidates = {} /\ None \notin Message
    /\ Yields \in [Polls -> Seq(Candidates)]
    /\ Unregistered \subseteq Polls
    /\ BatchSize \in Nat \ {0} /\ Retries \in Nat /\ MaxRepeats \in Nat
    /\ FaultySets \subseteq SUBSET Message
    /\ LossyPut \in BOOLEAN /\ InvokeErrors \subseteq Message

VARIABLES
    collector,   \* Polls -> where the collector's invocation is
    raw,         \* the payloads in the raw bucket
    faulty,      \* the messages that may meet failures and repetitions
    bus,         \* the messages EventBridge has still to deliver
    accepted,    \* the messages EventBridge ever took
    attempt,     \* Message -> the running or queued attempt at its handler, 0 if none
    published,   \* Polls -> the entries the running normalizer has gone through
    quarantined, \* the payloads announced as having no adapter
    done,        \* the messages some invocation returned normally for
    letters,     \* Queues -> its dead letters
    replay,      \* the operator's replay: queue, message in hand, what is known of it
    repeats      \* repeated deliveries left

sourceVars == <<collector, raw, faulty>>
lambdaVars == <<attempt, published, quarantined, done>>
busVars == <<bus, accepted, repeats>>
vars == <<sourceVars, busVars, lambdaVars, letters, replay>>

\* In the order dlq.sh drains them.
Queues == <<"normalizer", "rule", "resolver", "resolver_rule">>
QueueNames == {Queues[i] : i \in DOMAIN Queues}

\* Attempt 1 and its retries; a replay's synchronous invocation has none.
Attempts == 1 + Retries
Synchronous == Attempts + 1

HandlerDlq(m) == IF m \in Polls THEN "normalizer" ELSE "resolver"
RuleDlq(m) == IF m \in Polls THEN "rule" ELSE "resolver_rule"

Dead(m) == \E q \in QueueNames : m \in letters[q]

Replays == [queue : 0..Len(Queues), hand : Message \cup {None},
            outcome : {"none", "running", "returned", "raised", "unreached"}]
Idle == [queue |-> 0, hand |-> None, outcome |-> "none"]

TypeOK ==
    /\ collector \in [Polls -> {"due", "stored", "over"}]
    /\ raw \subseteq Polls
    /\ faulty \in FaultySets
    /\ bus \subseteq Message /\ accepted \subseteq Message
    /\ attempt \in [Message -> 0..Synchronous]
    /\ published \in [Polls -> Nat]
    /\ quarantined \subseteq Polls
    /\ done \subseteq Message
    /\ letters \in [QueueNames -> SUBSET Message]
    /\ replay \in Replays
    /\ repeats \in 0..MaxRepeats

Init ==
    /\ collector = [p \in Polls |-> "due"]
    /\ faulty \in FaultySets
    /\ raw = {} /\ bus = {} /\ accepted = {}
    /\ attempt = [m \in Message |-> 0]
    /\ published = [p \in Polls |-> 0]
    /\ quarantined = {} /\ done = {}
    /\ letters = [q \in QueueNames |-> {}]
    /\ replay = Idle
    /\ repeats = MaxRepeats

(***************************************************************************)
(* EventBridge                                                             *)
(***************************************************************************)

\* The entries of one PutEvents call that may be taken. No caller looks at FailedEntryCount.
Takes(entries) == IF LossyPut THEN SUBSET entries ELSE {entries}

PutEvents(entries) ==
    \E taken \in Takes(entries) :
        /\ bus' = bus \cup taken
        /\ accepted' = accepted \cup taken
        /\ UNCHANGED repeats

\* Lambda takes the message for its asynchronous queue; EventBridge may deliver it twice.
BusDelivers(m) ==
    /\ m \in bus /\ attempt[m] = 0
    /\ attempt' = [attempt EXCEPT ![m] = 1]
    /\ \/ bus' = bus \ {m} /\ UNCHANGED repeats
       \/ m \in faulty /\ repeats > 0 /\ repeats' = repeats - 1 /\ UNCHANGED bus
    /\ UNCHANGED <<sourceVars, accepted, published, quarantined, done, letters, replay>>

\* Two retries or two hours without a delivery: the target's own dead-letter queue.
BusGivesUp(m) ==
    /\ m \in bus \cap faulty
    /\ bus' = bus \ {m}
    /\ letters' = [letters EXCEPT ![RuleDlq(m)] = @ \cup {m}]
    /\ UNCHANGED <<sourceVars, accepted, repeats, lambdaVars, replay>>

(***************************************************************************)
(* The collector                                                           *)
(***************************************************************************)

\* The announcement goes out before the bytes are stored.
StoreRawAfterAnnouncing(p) ==
    /\ collector[p] = "due"
    /\ collector' = [collector EXCEPT ![p] = "stored"]
    /\ PutEvents({p})
    /\ UNCHANGED <<raw, faulty, lambdaVars, letters, replay>>

\* The feed answered with bytes: put_object, under a key of this poll's own.
StoreRaw(p) ==
    /\ collector[p] = "due"
    /\ collector' = [collector EXCEPT ![p] = "stored"]
    /\ raw' = raw \cup {p}
    /\ UNCHANGED <<faulty, busVars, lambdaVars, letters, replay>>

\* RawPayloadStored.
AnnounceRaw(p) ==
    /\ collector[p] = "stored"
    /\ collector' = [collector EXCEPT ![p] = "over"]
    /\ PutEvents({p})
    /\ UNCHANGED <<raw, faulty, lambdaVars, letters, replay>>

\* The fetch fails and is reported, or a call raises. A retry is a new poll, with a key of
\* its own: nothing comes back to what was stored and not announced.
CollectorEnds(p) ==
    /\ p \in faulty /\ collector[p] # "over"
    /\ collector' = [collector EXCEPT ![p] = "over"]
    /\ UNCHANGED <<raw, faulty, busVars, lambdaVars, letters, replay>>

(***************************************************************************)
(* The handlers                                                            *)
(***************************************************************************)

\* A synchronous invocation's outcome goes to the replay that waits for it.
Reported(m, outcome) ==
    IF attempt[m] = Synchronous /\ replay.hand = m /\ replay.outcome = "running"
    THEN [replay EXCEPT !.outcome = outcome]
    ELSE replay

\* Attempt n is next, none if 0, and it starts from nothing.
Restart(m, n) ==
    /\ attempt' = [attempt EXCEPT ![m] = n]
    /\ published' = [p \in Polls |-> IF p = m THEN 0 ELSE published[p]]

Returns(m) ==
    /\ Restart(m, 0)
    /\ done' = done \cup {m}
    /\ replay' = Reported(m, "returned")
    /\ UNCHANGED <<sourceVars, letters>>

\* Without the entries at the batch's end.
BatchWithoutLast(p) ==
    {Yields[p][i] : i \in {j \in DOMAIN Yields[p] :
                              published[p] < j /\ j < published[p] + BatchSize}}

\* The next ten entries, or what is left.
Batch(p) ==
    {Yields[p][i] : i \in {j \in DOMAIN Yields[p] :
                              published[p] < j /\ j <= published[p] + BatchSize}}

\* CandidateEventProduced, one PutEvents call a batch.
PublishBatch(p) ==
    /\ p \notin Unregistered /\ attempt[p] > 0 /\ published[p] < Len(Yields[p])
    /\ PutEvents(Batch(p))
    /\ published' = [published EXCEPT ![p] = @ + BatchSize]
    /\ UNCHANGED <<sourceVars, attempt, quarantined, done, letters, replay>>

Normalized(p) ==
    /\ p \notin Unregistered /\ attempt[p] > 0 /\ published[p] >= Len(Yields[p])
    /\ Returns(p)
    /\ UNCHANGED <<busVars, quarantined>>

\* No adapter: PayloadQuarantined, and a normal return.
Quarantine(p) ==
    /\ p \in Unregistered /\ attempt[p] > 0
    /\ quarantined' \in {quarantined \cup taken : taken \in Takes({p})}
    /\ Returns(p)
    /\ UNCHANGED busVars

\* The resolver, as one step; EventHub.tla has its calls.
Resolve(c) ==
    /\ attempt[c] > 0
    /\ Returns(c)
    /\ UNCHANGED <<busVars, quarantined>>

\* A failure counts for nothing and the handler runs again.
RaiseForever(m) ==
    /\ m \in faulty /\ attempt[m] > 0
    /\ Restart(m, 1)
    /\ UNCHANGED <<sourceVars, busVars, quarantined, done, letters, replay>>

\* A synchronous invocation is tried again as well.
RaiseRetriedAlways(m) ==
    /\ m \in faulty /\ attempt[m] > 0
    /\ \/ attempt[m] # Attempts /\ Restart(m, attempt[m] + 1) /\ UNCHANGED letters
       \/ /\ attempt[m] = Attempts /\ Restart(m, 0)
          /\ letters' = [letters EXCEPT ![HandlerDlq(m)] = @ \cup {m}]
    /\ replay' = Reported(m, "raised")
    /\ UNCHANGED <<sourceVars, busVars, quarantined, done>>

\* The handler raises or times out: again from the start, then onFailure. A synchronous
\* invocation has neither.
Raise(m) ==
    /\ m \in faulty /\ attempt[m] > 0
    /\ \/ attempt[m] < Attempts /\ Restart(m, attempt[m] + 1) /\ UNCHANGED letters
       \/ /\ attempt[m] = Attempts /\ Restart(m, 0)
          /\ letters' = [letters EXCEPT ![HandlerDlq(m)] = @ \cup {m}]
       \/ attempt[m] = Synchronous /\ Restart(m, 0) /\ UNCHANGED letters
    /\ replay' = Reported(m, "raised")
    /\ UNCHANGED <<sourceVars, busVars, quarantined, done>>

Handler(m) ==
    \/ m \in Polls /\ (PublishBatch(m) \/ Normalized(m) \/ Quarantine(m))
    \/ m \in Candidates /\ Resolve(m)

(***************************************************************************)
(* dlq.sh --replay                                                         *)
(***************************************************************************)

replayAlone == <<sourceVars, busVars, lambdaVars, letters>>

\* Only the normalizer's count and the resolver pair's are looked at.
ReplayStarts ==
    /\ replay = Idle
    /\ \E q \in {"normalizer", "resolver", "resolver_rule"} : letters[q] # {}
    /\ replay' = [replay EXCEPT !.queue = 1]
    /\ UNCHANGED replayAlone

\* The next letter is received, which does not delete it, and its function called, which
\* the message's content selects and not the queue it came from.
Invoke(m) ==
    /\ replay.queue > 0 /\ replay.hand = None
    /\ m \in letters[Queues[replay.queue]]
    /\ attempt[m] = 0
    /\ attempt' = [attempt EXCEPT ![m] = Synchronous]
    /\ replay' = [replay EXCEPT !.hand = m, !.outcome = "running"]
    /\ UNCHANGED <<sourceVars, busVars, published, quarantined, done, letters>>

\* The call to Lambda itself fails: throttled, denied, no network.
InvokeFails(m) ==
    /\ m \in InvokeErrors
    /\ replay.queue > 0 /\ replay.hand = None
    /\ m \in letters[Queues[replay.queue]]
    /\ replay' = [replay EXCEPT !.hand = m, !.outcome = "unreached"]
    /\ UNCHANGED replayAlone

NextQueue == IF replay.queue < Len(Queues) THEN [Idle EXCEPT !.queue = replay.queue + 1] ELSE Idle

\* Deleted once the function was started.
DeleteLetterWhenInvoked ==
    /\ replay.hand # None
    /\ letters' = [letters EXCEPT ![Queues[replay.queue]] = @ \ {replay.hand}]
    /\ replay' = [replay EXCEPT !.hand = None, !.outcome = "none"]
    /\ UNCHANGED <<sourceVars, busVars, lambdaVars>>

\* The output names no FunctionError.
DeleteLetter ==
    /\ replay.outcome \in {"returned", "unreached"}
    /\ letters' = [letters EXCEPT ![Queues[replay.queue]] = @ \ {replay.hand}]
    /\ replay' = [replay EXCEPT !.hand = None, !.outcome = "none"]
    /\ UNCHANGED <<sourceVars, busVars, lambdaVars>>

\* A FunctionError: the letter stays and the script goes on to the next queue.
LeaveLetter ==
    /\ replay.outcome = "raised"
    /\ replay' = NextQueue
    /\ UNCHANGED replayAlone

\* An empty answer, which a queue that is not empty may give too.
ReceiveNothing ==
    /\ replay.queue > 0 /\ replay.hand = None
    /\ replay' = NextQueue
    /\ UNCHANGED replayAlone

\* Interrupted; an invocation that is running runs on.
ReplayStops ==
    /\ replay.queue > 0
    /\ replay' = Idle
    /\ UNCHANGED replayAlone

Operator ==
    \/ ReplayStarts \/ (\E m \in Message : Invoke(m) \/ InvokeFails(m))
    \/ DeleteLetter \/ LeaveLetter \/ ReceiveNothing \/ ReplayStops

(***************************************************************************)
(* Specification                                                           *)
(***************************************************************************)

Next ==
    \/ \E p \in Polls : StoreRaw(p) \/ AnnounceRaw(p) \/ CollectorEnds(p)
    \/ \E m \in Message : BusDelivers(m) \/ BusGivesUp(m) \/ Handler(m) \/ Raise(m)
    \/ Operator

\* EventBridge delivers or gives up, and Lambda runs what it took. Nobody has to replay.
Fairness == \A m \in Message : WF_vars(BusDelivers(m)) /\ WF_vars(Handler(m))

Spec == Init /\ [][Next]_vars /\ Fairness

(***************************************************************************)
(* Properties                                                              *)
(***************************************************************************)

\* Nothing the bus took is dropped: until its handler has returned normally it is on the
\* bus, with Lambda, or a dead letter. The one exception is a message whose own replay may
\* fail unseen (InvokeErrors; dlq.sh deletes the letter although nothing was replayed).
NothingVanishes ==
    \A m \in accepted \ InvokeErrors :
        \/ m \in bus \/ attempt[m] \in 1..Attempts \/ Dead(m)
        \/ m \in done

\* A payload counts as normalized only when every candidate in it was published, however
\* often the normalizer was retried or replayed; one without an adapter was announced.
NormalizedIsPublished ==
    \A p \in Polls \cap done :
        IF p \in Unregistered THEN p \in quarantined
        ELSE \A i \in DOMAIN Yields[p] : Yields[p][i] \in accepted

\* Every candidate and every dead letter of the normalizer can be traced to its bytes: what
\* is announced was stored before, so a replay from the original payload is always possible.
BytesAreStored ==
    /\ accepted \cap Polls \subseteq raw
    /\ \A c \in accepted \cap Candidates :
          \E p \in raw : \E i \in DOMAIN Yields[p] : Yields[p][i] = c

\* `dlq.sh` without arguments prints PASS: it counts every queue but the normalizer's rule's.
StatusPasses == \A q \in {"normalizer", "resolver", "resolver_rule"} : letters[q] = {}

\* No collector, bus or handler has anything left to do.
Quiet ==
    /\ \A p \in Polls : collector[p] = "over"
    /\ bus = {}
    /\ \A m \in Message : attempt[m] = 0

\* PASS means that every fetched payload became events: once nothing is under way any more,
\* each stored payload was normalized and each of its candidates resolved.
PassMeansEvents ==
    Quiet /\ StatusPasses =>
        \A p \in raw \ Unregistered :
            p \in done /\ \A i \in DOMAIN Yields[p] : Yields[p][i] \in done

\* Nothing is tried for ever: a message is in the end handled or a dead letter, with the
\* same exception.
EverythingSettles ==
    \A m \in Message \ InvokeErrors : m \in accepted ~> (m \in done \/ Dead(m))
================================================================================
