# A verification model of the corridor event hub

The hub collects road events from several agencies' feeds, turns each report into one
canonical *event* with an append-only history, merges reports that describe one occurrence,
withdraws an event when nobody confirms it any longer, and answers vehicles, dashboards and
other agencies from what it holds. These modules model it from the first byte stored to
the last answer given: the intake, the resolver, the store, the timers, the migrations, and
the readers. TLC checks small instances. For every instance TLAPS proves the safety of the
parts where concurrency and failure decide: histories are whole, legal and never regress,
what refers to an event refers to a stored one, merges leave no orphan, the hub implements
an abstract event log, the pipeline loses nothing it accepted, the timer chain never ends
early or expires what was confirmed, migrations never part the schema from its record, every
record of a feed is answered for and a failed normalizer has its reason in its payload or its
database, no look-ahead misses an event for moving while it is read, the feed is whole and
licensed, and the tracker's cache serves nothing stale.

Paths below are relative to `src/corridor_event_hub/` unless they start with
`lib/`, `scripts/`, `docs/`, `sql/` or `ui/`. `PROJECT.json` maps every modelling definition to
the lines it stands for.

## 1. Inventory

### The flow

    EventBridge Scheduler
      -> collector -> S3 (raw bytes) + health -> RawPayloadStored
      -> normalizer (corridor, adapter) -> CandidateEventProduced, batches of 10
      -> resolver --+--> DynamoDB events table --> query API, WZDx feed, tracker, UI
                    +--> Step Functions timer, one execution chain per event
                    +--> announcements on the bus
      lifecycle tick <-> the same events table
      PostGIS (corridor geometry, loaded by migrations) <- normalizer, query API
      strip view: adapters + matcher + confidence over a snapshot, without a store

The bus delivers at least once and does not order (`lib/ingest-stack.ts`). The
normalizer and the resolver have two dead-letter queues each, one for what was never
delivered and one for what the handler failed on every time; `scripts/dlq.sh` shows and
replays them. The resolver runs up to ten at a time.

### Components

| Component | State | Operations | Interacts with |
|---|---|---|---|
| Lifecycle table (`core/lifecycle.py`) | none: the edges, their triggers, the time-to-live ladder | `is_legal_transition` | every writer, the trace |
| Canonical types (`core/types.py`) | events, candidates, steps, pointers | constructors | all |
| Event store (`core/eventstore.py`) | per event: `v#n`, `audit#n`, `current`; per record: a pointer; a review queue; a corridor index | `write_change`, `put_source_pointer`, `queue_reviews`, reads | resolver, tick, query API, tracker |
| Resolution policy (`core/resolution.py`) | none: pure | `resolve_new`, `resolve_update`, `_merge`, `promote`, `expire` | resolver, tick |
| Resolver (`handlers/resolver.py`) | one invocation's locals | read pointer, read event, decide, write the chain, reviews, arm, move pointer, announce | bus, store, Step Functions |
| Lifecycle timer (`handlers/lifecycle.py`, `lib/ingest-stack.ts`) | the execution: wait, tick number | tick, hand off, retry | store, itself |
| Schema migrations (`handlers/db_migrate.py`, `core/migrations.py`) | `schema_migration`, the schema, an advisory lock | plan, lock, apply, record | PostgreSQL, deployments |
| Collector (`handlers/collector.py`) | raw objects, health items | fetch, store, announce | Scheduler, bus |
| Normalizer (`handlers/normalizer.py`) | Lambda's attempts at a payload; the container's globals: the conflator, the corridor source and its cache, the database connection | prepare, parse, publish in batches, quarantine | bus, raw objects, PostGIS, adapters |
| Source adapters (`adapters/*.py`) | per payload: the issues so far, the off-corridor count, the segments seen | `parse` of each source | conflator, normalizer |
| Linear referencing (`core/lrs.py`, `core/postgis.py`, `core/dbconn.py`) | the corridor cache, the connection | conflate a coordinate, a line, a polygon, mileposts; overlap; ahead | adapters, matcher, query API |
| Matcher (`core/matcher.py`) | none: pure | `match`, `cluster_candidates` | resolver, strip |
| Confidence, derivation (`core/confidence.py`, `core/derive.py`) | none: pure | `score_confidence`; field precedence | policy, strip |
| Dead letters (`lib/ingest-stack.ts`, `scripts/dlq.sh`, `dlq_format.py`) | four queues; the letter a replay has in hand | status, peek, replay, purge | Lambda, an operator |
| Query API (`handlers/query.py`) | one request's locals | look-ahead, list, WZDx feed, one event, history, reviews | store, corridor |
| WZDx feed (`core/wzdx.py`) | none: pure | `to_wzdx_feed`, `validate_feed` | query API |
| Tracker (`trace_server.py`, `core/cloud.py`, `core/trace.py`) | a cache per kind of answer, a lock per key, a thread per request | `build_trace`, listing, caching | store |
| Strip view (`strip_export.py`) | none: a snapshot | cluster, score | adapters, matcher |
| UI, operator scripts | | | query API, tracker |

### Where it is hard

1. **Read, decide, write in separate calls.** A resolver reads a pointer, then an
   event, decides, and writes a chain of versions one transaction each. Another
   resolver, or the event's timer, can write in any gap.
2. **The store's verdicts.** A refused write is either "already written" or "you
   lost a race". The two need opposite reactions, and DynamoDB answers both with
   one reason code.
3. **Crash between calls.** Versions, reviews, timer and pointer are four separate
   effects, then the announcement.
4. **A merge is two events in four transactions**, and the event merged into was
   chosen from an eventually consistent index.
5. **Reports out of order**, undated reports, and duplicates of both.
6. **The timer chain** must survive lost races, retries and its own handoff, must
   never expire an event somebody confirmed, and must in the end close a silent one.
7. **Migrations** plan before they lock, and must never separate the schema from
   the record of it.
8. **Partial delivery.** A payload is published in batches and retried whole; the bus
   may refuse one entry of a call, deliver twice or give up; a replay deletes the only
   copy of a letter on what it believes of an invocation.
9. **A container outlives its invocations.** Its connection may be dead, its corridor
   the one before the last survey, its cache empty where its conflator is not.
10. **A feed is one list of records and one list of issues.** A record that cannot be
    placed or understood has to be refused alone, and what was wrong with it must not be
    said of the next.
11. **The index is read one lifecycle state after another**, page after page, while events
    move from state to state and the index follows them late: whatever moves between two
    reads may be seen twice or never.
12. **A trace is five reads that nothing ties together**, a listing one query per state
    and page, all of them eventually consistent, behind a cache many threads fill.
13. **Clusters are built pair by pair** in the order the feeds were read, and mirrored
    feeds must not vouch for each other.

### What makes each part correct

* Store: a history numbered 1, 2, ... with no hole and nothing rewritten; `current`
  is its last entry.
* Resolver with store: every audit record names the state the event really left;
  published information never regresses; what refers to an event refers to a
  stored one; a record is published once; a report answered as done is stored, or another
  writer took the version it was to become.
* Merge: a live parent always has its absorbed child; one source never merges
  with itself.
* Timer: only silence expires; nothing is published before its start; no tick
  wakes for nothing; the chain survives; a quiet event is closed.
* Migrations: record and schema agree at every instant; a run-once file runs once;
  a run that succeeds leaves its own files applied.
* Pipeline: what the bus took is somewhere until it was handled; a normalized payload
  was published whole; bytes are stored before anything refers to them; everything is
  in the end handled or a dead letter.
* Intake: no candidate without a place; every record about this road becomes a candidate,
  an issue or a counted off-corridor record; an issue stays with its record; an invocation
  fails only on a payload its parser does not survive, or without the database it needs.
* Query API and feed: nothing live is missed by moving while it is read, unless the index
  itself withholds it; every work zone is
  published or excluded with a reason, and nothing rests on a source whose licence forbids it.
* Tracker: no answer older than it says; a hole or an illegal edge is reported exactly when
  it is there; a listing is complete or says that it is cut; every request is answered.
* Strip: clusters are what the merges connect; only independent witnesses add confidence.

`PROJECT.json` lists each hazard at its line, with the properties that watch it.

## 2. Modules

    Lifecycle <- CanonicalEvent <- EventStore --+
        |              ^---------- Resolution --+-> EventHub <- MCEventHub
        |                                            ^   \
        +<- EventLog (abstract) <--INSTANCE WITH-----'    EventHub_proofs
        |                                                   ^
        |                                                 EventSources_proofs
        +<- LifecycleTimer <- MCLifecycleTimer, LifecycleTimer_proofs
        +<- Trace <- Tracker <- MCTracker, Tracker_proofs
        +<--------------------------------------+
    LinearReference <- Matching <- Scoring, Wzdx <- Answers <- MCAnswers, Answers_proofs
          ^
    Vocabulary <- Adapters <- Intake <- MCIntake, Intake_proofs
    Migrations <- MCMigrations, Migrations_proofs
    Delivery <- MCDelivery, Delivery_proofs

`Adapters` extends both `Vocabulary` and `LinearReference`; `Answers` extends `Scoring`, `Wzdx`
and `Lifecycle`.

### The hub

* **Lifecycle** - states, triggers, the thirteen edges, the legality test with its
  operator override, the ladder `TTL_LADDER`, the states a report may be matched to.
* **CanonicalEvent** - an event keeps its version, its state, for each source
  record how recent its word is (`NotHeld`, `Undated`, or a stamp), and its related
  events. Geometry, severity, confidence and extensions are not kept: no decision of the
  hub reads them except through a judgement that is a free choice there.
* **EventStore** - the table. `Transact` is one step's transaction with all its
  condition expressions (`Admits`); the pointer and each review are calls of
  their own.
* **Resolution** - the policy as operators from what was read to a *plan*: the steps
  in writing order, the reviews, what to arm, where the pointer goes. The candidate's
  validity, whether its start has come, and which events match it are parameters.
* **EventHub** - the composition: workers are resolver invocations, each event has
  a timer, all on one store. `pc` names the next call:

  | `pc` | code | action |
  |---|---|---|
  | `idle` | delivery by the bus, retry of a failure | `Deliver` |
  | `pointer` | `get_source_pointer` | `ReadPointer` |
  | `decide` | `get_event`, `find_candidates_in_corridor`, then the policy | `ResolveUnchanged`, `ResolveKnown`, `ResolveUnknown` |
  | `write` | one transaction of `write_change`, then one put of `queue_reviews` | `WriteStep`, `WriteRefused`, `WriteCancelled`, `WriteReviews` |
  | `arm` | `_start_lifecycle` | `ArmTimers` |
  | `point` | `put_source_pointer` | `MovePointer` |
  | any but `idle` | a timeout, a throttled call, a lost container | `Die` |

  Decision and read share a step because the policy is pure and keeps nothing but
  what it read; the gap that matters, between a read and the write, is there.
  `Backend` selects the verdicts: the in-memory store tests `current` first and
  raises a conflict, the DynamoDB one reports every failed condition as an existing
  version and raises a conflict when a transaction is cancelled for anything else: another
  transaction on the same item, or throttling (`WriteCancelled`, possible at any write).
  A second attempt of the handler starts at `pointer` again with nothing kept.
  `core/resolution.py:744` raises `IllegalTransition` for an edge the table does not have.
  That exit is not modelled, on purpose: `HistoryIsLegal`, and `PlansAreBased` for every step
  still to be written, say that the policy never asks for such an edge, so that it is never taken.
* **EventLog** - the abstract specification: per event a history of states that
  grows at its end along the table's edges. `EventHub` implements it under
  `log[e] = <<audit[e][1].to, audit[e][2].to, ...>>`.
* **LifecycleTimer** - one event's timer with a clock: executions, the Wait state's
  remaining time, slack and least wait, the cap and the handoff, the machine's
  retries, the tick's conditional write, and a resolver that writes between its read and
  that write. `Executions` has the two names that can exist: the event id and
  `{id}-{tick}` at the cap.
* **Migrations** - runs of several deployments with different copies of the files: drift,
  plan, try-lock, one transaction per file together with its record, failure anywhere.

### The pipeline and the intake

* **Delivery** - the way of a payload to candidates and of a candidate to the resolver. A
  message (a payload or a candidate) is on `bus` until its target takes it, then with
  Lambda at its `attempt` 1, 2, ..., and at last in `done` or in one of four `letters`
  queues.

  | code | actions |
  |---|---|
  | `handlers/collector.py` `handler`: `put_object`, then `put_events` | `StoreRaw`, `AnnounceRaw`, `CollectorEnds` |
  | `put_events`, the rules' targets with their retries and queue | `PutEvents`, `BusDelivers`, `BusGivesUp` |
  | `handlers/normalizer.py` `handler` | `PublishBatch`, `Normalized`, `Quarantine` |
  | the resolver's `handler`, whose calls `EventHub` has | `Resolve` |
  | a function's `retryAttempts` and `onFailure` | `Raise` |
  | `scripts/dlq.sh` `replay)` | `ReplayStarts`, `Invoke`, `InvokeFails`, `DeleteLetter`, `LeaveLetter`, `ReceiveNothing`, `ReplayStops` |

  A synchronous invocation, which only a replay makes, is attempt `Synchronous`: it has no
  retry and no queue. `LossyPut` and `InvokeErrors` are the two environment failures the
  code does not look at. The passing run has no refused entries, and one candidate (`c2`)
  whose replay may fail unseen: `NothingVanishes` and `EverythingSettles` speak of all
  others, and so say that such a failure harms no other message.
* **LinearReference** - a corridor is its states' segments, the distance and the calibrated
  measure of each vertex, and a buffer. Mileposts to measures and back, interpolation
  between vertices, the in-process conflations (coordinate, line, polygon by samples,
  mileposts), the database's polygon path, `measure_overlap`, `is_ahead_of`. A point of the
  map is how far along the centerline it projects and how far off it.
* **Vocabulary** - each agency's words to the hub's classes, directions and lane impacts.
* **Adapters** - per source two operators: which records it takes, in the order of its
  `continue`s, and what it makes of one (`MapNws`, `MapOk`, `MapTx`, `MapAz`, `MapNm`, `MapTile`):
  nothing, a refusal with its issue, an off-corridor record, or candidates with issues. `Trips`
  is the fifth way a record can end: its parser raises, and the whole payload with it - on a
  record that is no object (`nws`, `ok`, `tx`, `az`; `nm` has a test for it) and on a position
  that is no pair (`tx_dot_wzdx.py:237`, `ok_odot_wzdx.py:270`, `lrs.py:600`).
* **Intake** - one container of the normalizer over several invocations, the database that
  goes down, comes back (`life` tells one uptime from the next), is filled by its migrations
  (`holds`: nothing, a route without segments, the corridor, several), and is loaded with a new
  survey.

  | code | action |
  |---|---|
  | `normalizer.handler` entered | `Begin` |
  | `_conflator`: `set_corridor_source`, the route, the corridor; without a database | `Prepare`, `Load`, `PrepareOffline` |
  | the feed-level checks of a `parse`, what is no JSON or not the source's shape | `Read` |
  | one turn of an adapter's loop, or its raising | `Parse` |
  | the end of the loop; `Delivery` goes on from there | `Finish` |
  | the database; its migrations; a cold start | `GoDown`, `ComeBack`, `Fill`, `Reload`, `Recycle` |

### The readers

* **Matching** - the score's components, gates and thresholds in the ten-thousandths the code
  rounds to, and the clusters as the code makes them: two loops over the pairs (`Down`, `Across`),
  each merge hanging one root under the other (`union`), the parents followed to the roots at the
  end (`Roots`). **Scoring** - the six weighted components of
  confidence and the groups of independence. **Wzdx** - which events make features, what is
  excluded and why, the licence of every source, `validate_feed`.
* **Answers** - a request from its parameters to its answer against events that move.

  | code | action |
  |---|---|
  | `look_ahead`, `list_events`, `wzdx_feed` up to the read | `Ask` |
  | a page of one lifecycle state's query of `events_overlapping` | `ReadPage` |
  | filters, order, limit; `to_wzdx_feed` | `Answer` |
  | resolvers and timers; the index following them, one state's entry at a time | `Move`, `CatchUp` |
  | `_safe_corridor`: the geometry may be out of reach | `CorridorComesOrGoes` |
  | `strip_export.py` from reports to clusters | `Strip` |
* **Trace** - the document of one record: steps with their diffs, spans of state, findings,
  stages. Pure.
* **Tracker** - `trace_server.py`'s threads over `core/cloud.py`'s reads, while the hub writes.

  | code | action |
  |---|---|
  | a request arrives | `Ask` |
  | `TtlCache.get_or_load`: the key's lock, the entry, the load | `Hit`, `Miss`, `Store`, `Fail` |
  | `current_version`, the two pages, the two counts | `ReadCurrent`, `ReadVersions`, `ReadAudit`, `CountVersions`, `CountAudit` |
  | a page of one state's index query | `Query` |
  | the hub; a replica catching up; time | `Write`, `CatchUp`, `Pass` |

  A row of `Query` is what the index entry itself says: the read of an event's related events
  (`trace_server.py:341-349`) adds to a row and decides nothing. Of the trace's findings,
  `clock_skew` and `source_behind_slo`, which compare wall clocks, are left out.

  `quiet` and `still` in a thread's record, and `held` in a request of `Answers`, are history
  variables: which events were left alone, or stayed live, since the question was asked.
  Nothing but the properties reads them.

An operator that no action uses (`AdmitsAnything`, `MergeParentFirst`,
`TickWritesBlindly`, `ConnectUnasked`, ...) is a plausible mistake in the code; the mutants in
`PROJECT.json` put it in the place of the real definition and TLC must then find
the property violated.

## 3. Runs

CHECK_DEADLOCK is FALSE everywhere: deliveries, runs, polls, updates, invocations and requests
are bounded, and a timer really ends.

| Run | Instance | Shows |
|---|---|---|
| `hub` | 2 workers, 2 event ids, 2 records of 2 sources, 3 reports (dated 3, dated 2, undated), 3 deliveries, versions to 4, crashes, DynamoDB | `TypeOK`, `HistoryHasNoHoles`, `HistoryIsLegal`, `ReferencesResolve`, `AbsorbedHasChild`, `AppendOnly`, `NoRegress`, `ImplementsEventLog`, `DoneIsStoredOrOvertaken` |
| `hub_serial` | 1 worker, 3 ids, 3 records (two of one source), 4 reports, 3 deliveries, versions to 5, no crash, in memory | `OneRecordPerSource`, `OneLiveEventPerRecord`, `LiveEventsAreTimed` |
| `timer` | 1 update, 2 failures, every window | `TypeOK`, `ChainSurvives`, `OnlySilenceExpires`, `NotPublishedEarly`, `NoIdleTick`, `QuietEventsClose` |
| `migrate` | 3 deployments, 5 runs, one at a time | `TypeOK`, `RecordMatchesSchema`, `RunOnceIsAppliedOnce`, `CompleteMeansApplied` |
| `delivery` | a payload of 2 candidates in batches of 1, a payload without an adapter, 1 retry, 1 repeated delivery, failures of one message a behaviour, unseen failures of one candidate's replay | `TypeOK`, `NothingVanishes`, `NormalizedIsPublished`, `BytesAreStored`, `EverythingSettles` |
| `intake` | 3 invocations of one container, 2 outages, 3 corridors (the uncalibrated offline file, the loaded one, its resurvey), a database that holds anything at first, 2 to 4 payloads of each of six sources and 6 malformed ones | `TypeOK`, `EveryRecordIsAnswered`, `IssuesFollowTheirRecord`, `FailuresAreExplained` |
| `answers` | 3 events, 10 requests asked one at a time, 2 moves under a request, an index that lags, any pages, with a calibrated corridor, an uncalibrated one and none; every snapshot of up to 4 reports out of 6 | `NothingLiveIsMissed`, `FeedIsLicensedAndWhole`, `ClustersAreConnected`, `OnlyIndependentWitnessesAdd` |
| `reads` | 2 threads, 2 events, a legal history and one with an illegal edge, up to 2 items gone, up to 2 writes, window 2, one row a page, limit 1, 1 cache entry, time to live 1 | `TypeOK`, `AnswersAreRecent`, `TraceTellsTheTruth`, `ListingIsHonest`, `EveryRequestIsAnswered` |
| `lost_update` | 1 worker and the timers, DynamoDB | violates `HandledIsStored` |
| `handoff` | 2 updates, no failure | violates `ChainContinues` |
| `past_end` | 2 updates, no failure | violates `PastEndClears` |
| `lossy_put` | as `delivery`, and refused entries | violates `PassMeansEvents` |

### Why the bounds are enough

* *Two workers and a timer per event* give every pairwise race on an event and the
  three-way race of two resolvers and a tick.
* *Three deliveries* are a creation, a report of another source that merges into it, and
  an update, a duplicate or a retry after a death. A version bound of 4 holds the
  longest chain (a created event reaches 3) plus one write that races it; a merge's
  child needs 3. Actions whose chain would pass the bound are disabled, so the bound
  cuts behaviours off and never changes what a step does.
* *Stamps 3 and 2* are enough because the code only compares two stamps; *undated* is
  the third case.
* *Twins* (two records of one source) are what a self-merge needs; a third event id
  lets both be created and a further one absorb them.
* *`hub_serial`* runs where no call fails: one worker, no crash, and the in-memory store, which
  is the one that never cancels a transaction. `OneLiveEventPerRecord` and `LiveEventsAreTimed`
  are false elsewhere, for a reason the code shares: a chain and what follows it are several
  calls. A second worker, a death between them, or a cancelled second transaction of a new
  event leaves versions without a pointer or a timer, and TLC finds each. What
  this run shows is the rest: that the plan itself arms and publishes the right events, also
  where timers write between its steps.
* *Ids and workers are symmetric*: no definition orders them, and symmetry is not used
  with a liveness property.
* *Timer*: the profile keeps the order of the real one (`active` longest, others near
  the least wait); a unit of time is longer than a tick and the slack is one unit. The
  cap of 3 (200 in the code) puts a handoff inside every long chain; the machine retries
  a tick three times, here once, which already
  separates a tick that recovers from one that fails for good. One update is the most
  that fits in the six ticks of two executions; with two the second-handoff finding
  appears.
* *Delivery*: two batches have a first, a last and a point between; one retry separates a
  handler that recovers from one that does not; one repeated delivery is a second life for
  a message. `FaultySets` lets one message of a behaviour fail as often as the code allows,
  the payload or a candidate: messages meet only in the batches of one payload and in
  the replay, which handles one letter at a time.
* *Migrations*: five runs are enough for each deployment to run, fail and run again
  after another one.
* *Intake*: a payload holds one record for each way a record can end at its adapter, and next
  to each other those that could touch: one with issues before one without, one off the
  corridor before one on it, two of one segment; the malformed ones have the root, a record, or
  a position that is not what the parser takes it for. Three invocations are one that loads, one
  after a restart, and one after a reload; a second outage can hit the reconnection. The
  corridor has three vertices and a buffer of one unit, so that a point can lie on the line,
  at the buffer's edge and outside it, and a range inside one state or across the line.
* *Answers*: the look-back is the longest event's length, with a second event that begins
  behind the vehicle and one that comes with a geometry of its own; two moves take an event
  from a state to the one after the next, or two events from one each. The index may lag in
  each state an event left or came to until it catches up, and a page may end after any event.
  A limit of 2 is reached by three events. Requests are independent, so one per behaviour is enough. Four reports
  with a middle one that links two that do not match are what single-link clustering can get
  wrong; the pool has a mirror of a source, an undated and a stale report.
* *Reads*: a window of 2 over 3 versions has a step outside, one at the edge, and the one
  more version that is its predecessor; two missing items can hide each other in the counts.
  One cache entry and two traces force an eviction; two threads are enough for a lock.

### Fairness

`LifecycleTimer` states weak fairness of `Elapse` (time passes), of `StartsNow` (a start
time comes), and of each execution's `Tick` (Step Functions drives a started execution).
Nothing is assumed of sources, of end times, or of failures. `Delivery` states weak
fairness of `BusDelivers(m)` and of `Handler(m)`: EventBridge delivers what it holds or
gives up, and Lambda runs what it took. Nothing is assumed of polls, of failures or of an
operator, who need not replay anything. `Tracker` states weak fairness of each thread's
`Serve`: a Python thread runs, and the calls it makes return or raise. A failing read is
`Fail`, which is not fair and need never happen. A thread waiting for a lock is only enabled
while the lock is free; that it gets it is part of the property, and holds there because
requests are finite. The properties of the hub, of the migrations, of the
intake and of the answers are safety properties and need none.

### Abstractions that a reader should know

* A time-to-live may lapse, and a start time may have come, at any moment in
  `EventHub`; `LifecycleTimer` has the clock.
* The corridor index may return any version an event has had, or miss the event
  (`IndexViews`, `MergeChoices`): wider than DynamoDB's staleness, and it includes the
  scan's fixed look-back. In `Answers` the index lags state by state and the look-back is exact:
  an event whose move the index has not followed may be shown in the state it left, and be
  missing from the one it came to. No promise can be made about an event while the index
  withholds it, so `held` drops an event when a page passes its place in the state it is in
  without showing it. Every other event counts, also one that moves several times, is read
  in an old state, or is passed over in a state it has left.
* Which events match a report is a free choice in `EventHub`; what the matcher says is
  `Matching`'s, checked in `answers`.
* The pointer and the event are read as stored by the resolver: `get_source_pointer` and
  `get_event` ask for consistent reads. The tracker's reads do not, and may miss the last
  write (`lagging`).
* Three failures are one action: `Die` is a timeout, a throttled call or a lost
  container, and the bus's retry is a new delivery.
* In `Delivery` two copies of a message at one place are one, and two invocations for one
  message do not overlap (those of the resolver do in `EventHub`). What an adapter makes
  of the bytes is the constant `Yields`, the same at each attempt, as the parsers are
  deterministic; `Intake` has the parsers. The bytes themselves outlive every message, as
  Object Lock keeps them.
* Distances are whole units along the centerline and an offset from it; scores are whole
  ten-thousandths, and recency halves per half-life where the code decays continuously.
* A record in `Adapters` says what each test of the code asks of it (`here`: its road is this
  corridor's; `badStart`: a date that does not parse); the regular expressions and the tile
  bytes that decide it are inputs.
* A half-loaded corridor of `Intake` (`half`) stands for every state of the tables that
  `load_corridor` refuses; a database with another corridor alone is left out.
* Left out of `Delivery`: the source's health item and `MappingIssuesFound`, which nothing
  downstream waits for; purge and the queues' 14 days, which discard by intent; a letter
  that fits no handler, which the script leaves where it is.

## 4. Proofs

Eight modules hold the theorems. They are proved for any sets of workers, events, records,
candidates, deployments, threads, payloads and snapshots, any bound, both stores, with and
without crashes and outages; a table row names the hypotheses of those that need one. The sets
may be infinite, but for the events of `Answers`, which a request returns all of, and the
records of a payload and of a snapshot, which are lists.

| Module | Theorem | States |
|---|---|---|
| `EventHub_proofs` | `Inductive` | `Spec => []IInv` |
| | `TypeCorrect`, `NoHoles` | `Spec => []TypeOK`, `[]HistoryHasNoHoles` |
| | `NothingIsRewritten` | `Spec => AppendOnly` |
| | `PlansAreBased` | `Spec => []HInv` |
| | `LegalHistories` | `Spec => []HistoryIsLegal` |
| | `NothingRegresses` | `Spec => NoRegress` |
| | `HubImplementsLog` | `Spec => ImplementsEventLog` |
| | `OwnersAreKept` | `Spec => []RInv` |
| | `ReferencesHold` | `Spec => []ReferencesResolve` |
| | `FamiliesAreWhole` | `Spec => []KInv` |
| | `ParentsHaveChildren` | `Spec => []AbsorbedHasChild` |
| `EventSources_proofs` | `SourcesStayApart` | `Spec => []PInv` |
| | `NoSourceTwice` | `Spec => []OneRecordPerSource` |
| | `PointersAreMarked` | `Spec => []MInv` |
| | `DoneHasItsReason` | `Spec => DoneIsStoredOrOvertaken` |
| `LifecycleTimer_proofs` | `TypeCorrect`, `ChainGoesOn` | `Spec => []TypeOK`, `[]ChainSurvives` |
| | `SilenceExpires`, `PublishedInTime` | `Spec => OnlySilenceExpires`, `NotPublishedEarly` |
| | `SlackIsEnough` | `Spec => NoIdleTick` |
| `Migrations_proofs` | `TypeCorrect`, `RecordIsTrue` | `Spec => []TypeOK`, `[]RecordMatchesSchema` |
| | `RunOnce`, `CompletionIsTrue` | `Spec => []RunOnceIsAppliedOnce`, `CompleteMeansApplied`, given `Capped` |
| `Delivery_proofs` | `DeliveryTypeCorrect` | `Spec => []TypeOK` |
| | `NothingIsLost` | `Spec => []NothingVanishes` |
| | `NormalizedWasPublished` | `Spec => []NormalizedIsPublished`, given `~LossyPut` |
| | `BytesStayBehind` | `Spec => []BytesAreStored` |
| `Intake_proofs` | `TypeCorrect` | `Spec => []TypeOK` |
| | `FailuresAreAlwaysExplained` | `Spec => []FailuresAreExplained` |
| | `IssuesStayWithTheirRecord` | `Spec => []IssuesFollowTheirRecord` |
| | `RecordsAreAnswered` | `Spec => []EveryRecordIsAnswered` |
| `Answers_proofs` | `NothingLiveIsEverMissed` | `Spec => []NothingLiveIsMissed` |
| | `EveryReadIsAnswerable` | `Spec => []ReadIsAnswerable` |
| | `FeedIsAlwaysLicensedAndWhole` | `Spec => []FeedIsLicensedAndWhole` |
| | `OnlyIndependentWitnessesEverAdd` | `Spec => []OnlyIndependentWitnessesAdd` |
| | `ClustersAreAlwaysConnected` | `Spec => []ClustersAreConnected` |
| `Tracker_proofs` | `TypeCorrect`, `NoOldAnswer` | `Spec => []TypeOK`, `[]AnswersAreRecent` |
| | `ReadingsAreSound` | `Spec => []CInv` |
| | `ListingsAreHonest` | `Spec => []ListingIsHonest`, given `NoStateTwice` |
| | `TracesAreTrue` | `Spec => []TraceTellsTheTruth` |

Assumptions: each module's named assumption on its constants (`TypesAssumption`,
`NoneAssumption`, `HubAssumption`, `DeliveryAssumption`, `MigrationsAssumption`,
`IntakeAssumption`, `RecordsAssumption`, `SurveyAssumption`, `TrackerAssumption`,
`TableAssumption`, the four of `Answers` and those of the timer), which TLC evaluates in the runs.
Those of `Intake` and `Answers` say what a stored event, a request or a payload always looks like -
an event lies from west to east and rests on a source, a payload's records are a list, mileposts
come in their order because `parse_mileposts` turns a range round
(`adapters/nm_dot_weathershare.py:290-310`) - and what a survey is: a measure for every
vertex of a calibrated centerline, segments of whole numbers that add up to one (`total_miles` is a
fold, of which the prover knows nothing). That a centerline's vertices or measures rise is *not*
assumed. Nothing is assumed about which events overlap, which words a record uses or how reports
agree. `TableAssumption` is that the tracker starts on a table whose histories are lists and whose
gaps are in them; the histories themselves may be anything, illegal edges included.

*Histories without holes.* `HistoryHasNoHoles` alone is not inductive: a transaction stores
whatever audit record it is given, and nothing in the store checks that its number and
target are those of the version. `IInv` therefore adds that every step anybody still means
to write (in a worker's `plan`, in a timer's `tick`) is a `GoodSteps` member: its audit
record explains its own version, and it creates exactly when the version is 1. The policy
lemmas (`ReviseType` to `ResolveUpdateGood`) show that `Resolution` returns only such
steps when the event has room; `TransactExtends`, `TransactAppends` and
`TransactKeepsHistory` show that the conditions of *one* transaction, on a step that may be
arbitrarily stale, suffice: `current` at `version - 1` puts the write at the end of the
history. Every other action leaves the three store variables alone, which
`OneTransactionAtATime` states once for the action properties.

*Legal histories.* That a stored audit record names the state the event really left depends
on what its writer read, perhaps long ago. `HInv` adds, for every pending step, that it is
legal and that it was *decided on* (`Based`) the stored version one below its own, or that it
*chains* on the step before it in the same plan. The first cannot be undone by a race: stored
versions are never replaced (`NextGrows`), so a step that was based stays based, and `current`
admits it only while that version is the last. The second becomes the first when the
step before it is written; and when a step is refused the handler drops the whole rest of
the plan, so no step is left that chains on something that was not stored. `Based` includes
that no dated word is taken back (`NoOlder`), which gives `NoRegress` for the same step.
An update's decision is made on an event read in the same step, a merge's on a
version the index returned, which may be old: it is still a stored one, and that is all
the argument needs.

*References.* That a pointer's event exists and holds the record's word is not inductive
either: merges replace what an event says of a source, and a stale plan may be written over
a merge. `RInv` names the *owner* of an event, the record whose report opened it
(`Owns`). A pointer names an event only for its owner; an update comes only through that
pointer and replaces the words of the updating source's *other* records; a merge adds. So
every version, and every step still to be written, keeps the owner (`OwnersStay`,
`KeepsOwner`), and what was opened once stays opened. Plans that found their own event have
it as their first step (`Founds`).

*Families.* `AbsorbedHasChild` speaks of a live parent and its child in two histories, written
in four transactions of which the child's come first. `KInv` carries, for every stored and every
pending version that names related events, that each was sealed as merged, or will be by an
earlier step of the same plan (`KinInTurn`); and that merged is for good, because the table has no
edge back and a merged event keeps what it is related to (`MergesStay`, from `Succeeds`).

*One record of a source.* That no event counts a source twice is decided where a merge looks at
the event it merges into, and that event was read from an old index. `PInv` says it of every
stored and every pending version: a decision is based on a stored version (`HInv`), the owner is
among its records (`RInv`), and each policy function keeps what it was given pure.

*Done is stored or overtaken.* `MInv` gives every plan, pointer and read pointer its *mark*: a
version, stored or still to be written, that rests on the report or on a later one of the record.
Three calls answer `done` (`WhoAnswers`). An unchanged report found its mark in the pointer, and
an invocation that moves the pointer has written its plan; in both cases the mark is stored. The
third is a refused write that is taken for a repeated one. `HInv` has that its step was decided on a
stored version, and then each of the transaction's three conditions fails only if the
step's own version is stored (`RefusedIsOvertaken`): by the number of the version, or because
`current`, which is at least at the version decided on, has gone past it. So the report is
lost, if it is, to exactly one thing: another writer in the gap between the read and the write,
which is the finding of `lost_update`. No death, duplicate, cancelled transaction or stale index
read adds another.

*Refinement.* The abstract log of an event is its audit trail's targets. One transaction
appends one entry to one history, by an edge of the table (from the invariant above) or
as the opening `reported`; every other step stutters.

*The timer.* A tick acts on what it read. `ReadingHolds`: as long as the version is the one it
read, its reading is true, because only a write changes the state and only a write makes the
event younger; the conditional write then turns a lost race into a refusal. `EndsForGood`:
an execution that ended, or is about to, left nothing that can lapse, unless it handed off
(`ChainShape`). `NoIdleTick` needs arithmetic in addition (`WaitCovers`): the wait left and the
age reach past the deadline, by the slack.

*Migrations.* `RecordMatchesSchema` follows from one transaction for a file and its record.
The two that need the platform's cap add, under `Capped`, that one run is busy at a time
(`OneAtATime`) and that what is left of its plan is what still has to be done
(`PlanIsCurrent`): without the cap the plan, read before the lock, may be old.

*Delivery.* `NothingVanishes` needs that a replay knows what it believes: while the
script holds a letter it takes for replayed (`ReplayKnows`), a handler has returned for
that message, or its call failed - the case the property has to leave out.
`NormalizedIsPublished` follows from "what the running normalizer has
gone through was taken" (`PublishedIsAccepted`), which a restart keeps because it starts
from nothing, and a batch extends because the batches leave no gap. `BytesAreStored` adds
that no place holds what EventBridge never took (`Traced`).

*Intake.* An invocation knows of every moment it was not served (`ServiceIsKnown`): the database was
up and held the corridor when it began, or ceased to since. A connection is opened when the one held
is dead, and a database that serves has the route and its segments, so that a step raises
only on what `Malformed` says of the payload, or while the invocation was not served.

*Records and issues.* `AInv` is an account of the part of the payload already read, by the
number of the next record: every record behind it that the adapter wanted produced a candidate, an
issue, or one of the counted, and the count lies between those that left nothing and those that
left no candidate. Each adapter's operator is first shown to give one of four answers
(`OkAnswers`, `TxAnswers`, ..., `TileAnswers`), and to answer with nothing only what its
own filter passes over. A tile segment that was looked at but not placed counts as looked
at, which the first attempt at this proof showed `EveryRecordIsAnswered` had wrong.

*Types of the intake.* `TypeOK` says that every extent a candidate carries is whole: its measures are
integers in order, or none. `TInv` adds what the adapters rest on - whoever parses has a
conflator, and what the process keeps is one of the surveys - and one lemma per adapter
(`NwsIsSound`, `NmIsSound`, ...) shows that its conflation gives an extent or none: a milepost
range keeps its order because a segment maps it by one shift (`MilepostsKeepTheirOrder`), a
line or a polygon because its ends are a minimum and a maximum.

*Nothing live is missed.* `ScanIsWhole` is the invariant of a scan that races with its events: what
was live when the request came, and is, and was not withheld, was found or is still to be read
(`ToRead`): in the query that runs, because its place is not passed yet, or in a later one. It
holds because the states are read in the order events move through them (`Onward`, from
`InOrder`), so that an event only moves ahead of the reader; where the index lags, it shows an
event too often, which does no harm, or withholds it, which ends `held`. Pages only
ever pass what they have shown or what is not there. The look-back enters once, where an event that
overlaps the range is no longer than the query reaches back. The answer's sort and limit keep what
was found (`OrdersHoldOnce`, `AnOrderExists`); the latter also shows that `Answer` is never stuck.

*The feed.* What `to_wzdx_feed` publishes, and what it excludes, are two sets of indices that make up
all that was read (`published`, `ours`); an index is published when nothing speaks against the
event, so that its sources are licensed, its state is publishable, and the line the feed makes
for it has two points (`ASliceIsALine`: a slice of the corridor that is not empty has its two
ends). A geometry that came with the event is anything.

*Witnesses.* One more witness changes each of the six components in one direction: the most
reliable source, the freshest word and the number of groups can only rise, and stay for a witness
who is in a known group, not fresher and not more reliable. Recency's table falls with age
(`Halved`), and rounding keeps the order.

*Clusters.* The union-find's parents are a forest (`RootsOf`): there is a rank that falls towards the
root, so that following parents ends and gives the one root there is (`TheRootsAreFound`).
`Joins` is the invariant of the two loops: the two sides of each merge seen so far share a root, and a
set of reports that no seen merge leaves or enters is a union of whole trees. `UnionJoins` keeps
it - the tree that is moved ranks above the one that takes it - and `LoopsRun` and `LoopsKeep` carry
it through `Across` and `Down`. At the end all merges were seen, and a part of a tree without a merge to
its rest would be such a set.

*The tracker.* `LockShape` ties the locks to who builds, in both directions; `CacheShape` keeps
every entry from the past and every cache within its bound, where evicting the oldest makes room
for exactly one; `ThreadShape` keeps when a request arrived. A hit is then younger than the time
to live at the moment it is served, and a forced answer younger than its question, however
long the thread waited.

*What the tracker says.* `CInv` follows what a thread has read, read by read. Of a trace whose event
was left alone (`quiet`), each finished read holds exactly the newest items of the table, up to
its window, and the counts what there is (`Reads`); `TraceTellsTheTruth` then needs only that
the document is right about what was read: a gap or a short count in what was read is a missing item
of the table and the other way round, an illegal edge is that of a step shown, and the spans begin
where the state changes (`Begins`) and end before the next, so that each step lies in exactly one. Of
a listing, an event that stayed in its state (`still`) stands among the rows once, as soon as its
state's query went past it, and not before (`RowsAreSound`): pages are read in the key's order, so
the rows behind the last key are those passed. Entries and answers keep what the reading knew
(`EntriesAreHonest`, `AnswerIsHonest`). The listing's theorem needs `NoStateTwice`: the query
string does not name a state twice.

*Out of the prover's reach* and left to TLC: liveness, and with it everything about ENABLED:
`QuietEventsClose`, `PastEndClears`, `EverythingSettles` and `EveryRequestIsAnswered`. Every
other property of the passing runs is proved but `OneLiveEventPerRecord` and `LiveEventsAreTimed`:
they hold only where no two resolvers meet and no call fails, and a theorem under that
hypothesis would say nothing of the system as it is deployed (ten resolvers,
`lib/ingest-stack.ts:859`). Model checking on `hub_serial` is all that is claimed for them.

## 5. What the runs found

1. **A lost race is answered as a duplicate** (`lost_update`; `core/eventstore.py:535`).
   DynamoDB's cancellation reason is the code `ConditionalCheckFailed`, so the test for
   `attribute_not_exists` is always true and every failed condition becomes
   `VersionAlreadyExists`. A tick between a resolver's read and write makes the
   resolver drop the update and answer `unchanged`.
2. **The second handoff ends the chain** (`handoff`; `handlers/lifecycle.py:203`): the
   successor's own successor has the successor's name.
3. **A validated event past its end stays validated for ever** (`past_end`;
   `core/resolution.py:804`).
4. **A refused entry is lost, and the verdict is PASS** (`lossy_put`;
   `handlers/normalizer.py:197`). `put_events` answers with `FailedEntryCount` and does not
   raise; nobody reads it. A collector that dies between `put_object` and `put_events` has
   the same outcome for a whole payload.

The passing runs leave out three more on purpose, each where a constant or a property says so:

* *A crash before the pointer publishes a record twice* (`handlers/resolver.py:284`): the
  comment says the next delivery starts from unchanged state, but the versions are already
  stored. A transaction cancelled between two versions of a new event does the same. `OneLiveEventPerRecord` is therefore checked where `Crashes` is FALSE.
* *The migration plan is read before the lock* (`handlers/db_migrate.py:123`): without the
  platform's cap a run-once file can be applied twice; `RunOnceIsAppliedOnce` is checked and
  proved under `Capped`. Latent: every file in `sql/` is repeatable today.
* *A replay deletes what it could not call* (`scripts/dlq.sh:277`): any output of
  `aws lambda invoke` without the text `FunctionError` counts as success, that of a throttled
  or denied call too. `NothingVanishes` excepts the messages of `InvokeErrors`.

Met while reading; each is modelled as the code has it unless noted, and no run is about it.

* Writers. The profile of `dimensional_restriction` has no time-to-live for `clearing`
  although `core/resolution.py:222` says every state shall have one; the first timer wait has
  no slack (`handlers/lifecycle.py:60` says every wait has); an unchanged poll does not refresh
  `updated_at`, while a late report does, and moves the pointer's hash; updates of an absorbed
  record go to its merged child and not to the parent; a cleared event is never re-opened
  (`core/resolution.py:60-63`). An announcement whose invocation dies after the writes is
  never made.
* Dead letters. `dlq.sh` counts the normalizer rule's queue in neither its verdict nor its test
  for anything to replay (lines 129-135, 202). A re-run of an old candidate is a no-op only
  while the pointer still has its hash (`dlq_format.py:152`).
* Intake. `core/types.py:14-16` wants a malformed payload to become an issue and not an
  exception. A payload that is no JSON does; one whose root is no object raises in three
  adapters (`adapters/nws_alerts.py:114`, `tx_dot_wzdx.py:207`, `ok_odot_wzdx.py:230`), and a record
  with an empty position in two (`tx_dot_wzdx.py:237`, `ok_odot_wzdx.py:270`). All records of the
  payload fail with it, are retried and go to the dead letters. Modelled (`Trips`,
  `RaisesAtOnce`), and what `FailuresAreExplained` allows. A milepost asks the module's active corridor (`adapters/nm_dot_weathershare.py:474`),
  whose cache the conflator's own load does not fill, so that it needs the database although
  `core/postgis.py:393-400` has all but polygons in process; after a reload it may
  be answered from a newer survey than the conflator's. A tile segment is marked as seen before
  it is placed (`adapters/aws_location_traffic.py:382`): if its first feature cannot be placed,
  a second, placeable one is skipped.
* Query API. Without the corridor an infinite upper bound is sent to the index and the list and
  the feed answer 500, although `_safe_corridor` (`handlers/query.py:402`) is there to go on
  without it (654). A look-ahead distance of 0 is falsy and becomes the default (535). What is
  shown as an event's distance is an absolute value; `BOTH` looks east only, and an event whose
  direction is unknown is never ahead. An event is missed while the index has it in neither the
  state it left nor the one it came to; nothing in the answer tells. A client's own order of `lifecycle_state` may miss an
  event that moves against it between two reads.
* Feed. An event that ends before it starts, a lane below 1, or a geometry of the event's own
  that is no line of two positions (`adapters/tx_dot_wzdx.py:295`) is published although
  `validate_feed` would flag it; that check stands beside the feed and nothing calls it before
  answering.
* Tracker. A trace read while writes land may report `version_audit_mismatch` on a sound record
  (`core/cloud.py:479`): its totals are counted by separate reads. `TraceTellsTheTruth` is
  therefore about a record that was left alone. A versions page larger than 1 MB is cut without
  being followed; the model has it (`PageItems`). A query that names a state twice
  (`?state=active,active`, `trace_server.py:538-542`) reads that state twice and lists its
  records twice, because `core/cloud.py:286` takes the states as they come; the query API keeps
  one row per event. `resources` keeps a table it failed to find
  once as missing until a refresh (not modelled).
* Strip. The freshest of several confirmations is chosen by comparing ISO strings, which orders
  them only while they share an offset (not modelled).

## 6. Not modelled, and the plan

* **Announcements** of the resolver and the operator override and retention edges, which no
  code in the repository performs. The table's stream is the feed the code calls
  authoritative; that a consumer of the bus may miss a change is stated above.
* **`core/derive.py`** and the field precedence of `reconcile`: pure field arithmetic that no
  modelled decision reads; free choices where the policy needs an outcome.
* **`core/mvt.py`, `core/tiles.py`, the regular expressions of the adapters, serialisation**:
  they decode bytes and text. Their outcomes are the inputs of `Intake`.
* **Single-item reads** of the query API (`get_event`, `get_history`, `review_queue`), the
  tracker's pipeline, raw and lookup views: one read each, no decision on it.
* **`feeds.py`, `probe.py`**, fetching with a fixture fallback in `strip_export.py`: offline tools
  that print.
* **User interfaces and operator scripts** (`ui/`, `scripts/fetch-arnold.py`,
  `scripts/make-synthetic-fixtures.py`, ...): presentation and one-off data preparation without
  state the hub depends on.
* **Alarms, networking, permissions** of `lib/`: no behaviour to check.

The order followed was the history first (store, policy, hub, abstract log), then what acts on
it or beside it (timer, migrations), the pipeline in front of it, what feeds the pipeline
(intake), and what is answered from it (answers, tracker); proofs after each. What would come
next:

1. **Announcements** in `EventHub`, with an abstract consumer: which changes it may miss,
   against the log.
2. **Composition of `Matching` with `EventHub`**: extents on events, and the merge choice made by
   the matcher instead of freely, to bound which merges a stale index can cause.
3. **A timer run with an incomplete profile** (`dimensional_restriction`).
4. **What a retry repairs** in `EventHub`: that a record published twice, or an event
   without a timer, comes from a failed or a concurrent invocation and from nothing else, so that
   `OneLiveEventPerRecord` and `LiveEventsAreTimed` can be stated, and proved, for the
   deployed system.
