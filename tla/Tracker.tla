-------------------------------- MODULE Tracker --------------------------------
(***************************************************************************)
(* The record tracker: trace_server.py's threads and caches over the reads *)
(* of core/cloud.py, while the hub goes on writing.                        *)
(*                                                                         *)
(* Every request has a thread of its own.  A cache entry is rebuilt under  *)
(* the lock of its key, by several reads of the event table that nothing   *)
(* ties together: a trace reads the current version, a page of versions, a *)
(* page of audit records and two counts; a listing asks the corridor index *)
(* once per lifecycle state and page.  All of them are eventually          *)
(* consistent: a read of an event just written may still miss that write.  *)
(***************************************************************************)
EXTENDS Trace

CONSTANTS
    Threads,
    Events,       \* event ids: naturals, in the order of their corridor measure
    StepKinds,    \* the steps the hub may take: [to, trigger, actor, operator, said]
    Starts,       \* bound: how the table may be at the start, with the writes and requests to
                  \* come: [steps, missing, writes, requests]
    Unresolved,   \* the events whose extent never conflated: the index does not hold them
    Source,       \* the source of every report
    Wanted,       \* the states a listing asks for, in the order of its queries
    Limit,        \* a listing's limit
    PageRows,     \* rows in a page of the index
    Window,       \* a trace's window
    PageItems,    \* the most version items the store returns in one page
    MaxEntries,   \* entries a cache holds
    TTL,          \* how long an entry is served
    MaxClock,     \* bound: time
    ListKey,      \* the key of the listing
    NotFound,     \* the answer for an event that does not exist
    None

Keys == {ListKey} \cup Events

ASSUME TrackerAssumption ==
    /\ Events \subseteq Nat /\ ListKey \notin Events /\ None \notin Keys \cup Threads
    /\ Limit \in Nat \ {0} /\ PageRows \in Nat \ {0} /\ Window \in Nat \ {0}
    /\ PageItems \in Nat \ {0} /\ MaxEntries \in Nat \ {0} /\ TTL \in Nat \ {0}
    /\ MaxClock \in Nat
    /\ \A start \in Starts :
          start.writes \in Nat /\ start.requests \in Seq(Keys \X BOOLEAN)

\* The table holds finitely many histories, and what is missing from it was once there.
ASSUME TableAssumption ==
    /\ IsFiniteSet(Events) /\ Wanted \in Seq(ToSet(Wanted)) /\ Wanted # <<>>
    /\ \A start \in Starts :
          /\ start.steps = [e \in Events |-> start.steps[e]]
          /\ \A e \in Events : start.steps[e] \in Seq(ToSet(start.steps[e]))
          /\ start.missing \subseteq Events \X {"version", "audit"} \X (Nat \ {0})
          /\ \A m \in start.missing : m[3] <= Len(start.steps[m[1]])

VARIABLES
    steps,     \* event -> what the hub committed, a sequence of steps
    missing,   \* the items that are not in the table: <<event, "version" or "audit", number>>
    lagging,   \* the events whose last write some reads still miss
    entries,   \* key -> None, or what the cache holds
    busy,      \* key -> the thread that holds the key's lock, or None
    thread,    \* thread -> its request and how far it is
    answer,    \* the answer this step gave, or None
    clock, writes, requests

store == <<steps, missing, lagging>>
vars == <<steps, missing, lagging, entries, busy, thread, answer, clock, writes, requests>>

(***************************************************************************)
(* The event table                                                         *)
(***************************************************************************)

Committed(e) == Len(steps[e])

\* The items of one kind a read of the first n finds.
Numbers(e, item, n) == {m \in 1..n : <<e, item, m>> \notin missing}

\* What a read may see: everything, or everything but the last write.
Seen(e) == {Committed(e)} \cup (IF e \in lagging THEN {Committed(e) - 1} ELSE {})

EventAt(e, n) ==
    [version |-> n, state |-> steps[e][n].to, resolved |-> e \notin Unresolved,
     stale |-> FALSE, related |-> {},
     sources |-> Source :> [said |-> steps[e][n].said, raw |-> steps[e][n].raw]]

AuditAt(e, n) ==
    [sequence |-> n, from |-> IF n = 1 THEN NoState ELSE steps[e][n - 1].to,
     to |-> steps[e][n].to, trigger |-> steps[e][n].trigger,
     actor |-> steps[e][n].actor, operator |-> steps[e][n].operator]

\* The last so many of some numbers, and the first so many in order.
Newest(numbers, many) == {n \in numbers : Cardinality({m \in numbers : m > n}) < many}
Oldest(numbers, many) ==
    Ascending({n \in numbers : Cardinality({m \in numbers : m < n}) < many})

(***************************************************************************)
(* Requests and the cache                                                  *)
(***************************************************************************)

Idle == [pc |-> "idle"]

\* A thread that holds the lock of its key and builds.
Building(t) == thread[t].pc \notin {"idle", "locking"}

\* Records and pipeline have caches of their own, with one key each; the traces share one.
CacheOf(k) == IF k = ListKey THEN {ListKey} ELSE Events
Held(k) == {j \in CacheOf(k) : entries[j] # None}

Init ==
    /\ \E start \in Starts :
          /\ steps = start.steps /\ missing = start.missing
          /\ writes = start.writes /\ requests = start.requests
    /\ lagging = {}
    /\ entries = [k \in Keys |-> None]
    /\ busy = [k \in Keys |-> None]
    /\ thread = [t \in Threads |-> Idle]
    /\ answer = None
    /\ clock = 0

\* Any thread takes the next request: a key, and whether it is to be refreshed.
Ask(t) ==
    /\ thread[t] = Idle /\ requests # <<>>
    /\ requests' = Tail(requests)
    /\ thread' = [thread EXCEPT ![t] =
           [pc |-> "locking", key |-> Head(requests)[1], force |-> Head(requests)[2],
            since |-> clock, got |-> None]]
    /\ answer' = None
    /\ UNCHANGED <<store, entries, busy, clock, writes>>

Reply(t, status, at, value) ==
    /\ answer' = [status |-> status, key |-> thread[t].key, force |-> thread[t].force,
                  since |-> thread[t].since, at |-> at, value |-> value]
    /\ thread' = [thread EXCEPT ![t] = Idle]

Goto(t, where, got) == thread' = [thread EXCEPT ![t].pc = where, ![t].got = got]

\* The age is not looked at.
FreshAtAnyAge(t, k) == entries[k] # None /\ ~thread[t].force

Fresh(t, k) == entries[k] # None /\ clock - entries[k].at < TTL /\ ~thread[t].force

\* What a trace reads, before it has read anything; `quiet` is whether nobody wrote since.
Unread == [quiet |-> FALSE, current |-> None, versions |-> None, audit |-> None,
           total |-> None, recorded |-> None]

\* Under the key's lock the entry is fresh, and served ...
Hit(t) ==
    /\ thread[t].pc = "locking"
    /\ LET k == thread[t].key
       IN  busy[k] = None /\ Fresh(t, k) /\ Reply(t, 200, entries[k].at, entries[k].value)
    /\ UNCHANGED <<store, entries, busy, clock, writes, requests>>

\* ... or it is built, and the lock is held for as long as that takes.
Miss(t) ==
    /\ thread[t].pc = "locking"
    /\ LET k == thread[t].key
       IN  /\ busy[k] = None /\ ~Fresh(t, k)
           /\ busy' = [busy EXCEPT ![k] = t]
           /\ IF k = ListKey
              THEN Goto(t, "querying", [rows |-> <<>>, query |-> 1, start |-> -1,
                                        still |-> Events \ lagging])
              ELSE Goto(t, "current", [Unread EXCEPT !.quiet = k \notin lagging])
    /\ answer' = None
    /\ UNCHANGED <<store, entries, clock, writes, requests>>

\* The value goes into the cache, the oldest entry out of a full one, and the lock is free.
StoreEvictingWhenOver(t) ==
    /\ thread[t].pc = "storing"
    /\ LET k == thread[t].key
           new == [at |-> clock, value |-> thread[t].got.value]
       IN  /\ \/ /\ Cardinality(Held(k)) <= MaxEntries
                 /\ entries' = [entries EXCEPT ![k] = new]
              \/ /\ Cardinality(Held(k)) > MaxEntries
                 /\ \E oldest \in Held(k) :
                        /\ \A j \in Held(k) : entries[oldest].at <= entries[j].at
                        /\ entries' = [entries EXCEPT ![oldest] = None, ![k] = new]
           /\ busy' = [busy EXCEPT ![k] = None]
    /\ Reply(t, 200, clock, thread[t].got.value)
    /\ UNCHANGED <<store, clock, writes, requests>>

Store(t) ==
    /\ thread[t].pc = "storing"
    /\ LET k == thread[t].key
           new == [at |-> clock, value |-> thread[t].got.value]
       IN  /\ \/ /\ Cardinality(Held(k)) < MaxEntries
                 /\ entries' = [entries EXCEPT ![k] = new]
              \/ /\ Cardinality(Held(k)) >= MaxEntries
                 /\ \E oldest \in Held(k) :
                        /\ \A j \in Held(k) : entries[oldest].at <= entries[j].at
                        /\ entries' = [entries EXCEPT ![oldest] = None, ![k] = new]
           /\ busy' = [busy EXCEPT ![k] = None]
    /\ Reply(t, 200, clock, thread[t].got.value)
    /\ UNCHANGED <<store, clock, writes, requests>>

\* The lock outlives the build that failed.
FailHoldingLock(t) ==
    /\ Building(t) /\ thread[t].pc # "storing"
    /\ Reply(t, 503, clock, None)
    /\ UNCHANGED <<store, entries, busy, clock, writes, requests>>

\* A call to AWS raises: 503 or 500, never an empty answer; the cache keeps what it had.
Fail(t) ==
    /\ Building(t) /\ thread[t].pc # "storing"
    /\ Reply(t, 503, clock, None)
    /\ busy' = [busy EXCEPT ![thread[t].key] = None]
    /\ UNCHANGED <<store, entries, clock, writes, requests>>

(***************************************************************************)
(* A trace: five reads, of which the items' numbers are kept               *)
(***************************************************************************)

ReadCurrent(t) ==
    /\ thread[t].pc = "current"
    /\ \E n \in Seen(thread[t].key) :
           IF n = 0
           THEN Goto(t, "storing", [value |-> NotFound])
           ELSE Goto(t, "versions", [thread[t].got EXCEPT !.current = n])
    /\ answer' = None
    /\ UNCHANGED <<store, entries, busy, clock, writes, requests>>

\* One more than the window, so that the oldest step has a predecessor; but what does not fit
\* a page is not asked for again.
VersionsRead == IF Window + 1 < PageItems THEN Window + 1 ELSE PageItems

ReadVersions(t) ==
    /\ thread[t].pc = "versions"
    /\ \E n \in Seen(thread[t].key) :
           Goto(t, "audit", [thread[t].got EXCEPT
                !.versions = Newest(Numbers(thread[t].key, "version", n), VersionsRead)])
    /\ answer' = None
    /\ UNCHANGED <<store, entries, busy, clock, writes, requests>>

ReadAudit(t) ==
    /\ thread[t].pc = "audit"
    /\ \E n \in Seen(thread[t].key) :
           Goto(t, "count versions", [thread[t].got EXCEPT
                !.audit = Newest(Numbers(thread[t].key, "audit", n), Window)])
    /\ answer' = None
    /\ UNCHANGED <<store, entries, busy, clock, writes, requests>>

CountVersions(t) ==
    /\ thread[t].pc = "count versions"
    /\ \E n \in Seen(thread[t].key) :
           Goto(t, "count audit", [thread[t].got EXCEPT
                !.total = Cardinality(Numbers(thread[t].key, "version", n))])
    /\ answer' = None
    /\ UNCHANGED <<store, entries, busy, clock, writes, requests>>

CountAudit(t) ==
    /\ thread[t].pc = "count audit"
    /\ \E n \in Seen(thread[t].key) :
           Goto(t, "storing", [value |-> [thread[t].got EXCEPT
                !.recorded = Cardinality(Numbers(thread[t].key, "audit", n))]])
    /\ answer' = None
    /\ UNCHANGED <<store, entries, busy, clock, writes, requests>>

\* The document is a function of the items read, which are known by their numbers because a
\* stored item never changes; HistorySlice.totals says how many there were.
Document(e, got) ==
    build_trace(EventAt(e, got.current),
                {EventAt(e, n) : n \in got.versions}, {AuditAt(e, n) : n \in got.audit},
                [versions |-> got.total, audit |-> got.recorded,
                 windowed |-> \/ got.recorded > Cardinality(got.audit)
                              \/ got.total > Cardinality(got.versions)])

(***************************************************************************)
(* A listing: a query per state, a page at a time                          *)
(***************************************************************************)

InWantedState(e) ==
    e \notin Unresolved /\ Committed(e) > 0 /\ steps[e][Committed(e)].to \in ToSet(Wanted)

\* One more than asked for, to know whether there are more.
CeilingWithoutSpare == Limit
Ceiling == Limit + 1

FirstRows(rows) == [i \in DOMAIN rows \cap 1..Limit |-> rows[i]]

Query(t) ==
    /\ thread[t].pc = "querying"
    /\ \E missed \in SUBSET lagging :
           LET got   == thread[t].got
               shown == [e \in Events |-> Committed(e) - (IF e \in missed THEN 1 ELSE 0)]
               found == {e \in Events \ Unresolved :
                            /\ e > got.start /\ shown[e] > 0
                            /\ steps[e][shown[e]].to = Wanted[got.query]}
               page  == Oldest(found, PageRows)
               rows  == got.rows \o page
               more  == Cardinality(found) > Len(page)
               done  == Len(rows) >= Ceiling \/ (~more /\ got.query = Len(Wanted))
           IN  IF done
               THEN Goto(t, "storing", [value |-> [rows |-> FirstRows(rows),
                                                   truncated |-> Len(rows) > Limit,
                                                   still |-> got.still,
                                                   listed |-> {e \in Events : InWantedState(e)}]])
               ELSE Goto(t, "querying",
                         [got EXCEPT !.rows = rows,
                                     !.query = IF more THEN @ ELSE @ + 1,
                                     !.start = IF more THEN Last(page) ELSE -1])
    /\ answer' = None
    /\ UNCHANGED <<store, entries, busy, clock, writes, requests>>

(***************************************************************************)
(* The hub goes on, and time passes                                        *)
(***************************************************************************)

\* A step the lifecycle allows: a confirmation, or an edge of the table. Only a report
\* brings bytes of its own.
NextSteps(e) ==
    LET now == Committed(e)
    IN  {s @@ [raw |-> IF s.trigger = "source_update" THEN now + 1 ELSE steps[e][now].raw] :
            s \in {kind \in StepKinds :
                     IF now = 0 THEN kind.to = "reported" /\ kind.trigger = "source_update"
                     ELSE \/ kind.to = steps[e][now].to /\ kind.trigger = "source_update"
                          \/ IsLegalTransition(steps[e][now].to, kind.to, kind.trigger)}}

\* A write is committed whole; readers of the event have it under them.
Write(e) ==
    /\ writes > 0 /\ e \notin lagging
    /\ writes' = writes - 1
    /\ \E s \in NextSteps(e) : steps' = [steps EXCEPT ![e] = Append(@, s)]
    /\ lagging' = lagging \cup {e}
    /\ thread' = [t \in Threads |->
           IF ~Building(t) \/ thread[t].pc = "storing" THEN thread[t]
           ELSE IF thread[t].key = ListKey THEN [thread[t] EXCEPT !.got.still = @ \ {e}]
           ELSE IF thread[t].key = e THEN [thread[t] EXCEPT !.got.quiet = FALSE]
           ELSE thread[t]]
    /\ answer' = None
    /\ UNCHANGED <<missing, entries, busy, clock, requests>>

CatchUp(e) ==
    /\ lagging' = lagging \ {e} /\ e \in lagging
    /\ answer' = None
    /\ UNCHANGED <<steps, missing, entries, busy, thread, clock, writes, requests>>

Pass ==
    /\ clock < MaxClock
    /\ clock' = clock + 1
    /\ answer' = None
    /\ UNCHANGED <<store, entries, busy, thread, writes, requests>>

Serve(t) ==
    \/ Hit(t) \/ Miss(t) \/ Store(t)
    \/ ReadCurrent(t) \/ ReadVersions(t) \/ ReadAudit(t) \/ CountVersions(t) \/ CountAudit(t)
    \/ Query(t)

Next ==
    \/ \E t \in Threads : Ask(t) \/ Serve(t) \/ Fail(t)
    \/ \E e \in Events : Write(e) \/ CatchUp(e)
    \/ Pass

\* A thread goes on, and the calls it makes return or raise.
Spec == Init /\ [][Next]_vars /\ \A t \in Threads : WF_vars(Serve(t))

(***************************************************************************)
(* Properties                                                              *)
(***************************************************************************)

PCs == {"idle", "locking", "current", "versions", "audit", "count versions", "count audit",
        "querying", "storing"}

\* The threads, the locks and the caches are in order: a lock is held exactly while its holder
\* builds, so one key is never built twice at a time; no entry is from the future; and no
\* cache outgrows its bound, however many threads fill it.
TypeOK ==
    /\ \A t \in Threads : thread[t].pc \in PCs
    /\ \A t \in Threads : Building(t) <=> \E k \in Keys : busy[k] = t
    /\ \A k \in Keys : busy[k] # None => thread[busy[k]].key = k
    /\ \A k \in Keys : entries[k] = None \/ entries[k].at \in 0..clock
    /\ \A k \in Keys : Cardinality(Held(k)) <= MaxEntries
    /\ clock \in 0..MaxClock /\ writes \in Nat /\ requests \in Seq(Keys \X BOOLEAN)
    /\ lagging \subseteq Events

Answered == answer # None /\ answer.status = 200
TraceAnswered == Answered /\ answer.key \in Events /\ answer.value # NotFound

\* An answer is never older than the time an entry may be served, however long its thread
\* waited for the lock; one that was asked to be fresh was read after it was asked for.
AnswersAreRecent ==
    Answered => IF answer.force THEN answer.at >= answer.since ELSE clock - answer.at < TTL

Gone(e) == {m \in missing : m[1] = e}
IntegrityFindings ==
    {"audit_gap", "version_audit_mismatch", "no_audit_trail", "version_count_mismatch"}

IllegalAt(e, n) ==
    LET a == AuditAt(e, n) IN is_transition(a) /\ ~IsLegalTransition(a.from, a.to, a.trigger)

\* Every step shown lies in exactly one span, of the state it led to.
SpansCoverSteps(doc, e) ==
    \A i \in DOMAIN doc.steps :
        LET n == doc.steps[i].sequence
            covering == {j \in DOMAIN doc.states : n \in doc.states[j].first..doc.states[j].last}
        IN  \E j \in covering : covering = {j} /\ doc.states[j].state = steps[e][n].to

\* A trace read while its record is at rest tells the truth about what the table holds: it
\* reports a hole exactly when an item is missing, inside the window or outside; an illegal
\* edge exactly when a step it shows has one; and its spans put every step it shows into the
\* state that step led to.
TraceTellsTheTruth ==
    TraceAnswered /\ answer.value.quiet =>
        LET e == answer.key  doc == Document(e, answer.value)
        IN  /\ (doc.findings \cap IntegrityFindings # {}) <=> (Gone(e) # {})
            /\ "illegal_transition_stored" \in doc.findings
                 <=> \E n \in Newest(Numbers(e, "audit", doc.current), Window) : IllegalAt(e, n)
            /\ SpansCoverSteps(doc, e)

\* A listing is complete or says that it is not: an event that stayed in one of the states
\* asked for while the queries ran is listed, once, unless the listing says it is truncated;
\* and one that stayed in another state is not listed.
ListingIsHonest ==
    Answered /\ answer.key = ListKey /\ ~answer.value.truncated =>
        \A e \in answer.value.still :
            Cardinality({i \in DOMAIN answer.value.rows : answer.value.rows[i] = e})
              = IF e \in answer.value.listed THEN 1 ELSE 0

\* Every request is answered: no thread waits for ever on another's read.
EveryRequestIsAnswered ==
    \A t \in Threads : thread[t].pc = "locking" ~> thread[t].pc = "idle"
================================================================================
