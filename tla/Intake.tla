--------------------------------- MODULE Intake ---------------------------------
(***************************************************************************)
(* The normalizer's container at work: it gets itself a conflator and a    *)
(* corridor from the database (handlers/normalizer.py, core/lrs.py,        *)
(* core/postgis.py, core/dbconn.py), then hands one payload at a time to   *)
(* its source's adapter, record after record (adapters/*.py).  Meanwhile   *)
(* the database restarts, comes back, is filled by its migrations, or is   *)
(* loaded with a new corridor; a container lives on after an invocation    *)
(* that raised.                                                            *)
(***************************************************************************)
EXTENDS Adapters

CONSTANTS
    Corridors,       \* <<the offline file's corridor, then each one loaded into the database>>
    Payloads,        \* [source, shape, drifted, records] that may arrive
    MaxInvocations,  \* bound on invocations
    MaxOutages       \* bound on outages of the database

\* Every payload is of a source that has an adapter, and is JSON of the source's shape, of
\* another shape, or no JSON; its records come in an order.
ASSUME IntakeAssumption ==
    \A p \in Payloads : /\ p.source \in {"nws", "ok", "tx", "az", "nm", "tiles"}
                        /\ p.shape \in {"payload", "other json", "not json"}
                        /\ Len(p.records) \in Nat /\ DOMAIN p.records = 1..Len(p.records)

\* What a source says of a place: a distance along the centerline for every point of it that
\* is read (of a line its two ends), or mileposts in their order (parse_mileposts turns a
\* range round that was written backwards).
Placeable(place) ==
    /\ place.kind = "coordinate" => place.at.along \in Int
    /\ place.kind = "linestring" =>
          /\ place.points \in Seq(ToSet(place.points))
          /\ place.points # <<>> => {Head(place.points).along, Last(place.points).along} \subseteq Int
    /\ place.kind = "milepost"   => /\ place.begin \in Int
                                   /\ \/ place.end = NoMeasure
                                      \/ place.end \in Int /\ place.begin <= place.end

\* Of a record the parser survives; another road's may say what it likes.
ASSUME RecordsAssumption ==
    \A p \in Payloads : \A i \in DOMAIN p.records :
        LET r == p.records[i]
        IN  ~Trips(p.source, r) =>
            /\ r.place # None /\ (p.source \in {"ok", "tx"} => r.here) => Placeable(r.place)
            /\ p.source \in {"ok", "tx"} => r.place # None
            /\ p.source = "ok" => r.lanes \in Seq(ToSet(r.lanes))
            /\ p.source = "az" => r.prose.count \in Int /\ r.total \in Int \cup {None}
            /\ p.source = "nm" /\ r.mileposts # None => Placeable(r.mileposts)

\* Every corridor has a geometry and segments; where it is calibrated, every vertex is.
ASSUME SurveyAssumption ==
    /\ NoMeasure \notin Int /\ Samples \in Nat \ {0}
    /\ MaxInvocations \in Nat /\ MaxOutages \in Nat
    /\ Corridors \in Seq(ToSet(Corridors)) /\ Len(Corridors) > 1
    /\ \A corridor \in ToSet(Corridors) :
          /\ corridor.xs \in Seq(Nat) /\ corridor.xs # <<>>
          /\ corridor.ys \in Seq(Int) /\ Len(corridor.ys) \in {0, Len(corridor.xs)}
          /\ total_miles(corridor) \in Int
          /\ corridor.segments \in Seq(ToSet(corridor.segments))
          /\ \A seg \in ToSet(corridor.segments) : {seg.lo, seg.hi, seg.offset} \subseteq Int

VARIABLES
    db,         \* [up, holds, loaded, life]: what its migrations have put there, its
                \* corridor's number; connections are of one life
    container,  \* the process's globals
    run         \* the invocation in progress

vars == <<db, container, run>>

Offline == 1
Unset == 0

Statuses == {"idle", "preparing", "loading", "parsing", "done", "failed"}

\* What the migrations leave one after the other: no corridor, a route without its segments,
\* the corridor this container is to serve, and that one among others.
Grown == [nothing |-> "half", half |-> "ours", ours |-> "several"]
Contents == DOMAIN Grown \cup {"several"}

\* A cold start: the module's globals as they are when it is imported, and what the
\* environment configures: a database's secret or none, CEH_ROUTE or none.
Cold(database, routed) ==
    [database |-> database, routed |-> routed, source |-> "json", cache |-> Unset,
     connection |-> Unset, conflator |-> Unset]

NoRun == [status |-> "idle", payload |-> None, next |-> 1, seen |-> {}, issues |-> <<>>,
          candidates |-> <<>>, off |-> 0, unserved |-> FALSE, count |-> 0]

Init ==
    /\ \E holds \in Contents :
           db = [up |-> TRUE, holds |-> holds, loaded |-> Offline + 1, life |-> 1]
    /\ \E database, routed \in BOOLEAN : container = Cold(database, routed)
    /\ run = NoRun

(***************************************************************************)
(* The database and its connection.  A cached connection is asked whether  *)
(* it is alive before it is used, and opened anew when it is not.          *)
(***************************************************************************)

\* A connection that is trusted because it was once opened.
ConnectUnasked(c) == db.up /\ c.connection \in {Unset, db.life}

connect(c) == db.up

Connected(c) == [c EXCEPT !.connection = db.life]

\* Without a configured route the database must hold one route and no other.
Routable(c) == c.routed \/ (connect(c) /\ db.holds \in {"half", "ours"})

\* A route that is not there, or has no segments, is not loaded.
load_corridor(c) == connect(c) /\ db.holds \in {"ours", "several"}

\* The database answers, with the corridor to serve and no doubt which one that is.
Served(c) == db.up /\ (db.holds = "ours" \/ (c.routed /\ db.holds = "several"))

(***************************************************************************)
(* Corridors are cached per route, and the cache belongs to the source.    *)
(***************************************************************************)

set_corridor_source(c) == [c EXCEPT !.source = "database", !.cache = Unset]

Loadable(c) == c.cache # Unset \/ c.source = "json" \/ load_corridor(c)

corridor_for(c) ==
    IF c.cache # Unset THEN c
    ELSE IF c.source = "json" THEN [c EXCEPT !.cache = Offline]
    ELSE [Connected(c) EXCEPT !.cache = db.loaded]

(***************************************************************************)
(* One invocation: the conflator first                                     *)
(***************************************************************************)

Begin(p) ==
    /\ run.status \in {"idle", "done", "failed"}
    /\ run.count < MaxInvocations
    /\ run' = [NoRun EXCEPT !.payload = p, !.unserved = ~Served(container), !.count = run.count + 1,
                            !.status = IF container.conflator = Unset THEN "preparing"
                                       ELSE "parsing"]
    /\ UNCHANGED <<db, container>>

\* Raising leaves the globals as they are, and announces nothing.
Raised == run' = [run EXCEPT !.status = "failed"]

\* The source is installed before the route is known; without a configured route the
\* database is asked for the only one it has, and none or several raise (_route).
Prepare ==
    /\ run.status = "preparing"
    /\ container.database
    /\ LET installed == set_corridor_source(container)
       IN  IF Routable(container)
           THEN /\ container' = IF container.routed THEN installed ELSE Connected(installed)
                /\ run' = [run EXCEPT !.status = "loading"]
           ELSE container' = installed /\ Raised
    /\ UNCHANGED db

\* The corridor the conflator is given is loaded past the cache.
Load ==
    /\ run.status = "loading"
    /\ IF load_corridor(container)
       THEN /\ container' = [Connected(container) EXCEPT !.conflator = db.loaded]
            /\ run' = [run EXCEPT !.status = "parsing"]
       ELSE Raised /\ UNCHANGED container
    /\ UNCHANGED db

PrepareOffline ==
    /\ run.status = "preparing"
    /\ ~container.database
    /\ container' = [corridor_for(container) EXCEPT !.conflator = Offline]
    /\ run' = [run EXCEPT !.status = "parsing"]
    /\ UNCHANGED db

(***************************************************************************)
(* Then the payload.  HybridConflator asks the database for polygons and   *)
(* falls back to sampling when it cannot; everything else is in process.   *)
(* What a parser does not survive raises, and nothing of the payload is    *)
(* announced.                                                              *)
(***************************************************************************)

\* Before the first record: these adapters ask the root for its fields, and Oklahoma's every
\* feature for its end date.
RaisesAtOnce(p) ==
    \/ p.shape = "other json" /\ p.source \in {"nws", "ok", "tx"}
    \/ p.source = "ok" /\ None \in ToSet(p.records)

Conflate(place) ==
    IF place.kind = "polygon" /\ container.database /\ connect(container) /\ place.usable
    THEN RemotePolygon(Corridors[db.loaded], place.covers)
    ELSE LocalConflate(Corridors[container.conflator], Corridors[container.conflator], place)

\* A milepost asks the module's active corridor, which the cache may not hold yet.
ConflateMilepost(place) ==
    LocalConflate(Corridors[container.conflator],
                  Corridors[corridor_for(container).cache], place)

ReadsMilepost(r) ==
    /\ run.payload.source = "nm" /\ r.upstream = "NMDOT" /\ r.here
    /\ NmClass(r.type) # None /\ r.place # None /\ r.mileposts # None

Placement(r) == IF r.place = None THEN None ELSE Conflate(r.place)

\* The end dates of every feature of the payload, wherever it is.
Ends(records) == [i \in DOMAIN records |-> records[i].end]

MapOf(r) ==
    LET source == run.payload.source
        at     == Placement(r)
    IN  CASE source = "nws" -> MapNws(r, at)
          [] source = "ok"  -> MapOk(r, at, regenerated_end_date_minutes(Ends(run.payload.records)))
          [] source = "tx"  -> MapTx(r, at)
          [] source = "az"  -> MapAz(r, at)
          [] source = "nm"  -> MapNm(r, at, IF ReadsMilepost(r) THEN ConflateMilepost(r.mileposts)
                                            ELSE None)
          [] source = "tiles" -> MapTile(r, at, run.seen)

About(record, fields) == [i \in 1..Cardinality(fields) |->
                            [record |-> record, field |-> SetToSeq(fields)[i]]]

\* Every issue of the feed, whichever record it was about.
RecordIssuesOfTheFeed(issues, mark) == issues

record_issues(issues, mark) == SubSeq(issues, mark + 1, Len(issues))

\* The feed's own issues come first: what is not a payload of the source at all, and a
\* version of its schema the adapter was not written for.
Read ==
    /\ run.status = "parsing"
    /\ run.next = 1 /\ run.issues = <<>>
    /\ \/ RaisesAtOnce(run.payload) /\ Raised
       \/ /\ ~RaisesAtOnce(run.payload)
          /\ run.payload.shape # "payload" \/ run.payload.drifted
          /\ run' = [run EXCEPT !.issues = About(0, {"$"}),
                                !.status = IF run.payload.shape = "payload" THEN "parsing"
                                           ELSE "done"]
    /\ UNCHANGED <<db, container>>

Parsed ==
    /\ run.payload.shape = "payload" /\ ~RaisesAtOnce(run.payload)
    /\ run.payload.drifted => run.issues # <<>>

Raises(r) == Trips(run.payload.source, r) \/ (ReadsMilepost(r) /\ ~Loadable(container))

Parse ==
    /\ run.status = "parsing" /\ Parsed
    /\ run.next <= Len(run.payload.records)
    /\ LET n == run.next
           r == run.payload.records[n]
       IN  IF Raises(r)
           THEN Raised /\ UNCHANGED container
           ELSE LET out    == MapOf(r)
                    mark   == Len(run.issues)
                    issues == run.issues \o About(n, out.issues)
                IN  /\ run' = [run EXCEPT
                          !.next = n + 1,
                          !.issues = issues,
                          !.off = @ + out.off,
                          !.seen = IF run.payload.source = "tiles" THEN SegmentsSeen(r, @) ELSE @,
                          !.candidates = @ \o [i \in DOMAIN out.candidates |->
                             [record |-> n, says |-> out.candidates[i],
                              mapping_issues |-> record_issues(issues, mark)]]]
                    /\ container' = IF ReadsMilepost(r) THEN corridor_for(container)
                                    ELSE IF r.place # None /\ r.place.kind = "polygon"
                                            /\ container.database /\ connect(container)
                                    THEN Connected(container) ELSE container
    /\ UNCHANGED db

\* What the handler announces next is Delivery's.
Finish ==
    /\ run.status = "parsing" /\ Parsed
    /\ run.next > Len(run.payload.records)
    /\ run' = [run EXCEPT !.status = "done"]
    /\ UNCHANGED <<db, container>>

(***************************************************************************)
(* The world                                                               *)
(***************************************************************************)

GoDown ==
    /\ db.up /\ db.life <= MaxOutages
    /\ db' = [db EXCEPT !.up = FALSE]
    /\ run' = [run EXCEPT !.unserved = TRUE]
    /\ UNCHANGED container

ComeBack ==
    /\ ~db.up
    /\ db' = [db EXCEPT !.up = TRUE, !.life = @ + 1]
    /\ UNCHANGED <<container, run>>

\* The next migration: more of what the database is to hold.
Fill ==
    /\ db.up /\ db.holds \in DOMAIN Grown
    /\ db' = [db EXCEPT !.holds = Grown[@]]
    /\ UNCHANGED container
    /\ run' = [run EXCEPT !.unserved = @ \/ ~Served(container)']

\* A migration loads a newly surveyed corridor.
Reload ==
    /\ db.up /\ db.holds \in {"ours", "several"} /\ db.loaded < Len(Corridors)
    /\ db' = [db EXCEPT !.loaded = @ + 1]
    /\ UNCHANGED <<container, run>>

Recycle ==
    /\ run.status \in {"done", "failed"}
    /\ container' = Cold(container.database, container.routed)
    /\ UNCHANGED <<db, run>>

Next ==
    \/ \E p \in Payloads : Begin(p)
    \/ Prepare \/ Load \/ PrepareOffline
    \/ Read \/ Parse \/ Finish
    \/ GoDown \/ ComeBack \/ Fill \/ Reload \/ Recycle

Spec == Init /\ [][Next]_vars

(***************************************************************************)
(* What the intake owes                                                    *)
(***************************************************************************)

Fields(n)   == {run.issues[i].field : i \in {j \in DOMAIN run.issues : run.issues[j].record = n}}
Produced(n) == {i \in DOMAIN run.candidates : run.candidates[i].record = n}

\* An extent nobody could place never becomes a candidate: NaN is not JSON, and the
\* announcement of the whole payload would raise (normalizer.py, allow_nan=False).  And
\* every extent runs from west to east, as the store's index by begin_measure presumes.
CandidateOK(says) ==
    /\ says.begin \in Int /\ says.end \in Int /\ says.begin <= says.end
    /\ says.direction \in {"EB", "WB", "BOTH", "UNKNOWN"}
    /\ \A lane \in says.lanes : lane.ordinal \in Int

TypeOK ==
    /\ db.up \in BOOLEAN /\ db.life \in 1..(MaxOutages + 1)
    /\ db.holds \in Contents /\ db.loaded \in (Offline + 1)..Len(Corridors)
    /\ container.cache \in 0..Len(Corridors) /\ container.conflator \in 0..Len(Corridors)
    /\ container.source \in {"json", "database"} /\ container.connection \in 0..db.life
    /\ run.status \in Statuses /\ run.count \in 0..MaxInvocations
    /\ \A i \in DOMAIN run.candidates : CandidateOK(run.candidates[i].says)

\* What an adapter drops on purpose, by a filter it documents: another road's record,
\* another agency's, a marine alert, free-flowing traffic, a segment it has looked at.
Wanted(n) ==
    LET r == run.payload.records[n]
    IN  CASE run.payload.source = "nws" -> r.alert # "rip current"
          [] run.payload.source = "nm"  -> r.upstream = "not an object"
                                           \/ (r.upstream = "NMDOT" /\ r.here)
          [] run.payload.source = "tiles" ->
                /\ ~TileFilters(r)
                /\ ~\E m \in 1..(n - 1) : /\ r.segment # None /\ LookedAt(run.payload.records[m])
                                         /\ SegmentOf(run.payload.records[m]) = SegmentOf(r)
          [] OTHER -> r.here

\* Nothing a source says about the corridor's road disappears: by the end of the payload
\* every such record has become a candidate, or an issue for the reviewers, or one of the
\* off-corridor records the log line counts, and the count counts nothing else (the loops
\* of adapters/*.py, each with its `continue`s).
EveryRecordIsAnswered ==
    run.status = "done" /\ run.payload.shape = "payload" =>
        LET without == {n \in DOMAIN run.payload.records : Wanted(n) /\ Produced(n) = {}}
        IN  /\ Cardinality({n \in without : Fields(n) = {}}) <= run.off
            /\ run.off <= Cardinality(without)

\* A candidate carries the issues about its own record, all of them and no other: they go
\* into the event's provenance, and the reviewers would chase another record's fault
\* (record_issues by its mark, adapter.py:73).
IssuesFollowTheirRecord ==
    \A i \in DOMAIN run.candidates :
        LET c == run.candidates[i]
        IN  \E first \in 1..(Len(run.issues) + 1), last \in 0..Len(run.issues) :
                /\ c.mapping_issues = SubSeq(run.issues, first, last)
                /\ \A j \in DOMAIN run.issues :
                       run.issues[j].record = c.record <=> j \in first..last

\* What no parser of this payload survives.
Malformed(p) ==
    RaisesAtOnce(p) \/ \E i \in DOMAIN p.records : Trips(p.source, p.records[i])

\* An invocation that failed was given a payload its parser does not survive, or the
\* container is one with a database, and some time during this very invocation that database
\* was away, or did not hold the one corridor to serve.  What an earlier invocation met is
\* behind it: a connection left dead by an outage is found out and replaced (dbconn.py:69
\* "Checked with a round trip rather than assumed"), a route that could not be told or loaded
\* is asked for again (normalizer.py: _conflator), and a polygon the database does not answer
\* is sampled (postgis.py: HybridConflator).
FailuresAreExplained ==
    run.status = "failed" =>
        \/ Malformed(run.payload)
        \/ container.database /\ run.unserved

================================================================================
