--------------------------------- MODULE Answers ---------------------------------
(***************************************************************************)
(* What a reader is told: the query API's look-ahead, event list and work- *)
(* zone feed (handlers/query.py), read from the store's index one          *)
(* lifecycle state after another and page by page, while the resolver and  *)
(* the timers go on moving the events; and the strip view                  *)
(* (strip_export.py), which clusters and scores a snapshot of reports by   *)
(* itself.                                                                 *)
(*                                                                         *)
(* The index is a copy that follows the store: after a move an event may   *)
(* still be read in the state it left and be missing from the one it came  *)
(* to, until the index has caught up with either.                          *)
(*                                                                         *)
(* An event's extent, class, sources and lanes are EventOf[id] and do not  *)
(* change here; `state` does.  The corridor's geometry may be out of reach *)
(* when a request asks for it.  An infinite upper bound does not survive   *)
(* serialisation: the database refuses the read, and the request fails.    *)
(***************************************************************************)
EXTENDS Scoring, Wzdx, Lifecycle

CONSTANTS
    EventIds, EventOf,  \* the events there may be, and what is fixed about each
    Corridors,          \* what the route's corridor may be
    Requests,           \* what may be asked
    Snapshots,          \* the reports a strip may be built from
    Now,                \* the clock
    Lookback,           \* RANGE_QUERY_LOOKBACK_MILES
    DefaultDistance,    \* DEFAULT_LOOK_AHEAD_MILES
    DefaultLimit,       \* DEFAULT_LIMIT
    MaxLimit,           \* MAX_LIMIT
    MaxRequests,        \* bound on requests
    MaxMoves            \* bound on moves

Numbers == Int \cup {None}

\* An event in the index is stored from west to east and rests on a source.
ASSUME EventsAssumption ==
    /\ IsFiniteSet(EventIds) /\ {Lookback, DefaultDistance, DefaultLimit, MaxLimit} \subseteq Int
    /\ \A id \in EventIds :
          LET e == EventOf[id]
          IN  /\ {"id", "class", "state", "begin", "end", "direction", "start", "until",
                  "geometry", "sources", "lanes"} \subseteq DOMAIN e
              /\ e.id = id /\ e.begin \in Int /\ e.end \in Int /\ e.begin <= e.end
              /\ e.sources \in Seq(ToSet(e.sources)) /\ e.sources # <<>>

\* A corridor is calibrated at every vertex or at none.
ASSUME CorridorAssumption ==
    \A c \in Corridors :
        /\ c # None /\ c.xs \in Seq(Int) /\ c.ys \in Seq(Int) /\ total_miles(c) \in Int
        /\ Len(c.ys) \in {0, Len(c.xs)}

\* What is asked is asked in a corridor's measures, and of states there are.
ASSUME RequestsAssumption ==
    /\ None \notin Int /\ NoMeasure \notin Int /\ None \notin {"EB", "WB", "BOTH", "no geometry"}
    /\ \A q \in Requests :
          \/ /\ q.kind = "ahead" /\ q.position \in Numbers /\ q.distance \in Numbers
             /\ q.direction \in {None, "EB", "WB", "BOTH"}
             /\ q.point # None => \A c \in Corridors :
                    FromCoordinate(c, q.point).begin \in Int \cup {NoMeasure}
          \/ /\ q.kind = "list" /\ {q.begin, q.end, q.limit} \subseteq Numbers
             /\ q.lifecycle \in Seq(LifecycleStates)
          \/ q.kind = "wzdx"

\* A report was fetched at some time, and a class has a half-life.
ASSUME ReportsAssumption ==
    /\ Now \in Int /\ \A s \in DOMAIN Reliability : Reliability[s] \in Nat
    /\ \A reports \in Snapshots :
          /\ Len(reports) \in Nat /\ DOMAIN reports = 1..Len(reports)
          /\ \A i \in DOMAIN reports :
                LET r == reports[i]
                IN  /\ r.fetched \in Int /\ r.said \in Int \cup {None}
                    /\ r.accuracy \in Nat \cup {None}
                    /\ HalfLife[r.class] \in Nat \ {0}

VARIABLES
    state,     \* event -> its lifecycle state, "none" before it is stored
    lag,       \* event -> the states in which the index has still to follow its moves
    corridor,  \* the route's corridor, None when it cannot be had
    request    \* the request being served

vars == <<state, lag, corridor, request>>

\* The states named in the order of their names.
LIVE_BY_NAME == <<"active", "clearing", "reported", "validated">>

LIVE_STATES == <<"reported", "validated", "active", "clearing">>

In(states) == {id \in EventIds : state[id] \in states}

Idle == [status |-> "idle", asks |-> None, corridor |-> None, position |-> None,
         lo |-> 0, hi |-> 0, states |-> <<>>, pending |-> <<>>, passed |-> {}, found |-> <<>>,
         held |-> {}, answer |-> None, count |-> 0, moves |-> 0]

Init ==
    /\ state \in [EventIds -> {"none"} \cup ToSet(LIVE_STATES)]
    /\ lag = [id \in EventIds |-> {}]
    /\ corridor \in Corridors \cup {None}
    /\ request = Idle

(***************************************************************************)
(* The writers: an event appears, and only ever moves forward; the index   *)
(* follows, one state's entry at a time.                                   *)
(***************************************************************************)

Forward ==
    [s \in LifecycleStates \cup {"none"} |->
        CASE s = "none" -> {"reported"}
          [] s = "reported" -> {"validated", "cleared"}
          [] s = "validated" -> {"active", "merged"}
          [] OTHER -> IF OnLadder(s) THEN {TTL_LADDER[s]} ELSE {}]

\* `held` are the events in a state that was asked for at every moment since the question.
\* Bounded; between requests the initial states stand for every move.
Move(id) ==
    /\ request.status = "reading" /\ request.moves < MaxMoves
    /\ \E to \in Forward[state[id]] :
          /\ state' = [state EXCEPT ![id] = to]
          /\ lag' = [lag EXCEPT ![id] = @ \cup ({state[id], to} \ {"none"})]
          /\ request' = [request EXCEPT
                            !.moves = @ + 1,
                            !.held = IF to \in ToSet(request.states) THEN @ ELSE @ \ {id}]
    /\ UNCHANGED corridor

CatchUp(id) ==
    /\ request.status = "reading"
    /\ \E s \in lag[id] : lag' = [lag EXCEPT ![id] = @ \ {s}]
    /\ UNCHANGED <<state, corridor, request>>

\* A request asks for the corridor once, when it arrives.
CorridorComesOrGoes ==
    /\ request.status # "reading" /\ request.count < MaxRequests
    /\ corridor' \in (Corridors \cup {None}) \ {corridor}
    /\ UNCHANGED <<state, lag, request>>

(***************************************************************************)
(* Asking                                                                  *)
(***************************************************************************)

\* The states a request is about, in the order it reads them.
StatesOf(q) ==
    CASE q.kind = "list" /\ q.lifecycle # <<>> -> q.lifecycle
      [] q.kind = "wzdx" -> PUBLISHABLE_STATES
      [] OTHER -> LIVE_STATES

Asked(q, status) ==
    [Idle EXCEPT !.status = status, !.asks = q, !.count = request.count + 1,
                 !.moves = request.moves, !.states = StatesOf(q),
                 !.held = In(ToSet(StatesOf(q))), !.corridor = corridor]

\* A range that ends before it begins is not read.
Scan(q, lo, hi) ==
    [Asked(q, "reading") EXCEPT !.lo = lo, !.hi = hi,
                                !.pending = IF hi < lo THEN <<>> ELSE StatesOf(q)]

\* A heading names a direction only when none is given.
DirectionOf(q) ==
    CASE q.direction # None -> q.direction
      [] q.direction = None /\ q.heading # None ->
            IF q.heading % 360 < 180 THEN "EB" ELSE "WB"
      [] OTHER -> None

\* Zero is falsy: it asks for the default.
DistanceOf(q) == IF q.distance \in {None, 0} THEN DefaultDistance ELSE q.distance

\* The vehicle's own measure, or what its point conflates to.
PositionOf(q) ==
    CASE q.position # None -> q.position
      [] q.position = None /\ q.point # None /\ corridor # None ->
            FromCoordinate(corridor, q.point).begin
      [] OTHER -> None

look_ahead(q) ==
    LET direction == DirectionOf(q)
        distance  == DistanceOf(q)
        position  == PositionOf(q)
    IN  IF direction = None \/ distance < 0 \/ position \in {None, NoMeasure}
        THEN request' = Asked(q, "refused")
        ELSE request' = [Scan(q, IF direction = "EB" THEN position ELSE position - distance,
                                 IF direction = "WB" THEN position ELSE position + distance)
                        EXCEPT !.position = position]

\* The vertices in a box, and their measures if they have any.
Inside(q) == {i \in DOMAIN corridor.xs : corridor.xs[i] \in q.bbox}
BoxOf(q) == {corridor.ys[i] : i \in Inside(q) \cap DOMAIN corridor.ys}

\* Two filters narrow; without an upper bound the corridor's end is one.  A box that touches
\* no vertex is no place at all, and one whose vertices have no measures is refused.
list_events(q) ==
    LET box   == IF q.bbox = None THEN {} ELSE BoxOf(q)
        lows  == ({q.begin} \ {None}) \cup (IF box = {} THEN {} ELSE {Min(box)})
        highs == ({q.end} \ {None}) \cup (IF box = {} THEN {} ELSE {Max(box)})
        lo    == IF lows = {} THEN 0 ELSE Max(lows)
        hi    == IF highs = {} THEN total_miles(corridor) ELSE Min(highs)
    IN  IF q.limit # None /\ q.limit < 1 THEN request' = Asked(q, "refused")
        ELSE IF corridor = None /\ (q.bbox # None \/ q.end = None)
             THEN request' = Asked(q, "failed")
        ELSE IF q.bbox # None /\ Inside(q) = {} THEN request' = Scan(q, 1, 0)
        ELSE IF q.bbox # None /\ box = {} THEN request' = Asked(q, "refused")
        ELSE request' = Scan(q, lo, hi)

wzdx_feed(q) ==
    request' = IF corridor = None THEN Asked(q, "failed")
               ELSE Scan(q, 0, total_miles(corridor))

Ask(q) ==
    /\ request.status # "reading" /\ request.count < MaxRequests
    /\ \/ q.kind = "ahead" /\ look_ahead(q)
       \/ q.kind = "list" /\ list_events(q)
       \/ q.kind = "wzdx" /\ wzdx_feed(q)
    /\ UNCHANGED <<state, lag, corridor>>

(***************************************************************************)
(* Reading: one query of the index per lifecycle state, answered page      *)
(* after page in the order in which the events begin.  What was over-read  *)
(* is discarded on where it ends.                                          *)
(***************************************************************************)

\* The events by whose place the query has still to come.
Unpassed == {id \in EventIds \ request.passed :
                /\ request.lo - Lookback <= EventOf[id].begin
                /\ EventOf[id].begin <= request.hi}

\* Whether the index shows the event in that state; either, while it has still to follow.
Shown(id, s) == IF s \in lag[id] THEN BOOLEAN ELSE {state[id] = s}

\* A page brings the next events and ends with one of them, or ends the query.  An event
\* passed over in the very state it is in, because the index has not followed its move there,
\* is held no longer.
ReadPage ==
    /\ request.status = "reading" /\ request.pending # <<>>
    /\ \E page \in SUBSET Unpassed : \E shown \in SUBSET page :
          LET s    == Head(request.pending)
              hits == {id \in shown : EventOf[id].end >= request.lo}
          IN  /\ \A id \in page : (id \in shown) \in Shown(id, s)
              /\ \A id \in page, later \in Unpassed \ page :
                     EventOf[id].begin <= EventOf[later].begin
              /\ \/ page = Unpassed
                 \/ \E last \in shown : \A id \in page : EventOf[id].begin <= EventOf[last].begin
              /\ request' = [request EXCEPT
                     !.pending = IF page = Unpassed THEN Tail(@) ELSE @,
                     !.passed = IF page = Unpassed THEN {} ELSE @ \cup page,
                     !.found = [id \in DOMAIN @ \cup hits |-> IF id \in hits THEN s ELSE @[id]],
                     !.held = @ \ {id \in page \ shown : state[id] = s /\ s \in lag[id]}]
    /\ UNCHANGED <<state, lag, corridor>>

Begins == [id \in EventIds |-> EventOf[id].begin]

Stored(id) == [EventOf[id] EXCEPT !.state = request.found[id]]

Sure(q, id) == q.confidence = None \/ EventOf[id].confidence >= q.confidence

\* How far the event's near edge is, before or behind.
DistanceTo(id, position, direction) ==
    LET edge == IF direction = "WB" THEN EventOf[id].end ELSE EventOf[id].begin
    IN  Greater(edge - position, position - edge)

\* Nearest first.
Ahead(q) ==
    LET direction == DirectionOf(q)
        position  == request.position
        ids == {id \in DOMAIN request.found :
                    is_ahead_of(EventOf[id], position, direction, DistanceOf(q)) /\ Sure(q, id)}
    IN  Orders(ids, [id \in ids |-> DistanceTo(id, position, direction)])

\* An event without an end has not ended.
OverlapsWindow(q, id) ==
    LET e == EventOf[id]
    IN  /\ e.start # None
        /\ q.until = None \/ e.start <= q.until
        /\ q.from = None \/ e.until = None \/ q.from <= e.until

\* By where they begin, as the store returns them.
Listed(q) ==
    LET kept == {id \in DOMAIN request.found :
                    /\ q.classes = {} \/ EventOf[id].class \in q.classes
                    /\ q.states = {} \/ q.states \cap EventOf[id].states # {}
                    /\ Sure(q, id) /\ OverlapsWindow(q, id)}
        matched == Cardinality(kept)
        limit   == IF q.limit = None THEN DefaultLimit ELSE Lesser(q.limit, MaxLimit)
        cap     == Lesser(limit, matched)
    IN  {[events |-> SubSeq(order, 1, cap), matched |-> matched, truncated |-> cap < matched] :
            order \in Orders(kept, Begins)}

Feeds == {to_wzdx_feed([i \in DOMAIN order |-> Stored(order[i])], request.corridor) :
            order \in Orders(DOMAIN request.found, Begins)}

\* What is said of the events found; those at one place come in any order.
Replies(q) ==
    CASE q.kind = "ahead" -> Ahead(q)
      [] q.kind = "list"  -> Listed(q)
      [] q.kind = "wzdx"  -> Feeds

Answer ==
    /\ request.status = "reading" /\ request.pending = <<>>
    /\ \E answer \in Replies(request.asks) :
           request' = [request EXCEPT !.status = "answered", !.answer = answer]
    /\ UNCHANGED <<state, lag, corridor>>

(***************************************************************************)
(* The strip: every cluster is one event, first seen now, scored by the    *)
(* reports it rests on and by the freshest of them.  It is built where     *)
(* there is no store, and none is taken to hold anything.                  *)
(***************************************************************************)

SourceRef(r) == [source |-> r.source, said |-> r.said, fetched |-> r.fetched]

Alone(r) == score_confidence(r, {SourceRef(r)}, Confirmed(SourceRef(r)), Now)

ClusterOut(reports, cluster) ==
    LET primary == reports[Min(cluster.members)]
        sources == {SourceRef(reports[i]) : i \in cluster.members}
    IN  [members |-> cluster.members, reviews |-> cluster.reviews, joins |-> cluster.joins,
         class |-> primary.class, direction |-> primary.direction,
         begin |-> Min({reports[i].begin : i \in cluster.members}),
         end |-> Max({reports[i].end : i \in cluster.members}),
         confidence |-> score_confidence(primary, sources,
                                         Max({Confirmed(s) : s \in sources}), Now)]

Strip(reports) ==
    /\ request.status # "reading" /\ request.count < MaxRequests
    /\ In({"none"}) = EventIds
    /\ request' = [Asked([kind |-> "strip", reports |-> reports], "answered") EXCEPT
                      !.answer = {ClusterOut(reports, c) : c \in cluster_candidates(reports)}]
    /\ UNCHANGED <<state, lag, corridor>>

Next ==
    \/ \E id \in EventIds : Move(id) \/ CatchUp(id)
    \/ CorridorComesOrGoes
    \/ \E q \in Requests : Ask(q)
    \/ ReadPage
    \/ Answer
    \/ \E reports \in Snapshots : Strip(reports)

Spec == Init /\ [][Next]_vars

(***************************************************************************)
(* What the answers promise                                                *)
(***************************************************************************)

Answering(kind) == request.status = "answered" /\ request.asks.kind = kind

Miles(id) == EventOf[id].begin..EventOf[id].end

OnTheWay(id, position, direction, distance) ==
    Miles(id) \cap (IF direction = "WB" THEN (position - distance)..position
                    ELSE position..(position + distance)) # {}

\* Of the look-ahead.
AheadIsWhole ==
    \A id \in request.held :
        LET q == request.asks
            e == EventOf[id]
        IN  /\ Answering("ahead") /\ Length(e) <= Lookback
            /\ DirectionOf(q) # "BOTH" /\ SameWay(e.direction, DirectionOf(q)) /\ Sure(q, id)
            /\ OnTheWay(id, request.position, DirectionOf(q), DistanceOf(q))
            => id \in ToSet(request.answer)

\* No event moves from a state to one named before it.
InOrder(states) ==
    \A i, k \in DOMAIN states : i < k => states[i] \notin Forward[states[k]]

\* Of the list.
ListIsWhole ==
    \A id \in request.held :
        LET q == request.asks
            e == EventOf[id]
        IN  /\ Answering("list") /\ Length(e) <= Lookback /\ InOrder(q.lifecycle)
            /\ Miles(id) \cap (request.lo..request.hi) # {}
            /\ OverlapsWindow(q, id) /\ Sure(q, id)
            /\ q.classes = {} \/ e.class \in q.classes
            /\ q.states = {} \/ q.states \cap e.states # {}
            => id \in ToSet(request.answer.events) \/ request.answer.truncated

\* An event that stayed among the states asked for from the question to the answer, and is no
\* longer than the index looks back, is in the answer, whichever of those states it was moved
\* to while they were read one by one and page by page: in the look-ahead if it is on the
\* vehicle's side of the road and any mile of it is among the vehicle's next, in the list if
\* any mile of it is in the range asked for and it meets the filters, unless the list says
\* that it was cut, or names states against the order in which events move.  The one event
\* excepted is the one the index itself withheld: not yet shown in the state it had moved
\* to when that state was read (query.py look_ahead and list_events, eventstore.py
\* events_overlapping).
NothingLiveIsMissed == AheadIsWhole /\ ListIsWhole

\* The feed answers for every publishable work zone it read, with a feature or with a reason,
\* never both; no feature rests on a source whose licence was not granted,
\* however many others reported it; and the feed passes its own conformance check, but for
\* what the event itself says of its dates and lanes, and for a geometry the event brought
\* along: one drawn from the corridor always conforms (wzdx.py to_wzdx_feed).
FeedIsLicensedAndWhole ==
    Answering("wzdx") =>
        LET feed == request.answer
            published == {feed.features[i].id : i \in DOMAIN feed.features}
            excluded  == {e.id : e \in feed.excluded}
        IN  /\ \A id \in published : \A s \in ToSet(EventOf[id].sources) :
                   s \in DOMAIN Redistributable /\ Redistributable[s]
            /\ \A id \in DOMAIN request.found :
                   EventOf[id].class = "work_zone" =>
                       Cardinality({x \in {"feature", "exclusion"} :
                                      \/ x = "feature" /\ id \in published
                                      \/ x = "exclusion" /\ id \in excluded}) = 1
            /\ validate_feed(feed) \subseteq {"dates", "order", "geometry"}
            /\ \A i \in DOMAIN feed.features :
                   "geometry" \in FeatureProblems(feed.features[i], feed.data_sources) =>
                       EventOf[feed.features[i].id].geometry # None

\* Two reports are one event exactly when merges lead from one to the other, in whichever
\* order the feeds were read: every report is in one cluster, a merge never leaves its
\* cluster, no part of a cluster is without a merge to the rest of it, and a pair left to a
\* human is on the cluster of each side (matcher.py cluster_candidates).
ClustersAreConnected ==
    Answering("strip") =>
        LET reports  == request.asks.reports
            clusters == {c.members : c \in request.answer}
            joined(i, j) == decision(reports[i], reports[j]) = "merge"
            meet(S, T) == \E i \in S, j \in T : (i < j /\ joined(i, j)) \/ (j < i /\ joined(j, i))
        IN  /\ UNION clusters = DOMAIN reports
            /\ \A S, T \in clusters : S # T => S \cap T = {} /\ ~meet(S, T)
            /\ \A S \in clusters : \A T \in SUBSET S : T \in {{}, S} \/ meet(T, S \ T)
            /\ \A p \in (DOMAIN reports) \X (DOMAIN reports) :
                   p[1] < p[2] /\ decision(reports[p[1]], reports[p[2]]) = "review" =>
                       \A c \in request.answer : c.members \cap {p[1], p[2]} # {} => p \in c.reviews

\* Corroboration is never counted against an event, and only a witness of its own adds to
\* it: an event scores at least what its own report does, and no more when the others are
\* of its independence group, no more reliable and no fresher (confidence.py:197).
OnlyIndependentWitnessesAdd ==
    Answering("strip") =>
        \A c \in request.answer :
            LET reports == request.asks.reports
                own     == reports[Min(c.members)]
                fresh(r) == Confirmed(SourceRef(r))
                prior(r) == score_source_reliability({SourceRef(r)})
            IN  /\ c.confidence >= Alone(own)
                /\ (\A i \in c.members : /\ GroupOf[reports[i].source] = GroupOf[own.source]
                                         /\ prior(reports[i]) <= prior(own)
                                         /\ fresh(reports[i]) <= fresh(own))
                      => c.confidence = Alone(own)
==================================================================================
