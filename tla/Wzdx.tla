---------------------------------- MODULE Wzdx ----------------------------------
(***************************************************************************)
(* The work-zone feed: what core/wzdx.py makes of the events it is given,  *)
(* and the conformance check that stands beside it.  Pure.  An event is    *)
(* [id, class, state, begin, end, start, until, geometry, sources, lanes,  *)
(* ...]; its sources are a sequence, and its own geometry is None or       *)
(* [type, points], a point that is no position on earth being NoMeasure.   *)
(***************************************************************************)
EXTENDS Matching

CONSTANT Redistributable  \* source -> TRUE or FALSE, as far as the catalog says

PUBLISHABLE_CLASSES == {"work_zone"}
PUBLISHABLE_STATES == <<"active", "clearing">>

\* The members of a finite set by their keys, those with one key in any order.
Orders(S, key) ==
    {s \in [1..Cardinality(S) -> S] :
        ToSet(s) = S /\ \A i, j \in DOMAIN s : i < j => key[s[i]] <= key[s[j]]}

\* Only what the catalog forbids is held back.
RepublishUnlessRefused(source) ==
    source \notin DOMAIN Redistributable \/ Redistributable[source]

\* Not known is not permission.
may_republish(source) == source \in DOMAIN Redistributable /\ Redistributable[source]

\* The vertices between two measures, and the one on either side.
corridor_slice(corridor, begin, end) ==
    LET n     == Len(corridor.ys)
        below(m) == Cardinality({i \in 1..n : corridor.ys[i] < m})
        start == Greater(1, below(Lesser(begin, end)))
        stop  == Lesser(n, below(Greater(begin, end)) + 2)
        slice == SubSeq(corridor.xs, start, stop)
    IN  IF n = 0 THEN <<>>
        ELSE IF Len(slice) = 1 THEN slice \o slice ELSE slice

\* `corridor` is None when it cannot be had.  An event's own geometry is taken as it is.
GeometryOf(event, corridor) ==
    LET slice == corridor_slice(corridor, event.begin, event.end)
    IN  IF event.geometry # None THEN event.geometry
        ELSE IF corridor = None \/ event.begin = NoMeasure \/ slice = <<>> THEN None
        ELSE [type |-> "LineString", points |-> slice]

Excluded(event, reason) == [id |-> event.id, reason |-> reason]

\* Why a record cannot be a feature; None when it can.
Unpublishable(event, corridor) ==
    CASE GeometryOf(event, corridor) = None -> "no geometry"
      [] GeometryOf(event, corridor) # None /\ event.start = None -> "unusable start_date"
      [] GeometryOf(event, corridor) # None /\ event.start # None /\ event.until = None ->
            "no end_date"
      [] OTHER -> None

Feature(event, corridor) ==
    [id |-> event.id,
     geometry |-> GeometryOf(event, corridor),
     data_source_id |-> IF event.sources = <<>> THEN "unknown" ELSE Head(event.sources),
     start_date |-> event.start, end_date |-> event.until,
     lanes |-> {l.ordinal : l \in event.lanes}]

\* The licence is asked before the shape of the record, and of every source.
Forbidden(event) == {s \in ToSet(event.sources) : ~may_republish(s)}

\* Events of another class or state were never candidates and are not exclusions; a feed
\* without a feature names its publisher as its source.
to_wzdx_feed(events, corridor) ==
    LET ours      == {i \in DOMAIN events : /\ events[i].class \in PUBLISHABLE_CLASSES
                                            /\ events[i].state \in ToSet(PUBLISHABLE_STATES)}
        licensed  == {i \in ours : Forbidden(events[i]) = {}}
        published == {i \in licensed : Unpublishable(events[i], corridor) = None}
        order     == CHOOSE s \in Orders(published, [i \in published |-> i]) : TRUE
        sources   == UNION {ToSet(events[i].sources) : i \in published}
    IN  [features |-> [k \in DOMAIN order |-> Feature(events[order[k]], corridor)],
         data_sources |-> IF sources = {} THEN {"publisher"} ELSE sources,
         excluded |->
            {Excluded(events[i], "not redistributable") : i \in ours \ licensed}
            \cup {Excluded(events[i], Unpublishable(events[i], corridor)) :
                    i \in licensed \ published}]

(***************************************************************************)
(* validate_feed, as the problems it would name                            *)
(***************************************************************************)

\* Only a line needs two positions.
Conforms(geometry) ==
    /\ geometry.type \in {"Point", "LineString", "MultiPoint", "MultiLineString"}
    /\ Len(geometry.points) >= IF geometry.type = "LineString" THEN 2 ELSE 1
    /\ NoMeasure \notin ToSet(geometry.points)

FeatureProblems(feature, declared) ==
    {p \in {"geometry", "dates", "data_source_id", "order"} :
        \/ p = "geometry" /\ ~Conforms(feature.geometry)
        \/ p = "dates" /\ (None \in {feature.start_date, feature.end_date}
                           \/ feature.end_date < feature.start_date)
        \/ p = "data_source_id" /\ feature.data_source_id \notin declared
        \/ p = "order" /\ \E order \in feature.lanes : order < 1}

validate_feed(feed) ==
    UNION {FeatureProblems(feed.features[i], feed.data_sources) : i \in DOMAIN feed.features}
    \cup (IF feed.data_sources = {} THEN {"data_sources"} ELSE {})
    \cup (IF \E i, j \in DOMAIN feed.features : i # j /\ feed.features[i].id = feed.features[j].id
          THEN {"duplicate id"} ELSE {})
================================================================================
