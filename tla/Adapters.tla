-------------------------------- MODULE Adapters --------------------------------
(***************************************************************************)
(* What each source's adapter makes of one record (adapters/*.py): nothing *)
(* (a record that is not about this corridor's road), a refusal with the   *)
(* issue that explains it, an off-corridor record, or candidates together  *)
(* with the issues about what could not be mapped.                         *)
(*                                                                         *)
(* Conflation is the caller's (Intake): `at` is the extent the conflator   *)
(* made of the record's own place.  An issue is named after the field it   *)
(* is about; its text is left out.                                         *)
(***************************************************************************)
EXTENDS Vocabulary, LinearReference

CONSTANT GapReported  \* MILEPOST_COORDINATE_REPORT_THRESHOLD_MILES

Candidate(class, at, direction, lanes) ==
    [class |-> class, begin |-> at.begin, end |-> at.end, states |-> at.states,
     method |-> at.method, direction |-> direction, lanes |-> lanes]

Outcome(candidates, issues, off) == [candidates |-> candidates, issues |-> issues, off |-> off]
Skipped         == Outcome(<<>>, {}, 0)
Refused(field)  == Outcome(<<>>, {field}, 0)
OffCorridor     == Outcome(<<>>, {}, 1)
Mapped(candidates, issues) == Outcome(candidates, issues, 0)

Noted(condition, field) == IF condition THEN {field} ELSE {}
Known(direction) == Noted(direction = "UNKNOWN", "direction")

(***************************************************************************)
(* What a parser does not survive, and its whole payload with it: a record *)
(* that is no object (None), where the adapter asks it for its fields, and *)
(* a position that is no pair of coordinates (None), where it is read.     *)
(***************************************************************************)
Pairless(place) ==
    \/ place.kind = "coordinate" /\ place.at = None
    \/ place.kind = "linestring" /\ place.points # <<>>
       /\ None \in {Head(place.points), Last(place.points)}

Trips(source, r) ==
    /\ source \in {"nws", "ok", "tx", "az"}
    /\ r = None \/ (source \in {"ok", "tx"} /\ r.here /\ Pairless(r.place))

(***************************************************************************)
(* Two operators per adapter: which of its records it takes (the body of   *)
(* the loop, with its `continue`s), and what it makes of one it takes.     *)
(***************************************************************************)

\* The alert's place is believed without asking whether it is on the corridor.
NwsAnywhere(r, at) ==
    IF r.place = None THEN Refused("geometry")
    ELSE Mapped(<<Candidate("weather", at, "BOTH", {})>>, {})

\* An alert coded by zone, which has no polygon, is passed over.
NwsPolygonsOnly(r, at) ==
    IF r.place = None THEN Skipped
    ELSE IF ~at.on THEN OffCorridor
    ELSE Mapped(<<Candidate("weather", at, "BOTH", {})>>, {})

\* Weather: one alert may be two candidates.
NwsAlert(r, at) ==
    LET classes == WeatherClasses(r.alert)
    IN  Mapped([i \in DOMAIN classes |-> Candidate(classes[i], at, "BOTH", {})],
               Noted(r.ends = None /\ r.expires # None, "ends")
               \cup Noted(r.severity = "odd", "severity"))

\* An alert with no polygon is refused.
MapNws(r, at) ==
    IF r.alert = "rip current" THEN Skipped
    ELSE IF r.place = None THEN Refused("geometry")
    ELSE IF ~at.on THEN OffCorridor
    ELSE NwsAlert(r, at)

OkWorkZone(r, at, regenerated) ==
    LET way   == normalize_direction(r.direction, r.suffix)
        lanes == {[ordinal |-> i, inferred |-> FALSE,
                   status |-> IF r.lanes[i] = "unmapped" THEN "open" ELSE r.lanes[i]] :
                    i \in DOMAIN r.lanes}
    IN  Mapped(<<Candidate("work_zone", at, way.direction, lanes)>>,
               Noted(way.conflict, "direction") \cup Known(way.direction)
               \cup Noted(\E i \in DOMAIN r.lanes : r.lanes[i] = "unmapped", "lanes[]")
               \cup Noted(lanes = {}, "lanes")
               \cup Noted(~end_date_is_plausible(r.start, r.end, regenerated), "end_date"))

\* Oklahoma: what is off the corridor is counted and also an issue.
MapOk(r, at, regenerated) ==
    IF ~r.here THEN Skipped
    ELSE IF ~at.on THEN Outcome(<<>>, {"geometry"}, 1)
    ELSE OkWorkZone(r, at, regenerated)

TxWorkZone(r, at) ==
    LET direction == TxDirection(r.direction)
        lanes     == lane_impacts_from_vehicle_impact(r.impact)
    IN  Mapped(<<Candidate("work_zone", at, direction, lanes.impacts)>>,
               Known(direction)
               \cup Noted(r.structured, "lanes")
               \cup Noted(lanes.unresolved, "vehicle_impact"))

MapTx(r, at) ==
    IF ~r.here THEN Skipped
    ELSE IF ~at.on THEN OffCorridor
    ELSE TxWorkZone(r, at)

\* Dimensions ride along with the record.
AzEvent(r, at) ==
    LET class     == AzClass(r.type)
        direction == AzDirection(r.direction, r.named)
        lanes     == parse_lanes_affected(r.prose, r.total, r.full)
    IN  Mapped(<<Candidate(class, at, direction, lanes.impacts)>>,
               Noted(r.polyline, "EncodedPolyline") \cup Known(direction)
               \cup Noted(lanes.unresolved, "LanesAffected")
               \cup Noted(r.badStart, "StartDate") \cup Noted(r.badEnd, "PlannedEndDate")
               \cup Noted(r.restricted /\ class # "dimensional_restriction", "Restrictions"))

\* Arizona: no class and no coordinate refuse the record.
MapAz(r, at) ==
    IF ~r.here THEN Skipped
    ELSE IF AzClass(r.type) = None THEN Refused("EventType")
    ELSE IF r.place = None THEN Refused("Latitude")
    ELSE IF ~at.on THEN OffCorridor
    ELSE AzEvent(r, at)

\* New Mexico: the milepost in the prose wins over the record's coordinate when it
\* resolves; `named` is the milepost's extent, when the prose has one.
ResolveExtent(r, at, named) ==
    IF r.mileposts = None THEN [at |-> at, issues |-> {}]
    ELSE IF ~named.on THEN [at |-> at, issues |-> {"milepost"}]
    ELSE [at |-> named,
          issues |-> Noted(at.on /\ Greater(named.begin - at.begin, at.begin - named.begin)
                                     > GapReported, "milepost gap")]

NmEvent(r, extent) ==
    LET direction == NmDirection(r.words)
        lanes     == parse_lane_impacts(r.phrase)
    IN  Mapped(<<Candidate(NmClass(r.type), extent.at, direction, lanes.impacts)>>,
               extent.issues
               \cup Noted(OffAxis(r.words) # {}, "off-axis")
               \cup Known(direction)
               \cup Noted(lanes.unresolved, "description")
               \cup Noted(~r.starts, "starttime") \cup Noted(~r.ends, "endtime")
               \cup Noted(r.badUpdated, "updated"))

MapNm(r, at, named) ==
    LET extent == ResolveExtent(r, at, named)
    IN  IF r.upstream = "not an object" THEN Refused("$[]")
        ELSE IF r.upstream # "NMDOT" \/ ~r.here THEN Skipped
        ELSE IF NmClass(r.type) = None THEN Refused("eventType")
        ELSE IF r.place = None THEN Refused("longitude/latitude")
        ELSE IF ~extent.at.on THEN Outcome(<<>>, extent.issues, 1)
        ELSE NmEvent(r, extent)

\* Traffic tiles: the same segment comes again in the next tile, and only its first
\* appearance is looked at.  `seen` holds the segments looked at so far.
TileFilters(r) ==
    \/ r.layer = "incident_icons"
    \/ r.layer \in {"traffic_flow", "traffic_incidents"}
       /\ (~r.mainline \/ (r.layer = "traffic_flow" /\ r.kind \in {"free", "none"}))

SegmentOf(r) == <<r.layer, r.segment>>

TileEvent(r, at) ==
    Mapped(<<Candidate(TileClass(r.layer, r.kind), at, "UNKNOWN", {})>>,
           Noted(r.layer = "traffic_incidents" /\ r.badTimes, "times") \cup {"direction"})

MapTile(r, at, seen) ==
    IF r.layer = "corrupt" THEN Refused("tile")
    ELSE IF TileFilters(r) THEN Skipped
    ELSE IF r.layer \notin {"traffic_flow", "traffic_incidents"} THEN Refused("layer")
    ELSE IF TileClass(r.layer, r.kind) = None THEN Refused("kind")
    ELSE IF r.segment # None /\ SegmentOf(r) \in seen THEN Skipped
    ELSE IF r.place = None THEN Refused("geometry")
    ELSE IF ~at.on THEN OffCorridor
    ELSE TileEvent(r, at)

\* What has a class is looked at, and its segment joins `seen` before its place is known.
LookedAt(r) ==
    /\ r.layer \in {"traffic_flow", "traffic_incidents"}
    /\ ~TileFilters(r) /\ TileClass(r.layer, r.kind) # None

SegmentsSeen(r, seen) ==
    IF LookedAt(r) /\ r.segment # None THEN seen \cup {SegmentOf(r)} ELSE seen
================================================================================
