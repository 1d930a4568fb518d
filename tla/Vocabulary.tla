------------------------------- MODULE Vocabulary -------------------------------
(***************************************************************************)
(* The adapters' crosswalks: from the words an agency uses to the hub's    *)
(* classes, directions and lane impacts (adapters/*.py).  Each is total on *)
(* what a feed may say, and answers "not known" rather than guess.         *)
(***************************************************************************)
EXTENDS Integers, FiniteSets, Sequences

CONSTANT None  \* a value the record does not have

(***************************************************************************)
(* Classes                                                                 *)
(***************************************************************************)

AzClass(type) ==
    CASE type = "roadwork" -> "work_zone"
      [] type = "closures" -> "closure"
      [] type \in {"accidentsAndIncidents", "specialEvents"} -> "incident"
      [] type = "restrictionClass" -> "dimensional_restriction"
      [] OTHER -> None

\* The words a number of the feed's undocumented enumeration was seen with.
NmClass(type) ==
    CASE type \in {"5 closure", "8 lane closure", "20 seasonal closure"} -> "closure"
      [] type = "9 roadwork" -> "work_zone"
      [] type \in {"13 wet", "16 difficult"} -> "road_surface"
      [] OTHER -> None

TileClass(layer, kind) ==
    IF layer = "traffic_flow"
    THEN IF kind \in {"minor", "slow", "queuing", "stationary"} THEN "congestion" ELSE None
    ELSE CASE kind = "construction" -> "work_zone"
           [] kind \in {"closure", "road_closure"} -> "closure"
           [] kind = "congestion" -> "congestion"
           [] kind = "weather" -> "weather"
           [] kind \in {"accident", "disabled_vehicle", "lane_restriction", "mass_transit",
                        "planned_event", "road_hazard", "other"} -> "incident"
           [] OTHER -> None

\* An alert that implies a state of the road surface is two events: they clear apart.
WeatherClasses(alert) ==
    IF alert \in {"winter storm", "ice storm", "flood"} THEN <<"weather", "road_surface">>
    ELSE <<"weather">>

(***************************************************************************)
(* Directions: not stated is UNKNOWN, which is not BOTH                    *)
(***************************************************************************)

Eastward == {"eastbound", "east", "eb"}
Westward == {"westbound", "west", "wb"}

Heading(word, both) ==
    CASE word \in Eastward -> "EB"
      [] word \in Westward -> "WB"
      [] word \in both     -> "BOTH"
      [] OTHER             -> "UNKNOWN"

\* Oklahoma says it twice: the field wins, and a disagreement is remembered.
normalize_direction(field, suffix) ==
    LET stated == Heading(field, {"both", "bidirectional"})
        named  == CASE suffix = "E" -> "EB" [] suffix = "W" -> "WB" [] OTHER -> "UNKNOWN"
    IN  [direction |-> IF stated # "UNKNOWN" THEN stated ELSE named,
         conflict  |-> "UNKNOWN" \notin {stated, named} /\ stated # named]

TxDirection(word) == Heading(word, {"both", "bidirectional", "undefined"})

\* Arizona's field, then the road's name.
AzDirection(word, named) ==
    IF Heading(word, {"both", "all"}) # "UNKNOWN" THEN Heading(word, {"both", "all"})
    ELSE Heading(named, {})

\* New Mexico says it in prose, if at all; `words` are the bounds the prose names.
NmDirection(words) ==
    IF {"eastbound", "westbound"} \subseteq words THEN "BOTH"
    ELSE IF "eastbound" \in words THEN "EB"
    ELSE IF "westbound" \in words THEN "WB" ELSE "UNKNOWN"

OffAxis(words) == words \cap {"northbound", "southbound"}

(***************************************************************************)
(* Lanes: [impacts, unresolved]; an impact is [ordinal, status, inferred]  *)
(***************************************************************************)

Lane(ordinal, status) == [ordinal |-> ordinal, status |-> status, inferred |-> TRUE]
Resolved(impacts) == [impacts |-> impacts, unresolved |-> FALSE]
Unresolved == [impacts |-> {}, unresolved |-> TRUE]

lane_impacts_from_vehicle_impact(impact) ==
    CASE impact = "all-lanes-open"   -> Resolved({})
      [] impact = "all-lanes-closed" -> Resolved({Lane(1, "closed")})
      [] impact \in {"alternating-one-way", "flagging"} -> Resolved({Lane(1, "alternating")})
      [] OTHER -> Unresolved

\* Arizona's prose, and how many lanes the road has when the record says.  Ordinals count
\* from the left edge, so the right side needs the total.
parse_lanes_affected(prose, total, full) ==
    LET closedLanes(first) == {Lane(first + k, "closed") : k \in 0..(prose.count - 1)}
    IN  IF full THEN Resolved({Lane(1, "closed")})
        ELSE
        CASE prose.says = "all lanes closed" -> Resolved({Lane(1, "closed")})
          [] prose.says = "no data"     -> Unresolved
          [] prose.says = "alternating" -> Resolved({Lane(1, "alternating")})
          [] prose.says = "rolling"     -> Resolved({Lane(1, "intermittent")})
          [] prose.says = "shoulder closed" -> Resolved({Lane(1, "closed")})
          [] prose.says = "left closed"  -> Resolved(closedLanes(1))
          [] prose.says = "right closed" ->
                IF total = None THEN Unresolved ELSE Resolved(closedLanes(total - prose.count + 1))
          [] OTHER -> Unresolved

\* New Mexico's prose names a lane; only the leftmost has a number without the total.
parse_lane_impacts(phrase) ==
    CASE phrase \in {"left", "inside"} -> Resolved({Lane(1, "closed")})
      [] phrase \in {"right", "outside", "driving", "title only"} -> Unresolved
      [] OTHER -> Resolved({})

(***************************************************************************)
(* End dates.  Oklahoma's feed generates some on every request: many       *)
(* records share one minute of the day to the millisecond, on days apart.  *)
(* An end is [day, minute, millis, readable].                              *)
(***************************************************************************)

regenerated_end_date_minutes(ends) ==
    LET typed  == {i \in DOMAIN ends : ends[i] # None /\ ends[i].millis /\ ends[i].readable}
        at(m)  == {i \in typed : ends[i].minute = m}
    IN  {m \in {ends[i].minute : i \in typed} :
            Cardinality(at(m)) >= 3 /\ Cardinality({ends[i].day : i \in at(m)}) >= 2}

TwoYears == 730

end_date_is_plausible(start, end, regenerated) ==
    \/ end = None
    \/ /\ end.readable
       /\ start # None => /\ end.day >= start
                          /\ ~(end.millis /\ end.day - start > TwoYears)
       /\ end.minute \notin regenerated
================================================================================
