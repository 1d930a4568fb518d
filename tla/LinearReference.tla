---------------------------- MODULE LinearReference ----------------------------
(***************************************************************************)
(* The corridor as arithmetic: core/lrs.py and core/postgis.py.  State     *)
(* mileposts restart at every state line; one corridor-wide measure makes  *)
(* them comparable, and every spatial question the hub asks afterwards is  *)
(* about ranges of that measure.                                           *)
(*                                                                         *)
(* A corridor is [route, segments, xs, ys, buffer]: its states' segments   *)
(* from west to east, each [state, lo, hi, offset], the distance along the *)
(* centerline of every vertex, the calibrated measure of every vertex (<<>>*)
(* when the geometry is not calibrated), and how far off it still counts.  *)
(* A point of the map is what geo.py's projection makes of it: how far     *)
(* `along` the centerline it falls and how far `off` it; a polygon is the  *)
(* distances along the centerline that it covers.                          *)
(***************************************************************************)
EXTENDS Integers, Sequences, FiniteSets, SequencesExt, FiniteSetsExt

CONSTANTS
    NoMeasure,  \* None, and the NaN of an extent nobody could place
    Samples     \* _POLYGON_SAMPLE_COUNT

Lesser(a, b)  == IF a <= b THEN a ELSE b
Greater(a, b) == IF a <= b THEN b ELSE a

(***************************************************************************)
(* Milepost <-> measure                                                    *)
(***************************************************************************)

EndOf(seg) == seg.offset + (seg.hi - seg.lo)

total_miles(corridor) ==
    FoldLeft(LAMBDA sum, seg : sum + (seg.hi - seg.lo), 0, corridor.segments)

\* Only the first segment of a state is asked; out of its range is no place, not its end.
measure_for(corridor, state, milepost) ==
    LET own == {i \in DOMAIN corridor.segments : corridor.segments[i].state = state}
        seg == corridor.segments[Min(own)]
    IN  IF own = {} \/ milepost < seg.lo \/ milepost > seg.hi THEN NoMeasure
        ELSE seg.offset + (milepost - seg.lo)

\* A measure on a state line is the western state's.
milepost_for(corridor, measure) ==
    LET touched == {i \in DOMAIN corridor.segments :
                        /\ corridor.segments[i].offset <= measure
                        /\ measure <= EndOf(corridor.segments[i])}
        seg == corridor.segments[Min(touched)]
    IN  IF touched = {} THEN NoMeasure
        ELSE [state |-> seg.state, milepost |-> seg.lo + (measure - seg.offset)]

states_in(corridor, begin, end) ==
    {seg.state : seg \in {s \in ToSet(corridor.segments) :
                            /\ Greater(begin, end) >= s.offset
                            /\ Lesser(begin, end) <= EndOf(s)}}

(***************************************************************************)
(* Questions about ranges of measure                                       *)
(***************************************************************************)

\* The overlap of the two ranges, negative when there is a gap between them.
Overlap(a, b, tolerance) ==
    Lesser(Greater(a[1], a[2]) + tolerance, Greater(b[1], b[2]))
      - Greater(Lesser(a[1], a[2]) - tolerance, Lesser(b[1], b[2]))

measure_overlap(a, b, tolerance) ==
    LET overlap == Overlap(a, b, tolerance)
    IN  [overlaps |-> overlap >= 0,
         overlap  |-> Greater(overlap, 0),
         gap      |-> Greater(-overlap, 0)]

SameWay(one, other) == one = "BOTH" \/ other = "BOTH" \/ one = other

is_ahead_of(event, position, travel, distance) ==
    LET lo == Lesser(event.begin, event.end)
        hi == Greater(event.begin, event.end)
    IN  /\ SameWay(event.direction, travel)
        /\ IF travel = "WB" THEN lo <= position /\ hi >= position - distance
           ELSE hi >= position /\ lo <= position + distance

(***************************************************************************)
(* Conflation: from what a source says about place to an extent            *)
(***************************************************************************)

Placed(corridor, begin, end, method, on) ==
    [begin |-> begin, end |-> end, method |-> method, on |-> on,
     states |-> IF on THEN states_in(corridor, begin, end) ELSE {}]

Unplaced(measure, method) ==
    [begin |-> measure, end |-> measure, method |-> method, on |-> FALSE, states |-> {}]

\* Clamped at both ends, linear between the vertices.
Interpolate(xs, ys, x) ==
    LET i == Max({j \in DOMAIN xs : xs[j] <= x})
    IN  IF x <= xs[1] THEN ys[1]
        ELSE IF x >= Last(xs) THEN Last(ys)
        ELSE ys[i] + ((x - xs[i]) * (ys[i + 1] - ys[i])) \div (xs[i + 1] - xs[i])

\* Without calibrated measures, a fraction of the geometry's length times the mileage.
ScaleToCorridor(corridor, along) ==
    IF corridor.ys # <<>> THEN Interpolate(corridor.xs, corridor.ys, along)
    ELSE IF Last(corridor.xs) = 0 THEN 0
    ELSE (along * total_miles(corridor)) \div Last(corridor.xs)

FromCoordinate(corridor, point) ==
    LET measure == ScaleToCorridor(corridor, point.along)
    IN  Placed(corridor, measure, measure, "coordinate", point.off <= corridor.buffer)

\* The two ends of the line are its extent; one of them on the corridor is enough.
FromLineString(corridor, points) ==
    LET first == FromCoordinate(corridor, Head(points))
        last  == FromCoordinate(corridor, Last(points))
    IN  IF points = <<>> THEN Unplaced(NoMeasure, "unresolved")
        ELSE Placed(corridor, Lesser(first.begin, last.begin), Greater(first.begin, last.begin),
                    "coordinate", first.on \/ last.on)

\* Samples + 1 points of the centerline, evenly spaced, tested against the polygon.
FromPolygon(corridor, covered) ==
    LET at(i) == (i * Last(corridor.xs)) \div Samples
        hits  == {ScaleToCorridor(corridor, at(i)) : i \in {j \in 0..Samples : at(j) \in covered}}
    IN  IF hits = {} THEN Unplaced(NoMeasure, "polygon_intersect")
        ELSE Placed(corridor, Min(hits), Max(hits), "polygon_intersect", TRUE)

\* `active` is the module's active corridor: the measures are its own, whichever corridor
\* the conflator was given for everything else.
FromMilepost(corridor, active, place) ==
    LET begin == measure_for(active, place.state, place.begin)
        end   == IF place.end = NoMeasure THEN begin
                 ELSE measure_for(active, place.state, place.end)
    IN  IF NoMeasure \in {begin, end} THEN Unplaced(NoMeasure, "milepost")
        ELSE Placed(corridor, begin, end, "milepost", TRUE)

LocalConflate(corridor, active, place) ==
    CASE place.kind = "milepost"   -> FromMilepost(corridor, active, place)
      [] place.kind = "coordinate" -> FromCoordinate(corridor, place.at)
      [] place.kind = "linestring" -> FromLineString(corridor, place.points)
      [] place.kind = "polygon"    ->
            IF place.usable THEN FromPolygon(corridor, place.covers)
            ELSE Unplaced(NoMeasure, "polygon_intersect")
      [] OTHER -> Unplaced(NoMeasure, "unresolved")

\* ST_Intersection clips the centerline itself: no sampling, and no place is measure 0.
RemotePolygon(corridor, covered) ==
    LET clipped == {ScaleToCorridor(corridor, x) : x \in covered \cap (0..Last(corridor.xs))}
    IN  IF clipped = {} THEN Unplaced(0, "polygon_intersect")
        ELSE Placed(corridor, Min(clipped), Max(clipped), "polygon_intersect", TRUE)
================================================================================
