-------------------------------- MODULE Scoring ---------------------------------
(***************************************************************************)
(* How much a report, and an event several reports make, is to be trusted: *)
(* core/confidence.py.  Pure, in ten-thousandths.  A source is             *)
(* [source, said, fetched]: which feed, when the agency last said so (None *)
(* when it does not tell), and when the hub fetched it.                    *)
(***************************************************************************)
EXTENDS Matching

CONSTANTS
    Reliability,  \* source -> the catalog's seed prior, where it has one
    HalfLife      \* class -> the half-life of a confirmation

DEFAULT_RELIABILITY == 5000

Prior(s) == IF s.source \in DOMAIN Reliability THEN Reliability[s.source] ELSE DEFAULT_RELIABILITY

\* The best available source, not the average.
score_source_reliability(sources) == Max({0} \cup {Prior(s) : s \in sources})

\* Every record counts, mirrored or not.
CorroborationByRecord(sources) ==
    CASE sources = {} -> 0
      [] Cardinality(sources) = 1 -> 5000
      [] Cardinality(sources) = 2 -> 8500
      [] OTHER -> Whole

\* A source repeating its own report, or another's, is not corroboration.
score_corroboration(sources) ==
    LET groups == Cardinality({GroupOf[s.source] : s \in sources})
    IN  CASE groups = 0 -> 0
          [] groups = 1 -> 5000
          [] groups = 2 -> 8500
          [] OTHER -> Whole

\* Whole, halved and halved again.
Halved == <<Whole, 5000, 2500, 1250, 625, 312, 156, 78, 39, 19, 9, 4, 2, 1>>

\* Halved for every half-life since the last confirmation; the code's decay is continuous.
score_recency(confirmed, class, now) ==
    LET lives == Greater(0, now - confirmed) \div HalfLife[class]
    IN  IF confirmed = None \/ lives >= Len(Halved) THEN 0 ELSE Halved[lives + 1]

PRECISION_BY_METHOD(method) ==
    CASE method = "native_lrs" -> Whole
      [] method = "milepost" -> 9000
      [] method = "coordinate" -> 8500
      [] method = "sensor_snap" -> 7000
      [] method = "polygon_intersect" -> 5500
      [] method = "text_geocode" -> 3500
      [] method = "unresolved" -> 0
      [] OTHER -> 5000

\* Beyond 500 metres a location is weak evidence of where, and loses at most 0.4.
score_spatial_precision(report) ==
    LET base == PRECISION_BY_METHOD(report.method)
    IN  IF report.accuracy = None THEN base
        ELSE Greater(0, base - Lesser(4000, Greater(0, 2 * (report.accuracy - 500))))

REQUIRED_FIELDS(class) ==
    {"extent"}
    \cup (IF class \in {"dimensional_restriction", "truck_parking"} THEN {} ELSE {"start_time"})
    \cup (IF class \in {"work_zone", "incident", "closure"} THEN {"lane_impacts"} ELSE {})
    \cup (IF class \in {"incident", "weather", "road_surface"} THEN {"event_subtype"} ELSE {})

score_completeness(report) ==
    LET required == REQUIRED_FIELDS(report.class)
        present  == {f \in required :
                        \/ f = "extent" /\ report.begin # NoMeasure
                        \/ f = "start_time" /\ report.start # None
                        \/ f = "lane_impacts" /\ report.lanes # {}
                        \/ f = "event_subtype" /\ report.subtype \notin {None, "advisory"}}
    IN  (Cardinality(present) * Whole) \div Cardinality(required)

score_internal_consistency(report, conflicts) ==
    Greater(0, Whole - Lesser(6000, 2000 * conflicts)
               - (IF \E lane \in report.lanes : lane.inferred THEN 1500 ELSE 0)
               - (IF report.until = None /\ report.duration = None THEN 500 ELSE 0))

score_confidence(report, sources, confirmed, now) ==
    (25 * score_source_reliability(sources)
     + 20 * score_corroboration(sources)
     + 20 * score_recency(confirmed, report.class, now)
     + 15 * score_spatial_precision(report)
     + 10 * score_completeness(report)
     + 10 * score_internal_consistency(report, 0)) \div 100

\* When the agency last said so; when it does not tell, when we asked.
Confirmed(s) == IF s.said # None THEN s.said ELSE s.fetched
================================================================================
