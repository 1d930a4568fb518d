-------------------------------- MODULE Matching --------------------------------
(***************************************************************************)
(* Whether two reports describe one event, and which reports then belong   *)
(* together: core/matcher.py.  Pure.                                       *)
(*                                                                         *)
(* Scores are in ten-thousandths, the precision the code rounds to, and    *)
(* measures in tenths of a mile.  A report is [class, begin, end,          *)
(* direction, start, until, source, ...]; a report without an `until` is   *)
(* still running.                                                          *)
(***************************************************************************)
EXTENDS LinearReference

CONSTANTS
    None,          \* a value the report does not have
    ReopenWindow,  \* class -> how long after the end of one a report is still of it
    GroupOf        \* source -> its independence group

Whole == 10000
MERGE_THRESHOLD == 7500
REVIEW_THRESHOLD == 5000
SPATIAL_TOLERANCE == 5
NEAR_MISS_DECAY == 50
POINT_EVENT == 1

Range2(r) == <<r.begin, r.end>>
Length(r) == Greater(r.end - r.begin, r.begin - r.end)

\* The share of the shorter extent that the overlap covers; a near miss decays.
score_spatial(a, b) ==
    LET met     == measure_overlap(Range2(a), Range2(b), SPATIAL_TOLERANCE)
        shorter == Lesser(Length(a), Length(b))
    IN  IF ~met.overlaps
        THEN (3 * Greater(0, Whole - (met.gap * Whole) \div NEAR_MISS_DECAY)) \div 10
        ELSE IF shorter < POINT_EVENT THEN Whole
        ELSE Lesser(Whole, (met.overlap * Whole) \div shorter)

\* How long after the first end the later start comes; an open window never ends.
Apart(a, b) ==
    LET ends == {a.until, b.until} \ {None}
    IN  IF ends = {} THEN 0 ELSE Greater(0, Greater(a.start, b.start) - Min(ends))

score_temporal(a, b) ==
    IF None \in {a.start, b.start} THEN 0
    ELSE Greater(0, Whole - (Apart(a, b) * Whole) \div ReopenWindow[a.class])

RELATED_NOT_SAME ==
    {{"weather", "road_surface"}, {"incident", "closure"}, {"incident", "congestion"},
     {"work_zone", "closure"}}

score_class(a, b) ==
    CASE a.class = b.class -> Whole
      [] {a.class, b.class} \in RELATED_NOT_SAME -> 1500
      [] OTHER -> 0

score_direction(a, b) ==
    LET ways == {a.direction, b.direction}
    IN  CASE Cardinality(ways) = 1 -> Whole
          [] Cardinality(ways) # 1 /\ "UNKNOWN" \in ways -> 6000
          [] Cardinality(ways) # 1 /\ "UNKNOWN" \notin ways /\ "BOTH" \in ways -> 8000
          [] OTHER -> 0

score_independence(a, b) == IF GroupOf[a.source] = GroupOf[b.source] THEN 3000 ELSE Whole

\* Four of the five are necessary: what fails one is capped below the review band,
\* whatever the others add up to.
score_match(a, b) ==
    LET spatial   == score_spatial(a, b)
        temporal  == score_temporal(a, b)
        direction == score_direction(a, b)
        weighted  == (40 * spatial + 25 * temporal + 20 * score_class(a, b)
                      + 10 * direction + 5 * score_independence(a, b)) \div 100
        gated     == spatial > 0 /\ temporal > 0 /\ a.class = b.class /\ direction > 0
    IN  IF gated THEN weighted ELSE Lesser(weighted, REVIEW_THRESHOLD - 100)

decision(a, b) ==
    LET value == score_match(a, b)
    IN  CASE value >= MERGE_THRESHOLD -> "merge"
          [] REVIEW_THRESHOLD <= value /\ value < MERGE_THRESHOLD -> "review"
          [] OTHER -> "distinct"

(***************************************************************************)
(* Clusters: every pair is scored once, in two loops, and a merge joins    *)
(* what the two were already joined to.                                    *)
(***************************************************************************)

\* The pairs the matcher decides `as`.
Pairs(reports, as) ==
    {p \in (DOMAIN reports) \X (DOMAIN reports) :
        p[1] < p[2] /\ decision(reports[p[1]], reports[p[2]]) = as}

\* Path halving only shortens the way to the root, and is left out.
Roots(parent) ==
    LET up[j \in DOMAIN parent] == IF parent[j] = j THEN j ELSE up[parent[j]] IN up

find(parent, i) == Roots(parent)[i]

\* The second report itself is moved, and what had joined it stays behind.
UnionOfTheOne(parent, i, j) == [parent EXCEPT ![j] = find(parent, i)]

union(parent, i, j) == [parent EXCEPT ![find(parent, j)] = find(parent, i)]

Visited(reports, parent, i, j) ==
    IF <<i, j>> \in Pairs(reports, "merge") THEN union(parent, i, j) ELSE parent

\* The inner loop, j by j, and the outer one, i by i.
Across(reports, parent, i) ==
    LET after[j \in 0..Len(reports)] ==
            IF j = 0 THEN parent ELSE Visited(reports, after[j - 1], i, j)
    IN  after

Down(reports) ==
    LET after[i \in 0..Len(reports)] ==
            IF i = 0 THEN [k \in DOMAIN reports |-> k]
            ELSE Across(reports, after[i - 1], i)[Len(reports)]
    IN  after

cluster_candidates(reports) ==
    LET root == Roots(Down(reports)[Len(reports)])
    IN  {[members |-> {i \in DOMAIN reports : root[i] = r},
          joins   |-> {p \in Pairs(reports, "merge") : root[p[1]] = r},
          reviews |-> {p \in Pairs(reports, "review") : r \in {root[p[1]], root[p[2]]}}] :
            r \in {root[i] : i \in DOMAIN reports}}
================================================================================
