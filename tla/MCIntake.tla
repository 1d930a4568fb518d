-------------------------------- MODULE MCIntake --------------------------------
(***************************************************************************)
(* Two states, five miles each way; one resurveyed corridor; a few records *)
(* per source, one for each way a record can end and the pairs in one      *)
(* payload that could touch each other.                                    *)
(***************************************************************************)
EXTENDS Intake

Segment(state, lo, hi, offset) == [state |-> state, lo |-> lo, hi |-> hi, offset |-> offset]

\* The offline file is not calibrated; the resurvey makes Arizona two miles longer.
MCCorridors ==
    << [segments |-> <<Segment("AZ", 0, 4, 0), Segment("NM", 0, 4, 4)>>,
        xs |-> <<0, 10>>, ys |-> <<>>, buffer |-> 1],
       [segments |-> <<Segment("AZ", 0, 4, 0), Segment("NM", 0, 4, 4)>>,
        xs |-> <<0, 6, 10>>, ys |-> <<0, 4, 8>>, buffer |-> 1],
       [segments |-> <<Segment("AZ", 0, 6, 0), Segment("NM", 0, 4, 6)>>,
        xs |-> <<0, 6, 10>>, ys |-> <<0, 6, 10>>, buffer |-> 1] >>

At(along, off) == [kind |-> "coordinate", at |-> [along |-> along, off |-> off]]
Line(points) == [kind |-> "linestring", points |-> points]
Point(along, off) == [along |-> along, off |-> off]
Covering(covers) == [kind |-> "polygon", usable |-> TRUE, covers |-> covers]
Broken == [kind |-> "polygon", usable |-> FALSE, covers |-> {}]
Post(begin, end) == [kind |-> "milepost", state |-> "NM", begin |-> begin, end |-> end]

Payload(source, records) ==
    [source |-> source, shape |-> "payload", drifted |-> FALSE, records |-> records]

Alert(kind, place, severity) ==
    [alert |-> kind, place |-> place, severity |-> severity, ends |-> None, expires |-> 1]
Nws == {
    Payload("nws", <<Alert("winter storm", Covering(4..6), "odd"), Alert("wind", None, "Severe")>>),
    Payload("nws", <<Alert("wind", Covering({3}), "Severe"), Alert("wind", Broken, "Severe")>>),
    Payload("nws", <<Alert("rip current", None, "Severe")>>)}

End(day, millis) == [day |-> day, minute |-> 7, millis |-> millis, readable |-> TRUE]
Ok1 == [here |-> TRUE, direction |-> "eastbound", suffix |-> "W", lanes |-> <<"unmapped", "open">>,
        start |-> 2, end |-> End(4, TRUE), place |-> Line(<<Point(2, 0), Point(9, 5)>>)]
Ok == {
    Payload("ok", <<Ok1, [Ok1 EXCEPT !.suffix = "none", !.place = Line(<<Point(2, 5)>>)],
                    [Ok1 EXCEPT !.here = FALSE, !.end = End(9, TRUE)]>>),
    [Payload("ok", <<[Ok1 EXCEPT !.end = End(1, FALSE), !.place = Line(<<>>)],
                     [Ok1 EXCEPT !.lanes = <<>>, !.suffix = "E"]>>) EXCEPT !.drifted = TRUE]}

Tx1 == [here |-> TRUE, direction |-> "undefined", impact |-> "flagging", structured |-> TRUE,
        place |-> Line(<<Point(1, 0), Point(3, 0)>>)]
Tx == {
    Payload("tx", <<Tx1, [Tx1 EXCEPT !.place = Line(<<Point(1, 9)>>)],
                    [Tx1 EXCEPT !.direction = "none", !.impact = "some-lanes-closed"]>>),
    [Payload("tx", <<>>) EXCEPT !.shape = "not json"]}

Az1 == [here |-> TRUE, type |-> "roadwork", place |-> At(3, 1), direction |-> "none",
        named |-> "eb", prose |-> [says |-> "right closed", count |-> 2], total |-> 3,
        full |-> FALSE, polyline |-> TRUE, badStart |-> FALSE, badEnd |-> FALSE,
        restricted |-> TRUE]
Az == {
    Payload("az", <<Az1, [Az1 EXCEPT !.type = "new"], [Az1 EXCEPT !.total = None]>>),
    Payload("az", <<[Az1 EXCEPT !.place = None], [Az1 EXCEPT !.place = At(3, 2)],
                    [Az1 EXCEPT !.here = FALSE]>>)}

Nm1 == [upstream |-> "NMDOT", here |-> TRUE, type |-> "9 roadwork", place |-> At(8, 0),
        mileposts |-> Post(1, 2), words |-> {"eastbound", "northbound"}, phrase |-> "right",
        starts |-> TRUE, ends |-> FALSE, badUpdated |-> FALSE]
Nm == {
    Payload("nm", <<Nm1, [Nm1 EXCEPT !.mileposts = Post(9, NoMeasure), !.words = {}]>>),
    Payload("nm", <<[Nm1 EXCEPT !.mileposts = Post(2, 9), !.place = At(8, 3)],
                    [Nm1 EXCEPT !.type = "none"], [Nm1 EXCEPT !.upstream = "not an object"]>>),
    Payload("nm", <<[Nm1 EXCEPT !.upstream = "COtrip"], [Nm1 EXCEPT !.place = None],
                    [Nm1 EXCEPT !.mileposts = None]>>)}

Tile == [layer |-> "traffic_flow", kind |-> "slow", mainline |-> TRUE, segment |-> 1,
         place |-> Line(<<Point(4, 0), Point(5, 0)>>), badTimes |-> FALSE]
Tiles == {
    Payload("tiles", <<[Tile EXCEPT !.place = None], Tile, [Tile EXCEPT !.kind = "free"]>>),
    Payload("tiles", <<Tile, [Tile EXCEPT !.segment = None, !.place = Line(<<Point(4, 7)>>)],
                       [Tile EXCEPT !.layer = "traffic_incidents", !.kind = "accident"]>>),
    Payload("tiles", <<[Tile EXCEPT !.kind = "free"], [Tile EXCEPT !.place = Line(<<Point(4, 7)>>)]>>),
    Payload("tiles", <<[Tile EXCEPT !.layer = "corrupt"], [Tile EXCEPT !.layer = "new"],
                       [Tile EXCEPT !.kind = "new"]>>)}

\* What is not of its source's shape, at the root, in a record or in a position.
Odd == {
    [Payload("nws", <<>>) EXCEPT !.shape = "other json"],
    [Payload("nm", <<>>) EXCEPT !.shape = "other json"],
    Payload("nws", <<Alert("wind", Covering({3}), "Severe"), None>>),
    Payload("ok", <<Ok1, None>>),
    Payload("ok", <<[Ok1 EXCEPT !.place = Line(<<Point(2, 0), None>>)]>>),
    Payload("tx", <<Tx1, [Tx1 EXCEPT !.place = [kind |-> "coordinate", at |-> None]]>>)}

MCPayloads == Odd \cup Nws \cup Ok \cup Tx \cup Az \cup Nm \cup Tiles
================================================================================
