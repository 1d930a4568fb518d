-------------------------------- MODULE MCAnswers --------------------------------
(***************************************************************************)
(* Three events on a corridor of twenty units, with and without measures:  *)
(* one that starts behind the vehicle, one of two sources with one licence *)
(* and as long as the index looks back, one that comes with a line of one  *)
(* point.  Snapshots of up to four reports of a pool in which a middle     *)
(* report links two that do not match.                                     *)
(***************************************************************************)
EXTENDS Answers

MCCorridor == [segments |-> <<[state |-> "TX", lo |-> 0, hi |-> 12, offset |-> 0],
                              [state |-> "OK", lo |-> 0, hi |-> 8, offset |-> 12]>>,
               xs |-> <<0, 5, 12, 20>>, ys |-> <<0, 6, 12, 20>>, buffer |-> 1]

MCCorridors == {MCCorridor, [MCCorridor EXCEPT !.ys = <<>>]}

MCGroupOf == [s \in {"tx", "ok", "az", "mirror"} |-> IF s = "mirror" THEN "tx" ELSE s]
MCReliability == [s \in {"tx", "ok", "az"} |-> IF s = "az" THEN 9000 ELSE 8000]
MCRedistributable == [s \in {"tx", "ok", "here"} |-> s # "here"]
MCReopenWindow == [c \in {"work_zone", "incident", "closure"} |-> IF c = "work_zone" THEN 168 ELSE 1]
MCHalfLife == [c \in {"work_zone", "incident", "closure"} |-> IF c = "work_zone" THEN 24 ELSE 1]

Closed(ordinal, type) == [ordinal |-> ordinal, type |-> type, status |-> "closed", inferred |-> FALSE]

Zone == [id |-> "z1", class |-> "work_zone", state |-> "none", begin |-> 2, end |-> 7,
         direction |-> "EB", start |-> 1, until |-> 9, geometry |-> None, sources |-> <<"tx">>,
         lanes |-> {Closed(1, "general")}, states |-> {"TX"}, confidence |-> 60]

MCEventOf ==
    [id \in {"z1", "z2", "z3"} |->
        CASE id = "z1" -> Zone
          [] id = "z2" -> [Zone EXCEPT !.id = id, !.begin = 6, !.end = 12, !.direction = "BOTH",
                                       !.sources = <<"ok", "az">>, !.confidence = 90,
                                       !.geometry = [type |-> "Point", points |-> <<6>>]]
          [] id = "z3" -> [Zone EXCEPT !.id = id, !.begin = 18, !.end = 19, !.direction = "WB",
                                       !.sources = <<"ok">>,
                                       !.geometry = [type |-> "LineString", points |-> <<18>>],
                                       !.states = {"TX", "OK"}]]

AheadQ(position, direction, distance) ==
    [kind |-> "ahead", position |-> position, point |-> None, direction |-> direction,
     heading |-> None, distance |-> distance, confidence |-> None]
ListQ(begin, end, bbox) ==
    [kind |-> "list", begin |-> begin, end |-> end, bbox |-> bbox, limit |-> None,
     lifecycle |-> <<>>, classes |-> {}, states |-> {}, confidence |-> None, from |-> None, until |-> None]

MCRequests ==
    {AheadQ(5, "EB", 3), AheadQ(12, "WB", 7), AheadQ(6, "EB", -1),
     [AheadQ(None, None, None) EXCEPT !.point = [along |-> 5, off |-> 0], !.heading = 270,
                                      !.confidence = 70],
     ListQ(9, None, {5, 12}), ListQ(None, 3, {}),
     [ListQ(None, None, None) EXCEPT !.classes = {"work_zone"}, !.from = 5],
     [ListQ(None, None, None) EXCEPT !.limit = 0],
     [ListQ(5, 15, None) EXCEPT !.limit = 3, !.lifecycle = <<"validated", "active">>],
     [kind |-> "wzdx"]}

Report == [source |-> "tx", said |-> 8, fetched |-> 10, class |-> "incident", begin |-> 100,
           end |-> 100, direction |-> "EB", start |-> 5, until |-> 8, lanes |-> {},
           subtype |-> "crash", method |-> "coordinate", accuracy |-> 50, duration |-> None]

Pool ==
    {Report,
     [Report EXCEPT !.source = "mirror", !.end = 130, !.said = None, !.direction = "UNKNOWN"],
     [Report EXCEPT !.source = "az", !.begin = 125, !.end = 130, !.start = 8, !.until = None],
     [Report EXCEPT !.source = "ok", !.begin = 104, !.end = 104, !.direction = "WB"],
     [Report EXCEPT !.source = "mirror", !.begin = 103, !.end = 103, !.start = 7, !.said = 3],
     [Report EXCEPT !.class = "closure", !.lanes = {Closed(1, "general")}]}

\* The bound on where the events are when the first request comes.
MCInit ==
    /\ Init
    /\ \A id \in EventIds :
           state[id] \in {"none", "active"} \cup IF id = "z3" THEN {} ELSE {"validated"}

MCSpec == MCInit /\ [][Next]_vars

MCSnapshots == UNION {[1..n -> Pool] : n \in 1..4}
==================================================================================
