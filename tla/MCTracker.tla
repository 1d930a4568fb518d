------------------------------- MODULE MCTracker -------------------------------
(***************************************************************************)
(* Two events, histories with a confirmation and with an illegal edge, and *)
(* tables with nothing or up to two items gone.                            *)
(***************************************************************************)
EXTENDS Tracker

Kind(to, trigger) ==
    [to |-> to, trigger |-> trigger, actor |-> "pipeline", operator |-> FALSE, said |-> "a"]
MCStepKinds ==
    {Kind("reported", "source_update"), Kind("active", "source_update"),
     Kind("validated", "validation_pass"), Kind("clearing", "timer_ttl")}

Raw(kind, n) == kind @@ [raw |-> n]
Living ==
    <<Raw(Kind("reported", "source_update"), 1), Raw(Kind("validated", "validation_pass"), 1),
      Raw(Kind("active", "source_update"), 3)>>
Illegal == <<Raw(Kind("reported", "source_update"), 1), Raw(Kind("active", "source_update"), 2),
             Raw(Kind("active", "source_update"), 3)>>

Start(history, other, gone, write, ask) ==
    [steps |-> 1 :> history @@ 2 :> other, missing |-> gone, writes |-> write,
     requests |-> ask]

List == <<ListKey, FALSE>>
Trace1 == <<1, FALSE>>
Trace1Again == <<1, TRUE>>
Trace2 == <<2, FALSE>>

Items == {<<1, item, n>> : item \in {"version", "audit"}, n \in 1..3}

\* At rest, with up to two items gone; whole, with the hub writing under two readers; and
\* with more records traced than the cache holds.
MCStarts ==
    {Start(history, <<>>, gone, 0, <<Trace1>>) :
        history \in {Living, Illegal}, gone \in {m \in SUBSET Items : Cardinality(m) <= 2}}
    \cup {Start(Living, Living, {}, 1, asked) :
            asked \in {<<Trace1, Trace1>>, <<Trace1, Trace1Again>>, <<List, List>>}}
    \cup {Start(<<>>, Living, {}, 1, <<Trace1, List>>),
          Start(Living, Living, {}, 2, <<List>>),
          Start(Living, Living, {}, 0, <<Trace1, Trace2, Trace1>>)}

MCWanted == <<"active", "clearing">>
MCGroupOf == [s \in {"feed"} |-> s]
================================================================================
