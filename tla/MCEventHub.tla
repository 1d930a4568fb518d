------------------------------ MODULE MCEventHub ------------------------------
(***************************************************************************)
(* Small instances of EventHub for TLC.                                    *)
(*                                                                         *)
(* Feed: source A publishes two reports of one record, dated 3 and 2, so   *)
(* that the older may arrive last; source B publishes an undated report of *)
(* a record of its own.                                                    *)
(*                                                                         *)
(* Twins: source A publishes two records, so that both may be matched to   *)
(* one event of source B, and reports the first of them twice.             *)
(***************************************************************************)
EXTENDS EventHub, TLC

CONSTANTS a1, a2, b1, newer, older, other, twin

FeedRecords == {a1, b1}
FeedSourceOf == (a1 :> "A") @@ (b1 :> "B")
FeedRecordOf == (newer :> a1) @@ (older :> a1) @@ (other :> b1)
FeedStampOf == (newer :> 3) @@ (older :> 2) @@ (other :> Undated)

TwinRecords == {a1, a2, b1}
TwinSourceOf == (a1 :> "A") @@ (a2 :> "A") @@ (b1 :> "B")
TwinRecordOf == FeedRecordOf @@ (twin :> a2)
TwinStampOf == FeedStampOf @@ (twin :> 2)

\* Event ids and workers are interchangeable in every safety property.
MCSymmetry == Permutations(EventIds) \cup Permutations(Workers)
================================================================================
