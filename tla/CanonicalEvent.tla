---------------------------- MODULE CanonicalEvent ----------------------------
(***************************************************************************)
(* The canonical types of core/types.py as far as the store and the        *)
(* resolution policy tell their values apart.  A candidate is one report   *)
(* of one source record.  An event is one version of a corridor event: its *)
(* lifecycle state, which source records it rests on and how recent each   *)
(* one's word is, and the events it is related to by a merge.              *)
(***************************************************************************)
EXTENDS Lifecycle, Sequences

CONSTANTS
    EventIds,    \* the identifiers core/ids.py can mint
    Records,     \* source records: a (source_id, native_id) pair each
    SourceOf,    \* Records -> the source that publishes the record
    Candidates,  \* candidate payloads; two with one content hash are one candidate
    RecordOf,    \* Candidates -> the record the payload is a report of
    StampOf,     \* Candidates -> its source_updated_at, or Undated
    MaxVersion,  \* bound: versions an event may reach
    None         \* no item, no candidate, no pointer

NotHeld == 0     \* the event does not rest on this record
Undated == 1     \* it does, and the source gave no update time
Dated(stamp) == stamp > Undated

Event == [version : 1..MaxVersion, state : LifecycleStates,
          sources : [Records -> Nat], related : SUBSET EventIds]

\* One audit record. `sequence` is the version it explains.
AuditRecord == [sequence : 1..MaxVersion, from : LifecycleStates \cup {"none"},
                to : LifecycleStates, trigger : Triggers]

\* A version with its audit record, addressed to one event id (Step and EventChange).
Step == [id : EventIds, event : Event, audit : AuditRecord, creating : BOOLEAN]

\* What the store knows of one source record (SourcePointer).
Pointer == [id : EventIds, hash : Candidates]

ASSUME TypesAssumption ==
    /\ SourceOf \in [Records -> {SourceOf[r] : r \in Records}]
    /\ RecordOf \in [Candidates -> Records]
    /\ StampOf \in [Candidates -> Nat \ {NotHeld}]
    /\ MaxVersion \in Nat /\ MaxVersion >= 3

ASSUME NoneAssumption ==
    None \notin EventIds /\ None \notin Candidates /\ None \notin Event
    /\ None \notin AuditRecord /\ None \notin Pointer
================================================================================
