------------------------------ MODULE EventStore ------------------------------
(***************************************************************************)
(* The event table of core/eventstore.py.  An event's partition holds one  *)
(* `v#n` item per version, one `audit#n` item per version and the          *)
(* `current` item; source-record pointers and the review queue have        *)
(* partitions of their own.  Each operation below is one call that         *)
(* DynamoDB applies atomically.                                            *)
(***************************************************************************)
EXTENDS CanonicalEvent

VARIABLES
    versions,  \* EventIds -> 1..MaxVersion -> the v#n item, or None
    audit,     \* EventIds -> 1..MaxVersion -> the audit#n item, or None
    current,   \* EventIds -> the `current` item, or None
    pointers,  \* Records -> the record's pointer, or None
    reviews    \* the review partition: pairs of event ids

storeVars == <<versions, audit, current, pointers, reviews>>

StoreTypeOK ==
    /\ versions \in [EventIds -> [1..MaxVersion -> Event \cup {None}]]
    /\ audit \in [EventIds -> [1..MaxVersion -> AuditRecord \cup {None}]]
    /\ current \in [EventIds -> Event \cup {None}]
    /\ pointers \in [Records -> Pointer \cup {None}]
    /\ reviews \subseteq EventIds \X EventIds

StoreInit ==
    /\ versions = [e \in EventIds |-> [n \in 1..MaxVersion |-> None]]
    /\ audit = [e \in EventIds |-> [n \in 1..MaxVersion |-> None]]
    /\ current = [e \in EventIds |-> None]
    /\ pointers = [r \in Records |-> None]
    /\ reviews = {}

\* Every put unconditional: the last writer wins.
AdmitsAnything(s) == TRUE

\* The condition expressions of one step's transaction: neither the version nor the
\* audit item may exist; `current` must be absent when the event is being created and
\* must otherwise still hold the version this step was decided against.
Admits(s) ==
    /\ versions[s.id][s.event.version] = None
    /\ audit[s.id][s.audit.sequence] = None
    /\ IF s.creating
       THEN current[s.id] = None
       ELSE current[s.id] # None /\ current[s.id].version = s.event.version - 1

\* One iteration of write_change's loop, when the transaction commits.
Transact(s) ==
    /\ Admits(s)
    /\ versions' = [versions EXCEPT ![s.id][s.event.version] = s.event]
    /\ audit' = [audit EXCEPT ![s.id][s.audit.sequence] = s.audit]
    /\ current' = [current EXCEPT ![s.id] = s.event]
    /\ UNCHANGED <<pointers, reviews>>

PutPointer(record, id, hash) ==
    /\ pointers' = [pointers EXCEPT ![record] = [id |-> id, hash |-> hash]]
    /\ UNCHANGED <<versions, audit, current, reviews>>

\* One iteration of queue_reviews' loop.
PutReview(id, other) ==
    /\ reviews' = reviews \cup {<<id, other>>}
    /\ UNCHANGED <<versions, audit, current, pointers>>

(***************************************************************************)
(* What the table promises to every reader.                                *)
(***************************************************************************)

\* The versions an event has: 1 up to what `current` holds.
Height(e) == IF current[e] = None THEN 0 ELSE current[e].version

\* An audit trail with holes is not an audit trail: an event's versions and its audit
\* records are numbered 1, 2, ... without a gap, each audit record explains the version
\* of its own number, and `current` is the last of them, whatever writers raced.
HistoryHasNoHoles ==
    \A e \in EventIds :
        /\ \A n \in 1..MaxVersion :
              /\ (versions[e][n] # None) <=> (n <= Height(e))
              /\ (audit[e][n] # None) <=> (n <= Height(e))
              /\ n <= Height(e) => /\ versions[e][n].version = n
                                   /\ audit[e][n].sequence = n
                                   /\ audit[e][n].to = versions[e][n].state
        /\ current[e] # None => current[e] = versions[e][Height(e)]

\* Nothing overwrites or removes a version or an audit record once it is stored, and
\* `current` never moves back to an earlier version.
AppendOnly ==
    [][\A e \in EventIds :
          /\ \A n \in 1..MaxVersion :
                /\ versions[e][n] # None => versions'[e][n] = versions[e][n]
                /\ audit[e][n] # None => audit'[e][n] = audit[e][n]
          /\ Height(e) <= Height(e)']_storeVars
================================================================================
