------------------------------- MODULE Migrations -------------------------------
(***************************************************************************)
(* The schema migration runner: handlers/db_migrate.py and the planning    *)
(* rules of core/migrations.py.  A run creates the tracking table, reads   *)
(* what has been applied, plans, takes a session advisory lock, and        *)
(* applies each pending file in a transaction that also records it.        *)
(*                                                                         *)
(* A runner is one deployment of the code with the files it was bundled    *)
(* with; runs of different runners may overlap unless the platform caps    *)
(* them.  A transaction's statements are invisible until it commits.       *)
(***************************************************************************)
EXTENDS Naturals, Sequences, SequencesExt

CONSTANTS
    Files,      \* file names, in the order of their version numbers: a sequence
    Repeatable, \* the files that declare `migration: repeatable`
    Runners,
    Bundle,     \* Runners -> file -> the checksum of the runner's copy
    Capped,     \* whether the platform runs one at a time
    MaxRuns,    \* bound: runs in all
    None        \* never applied; nobody

FileNames == {Files[i] : i \in DOMAIN Files}
Checksums == {Bundle[r][f] : r \in Runners, f \in FileNames}

\* The names are those of one directory's files, and each has a number of its own.
ASSUME MigrationsAssumption ==
    /\ Files \in Seq(FileNames)
    /\ \A i, j \in DOMAIN Files : Files[i] = Files[j] => i = j
    /\ Repeatable \subseteq FileNames
    /\ \A r \in Runners : DOMAIN Bundle[r] = FileNames
    /\ Capped \in BOOLEAN /\ MaxRuns \in Nat
    /\ None \notin Runners /\ None \notin Checksums

VARIABLES
    recorded,  \* schema_migration: file -> checksum, or None
    applied,   \* file -> the contents committed to the schema, in order
    lock,      \* who holds the advisory lock, or None
    pc,        \* Runners -> where its run is
    pending,   \* Runners -> the files of its plan still to apply: a set
    runs       \* runs left

vars == <<recorded, applied, lock, pc, pending, runs>>

PCs == {"idle", "planning", "locking", "applying", "recording"}

TypeOK ==
    /\ recorded \in [FileNames -> Checksums \cup {None}]
    /\ applied \in [FileNames -> Seq(Checksums)]
    /\ lock \in Runners \cup {None}
    /\ pc \in [Runners -> PCs]
    /\ pending \in [Runners -> SUBSET FileNames]
    /\ \A r \in Runners : pc[r] \in {"applying", "recording"} <=> lock = r
    /\ runs \in 0..MaxRuns

Init ==
    /\ recorded = [f \in FileNames |-> None]
    /\ applied = [f \in FileNames |-> <<>>]
    /\ lock = None
    /\ pc = [r \in Runners |-> "idle"]
    /\ pending = [r \in Runners |-> {}]
    /\ runs = MaxRuns

(***************************************************************************)
(* Planning                                                                *)
(***************************************************************************)

New(f) == recorded[f] = None
Changed(r, f) == recorded[f] # None /\ recorded[f] # Bundle[r][f]

\* Edited after it was applied, and not allowed to be.
NothingDrifts(r, f) == FALSE
Drifted(r, f) == Changed(r, f) /\ f \notin Repeatable

PlanNewOnly(r) == {f \in FileNames : New(f)}

PlanPending(r) == {f \in FileNames : New(f) \/ (Changed(r, f) /\ ~Drifted(r, f))}

\* The files of a plan are applied in the order of their numbers.
IsNext(f, plan) ==
    /\ f \in plan
    /\ \A i, j \in DOMAIN Files : Files[i] = f /\ Files[j] \in plan => i <= j

(***************************************************************************)
(* A run                                                                   *)
(***************************************************************************)

Goto(r, where) == pc' = [pc EXCEPT ![r] = where]

\* Connect, set the timeouts, create the tracking table.
Start(r) ==
    /\ pc[r] = "idle"
    /\ Capped => \A other \in Runners : pc[other] = "idle"
    /\ runs > 0
    /\ runs' = runs - 1
    /\ Goto(r, "planning")
    /\ UNCHANGED <<recorded, applied, lock, pending>>

\* Read what is applied and plan. A dry run stops here, and so does any drift.
ReadAndPlan(r) ==
    /\ pc[r] = "planning"
    /\ \/ /\ \A f \in FileNames : ~Drifted(r, f)
          /\ pending' = [pending EXCEPT ![r] = PlanPending(r)]
          /\ Goto(r, "locking")
       \/ /\ Goto(r, "idle")
          /\ UNCHANGED pending
    /\ UNCHANGED <<recorded, applied, lock, runs>>

\* pg_try_advisory_lock fails fast.
AcquireLock(r) ==
    /\ pc[r] = "locking"
    /\ IF lock = None
       THEN lock' = r /\ Goto(r, "applying") /\ UNCHANGED pending
       ELSE /\ Goto(r, "idle")
            /\ pending' = [pending EXCEPT ![r] = {}]
            /\ UNCHANGED lock
    /\ UNCHANGED <<recorded, applied, runs>>

Apply(r, f) == applied' = [applied EXCEPT ![f] = Append(@, Bundle[r][f])]

\* Statement by statement, each in a transaction of its own.
ExecuteAutocommitting(r) ==
    /\ pc[r] = "applying"
    /\ \E f \in pending[r] : IsNext(f, pending[r]) /\ Apply(r, f)
    /\ Goto(r, "recording")
    /\ UNCHANGED <<recorded, lock, pending, runs>>

\* The file's statements run, inside the transaction.
ExecuteStatements(r) ==
    /\ pc[r] = "applying" /\ pending[r] # {}
    /\ Goto(r, "recording")
    /\ UNCHANGED <<recorded, applied, lock, pending, runs>>

\* The record is written inside the same transaction, which commits.
RecordAndCommit(r) ==
    /\ pc[r] = "recording"
    /\ \E f \in pending[r] :
           /\ IsNext(f, pending[r])
           /\ Apply(r, f)
           /\ recorded' = [recorded EXCEPT ![f] = Bundle[r][f]]
           /\ pending' = [pending EXCEPT ![r] = @ \ {f}]
    /\ Goto(r, "applying")
    /\ UNCHANGED <<lock, runs>>

ReleaseLock(r) ==
    /\ pc[r] = "applying" /\ pending[r] = {}
    /\ lock' = None
    /\ Goto(r, "idle")
    /\ UNCHANGED <<recorded, applied, pending, runs>>

\* The lock outlives the run that failed.
FailHoldingLock(r) ==
    /\ pc[r] # "idle"
    /\ pending' = [pending EXCEPT ![r] = {}]
    /\ Goto(r, "idle")
    /\ UNCHANGED <<recorded, applied, lock, runs>>

\* A statement fails, or the process dies: the transaction is rolled back, the connection
\* closes, and the lock goes with it.
Fail(r) ==
    /\ pc[r] # "idle"
    /\ lock' = IF lock = r THEN None ELSE lock
    /\ pending' = [pending EXCEPT ![r] = {}]
    /\ Goto(r, "idle")
    /\ UNCHANGED <<recorded, applied, runs>>

Next ==
    \E r \in Runners :
        \/ Start(r) \/ ReadAndPlan(r) \/ AcquireLock(r)
        \/ ExecuteStatements(r) \/ RecordAndCommit(r) \/ ReleaseLock(r) \/ Fail(r)

Spec == Init /\ [][Next]_vars

(***************************************************************************)
(* Properties                                                              *)
(***************************************************************************)

\* There is no window where the schema changed and nothing knows: a file is recorded
\* exactly when it has been applied, with the checksum that was applied last, wherever a
\* run failed.
RecordMatchesSchema ==
    \A f \in FileNames :
        recorded[f] = IF applied[f] = <<>> THEN None ELSE Last(applied[f])

\* A run-once file is applied once, however often and by whomever it is run, and whatever
\* became of its text.
RunOnceIsAppliedOnce == \A f \in FileNames \ Repeatable : Len(applied[f]) <= 1

\* A run that succeeds leaves the schema at its own files: everything it was bundled with
\* is applied, in the text it was bundled with.
CompleteMeansApplied ==
    [][\A r \in Runners :
          pc[r] = "applying" /\ pc'[r] = "idle" /\ pending[r] = {}
             => \A f \in FileNames : recorded[f] = Bundle[r][f]]_vars
================================================================================
