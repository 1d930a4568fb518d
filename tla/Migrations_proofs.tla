----------------------------- MODULE Migrations_proofs -----------------------------
(***************************************************************************)
(* What holds of the migration runner for any files, any number of         *)
(* runners and any texts: the record matches the schema, always; and where *)
(* the platform runs one at a time, a run-once file is applied once and a  *)
(* run that succeeds leaves everything applied.                            *)
(*                                                                         *)
(* The cap matters because a run plans before it takes the lock: the two   *)
(* properties rest on a plan that is still true when it is carried out     *)
(* (PlanIsCurrent), which another runner's commit would break.             *)
(***************************************************************************)
EXTENDS Migrations, TLAPS

\* A run that is about to record has a file to record.
RecordingHasAFile == \A r \in Runners : pc[r] = "recording" => pending[r] # {}

IInv == TypeOK /\ RecordingHasAFile /\ RecordMatchesSchema

Busy(r) == pc[r] # "idle"

OneAtATime == \A r, other \in Runners : Busy(r) /\ Busy(other) => r = other

\* What is left of a run's plan is what still has to be done, and nothing that must not be.
PlanIsCurrent ==
    \A r \in Runners :
        pc[r] \in {"locking", "applying", "recording"} =>
            /\ \A f \in pending[r] \ Repeatable : recorded[f] = None
            /\ \A f \in FileNames \ pending[r] : recorded[f] = Bundle[r][f]

CappedInv == IInv /\ OneAtATime /\ PlanIsCurrent /\ RunOnceIsAppliedOnce

-----------------------------------------------------------------------------------

LEMMA ChecksumType ==
    ASSUME NEW r \in Runners, NEW f \in FileNames
    PROVE  Bundle[r][f] \in Checksums
BY DEF Checksums

\* What a commit makes of a file's history.
LEMMA AppendedIsLast ==
    ASSUME NEW S, NEW s \in Seq(S), NEW c \in S
    PROVE  /\ Append(s, c) \in Seq(S)
           /\ Append(s, c) # <<>>
           /\ Last(Append(s, c)) = c
           /\ Len(Append(s, c)) = Len(s) + 1
BY DEF Last

LEMMA LastType ==
    ASSUME NEW S, NEW s \in Seq(S), s # <<>>
    PROVE  Last(s) \in S
BY DEF Last

LEMMA InitIInv == Init => IInv
<1> SUFFICES ASSUME Init PROVE IInv
    OBVIOUS
<1> USE MigrationsAssumption DEF Init
<1>1. TypeOK
    BY DEF TypeOK, PCs
<1>2. RecordingHasAFile
    BY DEF RecordingHasAFile
<1>3. RecordMatchesSchema
    BY DEF RecordMatchesSchema
<1> QED BY <1>1, <1>2, <1>3 DEF IInv

LEMMA NextIInv == IInv /\ [Next]_vars => IInv'
<1> SUFFICES ASSUME IInv, [Next]_vars PROVE IInv'
    OBVIOUS
<1> USE MigrationsAssumption
<1>t. TypeOK /\ RecordingHasAFile /\ RecordMatchesSchema
    BY DEF IInv
<1>1. CASE UNCHANGED vars
    BY <1>1, <1>t DEF vars, IInv, TypeOK, RecordingHasAFile, RecordMatchesSchema
<1>2. ASSUME NEW r \in Runners, Start(r) PROVE IInv'
    BY <1>2, <1>t DEF Start, Goto, IInv, TypeOK, PCs, RecordingHasAFile, RecordMatchesSchema
<1>3. ASSUME NEW r \in Runners, ReadAndPlan(r) PROVE IInv'
    <2>1. PlanPending(r) \subseteq FileNames
        BY DEF PlanPending
    <2>2. TypeOK'
        <3>1. pc' \in [Runners -> PCs] /\ pending' \in [Runners -> SUBSET FileNames]
            <4>1. pc' \in [Runners -> PCs]
                BY <1>3, <1>t DEF ReadAndPlan, Goto, TypeOK, PCs
            <4>2. \/ pending' = [pending EXCEPT ![r] = PlanPending(r)]
                  \/ pending' = pending
                BY <1>3 DEF ReadAndPlan
            <4>3. pending' \in [Runners -> SUBSET FileNames]
                BY <1>t, <2>1, <4>2 DEF TypeOK
            <4> QED BY <4>1, <4>3
        <3>2. \A s \in Runners : pc'[s] \in {"applying", "recording"} <=> lock' = s
            BY <1>3, <1>t DEF ReadAndPlan, Goto, TypeOK
        <3> QED BY <1>3, <1>t, <3>1, <3>2 DEF ReadAndPlan, TypeOK
    <2>3. RecordingHasAFile'
        BY <1>3, <1>t DEF ReadAndPlan, Goto, TypeOK, RecordingHasAFile
    <2>4. RecordMatchesSchema'
        BY <1>3, <1>t DEF ReadAndPlan, RecordMatchesSchema
    <2> QED BY <2>2, <2>3, <2>4 DEF IInv
<1>4. ASSUME NEW r \in Runners, AcquireLock(r) PROVE IInv'
    BY <1>4, <1>t DEF AcquireLock, Goto, IInv, TypeOK, PCs, RecordingHasAFile, RecordMatchesSchema
<1>5. ASSUME NEW r \in Runners, ExecuteStatements(r) PROVE IInv'
    BY <1>5, <1>t
       DEF ExecuteStatements, Goto, IInv, TypeOK, PCs, RecordingHasAFile, RecordMatchesSchema
<1>6. ASSUME NEW r \in Runners, RecordAndCommit(r) PROVE IInv'
    <2>1. PICK f \in pending[r] :
              /\ Apply(r, f)
              /\ recorded' = [recorded EXCEPT ![f] = Bundle[r][f]]
              /\ pending' = [pending EXCEPT ![r] = @ \ {f}]
        BY <1>6 DEF RecordAndCommit
    <2>2. /\ f \in FileNames
          /\ Bundle[r][f] \in Checksums
        BY <1>t, ChecksumType DEF TypeOK
    <2>3. applied[f] \in Seq(Checksums)
        BY <1>t, <2>2 DEF TypeOK
    <2>4. /\ applied' = [applied EXCEPT ![f] = Append(applied[f], Bundle[r][f])]
          /\ Append(applied[f], Bundle[r][f]) \in Seq(Checksums)
          /\ Append(applied[f], Bundle[r][f]) # <<>>
          /\ Last(Append(applied[f], Bundle[r][f])) = Bundle[r][f]
        <3>1. applied' = [applied EXCEPT ![f] = Append(applied[f], Bundle[r][f])]
            BY <2>1 DEF Apply
        <3> HIDE MigrationsAssumption
        <3>2. /\ Append(applied[f], Bundle[r][f]) \in Seq(Checksums)
              /\ Append(applied[f], Bundle[r][f]) # <<>>
              /\ Last(Append(applied[f], Bundle[r][f])) = Bundle[r][f]
            BY <2>2, <2>3, AppendedIsLast, Zenon
        <3> QED BY <3>1, <3>2
    <2>5. /\ pc' = [pc EXCEPT ![r] = "applying"]
          /\ pc[r] = "recording"
          /\ lock' = lock /\ runs' = runs
        BY <1>6 DEF RecordAndCommit, Goto
    <2>6. TypeOK'
        BY <1>t, <2>1, <2>2, <2>4, <2>5 DEF TypeOK, PCs
    <2>7. RecordingHasAFile'
        BY <1>t, <2>1, <2>5 DEF RecordingHasAFile, TypeOK
    <2>8. RecordMatchesSchema'
        BY <1>t, <2>1, <2>2, <2>4 DEF RecordMatchesSchema, TypeOK
    <2> QED BY <2>6, <2>7, <2>8 DEF IInv
<1>7. ASSUME NEW r \in Runners, ReleaseLock(r) PROVE IInv'
    BY <1>7, <1>t
       DEF ReleaseLock, Goto, IInv, TypeOK, PCs, RecordingHasAFile, RecordMatchesSchema
<1>8. ASSUME NEW r \in Runners, Fail(r) PROVE IInv'
    BY <1>8, <1>t DEF Fail, Goto, IInv, TypeOK, PCs, RecordingHasAFile, RecordMatchesSchema
<1> QED BY <1>1, <1>2, <1>3, <1>4, <1>5, <1>6, <1>7, <1>8 DEF Next

LEMMA SpecIInv == Spec => []IInv
BY InitIInv, NextIInv, PTL DEF Spec

\* The state of a run and of the lock keeps its shape: in particular whoever applies holds
\* the advisory lock, and a run that fails or dies gives it back (db_migrate.py:
\* _acquire_lock and the connection's end).
THEOREM TypeCorrect == Spec => []TypeOK
<1>1. IInv => TypeOK
    BY DEF IInv
<1> QED BY <1>1, SpecIInv, PTL

\* A file is recorded exactly when the schema has it, with the text that was applied last,
\* wherever a run fails and whoever else runs (db_migrate.py: _apply, one transaction).
THEOREM RecordIsTrue == Spec => []RecordMatchesSchema
<1>1. IInv => RecordMatchesSchema
    BY DEF IInv
<1> QED BY <1>1, SpecIInv, PTL

-----------------------------------------------------------------------------------
(***************************************************************************)
(* One run at a time                                                       *)
(***************************************************************************)

LEMMA InitCappedInv == Init => CappedInv
<1> SUFFICES ASSUME Init PROVE CappedInv
    OBVIOUS
<1> USE DEF Init
<1>1. OneAtATime /\ PlanIsCurrent
    BY DEF OneAtATime, Busy, PlanIsCurrent
<1>2. RunOnceIsAppliedOnce
    BY DEF RunOnceIsAppliedOnce
<1> QED BY <1>1, <1>2, InitIInv DEF CappedInv

LEMMA NextCappedInv ==
    ASSUME Capped PROVE CappedInv /\ [Next]_vars => CappedInv'
<1> SUFFICES ASSUME CappedInv, [Next]_vars PROVE CappedInv'
    OBVIOUS
<1> USE MigrationsAssumption
<1>i. IInv'
    BY NextIInv DEF CappedInv
<1>t. /\ TypeOK /\ RecordMatchesSchema
      /\ OneAtATime /\ PlanIsCurrent /\ RunOnceIsAppliedOnce
    BY DEF CappedInv, IInv
<1>1. CASE UNCHANGED vars
    BY <1>1, <1>t, <1>i DEF vars, CappedInv, OneAtATime, Busy, PlanIsCurrent, RunOnceIsAppliedOnce
<1>2. ASSUME NEW r \in Runners, Start(r) PROVE CappedInv'
    <2>1. OneAtATime'
        BY <1>2, <1>t DEF Start, Goto, OneAtATime, Busy, TypeOK
    <2>2. PlanIsCurrent' /\ RunOnceIsAppliedOnce'
        BY <1>2, <1>t DEF Start, Goto, PlanIsCurrent, RunOnceIsAppliedOnce, TypeOK
    <2> QED BY <2>1, <2>2, <1>i DEF CappedInv
<1>3. ASSUME NEW r \in Runners, ReadAndPlan(r) PROVE CappedInv'
    <2>1. OneAtATime'
        BY <1>3, <1>t DEF ReadAndPlan, Goto, OneAtATime, Busy, TypeOK
    <2>2. RunOnceIsAppliedOnce'
        BY <1>3, <1>t DEF ReadAndPlan, RunOnceIsAppliedOnce
    <2>3. recorded' = recorded
        BY <1>3 DEF ReadAndPlan
    <2>4. ASSUME NEW s \in Runners, pc'[s] \in {"locking", "applying", "recording"}
          PROVE  /\ \A f \in pending'[s] \ Repeatable : recorded[f] = None
                 /\ \A f \in FileNames \ pending'[s] : recorded[f] = Bundle[s][f]
        <3>1. CASE s = r
            <4>1. /\ \A f \in FileNames : ~Drifted(r, f)
                  /\ pending'[r] = PlanPending(r)
                BY <1>3, <1>t, <2>4, <3>1 DEF ReadAndPlan, Goto, TypeOK
            <4> QED BY <3>1, <4>1 DEF PlanPending, New, Changed, Drifted
        <3>2. CASE s # r
            BY <1>3, <1>t, <2>4, <3>2 DEF ReadAndPlan, Goto, OneAtATime, Busy, TypeOK
        <3> QED BY <3>1, <3>2
    <2> QED BY <2>1, <2>2, <2>3, <2>4, <1>i DEF CappedInv, PlanIsCurrent
<1>4. ASSUME NEW r \in Runners, AcquireLock(r) PROVE CappedInv'
    <2>1. OneAtATime'
        BY <1>4, <1>t DEF AcquireLock, Goto, OneAtATime, Busy, TypeOK
    <2>2. PlanIsCurrent'
        BY <1>4, <1>t DEF AcquireLock, Goto, PlanIsCurrent, TypeOK
    <2>3. RunOnceIsAppliedOnce'
        BY <1>4, <1>t DEF AcquireLock, RunOnceIsAppliedOnce
    <2> QED BY <1>i, <2>1, <2>2, <2>3 DEF CappedInv
<1>5. ASSUME NEW r \in Runners, ExecuteStatements(r) PROVE CappedInv'
    BY <1>5, <1>t, <1>i
       DEF ExecuteStatements, Goto, CappedInv, OneAtATime, Busy, PlanIsCurrent,
           RunOnceIsAppliedOnce, TypeOK
<1>6. ASSUME NEW r \in Runners, RecordAndCommit(r) PROVE CappedInv'
    <2>1. PICK f \in pending[r] :
              /\ Apply(r, f)
              /\ recorded' = [recorded EXCEPT ![f] = Bundle[r][f]]
              /\ pending' = [pending EXCEPT ![r] = @ \ {f}]
        BY <1>6 DEF RecordAndCommit
    <2>2. /\ f \in FileNames
          /\ pc[r] = "recording"
          /\ pc' = [pc EXCEPT ![r] = "applying"]
        BY <1>6, <1>t DEF RecordAndCommit, Goto, TypeOK
    <2>3. OneAtATime'
        BY <1>t, <2>2 DEF OneAtATime, Busy, TypeOK
    <2>4. PlanIsCurrent'
        <3>1. \A s \in Runners : s # r => pc'[s] = "idle"
            BY <1>t, <2>2 DEF OneAtATime, Busy, TypeOK
        <3>2. /\ \A g \in pending'[r] \ Repeatable : recorded'[g] = None
              /\ \A g \in FileNames \ pending'[r] : recorded'[g] = Bundle[r][g]
            BY <1>t, <2>1, <2>2 DEF PlanIsCurrent, TypeOK
        <3> QED BY <3>1, <3>2 DEF PlanIsCurrent
    <2>5. applied[f] \in Seq(Checksums) /\ Bundle[r][f] \in Checksums
        BY <1>t, <2>2, ChecksumType DEF TypeOK
    <2>6. f \notin Repeatable => applied[f] = <<>>
        <3>1. f \notin Repeatable => recorded[f] = None
            BY <1>t, <2>1, <2>2 DEF PlanIsCurrent
        <3>2. applied[f] # <<>> => recorded[f] \in Checksums
            BY <1>t, <2>2, <2>5, LastType DEF RecordMatchesSchema
        <3> QED BY <3>1, <3>2
    <2>7. /\ applied' = [applied EXCEPT ![f] = Append(applied[f], Bundle[r][f])]
          /\ Len(Append(applied[f], Bundle[r][f])) = Len(applied[f]) + 1
        BY <2>1, <2>5, AppendedIsLast DEF Apply
    <2>8. RunOnceIsAppliedOnce'
        <3> SUFFICES ASSUME NEW g \in FileNames \ Repeatable PROVE Len(applied'[g]) <= 1
            BY DEF RunOnceIsAppliedOnce
        <3>1. CASE g = f
            BY <1>t, <2>2, <2>6, <2>7, <3>1 DEF TypeOK
        <3>2. CASE g # f
            BY <1>t, <2>7, <3>2 DEF TypeOK, RunOnceIsAppliedOnce
        <3> QED BY <3>1, <3>2
    <2> QED BY <1>i, <2>3, <2>4, <2>8 DEF CappedInv
<1>7. ASSUME NEW r \in Runners, ReleaseLock(r) PROVE CappedInv'
    BY <1>7, <1>t, <1>i
       DEF ReleaseLock, Goto, CappedInv, OneAtATime, Busy, PlanIsCurrent, RunOnceIsAppliedOnce, TypeOK
<1>8. ASSUME NEW r \in Runners, Fail(r) PROVE CappedInv'
    BY <1>8, <1>t, <1>i
       DEF Fail, Goto, CappedInv, OneAtATime, Busy, PlanIsCurrent, RunOnceIsAppliedOnce, TypeOK
<1> QED BY <1>1, <1>2, <1>3, <1>4, <1>5, <1>6, <1>7, <1>8 DEF Next

\* Where one run is made at a time, a file that does not declare itself repeatable is
\* applied once, whatever becomes of its text and wherever runs fail (migrations.py: plan
\* refuses what has drifted).
THEOREM RunOnce == ASSUME Capped PROVE Spec => []RunOnceIsAppliedOnce
<1>1. CappedInv => RunOnceIsAppliedOnce
    BY DEF CappedInv
<1>2. CappedInv /\ [Next]_vars => CappedInv'
    BY NextCappedInv
<1> QED BY <1>1, <1>2, InitCappedInv, PTL DEF Spec

\* Where one run is made at a time, a run that succeeds leaves every file applied in the
\* text it was bundled with (db_migrate.py: handler answers with nothing pending).
THEOREM CompletionIsTrue == ASSUME Capped PROVE Spec => CompleteMeansApplied
<1> DEFINE Step ==
        \A r \in Runners :
            pc[r] = "applying" /\ pc'[r] = "idle" /\ pending[r] = {}
               => \A f \in FileNames : recorded[f] = Bundle[r][f]
<1>1. CappedInv => Step
    BY DEF CappedInv, PlanIsCurrent
<1>2. CappedInv /\ [Next]_vars => CappedInv'
    BY NextCappedInv
<1>3. CappedInv /\ [Next]_vars => [Step]_vars
    BY <1>1
<1> HIDE DEF Step
<1>4. Spec => [][Step]_vars
    BY <1>2, <1>3, InitCappedInv, PTL DEF Spec
<1> QED BY <1>4 DEF Step, CompleteMeansApplied
===================================================================================
