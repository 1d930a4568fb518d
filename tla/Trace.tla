--------------------------------- MODULE Trace ---------------------------------
(***************************************************************************)
(* One record's life as the tracker shows it: core/trace.py.  The module   *)
(* is pure, as the code is: it takes the record's current version, the     *)
(* versions and audit records somebody read, and the totals of a windowed  *)
(* read, and makes the document with its steps, its spans of state and its *)
(* findings.  Who reads what, and when, is Tracker's.                      *)
(*                                                                         *)
(* A version keeps its number, its state, what each source says (`said`)   *)
(* and when it was fetched (`raw`); an audit record its sequence, edge,    *)
(* trigger, actor and operator.                                            *)
(***************************************************************************)
EXTENDS Lifecycle, Sequences, FiniteSets, SequencesExt

CONSTANTS
    NoState,     \* from_state of the first audit record
    NoVersion,   \* a version that was not among those read
    GroupOf,     \* source -> its independence group: two feeds of a group are one witness
    ChurnSample  \* the least number of comparable steps the churn finding needs

TERMINAL_STATES == {"cleared", "archived", "merged"}

Stages == <<"ingest", "normalize", "resolve", "lifecycle", "terminal">>

TRIGGER_STAGE(trigger) ==
    CASE trigger = "source_update" -> "ingest"
      [] trigger \in {"dedup_decision", "validation_pass", "validation_fail"} -> "resolve"
      [] trigger = "retention_rule" -> "terminal"
      [] OTHER -> "lifecycle"

(***************************************************************************)
(* What changed between two versions.  Sources are compared by identity,   *)
(* never by position, and a field that only says "fetched again" is        *)
(* bookkeeping.                                                            *)
(***************************************************************************)

Change(path, bookkeeping) == [path |-> path, bookkeeping |-> bookkeeping]

SourceChanges(before, after) ==
    LET old == DOMAIN before.sources
        new == DOMAIN after.sources
        both(field) == {s \in old \cap new : before.sources[s][field] # after.sources[s][field]}
    IN  {Change(<<s, "added">>, FALSE) : s \in new \ old}
        \cup {Change(<<s, "removed">>, FALSE) : s \in old \ new}
        \cup {Change(<<s, "said">>, FALSE) : s \in both("said")}
        \cup {Change(<<s, "raw_ref">>, TRUE) : s \in both("raw")}

diff_versions(before, after) ==
    IF before = NoVersion THEN {}
    ELSE SourceChanges(before, after)
         \cup (IF before.state = after.state THEN {} ELSE {Change(<<"lifecycle_state">>, FALSE)})

(***************************************************************************)
(* Steps: the audit trail joined to the versions by number                 *)
(***************************************************************************)

is_transition(record) == record.from # NoState /\ record.from # record.to

Sequences(audit) == {a.sequence : a \in audit}

\* Numbers in order: the i-th is the one with i - 1 below it.
Ascending(numbers) ==
    [i \in 1..Cardinality(numbers) |->
        CHOOSE n \in numbers : Cardinality({m \in numbers : m < n}) = i - 1]

RecordNumbered(audit, n) == CHOOSE a \in audit : a.sequence = n

InOrder(audit) ==
    LET numbers == Ascending(Sequences(audit))
    IN  [i \in DOMAIN numbers |-> RecordNumbered(audit, numbers[i])]

VersionNumbered(versions, n) ==
    IF \E v \in versions : v.version = n THEN CHOOSE v \in versions : v.version = n ELSE NoVersion

Step(versions, record) ==
    LET version  == VersionNumbered(versions, record.sequence)
        previous == VersionNumbered(versions, record.sequence - 1)
        changes  == IF version = NoVersion THEN {} ELSE diff_versions(previous, version)
    IN  [sequence          |-> record.sequence,
         stage             |-> TRIGGER_STAGE(record.trigger),
         transition        |-> is_transition(record),
         legal             |-> is_transition(record)
                                 => IsLegalTransition(record.from, record.to, record.trigger),
         version_missing   |-> version = NoVersion,
         changes           |-> changes,
         confirmation_only |-> ~is_transition(record) /\ changes # {}
                                 /\ \A c \in changes : c.bookkeeping,
         diff_unavailable  |-> previous = NoVersion /\ record.sequence > 1]

build_steps(versions, audit) ==
    LET trail == InOrder(audit) IN [i \in DOMAIN trail |-> Step(versions, trail[i])]

(***************************************************************************)
(* Spans: steps that keep the state are collapsed into one                 *)
(***************************************************************************)

Span(state, first, last, updates) ==
    [state |-> state, first |-> first, last |-> last, updates |-> updates]

\* A span begins with each step that leads to another state than the step before it did.
Begins(trail) == {i \in DOMAIN trail : i = 1 \/ trail[i].to # trail[i - 1].to}

Spans(trail) ==
    LET begin  == Ascending(Begins(trail))
        end(k) == IF k = Len(begin) THEN Len(trail) ELSE begin[k + 1] - 1
    IN  [k \in DOMAIN begin |->
            Span(trail[begin[k]].to, trail[begin[k]].sequence, trail[end(k)].sequence,
                 end(k) - begin[k])]

\* The trail and the current version may disagree on where the record is: an unaudited span.
state_durations(audit, current) ==
    LET spans == Spans(InOrder(audit))
    IN  IF spans # <<>> /\ Last(spans).state # current.state
        THEN Append(spans, Span(current.state, 0, 0, 0)) ELSE spans

(***************************************************************************)
(* Findings: what is wrong with the record                                 *)
(***************************************************************************)

\* Every trail is judged from its first step on, read or not.
ContiguousFromOne(numbers) == numbers = 1..Cardinality(numbers)

Contiguous(numbers) ==
    \A lo, hi \in numbers : \A n \in lo..hi : n \in numbers

\* Holes are judged within what was read; totals say what was not.
TrailFindings(current, audit, totals) ==
    (IF Contiguous(Sequences(audit)) THEN {} ELSE {"audit_gap"})
    \cup (IF totals.versions # totals.audit THEN {"version_audit_mismatch"} ELSE {})
    \cup (IF audit = {} /\ ~totals.windowed THEN {"no_audit_trail"} ELSE {})
    \cup (IF current.version # totals.versions THEN {"version_count_mismatch"} ELSE {})

StepFindings(audit) ==
    (IF \E a \in audit : is_transition(a) /\ ~IsLegalTransition(a.from, a.to, a.trigger)
     THEN {"illegal_transition_stored"} ELSE {})
    \cup (IF \E a \in audit : a.trigger \notin Triggers THEN {"unknown_trigger"} ELSE {})
    \cup (IF \E a \in audit : a.actor = "human" /\ a.operator = FALSE
          THEN {"operator_unattributed"} ELSE {})
    \cup (IF \E a \in audit : a.to \notin LifecycleStates THEN {"unknown_state"} ELSE {})

\* Most comparable steps changed nothing but when they were fetched.
ChurnFindings(steps) ==
    LET sampled       == {i \in DOMAIN steps : steps[i].changes # {} /\ ~steps[i].transition}
        confirmations == {i \in DOMAIN steps : steps[i].confirmation_only}
    IN  IF Cardinality(sampled) >= ChurnSample
           /\ 10 * Cardinality(confirmations) >= 8 * Cardinality(sampled)
        THEN {"version_churn"} ELSE {}

RecordFindings(current) ==
    (IF current.stale /\ OnLadder(current.state) THEN {"ttl_expired_not_moved"} ELSE {})
    \cup (IF current.resolved THEN {} ELSE {"unresolved_extent"})
    \cup (IF current.state = "merged" /\ current.related = {} THEN {"merged_without_parent"} ELSE {})
    \cup (IF current.state \in {"active", "validated"}
             /\ Cardinality({GroupOf[s] : s \in DOMAIN current.sources}) < 2
          THEN {"single_witness"} ELSE {})

findings(current, audit, steps, totals) ==
    TrailFindings(current, audit, totals) \cup StepFindings(audit)
    \cup ChurnFindings(steps) \cup RecordFindings(current)

(***************************************************************************)
(* The document                                                            *)
(***************************************************************************)

\* The five stages' statuses.
build_stages(current) ==
    [stage \in ToSet(Stages) |->
        CASE stage = "normalize" /\ ~current.resolved -> "warning"
          [] stage = "lifecycle" -> IF current.stale THEN "warning" ELSE "current"
          [] stage = "terminal" -> IF current.state \in TERMINAL_STATES THEN "done" ELSE "pending"
          [] OTHER -> "done"]

build_trace(current, versions, audit, totals) ==
    LET steps == build_steps(versions, audit)
    IN  [current  |-> current.version,
         stages   |-> build_stages(current),
         steps    |-> steps,
         states   |-> state_durations(audit, current),
         findings |-> findings(current, audit, steps, totals),
         windowed |-> totals.windowed,
         total    |-> totals.audit]
================================================================================
