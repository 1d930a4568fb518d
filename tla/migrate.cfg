CONSTANTS
    Files <- MCFiles
    Repeatable <- MCRepeatable
    old = old
    amended = amended
    edited = edited
    Runners = {old, amended, edited}
    Bundle <- MCBundle
    Capped = TRUE
    MaxRuns = 5
    None = None
SPECIFICATION Spec
INVARIANTS TypeOK RecordMatchesSchema RunOnceIsAppliedOnce
PROPERTY CompleteMeansApplied
CHECK_DEADLOCK FALSE
