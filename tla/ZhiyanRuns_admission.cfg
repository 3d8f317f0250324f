\* Two handlers, three runs of one Revision, at-least-once delivery, crashes, a deletion.
SPECIFICATION Spec
CONSTANTS
    Revisions = {r1}
    Workers = {w1, w2}
    NoRun = NoRun
    MaxAttempt = 3
    Events = {"manual", "deletion", "redelivery", "crash"}
SYMMETRY Symmetry
INVARIANTS
    TypeOK
    InitialBudget
    SuccessHasReport
PROPERTIES
    ReportImmutable
    NoReportAfterDeletion
    ImplementsAdmission
\* Every attempt may be used up and nothing left to do.
CHECK_DEADLOCK FALSE
