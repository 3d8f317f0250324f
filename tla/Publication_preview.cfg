\* Two Revisions, a retry of each, cancellations, refused dispatches, lost messages, dead processes.
SPECIFICATION Spec
CONSTANTS
    MaxRevision = 2
    MaxAttempt = 2
    Workers = {w1, w2}
    NoRun = NoRun
    Events = {"cancellation", "refusal", "crash"}
SYMMETRY Symmetry
INVARIANTS
    TypeOK
    OutcomeIsTrue
PROPERTIES
    SettledIsFinal
    ImplementsOnePreview
\* The user may have nothing left to publish.
CHECK_DEADLOCK FALSE
