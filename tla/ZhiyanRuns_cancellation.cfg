\* Live handlers, a user who cancels and starts again, a broker that refuses.
SPECIFICATION LiveSpec
CONSTANTS
    Revisions = {r1}
    Workers = {w1, w2}
    NoRun = NoRun
    MaxAttempt = 2
    Events = {"manual", "cancellation", "refusal"}
PROPERTIES
    CancellationHonoured
\* Every attempt may be used up and nothing left to do.
CHECK_DEADLOCK FALSE
