\* Two runs and three versions of one source; refused dispatches, lost messages, dead processes.
SPECIFICATION FairSpec
CONSTANTS
    MaxRun = 2
    MaxVersion = 3
    Events = {"crash", "refusal"}
INVARIANTS
    TypeOK
    FeeTakenOnce
PROPERTIES
    SpinnerStops
    NothingForNothing
    ImplementsPreparedSource
\* The user may stop at any point, and the bounds end every behaviour.
CHECK_DEADLOCK FALSE
