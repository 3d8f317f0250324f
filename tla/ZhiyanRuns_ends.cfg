\* Two Revisions, so that one sweep may have two rows in its list.
SPECIFICATION FairSpec
CONSTANTS
    Revisions = {r1, r2}
    Workers = {w1}
    NoRun = NoRun
    MaxAttempt = 2
    Events = {"crash", "deletion"}
PROPERTIES
    EveryRunEnds
\* Every attempt may be used up and nothing left to do.
CHECK_DEADLOCK FALSE
