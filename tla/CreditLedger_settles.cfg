\* One source with its automatic second attempt and an article; no payment.
SPECIFICATION FairSpec
CONSTANTS
    Reports = {r1}
    Articles = {a1}
    MaxVersion = 1
    MaxAttempt = 2
    MaxRuns = 3
    Estimate = 2
    Charges = {1, 3}
    Unknown = Unknown
    None = None
    SignupGrant = 6
    Pack = 3
    Price = 0
    Shares <- RoundedDown
INVARIANTS
    SettledAtCost
PROPERTIES
    EveryHoldSettles
CHECK_DEADLOCK FALSE
