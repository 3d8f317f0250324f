\* A batch of one source and one article admitted together; a payment with its reversals.
SPECIFICATION Spec
CONSTANTS
    Reports = {r1}
    Articles = {a1}
    MaxVersion = 2
    MaxAttempt = 1
    MaxRuns = 3
    Estimate = 2
    Charges = {3}
    Unknown = Unknown
    None = None
    SignupGrant = 2
    Pack = 3
    Price = 2
    Shares <- RoundedDown
INVARIANTS
    TypeOK
    PaymentCountedOnce
    DebtBounded
CHECK_DEADLOCK FALSE
