SPECIFICATION SpecCalls
CONSTANTS
    Pages = {p1, p2}
    Query = Query
    Reasoning = Reasoning
    MaxContinuations = 2
    None = None
SYMMETRY Symmetry
INVARIANTS
    TypeOKCalls
    EveryCallBilled
    EvidenceIsOfTheRun
CHECK_DEADLOCK FALSE
