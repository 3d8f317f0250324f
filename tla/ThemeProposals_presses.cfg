\* A creation session and an editing session, two requests and a worker's two handlers.
SPECIFICATION Spec
CONSTANTS
    Creations = {c1}
    Editings = {e1}
    Texts = {t1}
    None = None
    Requests = {q1, q2}
    Handlers = {h1, h2}
    Capacity = 2
    MaxPresses = 4
CONSTRAINT Bounded
SYMMETRY Symmetry
INVARIANTS
    TypeOK
    EmptyPressesAreFree
    PressesUnderCeiling
    OnePressAtATime
\* A user may stop pressing.
CHECK_DEADLOCK FALSE
