SPECIFICATION Spec
CONSTANTS
    Contents = {a, b}
    Themes = {t}
    Edits = {e1}
    MaxSources = 1
    MaxVersions = 2
    MaxRuns = 3
    None = None
    Events = {"sweep", "cancellation", "deletion", "retry"}
    Writers = {w1, w2}
    Keys = {k1, k2, k3}
CONSTRAINT Bounded
SYMMETRY Symmetry
CHECK_DEADLOCK FALSE
INVARIANTS TypeOK ThemeAnswersItsSources GenerationKeepsItsVersion RevisionsLinear
