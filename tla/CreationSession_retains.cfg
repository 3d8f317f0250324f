\* A pasted source, two URLs that may be the same and a file, in a session of two;
\* dead processes and overlapping uploads.
SPECIFICATION Spec
CONSTANTS
    None = None
    Owner = Owner
    Pasted = {p1}
    Urls = {u1, u2}
    Files = {f1}
    Identities = {i1}
    Keys = {k1}
    MaxSources = 2
    MaxVersion = 2
    Events = {"crash", "overlap"}
SYMMETRY SameUrls
INVARIANTS
    TypeOK
    SessionBounded
PROPERTIES
    ConfirmedKept
    FileKept
CHECK_DEADLOCK FALSE
