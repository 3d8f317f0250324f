\* A pasted source and a file; dead processes, refused requests and
\* overlapping uploads.
SPECIFICATION FairSpec
CONSTANTS
    None = None
    Owner = Owner
    Pasted = {p1}
    Urls = {}
    Files = {f1}
    Identities = {i1}
    Keys = {k1}
    MaxSources = 2
    MaxVersion = 2
    Events = {"crash", "overlap", "refusal"}
PROPERTIES
    OrphansGo
    DeletedPurged
    OwnerComesFree
CHECK_DEADLOCK FALSE
