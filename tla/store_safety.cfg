\* Two processes, a race for revision 2, crashes at every step, torn appends.
SPECIFICATION Spec
CONSTANTS
    p1 = p1
    p2 = p2
    Procs = {p1, p2}
    InitProcs = {}
    CursorProcs = {p1, p2}
    NoProc = NoProc
    NoTail = NoTail
    NoDigest = NoDigest
    Snapshot = Snapshot
    Records = {"rec1", "rec2a", "rec2b"}
    Events = {}
    Attr <- MCAttr
    Oversized = {}
    MaxLedgerRows = 10
    TornWrites = TRUE
    MaxSnapshots = 1
    MaxCrashes = 2
SYMMETRY Symmetry
INVARIANTS
    ChainValid
    TrustedTailIsRight
    PendingCommittable
    AckedDurable
    RevisionsLinear
