\* From an empty directory: init, racing lifecycle events, an entry too large to
\* journal, crashes, fair processes and an operator who runs recover.
SPECIFICATION FreshFairSpec
CONSTANTS
    p1 = p1
    p2 = p2
    Procs = {p1, p2}
    InitProcs = {p1}
    CursorProcs = {}
    NoProc = NoProc
    NoTail = NoTail
    NoDigest = NoDigest
    Snapshot = Snapshot
    Records = {"rec1", "rec2a", "big"}
    Events = {"ev1", "ev2", "ev3"}
    Attr <- MCAttr
    Oversized = {"big"}
    MaxLedgerRows = 10
    TornWrites = FALSE
    MaxSnapshots = 1
    MaxCrashes = 2
INVARIANTS
    EventsTakeEffect
PROPERTIES
    FinalDispositions
    ImplementsAppendLog
    JournaledCommits
