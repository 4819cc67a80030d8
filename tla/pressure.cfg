\* Two agents in their own checkouts, which are merged once; and the kernel.
SPECIFICATION BothSpec
CONSTANTS
    a1 = a1
    a2 = a2
    Agents = {a1, a2}
    CheckoutOf <- Apart
    Declarations <- Ours
    NoLegacy = NoLegacy
    Reports <- News
    RelationSpecs <- Relating
    Targets = {"resolved", "duplicate"}
    Ledgers <- Rewordings
    Prior <- Verifying
    Instants = {0, 1}
    NoInstant = NoInstant
    MaxEvents = 7
    MaxDocuments = 7
    MaxFailures = 1
    MaxMerges = 1
    Callers = {"t1", "t2"}
    Placements <- OneOrTwo
    Sources = {"A", "B"}
    NoArtifact = NoArtifact
    MaxEdits = 1
    MaxDeaths = 1
SYMMETRY Symmetry
INVARIANTS
    ReplaysAgree
    NoTransitionIgnored
    StaysValid
    KernelSound
CHECK_DEADLOCK FALSE
