\* Every history of up to six admitted entries.
SPECIFICATION AdmissionSpec
CONSTANTS
    Records = {"a1", "a2", "b1", "b2", "c1"}
    Events = {"e1", "e2", "e3", "e4", "e5"}
    Attr <- MCAttr
    NoDigest = NoDigest
    Snapshot = Snapshot
    MaxHistory = 6
    NoIdentity = NoIdentity
    ObligationPlans <- MCObligationPlans
    VerificationPlans <- MCVerificationPlans
    PlanSource = "now"
    TestInventory <- MCTestInventory
INVARIANTS
    RelationsAcyclic
    AnswersBounded
    PlansBacked
CHECK_DEADLOCK FALSE
