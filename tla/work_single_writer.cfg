\* Two workers claim the two SHARED_CORE requests.
SPECIFICATION Spec
CONSTANTS
    w1 = w1
    w2 = w2
    s1 = s1
    s2 = s2
    amy = amy
    bob = bob
    Works = {w1, w2}
    Lane <- SharedCoreLanes
    NoLane = NoLane
    ScopeInvalid = {}
    Requests = {"q1"}
    Sessions = {s1, s2}
    ActorOf <- TwoWorkers
    NoOne = NoOne
    Unset = Unset
    Transitions <- Usual
    MaxRevisions = 3
INVARIANTS
    SingleWriter
