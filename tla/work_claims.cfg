\* Two workers race for a shared-core request; a second one is out of scope.
SPECIFICATION Spec
CONSTANTS
    w1 = w1
    w2 = w2
    s1 = s1
    s2 = s2
    amy = amy
    bob = bob
    Works = {w1, w2}
    Lane <- MixedLanes
    NoLane = NoLane
    ScopeInvalid = {w2}
    Requests = {"q1", "q2"}
    Sessions = {s1, s2}
    ActorOf <- TwoWorkers
    NoOne = NoOne
    Unset = Unset
    Transitions <- UsualAndOdd
    MaxRevisions = 5
INVARIANTS
    HistoryLegal
    OneClaimWins
    SubmissionsAgree
