\* Two scanners and a worker; three requests of one repository.
SPECIFICATION HealthSpec
CONSTANTS
    s1 = s1
    s2 = s2
    s3 = s3
    amy = amy
    bob = bob
    Sessions = {s1, s2, s3}
    Scanners = {s1, s2}
    ActorOf <- MCActorOf
    Works = {"h1", "h2", "bad"}
    Lane <- MCLane
    Rank <- MCRank
    NoLane = NoLane
    ScopeInvalid = {"bad"}
    Requests <- MCRequests
    Proposals <- MCProposals
    Sweeps <- MCSweeps
    Projects = {"ravel", "mnel"}
    Posture <- MCPosture
    NoOne = NoOne
    Unset = Unset
    NoTime = NoTime
    NoFinding = NoFinding
    Transitions <- MCTransitions
    MaxRevisions = 4
    MaxSweeps = 3
SYMMETRY ScannerSymmetry
INVARIANTS
    SupersededByNewer
    DuplicatesOnlyByRace
    HealthyMeansSettled
CHECK_DEADLOCK FALSE
