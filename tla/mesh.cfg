\* Two nodes that share a relay, a bundle and a direct link.
SPECIFICATION MCSpec
CONSTANTS
    Nodes = {"a", "b"}
    Links <- Connected
    PushLinks <- Pushed
    Info <- Knowledge
    Produced <- Makes
    InterestOf <- Likes
    PushInterest <- Gives
    Limit = 2
    RelayLimit = 3
    NoOrigin = NoOrigin
    NoBundle = NoBundle
    Offline <- Before
    Announced = {2, 4}
    MaxFaults = 1
INVARIANTS
    OriginsTruthful
    PossessionOnly
    TriageSound
PROPERTIES
    Converges
CHECK_DEADLOCK FALSE
