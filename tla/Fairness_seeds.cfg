SPECIFICATION SeedsSpec
CONSTANTS
    r1 = r1
    r2 = r2
    b1 = b1
    b2 = b2
    None = None
    Generated = Generated
    u1 = u1
    Request = {r1, r2}
    Round = {b1, b2}
    ServerSeed = {1, 2, 3, 4, 5, 6}
    UserSeed = {u1}
    Scenarios <- MCScenarios
INVARIANT SeedsTypeOK
INVARIANT HistoryShowsPlayed
INVARIANT SecretWhilePlayed
INVARIANT NoncesDistinct
PROPERTY PromisesKept
SYMMETRY Symmetry
