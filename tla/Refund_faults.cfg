SPECIFICATION FairRefundSpec
CONSTANTS
    p1 = p1
    r1 = r1
    r2 = r2
    b1 = b1
    b2 = b2
    s1 = s1
    s2 = s2
    NoSession = NoSession
    Free = Free
    PlayerOf <- MCPlayerOf
    Win <- MCWin
    Player = {p1}
    BatchSize = 2
    MaxRefunds = 1
    Columns = 2
    Request = {r1}
    Bet = {b1}
    Server = {s1}
    Solo = {}
    Faults <- AllFaults
INVARIANT BooksMatchWallet
PROPERTY PlacedBetsResolved
