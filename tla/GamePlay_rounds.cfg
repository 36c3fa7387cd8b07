SPECIFICATION Spec
CONSTANTS
    p1 = p1
    p2 = p2
    r1 = r1
    r2 = r2
    r3 = r3
    b1 = b1
    b2 = b2
    NoSession = NoSession
    Free = Free
    PlayerOf <- MCPlayerOf
    Win <- MCWin
    Player <- OnePlayer
    Request = {r1, r2}
    Bet = {b1, b2}
    Columns = 2
    Solo = {}
    Faults = {"flush"}
INVARIANT TypeOK
INVARIANT EarnedPayouts
SYMMETRY Symmetry
