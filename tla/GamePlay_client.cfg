SPECIFICATION Spec
CONSTANTS
    p1 = p1
    p2 = p2
    r1 = r1
    r2 = r2
    r3 = r3
    b1 = b1
    b2 = b2
    NoSession = NoSession
    Free = Free
    PlayerOf <- MCPlayerOf
    Win <- MCWin
    Player <- OnePlayer
    Request = {r1, r2, r3}
    Bet = {b1, b2}
    Columns = 3
    Solo <- PlaySolo
    Faults <- NoFlushNoSlow
INVARIANT SettledOnce
INVARIANT LiveSessionBacked
INVARIANT BetFlowsExclusive
PROPERTY PlayedAsPromised
PROPERTY NoDebitInPlay
