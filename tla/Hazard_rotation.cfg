SPECIFICATION HazardSpec
CONSTANTS
    s1 = s1
    s2 = s2
    h1 = h1
    h2 = h2
    Free = Free
    None = None
    Server = {s1, s2}
    Pattern = {h1, h2}
    Refresh = 1
    MaxNow = 2
    MaxFaults = 1
    Faults = {"crash", "late"}
INVARIANT HazardsServed
INVARIANT SubscribersCoherent
PROPERTY PatternsInTurn
SYMMETRY Symmetry
