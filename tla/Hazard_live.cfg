SPECIFICATION FairHazardSpec
CONSTANTS
    s1 = s1
    s2 = s2
    h1 = h1
    h2 = h2
    Free = Free
    None = None
    Server = {s1, s2}
    Pattern = {h1}
    Refresh = 1
    MaxNow = 1
    MaxFaults = 1
    Faults = {"crash", "net", "outage", "late"}
PROPERTY LeaseNotStolen
PROPERTY HazardsMoveOn
