SPECIFICATION FairBackOfficeSpec
CONSTANTS
    r1 = r1
    r2 = r2
    r3 = r3
    a1 = a1
    m1 = m1
    s1 = s1
    s2 = s2
    None = None
    Request = {r1, r2, r3}
    Agent = {a1}
    Member = {m1}
    AgentOf <- MCAgentOf
    TasksOf <- MCTasksOf
    Id = {1, 2, 3, 4, 5}
    Scenarios <- MCScenarios
    Server = {s1, s2}
    GameCode = {"my-road", "my_road"}
    TableOf <- MCTableOf
    Player = {"p1"}
    PlayedGame = {"my-road"}
    Mishaps <- MCMishaps
    NoCode = NoCode
    Cleaner = {s1, s2}
    LastMonth = 3
    Zones <- MCZones
    CleanUpScenarios <- MCHitches
    NoMonth = NoMonth
    NoCleaner = NoCleaner
    Bet = {1, 2}
    Columns <- MCColumns
    MaxEnds <- MCMaxEnds
    PlatformOf <- MCPlatformOf
    ActiveGame = {"g1"}
    Filter <- MCFilter
    WalkFilter <- MCWalkFilter
    WalkStatus = {"any", "won"}
    PageLimit = 1
    LastPeriod = 1
    AnyValue = "any"
INVARIANT BackOfficeTypeOK
INVARIANT AgentHasAdmin
INVARIANT DeletedTogether
INVARIANT NoLockCycle
INVARIANT GameReady
INVARIANT PlayedAsConfigured
INVARIANT MarkedMonthIsClean
INVARIANT SweptOnce
INVARIANT PagesShowAll
INVARIANT ReportsMatchMoney
PROPERTY MembersKept
PROPERTY TunedStays
PROPERTY CallsAnswered
CHECK_DEADLOCK FALSE
