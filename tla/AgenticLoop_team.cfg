SPECIFICATION Spec
CONSTANTS
    ada = ada
    hopper = hopper
    m1 = m1
    m2 = m2
    p1 = p1
    p2 = p2
    Nobody = Nobody
    NoChain = NoChain
    Reporter <- MCOneAI
    AI <- MCTeam
    Message <- MCOneMessage
    Approval <- MCNone
    MaxRuns = 1
    MaxRounds = 1
    Tool <- MCHandOffTools
    AutoTick = FALSE
    DbFails = FALSE
    Restarts = TRUE
    MaxHops = 1
    MaxPairRepeats = 1
    MaxActivations = 3
    IdleTTL = 0
    Limit = 1
    MaxCost = 1
    SearchFee = 1
PROPERTIES DrivesWakeChain DrivesBudget
