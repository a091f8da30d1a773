SPECIFICATION FairSpec
CONSTANTS
    ada = ada
    hopper = hopper
    m1 = m1
    m2 = m2
    p1 = p1
    p2 = p2
    Nobody = Nobody
    NoChain = NoChain
    Reporter <- MCNone
    AI <- MCOneAI
    Message <- MCNone
    Approval <- MCOneApproval
    MaxRuns = 2
    MaxRounds = 2
    Tool <- MCApprovalTools
    AutoTick = TRUE
    DbFails = TRUE
    Restarts = TRUE
    MaxHops = 1
    MaxPairRepeats = 1
    MaxActivations = 2
    IdleTTL = 0
    Limit = 1
    MaxCost = 0
    SearchFee = 0
INVARIANTS InFlightHasCycle GrantedRunsOnly
PROPERTIES OldRequestBlocks GrantResumes
