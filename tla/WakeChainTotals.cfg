SPECIFICATION TotalsFairSpec
CONSTANTS
    ada = ada
    hopper = hopper
    c1 = c1
    c2 = c2
    Nobody = Nobody
    Watched = c1
    AI <- MCTeam
    Chain <- MCTwoChains
    MaxHops = 2
    MaxPairRepeats = 1
    MaxActivations = 3
    IdleTTL = 0
    MaxEvictions = 1
INVARIANTS DepthBounded ChainBudgets SpentPerIncarnation
PROPERTY ChainDiesOut
