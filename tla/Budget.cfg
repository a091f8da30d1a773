SPECIFICATION BudgetFairSpec
CONSTANTS
    r1 = r1
    r2 = r2
    r3 = r3
    Run <- MCRuns
    Limit = 3
    MaxCost = 2
    SearchFee = 1
    MaxSearches = 2
INVARIANT OvershootBounded
PROPERTY GateReleases
