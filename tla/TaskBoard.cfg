SPECIFICATION Spec
CONSTANTS
    viewer = viewer
    ada = ada
    hopper = hopper
    c1 = c1
    c2 = c2
    stranger = stranger
    Active <- MCActive
    Named <- MCNamed
    NoUser = nobody
    Viewer = viewer
    Human <- MCHuman
    AI <- MCAI
    SharesChannel <- MCShares
    HandoffEnabled = TRUE
    Column = {Backlog, Done}
    Backlog = Backlog
    Call <- MCCalls
    MaxTasks = 2
    MaxCommits = 3
    MaxDialogs = 1
    MaxFailures = 1
    MaxDrops = 1
SYMMETRY MCSymmetry
INVARIANTS DenseIds BoardShowsCommits StaleOnlyIf  
CHECK_DEADLOCK FALSE
