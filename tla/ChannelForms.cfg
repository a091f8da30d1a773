SPECIFICATION Spec
CONSTANTS
    general = general
    random = random
    Channel <- MCChannels
    MaxTexts = 2
    MaxSends = 2
    MaxSaves = 3
    MaxVisits = 2
    MaxActs = 6
INVARIANTS TextKept StoredOnce CardShown
CHECK_DEADLOCK FALSE
