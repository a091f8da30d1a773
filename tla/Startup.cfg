SPECIFICATION FairSpec
CONSTANTS
    Releases = 2
    MaxRetries = 3
    FromError = FromError
    Unset = Unset
INVARIANTS ServesRelease HistoryIsTrue
PROPERTIES DropsOnlyBroken ResetRecovers RecoversWithData
CHECK_DEADLOCK FALSE
