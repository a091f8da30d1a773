SPECIFICATION FairTranscriptSpec
CONSTANTS
    web_search = web_search
    read_project_docs = read_project_docs
    send_channel_message = send_channel_message
    other_tool = other_tool
    MaxRounds = 3
    MaxRetries = 1
    TokenBudget = 7
    Tool <- MCTool
    Search = web_search
    Docs = read_project_docs
    FileCost <- MCFileCost
    MaxFileCost = 4
    SearchCost <- MCSearchCost
    ToolCost <- MCToolCost
    Unknown = other_tool
    DigestCost <- MCDigestCost
    Answer <- MCAnswer
INVARIANTS SendsLongestEnd ResultsFollowCalls
PROPERTY CycleEnds
CHECK_DEADLOCK FALSE
