SPECIFICATION FairSpec
CONSTANTS
    general = general
    random = random
    m1 = m1
    m2 = m2
    NoChannel = NoChannel
    Channel <- MCChannels
    Message <- MCMessages
    ChannelOf <- MCChannelOf
    MaxPages = 3
    MaxDrops = 1
INVARIANTS ShownOnce Subscribed
PROPERTY BecomesLive
CHECK_DEADLOCK FALSE
