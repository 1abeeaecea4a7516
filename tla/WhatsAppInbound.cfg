SPECIFICATION FairSpec
CONSTANTS
    m1 = m1
    m2 = m2
    Messages = {m1, m2}
    Cron = Cron
    Chats <- Decisions
    Steps = 2
    MaxAttempts = 2
    MaxActions = 3
    MaxFaults = 1
INVARIANTS TypeOK DecidedOnce OneWaiting ImplicitExplained
PROPERTY Recovered
CHECK_DEADLOCK FALSE
