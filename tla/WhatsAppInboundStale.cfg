SPECIFICATION Spec
CONSTANTS
    m1 = m1
    m2 = m2
    Messages = {m1, m2}
    Cron = Cron
    Chats <- Answers
    Steps = 1
    MaxAttempts = 1
    MaxActions = 3
    MaxFaults = 0
PROPERTY NoStaleAnswer
CHECK_DEADLOCK FALSE
