SPECIFICATION FairSpec
CONSTANTS
    note = note
    ask = ask
    login = login
    p1 = p1
    p2 = p2
    Messages = {ask, login}
    Direct = {login}
    Interactive = {ask}
    Processes = {p1}
    Batch = 1
    MaxAttempts = 2
    SlowSends = FALSE
    MaxMishaps = 1
    MaxRetries = 1
    MaxNights = 1
INVARIANTS OneHolder ExtraCopiesExplained AttemptsBounded
PROPERTY EventuallySettled
