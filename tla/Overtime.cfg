SPECIFICATION Spec
CONSTANTS
    c1 = c1
    r1 = r1
    r2 = r2
    Callers = {c1}
    Duties <- Serial
    Requests = {r1, r2}
    Windows <- Evenings
    Policies <- Rules
    Slack = 1
    MaxSteps = 2
    None = None
INVARIANTS TypeOK ApprovedIsFrozen FiledIsKept ApprovedIsEligible EndsWithItsChain KeptWithinMonth
