SPECIFICATION LeaveSpec
CONSTANTS
    sup = sup
    hr = hr
    emp = emp
    c1 = c1
    c2 = c2
    None = None
    Users = {sup, hr, emp}
    Requester = emp
    Callers = {c1}
    Pools <- Reorganised
    Workflows <- Chains
    MaxSteps = 3
    MayCrash = FALSE
INVARIANTS SettledApproval NoApproverLeft FinalApprovalIsUnanimous OneOutcome ChainNeverStuck
PROPERTY ImplementsLifecycle
