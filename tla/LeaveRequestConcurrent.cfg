SPECIFICATION LeaveSpec
CONSTANTS
    sup = sup
    hr = hr
    emp = emp
    c1 = c1
    c2 = c2
    None = None
    Users = {sup, hr, emp}
    Requester = emp
    Callers = {c1, c2}
    Pools <- Stable
    Workflows <- TwoSteps
    MaxSteps = 2
    MayCrash = TRUE
INVARIANTS NeverApprovedUnpaid FinalReachesEveryStep
