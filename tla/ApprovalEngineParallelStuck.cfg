SPECIFICATION Spec
CONSTANTS
    sup = sup
    hr = hr
    emp = emp
    None = None
    Users = {sup, hr, emp}
    Requester = emp
    Callers = {c1, c2}
    Pools <- Stable
    Workflows <- ParallelPair
    MaxSteps = 2
    MayCrash = FALSE
INVARIANT AllApprovedMeansFinalized
