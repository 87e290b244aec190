\* The second call reports a branch whose condition was never satisfied as activated.
SPECIFICATION BranchSpec
CONSTANTS
    parent = parent
    control = control
    first = first
    second = second
    replicate = replicate
    scale = scale
    pivot = pivot
    drop = drop
    None = None
    Experiment = {parent, control}
    Value = {0, 1}
    Branch = {replicate, scale, pivot, drop}
    Plan = {first}
    PlanOf <- SimplePlans
    MaxEvidence = 1
INVARIANTS
    ReplayReportsTruth
