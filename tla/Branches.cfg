\* Two plans, crashes between evaluations, evidence of both lanes.
SPECIFICATION BranchSpec
CONSTANTS
    parent = parent
    control = control
    first = first
    second = second
    replicate = replicate
    scale = scale
    pivot = pivot
    drop = drop
    None = None
    Experiment = {parent, control}
    Value = {0, 1}
    Branch = {replicate, scale, pivot, drop}
    Plan = {first, second}
    PlanOf <- Plans
    MaxEvidence = 2
INVARIANTS
    ActivationSound
PROPERTIES
    VerdictsStable
