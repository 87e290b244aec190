\* Two experiments with a shared forecaster are admitted, executed, retried and settled.
SPECIFICATION FairSpec
CONSTANTS
    e1 = e1
    e2 = e2
    hyp = hyp
    math = math
    review = review
    plan = plan
    f1 = f1
    f2 = f2
    f3 = f3
    f4 = f4
    k1 = k1
    k2 = k2
    ada = ada
    bob = bob
    svc = svc
    osf = osf
    zenodo = zenodo
    None = None
    Experiment = {e1, e2}
    Contribution = {hyp, math, review, plan}
    Forecast = {f1, f2, f3, f4}
    Commitment = {k1, k2}
    Identity = {ada, bob, svc}
    Outcome = {go}
    go = go
    Registration = {osf, zenodo}
    Intent = {confirmatory}
    confirmatory = confirmatory
    Design <- MCDesign
    ContributionOf <- Contributions
    ForecastOf <- MCForecasts
    FundingOf <- MCFunding
    CreditLimit = 6
    MaxAttempts = 2
    MaxAborts = 1
INVARIANTS
    AdmissionSound
    RecordsAgree
PROPERTIES
    DecisionsFinal
    ImplementsLifecycle
    FinalizationCompletes
CHECK_DEADLOCK FALSE
