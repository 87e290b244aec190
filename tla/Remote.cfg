\* Two authorizations and two configurations around one machine, and its report.
SPECIFICATION FairSpec
CONSTANTS
    e1 = e1
    a1 = a1
    a2 = a2
    b1 = b1
    r1 = r1
    r2 = r2
    forged = forged
    None = None
    Experiment = {e1}
    Authorization = {a1, a2}
    Budget = {b1}
    Config = {east, west}
    Report = {r1, r2, forged}
    RequestOf <- MCRequests
    ReportOf <- MCReports
    BudgetExpiry <- EpochEnd
    CredentialExpiry <- CredentialEnd
    MaxRejected = 2
    MaxTime = 3
    MaxFailures = 2
INVARIANTS
    LaunchesSound
    ReportsSound
PROPERTIES
    WrittenOnce
    ImplementsOneShot
    LaunchesRecorded
    ReportsDelivered
CHECK_DEADLOCK FALSE
