\* One experiment, its replication and its probe, over two epochs, a seal and a dead call.
SPECIFICATION FairAllocatorSpec
CONSTANTS
    b1 = b1
    b2 = b2
    k1 = k1
    x1 = x1
    e1 = e1
    s1 = s1
    p1 = p1
    q1 = q1
    z1 = z1
    None = None
    Budget = {b1, b2}
    Key = {k1}
    Executable = {x1}
    Request = {p1, q1, z1}
    Experiment = {e1}
    Sandbox = {s1}
    PolicyOf <- Policies
    RequestOf <- Requests
    SubjectOf <- Subjects
    TestOf <- Tests
    Divided = {e1}
    Sealable = {e1}
    RankOf <- Ranks
    MaxTime = 2
    MaxStarts = 2
    MaxAborts = 1
INVARIANTS
    ChargesSound
    PromotionGrounded
PROPERTIES
    FiledOnce
    RepetitionCompletes
CHECK_DEADLOCK FALSE
