SPECIFICATION FairSpec
CONSTANTS
    s1 = s1  s2 = s2
    p1 = p1  p2 = p2
    i1 = i1  i2 = i2
    Session = {s1}
    Plan = {p1, p2}
    Identity = {i1}
    IdentityOf <- SameIdentity
    Expiration <- Successive
    NoPlan = NoPlan
    NoSession = NoSession
    MaxRevision = 30
    MaxPoll = 8
    Allowance = 0
    MaxAttempt = 2
    MaxEpoch = 3
    MaxFaults = 2
PROPERTIES
    DoubtResolves
    RequestResolves
CHECK_DEADLOCK FALSE
