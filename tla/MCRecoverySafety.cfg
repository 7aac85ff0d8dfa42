SPECIFICATION Spec
CONSTANTS
    s1 = s1  s2 = s2
    p1 = p1  p2 = p2
    i1 = i1  i2 = i2
    Session = {s1, s2}
    Plan = {p1, p2}
    Identity = {i1}
    IdentityOf <- SameIdentity
    Expiration <- Successive
    NoPlan = NoPlan
    NoSession = NoSession
    MaxRevision = 7
    MaxPoll = 3
    Allowance = 8
    MaxAttempt = 2
    MaxEpoch = 3
    MaxFaults = 0
SYMMETRY Symmetry
INVARIANTS LiveBytesTracked ArchivesAgreeWithChain OutcomeNeverLost OneSuccessPerIdentity
PROPERTIES StoreNeverRefuses OneTransactionInFlight
CHECK_DEADLOCK FALSE
