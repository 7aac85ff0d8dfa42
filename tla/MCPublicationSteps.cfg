SPECIFICATION Spec
CONSTANTS
    a1 = a1
    a2 = a2
    d1 = d1
    d2 = d2
    d3 = d3
    t1 = t1
    t2 = t2
    Attempts = {a1, a2}
    Digests = {d1, d2, d3}
    Tabs = {t1, t2}
    LastOrdinal = 1
    SoftLimit = 3
    HardLimit = 6
    MaxEvents = 16
    MaxExcess = 4
    MaxRevision = 9
    MaxDoubts = 1
    None = None
SYMMETRY MCSymmetry
INVARIANTS LogAgreesWithChain OneSuccessPerOrdinal
PROPERTIES OneTransactionInFlight
CHECK_DEADLOCK FALSE
