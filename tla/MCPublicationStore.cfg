SPECIFICATION StoreSpec
CONSTANTS
    a1 = a1
    a2 = a2
    d1 = d1
    d2 = d2
    Attempts = {a1, a2}
    Digests = {d1, d2}
    LastOrdinal = 1
    SoftLimit = 3
    HardLimit = 6
    MaxEvents = 7
    MaxExcess = 2
    MaxRevision = 9
    None = None
SYMMETRY MCSymmetry
INVARIANTS AuditPasses OutcomeRecordable
PROPERTIES EvidenceOnlyGrows
CHECK_DEADLOCK FALSE
