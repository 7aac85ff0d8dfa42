SPECIFICATION LiveSpec
CONSTANTS
    a1 = a1
    a2 = a2
    d1 = d1
    d2 = d2
    d3 = d3
    t1 = t1
    t2 = t2
    Attempts = {a1}
    Digests = {d1}
    Tabs = {t1, t2}
    LastOrdinal = 0
    SoftLimit = 3
    HardLimit = 6
    MaxEvents = 16
    MaxExcess = 3
    MaxRevision = 14
    MaxDoubts = 2
    None = None
PROPERTIES SuccessIsRecorded
CHECK_DEADLOCK FALSE
