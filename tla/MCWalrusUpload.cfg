SPECIFICATION LiveSpec
CONSTANTS
    face = face
    coat = coat
    t1 = t1
    t2 = t2
    Uploads = {face, coat}
    Groups <- MCGroups
    Tabs = {t1, t2}
    Home = t1
    MaxBuilds = 2
    MaxRejections = 1
    None = None
INVARIANTS PaidIsKept
PROPERTIES BoughtOnce PaidIsStored
CHECK_DEADLOCK FALSE
