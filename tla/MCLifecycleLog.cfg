SPECIFICATION LiveSpec
CONSTANTS
    pause = pause
    t1 = t1
    t2 = t2
    Scopes = {pause}
    Tabs = {t1, t2}
    Home = t1
    MaxVersion = 2
    MaxEpoch = 3
    MaxDoubts = 1
    None = None
INVARIANTS HeadsNameWhatIsOpen
PROPERTIES OneInFlightPerScope DoubtResolves
CHECK_DEADLOCK FALSE
