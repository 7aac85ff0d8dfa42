SPECIFICATION Spec
CONSTANTS
    buy = buy
    again = again
    equip = equip
    pack = pack
    loadout = loadout
    Actions = {buy, equip}
    Scopes = {pack, loadout}
    Tabs = {t1, t2}
    Rereads = FALSE
    MaxRevision = 5
    MaxEpoch = 1
    ScopeOf <- MCScopeOf
    None = None
SYMMETRY MCSymmetry
INVARIANTS VerdictsTrue OneUnsettledPerRoot
PROPERTIES KeepsLedger
CHECK_DEADLOCK FALSE
