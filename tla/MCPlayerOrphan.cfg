SPECIFICATION Spec
CONSTANTS
    buy = buy
    again = again
    equip = equip
    pack = pack
    loadout = loadout
    Actions = {buy, again, equip}
    Scopes = {pack, loadout}
    Tabs = {t1}
    Rereads = TRUE
    MaxRevision = 7
    MaxEpoch = 1
    ScopeOf <- MCScopeOf
    None = None
SYMMETRY MCSymmetry
INVARIANTS OneUnsettledPerRoot
CHECK_DEADLOCK FALSE
