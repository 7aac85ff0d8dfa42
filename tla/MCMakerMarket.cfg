SPECIFICATION Spec
CONSTANTS
    ann = ann
    bob = bob
    soul = soul
    gear = gear
    spare = spare
    Users = {ann, bob}
    Creator = ann
    Assets = {soul, gear, spare}
    Listings = {l1, l2}
    Gross = {40, 41}
    Prices = {0, 20}
    Amounts = {18}
    MaxEpoch = 1
    MaxRevision = 2
    MaxItemEpoch = 1
    MaxReprice = 1
    Purse = 41
    Payees = {ann}
    Gifts = {18}
    MaxDirect = 18
    PrimaryBps = 1000
    MakerFeeBps = 250
    SoulFeeBps = 250
    ResaleBps = 500
    CreatorBps = 250
    SourceBps = 250
    LaneOf <- MCLaneOf
    HolderOf <- MCHolderOf
    None = None
SYMMETRY MCSymmetry
CONSTRAINT Apart
INVARIANTS CustodyExact SaleFrozen ControlNeverLost OneBaseItemPerHolder BooksAgree AlwaysReturnable
PROPERTIES SaleAsSigned SellsAsExchange DegradedForGood
CHECK_DEADLOCK FALSE
