SPECIFICATION Spec
CONSTANTS
    ann = ann
    bob = bob
    hat = hat
    spare = spare
    gem = gem
    pack = pack
    mine = mine
    hers = hers
    one = one
    two = two
    three = three
    head = head
    Users = {ann, bob}
    Creator = ann
    Prices = {0}
    Amounts = {27}
    Payees = {ann}
    Gifts = {18}
    MaxDirect = 18
    PrimaryBps = 1000
    Purse = 60
    MaxEpoch = 0
    MaxRevision = 1
    BaseItems = {hat, spare}
    ExternalItems = {gem}
    Packs = {pack}
    Players = {mine, hers}
    Souls = {one, two, three}
    Dressed = {one}
    Parts = {head}
    PartOf <- MCPartOf
    Plans <- MCPlans
    MaxMoves <- MCMoves
    None = None
SYMMETRY MCSymmetry
CONSTRAINT GiftsApart
INVARIANTS LocksExact AlwaysReleasable ReceiptsAgree QuotaKept
PROPERTIES CompleteAsQuoted
CHECK_DEADLOCK FALSE
