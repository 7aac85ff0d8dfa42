----------------------------- MODULE MakerMarket -----------------------------
(***************************************************************************)
(* The market of one Maker: fixed-price listings that take a real object   *)
(* into custody (the Maker's AdminCap, a Soul bundle, a Physical asset or  *)
(* a piece of equipment), the MarketRegistryV8 that counts them and the    *)
(* MarketTreasuryV8 every payment passes through.  The module composes     *)
(* with MakerControl: listing control takes the AdminCap away from its     *)
(* owner, and what control allows decides what the market may do.          *)
(*                                                                         *)
(* A purchase is signed against a listing as the buyer's page read it and  *)
(* lands later, so between the two the listing may be repriced, closed or  *)
(* sold to somebody else: an order is what the buyer signed.               *)
(***************************************************************************)
EXTENDS MakerControl, FiniteSets, FiniteSetsExt

CONSTANTS
    Listings,     \* listing objects that may ever be created
    Assets,       \* Souls, Physical assets and pieces of equipment
    LaneOf,       \* the lane of each asset
    HolderOf,     \* who holds each asset at first; None: not claimed yet
    Gross,        \* prices a seller may ask for
    MakerFeeBps, SoulFeeBps, ResaleBps, CreatorBps, SourceBps,
    MaxItemEpoch, \* bound on the ownership epoch of an asset
    MaxReprice,   \* bound on the revision of an open listing
    None

Soul == "soul"
PhysicalBase == "physical_base"
PhysicalPack == "physical_pack"
EquipmentBase == "equipment_base"
EquipmentExternal == "equipment_external"
Physical == {PhysicalBase, PhysicalPack}
Equipment == {EquipmentBase, EquipmentExternal}
Lanes == {Soul} \cup Physical \cup Equipment

Bps == 0..10000

ASSUME AssetAssumption ==
    /\ LaneOf \in [Assets -> Lanes]
    /\ HolderOf \in [Assets -> Users \cup {None}]
    /\ \A a \in Assets : LaneOf[a] = EquipmentBase <=> HolderOf[a] = None
ASSUME QuoteAssumption ==
    /\ Gross \subseteq Nat \ {0}
    /\ MakerFeeBps \in Bps /\ SoulFeeBps \in Bps
    /\ ResaleBps \in Bps /\ CreatorBps \in Bps /\ SourceBps \in Bps
ASSUME NamesAssumption ==
    /\ None \notin Users \cup Listings \cup Assets
    /\ Users \cap Listings = {}
    /\ IsFiniteSet(Listings) /\ IsFiniteSet(Users)
ASSUME MarketBoundAssumption == MaxItemEpoch \in Nat /\ MaxReprice \in Nat

VARIABLES
    items,      \* the asset objects
    entitled,   \* base_item_owners: the base item each address is on record for
    listings,   \* the shared listing objects
    registry,   \* MarketRegistryV8
    till,       \* MarketTreasuryV8
    packs,      \* the PackTreasuryV8 of the pack assets
    orders      \* the purchase each address has signed and not yet landed

marketVars == <<items, entitled, listings, registry, till, packs, orders>>
vars == <<protocol, root, admin, treasury, passes, cash,
          items, entitled, listings, registry, till, packs, orders>>

\* What is for sale when it is the Maker itself.
Control == "control"
ASSUME ControlAssumption == Control \notin Assets \cup {None}

Fresh == "fresh"          \* not created yet
Open == "open"
Settled == "settled"
Canceled == "canceled"
Recovered == "recovered"

NoQuote == [gross |-> 0, protocol |-> 0, creator |-> 0, source |-> 0, seller |-> 0]
NoListing == [status |-> Fresh, good |-> None, seller |-> None, epoch |-> 0,
              quote |-> NoQuote, revision |-> 0, recipient |-> None]

-----------------------------------------------------------------------------
(* Quotes. *)

\* The basis points of a lane: protocol fee, creator royalty, source royalty.
Terms(good) ==
    IF good = Control THEN [fee |-> MakerFeeBps, royalty |-> ResaleBps, origin |-> 0]
    ELSE IF LaneOf[good] \in Equipment THEN [fee |-> SoulFeeBps, royalty |-> 0, origin |-> 0]
    ELSE [fee |-> SoulFeeBps, royalty |-> CreatorBps, origin |-> SourceBps]

\* share: rounds down; a fee that is not zero must not round to zero.
Share(gross, bps) == (gross * bps) \div 10000
ShareDefined(gross, bps) == bps = 0 \/ Share(gross, bps) > 0

Cut(good, gross) == Share(gross, Terms(good).fee) + Share(gross, Terms(good).royalty)
                        + Share(gross, Terms(good).origin)

\* derive_quote succeeds.
Quotable(good, gross) ==
    /\ good \in Assets /\ LaneOf[good] \in Equipment => SoulFeeBps = 250
    /\ ShareDefined(gross, Terms(good).fee)
    /\ ShareDefined(gross, Terms(good).royalty)
    /\ ShareDefined(gross, Terms(good).origin)
    /\ Cut(good, gross) < gross

Quote(good, gross) ==
    [gross |-> gross,
     protocol |-> Share(gross, Terms(good).fee),
     creator |-> Share(gross, Terms(good).royalty),
     source |-> Share(gross, Terms(good).origin),
     seller |-> gross - Cut(good, gross)]

-----------------------------------------------------------------------------
(* The registry and the payment path every lane shares. *)

MarketInit ==
    /\ items = [a \in Assets |-> [holder |-> HolderOf[a], epoch |-> 0, at |-> HolderOf[a]]]
    /\ entitled = [u \in Users |-> None]
    /\ listings = [l \in Listings |-> NoListing]
    /\ registry = [revision |-> 0, listed |-> 0, escrowed |-> 0, completed |-> 0,
                   canceled |-> 0, recovered |-> 0, volume |-> 0, protocolPaid |-> 0,
                   creatorPaid |-> 0, sourcePaid |-> 0, sellerPaid |-> 0]
    /\ till = [escrow |-> 0, escrowed |-> 0, released |-> 0]
    /\ packs = NoRevenue
    /\ orders = [u \in Users |-> None]

Init == ControlInit /\ MarketInit

\* asset_recoverable and protocol_degraded
Degraded == ~ CatalogCurrent
AssetRecoverable == root.lifecycle \in {Paused, Archived} \/ Degraded

\* open_listing, with the listing object it counts.
OpenListing(l, good, seller, epoch, gross) ==
    /\ listings[l] = NoListing
    /\ Quotable(good, gross)
    /\ listings' = [listings EXCEPT ![l] =
          [status |-> Open, good |-> good, seller |-> seller, epoch |-> epoch,
           quote |-> Quote(good, gross), revision |-> 0, recipient |-> None]]
    /\ registry' = [registry EXCEPT !.revision = @ + 1, !.listed = @ + 1, !.escrowed = @ + 1]

\* What close_listing and settle_listing take one of.
Escrowing == registry.escrowed > 0

(* Mutant: a recovery that leaves the listing counted as escrowed. *)
CloseUncounted(l, status) ==
    /\ Escrowing
    /\ listings' = [listings EXCEPT ![l].status = status, ![l].revision = @ + 1,
                                    ![l].recipient = listings[l].seller]
    /\ registry' = [registry EXCEPT !.revision = @ + 1,
                       !.canceled = @ + (IF status = Canceled THEN 1 ELSE 0),
                       !.recovered = @ + (IF status = Recovered THEN 1 ELSE 0)]

\* close_listing, close_soul_listing, close_equipment_listing
CloseListing(l, status) ==
    /\ Escrowing
    /\ listings' = [listings EXCEPT ![l].status = status, ![l].revision = @ + 1,
                                    ![l].recipient = listings[l].seller]
    /\ registry' = [registry EXCEPT !.revision = @ + 1, !.escrowed = @ - 1,
                       !.canceled = @ + (IF status = Canceled THEN 1 ELSE 0),
                       !.recovered = @ + (IF status = Recovered THEN 1 ELSE 0)]

\* settle_listing, with the listing's own fields.
SettleListing(l, buyer) ==
    LET quote == listings[l].quote
    IN /\ Escrowing
       /\ listings' = [listings EXCEPT ![l].status = Settled, ![l].revision = @ + 1,
                                       ![l].recipient = buyer]
       /\ registry' = [registry EXCEPT !.revision = @ + 1, !.escrowed = @ - 1,
                          !.completed = @ + 1, !.volume = @ + quote.gross,
                          !.protocolPaid = @ + quote.protocol,
                          !.creatorPaid = @ + quote.creator,
                          !.sourcePaid = @ + quote.source,
                          !.sellerPaid = @ + quote.seller]
       /\ orders' = [orders EXCEPT ![buyer] = None]

\* escrow_payment and release_*_payment: the payment enters the till, is
\* split by the quote recomputed from the Root, and the till ends empty.
Pay(l, buyer, payment) ==
    LET good == listings[l].good
        quote == Quote(good, listings[l].quote.gross)
        left == till.escrow + payment
                   - quote.protocol - quote.creator - quote.source - quote.seller
        fromPack == good \in Assets /\ LaneOf[good] = PhysicalPack
    IN /\ Quotable(good, quote.gross)
       /\ quote = listings[l].quote
       /\ payment = quote.gross
       /\ cash[buyer] >= payment
       /\ left = 0
       /\ cash' = Credit(Credit(Credit(cash, buyer, - payment),
                                Creator, quote.creator),
                         listings[l].seller, quote.seller)
       /\ protocol' = [protocol EXCEPT !.revenue = @ + quote.protocol]
       /\ till' = [escrow |-> left, escrowed |-> till.escrowed + payment,
                   released |-> till.released + quote.gross]
       /\ packs' = IF fromPack THEN Deposited(packs, quote.source) ELSE packs
       /\ \/ (fromPack \/ quote.source = 0) /\ UNCHANGED treasury
          \/ ~ fromPack /\ Deposit(quote.source)

-----------------------------------------------------------------------------
(* The Maker's control. *)

(* Mutant: control is listed over revenue that was not withdrawn. *)
ListControlUnswept(u, l, gross) ==
    /\ CatalogCurrent
    /\ root.lifecycle = Paused
    /\ Controls(u)
    /\ OpenListing(l, Control, u, root.epoch, gross)
    /\ admin' = [admin EXCEPT !.at = l]
    /\ UNCHANGED <<protocol, root, treasury, passes, cash, items, entitled, till, packs, orders>>

\* list_maker_control_v8: the AdminCap becomes a child of the listing.
ListControl(u, l, gross) ==
    /\ CatalogCurrent
    /\ root.lifecycle = Paused
    /\ treasury.revenue = 0
    /\ Controls(u)
    /\ OpenListing(l, Control, u, root.epoch, gross)
    /\ admin' = [admin EXCEPT !.at = l]
    /\ UNCHANGED <<protocol, root, treasury, passes, cash, items, entitled, till, packs, orders>>

\* purchase_maker_control_v8 through resolve_maker_admin_from_market_v8
PurchaseControl(u) ==
    /\ orders[u] # None
    /\ LET l == orders[u].listing
       IN /\ CatalogCurrent
          /\ listings[l].status = Open /\ listings[l].good = Control
          /\ root.lifecycle = Paused
          /\ root.owner = listings[l].seller
          /\ root.epoch = listings[l].epoch
          /\ admin.at = l
          /\ u # listings[l].seller
          /\ Rotate(u, u)
          /\ Pay(l, u, orders[u].gross)
          /\ SettleListing(l, u)
          /\ UNCHANGED <<passes, items, entitled>>

\* The AdminCap received from the listing is the one the Root accepts, and the
\* Root is still the seller's.
CapInCustody(l) ==
    /\ listings[l].status = Open /\ listings[l].good = Control
    /\ admin.at = l
    /\ AdminValid
    /\ listings[l].seller = root.owner

\* resolve_maker_admin_from_market_v8 back to the recorded seller. The call's
\* other branch, a rotation when the seller no longer owns the Root, asks for
\* a state no open listing is in (SaleFrozen).
ReturnControl(l) ==
    /\ CapInCustody(l)
    /\ admin' = [admin EXCEPT !.at = listings[l].seller]
    /\ UNCHANGED <<protocol, root, treasury, passes, cash, items, entitled, till, packs, orders>>

(* Mutant: a cancellation that asks for a current protocol, as a sale does. *)
CancelControlWhileCurrent(u, l) ==
    /\ CatalogCurrent
    /\ u = listings[l].seller
    /\ ReturnControl(l)
    /\ CloseListing(l, Canceled)

\* cancel_maker_control_listing_v8: whatever the lifecycle and the protocol.
CancelControl(u, l) ==
    /\ u = listings[l].seller
    /\ ReturnControl(l)
    /\ CloseListing(l, Canceled)

\* recover_maker_control_listing_v8, by anyone
RecoverControl(l) ==
    /\ root.lifecycle = Archived \/ Degraded
    /\ ReturnControl(l)
    /\ CloseListing(l, Recovered)

-----------------------------------------------------------------------------
(* Souls, Physical assets and equipment. *)

(* Mutant: ownership read from the record, wherever the object is. *)
OnRecord(u, a) == items[a].holder = u

Owns(u, a) == items[a].at = u /\ items[a].holder = u

(* Mutant: the previous holder stays on record for the base item. *)
HandKeepingRecord(a, to) ==
    /\ items[a].epoch < MaxItemEpoch
    /\ items' = [items EXCEPT ![a] = [holder |-> to, epoch |-> @.epoch + 1, at |-> to]]
    /\ IF LaneOf[a] = EquipmentBase
       THEN /\ entitled[items[a].holder] = a
            /\ to # items[a].holder
            /\ entitled[to] = None
            /\ entitled' = [entitled EXCEPT ![to] = a]
       ELSE UNCHANGED entitled

\* Handing asset a to address to: the holder changes and the epoch moves on.
\* A base item also moves its one-per-holder record, which must be free.
Hand(a, to) ==
    /\ items[a].epoch < MaxItemEpoch
    /\ items' = [items EXCEPT ![a] = [holder |-> to, epoch |-> @.epoch + 1, at |-> to]]
    /\ IF LaneOf[a] = EquipmentBase
       THEN /\ entitled[items[a].holder] = a
            /\ to # items[a].holder
            /\ entitled[to] = None
            /\ entitled' = [entitled EXCEPT ![items[a].holder] = None, ![to] = a]
       ELSE UNCHANGED entitled

\* list_soul_bundle_v8, list_base_physical_v8, list_pack_physical_v8,
\* list_base_equipment_v8, list_external_equipment_v8
ListAsset(u, l, a, gross) ==
    /\ CatalogCurrent
    /\ root.lifecycle = Active
    /\ Owns(u, a)
    /\ OpenListing(l, a, u, items[a].epoch, gross)
    /\ items' = [items EXCEPT ![a].at = l]
    /\ UNCHANGED <<protocol, root, admin, treasury, passes, cash, entitled, till, packs, orders>>

\* The object received from the listing is the one its custody froze.
InCustody(l) ==
    /\ listings[l].status = Open /\ listings[l].good \in Assets
    /\ items[listings[l].good] =
          [holder |-> listings[l].seller, epoch |-> listings[l].epoch, at |-> l]

(* Mutant: the buyer pays what the listing asks by now. *)
PurchaseAtCurrentPrice(u) ==
    /\ orders[u] # None
    /\ LET l == orders[u].listing
       IN /\ CatalogCurrent
          /\ root.lifecycle = Active
          /\ InCustody(l)
          /\ u # listings[l].seller
          /\ Pay(l, u, listings[l].quote.gross)
          /\ Hand(listings[l].good, u)
          /\ SettleListing(l, u)
          /\ UNCHANGED <<root, admin, passes>>

\* purchase_soul_bundle_v8, purchase_base_physical_v8, purchase_pack_physical_v8,
\* purchase_base_equipment_v8, purchase_external_equipment_v8
PurchaseAsset(u) ==
    /\ orders[u] # None
    /\ LET l == orders[u].listing
       IN /\ CatalogCurrent
          /\ root.lifecycle = Active
          /\ InCustody(l)
          /\ LaneOf[listings[l].good] \in Equipment => orders[u].revision = listings[l].revision
          /\ u # listings[l].seller
          /\ Pay(l, u, orders[u].gross)
          /\ Hand(listings[l].good, u)
          /\ SettleListing(l, u)
          /\ UNCHANGED <<root, admin, passes>>

\* return_soul_bundle_from_market_v8, return_physical_from_market_v8,
\* return_owned_*_item_from_market_v8
ReturnAsset(l) ==
    /\ InCustody(l)
    /\ items' = [items EXCEPT ![listings[l].good].at = listings[l].seller]
    /\ UNCHANGED <<protocol, root, admin, treasury, passes, cash, entitled, till, packs, orders>>

\* cancel_*_listing_v8: no ACTIVE and no current-protocol assertion.
CancelAsset(u, l) ==
    /\ u = listings[l].seller
    /\ ReturnAsset(l)
    /\ CloseListing(l, Canceled)

\* recover_*_listing_v8, by anyone
RecoverAsset(l) ==
    /\ AssetRecoverable
    /\ ReturnAsset(l)
    /\ CloseListing(l, Recovered)

\* reprice_equipment_listing_v8. Bounded by MaxReprice.
Reprice(u, l, gross) ==
    /\ CatalogCurrent
    /\ root.lifecycle = Active
    /\ listings[l].status = Open /\ listings[l].good \in Assets
    /\ LaneOf[listings[l].good] \in Equipment
    /\ listings[l].seller = u
    /\ listings[l].revision < MaxReprice
    /\ Quotable(listings[l].good, gross)
    /\ listings' = [listings EXCEPT ![l].quote = Quote(listings[l].good, gross),
                                    ![l].revision = @ + 1]
    /\ registry' = [registry EXCEPT !.revision = @ + 1]
    /\ UNCHANGED <<controlVars, items, entitled, till, packs, orders>>

\* transfer_physical_asset_v8, transfer_owned_base_item_v8 and
\* transfer_owned_external_item_v8 (which lets a holder name itself). A Soul
\* bundle changes hands on the market only.
TransferItem(u, a, to) ==
    /\ Owns(u, a)
    /\ LaneOf[a] # Soul
    /\ LaneOf[a] \in Physical => to # u
    /\ Hand(a, to)
    /\ UNCHANGED <<controlVars, listings, registry, till, packs, orders>>

(* Mutant: a claim of an item that another holder claimed before. *)
ClaimAgain(u, a) ==
    /\ root.lifecycle = Active
    /\ u \in passes
    /\ LaneOf[a] = EquipmentBase
    /\ entitled[u] = None
    /\ items' = [items EXCEPT ![a] = [holder |-> u, epoch |-> 0, at |-> u]]
    /\ entitled' = [entitled EXCEPT ![u] = a]
    /\ UNCHANGED <<controlVars, listings, registry, till, packs, orders>>

\* claim_owned_base_item_v8: one base item per holder, with an access pass.
ClaimBaseItem(u, a) ==
    /\ root.lifecycle = Active
    /\ u \in passes
    /\ LaneOf[a] = EquipmentBase /\ items[a].at = None
    /\ entitled[u] = None
    /\ items' = [items EXCEPT ![a] = [holder |-> u, epoch |-> 0, at |-> u]]
    /\ entitled' = [entitled EXCEPT ![u] = a]
    /\ UNCHANGED <<controlVars, listings, registry, till, packs, orders>>

\* A buyer's page reads an open listing and the wallet signs its purchase
\* (assertMarketPurchaseEligibilityV8 on what the page read).
SignOrder(u, l) ==
    /\ listings[l].status = Open
    /\ u # listings[l].seller
    /\ orders' = [orders EXCEPT ![u] = [listing |-> l, revision |-> listings[l].revision,
                                        gross |-> listings[l].quote.gross]]
    /\ UNCHANGED <<controlVars, items, entitled, listings, registry, till, packs>>

\* deposit_pack_revenue_v8 as a call of its own: anyone's, at any time.
DepositPack(u, amount) ==
    /\ cash[u] >= amount /\ WithinDirect(packs, amount)
    /\ packs' = DepositedDirectly(packs, amount)
    /\ cash' = Credit(cash, u, - amount)
    /\ UNCHANGED <<protocol, root, admin, treasury, passes, items, entitled, listings, registry, till, orders>>

\* withdraw_pack_revenue_v8, by the holder of the Pack's cap.
WithdrawPack(amount, to) ==
    /\ amount <= packs.revenue
    /\ packs' = Drawn(packs, amount)
    /\ cash' = Credit(cash, to, amount)
    /\ UNCHANGED <<protocol, root, admin, treasury, passes, items, entitled, listings, registry, till, orders>>

-----------------------------------------------------------------------------

MarketNext ==
    \/ \E u \in Users : PurchaseControl(u) \/ PurchaseAsset(u)
    \/ \E u \in Users, l \in Listings :
          \/ \E gross \in Gross : \/ ListControl(u, l, gross)
                                  \/ Reprice(u, l, gross)
                                  \/ \E a \in Assets : ListAsset(u, l, a, gross)
          \/ CancelControl(u, l)
          \/ CancelAsset(u, l)
          \/ SignOrder(u, l)
    \/ \E l \in Listings : RecoverControl(l) \/ RecoverAsset(l)
    \/ \E u \in Users, a \in Assets : \/ ClaimBaseItem(u, a)
                                      \/ \E to \in Users : TransferItem(u, a, to)
    \/ \E u \in Users, amount \in Gifts : DepositPack(u, amount)
    \/ \E amount \in Amounts, to \in Payees : WithdrawPack(amount, to)

Next == (ControlNext /\ UNCHANGED marketVars) \/ MarketNext

Spec == Init /\ [][Next]_vars

-----------------------------------------------------------------------------
(* Properties. *)

OpenListings == {l \in Listings : listings[l].status = Open}
Sales == {l \in Listings : listings[l].status = Settled}

Quotes == [gross : Nat, protocol : Nat, creator : Nat, source : Nat, seller : Nat]
Orders == [listing : Listings, revision : Nat, gross : Nat]
ASSUME NoOrderAssumption == None \notin Orders
ListingRecords == [status : {Fresh, Open, Settled, Canceled, Recovered},
                   good : Assets \cup {Control, None}, seller : Users \cup {None},
                   epoch : Nat, quote : Quotes, revision : Nat, recipient : Users \cup {None}]
RegistryRecords == [revision : Nat, listed : Nat, escrowed : Nat, completed : Nat,
                    canceled : Nat, recovered : Nat, volume : Nat, protocolPaid : Nat,
                    creatorPaid : Nat, sourcePaid : Nat, sellerPaid : Nat]
ItemRecords == [holder : Users \cup {None}, epoch : Nat, at : Users \cup Listings \cup {None}]

(* Every variable holds a value of its Move type. *)
TypeOK ==
    /\ protocol \in [enabled : BOOLEAN, revision : Nat, revenue : Nat, direct : Nat]
    /\ root \in [lifecycle : Lifecycles, owner : Users, epoch : Nat, price : Nat]
    /\ admin \in [owner : Users, epoch : Nat, at : Users \cup Listings]
    /\ treasury \in Treasuries
    /\ passes \subseteq Users
    /\ cash \in [Users -> Nat]
    /\ items \in [Assets -> ItemRecords]
    /\ entitled \in [Users -> Assets \cup {None}]
    /\ listings \in [Listings -> ListingRecords]
    /\ registry \in RegistryRecords
    /\ till \in [escrow : Nat, escrowed : Nat, released : Nat]
    /\ packs \in Treasuries
    /\ orders \in [Users -> Orders \cup {None}]

(* An object is inside a listing exactly while that listing is open, and it
   is the object the listing sells: nothing is locked in a closed listing,
   and no two open listings sell the same thing. An asset outside every
   listing is in its holder's hands. *)
CustodyExact ==
    /\ \A l \in Listings :
          /\ admin.at = l <=> listings[l].status = Open /\ listings[l].good = Control
          /\ \A a \in Assets :
                items[a].at = l <=> listings[l].status = Open /\ listings[l].good = a
    /\ \A a \in Assets : items[a].at \in Listings \/ items[a].at = items[a].holder

(* While control is for sale the Maker stays as the buyer read it: paused,
   still the seller's at the epoch listed, and with no revenue that the sale
   would hand over or strand. *)
ControlSaleFrozen ==
    \A l \in OpenListings : listings[l].good = Control =>
        /\ root.lifecycle = Paused
        /\ root.owner = listings[l].seller /\ root.epoch = listings[l].epoch
        /\ AdminValid
        /\ treasury.revenue = 0

(* An asset in custody keeps the holder and the epoch its listing recorded. *)
AssetSaleFrozen ==
    \A l \in OpenListings : listings[l].good \in Assets =>
        /\ items[listings[l].good].holder = listings[l].seller
        /\ items[listings[l].good].epoch = listings[l].epoch

(* Nothing that is for sale changes under its buyer. *)
SaleFrozen == ControlSaleFrozen /\ AssetSaleFrozen

(* The cap is always held by the Root's owner or by the listing that sells
   it, and is always the cap the Root accepts: control is never lost. *)
ControlNeverLost ==
    /\ AdminValid
    /\ admin.at = root.owner \/ admin.at \in OpenListings

\* The registry counts the listings there are, and its volume is exactly what
\* it says it paid out, which is what went through the till.
RegistryAgrees ==
    /\ registry.escrowed = Cardinality(OpenListings)
    /\ registry.completed = Cardinality(Sales)
    /\ registry.listed = registry.escrowed + registry.completed
                           + registry.canceled + registry.recovered
    /\ registry.volume = registry.protocolPaid + registry.creatorPaid
                           + registry.sourcePaid + registry.sellerPaid
    /\ till = [escrow |-> 0, escrowed |-> registry.volume, released |-> registry.volume]

\* The Maker and the Pack collected what sales owe their source and what the
\* access passes were sold for, less the protocol's share of each; what is
\* above that came by direct deposits.
SharesCollected ==
    /\ treasury.collected = treasury.revenue + treasury.withdrawn
    /\ packs.collected = packs.revenue + packs.withdrawn
    /\ treasury.collected + packs.collected =
          registry.sourcePaid
            + Cardinality(passes) * (root.price - Share(root.price, PrimaryBps))
            + treasury.direct + packs.direct

\* Every coin there was at first is in a wallet or in a treasury.
InPurses(purses) == MapThenSumSet(LAMBDA u : purses[u], Users)
CoinsKept ==
    InPurses(cash) + protocol.revenue + treasury.revenue + packs.revenue
        = InPurses([u \in Users |-> Purse])

(* The registry, the till, the treasuries and the wallets tell one story:
   what is listed and sold is counted, what was paid is what was paid out,
   treasuries collected the parts of it that are theirs and nothing else but
   direct deposits, and no sale, pass, deposit or withdrawal makes or loses a
   coin. *)
BooksAgree == RegistryAgrees /\ SharesCollected /\ CoinsKept

(* The base-item record names the item its holder has, in hand or listed;
   nobody ever holds two of them. *)
OneBaseItemPerHolder ==
    \A a \in Assets : LaneOf[a] = EquipmentBase =>
        \A u \in Users : entitled[u] = a <=> items[a].holder = u

(* An open listing can always be taken back by its seller, whatever became
   of the Maker and of the protocol, and by anyone once the sale is off. *)
AlwaysReturnable ==
    \A l \in OpenListings :
        /\ \E u \in Users : ENABLED (CancelControl(u, l) \/ CancelAsset(u, l))
        /\ Degraded => ENABLED (RecoverControl(l) \/ RecoverAsset(l))

(* The same as a condition on the state: for an open listing every check of
   the calls that take its object back succeeds, whoever holds the Maker. *)
Returnable ==
    \A l \in OpenListings :
        /\ listings[l].seller \in Users /\ Escrowing
        /\ CapInCustody(l) \/ InCustody(l)

(* What a buyer signed is what happens: when a purchase lands, the listing
   it was signed for passes to the buyer at the price then read, the seller
   and nobody else is its counterparty, and the object is the buyer's. *)
SaleAsSigned ==
    [][\A l \in Listings : listings[l].status # Settled /\ listings'[l].status = Settled =>
          \E u \in Users \ {listings[l].seller} :
             /\ orders[u] # None /\ orders[u].listing = l
             /\ listings[l].status = Open
             /\ listings[l].quote.gross = orders[u].gross
             /\ listings'[l].recipient = u
             /\ IF listings[l].good = Control
                THEN root'.owner = u /\ admin'.at = u
                ELSE items'[listings[l].good].at = u
             /\ cash'[u] = cash[u] - orders[u].gross
                              + (IF u = Creator THEN listings[l].quote.creator ELSE 0)
      ]_vars

(* A protocol that was disabled or moved on never becomes current again for
   this Maker, even once it is enabled again, and from then on nothing of the
   Maker's is listed or sold and the Maker collects nothing. *)
DegradedForGood ==
    [][Degraded => /\ Degraded'
                   /\ registry'.completed = registry.completed
                   /\ registry'.listed = registry.listed
                   /\ treasury'.collected = treasury.collected]_vars

(* Control changes hands only as its owner's gift or as a sale; either way
   the epoch moves on, so a cap or a listing of an earlier epoch is stale. *)
ControlMovesOn ==
    [][root'.owner # root.owner =>
          /\ root'.epoch = root.epoch + 1
          /\ \/ admin.at = root.owner
             \/ \E l \in OpenListings : admin.at = l /\ listings'[l].status = Settled]_vars

-----------------------------------------------------------------------------
(* The exchange this market implements: whose each good is, what is offered  *)
(* of it, and what buyers agreed to.                                         *)
Goods == Assets \cup {Control}
OwnerNow == [g \in Goods |-> IF g = Control THEN root.owner ELSE items[g].holder]
OfferedNow == [l \in Listings |-> [state |-> listings[l].status, good |-> listings[l].good,
                                   seller |-> listings[l].seller, price |-> listings[l].quote.gross]]
AgreedNow == [u \in Users |-> IF orders[u] = None THEN None
                              ELSE [offer |-> orders[u].listing, price |-> orders[u].gross]]

Exchange == INSTANCE FixedPriceExchange WITH
    Offers <- Listings, Prices <- Gross,
    owner <- OwnerNow, offers <- OfferedNow, agreed <- AgreedNow

(* Gifts, claims, listings, repricing, cancellations, recoveries and sales,
   of control and of assets, are together a fixed-price exchange: what is for
   sale changes hands by that sale only, to a buyer at the price agreed to,
   and whoever puts something up is its owner then. *)
SellsAsExchange == Exchange!ExchangeSpec

=============================================================================
