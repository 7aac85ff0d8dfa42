----------------------------- MODULE MakerWardrobe -----------------------------
(***************************************************************************)
(* What is worn in one Maker: base items claimed by holders, items of an   *)
(* external product, Packs and their passes, and the loadouts all of these *)
(* go into.  A loadout is a Player loadout or the equipment of a Soul.  An *)
(* item that is worn is locked to one place of one loadout until its       *)
(* holder takes it off, and a locked item cannot change hands; Maker, Pack *)
(* and product may be paused, revoked or archived in between.              *)
(*                                                                         *)
(* Every action is one transaction.  The calls compare the loadout's and   *)
(* the registry's revision with one the sender read; a stale one aborts,   *)
(* so an action is the call whose revision is current, and revisions are   *)
(* left out.  An update of equipment is one transaction too: the guard     *)
(* that begins it has no abilities, so the same transaction finishes it.   *)
(***************************************************************************)
EXTENDS MakerControl

CONSTANTS
    BaseItems,     \* base items that may ever be claimed, all of one definition
    ExternalItems, \* items of the external product that may ever be minted
    Packs,         \* Pack releases, each of one Style
    Players,       \* Player loadouts that may ever be created
    Souls,         \* Souls that may ever be minted
    Parts,         \* parts of the Maker; all of them are required
    PartOf,        \* the part an item, or a Pack's Style, is worn on
    Plans,         \* what a Maker may be published with
    Dressed,       \* bound: the Souls that may get equipment
    MaxMoves,      \* bound: how often an item or a Soul changes hands
    None

Items == BaseItems \cup ExternalItems
Loadouts == Players \cup Souls    \* an equipment goes by the name of its Soul
MakerPass == "maker pass"         \* the access subject of a plain base Style

\* How a Pack is come by, and how a completion is priced.
Free == "free"
Paid == "paid"
Included == "included"
QuotaThenPaid == "quota then paid"
QuotaThenBlock == "quota then block"
Modes == {Free, Paid, QuotaThenPaid, QuotaThenBlock}
Pricing == {t \in [mode : Modes, price : Nat, quota : Nat, cap : Nat] :
               /\ t.price > 0 <=> t.mode \in {Paid, QuotaThenPaid}
               /\ t.quota > 0 <=> t.mode \in {QuotaThenPaid, QuotaThenBlock}
               /\ t.cap # 0 => t.quota <= t.cap}

\* What a place of a loadout wears, and where an item that is worn is locked to.
Selections == [source : {"base", "external", "pack"},
               subject : Items \cup Packs \cup {MakerPass}, epoch : Nat]
Locks == [loadout : Loadouts, place : Parts \X Nat]
Ownerships == [owner : Users, epoch : Nat]     \* of a Soul

\* A plan is what publication fixes for good; stock is a bound, the objects
\* that may come to exist beside it.
ASSUME PlanAssumption ==
    \A plan \in Plans : /\ plan.assetized \in BOOLEAN
                        /\ plan.capacity \in Nat \ {0}
                        /\ plan.access \in {Free, Paid, Included}
                        /\ plan.price \in Nat /\ plan.fixed \in Nat
                        /\ plan.base \in Pricing /\ plan.pack \in Pricing
                        /\ plan.stock \subseteq Items \cup Packs \cup Loadouts
ASSUME WardrobeAssumption ==
    /\ PartOf \in [Items \cup Packs -> Parts]
    /\ BaseItems \cap ExternalItems = {} /\ Items \cap Packs = {}
    /\ Players \cap Souls = {} /\ Dressed \subseteq Souls
    /\ MakerPass \notin Items \cup Packs
    /\ None \notin Users \cup Selections \cup Locks \cup Ownerships
    /\ MaxMoves \in [Items \cup Souls -> Nat]

VARIABLES
    terms,      \* the plan of the Maker
    product,    \* ExternalItemProductV8, with its admission record
    packs,      \* the PackReleaseV8, with their admission records
    packPasses, \* holders of a PackPassV8 of each Pack
    tills,      \* the PackTreasuryV8
    items,      \* OwnedBaseItemV8 and OwnedExternalItemV8
    players,    \* the holder of each Player loadout
    souls,      \* the Souls, as the native package keeps them
    binding,    \* SoulEquipmentBindingV8 of each equipment: the Soul as it was
    worn        \* what each loadout has at each place

goods == <<terms, product, packs, packPasses, tills>>
wardrobeVars == <<terms, product, packs, packPasses, tills,
                  items, players, souls, binding, worn>>

New == "new"
Admitted == "admitted"
Revoked == "revoked"
Sealed == "sealed"

\* The places of a loadout: equipment has one for each part.
Places == Parts \X (1..terms.capacity)
PlacesOf(l) == {k \in Places : l \in Souls => k[2] = 1}

\* The places a loadout wears something at.
WornAt(l) == {k \in Places : worn[l][k] # None}

Selection(source, subject, epoch) == [source |-> source, subject |-> subject, epoch |-> epoch]

WardrobeInit ==
    /\ terms \in Plans
    /\ product = [lifecycle |-> Active, admission |-> New]
    /\ packs = [p \in Packs |-> [lifecycle |-> Draft, admission |-> New]]
    /\ packPasses = [p \in Packs |-> {}]
    /\ tills = [p \in Packs |-> NoRevenue]
    /\ items = [a \in Items |-> [holder |-> None, epoch |-> 0, listed |-> FALSE, lock |-> None]]
    /\ players = [l \in Players |-> None]
    /\ souls = [s \in Souls |-> None]
    /\ binding = [s \in Souls |-> None]
    /\ worn = [l \in Loadouts |-> [k \in Places |-> None]]

-----------------------------------------------------------------------------
(* Items. *)

\* u has the object itself: it is u's, and not in the custody of a listing.
Has(u, a) == items[a].holder = u /\ ~ items[a].listed

HoldsBase(u) == \E a \in BaseItems : items[a].holder = u

\* claim_owned_base_item_v8: one of a definition for each holder.
ClaimItem(u, a) ==
    /\ root.lifecycle = Active
    /\ terms.assetized /\ a \in BaseItems \cap terms.stock
    /\ u \in passes
    /\ items[a].holder = None /\ ~ HoldsBase(u)
    /\ items' = [items EXCEPT ![a].holder = u]
    /\ UNCHANGED <<controlVars, goods, players, souls, binding, worn>>

\* mint_owned_external_item_v8, by the holder of the product's cap
MintItem(a, to) ==
    /\ a \in ExternalItems \cap terms.stock
    /\ product.lifecycle = Active
    /\ items[a].holder = None
    /\ items' = [items EXCEPT ![a].holder = to]
    /\ UNCHANGED <<controlVars, goods, players, souls, binding, worn>>

\* The item is another holder's, at the next epoch. A base item also moves
\* its holder's record, so the recipient has no base item.
Hand(a, to) ==
    /\ items[a].lock = None
    /\ a \in BaseItems => to # items[a].holder /\ ~ HoldsBase(to)
    /\ items[a].epoch < MaxMoves[a]
    /\ items' = [items EXCEPT ![a] =
          [holder |-> to, epoch |-> @.epoch + 1, listed |-> FALSE, lock |-> None]]

\* transfer_owned_base_item_v8, transfer_owned_external_item_v8
TransferItem(u, a, to) ==
    /\ Has(u, a)
    /\ Hand(a, to)
    /\ UNCHANGED <<controlVars, goods, players, souls, binding, worn>>

\* custody_owned_base_item_for_market_v8 and its external form
ListItem(u, a) ==
    /\ root.lifecycle = Active /\ CatalogCurrent
    /\ Has(u, a)
    /\ items[a].lock = None
    /\ items' = [items EXCEPT ![a].listed = TRUE]
    /\ UNCHANGED <<controlVars, goods, players, souls, binding, worn>>

\* return_owned_base_item_from_market_v8 and its external form
ReturnItem(a) ==
    /\ items[a].listed
    /\ items' = [items EXCEPT ![a].listed = FALSE]
    /\ UNCHANGED <<controlVars, goods, players, souls, binding, worn>>

\* purchase_owned_base_item_from_market_v8 and its external form; the
\* payment is MakerMarket's.
SellItem(a, to) ==
    /\ root.lifecycle = Active /\ CatalogCurrent
    /\ items[a].listed
    /\ to # items[a].holder
    /\ Hand(a, to)
    /\ UNCHANGED <<controlVars, goods, players, souls, binding, worn>>

-----------------------------------------------------------------------------
(* The external product and the Packs. Whoever holds their cap acts. *)

\* pause_, resume_ and archive_external_product_v8
SetProduct(next) ==
    /\ ExternalItems \cap terms.stock # {}
    /\ \/ product.lifecycle = Active /\ next = Paused
       \/ product.lifecycle = Paused /\ next = Active
       \/ product.lifecycle # Archived /\ next = Archived
    /\ product' = [product EXCEPT !.lifecycle = next]
    /\ UNCHANGED <<controlVars, terms, packs, packPasses, tills,
                   items, players, souls, binding, worn>>

\* admit_open_external_product_v8, admit_certified_external_product_v8
AdmitProduct(u) ==
    /\ ExternalItems \cap terms.stock # {}
    /\ root.lifecycle = Active /\ Controls(u)
    /\ product.lifecycle = Active /\ product.admission = New
    /\ product' = [product EXCEPT !.admission = Admitted]
    /\ UNCHANGED <<controlVars, terms, packs, packPasses, tills,
                   items, players, souls, binding, worn>>

\* revoke_external_product_v8
RevokeProduct(u) ==
    /\ Controls(u)
    /\ product.admission = Admitted
    /\ product' = [product EXCEPT !.admission = Revoked]
    /\ UNCHANGED <<controlVars, terms, packs, packPasses, tills,
                   items, players, souls, binding, worn>>

\* seal_pack_release_v8, once its declared Styles are all there
SealPack(p) ==
    /\ p \in terms.stock /\ packs[p].lifecycle = Draft
    /\ packs' = [packs EXCEPT ![p].lifecycle = Sealed]
    /\ UNCHANGED <<controlVars, terms, product, packPasses, tills,
                   items, players, souls, binding, worn>>

\* pause_, resume_ (which asks for the admission again) and archive_pack_release_v8
SetPack(p, next) ==
    /\ \/ packs[p].lifecycle = Active /\ next \in {Paused, Archived}
       \/ packs[p].lifecycle = Paused /\ next = Active /\ packs[p].admission = Admitted
       \/ packs[p].lifecycle = Paused /\ next = Archived
    /\ packs' = [packs EXCEPT ![p].lifecycle = next]
    /\ UNCHANGED <<controlVars, terms, product, packPasses, tills,
                   items, players, souls, binding, worn>>

\* admit_pack_release_v8: admission activates a sealed release.
AdmitPack(u, p) ==
    /\ root.lifecycle = Active /\ Controls(u)
    /\ packs[p] = [lifecycle |-> Sealed, admission |-> New]
    /\ packs' = [packs EXCEPT ![p] = [lifecycle |-> Active, admission |-> Admitted]]
    /\ UNCHANGED <<controlVars, terms, product, packPasses, tills,
                   items, players, souls, binding, worn>>

\* revoke_pack_admission_v8
RevokePack(u, p) ==
    /\ Controls(u)
    /\ packs[p].admission = Admitted
    /\ packs' = [packs EXCEPT ![p].admission = Revoked]
    /\ UNCHANGED <<controlVars, terms, product, packPasses, tills,
                   items, players, souls, binding, worn>>

PackLive(p) == packs[p] = [lifecycle |-> Active, admission |-> Admitted]

\* protocol_share: what is not free has a share that does not round to zero.
Share(gross) == (gross * PrimaryBps) \div 10000
Shareable(gross) == gross > 0 /\ (PrimaryBps = 0 \/ Share(gross) > 0)

\* new_pack_pass: each Pack issues one pass to a holder.
NewPackPass(u, p) ==
    /\ u \notin packPasses[p]
    /\ packPasses' = [packPasses EXCEPT ![p] = @ \cup {u}]

\* issue_free_pack_pass_v8, purchase_pack_pass_v8, issue_included_pack_pass_v8
TakePackPass(u, p) ==
    /\ PackLive(p)
    /\ NewPackPass(u, p)
    /\ \/ /\ terms.access = Free \/ (terms.access = Included /\ u \in passes)
          /\ UNCHANGED <<protocol, cash, tills>>
       \/ /\ terms.access = Paid
          /\ CatalogCurrent
          /\ Shareable(terms.price) /\ cash[u] >= terms.price
          /\ cash' = Credit(cash, u, - terms.price)
          /\ protocol' = [protocol EXCEPT !.revenue = @ + Share(terms.price)]
          /\ tills' = [tills EXCEPT ![p] = Deposited(@, terms.price - Share(terms.price))]
    /\ UNCHANGED <<root, admin, treasury, passes, terms, product, packs,
                   items, players, souls, binding, worn>>

\* withdraw_pack_revenue_v8: in every lifecycle.
WithdrawPack(p, amount, to) ==
    /\ amount <= tills[p].revenue
    /\ tills' = [tills EXCEPT ![p] = Drawn(@, amount)]
    /\ cash' = Credit(cash, to, amount)
    /\ UNCHANGED <<protocol, root, admin, treasury, passes, terms, product, packs, packPasses,
                   items, players, souls, binding, worn>>

(* Mutant: the coin is put away and not counted. *)
DepositUncounted(u, p, amount) ==
    /\ p \in terms.stock
    /\ cash[u] >= amount /\ WithinDirect(tills[p], amount)
    /\ tills' = [tills EXCEPT ![p].revenue = @ + amount, ![p].direct = @ + amount]
    /\ cash' = Credit(cash, u, - amount)
    /\ UNCHANGED <<protocol, root, admin, treasury, passes, terms, product, packs, packPasses,
                   items, players, souls, binding, worn>>

\* deposit_pack_revenue_v8 as a call of its own, public and without a cap: in
\* every lifecycle of Pack and Maker, whatever the protocol. It also stands
\* for what the market's royalties pay a Pack.
DepositPack(u, p, amount) ==
    /\ p \in terms.stock
    /\ cash[u] >= amount /\ WithinDirect(tills[p], amount)
    /\ tills' = [tills EXCEPT ![p] = DepositedDirectly(@, amount)]
    /\ cash' = Credit(cash, u, - amount)
    /\ UNCHANGED <<protocol, root, admin, treasury, passes, terms, product, packs, packPasses,
                   items, players, souls, binding, worn>>

-----------------------------------------------------------------------------
(* Loadouts. *)

\* create_maker_loadout_v8
CreateLoadout(u, l) ==
    /\ root.lifecycle = Active
    /\ u \in passes
    /\ l \in Players \cap terms.stock /\ players[l] = None
    /\ players' = [players EXCEPT ![l] = u]
    /\ UNCHANGED <<controlVars, goods, items, souls, binding, worn>>

\* create_soul_equipment_v8, bound to the Soul's owner and epoch of now
CreateEquipment(u, s) ==
    /\ CatalogCurrent /\ root.lifecycle = Active
    /\ u \in passes
    /\ s \in Dressed /\ souls[s] # None /\ binding[s] = None
    /\ souls[s].owner = u
    /\ binding' = [binding EXCEPT ![s] = souls[s]]
    /\ UNCHANGED <<controlVars, goods, items, players, souls, worn>>

\* u may write loadout l: assert_loadout_holder_revision, or for equipment
\* begin_soul_equipment_update_v8 with the native package's claim.
MayWrite(u, l) ==
    IF l \in Players
    THEN players[l] = u
    ELSE binding[l] # None /\ binding[l] = souls[l] /\ binding[l].owner = u

\* close_soul_equipment_v8
CloseEquipment(u, s) ==
    /\ s \in Souls /\ MayWrite(u, s)
    /\ WornAt(s) = {}
    /\ binding' = [binding EXCEPT ![s] = None]
    /\ UNCHANGED <<controlVars, goods, items, players, souls, worn>>

\* The native package lets a Soul change hands only without equipment.
MoveSoul(s, to) ==
    /\ souls[s] # None /\ binding[s] = None
    /\ to # souls[s].owner
    /\ souls[s].epoch < MaxMoves[s]
    /\ souls' = [souls EXCEPT ![s] = [owner |-> to, epoch |-> @.epoch + 1]]
    /\ UNCHANGED <<controlVars, goods, items, players, binding, worn>>

\* scoped_selection_slot: a place the caller names, or the first free one.
FreePlace(l, k) == k \in PlacesOf(l) /\ worn[l][k] = None

\* assert_loadout_write, assert_loadout_maker_access and selection_slot
CanInstall(u, l, k) ==
    /\ root.lifecycle = Active
    /\ MayWrite(u, l)
    /\ u \in passes
    /\ FreePlace(l, k)

Install(l, k, selection) == worn' = [worn EXCEPT ![l][k] = selection]
ClearPlace(l, k) == worn' = [worn EXCEPT ![l][k] = None]

\* select_base_style_v8: without assetization the Maker pass is enough.
SelectBase(u, l, k) ==
    /\ CanInstall(u, l, k)
    /\ ~ terms.assetized
    /\ Install(l, k, Selection("base", MakerPass, 0))
    /\ UNCHANGED <<controlVars, goods, items, players, souls, binding>>

\* select_pack_style_v8
SelectPack(u, l, k, p) ==
    /\ CanInstall(u, l, k) /\ k[1] = PartOf[p]
    /\ PackLive(p)
    /\ u \in packPasses[p]
    /\ Install(l, k, Selection("pack", p, 0))
    /\ UNCHANGED <<controlVars, goods, items, players, souls, binding>>

\* The item at place k of loadout l, and locked to it.
SourceOf(a) == IF a \in BaseItems THEN "base" ELSE "external"
Lock(l, k, a) ==
    /\ items[a].lock = None
    /\ k[1] = PartOf[a]
    /\ Install(l, k, Selection(SourceOf(a), a, items[a].epoch))
    /\ items' = [items EXCEPT ![a].lock = [loadout |-> l, place |-> k]]

\* equip_owned_base_style_v8
EquipOwnedBase(u, l, k, a) ==
    /\ CanInstall(u, l, k)
    /\ terms.assetized
    /\ a \in BaseItems /\ Has(u, a)
    /\ Lock(l, k, a)
    /\ UNCHANGED <<controlVars, goods, players, souls, binding>>

\* assert_external_access
Accessible(u, a) ==
    /\ product = [lifecycle |-> Active, admission |-> Admitted]
    /\ a \in ExternalItems /\ Has(u, a)

\* equip_external_style_v8
EquipExternal(u, l, k, a) ==
    /\ CanInstall(u, l, k)
    /\ Accessible(u, a)
    /\ Lock(l, k, a)
    /\ UNCHANGED <<controlVars, goods, players, souls, binding>>

\* Item a, which u has, is on loadout l, at the place it is locked to.
CanRelease(u, l, a) ==
    /\ MayWrite(u, l)
    /\ Has(u, a)
    /\ items[a].lock # None /\ items[a].lock.loadout = l
    /\ LET k == items[a].lock.place
       IN k \in WornAt(l) /\ worn[l][k].source = SourceOf(a) /\ worn[l][k].subject = a

\* It was put on with the epoch it has now.
WornAsIs(l, a) == worn[l][items[a].lock.place].epoch = items[a].epoch

Release(u, l, a) ==
    /\ CanRelease(u, l, a)
    /\ ClearPlace(l, items[a].lock.place)
    /\ items' = [items EXCEPT ![a].lock = None]
    /\ UNCHANGED <<controlVars, goods, players, souls, binding>>

\* unequip_external_style_v8: in every lifecycle.
UnequipExternal(u, l, a) ==
    /\ a \in ExternalItems
    /\ Release(u, l, a)

(* Mutant: a base item can only be taken off while the Maker is active. *)
UnequipWhileActive(u, l, a) ==
    /\ root.lifecycle = Active
    /\ a \in BaseItems
    /\ Release(u, l, a)
    /\ WornAsIs(l, a)

\* unequip_owned_base_style_v8: in every lifecycle.
UnequipOwnedBase(u, l, a) ==
    /\ a \in BaseItems
    /\ Release(u, l, a)
    /\ WornAsIs(l, a)

(* Mutant: clearing keeps out external selections only. *)
ClearUnlessExternal(u, l, k) ==
    /\ MayWrite(u, l)
    /\ k \in WornAt(l)
    /\ worn[l][k].source # "external"
    /\ ClearPlace(l, k)
    /\ UNCHANGED <<controlVars, goods, items, players, souls, binding>>

\* clear_non_external_selection_v8: what no item is locked for.
Clear(u, l, k) ==
    /\ MayWrite(u, l)
    /\ k \in WornAt(l)
    /\ worn[l][k].source # "external"
    /\ worn[l][k].source = "base" => worn[l][k].subject = MakerPass
    /\ ClearPlace(l, k)
    /\ UNCHANGED <<controlVars, goods, items, players, souls, binding>>

WardrobeNext ==
    \/ \E a \in Items : \/ ReturnItem(a)
                        \/ \E to \in Users : MintItem(a, to) \/ SellItem(a, to)
    \/ \E next \in {Active, Paused, Archived} : SetProduct(next)
    \/ \E p \in Packs : \/ SealPack(p)
                        \/ \E next \in {Active, Paused, Archived} : SetPack(p, next)
                        \/ \E amount \in Amounts, to \in Payees : WithdrawPack(p, amount, to)
    \/ \E s \in Souls, to \in Users : MoveSoul(s, to)
    \/ \E u \in Users :
          \/ AdmitProduct(u) \/ RevokeProduct(u)
          \/ \E p \in Packs : \/ AdmitPack(u, p) \/ RevokePack(u, p) \/ TakePackPass(u, p)
                              \/ \E amount \in Gifts : DepositPack(u, p, amount)
          \/ \E a \in Items : \/ ClaimItem(u, a) \/ ListItem(u, a)
                              \/ \E to \in Users : TransferItem(u, a, to)
          \/ \E s \in Souls : CreateEquipment(u, s) \/ CloseEquipment(u, s)
          \/ \E l \in Players : CreateLoadout(u, l)
          \/ \E l \in Loadouts :
                \/ \E a \in Items : UnequipExternal(u, l, a) \/ UnequipOwnedBase(u, l, a)
                \/ \E k \in Places :
                      \/ SelectBase(u, l, k) \/ Clear(u, l, k)
                      \/ \E p \in Packs : SelectPack(u, l, k, p)
                      \/ \E a \in Items : EquipOwnedBase(u, l, k, a) \/ EquipExternal(u, l, k, a)

-----------------------------------------------------------------------------
(* An item is locked to a place exactly when that place wears it, for the
   holder and at the epoch it has now, and it is in that holder's hands: no
   call leaves a lock behind, or a place worn by what has moved on. *)
LocksExact ==
    \A l \in Loadouts, k \in Places :
        /\ \A a \in Items :
              items[a].lock = [loadout |-> l, place |-> k]
                  <=> worn[l][k] # None /\ worn[l][k].subject = a
        /\ worn[l][k] # None /\ worn[l][k].subject \in Items =>
              LET a == worn[l][k].subject
              IN /\ worn[l][k] = Selection(SourceOf(a), a, items[a].epoch)
                 /\ MayWrite(items[a].holder, l)
                 /\ ~ items[a].listed

(* Whatever became of the Maker, the product, the protocol and the Soul, who
   wears an item can take it off. *)
AlwaysReleasable ==
    \A a \in Items : items[a].lock # None =>
        ENABLED (\/ UnequipExternal(items[a].holder, items[a].lock.loadout, a)
                 \/ UnequipOwnedBase(items[a].holder, items[a].lock.loadout, a))

(* The same as a condition on the state: whoever holds an item that is worn
   passes every check of the call that takes it off. *)
Releasable ==
    \A a \in Items : items[a].lock # None =>
        /\ CanRelease(items[a].holder, items[a].lock.loadout, a)
        /\ WornAsIs(items[a].lock.loadout, a)
=============================================================================
