---------------------------- MODULE MakerControl ----------------------------
(***************************************************************************)
(* One Maker on chain: the shared MakerRootV8 with its lifecycle, its      *)
(* owner and its control epoch, the single MakerAdminCapV8 that proves     *)
(* control of it, the MakerTreasuryV8 that collects its revenue, the       *)
(* access passes it sold, and the ProtocolConfigV8 it was created under.   *)
(*                                                                         *)
(* Every action is one Move entry call, which the chain runs atomically.   *)
(* Commitments, package identities and object IDs are pinned at genesis    *)
(* and never change here, so the only part of the "is the catalog/config   *)
(* current" assertions that can fail is the enabled flag and the revision. *)
(***************************************************************************)
EXTENDS Integers

CONSTANTS
    Users,        \* addresses
    Creator,      \* root.creator: the address that drafted the Maker
    Prices,       \* access prices a Maker may be created with; 0 is FREE
    PrimaryBps,   \* protocol share of an access sale, in basis points
    Purse,        \* what every address owns at first
    Amounts,      \* bound: amounts a withdrawal may ask for
    Payees,       \* bound: addresses a withdrawal may be sent to
    Gifts,        \* bound: amounts a direct deposit may bring
    MaxDirect,    \* bound: what a treasury gets by direct deposits
    MaxEpoch,     \* bound on the control epoch
    MaxRevision   \* bound on the revision of the protocol config

ASSUME UsersAssumption == Creator \in Users
ASSUME PriceAssumption == /\ Prices \subseteq Nat
                          /\ PrimaryBps \in 0..9999
                          /\ \A p \in Prices \ {0} : (p * PrimaryBps) \div 10000 < p
ASSUME AmountAssumption == Purse \in Nat /\ Amounts \subseteq Nat \ {0}
                           /\ Payees \subseteq Users
                           /\ Gifts \subseteq Nat \ {0} /\ MaxDirect \in Nat
ASSUME BoundAssumption == MaxEpoch \in Nat /\ MaxRevision \in Nat

VARIABLES
    protocol,   \* ProtocolConfigV8 and its treasury
    root,       \* MakerRootV8
    admin,      \* the MakerAdminCapV8: its fields, and who holds the object
    treasury,   \* MakerTreasuryV8
    passes,     \* holders of a MakerAccessPassV8
    cash        \* coins each address owns

controlVars == <<protocol, root, admin, treasury, passes, cash>>

Draft == "draft"
Active == "active"
Paused == "paused"
Archived == "archived"
Lifecycles == {Draft, Active, Paused, Archived}

\* The revision the catalog, the Root and the market registry pinned.
Genesis == 0

\* The wallets once amount, possibly negative, has reached address u.
Credit(purse, u, amount) == [purse EXCEPT ![u] = @ + amount]

\* A treasury. Direct is a history: what of it deposits brought that no
\* payment of these modules made.
Treasuries == [revenue : Nat, collected : Nat, withdrawn : Nat, direct : Nat]
NoRevenue == [revenue |-> 0, collected |-> 0, withdrawn |-> 0, direct |-> 0]
Deposited(till, amount) == [till EXCEPT !.revenue = @ + amount, !.collected = @ + amount]
DepositedDirectly(till, amount) == [Deposited(till, amount) EXCEPT !.direct = @ + amount]
Drawn(till, amount) == [till EXCEPT !.revenue = @ - amount, !.withdrawn = @ + amount]

\* Within the bound on direct deposits.
WithinDirect(till, amount) == till.direct + amount <= MaxDirect

-----------------------------------------------------------------------------

(* Mutant: only the flag is looked at. *)
EnabledIsCurrent == protocol.enabled

\* assert_catalog_current_v8 and assert_current_protocol_config_v8: enabled,
\* and still at the revision (hence the commitment) pinned at genesis.
CatalogCurrent == protocol.enabled /\ protocol.revision = Genesis

\* assert_admin_v8: the presented cap is the one the Root names.
AdminValid == admin.owner = root.owner /\ admin.epoch = root.epoch

\* The sender u owns the cap object, the cap is valid, u is the Root's owner.
Controls(u) == admin.at = u /\ AdminValid /\ root.owner = u

ControlInit ==
    /\ protocol = [enabled |-> TRUE, revision |-> Genesis, revenue |-> 0, direct |-> 0]
    /\ \E price \in Prices :
          root = [lifecycle |-> Draft, owner |-> Creator, epoch |-> 0, price |-> price]
    /\ admin = [owner |-> Creator, epoch |-> 0, at |-> Creator]
    /\ treasury = NoRevenue
    /\ passes = {}
    /\ cash = [u \in Users |-> Purse]

\* activate_maker_v8, once the draft's scaffold is complete.
Activate(u) ==
    /\ root.lifecycle = Draft
    /\ Controls(u)
    /\ CatalogCurrent
    /\ root' = [root EXCEPT !.lifecycle = Active]
    /\ UNCHANGED <<protocol, admin, treasury, passes, cash>>

\* pause_maker_v8 and archive_maker_v8: allowed on a disabled protocol too.
Stop(u, next) ==
    /\ Controls(u)
    /\ \/ root.lifecycle = Active /\ next \in {Paused, Archived}
       \/ root.lifecycle = Paused /\ next = Archived
    /\ root' = [root EXCEPT !.lifecycle = next]
    /\ UNCHANGED <<protocol, admin, treasury, passes, cash>>

\* resume_maker_v8
Resume(u) ==
    /\ Controls(u)
    /\ CatalogCurrent
    /\ root.lifecycle = Paused
    /\ root' = [root EXCEPT !.lifecycle = Active]
    /\ UNCHANGED <<protocol, admin, treasury, passes, cash>>

(* Mutant: the new cap at the epoch of the old one. *)
RotateSameEpoch(sender, to) ==
    /\ AdminValid
    /\ sender \in {root.owner, to}
    /\ root.epoch < MaxEpoch
    /\ to # root.owner
    /\ root' = [root EXCEPT !.owner = to, !.epoch = @ + 1]
    /\ admin' = [owner |-> to, epoch |-> root.epoch, at |-> to]

\* rotate_maker_control_v8: the old cap is deleted, the new owner receives a
\* fresh one at the next epoch. Bounded by MaxEpoch (the code: 2^64 - 1).
Rotate(sender, to) ==
    /\ AdminValid
    /\ sender \in {root.owner, to}
    /\ root.epoch < MaxEpoch
    /\ to # root.owner
    /\ root' = [root EXCEPT !.owner = to, !.epoch = @ + 1]
    /\ admin' = [owner |-> to, epoch |-> root.epoch + 1, at |-> to]

\* transfer_maker_control_v8: a gift of control, in any lifecycle.
TransferControl(u, to) ==
    /\ admin.at = u
    /\ Rotate(u, to)
    /\ UNCHANGED <<protocol, treasury, passes, cash>>

\* set_protocol_enabled_v8. Every change moves the revision on, so enabling
\* the protocol again does not bring back the revision a Maker pinned.
ToggleProtocol ==
    /\ protocol.revision < MaxRevision
    /\ protocol' = [protocol EXCEPT !.enabled = ~@, !.revision = @ + 1]
    /\ UNCHANGED <<root, admin, treasury, passes, cash>>

\* deposit_maker_revenue_v8
Depositable == root.lifecycle = Active /\ CatalogCurrent
Deposit(amount) ==
    /\ Depositable
    /\ amount > 0
    /\ treasury' = Deposited(treasury, amount)

\* The same as a call of its own. It is public and asks for no cap, so u is
\* anyone, or the payer of a companion package that settles through it and is
\* not modelled beside this one (a completion, a Physical mint, a royalty).
DepositMaker(u, amount) ==
    /\ Depositable
    /\ cash[u] >= amount /\ WithinDirect(treasury, amount)
    /\ treasury' = DepositedDirectly(treasury, amount)
    /\ cash' = Credit(cash, u, - amount)
    /\ UNCHANGED <<protocol, root, admin, passes>>

\* deposit_protocol_revenue_v8, public too: enabled, at whatever revision.
DepositProtocol(u, amount) ==
    /\ protocol.enabled
    /\ cash[u] >= amount /\ WithinDirect(protocol, amount)
    /\ protocol' = [protocol EXCEPT !.revenue = @ + amount, !.direct = @ + amount]
    /\ cash' = Credit(cash, u, - amount)
    /\ UNCHANGED <<root, admin, treasury, passes>>

\* claim_free_maker_access_v8: it does not consult the protocol config.
ClaimFreeAccess(u) ==
    /\ root.lifecycle = Active
    /\ root.price = 0
    /\ u \notin passes
    /\ passes' = passes \cup {u}
    /\ UNCHANGED <<protocol, root, admin, treasury, cash>>

\* purchase_maker_access_v8: the protocol's share, then the Maker's residual.
PurchaseAccess(u) ==
    LET share == (root.price * PrimaryBps) \div 10000
    IN /\ root.price > 0
       /\ PrimaryBps = 0 \/ share > 0
       /\ cash[u] >= root.price
       /\ u \notin passes
       /\ Deposit(root.price - share)
       /\ protocol' = [protocol EXCEPT !.revenue = @ + share]
       /\ cash' = Credit(cash, u, - root.price)
       /\ passes' = passes \cup {u}
       /\ UNCHANGED <<root, admin>>

\* withdraw_maker_revenue_v8: in every lifecycle, protocol enabled or not.
WithdrawMaker(u, amount, to) ==
    /\ Controls(u)
    /\ amount <= treasury.revenue
    /\ treasury' = Drawn(treasury, amount)
    /\ cash' = Credit(cash, to, amount)
    /\ UNCHANGED <<protocol, root, admin, passes>>

\* withdraw_protocol_revenue_v8, by the holder of the ProtocolAdminCapV8.
WithdrawProtocol(amount, to) ==
    /\ amount <= protocol.revenue
    /\ protocol' = [protocol EXCEPT !.revenue = @ - amount]
    /\ cash' = Credit(cash, to, amount)
    /\ UNCHANGED <<root, admin, treasury, passes>>

ControlNext ==
    \/ \E u \in Users : \/ Activate(u)
                        \/ \E next \in {Paused, Archived} : Stop(u, next)
                        \/ Resume(u)
                        \/ \E to \in Users : TransferControl(u, to)
                        \/ ClaimFreeAccess(u)
                        \/ PurchaseAccess(u)
                        \/ \E amount \in Amounts, to \in Payees : WithdrawMaker(u, amount, to)
                        \/ \E amount \in Gifts : DepositMaker(u, amount) \/ DepositProtocol(u, amount)
    \/ ToggleProtocol
    \/ \E amount \in Amounts, to \in Payees : WithdrawProtocol(amount, to)
=============================================================================
