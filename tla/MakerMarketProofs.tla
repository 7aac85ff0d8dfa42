-------------------------- MODULE MakerMarketProofs --------------------------
(***************************************************************************)
(* What MakerMarket guarantees for any number of users, listings, assets   *)
(* and prices, and for any basis points.                                   *)
(*                                                                         *)
(* The inductive invariant is the conjunction of the type invariant and    *)
(* the safety invariants, which hold each other up: that control is frozen *)
(* while it is for sale needs that the cap is in the listing, which needs  *)
(* that a listing's object is never handed out by another path.            *)
(* The market implements the exchange under it; and MoneyInv, on top of    *)
(* it, follows every coin.                                                 *)
(***************************************************************************)
EXTENDS MakerMarket, FiniteSetTheorems, TLAPS

(* An open listing sells something, for an address. *)
SellersKnown ==
    \A l \in OpenListings : listings[l].good \in Goods /\ listings[l].seller \in Users

(* The inductive invariant. *)
IInv ==
    /\ TypeOK
    /\ CustodyExact
    /\ ControlSaleFrozen
    /\ AssetSaleFrozen
    /\ SellersKnown
    /\ ControlNeverLost
    /\ OneBaseItemPerHolder
    /\ RegistryAgrees

-----------------------------------------------------------------------------
(* Arithmetic. *)

(* Ten thousandths of a natural number, rounded down, are a natural number. *)
LEMMA ShareNat ==
    ASSUME NEW gross \in Nat, NEW bps \in Nat
    PROVE  (gross * bps) \div 10000 \in Nat
<1>1. gross * bps \in Nat
  OBVIOUS
<1>2. ASSUME NEW n \in Nat PROVE n \div 10000 \in Nat
  OBVIOUS
<1>3. QED
  BY <1>1, <1>2

(* The basis points of every lane are natural numbers. *)
LEMMA TermsTyped ==
    ASSUME NEW good \in Goods
    PROVE  /\ Terms(good).fee \in Nat /\ Terms(good).royalty \in Nat /\ Terms(good).origin \in Nat
           /\ good = Control => Terms(good).origin = 0
<1>1. /\ MakerFeeBps \in Nat /\ SoulFeeBps \in Nat /\ ResaleBps \in Nat
      /\ CreatorBps \in Nat /\ SourceBps \in Nat
  BY QuoteAssumption DEF Bps
<1>2. CASE good = Control
  BY <1>1, <1>2 DEF Terms
<1>3. CASE good # Control
  BY <1>1, <1>3 DEF Terms
<1>4. QED
  BY <1>2, <1>3

(* derive_quote: the four parts are natural numbers, add up to the price,  *)
(* and the Maker's treasury has no part in the sale of its own control.    *)
LEMMA QuoteTyped ==
    ASSUME NEW good \in Goods, NEW gross \in Nat, Quotable(good, gross)
    PROVE  /\ Quote(good, gross) \in Quotes
           /\ Quote(good, gross).gross = gross
           /\ gross = Quote(good, gross).protocol + Quote(good, gross).creator
                        + Quote(good, gross).source + Quote(good, gross).seller
           /\ good = Control => Quote(good, gross).source = 0
<1> DEFINE p == Share(gross, Terms(good).fee)
           c == Share(gross, Terms(good).royalty)
           s == Share(gross, Terms(good).origin)
<1>1. p \in Nat /\ c \in Nat /\ s \in Nat
  BY TermsTyped, ShareNat DEF Share
<1>2. Cut(good, gross) = p + c + s /\ Cut(good, gross) < gross
  BY DEF Cut, Quotable
<1>3. Quote(good, gross) = [gross |-> gross, protocol |-> p, creator |-> c, source |-> s,
                            seller |-> gross - (p + c + s)]
  BY <1>2 DEF Quote
<1>4. good = Control => s = 0
  <2>1. (gross * 0) \div 10000 = 0
    OBVIOUS
  <2>2. QED
    BY <2>1, TermsTyped DEF Share
<1>5. p + c + s \in Nat /\ gross - (p + c + s) \in Nat
  <2> HIDE DEF p, c, s
  <2>1. QED
    BY <1>1, <1>2
<1> HIDE DEF p, c, s
<1>6. QED
  BY <1>1, <1>3, <1>4, <1>5 DEF Quotes

(* Crediting a wallet with what it can bear leaves natural amounts. *)
LEMMA CreditTyped ==
    ASSUME NEW purse \in [Users -> Nat], NEW u \in Users, NEW amount \in Int,
           purse[u] + amount \in Nat
    PROVE  Credit(purse, u, amount) \in [Users -> Nat]
BY DEF Credit

(* Setting two fields of a treasury leaves the other two.                  *)
LEMMA TillFields ==
    ASSUME NEW pot \in Treasuries, NEW r, NEW x
    PROVE  /\ [pot EXCEPT !.revenue = r, !.collected = x] =
                 [revenue |-> r, collected |-> x,
                  withdrawn |-> pot.withdrawn, direct |-> pot.direct]
           /\ [pot EXCEPT !.revenue = r, !.withdrawn = x] =
                 [revenue |-> r, collected |-> pot.collected,
                  withdrawn |-> x, direct |-> pot.direct]
<1> DEFINE came == [pot EXCEPT !.revenue = r, !.collected = x]
           left == [pot EXCEPT !.revenue = r, !.withdrawn = x]
           Fields == {"revenue", "collected", "withdrawn", "direct"}
<1>1. /\ came = [f \in Fields |-> came[f]]
      /\ left = [f \in Fields |-> left[f]]
  BY DEF Treasuries
<1>2. came.revenue = r /\ came.collected = x
      /\ came.withdrawn = pot.withdrawn /\ came.direct = pot.direct
  BY DEF Treasuries
<1>3. left.revenue = r /\ left.collected = pot.collected
      /\ left.withdrawn = x /\ left.direct = pot.direct
  BY DEF Treasuries
<1> HIDE DEF came, left
<1>4. came = [revenue |-> r, collected |-> x,
              withdrawn |-> pot.withdrawn, direct |-> pot.direct]
  BY <1>1, <1>2
<1>5. left = [revenue |-> r, collected |-> pot.collected,
              withdrawn |-> x, direct |-> pot.direct]
  BY <1>1, <1>3
<1>6. QED
  BY <1>4, <1>5 DEF came, left

(* What comes into a treasury and what leaves it.                          *)
LEMMA TillMoves ==
    ASSUME NEW pot \in Treasuries, NEW amount \in Nat
    PROVE  /\ Deposited(pot, amount) \in Treasuries
           /\ Deposited(pot, amount) =
                 [revenue |-> pot.revenue + amount, collected |-> pot.collected + amount,
                  withdrawn |-> pot.withdrawn, direct |-> pot.direct]
           /\ DepositedDirectly(pot, amount) \in Treasuries
           /\ DepositedDirectly(pot, amount) =
                 [revenue |-> pot.revenue + amount, collected |-> pot.collected + amount,
                  withdrawn |-> pot.withdrawn, direct |-> pot.direct + amount]
           /\ amount <= pot.revenue => Drawn(pot, amount) \in Treasuries
           /\ Drawn(pot, amount) =
                 [revenue |-> pot.revenue - amount, collected |-> pot.collected,
                  withdrawn |-> pot.withdrawn + amount, direct |-> pot.direct]
<1>1. /\ pot.revenue \in Nat /\ pot.collected \in Nat
      /\ pot.withdrawn \in Nat /\ pot.direct \in Nat
  BY DEF Treasuries
<1>2. Deposited(pot, amount) =
         [revenue |-> pot.revenue + amount, collected |-> pot.collected + amount,
          withdrawn |-> pot.withdrawn, direct |-> pot.direct]
  BY TillFields DEF Deposited
<1>3. DepositedDirectly(pot, amount) =
         [revenue |-> pot.revenue + amount, collected |-> pot.collected + amount,
          withdrawn |-> pot.withdrawn, direct |-> pot.direct + amount]
  BY <1>2 DEF DepositedDirectly
<1>4. Drawn(pot, amount) =
         [revenue |-> pot.revenue - amount, collected |-> pot.collected,
          withdrawn |-> pot.withdrawn + amount, direct |-> pot.direct]
  BY TillFields DEF Drawn
<1>5. QED
  BY <1>1, <1>2, <1>3, <1>4 DEF Treasuries

(* The same, field by field. *)
LEMMA TillBooks ==
    ASSUME NEW pot \in Treasuries, NEW amount \in Nat
    PROVE  /\ Deposited(pot, amount).revenue = pot.revenue + amount
           /\ Deposited(pot, amount).collected = pot.collected + amount
           /\ Deposited(pot, amount).withdrawn = pot.withdrawn
           /\ Deposited(pot, amount).direct = pot.direct
           /\ DepositedDirectly(pot, amount).revenue = pot.revenue + amount
           /\ DepositedDirectly(pot, amount).collected = pot.collected + amount
           /\ DepositedDirectly(pot, amount).withdrawn = pot.withdrawn
           /\ DepositedDirectly(pot, amount).direct = pot.direct + amount
           /\ Drawn(pot, amount).revenue = pot.revenue - amount
           /\ Drawn(pot, amount).collected = pot.collected
           /\ Drawn(pot, amount).withdrawn = pot.withdrawn + amount
           /\ Drawn(pot, amount).direct = pot.direct
BY TillMoves

(* A treasury that nothing was added to. *)
LEMMA TillStays ==
    ASSUME NEW pot \in Treasuries
    PROVE  /\ pot.collected = pot.collected + 0 /\ pot.revenue = pot.revenue + 0
           /\ pot.revenue = pot.revenue + (0 - 0)
           /\ pot.withdrawn = pot.withdrawn + 0 /\ pot.direct = pot.direct + 0
BY DEF Treasuries

(* The calls that move a Pack's money alone. *)
PackCall ==
    \/ \E u \in Users, amount \in Gifts : DepositPack(u, amount)
    \/ \E amount \in Amounts, to \in Payees : WithdrawPack(amount, to)

(* The payments into the Maker's or the protocol's treasury that no sale    *)
(* and no pass made.                                                        *)
DirectDeposit ==
    \E u \in Users, amount \in Gifts : DepositMaker(u, amount) \/ DepositProtocol(u, amount)

LEMMA PackAside ==
    ASSUME PackCall
    PROVE  UNCHANGED <<protocol, root, admin, treasury, passes, items, entitled, listings,
                       registry, till, orders>>
BY DEF PackCall, DepositPack, WithdrawPack

LEMMA DirectAside ==
    ASSUME DirectDeposit PROVE UNCHANGED <<root, admin, passes>>
BY DEF DirectDeposit, DepositMaker, DepositProtocol

-----------------------------------------------------------------------------
(* What the shared listing helpers do to the listings and to the registry. *)

(* What open_listing counts. *)
LEMMA OpeningCounts ==
    ASSUME TypeOK, NEW l, NEW good, NEW seller, NEW epoch, NEW gross,
           OpenListing(l, good, seller, epoch, gross)
    PROVE  registry' =
      [revision |-> registry.revision + 1, listed |-> registry.listed + 1,
       escrowed |-> registry.escrowed + 1, completed |-> registry.completed,
       canceled |-> registry.canceled, recovered |-> registry.recovered,
       volume |-> registry.volume, protocolPaid |-> registry.protocolPaid,
       creatorPaid |-> registry.creatorPaid, sourcePaid |-> registry.sourcePaid,
       sellerPaid |-> registry.sellerPaid]
BY DEF TypeOK, RegistryRecords, OpenListing, CloseListing, SettleListing

(* What close_listing counts. *)
LEMMA ClosingCounts ==
    ASSUME TypeOK, NEW l, NEW status, CloseListing(l, status)
    PROVE  registry' =
      [revision |-> registry.revision + 1, listed |-> registry.listed,
       escrowed |-> registry.escrowed - 1, completed |-> registry.completed,
       canceled |-> registry.canceled + (IF status = Canceled THEN 1 ELSE 0),
       recovered |-> registry.recovered + (IF status = Recovered THEN 1 ELSE 0),
       volume |-> registry.volume, protocolPaid |-> registry.protocolPaid,
       creatorPaid |-> registry.creatorPaid, sourcePaid |-> registry.sourcePaid,
       sellerPaid |-> registry.sellerPaid]
BY DEF TypeOK, RegistryRecords, OpenListing, CloseListing, SettleListing

(* What settle_listing counts. *)
LEMMA SettlingCounts ==
    ASSUME TypeOK, NEW l, NEW buyer, SettleListing(l, buyer)
    PROVE  registry' =
      [revision |-> registry.revision + 1, listed |-> registry.listed,
       escrowed |-> registry.escrowed - 1, completed |-> registry.completed + 1,
       canceled |-> registry.canceled, recovered |-> registry.recovered,
       volume |-> registry.volume + listings[l].quote.gross,
       protocolPaid |-> registry.protocolPaid + listings[l].quote.protocol,
       creatorPaid |-> registry.creatorPaid + listings[l].quote.creator,
       sourcePaid |-> registry.sourcePaid + listings[l].quote.source,
       sellerPaid |-> registry.sellerPaid + listings[l].quote.seller]
BY DEF TypeOK, RegistryRecords, OpenListing, CloseListing, SettleListing

(* open_listing takes a fresh listing to an open one, and nothing else. *)
LEMMA Opening ==
    ASSUME TypeOK, NEW l \in Listings, NEW good \in Goods, NEW seller \in Users,
           NEW epoch \in Nat, NEW gross \in Gross,
           OpenListing(l, good, seller, epoch, gross)
    PROVE  /\ listings' \in [Listings -> ListingRecords]
           /\ registry' \in RegistryRecords
           /\ listings[l].status = Fresh
           /\ listings'[l].status = Open /\ listings'[l].good = good
           /\ listings'[l].seller = seller /\ listings'[l].epoch = epoch
           /\ \A m \in Listings \ {l} : listings'[m] = listings[m]
           /\ OpenListings' = OpenListings \cup {l} /\ l \notin OpenListings
           /\ Sales' = Sales
<1> DEFINE new == [status |-> Open, good |-> good, seller |-> seller, epoch |-> epoch,
                   quote |-> Quote(good, gross), revision |-> 0, recipient |-> None]
<1>1. gross \in Nat /\ Quotable(good, gross)
  BY QuoteAssumption DEF OpenListing
<1>2. Quote(good, gross) \in Quotes
  BY <1>1, QuoteTyped
<1>3. new \in ListingRecords
  BY <1>2 DEF ListingRecords, Goods
<1>4. /\ listings \in [Listings -> ListingRecords]
      /\ registry \in RegistryRecords
  BY DEF TypeOK
<1>5. /\ listings' = [listings EXCEPT ![l] = new]
      /\ listings[l].status = Fresh
  BY DEF OpenListing, NoListing
<1>6. listings' \in [Listings -> ListingRecords] /\ listings'[l] = new
  BY <1>3, <1>4, <1>5
<1>7. registry' \in RegistryRecords
  BY <1>4, OpeningCounts DEF RegistryRecords
<1>8. \A m \in Listings \ {l} : listings'[m] = listings[m]
  BY <1>4, <1>5
<1>9. new.status = Open /\ new.good = good /\ new.seller = seller /\ new.epoch = epoch
  OBVIOUS
<1> HIDE DEF new
<1>10. OpenListings' = OpenListings \cup {l} /\ l \notin OpenListings /\ Sales' = Sales
  BY <1>5, <1>6, <1>8, <1>9 DEF OpenListings, Sales, Open, Fresh, Settled
<1>11. QED
  BY <1>5, <1>6, <1>7, <1>8, <1>9, <1>10

(* close_listing ends an open listing without a sale. *)
LEMMA Closing ==
    ASSUME TypeOK, NEW l \in Listings, NEW status \in {Canceled, Recovered},
           listings[l].status = Open, CloseListing(l, status)
    PROVE  /\ listings' \in [Listings -> ListingRecords]
           /\ registry' \in RegistryRecords
           /\ listings'[l].status = status
           /\ \A m \in Listings \ {l} : listings'[m] = listings[m]
           /\ OpenListings' = OpenListings \ {l} /\ l \in OpenListings
           /\ Sales' = Sales
<1>1. /\ listings \in [Listings -> ListingRecords]
      /\ registry \in RegistryRecords
  BY DEF TypeOK
<1>2. /\ listings' = [listings EXCEPT ![l] =
           [status |-> status, good |-> listings[l].good, seller |-> listings[l].seller,
            epoch |-> listings[l].epoch, quote |-> listings[l].quote,
            revision |-> listings[l].revision + 1, recipient |-> listings[l].seller]]
      /\ registry.escrowed > 0
  BY <1>1 DEF CloseListing, ListingRecords
<1>3. /\ listings' \in [Listings -> ListingRecords]
      /\ listings'[l].status = status
      /\ \A m \in Listings \ {l} : listings'[m] = listings[m]
  <2> DEFINE new == [status |-> status, good |-> listings[l].good, seller |-> listings[l].seller,
                     epoch |-> listings[l].epoch, quote |-> listings[l].quote,
                     revision |-> listings[l].revision + 1, recipient |-> listings[l].seller]
  <2>1. new \in ListingRecords
    BY <1>1 DEF ListingRecords
  <2>2. new.status = status /\ new.recipient = listings[l].seller
    OBVIOUS
  <2>3. listings' = [listings EXCEPT ![l] = new]
    BY <1>2
  <2> HIDE DEF new
  <2>4. QED
    BY <1>1, <2>1, <2>2, <2>3
<1>4. registry' \in RegistryRecords
  BY <1>1, <1>2, ClosingCounts DEF RegistryRecords
<1>5. OpenListings' = OpenListings \ {l} /\ l \in OpenListings /\ Sales' = Sales
  BY <1>3 DEF OpenListings, Sales, Open, Canceled, Recovered, Settled
<1>6. QED
  BY <1>3, <1>4, <1>5

(* settle_listing ends an open listing with a sale. *)
LEMMA Settling ==
    ASSUME TypeOK, NEW l \in Listings, NEW buyer \in Users,
           listings[l].status = Open, SettleListing(l, buyer)
    PROVE  /\ listings' \in [Listings -> ListingRecords]
           /\ registry' \in RegistryRecords
           /\ orders' \in [Users -> Orders \cup {None}]
           /\ listings'[l].status = Settled /\ listings'[l].recipient = buyer
           /\ \A m \in Listings \ {l} : listings'[m] = listings[m]
           /\ OpenListings' = OpenListings \ {l} /\ l \in OpenListings
           /\ Sales' = Sales \cup {l} /\ l \notin Sales
<1>1. /\ listings \in [Listings -> ListingRecords]
      /\ registry \in RegistryRecords
      /\ orders \in [Users -> Orders \cup {None}]
  BY DEF TypeOK
<1>2. /\ listings' = [listings EXCEPT ![l] =
           [status |-> Settled, good |-> listings[l].good, seller |-> listings[l].seller,
            epoch |-> listings[l].epoch, quote |-> listings[l].quote,
            revision |-> listings[l].revision + 1, recipient |-> buyer]]
      /\ registry.escrowed > 0
      /\ orders' = [orders EXCEPT ![buyer] = None]
  BY <1>1 DEF SettleListing, ListingRecords
<1>3. /\ listings' \in [Listings -> ListingRecords]
      /\ listings'[l].status = Settled /\ listings'[l].recipient = buyer
      /\ \A m \in Listings \ {l} : listings'[m] = listings[m]
  <2> DEFINE new == [status |-> Settled, good |-> listings[l].good, seller |-> listings[l].seller,
                     epoch |-> listings[l].epoch, quote |-> listings[l].quote,
                     revision |-> listings[l].revision + 1, recipient |-> buyer]
  <2>1. new \in ListingRecords
    BY <1>1 DEF ListingRecords
  <2>2. new.status = Settled /\ new.recipient = buyer
    OBVIOUS
  <2>3. listings' = [listings EXCEPT ![l] = new]
    BY <1>2
  <2> HIDE DEF new
  <2>4. QED
    BY <1>1, <2>1, <2>2, <2>3
<1>4. registry' \in RegistryRecords
  <2>1. listings[l].quote \in Quotes
    BY <1>1 DEF ListingRecords
  <2>2. QED
    BY <1>1, <1>2, <2>1, SettlingCounts DEF RegistryRecords, Quotes
<1>5. /\ OpenListings' = OpenListings \ {l} /\ l \in OpenListings
      /\ Sales' = Sales \cup {l} /\ l \notin Sales
  BY <1>3 DEF OpenListings, Sales, Open, Settled
<1>6. orders' \in [Users -> Orders \cup {None}]
  BY <1>1, <1>2
<1>7. QED
  BY <1>3, <1>4, <1>5, <1>6

(* Only finitely many listings are open or sold. *)
LEMMA ListingsFinite == IsFiniteSet(OpenListings) /\ IsFiniteSet(Sales)
BY NamesAssumption, FS_Subset DEF OpenListings, Sales

(* The registry counts a listing that opens. *)
LEMMA OpeningBooks ==
    ASSUME TypeOK, RegistryAgrees, NEW l \in Listings, NEW good \in Goods, NEW seller \in Users,
           NEW epoch \in Nat, NEW gross \in Gross,
           OpenListing(l, good, seller, epoch, gross), UNCHANGED till
    PROVE  RegistryAgrees'
<1>1. OpenListings' = OpenListings \cup {l} /\ l \notin OpenListings /\ Sales' = Sales
  BY Opening
<1>2. /\ Cardinality(OpenListings \cup {l}) = Cardinality(OpenListings) + 1
      /\ Cardinality(OpenListings) \in Nat
  BY <1>1, ListingsFinite, FS_AddElement, FS_CardinalityType
<1>3. /\ registry \in RegistryRecords
      /\ registry'.listed = registry.listed + 1 /\ registry'.escrowed = registry.escrowed + 1
  BY OpeningCounts DEF TypeOK
<1>4. QED
  BY <1>1, <1>2, <1>3, OpeningCounts DEF RegistryAgrees, RegistryRecords

(* The registry counts a listing that closes. *)
LEMMA ClosingBooks ==
    ASSUME TypeOK, RegistryAgrees, NEW l \in Listings, NEW status \in {Canceled, Recovered},
           listings[l].status = Open, CloseListing(l, status), UNCHANGED till
    PROVE  RegistryAgrees'
<1>1. OpenListings' = OpenListings \ {l} /\ l \in OpenListings /\ Sales' = Sales
  BY Closing
<1>2. /\ Cardinality(OpenListings \ {l}) = Cardinality(OpenListings) - 1
      /\ Cardinality(OpenListings) \in Nat
  BY <1>1, ListingsFinite, FS_RemoveElement, FS_CardinalityType
<1>3. /\ registry \in RegistryRecords
  BY DEF TypeOK
<1>4. QED
  BY <1>1, <1>2, <1>3, ClosingCounts DEF RegistryAgrees, RegistryRecords, Canceled, Recovered

-----------------------------------------------------------------------------
(* The payment path. *)

(* A purchase pays out the listing's own quote: the till ends empty, every  *)
(* balance stays natural, and the Maker's treasury is only paid while the   *)
(* Maker is active and never in the sale of its control.                    *)
LEMMA Paying ==
    ASSUME TypeOK, NEW l \in Listings, NEW buyer \in Users, NEW payment,
           listings[l].good \in Goods, listings[l].seller \in Users,
           Pay(l, buyer, payment)
    PROVE  /\ payment = listings[l].quote.gross
           /\ listings[l].quote \in Quotes
           /\ listings[l].quote.gross = listings[l].quote.protocol + listings[l].quote.creator
                + listings[l].quote.source + listings[l].quote.seller
           /\ cash' \in [Users -> Nat]
           /\ buyer # listings[l].seller =>
                 cash'[buyer] = cash[buyer] - payment
                                  + (IF buyer = Creator THEN listings[l].quote.creator ELSE 0)
           /\ protocol' \in [enabled : BOOLEAN, revision : Nat, revenue : Nat, direct : Nat]
           /\ protocol'.enabled = protocol.enabled /\ protocol'.revision = protocol.revision
           /\ treasury' \in Treasuries
           /\ listings[l].good = Control => UNCHANGED treasury
           /\ root.lifecycle # Active => UNCHANGED treasury
           /\ Degraded => UNCHANGED treasury
           /\ packs' \in Treasuries
           /\ till' = [escrow |-> 0, escrowed |-> till.escrowed + payment,
                       released |-> till.released + payment]
<1> DEFINE q == listings[l].quote
<1>1. /\ listings[l] \in ListingRecords /\ q \in Quotes
      /\ cash \in [Users -> Nat] /\ packs \in Treasuries
      /\ protocol \in [enabled : BOOLEAN, revision : Nat, revenue : Nat, direct : Nat]
      /\ treasury \in Treasuries
      /\ till \in [escrow : Nat, escrowed : Nat, released : Nat]
  BY DEF TypeOK, ListingRecords
<1>2. /\ q.gross \in Nat /\ q.protocol \in Nat /\ q.creator \in Nat
      /\ q.source \in Nat /\ q.seller \in Nat
  BY <1>1 DEF Quotes
<1>3. /\ Quotable(listings[l].good, q.gross)
      /\ Quote(listings[l].good, q.gross) = q
      /\ payment = q.gross
  BY DEF Pay
<1>4. /\ q.gross = q.protocol + q.creator + q.source + q.seller
      /\ listings[l].good = Control => q.source = 0
  BY <1>2, <1>3, QuoteTyped
<1>5. cash[buyer] >= payment /\ Creator \in Users
  BY <1>3, UsersAssumption DEF Pay
<1> DEFINE c1 == Credit(cash, buyer, - payment)
           c2 == Credit(c1, Creator, q.creator)
<1>6. cash' = Credit(c2, listings[l].seller, q.seller)
  BY <1>3 DEF Pay
<1>7. c1 \in [Users -> Nat] /\ c1[buyer] = cash[buyer] - payment
  BY <1>1, <1>2, <1>3, <1>5 DEF Credit
<1> HIDE DEF c1
<1>8. /\ c2 \in [Users -> Nat]
      /\ c2[buyer] = c1[buyer] + (IF buyer = Creator THEN q.creator ELSE 0)
  BY <1>2, <1>5, <1>7 DEF Credit
<1> HIDE DEF c2
<1>9. /\ cash' \in [Users -> Nat]
      /\ buyer # listings[l].seller => cash'[buyer] = c2[buyer]
  BY <1>2, <1>6, <1>8 DEF Credit
<1>10. /\ protocol' = [protocol EXCEPT !.revenue = @ + q.protocol]
       /\ till' = [escrow |-> 0, escrowed |-> till.escrowed + payment,
                   released |-> till.released + payment]
       /\ packs' = Deposited(packs, q.source) \/ packs' = packs
  BY <1>3 DEF Pay
<1>11. /\ protocol' \in [enabled : BOOLEAN, revision : Nat, revenue : Nat, direct : Nat]
       /\ protocol'.enabled = protocol.enabled /\ protocol'.revision = protocol.revision
       /\ packs' \in Treasuries
  <2>1. PICK share \in Nat : share = q.protocol
    BY <1>2
  <2>2. protocol' = [protocol EXCEPT !.revenue = @ + share]
    BY <1>10, <2>1
  <2>3. Deposited(packs, q.source) \in Treasuries
    BY <1>1, <1>2, TillMoves
  <2>4. packs' \in Treasuries
    BY <1>1, <1>10, <2>3
  <2> HIDE DEF q
  <2>5. /\ protocol' \in [enabled : BOOLEAN, revision : Nat, revenue : Nat, direct : Nat]
        /\ protocol'.enabled = protocol.enabled /\ protocol'.revision = protocol.revision
    BY <1>1, <2>2
  <2> QED
    BY <2>4, <2>5
<1>12. UNCHANGED treasury \/ (q.source > 0 /\ Deposit(q.source))
  BY <1>3 DEF Pay, Deposit
<1>13. /\ treasury' \in Treasuries
       /\ listings[l].good = Control => UNCHANGED treasury
       /\ root.lifecycle # Active => UNCHANGED treasury
       /\ Degraded => UNCHANGED treasury
  <2>1. CASE UNCHANGED treasury
    BY <1>1, <2>1
  <2>2. CASE q.source > 0 /\ Deposit(q.source)
    <3>1. treasury' = Deposited(treasury, q.source)
      BY <2>2 DEF Deposit
    <3>2. treasury' \in Treasuries
      BY <1>1, <1>2, <3>1, TillMoves
    <3>3. /\ listings[l].good # Control
          /\ root.lifecycle = Active /\ ~ Degraded
      BY <1>2, <1>4, <2>2 DEF Deposit, Depositable, Degraded
    <3>4. QED
      BY <3>2, <3>3
  <2>3. QED
    BY <1>12, <2>1, <2>2
<1>14. buyer # listings[l].seller =>
          cash'[buyer] = cash[buyer] - payment + (IF buyer = Creator THEN q.creator ELSE 0)
  BY <1>7, <1>8, <1>9
<1>15. QED
  BY <1>1, <1>3, <1>4, <1>9, <1>10, <1>11, <1>13, <1>14

(* The registry counts a sale, and its totals agree with the till. *)
LEMMA SettlingBooks ==
    ASSUME TypeOK, RegistryAgrees, NEW l \in Listings, NEW buyer \in Users, NEW payment,
           listings[l].status = Open, listings[l].good \in Goods, listings[l].seller \in Users,
           Pay(l, buyer, payment), SettleListing(l, buyer)
    PROVE  RegistryAgrees'
<1> DEFINE q == listings[l].quote
<1>1. /\ OpenListings' = OpenListings \ {l} /\ l \in OpenListings
      /\ Sales' = Sales \cup {l} /\ l \notin Sales
  BY Settling
<1>2. /\ Cardinality(OpenListings \ {l}) = Cardinality(OpenListings) - 1
      /\ Cardinality(OpenListings) \in Nat
      /\ Cardinality(Sales \cup {l}) = Cardinality(Sales) + 1
      /\ Cardinality(Sales) \in Nat
  BY <1>1, ListingsFinite, FS_RemoveElement, FS_AddElement, FS_CardinalityType
<1>3. /\ registry \in RegistryRecords
      /\ till \in [escrow : Nat, escrowed : Nat, released : Nat]
  BY DEF TypeOK
<1>4. /\ q \in Quotes
      /\ q.gross = q.protocol + q.creator + q.source + q.seller
      /\ till' = [escrow |-> 0, escrowed |-> till.escrowed + q.gross,
                  released |-> till.released + q.gross]
  BY Paying
<1>5. /\ registry'.volume = registry.volume + q.gross
      /\ registry'.protocolPaid = registry.protocolPaid + q.protocol
      /\ registry'.creatorPaid = registry.creatorPaid + q.creator
      /\ registry'.sourcePaid = registry.sourcePaid + q.source
      /\ registry'.sellerPaid = registry.sellerPaid + q.seller
      /\ registry'.escrowed = registry.escrowed - 1
      /\ registry'.completed = registry.completed + 1
      /\ registry'.listed = registry.listed
      /\ registry'.canceled = registry.canceled
      /\ registry'.recovered = registry.recovered
  BY SettlingCounts
<1> HIDE DEF q
<1>6. /\ registry'.escrowed = Cardinality(OpenListings')
      /\ registry'.completed = Cardinality(Sales')
      /\ registry'.listed = registry'.escrowed + registry'.completed
                              + registry'.canceled + registry'.recovered
  BY <1>1, <1>2, <1>3, <1>5 DEF RegistryAgrees, RegistryRecords
<1>7. registry'.volume = registry'.protocolPaid + registry'.creatorPaid
                           + registry'.sourcePaid + registry'.sellerPaid
  BY <1>3, <1>4, <1>5 DEF RegistryAgrees, RegistryRecords, Quotes
<1>8. till' = [escrow |-> 0, escrowed |-> registry'.volume, released |-> registry'.volume]
  BY <1>3, <1>4, <1>5 DEF RegistryAgrees
<1>9. QED
  BY <1>6, <1>7, <1>8 DEF RegistryAgrees

-----------------------------------------------------------------------------
(* Control: the lifecycle, the cap, access, withdrawals. *)

(* A cap in somebody's hands is not for sale, and neither is the cap of a *)
(* Maker that is not paused.                                              *)
LEMMA ControlNotForSale ==
    ASSUME IInv, admin.at \in Users \/ root.lifecycle # Paused
    PROVE  \A l \in OpenListings : listings[l].good # Control
<1>1. \A l \in Listings : l \notin Users
  BY NamesAssumption
<1>2. QED
  BY <1>1 DEF IInv, CustodyExact, ControlSaleFrozen, OpenListings

(* A step that leaves the market alone keeps the invariant if it moves the *)
(* cap among users only and disturbs neither a sale of control nor the     *)
(* match between Root and cap.                                             *)
LEMMA MarketUndisturbed ==
    ASSUME IInv, UNCHANGED marketVars, TypeOK', ControlNeverLost',
           admin'.at = admin.at \/ (admin.at \in Users /\ admin'.at \in Users),
           \/ \A l \in OpenListings : listings[l].good # Control
           \/ UNCHANGED <<root, admin, treasury>>
    PROVE  IInv'
<1>1. UNCHANGED <<items, entitled, listings, registry, till>>
  BY DEF marketVars
<1>2. OpenListings' = OpenListings /\ Sales' = Sales
  BY <1>1 DEF OpenListings, Sales
<1>3. CustodyExact'
  <2>1. \A l \in Listings : l \notin Users
    BY NamesAssumption
  <2>2. \A l \in Listings : admin'.at = l <=> admin.at = l
    BY <2>1
  <2>3. QED
    BY <1>1, <2>2 DEF IInv, CustodyExact
<1>4. ControlSaleFrozen'
  BY <1>1, <1>2 DEF IInv, ControlSaleFrozen, AdminValid
<1>5. AssetSaleFrozen' /\ SellersKnown'
  BY <1>1, <1>2 DEF IInv, AssetSaleFrozen, SellersKnown
<1>6. OneBaseItemPerHolder'
  BY <1>1 DEF IInv, OneBaseItemPerHolder
<1>7. RegistryAgrees'
  BY <1>1, <1>2 DEF IInv, RegistryAgrees
<1>8. QED
  BY <1>3, <1>4, <1>5, <1>6, <1>7 DEF IInv

LifecycleChange(u) ==
    \/ Activate(u) \/ Resume(u)
    \/ \E next \in {Paused, Archived} : Stop(u, next)

(* activate, pause, resume and archive need the cap in the sender's hands. *)
LEMMA LifecycleKeeps ==
    ASSUME IInv, NEW u \in Users, LifecycleChange(u), UNCHANGED marketVars
    PROVE  IInv'
<1>1. PICK next \in Lifecycles : root' = [root EXCEPT !.lifecycle = next]
  BY DEF LifecycleChange, Activate, Resume, Stop, Lifecycles
<1>2. UNCHANGED <<protocol, admin, treasury, passes, cash>> /\ Controls(u)
  BY DEF LifecycleChange, Activate, Resume, Stop
<1>3. TypeOK'
  BY <1>1, <1>2 DEF IInv, TypeOK, marketVars
<1>4. root'.owner = root.owner /\ root'.epoch = root.epoch
  BY <1>1 DEF IInv, TypeOK
<1>5. OpenListings' = OpenListings
  BY DEF OpenListings, marketVars
<1>6. ControlNeverLost'
  BY <1>2, <1>4, <1>5 DEF IInv, ControlNeverLost, AdminValid
<1>7. admin.at \in Users
  BY <1>2 DEF Controls
<1>8. QED
  BY <1>2, <1>3, <1>6, <1>7, ControlNotForSale, MarketUndisturbed

(* Rotating control names the new owner in the Root and in a cap of its own. *)
LEMMA Rotating ==
    ASSUME TypeOK, NEW sender, NEW to \in Users, Rotate(sender, to)
    PROVE  /\ root' \in [lifecycle : Lifecycles, owner : Users, epoch : Nat, price : Nat]
           /\ admin' \in [owner : Users, epoch : Nat, at : Users \cup Listings]
           /\ root'.owner = to /\ root'.epoch = root.epoch + 1
           /\ root'.lifecycle = root.lifecycle
           /\ admin'.owner = to /\ admin'.epoch = root.epoch + 1 /\ admin'.at = to
<1>1. root \in [lifecycle : Lifecycles, owner : Users, epoch : Nat, price : Nat]
  BY DEF TypeOK
<1>2. root' = [lifecycle |-> root.lifecycle, owner |-> to, epoch |-> root.epoch + 1,
               price |-> root.price]
  BY <1>1 DEF Rotate
<1>3. admin' = [owner |-> to, epoch |-> root.epoch + 1, at |-> to]
  BY DEF Rotate
<1>4. QED
  BY <1>1, <1>2, <1>3

(* A gift of control. *)
LEMMA TransferControlKeeps ==
    ASSUME IInv, NEW u \in Users, NEW to \in Users, TransferControl(u, to), UNCHANGED marketVars
    PROVE  IInv'
<1>1. Rotate(u, to) /\ admin.at = u /\ UNCHANGED <<protocol, treasury, passes, cash>>
  BY DEF TransferControl
<1>2. TypeOK
  BY DEF IInv
<1>3. /\ root' \in [lifecycle : Lifecycles, owner : Users, epoch : Nat, price : Nat]
      /\ admin' \in [owner : Users, epoch : Nat, at : Users \cup Listings]
      /\ root'.owner = to /\ root'.epoch = root.epoch + 1
      /\ admin'.owner = to /\ admin'.epoch = root.epoch + 1 /\ admin'.at = to
  BY <1>1, <1>2, Rotating
<1>4. TypeOK'
  BY <1>1, <1>2, <1>3 DEF TypeOK, marketVars
<1>5. ControlNeverLost'
  BY <1>3 DEF ControlNeverLost, AdminValid
<1>6. QED
  BY <1>1, <1>3, <1>4, <1>5, ControlNotForSale, MarketUndisturbed

(* Free access touches the passes only. *)
LEMMA ClaimFreeAccessKeeps ==
    ASSUME IInv, NEW u \in Users, ClaimFreeAccess(u), UNCHANGED marketVars
    PROVE  IInv'
<1>1. UNCHANGED <<protocol, root, admin, treasury, cash>> /\ passes' = passes \cup {u}
  BY DEF ClaimFreeAccess
<1>2. TypeOK'
  BY <1>1 DEF IInv, TypeOK, marketVars
<1>3. ControlNeverLost'
  BY <1>1 DEF IInv, ControlNeverLost, AdminValid, OpenListings, marketVars
<1>4. QED
  BY <1>1, <1>2, <1>3, MarketUndisturbed

(* Paid access deposits into the treasury of an active Maker. *)
LEMMA PurchaseAccessKeeps ==
    ASSUME IInv, NEW u \in Users, PurchaseAccess(u), UNCHANGED marketVars
    PROVE  IInv'
<1> DEFINE share == (root.price * PrimaryBps) \div 10000
<1>1. /\ cash[u] >= root.price
      /\ Deposit(root.price - share)
      /\ protocol' = [protocol EXCEPT !.revenue = @ + share]
      /\ cash' = Credit(cash, u, - root.price)
      /\ passes' = passes \cup {u}
      /\ UNCHANGED <<root, admin>>
  BY DEF PurchaseAccess
<1>2. /\ TypeOK
      /\ root.price \in Nat /\ cash \in [Users -> Nat]
      /\ protocol \in [enabled : BOOLEAN, revision : Nat, revenue : Nat, direct : Nat]
      /\ treasury \in Treasuries
  BY DEF IInv, TypeOK
<1>3. share \in Nat
  <2>1. PrimaryBps \in Nat
    BY PriceAssumption
  <2>2. QED
    BY <1>2, <2>1, ShareNat
<1> HIDE DEF share
<1>4. protocol' \in [enabled : BOOLEAN, revision : Nat, revenue : Nat, direct : Nat]
  BY <1>1, <1>2, <1>3
<1>5. root.price - share > 0 /\ root.price - share \in Nat
  BY <1>1, <1>2, <1>3 DEF Deposit
<1>6. treasury' = Deposited(treasury, root.price - share)
  BY <1>1 DEF Deposit
<1>7. treasury' \in Treasuries
  BY <1>2, <1>5, <1>6, TillMoves
<1>8. cash' \in [Users -> Nat]
  BY <1>1, <1>2, CreditTyped
<1>9. TypeOK'
  BY <1>1, <1>2, <1>4, <1>7, <1>8 DEF TypeOK, marketVars
<1>10. ControlNeverLost'
  BY <1>1 DEF IInv, ControlNeverLost, AdminValid, OpenListings, marketVars
<1>11. root.lifecycle # Paused
  BY <1>1 DEF Deposit, Depositable, Active, Paused
<1>12. QED
  BY <1>1, <1>9, <1>10, <1>11, ControlNotForSale, MarketUndisturbed

(* A withdrawal takes what is there, by the holder of the cap. *)
LEMMA WithdrawMakerKeeps ==
    ASSUME IInv, NEW u \in Users, NEW amount \in Amounts, NEW to \in Payees,
           WithdrawMaker(u, amount, to), UNCHANGED marketVars
    PROVE  IInv'
<1>1. /\ amount \in Nat /\ to \in Users
  BY AmountAssumption
<1>2. /\ TypeOK /\ cash \in [Users -> Nat]
      /\ treasury \in Treasuries
  BY DEF IInv, TypeOK
<1>3. /\ amount <= treasury.revenue
      /\ treasury' = Drawn(treasury, amount)
      /\ cash' = Credit(cash, to, amount)
      /\ UNCHANGED <<protocol, root, admin, passes>>
      /\ admin.at = u
  BY <1>2 DEF WithdrawMaker, Controls
<1>4. treasury' \in Treasuries
  BY <1>1, <1>2, <1>3, TillMoves
<1>5. cash' \in [Users -> Nat]
  <2>1. cash[to] + amount \in Nat /\ amount \in Int
    BY <1>1, <1>2
  <2>2. QED
    BY <1>1, <1>2, <1>3, <2>1, CreditTyped
<1>6. TypeOK'
  BY <1>2, <1>3, <1>4, <1>5 DEF TypeOK, marketVars
<1>7. ControlNeverLost'
  BY <1>3 DEF IInv, ControlNeverLost, AdminValid, OpenListings, marketVars
<1>8. QED
  BY <1>3, <1>6, <1>7, ControlNotForSale, MarketUndisturbed

(* The protocol's own calls do not touch the Maker. *)
LEMMA ProtocolKeeps ==
    ASSUME IInv, UNCHANGED marketVars,
           \/ ToggleProtocol
           \/ \E amount \in Amounts, to \in Payees : WithdrawProtocol(amount, to)
    PROVE  IInv'
<1>1. /\ TypeOK /\ cash \in [Users -> Nat]
      /\ protocol \in [enabled : BOOLEAN, revision : Nat, revenue : Nat, direct : Nat]
  BY DEF IInv, TypeOK
<1>2. UNCHANGED <<root, admin, treasury, passes>>
  BY DEF ToggleProtocol, WithdrawProtocol
<1>3. protocol' \in [enabled : BOOLEAN, revision : Nat, revenue : Nat, direct : Nat] /\ cash' \in [Users -> Nat]
  <2>1. CASE ToggleProtocol
    <3>1. protocol' = [enabled |-> ~ protocol.enabled, revision |-> protocol.revision + 1,
                       revenue |-> protocol.revenue, direct |-> protocol.direct]
      BY <1>1, <2>1 DEF ToggleProtocol
    <3>2. cash' = cash
      BY <2>1 DEF ToggleProtocol
    <3>3. QED
      BY <1>1, <3>1, <3>2
  <2>2. ASSUME NEW amount \in Amounts, NEW to \in Payees, WithdrawProtocol(amount, to)
        PROVE  protocol' \in [enabled : BOOLEAN, revision : Nat, revenue : Nat, direct : Nat]
                  /\ cash' \in [Users -> Nat]
    <3>1. amount \in Nat /\ to \in Users
      BY AmountAssumption
    <3>2. /\ amount <= protocol.revenue
          /\ protocol' = [protocol EXCEPT !.revenue = @ - amount]
          /\ cash' = Credit(cash, to, amount)
      BY <2>2 DEF WithdrawProtocol
    <3>3. QED
      BY <1>1, <3>1, <3>2, CreditTyped
  <2>3. QED
    BY <2>1, <2>2
<1>4. TypeOK'
  BY <1>1, <1>2, <1>3 DEF TypeOK, marketVars
<1>5. ControlNeverLost'
  BY <1>2 DEF IInv, ControlNeverLost, AdminValid, OpenListings, marketVars
<1>6. QED
  BY <1>2, <1>4, <1>5, MarketUndisturbed

(* A direct deposit is anyone's, into an active Maker or an enabled protocol. *)
LEMMA DirectKeeps ==
    ASSUME IInv, UNCHANGED marketVars, DirectDeposit
    PROVE  IInv'
<1>1. /\ TypeOK /\ cash \in [Users -> Nat] /\ treasury \in Treasuries
      /\ protocol \in [enabled : BOOLEAN, revision : Nat, revenue : Nat, direct : Nat]
  BY DEF IInv, TypeOK
<1>2. PICK u \in Users, amount \in Gifts : DepositMaker(u, amount) \/ DepositProtocol(u, amount)
  BY DEF DirectDeposit
<1>3. amount \in Nat
  BY AmountAssumption
<1>4. /\ cash[u] >= amount /\ cash' = Credit(cash, u, - amount)
      /\ UNCHANGED <<root, admin, passes>>
  BY <1>2 DEF DepositMaker, DepositProtocol
<1>5. cash' \in [Users -> Nat]
  BY <1>1, <1>3, <1>4, CreditTyped
<1>6. ControlNeverLost'
  BY <1>4 DEF IInv, ControlNeverLost, AdminValid, OpenListings, marketVars
<1>7. CASE DepositMaker(u, amount)
  <2>1. treasury' = DepositedDirectly(treasury, amount) /\ protocol' = protocol
        /\ root.lifecycle # Paused
    BY <1>7 DEF DepositMaker, Depositable, Active, Paused
  <2>2. treasury' \in Treasuries
    BY <1>1, <1>3, <2>1, TillMoves
  <2>3. TypeOK'
    BY <1>1, <1>4, <1>5, <2>1, <2>2 DEF TypeOK, marketVars
  <2>4. QED
    BY <1>4, <1>6, <2>1, <2>3, ControlNotForSale, MarketUndisturbed
<1>8. CASE DepositProtocol(u, amount)
  <2>1. protocol' = [protocol EXCEPT !.revenue = @ + amount, !.direct = @ + amount]
        /\ treasury' = treasury
    BY <1>8 DEF DepositProtocol
  <2>2. protocol' \in [enabled : BOOLEAN, revision : Nat, revenue : Nat, direct : Nat]
    <3>1. protocol.revenue + amount \in Nat /\ protocol.direct + amount \in Nat
      BY <1>1, <1>3
    <3>2. PICK r \in Nat, d \in Nat : protocol' = [protocol EXCEPT !.revenue = r, !.direct = d]
      BY <2>1, <3>1
    <3> QED
      BY <1>1, <3>2
  <2>3. TypeOK'
    BY <1>1, <1>4, <1>5, <2>1, <2>2 DEF TypeOK, marketVars
  <2>4. QED
    BY <1>4, <1>6, <2>1, <2>3, MarketUndisturbed
<1>9. QED
  BY <1>2, <1>7, <1>8

(* A Pack's money concerns nothing else. *)
LEMMA PackKeeps ==
    ASSUME IInv, PackCall
    PROVE  IInv'
<1>1. /\ TypeOK /\ cash \in [Users -> Nat] /\ packs \in Treasuries
  BY DEF IInv, TypeOK
<1>2. UNCHANGED <<protocol, root, admin, treasury, passes, items, entitled, listings,
                  registry, till, orders>>
  BY PackAside
<1>3. cash' \in [Users -> Nat] /\ packs' \in Treasuries
  <2>1. ASSUME NEW u \in Users, NEW amount \in Gifts, DepositPack(u, amount)
        PROVE  cash' \in [Users -> Nat] /\ packs' \in Treasuries
    <3>1. amount \in Nat
      BY AmountAssumption
    <3>2. cash[u] >= amount /\ cash' = Credit(cash, u, - amount)
          /\ packs' = DepositedDirectly(packs, amount)
      BY <2>1 DEF DepositPack
    <3>3. cash[u] + (- amount) \in Nat /\ - amount \in Int
      BY <1>1, <3>1, <3>2
    <3>4. cash' \in [Users -> Nat]
      BY <1>1, <3>2, <3>3, CreditTyped
    <3>5. packs' \in Treasuries
      BY <1>1, <3>1, <3>2, TillMoves
    <3>6. QED
      BY <3>4, <3>5
  <2>2. ASSUME NEW amount \in Amounts, NEW to \in Payees, WithdrawPack(amount, to)
        PROVE  cash' \in [Users -> Nat] /\ packs' \in Treasuries
    <3>1. amount \in Nat /\ to \in Users
      BY AmountAssumption
    <3>2. cash[to] + amount \in Nat /\ amount \in Int
      BY <1>1, <3>1
    <3>3. QED
      BY <1>1, <2>2, <3>1, <3>2, CreditTyped, TillMoves DEF WithdrawPack
  <2>3. QED
    BY <2>1, <2>2 DEF PackCall
<1>4. TypeOK'
  BY <1>1, <1>2, <1>3 DEF TypeOK
<1>5. OpenListings' = OpenListings /\ Sales' = Sales
  BY <1>2 DEF OpenListings, Sales
<1>6. CustodyExact' /\ ControlSaleFrozen' /\ AssetSaleFrozen' /\ SellersKnown'
  BY <1>2, <1>5 DEF IInv, CustodyExact, ControlSaleFrozen, AssetSaleFrozen, SellersKnown, AdminValid
<1>7. ControlNeverLost' /\ OneBaseItemPerHolder' /\ RegistryAgrees'
  BY <1>2, <1>5 DEF IInv, ControlNeverLost, OneBaseItemPerHolder, RegistryAgrees, AdminValid
<1>8. QED
  BY <1>4, <1>6, <1>7 DEF IInv

-----------------------------------------------------------------------------
(* The sale of control. *)

(* Control is listed. *)
LEMMA ListControlKeeps ==
    ASSUME IInv, NEW u \in Users, NEW l \in Listings, NEW gross \in Gross,
           ListControl(u, l, gross)
    PROVE  IInv'
<1>1. /\ TypeOK /\ root.owner \in Users /\ root.epoch \in Nat
      /\ admin \in [owner : Users, epoch : Nat, at : Users \cup Listings]
  BY DEF IInv, TypeOK
<1>2. /\ OpenListing(l, Control, u, root.epoch, gross)
      /\ root.lifecycle = Paused /\ treasury.revenue = 0
      /\ admin.at = u /\ AdminValid /\ root.owner = u
      /\ admin' = [admin EXCEPT !.at = l]
      /\ UNCHANGED <<protocol, root, treasury, passes, cash, items, entitled, till, packs, orders>>
  BY DEF ListControl, Controls
<1>3. Control \in Goods
  BY DEF Goods
<1>4. /\ listings' \in [Listings -> ListingRecords]
      /\ registry' \in RegistryRecords
      /\ listings[l].status = Fresh
      /\ listings'[l].status = Open /\ listings'[l].good = Control
      /\ listings'[l].seller = u /\ listings'[l].epoch = root.epoch
      /\ \A m \in Listings \ {l} : listings'[m] = listings[m]
      /\ OpenListings' = OpenListings \cup {l} /\ l \notin OpenListings
  BY <1>1, <1>2, <1>3, Opening
<1>5. /\ admin' \in [owner : Users, epoch : Nat, at : Users \cup Listings]
      /\ admin'.at = l /\ admin'.owner = admin.owner /\ admin'.epoch = admin.epoch
  BY <1>1, <1>2
<1>6. TypeOK'
  BY <1>1, <1>2, <1>4, <1>5 DEF TypeOK
<1>7. \A m \in OpenListings : listings[m].good # Control
  BY <1>2, ControlNotForSale
<1>8. \A m \in OpenListings : m \in Listings \ {l} /\ listings'[m] = listings[m]
  BY <1>4 DEF OpenListings
<1>9. CustodyExact'
  <2>1. \A a \in Assets : items[a].at # l
    BY <1>4 DEF IInv, CustodyExact, Open, Fresh
  <2>2. Control \notin Assets
    BY ControlAssumption
  <2>3. QED
    BY <1>2, <1>4, <1>5, <1>7, <2>1, <2>2 DEF IInv, CustodyExact, OpenListings
<1>10. ControlSaleFrozen'
  BY <1>8, <1>2, <1>4, <1>5, <1>7 DEF ControlSaleFrozen, AdminValid
<1>11. AssetSaleFrozen'
  BY <1>8, <1>2, <1>4, ControlAssumption DEF IInv, AssetSaleFrozen
<1>12. SellersKnown'
  BY <1>8, <1>3, <1>4 DEF IInv, SellersKnown
<1>13. ControlNeverLost'
  BY <1>2, <1>4, <1>5 DEF ControlNeverLost, AdminValid
<1>14. OneBaseItemPerHolder'
  BY <1>2 DEF IInv, OneBaseItemPerHolder
<1>15. RegistryAgrees'
  BY <1>1, <1>2, <1>3, OpeningBooks DEF IInv
<1>16. QED
  BY <1>6, <1>9, <1>10, <1>11, <1>12, <1>13, <1>14, <1>15 DEF IInv

(* A sale of control. *)
LEMMA PurchaseControlKeeps ==
    ASSUME IInv, NEW u \in Users, PurchaseControl(u)
    PROVE  IInv'
<1> DEFINE l == orders[u].listing
<1>1. TypeOK /\ orders[u] # None
  BY DEF IInv, PurchaseControl
<1>2. l \in Listings
  BY <1>1 DEF TypeOK, Orders
<1>3. /\ listings[l].status = Open /\ listings[l].good = Control
      /\ root.lifecycle = Paused
      /\ admin.at = l
      /\ Rotate(u, u)
      /\ Pay(l, u, orders[u].gross)
      /\ SettleListing(l, u)
      /\ UNCHANGED <<passes, items, entitled>>
  BY DEF PurchaseControl
<1> HIDE DEF l
<1>4. l \in OpenListings /\ listings[l].seller \in Users /\ listings[l].good \in Goods
  BY <1>2, <1>3 DEF IInv, SellersKnown, OpenListings
<1>5. /\ root' \in [lifecycle : Lifecycles, owner : Users, epoch : Nat, price : Nat]
      /\ admin' \in [owner : Users, epoch : Nat, at : Users \cup Listings]
      /\ root'.owner = u /\ root'.epoch = root.epoch + 1
      /\ admin'.owner = u /\ admin'.epoch = root.epoch + 1 /\ admin'.at = u
  BY <1>1, <1>3, Rotating
<1>6. /\ cash' \in [Users -> Nat]
      /\ protocol' \in [enabled : BOOLEAN, revision : Nat, revenue : Nat, direct : Nat]
      /\ UNCHANGED treasury
      /\ packs' \in Treasuries
      /\ till' = [escrow |-> 0, escrowed |-> till.escrowed + orders[u].gross,
                  released |-> till.released + orders[u].gross]
      /\ orders[u].gross = listings[l].quote.gross
  BY <1>1, <1>2, <1>3, <1>4, Paying
<1>7. /\ listings' \in [Listings -> ListingRecords]
      /\ registry' \in RegistryRecords
      /\ orders' \in [Users -> Orders \cup {None}]
      /\ listings'[l].status = Settled
      /\ \A m \in Listings \ {l} : listings'[m] = listings[m]
      /\ OpenListings' = OpenListings \ {l}
  BY <1>1, <1>2, <1>3, Settling
<1>8. TypeOK'
  <2>1. till' \in [escrow : Nat, escrowed : Nat, released : Nat]
    <3>1. orders[u].gross \in Nat /\ till \in [escrow : Nat, escrowed : Nat, released : Nat]
      BY <1>1 DEF TypeOK, Orders
    <3>2. QED
      BY <1>6, <3>1
  <2>2. QED
    BY <1>1, <1>3, <1>5, <1>6, <1>7, <2>1 DEF TypeOK
<1>9. \A m \in OpenListings \ {l} : listings[m].good # Control
  BY <1>3 DEF IInv, CustodyExact, OpenListings
<1>10. CustodyExact'
  <2>1. \A m \in Listings : m \notin Users
    BY NamesAssumption
  <2>2. \A m \in Listings : admin'.at # m
    BY <1>5, <2>1
  <2>3. \A m \in Listings : ~ (listings'[m].status = Open /\ listings'[m].good = Control)
    BY <1>7, <1>9 DEF OpenListings, Open, Settled
  <2>4. \A a \in Assets : items[a].at # l
    BY <1>2, <1>3, ControlAssumption DEF IInv, CustodyExact
  <2>5. \A m \in Listings : \A a \in Assets :
           items[a].at = m <=> listings'[m].status = Open /\ listings'[m].good = a
    BY <1>7, <2>4 DEF IInv, CustodyExact, Open, Settled
  <2>6. QED
    BY <1>3, <2>2, <2>3, <2>5 DEF IInv, CustodyExact
<1>11. ControlSaleFrozen'
  BY <1>7, <1>9 DEF ControlSaleFrozen, OpenListings
<1>12. AssetSaleFrozen' /\ SellersKnown'
  BY <1>3, <1>7 DEF IInv, AssetSaleFrozen, SellersKnown, OpenListings
<1>13. ControlNeverLost'
  BY <1>5 DEF ControlNeverLost, AdminValid
<1>14. OneBaseItemPerHolder'
  BY <1>3 DEF IInv, OneBaseItemPerHolder
<1>15. RegistryAgrees'
  BY <1>1, <1>2, <1>3, <1>4, SettlingBooks DEF IInv
<1>16. QED
  BY <1>8, <1>10, <1>11, <1>12, <1>13, <1>14, <1>15 DEF IInv

(* Control goes back to its seller. *)
LEMMA ReturnControlKeeps ==
    ASSUME IInv, NEW l \in Listings, NEW status \in {Canceled, Recovered},
           ReturnControl(l), CloseListing(l, status)
    PROVE  IInv'
<1>1. /\ TypeOK /\ root.owner \in Users
      /\ admin \in [owner : Users, epoch : Nat, at : Users \cup Listings]
  BY DEF IInv, TypeOK
<1>2. /\ listings[l].status = Open /\ listings[l].good = Control
      /\ admin.at = l /\ AdminValid /\ listings[l].seller = root.owner
      /\ admin' = [admin EXCEPT !.at = root.owner]
      /\ UNCHANGED <<protocol, root, treasury, passes, cash, items, entitled, till, packs, orders>>
  BY DEF ReturnControl, CapInCustody
<1>3. /\ listings' \in [Listings -> ListingRecords]
      /\ registry' \in RegistryRecords
      /\ listings'[l].status = status
      /\ \A m \in Listings \ {l} : listings'[m] = listings[m]
      /\ OpenListings' = OpenListings \ {l}
  BY <1>1, <1>2, Closing
<1>4. /\ admin' \in [owner : Users, epoch : Nat, at : Users \cup Listings]
      /\ admin'.at = root.owner /\ admin'.owner = admin.owner /\ admin'.epoch = admin.epoch
  BY <1>1, <1>2
<1>5. TypeOK'
  BY <1>1, <1>2, <1>3, <1>4 DEF TypeOK
<1>6. \A m \in OpenListings \ {l} : listings[m].good # Control
  BY <1>2 DEF IInv, CustodyExact, OpenListings
<1>7. CustodyExact'
  <2>1. \A m \in Listings : admin'.at # m
    BY <1>1, <1>4, NamesAssumption
  <2>2. \A m \in Listings : ~ (listings'[m].status = Open /\ listings'[m].good = Control)
    BY <1>3, <1>6 DEF OpenListings, Open, Canceled, Recovered
  <2>3. \A a \in Assets : items[a].at # l
    BY <1>2, ControlAssumption DEF IInv, CustodyExact
  <2>4. \A m \in Listings : \A a \in Assets :
           items[a].at = m <=> listings'[m].status = Open /\ listings'[m].good = a
    BY <1>3, <2>3 DEF IInv, CustodyExact, Open, Canceled, Recovered
  <2>5. QED
    BY <1>2, <2>1, <2>2, <2>4 DEF IInv, CustodyExact
<1>8. ControlSaleFrozen'
  BY <1>3, <1>6 DEF ControlSaleFrozen, OpenListings
<1>9. AssetSaleFrozen' /\ SellersKnown'
  BY <1>2, <1>3 DEF IInv, AssetSaleFrozen, SellersKnown, OpenListings
<1>10. ControlNeverLost'
  BY <1>2, <1>4 DEF ControlNeverLost, AdminValid
<1>11. OneBaseItemPerHolder'
  BY <1>2 DEF IInv, OneBaseItemPerHolder
<1>12. RegistryAgrees'
  BY <1>1, <1>2, ClosingBooks DEF IInv
<1>13. QED
  BY <1>5, <1>7, <1>8, <1>9, <1>10, <1>11, <1>12 DEF IInv

-----------------------------------------------------------------------------
(* Assets. *)

(* Handing an asset over keeps one base item per holder. *)
LEMMA Handing ==
    ASSUME TypeOK, OneBaseItemPerHolder, NEW a \in Assets, NEW to \in Users,
           items[a].holder \in Users, Hand(a, to)
    PROVE  /\ items' \in [Assets -> ItemRecords]
           /\ entitled' \in [Users -> Assets \cup {None}]
           /\ items'[a].holder = to /\ items'[a].at = to
           /\ \A b \in Assets \ {a} : items'[b] = items[b]
           /\ OneBaseItemPerHolder'
<1> DEFINE new == [holder |-> to, epoch |-> items[a].epoch + 1, at |-> to]
<1>1. items \in [Assets -> ItemRecords] /\ entitled \in [Users -> Assets \cup {None}]
  BY DEF TypeOK
<1>2. items' = [items EXCEPT ![a] = new]
  BY <1>1 DEF Hand
<1>3. new \in ItemRecords
  BY <1>1 DEF ItemRecords
<1>4. new.holder = to /\ new.at = to
  OBVIOUS
<1> HIDE DEF new
<1>5. /\ items' \in [Assets -> ItemRecords]
      /\ items'[a] = new
      /\ \A b \in Assets \ {a} : items'[b] = items[b]
  BY <1>1, <1>2, <1>3
<1>6. None \notin Assets
  BY NamesAssumption
<1>7. entitled' \in [Users -> Assets \cup {None}] /\ OneBaseItemPerHolder'
  <2>1. CASE LaneOf[a] = EquipmentBase
    <3> DEFINE h == items[a].holder
    <3>1. /\ entitled[h] = a /\ to # h /\ entitled[to] = None
          /\ entitled' = [entitled EXCEPT ![h] = None, ![to] = a]
      BY <2>1 DEF Hand
    <3>2. /\ entitled' \in [Users -> Assets \cup {None}]
          /\ entitled'[h] = None /\ entitled'[to] = a
          /\ \A v \in Users \ {h, to} : entitled'[v] = entitled[v]
      BY <1>1, <3>1
    <3> HIDE DEF h
    <3>3. ASSUME NEW b \in Assets, LaneOf[b] = EquipmentBase, NEW v \in Users
          PROVE  entitled'[v] = b <=> items'[b].holder = v
      <4>1. entitled[v] = b <=> items[b].holder = v
        BY <3>3 DEF OneBaseItemPerHolder
      <4>2. entitled[h] = b <=> items[b].holder = h
        BY <3>3 DEF OneBaseItemPerHolder, h
      <4>3. entitled[to] = b <=> items[b].holder = to
        BY <3>3 DEF OneBaseItemPerHolder
      <4>4. CASE b = a
        <5>1. items'[b].holder = to
          BY <1>4, <1>5, <4>4
        <5>2. entitled[v] = a <=> v = h
          BY <4>1, <4>4 DEF h
        <5>3. QED
          BY <1>6, <3>1, <3>2, <4>4, <5>1, <5>2
      <4>5. CASE b # a
        <5>1. items'[b] = items[b]
          BY <1>5, <4>5
        <5>2. QED
          BY <1>6, <3>1, <3>2, <4>1, <4>2, <4>3, <4>5, <5>1
      <4>6. QED
        BY <4>4, <4>5
    <3>4. QED
      BY <3>2, <3>3 DEF OneBaseItemPerHolder
  <2>2. CASE LaneOf[a] # EquipmentBase
    <3>1. entitled' = entitled
      BY <2>2 DEF Hand
    <3>2. QED
      BY <1>1, <1>5, <2>2, <3>1 DEF OneBaseItemPerHolder
  <2>3. QED
    BY <2>1, <2>2
<1>8. QED
  BY <1>4, <1>5, <1>7

(* An asset in its holder's hands is not for sale. *)
LEMMA HeldAssetNotForSale ==
    ASSUME IInv, NEW a \in Assets, items[a].at \in Users \cup {None}
    PROVE  \A m \in OpenListings : listings[m].good # a
<1>1. \A m \in Listings : m \notin Users \cup {None}
  BY NamesAssumption
<1>2. QED
  BY <1>1 DEF IInv, CustodyExact, OpenListings

(* An asset is listed. *)
LEMMA ListAssetKeeps ==
    ASSUME IInv, NEW u \in Users, NEW l \in Listings, NEW a \in Assets, NEW gross \in Gross,
           ListAsset(u, l, a, gross)
    PROVE  IInv'
<1>1. /\ TypeOK /\ items \in [Assets -> ItemRecords] /\ items[a] \in ItemRecords
  BY DEF IInv, TypeOK
<1>2. /\ items[a].epoch \in Nat /\ a \in Goods
  BY <1>1 DEF ItemRecords, Goods
<1>3. /\ OpenListing(l, a, u, items[a].epoch, gross)
      /\ items[a].at = u /\ items[a].holder = u
      /\ UNCHANGED <<protocol, root, admin, treasury, passes, cash, entitled, till, packs, orders>>
  BY DEF ListAsset, Owns
<1>4. /\ listings' \in [Listings -> ListingRecords]
      /\ registry' \in RegistryRecords
      /\ listings[l].status = Fresh
      /\ listings'[l].status = Open /\ listings'[l].good = a
      /\ listings'[l].seller = u /\ listings'[l].epoch = items[a].epoch
      /\ \A m \in Listings \ {l} : listings'[m] = listings[m]
      /\ OpenListings' = OpenListings \cup {l} /\ l \notin OpenListings
  BY <1>1, <1>2, <1>3, Opening
<1> DEFINE new == [holder |-> items[a].holder, epoch |-> items[a].epoch, at |-> l]
<1>5. items' = [items EXCEPT ![a] = new] /\ new \in ItemRecords
  <2>1. items' = [items EXCEPT ![a] = [items[a] EXCEPT !.at = l]]
    BY <1>1 DEF ListAsset
  <2>2. items[a] \in ItemRecords
    BY <1>1
  <2>3. [items[a] EXCEPT !.at = l] = new
    BY <2>2 DEF ItemRecords
  <2>4. new \in ItemRecords
    BY <1>3, <2>2 DEF ItemRecords
  <2>5. QED
    BY <2>1, <2>3, <2>4
<1>6. new.holder = u /\ new.epoch = items[a].epoch /\ new.at = l
  BY <1>3
<1> HIDE DEF new
<1>7. /\ items' \in [Assets -> ItemRecords]
      /\ items'[a] = new
      /\ \A b \in Assets \ {a} : items'[b] = items[b]
  BY <1>1, <1>5
<1>8. TypeOK'
  BY <1>1, <1>3, <1>4, <1>7 DEF TypeOK
<1>9. \A m \in OpenListings : /\ m \in Listings \ {l} /\ listings'[m] = listings[m]
                              /\ listings[m].good # a
  BY <1>3, <1>4, HeldAssetNotForSale DEF OpenListings
<1>10. a # Control
  BY ControlAssumption
<1>11. CustodyExact'
  <2>1. \A m \in Listings : admin'.at = m <=>
                               listings'[m].status = Open /\ listings'[m].good = Control
    BY <1>3, <1>4, <1>10 DEF IInv, CustodyExact, Open, Fresh
  <2>2. ASSUME NEW m \in Listings, NEW b \in Assets
        PROVE  items'[b].at = m <=> listings'[m].status = Open /\ listings'[m].good = b
    <3>1. items[b].at = m <=> listings[m].status = Open /\ listings[m].good = b
      BY DEF IInv, CustodyExact
    <3>2. CASE b = a
      BY <1>4, <1>6, <1>7, <1>9, <3>2 DEF OpenListings
    <3>3. CASE b # a
      BY <1>4, <1>7, <3>1, <3>3 DEF Open, Fresh
    <3>4. QED
      BY <3>2, <3>3
  <2>3. \A b \in Assets : items'[b].at \in Listings \/ items'[b].at = items'[b].holder
    BY <1>6, <1>7 DEF IInv, CustodyExact
  <2>4. QED
    BY <2>1, <2>2, <2>3 DEF CustodyExact
<1>12. ControlSaleFrozen'
  BY <1>3, <1>4, <1>9, <1>10 DEF IInv, ControlSaleFrozen, AdminValid
<1>13. AssetSaleFrozen'
  BY <1>4, <1>6, <1>7, <1>9 DEF IInv, AssetSaleFrozen
<1>14. SellersKnown'
  BY <1>2, <1>4, <1>9 DEF IInv, SellersKnown
<1>15. ControlNeverLost'
  BY <1>3, <1>4 DEF IInv, ControlNeverLost, AdminValid
<1>16. OneBaseItemPerHolder'
  BY <1>3, <1>6, <1>7 DEF IInv, OneBaseItemPerHolder
<1>17. RegistryAgrees'
  BY <1>1, <1>2, <1>3, OpeningBooks DEF IInv
<1>18. QED
  BY <1>8, <1>11, <1>12, <1>13, <1>14, <1>15, <1>16, <1>17 DEF IInv

(* A listed asset leaves its listing for an address: what is for sale elsewhere *)
(* stays where it is.                                                           *)
LEMMA LeavingCustody ==
    ASSUME IInv, NEW l \in Listings, InCustody(l), NEW status \in {Settled, Canceled, Recovered},
           listings'[l].status = status,
           \A m \in Listings \ {l} : listings'[m] = listings[m],
           OpenListings' = OpenListings \ {l},
           items'[listings[l].good].at = items'[listings[l].good].holder,
           items'[listings[l].good].at \notin Listings,
           \A b \in Assets \ {listings[l].good} : items'[b] = items[b],
           UNCHANGED <<root, admin>>,
           root.lifecycle = Paused => UNCHANGED treasury
    PROVE  CustodyExact' /\ ControlSaleFrozen' /\ AssetSaleFrozen' /\ SellersKnown'
              /\ ControlNeverLost'
<1> DEFINE a == listings[l].good
<1>1. a \in Assets /\ listings[l].status = Open /\ a # Control
  BY ControlAssumption DEF InCustody
<1>2. l \in OpenListings
  BY <1>1 DEF OpenListings
<1>3. items[a].at = l
  BY <1>1, <1>2 DEF IInv, CustodyExact
<1>4. \A m \in OpenListings \ {l} : /\ m \in Listings /\ listings'[m] = listings[m]
                                    /\ listings[m].good # a
  BY <1>1, <1>3 DEF IInv, CustodyExact, OpenListings
<1> HIDE DEF a
<1>5. CustodyExact'
  <2>1. status # Open
    BY DEF Open, Settled, Canceled, Recovered
  <2>2. \A m \in Listings : admin'.at = m <=>
                               listings'[m].status = Open /\ listings'[m].good = Control
    BY <1>1, <2>1 DEF IInv, CustodyExact, a
  <2>3. ASSUME NEW m \in Listings, NEW b \in Assets
        PROVE  items'[b].at = m <=> listings'[m].status = Open /\ listings'[m].good = b
    <3>1. items[b].at = m <=> listings[m].status = Open /\ listings[m].good = b
      BY DEF IInv, CustodyExact
    <3>2. CASE b = a
      BY <1>3, <2>1, <3>1, <3>2 DEF a
    <3>3. CASE b # a
      BY <1>1, <2>1, <3>1, <3>3 DEF a
    <3>4. QED
      BY <3>2, <3>3
  <2>4. \A b \in Assets : items'[b].at \in Listings \/ items'[b].at = items'[b].holder
    BY DEF IInv, CustodyExact, a
  <2>5. QED
    BY <2>2, <2>3, <2>4 DEF CustodyExact
<1>6. ControlSaleFrozen'
  BY <1>4 DEF IInv, ControlSaleFrozen, AdminValid
<1>7. AssetSaleFrozen'
  BY <1>4 DEF IInv, AssetSaleFrozen, a
<1>8. SellersKnown'
  BY <1>4 DEF IInv, SellersKnown
<1>9. ControlNeverLost'
  <2>1. admin.at # l
    BY <1>1 DEF IInv, CustodyExact, a
  <2>2. QED
    BY <2>1 DEF IInv, ControlNeverLost, AdminValid
<1>10. QED
  BY <1>5, <1>6, <1>7, <1>8, <1>9

(* A sale of an asset. *)
LEMMA PurchaseAssetKeeps ==
    ASSUME IInv, NEW u \in Users, PurchaseAsset(u)
    PROVE  IInv'
<1> DEFINE l == orders[u].listing
           a == listings[l].good
<1>1. TypeOK /\ orders[u] # None
  BY DEF IInv, PurchaseAsset
<1>2. l \in Listings
  BY <1>1 DEF TypeOK, Orders
<1>3. /\ InCustody(l) /\ root.lifecycle = Active
      /\ Pay(l, u, orders[u].gross)
      /\ Hand(a, u)
      /\ SettleListing(l, u)
      /\ UNCHANGED <<root, admin, passes>>
  BY DEF PurchaseAsset
<1> HIDE DEF l
<1>4. /\ l \in OpenListings /\ listings[l].status = Open /\ a \in Assets
      /\ a \in Goods /\ listings[l].seller \in Users
      /\ items[a].holder = listings[l].seller
  BY <1>2, <1>3 DEF IInv, SellersKnown, OpenListings, InCustody, Goods
<1>5. /\ cash' \in [Users -> Nat]
      /\ protocol' \in [enabled : BOOLEAN, revision : Nat, revenue : Nat, direct : Nat]
      /\ treasury' \in Treasuries
      /\ packs' \in Treasuries
      /\ till' = [escrow |-> 0, escrowed |-> till.escrowed + orders[u].gross,
                  released |-> till.released + orders[u].gross]
  BY <1>1, <1>2, <1>3, <1>4, Paying
<1>6. /\ listings' \in [Listings -> ListingRecords]
      /\ registry' \in RegistryRecords
      /\ orders' \in [Users -> Orders \cup {None}]
      /\ listings'[l].status = Settled
      /\ \A m \in Listings \ {l} : listings'[m] = listings[m]
      /\ OpenListings' = OpenListings \ {l}
  BY <1>1, <1>2, <1>3, <1>4, Settling
<1>7. /\ items' \in [Assets -> ItemRecords]
      /\ entitled' \in [Users -> Assets \cup {None}]
      /\ items'[a].holder = u /\ items'[a].at = u
      /\ \A b \in Assets \ {a} : items'[b] = items[b]
      /\ OneBaseItemPerHolder'
  BY <1>1, <1>3, <1>4, Handing DEF IInv
<1>8. TypeOK'
  <2>1. till' \in [escrow : Nat, escrowed : Nat, released : Nat]
    <3>1. orders[u].gross \in Nat /\ till \in [escrow : Nat, escrowed : Nat, released : Nat]
      BY <1>1 DEF TypeOK, Orders
    <3>2. QED
      BY <1>5, <3>1
  <2>2. QED
    BY <1>1, <1>3, <1>5, <1>6, <1>7, <2>1 DEF TypeOK
<1>9. CustodyExact' /\ ControlSaleFrozen' /\ AssetSaleFrozen' /\ SellersKnown' /\ ControlNeverLost'
  <2>1. u \notin Listings
    BY NamesAssumption
  <2>2. root.lifecycle # Paused
    BY <1>3 DEF Active, Paused
  <2>3. QED
    BY <1>2, <1>3, <1>6, <1>7, <2>1, <2>2, LeavingCustody
<1>10. RegistryAgrees'
  BY <1>1, <1>2, <1>3, <1>4, SettlingBooks DEF IInv
<1>11. QED
  BY <1>7, <1>8, <1>9, <1>10 DEF IInv

(* An asset goes back to its seller. *)
LEMMA ReturnAssetKeeps ==
    ASSUME IInv, NEW l \in Listings, NEW status \in {Canceled, Recovered},
           ReturnAsset(l), CloseListing(l, status)
    PROVE  IInv'
<1> DEFINE a == listings[l].good
<1>1. TypeOK /\ items \in [Assets -> ItemRecords]
  BY DEF IInv, TypeOK
<1>2. /\ InCustody(l)
      /\ items' = [items EXCEPT ![a].at = listings[l].seller]
      /\ UNCHANGED <<protocol, root, admin, treasury, passes, cash, entitled, till, packs, orders>>
  BY DEF ReturnAsset
<1>3. /\ listings[l].status = Open /\ a \in Assets /\ l \in OpenListings
      /\ items[a].holder = listings[l].seller /\ listings[l].seller \in Users
  BY <1>2 DEF IInv, SellersKnown, OpenListings, InCustody
<1>4. /\ listings' \in [Listings -> ListingRecords]
      /\ registry' \in RegistryRecords
      /\ listings'[l].status = status
      /\ \A m \in Listings \ {l} : listings'[m] = listings[m]
      /\ OpenListings' = OpenListings \ {l}
  BY <1>1, <1>3, Closing
<1> DEFINE new == [holder |-> items[a].holder, epoch |-> items[a].epoch, at |-> listings[l].seller]
<1>5. items' = [items EXCEPT ![a] = new] /\ new \in ItemRecords
  <2>1. items' = [items EXCEPT ![a] = [items[a] EXCEPT !.at = listings[l].seller]]
    BY <1>1, <1>2
  <2>2. items[a] \in ItemRecords
    BY <1>1, <1>3
  <2>3. [items[a] EXCEPT !.at = listings[l].seller] = new
    BY <2>2 DEF ItemRecords
  <2>4. new \in ItemRecords
    BY <1>3, <2>2 DEF ItemRecords
  <2>5. QED
    BY <2>1, <2>3, <2>4
<1>6. new.holder = listings[l].seller /\ new.at = listings[l].seller
  BY <1>3
<1> HIDE DEF new, a
<1>7. /\ items' \in [Assets -> ItemRecords]
      /\ items'[a] = new
      /\ \A b \in Assets \ {a} : items'[b] = items[b]
  BY <1>1, <1>3, <1>5
<1>8. TypeOK'
  BY <1>1, <1>2, <1>4, <1>7 DEF TypeOK
<1>9. CustodyExact' /\ ControlSaleFrozen' /\ AssetSaleFrozen' /\ SellersKnown' /\ ControlNeverLost'
  <2>1. listings[l].seller \notin Listings
    BY <1>3, NamesAssumption
  <2>2. items'[a].at = items'[a].holder /\ items'[a].at \notin Listings
    BY <1>6, <1>7, <2>1
  <2>3. QED
    BY <1>2, <1>4, <1>7, <2>2, LeavingCustody DEF a
<1>10. OneBaseItemPerHolder'
  BY <1>2, <1>3, <1>6, <1>7 DEF IInv, OneBaseItemPerHolder
<1>11. RegistryAgrees'
  BY <1>1, <1>2, <1>3, ClosingBooks DEF IInv
<1>12. QED
  BY <1>8, <1>9, <1>10, <1>11 DEF IInv

(* An equipment listing is repriced. *)
LEMMA RepriceKeeps ==
    ASSUME IInv, NEW u \in Users, NEW l \in Listings, NEW gross \in Gross, Reprice(u, l, gross)
    PROVE  IInv'
<1>1. /\ TypeOK /\ listings \in [Listings -> ListingRecords] /\ registry \in RegistryRecords
      /\ listings[l] \in ListingRecords
  BY DEF IInv, TypeOK
<1>2. /\ listings[l].status = Open /\ listings[l].good \in Assets
      /\ Quotable(listings[l].good, gross)
      /\ listings' = [listings EXCEPT ![l].quote = Quote(listings[l].good, gross),
                                      ![l].revision = @ + 1]
      /\ registry' = [registry EXCEPT !.revision = @ + 1]
      /\ UNCHANGED <<controlVars, items, entitled, till, packs, orders>>
  BY DEF Reprice
<1> DEFINE new == [status |-> Open, good |-> listings[l].good, seller |-> listings[l].seller,
                   epoch |-> listings[l].epoch, quote |-> Quote(listings[l].good, gross),
                   revision |-> listings[l].revision + 1, recipient |-> listings[l].recipient]
<1>3. listings' = [listings EXCEPT ![l] = new]
  BY <1>1, <1>2 DEF ListingRecords
<1>4. new \in ListingRecords
  <2>1. gross \in Nat /\ listings[l].good \in Goods
    BY <1>2, QuoteAssumption DEF Goods
  <2>2. Quote(listings[l].good, gross) \in Quotes
    BY <1>2, <2>1, QuoteTyped
  <2>3. QED
    BY <1>1, <2>2 DEF ListingRecords
<1>5. /\ new.status = listings[l].status /\ new.good = listings[l].good
      /\ new.seller = listings[l].seller /\ new.epoch = listings[l].epoch
  BY <1>2
<1> HIDE DEF new
<1>6. listings' \in [Listings -> ListingRecords]
  BY <1>1, <1>3, <1>4
<1>7. \A m \in Listings : /\ listings'[m].status = listings[m].status
                          /\ listings'[m].good = listings[m].good
                          /\ listings'[m].seller = listings[m].seller
                          /\ listings'[m].epoch = listings[m].epoch
  BY <1>1, <1>3, <1>5
<1>8. registry' \in RegistryRecords
  BY <1>1, <1>2 DEF RegistryRecords
<1>9. UNCHANGED <<protocol, root, admin, treasury, passes, cash, items, entitled, till, packs, orders>>
  BY <1>2 DEF controlVars
<1>10. OpenListings' = OpenListings /\ Sales' = Sales
  BY <1>7 DEF OpenListings, Sales
<1>11. TypeOK'
  BY <1>1, <1>6, <1>8, <1>9 DEF TypeOK
<1>12. CustodyExact'
  BY <1>7, <1>9 DEF IInv, CustodyExact
<1>13. ControlSaleFrozen' /\ AssetSaleFrozen' /\ SellersKnown'
  <2>1. \A m \in OpenListings : m \in Listings
    BY DEF OpenListings
  <2>2. QED
    BY <1>7, <1>9, <1>10, <2>1 DEF IInv, ControlSaleFrozen, AssetSaleFrozen, SellersKnown, AdminValid
<1>14. ControlNeverLost' /\ OneBaseItemPerHolder'
  BY <1>9, <1>10 DEF IInv, ControlNeverLost, OneBaseItemPerHolder, AdminValid
<1>15. RegistryAgrees'
  BY <1>1, <1>2, <1>9, <1>10 DEF IInv, RegistryAgrees, RegistryRecords
<1>16. QED
  BY <1>11, <1>12, <1>13, <1>14, <1>15 DEF IInv

(* An asset that changes neither its place in a listing nor the listings. *)
LEMMA AssetMoves ==
    ASSUME IInv, NEW a \in Assets, NEW to \in Users, items[a].at \in Users \cup {None},
           items' \in [Assets -> ItemRecords],
           entitled' \in [Users -> Assets \cup {None}],
           items'[a].holder = to, items'[a].at = to,
           \A b \in Assets \ {a} : items'[b] = items[b],
           UNCHANGED <<controlVars, listings, registry, till, packs, orders>>,
           OneBaseItemPerHolder'
    PROVE  IInv'
<1>1. UNCHANGED <<protocol, root, admin, treasury, passes, cash>>
  BY DEF controlVars
<1>2. OpenListings' = OpenListings /\ Sales' = Sales
  BY DEF OpenListings, Sales
<1>3. \A m \in OpenListings : listings[m].good # a
  BY HeldAssetNotForSale
<1>4. TypeOK'
  BY <1>1 DEF IInv, TypeOK
<1>5. CustodyExact'
  <2>1. to \notin Listings
    BY NamesAssumption
  <2>2. ASSUME NEW m \in Listings, NEW b \in Assets
        PROVE  items'[b].at = m <=> listings'[m].status = Open /\ listings'[m].good = b
    BY <1>3, <2>1 DEF IInv, CustodyExact, OpenListings
  <2>3. QED
    BY <1>1, <2>2 DEF IInv, CustodyExact
<1>6. ControlSaleFrozen' /\ SellersKnown' /\ ControlNeverLost' /\ RegistryAgrees'
  BY <1>1, <1>2 DEF IInv, ControlSaleFrozen, SellersKnown, ControlNeverLost, RegistryAgrees, AdminValid
<1>7. AssetSaleFrozen'
  BY <1>2, <1>3 DEF IInv, AssetSaleFrozen
<1>8. QED
  BY <1>4, <1>5, <1>6, <1>7 DEF IInv

(* A gift of an asset. *)
LEMMA TransferItemKeeps ==
    ASSUME IInv, NEW u \in Users, NEW a \in Assets, NEW to \in Users, TransferItem(u, a, to)
    PROVE  IInv'
<1>1. /\ items[a].at = u /\ items[a].holder = u /\ Hand(a, to)
      /\ UNCHANGED <<controlVars, listings, registry, till, packs, orders>>
  BY DEF TransferItem, Owns
<1>2. TypeOK /\ OneBaseItemPerHolder
  BY DEF IInv
<1>3. QED
  BY <1>1, <1>2, Handing, AssetMoves

(* A base item is claimed. *)
LEMMA ClaimBaseItemKeeps ==
    ASSUME IInv, NEW u \in Users, NEW a \in Assets, ClaimBaseItem(u, a)
    PROVE  IInv'
<1> DEFINE new == [holder |-> u, epoch |-> 0, at |-> u]
<1>1. /\ LaneOf[a] = EquipmentBase /\ items[a].at = None /\ entitled[u] = None
      /\ items' = [items EXCEPT ![a] = new]
      /\ entitled' = [entitled EXCEPT ![u] = a]
      /\ UNCHANGED <<controlVars, listings, registry, till, packs, orders>>
  BY DEF ClaimBaseItem
<1>2. /\ items \in [Assets -> ItemRecords] /\ entitled \in [Users -> Assets \cup {None}]
  BY DEF IInv, TypeOK
<1>3. new \in ItemRecords /\ new.holder = u /\ new.at = u
  BY DEF ItemRecords
<1> HIDE DEF new
<1>4. /\ items' \in [Assets -> ItemRecords] /\ items'[a] = new
      /\ \A b \in Assets \ {a} : items'[b] = items[b]
      /\ entitled' \in [Users -> Assets \cup {None}] /\ entitled'[u] = a
      /\ \A v \in Users \ {u} : entitled'[v] = entitled[v]
  BY <1>1, <1>2, <1>3
<1>5. None \notin Listings /\ None \notin Users /\ None \notin Assets
  BY NamesAssumption
<1>6. items[a].holder = None
  BY <1>1, <1>5 DEF IInv, CustodyExact
<1>7. OneBaseItemPerHolder'
  <2>1. ASSUME NEW b \in Assets, LaneOf[b] = EquipmentBase, NEW v \in Users
        PROVE  entitled'[v] = b <=> items'[b].holder = v
    <3>1. /\ entitled[v] = b <=> items[b].holder = v
          /\ entitled[u] = b <=> items[b].holder = u
      BY <2>1 DEF IInv, OneBaseItemPerHolder
    <3>2. CASE b = a
      BY <1>3, <1>4, <1>5, <1>6, <3>1, <3>2
    <3>3. CASE b # a
      BY <1>1, <1>4, <1>5, <3>1, <3>3
    <3>4. QED
      BY <3>2, <3>3
  <2>2. QED
    BY <2>1 DEF OneBaseItemPerHolder
<1>8. QED
  BY <1>1, <1>3, <1>4, <1>7, AssetMoves

(* A purchase is signed. *)
LEMMA SignOrderKeeps ==
    ASSUME IInv, NEW u \in Users, NEW l \in Listings, SignOrder(u, l)
    PROVE  IInv'
<1>1. /\ orders' = [orders EXCEPT ![u] = [listing |-> l, revision |-> listings[l].revision,
                                          gross |-> listings[l].quote.gross]]
      /\ UNCHANGED <<protocol, root, admin, treasury, passes, cash,
                     items, entitled, listings, registry, till, packs>>
  BY DEF SignOrder, controlVars
<1>2. listings[l] \in ListingRecords /\ orders \in [Users -> Orders \cup {None}]
  BY DEF IInv, TypeOK
<1>3. orders' \in [Users -> Orders \cup {None}]
  BY <1>1, <1>2 DEF ListingRecords, Quotes, Orders
<1>4. TypeOK'
  BY <1>1, <1>3 DEF IInv, TypeOK
<1>5. OpenListings' = OpenListings /\ Sales' = Sales
  BY <1>1 DEF OpenListings, Sales
<1>6. CustodyExact' /\ ControlSaleFrozen' /\ AssetSaleFrozen' /\ SellersKnown'
  BY <1>1, <1>5 DEF IInv, CustodyExact, ControlSaleFrozen, AssetSaleFrozen, SellersKnown, AdminValid
<1>7. ControlNeverLost' /\ OneBaseItemPerHolder' /\ RegistryAgrees'
  BY <1>1, <1>5 DEF IInv, ControlNeverLost, OneBaseItemPerHolder, RegistryAgrees, AdminValid
<1>8. QED
  BY <1>4, <1>6, <1>7 DEF IInv

-----------------------------------------------------------------------------
(* The specification. *)

(* The invariant holds of a Maker just drafted and an empty market. *)
LEMMA InitInv == Init => IInv
<1> SUFFICES ASSUME Init PROVE IInv
  OBVIOUS
<1>1. /\ protocol = [enabled |-> TRUE, revision |-> 0, revenue |-> 0, direct |-> 0]
      /\ admin = [owner |-> Creator, epoch |-> 0, at |-> Creator]
      /\ treasury = NoRevenue
      /\ passes = {} /\ cash = [u \in Users |-> Purse]
  BY DEF Init, ControlInit, Genesis
<1>2. PICK price \in Prices :
         root = [lifecycle |-> Draft, owner |-> Creator, epoch |-> 0, price |-> price]
  BY DEF Init, ControlInit
<1>3. /\ items = [a \in Assets |-> [holder |-> HolderOf[a], epoch |-> 0, at |-> HolderOf[a]]]
      /\ entitled = [u \in Users |-> None]
      /\ listings = [l \in Listings |-> NoListing]
      /\ registry = [revision |-> 0, listed |-> 0, escrowed |-> 0, completed |-> 0,
                     canceled |-> 0, recovered |-> 0, volume |-> 0, protocolPaid |-> 0,
                     creatorPaid |-> 0, sourcePaid |-> 0, sellerPaid |-> 0]
      /\ till = [escrow |-> 0, escrowed |-> 0, released |-> 0]
      /\ packs = NoRevenue /\ orders = [u \in Users |-> None]
  BY DEF Init, MarketInit
<1>4. Creator \in Users /\ price \in Nat /\ Purse \in Nat
  BY UsersAssumption, PriceAssumption, AmountAssumption
<1>5. HolderOf \in [Assets -> Users \cup {None}]
  BY AssetAssumption
<1>6. NoListing \in ListingRecords
  BY DEF NoListing, NoQuote, ListingRecords, Quotes
<1>7. /\ root \in [lifecycle : Lifecycles, owner : Users, epoch : Nat, price : Nat]
      /\ items \in [Assets -> ItemRecords]
  BY <1>2, <1>3, <1>4, <1>5 DEF Lifecycles, ItemRecords
<1>8. registry \in RegistryRecords
  BY <1>3 DEF RegistryRecords
<1>9. TypeOK
  <2>1. NoRevenue \in Treasuries
    BY DEF NoRevenue, Treasuries
  <2>2. QED
    BY <1>1, <1>3, <1>4, <1>6, <1>7, <1>8, <2>1 DEF TypeOK
<1>10. OpenListings = {} /\ Sales = {}
  BY <1>3 DEF OpenListings, Sales, NoListing, Fresh, Open, Settled
<1>11. CustodyExact
  <2>1. \A l \in Listings : l # Creator /\ l \notin Users \cup {None}
    BY <1>4, NamesAssumption
  <2>2. QED
    BY <1>1, <1>3, <1>5, <1>10, <2>1 DEF CustodyExact, OpenListings
<1>12. ControlSaleFrozen /\ AssetSaleFrozen /\ SellersKnown
  BY <1>10 DEF ControlSaleFrozen, AssetSaleFrozen, SellersKnown
<1>13. ControlNeverLost
  BY <1>1, <1>2 DEF ControlNeverLost, AdminValid
<1>14. OneBaseItemPerHolder
  BY <1>3, AssetAssumption, NamesAssumption DEF OneBaseItemPerHolder
<1>15. RegistryAgrees
  BY <1>3, <1>10, FS_EmptySet DEF RegistryAgrees
<1>16. QED
  BY <1>9, <1>11, <1>12, <1>13, <1>14, <1>15 DEF IInv

(* Every call keeps the invariant. *)
LEMMA StepInv == IInv /\ [Next]_vars => IInv'
<1> SUFFICES ASSUME IInv, [Next]_vars PROVE IInv'
  OBVIOUS
<1>1. CASE ControlNext /\ UNCHANGED marketVars
  <2>1. ASSUME NEW u \in Users, LifecycleChange(u) PROVE IInv'
    BY <1>1, <2>1, LifecycleKeeps
  <2>2. ASSUME NEW u \in Users, NEW to \in Users, TransferControl(u, to) PROVE IInv'
    BY <1>1, <2>2, TransferControlKeeps
  <2>3. ASSUME NEW u \in Users, ClaimFreeAccess(u) PROVE IInv'
    BY <1>1, <2>3, ClaimFreeAccessKeeps
  <2>4. ASSUME NEW u \in Users, PurchaseAccess(u) PROVE IInv'
    BY <1>1, <2>4, PurchaseAccessKeeps
  <2>5. ASSUME NEW u \in Users, NEW amount \in Amounts, NEW to \in Payees,
               WithdrawMaker(u, amount, to)
        PROVE  IInv'
    BY <1>1, <2>5, WithdrawMakerKeeps
  <2>6. ASSUME \/ ToggleProtocol
               \/ \E amount \in Amounts, to \in Payees : WithdrawProtocol(amount, to)
        PROVE  IInv'
    BY <1>1, <2>6, ProtocolKeeps
  <2>7. ASSUME DirectDeposit PROVE IInv'
    BY <1>1, <2>7, DirectKeeps
  <2>8. QED
    BY <1>1, <2>1, <2>2, <2>3, <2>4, <2>5, <2>6, <2>7 DEF ControlNext, LifecycleChange, DirectDeposit
<1>2. ASSUME NEW u \in Users, PurchaseControl(u) PROVE IInv'
  BY <1>2, PurchaseControlKeeps
<1>3. ASSUME NEW u \in Users, PurchaseAsset(u) PROVE IInv'
  BY <1>3, PurchaseAssetKeeps
<1>4. ASSUME NEW u \in Users, NEW l \in Listings, NEW gross \in Gross, ListControl(u, l, gross)
      PROVE  IInv'
  BY <1>4, ListControlKeeps
<1>5. ASSUME NEW u \in Users, NEW l \in Listings, NEW gross \in Gross, Reprice(u, l, gross)
      PROVE  IInv'
  BY <1>5, RepriceKeeps
<1>6. ASSUME NEW u \in Users, NEW l \in Listings, NEW gross \in Gross, NEW a \in Assets,
             ListAsset(u, l, a, gross)
      PROVE  IInv'
  BY <1>6, ListAssetKeeps
<1>7. ASSUME NEW u \in Users, NEW l \in Listings, CancelControl(u, l) PROVE IInv'
  BY <1>7, ReturnControlKeeps DEF CancelControl
<1>8. ASSUME NEW u \in Users, NEW l \in Listings, CancelAsset(u, l) PROVE IInv'
  BY <1>8, ReturnAssetKeeps DEF CancelAsset
<1>9. ASSUME NEW l \in Listings, RecoverControl(l) PROVE IInv'
  BY <1>9, ReturnControlKeeps DEF RecoverControl
<1>10. ASSUME NEW l \in Listings, RecoverAsset(l) PROVE IInv'
  BY <1>10, ReturnAssetKeeps DEF RecoverAsset
<1>11. ASSUME NEW u \in Users, NEW l \in Listings, SignOrder(u, l) PROVE IInv'
  BY <1>11, SignOrderKeeps
<1>12. ASSUME NEW u \in Users, NEW a \in Assets, ClaimBaseItem(u, a) PROVE IInv'
  BY <1>12, ClaimBaseItemKeeps
<1>13. ASSUME NEW u \in Users, NEW a \in Assets, NEW to \in Users, TransferItem(u, a, to)
       PROVE  IInv'
  BY <1>13, TransferItemKeeps
<1>14. CASE UNCHANGED vars
  <2>1. UNCHANGED <<protocol, root, admin, treasury, passes, cash,
                    items, entitled, listings, registry, till, packs, orders>>
    BY <1>14 DEF vars
  <2>2. OpenListings' = OpenListings /\ Sales' = Sales
    BY <2>1 DEF OpenListings, Sales
  <2>3. TypeOK' /\ CustodyExact'
    BY <2>1 DEF IInv, TypeOK, CustodyExact
  <2>4. ControlSaleFrozen' /\ AssetSaleFrozen' /\ SellersKnown'
    BY <2>1, <2>2 DEF IInv, ControlSaleFrozen, AssetSaleFrozen, SellersKnown, AdminValid
  <2>5. ControlNeverLost' /\ OneBaseItemPerHolder' /\ RegistryAgrees'
    BY <2>1, <2>2 DEF IInv, ControlNeverLost, OneBaseItemPerHolder, RegistryAgrees, AdminValid
  <2>6. QED
    BY <2>3, <2>4, <2>5 DEF IInv
<1>15. ASSUME PackCall PROVE IInv'
  BY <1>15, PackKeeps
<1>16. CASE MarketNext
  BY <1>2, <1>3, <1>4, <1>5, <1>6, <1>7, <1>8, <1>9, <1>10, <1>11, <1>12, <1>13, <1>15, <1>16
     DEF MarketNext, PackCall
<1>17. QED
  BY <1>1, <1>14, <1>16 DEF Next

(* The invariant is inductive. *)
THEOREM Inductive == Spec => []IInv
<1>1. Init => IInv
  BY InitInv
<1>2. IInv /\ [Next]_vars => IInv'
  BY StepInv
<1>3. QED
  BY <1>1, <1>2, PTL DEF Spec

(* Every variable holds a value of its Move type. *)
THEOREM TypeCorrect == Spec => []TypeOK
BY Inductive, PTL DEF IInv

(* An object is inside a listing exactly while that listing sells it. *)
THEOREM CustodyIsExact == Spec => []CustodyExact
BY Inductive, PTL DEF IInv

(* A Maker for sale stays as its buyer read it, with an empty treasury. *)
THEOREM ControlSaleIsFrozen == Spec => []ControlSaleFrozen
BY Inductive, PTL DEF IInv

(* An asset for sale keeps the holder and epoch its listing recorded. *)
THEOREM AssetSaleIsFrozen == Spec => []AssetSaleFrozen
BY Inductive, PTL DEF IInv

(* Nothing that is for sale, control or asset, changes under its buyer. *)
THEOREM SaleIsFrozen == Spec => []SaleFrozen
BY ControlSaleIsFrozen, AssetSaleIsFrozen, PTL DEF SaleFrozen

(* The cap the Root accepts is with the Root's owner or in an open listing. *)
THEOREM ControlStays == Spec => []ControlNeverLost
BY Inductive, PTL DEF IInv

(* Nobody ever holds two copies of a base item. *)
THEOREM OneEach == Spec => []OneBaseItemPerHolder
BY Inductive, PTL DEF IInv

(* Nothing on sale is stuck: the seller's cancellation passes every check    *)
(* in any state of the Maker and of the protocol, and so does a recovery     *)
(* once the sale is off.                                                     *)
THEOREM AlwaysTakenBack == Spec => []Returnable
<1>1. IInv => Returnable
  <2> SUFFICES ASSUME IInv, NEW l \in OpenListings
      PROVE  /\ listings[l].seller \in Users /\ Escrowing
             /\ CapInCustody(l) \/ InCustody(l)
    BY DEF Returnable
  <2>1. l \in Listings /\ listings[l].status = Open
    BY DEF OpenListings
  <2>2. listings[l].good \in Goods /\ listings[l].seller \in Users
    BY DEF IInv, SellersKnown
  <2>3. Escrowing
    <3>1. Cardinality(OpenListings) \in Nat /\ Cardinality(OpenListings) # 0
      BY ListingsFinite, FS_CardinalityType, FS_EmptySet
    <3>2. registry.escrowed = Cardinality(OpenListings)
      BY DEF IInv, RegistryAgrees
    <3> QED BY <3>1, <3>2 DEF Escrowing
  <2>4. ASSUME listings[l].good = Control PROVE CapInCustody(l)
    <3>1. admin.at = l
      BY <2>1, <2>4 DEF IInv, CustodyExact
    <3>2. AdminValid /\ root.owner = listings[l].seller
      BY <2>4 DEF IInv, ControlSaleFrozen
    <3> QED BY <2>1, <2>4, <3>1, <3>2 DEF CapInCustody
  <2>5. ASSUME listings[l].good \in Assets PROVE InCustody(l)
    <3>0. PICK a \in Assets : a = listings[l].good
      BY <2>5
    <3>1. items[a].holder = listings[l].seller /\ items[a].epoch = listings[l].epoch
      BY <2>5, <3>0 DEF IInv, AssetSaleFrozen
    <3>2. items[a].at = l
      BY <2>1, <3>0 DEF IInv, CustodyExact
    <3>3. items[a] \in ItemRecords
      BY <3>0 DEF IInv, TypeOK
    <3>4. items[a] = [holder |-> listings[l].seller, epoch |-> listings[l].epoch, at |-> l]
      BY <3>1, <3>2, <3>3 DEF ItemRecords
    <3> QED BY <2>1, <3>0, <3>4 DEF InCustody
  <2> QED BY <2>2, <2>3, <2>4, <2>5 DEF Goods
<1> QED BY <1>1, Inductive, PTL

-----------------------------------------------------------------------------
(* What a step may never do. *)

(* A listing that becomes settled was settled by a purchase signed for it. *)
LEMMA OnlyPurchasesSettle ==
    ASSUME IInv, [Next]_vars, NEW l \in Listings,
           listings[l].status # Settled, listings'[l].status = Settled
    PROVE  \E u \in Users : orders[u] # None /\ orders[u].listing = l
                              /\ (PurchaseControl(u) \/ PurchaseAsset(u))
<1>1. TypeOK
  BY DEF IInv
<1>2. listings' # listings
  OBVIOUS
<1>3. /\ ~ (ControlNext /\ UNCHANGED marketVars)
      /\ ~ UNCHANGED vars
  BY <1>2 DEF marketVars, vars
<1>4. ASSUME NEW m \in Listings, NEW good \in Goods, NEW seller \in Users, NEW epoch \in Nat,
             NEW gross \in Gross, OpenListing(m, good, seller, epoch, gross)
      PROVE  FALSE
  BY <1>1, <1>4, Opening DEF Open, Settled
<1>5. ASSUME NEW m \in Listings, NEW status \in {Canceled, Recovered},
             listings[m].status = Open, CloseListing(m, status)
      PROVE  FALSE
  BY <1>1, <1>5, Closing DEF Canceled, Recovered, Settled
<1>6. ASSUME NEW u \in Users, NEW m \in Listings, NEW gross \in Gross, ListControl(u, m, gross)
      PROVE  FALSE
  BY <1>1, <1>4, <1>6 DEF ListControl, Goods, TypeOK
<1>7. ASSUME NEW u \in Users, NEW m \in Listings, NEW gross \in Gross, NEW a \in Assets,
             ListAsset(u, m, a, gross)
      PROVE  FALSE
  <2>1. items[a] \in ItemRecords
    BY <1>1 DEF TypeOK
  <2>2. items[a].epoch \in Nat /\ a \in Goods
    BY <2>1 DEF ItemRecords, Goods
  <2>3. OpenListing(m, a, u, items[a].epoch, gross)
    BY <1>7 DEF ListAsset
  <2>4. QED
    BY <1>4, <2>2, <2>3
<1>8. ASSUME NEW u \in Users, NEW m \in Listings, NEW gross \in Gross, Reprice(u, m, gross)
      PROVE  FALSE
  <2>1. /\ listings \in [Listings -> ListingRecords]
        /\ listings' = [listings EXCEPT ![m].quote = Quote(listings[m].good, gross),
                                        ![m].revision = @ + 1]
    BY <1>1, <1>8 DEF TypeOK, Reprice
  <2>2. listings'[l].status = listings[l].status
    BY <2>1 DEF ListingRecords
  <2>3. QED
    BY <2>2
<1>9. ASSUME NEW m \in Listings,
             \/ \E u \in Users : CancelControl(u, m) \/ CancelAsset(u, m)
             \/ RecoverControl(m) \/ RecoverAsset(m)
      PROVE  FALSE
  <2>1. /\ listings[m].status = Open
        /\ CloseListing(m, Canceled) \/ CloseListing(m, Recovered)
    BY <1>9 DEF CancelControl, CancelAsset, RecoverControl, RecoverAsset,
                ReturnControl, CapInCustody, ReturnAsset, InCustody
  <2>2. QED
    BY <1>5, <2>1
<1>10. ASSUME NEW u \in Users,
              \/ \E m \in Listings : SignOrder(u, m)
              \/ \E a \in Assets : \/ ClaimBaseItem(u, a)
                                   \/ \E to \in Users : TransferItem(u, a, to)
       PROVE  FALSE
  BY <1>2, <1>10 DEF SignOrder, ClaimBaseItem, TransferItem
<1>11. ~ PackCall
  BY <1>2, PackAside
<1>12. PICK u \in Users : PurchaseControl(u) \/ PurchaseAsset(u)
  BY <1>3, <1>6, <1>7, <1>8, <1>9, <1>10, <1>11 DEF Next, MarketNext, PackCall
<1>13. /\ orders[u] # None
       /\ listings[orders[u].listing].status = Open
       /\ SettleListing(orders[u].listing, u)
  BY <1>12 DEF PurchaseControl, PurchaseAsset, InCustody
<1>14. orders[u].listing \in Listings
  BY <1>1, <1>13 DEF TypeOK, Orders
<1>15. orders[u].listing = l
  BY <1>1, <1>13, <1>14, Settling
<1>16. QED
  BY <1>12, <1>13, <1>15

(* What was signed is what happens. *)
THEOREM SoldAsSigned == Spec => SaleAsSigned
<1> DEFINE Signed(l) ==
        \E u \in Users \ {listings[l].seller} :
             /\ orders[u] # None /\ orders[u].listing = l
             /\ listings[l].status = Open
             /\ listings[l].quote.gross = orders[u].gross
             /\ listings'[l].recipient = u
             /\ IF listings[l].good = Control
                THEN root'.owner = u /\ admin'.at = u
                ELSE items'[listings[l].good].at = u
             /\ cash'[u] = cash[u] - orders[u].gross
                              + (IF u = Creator THEN listings[l].quote.creator ELSE 0)
<1>1. ASSUME IInv, [Next]_vars, NEW l \in Listings,
             listings[l].status # Settled, listings'[l].status = Settled
      PROVE  Signed(l)
  <2>1. PICK u \in Users : orders[u] # None /\ orders[u].listing = l
                              /\ (PurchaseControl(u) \/ PurchaseAsset(u))
    BY <1>1, OnlyPurchasesSettle
  <2>2. /\ listings[l].status = Open /\ u # listings[l].seller
        /\ Pay(l, u, orders[u].gross) /\ SettleListing(l, u)
    BY <2>1 DEF PurchaseControl, PurchaseAsset, InCustody
  <2>3. TypeOK /\ listings[l].seller \in Users /\ listings[l].good \in Goods
    BY <1>1, <2>2 DEF IInv, SellersKnown, OpenListings
  <2>4. listings'[l].recipient = u
    BY <1>1, <2>2, <2>3, Settling
  <2>5. /\ orders[u].gross = listings[l].quote.gross
        /\ cash'[u] = cash[u] - orders[u].gross
                         + (IF u = Creator THEN listings[l].quote.creator ELSE 0)
    BY <1>1, <2>2, <2>3, Paying
  <2>6. IF listings[l].good = Control THEN root'.owner = u /\ admin'.at = u
        ELSE items'[listings[l].good].at = u
    <3>1. CASE PurchaseControl(u)
      <4>1. listings[l].good = Control /\ Rotate(u, u)
        BY <2>1, <3>1 DEF PurchaseControl
      <4>2. QED
        BY <2>3, <4>1, Rotating
    <3>2. CASE PurchaseAsset(u)
      <4>1. InCustody(l) /\ Hand(listings[l].good, u)
        BY <2>1, <3>2 DEF PurchaseAsset
      <4>2. listings[l].good \in Assets /\ listings[l].good # Control
        BY <4>1, ControlAssumption DEF InCustody
      <4>3. items[listings[l].good].holder \in Users
        BY <2>3, <4>1 DEF InCustody
      <4>4. items'[listings[l].good].at = u
        BY <1>1, <2>3, <4>1, <4>2, <4>3, Handing DEF IInv
      <4>5. QED
        BY <4>2, <4>4
    <3>3. QED
      BY <2>1, <3>1, <3>2
  <2>7. QED
    BY <2>1, <2>2, <2>4, <2>5, <2>6
<1>2. IInv /\ [Next]_vars =>
        [\A l \in Listings : listings[l].status # Settled /\ listings'[l].status = Settled =>
          \E u \in Users \ {listings[l].seller} :
             /\ orders[u] # None /\ orders[u].listing = l
             /\ listings[l].status = Open
             /\ listings[l].quote.gross = orders[u].gross
             /\ listings'[l].recipient = u
             /\ IF listings[l].good = Control
                THEN root'.owner = u /\ admin'.at = u
                ELSE items'[listings[l].good].at = u
             /\ cash'[u] = cash[u] - orders[u].gross
                              + (IF u = Creator THEN listings[l].quote.creator ELSE 0)]_vars
  BY <1>1
<1>3. QED
  BY <1>2, Inductive, PTL DEF Spec, SaleAsSigned

(* A protocol that moved on is never current again, and earns nothing. *)
THEOREM DegradedStays == Spec => DegradedForGood
<1>1. ASSUME IInv, [Next]_vars, Degraded
      PROVE  Degraded' /\ registry'.completed = registry.completed
                /\ registry'.listed = registry.listed /\ treasury'.collected = treasury.collected
  <2>1. /\ TypeOK /\ ~ CatalogCurrent
        /\ protocol \in [enabled : BOOLEAN, revision : Nat, revenue : Nat, direct : Nat]
        /\ treasury \in Treasuries
        /\ registry \in RegistryRecords
    BY <1>1 DEF IInv, TypeOK, Degraded
  <2>2. CASE UNCHANGED <<protocol, registry, treasury>>
    BY <2>1, <2>2 DEF Degraded, CatalogCurrent
  <2>3. ASSUME ToggleProtocol, UNCHANGED marketVars
        PROVE  Degraded' /\ UNCHANGED <<registry, treasury>>
    <3>1. protocol'.revision = protocol.revision + 1
      BY <2>1, <2>3 DEF ToggleProtocol
    <3>2. protocol'.revision # Genesis
      BY <2>1, <3>1 DEF Genesis
    <3>3. QED
      BY <2>3, <3>2 DEF Degraded, CatalogCurrent, ToggleProtocol, marketVars
  <2>4. ASSUME UNCHANGED marketVars, NEW amount \in Amounts, NEW to \in Users,
               \/ WithdrawProtocol(amount, to)
               \/ \E u \in Users : WithdrawMaker(u, amount, to)
        PROVE  Degraded' /\ UNCHANGED registry /\ treasury'.collected = treasury.collected
    <3>1. /\ protocol'.enabled = protocol.enabled /\ protocol'.revision = protocol.revision
          /\ treasury'.collected = treasury.collected
      BY <2>1, <2>4 DEF WithdrawProtocol, WithdrawMaker, Treasuries, Drawn
    <3>2. QED
      BY <2>1, <2>4, <3>1 DEF Degraded, CatalogCurrent, marketVars
  <2>5. ASSUME NEW u \in Users, UNCHANGED marketVars,
               \/ LifecycleChange(u) \/ ClaimFreeAccess(u)
               \/ \E to \in Users : TransferControl(u, to)
        PROVE  UNCHANGED <<protocol, registry, treasury>>
    BY <2>5 DEF LifecycleChange, Activate, Resume, Stop, ClaimFreeAccess, TransferControl, marketVars
  <2>6. ASSUME NEW u \in Users, PurchaseAccess(u) PROVE FALSE
    BY <2>1, <2>6 DEF PurchaseAccess, Deposit, Depositable
  <2>7. ASSUME DirectDeposit, UNCHANGED marketVars
         PROVE  Degraded' /\ UNCHANGED <<registry, treasury>>
    <3>1. PICK u \in Users, amount \in Gifts : DepositMaker(u, amount) \/ DepositProtocol(u, amount)
      BY <2>7 DEF DirectDeposit
    <3>2. ~ DepositMaker(u, amount)
      BY <2>1 DEF DepositMaker, Depositable
    <3>3. /\ protocol'.enabled = protocol.enabled /\ protocol'.revision = protocol.revision
          /\ treasury' = treasury
      BY <2>1, <3>1, <3>2 DEF DepositProtocol
    <3>4. QED
      BY <2>1, <2>7, <3>3 DEF Degraded, CatalogCurrent, marketVars
  <2>8. ASSUME ControlNext, UNCHANGED marketVars
        PROVE  Degraded' /\ registry'.completed = registry.completed
                  /\ registry'.listed = registry.listed
                  /\ treasury'.collected = treasury.collected
    BY <2>2, <2>3, <2>4, <2>5, <2>6, <2>8, <2>7, AmountAssumption
       DEF ControlNext, LifecycleChange, DirectDeposit
  <2>9. ASSUME NEW u \in Users, PurchaseControl(u) \/ PurchaseAsset(u) PROVE FALSE
    BY <2>1, <2>9 DEF PurchaseControl, PurchaseAsset
  <2>10. ASSUME NEW u \in Users, NEW l \in Listings, NEW gross \in Gross,
               \/ ListControl(u, l, gross) \/ Reprice(u, l, gross)
               \/ \E a \in Assets : ListAsset(u, l, a, gross)
        PROVE  FALSE
    BY <2>1, <2>10 DEF ListControl, ListAsset, Reprice
  <2>11. ASSUME NEW l \in Listings,
                \/ \E u \in Users : CancelControl(u, l) \/ CancelAsset(u, l)
                \/ RecoverControl(l) \/ RecoverAsset(l)
         PROVE  /\ UNCHANGED <<protocol, treasury>>
                /\ registry'.completed = registry.completed
                /\ registry'.listed = registry.listed
    <3>1. /\ UNCHANGED <<protocol, treasury>>
          /\ CloseListing(l, Canceled) \/ CloseListing(l, Recovered)
      BY <2>11 DEF CancelControl, CancelAsset, RecoverControl, RecoverAsset,
                   ReturnControl, ReturnAsset
    <3>2. QED
      BY <2>1, <3>1, ClosingCounts
  <2>12. ASSUME NEW u \in Users,
                \/ \E l \in Listings : SignOrder(u, l)
                \/ \E a \in Assets : \/ ClaimBaseItem(u, a)
                                     \/ \E to \in Users : TransferItem(u, a, to)
         PROVE  UNCHANGED <<protocol, registry, treasury>>
    BY <2>12 DEF SignOrder, ClaimBaseItem, TransferItem, controlVars
  <2>13. CASE UNCHANGED vars
    BY <2>2, <2>13 DEF vars
  <2>14. CASE MarketNext
    <3>1. UNCHANGED protocol => Degraded'
      BY <2>1 DEF Degraded, CatalogCurrent
    <3>2. PackCall => UNCHANGED <<protocol, registry, treasury>>
      BY PackAside
    <3>3. QED
      BY <2>2, <2>9, <2>10, <2>11, <2>12, <2>14, <3>1, <3>2 DEF MarketNext, PackCall
  <2>15. QED
    BY <1>1, <2>8, <2>13, <2>14 DEF Next
<1>2. IInv /\ [Next]_vars =>
        [Degraded => /\ Degraded'
                     /\ registry'.completed = registry.completed
                     /\ registry'.listed = registry.listed
                     /\ treasury'.collected = treasury.collected]_vars
  BY <1>1
<1>3. QED
  BY <1>2, Inductive, PTL DEF Spec, DegradedForGood

(* Control changes hands by its owner's gift or by a sale, one epoch on. *)
THEOREM ControlMoves == Spec => ControlMovesOn
<1>1. ASSUME IInv, [Next]_vars, root'.owner # root.owner
      PROVE  /\ root'.epoch = root.epoch + 1
             /\ \/ admin.at = root.owner
                \/ \E l \in OpenListings : admin.at = l /\ listings'[l].status = Settled
  <2>1. TypeOK /\ root \in [lifecycle : Lifecycles, owner : Users, epoch : Nat, price : Nat]
    BY <1>1 DEF IInv, TypeOK
  <2>2. ASSUME NEW u \in Users, NEW to \in Users, TransferControl(u, to)
        PROVE  root'.epoch = root.epoch + 1 /\ admin.at = root.owner
    <3>1. Rotate(u, to) /\ admin.at = u /\ u \notin Listings
      BY <2>2, NamesAssumption DEF TransferControl
    <3>2. root'.epoch = root.epoch + 1
      BY <2>1, <3>1, Rotating
    <3>3. admin.at = root.owner
      BY <1>1, <3>1 DEF IInv, ControlNeverLost, OpenListings
    <3>4. QED
      BY <3>2, <3>3
  <2>3. ASSUME NEW u \in Users, PurchaseControl(u)
        PROVE  /\ root'.epoch = root.epoch + 1
               /\ \E l \in OpenListings : admin.at = l /\ listings'[l].status = Settled
    <3> DEFINE l == orders[u].listing
    <3>1. l \in Listings
      BY <2>1, <2>3 DEF TypeOK, Orders, PurchaseControl
    <3>2. /\ listings[l].status = Open /\ admin.at = l
          /\ Rotate(u, u) /\ SettleListing(l, u)
      BY <2>3 DEF PurchaseControl
    <3> HIDE DEF l
    <3>3. root'.epoch = root.epoch + 1
      BY <2>1, <3>2, Rotating
    <3>4. l \in OpenListings /\ listings'[l].status = Settled
      BY <2>1, <2>3, <3>1, <3>2, Settling DEF OpenListings
    <3>5. QED
      BY <3>2, <3>3, <3>4
  <2>4. ASSUME NEW u \in Users, LifecycleChange(u) PROVE FALSE
    BY <1>1, <2>1, <2>4 DEF LifecycleChange, Activate, Resume, Stop
  <2>5. /\ ~ ToggleProtocol
        /\ \A u \in Users : ~ ClaimFreeAccess(u) /\ ~ PurchaseAccess(u)
        /\ \A amount \in Amounts, to \in Payees :
              ~ WithdrawProtocol(amount, to) /\ \A u \in Users : ~ WithdrawMaker(u, amount, to)
    <3>1. ~ ToggleProtocol
      BY <1>1 DEF ToggleProtocol
    <3>2. \A u \in Users : ~ ClaimFreeAccess(u) /\ ~ PurchaseAccess(u)
      BY <1>1 DEF ClaimFreeAccess, PurchaseAccess
    <3>3. \A amount \in Amounts, to \in Payees :
              ~ WithdrawProtocol(amount, to) /\ \A u \in Users : ~ WithdrawMaker(u, amount, to)
      BY <1>1 DEF WithdrawProtocol, WithdrawMaker
    <3>4. QED
      BY <3>1, <3>2, <3>3
  <2>6. ~ DirectDeposit /\ ~ PackCall
    BY <1>1, DirectAside, PackAside
  <2>7. CASE ControlNext /\ UNCHANGED marketVars
    <3>1. ASSUME NEW u \in Users, NEW to \in Users, TransferControl(u, to)
          PROVE  root'.epoch = root.epoch + 1 /\ admin.at = root.owner
      BY <2>2, <3>1
    <3>2. QED
      BY <2>4, <2>5, <2>7, <2>6, <3>1 DEF ControlNext, LifecycleChange, DirectDeposit
  <2>8. ASSUME NEW u \in Users PROVE ~ PurchaseAsset(u)
    BY <1>1 DEF PurchaseAsset
  <2>9. ASSUME NEW u \in Users, NEW l \in Listings
        PROVE  /\ \A gross \in Gross : /\ ~ ListControl(u, l, gross) /\ ~ Reprice(u, l, gross)
                                       /\ \A a \in Assets : ~ ListAsset(u, l, a, gross)
               /\ ~ CancelControl(u, l) /\ ~ CancelAsset(u, l)
               /\ ~ RecoverControl(l) /\ ~ RecoverAsset(l)
               /\ ~ SignOrder(u, l)
    <3>1. \A gross \in Gross : ~ ListControl(u, l, gross) /\ ~ Reprice(u, l, gross)
      BY <1>1 DEF ListControl, Reprice, controlVars
    <3>2. \A gross \in Gross, a \in Assets : ~ ListAsset(u, l, a, gross)
      BY <1>1 DEF ListAsset
    <3>3. ~ CancelControl(u, l) /\ ~ RecoverControl(l)
      BY <1>1 DEF CancelControl, RecoverControl, ReturnControl
    <3>4. ~ CancelAsset(u, l) /\ ~ RecoverAsset(l)
      BY <1>1 DEF CancelAsset, RecoverAsset, ReturnAsset
    <3>5. ~ SignOrder(u, l)
      BY <1>1 DEF SignOrder, controlVars
    <3>6. QED
      BY <3>1, <3>2, <3>3, <3>4, <3>5
  <2>10. ASSUME NEW u \in Users, NEW a \in Assets
         PROVE  ~ ClaimBaseItem(u, a) /\ \A to \in Users : ~ TransferItem(u, a, to)
    BY <1>1 DEF ClaimBaseItem, TransferItem, controlVars
  <2>11. CASE MarketNext
    <3>1. PICK u \in Users : PurchaseControl(u)
      BY <2>8, <2>9, <2>10, <2>11, <2>6, UsersAssumption DEF MarketNext, PackCall
    <3>2. QED
      BY <2>3, <3>1
  <2>12. ~ UNCHANGED vars
    BY <1>1 DEF vars
  <2>13. QED
    BY <1>1, <2>7, <2>12, <2>11 DEF Next
<1>2. IInv /\ [Next]_vars =>
        [root'.owner # root.owner =>
          /\ root'.epoch = root.epoch + 1
          /\ \/ admin.at = root.owner
             \/ \E l \in OpenListings : admin.at = l /\ listings'[l].status = Settled]_vars
  BY <1>1
<1>3. QED
  BY <1>2, Inductive, PTL DEF Spec, ControlMovesOn

-----------------------------------------------------------------------------
(* The market implements the exchange. *)

(* An offer is up while its listing is open. *)
LEMMA UpIsOpen ==
    ASSUME NEW l \in Listings
    PROVE  Exchange!Up(l) <=> listings[l].status = Open
BY DEF Exchange!Up, OfferedNow, Open

(* A good is for sale while a listing of it is open. *)
LEMMA ForSaleIsListed ==
    ASSUME NEW g, \A l \in OpenListings : listings[l].good # g
    PROVE  ~ Exchange!ForSale(g)
BY UpIsOpen DEF Exchange!ForSale, OfferedNow, OpenListings

(* Whose the goods are. *)
LEMMA OwnerIs ==
    /\ OwnerNow[Control] = root.owner
    /\ \A a \in Assets : OwnerNow[a] = items[a].holder
BY ControlAssumption DEF OwnerNow, Goods

(* No good changes hands while the Root's owner and the holders stay. *)
LEMMA OwnersStay ==
    ASSUME root'.owner = root.owner, \A a \in Assets : items'[a].holder = items[a].holder
    PROVE  OwnerNow' = OwnerNow
BY DEF OwnerNow, Goods

(* The Root's owner alone changes. *)
LEMMA ControlPasses ==
    ASSUME \A a \in Assets : items'[a].holder = items[a].holder
    PROVE  OwnerNow' = [OwnerNow EXCEPT ![Control] = root'.owner]
BY ControlAssumption DEF OwnerNow, Goods

(* The holder of one asset alone changes. *)
LEMMA AssetPasses ==
    ASSUME NEW a \in Assets, root'.owner = root.owner,
           \A b \in Assets \ {a} : items'[b] = items[b]
    PROVE  OwnerNow' = [OwnerNow EXCEPT ![a] = items'[a].holder]
BY ControlAssumption DEF OwnerNow, Goods

(* One listing alone changes. *)
LEMMA OfferChanges ==
    ASSUME NEW l \in Listings, \A m \in Listings \ {l} : listings'[m] = listings[m]
    PROVE  OfferedNow' = [OfferedNow EXCEPT ![l] =
              [state |-> listings'[l].status, good |-> listings'[l].good,
               seller |-> listings'[l].seller, price |-> listings'[l].quote.gross]]
BY DEF OfferedNow

(* What an open listing offers. *)
LEMMA OfferIs ==
    ASSUME NEW l \in Listings
    PROVE  OfferedNow[l] = [state |-> listings[l].status, good |-> listings[l].good,
                            seller |-> listings[l].seller, price |-> listings[l].quote.gross]
BY DEF OfferedNow

(* A step that leaves listings, orders and owners alone is none of the exchange. *)
LEMMA ExchangeUndisturbed ==
    ASSUME UNCHANGED <<listings, orders>>, root'.owner = root.owner,
           \A a \in Assets : items'[a].holder = items[a].holder
    PROVE  UNCHANGED Exchange!exchangeVars
<1>1. OwnerNow' = OwnerNow
  BY OwnersStay
<1>2. OfferedNow' = OfferedNow /\ AgreedNow' = AgreedNow
  BY DEF OfferedNow, AgreedNow
<1> QED BY <1>1, <1>2 DEF Exchange!exchangeVars

(* A listing that opens puts its good up, if the good is its seller's and *)
(* not for sale already.                                                  *)
LEMMA OpeningPutsUp ==
    ASSUME TypeOK, NEW l \in Listings, NEW good \in Goods, NEW seller \in Users,
           NEW epoch \in Nat, NEW gross \in Gross,
           OpenListing(l, good, seller, epoch, gross),
           OwnerNow[good] = seller, \A m \in OpenListings : listings[m].good # good,
           root'.owner = root.owner, \A a \in Assets : items'[a].holder = items[a].holder,
           UNCHANGED orders
    PROVE  Exchange!PutUp(l)
<1>1. gross \in Nat /\ Quotable(good, gross)
  BY QuoteAssumption DEF OpenListing
<1>2. /\ \A m \in Listings \ {l} : listings'[m] = listings[m]
      /\ listings'[l].status = Open /\ listings'[l].good = good /\ listings'[l].seller = seller
  BY Opening
<1>3. listings'[l].quote.gross = gross
  <2>1. listings' = [listings EXCEPT ![l] =
          [status |-> Open, good |-> good, seller |-> seller, epoch |-> epoch,
           quote |-> Quote(good, gross), revision |-> 0, recipient |-> None]]
    BY DEF OpenListing
  <2>2. listings'[l].quote = Quote(good, gross)
    BY <2>1 DEF TypeOK
  <2> QED BY <1>1, <2>2, QuoteTyped
<1>4. OfferedNow' = [OfferedNow EXCEPT ![l] =
          [state |-> "open", good |-> good, seller |-> OwnerNow[good], price |-> gross]]
  BY <1>2, <1>3, OfferChanges DEF Open
<1>5. OfferedNow[l] = Exchange!Blank
  BY OfferIs DEF OpenListing, NoListing, NoQuote, Fresh, Exchange!Blank
<1>6. OwnerNow' = OwnerNow /\ AgreedNow' = AgreedNow
  BY OwnersStay DEF AgreedNow
<1>7. ~ Exchange!ForSale(good) /\ OwnerNow[good] \in Users
  BY ForSaleIsListed
<1> QED BY <1>4, <1>5, <1>6, <1>7 DEF Exchange!PutUp

(* A listing that closes without a sale takes its good back. *)
LEMMA ClosingTakesBack ==
    ASSUME TypeOK, NEW l \in Listings, NEW status \in {Canceled, Recovered},
           listings[l].status = Open, CloseListing(l, status),
           root'.owner = root.owner, \A a \in Assets : items'[a].holder = items[a].holder,
           UNCHANGED orders
    PROVE  Exchange!TakeBack(l)
<1>1. /\ \A m \in Listings \ {l} : listings'[m] = listings[m]
      /\ listings'[l].status = status
  BY Closing
<1>2. /\ listings'[l].good = listings[l].good /\ listings'[l].seller = listings[l].seller
      /\ listings'[l].quote = listings[l].quote
  BY DEF CloseListing, TypeOK, ListingRecords
<1>3. OfferedNow' = [OfferedNow EXCEPT ![l].state = status]
  <2>1. OfferedNow' = [OfferedNow EXCEPT ![l] =
          [state |-> status, good |-> listings[l].good, seller |-> listings[l].seller,
           price |-> listings[l].quote.gross]]
    BY <1>1, <1>2, OfferChanges
  <2> QED BY <2>1 DEF OfferedNow
<1>4. OwnerNow' = OwnerNow /\ AgreedNow' = AgreedNow
  BY OwnersStay DEF AgreedNow
<1>5. status \in {"canceled", "recovered"}
  BY DEF Canceled, Recovered
<1> QED BY <1>3, <1>4, <1>5, UpIsOpen DEF Exchange!TakeBack

(* A listing that is settled for its price sells its good to the buyer. *)
LEMMA SettlingBuys ==
    ASSUME TypeOK, NEW l \in Listings, NEW u \in Users, listings[l].status = Open,
           u # listings[l].seller, orders[u] # None, orders[u].listing = l,
           orders[u].gross = listings[l].quote.gross, SettleListing(l, u),
           OwnerNow' = [OwnerNow EXCEPT ![listings[l].good] = u]
    PROVE  Exchange!Buy(u, l)
<1>1. /\ \A m \in Listings \ {l} : listings'[m] = listings[m]
      /\ listings'[l].status = Settled
  BY Settling
<1>2. /\ listings'[l].good = listings[l].good /\ listings'[l].seller = listings[l].seller
      /\ listings'[l].quote = listings[l].quote
  BY DEF SettleListing, TypeOK, ListingRecords
<1>3. OfferedNow' = [OfferedNow EXCEPT ![l].state = "settled"]
  <2>1. OfferedNow' = [OfferedNow EXCEPT ![l] =
          [state |-> "settled", good |-> listings[l].good, seller |-> listings[l].seller,
           price |-> listings[l].quote.gross]]
    BY <1>1, <1>2, OfferChanges DEF Settled
  <2> QED BY <2>1 DEF OfferedNow
<1>4. AgreedNow' = [AgreedNow EXCEPT ![u] = None]
  <2>1. orders' = [orders EXCEPT ![u] = None] /\ orders \in [Users -> Orders \cup {None}]
    BY DEF SettleListing, TypeOK
  <2>2. orders'[u] = None /\ \A v \in Users \ {u} : orders'[v] = orders[v]
    BY <2>1
  <2> QED BY <2>2 DEF AgreedNow
<1>5. AgreedNow[u] = [offer |-> l, price |-> OfferedNow[l].price]
  BY DEF AgreedNow, OfferedNow
<1>6. OfferedNow[l].good = listings[l].good /\ OfferedNow[l].seller = listings[l].seller
  BY DEF OfferedNow
<1> QED BY <1>3, <1>4, <1>5, <1>6, UpIsOpen DEF Exchange!Buy

(* An open listing's seller is the owner of what it sells. *)
LEMMA SellerOwns ==
    ASSUME IInv, NEW l \in Listings, listings[l].status = Open
    PROVE  /\ listings[l].good \in Goods /\ listings[l].seller \in Users
           /\ OwnerNow[listings[l].good] = listings[l].seller
<1>1. l \in OpenListings
  BY DEF OpenListings
<1>2. listings[l].good \in Goods /\ listings[l].seller \in Users
  BY <1>1 DEF IInv, SellersKnown
<1>3. CASE listings[l].good = Control
  BY <1>1, <1>2, <1>3, OwnerIs DEF IInv, ControlSaleFrozen
<1>4. CASE listings[l].good \in Assets
  BY <1>1, <1>2, <1>4, OwnerIs DEF IInv, AssetSaleFrozen
<1> QED BY <1>2, <1>3, <1>4 DEF Goods

(* list_maker_control_v8 puts the Maker up. *)
LEMMA ListControlPutsUp ==
    ASSUME IInv, NEW u \in Users, NEW l \in Listings, NEW gross \in Gross,
           ListControl(u, l, gross)
    PROVE  Exchange!PutUp(l)
<1>1. /\ OpenListing(l, Control, u, root.epoch, gross) /\ admin.at = u /\ root.owner = u
      /\ UNCHANGED <<root, items, orders>>
  BY DEF ListControl, Controls
<1>2. TypeOK /\ root.epoch \in Nat /\ Control \in Goods
  BY DEF IInv, TypeOK, Goods
<1>3. OwnerNow[Control] = u
  BY <1>1, OwnerIs
<1>4. \A m \in OpenListings : listings[m].good # Control
  BY <1>1, ControlNotForSale
<1>5. root'.owner = root.owner /\ (\A a \in Assets : items'[a].holder = items[a].holder)
  BY <1>1
<1> QED BY <1>1, <1>2, <1>3, <1>4, <1>5, OpeningPutsUp

(* list_*_v8 puts an asset up. *)
LEMMA ListAssetPutsUp ==
    ASSUME IInv, NEW u \in Users, NEW l \in Listings, NEW a \in Assets, NEW gross \in Gross,
           ListAsset(u, l, a, gross)
    PROVE  Exchange!PutUp(l)
<1>1. /\ OpenListing(l, a, u, items[a].epoch, gross) /\ items[a].at = u /\ items[a].holder = u
      /\ items' = [items EXCEPT ![a].at = l]
      /\ UNCHANGED <<root, orders>>
  BY DEF ListAsset, Owns
<1>2. TypeOK /\ items \in [Assets -> ItemRecords]
  BY DEF IInv, TypeOK
<1>3. items[a].epoch \in Nat /\ a \in Goods
  BY <1>2 DEF ItemRecords, Goods
<1>4. OwnerNow[a] = u
  BY <1>1, OwnerIs
<1>5. \A m \in OpenListings : listings[m].good # a
  BY <1>1, HeldAssetNotForSale
<1>6. root'.owner = root.owner /\ (\A b \in Assets : items'[b].holder = items[b].holder)
  BY <1>1, <1>2 DEF ItemRecords
<1>7. UNCHANGED orders
  BY <1>1
<1> QED BY <1>1, <1>2, <1>3, <1>4, <1>5, <1>6, <1>7, OpeningPutsUp

(* reprice_equipment_listing_v8 changes the price of an offer. *)
LEMMA RepriceChangesPrice ==
    ASSUME IInv, NEW u \in Users, NEW l \in Listings, NEW gross \in Gross, Reprice(u, l, gross)
    PROVE  Exchange!ChangePrice(l)
<1>1. /\ listings[l].status = Open /\ Quotable(listings[l].good, gross)
      /\ listings' = [listings EXCEPT ![l].quote = Quote(listings[l].good, gross),
                                      ![l].revision = @ + 1]
      /\ UNCHANGED <<root, items, orders>>
  BY DEF Reprice, controlVars
<1>2. listings[l].good \in Goods /\ gross \in Nat
  BY <1>1, SellerOwns, QuoteAssumption
<1>3. Quote(listings[l].good, gross).gross = gross
  BY <1>1, <1>2, QuoteTyped
<1>4. listings[l] \in ListingRecords /\ listings \in [Listings -> ListingRecords]
  BY DEF IInv, TypeOK
<1>5. /\ \A m \in Listings \ {l} : listings'[m] = listings[m]
      /\ listings'[l].status = listings[l].status /\ listings'[l].good = listings[l].good
      /\ listings'[l].seller = listings[l].seller /\ listings'[l].quote.gross = gross
  BY <1>1, <1>3, <1>4 DEF ListingRecords
<1>6. OfferedNow' = [OfferedNow EXCEPT ![l].price = gross]
  <2>1. OfferedNow' = [OfferedNow EXCEPT ![l] =
          [state |-> listings[l].status, good |-> listings[l].good,
           seller |-> listings[l].seller, price |-> gross]]
    BY <1>5, OfferChanges
  <2> QED BY <2>1 DEF OfferedNow
<1>7. OwnerNow' = OwnerNow /\ AgreedNow' = AgreedNow
  BY <1>1, OwnersStay DEF AgreedNow
<1> QED BY <1>1, <1>6, <1>7, UpIsOpen DEF Exchange!ChangePrice

(* Every cancellation and every recovery takes an offer back. *)
LEMMA ReturnsTakeBack ==
    ASSUME IInv, NEW l \in Listings, NEW status \in {Canceled, Recovered},
           ReturnControl(l) \/ ReturnAsset(l), CloseListing(l, status)
    PROVE  Exchange!TakeBack(l)
<1>1. TypeOK /\ items \in [Assets -> ItemRecords]
  BY DEF IInv, TypeOK
<1>2. listings[l].status = Open /\ UNCHANGED <<root, orders>>
  BY DEF ReturnControl, ReturnAsset, CapInCustody, InCustody
<1>3. \A a \in Assets : items'[a].holder = items[a].holder
  <2>1. UNCHANGED items \/ items' = [items EXCEPT ![listings[l].good].at = listings[l].seller]
    BY DEF ReturnControl, ReturnAsset
  <2> QED BY <1>1, <2>1 DEF ItemRecords
<1>4. root'.owner = root.owner /\ UNCHANGED orders
  BY <1>2
<1> QED BY <1>1, <1>2, <1>3, <1>4, ClosingTakesBack

(* A signed purchase is an agreement. *)
LEMMA SigningAgrees ==
    ASSUME IInv, NEW u \in Users, NEW l \in Listings, SignOrder(u, l)
    PROVE  Exchange!Agree(u, l)
<1>1. /\ listings[l].status = Open /\ u # listings[l].seller
      /\ orders' = [orders EXCEPT ![u] = [listing |-> l, revision |-> listings[l].revision,
                                          gross |-> listings[l].quote.gross]]
      /\ UNCHANGED <<root, items, listings>>
  BY DEF SignOrder, controlVars
<1>2. orders \in [Users -> Orders \cup {None}] /\ listings[l] \in ListingRecords
  BY DEF IInv, TypeOK
<1>3. /\ orders'[u] = [listing |-> l, revision |-> listings[l].revision,
                       gross |-> listings[l].quote.gross]
      /\ \A v \in Users \ {u} : orders'[v] = orders[v]
  BY <1>1, <1>2
<1>4. AgreedNow' = [AgreedNow EXCEPT ![u] = [offer |-> l, price |-> listings[l].quote.gross]]
  <2>1. orders'[u] # None
    BY <1>2, <1>3, NoOrderAssumption DEF Orders, ListingRecords, Quotes
  <2>2. /\ orders'[u].listing = l /\ orders'[u].gross = listings[l].quote.gross
    BY <1>3
  <2> QED BY <1>3, <2>1, <2>2 DEF AgreedNow
<1>5. OfferedNow[l].price = listings[l].quote.gross /\ OfferedNow[l].seller = listings[l].seller
  BY DEF OfferedNow
<1>6. OwnerNow' = OwnerNow /\ OfferedNow' = OfferedNow
  BY <1>1, OwnersStay DEF OfferedNow
<1> QED BY <1>1, <1>4, <1>5, <1>6, UpIsOpen DEF Exchange!Agree

(* purchase_maker_control_v8 buys the Maker at the price agreed to. *)
LEMMA PurchaseControlBuys ==
    ASSUME IInv, NEW u \in Users, PurchaseControl(u)
    PROVE  \E l \in Listings : Exchange!Buy(u, l)
<1>1. PICK l \in Listings : l = orders[u].listing
  BY DEF PurchaseControl, IInv, TypeOK, Orders
<1>2. /\ orders[u] # None /\ orders[u].listing = l
      /\ listings[l].status = Open /\ listings[l].good = Control
      /\ u # listings[l].seller
      /\ Rotate(u, u) /\ Pay(l, u, orders[u].gross) /\ SettleListing(l, u)
      /\ UNCHANGED items
  BY <1>1 DEF PurchaseControl
<1>3. TypeOK /\ listings[l].good \in Goods /\ listings[l].seller \in Users
  BY <1>2, SellerOwns DEF IInv
<1>4. orders[u].gross = listings[l].quote.gross
  BY <1>2, <1>3, Paying
<1>5. root'.owner = u
  BY <1>2, <1>3, Rotating
<1>6. \A a \in Assets : items'[a].holder = items[a].holder
  BY <1>2
<1>7. OwnerNow' = [OwnerNow EXCEPT ![listings[l].good] = u]
  BY <1>2, <1>5, <1>6, ControlPasses
<1> QED BY <1>2, <1>3, <1>4, <1>7, SettlingBuys

(* purchase_*_v8 buys the asset at the price agreed to. *)
LEMMA PurchaseAssetBuys ==
    ASSUME IInv, NEW u \in Users, PurchaseAsset(u)
    PROVE  \E l \in Listings : Exchange!Buy(u, l)
<1>1. PICK l \in Listings : l = orders[u].listing
  BY DEF PurchaseAsset, IInv, TypeOK, Orders
<1>2. /\ orders[u] # None /\ orders[u].listing = l
      /\ listings[l].status = Open /\ listings[l].good \in Assets
      /\ items[listings[l].good].holder = listings[l].seller
      /\ u # listings[l].seller
      /\ Pay(l, u, orders[u].gross) /\ Hand(listings[l].good, u) /\ SettleListing(l, u)
      /\ UNCHANGED root
  BY <1>1 DEF PurchaseAsset, InCustody
<1>3. /\ TypeOK /\ OneBaseItemPerHolder
      /\ listings[l].good \in Goods /\ listings[l].seller \in Users
  BY <1>2, SellerOwns DEF IInv
<1>4. orders[u].gross = listings[l].quote.gross
  BY <1>2, <1>3, Paying
<1>5. PICK a \in Assets : a = listings[l].good
  BY <1>2
<1>6. items'[a].holder = u /\ \A b \in Assets \ {a} : items'[b] = items[b]
  <2>1. items[a].holder \in Users /\ Hand(a, u)
    BY <1>2, <1>3, <1>5
  <2> QED BY <1>3, <2>1, Handing
<1>7. root'.owner = root.owner
  BY <1>2
<1>8. OwnerNow' = [OwnerNow EXCEPT ![listings[l].good] = u]
  BY <1>5, <1>6, <1>7, AssetPasses
<1> QED BY <1>2, <1>3, <1>4, <1>8, SettlingBuys

(* A gift of control passes the Maker on. *)
LEMMA TransferControlPassesOn ==
    ASSUME IInv, NEW u \in Users, NEW to \in Users, TransferControl(u, to), UNCHANGED marketVars
    PROVE  Exchange!PassOn(Control)
<1>1. TypeOK /\ Rotate(u, to) /\ admin.at = u /\ UNCHANGED <<items, listings, orders>>
  BY DEF TransferControl, marketVars, IInv
<1>2. root'.owner = to
  BY <1>1, Rotating
<1>3. \A a \in Assets : items'[a].holder = items[a].holder
  BY <1>1
<1>4. OwnerNow' = [OwnerNow EXCEPT ![Control] = to]
  BY <1>2, <1>3, ControlPasses
<1>5. \A m \in OpenListings : listings[m].good # Control
  BY <1>1, ControlNotForSale
<1>6. OfferedNow' = OfferedNow /\ AgreedNow' = AgreedNow
  BY <1>1 DEF OfferedNow, AgreedNow
<1> QED BY <1>4, <1>5, <1>6, ForSaleIsListed DEF Exchange!PassOn

(* An asset in its holder's hands, or that nobody has claimed, passes on. *)
LEMMA AssetMovePassesOn ==
    ASSUME IInv, NEW a \in Assets, NEW to \in Users, items[a].at \in Users \cup {None},
           items'[a].holder = to, \A b \in Assets \ {a} : items'[b] = items[b],
           UNCHANGED <<root, listings, orders>>
    PROVE  Exchange!PassOn(a)
<1>1. OwnerNow' = [OwnerNow EXCEPT ![a] = to]
  BY AssetPasses
<1>2. \A m \in OpenListings : listings[m].good # a
  BY HeldAssetNotForSale
<1>3. OfferedNow' = OfferedNow /\ AgreedNow' = AgreedNow
  BY DEF OfferedNow, AgreedNow
<1> QED BY <1>1, <1>2, <1>3, ForSaleIsListed DEF Exchange!PassOn

(* A gift and a claim of an asset pass it on. *)
LEMMA GiftsPassOn ==
    ASSUME IInv, NEW u \in Users, NEW a \in Assets,
           ClaimBaseItem(u, a) \/ \E to \in Users : TransferItem(u, a, to)
    PROVE  Exchange!PassOn(a)
<1>1. TypeOK /\ OneBaseItemPerHolder /\ items \in [Assets -> ItemRecords]
  BY DEF IInv, TypeOK
<1>2. CASE ClaimBaseItem(u, a)
  <2>1. /\ items' = [items EXCEPT ![a] = [holder |-> u, epoch |-> 0, at |-> u]]
        /\ items[a].at = None /\ UNCHANGED <<root, listings, orders>>
    BY <1>2 DEF ClaimBaseItem, controlVars
  <2>2. items'[a].holder = u /\ \A b \in Assets \ {a} : items'[b] = items[b]
    BY <1>1, <2>1
  <2> QED BY <2>1, <2>2, AssetMovePassesOn
<1>3. ASSUME NEW to \in Users, TransferItem(u, a, to) PROVE Exchange!PassOn(a)
  <2>1. /\ items[a].at = u /\ items[a].holder = u /\ Hand(a, to)
        /\ UNCHANGED <<root, listings, orders>>
    BY <1>3 DEF TransferItem, Owns, controlVars
  <2>2. items'[a].holder = to /\ \A b \in Assets \ {a} : items'[b] = items[b]
    BY <1>1, <2>1, Handing
  <2> QED BY <2>1, <2>2, AssetMovePassesOn
<1> QED BY <1>2, <1>3

(* What else the Maker and the protocol do is none of the exchange. *)
LEMMA ControlUndisturbed ==
    ASSUME ControlNext, UNCHANGED marketVars,
           \A u, to \in Users : ~ TransferControl(u, to)
    PROVE  UNCHANGED Exchange!exchangeVars
<1>1. UNCHANGED <<items, listings, orders>>
  BY DEF marketVars
<1>2. ASSUME NEW u \in Users, LifecycleChange(u) PROVE root'.owner = root.owner
  <2>1. \E next \in {Active, Paused, Archived} : root' = [root EXCEPT !.lifecycle = next]
    BY <1>2 DEF LifecycleChange, Activate, Resume, Stop
  <2> QED BY <2>1
<1>3. ASSUME NEW u \in Users, ClaimFreeAccess(u) \/ PurchaseAccess(u) PROVE UNCHANGED root
  BY <1>3 DEF ClaimFreeAccess, PurchaseAccess
<1>4. ASSUME NEW amount \in Amounts, NEW to \in Payees,
             WithdrawProtocol(amount, to) \/ \E u \in Users : WithdrawMaker(u, amount, to)
      PROVE  UNCHANGED root
  BY <1>4 DEF WithdrawProtocol, WithdrawMaker
<1>5. ToggleProtocol => UNCHANGED root
  BY DEF ToggleProtocol
<1>6. DirectDeposit => UNCHANGED root
  BY DirectAside
<1>7. root'.owner = root.owner
  BY <1>2, <1>3, <1>4, <1>5, <1>6 DEF ControlNext, LifecycleChange, DirectDeposit
<1>8. \A a \in Assets : items'[a].holder = items[a].holder
  BY <1>1
<1> QED BY <1>1, <1>7, <1>8, ExchangeUndisturbed

(* Every call of the market is one of the exchange. *)
LEMMA ExchangeStep ==
    ASSUME IInv, [Next]_vars
    PROVE  Exchange!ExchangeNext \/ UNCHANGED Exchange!exchangeVars
<1>1. ASSUME NEW u \in Users, PurchaseControl(u) \/ PurchaseAsset(u)
      PROVE  Exchange!ExchangeNext
  <2>1. \E l \in Listings : Exchange!Buy(u, l)
    BY <1>1, PurchaseControlBuys, PurchaseAssetBuys
  <2> QED BY <2>1 DEF Exchange!ExchangeNext
<1>2. ASSUME NEW u \in Users, NEW l \in Listings, NEW gross \in Gross,
             \/ ListControl(u, l, gross) \/ Reprice(u, l, gross)
             \/ \E a \in Assets : ListAsset(u, l, a, gross)
      PROVE  Exchange!ExchangeNext
  <2>1. Exchange!PutUp(l) \/ Exchange!ChangePrice(l)
    BY <1>2, ListControlPutsUp, RepriceChangesPrice, ListAssetPutsUp
  <2> QED BY <2>1 DEF Exchange!ExchangeNext
<1>3. ASSUME NEW l \in Listings,
             \/ \E u \in Users : CancelControl(u, l) \/ CancelAsset(u, l)
             \/ RecoverControl(l) \/ RecoverAsset(l)
      PROVE  Exchange!ExchangeNext
  <2>1. /\ ReturnControl(l) \/ ReturnAsset(l)
        /\ CloseListing(l, Canceled) \/ CloseListing(l, Recovered)
    BY <1>3 DEF CancelControl, CancelAsset, RecoverControl, RecoverAsset
  <2>2. Exchange!TakeBack(l)
    BY <2>1, ReturnsTakeBack
  <2> QED BY <2>2 DEF Exchange!ExchangeNext
<1>4. ASSUME NEW u \in Users, NEW l \in Listings, SignOrder(u, l)
      PROVE  Exchange!ExchangeNext
  <2>1. Exchange!Agree(u, l)
    BY <1>4, SigningAgrees
  <2> QED BY <2>1 DEF Exchange!ExchangeNext
<1>5. ASSUME NEW u \in Users, NEW a \in Assets,
             ClaimBaseItem(u, a) \/ \E to \in Users : TransferItem(u, a, to)
      PROVE  Exchange!ExchangeNext
  <2>1. Exchange!PassOn(a) /\ a \in Goods
    BY <1>5, GiftsPassOn DEF Goods
  <2> QED BY <2>1 DEF Exchange!ExchangeNext
<1>6. ASSUME PackCall PROVE UNCHANGED Exchange!exchangeVars
  <2>1. root' = root /\ listings' = listings /\ orders' = orders
        /\ \A a \in Assets : items'[a].holder = items[a].holder
    BY <1>6, PackAside
  <2> QED BY <2>1, ExchangeUndisturbed
<1>7. CASE MarketNext
  BY <1>1, <1>2, <1>3, <1>4, <1>5, <1>7, <1>6 DEF MarketNext, PackCall
<1>8. CASE ControlNext /\ UNCHANGED marketVars
  <2>1. ASSUME NEW u \in Users, NEW to \in Users, TransferControl(u, to)
        PROVE  Exchange!ExchangeNext
    <3>1. Exchange!PassOn(Control) /\ Control \in Goods
      BY <1>8, <2>1, TransferControlPassesOn DEF Goods
    <3> QED BY <3>1 DEF Exchange!ExchangeNext
  <2> QED BY <1>8, <2>1, ControlUndisturbed
<1>9. CASE UNCHANGED vars
  <2>1. UNCHANGED <<root, items, listings, orders>>
    BY <1>9 DEF vars
  <2>2. root'.owner = root.owner /\ \A a \in Assets : items'[a].holder = items[a].holder
    BY <2>1
  <2> QED BY <2>1, <2>2, ExchangeUndisturbed
<1> QED BY <1>7, <1>8, <1>9 DEF Next

(* The market begins as an exchange with nothing on offer. *)
LEMMA ExchangeStarts == Init => Exchange!ExchangeInit
<1> SUFFICES ASSUME Init PROVE Exchange!ExchangeInit
  OBVIOUS
<1>1. /\ root.owner = Creator
      /\ items = [a \in Assets |-> [holder |-> HolderOf[a], epoch |-> 0, at |-> HolderOf[a]]]
      /\ listings = [l \in Listings |-> NoListing] /\ orders = [u \in Users |-> None]
  BY DEF Init, ControlInit, MarketInit
<1>2. OwnerNow \in [Goods -> Users \cup {None}]
  BY <1>1, UsersAssumption, AssetAssumption DEF OwnerNow, Goods
<1>3. OfferedNow = [l \in Listings |-> Exchange!Blank]
  BY <1>1 DEF OfferedNow, NoListing, NoQuote, Fresh, Exchange!Blank
<1>4. AgreedNow = [u \in Users |-> None]
  BY <1>1 DEF AgreedNow
<1> QED BY <1>2, <1>3, <1>4 DEF Exchange!ExchangeInit

(* The market, with all it does to the Maker, to the protocol and to money, *)
(* implements the fixed-price exchange.                                     *)
THEOREM MarketIsExchange == Spec => SellsAsExchange
<1>1. Init => Exchange!ExchangeInit
  BY ExchangeStarts
<1>2. IInv /\ [Next]_vars => [Exchange!ExchangeNext]_(Exchange!exchangeVars)
  BY ExchangeStep
<1> QED BY <1>1, <1>2, Inductive, PTL DEF Spec, SellsAsExchange, Exchange!ExchangeSpec

-----------------------------------------------------------------------------
(* Sums.  A set of subsets of a finite set that is not empty has a least    *)
(* member, and every fact below is that no least set contradicts it.        *)

(* The sum of f over the set S. *)
SumOver(f, S) == MapThenSumSet(LAMBDA x : f[x], S)

(* The element a fold over s takes first. *)
Pick(s) == CHOOSE x \in s : TRUE
(* g holds the sum of f over every subset of S. *)
SumsUp(f, S, g) ==
    g = [s \in SUBSET S |-> IF s = {} THEN 0 ELSE f[Pick(s)] + g[s \ {Pick(s)}]]

LEMMA PickIn == ASSUME NEW s, s # {} PROVE Pick(s) \in s
BY DEF Pick

(* A set of subsets of a finite set has a least one, if it has one at all. *)
LEMMA Minimal ==
    ASSUME NEW S, IsFiniteSet(S), NEW Bad, Bad \subseteq SUBSET S, Bad # {}
    PROVE  \E T \in Bad : \A U \in SUBSET T : U # T => U \notin Bad
<1>1. IsWellFoundedOn(StrictSubsetOrdering(S), FiniteSubsetsOf(S))
  BY FS_StrictSubsetOrderingWellFounded
<1>2. FiniteSubsetsOf(S) = SUBSET S
  BY FS_FiniteSubsetsOfFinite
<1>3. \E T \in Bad : \A U \in Bad : ~ (<<U, T>> \in StrictSubsetOrdering(S))
  <2> HIDE DEF StrictSubsetOrdering
  <2> QED BY <1>1, <1>2, WFMin, Zenon
<1> QED BY <1>3 DEF StrictSubsetOrdering

(* The fold behind MapThenSumSet is one such function. *)
LEMMA SumIs == 
    ASSUME NEW f, NEW S
    PROVE SumOver(f, S) = (CHOOSE g : SumsUp(f, S, g))[S]
BY DEF SumOver, MapThenSumSet, MapThenFoldSet, SumsUp, Pick

(* At most one function sums up f; it does not depend on the set it is for. *)
LEMMA Unique ==
    ASSUME NEW f, NEW S, NEW g, SumsUp(f, S, g), NEW T, NEW h, SumsUp(f, T, h),
           NEW U, IsFiniteSet(U), U \subseteq S, U \subseteq T
    PROVE  g[U] = h[U]
<1> DEFINE Bad == {W \in SUBSET U : g[W] # h[W]}
<1>1. CASE Bad = {}
  BY <1>1
<1>2. CASE Bad # {}
  <2>1. PICK W \in Bad : \A V \in SUBSET W : V # W => V \notin Bad
    <3> HIDE DEF Bad
    <3>1. Bad \subseteq SUBSET U
      BY DEF Bad
    <3> QED BY <1>2, <3>1, Minimal
  <2>2. W \in SUBSET S /\ W \in SUBSET T
    OBVIOUS
  <2>3. g[W] = IF W = {} THEN 0 ELSE f[Pick(W)] + g[W \ {Pick(W)}]
    BY <2>2 DEF SumsUp
  <2>4. h[W] = IF W = {} THEN 0 ELSE f[Pick(W)] + h[W \ {Pick(W)}]
    BY <2>2 DEF SumsUp
  <2>5. W # {}
    BY <2>3, <2>4
  <2>6. W \ {Pick(W)} \in SUBSET W /\ W \ {Pick(W)} # W
    BY <2>5, PickIn
  <2>7. g[W \ {Pick(W)}] = h[W \ {Pick(W)}]
    BY <2>1, <2>6
  <2> QED BY <2>3, <2>4, <2>7
<1> QED BY <1>1, <1>2

(* There is one on every finite set: on a least set without, it would be   *)
(* pieced together from those of the smaller sets.                          *)
LEMMA Exists ==
    ASSUME NEW f, NEW S, IsFiniteSet(S)
    PROVE  \E g : SumsUp(f, S, g)
<1> DEFINE Bad == {T \in SUBSET S : ~ \E g : SumsUp(f, T, g)}
<1>1. SUFFICES ASSUME Bad # {} PROVE FALSE
  OBVIOUS
<1>2. PICK T \in Bad : \A U \in SUBSET T : U # T => U \notin Bad
  <2> HIDE DEF Bad
  <2>1. Bad \subseteq SUBSET S
    BY DEF Bad
  <2> QED BY <1>1, <2>1, Minimal
<1>3. IsFiniteSet(T) /\ \A U \in SUBSET T : IsFiniteSet(U)
  BY FS_Subset
<1> DEFINE Sub(U) == CHOOSE g : SumsUp(f, U, g)
           G == [s \in SUBSET T |-> IF s = {} THEN 0
                                    ELSE f[Pick(s)] + Sub(s \ {Pick(s)})[s \ {Pick(s)}]]
<1>4. \A U \in SUBSET T : U # T => SumsUp(f, U, Sub(U))
  BY <1>2
<1>5. ASSUME NEW s \in SUBSET T, s # {}
      PROVE  G[s \ {Pick(s)}] = Sub(s \ {Pick(s)})[s \ {Pick(s)}]
  <2> DEFINE r == s \ {Pick(s)}
  <2>1. r \in SUBSET T /\ r # T
    BY <1>5, PickIn
  <2>2. SumsUp(f, r, Sub(r))
    BY <1>4, <2>1
  <2>3. Sub(r)[r] = IF r = {} THEN 0 ELSE f[Pick(r)] + Sub(r)[r \ {Pick(r)}]
    <3> HIDE DEF Sub, r
    <3> QED BY <2>2 DEF SumsUp
  <2>4. ASSUME r # {} PROVE Sub(r)[r \ {Pick(r)}] = Sub(r \ {Pick(r)})[r \ {Pick(r)}]
    <3> DEFINE q == r \ {Pick(r)}
    <3>1. q \in SUBSET T /\ q # T /\ q \subseteq r
      BY <2>1, <2>4, PickIn
    <3>2. SumsUp(f, q, Sub(q)) /\ IsFiniteSet(q)
      BY <1>3, <1>4, <3>1
    <3> HIDE DEF Sub, q, r
    <3>3. Sub(r)[q] = Sub(q)[q]
      BY <2>2, <3>1, <3>2, Unique
    <3> QED BY <3>3 DEF q
  <2>5. G[r] = IF r = {} THEN 0 ELSE f[Pick(r)] + Sub(r \ {Pick(r)})[r \ {Pick(r)}]
    <3> HIDE DEF Sub, r
    <3> QED BY <2>1
  <2> HIDE DEF Sub, G, r
  <2>6. G[r] = Sub(r)[r]
    BY <2>3, <2>4, <2>5
  <2> QED BY <2>6 DEF r
<1>6. SumsUp(f, T, G)
  <2>1. G = [s \in SUBSET T |-> IF s = {} THEN 0 ELSE f[Pick(s)] + G[s \ {Pick(s)}]]
    <3> DEFINE H == [s \in SUBSET T |-> IF s = {} THEN 0 ELSE f[Pick(s)] + G[s \ {Pick(s)}]]
    <3>1. \A s \in SUBSET T : G[s] = H[s]
      <4> TAKE s \in SUBSET T
      <4>1. CASE s = {}
        BY <4>1
      <4>2. CASE s # {}
        <5>1. G[s] = f[Pick(s)] + Sub(s \ {Pick(s)})[s \ {Pick(s)}]
          <6> HIDE DEF Sub
          <6> QED BY <4>2
        <5>2. H[s] = f[Pick(s)] + G[s \ {Pick(s)}]
          <6> HIDE DEF G
          <6> QED BY <4>2
        <5> HIDE DEF Sub, G, H
        <5> QED BY <1>5, <4>2, <5>1, <5>2
      <4> QED BY <4>1, <4>2
    <3>2. DOMAIN G = SUBSET T /\ DOMAIN H = SUBSET T
      OBVIOUS
    <3> QED BY <3>1, <3>2
  <2> HIDE DEF G
  <2> QED BY <2>1 DEF SumsUp
<1> HIDE DEF G
<1> QED BY <1>6

(* So a sum is what its recursive definition says. *)
LEMMA SumUnfolds ==
    ASSUME NEW f, NEW S, IsFiniteSet(S)
    PROVE  /\ S = {} => SumOver(f, S) = 0
           /\ S # {} => SumOver(f, S) = f[Pick(S)] + SumOver(f, S \ {Pick(S)})
<1> DEFINE Sub(U) == CHOOSE g : SumsUp(f, U, g)
           r == S \ {Pick(S)}
<1>1. IsFiniteSet(r) /\ r \subseteq S
  BY FS_Subset
<1>2. SumsUp(f, S, Sub(S)) /\ SumsUp(f, r, Sub(r))
  BY <1>1, Exists
<1>3. Sub(S)[r] = Sub(r)[r]
  <2> HIDE DEF Sub, r
  <2> QED BY <1>1, <1>2, Unique
<1>4. SumOver(f, S) = Sub(S)[S] /\ SumOver(f, r) = Sub(r)[r]
  BY SumIs
<1>5. Sub(S)[S] = IF S = {} THEN 0 ELSE f[Pick(S)] + Sub(S)[S \ {Pick(S)}]
  <2> HIDE DEF Sub, r
  <2> QED BY <1>2 DEF SumsUp
<1> HIDE DEF Sub
<1> QED BY <1>3, <1>4, <1>5

LEMMA SumEmpty == ASSUME NEW f PROVE SumOver(f, {}) = 0
BY SumUnfolds, FS_EmptySet

(* Sums of integers are integers, of natural numbers natural. *)
LEMMA SumIsInt ==
    ASSUME NEW f, NEW S, IsFiniteSet(S), \A x \in S : f[x] \in Int
    PROVE  SumOver(f, S) \in Int /\ ((\A x \in S : f[x] \in Nat) => SumOver(f, S) \in Nat)
<1> DEFINE Bad == {T \in SUBSET S :
                     ~ (/\ SumOver(f, T) \in Int
                        /\ (\A x \in S : f[x] \in Nat) => SumOver(f, T) \in Nat)}
<1>1. SUFFICES ASSUME Bad # {} PROVE FALSE
  OBVIOUS
<1>2. PICK T \in Bad : \A U \in SUBSET T : U # T => U \notin Bad
  <2> HIDE DEF Bad
  <2>1. Bad \subseteq SUBSET S
    BY DEF Bad
  <2> QED BY <1>1, <2>1, Minimal
<1>3. T \in SUBSET S /\ IsFiniteSet(T)
  BY FS_Subset
<1>4. T # {}
  BY SumEmpty
<1>5. SumOver(f, T) = f[Pick(T)] + SumOver(f, T \ {Pick(T)})
  BY <1>3, <1>4, SumUnfolds
<1>6. Pick(T) \in T
  BY <1>4, PickIn
<1>7. T \ {Pick(T)} \in SUBSET T /\ T \ {Pick(T)} # T /\ T \ {Pick(T)} \in SUBSET S
  BY <1>3, <1>6
<1>8. T \ {Pick(T)} \notin Bad
  BY <1>2, <1>7
<1>9. f[Pick(T)] \in Int /\ ((\A x \in S : f[x] \in Nat) => f[Pick(T)] \in Nat)
  BY <1>3, <1>6
<1> QED BY <1>5, <1>7, <1>8, <1>9

(* Whichever element the fold would take first, any other may be taken.     *)
LEMMA SumRemove ==
    ASSUME NEW f, NEW S, IsFiniteSet(S), \A x \in S : f[x] \in Int, NEW e \in S
    PROVE  SumOver(f, S) = f[e] + SumOver(f, S \ {e})
<1> DEFINE Bad == {T \in SUBSET S : \E x \in T : SumOver(f, T) # f[x] + SumOver(f, T \ {x})}
<1>1. SUFFICES ASSUME Bad # {} PROVE FALSE
  OBVIOUS
<1>2. PICK T \in Bad : \A U \in SUBSET T : U # T => U \notin Bad
  <2> HIDE DEF Bad
  <2>1. Bad \subseteq SUBSET S
    BY DEF Bad
  <2> QED BY <1>1, <2>1, Minimal
<1>3. PICK x \in T : SumOver(f, T) # f[x] + SumOver(f, T \ {x})
  OBVIOUS
<1>4. T \in SUBSET S /\ \A U \in SUBSET T : IsFiniteSet(U)
  BY FS_Subset
<1>5. PICK p : p = Pick(T)
  OBVIOUS
<1>6. p \in T /\ SumOver(f, T) = f[p] + SumOver(f, T \ {p})
  BY <1>4, <1>5, PickIn, SumUnfolds
<1>7. p # x
  BY <1>3, <1>6
<1>8. SumOver(f, T \ {p}) = f[x] + SumOver(f, (T \ {p}) \ {x})
  <2>1. T \ {p} \notin Bad /\ T \ {p} \in SUBSET S /\ x \in T \ {p}
    BY <1>2, <1>4, <1>6, <1>7
  <2> QED BY <2>1
<1>9. SumOver(f, T \ {x}) = f[p] + SumOver(f, (T \ {x}) \ {p})
  <2>1. T \ {x} \notin Bad /\ T \ {x} \in SUBSET S /\ p \in T \ {x}
    BY <1>2, <1>4, <1>6, <1>7
  <2> QED BY <2>1
<1>10. (T \ {p}) \ {x} = (T \ {x}) \ {p}
  OBVIOUS
<1>11. PICK n \in Int, a \in Int, b \in Int :
             n = SumOver(f, (T \ {x}) \ {p}) /\ a = f[x] /\ b = f[p]
  BY <1>4, <1>6, SumIsInt
<1>12. SumOver(f, T) = b + (a + n) /\ SumOver(f, T \ {x}) = b + n
  BY <1>6, <1>8, <1>9, <1>10, <1>11
<1>13. SumOver(f, T) # a + (b + n)
  BY <1>3, <1>11, <1>12
<1> QED BY <1>11, <1>12, <1>13

(* Only what f says of the elements of the set counts. *)
LEMMA SumSame ==
    ASSUME NEW S, IsFiniteSet(S), NEW f, NEW g, \A x \in S : f[x] = g[x]
    PROVE  SumOver(f, S) = SumOver(g, S)
<1> DEFINE Bad == {T \in SUBSET S : SumOver(f, T) # SumOver(g, T)}
<1>1. SUFFICES ASSUME Bad # {} PROVE FALSE
  OBVIOUS
<1>2. PICK T \in Bad : \A U \in SUBSET T : U # T => U \notin Bad
  <2> HIDE DEF Bad
  <2>1. Bad \subseteq SUBSET S
    BY DEF Bad
  <2> QED BY <1>1, <2>1, Minimal
<1>3. T \in SUBSET S /\ IsFiniteSet(T)
  BY FS_Subset
<1>4. T # {}
  BY SumEmpty
<1>5. PICK p : p = Pick(T)
  OBVIOUS
<1>6. /\ p \in T /\ SumOver(f, T) = f[p] + SumOver(f, T \ {p})
      /\ SumOver(g, T) = g[p] + SumOver(g, T \ {p})
  BY <1>3, <1>4, <1>5, PickIn, SumUnfolds
<1>7. SumOver(f, T \ {p}) = SumOver(g, T \ {p})
  BY <1>2, <1>3, <1>6
<1>8. f[p] = g[p]
  BY <1>3, <1>6
<1> QED BY <1>6, <1>7, <1>8

(* One element changes by d. *)
LEMMA SumChange ==
    ASSUME NEW S, IsFiniteSet(S), NEW f, NEW g, NEW e \in S, NEW d \in Int,
           \A x \in S : f[x] \in Int /\ g[x] = IF x = e THEN f[x] + d ELSE f[x]
    PROVE  SumOver(g, S) = SumOver(f, S) + d
<1>1. IsFiniteSet(S \ {e})
  BY FS_RemoveElement
<1>2. PICK n \in Int, a \in Int : n = SumOver(f, S \ {e}) /\ a = f[e]
  BY <1>1, SumIsInt
<1>3. SumOver(f, S) = a + n
  BY <1>2, SumRemove
<1>4. SumOver(g, S \ {e}) = n
  BY <1>1, <1>2, SumSame
<1>5. SumOver(g, S) = (a + d) + n
  <2>1. \A x \in S : g[x] \in Int
    OBVIOUS
  <2>2. SumOver(g, S) = g[e] + SumOver(g, S \ {e})
    BY <2>1, SumRemove
  <2> QED BY <1>2, <1>4, <2>2
<1> QED BY <1>2, <1>3, <1>5

-----------------------------------------------------------------------------
(* Money: what the wallets and the treasuries hold.  IInv says what a sale *)
(* pays out; that nothing is made or lost on the way is a second invariant *)
(* on top of it.                                                           *)

MoneyInv == SharesCollected /\ CoinsKept

(* What the access passes brought in. *)
SoldAccess(holders, price) == Cardinality(holders) * (price - Share(price, PrimaryBps))

LEMMA PursesAre == ASSUME NEW purses PROVE InPurses(purses) = SumOver(purses, Users)
BY DEF InPurses, SumOver

(* A wallet is credited, or charged. *)
LEMMA CreditMoves ==
    ASSUME NEW purses \in [Users -> Int], NEW u \in Users, NEW d \in Int
    PROVE  /\ Credit(purses, u, d) \in [Users -> Int]
           /\ InPurses(Credit(purses, u, d)) = InPurses(purses) + d
<1>1. PICK after : after = Credit(purses, u, d)
  OBVIOUS
<1>2. \A x \in Users : purses[x] \in Int /\ after[x] = IF x = u THEN purses[x] + d ELSE purses[x]
  BY <1>1 DEF Credit
<1>3. SumOver(after, Users) = SumOver(purses, Users) + d
  BY <1>2, NamesAssumption, SumChange
<1>4. after \in [Users -> Int]
  BY <1>1 DEF Credit
<1> QED BY <1>1, <1>3, <1>4, PursesAre

(* What leaves one place comes to another. *)
LEMMA CoinsMove ==
    ASSUME TypeOK, CoinsKept,
           NEW c \in Int, InPurses(cash') = InPurses(cash) + c,
           NEW n \in Int, protocol'.revenue = protocol.revenue + n,
           NEW m \in Int, treasury'.revenue = treasury.revenue + m,
           NEW k \in Int, packs'.revenue = packs.revenue + k,
           c + n + m + k = 0
    PROVE  CoinsKept'
<1>1. \A u \in Users : cash[u] \in Int
  BY DEF TypeOK
<1>2. InPurses(cash) \in Int
  BY <1>1, NamesAssumption, SumIsInt, PursesAre
<1>3. PICK a \in Int, b \in Int, d \in Int, e \in Int :
           a = InPurses(cash) /\ b = protocol.revenue /\ d = treasury.revenue /\ e = packs.revenue
  BY <1>2 DEF TypeOK, Treasuries
<1>4. a + b + d + e = InPurses([u \in Users |-> Purse])
  BY <1>3 DEF CoinsKept
<1>5. /\ InPurses(cash') = a + c /\ protocol'.revenue = b + n
      /\ treasury'.revenue = d + m /\ packs'.revenue = e + k
  BY <1>3
<1>6. (a + c) + (b + n) + (d + m) + (e + k) = a + b + d + e
  OBVIOUS
<1>7. InPurses(cash') + protocol'.revenue + treasury'.revenue + packs'.revenue
         = InPurses([u \in Users |-> Purse])
  BY <1>4, <1>5, <1>6
<1> QED BY <1>7 DEF CoinsKept

LEMMA SoldTyped ==
    ASSUME NEW holders, holders \subseteq Users, NEW price \in Nat
    PROVE  SoldAccess(holders, price) \in Int
<1>1. Cardinality(holders) \in Nat
  BY NamesAssumption, FS_Subset, FS_CardinalityType
<1>2. price - Share(price, PrimaryBps) \in Int
  BY ShareNat, PriceAssumption DEF Share
<1>3. \A n \in Nat, c \in Int : n * c \in Int
  OBVIOUS
<1> QED BY <1>1, <1>2, <1>3 DEF SoldAccess

(* One more pass brings in its price less the protocol's share. *)
LEMMA SoldMore ==
    ASSUME NEW holders, holders \subseteq Users, NEW price \in Nat, NEW u \in Users, u \notin holders
    PROVE  SoldAccess(holders \cup {u}, price)
             = SoldAccess(holders, price) + (price - Share(price, PrimaryBps))
<1>1. IsFiniteSet(holders)
  BY NamesAssumption, FS_Subset
<1>2. Cardinality(holders) \in Nat /\ Cardinality(holders \cup {u}) = Cardinality(holders) + 1
  BY <1>1, FS_AddElement, FS_CardinalityType
<1>3. price - Share(price, PrimaryBps) \in Int
  BY ShareNat, PriceAssumption DEF Share
<1>4. \A n \in Nat, c \in Int : (n + 1) * c = n * c + c
  OBVIOUS
<1> QED BY <1>2, <1>3, <1>4 DEF SoldAccess

(* What treasuries collect is what sales and passes brought, or came        *)
(* directly.                                                                *)
LEMMA SharesMove ==
    ASSUME TypeOK, SharesCollected,
           NEW m \in Int, NEW w \in Int, NEW x \in Int,
           treasury'.collected = treasury.collected + m,
           treasury'.revenue = treasury.revenue + (m - w),
           treasury'.withdrawn = treasury.withdrawn + w,
           treasury'.direct = treasury.direct + x,
           NEW k \in Int, NEW v \in Int, NEW y \in Int,
           packs'.collected = packs.collected + k,
           packs'.revenue = packs.revenue + (k - v),
           packs'.withdrawn = packs.withdrawn + v,
           packs'.direct = packs.direct + y,
           NEW s \in Int, registry'.sourcePaid = registry.sourcePaid + s,
           NEW b \in Int, SoldAccess(passes', root'.price) = SoldAccess(passes, root.price) + b,
           m + k = s + b + x + y
    PROVE  SharesCollected'
<1>1. PICK sold \in Int : sold = SoldAccess(passes, root.price)
  BY SoldTyped DEF TypeOK
<1>2. PICK tc \in Int, tr \in Int, tw \in Int, td \in Int :
         /\ tc = treasury.collected /\ tr = treasury.revenue
         /\ tw = treasury.withdrawn /\ td = treasury.direct
  BY DEF TypeOK, Treasuries
<1>3. PICK pc \in Int, pr \in Int, pw \in Int, pd \in Int :
         /\ pc = packs.collected /\ pr = packs.revenue
         /\ pw = packs.withdrawn /\ pd = packs.direct
  BY DEF TypeOK, Treasuries
<1>4. PICK sp \in Int : sp = registry.sourcePaid
  BY DEF TypeOK, RegistryRecords
<1>5. /\ tc = tr + tw /\ pc = pr + pw
      /\ tc + pc = sp + sold + td + pd
  BY <1>1, <1>2, <1>3, <1>4 DEF SharesCollected, SoldAccess
<1>6. /\ tc + m = (tr + (m - w)) + (tw + w) /\ pc + k = (pr + (k - v)) + (pw + v)
      /\ (tc + m) + (pc + k) = (sp + s) + (sold + b) + (td + x) + (pd + y)
  <2>1. tc + m = (tr + (m - w)) + (tw + w)
    BY <1>5
  <2>2. pc + k = (pr + (k - v)) + (pw + v)
    BY <1>5
  <2>3. (tc + m) + (pc + k) = (tc + pc) + (m + k)
    OBVIOUS
  <2>4. (sp + sold + td + pd) + (s + b + x + y) = (sp + s) + (sold + b) + (td + x) + (pd + y)
    OBVIOUS
  <2> QED
    BY <1>5, <2>1, <2>2, <2>3, <2>4
<1>7. /\ treasury'.collected = treasury'.revenue + treasury'.withdrawn
      /\ packs'.collected = packs'.revenue + packs'.withdrawn
      /\ treasury'.collected + packs'.collected =
            registry'.sourcePaid + SoldAccess(passes', root'.price)
               + treasury'.direct + packs'.direct
  BY <1>1, <1>2, <1>3, <1>4, <1>6
<1> QED BY <1>7 DEF SharesCollected, SoldAccess

(* Where nothing is sold, coins come in by direct deposits alone.         *)
LEMMA SharesStay ==
    ASSUME TypeOK, SharesCollected,
           NEW m \in Int, NEW w \in Int,
           treasury'.collected = treasury.collected + m,
           treasury'.revenue = treasury.revenue + (m - w),
           treasury'.withdrawn = treasury.withdrawn + w,
           treasury'.direct = treasury.direct + m,
           NEW k \in Int, NEW v \in Int,
           packs'.collected = packs.collected + k,
           packs'.revenue = packs.revenue + (k - v),
           packs'.withdrawn = packs.withdrawn + v,
           packs'.direct = packs.direct + k,
           registry' = registry,
           SoldAccess(passes', root'.price) = SoldAccess(passes, root.price)
    PROVE  SharesCollected'
<1>1. PICK sold \in Int : sold = SoldAccess(passes, root.price)
  BY SoldTyped DEF TypeOK
<1>2. PICK tc \in Int, tr \in Int, tw \in Int, td \in Int :
         /\ tc = treasury.collected /\ tr = treasury.revenue
         /\ tw = treasury.withdrawn /\ td = treasury.direct
  BY DEF TypeOK, Treasuries
<1>3. PICK pc \in Int, pr \in Int, pw \in Int, pd \in Int :
         /\ pc = packs.collected /\ pr = packs.revenue
         /\ pw = packs.withdrawn /\ pd = packs.direct
  BY DEF TypeOK, Treasuries
<1>4. PICK sp \in Int : sp = registry.sourcePaid
  BY DEF TypeOK, RegistryRecords
<1>5. /\ tc = tr + tw /\ pc = pr + pw
      /\ tc + pc = sp + sold + td + pd
  BY <1>1, <1>2, <1>3, <1>4 DEF SharesCollected, SoldAccess
<1>6. /\ tc + m = (tr + (m - w)) + (tw + w) /\ pc + k = (pr + (k - v)) + (pw + v)
      /\ (tc + m) + (pc + k) = sp + sold + (td + m) + (pd + k)
  BY <1>5
<1> QED BY <1>1, <1>2, <1>3, <1>4, <1>6 DEF SharesCollected, SoldAccess

(* No money moves, and no pass is issued. *)
LEMMA MoneyStays ==
    ASSUME MoneyInv, UNCHANGED <<treasury, passes, cash, packs>>,
           protocol'.revenue = protocol.revenue, root'.price = root.price,
           registry'.sourcePaid = registry.sourcePaid
    PROVE  MoneyInv'
<1>1. SharesCollected'
  BY DEF MoneyInv, SharesCollected
<1>2. InPurses(cash') = InPurses(cash)
  OBVIOUS
<1>3. CoinsKept'
  BY <1>2 DEF MoneyInv, CoinsKept
<1> QED BY <1>1, <1>3 DEF MoneyInv

(* A purchase pays the protocol, the creator, the source and the seller out *)
(* of the buyer's purse, and out of nothing else.                           *)
LEMMA PayingKeepsCoins ==
    ASSUME TypeOK, MoneyInv, NEW l \in Listings, NEW buyer \in Users, NEW payment,
           listings[l].good \in Goods, listings[l].seller \in Users,
           Pay(l, buyer, payment), SettleListing(l, buyer), UNCHANGED passes,
           root'.price = root.price
    PROVE  MoneyInv'
<1>1. PICK q \in Quotes : q = listings[l].quote
  BY Paying
<1>2. /\ q.gross \in Nat /\ q.protocol \in Nat /\ q.creator \in Nat
      /\ q.source \in Nat /\ q.seller \in Nat
      /\ q.gross = q.protocol + q.creator + q.source + q.seller
      /\ payment = q.gross
  BY <1>1, Paying DEF Quotes
<1>3. PICK g \in Nat, p \in Nat, c \in Nat, s \in Nat, r \in Nat :
         /\ g = q.gross /\ p = q.protocol /\ c = q.creator /\ s = q.source /\ r = q.seller
         /\ g = p + c + s + r
  BY <1>2
<1>4. q = Quote(listings[l].good, listings[l].quote.gross)
  BY <1>1 DEF Pay
<1>5. /\ cash' = Credit(Credit(Credit(cash, buyer, - g), Creator, c), listings[l].seller, r)
      /\ protocol' = [protocol EXCEPT !.revenue = @ + p]
      /\ \/ packs' = Deposited(packs, s) /\ UNCHANGED treasury
         \/ packs' = packs /\ UNCHANGED treasury /\ s = 0
         \/ packs' = packs /\ treasury' = Deposited(treasury, s)
  BY <1>1, <1>2, <1>3, <1>4 DEF Pay, Deposit
<1>6. InPurses(cash') = InPurses(cash) + (c + r - g)
  <2>1. cash \in [Users -> Int] /\ Creator \in Users
    BY UsersAssumption DEF TypeOK
  <2>2. PICK c1 : c1 = Credit(cash, buyer, - g)
    OBVIOUS
  <2>3. c1 \in [Users -> Int] /\ InPurses(c1) = InPurses(cash) + (- g)
    BY <2>1, <2>2, CreditMoves
  <2>4. PICK c2 : c2 = Credit(c1, Creator, c)
    OBVIOUS
  <2>5. c2 \in [Users -> Int] /\ InPurses(c2) = InPurses(c1) + c
    <3>1. c \in Int /\ Creator \in Users /\ c1 \in [Users -> Int]
      BY <2>1, <2>3
    <3>2. /\ Credit(c1, Creator, c) \in [Users -> Int]
          /\ InPurses(Credit(c1, Creator, c)) = InPurses(c1) + c
      BY <3>1, CreditMoves
    <3> QED BY <2>4, <3>2
  <2>6. cash' = Credit(c2, listings[l].seller, r)
    BY <1>5, <2>2, <2>4
  <2>7. InPurses(cash') = InPurses(c2) + r
    BY <2>5, <2>6, CreditMoves
  <2>8. \A u \in Users : cash[u] \in Int
    BY <2>1
  <2>9. PICK a \in Int : a = InPurses(cash)
    BY <2>8, NamesAssumption, SumIsInt, PursesAre
  <2> QED BY <2>3, <2>5, <2>7, <2>9
<1>7. /\ protocol'.revenue = protocol.revenue + p
      /\ registry'.sourcePaid = registry.sourcePaid + s
      /\ registry \in RegistryRecords
  <2>1. registry'.sourcePaid = registry.sourcePaid + q.source
    BY <1>1, SettlingCounts DEF TypeOK
  <2> QED BY <1>3, <1>5, <2>1 DEF TypeOK
<1>8. PICK k \in Int, m \in Int :
         /\ k + m = s
         /\ packs'.revenue = packs.revenue + k /\ packs'.revenue = packs.revenue + (k - 0)
         /\ packs'.collected = packs.collected + k
         /\ packs'.withdrawn = packs.withdrawn + 0 /\ packs'.direct = packs.direct + 0
         /\ treasury'.revenue = treasury.revenue + m /\ treasury'.revenue = treasury.revenue + (m - 0)
         /\ treasury'.collected = treasury.collected + m
         /\ treasury'.withdrawn = treasury.withdrawn + 0 /\ treasury'.direct = treasury.direct + 0
  <2>1. treasury \in Treasuries /\ packs \in Treasuries
    BY DEF TypeOK
  <2>2. \A t \in Treasuries :
          /\ Deposited(t, s).revenue = t.revenue + s /\ Deposited(t, s).revenue = t.revenue + (s - 0)
          /\ Deposited(t, s).collected = t.collected + s
          /\ Deposited(t, s).withdrawn = t.withdrawn + 0 /\ Deposited(t, s).direct = t.direct + 0
    <3>1. s - 0 = s
      OBVIOUS
    <3> QED
      BY <3>1, TillBooks, TillStays
  <2>3. s + 0 = s /\ 0 + s = s /\ (s = 0 => 0 + 0 = s)
    OBVIOUS
  <2>4. CASE packs' = Deposited(packs, s) /\ UNCHANGED treasury
    BY <2>1, <2>2, <2>3, <2>4, TillStays
  <2>5. CASE packs' = packs /\ UNCHANGED treasury /\ s = 0
    BY <2>1, <2>3, <2>5, TillStays
  <2>6. CASE packs' = packs /\ treasury' = Deposited(treasury, s)
    BY <2>1, <2>2, <2>3, <2>6, TillStays
  <2> QED BY <1>5, <2>4, <2>5, <2>6
<1>9. CoinsKept'
  <2>1. (c + r - g) + p + m + k = 0 /\ (c + r - g) \in Int
    BY <1>3, <1>8
  <2> QED BY <1>6, <1>7, <1>8, <2>1, CoinsMove DEF MoneyInv
<1>10. SharesCollected'
  <2>1. SoldAccess(passes, root.price) \in Int
    BY SoldTyped DEF TypeOK
  <2>2. SoldAccess(passes', root'.price) = SoldAccess(passes, root.price) + 0
    BY <2>1
  <2>3. m + k = s + 0 + 0 + 0
    BY <1>8
  <2> QED BY <1>7, <1>8, <2>2, <2>3, SharesMove DEF MoneyInv
<1> QED BY <1>9, <1>10 DEF MoneyInv

(* An access sale: the protocol's share, and the rest to the Maker. *)
LEMMA AccessKeepsCoins ==
    ASSUME TypeOK, MoneyInv, NEW u \in Users, PurchaseAccess(u), UNCHANGED marketVars
    PROVE  MoneyInv'
<1>1. PICK price \in Nat, share \in Nat : price = root.price /\ share = Share(price, PrimaryBps)
  <2>1. root.price \in Nat /\ PrimaryBps \in Nat
    BY PriceAssumption DEF TypeOK
  <2>2. Share(root.price, PrimaryBps) \in Nat
    BY <2>1, ShareNat DEF Share
  <2> QED BY <2>1, <2>2
<1>2. /\ protocol' = [protocol EXCEPT !.revenue = @ + share]
      /\ cash' = Credit(cash, u, - price)
      /\ treasury' = Deposited(treasury, price - share) /\ price - share \in Nat
      /\ passes' = passes \cup {u} /\ u \notin passes
      /\ root' = root /\ packs' = packs /\ registry' = registry
  BY <1>1 DEF PurchaseAccess, Deposit, marketVars, Share
<1>3. PICK rest \in Nat : rest = price - share
  BY <1>2
<1>4. InPurses(cash') = InPurses(cash) + (- price)
  <2>1. cash \in [Users -> Int] /\ - price \in Int
    BY DEF TypeOK
  <2> QED BY <1>2, <2>1, CreditMoves
<1>5. /\ treasury'.collected = treasury.collected + rest
      /\ treasury'.revenue = treasury.revenue + rest /\ treasury'.revenue = treasury.revenue + (rest - 0)
      /\ treasury'.withdrawn = treasury.withdrawn + 0 /\ treasury'.direct = treasury.direct + 0
  <2>1. treasury \in Treasuries
    BY DEF TypeOK
  <2> QED BY <1>2, <1>3, <2>1, TillMoves DEF Treasuries
<1>6. /\ packs'.collected = packs.collected + 0 /\ packs'.revenue = packs.revenue + 0
      /\ packs'.revenue = packs.revenue + (0 - 0)
      /\ packs'.withdrawn = packs.withdrawn + 0 /\ packs'.direct = packs.direct + 0
      /\ registry'.sourcePaid = registry.sourcePaid + 0
      /\ protocol'.revenue = protocol.revenue + share
  <2>1. packs \in Treasuries /\ registry \in RegistryRecords
    BY DEF TypeOK
  <2>2. packs' = packs
    BY <1>2
  <2>3. registry'.sourcePaid = registry.sourcePaid + 0
    BY <1>2, <2>1 DEF RegistryRecords
  <2>4. protocol'.revenue = protocol.revenue + share
    BY <1>2 DEF TypeOK
  <2> QED BY <2>1, <2>2, <2>3, <2>4, TillStays
<1>7. CoinsKept'
  <2>1. (- price) + share + rest + 0 = 0 /\ - price \in Int
    BY <1>3
  <2> QED BY <1>4, <1>5, <1>6, <2>1, CoinsMove DEF MoneyInv
<1>8. SharesCollected'
  <2>1. SoldAccess(passes', root'.price) = SoldAccess(passes, root.price) + rest
    BY <1>1, <1>2, <1>3, SoldMore DEF TypeOK
  <2>2. rest + 0 = 0 + rest + 0 + 0
    OBVIOUS
  <2> QED BY <1>5, <1>6, <2>1, <2>2, SharesMove DEF MoneyInv
<1> QED BY <1>7, <1>8 DEF MoneyInv

(* A free pass brings nothing in. *)
LEMMA FreeAccessKeepsCoins ==
    ASSUME TypeOK, MoneyInv, NEW u \in Users, ClaimFreeAccess(u), UNCHANGED marketVars
    PROVE  MoneyInv'
<1>1. /\ root.price = 0 /\ u \notin passes /\ passes' = passes \cup {u}
      /\ UNCHANGED <<protocol, root, treasury, cash, packs, registry>>
  BY DEF ClaimFreeAccess, marketVars
<1>2. Share(0, PrimaryBps) = 0
  <2>1. 0 * PrimaryBps = 0
    BY PriceAssumption
  <2>2. 0 \div 10000 = 0
    OBVIOUS
  <2> QED BY <2>1, <2>2 DEF Share
<1>3. SoldAccess(passes', root'.price) = SoldAccess(passes, root.price)
  <2>1. SoldAccess(passes \cup {u}, 0) = SoldAccess(passes, 0) + (0 - 0)
    BY <1>1, <1>2, SoldMore DEF TypeOK
  <2>2. SoldAccess(passes, 0) \in Int
    BY SoldTyped DEF TypeOK
  <2> QED BY <1>1, <2>1, <2>2
<1>4. SharesCollected'
  BY <1>1, <1>3 DEF MoneyInv, SharesCollected, SoldAccess
<1>5. CoinsKept'
  BY <1>1 DEF MoneyInv, CoinsKept
<1> QED BY <1>4, <1>5 DEF MoneyInv

(* What leaves a treasury comes into a wallet, and what comes out of a      *)
(* wallet directly into a treasury is booked as that.                       *)
LEMMA TransferKeepsCoins ==
    ASSUME TypeOK, MoneyInv, NEW u \in Users, NEW c \in Int, cash' = Credit(cash, u, c),
           UNCHANGED <<passes, registry>>, root'.price = root.price,
           NEW n \in Int, protocol'.revenue = protocol.revenue + n,
           NEW amount \in Nat,
           \/ UNCHANGED <<treasury, packs>> /\ c + n = 0
           \/ treasury' = Drawn(treasury, amount) /\ packs' = packs /\ n = 0 /\ c = amount
           \/ packs' = Drawn(packs, amount) /\ treasury' = treasury /\ n = 0 /\ c = amount
           \/ treasury' = DepositedDirectly(treasury, amount) /\ packs' = packs /\ n = 0 /\ c = - amount
           \/ packs' = DepositedDirectly(packs, amount) /\ treasury' = treasury /\ n = 0 /\ c = - amount
    PROVE  MoneyInv'
<1>1. InPurses(cash') = InPurses(cash) + c
  <2>1. cash \in [Users -> Int]
    BY DEF TypeOK
  <2> QED BY <2>1, CreditMoves
<1>2. treasury \in Treasuries /\ packs \in Treasuries
  BY DEF TypeOK
<1> DEFINE Moved(before, after, in, out, direct) ==
             /\ after.collected = before.collected + in
             /\ after.revenue = before.revenue + (in - out)
             /\ after.withdrawn = before.withdrawn + out
             /\ after.direct = before.direct + direct
<1>3. \A t \in Treasuries :
         /\ Moved(t, t, 0, 0, 0)
         /\ Moved(t, Drawn(t, amount), 0, amount, 0)
         /\ Moved(t, DepositedDirectly(t, amount), amount, 0, amount)
  <2>1. TAKE t \in Treasuries
  <2>2. PICK r \in Nat : r = t.revenue
    BY DEF Treasuries
  <2>3. r + (0 - amount) = r - amount /\ r + (amount - 0) = r + amount
    OBVIOUS
  <2> QED
    BY <2>2, <2>3, TillBooks, TillStays
<1>4. PICK m \in Int, w \in Int, x \in Int, k \in Int, v \in Int, y \in Int :
         /\ Moved(treasury, treasury', m, w, x) /\ Moved(packs, packs', k, v, y)
         /\ m = x /\ k = y /\ c + n + (m - w) + (k - v) = 0
  <2>1. CASE UNCHANGED <<treasury, packs>> /\ c + n = 0
    <3>1. Moved(treasury, treasury', 0, 0, 0) /\ Moved(packs, packs', 0, 0, 0)
      BY <1>2, <1>3, <2>1
    <3>2. c + n + (0 - 0) + (0 - 0) = 0
      BY <2>1
    <3>3. amount \in Int /\ 0 \in Int
      OBVIOUS
    <3> HIDE DEF Moved
    <3> QED BY <3>1, <3>2, <3>3
  <2>2. CASE treasury' = Drawn(treasury, amount) /\ packs' = packs /\ n = 0 /\ c = amount
    <3>1. Moved(treasury, treasury', 0, amount, 0) /\ Moved(packs, packs', 0, 0, 0)
      BY <1>2, <1>3, <2>2
    <3>2. c + n + (0 - amount) + (0 - 0) = 0
      BY <2>2
    <3>3. amount \in Int /\ 0 \in Int
      OBVIOUS
    <3> HIDE DEF Moved
    <3> QED BY <3>1, <3>2, <3>3
  <2>3. CASE packs' = Drawn(packs, amount) /\ treasury' = treasury /\ n = 0 /\ c = amount
    <3>1. Moved(treasury, treasury', 0, 0, 0) /\ Moved(packs, packs', 0, amount, 0)
      BY <1>2, <1>3, <2>3
    <3>2. c + n + (0 - 0) + (0 - amount) = 0
      BY <2>3
    <3>3. amount \in Int /\ 0 \in Int
      OBVIOUS
    <3> HIDE DEF Moved
    <3> QED BY <3>1, <3>2, <3>3
  <2>4. CASE treasury' = DepositedDirectly(treasury, amount) /\ packs' = packs /\ n = 0 /\ c = - amount
    <3>1. Moved(treasury, treasury', amount, 0, amount) /\ Moved(packs, packs', 0, 0, 0)
      BY <1>2, <1>3, <2>4
    <3>2. c + n + (amount - 0) + (0 - 0) = 0
      BY <2>4
    <3>3. amount \in Int /\ 0 \in Int
      OBVIOUS
    <3> HIDE DEF Moved
    <3> QED BY <3>1, <3>2, <3>3
  <2>5. CASE packs' = DepositedDirectly(packs, amount) /\ treasury' = treasury /\ n = 0 /\ c = - amount
    <3>1. Moved(treasury, treasury', 0, 0, 0) /\ Moved(packs, packs', amount, 0, amount)
      BY <1>2, <1>3, <2>5
    <3>2. c + n + (0 - 0) + (amount - 0) = 0
      BY <2>5
    <3>3. amount \in Int /\ 0 \in Int
      OBVIOUS
    <3> HIDE DEF Moved
    <3> QED BY <3>1, <3>2, <3>3
  <2> QED BY <2>1, <2>2, <2>3, <2>4, <2>5
<1>5. CoinsKept'
  <2>1. m - w \in Int /\ k - v \in Int
    OBVIOUS
  <2> QED BY <1>1, <1>4, <2>1, CoinsMove DEF MoneyInv
<1>6. SharesCollected'
  <2>1. SoldAccess(passes', root'.price) = SoldAccess(passes, root.price) /\ registry' = registry
    OBVIOUS
  <2>2. SharesCollected
    BY DEF MoneyInv
  <2>3. /\ treasury'.collected = treasury.collected + m
        /\ treasury'.revenue = treasury.revenue + (m - w)
        /\ treasury'.withdrawn = treasury.withdrawn + w
        /\ treasury'.direct = treasury.direct + m
    BY <1>4
  <2>4. /\ packs'.collected = packs.collected + k
        /\ packs'.revenue = packs.revenue + (k - v)
        /\ packs'.withdrawn = packs.withdrawn + v
        /\ packs'.direct = packs.direct + k
    BY <1>4
  <2> HIDE DEF Moved
  <2> QED BY <2>1, <2>2, <2>3, <2>4, SharesStay
<1> QED BY <1>5, <1>6 DEF MoneyInv

(* A withdrawal or a direct deposit, of any of the three treasuries. *)
Transfer ==
    \/ \E amount \in Amounts, to \in Payees :
          \/ WithdrawPack(amount, to)
          \/ /\ WithdrawProtocol(amount, to) \/ \E u \in Users : WithdrawMaker(u, amount, to)
             /\ UNCHANGED marketVars
    \/ \E u \in Users, amount \in Gifts :
          \/ DepositPack(u, amount)
          \/ /\ DepositMaker(u, amount) \/ DepositProtocol(u, amount)
             /\ UNCHANGED marketVars

LEMMA TransfersKeepCoins ==
    ASSUME TypeOK, MoneyInv, Transfer
    PROVE  MoneyInv'
<1>1. protocol \in [enabled : BOOLEAN, revision : Nat, revenue : Nat, direct : Nat]
  BY DEF TypeOK
<1>2. protocol.revenue = protocol.revenue + 0
  BY <1>1
<1>3. ASSUME NEW amount \in Amounts, NEW to \in Payees,
             \/ WithdrawPack(amount, to)
             \/ /\ WithdrawProtocol(amount, to) \/ \E u \in Users : WithdrawMaker(u, amount, to)
                /\ UNCHANGED marketVars
      PROVE  MoneyInv'
  <2>1. amount \in Nat /\ to \in Users /\ amount \in Int /\ - amount \in Int
    BY AmountAssumption
  <2>2. cash' = Credit(cash, to, amount) /\ UNCHANGED <<root, passes, registry>>
    BY <1>3 DEF WithdrawPack, WithdrawProtocol, WithdrawMaker, marketVars
  <2>3. CASE WithdrawPack(amount, to)
    BY <1>2, <2>1, <2>2, <2>3, TransferKeepsCoins DEF WithdrawPack
  <2>4. CASE WithdrawProtocol(amount, to) /\ UNCHANGED marketVars
    <3>1. protocol'.revenue = protocol.revenue + (- amount) /\ UNCHANGED <<treasury, packs>>
      BY <1>1, <2>1, <2>4 DEF WithdrawProtocol, marketVars
    <3>2. amount + (- amount) = 0
      BY <2>1
    <3> QED BY <2>1, <2>2, <3>1, <3>2, TransferKeepsCoins
  <2>5. ASSUME NEW u \in Users, WithdrawMaker(u, amount, to), UNCHANGED marketVars
        PROVE  MoneyInv'
    BY <1>2, <2>1, <2>2, <2>5, TransferKeepsCoins DEF WithdrawMaker, marketVars
  <2> QED BY <1>3, <2>3, <2>4, <2>5
<1>4. ASSUME NEW u \in Users, NEW amount \in Gifts,
             \/ DepositPack(u, amount)
             \/ /\ DepositMaker(u, amount) \/ DepositProtocol(u, amount)
                /\ UNCHANGED marketVars
      PROVE  MoneyInv'
  <2>1. amount \in Nat /\ amount \in Int /\ - amount \in Int
    BY AmountAssumption
  <2>2. cash' = Credit(cash, u, - amount) /\ UNCHANGED <<root, passes, registry>>
    BY <1>4 DEF DepositPack, DepositMaker, DepositProtocol, marketVars
  <2>3. CASE DepositPack(u, amount)
    BY <1>2, <2>1, <2>2, <2>3, TransferKeepsCoins DEF DepositPack
  <2>4. CASE DepositMaker(u, amount) /\ UNCHANGED marketVars
    BY <1>2, <2>1, <2>2, <2>4, TransferKeepsCoins DEF DepositMaker, marketVars
  <2>5. CASE DepositProtocol(u, amount) /\ UNCHANGED marketVars
    <3>1. protocol'.revenue = protocol.revenue + amount /\ UNCHANGED <<treasury, packs>>
      BY <1>1, <2>1, <2>5 DEF DepositProtocol, marketVars
    <3>2. (- amount) + amount = 0
      BY <2>1
    <3> QED BY <2>1, <2>2, <3>1, <3>2, TransferKeepsCoins
  <2> QED BY <1>4, <2>3, <2>4, <2>5
<1> QED BY <1>3, <1>4 DEF Transfer

(* Both kinds of sale, of control and of an asset. *)
LEMMA PurchaseKeepsCoins ==
    ASSUME IInv, MoneyInv, NEW u \in Users, PurchaseControl(u) \/ PurchaseAsset(u)
    PROVE  MoneyInv'
<1>1. /\ orders[u] # None /\ orders[u].listing \in Listings /\ TypeOK
  BY DEF IInv, TypeOK, Orders, PurchaseControl, PurchaseAsset
<1>2. PICK l \in Listings : l = orders[u].listing
  BY <1>1
<1>3. /\ listings[l].status = Open /\ Pay(l, u, orders[u].gross) /\ SettleListing(l, u)
      /\ UNCHANGED passes
  BY <1>2 DEF PurchaseControl, PurchaseAsset, InCustody
<1>4. listings[l].good \in Goods /\ listings[l].seller \in Users
  BY <1>3 DEF IInv, SellersKnown, OpenListings
<1>5. root'.price = root.price
  <2>1. CASE PurchaseControl(u)
    <3>1. root' = [root EXCEPT !.owner = u, !.epoch = @ + 1]
      BY <2>1 DEF PurchaseControl, Rotate
    <3> QED BY <1>1, <3>1 DEF TypeOK
  <2>2. CASE PurchaseAsset(u)
    BY <2>2 DEF PurchaseAsset
  <2> QED BY <2>1, <2>2
<1> QED BY <1>1, <1>3, <1>4, <1>5, PayingKeepsCoins

(* Every step keeps the money together. *)
LEMMA MoneyStep ==
    ASSUME IInv, MoneyInv, [Next]_vars
    PROVE  MoneyInv'
<1>1. TypeOK
  BY DEF IInv
<1>2. CASE ControlNext /\ UNCHANGED marketVars
  <2>1. packs' = packs /\ registry' = registry
    BY <1>2 DEF marketVars
  <2>2. ASSUME NEW u \in Users, LifecycleChange(u) \/ \E to \in Users : TransferControl(u, to)
        PROVE  MoneyInv'
    <3>1. /\ UNCHANGED <<treasury, passes, cash, protocol>>
          /\ \/ \E next \in Lifecycles : root' = [root EXCEPT !.lifecycle = next]
             \/ \E to \in Users : root' = [root EXCEPT !.owner = to, !.epoch = @ + 1]
      BY <2>2 DEF LifecycleChange, Activate, Resume, Stop, TransferControl, Rotate, Lifecycles
    <3>2. root'.price = root.price
      BY <1>1, <3>1 DEF TypeOK
    <3> QED BY <2>1, <3>1, <3>2, MoneyStays
  <2>3. ASSUME ToggleProtocol PROVE MoneyInv'
    <3>1. UNCHANGED <<treasury, passes, cash, root>> /\ protocol'.revenue = protocol.revenue
      BY <1>1, <2>3 DEF ToggleProtocol, TypeOK
    <3> QED BY <2>1, <3>1, MoneyStays
  <2> QED BY <1>1, <1>2, <2>2, <2>3, AccessKeepsCoins, FreeAccessKeepsCoins, TransfersKeepCoins
          DEF ControlNext, LifecycleChange, Transfer
<1>3. ASSUME UNCHANGED <<treasury, passes, cash, packs, protocol, root>>,
             registry'.sourcePaid = registry.sourcePaid
      PROVE  MoneyInv'
  BY <1>3, MoneyStays
<1>4. registry \in RegistryRecords
  BY <1>1 DEF TypeOK
<1>5. ASSUME NEW u \in Users, NEW l \in Listings, NEW gross \in Gross,
             \/ ListControl(u, l, gross) \/ Reprice(u, l, gross)
             \/ \E a \in Assets : ListAsset(u, l, a, gross)
      PROVE  MoneyInv'
  <2>1. UNCHANGED <<treasury, passes, cash, packs, protocol, root>>
    BY <1>5 DEF ListControl, Reprice, ListAsset, controlVars
  <2>2. registry'.sourcePaid = registry.sourcePaid
    BY <1>4, <1>5 DEF ListControl, Reprice, ListAsset, OpenListing, RegistryRecords
  <2> QED BY <1>3, <2>1, <2>2
<1>6. ASSUME NEW l \in Listings,
             \/ \E u \in Users : CancelControl(u, l) \/ CancelAsset(u, l)
             \/ RecoverControl(l) \/ RecoverAsset(l)
      PROVE  MoneyInv'
  <2>1. UNCHANGED <<treasury, passes, cash, packs, protocol, root>>
    BY <1>6 DEF CancelControl, CancelAsset, RecoverControl, RecoverAsset, ReturnControl, ReturnAsset
  <2>2. PICK status : CloseListing(l, status)
    BY <1>6 DEF CancelControl, CancelAsset, RecoverControl, RecoverAsset
  <2>3. registry'.sourcePaid = registry.sourcePaid
    BY <1>4, <2>2 DEF CloseListing, RegistryRecords
  <2> QED BY <1>3, <2>1, <2>3
<1>7. ASSUME NEW u \in Users,
             \/ \E l \in Listings : SignOrder(u, l)
             \/ \E a \in Assets : ClaimBaseItem(u, a) \/ \E to \in Users : TransferItem(u, a, to)
      PROVE  MoneyInv'
  <2>1. UNCHANGED <<treasury, passes, cash, packs, protocol, root, registry>>
    BY <1>7 DEF SignOrder, ClaimBaseItem, TransferItem, controlVars
  <2> QED BY <1>3, <2>1
<1>8. CASE MarketNext
  BY <1>1, <1>5, <1>6, <1>7, <1>8, PurchaseKeepsCoins, TransfersKeepCoins DEF MarketNext, Transfer
<1>9. CASE UNCHANGED vars
  <2>1. UNCHANGED <<treasury, passes, cash, packs, protocol, root, registry>>
    BY <1>9 DEF vars
  <2> QED BY <1>3, <2>1
<1> QED BY <1>2, <1>8, <1>9 DEF Next

(* At first every coin is in a purse. *)
LEMMA MoneyStart == Init => MoneyInv
<1> SUFFICES ASSUME Init PROVE MoneyInv
  OBVIOUS
<1>1. /\ protocol.revenue = 0 /\ registry.sourcePaid = 0 /\ passes = {}
      /\ treasury.revenue = 0 /\ treasury.collected = 0
      /\ treasury.withdrawn = 0 /\ treasury.direct = 0
      /\ packs.revenue = 0 /\ packs.collected = 0
      /\ packs.withdrawn = 0 /\ packs.direct = 0
      /\ cash = [u \in Users |-> Purse]
  BY DEF Init, ControlInit, MarketInit, NoRevenue
<1>2. root.price \in Nat
  BY PriceAssumption DEF Init, ControlInit
<1>3. CoinsKept
  <2>1. \A u \in Users : cash[u] \in Int
    <3>1. Purse \in Int
      BY AmountAssumption
    <3>2. ASSUME NEW u \in Users PROVE cash[u] = Purse
      BY <1>1
    <3> QED BY <3>1, <3>2
  <2>2. PICK a \in Int : a = InPurses(cash)
    BY <2>1, NamesAssumption, SumIsInt, PursesAre
  <2>3. a + 0 + 0 + 0 = a
    OBVIOUS
  <2>4. InPurses([u \in Users |-> Purse]) = a
    BY <1>1, <2>2
  <2> QED BY <1>1, <2>2, <2>3, <2>4 DEF CoinsKept
<1>4. SharesCollected
  <2>1. root.price - Share(root.price, PrimaryBps) \in Int
    BY <1>2, ShareNat, PriceAssumption DEF Share
  <2>2. PICK rest \in Int : rest = root.price - Share(root.price, PrimaryBps)
    BY <2>1
  <2>3. Cardinality(passes) = 0
    BY <1>1, FS_EmptySet
  <2>4. 0 * rest = 0
    OBVIOUS
  <2>5. Cardinality(passes) * (root.price - Share(root.price, PrimaryBps)) = 0
    BY <2>2, <2>3, <2>4
  <2> QED BY <1>1, <2>5 DEF SharesCollected
<1> QED BY <1>3, <1>4 DEF MoneyInv

(* The registry counts what is listed and sold, treasuries collect what is   *)
(* theirs of every sale and pass and nothing else but what anyone deposits   *)
(* directly, and every coin there was at first is in a wallet or in a        *)
(* treasury, for any quotes, prices, deposits and number of users.           *)
THEOREM BooksAreTrue == Spec => []BooksAgree
<1>1. IInv /\ IInv' /\ MoneyInv /\ [Next]_vars => MoneyInv'
  BY MoneyStep
<1>2. IInv /\ MoneyInv => BooksAgree
  BY DEF IInv, MoneyInv, BooksAgree
<1> QED BY <1>1, <1>2, MoneyStart, Inductive, PTL DEF Spec
=============================================================================
