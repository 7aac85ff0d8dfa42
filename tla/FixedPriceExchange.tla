-------------------------- MODULE FixedPriceExchange --------------------------
(***************************************************************************)
(* What the market promises.  A good has one owner, who may put it up for  *)
(* sale at a price; while it is up it cannot be put up again or be passed  *)
(* on.  A buyer agrees to an offer at the price it reads, and gets the     *)
(* good for that price or not at all.  An offer is sold once or is taken   *)
(* back, and never comes up again.                                         *)
(***************************************************************************)
EXTENDS Naturals

CONSTANTS Users, Goods, Offers, Prices, None

VARIABLES
    owner,    \* the owner of each good
    offers,   \* every offer there may be
    agreed    \* the offer each user agreed to, at its price, or None

exchangeVars == <<owner, offers, agreed>>

Blank == [state |-> "fresh", good |-> None, seller |-> None, price |-> 0]

Up(o) == offers[o].state = "open"
ForSale(g) == \E o \in Offers : Up(o) /\ offers[o].good = g

ExchangeInit ==
    /\ owner \in [Goods -> Users \cup {None}]
    /\ offers = [o \in Offers |-> Blank]
    /\ agreed = [u \in Users |-> None]

PutUp(o) ==
    /\ offers[o] = Blank /\ UNCHANGED <<owner, agreed>>
    /\ \E g \in Goods, price \in Prices :
          /\ owner[g] \in Users /\ ~ ForSale(g)
          /\ offers' = [offers EXCEPT ![o] =
                [state |-> "open", good |-> g, seller |-> owner[g], price |-> price]]

ChangePrice(o) ==
    /\ Up(o) /\ UNCHANGED <<owner, agreed>>
    /\ \E price \in Prices : offers' = [offers EXCEPT ![o].price = price]

TakeBack(o) ==
    /\ Up(o) /\ UNCHANGED <<owner, agreed>>
    /\ \E how \in {"canceled", "recovered"} : offers' = [offers EXCEPT ![o].state = how]

Agree(u, o) ==
    /\ Up(o) /\ u # offers[o].seller /\ UNCHANGED <<owner, offers>>
    /\ agreed' = [agreed EXCEPT ![u] = [offer |-> o, price |-> offers[o].price]]

Buy(u, o) ==
    /\ Up(o) /\ u # offers[o].seller
    /\ agreed[u] = [offer |-> o, price |-> offers[o].price]
    /\ owner' = [owner EXCEPT ![offers[o].good] = u]
    /\ offers' = [offers EXCEPT ![o].state = "settled"]
    /\ agreed' = [agreed EXCEPT ![u] = None]

PassOn(g) ==
    /\ ~ ForSale(g) /\ UNCHANGED <<offers, agreed>>
    /\ \E to \in Users : owner' = [owner EXCEPT ![g] = to]

ExchangeNext ==
    \/ \E g \in Goods : PassOn(g)
    \/ \E o \in Offers : \/ PutUp(o) \/ ChangePrice(o) \/ TakeBack(o)
                         \/ \E u \in Users : Agree(u, o) \/ Buy(u, o)

ExchangeSpec == ExchangeInit /\ [][ExchangeNext]_exchangeVars
=============================================================================
