---------------------------- MODULE MCMakerMarket ----------------------------
(* One Soul, and two copies of one base item for two holders to claim.    *)
EXTENDS MakerMarket, TLC

CONSTANTS ann, bob, soul, gear, spare

MCLaneOf == (soul :> Soul) @@ (gear :> EquipmentBase) @@ (spare :> EquipmentBase)
MCHolderOf == (soul :> ann) @@ (gear :> None) @@ (spare :> None)

\* Listing objects are interchangeable until they are created, and so are the
\* copies of a base item until they are claimed.
MCSymmetry == Permutations(Listings) \cup Permutations({gear, spare})

\* A Maker that gives access away and one that sells it. With the first, base
\* items are traded, at two prices; with the second the Soul is, while anybody
\* deposits, once, and the protocol is switched on again. Control always is.
Gifted == protocol.direct + treasury.direct + packs.direct
Untouched(a) == items[a].epoch = 0 /\ items[a].at = HolderOf[a]
Apart ==
    IF root.price = 0
    THEN /\ Untouched(soul)
         /\ protocol.revision < 2
         /\ Gifted = 0
    ELSE /\ Gifted <= MaxDirect
         /\ Untouched(gear) /\ Untouched(spare)
         /\ \A l \in Listings : listings[l].quote.gross # 41
=============================================================================
