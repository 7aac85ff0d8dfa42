--------------------------- MODULE MCMakerComplete ---------------------------
(* Three Makers: one of base items, whose parts hold two; one an external   *)
(* product was made for; one with a Pack that is sold, with free quotas.    *)
EXTENDS MakerComplete, TLC

CONSTANTS ann, bob, hat, spare, gem, pack, mine, hers, one, two, three, head

MCPartOf == [x \in Items \cup Packs |-> head]

\* Only what is worn or dressed is worth handing on.
MCMoves == [x \in Items \cup Souls |-> IF x \in {two, three} THEN 0 ELSE 1]

MCFree == [mode |-> Free, price |-> 0, quota |-> 0, cap |-> 0]
MCOnce == [mode |-> QuotaThenBlock, price |-> 0, quota |-> 1, cap |-> 0]
MCThenPaid == [mode |-> QuotaThenPaid, price |-> 10, quota |-> 1, cap |-> 0]
MCSold == [mode |-> Paid, price |-> 10, quota |-> 0, cap |-> 1]

MCPlan == [assetized |-> FALSE, capacity |-> 1, access |-> Free, price |-> 0, fixed |-> 0,
           base |-> MCFree, pack |-> MCFree, stock |-> {mine, hers}]

MCPlans == {
    [MCPlan EXCEPT !.assetized = TRUE, !.capacity = 2, !.base = MCOnce,
                   !.stock = @ \cup {hat, spare, one, two}],
    [MCPlan EXCEPT !.stock = {mine, gem, one}],
    [MCPlan EXCEPT !.base = MCThenPaid, !.pack = MCSold, !.access = Paid, !.price = 10,
                   !.fixed = 2, !.stock = @ \cup {pack, two, three}]}

MCSymmetry == Permutations(Souls \ Dressed) \cup Permutations(BaseItems) \cup Permutations(Players)

\* Anybody deposits, once, where the Maker is one that takes money otherwise,
\* and beside one loadout.
Gifted == protocol.direct + treasury.direct + TotalOf([p \in Packs |-> tills[p].direct])
GiftsApart ==
    \/ Gifted = 0
    \/ Gifted = MaxDirect /\ terms.access = Paid /\ \E l \in Players : players[l] = None
=============================================================================
