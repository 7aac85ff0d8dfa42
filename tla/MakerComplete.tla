----------------------------- MODULE MakerComplete -----------------------------
(***************************************************************************)
(* Completion: a holder turns what a Player loadout wears into an output   *)
(* and a Soul.  The call proves every selection anew, counts one more      *)
(* completion for the holder with the Maker and with each Pack that is     *)
(* worn, pays both, and mints.  Sessions, authorizations and proofs have   *)
(* no abilities, so that all of it is one transaction or nothing.          *)
(*                                                                         *)
(* What the wallet signs was quoted before: a page reads the counters and  *)
(* splits exact coins.  Until the transaction lands, other completions of  *)
(* the same or of another holder may move the ordinals and the caps.       *)
(***************************************************************************)
EXTENDS MakerWardrobe, FiniteSets, FiniteSetsExt

VARIABLES
    counts,    \* completions of the Maker and of each Pack: in total, by wallet
    quoted,    \* what each user's page has last quoted, or None
    receipts   \* the CompleteReceiptV8 each Soul was minted with, or None

completeVars == <<counts, quoted, receipts>>
vars == <<protocol, root, admin, treasury, passes, cash,
          terms, product, packs, packPasses, tills, items, players, souls, binding, worn,
          counts, quoted, receipts>>

Base == "base"
Lines == {Base} \cup Packs        \* what a completion may be charged for
ASSUME LinesAssumption == Base \notin Packs

Charges(lines) == [lines -> [ordinal : Nat, gross : Nat]]
ASSUME ReceiptAssumption ==
    \A plan \in Plans, lines \in SUBSET Lines :
        None \notin [holder : Users, lines : Charges(lines),
                    recipe : [Parts \X (1..plan.capacity) -> Selections \cup {None}]]
ASSUME FiniteAssumption == IsFiniteSet(Users) /\ IsFiniteSet(Packs) /\ IsFiniteSet(Souls)

PricingOf(x) == IF x = Base THEN terms.base ELSE terms.pack

Init ==
    /\ ControlInit /\ WardrobeInit
    /\ counts = [x \in Lines |-> [total |-> 0, by |-> [u \in Users |-> 0]]]
    /\ quoted = [u \in Users |-> None]
    /\ receipts = [s \in Souls |-> None]

-----------------------------------------------------------------------------
(* Prices. *)

(* Mutant: one more than the quota is free. *)
PriceOnePastQuota(x, ordinal) ==
    LET pricing == PricingOf(x)
    IN IF pricing.mode = Free \/ (pricing.mode # Paid /\ ordinal <= pricing.quota)
       THEN 0 ELSE pricing.price

\* complete_price_for_ordinal, of Output and of Runtime
PriceFor(x, ordinal) ==
    LET pricing == PricingOf(x)
    IN IF pricing.mode = Free \/ (pricing.mode # Paid /\ ordinal < pricing.quota)
       THEN 0 ELSE pricing.price

\* assert_total_cap (0: no cap) and the block of a spent quota
Open(x, ordinal) ==
    /\ PricingOf(x).cap # 0 => counts[x].total < PricingOf(x).cap
    /\ PricingOf(x).mode = QuotaThenBlock => ordinal < PricingOf(x).quota

\* The protocol's share of a line: nothing of nothing.
ShareOf(gross) == IF gross = 0 THEN 0 ELSE Share(gross)

-----------------------------------------------------------------------------
(* A completion. *)

UsedPacks(l) == {worn[l][k].subject : k \in {i \in WornAt(l) : worn[l][i].source = "pack"}}
LinesOf(l) == {Base} \cup UsedPacks(l)

\* prove_base_selection_v8
ProvenBase(l, k) == worn[l][k] = Selection("base", MakerPass, 0) /\ ~ terms.assetized

\* The item is still locked to this place, at the epoch it was put on with.
StillLocked(l, k, a) == /\ items[a].lock = [loadout |-> l, place |-> k]
                        /\ worn[l][k] = Selection(SourceOf(a), a, items[a].epoch)

\* prove_owned_base_selection_v8
ProvenOwnedBase(u, l, k) ==
    terms.assetized /\ \E a \in BaseItems : Has(u, a) /\ StillLocked(l, k, a)

\* prove_external_selection_v8
ProvenExternal(u, l, k) == \E a \in ExternalItems : Accessible(u, a) /\ StillLocked(l, k, a)

\* prove_pack_selection_v8
ProvenPack(u, l, k) ==
    \E p \in Packs : /\ worn[l][k] = Selection("pack", p, 0)
                     /\ PackLive(p) /\ u \in packPasses[p]

\* seal_ordered_selection_proofs_v8: every selection proven, no part bare.
Sealable(u, l) ==
    /\ u \in passes /\ players[l] = u
    /\ \A k \in WornAt(l) : \/ ProvenBase(l, k) \/ ProvenOwnedBase(u, l, k)
                            \/ ProvenExternal(u, l, k) \/ ProvenPack(u, l, k)
    /\ \A part \in Parts : \E k \in WornAt(l) : k[1] = part

\* What u's next completion of loadout l costs, line by line:
\* quote_base_complete_v8, and the same for each Pack that is worn.
LineFor(x, u) == [ordinal |-> counts[x].by[u], gross |-> PriceFor(x, counts[x].by[u])]
Payment(x, line) == line.gross + (IF x = Base THEN terms.fixed ELSE 0)
Quote(u, l) == [x \in LinesOf(l) |-> Payment(x, LineFor(x, u))]

\* A page quotes what it is about to complete; nothing on chain changes.
ReadQuote(u, l) ==
    /\ l \in Players /\ Sealable(u, l)
    /\ \A x \in LinesOf(l) : Open(x, counts[x].by[u])
    /\ quoted' = [quoted EXCEPT ![u] = Quote(u, l)]
    /\ UNCHANGED <<controlVars, wardrobeVars, counts, receipts>>

\* What a quote, a share of each line, or the purses of all come to.
TotalOf(f) == MapThenSumSet(LAMBDA x : f[x], DOMAIN f)

(* Mutant: the counter of a used Pack is not moved. *)
CountBaseOnly(u, lines) ==
    counts' = [counts EXCEPT ![Base].total = @ + 1, ![Base].by[u] = @ + 1]

\* mutate_base_counter and authorize_pack_complete_line_v8
Count(u, lines) ==
    counts' = [x \in Lines |-> IF x \notin lines THEN counts[x]
                               ELSE [total |-> counts[x].total + 1,
                                     by |-> [counts[x].by EXCEPT ![u] = @ + 1]]]

Residual(line) == line.gross - ShareOf(line.gross)

\* settle_paid_pack_complete_line_v8, consume_free_pack_complete_line_v8: each
\* Pack is left what its line is over the protocol's share.
SettlePacks(charged) ==
    tills' = [p \in Packs |-> IF p \in DOMAIN charged /\ charged[p].gross > 0
                              THEN Deposited(tills[p], Residual(charged[p])) ELSE tills[p]]

\* settle_base_payment: the shares and the fixed fee are the protocol's, the
\* rest of the base line is the Maker's.
Settle(u, charged) ==
    LET paid == TotalOf([x \in DOMAIN charged |-> Payment(x, charged[x])])
        shares == TotalOf([x \in DOMAIN charged |-> ShareOf(charged[x].gross)])
    IN /\ \A x \in DOMAIN charged : charged[x].gross > 0 => Shareable(charged[x].gross)
       /\ cash[u] >= paid
       /\ cash' = Credit(cash, u, - paid)
       /\ protocol' = [protocol EXCEPT !.revenue = @ + shares + terms.fixed]
       /\ IF Residual(charged[Base]) > 0 THEN Deposit(Residual(charged[Base]))
          ELSE UNCHANGED treasury
       /\ SettlePacks(charged)

\* finish_complete: what the frozen receipt says.
Receipt(u, l, charged) == [holder |-> u, lines |-> charged, recipe |-> worn[l]]

\* bind_native_soul_v8, in the transaction that mints Soul s
BindSoul(u, s, receipt) ==
    /\ s \in terms.stock /\ souls[s] = None
    /\ souls' = [souls EXCEPT ![s] = [owner |-> u, epoch |-> 0]]
    /\ receipts' = [receipts EXCEPT ![s] = receipt]

(* Mutant: the completion is charged what it costs by now. *)
CompleteAtCurrentPrice(u, l, s) ==
    LET charged == [x \in LinesOf(l) |-> LineFor(x, u)]
    IN /\ root.lifecycle = Active /\ CatalogCurrent
       /\ l \in Players /\ Sealable(u, l)
       /\ quoted[u] # None
       /\ \A x \in LinesOf(l) : Open(x, counts[x].by[u])
       /\ Count(u, LinesOf(l))
       /\ Settle(u, charged)
       /\ BindSoul(u, s, Receipt(u, l, charged))
       /\ UNCHANGED <<root, admin, passes, terms, product, packs, packPasses,
                      items, players, binding, worn, quoted>>

\* begin_complete_v8, append_paid_ and append_free_pack_complete_v8,
\* finish_unprotected_complete_v8 and bind_native_soul_v8, with the coins of
\* the page's quote. The quote stays: another tab may have signed it too.
Complete(u, l, s) ==
    LET charged == [x \in LinesOf(l) |-> LineFor(x, u)]
    IN /\ root.lifecycle = Active /\ CatalogCurrent
       /\ l \in Players /\ Sealable(u, l)
       /\ quoted[u] = Quote(u, l)
       /\ \A x \in LinesOf(l) : Open(x, counts[x].by[u])
       /\ Count(u, LinesOf(l))
       /\ Settle(u, charged)
       /\ BindSoul(u, s, Receipt(u, l, charged))
       /\ UNCHANGED <<root, admin, passes, terms, product, packs, packPasses,
                      items, players, binding, worn, quoted>>

Next ==
    \/ ControlNext /\ UNCHANGED <<wardrobeVars, completeVars>>
    \/ WardrobeNext /\ UNCHANGED completeVars
    \/ \E u \in Users, l \in Players :
          ReadQuote(u, l) \/ \E s \in Souls : Complete(u, l, s)

Spec == Init /\ [][Next]_vars

-----------------------------------------------------------------------------
Minted == {s \in Souls : receipts[s] # None}
ReceiptsOf(x) == {s \in Minted : x \in DOMAIN receipts[s].lines}
ReceiptsTo(x, u) == {s \in ReceiptsOf(x) : receipts[s].holder = u}
Earned(x) == TotalOf([s \in ReceiptsOf(x) |-> Residual(receipts[s].lines[x])])
Sold(holders, price) == Cardinality(holders) * (price - ShareOf(price))

\* A wallet's completions of a line are numbered without a gap.
Numbered ==
    \A x \in Lines :
        /\ counts[x].total = Cardinality(ReceiptsOf(x))
        /\ \A u \in Users :
              {receipts[s].lines[x].ordinal : s \in ReceiptsTo(x, u)}
                  = {n \in 0..Cardinality(Souls) : n < counts[x].by[u]}

\* What the Maker and each Pack ever collected is what was paid for, and what
\* deposits that are no such payment brought.
Collected ==
    /\ treasury.collected = Earned(Base) + Sold(passes, root.price) + treasury.direct
    /\ \A p \in Packs :
          tills[p].collected
              = Earned(p) + (IF terms.access = Paid THEN Sold(packPasses[p], terms.price) ELSE 0)
                    + tills[p].direct

\* Every coin there was at first is in a wallet or in a treasury.
CoinsKept ==
    TotalOf(cash) + protocol.revenue + treasury.revenue + TotalOf([p \in Packs |-> tills[p].revenue])
        = TotalOf([u \in Users |-> Purse])

(* The counters, the treasuries, the wallets and the receipts tell one
   story: a wallet's completions are numbered without a gap, the totals are
   the receipts there are, what the Maker and each Pack ever collected is
   what the receipts and the passes say was paid and, above that, nothing but
   direct deposits, and no call makes or loses a coin. *)
ReceiptsAgree == Numbered /\ Collected /\ CoinsKept

(* No wallet has more free completions than its quota, a spent quota blocks
   where it should, and no line is completed more often than its cap,
   whatever the pages quoted. *)
QuotaKept ==
    \A x \in Lines :
        /\ PricingOf(x).cap # 0 => Cardinality(ReceiptsOf(x)) <= PricingOf(x).cap
        /\ PricingOf(x).mode \in {QuotaThenPaid, QuotaThenBlock} =>
              \A u \in Users :
                 Cardinality({s \in ReceiptsTo(x, u) : receipts[s].lines[x].gross = 0})
                     <= PricingOf(x).quota
        /\ PricingOf(x).mode = Paid => \A s \in ReceiptsOf(x) : receipts[s].lines[x].gross > 0

(* Soul s is minted for what its holder's page quoted. *)
ChargedAsQuoted(s) ==
    LET u == receipts'[s].holder
    IN /\ cash' = Credit(cash, u, - TotalOf(quoted[u]))
       /\ DOMAIN receipts'[s].lines = DOMAIN quoted[u]
       /\ {p \in Packs : \E k \in Places : receipts'[s].recipe[k] = Selection("pack", p, 0)}
             = DOMAIN quoted[u] \ {Base}

(* What a page quoted is what its user pays: a completion charges that much
   and nobody else, and the Packs it pays are those its recipe uses. *)
CompleteAsQuoted ==
    [][\A s \in Souls : receipts'[s] # receipts[s] => ChargedAsQuoted(s)]_vars
=============================================================================
