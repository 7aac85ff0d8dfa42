# Animacraft in TLA+

TLA+ models of Animacraft's stateful core, TLC runs over small instances of
them, and TLAPS proofs for every value of the constants. Paths are relative to
the repository; lines refer to the commit this directory was written for. The
line of code each definition stands for is in `PROJECT.json` under `map`, the
hazards the properties are aimed at under `hazards`.

Animacraft is a browser client and a set of Sui Move packages. The chain runs
one entry call at a time, so its difficulty is in long sequences of legal
calls. The client has no server: every page holds its own controllers, all pages
share IndexedDB, the wallet is asked for a signature and may answer late or not
at all, and a signed transaction may execute until its last epoch is over. Its
difficulty is that nobody ever knows everything: what the wallet did, whether
the fullnode got the bytes, what another tab has written since.

Contents: [the system](#the-system), [modules](#modules-and-code),
[runs](#runs), [fairness](#fairness), [proofs](#proofs),
[findings](#findings), [abstractions](#abstractions),
[not modelled](#not-modelled-and-why), [plan](#plan).

## The system

### Components that are modelled, in full or in part

**Recovery write-ahead log** (`maker-v8-recovery.js`). State: per Maker Root one
*active record* (revision, state, plan, signed artifact, lease, attempt,
broadcast count, last query) and three archives: completion receipts by action
identity, finalized failures and expirations by digest. Operations: `prepare`,
`discardUnsigned`, `requestSignature`, `reclaimAwaitingSignature`, `recover`,
`cleanupVerified`, each a sequence of awaits around `compareAndSwap`, which is
judged by `assertMakerV8RecoveryPersistenceCommit`. Hard: two pages between a
read and a write, a page dying with a prompt open, lost submissions, an absence
that is not one yet. Correct when: the bytes sent are in the log first; signed
bytes leave it only for an archive, under the outcome they really had; an action
succeeds at most once; no request or doubt lasts for ever.

**Market recovery adapter and controller** (`maker-v8-market-controller.js`).
State: the IndexedDB stores behind the log, and the evidence of a dry run held in
memory. Operations: `read`, `compareAndSwap`, and the page's calls into the log.
Hard: a commit is one IndexedDB transaction over four stores; evidence may be
older than the record it is used for. Correct when: every write the controller
proposes is one the store admits, and one that lost a race writes nothing.

**Market actions and canonical transactions** (`maker-v8-market.js`,
`maker-v8-chain.js`, `maker-v8-actions.js`). Building of transactions and the
terms a buyer signs. Correct when: what lands is what was signed.

**Mainnet query and broadcast boundary** (`maker-v8-browser.js`,
`maker-v8-rpc-deadline.js`, `maker-v8-sui-grpc.js`). `queryTransaction` reads a
digest, then a checkpoint watermark, then the digest again;
`broadcastExactTransaction` reports acceptance or ambiguity. Correct when: an
absence is never reported beyond what the second read shows.

**Player action log** (`maker-v8-player-controller.js`,
`maker-v8-player-adapters.js`). State: a durable record per prepared
transaction, and two indices, by scope and by Root and signer, naming the active
one. Operations: `preparePlayerAction`, `executePlayerAction`,
`recoverPlayerAction`, `getPlayerAction`, `reclaimPlayerSignatureIntent`, and the
store's `create` and `compareAndSwap`. Hard: tabs, crashes, late answers, and
callers that ask again about what is finished. Correct when: as for the recovery
log, and one Root and signer have one unsettled action, which the indices name.

**Publication store** (`maker-v8-publication-store.js`). State: per attempt a
plan with a cursor at its next ordinal, the checkpoints of the finalized
ordinals, an append-only list of events for each ordinal, counters of all
events. Operations: `createAttempt`, `compareAndSwap`,
`repairUnsignedOwnedReference`, `deleteUnsigned`, `restoreAttempt`. Hard: reads
check only an anchor (the plan, the last checkpoint, the last events), while
export, import and the garbage collection audit the whole log
(`validateBundleClosure`), so that one admitted write that breaks it goes unseen
until the attempt cannot be exported and nothing in the store be collected;
histories have limits, and a transaction in flight must not be stranded at one.
Correct when: the audit never fails; the outcome of what was signed can always
be written; evidence is only added.

**Publication controller** (`maker-v8-publication-controller.js`). Operations:
`prepare`, `discardUnsigned`, `resume`, `requestSignature`, `recover`,
`replayExact`, in any number of tabs without a lock. Hard: each build has a
nonce, so two tabs hold different bytes for one step; a tab dies between sending
bytes and the write that says so. Correct when: every step of a publication
succeeds once, in order, and no success is lost from the log.

**Lifecycle controller and log** (`maker-v8-lifecycle.js`,
`maker-v8-lifecycle-adapters.js`). State: of each scope (one action of one Root
by one signer) the one id at its head; a signature intent while a prompt is open;
a record per signed transaction. Operations: prepare, `requestSignature`, the
three ways to recover, the release of an intent. Hard: an id is a hash of the
bytes, so that a build may come back under the id of one that has failed; a
prompt's answer may come after its intent was released. Correct when: the head
names what is open, one transaction of a scope is in flight, and a doubt ends.

**Draft store** (`maker-v8-draft-store.js`). State: drafts with the bytes of
their assets, the versions of their last revisions, and blobs by content hash
that all versions of all drafts share. Operations: create, import, save, save
with assets, replace, restore, successor, delete; each reads a snapshot, checks
its hashes, and then writes in a second IndexedDB transaction. Hard: pruning one
draft deletes blobs that a save of another is about to name; two tabs. Correct
when: a revision can be restored with the bytes it was saved with, and no save
overwrites what its caller has not read.

**Walrus uploads** (`maker-v8-walrus.js`). State: a record per blob and one per
batch, each going through a registration and a certification, both signed
transactions; the claim of a record by a batch. Operations: prepare, claim, sign,
recover, for one record or a batch; those on a batch run under a cross-tab lock,
those on a record do not. Hard: storage is paid for by one transaction and used by steps long after
it; wallets answer late, or submit by themselves. Correct when: no blob is paid
for twice, what was paid for is never lost sight of and is stored in the end.

**Wallet adapter** (`maker-v8-dapp-kit-wallet.js`). The result of a prompt:
exact signature, definitive rejection, or doubt.

**Maker root, control and treasury** (Move core: `maker_v8`, `treasury_v8`,
`protocol_config_v8`, `activation_v8`). State: `MakerRootV8` (lifecycle, owner,
control epoch), the one `MakerAdminCapV8`, treasury, access passes, the
protocol's switch and revision. Operations: activate, pause, resume, archive,
transfer, access sale, withdrawal, the protocol's own calls, and deposits. Those
(`deposit_maker_revenue_v8`, `deposit_protocol_revenue_v8`, and the runtime's
`deposit_pack_revenue_v8`) are public and ask for no capability: companion
packages settle through them, and anyone with a coin may call them. Correct
when: there is always exactly one valid authority over a Maker, and every change
of owner makes earlier authority stale.

**Market** (Move `market_v8`). State: listings holding real objects, the registry
that counts them, the treasury every payment passes through. Operations: list,
purchase, cancel, recover, reprice, in lanes for control, Souls, Physical assets
and equipment. It calls into the core and the runtime for custody. Hard: a
purchase signed against a listing lands later; the protocol may be switched off
with goods in custody. Correct when: listings and custody agree exactly, what is
listed does not change under a buyer, the treasuries agree with what was sold,
and a seller can always get the object back.

**Assets and equipment** (Move `physical_v8`, `runtime_v8`). State: owner and
ownership epoch of each asset, the base item each address is on record for; the
external product and the Packs a Maker admits, with their passes and revenue;
loadouts and the equipment of Souls, and the lock of each item that is worn.
Operations: claim, mint, transfer, admit, revoke, select, equip, clear, unequip,
close. Hard: Maker, Pack, product and Soul change state by themselves while
things are worn. Correct when: a lock is exactly a worn place of the item's
holder, and whoever wears an item can take it off whatever has happened.

**Completion** (Move `output_v8`, `runtime_v8`). State: how often a Maker and each
Pack were completed, in total and by wallet; receipts. Operations: the quote a
page reads, and the transaction that proves every selection anew, counts, pays
and mints. Hard: the quote is older than the transaction. Correct when: counters,
treasuries and receipts agree, quotas and caps hold, and one pays what was quoted.

### Components that are not modelled

| component | state and operations | what makes it correct |
|---|---|---|
| Publication transport, transaction builders, import and export | encoding of each step; a snapshot of the log carried to another device | a published Maker is the one planned |
| Pack publication | a second engine of exact signatures for expansion packs, over a store of its own, with another expiry rule | as for the publication controller; expiry never releases bytes that may execute |
| Pack compiler, controller | editing state and pure compilation | compilation is deterministic |
| Player journey, native content, export | a sequence of Player actions and uploads, with encrypted content between them | content is released only after its action succeeded |
| Seal, protected content | key policies, encrypted reads | cryptography and identity derivation |
| Compiler, document, attestation | pure functions over large records | determinism, agreement with what the chain returns |
| User interface | views, routing, translation | - |
| Registries and package bindings (Move) | definitions fixed before activation, one-time bindings | nothing is bound twice |
| Release (Move) and scripts | a log of the Mainnet release, run by one operator under a lock | a restart does not repeat a step |

The user interface appears as an arbitrary caller: any operation at any time its
guard allows.

### How they interact

    page 1 ─┐  operations   ┌───────────────────────┐  compareAndSwap  ┌───────────┐
    page 2 ─┴─────────────▶ │ recovery / Player     │ ───────────────▶ │ IndexedDB │
                            │ controller (per page) │ ◀─────────────── │ (shared)  │
                            └──┬────────┬────────┬──┘      read        └───────────┘
                   prompt      │        │ query  │ submit
                   ┌───────────▼┐   ┌───▼────────▼───┐  executes at most once,
                   │ wallet     │   │ bound fullnode │  within the epoch window
                   └────────────┘   └───────┬────────┘
                                            ▼
                        Move: market ── custody, payment ──▶ core, runtime, physical

The publication, lifecycle and upload controllers stand where the recovery and
Player controllers do, each over a log of its own. `MakerRecovery`,
`PlayerAction`, `MakerPublication`, `LifecycleLog` and `WalrusUpload` have the
upper part with an abstract chain: a digest executes at most once, with success
or failure. `MakerMarket` has the lower part and stands for the client by the
orders buyers have signed; `MakerComplete` has it for what is worn and
completed, and stands for the client by what its pages have quoted. Both
compose their part with `MakerControl`. Drafts stay in the browser.

## Modules and code

| module | models |
|---|---|
| `RecoveryStore` | the store's own check: active record, archives, `Admits` with one `Admits...` per arm of `assertMakerV8RecoveryPersistenceCommit`, `Put` for what the adapter writes with it |
| `MakerRecovery` | the controller in several pages, the wallet, the fullnode and the chain, EXTENDS `RecoveryStore` |
| `SingleFlight` | abstract: one signed transaction in flight and a ledger of outcomes; no pages, no log, no messages |
| `MakerControl` | core: lifecycle, authority, treasury, access, protocol |
| `MakerMarket` | market and custody composed with `MakerControl`, which it EXTENDS; its `Next` interleaves both |
| `FixedPriceExchange` | abstract: goods with an owner, offers at a price, and buyers who agreed to one; no Maker, no protocol, no money, no custody |
| `PlayerAction` | the Player's log, its indices, and the controller in several tabs |
| `ActionLedger` | abstract: for one Root and signer, actions that are opened one at a time, given up unsigned or signed, and closed under the outcome they had |
| `PublicationStore` | the publication log: plans, checkpoints, events, and what each of its methods admits |
| `MakerPublication` | the publication controller in several tabs, the wallet, the fullnode and the chain, EXTENDS `PublicationStore` |
| `PublicationSequence` | abstract: the transactions of an attempt, one in flight at a time, each followed by the next only when it has succeeded |
| `LifecycleLog` | the lifecycle controller in several tabs with its log, the wallet and the chain; implements `SingleFlight` for each scope |
| `DraftStore` | the drafts, their history and the shared blobs, written by several tabs |
| `DraftArchive` | abstract: whole copies of the last revisions of each draft; no blobs, no snapshots, no tabs |
| `MakerWardrobe` | what is worn: items, Packs, loadouts, equipment and locks, EXTENDS `MakerControl` |
| `MakerComplete` | quotes and completions over `MakerWardrobe`, which it EXTENDS; its `Next` interleaves all three |
| `WalrusUpload` | the upload publisher in several tabs, its store, the wallet, the relay and the chain |
| `BlobPurchase` | abstract: storage of a blob is bought once, then certified, then reported complete |
| `MC...` | instances for TLC |
| `...Proofs` | theorems about the module they are named after |

### RecoveryStore

`active` is the record. A plan, with its transaction digest and canonical bytes,
is one model value; `IdentityOf` gives its immutable action identity,
`Expiration` its last valid epoch. Whether a signed artifact is present follows
from the state (`SignedState`), as `assertRecord` in the code demands.
`receipts`, `failures`, `expirations` are the archives. The clock appears only
where the code compares it: `leaseOver` says that `leaseUntilMs` has passed, and
revisions order the writes. `SameAttempt`, `NextAttempt` and `AllowedTransition`
are the code's tables; the archives are written in the same IndexedDB
transaction as the record, hence in the same step.

### MakerRecovery

`op[s]` is where page `s` stands in the operation it is running, with what it
read before the await: the revision, the plan and the watermark. Each await is a
step of its own, except a load directly followed by a `compareAndSwap` of what
was loaded: that pair commits exactly when the record did not change, so it is
one step.

| operation | actions |
|---|---|
| dry run, `prepare` | `DryRun`, `CheckArchives`, `Prepare` (create or replace), `DropEvidence` |
| `discardUnsigned` | `DiscardUnsigned` |
| `requestSignature` | `RequestSignature`, `WalletSigns` / `WalletFails`, `PersistSignature` |
| `reclaimAwaitingSignature` | `AskNoArtifact`, `ReclaimAwaitingSignature` |
| `recover`: query | `StartRecover`, `FirstRead`, `ReadWatermark`, `SecondRead`, `QueryFails` |
| `recover`: outcome | `ArchiveFailure`, `SaveSuccess`, `SavePending`, `SaveNotFound`, `Verify`, `ReadbackFails`, `Expire`, `LeaveNotFound` |
| `recover`: replay | `MarkBroadcasting`, `Broadcast`, `Acknowledge`, `BroadcastAmbiguous` |
| `cleanupVerified` | `CleanupVerified` |
| a conflict; a crash or a throwing callback | `LoseRace`; `Abandon` |
| the chain and time | `Execute`, `AdvanceEpoch`, `ClockPassesLease` |

`Abandon` also covers a `commitCas` whose readback does not match. The wallet may
sign after its request was reclaimed: the page then still stands at `wallet`,
and its `PersistSignature` meets a newer revision. The user's confirmation that
"no signed artifact exists" may be wrong; the late signature is then refused by
`compareAndSwap`, was never durable, and therefore was never sent.

### MakerControl and MakerMarket

Each action is one Move entry call, which the chain runs atomically; an abort is
a disabled action. `root`, `admin`, `treasury`, `protocol`, `passes` and `cash`
are the core's objects and the addresses' coins; `items`, `entitled`,
`listings`, `registry`, `till` and `packs` are the market's and the runtime's.
`admin.at` and `items[a].at` say who holds the object: an address or a listing.
`CatalogCurrent` is what remains of the family of "is the catalog / the
configuration current" assertions when everything pinned at genesis is constant:
enabled, and at the pinned revision. `orders[u]` is a purchase that `u` signed
against the listing's revision and price and that has not landed;
`PurchaseControl` and `PurchaseAsset` land it. The quote arithmetic
(`Quote`, `Share`) is the code's, in basis points with its floor and its
requirement that no fee rounds to zero. `DepositMaker`, `DepositProtocol` and, in
`MakerWardrobe`, `DepositPack` are the public deposits as calls of their own, by
anyone, at any moment at which the code takes them; `direct` of a treasury is a
history variable, what came in that way. So a treasury's amounts are what the
modelled sales, passes and completions brought it, and the deposits beside them.
Those stand for everything else that pays in as well: in the market's runs the
completions and mints of Output and Physical, in the wardrobe's the market's
royalties. Amounts stay far below 2^64, where the
Move code itself works in u128 before it narrows, so no width is modelled.

`FixedPriceExchange` is what the market promises of all this. Its `owner` is the
Root's owner and the holder of each asset, also in custody (`OwnerNow`), its
`offers` the listings without their books (`OfferedNow`), and `agreed` the orders
(`AgreedNow`). A listing is its `PutUp`, a reprice `ChangePrice`, a cancellation or
recovery `TakeBack`, `SignOrder` its `Agree`, a purchase `Buy`, a gift or a claim
`PassOn`; all else the Maker and the protocol do must be a stutter.

### PlayerAction

An action's id is the hash of its plan and digest, so its bytes are one model
value and signing twice signs the same bytes. `flow[t]` is the controller call
tab `t` is in, with the record it `held` across the await. `CompareAndSwap`
includes the rewrite of both indices (`Put`), as the adapter does in one
transaction. `Readable` is `assertActionRecord`: what it refuses, no later call
can read.

| operation | actions |
|---|---|
| `preparePlayerAction` | `Prepare`, `RetireUnsigned` |
| `executePlayerAction` | `Refresh`, `ReserveIntent`, `WalletRejects` / `WalletDoubtful` / `KeepSignature`, `Broadcast`, `AcceptBroadcast`, then the query |
| `recoverPlayerAction`, `getPlayerAction` | `StartRecover`, `QueryExact` / `QueryFails`, `SaveSuccess`, `ReadbackFails`, `SaveFailure`, `SaveExpired`, `SaveNotFound`, `StartReplay` |
| `reclaimPlayerSignatureIntent` | `ReclaimIntent` |
| a throw, a conflict, a closed tab | `Abandon` |
| the chain | `Execute`, `NextEpoch` |

`Rereads` is an assumption about callers, not about the code: whether anyone asks
again about an action that is already finished. `getPlayerAction` and
`executePlayerAction` let them; see the findings.

`ActionLedger` is what the log promises without its tabs, records and wallet. An
action's entry there is read off its record (`EntryOf`): open, signed, given up,
or closed as success, failure or expired. Of the ledger's steps the reservation of
an intent, broadcasts, queries that fail, crashes and conflicts are stutters.

### PublicationStore and MakerPublication

A plan is its cursor (`ordinal`, `outcome`, `digest`), its revision and its two
counters. `AppendEvent` is `compareAndSwap` with an event: the tables of
transitions (`Follows`, `CursorAllows`), the capacity of one ordinal's history
(`HasCapacity`) and of all of them (`HasReserve`), the new cursor (`Cursor`), and
the checkpoint if the event is a success, in one IndexedDB transaction.
`MoveCursor` is the same without an event. The blobs that a record names are
left out. In `MakerPublication`, `call[t]` is where tab `t` stands, with the plan
it read; every write names that plan's revision.

| operation | actions |
|---|---|
| `prepare`, `discardUnsigned` | `Prepare`, `DiscardUnsigned` |
| `inspect`, `resume` after a checkpoint | `StartSuccessor`, `PrepareSuccessor` |
| `coldAuthorize`, a moved owned object | `RepairReference` |
| `requestSignature`; `prepareReview` and `signReviewed` | `RequestSignature`, `SignReviewed`, `WalletRejects` / `KeepSignature` |
| `recover` | `StartRecover`, `AppendPending`, `QueryTransaction`, `AppendUnknown`, `AppendFailure`, `FinalizeSuccess` |
| `replayExact` | `StartReplay`, `Broadcast`, `AppendAccepted`, then the query |
| a throw, a conflict, a wallet in doubt, a closed tab | `Abandon` |
| the chain and the nonce's window | `Execute`, `Lapse` |

### LifecycleLog

A build is the scope, the version of the AdminCap it was simulated on and the
epoch it expires after: the same bytes have the same id, as in the code, where
the id is a hash. `active[s]` is the head of scope `s`, `records[b]` the status
of a signed record, `intents` the builds with an open prompt. `call[t]` is where
a tab stands; its `current` says that nobody has written since to the record or
the intent it holds, which is what the code's comparison of revisions and
sessions tells. A withdrawal leaves the authority as it is, but the AdminCap is an owned
argument of it as of the others, so that its version moves all the same: it is a
scope like any.

| operation | actions |
|---|---|
| prepare, `requestSignature` | `Prepare`, `ReserveIntent`, `PutSignedArtifact`, `HandleSignatureFailure` |
| reclaim | `Reclaim`, `ReleaseIntent` |
| recovery by ticket, by id, by Root | `Recover`, `QueryTransaction`, `Advance`, `CheckContext`, `ExecuteTransaction`, `Refused` |
| a throw, a conflict, a closed tab | `GiveUp` |
| the chain and time | `Land`, `UseElsewhere`, `NextEpoch` |

### DraftStore

A method is `Look` (the snapshot and its hashes) or `LookBack` (the same with a
version to restore), and then the write that compares what it read:
`CompareAndSwap`, `CompareAndSwapBundle`, `UpsertAsset`, `ReplaceBundle`,
`RestoreVersion`, `CreateSuccessor` or `Delete`; `CreateBundle` and
`ImportBundle` read nothing first; `GiveUp` is a refusal or a closed tab.
`Commit` is what every write ends with: new versions, blobs found by hash and
compared byte for byte (`Matching`, `BlobId`), and the pruning of the revision
that falls out of the history with the blobs nothing else names. `saved` is a
history variable, every revision as it was written.

`DraftArchive` is what all of this sharing must come to. A kept revision of the
store stands for a copy with its document, and with the rows put together from
its versions and the blobs they name (`Kept`, `RowsKept`); a missing blob would
show as `None`. Every method that writes is its `Write`: the next revision, or
the first under an id never used, with copies older than `MaxHistory` dropped and
all others untouched. A deletion is its `Discard`, reading a stutter; and `bytes`,
all that is stored, must be just what the copies have.

### MakerWardrobe and MakerComplete

One action is one transaction, as in `MakerMarket`. `items[a]` has the holder,
the ownership epoch, custody and the lock of an item; `worn[l][k]` is the
selection at place `k` of a Player loadout or of a Soul's equipment, with the
epoch at which it was made; `binding` says what the Maker has admitted.
`Lock`, `Install`, `ClearPlace` and `Release` are what the lanes share. `terms` is the plan a Maker was published
with, chosen in `Init`.

| operation | actions |
|---|---|
| items | `ClaimItem`, `MintItem`, `TransferItem`, `ListItem`, `ReturnItem`, `SellItem` |
| product and Packs | `SetProduct`, `AdmitProduct`, `RevokeProduct`, `SealPack`, `SetPack`, `AdmitPack`, `RevokePack`, `TakePackPass`, `WithdrawPack` |
| loadouts and equipment | `CreateLoadout`, `CreateEquipment`, `CloseEquipment`, `MoveSoul` |
| what is worn | `SelectBase`, `SelectPack`, `EquipOwnedBase`, `EquipExternal`, `UnequipOwnedBase`, `UnequipExternal`, `Clear` |
| completion | `ReadQuote` (the page), `Complete` (the transaction: `Proven...`, `Count`, `Settle`, `BindSoul`) |

### WalrusUpload

A job is what is signed for: the record of one upload, or the batch of a group.
`ENCODED` and `UPLOADED` are the state `ready` of the stages `register` and
`certify`. `claim[u]` is an upload's `batchKey`. Every write compares the job the
call read (`Swap`). `Exclusive` and `Busy` are the browser's lock, which only the
calls on a batch take.

| operation | actions |
|---|---|
| `prepare`, `prepareBatch` | `Prepare`, `ClaimBatch`, `DropReview` |
| build and sign one record | `Build`, `SignReviewed`, `KeepSignature`, `KeepReview` |
| sign a batch | `SignBatch`, `WalletRejects`, `KeepBatchSignature`, `WalletSends` |
| recover | `Resume`, `SaveFailure`, `Broadcast`, `SaveBroadcast`, `AdoptSignature`, `SaveRegistered`, `Store`, `SaveComplete` |
| a throw, a conflict, a closed tab | `Abandon` |
| the chain and the window | `Execute`, `Lapse` |

## Runs

Every run but `player_orphan` passes. State counts are approximate.

| run | instance | shows |
|---|---|---|
| `recovery_safety` | 2 pages, 2 builds of one action in successive epochs; 1.9M | `LiveBytesTracked`, `ArchivesAgreeWithChain`, `OutcomeNeverLost`, `OneSuccessPerIdentity`; the controller implements the store with any caller (`StoreNeverRefuses`) and `SingleFlight` (`OneTransactionInFlight`) |
| `recovery_liveness` | 1 page, 2 failures, fairness | `DoubtResolves`, `RequestResolves` |
| `market` | 2 users, control, a Soul and two copies of one base item, 2 listings, a change of owner, a reprice, the protocol off and on again, a direct deposit; 0.5M | `CustodyExact`, `SaleFrozen`, `ControlNeverLost`, `OneBaseItemPerHolder`, `BooksAgree`, `AlwaysReturnable`, `SaleAsSigned`, `DegradedForGood`; `SellsAsExchange`, the refinement of `FixedPriceExchange` |
| `player_log` | 2 tabs, actions of 2 scopes, no re-reads; 1.9M | `VerdictsTrue`, `OneUnsettledPerRoot`; `KeepsLedger`, the refinement of `ActionLedger` |
| `player_orphan` | 1 tab, 3 actions of 2 scopes, re-reads | the finding below |
| `publication_store` | any caller, 2 attempts of 2 ordinals, all limits small; 0.8M | `AuditPasses`, `OutcomeRecordable`, `EvidenceOnlyGrows` |
| `publication_steps` | 2 tabs, 2 attempts of one scope of 2 ordinals, 3 builds | `LogAgreesWithChain`, `OneSuccessPerOrdinal`; `OneTransactionInFlight`, the refinement of `PublicationSequence` |
| `publication_liveness` | 2 tabs, 1 build, fairness, 2 failures without an answer | `SuccessIsRecorded` |
| `lifecycle` | 2 tabs, 1 scope, 2 uses of the AdminCap, 3 epochs, fairness | `HeadsNameWhatIsOpen`, `DoubtResolves`; `OneInFlightPerScope`, the refinement of `SingleFlight` |
| `drafts` | 2 tabs, 2 drafts, 2 assets, 2 contents with one hash, an export; 0.3M | `RevisionDeterminesDraft`; `KeepsCopies`, the refinement of `DraftArchive` |
| `wardrobe` | 2 users, 3 plans: base items, an external product, a paid Pack, a direct deposit; 0.4M | `LocksExact`, `AlwaysReleasable`, `ReceiptsAgree`, `QuotaKept`, `CompleteAsQuoted` |
| `walrus` | 2 tabs, 2 uploads that are also a group, 2 builds, fairness; 50,000 | `PaidIsKept`, `PaidIsStored`; `BoughtOnce`, the refinement of `BlobPurchase` |

The bounds and why they are enough:

- **Two pages or tabs.** Conflicts are between the one that wrote last and one
  that read before; a third adds nothing that two in turn do not.
- **Recovery, two plans in successive epochs** (`Expiration` 1 and 2, `MaxEpoch`
  3), so the first may expire while the second is still valid, and both may be
  live. **`MaxRevision`, `MaxPoll`** stop new requests and queries of the log past
  a revision (`MaxPoll` while the digest is undecided, so that polling does not
  use up what settling needs). A build takes four to eight revisions from READY
  to an archive, with a second round after a failure; **`Allowance`** raises both
  by that much for each further attempt, so that both builds can be taken all the
  way. **`MaxAttempt`** 2 is one replacement.
- **`MaxFaults`** counts failures and crashes of recovery pages. The safety run
  allows none, to have room for two full attempts: a crash only leaves the record
  where some await left it, and a page that is merely slow does so too. The
  liveness run allows two, and the theorems any number.
- **Market**: 40 is the lowest price at which no fee rounds to zero, 41 the
  reprice; `Purse` 41 affords one purchase, and what was earned another; an access
  pass costs 20, and a withdrawal or a direct deposit is 18, so that a deposit may
  be what is withdrawn; one is made, into any of the treasuries;
  `MaxEpoch` and `MaxItemEpoch` 1 are a change of owner; `MaxRevision` 2 is the
  protocol off, and on again at a revision no Maker has pinned. The constraint
  `Apart` keeps two kinds of Maker apart, so that what cannot disturb each other is
  not multiplied: where access is free, control and the base items are traded, and
  repriced, while the protocol may be switched off; where it is sold, control and
  the Soul are, with the deposit and the protocol on again. Nothing of a Pack is
  for sale here, whose till only a deposit fills; the proofs cover the part
  of a price that goes to one.
- **Player**: a record's `MaxRevision` of 5 fits prepare, intent, signature,
  broadcast and outcome; of 7, in `player_orphan`, a doubt and a second outcome.
- **Publication**: in `publication_store` an ordinal's history takes 3 optional
  events and 6 in all (`SoftLimit`, `HardLimit`; 12 and 16 in the source), an
  attempt 7, of which 2 beyond the third of an ordinal (`MaxEvents`,
  `MaxExcess`): a refusal, a signature, its three events and a failure come to
  each of them. Three builds are two for one step and one more. `MaxRevision`
  stops retries; `MaxDoubts` bounds queries that fail.
- **Lifecycle**: `MaxVersion` 2 lets a build outlive the AdminCap it was simulated
  on, or be built again under the same id; 3 epochs let one expire and the next
  be built. Scopes share nothing but the AdminCap, and `UseElsewhere` is what the
  others do to it.
- **Drafts**: `MaxHistory` 2 (100 in the source) and three writes prune one
  revision of a draft; c1 and c2 have one hash, so the comparison by bytes is
  needed. Contents of different hashes, which only make a write simpler, are left
  to the theorems, which hold of any `Hash`.
- **Wardrobe**: one part, and places for two where a mistake could lock an item to
  the wrong one; each of the three plans has the objects its lane needs; quotas
  and caps of one, with two Souls to complete for. One direct
  deposit, into any of the treasuries, is made where the Maker takes money
  otherwise, and beside one loadout (`GiftsApart`).
- **Walrus**: two builds are two registrations that compete, or one and its
  certification; either of two uploads may be claimed away from its own call.

Direct deposits move coins and nothing else, and any number of them into any
treasury is left to `BooksAreTrue` and `ReceiptsAreTrue`.

Symmetry is used over pages or tabs, over unused listings, over builds and over
objects of one kind, which nothing tells apart; never in a run with temporal
properties that need fairness. Deadlock is not checked: a page may rest with
nothing to do, and the bounds stop counters.

## Fairness

`FairSpec` of `MakerRecovery`, for one page, assumes:

- weak fairness of `Continue`: a page that is open carries on after its awaits
  (each has a deadline in `maker-v8-rpc-deadline.js`, so it returns or fails);
- weak fairness of `AnswerPrompt` and `ReclaimAwaitingSignature`: a prompt is
  answered or refused in the end, and the reclaim that was confirmed is written;
- strong fairness of `StartRecover` and `AskNoArtifact`: a user with a pending
  log opens it again and again. Strong, because each failure takes the page out
  of the operation and so disables them for a while;
- weak fairness of `AdvanceEpoch` and `ClockPassesLease`: time passes.

Nothing is assumed of `Broadcast` reaching the network, of `Execute`, or of the
absence of failures but for their number, which `MaxFaults` bounds: with
failures for ever, nothing resolves, and the code does not claim it. Nothing
keeps two pages from alternating for ever, each making the other's
`compareAndSwap` conflict, so liveness is stated for one page. `Recovering` of `MakerPublication` assumes, for each tab, that a signed attempt
is asked for again and again, that its steps, which may be cut off any number of
times, are not cut off for ever, and that the node does not keep on missing an
outcome that is there (strong fairness of `Learn`). Nothing is assumed of the
wallet, the network or the chain: only what has succeeded is promised to be
recorded. Here two tabs may ask at once: they come to the same events, so that
one that loses a race finds its work done.

`LiveSpec` of `LifecycleLog` assumes that epochs pass, that in the tab `Home` the
steps of a call run on and the wallet answers, and that its user comes back to
what is in doubt (strong, since each call that ends without an outcome disables
it for a while; `MaxDoubts` bounds those). Other tabs may stop anywhere.

`LiveSpec` of `WalrusUpload` assumes that the user comes back to every job in one
tab, `Home` (strong fairness of `Resume`); that in each tab the steps after the
query may fail any number of times but not for ever (`Recovery`), as they depend
on a relay and a database that answer again; and that no call hangs for ever
(`Abandon`), as each await has a deadline. Nothing is assumed of the wallet or
the chain: what was paid for is stored, if anything was.

The market, completion, drafts and the Player have no fairness: nothing there
must happen, and the Player's controller waits for its user.

## Proofs

All theorems are for any number of pages, plans, users, listings and actions and
any value of the bounds, from the named assumptions on the constants only
(the types of the constant functions, basis points within 0..10000, bounds in
Nat, that `None` is no value it stands in for, that what drafts are imported from
are exports of drafts, and that the sets the code counts or sums over are finite:
`Listings` and `Users` of the market, and `Users`, `Packs` and `Souls` of the
completion, as every object and address of a chain is one of finitely many).

**MakerRecoveryProofs.** First the store alone, for any caller. `StoreInv` is type
correctness, that the record is absent or well formed, and `TerminalArchived`. It
is needed because a commit that archives takes the digest from the record it
replaces, which must be a signed one. From it: `StoreTyped`,
`TerminalIsArchived`, `SignedBytesKept`, `ArchivesOnlyGrow`.

Then the controller over it. `IInv` is `TypeOK`, `StoreInv`, `PageInv` of every
page and `RecordInv`.

- `PageInv(s)` is what page `s` may believe across an await. What it read is no
  newer than the record (`Behind`); if the record is still the one it read, it
  is in the state that operation needs (`CurrentRelies`); what it was told of
  the chain is true, or can only be out of date while the digest may still
  execute (`AnswerTrue`); a plan it found unarchived still is, if no revision has
  passed (`CheckedStillOpen`); what it is about to send is durable
  (`SendsDurable`).
- `RecordInv`: a record that is still open is of a plan with no archive entry
  (`RecordOpen`); bytes that were sent came from the log and are settled or still
  in it (`BytesAccounted`); the archives agree with the chain.

The properties by themselves are not inductive: that `Expire` archives only what
cannot execute needs `AnswerTrue` over the watermark, and that `Prepare` never
revives an archived digest needs `CheckedStillOpen`. There is one lemma per
action that it commits what the store admits (`...Commits`), and one that it
keeps the invariant (`...Keeps`). From it: `TypeCorrect`, `LiveBytesStay`,
`ArchivesTrue`, `OutcomeKept`, `DurableFirst`, `NoReplacementSignature`,
`AtMostOneSuccess`, `SignedKeptUntilSettled`, and the two refinements
`ControllerImplementsStore` and `OneInFlight`.

**MakerMarketProofs.** `IInv` is the conjunction of `TypeOK`, `CustodyExact`,
`ControlSaleFrozen`, `AssetSaleFrozen`, `SellersKnown`, `ControlNeverLost`,
`OneBaseItemPerHolder` and `RegistryAgrees`. They hold each other up: a return hands
the object to the recorded seller, which keeps custody exact only because the
frozen terms say that the seller is still its holder; that no call disturbs a
listed thing follows from custody, since every such call takes the object. From
it: a theorem for each, and `SoldAsSigned`, `DegradedStays`, `ControlMoves`.

`BooksAreTrue` is about money: the registry counts what is listed and its till is
empty between transactions, the treasuries of Maker and Packs have collected
their parts of the sales and passes and, above that, nothing but what somebody
deposited directly, and the coins in wallets and treasuries are those there were at
first. The last two are `MoneyInv`, an invariant of its own on top of `IInv`: what
a purchase takes from the buyer is what it pays out only because the quote's parts
add up and the till starts empty (`RegistryAgrees`). What the wallets hold is a sum
over all users, so that this rests on lemmas about `MapThenSumSet` (see
MakerWardrobeProofs for how they are proved without induction); what leaves one
place comes to another in `CreditMoves`, and there is one lemma for each call that
moves coins: a purchase, an access pass, a withdrawal, a direct deposit, and all
others, which do not.

`AlwaysTakenBack` proves what `AlwaysReturnable` says with `ENABLED` as a condition
on the state, `Returnable`: for every open listing the guards of the return and
of the closing hold. They are operators of their own (`CapInCustody`,
`InCustody`, `Escrowing`), so that the theorem names exactly what the actions ask
for. Of the returns, a cancellation asks besides that its sender is the seller,
and a recovery that the sale is off, and nothing else.

`MarketIsExchange` is the refinement of `FixedPriceExchange`. One lemma per call
says which step of the exchange it is, over three lemmas for what opening,
closing and settling a listing look like there. The steps that need the
invariant are those the exchange guards: what is put up is its seller's and not
up already, and what is passed on is not for sale, both because an object that
somebody holds is in no listing (`HeldAssetNotForSale`, `ControlNotForSale`);
and the price taken is the one agreed to (`Paying`).
The proofs cover all five asset lanes; the run instantiates two of them.

**PlayerActionProofs.** `IInv` is `TypeOK`, `FlowOK`, `RetiredUnsigned`,
`SentIsDurable` and `VerdictsTrue`. `FlowOK` is what a tab knows across an await
(`Knows`): the record it holds is the stored one if the revision is still its
own, and an answer it got is still the chain's, or an absence. From it:
`TypeCorrect`, `DurableBeforeSent`, `VerdictsHold`, `SignaturesStay`. Under
`Rereads = FALSE`, `Once` (no call holds a finished record; the Root's index
names an action exactly when it is unsettled) is inductive too, and gives
`OneUnsettled` and `FinishedForGood`. Without that condition both are false, as
two of the findings show.

`LogIsLedger` is the refinement of `ActionLedger`, under the same condition. Four
things have to be known of the steps that are not stutters there. An action that is
opened is the only one, since its Root's index was free (`Once`). One that is given
up is unsigned: that a record without signature cannot hide one is
`RetiredUnsigned`, and that a tab's write does not drop one is `FlowOK` with the
comparison of revisions. What executes was sent, hence signed (`SentIsDurable`).
And the outcome under which an action is closed is the one it had, or none if its
window is over (`VerdictsTrue`).

**MakerPublicationProofs.** First the store, for any caller. Its invariant is
`StoreTypeOK`, the parts of `AuditPasses` for every attempt id, and, to make them
inductive, `ReserveKept`: while a transaction is in flight, neither its ordinal's
history nor the attempt's counters are so far on that what its status still needs
would not fit. That the counters count the events, which is part of the audit, is
needed throughout: the store decides by the counters, the audit by the events.
`OutcomeRecordable` follows from it. From the invariant: the store's properties
for any caller, any limits and any number of attempts.

Then the controller. `IInv` adds to the store's `LogsPlaced` (every event is of a
build for that attempt and ordinal), `ChainTrue` (what is checkpointed has
succeeded, what failed has failed), `CallsKnow` (what a tab holds across an
await: its plan is the stored one if the revision is still its own, its digest
is signed there, its answer is the chain's or an absence), `BuildsApart` (a build
before a wallet is in no log) and `AbsentUnused`. `OneSuccessPerOrdinal` follows
because a second signature needs a cursor that says READY, hence a first one that
failed or was refused. From it: `TypeCorrect`, `SentDurable`, `OneSuccess`,
`LogTrue`, `SignedStays`; `ControllerUsesStore` (the controller implements the
store with any caller) and `PublishesInSequence`.

**LifecycleLogProofs.** `IInv` is `TypeOK`, `HeadsNameWhatIsOpen` and three parts
it needs: a call is about a build, and from its read on about one with a record
(`CallsOK`); an answer it got is the chain's, and LAPSED is only said of what can
no longer execute (`AnswersTrue`); so is every settled record, and what was sent
has one (`RecordsTrue`). There is one lemma per way a step changes calls and one
per action. From it: `TypeCorrect`, `HeadsExact`, and `Refinement`, that each
scope implements `SingleFlight`.

**DraftStoreProofs.** Every write is shown to be a commit of a revision that
`Fits`: the first of an id never used, or the next one, with the rows it changes
renumbered; `DraftInv` is preserved by any such write. It adds to the properties
that nothing kept, read or saved is ahead of its draft (`Past`, `Ids`), that a
blob's name tells the hash of its bytes or the write that made it (`BlobsNamed`),
and that a draft's rows are those of its last save (`RowsGrow`). From it:
`TypeCorrect`, `RevisionsKeepTheirBytes`, `NothingUnseenOverwritten`, and
`AssetRevisionsName`: one revision of one asset never stands for two contents.

`StoreIsArchive` is the refinement of `DraftArchive`. Two more facts are needed,
`KeepInv` with them: every version is of a revision that is kept
(`VersionsKept`), without which bytes would be stored that no copy has, and what is
kept of a draft are revisions above its last less `MaxHistory` (`Window`), without
which pruning the one revision that falls out would not be pruning all that are
too old. A write then leaves each other copy as it was (`CopiesStay`: its versions
stay, and a blob that is still named keeps its bytes), and the new one is the copy
of what was written (`CopyIsNew`), also where two contents have one hash.

**WalrusUploadProofs.** `IInv` is `TypeOK`, `ExecutedWasSent` and five parts.
`JobsSound`: what the status of a job says of its transactions (`Shaped`), and
that those it names were built for it, its registration a success (`Traced`).
`ClaimsSound`: a batch keeps all its members, which have nothing signed of their
own. `SentTracked`: whatever was sent is named for good by the job it was built
for (`Tracked`), or is what a batch in `SIGNING` without a prompt is in doubt about
(`Doubtful`). `OneByOne`: the batch lock holds one call at a time. `Knows(t)`: a call may rely on the job it read only as far as its revision
is still the stored one. The argument: a job keeps every transaction it was ever
signed for and the network gets none but those, so two purchases of one blob
would be two of one job, which has room for one. From it: `TypeCorrect`,
`PaidStays`, and `UploadsImplementPurchase`, the refinement of `BlobPurchase`.

**MakerWardrobeProofs.** `WardrobeInv` is type correctness, `LockedHeld` and
`LocksExact`. A lock and the place it names are written by the same call, and no
other call touches a locked item or a place that an item wears; `LockedHeld` is
needed because a loadout that nobody has created would otherwise be writable by
the holder of an item nobody has claimed. `QuotaInv` bounds a wallet's free
receipts by its counter and its quota, and a line's receipts by its total: the
counter moves in the transaction it is priced in, so that a free completion finds
it below the quota. From them: `LocksAreExact`, `QuotaStays` and
`CompletedAsQuoted`, for any plan `assert_complete_policy` admits; and
`AlwaysTakenOff`, the guards of `AlwaysReleasable` as a condition on the state
(`Releasable`: `CanRelease` and, for base items, `WornAsIs`).

`ReceiptsAreTrue` needs sums over finite sets. `MapThenSumSet` is a recursive
function over subsets, and the library's induction over finite sets cannot be
instantiated here. That such a function exists and is unique is proved instead
from a smallest counterexample: if a statement about the subsets of a finite set
failed anywhere, it would fail at a set of least cardinality (`Minimal`), where
removing one element contradicts it. From that: a sum unfolds at any element
(`SumRemove`, `SumAdd`), adds up (`SumPlus`), and changes by what its one changed
term changes (`SumChange`). `BooksInv` is `ReceiptsAgree` with `NumberedInv`, a
form of `Numbered` that does not bound ordinals by the number of Souls,
`CollectedInv`, which takes the direct deposits off what a treasury collected
(`ByPayments`), and the types of amounts and receipts. There is one lemma per kind of step:
`ControlBooks` (accesses, withdrawals, the protocol's own), `WardrobeBooks`
(passes and Packs), `DepositBooks` and `WithdrawBooks` for any treasury, and for a completion one per part, `CompleteNumbers`,
`CompleteEarns`, `CompletePays`. A completion needs of `QuotaInv` that the
Soul it mints has no receipt yet.

**Only model-checked:** `DoubtResolves` (twice), `RequestResolves`,
`SuccessIsRecorded` and `PaidIsStored` (liveness); and `AlwaysReturnable` and
`AlwaysReleasable`, as they are stated with `ENABLED`. The conditions they rest on
are proved, as above; what TLC adds is that no other conjunct of the actions is
in the way.

## Findings

`player_orphan`, `OneUnsettledPerRoot`. The product bridge offers callers
`getPlayerAction`, which recovers a finished action each time it is read
(`maker-v8-player-controller.js:2599`). The adapter's `compareAndSwap`
(`maker-v8-player-adapters.js:622`) deletes or rewrites the Root's and the
scope's index without asking whether they name the action it stores. If a
finished action is asked about after the next one was prepared, the next one's
entry is lost, and a third can be prepared beside it, which `create` (`:583`)
means to refuse.

Other behaviour that surprised us and that no run is about:

- If that query fails, `OUTCOME_UNKNOWN` is stored whatever the record said
  (`maker-v8-player-controller.js:2441`), also over a finalized outcome. When the
  record was a success whose readback failed, it keeps `FINALIZED_SUCCESS` as its
  query under the new status, which `assertActionRecord` (`:1331`) rejects on
  every later read. The verdicts stay true (`VerdictsTrue`) and signatures are
  kept (`SignatureKept`) even then: both are proved with re-reads.
- A publication's signature after a refusal counts as optional evidence
  (`maker-v8-publication-store.js:213`), which a history takes only up to its
  twelfth event (`:275`). After twelve refusals by the wallet the attempt can
  neither be signed any more, although a signature and its outcome would fit, nor
  deleted, since it has events; it keeps its scope.
- A late rejection, or a wrong confirmation that nothing was signed, may release
  the lifecycle intent of another session (`maker-v8-lifecycle-adapters.js:1310`).
  The signature that session gets is then refused and never sent.
- A Walrus batch that has failed, or whose prompt was never answered, keeps its
  members for ever: nothing releases a `batchKey`, and an upload's id is derived
  from its content, so that preparing it again finds the claimed record. Signed
  bytes that lapse are never replaced either (`maker-v8-walrus.js:1010`).

## Abstractions

Recovery:

- `prepare` and `requestSignature` take evidence whose dry run is not older than
  the record; the model orders by revision, so two in one millisecond are not
  told apart.
- One fullnode is the client's view of the chain, in checkpoint order, as the code
  is bound to one. A node that goes back in time is not modelled.
- A replay is offered only in the first epoch of a build's window although the
  bytes are valid in the next; the model follows the code.
- `expireNotFound` in the store does not compare its absence evidence with the
  query of the record it replaces; `AdmitsExpire` says as much as the code does.
- There is no lock between pages on this log; `compareAndSwap` is all there is.

Market:

- The arm of `recover_maker_control_listing` for an archived Maker is in the model
  but never fires, since archiving takes the AdminCap, which is in custody. The
  return of control rotates it when the seller no longer owns the Root; that
  branch is left out, and `AlwaysReturnable`, which would fail in a state that
  needs it, shows that no run reaches one (`SaleFrozen` says why, and is proved).
- Since the deposits are public, no sum of sales and receipts alone equals what a
  treasury collected. `SharesCollected` and `Collected` say that it is that sum
  plus the direct deposits, which the history variable `direct` remembers and the
  code does not; they do not tell who made one, or for which companion package.
- Every switch of the protocol moves its revision, so enabling it again does not
  make a Maker current that was pinned to the earlier one (`DegradedForGood`).
- Successor authority, an asset's transferable flag, `consume_physical` and the
  building of a draft are left out. `Activate` starts from a draft that is
  complete. Locks are in `MakerWardrobe`, where the market's custody of an item
  is one flag.

Player:

- A prepared action past its window still holds the Root's index until it is
  retired.
- Builds are keyed by descriptor, so preparing again what expired gives the same
  digest and action id: it finds the finished record.
- After a crash in `SIGNING` only `reclaimPlayerSignatureIntent` leads on; the
  caller may have no way to confirm that nothing was signed, in which case the
  model's `ReclaimIntent` simply never happens.

Publication:

- A build that has lapsed is answered "not found" for ever. Nothing in the
  controller looks at its window (`maker-v8-publication-expiration.js` sets it,
  no one reads it again), so the attempt stays pending; the model follows the
  code, and no property promises an end.
- `EXTERNAL_PENDING` comes only from an imported log, so only the store's run has
  it; `ABANDONED_RECOVERABLE` and `RELEASE_RETIRED` likewise.
- The content of a step, and the order of the phases of a publication, are not
  in these modules: an ordinal stands for any transaction.

Lifecycle:

- The external confirmation that no signed artifact exists may be wrong; without
  a caller that gives one, `ReleaseIntent` of an unexpired intent never happens.
  The lease may be over at any time.
- The wallet's answer and the write that keeps it are one step: a tab that dies
  in between is one whose wallet never answered.
- The descriptors, the readback of a finalized action and the count of broadcasts
  are left out. What the actions do on chain is in `MakerControl`.

Drafts:

- Timestamps, drafts of older databases, the author's own view of a document and
  the stores of local Players and of artwork are left out. A content is a model
  value with a hash that may collide, and a shape: its kind, media type and length.
- An IndexedDB transaction is atomic, and one that fails leaves nothing, so that
  it is one step whose failure is `GiveUp`.

Wardrobe and completion:

- The calls compare revisions of loadouts and registries that their sender has
  read; an action is the call whose revisions are current. The update of an
  equipment is one transaction, as the guard that begins it has no abilities.
- The lifecycle of product and Packs is moved by anyone, where the code asks for
  their own caps. What an item is paid for on the market is in `MakerMarket`.
- The native Soul package is modelled from how the runtime uses it (external): one
  equipment per Soul, and a Soul moves only without one.
- Definitions and attachments that belong to Packs, the authoring of Packs,
  Seal-protected variants, rules, visibility and items that are not transferable
  are left out, and completions from a Soul's equipment, which the code does not
  have. Quotes stay on a page, as two tabs may have read one.
- `stock`, `Dressed` and `MaxMoves` are bounds on what comes to exist and moves.

Walrus:

- A batch is keyed by its members; the Root in its key is left out, as a Root's
  uploads meet no other's. The order in which members are stored is arbitrary.
- A query and the write of its final answer are one step: the answer cannot
  change any more, and the write compares. `NOT_FOUND` may be answered at any
  time. The wallet's answer and its write are one step too.
- That the wallet submits by itself (`WalletSends`) is modelled for batches, which
  look for such a transaction after a lost prompt. A single record has no durable
  intent before its prompt (`maker-v8-walrus.js:1400`), so that the code could not
  learn of one.
- The lock is taken as held for a whole call on a batch. Quilt layouts, bindings
  to a publication, quotes and the checks of what was built are left out.

## Not modelled, and why

Pure functions over large records (compilers, documents, attestation, decoding,
encoding) say little to a state model and are tested directly. Cryptography and
key derivation are out of reach of the method. The user interface is an
arbitrary caller.

Three stateful parts are left out although they are in reach. The engine of Pack
publication repeats the steps of `MakerPublication` over a store of its own; it
differs in its expiration, of which, as there, no step takes note. The Player
journey keeps a session for convenience over logs that are modelled and decide
everything by themselves. The release log is written by one operator under a lock,
once; its Move entry points hand over to the packages that are modelled. The
import and export of publication logs copy a log to another device, after which
two logs are about one attempt; they are left to the plan.

## Plan

Built, in this order: the recovery store and its controller; the Move market with
control; the Player's log; the publication store and its controller; the
lifecycle log; the draft store; the wardrobe and completion; Walrus uploads.
Proofs followed each of them.

What would come next, by what it would add:

1. Pack publication, for its different expiry.
2. Import and export of publication logs; the release log.
