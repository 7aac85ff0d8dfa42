------------------------------ MODULE BlobPurchase ------------------------------
(***************************************************************************)
(* What uploading to Walrus promises: storage of a blob is bought at most  *)
(* once, a blob is certified only after that, and it is reported complete  *)
(* only after it was certified.  Blobs may go through a step in groups.    *)
(***************************************************************************)
CONSTANTS Blobs, Payments

VARIABLES
    bought,      \* blob -> the payments its storage was bought with
    certified,   \* the blobs that are certified
    complete     \* the blobs that are reported complete

purchaseVars == <<bought, certified, complete>>

PurchaseInit ==
    /\ bought = [b \in Blobs |-> {}]
    /\ certified = {}
    /\ complete = {}

Buy(group, d) ==
    /\ \A b \in group : bought[b] = {}
    /\ bought' = [b \in Blobs |-> IF b \in group THEN {d} ELSE bought[b]]
    /\ UNCHANGED <<certified, complete>>

Certify(group) ==
    /\ \A b \in group : bought[b] # {}
    /\ certified' = certified \cup group
    /\ UNCHANGED <<bought, complete>>

Report(group) ==
    /\ group \subseteq certified
    /\ complete' = complete \cup group
    /\ UNCHANGED <<bought, certified>>

PurchaseNext ==
    \E group \in SUBSET Blobs :
        \/ Certify(group) \/ Report(group)
        \/ \E d \in Payments : Buy(group, d)

PurchaseSpec == PurchaseInit /\ [][PurchaseNext]_purchaseVars
=============================================================================
