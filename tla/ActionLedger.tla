---------------------------- MODULE ActionLedger ----------------------------
(***************************************************************************)
(* What the action log promises a Maker Root and a signer, with no tabs,   *)
(* no records and no wallet: one action is open at a time.  It is given up *)
(* before it is signed, or it is signed, may then land once while its      *)
(* window lasts, and is closed under the outcome it really had.  What is   *)
(* closed stays closed.                                                    *)
(***************************************************************************)
EXTENDS Naturals

CONSTANTS Actions

VARIABLES
    entry,      \* what is on record of each action
    fate,       \* how each action executed, "none" if it has not
    window,     \* the last epoch in which each action may execute
    epoch

ledgerVars == <<entry, fate, window, epoch>>

LedgerInit ==
    /\ entry = [a \in Actions |-> "none"]
    /\ fate = [a \in Actions |-> "none"]
    /\ window = [a \in Actions |-> 0]
    /\ epoch = 0

Pending(a) == entry[a] \in {"open", "signed"}

Open(a) ==
    /\ entry[a] = "none" /\ \A b \in Actions : ~ Pending(b)
    /\ entry' = [entry EXCEPT ![a] = "open"]
    /\ \E last \in {epoch, epoch + 1} : window' = [window EXCEPT ![a] = last]
    /\ UNCHANGED <<fate, epoch>>

GiveUp(a) ==
    /\ entry[a] = "open"
    /\ entry' = [entry EXCEPT ![a] = "unsigned"]
    /\ UNCHANGED <<fate, window, epoch>>

Sign(a) ==
    /\ entry[a] = "open"
    /\ entry' = [entry EXCEPT ![a] = "signed"]
    /\ UNCHANGED <<fate, window, epoch>>

Land(a) ==
    /\ entry[a] = "signed" /\ fate[a] = "none" /\ epoch <= window[a]
    /\ \E outcome \in {"success", "failure"} : fate' = [fate EXCEPT ![a] = outcome]
    /\ UNCHANGED <<entry, window, epoch>>

(* The outcome of a, once no other is possible.                            *)
Outcome(a) ==
    IF fate[a] = "none" /\ epoch > window[a] THEN "expired" ELSE fate[a]

Close(a) ==
    /\ entry[a] = "signed" /\ Outcome(a) # "none"
    /\ entry' = [entry EXCEPT ![a] = Outcome(a)]
    /\ UNCHANGED <<fate, window, epoch>>

Tick == epoch' = epoch + 1 /\ UNCHANGED <<entry, fate, window>>

LedgerNext ==
    \/ \E a \in Actions : Open(a) \/ GiveUp(a) \/ Sign(a) \/ Land(a) \/ Close(a)
    \/ Tick

LedgerSpec == LedgerInit /\ [][LedgerNext]_ledgerVars
=============================================================================
