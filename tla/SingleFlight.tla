--------------------------- MODULE SingleFlight ----------------------------
(***************************************************************************)
(* What the recovery log promises a Maker Root, with no pages, no log and  *)
(* no messages: one signed transaction is in flight at a time, only that   *)
(* one can execute, and the next is launched when its outcome has been     *)
(* entered in the ledger, under the outcome it really had.                 *)
(***************************************************************************)
EXTENDS Naturals

CONSTANTS Plan, IdentityOf, Expiration, NoPlan

VARIABLES
    flight,     \* the plan whose signed bytes may execute, or NoPlan
    fate,       \* how each plan executed, "none" if it has not
    ledger,     \* what is on record about each plan
    epoch

flightVars == <<flight, fate, ledger, epoch>>

FlightInit ==
    /\ flight = NoPlan
    /\ fate = [p \in Plan |-> "none"]
    /\ ledger = [p \in Plan |-> "open"]
    /\ epoch = 0

(* A plan is launched at most once, and not if its action has succeeded. *)
Launch(p) ==
    /\ flight = NoPlan /\ ledger[p] = "open"
    /\ \A q \in Plan : IdentityOf[q] = IdentityOf[p] => ledger[q] # "receipt"
    /\ flight' = p
    /\ UNCHANGED <<fate, ledger, epoch>>

Land(p, outcome) ==
    /\ flight = p /\ fate[p] = "none" /\ epoch <= Expiration[p]
    /\ fate' = [fate EXCEPT ![p] = outcome]
    /\ UNCHANGED <<flight, ledger, epoch>>

Retire(p, entry) ==
    /\ flight = p
    /\ \/ entry = "receipt" /\ fate[p] = "success"
       \/ entry = "failure" /\ fate[p] = "failure"
       \/ entry = "expired" /\ fate[p] = "none" /\ epoch > Expiration[p]
    /\ flight' = NoPlan
    /\ ledger' = [ledger EXCEPT ![p] = entry]
    /\ UNCHANGED <<fate, epoch>>

Tick == epoch' = epoch + 1 /\ UNCHANGED <<flight, fate, ledger>>

FlightNext ==
    \/ \E p \in Plan : Launch(p)
    \/ \E p \in Plan, outcome \in {"success", "failure"} : Land(p, outcome)
    \/ \E p \in Plan, entry \in {"receipt", "failure", "expired"} : Retire(p, entry)
    \/ Tick

FlightSpec == FlightInit /\ [][FlightNext]_flightVars
=============================================================================
