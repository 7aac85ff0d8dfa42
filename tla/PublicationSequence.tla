------------------------- MODULE PublicationSequence -------------------------
(***************************************************************************)
(* What publishing a Maker promises.  An attempt is a sequence of          *)
(* transactions.  It has one transaction in flight; only that one is given *)
(* to the network, and the next is taken up after the one before it has    *)
(* succeeded.  What failed stays in flight for ever: the attempt ends      *)
(* there.                                                                  *)
(***************************************************************************)
EXTENDS Naturals, Sequences

CONSTANTS Attempts, Digests, None, Length

VARIABLES
    done,           \* attempt -> the transactions that succeeded, in order
    flight,         \* attempt -> the transaction in flight, or None
    given,          \* transactions that the network was given
    ledger          \* what became of them

seqVars == <<done, flight, given, ledger>>

SeqInit ==
    /\ done = [a \in Attempts |-> <<>>]
    /\ flight = [a \in Attempts |-> None]
    /\ given = {}
    /\ ledger = [d \in Digests |-> "none"]

(* A transaction is taken up once, by one attempt.                         *)
TakeUp(a, d) ==
    /\ flight[a] = None /\ Len(done[a]) < Length
    /\ d \notin given
    /\ \A b \in Attempts : flight[b] # d
    /\ flight' = [flight EXCEPT ![a] = d]
    /\ UNCHANGED <<done, given, ledger>>

Give(d) ==
    /\ \E a \in Attempts : flight[a] = d
    /\ given' = given \cup {d}
    /\ UNCHANGED <<done, flight, ledger>>

Settle(d, outcome) ==
    /\ ledger[d] = "none"
    /\ outcome \in {"success", "failure"} => d \in given
    /\ ledger' = [ledger EXCEPT ![d] = outcome]
    /\ UNCHANGED <<done, flight, given>>

Finish(a) ==
    /\ flight[a] # None /\ ledger[flight[a]] = "success"
    /\ done' = [done EXCEPT ![a] = Append(@, flight[a])]
    /\ flight' = [flight EXCEPT ![a] = None]
    /\ UNCHANGED <<given, ledger>>

SeqNext ==
    \/ \E a \in Attempts : Finish(a) \/ \E d \in Digests : TakeUp(a, d)
    \/ \E d \in Digests :
           Give(d) \/ \E o \in {"success", "failure", "lapsed"} : Settle(d, o)

SeqSpec == SeqInit /\ [][SeqNext]_seqVars
=============================================================================
