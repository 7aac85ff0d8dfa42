-------------------------- MODULE MCMakerRecovery --------------------------
(* Small instances of MakerRecovery. *)
EXTENDS MakerRecovery, TLC

CONSTANTS s1, s2, p1, p2, i1, i2

(* p1 and p2 build the same action in successive epochs. *)
SameIdentity == [p \in Plan |-> i1]
OwnIdentity == [p \in Plan |-> IF p = p1 THEN i1 ELSE i2]
Successive == [p \in Plan |-> IF p = p1 THEN 1 ELSE 2]

Symmetry == Permutations(Session)
=============================================================================
