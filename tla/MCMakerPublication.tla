------------------------- MODULE MCMakerPublication -------------------------
(* Instances of MakerPublication: two tabs, two ordinals or two attempts.  *)
EXTENDS MakerPublication, TLC

CONSTANTS a1, a2, d1, d2, d3, t1, t2

MCSymmetry == Permutations(Tabs) \cup Permutations(Attempts) \cup Permutations(Digests)
=============================================================================
