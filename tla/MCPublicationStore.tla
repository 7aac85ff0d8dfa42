------------------------- MODULE MCPublicationStore -------------------------
(* Two attempts of two ordinals, whose histories may come to their limits. *)
EXTENDS PublicationStore, TLC

CONSTANTS a1, a2, d1, d2

MCSymmetry == Permutations(Attempts) \cup Permutations(Digests)
=============================================================================
