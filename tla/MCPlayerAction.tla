--------------------------- MODULE MCPlayerAction ---------------------------
(* Two actions of one scope and, where a run has it, one of another.       *)
EXTENDS PlayerAction, TLC

CONSTANTS buy, again, equip, pack, loadout

MCScopeOf == [a \in Actions |-> IF a = equip THEN loadout ELSE pack]

MCSymmetry == Permutations(Tabs) \cup Permutations(Actions \cap {buy, again})
=============================================================================
