----------------------------- MODULE MCDraftStore -----------------------------
(* The contents have one hash; the export is a draft's second revision,    *)
(* with one asset of the first.                                            *)
EXTENDS DraftStore, TLC

MCHash == [c \in Contents |-> "h1"]
MCShape == [c \in Contents |-> IF c = "c1" THEN "small" ELSE "large"]

Exported(rows) == [revision |-> 2, document |-> [text |-> "t", shapes |-> Shapes(rows)], rows |-> rows]
MCExports ==
    {Exported([a \in {1} |-> [content |-> "c2", revision |-> 1]])}

Symmetry == Permutations(Drafts) \cup Permutations(Tabs)
===============================================================================
