------------------------- MODULE MCGreedyBaselines -------------------------
(***************************************************************************)
(* GreedyBaselines and the tools that use its outputs, on the vocabulary,  *)
(* model and prompts of MCExactKVGenerator.                                *)
(***************************************************************************)
EXTENDS DivergenceTools

MCFullNext(s) == (2 * s[1] + s[Len(s)] + Len(s) * (Len(s) + s[1])) % VocabSize

MCPrompts == {<<a>> : a \in Token} \cup {<<a, b>> : a \in Token \ {EOS}, b \in Token}
=============================================================================
