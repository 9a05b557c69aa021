------------------------ MODULE MCExactKVGenerator ------------------------
(***************************************************************************)
(* Small instances of ExactKVGenerator: four tokens, of which the last is  *)
(* EOS, and a model whose prediction depends on the first token, the last  *)
(* one and the length of the context, so that one token too many, too few  *)
(* or misplaced in a cache changes what the model says.                    *)
(***************************************************************************)
EXTENDS ExactKVGenerator

MCFullNext(s) == (2 * s[1] + s[Len(s)] + Len(s) * (Len(s) + s[1])) % VocabSize

\* Prompts of one and of two tokens; after some of them the model says EOS at once.
MCPrompts == {<<a>> : a \in Token} \cup {<<a, b>> : a \in Token \ {EOS}, b \in Token}
=============================================================================
