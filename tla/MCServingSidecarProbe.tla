----------------------- MODULE MCServingSidecarProbe -----------------------
(***************************************************************************)
(* ServingSidecarProbe on the model and the prompts of MCExactKVGenerator. *)
(* Besides the requests run_exactkv_with_sidecar_probe makes, which have   *)
(* no round observer, the generator gets all that its other callers make,  *)
(* so that its own properties are checked here too.                        *)
(***************************************************************************)
EXTENDS ServingSidecarProbe

MCFullNext(s) == (2 * s[1] + s[Len(s)] + Len(s) * (Len(s) + s[1])) % VocabSize

\* Prompts of one and of two tokens; after some of them the model says EOS at once.
MCPrompts == {<<a>> : a \in Token} \cup {<<a, b>> : a \in Token \ {EOS}, b \in Token}
=============================================================================
