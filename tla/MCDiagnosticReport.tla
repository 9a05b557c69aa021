------------------------- MODULE MCDiagnosticReport -------------------------
(***************************************************************************)
(* One prompt and one budget, under which the model's first two tokens     *)
(* differ: a report of two cells that has a capture and a probe cell shows *)
(* what each of them computed from.                                        *)
(***************************************************************************)
EXTENDS DiagnosticReport

MCFullNext(s) == (2 * s[1] + s[Len(s)] + Len(s) * (Len(s) + s[1])) % VocabSize

MCPrompts == {<<0, 1>>}
=============================================================================
