---------------------- MODULE MCServingCacheLifecycle ----------------------
(***************************************************************************)
(* Small instance of ServingCacheLifecycle: caches of one and three        *)
(* tokens, blocks of two, callers who pass mappings of every kind of       *)
(* mistake, and who choose ids the harness itself would draw next.         *)
(***************************************************************************)
EXTENDS ServingCacheLifecycle

\* Right for three tokens cut to two; for one; to none; out of order; too far.
MCRetentions == {<<0, 2>>, <<1>>, <<>>, <<2, 0>>, <<1, 3>>}

MCExplicitIds == {<<"compressed_draft", 1>>, <<"authoritative_full", 2>>}
=============================================================================
