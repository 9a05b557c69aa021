------------------------- MODULE MCRestoredVerifier -------------------------
(***************************************************************************)
(* Small instances of RestoredVerifier: four tokens of which the last is   *)
(* EOS; runs of one and of two cells, valid and invalid configurations.    *)
(***************************************************************************)
EXTENDS RestoredVerifier

MCFullNext(s) == (2 * s[1] + s[Len(s)] + Len(s) * (Len(s) + s[1])) % VocabSize

Config(entry, prompts, compressors, draft_lens, n) ==
    [ entry |-> entry, enabled |-> TRUE, mode |-> "restored_verifier_offline",
      prompts |-> prompts, compressors |-> compressors, draft_lens |-> draft_lens,
      max_new_tokens |-> n, report |-> "passed" ]

OnePrompt == {{<<a>>} : a \in Token} \cup {{<<0, b>>} : b \in Token}

\* One cell of every kind; the draft length may be 0 where nothing checks it.
OneCell == {Config(entry, p, {c}, {d}, n) :
               entry \in {"experimental", "runner"}, p \in OnePrompt,
               c \in CompressorKinds \cup {"unknown"}, d \in {0, 1, 3}, n \in {0, 3}}

ControlledCell == {Config("script", p, {"noop"}, {d}, 4) : p \in OnePrompt, d \in {0, 1, 2, 3}}

TwoCells == { Config("experimental", {<<0>>}, {"noop", "lossy"}, {2}, 2),
              Config("experimental", {<<0>>, <<1>>}, {"replay"}, {2}, 2),
              Config("runner", {<<1, 2>>}, {"lossy"}, {0, 1}, 2) }

NoRun == { [Config("experimental", {<<0>>}, {"noop"}, {2}, 2) EXCEPT !.enabled = FALSE],
           [Config("experimental", {<<0>>}, {"noop"}, {2}, 2) EXCEPT !.mode = "off"],
           [Config("experimental", {<<0>>}, {"noop"}, {2}, 2) EXCEPT !.report = "failed"],
           Config("experimental", {}, {"noop"}, {2}, 2),
           Config("runner", {}, {"noop"}, {2}, 2) }

MCConfigs == OneCell \cup ControlledCell \cup TwoCells \cup NoRun
=============================================================================
