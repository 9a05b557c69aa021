------------------------- MODULE ServingSidecarProbe -------------------------
(***************************************************************************)
(* run_exactkv_with_sidecar_probe of exactkv/serving/sidecar_probe.py: the *)
(* generator composed with the lifecycle harness.  The probe registers the *)
(* caches of a prefill of its own, lets the generator run, and replays the *)
(* generator's traces into the harness afterwards.                         *)
(***************************************************************************)
EXTENDS ExactKVGenerator

CONSTANTS
    BlockSize,     \* block_size of the harness
    MaxLogical     \* bound: longer than any prompt with its output

\* ServingCacheLifecycleHarness.__init__ raises otherwise.
ASSUME BlockSizeOK == BlockSize \in Nat \ {0}

VARIABLES
    stage,         \* attach, attach_compressed, generate, observe, finalized, raised
    round_idx,     \* how many traces were replayed
    observations,  \* round_observations
    probe_pass,    \* finalize(): all_invariants_pass
    entries, authoritative_id, compressed_id, next_id

Harness == INSTANCE ServingCacheLifecycle
           WITH Lengths <- {}, Retentions <- {}, ExplicitIds <- {},
                Counts <- {}, MaxId <- 2

harness == <<entries, authoritative_id, compressed_id, next_id>>
probe == <<stage, round_idx, observations, probe_pass>>

ProbeInit ==
    /\ Init
    /\ Harness!Init
    /\ stage = "attach"
    /\ round_idx = 0
    /\ observations = <<>>
    /\ probe_pass = FALSE

AttachAuthoritative ==
    /\ stage = "attach"
    /\ Harness!RegisterAuthoritative(Len(request.prompt), Harness!NoId)
    /\ stage' = "attach_compressed"
    /\ UNCHANGED <<vars, round_idx, observations, probe_pass>>

\* What infer_physical_seq_len makes of the compressor's data: the prompt's length,
\* fewer tokens when the compressor drops some, or nothing (-1), when the data
\* does not tell.  noop's data is the full cache, debug_noise's names its length.
InferredPhysical ==
    IF request.compressor \in {"noop", "debug_noise"} THEN {Len(request.prompt)}
    ELSE {-1} \cup 1..Len(request.prompt)

AttachCompressed ==
    /\ stage = "attach_compressed"
    /\ \E physical \in InferredPhysical \ {-1} :
          Harness!RegisterCompressed(Len(request.prompt), physical, <<>>, Harness!NoId)
    /\ stage' = IF Harness!invariants_valid' THEN "generate" ELSE "raised"
    /\ UNCHANGED <<vars, round_idx, observations, probe_pass>>

\* attach_prefill passes no retained positions, so a cache that dropped tokens
\* cannot be registered, nor one whose length cannot be inferred.
AttachRaises ==
    /\ stage = "attach_compressed"
    /\ \E physical \in InferredPhysical :
          \/ physical = -1 /\ Harness!DrawId(Harness!NoId)
                           /\ UNCHANGED <<entries, authoritative_id, compressed_id>>
          \/ Harness!CompressedRaises(Len(request.prompt), physical, <<>>)
    /\ stage' = "raised"
    /\ UNCHANGED <<vars, round_idx, observations, probe_pass>>

Generate ==
    /\ stage = "generate"
    /\ Step
    /\ stage' = CASE pc' = "returned" -> "observe"
                  [] pc' = "raised"   -> "raised"
                  [] OTHER            -> "generate"
    /\ UNCHANGED <<harness, round_idx, observations, probe_pass>>

\* num_accepted, and one more for a correction.
Fault_AcceptedOnly(trace) == Len(trace.accepted)
CommittedTokens(trace) == Len(trace.accepted) + Len(trace.correction)

observe_commit_round ==
    /\ stage = "observe"
    /\ round_idx < Len(traces)
    /\ LET committed_tokens == CommittedTokens(traces[round_idx + 1])
       IN  /\ IF committed_tokens > 0
              THEN Harness!AppendCommittedTokens(committed_tokens)
              ELSE UNCHANGED harness
           /\ observations' = Append(observations,
                 [ committed_tokens |-> committed_tokens,
                   authoritative_logical_seq_len |-> entries'[authoritative_id].logical_seq_len,
                   compressed_logical_seq_len |-> entries'[compressed_id].logical_seq_len ])
    /\ stage' = IF Harness!invariants_valid' THEN "observe" ELSE "raised"
    /\ round_idx' = round_idx + 1
    /\ UNCHANGED <<vars, probe_pass>>

finalize ==
    /\ stage = "observe"
    /\ round_idx = Len(traces)
    /\ probe_pass' = /\ authoritative_id # Harness!NoId
                     /\ compressed_id # Harness!NoId
                     /\ authoritative_id # compressed_id
                     /\ \E id \in DOMAIN entries : entries[id].owner = "compressed_draft"
                     /\ ~Harness!LengthsDiffer
    /\ stage' = "finalized"
    /\ UNCHANGED <<vars, harness, round_idx, observations>>

ProbeEnded == stage \in {"finalized", "raised"} /\ UNCHANGED <<vars, harness, probe>>

ProbeStep ==
    \/ AttachAuthoritative \/ AttachCompressed \/ AttachRaises
    \/ Generate
    \/ observe_commit_round \/ finalize

ProbeNext == ProbeStep \/ ProbeEnded

ProbeSpec == ProbeInit /\ [][ProbeNext]_<<vars, harness, probe>>

\* One thread runs the probe and the generator below it.
ProbeFairSpec == ProbeSpec /\ WF_<<vars, harness, probe>>(ProbeStep)

-----------------------------------------------------------------------------
(* Properties *)

\* The replay of the traces arrives where the generator did: after the last of
\* them both logical lengths are the prompt's and the output's together, every
\* observation stands where the generator's own trace says its round ended, and
\* the probe passes.  A generator that counted tokens after EOS, or a replay that
\* forgot corrections, would get out of step.  No replay raises on the way: what
\* validate_invariants finds wrong, it finds before anything is generated.
SidecarCountsOutput ==
    /\ \A i \in 1..Len(observations) :
          /\ observations[i].authoritative_logical_seq_len = traces[i].seq_len_after
          /\ observations[i].compressed_logical_seq_len = traces[i].seq_len_after
    /\ stage = "finalized" =>
          /\ probe_pass
          /\ entries[authoritative_id].logical_seq_len
                = Len(request.prompt) + Len(all_generated)
    /\ stage = "raised" => pc # "returned"

\* The physical length the harness keeps for the authoritative cache is that of
\* the generator's cache, and one more when the output ends with EOS, which the
\* generator never runs through the model.
PhysicalOvercountsEos ==
    stage = "finalized" =>
        entries[authoritative_id].physical_seq_len =
            Len(kv[full_state.past_key_values].tokens)
                + (IF EndsWithEos(all_generated) THEN 1 ELSE 0)

\* The call ends, with the generator's loop inside it, whatever it was asked for: a
\* draft length or a budget of 0, a compressor that never drafts a right token, an
\* observer that raises.
ProbedCallEnds == <>(stage \in {"finalized", "raised"})

\* run_exactkv_with_sidecar_probe: the probe "does not alter generation or
\* verification behaviour".  With a compressor that drops tokens, or whose data
\* does not tell its length, attaching raises and nothing is generated.
ProbeDoesNotAlterGeneration == stage = "raised" => pc = "raised"
=============================================================================
