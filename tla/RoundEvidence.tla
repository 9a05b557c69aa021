---------------------------- MODULE RoundEvidence ----------------------------
(***************************************************************************)
(* What exactkv/attention and exactkv/safety make of the rounds of a       *)
(* generation, after the fact and without touching it: live snapshots,     *)
(* shadow replays at the round boundaries, draft proposals, and the        *)
(* verifier evidence records that the L4 dry run decides on.               *)
(*                                                                         *)
(* A round is known by its VerificationTrace: [round_idx, draft_tokens,    *)
(* acceptance, full_seq_len_before, full_seq_len_after].  An optional      *)
(* value is a sequence of length 0 or 1, as in Acceptance.                 *)
(***************************************************************************)
EXTENDS Acceptance, FiniteSetsExt

CONSTANT
    ShadowReplay(_)   \* the outcome of a shadow replay of a sequence: the top-1
                      \* token it yields, if any, and what blocked it, if anything

-----------------------------------------------------------------------------
(* attention/live_round_observer.py *)

\* num_rejected + (1 if there is a correction)
RejectedOrCorrected(a) == Len(a.rejected_tokens) + Len(a.correction_token)

LiveSnapshot(round, prompt, before, after, d, a, len_before, len_after) ==
    [ round_index           |-> round,
      prefix_before         |-> prompt \o before,
      prefix_after          |-> prompt \o after,
      draft_tokens          |-> d,
      accepted              |-> Len(a.accepted_tokens),
      rejected_or_corrected |-> RejectedOrCorrected(a),
      full_seq_len_before   |-> len_before,
      full_seq_len_after    |-> len_after ]

compare_snapshot_to_trace(s, t) ==
    /\ s.round_index = t.round_idx
    /\ s.draft_tokens = t.draft_tokens
    /\ s.accepted = Len(t.acceptance.accepted_tokens)
    /\ s.full_seq_len_before = t.full_seq_len_before
    /\ s.full_seq_len_after = t.full_seq_len_after
    /\ Len(s.prefix_before) = t.full_seq_len_before
    /\ Len(s.prefix_after) = t.full_seq_len_after

compare_snapshots_to_traces(ss, ts) ==
    Len(ss) = Len(ts) /\ \A i \in 1..Len(ss) : compare_snapshot_to_trace(ss[i], ts[i])

-----------------------------------------------------------------------------
(* attention/generation_shadow_observer.py, decode_time_shadow_observer.py *)

snapshot_is_post_commit(s) ==
    /\ Len(s.prefix_before) = s.full_seq_len_before
    /\ Len(s.prefix_after) = s.full_seq_len_after
    /\ s.full_seq_len_after >= s.full_seq_len_before

\* One shadow replay at a round boundary.  Its blocker is "none", "returned" (the
\* replay gives a blocker of its own: "replay failed: ...", no decoder layers, no
\* hidden states) or "raised" (it raises, which becomes "shadow replay failed: ...").
ShadowRoundCell(round, input_ids) ==
    LET shadow_cell == ShadowReplay(input_ids)
    IN  [ round_index            |-> round,
          shadow_sequence_length |-> Len(input_ids),
          top1                   |-> shadow_cell.top1,
          blocker                |-> shadow_cell.blocker ]

\* GuardedDecodeTimeShadowObserver.observe, inside the callback.
Fault_ShadowsPrefixBefore(s) == ShadowRoundCell(s.round_index, s.prefix_before)
DecodeTimeCell(s) ==
    IF snapshot_is_post_commit(s)
    THEN ShadowRoundCell(s.round_index, s.prefix_after)
    ELSE [ round_index |-> s.round_index, shadow_sequence_length |-> 0,
           top1 |-> <<>>, blocker |-> "not post-commit" ]

\* run_posthoc_shadow_from_live_snapshots, after generation.
PosthocCells(ss) ==
    [i \in DOMAIN ss |-> ShadowRoundCell(ss[i].round_index, ss[i].prefix_after)]

\* run_round_log_shadow_for_generation, from the traces and the final output.
RoundLogCells(ts, full_sequence) ==
    [i \in DOMAIN ts |-> ShadowRoundCell(ts[i].round_idx,
                                         SubSeq(full_sequence, 1, ts[i].full_seq_len_after))]

-----------------------------------------------------------------------------
(* safety/guarded_draft_shadow.py: proposals *)

\* _round_log_prefix_match: unknown when there is nothing to compare.
Fault_ComparesFirstToken(proposed, committed) ==
    IF proposed = <<>> \/ committed = <<>> THEN <<>> ELSE <<proposed[1] = committed[1]>>
PrefixMatch(proposed, committed) ==
    IF proposed = <<>> \/ committed = <<>> THEN <<>>
    ELSE <<SubSeq(proposed, 1, Smaller(Len(proposed), Len(committed))) = committed>>

RoundLogProposal(round, d, committed, accepted, rejected_or_corrected) ==
    [ round_index           |-> round,
      proposed              |-> d,
      committed             |-> committed,
      accepted              |-> accepted,
      rejected_or_corrected |-> rejected_or_corrected,
      matched               |-> PrefixMatch(d, committed) ]

\* build_round_log_draft_proposals prefers the traces to the snapshots.
ProposalsFromTraces(ts) ==
    [i \in DOMAIN ts |->
        LET a == ts[i].acceptance
        IN  RoundLogProposal(ts[i].round_idx, ts[i].draft_tokens, CommittedBy(a),
                             Len(a.accepted_tokens), RejectedOrCorrected(a))]

ProposalsFromSnapshots(ss) ==
    [i \in DOMAIN ss |->
        RoundLogProposal(ss[i].round_index, ss[i].draft_tokens,
                         SubSeq(ss[i].prefix_after, Len(ss[i].prefix_before) + 1,
                                Len(ss[i].prefix_after)),
                         ss[i].accepted, ss[i].rejected_or_corrected)]

\* How often each number occurs in a sequence of numbers.
Tally(numbers) ==
    [k \in Range(numbers) |-> Cardinality({i \in DOMAIN numbers : numbers[i] = k})]

\* aggregate_round_log_proposal_coverage
Coverage(ps) ==
    [ total_rounds          |-> Len(ps),
      with_draft            |-> Cardinality({i \in DOMAIN ps : ps[i].proposed # <<>>}),
      total_proposed_tokens |-> MapThenSumSet(LAMBDA i : Len(ps[i].proposed), DOMAIN ps),
      prefix_match          |-> Cardinality({i \in DOMAIN ps : ps[i].matched = <<TRUE>>}),
      prefix_not_match      |-> Cardinality({i \in DOMAIN ps : ps[i].matched = <<FALSE>>}),
      accepted_counts       |-> Tally([i \in DOMAIN ps |-> ps[i].accepted]),
      rejected_counts       |-> Tally([i \in DOMAIN ps |-> ps[i].rejected_or_corrected]) ]

\* What a summary of counts adds up to: {"0": 3, "2": 1} stands for 2.
TallyTotal(tally) == MapThenSumSet(LAMBDA k : k * tally[k], DOMAIN tally)

\* build_decode_time_shadow_top1_proposals: one record for each generated token,
\* with the cell of the round that has the token's index; blocked without a token.
Top1Proposals(generated, cells) ==
    [i \in DOMAIN generated |->
        LET proposed == IF i \in DOMAIN cells THEN cells[i].top1 ELSE <<>>
        IN  [ round_index |-> i - 1,
              committed   |-> generated[i],
              proposed    |-> proposed,
              source      |-> IF proposed = <<>> THEN "blocked_no_provider"
                              ELSE "decode_time_shadow_top1" ]]

\* build_side_by_side_round_records
SideBySide(round_log, shadow) ==
    { [ round_index     |-> r,
        in_round_log    |-> \E i \in DOMAIN round_log : round_log[i].round_index = r,
        in_shadow       |-> \E j \in DOMAIN shadow : shadow[j].round_index = r,
        sources_agree   |-> \E i \in DOMAIN round_log, j \in DOMAIN shadow :
                                /\ round_log[i].round_index = r
                                /\ shadow[j].round_index = r
                                /\ round_log[i].proposed # <<>>
                                /\ round_log[i].proposed = shadow[j].proposed ] :
      r \in {round_log[i].round_index : i \in DOMAIN round_log}
            \cup {shadow[j].round_index : j \in DOMAIN shadow} }

\* classify_proposal_audit_categories: a shadow proposal whose round is no round of
\* the cells, or more or fewer cells than tokens; a blocked proposal is not looked at.
Fault_TrustsRoundIndex(p, cells, generated) ==
    /\ p.source = "decode_time_shadow_top1"
    /\ p.round_index < Len(cells) /\ cells[p.round_index + 1].round_index # p.round_index
AlignmentMismatch(p, cells, generated) ==
    /\ p.source = "decode_time_shadow_top1"
    /\ cells # <<>> /\ generated # <<>>
    /\ \/ p.round_index >= Len(cells)
       \/ p.round_index < Len(cells) /\ cells[p.round_index + 1].round_index # p.round_index
       \/ Len(cells) # Len(generated)

-----------------------------------------------------------------------------
(* L4: verifier evidence records and the dry runs on them *)

\* Mismatching positions of the common part of proposal and verifier evidence.
Mismatches(p, v) == {i \in 1..CommonLen(p, v) : p[i] # v[i]}

\* simulate_prefix_walk; the mismatch index counts from 0, as the code's does.
Fault_MismatchFromOne(p, v) ==
    IF Mismatches(p, v) # {}
    THEN [terminal |-> "REJECT", mismatch |-> <<Min(Mismatches(p, v))>>]
    ELSE [terminal |-> "ACCEPT_PREFIX", mismatch |-> <<>>]
PrefixWalk(p, v) ==
    CASE Mismatches(p, v) # {} ->
            [terminal |-> "REJECT", mismatch |-> <<Min(Mismatches(p, v)) - 1>>]
      [] Mismatches(p, v) = {} /\ Len(p) <= Len(v) ->
            [terminal |-> "ACCEPT_PREFIX", mismatch |-> <<>>]
      [] OTHER -> [terminal |-> "REJECT", mismatch |-> <<Len(v)>>]

PrefixLength(p, v) ==
    LET w == PrefixWalk(p, v)
    IN  IF w.mismatch = <<>> THEN Len(p) ELSE w.mismatch[1]

AllowedSources == {"full_kv_verifier_output_tokens", "verifier_comparison_output_for_proposal",
                   "verifier_matching_prefix_evidence", "verifier_mismatch_evidence",
                   "verifier_exception_or_block_reason"}
RoundLogSource == "exactkv_round_log_draft_tokens"
ForbiddenSources == {"committed_token_ids_unmarked", "accepted_token_counts_only",
                     "rejected_corrected_counts_only", "baseline_generated_tokens",
                     "committed_tokens", "baseline_tokens", "retokenized_generated_text",
                     "guessed_token_ids", "compressed_draft_tokens",
                     "shadow_top1_proposal_tokens", "round_log_proposal_tokens_as_verifier",
                     RoundLogSource}

\* FORBIDDEN_PROPOSAL_SOURCES of the trace-only dry run; Stage 3 forbids one more.
TraceOnlyForbidden == {"committed_tokens", "baseline_tokens", "retokenized_generated_text",
                       "guessed_token_ids"}
ForbiddenProposalSources == TraceOnlyForbidden \cup {"verifier_tokens"}

SchemaVersion == "l4_verifier_evidence_v1"

\* build_schema_record_from_model_round; complete: no schema field is missing,
\* same_object: proposal and evidence are one list, counts: the record
\* carries num_accepted, accepted_tokens or num_rejected.
SchemaRecord(t) ==
    LET v == t.acceptance.verifier_tokens
        available == v # <<>>
    IN  [ complete        |-> TRUE,
          version         |-> SchemaVersion,
          diagnostic_only |-> TRUE,
          proposal_source |-> RoundLogSource,
          proposal        |-> t.draft_tokens,
          available       |-> available,
          evidence_source |-> IF available THEN "full_kv_verifier_output_tokens"
                              ELSE "verifier_exception_or_block_reason",
          evidence        |-> v,
          full_kv         |-> available,
          authoritative   |-> available,
          checked         |-> t.draft_tokens,
          block_reason    |-> ~available,
          same_object     |-> FALSE,
          counts          |-> FALSE ]

\* Equal tokens are evidence only when marked as the full model's.
UnmarkedCopy(r) == r.proposal # <<>> /\ r.proposal = r.evidence /\ ~r.full_kv

\* What validate_verifier_evidence_trace_record asks of the evidence.
EvidenceValid(r) ==
    /\ r.evidence_source # r.proposal_source
    /\ r.evidence_source \notin ForbiddenSources
    /\ ~r.same_object /\ ~UnmarkedCopy(r)
    /\ r.available =>
          /\ r.evidence_source \in AllowedSources
          /\ \/ r.evidence # <<>> \/ r.block_reason
             \/ r.evidence_source = "verifier_exception_or_block_reason"
          /\ r.full_kv \/ r.evidence_source = "verifier_exception_or_block_reason"
          /\ r.evidence # <<>> => r.authoritative
    /\ r.counts => r.evidence # <<>>

\* validate_verifier_evidence_trace_record
Fault_AnyVersion(r) == r.complete /\ r.diagnostic_only /\ EvidenceValid(r)
ValidRecord(r) ==
    r.complete /\ r.diagnostic_only /\ r.version = SchemaVersion /\ EvidenceValid(r)

\* _detect_alias_attack
AliasDetected(r) ==
    \/ r.same_object
    \/ r.proposal_source = r.evidence_source
    \/ UnmarkedCopy(r)
    \/ r.checked # <<>> /\ r.proposal # <<>> /\ r.checked # r.proposal

\* execute_stage3_dry_run: the terminal state it reaches.
Stage3(r) ==
    CASE AliasDetected(r) \/ ~ValidRecord(r)
         \/ r.proposal_source \in ForbiddenProposalSources ->
            [terminal |-> "INVALID_TRACE", mismatch |-> <<>>]
      [] ~(r.available /\ r.evidence # <<>>) ->
            [terminal |-> "BLOCK_MISSING_EVIDENCE", mismatch |-> <<>>]
      [] OTHER -> PrefixWalk(r.proposal, r.evidence)

\* simulate_rollback
RollbackTriggered(terminal) == terminal # "ACCEPT_PREFIX"

\* run_verifier_comparison, which trusts the record more than Stage 3 does: it
\* knows one wrong version.
VerifierComparison(r) ==
    CASE r.version = "corrupted_v99" -> [terminal |-> "INVALID_TRACE", mismatch |-> <<>>]
      [] r.version # "corrupted_v99" /\ r.available /\ r.evidence # <<>> ->
            PrefixWalk(r.proposal, r.evidence)
      [] OTHER -> [terminal |-> "BLOCK_MISSING_EVIDENCE", mismatch |-> <<>>]

\* evaluate_l4_trace_only_input, on the record's proposal and evidence.
TraceOnlyStatus(r) ==
    CASE r.proposal_source \in TraceOnlyForbidden -> "invalid_trace"
      [] r.proposal = <<>> -> "blocked_missing_proposal"
      [] r.evidence = <<>> -> "blocked_missing_verifier_evidence"
      [] r.proposal[1] # r.evidence[1] -> "first_token_mismatch"
      [] \E n \in 0..Len(r.evidence) : r.proposal = SubSeq(r.evidence, 1, n) -> "all_match"
      [] OTHER -> "partial_match"

\* verifier_decision_status, as _build_verifier_evidence_block computes it.
EvidenceStatus(p, v) ==
    CASE PrefixWalk(p, v).mismatch = <<0>> -> "first_token_mismatch"
      [] PrefixWalk(p, v).terminal = "ACCEPT_PREFIX" -> "all_match"
      [] OTHER -> "partial_match"

\* The kinds of damage the injection panel and the schema tests put into a
\* record: fields lost, marks lost, evidence lost, replaced or shared.
Damaged(r) ==
    { [r EXCEPT !.complete = FALSE],
      [r EXCEPT !.version = "poisoned_v99"],
      [r EXCEPT !.diagnostic_only = FALSE],
      [r EXCEPT !.evidence_source = r.proposal_source],
      [r EXCEPT !.evidence_source = "committed_token_ids_unmarked",
                !.full_kv = FALSE, !.authoritative = FALSE],
      [r EXCEPT !.full_kv = FALSE],
      [r EXCEPT !.authoritative = FALSE],
      [r EXCEPT !.evidence = r.proposal, !.same_object = TRUE],
      [r EXCEPT !.checked = r.checked \o r.checked],
      [r EXCEPT !.evidence = <<>>],
      [r EXCEPT !.evidence = <<>>, !.available = FALSE, !.block_reason = TRUE],
      [r EXCEPT !.evidence = <<>>, !.counts = TRUE,
                !.evidence_source = "accepted_token_counts_only"],
      [r EXCEPT !.proposal_source = "committed_tokens"] }
=============================================================================
