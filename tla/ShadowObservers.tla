-------------------------- MODULE ShadowObservers --------------------------
(***************************************************************************)
(* The generator with a guarded decode-time shadow observer attached       *)
(* (exactkv/attention/decode_time_shadow_observer.py), and what the        *)
(* post-hoc tools of exactkv/attention and exactkv/safety derive from the  *)
(* traces it returns and from the snapshots the observer collected.        *)
(*                                                                         *)
(* The generator's steps are those of ExactKVGenerator; this module keeps  *)
(* the full VerificationTraces, of which that one keeps what it needs.     *)
(***************************************************************************)
EXTENDS ExactKVGenerator, RoundEvidence

VARIABLES
    result_traces,       \* the VerificationTraces of the result
    gen_tokens_before,   \* the output before the round's commit
    snapshots,           \* the observer's snapshots,
    decode_cells,        \* its decode_time_shadow_cells,
    callback_exceptions  \* and the number of its shadow_callback_exceptions

observed == <<snapshots, decode_cells, callback_exceptions>>
shadow_vars == <<vars, result_traces, gen_tokens_before, observed>>

ShadowInit ==
    /\ Init
    /\ result_traces = <<>>
    /\ gen_tokens_before = <<>>
    /\ snapshots = <<>>
    /\ decode_cells = <<>>
    /\ callback_exceptions = 0

\* The round's VerificationTrace, from the locals that Align drops.
RoundTrace ==
    [ round_idx           |-> Len(result_traces),
      draft_tokens        |-> draft.token_ids,
      acceptance          |-> acceptance,
      full_seq_len_before |-> Len(request.prompt) + Len(all_generated),
      full_seq_len_after  |-> seq_len ]

AlignTraced ==
    /\ Align
    /\ result_traces' = Append(result_traces, RoundTrace)
    /\ gen_tokens_before' = all_generated
    /\ UNCHANGED observed

\* The snapshot _notify_round_observer builds after the commit.
Fault_SnapshotOmitsRound ==
    LET t == result_traces[Len(result_traces)]
    IN  LiveSnapshot(t.round_idx, request.prompt, gen_tokens_before, gen_tokens_before,
                     t.draft_tokens, t.acceptance, t.full_seq_len_before, seq_len)
RoundSnapshot ==
    LET t == result_traces[Len(result_traces)]
    IN  LiveSnapshot(t.round_idx, request.prompt, gen_tokens_before, all_generated,
                     t.draft_tokens, t.acceptance, t.full_seq_len_before, seq_len)

\* A replay that raises ends in the observer's list of exceptions, never in
\* generate; one that returns a blocker only leaves a blocked cell.
Fault_CountsBlocked(s) ==
    LET cell == DecodeTimeCell(s)
    IN  /\ snapshots' = Append(snapshots, s)
        /\ decode_cells' = Append(decode_cells, cell)
        /\ callback_exceptions' = callback_exceptions + IF cell.top1 = <<>> THEN 1 ELSE 0
Observe(s) ==
    LET cell == DecodeTimeCell(s)
    IN  /\ snapshots' = Append(snapshots, s)
        /\ decode_cells' = Append(decode_cells, cell)
        /\ callback_exceptions' =
              callback_exceptions + IF cell.blocker = "raised" THEN 1 ELSE 0

NotifyObserved ==
    /\ Notify
    /\ IF request.observer = "live" THEN Observe(RoundSnapshot) ELSE UNCHANGED observed
    /\ UNCHANGED <<result_traces, gen_tokens_before>>

OtherStep ==
    /\ pc \notin {"align", "notify"}
    /\ Step
    /\ UNCHANGED <<result_traces, gen_tokens_before, observed>>

RaisesUnobserved ==
    NotifyRaises /\ UNCHANGED <<result_traces, gen_tokens_before, observed>>

ShadowNext ==
    \/ AlignTraced \/ NotifyObserved \/ RaisesUnobserved \/ OtherStep
    \/ Finished /\ UNCHANGED shadow_vars

ShadowSpec == ShadowInit /\ [][ShadowNext]_shadow_vars

-----------------------------------------------------------------------------
(* Properties *)

Observed == request.observer = "live"
FullSequence == request.prompt \o all_generated

\* compare_snapshots_to_traces finds no mismatch at the end of any round, every
\* snapshot is recognised as post-commit, and the prefixes chain: each round's
\* starts where the one before ended and the last is the whole sequence.
SnapshotsMatchTraces ==
    Observed /\ pc \notin {"notify", "raised"} =>
        /\ compare_snapshots_to_traces(snapshots, result_traces)
        /\ \A i \in DOMAIN snapshots :
              /\ snapshot_is_post_commit(snapshots[i])
              /\ snapshots[i].prefix_before =
                    (IF i = 1 THEN request.prompt ELSE snapshots[i - 1].prefix_after)
        /\ snapshots # <<>> /\ pc # "align" =>
              snapshots[Len(snapshots)].prefix_after = FullSequence

\* A shadow replay inside the callback sees what a replay after the generation
\* sees: the cells, those of blocked and raising replays among them, are the ones
\* computed from the traces and the final sequence, cut at the boundaries that the
\* traces report.  The observer has kept an exception for each round whose replay
\* raises there, and for no round whose replay is blocked without raising.
DecodeTimeAgrees ==
    Observed /\ pc = "returned" =>
        LET after == RoundLogCells(result_traces, FullSequence)
        IN  /\ decode_cells = after
            /\ callback_exceptions =
                  Cardinality({i \in DOMAIN after : after[i].blocker = "raised"})

\* A cell's top-1 token is a prediction for the position after its round's last
\* token: where the replay is as exact as the full model, the output goes on with
\* it.  The token the panels compare it with, the one with the cell's index, is
\* always one that the replay already had in its context.
TopOneIsNextToken ==
    \A i \in DOMAIN decode_cells :
        LET n == decode_cells[i].shadow_sequence_length
            exact == decode_cells[i].top1 = <<FullNext(SubSeq(FullSequence, 1, n))>>
        IN  /\ Len(request.prompt) + i <= n
            /\ n < Len(FullSequence) /\ exact =>
                  decode_cells[i].top1 = <<FullSequence[n + 1]>>

\* Proposals are the same whether read from the traces or from the snapshots; a
\* proposal matches what its round committed exactly when the round needed no
\* correction; and the panel's coverage adds up to the generator's own totals.
ProposalsAddUp ==
    pc \notin {"notify", "raised", "commit", "align"} =>
        LET ps == ProposalsFromTraces(result_traces)
            coverage == Coverage(ps)
        IN  /\ Observed => ps = ProposalsFromSnapshots(snapshots)
            /\ \A i \in DOMAIN ps :
                  ps[i].matched = <<result_traces[i].acceptance.correction_token = <<>>>>
            /\ coverage.with_draft = coverage.total_rounds
            /\ coverage.total_proposed_tokens = totals.accepted + totals.rejected
            /\ TallyTotal(coverage.accepted_counts) = totals.accepted
            /\ coverage.prefix_not_match = totals.corrections
            /\ TallyTotal(coverage.rejected_counts) = totals.rejected + totals.corrections

\* The dry run decides as the generator did: it accepts a round's record exactly
\* when the verifier matched the whole draft, otherwise rejects it at the first
\* token the generator corrected and rolls back; the trace-only evaluation, the
\* evidence block's status and the plain comparison say the same.
Stage3Agrees ==
    \A i \in DOMAIN result_traces :
        LET t == result_traces[i]
            r == SchemaRecord(t)
            decision == Stage3(r)
        IN  /\ decision = VerifierComparison(r)
            /\ decision.terminal = (IF t.acceptance.all_matched THEN "ACCEPT_PREFIX" ELSE "REJECT")
            /\ PrefixLength(r.proposal, r.evidence) = Len(t.acceptance.accepted_tokens)
            /\ RollbackTriggered(decision.terminal) <=> t.acceptance.correction_token # <<>>
            /\ TraceOnlyStatus(r) = EvidenceStatus(r.proposal, r.evidence)
            /\ (TraceOnlyStatus(r) = "all_match") <=> (decision.terminal = "ACCEPT_PREFIX")

\* The dry run fails closed: no record of a round that was damaged afterwards is
\* accepted, and none is even compared, whatever the round's outcome was.
DamagedRecordsBlocked ==
    \A i \in DOMAIN result_traces : \A r \in Damaged(SchemaRecord(result_traces[i])) :
        Stage3(r).terminal \in {"INVALID_TRACE", "BLOCK_MISSING_EVIDENCE"}

\* The shadow panel has one record per token where the round log has one per round.
\* The provenance audit flags a misalignment at every proposal that has a token, and
\* at no blocked one, as soon as some round committed several tokens, which is when
\* the side-by-side panel has rounds that the log does not have.  Where every round
\* committed one token it flags nothing, although TopOneIsNextToken says that the
\* panel compares with a token the replay already had there too.
AuditFlagsMisalignment ==
    Observed /\ pc = "returned" =>
        LET cells == PosthocCells(snapshots)
            shadow == Top1Proposals(all_generated, cells)
            several == \E i \in DOMAIN result_traces :
                          result_traces[i].full_seq_len_after
                              > result_traces[i].full_seq_len_before + 1
        IN  /\ \A i \in DOMAIN shadow :
                  AlignmentMismatch(shadow[i], cells, all_generated)
                      <=> several /\ shadow[i].source = "decode_time_shadow_top1"
            /\ (\E r \in SideBySide(ProposalsFromTraces(result_traces), shadow) :
                    ~r.in_round_log) <=> several
=============================================================================
