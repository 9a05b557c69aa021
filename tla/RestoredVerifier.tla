-------------------------- MODULE RestoredVerifier --------------------------
(***************************************************************************)
(* The restored-verifier runtime: exactkv/runtime/experimental.py checks a *)
(* configuration, exactkv/cache/restored_verifier_runner.py runs its cells *)
(* and judges them, exactkv/cache/offline_verifier.py performs one cell: a *)
(* prefill cache is stored, reloaded, and verifies drafts as in the        *)
(* generator, but every failure is caught and reported as a blocker.       *)
(*                                                                         *)
(* Drafting and verifying work on deep copies; ExactKVGenerator models     *)
(* them token by token, here each is one step.  What storage may do to an  *)
(* entry is KVStorage's subject: here a reload yields what was stored or   *)
(* raises.                                                                 *)
(***************************************************************************)
EXTENDS Acceptance, KVCaches, FiniteSets

CONSTANTS Configs    \* the configurations a run may be started with

\* entry:  the API that is called, run_experimental_restored_verifier or
\*         run_restored_verifier; "script" is a script that runs controlled cells
\* report: the Phase 12F report on disk, "absent", "passed" or "failed"
ConfigFields == [ entry : {"experimental", "runner", "script"}, enabled : BOOLEAN,
                  mode : {"restored_verifier_offline", "off"},
                  prompts : SUBSET (Seq(Token) \ {<<>>}),
                  compressors : SUBSET (CompressorKinds \cup {"unknown"}),
                  draft_lens : SUBSET Nat, max_new_tokens : Nat,
                  report : {"absent", "passed", "failed"} ]

ASSUME ConfigsOK ==
    \A c \in Configs : c \in ConfigFields /\ IsFiniteSet(c.prompts) /\ IsFiniteSet(c.draft_lens)

VARIABLES
    config, pc,
    todo,           \* the cells still to run
    cell,           \* the cell being run: [prompt, compressor, draft_len]
    kv,             \* the heap of caches
    full_state,     \* FullKVState built from the reloaded prefill
    compressed,     \* CompressedKVState
    draft, acceptance, committed,
    reference,      \* live_reference_token_ids
    output, traces,
    blocker,        \* "", "restore", "draft" or "verification"
    results,        \* the finished cells
    status          \* of the report, or why there is none

round == <<draft, acceptance, committed>>
cellVars == <<cell, kv, full_state, compressed, round, reference, output, traces, blocker>>
vars == <<config, pc, todo, cellVars, results, status>>

-----------------------------------------------------------------------------
(* Configurations and cells *)

\* validate_experimental_config finds no error in an enabled configuration.
Fault_AnyDraftLen(c) ==
    /\ c.mode = "restored_verifier_offline"
    /\ {} \notin {c.prompts, c.compressors, c.draft_lens}
    /\ c.max_new_tokens > 0
ConfigValid(c) ==
    /\ c.mode = "restored_verifier_offline"
    /\ {} \notin {c.prompts, c.compressors, c.draft_lens}
    /\ c.max_new_tokens > 0
    /\ 0 \notin c.draft_lens

\* backends are left out: a cell does the same on each of them.
Cells(c) == [prompt : c.prompts, compressor : c.compressors, draft_len : c.draft_lens]

Controlled == config.entry = "script"

NoState == [past_key_values |-> "full", generated_ids |-> <<>>, next_token_id |-> 0]
NoCompressed == [data |-> "full", next_token_id |-> 0, logical_seq_len |-> 0]
NoAcceptance == compute_acceptance(<<>>, <<>>)
NoCell == [prompt |-> <<>>, compressor |-> "noop", draft_len |-> 0]

Init ==
    /\ config \in Configs
    /\ pc = "start"
    /\ todo = {}
    /\ cell = NoCell
    /\ kv = [c \in {"stored", "full", "compressed"} |-> NoCache]
    /\ full_state = NoState /\ compressed = NoCompressed
    /\ draft = <<>> /\ acceptance = NoAcceptance /\ committed = <<>>
    /\ reference = <<>> /\ output = <<>> /\ traces = <<>> /\ blocker = ""
    /\ results = <<>>
    /\ status = "running"

ForgetRound == draft' = <<>> /\ acceptance' = NoAcceptance /\ committed' = <<>>

Ends(why) == pc' = "ended" /\ status' = why

\* run_experimental_restored_verifier, then check_phase12f_exactness_gate.
Start ==
    LET experimental == config.entry = "experimental"
    IN  /\ pc = "start"
        /\ CASE experimental /\ ~config.enabled          -> Ends("disabled")
             [] experimental /\ config.enabled /\ ~ConfigValid(config) -> Ends("invalid")
             [] OTHER -> IF ~Controlled /\ config.report = "failed"
                         THEN Ends("raised") ELSE pc' = "next" /\ UNCHANGED status
        /\ todo' = IF pc' = "next" THEN Cells(config) ELSE {}
        /\ UNCHANGED <<config, cellVars, results>>

\* The runner's loops, in any order: the cells share no state.
NextCell ==
    /\ pc = "next"
    /\ \E c \in todo : cell' = c /\ todo' = todo \ {c}
    /\ reference' = <<>> /\ output' = <<>> /\ traces' = <<>> /\ ForgetRound
    /\ blocker' = IF cell'.compressor = "unknown" /\ ~Controlled THEN "draft" ELSE ""
    /\ pc' = IF blocker' = "" THEN "restore" ELSE "judge"
    /\ UNCHANGED <<config, kv, full_state, compressed, results, status>>

\* A caught exception: the loop or the cell ends with a blocker.
Blocked(kind) == blocker' = kind /\ pc' = "judge"

-----------------------------------------------------------------------------
(* store_and_reload_prefill_state, then generate_full_greedy *)

Greedy == INSTANCE GreedyDecoding
          WITH prompt <- cell.prompt, max_new_tokens <- config.max_new_tokens

\* The sequences of at most n tokens.
UpTo(n) == UNION {[1..k -> Token] : k \in 0..n}

\* What generate_full_greedy returns: the whole greedy output, of which there is
\* one; GreedyBaselines models how.
IsReference(p, n, s) == Greedy!Continues(p, s) /\ (Len(s) = n \/ EndsWithEos(s))
References(p, n) == {s \in UpTo(n) : IsReference(p, n, s)}

\* restore_cache_from_storage_payload builds a cache of its own from the tensors.
Fault_RestoreAliases == "stored"
RestoredRef == "full"

Restore ==
    LET cache == PrefillCache(cell.prompt)
    IN  /\ pc = "restore"
        /\ \/ /\ kv' = [kv EXCEPT !["stored"] = cache, ![RestoredRef] = cache]
              /\ \E t \in Predictions(cache) :
                    full_state' = [ past_key_values |-> RestoredRef, generated_ids |-> <<>>,
                                    next_token_id   |-> t ]
              /\ reference' \in References(cell.prompt, config.max_new_tokens)
              /\ pc' = IF Controlled THEN "round" ELSE "compress"
              /\ UNCHANGED blocker
           \/ Blocked("restore") /\ UNCHANGED <<kv, full_state, reference>>
        /\ UNCHANGED <<config, todo, cell, compressed, round, output, traces,
                       results, status>>

-----------------------------------------------------------------------------
(* run_offline_verifier_loop, run_offline_lossy_verifier_loop *)

\* compress() and, after a commit, update_after_commit(): as in ExactKVGenerator.
Recompress(fs) ==
    LET lossy == cell.compressor # "noop"
        full_kv == kv[fs.past_key_values]
    IN  /\ kv' = IF lossy THEN [kv EXCEPT !["compressed"] = [full_kv EXCEPT !.exact = FALSE]]
                 ELSE kv
        /\ \E next \in CompressedNext(cell.compressor, fs.next_token_id) :
              compressed' = [ data            |-> IF lossy THEN "compressed"
                                                  ELSE fs.past_key_values,
                              next_token_id   |-> next,
                              logical_seq_len |-> Len(cell.prompt) + Len(fs.generated_ids) ]

Compress ==
    /\ pc = "compress"
    /\ \/ Recompress(full_state) /\ pc' = "round" /\ UNCHANGED blocker
       \/ Blocked("draft") /\ UNCHANGED <<kv, compressed>>
    /\ UNCHANGED <<config, todo, cell, reference, full_state, round, output, traces, results, status>>

Remaining == config.max_new_tokens - Len(output)
Fault_IgnoresBudget == cell.draft_len
RoundDraftLen == Smaller(cell.draft_len, Remaining)

\* The round after Len(traces) others has an odd round_idx.
Fault_OddFromOne == Len(traces) % 2 = 0
OddRound == Len(traces) % 2 = 1

\* propose_controlled_draft: the reference's own tokens, in every other round with
\* the second one replaced.
propose_controlled_draft(n) ==
    LET chunk == SubSeq(reference, Len(output) + 1,
                        Smaller(Len(output) + n, Len(reference)))
    IN  IF OddRound /\ Len(chunk) >= 2
        THEN [chunk EXCEPT ![2] = (@ + 1) % VocabSize]
        ELSE chunk

\* The model's possible predictions after the cache and the tokens s.
After(ref, s) == Predictions([kv[ref] EXCEPT !.tokens = @ \o s])

\* What draft_lossy_tokens may return: it starts with the compressed state's next
\* token, goes on with predictions on a copy of its cache, and stops at EOS or at
\* n tokens.  A token id outside the vocabulary cannot be run through the model.
LossyDrafts(n) ==
    IF n = 0 THEN {<<>>}
    ELSE {d \in {<<compressed.next_token_id>> \o s : s \in UpTo(n - 1)} :
            /\ \A i \in 2..Len(d) : /\ d[i - 1] \in Token \ {EOS}
                                    /\ d[i] \in After(compressed.data, SubSeq(d, 1, i - 1))
            /\ Len(d) = n \/ EndsWithEos(d)}

Drafts == IF Controlled THEN {propose_controlled_draft(RoundDraftLen)}
          ELSE LossyDrafts(RoundDraftLen)

Fault_EosIsNoEnd == Remaining > 0
MoreToDo == Remaining > 0 /\ ~EndsWithEos(output)

\* The loop breaks on an empty draft: a draft length of 0, or no reference left.
Fault_ContinuesOnNothing(d) == IF d = <<>> THEN "round" ELSE "verify"
AfterDraft(d) == IF d = <<>> THEN "judge" ELSE "verify"

Draft ==
    /\ pc = "round"
    /\ MoreToDo
    /\ \/ /\ draft' \in Drafts
          /\ pc' = AfterDraft(draft')
          /\ UNCHANGED blocker
       \/ ~Controlled /\ Blocked("draft") /\ UNCHANGED draft
    /\ UNCHANGED <<config, todo, cell, reference, kv, full_state, compressed, acceptance,
                   committed, output, traces, results, status>>

LoopEnds ==
    /\ pc = "round"
    /\ ~MoreToDo
    /\ pc' = "judge"
    /\ UNCHANGED <<config, todo, cellVars, results, status>>

\* verify_sequential on a deep copy of the restored cache: predictions after the
\* drafted tokens, up to and including the first the draft does not have.
VerifierTokens(d) ==
    {v \in UpTo(Len(d)) :
        /\ v # <<>> /\ v[1] = full_state.next_token_id
        /\ \A i \in 2..Len(v) : /\ v[i - 1] = d[i - 1]
                                /\ v[i] \in After(full_state.past_key_values, SubSeq(d, 1, i - 1))
        /\ Len(v) = Len(d) \/ v[Len(v)] # d[Len(v)]}

Verify ==
    /\ pc = "verify"
    /\ \/ /\ \E v \in VerifierTokens(draft) : acceptance' = compute_acceptance(draft, v)
          /\ pc' = "commit"
          /\ UNCHANGED blocker
       \/ Blocked("verification") /\ UNCHANGED acceptance
    /\ UNCHANGED <<config, todo, cell, reference, kv, full_state, compressed, draft, committed,
                   output, traces, results, status>>

\* commit_full_state: the restored cache grows, except by EOS.
Fault_DropsCorrection == TruncateAtEos(acceptance.accepted_tokens)
RoundCommits == TruncateAtEos(CommittedBy(acceptance))

Commit ==
    LET ref == full_state.past_key_values
        fed == WithoutEos(RoundCommits)
    IN  /\ pc = "commit"
        /\ committed' = RoundCommits
        /\ kv' = [kv EXCEPT ![ref].tokens = @ \o fed]
        /\ \E next \in IF EndsWithEos(RoundCommits) THEN {EOS} ELSE Predictions(kv'[ref]) :
              full_state' = [full_state EXCEPT !.generated_ids = @ \o RoundCommits,
                                               !.next_token_id = next]
        /\ pc' = IF committed' = <<>> THEN "judge"
                 ELSE IF Controlled THEN "extend" ELSE "update"
        /\ UNCHANGED <<config, todo, cell, reference, compressed, draft, acceptance, output,
                       traces, blocker, results, status>>

\* A forward call of commit_full_state raises: nothing catches it.
CommitRaises ==
    /\ pc = "commit"
    /\ Ends("raised")
    /\ UNCHANGED <<config, todo, cellVars, results>>

\* The loop returns before it has added what it committed to the output.
Update ==
    /\ pc = "update"
    /\ \/ Recompress(full_state) /\ pc' = "extend" /\ UNCHANGED blocker
       \/ Blocked("draft") /\ UNCHANGED <<kv, compressed>>
    /\ UNCHANGED <<config, todo, cell, reference, full_state, round, output, traces, results, status>>

Extend ==
    /\ pc = "extend"
    /\ output' = output \o committed
    /\ traces' = Append(traces, [ drafted |-> Len(draft),
                                  accepted_prefix_length |-> Len(acceptance.accepted_tokens),
                                  correction_token |-> acceptance.correction_token,
                                  all_matched |-> acceptance.all_matched ])
    /\ pc' = "round"
    /\ ForgetRound
    /\ UNCHANGED <<config, todo, cell, reference, kv, full_state, compressed, blocker, results, status>>

-----------------------------------------------------------------------------
(* The verdict on a cell and on the run *)

\* first_divergence_index of the reference and the output, 0-based; <<>> for None.
first_divergence ==
    LET m == MatchLen(reference, output)
    IN  IF m = Len(reference) /\ m = Len(output) THEN <<>> ELSE <<m>>

Fault_IgnoresBlockers == first_divergence = <<>>
Fault_ComparesCommonPrefix ==
    MatchLen(reference, output) = CommonLen(reference, output) /\ blocker = ""
Exact == first_divergence = <<>> /\ blocker = ""

\* A cell blocked before its loop reports no output and no divergence.
Judge ==
    /\ pc = "judge"
    /\ results' = Append(results,
          [ cell |-> cell, output |-> output, blocker |-> blocker,
            token_exact_match |-> Exact,
            exactkv_failure   |-> IF Exact THEN 0 ELSE 1,
            first_divergence  |-> IF blocker = "restore" \/ cell.compressor = "unknown"
                                  THEN <<>> ELSE first_divergence,
            draft_divergences |->
                Cardinality({i \in 1..Len(traces) : ~traces[i].all_matched}) ])
    /\ pc' = "next"
    /\ UNCHANGED <<config, todo, cellVars, status>>

Failures == Cardinality({i \in 1..Len(results) : results[i].exactkv_failure > 0})

Report ==
    /\ pc = "next"
    /\ todo = {}
    /\ Ends(IF Failures = 0 THEN "pass" ELSE "failed")
    /\ UNCHANGED <<config, todo, cellVars, results>>

Ended == pc = "ended" /\ UNCHANGED vars

Step ==
    \/ Start \/ NextCell \/ Restore \/ Compress
    \/ Draft \/ LoopEnds \/ Verify \/ Commit \/ CommitRaises \/ Update \/ Extend
    \/ Judge \/ Report

Next == Step \/ Ended

Spec == Init /\ [][Next]_vars

\* One thread runs the cells and nothing in it waits.
FairSpec == Spec /\ WF_vars(Step)
-----------------------------------------------------------------------------
(* Properties *)

Cache == [tokens : Seq(Token), exact : BOOLEAN]
Optional(S) == {<<>>} \cup {<<x>> : x \in S}

\* Type correctness: every committed token is in the vocabulary, and no round,
\* whatever it drafts, takes the output past the budget.
TypeOK ==
    /\ config \in Configs
    /\ pc \in { "start", "next", "restore", "compress", "round", "verify", "commit",
                "update", "extend", "judge", "ended" }
    /\ todo \subseteq Cells(config)
    /\ cell \in Cells(config) \cup {NoCell}
    /\ kv \in [{"stored", "full", "compressed"} -> Cache]
    /\ full_state \in [past_key_values : {"full"}, generated_ids : Seq(Token),
                       next_token_id : Token]
    /\ compressed \in [data : {"full", "compressed"}, next_token_id : TokenId,
                       logical_seq_len : Nat]
    /\ draft \in Seq(TokenId) /\ committed \in Seq(Token)
    /\ output \in Seq(Token) /\ Len(output) <= config.max_new_tokens
    /\ blocker \in {"", "restore", "draft", "verification"}
    /\ \A i \in 1..Len(results) :
          results[i].first_divergence \in Optional(0..config.max_new_tokens)
    /\ status \in {"running", "disabled", "invalid", "raised", "pass", "failed"}

Looping == pc \in {"round", "verify", "commit", "update", "extend"}

\* Reloading shares no cache with the store: whatever the loop commits, the
\* stored entry stays the prefill it was, and the restored cache holds the
\* prompt and the committed tokens but a final EOS.  The committed tokens are
\* the output's, but for those of a round whose update_after_commit raised:
\* they are in the state the cell drops and never in what it reports.
RestoredCacheCoversCommits ==
    Looping =>
        /\ kv["stored"] = PrefillCache(cell.prompt)
        /\ kv[full_state.past_key_values] =
              [ tokens |-> cell.prompt \o WithoutEos(full_state.generated_ids),
                exact  |-> TRUE ]
        /\ full_state.generated_ids =
              output \o (IF pc \in {"update", "extend"} THEN committed ELSE <<>>)
        /\ pc # "extend" /\ ~Controlled => compressed.logical_seq_len =
              Len(cell.prompt) + Len(output)

\* Wherever a cell stops, at a failure of storage, compressor, draft or verifier
\* too, what it reports is a greedy continuation within the budget: a cell that
\* fails has reported too little, never a wrong token, and the divergence it
\* reports is the place where its output ends.
FailureOnlyTruncates ==
    \A i \in 1..Len(results) :
        LET r == results[i]
        IN  /\ Greedy!Continues(r.cell.prompt, r.output)
            /\ Len(r.output) <= config.max_new_tokens
            /\ r.first_divergence \in Optional({Len(r.output)})

\* A cell counts as exact only if its output is the whole of the greedy one, and
\* a cell without a blocker that may draft at all is exact.
VerdictSound ==
    \A i \in 1..Len(results) :
        LET r == results[i]
        IN  /\ r.exactkv_failure = 0 => \/ EndsWithEos(r.output)
                                        \/ Len(r.output) = config.max_new_tokens
            /\ r.blocker = "" /\ r.cell.draft_len > 0 => r.exactkv_failure = 0
            /\ r.blocker # "" => ~r.token_exact_match

\* In a controlled cell the verifier accepts exactly what the reference says: a
\* round with the injected mismatch keeps one token and corrects the second, any
\* other round is accepted as a whole.
InjectedMismatchRejected ==
    Controlled => \A i \in 1..Len(traces) :
        LET t == traces[i]
        IN  IF i % 2 = 0 /\ t.drafted >= 2
            THEN t.accepted_prefix_length = 1 /\ t.correction_token # <<>>
            ELSE t.all_matched

\* An enabled experimental run that passes its validation judges every cell, at
\* least one, and passes exactly when nothing was blocked.  Without validation a
\* run can pass with no cell, and fail without a blocker by drafting nothing.
ExperimentalVerdict ==
    config.entry = "experimental" /\ status \in {"pass", "failed"} =>
        /\ config.enabled
        /\ Len(results) = Cardinality(Cells(config)) /\ results # <<>>
        /\ status = "pass" <=> \A i \in 1..Len(results) : results[i].blocker = ""

\* Every run ends, with whatever draft length.
Termination == <>(pc = "ended")
=============================================================================
