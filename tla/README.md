# A TLA+ model of ExactKV

ExactKV decodes with two KV caches: it drafts tokens on a compressed cache,
verifies them on the authoritative full-precision cache, and commits only what
the full model would have said. Its promise is that the output equals greedy
decoding on the full cache. This directory models the code that makes the
promise, and the bookkeeping around it, in TLA+; TLC checks small instances, and
TLAPS proves the main results for all values of the constants.

Paths below are relative to `exactkv/` unless they begin with `docs/`.

## The system

| Part | Code | State it keeps | Operations | What makes it correct |
|---|---|---|---|---|
| Generator | `runtime/exactkv_generator.py`, `runtime/prefill.py`, `cache/full_state.py`, `cache/compressed_state.py` | `FullKVState`, `CompressedKVState`, output, traces, totals | prefill, draft, verify, commit, align, notify the round observer, return | output is greedy decoding; drafting and verifying never touch the authoritative cache; compressed state aligned at round boundaries; traces replay the output; it ends |
| Verification engine | `verification/engine.py` | none beyond a call | `verify_sequential`, `verify_span` | its tokens are the full model's, up to the first mismatch |
| Acceptance | `verification/acceptance.py` | none | `compute_acceptance` | accepted prefix, correction, rejected suffix partition the draft |
| Baselines | `runtime/generation.py` | a cache and an output | `generate_full_greedy`, `generate_lossy_greedy` | the reference every exactness claim is measured against |
| Divergence tools | `metrics/exactness.py`, `benchmarks/runner.py`, `engine/unified_truth_engine.py`, `runtime/kv_probe_layer.py` | caches of their own | first divergence, logits at a divergence, probe cell | look at the position and the context they name |
| Compressors | `compressors/` | compressed data, next token | `compress`, `materialize_for_draft`, `update_after_commit`, `verification_mode` | do not mutate the full state; represent the same tokens |
| Round observers | `attention/live_round_observer.py`, `attention/decode_time_shadow_observer.py` | snapshots, shadow cells, captured exceptions | `observe` | never affect generation; what they collect agrees with the traces |
| Post-hoc tools | `attention/generation_shadow_observer.py`, `safety/guarded_draft_shadow.py`, `safety/l4_*.py` | none: functions of traces and snapshots | proposals, coverage, evidence records, dry-run decisions, provenance audit | decide of a round what the generator decided; damaged evidence is never accepted |
| Serving harness | `serving/cache_lifecycle.py` | entries by id, current ids, id counter | register, append, validate, summarize | ownership, block tables, alignment |
| Sidecar probe | `serving/sidecar_probe.py` | harness, observations | attach, observe, finalize | counts what the generator committed |
| Storage | `cache/storage.py` | dict of entries, or two files per entry | put, get, exists, delete, metadata | what was put is what is got |
| Prefix cache | `cache/remote_prefix.py` | a storage backend | store, retrieve, restore plan | restores only what fits the request |
| Restored-verifier loops | `cache/offline_verifier.py`, `cache/hf_kv_restore.py`, `cache/restored_verifier_runner.py`, `runtime/experimental.py` | as the generator, with a reloaded cache | loops, cells, gate | exactness of the output, blockers reported |
| Contracts | `cache/dual_cache.py`, `cache/materialized_backend.py`, `verify/scheduler.py`, `integrations/` | none | validators of metadata | - |
| The rest | `safety/`, `attention/` (panels), `benchmarks/`, `analysis/`, `platform/`, `metrics/`, `reporting/`, `demo/`, `external/`, `kernel/` | reports on disk | builders and validators of reports, numerics | - |

The parts interact by calls in one thread and by shared references: a
`DynamicCache` is a mutable object which a forward call grows in place, and the
identity compressor hands out the authoritative one. That aliasing is the
system's main hazard, and the reason why caches are objects of a heap here.
Other hard behaviours: EOS inside a draft, at a correction or at a budget
boundary; a batched verification whose arithmetic differs from token-by-token
decoding; exceptions between a commit and its bookkeeping; cache ids and lengths
chosen by callers; files written one after the other. `PROJECT.json`, "hazards",
lists them at their lines.

## Modules

| Module | What it is | Builds on |
|---|---|---|
| `Acceptance` | `compute_acceptance` as an operator | |
| `GreedyDecoding` | the abstract specification: what greedy decoding may emit | |
| `KVCaches` | caches, forward calls and compressors, as the decoding loops see them | |
| `ExactKVGenerator` | the loop of `generate()`, one action per step of a phase | `Acceptance`, `KVCaches`; implements `GreedyDecoding` |
| `GreedyBaselines` | the two baselines | `KVCaches`; implements `GreedyDecoding` |
| `DivergenceTools` | what tools do with the baselines' outputs, and the probe cell | `GreedyBaselines`, `Acceptance` |
| `DiagnosticReport` | a report of captures and probe cells, against what the tools' comments say | `DivergenceTools` |
| `ServingCacheLifecycle` | the harness under arbitrary callers | |
| `ServingSidecarProbe` | the generator composed with the harness | `ExactKVGenerator`, `ServingCacheLifecycle` |
| `KVStorage` | both storage backends, file by file, with crashes and failed writes | |
| `PrefixCache` | the prefix cache on a backend: addresses and restore plans | `KVStorage` |
| `RestoredVerifier` | the restored-verifier runs, from configuration to report | `Acceptance`, `KVCaches`; verdicts against `GreedyDecoding` |
| `RoundEvidence` | what the post-hoc tools compute from a round, as operators | `Acceptance` |
| `ShadowObservers` | the generator with a decode-time observer and those tools | `ExactKVGenerator`, `RoundEvidence` |
| `*_proofs` | theorems about the module named | `SharedLemmas` |
| `SharedLemmas` | lemmas on sequences, induction, `compute_acceptance` and greedy decoding, shared by the proofs | |
| `MC*` | instances for TLC | |

### How `ExactKVGenerator` corresponds to the code

A cache is the tokens it covers and a flag: `exact` is true while the full model
computed all of it. `FullNext(s)`, a constant operator, is the full model's
greedy prediction after the context `s`; a forward call on an exact cache yields
`FullNext` of its tokens, one on any other cache yields any token (a lossy cache
may say anything). This is all the loop needs of a model, and the theorems hold
for every `FullNext`. `kv` is the heap: `full`, `compressed`, `draft` and
`verify` name the objects that exist during a round, and `full_state`,
`compressed`, `draft` and `verifier` hold references. A deep copy writes another
object; its absence would write the original.

| Variable | In the code |
|---|---|
| `request` | arguments of `__init__` and `generate()`; chosen in `Init`, never changed |
| `pc` | the statement `generate()` is at: prefill, round, draft, span, verify, compare, decide, commit, align, notify, returned, raised |
| `full_state`, `compressed` | the two states |
| `draft`, `batched`, `verifier`, `acceptance`, `committed`, `pending` | locals of `_draft`, `_verify_span_batched`, `verify_sequential`, the round, and `_commit` |
| `all_generated`, `totals`, `traces`, `done` | locals of `generate()` |

`Prefill`, `BeginRound`, `DraftForward`/`DraftLast`/`DraftOutOfVocabulary`,
`VerifySpanBatched`, `BeginVerify`, `CompareForward`/`CompareLast`, `Decide`,
`Commit` (one token each), `Align`, `Notify`/`NotifyRaises` and `Return` follow
the code in its order. `Decide` is `compute_acceptance`, the assembly of
`committed`, `_truncate_at_eos` and the test for an empty round. The compressors
are the four kinds the loop can tell apart: `noop` aliases, `lossy` copies and
hands on the full next token, `replay` computes a next token of its own,
`debug_noise` a wrong one. Byte statistics, timing and text are left out.

### How `DivergenceTools` corresponds

A tool follows a baseline that has returned, or runs instead of it; `ToolNext` is
the baseline's own `Step` until then. `FullOutput`, a recursive function, is what
`generate_full_greedy` returned earlier for the same request. `CaptureTopk` and
`FeedTopk` are `capture_divergence_topk`, one forward call a step, first on the
full path and then on the lossy one; `RunProbeCell`, `CellForward` and
`CellDecode` are `run_probe_cell`, whose measuring forward call and decoding share
one cache object. Probabilities, layer captures and drift measures are left out.
`DiagnosticReport` puts such cells one after the other, as the panel drivers do
(`NewCell`, `AppendCell`), so that one behaviour shows what a report with both
kinds holds.

### How the serving modules correspond

An entry of `ServingCacheLifecycle` has the fields of `ServingCacheEntry` that
its methods read. `None` or a mapping is a sequence of length 0 or 1. A call that
raises before it changed anything stutters; `AuthoritativeRaises` and
`CompressedRaises` are the calls that raise after drawing an id.
`ServingSidecarProbe` runs the generator's own `Step` between attaching and
replaying, so its run is the generator's run too. Byte counts and notes are left
out.

### How the storage modules correspond

`KVStorage` has the two backends of `cache/storage.py`. The in-memory one keeps a
*reference* to the payload object, so `heap` holds what each object contains now
and `Mutate` is a caller that goes on using what it stored. The file backend's
`put` is five steps (`torch.save` truncates and fills one file, `write_text` the
other), its `delete` two; between any two of them `WriteFails` (the call raises)
or `Crash` (the process dies; files survive, memory does not) may happen. `get`,
`exists`, `metadata` are operators, evaluated in every reachable state. A handle's
files are named by `filename_stem`, in which `/` becomes `_`; the in-memory key
keeps it. `attempts` and `touched` are history variables: the last completed
operation on a slot and the interrupted ones after it; the slots whose object was
changed. A payload's dtype summary is a value of its own: a cache without tensors
has the summary "none", which is stated and compared; `NoSummary` is an identity
that states none. `PrefixCache` adds `HandleFor`, the identity check and the restore plan;
hash functions are taken to be free of collisions.

### How `RestoredVerifier` corresponds

One behaviour is one run: a configuration is validated, its cells are run one
after another and judged, and a report ends it. A cell stores a prefill, reloads
it, and runs the offline loop; drafting and verifying are one step each
(`ExactKVGenerator` models them token by token), and every call the code wraps in
`try` may fail (`Blocked`), while a failure of `commit_full_state` is not caught
(`CommitRaises`). The `script` entry stands for the scripts that run controlled
cells, whose drafts copy the reference with an injected mismatch in odd rounds.

### How the observer modules correspond

`ShadowObservers` runs the generator's own steps and keeps the full
`VerificationTrace`s. `NotifyObserved` is the callback: a snapshot is built from
the round and a shadow replay of it made at once. `ShadowReplay`, a constant
operator, is that replay's top-1 token and its blocker: none, one that the replay
returns ("replay failed: ...", no decoder layers), or one that it raises. Only the
last is kept as an exception of the callback. The code's own replay is
floating-point streaming attention. `RoundEvidence` translates the
pure functions that read traces and snapshots afterwards: proposals, their
coverage, evidence records and their validation, the prefix walk, Stage 3, the
verifier comparison, the trace-only status, the audit's categories. `Damaged` are
the kinds of damage the repository's own injection panel and schema tests apply.

## Runs

| Run | What it shows | Bounds |
|---|---|---|
| `baselines` | the baselines perform greedy decoding; the lossy one leaves the prompt's cache alone; where tools see a divergence, and that its two sides are compared at one context | the model and prompts of `sidecar_probe` |
| `serving_lifecycle` | the harness under any calls | caches of 1 and 3 tokens growing to 5, blocks of 2, two drawn ids and two chosen ones, five mappings of which three are wrong |
| `sidecar_probe` | all properties of the generator's loop, under the probe, which need not be there: its replay arrives at the generator's lengths | 4 tokens, prompts of 1 and 2 tokens (some followed by EOS at once), budgets 0, 1, 4, draft lengths 0, 1, 3, all methods, compressors and observers; blocks of 2, caches up to 6 |
| `prefix_cache` | reads, and restore plans, after failures | five identities (two models that share a file name, two tokenizers, two token prefixes, three statements of the dtypes: one that fits, "none", and not stated), three payloads (two of the same size, one without tensors), one object, two failures |
| `restored_verifier` | blockers truncate and never corrupt; verdicts are sound; every run ends | one cell of every kind with drafts of 0, 1, 3 tokens, controlled cells with drafts up to 3, runs of two cells, five configurations that do not run |
| `shadow_trace` | observers and post-hoc tools agree with the generator | 3 tokens, prompts of 1 and 2, budgets 1 and 4, drafts of 1 to 3; a replay that is blocked, raises, is wrong or exact, by length and last token |
| `draft_len_zero`, `observer_raises`, `debug_noise_vocabulary`, `sidecar_token_dropping`, `prefix_identity`, `diagnostics` | where code and documentation disagree | each expects a violation; `diagnostics` reports of two cells, one prompt, budget 3 |

Why the bounds are enough: with a budget of 4 and drafts of 3 a request has up
to four rounds, drafts that are accepted, rejected at each position, cut by EOS
and cut by the budget, and corrections that are EOS. The model `MCFullNext`
depends on the first token, the last and the length of its context, so a token
too many, too few or misplaced in any cache changes its predictions; it reaches
EOS within the budget for some prompts and not for others. The prompt of one
token matters to the observer, the modulus 7 above the vocabulary of 4 to
`debug_noise`. In the harness, a cache of 3 tokens fills two blocks, pruned to
two it crosses a block, and growth by 2 changes the number of blocks; the chosen
ids are the ones the harness draws itself. In storage, two failures are enough
for a put over the debris of another one, and payloads of equal size are those
the validation on load cannot tell apart. A controlled cell of budget 4 with
drafts of 2 reaches the odd round with its injected mismatch; runs of two cells
show that cells do not leak into each other. `MaxFailures`, `MaxId` and
`MaxLogical` are the only bounds that stand in guards.

Fairness: a probed `generate()`, the baselines and a restored-verifier run are one
thread in which nothing waits, so weak fairness of the step is what a scheduler
gives any running program; `ProbedCallEnds` and `Termination` need no more. The other
specifications state safety only: nothing there has to happen.

### Properties worth knowing

- `ExactOutput`, `ImplementsGreedy`: what is returned is greedy decoding run to
  its end; round by round the output grows only as `GreedyDecoding` allows. They
  assume a positive draft length (see Findings).
- `AuthoritativeCache`, `OnlyCommitMutates`: the full cache holds the prompt and
  the committed tokens, a final EOS excepted, and only prefill and commit change
  it, aliasing compressor or not.
- `TracesReplayOutput`: the traces follow one another without a gap, and what
  each accepted and corrected is the output between the lengths it reports.
- `AcceptanceByKind`: what each compressor guarantees of its acceptance.
- `AuthorityLateOnLength`, `TopkPathsAgree`: how the two definitions of first
  divergence relate, and that a capture compares its two paths at one context.
  That this is not the context it names is a finding (`ToolsDoAsCommented`).
- `OwnersKeepTheirEntries`, `AppendCannotFail`, `ValidityExplained`: see the
  comments in `ServingCacheLifecycle`.
- `SidecarCountsOutput`, `PhysicalOvercountsEos`: the replayed lengths are right,
  and no replay raises; the physical length of the authoritative entry is one too
  large after EOS, since the generator never runs EOS through the model.
- `ReadYourWrites`, `NeverAheadOfPayload`: a slot none of whose operations was
  interrupted reads as it was left, whatever failed elsewhere; otherwise a
  readable entry pairs a payload with metadata of the same or an *older* put,
  because the payload is written first. The older metadata then agrees in count
  and bytes only: dtypes and shapes are not validated on load.
  The payload that an owner has changed in memory is excepted, but not `exists`, the
  result of `get` and the metadata, which stay those of the put.
- `PlanFitsPayload`: a plan that allows a restore leads to an entry stored for the
  same prompt, tokens and version (and model, in memory), and its metadata are those expected, a stated
  absence of tensors included. What the documents say of model and tokenizer,
  `ForeignPrefixBlocked`, is refuted by `prefix_identity`.
- `FailureOnlyTruncates`, `VerdictSound`: a blocked cell reports a prefix of the
  greedy output, never another token, and a cell counts as exact only when its
  output is the whole of it.
- `Stage3Agrees`, `DamagedRecordsBlocked`: the dry run accepts a round's record
  exactly when the generator's verifier matched the whole draft, and compares no
  record that was damaged.
- `DecodeTimeAgrees`: a replay in the callback gives the cells a replay of the
  finished traces gives, blocked and raising ones included, and the exceptions kept
  are those of the raising ones.
- `AuditFlagsMisalignment`: the shadow proposals are numbered by token, the round
  log by round. The audit flags every proposal that has a token, and no blocked one,
  once some round committed several tokens. Where every round commits one, it flags
  none, though the panel compares with a token the replay had already seen there
  too (`TopOneIsNextToken`).

## Proofs

The theorems hold for every value of the constants that satisfies the named
assumptions of the modules (`ModelOK`, `ConstantsOK`, `BaselinesOK`, `HarnessOK`,
`BlockSizeOK`, `StorageConstantsOK`, `IdentitiesOK`, `ConfigsOK`), all of which TLC
evaluates in the runs.

`ExactKVGenerator_proofs`. `ExactOutput` is not inductive: that the output is
greedy after a commit depends on the verifier's tokens being `FullNext` of the
committed context plus the draft before them, which depends on the verification
cache being a copy of the authoritative one extended by matching tokens only,
which depends on the authoritative cache holding exactly what was committed.
`IInv` says what each phase knows:

- `CacheInv`: the authoritative cache and the prediction stored with it;
- `RoundInv`: the output is greedy, within budget, and rounds run only while
  there is more to emit;
- `DraftInv`: the draft fits, and only its last token may be EOS (or outside the
  vocabulary); hence EOS can be committed only as a last token;
- `VerifyInv`: the verifier's tokens and cache, position by position;
- `CommitInv`: output and committed tokens equal the full state's tokens and the
  pending ones, so that a commit in progress is accounted for.

The proof has one lemma per action, on lemmas about sequences and about
`compute_acceptance` (what is accepted is the longest common prefix). `Refinement`
follows from `IInv`: a step that changes `all_generated` is the `Align` step,
which appends a non-empty greedy continuation within budget, an `Emit`; all
others stutter.

The module's second part adds `RoundsInv`, relative to `IInv`: what the compressor
handed to the round (`StateInv`), that a draft begins with it and, for `noop`,
goes on as the full model does (`FirstInv`), what the decision made of it
(`RoundOutcomeInv`), and that traces and totals account for the output between
rounds. `Replay` and `AcceptedByKind` follow. Its last part is the safety half of
`ProbedCallEnds`: `StepsLeft` starts at `max_new_tokens` rounds of a fixed cost, and
every step lowers it (`StepsRunOut`). Within a round each phase counts down what
it has left to draft, compare and commit; a round that ends has committed a
token, or is the last. A draft length of 0 is included. That the loop does take
its steps is fairness, which TLC checks.

`GreedyBaselines_proofs`: the loop's output is greedy at every token and the
cache is the prompt and the output but its last token (`IInv` there); the end
state and the refinement of `GreedyDecoding` follow. Its second part is about
`DivergenceTools`. `FullOutput` is a recursive function there, so the proof first
shows, by induction over a set of numbers, that the function its definition
describes exists and is greedy decoding run to its end; `ToolInv` then follows
what the probe cell and the top-k capture have fed. `TopkSeesFeed` and
`CellRepeats` say how far two findings go: of which captures and cells the comments
are false, and what those compute instead.

`RestoredVerifier_proofs`: greedy decoding is deterministic, so the reference a
cell is compared with and the cell's own output are prefixes of one continuation
of the prompt. `IInv` says that the restored cache, the full state and the output
follow that continuation together, that the stored entry stays the prefill, and
how far each phase and each blocker has brought the cell; a run's cells are judged
once each. What a draft or an injected mismatch may contain is stated position by
position, on the lemmas about the acceptance rule in `SharedLemmas`. `StepsRunOut`
bounds the steps of a run as it does the generator's: by the cells that wait, the
budget left to the one running, and the phase it is in.

`ServingSidecarProbe_proofs`: `ProbedIsGenerator` shows that a behaviour of the
probe is one of the generator's, so the generator's theorems hold under it.
`ProbeInv` adds that after the replay of `round_idx` traces both entries of the
harness stand where that round ended; `SidecarCountsOutput` is its last case.
`ProbeIsCaller` shows that what the probe does to the harness is what callers of
`ServingCacheLifecycle` may do, so the harness's theorems hold under it too: that
`validate_invariants` fails for nothing but different lengths
(`ValidityExplained`) is why no replay raises.

`ShadowObservers_proofs`: `ShadowInv` says of every record, snapshot and shadow cell
which round it is of, that its fields are that round's, and that its verdict is
what `compute_acceptance` says of its draft and its answers; agreement of the
dry run, refusal of damaged records and the audit's verdict follow as facts about
one record at a time. `ProposalsAddUp` needs sums over sets of rounds
(`MapThenSumSet`, a fold that picks its elements by `CHOOSE`): the module shows
that the fold's table exists, that it is unique, and that its value does not
depend on the order, and from that how a sum changes with one more round.
`SumsInv` then ties the generator's totals to the sums over the records, with a
correction for the round between `Decide` and its trace, and `CommitsInv` bounds
what that round can commit.

`ServingCacheLifecycle_proofs`: every entry is one that could have been
registered with its lengths, since a commit advances both lengths of an unpruned
entry and only the logical one of a pruned entry. That blocks tile the physical
positions is arithmetic about `\div`; that a pruned block's logical range covers
its positions needs an induction along the retained positions, for which
`SharedLemmas` states induction for a *set* of numbers: the library's rule
takes a predicate, which the provers cannot instantiate.

`PrefixCache_proofs` covers `KVStorage` too. Its `IInv` joins types, the
well-formedness of `attempts` (`HistoryInv`), and for each slot what its files or
its entry hold in terms of the history (`MemoryInv`, `FileInv`: an operation in
progress, settled, or interrupted at some step) and whose identity was stored
(`StoredInv`). `PlansFit` rests on addresses being injective in prompt, tokens and
version.

Every invariant and every action property that a passing run checks is stated by
a theorem. Only model-checked are `ProbedCallEnds` and `Termination`: liveness under
fairness is out of the prover's reach. The runs that expect a violation show
behaviours, and have nothing to prove.

## Findings

1. `draft_len` 0 is accepted by the command line and makes `generate()` return an
   empty output (`draft_len_zero`).
2. With a one-token prompt, building the observer's snapshot raises and ends a
   generation it should never affect (`observer_raises`).
3. `debug_noise` may draft an id outside the vocabulary, which raises
   (`debug_noise_vocabulary`).
4. The sidecar probe raises for token-dropping compressors before anything is
   generated (`sidecar_token_dropping`).
5. In the file backend, model ids `a/b` and `a_b` share a file, and the plan of the
   one allows the restore of what the other stored (`prefix_identity`).
6. A prefix stored with one tokenizer is found and its restore allowed under an
   identity with another one (`prefix_identity`; its trace shows both at once).
7. `capture_divergence_topk` steps "through tokens 0..div_idx-2"
   (`benchmarks/runner.py:192`) over `token_sequence[1:div_idx]`: the first token is
   left out and the one before the divergence fed twice, so the logits are not those
   at the divergence (`diagnostics`). By `TopkSeesFeed` they are only where the
   tokens before it are one token repeated.
8. `run_probe_cell` says it simulates compression on copied tensors
   (`runtime/kv_probe_layer.py:3`) and measures layers on the cache it decodes from,
   so even its `noop` mode, which changes no value, decodes after the first token
   twice (`diagnostics`, in the same trace; `CellRepeats`).

Seen on the way, without a run of their own: after EOS the authoritative cache
does not cover all committed tokens, which `cache/full_state.py:16` says it does
(`AuthoritativeCache` states what holds instead); the decode-time panels pair the
n-th *token* with the n-th *round* (`safety/guarded_draft_shadow.py:1660`), where
`docs/PHASE_19B_ROUND_LOG_PROPOSAL_SOURCE_COMPARISON.md:29` speaks of matched
round boundaries (`TopOneIsNextToken`, `AuditFlagsMisalignment`).
`FirstDivergenceAuthority` calls a token mismatch a drift of the length when one
output ended early (`AuthorityLateOnLength`).

## Not modelled

- Floating-point numerics: compressors, quantisation, streaming attention,
  kernels. A lossy prediction is any token, a shadow replay a constant operator.
- `h2o_sim`'s eviction rule and the forward hooks of the kvpress adapters: the
  loops see neither (hazards without a property, with the reason in
  `PROJECT.json`).
- The drift-stress cells and the CUDA gate of the restored-verifier runtime, which
  repeat the loop modelled; `resume_cells` of the serving microbenchmark; metrics.
- Tokenising, text, timing and byte statistics.
- Metadata contracts and their validators, design artefacts, scaffolds of options
  that do nothing, panels, report builders, benchmarks, demos and command lines:
  most of the repository's lines. They keep no state between calls and produce
  files; what they compute of the rounds of a generation is in `RoundEvidence`.

`PROJECT.json` lists each part with its reason.

## What is left

1. The eviction rule of `h2o_sim` against a reference definition.
2. The hooks of the kvpress adapters with `verification_mode`, as a protocol.
3. The drift-stress cells of the restored-verifier runtime as a refinement of
   `RestoredVerifier`.
