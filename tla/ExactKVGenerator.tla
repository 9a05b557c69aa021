-------------------------- MODULE ExactKVGenerator --------------------------
(***************************************************************************)
(* The draft - verify - commit - align loop of                             *)
(* exactkv/runtime/exactkv_generator.py, with the verification engine      *)
(* (exactkv/verification/engine.py) and what the loop needs of the         *)
(* compressors (exactkv/compressors).                                      *)
(*                                                                         *)
(* A KV cache is a mutable object: transformers' DynamicCache grows in     *)
(* place when it is passed to a forward call.  The caches live in the heap *)
(* kv and the program's variables hold references to them, so that a       *)
(* missing deepcopy shows as a change of the authoritative cache.          *)
(***************************************************************************)
EXTENDS Acceptance, KVCaches

CONSTANTS
    Prompts,         \* the encoded prompts a request may carry
    MaxNewTokens,    \* the budgets a request may carry
    DraftLens,       \* the draft lengths a generator may be built with
    Methods,         \* the verification methods
    Compressors,     \* the kinds of compressor
    Observers        \* the kinds of round observer

\* none; LiveRoundObserver, whose observe() catches what it raises; any other callable
ObserverKinds == {"none", "live", "callable"}

ASSUME ConstantsOK ==
    /\ \A p \in Prompts : p \in Seq(Token) /\ p # <<>>
    /\ MaxNewTokens \subseteq Nat
    /\ DraftLens \subseteq Nat
    /\ Methods \subseteq {"sequential", "span"}
    /\ Compressors \subseteq CompressorKinds
    /\ Observers \subseteq ObserverKinds

VARIABLES
    request,        \* the generator's parameters and generate()'s arguments
    pc,             \* where generate() is
    kv,             \* the heap of KV caches
    full_state,     \* FullKVState
    compressed,     \* CompressedKVState
    draft,          \* locals of _draft
    batched,        \* the result of _verify_span_batched
    verifier,       \* locals of verify_sequential
    acceptance,     \* the AcceptanceResult of the round
    committed,      \* the round's committed tokens
    pending,        \* those of them that _commit has still to feed
    all_generated,  \* the output so far
    totals,         \* accepted, rejected and corrected tokens so far
    traces,         \* one VerificationTrace per finished round
    done

locals == <<draft, batched, verifier, acceptance, committed, pending>>
outputs == <<all_generated, totals, traces, done>>
vars == <<request, pc, kv, full_state, compressed, locals, outputs>>

-----------------------------------------------------------------------------
CacheId == {"full", "compressed", "draft", "verify"}

seq_len == Len(request.prompt) + Len(full_state.generated_ids)

-----------------------------------------------------------------------------
(* Compressors *)

\* compress(fs), where heap is the heap with fs's cache in place: NoOp keeps a
\* reference to the full cache, the other compressors build new tensors from it.
Compress(heap, fs) ==
    LET full_kv == heap[fs.past_key_values]
        lossy == request.compressor # "noop"
    IN  /\ kv' = IF lossy
                 THEN [heap EXCEPT !["compressed"] =
                                     [tokens |-> full_kv.tokens, exact |-> FALSE]]
                 ELSE heap
        /\ \E next \in CompressedNext(request.compressor, fs.next_token_id) :
              compressed' = [ data            |-> IF lossy THEN "compressed"
                                                  ELSE fs.past_key_values,
                              next_token_id   |-> next,
                              logical_seq_len |-> Len(request.prompt)
                                                  + Len(fs.generated_ids),
                              generated_ids   |-> fs.generated_ids ]

\* update_after_commit(): every compressor recompresses from the new full state.
Fault_KeepsOldState(heap, fs) == kv' = heap /\ UNCHANGED compressed
UpdateAfterCommit(heap, fs) == Compress(heap, fs)

\* materialize_for_draft(): NoOp hands out the very object it was given.
MaterializeForDraft == compressed.data

-----------------------------------------------------------------------------
(* generate(): prefill *)

NoDraft == [cache |-> "draft", n |-> 0, token_ids |-> <<>>, current |-> 0]
NoVerifier == [cache |-> "verify", tokens |-> <<>>, next |-> 0]
NoAcceptance == compute_acceptance(<<>>, <<>>)

Init ==
    /\ request \in [ prompt : Prompts, max_new_tokens : MaxNewTokens,
                     draft_len : DraftLens, method : Methods,
                     compressor : Compressors, observer : Observers ]
    /\ pc = "prefill"
    /\ kv = [c \in CacheId |-> NoCache]
    /\ full_state = [past_key_values |-> "full", generated_ids |-> <<>>, next_token_id |-> 0]
    /\ compressed = [ data |-> "full", next_token_id |-> 0,
                      logical_seq_len |-> 0, generated_ids |-> <<>> ]
    /\ draft = NoDraft
    /\ batched = NoAcceptance
    /\ verifier = NoVerifier
    /\ acceptance = NoAcceptance
    /\ committed = <<>>
    /\ pending = <<>>
    /\ all_generated = <<>>
    /\ totals = [accepted |-> 0, rejected |-> 0, corrections |-> 0]
    /\ traces = <<>>
    /\ done = FALSE

\* prefill_to_full_state, then the first compress().
Prefill ==
    LET cache == PrefillCache(request.prompt)
    IN  /\ pc = "prefill"
        /\ \E t \in Predictions(cache) :
              /\ full_state' = [full_state EXCEPT !.next_token_id = t]
              /\ Compress([kv EXCEPT !["full"] = cache], full_state')
        /\ pc' = "round"
        /\ UNCHANGED <<request, locals, outputs>>

-----------------------------------------------------------------------------
(* 1. Draft *)

Remaining == request.max_new_tokens - Len(all_generated)

\* How many tokens the round may draft.
Fault_IgnoresBudget == request.draft_len
RoundDraftLen == Smaller(request.draft_len, Remaining)

\* The cache the draft extends: a deep copy of the materialized one.
Fault_DraftAliases == compressed.data
DraftCache == "draft"

\* Where the round goes once its draft is there.
AfterDraft == IF request.method = "span" THEN "span" ELSE "verify"

BeginRound ==
    /\ pc = "round"
    /\ ~done
    /\ Remaining > 0
    /\ kv' = [kv EXCEPT ![DraftCache] = kv[MaterializeForDraft]]
    /\ draft' = [ cache |-> DraftCache, n |-> RoundDraftLen,
                  token_ids |-> <<>>, current |-> compressed.next_token_id ]
    /\ pc' = IF RoundDraftLen > 0 THEN "draft" ELSE AfterDraft
    /\ UNCHANGED <<request, full_state, compressed, batched, verifier,
                   acceptance, committed, pending, outputs>>

\* The token about to be drafted is the round's last: EOS, or the n-th.
Fault_DraftsPastEos == Len(draft.token_ids) = draft.n - 1
LastToDraft == draft.current = EOS \/ Len(draft.token_ids) = draft.n - 1

\* The last drafted token is not run through the model.
DraftLast ==
    /\ pc = "draft"
    /\ LastToDraft
    /\ draft' = [draft EXCEPT !.token_ids = Append(@, draft.current)]
    /\ pc' = AfterDraft
    /\ UNCHANGED <<request, kv, full_state, compressed, batched, verifier,
                   acceptance, committed, pending, outputs>>

DraftForward ==
    /\ pc = "draft"
    /\ ~LastToDraft
    /\ draft.current \in Token
    /\ kv' = [kv EXCEPT ![draft.cache] = Extended(@, draft.current)]
    /\ \E t \in Predictions(kv'[draft.cache]) :
          draft' = [draft EXCEPT !.token_ids = Append(@, draft.current), !.current = t]
    /\ UNCHANGED <<request, pc, full_state, compressed, batched, verifier,
                   acceptance, committed, pending, outputs>>

\* The embedding lookup of a token id outside the vocabulary raises IndexError.
DraftOutOfVocabulary ==
    /\ pc = "draft"
    /\ ~LastToDraft
    /\ draft.current \notin Token
    /\ pc' = "raised"
    /\ UNCHANGED <<request, kv, full_state, compressed, locals, outputs>>

-----------------------------------------------------------------------------
(* 2. Verify *)

\* The verifier tokens up to and including the first that differs from the draft.
CutAtMismatch(d, v) ==
    LET m == MatchLen(d, v) IN IF m < Len(d) THEN SubSeq(v, 1, m + 1) ELSE v

\* _verify_span_batched: one teacher-forced forward of all drafted tokens but the
\* last, on a deep copy.  Its argmaxes may differ from those of single-token
\* forwards (fp16 ties), so beyond the cached first one they are any tokens.
VerifySpanBatched ==
    LET d == draft.token_ids
        teacher == SubSeq(d, 1, Len(d) - 1)
        full_kv == kv[full_state.past_key_values]
    IN  /\ pc = "span"
        /\ IF d = <<>>
           THEN batched' = NoAcceptance /\ UNCHANGED kv
           ELSE /\ \E rest \in [1..(Len(d) - 1) -> Token] :
                     batched' = compute_acceptance(d,
                                    CutAtMismatch(d, <<full_state.next_token_id>> \o rest))
                /\ kv' = [kv EXCEPT !["verify"] =
                                      [full_kv EXCEPT !.tokens = @ \o teacher]]
        /\ pc' = "verify"
        /\ UNCHANGED <<request, full_state, compressed, draft, verifier,
                       acceptance, committed, pending, outputs>>

\* The cache verify_sequential advances: a deep copy of the full one.
Fault_VerifierAliases == full_state.past_key_values
VerifyCache == "verify"

\* verify_sequential starts from that copy and the cached next token.
BeginVerify ==
    /\ pc = "verify"
    /\ kv' = [kv EXCEPT ![VerifyCache] = kv[full_state.past_key_values]]
    /\ verifier' = [ cache |-> VerifyCache, tokens |-> <<>>,
                     next |-> full_state.next_token_id ]
    /\ pc' = IF draft.token_ids = <<>> THEN "decide" ELSE "compare"
    /\ UNCHANGED <<request, full_state, compressed, draft, batched,
                   acceptance, committed, pending, outputs>>

\* The position of the drafted token verify_sequential looks at.
At == Len(verifier.tokens) + 1

LastToCompare == draft.token_ids[At] # verifier.next \/ At = Len(draft.token_ids)

CompareLast ==
    /\ pc = "compare"
    /\ LastToCompare
    /\ verifier' = [verifier EXCEPT !.tokens = Append(@, verifier.next)]
    /\ pc' = "decide"
    /\ UNCHANGED <<request, kv, full_state, compressed, draft, batched,
                   acceptance, committed, pending, outputs>>

CompareForward ==
    /\ pc = "compare"
    /\ ~LastToCompare
    /\ kv' = [kv EXCEPT ![verifier.cache] = Extended(@, draft.token_ids[At])]
    /\ \E t \in Predictions(kv'[verifier.cache]) :
          verifier' = [verifier EXCEPT !.tokens = Append(@, verifier.next), !.next = t]
    /\ UNCHANGED <<request, pc, full_state, compressed, draft, batched,
                   acceptance, committed, pending, outputs>>

-----------------------------------------------------------------------------
(* 3. Decide what to commit *)

\* verify_span falls back to the sequential result when the two differ.
Fault_TrustsBatched ==
    IF request.method = "span" THEN batched
    ELSE compute_acceptance(draft.token_ids, verifier.tokens)
Verified ==
    LET sequential == compute_acceptance(draft.token_ids, verifier.tokens)
    IN  CASE request.method = "sequential" -> sequential
          [] request.method = "span" ->
                IF batched # sequential THEN sequential ELSE batched

\* What ends the loop: EOS among the tokens, or nothing to commit.
Fault_LoopsOnNothing(tokens) == EndsWithEos(tokens)
Fault_IgnoresEos(tokens) == tokens = <<>>
LastRound(tokens) == EndsWithEos(tokens) \/ tokens = <<>>

Decide ==
    LET tokens == TruncateAtEos(CommittedBy(Verified))
    IN  /\ pc = "decide"
        /\ acceptance' = Verified
        /\ committed' = tokens
        /\ pending' = tokens
        /\ totals' = [totals EXCEPT !.corrections = @ + Len(Verified.correction_token)]
        /\ done' = LastRound(tokens)
        /\ pc' = IF tokens = <<>> THEN "round" ELSE "commit"
        /\ UNCHANGED <<request, kv, full_state, compressed, draft, batched,
                       verifier, all_generated, traces>>

-----------------------------------------------------------------------------
(* 4. Commit *)

\* One token of _commit.  The forward call grows the authoritative cache in
\* place; no forward call follows EOS.  The new FullKVState is built up token by
\* token, as the locals of _commit are; nothing reads it before the last.
Commit ==
    LET t == Head(pending)
        ref == full_state.past_key_values
        generated == Append(full_state.generated_ids, t)
    IN  /\ pc = "commit"
        /\ IF t = EOS
           THEN /\ full_state' = [full_state EXCEPT !.generated_ids = generated,
                                                    !.next_token_id = EOS]
                /\ pending' = <<>>
                /\ UNCHANGED kv
           ELSE /\ kv' = [kv EXCEPT ![ref] = Extended(@, t)]
                /\ \E next \in Predictions(kv'[ref]) :
                     full_state' = [full_state EXCEPT !.generated_ids = generated,
                                                      !.next_token_id = next]
                /\ pending' = Tail(pending)
        /\ pc' = IF pending' = <<>> THEN "align" ELSE "commit"
        /\ UNCHANGED <<request, compressed, draft, batched, verifier,
                       acceptance, committed, outputs>>

-----------------------------------------------------------------------------
(* 5. Align, account, notify *)

\* update_after_commit recompresses from the new full state; then the round's
\* bookkeeping.  The round's locals are dropped with it.
Align ==
    /\ pc = "align"
    /\ UpdateAfterCommit(kv, full_state)
    /\ all_generated' = all_generated \o committed
    /\ totals' = [totals EXCEPT !.accepted = @ + Len(acceptance.accepted_tokens),
                                !.rejected = @ + Len(acceptance.rejected_tokens)]
    /\ traces' = Append(traces,
                        [ drafted        |-> Len(draft.token_ids),
                          accepted       |-> acceptance.accepted_tokens,
                          correction     |-> acceptance.correction_token,
                          seq_len_before |-> Len(request.prompt) + Len(all_generated),
                          seq_len_after  |-> seq_len ])
    /\ draft' = NoDraft
    /\ batched' = NoAcceptance
    /\ verifier' = NoVerifier
    /\ acceptance' = NoAcceptance
    /\ committed' = <<>>
    /\ pc' = "notify"
    /\ UNCHANGED <<request, full_state, pending, done>>

\* _notify_round_observer builds a snapshot before it calls the observer: for a
\* prompt of one token, squeeze() leaves a scalar and tuple() of it raises.
SnapshotRaises == request.observer # "none" /\ Len(request.prompt) = 1

Notify ==
    /\ pc = "notify"
    /\ ~SnapshotRaises
    /\ pc' = "round"
    /\ done' = (done \/ Remaining <= 0)
    /\ UNCHANGED <<request, kv, full_state, compressed, locals,
                   all_generated, totals, traces>>

\* A callable observer may raise; LiveRoundObserver.observe keeps its exceptions.
NotifyRaises ==
    /\ pc = "notify"
    /\ SnapshotRaises \/ request.observer = "callable"
    /\ pc' = "raised"
    /\ UNCHANGED <<request, kv, full_state, compressed, locals, outputs>>

\* The loop's condition fails: the result is packaged.
Return ==
    /\ pc = "round"
    /\ done \/ Remaining <= 0
    /\ pc' = "returned"
    /\ UNCHANGED <<request, kv, full_state, compressed, locals, outputs>>

\* ExactKVResult.stopped_on_eos
stopped_on_eos == done /\ EndsWithEos(all_generated)

Finished == pc \in {"returned", "raised"}

\* generate() has ended.
Ended == Finished /\ UNCHANGED vars

Step ==
    \/ Prefill
    \/ BeginRound \/ DraftLast \/ DraftForward \/ DraftOutOfVocabulary
    \/ VerifySpanBatched \/ BeginVerify \/ CompareLast \/ CompareForward
    \/ Decide
    \/ Commit
    \/ Align \/ Notify \/ NotifyRaises \/ Return

Next == Step \/ Ended

Spec == Init /\ [][Next]_vars

\* One thread runs generate() and nothing in it waits.
FairSpec == Spec /\ WF_vars(Step)

-----------------------------------------------------------------------------
(* Properties *)

Request == [ prompt : Prompts, max_new_tokens : MaxNewTokens, draft_len : DraftLens,
             method : Methods, compressor : Compressors, observer : Observers ]
Cache == [tokens : Seq(Token), exact : BOOLEAN]
FullKVState == [past_key_values : {"full"}, generated_ids : Seq(Token), next_token_id : Token]
CompressedKVState == [data : {"full", "compressed"}, next_token_id : TokenId,
                      logical_seq_len : Nat, generated_ids : Seq(Token)]
AcceptanceResult == [draft_tokens : Seq(TokenId), verifier_tokens : Seq(Token),
                     accepted_tokens : Seq(TokenId), correction_token : Seq(Token),
                     rejected_tokens : Seq(TokenId), all_matched : BOOLEAN]
PC == {"prefill", "round", "draft", "span", "verify", "compare", "decide",
       "commit", "align", "notify", "returned", "raised"}

\* Type correctness; it also bounds the draft of a round by the budget.
TypeOK ==
    /\ request \in Request
    /\ pc \in PC
    /\ kv \in [CacheId -> Cache]
    /\ full_state \in FullKVState
    /\ compressed \in CompressedKVState
    /\ draft \in [cache : {"draft"}, n : 0..request.max_new_tokens,
                  token_ids : Seq(TokenId), current : TokenId]
    /\ verifier \in [cache : {"verify"}, tokens : Seq(Token), next : Token]
    /\ acceptance \in AcceptanceResult
    /\ committed \in Seq(Token)
    /\ pending \in Seq(Token)
    /\ all_generated \in Seq(Token)
    /\ totals \in [accepted : Nat, rejected : Nat, corrections : Nat]
    /\ done \in BOOLEAN

\* The authoritative cache is full precision and holds, at every moment, exactly
\* the tokens committed so far, a final EOS excepted (_commit runs no forward
\* call on it): no drafted or rejected token ever reaches it, whatever the
\* compressor shares with it.
AuthoritativeCache ==
    pc # "prefill" =>
        kv[full_state.past_key_values] =
            [ tokens |-> request.prompt \o WithoutEos(full_state.generated_ids),
              exact  |-> TRUE ]

\* FullKVState "must never be mutated by drafting or verification - only by
\* explicit commit": the object is the same and its content changes only there.
OnlyCommitMutates ==
    [][pc \notin {"prefill", "commit"} => UNCHANGED <<full_state, kv["full"]>>]_vars

\* _assert_alignment, and what it stands for: but while tokens are committed, the
\* two states represent the same tokens, which are the output's.
Aligned ==
    pc \notin {"prefill", "commit", "align"} =>
        /\ compressed.logical_seq_len = seq_len
        /\ compressed.generated_ids = full_state.generated_ids
        /\ full_state.generated_ids = all_generated

\* The specification generate is held to: greedy decoding of the same request.
Greedy == INSTANCE GreedyDecoding
          WITH prompt <- request.prompt,
               max_new_tokens <- request.max_new_tokens,
               output <- all_generated

ReturnsGreedy == Greedy!Continues(request.prompt, all_generated) /\ Greedy!Complete

\* generate_full_greedy and generate agree: what generate returns is greedy
\* decoding run to its end, whatever the compressor drafts, whenever it may draft.
ExactOutput == pc = "returned" /\ request.draft_len > 0 => ReturnsGreedy

\* Round by round the output is a greedy continuation that never exceeds the
\* budget and never goes on after EOS, also when generate raises.
ImplementsGreedy == Greedy!Spec

\* A trace reports a round that began when the sequence had length start.
TraceFits(trace, start) ==
    /\ trace.seq_len_before = start
    /\ trace.seq_len_after = start + Len(trace.accepted) + Len(trace.correction)
    /\ trace.accepted \o trace.correction =
          SubSeq(all_generated, start - Len(request.prompt) + 1,
                 trace.seq_len_after - Len(request.prompt))

\* The traces replay the output: they follow one another without a gap, each
\* one's accepted tokens and correction are the output's between the lengths it
\* reports, the last ends where the output does, and the totals are theirs.
\* Truncation at EOS never makes a trace and its commit differ, and a trace never
\* reports more tokens accepted than were committed.
TracesReplayOutput ==
    LET n == Len(traces)
        start(i) == IF i = 1 THEN Len(request.prompt) ELSE traces[i - 1].seq_len_after
    IN  /\ \A i \in 1..n : TraceFits(traces[i], start(i))
        /\ start(n + 1) = Len(request.prompt) + Len(all_generated)
        /\ pc \notin {"commit", "align"} =>
              totals.accepted + totals.corrections = Len(all_generated)

\* What each kind of compressor guarantees of every round: NoOp's drafts are
\* never rejected, a compressor that passes on the full next token gets its
\* first draft accepted, debug_noise gets none.
AcceptanceByKind ==
    \A i \in 1..Len(traces) :
        CASE request.compressor = "noop" ->
                traces[i].correction = <<>> /\ Len(traces[i].accepted) = traces[i].drafted
          [] request.compressor = "lossy" -> traces[i].accepted # <<>>
          [] request.compressor = "debug_noise" -> traces[i].accepted = <<>>
          [] OTHER -> traces[i].accepted \o traces[i].correction # <<>>

-----------------------------------------------------------------------------
(* The inductive invariant: what each phase of a round knows *)

\* The committed context: the prompt and the tokens of the full state.
Ctx == request.prompt \o full_state.generated_ids

\* The authoritative cache, and the prediction computed along with it.
CacheInv ==
    /\ AuthoritativeCache
    /\ pc # "prefill" /\ ~EndsWithEos(full_state.generated_ids) =>
          full_state.next_token_id = FullNext(Ctx)

Drafting == pc \in {"draft", "span", "verify", "compare", "decide"}

\* The output is greedy, and the round runs only while there is more to emit.
RoundInv ==
    /\ Greedy!Continues(request.prompt, all_generated)
    /\ Len(all_generated) <= request.max_new_tokens
    /\ pc \notin {"commit", "align"} => full_state.generated_ids = all_generated
    /\ pc = "prefill" => all_generated = <<>> /\ ~done
    /\ Drafting => ~done /\ Remaining > 0 /\ draft.n = RoundDraftLen
    /\ Drafting \/ (~done /\ pc \in {"round", "notify"}) => ~EndsWithEos(all_generated)
    /\ done /\ pc \in {"round", "notify", "returned"} =>
          EndsWithEos(all_generated) \/ Remaining = 0 \/ request.draft_len = 0
    /\ pc = "returned" => done \/ Remaining = 0

\* A draft fits the round; only its last token may be EOS or no token at all.
DraftInv ==
    LET d == draft.token_ids
    IN  /\ pc = "draft" =>
              Len(d) < draft.n /\ \A i \in 1..Len(d) : d[i] \in Token \ {EOS}
        /\ pc \in {"span", "verify", "compare", "decide"} =>
              /\ Len(d) <= draft.n
              /\ d = <<>> => draft.n = 0
              /\ \A i \in 1..(Len(d) - 1) : d[i] \in Token \ {EOS}

\* The verifier tokens are the full model's predictions after the drafted tokens
\* before them, which they all match but perhaps the last.
VerifyInv ==
    LET d == draft.token_ids
        v == verifier.tokens
    IN  /\ pc \in {"compare", "decide"} =>
              /\ Len(v) <= Len(d)
              /\ \A i \in 1..Len(v) : v[i] = FullNext(Ctx \o SubSeq(d, 1, i - 1))
              /\ \A i \in 1..(Len(v) - 1) : d[i] = v[i]
        /\ pc = "compare" =>
              /\ Len(v) < Len(d)
              /\ v # <<>> => d[Len(v)] = v[Len(v)]
              /\ kv["verify"] = [tokens |-> Ctx \o SubSeq(d, 1, Len(v)), exact |-> TRUE]
              /\ verifier.next = FullNext(Ctx \o SubSeq(d, 1, Len(v)))
        /\ pc = "decide" /\ d # <<>> =>
              v # <<>> /\ (Len(v) = Len(d) \/ d[Len(v)] # v[Len(v)])

\* What is being committed continues the output greedily and fits the budget.
CommitInv ==
    pc \in {"commit", "align"} =>
        /\ all_generated \o committed = full_state.generated_ids \o pending
        /\ Greedy!Continues(request.prompt, all_generated \o committed)
        /\ Len(all_generated) + Len(committed) <= request.max_new_tokens
        /\ committed # <<>>
        /\ done <=> EndsWithEos(committed)
        /\ pending = <<>> <=> pc = "align"

\* Together they are inductive and imply ExactOutput; README.md, "Proofs".
IInv == TypeOK /\ CacheInv /\ RoundInv /\ DraftInv /\ VerifyInv /\ CommitInv

-----------------------------------------------------------------------------
(* What the repository says and this code does not do: see README.md *)

\* docs/ARCHITECTURE.md, invariant 1: ExactKV's output equals the full-KV
\* output.  With a draft length of 0, which the command line accepts, generate
\* returns an empty output.
ExactOutputEquivalence == pc = "returned" => ReturnsGreedy

\* _notify_round_observer: a "best-effort live observer callback [that] never
\* affects generation".  With the repository's own LiveRoundObserver and a
\* one-token prompt, it ends generate with an exception.
ObserverNeverAffectsGeneration == [][pc = "notify" => pc' # "raised"]_vars

\* debug_noise forces rejections and "ExactKV still == full".  When the full
\* model predicts the vocabulary's last token, the draft starts with an id
\* outside the vocabulary and a second drafted token makes generate raise.
DebugNoiseStillExact ==
    Finished /\ request.compressor = "debug_noise" => ReturnsGreedy
=============================================================================
