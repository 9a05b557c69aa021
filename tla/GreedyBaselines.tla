--------------------------- MODULE GreedyBaselines ---------------------------
(***************************************************************************)
(* The two baselines of exactkv/runtime/generation.py that ExactKV is      *)
(* compared with: generate_full_greedy, the ground truth, and              *)
(* generate_lossy_greedy, which decodes on the compressed cache of the     *)
(* prompt and verifies nothing.  Their loops are the same code, on a cache *)
(* that is the prefill's own or a deep copy of the materialized one.       *)
(***************************************************************************)
EXTENDS KVCaches

CONSTANTS
    Prompts,        \* the encoded prompts
    MaxNewTokens,   \* the budgets
    Baselines       \* "full", and the kinds of compressor of the lossy baseline

ASSUME BaselinesOK ==
    /\ \A p \in Prompts : p \in Seq(Token) /\ p # <<>>
    /\ MaxNewTokens \subseteq Nat
    /\ Baselines \subseteq {"full"} \cup CompressorKinds

VARIABLES
    request,          \* prompt, budget and baseline of the call
    pc,
    kv,               \* the heap of caches
    past_key_values,  \* the cache the loop advances
    next_token_id,
    generated_ids,
    stopped_on_eos

vars == <<request, pc, kv, past_key_values, next_token_id, generated_ids, stopped_on_eos>>

CacheId == {"full", "lossy"}

Init ==
    /\ request \in [prompt : Prompts, max_new_tokens : MaxNewTokens, baseline : Baselines]
    /\ pc = "prefill"
    /\ kv = [c \in CacheId |-> NoCache]
    /\ past_key_values = "full"
    /\ next_token_id = 0
    /\ generated_ids = <<>>
    /\ stopped_on_eos = FALSE

\* The cache the loop starts with: a deep copy keeps the prompt's own as it is.
Fault_NoDeepcopy == "full"
WorkingCache == IF request.baseline = "full" THEN "full" ELSE "lossy"

Prefill ==
    LET cache == PrefillCache(request.prompt)
        full == request.baseline = "full"
        copy == [cache EXCEPT !.exact = request.baseline \in {"full", "noop"}]
    IN  /\ pc = "prefill"
        /\ kv' = [kv EXCEPT !["full"] = cache, ![WorkingCache] = copy]
        /\ past_key_values' = WorkingCache
        /\ \E t \in Predictions(cache) :
              next_token_id' \in IF full THEN {t} ELSE CompressedNext(request.baseline, t)
        /\ pc' = "decode"
        /\ UNCHANGED <<request, generated_ids, stopped_on_eos>>

\* The loop goes on while the budget lasts; it leaves by break after EOS.
Fault_PastEos == Len(generated_ids) < request.max_new_tokens
Fault_OneMore == Len(generated_ids) <= request.max_new_tokens /\ ~stopped_on_eos
GoesOn == Len(generated_ids) < request.max_new_tokens /\ ~stopped_on_eos

DecodeEos ==
    /\ pc = "decode"
    /\ GoesOn
    /\ next_token_id = EOS
    /\ generated_ids' = Append(generated_ids, next_token_id)
    /\ stopped_on_eos' = TRUE
    /\ UNCHANGED <<request, pc, kv, past_key_values, next_token_id>>

\* Unlike _draft, the loop also runs the forward call of its last token.
Decode ==
    /\ pc = "decode"
    /\ GoesOn
    /\ next_token_id \in Token \ {EOS}
    /\ generated_ids' = Append(generated_ids, next_token_id)
    /\ kv' = [kv EXCEPT ![past_key_values] = Extended(@, next_token_id)]
    /\ next_token_id' \in Predictions(kv'[past_key_values])
    /\ UNCHANGED <<request, pc, past_key_values, stopped_on_eos>>

\* The embedding lookup of an id outside the vocabulary raises.
DecodeOutOfVocabulary ==
    /\ pc = "decode"
    /\ GoesOn
    /\ next_token_id \notin Token
    /\ pc' = "raised"
    /\ UNCHANGED <<request, kv, past_key_values, next_token_id, generated_ids, stopped_on_eos>>

Return ==
    /\ pc = "decode"
    /\ ~GoesOn
    /\ pc' = "returned"
    /\ UNCHANGED <<request, kv, past_key_values, next_token_id, generated_ids, stopped_on_eos>>

Finished == pc \in {"returned", "raised"}
Ended == Finished /\ UNCHANGED vars

Step == Prefill \/ DecodeEos \/ Decode \/ DecodeOutOfVocabulary \/ Return
Next == Step \/ Ended

Spec == Init /\ [][Next]_vars
FairSpec == Spec /\ WF_vars(Step)

-----------------------------------------------------------------------------
(* Properties *)

Exact == request.baseline \in {"full", "noop"}

\* Greedy decoding of the request, for the baselines that must perform it.
Greedy == INSTANCE GreedyDecoding
          WITH prompt <- request.prompt,
               max_new_tokens <- request.max_new_tokens,
               output <- IF Exact THEN generated_ids ELSE <<>>

\* generate_full_greedy, and the lossy baseline on an uncompressed copy of the
\* prompt's cache, implement the specification generate() implements.
BaselineIsGreedy == Greedy!Spec

\* They complete it, and generate_full_greedy leaves the very cache generate()
\* leaves: the prompt and every token generated but a final EOS (compare
\* AuthoritativeCache in ExactKVGenerator).
SameEndAsGenerate ==
    pc = "returned" /\ Exact =>
        /\ Greedy!Continues(request.prompt, generated_ids) /\ Greedy!Complete
        /\ stopped_on_eos = EndsWithEos(generated_ids)
        /\ kv[past_key_values] = [ tokens |-> request.prompt \o WithoutEos(generated_ids),
                                   exact  |-> TRUE ]

\* The lossy baseline may diverge, but never by touching the prompt's own cache,
\* and not at once where the compressor keeps the full model's next token.
LossyStartsAtThePrompt ==
    pc # "prefill" /\ request.baseline # "full" =>
        /\ kv["full"] = PrefillCache(request.prompt)
        /\ request.baseline = "lossy" /\ generated_ids # <<>> =>
              generated_ids[1] = FullNext(request.prompt)
=============================================================================
