--------------------------- MODULE DivergenceTools ---------------------------
(***************************************************************************)
(* What the repository's tools do with the outputs of the baselines: where *)
(* two outputs diverge (metrics/exactness.py, engine/unified_truth_        *)
(* engine.py), the logits at that place (capture_divergence_topk of        *)
(* benchmarks/runner.py), and the probe cell of runtime/kv_probe_layer.py, *)
(* which decodes a prompt twice by itself.                                 *)
(*                                                                         *)
(* The first tool follows a lossy baseline that has returned; the cell     *)
(* runs instead of a baseline, under the request's prompt and budget, its  *)
(* compression mode being the request's baseline.                          *)
(***************************************************************************)
EXTENDS GreedyBaselines, Acceptance

VARIABLE tool   \* the tool at work, and its locals

allVars == <<vars, tool>>

\* The output generate_full_greedy returns (SameEndAsGenerate says so).
FullOutput(prompt, budget) ==
    LET after[n \in 0..budget] ==
            CASE n = 0 -> <<>>
              [] n > 0 /\ EndsWithEos(after[n - 1]) -> after[n - 1]
              [] OTHER -> Append(after[n - 1], FullNext(prompt \o after[n - 1]))
    IN  after[budget]

full_ids == FullOutput(request.prompt, request.max_new_tokens)

\* The position, from 0, of the first token that differs; <<>> for None.
first_divergence_idx(a, b) == IF a = b THEN <<>> ELSE <<MatchLen(a, b)>>

\* FirstDivergenceAuthority looks at the lengths before it looks at the tokens.
Fault_TokensFirst(a, b) == first_divergence_idx(a, b)
canonical_first_divergence_index(a, b) ==
    IF Len(a) # Len(b) THEN <<CommonLen(a, b)>> ELSE first_divergence_idx(a, b)

-----------------------------------------------------------------------------
Idle == [name |-> "idle", path |-> "", feed |-> <<>>, cache |-> NoCache, out |-> <<>>]

ToolInit == Init /\ tool = Idle

Divergence == first_divergence_idx(full_ids, generated_ids)

\* What is fed to arrive at the position div: token_sequence[1:div], then
\* token_sequence[div - 1].
Fault_FeedDivergent(token_sequence, div) ==
    SubSeq(token_sequence, 2, div) \o <<token_sequence[div + 1]>>
topk_feed(token_sequence, div) ==
    SubSeq(token_sequence, 2, div) \o <<token_sequence[div]>>

CaptureTopk ==
    /\ tool.name = "idle"
    /\ pc = "returned" /\ request.baseline # "full"
    /\ full_ids # <<>> /\ generated_ids # <<>>
    /\ Divergence # <<>> /\ Divergence[1] >= 1
    /\ tool' = [ Idle EXCEPT !.name = "topk", !.path = "full",
                             !.feed = topk_feed(full_ids, Divergence[1]),
                             !.cache = PrefillCache(request.prompt) ]
    /\ UNCHANGED vars

\* One forward call; out collects what the last one of a path computed from,
\* and its top-1 token.  The lossy path starts from a prefill of its own.
FeedTopk ==
    LET cache == Extended(tool.cache, Head(tool.feed))
    IN  /\ tool.name = "topk" /\ tool.feed # <<>>
        /\ \/ /\ Len(tool.feed) > 1
              /\ tool' = [tool EXCEPT !.cache = cache, !.feed = Tail(@)]
           \/ /\ Len(tool.feed) = 1 /\ tool.path = "full"
              /\ \E t \in Predictions(cache) :
                    tool' = [ tool EXCEPT
                                !.path = "lossy",
                                !.feed = topk_feed(generated_ids, Divergence[1]),
                                !.cache = [ PrefillCache(request.prompt) EXCEPT
                                              !.exact = request.baseline = "noop" ],
                                !.out = <<[context |-> cache.tokens, top1 |-> t]>> ]
           \/ /\ Len(tool.feed) = 1 /\ tool.path = "lossy"
              /\ \E t \in Predictions(cache) :
                    tool' = [ tool EXCEPT
                                !.feed = <<>>, !.cache = cache,
                                !.out = Append(@, [context |-> cache.tokens, top1 |-> t]) ]
        /\ UNCHANGED vars

-----------------------------------------------------------------------------
\* simulate_compression_on_kv: mode noop clones, every other mode changes values.
CellModes == {"noop", "lossy"}

\* A cell: prefill, a baseline decoded from a deep copy, and the simulated
\* compression on clones of the tensors.
RunProbeCell ==
    LET cache == PrefillCache(request.prompt)
    IN  /\ tool.name = "idle"
        /\ pc = "prefill" /\ request.baseline \in CellModes
        /\ kv' = [ kv EXCEPT !["full"] = cache,
                             !["lossy"] = [cache EXCEPT !.exact = request.baseline = "noop"] ]
        /\ past_key_values' = "lossy"
        /\ next_token_id' \in Predictions(cache)
        /\ tool' = [Idle EXCEPT !.name = "cell", !.path = "forward"]
        /\ UNCHANGED <<request, pc, generated_ids, stopped_on_eos>>

\* The forward call that measures layers is made on compressed_cache itself, so
\* the decoding that follows starts from a cache that has the token already.
CellForward ==
    /\ tool.name = "cell" /\ tool.path = "forward"
    /\ kv' = [kv EXCEPT ![past_key_values] = Extended(@, next_token_id)]
    /\ tool' = [tool EXCEPT !.path = "decode"]
    /\ UNCHANGED <<request, pc, past_key_values, next_token_id, generated_ids, stopped_on_eos>>

\* _greedy_decode_from_state
CellGoesOn == Len(tool.out) < request.max_new_tokens /\ ~EndsWithEos(tool.out)

CellDecode ==
    /\ tool.name = "cell" /\ tool.path = "decode" /\ CellGoesOn
    /\ tool' = [tool EXCEPT !.out = Append(@, next_token_id)]
    /\ IF next_token_id = EOS
       THEN UNCHANGED <<kv, next_token_id>>
       ELSE /\ kv' = [kv EXCEPT ![past_key_values] = Extended(@, next_token_id)]
            /\ next_token_id' \in Predictions(kv'[past_key_values])
    /\ UNCHANGED <<request, pc, past_key_values, generated_ids, stopped_on_eos>>

-----------------------------------------------------------------------------
CellDone == tool.name = "cell" /\ tool.path = "decode" /\ ~CellGoesOn
TopkDone == tool.name = "topk" /\ tool.feed = <<>>

BaselineStep == tool.name = "idle" /\ Step /\ UNCHANGED tool
ToolStep == CaptureTopk \/ FeedTopk \/ RunProbeCell \/ CellForward \/ CellDecode
ToolsEnded ==
    /\ TopkDone \/ CellDone \/ (tool.name = "idle" /\ Finished)
    /\ UNCHANGED allVars

ToolNext == BaselineStep \/ ToolStep \/ ToolsEnded

ToolSpec == ToolInit /\ [][ToolNext]_allVars /\ WF_allVars(BaselineStep \/ ToolStep)

-----------------------------------------------------------------------------
(* Properties *)

\* The two definitions of first divergence agree on outputs of one length.  On
\* outputs of different lengths the authority is always late: one of them ended
\* with EOS, so they differ in a token before the shorter one ends, and what it
\* reports as a drift of the length is a mismatch of tokens.  (Its callers hand it
\* the lossy output of a cell that has no exactkv output.)
AuthorityLateOnLength ==
    pc = "returned" /\ request.baseline # "full" =>
        LET index == canonical_first_divergence_index(full_ids, generated_ids)
        IN  IF Len(full_ids) = Len(generated_ids)
            THEN index = Divergence
            ELSE index[1] > Divergence[1]

\* The two distributions a capture compares (its kl_div_approx) are computed from
\* one context, as long as the prompt and the tokens before the divergence: what
\* is fed to one path is fed to the other, whichever output it is taken from.
TopkPathsAgree ==
    TopkDone =>
        /\ tool.out[1].context = tool.out[2].context
        /\ Len(tool.out[1].context) = Len(request.prompt) + Divergence[1]

-----------------------------------------------------------------------------
(* How far two disagreements with the repository's comments go.  The       *)
(* comments are the claims of DiagnosticReport, which TLC refutes; these   *)
(* two say of which captures and cells they are false, and what those      *)
(* compute instead.                                                        *)

\* "Step through tokens 0..div_idx-2": the tokens fed lack the first one and have
\* the last one twice.  The context is the one the comment speaks of only when the
\* tokens before the divergence are all the same, a divergence at 1 included; and
\* then the full path's top-1 is the token of the ground truth.
WhereTopkReadsTheDivergence ==
    TopkDone =>
        LET div == Divergence[1]
            before == SubSeq(full_ids, 1, div)
            meant == request.prompt \o before
            full == tool.out[1]
            repeats == \A i \in 1..div : before[i] = before[1]
        IN  /\ (full.context = meant) = repeats
            /\ repeats => full.top1 = full_ids[div + 1]

\* "simulated compression on copied KV tensors": true of the prompt's own cache,
\* not of the cache decoded from.  Without compression the output is not the
\* baseline's but the first token and what greedy decoding continues the prompt
\* and *two* such tokens with.
WhatNoopCellDecodes ==
    CellDone =>
        /\ kv["full"] = PrefillCache(request.prompt)
        /\ request.baseline = "noop" /\ request.max_new_tokens > 0 =>
              LET first == FullNext(request.prompt)
              IN  tool.out = IF first = EOS THEN <<EOS>>
                             ELSE <<first>> \o FullOutput(request.prompt \o <<first, first>>,
                                                          request.max_new_tokens - 1)
=============================================================================
