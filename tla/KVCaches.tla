------------------------------ MODULE KVCaches ------------------------------
(***************************************************************************)
(* KV caches, the model's forward call on them, and the compressors, as    *)
(* every decoding loop of exactkv/runtime uses them.                       *)
(*                                                                         *)
(* A cache is the tokens it covers and whether the full-precision model    *)
(* computed all of it.  FullNext(s) is that model's greedy prediction      *)
(* after the context s; the source uses logits only through their argmax.  *)
(***************************************************************************)
EXTENDS Integers, Sequences

CONSTANTS
    VocabSize,       \* size of the model's embedding table
    EOS,             \* runtime.eos_token_id
    FullNext(_),     \* the full model's greedy prediction after a context
    WrongModulus     \* debug_noise.py: _WRONG_TOKEN_MODULUS

Token == 0..(VocabSize - 1)

ASSUME ModelOK ==
    /\ VocabSize \in Nat \ {0}
    /\ EOS \in Token
    /\ WrongModulus \in Nat \ {0, 1}

\* Token ids a compressor may name as its next token: debug_noise wraps at its
\* own modulus, which may exceed the vocabulary.
TokenId == Token \cup 0..(WrongModulus - 1)

-----------------------------------------------------------------------------
NoCache == [tokens |-> <<>>, exact |-> TRUE]

\* The next token a forward call may yield on this cache: the full model's on an
\* exact cache, any token on one that went through a lossy compressor.
Predictions(cache) == {t \in Token : cache.exact => t = FullNext(cache.tokens)}

\* One position more in the cache, as a forward call of one token leaves it.
Extended(cache, t) == [cache EXCEPT !.tokens = Append(@, t)]

\* The cache prefill computes for a prompt.
PrefillCache(prompt) == [tokens |-> prompt, exact |-> TRUE]

EndsWithEos(s) == s # <<>> /\ s[Len(s)] = EOS
WithoutEos(s) == IF EndsWithEos(s) THEN SubSeq(s, 1, Len(s) - 1) ELSE s

\* The tokens up to and including the first EOS.
TruncateAtEos(s) ==
    IF \E i \in 1..Len(s) : s[i] = EOS
    THEN LET first == CHOOSE i \in 1..Len(s) :
                         s[i] = EOS /\ \A j \in 1..(i - 1) : s[j] # EOS
         IN  SubSeq(s, 1, first)
    ELSE s

-----------------------------------------------------------------------------
\* noop:        data aliases the full cache, next_token_id is the full one
\* lossy:       int8, int4, int6, h2o, ...: new tensors, the full next_token_id
\* replay:      kvpress, kvquant: new tensors, next_token_id of their own replay
\* debug_noise: new tensors, a next_token_id wrong on purpose
CompressorKinds == {"noop", "lossy", "replay", "debug_noise"}

\* metadata["next_token_id"] of the state compress() returns.
CompressedNext(kind, next) ==
    CASE kind \in {"noop", "lossy"} -> {next}
      [] kind = "replay"            -> Token
      [] kind = "debug_noise"       -> {(next + 1) % WrongModulus}
=============================================================================
