------------------------ MODULE GreedyBaselines_proofs ------------------------
(***************************************************************************)
(* Proofs about the two baselines, for every model, vocabulary, prompt and *)
(* budget.  The inductive invariant says what the loop knows between two   *)
(* tokens: the pending next token is the full model's prediction for the   *)
(* prompt and the tokens generated, the working cache covers just these,   *)
(* and the prompt's own cache is never touched when a copy was made.       *)
(*                                                                         *)
(* The second part is about DivergenceTools, whose steps go on where a     *)
(* baseline has returned: the output of the earlier full run is the one    *)
(* greedy output of its prompt and budget (FullOutputUnique), and ToolInv  *)
(* says which tokens each tool has fed to which cache.                     *)
(***************************************************************************)
EXTENDS DivergenceTools, SharedLemmas

-----------------------------------------------------------------------------
(* Lemmas on sequences *)

\* The prefixes of a sequence are those of the sequence with one element more.
LEMMA PrefixOfAppend ==
    ASSUME NEW S, NEW s \in Seq(S), NEW t \in S, NEW k \in 0..Len(s)
    PROVE  SubSeq(Append(s, t), 1, k) = SubSeq(s, 1, k)
<1> DEFINE u == Append(s, t)
<1>1. /\ u \in Seq(S) /\ Len(u) = Len(s) + 1 /\ Len(s) \in Nat
      /\ \A i \in 1..Len(s) : u[i] = s[i] /\ s[i] \in S
    BY AppendProperties, LenProperties, ElementOfSeq
<1>2. \A i \in 1..k : u[i] \in S /\ s[i] \in S
    BY <1>1
<1>3. SubSeq(u, 1, k) \in Seq(S) /\ Len(SubSeq(u, 1, k)) = k
      /\ \A i \in 1..k : SubSeq(u, 1, k)[i] = u[i]
    BY <1>1, <1>2, SubSeqProperties
<1>4. SubSeq(s, 1, k) \in Seq(S) /\ Len(SubSeq(s, 1, k)) = k
      /\ \A i \in 1..k : SubSeq(s, 1, k)[i] = s[i]
    BY <1>1, <1>2, SubSeqProperties
<1>5. \A i \in 1..k : SubSeq(u, 1, k)[i] = SubSeq(s, 1, k)[i]
    BY <1>1, <1>3, <1>4
<1> QED BY <1>3, <1>4, <1>5, SeqEqual

LEMMA AppendFacts ==
    ASSUME NEW S, NEW s \in Seq(S), NEW t \in S
    PROVE  /\ Append(s, t) \in Seq(S) /\ Append(s, t) # <<>>
           /\ Len(Append(s, t)) = Len(s) + 1
           /\ Append(s, t)[Len(s) + 1] = t
           /\ \A i \in 1..Len(s) : Append(s, t)[i] = s[i]
           /\ Len(s) \in Nat
           /\ SubSeq(Append(s, t), 1, Len(s)) = s
           /\ EndsWithEos(Append(s, t)) <=> t = EOS
           /\ WithoutEos(Append(s, t)) = IF t = EOS THEN s ELSE Append(s, t)
<1>1. /\ Append(s, t) \in Seq(S) /\ Append(s, t) # <<>>
      /\ Len(Append(s, t)) = Len(s) + 1 /\ Append(s, t)[Len(s) + 1] = t
      /\ \A i \in 1..Len(s) : Append(s, t)[i] = s[i]
      /\ Len(s) \in Nat
    BY AppendProperties, LenProperties
<1>2. SubSeq(Append(s, t), 1, Len(s)) = s
    BY <1>1, PrefixOfAppend, SubSeqFull
<1>3. Len(Append(s, t)) - 1 = Len(s)
    BY <1>1
<1> QED BY <1>1, <1>2, <1>3 DEF EndsWithEos, WithoutEos

\* One greedy token more.
LEMMA ContinuesAppend ==
    ASSUME NEW c, NEW S, NEW s \in Seq(S), NEW t \in S,
           Greedy!Continues(c, s), ~EndsWithEos(s), t = FullNext(c \o s)
    PROVE  Greedy!Continues(c, Append(s, t))
<1> DEFINE u == Append(s, t)
<1>1. /\ Len(u) = Len(s) + 1 /\ Len(s) \in Nat /\ u[Len(s) + 1] = t
      /\ \A i \in 1..Len(s) : u[i] = s[i]
      /\ SubSeq(u, 1, Len(s)) = s
    BY AppendFacts
<1>2. Len(s) > 0 => s[Len(s)] # EOS
    BY <1>1, EmptySeq DEF EndsWithEos
<1> HIDE DEF u
<1>3. ASSUME NEW i \in 1..Len(u)
      PROVE  u[i] = FullNext(c \o SubSeq(u, 1, i - 1)) /\ (i < Len(u) => u[i] # EOS)
    <2>1. CASE i = Len(s) + 1
        <3>1. i - 1 = Len(s) /\ ~(i < Len(u))
            BY <1>1, <2>1
        <3>2. SubSeq(u, 1, i - 1) = s
            BY <1>1, <3>1
        <3> QED BY <1>1, <2>1, <3>1, <3>2
    <2>2. CASE i # Len(s) + 1
        <3>1. i \in 1..Len(s) /\ i - 1 \in 0..Len(s)
            BY <1>1, <2>2
        <3>2. SubSeq(u, 1, i - 1) = SubSeq(s, 1, i - 1)
            BY <3>1, PrefixOfAppend DEF u
        <3>3. s[i] = FullNext(c \o SubSeq(s, 1, i - 1)) /\ (i < Len(s) => s[i] # EOS)
            BY <3>1 DEF Greedy!Continues
        <3>4. s[i] # EOS /\ u[i] = s[i]
            BY <1>1, <1>2, <3>1, <3>3
        <3>5. u[i] = FullNext(c \o SubSeq(u, 1, i - 1))
            BY <3>2, <3>3, <3>4
        <3> QED BY <3>4, <3>5
    <2> QED BY <2>1, <2>2
<1> QED BY <1>3 DEF Greedy!Continues, u

-----------------------------------------------------------------------------
(* The inductive invariant *)

Cache == [tokens : Seq(Token), exact : BOOLEAN]

TypeOK ==
    /\ request \in [prompt : Prompts, max_new_tokens : MaxNewTokens, baseline : Baselines]
    /\ pc \in {"prefill", "decode", "returned", "raised"}
    /\ kv \in [CacheId -> Cache]
    /\ past_key_values \in CacheId
    /\ next_token_id \in TokenId
    /\ generated_ids \in Seq(Token)
    /\ stopped_on_eos \in BOOLEAN

\* Before a token is generated.
Fresh == generated_ids = <<>> /\ ~stopped_on_eos

\* What the loop knows where it must decode greedily.
GreedyInv ==
    /\ past_key_values = WorkingCache
    /\ kv[past_key_values] = [ tokens |-> request.prompt \o WithoutEos(generated_ids),
                               exact  |-> TRUE ]
    /\ Greedy!Continues(request.prompt, generated_ids)
    /\ stopped_on_eos <=> EndsWithEos(generated_ids)
    /\ ~stopped_on_eos => next_token_id = FullNext(request.prompt \o generated_ids)
    /\ Len(generated_ids) <= request.max_new_tokens
    /\ pc = "returned" => ~GoesOn

\* What it knows on a copy of the prompt's cache.
CopyInv ==
    /\ past_key_values = "lossy"
    /\ kv["full"] = PrefillCache(request.prompt)
    /\ request.baseline = "lossy" =>
          IF generated_ids = <<>> THEN next_token_id = FullNext(request.prompt)
          ELSE generated_ids[1] = FullNext(request.prompt)

IInv ==
    /\ TypeOK
    /\ pc = "prefill" => Fresh
    /\ pc # "prefill" /\ Exact => GreedyInv
    /\ pc # "prefill" /\ request.baseline # "full" => CopyInv

LEMMA RequestFacts ==
    ASSUME TypeOK
    PROVE  /\ request.prompt \in Seq(Token) /\ request.prompt # <<>>
           /\ request.max_new_tokens \in Nat
           /\ request.baseline \in {"full"} \cup CompressorKinds
BY BaselinesOK DEF TypeOK

LEMMA TokenFacts ==
    /\ EOS \in Token /\ 0 \in Token /\ Token \subseteq TokenId
    /\ \A kind \in CompressorKinds, t \in Token : CompressedNext(kind, t) \subseteq TokenId
<1>1. \A t \in Token : (t + 1) % WrongModulus \in 0..(WrongModulus - 1)
    BY ModelOK DEF Token
<1> QED BY <1>1, ModelOK DEF Token, TokenId, CompressorKinds, CompressedNext

LEMMA ExtendedRecord ==
    ASSUME NEW x, NEW e, NEW t
    PROVE  Extended([tokens |-> x, exact |-> e], t) = [tokens |-> Append(x, t), exact |-> e]
BY DEF Extended

LEMMA WithExact ==
    ASSUME NEW x, NEW e, NEW f
    PROVE  [[tokens |-> x, exact |-> e] EXCEPT !.exact = f] = [tokens |-> x, exact |-> f]
OBVIOUS

LEMMA Initial == Init => IInv
<1> SUFFICES ASSUME Init PROVE IInv
    OBVIOUS
<1>1. NoCache \in Cache /\ <<>> \in Seq(Token)
    BY DEF NoCache, Cache
<1> QED BY <1>1, TokenFacts DEF Init, IInv, TypeOK, Fresh, CacheId

LEMMA PrefillInv == IInv /\ Prefill => IInv'
<1> SUFFICES ASSUME IInv, Prefill PROVE IInv'
    OBVIOUS
<1> DEFINE p == request.prompt
           cache == PrefillCache(p)
           copy == [cache EXCEPT !.exact = request.baseline \in {"full", "noop"}]
<1>1. TypeOK /\ Fresh /\ p \in Seq(Token) /\ request.max_new_tokens \in Nat
      /\ request.baseline \in {"full"} \cup CompressorKinds
    BY RequestFacts DEF IInv, Prefill
<1>2. UNCHANGED <<request, generated_ids, stopped_on_eos>> /\ pc' = "decode"
      /\ past_key_values' = WorkingCache /\ WorkingCache \in CacheId
      /\ kv' = [kv EXCEPT !["full"] = cache, ![WorkingCache] = copy]
    BY DEF Prefill, WorkingCache, CacheId
<1>3. cache = [tokens |-> p, exact |-> TRUE] /\ cache \in Cache
    BY <1>1 DEF PrefillCache, Cache
<1>31. /\ copy \in Cache
       /\ request.baseline \in {"full", "noop"} => copy = [tokens |-> p, exact |-> TRUE]
    <2> DEFINE b == request.baseline \in {"full", "noop"}
    <2>1. [[tokens |-> p, exact |-> TRUE] EXCEPT !.exact = b] = [tokens |-> p, exact |-> b]
        <3> HIDE DEF b
        <3> QED BY WithExact
    <2>2. CASE b
        <3>1. b = TRUE
            BY <2>2
        <3>2. copy = [tokens |-> p, exact |-> TRUE]
            BY <1>3, <2>1, <3>1
        <3> QED BY <1>3, <3>2
    <2>3. CASE ~b
        <3>1. b = FALSE
            BY <2>3
        <3>2. copy = [tokens |-> p, exact |-> FALSE]
            BY <1>3, <2>1, <3>1
        <3>3. [tokens |-> p, exact |-> FALSE] \in Cache
            BY <1>1 DEF Cache
        <3> QED BY <2>3, <3>2, <3>3
    <2> QED BY <2>2, <2>3
<1>4. PICK t \in Token :
        /\ t = FullNext(p)
        /\ next_token_id' \in IF request.baseline = "full" THEN {t}
                             ELSE CompressedNext(request.baseline, t)
    BY <1>3 DEF Prefill, Predictions
<1>5. /\ next_token_id' \in TokenId
      /\ request.baseline \in {"full", "noop", "lossy"} => next_token_id' = FullNext(p)
    BY <1>1, <1>4, TokenFacts DEF CompressedNext, CompressorKinds
<1> HIDE DEF cache, copy
<1>6. /\ kv' \in [CacheId -> Cache] /\ kv'[WorkingCache] = copy
      /\ WorkingCache = "lossy" => kv'["full"] = cache
    BY <1>1, <1>2, <1>3, <1>31 DEF TypeOK, CacheId
<1>61. /\ UNCHANGED <<request, generated_ids, stopped_on_eos>> /\ pc' = "decode"
       /\ past_key_values' = WorkingCache /\ WorkingCache \in CacheId
    BY <1>2
<1>7. TypeOK'
    BY <1>1, <1>5, <1>6, <1>61 DEF TypeOK
<1>8. /\ p \o <<>> = p /\ WithoutEos(<<>>) = <<>> /\ ~EndsWithEos(<<>>)
      /\ Len(<<>>) = 0 /\ Greedy!Continues(p, <<>>)
    BY <1>1, ConcatEmptySeq DEF WithoutEos, EndsWithEos, Greedy!Continues
<1>9. Exact' => GreedyInv'
    <2> SUFFICES ASSUME Exact' PROVE GreedyInv'
        OBVIOUS
    <2>1. request.baseline \in {"full", "noop"} /\ generated_ids' = <<>> /\ stopped_on_eos' = FALSE
        BY <1>1, <1>2 DEF Exact, Fresh, TypeOK
    <2>2. WorkingCache' = WorkingCache /\ kv'[past_key_values'] = [tokens |-> p, exact |-> TRUE]
        BY <1>31, <1>6, <1>61, <2>1 DEF WorkingCache
    <2>3. /\ ~stopped_on_eos' => next_token_id' = FullNext(p \o generated_ids')
          /\ p \o WithoutEos(generated_ids') = p /\ generated_ids' = <<>>
          /\ stopped_on_eos' <=> EndsWithEos(generated_ids')
          /\ Len(generated_ids') <= request.max_new_tokens
        BY <1>1, <1>5, <1>8, <2>1
    <2> QED BY <1>61, <1>8, <2>2, <2>3 DEF GreedyInv
<1>10. request'.baseline # "full" => CopyInv'
    BY <1>1, <1>5, <1>6, <1>61 DEF CopyInv, WorkingCache, Fresh, cache
<1> QED BY <1>61, <1>7, <1>9, <1>10 DEF IInv

\* The loop appends EOS and stops.
LEMMA DecodeEosInv == IInv /\ DecodeEos => IInv'
<1> SUFFICES ASSUME IInv, DecodeEos PROVE IInv'
    OBVIOUS
<1> DEFINE p == request.prompt
           s == generated_ids
<1>1. /\ TypeOK /\ p \in Seq(Token) /\ s \in Seq(Token) /\ request.max_new_tokens \in Nat
      /\ EOS \in Token /\ next_token_id = EOS /\ pc = "decode"
      /\ Len(s) < request.max_new_tokens /\ ~stopped_on_eos
    BY RequestFacts, TokenFacts DEF IInv, TypeOK, DecodeEos, GoesOn
<1>2. /\ generated_ids' = Append(s, EOS) /\ stopped_on_eos' = TRUE
      /\ UNCHANGED <<request, pc, kv, past_key_values, next_token_id>>
    BY <1>1 DEF DecodeEos
<1>3. /\ Append(s, EOS) \in Seq(Token) /\ Append(s, EOS) # <<>>
      /\ Len(Append(s, EOS)) = Len(s) + 1 /\ Len(s) \in Nat
      /\ \A i \in 1..Len(s) : Append(s, EOS)[i] = s[i]
      /\ Append(s, EOS)[Len(s) + 1] = EOS
      /\ EndsWithEos(Append(s, EOS)) /\ WithoutEos(Append(s, EOS)) = s
    BY <1>1, AppendFacts
<1>4. TypeOK'
    BY <1>1, <1>2, <1>3 DEF TypeOK
<1>5. Exact' => GreedyInv'
    <2> SUFFICES ASSUME Exact' PROVE GreedyInv'
        OBVIOUS
    <2>1. Exact /\ GreedyInv
        BY <1>1, <1>2 DEF Exact, IInv
    <2>2. ~EndsWithEos(s) /\ WithoutEos(s) = s /\ EOS = FullNext(p \o s)
        BY <1>1, <2>1 DEF GreedyInv, WithoutEos
    <2>3. Greedy!Continues(p, Append(s, EOS))
        BY <1>1, <2>1, <2>2, ContinuesAppend DEF GreedyInv
    <2>4. WorkingCache' = WorkingCache
        BY <1>2 DEF WorkingCache
    <2> QED BY <1>1, <1>2, <1>3, <2>1, <2>2, <2>3, <2>4 DEF GreedyInv
<1>6. request'.baseline # "full" => CopyInv'
    <2> SUFFICES ASSUME request.baseline # "full" PROVE CopyInv'
        BY <1>2
    <2>1. CopyInv
        BY <1>1 DEF IInv
    <2>2. s = <<>> => Len(s) = 0
        OBVIOUS
    <2>3. s # <<>> => 1 \in 1..Len(s)
        BY <1>1, EmptySeq, LenProperties
    <2> QED BY <1>1, <1>2, <1>3, <2>1, <2>2, <2>3 DEF CopyInv
<1> QED BY <1>1, <1>2, <1>4, <1>5, <1>6 DEF IInv

\* The loop appends a token, runs it through the model and takes its prediction.
LEMMA DecodeInv == IInv /\ Decode => IInv'
<1> SUFFICES ASSUME IInv, Decode PROVE IInv'
    OBVIOUS
<1> DEFINE p == request.prompt
           s == generated_ids
           t == next_token_id
<1>1. /\ TypeOK /\ p \in Seq(Token) /\ s \in Seq(Token) /\ request.max_new_tokens \in Nat
      /\ t \in Token /\ t # EOS /\ pc = "decode"
      /\ Len(s) < request.max_new_tokens /\ ~stopped_on_eos
    BY RequestFacts DEF IInv, TypeOK, Decode, GoesOn
<1>2. /\ generated_ids' = Append(s, t)
      /\ kv' = [kv EXCEPT ![past_key_values] = Extended(@, t)]
      /\ next_token_id' \in Predictions(kv'[past_key_values])
      /\ UNCHANGED <<request, pc, past_key_values, stopped_on_eos>>
    BY DEF Decode
<1>3. /\ Append(s, t) \in Seq(Token) /\ Append(s, t) # <<>>
      /\ Len(Append(s, t)) = Len(s) + 1 /\ Len(s) \in Nat
      /\ \A i \in 1..Len(s) : Append(s, t)[i] = s[i]
      /\ Append(s, t)[Len(s) + 1] = t
      /\ ~EndsWithEos(Append(s, t)) /\ WithoutEos(Append(s, t)) = Append(s, t)
    BY <1>1, AppendFacts
<1>4. kv[past_key_values] \in Cache /\ kv \in [CacheId -> Cache] /\ past_key_values \in CacheId
    BY <1>1 DEF TypeOK
<1>5. /\ Extended(kv[past_key_values], t) \in Cache
      /\ Extended(kv[past_key_values], t).tokens = Append(kv[past_key_values].tokens, t)
      /\ Extended(kv[past_key_values], t).exact = kv[past_key_values].exact
    <2>1. Append(kv[past_key_values].tokens, t) \in Seq(Token)
        BY <1>1, <1>4, AppendFacts DEF Cache
    <2> QED BY <1>4, <2>1 DEF Extended, Cache
<1>6. /\ kv' \in [CacheId -> Cache]
      /\ kv'[past_key_values] = Extended(kv[past_key_values], t)
      /\ past_key_values = "lossy" => kv'["full"] = kv["full"]
    BY <1>2, <1>4, <1>5 DEF CacheId
<1>7. /\ next_token_id' \in Token /\ Token \subseteq TokenId
      /\ kv[past_key_values].exact =>
            next_token_id' = FullNext(Append(kv[past_key_values].tokens, t))
    BY <1>2, <1>5, <1>6, TokenFacts DEF Predictions
<1>8. TypeOK'
    BY <1>1, <1>2, <1>3, <1>6, <1>7 DEF TypeOK
<1>9. Exact' => GreedyInv'
    <2> SUFFICES ASSUME Exact' PROVE GreedyInv'
        OBVIOUS
    <2>1. Exact /\ GreedyInv
        BY <1>1, <1>2 DEF Exact, IInv
    <2>2. ~EndsWithEos(s) /\ WithoutEos(s) = s /\ t = FullNext(p \o s)
        BY <1>1, <2>1 DEF GreedyInv, WithoutEos
    <2>3. Greedy!Continues(p, Append(s, t))
        BY <1>1, <2>1, <2>2, ContinuesAppend DEF GreedyInv
    <2>4. kv[past_key_values] = [tokens |-> p \o s, exact |-> TRUE]
        BY <2>1, <2>2 DEF GreedyInv
    <2>5. Append(p \o s, t) = p \o Append(s, t)
        <3>1. p \in Seq(Token) /\ s \in Seq(Token) /\ t \in Token
            BY <1>1
        <3>2. \A x, y \in Seq(Token), e \in Token : x \o Append(y, e) = Append(x \o y, e)
            BY ConcatAppend
        <3> HIDE DEF p, s, t
        <3>3. QED  BY <3>1, <3>2, Zenon
    <2>6. kv'[past_key_values] = [tokens |-> p \o Append(s, t), exact |-> TRUE]
        <3> HIDE DEF p, s, t
        <3>1. Extended([tokens |-> p \o s, exact |-> TRUE], t)
                = [tokens |-> Append(p \o s, t), exact |-> TRUE]
            BY ExtendedRecord
        <3> QED BY <1>6, <2>4, <2>5, <3>1
    <2>7. WorkingCache' = WorkingCache
        BY <1>2 DEF WorkingCache
    <2>8. ~stopped_on_eos' => next_token_id' = FullNext(request'.prompt \o generated_ids')
        <3>1. kv[past_key_values].exact /\ kv[past_key_values].tokens = p \o s
            BY <2>4
        <3> QED BY <1>2, <1>7, <2>5, <3>1
    <2>9. /\ UNCHANGED <<request, pc, past_key_values, stopped_on_eos>>
          /\ generated_ids' = Append(s, t) /\ ~stopped_on_eos /\ pc = "decode"
        BY <1>1, <1>2
    <2>10. /\ stopped_on_eos' <=> EndsWithEos(generated_ids')
           /\ p \o WithoutEos(generated_ids') = p \o Append(s, t)
           /\ Len(generated_ids') <= request.max_new_tokens
        <3> HIDE DEF p, s, t
        <3>1. stopped_on_eos' <=> EndsWithEos(generated_ids')
            BY <1>3, <2>9
        <3>2. p \o WithoutEos(generated_ids') = p \o Append(s, t)
            BY <1>3, <2>9
        <3>3. Len(generated_ids') <= request.max_new_tokens
            BY <1>1, <1>3, <2>9
        <3> QED BY <3>1, <3>2, <3>3
    <2> QED BY <2>1, <2>3, <2>6, <2>7, <2>8, <2>9, <2>10 DEF GreedyInv
<1>10. request'.baseline # "full" => CopyInv'
    <2> SUFFICES ASSUME request.baseline # "full" PROVE CopyInv'
        BY <1>2
    <2>1. CopyInv
        BY <1>1 DEF IInv
    <2>2. s = <<>> => Len(s) = 0
        OBVIOUS
    <2>3. s # <<>> => 1 \in 1..Len(s)
        BY <1>1, EmptySeq, LenProperties
    <2> QED BY <1>1, <1>2, <1>3, <1>6, <2>1, <2>2, <2>3 DEF CopyInv
<1> QED BY <1>1, <1>2, <1>8, <1>9, <1>10 DEF IInv

\* The steps that change nothing but the program counter.
LEMMA EndInv ==
    ASSUME IInv, pc # "prefill", pc' \in {pc, "returned", "raised"},
           pc' = "returned" => pc = "returned" \/ ~GoesOn,
           UNCHANGED <<request, kv, past_key_values, next_token_id, generated_ids, stopped_on_eos>>
    PROVE  IInv'
<1>1. TypeOK'
    BY DEF IInv, TypeOK
<1>2. Exact' => GreedyInv'
    BY DEF IInv, GreedyInv, Exact, WorkingCache, GoesOn
<1>3. request'.baseline # "full" => CopyInv'
    BY DEF IInv, CopyInv
<1> QED BY <1>1, <1>2, <1>3 DEF IInv

LEMMA Inductive == IInv /\ [Next]_vars => IInv'
<1> SUFFICES ASSUME IInv, [Next]_vars PROVE IInv'
    OBVIOUS
<1>1. CASE Prefill
    BY <1>1, PrefillInv
<1>2. CASE DecodeEos
    BY <1>2, DecodeEosInv
<1>3. CASE Decode
    BY <1>3, DecodeInv
<1>4. CASE DecodeOutOfVocabulary
    BY <1>4, EndInv DEF DecodeOutOfVocabulary
<1>5. CASE Return
    BY <1>5, EndInv DEF Return
<1>6. CASE UNCHANGED vars
    BY <1>6 DEF vars, IInv, TypeOK, Fresh, GreedyInv, CopyInv, Exact, WorkingCache, GoesOn
<1> QED BY <1>1, <1>2, <1>3, <1>4, <1>5, <1>6 DEF Next, Step, Ended

\* The invariant holds in every reachable state.
THEOREM Invariance == Spec => []IInv
BY Initial, Inductive, PTL DEF Spec

-----------------------------------------------------------------------------
(* The properties *)

\* The baselines that decode greedily complete the request, and leave the cache
\* generate() leaves.
THEOREM SameEnd == Spec => []SameEndAsGenerate
<1>1. IInv => SameEndAsGenerate
    <2> SUFFICES ASSUME IInv, pc = "returned", Exact
                 PROVE  /\ Greedy!Continues(request.prompt, generated_ids) /\ Greedy!Complete
                        /\ stopped_on_eos = EndsWithEos(generated_ids)
                        /\ kv[past_key_values] =
                             [ tokens |-> request.prompt \o WithoutEos(generated_ids),
                               exact  |-> TRUE ]
        BY DEF SameEndAsGenerate
    <2>1. GreedyInv /\ generated_ids \in Seq(Token) /\ request.max_new_tokens \in Nat
        BY RequestFacts DEF IInv, TypeOK
    <2>2. Len(generated_ids) = request.max_new_tokens \/ stopped_on_eos
        BY <2>1, LenProperties DEF GreedyInv, GoesOn
    <2>3. stopped_on_eos = EndsWithEos(generated_ids)
        BY <2>1 DEF GreedyInv, EndsWithEos, IInv, TypeOK
    <2> QED BY <2>1, <2>2, <2>3 DEF GreedyInv, Greedy!Complete, Greedy!EndsWithEos, EndsWithEos
<1> QED BY <1>1, Invariance, PTL

\* The lossy baseline leaves the prompt's cache alone, and its first token is the
\* full model's where the compressor keeps it.
THEOREM LossyStart == Spec => []LossyStartsAtThePrompt
<1>1. IInv => LossyStartsAtThePrompt
    BY DEF IInv, CopyInv, LossyStartsAtThePrompt
<1> QED BY <1>1, Invariance, PTL

\* A step of the loop is an emission of one greedy token or a stutter.
LEMMA GreedyStep == IInv /\ [Next]_vars => [Greedy!Next]_Greedy!vars
<1> SUFFICES ASSUME IInv, [Next]_vars PROVE [Greedy!Next]_Greedy!vars
    OBVIOUS
<1> DEFINE t == next_token_id
           s == generated_ids
<1>1. ASSUME Exact, DecodeEos \/ Decode PROVE Greedy!Next
    <2>1. /\ request' = request /\ generated_ids' = Append(s, t) /\ Exact'
          /\ s \in Seq(Token) /\ t \in Token /\ Len(s) < request.max_new_tokens
          /\ request.max_new_tokens \in Nat /\ pc # "prefill" /\ pc' # "prefill"
        BY <1>1, RequestFacts, TokenFacts DEF DecodeEos, Decode, GoesOn, Exact, IInv, TypeOK
    <2>2. IInv'
        BY Inductive
    <2>3. Greedy!Continues(request.prompt, Append(s, t))
        BY <2>1, <2>2 DEF IInv, GreedyInv
    <2>4. /\ Len(Append(s, t)) = Len(s) + 1 /\ Len(s) \in Nat
          /\ \A i \in 1..Len(s) : Append(s, t)[i] = s[i]
        BY <2>1, AppendFacts
    <2>5. Greedy!IsPrefixOf(s, Append(s, t))
        BY <2>4 DEF Greedy!IsPrefixOf
    <2>6. Len(Append(s, t)) \in (Len(s) + 1)..request.max_new_tokens
        BY <2>1, <2>4
    <2> QED BY <1>1, <2>1, <2>3, <2>5, <2>6 DEF Greedy!Next, Greedy!Emit
<1>2. ASSUME ~Exact PROVE UNCHANGED Greedy!vars
    <2>1. request' = request
        BY DEF Next, Step, Ended, vars, Prefill, DecodeEos, Decode, DecodeOutOfVocabulary, Return
    <2> QED BY <1>2, <2>1 DEF Exact, Greedy!vars
<1>3. ASSUME ~DecodeEos, ~Decode PROVE UNCHANGED Greedy!vars
    <2>1. UNCHANGED <<request, generated_ids>>
        BY <1>3 DEF Next, Step, Ended, vars, Prefill, DecodeOutOfVocabulary, Return
    <2> QED BY <2>1 DEF Exact, Greedy!vars
<1> QED BY <1>1, <1>2, <1>3

\* generate_full_greedy, and the lossy baseline on an uncompressed cache, implement
\* greedy decoding.
THEOREM Refinement == Spec => BaselineIsGreedy
<1>1. Init => Greedy!Init
    BY DEF Init, Greedy!Init
<1> QED BY <1>1, GreedyStep, Invariance, PTL DEF Spec, BaselineIsGreedy, Greedy!Spec

-----------------------------------------------------------------------------
(* What generate_full_greedy returns *)

\* h is the table of the outputs after each number of steps.
IsTable(h, c, n) ==
    h = [k \in 0..n |->
            CASE k = 0 -> <<>>
              [] k > 0 /\ EndsWithEos(h[k - 1]) -> h[k - 1]
              [] OTHER -> Append(h[k - 1], FullNext(c \o h[k - 1]))]

\* The recursion of FullOutput has a solution.
LEMMA TableExists ==
    ASSUME NEW c, NEW n \in Nat
    PROVE  \E h : IsTable(h, c, n)
<1> DEFINE T == {k \in Nat : \E h : IsTable(h, c, k)}
<1>1. 0 \in T
  <2> DEFINE h == [k \in 0..0 |-> <<>>]
  <2>1. IsTable(h, c, 0)
    BY DEF IsTable
  <2> HIDE DEF h
  <2>2. QED  BY <2>1
<1>2. ASSUME NEW m \in T
      PROVE  m + 1 \in T
  <2>1. PICK h : IsTable(h, c, m)
    OBVIOUS
  <2> DEFINE last == IF EndsWithEos(h[m]) THEN h[m] ELSE Append(h[m], FullNext(c \o h[m]))
             g == [k \in 0..m + 1 |-> IF k <= m THEN h[k] ELSE last]
  <2>2. m \in Nat /\ g[m + 1] = last /\ \A k \in 0..m : g[k] = h[k]
    OBVIOUS
  <2>3. ASSUME NEW k \in 0..m + 1
        PROVE  g[k] = CASE k = 0 -> <<>>
                        [] k > 0 /\ EndsWithEos(g[k - 1]) -> g[k - 1]
                        [] OTHER -> Append(g[k - 1], FullNext(c \o g[k - 1]))
    <3>1. CASE k = m + 1
      <4>1. k > 0 /\ k # 0 /\ g[k - 1] = h[m]
        BY <2>2, <3>1
      <4>2. g[k] = last
        BY <2>2, <3>1
      <4> HIDE DEF g
      <4>3. QED  BY <4>1, <4>2
    <3>2. CASE k = 0
      <4>1. h[0] = <<>>
        BY <2>1, <2>2 DEF IsTable
      <4>2. g[0] = h[0]
        BY <2>2
      <4> HIDE DEF g
      <4>3. QED  BY <3>2, <4>1, <4>2
    <3>3. CASE k \in 1..m
      <4>1. k \in 0..m /\ k - 1 \in 0..m /\ k > 0 /\ k # 0
        BY <2>2, <3>3
      <4>2. h[k] = CASE k = 0 -> <<>>
                     [] k > 0 /\ EndsWithEos(h[k - 1]) -> h[k - 1]
                     [] OTHER -> Append(h[k - 1], FullNext(c \o h[k - 1]))
        BY <2>1, <4>1 DEF IsTable
      <4>3. g[k] = h[k] /\ g[k - 1] = h[k - 1]
        BY <2>2, <4>1
      <4> HIDE DEF g
      <4>4. QED  BY <4>1, <4>2, <4>3
    <3>4. QED  BY <2>2, <3>1, <3>2, <3>3
  <2>4. IsTable(g, c, m + 1)
    <3>1. g = [k \in 0..m + 1 |-> g[k]]
      OBVIOUS
    <3> HIDE DEF g
    <3>2. QED  BY <2>3, <3>1 DEF IsTable
  <2> HIDE DEF g
  <2>5. QED  BY <2>2, <2>4
<1>3. T = Nat
  <2>1. T \in SUBSET Nat
    OBVIOUS
  <2> HIDE DEF T
  <2>2. QED  BY <1>1, <1>2, <2>1, SetInduction
<1>4. QED  BY <1>3

LEMMA FullOutputTable ==
    ASSUME NEW c, NEW n \in Nat
    PROVE  \E h : IsTable(h, c, n) /\ FullOutput(c, n) = h[n]
<1>1. \E h : IsTable(h, c, n)
  BY TableExists
<1> DEFINE h == CHOOSE h : IsTable(h, c, n)
<1>2. IsTable(h, c, n)
  BY <1>1
<1>3. FullOutput(c, n) = h[n]
  BY DEF FullOutput, IsTable
<1> HIDE DEF h
<1>4. QED  BY <1>2, <1>3

\* Every entry of the table is a greedy continuation of at most as many tokens as
\* steps, and of as many unless EOS ended it.
LEMMA TableFacts ==
    ASSUME NEW c, NEW n \in Nat, NEW h, IsTable(h, c, n)
    PROVE  \E S : \A k \in 0..n :
              /\ h[k] \in Seq(S) /\ Len(h[k]) \in Nat /\ Len(h[k]) <= k
              /\ Len(h[k]) = k \/ EndsWithEos(h[k])
              /\ Greedy!Continues(c, h[k])
<1> DEFINE S == {FullNext(c \o h[k]) : k \in 0..n}
           Good(k) == /\ h[k] \in Seq(S) /\ Len(h[k]) \in Nat /\ Len(h[k]) <= k
                      /\ Len(h[k]) = k \/ EndsWithEos(h[k])
                      /\ Greedy!Continues(c, h[k])
           T == {k \in Nat : k <= n => Good(k)}
<1>1. \A k \in 0..n : FullNext(c \o h[k]) \in S
  OBVIOUS
<1> HIDE DEF S
<1>2. 0 \in T
  <2>1. 0 \in 0..n /\ h[0] = <<>>
    BY DEF IsTable
  <2>2. <<>> \in Seq(S) /\ Len(<<>>) = 0
    BY EmptySeq
  <2>3. h[0] \in Seq(S) /\ Len(h[0]) = 0
    BY <2>1, <2>2, Zenon
  <2>4. Greedy!Continues(c, h[0])
    BY <2>3 DEF Greedy!Continues
  <2>5. QED  BY <2>3, <2>4
<1>3. ASSUME NEW m \in T
      PROVE  m + 1 \in T
  <2>1. SUFFICES ASSUME m + 1 <= n
                 PROVE  Good(m + 1)
    OBVIOUS
  <2>2. m \in 0..n /\ m + 1 \in 0..n /\ m + 1 > 0 /\ m + 1 # 0 /\ (m + 1) - 1 = m
    BY <2>1
  <2>3. Good(m)
    BY <2>2
  <2> DEFINE t == FullNext(c \o h[m])
  <2>4. t \in S
    BY <1>1, <2>2
  <2>5. h[m + 1] = CASE m + 1 = 0 -> <<>>
                     [] m + 1 > 0 /\ EndsWithEos(h[(m + 1) - 1]) -> h[(m + 1) - 1]
                     [] OTHER -> Append(h[(m + 1) - 1], FullNext(c \o h[(m + 1) - 1]))
    BY <2>2 DEF IsTable
  <2>6. h[m + 1] = IF EndsWithEos(h[m]) THEN h[m] ELSE Append(h[m], t)
    BY <2>2, <2>5
  <2>7. CASE EndsWithEos(h[m])
    <3>1. h[m + 1] = h[m]
      BY <2>6, <2>7
    <3>2. Len(h[m]) <= m + 1
      BY <2>2, <2>3
    <3> HIDE DEF T
    <3>3. QED  BY <2>3, <2>7, <3>1, <3>2
  <2>8. CASE ~EndsWithEos(h[m])
    <3>1. h[m + 1] = Append(h[m], t) /\ t = FullNext(c \o h[m])
      BY <2>6, <2>8
    <3>2. /\ h[m] \in Seq(S) /\ Len(h[m]) = m /\ Greedy!Continues(c, h[m])
      BY <2>3, <2>8
    <3> HIDE DEF Good, T, t
    <3>3. /\ Append(h[m], t) \in Seq(S) /\ Len(Append(h[m], t)) = m + 1
      BY <2>4, <3>2, AppendFacts
    <3>4. Greedy!Continues(c, Append(h[m], t))
      BY <2>4, <2>8, <3>1, <3>2, ContinuesAppend
    <3>5. QED  BY <2>2, <3>1, <3>3, <3>4 DEF Good
  <2>9. QED  BY <2>7, <2>8
<1>4. T = Nat
  <2>1. T \in SUBSET Nat
    OBVIOUS
  <2> HIDE DEF T
  <2>2. QED  BY <1>2, <1>3, <2>1, SetInduction
<1>5. \A k \in 0..n : Good(k)
  BY <1>4
<1>6. QED  BY <1>5

\* The output of generate_full_greedy is greedy decoding run to its end.
LEMMA FullOutputFacts ==
    ASSUME NEW c, NEW n \in Nat
    PROVE  \E S : /\ FullOutput(c, n) \in Seq(S)
                  /\ Len(FullOutput(c, n)) \in Nat /\ Len(FullOutput(c, n)) <= n
                  /\ Len(FullOutput(c, n)) = n \/ EndsWithEos(FullOutput(c, n))
                  /\ Greedy!Continues(c, FullOutput(c, n))
<1>1. PICK h : IsTable(h, c, n) /\ FullOutput(c, n) = h[n]
  BY FullOutputTable
<1>2. PICK S : \A k \in 0..n :
              /\ h[k] \in Seq(S) /\ Len(h[k]) \in Nat /\ Len(h[k]) <= k
              /\ Len(h[k]) = k \/ EndsWithEos(h[k])
              /\ Greedy!Continues(c, h[k])
  BY <1>1, TableFacts
<1>3. n \in 0..n
  OBVIOUS
<1>4. QED  BY <1>1, <1>2, <1>3

\* Greedy decoding has one output: whatever runs it to its end returns it.
LEMMA FullOutputUnique ==
    ASSUME NEW c, NEW n \in Nat, NEW S, NEW s \in Seq(S), Greedy!Continues(c, s),
           Len(s) <= n, Len(s) = n \/ EndsWithEos(s)
    PROVE  s = FullOutput(c, n)
<1>1. PICK h : IsTable(h, c, n) /\ FullOutput(c, n) = h[n]
  BY FullOutputTable
<1>2. PICK l \in Nat : l = Len(s) /\ l <= n
  BY LenProperties
<1> DEFINE Same(k) == h[k] = IF k <= l THEN SubSeq(s, 1, k) ELSE s
           T == {k \in Nat : k <= n => Same(k)}
<1>3. 0 \in T
  <2>1. 0 \in 0..n /\ h[0] = <<>>
    BY <1>1 DEF IsTable
  <2>2. SubSeq(s, 1, 0) = <<>> /\ 0 <= l
    BY <1>2, SubSeqEmpty
  <2>3. Same(0)
    BY <2>1, <2>2, Zenon
  <2> HIDE DEF Same
  <2>4. QED  BY <2>3
<1>4. ASSUME NEW m \in T
      PROVE  m + 1 \in T
  <2>1. SUFFICES ASSUME m + 1 <= n
                 PROVE  Same(m + 1)
    OBVIOUS
  <2>2. m \in 0..n /\ m + 1 \in 0..n /\ m + 1 > 0 /\ m + 1 # 0 /\ (m + 1) - 1 = m
    BY <2>1
  <2>3. Same(m)
    BY <2>2
  <2>4. h[m + 1] = CASE m + 1 = 0 -> <<>>
                     [] m + 1 > 0 /\ EndsWithEos(h[(m + 1) - 1]) -> h[(m + 1) - 1]
                     [] OTHER -> Append(h[(m + 1) - 1], FullNext(c \o h[(m + 1) - 1]))
    BY <1>1, <2>2 DEF IsTable
  <2>5. h[m + 1] = IF EndsWithEos(h[m]) THEN h[m] ELSE Append(h[m], FullNext(c \o h[m]))
    BY <2>2, <2>4
  <2>6. CASE m < l
    <3>1. h[m] = SubSeq(s, 1, m) /\ m + 1 \in 1..Len(s)
      BY <1>2, <2>2, <2>3, <2>6
    <3>2. /\ s[m + 1] = FullNext(c \o SubSeq(s, 1, (m + 1) - 1))
          /\ SubSeq(s, 1, m + 1) = Append(SubSeq(s, 1, (m + 1) - 1), s[m + 1])
      BY <3>1, LongerPrefix DEF Greedy!Continues
    <3>3. ~EndsWithEos(SubSeq(s, 1, m))
      <4>1. CASE m = 0
        <5>1. SubSeq(s, 1, m) = <<>>
          BY <4>1, SubSeqEmpty
        <5>2. QED  BY <5>1 DEF EndsWithEos
      <4>2. CASE m # 0
        <5>1. \A i \in 1..m : i \in 1..Len(s)
          BY <1>2, <2>6
        <5>2. \A i \in 1..m : s[i] \in S
          BY <5>1, ElementOfSeq
        <5>3. /\ Len(SubSeq(s, 1, m)) = m
              /\ \A i \in 1..m : SubSeq(s, 1, m)[i] = s[i]
          BY <2>2, <5>2, SubSeqProperties
        <5>4. m \in 1..m /\ m \in 1..Len(s) /\ m < Len(s)
          BY <1>2, <2>2, <2>6, <4>2
        <5>5. s[m] # EOS
          BY <5>4 DEF Greedy!Continues
        <5>6. QED  BY <5>3, <5>4, <5>5 DEF EndsWithEos
      <4>3. QED  BY <4>1, <4>2
    <3>4. h[m + 1] = SubSeq(s, 1, m + 1)
      BY <2>2, <2>5, <3>1, <3>2, <3>3
    <3>5. QED  BY <1>2, <2>2, <2>6, <3>4
  <2>7. CASE ~(m < l)
    <3>1. h[m] = s
      <4>1. SubSeq(s, 1, Len(s)) = s
        BY SubSeqFull
      <4>2. QED  BY <1>2, <2>2, <2>3, <2>7, <4>1
    <3>2. EndsWithEos(s)
      BY <1>2, <2>1, <2>2, <2>7
    <3>3. h[m + 1] = s /\ ~(m + 1 <= l)
      BY <1>2, <2>2, <2>5, <2>7, <3>1, <3>2
    <3>4. QED  BY <3>3
  <2>8. QED  BY <2>6, <2>7
<1>5. T = Nat
  <2>1. T \in SUBSET Nat
    OBVIOUS
  <2> HIDE DEF T
  <2>2. QED  BY <1>3, <1>4, <2>1, SetInduction
<1>6. Same(n)
  BY <1>5
<1>7. h[n] = s
  <2>1. SubSeq(s, 1, Len(s)) = s
    BY SubSeqFull
  <2>2. QED  BY <1>2, <1>6, <2>1
<1>8. QED  BY <1>1, <1>7

-----------------------------------------------------------------------------
(* Where two outputs diverge, and what is fed to arrive there *)

\* MatchLen is defined: a sequence agrees with another up to their first
\* difference or to the end of the shorter.
LEMMA MatchLenFacts ==
    ASSUME NEW S, NEW T, NEW a \in Seq(S), NEW b \in Seq(T)
    PROVE  /\ MatchLen(a, b) \in 0..CommonLen(a, b)
           /\ AgreeOnExactly(a, b, MatchLen(a, b))
           /\ CommonLen(a, b) \in Nat
           /\ CommonLen(a, b) = IF Len(a) <= Len(b) THEN Len(a) ELSE Len(b)
<1>1. /\ CommonLen(a, b) \in Nat /\ Len(a) \in Nat /\ Len(b) \in Nat
      /\ CommonLen(a, b) = IF Len(a) <= Len(b) THEN Len(a) ELSE Len(b)
  BY LenProperties DEF CommonLen, Smaller
<1> DEFINE c == CommonLen(a, b)
           D == {i \in 1..c : a[i] # b[i]}
<1>2. \E m \in 0..c : AgreeOnExactly(a, b, m)
  <2>1. CASE D = {}
    <3>1. c \in 0..c /\ \A i \in 1..c : a[i] = b[i]
      BY <1>1, <2>1
    <3>2. QED  BY <1>1, <3>1 DEF AgreeOnExactly
  <2>2. CASE D # {}
    <3>1. D \in SUBSET Nat
      BY <1>1
    <3>2. \E x \in D : \A y \in D : x <= y
      <4> HIDE DEF D
      <4>1. QED  BY <2>2, <3>1, LeastElement
    <3>3. PICK x \in D : \A y \in D : x <= y
      BY <3>2
    <3>4. x - 1 \in 0..c /\ (x - 1) + 1 = x /\ a[x] # b[x]
      BY <1>1, <3>3
    <3>5. ASSUME NEW i \in 1..(x - 1)
          PROVE  a[i] = b[i]
      <4>1. i \in 1..c /\ ~(x <= i)
        BY <1>1, <3>4
      <4>2. i \notin D
        BY <3>3, <4>1
      <4>3. QED  BY <4>1, <4>2
    <3>6. AgreeOnExactly(a, b, x - 1)
      <4> HIDE DEF D
      <4>1. QED  BY <3>4, <3>5 DEF AgreeOnExactly
    <3>7. QED  BY <3>4, <3>6
  <2>3. QED  BY <2>1, <2>2
<1>3. QED  BY <1>1, <1>2 DEF MatchLen

\* An output that greedy decoding, or a baseline, has run to its end.
RunToItsEnd(s, n) ==
    /\ Len(s) <= n
    /\ \A i \in 1..(Len(s) - 1) : s[i] # EOS
    /\ Len(s) = n \/ EndsWithEos(s)

\* Two such outputs, when they differ, differ in a token before the shorter ends.
LEMMA DivergesWithin ==
    ASSUME NEW S, NEW T, NEW a \in Seq(S), NEW b \in Seq(T), NEW n \in Nat,
           RunToItsEnd(a, n), RunToItsEnd(b, n), a # b
    PROVE  MatchLen(a, b) < CommonLen(a, b)
<1>1. /\ MatchLen(a, b) \in 0..CommonLen(a, b)
      /\ AgreeOnExactly(a, b, MatchLen(a, b))
      /\ CommonLen(a, b) \in Nat
      /\ CommonLen(a, b) = IF Len(a) <= Len(b) THEN Len(a) ELSE Len(b)
  BY MatchLenFacts
<1>2. Len(a) \in Nat /\ Len(b) \in Nat
  BY LenProperties
<1>3. /\ a # <<>> => Len(a) \in Nat \ {0}
      /\ b # <<>> => Len(b) \in Nat \ {0}
  BY EmptySeq
<1>4. SUFFICES ASSUME MatchLen(a, b) = CommonLen(a, b)
               PROVE  FALSE
  BY <1>1
<1>5. \A i \in 1..CommonLen(a, b) : a[i] = b[i]
  BY <1>4, <1>1 DEF AgreeOnExactly
<1>6. Len(a) # Len(b)
  <2>1. SUFFICES ASSUME Len(a) = Len(b)
                 PROVE  FALSE
    OBVIOUS
  <2>2. \A i \in 1..Len(a) : a[i] = b[i]
    BY <1>1, <1>5, <2>1
  <2>3. a \in Seq(S \cup T) /\ b \in Seq(S \cup T)
    BY SeqMonotonic
  <2>4. QED  BY <2>1, <2>2, <2>3, SeqEqual
<1>7. CASE Len(a) < Len(b)
  <2>1. Len(a) \in 1..CommonLen(a, b) /\ Len(a) \in 1..(Len(b) - 1) /\ a[Len(a)] = EOS
    BY <1>1, <1>2, <1>3, <1>7 DEF RunToItsEnd, EndsWithEos
  <2>2. QED  BY <1>5, <2>1 DEF RunToItsEnd
<1>8. CASE Len(b) < Len(a)
  <2>1. Len(b) \in 1..CommonLen(a, b) /\ Len(b) \in 1..(Len(a) - 1) /\ b[Len(b)] = EOS
    BY <1>1, <1>2, <1>3, <1>8 DEF RunToItsEnd, EndsWithEos
  <2>2. QED  BY <1>5, <2>1 DEF RunToItsEnd
<1>9. QED  BY <1>2, <1>6, <1>7, <1>8

\* The output of generate_full_greedy is one of them.
LEMMA FullOutputEnds ==
    ASSUME NEW c, NEW n \in Nat
    PROVE  RunToItsEnd(FullOutput(c, n), n)
<1>1. PICK S : /\ FullOutput(c, n) \in Seq(S)
               /\ Len(FullOutput(c, n)) \in Nat /\ Len(FullOutput(c, n)) <= n
               /\ Len(FullOutput(c, n)) = n \/ EndsWithEos(FullOutput(c, n))
               /\ Greedy!Continues(c, FullOutput(c, n))
  BY FullOutputFacts
<1> DEFINE s == FullOutput(c, n)
<1> HIDE DEF s
<1>2. ASSUME NEW i \in 1..(Len(s) - 1)
      PROVE  s[i] # EOS
  <2>1. i \in 1..Len(s) /\ i < Len(s)
    BY <1>1 DEF s
  <2>2. QED  BY <1>1, <2>1 DEF s, Greedy!Continues
<1>3. QED  BY <1>1, <1>2 DEF s, RunToItsEnd

\* The first d tokens of s are in S.
StartsIn(s, d, S) == \A i \in 1..d : s[i] \in S

\* The feed has the length of what precedes the divergence, but shifted.
LEMMA FeedFacts ==
    ASSUME NEW S, NEW s, NEW d \in Nat \ {0}, StartsIn(s, d, S)
    PROVE  /\ topk_feed(s, d) \in Seq(S)
           /\ Len(topk_feed(s, d)) = d
           /\ topk_feed(s, d) # <<>>
           /\ \A i \in 1..d : topk_feed(s, d)[i] = IF i < d THEN s[i + 1] ELSE s[d]
<1> DEFINE u == SubSeq(s, 2, d)
           v == <<s[d]>>
<1>1. /\ u \in Seq(S) /\ Len(u) = d - 1
      /\ \A i \in 1..(d - 1) : u[i] = s[i + 1]
  <2>1. \A i \in 2..d : s[i] \in S
    BY DEF StartsIn
  <2>2. /\ u \in Seq(S) /\ Len(u) = IF 2 <= d THEN d - 2 + 1 ELSE 0
        /\ \A i \in 1..(d - 2 + 1) : u[i] = s[2 + i - 1]
    BY <2>1, SubSeqProperties
  <2>3. QED  BY <2>2
<1>2. v \in Seq(S) /\ Len(v) = 1 /\ v[1] = s[d]
  BY d \in 1..d DEF StartsIn
<1> HIDE DEF u, v
<1>3. /\ u \o v \in Seq(S) /\ Len(u \o v) = d
      /\ \A i \in 1..d : (u \o v)[i] = IF i <= d - 1 THEN u[i] ELSE v[i - (d - 1)]
  <2>1. /\ u \o v \in Seq(S) /\ Len(u \o v) = Len(u) + Len(v)
        /\ \A i \in 1..Len(u) + Len(v) :
              (u \o v)[i] = IF i <= Len(u) THEN u[i] ELSE v[i - Len(u)]
    BY <1>1, <1>2, ConcatProperties
  <2>2. Len(u) + Len(v) = d
    BY <1>1, <1>2
  <2>3. QED  BY <1>1, <2>1, <2>2
<1>4. ASSUME NEW i \in 1..d
      PROVE  (u \o v)[i] = IF i < d THEN s[i + 1] ELSE s[d]
  <2>1. CASE i < d
    BY <1>1, <1>3, <2>1
  <2>2. CASE i = d
    <3>1. i - (d - 1) = 1 /\ ~(i <= d - 1) /\ ~(i < d)
      BY <2>2
    <3>2. (u \o v)[i] = v[i - (d - 1)]
      BY <1>3, <3>1
    <3>3. (u \o v)[i] = s[d]
      BY <1>2, <3>1, <3>2
    <3>4. QED  BY <3>1, <3>3
  <2>3. i < d \/ i = d
    OBVIOUS
  <2>4. QED  BY <2>1, <2>2, <2>3, Zenon
<1>5. u \o v # <<>>
  BY <1>3, EmptySeq
<1>6. QED  BY <1>3, <1>4, <1>5 DEF topk_feed, u, v

\* Sequences that agree on the first d tokens are fed alike.
LEMMA SameFeed ==
    ASSUME NEW S, NEW s, NEW t, NEW d \in Nat \ {0},
           StartsIn(s, d, S), \A i \in 1..d : t[i] = s[i]
    PROVE  topk_feed(t, d) = topk_feed(s, d)
<1> DEFINE f == topk_feed(s, d)
           g == topk_feed(t, d)
<1>0. StartsIn(s, d, S) /\ StartsIn(t, d, S)
  BY DEF StartsIn
<1>1. /\ f \in Seq(S) /\ Len(f) = d
      /\ \A i \in 1..d : f[i] = IF i < d THEN s[i + 1] ELSE s[d]
  BY <1>0, FeedFacts
<1>2. /\ g \in Seq(S) /\ Len(g) = d
      /\ \A i \in 1..d : g[i] = IF i < d THEN t[i + 1] ELSE t[d]
  BY <1>0, FeedFacts
<1>3. ASSUME NEW i \in 1..d
      PROVE  g[i] = f[i]
  <2>1. i < d => i + 1 \in 1..d
    OBVIOUS
  <2>2. QED  BY <1>1, <1>2, <2>1
<1>4. QED  BY <1>1, <1>2, <1>3, SeqEqual

\* What is fed is what precedes the divergence only when that repeats one token.
LEMMA FeedIsPrefix ==
    ASSUME NEW S, NEW s, NEW d \in Nat \ {0}, StartsIn(s, d, S)
    PROVE  /\ SubSeq(s, 1, d) \in Seq(S) /\ Len(SubSeq(s, 1, d)) = d
           /\ topk_feed(s, d) = SubSeq(s, 1, d)
                <=> \A i \in 1..d : SubSeq(s, 1, d)[i] = SubSeq(s, 1, d)[1]
<1> DEFINE u == SubSeq(s, 1, d)
           f == topk_feed(s, d)
<1>1. /\ u \in Seq(S) /\ Len(u) = d
      /\ \A i \in 1..d : u[i] = s[i]
  <2>1. /\ u \in Seq(S) /\ Len(u) = IF 1 <= d THEN d - 1 + 1 ELSE 0
        /\ \A i \in 1..(d - 1 + 1) : u[i] = s[1 + i - 1]
    BY SubSeqProperties DEF StartsIn
  <2>2. QED  BY <2>1
<1>2. /\ f \in Seq(S) /\ Len(f) = d
      /\ \A i \in 1..d : f[i] = IF i < d THEN s[i + 1] ELSE s[d]
  BY FeedFacts
<1> HIDE DEF u, f
<1>3. ASSUME f = u
      PROVE  \A i \in 1..d : u[i] = u[1]
  <2> DEFINE T == {k \in Nat : k + 1 \in 1..d => s[k + 1] = s[1]}
  <2>1. 0 \in T
    OBVIOUS
  <2>2. ASSUME NEW k \in T
        PROVE  k + 1 \in T
    <3>1. SUFFICES ASSUME (k + 1) + 1 \in 1..d
                   PROVE  s[(k + 1) + 1] = s[1]
      OBVIOUS
    <3>2. k + 1 \in 1..d /\ k + 1 < d
      BY <3>1
    <3>3. s[k + 1] = s[1]
      BY <3>2
    <3>4. f[k + 1] = s[(k + 1) + 1] /\ u[k + 1] = s[k + 1]
      BY <1>1, <1>2, <3>2
    <3>5. QED  BY <1>3, <3>3, <3>4
  <2>3. T = Nat
    <3>1. T \in SUBSET Nat
      OBVIOUS
    <3> HIDE DEF T
    <3>2. QED  BY <2>1, <2>2, <3>1, SetInduction
  <2>4. ASSUME NEW i \in 1..d
        PROVE  u[i] = u[1]
    <3>1. i - 1 \in Nat /\ (i - 1) + 1 = i /\ 1 \in 1..d
      OBVIOUS
    <3>2. s[i] = s[1]
      <4>1. i - 1 \in T
        BY <2>3, <3>1
      <4>2. QED  BY <3>1, <4>1
    <3>3. QED  BY <1>1, <3>1, <3>2
  <2>5. QED  BY <2>4
<1>4. ASSUME \A i \in 1..d : u[i] = u[1]
      PROVE  f = u
  <2>1. ASSUME NEW i \in 1..d
        PROVE  f[i] = u[i]
    <3>1. CASE i < d
      <4>1. i + 1 \in 1..d
        BY <3>1
      <4>2. f[i] = s[i + 1] /\ u[i + 1] = s[i + 1]
        BY <1>1, <1>2, <3>1, <4>1
      <4>3. u[i + 1] = u[1] /\ u[i] = u[1]
        BY <1>4, <4>1
      <4>4. QED  BY <4>2, <4>3
    <3>2. CASE i = d
      BY <1>1, <1>2, <3>2
    <3>3. QED  BY <3>1, <3>2
  <2>2. QED  BY <1>1, <1>2, <2>1, SeqEqual
<1>5. QED  BY <1>1, <1>3, <1>4 DEF u, f

\* Running the head of the feed moves it from the feed to the cache.
LEMMA ShiftHead ==
    ASSUME NEW S, NEW x \in Seq(S), NEW f \in Seq(S), f # <<>>
    PROVE  Append(x, Head(f)) \o Tail(f) = x \o f
<1>1. Len(f) \in Nat \ {0}
  BY EmptySeq
<1>2. Head(f) = f[1] /\ Head(f) \in S /\ Tail(f) \in Seq(S) /\ Tail(f) = SubSeq(f, 2, Len(f))
  BY HeadTailProperties, TailIsSubSeq
<1>3. f = <<f[1]>> \o SubSeq(f, 2, Len(f))
  <2>1. SubSeq(f, 1, Len(f)) = <<f[1]>> \o SubSeq(f, 1 + 1, Len(f))
    BY <1>1, SubSeqRecursiveFirst
  <2>2. SubSeq(f, 1, Len(f)) = f
    BY SubSeqFull
  <2>3. QED  BY <2>1, <2>2
<1>4. Append(x, Head(f)) = x \o <<Head(f)>> /\ <<Head(f)>> \in Seq(S)
  BY <1>2, AppendIsConcat
<1>5. (x \o <<Head(f)>>) \o Tail(f) = x \o (<<Head(f)>> \o Tail(f))
  BY <1>2, <1>4, ConcatAssociative
<1>6. QED  BY <1>2, <1>3, <1>4, <1>5

-----------------------------------------------------------------------------
(* The tools: what they know between two steps *)

\* A tool is a record of its locals.
IsTool ==
    /\ tool = [ name |-> tool.name, path |-> tool.path, feed |-> tool.feed,
                cache |-> tool.cache, out |-> tool.out ]
    /\ tool.name \in {"idle", "topk", "cell"}

\* What both paths of a capture are fed, and what the model then has seen.
Feed == topk_feed(generated_ids, Divergence[1])
Context == request.prompt \o Feed

\* A capture: the tokens already run and the ones still to run are the prompt and
\* the feed; the full path comes first and is exact.
TopkInv ==
    tool.name = "topk" =>
        /\ pc = "returned" /\ request.baseline # "full"
        /\ Divergence # <<>> /\ Divergence[1] >= 1
        /\ tool.feed \in Seq(Token)
        /\ tool.cache \in Cache
        /\ tool.cache.tokens \o tool.feed = Context
        /\ tool.path \in {"full", "lossy"}
        /\ tool.path = "full" => tool.feed # <<>> /\ tool.cache.exact /\ tool.out = <<>>
        /\ tool.path = "lossy" =>
              /\ tool.out[1] = [context |-> Context, top1 |-> FullNext(Context)]
              /\ tool.feed # <<>> => tool.out = <<tool.out[1]>>
              /\ tool.feed = <<>> => tool.out[2].context = Context

\* The first token of a cell without compression, and what it continues.
First == FullNext(request.prompt)
CellContext == request.prompt \o <<First, First>>

\* A cell without compression repeats the first token, then decodes greedily.
NoopCellInv ==
    /\ tool.out = <<>> =>
          /\ next_token_id = First
          /\ kv["lossy"] = [ tokens |-> IF tool.path = "forward" THEN request.prompt
                                        ELSE Append(request.prompt, First),
                             exact  |-> TRUE ]
    /\ tool.out # <<>> =>
          /\ tool.out[1] = First
          /\ First = EOS => Len(tool.out) = 1
          /\ First # EOS => Greedy!Continues(CellContext, Tail(tool.out))
          /\ ~EndsWithEos(tool.out) =>
                /\ kv["lossy"] = [ tokens |-> CellContext \o Tail(tool.out),
                                   exact  |-> TRUE ]
                /\ next_token_id = FullNext(CellContext \o Tail(tool.out))

\* A cell: the prompt's cache is left alone.
CellInv ==
    tool.name = "cell" =>
        /\ pc = "prefill" /\ request.baseline \in CellModes
        /\ past_key_values = "lossy" /\ kv["full"] = PrefillCache(request.prompt)
        /\ next_token_id \in Token
        /\ tool.path \in {"forward", "decode"}
        /\ tool.out \in Seq(Token) /\ Len(tool.out) <= request.max_new_tokens
        /\ tool.path = "forward" => tool.out = <<>>
        /\ request.baseline = "noop" => NoopCellInv

\* The baselines generate within the budget, and stop at EOS or at its end.
LengthInv ==
    /\ Len(generated_ids) <= request.max_new_tokens
    /\ \A i \in 1..(Len(generated_ids) - 1) : generated_ids[i] # EOS
    /\ stopped_on_eos <=> EndsWithEos(generated_ids)
    /\ pc = "returned" => ~GoesOn

ToolInv == IInv /\ IsTool /\ LengthInv /\ TopkInv /\ CellInv

\* A divergence lies before the end of both outputs.
LEMMA DivergenceFacts ==
    ASSUME IInv, LengthInv, pc = "returned", full_ids # generated_ids
    PROVE  \E S :
              /\ full_ids \in Seq(S) /\ generated_ids \in Seq(Token)
              /\ Len(full_ids) \in Nat /\ Len(generated_ids) \in Nat
              /\ Divergence = <<MatchLen(full_ids, generated_ids)>>
              /\ MatchLen(full_ids, generated_ids) \in Nat
              /\ MatchLen(full_ids, generated_ids) < Len(full_ids)
              /\ MatchLen(full_ids, generated_ids) < Len(generated_ids)
              /\ MatchLen(full_ids, generated_ids) < CommonLen(full_ids, generated_ids)
              /\ \A i \in 1..MatchLen(full_ids, generated_ids) :
                    full_ids[i] = generated_ids[i]
<1> DEFINE a == full_ids
           b == generated_ids
           n == request.max_new_tokens
<1>1. b \in Seq(Token) /\ n \in Nat
  BY RequestFacts DEF IInv, TypeOK
<1>2. PICK S : a \in Seq(S)
  BY <1>1, FullOutputFacts DEF full_ids
<1>3. RunToItsEnd(a, n)
  BY <1>1, FullOutputEnds DEF full_ids
<1>4. RunToItsEnd(b, n)
  <2>1. Len(b) \in Nat
    BY <1>1, LenProperties
  <2>2. Len(b) = n \/ EndsWithEos(b)
    BY <1>1, <2>1 DEF LengthInv, GoesOn
  <2>3. QED  BY <2>2 DEF LengthInv, RunToItsEnd
<1>5. Divergence = <<MatchLen(a, b)>>
  BY DEF Divergence, first_divergence_idx
<1> HIDE DEF a, b, n
<1>6. a # b
  BY DEF a, b
<1>7. MatchLen(a, b) < CommonLen(a, b)
  BY <1>1, <1>2, <1>3, <1>4, <1>6, DivergesWithin
<1>8. /\ MatchLen(a, b) \in 0..CommonLen(a, b)
      /\ AgreeOnExactly(a, b, MatchLen(a, b))
      /\ CommonLen(a, b) \in Nat
      /\ CommonLen(a, b) = IF Len(a) <= Len(b) THEN Len(a) ELSE Len(b)
  BY <1>1, <1>2, MatchLenFacts
<1>9. Len(a) \in Nat /\ Len(b) \in Nat
  BY <1>1, <1>2, LenProperties
<1>10. /\ MatchLen(a, b) \in Nat
       /\ MatchLen(a, b) < Len(a) /\ MatchLen(a, b) < Len(b)
  BY <1>7, <1>8, <1>9
<1>11. \A i \in 1..MatchLen(a, b) : a[i] = b[i]
  BY <1>8 DEF AgreeOnExactly
<1>12. QED  BY <1>1, <1>2, <1>5, <1>7, <1>9, <1>10, <1>11 DEF a, b

\* Both paths are fed the same tokens, as many as precede the divergence.
LEMMA FeedOfDivergence ==
    ASSUME IInv, LengthInv, pc = "returned", Divergence # <<>>, Divergence[1] >= 1
    PROVE  /\ Divergence[1] \in Nat \ {0}
           /\ StartsIn(generated_ids, Divergence[1], Token)
           /\ \A i \in 1..Divergence[1] : full_ids[i] = generated_ids[i]
           /\ topk_feed(full_ids, Divergence[1]) = Feed
           /\ Feed \in Seq(Token) /\ Feed # <<>> /\ Len(Feed) = Divergence[1]
<1>1. full_ids # generated_ids
  BY DEF Divergence, first_divergence_idx
<1>2. PICK m \in Nat :
        /\ Divergence = <<m>> /\ m < Len(generated_ids)
        /\ generated_ids \in Seq(Token) /\ Len(generated_ids) \in Nat
        /\ \A i \in 1..m : full_ids[i] = generated_ids[i]
  BY <1>1, DivergenceFacts
<1>3. Divergence[1] = m /\ m \in Nat \ {0}
  BY <1>2
<1>4. StartsIn(generated_ids, m, Token)
  <2>1. \A i \in 1..m : i \in 1..Len(generated_ids)
    BY <1>2
  <2>2. QED  BY <1>2, <2>1, ElementOfSeq DEF StartsIn
<1>5. topk_feed(full_ids, m) = topk_feed(generated_ids, m)
  <2> DEFINE a == full_ids
             b == generated_ids
  <2>1. \A i \in 1..m : a[i] = b[i]
    BY <1>2
  <2>2. StartsIn(b, m, Token)
    BY <1>4
  <2> HIDE DEF a, b
  <2>3. topk_feed(a, m) = topk_feed(b, m)
    BY <1>3, <2>1, <2>2, SameFeed
  <2>4. QED  BY <2>3 DEF a, b
<1>6. /\ topk_feed(generated_ids, m) \in Seq(Token)
      /\ topk_feed(generated_ids, m) # <<>>
      /\ Len(topk_feed(generated_ids, m)) = m
  BY <1>3, <1>4, FeedFacts
<1>7. QED  BY <1>2, <1>3, <1>4, <1>5, <1>6 DEF Feed

LEMMA ToolInitial == ToolInit => ToolInv
<1> SUFFICES ASSUME ToolInit PROVE ToolInv
  OBVIOUS
<1>1. IInv
  BY Initial DEF ToolInit
<1>2. IsTool /\ TopkInv /\ CellInv
  BY DEF ToolInit, Idle, IsTool, TopkInv, CellInv
<1>3. LengthInv
  <2>1. Len(<<>>) = 0 /\ ~EndsWithEos(<<>>)
    BY EmptySeq DEF EndsWithEos
  <2>2. generated_ids = <<>> /\ stopped_on_eos = FALSE /\ pc = "prefill"
    BY DEF ToolInit, Init
  <2>3. request.max_new_tokens \in Nat
    BY <1>1, RequestFacts DEF IInv
  <2>4. QED  BY <2>1, <2>2, <2>3 DEF LengthInv
<1>4. QED  BY <1>1, <1>2, <1>3 DEF ToolInv

\* One token more, within the budget and after no EOS.
LEMMA LengthAppend ==
    ASSUME NEW s \in Seq(Token), NEW t \in Token, ~EndsWithEos(s),
           \A i \in 1..(Len(s) - 1) : s[i] # EOS
    PROVE  /\ \A i \in 1..(Len(Append(s, t)) - 1) : Append(s, t)[i] # EOS
           /\ EndsWithEos(Append(s, t)) <=> t = EOS
           /\ Len(Append(s, t)) = Len(s) + 1
<1>1. /\ Len(Append(s, t)) = Len(s) + 1 /\ Len(s) \in Nat
      /\ \A i \in 1..Len(s) : Append(s, t)[i] = s[i]
      /\ EndsWithEos(Append(s, t)) <=> t = EOS
  BY AppendFacts
<1>2. ASSUME NEW i \in 1..Len(s)
      PROVE  s[i] # EOS
  <2>1. CASE i = Len(s)
    <3>1. s # <<>>
      BY <1>1, <2>1, EmptySeq
    <3>2. QED  BY <2>1, <3>1 DEF EndsWithEos
  <2>2. CASE i # Len(s)
    BY <1>1, <2>2
  <2>3. QED  BY <2>1, <2>2
<1>3. QED  BY <1>1, <1>2

LEMMA LengthStep ==
    ASSUME IInv, LengthInv, Step
    PROVE  LengthInv'
<1>1. /\ TypeOK /\ generated_ids \in Seq(Token) /\ request.max_new_tokens \in Nat
      /\ EOS \in Token /\ Len(generated_ids) \in Nat
  BY RequestFacts, TokenFacts, LenProperties DEF IInv, TypeOK
<1>2. CASE Prefill
  <2>1. UNCHANGED <<request, generated_ids, stopped_on_eos>> /\ pc' # "returned"
    BY <1>2 DEF Prefill
  <2>2. QED  BY <2>1 DEF LengthInv
<1>3. CASE DecodeEos
  <2>1. /\ generated_ids' = Append(generated_ids, EOS) /\ stopped_on_eos' = TRUE
        /\ UNCHANGED <<request, pc>> /\ pc = "decode"
        /\ Len(generated_ids) < request.max_new_tokens /\ ~EndsWithEos(generated_ids)
    BY <1>3 DEF DecodeEos, GoesOn, LengthInv
  <2>2. /\ \A i \in 1..(Len(generated_ids') - 1) : generated_ids'[i] # EOS
        /\ EndsWithEos(generated_ids')
        /\ Len(generated_ids') = Len(generated_ids) + 1
    BY <1>1, <2>1, LengthAppend DEF LengthInv
  <2>3. QED  BY <1>1, <2>1, <2>2 DEF LengthInv
<1>4. CASE Decode
  <2>1. /\ generated_ids' = Append(generated_ids, next_token_id)
        /\ next_token_id \in Token /\ next_token_id # EOS
        /\ UNCHANGED <<request, pc, stopped_on_eos>> /\ pc = "decode"
        /\ Len(generated_ids) < request.max_new_tokens
        /\ ~stopped_on_eos /\ ~EndsWithEos(generated_ids)
    BY <1>4 DEF Decode, GoesOn, LengthInv
  <2>2. /\ \A i \in 1..(Len(generated_ids') - 1) : generated_ids'[i] # EOS
        /\ ~EndsWithEos(generated_ids')
        /\ Len(generated_ids') = Len(generated_ids) + 1
    BY <1>1, <2>1, LengthAppend DEF LengthInv
  <2>3. QED  BY <1>1, <2>1, <2>2 DEF LengthInv
<1>5. CASE DecodeOutOfVocabulary
  BY <1>5 DEF DecodeOutOfVocabulary, LengthInv
<1>6. CASE Return
  <2>1. UNCHANGED <<request, generated_ids, stopped_on_eos>> /\ ~GoesOn
    BY <1>6 DEF Return
  <2>2. QED  BY <2>1 DEF LengthInv, GoesOn
<1>7. QED  BY <1>2, <1>3, <1>4, <1>5, <1>6 DEF Step

\* A step of the baseline, while no tool is at work.
LEMMA BaselineStepInv == ToolInv /\ BaselineStep => ToolInv'
<1> SUFFICES ASSUME ToolInv, BaselineStep PROVE ToolInv'
  OBVIOUS
<1>1. IInv /\ LengthInv /\ Step /\ tool' = tool /\ tool.name = "idle" /\ IsTool
  BY DEF ToolInv, BaselineStep
<1>2. IInv'
  BY <1>1, Inductive DEF Next
<1>3. LengthInv'
  BY <1>1, LengthStep
<1>4. IsTool' /\ TopkInv' /\ CellInv'
  BY <1>1 DEF IsTool, TopkInv, CellInv
<1>5. QED  BY <1>2, <1>3, <1>4 DEF ToolInv


\* A step that leaves the baseline as it is.
LEMMA BaselineUnchanged ==
    ASSUME IInv, LengthInv, UNCHANGED vars
    PROVE  IInv' /\ LengthInv'
<1>1. IInv'
  BY Inductive
<1>2. LengthInv'
  BY DEF LengthInv, vars, GoesOn
<1>3. QED  BY <1>1, <1>2

LEMMA CaptureInv == ToolInv /\ CaptureTopk => ToolInv'
<1> SUFFICES ASSUME ToolInv, CaptureTopk PROVE ToolInv'
  OBVIOUS
<1>1. /\ IInv /\ LengthInv /\ UNCHANGED vars /\ pc = "returned" /\ request.baseline # "full"
      /\ Divergence # <<>> /\ Divergence[1] >= 1
  BY DEF ToolInv, CaptureTopk
<1>2. tool' = [ name |-> "topk", path |-> "full", feed |-> topk_feed(full_ids, Divergence[1]),
                cache |-> PrefillCache(request.prompt), out |-> <<>> ]
  BY DEF CaptureTopk, Idle
<1>3. /\ topk_feed(full_ids, Divergence[1]) = Feed
      /\ Feed \in Seq(Token) /\ Feed # <<>>
  BY <1>1, FeedOfDivergence
<1>4. request.prompt \in Seq(Token)
  BY <1>1, RequestFacts DEF IInv
<1>5. /\ PrefillCache(request.prompt) \in Cache
      /\ PrefillCache(request.prompt).exact = TRUE
      /\ PrefillCache(request.prompt).tokens = request.prompt
  BY <1>4 DEF PrefillCache, Cache
<1>6. /\ UNCHANGED <<request, pc>> /\ Divergence' = Divergence /\ Context' = Context
  BY <1>1 DEF vars, Divergence, full_ids, Context, Feed
<1>7. IsTool'
  BY <1>2 DEF IsTool
<1>8. TopkInv'
  <2>1. /\ tool'.name = "topk" /\ tool'.path = "full" /\ tool'.feed = Feed
        /\ tool'.cache = PrefillCache(request.prompt) /\ tool'.out = <<>>
    BY <1>2, <1>3
  <2>2. tool'.cache.tokens \o tool'.feed = Context
    BY <1>5, <2>1 DEF Context
  <2> HIDE DEF Context
  <2>3. QED  BY <1>1, <1>3, <1>5, <1>6, <2>1, <2>2 DEF TopkInv
<1>9. CellInv'
  BY <1>2 DEF CellInv
<1>10. QED  BY <1>1, <1>7, <1>8, <1>9, BaselineUnchanged DEF ToolInv

\* What a forward call of the head of the feed does to the cache.
LEMMA FeedHead ==
    ASSUME NEW c \in Cache, NEW f \in Seq(Token), f # <<>>
    PROVE  /\ Extended(c, Head(f)) \in Cache
           /\ Extended(c, Head(f)).exact = c.exact
           /\ Extended(c, Head(f)).tokens \o Tail(f) = c.tokens \o f
           /\ Tail(f) \in Seq(Token) /\ Len(Tail(f)) = Len(f) - 1
           /\ Len(f) = 1 => Extended(c, Head(f)).tokens = c.tokens \o f
<1>1. Head(f) \in Token /\ Tail(f) \in Seq(Token) /\ Len(Tail(f)) = Len(f) - 1
  BY HeadTailProperties
<1>2. c.tokens \in Seq(Token) /\ c.exact \in BOOLEAN /\ c = [tokens |-> c.tokens, exact |-> c.exact]
  BY DEF Cache
<1>3. Extended(c, Head(f)) = [tokens |-> Append(c.tokens, Head(f)), exact |-> c.exact]
  BY <1>2, ExtendedRecord
<1>4. Append(c.tokens, Head(f)) \in Seq(Token)
  BY <1>1, <1>2, AppendProperties
<1>5. Append(c.tokens, Head(f)) \o Tail(f) = c.tokens \o f
  BY <1>2, ShiftHead
<1>6. Len(f) = 1 => Append(c.tokens, Head(f)) = c.tokens \o f
  <2>1. SUFFICES ASSUME Len(f) = 1
                 PROVE  Append(c.tokens, Head(f)) = c.tokens \o f
    OBVIOUS
  <2>2. Len(Tail(f)) = 0
    BY <1>1, <2>1
  <2>3. Tail(f) = <<>>
    BY <1>1, <2>2, EmptySeq
  <2>4. Append(c.tokens, Head(f)) \o <<>> = Append(c.tokens, Head(f))
    BY <1>4, ConcatEmptySeq
  <2>5. QED  BY <1>5, <2>3, <2>4
<1>7. /\ Extended(c, Head(f)) \in Cache
      /\ Extended(c, Head(f)).tokens = Append(c.tokens, Head(f))
      /\ Extended(c, Head(f)).exact = c.exact
  <2> DEFINE x == Append(c.tokens, Head(f))
             e == c.exact
  <2>1. x \in Seq(Token) /\ e \in BOOLEAN /\ Extended(c, Head(f)) = [tokens |-> x, exact |-> e]
    BY <1>2, <1>3, <1>4
  <2> HIDE DEF x, e
  <2>2. [tokens |-> x, exact |-> e] \in Cache
    BY <2>1 DEF Cache
  <2>3. Extended(c, Head(f)).tokens = x /\ Extended(c, Head(f)).exact = e
    BY <2>1
  <2>4. QED  BY <2>1, <2>2, <2>3 DEF x, e
<1>8. QED  BY <1>1, <1>5, <1>6, <1>7

LEMMA FeedTopkInv == ToolInv /\ FeedTopk => ToolInv'
<1> SUFFICES ASSUME ToolInv, FeedTopk PROVE ToolInv'
  OBVIOUS
<1> DEFINE cache == Extended(tool.cache, Head(tool.feed))
<1>1. /\ IInv /\ LengthInv /\ UNCHANGED vars /\ IsTool
      /\ tool.name = "topk" /\ tool.feed # <<>>
  BY DEF ToolInv, FeedTopk
<1>2. /\ pc = "returned" /\ request.baseline # "full"
      /\ Divergence # <<>> /\ Divergence[1] >= 1
      /\ tool.feed \in Seq(Token) /\ tool.cache \in Cache
      /\ tool.cache.tokens \o tool.feed = Context
      /\ tool.path \in {"full", "lossy"}
      /\ tool.path = "full" => tool.cache.exact /\ tool.out = <<>>
      /\ tool.path = "lossy" =>
            /\ tool.out[1] = [context |-> Context, top1 |-> FullNext(Context)]
            /\ tool.out = <<tool.out[1]>>
  BY <1>1 DEF ToolInv, TopkInv
<1>3. /\ UNCHANGED <<request, pc>> /\ Divergence' = Divergence /\ Context' = Context
  BY <1>1 DEF vars, Divergence, full_ids, Context, Feed
<1>4. /\ cache \in Cache /\ cache.exact = tool.cache.exact
      /\ cache.tokens \o Tail(tool.feed) = Context
      /\ Tail(tool.feed) \in Seq(Token) /\ Len(Tail(tool.feed)) = Len(tool.feed) - 1
      /\ Len(tool.feed) = 1 => cache.tokens = Context
  BY <1>1, <1>2, FeedHead
<1>5. Feed \in Seq(Token) /\ Feed # <<>>
  BY <1>1, <1>2, FeedOfDivergence
<1>6. request.prompt \in Seq(Token)
  BY <1>1, RequestFacts DEF IInv
<1> HIDE DEF cache
<1>7. CASE Len(tool.feed) > 1 /\ tool' = [tool EXCEPT !.cache = cache, !.feed = Tail(@)]
  <2>1. tool' = [ name |-> tool.name, path |-> tool.path, feed |-> Tail(tool.feed),
                  cache |-> cache, out |-> tool.out ]
    BY <1>1, <1>7 DEF IsTool
  <2>2. Tail(tool.feed) # <<>>
    <3>1. PICK k \in Nat : k = Len(tool.feed)
      BY <1>2, LenProperties
    <3> DEFINE m == Len(Tail(tool.feed))
    <3>2. k > 1 /\ m = k - 1
      BY <1>4, <1>7, <3>1
    <3> HIDE DEF m
    <3>3. k - 1 # 0
      BY <3>2
    <3>4. m # 0
      <4>1. m = k - 1
        BY <3>2
      <4>2. QED  BY <3>3, <4>1
    <3>5. Len(Tail(tool.feed)) # 0
      BY <3>4 DEF m
    <3>6. Len(<<>>) = 0
      BY EmptySeq
    <3>7. QED  BY <3>5, <3>6, Zenon
  <2>3. /\ tool'.name = "topk" /\ tool'.path = tool.path /\ tool'.feed = Tail(tool.feed)
        /\ tool'.cache = cache /\ tool'.out = tool.out
    BY <1>1, <2>1
  <2>4. IsTool'
    BY <1>1, <2>1 DEF IsTool
  <2>5. TopkInv'
    <3> HIDE DEF Context
    <3>1. QED  BY <1>2, <1>3, <1>4, <2>2, <2>3 DEF TopkInv
  <2>6. CellInv'
    BY <2>3 DEF CellInv
  <2>7. QED  BY <1>1, <2>4, <2>5, <2>6, BaselineUnchanged DEF ToolInv
<1>8. ASSUME Len(tool.feed) = 1, tool.path = "full", NEW t \in Predictions(cache),
             tool' = [ tool EXCEPT
                         !.path = "lossy",
                         !.feed = topk_feed(generated_ids, Divergence[1]),
                         !.cache = [ PrefillCache(request.prompt) EXCEPT
                                       !.exact = request.baseline = "noop" ],
                         !.out = <<[context |-> cache.tokens, top1 |-> t]>> ]
      PROVE  ToolInv'
  <2> DEFINE own == [PrefillCache(request.prompt) EXCEPT !.exact = request.baseline = "noop"]
             r == [context |-> cache.tokens, top1 |-> t]
  <2>1. tool' = [ name |-> tool.name, path |-> "lossy",
                  feed |-> topk_feed(generated_ids, Divergence[1]),
                  cache |-> own, out |-> <<r>> ]
    BY <1>1, <1>8 DEF IsTool
  <2>2. own \in Cache /\ own.tokens = request.prompt
    BY <1>6 DEF PrefillCache, Cache
  <2>3. r = [context |-> Context, top1 |-> FullNext(Context)]
    BY <1>2, <1>4, <1>8 DEF Predictions
  <2> HIDE DEF own, r
  <2>4. /\ tool'.name = "topk" /\ tool'.path = "lossy" /\ tool'.feed = Feed
        /\ tool'.cache = own /\ tool'.out = <<r>>
    BY <1>1, <2>1 DEF Feed
  <2>5. own.tokens \o Feed = Context
    BY <2>2 DEF Context
  <2>6. IsTool'
    BY <1>1, <2>1 DEF IsTool
  <2>7. TopkInv'
    <3> HIDE DEF Context
    <3>1. tool'.out[1] = r /\ tool'.out = <<tool'.out[1]>>
      BY <2>4
    <3>2. QED  BY <1>2, <1>3, <1>5, <2>2, <2>3, <2>4, <2>5, <3>1 DEF TopkInv
  <2>8. CellInv'
    BY <2>4 DEF CellInv
  <2>9. QED  BY <1>1, <2>6, <2>7, <2>8, BaselineUnchanged DEF ToolInv
<1>9. ASSUME Len(tool.feed) = 1, tool.path = "lossy", NEW t \in Predictions(cache),
             tool' = [ tool EXCEPT
                         !.feed = <<>>, !.cache = cache,
                         !.out = Append(@, [context |-> cache.tokens, top1 |-> t]) ]
      PROVE  ToolInv'
  <2> DEFINE q == tool.out[1]
             r == [context |-> cache.tokens, top1 |-> t]
  <2>1. tool' = [ name |-> tool.name, path |-> tool.path, feed |-> <<>>,
                  cache |-> cache, out |-> Append(tool.out, r) ]
    BY <1>1, <1>9 DEF IsTool
  <2>2. /\ q = [context |-> Context, top1 |-> FullNext(Context)] /\ tool.out = <<q>>
        /\ r.context = Context
    BY <1>2, <1>4, <1>9
  <2> HIDE DEF q, r
  <2>3. Append(<<q>>, r)[1] = q /\ Append(<<q>>, r)[2] = r
    OBVIOUS
  <2>4. /\ tool'.name = "topk" /\ tool'.path = "lossy" /\ tool'.feed = <<>>
        /\ tool'.cache = cache /\ tool'.out[1] = q /\ tool'.out[2] = r
    <3>1. tool'.out = Append(<<q>>, r)
      BY <2>1, <2>2
    <3>2. tool'.out[1] = q /\ tool'.out[2] = r
      BY <2>3, <3>1, Zenon
    <3>3. QED  BY <1>1, <1>9, <2>1, <3>2
  <2>5. cache.tokens \o <<>> = Context /\ <<>> \in Seq(Token)
    <3>1. cache.tokens \in Seq(Token)
      BY <1>4 DEF Cache
    <3>2. cache.tokens \o <<>> = cache.tokens
      BY <3>1, ConcatEmptySeq
    <3>3. QED  BY <1>4, <1>9, <3>2
  <2>6. IsTool'
    BY <1>1, <2>1 DEF IsTool
  <2>7. TopkInv'
    <3> HIDE DEF Context
    <3>1. QED  BY <1>2, <1>3, <1>4, <2>2, <2>4, <2>5 DEF TopkInv
  <2>8. CellInv'
    BY <2>4 DEF CellInv
  <2>9. QED  BY <1>1, <2>6, <2>7, <2>8, BaselineUnchanged DEF ToolInv
<1>10. QED  BY <1>7, <1>8, <1>9 DEF FeedTopk, cache


\* A cell starts from a prefill of its own.
LEMMA RunProbeCellInv == ToolInv /\ RunProbeCell => ToolInv'
<1> SUFFICES ASSUME ToolInv, RunProbeCell PROVE ToolInv'
  OBVIOUS
<1> DEFINE cache == PrefillCache(request.prompt)
           own == [cache EXCEPT !.exact = request.baseline = "noop"]
<1>1. /\ IInv /\ TypeOK /\ Fresh /\ LengthInv /\ pc = "prefill" /\ request.baseline \in CellModes
      /\ UNCHANGED <<request, pc, generated_ids, stopped_on_eos>>
      /\ past_key_values' = "lossy"
      /\ kv' = [kv EXCEPT !["full"] = cache, !["lossy"] = own]
  BY DEF ToolInv, IInv, RunProbeCell
<1>2. request.prompt \in Seq(Token) /\ request.max_new_tokens \in Nat
  BY <1>1, RequestFacts
<1>3. /\ cache = [tokens |-> request.prompt, exact |-> TRUE]
      /\ cache \in Cache
      /\ own \in Cache
      /\ request.baseline = "noop" => own = [tokens |-> request.prompt, exact |-> TRUE]
  <2> DEFINE b == request.baseline = "noop"
             p == request.prompt
  <2>1. p \in Seq(Token) /\ cache = [tokens |-> p, exact |-> TRUE] /\ own = [cache EXCEPT !.exact = b]
    BY <1>2 DEF PrefillCache
  <2> HIDE DEF b, p, cache, own
  <2>2. [[tokens |-> p, exact |-> TRUE] EXCEPT !.exact = b] = [tokens |-> p, exact |-> b]
    BY WithExact
  <2>3. own = [tokens |-> p, exact |-> b]
    BY <2>1, <2>2
  <2>4. b = TRUE \/ b = FALSE
    BY DEF b
  <2>5. [tokens |-> p, exact |-> TRUE] \in Cache /\ [tokens |-> p, exact |-> FALSE] \in Cache
    BY <2>1 DEF Cache
  <2>6. CASE b = TRUE
    BY <2>1, <2>3, <2>5, <2>6 DEF p
  <2>7. CASE b = FALSE
    <3>1. request.baseline # "noop"
      BY <2>7 DEF b
    <3>2. QED  BY <2>1, <2>3, <2>5, <2>7, <3>1 DEF p
  <2>8. QED  BY <2>4, <2>6, <2>7
<1>4. next_token_id' \in Token /\ next_token_id' = First
  BY <1>3 DEF RunProbeCell, Predictions, First
<1>5. tool' = [name |-> "cell", path |-> "forward", feed |-> <<>>, cache |-> NoCache, out |-> <<>>]
  BY DEF RunProbeCell, Idle
<1> HIDE DEF cache, own
<1>6. /\ kv' \in [CacheId -> Cache] /\ kv'["full"] = cache /\ kv'["lossy"] = own
      /\ past_key_values' \in CacheId
  BY <1>1, <1>3 DEF TypeOK, CacheId
<1>7. TypeOK'
  BY <1>1, <1>4, <1>6, TokenFacts DEF TypeOK
<1>8. IInv'
  BY <1>1, <1>7 DEF IInv, Fresh
<1>9. LengthInv'
  BY <1>1 DEF LengthInv
<1>10. IsTool' /\ TopkInv'
  BY <1>5 DEF IsTool, TopkInv
<1>11. CellInv'
  <2>1. /\ tool'.name = "cell" /\ tool'.path = "forward" /\ tool'.out = <<>>
        /\ First' = First /\ request' = request /\ pc' = pc
    BY <1>1, <1>5 DEF First
  <2>2. <<>> \in Seq(Token) /\ Len(<<>>) = 0
    BY EmptySeq
  <2>3. request.baseline = "noop" => NoopCellInv'
    BY <1>3, <1>4, <1>6, <2>1 DEF NoopCellInv
  <2>4. Len(tool'.out) <= request.max_new_tokens /\ tool'.out \in Seq(Token)
    BY <1>2, <2>1, <2>2
  <2>5. kv'["full"] = PrefillCache(request.prompt)
    BY <1>6 DEF cache
  <2>6. QED  BY <1>1, <1>4, <2>1, <2>3, <2>4, <2>5 DEF CellInv
<1>12. QED  BY <1>8, <1>9, <1>10, <1>11 DEF ToolInv

\* The steps of a cell change its own cache and nothing of the baseline's.
LEMMA CellKeepsIInv ==
    ASSUME IInv, LengthInv, pc = "prefill",
           UNCHANGED <<request, pc, past_key_values, generated_ids, stopped_on_eos>>,
           kv' \in [CacheId -> Cache], next_token_id' \in TokenId
    PROVE  IInv' /\ LengthInv'
<1>1. TypeOK /\ Fresh
  BY DEF IInv
<1>2. TypeOK'
  BY <1>1 DEF TypeOK
<1>3. IInv'
  BY <1>1, <1>2 DEF IInv, Fresh
<1>4. LengthInv'
  BY DEF LengthInv
<1>5. QED  BY <1>3, <1>4

\* The heap after a forward call on the cell's cache.
LEMMA CellHeap ==
    ASSUME TypeOK, past_key_values = "lossy", NEW t \in Token,
           kv' = [kv EXCEPT ![past_key_values] = Extended(@, t)]
    PROVE  /\ kv' \in [CacheId -> Cache] /\ kv'["full"] = kv["full"]
           /\ kv'["lossy"] = Extended(kv["lossy"], t)
<1>1. kv \in [CacheId -> Cache] /\ "lossy" \in CacheId /\ "full" \in CacheId
  BY DEF TypeOK, CacheId
<1>2. kv["lossy"] \in Cache
  BY <1>1
<1>3. Extended(kv["lossy"], t) \in Cache
  <2> DEFINE x == kv["lossy"].tokens
             e == kv["lossy"].exact
  <2>1. x \in Seq(Token) /\ e \in BOOLEAN /\ kv["lossy"] = [tokens |-> x, exact |-> e]
    BY <1>2 DEF Cache
  <2> HIDE DEF x, e
  <2>2. Append(x, t) \in Seq(Token)
    BY <2>1, AppendProperties
  <2>3. Extended(kv["lossy"], t) = [tokens |-> Append(x, t), exact |-> e]
    BY <2>1, ExtendedRecord
  <2>4. QED  BY <2>1, <2>2, <2>3 DEF Cache
<1>4. kv' = [kv EXCEPT !["lossy"] = Extended(kv["lossy"], t)]
  OBVIOUS
<1> DEFINE ext == Extended(kv["lossy"], t)
<1> HIDE DEF ext
<1>5. ext \in Cache /\ kv' = [kv EXCEPT !["lossy"] = ext]
  BY <1>3, <1>4 DEF ext
<1>6. /\ kv' \in [CacheId -> Cache] /\ kv'["full"] = kv["full"]
      /\ kv'["lossy"] = ext
  BY <1>1, <1>5
<1>7. QED  BY <1>6 DEF ext

LEMMA CellForwardInv == ToolInv /\ CellForward => ToolInv'
<1> SUFFICES ASSUME ToolInv, CellForward PROVE ToolInv'
  OBVIOUS
<1>1. /\ IInv /\ TypeOK /\ LengthInv /\ IsTool /\ tool.name = "cell" /\ tool.path = "forward"
      /\ UNCHANGED <<request, pc, past_key_values, next_token_id, generated_ids, stopped_on_eos>>
      /\ kv' = [kv EXCEPT ![past_key_values] = Extended(@, next_token_id)]
  BY DEF ToolInv, IInv, CellForward
<1>2. /\ pc = "prefill" /\ request.baseline \in CellModes
      /\ past_key_values = "lossy" /\ kv["full"] = PrefillCache(request.prompt)
      /\ next_token_id \in Token
      /\ tool.out \in Seq(Token) /\ Len(tool.out) <= request.max_new_tokens
      /\ tool.out = <<>>
      /\ request.baseline = "noop" => NoopCellInv
  BY <1>1 DEF ToolInv, CellInv
<1>3. tool' = [ name |-> "cell", path |-> "decode", feed |-> tool.feed, cache |-> tool.cache,
                out |-> tool.out ]
  BY <1>1 DEF CellForward, IsTool
<1>4. /\ kv' \in [CacheId -> Cache] /\ kv'["full"] = kv["full"]
      /\ kv'["lossy"] = Extended(kv["lossy"], next_token_id)
  BY <1>1, <1>2, CellHeap
<1>5. IInv' /\ LengthInv'
  BY <1>1, <1>2, <1>4, TokenFacts, CellKeepsIInv
<1>6. IsTool' /\ TopkInv'
  BY <1>3 DEF IsTool, TopkInv
<1>7. CellInv'
  <2>1. /\ tool'.name = "cell" /\ tool'.path = "decode" /\ tool'.out = tool.out
        /\ First' = First /\ CellContext' = CellContext
    BY <1>1, <1>3 DEF First, CellContext
  <2>2. ASSUME request.baseline = "noop"
        PROVE  NoopCellInv'
    <3>1. /\ next_token_id = First
          /\ kv["lossy"] = [tokens |-> request.prompt, exact |-> TRUE]
      BY <1>1, <1>2, <2>2 DEF NoopCellInv
    <3>2. kv'["lossy"] = [tokens |-> Append(request.prompt, First), exact |-> TRUE]
      <4>1. Extended(kv["lossy"], next_token_id)
              = Extended([tokens |-> request.prompt, exact |-> TRUE], First)
        BY <3>1, Zenon
      <4>2. Extended([tokens |-> request.prompt, exact |-> TRUE], First)
              = [tokens |-> Append(request.prompt, First), exact |-> TRUE]
        BY ExtendedRecord
      <4>3. QED  BY <1>4, <4>1, <4>2, Zenon
    <3>3. QED  BY <1>1, <1>2, <2>1, <3>1, <3>2 DEF NoopCellInv
  <2>3. QED  BY <1>1, <1>2, <1>4, <2>1, <2>2 DEF CellInv
<1>8. QED  BY <1>5, <1>6, <1>7 DEF ToolInv


LEMMA OneByOne ==
    ASSUME NEW S, NEW e \in S
    PROVE  Append(<<>>, e) = <<e>> /\ Append(<<e>>, e) = <<e, e>>
<1>1. <<>> \in Seq(S) /\ <<e>> \in Seq(S) /\ <<e, e>> \in Seq(S) /\ e \in S
  BY EmptySeq
<1>2. Append(<<>>, e) = <<e>>
  <2>1. Append(<<>>, e) = <<>> \o <<e>>
    BY <1>1, AppendIsConcat
  <2>2. <<>> \o <<e>> = <<e>>
    BY <1>1, ConcatEmptySeq
  <2>3. QED  BY <2>1, <2>2, Zenon
<1>3. Append(<<e>>, e) = <<e, e>>
  <2>1. ASSUME NEW w \in Seq(S), NEW v \in Seq(S), Len(w) = 1, w[1] = e,
               Len(v) = 2, v[1] = e, v[2] = e
        PROVE  Append(w, e) = v
    <3>1. /\ Append(w, e) \in Seq(S) /\ Len(Append(w, e)) = Len(w) + 1
          /\ \A i \in 1..Len(w) : Append(w, e)[i] = w[i]
          /\ Append(w, e)[Len(w) + 1] = e
      BY AppendProperties
    <3>2. Len(w) + 1 = 2 /\ 1 \in 1..Len(w)
      BY <2>1
    <3>3. Len(Append(w, e)) = 2 /\ Append(w, e)[1] = e /\ Append(w, e)[2] = e
      BY <2>1, <3>1, <3>2
    <3>4. \A i \in 1..2 : Append(w, e)[i] = v[i]
      BY <2>1, <3>3
    <3>5. QED  BY <2>1, <3>1, <3>3, <3>4, SeqEqual
  <2>2. Len(<<e>>) = 1 /\ <<e>>[1] = e
    OBVIOUS
  <2>3. Len(<<e, e>>) = 2 /\ <<e, e>>[1] = e /\ <<e, e>>[2] = e
    OBVIOUS
  <2>4. QED  BY <1>1, <2>1, <2>2, <2>3
<1>4. QED  BY <1>2, <1>3

\* A sequence of several tokens ends as its tail does.
LEMMA TailEnds ==
    ASSUME NEW s \in Seq(Token), s # <<>>
    PROVE  /\ Tail(s) \in Seq(Token) /\ Len(s) \in Nat \ {0} /\ Len(Tail(s)) = Len(s) - 1
           /\ s[1] \in Token
           /\ Len(s) = 1 => Tail(s) = <<>>
           /\ Len(s) > 1 => (EndsWithEos(Tail(s)) <=> EndsWithEos(s))
           /\ ~EndsWithEos(s) => ~EndsWithEos(Tail(s))
<1> DEFINE r == Tail(s)
<1>1. PICK k \in Nat \ {0} : k = Len(s)
  BY EmptySeq
<1>2. /\ r \in Seq(Token) /\ Len(r) = k - 1
      /\ \A i \in 1..Len(r) : r[i] = s[i + 1]
  BY <1>1, HeadTailProperties
<1>3. s[1] \in Token
  BY <1>1, ElementOfSeq
<1> HIDE DEF r
<1>4. k = 1 => r = <<>>
  <2>1. SUFFICES ASSUME k = 1 PROVE r = <<>>
    OBVIOUS
  <2>2. Len(r) = 0
    BY <1>2, <2>1
  <2>3. QED  BY <1>2, <2>2, EmptySeq
<1>5. k > 1 => (EndsWithEos(r) <=> EndsWithEos(s))
  <2>1. SUFFICES ASSUME k > 1 PROVE EndsWithEos(r) <=> EndsWithEos(s)
    OBVIOUS
  <2>2. k - 1 \in 1..Len(r) /\ (k - 1) + 1 = k /\ Len(r) = k - 1 /\ k - 1 # 0
    BY <1>2, <2>1
  <2>3. r # <<>>
    <3>1. Len(<<>>) = 0
      BY EmptySeq
    <3>2. Len(r) # 0
      BY <2>2
    <3>3. QED  BY <3>1, <3>2, Zenon
  <2>4. r[Len(r)] = s[Len(s)]
    BY <1>1, <1>2, <2>2
  <2>5. QED  BY <2>3, <2>4 DEF EndsWithEos
<1>6. ~EndsWithEos(s) => ~EndsWithEos(r)
  <2>1. ~EndsWithEos(<<>>)
    BY DEF EndsWithEos
  <2>2. k = 1 \/ k > 1
    BY <1>1
  <2>3. QED  BY <1>4, <1>5, <2>1, <2>2, Zenon
<1>7. QED  BY <1>1, <1>2, <1>3, <1>4, <1>5, <1>6 DEF r

\* What a cell without compression emits next continues what it has emitted.
LEMMA CellEmits ==
    ASSUME NEW s \in Seq(Token), NEW t \in Token, s # <<>>, ~EndsWithEos(s),
           s[1] = First, First = EOS => Len(s) = 1,
           First # EOS => Greedy!Continues(CellContext, Tail(s)),
           t = FullNext(CellContext \o Tail(s))
    PROVE  /\ First \in Token /\ First # EOS
           /\ Append(s, t)[1] = First
           /\ Tail(Append(s, t)) = Append(Tail(s), t)
           /\ Greedy!Continues(CellContext, Append(Tail(s), t))
<1>1. /\ Tail(s) \in Seq(Token) /\ Len(s) \in Nat \ {0} /\ s[1] \in Token
      /\ ~EndsWithEos(Tail(s))
  BY TailEnds
<1>2. First # EOS
  BY <1>1 DEF EndsWithEos
<1>3. Append(s, t)[1] = s[1]
  BY <1>1, AppendProperties
<1>4. Tail(Append(s, t)) = Append(Tail(s), t)
  BY HeadTailAppend
<1>5. Greedy!Continues(CellContext, Append(Tail(s), t))
  <2> DEFINE c == CellContext
             r == Tail(s)
  <2>1. /\ r \in Seq(Token) /\ ~EndsWithEos(r) /\ Greedy!Continues(c, r)
        /\ t = FullNext(c \o r)
    BY <1>1, <1>2
  <2> HIDE DEF c, r
  <2>2. Greedy!Continues(c, Append(r, t))
    BY <2>1, ContinuesAppend
  <2>3. QED  BY <2>2 DEF c, r
<1>6. QED  BY <1>1, <1>2, <1>3, <1>4, <1>5

LEMMA CellDecodeInv == ToolInv /\ CellDecode => ToolInv'
<1> SUFFICES ASSUME ToolInv, CellDecode PROVE ToolInv'
  OBVIOUS
<1> DEFINE s == tool.out
           t == next_token_id
<1>1. /\ IInv /\ TypeOK /\ LengthInv /\ IsTool /\ tool.name = "cell" /\ tool.path = "decode"
      /\ UNCHANGED <<request, pc, past_key_values, generated_ids, stopped_on_eos>>
      /\ Len(s) < request.max_new_tokens /\ ~EndsWithEos(s)
  BY DEF ToolInv, IInv, CellDecode, CellGoesOn
<1>2. /\ pc = "prefill" /\ request.baseline \in CellModes
      /\ past_key_values = "lossy" /\ kv["full"] = PrefillCache(request.prompt)
      /\ t \in Token /\ s \in Seq(Token)
      /\ request.baseline = "noop" => NoopCellInv
  BY <1>1 DEF ToolInv, CellInv
<1>3. tool' = [ name |-> "cell", path |-> "decode", feed |-> tool.feed, cache |-> tool.cache,
                out |-> Append(s, t) ]
  BY <1>1 DEF CellDecode, IsTool
<1>4. request.prompt \in Seq(Token) /\ request.max_new_tokens \in Nat
  BY <1>1, RequestFacts
<1>5. /\ Append(s, t) \in Seq(Token) /\ Append(s, t) # <<>>
      /\ Len(Append(s, t)) = Len(s) + 1 /\ Len(s) \in Nat
      /\ EndsWithEos(Append(s, t)) <=> t = EOS
      /\ Append(s, t)[Len(s) + 1] = t
  BY <1>2, AppendFacts
<1>6. /\ tool'.name = "cell" /\ tool'.path = "decode" /\ tool'.out = Append(s, t)
      /\ First' = First /\ CellContext' = CellContext
  BY <1>1, <1>3 DEF First, CellContext
<1>7. IsTool' /\ TopkInv'
  BY <1>3 DEF IsTool, TopkInv
<1>8. Len(Append(s, t)) <= request.max_new_tokens
  BY <1>1, <1>4, <1>5
<1>9. s = <<>> => Append(s, t)[1] = t /\ Len(Append(s, t)) = 1 /\ Tail(Append(s, t)) = <<>>
  <2>1. SUFFICES ASSUME s = <<>>
                 PROVE  Append(s, t)[1] = t /\ Len(Append(s, t)) = 1 /\ Tail(Append(s, t)) = <<>>
    OBVIOUS
  <2>2. Len(s) = 0
    BY <2>1, EmptySeq
  <2>3. Tail(Append(s, t)) = <<>>
    BY <1>2, <2>1, HeadTailAppend
  <2>4. QED  BY <1>5, <2>2, <2>3
<1>10. CASE t = EOS
  <2>1. UNCHANGED <<kv, next_token_id>>
    BY <1>10 DEF CellDecode
  <2>2. IInv' /\ LengthInv'
    BY <1>1, <1>2, <2>1, CellKeepsIInv DEF TypeOK
  <2>3. ASSUME request.baseline = "noop"
        PROVE  NoopCellInv'
    <3>1. EndsWithEos(Append(s, t))
      BY <1>5, <1>10
    <3>2. CASE s = <<>>
      <4>1. t = First
        BY <1>2, <2>3, <3>2 DEF NoopCellInv
      <4>2. First = EOS /\ Append(s, t)[1] = First /\ Len(Append(s, t)) = 1
        BY <1>9, <1>10, <3>2, <4>1
      <4> HIDE DEF s, t
      <4>3. QED  BY <1>5, <1>6, <3>1, <4>2 DEF NoopCellInv
    <3>3. CASE s # <<>>
      <4>1. /\ s[1] = First
            /\ First = EOS => Len(s) = 1
            /\ First # EOS => Greedy!Continues(CellContext, Tail(s))
            /\ t = FullNext(CellContext \o Tail(s))
        BY <1>1, <1>2, <2>3, <3>3 DEF NoopCellInv
      <4> HIDE DEF s, t
      <4>2. /\ First \in Token /\ First # EOS
            /\ Append(s, t)[1] = First
            /\ Tail(Append(s, t)) = Append(Tail(s), t)
            /\ Greedy!Continues(CellContext, Append(Tail(s), t))
        BY <1>1, <1>2, <3>3, <4>1, CellEmits
      <4>3. Greedy!Continues(CellContext, Tail(Append(s, t)))
        BY <4>2
      <4>4. Greedy!Continues(CellContext', Tail(tool'.out))
        BY <1>6, <4>3
      <4>5. QED  BY <1>5, <1>6, <3>1, <4>2, <4>4 DEF NoopCellInv
    <3>4. QED  BY <3>2, <3>3
  <2>4. CellInv'
    BY <1>1, <1>2, <1>5, <1>6, <1>8, <2>1, <2>3 DEF CellInv
  <2>5. QED  BY <1>7, <2>2, <2>4 DEF ToolInv
<1>11. CASE t # EOS
  <2>1. /\ kv' = [kv EXCEPT ![past_key_values] = Extended(@, t)]
        /\ next_token_id' \in Predictions(kv'["lossy"])
    BY <1>2, <1>11 DEF CellDecode
  <2>2. /\ kv' \in [CacheId -> Cache] /\ kv'["full"] = kv["full"]
        /\ kv'["lossy"] = Extended(kv["lossy"], t)
    BY <1>1, <1>2, <2>1, CellHeap
  <2>3. /\ next_token_id' \in Token
        /\ kv'["lossy"].exact => next_token_id' = FullNext(kv'["lossy"].tokens)
    BY <2>1 DEF Predictions
  <2>4. IInv' /\ LengthInv'
    BY <1>1, <1>2, <2>2, <2>3, TokenFacts, CellKeepsIInv
  <2>5. ASSUME request.baseline = "noop"
        PROVE  NoopCellInv'
    <3>1. CASE s = <<>>
      <4> DEFINE p == request.prompt
      <4>1. /\ t = First /\ First \in Token /\ First # EOS
            /\ kv["lossy"] = [tokens |-> Append(p, First), exact |-> TRUE]
        BY <1>1, <1>2, <1>11, <2>5, <3>1 DEF NoopCellInv
      <4>2. Append(Append(p, First), First) = CellContext \o <<>>
        <5>1. p \in Seq(Token) /\ First \in Token
          BY <1>4, <4>1
        <5>2. Append(<<First>>, First) = <<First, First>> /\ Append(<<>>, First) = <<First>>
          BY <4>1, OneByOne
        <5>3. \A x, y \in Seq(Token), e \in Token : x \o Append(y, e) = Append(x \o y, e)
          BY ConcatAppend
        <5>4. <<>> \in Seq(Token) /\ <<First>> \in Seq(Token) /\ <<First, First>> \in Seq(Token)
          BY <5>1
        <5>5. p \o <<>> = p
          BY <5>1, ConcatEmptySeq
        <5>6. CellContext \in Seq(Token)
          BY <5>1, <5>4, ConcatProperties DEF CellContext
        <5>7. CellContext \o <<>> = CellContext
          BY <5>6, ConcatEmptySeq
        <5>8. Append(Append(p, First), First) = p \o <<First, First>>
          <6> HIDE DEF p
          <6>1. p \o Append(<<First>>, First) = Append(p \o <<First>>, First)
            BY <5>1, <5>3, <5>4
          <6>2. p \o Append(<<>>, First) = Append(p \o <<>>, First)
            BY <5>1, <5>3, <5>4
          <6>3. QED  BY <5>2, <5>5, <6>1, <6>2, Zenon
        <5>9. QED  BY <5>7, <5>8 DEF CellContext
      <4>3. kv'["lossy"] = [tokens |-> CellContext \o <<>>, exact |-> TRUE]
        <5>1. Extended(kv["lossy"], t) = Extended([tokens |-> Append(p, First), exact |-> TRUE], First)
          BY <4>1, Zenon
        <5>2. Extended([tokens |-> Append(p, First), exact |-> TRUE], First)
                = [tokens |-> Append(Append(p, First), First), exact |-> TRUE]
          BY ExtendedRecord
        <5>3. QED  BY <2>2, <4>2, <5>1, <5>2, Zenon
      <4>4. next_token_id' = FullNext(CellContext \o <<>>)
        BY <2>3, <4>3
      <4>5. Append(s, t)[1] = First /\ Tail(Append(s, t)) = <<>>
        BY <1>9, <3>1, <4>1
      <4>6. Greedy!Continues(CellContext, <<>>)
        BY EmptySeq DEF Greedy!Continues
      <4> HIDE DEF s, t
      <4>7. /\ tool'.out[1] = First /\ tool'.out # <<>> /\ Tail(tool'.out) = <<>>
        BY <1>5, <1>6, <4>5
      <4>8. /\ Greedy!Continues(CellContext', Tail(tool'.out))
            /\ kv'["lossy"] = [tokens |-> CellContext' \o Tail(tool'.out), exact |-> TRUE]
            /\ next_token_id' = FullNext(CellContext' \o Tail(tool'.out))
        BY <1>6, <4>3, <4>4, <4>6, <4>7
      <4>9. QED  BY <1>6, <4>1, <4>7, <4>8 DEF NoopCellInv
    <3>2. CASE s # <<>>
      <4> DEFINE r == Tail(s)
      <4>1. /\ s[1] = First
            /\ First = EOS => Len(s) = 1
            /\ First # EOS => Greedy!Continues(CellContext, r)
            /\ t = FullNext(CellContext \o r)
            /\ kv["lossy"] = [tokens |-> CellContext \o r, exact |-> TRUE]
        BY <1>1, <1>2, <2>5, <3>2 DEF NoopCellInv
      <4>2. /\ First \in Token /\ First # EOS
            /\ Append(s, t)[1] = First
            /\ Tail(Append(s, t)) = Append(r, t)
            /\ Greedy!Continues(CellContext, Append(r, t))
        <5> HIDE DEF s, t
        <5>1. QED  BY <1>1, <1>2, <3>2, <4>1, CellEmits
      <4>3. r \in Seq(Token) /\ t \in Token /\ CellContext \in Seq(Token)
        <5>1. r \in Seq(Token)
          BY <1>2, <3>2, TailEnds
        <5>2. <<First, First>> \in Seq(Token)
          BY <4>2
        <5>3. CellContext \in Seq(Token)
          BY <1>4, <5>2, ConcatProperties DEF CellContext
        <5>4. QED  BY <1>2, <5>1, <5>3
      <4>4. Append(CellContext \o r, t) = CellContext \o Append(r, t)
        <5>1. \A x, y \in Seq(Token), e \in Token : x \o Append(y, e) = Append(x \o y, e)
          BY ConcatAppend
        <5> HIDE DEF r, t
        <5>2. QED  BY <4>3, <5>1, Zenon
      <4>5. kv'["lossy"] = [tokens |-> CellContext \o Append(r, t), exact |-> TRUE]
        <5> HIDE DEF r, t
        <5>1. Extended(kv["lossy"], t) = Extended([tokens |-> CellContext \o r, exact |-> TRUE], t)
          BY <4>1, Zenon
        <5>2. Extended([tokens |-> CellContext \o r, exact |-> TRUE], t)
                = [tokens |-> Append(CellContext \o r, t), exact |-> TRUE]
          BY ExtendedRecord
        <5>3. QED  BY <2>2, <4>4, <5>1, <5>2, Zenon
      <4>6. next_token_id' = FullNext(CellContext \o Append(r, t))
        BY <2>3, <4>5
      <4> HIDE DEF s, t, r
      <4>7. /\ tool'.out[1] = First /\ tool'.out # <<>> /\ Tail(tool'.out) = Append(r, t)
        BY <1>5, <1>6, <4>2
      <4>8. /\ Greedy!Continues(CellContext', Tail(tool'.out))
            /\ kv'["lossy"] = [tokens |-> CellContext' \o Tail(tool'.out), exact |-> TRUE]
            /\ next_token_id' = FullNext(CellContext' \o Tail(tool'.out))
        BY <1>6, <4>2, <4>5, <4>6, <4>7
      <4>9. QED  BY <1>6, <4>2, <4>7, <4>8 DEF NoopCellInv
    <3>3. QED  BY <3>1, <3>2
  <2>6. CellInv'
    BY <1>1, <1>2, <1>5, <1>6, <1>8, <2>2, <2>3, <2>5 DEF CellInv
  <2>7. QED  BY <1>7, <2>4, <2>6 DEF ToolInv
<1>12. QED  BY <1>10, <1>11


LEMMA ToolInductive == ToolInv /\ [ToolNext]_allVars => ToolInv'
<1> SUFFICES ASSUME ToolInv, [ToolNext]_allVars PROVE ToolInv'
  OBVIOUS
<1>1. CASE BaselineStep
  BY <1>1, BaselineStepInv
<1>2. CASE CaptureTopk
  BY <1>2, CaptureInv
<1>3. CASE FeedTopk
  BY <1>3, FeedTopkInv
<1>4. CASE RunProbeCell
  BY <1>4, RunProbeCellInv
<1>5. CASE CellForward
  BY <1>5, CellForwardInv
<1>6. CASE CellDecode
  BY <1>6, CellDecodeInv
<1>7. CASE UNCHANGED allVars
  <2>1. UNCHANGED vars /\ UNCHANGED tool
    BY <1>7 DEF allVars
  <2>2. IInv' /\ LengthInv'
    BY <2>1, BaselineUnchanged DEF ToolInv
  <2>3. IsTool'
    BY <2>1 DEF ToolInv, IsTool
  <2>4. /\ UNCHANGED <<request, pc, kv, past_key_values, next_token_id>>
        /\ Divergence' = Divergence /\ Context' = Context
        /\ First' = First /\ CellContext' = CellContext
    BY <2>1 DEF vars, Divergence, full_ids, Context, Feed, First, CellContext
  <2>5. TopkInv'
    <3> HIDE DEF Context
    <3>1. QED  BY <2>1, <2>4 DEF ToolInv, TopkInv
  <2>6. CellInv'
    <3>1. NoopCellInv' <=> NoopCellInv
      BY <2>1, <2>4 DEF NoopCellInv
    <3>2. QED  BY <2>1, <2>4, <3>1 DEF ToolInv, CellInv
  <2>7. QED  BY <2>2, <2>3, <2>5, <2>6 DEF ToolInv
<1>8. QED  BY <1>1, <1>2, <1>3, <1>4, <1>5, <1>6, <1>7
           DEF ToolNext, ToolStep, ToolsEnded

\* The invariant holds in every reachable state of a baseline and its tools.
THEOREM ToolInvariance == ToolSpec => []ToolInv
BY ToolInitial, ToolInductive, PTL DEF ToolSpec

-----------------------------------------------------------------------------
(* The properties of the tools *)

\* On outputs of different lengths the authority reports a divergence later than
\* the first token that differs.
THEOREM LateAuthority == ToolSpec => []AuthorityLateOnLength
<1>1. ToolInv => AuthorityLateOnLength
  <2> SUFFICES ASSUME ToolInv, pc = "returned"
               PROVE  LET index == canonical_first_divergence_index(full_ids, generated_ids)
                      IN  IF Len(full_ids) = Len(generated_ids)
                          THEN index = Divergence
                          ELSE index[1] > Divergence[1]
    BY DEF AuthorityLateOnLength
  <2>1. CASE Len(full_ids) = Len(generated_ids)
    BY <2>1 DEF canonical_first_divergence_index, Divergence
  <2>2. CASE Len(full_ids) # Len(generated_ids)
    <3> DEFINE a == full_ids
               b == generated_ids
    <3>1. a # b
      BY <2>2
    <3>2. /\ Divergence = <<MatchLen(a, b)>> /\ MatchLen(a, b) < CommonLen(a, b)
          /\ MatchLen(a, b) \in Nat
      BY <3>1, DivergenceFacts DEF ToolInv
    <3>3. canonical_first_divergence_index(a, b) = <<CommonLen(a, b)>>
      BY <2>2 DEF canonical_first_divergence_index
    <3>4. CommonLen(a, b) \in Int
      <4>1. PICK S : a \in Seq(S) /\ b \in Seq(Token)
        BY <3>1, DivergenceFacts DEF ToolInv
      <4> HIDE DEF a, b
      <4>2. QED  BY <4>1, MatchLenFacts
    <3> HIDE DEF a, b
    <3>5. canonical_first_divergence_index(a, b)[1] > Divergence[1]
      BY <3>2, <3>3, <3>4
    <3>6. QED  BY <2>2, <3>5 DEF a, b
  <2>3. QED  BY <2>1, <2>2
<1>2. QED  BY <1>1, ToolInvariance, PTL

\* Both paths of a capture compute from the same context, of the right length.
THEOREM TopkPathsAreCompared == ToolSpec => []TopkPathsAgree
<1>1. ToolInv => TopkPathsAgree
  <2> DEFINE div == Divergence[1]
  <2> SUFFICES ASSUME ToolInv, TopkDone
               PROVE  /\ tool.out[1].context = tool.out[2].context
                      /\ Len(tool.out[1].context) = Len(request.prompt) + div
    BY DEF TopkPathsAgree
  <2>1. /\ IInv /\ LengthInv /\ pc = "returned" /\ Divergence # <<>> /\ div >= 1
        /\ tool.out[1].context = Context /\ tool.out[2].context = Context
    BY DEF ToolInv, TopkInv, TopkDone
  <2>2. Feed \in Seq(Token) /\ Len(Feed) = div
    BY <2>1, FeedOfDivergence
  <2>3. request.prompt \in Seq(Token)
    BY <2>1, RequestFacts DEF IInv
  <2> HIDE DEF div
  <2>4. Len(Context) = Len(request.prompt) + div
    BY <2>2, <2>3, ConcatProperties DEF Context
  <2>5. QED  BY <2>1, <2>4
<1>2. QED  BY <1>1, ToolInvariance, PTL

\* The context of a capture is that of the divergence only where the tokens before
\* it are one token repeated.
THEOREM TopkSeesFeed == ToolSpec => []WhereTopkReadsTheDivergence
<1>1. ToolInv => WhereTopkReadsTheDivergence
  <2> DEFINE div == Divergence[1]
             before == SubSeq(full_ids, 1, div)
             meant == request.prompt \o before
             full == tool.out[1]
             repeats == \A i \in 1..div : before[i] = before[1]
  <2> SUFFICES ASSUME ToolInv, TopkDone
               PROVE  /\ (full.context = meant) = repeats
                      /\ repeats => full.top1 = full_ids[div + 1]
    BY DEF WhereTopkReadsTheDivergence
  <2>1. /\ IInv /\ LengthInv /\ pc = "returned" /\ Divergence # <<>> /\ div >= 1
        /\ full = [context |-> Context, top1 |-> FullNext(Context)]
    BY DEF ToolInv, TopkInv, TopkDone
  <2>2. /\ div \in Nat \ {0} /\ StartsIn(generated_ids, div, Token)
        /\ \A i \in 1..div : full_ids[i] = generated_ids[i]
        /\ topk_feed(full_ids, div) = Feed
        /\ Feed \in Seq(Token) /\ Len(Feed) = div
    BY <2>1, FeedOfDivergence
  <2>3. StartsIn(full_ids, div, Token)
    BY <2>2 DEF StartsIn
  <2>4. request.prompt \in Seq(Token)
    BY <2>1, RequestFacts DEF IInv
  <2>5. /\ before \in Seq(Token) /\ Len(before) = div
        /\ (Feed = before <=> repeats)
    <3> DEFINE a == full_ids
               d == div
    <3>1. d \in Nat \ {0} /\ StartsIn(a, d, Token) /\ topk_feed(a, d) = Feed
      BY <2>2, <2>3
    <3> HIDE DEF a, d
    <3>2. /\ SubSeq(a, 1, d) \in Seq(Token) /\ Len(SubSeq(a, 1, d)) = d
          /\ topk_feed(a, d) = SubSeq(a, 1, d)
               <=> \A i \in 1..d : SubSeq(a, 1, d)[i] = SubSeq(a, 1, d)[1]
      BY <3>1, FeedIsPrefix
    <3>3. QED  BY <3>1, <3>2 DEF a, d
  <2>6. full_ids[div + 1] = FullNext(meant)
    <3> DEFINE a == full_ids
               d == div
    <3>1. a # generated_ids
      BY <2>1 DEF Divergence, first_divergence_idx
    <3>2. PICK m \in Nat : Divergence = <<m>> /\ m < Len(a) /\ Len(a) \in Nat
      BY <2>1, <3>1, DivergenceFacts
    <3>3. d = m /\ d + 1 \in 1..Len(a) /\ (d + 1) - 1 = d
      BY <3>2
    <3>4. Greedy!Continues(request.prompt, a)
      <4>1. request.max_new_tokens \in Nat
        BY <2>1, RequestFacts DEF IInv
      <4>2. QED  BY <4>1, FullOutputFacts DEF full_ids
    <3> HIDE DEF a, d
    <3>5. a[d + 1] = FullNext(request.prompt \o SubSeq(a, 1, d))
      BY <3>3, <3>4 DEF Greedy!Continues
    <3>6. QED  BY <3>5 DEF a, d
  <2> HIDE DEF before, repeats, div
  <2>7. Context = meant <=> Feed = before
    <3> DEFINE p == request.prompt
               f == Feed
    <3>1. p \in Seq(Token) /\ f \in Seq(Token) /\ before \in Seq(Token)
      BY <2>2, <2>4, <2>5
    <3> HIDE DEF p, f
    <3>2. p \o f = p \o before => f = before
      BY <3>1, ConcatSimplifications
    <3>3. QED  BY <3>2 DEF Context, p, f
  <2>8. repeats \in BOOLEAN
    BY DEF repeats
  <2> HIDE DEF meant, Context, full
  <2>9. full.context = Context /\ full.top1 = FullNext(Context)
    BY <2>1
  <2>10. (full.context = meant) = repeats
    BY <2>5, <2>7, <2>8, <2>9
  <2>11. repeats => full.top1 = full_ids[div + 1]
    BY <2>5, <2>6, <2>7, <2>9
  <2>12. QED  BY <2>10, <2>11
<1>2. QED  BY <1>1, ToolInvariance, PTL

\* A probe cell leaves the prompt's cache alone; without compression it emits the
\* first token, then what greedy decoding continues with after two of them.
THEOREM CellRepeats == ToolSpec => []WhatNoopCellDecodes
<1>1. ToolInv => WhatNoopCellDecodes
  <2> SUFFICES ASSUME ToolInv, CellDone
               PROVE  /\ kv["full"] = PrefillCache(request.prompt)
                      /\ request.baseline = "noop" /\ request.max_new_tokens > 0 =>
                            tool.out = IF First = EOS THEN <<EOS>>
                                       ELSE <<First>> \o FullOutput(CellContext,
                                                                    request.max_new_tokens - 1)
    BY DEF WhatNoopCellDecodes, First, CellContext
  <2>1. /\ IInv /\ tool.path = "decode" /\ ~CellGoesOn
        /\ kv["full"] = PrefillCache(request.prompt)
        /\ tool.out \in Seq(Token) /\ Len(tool.out) <= request.max_new_tokens
        /\ request.baseline = "noop" => NoopCellInv
    BY DEF ToolInv, CellInv, CellDone
  <2>2. ASSUME request.baseline = "noop", request.max_new_tokens > 0
        PROVE  tool.out = IF First = EOS THEN <<EOS>>
                          ELSE <<First>> \o FullOutput(CellContext, request.max_new_tokens - 1)
    <3> DEFINE s == tool.out
               c == CellContext
    <3>1. PICK n \in Nat : n = request.max_new_tokens /\ n > 0
      BY <2>1, <2>2, RequestFacts DEF IInv
    <3>2. PICK l \in Nat : l = Len(s) /\ l <= n
      BY <2>1, <3>1, LenProperties
    <3>3. l = n \/ EndsWithEos(s)
      BY <2>1, <3>1, <3>2 DEF CellGoesOn
    <3>4. s # <<>>
      <4>1. SUFFICES ASSUME s = <<>> PROVE FALSE
        OBVIOUS
      <4>2. l = 0 /\ ~EndsWithEos(s)
        BY <3>2, <4>1, EmptySeq DEF EndsWithEos
      <4>3. QED  BY <3>1, <3>3, <4>2
    <3>5. /\ s[1] = First
          /\ First = EOS => l = 1
          /\ First # EOS => Greedy!Continues(c, Tail(s))
      BY <2>1, <2>2, <3>2, <3>4 DEF NoopCellInv
    <3>6. /\ s \in Seq(Token) /\ Tail(s) \in Seq(Token) /\ l > 0 /\ Len(Tail(s)) = l - 1
          /\ s[1] \in Token
          /\ l > 1 => (EndsWithEos(Tail(s)) <=> EndsWithEos(s))
      BY <2>1, <3>2, <3>4, TailEnds
    <3>7. CASE First = EOS
      <4> DEFINE u == <<EOS>>
      <4>1. l = 1 /\ s[1] = EOS
        BY <3>5, <3>7
      <4>2. u \in Seq(Token) /\ Len(u) = 1 /\ u[1] = EOS
        BY TokenFacts
      <4> HIDE DEF s, u
      <4>3. s = u
        BY <3>2, <3>6, <4>1, <4>2, SeqEqual
      <4>4. QED  BY <3>7, <4>3 DEF s, u
    <3>8. CASE First # EOS
      <4> DEFINE r == Tail(s)
      <4>1. r \in Seq(Token) /\ Greedy!Continues(c, r) /\ n - 1 \in Nat
        BY <3>1, <3>5, <3>6, <3>8
      <4>2. Len(r) <= n - 1
        BY <3>1, <3>2, <3>6
      <4>3. Len(r) = n - 1 \/ EndsWithEos(r)
        <5>1. CASE l = n
          BY <3>6, <5>1
        <5>2. CASE l # n
          <6>1. EndsWithEos(s)
            BY <3>3, <5>2
          <6>2. ASSUME l = 1 PROVE FALSE
            <7>1. s[l] = EOS
              BY <3>2, <6>1 DEF EndsWithEos
            <7>2. s[1] = EOS /\ s[1] = First
              BY <3>5, <6>2, <7>1
            <7>3. QED  BY <3>8, <7>2
          <6>3. l > 1
            BY <3>6, <6>2
          <6>4. QED  BY <3>6, <6>1, <6>3
        <5>3. QED  BY <5>1, <5>2
      <4>4. s = <<First>> \o r
        <5>1. s = <<s[1]>> \o Tail(s)
          <6>1. SubSeq(s, 1, Len(s)) = <<s[1]>> \o SubSeq(s, 1 + 1, Len(s))
            <7>1. 1 \in 1..Len(s) /\ Len(s) \in 1..Len(s)
              BY <3>2, <3>6
            <7> HIDE DEF s
            <7>2. QED  BY <3>6, <7>1, SubSeqRecursiveFirst
          <6>2. SubSeq(s, 1, Len(s)) = s
            BY <3>6, SubSeqFull
          <6>3. Tail(s) = SubSeq(s, 1 + 1, Len(s))
            BY <3>4, <3>6, TailIsSubSeq
          <6>4. QED  BY <6>1, <6>2, <6>3
        <5>2. QED  BY <3>5, <5>1, Zenon
      <4> HIDE DEF s, c, r
      <4>5. r = FullOutput(c, n - 1)
        BY <4>1, <4>2, <4>3, FullOutputUnique
      <4>6. QED  BY <3>1, <3>8, <4>4, <4>5 DEF s, c
    <3>9. QED  BY <3>7, <3>8
  <2>3. QED  BY <2>1, <2>2
<1>2. QED  BY <1>1, ToolInvariance, PTL
=============================================================================
