----------------------- MODULE ExactKVGenerator_proofs -----------------------
(***************************************************************************)
(* Proofs about ExactKVGenerator for every vocabulary, model, set of       *)
(* prompts, budgets, draft lengths, verification methods and compressors:  *)
(* first the caches, the output and the refinement of greedy decoding, by  *)
(* IInv, then the traces and the acceptance of the rounds, by RoundsInv,   *)
(* and last a bound of the steps that are left, which every step lowers.   *)
(***************************************************************************)
EXTENDS ExactKVGenerator, SharedLemmas

-----------------------------------------------------------------------------
(* The acceptance rule, on what the generator hands to it *)

\* What a round commits before truncation is exactly the verifier's answer, and
\* every token it accepts was drafted.
LEMMA CommittedIsAnswer ==
    ASSUME NEW d \in Seq(TokenId), NEW v \in Seq(Token), Answers(v, d)
    PROVE  LET a == compute_acceptance(d, v)
           IN  /\ CommittedBy(a) = v
               /\ a \in AcceptanceResult
<1> DEFINE m == MatchLen(d, v)
           a == compute_acceptance(d, v)
<1>0. Token \subseteq Int /\ TokenId \subseteq Int /\ Token \subseteq TokenId
  BY ModelOK DEF Token, TokenId
<1>1. d \in Seq(Int) /\ v \in Seq(Int) /\ Len(d) \in Nat /\ Len(v) \in Nat
  BY <1>0, SeqMonotonic, LenProperties
<1>2. CommittedBy(a) = v /\ m \in 0..Len(v) /\ m <= Len(d)
  BY <1>1, CommittedOfAnswer
<1>3. \A i \in 1..Len(d) : d[i] \in TokenId
  BY ElementOfSeq
<1>4. SubSeq(d, 1, m) \in Seq(TokenId) /\ SubSeq(d, m + 1, Len(d)) \in Seq(TokenId)
  <2> HIDE DEF m
  <2>1. QED  BY <1>1, <1>2, <1>3, SubSeqProperties
<1>5. m < Len(v) => v[m + 1] \in Token
  <2> HIDE DEF m
  <2>1. QED  BY <1>1, <1>2, ElementOfSeq
<1>6. CommonLen(d, v) = Len(v)
  BY <1>1 DEF CommonLen, Smaller, Answers
<1>7. a \in AcceptanceResult
  BY <1>4, <1>5, <1>6, EmptySeq DEF compute_acceptance, AcceptanceResult
<1>8. QED  BY <1>2, <1>7

\* Truncation at EOS removes nothing when EOS is nowhere but at the end.
LEMMA NothingTruncated ==
    ASSUME NEW v \in Seq(Token), \A i \in 1..(Len(v) - 1) : v[i] # EOS
    PROVE  TruncateAtEos(v) = v
<1>1. Len(v) \in Nat
  BY LenProperties
<1>2. CASE \E i \in 1..Len(v) : v[i] = EOS
  <2> DEFINE IsFirst(i) == v[i] = EOS /\ \A j \in 1..(i - 1) : v[j] # EOS
  <2>1. Len(v) \in 1..Len(v) /\ IsFirst(Len(v))
    BY <1>1, <1>2
  <2>2. ASSUME NEW i \in 1..Len(v), IsFirst(i)
        PROVE  i = Len(v)
    BY <1>1, <2>2
  <2>3. (CHOOSE i \in 1..Len(v) : IsFirst(i)) = Len(v)
    BY <2>1, <2>2
  <2>4. QED  BY <1>2, <2>3, SubSeqFull DEF TruncateAtEos
<1>3. CASE ~\E i \in 1..Len(v) : v[i] = EOS
  BY <1>3 DEF TruncateAtEos
<1>4. QED  BY <1>2, <1>3

-----------------------------------------------------------------------------
(* The invariant, initially *)

LEMMA TokenFacts ==
    /\ Token \subseteq Int /\ TokenId \subseteq Int /\ Token \subseteq TokenId
    /\ 0 \in Token /\ EOS \in Token
    /\ \A kind \in CompressorKinds, t \in Token : CompressedNext(kind, t) \subseteq TokenId
<1>1. \A t \in Token : (t + 1) % WrongModulus \in 0..(WrongModulus - 1)
  BY ModelOK DEF Token
<1>2. QED  BY <1>1, ModelOK DEF Token, TokenId, CompressorKinds, CompressedNext

LEMMA NoAcceptanceType == NoAcceptance \in AcceptanceResult
<1>1. <<>> \in Seq(TokenId) /\ <<>> \in Seq(Token) /\ Answers(<<>>, <<>>)
  BY DEF Answers
<1>2. QED  BY <1>1, CommittedIsAnswer DEF NoAcceptance, AcceptanceResult

LEMMA RequestFacts ==
    ASSUME request \in Request
    PROVE  /\ request.prompt \in Seq(Token) /\ request.prompt # <<>>
           /\ request.max_new_tokens \in Nat
           /\ request.draft_len \in Nat
           /\ request.method \in {"sequential", "span"}
           /\ request.compressor \in CompressorKinds
  BY ConstantsOK DEF Request

LEMMA InitInv == Init => IInv
<1> SUFFICES ASSUME Init
             PROVE  IInv
  OBVIOUS
<1>1. request \in Request
  BY DEF Init, Request
<1>2. TypeOK
  <2>1. pc \in PC /\ kv \in [CacheId -> Cache]
    BY DEF Init, PC, CacheId, Cache, NoCache
  <2>2. full_state \in FullKVState /\ compressed \in CompressedKVState
    BY TokenFacts DEF Init, FullKVState, CompressedKVState
  <2>3. /\ draft \in [cache : {"draft"}, n : 0..request.max_new_tokens,
                      token_ids : Seq(TokenId), current : TokenId]
        /\ verifier \in [cache : {"verify"}, tokens : Seq(Token), next : Token]
    BY <1>1, RequestFacts, TokenFacts DEF Init, NoDraft, NoVerifier
  <2>4. acceptance \in AcceptanceResult
    BY NoAcceptanceType DEF Init
  <2>5. /\ committed \in Seq(Token) /\ pending \in Seq(Token) /\ all_generated \in Seq(Token)
    BY DEF Init
  <2>6. totals \in [accepted : Nat, rejected : Nat, corrections : Nat] /\ done \in BOOLEAN
    BY DEF Init
  <2>7. QED  BY <1>1, <2>1, <2>2, <2>3, <2>4, <2>5, <2>6 DEF TypeOK
<1>3. CacheInv
  BY DEF Init, CacheInv, AuthoritativeCache
<1>4. RoundInv
  BY <1>1, RequestFacts DEF Init, RoundInv, Drafting, Greedy!Continues
<1>5. DraftInv /\ VerifyInv /\ CommitInv
  BY DEF Init, DraftInv, VerifyInv, CommitInv
<1>6. QED  BY <1>2, <1>3, <1>4, <1>5 DEF IInv

-----------------------------------------------------------------------------
(* The invariant, step by step *)

\* A step that leaves the full state and its cache alone keeps CacheInv.
LEMMA CacheFrame ==
    ASSUME TypeOK, CacheInv, pc # "prefill",
           UNCHANGED <<request, full_state>>, kv'["full"] = kv["full"]
    PROVE  CacheInv'
<1>1. full_state.past_key_values = "full"
  BY DEF TypeOK, FullKVState
<1>2. QED  BY <1>1 DEF CacheInv, AuthoritativeCache, Ctx

LEMMA StutterInv == IInv /\ UNCHANGED vars => IInv'
<1> SUFFICES ASSUME IInv, UNCHANGED vars
             PROVE  IInv'
  OBVIOUS
<1> USE DEF vars, locals, outputs
<1>1. TypeOK'
  BY DEF IInv, TypeOK
<1>2. CacheInv'
  BY DEF IInv, CacheInv, AuthoritativeCache, Ctx
<1>3. RoundInv'
  BY DEF IInv, RoundInv, Drafting, Remaining, RoundDraftLen
<1>4. DraftInv' /\ VerifyInv' /\ CommitInv'
  BY DEF IInv, DraftInv, VerifyInv, CommitInv, Ctx
<1>5. QED  BY <1>1, <1>2, <1>3, <1>4 DEF IInv

LEMMA BeginRoundInv == IInv /\ BeginRound => IInv'
<1> SUFFICES ASSUME IInv, BeginRound
             PROVE  IInv'
  OBVIOUS
<1>1. /\ request \in Request /\ Len(all_generated) \in Nat
      /\ Remaining \in Int /\ 0 < Remaining /\ Remaining <= request.max_new_tokens
  BY LenProperties, RequestFacts DEF IInv, TypeOK, BeginRound, Remaining
<1>2. /\ RoundDraftLen \in 0..request.max_new_tokens
      /\ UNCHANGED <<Remaining, RoundDraftLen>>
  <2>1. RoundDraftLen \in 0..request.max_new_tokens
    BY <1>1, RequestFacts DEF RoundDraftLen, Smaller
  <2>2. QED  BY <2>1 DEF BeginRound, Remaining, RoundDraftLen, outputs
<1>3. TypeOK'
  <2>1. kv' \in [CacheId -> Cache]
    BY DEF IInv, TypeOK, BeginRound, DraftCache, MaterializeForDraft, CompressedKVState, CacheId
  <2>2. draft' \in [cache : {"draft"}, n : 0..request.max_new_tokens,
                    token_ids : Seq(TokenId), current : TokenId]
    BY <1>2 DEF IInv, TypeOK, BeginRound, DraftCache, CompressedKVState
  <2>3. pc' \in PC
    BY DEF BeginRound, AfterDraft, PC
  <2>4. QED  BY <2>1, <2>2, <2>3 DEF IInv, TypeOK, BeginRound, outputs
<1>4. CacheInv'
  BY CacheFrame DEF IInv, TypeOK, BeginRound, DraftCache, CacheId
<1>5. RoundInv'
  BY <1>1, <1>2 DEF IInv, RoundInv, BeginRound, outputs, Drafting, AfterDraft
<1>6. DraftInv'
  <2>1. /\ draft'.token_ids = <<>> /\ Len(<<>>) = 0 /\ draft'.n = RoundDraftLen
        /\ pc' = "draft" => RoundDraftLen > 0
        /\ pc' # "draft" => RoundDraftLen = 0
    BY <1>2 DEF BeginRound, AfterDraft
  <2>2. QED  BY <2>1 DEF DraftInv
<1>7. VerifyInv' /\ CommitInv'
  BY DEF BeginRound, VerifyInv, CommitInv, AfterDraft
<1>8. QED  BY <1>3, <1>4, <1>5, <1>6, <1>7 DEF IInv

LEMMA DraftLastInv == IInv /\ DraftLast => IInv'
<1> SUFFICES ASSUME IInv, DraftLast
             PROVE  IInv'
  OBVIOUS
<1>1. /\ draft.token_ids \in Seq(TokenId) /\ draft.current \in TokenId
      /\ draft'.token_ids = Append(draft.token_ids, draft.current)
      /\ draft'.n = draft.n /\ draft.n \in Nat
  BY RequestFacts DEF IInv, TypeOK, DraftLast
<1>2. /\ Len(draft.token_ids) \in Nat
      /\ Len(draft'.token_ids) = Len(draft.token_ids) + 1
      /\ \A i \in 1..Len(draft.token_ids) : draft'.token_ids[i] = draft.token_ids[i]
  BY <1>1, LenProperties, AppendProperties
<1>3. TypeOK'
  <2>1. draft' \in [cache : {"draft"}, n : 0..request.max_new_tokens,
                    token_ids : Seq(TokenId), current : TokenId]
    BY <1>1, AppendProperties DEF IInv, TypeOK, DraftLast
  <2>2. pc' \in PC
    BY DEF DraftLast, AfterDraft, PC
  <2>3. QED  BY <2>1, <2>2 DEF IInv, TypeOK, DraftLast, outputs
<1>4. CacheInv'
  BY CacheFrame DEF IInv, TypeOK, DraftLast
<1>5. RoundInv'
  BY <1>1 DEF IInv, RoundInv, DraftLast, outputs, Drafting, AfterDraft, Remaining, RoundDraftLen
<1>6. DraftInv'
  <2>1. /\ Len(draft.token_ids) < draft.n
        /\ \A i \in 1..Len(draft.token_ids) : draft.token_ids[i] \in Token \ {EOS}
        /\ pc' # "draft"
    BY DEF IInv, DraftInv, DraftLast, AfterDraft
  <2>2. draft'.token_ids # <<>>
    BY <1>2
  <2>3. QED  BY <1>1, <1>2, <2>1, <2>2 DEF DraftInv
<1>7. VerifyInv' /\ CommitInv'
  BY DEF DraftLast, VerifyInv, CommitInv, AfterDraft
<1>8. QED  BY <1>3, <1>4, <1>5, <1>6, <1>7 DEF IInv

LEMMA DraftForwardInv == IInv /\ DraftForward => IInv'
<1> SUFFICES ASSUME IInv, DraftForward
             PROVE  IInv'
  OBVIOUS
<1>1. PICK t \in Predictions(kv'[draft.cache]) :
         draft' = [draft EXCEPT !.token_ids = Append(@, draft.current), !.current = t]
  BY DEF DraftForward
<1>2. /\ draft.token_ids \in Seq(TokenId) /\ draft.current \in Token /\ draft.cache = "draft"
      /\ t \in Token /\ t \in TokenId /\ draft.current \in TokenId
      /\ draft'.token_ids = Append(draft.token_ids, draft.current)
      /\ draft'.n = draft.n /\ draft.n \in Nat
      /\ draft.current # EOS /\ Len(draft.token_ids) # draft.n - 1
  BY <1>1, TokenFacts, RequestFacts DEF IInv, TypeOK, DraftForward, Predictions, LastToDraft
<1>3. /\ Len(draft.token_ids) \in Nat
      /\ Len(draft'.token_ids) = Len(draft.token_ids) + 1
      /\ draft'.token_ids[Len(draft.token_ids) + 1] = draft.current
      /\ \A i \in 1..Len(draft.token_ids) : draft'.token_ids[i] = draft.token_ids[i]
  BY <1>2, LenProperties, AppendProperties
<1>4. TypeOK'
  <2>1. draft' \in [cache : {"draft"}, n : 0..request.max_new_tokens,
                    token_ids : Seq(TokenId), current : TokenId]
    BY <1>1, <1>2, AppendProperties DEF IInv, TypeOK
  <2>2. kv' = [kv EXCEPT !["draft"] = Extended(kv["draft"], draft.current)]
    BY <1>2 DEF DraftForward
  <2>3. kv["draft"] \in Cache
    BY DEF IInv, TypeOK, CacheId
  <2>4. Extended(kv["draft"], draft.current) \in Cache
    BY <2>3, <1>2, AppendProperties DEF Cache, Extended
  <2>5. kv' \in [CacheId -> Cache]
    BY <2>2, <2>4 DEF IInv, TypeOK
  <2>6. QED  BY <2>1, <2>5 DEF IInv, TypeOK, DraftForward, outputs
<1>5. CacheInv'
  BY <1>2, CacheFrame DEF IInv, TypeOK, DraftForward, CacheId
<1>6. RoundInv'
  BY <1>2 DEF IInv, RoundInv, DraftForward, outputs, Drafting, Remaining, RoundDraftLen
<1>7. DraftInv'
  <2>1. /\ Len(draft.token_ids) < draft.n
        /\ \A i \in 1..Len(draft.token_ids) : draft.token_ids[i] \in Token \ {EOS}
        /\ pc' = "draft"
    BY DEF IInv, DraftInv, DraftForward
  <2>2. Len(draft'.token_ids) < draft'.n
    BY <2>1, <1>2, <1>3
  <2>3. ASSUME NEW i \in 1..Len(draft'.token_ids)
        PROVE  draft'.token_ids[i] \in Token \ {EOS}
    BY <2>1, <1>2, <1>3
  <2>4. QED  BY <2>1, <2>2, <2>3 DEF DraftInv
<1>8. VerifyInv' /\ CommitInv'
  BY DEF DraftForward, VerifyInv, CommitInv
<1>9. QED  BY <1>4, <1>5, <1>6, <1>7, <1>8 DEF IInv

LEMMA DraftOutOfVocabularyInv == IInv /\ DraftOutOfVocabulary => IInv'
<1> SUFFICES ASSUME IInv, DraftOutOfVocabulary
             PROVE  IInv'
  OBVIOUS
<1>1. TypeOK'
  BY DEF IInv, TypeOK, DraftOutOfVocabulary, locals, outputs, PC
<1>2. CacheInv'
  BY CacheFrame DEF IInv, DraftOutOfVocabulary
<1>3. RoundInv'
  BY DEF IInv, RoundInv, DraftOutOfVocabulary, outputs, Drafting, Remaining
<1>4. DraftInv' /\ VerifyInv' /\ CommitInv'
  BY DEF DraftOutOfVocabulary, DraftInv, VerifyInv, CommitInv
<1>5. QED  BY <1>1, <1>2, <1>3, <1>4 DEF IInv

LEMMA VerifySpanBatchedInv == IInv /\ VerifySpanBatched => IInv'
<1> SUFFICES ASSUME IInv, VerifySpanBatched
             PROVE  IInv'
  OBVIOUS
<1> DEFINE d == draft.token_ids
           full_kv == kv[full_state.past_key_values]
<1>1. /\ d \in Seq(TokenId) /\ Len(d) \in Nat
      /\ full_kv \in Cache
      /\ \A i \in 1..(Len(d) - 1) : d[i] \in Token
      /\ d # <<>> => Len(d) > 0
  BY LenProperties, EmptySeq
     DEF IInv, TypeOK, DraftInv, VerifySpanBatched, FullKVState, CacheId
<1>2. TypeOK'
  <2>1. kv' \in [CacheId -> Cache]
    <3>1. CASE d = <<>>
      BY <3>1 DEF IInv, TypeOK, VerifySpanBatched
    <3>2. CASE d # <<>>
      <4>1. SubSeq(d, 1, Len(d) - 1) \in Seq(Token)
        BY <1>1, <3>2, SubSeqProperties
      <4>2. full_kv.tokens \o SubSeq(d, 1, Len(d) - 1) \in Seq(Token)
        BY <1>1, <4>1, ConcatProperties DEF Cache
      <4>3. [full_kv EXCEPT !.tokens = full_kv.tokens \o SubSeq(d, 1, Len(d) - 1)] \in Cache
        BY <1>1, <4>2 DEF Cache
      <4>4. QED  BY <3>2, <4>3 DEF IInv, TypeOK, VerifySpanBatched
    <3>3. QED  BY <3>1, <3>2
  <2>2. QED  BY <2>1 DEF IInv, TypeOK, VerifySpanBatched, outputs, PC
<1>3. CacheInv'
  BY CacheFrame DEF IInv, TypeOK, VerifySpanBatched, CacheId
<1>4. RoundInv'
  BY DEF IInv, RoundInv, VerifySpanBatched, outputs, Drafting, Remaining, RoundDraftLen
<1>5. DraftInv'
  BY DEF IInv, DraftInv, VerifySpanBatched
<1>6. VerifyInv' /\ CommitInv'
  BY DEF VerifySpanBatched, VerifyInv, CommitInv
<1>7. QED  BY <1>2, <1>3, <1>4, <1>5, <1>6 DEF IInv

LEMMA BeginVerifyInv == IInv /\ BeginVerify => IInv'
<1> SUFFICES ASSUME IInv, BeginVerify
             PROVE  IInv'
  OBVIOUS
<1> DEFINE d == draft.token_ids
<1>1. /\ d \in Seq(TokenId) /\ Len(d) \in Nat /\ (d # <<>> => Len(d) > 0)
      /\ full_state.past_key_values = "full" /\ full_state.next_token_id \in Token
      /\ full_state.generated_ids \in Seq(Token)
      /\ request.prompt \in Seq(Token)
  BY LenProperties, EmptySeq, RequestFacts DEF IInv, TypeOK, FullKVState
<1>2. /\ kv' = [kv EXCEPT !["verify"] = kv["full"]]
      /\ verifier' = [cache |-> "verify", tokens |-> <<>>, next |-> full_state.next_token_id]
      /\ UNCHANGED <<request, draft, full_state, all_generated, done>>
      /\ pc = "verify" /\ pc' \in {"compare", "decide"}
      /\ pc' = "decide" <=> d = <<>>
  BY <1>1 DEF BeginVerify, VerifyCache, outputs
<1>3. TypeOK'
  <2>1. kv' \in [CacheId -> Cache]
    BY <1>2 DEF IInv, TypeOK, CacheId
  <2>2. verifier' \in [cache : {"verify"}, tokens : Seq(Token), next : Token]
    BY <1>1, <1>2
  <2>3. QED  BY <2>1, <2>2, <1>2 DEF IInv, TypeOK, BeginVerify, outputs, PC
<1>4. CacheInv'
  BY <1>1, <1>2, CacheFrame DEF IInv, TypeOK, CacheId
<1>5. RoundInv'
  BY <1>2 DEF IInv, RoundInv, Drafting, Remaining, RoundDraftLen
<1>6. DraftInv'
  BY <1>2 DEF IInv, DraftInv
<1>7. VerifyInv'
  <2>1. ~EndsWithEos(full_state.generated_ids)
    BY <1>2 DEF IInv, RoundInv, Drafting
  <2>2. kv["full"] = [tokens |-> Ctx, exact |-> TRUE] /\ full_state.next_token_id = FullNext(Ctx)
    BY <1>1, <1>2, <2>1 DEF IInv, CacheInv, AuthoritativeCache, WithoutEos, Ctx
  <2>3. /\ verifier'.tokens = <<>> /\ Len(<<>>) = 0
        /\ kv'["verify"] = [tokens |-> Ctx, exact |-> TRUE]
        /\ verifier'.next = FullNext(Ctx)
        /\ Ctx' = Ctx
    BY <1>2, <2>2 DEF IInv, TypeOK, CacheId, Ctx
  <2>4. Ctx \o SubSeq(d, 1, 0) = Ctx
    <3>1. Ctx \in Seq(Token)
      BY <1>1, ConcatProperties DEF Ctx
    <3>2. QED  BY <1>1, <3>1, SubSeqEmpty, ConcatEmptySeq
  <2>5. /\ draft'.token_ids = d /\ Len(verifier'.tokens) = 0
        /\ kv'["verify"] = [tokens |-> Ctx' \o SubSeq(d, 1, 0), exact |-> TRUE]
        /\ verifier'.next = FullNext(Ctx' \o SubSeq(d, 1, 0))
    BY <1>2, <2>3, <2>4
  <2>6. CASE pc' = "compare"
    <3> HIDE DEF d
    <3>1. Len(d) > 0
      BY <1>1, <1>2, <2>6
    <3>2. QED  BY <1>1, <2>3, <2>5, <2>6, <3>1 DEF VerifyInv
  <2>7. CASE pc' = "decide"
    BY <1>1, <1>2, <2>3, <2>5, <2>7 DEF VerifyInv
  <2>8. QED  BY <1>2, <2>6, <2>7
<1>8. CommitInv'
  BY <1>2 DEF CommitInv
<1>9. QED  BY <1>3, <1>4, <1>5, <1>6, <1>7, <1>8 DEF IInv

LEMMA ExtendedCache ==
    ASSUME NEW s, NEW e, NEW t
    PROVE  Extended([tokens |-> s, exact |-> e], t) = [tokens |-> Append(s, t), exact |-> e]
  BY DEF Extended

\* What CompareLast and CompareForward share: one verifier token more.
LEMMA CompareFacts ==
    ASSUME IInv, pc = "compare",
           verifier'.tokens = Append(verifier.tokens, verifier.next)
    PROVE  LET d == draft.token_ids
               v == verifier.tokens
               w == verifier'.tokens
           IN  /\ d \in Seq(TokenId) /\ v \in Seq(Token) /\ w \in Seq(Token)
               /\ Len(d) \in Nat /\ Len(v) \in Nat /\ Len(v) < Len(d)
               /\ At = Len(v) + 1 /\ Len(w) = At
               /\ \A i \in 1..Len(v) : w[i] = v[i] /\ d[i] = v[i]
               /\ w[At] = verifier.next
               /\ \A i \in 1..Len(w) : w[i] = FullNext(Ctx \o SubSeq(d, 1, i - 1))
<1> DEFINE d == draft.token_ids
           v == verifier.tokens
           w == verifier'.tokens
<1>1. /\ d \in Seq(TokenId) /\ v \in Seq(Token) /\ verifier.next \in Token
      /\ Len(d) \in Nat /\ Len(v) \in Nat /\ At = Len(v) + 1
      /\ v = <<>> <=> Len(v) = 0
  BY LenProperties, EmptySeq DEF IInv, TypeOK, At
<1>2. /\ Len(v) < Len(d)
      /\ \A i \in 1..Len(v) : v[i] = FullNext(Ctx \o SubSeq(d, 1, i - 1))
      /\ \A i \in 1..(Len(v) - 1) : d[i] = v[i]
      /\ v # <<>> => d[Len(v)] = v[Len(v)]
      /\ verifier.next = FullNext(Ctx \o SubSeq(d, 1, Len(v)))
  BY DEF IInv, VerifyInv
<1>3. /\ w \in Seq(Token) /\ Len(w) = Len(v) + 1
      /\ w[Len(v) + 1] = verifier.next
      /\ \A i \in 1..Len(v) : w[i] = v[i]
  BY <1>1, AppendProperties
<1>4. \A i \in 1..Len(v) : d[i] = v[i]
  BY <1>1, <1>2
<1>5. ASSUME NEW i \in 1..Len(w)
      PROVE  w[i] = FullNext(Ctx \o SubSeq(d, 1, i - 1))
  <2>1. CASE i = Len(v) + 1
    <3>1. i - 1 = Len(v)
      BY <2>1, <1>1
    <3>2. QED  BY <2>1, <3>1, <1>2, <1>3
  <2>2. CASE i \in 1..Len(v)
    BY <2>2, <1>2, <1>3
  <2>3. QED  BY <2>1, <2>2, <1>1, <1>3
<1>6. QED  BY <1>1, <1>2, <1>3, <1>4, <1>5

LEMMA CompareLastInv == IInv /\ CompareLast => IInv'
<1> SUFFICES ASSUME IInv, CompareLast
             PROVE  IInv'
  OBVIOUS
<1> DEFINE d == draft.token_ids
           v == verifier.tokens
           w == verifier'.tokens
<1>1. /\ pc = "compare" /\ pc' = "decide" /\ LastToCompare
      /\ w = Append(v, verifier.next)
      /\ UNCHANGED <<request, kv, full_state, draft, all_generated, done>>
  BY DEF CompareLast, IInv, TypeOK, outputs
<1>2. /\ d \in Seq(TokenId) /\ v \in Seq(Token) /\ w \in Seq(Token)
      /\ Len(d) \in Nat /\ Len(v) \in Nat /\ Len(v) < Len(d)
      /\ At = Len(v) + 1 /\ Len(w) = At
      /\ \A i \in 1..Len(v) : w[i] = v[i] /\ d[i] = v[i]
      /\ w[At] = verifier.next
      /\ \A i \in 1..Len(w) : w[i] = FullNext(Ctx \o SubSeq(d, 1, i - 1))
  BY <1>1, CompareFacts
<1>3. TypeOK'
  <2>1. verifier' \in [cache : {"verify"}, tokens : Seq(Token), next : Token]
    BY <1>2 DEF CompareLast, IInv, TypeOK
  <2>2. QED  BY <2>1, <1>1 DEF IInv, TypeOK, CompareLast, outputs, PC
<1>4. CacheInv'
  BY <1>1, CacheFrame DEF IInv
<1>5. RoundInv'
  BY <1>1 DEF IInv, RoundInv, Drafting, Remaining, RoundDraftLen
<1>6. DraftInv'
  BY <1>1 DEF IInv, DraftInv
<1>7. VerifyInv'
  <2>1. Ctx' = Ctx /\ draft'.token_ids = d
    BY <1>1 DEF Ctx
  <2>2. d[At] # w[At] \/ At = Len(d)
    BY <1>1, <1>2 DEF LastToCompare
  <2>3. w # <<>>
    BY <1>2, EmptySeq
  <2>4. QED  BY <1>1, <1>2, <2>1, <2>2, <2>3 DEF VerifyInv
<1>8. CommitInv'
  BY <1>1 DEF CommitInv
<1>9. QED  BY <1>3, <1>4, <1>5, <1>6, <1>7, <1>8 DEF IInv

LEMMA CompareForwardInv == IInv /\ CompareForward => IInv'
<1> SUFFICES ASSUME IInv, CompareForward
             PROVE  IInv'
  OBVIOUS
<1> DEFINE d == draft.token_ids
           v == verifier.tokens
           w == verifier'.tokens
<1>1. PICK t \in Predictions(kv'[verifier.cache]) :
         verifier' = [verifier EXCEPT !.tokens = Append(@, verifier.next), !.next = t]
  BY DEF CompareForward
<1>2. /\ pc = "compare" /\ pc' = "compare" /\ ~LastToCompare
      /\ verifier.cache = "verify" /\ verifier.next \in Token /\ t \in Token
      /\ w = Append(v, verifier.next) /\ verifier'.next = t
      /\ kv' = [kv EXCEPT !["verify"] = Extended(kv["verify"], d[At])]
      /\ UNCHANGED <<request, full_state, draft, all_generated, done>>
  BY <1>1 DEF CompareForward, IInv, TypeOK, outputs, Predictions
<1>3. /\ d \in Seq(TokenId) /\ v \in Seq(Token) /\ w \in Seq(Token)
      /\ Len(d) \in Nat /\ Len(v) \in Nat /\ Len(v) < Len(d)
      /\ At = Len(v) + 1 /\ Len(w) = At
      /\ \A i \in 1..Len(v) : w[i] = v[i] /\ d[i] = v[i]
      /\ w[At] = verifier.next
      /\ \A i \in 1..Len(w) : w[i] = FullNext(Ctx \o SubSeq(d, 1, i - 1))
  BY <1>2, CompareFacts
<1>4. d[At] = verifier.next /\ At # Len(d)
  BY <1>2 DEF LastToCompare
<1>5. Ctx \in Seq(Token) /\ Ctx \in Seq(TokenId)
  <2>1. Ctx \in Seq(Token)
    BY RequestFacts, ConcatProperties DEF IInv, TypeOK, FullKVState, Ctx
  <2>2. QED  BY <2>1, TokenFacts, SeqMonotonic
<1>6. Extended(kv["verify"], d[At]) = [tokens |-> Ctx \o SubSeq(d, 1, Len(w)), exact |-> TRUE]
  <2>1. kv["verify"] = [tokens |-> Ctx \o SubSeq(d, 1, Len(v)), exact |-> TRUE]
    BY <1>2 DEF IInv, VerifyInv
  <2>2. SubSeq(d, 1, At) = Append(SubSeq(d, 1, Len(v)), d[At])
    <3>1. At \in 1..Len(d) /\ At - 1 = Len(v)
      BY <1>3
    <3>2. QED  BY <3>1, <1>3, LongerPrefix
  <2>3. SubSeq(d, 1, Len(v)) \in Seq(TokenId) /\ d[At] \in TokenId
    BY <1>3, SubSeqProperties, ElementOfSeq
  <2>4. Append(Ctx \o SubSeq(d, 1, Len(v)), d[At]) = Ctx \o SubSeq(d, 1, Len(w))
    <3> HIDE DEF d, v, w
    <3>1. Ctx \o Append(SubSeq(d, 1, Len(v)), d[At]) = Append(Ctx \o SubSeq(d, 1, Len(v)), d[At])
      BY <2>3, <1>5, ConcatAppend
    <3>2. QED  BY <3>1, <2>2, <1>3
  <2>5. QED
    <3> HIDE DEF d, v, w
    <3>1. Extended([tokens |-> Ctx \o SubSeq(d, 1, Len(v)), exact |-> TRUE], d[At])
             = [tokens |-> Append(Ctx \o SubSeq(d, 1, Len(v)), d[At]), exact |-> TRUE]
      BY ExtendedCache
    <3>2. QED  BY <2>1, <2>4, <3>1
<1>7. TypeOK'
  <2>1. verifier' \in [cache : {"verify"}, tokens : Seq(Token), next : Token]
    BY <1>1, <1>2, <1>3 DEF IInv, TypeOK
  <2>2. Extended(kv["verify"], d[At]) \in Cache
    <3>1. kv["verify"] \in Cache /\ d[At] \in Token
      BY <1>2, <1>4 DEF IInv, TypeOK, CacheId
    <3>2. QED  BY <3>1, AppendProperties DEF Extended, Cache
  <2>3. kv' \in [CacheId -> Cache]
    BY <2>2, <1>2 DEF IInv, TypeOK
  <2>4. QED  BY <2>1, <2>3, <1>2 DEF IInv, TypeOK, CompareForward, outputs
<1>8. CacheInv'
  BY <1>2, CacheFrame DEF IInv, TypeOK, CacheId
<1>9. RoundInv'
  BY <1>2 DEF IInv, RoundInv, Drafting, Remaining, RoundDraftLen
<1>10. DraftInv'
  BY <1>2 DEF IInv, DraftInv
<1>11. VerifyInv'
  <2>1. Ctx' = Ctx /\ draft'.token_ids = d
    BY <1>2 DEF Ctx
  <2>2. kv'["verify"] = [tokens |-> Ctx \o SubSeq(d, 1, Len(w)), exact |-> TRUE]
    BY <1>2, <1>6 DEF IInv, TypeOK, CacheId
  <2>3. t = FullNext(Ctx \o SubSeq(d, 1, Len(w)))
    <3>1. t \in Predictions(kv'["verify"])
      BY <1>2
    <3>2. kv'["verify"].exact /\ kv'["verify"].tokens = Ctx \o SubSeq(d, 1, Len(w))
      BY <2>2
    <3>3. QED  BY <3>1, <3>2 DEF Predictions
  <2>4. Len(w) < Len(d) /\ d[Len(w)] = w[Len(w)]
    BY <1>3, <1>4
  <2>5. verifier'.next = FullNext(Ctx \o SubSeq(d, 1, Len(w))) /\ pc' = "compare"
    BY <1>2, <2>3
  <2>6. /\ Len(w) <= Len(d) /\ \A i \in 1..(Len(w) - 1) : d[i] = w[i]
        /\ \A i \in 1..Len(w) : w[i] = FullNext(Ctx \o SubSeq(d, 1, i - 1))
    BY <1>3, <2>4
  <2>7. QED  BY <2>1, <2>2, <2>4, <2>5, <2>6 DEF VerifyInv
<1>12. CommitInv'
  BY <1>2 DEF CommitInv
<1>13. QED  BY <1>7, <1>8, <1>9, <1>10, <1>11, <1>12 DEF IInv

\* A greedy continuation that has not reached EOS, continued greedily.
LEMMA ContinuesConcat ==
    ASSUME NEW c \in Seq(Token), NEW s \in Seq(Token), NEW v \in Seq(Token),
           Greedy!Continues(c, s), ~EndsWithEos(s),
           \A i \in 1..Len(v) : v[i] = FullNext((c \o s) \o SubSeq(v, 1, i - 1)),
           \A i \in 1..(Len(v) - 1) : v[i] # EOS
    PROVE  Greedy!Continues(c, s \o v)
<1> DEFINE u == s \o v
<1>1. /\ u \in Seq(Token) /\ Len(u) = Len(s) + Len(v)
      /\ Len(s) \in Nat /\ Len(v) \in Nat
      /\ \A i \in 1..Len(u) : u[i] = IF i <= Len(s) THEN s[i] ELSE v[i - Len(s)]
  BY ConcatProperties, LenProperties
<1>2. Len(s) > 0 => s[Len(s)] # EOS
  BY EmptySeq DEF EndsWithEos
<1>3. ASSUME NEW i \in 1..Len(u)
      PROVE  u[i] = FullNext(c \o SubSeq(u, 1, i - 1)) /\ (i < Len(u) => u[i] # EOS)
  <2>1. CASE i <= Len(s)
    <3>1. i - 1 \in 0..Len(s) /\ i \in 1..Len(s)
      BY <1>1, <2>1
    <3>2. SubSeq(u, 1, i - 1) = SubSeq(s, 1, i - 1)
      BY <3>1, PrefixInConcat
    <3>3. s[i] = FullNext(c \o SubSeq(s, 1, i - 1)) /\ s[i] # EOS
      BY <3>1, <1>1, <1>2 DEF Greedy!Continues
    <3>4. QED  BY <3>2, <3>3, <1>1, <2>1
  <2>2. CASE i > Len(s)
    <3> DEFINE k == i - Len(s) - 1
    <3>1. k \in 0..Len(v) /\ k + 1 \in 1..Len(v) /\ i - 1 = Len(s) + k
      BY <1>1, <2>2
    <3>2. u[i] = v[k + 1]
      BY <1>1, <2>2
    <3>3. c \o SubSeq(u, 1, i - 1) = (c \o s) \o SubSeq(v, 1, k)
      <4> HIDE DEF k
      <4>1. SubSeq(u, 1, i - 1) = s \o SubSeq(v, 1, k)
        BY <3>1, PrefixOfConcat
      <4>2. SubSeq(v, 1, k) \in Seq(Token)
        <5>1. \A j \in 1..k : v[j] \in Token
          BY <3>1, <1>1, ElementOfSeq
        <5>2. QED  BY <5>1, <3>1, <1>1, SubSeqProperties
      <4>3. c \o (s \o SubSeq(v, 1, k)) = (c \o s) \o SubSeq(v, 1, k)
        <5> DEFINE x == SubSeq(v, 1, k)
        <5> HIDE DEF x
        <5>1. x \in Seq(Token)
          BY <4>2 DEF x
        <5>2. c \o (s \o x) = (c \o s) \o x
          BY <5>1, ConcatAssociative
        <5>3. QED  BY <5>2 DEF x
      <4>4. QED  BY <4>1, <4>3
    <3>4. v[k + 1] = FullNext((c \o s) \o SubSeq(v, 1, k))
      <4>1. v[k + 1] = FullNext((c \o s) \o SubSeq(v, 1, (k + 1) - 1))
        BY <3>1
      <4>2. (k + 1) - 1 = k
        BY <3>1
      <4>3. QED  BY <4>1, <4>2
    <3>5. i < Len(u) => v[k + 1] # EOS
      BY <1>1, <3>1
    <3>6. QED  BY <3>2, <3>3, <3>4, <3>5
  <2>3. QED  BY <2>1, <2>2, <1>1
<1>4. QED  BY <1>3 DEF Greedy!Continues

\* What verification decides: exactly the verifier's tokens are committed.
LEMMA DecideFacts ==
    ASSUME IInv, pc = "decide"
    PROVE  LET d == draft.token_ids
               v == verifier.tokens
           IN  /\ d \in Seq(TokenId) /\ v \in Seq(Token)
               /\ Len(d) \in Nat /\ Len(v) \in Nat /\ Len(v) <= Len(d)
               /\ v = <<>> => d = <<>>
               /\ Verified \in AcceptanceResult
               /\ TruncateAtEos(CommittedBy(Verified)) = v
               /\ \A i \in 1..Len(v) : v[i] = FullNext(Ctx \o SubSeq(v, 1, i - 1))
               /\ \A i \in 1..(Len(v) - 1) : v[i] # EOS
<1> DEFINE d == draft.token_ids
           v == verifier.tokens
<1>1. d \in Seq(TokenId) /\ v \in Seq(Token) /\ Len(d) \in Nat /\ Len(v) \in Nat
  BY LenProperties DEF IInv, TypeOK
<1>2. /\ Len(v) <= Len(d)
      /\ \A i \in 1..Len(v) : v[i] = FullNext(Ctx \o SubSeq(d, 1, i - 1))
      /\ \A i \in 1..(Len(v) - 1) : d[i] = v[i]
      /\ d # <<>> => v # <<>> /\ (Len(v) = Len(d) \/ d[Len(v)] # v[Len(v)])
  BY DEF IInv, VerifyInv
<1>3. \A i \in 1..(Len(d) - 1) : d[i] # EOS
  BY DEF IInv, DraftInv
<1>4. Verified = compute_acceptance(d, v)
  BY RequestFacts DEF Verified, IInv, TypeOK
<1>5. Verified \in AcceptanceResult /\ CommittedBy(Verified) = v
  <2> HIDE DEF d, v
  <2>1. Answers(v, d)
    BY <1>2 DEF Answers
  <2>2. QED  BY <2>1, <1>1, <1>4, CommittedIsAnswer
<1>6. \A i \in 1..(Len(v) - 1) : v[i] # EOS
  BY <1>1, <1>2, <1>3
<1>7. TruncateAtEos(v) = v
  BY <1>1, <1>6, NothingTruncated
<1>8. ASSUME NEW i \in 1..Len(v)
      PROVE  v[i] = FullNext(Ctx \o SubSeq(v, 1, i - 1))
  <2> HIDE DEF d, v
  <2>1. SubSeq(d, 1, i - 1) = SubSeq(v, 1, i - 1)
    BY <1>1, <1>2, SamePrefix
  <2>2. QED  BY <2>1, <1>2
<1>9. QED  BY <1>1, <1>2, <1>5, <1>6, <1>7, <1>8

LEMMA DecideInv == IInv /\ Decide => IInv'
<1> SUFFICES ASSUME IInv, Decide
             PROVE  IInv'
  OBVIOUS
<1> DEFINE d == draft.token_ids
           v == verifier.tokens
<1>1. /\ d \in Seq(TokenId) /\ v \in Seq(Token)
      /\ Len(d) \in Nat /\ Len(v) \in Nat /\ Len(v) <= Len(d)
      /\ v = <<>> => d = <<>>
      /\ Verified \in AcceptanceResult
      /\ TruncateAtEos(CommittedBy(Verified)) = v
      /\ \A i \in 1..Len(v) : v[i] = FullNext(Ctx \o SubSeq(v, 1, i - 1))
      /\ \A i \in 1..(Len(v) - 1) : v[i] # EOS
  BY DecideFacts DEF Decide
<1>2. /\ acceptance' = Verified /\ committed' = v /\ pending' = v
      /\ totals' = [totals EXCEPT !.corrections = @ + Len(Verified.correction_token)]
      /\ done' = (EndsWithEos(v) \/ v = <<>>)
      /\ pc' = IF v = <<>> THEN "round" ELSE "commit"
      /\ UNCHANGED <<request, kv, full_state, compressed, draft, verifier, all_generated>>
  <2> HIDE DEF v
  <2>1. QED  BY <1>1 DEF Decide, LastRound
<1>3. TypeOK'
  <2>1. totals' \in [accepted : Nat, rejected : Nat, corrections : Nat]
    <3>1. Len(Verified.correction_token) \in Nat
      BY <1>1, LenProperties DEF AcceptanceResult
    <3>2. totals \in [accepted : Nat, rejected : Nat, corrections : Nat]
      BY DEF IInv, TypeOK
    <3>3. ASSUME NEW k \in Nat
          PROVE  [totals EXCEPT !.corrections = @ + k]
                   \in [accepted : Nat, rejected : Nat, corrections : Nat]
      BY <3>2
    <3>4. QED  BY <3>1, <3>3, <1>2
  <2>2. done' \in BOOLEAN /\ pc' \in PC
    BY <1>2 DEF PC
  <2>3. QED  BY <2>1, <2>2, <1>1, <1>2 DEF IInv, TypeOK
<1>4. CacheInv'
  BY <1>2, CacheFrame DEF IInv, Decide
<1>5. /\ Greedy!Continues(request.prompt, all_generated)
      /\ full_state.generated_ids = all_generated /\ ~EndsWithEos(all_generated)
      /\ Remaining > 0 /\ draft.n = RoundDraftLen
      /\ Len(d) <= draft.n /\ (d = <<>> => draft.n = 0)
      /\ Len(all_generated) <= request.max_new_tokens
  BY DEF IInv, RoundInv, DraftInv, Drafting, Decide
<1>6. /\ request.prompt \in Seq(Token) /\ all_generated \in Seq(Token)
      /\ Len(all_generated) \in Nat /\ request.max_new_tokens \in Nat
      /\ request.draft_len \in Nat
  BY RequestFacts, LenProperties DEF IInv, TypeOK
<1>7. /\ Len(d) <= request.max_new_tokens - Len(all_generated)
      /\ d = <<>> => request.draft_len = 0
  BY <1>1, <1>5, <1>6 DEF RoundDraftLen, Remaining, Smaller
<1>8. RoundInv'
  BY <1>1, <1>2, <1>5, <1>7 DEF RoundInv, Drafting
<1>9. DraftInv' /\ VerifyInv'
  BY <1>2 DEF DraftInv, VerifyInv
<1>10. CommitInv'
  <2>1. Greedy!Continues(request.prompt, all_generated \o v)
    <3> HIDE DEF d, v
    <3>1. Ctx = request.prompt \o all_generated
      BY <1>5 DEF Ctx
    <3>2. QED  BY <3>1, <1>1, <1>5, <1>6, ContinuesConcat
  <2>2. Len(all_generated) + Len(v) <= request.max_new_tokens
    BY <1>1, <1>6, <1>7
  <2>3. QED  BY <2>1, <2>2, <1>2, <1>5 DEF CommitInv
<1>11. QED  BY <1>3, <1>4, <1>8, <1>9, <1>10 DEF IInv

\* What compress() leaves of the heap it finds, for every kind of compressor.
LEMMA CompressFacts ==
    ASSUME request \in Request, NEW heap \in [CacheId -> Cache], NEW fs \in FullKVState,
           Compress(heap, fs)
    PROVE  /\ kv' \in [CacheId -> Cache]
           /\ kv'["full"] = heap["full"]
           /\ compressed' \in CompressedKVState
           /\ compressed'.generated_ids = fs.generated_ids
           /\ compressed'.logical_seq_len = Len(request.prompt) + Len(fs.generated_ids)
<1>1. /\ fs.past_key_values = "full" /\ fs.generated_ids \in Seq(Token)
      /\ fs.next_token_id \in Token /\ heap["full"] \in Cache
      /\ Len(request.prompt) \in Nat /\ Len(fs.generated_ids) \in Nat
  BY RequestFacts, LenProperties DEF FullKVState, CacheId
<1>2. kv' \in [CacheId -> Cache] /\ kv'["full"] = heap["full"]
  <2>1. [tokens |-> heap["full"].tokens, exact |-> FALSE] \in Cache
    BY <1>1 DEF Cache
  <2>2. kv' = heap
          \/ kv' = [heap EXCEPT !["compressed"] =
                                  [tokens |-> heap["full"].tokens, exact |-> FALSE]]
    BY <1>1 DEF Compress
  <2>3. QED  BY <2>1, <2>2 DEF CacheId
<1>3. compressed' \in CompressedKVState
  <2>1. PICK next \in CompressedNext(request.compressor, fs.next_token_id) :
           compressed' = [ data            |-> IF request.compressor # "noop"
                                               THEN "compressed" ELSE fs.past_key_values,
                           next_token_id   |-> next,
                           logical_seq_len |-> Len(request.prompt) + Len(fs.generated_ids),
                           generated_ids   |-> fs.generated_ids ]
    BY DEF Compress
  <2>2. next \in TokenId
    <3>1. request.compressor \in CompressorKinds
      BY RequestFacts
    <3>2. CompressedNext(request.compressor, fs.next_token_id) \subseteq TokenId
      BY <1>1, <3>1, TokenFacts
    <3>3. QED  BY <3>2
  <2>3. Len(request.prompt) + Len(fs.generated_ids) \in Nat
    <3>1. \A k, l \in Nat : k + l \in Nat
      OBVIOUS
    <3>2. QED  BY <1>1, <3>1, Zenon
  <2>4. ASSUME NEW data \in {"full", "compressed"}, NEW len \in Nat, NEW s \in Seq(Token)
        PROVE  [data |-> data, next_token_id |-> next, logical_seq_len |-> len,
                generated_ids |-> s] \in CompressedKVState
    BY <2>2 DEF CompressedKVState
  <2>5. QED  BY <1>1, <2>1, <2>3, <2>4
<1>4. /\ compressed'.generated_ids = fs.generated_ids
      /\ compressed'.logical_seq_len = Len(request.prompt) + Len(fs.generated_ids)
  BY DEF Compress
<1>5. QED  BY <1>2, <1>3, <1>4

LEMMA PrefillInv == IInv /\ Prefill => IInv'
<1> SUFFICES ASSUME IInv, Prefill
             PROVE  IInv'
  OBVIOUS
<1> DEFINE cache == PrefillCache(request.prompt)
           heap == [kv EXCEPT !["full"] = cache]
<1>1. PICK t \in Predictions(cache) :
         /\ full_state' = [full_state EXCEPT !.next_token_id = t]
         /\ Compress(heap, full_state')
  BY DEF Prefill
<1>2. /\ request \in Request /\ request.prompt \in Seq(Token)
      /\ cache \in Cache /\ heap \in [CacheId -> Cache] /\ heap["full"] = cache
  BY RequestFacts DEF IInv, TypeOK, Cache, CacheId, PrefillCache
<1>3. t \in Token /\ t = FullNext(request.prompt)
  BY DEF Predictions, PrefillCache
<1>4. full_state' \in FullKVState /\ full_state.generated_ids = <<>>
  BY <1>1, <1>3 DEF IInv, TypeOK, FullKVState, RoundInv, Prefill
<1>5. kv' \in [CacheId -> Cache] /\ kv'["full"] = cache /\ compressed' \in CompressedKVState
  <2> HIDE DEF heap
  <2>1. QED  BY <1>1, <1>2, <1>4, CompressFacts
<1>6. TypeOK'
  BY <1>4, <1>5 DEF IInv, TypeOK, Prefill, locals, outputs, PC
<1>7. CacheInv'
  <2>1. /\ full_state'.generated_ids = <<>> /\ full_state'.past_key_values = "full"
        /\ full_state'.next_token_id = t /\ request' = request
    BY <1>1, <1>4 DEF IInv, TypeOK, FullKVState, Prefill
  <2>2. ~EndsWithEos(<<>>) /\ request.prompt \o <<>> = request.prompt
    BY <1>2, ConcatEmptySeq DEF EndsWithEos
  <2>3. QED  BY <1>3, <1>5, <2>1, <2>2
         DEF CacheInv, AuthoritativeCache, WithoutEos, Ctx, PrefillCache
<1>8. RoundInv'
  <2>1. /\ all_generated = <<>> /\ ~done /\ ~EndsWithEos(<<>>) /\ pc' = "round"
        /\ UNCHANGED <<request, all_generated, done>> /\ full_state'.generated_ids = <<>>
    BY <1>1, <1>4 DEF IInv, TypeOK, FullKVState, RoundInv, Prefill, outputs, EndsWithEos
  <2>2. QED  BY <2>1 DEF IInv, RoundInv, Drafting
<1>9. DraftInv' /\ VerifyInv' /\ CommitInv'
  BY DEF Prefill, DraftInv, VerifyInv, CommitInv
<1>10. QED  BY <1>6, <1>7, <1>8, <1>9 DEF IInv

LEMMA ConsumeHead ==
    ASSUME NEW S, NEW g \in Seq(S), NEW p \in Seq(S), p # <<>>
    PROVE  /\ Head(p) \in S /\ Tail(p) \in Seq(S)
           /\ Head(p) = p[1] /\ Len(p) \in Nat \ {0} /\ Len(Tail(p)) = Len(p) - 1
           /\ Append(g, Head(p)) \o Tail(p) = g \o p
<1>1. /\ Head(p) \in S /\ Tail(p) \in Seq(S) /\ Head(p) = p[1]
      /\ Len(p) \in Nat \ {0} /\ Len(Tail(p)) = Len(p) - 1
      /\ p = <<Head(p)>> \o Tail(p)
  <2>1. /\ Head(p) \in S /\ Tail(p) \in Seq(S) /\ Head(p) = p[1]
        /\ Len(p) \in Nat \ {0} /\ Len(Tail(p)) = Len(p) - 1
        /\ \A i \in 1..Len(Tail(p)) : Tail(p)[i] = p[i + 1]
    BY HeadTailProperties, EmptySeq, LenProperties, ElementOfSeq
  <2>2. <<Head(p)>> \in Seq(S) /\ Len(<<Head(p)>>) = 1 /\ <<Head(p)>>[1] = Head(p)
    BY <2>1
  <2>3. /\ <<Head(p)>> \o Tail(p) \in Seq(S)
        /\ Len(<<Head(p)>> \o Tail(p)) = Len(p)
        /\ \A i \in 1..Len(p) : (<<Head(p)>> \o Tail(p))[i] = p[i]
    BY <2>1, <2>2, ConcatProperties
  <2>4. QED  BY <2>1, <2>3, SeqEqual
<1>2. Append(g, Head(p)) = g \o <<Head(p)>> /\ <<Head(p)>> \in Seq(S)
  BY <1>1, AppendIsConcat
<1>3. (g \o <<Head(p)>>) \o Tail(p) = g \o (<<Head(p)>> \o Tail(p))
  BY <1>1, <1>2, ConcatAssociative
<1>4. QED  BY <1>1, <1>2, <1>3

LEMMA EosAppended ==
    ASSUME NEW g \in Seq(Token), NEW t \in Token
    PROVE  /\ EndsWithEos(Append(g, t)) <=> t = EOS
           /\ WithoutEos(Append(g, t)) = IF t = EOS THEN g ELSE Append(g, t)
<1>1. /\ Append(g, t) \in Seq(Token) /\ Append(g, t) # <<>>
      /\ Len(g) \in Nat /\ Len(Append(g, t)) = Len(g) + 1
      /\ Append(g, t)[Len(g) + 1] = t
      /\ \A i \in 1..Len(g) : Append(g, t)[i] = g[i]
  BY AppendProperties, LenProperties
<1>2. EndsWithEos(Append(g, t)) <=> t = EOS
  BY <1>1 DEF EndsWithEos
<1>3. SubSeq(Append(g, t), 1, Len(g)) = g
  <2>1. SubSeq(Append(g, t), 1, Len(g)) = SubSeq(g, 1, Len(g))
    BY <1>1, SamePrefix
  <2>2. QED  BY <2>1, SubSeqFull
<1>4. WithoutEos(Append(g, t)) = IF t = EOS THEN g ELSE Append(g, t)
  <2>1. (Len(g) + 1) - 1 = Len(g)
    BY <1>1
  <2>2. QED  BY <1>1, <1>2, <1>3, <2>1 DEF WithoutEos
<1>5. QED  BY <1>2, <1>4

\* What a committed token is, and what it leaves to commit: the output has no
\* EOS before its end, so _commit stops at EOS only when nothing is left.
LEMMA CommitFacts ==
    ASSUME IInv, Commit
    PROVE  LET g == full_state.generated_ids
               t == Head(pending)
           IN  /\ t \in Token /\ g \in Seq(Token) /\ ~EndsWithEos(g)
               /\ pending # <<>> /\ Tail(pending) \in Seq(Token)
               /\ pending' = Tail(pending)
               /\ Append(g, t) \o Tail(pending) = g \o pending
               /\ full_state' \in FullKVState
               /\ full_state'.generated_ids = Append(g, t)
<1> DEFINE g == full_state.generated_ids
           t == Head(pending)
           total == g \o pending
<1>1. /\ g \in Seq(Token) /\ pending \in Seq(Token) /\ pending # <<>>
      /\ total = all_generated \o committed
      /\ Greedy!Continues(request.prompt, total)
  BY DEF IInv, TypeOK, FullKVState, CommitInv, Commit
<1>2. /\ t \in Token /\ Tail(pending) \in Seq(Token) /\ t = pending[1]
      /\ Len(pending) \in Nat \ {0} /\ Len(Tail(pending)) = Len(pending) - 1
      /\ Append(g, t) \o Tail(pending) = total
  BY <1>1, ConsumeHead
<1>3. /\ Len(g) \in Nat /\ Len(total) = Len(g) + Len(pending)
      /\ \A i \in 1..Len(total) : total[i] = IF i <= Len(g) THEN g[i] ELSE pending[i - Len(g)]
  <2> HIDE DEF g
  <2>1. QED  BY <1>1, LenProperties, ConcatProperties
<1>4. \A i \in 1..Len(total) : i < Len(total) => total[i] # EOS
  <2> HIDE DEF total
  <2>1. QED  BY <1>1 DEF Greedy!Continues
<1>5. ~EndsWithEos(g)
  <2> HIDE DEF g, total
  <2>1. SUFFICES ASSUME g # <<>>
                 PROVE  g[Len(g)] # EOS
    BY DEF EndsWithEos
  <2>2. Len(g) > 0
    BY <1>1, <1>3, <2>1, EmptySeq
  <2>3. QED  BY <1>2, <1>3, <1>4, <2>2
<1>6. t = EOS => Tail(pending) = <<>>
  <2> HIDE DEF g, total
  <2>1. SUFFICES ASSUME t = EOS
                 PROVE  Len(pending) = 1
    BY <1>2, EmptySeq
  <2>2. total[Len(g) + 1] = EOS
    BY <1>2, <1>3, <2>1
  <2>3. QED  BY <1>2, <1>3, <1>4, <2>2
<1>7. pending' = Tail(pending)
  BY <1>6 DEF Commit
<1>8. full_state' \in FullKVState /\ full_state'.generated_ids = Append(g, t)
  <2>1. Append(g, t) \in Seq(Token)
    BY <1>1, <1>2, AppendProperties
  <2>2. \E next \in Token :
           full_state' = [full_state EXCEPT !.generated_ids = Append(g, t),
                                            !.next_token_id = next]
    BY TokenFacts DEF Commit, Predictions
  <2>3. PICK next \in Token :
           full_state' = [full_state EXCEPT !.generated_ids = Append(g, t),
                                            !.next_token_id = next]
    BY <2>2
  <2>4. full_state \in FullKVState
    BY DEF IInv, TypeOK
  <2>5. ASSUME NEW s \in Seq(Token), full_state' = [full_state EXCEPT !.generated_ids = s,
                                                                     !.next_token_id = next]
        PROVE  full_state' \in FullKVState /\ full_state'.generated_ids = s
    BY <2>4, <2>5 DEF FullKVState
  <2>6. QED  BY <2>1, <2>3, <2>5
<1>9. QED  BY <1>1, <1>2, <1>5, <1>7, <1>8

LEMMA CommitStepInv == IInv /\ Commit => IInv'
<1> SUFFICES ASSUME IInv, Commit
             PROVE  IInv'
  OBVIOUS
<1> DEFINE g == full_state.generated_ids
           t == Head(pending)
<1>1. /\ t \in Token /\ g \in Seq(Token) /\ ~EndsWithEos(g)
      /\ pending # <<>> /\ Tail(pending) \in Seq(Token)
      /\ pending' = Tail(pending)
      /\ Append(g, t) \o Tail(pending) = g \o pending
      /\ full_state' \in FullKVState
      /\ full_state'.generated_ids = Append(g, t)
  BY CommitFacts
<1>2. /\ full_state.past_key_values = "full" /\ full_state'.past_key_values = "full"
      /\ request.prompt \in Seq(Token) /\ kv["full"] \in Cache /\ pc = "commit"
      /\ kv["full"] = [tokens |-> request.prompt \o g, exact |-> TRUE]
  BY <1>1, RequestFacts
     DEF IInv, TypeOK, FullKVState, CacheInv, AuthoritativeCache, WithoutEos, Commit, CacheId
<1>3. t # EOS => kv' = [kv EXCEPT !["full"] = [tokens |-> request.prompt \o Append(g, t),
                                               exact  |-> TRUE]]
  <2>1. request.prompt \o Append(g, t) = Append(request.prompt \o g, t)
    <3>1. ASSUME NEW s \in Seq(Token)
          PROVE  s \o Append(g, t) = Append(s \o g, t)
      BY <1>1, ConcatAppend
    <3>2. QED  BY <1>2, <3>1
  <2>2. Extended(kv["full"], t) = [tokens |-> request.prompt \o Append(g, t), exact |-> TRUE]
    <3> HIDE DEF g, t
    <3>1. Extended([tokens |-> request.prompt \o g, exact |-> TRUE], t)
             = [tokens |-> Append(request.prompt \o g, t), exact |-> TRUE]
      BY ExtendedCache
    <3>2. QED  BY <1>2, <2>1, <3>1
  <2>3. t # EOS => kv' = [kv EXCEPT !["full"] = Extended(kv["full"], t)]
    BY <1>2 DEF Commit
  <2>4. QED  BY <2>2, <2>3
<1>4. TypeOK'
  <2>1. kv' \in [CacheId -> Cache]
    <3>1. CASE t = EOS
      BY <3>1 DEF Commit, IInv, TypeOK
    <3>2. CASE t # EOS
      <4>1. request.prompt \o Append(g, t) \in Seq(Token)
        BY <1>1, <1>2, AppendProperties, ConcatProperties
      <4>2. [tokens |-> request.prompt \o Append(g, t), exact |-> TRUE] \in Cache
        BY <4>1 DEF Cache
      <4>3. QED  BY <4>2, <3>2, <1>3 DEF IInv, TypeOK
    <3>3. QED  BY <3>1, <3>2
  <2>2. pc' \in PC
    BY DEF Commit, PC
  <2>3. QED  BY <2>1, <2>2, <1>1 DEF IInv, TypeOK, Commit, outputs
<1>5. CacheInv'
  <2>1. request' = request /\ Ctx' = request.prompt \o Append(g, t)
    BY <1>1 DEF Commit, Ctx
  <2>2. /\ EndsWithEos(Append(g, t)) <=> t = EOS
        /\ WithoutEos(Append(g, t)) = IF t = EOS THEN g ELSE Append(g, t)
    BY <1>1, EosAppended
  <2>3. CASE t = EOS
    <3>1. kv' = kv
      BY <2>3 DEF Commit
    <3>2. QED  BY <1>1, <1>2, <2>1, <2>2, <2>3, <3>1 DEF CacheInv, AuthoritativeCache
  <2>4. CASE t # EOS
    <3>1. kv'["full"] = [tokens |-> request.prompt \o Append(g, t), exact |-> TRUE]
      BY <2>4, <1>3 DEF IInv, TypeOK, CacheId
    <3>2. full_state'.next_token_id \in Predictions(kv'["full"])
      BY <2>4, <1>2 DEF Commit, IInv, TypeOK, FullKVState
    <3>3. full_state'.next_token_id = FullNext(request.prompt \o Append(g, t))
      <4>1. kv'["full"].exact /\ kv'["full"].tokens = request.prompt \o Append(g, t)
        <5> DEFINE s == request.prompt \o Append(g, t)
        <5> HIDE DEF s
        <5>1. kv'["full"] = [tokens |-> s, exact |-> TRUE]
          BY <3>1 DEF s
        <5>2. kv'["full"].exact /\ kv'["full"].tokens = s
          BY <5>1
        <5>3. QED  BY <5>2 DEF s
      <4>2. QED  BY <3>2, <4>1 DEF Predictions
    <3>4. QED  BY <1>1, <1>2, <2>1, <2>2, <2>4, <3>1, <3>3 DEF CacheInv, AuthoritativeCache
  <2>5. QED  BY <2>3, <2>4
<1>6. RoundInv'
  <2>1. /\ pc = "commit" /\ pc' \in {"commit", "align"}
        /\ UNCHANGED <<request, all_generated, done>>
    BY DEF Commit, outputs
  <2>2. QED  BY <2>1 DEF IInv, RoundInv, Drafting, Remaining
<1>7. DraftInv' /\ VerifyInv'
  BY DEF Commit, DraftInv, VerifyInv
<1>8. CommitInv'
  <2>1. /\ UNCHANGED <<request, all_generated, committed, done>> /\ pc = "commit"
        /\ pc' = IF pending' = <<>> THEN "align" ELSE "commit"
    BY DEF Commit, outputs
  <2>2. full_state'.generated_ids \o pending' = g \o pending
    BY <1>1
  <2>3. QED  BY <2>1, <2>2 DEF IInv, CommitInv
<1>9. QED  BY <1>4, <1>5, <1>6, <1>7, <1>8 DEF IInv

LEMMA AlignInv == IInv /\ Align => IInv'
<1> SUFFICES ASSUME IInv, Align
             PROVE  IInv'
  OBVIOUS
<1> DEFINE total == all_generated \o committed
<1>1. /\ request \in Request /\ full_state \in FullKVState /\ kv \in [CacheId -> Cache]
      /\ all_generated \in Seq(Token) /\ committed \in Seq(Token) /\ committed # <<>>
      /\ full_state.generated_ids \in Seq(Token) /\ request.max_new_tokens \in Nat
  BY RequestFacts DEF IInv, TypeOK, FullKVState, CommitInv, Align
<1>2. kv' \in [CacheId -> Cache] /\ kv'["full"] = kv["full"] /\ compressed' \in CompressedKVState
  BY <1>1, CompressFacts DEF Align, UpdateAfterCommit
<1>3. /\ pc = "align" /\ pc' = "notify" /\ pending = <<>>
      /\ all_generated' = total
      /\ UNCHANGED <<request, full_state, pending, done>>
  BY DEF Align, IInv, CommitInv
<1>4. /\ Greedy!Continues(request.prompt, total)
      /\ Len(all_generated) + Len(committed) <= request.max_new_tokens
      /\ done <=> EndsWithEos(committed)
      /\ full_state.generated_ids = total
  <2>1. full_state.generated_ids \o <<>> = full_state.generated_ids
    BY <1>1, ConcatEmptySeq
  <2>2. QED  BY <2>1, <1>3 DEF IInv, CommitInv
<1>5. /\ total \in Seq(Token) /\ total # <<>>
      /\ Len(all_generated) \in Nat /\ Len(committed) \in Nat
      /\ Len(total) = Len(all_generated) + Len(committed)
      /\ total[Len(total)] = committed[Len(committed)]
  <2>1. /\ Len(committed) \in Nat /\ Len(committed) > 0 /\ Len(all_generated) \in Nat
        /\ total \in Seq(Token) /\ Len(total) = Len(all_generated) + Len(committed)
        /\ \A i \in 1..Len(total) : total[i] = IF i <= Len(all_generated) THEN all_generated[i]
                                               ELSE committed[i - Len(all_generated)]
    BY <1>1, LenProperties, EmptySeq, ConcatProperties
  <2> HIDE DEF total
  <2>2. Len(total) \in 1..Len(total) /\ Len(total) - Len(all_generated) = Len(committed)
    BY <2>1
  <2>3. total # <<>>
    BY <2>1, EmptySeq
  <2>4. QED  BY <2>1, <2>2, <2>3
<1>6. EndsWithEos(total) <=> EndsWithEos(committed)
  <2> HIDE DEF total
  <2>1. QED  BY <1>1, <1>5 DEF EndsWithEos
<1>7. TypeOK'
  <2>1. totals' \in [accepted : Nat, rejected : Nat, corrections : Nat]
    <3>1. /\ Len(acceptance.accepted_tokens) \in Nat
          /\ Len(acceptance.rejected_tokens) \in Nat
      BY LenProperties DEF IInv, TypeOK, AcceptanceResult
    <3>2. totals \in [accepted : Nat, rejected : Nat, corrections : Nat]
      BY DEF IInv, TypeOK
    <3>3. ASSUME NEW k \in Nat, NEW l \in Nat
          PROVE  [totals EXCEPT !.accepted = @ + k, !.rejected = @ + l]
                   \in [accepted : Nat, rejected : Nat, corrections : Nat]
      <4>1. totals.accepted + k \in Nat /\ totals.rejected + l \in Nat
        BY <3>2
      <4>2. ASSUME NEW a \in Nat, NEW b \in Nat
            PROVE  [totals EXCEPT !.accepted = a, !.rejected = b]
                     \in [accepted : Nat, rejected : Nat, corrections : Nat]
        BY <3>2
      <4>3. QED  BY <4>1, <4>2
    <3>4. QED  BY <3>1, <3>3 DEF Align
  <2>2. /\ draft' \in [cache : {"draft"}, n : 0..request.max_new_tokens,
                       token_ids : Seq(TokenId), current : TokenId]
        /\ verifier' \in [cache : {"verify"}, tokens : Seq(Token), next : Token]
    BY <1>1, TokenFacts DEF Align, NoDraft, NoVerifier
  <2>3. acceptance' \in AcceptanceResult
    BY NoAcceptanceType DEF Align
  <2>4. committed' \in Seq(Token) /\ pc' \in PC /\ all_generated' \in Seq(Token)
    BY <1>3, <1>5 DEF Align, PC
  <2>5. QED  BY <1>2, <1>3, <2>1, <2>2, <2>3, <2>4 DEF IInv, TypeOK
<1>8. CacheInv'
  BY <1>2, <1>3, CacheFrame DEF IInv
<1>9. RoundInv'
  <2> HIDE DEF total
  <2>1. Len(total) <= request.max_new_tokens
    BY <1>4, <1>5
  <2>2. QED  BY <1>3, <1>4, <1>6, <2>1 DEF RoundInv, Drafting
<1>10. DraftInv' /\ VerifyInv' /\ CommitInv'
  BY <1>3 DEF DraftInv, VerifyInv, CommitInv
<1>11. QED  BY <1>7, <1>8, <1>9, <1>10 DEF IInv

LEMMA NotifyInv == IInv /\ Notify => IInv'
<1> SUFFICES ASSUME IInv, Notify
             PROVE  IInv'
  OBVIOUS
<1>1. TypeOK'
  BY DEF IInv, TypeOK, Notify, locals, PC
<1>2. CacheInv'
  BY CacheFrame DEF IInv, Notify
<1>3. RoundInv'
  <2>1. /\ pc = "notify" /\ pc' = "round" /\ done' = (done \/ Remaining <= 0)
        /\ UNCHANGED <<request, full_state, all_generated>>
        /\ Remaining' = Remaining
    BY DEF Notify, Remaining
  <2>2. Remaining <= 0 => Remaining = 0
    BY RequestFacts, LenProperties DEF IInv, TypeOK, RoundInv, Remaining
  <2>3. QED  BY <2>1, <2>2 DEF IInv, RoundInv, Drafting
<1>4. DraftInv' /\ VerifyInv' /\ CommitInv'
  BY DEF Notify, DraftInv, VerifyInv, CommitInv
<1>5. QED  BY <1>1, <1>2, <1>3, <1>4 DEF IInv

LEMMA NotifyRaisesInv == IInv /\ NotifyRaises => IInv'
<1> SUFFICES ASSUME IInv, NotifyRaises
             PROVE  IInv'
  OBVIOUS
<1>1. TypeOK'
  BY DEF IInv, TypeOK, NotifyRaises, locals, outputs, PC
<1>2. CacheInv'
  BY CacheFrame DEF IInv, NotifyRaises
<1>3. RoundInv'
  BY DEF IInv, RoundInv, NotifyRaises, outputs, Drafting
<1>4. DraftInv' /\ VerifyInv' /\ CommitInv'
  BY DEF NotifyRaises, DraftInv, VerifyInv, CommitInv
<1>5. QED  BY <1>1, <1>2, <1>3, <1>4 DEF IInv

LEMMA ReturnInv == IInv /\ Return => IInv'
<1> SUFFICES ASSUME IInv, Return
             PROVE  IInv'
  OBVIOUS
<1>1. TypeOK'
  BY DEF IInv, TypeOK, Return, locals, outputs, PC
<1>2. CacheInv'
  BY CacheFrame DEF IInv, Return
<1>3. RoundInv'
  <2>1. /\ pc = "round" /\ pc' = "returned" /\ (done \/ Remaining <= 0)
        /\ UNCHANGED <<request, full_state, all_generated, done>>
        /\ Remaining' = Remaining
    BY DEF Return, outputs, Remaining
  <2>2. Remaining <= 0 => Remaining = 0
    BY RequestFacts, LenProperties DEF IInv, TypeOK, RoundInv, Remaining
  <2>3. QED  BY <2>1, <2>2 DEF IInv, RoundInv, Drafting
<1>4. DraftInv' /\ VerifyInv' /\ CommitInv'
  BY DEF Return, DraftInv, VerifyInv, CommitInv
<1>5. QED  BY <1>1, <1>2, <1>3, <1>4 DEF IInv

LEMMA NextInv == IInv /\ [Next]_vars => IInv'
<1> SUFFICES ASSUME IInv, [Next]_vars
             PROVE  IInv'
  OBVIOUS
<1>1. CASE Step
  BY <1>1, PrefillInv, BeginRoundInv, DraftLastInv, DraftForwardInv,
     DraftOutOfVocabularyInv, VerifySpanBatchedInv, BeginVerifyInv, CompareLastInv,
     CompareForwardInv, DecideInv, CommitStepInv, AlignInv, NotifyInv,
     NotifyRaisesInv, ReturnInv
     DEF Step
<1>2. CASE Ended \/ UNCHANGED vars
  BY <1>2, StutterInv DEF Ended
<1>3. QED  BY <1>1, <1>2 DEF Next

-----------------------------------------------------------------------------
(* The theorems *)

\* IInv, the inductive invariant, holds throughout every call of generate().
THEOREM Invariance == Spec => []IInv
<1>1. QED  BY InitInv, NextInv, PTL DEF Spec

\* Type correctness: every id that reaches a forward call is in the vocabulary,
\* and no round drafts more than the budget leaves.
THEOREM Typing == Spec => []TypeOK
<1>1. IInv => TypeOK
  BY DEF IInv
<1>2. QED  BY <1>1, Invariance, PTL

\* No drafted, rejected or lossily predicted token ever reaches the authoritative
\* cache: FullKVState holds the committed tokens, computed by the full model.
THEOREM Authority == Spec => []AuthoritativeCache
<1>1. IInv => AuthoritativeCache
  BY DEF IInv, CacheInv
<1>2. QED  BY <1>1, Invariance, PTL

\* Whatever a compressor drafts and however verification runs, what generate()
\* returns is greedy decoding of the request, run to its end, if it may draft.
THEOREM Exactness == Spec => []ExactOutput
<1>1. IInv => ExactOutput
  <2>1. SUFFICES ASSUME IInv, pc = "returned", request.draft_len > 0
                 PROVE  ReturnsGreedy
    BY DEF ExactOutput
  <2>2. Len(all_generated) \in Nat /\ request.max_new_tokens \in Nat /\ request.draft_len # 0
    BY <2>1, RequestFacts, LenProperties DEF IInv, TypeOK
  <2>3. Greedy!Continues(request.prompt, all_generated)
    BY <2>1 DEF IInv, RoundInv
  <2>4. EndsWithEos(all_generated) \/ Remaining = 0
    BY <2>1, <2>2 DEF IInv, RoundInv
  <2>5. Greedy!Complete
    BY <2>2, <2>4 DEF Remaining, EndsWithEos, Greedy!Complete, Greedy!EndsWithEos
  <2>6. QED  BY <2>3, <2>5 DEF ReturnsGreedy
<1>2. QED  BY <1>1, Invariance, PTL

\* Drafting, verifying and aligning never touch the authoritative state.
THEOREM Isolation == Spec => OnlyCommitMutates
<1>1. ASSUME IInv, [Next]_vars, pc \notin {"prefill", "commit"}
      PROVE  UNCHANGED <<full_state, kv["full"]>>
  <2> USE DEF CacheId
  <2>0. kv \in [CacheId -> Cache]
    BY <1>1 DEF IInv, TypeOK
  <2>1. CASE BeginRound
    BY <2>0, <2>1 DEF BeginRound, DraftCache
  <2>2. CASE DraftForward
    BY <2>0, <2>2, <1>1 DEF DraftForward, IInv, TypeOK
  <2>3. CASE VerifySpanBatched
    BY <2>0, <2>3 DEF VerifySpanBatched
  <2>4. CASE BeginVerify
    BY <2>0, <2>4 DEF BeginVerify, VerifyCache
  <2>5. CASE CompareForward
    BY <2>0, <2>5, <1>1 DEF CompareForward, IInv, TypeOK
  <2>6. CASE Align
    BY <2>6, <1>1, CompressFacts DEF Align, UpdateAfterCommit, IInv, TypeOK
  <2>7. CASE Decide
    BY <2>7 DEF Decide
  <2>8. CASE DraftLast \/ DraftOutOfVocabulary \/ CompareLast
    BY <2>8 DEF DraftLast, DraftOutOfVocabulary, CompareLast
  <2>9. CASE Notify \/ NotifyRaises \/ Return
    BY <2>9 DEF Notify, NotifyRaises, Return
  <2>10. CASE Ended \/ UNCHANGED vars
    BY <2>10 DEF Ended, vars
  <2>11. QED  BY <1>1, <2>1, <2>2, <2>3, <2>4, <2>5, <2>6, <2>7, <2>8, <2>9, <2>10
              DEF Next, Step, Prefill, Commit
<1>2. IInv /\ [Next]_vars =>
        [pc \notin {"prefill", "commit"} => UNCHANGED <<full_state, kv["full"]>>]_vars
  BY <1>1
<1>3. QED  BY <1>2, Invariance, PTL DEF Spec, OnlyCommitMutates

\* A round emits nothing, or a greedy continuation of the output so far.
LEMMA GreedyStep == IInv /\ [Next]_vars => [Greedy!Next]_Greedy!vars
<1> SUFFICES ASSUME IInv, [Next]_vars
             PROVE  [Greedy!Next]_Greedy!vars
  OBVIOUS
<1>1. CASE Align
  <2> DEFINE total == all_generated \o committed
  <2>1. /\ all_generated \in Seq(Token) /\ committed \in Seq(Token) /\ committed # <<>>
        /\ Greedy!Continues(request.prompt, total)
        /\ Len(all_generated) + Len(committed) <= request.max_new_tokens
        /\ request.max_new_tokens \in Nat
        /\ all_generated' = total /\ request' = request
    BY <1>1, RequestFacts DEF IInv, TypeOK, CommitInv, Align
  <2>2. /\ Len(all_generated) \in Nat /\ Len(committed) \in Nat /\ Len(committed) > 0
        /\ Len(total) = Len(all_generated) + Len(committed)
        /\ \A i \in 1..Len(all_generated) : total[i] = all_generated[i]
    BY <2>1, LenProperties, EmptySeq, ConcatProperties
  <2> HIDE DEF total
  <2>3. Len(total) \in (Len(all_generated) + 1)..request.max_new_tokens
    BY <2>1, <2>2
  <2>4. Greedy!IsPrefixOf(all_generated, total)
    BY <2>2 DEF Greedy!IsPrefixOf
  <2>5. QED  BY <2>1, <2>3, <2>4 DEF Greedy!Next, Greedy!Emit
<1>2. CASE ~Align
  <2>1. UNCHANGED <<request, all_generated>>
    BY <1>2 DEF Next, Step, Ended, vars, outputs, Prefill, BeginRound, DraftLast,
       DraftForward, DraftOutOfVocabulary, VerifySpanBatched, BeginVerify, CompareLast,
       CompareForward, Decide, Commit, Notify, NotifyRaises, Return
  <2>2. QED  BY <2>1 DEF Greedy!vars
<1>3. QED  BY <1>1, <1>2

\* generate() implements greedy decoding, round by round.
THEOREM Refinement == Spec => ImplementsGreedy
<1>1. Init => Greedy!Init
  BY DEF Init, Greedy!Init
<1>2. QED  BY <1>1, GreedyStep, Invariance, PTL DEF Spec, ImplementsGreedy, Greedy!Spec

\* Outside a commit the compressed state represents the tokens of the full state,
\* which are those of the output: what _assert_alignment asserts never fails.
THEOREM Alignment == Spec => []Aligned
<1>1. Init => Aligned
  BY DEF Init, Aligned
<1>2. ASSUME IInv, Aligned, [Next]_vars
      PROVE  Aligned'
  <2>1. request \in Request /\ kv \in [CacheId -> Cache] /\ full_state \in FullKVState
    BY <1>2 DEF IInv, TypeOK
  <2>2. CASE Prefill
    <3>1. PICK t \in Token :
             /\ full_state' = [full_state EXCEPT !.next_token_id = t]
             /\ Compress([kv EXCEPT !["full"] = [tokens |-> request.prompt, exact |-> TRUE]],
                         full_state')
      BY <2>2 DEF Prefill, Predictions, PrefillCache
    <3>2. full_state' \in FullKVState /\ full_state'.generated_ids = full_state.generated_ids
      BY <2>1, <3>1 DEF FullKVState
    <3>3. [kv EXCEPT !["full"] = [tokens |-> request.prompt, exact |-> TRUE]]
            \in [CacheId -> Cache]
      BY <2>1, RequestFacts DEF Cache
    <3>4. /\ compressed'.generated_ids = full_state'.generated_ids
          /\ compressed'.logical_seq_len
               = Len(request.prompt) + Len(full_state'.generated_ids)
      BY <2>1, <3>1, <3>2, <3>3, CompressFacts
    <3>5. /\ full_state.generated_ids = all_generated
          /\ all_generated' = all_generated /\ request' = request
      BY <1>2, <2>2 DEF IInv, RoundInv, Prefill, outputs
    <3>6. QED  BY <3>2, <3>4, <3>5 DEF Aligned, seq_len
  <2>3. CASE Align
    <3>1. /\ compressed'.generated_ids = full_state.generated_ids
          /\ compressed'.logical_seq_len = Len(request.prompt) + Len(full_state.generated_ids)
      BY <2>1, <2>3, CompressFacts DEF Align, UpdateAfterCommit
    <3>2. /\ full_state.generated_ids \o pending = all_generated \o committed
          /\ pending = <<>> /\ full_state.generated_ids \in Seq(Token)
      BY <1>2, <2>3 DEF IInv, TypeOK, FullKVState, CommitInv, Align
    <3>3. all_generated' = full_state.generated_ids
      BY <3>2, <2>3, ConcatEmptySeq DEF Align
    <3>4. UNCHANGED <<request, full_state>>
      BY <2>3 DEF Align
    <3>5. QED  BY <3>1, <3>3, <3>4 DEF Aligned, seq_len
  <2>4. CASE Commit
    BY <2>4 DEF Commit, Aligned
  <2>5. CASE ~(Prefill \/ Align \/ Commit)
    <3>1. /\ UNCHANGED <<request, full_state, compressed, all_generated>>
          /\ pc' \notin {"prefill", "commit", "align"}
               => pc \notin {"prefill", "commit", "align"}
      BY <1>2, <2>5 DEF Next, Step, Ended, vars, outputs, BeginRound, DraftLast,
         DraftForward, DraftOutOfVocabulary, VerifySpanBatched, BeginVerify, CompareLast,
         CompareForward, Decide, Notify, NotifyRaises, Return
    <3>2. QED  BY <1>2, <3>1 DEF Aligned, seq_len
  <2>6. QED  BY <2>2, <2>3, <2>4, <2>5
<1>3. QED  BY <1>1, <1>2, Invariance, PTL DEF Spec

-----------------------------------------------------------------------------
(***************************************************************************)
(* The rounds: what their traces report, and how each kind of compressor   *)
(* fares in them.                                                          *)
(*                                                                         *)
(* RoundsInv strengthens the invariant with what a compressor passes on to *)
(* a round's draft: the first token it drafts, and for NoOp all of them,   *)
(* which are then the full model's own.                                    *)
(***************************************************************************)

(* The invariant of the rounds *)

\* A draft of the full model.
GreedyDraft(d) == \A i \in 1..Len(d) : d[i] = FullNext(Ctx \o SubSeq(d, 1, i - 1))

\* The compressed state is that of the full one.
StateInv ==
    pc \notin {"prefill", "commit", "align"} =>
        /\ compressed.next_token_id
              \in CompressedNext(request.compressor, full_state.next_token_id)
        /\ request.compressor = "noop" => compressed.data = "full"

\* A draft starts with the token passed on; NoOp's goes on as the full model does.
FirstInv ==
    Drafting =>
        LET d == draft.token_ids
            first == IF d = <<>> THEN draft.current ELSE d[1]
        IN  /\ pc = "draft" \/ d # <<>> =>
                  first \in CompressedNext(request.compressor, full_state.next_token_id)
            /\ request.compressor = "noop" =>
                  /\ GreedyDraft(d)
                  /\ pc = "draft" =>
                        /\ kv["draft"] = [tokens |-> Ctx \o d, exact |-> TRUE]
                        /\ draft.current = FullNext(Ctx \o d)

\* What AcceptanceByKind says of one round.
KindHolds(kind, accepted, correction, drafted) ==
    CASE kind = "noop" -> correction = <<>> /\ Len(accepted) = drafted
      [] kind = "lossy" -> accepted # <<>>
      [] kind = "debug_noise" -> accepted = <<>>
      [] OTHER -> accepted \o correction # <<>>

RoundOutcomeInv ==
    pc \in {"commit", "align"} =>
        /\ CommittedBy(acceptance) = committed
        /\ KindHolds(request.compressor, acceptance.accepted_tokens,
                     acceptance.correction_token, Len(draft.token_ids))

VerificationTrace == [ drafted : Nat, accepted : Seq(TokenId), correction : Seq(Token),
                       seq_len_before : Nat, seq_len_after : Nat ]

\* The traces' ends are those of rounds of the output.
TraceInv ==
    /\ traces \in Seq(VerificationTrace)
    /\ \A i \in 1..Len(traces) :
          LET start == IF i = 1 THEN Len(request.prompt) ELSE traces[i - 1].seq_len_after
          IN  /\ TraceFits(traces[i], start)
              /\ Len(request.prompt) <= start
              /\ traces[i].seq_len_after <= Len(request.prompt) + Len(all_generated)
    /\ Len(request.prompt) + Len(all_generated)
          = IF traces = <<>> THEN Len(request.prompt) ELSE traces[Len(traces)].seq_len_after

TotalsInv ==
    totals.accepted + totals.corrections =
        Len(all_generated) + (IF pc \in {"commit", "align"}
                              THEN Len(acceptance.correction_token) ELSE 0)

KindInv ==
    \A i \in 1..Len(traces) :
        KindHolds(request.compressor, traces[i].accepted, traces[i].correction,
                  traces[i].drafted)

RoundsInv ==
    /\ StateInv /\ FirstInv /\ RoundOutcomeInv
    /\ TraceInv /\ TotalsInv /\ KindInv

-----------------------------------------------------------------------------
(* The steps that leave most of it alone *)

\* The traces and the totals change in Decide and Align only.
LEMMA HistoryFrame ==
    ASSUME RoundsInv, UNCHANGED <<request, all_generated, totals, traces>>
    PROVE  /\ TraceInv' /\ KindInv'
           /\ {pc, pc'} \intersect {"commit", "align"} = {} => TotalsInv'
<1>1. TraceInv' /\ KindInv'
  BY DEF RoundsInv, TraceInv, KindInv, TraceFits
<1>2. QED  BY <1>1 DEF RoundsInv, TotalsInv

LEMMA RoundsInit == Init => RoundsInv
<1> SUFFICES ASSUME Init
             PROVE  RoundsInv
  OBVIOUS
<1>1. Len(all_generated) = 0 /\ traces = <<>> /\ Len(traces) = 0 /\ pc = "prefill"
  BY DEF Init
<1>2. request.prompt \in Seq(Token) /\ Len(request.prompt) \in Nat
  BY ConstantsOK, LenProperties DEF Init
<1>3. TraceInv
  BY <1>1, <1>2 DEF TraceInv
<1>4. TotalsInv /\ KindInv
  BY <1>1 DEF Init, TotalsInv, KindInv
<1>5. StateInv /\ FirstInv /\ RoundOutcomeInv
  BY <1>1 DEF StateInv, FirstInv, RoundOutcomeInv, Drafting
<1>6. QED  BY <1>3, <1>4, <1>5 DEF RoundsInv

LEMMA RoundsPrefill == IInv /\ RoundsInv /\ Prefill => RoundsInv'
<1> SUFFICES ASSUME IInv, RoundsInv, Prefill
             PROVE  RoundsInv'
  OBVIOUS
<1>1. pc = "prefill" /\ pc' = "round" /\ UNCHANGED <<request, all_generated, totals, traces>>
  BY DEF Prefill, outputs
<1>2. StateInv'
  BY <1>1 DEF Prefill, Compress, StateInv, IInv, TypeOK, FullKVState
<1>3. FirstInv' /\ RoundOutcomeInv'
  BY <1>1 DEF FirstInv, RoundOutcomeInv, Drafting
<1>4. QED  BY <1>1, <1>2, <1>3, HistoryFrame DEF RoundsInv

LEMMA RoundsBegin == IInv /\ RoundsInv /\ BeginRound => RoundsInv'
<1> SUFFICES ASSUME IInv, RoundsInv, BeginRound
             PROVE  RoundsInv'
  OBVIOUS
<1>1. /\ pc = "round" /\ pc' \in {"draft", "span", "verify"}
      /\ UNCHANGED <<request, full_state, compressed, acceptance, all_generated, totals, traces>>
      /\ kv' = [kv EXCEPT !["draft"] = kv[compressed.data]]
      /\ draft'.token_ids = <<>> /\ draft'.current = compressed.next_token_id
  BY DEF BeginRound, outputs, AfterDraft, DraftCache, MaterializeForDraft
<1>2. StateInv' /\ RoundOutcomeInv'
  BY <1>1 DEF RoundsInv, StateInv, RoundOutcomeInv
<1>3. /\ compressed.next_token_id \in CompressedNext(request.compressor, full_state.next_token_id)
      /\ request.compressor = "noop" => compressed.data = "full"
  BY <1>1 DEF RoundsInv, StateInv
<1>4. /\ kv["full"] = [tokens |-> Ctx, exact |-> TRUE] /\ full_state.next_token_id = FullNext(Ctx)
      /\ Ctx \in Seq(Token)
  <2>1. ~EndsWithEos(full_state.generated_ids) /\ full_state.past_key_values = "full"
    BY <1>1 DEF BeginRound, IInv, RoundInv, TypeOK, FullKVState
  <2>2. Ctx \in Seq(Token)
    BY RequestFacts, ConcatProperties DEF IInv, TypeOK, FullKVState, Ctx
  <2>3. QED  BY <1>1, <2>1, <2>2 DEF IInv, CacheInv, AuthoritativeCache, WithoutEos, Ctx
<1>5. FirstInv'
  <2>1. Ctx' = Ctx /\ Ctx \o <<>> = Ctx
    BY <1>1, <1>4, ConcatEmptySeq DEF Ctx
  <2>2. request.compressor = "noop" => /\ kv'["draft"] = [tokens |-> Ctx \o <<>>, exact |-> TRUE]
                                       /\ draft'.current = FullNext(Ctx \o <<>>)
    BY <1>1, <1>3, <1>4, <2>1 DEF CompressedNext, IInv, TypeOK, CacheId
  <2>3. GreedyDraft(<<>>)'
    BY DEF GreedyDraft
  <2>4. QED  BY <1>1, <1>3, <2>1, <2>2, <2>3 DEF FirstInv
<1>6. QED  BY <1>1, <1>2, <1>5, HistoryFrame DEF RoundsInv

-----------------------------------------------------------------------------
(* Drafting and verifying *)

\* One token more of a full model's draft.
LEMMA GreedyDraftAppend ==
    ASSUME NEW d \in Seq(TokenId), NEW t \in TokenId, GreedyDraft(d), t = FullNext(Ctx \o d)
    PROVE  GreedyDraft(Append(d, t))
<1>1. /\ Append(d, t) \in Seq(TokenId) /\ Len(d) \in Nat
      /\ Len(Append(d, t)) = Len(d) + 1 /\ Append(d, t)[Len(d) + 1] = t
      /\ \A i \in 1..Len(d) : Append(d, t)[i] = d[i]
  BY AppendProperties, LenProperties
<1>2. \A k \in 0..Len(d) : SubSeq(Append(d, t), 1, k) = SubSeq(d, 1, k)
  <2>1. SUFFICES ASSUME NEW k \in 0..Len(d)
                 PROVE  SubSeq(Append(d, t), 1, k) = SubSeq(d, 1, k)
    OBVIOUS
  <2>2. /\ k \in Nat /\ k <= Len(Append(d, t)) /\ k <= Len(d)
        /\ \A i \in 1..k : Append(d, t)[i] = d[i]
    BY <1>1
  <2>3. QED  BY <1>1, <2>2, SamePrefix
<1>3. ASSUME NEW i \in 1..Len(Append(d, t))
      PROVE  Append(d, t)[i] = FullNext(Ctx \o SubSeq(Append(d, t), 1, i - 1))
  <2>1. i - 1 \in 0..Len(d)
    BY <1>1
  <2>2. CASE i = Len(d) + 1
    <3>1. i - 1 = Len(d) /\ SubSeq(d, 1, Len(d)) = d
      BY <1>1, <2>2, SubSeqFull
    <3>2. QED  BY <1>1, <1>2, <2>1, <2>2, <3>1
  <2>3. CASE i \in 1..Len(d)
    BY <1>1, <1>2, <2>1, <2>3 DEF GreedyDraft
  <2>4. QED  BY <1>1, <2>2, <2>3
<1>4. QED  BY <1>3 DEF GreedyDraft

LEMMA RoundsDraftLast == IInv /\ RoundsInv /\ DraftLast => RoundsInv'
<1> SUFFICES ASSUME IInv, RoundsInv, DraftLast
             PROVE  RoundsInv'
  OBVIOUS
<1> DEFINE d == draft.token_ids
<1>1. /\ pc = "draft" /\ pc' \in {"span", "verify"}
      /\ UNCHANGED <<request, full_state, compressed, acceptance, all_generated, totals, traces>>
      /\ draft'.token_ids = Append(d, draft.current)
      /\ d \in Seq(TokenId) /\ draft.current \in TokenId
  BY DEF DraftLast, outputs, AfterDraft, IInv, TypeOK
<1>2. StateInv' /\ RoundOutcomeInv'
  BY <1>1 DEF RoundsInv, StateInv, RoundOutcomeInv
<1>3. /\ Append(d, draft.current) # <<>> /\ Len(d) \in Nat
      /\ Append(d, draft.current)[1] = IF d = <<>> THEN draft.current ELSE d[1]
  <2> HIDE DEF d
  <2>1. /\ Len(d) \in Nat /\ Append(d, draft.current) # <<>>
        /\ Append(d, draft.current)[Len(d) + 1] = draft.current
        /\ \A i \in 1..Len(d) : Append(d, draft.current)[i] = d[i]
        /\ d = <<>> => Len(d) = 0
        /\ d # <<>> => Len(d) > 0
    BY <1>1, AppendProperties, LenProperties, EmptySeq
  <2>2. QED  BY <2>1
<1>4. FirstInv'
  <2>1. Ctx' = Ctx
    BY <1>1 DEF Ctx
  <2>2. /\ (IF d = <<>> THEN draft.current ELSE d[1])
              \in CompressedNext(request.compressor, full_state.next_token_id)
        /\ request.compressor = "noop" => GreedyDraft(d) /\ draft.current = FullNext(Ctx \o d)
    BY <1>1 DEF RoundsInv, FirstInv, Drafting
  <2>3. request.compressor = "noop" => GreedyDraft(Append(d, draft.current))
    <3> HIDE DEF d
    <3>1. QED  BY <1>1, <2>2, GreedyDraftAppend
  <2>4. request.compressor = "noop" => GreedyDraft(draft.token_ids)'
    BY <1>1, <2>1, <2>3 DEF GreedyDraft
  <2>5. QED  BY <1>1, <1>3, <2>1, <2>2, <2>4 DEF FirstInv
<1>5. QED  BY <1>1, <1>2, <1>4, HistoryFrame DEF RoundsInv

LEMMA RoundsDraftForward == IInv /\ RoundsInv /\ DraftForward => RoundsInv'
<1> SUFFICES ASSUME IInv, RoundsInv, DraftForward
             PROVE  RoundsInv'
  OBVIOUS
<1> DEFINE d == draft.token_ids
<1>1. PICK t \in Predictions(kv'[draft.cache]) :
         draft' = [draft EXCEPT !.token_ids = Append(@, draft.current), !.current = t]
  BY DEF DraftForward
<1>2. /\ pc = "draft" /\ pc' = "draft"
      /\ UNCHANGED <<request, full_state, compressed, acceptance, all_generated, totals, traces>>
      /\ draft'.token_ids = Append(d, draft.current) /\ draft'.current = t
      /\ draft.cache = "draft" /\ kv' = [kv EXCEPT !["draft"] = Extended(kv["draft"], draft.current)]
      /\ d \in Seq(TokenId) /\ draft.current \in TokenId /\ kv \in [CacheId -> Cache]
  BY <1>1 DEF DraftForward, outputs, IInv, TypeOK
<1>3. StateInv' /\ RoundOutcomeInv'
  BY <1>2 DEF RoundsInv, StateInv, RoundOutcomeInv
<1>4. /\ Append(d, draft.current) # <<>> /\ Len(d) \in Nat
      /\ Append(d, draft.current)[1] = IF d = <<>> THEN draft.current ELSE d[1]
  <2> HIDE DEF d
  <2>1. /\ Len(d) \in Nat /\ Append(d, draft.current) # <<>>
        /\ Append(d, draft.current)[Len(d) + 1] = draft.current
        /\ \A i \in 1..Len(d) : Append(d, draft.current)[i] = d[i]
        /\ d = <<>> => Len(d) = 0
        /\ d # <<>> => Len(d) > 0
    BY <1>2, AppendProperties, LenProperties, EmptySeq
  <2>2. QED  BY <2>1
<1>5. FirstInv'
  <2>1. Ctx' = Ctx
    BY <1>2 DEF Ctx
  <2>2. /\ (IF d = <<>> THEN draft.current ELSE d[1])
              \in CompressedNext(request.compressor, full_state.next_token_id)
        /\ request.compressor = "noop" =>
              /\ GreedyDraft(d) /\ draft.current = FullNext(Ctx \o d)
              /\ kv["draft"] = [tokens |-> Ctx \o d, exact |-> TRUE]
    BY <1>2 DEF RoundsInv, FirstInv, Drafting
  <2>3. ASSUME request.compressor = "noop"
        PROVE  /\ GreedyDraft(Append(d, draft.current))
               /\ kv'["draft"] = [tokens |-> Ctx \o Append(d, draft.current), exact |-> TRUE]
               /\ t = FullNext(Ctx \o Append(d, draft.current))
    <3>1. Ctx \in Seq(TokenId)
      <4>1. Ctx \in Seq(Token)
        BY RequestFacts, ConcatProperties DEF IInv, TypeOK, FullKVState, Ctx
      <4>2. QED  BY <4>1, TokenFacts, SeqMonotonic
    <3>2. kv'["draft"] = Extended(kv["draft"], draft.current)
      BY <1>2 DEF CacheId
    <3>3. t \in Predictions(kv'["draft"])
      BY <1>2
    <3> DEFINE e == draft.current
               s == Ctx \o d
    <3>4. GreedyDraft(d) /\ e = FullNext(s) /\ kv["draft"] = [tokens |-> s, exact |-> TRUE]
      BY <2>2, <2>3
    <3>5. d \in Seq(TokenId) /\ e \in TokenId
      BY <1>2
    <3>6. Ctx \o Append(d, e) = Append(s, e)
      <4> HIDE DEF d, e
      <4>1. QED  BY <3>1, <3>5, ConcatAppend
    <3>7. GreedyDraft(Append(d, e))
      <4> HIDE DEF d, e
      <4>1. QED  BY <3>4, <3>5, GreedyDraftAppend
    <3>8. kv'["draft"] = [tokens |-> Append(s, e), exact |-> TRUE]
      <4> HIDE DEF s, e
      <4>1. Extended([tokens |-> s, exact |-> TRUE], e) = [tokens |-> Append(s, e), exact |-> TRUE]
        BY ExtendedCache
      <4>2. kv'["draft"] = Extended(kv["draft"], e)
        BY <3>2 DEF e
      <4>3. QED  BY <3>4, <4>1, <4>2
    <3>9. t = FullNext(Append(s, e))
      <4> DEFINE w == Append(s, e)
      <4>1. kv'["draft"] = [tokens |-> w, exact |-> TRUE]
        BY <3>8
      <4> HIDE DEF w
      <4>2. kv'["draft"].exact /\ kv'["draft"].tokens = w
        BY <4>1
      <4>3. t = FullNext(w)
        BY <3>3, <4>2 DEF Predictions
      <4>4. QED  BY <4>3 DEF w
    <3>10. QED  BY <3>6, <3>7, <3>8, <3>9
  <2>4. request.compressor = "noop" => GreedyDraft(draft.token_ids)'
    BY <1>2, <2>1, <2>3 DEF GreedyDraft
  <2>5. QED  BY <1>2, <1>4, <2>1, <2>2, <2>3, <2>4 DEF FirstInv
<1>6. QED  BY <1>2, <1>3, <1>5, HistoryFrame DEF RoundsInv

LEMMA RoundsVerify ==
    IInv /\ RoundsInv /\ (VerifySpanBatched \/ BeginVerify \/ CompareLast \/ CompareForward)
        => RoundsInv'
<1> SUFFICES ASSUME IInv, RoundsInv,
                    VerifySpanBatched \/ BeginVerify \/ CompareLast \/ CompareForward
             PROVE  RoundsInv'
  OBVIOUS
<1>1. /\ pc \in {"span", "verify", "compare"} /\ pc' \in {"verify", "compare", "decide"}
      /\ UNCHANGED <<request, full_state, compressed, draft, acceptance, all_generated,
                     totals, traces>>
  BY DEF VerifySpanBatched, BeginVerify, CompareLast, CompareForward, outputs
<1>2. StateInv' /\ RoundOutcomeInv'
  BY <1>1 DEF RoundsInv, StateInv, RoundOutcomeInv
<1>3. FirstInv'
  BY <1>1 DEF RoundsInv, FirstInv, Drafting, GreedyDraft, Ctx
<1>4. QED  BY <1>1, <1>2, <1>3, HistoryFrame DEF RoundsInv

-----------------------------------------------------------------------------
(* Deciding *)

\* debug_noise's next token is never the one it was made from.
LEMMA NoiseDiffers ==
    ASSUME NEW a \in Nat, NEW w \in Nat \ {0, 1}
    PROVE  (a + 1) % w # a
<1>1. (a + 1) % w \in 0..(w - 1)
  OBVIOUS
<1>2. CASE a + 1 < w
  <2>1. (a + 1) % w = a + 1
    BY <1>2
  <2>2. QED  BY <2>1
<1>3. CASE a + 1 = w
  <2>1. w % w = 0
    OBVIOUS
  <2>2. QED  BY <1>3, <2>1
<1>4. CASE a + 1 > w
  BY <1>1, <1>4
<1>5. QED  BY <1>2, <1>3, <1>4

\* What verification decides of a draft, in the terms of AcceptanceByKind.
LEMMA DecideOutcome ==
    ASSUME IInv, RoundsInv, pc = "decide"
    PROVE  /\ CommittedBy(Verified) = verifier.tokens
           /\ Verified.accepted_tokens \in Seq(TokenId)
           /\ Verified.correction_token \in Seq(Token)
           /\ verifier.tokens # <<>> =>
                 KindHolds(request.compressor, Verified.accepted_tokens,
                           Verified.correction_token, Len(draft.token_ids))
<1> DEFINE d == draft.token_ids
           v == verifier.tokens
           a == compute_acceptance(d, v)
           m == MatchLen(d, v)
           next == full_state.next_token_id
<1>1. /\ d \in Seq(TokenId) /\ v \in Seq(Token) /\ Len(d) \in Nat /\ Len(v) \in Nat
      /\ Ctx \in Seq(Token) /\ next \in Token
  <2>1. Ctx \in Seq(Token)
    BY RequestFacts, ConcatProperties DEF IInv, TypeOK, FullKVState, Ctx
  <2>2. QED  BY <2>1, LenProperties DEF IInv, TypeOK, FullKVState
<1>2. /\ \A i \in 1..Len(v) : v[i] = FullNext(Ctx \o SubSeq(d, 1, i - 1))
      /\ Answers(v, d)
  BY <1>1 DEF IInv, VerifyInv, Answers
<1>3. Verified = a
  BY RequestFacts DEF Verified, IInv, TypeOK
<1>4. CommittedBy(a) = v /\ a \in AcceptanceResult
  <2> HIDE DEF d, v
  <2>1. QED  BY <1>1, <1>2, CommittedIsAnswer DEF a
<1>5. m = IF v # <<>> /\ d[Len(v)] # v[Len(v)] THEN Len(v) - 1 ELSE Len(v)
  <2>1. d \in Seq(Int) /\ v \in Seq(Int)
    BY <1>1, TokenFacts, SeqMonotonic
  <2> HIDE DEF d, v
  <2>2. QED  BY <1>2, <2>1, MatchLenOfAnswer DEF m
<1>6. /\ v # <<>> => Len(v) > 0
      /\ v = <<>> => Len(v) = 0
      /\ CommonLen(d, v) = Len(v) /\ m \in 0..Len(v) /\ Len(v) <= Len(d)
  BY <1>1, <1>2, <1>5, EmptySeq DEF CommonLen, Smaller, Answers
<1>7. /\ a.accepted_tokens = SubSeq(d, 1, m)
      /\ a.correction_token = IF m < Len(v) THEN <<v[m + 1]>> ELSE <<>>
  BY <1>6 DEF compute_acceptance
<1>8. Len(SubSeq(d, 1, m)) = m
  <2> HIDE DEF m, d, v
  <2>1. \A i \in 1..m : d[i] \in TokenId
    BY <1>1, <1>6, ElementOfSeq
  <2>2. QED  BY <2>1, <1>6, SubSeqProperties
<1>9. v # <<>> =>
        /\ d # <<>> /\ v[1] = next
        /\ d[1] \in CompressedNext(request.compressor, next)
  <2>1. SUFFICES ASSUME v # <<>>
                 PROVE  /\ d # <<>> /\ v[1] = next
                        /\ d[1] \in CompressedNext(request.compressor, next)
    OBVIOUS
  <2>2. Len(d) > 0 /\ d # <<>>
    BY <2>1, <1>1, <1>6, EmptySeq
  <2>3. Ctx \o SubSeq(d, 1, 0) = Ctx
    BY <1>1, SubSeqEmpty, ConcatEmptySeq
  <2>4. v[1] = FullNext(Ctx)
    <3> HIDE DEF d, v
    <3>1. 1 \in 1..Len(v) /\ 1 - 1 = 0
      BY <2>1, <1>1, <1>6
    <3>2. v[1] = FullNext(Ctx \o SubSeq(d, 1, 1 - 1))
      BY <3>1, <1>2
    <3>3. QED  BY <3>1, <3>2, <2>3
  <2>5. next = FullNext(Ctx)
    BY DEF IInv, CacheInv, RoundInv, Drafting
  <2>6. d[1] \in CompressedNext(request.compressor, next)
    BY <2>2 DEF RoundsInv, FirstInv, Drafting
  <2>7. QED  BY <2>2, <2>4, <2>5, <2>6
<1>10. ASSUME v # <<>>
       PROVE  KindHolds(request.compressor, a.accepted_tokens, a.correction_token, Len(d))
  <2>1. CASE request.compressor = "noop"
    <3>1. GreedyDraft(d)
      BY <2>1 DEF RoundsInv, FirstInv, Drafting
    <3>2. \A i \in 1..Len(v) : d[i] = v[i]
      <4>1. \A i \in 1..Len(d) : d[i] = FullNext(Ctx \o SubSeq(d, 1, i - 1))
        BY <3>1 DEF GreedyDraft
      <4> HIDE DEF d, v
      <4>2. QED  BY <4>1, <1>1, <1>2, <1>6
    <3>3. m = Len(v) /\ Len(v) = Len(d)
      <4> HIDE DEF m, d, v
      <4>1. Len(v) \in 1..Len(v) /\ d[Len(v)] = v[Len(v)]
        BY <3>2, <1>1, <1>6, <1>10
      <4>2. QED  BY <4>1, <1>2, <1>5, <1>9, <1>10 DEF Answers
    <3>4. a.correction_token = <<>> /\ Len(a.accepted_tokens) = Len(d)
      <4> HIDE DEF m, d, v, a
      <4>1. QED  BY <3>3, <1>1, <1>7, <1>8
    <3>5. QED  BY <2>1, <3>4 DEF KindHolds
  <2>2. CASE request.compressor = "lossy"
    <3>1. d[1] = v[1]
      BY <2>2, <1>9, <1>10 DEF CompressedNext
    <3>2. m > 0
      <4> HIDE DEF m, d, v
      <4>1. QED  BY <3>1, <1>1, <1>5, <1>6, <1>10
    <3>3. a.accepted_tokens # <<>>
      <4> HIDE DEF m, d, v, a
      <4>1. Len(a.accepted_tokens) = m
        BY <1>7, <1>8
      <4>2. QED  BY <3>2, <4>1, EmptySeq
    <3>4. QED  BY <2>2, <3>3 DEF KindHolds
  <2>3. CASE request.compressor = "debug_noise"
    <3>1. d[1] # v[1]
      <4>1. next \in Nat /\ d[1] = (next + 1) % WrongModulus /\ v[1] = next
        BY <2>3, <1>1, <1>9, <1>10, ModelOK DEF CompressedNext, Token
      <4> HIDE DEF next, d, v
      <4>2. QED  BY <4>1, ModelOK, NoiseDiffers
    <3>2. m = 0
      <4> HIDE DEF m, d, v
      <4>1. Len(v) = 1
        BY <3>1, <1>1, <1>2, <1>6, <1>10 DEF Answers
      <4>2. QED  BY <3>1, <4>1, <1>5, <1>10
    <3>3. a.accepted_tokens = <<>>
      <4> HIDE DEF m, a
      <4>1. QED  BY <3>2, <1>1, <1>7, SubSeqEmpty
    <3>4. QED  BY <2>3, <3>3 DEF KindHolds
  <2>4. CASE request.compressor \notin {"noop", "lossy", "debug_noise"}
    BY <2>4, <1>4, <1>10 DEF KindHolds, CommittedBy
  <2>5. QED  BY <2>1, <2>2, <2>3, <2>4
<1>11. QED  BY <1>3, <1>4, <1>10 DEF AcceptanceResult

LEMMA RoundsDecide == IInv /\ RoundsInv /\ Decide => RoundsInv'
<1> SUFFICES ASSUME IInv, RoundsInv, Decide
             PROVE  RoundsInv'
  OBVIOUS
<1> DEFINE v == verifier.tokens
           a == Verified
<1>1. /\ CommittedBy(a) = v
      /\ a.accepted_tokens \in Seq(TokenId) /\ a.correction_token \in Seq(Token)
      /\ v # <<>> => KindHolds(request.compressor, a.accepted_tokens,
                               a.correction_token, Len(draft.token_ids))
      /\ TruncateAtEos(v) = v
  <2>1. TruncateAtEos(CommittedBy(a)) = v
    BY DecideFacts DEF Decide
  <2> HIDE DEF v, a
  <2>2. QED  BY <2>1, DecideOutcome DEF Decide, v, a
<1> HIDE DEF v, a
<1>2. /\ pc = "decide" /\ acceptance' = a /\ committed' = v
      /\ totals' = [totals EXCEPT !.corrections = @ + Len(a.correction_token)]
      /\ pc' = IF v = <<>> THEN "round" ELSE "commit"
      /\ UNCHANGED <<request, full_state, compressed, draft, all_generated, traces>>
  BY <1>1 DEF Decide, a
<1>3. StateInv' /\ FirstInv' /\ KindInv' /\ TraceInv'
  BY <1>2 DEF RoundsInv, StateInv, FirstInv, Drafting, KindInv, TraceInv, TraceFits
<1>4. RoundOutcomeInv'
  <2>1. pc' \in {"commit", "align"} => v # <<>>
    BY <1>2
  <2>2. QED  BY <2>1, <1>1, <1>2 DEF RoundOutcomeInv
<1>5. TotalsInv'
  <2>1. /\ totals \in [accepted : Nat, rejected : Nat, corrections : Nat]
        /\ Len(a.correction_token) \in Nat /\ Len(a.accepted_tokens) \in Nat
        /\ Len(all_generated) \in Nat
    BY <1>1, LenProperties DEF IInv, TypeOK
  <2>2. totals.accepted + totals.corrections = Len(all_generated)
    BY <1>2, <2>1 DEF RoundsInv, TotalsInv
  <2>3. totals'.accepted + totals'.corrections = Len(all_generated) + Len(a.correction_token)
    BY <1>2, <2>1, <2>2
  <2>4. v = <<>> => Len(a.correction_token) = 0
    <3>1. a.correction_token # <<>> => a.accepted_tokens \o a.correction_token # <<>>
      <4>1. /\ a.accepted_tokens \in Seq(TokenId) /\ a.correction_token \in Seq(TokenId)
        BY <1>1, TokenFacts, SeqMonotonic
      <4>2. QED  BY <4>1
    <3>2. QED  BY <3>1, <1>1, EmptySeq DEF CommittedBy
  <2>5. QED  BY <1>2, <2>1, <2>3, <2>4 DEF TotalsInv
<1>6. QED  BY <1>3, <1>4, <1>5 DEF RoundsInv

-----------------------------------------------------------------------------
(* Committing and aligning *)

LEMMA RoundsCommit == IInv /\ RoundsInv /\ Commit => RoundsInv'
<1> SUFFICES ASSUME IInv, RoundsInv, Commit
             PROVE  RoundsInv'
  OBVIOUS
<1>1. /\ pc = "commit" /\ pc' \in {"commit", "align"}
      /\ UNCHANGED <<request, compressed, draft, acceptance, committed,
                     all_generated, totals, traces>>
  BY DEF Commit, outputs
<1>2. StateInv' /\ FirstInv'
  BY <1>1 DEF StateInv, FirstInv, Drafting
<1>3. RoundOutcomeInv' /\ TotalsInv'
  BY <1>1 DEF RoundsInv, RoundOutcomeInv, TotalsInv
<1>4. QED  BY <1>1, <1>2, <1>3, HistoryFrame DEF RoundsInv

\* The end of s \o t.
LEMMA SuffixOfConcat ==
    ASSUME NEW S, NEW s \in Seq(S), NEW t \in Seq(S), t # <<>>
    PROVE  SubSeq(s \o t, Len(s) + 1, Len(s) + Len(t)) = t
<1>1. Len(s) \in Nat /\ Len(t) \in Nat \ {0}
  BY LenProperties, EmptySeq
<1>2. /\ Len(s) + 1 \in (Len(s) + 1)..(Len(s) + Len(t))
      /\ Len(s) + Len(t) \in (Len(s) + 1)..(Len(s) + Len(t))
      /\ (Len(s) + 1) - Len(s) = 1 /\ (Len(s) + Len(t)) - Len(s) = Len(t)
  BY <1>1
<1>3. SubSeq(s \o t, Len(s) + 1, Len(s) + Len(t)) = SubSeq(t, 1, Len(t))
  BY <1>2, SubSeqOfConcat2
<1>4. QED  BY <1>3, SubSeqFull

\* A part of s \o t that lies in s.
LEMMA PartInConcat ==
    ASSUME NEW S, NEW s \in Seq(S), NEW t \in Seq(S), NEW j \in Nat \ {0}, NEW k \in Nat,
           k <= Len(s)
    PROVE  SubSeq(s \o t, j, k) = SubSeq(s, j, k)
<1>1. CASE k < j
  BY <1>1, SubSeqEmpty
<1>2. CASE j <= k
  <2>1. j \in 1..Len(s) /\ k \in 1..Len(s)
    BY <1>2, LenProperties
  <2>2. QED  BY <2>1, SubSeqOfConcat1
<1>3. QED  BY <1>1, <1>2

LEMMA RoundsAlign == IInv /\ RoundsInv /\ Align => RoundsInv'
<1> SUFFICES ASSUME IInv, RoundsInv, Align
             PROVE  RoundsInv'
  OBVIOUS
<1> DEFINE total == all_generated \o committed
           a == acceptance
           trace == [ drafted        |-> Len(draft.token_ids),
                      accepted       |-> a.accepted_tokens,
                      correction     |-> a.correction_token,
                      seq_len_before |-> Len(request.prompt) + Len(all_generated),
                      seq_len_after  |-> seq_len ]
           P == Len(request.prompt)
           G == Len(all_generated)
<1>1. /\ pc = "align" /\ pc' = "notify" /\ all_generated' = total
      /\ UNCHANGED <<request, full_state>>
      /\ traces' = Append(traces, trace)
      /\ totals' = [totals EXCEPT !.accepted = @ + Len(a.accepted_tokens),
                                  !.rejected = @ + Len(a.rejected_tokens)]
  BY DEF Align
<1>2. /\ a.accepted_tokens \in Seq(TokenId) /\ a.correction_token \in Seq(Token)
      /\ a.correction_token \in Seq(TokenId)
      /\ Len(a.accepted_tokens) \in Nat /\ Len(a.correction_token) \in Nat
      /\ all_generated \in Seq(Token) /\ committed \in Seq(Token) /\ committed # <<>>
      /\ P \in Nat /\ G \in Nat /\ Len(committed) \in Nat \ {0} /\ Len(draft.token_ids) \in Nat
      /\ full_state.generated_ids \in Seq(Token)
      /\ totals \in [accepted : Nat, rejected : Nat, corrections : Nat]
  <2>1. a.correction_token \in Seq(TokenId)
    BY TokenFacts, SeqMonotonic DEF IInv, TypeOK, AcceptanceResult
  <2>2. committed # <<>>
    BY <1>1 DEF IInv, CommitInv
  <2>3. QED  BY <2>1, <2>2, LenProperties, EmptySeq, RequestFacts
             DEF IInv, TypeOK, AcceptanceResult, FullKVState
<1>3. /\ a.accepted_tokens \o a.correction_token = committed
      /\ Len(committed) = Len(a.accepted_tokens) + Len(a.correction_token)
      /\ KindHolds(request.compressor, a.accepted_tokens, a.correction_token,
                   Len(draft.token_ids))
  <2>1. /\ a.accepted_tokens \o a.correction_token = committed
        /\ KindHolds(request.compressor, a.accepted_tokens, a.correction_token,
                     Len(draft.token_ids))
    BY <1>1 DEF RoundsInv, RoundOutcomeInv, CommittedBy
  <2>2. Len(a.accepted_tokens \o a.correction_token)
          = Len(a.accepted_tokens) + Len(a.correction_token)
    BY <1>2, ConcatProperties
  <2>3. QED  BY <2>1, <2>2
<1>4. /\ total \in Seq(Token) /\ Len(total) = G + Len(committed)
      /\ seq_len = P + Len(total)
  <2>1. full_state.generated_ids \o <<>> = full_state.generated_ids
    BY <1>2, ConcatEmptySeq
  <2>2. full_state.generated_ids = total
    BY <2>1, <1>1 DEF IInv, CommitInv
  <2>3. QED  BY <2>2, <1>2, ConcatProperties DEF seq_len
<1>5. StateInv'
  <2>1. full_state.past_key_values = "full"
    BY DEF IInv, TypeOK, FullKVState
  <2>2. /\ compressed'.next_token_id
             \in CompressedNext(request.compressor, full_state.next_token_id)
        /\ request.compressor = "noop" => compressed'.data = "full"
    BY <2>1 DEF Align, UpdateAfterCommit, Compress
  <2>3. QED  BY <2>2, <1>1 DEF StateInv
<1>6. FirstInv' /\ RoundOutcomeInv'
  BY <1>1 DEF FirstInv, RoundOutcomeInv, Drafting
<1>7. TotalsInv'
  <2>1. totals.accepted + totals.corrections = G + Len(a.correction_token)
    BY <1>1 DEF RoundsInv, TotalsInv
  <2>2. totals'.accepted + totals'.corrections = G + Len(committed)
    <3>1. ASSUME NEW k, NEW l
          PROVE  LET t == [totals EXCEPT !.accepted = @ + k, !.rejected = l]
                 IN  t.accepted = totals.accepted + k /\ t.corrections = totals.corrections
      BY <1>2
    <3>2. /\ totals'.accepted = totals.accepted + Len(a.accepted_tokens)
          /\ totals'.corrections = totals.corrections
          /\ totals.accepted \in Nat /\ totals.corrections \in Nat
      BY <3>1, <1>1, <1>2
    <3> HIDE DEF a, G, P, total, trace
    <3>3. /\ Len(a.accepted_tokens) \in Nat /\ Len(a.correction_token) \in Nat /\ G \in Nat
          /\ Len(committed) = Len(a.accepted_tokens) + Len(a.correction_token)
      BY <1>2, <1>3
    <3>4. (totals.accepted + Len(a.accepted_tokens)) + totals.corrections
            = (totals.accepted + totals.corrections) + Len(a.accepted_tokens)
      BY <3>2, <3>3
    <3>5. (G + Len(a.correction_token)) + Len(a.accepted_tokens) = G + Len(committed)
      <4>1. (G + Len(a.correction_token)) + Len(a.accepted_tokens)
              = G + (Len(a.accepted_tokens) + Len(a.correction_token))
        <5>1. \A g, p, q \in Nat : (g + q) + p = g + (p + q)
          OBVIOUS
        <5>2. QED  BY <3>3, <5>1, Zenon
      <4>2. QED  BY <3>3, <4>1, Zenon
    <3>6. QED  BY <2>1, <3>2, <3>4, <3>5
  <2>3. QED  BY <2>2, <1>1, <1>2, <1>4 DEF TotalsInv
<1>8. /\ traces \in Seq(VerificationTrace) /\ traces' \in Seq(VerificationTrace)
      /\ Len(traces) \in Nat /\ Len(traces') = Len(traces) + 1
      /\ traces'[Len(traces) + 1] = trace
      /\ \A i \in 1..Len(traces) : traces'[i] = traces[i]
      /\ traces' # <<>>
  <2>1. traces \in Seq(VerificationTrace)
    BY DEF RoundsInv, TraceInv
  <2>2. P + G \in Nat /\ P + Len(total) \in Nat
    <3> HIDE DEF P, G, total
    <3>1. QED  BY <1>2, <1>4
  <2>3. trace \in VerificationTrace
    <3> HIDE DEF total, a
    <3>1. QED  BY <2>2, <1>2, <1>4 DEF VerificationTrace
  <2> HIDE DEF trace
  <2>4. QED  BY <2>1, <2>3, <1>1, AppendProperties, LenProperties
<1> DEFINE start(i) == IF i = 1 THEN P ELSE traces[i - 1].seq_len_after
           Fits(t, s, out) ==
               /\ t.seq_len_before = s
               /\ t.seq_len_after = s + Len(t.accepted) + Len(t.correction)
               /\ t.accepted \o t.correction = SubSeq(out, s - P + 1, t.seq_len_after - P)
<1>9. /\ \A i \in 1..Len(traces) :
            /\ Fits(traces[i], start(i), all_generated) /\ P <= start(i)
            /\ traces[i].seq_len_after <= P + G
      /\ P + G = start(Len(traces) + 1)
  <2>1. /\ \A i \in 1..Len(traces) :
              /\ TraceFits(traces[i], start(i)) /\ P <= start(i)
              /\ traces[i].seq_len_after <= P + G
        /\ P + G = IF traces = <<>> THEN P ELSE traces[Len(traces)].seq_len_after
    BY DEF RoundsInv, TraceInv
  <2>2. traces = <<>> <=> Len(traces) = 0
    BY <1>8, EmptySeq
  <2>3. (Len(traces) + 1) - 1 = Len(traces)
    BY <1>8
  <2>4. P + G = start(Len(traces) + 1)
    BY <2>1, <2>2, <2>3, <1>8
  <2>5. ASSUME NEW i \in 1..Len(traces)
        PROVE  Fits(traces[i], start(i), all_generated)
    BY <2>1 DEF TraceFits
  <2>6. QED  BY <2>1, <2>4, <2>5
<1>10. ASSUME NEW i \in 1..Len(traces)
       PROVE  Fits(traces[i], start(i), total) /\ traces[i].seq_len_after <= P + Len(total)
  <2>1. /\ traces[i] \in VerificationTrace
        /\ i = 1 \/ (i - 1 \in 1..Len(traces) /\ traces[i - 1] \in VerificationTrace)
    BY <1>8, ElementOfSeq
  <2>2. start(i) \in Nat /\ traces[i].seq_len_after \in Nat
    BY <2>1, <1>2 DEF VerificationTrace
  <2> DEFINE j == start(i) - P + 1
             k == traces[i].seq_len_after - P
  <2>3. Fits(traces[i], start(i), all_generated) /\ P <= start(i)
        /\ traces[i].seq_len_after <= P + G
    BY <1>9
  <2>4. /\ Len(traces[i].accepted) \in Nat /\ Len(traces[i].correction) \in Nat
    BY <2>1, LenProperties DEF VerificationTrace
  <2>5. j \in Nat \ {0} /\ k \in Nat /\ k <= G
    <3>1. traces[i].seq_len_after = start(i) + Len(traces[i].accepted)
                                             + Len(traces[i].correction)
      BY <2>3
    <3>2. \A b, e, p, g, x, y \in Nat :
             p <= b /\ e <= p + g /\ e = b + x + y =>
               b - p + 1 \in Nat \ {0} /\ e - p \in Nat /\ e - p <= g
      OBVIOUS
    <3> HIDE DEF start, P, G, Fits, total, trace, a
    <3>3. QED  BY <3>1, <3>2, <1>2, <2>2, <2>3, <2>4
  <2>6. SubSeq(total, j, k) = SubSeq(all_generated, j, k)
    <3> HIDE DEF j, k
    <3>1. QED  BY <2>5, <1>2, PartInConcat
  <2>7. traces[i].seq_len_after <= P + Len(total)
    <3>1. \A p, g, n, e, c \in Nat : e <= p + g /\ n = g + c => e <= p + n
      OBVIOUS
    <3> HIDE DEF P, G, total, start, Fits, trace, a
    <3>2. /\ P \in Nat /\ G \in Nat /\ Len(total) \in Nat /\ Len(committed) \in Nat
          /\ Len(total) = G + Len(committed)
      BY <1>2, <1>4
    <3>3. traces[i].seq_len_after <= P + G /\ traces[i].seq_len_after \in Nat
      BY <2>2, <2>3
    <3>4. QED  BY <3>1, <3>2, <3>3, Zenon
  <2>8. QED  BY <2>3, <2>6, <2>7
<1>11. Fits(trace, P + G, total)
  <2>1. SubSeq(total, G + 1, G + Len(committed)) = committed
    BY <1>2, SuffixOfConcat
  <2> HIDE DEF total, a
  <2>2. /\ (P + G) - P + 1 = G + 1 /\ trace.seq_len_after = P + (G + Len(committed))
        /\ (P + (G + Len(committed))) - P = G + Len(committed)
        /\ P + (G + Len(committed)) = P + G + Len(a.accepted_tokens) + Len(a.correction_token)
    <3>1. trace.seq_len_after = seq_len
      OBVIOUS
    <3> HIDE DEF P, G, trace
    <3>2. /\ Len(a.accepted_tokens) \in Nat /\ Len(a.correction_token) \in Nat
          /\ P \in Nat /\ G \in Nat
          /\ Len(committed) = Len(a.accepted_tokens) + Len(a.correction_token)
          /\ seq_len = P + Len(total) /\ Len(total) = G + Len(committed)
      BY <1>2, <1>3, <1>4
    <3>3. /\ (P + G) - P + 1 = G + 1
          /\ (P + (G + Len(committed))) - P = G + Len(committed)
      BY <3>2
    <3>4. P + (G + Len(committed))
            = P + G + Len(a.accepted_tokens) + Len(a.correction_token)
      <4>1. P + (G + (Len(a.accepted_tokens) + Len(a.correction_token)))
              = P + G + Len(a.accepted_tokens) + Len(a.correction_token)
        <5>1. \A g, p, q \in Nat : g + (p + q) = g + p + q /\ g + p \in Nat
          OBVIOUS
        <5>2. /\ G + (Len(a.accepted_tokens) + Len(a.correction_token))
                    = G + Len(a.accepted_tokens) + Len(a.correction_token)
              /\ G + Len(a.accepted_tokens) \in Nat
          BY <3>2, <5>1, Zenon
        <5>3. P + (G + Len(a.accepted_tokens) + Len(a.correction_token))
                = P + (G + Len(a.accepted_tokens)) + Len(a.correction_token)
          <6> DEFINE h == G + Len(a.accepted_tokens)
          <6>1. P \in Nat /\ Len(a.correction_token) \in Nat /\ h \in Nat
            BY <3>2, <5>2
          <6> HIDE DEF h
          <6>2. P + (h + Len(a.correction_token)) = P + h + Len(a.correction_token)
            BY <5>1, <6>1, Zenon
          <6>3. QED  BY <6>2 DEF h
        <5>4. P + (G + Len(a.accepted_tokens)) = P + G + Len(a.accepted_tokens)
          BY <3>2, <5>1, Zenon
        <5>5. QED  BY <5>2, <5>3, <5>4, Zenon
      <4>2. QED  BY <3>2, <4>1, Zenon
    <3>5. QED  BY <3>1, <3>2, <3>3, <3>4
  <2>3. /\ trace.seq_len_before = P + G
        /\ trace.accepted = a.accepted_tokens /\ trace.correction = a.correction_token
    OBVIOUS
  <2> HIDE DEF P, G, trace
  <2>4. QED  BY <2>1, <2>2, <2>3, <1>3
<1>12. TraceInv'
  <2> DEFINE startp(i) == IF i = 1 THEN P ELSE traces'[i - 1].seq_len_after
  <2>1. \A i \in 1..(Len(traces) + 1) : startp(i) = start(i)
    BY <1>8
  <2>2. trace.seq_len_after = P + Len(total) /\ P <= P + G
    BY <1>2, <1>4
  <2> HIDE DEF total, P, G, trace, start
  <2>3. ASSUME NEW i \in 1..Len(traces')
        PROVE  /\ Fits(traces'[i], startp(i), total) /\ P <= startp(i)
               /\ traces'[i].seq_len_after <= P + Len(total)
    <3>1. CASE i \in 1..Len(traces)
      <4>1. traces'[i] = traces[i] /\ startp(i) = start(i)
        BY <3>1, <1>8, <2>1
      <4> HIDE DEF startp
      <4>2. QED  BY <3>1, <4>1, <1>9, <1>10
    <3>2. CASE i = Len(traces) + 1
      <4>1. traces'[i] = trace /\ startp(i) = P + G
        BY <3>2, <1>8, <1>9, <2>1
      <4> HIDE DEF startp
      <4>2. Len(total) + P \in Int /\ P + Len(total) <= P + Len(total)
        BY <1>2, <1>4, LenProperties DEF P
      <4>3. QED  BY <4>1, <4>2, <1>11, <2>2
    <3>3. i \in 1..Len(traces) \/ i = Len(traces) + 1
      BY <1>8
    <3> HIDE DEF startp, Fits
    <3>4. QED  BY <3>1, <3>2, <3>3
  <2>4. traces'[Len(traces')].seq_len_after = P + Len(total)
    BY <2>2, <1>8
  <2> HIDE DEF startp
  <2>5. Len(request'.prompt) = P /\ all_generated' = total
    BY <1>1 DEF P, total
  <2>6. QED  BY <2>3, <2>4, <2>5, <1>8 DEF TraceInv, TraceFits, startp
<1>13. KindInv'
  <2> HIDE DEF total
  <2>1. ASSUME NEW i \in 1..Len(traces')
        PROVE  KindHolds(request.compressor, traces'[i].accepted, traces'[i].correction,
                         traces'[i].drafted)
    <3>1. CASE i \in 1..Len(traces)
      BY <3>1, <1>8 DEF RoundsInv, KindInv
    <3>2. CASE i = Len(traces) + 1
      BY <3>2, <1>3, <1>8
    <3>3. QED  BY <3>1, <3>2, <1>8
  <2>2. QED  BY <2>1, <1>1 DEF KindInv
<1>14. QED  BY <1>5, <1>6, <1>7, <1>12, <1>13 DEF RoundsInv

-----------------------------------------------------------------------------
(* The remaining steps, and the theorems *)

\* Steps that touch neither states nor records, out of a round's later phases.
LEMMA RoundsQuiet ==
    ASSUME IInv, RoundsInv,
           DraftOutOfVocabulary \/ Notify \/ NotifyRaises \/ Return
    PROVE  RoundsInv'
<1>1. /\ pc \in {"draft", "notify", "round"} /\ pc' \in {"raised", "round", "returned"}
      /\ UNCHANGED <<request, full_state, compressed, all_generated, totals, traces>>
  BY DEF DraftOutOfVocabulary, Notify, NotifyRaises, Return, outputs
<1>2. StateInv' /\ FirstInv' /\ RoundOutcomeInv'
  BY <1>1 DEF RoundsInv, StateInv, FirstInv, RoundOutcomeInv, Drafting
<1>3. QED  BY <1>1, <1>2, HistoryFrame DEF RoundsInv

LEMMA RoundsStutter == RoundsInv /\ UNCHANGED vars => RoundsInv'
<1> SUFFICES ASSUME RoundsInv, UNCHANGED vars
             PROVE  RoundsInv'
  OBVIOUS
<1> USE DEF vars, locals, outputs
<1>1. StateInv' /\ FirstInv' /\ RoundOutcomeInv' /\ TotalsInv'
  BY DEF RoundsInv, StateInv, FirstInv, RoundOutcomeInv, TotalsInv, Drafting,
         GreedyDraft, Ctx
<1>2. QED  BY <1>1, HistoryFrame DEF RoundsInv

LEMMA RoundsNext == IInv /\ RoundsInv /\ [Next]_vars => RoundsInv'
<1> SUFFICES ASSUME IInv, RoundsInv, [Next]_vars
             PROVE  RoundsInv'
  OBVIOUS
<1>1. CASE Step
  BY <1>1, RoundsPrefill, RoundsBegin, RoundsDraftLast, RoundsDraftForward, RoundsVerify,
     RoundsDecide, RoundsCommit, RoundsAlign, RoundsQuiet DEF Step
<1>2. CASE Ended \/ UNCHANGED vars
  BY <1>2, RoundsStutter DEF Ended
<1>3. QED  BY <1>1, <1>2 DEF Next

\* RoundsInv holds throughout every call of generate().
THEOREM RoundsInvariance == Spec => []RoundsInv
<1>1. Init /\ []IInv /\ [][Next]_vars => []RoundsInv
  BY RoundsInit, RoundsNext, PTL
<1>2. QED  BY <1>1, Invariance, PTL DEF Spec

\* The traces a caller gets replay the output token for token, without a gap, and
\* the totals are theirs: no truncation makes a trace and its commit differ.
THEOREM Replay == Spec => []TracesReplayOutput
<1>1. IInv /\ RoundsInv => TracesReplayOutput
  <2> SUFFICES ASSUME IInv, RoundsInv
               PROVE  TracesReplayOutput
    OBVIOUS
  <2> DEFINE n == Len(traces)
             start(i) == IF i = 1 THEN Len(request.prompt) ELSE traces[i - 1].seq_len_after
  <2>1. traces \in Seq(VerificationTrace) /\ n \in Nat /\ Len(all_generated) \in Nat
    BY LenProperties DEF RoundsInv, TraceInv, IInv, TypeOK
  <2>2. \A i \in 1..n : TraceFits(traces[i], start(i))
    BY DEF RoundsInv, TraceInv
  <2>3. start(n + 1) = Len(request.prompt) + Len(all_generated)
    <3>1. traces = <<>> <=> n = 0
      BY <2>1, EmptySeq
    <3>2. (n + 1) - 1 = n
      BY <2>1
    <3>3. QED  BY <3>1, <3>2, <2>1 DEF RoundsInv, TraceInv
  <2>4. pc \notin {"commit", "align"} =>
           totals.accepted + totals.corrections = Len(all_generated)
    BY <2>1 DEF RoundsInv, TotalsInv
  <2>5. QED  BY <2>2, <2>3, <2>4 DEF TracesReplayOutput
<1>2. QED  BY <1>1, Invariance, RoundsInvariance, PTL

\* NoOp's drafts are never rejected, a compressor that passes on the full next
\* token gets its first draft accepted, debug_noise gets none, and whatever the
\* compressor no round commits nothing: for every model and every prompt.
THEOREM AcceptedByKind == Spec => []AcceptanceByKind
<1>1. RoundsInv => AcceptanceByKind
  BY DEF RoundsInv, KindInv, KindHolds, AcceptanceByKind
<1>2. QED  BY <1>1, RoundsInvariance, PTL

-----------------------------------------------------------------------------
(* The steps that are left *)

\* No round takes more steps than this, none of its phases more than its part.
RoundCost == 3 * request.max_new_tokens + 6
PhaseLeft ==
    CASE pc = "draft"   -> 2 * request.max_new_tokens + 6 + (draft.n - Len(draft.token_ids))
      [] pc = "span"    -> 2 * request.max_new_tokens + 6
      [] pc = "verify"  -> 2 * request.max_new_tokens + 5
      [] pc = "compare" -> request.max_new_tokens + 4
                              + (Len(draft.token_ids) - Len(verifier.tokens))
      [] pc = "decide"  -> request.max_new_tokens + 4
      [] pc = "commit"  -> 3 + Len(pending)
      [] pc = "align"   -> 3

\* A bound of the steps that generate() has still to take.
InRound == Drafting \/ pc \in {"commit", "align"}
StepsLeft ==
    IF pc \in {"prefill", "notify"} THEN Remaining * RoundCost + 2
    ELSE IF pc = "round" THEN IF done \/ Remaining <= 0 THEN 1 ELSE Remaining * RoundCost + 1
    ELSE IF InRound THEN (Remaining - 1) * RoundCost + PhaseLeft
    ELSE 0

FewerLeft ==
    /\ StepsLeft \in Nat
    /\ StepsLeft' \in Nat
    /\ StepsLeft' < StepsLeft

\* A round less costs a round's steps less.
LEMMA FewerRounds ==
    ASSUME NEW r \in Nat, NEW w \in Nat
    PROVE  /\ r * w \in Nat
           /\ r > 0 => (r - 1) * w \in Nat /\ r * w = (r - 1) * w + w
           /\ \A q \in Nat : q < r => q * w \in Nat /\ q * w <= (r - 1) * w
<1>1. \A x \in Nat : x * w \in Nat
  OBVIOUS
<1>2. r > 0 => (r - 1) * w \in Nat /\ r * w = (r - 1) * w + w
  <2>1. r > 0 => r - 1 \in Nat
    OBVIOUS
  <2>2. \A x \in Int : (x - 1) * w = x * w - w
    OBVIOUS
  <2>3. QED  BY <1>1, <2>1, <2>2
<1>3. ASSUME NEW q \in Nat, q < r
      PROVE  q * w <= (r - 1) * w
  <2>1. PICK j \in Nat : r - 1 = q + j
    <3>1. (r - 1) - q \in Nat /\ r - 1 = q + ((r - 1) - q)
      BY <1>3
    <3>2. QED  BY <3>1
  <2>2. (q + j) * w = q * w + j * w
    OBVIOUS
  <2>3. QED  BY <1>1, <2>1, <2>2
<1>4. QED  BY <1>1, <1>2, <1>3

\* The budget in numbers.
LEMMA BudgetFacts ==
    ASSUME IInv
    PROVE  /\ request.max_new_tokens \in Nat /\ RoundCost \in Nat /\ Remaining \in Nat
           /\ Len(all_generated) \in Nat
           /\ InRound => Remaining > 0
           /\ pc \in {"commit", "align"} => Len(committed) \in Nat \ {0}
                                            /\ Len(committed) <= Remaining
<1>1. request.max_new_tokens \in Nat /\ all_generated \in Seq(Token) /\ committed \in Seq(Token)
  BY RequestFacts DEF IInv, TypeOK
<1>2. Len(all_generated) \in Nat /\ Len(all_generated) <= request.max_new_tokens
  BY <1>1, LenProperties DEF IInv, RoundInv
<1>3. Remaining \in Nat /\ RoundCost \in Nat
  BY <1>1, <1>2 DEF Remaining, RoundCost
<1>4. pc \in {"commit", "align"} => Len(committed) \in Nat \ {0} /\ Len(committed) <= Remaining
  <2>1. SUFFICES ASSUME pc \in {"commit", "align"}
                 PROVE  Len(committed) \in Nat \ {0} /\ Len(committed) <= Remaining
    OBVIOUS
  <2>2. committed # <<>> /\ Len(all_generated) + Len(committed) <= request.max_new_tokens
    BY <2>1 DEF IInv, CommitInv
  <2>3. Len(committed) \in Nat \ {0}
    BY <1>1, <2>2, EmptySeq
  <2>4. QED  BY <1>1, <1>2, <2>2, <2>3 DEF Remaining
<1>5. InRound => Remaining > 0
  BY <1>3, <1>4 DEF InRound, IInv, RoundInv
<1>6. QED  BY <1>1, <1>2, <1>3, <1>4, <1>5

\* What counts down under a fixed part counts down with it.
LEMMA LessAbove ==
    ASSUME NEW k \in Nat, NEW x \in Nat, NEW y \in Nat, y < x
    PROVE  k + x \in Nat /\ k + y \in Nat /\ k + y < k + x
OBVIOUS

\* A draft that lacks tokens has steps left.
LEMMA DraftPart ==
    ASSUME NEW N \in Nat, NEW n \in Nat, NEW l \in Nat, l < n
    PROVE  2 * N + 6 + (n - l) \in Nat /\ 0 < 2 * N + 6 + (n - l)
OBVIOUS

\* Within a round it is enough that the phases count down.
LEMMA RoundCountsDown ==
    ASSUME IInv, UNCHANGED <<request, all_generated>>, InRound, InRound',
           PhaseLeft \in Nat, PhaseLeft' \in Nat, PhaseLeft' < PhaseLeft
    PROVE  FewerLeft
<1> DEFINE m == (Remaining - 1) * RoundCost
<1>1. Remaining' = Remaining /\ RoundCost' = RoundCost
  BY DEF Remaining, RoundCost
<1>2. m \in Nat
  <2>1. Remaining \in Nat /\ Remaining > 0 /\ RoundCost \in Nat
    BY BudgetFacts
  <2>2. QED  BY <2>1, FewerRounds
<1>3. StepsLeft = m + PhaseLeft /\ StepsLeft' = m + PhaseLeft'
  <2>1. /\ pc \notin {"prefill", "notify"} /\ pc # "round"
        /\ pc' \notin {"prefill", "notify"} /\ pc' # "round"
    BY DEF InRound, Drafting
  <2>2. StepsLeft = m + PhaseLeft
    BY <2>1 DEF StepsLeft
  <2>3. StepsLeft' = (Remaining' - 1) * RoundCost' + PhaseLeft'
    BY <2>1 DEF StepsLeft
  <2>4. QED  BY <1>1, <2>2, <2>3
<1> HIDE DEF m
<1>4. PICK k \in Nat, x \in Nat, y \in Nat : k = m /\ x = PhaseLeft /\ y = PhaseLeft' /\ y < x
  BY <1>2
<1>5. k + x \in Nat /\ k + y \in Nat /\ k + y < k + x
  BY <1>4, LessAbove
<1>6. QED  BY <1>3, <1>4, <1>5 DEF FewerLeft

\* Each token drafted, and the span pass, takes one step of the draft's part.
LEMMA DraftingCountsDown ==
    ASSUME IInv, IInv', DraftLast \/ DraftForward \/ VerifySpanBatched
    PROVE  FewerLeft
<1> DEFINE N == request.max_new_tokens
<1>1. N \in Nat /\ UNCHANGED <<request, all_generated>>
  BY BudgetFacts DEF DraftLast, DraftForward, VerifySpanBatched, outputs
<1>2. /\ draft.n \in 0..N /\ Len(draft.token_ids) \in Nat
      /\ draft'.n \in 0..N /\ Len(draft'.token_ids) \in Nat
  <2>1. draft.n \in 0..N /\ draft.token_ids \in Seq(TokenId)
    BY DEF IInv, TypeOK
  <2>2. draft'.n \in 0..N /\ draft'.token_ids \in Seq(TokenId)
    BY <1>1 DEF IInv, TypeOK
  <2>3. QED  BY <2>1, <2>2, LenProperties
<1>3. CASE DraftLast
  <2>1. pc = "draft" /\ pc' \in {"span", "verify"} /\ Len(draft.token_ids) < draft.n
    BY <1>3 DEF DraftLast, AfterDraft, IInv, DraftInv
  <2>2. PhaseLeft = 2 * N + 6 + (draft.n - Len(draft.token_ids))
    BY <2>1 DEF PhaseLeft
  <2>3. PhaseLeft' \in {2 * N + 6, 2 * N + 5}
    BY <1>1, <2>1 DEF PhaseLeft
  <2>4. PICK n \in Nat, k \in Nat : n = draft.n /\ k = Len(draft.token_ids) /\ k < n
    BY <1>1, <1>2, <2>1
  <2>5. /\ 2 * N + 6 + (n - k) \in Nat /\ 2 * N + 6 \in Nat /\ 2 * N + 5 \in Nat
        /\ 2 * N + 6 < 2 * N + 6 + (n - k) /\ 2 * N + 5 < 2 * N + 6 + (n - k)
    <3> HIDE DEF N
    <3>1. QED  BY <1>1, <2>4
  <2>6. PhaseLeft \in Nat /\ PhaseLeft' \in Nat /\ PhaseLeft' < PhaseLeft
    BY <2>2, <2>3, <2>4, <2>5
  <2>7. QED  BY <1>1, <2>1, <2>6, RoundCountsDown DEF InRound, Drafting
<1>4. CASE DraftForward
  <2>1. pc = "draft" /\ pc' = "draft" /\ Len(draft'.token_ids) < draft'.n
    BY <1>4 DEF DraftForward, IInv, DraftInv
  <2>2. draft'.n = draft.n /\ Len(draft'.token_ids) = Len(draft.token_ids) + 1
    <3>1. /\ draft.token_ids \in Seq(TokenId) /\ draft.current \in TokenId
          /\ draft'.token_ids = Append(draft.token_ids, draft.current)
          /\ draft'.n = draft.n
      BY <1>4 DEF IInv, TypeOK, DraftForward
    <3>2. QED  BY <3>1, AppendProperties
  <2>3. /\ PhaseLeft = 2 * N + 6 + (draft.n - Len(draft.token_ids))
        /\ PhaseLeft' = 2 * N + 6 + (draft'.n - Len(draft'.token_ids))
    BY <1>1, <2>1 DEF PhaseLeft
  <2>4. PICK n \in Nat, k \in Nat :
            n = draft.n /\ k = Len(draft.token_ids) /\ k + 1 < n
    <3>1. draft.n \in Nat /\ Len(draft.token_ids) + 1 < draft.n
      BY <1>1, <1>2, <2>1, <2>2
    <3>2. QED  BY <1>2, <3>1
  <2>5. /\ 2 * N + 6 + (n - k) \in Nat /\ 2 * N + 6 + (n - (k + 1)) \in Nat
        /\ 2 * N + 6 + (n - (k + 1)) < 2 * N + 6 + (n - k)
    <3> HIDE DEF N
    <3>1. QED  BY <1>1, <2>4
  <2>6. PhaseLeft \in Nat /\ PhaseLeft' \in Nat /\ PhaseLeft' < PhaseLeft
    BY <2>2, <2>3, <2>4, <2>5
  <2>7. QED  BY <1>1, <2>1, <2>6, RoundCountsDown DEF InRound, Drafting
<1>5. CASE VerifySpanBatched
  <2>1. pc = "span" /\ pc' = "verify"
    BY <1>5 DEF VerifySpanBatched
  <2>2. PhaseLeft = 2 * N + 6 /\ PhaseLeft' = 2 * N + 5
    BY <1>1, <2>1 DEF PhaseLeft
  <2>3. PhaseLeft \in Nat /\ PhaseLeft' \in Nat /\ PhaseLeft' < PhaseLeft
    BY <1>1, <2>2
  <2>4. QED  BY <1>1, <2>1, <2>3, RoundCountsDown DEF InRound, Drafting
<1>6. QED  BY <1>3, <1>4, <1>5

\* Each token compared takes one step of the comparison's part.
LEMMA VerifyingCountsDown ==
    ASSUME IInv, IInv', BeginVerify \/ CompareLast \/ CompareForward
    PROVE  FewerLeft
<1> DEFINE N == request.max_new_tokens
           d == draft.token_ids
           v == verifier.tokens
<1>1. N \in Nat /\ UNCHANGED <<request, all_generated, draft>>
  BY BudgetFacts DEF BeginVerify, CompareLast, CompareForward, outputs
<1>2. Len(d) \in Nat /\ Len(v) \in Nat /\ Len(v') \in Nat
  <2>1. d \in Seq(TokenId) /\ v \in Seq(Token) /\ v' \in Seq(Token)
    BY DEF IInv, TypeOK
  <2>2. QED  BY <2>1, LenProperties
<1>3. Len(d) <= N
  <2>1. pc \in {"verify", "compare"}
    BY DEF BeginVerify, CompareLast, CompareForward
  <2>2. draft.n \in 0..N /\ Len(d) <= draft.n
    BY <2>1 DEF IInv, TypeOK, DraftInv
  <2>3. QED  BY <1>1, <1>2, <2>2
<1>4. CASE BeginVerify
  <2>1. /\ pc = "verify" /\ pc' \in {"compare", "decide"} /\ v' = <<>>
    BY <1>4 DEF BeginVerify
  <2>2. PhaseLeft = 2 * N + 5
    BY <2>1 DEF PhaseLeft
  <2>3. PhaseLeft' = IF pc' = "compare" THEN N + 4 + (Len(d) - 0) ELSE N + 4
    <3>1. Len(v') = 0
      BY <2>1
    <3>2. draft' = draft /\ request' = request
      BY <1>1
    <3>3. pc' = "compare" => PhaseLeft' = request'.max_new_tokens + 4 + (Len(draft'.token_ids) - Len(v'))
      BY DEF PhaseLeft
    <3>4. pc' = "decide" => PhaseLeft' = request'.max_new_tokens + 4
      BY DEF PhaseLeft
    <3>5. QED  BY <2>1, <3>1, <3>2, <3>3, <3>4
  <2> HIDE DEF d, v
  <2>4. PhaseLeft \in Nat /\ PhaseLeft' \in Nat /\ PhaseLeft' < PhaseLeft
    BY <1>1, <1>2, <1>3, <2>1, <2>2, <2>3
  <2>5. QED  BY <1>1, <2>1, <2>4, RoundCountsDown DEF InRound, Drafting
<1>5. CASE CompareLast
  <2>1. pc = "compare" /\ pc' = "decide" /\ Len(v) < Len(d)
    BY <1>5 DEF CompareLast, IInv, VerifyInv
  <2>2. PhaseLeft = N + 4 + (Len(d) - Len(v)) /\ PhaseLeft' = N + 4
    BY <1>1, <2>1 DEF PhaseLeft
  <2> HIDE DEF d, v
  <2>3. PhaseLeft \in Nat /\ PhaseLeft' \in Nat /\ PhaseLeft' < PhaseLeft
    BY <1>1, <1>2, <2>1, <2>2
  <2>4. QED  BY <1>1, <2>1, <2>3, RoundCountsDown DEF InRound, Drafting
<1>6. CASE CompareForward
  <2>1. pc = "compare" /\ pc' = "compare" /\ Len(v') < Len(d)
    BY <1>1, <1>6 DEF CompareForward, IInv, VerifyInv
  <2>2. Len(v') = Len(v) + 1
    <3>1. v' = Append(v, verifier.next) /\ v \in Seq(Token) /\ verifier.next \in Token
      BY <1>6 DEF CompareForward, IInv, TypeOK
    <3>2. QED  BY <3>1, AppendProperties
  <2>3. PhaseLeft = N + 4 + (Len(d) - Len(v)) /\ PhaseLeft' = N + 4 + (Len(d) - Len(v'))
    BY <1>1, <2>1 DEF PhaseLeft
  <2> HIDE DEF d, v
  <2>4. PhaseLeft \in Nat /\ PhaseLeft' \in Nat /\ PhaseLeft' < PhaseLeft
    BY <1>1, <1>2, <2>1, <2>2, <2>3
  <2>5. QED  BY <1>1, <2>1, <2>4, RoundCountsDown DEF InRound, Drafting
<1>7. QED  BY <1>4, <1>5, <1>6

\* Deciding leaves a commit of no more tokens than were compared, or ends the output.
LEMMA DecidingCountsDown ==
    ASSUME IInv, Decide
    PROVE  FewerLeft
<1> DEFINE N == request.max_new_tokens
           v == verifier.tokens
           m == (Remaining - 1) * RoundCost
<1>1. N \in Nat /\ Remaining \in Nat /\ RoundCost \in Nat /\ pc = "decide"
  BY BudgetFacts DEF Decide
<1>2. /\ Len(v) \in Nat /\ Len(v) <= N
      /\ TruncateAtEos(CommittedBy(Verified)) = v
  <2>1. /\ Len(draft.token_ids) \in Nat /\ Len(v) \in Nat
        /\ Len(v) <= Len(draft.token_ids)
        /\ TruncateAtEos(CommittedBy(Verified)) = v
    BY <1>1, DecideFacts
  <2>2. draft.n \in 0..N /\ Len(draft.token_ids) <= draft.n
    BY <1>1 DEF IInv, TypeOK, DraftInv
  <2> HIDE DEF v
  <2>3. QED  BY <1>1, <2>1, <2>2
<1>3. /\ pending' = v /\ pc' = IF v = <<>> THEN "round" ELSE "commit"
      /\ v = <<>> => done'
      /\ UNCHANGED <<request, all_generated>>
  <2> HIDE DEF v
  <2>1. QED  BY <1>2 DEF Decide, LastRound
<1>4. PhaseLeft = N + 4
  BY <1>1 DEF PhaseLeft
<1>5. CASE v = <<>>
  <2>1. pc' = "round" /\ done'
    BY <1>3, <1>5
  <2>2. StepsLeft' = 1
    BY <2>1 DEF StepsLeft
  <2>3. StepsLeft = m + (N + 4)
    BY <1>1, <1>4 DEF StepsLeft, InRound, Drafting
  <2>4. m \in Nat
    BY <1>1, BudgetFacts, FewerRounds DEF InRound, Drafting
  <2> HIDE DEF m, N
  <2>5. m + (N + 4) \in Nat /\ 1 < m + (N + 4)
    BY <1>1, <2>4
  <2>6. QED  BY <2>2, <2>3, <2>5 DEF FewerLeft
<1>6. CASE v # <<>>
  <2>1. pc' = "commit"
    BY <1>3, <1>6
  <2>2. PhaseLeft' = 3 + Len(v)
    BY <1>3, <2>1 DEF PhaseLeft
  <2>3. N + 4 \in Nat /\ 3 + Len(v) \in Nat /\ 3 + Len(v) < N + 4
    <3> HIDE DEF N, v
    <3>1. QED  BY <1>1, <1>2
  <2>4. PhaseLeft \in Nat /\ PhaseLeft' \in Nat /\ PhaseLeft' < PhaseLeft
    BY <1>4, <2>2, <2>3
  <2>5. QED  BY <1>1, <1>3, <2>1, <2>4, RoundCountsDown DEF InRound, Drafting
<1>7. QED  BY <1>5, <1>6

\* Each token committed takes one step of the commit's part.
LEMMA CommittingCountsDown ==
    ASSUME IInv, Commit
    PROVE  FewerLeft
<1>1. /\ pc = "commit" /\ UNCHANGED <<request, all_generated>>
      /\ pc' = IF pending' = <<>> THEN "align" ELSE "commit"
  BY DEF Commit, outputs
<1>2. pending \in Seq(Token) /\ pending # <<>> /\ pending' = Tail(pending)
  BY CommitFacts DEF IInv, TypeOK
<1>3. PICK k \in Nat \ {0} : k = Len(pending)
  BY <1>2, EmptySeq
<1>4. Len(pending') = k - 1
  BY <1>2, <1>3, HeadTailProperties
<1>5. PhaseLeft = 3 + k
  BY <1>1, <1>3 DEF PhaseLeft
<1>6. PhaseLeft' \in {3, 3 + (k - 1)} /\ pc' \in {"commit", "align"}
  BY <1>1, <1>4 DEF PhaseLeft
<1>7. PhaseLeft \in Nat /\ PhaseLeft' \in Nat /\ PhaseLeft' < PhaseLeft
  BY <1>3, <1>5, <1>6
<1>8. QED  BY <1>1, <1>6, <1>7, RoundCountsDown DEF InRound

\* A round that ends leaves less of the budget.
LEMMA AligningCountsDown ==
    ASSUME IInv, Align
    PROVE  FewerLeft
<1>1. /\ pc = "align" /\ pc' = "notify" /\ request' = request
      /\ all_generated' = all_generated \o committed
  BY DEF Align
<1>2. /\ all_generated \in Seq(Token) /\ committed \in Seq(Token)
      /\ request.max_new_tokens \in Nat /\ Len(all_generated) \in Nat
      /\ Len(committed) \in Nat \ {0} /\ Len(committed) <= Remaining
      /\ Remaining \in Nat /\ Remaining > 0 /\ RoundCost \in Nat
  BY <1>1, BudgetFacts DEF IInv, TypeOK, InRound
<1>3. Len(all_generated') = Len(all_generated) + Len(committed)
  BY <1>1, <1>2, ConcatProperties
<1>4. /\ Remaining' = Remaining - Len(committed)
      /\ Remaining' \in Nat /\ Remaining' < Remaining /\ RoundCost' = RoundCost
  <2>1. Remaining' = Remaining - Len(committed)
    BY <1>1, <1>2, <1>3 DEF Remaining
  <2>2. RoundCost' = RoundCost
    BY <1>1 DEF RoundCost
  <2>3. QED  BY <1>2, <2>1, <2>2
<1>5. PICK r \in Nat, q \in Nat, w \in Nat :
          r = Remaining /\ q = Remaining' /\ w = RoundCost /\ q < r /\ r > 0
  BY <1>2, <1>4
<1>6. (r - 1) * w \in Nat /\ q * w \in Nat /\ q * w <= (r - 1) * w
  BY <1>5, FewerRounds
<1>7. StepsLeft = (r - 1) * w + 3 /\ StepsLeft' = q * w + 2
  <2>1. PhaseLeft = 3
    BY <1>1 DEF PhaseLeft
  <2>2. StepsLeft = (r - 1) * w + 3
    BY <1>1, <1>5, <2>1 DEF StepsLeft, InRound
  <2>3. StepsLeft' = q * w + 2
    BY <1>1, <1>4, <1>5 DEF StepsLeft
  <2>4. QED  BY <2>2, <2>3
<1>8. (r - 1) * w + 3 \in Nat /\ q * w + 2 \in Nat /\ q * w + 2 < (r - 1) * w + 3
  BY <1>6
<1>9. QED  BY <1>7, <1>8 DEF FewerLeft

\* A new round has no more steps than a round costs.
LEMMA BeginningCountsDown ==
    ASSUME IInv, IInv', BeginRound
    PROVE  FewerLeft
<1>1. /\ pc = "round" /\ ~done /\ Remaining > 0 /\ UNCHANGED <<request, all_generated>>
      /\ pc' \in {"draft", "span", "verify"}
      /\ draft'.token_ids = <<>>
  BY DEF BeginRound, AfterDraft, outputs
<1>2. draft'.n \in 0..request.max_new_tokens
  BY <1>1 DEF IInv, TypeOK
<1>3. PICK r \in Nat, N \in Nat : r = Remaining /\ N = request.max_new_tokens /\ r > 0
  BY <1>1, BudgetFacts
<1>4. PICK n \in 0..N : n = draft'.n
  BY <1>2, <1>3
<1>5. PICK m \in Nat : m = (r - 1) * RoundCost /\ r * RoundCost = m + RoundCost
  BY <1>3, BudgetFacts, FewerRounds
<1>6. RoundCost = 3 * N + 6 /\ RoundCost' = RoundCost /\ Remaining' = Remaining
  BY <1>1, <1>3 DEF RoundCost, Remaining
<1>7. PhaseLeft' \in {2 * N + 6 + n, 2 * N + 6, 2 * N + 5}
  <2>1. Len(draft'.token_ids) = 0
    BY <1>1
  <2>2. n - 0 = n
    BY <1>4
  <2>3. pc' = "draft" => PhaseLeft' = 2 * N + 6 + n
    BY <1>1, <1>3, <1>4, <2>1, <2>2 DEF PhaseLeft
  <2>4. pc' = "span" => PhaseLeft' = 2 * N + 6
    BY <1>1, <1>3 DEF PhaseLeft
  <2>5. pc' = "verify" => PhaseLeft' = 2 * N + 5
    BY <1>1, <1>3 DEF PhaseLeft
  <2>6. QED  BY <1>1, <2>3, <2>4, <2>5
<1>8. StepsLeft = m + (3 * N + 6) + 1
  <2>1. StepsLeft = Remaining * RoundCost + 1
    BY <1>1, <1>3 DEF StepsLeft
  <2>2. Remaining * RoundCost = m + (3 * N + 6)
    BY <1>3, <1>5, <1>6
  <2>3. QED  BY <2>1, <2>2
<1>9. StepsLeft' = m + PhaseLeft'
  <2>1. StepsLeft' = (Remaining' - 1) * RoundCost' + PhaseLeft'
    BY <1>1 DEF StepsLeft, InRound, Drafting
  <2>2. QED  BY <1>3, <1>5, <1>6, <2>1
<1>10. PICK y \in Nat : y = PhaseLeft' /\ y <= 3 * N + 6
  BY <1>3, <1>4, <1>7
<1>11. /\ m + (3 * N + 6) + 1 \in Nat /\ m + y \in Nat
       /\ m + y < m + (3 * N + 6) + 1
  BY <1>3, <1>5, <1>10
<1>12. QED  BY <1>8, <1>9, <1>10, <1>11 DEF FewerLeft

\* The steps outside a round.
LEMMA OutsideCountsDown ==
    ASSUME IInv, Prefill \/ Notify \/ Return \/ NotifyRaises \/ DraftOutOfVocabulary
    PROVE  FewerLeft
<1>1. UNCHANGED <<request, all_generated>>
  BY DEF Prefill, Notify, Return, NotifyRaises, DraftOutOfVocabulary, outputs
<1>2. Remaining' = Remaining /\ RoundCost' = RoundCost
  BY <1>1 DEF Remaining, RoundCost
<1>3. PICK k \in Nat : k = Remaining * RoundCost
  BY BudgetFacts, FewerRounds
<1>4. CASE Prefill \/ Notify
  <2>1. pc \in {"prefill", "notify"} /\ pc' = "round"
    BY <1>4 DEF Prefill, Notify
  <2>2. StepsLeft = k + 2
    BY <1>3, <2>1 DEF StepsLeft
  <2>3. StepsLeft' \in {1, k + 1}
    BY <1>2, <1>3, <2>1 DEF StepsLeft
  <2>4. QED  BY <2>2, <2>3 DEF FewerLeft
<1>5. CASE Return
  <2>1. pc = "round" /\ (done \/ Remaining <= 0) /\ pc' = "returned"
    BY <1>5 DEF Return
  <2>2. StepsLeft = 1
    BY <2>1 DEF StepsLeft
  <2>3. StepsLeft' = 0
    BY <2>1 DEF StepsLeft, InRound, Drafting, Finished
  <2>4. QED  BY <2>2, <2>3 DEF FewerLeft
<1>6. CASE NotifyRaises \/ DraftOutOfVocabulary
  <2>1. pc \in {"notify", "draft"} /\ pc' = "raised"
    BY <1>6 DEF NotifyRaises, DraftOutOfVocabulary
  <2>2. StepsLeft' = 0
    BY <2>1 DEF StepsLeft, InRound, Drafting, Finished
  <2>3. CASE pc = "notify"
    <3>1. StepsLeft = k + 2
      BY <1>3, <2>3 DEF StepsLeft
    <3>2. QED  BY <2>2, <3>1 DEF FewerLeft
  <2>4. CASE pc = "draft"
    <3>1. PICK m \in Nat : m = (Remaining - 1) * RoundCost
      BY <2>4, BudgetFacts, FewerRounds DEF InRound, Drafting
    <3>2. PICK N \in Nat, n \in Nat, l \in Nat :
              /\ N = request.max_new_tokens /\ n = draft.n
              /\ l = Len(draft.token_ids) /\ l < n
      <4>1. /\ request.max_new_tokens \in Nat /\ draft.n \in 0..request.max_new_tokens
            /\ draft.token_ids \in Seq(TokenId) /\ Len(draft.token_ids) < draft.n
        BY <2>4, BudgetFacts DEF IInv, TypeOK, DraftInv
      <4>2. QED  BY <4>1, LenProperties
    <3>3. PhaseLeft = 2 * N + 6 + (n - l)
      BY <2>4, <3>2 DEF PhaseLeft
    <3>4. StepsLeft = m + (2 * N + 6 + (n - l))
      BY <2>4, <3>1, <3>3 DEF StepsLeft, InRound, Drafting
    <3>5. 2 * N + 6 + (n - l) \in Nat /\ 0 < 2 * N + 6 + (n - l)
      BY <3>2, DraftPart
    <3>6. PICK x \in Nat : x = 2 * N + 6 + (n - l) /\ 0 < x
      BY <3>5
    <3>7. m + x \in Nat /\ 0 < m + x
      BY <3>1, <3>6
    <3>8. QED  BY <2>2, <3>4, <3>6, <3>7 DEF FewerLeft
  <2>5. QED  BY <2>1, <2>3, <2>4
<1>7. QED  BY <1>4, <1>5, <1>6

\* The safety half of the end of generate() (ProbedCallEnds): whatever the full model predicts, whatever the
\* compressor drafts and however short a draft may be, every step of generate()
\* lowers a number that starts within the budget's rounds; no round is repeated,
\* and none goes without a commit unless it is the last.
THEOREM StepsRunOut ==
    Spec => /\ StepsLeft = request.max_new_tokens * RoundCost + 2
            /\ [][FewerLeft]_vars
<1>1. Init => StepsLeft = request.max_new_tokens * RoundCost + 2
  <2>1. SUFFICES ASSUME Init
                 PROVE  StepsLeft = request.max_new_tokens * RoundCost + 2
    OBVIOUS
  <2>2. pc = "prefill" /\ Len(all_generated) = 0
    BY <2>1 DEF Init
  <2>3. request.max_new_tokens \in Nat
    BY <2>1, InitInv, BudgetFacts
  <2>4. Remaining = request.max_new_tokens
    BY <2>2, <2>3 DEF Remaining
  <2>5. QED  BY <2>2, <2>4 DEF StepsLeft
<1>2. IInv /\ [Next]_vars => [FewerLeft]_vars
  <2>1. SUFFICES ASSUME IInv, Step
                 PROVE  FewerLeft
    BY DEF Next, Ended
  <2>2. IInv'
    BY <2>1, NextInv DEF Next
  <2>3. QED  BY <2>1, <2>2, DraftingCountsDown, VerifyingCountsDown, DecidingCountsDown,
                CommittingCountsDown, AligningCountsDown, BeginningCountsDown,
                OutsideCountsDown DEF Step
<1>3. QED  BY <1>1, <1>2, Invariance, PTL DEF Spec
=============================================================================
