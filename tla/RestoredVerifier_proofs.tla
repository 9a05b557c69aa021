----------------------- MODULE RestoredVerifier_proofs -----------------------
(***************************************************************************)
(* Proofs about the restored-verifier runs, for every vocabulary, model    *)
(* and set of configurations.  The argument has three parts: greedy        *)
(* decoding is deterministic, so that the output of a cell and its         *)
(* reference agree as far as both go; the restored cache, the state built  *)
(* from it and the output follow the same continuation, whatever is        *)
(* drafted and wherever a cell stops; every cell is judged once.           *)
(***************************************************************************)
EXTENDS RestoredVerifier, SharedLemmas

-----------------------------------------------------------------------------
(* Greedy continuations *)

\* Two greedy continuations of a context agree as far as both go.
LEMMA GreedyDeterminism ==
    ASSUME NEW c \in Seq(Token), NEW s \in Seq(Token), NEW t \in Seq(Token),
           Greedy!Continues(c, s), Greedy!Continues(c, t)
    PROVE  \A i \in 1..Len(s) : i <= Len(t) => s[i] = t[i]
<1>1. Len(s) \in Nat /\ Len(t) \in Nat
  BY LenProperties
<1> DEFINE Both(k) == k <= Len(s) /\ k <= Len(t)
           T == {k \in Nat : Both(k) => SubSeq(s, 1, k) = SubSeq(t, 1, k)}
<1>2. T \in SUBSET Nat /\ 0 \in T
  <2>1. SubSeq(s, 1, 0) = <<>> /\ SubSeq(t, 1, 0) = <<>>
    BY SubSeqEmpty
  <2>2. QED  BY <2>1
<1>3. ASSUME NEW k \in Nat, Both(k + 1), SubSeq(s, 1, k) = SubSeq(t, 1, k)
      PROVE  s[k + 1] = t[k + 1] /\ SubSeq(s, 1, k + 1) = SubSeq(t, 1, k + 1)
  <2>1. k + 1 \in 1..Len(s) /\ k + 1 \in 1..Len(t) /\ (k + 1) - 1 = k
    BY <1>1, <1>3
  <2>2. s[k + 1] = FullNext(c \o SubSeq(s, 1, (k + 1) - 1))
    BY <2>1 DEF Greedy!Continues
  <2>3. t[k + 1] = FullNext(c \o SubSeq(t, 1, (k + 1) - 1))
    BY <2>1 DEF Greedy!Continues
  <2>4. s[k + 1] = t[k + 1]
    BY <2>1, <2>2, <2>3, <1>3
  <2>5. /\ SubSeq(s, 1, k + 1) = Append(SubSeq(s, 1, (k + 1) - 1), s[k + 1])
        /\ SubSeq(t, 1, k + 1) = Append(SubSeq(t, 1, (k + 1) - 1), t[k + 1])
    BY <2>1, LongerPrefix
  <2>6. QED  BY <2>1, <2>4, <2>5, <1>3
<1>4. \A k \in T : k + 1 \in T
  BY <1>1, <1>3
<1>5. T = Nat
  <2> HIDE DEF T
  <2>1. QED  BY <1>2, <1>4, SetInduction
<1>6. ASSUME NEW i \in 1..Len(s), i <= Len(t)
      PROVE  s[i] = t[i]
  <2>1. i - 1 \in Nat /\ Both((i - 1) + 1) /\ Both(i - 1) /\ (i - 1) + 1 = i
    BY <1>1, <1>6
  <2>2. SubSeq(s, 1, i - 1) = SubSeq(t, 1, i - 1)
    BY <2>1, <1>5
  <2>3. QED  BY <2>1, <2>2, <1>3
<1>7. QED  BY <1>6

\* A greedy continuation within the budget is a prefix of the reference, and is
\* the reference if there is nothing left to emit.
LEMMA PrefixOfReference ==
    ASSUME NEW p \in Seq(Token), NEW n \in Nat, NEW r \in Seq(Token), NEW s \in Seq(Token),
           IsReference(p, n, r), Len(r) <= n, Greedy!Continues(p, s), Len(s) <= n
    PROVE  /\ Len(s) <= Len(r)
           /\ \A i \in 1..Len(s) : s[i] = r[i]
           /\ Len(s) = n \/ EndsWithEos(s) => s = r
<1>1. Len(s) \in Nat /\ Len(r) \in Nat
  BY LenProperties
<1>2. Greedy!Continues(p, r) /\ (Len(r) = n \/ EndsWithEos(r))
  BY DEF IsReference
<1>3. \A i \in 1..Len(s) : i <= Len(r) => s[i] = r[i]
  BY <1>2, GreedyDeterminism
<1>4. \A u \in Seq(Token) : EndsWithEos(u) => Len(u) \in 1..Len(u) /\ u[Len(u)] = EOS
  BY EmptySeq, LenProperties DEF EndsWithEos
<1>5. ASSUME Len(s) > Len(r)
      PROVE  FALSE
  <2>1. EndsWithEos(r)
    BY <1>1, <1>2, <1>5
  <2>2. Len(r) \in 1..Len(s) /\ Len(r) < Len(s) /\ s[Len(r)] = EOS
    BY <2>1, <1>1, <1>3, <1>4, <1>5
  <2>3. QED  BY <2>2 DEF Greedy!Continues
<1>6. ASSUME Len(s) = n \/ EndsWithEos(s), Len(s) < Len(r)
      PROVE  FALSE
  <2>1. EndsWithEos(s)
    BY <1>1, <1>6
  <2>2. Len(s) \in 1..Len(r) /\ Len(s) < Len(r) /\ r[Len(s)] = EOS
    BY <2>1, <1>1, <1>3, <1>4, <1>6
  <2>3. QED  BY <2>2, <1>2 DEF Greedy!Continues
<1>7. ASSUME Len(s) = n \/ EndsWithEos(s)
      PROVE  s = r
  <2>1. Len(s) = Len(r)
    BY <1>1, <1>5, <1>6, <1>7
  <2>2. QED  BY <2>1, <1>1, <1>3, SeqEqual
<1>8. QED  BY <1>1, <1>3, <1>5, <1>7

\* A greedy continuation continued greedily, by several tokens.
LEMMA ContinuesConcat ==
    ASSUME NEW c \in Seq(Token), NEW s \in Seq(Token), NEW v \in Seq(Token),
           Greedy!Continues(c, s), ~EndsWithEos(s),
           \A i \in 1..Len(v) : v[i] = FullNext((c \o s) \o SubSeq(v, 1, i - 1)),
           \A i \in 1..(Len(v) - 1) : v[i] # EOS
    PROVE  Greedy!Continues(c, s \o v)
<1> DEFINE u == s \o v
<1>1. /\ u \in Seq(Token) /\ Len(u) = Len(s) + Len(v)
      /\ Len(s) \in Nat /\ Len(v) \in Nat
      /\ \A i \in 1..Len(u) : u[i] = IF i <= Len(s) THEN s[i] ELSE v[i - Len(s)]
  BY ConcatProperties, LenProperties
<1>2. Len(s) > 0 => s[Len(s)] # EOS
  BY EmptySeq DEF EndsWithEos
<1>3. \A x \in Seq(Token) : c \o (s \o x) = (c \o s) \o x
  BY ConcatAssociative
<1>4. ASSUME NEW i \in 1..Len(s)
      PROVE  u[i] = FullNext(c \o SubSeq(u, 1, i - 1)) /\ u[i] # EOS
  <2>1. i - 1 \in 0..Len(s) /\ u[i] = s[i]
    BY <1>1
  <2>2. SubSeq(u, 1, i - 1) = SubSeq(s, 1, i - 1)
    BY <2>1, PrefixInConcat
  <2>3. s[i] = FullNext(c \o SubSeq(s, 1, i - 1)) /\ s[i] # EOS
    BY <1>1, <1>2 DEF Greedy!Continues
  <2>4. QED  BY <2>1, <2>2, <2>3
<1>5. ASSUME NEW j \in 1..Len(v)
      PROVE  /\ u[Len(s) + j] = FullNext(c \o SubSeq(u, 1, Len(s) + j - 1))
             /\ j < Len(v) => u[Len(s) + j] # EOS
  <2>1. PICK k \in 0..Len(v) : k = j - 1
    BY <1>1
  <2>2. u[Len(s) + j] = v[j] /\ Len(s) + j - 1 = Len(s) + k
    BY <1>1, <2>1
  <2>3. SubSeq(u, 1, Len(s) + k) = s \o SubSeq(v, 1, k)
    BY PrefixOfConcat
  <2>4. SubSeq(v, 1, k) \in Seq(Token)
    <3>1. \A i \in 1..k : v[i] \in Token
      BY <1>1, ElementOfSeq
    <3>2. QED  BY <3>1, SubSeqProperties
  <2>5. c \o (s \o SubSeq(v, 1, k)) = (c \o s) \o SubSeq(v, 1, k)
    BY <1>3, <2>4, Zenon
  <2>6. v[j] = FullNext((c \o s) \o SubSeq(v, 1, k))
    BY <2>1
  <2>7. j < Len(v) => v[j] # EOS
    BY <1>1
  <2> HIDE DEF u
  <2>8. QED  BY <2>2, <2>3, <2>5, <2>6, <2>7
<1>6. ASSUME NEW i \in 1..Len(u)
      PROVE  u[i] = FullNext(c \o SubSeq(u, 1, i - 1)) /\ (i < Len(u) => u[i] # EOS)
  <2>1. CASE i <= Len(s)
    BY <1>1, <1>4, <2>1
  <2>2. CASE i > Len(s)
    <3>1. PICK j \in 1..Len(v) : i = Len(s) + j
      <4>1. i - Len(s) \in 1..Len(v) /\ i = Len(s) + (i - Len(s))
        BY <1>1, <2>2
      <4>2. QED  BY <4>1
    <3> HIDE DEF u
    <3>2. QED  BY <1>1, <1>5, <3>1
  <2>3. QED  BY <2>1, <2>2, <1>1
<1>7. QED  BY <1>6 DEF Greedy!Continues

-----------------------------------------------------------------------------
(* The inductive invariant *)

InCell == pc \in {"restore", "compress", "judge"} \/ Looping

\* The cell being run, and what its first steps find.
CellInv ==
    InCell =>
        /\ cell \in Cells(config)
        /\ pc # "judge" => blocker = ""
        /\ pc # "judge" /\ ~Controlled => cell.compressor \in CompressorKinds
        /\ pc \in {"compress", "update"} => ~Controlled
        /\ pc = "restore" => output = <<>> /\ traces = <<>>
        /\ pc = "compress" => output = <<>>

\* What has been committed, where the output still lacks it.
Grown == output \o (IF pc \in {"update", "extend"} THEN committed ELSE <<>>)

\* The restored cache, the state built from it and the output follow the same
\* continuation; the stored entry stays the prefill.
RestoredInv ==
    pc = "compress" \/ Looping =>
        /\ kv["stored"] = PrefillCache(cell.prompt)
        /\ kv["full"] = [ tokens |-> cell.prompt \o WithoutEos(full_state.generated_ids),
                          exact  |-> TRUE ]
        /\ full_state.generated_ids = Grown
        /\ ~EndsWithEos(full_state.generated_ids) =>
              full_state.next_token_id = FullNext(cell.prompt \o full_state.generated_ids)
        /\ pc # "compress" /\ ~Controlled => compressed.logical_seq_len =
              Len(cell.prompt) + Len(IF pc = "extend" THEN full_state.generated_ids ELSE output)

BlockedAtStart ==
    /\ pc = "judge" /\ blocker # ""
    /\ blocker = "restore" \/ cell.compressor = "unknown"
    /\ output = <<>>

\* The output is greedy, and so is the reference, once there is one.
GreedyInv ==
    InCell =>
        /\ Greedy!Continues(cell.prompt, output)
        /\ Len(reference) <= config.max_new_tokens
        /\ pc # "restore" /\ ~BlockedAtStart =>
              IsReference(cell.prompt, config.max_new_tokens, reference)

\* The draft of a round fits the budget.  Before its last token it has EOS only
\* where the verifier disagrees.
DraftInv ==
    pc \in {"verify", "commit", "update", "extend"} =>
        /\ MoreToDo
        /\ draft # <<>> /\ Len(draft) <= RoundDraftLen
        /\ Controlled => draft = propose_controlled_draft(RoundDraftLen)
        /\ \A i \in 1..(Len(draft) - 1) : draft[i] = EOS =>
              draft[i] # FullNext((cell.prompt \o output) \o SubSeq(draft, 1, i - 1))

\* The verifier's answer continues the output greedily and is what is committed.
AnswerInv ==
    pc \in {"commit", "update", "extend"} =>
        \E v \in UpTo(Len(draft)) :
            /\ Answers(v, draft)
            /\ acceptance = compute_acceptance(draft, v)
            /\ Greedy!Continues(cell.prompt, output \o v)
            /\ pc # "commit" => committed = v

\* A cell without a blocker stops where there is nothing left to emit, unless
\* it may not draft at all.
JudgeInv ==
    pc = "judge" /\ blocker = "" => ~MoreToDo \/ cell.draft_len = 0

Trace == [drafted : Nat, accepted_prefix_length : Nat, correction_token : Optional(Token),
          all_matched : BOOLEAN]

Result == [ cell : Cells(config), output : Seq(Token),
            blocker : {"", "restore", "draft", "verification"},
            token_exact_match : BOOLEAN, exactkv_failure : {0, 1},
            first_divergence : Seq(Nat), draft_divergences : Nat ]

ResultsInv ==
    /\ results \in Seq(Result)
    /\ FailureOnlyTruncates
    /\ VerdictSound
    /\ \A i \in 1..Len(results) :
          results[i].exactkv_failure = 0 <=> results[i].token_exact_match

\* Every cell is judged once.
CountInv ==
    /\ pc = "start" => results = <<>>
    /\ pc \notin {"start", "ended"} =>
          /\ IsFiniteSet(todo)
          /\ Len(results) + Cardinality(todo) + (IF InCell THEN 1 ELSE 0) =
                Cardinality(Cells(config))
    /\ /\ pc \notin {"start", "ended"} \/ status \in {"pass", "failed"}
       /\ config.entry = "experimental"
       => config.enabled /\ ConfigValid(config)
    /\ pc # "ended" => status = "running"
    /\ status \in {"pass", "failed"} =>
          /\ Len(results) = Cardinality(Cells(config))
          /\ status = "pass" <=> Failures = 0

IInv ==
    /\ TypeOK
    /\ reference \in Seq(Token) /\ traces \in Seq(Trace)
    /\ CellInv
    /\ RestoredInv
    /\ GreedyInv
    /\ DraftInv
    /\ AnswerInv
    /\ JudgeInv
    /\ InjectedMismatchRejected
    /\ ResultsInv
    /\ CountInv

-----------------------------------------------------------------------------
(* Configurations and constants *)

LEMMA TokenFacts ==
    /\ Token \subseteq Int /\ TokenId \subseteq Int /\ Token \subseteq TokenId
    /\ 0 \in Token /\ EOS \in Token
    /\ \A kind \in CompressorKinds, t \in Token : CompressedNext(kind, t) \subseteq TokenId
<1>1. \A t \in Token : (t + 1) % WrongModulus \in 0..(WrongModulus - 1)
  BY ModelOK DEF Token
<1>2. QED  BY <1>1, ModelOK DEF Token, TokenId, CompressorKinds, CompressedNext

LEMMA ConfigFacts ==
    ASSUME config \in Configs
    PROVE  /\ config.max_new_tokens \in Nat
           /\ IsFiniteSet(Cells(config))
           /\ \A c \in Cells(config) :
                 /\ c.prompt \in Seq(Token) /\ c.prompt # <<>>
                 /\ c.compressor \in CompressorKinds \cup {"unknown"}
                 /\ c.draft_len \in Nat
           /\ ConfigValid(config) =>
                 Cells(config) # {} /\ \A c \in Cells(config) : c.draft_len > 0
<1> DEFINE P == config.prompts
           C == config.compressors
           D == config.draft_lens
<1>1. config \in ConfigFields /\ IsFiniteSet(P) /\ IsFiniteSet(D)
  BY ConfigsOK
<1>2. /\ config.max_new_tokens \in Nat
      /\ P \subseteq Seq(Token) \ {<<>>}
      /\ C \subseteq CompressorKinds \cup {"unknown"}
      /\ D \subseteq Nat
  BY <1>1 DEF ConfigFields
<1>3. IsFiniteSet(C)
  <2>1. IsFiniteSet({"noop", "lossy"}) /\ IsFiniteSet({"replay", "debug_noise"})
    <3>1. /\ IsFiniteSet({"noop"} \cup {"lossy"})
          /\ IsFiniteSet({"replay"} \cup {"debug_noise"})
      BY FS_Singleton, FS_AddElement
    <3>2. /\ {"noop"} \cup {"lossy"} = {"noop", "lossy"}
          /\ {"replay"} \cup {"debug_noise"} = {"replay", "debug_noise"}
      OBVIOUS
    <3>3. QED  BY <3>1, <3>2
  <2>2. IsFiniteSet({"noop", "lossy"} \cup {"replay", "debug_noise"})
    BY <2>1, FS_Union
  <2>3. CompressorKinds = {"noop", "lossy"} \cup {"replay", "debug_noise"}
    BY DEF CompressorKinds
  <2>4. IsFiniteSet(CompressorKinds \cup {"unknown"})
    BY <2>2, <2>3, FS_AddElement
  <2>5. QED  BY <1>2, <2>4, FS_Subset
<1>4. IsFiniteSet(Cells(config))
  <2> DEFINE S == P \X (C \X D)
             f == [c \in Cells(config) |-> <<c.prompt, <<c.compressor, c.draft_len>>>>]
  <2>1. IsFiniteSet(S)
    <3>1. IsFiniteSet(C \X D)
      BY <1>1, <1>3, FS_Product
    <3> HIDE DEF P, C, D
    <3>2. QED  BY <1>1, <3>1, FS_Product
  <2>2. f \in [Cells(config) -> S]
    BY DEF Cells
  <2>3. ASSUME NEW a \in Cells(config), NEW b \in Cells(config), f[a] = f[b]
        PROVE  a = b
    <3>1. /\ <<a.prompt, <<a.compressor, a.draft_len>>>> = <<b.prompt, <<b.compressor, b.draft_len>>>>
      BY <2>3
    <3>2. a.prompt = b.prompt /\ a.compressor = b.compressor /\ a.draft_len = b.draft_len
      BY <3>1
    <3>3. QED  BY <3>2 DEF Cells
  <2>4. f \in Injection(Cells(config), S)
    <3> HIDE DEF f, S
    <3>1. QED  BY <2>2, <2>3 DEF Injection, IsInjective
  <2>5. QED  BY <2>1, <2>4, FS_Injection
<1>5. ASSUME NEW c \in Cells(config)
      PROVE  /\ c.prompt \in Seq(Token) /\ c.prompt # <<>>
             /\ c.compressor \in CompressorKinds \cup {"unknown"}
             /\ c.draft_len \in Nat /\ c.draft_len \in D
  BY <1>2 DEF Cells
<1>6. ASSUME ConfigValid(config)
      PROVE  Cells(config) # {} /\ \A c \in Cells(config) : c.draft_len > 0
  <2>1. P # {} /\ C # {} /\ D # {} /\ 0 \notin D
    BY <1>6 DEF ConfigValid
  <2>2. PICK p \in P, c \in C, d \in D : TRUE
    BY <2>1
  <2>3. [prompt |-> p, compressor |-> c, draft_len |-> d] \in Cells(config)
    BY DEF Cells
  <2>4. QED  BY <2>1, <2>3, <1>2, <1>5
<1>7. QED  BY <1>2, <1>4, <1>5, <1>6

\* The sequences of at most n tokens.
LEMMA UpToFacts ==
    ASSUME NEW n \in Nat
    PROVE  \A s : s \in UpTo(n) <=> s \in Seq(Token) /\ Len(s) <= n
<1>1. ASSUME NEW s \in UpTo(n)
      PROVE  s \in Seq(Token) /\ Len(s) <= n
  <2>1. PICK k \in 0..n : s \in [1..k -> Token]
    BY DEF UpTo
  <2>2. s \in Seq(Token) /\ DOMAIN s = 1..k
    BY <2>1, SeqDef
  <2>3. Len(s) = k
    BY <2>2, LenProperties
  <2>4. QED  BY <2>2, <2>3
<1>2. ASSUME NEW s \in Seq(Token), Len(s) <= n
      PROVE  s \in UpTo(n)
  <2>1. Len(s) \in 0..n /\ s \in [1..Len(s) -> Token]
    BY <1>2, LenProperties
  <2>2. QED  BY <2>1 DEF UpTo
<1>3. QED  BY <1>1, <1>2

-----------------------------------------------------------------------------
(* Initially, and where nothing changes *)

LEMMA InitInv == Init => IInv
<1> SUFFICES ASSUME Init
             PROVE  IInv
  OBVIOUS
<1>1. /\ config \in Configs /\ config.max_new_tokens \in Nat
      /\ pc = "start" /\ ~InCell /\ ~Looping
  BY ConfigFacts DEF Init, InCell, Looping
<1>0. /\ Len(<<>>) = 0 /\ todo = {} /\ cell = NoCell /\ status = "running" /\ blocker = ""
      /\ full_state = NoState /\ compressed = NoCompressed
      /\ draft = <<>> /\ committed = <<>>
      /\ reference = <<>> /\ output = <<>> /\ traces = <<>> /\ results = <<>>
  BY EmptySeq DEF Init
<1>9. Len(output) = 0 /\ Len(traces) = 0 /\ Len(results) = 0
  BY <1>0, Zenon
<1>2. TypeOK
  <2>1. kv \in [{"stored", "full", "compressed"} -> Cache]
    <3>1. kv = [c \in {"stored", "full", "compressed"} |-> NoCache]
      BY DEF Init
    <3>2. NoCache \in Cache
      BY DEF Cache, NoCache
    <3>3. QED  BY <3>1, <3>2
  <2>2. /\ full_state \in [past_key_values : {"full"}, generated_ids : Seq(Token),
                           next_token_id : Token]
        /\ compressed \in [data : {"full", "compressed"}, next_token_id : TokenId,
                           logical_seq_len : Nat]
    BY <1>0, TokenFacts, EmptySeq DEF NoState, NoCompressed
  <2>3. draft \in Seq(TokenId) /\ committed \in Seq(Token) /\ output \in Seq(Token)
    BY <1>0, EmptySeq, Zenon
  <2>4. 1..Len(results) = {} /\ Len(output) <= config.max_new_tokens
    BY <1>1, <1>9
  <2>5. QED  BY <1>0, <1>1, <2>1, <2>2, <2>3, <2>4 DEF TypeOK
<1>3. reference \in Seq(Token) /\ traces \in Seq(Trace)
  BY <1>0, EmptySeq
<1>4. CellInv /\ RestoredInv /\ GreedyInv /\ DraftInv /\ AnswerInv /\ JudgeInv
  BY <1>1 DEF CellInv, RestoredInv, GreedyInv, DraftInv, AnswerInv, JudgeInv
<1>5. InjectedMismatchRejected
  BY <1>9 DEF InjectedMismatchRejected
<1>6. ResultsInv
  <2>1. results \in Seq(Result)
    BY <1>0, EmptySeq, Zenon
  <2>2. 1..Len(results) = {}
    BY <1>9
  <2>3. QED  BY <2>1, <2>2 DEF ResultsInv, FailureOnlyTruncates, VerdictSound
<1>7. CountInv
  BY <1>0, <1>1 DEF CountInv
<1>8. QED  BY <1>2, <1>3, <1>4, <1>5, <1>6, <1>7 DEF IInv

\* Steps within a cell leave the verdicts alone.
LEMMA VerdictFrame ==
    ASSUME ResultsInv, CountInv, UNCHANGED <<config, todo, results, status>>,
           (InCell /\ InCell') \/ UNCHANGED pc
    PROVE  ResultsInv' /\ CountInv'
<1>1. ResultsInv'
  BY DEF ResultsInv, Result, Cells, FailureOnlyTruncates, VerdictSound, Greedy!Continues
<1>2. (InCell <=> InCell') /\ (pc \notin {"start", "ended"} <=> pc' \notin {"start", "ended"})
      /\ (pc = "ended" <=> pc' = "ended")
  BY DEF InCell, Looping
<1>3. CountInv'
  BY <1>2 DEF CountInv, Cells, ConfigValid, Failures
<1>4. QED  BY <1>1, <1>3

LEMMA StutterInv == IInv /\ UNCHANGED vars => IInv'
<1> SUFFICES ASSUME IInv, UNCHANGED vars
             PROVE  IInv'
  OBVIOUS
<1> USE DEF vars, cellVars, round
<1>1. TypeOK'
  BY DEF IInv, TypeOK, Cells
<1>2. reference' \in Seq(Token) /\ traces' \in Seq(Trace)
  BY DEF IInv
<1>3. CellInv'
  BY DEF IInv, CellInv, InCell, Looping, Cells, Controlled
<1>4. RestoredInv'
  BY DEF IInv, RestoredInv, Looping, Grown, Controlled
<1>5. GreedyInv'
  BY DEF IInv, GreedyInv, InCell, Looping, BlockedAtStart, IsReference, Greedy!Continues
<1>6. DraftInv'
  BY DEF IInv, DraftInv, MoreToDo, Remaining, RoundDraftLen, Controlled,
         propose_controlled_draft, OddRound
<1>7. AnswerInv' /\ JudgeInv'
  BY DEF IInv, AnswerInv, JudgeInv, MoreToDo, Remaining, Greedy!Continues
<1>8. InjectedMismatchRejected'
  BY DEF IInv, InjectedMismatchRejected, Controlled
<1>9. ResultsInv' /\ CountInv'
  BY VerdictFrame DEF IInv
<1>10. QED  BY <1>1, <1>2, <1>3, <1>4, <1>5, <1>6, <1>7, <1>8, <1>9 DEF IInv

-----------------------------------------------------------------------------
(* The run starts, a cell starts *)

LEMMA StartInv == IInv /\ Start => IInv'
<1> SUFFICES ASSUME IInv, Start
             PROVE  IInv'
  OBVIOUS
<1>1. /\ pc = "start" /\ config \in Configs /\ results = <<>> /\ status = "running"
      /\ config' = config /\ UNCHANGED cellVars /\ results' = results
  BY DEF IInv, TypeOK, CountInv, Start
<1>2. \/ /\ pc' = "ended" /\ status' \in {"disabled", "invalid", "raised"} /\ todo' = {}
      \/ /\ pc' = "next" /\ status' = "running" /\ todo' = Cells(config)
         /\ config.entry = "experimental" => config.enabled /\ ConfigValid(config)
  BY <1>1 DEF Start, Ends
<1>3. ~InCell' /\ ~Looping' /\ pc' \in {"next", "ended"}
  BY <1>2 DEF InCell, Looping
<1>4. UNCHANGED <<cell, kv, full_state, compressed, draft, acceptance, committed, reference,
                  output, traces, blocker>>
  BY <1>1 DEF cellVars, round
<1>5. TypeOK'
  BY <1>1, <1>2, <1>4 DEF IInv, TypeOK
<1>6. reference' \in Seq(Token) /\ traces' \in Seq(Trace)
  BY <1>4 DEF IInv
<1>7. CellInv' /\ RestoredInv' /\ GreedyInv' /\ DraftInv' /\ AnswerInv' /\ JudgeInv'
  BY <1>3 DEF CellInv, RestoredInv, GreedyInv, DraftInv, AnswerInv, JudgeInv
<1>8. InjectedMismatchRejected'
  BY <1>1, <1>4 DEF IInv, InjectedMismatchRejected, Controlled
<1>9. ResultsInv'
  BY <1>1 DEF IInv, ResultsInv, Result, FailureOnlyTruncates, VerdictSound, Greedy!Continues
<1>10. CountInv'
  <2>1. CASE pc' = "ended"
    BY <1>1, <1>2, <2>1 DEF CountInv
  <2>2. CASE pc' = "next"
    <3>1. /\ IsFiniteSet(todo') /\ todo' = Cells(config)
          /\ Cardinality(todo') \in Nat /\ Cells(config') = Cells(config)
      BY <1>1, <1>2, <2>2, ConfigFacts, FS_CardinalityType
    <3>2. Len(results') = 0
      BY <1>1, EmptySeq, Zenon
    <3>3. status' = "running" /\ ~InCell' /\ (config.entry = "experimental" => config.enabled /\ ConfigValid(config))
      BY <1>2, <1>3, <2>2
    <3>4. Len(results') + Cardinality(todo') + 0 = Cardinality(Cells(config'))
      BY <3>1, <3>2
    <3>5. QED  BY <1>1, <2>2, <3>1, <3>3, <3>4 DEF CountInv
  <2>3. QED  BY <1>3, <2>1, <2>2
<1>11. QED  BY <1>5, <1>6, <1>7, <1>8, <1>9, <1>10 DEF IInv

LEMMA NextCellInv == IInv /\ NextCell => IInv'
<1> SUFFICES ASSUME IInv, NextCell
             PROVE  IInv'
  OBVIOUS
<1>1. PICK c \in todo : cell' = c /\ todo' = todo \ {c}
  BY DEF NextCell
<1>2. /\ pc = "next" /\ config \in Configs /\ c \in Cells(config)
      /\ UNCHANGED <<config, kv, full_state, compressed, results, status>>
      /\ reference' = <<>> /\ output' = <<>> /\ traces' = <<>>
      /\ draft' = <<>> /\ committed' = <<>>
      /\ blocker' = IF c.compressor = "unknown" /\ ~Controlled THEN "draft" ELSE ""
      /\ pc' = IF blocker' = "" THEN "restore" ELSE "judge"
  BY <1>1 DEF IInv, TypeOK, NextCell, ForgetRound
<1>3. /\ c.prompt \in Seq(Token) /\ c.compressor \in CompressorKinds \cup {"unknown"}
      /\ config.max_new_tokens \in Nat
  BY <1>2, ConfigFacts
<1>4. /\ \/ pc' = "restore" /\ blocker' = "" /\ (~Controlled => c.compressor \in CompressorKinds)
         \/ pc' = "judge" /\ blocker' = "draft" /\ c.compressor = "unknown"
      /\ InCell' /\ ~Looping'
  BY <1>2, <1>3 DEF InCell, Looping
<1>5. /\ Len(output') = 0 /\ Len(traces') = 0 /\ Len(reference') = 0
      /\ 0 <= config'.max_new_tokens
  <2>1. config' = config
    BY <1>2
  <2>2. 0 <= config'.max_new_tokens
    BY <1>3, <2>1
  <2>3. QED  BY <1>2, <2>2, EmptySeq, Zenon
<1>6. TypeOK'
  <2>1. draft' \in Seq(TokenId) /\ committed' \in Seq(Token) /\ output' \in Seq(Token)
    BY <1>2, EmptySeq, Zenon
  <2>2. \A i \in 1..Len(results') :
           results'[i].first_divergence \in Optional(0..config'.max_new_tokens)
    BY <1>2 DEF IInv, TypeOK
  <2>3. /\ config' \in Configs /\ todo' \subseteq Cells(config') /\ cell' \in Cells(config')
        /\ blocker' \in {"", "draft"} /\ pc' \in {"restore", "judge"}
        /\ Len(output') <= config'.max_new_tokens
    <3>1. Len(output') <= config'.max_new_tokens
      BY <1>5
    <3>2. QED  BY <1>1, <1>2, <1>3, <1>4, <3>1 DEF IInv, TypeOK
  <2>4. QED  BY <1>2, <2>1, <2>2, <2>3 DEF IInv, TypeOK
<1>7. reference' \in Seq(Token) /\ traces' \in Seq(Trace)
  BY <1>2, EmptySeq, Zenon
<1>8. CellInv'
  BY <1>1, <1>2, <1>4 DEF CellInv, Looping, Controlled
<1>9. RestoredInv' /\ DraftInv' /\ AnswerInv' /\ JudgeInv'
  BY <1>4 DEF RestoredInv, DraftInv, AnswerInv, JudgeInv
<1>10. GreedyInv'
  <2>1. Greedy!Continues(cell'.prompt, output')
    BY <1>5 DEF Greedy!Continues
  <2>2. Len(reference') <= config'.max_new_tokens
    BY <1>5
  <2>3. pc' = "restore" \/ BlockedAtStart'
    BY <1>1, <1>2, <1>4 DEF BlockedAtStart
  <2>4. QED  BY <2>1, <2>2, <2>3 DEF GreedyInv, Greedy!Continues
<1>11. InjectedMismatchRejected'
  BY <1>5 DEF InjectedMismatchRejected
<1>12. ResultsInv'
  BY <1>2 DEF IInv, ResultsInv, Result, FailureOnlyTruncates, VerdictSound, Greedy!Continues
<1>13. CountInv'
  <2>1. /\ IsFiniteSet(todo') /\ Cardinality(todo') = Cardinality(todo) - 1
        /\ Cardinality(todo) \in Nat
    BY <1>1, <1>2, FS_RemoveElement, FS_CardinalityType DEF IInv, CountInv
  <2>2. ~InCell /\ Len(results) \in Nat /\ Cardinality(Cells(config)) \in Nat
    BY <1>2, LenProperties, ConfigFacts, FS_CardinalityType DEF IInv, ResultsInv, InCell, Looping
  <2>3. Len(results) + Cardinality(todo) + 0 = Cardinality(Cells(config))
    BY <1>2, <2>2 DEF IInv, CountInv
  <2>4. Len(results) + Cardinality(todo') + 1 = Cardinality(Cells(config))
    BY <2>1, <2>2, <2>3
  <2>5. /\ config.entry = "experimental" => config.enabled /\ ConfigValid(config)
        /\ status = "running" /\ pc' \notin {"start", "ended"}
    BY <1>2, <1>4 DEF IInv, CountInv
  <2>6. QED  BY <1>2, <1>4, <2>1, <2>4, <2>5 DEF CountInv
<1>14. QED  BY <1>6, <1>7, <1>8, <1>9, <1>10, <1>11, <1>12, <1>13 DEF IInv

-----------------------------------------------------------------------------
(* The prefill is reloaded and compressed *)

\* The constants and variables a step in a cell relies on.
LEMMA CellFacts ==
    ASSUME IInv, InCell
    PROVE  /\ config \in Configs /\ config.max_new_tokens \in Nat
           /\ cell \in Cells(config)
           /\ cell.prompt \in Seq(Token) /\ cell.prompt # <<>>
           /\ cell.compressor \in CompressorKinds \cup {"unknown"}
           /\ cell.draft_len \in Nat
           /\ full_state.past_key_values = "full"
           /\ full_state.generated_ids \in Seq(Token) /\ full_state.next_token_id \in Token
           /\ reference \in Seq(Token)
           /\ output \in Seq(Token) /\ Len(output) \in Nat
           /\ Len(output) <= config.max_new_tokens
           /\ draft \in Seq(TokenId) /\ committed \in Seq(Token)
<1>1. config \in Configs /\ cell \in Cells(config)
  BY DEF IInv, TypeOK, CellInv
<1>2. QED  BY <1>1, ConfigFacts, LenProperties DEF IInv, TypeOK

\* A failure that is caught ends the cell where it is.
LEMMA BlockedInv ==
    ASSUME IInv, InCell, pc # "judge",
           UNCHANGED <<config, todo, cell, kv, full_state, compressed, draft, acceptance,
                       committed, reference, output, traces, results, status>>,
           pc' = "judge", blocker' \in {"restore", "draft", "verification"},
           pc = "restore" => blocker' = "restore"
    PROVE  IInv'
<1>1. InCell' /\ ~Looping'
  BY DEF InCell, Looping
<1>2. TypeOK'
  BY DEF IInv, TypeOK
<1>3. reference' \in Seq(Token) /\ traces' \in Seq(Trace)
  BY DEF IInv
<1>4. CellInv'
  BY DEF IInv, CellInv, Controlled
<1>5. RestoredInv' /\ DraftInv' /\ AnswerInv' /\ JudgeInv'
  BY <1>1 DEF RestoredInv, DraftInv, AnswerInv, JudgeInv
<1>6. GreedyInv'
  <2>1. pc = "restore" => output = <<>>
    BY DEF IInv, CellInv
  <2>2. QED  BY <2>1 DEF IInv, GreedyInv, BlockedAtStart, IsReference, Greedy!Continues
<1>7. InjectedMismatchRejected'
  BY DEF IInv, InjectedMismatchRejected, Controlled
<1>8. ResultsInv' /\ CountInv'
  BY <1>1, VerdictFrame DEF IInv
<1>9. QED  BY <1>2, <1>3, <1>4, <1>5, <1>6, <1>7, <1>8 DEF IInv

LEMMA RestoreInv == IInv /\ Restore => IInv'
<1> SUFFICES ASSUME IInv, Restore
             PROVE  IInv'
  OBVIOUS
<1> DEFINE cache == PrefillCache(cell.prompt)
<1>1. /\ pc = "restore" /\ InCell /\ ~Looping
      /\ UNCHANGED <<config, todo, cell, compressed, draft, acceptance, committed, output,
                     traces, results, status>>
  BY DEF Restore, round, InCell, Looping
<1>2. CASE Blocked("restore") /\ UNCHANGED <<kv, full_state, reference>>
  BY <1>1, <1>2, BlockedInv DEF Blocked
<1>3. CASE /\ kv' = [kv EXCEPT !["stored"] = cache, !["full"] = cache]
           /\ \E t \in Predictions(cache) :
                 full_state' = [ past_key_values |-> "full", generated_ids |-> <<>>,
                                 next_token_id   |-> t ]
           /\ reference' \in References(cell.prompt, config.max_new_tokens)
           /\ pc' = IF Controlled THEN "round" ELSE "compress"
           /\ UNCHANGED blocker
  <2>1. /\ cell.prompt \in Seq(Token) /\ config.max_new_tokens \in Nat
        /\ output = <<>> /\ traces = <<>> /\ blocker = ""
    BY <1>1, CellFacts DEF IInv, CellInv
  <2>2. /\ cache \in Cache /\ cache.tokens = cell.prompt
        /\ kv'["stored"] = cache /\ kv'["full"] = cache
        /\ kv' \in [{"stored", "full", "compressed"} -> Cache]
    BY <1>3, <2>1 DEF IInv, TypeOK, PrefillCache, Cache
  <2>3. /\ full_state' \in [past_key_values : {"full"}, generated_ids : Seq(Token),
                            next_token_id : Token]
        /\ full_state'.generated_ids = <<>>
        /\ full_state'.next_token_id = FullNext(cell.prompt)
    <3>1. PICK t \in Token : /\ t = FullNext(cell.prompt)
                             /\ full_state' = [ past_key_values |-> "full",
                                                generated_ids |-> <<>>, next_token_id |-> t ]
      BY <1>3 DEF Predictions, PrefillCache
    <3>2. <<>> \in Seq(Token)
      BY EmptySeq
    <3>3. QED  BY <3>1, <3>2
  <2>4. /\ reference' \in Seq(Token) /\ Len(reference') <= config.max_new_tokens
        /\ IsReference(cell.prompt, config.max_new_tokens, reference')
    BY <1>3, <2>1, UpToFacts DEF References
  <2>5. /\ pc' \in {"round", "compress"} /\ InCell'
        /\ pc' = "compress" => ~Controlled
        /\ blocker' = ""
    BY <1>3, <2>1 DEF InCell, Looping
  <2>6. TypeOK'
    BY <1>1, <2>2, <2>3, <2>5 DEF IInv, TypeOK
  <2>7. CellInv'
    BY <1>1, <2>1, <2>5 DEF IInv, CellInv, Controlled
  <2>8. RestoredInv'
    <3>1. WithoutEos(<<>>) = <<>> /\ <<>> \o <<>> = <<>> /\ cell.prompt \o <<>> = cell.prompt
      BY <2>1, EmptySeq, ConcatEmptySeq DEF WithoutEos, EndsWithEos
    <3>2. kv'["full"] = [tokens |-> cell.prompt \o WithoutEos(full_state'.generated_ids),
                         exact |-> TRUE]
      BY <2>2, <2>3, <3>1 DEF PrefillCache
    <3>3. Grown' = <<>>
      BY <1>1, <2>1, <2>5, <3>1 DEF Grown
    <3>4. full_state'.next_token_id = FullNext(cell'.prompt \o full_state'.generated_ids)
      BY <1>1, <2>3, <3>1
    <3>5. pc' = "round" => Controlled'
      BY <1>1, <1>3 DEF Controlled
    <3>6. pc' # "compress" => Controlled'
      BY <2>5, <3>5
    <3>7. kv'["stored"] = PrefillCache(cell'.prompt) /\ cell' = cell
      BY <1>1, <2>2
    <3>8. QED  BY <2>3, <3>2, <3>3, <3>4, <3>6, <3>7 DEF RestoredInv
  <2>9. GreedyInv'
    <3>1. Greedy!Continues(cell.prompt, output)
      BY <1>1 DEF IInv, GreedyInv
    <3>2. QED  BY <1>1, <2>4, <3>1 DEF GreedyInv, IsReference, Greedy!Continues
  <2>10. DraftInv' /\ AnswerInv' /\ JudgeInv'
    BY <2>5 DEF DraftInv, AnswerInv, JudgeInv
  <2>11. InjectedMismatchRejected'
    BY <1>1 DEF IInv, InjectedMismatchRejected, Controlled
  <2>12. ResultsInv' /\ CountInv'
    BY <1>1, <2>5, VerdictFrame DEF IInv
  <2>13. traces' \in Seq(Trace)
    BY <1>1 DEF IInv
  <2>14. QED
    BY <2>4, <2>6, <2>7, <2>8, <2>9, <2>10, <2>11, <2>12, <2>13 DEF IInv
<1>4. QED  BY <1>2, <1>3 DEF Restore, RestoredRef

\* compress() and update_after_commit() leave the restored and the stored cache
\* alone and take over the length of the state they are given.
LEMMA RecompressFacts ==
    ASSUME IInv, InCell, cell.compressor \in CompressorKinds, Recompress(full_state)
    PROVE  /\ kv' \in [{"stored", "full", "compressed"} -> Cache]
           /\ kv'["full"] = kv["full"] /\ kv'["stored"] = kv["stored"]
           /\ compressed' \in [data : {"full", "compressed"}, next_token_id : TokenId,
                               logical_seq_len : Nat]
           /\ compressed'.logical_seq_len = Len(cell.prompt) + Len(full_state.generated_ids)
<1>1. /\ cell.prompt \in Seq(Token) /\ full_state.past_key_values = "full"
      /\ full_state.generated_ids \in Seq(Token) /\ full_state.next_token_id \in Token
      /\ kv \in [{"stored", "full", "compressed"} -> Cache]
  BY CellFacts DEF IInv, TypeOK
<1>2. kv' = kv \/ kv' = [kv EXCEPT !["compressed"] = [kv["full"] EXCEPT !.exact = FALSE]]
  BY <1>1 DEF Recompress
<1>3. [kv["full"] EXCEPT !.exact = FALSE] \in Cache
  <2>1. kv["full"] \in Cache
    BY <1>1
  <2>2. QED  BY <2>1 DEF Cache
<1>4. PICK next \in CompressedNext(cell.compressor, full_state.next_token_id) :
         compressed' = [ data |-> IF cell.compressor # "noop" THEN "compressed"
                                  ELSE full_state.past_key_values,
                         next_token_id   |-> next,
                         logical_seq_len |-> Len(cell.prompt) + Len(full_state.generated_ids) ]
  BY DEF Recompress
<1>5. next \in TokenId
  BY <1>1, <1>4, TokenFacts
<1>6. Len(cell.prompt) + Len(full_state.generated_ids) \in Nat
  <2>1. Len(cell.prompt) \in Nat /\ Len(full_state.generated_ids) \in Nat
    <3>1. Len(cell.prompt) \in Nat
      BY <1>1, LenProperties
    <3>2. Len(full_state.generated_ids) \in Nat
      BY <1>1, LenProperties
    <3>3. QED  BY <3>1, <3>2
  <2>2. PICK a \in Nat, b \in Nat : a = Len(cell.prompt) /\ b = Len(full_state.generated_ids)
    BY <2>1
  <2>3. a + b \in Nat
    OBVIOUS
  <2>4. QED  BY <2>2, <2>3
<1>7. QED  BY <1>1, <1>2, <1>3, <1>4, <1>5, <1>6

LEMMA CompressInv == IInv /\ Compress => IInv'
<1> SUFFICES ASSUME IInv, Compress
             PROVE  IInv'
  OBVIOUS
<1>1. /\ pc = "compress" /\ InCell /\ ~Looping
      /\ UNCHANGED <<config, todo, cell, full_state, draft, acceptance, committed, reference,
                     output, traces, results, status>>
  BY DEF Compress, round, InCell, Looping
<1>2. CASE Blocked("draft") /\ UNCHANGED <<kv, compressed>>
  BY <1>1, <1>2, BlockedInv DEF Blocked
<1>3. CASE Recompress(full_state) /\ pc' = "round" /\ UNCHANGED blocker
  <2>1. /\ ~Controlled /\ cell.compressor \in CompressorKinds /\ blocker = "" /\ output = <<>>
    BY <1>1 DEF IInv, CellInv
  <2>2. /\ kv' \in [{"stored", "full", "compressed"} -> Cache]
        /\ kv'["full"] = kv["full"] /\ kv'["stored"] = kv["stored"]
        /\ compressed' \in [data : {"full", "compressed"}, next_token_id : TokenId,
                            logical_seq_len : Nat]
        /\ compressed'.logical_seq_len = Len(cell.prompt) + Len(full_state.generated_ids)
    BY <1>1, <1>3, <2>1, RecompressFacts
  <2>3. InCell'
    BY <1>3 DEF InCell, Looping
  <2>4. TypeOK'
    BY <1>1, <1>3, <2>2 DEF IInv, TypeOK
  <2>5. CellInv'
    BY <1>1, <1>3, <2>1 DEF IInv, CellInv, Controlled
  <2>6. RestoredInv'
    <3>1. Grown' = Grown
      BY <1>1, <1>3 DEF Grown
    <3>2. Grown = output
      BY <1>1, CellFacts, ConcatEmptySeq DEF Grown
    <3>3. QED  BY <1>1, <1>3, <2>2, <3>1, <3>2 DEF IInv, RestoredInv
  <2>7. GreedyInv'
    BY <1>1, <1>3 DEF IInv, GreedyInv, BlockedAtStart, IsReference, Greedy!Continues
  <2>8. DraftInv' /\ AnswerInv' /\ JudgeInv'
    BY <1>3 DEF DraftInv, AnswerInv, JudgeInv
  <2>9. InjectedMismatchRejected' /\ reference' \in Seq(Token) /\ traces' \in Seq(Trace)
    BY <1>1 DEF IInv, InjectedMismatchRejected, Controlled
  <2>10. ResultsInv' /\ CountInv'
    BY <1>1, <2>3, VerdictFrame DEF IInv
  <2>11. QED  BY <2>4, <2>5, <2>6, <2>7, <2>8, <2>9, <2>10 DEF IInv
<1>4. QED  BY <1>2, <1>3 DEF Compress

-----------------------------------------------------------------------------
(* Drafting *)

LEMMA BudgetFacts ==
    ASSUME IInv, InCell
    PROVE  /\ Remaining \in Nat /\ RoundDraftLen \in Nat
           /\ Remaining = config.max_new_tokens - Len(output)
           /\ RoundDraftLen <= Remaining /\ RoundDraftLen <= cell.draft_len
           /\ MoreToDo /\ RoundDraftLen = 0 => cell.draft_len = 0
           /\ MoreToDo <=> Len(output) < config.max_new_tokens /\ ~EndsWithEos(output)
<1>1. /\ Len(output) \in Nat /\ config.max_new_tokens \in Nat /\ cell.draft_len \in Nat
      /\ Len(output) <= config.max_new_tokens
  BY CellFacts
<1>2. QED  BY <1>1 DEF Remaining, RoundDraftLen, MoreToDo, Smaller

\* As long as there is more to do, the output is a proper prefix of the reference.
LEMMA OutputInReference ==
    ASSUME IInv, InCell, pc # "restore", ~BlockedAtStart
    PROVE  /\ IsReference(cell.prompt, config.max_new_tokens, reference)
           /\ Greedy!Continues(cell.prompt, reference)
           /\ Len(reference) \in Nat /\ Len(output) <= Len(reference)
           /\ \A i \in 1..Len(output) : output[i] = reference[i]
           /\ MoreToDo => Len(output) < Len(reference)
           /\ ~MoreToDo => output = reference
<1>1. /\ IsReference(cell.prompt, config.max_new_tokens, reference)
      /\ Len(reference) <= config.max_new_tokens
      /\ Greedy!Continues(cell.prompt, output)
  BY DEF IInv, GreedyInv
<1>2. /\ cell.prompt \in Seq(Token) /\ reference \in Seq(Token) /\ output \in Seq(Token)
      /\ config.max_new_tokens \in Nat /\ Len(output) <= config.max_new_tokens
      /\ Len(output) \in Nat /\ Len(reference) \in Nat
  BY CellFacts, LenProperties
<1>3. /\ Len(output) <= Len(reference)
      /\ \A i \in 1..Len(output) : output[i] = reference[i]
      /\ Len(output) = config.max_new_tokens \/ EndsWithEos(output) => output = reference
  BY <1>1, <1>2, PrefixOfReference
<1>4. MoreToDo <=> Len(output) < config.max_new_tokens /\ ~EndsWithEos(output)
  BY BudgetFacts
<1>5. ASSUME MoreToDo, Len(output) = Len(reference)
      PROVE  FALSE
  <2>1. output = reference
    BY <1>2, <1>3, <1>5, SeqEqual
  <2>2. QED  BY <1>1, <1>4, <1>5, <2>1 DEF IsReference
<1>6. QED  BY <1>1, <1>2, <1>3, <1>4, <1>5 DEF IsReference

\* What the model predicts after the output and tokens of the reference.
LEMMA ReferenceNext ==
    ASSUME IInv, InCell, pc # "restore", ~BlockedAtStart,
           NEW x \in Seq(Token), Len(output) + Len(x) < Len(reference),
           \A j \in 1..Len(x) : x[j] = reference[Len(output) + j]
    PROVE  FullNext((cell.prompt \o output) \o x) = reference[Len(output) + Len(x) + 1]
<1>1. PICK m \in Nat, k \in Nat, r \in Nat :
         m = Len(output) /\ k = Len(x) /\ r = Len(reference)
  BY CellFacts, LenProperties
<1>2. /\ Greedy!Continues(cell.prompt, reference)
      /\ \A i \in 1..m : output[i] = reference[i]
      /\ cell.prompt \in Seq(Token) /\ reference \in Seq(Token) /\ output \in Seq(Token)
  BY <1>1, CellFacts, OutputInReference
<1>3. /\ output \o x \in Seq(Token) /\ Len(output \o x) = m + k
      /\ \A i \in 1..m + k : (output \o x)[i] = IF i <= m THEN output[i] ELSE x[i - m]
  BY <1>1, <1>2, ConcatProperties
<1>4. \A i \in 1..m + k : (output \o x)[i] = reference[i]
  <2>1. ASSUME NEW i \in 1..m + k
        PROVE  (output \o x)[i] = reference[i]
    <3>1. CASE i <= m
      <4>1. i \in 1..m /\ (output \o x)[i] = output[i]
        BY <1>3, <3>1
      <4>2. QED  BY <1>2, <4>1
    <3>2. CASE i > m
      <4>1. PICK j \in 1..k : j = i - m /\ m + j = i
        BY <3>2
      <4>2. (output \o x)[i] = x[j]
        BY <1>3, <3>2, <4>1
      <4>3. x[j] = reference[m + j]
        BY <1>1, <4>1
      <4>4. QED  BY <4>1, <4>2, <4>3
    <3>3. i <= m \/ i > m
      OBVIOUS
    <3>4. QED  BY <3>1, <3>2, <3>3
  <2>2. QED  BY <2>1
<1>5. /\ SubSeq(reference, 1, m + k) \in Seq(Token)
      /\ Len(SubSeq(reference, 1, m + k)) = m + k
      /\ \A i \in 1..m + k : SubSeq(reference, 1, m + k)[i] = reference[i]
  <2>1. \A i \in 1..m + k : reference[i] \in Token
    BY <1>1, <1>2, ElementOfSeq
  <2>2. QED  BY <2>1, SubSeqProperties
<1>6. output \o x = SubSeq(reference, 1, m + k)
  BY <1>3, <1>4, <1>5, SeqEqual
<1>7. cell.prompt \o (output \o x) = (cell.prompt \o output) \o x
  <2>1. \A s, t, u \in Seq(Token) : (s \o t) \o u = s \o (t \o u)
    BY ConcatAssociative
  <2>2. QED  BY <1>2, <2>1, Zenon
<1>8. m + k + 1 \in 1..Len(reference) /\ (m + k + 1) - 1 = m + k
  BY <1>1
<1>9. reference[m + k + 1] = FullNext(cell.prompt \o SubSeq(reference, 1, m + k))
  <2>1. reference[m + k + 1] = FullNext(cell.prompt \o SubSeq(reference, 1, (m + k + 1) - 1))
    BY <1>2, <1>8 DEF Greedy!Continues
  <2>2. QED  BY <1>8, <2>1
<1>10. QED  BY <1>1, <1>6, <1>7, <1>9

\* A controlled draft is the reference's next tokens but for the injected one,
\* and empty only if no draft is asked for.
LEMMA ProposedFacts ==
    ASSUME IInv, InCell, pc # "restore", ~BlockedAtStart, MoreToDo
    PROVE  LET d == propose_controlled_draft(RoundDraftLen)
           IN  /\ d \in Seq(Token) /\ Len(d) \in Nat /\ Len(d) <= RoundDraftLen
               /\ Len(output) + Len(d) <= Len(reference)
               /\ d = <<>> => RoundDraftLen = 0
               /\ \A i \in 1..Len(d) :
                     IF OddRound /\ Len(d) >= 2 /\ i = 2
                     THEN d[i] # reference[Len(output) + i]
                     ELSE d[i] = reference[Len(output) + i]
<1> DEFINE d == propose_controlled_draft(RoundDraftLen)
           last == Smaller(Len(output) + RoundDraftLen, Len(reference))
           chunk == SubSeq(reference, Len(output) + 1, last)
<1>1. PICK m \in Nat, n \in Nat, r \in Nat :
         m = Len(output) /\ n = RoundDraftLen /\ r = Len(reference)
  BY CellFacts, BudgetFacts, LenProperties
<1>2. m < r /\ reference \in Seq(Token) /\ Greedy!Continues(cell.prompt, reference)
  BY <1>1, CellFacts, OutputInReference
<1>3. PICK k \in Nat : k <= n /\ m + k <= r /\ last = m + k /\ (k = 0 => n = 0)
  <2>1. CASE m + n <= r
    <3>1. last = m + n
      BY <1>1, <2>1 DEF Smaller
    <3> HIDE DEF last
    <3>2. QED  BY <2>1, <3>1
  <2>2. CASE ~(m + n <= r)
    <3>1. last = r
      BY <1>1, <2>2 DEF Smaller
    <3>2. r - m \in Nat /\ r - m <= n /\ m + (r - m) = r /\ r - m # 0
      BY <1>1, <1>2, <2>2
    <3> HIDE DEF last
    <3>3. QED  BY <3>1, <3>2
  <2>3. QED  BY <2>1, <2>2
<1>4. /\ chunk \in Seq(Token) /\ Len(chunk) = k
      /\ \A i \in 1..k : chunk[i] = reference[m + i]
  <2> HIDE DEF last
  <2>1. \A i \in m + 1..m + k : reference[i] \in Token
    BY <1>1, <1>2, <1>3, ElementOfSeq
  <2>2. /\ SubSeq(reference, m + 1, m + k) \in Seq(Token)
        /\ Len(SubSeq(reference, m + 1, m + k)) = IF m + 1 <= m + k THEN (m + k) - (m + 1) + 1 ELSE 0
        /\ \A i \in 1..(m + k) - (m + 1) + 1 :
              SubSeq(reference, m + 1, m + k)[i] = reference[(m + 1) + i - 1]
    BY <2>1, SubSeqProperties
  <2>3. chunk = SubSeq(reference, m + 1, m + k)
    BY <1>1, <1>3
  <2> HIDE DEF chunk
  <2>4. \A i \in 1..k : i \in 1..(m + k) - (m + 1) + 1 /\ (m + 1) + i - 1 = m + i
    OBVIOUS
  <2>5. Len(chunk) = k
    BY <2>2, <2>3
  <2>6. ASSUME NEW i \in 1..k
        PROVE  chunk[i] = reference[m + i]
    <3>1. chunk[i] = reference[(m + 1) + i - 1]
      BY <2>2, <2>3, <2>4
    <3>2. QED  BY <2>4, <3>1
  <2>7. QED  BY <2>2, <2>3, <2>5, <2>6
<1>5. d = IF OddRound /\ Len(chunk) >= 2
          THEN [chunk EXCEPT ![2] = (@ + 1) % VocabSize] ELSE chunk
  BY DEF propose_controlled_draft
<1> HIDE DEF d, chunk, last
<1>6. CASE ~(OddRound /\ Len(chunk) >= 2)
  <2>1. d = chunk
    BY <1>5, <1>6
  <2>2. d = <<>> => k = 0
    BY <1>4, <2>1, EmptySeq
  <2>3. \A i \in 1..Len(d) : d[i] = reference[m + i]
    BY <1>4, <2>1
  <2>4. ~(OddRound /\ Len(d) >= 2)
    BY <1>6, <2>1
  <2>5. QED  BY <1>1, <1>3, <1>4, <2>1, <2>2, <2>3, <2>4 DEF d
<1>7. CASE OddRound /\ Len(chunk) >= 2
  <2> DEFINE e == (chunk[2] + 1) % VocabSize
  <2>1. k >= 2 /\ chunk[1] \in Token /\ chunk[2] \in Token /\ chunk[1] # EOS
    <3>1. k >= 2 /\ 1 \in 1..Len(chunk) /\ 2 \in 1..Len(chunk)
      BY <1>4, <1>7
    <3>2. chunk[1] = reference[m + 1] /\ m + 1 \in 1..Len(reference) /\ m + 1 < Len(reference)
      BY <1>1, <1>3, <1>4, <3>1
    <3>3. QED  BY <1>2, <1>4, <3>1, <3>2, ElementOfSeq DEF Greedy!Continues
  <2>2. VocabSize \in Nat /\ VocabSize > 1
    <3>1. EOS \in Token /\ VocabSize \in Nat \ {0}
      BY ModelOK
    <3>2. QED  BY <2>1, <3>1 DEF Token
  <2>3. e \in Token /\ e # chunk[2]
    <3>1. PICK t \in 0..(VocabSize - 1) : t = chunk[2]
      BY <2>1 DEF Token
    <3>2. CASE t + 1 < VocabSize
      <4>1. (t + 1) % VocabSize = t + 1
        BY <2>2, <3>2
      <4>2. QED  BY <2>2, <3>1, <3>2, <4>1 DEF Token
    <3>3. CASE t + 1 = VocabSize
      <4>1. (t + 1) % VocabSize = 0
        BY <2>2, <3>3
      <4>2. QED  BY <2>2, <3>1, <3>3, <4>1 DEF Token
    <3>4. QED  BY <2>2, <3>2, <3>3
  <2> HIDE DEF e
  <2>4. d = [chunk EXCEPT ![2] = e]
    BY <1>5, <1>7 DEF e
  <2>5. 2 \in 1..Len(chunk)
    BY <1>7, <1>4
  <2>6. /\ d \in Seq(Token) /\ Len(d) = k
        /\ \A i \in 1..Len(chunk) : d[i] = IF i = 2 THEN e ELSE chunk[i]
    BY <1>4, <2>3, <2>4, <2>5, ExceptSeq
  <2>7. \A i \in 1..Len(d) : IF i = 2 THEN d[i] # reference[m + i] ELSE d[i] = reference[m + i]
    BY <1>4, <2>3, <2>6
  <2>8. d # <<>>
    BY <2>1, <2>6, EmptySeq
  <2>9. Len(d) >= 2 /\ OddRound
    BY <1>7, <2>1, <2>6
  <2>10. QED  BY <1>1, <1>3, <2>6, <2>7, <2>8, <2>9 DEF d
<1>8. QED  BY <1>6, <1>7

\* A draft on the compressed cache has EOS at its end only, and is empty only if
\* no draft is asked for.
LEMMA LossyFacts ==
    ASSUME TypeOK, NEW n \in Nat, NEW d \in LossyDrafts(n)
    PROVE  /\ d \in Seq(TokenId) /\ Len(d) \in Nat /\ Len(d) <= n
           /\ d = <<>> => n = 0
           /\ \A i \in 1..(Len(d) - 1) : d[i] # EOS
<1>1. CASE n = 0
  <2>1. d = <<>>
    BY <1>1 DEF LossyDrafts
  <2>2. Len(d) = 0
    BY <2>1, EmptySeq, Zenon
  <2>3. d \in Seq(TokenId)
    BY <2>1, EmptySeq, Zenon
  <2>4. QED  BY <1>1, <2>2, <2>3
<1>2. CASE n # 0
  <2> DEFINE x == compressed.next_token_id
  <2>0. n - 1 \in Nat
    BY <1>2
  <2>1. x \in TokenId /\ n - 1 \in Nat
    <3>1. compressed \in [data : {"full", "compressed"}, next_token_id : TokenId,
                           logical_seq_len : Nat]
      BY DEF TypeOK
    <3>2. QED  BY <2>0, <3>1
  <2>2. PICK s \in UpTo(n - 1) : d = <<x>> \o s
    BY <1>2 DEF LossyDrafts
  <2>3. \A i \in 2..Len(d) : d[i - 1] \in Token \ {EOS}
    BY <1>2 DEF LossyDrafts
  <2>4. s \in Seq(Token) /\ Len(s) <= n - 1
    BY <2>1, <2>2, UpToFacts
  <2>5. s \in Seq(TokenId) /\ <<x>> \in Seq(TokenId) /\ Len(<<x>>) = 1 /\ Len(s) \in Nat
    <3>1. s \in Seq(TokenId) /\ Len(s) \in Nat
      BY <2>4, TokenFacts, SeqMonotonic, LenProperties
    <3> HIDE DEF x
    <3>2. <<x>> \in Seq(TokenId) /\ Len(<<x>>) = 1
      BY <2>1
    <3>3. QED  BY <3>1, <3>2
  <2> HIDE DEF x
  <2>6. d \in Seq(TokenId) /\ Len(d) = 1 + Len(s)
    BY <2>2, <2>5, ConcatProperties
  <2>7. Len(d) \in Nat /\ Len(d) <= n /\ Len(d) # 0
    BY <2>4, <2>5, <2>6
  <2>8. d # <<>>
    BY <2>7, EmptySeq
  <2>9. ASSUME NEW i \in 1..(Len(d) - 1)
        PROVE  d[i] # EOS
    <3>1. i + 1 \in 2..Len(d) /\ (i + 1) - 1 = i
      BY <2>7
    <3>2. d[(i + 1) - 1] \in Token \ {EOS}
      BY <2>3, <3>1
    <3>3. QED  BY <3>1, <3>2
  <2>10. QED  BY <2>6, <2>7, <2>8, <2>9
<1>3. QED  BY <1>1, <1>2

LEMMA DraftStepInv == IInv /\ Draft => IInv'
<1> SUFFICES ASSUME IInv, Draft
             PROVE  IInv'
  OBVIOUS
<1>1. /\ pc = "round" /\ InCell /\ Looping /\ ~BlockedAtStart /\ MoreToDo
      /\ UNCHANGED <<config, todo, cell, reference, kv, full_state, compressed, acceptance,
                     committed, output, traces, results, status>>
  BY DEF Draft, InCell, Looping, BlockedAtStart
<1>2. CASE Blocked("draft") /\ UNCHANGED draft
  BY <1>1, <1>2, BlockedInv DEF Blocked
<1>3. CASE draft' \in Drafts /\ pc' = AfterDraft(draft') /\ UNCHANGED blocker
  <2>1. /\ blocker = "" /\ RoundDraftLen \in Nat /\ (RoundDraftLen = 0 => cell.draft_len = 0)
    BY <1>1, BudgetFacts DEF IInv, CellInv
  <2>2. /\ draft' \in Seq(TokenId) /\ Len(draft') \in Nat /\ Len(draft') <= RoundDraftLen
        /\ draft' = <<>> => RoundDraftLen = 0
        /\ Controlled => draft' = propose_controlled_draft(RoundDraftLen)
        /\ \A i \in 1..(Len(draft') - 1) : draft'[i] = EOS =>
              draft'[i] # FullNext((cell.prompt \o output) \o SubSeq(draft', 1, i - 1))
    <3>1. CASE Controlled
      <4>1. PICK d \in Seq(Token) : d = draft'
        BY <1>1, <1>3, <3>1, ProposedFacts DEF Drafts
      <4>2. /\ draft' = propose_controlled_draft(RoundDraftLen)
            /\ Len(d) \in Nat /\ Len(d) <= RoundDraftLen
            /\ Len(output) + Len(d) <= Len(reference)
            /\ d = <<>> => RoundDraftLen = 0
            /\ \A i \in 1..Len(d) :
                  IF OddRound /\ Len(d) >= 2 /\ i = 2
                  THEN d[i] # reference[Len(output) + i]
                  ELSE d[i] = reference[Len(output) + i]
        <5>1. draft' = propose_controlled_draft(RoundDraftLen)
          BY <1>3, <3>1 DEF Drafts
        <5>2. QED  BY <1>1, <4>1, <5>1, ProposedFacts
      <4>3. /\ reference \in Seq(Token) /\ Len(output) \in Nat /\ Len(reference) \in Nat
            /\ Greedy!Continues(cell.prompt, reference)
        BY <1>1, CellFacts, OutputInReference
      <4>4. ASSUME NEW i \in 1..(Len(d) - 1), d[i] = EOS
            PROVE  d[i] # FullNext((cell.prompt \o output) \o SubSeq(d, 1, i - 1))
        <5>1. PICK m \in Nat, r \in Nat, n \in Nat :
                 m = Len(output) /\ r = Len(reference) /\ n = Len(d)
          BY <4>2, <4>3
        <5>2. i \in 1..n /\ m + i \in 1..r /\ m + i < r
          BY <4>2, <5>1
        <5>3. reference[m + i] # EOS
          BY <4>3, <5>1, <5>2 DEF Greedy!Continues
        <5>4. i = 2
          BY <4>2, <4>4, <5>1, <5>2, <5>3
        <5>5. OddRound /\ Len(d) >= 2 /\ d[2] # reference[m + 2]
          BY <4>2, <4>4, <5>1, <5>2, <5>3, <5>4
        <5>6. d[1] = reference[m + 1]
          BY <4>2, <5>1, <5>2
        <5> DEFINE x == SubSeq(d, 1, 1)
        <5>7. x \in Seq(Token) /\ Len(x) = 1 /\ x[1] = d[1]
          <6>1. \A j \in 1..1 : d[j] \in Token
            BY <5>1, <5>2, ElementOfSeq
          <6>2. QED  BY <6>1, SubSeqProperties
        <5> HIDE DEF x
        <5>8. Len(output) + Len(x) < Len(reference)
          BY <5>1, <5>2, <5>4, <5>7
        <5>9. \A j \in 1..Len(x) : x[j] = reference[Len(output) + j]
          BY <5>1, <5>6, <5>7
        <5>10. FullNext((cell.prompt \o output) \o x) = reference[Len(output) + Len(x) + 1]
          BY <1>1, <5>7, <5>8, <5>9, ReferenceNext
        <5>11. Len(output) + Len(x) + 1 = m + 2
          BY <5>1, <5>7
        <5>12. SubSeq(d, 1, i - 1) = x
          BY <5>4 DEF x
        <5>13. QED  BY <5>4, <5>5, <5>10, <5>11, <5>12
      <4>5. d \in Seq(TokenId)
        BY TokenFacts, SeqMonotonic
      <4>6. QED  BY <4>1, <4>2, <4>4, <4>5
    <3>2. CASE ~Controlled
      <4>1. draft' \in LossyDrafts(RoundDraftLen)
        BY <1>3, <3>2 DEF Drafts
      <4>2. QED  BY <2>1, <3>2, <4>1, LossyFacts DEF IInv
    <3>3. QED  BY <3>1, <3>2
  <2>3. /\ draft' = <<>> => pc' = "judge" /\ cell.draft_len = 0
        /\ draft' # <<>> => pc' = "verify"
        /\ InCell' /\ ~BlockedAtStart'
    BY <1>3, <2>1, <2>2 DEF AfterDraft, InCell, Looping, BlockedAtStart
  <2>4. TypeOK'
    BY <1>1, <1>3, <2>2, <2>3 DEF IInv, TypeOK
  <2>5. CellInv'
    BY <1>1, <1>3, <2>1, <2>3 DEF IInv, CellInv, Controlled
  <2>6. RestoredInv'
    BY <1>1, <2>3 DEF IInv, RestoredInv, Grown, Controlled, Looping
  <2>7. GreedyInv'
    BY <1>1, <2>3 DEF IInv, GreedyInv, IsReference, Greedy!Continues
  <2>8. DraftInv'
    <3>1. /\ RoundDraftLen' = RoundDraftLen /\ (MoreToDo' <=> MoreToDo)
          /\ (Controlled' <=> Controlled)
          /\ propose_controlled_draft(RoundDraftLen)' = propose_controlled_draft(RoundDraftLen)
      BY <1>1 DEF RoundDraftLen, MoreToDo, Remaining, Controlled, propose_controlled_draft,
                  OddRound
    <3>2. cell' = cell /\ output' = output
      BY <1>1
    <3>3. pc' # "extend" /\ pc' # "commit" /\ pc' # "update" /\ (pc' = "verify" => draft' # <<>>)
      BY <2>3
    <3>4. QED  BY <1>1, <2>2, <3>1, <3>2, <3>3 DEF DraftInv
  <2>9. AnswerInv'
    BY <2>3 DEF AnswerInv
  <2>10. JudgeInv'
    BY <1>1, <2>3 DEF JudgeInv
  <2>11. InjectedMismatchRejected' /\ reference' \in Seq(Token) /\ traces' \in Seq(Trace)
    BY <1>1 DEF IInv, InjectedMismatchRejected, Controlled
  <2>12. ResultsInv' /\ CountInv'
    BY <1>1, <2>3, VerdictFrame DEF IInv
  <2>13. QED
    BY <2>4, <2>5, <2>6, <2>7, <2>8, <2>9, <2>10, <2>11, <2>12 DEF IInv
<1>4. QED  BY <1>2, <1>3 DEF Draft

LEMMA LoopEndsInv == IInv /\ LoopEnds => IInv'
<1> SUFFICES ASSUME IInv, LoopEnds
             PROVE  IInv'
  OBVIOUS
<1>1. /\ pc = "round" /\ InCell /\ Looping /\ ~BlockedAtStart /\ ~MoreToDo
      /\ pc' = "judge" /\ InCell' /\ ~Looping'
      /\ UNCHANGED <<config, todo, results, status, cell, kv, full_state, compressed, draft,
                     acceptance, committed, reference, output, traces, blocker>>
  BY DEF LoopEnds, InCell, Looping, BlockedAtStart, cellVars, round
<1>2. blocker = ""
  BY <1>1 DEF IInv, CellInv
<1>3. TypeOK'
  BY <1>1 DEF IInv, TypeOK
<1>4. CellInv'
  BY <1>1 DEF IInv, CellInv, Controlled
<1>5. RestoredInv' /\ DraftInv' /\ AnswerInv'
  BY <1>1 DEF RestoredInv, DraftInv, AnswerInv
<1>6. GreedyInv'
  BY <1>1 DEF IInv, GreedyInv, BlockedAtStart, IsReference, Greedy!Continues
<1>7. JudgeInv'
  BY <1>1 DEF JudgeInv, MoreToDo, Remaining
<1>8. InjectedMismatchRejected' /\ reference' \in Seq(Token) /\ traces' \in Seq(Trace)
  BY <1>1 DEF IInv, InjectedMismatchRejected, Controlled
<1>9. ResultsInv' /\ CountInv'
  BY <1>1, VerdictFrame DEF IInv
<1>10. QED  BY <1>3, <1>4, <1>5, <1>6, <1>7, <1>8, <1>9 DEF IInv

-----------------------------------------------------------------------------
(* Verifying and committing *)

\* A cache whose tokens are replaced.
LEMMA WithTokens ==
    ASSUME NEW x, NEW e, NEW z
    PROVE  [[tokens |-> x, exact |-> e] EXCEPT !.tokens = z] = [tokens |-> z, exact |-> e]
OBVIOUS

LEMMA LongerCache ==
    ASSUME NEW x, NEW e, NEW y
    PROVE  [[tokens |-> x, exact |-> e] EXCEPT !.tokens = @ \o y] =
              [tokens |-> x \o y, exact |-> e]
<1> DEFINE c == [tokens |-> x, exact |-> e]
<1>1. c.tokens = x
  OBVIOUS
<1>2. [c EXCEPT !.tokens = x \o y] = [tokens |-> x \o y, exact |-> e]
  BY WithTokens, Zenon
<1> HIDE DEF c
<1>3. [c EXCEPT !.tokens = @ \o y] = [tokens |-> x \o y, exact |-> e]
  BY <1>1, <1>2, Zenon
<1>4. QED  BY <1>3 DEF c

\* The verifier answers a draft, and its answer continues the output greedily.
LEMMA VerifierFacts ==
    ASSUME IInv, pc = "verify", NEW v \in VerifierTokens(draft)
    PROVE  /\ v \in UpTo(Len(draft)) /\ Answers(v, draft)
           /\ Greedy!Continues(cell.prompt, output \o v)
<1> DEFINE c == cell.prompt
           d == draft
<1>1. InCell /\ Looping
  BY DEF InCell, Looping
<1>2. /\ c \in Seq(Token) /\ output \in Seq(Token) /\ d \in Seq(TokenId) /\ Len(d) \in Nat
      /\ Greedy!Continues(c, output)
  <2>1. c \in Seq(Token) /\ output \in Seq(Token) /\ d \in Seq(TokenId)
    BY <1>1, CellFacts
  <2>2. QED  BY <1>1, <2>1, LenProperties DEF IInv, GreedyInv
<1>3. /\ ~EndsWithEos(output)
      /\ \A i \in 1..(Len(d) - 1) : d[i] = EOS =>
            d[i] # FullNext((c \o output) \o SubSeq(d, 1, i - 1))
  BY DEF IInv, DraftInv, MoreToDo
<1>4. /\ v \in UpTo(Len(d)) /\ v # <<>> /\ v[1] = full_state.next_token_id
      /\ \A i \in 2..Len(v) : /\ v[i - 1] = d[i - 1]
                              /\ v[i] \in After(full_state.past_key_values, SubSeq(d, 1, i - 1))
      /\ Len(v) = Len(d) \/ v[Len(v)] # d[Len(v)]
  BY DEF VerifierTokens
<1>5. v \in Seq(Token) /\ Len(v) <= Len(d) /\ Len(v) \in Nat /\ Len(v) # 0
  BY <1>2, <1>4, UpToFacts, LenProperties, EmptySeq
<1>6. /\ kv["full"] = [tokens |-> c \o output, exact |-> TRUE]
      /\ full_state.next_token_id = FullNext(c \o output)
      /\ full_state.past_key_values = "full"
  <2>1. Grown = output
    BY <1>2, ConcatEmptySeq DEF Grown
  <2>2. WithoutEos(output) = output
    BY <1>3 DEF WithoutEos
  <2>3. QED  BY <1>1, <1>3, <2>1, <2>2, CellFacts DEF IInv, RestoredInv
<1> HIDE DEF c, d
<1>7. \A i \in 1..(Len(v) - 1) : d[i] = v[i]
  <2>1. ASSUME NEW i \in 1..(Len(v) - 1)
        PROVE  d[i] = v[i]
    <3>1. PICK j \in 2..Len(v) : j - 1 = i
      <4>1. i + 1 \in 2..Len(v) /\ (i + 1) - 1 = i
        BY <1>5
      <4>2. QED  BY <4>1
    <3>2. QED  BY <1>4, <3>1
  <2>2. QED  BY <2>1
<1>8. \A i \in 1..Len(v) : /\ v[i] = FullNext((c \o output) \o SubSeq(v, 1, i - 1))
                           /\ v[i] = FullNext((c \o output) \o SubSeq(d, 1, i - 1))
  <2>1. ASSUME NEW i \in 1..Len(v)
        PROVE  SubSeq(v, 1, i - 1) = SubSeq(d, 1, i - 1)
    <3>1. PICK k \in Nat : k = i - 1 /\ k <= Len(v) /\ k <= Len(d)
      BY <1>2, <1>5
    <3>2. \A j \in 1..k : v[j] = d[j]
      BY <1>5, <1>7, <3>1
    <3>3. QED  BY <1>2, <1>5, <3>1, <3>2, SamePrefix
  <2>2. ASSUME NEW i \in 1..Len(v)
        PROVE  v[i] = FullNext((c \o output) \o SubSeq(d, 1, i - 1))
    <3>1. CASE i = 1
      <4>1. SubSeq(d, 1, i - 1) = <<>>
        BY <3>1, SubSeqEmpty
      <4>2. (c \o output) \o <<>> = c \o output
        BY <1>2, ConcatProperties, ConcatEmptySeq
      <4>3. QED  BY <1>4, <1>6, <3>1, <4>1, <4>2
    <3>2. CASE i # 1
      <4>1. i \in 2..Len(v)
        BY <1>5, <3>2
      <4>2. v[i] \in After("full", SubSeq(d, 1, i - 1))
        BY <1>4, <1>6, <4>1
      <4>3. After("full", SubSeq(d, 1, i - 1)) =
               Predictions([tokens |-> (c \o output) \o SubSeq(d, 1, i - 1), exact |-> TRUE])
        <5> DEFINE x == SubSeq(d, 1, i - 1)
        <5> HIDE DEF x
        <5>1. [kv["full"] EXCEPT !.tokens = @ \o x] = [tokens |-> (c \o output) \o x, exact |-> TRUE]
          <6>1. [[tokens |-> c \o output, exact |-> TRUE] EXCEPT !.tokens = @ \o x] =
                   [tokens |-> (c \o output) \o x, exact |-> TRUE]
            BY LongerCache
          <6>2. QED  BY <1>6, <6>1, Zenon
        <5>2. After("full", x) = Predictions([kv["full"] EXCEPT !.tokens = @ \o x])
          BY DEF After
        <5>3. QED  BY <5>1, <5>2 DEF x
      <4>4. QED  BY <4>2, <4>3 DEF Predictions
    <3>3. QED  BY <3>1, <3>2
  <2>3. QED  BY <2>1, <2>2
<1>9. \A i \in 1..(Len(v) - 1) : v[i] # EOS
  <2>1. ASSUME NEW i \in 1..(Len(v) - 1), v[i] = EOS
        PROVE  FALSE
    <3>1. i \in 1..(Len(d) - 1) /\ i \in 1..Len(v)
      BY <1>2, <1>5
    <3>2. d[i] = v[i]
      BY <1>7
    <3>3. QED  BY <1>3, <1>8, <2>1, <3>1, <3>2
  <2>2. QED  BY <2>1
<1>10. Answers(v, d)
  BY <1>4, <1>5, <1>7 DEF Answers
<1>11. Greedy!Continues(c, output \o v)
  BY <1>2, <1>3, <1>5, <1>8, <1>9, ContinuesConcat
<1>12. QED  BY <1>4, <1>10, <1>11 DEF c, d

LEMMA VerifyInv == IInv /\ Verify => IInv'
<1> SUFFICES ASSUME IInv, Verify
             PROVE  IInv'
  OBVIOUS
<1>1. /\ pc = "verify" /\ InCell /\ Looping /\ ~BlockedAtStart
      /\ UNCHANGED <<config, todo, cell, reference, kv, full_state, compressed, draft, committed,
                     output, traces, results, status>>
  BY DEF Verify, InCell, Looping, BlockedAtStart
<1>2. CASE Blocked("verification") /\ UNCHANGED acceptance
  BY <1>1, <1>2, BlockedInv DEF Blocked
<1>3. CASE /\ \E v \in VerifierTokens(draft) : acceptance' = compute_acceptance(draft, v)
           /\ pc' = "commit"
           /\ UNCHANGED blocker
  <2>1. InCell' /\ Looping' /\ ~BlockedAtStart'
    BY <1>3 DEF InCell, Looping, BlockedAtStart
  <2>2. PICK v \in UpTo(Len(draft)) :
           /\ Answers(v, draft) /\ Greedy!Continues(cell.prompt, output \o v)
           /\ acceptance' = compute_acceptance(draft, v)
    BY <1>1, <1>3, VerifierFacts
  <2>3. TypeOK'
    BY <1>1, <1>3 DEF IInv, TypeOK
  <2>4. CellInv'
    BY <1>1, <1>3 DEF IInv, CellInv, Controlled
  <2>5. RestoredInv'
    BY <1>1, <1>3 DEF IInv, RestoredInv, Grown, Controlled, Looping
  <2>6. GreedyInv'
    BY <1>1, <1>3, <2>1 DEF IInv, GreedyInv, IsReference, Greedy!Continues
  <2>7. DraftInv'
    BY <1>1 DEF IInv, DraftInv, MoreToDo, Remaining, RoundDraftLen, Controlled,
                propose_controlled_draft, OddRound
  <2>8. AnswerInv'
    <3>1. draft' = draft /\ cell' = cell /\ output' = output
      BY <1>1
    <3>2. QED  BY <1>3, <2>2, <3>1 DEF AnswerInv, Greedy!Continues
  <2>9. JudgeInv'
    BY <1>3 DEF JudgeInv
  <2>10. InjectedMismatchRejected' /\ reference' \in Seq(Token) /\ traces' \in Seq(Trace)
    BY <1>1 DEF IInv, InjectedMismatchRejected, Controlled
  <2>11. ResultsInv' /\ CountInv'
    BY <1>1, <2>1, VerdictFrame DEF IInv
  <2>12. QED
    BY <2>3, <2>4, <2>5, <2>6, <2>7, <2>8, <2>9, <2>10, <2>11 DEF IInv
<1>4. QED  BY <1>2, <1>3 DEF Verify

\* Truncation at EOS removes nothing when EOS is nowhere but at the end.
LEMMA NothingTruncated ==
    ASSUME NEW v \in Seq(Token), \A i \in 1..(Len(v) - 1) : v[i] # EOS
    PROVE  TruncateAtEos(v) = v
<1>1. Len(v) \in Nat
  BY LenProperties
<1>2. CASE \E i \in 1..Len(v) : v[i] = EOS
  <2> DEFINE IsFirst(i) == v[i] = EOS /\ \A j \in 1..(i - 1) : v[j] # EOS
  <2>1. Len(v) \in 1..Len(v) /\ IsFirst(Len(v))
    BY <1>1, <1>2
  <2>2. ASSUME NEW i \in 1..Len(v), IsFirst(i)
        PROVE  i = Len(v)
    BY <1>1, <2>2
  <2>3. (CHOOSE i \in 1..Len(v) : IsFirst(i)) = Len(v)
    BY <2>1, <2>2
  <2>4. QED  BY <1>2, <2>3, SubSeqFull DEF TruncateAtEos
<1>3. CASE ~\E i \in 1..Len(v) : v[i] = EOS
  BY <1>3 DEF TruncateAtEos
<1>4. QED  BY <1>2, <1>3

\* Only the last token decides whether a sequence ends with EOS.
LEMMA WithoutEosConcat ==
    ASSUME NEW s \in Seq(Token), NEW v \in Seq(Token), v # <<>>
    PROVE  /\ EndsWithEos(s \o v) <=> EndsWithEos(v)
           /\ WithoutEos(s \o v) = s \o WithoutEos(v)
           /\ WithoutEos(v) \in Seq(Token)
<1>1. PICK a \in Nat, b \in Nat : a = Len(s) /\ b = Len(v) /\ b # 0
  BY LenProperties, EmptySeq
<1>2. /\ s \o v \in Seq(Token) /\ Len(s \o v) = a + b
      /\ \A i \in 1..a + b : (s \o v)[i] = IF i <= a THEN s[i] ELSE v[i - a]
  BY <1>1, ConcatProperties
<1>3. (s \o v)[a + b] = v[b] /\ s \o v # <<>>
  <2>1. a + b \in 1..a + b /\ ~(a + b <= a) /\ (a + b) - a = b
    BY <1>1
  <2>2. QED  BY <1>1, <1>2, <2>1, EmptySeq
<1>4. EndsWithEos(s \o v) <=> EndsWithEos(v)
  BY <1>1, <1>2, <1>3 DEF EndsWithEos
<1>5. PICK k \in 0..Len(v) : k = b - 1 /\ a + b - 1 = a + k
  BY <1>1
<1>6. SubSeq(s \o v, 1, a + k) = s \o SubSeq(v, 1, k)
  BY <1>1, PrefixOfConcat
<1>7. SubSeq(v, 1, k) \in Seq(Token)
  <2>1. \A i \in 1..k : v[i] \in Token
    BY <1>5, <1>1, ElementOfSeq
  <2>2. QED  BY <2>1, SubSeqProperties
<1>8. CASE EndsWithEos(v)
  <2>1. WithoutEos(v) = SubSeq(v, 1, k) /\ WithoutEos(s \o v) = SubSeq(s \o v, 1, a + k)
    BY <1>1, <1>2, <1>4, <1>5, <1>8 DEF WithoutEos
  <2>2. QED  BY <1>4, <1>6, <1>7, <2>1
<1>9. CASE ~EndsWithEos(v)
  BY <1>4, <1>9 DEF WithoutEos
<1>10. QED  BY <1>8, <1>9

\* The commit of a round: the verifier's answer, whole.
LEMMA RoundCommitsFacts ==
    ASSUME IInv, pc \in {"commit", "update", "extend"}
    PROVE  \E v \in Seq(Token) :
              /\ v # <<>> /\ Answers(v, draft) /\ v \in UpTo(Len(draft))
              /\ acceptance = compute_acceptance(draft, v)
              /\ RoundCommits = v
              /\ Greedy!Continues(cell.prompt, output \o v)
              /\ pc # "commit" => committed = v
              /\ output \o v \in Seq(Token)
              /\ Len(output) + Len(v) <= config.max_new_tokens
<1>1. InCell /\ Looping
  BY DEF InCell, Looping
<1>2. PICK v \in UpTo(Len(draft)) :
         /\ Answers(v, draft)
         /\ acceptance = compute_acceptance(draft, v)
         /\ Greedy!Continues(cell.prompt, output \o v)
         /\ pc # "commit" => committed = v
  BY DEF IInv, AnswerInv
<1>3. /\ draft \in Seq(TokenId) /\ draft # <<>> /\ Len(draft) \in Nat
      /\ output \in Seq(Token) /\ Len(output) \in Nat /\ Len(draft) <= Remaining
      /\ Remaining = config.max_new_tokens - Len(output) /\ config.max_new_tokens \in Nat
  <2>1. draft \in Seq(TokenId) /\ draft # <<>> /\ Len(draft) <= RoundDraftLen
    BY <1>1, CellFacts DEF IInv, DraftInv
  <2>2. Len(draft) \in Nat
    BY <2>1, LenProperties
  <2>3. QED  BY <1>1, <2>1, <2>2, CellFacts, BudgetFacts
<1>4. v \in Seq(Token) /\ Len(v) <= Len(draft) /\ Len(v) \in Nat /\ v # <<>>
  BY <1>2, <1>3, UpToFacts, LenProperties DEF Answers
<1>5. CommittedBy(acceptance) = v
  <2>1. draft \in Seq(Int) /\ v \in Seq(Int)
    BY <1>3, <1>4, TokenFacts, SeqMonotonic
  <2>2. QED  BY <1>2, <2>1, CommittedOfAnswer
<1>6. \A i \in 1..(Len(v) - 1) : v[i] # EOS
  <2>1. ASSUME NEW i \in 1..(Len(v) - 1)
        PROVE  v[i] # EOS
    <3> DEFINE u == output \o v
    <3>1. PICK a \in Nat, b \in Nat : a = Len(output) /\ b = Len(v)
      BY <1>3, <1>4
    <3>2. /\ Len(u) = a + b
          /\ \A j \in 1..a + b : u[j] = IF j <= a THEN output[j] ELSE v[j - a]
      BY <1>3, <1>4, <3>1, ConcatProperties
    <3> HIDE DEF u
    <3>3. a + i \in 1..a + b /\ a + i < a + b /\ ~(a + i <= a) /\ (a + i) - a = i
      BY <3>1
    <3>4. u[a + i] = v[i]
      BY <3>2, <3>3
    <3>5. Greedy!Continues(cell.prompt, u)
      BY <1>2 DEF u
    <3>6. u[a + i] # EOS
      BY <3>2, <3>3, <3>5 DEF Greedy!Continues
    <3>7. QED  BY <3>4, <3>6
  <2>2. QED  BY <2>1
<1>7. RoundCommits = v
  BY <1>4, <1>5, <1>6, NothingTruncated DEF RoundCommits
<1>8. output \o v \in Seq(Token)
  BY <1>3, <1>4, ConcatProperties
<1>9. Len(output) + Len(v) <= config.max_new_tokens
  BY <1>3, <1>4
<1>10. QED  BY <1>2, <1>4, <1>7, <1>8, <1>9

\* The drafting and verifying of a round survives a step that leaves it alone.
LEMMA RoundFrame ==
    ASSUME IInv, UNCHANGED <<config, cell, reference, draft, acceptance, output, traces>>,
           pc \in {"commit", "update", "extend"}, pc' \in {"update", "extend"},
           committed' = RoundCommits
    PROVE  DraftInv' /\ AnswerInv'
<1>1. DraftInv'
  BY DEF IInv, DraftInv, MoreToDo, Remaining, RoundDraftLen, Controlled,
         propose_controlled_draft, OddRound
<1>2. PICK v \in UpTo(Len(draft)) :
         /\ Answers(v, draft) /\ acceptance = compute_acceptance(draft, v)
         /\ Greedy!Continues(cell.prompt, output \o v) /\ RoundCommits = v
  BY RoundCommitsFacts
<1>3. AnswerInv'
  BY <1>2 DEF AnswerInv, Greedy!Continues
<1>4. QED  BY <1>1, <1>3

LEMMA CommitInv == IInv /\ Commit => IInv'
<1> SUFFICES ASSUME IInv, Commit
             PROVE  IInv'
  OBVIOUS
<1> DEFINE fed == WithoutEos(RoundCommits)
<1>1. /\ pc = "commit" /\ InCell /\ Looping /\ ~BlockedAtStart /\ blocker = ""
      /\ committed' = RoundCommits
      /\ UNCHANGED <<config, todo, cell, reference, compressed, draft, acceptance, output,
                     traces, blocker, results, status>>
  BY DEF Commit, InCell, Looping, BlockedAtStart, IInv, CellInv
<1>2. PICK v \in Seq(Token) :
         /\ v # <<>> /\ RoundCommits = v /\ output \o v \in Seq(Token)
         /\ Greedy!Continues(cell.prompt, output \o v)
         /\ Len(output) + Len(v) <= config.max_new_tokens
  BY <1>1, RoundCommitsFacts
<1>3. /\ cell.prompt \in Seq(Token) /\ output \in Seq(Token)
      /\ full_state.past_key_values = "full"
      /\ kv \in [{"stored", "full", "compressed"} -> Cache]
      /\ full_state \in [past_key_values : {"full"}, generated_ids : Seq(Token),
                         next_token_id : Token]
  BY <1>1, CellFacts DEF IInv, TypeOK
<1>4. /\ pc' = IF Controlled THEN "extend" ELSE "update"
      /\ pc' \in {"update", "extend"} /\ InCell' /\ Looping' /\ ~BlockedAtStart'
  BY <1>1, <1>2 DEF Commit, InCell, Looping, BlockedAtStart
<1>5. /\ ~EndsWithEos(output) /\ WithoutEos(output) = output
      /\ full_state.generated_ids = output
      /\ kv["full"] = [tokens |-> cell.prompt \o output, exact |-> TRUE]
      /\ kv["stored"] = PrefillCache(cell.prompt)
  <2>1. ~EndsWithEos(output)
    BY <1>1 DEF IInv, DraftInv, MoreToDo
  <2>2. WithoutEos(output) = output
    BY <2>1 DEF WithoutEos
  <2>3. Grown = output
    BY <1>1, <1>3, ConcatEmptySeq DEF Grown
  <2>4. QED  BY <1>1, <2>1, <2>2, <2>3 DEF IInv, RestoredInv
<1>6. /\ fed \in Seq(Token) /\ WithoutEos(output \o v) = output \o fed
      /\ EndsWithEos(output \o v) <=> EndsWithEos(v)
  BY <1>2, <1>3, WithoutEosConcat
<1>7. (cell.prompt \o output) \o fed = cell.prompt \o WithoutEos(output \o v)
  <2> HIDE DEF fed
  <2>1. \A s, t, u \in Seq(Token) : (s \o t) \o u = s \o (t \o u)
    BY ConcatAssociative
  <2>2. (cell.prompt \o output) \o fed = cell.prompt \o (output \o fed)
    BY <1>3, <1>6, <2>1, Zenon
  <2>3. QED  BY <1>6, <2>2
<1>8. /\ kv'["full"] = [tokens |-> cell.prompt \o WithoutEos(output \o v), exact |-> TRUE]
      /\ kv'["stored"] = kv["stored"]
      /\ kv' \in [{"stored", "full", "compressed"} -> Cache]
  <2> HIDE DEF fed
  <2>1. kv' = [kv EXCEPT !["full"].tokens = @ \o fed]
    BY <1>3 DEF Commit, fed
  <2>2. kv'["full"] = [tokens |-> (cell.prompt \o output) \o fed, exact |-> TRUE]
    <3>1. [[tokens |-> cell.prompt \o output, exact |-> TRUE] EXCEPT !.tokens = @ \o fed] =
             [tokens |-> (cell.prompt \o output) \o fed, exact |-> TRUE]
      BY LongerCache
    <3>2. \A r : [kv EXCEPT !["full"] = r]["full"] = r
      BY <1>3
    <3>3. kv' = [kv EXCEPT !["full"] = [kv["full"] EXCEPT !.tokens = @ \o fed]]
      BY <2>1, Zenon
    <3>4. kv'["full"] = [kv["full"] EXCEPT !.tokens = @ \o fed]
      BY <3>2, <3>3, Zenon
    <3>5. QED  BY <1>5, <3>1, <3>4, Zenon
  <2>3. (cell.prompt \o output) \o fed \in Seq(Token)
    BY <1>3, <1>6, ConcatProperties
  <2>4. kv'["full"] \in Cache
    BY <2>2, <2>3 DEF Cache
  <2>5. QED  BY <1>3, <1>7, <2>1, <2>2, <2>4
<1>9. PICK next \in IF EndsWithEos(v) THEN {EOS} ELSE Predictions(kv'["full"]) :
         full_state' = [full_state EXCEPT !.generated_ids = @ \o v, !.next_token_id = next]
  BY <1>2, <1>3 DEF Commit
<1>10. /\ full_state'.generated_ids = output \o v
       /\ full_state' \in [past_key_values : {"full"}, generated_ids : Seq(Token),
                           next_token_id : Token]
       /\ full_state'.past_key_values = "full" /\ full_state'.next_token_id = next
  <2>1. next \in Token
    BY <1>9, TokenFacts DEF Predictions
  <2>2. QED  BY <1>2, <1>3, <1>5, <1>9, <2>1
<1>11. ~EndsWithEos(output \o v) => next = FullNext(cell.prompt \o (output \o v))
  <2>1. SUFFICES ASSUME ~EndsWithEos(output \o v)
                 PROVE  next = FullNext(cell.prompt \o (output \o v))
    OBVIOUS
  <2>2. WithoutEos(output \o v) = output \o v
    BY <2>1 DEF WithoutEos
  <2>3. next \in Predictions(kv'["full"])
    BY <1>6, <1>9, <2>1
  <2>4. QED  BY <1>8, <2>2, <2>3 DEF Predictions
<1>12. TypeOK'
  BY <1>1, <1>2, <1>4, <1>8, <1>10 DEF IInv, TypeOK
<1>13. CellInv'
  BY <1>1, <1>4 DEF IInv, CellInv, Controlled
<1>14. RestoredInv'
  <2>1. Grown' = output \o v
    BY <1>1, <1>2, <1>4 DEF Grown
  <2>2. ~Controlled' => pc' = "update" /\ ~Controlled
    BY <1>1, <1>4 DEF Controlled
  <2>3. ~Controlled => compressed.logical_seq_len = Len(cell.prompt) + Len(output)
    BY <1>1 DEF IInv, RestoredInv
  <2>4. QED
    BY <1>1, <1>5, <1>8, <1>10, <1>11, <2>1, <2>2, <2>3 DEF RestoredInv
<1>15. GreedyInv'
  BY <1>1, <1>4 DEF IInv, GreedyInv, IsReference, Greedy!Continues
<1>16. DraftInv' /\ AnswerInv'
  BY <1>1, <1>4, RoundFrame
<1>17. JudgeInv'
  BY <1>4 DEF JudgeInv
<1>18. InjectedMismatchRejected' /\ reference' \in Seq(Token) /\ traces' \in Seq(Trace)
  BY <1>1 DEF IInv, InjectedMismatchRejected, Controlled
<1>19. ResultsInv' /\ CountInv'
  BY <1>1, <1>4, VerdictFrame DEF IInv
<1>20. QED
  BY <1>12, <1>13, <1>14, <1>15, <1>16, <1>17, <1>18, <1>19 DEF IInv

LEMMA UpdateInv == IInv /\ Update => IInv'
<1> SUFFICES ASSUME IInv, Update
             PROVE  IInv'
  OBVIOUS
<1>1. /\ pc = "update" /\ InCell /\ Looping /\ ~BlockedAtStart
      /\ UNCHANGED <<config, todo, cell, reference, full_state, draft, acceptance, committed,
                     output, traces, results, status>>
  BY DEF Update, InCell, Looping, BlockedAtStart, round
<1>2. CASE Blocked("draft") /\ UNCHANGED <<kv, compressed>>
  BY <1>1, <1>2, BlockedInv DEF Blocked
<1>3. CASE Recompress(full_state) /\ pc' = "extend" /\ UNCHANGED blocker
  <2>1. ~Controlled /\ cell.compressor \in CompressorKinds
    BY <1>1 DEF IInv, CellInv
  <2>2. /\ kv' \in [{"stored", "full", "compressed"} -> Cache]
        /\ kv'["full"] = kv["full"] /\ kv'["stored"] = kv["stored"]
        /\ compressed' \in [data : {"full", "compressed"}, next_token_id : TokenId,
                            logical_seq_len : Nat]
        /\ compressed'.logical_seq_len = Len(cell.prompt) + Len(full_state.generated_ids)
    BY <1>1, <1>3, <2>1, RecompressFacts
  <2>3. InCell' /\ Looping' /\ ~BlockedAtStart'
    BY <1>3 DEF InCell, Looping, BlockedAtStart
  <2>4. TypeOK'
    BY <1>1, <1>3, <2>2 DEF IInv, TypeOK
  <2>5. CellInv'
    BY <1>1, <1>3, <2>1 DEF IInv, CellInv, Controlled
  <2>6. RestoredInv'
    <3>1. Grown' = Grown
      BY <1>1, <1>3 DEF Grown
    <3>2. QED  BY <1>1, <1>3, <2>2, <3>1 DEF IInv, RestoredInv
  <2>7. GreedyInv'
    BY <1>1, <1>3, <2>3 DEF IInv, GreedyInv, IsReference, Greedy!Continues
  <2>8. committed' = RoundCommits
    BY <1>1, RoundCommitsFacts
  <2>9. DraftInv' /\ AnswerInv'
    BY <1>1, <1>3, <2>8, RoundFrame
  <2>10. JudgeInv'
    BY <1>3 DEF JudgeInv
  <2>11. InjectedMismatchRejected' /\ reference' \in Seq(Token) /\ traces' \in Seq(Trace)
    BY <1>1 DEF IInv, InjectedMismatchRejected, Controlled
  <2>12. ResultsInv' /\ CountInv'
    BY <1>1, <2>3, VerdictFrame DEF IInv
  <2>13. QED
    BY <2>4, <2>5, <2>6, <2>7, <2>9, <2>10, <2>11, <2>12 DEF IInv
<1>4. QED  BY <1>2, <1>3 DEF Update

LEMMA CommitRaisesInv == IInv /\ CommitRaises => IInv'
<1> SUFFICES ASSUME IInv, CommitRaises
             PROVE  IInv'
  OBVIOUS
<1>1. /\ pc = "commit" /\ pc' = "ended" /\ status' = "raised" /\ ~InCell' /\ ~Looping'
      /\ UNCHANGED <<config, todo, cell, kv, full_state, compressed, draft, acceptance,
                     committed, reference, output, traces, blocker, results>>
  BY DEF CommitRaises, Ends, InCell, Looping, cellVars, round
<1>2. TypeOK'
  BY <1>1 DEF IInv, TypeOK
<1>3. reference' \in Seq(Token) /\ traces' \in Seq(Trace)
  BY <1>1 DEF IInv
<1>4. CellInv' /\ RestoredInv' /\ GreedyInv' /\ DraftInv' /\ AnswerInv' /\ JudgeInv'
  BY <1>1 DEF CellInv, RestoredInv, GreedyInv, DraftInv, AnswerInv, JudgeInv
<1>5. InjectedMismatchRejected'
  BY <1>1 DEF IInv, InjectedMismatchRejected, Controlled
<1>6. ResultsInv'
  BY <1>1 DEF IInv, ResultsInv, Result, FailureOnlyTruncates, VerdictSound, Greedy!Continues
<1>7. CountInv'
  BY <1>1 DEF CountInv
<1>8. QED  BY <1>2, <1>3, <1>4, <1>5, <1>6, <1>7 DEF IInv

-----------------------------------------------------------------------------
(* The output grows *)

\* The trace of a round.  In a controlled cell the verifier's answer is what the
\* reference says: an injected mismatch is its second token, and rejected.
LEMMA TraceFacts ==
    ASSUME IInv, pc = "extend"
    PROVE  LET t == [ drafted |-> Len(draft),
                      accepted_prefix_length |-> Len(acceptance.accepted_tokens),
                      correction_token |-> acceptance.correction_token,
                      all_matched |-> acceptance.all_matched ]
           IN  /\ t \in Trace
               /\ Controlled => IF OddRound /\ t.drafted >= 2
                                THEN t.accepted_prefix_length = 1 /\ t.correction_token # <<>>
                                ELSE t.all_matched
<1>1. InCell /\ Looping /\ pc # "restore" /\ ~BlockedAtStart
  BY DEF InCell, Looping, BlockedAtStart
<1>2. PICK v \in Seq(Token) :
         /\ v # <<>> /\ Answers(v, draft)
         /\ acceptance = compute_acceptance(draft, v)
         /\ Greedy!Continues(cell.prompt, output \o v)
         /\ output \o v \in Seq(Token)
         /\ Len(output) + Len(v) <= config.max_new_tokens
  BY RoundCommitsFacts
<1>3. /\ draft \in Seq(Int) /\ v \in Seq(Int) /\ output \in Seq(Token)
      /\ reference \in Seq(Token) /\ cell.prompt \in Seq(Token)
      /\ config.max_new_tokens \in Nat
  BY <1>1, CellFacts, TokenFacts, SeqMonotonic
<1>4. PICK o \in Nat, k \in Nat, l \in Nat, m \in Nat :
         o = Len(output) /\ k = Len(draft) /\ l = Len(v) /\ m = MatchLen(draft, v)
  BY <1>2, <1>3, LenProperties, CommittedOfAnswer
<1>5. /\ m <= l /\ m <= k /\ l <= k /\ l # 0
      /\ acceptance.accepted_tokens = SubSeq(draft, 1, m)
      /\ acceptance.correction_token = IF m < l THEN <<v[m + 1]>> ELSE <<>>
      /\ acceptance.all_matched <=> m = k
      /\ acceptance.all_matched \in BOOLEAN
      /\ m = IF draft[l] # v[l] THEN l - 1 ELSE l
  <2>1. /\ m \in 0..l
        /\ acceptance.accepted_tokens = SubSeq(draft, 1, m)
        /\ acceptance.correction_token = IF m < l THEN <<v[m + 1]>> ELSE <<>>
        /\ acceptance.all_matched <=> m = k
    BY <1>2, <1>3, <1>4, CommittedOfAnswer
  <2>2. m = IF draft[l] # v[l] THEN l - 1 ELSE l
    BY <1>2, <1>3, <1>4, MatchLenOfAnswer
  <2>3. l <= k /\ l # 0
    BY <1>2, <1>4, EmptySeq DEF Answers
  <2>4. acceptance.all_matched \in BOOLEAN
    BY <1>2 DEF compute_acceptance
  <2>5. QED  BY <2>1, <2>2, <2>3, <2>4
<1>6. Len(acceptance.accepted_tokens) = m
  <2>1. \A i \in 1..m : draft[i] \in Int
    BY <1>3, <1>4, <1>5, ElementOfSeq
  <2>2. Len(SubSeq(draft, 1, m)) = m
    BY <2>1, SubSeqProperties
  <2>3. QED  BY <1>5, <2>2
<1>7. acceptance.correction_token \in Optional(Token)
  <2>1. CASE m < l
    <3>1. m + 1 \in 1..Len(v)
      BY <1>4, <2>1
    <3>2. v[m + 1] \in Token
      BY <1>2, <3>1, ElementOfSeq
    <3>3. QED  BY <1>5, <2>1, <3>2 DEF Optional
  <2>2. CASE ~(m < l)
    BY <1>5, <2>2 DEF Optional
  <2>3. QED  BY <2>1, <2>2
<1>8. ASSUME Controlled
      PROVE  IF OddRound /\ k >= 2 THEN m = 1 /\ acceptance.correction_token # <<>>
             ELSE acceptance.all_matched
  <2>1. /\ o + k <= Len(reference)
        /\ \A i \in 1..k : IF OddRound /\ k >= 2 /\ i = 2
                           THEN draft[i] # reference[o + i]
                           ELSE draft[i] = reference[o + i]
    <3>1. MoreToDo /\ draft = propose_controlled_draft(RoundDraftLen)
      BY <1>8 DEF IInv, DraftInv
    <3>2. QED  BY <1>1, <1>4, <3>1, ProposedFacts
  <2>2. ASSUME NEW i \in 1..l
        PROVE  v[i] = reference[o + i]
    <3> DEFINE u == output \o v
    <3>1. /\ Len(u) = o + l
          /\ \A j \in 1..o + l : u[j] = IF j <= o THEN output[j] ELSE v[j - o]
      BY <1>2, <1>3, <1>4, ConcatProperties
    <3>2. /\ IsReference(cell.prompt, config.max_new_tokens, reference)
          /\ Len(reference) <= config.max_new_tokens
      BY <1>1 DEF IInv, GreedyInv
    <3>3. u \in Seq(Token) /\ Greedy!Continues(cell.prompt, u) /\ Len(u) <= config.max_new_tokens
      BY <1>2, <1>4, <3>1
    <3> HIDE DEF u
    <3>4. \A j \in 1..Len(u) : u[j] = reference[j]
      BY <1>3, <3>2, <3>3, PrefixOfReference
    <3>5. o + i \in 1..o + l /\ ~(o + i <= o) /\ (o + i) - o = i
      OBVIOUS
    <3>6. QED  BY <3>1, <3>4, <3>5
  <2>3. /\ \A i \in 1..(l - 1) : draft[i] = v[i]
        /\ l = k \/ draft[l] # v[l]
    BY <1>2, <1>4, <1>5, EmptySeq DEF Answers
  <2>4. CASE OddRound /\ k >= 2
    <3>1. draft[1] = reference[o + 1] /\ draft[2] # reference[o + 2]
      BY <2>1, <2>4
    <3>2. l # 1
      <4>1. ASSUME l = 1
            PROVE  FALSE
        <5>1. 1 \in 1..l /\ draft[1] # v[1]
          BY <2>3, <2>4, <4>1
        <5>2. QED  BY <2>2, <3>1, <5>1
      <4>2. QED  BY <4>1
    <3>3. l <= 2
      <4>1. ASSUME l > 2
            PROVE  FALSE
        <5>1. 2 \in 1..l /\ 2 \in 1..(l - 1)
          BY <4>1
        <5>2. QED  BY <2>2, <2>3, <3>1, <5>1
      <4>2. QED  BY <4>1
    <3>4. l = 2 /\ 2 \in 1..l
      BY <1>5, <3>2, <3>3
    <3>5. v[2] = reference[o + 2]
      BY <2>2, <3>4
    <3>6. m = 1 /\ m < l
      BY <1>5, <3>1, <3>4, <3>5
    <3>7. <<v[m + 1]>> # <<>>
      OBVIOUS
    <3>8. QED  BY <1>5, <2>4, <3>6, <3>7
  <2>5. CASE ~(OddRound /\ k >= 2)
    <3>1. l \in 1..l /\ l \in 1..k
      BY <1>5
    <3>2. draft[l] = v[l]
      BY <2>1, <2>2, <2>5, <3>1
    <3>3. m = k
      BY <1>5, <2>3, <3>2
    <3>4. QED  BY <1>5, <2>5, <3>3
  <2>6. QED  BY <2>4, <2>5
<1>9. QED
  <2> DEFINE t == [ drafted |-> Len(draft),
                    accepted_prefix_length |-> Len(acceptance.accepted_tokens),
                    correction_token |-> acceptance.correction_token,
                    all_matched |-> acceptance.all_matched ]
  <2>1. /\ t.drafted = k /\ t.accepted_prefix_length = m
        /\ t.correction_token = acceptance.correction_token
        /\ t.all_matched = acceptance.all_matched
    BY <1>4, <1>6
  <2>2. t \in Trace
    BY <1>4, <1>5, <1>6, <1>7 DEF Trace
  <2> HIDE DEF t
  <2>3. Controlled => IF OddRound /\ t.drafted >= 2
                      THEN t.accepted_prefix_length = 1 /\ t.correction_token # <<>>
                      ELSE t.all_matched
    BY <1>8, <2>1
  <2>4. QED  BY <2>2, <2>3 DEF t

LEMMA ExtendInv == IInv /\ Extend => IInv'
<1> SUFFICES ASSUME IInv, Extend
             PROVE  IInv'
  OBVIOUS
<1> DEFINE t == [ drafted |-> Len(draft),
                  accepted_prefix_length |-> Len(acceptance.accepted_tokens),
                  correction_token |-> acceptance.correction_token,
                  all_matched |-> acceptance.all_matched ]
<1>1. /\ pc = "extend" /\ pc' = "round" /\ InCell /\ Looping /\ InCell' /\ Looping'
      /\ ~BlockedAtStart /\ ~BlockedAtStart'
      /\ output' = output \o committed /\ traces' = Append(traces, t)
      /\ draft' = <<>> /\ committed' = <<>>
      /\ UNCHANGED <<config, todo, cell, reference, kv, full_state, compressed, blocker,
                     results, status>>
  BY DEF Extend, ForgetRound, InCell, Looping, BlockedAtStart
<1>2. /\ output' \in Seq(Token) /\ Len(output') <= config.max_new_tokens
      /\ Greedy!Continues(cell.prompt, output')
  <2>1. PICK v \in Seq(Token) :
           /\ Greedy!Continues(cell.prompt, output \o v) /\ committed = v
           /\ output \o v \in Seq(Token) /\ Len(output) + Len(v) <= config.max_new_tokens
    BY <1>1, RoundCommitsFacts
  <2>2. Len(output \o v) = Len(output) + Len(v)
    BY <1>1, CellFacts, ConcatProperties
  <2>3. output' = output \o v
    BY <1>1, <2>1
  <2>4. QED  BY <2>1, <2>2, <2>3
<1>3. TypeOK'
  <2>1. draft' \in Seq(TokenId) /\ committed' \in Seq(Token)
    BY <1>1, EmptySeq, Zenon
  <2>2. QED  BY <1>1, <1>2, <2>1 DEF IInv, TypeOK
<1>4. /\ t \in Trace
      /\ Controlled => IF OddRound /\ t.drafted >= 2
                       THEN t.accepted_prefix_length = 1 /\ t.correction_token # <<>>
                       ELSE t.all_matched
  BY <1>1, TraceFacts
<1> HIDE DEF t
<1>5. PICK n \in Nat : n = Len(traces)
  BY LenProperties DEF IInv
<1>6. /\ traces' \in Seq(Trace) /\ Len(traces') = n + 1
      /\ \A i \in 1..n : traces'[i] = traces[i]
      /\ traces'[n + 1] = t
  BY <1>1, <1>4, <1>5, AppendProperties DEF IInv
<1>7. CellInv'
  BY <1>1 DEF IInv, CellInv, Controlled
<1>8. RestoredInv'
  <2>1. Grown = output' /\ Grown' = output'
    BY <1>1, <1>2, ConcatEmptySeq DEF Grown
  <2>2. /\ full_state.generated_ids = output'
        /\ ~Controlled => compressed.logical_seq_len =
              Len(cell.prompt) + Len(full_state.generated_ids)
        /\ kv["stored"] = PrefillCache(cell.prompt)
        /\ kv["full"] = [ tokens |-> cell.prompt \o WithoutEos(full_state.generated_ids),
                          exact  |-> TRUE ]
        /\ ~EndsWithEos(full_state.generated_ids) =>
              full_state.next_token_id = FullNext(cell.prompt \o full_state.generated_ids)
    BY <1>1, <2>1 DEF IInv, RestoredInv
  <2>3. cell' = cell /\ kv' = kv /\ full_state' = full_state /\ compressed' = compressed
        /\ (Controlled' <=> Controlled)
    BY <1>1 DEF Controlled
  <2>4. QED  BY <1>1, <2>1, <2>2, <2>3 DEF RestoredInv
<1>9. GreedyInv'
  <2>1. /\ Len(reference) <= config.max_new_tokens
        /\ IsReference(cell.prompt, config.max_new_tokens, reference)
    BY <1>1 DEF IInv, GreedyInv
  <2>2. reference' = reference /\ cell' = cell /\ config' = config
    BY <1>1
  <2>3. QED  BY <1>2, <2>1, <2>2 DEF GreedyInv, IsReference, Greedy!Continues
<1>10. DraftInv' /\ AnswerInv' /\ JudgeInv'
  BY <1>1 DEF DraftInv, AnswerInv, JudgeInv
<1>11. InjectedMismatchRejected'
  <2>1. SUFFICES ASSUME Controlled, NEW i \in 1..n + 1
                 PROVE  IF i % 2 = 0 /\ traces'[i].drafted >= 2
                        THEN /\ traces'[i].accepted_prefix_length = 1
                             /\ traces'[i].correction_token # <<>>
                        ELSE traces'[i].all_matched
    BY <1>1, <1>6 DEF InjectedMismatchRejected, Controlled
  <2>2. CASE i \in 1..n
    <3>1. traces'[i] = traces[i]
      BY <1>6, <2>2
    <3>2. IF i % 2 = 0 /\ traces[i].drafted >= 2
          THEN traces[i].accepted_prefix_length = 1 /\ traces[i].correction_token # <<>>
          ELSE traces[i].all_matched
      BY <1>5, <2>1, <2>2 DEF IInv, InjectedMismatchRejected
    <3>3. QED  BY <3>1, <3>2
  <2>3. CASE i = n + 1
    <3>1. traces'[i] = t
      BY <1>6, <2>3
    <3>2. i % 2 = 0 <=> OddRound
      <4>1. (n + 1) % 2 = 0 <=> n % 2 = 1
        OBVIOUS
      <4>2. QED  BY <1>5, <2>3, <4>1 DEF OddRound
    <3>3. QED  BY <1>4, <2>1, <3>1, <3>2
  <2>4. QED  BY <2>2, <2>3
<1>12. ResultsInv' /\ CountInv'
  BY <1>1, VerdictFrame DEF IInv
<1>13. reference' \in Seq(Token)
  BY <1>1 DEF IInv
<1>14. QED
  BY <1>3, <1>6, <1>7, <1>8, <1>9, <1>10, <1>11, <1>12, <1>13 DEF IInv

-----------------------------------------------------------------------------
(* The verdict *)

\* The output and a reference that it is a prefix of differ where the output ends.
LEMMA DivergenceFacts ==
    ASSUME IInv, pc = "judge", ~BlockedAtStart
    PROVE  first_divergence = IF Len(output) = Len(reference) THEN <<>> ELSE <<Len(output)>>
<1>1. InCell /\ pc # "restore"
  BY DEF InCell
<1>2. PICK o \in Nat, r \in Nat : o = Len(output) /\ r = Len(reference)
  BY <1>1, CellFacts, OutputInReference
<1>3. o <= r /\ \A i \in 1..o : output[i] = reference[i]
  BY <1>1, <1>2, OutputInReference
<1>4. CommonLen(reference, output) = o
  BY <1>2, <1>3 DEF CommonLen, Smaller
<1>5. o \in 0..o /\ AgreeOnExactly(reference, output, o)
  BY <1>3, <1>4 DEF AgreeOnExactly
<1>6. ASSUME NEW k \in 0..o, AgreeOnExactly(reference, output, k)
      PROVE  k = o
  <2>1. ASSUME k < o
        PROVE  FALSE
    <3>1. reference[k + 1] # output[k + 1] /\ k + 1 \in 1..o
      BY <1>4, <1>6, <2>1 DEF AgreeOnExactly
    <3>2. QED  BY <1>3, <3>1
  <2>2. QED  BY <2>1
<1>7. MatchLen(reference, output) = o
  BY <1>4, <1>5, <1>6 DEF MatchLen
<1>8. QED  BY <1>2, <1>7 DEF first_divergence

\* The result of a cell, as Judge records it.
NewResult ==
    [ cell |-> cell, output |-> output, blocker |-> blocker,
      token_exact_match |-> Exact,
      exactkv_failure   |-> IF Exact THEN 0 ELSE 1,
      first_divergence  |-> IF blocker = "restore" \/ cell.compressor = "unknown"
                            THEN <<>> ELSE first_divergence,
      draft_divergences |->
          Cardinality({i \in 1..Len(traces) : ~traces[i].all_matched}) ]

\* A result reports a prefix of the reference, and calls it exact only if whole.
LEMMA NewResultFacts ==
    ASSUME IInv, pc = "judge"
    PROVE  LET r == NewResult
           IN  /\ r \in Result
               /\ r.exactkv_failure = 0 <=> r.token_exact_match
               /\ Greedy!Continues(r.cell.prompt, r.output)
               /\ Len(r.output) \in Nat /\ Len(r.output) <= config.max_new_tokens
               /\ r.first_divergence \in Optional({Len(r.output)})
               /\ r.exactkv_failure = 0 => \/ EndsWithEos(r.output)
                                           \/ Len(r.output) = config.max_new_tokens
               /\ r.blocker = "" /\ r.cell.draft_len > 0 => r.exactkv_failure = 0
               /\ r.blocker # "" => ~r.token_exact_match
<1> DEFINE r == NewResult
<1>1. InCell /\ pc # "restore"
  BY DEF InCell
<1>2. /\ cell \in Cells(config) /\ output \in Seq(Token) /\ Len(output) \in Nat
      /\ Len(output) <= config.max_new_tokens
      /\ blocker \in {"", "restore", "draft", "verification"}
      /\ Greedy!Continues(cell.prompt, output)
  BY <1>1, CellFacts DEF IInv, TypeOK, GreedyInv
<1>3. /\ r.cell = cell /\ r.output = output /\ r.blocker = blocker
      /\ r.token_exact_match = Exact
      /\ r.exactkv_failure = IF Exact THEN 0 ELSE 1
      /\ r.first_divergence = IF blocker = "restore" \/ cell.compressor = "unknown"
                              THEN <<>> ELSE first_divergence
  BY DEF NewResult
<1>4. r.draft_divergences \in Nat
  <2>1. Len(traces) \in Nat
    BY LenProperties DEF IInv
  <2>2. IsFiniteSet(1..Len(traces))
    BY <2>1, FS_Interval
  <2>3. IsFiniteSet({i \in 1..Len(traces) : ~traces[i].all_matched})
    <3>1. {i \in 1..Len(traces) : ~traces[i].all_matched} \subseteq 1..Len(traces)
      OBVIOUS
    <3>2. QED  BY <2>2, <3>1, FS_Subset
  <2>4. QED  BY <2>3, FS_CardinalityType DEF NewResult
<1>5. r.first_divergence \in Optional({Len(output)})
  <2>1. CASE BlockedAtStart
    BY <1>3, <2>1 DEF BlockedAtStart, Optional
  <2>2. CASE ~BlockedAtStart
    BY <1>3, <2>2, DivergenceFacts DEF Optional
  <2>3. QED  BY <2>1, <2>2
<1>6. Exact => \/ EndsWithEos(output)
               \/ Len(output) = config.max_new_tokens
  <2>1. SUFFICES ASSUME Exact
                 PROVE  EndsWithEos(output) \/ Len(output) = config.max_new_tokens
    OBVIOUS
  <2>2. ~BlockedAtStart
    BY <2>1 DEF Exact, BlockedAtStart
  <2>3. Len(output) = Len(reference)
    BY <2>1, <2>2, DivergenceFacts DEF Exact
  <2>4. output = reference
    <3>1. reference \in Seq(Token) /\ \A i \in 1..Len(output) : output[i] = reference[i]
      BY <1>1, <2>2, CellFacts, OutputInReference
    <3>2. QED  BY <1>2, <2>3, <3>1, SeqEqual
  <2>5. IsReference(cell.prompt, config.max_new_tokens, reference)
    BY <1>1, <2>2, OutputInReference
  <2>6. QED  BY <2>4, <2>5 DEF IsReference
<1>7. ASSUME blocker = "", cell.draft_len > 0
      PROVE  Exact
  <2>1. cell.draft_len # 0
    <3>1. PICK n \in Nat : n = cell.draft_len
      BY <1>1, CellFacts, Zenon
    <3>2. n > 0
      BY <1>7, <3>1
    <3>3. QED  BY <3>1, <3>2
  <2>2. ~BlockedAtStart /\ ~MoreToDo
    BY <1>7, <2>1 DEF IInv, JudgeInv, BlockedAtStart
  <2>3. output = reference
    BY <1>1, <2>2, OutputInReference
  <2>4. first_divergence = <<>>
    BY <2>2, <2>3, DivergenceFacts
  <2>5. QED  BY <1>7, <2>4 DEF Exact
<1>8. r \in Result
  <2>1. r.first_divergence \in Seq(Nat)
    <3>1. \A x \in Nat : <<x>> \in Seq(Nat)
      OBVIOUS
    <3>2. <<>> \in Seq(Nat) /\ <<Len(output)>> \in Seq(Nat)
      BY <1>2, <3>1, EmptySeq, Zenon
    <3>3. r.first_divergence = <<>> \/ r.first_divergence = <<Len(output)>>
      BY <1>5 DEF Optional
    <3> HIDE DEF r
    <3>4. QED  BY <3>2, <3>3, Zenon
  <2>2. r = [ cell |-> r.cell, output |-> r.output, blocker |-> r.blocker,
              token_exact_match |-> r.token_exact_match,
              exactkv_failure   |-> r.exactkv_failure,
              first_divergence  |-> r.first_divergence,
              draft_divergences |-> r.draft_divergences ]
    BY DEF NewResult
  <2>3. Exact \in BOOLEAN
    BY DEF Exact
  <2> HIDE DEF r
  <2>4. r.token_exact_match \in BOOLEAN /\ r.exactkv_failure \in {0, 1}
    BY <1>3, <2>3
  <2>5. r.cell \in Cells(config) /\ r.output \in Seq(Token)
        /\ r.blocker \in {"", "restore", "draft", "verification"}
    BY <1>2, <1>3
  <2> DEFINE f1 == r.cell
             f2 == r.output
             f3 == r.blocker
             f4 == r.token_exact_match
             f5 == r.exactkv_failure
             f6 == r.first_divergence
             f7 == r.draft_divergences
  <2>6. /\ f1 \in Cells(config) /\ f2 \in Seq(Token)
        /\ f3 \in {"", "restore", "draft", "verification"}
        /\ f4 \in BOOLEAN /\ f5 \in {0, 1} /\ f6 \in Seq(Nat) /\ f7 \in Nat
        /\ r = [ cell |-> f1, output |-> f2, blocker |-> f3, token_exact_match |-> f4,
                 exactkv_failure |-> f5, first_divergence |-> f6, draft_divergences |-> f7 ]
    BY <1>4, <2>1, <2>2, <2>4, <2>5
  <2> HIDE DEF f1, f2, f3, f4, f5, f6, f7
  <2>7. QED  BY <2>6 DEF Result
<1> HIDE DEF r
<1>9. (r.token_exact_match <=> Exact) /\ (r.exactkv_failure = 0 <=> Exact)
  <2>1. r.token_exact_match <=> Exact
    BY <1>3, Zenon
  <2>2. r.exactkv_failure = 0 <=> Exact
    BY <1>3
  <2>3. QED  BY <2>1, <2>2
<1>10. blocker # "" => ~Exact
  BY DEF Exact
<1>11. r.blocker = blocker /\ r.cell = cell /\ r.output = output
  BY <1>3
<1>12. /\ r.exactkv_failure = 0 <=> r.token_exact_match
       /\ r.exactkv_failure = 0 => EndsWithEos(r.output) \/ Len(r.output) = config.max_new_tokens
       /\ r.blocker = "" /\ r.cell.draft_len > 0 => r.exactkv_failure = 0
       /\ r.blocker # "" => ~r.token_exact_match
  BY <1>6, <1>7, <1>9, <1>10, <1>11
<1>13. /\ Greedy!Continues(r.cell.prompt, r.output)
       /\ Len(r.output) \in Nat /\ Len(r.output) <= config.max_new_tokens
       /\ r.first_divergence \in Optional({Len(r.output)})
  BY <1>2, <1>3, <1>5
<1>14. QED  BY <1>8, <1>12, <1>13 DEF r

LEMMA JudgeStepInv == IInv /\ Judge => IInv'
<1> SUFFICES ASSUME IInv, Judge
             PROVE  IInv'
  OBVIOUS
<1>1. /\ pc = "judge" /\ InCell /\ pc' = "next" /\ ~InCell' /\ ~Looping'
      /\ results' = Append(results, NewResult)
      /\ UNCHANGED <<config, todo, status, cell, kv, full_state, compressed, draft, acceptance,
                     committed, reference, output, traces, blocker>>
  BY DEF Judge, NewResult, InCell, Looping, cellVars, round
<1>2. PICK r \in Result :
         /\ r = NewResult
         /\ r.exactkv_failure = 0 <=> r.token_exact_match
         /\ Greedy!Continues(r.cell.prompt, r.output)
         /\ Len(r.output) \in Nat /\ Len(r.output) <= config.max_new_tokens
         /\ r.first_divergence \in Optional({Len(r.output)})
         /\ r.exactkv_failure = 0 => \/ EndsWithEos(r.output)
                                     \/ Len(r.output) = config.max_new_tokens
         /\ r.blocker = "" /\ r.cell.draft_len > 0 => r.exactkv_failure = 0
         /\ r.blocker # "" => ~r.token_exact_match
  BY <1>1, NewResultFacts
<1>3. PICK n \in Nat : n = Len(results)
  BY LenProperties DEF IInv, ResultsInv
<1>4. /\ results' \in Seq(Result) /\ Len(results') = n + 1
      /\ \A i \in 1..n : results'[i] = results[i]
      /\ results'[n + 1] = r
  <2>1. results' = Append(results, r) /\ results \in Seq(Result)
    BY <1>1, <1>2 DEF IInv, ResultsInv
  <2>2. r \in Result
    OBVIOUS
  <2>3. QED  BY <1>3, <2>1, <2>2, AppendProperties
<1>5. TypeOK'
  <2>1. config.max_new_tokens \in Nat
    BY <1>1, CellFacts
  <2>2. r.first_divergence \in Optional(0..config.max_new_tokens)
    <3>1. PICK k \in Nat, b \in Nat : k = Len(r.output) /\ b = config.max_new_tokens
      BY <1>2, <2>1, Zenon
    <3>2. k \in 0..config.max_new_tokens
      <4>1. k <= b
        BY <1>2, <3>1, Zenon
      <4>2. QED  BY <3>1, <4>1
    <3>3. r.first_divergence = <<>> \/ r.first_divergence = <<k>>
      BY <1>2, <3>1, Zenon DEF Optional
    <3>4. QED  BY <3>2, <3>3, Zenon DEF Optional
  <2>3. \A i \in 1..n : results[i].first_divergence \in Optional(0..config.max_new_tokens)
    BY <1>3 DEF IInv, TypeOK
  <2>4. \A i \in 1..n + 1 : results'[i].first_divergence \in Optional(0..config.max_new_tokens)
    <3>1. \A i \in 1..n + 1 : i \in 1..n \/ i = n + 1
      OBVIOUS
    <3>2. QED  BY <1>4, <2>2, <2>3, <3>1
  <2>5. \A i \in 1..Len(results') :
           results'[i].first_divergence \in Optional(0..config'.max_new_tokens)
    BY <1>1, <1>4, <2>4
  <2>6. QED  BY <1>1, <2>5 DEF IInv, TypeOK
<1>6. reference' \in Seq(Token) /\ traces' \in Seq(Trace)
  BY <1>1 DEF IInv
<1>7. CellInv' /\ RestoredInv' /\ GreedyInv' /\ DraftInv' /\ AnswerInv' /\ JudgeInv'
  BY <1>1 DEF CellInv, RestoredInv, GreedyInv, DraftInv, AnswerInv, JudgeInv
<1>8. InjectedMismatchRejected'
  BY <1>1 DEF IInv, InjectedMismatchRejected, Controlled
<1>9. ResultsInv'
  <2> DEFINE Good(x) ==
        /\ Greedy!Continues(x.cell.prompt, x.output)
        /\ Len(x.output) <= config.max_new_tokens
        /\ x.first_divergence \in Optional({Len(x.output)})
        /\ x.exactkv_failure = 0 => \/ EndsWithEos(x.output)
                                    \/ Len(x.output) = config.max_new_tokens
        /\ x.blocker = "" /\ x.cell.draft_len > 0 => x.exactkv_failure = 0
        /\ x.blocker # "" => ~x.token_exact_match
        /\ x.exactkv_failure = 0 <=> x.token_exact_match
  <2>1. \A i \in 1..n : Good(results[i])
    BY <1>3 DEF IInv, ResultsInv, FailureOnlyTruncates, VerdictSound
  <2>2. Good(r)
    BY <1>2
  <2> HIDE DEF Good
  <2>3. ASSUME NEW i \in 1..Len(results')
        PROVE  Good(results'[i])
    <3>1. i \in 1..n \/ i = n + 1
      BY <1>4
    <3>2. QED  BY <1>4, <2>1, <2>2, <3>1
  <2>4. results' \in Seq(Result')
    <3>1. Result' = Result
      BY <1>1 DEF Result, Cells
    <3>2. QED  BY <1>4, <3>1
  <2>5. config' = config
    BY <1>1
  <2> USE DEF Good
  <2>6. FailureOnlyTruncates'
    BY <2>3, <2>5 DEF FailureOnlyTruncates, Greedy!Continues
  <2>7. VerdictSound'
    BY <2>3, <2>5 DEF VerdictSound
  <2>8. \A i \in 1..Len(results') :
           results'[i].exactkv_failure = 0 <=> results'[i].token_exact_match
    BY <2>3
  <2>9. QED  BY <2>4, <2>6, <2>7, <2>8 DEF ResultsInv
<1>10. CountInv'
  <2>1. /\ IsFiniteSet(todo) /\ Cardinality(todo) \in Nat
        /\ n + Cardinality(todo) + 1 = Cardinality(Cells(config))
        /\ config.entry = "experimental" => config.enabled /\ ConfigValid(config)
        /\ status = "running"
    BY <1>1, <1>3, FS_CardinalityType DEF IInv, CountInv
  <2>2. (n + 1) + Cardinality(todo) + 0 = Cardinality(Cells(config))
    BY <2>1
  <2>3. todo' = todo /\ config' = config /\ status' = "running"
    BY <1>1, <2>1
  <2>4. Len(results') + Cardinality(todo') + 0 = Cardinality(Cells(config'))
    BY <1>4, <2>2, <2>3
  <2>5. QED  BY <1>1, <2>1, <2>3, <2>4 DEF CountInv
<1>11. QED  BY <1>5, <1>6, <1>7, <1>8, <1>9, <1>10 DEF IInv

LEMMA ReportInv == IInv /\ Report => IInv'
<1> SUFFICES ASSUME IInv, Report
             PROVE  IInv'
  OBVIOUS
<1>1. /\ pc = "next" /\ todo = {} /\ ~InCell /\ pc' = "ended" /\ ~InCell' /\ ~Looping'
      /\ status' = (IF Failures = 0 THEN "pass" ELSE "failed")
      /\ UNCHANGED <<config, todo, results, cell, kv, full_state, compressed, draft, acceptance,
                     committed, reference, output, traces, blocker>>
  BY DEF Report, Ends, InCell, Looping, cellVars, round
<1>2. TypeOK'
  BY <1>1 DEF IInv, TypeOK
<1>3. reference' \in Seq(Token) /\ traces' \in Seq(Trace)
  BY <1>1 DEF IInv
<1>4. CellInv' /\ RestoredInv' /\ GreedyInv' /\ DraftInv' /\ AnswerInv' /\ JudgeInv'
  BY <1>1 DEF CellInv, RestoredInv, GreedyInv, DraftInv, AnswerInv, JudgeInv
<1>5. InjectedMismatchRejected'
  BY <1>1 DEF IInv, InjectedMismatchRejected, Controlled
<1>6. ResultsInv'
  BY <1>1 DEF IInv, ResultsInv, Result, FailureOnlyTruncates, VerdictSound, Greedy!Continues
<1>7. CountInv'
  <2>1. /\ Len(results) + Cardinality(todo) + 0 = Cardinality(Cells(config))
        /\ config.entry = "experimental" => config.enabled /\ ConfigValid(config)
    BY <1>1 DEF IInv, CountInv
  <2>2. Cardinality(todo) = 0 /\ Len(results) \in Nat
    BY <1>1, FS_EmptySet, LenProperties DEF IInv, ResultsInv
  <2>3. Len(results) = Cardinality(Cells(config))
    BY <2>1, <2>2
  <2>4. Failures' = Failures /\ config' = config /\ results' = results
    BY <1>1 DEF Failures
  <2>5. QED  BY <1>1, <2>1, <2>3, <2>4 DEF CountInv
<1>8. QED  BY <1>2, <1>3, <1>4, <1>5, <1>6, <1>7 DEF IInv

LEMMA NextInv == IInv /\ [Next]_vars => IInv'
<1> SUFFICES ASSUME IInv, [Next]_vars
             PROVE  IInv'
  OBVIOUS
<1>1. CASE Start
  BY <1>1, StartInv
<1>2. CASE NextCell
  BY <1>2, NextCellInv
<1>3. CASE Restore
  BY <1>3, RestoreInv
<1>4. CASE Compress
  BY <1>4, CompressInv
<1>5. CASE Draft
  BY <1>5, DraftStepInv
<1>6. CASE LoopEnds
  BY <1>6, LoopEndsInv
<1>7. CASE Verify
  BY <1>7, VerifyInv
<1>8. CASE Commit
  BY <1>8, CommitInv
<1>9. CASE CommitRaises
  BY <1>9, CommitRaisesInv
<1>10. CASE Update
  BY <1>10, UpdateInv
<1>11. CASE Extend
  BY <1>11, ExtendInv
<1>12. CASE Judge
  BY <1>12, JudgeStepInv
<1>13. CASE Report
  BY <1>13, ReportInv
<1>14. CASE UNCHANGED vars
  BY <1>14, StutterInv
<1>15. QED
  BY <1>1, <1>2, <1>3, <1>4, <1>5, <1>6, <1>7, <1>8, <1>9, <1>10, <1>11, <1>12, <1>13, <1>14
     DEF Next, Step, Ended

-----------------------------------------------------------------------------
(* The theorems *)

LEMMA Invariance == Spec => []IInv
<1>1. Init => IInv
  BY InitInv
<1>2. IInv /\ [Next]_vars => IInv'
  BY NextInv
<1>3. QED  BY <1>1, <1>2, PTL DEF Spec

\* Type correctness: whatever is drafted, every committed token is in the
\* vocabulary and the output stays within the budget of the run.
THEOREM Typing == Spec => []TypeOK
<1>1. IInv => TypeOK
  BY DEF IInv
<1>2. QED  BY <1>1, Invariance, PTL

\* store_and_reload_prefill_state and commit_full_state: in every state of every
\* loop the stored entry is the untouched prefill, and the restored cache holds
\* the prompt and what was committed, exactly.
THEOREM RestoredCacheIsPrivate == Spec => []RestoredCacheCoversCommits
<1>1. IInv => RestoredCacheCoversCommits
  <2>1. SUFFICES ASSUME IInv, Looping
                 PROVE  /\ kv["stored"] = PrefillCache(cell.prompt)
                        /\ kv[full_state.past_key_values] =
                              [ tokens |-> cell.prompt \o WithoutEos(full_state.generated_ids),
                                exact  |-> TRUE ]
                        /\ full_state.generated_ids = Grown
                        /\ pc # "extend" /\ ~Controlled => compressed.logical_seq_len =
                              Len(cell.prompt) + Len(output)
    BY DEF RestoredCacheCoversCommits, Grown
  <2>2. full_state.past_key_values = "full"
    BY <2>1, CellFacts DEF InCell
  <2>3. QED  BY <2>1, <2>2 DEF IInv, RestoredInv, Looping
<1>2. QED  BY <1>1, Invariance, PTL

\* A cell that fails, wherever it fails, reports a prefix of the greedy output
\* and the place where it ends: too little, never a wrong token.
THEOREM FailuresTruncate == Spec => []FailureOnlyTruncates
<1>1. IInv => FailureOnlyTruncates
  BY DEF IInv, ResultsInv
<1>2. QED  BY <1>1, Invariance, PTL

\* first_divergence_index and the blockers: a cell is judged exact only if its
\* output is the whole greedy output, and every cell that may draft and was not
\* blocked is judged exact.
THEOREM VerdictIsSound == Spec => []VerdictSound
<1>1. IInv => VerdictSound
  BY DEF IInv, ResultsInv
<1>2. QED  BY <1>1, Invariance, PTL

\* propose_controlled_draft against the verifier: an injected mismatch is always
\* found at its place and corrected, and nothing else is rejected.
THEOREM MismatchIsFound == Spec => []InjectedMismatchRejected
<1>1. IInv => InjectedMismatchRejected
  BY DEF IInv
<1>2. QED  BY <1>1, Invariance, PTL

\* The report of an enabled, validated run judges every cell once, at least one,
\* and says "pass" exactly when no cell was blocked.
THEOREM ReportIsSound == Spec => []ExperimentalVerdict
<1>1. IInv => ExperimentalVerdict
  <2>1. SUFFICES ASSUME IInv, config.entry = "experimental", status \in {"pass", "failed"}
                 PROVE  /\ config.enabled
                        /\ Len(results) = Cardinality(Cells(config)) /\ results # <<>>
                        /\ status = "pass" <=> \A i \in 1..Len(results) : results[i].blocker = ""
    BY DEF ExperimentalVerdict
  <2>2. /\ config.enabled /\ ConfigValid(config) /\ config \in Configs
        /\ Len(results) = Cardinality(Cells(config))
        /\ status = "pass" <=> Failures = 0
        /\ results \in Seq(Result)
    BY <2>1 DEF IInv, CountInv, TypeOK, ResultsInv
  <2>3. /\ Cells(config) # {} /\ IsFiniteSet(Cells(config))
        /\ \A c \in Cells(config) : c.draft_len > 0
    BY <2>2, ConfigFacts
  <2>4. results # <<>>
    <3>1. Cardinality(Cells(config)) # 0
      BY <2>3, FS_EmptySet
    <3>2. Len(results) # 0
      BY <2>2, <3>1
    <3>3. QED  BY <2>2, <3>2, EmptySeq
  <2>5. ASSUME NEW i \in 1..Len(results)
        PROVE  results[i].exactkv_failure > 0 <=> results[i].blocker # ""
    <3>1. results[i] \in Result
      BY <2>2, ElementOfSeq
    <3>2. results[i].exactkv_failure \in {0, 1} /\ results[i].cell \in Cells(config)
      BY <3>1 DEF Result
    <3>3. /\ results[i].blocker = "" /\ results[i].cell.draft_len > 0 =>
                results[i].exactkv_failure = 0
          /\ results[i].blocker # "" => ~results[i].token_exact_match
          /\ results[i].exactkv_failure = 0 <=> results[i].token_exact_match
      BY <2>1 DEF IInv, ResultsInv, VerdictSound
    <3>4. results[i].cell.draft_len > 0
      BY <2>3, <3>2
    <3>5. results[i].exactkv_failure > 0 <=> ~(results[i].exactkv_failure = 0)
      BY <3>2
    <3>6. QED  BY <3>3, <3>4, <3>5
  <2>6. Failures = 0 <=> \A i \in 1..Len(results) : results[i].blocker = ""
    <3> DEFINE F == {i \in 1..Len(results) : results[i].exactkv_failure > 0}
    <3>1. Len(results) \in Nat
      BY <2>2, LenProperties
    <3>2. IsFiniteSet(1..Len(results)) /\ F \subseteq 1..Len(results)
      BY <3>1, FS_Interval
    <3>3. IsFiniteSet(F)
      BY <3>2, FS_Subset
    <3>4. Failures = Cardinality(F)
      BY DEF Failures
    <3>5. F = {} <=> \A i \in 1..Len(results) : results[i].blocker = ""
      BY <2>5
    <3> HIDE DEF F
    <3>6. QED  BY <3>3, <3>4, <3>5, FS_EmptySet
  <2>7. QED  BY <2>2, <2>4, <2>6
<1>2. QED  BY <1>1, Invariance, PTL

-----------------------------------------------------------------------------
(* The steps that are left *)

\* No cell takes more steps than this, none of its phases more than its part: five
\* for every round, of which there are no more than tokens.
CellCost == 5 * config.max_new_tokens + 5
CellLeft ==
    IF pc = "restore" THEN 5 * config.max_new_tokens + 4
    ELSE IF pc = "compress" THEN 5 * config.max_new_tokens + 3
    ELSE IF pc = "round" THEN 5 * Remaining + 2
    ELSE IF pc = "verify" THEN 5 * Remaining + 1
    ELSE IF pc = "commit" THEN 5 * Remaining
    ELSE IF pc = "update" THEN 5 * Remaining - 1
    ELSE IF pc = "extend" THEN 5 * Remaining - 2
    ELSE 1

\* A bound of the steps that a run has still to take.
StepsLeft ==
    IF pc = "start" THEN Cardinality(Cells(config)) * CellCost + 2
    ELSE IF pc = "ended" THEN 0
    ELSE Cardinality(todo) * CellCost + 1 + (IF InCell THEN CellLeft ELSE 0)

FewerLeft ==
    /\ StepsLeft \in Nat
    /\ StepsLeft' \in Nat
    /\ StepsLeft' < StepsLeft

\* The cells that wait, times what each costs.
Waiting == Cardinality(todo) * CellCost

\* The measure in numbers.
LEMMA CostFacts ==
    ASSUME IInv
    PROVE  /\ config.max_new_tokens \in Nat /\ CellCost \in Nat
           /\ CellCost = 5 * config.max_new_tokens + 5
           /\ Cardinality(Cells(config)) * CellCost \in Nat
           /\ pc \notin {"start", "ended"} => IsFiniteSet(todo) /\ Waiting \in Nat
<1>1. config.max_new_tokens \in Nat /\ IsFiniteSet(Cells(config))
  BY ConfigFacts DEF IInv, TypeOK
<1>2. CellCost \in Nat /\ CellCost = 5 * config.max_new_tokens + 5
  BY <1>1 DEF CellCost
<1>3. \A c, w \in Nat : c * w \in Nat
  OBVIOUS
<1>4. Cardinality(Cells(config)) \in Nat
  BY <1>1, FS_CardinalityType
<1>5. ASSUME pc \notin {"start", "ended"}
      PROVE  IsFiniteSet(todo) /\ Cardinality(todo) \in Nat
  BY <1>5, FS_CardinalityType DEF IInv, CountInv
<1>6. QED  BY <1>1, <1>2, <1>3, <1>4, <1>5 DEF Waiting

\* Within a cell it is enough that its phases count down.
LEMMA CellCountsDown ==
    ASSUME IInv, UNCHANGED <<config, todo>>, InCell, InCell',
           NEW x \in Nat, NEW y \in Nat, x = CellLeft, y = CellLeft', y < x
    PROVE  FewerLeft
<1>1. pc \notin {"start", "ended"} /\ pc' \notin {"start", "ended"}
  BY DEF InCell, Looping
<1>2. PICK w \in Nat : w = Waiting
  BY <1>1, CostFacts
<1>3. Waiting' = Waiting
  BY DEF Waiting, CellCost
<1>4. StepsLeft = w + 1 + x
  BY <1>1, <1>2 DEF StepsLeft, Waiting
<1>5. StepsLeft' = w + 1 + y
  <2>1. StepsLeft' = Waiting' + 1 + CellLeft'
    BY <1>1 DEF StepsLeft, Waiting
  <2>2. QED  BY <1>2, <1>3, <2>1
<1>6. \A a, b, c \in Nat : c < b => a + 1 + b \in Nat /\ a + 1 + c \in Nat /\ a + 1 + c < a + 1 + b
  OBVIOUS
<1>7. w + 1 + x \in Nat /\ w + 1 + y \in Nat /\ w + 1 + y < w + 1 + x
  BY <1>2, <1>6
<1>8. QED  BY <1>4, <1>5, <1>7 DEF FewerLeft

\* What the output leaves of the budget, phase by phase.
LEMMA CellBudget ==
    ASSUME IInv, InCell
    PROVE  /\ Remaining \in Nat /\ Remaining <= config.max_new_tokens
           /\ pc \in {"verify", "commit", "update", "extend"} => Remaining > 0
<1>1. /\ Remaining \in Nat /\ Remaining = config.max_new_tokens - Len(output)
      /\ MoreToDo => Len(output) < config.max_new_tokens
  BY BudgetFacts
<1>2. config.max_new_tokens \in Nat /\ Len(output) \in Nat
  BY CellFacts
<1>3. pc \in {"verify", "commit", "update", "extend"} => MoreToDo
  BY DEF IInv, DraftInv
<1>4. QED  BY <1>1, <1>2, <1>3

\* The phases of a cell, in the order in which they may follow one another while
\* the output stays as it is.
Follows ==
    \/ pc = "restore" /\ pc' \in {"compress", "round", "judge"}
    \/ pc = "compress" /\ pc' \in {"round", "judge"}
    \/ pc = "round" /\ pc' \in {"verify", "judge"}
    \/ pc = "verify" /\ pc' \in {"commit", "judge"}
    \/ pc = "commit" /\ pc' \in {"update", "extend", "judge"}
    \/ pc = "update" /\ pc' \in {"extend", "judge"}

LEMMA PhasesCountDown ==
    ASSUME IInv, UNCHANGED <<config, todo, output>>, Follows
    PROVE  FewerLeft
<1>1. InCell /\ InCell'
  BY DEF Follows, InCell, Looping
<1>2. PICK r \in Nat, n \in Nat :
         /\ r = Remaining /\ n = config.max_new_tokens /\ r <= n
         /\ pc \in {"verify", "commit", "update", "extend"} => r > 0
  BY <1>1, CellBudget, CostFacts
<1>3. Remaining' = r /\ config'.max_new_tokens = n
  BY <1>2 DEF Remaining
<1> DEFINE Left(p) == IF p = "restore" THEN 5 * n + 4
                      ELSE IF p = "compress" THEN 5 * n + 3
                      ELSE IF p = "round" THEN 5 * r + 2
                      ELSE IF p = "verify" THEN 5 * r + 1
                      ELSE IF p = "commit" THEN 5 * r
                      ELSE IF p = "update" THEN 5 * r - 1
                      ELSE IF p = "extend" THEN 5 * r - 2
                      ELSE 1
<1>4. CellLeft = Left(pc) /\ CellLeft' = Left(pc')
  BY <1>2, <1>3 DEF CellLeft
<1>5. Left(pc) \in Nat /\ Left(pc') \in Nat /\ Left(pc') < Left(pc)
  BY <1>2 DEF Follows
<1> HIDE DEF Left
<1>6. QED  BY <1>1, <1>4, <1>5, CellCountsDown

\* A round that ends leaves less of the budget.
LEMMA ExtendCountsDown ==
    ASSUME IInv, Extend
    PROVE  FewerLeft
<1>1. /\ pc = "extend" /\ pc' = "round" /\ UNCHANGED <<config, todo>>
      /\ output' = output \o committed
  BY DEF Extend
<1>2. InCell /\ InCell'
  BY <1>1 DEF InCell, Looping
<1>3. PICK v \in Seq(Token) :
         v # <<>> /\ committed = v /\ Len(output) + Len(v) <= config.max_new_tokens
  BY <1>1, RoundCommitsFacts
<1>4. PICK o \in Nat, c \in Nat \ {0}, n \in Nat :
         o = Len(output) /\ c = Len(v) /\ n = config.max_new_tokens /\ o + c <= n
  BY <1>2, <1>3, CellFacts, LenProperties, EmptySeq
<1>5. Len(output') = o + c
  <2>1. output \in Seq(Token)
    BY DEF IInv, TypeOK
  <2>2. QED  BY <1>1, <1>3, <1>4, <2>1, ConcatProperties
<1>6. CellLeft = 5 * (n - o) - 2 /\ CellLeft' = 5 * (n - (o + c)) + 2
  <2>1. Remaining = n - o /\ Remaining' = n - (o + c)
    BY <1>1, <1>4, <1>5 DEF Remaining
  <2>2. QED  BY <1>1, <2>1 DEF CellLeft
<1>7. PICK x \in Nat, y \in Nat : x = 5 * (n - o) - 2 /\ y = 5 * (n - (o + c)) + 2 /\ y < x
  <2>1. /\ 5 * (n - o) - 2 \in Nat /\ 5 * (n - (o + c)) + 2 \in Nat
        /\ 5 * (n - (o + c)) + 2 < 5 * (n - o) - 2
    BY <1>4
  <2>2. QED  BY <2>1
<1>8. QED  BY <1>1, <1>2, <1>6, <1>7, CellCountsDown

\* Between the cells: a cell that starts no longer waits, and one that is judged
\* is done with.
LEMMA BetweenCellsCountsDown ==
    ASSUME IInv, Start \/ NextCell \/ Judge \/ CommitRaises \/ Report
    PROVE  FewerLeft
<1>1. config' = config /\ CellCost' = CellCost
  BY DEF Start, NextCell, Judge, CommitRaises, Report, CellCost
<1>2. CASE Start
  <2>1. PICK k \in Nat : k = Cardinality(Cells(config)) * CellCost
    BY CostFacts
  <2>2. StepsLeft = k + 2
    BY <1>2, <2>1 DEF Start, StepsLeft
  <2>3. pc' = "ended" \/ (pc' = "next" /\ todo' = Cells(config))
    <3> DEFINE off == config.entry = "experimental" /\ ~config.enabled
               bad == config.entry = "experimental" /\ config.enabled /\ ~ConfigValid(config)
    <3>1. CASE off \/ bad
      BY <1>2, <3>1 DEF Start, Ends
    <3>2. CASE ~off /\ ~bad
      BY <1>2, <3>2 DEF Start, Ends
    <3>3. QED  BY <3>1, <3>2
  <2>4. StepsLeft' \in {0, k + 1 + 0}
    BY <1>1, <2>1, <2>3 DEF StepsLeft, InCell, Looping
  <2>5. QED  BY <2>2, <2>4 DEF FewerLeft
<1>3. CASE NextCell
  <2>1. PICK c \in todo : todo' = todo \ {c}
    BY <1>3 DEF NextCell
  <2>2. pc = "next" /\ pc' \in {"restore", "judge"} /\ InCell' /\ ~InCell
    BY <1>3 DEF NextCell, InCell, Looping
  <2>3. IsFiniteSet(todo)
    BY <2>2, CostFacts
  <2>4. PICK s \in Nat, n \in Nat, w \in Nat :
            /\ s + 1 = Cardinality(todo) /\ s = Cardinality(todo')
            /\ n = config.max_new_tokens /\ w = CellCost /\ w = 5 * n + 5
    <3>1. Cardinality(todo') = Cardinality(todo) - 1 /\ Cardinality(todo) \in Nat
          /\ Cardinality(todo') \in Nat
      BY <2>1, <2>3, FS_RemoveElement, FS_CardinalityType
    <3>2. QED  BY <3>1, CostFacts
  <2>5. PICK k \in Nat : k = s * w /\ (s + 1) * w = k + w
    <3>1. s * w \in Nat /\ (s + 1) * w = s * w + w
      OBVIOUS
    <3>2. QED  BY <3>1
  <2>6. StepsLeft = k + w + 1
    <3>1. StepsLeft = Cardinality(todo) * CellCost + 1 + 0
      BY <2>2 DEF StepsLeft
    <3>2. Cardinality(todo) * CellCost = (s + 1) * w
      BY <2>4, Zenon
    <3>3. StepsLeft = (k + w) + 1 + 0
      BY <2>5, <3>1, <3>2, Zenon
    <3>4. QED  BY <2>4, <3>3
  <2>7. PICK x \in {5 * n + 4, 1} : StepsLeft' = k + 1 + x
    <3>1. CellLeft' \in {5 * n + 4, 1}
      BY <1>1, <2>2, <2>4 DEF CellLeft
    <3>2. StepsLeft' = Cardinality(todo') * CellCost' + 1 + CellLeft'
      BY <2>2 DEF StepsLeft
    <3>3. QED  BY <1>1, <2>4, <2>5, <3>1, <3>2
  <2>8. QED  BY <2>4, <2>6, <2>7 DEF FewerLeft
<1>4. CASE Judge
  <2>1. pc = "judge" /\ pc' = "next" /\ todo' = todo /\ InCell /\ ~InCell'
    BY <1>4 DEF Judge, InCell, Looping
  <2>2. PICK w \in Nat : w = Waiting
    BY <2>1, CostFacts
  <2>3. StepsLeft = w + 1 + 1 /\ StepsLeft' = w + 1 + 0
    <3>1. StepsLeft = Waiting + 1 + CellLeft /\ CellLeft = 1
      BY <2>1 DEF StepsLeft, CellLeft, Waiting
    <3>2. StepsLeft' = Cardinality(todo') * CellCost' + 1 + 0
      BY <2>1 DEF StepsLeft
    <3>3. QED  BY <1>1, <2>1, <2>2, <3>1, <3>2 DEF Waiting
  <2>4. QED  BY <2>2, <2>3 DEF FewerLeft
<1>5. CASE CommitRaises \/ Report
  <2>1. pc \in {"commit", "next"} /\ pc' = "ended"
    BY <1>5 DEF CommitRaises, Report, Ends
  <2>2. StepsLeft' = 0
    BY <2>1 DEF StepsLeft
  <2>3. PICK w \in Nat : w = Waiting
    BY <2>1, CostFacts
  <2>4. CASE pc = "commit"
    <3>1. InCell
      BY <2>4 DEF InCell, Looping
    <3>2. PICK x \in Nat : x = CellLeft
      <4>1. Remaining \in Nat
        BY <3>1, CellBudget
      <4>2. 5 * Remaining \in Nat
        BY <4>1
      <4>3. QED  BY <2>4, <4>2 DEF CellLeft
    <3>3. StepsLeft = w + 1 + x
      BY <2>3, <2>4, <3>1, <3>2 DEF StepsLeft, Waiting
    <3>4. QED  BY <2>2, <2>3, <3>2, <3>3 DEF FewerLeft
  <2>5. CASE pc = "next"
    <3>1. StepsLeft = w + 1 + 0
      BY <2>3, <2>5 DEF StepsLeft, Waiting, InCell, Looping
    <3>2. QED  BY <2>2, <2>3, <3>1 DEF FewerLeft
  <2>6. QED  BY <2>1, <2>4, <2>5
<1>6. QED  BY <1>2, <1>3, <1>4, <1>5

\* The safety half of Termination: a run of any configuration, with whatever
\* blockers and whatever draft lengths, lowers with every step a number that
\* starts within what its cells cost; no cell is run twice, and a round without
\* progress ends its cell.
THEOREM StepsRunOut ==
    Spec => /\ StepsLeft = Cardinality(Cells(config)) * CellCost + 2
            /\ [][FewerLeft]_vars
<1>1. Init => StepsLeft = Cardinality(Cells(config)) * CellCost + 2
  BY DEF Init, StepsLeft
<1>2. IInv /\ [Next]_vars => [FewerLeft]_vars
  <2>1. SUFFICES ASSUME IInv, Step
                 PROVE  FewerLeft
    BY DEF Next, Ended
  <2>2. CASE Restore \/ Compress \/ Draft \/ LoopEnds \/ Verify \/ Commit \/ Update
    <3>1. UNCHANGED <<config, todo, output>>
      BY <2>2 DEF Restore, Compress, Draft, LoopEnds, Verify, Commit, Update, cellVars
    <3>2. Follows
      BY <2>2 DEF Restore, Compress, Draft, AfterDraft, LoopEnds, Verify, Commit, Update,
                  Blocked, Follows
    <3>3. QED  BY <2>1, <3>1, <3>2, PhasesCountDown
  <2>3. QED  BY <2>1, <2>2, ExtendCountsDown, BetweenCellsCountsDown DEF Step
<1>3. QED  BY <1>1, <1>2, Invariance, PTL DEF Spec
=============================================================================
