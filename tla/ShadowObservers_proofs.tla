------------------------- MODULE ShadowObservers_proofs -------------------------
(***************************************************************************)
(* Proofs about ShadowObservers, for every model and every shadow replay:  *)
(* the observer's snapshots are the rounds of the traces, a replay inside  *)
(* the callback sees what one after the generation sees, the L4 dry run    *)
(* decides on a round's record as the generator did, and what the proposal *)
(* panels count adds up to the generator's totals.                         *)
(*                                                                         *)
(* ShadowInv relates the records of the rounds, and what the observer made *)
(* of them, to the output; SumsInv relates the sums over the records to    *)
(* the totals; the generator's own invariants carry over.                  *)
(***************************************************************************)
EXTENDS ShadowObservers, ExactKVGenerator_proofs

-----------------------------------------------------------------------------
(* The invariant *)

\* a is what compute_acceptance makes of the draft d and the verifier's answer.
Judged(a, d) ==
    /\ d \in Seq(TokenId) /\ d # <<>>
    /\ a.verifier_tokens \in Seq(Token)
    /\ Answers(a.verifier_tokens, d)
    /\ a = compute_acceptance(d, a.verifier_tokens)

JudgedInv == pc \in {"commit", "align"} => Judged(acceptance, draft.token_ids)

RoundRecord == [ round_idx : Nat, draft_tokens : Seq(TokenId), acceptance : AcceptanceResult,
                 full_seq_len_before : Nat, full_seq_len_after : Nat ]

\* The length of the sequence after k rounds, as the traces report it.
EndOf(k) == IF k = 0 THEN Len(request.prompt) ELSE result_traces[k].full_seq_len_after

\* The i-th record is that of a round which began where the one before ended.
RecordFits(i) ==
    LET t == result_traces[i]
    IN  /\ t.round_idx = i - 1
        /\ Judged(t.acceptance, t.draft_tokens)
        /\ t.full_seq_len_before = EndOf(i - 1)
        /\ Len(request.prompt) <= t.full_seq_len_before
        /\ t.full_seq_len_before < t.full_seq_len_after
        /\ Len(request.prompt) + i <= t.full_seq_len_after
        /\ t.full_seq_len_after <= Len(request.prompt) + Len(all_generated)

RecordsInv ==
    /\ result_traces \in Seq(RoundRecord)
    /\ \A i \in 1..Len(result_traces) : RecordFits(i)
    /\ EndOf(Len(result_traces)) = Len(request.prompt) + Len(all_generated)

Snapshot == [ round_index : Nat, prefix_before : Seq(Token), prefix_after : Seq(Token),
              draft_tokens : Seq(TokenId), accepted : Nat, rejected_or_corrected : Nat,
              full_seq_len_before : Nat, full_seq_len_after : Nat ]
ShadowCell == [ round_index : Nat, shadow_sequence_length : Nat,
                top1 : {ShadowReplay(s).top1 : s \in Seq(Token)},
                blocker : {ShadowReplay(s).blocker : s \in Seq(Token)} ]

\* What the observer makes of the round with the trace t when the sequence is s.
SnapshotIn(s, t) ==
    [ round_index           |-> t.round_idx,
      prefix_before         |-> SubSeq(s, 1, t.full_seq_len_before),
      prefix_after          |-> SubSeq(s, 1, t.full_seq_len_after),
      draft_tokens          |-> t.draft_tokens,
      accepted              |-> Len(t.acceptance.accepted_tokens),
      rejected_or_corrected |-> RejectedOrCorrected(t.acceptance),
      full_seq_len_before   |-> t.full_seq_len_before,
      full_seq_len_after    |-> t.full_seq_len_after ]
CellIn(s, t) == ShadowRoundCell(t.round_idx, SubSeq(s, 1, t.full_seq_len_after))

Raised(cells) == {i \in DOMAIN cells : cells[i].blocker = "raised"}

\* The observer has seen every round; the one being notified, and one whose
\* notification raised, are still missing.
ObservedInv ==
    LET n == Len(result_traces)
        k == Len(snapshots)
    IN  /\ snapshots \in Seq(Snapshot) /\ decode_cells \in Seq(ShadowCell)
        /\ k <= n /\ Len(decode_cells) = k
        /\ \A i \in 1..k : /\ snapshots[i] = SnapshotIn(FullSequence, result_traces[i])
                           /\ decode_cells[i] = CellIn(FullSequence, result_traces[i])
        /\ Observed /\ pc \notin {"notify", "raised"} => k = n
        /\ Observed /\ pc = "notify" => k = n - 1
        /\ ~Observed => k = 0
        /\ callback_exceptions = Cardinality(Raised(decode_cells))

\* While a round is notified, the output before it is still at hand.
BeforeInv ==
    pc = "notify" =>
        /\ result_traces # <<>>
        /\ gen_tokens_before \in Seq(Token)
        /\ request.prompt \o gen_tokens_before =
              SubSeq(FullSequence, 1, result_traces[Len(result_traces)].full_seq_len_before)
        /\ seq_len = result_traces[Len(result_traces)].full_seq_len_after

ShadowInv == JudgedInv /\ RecordsInv /\ ObservedInv /\ BeforeInv

-----------------------------------------------------------------------------
(* Each step of the observed generator is one of the generator *)

LEMMA ShadowStep == [ShadowNext]_shadow_vars => [Next]_vars
<1> SUFFICES ASSUME [ShadowNext]_shadow_vars
             PROVE  [Next]_vars
  OBVIOUS
<1>1. CASE AlignTraced \/ NotifyObserved \/ RaisesUnobserved \/ OtherStep
  BY <1>1 DEF AlignTraced, NotifyObserved, RaisesUnobserved, OtherStep, Next, Step
<1>2. CASE UNCHANGED vars
  BY <1>2
<1>3. QED  BY <1>1, <1>2 DEF ShadowNext, shadow_vars

\* The generator's invariants hold throughout an observed generation.
LEMMA GeneratorInvariance == ShadowSpec => [](IInv /\ RoundsInv)
<1>1. ShadowInit => IInv /\ RoundsInv
  BY InitInv, RoundsInit DEF ShadowInit
<1>2. IInv /\ RoundsInv /\ [ShadowNext]_shadow_vars => (IInv /\ RoundsInv)'
  BY ShadowStep, NextInv, RoundsNext
<1>3. QED  BY <1>1, <1>2, PTL DEF ShadowSpec

\* The rounds' records and what the observer holds change in Align and Notify only.
LEMMA ObservationFrame ==
    ASSUME UNCHANGED <<request, all_generated, result_traces, gen_tokens_before, observed>>
    PROVE  /\ RecordsInv => RecordsInv'
           /\ ObservedInv /\ pc \notin {"notify", "raised"} /\ pc' # "notify" => ObservedInv'
           /\ ObservedInv /\ pc' \in {pc, "raised"} => ObservedInv'
<1>1. UNCHANGED <<FullSequence, Observed, snapshots, decode_cells, callback_exceptions>>
  BY DEF FullSequence, Observed, observed
<1>2. RecordsInv => RecordsInv'
  BY DEF RecordsInv, RecordFits, EndOf
<1>3. QED  BY <1>1, <1>2 DEF ObservedInv

\* What a round's record says when the verification is decided.
LEMMA DecideJudged ==
    ASSUME IInv, RoundsInv, Decide, pc' = "commit"
    PROVE  Judged(acceptance, draft.token_ids)'
<1> DEFINE d == draft.token_ids
           v == verifier.tokens
<1>1. /\ d \in Seq(TokenId) /\ v \in Seq(Token) /\ Len(d) \in Nat
      /\ TruncateAtEos(CommittedBy(Verified)) = v
  BY DecideFacts DEF Decide
<1>2. /\ pc = "decide" /\ draft' = draft
      /\ acceptance' = Verified /\ v # <<>>
  BY <1>1 DEF Decide
<1>3. Verified = compute_acceptance(d, v)
  BY RequestFacts DEF Verified, IInv, TypeOK
<1>4. Answers(v, d)
  BY <1>1, <1>2 DEF IInv, VerifyInv, Answers
<1>5. d # <<>>
  BY <1>1, <1>2, <1>4, EmptySeq, LenProperties DEF Answers
<1>6. compute_acceptance(d, v).verifier_tokens = v
  BY <1>5 DEF compute_acceptance
<1>7. QED  BY <1>1, <1>2, <1>3, <1>4, <1>5, <1>6 DEF Judged

LEMMA ShadowOther == IInv /\ RoundsInv /\ ShadowInv /\ OtherStep => ShadowInv'
<1> SUFFICES ASSUME IInv, RoundsInv, ShadowInv, OtherStep
             PROVE  ShadowInv'
  OBVIOUS
<1>1. /\ pc \notin {"notify", "raised", "align"} /\ pc' # "notify"
      /\ UNCHANGED <<request, all_generated, result_traces, gen_tokens_before, observed>>
  BY DEF OtherStep, Step, Prefill, BeginRound, DraftLast, DraftForward, DraftOutOfVocabulary,
         VerifySpanBatched, BeginVerify, CompareLast, CompareForward, Decide, Commit, Align,
         Notify, NotifyRaises, Return, AfterDraft, outputs
<1>2. RecordsInv' /\ ObservedInv' /\ BeforeInv'
  BY <1>1, ObservationFrame DEF ShadowInv, BeforeInv
<1>3. JudgedInv'
  <2>1. CASE Decide
    <3>1. pc' \in {"round", "commit"}
      BY <2>1 DEF Decide
    <3>2. QED  BY <2>1, <3>1, DecideJudged DEF JudgedInv
  <2>2. CASE Commit
    BY <2>2 DEF Commit, ShadowInv, JudgedInv
  <2>3. CASE ~Decide /\ ~Commit
    BY <2>3, <1>1 DEF OtherStep, Step, Prefill, BeginRound, DraftLast, DraftForward,
         DraftOutOfVocabulary, VerifySpanBatched, BeginVerify, CompareLast, CompareForward,
         Align, Notify, NotifyRaises, Return, AfterDraft, JudgedInv
  <2>4. QED  BY <2>1, <2>2, <2>3
<1>4. QED  BY <1>2, <1>3 DEF ShadowInv

LEMMA ShadowQuiet == ShadowInv /\ (RaisesUnobserved \/ UNCHANGED shadow_vars) => ShadowInv'
<1> SUFFICES ASSUME ShadowInv, RaisesUnobserved \/ UNCHANGED shadow_vars
             PROVE  ShadowInv'
  OBVIOUS
<1>1. /\ pc' \in {pc, "raised"}
      /\ UNCHANGED <<request, all_generated, result_traces, gen_tokens_before, observed>>
      /\ UNCHANGED <<acceptance, draft, full_state>>
  BY DEF RaisesUnobserved, NotifyRaises, shadow_vars, vars, locals, outputs
<1>2. RecordsInv' /\ ObservedInv'
  BY <1>1, ObservationFrame DEF ShadowInv
<1>3. JudgedInv' /\ BeforeInv'
  BY <1>1 DEF ShadowInv, JudgedInv, BeforeInv, FullSequence, seq_len
<1>4. QED  BY <1>2, <1>3 DEF ShadowInv

-----------------------------------------------------------------------------
(* A round ends *)

\* A longer sequence does not change what was observed of earlier rounds.
LEMMA ObservedPrefix ==
    ASSUME NEW s \in Seq(Token), NEW u \in Seq(Token), NEW t \in RoundRecord,
           t.full_seq_len_before <= Len(s), t.full_seq_len_after <= Len(s)
    PROVE  SnapshotIn(s \o u, t) = SnapshotIn(s, t) /\ CellIn(s \o u, t) = CellIn(s, t)
<1>1. t.full_seq_len_before \in 0..Len(s) /\ t.full_seq_len_after \in 0..Len(s)
  BY LenProperties DEF RoundRecord
<1>2. /\ SubSeq(s \o u, 1, t.full_seq_len_before) = SubSeq(s, 1, t.full_seq_len_before)
      /\ SubSeq(s \o u, 1, t.full_seq_len_after) = SubSeq(s, 1, t.full_seq_len_after)
  BY <1>1, PrefixInConcat
<1>3. QED  BY <1>2 DEF SnapshotIn, CellIn

\* What the step that aligns the states adds to the sequence and to the traces.
LEMMA AlignFacts ==
    ASSUME IInv, RoundsInv, ShadowInv, AlignTraced
    PROVE  /\ pc = "align" /\ pc' = "notify" /\ UNCHANGED <<request, observed, seq_len>>
           /\ all_generated \in Seq(Token) /\ committed \in Seq(Token)
           /\ Len(committed) \in Nat \ {0}
           /\ request.prompt \in Seq(Token)
           /\ FullSequence \in Seq(Token)
           /\ Len(FullSequence) = Len(request.prompt) + Len(all_generated)
           /\ FullSequence' = FullSequence \o committed
           /\ Len(all_generated') = Len(all_generated) + Len(committed)
           /\ seq_len = Len(request.prompt) + Len(all_generated) + Len(committed)
           /\ gen_tokens_before' = all_generated
           /\ RoundTrace \in RoundRecord /\ Judged(RoundTrace.acceptance, RoundTrace.draft_tokens)
           /\ result_traces' = Append(result_traces, RoundTrace)
<1>1. /\ pc = "align" /\ pc' = "notify" /\ UNCHANGED <<request, observed, full_state>>
      /\ all_generated' = all_generated \o committed
      /\ gen_tokens_before' = all_generated
      /\ result_traces' = Append(result_traces, RoundTrace)
  BY DEF AlignTraced, Align
<1>2. /\ all_generated \in Seq(Token) /\ committed \in Seq(Token) /\ committed # <<>>
      /\ full_state.generated_ids \in Seq(Token) /\ request.prompt \in Seq(Token)
      /\ pending = <<>> /\ all_generated \o committed = full_state.generated_ids \o pending
  BY <1>1, RequestFacts DEF IInv, TypeOK, FullKVState, CommitInv
<1>3. /\ Len(all_generated) \in Nat /\ Len(committed) \in Nat \ {0} /\ Len(request.prompt) \in Nat
      /\ Len(all_generated \o committed) = Len(all_generated) + Len(committed)
  BY <1>2, LenProperties, EmptySeq, ConcatProperties
<1>4. full_state.generated_ids = all_generated \o committed
  BY <1>2, ConcatEmptySeq
<1>5. seq_len = Len(request.prompt) + Len(all_generated) + Len(committed) /\ seq_len' = seq_len
  <2>1. seq_len = Len(request.prompt) + Len(all_generated \o committed)
    BY <1>4 DEF seq_len
  <2>2. seq_len' = seq_len
    BY <1>1 DEF seq_len
  <2> DEFINE p == Len(request.prompt)
             g == Len(all_generated)
             c == Len(committed)
             w == Len(all_generated \o committed)
  <2>3. p \in Nat /\ g \in Nat /\ c \in Nat /\ w = g + c /\ seq_len = p + w
    BY <1>3, <2>1
  <2>4. seq_len = p + g + c
    <3> HIDE DEF p, g, c, w
    <3>1. QED  BY <2>3
  <2>5. QED  BY <2>2, <2>4
<1>6. /\ FullSequence \in Seq(Token)
      /\ Len(FullSequence) = Len(request.prompt) + Len(all_generated)
      /\ FullSequence' = FullSequence \o committed
  <2>1. (request.prompt \o all_generated) \o committed
            = request.prompt \o (all_generated \o committed)
    <3>1. /\ request.prompt \in Seq(Token) /\ all_generated \in Seq(Token)
          /\ committed \in Seq(Token)
      BY <1>2
    <3>2. \A s, t, u \in Seq(Token) : (s \o t) \o u = s \o (t \o u)
      BY ConcatAssociative
    <3>3. QED  BY <3>1, <3>2, Zenon
  <2>2. FullSequence' = request.prompt \o (all_generated \o committed)
    BY <1>1 DEF FullSequence
  <2>3. FullSequence = request.prompt \o all_generated
    BY DEF FullSequence
  <2>4. QED  BY <1>2, <2>1, <2>2, <2>3, ConcatProperties
<1>7. Judged(acceptance, draft.token_ids) /\ acceptance \in AcceptanceResult
  BY <1>1 DEF ShadowInv, JudgedInv, IInv, TypeOK
<1>8. Len(result_traces) \in Nat /\ draft.token_ids \in Seq(TokenId)
  BY <1>7, LenProperties DEF ShadowInv, RecordsInv, Judged
<1>9. RoundTrace \in RoundRecord
  BY <1>3, <1>5, <1>7, <1>8 DEF RoundTrace, RoundRecord
<1>10. QED  BY <1>1, <1>2, <1>3, <1>5, <1>6, <1>7, <1>9 DEF RoundTrace

LEMMA AlignRecords == IInv /\ RoundsInv /\ ShadowInv /\ AlignTraced => RecordsInv'
<1> SUFFICES ASSUME IInv, RoundsInv, ShadowInv, AlignTraced
             PROVE  RecordsInv'
  OBVIOUS
<1> DEFINE P == Len(request.prompt)
           G == Len(all_generated)
<1>0. PICK n \in Nat : n = Len(result_traces)
  BY LenProperties DEF ShadowInv, RecordsInv
<1>1. /\ result_traces \in Seq(RoundRecord) /\ RoundTrace \in RoundRecord
      /\ result_traces' = Append(result_traces, RoundTrace)
  BY AlignFacts DEF ShadowInv, RecordsInv
<1>2. /\ n \in Nat /\ result_traces' \in Seq(RoundRecord) /\ Len(result_traces') = n + 1
      /\ \A i \in 1..n : result_traces'[i] = result_traces[i]
      /\ result_traces'[n + 1] = RoundTrace
  BY <1>0, <1>1, AppendProperties
<1>3. /\ P \in Nat /\ G \in Nat /\ Len(committed) \in Nat \ {0}
      /\ seq_len = P + G + Len(committed)
      /\ Len(all_generated') = G + Len(committed) /\ request' = request
  BY AlignFacts, LenProperties
<1>4. /\ \A k \in 0..n : EndOf(k)' = EndOf(k)
      /\ EndOf(n + 1)' = seq_len
  <2>1. \A k \in 0..n : k = 0 \/ k \in 1..n
    BY <1>2
  <2>2. RoundTrace.full_seq_len_after = seq_len
    BY DEF RoundTrace
  <2>3. QED  BY <1>2, <1>3, <2>1, <2>2 DEF EndOf
<1>5. EndOf(n) = P + G /\ \A i \in 1..n : RecordFits(i)
  BY <1>0 DEF ShadowInv, RecordsInv
<1>6. ASSUME NEW i \in 1..n
      PROVE  RecordFits(i)'
  <2>1. i - 1 \in 0..n /\ result_traces'[i] = result_traces[i]
    BY <1>2
  <2>2. RecordFits(i) /\ EndOf(i - 1)' = EndOf(i - 1)
    BY <1>4, <1>5, <2>1
  <2>3. result_traces[i].full_seq_len_after \in Nat
    <3>1. result_traces[i] \in RoundRecord
      BY <1>0, <1>1, ElementOfSeq
    <3>2. QED  BY <3>1 DEF RoundRecord
  <2>4. P + Len(all_generated') >= result_traces[i].full_seq_len_after
    <3>1. result_traces[i].full_seq_len_after <= P + G
      BY <2>2 DEF RecordFits
    <3> DEFINE a == result_traces[i].full_seq_len_after
    <3>2. a \in Nat /\ a <= P + G
      BY <2>3, <3>1
    <3> HIDE DEF a, P, G
    <3>3. QED  BY <1>3, <3>2 DEF a
  <2>5. QED  BY <1>3, <2>1, <2>2, <2>4 DEF RecordFits
<1>7. RecordFits(n + 1)'
  <2> DEFINE t == RoundTrace
  <2>1. /\ t.round_idx = n /\ t.full_seq_len_before = P + G /\ t.full_seq_len_after = seq_len
        /\ Judged(t.acceptance, t.draft_tokens)
    BY <1>0, AlignFacts DEF RoundTrace
  <2>2. P + n <= P + G
    <3>1. CASE n = 0
      BY <1>3, <3>1
    <3>2. CASE n > 0
      <4>1. n \in 1..n
        BY <1>2, <3>2
      <4>2. QED  BY <1>5, <3>2, <4>1 DEF RecordFits, EndOf
    <3>3. QED  BY <1>2, <3>1, <3>2
  <2>3. (n + 1) - 1 = n /\ EndOf(n)' = P + G
    BY <1>2, <1>4, <1>5
  <2>4. /\ P <= P + G /\ P + (n + 1) <= seq_len /\ P + G < seq_len
        /\ seq_len <= P + Len(all_generated')
    <3> DEFINE c == Len(committed)
               w == Len(all_generated')
    <3>1. /\ P \in Nat /\ G \in Nat /\ c \in Nat \ {0} /\ w = G + c /\ P + n <= P + G
          /\ seq_len = P + G + c
      BY <1>3, <2>2
    <3> HIDE DEF c, w, P, G
    <3>2. P <= P + G /\ P + (n + 1) <= seq_len /\ P + G < seq_len /\ seq_len <= P + w
      BY <3>1
    <3>3. QED  BY <3>2 DEF w
  <2>5. P' = P
    BY <1>3
  <2> HIDE DEF t
  <2>6. result_traces'[n + 1] = t
    BY <1>2 DEF t
  <2>7. QED  BY <2>1, <2>3, <2>4, <2>5, <2>6 DEF RecordFits
<1>8. \A i \in 1..(n + 1) : RecordFits(i)'
  <2>1. \A i \in 1..(n + 1) : i \in 1..n \/ i = n + 1
    BY <1>2
  <2>2. QED  BY <1>6, <1>7, <2>1
<1>9. EndOf(Len(result_traces))' = Len(request.prompt)' + Len(all_generated)'
  <2>1. P' = P /\ seq_len = P + Len(all_generated')
    <3> DEFINE c == Len(committed)
               w == Len(all_generated')
    <3>1. P' = P
      BY <1>3
    <3>2. P \in Nat /\ G \in Nat /\ c \in Nat /\ w = G + c /\ seq_len = P + G + c
      BY <1>3
    <3> HIDE DEF c, w, P, G
    <3>3. seq_len = P + w
      BY <3>2
    <3>4. QED  BY <3>1, <3>3 DEF w
  <2>2. EndOf(Len(result_traces))' = EndOf(n + 1)'
    BY <1>2
  <2>3. QED  BY <1>4, <2>1, <2>2
<1>10. QED  BY <1>2, <1>8, <1>9 DEF RecordsInv

LEMMA AlignObserved == IInv /\ RoundsInv /\ ShadowInv /\ AlignTraced => ObservedInv'
<1> SUFFICES ASSUME IInv, RoundsInv, ShadowInv, AlignTraced
             PROVE  ObservedInv'
  OBVIOUS
<1>0. PICK n \in Nat : n = Len(result_traces)
  BY LenProperties DEF ShadowInv, RecordsInv
<1>1. PICK k \in Nat : k = Len(snapshots)
  BY LenProperties DEF ShadowInv, ObservedInv
<1>2. /\ pc = "align" /\ pc' = "notify" /\ request' = request
      /\ UNCHANGED <<snapshots, decode_cells, callback_exceptions>>
      /\ FullSequence' = FullSequence \o committed
      /\ FullSequence \in Seq(Token) /\ committed \in Seq(Token)
      /\ Len(FullSequence) = Len(request.prompt) + Len(all_generated)
  BY AlignFacts DEF observed
<1>3. /\ result_traces \in Seq(RoundRecord)
      /\ Len(result_traces') = n + 1
      /\ \A i \in 1..n : result_traces'[i] = result_traces[i]
  <2>1. /\ result_traces \in Seq(RoundRecord) /\ RoundTrace \in RoundRecord
        /\ result_traces' = Append(result_traces, RoundTrace)
    BY AlignFacts DEF ShadowInv, RecordsInv
  <2>2. QED  BY <1>0, <2>1, AppendProperties
<1>4. /\ k <= n
      /\ Observed => k = n
      /\ ~Observed => k = 0
      /\ snapshots \in Seq(Snapshot) /\ decode_cells \in Seq(ShadowCell) /\ Len(decode_cells) = k
      /\ callback_exceptions = Cardinality(Raised(decode_cells))
      /\ \A i \in 1..k : /\ snapshots[i] = SnapshotIn(FullSequence, result_traces[i])
                         /\ decode_cells[i] = CellIn(FullSequence, result_traces[i])
  BY <1>0, <1>1, <1>2 DEF ShadowInv, ObservedInv
<1>5. ASSUME NEW i \in 1..k
      PROVE  /\ snapshots[i] = SnapshotIn(FullSequence', result_traces'[i])
             /\ decode_cells[i] = CellIn(FullSequence', result_traces'[i])
  <2>1. i \in 1..n
    BY <1>4
  <2>2. result_traces[i] \in RoundRecord /\ RecordFits(i)
    BY <2>1, <1>0, <1>3, ElementOfSeq DEF ShadowInv, RecordsInv
  <2>3. /\ result_traces[i].full_seq_len_after <= Len(FullSequence)
        /\ result_traces[i].full_seq_len_before <= Len(FullSequence)
    <3>1. /\ result_traces[i].full_seq_len_after \in Nat
          /\ result_traces[i].full_seq_len_before \in Nat
          /\ Len(FullSequence) \in Nat
      BY <1>2, <2>2, LenProperties DEF RoundRecord
    <3>2. result_traces[i].full_seq_len_after <= Len(FullSequence)
      BY <1>2, <2>2 DEF RecordFits
    <3>3. result_traces[i].full_seq_len_before < result_traces[i].full_seq_len_after
      BY <2>2 DEF RecordFits
    <3>4. QED  BY <3>1, <3>2, <3>3
  <2>4. /\ SnapshotIn(FullSequence \o committed, result_traces[i])
             = SnapshotIn(FullSequence, result_traces[i])
        /\ CellIn(FullSequence \o committed, result_traces[i])
             = CellIn(FullSequence, result_traces[i])
    BY <1>2, <2>2, <2>3, ObservedPrefix
  <2>5. QED  BY <1>2, <1>3, <1>4, <2>1, <2>4
<1>6. Observed' = Observed /\ Raised(decode_cells)' = Raised(decode_cells)
  BY <1>2 DEF Observed
<1>7. Len(snapshots') = k /\ Len(decode_cells') = k /\ n = (n + 1) - 1
  BY <1>1, <1>2, <1>4
<1>8. QED  BY <1>2, <1>3, <1>4, <1>5, <1>6, <1>7 DEF ObservedInv

LEMMA ShadowAlign == IInv /\ RoundsInv /\ ShadowInv /\ AlignTraced => ShadowInv'
<1> SUFFICES ASSUME IInv, RoundsInv, ShadowInv, AlignTraced
             PROVE  ShadowInv'
  OBVIOUS
<1>1. RecordsInv' /\ ObservedInv'
  BY AlignRecords, AlignObserved
<1>2. JudgedInv'
  BY AlignFacts DEF JudgedInv
<1>3. BeforeInv'
  <2>1. /\ request' = request /\ gen_tokens_before' = all_generated /\ all_generated \in Seq(Token)
        /\ seq_len' = seq_len /\ FullSequence' = FullSequence \o committed
        /\ FullSequence \in Seq(Token) /\ committed \in Seq(Token)
        /\ Len(FullSequence) = Len(request.prompt) + Len(all_generated)
        /\ result_traces \in Seq(RoundRecord) /\ RoundTrace \in RoundRecord
        /\ result_traces' = Append(result_traces, RoundTrace)
    BY AlignFacts DEF ShadowInv, RecordsInv
  <2>2. /\ result_traces' # <<>>
        /\ result_traces'[Len(result_traces')] = RoundTrace
    <3>1. /\ result_traces' # <<>> /\ Len(result_traces') = Len(result_traces) + 1
          /\ result_traces'[Len(result_traces) + 1] = RoundTrace
      BY <2>1, AppendProperties
    <3>2. QED  BY <3>1
  <2>3. /\ RoundTrace.full_seq_len_before = Len(FullSequence)
        /\ RoundTrace.full_seq_len_after = seq_len
    BY <2>1 DEF RoundTrace
  <2>4. SubSeq(FullSequence \o committed, 1, Len(FullSequence)) = FullSequence
    <3>1. Len(FullSequence) \in 0..Len(FullSequence)
      BY <2>1, LenProperties
    <3>2. QED  BY <2>1, <3>1, PrefixInConcat, SubSeqFull
  <2>5. FullSequence = request.prompt \o all_generated
    BY DEF FullSequence
  <2>6. QED  BY <2>1, <2>2, <2>3, <2>4, <2>5 DEF BeforeInv
<1>4. QED  BY <1>1, <1>2, <1>3 DEF ShadowInv

-----------------------------------------------------------------------------
(* A round is notified *)

\* A prefix of the sequence that a trace delimits has the length it reports.
LEMMA PrefixLen ==
    ASSUME NEW s \in Seq(Token), NEW k \in Nat, k <= Len(s)
    PROVE  SubSeq(s, 1, k) \in Seq(Token) /\ Len(SubSeq(s, 1, k)) = k
<1>1. Len(s) \in Nat
  BY LenProperties
<1>2. \A i \in 1..k : s[i] \in Token
  BY <1>1, ElementOfSeq
<1>3. QED  BY <1>2, SubSeqProperties

\* What the traces and the output say of any round, in the output's terms.
LEMMA RecordFacts ==
    ASSUME IInv, RecordsInv, NEW i \in 1..Len(result_traces)
    PROVE  LET t == result_traces[i]
           IN  /\ t \in RoundRecord /\ RecordFits(i)
               /\ FullSequence \in Seq(Token)
               /\ Len(FullSequence) = Len(request.prompt) + Len(all_generated)
               /\ Len(FullSequence) \in Nat
               /\ t.full_seq_len_before < t.full_seq_len_after
               /\ t.full_seq_len_after <= Len(FullSequence)
               /\ t.full_seq_len_before <= Len(FullSequence)
<1> DEFINE t == result_traces[i]
<1>1. t \in RoundRecord /\ RecordFits(i)
  BY ElementOfSeq DEF RecordsInv
<1>2. request.prompt \in Seq(Token) /\ all_generated \in Seq(Token)
  BY RequestFacts DEF IInv, TypeOK
<1>3. /\ FullSequence \in Seq(Token)
      /\ Len(FullSequence) = Len(request.prompt) + Len(all_generated)
  BY <1>2, ConcatProperties DEF FullSequence
<1>4. Len(FullSequence) \in Nat
  BY <1>3, LenProperties
<1>5. /\ t.full_seq_len_after <= Len(FullSequence)
      /\ t.full_seq_len_before < t.full_seq_len_after
  BY <1>1, <1>3 DEF RecordFits
<1>6. t.full_seq_len_before <= Len(FullSequence)
  BY <1>1, <1>4, <1>5 DEF RoundRecord
<1>7. QED  BY <1>1, <1>3, <1>4, <1>5, <1>6

\* What was observed of a round is well formed and taken after its commit.
LEMMA SnapshotFacts ==
    ASSUME IInv, RecordsInv, NEW i \in 1..Len(result_traces)
    PROVE  LET t == result_traces[i]
               s == SnapshotIn(FullSequence, t)
           IN  /\ s \in Snapshot /\ CellIn(FullSequence, t) \in ShadowCell
               /\ Len(s.prefix_before) = t.full_seq_len_before
               /\ Len(s.prefix_after) = t.full_seq_len_after
               /\ snapshot_is_post_commit(s)
               /\ DecodeTimeCell(s) = CellIn(FullSequence, t)
<1> DEFINE t == result_traces[i]
           s == SnapshotIn(FullSequence, t)
           b == SubSeq(FullSequence, 1, t.full_seq_len_before)
           e == SubSeq(FullSequence, 1, t.full_seq_len_after)
<1>1. /\ t \in RoundRecord /\ FullSequence \in Seq(Token)
      /\ t.full_seq_len_before < t.full_seq_len_after
      /\ t.full_seq_len_after <= Len(FullSequence)
      /\ t.full_seq_len_before <= Len(FullSequence)
  BY RecordFacts
<1>2. /\ t.full_seq_len_before \in Nat /\ t.full_seq_len_after \in Nat /\ t.round_idx \in Nat
      /\ t.draft_tokens \in Seq(TokenId) /\ t.acceptance \in AcceptanceResult
  BY <1>1 DEF RoundRecord
<1>3. /\ b \in Seq(Token) /\ Len(b) = t.full_seq_len_before
      /\ e \in Seq(Token) /\ Len(e) = t.full_seq_len_after
  BY <1>1, <1>2, PrefixLen
<1>4. /\ Len(t.acceptance.accepted_tokens) \in Nat
      /\ RejectedOrCorrected(t.acceptance) \in Nat
  <2>1. /\ Len(t.acceptance.accepted_tokens) \in Nat
        /\ Len(t.acceptance.rejected_tokens) \in Nat
        /\ Len(t.acceptance.correction_token) \in Nat
    BY <1>2, LenProperties DEF AcceptanceResult
  <2>2. \A x, y \in Nat : x + y \in Nat
    OBVIOUS
  <2>3. Len(t.acceptance.rejected_tokens) + Len(t.acceptance.correction_token) \in Nat
    BY <2>1, <2>2, Zenon
  <2>4. QED  BY <2>1, <2>3 DEF RejectedOrCorrected
<1> HIDE DEF t, b, e
<1>5. /\ s = [ round_index           |-> t.round_idx,
               prefix_before         |-> b,
               prefix_after          |-> e,
               draft_tokens          |-> t.draft_tokens,
               accepted              |-> Len(t.acceptance.accepted_tokens),
               rejected_or_corrected |-> RejectedOrCorrected(t.acceptance),
               full_seq_len_before   |-> t.full_seq_len_before,
               full_seq_len_after    |-> t.full_seq_len_after ]
      /\ CellIn(FullSequence, t) = ShadowRoundCell(t.round_idx, e)
  BY DEF SnapshotIn, CellIn, b, e
<1> HIDE DEF s
<1>6. s \in Snapshot
  BY <1>2, <1>3, <1>4, <1>5 DEF Snapshot
<1>7. ShadowRoundCell(t.round_idx, e) \in ShadowCell
  BY <1>2, <1>3 DEF ShadowRoundCell, ShadowCell
<1>8. snapshot_is_post_commit(s)
  BY <1>1, <1>2, <1>3, <1>5 DEF snapshot_is_post_commit
<1>9. DecodeTimeCell(s) = ShadowRoundCell(t.round_idx, e)
  BY <1>5, <1>8 DEF DecodeTimeCell
<1>10. Len(s.prefix_before) = t.full_seq_len_before /\ Len(s.prefix_after) = t.full_seq_len_after
  BY <1>3, <1>5
<1>11. QED  BY <1>5, <1>6, <1>7, <1>8, <1>9, <1>10 DEF s, t

\* The snapshot taken in the callback is that of the round's trace.
LEMMA NotifiedSnapshot ==
    ASSUME IInv, ShadowInv, pc = "notify"
    PROVE  /\ result_traces # <<>>
           /\ RoundSnapshot = SnapshotIn(FullSequence, result_traces[Len(result_traces)])
<1> DEFINE n == Len(result_traces)
           t == result_traces[n]
<1>1. /\ result_traces # <<>> /\ result_traces \in Seq(RoundRecord)
      /\ EndOf(n) = Len(request.prompt) + Len(all_generated)
      /\ request.prompt \o gen_tokens_before = SubSeq(FullSequence, 1, t.full_seq_len_before)
      /\ seq_len = t.full_seq_len_after
  BY DEF ShadowInv, RecordsInv, BeforeInv
<1>2. n \in Nat \ {0} /\ n \in 1..n
  BY <1>1, EmptySeq
<1>3. /\ FullSequence \in Seq(Token)
      /\ Len(FullSequence) = Len(request.prompt) + Len(all_generated)
  BY <1>2, RecordFacts DEF ShadowInv
<1>4. t.full_seq_len_after = Len(FullSequence)
  BY <1>1, <1>2, <1>3 DEF EndOf
<1>5. SubSeq(FullSequence, 1, t.full_seq_len_after) = FullSequence
  BY <1>3, <1>4, SubSeqFull
<1>6. FullSequence = request.prompt \o all_generated
  BY DEF FullSequence
<1>7. QED  BY <1>1, <1>5, <1>6 DEF RoundSnapshot, LiveSnapshot, SnapshotIn

\* One raising replay more, or not.
LEMMA RaisedAppend ==
    ASSUME NEW cells \in Seq(ShadowCell), NEW c \in ShadowCell
    PROVE  Cardinality(Raised(Append(cells, c)))
              = Cardinality(Raised(cells)) + IF c.blocker = "raised" THEN 1 ELSE 0
<1> DEFINE n == Len(cells)
           longer == Append(cells, c)
<1>1. /\ n \in Nat /\ longer \in Seq(ShadowCell) /\ Len(longer) = n + 1
      /\ DOMAIN cells = 1..n /\ DOMAIN longer = 1..(n + 1)
      /\ \A i \in 1..n : longer[i] = cells[i]
      /\ longer[n + 1] = c
  BY AppendProperties, LenProperties
<1> HIDE DEF n, longer
<1>2. Raised(longer) = Raised(cells) \cup (IF c.blocker = "raised" THEN {n + 1} ELSE {})
  BY <1>1 DEF Raised
<1>3. IsFiniteSet(Raised(cells)) /\ Cardinality(Raised(cells)) \in Nat
  <2>1. Raised(cells) \in SUBSET (1..n)
    BY <1>1 DEF Raised
  <2>2. IsFiniteSet(1..n)
    BY <1>1, FS_Interval
  <2>3. QED  BY <2>1, <2>2, FS_Subset, FS_CardinalityType
<1>4. n + 1 \notin Raised(cells)
  BY <1>1 DEF Raised
<1>5. CASE c.blocker = "raised"
  <2>1. Raised(longer) = Raised(cells) \cup {n + 1}
    BY <1>2, <1>5
  <2>2. Cardinality(Raised(cells) \cup {n + 1}) = Cardinality(Raised(cells)) + 1
    BY <1>3, <1>4, FS_AddElement
  <2>3. QED  BY <1>5, <2>1, <2>2 DEF longer
<1>6. CASE c.blocker # "raised"
  BY <1>2, <1>3, <1>6 DEF longer
<1>7. QED  BY <1>5, <1>6

LEMMA ShadowNotify == IInv /\ ShadowInv /\ NotifyObserved => ShadowInv'
<1> SUFFICES ASSUME IInv, ShadowInv, NotifyObserved
             PROVE  ShadowInv'
  OBVIOUS
<1>1. /\ pc = "notify" /\ pc' = "round"
      /\ UNCHANGED <<request, all_generated, result_traces>>
      /\ IF Observed THEN Observe(RoundSnapshot) ELSE UNCHANGED observed
  BY DEF NotifyObserved, Notify, Observed
<1>2. JudgedInv' /\ BeforeInv'
  BY <1>1 DEF JudgedInv, BeforeInv
<1>3. RecordsInv'
  BY <1>1 DEF ShadowInv, RecordsInv, RecordFits, EndOf
<1>4. ASSUME ~Observed
      PROVE  ObservedInv'
  BY <1>1, <1>4 DEF ShadowInv, ObservedInv, Observed, observed, FullSequence
<1>5. ASSUME Observed
      PROVE  ObservedInv'
  <2>1. PICK n \in Nat \ {0} : n = Len(result_traces) /\ n \in 1..n
    <3>1. result_traces \in Seq(RoundRecord) /\ result_traces # <<>>
      BY <1>1, NotifiedSnapshot DEF ShadowInv, RecordsInv
    <3>2. QED  BY <3>1, EmptySeq
  <2>2. /\ snapshots \in Seq(Snapshot) /\ decode_cells \in Seq(ShadowCell)
        /\ Len(snapshots) = n - 1 /\ Len(decode_cells) = n - 1
        /\ \A i \in 1..(n - 1) : /\ snapshots[i] = SnapshotIn(FullSequence, result_traces[i])
                                 /\ decode_cells[i] = CellIn(FullSequence, result_traces[i])
        /\ callback_exceptions = Cardinality(Raised(decode_cells))
    BY <1>1, <1>5, <2>1 DEF ShadowInv, ObservedInv
  <2> DEFINE s == SnapshotIn(FullSequence, result_traces[n])
             c == CellIn(FullSequence, result_traces[n])
  <2>3. /\ s \in Snapshot /\ c \in ShadowCell
        /\ snapshot_is_post_commit(s) /\ DecodeTimeCell(s) = c
    BY <2>1, SnapshotFacts DEF ShadowInv
  <2>4. RoundSnapshot = s
    BY <1>1, <2>1, NotifiedSnapshot
  <2>5. FullSequence' = FullSequence /\ Observed'
    BY <1>1, <1>5 DEF FullSequence, Observed
  <2> HIDE DEF s, c
  <2>6. /\ snapshots' = Append(snapshots, s)
        /\ decode_cells' = Append(decode_cells, c)
        /\ callback_exceptions' = callback_exceptions + IF c.blocker = "raised" THEN 1 ELSE 0
    BY <1>1, <1>5, <2>3, <2>4 DEF Observe
  <2>7. /\ snapshots' \in Seq(Snapshot) /\ Len(snapshots') = n
        /\ \A i \in 1..(n - 1) : snapshots'[i] = snapshots[i]
        /\ snapshots'[n] = s
    <3>1. Len(snapshots) + 1 = n
      BY <2>2
    <3>2. QED  BY <2>2, <2>3, <2>6, <3>1, AppendProperties
  <2>8. /\ decode_cells' \in Seq(ShadowCell) /\ Len(decode_cells') = n
        /\ \A i \in 1..(n - 1) : decode_cells'[i] = decode_cells[i]
        /\ decode_cells'[n] = c
    <3>1. Len(decode_cells) + 1 = n
      BY <2>2
    <3>2. QED  BY <2>2, <2>3, <2>6, <3>1, AppendProperties
  <2>9. callback_exceptions' = Cardinality(Raised(decode_cells'))
    BY <2>2, <2>3, <2>6, RaisedAppend
  <2>10. ASSUME NEW i \in 1..n
         PROVE  /\ snapshots'[i] = SnapshotIn(FullSequence', result_traces'[i])
                /\ decode_cells'[i] = CellIn(FullSequence', result_traces'[i])
    <3>1. CASE i = n
      BY <1>1, <2>5, <2>7, <2>8, <3>1 DEF s, c
    <3>2. CASE i \in 1..(n - 1)
      BY <1>1, <2>2, <2>5, <2>7, <2>8, <3>2
    <3>3. QED  BY <3>1, <3>2
  <2>11. Len(result_traces') = n
    BY <1>1, <2>1
  <2>12. QED  BY <1>1, <2>5, <2>7, <2>8, <2>9, <2>10, <2>11 DEF ObservedInv
<1>6. QED  BY <1>2, <1>3, <1>4, <1>5 DEF ShadowInv

-----------------------------------------------------------------------------
(* The invariant holds throughout an observed generation *)

LEMMA ShadowStart == ShadowInit => ShadowInv
<1> SUFFICES ASSUME ShadowInit
             PROVE  ShadowInv
  OBVIOUS
<1>1. /\ pc = "prefill" /\ all_generated = <<>> /\ Len(all_generated) = 0
      /\ result_traces = <<>> /\ Len(result_traces) = 0
      /\ snapshots = <<>> /\ Len(snapshots) = 0
      /\ decode_cells = <<>> /\ Len(decode_cells) = 0
      /\ callback_exceptions = 0
  BY DEF ShadowInit, Init
<1>2. request.prompt \in Seq(Token) /\ Len(request.prompt) \in Nat
  BY ConstantsOK, LenProperties DEF ShadowInit, Init
<1>3. RecordsInv
  BY <1>1, <1>2 DEF RecordsInv, EndOf
<1>4. Raised(decode_cells) = {} /\ Cardinality({}) = 0
  BY <1>1, FS_EmptySet DEF Raised
<1>5. ObservedInv
  BY <1>1, <1>4 DEF ObservedInv
<1>6. QED  BY <1>1, <1>3, <1>5 DEF ShadowInv, JudgedInv, BeforeInv

LEMMA ShadowNextInv == IInv /\ RoundsInv /\ ShadowInv /\ [ShadowNext]_shadow_vars => ShadowInv'
<1> SUFFICES ASSUME IInv, RoundsInv, ShadowInv, [ShadowNext]_shadow_vars
             PROVE  ShadowInv'
  OBVIOUS
<1>1. CASE AlignTraced
  BY <1>1, ShadowAlign
<1>2. CASE NotifyObserved
  BY <1>2, ShadowNotify
<1>3. CASE OtherStep
  BY <1>3, ShadowOther
<1>4. CASE RaisesUnobserved \/ UNCHANGED shadow_vars
  BY <1>4, ShadowQuiet
<1>5. QED  BY <1>1, <1>2, <1>3, <1>4 DEF ShadowNext

\* Throughout an observed generation the records, the snapshots and the cells are
\* those of the rounds of the output.
THEOREM ShadowInvariance == ShadowSpec => [](IInv /\ ShadowInv)
<1>1. ShadowInit /\ [](IInv /\ RoundsInv) /\ [][ShadowNext]_shadow_vars => []ShadowInv
  BY ShadowStart, ShadowNextInv, PTL
<1>2. QED  BY <1>1, GeneratorInvariance, PTL DEF ShadowSpec

-----------------------------------------------------------------------------
(* What the observer and the post-hoc tools report *)

\* In every finished round the snapshots agree with the traces in all that is
\* compared, and their prefixes chain up to the whole sequence: a snapshot is
\* never taken too early or for the wrong round.
THEOREM SnapshotsFollowTraces == ShadowSpec => []SnapshotsMatchTraces
<1>1. IInv /\ ShadowInv => SnapshotsMatchTraces
  <2> SUFFICES ASSUME IInv, ShadowInv, Observed, pc \notin {"notify", "raised"}
               PROVE  /\ compare_snapshots_to_traces(snapshots, result_traces)
                      /\ \A i \in DOMAIN snapshots :
                            /\ snapshot_is_post_commit(snapshots[i])
                            /\ snapshots[i].prefix_before =
                                  (IF i = 1 THEN request.prompt
                                   ELSE snapshots[i - 1].prefix_after)
                      /\ snapshots # <<>> =>
                            snapshots[Len(snapshots)].prefix_after = FullSequence
    BY DEF SnapshotsMatchTraces
  <2>1. PICK n \in Nat : n = Len(result_traces)
    BY LenProperties DEF ShadowInv, RecordsInv
  <2>2. /\ Len(snapshots) = n /\ snapshots \in Seq(Snapshot) /\ DOMAIN snapshots = 1..n
        /\ \A i \in 1..n : snapshots[i] = SnapshotIn(FullSequence, result_traces[i])
    BY <2>1, LenProperties DEF ShadowInv, ObservedInv
  <2>3. ASSUME NEW i \in 1..n
        PROVE  /\ compare_snapshot_to_trace(snapshots[i], result_traces[i])
               /\ snapshot_is_post_commit(snapshots[i])
    <3> DEFINE t == result_traces[i]
               s == SnapshotIn(FullSequence, t)
    <3>1. /\ Len(s.prefix_before) = t.full_seq_len_before
          /\ Len(s.prefix_after) = t.full_seq_len_after
          /\ snapshot_is_post_commit(s)
      BY <2>1, SnapshotFacts DEF ShadowInv
    <3>2. /\ s.round_index = t.round_idx /\ s.draft_tokens = t.draft_tokens
          /\ s.accepted = Len(t.acceptance.accepted_tokens)
          /\ s.full_seq_len_before = t.full_seq_len_before
          /\ s.full_seq_len_after = t.full_seq_len_after
      BY DEF SnapshotIn
    <3> HIDE DEF s
    <3>3. snapshots[i] = s
      BY <2>2 DEF s
    <3>4. QED  BY <3>1, <3>2, <3>3 DEF compare_snapshot_to_trace
  <2>4. ASSUME NEW i \in 1..n
        PROVE  snapshots[i].prefix_before =
                  IF i = 1 THEN request.prompt ELSE snapshots[i - 1].prefix_after
    <3>1. snapshots[i].prefix_before
             = SubSeq(FullSequence, 1, result_traces[i].full_seq_len_before)
      BY <2>2 DEF SnapshotIn
    <3>2. result_traces[i].full_seq_len_before = EndOf(i - 1)
      BY <2>1 DEF ShadowInv, RecordsInv, RecordFits
    <3>3. CASE i = 1
      <4>1. request.prompt \in Seq(Token) /\ all_generated \in Seq(Token)
        BY RequestFacts DEF IInv, TypeOK
      <4>2. Len(request.prompt) \in 0..Len(request.prompt)
        BY <4>1, LenProperties
      <4>3. SubSeq(request.prompt \o all_generated, 1, Len(request.prompt)) = request.prompt
        BY <4>1, <4>2, PrefixInConcat, SubSeqFull
      <4>4. i - 1 = 0
        BY <3>3
      <4>5. QED  BY <3>1, <3>2, <3>3, <4>3, <4>4 DEF EndOf, FullSequence
    <3>4. CASE i # 1
      <4>1. i - 1 \in 1..n /\ i - 1 # 0
        BY <3>4
      <4>2. snapshots[i - 1].prefix_after
               = SubSeq(FullSequence, 1, result_traces[i - 1].full_seq_len_after)
        BY <2>2, <4>1 DEF SnapshotIn
      <4>3. QED  BY <3>1, <3>2, <3>4, <4>1, <4>2 DEF EndOf
    <3>5. QED  BY <3>3, <3>4
  <2>5. snapshots # <<>> => snapshots[Len(snapshots)].prefix_after = FullSequence
    <3>1. SUFFICES ASSUME snapshots # <<>>
                   PROVE  snapshots[n].prefix_after = FullSequence
      BY <2>2
    <3>2. n \in 1..n /\ n # 0
      BY <2>2, <3>1, EmptySeq
    <3>3. /\ FullSequence \in Seq(Token)
          /\ Len(FullSequence) = Len(request.prompt) + Len(all_generated)
      BY <2>1, <3>2, RecordFacts DEF ShadowInv
    <3>4. result_traces[n].full_seq_len_after = Len(FullSequence)
      BY <2>1, <3>2, <3>3 DEF ShadowInv, RecordsInv, EndOf
    <3>5. SubSeq(FullSequence, 1, Len(FullSequence)) = FullSequence
      BY <3>3, SubSeqFull
    <3>6. snapshots[n].prefix_after
             = SubSeq(FullSequence, 1, result_traces[n].full_seq_len_after)
      BY <2>2, <3>2 DEF SnapshotIn
    <3>7. QED  BY <3>4, <3>5, <3>6
  <2>6. compare_snapshots_to_traces(snapshots, result_traces)
    BY <2>1, <2>2, <2>3 DEF compare_snapshots_to_traces
  <2>7. QED  BY <2>2, <2>3, <2>4, <2>5, <2>6
<1>2. QED  BY <1>1, ShadowInvariance, PTL

\* A replay inside the callback, blocked or not, sees what a replay after the
\* generation sees of the traces and the final output; the observer keeps one
\* exception for each round whose replay raises, and none for the other rounds.
THEOREM DecodeTimeIsPosthoc == ShadowSpec => []DecodeTimeAgrees
<1>1. IInv /\ ShadowInv => DecodeTimeAgrees
  <2> SUFFICES ASSUME IInv, ShadowInv, Observed, pc = "returned"
               PROVE  LET after == RoundLogCells(result_traces, FullSequence)
                      IN  /\ decode_cells = after
                          /\ callback_exceptions =
                                Cardinality({i \in DOMAIN after : after[i].blocker = "raised"})
    BY DEF DecodeTimeAgrees
  <2>1. PICK n \in Nat : n = Len(result_traces)
    BY LenProperties DEF ShadowInv, RecordsInv
  <2>2. /\ DOMAIN result_traces = 1..n
        /\ DOMAIN decode_cells = 1..n /\ decode_cells \in [1..n -> ShadowCell]
    <3>1. /\ result_traces \in Seq(RoundRecord)
          /\ decode_cells \in Seq(ShadowCell) /\ Len(decode_cells) = n
      BY <2>1 DEF ShadowInv, RecordsInv, ObservedInv
    <3>2. QED  BY <2>1, <3>1, LenProperties
  <2>3. \A i \in 1..n : decode_cells[i] = CellIn(FullSequence, result_traces[i])
    BY <2>1 DEF ShadowInv, ObservedInv
  <2>4. decode_cells = [i \in 1..n |-> decode_cells[i]]
    BY <2>2
  <2>5. decode_cells = RoundLogCells(result_traces, FullSequence)
    BY <2>2, <2>3, <2>4 DEF RoundLogCells, CellIn
  <2>6. callback_exceptions = Cardinality(Raised(decode_cells))
    BY DEF ShadowInv, ObservedInv
  <2>7. QED  BY <2>5, <2>6 DEF Raised
<1>2. QED  BY <1>1, ShadowInvariance, PTL

\* A cell's top-1 token predicts the token after its round, and when the replay
\* is as exact as the full model the output goes on with it.
THEOREM TopOnePredicts == ShadowSpec => []TopOneIsNextToken
<1>1. IInv /\ ShadowInv => TopOneIsNextToken
  <2> SUFFICES ASSUME IInv, ShadowInv, NEW i \in DOMAIN decode_cells
               PROVE  LET n == decode_cells[i].shadow_sequence_length
                          exact == decode_cells[i].top1
                                      = <<FullNext(SubSeq(FullSequence, 1, n))>>
                      IN  /\ Len(request.prompt) + i <= n
                          /\ n < Len(FullSequence) /\ exact =>
                                decode_cells[i].top1 = <<FullSequence[n + 1]>>
    BY DEF TopOneIsNextToken
  <2>1. i \in 1..Len(result_traces) /\ decode_cells[i] = CellIn(FullSequence, result_traces[i])
    <3>1. /\ decode_cells \in Seq(ShadowCell) /\ snapshots \in Seq(Snapshot)
          /\ result_traces \in Seq(RoundRecord)
          /\ Len(decode_cells) = Len(snapshots) /\ Len(snapshots) <= Len(result_traces)
      BY DEF ShadowInv, RecordsInv, ObservedInv
    <3>2. /\ DOMAIN decode_cells = 1..Len(decode_cells)
          /\ Len(snapshots) \in Nat /\ Len(result_traces) \in Nat
      BY <3>1, LenProperties
    <3>3. i \in 1..Len(snapshots) /\ i \in 1..Len(result_traces)
      BY <3>1, <3>2
    <3>4. QED  BY <3>3 DEF ShadowInv, ObservedInv
  <2> DEFINE t == result_traces[i]
             n == t.full_seq_len_after
             P == Len(request.prompt)
             G == Len(all_generated)
  <2>2. /\ t \in RoundRecord /\ RecordFits(i) /\ FullSequence \in Seq(Token)
        /\ Len(FullSequence) = P + G /\ n <= Len(FullSequence)
    BY <2>1, RecordFacts DEF ShadowInv
  <2>3. /\ n \in Nat /\ P \in Nat /\ G \in Nat /\ P + i <= n /\ i \in Nat \ {0}
        /\ request.prompt \in Seq(Token) /\ all_generated \in Seq(Token)
    <3>1. /\ request.prompt \in Seq(Token) /\ all_generated \in Seq(Token)
      BY RequestFacts DEF IInv, TypeOK
    <3>2. P \in Nat /\ G \in Nat /\ n \in Nat
      BY <2>2, <3>1, LenProperties DEF RoundRecord
    <3>3. P + i <= n /\ i \in Nat \ {0}
      BY <2>1, <2>2 DEF RecordFits
    <3>4. QED  BY <3>1, <3>2, <3>3
  <2>4. decode_cells[i].shadow_sequence_length = n
    <3>1. Len(SubSeq(FullSequence, 1, n)) = n
      BY <2>2, <2>3, PrefixLen
    <3>2. CellIn(FullSequence, t).shadow_sequence_length = Len(SubSeq(FullSequence, 1, n))
      BY DEF CellIn, ShadowRoundCell
    <3>3. QED  BY <2>1, <3>1, <3>2
  <2>5. ASSUME n < Len(FullSequence)
        PROVE  FullSequence[n + 1] = FullNext(SubSeq(FullSequence, 1, n))
    <3> DEFINE k == n - P
    <3>1. k \in Nat /\ n = P + k /\ k < G /\ k \in 0..G /\ k + 1 \in 1..G /\ (k + 1) - 1 = k
          /\ n + 1 \in 1..(P + G) /\ ~(n + 1 <= P) /\ (n + 1) - P = k + 1
      <4> HIDE DEF n, P, G
      <4>1. QED  BY <2>2, <2>3, <2>5
    <3>2. FullSequence[n + 1] = all_generated[k + 1]
      <4>1. \A j \in 1..(P + G) : FullSequence[j] = IF j <= P THEN request.prompt[j]
                                                    ELSE all_generated[j - P]
        BY <2>3, ConcatProperties DEF FullSequence
      <4> HIDE DEF n, P, G, k
      <4>2. QED  BY <3>1, <4>1
    <3>3. SubSeq(FullSequence, 1, n) = request.prompt \o SubSeq(all_generated, 1, k)
      <4>1. SubSeq(request.prompt \o all_generated, 1, P + k)
               = request.prompt \o SubSeq(all_generated, 1, k)
        <5> HIDE DEF k
        <5>1. QED  BY <2>3, <3>1, PrefixOfConcat
      <4>2. QED  BY <3>1, <4>1 DEF FullSequence
    <3>4. all_generated[k + 1] = FullNext(request.prompt \o SubSeq(all_generated, 1, k))
      <4> HIDE DEF k
      <4>1. k + 1 \in 1..Len(all_generated) /\ (k + 1) - 1 = k
        BY <3>1
      <4>2. all_generated[k + 1]
               = FullNext(request.prompt \o SubSeq(all_generated, 1, (k + 1) - 1))
        BY <4>1 DEF IInv, RoundInv, Greedy!Continues
      <4>3. QED  BY <4>1, <4>2
    <3>5. QED  BY <3>2, <3>3, <3>4
  <2>6. QED  BY <2>3, <2>4, <2>5
<1>2. QED  BY <1>1, ShadowInvariance, PTL

-----------------------------------------------------------------------------
(* What the L4 dry run decides of a round's record *)

\* Only the last token of the verifier's answer may differ from the draft.
Corrected(a, d) == d[Len(a.verifier_tokens)] # a.verifier_tokens[Len(a.verifier_tokens)]

\* The acceptance of a round in terms of the last token of the verifier's answer.
LEMMA JudgedOutcome ==
    ASSUME NEW a, NEW d, Judged(a, d)
    PROVE  LET v == a.verifier_tokens
           IN  /\ v # <<>> /\ Len(v) \in Nat \ {0} /\ Len(d) \in Nat /\ Len(v) <= Len(d)
               /\ \A i \in 1..(Len(v) - 1) : d[i] = v[i]
               /\ Corrected(a, d) \/ Len(v) = Len(d)
               /\ a.all_matched <=> ~Corrected(a, d)
               /\ Len(a.accepted_tokens) = IF Corrected(a, d) THEN Len(v) - 1 ELSE Len(v)
               /\ a.correction_token # <<>> <=> Corrected(a, d)
<1> DEFINE v == a.verifier_tokens
           m == MatchLen(d, v)
<1>1. /\ d \in Seq(TokenId) /\ v \in Seq(Token) /\ d # <<>> /\ v # <<>> /\ Answers(v, d)
      /\ a = compute_acceptance(d, v)
  BY DEF Judged, Answers
<1>2. /\ Len(v) \in Nat \ {0} /\ Len(d) \in Nat /\ Len(v) <= Len(d)
      /\ \A i \in 1..(Len(v) - 1) : d[i] = v[i]
      /\ Len(v) = Len(d) \/ d[Len(v)] # v[Len(v)]
  BY <1>1, EmptySeq, LenProperties DEF Answers
<1>3. m = IF Corrected(a, d) THEN Len(v) - 1 ELSE Len(v)
  <2>1. d \in Seq(Int) /\ v \in Seq(Int)
    BY <1>1, TokenFacts, SeqMonotonic
  <2>2. Corrected(a, d) <=> d[Len(v)] # v[Len(v)]
    BY DEF Corrected
  <2> HIDE DEF v
  <2>3. QED  BY <1>1, <2>1, <2>2, MatchLenOfAnswer DEF m
<1> HIDE DEF v, m
<1>4. CommonLen(d, v) = Len(v) /\ m \in 0..Len(v) /\ (m < Len(v) <=> Corrected(a, d))
  BY <1>2, <1>3 DEF CommonLen, Smaller
<1>5. /\ a.accepted_tokens = SubSeq(d, 1, m)
      /\ a.correction_token = IF m < Len(v) THEN <<v[m + 1]>> ELSE <<>>
      /\ a.all_matched = (~(m < Len(v)) /\ Len(v) >= Len(d))
  <2>1. a = compute_acceptance(d, v) /\ m = MatchLen(d, v)
    BY <1>1 DEF m
  <2>2. QED  BY <1>4, <2>1 DEF compute_acceptance
<1>6. Len(SubSeq(d, 1, m)) = m
  <2>1. \A i \in 1..m : d[i] \in TokenId
    BY <1>1, <1>2, <1>4, ElementOfSeq
  <2>2. QED  BY <1>4, <2>1, SubSeqProperties
<1>7. Corrected(a, d) <=> d[Len(v)] # v[Len(v)]
  BY DEF Corrected, v
<1>8. /\ a.all_matched <=> ~Corrected(a, d)
      /\ a.correction_token # <<>> <=> Corrected(a, d)
      /\ Corrected(a, d) \/ Len(v) = Len(d)
  <2>1. <<v[m + 1]>> # <<>>
    OBVIOUS
  <2>2. a.correction_token # <<>> <=> Corrected(a, d)
    BY <1>4, <1>5, <2>1
  <2>3. Corrected(a, d) \/ Len(v) = Len(d)
    BY <1>2, <1>7
  <2>4. Len(v) >= Len(d) <=> Len(v) = Len(d)
    BY <1>2
  <2>5. a.all_matched <=> ~Corrected(a, d)
    BY <1>4, <1>5, <2>3, <2>4
  <2>6. QED  BY <2>2, <2>3, <2>5
<1>9. Len(a.accepted_tokens) = IF Corrected(a, d) THEN Len(v) - 1 ELSE Len(v)
  BY <1>3, <1>5, <1>6
<1>10. QED  BY <1>1, <1>2, <1>8, <1>9 DEF v

\* The walk stops at the token that the generator corrected, if there is one.
LEMMA JudgedWalk ==
    ASSUME NEW a, NEW d, Judged(a, d)
    PROVE  LET v == a.verifier_tokens
           IN  PrefixWalk(d, v) =
                  IF Corrected(a, d) THEN [terminal |-> "REJECT", mismatch |-> <<Len(v) - 1>>]
                  ELSE [terminal |-> "ACCEPT_PREFIX", mismatch |-> <<>>]
<1> DEFINE v == a.verifier_tokens
           n == Len(v)
<1>1. /\ n \in Nat \ {0} /\ Len(d) \in Nat /\ n <= Len(d)
      /\ \A i \in 1..(n - 1) : d[i] = v[i]
      /\ Corrected(a, d) \/ n = Len(d)
      /\ Corrected(a, d) <=> d[n] # v[n]
  BY JudgedOutcome DEF Corrected
<1>2. CommonLen(d, v) = n
  BY <1>1 DEF CommonLen, Smaller
<1>3. Mismatches(d, v) = IF Corrected(a, d) THEN {n} ELSE {}
  <2> HIDE DEF n, v
  <2>1. \A i \in 1..n : i \in 1..(n - 1) \/ i = n
    BY <1>1
  <2>2. n \in 1..n
    BY <1>1
  <2>3. QED  BY <1>1, <1>2, <2>1, <2>2 DEF Mismatches
<1> HIDE DEF n, v
<1>4. CASE Corrected(a, d)
  <2>1. Mismatches(d, v) # {} /\ Min(Mismatches(d, v)) = n
    BY <1>1, <1>3, <1>4 DEF Min
  <2>2. PrefixWalk(d, v) = [terminal |-> "REJECT", mismatch |-> <<n - 1>>]
    BY <2>1 DEF PrefixWalk
  <2>3. QED  BY <1>4, <2>2 DEF n, v
<1>5. CASE ~Corrected(a, d)
  <2>1. Mismatches(d, v) = {} /\ Len(d) <= Len(v)
    BY <1>1, <1>3, <1>5 DEF n
  <2>2. PrefixWalk(d, v) = [terminal |-> "ACCEPT_PREFIX", mismatch |-> <<>>]
    BY <2>1 DEF PrefixWalk
  <2>3. QED  BY <1>5, <2>2 DEF v
<1>6. QED  BY <1>4, <1>5

\* The record built from a round that drafted something.
RecordOf(d, v) ==
    [ complete |-> TRUE, version |-> SchemaVersion, diagnostic_only |-> TRUE,
      proposal_source |-> RoundLogSource, proposal |-> d, available |-> TRUE,
      evidence_source |-> "full_kv_verifier_output_tokens", evidence |-> v,
      full_kv |-> TRUE, authoritative |-> TRUE, checked |-> d,
      block_reason |-> FALSE, same_object |-> FALSE, counts |-> FALSE ]

\* The schema record of a round.
LEMMA RecordOfRound ==
    ASSUME NEW t \in RoundRecord, Judged(t.acceptance, t.draft_tokens)
    PROVE  /\ SchemaRecord(t) = RecordOf(t.draft_tokens, t.acceptance.verifier_tokens)
           /\ t.acceptance.verifier_tokens # <<>>
<1>1. t.acceptance.verifier_tokens # <<>>
  BY JudgedOutcome
<1>2. QED  BY <1>1 DEF SchemaRecord, RecordOf

\* That record is valid, and both comparisons walk it.
LEMMA RecordIsCompared ==
    ASSUME NEW t \in RoundRecord, Judged(t.acceptance, t.draft_tokens)
    PROVE  LET r == SchemaRecord(t)
               walk == PrefixWalk(t.draft_tokens, t.acceptance.verifier_tokens)
           IN  /\ r.proposal = t.draft_tokens /\ r.evidence = t.acceptance.verifier_tokens
               /\ r.proposal_source = RoundLogSource
               /\ Stage3(r) = walk /\ VerifierComparison(r) = walk
<1> DEFINE r == SchemaRecord(t)
           v == t.acceptance.verifier_tokens
           d == t.draft_tokens
<1>1. r = RecordOf(d, v) /\ v # <<>>
  BY RecordOfRound
<1> HIDE DEF r, v, d
<1>2. /\ r.complete /\ r.version = SchemaVersion /\ r.diagnostic_only /\ r.available /\ r.full_kv
      /\ r.authoritative /\ r.checked = d /\ ~r.same_object /\ ~r.counts
      /\ r.proposal = d /\ r.evidence = v /\ r.proposal_source = RoundLogSource
      /\ r.evidence_source = "full_kv_verifier_output_tokens"
  BY <1>1 DEF RecordOf
<1>3. ~AliasDetected(r)
  BY <1>2 DEF AliasDetected, UnmarkedCopy, RoundLogSource
<1>4. ValidRecord(r)
  BY <1>1, <1>2 DEF ValidRecord, EvidenceValid, UnmarkedCopy, RoundLogSource,
                    ForbiddenSources, AllowedSources
<1>5. r.proposal_source \notin ForbiddenProposalSources
  BY <1>2 DEF ForbiddenProposalSources, TraceOnlyForbidden, RoundLogSource
<1>6. r.available /\ r.evidence # <<>> /\ r.version # "corrupted_v99"
  BY <1>1, <1>2 DEF SchemaVersion
<1>7. Stage3(r) = PrefixWalk(r.proposal, r.evidence)
  BY <1>3, <1>4, <1>5, <1>6 DEF Stage3
<1>8. VerifierComparison(r) = PrefixWalk(r.proposal, r.evidence)
  BY <1>6 DEF VerifierComparison
<1>9. QED  BY <1>2, <1>7, <1>8 DEF r, v, d

\* The trace-only evaluation and the evidence block read the record alike.
LEMMA StatusOfRecord ==
    ASSUME NEW t \in RoundRecord, Judged(t.acceptance, t.draft_tokens)
    PROVE  LET r == SchemaRecord(t)
           IN  /\ TraceOnlyStatus(r) = EvidenceStatus(r.proposal, r.evidence)
               /\ (TraceOnlyStatus(r) = "all_match")
                     <=> ~Corrected(t.acceptance, t.draft_tokens)
<1> DEFINE r == SchemaRecord(t)
           a == t.acceptance
           v == a.verifier_tokens
           d == t.draft_tokens
           n == Len(v)
<1>1. /\ d \in Seq(TokenId) /\ v \in Seq(Token) /\ v \in Seq(TokenId)
      /\ d # <<>> /\ v # <<>>
      /\ n \in Nat \ {0} /\ Len(d) \in Nat /\ n <= Len(d)
      /\ \A i \in 1..(n - 1) : d[i] = v[i]
      /\ Corrected(a, d) \/ n = Len(d)
      /\ Corrected(a, d) <=> d[n] # v[n]
  <2>1. d \in Seq(TokenId) /\ v \in Seq(Token) /\ d # <<>>
    BY DEF Judged
  <2>2. v \in Seq(TokenId)
    BY <2>1, TokenFacts, SeqMonotonic
  <2>3. /\ v # <<>> /\ n \in Nat \ {0} /\ Len(d) \in Nat /\ n <= Len(d)
        /\ \A i \in 1..(n - 1) : d[i] = v[i]
        /\ Corrected(a, d) \/ n = Len(d)
    BY JudgedOutcome
  <2>4. Corrected(a, d) <=> d[n] # v[n]
    BY DEF Corrected
  <2>5. QED  BY <2>1, <2>2, <2>3, <2>4
<1>2. PrefixWalk(d, v) = IF Corrected(a, d) THEN [terminal |-> "REJECT", mismatch |-> <<n - 1>>]
                         ELSE [terminal |-> "ACCEPT_PREFIX", mismatch |-> <<>>]
  BY JudgedWalk
<1>3. r.proposal = d /\ r.evidence = v /\ r.proposal_source \notin TraceOnlyForbidden
  BY RecordIsCompared DEF TraceOnlyForbidden, RoundLogSource
<1>4. (\E k \in 0..n : d = SubSeq(v, 1, k)) <=> ~Corrected(a, d)
  <2>1. ASSUME ~Corrected(a, d)
        PROVE  \E k \in 0..n : d = SubSeq(v, 1, k)
    <3>1. n = Len(d) /\ d[n] = v[n]
      BY <1>1, <2>1
    <3>2. \A i \in 1..Len(d) : d[i] = v[i]
      <4> HIDE DEF d, v, n
      <4>1. \A i \in 1..n : i \in 1..(n - 1) \/ i = n
        BY <1>1
      <4>2. QED  BY <1>1, <3>1, <4>1
    <3>3. d = v
      BY <1>1, <3>1, <3>2, SeqEqual
    <3>4. SubSeq(v, 1, n) = v
      BY <1>1, SubSeqFull
    <3>5. n \in 0..n
      BY <1>1
    <3>6. QED  BY <3>3, <3>4, <3>5
  <2>2. ASSUME NEW k \in 0..n, d = SubSeq(v, 1, k), Corrected(a, d)
        PROVE  FALSE
    <3> HIDE DEF d, v, n
    <3>1. \A i \in 1..k : v[i] \in Token
      BY <1>1, ElementOfSeq DEF n
    <3>2. Len(SubSeq(v, 1, k)) = k /\ \A i \in 1..k : SubSeq(v, 1, k)[i] = v[i]
      BY <3>1, SubSeqProperties
    <3>3. k = n /\ n \in 1..k
      BY <1>1, <2>2, <3>2
    <3>4. QED  BY <1>1, <2>2, <3>2, <3>3
  <2>3. QED  BY <2>1, <2>2
<1> HIDE DEF r, d, v, n
<1>5. CASE ~Corrected(a, d)
  <2>1. d[1] = v[1]
    BY <1>1, <1>5
  <2>2. TraceOnlyStatus(r) = "all_match"
    BY <1>1, <1>3, <1>4, <1>5, <2>1 DEF TraceOnlyStatus, n
  <2>3. EvidenceStatus(d, v) = "all_match"
    BY <1>2, <1>5 DEF EvidenceStatus
  <2>4. QED  BY <1>3, <1>5, <2>2, <2>3 DEF r, d, a
<1>6. CASE Corrected(a, d) /\ n = 1
  <2>1. TraceOnlyStatus(r) = "first_token_mismatch"
    BY <1>1, <1>3, <1>6 DEF TraceOnlyStatus
  <2>2. n - 1 = 0
    BY <1>6
  <2>3. EvidenceStatus(d, v) = "first_token_mismatch"
    BY <1>2, <1>6, <2>2 DEF EvidenceStatus
  <2>4. QED  BY <1>3, <1>6, <2>1, <2>3 DEF r, d, a
<1>7. CASE Corrected(a, d) /\ n # 1
  <2>1. d[1] = v[1]
    BY <1>1, <1>7
  <2>2. TraceOnlyStatus(r) = "partial_match"
    BY <1>1, <1>3, <1>4, <1>7, <2>1 DEF TraceOnlyStatus, n
  <2>3. EvidenceStatus(d, v) = "partial_match"
    <3>1. <<n - 1>> # <<0>>
      BY <1>1, <1>7
    <3>2. PrefixWalk(d, v).mismatch = <<n - 1>> /\ PrefixWalk(d, v).terminal = "REJECT"
      BY <1>2, <1>7
    <3>3. QED  BY <3>1, <3>2 DEF EvidenceStatus
  <2>4. QED  BY <1>3, <1>7, <2>2, <2>3 DEF r, d, a
<1>8. QED  BY <1>5, <1>6, <1>7

\* The dry run decides every round as the generator did, at the token at which
\* the generator corrected the draft, and every other evaluation agrees with it.
THEOREM DryRunAgrees == ShadowSpec => []Stage3Agrees
<1>1. IInv /\ ShadowInv => Stage3Agrees
  <2> SUFFICES ASSUME IInv, ShadowInv, NEW i \in DOMAIN result_traces
               PROVE  LET t == result_traces[i]
                          r == SchemaRecord(t)
                          decision == Stage3(r)
                      IN  /\ decision = VerifierComparison(r)
                          /\ decision.terminal =
                                (IF t.acceptance.all_matched THEN "ACCEPT_PREFIX" ELSE "REJECT")
                          /\ PrefixLength(r.proposal, r.evidence)
                                = Len(t.acceptance.accepted_tokens)
                          /\ RollbackTriggered(decision.terminal)
                                <=> t.acceptance.correction_token # <<>>
                          /\ TraceOnlyStatus(r) = EvidenceStatus(r.proposal, r.evidence)
                          /\ (TraceOnlyStatus(r) = "all_match")
                                <=> (decision.terminal = "ACCEPT_PREFIX")
    BY DEF Stage3Agrees
  <2> DEFINE t == result_traces[i]
             a == t.acceptance
             d == t.draft_tokens
             v == a.verifier_tokens
             r == SchemaRecord(t)
             walk == PrefixWalk(d, v)
  <2>1. t \in RoundRecord /\ Judged(a, d)
    <3>1. result_traces \in Seq(RoundRecord)
      BY DEF ShadowInv, RecordsInv
    <3>2. i \in 1..Len(result_traces)
      BY <3>1, LenProperties
    <3>3. QED  BY <3>2, RecordFacts DEF ShadowInv, RecordFits
  <2>2. /\ r.proposal = d /\ r.evidence = v
        /\ Stage3(r) = walk /\ VerifierComparison(r) = walk
    BY <2>1, RecordIsCompared
  <2>3. /\ TraceOnlyStatus(r) = EvidenceStatus(r.proposal, r.evidence)
        /\ (TraceOnlyStatus(r) = "all_match") <=> ~Corrected(a, d)
    BY <2>1, StatusOfRecord
  <2>4. /\ Len(v) \in Nat \ {0}
        /\ Corrected(a, d) \/ Len(v) = Len(d)
        /\ a.all_matched <=> ~Corrected(a, d)
        /\ Len(a.accepted_tokens) = IF Corrected(a, d) THEN Len(v) - 1 ELSE Len(v)
        /\ a.correction_token # <<>> <=> Corrected(a, d)
    BY <2>1, JudgedOutcome
  <2>5. walk = IF Corrected(a, d) THEN [terminal |-> "REJECT", mismatch |-> <<Len(v) - 1>>]
               ELSE [terminal |-> "ACCEPT_PREFIX", mismatch |-> <<>>]
    BY <2>1, JudgedWalk
  <2> HIDE DEF r, d, v, a, walk
  <2>6. walk.terminal = IF Corrected(a, d) THEN "REJECT" ELSE "ACCEPT_PREFIX"
    BY <2>5
  <2>7. PrefixLength(d, v) = Len(a.accepted_tokens)
    <3>1. CASE Corrected(a, d)
      <4>1. walk.mismatch = <<Len(v) - 1>> /\ walk.mismatch # <<>>
        BY <2>5, <3>1
      <4>2. walk.mismatch[1] = Len(v) - 1
        BY <4>1
      <4>3. QED  BY <2>4, <3>1, <4>1, <4>2 DEF PrefixLength, walk
    <3>2. CASE ~Corrected(a, d)
      <4>1. walk.mismatch = <<>>
        BY <2>5, <3>2
      <4>2. QED  BY <2>4, <3>2, <4>1 DEF PrefixLength, walk
    <3>3. QED  BY <3>1, <3>2
  <2>8. /\ walk.terminal = (IF a.all_matched THEN "ACCEPT_PREFIX" ELSE "REJECT")
        /\ RollbackTriggered(walk.terminal) <=> a.correction_token # <<>>
        /\ (TraceOnlyStatus(r) = "all_match") <=> (walk.terminal = "ACCEPT_PREFIX")
    BY <2>3, <2>4, <2>6 DEF RollbackTriggered
  <2>9. QED  BY <2>2, <2>3, <2>7, <2>8 DEF r, a
<1>2. QED  BY <1>1, ShadowInvariance, PTL

\* A record that is aliased, invalid, forbidden or without evidence is not compared.
LEMMA FailsClosed ==
    ASSUME NEW x,
           \/ AliasDetected(x) \/ ~ValidRecord(x)
           \/ x.proposal_source \in ForbiddenProposalSources
           \/ ~(x.available /\ x.evidence # <<>>)
    PROVE  Stage3(x).terminal \in {"INVALID_TRACE", "BLOCK_MISSING_EVIDENCE"}
<1>1. CASE AliasDetected(x) \/ ~ValidRecord(x) \/ x.proposal_source \in ForbiddenProposalSources
  BY <1>1 DEF Stage3
<1>2. CASE /\ ~(AliasDetected(x) \/ ~ValidRecord(x)
                \/ x.proposal_source \in ForbiddenProposalSources)
           /\ ~(x.available /\ x.evidence # <<>>)
  BY <1>2 DEF Stage3
<1>3. QED  BY <1>1, <1>2

\* Each kind of damage is seen before anything is compared.
LEMMA DamageIsSeen ==
    ASSUME NEW d \in Seq(TokenId), NEW v \in Seq(Token), d # <<>>, v # <<>>,
           NEW x \in Damaged(RecordOf(d, v))
    PROVE  Stage3(x).terminal \in {"INVALID_TRACE", "BLOCK_MISSING_EVIDENCE"}
<1> DEFINE r == RecordOf(d, v)
<1>0. d \o d # d /\ d \o d # <<>>
  BY ConcatEqualIffEmpty
<1>1. CASE x \in { [r EXCEPT !.complete = FALSE], [r EXCEPT !.version = "poisoned_v99"],
                   [r EXCEPT !.diagnostic_only = FALSE] }
  <2>1. ~x.complete \/ x.version # SchemaVersion \/ ~x.diagnostic_only
    BY <1>1 DEF RecordOf, SchemaVersion
  <2>2. ~ValidRecord(x)
    BY <2>1 DEF ValidRecord
  <2>3. QED  BY <2>2, FailsClosed
<1>2. CASE x = [r EXCEPT !.evidence_source = r.proposal_source]
  <2>1. x.proposal_source = x.evidence_source
    BY <1>2 DEF RecordOf
  <2>2. QED  BY <2>1, FailsClosed DEF AliasDetected
<1>3. CASE x = [r EXCEPT !.evidence_source = "committed_token_ids_unmarked",
                         !.full_kv = FALSE, !.authoritative = FALSE]
  <2>1. x.evidence_source = "committed_token_ids_unmarked"
    BY <1>3 DEF RecordOf
  <2>2. ~ValidRecord(x)
    BY <2>1 DEF ValidRecord, EvidenceValid, ForbiddenSources
  <2>3. QED  BY <2>2, FailsClosed
<1>4. CASE x = [r EXCEPT !.full_kv = FALSE]
  <2>1. /\ x.available /\ ~x.full_kv
        /\ x.evidence_source = "full_kv_verifier_output_tokens"
    BY <1>4 DEF RecordOf
  <2>2. ~ValidRecord(x)
    BY <2>1 DEF ValidRecord, EvidenceValid
  <2>3. QED  BY <2>2, FailsClosed
<1>5. CASE x = [r EXCEPT !.authoritative = FALSE]
  <2>1. x.available /\ ~x.authoritative /\ x.evidence # <<>>
    BY <1>5 DEF RecordOf
  <2>2. ~ValidRecord(x)
    BY <2>1 DEF ValidRecord, EvidenceValid
  <2>3. QED  BY <2>2, FailsClosed
<1>6. CASE x = [r EXCEPT !.evidence = r.proposal, !.same_object = TRUE]
  <2>1. x.same_object
    BY <1>6 DEF RecordOf
  <2>2. QED  BY <2>1, FailsClosed DEF AliasDetected
<1>7. CASE x = [r EXCEPT !.checked = r.checked \o r.checked]
  <2>1. x.checked = d \o d /\ x.proposal = d
    BY <1>7 DEF RecordOf
  <2>2. AliasDetected(x)
    BY <1>0, <2>1 DEF AliasDetected
  <2>3. QED  BY <2>2, FailsClosed
<1>8. CASE x \in { [r EXCEPT !.evidence = <<>>],
                   [r EXCEPT !.evidence = <<>>, !.available = FALSE, !.block_reason = TRUE],
                   [r EXCEPT !.evidence = <<>>, !.counts = TRUE,
                             !.evidence_source = "accepted_token_counts_only"] }
  <2>1. x.evidence = <<>>
    BY <1>8 DEF RecordOf
  <2>2. QED  BY <2>1, FailsClosed
<1>9. CASE x = [r EXCEPT !.proposal_source = "committed_tokens"]
  <2>1. x.proposal_source = "committed_tokens"
    BY <1>9 DEF RecordOf
  <2>2. QED  BY <2>1, FailsClosed DEF ForbiddenProposalSources, TraceOnlyForbidden
<1>10. QED  BY <1>1, <1>2, <1>3, <1>4, <1>5, <1>6, <1>7, <1>8, <1>9 DEF Damaged

\* No damaged record of any round is accepted or even compared.
THEOREM DryRunFailsClosed == ShadowSpec => []DamagedRecordsBlocked
<1>1. IInv /\ ShadowInv => DamagedRecordsBlocked
  <2> SUFFICES ASSUME IInv, ShadowInv, NEW i \in DOMAIN result_traces,
                      NEW r \in Damaged(SchemaRecord(result_traces[i]))
               PROVE  Stage3(r).terminal \in {"INVALID_TRACE", "BLOCK_MISSING_EVIDENCE"}
    BY DEF DamagedRecordsBlocked
  <2> DEFINE t == result_traces[i]
  <2>1. t \in RoundRecord /\ Judged(t.acceptance, t.draft_tokens)
    <3>1. result_traces \in Seq(RoundRecord)
      BY DEF ShadowInv, RecordsInv
    <3>2. i \in 1..Len(result_traces)
      BY <3>1, LenProperties
    <3>3. QED  BY <3>2, RecordFacts DEF ShadowInv, RecordFits
  <2>2. /\ SchemaRecord(t) = RecordOf(t.draft_tokens, t.acceptance.verifier_tokens)
        /\ t.acceptance.verifier_tokens # <<>>
    BY <2>1, RecordOfRound
  <2>3. /\ t.draft_tokens \in Seq(TokenId) /\ t.draft_tokens # <<>>
        /\ t.acceptance.verifier_tokens \in Seq(Token)
    BY <2>1 DEF Judged
  <2>4. QED  BY <2>2, <2>3, DamageIsSeen
<1>2. QED  BY <1>1, ShadowInvariance, PTL

-----------------------------------------------------------------------------
(* Rounds of one token and rounds of several *)

LongRound(i) ==
    result_traces[i].full_seq_len_after > result_traces[i].full_seq_len_before + 1

\* There are more tokens than rounds exactly when some round committed several.
PaceInv ==
    Len(all_generated) > Len(result_traces)
        <=> \E i \in 1..Len(result_traces) : LongRound(i)

\* There is a token for each round, and none without a round.
LEMMA TokenPerRound ==
    ASSUME IInv, RecordsInv, NEW n \in Nat, NEW g \in Nat,
           n = Len(result_traces), g = Len(all_generated)
    PROVE  n <= g /\ (n = 0 => g = 0)
<1> DEFINE P == Len(request.prompt)
<1>1. P \in Nat /\ EndOf(n) = P + g
  BY RequestFacts, LenProperties DEF RecordsInv, IInv, TypeOK
<1>2. CASE n = 0
  <2>1. EndOf(n) = P
    BY <1>2 DEF EndOf
  <2> HIDE DEF P
  <2>2. QED  BY <1>1, <1>2, <2>1
<1>3. CASE n # 0
  <2>1. n \in 1..n
    BY <1>3
  <2>2. P + n <= EndOf(n)
    BY <2>1, <1>3 DEF RecordsInv, RecordFits, EndOf
  <2> HIDE DEF P
  <2>3. QED  BY <1>1, <1>3, <2>2
<1>4. QED  BY <1>2, <1>3

LEMMA PaceStart == ShadowInit => PaceInv
<1> SUFFICES ASSUME ShadowInit
             PROVE  PaceInv
  OBVIOUS
<1>1. /\ Len(all_generated) = 0 /\ Len(result_traces) = 0
  BY DEF ShadowInit, Init
<1>2. QED  BY <1>1 DEF PaceInv

\* The round that ends adds its tokens to the output and itself to the traces.
LEMMA PaceAlign == IInv /\ RoundsInv /\ ShadowInv /\ PaceInv /\ AlignTraced => PaceInv'
<1> SUFFICES ASSUME IInv, RoundsInv, ShadowInv, PaceInv, AlignTraced
             PROVE  PaceInv'
  OBVIOUS
<1>1. PICK n \in Nat : n = Len(result_traces)
  BY LenProperties DEF ShadowInv, RecordsInv
<1>2. PICK g \in Nat : g = Len(all_generated)
  BY LenProperties DEF IInv, TypeOK
<1>3. n <= g
  BY <1>1, <1>2, TokenPerRound DEF ShadowInv
<1>4. PICK c \in Nat \ {0}, p \in Nat : c = Len(committed) /\ p = Len(request.prompt)
  BY AlignFacts, LenProperties
<1>5. /\ Len(all_generated') = g + c
      /\ seq_len = p + g + c
      /\ result_traces \in Seq(RoundRecord) /\ RoundTrace \in RoundRecord
      /\ result_traces' = Append(result_traces, RoundTrace)
  BY <1>2, <1>4, AlignFacts DEF ShadowInv, RecordsInv
<1>6. /\ Len(result_traces') = n + 1
      /\ \A i \in 1..n : result_traces'[i] = result_traces[i]
      /\ result_traces'[n + 1] = RoundTrace
  BY <1>1, <1>5, AppendProperties
<1>7. /\ RoundTrace.full_seq_len_before = p + g
      /\ RoundTrace.full_seq_len_after = p + g + c
  BY <1>2, <1>4, <1>5 DEF RoundTrace
<1>8. LongRound(n + 1)' <=> c > 1
  BY <1>6, <1>7 DEF LongRound
<1>9. \A i \in 1..n : LongRound(i)' <=> LongRound(i)
  BY <1>6 DEF LongRound
<1>10. g > n <=> \E i \in 1..n : LongRound(i)
  BY <1>1, <1>2 DEF PaceInv
<1>11. (\E i \in 1..(n + 1) : LongRound(i)') <=> (\E i \in 1..n : LongRound(i)) \/ c > 1
  <2>1. \A i \in 1..(n + 1) : i \in 1..n \/ i = n + 1
    OBVIOUS
  <2>2. n + 1 \in 1..(n + 1) /\ \A i \in 1..n : i \in 1..(n + 1)
    OBVIOUS
  <2> HIDE DEF LongRound
  <2>3. QED  BY <1>8, <1>9, <2>1, <2>2, Zenon
<1>12. g + c > n + 1 <=> g > n \/ c > 1
  BY <1>3
<1>13. QED  BY <1>5, <1>6, <1>10, <1>11, <1>12 DEF PaceInv

\* No other step ends a round.
LEMMA PaceInvariance == ShadowSpec => []PaceInv
<1>1. IInv /\ RoundsInv /\ ShadowInv /\ PaceInv /\ [ShadowNext]_shadow_vars => PaceInv'
  <2> SUFFICES ASSUME IInv, RoundsInv, ShadowInv, PaceInv, [ShadowNext]_shadow_vars
               PROVE  PaceInv'
    OBVIOUS
  <2>1. CASE AlignTraced
    BY <2>1, PaceAlign
  <2>2. CASE NotifyObserved \/ RaisesUnobserved \/ OtherStep \/ UNCHANGED shadow_vars
    <3>1. UNCHANGED <<all_generated, result_traces>>
      BY <2>2 DEF NotifyObserved, RaisesUnobserved, OtherStep, Step, Prefill, BeginRound,
           DraftLast, DraftForward, DraftOutOfVocabulary, VerifySpanBatched, BeginVerify,
           CompareLast, CompareForward, Decide, Commit, Align, Notify, NotifyRaises, Return,
           locals, outputs, shadow_vars, vars
    <3>2. QED  BY <3>1 DEF PaceInv, LongRound
  <2>3. QED  BY <2>1, <2>2 DEF ShadowNext
<1>2. ShadowInit /\ [](IInv /\ RoundsInv) /\ [](IInv /\ ShadowInv) /\ [][ShadowNext]_shadow_vars
          => []PaceInv
  BY <1>1, PaceStart, PTL
<1>3. QED  BY <1>2, GeneratorInvariance, ShadowInvariance, PTL DEF ShadowSpec

\* The provenance audit flags every proposal that has a token as soon as a round
\* committed several tokens, and otherwise none; the side-by-side panel has
\* rounds which the round log does not have in just those generations.
THEOREM AuditIsExact == ShadowSpec => []AuditFlagsMisalignment
<1>1. IInv /\ ShadowInv /\ PaceInv => AuditFlagsMisalignment
  <2> SUFFICES ASSUME IInv, ShadowInv, PaceInv, Observed, pc = "returned"
               PROVE  LET cells == PosthocCells(snapshots)
                          shadow == Top1Proposals(all_generated, cells)
                          several == \E i \in DOMAIN result_traces : LongRound(i)
                      IN  /\ \A i \in DOMAIN shadow :
                                AlignmentMismatch(shadow[i], cells, all_generated)
                                    <=> several /\ shadow[i].source = "decode_time_shadow_top1"
                          /\ (\E r \in SideBySide(ProposalsFromTraces(result_traces), shadow) :
                                  ~r.in_round_log) <=> several
    BY DEF AuditFlagsMisalignment, LongRound
  <2> DEFINE cells == PosthocCells(snapshots)
             shadow == Top1Proposals(all_generated, cells)
             log == ProposalsFromTraces(result_traces)
             P == Len(request.prompt)
  <2>1. PICK n \in Nat : n = Len(result_traces)
    BY LenProperties DEF ShadowInv, RecordsInv
  <2>2. PICK g \in Nat : g = Len(all_generated)
    BY LenProperties DEF IInv, TypeOK
  <2>3. /\ DOMAIN result_traces = 1..n /\ DOMAIN snapshots = 1..n /\ DOMAIN all_generated = 1..g
        /\ \A i \in 1..n : snapshots[i] = SnapshotIn(FullSequence, result_traces[i])
    <3>1. /\ result_traces \in Seq(RoundRecord) /\ all_generated \in Seq(Token)
          /\ snapshots \in Seq(Snapshot) /\ Len(snapshots) = n
          /\ \A i \in 1..n : snapshots[i] = SnapshotIn(FullSequence, result_traces[i])
      BY <2>1 DEF ShadowInv, RecordsInv, ObservedInv, IInv, TypeOK
    <3>2. QED  BY <2>1, <2>2, <3>1, LenProperties
  <2>4. n <= g /\ (n = 0 => g = 0)
    BY <2>1, <2>2, TokenPerRound DEF ShadowInv
  <2>5. /\ DOMAIN cells = 1..n /\ \A i \in 1..n : cells[i].round_index = i - 1
        /\ Len(cells) = n
        /\ cells # <<>> <=> n # 0
    <3>1. cells = [i \in 1..n |-> ShadowRoundCell(snapshots[i].round_index,
                                                 snapshots[i].prefix_after)]
      BY <2>3 DEF PosthocCells
    <3>2. \A i \in 1..n : result_traces[i].round_idx = i - 1
      BY <2>1 DEF ShadowInv, RecordsInv, RecordFits
    <3>3. ASSUME NEW i \in 1..n
          PROVE  cells[i].round_index = i - 1
      <4>1. cells[i].round_index = snapshots[i].round_index
        BY <3>1 DEF ShadowRoundCell
      <4>2. snapshots[i].round_index = result_traces[i].round_idx
        BY <2>3 DEF SnapshotIn
      <4>3. QED  BY <3>2, <4>1, <4>2
    <3>4. DOMAIN cells = 1..n
      BY <3>1
    <3> HIDE DEF cells
    <3>5. cells \in Seq({cells[i] : i \in 1..n}) /\ Len(cells) = n
      BY <3>1, <3>4
    <3>6. QED  BY <3>3, <3>4, <3>5, EmptySeq
  <2>6. DOMAIN shadow = 1..g /\ \A i \in 1..g : shadow[i].round_index = i - 1
    BY <2>3 DEF Top1Proposals
  <2>7. DOMAIN log = 1..n /\ \A i \in 1..n : log[i].round_index = i - 1
    <3>1. \A i \in 1..n : result_traces[i].round_idx = i - 1
      BY <2>1 DEF ShadowInv, RecordsInv, RecordFits
    <3>2. QED  BY <2>3, <3>1 DEF ProposalsFromTraces, RoundLogProposal
  <2> HIDE DEF cells, shadow, log
  <2>8. ASSUME NEW i \in DOMAIN shadow
        PROVE  AlignmentMismatch(shadow[i], cells, all_generated)
                  <=> n < g /\ shadow[i].source = "decode_time_shadow_top1"
    <3>1. /\ i \in 1..g /\ shadow[i].round_index = i - 1 /\ (i - 1) + 1 = i
          /\ g # 0 /\ n # 0 /\ cells # <<>>
      BY <2>4, <2>5, <2>6
    <3>2. all_generated # <<>> /\ Len(all_generated) = g /\ Len(cells) = n
      BY <2>2, <2>5, <3>1, EmptySeq DEF IInv, TypeOK
    <3>3. CASE n < g
      BY <3>1, <3>2, <3>3 DEF AlignmentMismatch
    <3>4. CASE ~(n < g)
      <4>1. n = g /\ i \in 1..n /\ ~(i - 1 >= n)
        BY <2>4, <3>1, <3>4
      <4>2. cells[(i - 1) + 1].round_index = i - 1
        BY <2>5, <3>1, <4>1
      <4>3. QED  BY <3>1, <3>2, <3>4, <4>1, <4>2 DEF AlignmentMismatch
    <3>5. QED  BY <3>3, <3>4
  <2>9. (\E r \in SideBySide(log, shadow) : ~r.in_round_log) <=> n < g
    <3> DEFINE Rounds == {log[i].round_index : i \in DOMAIN log}
                            \cup {shadow[j].round_index : j \in DOMAIN shadow}
               InLog(r) == \E i \in DOMAIN log : log[i].round_index = r
    <3>1. (\E r \in SideBySide(log, shadow) : ~r.in_round_log)
             <=> \E r \in Rounds : ~InLog(r)
      <4> DEFINE Record(r) ==
                   [ round_index   |-> r,
                     in_round_log  |-> InLog(r),
                     in_shadow     |-> \E j \in DOMAIN shadow : shadow[j].round_index = r,
                     sources_agree |-> \E i \in DOMAIN log, j \in DOMAIN shadow :
                                          /\ log[i].round_index = r
                                          /\ shadow[j].round_index = r
                                          /\ log[i].proposed # <<>>
                                          /\ log[i].proposed = shadow[j].proposed ]
      <4>1. SideBySide(log, shadow) = {Record(r) : r \in Rounds}
        BY Zenon DEF SideBySide
      <4> HIDE DEF InLog
      <4>2. \A r : Record(r).in_round_log = InLog(r)
        OBVIOUS
      <4> HIDE DEF Record, Rounds
      <4>3. QED  BY <4>1, <4>2
    <3>2. ASSUME n < g
          PROVE  \E r \in Rounds : ~InLog(r)
      <4>1. g \in DOMAIN shadow /\ shadow[g].round_index = g - 1
        BY <2>6, <3>2
      <4>2. ~InLog(g - 1)
        BY <2>7, <3>2
      <4>3. QED  BY <4>1, <4>2
    <3>3. ASSUME ~(n < g), NEW r \in Rounds, ~InLog(r)
          PROVE  FALSE
      <4>1. PICK j \in DOMAIN shadow : r = shadow[j].round_index
        BY <3>3
      <4>2. j \in 1..n /\ r = j - 1
        BY <2>4, <2>6, <3>3, <4>1
      <4>3. QED  BY <2>7, <3>3, <4>2
    <3>4. QED  BY <3>1, <3>2, <3>3
  <2>10. (\E i \in DOMAIN result_traces : LongRound(i)) <=> n < g
    BY <2>1, <2>2, <2>3 DEF PaceInv
  <2>11. QED  BY <2>8, <2>9, <2>10 DEF cells, shadow, log
<1>2. QED  BY <1>1, ShadowInvariance, PaceInvariance, PTL

-----------------------------------------------------------------------------
(* Sums over finite sets, as the summaries of proposals compute them *)

\* h is the table of the sums of f over each subset of its domain, computed as
\* MapThenSumSet does, one chosen element after the other.
Chosen(s) == CHOOSE x \in s : TRUE

IsSumTo(h, f, n) ==
    h = [s \in {t \in SUBSET DOMAIN f : Cardinality(t) <= n} |->
            IF s = {} THEN 0 ELSE f[Chosen(s)] + h[s \ {Chosen(s)}]]

IsSum(h, f) ==
    h = [s \in SUBSET DOMAIN f |->
            IF s = {} THEN 0 ELSE f[Chosen(s)] + h[s \ {Chosen(s)}]]

Total(f) == MapThenSumSet(LAMBDA x : f[x], DOMAIN f)

\* Taking the chosen element away leaves a smaller set.
LEMMA ChosenFacts ==
    ASSUME NEW S, IsFiniteSet(S), NEW s \in SUBSET S, s # {}
    PROVE  /\ Chosen(s) \in s /\ s \ {Chosen(s)} \in SUBSET S
           /\ IsFiniteSet(s) /\ Cardinality(s) \in Nat \ {0}
           /\ \A x \in s : /\ s \ {x} \in SUBSET S
                           /\ Cardinality(s \ {x}) = Cardinality(s) - 1
<1>1. Chosen(s) \in s
  BY DEF Chosen
<1>2. IsFiniteSet(s) /\ Cardinality(s) \in Nat
  BY FS_Subset, FS_CardinalityType
<1>3. Cardinality(s) # 0
  BY <1>2, FS_EmptySet
<1>4. \A x \in s : Cardinality(s \ {x}) = Cardinality(s) - 1
  BY <1>2, FS_RemoveElement
<1>5. QED  BY <1>1, <1>2, <1>3, <1>4

\* There is a table for the subsets of at most n elements, by induction on n.
LEMMA SumTableExists ==
    ASSUME NEW f, IsFiniteSet(DOMAIN f), NEW n \in Nat
    PROVE  \E h : IsSumTo(h, f, n)
<1> DEFINE S == DOMAIN f
           Small(k) == {t \in SUBSET S : Cardinality(t) <= k}
           T == {k \in Nat : \E h : IsSumTo(h, f, k)}
           Entered(h, s) == IF s = {} THEN 0 ELSE f[Chosen(s)] + h[s \ {Chosen(s)}]
<1>1. 0 \in T
  <2> DEFINE h == [s \in Small(0) |-> 0]
  <2>1. \A s \in Small(0) : s = {}
    <3>1. \A s \in Small(0) : s # {} => Cardinality(s) \in Nat \ {0}
      BY ChosenFacts
    <3>2. QED  BY <3>1
  <2>2. \A s \in Small(0) : Entered(h, s) = 0
    BY <2>1
  <2>3. h = [s \in Small(0) |-> Entered(h, s)]
    BY <2>2
  <2> HIDE DEF h
  <2>4. IsSumTo(h, f, 0)
    BY <2>3 DEF IsSumTo
  <2>5. QED  BY <2>4
<1>2. ASSUME NEW m \in T
      PROVE  m + 1 \in T
  <2>1. m \in Nat
    OBVIOUS
  <2>2. PICK h : IsSumTo(h, f, m)
    OBVIOUS
  <2> DEFINE g == [s \in Small(m + 1) |-> Entered(h, s)]
  <2>3. h = [s \in Small(m) |-> Entered(h, s)]
    BY <2>2 DEF IsSumTo
  <2>4. ASSUME NEW s \in Small(m + 1), s # {}
        PROVE  s \ {Chosen(s)} \in Small(m)
    <3>1. /\ s \ {Chosen(s)} \in SUBSET S
          /\ Cardinality(s) \in Nat
          /\ Cardinality(s \ {Chosen(s)}) = Cardinality(s) - 1
      BY <2>4, ChosenFacts
    <3>2. Cardinality(s \ {Chosen(s)}) <= m
      BY <2>1, <3>1
    <3>3. QED  BY <3>1, <3>2
  <2>5. ASSUME NEW s \in Small(m)
        PROVE  s \in Small(m + 1) /\ g[s] = h[s]
    <3>1. Cardinality(s) <= m /\ Cardinality(s) \in Nat
      BY FS_Subset, FS_CardinalityType
    <3>2. s \in Small(m + 1)
      BY <2>1, <3>1
    <3>3. g[s] = Entered(h, s)
      BY <3>2
    <3>4. h[s] = Entered(h, s)
      <4> HIDE DEF Entered, Small
      <4>1. QED  BY <2>3
    <3>5. QED  BY <3>2, <3>3, <3>4
  <2>6. ASSUME NEW s \in Small(m + 1)
        PROVE  Entered(g, s) = Entered(h, s)
    <3> HIDE DEF g, Small
    <3>1. QED  BY <2>4, <2>5
  <2>7. g = [s \in Small(m + 1) |-> Entered(g, s)]
    <3>1. g = [s \in Small(m + 1) |-> Entered(h, s)]
      OBVIOUS
    <3> HIDE DEF g, Small, Entered
    <3>2. QED  BY <3>1, <2>6
  <2> HIDE DEF g
  <2>8. IsSumTo(g, f, m + 1)
    BY <2>7 DEF IsSumTo
  <2>9. QED  BY <2>1, <2>8
<1>3. T = Nat
  <2>1. T \in SUBSET Nat
    OBVIOUS
  <2> HIDE DEF T
  <2>2. QED  BY <1>1, <1>2, <2>1, SetInduction
<1>4. QED  BY <1>3

\* There is a table for all subsets of a finite set.
LEMMA SumExists ==
    ASSUME NEW f, IsFiniteSet(DOMAIN f)
    PROVE  \E h : IsSum(h, f)
<1> DEFINE n == Cardinality(DOMAIN f)
<1>1. n \in Nat
  BY FS_CardinalityType
<1>2. {t \in SUBSET DOMAIN f : Cardinality(t) <= n} = SUBSET DOMAIN f
  BY FS_Subset
<1>3. PICK h : IsSumTo(h, f, n)
  BY <1>1, SumTableExists
<1>4. IsSum(h, f)
  BY <1>2, <1>3 DEF IsSumTo, IsSum
<1>5. QED  BY <1>4

\* What the table says of one set.
LEMMA SumStep ==
    ASSUME NEW h, NEW f, IsSum(h, f)
    PROVE  \A s \in SUBSET DOMAIN f :
              h[s] = IF s = {} THEN 0 ELSE f[Chosen(s)] + h[s \ {Chosen(s)}]
BY DEF IsSum

\* Such a sum is a number, and it does not matter which element comes first.
LEMMA SumFacts ==
    ASSUME NEW S, IsFiniteSet(S), NEW f \in [S -> Nat], NEW h, IsSum(h, f)
    PROVE  \A s \in SUBSET S : /\ h[s] \in Nat
                               /\ \A x \in s : h[s] = f[x] + h[s \ {x}]
<1> DEFINE Good(s) == h[s] \in Nat /\ \A x \in s : h[s] = f[x] + h[s \ {x}]
           T == {n \in Nat : \A s \in SUBSET S : Cardinality(s) <= n => Good(s)}
<1>1. DOMAIN f = S /\ \A x \in S : f[x] \in Nat
  OBVIOUS
<1>2. \A s \in SUBSET S : h[s] = IF s = {} THEN 0 ELSE f[Chosen(s)] + h[s \ {Chosen(s)}]
  BY <1>1, SumStep
<1>3. 0 \in T
  <2>1. ASSUME NEW s \in SUBSET S, Cardinality(s) <= 0
        PROVE  Good(s)
    <3>1. IsFiniteSet(s) /\ Cardinality(s) \in Nat
      BY FS_Subset, FS_CardinalityType
    <3>2. s = {}
      BY <2>1, <3>1, FS_EmptySet
    <3>3. QED  BY <1>2, <3>2
  <2>2. QED  BY <2>1
<1>4. ASSUME NEW n \in T
      PROVE  n + 1 \in T
  <2>1. n \in Nat /\ \A s \in SUBSET S : Cardinality(s) <= n => Good(s)
    OBVIOUS
  <2>2. ASSUME NEW s \in SUBSET S, Cardinality(s) = n + 1
        PROVE  Good(s)
    <3>1. s # {}
      <4>1. n + 1 # 0
        BY <2>1
      <4>2. QED  BY <2>2, <4>1, FS_EmptySet
    <3> DEFINE c == Chosen(s)
               r == s \ {c}
    <3>2. /\ c \in s /\ r \in SUBSET S
          /\ \A x \in s : s \ {x} \in SUBSET S /\ Cardinality(s \ {x}) = Cardinality(s) - 1
      BY <3>1, ChosenFacts
    <3>3. \A x \in s : Cardinality(s \ {x}) <= n
      BY <2>1, <2>2, <3>2
    <3>4. \A x \in s : Good(s \ {x})
      <4> HIDE DEF Good, T
      <4>1. QED  BY <2>1, <3>2, <3>3
    <3>5. h[s] = f[c] + h[r]
      BY <1>2, <3>1
    <3> HIDE DEF c
    <3>6. f[c] \in Nat /\ h[r] \in Nat
      BY <1>1, <3>2, <3>4
    <3>7. ASSUME NEW x \in s
          PROVE  h[s] = f[x] + h[s \ {x}]
      <4>1. CASE x = c
        BY <3>5, <4>1
      <4>2. CASE x # c
        <5>1. x \in r /\ c \in s \ {x} /\ r \ {x} = (s \ {x}) \ {c}
          BY <3>2, <4>2
        <5>2. h[r] = f[x] + h[r \ {x}]
          BY <3>2, <3>4, <5>1
        <5>3. h[s \ {x}] = f[c] + h[r \ {x}]
          BY <3>4, <5>1
        <5>4. /\ f[x] \in Nat /\ f[c] \in Nat
              /\ h[r \ {x}] \in Nat
          <6>1. r \ {x} \in SUBSET S /\ Cardinality(r) \in Nat /\ x \in r
            BY <3>2, <5>1, FS_Subset, FS_CardinalityType
          <6>2. Cardinality(r \ {x}) <= n
            <7>1. Cardinality(r \ {x}) = Cardinality(r) - 1 /\ Cardinality(r) <= n
              BY <3>2, <3>3, <6>1, FS_Subset, FS_RemoveElement
            <7>2. QED  BY <2>1, <6>1, <7>1
          <6>3. Good(r \ {x})
            <7> HIDE DEF Good, T, r
            <7>1. QED  BY <2>1, <6>1, <6>2
          <6>4. QED  BY <1>1, <3>2, <5>1, <6>3
        <5>5. QED  BY <3>5, <5>2, <5>3, <5>4
      <4>3. QED  BY <4>1, <4>2
    <3>8. h[s] \in Nat
      BY <3>5, <3>6
    <3>9. QED  BY <3>7, <3>8
  <2>3. ASSUME NEW s \in SUBSET S, Cardinality(s) <= n + 1
        PROVE  Good(s)
    <3>1. Cardinality(s) \in Nat
      BY FS_Subset, FS_CardinalityType
    <3>2. Cardinality(s) <= n \/ Cardinality(s) = n + 1
      BY <2>1, <2>3, <3>1
    <3> HIDE DEF Good, T
    <3>3. QED  BY <2>1, <2>2, <3>2
  <2> HIDE DEF Good
  <2>4. QED  BY <2>1, <2>3
<1>5. T = Nat
  <2>1. T \in SUBSET Nat
    OBVIOUS
  <2> HIDE DEF T
  <2>2. QED  BY <1>3, <1>4, <2>1, SetInduction
<1>6. ASSUME NEW s \in SUBSET S
      PROVE  Good(s)
  <2>1. Cardinality(s) \in Nat
    BY FS_Subset, FS_CardinalityType
  <2>2. Cardinality(s) \in T /\ Cardinality(s) <= Cardinality(s)
    BY <1>5, <2>1
  <2> HIDE DEF Good
  <2>3. QED  BY <2>2
<1>7. QED  BY <1>6

\* The sum over a set depends on the values on that set only.
LEMMA SumAgrees ==
    ASSUME NEW S, IsFiniteSet(S), NEW R, IsFiniteSet(R),
           NEW f \in [S -> Nat], NEW e \in [R -> Nat],
           NEW h, IsSum(h, f), NEW g, IsSum(g, e)
    PROVE  \A s \in SUBSET S : s \subseteq R /\ (\A x \in s : f[x] = e[x]) => h[s] = g[s]
<1> DEFINE Good(s) == s \subseteq R /\ (\A x \in s : f[x] = e[x]) => h[s] = g[s]
           T == {n \in Nat : \A s \in SUBSET S : Cardinality(s) = n => Good(s)}
<1>1. /\ \A s \in SUBSET S : h[s] = IF s = {} THEN 0 ELSE f[Chosen(s)] + h[s \ {Chosen(s)}]
      /\ \A s \in SUBSET R : g[s] = IF s = {} THEN 0 ELSE e[Chosen(s)] + g[s \ {Chosen(s)}]
  BY SumStep
<1>2. 0 \in T
  <2>1. ASSUME NEW s \in SUBSET S, Cardinality(s) = 0, s \subseteq R
        PROVE  h[s] = g[s]
    <3>1. s = {}
      BY <2>1, FS_Subset, FS_EmptySet
    <3>2. QED  BY <1>1, <3>1
  <2>2. QED  BY <2>1
<1>3. ASSUME NEW n \in T
      PROVE  n + 1 \in T
  <2>1. n \in Nat /\ \A s \in SUBSET S : Cardinality(s) = n => Good(s)
    OBVIOUS
  <2>2. ASSUME NEW s \in SUBSET S, Cardinality(s) = n + 1, s \subseteq R,
               \A x \in s : f[x] = e[x]
        PROVE  h[s] = g[s]
    <3>1. s # {}
      <4>1. n + 1 # 0
        BY <2>1
      <4>2. QED  BY <2>2, <4>1, FS_EmptySet
    <3> DEFINE c == Chosen(s)
               r == s \ {c}
    <3>2. c \in s /\ r \in SUBSET S /\ Cardinality(r) = Cardinality(s) - 1
      BY <3>1, ChosenFacts
    <3>3. Cardinality(r) = n /\ r \subseteq R /\ \A x \in r : f[x] = e[x]
      BY <2>1, <2>2, <3>2
    <3>4. h[r] = g[r]
      <4> HIDE DEF T, r
      <4>1. QED  BY <2>1, <3>2, <3>3
    <3>5. h[s] = f[c] + h[r] /\ g[s] = e[c] + g[r]
      BY <1>1, <2>2, <3>1
    <3> HIDE DEF c, r
    <3>6. QED  BY <2>2, <3>2, <3>4, <3>5
  <2>3. QED  BY <2>1, <2>2
<1>4. T = Nat
  <2>1. T \in SUBSET Nat
    OBVIOUS
  <2> HIDE DEF T
  <2>2. QED  BY <1>2, <1>3, <2>1, SetInduction
<1>5. ASSUME NEW s \in SUBSET S
      PROVE  Good(s)
  <2>1. Cardinality(s) \in T
    BY <1>4, FS_Subset, FS_CardinalityType
  <2> HIDE DEF Good
  <2>2. QED  BY <2>1
<1>6. QED  BY <1>5

\* There is one table only, so it is the one the library's fold uses.
LEMMA SumUnique ==
    ASSUME NEW S, IsFiniteSet(S), NEW f \in [S -> Nat], NEW h, IsSum(h, f), NEW g, IsSum(g, f)
    PROVE  h[S] = g[S]
<1>1. PICK e \in [S -> Nat] : e = f
  OBVIOUS
<1>2. \A s \in SUBSET S : s \subseteq S /\ (\A x \in s : f[x] = e[x]) => h[s] = g[s]
  <2>1. IsSum(g, e)
    BY <1>1
  <2>2. QED  BY <2>1, SumAgrees
<1>3. S \in SUBSET S /\ \A x \in S : f[x] = e[x]
  BY <1>1
<1>4. QED  BY <1>2, <1>3

\* MapThenSumSet computes such a sum.
LEMMA TotalTable ==
    ASSUME NEW f, IsFiniteSet(DOMAIN f)
    PROVE  \E h : IsSum(h, f) /\ Total(f) = h[DOMAIN f]
<1>1. \E h : IsSum(h, f)
  BY SumExists
<1> DEFINE h == CHOOSE h : IsSum(h, f)
<1>2. IsSum(h, f)
  BY <1>1
<1>3. Total(f) = h[DOMAIN f]
  BY DEF Total, MapThenSumSet, MapThenFoldSet, IsSum, Chosen
<1> HIDE DEF h
<1>4. QED  BY <1>2, <1>3

\* The sum of a function of naturals, and how any one term comes apart from it.
LEMMA TotalFacts ==
    ASSUME NEW S, IsFiniteSet(S), NEW f \in [S -> Nat]
    PROVE  /\ Total(f) \in Nat
           /\ S = {} => Total(f) = 0
           /\ \A x \in S : Total(f) = f[x] + Total([y \in S \ {x} |-> f[y]])
<1>1. DOMAIN f = S
  OBVIOUS
<1>2. PICK h : IsSum(h, f) /\ Total(f) = h[S]
  BY <1>1, TotalTable
<1>3. h[S] \in Nat /\ \A x \in S : h[S] = f[x] + h[S \ {x}]
  <2>1. S \in SUBSET S
    OBVIOUS
  <2>2. \A s \in SUBSET S : h[s] \in Nat /\ \A x \in s : h[s] = f[x] + h[s \ {x}]
    BY <1>2, SumFacts
  <2>3. QED  BY <2>1, <2>2
<1>4. S = {} => h[S] = 0
  BY <1>1, <1>2, SumStep
<1>5. ASSUME NEW x \in S
      PROVE  h[S \ {x}] = Total([y \in S \ {x} |-> f[y]])
  <2> DEFINE R == S \ {x}
             e == [y \in R |-> f[y]]
  <2>1. e \in [R -> Nat] /\ DOMAIN e = R /\ \A y \in R : e[y] = f[y]
    OBVIOUS
  <2>2. IsFiniteSet(R) /\ R \in SUBSET S
    BY FS_RemoveElement
  <2> HIDE DEF e, R
  <2>3. PICK g : IsSum(g, e) /\ Total(e) = g[R]
    BY <2>1, <2>2, TotalTable
  <2>4. h[R] = g[R]
    BY <1>2, <2>1, <2>2, <2>3, SumAgrees
  <2>5. QED  BY <2>3, <2>4 DEF e, R
<1>6. QED  BY <1>2, <1>3, <1>4, <1>5

\* A sum of naturals is one.
LEMMA TotalType ==
    ASSUME NEW S, IsFiniteSet(S), NEW f \in [S -> Nat]
    PROVE  Total(f) \in Nat
BY TotalFacts

\* Any term comes apart from the sum.
LEMMA TotalSplit ==
    ASSUME NEW S, IsFiniteSet(S), NEW f \in [S -> Nat], NEW x \in S
    PROVE  Total(f) = f[x] + Total([y \in S \ {x} |-> f[y]])
BY TotalFacts

\* The two sums that summaries of proposals are checked with.
LEMMA ProposedTotal ==
    ASSUME NEW ps, IsFiniteSet(DOMAIN ps), \A i \in DOMAIN ps : Len(ps[i].proposed) \in Nat
    PROVE  MapThenSumSet(LAMBDA i : Len(ps[i].proposed), DOMAIN ps)
              = Total([i \in DOMAIN ps |-> Len(ps[i].proposed)])
<1> DEFINE S == DOMAIN ps
           f == [i \in S |-> Len(ps[i].proposed)]
           Is(h) == h = [s \in SUBSET S |->
                          IF s = {} THEN 0
                          ELSE Len(ps[Chosen(s)].proposed) + h[s \ {Chosen(s)}]]
<1>1. f \in [S -> Nat] /\ DOMAIN f = S /\ IsFiniteSet(S)
  OBVIOUS
<1>2. PICK h : IsSum(h, f) /\ Total(f) = h[S]
  BY <1>1, TotalTable
<1>3. \A g : Is(g) <=> IsSum(g, f)
  <2>1. \A s \in SUBSET S : s # {} => f[Chosen(s)] = Len(ps[Chosen(s)].proposed)
    BY ChosenFacts
  <2>2. QED  BY <2>1, <1>1 DEF IsSum
<1> DEFINE g == CHOOSE g : Is(g)
<1>4. Is(g)
  <2>1. \E e : Is(e)
    BY <1>2, <1>3
  <2> HIDE DEF Is
  <2>2. QED  BY <2>1
<1>5. MapThenSumSet(LAMBDA i : Len(ps[i].proposed), DOMAIN ps) = g[S]
  BY DEF MapThenSumSet, MapThenFoldSet, Chosen
<1>6. g[S] = h[S]
  <2> HIDE DEF g, f
  <2>1. IsSum(g, f)
    <3> HIDE DEF Is
    <3>1. QED  BY <1>3, <1>4
  <2> HIDE DEF S, Is
  <2>2. QED  BY <1>1, <1>2, <2>1, SumUnique
<1>7. QED  BY <1>2, <1>5, <1>6

\* What a summary of counts adds up to is such a sum.
LEMMA TallyTotalIs ==
    ASSUME NEW S, IsFiniteSet(S), S \subseteq Nat, NEW tally \in [S -> Nat]
    PROVE  TallyTotal(tally) = Total([k \in S |-> k * tally[k]])
<1> DEFINE f == [k \in S |-> k * tally[k]]
           Is(h) == h = [s \in SUBSET S |->
                          IF s = {} THEN 0
                          ELSE Chosen(s) * tally[Chosen(s)] + h[s \ {Chosen(s)}]]
<1>1. f \in [S -> Nat] /\ DOMAIN f = S /\ DOMAIN tally = S
  <2>1. \A x, y \in Nat : x * y \in Nat
    OBVIOUS
  <2>2. \A k \in S : k \in Nat /\ tally[k] \in Nat
    OBVIOUS
  <2>3. \A k \in S : k * tally[k] \in Nat
    BY <2>1, <2>2
  <2>4. QED  BY <2>3
<1>2. PICK h : IsSum(h, f) /\ Total(f) = h[S]
  BY <1>1, TotalTable
<1>3. \A g : Is(g) <=> IsSum(g, f)
  <2>1. \A s \in SUBSET S : s # {} => f[Chosen(s)] = Chosen(s) * tally[Chosen(s)]
    BY ChosenFacts
  <2>2. QED  BY <2>1, <1>1 DEF IsSum
<1> DEFINE g == CHOOSE g : Is(g)
<1>4. Is(g)
  <2>1. \E e : Is(e)
    BY <1>2, <1>3
  <2> HIDE DEF Is
  <2>2. QED  BY <2>1
<1>5. TallyTotal(tally) = g[S]
  BY <1>1 DEF TallyTotal, MapThenSumSet, MapThenFoldSet, Chosen
<1>6. g[S] = h[S]
  <2> HIDE DEF g, f
  <2>1. IsSum(g, f)
    <3> HIDE DEF Is
    <3>1. QED  BY <1>3, <1>4
  <2> HIDE DEF Is
  <2>2. QED  BY <1>1, <1>2, <2>1, SumUnique
<1>7. QED  BY <1>2, <1>5, <1>6

\* One number more in a sequence.
LEMMA TotalAppend ==
    ASSUME NEW s \in Seq(Nat), NEW n \in Nat
    PROVE  Total(Append(s, n)) = Total(s) + n
<1> DEFINE m == Len(s)
           u == Append(s, n)
<1>1. /\ m \in Nat /\ u \in [1..(m + 1) -> Nat] /\ s \in [1..m -> Nat]
      /\ u[m + 1] = n /\ \A i \in 1..m : u[i] = s[i]
  <2>1. /\ u \in Seq(Nat) /\ Len(u) = m + 1 /\ m \in Nat
        /\ \A i \in 1..m : u[i] = s[i]
        /\ u[m + 1] = n
    BY AppendProperties, LenProperties
  <2> HIDE DEF u, m
  <2>2. u \in [1..(m + 1) -> Nat]
    BY <2>1, LenProperties
  <2>3. s \in [1..m -> Nat]
    BY LenProperties DEF m
  <2>4. QED  BY <2>1, <2>2, <2>3
<1> HIDE DEF u, m
<1>2. IsFiniteSet(1..(m + 1)) /\ IsFiniteSet(1..m)
  BY <1>1, FS_Interval
<1>3. Total(u) = u[m + 1] + Total([i \in (1..(m + 1)) \ {m + 1} |-> u[i]])
  <2>1. m + 1 \in 1..(m + 1)
    BY <1>1
  <2>2. QED  BY <1>1, <1>2, <2>1, TotalSplit
<1>4. [i \in (1..(m + 1)) \ {m + 1} |-> u[i]] = s
  <2>1. (1..(m + 1)) \ {m + 1} = 1..m
    BY <1>1
  <2>2. QED  BY <1>1, <2>1
<1>5. Total(s) \in Nat
  BY <1>1, <1>2, TotalType
<1>6. Total(u) = n + Total(s)
  BY <1>1, <1>3, <1>4
<1>7. QED  BY <1>5, <1>6 DEF u

\* How often k occurs in s.
Places(s, k) == {i \in DOMAIN s : s[i] = k}

\* One more place with the value k, or not.
LEMMA PlacesAppend ==
    ASSUME NEW S, NEW s \in Seq(S), NEW e \in S, NEW k
    PROVE  /\ IsFiniteSet(Places(s, k)) /\ Cardinality(Places(s, k)) \in Nat
           /\ Cardinality(Places(Append(s, e), k))
                = Cardinality(Places(s, k)) + (IF e = k THEN 1 ELSE 0)
<1> DEFINE n == Len(s)
           u == Append(s, e)
<1>1. /\ n \in Nat /\ DOMAIN s = 1..n /\ DOMAIN u = 1..(n + 1)
      /\ \A i \in 1..n : u[i] = s[i]
      /\ u[n + 1] = e
  BY AppendProperties, LenProperties
<1> HIDE DEF n, u
<1>2. Places(u, k) = Places(s, k) \cup (IF e = k THEN {n + 1} ELSE {})
  BY <1>1 DEF Places
<1>3. IsFiniteSet(Places(s, k)) /\ Cardinality(Places(s, k)) \in Nat
  <2>1. Places(s, k) \in SUBSET (1..n)
    BY <1>1 DEF Places
  <2>2. IsFiniteSet(1..n)
    BY <1>1, FS_Interval
  <2>3. QED  BY <2>1, <2>2, FS_Subset, FS_CardinalityType
<1>4. n + 1 \notin Places(s, k)
  BY <1>1 DEF Places
<1>5. Cardinality(Places(u, k)) = Cardinality(Places(s, k)) + (IF e = k THEN 1 ELSE 0)
  <2>1. CASE e = k
    <3>1. Places(u, k) = Places(s, k) \cup {n + 1}
      BY <1>2, <2>1
    <3>2. Cardinality(Places(s, k) \cup {n + 1}) = Cardinality(Places(s, k)) + 1
      BY <1>3, <1>4, FS_AddElement
    <3>3. QED  BY <2>1, <3>1, <3>2
  <2>2. CASE e # k
    BY <1>2, <1>3, <2>2
  <2>3. QED  BY <2>1, <2>2
<1>6. QED  BY <1>3, <1>5 DEF u

\* A tally counts the places of each value.
LEMMA TallyFacts ==
    ASSUME NEW s \in Seq(Nat)
    PROVE  /\ IsFiniteSet(Range(s)) /\ Range(s) \subseteq Nat
           /\ Tally(s) \in [Range(s) -> Nat]
           /\ \A k \in Range(s) : Tally(s)[k] = Cardinality(Places(s, k))
           /\ \A k \in Nat \ Range(s) : Cardinality(Places(s, k)) = 0
<1>1. /\ Len(s) \in Nat /\ s \in [1..Len(s) -> Nat] /\ DOMAIN s = 1..Len(s)
  BY LenProperties
<1>2. Range(s) \subseteq Nat /\ s \in Surjection(1..Len(s), Range(s))
  BY <1>1 DEF Range, Surjection
<1>3. IsFiniteSet(Range(s))
  <2>1. IsFiniteSet(1..Len(s))
    BY <1>1, FS_Interval
  <2>2. QED  BY <1>2, <2>1, FS_Surjection
<1>4. \A k \in Nat : Cardinality(Places(s, k)) \in Nat
  BY PlacesAppend
<1>5. Tally(s) = [k \in Range(s) |-> Cardinality(Places(s, k))]
  BY DEF Tally, Places
<1>6. ASSUME NEW k \in Nat \ Range(s)
      PROVE  Cardinality(Places(s, k)) = 0
  <2>1. Places(s, k) = {}
    BY DEF Places, Range
  <2>2. QED  BY <2>1, FS_EmptySet
<1>7. QED  BY <1>2, <1>3, <1>4, <1>5, <1>6

\* A tally adds up to the numbers it counts.
LEMMA TallyAppend ==
    ASSUME NEW s \in Seq(Nat), NEW n \in Nat
    PROVE  /\ TallyTotal(Tally(s)) \in Nat
           /\ TallyTotal(Tally(Append(s, n))) = TallyTotal(Tally(s)) + n
<1> DEFINE u == Append(s, n)
           S == Range(s)
           R == Range(u)
           count(k) == Cardinality(Places(s, k))
           f == [k \in S |-> k * count(k)]
           g == [k \in R |-> k * (count(k) + (IF n = k THEN 1 ELSE 0))]
<1>1. u \in Seq(Nat) /\ R = S \cup {n}
  <2>1. /\ u \in Seq(Nat) /\ DOMAIN s = 1..Len(s) /\ DOMAIN u = 1..(Len(s) + 1)
        /\ Len(s) \in Nat
        /\ \A i \in 1..Len(s) : u[i] = s[i]
        /\ u[Len(s) + 1] = n
    BY AppendProperties, LenProperties
  <2>2. QED
    <3> HIDE DEF u
    <3>1. QED  BY <2>1 DEF Range
<1>2. /\ IsFiniteSet(S) /\ S \subseteq Nat
      /\ \A k \in Nat : count(k) \in Nat
      /\ \A k \in Nat \ S : count(k) = 0
  BY TallyFacts, PlacesAppend
<1>3. IsFiniteSet(R) /\ R \subseteq Nat
  <2> HIDE DEF S, R
  <2>1. QED  BY <1>1, <1>2, FS_AddElement
<1>4. \A x, y \in Nat : x * y \in Nat /\ x * (y + 1) = x * y + x /\ x * (y + 0) = x * y
  OBVIOUS
<1>5. TallyTotal(Tally(s)) = Total(f) /\ f \in [S -> Nat]
  <2>1. Tally(s) \in [S -> Nat] /\ \A k \in S : Tally(s)[k] = count(k)
    BY TallyFacts
  <2>2. TallyTotal(Tally(s)) = Total([k \in S |-> k * Tally(s)[k]])
    <3> HIDE DEF S
    <3>1. QED  BY <1>2, <2>1, TallyTotalIs
  <2>3. [k \in S |-> k * Tally(s)[k]] = f
    <3> HIDE DEF S, count
    <3>1. QED  BY <2>1
  <2>4. f \in [S -> Nat]
    <3> HIDE DEF S, count
    <3>1. \A k \in S : k * count(k) \in Nat
      BY <1>2, <1>4
    <3>2. QED  BY <3>1
  <2>5. QED  BY <2>2, <2>3, <2>4
<1>6. TallyTotal(Tally(u)) = Total(g) /\ g \in [R -> Nat]
  <2> DEFINE more(k) == count(k) + (IF n = k THEN 1 ELSE 0)
  <2>1. Tally(u) \in [R -> Nat] /\ \A k \in R : Tally(u)[k] = Cardinality(Places(u, k))
    <3> HIDE DEF u
    <3>1. QED  BY <1>1, TallyFacts
  <2>2. \A k \in R : Tally(u)[k] = more(k)
    <3>1. \A k \in Nat : Cardinality(Places(u, k)) = more(k)
      BY PlacesAppend
    <3> HIDE DEF u, R, more
    <3>2. QED  BY <1>3, <2>1, <3>1
  <2>3. TallyTotal(Tally(u)) = Total([k \in R |-> k * Tally(u)[k]])
    <3> HIDE DEF u, R
    <3>1. QED  BY <1>3, <2>1, TallyTotalIs
  <2>4. [k \in R |-> k * Tally(u)[k]] = g
    <3> HIDE DEF u, R, count
    <3>1. QED  BY <2>2
  <2>5. g \in [R -> Nat]
    <3> HIDE DEF u, R, count
    <3>1. \A k \in R : count(k) + (IF n = k THEN 1 ELSE 0) \in Nat /\ k \in Nat
      BY <1>2, <1>3
    <3>2. QED  BY <3>1, <1>4
  <2>6. QED  BY <2>3, <2>4, <2>5
<1> DEFINE rest == [k \in R \ {n} |-> g[k]]
<1>7. Total(g) = n * (count(n) + 1) + Total(rest)
  <2>1. n \in R /\ g[n] = n * (count(n) + 1)
    <3> HIDE DEF R, S, count
    <3>1. n \in R
      BY <1>1
    <3>2. QED  BY <3>1
  <2> HIDE DEF g, R, count
  <2>2. Total(g) = g[n] + Total([k \in R \ {n} |-> g[k]])
    BY <1>3, <1>6, <2>1, TotalSplit
  <2>3. QED  BY <2>1, <2>2
<1>8. rest = [k \in S \ {n} |-> f[k]]
  <2> HIDE DEF R, S, count
  <2>1. R \ {n} = S \ {n}
    BY <1>1
  <2>2. \A k \in S \ {n} : g[k] = f[k]
    <3>1. \A k \in S \ {n} : k \in R /\ k \in Nat /\ n # k
      BY <1>1, <1>2
    <3>2. \A k \in S \ {n} : k * (count(k) + 0) = k * count(k)
      BY <1>2, <1>4
    <3>3. QED  BY <3>1, <3>2
  <2>3. QED  BY <2>1, <2>2
<1>9. n * (count(n) + 1) = n * count(n) + n /\ n * count(n) \in Nat
  <2> HIDE DEF count
  <2>1. count(n) \in Nat
    BY <1>2
  <2>2. QED  BY <2>1, <1>4
<1>10. Total(f) \in Nat
  <2> HIDE DEF f, S
  <2>1. QED  BY <1>2, <1>5, TotalFacts
<1>11. CASE n \in S
  <2>1. f[n] = n * count(n)
    BY <1>11
  <2>2. Total(f) = f[n] + Total([k \in S \ {n} |-> f[k]])
    <3> HIDE DEF f, S
    <3>1. QED  BY <1>2, <1>5, <1>11, TotalSplit
  <2>3. Total([k \in S \ {n} |-> f[k]]) \in Nat
    <3> DEFINE e == [k \in S \ {n} |-> f[k]]
    <3>1. e \in [S \ {n} -> Nat]
      <4> HIDE DEF f, S
      <4>1. QED  BY <1>5
    <3>2. IsFiniteSet(S \ {n})
      BY <1>2, FS_RemoveElement
    <3> HIDE DEF e, S
    <3>3. Total(e) \in Nat
      BY <3>1, <3>2, TotalFacts
    <3>4. QED  BY <3>3 DEF e
  <2> HIDE DEF f, g, S, R, rest, count, u
  <2>4. QED  BY <1>5, <1>6, <1>7, <1>8, <1>9, <1>10, <2>1, <2>2, <2>3 DEF u
<1>12. CASE n \notin S
  <2>1. count(n) = 0 /\ n * count(n) = 0
    BY <1>2, <1>12
  <2>2. [k \in S \ {n} |-> f[k]] = f
    <3>1. S \ {n} = S
      BY <1>12
    <3> HIDE DEF S, count
    <3>2. QED  BY <3>1
  <2> HIDE DEF f, g, S, R, rest, count, u
  <2>3. QED  BY <1>5, <1>6, <1>7, <1>8, <1>9, <1>10, <2>1, <2>2 DEF u
<1>13. QED  BY <1>5, <1>10, <1>11, <1>12

\* Without numbers there is nothing to add up.
LEMMA TallyEmpty == TallyTotal(Tally(<<>>)) = 0 /\ Total(<<>>) = 0
<1>1. <<>> \in Seq(Nat) /\ DOMAIN <<>> = {} /\ <<>> \in [{} -> Nat]
  BY EmptySeq
<1>2. Range(<<>>) = {}
  BY <1>1 DEF Range
<1>3. Tally(<<>>) \in [{} -> Nat] /\ IsFiniteSet({})
  BY <1>1, <1>2, TallyFacts, FS_EmptySet
<1>4. TallyTotal(Tally(<<>>)) = Total([k \in {} |-> k * Tally(<<>>)[k]])
  BY <1>3, TallyTotalIs
<1>5. [k \in {} |-> k * Tally(<<>>)[k]] \in [{} -> Nat]
  OBVIOUS
<1>6. QED  BY <1>1, <1>3, <1>4, <1>5, TotalFacts

-----------------------------------------------------------------------------
(* What the rounds add up to *)

ProposedLens(ts) == [i \in DOMAIN ts |-> Len(ts[i].draft_tokens)]
AcceptedCounts(ts) == [i \in DOMAIN ts |-> Len(ts[i].acceptance.accepted_tokens)]
RejectedCounts(ts) == [i \in DOMAIN ts |-> RejectedOrCorrected(ts[i].acceptance)]
CorrectionCounts(ts) == [i \in DOMAIN ts |-> Len(ts[i].acceptance.correction_token)]

\* A round's correction is counted when it is decided, its other tokens at its end.
InFlight == IF pc \in {"commit", "align"} THEN Len(acceptance.correction_token) ELSE 0

\* The generator's totals are those of the rounds.
SumsInv ==
    /\ Total(ProposedLens(result_traces)) = totals.accepted + totals.rejected
    /\ TallyTotal(Tally(AcceptedCounts(result_traces))) = totals.accepted
    /\ Cardinality(Places(CorrectionCounts(result_traces), 1)) + InFlight = totals.corrections
    /\ TallyTotal(Tally(RejectedCounts(result_traces))) + InFlight
          = totals.rejected + totals.corrections

\* What a record says its round committed stands in the sequence where it says.
CommitsInv ==
    \A i \in 1..Len(result_traces) :
        CommittedBy(result_traces[i].acceptance) =
            SubSeq(FullSequence, result_traces[i].full_seq_len_before + 1,
                   result_traces[i].full_seq_len_after)

\* A function applied to each element of a sequence.
LEMMA PointwiseAppend ==
    ASSUME NEW S, NEW V, NEW f \in [S -> V], NEW ts \in Seq(S), NEW t \in S
    PROVE  /\ [i \in DOMAIN ts |-> f[ts[i]]] \in Seq(V)
           /\ [i \in DOMAIN Append(ts, t) |-> f[Append(ts, t)[i]]]
                = Append([i \in DOMAIN ts |-> f[ts[i]]], f[t])
<1> DEFINE n == Len(ts)
           us == Append(ts, t)
           a == [i \in DOMAIN ts |-> f[ts[i]]]
           b == [i \in DOMAIN us |-> f[us[i]]]
<1>1. /\ n \in Nat /\ us \in Seq(S) /\ Len(us) = n + 1
      /\ DOMAIN ts = 1..n /\ DOMAIN us = 1..(n + 1)
      /\ \A i \in 1..n : us[i] = ts[i] /\ ts[i] \in S
      /\ us[n + 1] = t
  BY AppendProperties, LenProperties, ElementOfSeq
<1> HIDE DEF n, us
<1>2. a \in Seq(V) /\ Len(a) = n /\ \A i \in 1..n : a[i] = f[ts[i]]
  <2>1. a \in [1..n -> V]
    BY <1>1
  <2>2. QED  BY <1>1, <2>1
<1>3. b \in [1..(n + 1) -> V]
  <2>1. \A i \in 1..(n + 1) : us[i] \in S
    BY <1>1, ElementOfSeq
  <2>2. QED  BY <1>1, <2>1
<1>4. b \in Seq(V) /\ Len(b) = n + 1
  BY <1>1, <1>3
<1>5. /\ \A i \in 1..n : b[i] = f[ts[i]]
      /\ b[n + 1] = f[t]
  BY <1>1
<1> HIDE DEF a, b
<1>6. /\ Append(a, f[t]) \in Seq(V) /\ Len(Append(a, f[t])) = n + 1
      /\ \A i \in 1..n : Append(a, f[t])[i] = a[i]
      /\ Append(a, f[t])[n + 1] = f[t]
  BY <1>2, AppendProperties
<1>7. b = Append(a, f[t])
  <2>1. \A i \in 1..(n + 1) : b[i] = Append(a, f[t])[i]
    BY <1>1, <1>2, <1>5, <1>6
  <2>2. QED  BY <1>1, <1>4, <1>6, <2>1, SeqEqual
<1>8. QED  BY <1>2, <1>7 DEF a, b, us

\* The counts a round's record yields are natural numbers.
LEMMA RoundCounts ==
    ASSUME NEW t \in RoundRecord
    PROVE  /\ Len(t.draft_tokens) \in Nat /\ Len(t.acceptance.accepted_tokens) \in Nat
           /\ Len(t.acceptance.rejected_tokens) \in Nat
           /\ Len(t.acceptance.correction_token) \in Nat
           /\ RejectedOrCorrected(t.acceptance) \in Nat
<1>1. t.draft_tokens \in Seq(TokenId) /\ t.acceptance \in AcceptanceResult
  BY DEF RoundRecord
<1>2. /\ t.acceptance.accepted_tokens \in Seq(TokenId)
      /\ t.acceptance.rejected_tokens \in Seq(TokenId)
      /\ t.acceptance.correction_token \in Seq(Token)
  BY <1>1 DEF AcceptanceResult
<1>3. Len(t.draft_tokens) \in Nat /\ Len(t.acceptance.accepted_tokens) \in Nat
  BY <1>1, <1>2, LenProperties
<1>4. /\ Len(t.acceptance.rejected_tokens) \in Nat
      /\ Len(t.acceptance.correction_token) \in Nat
  BY <1>2, LenProperties
<1>5. \A x, y \in Nat : x + y \in Nat
  OBVIOUS
<1>6. RejectedOrCorrected(t.acceptance) \in Nat
  BY <1>4, <1>5 DEF RejectedOrCorrected
<1>7. QED  BY <1>3, <1>4, <1>6

\* One record more is one entry more in each of the lists.
LEMMA CountsAppend ==
    ASSUME NEW ts \in Seq(RoundRecord), NEW t \in RoundRecord
    PROVE  /\ ProposedLens(ts) \in Seq(Nat) /\ AcceptedCounts(ts) \in Seq(Nat)
           /\ RejectedCounts(ts) \in Seq(Nat) /\ CorrectionCounts(ts) \in Seq(Nat)
           /\ ProposedLens(Append(ts, t)) = Append(ProposedLens(ts), Len(t.draft_tokens))
           /\ AcceptedCounts(Append(ts, t))
                = Append(AcceptedCounts(ts), Len(t.acceptance.accepted_tokens))
           /\ RejectedCounts(Append(ts, t))
                = Append(RejectedCounts(ts), RejectedOrCorrected(t.acceptance))
           /\ CorrectionCounts(Append(ts, t))
                = Append(CorrectionCounts(ts), Len(t.acceptance.correction_token))
<1> DEFINE us == Append(ts, t)
           p == [r \in RoundRecord |-> Len(r.draft_tokens)]
           a == [r \in RoundRecord |-> Len(r.acceptance.accepted_tokens)]
           c == [r \in RoundRecord |-> RejectedOrCorrected(r.acceptance)]
           e == [r \in RoundRecord |-> Len(r.acceptance.correction_token)]
<1>1. /\ \A i \in DOMAIN ts : ts[i] \in RoundRecord
      /\ \A i \in DOMAIN us : us[i] \in RoundRecord
  <2>1. us \in Seq(RoundRecord)
    BY AppendProperties
  <2> HIDE DEF us
  <2>2. QED  BY <2>1, ElementOfSeq, LenProperties
<1>2. /\ p \in [RoundRecord -> Nat] /\ a \in [RoundRecord -> Nat]
      /\ c \in [RoundRecord -> Nat] /\ e \in [RoundRecord -> Nat]
  <2>1. p \in [RoundRecord -> Nat]
    BY RoundCounts
  <2>2. a \in [RoundRecord -> Nat]
    BY RoundCounts
  <2>3. c \in [RoundRecord -> Nat]
    BY RoundCounts
  <2>4. e \in [RoundRecord -> Nat]
    BY RoundCounts
  <2>5. QED  BY <2>1, <2>2, <2>3, <2>4
<1>3. /\ ProposedLens(ts) = [i \in DOMAIN ts |-> p[ts[i]]]
      /\ ProposedLens(us) = [i \in DOMAIN us |-> p[us[i]]]
      /\ Len(t.draft_tokens) = p[t]
  <2> HIDE DEF us
  <2>1. QED  BY <1>1 DEF ProposedLens
<1>4. /\ AcceptedCounts(ts) = [i \in DOMAIN ts |-> a[ts[i]]]
      /\ AcceptedCounts(us) = [i \in DOMAIN us |-> a[us[i]]]
      /\ Len(t.acceptance.accepted_tokens) = a[t]
  <2> HIDE DEF us
  <2>1. QED  BY <1>1 DEF AcceptedCounts
<1>5. /\ RejectedCounts(ts) = [i \in DOMAIN ts |-> c[ts[i]]]
      /\ RejectedCounts(us) = [i \in DOMAIN us |-> c[us[i]]]
      /\ RejectedOrCorrected(t.acceptance) = c[t]
  <2> HIDE DEF us
  <2>1. QED  BY <1>1 DEF RejectedCounts
<1>6. /\ CorrectionCounts(ts) = [i \in DOMAIN ts |-> e[ts[i]]]
      /\ CorrectionCounts(us) = [i \in DOMAIN us |-> e[us[i]]]
      /\ Len(t.acceptance.correction_token) = e[t]
  <2> HIDE DEF us
  <2>1. QED  BY <1>1 DEF CorrectionCounts
<1> HIDE DEF p, a, c, e
<1>7. ProposedLens(ts) \in Seq(Nat) /\ ProposedLens(us) = Append(ProposedLens(ts), p[t])
  <2>1. /\ [i \in DOMAIN ts |-> p[ts[i]]] \in Seq(Nat)
        /\ [i \in DOMAIN us |-> p[us[i]]] = Append([i \in DOMAIN ts |-> p[ts[i]]], p[t])
    <3>1. p \in [RoundRecord -> Nat]
      BY <1>2
    <3>2. QED  BY ONLY <3>1, ts \in Seq(RoundRecord), t \in RoundRecord, PointwiseAppend
  <2> HIDE DEF us
  <2>2. QED  BY <1>3, <2>1
<1>8. AcceptedCounts(ts) \in Seq(Nat) /\ AcceptedCounts(us) = Append(AcceptedCounts(ts), a[t])
  <2>1. /\ [i \in DOMAIN ts |-> a[ts[i]]] \in Seq(Nat)
        /\ [i \in DOMAIN us |-> a[us[i]]] = Append([i \in DOMAIN ts |-> a[ts[i]]], a[t])
    <3>1. a \in [RoundRecord -> Nat]
      BY <1>2
    <3>2. QED  BY ONLY <3>1, ts \in Seq(RoundRecord), t \in RoundRecord, PointwiseAppend
  <2> HIDE DEF us
  <2>2. QED  BY <1>4, <2>1
<1>9. RejectedCounts(ts) \in Seq(Nat) /\ RejectedCounts(us) = Append(RejectedCounts(ts), c[t])
  <2>1. /\ [i \in DOMAIN ts |-> c[ts[i]]] \in Seq(Nat)
        /\ [i \in DOMAIN us |-> c[us[i]]] = Append([i \in DOMAIN ts |-> c[ts[i]]], c[t])
    <3>1. c \in [RoundRecord -> Nat]
      BY <1>2
    <3>2. QED  BY ONLY <3>1, ts \in Seq(RoundRecord), t \in RoundRecord, PointwiseAppend
  <2> HIDE DEF us
  <2>2. QED  BY <1>5, <2>1
<1>10. CorrectionCounts(ts) \in Seq(Nat) /\ CorrectionCounts(us) = Append(CorrectionCounts(ts), e[t])
  <2>1. /\ [i \in DOMAIN ts |-> e[ts[i]]] \in Seq(Nat)
        /\ [i \in DOMAIN us |-> e[us[i]]] = Append([i \in DOMAIN ts |-> e[ts[i]]], e[t])
    <3>1. e \in [RoundRecord -> Nat]
      BY <1>2
    <3>2. QED  BY ONLY <3>1, ts \in Seq(RoundRecord), t \in RoundRecord, PointwiseAppend
  <2> HIDE DEF us
  <2>2. QED  BY <1>6, <2>1
<1> HIDE DEF us
<1>11. QED  BY <1>3, <1>4, <1>5, <1>6, <1>7, <1>8, <1>9, <1>10 DEF us

\* Accepted and rejected tokens are those of the draft; a correction is one token.
LEMMA JudgedLengths ==
    ASSUME NEW a, NEW d, Judged(a, d)
    PROVE  /\ Len(a.accepted_tokens) + Len(a.rejected_tokens) = Len(d)
           /\ Len(a.correction_token) = IF a.correction_token # <<>> THEN 1 ELSE 0
<1> DEFINE v == a.verifier_tokens
           m == MatchLen(d, v)
<1>1. /\ d \in Seq(TokenId) /\ v \in Seq(Token) /\ Answers(v, d)
      /\ a = compute_acceptance(d, v)
  BY DEF Judged
<1>2. Len(v) \in Nat /\ Len(d) \in Nat /\ Len(v) <= Len(d)
  BY <1>1, LenProperties DEF Answers
<1>3. CommonLen(d, v) = Len(v)
  BY <1>2 DEF CommonLen, Smaller
<1>4. d \in Seq(Int) /\ v \in Seq(Int)
  BY <1>1, TokenFacts, SeqMonotonic
<1>5. /\ m \in 0..Len(v) /\ a.accepted_tokens = SubSeq(d, 1, m)
      /\ a.correction_token = IF m < Len(v) THEN <<v[m + 1]>> ELSE <<>>
  <2> HIDE DEF v, m
  <2>1. m = MatchLen(d, v)
    BY DEF m
  <2>2. QED  BY <1>1, <1>4, <2>1, CommittedOfAnswer
<1>6. a.rejected_tokens = IF m < Len(v) \/ Len(v) < Len(d) THEN SubSeq(d, m + 1, Len(d)) ELSE <<>>
  <2> HIDE DEF v
  <2>1. QED  BY <1>1, <1>3 DEF compute_acceptance
<1> HIDE DEF v, m
<1>7. Len(SubSeq(d, 1, m)) = m
  <2>1. \A i \in 1..m : d[i] \in TokenId
    BY <1>1, <1>2, <1>5, ElementOfSeq
  <2>2. QED  BY <1>5, <2>1, SubSeqProperties
<1>8. m < Len(v) \/ Len(v) < Len(d) => Len(SubSeq(d, m + 1, Len(d))) = Len(d) - m
  <2>1. SUFFICES ASSUME m < Len(v) \/ Len(v) < Len(d)
                 PROVE  Len(SubSeq(d, m + 1, Len(d))) = Len(d) - m
    OBVIOUS
  <2>2. \A i \in (m + 1)..Len(d) : d[i] \in TokenId
    BY <1>1, <1>2, <1>5, ElementOfSeq
  <2>3. m + 1 \in Int /\ Len(d) \in Int /\ m + 1 <= Len(d) /\ Len(d) - (m + 1) + 1 = Len(d) - m
    BY <1>2, <1>5, <2>1
  <2>4. QED  BY <2>2, <2>3, SubSeqProperties
<1>9. Len(a.accepted_tokens) + Len(a.rejected_tokens) = Len(d)
  <2>1. CASE m < Len(v) \/ Len(v) < Len(d)
    <3>1. Len(a.accepted_tokens) = m /\ Len(a.rejected_tokens) = Len(d) - m
      BY <1>5, <1>6, <1>7, <1>8, <2>1
    <3>2. m \in Nat /\ Len(d) \in Nat
      BY <1>2, <1>5
    <3> HIDE DEF m
    <3>3. m + (Len(d) - m) = Len(d)
      BY <3>2
    <3>4. QED  BY <3>1, <3>3
  <2>2. CASE ~(m < Len(v) \/ Len(v) < Len(d))
    <3>1. a.rejected_tokens = <<>> /\ m = Len(d)
      BY <1>2, <1>5, <1>6, <2>2
    <3>2. Len(a.rejected_tokens) = 0
      BY <3>1
    <3>3. QED  BY <1>2, <1>5, <1>7, <3>1, <3>2
  <2>3. QED  BY <2>1, <2>2
<1>10. Len(a.correction_token) = IF a.correction_token # <<>> THEN 1 ELSE 0
  <2>1. \A x : Len(<<x>>) = 1 /\ <<x>> # <<>> /\ Len(<<>>) = 0
    OBVIOUS
  <2>2. QED  BY <1>5, <2>1
<1>11. QED  BY <1>9, <1>10

\* What one record more adds to each of the sums.
LEMMA SumsAppend ==
    ASSUME NEW ts \in Seq(RoundRecord), NEW t \in RoundRecord
    PROVE  /\ Total(ProposedLens(ts)) \in Nat
           /\ Total(ProposedLens(Append(ts, t)))
                = Total(ProposedLens(ts)) + Len(t.draft_tokens)
           /\ TallyTotal(Tally(AcceptedCounts(ts))) \in Nat
           /\ TallyTotal(Tally(AcceptedCounts(Append(ts, t))))
                = TallyTotal(Tally(AcceptedCounts(ts))) + Len(t.acceptance.accepted_tokens)
           /\ TallyTotal(Tally(RejectedCounts(ts))) \in Nat
           /\ TallyTotal(Tally(RejectedCounts(Append(ts, t))))
                = TallyTotal(Tally(RejectedCounts(ts))) + RejectedOrCorrected(t.acceptance)
           /\ Cardinality(Places(CorrectionCounts(ts), 1)) \in Nat
           /\ Cardinality(Places(CorrectionCounts(Append(ts, t)), 1))
                = Cardinality(Places(CorrectionCounts(ts), 1))
                    + (IF Len(t.acceptance.correction_token) = 1 THEN 1 ELSE 0)
<1>1. /\ Len(t.draft_tokens) \in Nat /\ Len(t.acceptance.accepted_tokens) \in Nat
      /\ RejectedOrCorrected(t.acceptance) \in Nat
  BY RoundCounts
<1>2. /\ Total(ProposedLens(ts)) \in Nat
      /\ Total(ProposedLens(Append(ts, t)))
           = Total(ProposedLens(ts)) + Len(t.draft_tokens)
  <2> DEFINE p == ProposedLens(ts)
  <2>1. p \in Seq(Nat) /\ ProposedLens(Append(ts, t)) = Append(p, Len(t.draft_tokens))
    BY CountsAppend
  <2> HIDE DEF p
  <2>2. Total(Append(p, Len(t.draft_tokens))) = Total(p) + Len(t.draft_tokens)
    BY <1>1, <2>1, TotalAppend
  <2>3. Total(p) \in Nat
    <3>1. p \in [1..Len(p) -> Nat] /\ 1 \in Int /\ Len(p) \in Int
      BY <2>1, LenProperties
    <3>2. IsFiniteSet(1..Len(p))
      BY <3>1, FS_Interval
    <3>3. QED  BY <3>1, <3>2, TotalType
  <2>4. QED  BY <2>1, <2>2, <2>3 DEF p
<1>3. /\ TallyTotal(Tally(AcceptedCounts(ts))) \in Nat
      /\ TallyTotal(Tally(AcceptedCounts(Append(ts, t))))
           = TallyTotal(Tally(AcceptedCounts(ts))) + Len(t.acceptance.accepted_tokens)
  <2>1. /\ AcceptedCounts(ts) \in Seq(Nat)
        /\ AcceptedCounts(Append(ts, t))
             = Append(AcceptedCounts(ts), Len(t.acceptance.accepted_tokens))
    BY CountsAppend
  <2>2. QED  BY <1>1, <2>1, TallyAppend
<1>4. /\ TallyTotal(Tally(RejectedCounts(ts))) \in Nat
      /\ TallyTotal(Tally(RejectedCounts(Append(ts, t))))
           = TallyTotal(Tally(RejectedCounts(ts))) + RejectedOrCorrected(t.acceptance)
  <2>1. /\ RejectedCounts(ts) \in Seq(Nat)
        /\ RejectedCounts(Append(ts, t))
             = Append(RejectedCounts(ts), RejectedOrCorrected(t.acceptance))
    BY CountsAppend
  <2>2. QED  BY <1>1, <2>1, TallyAppend
<1>5. /\ Cardinality(Places(CorrectionCounts(ts), 1)) \in Nat
      /\ Cardinality(Places(CorrectionCounts(Append(ts, t)), 1))
           = Cardinality(Places(CorrectionCounts(ts), 1))
               + (IF Len(t.acceptance.correction_token) = 1 THEN 1 ELSE 0)
  <2> DEFINE c == CorrectionCounts(ts)
             e == Len(t.acceptance.correction_token)
  <2>1. c \in Seq(Nat) /\ CorrectionCounts(Append(ts, t)) = Append(c, e) /\ e \in Nat
    BY CountsAppend, RoundCounts
  <2> HIDE DEF c, e
  <2>2. /\ Cardinality(Places(c, 1)) \in Nat
        /\ Cardinality(Places(Append(c, e), 1))
             = Cardinality(Places(c, 1)) + (IF e = 1 THEN 1 ELSE 0)
    BY <2>1, PlacesAppend
  <2>3. QED  BY <2>1, <2>2 DEF c, e
<1>6. QED  BY <1>2, <1>3, <1>4, <1>5

\* There are round records.
LEMMA SomeRound == \E t : t \in RoundRecord
<1>1. [ round_idx |-> 0, draft_tokens |-> <<>>, acceptance |-> NoAcceptance,
        full_seq_len_before |-> 0, full_seq_len_after |-> 0 ] \in RoundRecord
  BY NoAcceptanceType DEF RoundRecord
<1>2. QED  BY <1>1

\* Before the first round all sums and totals are zero.
LEMMA SumsStart == ShadowInit => SumsInv /\ CommitsInv
<1> SUFFICES ASSUME ShadowInit
             PROVE  SumsInv /\ CommitsInv
  OBVIOUS
<1>1. /\ result_traces = <<>> /\ pc = "prefill"
      /\ totals.accepted = 0 /\ totals.rejected = 0 /\ totals.corrections = 0
  BY DEF ShadowInit, Init
<1>2. /\ ProposedLens(<<>>) = <<>> /\ AcceptedCounts(<<>>) = <<>>
      /\ RejectedCounts(<<>>) = <<>> /\ Places(CorrectionCounts(<<>>), 1) = {}
  BY DEF ProposedLens, AcceptedCounts, RejectedCounts, CorrectionCounts, Places
<1>3. Cardinality({}) = 0 /\ InFlight = 0
  BY <1>1, FS_EmptySet DEF InFlight
<1>4. SumsInv
  <2>1. /\ Total(ProposedLens(result_traces)) = 0
        /\ TallyTotal(Tally(AcceptedCounts(result_traces))) = 0
        /\ TallyTotal(Tally(RejectedCounts(result_traces))) = 0
        /\ Cardinality(Places(CorrectionCounts(result_traces), 1)) = 0
    <3>1. /\ ProposedLens(result_traces) = <<>> /\ AcceptedCounts(result_traces) = <<>>
          /\ RejectedCounts(result_traces) = <<>>
          /\ Places(CorrectionCounts(result_traces), 1) = {}
      BY <1>1, <1>2
    <3>2. QED  BY <3>1, <1>3, TallyEmpty, Zenon
  <2>2. QED  BY <1>1, <1>3, <2>1 DEF SumsInv
<1>5. CommitsInv
  BY <1>1 DEF CommitsInv
<1>6. QED  BY <1>4, <1>5

\* The steps that neither decide nor end a round leave the sums alone.
LEMMA SumsFrame ==
    ASSUME UNCHANGED <<request, all_generated, result_traces, totals, InFlight>>
    PROVE  (SumsInv => SumsInv') /\ (CommitsInv => CommitsInv')
<1>1. SumsInv => SumsInv'
  BY DEF SumsInv
<1>2. CommitsInv => CommitsInv'
  BY DEF CommitsInv, FullSequence
<1>3. QED  BY <1>1, <1>2

\* A decision counts its correction at once, which the round then has in flight.
LEMMA SumsDecide ==
    ASSUME IInv, RoundsInv, ShadowInv, SumsInv, CommitsInv, OtherStep, Decide
    PROVE  SumsInv' /\ CommitsInv'
<1> DEFINE a == Verified
           v == verifier.tokens
           c == Len(a.correction_token)
<1>1. /\ pc = "decide" /\ acceptance' = a
      /\ totals' = [totals EXCEPT !.corrections = @ + c]
      /\ UNCHANGED <<request, all_generated, result_traces>>
      /\ pc' = IF TruncateAtEos(CommittedBy(a)) = <<>> THEN "round" ELSE "commit"
  BY DEF Decide, OtherStep
<1>2. v \in Seq(Token) /\ TruncateAtEos(CommittedBy(a)) = v
  BY <1>1, DecideFacts
<1>3. a.accepted_tokens \in Seq(TokenId) /\ a.correction_token \in Seq(Token) /\ CommittedBy(a) = v
  <2> HIDE DEF v, a
  <2>1. QED  BY <1>1, <1>2, DecideOutcome DEF a, v
<1>4. v = <<>> => c = 0
  <2>1. a.correction_token # <<>> => a.accepted_tokens \o a.correction_token # <<>>
    <3>1. a.accepted_tokens \in Seq(TokenId) /\ a.correction_token \in Seq(TokenId)
      BY <1>3, TokenFacts, SeqMonotonic
    <3> HIDE DEF a
    <3>2. QED  BY <3>1
  <2>2. QED  BY <2>1, <1>3, EmptySeq DEF CommittedBy
<1>5. /\ totals \in [accepted : Nat, rejected : Nat, corrections : Nat] /\ c \in Nat
  BY <1>3, LenProperties DEF IInv, TypeOK
<1>6. InFlight = 0 /\ InFlight' = c
  BY <1>1, <1>2, <1>4 DEF InFlight
<1>7. /\ totals'.accepted = totals.accepted /\ totals'.rejected = totals.rejected
      /\ totals'.corrections = totals.corrections + c
  BY <1>1, <1>5
<1> HIDE DEF a, v, c
<1>8. SumsInv'
  <2>1. /\ Cardinality(Places(CorrectionCounts(result_traces), 1)) \in Nat
        /\ TallyTotal(Tally(RejectedCounts(result_traces))) \in Nat
    <3>1. \E t : t \in RoundRecord
      BY SomeRound
    <3>2. result_traces \in Seq(RoundRecord)
      BY DEF ShadowInv, RecordsInv
    <3>3. QED  BY <3>1, <3>2, SumsAppend
  <2> DEFINE C == Cardinality(Places(CorrectionCounts(result_traces), 1))
             R == TallyTotal(Tally(RejectedCounts(result_traces)))
             r == totals.rejected
             k == totals.corrections
  <2>2. /\ C \in Nat /\ R \in Nat /\ r \in Nat /\ k \in Nat /\ c \in Nat
        /\ C + 0 = k /\ R + 0 = r + k
    BY <1>5, <1>6, <2>1 DEF SumsInv
  <2>3. C + c = k + c /\ R + c = r + (k + c)
    <3> HIDE DEF C, R, r, k
    <3>1. QED  BY <2>2
  <2>4. QED  BY <1>1, <1>6, <1>7, <2>3 DEF SumsInv
<1>9. CommitsInv'
  BY <1>1 DEF CommitsInv, FullSequence
<1>10. QED  BY <1>8, <1>9

\* The end of a round counts its tokens; its correction is no longer in flight.
LEMMA SumsAlign ==
    ASSUME IInv, RoundsInv, ShadowInv, SumsInv, CommitsInv, AlignTraced
    PROVE  SumsInv' /\ CommitsInv'
<1> DEFINE ts == result_traces
           t == RoundTrace
<1>1. /\ pc = "align" /\ pc' = "notify" /\ request' = request
      /\ ts' = Append(ts, t) /\ ts \in Seq(RoundRecord) /\ t \in RoundRecord
      /\ Judged(acceptance, draft.token_ids)
      /\ t.draft_tokens = draft.token_ids /\ t.acceptance = acceptance
  BY AlignFacts DEF ShadowInv, RecordsInv, RoundTrace
<1>2. /\ totals'.accepted = totals.accepted + Len(acceptance.accepted_tokens)
      /\ totals'.rejected = totals.rejected + Len(acceptance.rejected_tokens)
      /\ totals'.corrections = totals.corrections
      /\ totals \in [accepted : Nat, rejected : Nat, corrections : Nat]
  BY DEF AlignTraced, Align, IInv, TypeOK
<1>3. SumsInv'
  <2> DEFINE P == Total(ProposedLens(ts))
             A == TallyTotal(Tally(AcceptedCounts(ts)))
             R == TallyTotal(Tally(RejectedCounts(ts)))
             C == Cardinality(Places(CorrectionCounts(ts), 1))
             d == Len(draft.token_ids)
             a == Len(acceptance.accepted_tokens)
             r == Len(acceptance.rejected_tokens)
             c == Len(acceptance.correction_token)
             x == totals.accepted
             y == totals.rejected
             z == totals.corrections
  <2>1. /\ P \in Nat /\ A \in Nat /\ R \in Nat /\ C \in Nat
        /\ Total(ProposedLens(ts')) = P + d
        /\ TallyTotal(Tally(AcceptedCounts(ts'))) = A + a
        /\ TallyTotal(Tally(RejectedCounts(ts'))) = R + (r + c)
        /\ Cardinality(Places(CorrectionCounts(ts'), 1))
             = C + (IF c = 1 THEN 1 ELSE 0)
    BY <1>1, SumsAppend DEF RejectedOrCorrected
  <2>2. a + r = d /\ c \in {0, 1}
    BY <1>1, JudgedLengths
  <2>3. d \in Nat /\ a \in Nat /\ r \in Nat /\ c \in Nat
    BY <1>1, RoundCounts
  <2>4. x \in Nat /\ y \in Nat /\ z \in Nat
    BY <1>2
  <2>5. InFlight = c /\ InFlight' = 0
    BY <1>1 DEF InFlight
  <2>6. P = x + y /\ A = x /\ C + c = z /\ R + c = y + z
    BY <2>5 DEF SumsInv
  <2>7. Cardinality(Places(CorrectionCounts(ts'), 1)) = C + c
    BY <2>1, <2>2
  <2> HIDE DEF P, A, R, C, d, a, r, c
  <2>8. /\ totals'.accepted = x + a /\ totals'.rejected = y + r /\ totals'.corrections = z
    BY <1>2 DEF a, r
  <2> HIDE DEF x, y, z
  <2>9. /\ P + d = (x + a) + (y + r)
        /\ A + a = x + a
        /\ (C + c) + 0 = z
        /\ (R + (r + c)) + 0 = (y + r) + z
    <3>1. P \in Nat /\ A \in Nat /\ R \in Nat /\ C \in Nat
      BY <2>1
    <3>2. QED  BY <3>1, <2>2, <2>3, <2>4, <2>6
  <2>10. QED  BY <2>1, <2>5, <2>7, <2>8, <2>9 DEF SumsInv
<1>4. CommitsInv'
  <2>1. PICK n \in Nat : n = Len(ts)
    BY <1>1, LenProperties
  <2>2. /\ Len(ts') = n + 1 /\ ts'[n + 1] = t
        /\ \A i \in 1..n : ts'[i] = ts[i]
    BY <1>1, <2>1, AppendProperties
  <2>3. /\ FullSequence \in Seq(Token) /\ committed \in Seq(Token)
        /\ FullSequence' = FullSequence \o committed
        /\ Len(FullSequence) = Len(request.prompt) + Len(all_generated)
        /\ seq_len = Len(request.prompt) + Len(all_generated) + Len(committed)
    BY AlignFacts
  <2>4. CommittedBy(acceptance) = committed
    BY <1>1 DEF RoundsInv, RoundOutcomeInv
  <2>5. /\ t.full_seq_len_before = Len(FullSequence)
        /\ t.full_seq_len_after = Len(FullSequence) + Len(committed)
    BY <2>3 DEF RoundTrace
  <2>6. SubSeq(FullSequence \o committed, Len(FullSequence) + 1,
               Len(FullSequence) + Len(committed)) = committed
    <3>1. committed # <<>>
      BY AlignFacts, EmptySeq
    <3>2. QED  BY <2>3, <3>1, SuffixOfConcat
  <2>7. ASSUME NEW i \in 1..n
        PROVE  CommittedBy(ts'[i].acceptance) =
                   SubSeq(FullSequence', ts'[i].full_seq_len_before + 1,
                          ts'[i].full_seq_len_after)
    <3>1. /\ ts[i] \in RoundRecord
          /\ ts[i].full_seq_len_before < ts[i].full_seq_len_after
          /\ ts[i].full_seq_len_after <= Len(FullSequence)
      BY <2>1, RecordFacts DEF ShadowInv
    <3>2. CommittedBy(ts[i].acceptance) =
              SubSeq(FullSequence, ts[i].full_seq_len_before + 1, ts[i].full_seq_len_after)
      BY <2>1 DEF CommitsInv
    <3>3. PICK b \in Nat, e \in Nat :
              b = ts[i].full_seq_len_before /\ e = ts[i].full_seq_len_after
      BY <3>1 DEF RoundRecord
    <3>4. SubSeq(FullSequence \o committed, b + 1, e) = SubSeq(FullSequence, b + 1, e)
      <4>1. b + 1 \in Nat \ {0} /\ e <= Len(FullSequence)
        BY <3>1, <3>3
      <4>2. QED  BY <2>3, <3>3, <4>1, PartInConcat
    <3>5. QED  BY <2>2, <2>3, <3>2, <3>3, <3>4
  <2>8. CommittedBy(ts'[n + 1].acceptance) =
            SubSeq(FullSequence', ts'[n + 1].full_seq_len_before + 1,
                   ts'[n + 1].full_seq_len_after)
    BY <1>1, <2>2, <2>3, <2>4, <2>5, <2>6
  <2>9. \A i \in 1..(n + 1) : i \in 1..n \/ i = n + 1
    OBVIOUS
  <2>10. QED  BY <2>2, <2>7, <2>8, <2>9 DEF CommitsInv
<1>5. QED  BY <1>3, <1>4

\* Every step keeps the sums equal to the totals.
LEMMA SumsNext ==
    IInv /\ RoundsInv /\ ShadowInv /\ SumsInv /\ CommitsInv /\ [ShadowNext]_shadow_vars
        => SumsInv' /\ CommitsInv'
<1> SUFFICES ASSUME IInv, RoundsInv, ShadowInv, SumsInv, CommitsInv, [ShadowNext]_shadow_vars
             PROVE  SumsInv' /\ CommitsInv'
  OBVIOUS
<1>1. CASE AlignTraced
  BY <1>1, SumsAlign
<1>2. CASE OtherStep /\ Decide
  BY <1>2, SumsDecide
<1>3. CASE OtherStep /\ ~Decide
  <2>1. UNCHANGED <<request, all_generated, result_traces, totals, acceptance>>
    BY <1>3 DEF OtherStep, Step, Prefill, BeginRound, DraftLast, DraftForward,
         DraftOutOfVocabulary, VerifySpanBatched, BeginVerify, CompareLast, CompareForward,
         Commit, Align, Notify, NotifyRaises, Return, locals, outputs
  <2>2. pc \in {"commit", "align"} <=> pc' \in {"commit", "align"}
    BY <1>3 DEF OtherStep, Step, Prefill, BeginRound, DraftLast, DraftForward,
         DraftOutOfVocabulary, VerifySpanBatched, BeginVerify, CompareLast, CompareForward,
         Commit, Align, Notify, NotifyRaises, Return, AfterDraft
  <2>3. InFlight' = InFlight
    BY <2>1, <2>2 DEF InFlight
  <2>4. QED  BY <2>1, <2>3, SumsFrame
<1>4. CASE NotifyObserved \/ RaisesUnobserved \/ UNCHANGED shadow_vars
  <2>1. UNCHANGED <<request, all_generated, result_traces, totals, InFlight>>
    BY <1>4 DEF NotifyObserved, RaisesUnobserved, Notify, NotifyRaises, InFlight,
         shadow_vars, vars, locals, outputs
  <2>2. QED  BY <2>1, SumsFrame
<1>5. QED  BY <1>1, <1>2, <1>3, <1>4 DEF ShadowNext

\* The totals of the generator are the sums over its records, and each record's
\* round committed what stands between the lengths it reports.
LEMMA SumsInvariance == ShadowSpec => [](SumsInv /\ CommitsInv)
<1>1. ShadowInit /\ [](IInv /\ RoundsInv) /\ [](IInv /\ ShadowInv) /\ [][ShadowNext]_shadow_vars
          => [](SumsInv /\ CommitsInv)
  BY SumsStart, SumsNext, PTL
<1>2. QED  BY <1>1, GeneratorInvariance, ShadowInvariance, PTL DEF ShadowSpec

-----------------------------------------------------------------------------
(* What the panel reports of the proposals *)

\* A round commits the verifier's answer, which matches the draft unless the last
\* token of it corrects the draft.
LEMMA JudgedMatch ==
    ASSUME NEW a, NEW d, Judged(a, d)
    PROVE  PrefixMatch(d, CommittedBy(a)) = <<a.correction_token = <<>> >>
<1> DEFINE v == a.verifier_tokens
           n == Len(v)
<1>1. /\ d \in Seq(TokenId) /\ v \in Seq(Token) /\ Answers(v, d) /\ d # <<>>
      /\ a = compute_acceptance(d, v)
  BY DEF Judged
<1>2. /\ v # <<>> /\ n \in Nat \ {0} /\ Len(d) \in Nat /\ n <= Len(d)
      /\ \A i \in 1..(n - 1) : d[i] = v[i]
      /\ a.correction_token # <<>> <=> d[n] # v[n]
  BY JudgedOutcome DEF Corrected
<1>3. CommittedBy(a) = v
  <2>1. d \in Seq(Int) /\ v \in Seq(Int)
    BY <1>1, TokenFacts, SeqMonotonic
  <2> HIDE DEF v
  <2>2. QED  BY <1>1, <2>1, CommittedOfAnswer
<1> HIDE DEF v, n
<1>4. Len(v) = n /\ Smaller(Len(d), n) = n
  BY <1>2 DEF Smaller, n
<1>5. PrefixMatch(d, v) = <<SubSeq(d, 1, n) = v>>
  BY <1>1, <1>2, <1>4 DEF PrefixMatch
<1>6. CASE d[n] = v[n]
  <2>1. \A i \in 1..n : d[i] = v[i]
    <3>1. \A i \in 1..n : i \in 1..(n - 1) \/ i = n
      BY <1>2
    <3>2. QED  BY <1>2, <1>6, <3>1
  <2>2. SubSeq(d, 1, n) = SubSeq(v, 1, n)
    BY <1>1, <1>2, <1>4, <2>1, SamePrefix
  <2>3. SubSeq(v, 1, n) = v
    BY <1>1, <1>4, SubSeqFull
  <2>4. (SubSeq(d, 1, n) = v) = TRUE /\ (a.correction_token = <<>>) = TRUE
    BY <1>2, <1>6, <2>2, <2>3
  <2>5. QED  BY <1>3, <1>5, <2>4, Zenon
<1>7. CASE d[n] # v[n]
  <2>1. SubSeq(d, 1, n)[n] = d[n]
    <3>1. \A i \in 1..n : d[i] \in TokenId
      BY <1>1, <1>2, ElementOfSeq
    <3>2. QED  BY <1>2, <3>1, SubSeqProperties
  <2>2. (SubSeq(d, 1, n) = v) = FALSE /\ (a.correction_token = <<>>) = FALSE
    BY <1>2, <1>7, <2>1
  <2>3. QED  BY <1>3, <1>5, <2>2, Zenon
<1>8. QED  BY <1>6, <1>7

\* What a round adds to the sequence, cut out of the prefix that ends with it.
LEMMA PartOfPrefix ==
    ASSUME NEW s \in Seq(Token), NEW b \in Nat, NEW e \in Nat, b < e, e <= Len(s)
    PROVE  SubSeq(SubSeq(s, 1, e), b + 1, e) = SubSeq(s, b + 1, e)
<1>1. Len(s) \in Nat
  BY LenProperties
<1>2. /\ 1 \in 1..Len(s) /\ e \in 1..Len(s)
      /\ b + 1 \in 1..(e - 1 + 1) /\ e \in 1..(e - 1 + 1)
      /\ 1 + (b + 1) - 1 = b + 1 /\ 1 + e - 1 = e
  BY <1>1
<1>3. SubSeq(SubSeq(s, 1, e), b + 1, e) = SubSeq(s, 1 + (b + 1) - 1, 1 + e - 1)
  BY <1>2, SubSeqOfSubSeq
<1>4. QED  BY <1>2, <1>3

\* The proposals read from the traces, field by field.
LEMMA ProposalFacts ==
    ASSUME IInv, ShadowInv
    PROVE  LET ps == ProposalsFromTraces(result_traces)
               n == Len(result_traces)
           IN  /\ n \in Nat /\ DOMAIN ps = 1..n /\ DOMAIN result_traces = 1..n /\ Len(ps) = n
               /\ \A i \in 1..n :
                     LET t == result_traces[i]
                     IN  /\ t \in RoundRecord /\ Judged(t.acceptance, t.draft_tokens)
                         /\ ps[i] = RoundLogProposal(t.round_idx, t.draft_tokens,
                                        CommittedBy(t.acceptance),
                                        Len(t.acceptance.accepted_tokens),
                                        RejectedOrCorrected(t.acceptance))
                         /\ ps[i].proposed = t.draft_tokens /\ t.draft_tokens # <<>>
                         /\ ps[i].accepted = Len(t.acceptance.accepted_tokens)
                         /\ ps[i].rejected_or_corrected = RejectedOrCorrected(t.acceptance)
                         /\ ps[i].matched = <<t.acceptance.correction_token = <<>> >>
<1> DEFINE ps == ProposalsFromTraces(result_traces)
           n == Len(result_traces)
<1>1. result_traces \in Seq(RoundRecord) /\ n \in Nat /\ DOMAIN result_traces = 1..n
  BY LenProperties DEF ShadowInv, RecordsInv
<1>2. DOMAIN ps = 1..n /\ Len(ps) = n
  <2>1. DOMAIN ps = 1..n
    BY <1>1 DEF ProposalsFromTraces
  <2>2. QED  BY <1>1, <2>1
<1>3. ASSUME NEW i \in 1..n
      PROVE  LET t == result_traces[i]
             IN  /\ t \in RoundRecord /\ Judged(t.acceptance, t.draft_tokens)
                 /\ ps[i] = RoundLogProposal(t.round_idx, t.draft_tokens,
                                CommittedBy(t.acceptance),
                                Len(t.acceptance.accepted_tokens),
                                RejectedOrCorrected(t.acceptance))
                 /\ ps[i].proposed = t.draft_tokens /\ t.draft_tokens # <<>>
                 /\ ps[i].accepted = Len(t.acceptance.accepted_tokens)
                 /\ ps[i].rejected_or_corrected = RejectedOrCorrected(t.acceptance)
                 /\ ps[i].matched = <<t.acceptance.correction_token = <<>> >>
  <2> DEFINE t == result_traces[i]
             w == CommittedBy(t.acceptance)
  <2>1. t \in RoundRecord /\ Judged(t.acceptance, t.draft_tokens)
    BY RecordFacts DEF ShadowInv, RecordFits
  <2>2. ps[i] = RoundLogProposal(t.round_idx, t.draft_tokens, w,
                    Len(t.acceptance.accepted_tokens), RejectedOrCorrected(t.acceptance))
    BY <1>1 DEF ProposalsFromTraces
  <2>3. t.draft_tokens # <<>>
    BY <2>1 DEF Judged
  <2>4. PrefixMatch(t.draft_tokens, w) = <<t.acceptance.correction_token = <<>> >>
    BY <2>1, JudgedMatch
  <2> HIDE DEF t, w, ps
  <2>5. /\ ps[i].proposed = t.draft_tokens
        /\ ps[i].accepted = Len(t.acceptance.accepted_tokens)
        /\ ps[i].rejected_or_corrected = RejectedOrCorrected(t.acceptance)
        /\ ps[i].matched = PrefixMatch(t.draft_tokens, w)
    BY <2>2 DEF RoundLogProposal
  <2>6. QED  BY <2>1, <2>2, <2>3, <2>4, <2>5, Zenon DEF t, w
<1> HIDE DEF ps, n
<1>4. QED  BY <1>1, <1>2, <1>3 DEF ps, n

\* The snapshots tell of the same proposals as the traces.
LEMMA SnapshotProposals ==
    ASSUME IInv, ShadowInv, CommitsInv, Observed, pc \notin {"notify", "raised"}
    PROVE  ProposalsFromTraces(result_traces) = ProposalsFromSnapshots(snapshots)
<1> DEFINE ps == ProposalsFromTraces(result_traces)
           qs == ProposalsFromSnapshots(snapshots)
           n == Len(result_traces)
<1>1. /\ n \in Nat /\ DOMAIN ps = 1..n
  BY ProposalFacts
<1>2. /\ snapshots \in Seq(Snapshot) /\ Len(snapshots) = n
      /\ \A i \in 1..n : snapshots[i] = SnapshotIn(FullSequence, result_traces[i])
  BY DEF ShadowInv, ObservedInv
<1>3. DOMAIN qs = 1..n /\ DOMAIN snapshots = 1..n
  BY <1>2, LenProperties DEF ProposalsFromSnapshots
<1>4. ASSUME NEW i \in 1..n
      PROVE  ps[i] = qs[i]
  <2> DEFINE t == result_traces[i]
             s == snapshots[i]
  <2>1. ps[i] = RoundLogProposal(t.round_idx, t.draft_tokens, CommittedBy(t.acceptance),
                    Len(t.acceptance.accepted_tokens), RejectedOrCorrected(t.acceptance))
    BY ProposalFacts
  <2>2. qs[i] = RoundLogProposal(s.round_index, s.draft_tokens,
                    SubSeq(s.prefix_after, Len(s.prefix_before) + 1, Len(s.prefix_after)),
                    s.accepted, s.rejected_or_corrected)
    BY <1>3 DEF ProposalsFromSnapshots
  <2>3. s = SnapshotIn(FullSequence, t)
    BY <1>2
  <2>4. Len(s.prefix_before) = t.full_seq_len_before /\ Len(s.prefix_after) = t.full_seq_len_after
    BY <2>3, SnapshotFacts DEF ShadowInv
  <2>5. /\ s.round_index = t.round_idx /\ s.draft_tokens = t.draft_tokens
        /\ s.prefix_after = SubSeq(FullSequence, 1, t.full_seq_len_after)
        /\ s.accepted = Len(t.acceptance.accepted_tokens)
        /\ s.rejected_or_corrected = RejectedOrCorrected(t.acceptance)
    <3> HIDE DEF s, t
    <3>1. QED  BY <2>3 DEF SnapshotIn
  <2>6. /\ t \in RoundRecord /\ FullSequence \in Seq(Token)
        /\ t.full_seq_len_before < t.full_seq_len_after
        /\ t.full_seq_len_after <= Len(FullSequence)
    BY RecordFacts DEF ShadowInv
  <2>7. t.full_seq_len_before \in Nat /\ t.full_seq_len_after \in Nat
    BY <2>6 DEF RoundRecord
  <2>8. CommittedBy(t.acceptance)
            = SubSeq(FullSequence, t.full_seq_len_before + 1, t.full_seq_len_after)
    BY DEF CommitsInv
  <2> HIDE DEF t, s, ps, qs
  <2>9. SubSeq(s.prefix_after, t.full_seq_len_before + 1, t.full_seq_len_after)
            = CommittedBy(t.acceptance)
    BY <2>5, <2>6, <2>7, <2>8, PartOfPrefix
  <2>10. QED  BY <2>1, <2>2, <2>4, <2>5, <2>9
<1>5. ps = [i \in 1..n |-> ps[i]] /\ qs = [i \in 1..n |-> qs[i]]
  BY <1>1, <1>3 DEF ProposalsFromTraces, ProposalsFromSnapshots
<1> HIDE DEF ps, qs
<1>6. ps = qs
  BY <1>4, <1>5
<1>7. QED  BY <1>6 DEF ps, qs

\* The panel's coverage in terms of the sums over the rounds.
LEMMA CoverageFacts ==
    ASSUME IInv, ShadowInv
    PROVE  LET coverage == Coverage(ProposalsFromTraces(result_traces))
           IN  /\ coverage.with_draft = coverage.total_rounds
               /\ coverage.total_proposed_tokens = Total(ProposedLens(result_traces))
               /\ coverage.accepted_counts = Tally(AcceptedCounts(result_traces))
               /\ coverage.rejected_counts = Tally(RejectedCounts(result_traces))
               /\ coverage.prefix_not_match
                    = Cardinality(Places(CorrectionCounts(result_traces), 1))
<1> DEFINE ts == result_traces
           ps == ProposalsFromTraces(ts)
           n == Len(ts)
<1>1. /\ n \in Nat /\ DOMAIN ps = 1..n /\ DOMAIN ts = 1..n /\ Len(ps) = n
  BY ProposalFacts
<1>2. \A i \in 1..n :
         /\ ts[i] \in RoundRecord /\ Judged(ts[i].acceptance, ts[i].draft_tokens)
         /\ ps[i].proposed = ts[i].draft_tokens /\ ts[i].draft_tokens # <<>>
         /\ ps[i].accepted = Len(ts[i].acceptance.accepted_tokens)
         /\ ps[i].rejected_or_corrected = RejectedOrCorrected(ts[i].acceptance)
         /\ ps[i].matched = <<ts[i].acceptance.correction_token = <<>> >>
  BY ProposalFacts
<1> HIDE DEF ps, ts, n
<1>3. Cardinality({i \in DOMAIN ps : ps[i].proposed # <<>>}) = Len(ps)
  <2>1. {i \in DOMAIN ps : ps[i].proposed # <<>>} = 1..n
    BY <1>1, <1>2
  <2>2. Cardinality(1..n) = n
    <3>1. 1 \in Int /\ n \in Int /\ (IF 1 > n THEN 0 ELSE n - 1 + 1) = n
      BY <1>1
    <3>2. QED  BY <3>1, FS_Interval
  <2>3. QED  BY <1>1, <2>1, <2>2
<1>4. MapThenSumSet(LAMBDA i : Len(ps[i].proposed), DOMAIN ps) = Total(ProposedLens(ts))
  <2>1. IsFiniteSet(DOMAIN ps)
    BY <1>1, FS_Interval
  <2>2. \A i \in DOMAIN ps : Len(ps[i].proposed) \in Nat
    BY <1>1, <1>2, RoundCounts
  <2>3. MapThenSumSet(LAMBDA i : Len(ps[i].proposed), DOMAIN ps)
            = Total([i \in DOMAIN ps |-> Len(ps[i].proposed)])
    BY <2>1, <2>2, ProposedTotal
  <2>4. [i \in DOMAIN ps |-> Len(ps[i].proposed)] = ProposedLens(ts)
    BY <1>1, <1>2 DEF ProposedLens
  <2>5. QED  BY <2>3, <2>4
<1>5. [i \in DOMAIN ps |-> ps[i].accepted] = AcceptedCounts(ts)
  BY <1>1, <1>2 DEF AcceptedCounts
<1>6. [i \in DOMAIN ps |-> ps[i].rejected_or_corrected] = RejectedCounts(ts)
  BY <1>1, <1>2 DEF RejectedCounts
<1>7. {i \in DOMAIN ps : ps[i].matched = <<FALSE>>} = Places(CorrectionCounts(ts), 1)
  <2>1. ASSUME NEW i \in 1..n
        PROVE  ps[i].matched = <<FALSE>> <=> CorrectionCounts(ts)[i] = 1
    <3> DEFINE c == ts[i].acceptance.correction_token
    <3>1. Len(c) = IF c # <<>> THEN 1 ELSE 0
      BY <1>2, JudgedLengths
    <3>2. ps[i].matched = <<c = <<>> >>
      BY <1>2
    <3>3. CorrectionCounts(ts)[i] = Len(c)
      BY <1>1 DEF CorrectionCounts
    <3> HIDE DEF c
    <3>4. CASE c = <<>>
      <4>1. ps[i].matched = <<TRUE>>
        <5>1. (c = <<>>) = TRUE
          BY <3>4
        <5>2. QED  BY <3>2, <5>1, Zenon
      <4>2. <<TRUE>> # <<FALSE>>
        OBVIOUS
      <4>3. QED  BY <3>1, <3>3, <3>4, <4>1, <4>2
    <3>5. CASE c # <<>>
      <4>1. ps[i].matched = <<FALSE>>
        <5>1. (c = <<>>) = FALSE
          BY <3>5
        <5>2. QED  BY <3>2, <5>1, Zenon
      <4>2. QED  BY <3>1, <3>3, <3>5, <4>1
    <3>6. QED  BY <3>4, <3>5
  <2>2. DOMAIN CorrectionCounts(ts) = 1..n
    BY <1>1 DEF CorrectionCounts
  <2>3. QED  BY <1>1, <2>1, <2>2 DEF Places
<1>8. QED  BY <1>3, <1>4, <1>5, <1>6, <1>7 DEF Coverage, ps, ts

\* Traces and snapshots tell of the same proposals, a proposal matches what its
\* round committed exactly when the round needed no correction, and the panel's
\* coverage adds up to the generator's totals, however many rounds there were.
THEOREM ProposalsSum == ShadowSpec => []ProposalsAddUp
<1>1. IInv /\ ShadowInv /\ SumsInv /\ CommitsInv => ProposalsAddUp
  <2> SUFFICES ASSUME IInv, ShadowInv, SumsInv, CommitsInv,
                      pc \notin {"notify", "raised", "commit", "align"}
               PROVE  LET ps == ProposalsFromTraces(result_traces)
                          coverage == Coverage(ps)
                      IN  /\ Observed => ps = ProposalsFromSnapshots(snapshots)
                          /\ \A i \in DOMAIN ps :
                                ps[i].matched
                                  = <<result_traces[i].acceptance.correction_token = <<>> >>
                          /\ coverage.with_draft = coverage.total_rounds
                          /\ coverage.total_proposed_tokens = totals.accepted + totals.rejected
                          /\ TallyTotal(coverage.accepted_counts) = totals.accepted
                          /\ coverage.prefix_not_match = totals.corrections
                          /\ TallyTotal(coverage.rejected_counts)
                               = totals.rejected + totals.corrections
    BY DEF ProposalsAddUp
  <2> DEFINE ps == ProposalsFromTraces(result_traces)
             coverage == Coverage(ps)
  <2>1. Observed => ps = ProposalsFromSnapshots(snapshots)
    BY SnapshotProposals
  <2>2. \A i \in DOMAIN ps :
           ps[i].matched = <<result_traces[i].acceptance.correction_token = <<>> >>
    BY ProposalFacts
  <2>3. /\ coverage.with_draft = coverage.total_rounds
        /\ coverage.total_proposed_tokens = Total(ProposedLens(result_traces))
        /\ coverage.accepted_counts = Tally(AcceptedCounts(result_traces))
        /\ coverage.rejected_counts = Tally(RejectedCounts(result_traces))
        /\ coverage.prefix_not_match = Cardinality(Places(CorrectionCounts(result_traces), 1))
    BY CoverageFacts
  <2>4. /\ Total(ProposedLens(result_traces)) = totals.accepted + totals.rejected
        /\ TallyTotal(Tally(AcceptedCounts(result_traces))) = totals.accepted
    BY DEF SumsInv
  <2>5. /\ Cardinality(Places(CorrectionCounts(result_traces), 1)) = totals.corrections
        /\ TallyTotal(Tally(RejectedCounts(result_traces)))
             = totals.rejected + totals.corrections
    <3>1. InFlight = 0
      BY DEF InFlight
    <3>2. /\ result_traces \in Seq(RoundRecord) /\ \E t : t \in RoundRecord
      BY SomeRound DEF ShadowInv, RecordsInv
    <3>3. /\ Cardinality(Places(CorrectionCounts(result_traces), 1)) \in Nat
          /\ TallyTotal(Tally(RejectedCounts(result_traces))) \in Nat
      BY <3>2, SumsAppend
    <3>4. QED  BY <3>1, <3>3 DEF SumsInv
  <2> HIDE DEF ps, coverage
  <2>6. QED  BY <2>1, <2>2, <2>3, <2>4, <2>5 DEF ps, coverage
<1>2. QED  BY <1>1, ShadowInvariance, SumsInvariance, PTL
=============================================================================
