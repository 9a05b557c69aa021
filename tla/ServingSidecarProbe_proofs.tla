---------------------- MODULE ServingSidecarProbe_proofs ----------------------
(***************************************************************************)
(* Proofs about the sidecar probe, for every model, request and compressor *)
(* that can be attached, and without a bound on the output: what the probe *)
(* counts by replaying the traces is where the generator's rounds ended.   *)
(*                                                                         *)
(* ProbeInv says what the harness holds after each number of traces: the   *)
(* two entries of the probe, both as long as the trace replayed last says. *)
(* Together with the generator's own invariants, which the probe cannot    *)
(* disturb, the lengths at the end are those of the output.  The probe is  *)
(* also one of the harness's callers, so that what is proved of those      *)
(* holds of it: that is why a replay cannot raise.                         *)
(***************************************************************************)
EXTENDS ServingSidecarProbe, ExactKVGenerator_proofs

-----------------------------------------------------------------------------
(* The invariant *)

\* The ids the harness draws for the two caches of a request.
AuthoritativeId == <<"authoritative_full", 1>>
CompressedId == <<"compressed_draft", 2>>

\* The length of the sequence after k rounds, as the traces report it.
EndOf(k) == IF k = 0 THEN Len(request.prompt) ELSE traces[k].seq_len_after

Observation == [ committed_tokens : Nat, authoritative_logical_seq_len : Nat,
                 compressed_logical_seq_len : Nat ]

\* The authoritative entry stands for n tokens, none of them dropped.
AuthoritativeAt(n) ==
    /\ entries[AuthoritativeId].owner = "authoritative_full"
    /\ entries[AuthoritativeId].logical_seq_len = n
    /\ entries[AuthoritativeId].physical_seq_len = n
    /\ entries[AuthoritativeId].retained_logical_positions = <<>>

CompressedAt(n) ==
    /\ entries[CompressedId].owner = "compressed_draft"
    /\ entries[CompressedId].logical_seq_len = n

\* What the harness holds at each stage of the probe.
HarnessInv ==
    /\ stage = "attach" =>
          next_id = 0 /\ DOMAIN entries = {}
    /\ stage = "attach_compressed" =>
          /\ next_id = 1 /\ authoritative_id = AuthoritativeId
          /\ DOMAIN entries = {AuthoritativeId}
          /\ AuthoritativeAt(Len(request.prompt))
    /\ stage \in {"generate", "observe", "finalized"} =>
          /\ authoritative_id = AuthoritativeId /\ compressed_id = CompressedId
          /\ DOMAIN entries = {AuthoritativeId, CompressedId}
          /\ AuthoritativeAt(EndOf(round_idx)) /\ CompressedAt(EndOf(round_idx))

\* Where the replay is.
ReplayInv ==
    /\ stage \in {"attach", "attach_compressed", "generate",
                  "observe", "finalized", "raised"}
    /\ stage \in {"attach", "attach_compressed", "generate"} => observations = <<>>
    /\ stage \in {"observe", "finalized"} => pc = "returned"
    /\ stage = "finalized" => round_idx = Len(traces) /\ probe_pass
    /\ round_idx \in 0..Len(traces) /\ Len(observations) = round_idx
    /\ observations \in Seq(Observation)
    /\ \A i \in 1..Len(observations) :
          /\ observations[i].authoritative_logical_seq_len = traces[i].seq_len_after
          /\ observations[i].compressed_logical_seq_len = traces[i].seq_len_after

ProbeInv == HarnessInv /\ ReplayInv

-----------------------------------------------------------------------------
(* The generator under the probe *)

\* Its own invariants carry over: a step of the probe is one of its steps or
\* leaves it alone.
LEMMA ProbeStepsGenerator ==
    ASSUME ProbeNext \/ UNCHANGED <<vars, harness, probe>>
    PROVE  [Next]_vars
BY DEF ProbeNext, ProbeStep, ProbeEnded, AttachAuthoritative, AttachCompressed, AttachRaises,
       Generate, observe_commit_round, finalize, Next

\* What the generator does under the probe it could have done alone: every theorem
\* about Spec is one about the probed generator too, the exact output among them.
\* (What the probe can do is keep the generator from running at all.)
THEOREM ProbedIsGenerator == ProbeSpec => Spec
<1>1. ProbeInit => Init
  BY DEF ProbeInit
<1>2. [ProbeNext]_<<vars, harness, probe>> => [Next]_vars
  BY ProbeStepsGenerator
<1>3. QED  BY <1>1, <1>2, PTL DEF ProbeSpec, Spec

LEMMA GeneratorUnderProbe == ProbeSpec => [](IInv /\ RoundsInv)
BY ProbedIsGenerator, Invariance, RoundsInvariance, PTL

\* The ends of the rounds that the traces report.
LEMMA EndFacts ==
    ASSUME IInv, RoundsInv
    PROVE  /\ Len(traces) \in Nat /\ Len(request.prompt) \in Nat /\ Len(all_generated) \in Nat
           /\ \A k \in 0..Len(traces) : EndOf(k) \in Nat
           /\ EndOf(Len(traces)) = Len(request.prompt) + Len(all_generated)
           /\ \A k \in 0..(Len(traces) - 1) :
                 /\ CommittedTokens(traces[k + 1]) \in Nat
                 /\ EndOf(k + 1) = EndOf(k) + CommittedTokens(traces[k + 1])
                 /\ EndOf(k + 1) = traces[k + 1].seq_len_after
<1>1. /\ traces \in Seq(VerificationTrace) /\ request.prompt \in Seq(Token)
      /\ all_generated \in Seq(Token)
  BY RequestFacts DEF RoundsInv, TraceInv, IInv, TypeOK
<1>2. Len(traces) \in Nat /\ Len(request.prompt) \in Nat /\ Len(all_generated) \in Nat
  BY <1>1, LenProperties
<1>3. \A i \in 1..Len(traces) :
         /\ traces[i].seq_len_after \in Nat
         /\ Len(traces[i].accepted) \in Nat /\ Len(traces[i].correction) \in Nat
  <2>1. SUFFICES ASSUME NEW i \in 1..Len(traces)
                 PROVE  /\ traces[i].seq_len_after \in Nat
                        /\ Len(traces[i].accepted) \in Nat /\ Len(traces[i].correction) \in Nat
    OBVIOUS
  <2>2. traces[i] \in VerificationTrace
    BY <1>1, ElementOfSeq
  <2>3. /\ traces[i].accepted \in Seq(TokenId) /\ traces[i].correction \in Seq(Token)
        /\ traces[i].seq_len_after \in Nat
    BY <2>2 DEF VerificationTrace
  <2>4. QED  BY <2>3, LenProperties
<1>4. \A k \in 0..Len(traces) : EndOf(k) \in Nat
  BY <1>2, <1>3 DEF EndOf
<1>5. EndOf(Len(traces)) = Len(request.prompt) + Len(all_generated)
  <2>1. traces = <<>> <=> Len(traces) = 0
    BY <1>1, EmptySeq
  <2>2. QED  BY <2>1 DEF EndOf, RoundsInv, TraceInv
<1>6. ASSUME NEW k \in 0..(Len(traces) - 1)
      PROVE  /\ CommittedTokens(traces[k + 1]) \in Nat
             /\ EndOf(k + 1) = EndOf(k) + CommittedTokens(traces[k + 1])
             /\ EndOf(k + 1) = traces[k + 1].seq_len_after
  <2>1. k + 1 \in 1..Len(traces) /\ k \in Nat /\ (k + 1) - 1 = k /\ k + 1 # 0
    BY <1>2
  <2>2. TraceFits(traces[k + 1], IF k + 1 = 1 THEN Len(request.prompt)
                                 ELSE traces[(k + 1) - 1].seq_len_after)
    BY <2>1 DEF RoundsInv, TraceInv
  <2>3. TraceFits(traces[k + 1], EndOf(k))
    BY <2>1, <2>2 DEF EndOf
  <2>4. EndOf(k + 1) = traces[k + 1].seq_len_after
    BY <2>1 DEF EndOf
  <2>5. Len(traces[k + 1].accepted) \in Nat /\ Len(traces[k + 1].correction) \in Nat
    BY <1>3, <2>1
  <2>6. EndOf(k) \in Nat
    BY <1>4, <2>1
  <2>7. CommittedTokens(traces[k + 1]) \in Nat
    <3>1. \A x, y \in Nat : x + y \in Nat
      OBVIOUS
    <3>2. QED  BY <2>5, <3>1 DEF CommittedTokens
  <2>8. EndOf(k + 1) = EndOf(k) + Len(traces[k + 1].accepted) + Len(traces[k + 1].correction)
    <3>1. traces[k + 1].seq_len_after
            = EndOf(k) + Len(traces[k + 1].accepted) + Len(traces[k + 1].correction)
      BY <2>3 DEF TraceFits
    <3>2. QED  BY <3>1, <2>4
  <2>9. EndOf(k + 1) = EndOf(k) + CommittedTokens(traces[k + 1])
    <3>1. \A x, y, z \in Nat : (x + y) + z = x + (y + z)
      OBVIOUS
    <3>2. QED  BY <2>5, <2>6, <2>8, <3>1 DEF CommittedTokens
  <2>10. QED  BY <2>4, <2>7, <2>9
<1>7. QED  BY <1>2, <1>4, <1>5, <1>6

-----------------------------------------------------------------------------
(* The steps of the probe *)

LEMMA ProbeStart == ProbeInit => ProbeInv
<1> SUFFICES ASSUME ProbeInit PROVE ProbeInv
  OBVIOUS
<1>1. /\ stage = "attach" /\ round_idx = 0 /\ observations = <<>> /\ traces = <<>>
      /\ next_id = 0 /\ entries = <<>>
  BY DEF ProbeInit, Init, Harness!Init, outputs
<1>2. <<>> \in Seq(Observation) /\ Len(<<>>) = 0 /\ DOMAIN <<>> = {}
  BY EmptySeq
<1>3. HarnessInv
  BY <1>1, <1>2 DEF HarnessInv
<1>4. ReplayInv
  BY <1>1, <1>2 DEF ReplayInv
<1>5. QED  BY <1>3, <1>4 DEF ProbeInv

LEMMA EntryFields ==
    ASSUME NEW owner, NEW logical, NEW physical, NEW retained
    PROVE  /\ Harness!Entry(owner, logical, physical, retained).owner = owner
           /\ Harness!Entry(owner, logical, physical, retained).logical_seq_len = logical
           /\ Harness!Entry(owner, logical, physical, retained).physical_seq_len = physical
           /\ Harness!Entry(owner, logical, physical, retained).retained_logical_positions
                = retained
BY DEF Harness!Entry

\* A registration adds the entry and leaves the others.
LEMMA RegisteredFacts ==
    ASSUME NEW id, NEW entry, Harness!Registered(id, entry)
    PROVE  /\ DOMAIN entries' = DOMAIN entries \cup {id}
           /\ entries'[id] = entry
           /\ \A i \in DOMAIN entries : i # id => entries'[i] = entries[i]
BY DEF Harness!Registered

LEMMA DifferentIds ==
    AuthoritativeId # CompressedId /\ AuthoritativeId # Harness!NoId /\ CompressedId # Harness!NoId
BY DEF AuthoritativeId, CompressedId, Harness!NoId

LEMMA AttachAuthoritativeInv == ProbeInv /\ AttachAuthoritative => ProbeInv'
<1> SUFFICES ASSUME ProbeInv, AttachAuthoritative PROVE ProbeInv'
  OBVIOUS
<1> DEFINE n == Len(request.prompt)
           entry == Harness!Entry("authoritative_full", n, n, <<>>)
<1>1. /\ stage = "attach" /\ stage' = "attach_compressed"
      /\ UNCHANGED <<request, pc, traces, round_idx, observations, probe_pass>>
      /\ next_id = 0 /\ DOMAIN entries = {}
  BY DEF AttachAuthoritative, ProbeInv, HarnessInv, vars, outputs
<1>2. Harness!RegisterAuthoritative(n, Harness!NoId)
  BY DEF AttachAuthoritative
<1>3. /\ next_id' = 1 /\ authoritative_id' = AuthoritativeId
      /\ Harness!Registered(AuthoritativeId, entry)
  BY <1>1, <1>2 DEF Harness!RegisterAuthoritative, Harness!EntryId, Harness!DrawId, AuthoritativeId
<1>4. DOMAIN entries' = {AuthoritativeId} /\ entries'[AuthoritativeId] = entry
  <2> HIDE DEF entry
  <2>1. QED  BY <1>1, <1>3, RegisteredFacts
<1>5. AuthoritativeAt(n)'
  BY <1>1, <1>4, EntryFields DEF AuthoritativeAt
<1>6. HarnessInv'
  BY <1>1, <1>3, <1>4, <1>5 DEF HarnessInv
<1>7. ReplayInv'
  BY <1>1 DEF ProbeInv, ReplayInv
<1>8. QED  BY <1>6, <1>7 DEF ProbeInv

LEMMA AttachCompressedInv == ProbeInv /\ AttachCompressed => ProbeInv'
<1> SUFFICES ASSUME ProbeInv, AttachCompressed PROVE ProbeInv'
  OBVIOUS
<1> DEFINE n == Len(request.prompt)
<1>1. /\ stage = "attach_compressed" /\ stage' \in {"generate", "raised"}
      /\ UNCHANGED <<request, pc, traces, round_idx, observations, probe_pass>>
      /\ next_id = 1 /\ authoritative_id = AuthoritativeId
      /\ DOMAIN entries = {AuthoritativeId} /\ AuthoritativeAt(n)
      /\ observations = <<>> /\ Len(observations) = round_idx
  BY DEF AttachCompressed, ProbeInv, HarnessInv, ReplayInv, vars, outputs
<1>2. PICK physical : Harness!RegisterCompressed(n, physical, <<>>, Harness!NoId)
  BY DEF AttachCompressed
<1> DEFINE entry == Harness!Entry("compressed_draft", n, physical,
                                  Harness!Mapping(n, physical, <<>>))
<1>3. /\ compressed_id' = CompressedId /\ authoritative_id' = authoritative_id
      /\ Harness!Registered(CompressedId, entry)
  BY <1>1, <1>2 DEF Harness!RegisterCompressed, Harness!EntryId, CompressedId
<1>4. /\ DOMAIN entries' = {AuthoritativeId, CompressedId} /\ entries'[CompressedId] = entry
      /\ entries'[AuthoritativeId] = entries[AuthoritativeId]
  <2> HIDE DEF entry
  <2>1. QED  BY <1>1, <1>3, RegisteredFacts, DifferentIds
<1>5. AuthoritativeAt(n)'
  BY <1>1, <1>4 DEF AuthoritativeAt
<1>6. CompressedAt(n)'
  BY <1>1, <1>4, EntryFields DEF CompressedAt
<1>7. round_idx = 0
  BY <1>1, EmptySeq
<1>8. EndOf(round_idx)' = n
  BY <1>1, <1>7 DEF EndOf
<1>9. HarnessInv'
  BY <1>1, <1>3, <1>4, <1>5, <1>6, <1>8 DEF HarnessInv
<1>10. ReplayInv'
  BY <1>1 DEF ProbeInv, ReplayInv
<1>11. QED  BY <1>9, <1>10 DEF ProbeInv

LEMMA AttachRaisesInv == ProbeInv /\ AttachRaises => ProbeInv'
<1> SUFFICES ASSUME ProbeInv, AttachRaises PROVE ProbeInv'
  OBVIOUS
<1>1. /\ stage' = "raised"
      /\ UNCHANGED <<request, pc, traces, round_idx, observations, probe_pass>>
  BY DEF AttachRaises, vars, outputs
<1>2. HarnessInv' /\ ReplayInv'
  BY <1>1 DEF ProbeInv, HarnessInv, ReplayInv
<1>3. QED  BY <1>2 DEF ProbeInv

LEMMA GenerateInv == ProbeInv /\ IInv /\ RoundsInv /\ Generate => ProbeInv'
<1> SUFFICES ASSUME ProbeInv, IInv, RoundsInv, Generate PROVE ProbeInv'
  OBVIOUS
<1>1. /\ stage = "generate" /\ Step
      /\ stage' = CASE pc' = "returned" -> "observe"
                    [] pc' = "raised"   -> "raised"
                    [] OTHER            -> "generate"
      /\ UNCHANGED <<entries, authoritative_id, compressed_id, next_id,
                     round_idx, observations, probe_pass>>
  BY DEF Generate, harness
<1>2. request' = request
  BY <1>1 DEF Step, Prefill, BeginRound, DraftLast, DraftForward, DraftOutOfVocabulary,
              VerifySpanBatched, BeginVerify, CompareLast, CompareForward, Decide, Commit,
              Align, Notify, NotifyRaises, Return
<1>3. RoundsInv'
  BY <1>1, RoundsNext DEF Next
<1>4. Len(traces') \in Nat
  <2>1. traces' \in Seq(VerificationTrace)
    BY <1>3 DEF RoundsInv, TraceInv
  <2>2. QED  BY <2>1, LenProperties
<1>5. observations = <<>> /\ round_idx = 0
  BY <1>1, EmptySeq DEF ProbeInv, ReplayInv
<1>6. \/ stage' = "observe" /\ pc' = "returned"
      \/ stage' \in {"generate", "raised"}
  BY <1>1
<1>7. HarnessInv'
  <2>1. /\ authoritative_id = AuthoritativeId /\ compressed_id = CompressedId
        /\ DOMAIN entries = {AuthoritativeId, CompressedId}
        /\ AuthoritativeAt(Len(request.prompt)) /\ CompressedAt(Len(request.prompt))
    BY <1>1, <1>5 DEF ProbeInv, HarnessInv, EndOf
  <2>2. EndOf(round_idx)' = Len(request.prompt)
    BY <1>1, <1>2, <1>5 DEF EndOf
  <2>3. AuthoritativeAt(EndOf(round_idx))' /\ CompressedAt(EndOf(round_idx))'
    BY <1>1, <2>1, <2>2 DEF AuthoritativeAt, CompressedAt
  <2>4. QED  BY <1>1, <1>6, <2>1, <2>3 DEF HarnessInv
<1>8. ReplayInv'
  BY <1>1, <1>4, <1>5, <1>6, EmptySeq DEF ProbeInv, ReplayInv
<1>9. QED  BY <1>7, <1>8 DEF ProbeInv

\* Appending count tokens to all entries: the authoritative one grows in both
\* lengths, the compressed one at least logically.
LEMMA AppendFacts ==
    ASSUME NEW n \in Nat, NEW count \in Nat,
           DOMAIN entries = {AuthoritativeId, CompressedId},
           AuthoritativeAt(n), CompressedAt(n),
           IF count > 0 THEN Harness!AppendCommittedTokens(count) ELSE UNCHANGED harness
    PROVE  /\ UNCHANGED <<authoritative_id, compressed_id, next_id>>
           /\ DOMAIN entries' = {AuthoritativeId, CompressedId}
           /\ AuthoritativeAt(n + count)' /\ CompressedAt(n + count)'
<1>1. CASE count > 0
  <2>1. /\ UNCHANGED <<authoritative_id, compressed_id, next_id>>
        /\ entries' = [id \in DOMAIN entries |-> Harness!Advanced(entries[id], count)]
    BY <1>1 DEF Harness!AppendCommittedTokens
  <2>2. /\ DOMAIN entries' = {AuthoritativeId, CompressedId}
        /\ entries'[AuthoritativeId] = Harness!Advanced(entries[AuthoritativeId], count)
        /\ entries'[CompressedId] = Harness!Advanced(entries[CompressedId], count)
    BY <2>1
  <2>3. AuthoritativeAt(n + count)'
    BY <2>2, EntryFields DEF AuthoritativeAt, Harness!Advanced
  <2>4. CompressedAt(n + count)'
    BY <2>2, EntryFields DEF CompressedAt, Harness!Advanced
  <2>5. QED  BY <2>1, <2>2, <2>3, <2>4
<1>2. CASE count = 0
  <2>1. n + count = n /\ UNCHANGED <<entries, authoritative_id, compressed_id, next_id>>
    BY <1>2 DEF harness
  <2>2. AuthoritativeAt(n)' /\ CompressedAt(n)'
    BY <2>1 DEF AuthoritativeAt, CompressedAt
  <2>3. QED  BY <2>1, <2>2
<1>3. QED  BY <1>1, <1>2

LEMMA ObserveInv == ProbeInv /\ IInv /\ RoundsInv /\ observe_commit_round => ProbeInv'
<1> SUFFICES ASSUME ProbeInv, IInv, RoundsInv, observe_commit_round PROVE ProbeInv'
  OBVIOUS
<1>1. /\ stage = "observe" /\ stage' \in {"observe", "raised"}
      /\ round_idx < Len(traces) /\ round_idx' = round_idx + 1
      /\ UNCHANGED <<request, pc, traces, probe_pass>>
  BY DEF observe_commit_round, vars, outputs
<1>2. /\ pc = "returned" /\ round_idx \in 0..Len(traces) /\ Len(observations) = round_idx
      /\ observations \in Seq(Observation)
      /\ authoritative_id = AuthoritativeId /\ compressed_id = CompressedId
      /\ DOMAIN entries = {AuthoritativeId, CompressedId}
      /\ AuthoritativeAt(EndOf(round_idx)) /\ CompressedAt(EndOf(round_idx))
  BY <1>1 DEF ProbeInv, HarnessInv, ReplayInv
<1>3. /\ Len(traces) \in Nat /\ round_idx \in 0..(Len(traces) - 1)
      /\ CommittedTokens(traces[round_idx + 1]) \in Nat
      /\ EndOf(round_idx + 1) = EndOf(round_idx) + CommittedTokens(traces[round_idx + 1])
      /\ EndOf(round_idx + 1) = traces[round_idx + 1].seq_len_after
      /\ EndOf(round_idx) \in Nat
  <2>1. Len(traces) \in Nat
    BY EndFacts
  <2>2. round_idx \in 0..(Len(traces) - 1)
    BY <1>1, <1>2, <2>1
  <2>3. QED  BY <1>2, <2>1, <2>2, EndFacts
<1>4. PICK n \in Nat : n = EndOf(round_idx)
  BY <1>3
<1>5. PICK count \in Nat : count = CommittedTokens(traces[round_idx + 1])
  BY <1>3
<1> DEFINE record == [ committed_tokens |-> count,
                       authoritative_logical_seq_len |-> entries'[authoritative_id].logical_seq_len,
                       compressed_logical_seq_len |-> entries'[compressed_id].logical_seq_len ]
<1>6. /\ IF count > 0 THEN Harness!AppendCommittedTokens(count) ELSE UNCHANGED harness
      /\ observations' = Append(observations, record)
  BY <1>5 DEF observe_commit_round
<1>7. /\ UNCHANGED <<authoritative_id, compressed_id, next_id>>
      /\ DOMAIN entries' = {AuthoritativeId, CompressedId}
      /\ AuthoritativeAt(n + count)' /\ CompressedAt(n + count)'
  <2> HIDE DEF record
  <2>1. AuthoritativeAt(n) /\ CompressedAt(n)
    BY <1>2, <1>4
  <2>2. QED  BY <1>2, <1>6, <2>1, AppendFacts
<1>8. n + count = traces[round_idx + 1].seq_len_after /\ n + count \in Nat
  BY <1>3, <1>4, <1>5
<1>9. EndOf(round_idx)' = n + count
  <2>1. round_idx' = round_idx + 1 /\ round_idx' # 0
    BY <1>1, <1>2
  <2>2. QED  BY <1>1, <1>8, <2>1 DEF EndOf
<1>10. HarnessInv'
  <2> HIDE DEF record
  <2>1. AuthoritativeAt(EndOf(round_idx))' /\ CompressedAt(EndOf(round_idx))'
    BY <1>7, <1>9 DEF AuthoritativeAt, CompressedAt
  <2>2. QED  BY <1>1, <1>2, <1>7, <2>1 DEF HarnessInv
<1>11. /\ record \in Observation
       /\ record.authoritative_logical_seq_len = n + count
       /\ record.compressed_logical_seq_len = n + count
  BY <1>2, <1>7, <1>8 DEF AuthoritativeAt, CompressedAt, Observation
<1>12. /\ observations' \in Seq(Observation) /\ Len(observations') = round_idx + 1
       /\ \A i \in 1..round_idx : observations'[i] = observations[i]
       /\ observations'[round_idx + 1] = record
  <2> HIDE DEF record
  <2>1. QED  BY <1>2, <1>6, <1>11, AppendProperties
<1>13. ASSUME NEW i \in 1..Len(observations')
       PROVE  /\ observations'[i].authoritative_logical_seq_len = traces[i].seq_len_after
              /\ observations'[i].compressed_logical_seq_len = traces[i].seq_len_after
  <2> HIDE DEF record
  <2>1. i \in 1..(round_idx + 1)
    BY <1>12
  <2>2. CASE i \in 1..round_idx
    <3>1. /\ observations[i].authoritative_logical_seq_len = traces[i].seq_len_after
          /\ observations[i].compressed_logical_seq_len = traces[i].seq_len_after
      BY <1>2, <2>2 DEF ProbeInv, ReplayInv
    <3>2. QED  BY <3>1, <1>12, <2>2
  <2>3. CASE i = round_idx + 1
    BY <1>8, <1>11, <1>12, <2>3
  <2>4. QED  BY <1>2, <1>3, <2>1, <2>2, <2>3
<1>14. round_idx' \in 0..Len(traces')
  BY <1>1, <1>2, <1>3
<1>15. ReplayInv'
  <2> HIDE DEF record
  <2>1. QED  BY <1>1, <1>2, <1>12, <1>13, <1>14 DEF ReplayInv
<1>16. QED  BY <1>10, <1>15 DEF ProbeInv

LEMMA FinalizeInv == ProbeInv /\ finalize => ProbeInv'
<1> SUFFICES ASSUME ProbeInv, finalize PROVE ProbeInv'
  OBVIOUS
<1>1. /\ stage = "observe" /\ stage' = "finalized" /\ round_idx = Len(traces)
      /\ UNCHANGED <<request, pc, traces, entries, authoritative_id, compressed_id, next_id,
                     round_idx, observations>>
  BY DEF finalize, vars, outputs, harness
<1>2. /\ authoritative_id = AuthoritativeId /\ compressed_id = CompressedId
      /\ DOMAIN entries = {AuthoritativeId, CompressedId}
      /\ AuthoritativeAt(EndOf(round_idx)) /\ CompressedAt(EndOf(round_idx))
  BY <1>1 DEF ProbeInv, HarnessInv
<1>3. ~Harness!LengthsDiffer
  BY <1>2 DEF Harness!LengthsDiffer, AuthoritativeAt, CompressedAt
<1>4. \E id \in DOMAIN entries : entries[id].owner = "compressed_draft"
  BY <1>2 DEF CompressedAt
<1>5. probe_pass' = TRUE
  <2>1. probe_pass' = /\ authoritative_id # Harness!NoId
                      /\ compressed_id # Harness!NoId
                      /\ authoritative_id # compressed_id
                      /\ \E id \in DOMAIN entries : entries[id].owner = "compressed_draft"
                      /\ ~Harness!LengthsDiffer
    BY DEF finalize
  <2>2. QED  BY <2>1, <1>2, <1>3, <1>4, DifferentIds
<1>6. EndOf(round_idx)' = EndOf(round_idx)
  BY <1>1 DEF EndOf
<1>7. HarnessInv'
  BY <1>1, <1>2, <1>6 DEF HarnessInv, AuthoritativeAt, CompressedAt
<1>8. ReplayInv'
  BY <1>1, <1>5 DEF ProbeInv, ReplayInv
<1>9. QED  BY <1>7, <1>8 DEF ProbeInv

LEMMA ProbeStutterInv == ProbeInv /\ UNCHANGED <<vars, harness, probe>> => ProbeInv'
<1> SUFFICES ASSUME ProbeInv, UNCHANGED <<vars, harness, probe>> PROVE ProbeInv'
  OBVIOUS
<1>1. UNCHANGED <<request, pc, traces, entries, authoritative_id, compressed_id, next_id,
                  stage, round_idx, observations, probe_pass>>
  BY DEF vars, outputs, harness, probe
<1>2. HarnessInv'
  BY <1>1 DEF ProbeInv, HarnessInv, AuthoritativeAt, CompressedAt, EndOf
<1>3. ReplayInv'
  BY <1>1 DEF ProbeInv, ReplayInv
<1>4. QED  BY <1>2, <1>3 DEF ProbeInv

LEMMA ProbeNextInv ==
    ProbeInv /\ IInv /\ RoundsInv /\ [ProbeNext]_<<vars, harness, probe>> => ProbeInv'
<1> SUFFICES ASSUME ProbeInv, IInv, RoundsInv, [ProbeNext]_<<vars, harness, probe>>
             PROVE  ProbeInv'
  OBVIOUS
<1>1. CASE ProbeStep
  BY <1>1, AttachAuthoritativeInv, AttachCompressedInv, AttachRaisesInv, GenerateInv,
     ObserveInv, FinalizeInv DEF ProbeStep
<1>2. CASE ProbeEnded \/ UNCHANGED <<vars, harness, probe>>
  BY <1>2, ProbeStutterInv DEF ProbeEnded
<1>3. QED  BY <1>1, <1>2 DEF ProbeNext

-----------------------------------------------------------------------------
(* The theorems *)

\* ProbeInv holds throughout the run of the probe, with the generator's invariants.
THEOREM ProbeInvariance == ProbeSpec => [](ProbeInv /\ IInv /\ RoundsInv)
<1>1. ProbeInit /\ [](IInv /\ RoundsInv) /\ [][ProbeNext]_<<vars, harness, probe>>
        => []ProbeInv
  <2>1. ProbeInit => ProbeInv
    BY ProbeStart
  <2>2. ProbeInv /\ (IInv /\ RoundsInv) /\ [ProbeNext]_<<vars, harness, probe>> => ProbeInv'
    BY ProbeNextInv
  <2>3. QED  BY <2>1, <2>2, PTL
<1>2. QED  BY <1>1, GeneratorUnderProbe, PTL DEF ProbeSpec

-----------------------------------------------------------------------------
(* The probe as a caller of the harness *)

\* The harness, called with any lengths and no ids or mappings of the caller's
\* own, and what is proved of it.
Caller == INSTANCE ServingCacheLifecycle_proofs
          WITH Lengths <- Nat, Retentions <- {}, ExplicitIds <- {},
               Counts <- Nat \ {0}, MaxId <- 2

LEMMA CallerOK == Caller!HarnessOK
BY BlockSizeOK DEF Caller!HarnessOK

\* The operators of the harness do not depend on who calls it.
LEMMA SameOperators ==
    /\ Harness!NoId = Caller!NoId
    /\ \A n : Harness!RegisterAuthoritative(n, Harness!NoId)
                => Caller!RegisterAuthoritative(n, Caller!NoId)
    /\ \A n, k : Harness!RegisterCompressed(n, k, <<>>, Harness!NoId)
                   => Caller!RegisterCompressed(n, k, <<>>, Caller!NoId)
    /\ \A n, k : Harness!CompressedRaises(n, k, <<>>) => Caller!CompressedRaises(n, k, <<>>)
    /\ \A c : Harness!AppendCommittedTokens(c) => Caller!AppendCommittedTokens(c)
<1>1. Harness!NoId = Caller!NoId
  BY DEF Harness!NoId, Caller!NoId
<1>2. ASSUME NEW n, Harness!RegisterAuthoritative(n, Harness!NoId)
      PROVE  Caller!RegisterAuthoritative(n, Caller!NoId)
  BY <1>2 DEF Harness!RegisterAuthoritative, Harness!EntryId, Harness!Clashes, Harness!DrawId,
              Harness!Registered, Harness!Entry, Harness!build_blocks, Harness!AtMost,
              Harness!NoId,
              Caller!RegisterAuthoritative, Caller!EntryId, Caller!Clashes, Caller!DrawId,
              Caller!Registered, Caller!Entry, Caller!build_blocks, Caller!AtMost,
              Caller!NoId
<1>3. ASSUME NEW n, NEW k, Harness!RegisterCompressed(n, k, <<>>, Harness!NoId)
      PROVE  Caller!RegisterCompressed(n, k, <<>>, Caller!NoId)
  BY <1>3 DEF Harness!RegisterCompressed, Harness!EntryId, Harness!Clashes, Harness!DrawId,
              Harness!Registered, Harness!Entry, Harness!build_blocks, Harness!AtMost,
              Harness!NoId, Harness!Mapping, Harness!Registrable, Harness!Mapped,
              Caller!RegisterCompressed, Caller!EntryId, Caller!Clashes, Caller!DrawId,
              Caller!Registered, Caller!Entry, Caller!build_blocks, Caller!AtMost,
              Caller!NoId, Caller!Mapping, Caller!Registrable, Caller!Mapped
<1>4. ASSUME NEW n, NEW k, Harness!CompressedRaises(n, k, <<>>)
      PROVE  Caller!CompressedRaises(n, k, <<>>)
  BY <1>4 DEF Harness!CompressedRaises, Harness!EntryId, Harness!Clashes, Harness!DrawId,
              Harness!NoId, Harness!Registrable, Harness!Mapped,
              Caller!CompressedRaises, Caller!EntryId, Caller!Clashes, Caller!DrawId,
              Caller!NoId, Caller!Registrable, Caller!Mapped
<1>5. ASSUME NEW c, Harness!AppendCommittedTokens(c)
      PROVE  Caller!AppendCommittedTokens(c)
  BY <1>5 DEF Harness!AppendCommittedTokens, Harness!Advanced, Harness!Entry,
              Harness!build_blocks, Harness!AtMost,
              Caller!AppendCommittedTokens, Caller!Advanced, Caller!Entry,
              Caller!build_blocks, Caller!AtMost
<1>6. QED  BY <1>1, <1>2, <1>3, <1>4, <1>5

LEMMA ProbeCallsHarness ==
    ASSUME ProbeInv, IInv, RoundsInv, [ProbeNext]_<<vars, harness, probe>>
    PROVE  [Caller!Next]_(Caller!vars)
<1>1. UNCHANGED harness => UNCHANGED Caller!vars
  BY DEF harness, Caller!vars
<1>2. Len(request.prompt) \in Nat
  BY EndFacts
<1>3. CASE AttachAuthoritative
  <2>1. next_id = 0 /\ Harness!RegisterAuthoritative(Len(request.prompt), Harness!NoId)
    BY <1>3 DEF AttachAuthoritative, ProbeInv, HarnessInv
  <2>2. Caller!NoId \in Caller!MayDraw
    BY <2>1 DEF Caller!MayDraw
  <2>3. QED  BY <1>2, <2>1, <2>2, SameOperators DEF Caller!Next
<1>4. CASE AttachCompressed
  <2>1. /\ next_id = 1
        /\ \E k \in InferredPhysical \ {-1} :
              Harness!RegisterCompressed(Len(request.prompt), k, <<>>, Harness!NoId)
    BY <1>4 DEF AttachCompressed, ProbeInv, HarnessInv
  <2>2. Caller!NoId \in Caller!MayDraw
    BY <2>1 DEF Caller!MayDraw
  <2>3. InferredPhysical \ {-1} \subseteq 0..(Len(request.prompt) + 1)
    BY <1>2 DEF InferredPhysical
  <2>4. PICK k \in 0..(Len(request.prompt) + 1) :
            Caller!RegisterCompressed(Len(request.prompt), k, <<>>, Caller!NoId)
    BY <2>1, <2>3, SameOperators
  <2>5. QED  BY <1>2, <2>2, <2>4 DEF Caller!Next
<1>5. CASE AttachRaises
  <2>1. next_id = 1 /\ Caller!MayDraw # {}
    BY <1>5 DEF AttachRaises, ProbeInv, HarnessInv, Caller!MayDraw
  <2>2. PICK k \in 0..(Len(request.prompt) + 1) :
            Caller!CompressedRaises(Len(request.prompt), k, <<>>)
    <3>1. PICK physical \in InferredPhysical :
              \/ physical = -1 /\ Harness!DrawId(Harness!NoId)
                               /\ UNCHANGED <<entries, authoritative_id, compressed_id>>
              \/ Harness!CompressedRaises(Len(request.prompt), physical, <<>>)
      BY <1>5 DEF AttachRaises
    <3>2. ASSUME Harness!DrawId(Harness!NoId),
                 UNCHANGED <<entries, authoritative_id, compressed_id>>
          PROVE  Caller!CompressedRaises(Len(request.prompt), Len(request.prompt) + 1, <<>>)
      <4>1. Caller!DrawId(Caller!NoId)
        BY <3>2 DEF Harness!DrawId, Caller!DrawId, Harness!NoId, Caller!NoId
      <4>2. ~Caller!Registrable(Len(request.prompt), Len(request.prompt) + 1, <<>>)
        BY <1>2 DEF Caller!Registrable
      <4>3. QED  BY <3>2, <4>1, <4>2 DEF Caller!CompressedRaises
    <3>3. ASSUME Harness!CompressedRaises(Len(request.prompt), physical, <<>>), physical # -1
          PROVE  /\ physical \in 0..(Len(request.prompt) + 1)
                 /\ Caller!CompressedRaises(Len(request.prompt), physical, <<>>)
      <4>1. physical \in 0..(Len(request.prompt) + 1)
        BY <1>2, <3>3 DEF InferredPhysical
      <4>2. QED  BY <3>3, <4>1, SameOperators
    <3>4. Len(request.prompt) + 1 \in 0..(Len(request.prompt) + 1)
      BY <1>2
    <3>5. ASSUME Harness!CompressedRaises(Len(request.prompt), physical, <<>>)
          PROVE  /\ Harness!DrawId(Harness!NoId)
                 /\ UNCHANGED <<entries, authoritative_id, compressed_id>>
      BY <3>5 DEF Harness!CompressedRaises
    <3>6. QED  BY <3>1, <3>2, <3>3, <3>4, <3>5
  <2>3. QED  BY <1>2, <2>1, <2>2 DEF Caller!Next
<1>6. CASE Generate \/ finalize \/ ProbeEnded \/ UNCHANGED <<vars, harness, probe>>
  BY <1>1, <1>6 DEF Generate, finalize, ProbeEnded
<1>7. CASE observe_commit_round
  <2> DEFINE count == CommittedTokens(traces[round_idx + 1])
  <2>1. count \in Nat
    <3>1. round_idx \in 0..(Len(traces) - 1)
      <4>1. round_idx < Len(traces) /\ round_idx \in 0..Len(traces) /\ Len(traces) \in Nat
        BY <1>7, EndFacts DEF observe_commit_round, ProbeInv, ReplayInv
      <4>2. QED  BY <4>1
    <3>2. QED  BY <3>1, EndFacts
  <2>2. IF count > 0 THEN Harness!AppendCommittedTokens(count) ELSE UNCHANGED harness
    BY <1>7 DEF observe_commit_round
  <2> HIDE DEF count
  <2>3. CASE count > 0
    <3>1. count \in Nat \ {0} /\ Caller!AppendCommittedTokens(count)
      BY <2>1, <2>2, <2>3, SameOperators
    <3>2. QED  BY <3>1 DEF Caller!Next
  <2>4. CASE ~(count > 0)
    BY <1>1, <2>2, <2>4
  <2>5. QED  BY <2>3, <2>4
<1>8. QED  BY <1>3, <1>4, <1>5, <1>6, <1>7 DEF ProbeNext, ProbeStep

\* What the probe does to the harness is what its callers may do: everything that
\* is proved of the harness alone holds of the probed one.
THEOREM ProbeIsCaller == ProbeSpec => Caller!Spec
<1>1. ProbeInit => Caller!Init
  BY DEF ProbeInit, Harness!Init, Caller!Init, Harness!NoId, Caller!NoId
<1>2. ProbeInv /\ IInv /\ RoundsInv /\ [ProbeNext]_<<vars, harness, probe>>
        => [Caller!Next]_(Caller!vars)
  BY ProbeCallsHarness
<1>3. QED  BY <1>1, <1>2, ProbeInvariance, PTL DEF ProbeSpec, Caller!Spec

\* The block tables of both caches stay right under the probe, appending cannot
\* fail half-way, and only lengths that differ make validate_invariants raise.
LEMMA HarnessUnderProbe ==
    ProbeSpec => [](Caller!BlocksMapEntry /\ Caller!AppendCannotFail /\ Caller!ValidityExplained)
BY ProbeIsCaller, CallerOK, Caller!BlocksMapEveryEntry, Caller!AppendNeverFails,
   Caller!ValidityIsExplained, PTL

-----------------------------------------------------------------------------
(* Where the probe raises *)

LEMMA SameValidity == Caller!invariants_valid' => Harness!invariants_valid'
BY DEF Harness!invariants_valid, Harness!BlocksMalformed, Harness!Oversized,
       Harness!PrunedWithoutMapping, Harness!WrongOwner, Harness!NotSeparate,
       Harness!LengthsDiffer, Harness!NoId,
       Caller!invariants_valid, Caller!BlocksMalformed, Caller!Oversized,
       Caller!PrunedWithoutMapping, Caller!WrongOwner, Caller!NotSeparate,
       Caller!LengthsDiffer, Caller!NoId

\* A replayed round leaves the two lengths equal, and nothing else can be wrong.
LEMMA ObserveDoesNotRaise ==
    ASSUME ProbeInv, IInv, RoundsInv, observe_commit_round, Caller!ValidityExplained'
    PROVE  stage' = "observe"
<1>1. /\ authoritative_id = AuthoritativeId /\ compressed_id = CompressedId
      /\ DOMAIN entries = {AuthoritativeId, CompressedId}
      /\ AuthoritativeAt(EndOf(round_idx)) /\ CompressedAt(EndOf(round_idx))
      /\ round_idx \in 0..Len(traces) /\ round_idx < Len(traces)
  BY DEF observe_commit_round, ProbeInv, HarnessInv, ReplayInv
<1>2. CommittedTokens(traces[round_idx + 1]) \in Nat /\ EndOf(round_idx) \in Nat
  <2>1. Len(traces) \in Nat
    BY EndFacts
  <2>2. round_idx \in 0..(Len(traces) - 1)
    BY <1>1, <2>1
  <2>3. QED  BY <1>1, <2>2, EndFacts
<1>3. PICK n \in Nat, count \in Nat :
         n = EndOf(round_idx) /\ count = CommittedTokens(traces[round_idx + 1])
  BY <1>2
<1>4. IF count > 0 THEN Harness!AppendCommittedTokens(count) ELSE UNCHANGED harness
  BY <1>3 DEF observe_commit_round
<1>5. /\ UNCHANGED <<authoritative_id, compressed_id, next_id>>
      /\ DOMAIN entries' = {AuthoritativeId, CompressedId}
      /\ AuthoritativeAt(n + count)' /\ CompressedAt(n + count)'
  <2>1. AuthoritativeAt(n) /\ CompressedAt(n)
    BY <1>1, <1>3
  <2>2. QED  BY <1>1, <1>4, <2>1, AppendFacts
<1>6. ~Caller!LengthsDiffer'
  BY <1>1, <1>5 DEF Caller!LengthsDiffer, AuthoritativeAt, CompressedAt
<1>7. authoritative_id' # Caller!NoId
  BY <1>1, <1>5, DifferentIds, SameOperators
<1>8. Caller!invariants_valid'
  BY <1>6, <1>7 DEF Caller!ValidityExplained
<1>9. QED  BY <1>8, SameValidity DEF observe_commit_round

RaisedInv ==
    /\ stage \in {"attach", "attach_compressed"} => pc = "prefill"
    /\ stage = "raised" => pc # "returned"

LEMMA RaisedInvariance == ProbeSpec => []RaisedInv
<1>1. ProbeInit => RaisedInv
  BY DEF ProbeInit, Init, RaisedInv
<1>2. RaisedInv /\ (ProbeInv /\ IInv /\ RoundsInv) /\ Caller!ValidityExplained'
      /\ [ProbeNext]_<<vars, harness, probe>> => RaisedInv'
  <2> SUFFICES ASSUME RaisedInv, ProbeInv, IInv, RoundsInv, Caller!ValidityExplained',
                      [ProbeNext]_<<vars, harness, probe>>
               PROVE  RaisedInv'
    OBVIOUS
  <2>1. CASE AttachAuthoritative \/ AttachCompressed \/ AttachRaises
    <3>1. stage \in {"attach", "attach_compressed"} /\ pc' = pc
      BY <2>1 DEF AttachAuthoritative, AttachCompressed, AttachRaises, vars
    <3>2. QED  BY <3>1 DEF RaisedInv
  <2>2. CASE Generate
    BY <2>2 DEF Generate, RaisedInv
  <2>3. CASE observe_commit_round
    BY <2>3, ObserveDoesNotRaise DEF RaisedInv
  <2>4. CASE finalize
    BY <2>4 DEF finalize, RaisedInv
  <2>5. CASE ProbeEnded \/ UNCHANGED <<vars, harness, probe>>
    BY <2>5 DEF ProbeEnded, RaisedInv, vars, probe
  <2>6. QED  BY <2>1, <2>2, <2>3, <2>4, <2>5 DEF ProbeNext, ProbeStep
<1>3. QED  BY <1>1, <1>2, ProbeInvariance, HarnessUnderProbe, PTL DEF ProbeSpec

-----------------------------------------------------------------------------
(* What the probe counts *)

\* The replay arrives where the generator did: every observation stands at the
\* end of its round, the probe passes, and the authoritative cache it kept count
\* of is as long as the prompt with the output.  It cannot raise on the way.
THEOREM Replayed == ProbeSpec => []SidecarCountsOutput
<1>1. ProbeInv /\ IInv /\ RoundsInv /\ RaisedInv => SidecarCountsOutput
  <2> SUFFICES ASSUME ProbeInv, IInv, RoundsInv, RaisedInv PROVE SidecarCountsOutput
    OBVIOUS
  <2>1. \A i \in 1..Len(observations) :
           /\ observations[i].authoritative_logical_seq_len = traces[i].seq_len_after
           /\ observations[i].compressed_logical_seq_len = traces[i].seq_len_after
    BY DEF ProbeInv, ReplayInv
  <2>2. ASSUME stage = "finalized"
        PROVE  /\ probe_pass
               /\ entries[authoritative_id].logical_seq_len
                     = Len(request.prompt) + Len(all_generated)
    <3>1. round_idx = Len(traces) /\ probe_pass
      BY <2>2 DEF ProbeInv, ReplayInv
    <3>2. authoritative_id = AuthoritativeId /\ AuthoritativeAt(EndOf(round_idx))
      BY <2>2 DEF ProbeInv, HarnessInv
    <3>3. EndOf(Len(traces)) = Len(request.prompt) + Len(all_generated)
      BY EndFacts
    <3>4. QED  BY <3>1, <3>2, <3>3 DEF AuthoritativeAt
  <2>3. stage = "raised" => pc # "returned"
    BY DEF RaisedInv
  <2>4. QED  BY <2>1, <2>2, <2>3 DEF SidecarCountsOutput
<1>2. QED  BY <1>1, ProbeInvariance, RaisedInvariance, PTL

\* The length the harness keeps for the authoritative cache exceeds the real
\* cache's by one if the output ends with EOS, and is the same otherwise.
THEOREM Overcount == ProbeSpec => []PhysicalOvercountsEos
<1>1. ProbeInv /\ IInv /\ RoundsInv => PhysicalOvercountsEos
  <2> SUFFICES ASSUME ProbeInv, IInv, RoundsInv, stage = "finalized"
               PROVE  entries[authoritative_id].physical_seq_len =
                         Len(kv[full_state.past_key_values].tokens)
                             + (IF EndsWithEos(all_generated) THEN 1 ELSE 0)
    BY DEF PhysicalOvercountsEos
  <2> DEFINE p == request.prompt
             s == all_generated
  <2>1. pc = "returned" /\ round_idx = Len(traces)
    BY DEF ProbeInv, ReplayInv
  <2>2. entries[authoritative_id].physical_seq_len = EndOf(round_idx)
    BY DEF ProbeInv, HarnessInv, AuthoritativeAt
  <2>3. EndOf(round_idx) = Len(p) + Len(s)
    BY <2>1, EndFacts
  <2>4. p \in Seq(Token) /\ s \in Seq(Token) /\ Len(p) \in Nat /\ Len(s) \in Nat
    BY RequestFacts, LenProperties DEF IInv, TypeOK
  <2>5. full_state.generated_ids = s
    BY <2>1 DEF IInv, RoundInv
  <2>6. kv[full_state.past_key_values].tokens = p \o WithoutEos(s)
    BY <2>1, <2>5 DEF IInv, CacheInv, AuthoritativeCache
  <2>7. /\ WithoutEos(s) \in Seq(Token)
        /\ Len(WithoutEos(s)) + (IF EndsWithEos(s) THEN 1 ELSE 0) = Len(s)
    <3>1. CASE EndsWithEos(s)
      <4>1. Len(s) > 0
        BY <3>1, <2>4, EmptySeq DEF EndsWithEos
      <4>2. \A i \in 1..(Len(s) - 1) : s[i] \in Token
        BY <2>4, ElementOfSeq
      <4>3. /\ SubSeq(s, 1, Len(s) - 1) \in Seq(Token)
            /\ Len(SubSeq(s, 1, Len(s) - 1)) = Len(s) - 1
        <5>1. 1 \in Int /\ Len(s) - 1 \in Int /\ (Len(s) - 1) - 1 + 1 = Len(s) - 1
              /\ 1 <= Len(s)
          BY <4>1, <2>4
        <5> HIDE DEF s
        <5>2. QED  BY <4>2, <2>4, <5>1, SubSeqProperties
      <4>4. WithoutEos(s) = SubSeq(s, 1, Len(s) - 1)
        BY <3>1 DEF WithoutEos
      <4>5. QED  BY <3>1, <4>3, <4>4, <2>4
    <3>2. CASE ~EndsWithEos(s)
      BY <3>2, <2>4 DEF WithoutEos
    <3>3. QED  BY <3>1, <3>2
  <2>8. Len(p \o WithoutEos(s)) = Len(p) + Len(WithoutEos(s))
    BY <2>4, <2>7, ConcatProperties
  <2>9. Len(WithoutEos(s)) \in Nat
    BY <2>7, LenProperties
  <2>10. QED
    <3> HIDE DEF p
    <3>1. Len(kv[full_state.past_key_values].tokens) = Len(p) + Len(WithoutEos(s))
      BY <2>6, <2>8
    <3>2. QED  BY <3>1, <2>2, <2>3, <2>4, <2>7, <2>9
<1>2. QED  BY <1>1, ProbeInvariance, PTL
===============================================================================
