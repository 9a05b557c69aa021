---------------------------- MODULE SharedLemmas ----------------------------
(***************************************************************************)
(* Lemmas that the proofs about several components need: induction over    *)
(* the natural numbers, prefixes of sequences, and what the acceptance     *)
(* rule does with the answer of a verifier.                                *)
(*                                                                         *)
(* NatInduction of the library takes the predicate as an operator, which   *)
(* the backends cannot instantiate, whereas a set of numbers is a value:   *)
(* SetInduction is induction for a set.                                    *)
(***************************************************************************)
EXTENDS Acceptance, SequenceTheorems, FiniteSetTheorems, TLAPS

-----------------------------------------------------------------------------
(* Natural numbers *)

\* A nonempty set of natural numbers has a least element.
LEMMA LeastElement ==
    ASSUME NEW T \in SUBSET Nat, T # {}
    PROVE  \E x \in T : \A y \in T : x <= y
<1> DEFINE I == {0..x : x \in T}
<1>1. I \subseteq FiniteSubsetsOf(Nat)
    <2>1. ASSUME NEW x \in T PROVE 0..x \in SUBSET Nat /\ IsFiniteSet(0..x)
        BY FS_Interval
    <2> QED BY <2>1 DEF FiniteSubsetsOf
<1>2. I # {}
    OBVIOUS
<1>3. \E i \in I : \A j \in I : ~ (<<j, i>> \in StrictSubsetOrdering(Nat))
    <2> HIDE DEF I
    <2> QED BY <1>1, <1>2, FS_StrictSubsetOrderingWellFounded, WFMin
<1>4. PICK x \in T : \A j \in I : ~ (<<j, 0..x>> \in StrictSubsetOrdering(Nat))
    BY <1>3
<1>5. ASSUME NEW y \in T, y < x PROVE FALSE
    <2>1. 0..y \subseteq 0..x /\ 0..y # 0..x
        <3>1. x \in 0..x /\ x \notin 0..y
            BY <1>5
        <3> QED BY <1>5, <3>1
    <2>2. 0..y \in SUBSET Nat /\ 0..x \in SUBSET Nat
        OBVIOUS
    <2>3. <<0..y, 0..x>> \in StrictSubsetOrdering(Nat)
        BY <2>1, <2>2, Zenon DEF StrictSubsetOrdering
    <2> QED BY <1>4, <2>3
<1> QED BY <1>5

\* A set of natural numbers that holds 0 and n + 1 for each n it holds is Nat.
LEMMA SetInduction ==
    ASSUME NEW T \in SUBSET Nat, 0 \in T, \A n \in T : n + 1 \in T
    PROVE  T = Nat
<1> SUFFICES ASSUME Nat \ T # {} PROVE FALSE
    OBVIOUS
<1>1. PICK x \in Nat \ T : \A y \in Nat \ T : x <= y
    BY LeastElement
<1>2. x - 1 \in Nat /\ x - 1 \notin Nat \ T
    BY <1>1
<1> QED BY <1>1, <1>2

-----------------------------------------------------------------------------
(* Sequences *)

\* A prefix of s \o t that reaches into t.
LEMMA PrefixOfConcat ==
    ASSUME NEW S, NEW s \in Seq(S), NEW t \in Seq(S), NEW k \in 0..Len(t)
    PROVE  SubSeq(s \o t, 1, Len(s) + k) = s \o SubSeq(t, 1, k)
<1>1. /\ s \o t \in Seq(S)
      /\ Len(s \o t) = Len(s) + Len(t)
      /\ \A i \in 1..Len(s) + Len(t) :
            (s \o t)[i] = IF i <= Len(s) THEN s[i] ELSE t[i - Len(s)]
  BY ConcatProperties
<1>2. /\ SubSeq(t, 1, k) \in Seq(S)
      /\ Len(SubSeq(t, 1, k)) = k
      /\ \A i \in 1..k : SubSeq(t, 1, k)[i] = t[i]
  <2>1. \A i \in 1..k : t[i] \in S
    BY ElementOfSeq
  <2>2. QED  BY <2>1, SubSeqProperties
<1>3. /\ SubSeq(s \o t, 1, Len(s) + k) \in Seq(S)
      /\ Len(SubSeq(s \o t, 1, Len(s) + k)) = Len(s) + k
      /\ \A i \in 1..Len(s) + k : SubSeq(s \o t, 1, Len(s) + k)[i] = (s \o t)[i]
  <2>1. \A i \in 1..Len(s) + k : (s \o t)[i] \in S
    BY <1>1, ElementOfSeq
  <2>2. QED  BY <2>1, <1>1, SubSeqProperties
<1>4. /\ s \o SubSeq(t, 1, k) \in Seq(S)
      /\ Len(s \o SubSeq(t, 1, k)) = Len(s) + k
      /\ \A i \in 1..Len(s) + k :
            (s \o SubSeq(t, 1, k))[i] = IF i <= Len(s) THEN s[i] ELSE SubSeq(t, 1, k)[i - Len(s)]
  BY <1>2, ConcatProperties
<1>5. ASSUME NEW i \in 1..Len(s) + k
      PROVE  SubSeq(s \o t, 1, Len(s) + k)[i] = (s \o SubSeq(t, 1, k))[i]
  BY <1>1, <1>2, <1>3, <1>4
<1>6. QED  BY <1>3, <1>4, <1>5, SeqEqual

\* A prefix of s \o t that does not reach t.
LEMMA PrefixInConcat ==
    ASSUME NEW S, NEW s \in Seq(S), NEW t \in Seq(S), NEW k \in 0..Len(s)
    PROVE  SubSeq(s \o t, 1, k) = SubSeq(s, 1, k)
<1>1. CASE k = 0
  BY <1>1, SubSeqEmpty
<1>2. CASE k > 0
  BY <1>2, SubSeqOfConcat1
<1>3. QED  BY <1>1, <1>2

\* A prefix one element longer.
LEMMA LongerPrefix ==
    ASSUME NEW S, NEW s \in Seq(S), NEW k \in 1..Len(s)
    PROVE  SubSeq(s, 1, k) = Append(SubSeq(s, 1, k - 1), s[k])
<1>1. SubSeq(s, 1, k) = SubSeq(s, 1, k - 1) \o <<s[k]>>
  BY SubSeqRecursiveSecond
<1>2. SubSeq(s, 1, k - 1) \in Seq(S) /\ s[k] \in S
  BY SubSeqProperties, ElementOfSeq
<1>3. QED  BY <1>1, <1>2, AppendIsConcat

LEMMA ConcatAppend ==
    ASSUME NEW S, NEW s \in Seq(S), NEW t \in Seq(S), NEW e \in S
    PROVE  s \o Append(t, e) = Append(s \o t, e)
<1>1. Append(t, e) = t \o <<e>> /\ <<e>> \in Seq(S)
  BY AppendIsConcat
<1>2. Append(s \o t, e) = (s \o t) \o <<e>>
  BY ConcatProperties, AppendIsConcat
<1>3. QED  BY <1>1, <1>2, ConcatAssociative

\* Two sequences that agree up to k have the same prefix of length k.
LEMMA SamePrefix ==
    ASSUME NEW S, NEW T, NEW s \in Seq(S), NEW t \in Seq(T), NEW k \in Nat,
           k <= Len(s), k <= Len(t), \A i \in 1..k : s[i] = t[i]
    PROVE  SubSeq(s, 1, k) = SubSeq(t, 1, k)
<1> DEFINE U == S \cup T
<1>1. s \in Seq(U) /\ t \in Seq(U)
  BY SeqMonotonic
<1>2. \A i \in 1..k : s[i] \in U /\ t[i] \in U
  BY <1>1, ElementOfSeq
<1>3. /\ SubSeq(s, 1, k) \in Seq(U)
      /\ Len(SubSeq(s, 1, k)) = k
      /\ \A i \in 1..k : SubSeq(s, 1, k)[i] = s[i]
  BY <1>2, SubSeqProperties
<1>4. /\ SubSeq(t, 1, k) \in Seq(U)
      /\ Len(SubSeq(t, 1, k)) = k
      /\ \A i \in 1..k : SubSeq(t, 1, k)[i] = t[i]
  BY <1>2, SubSeqProperties
<1>5. QED  BY <1>3, <1>4, SeqEqual

-----------------------------------------------------------------------------
(* The acceptance rule, on what verify_sequential hands to it *)

\* v is a verifier's answer to the draft d: they match but perhaps at v's end,
\* where the verifier stops, and only a mismatch makes it stop before d's end.
Answers(v, d) ==
    /\ Len(v) <= Len(d)
    /\ \A i \in 1..(Len(v) - 1) : d[i] = v[i]
    /\ d # <<>> => v # <<>> /\ (Len(v) = Len(d) \/ d[Len(v)] # v[Len(v)])

\* The number of tokens accepted: all of v but a mismatch at its end.
LEMMA MatchLenOfAnswer ==
    ASSUME NEW d \in Seq(Int), NEW v \in Seq(Int), Answers(v, d)
    PROVE  MatchLen(d, v) = IF v # <<>> /\ d[Len(v)] # v[Len(v)]
                            THEN Len(v) - 1 ELSE Len(v)
<1> DEFINE m == IF v # <<>> /\ d[Len(v)] # v[Len(v)] THEN Len(v) - 1 ELSE Len(v)
<1>1. /\ Len(v) \in Nat /\ Len(d) \in Nat
      /\ v # <<>> => Len(v) > 0
      /\ v = <<>> => Len(v) = 0
  BY EmptySeq, LenProperties
<1>2. CommonLen(d, v) = Len(v)
  BY <1>1 DEF CommonLen, Smaller, Answers
<1>3. m \in 0..Len(v) /\ AgreeOnExactly(d, v, m)
  BY <1>1, <1>2 DEF AgreeOnExactly, Answers
<1>4. ASSUME NEW k \in 0..Len(v), AgreeOnExactly(d, v, k)
      PROVE  k = m
  BY <1>1, <1>2, <1>3, <1>4 DEF AgreeOnExactly
<1>5. QED  BY <1>2, <1>3, <1>4 DEF MatchLen

\* What a round commits before truncation is exactly the verifier's answer; it
\* accepts every token the draft shares with it, and corrects at most one.
LEMMA CommittedOfAnswer ==
    ASSUME NEW d \in Seq(Int), NEW v \in Seq(Int), Answers(v, d)
    PROVE  LET a == compute_acceptance(d, v)
               m == MatchLen(d, v)
           IN  /\ CommittedBy(a) = v
               /\ m \in 0..Len(v) /\ m <= Len(d) /\ m \in Nat
               /\ a.accepted_tokens = SubSeq(d, 1, m)
               /\ a.correction_token = IF m < Len(v) THEN <<v[m + 1]>> ELSE <<>>
               /\ a.all_matched <=> m = Len(d)
<1> DEFINE m == MatchLen(d, v)
           a == compute_acceptance(d, v)
<1>1. m = IF v # <<>> /\ d[Len(v)] # v[Len(v)] THEN Len(v) - 1 ELSE Len(v)
  BY MatchLenOfAnswer
<1>2. /\ Len(v) \in Nat /\ Len(d) \in Nat
      /\ v # <<>> => Len(v) > 0
      /\ v = <<>> => Len(v) = 0
      /\ CommonLen(d, v) = Len(v)
  BY EmptySeq, LenProperties DEF CommonLen, Smaller, Answers
<1>3. m \in 0..Len(v) /\ m <= Len(d) /\ \A i \in 1..m : d[i] = v[i]
  BY <1>1, <1>2 DEF Answers
<1>4. /\ a.accepted_tokens = SubSeq(d, 1, m)
      /\ a.correction_token = IF m < Len(v) THEN <<v[m + 1]>> ELSE <<>>
  BY <1>2 DEF compute_acceptance
<1>5. a.all_matched <=> m = Len(d)
  <2>1. a.all_matched <=> ~(m < Len(v)) /\ Len(v) >= Len(d)
    BY <1>2 DEF compute_acceptance
  <2> HIDE DEF m, a
  <2>2. QED  BY <2>1, <1>2, <1>3 DEF Answers
<1>6. SubSeq(d, 1, m) = SubSeq(v, 1, m)
  BY <1>2, <1>3, SamePrefix
<1>7. CommittedBy(a) = v
  <2>1. CASE m = Len(v)
    <3>1. SubSeq(v, 1, m) = v
      BY <2>1, SubSeqFull
    <3>2. CommittedBy(a) = v \o <<>>
      <4> HIDE DEF m, a
      <4>1. a.correction_token = <<>>
        BY <2>1, <1>2, <1>4
      <4>2. a.accepted_tokens = v
        BY <3>1, <1>4, <1>6
      <4>3. QED  BY <4>1, <4>2 DEF CommittedBy
    <3>3. QED  BY <3>2, ConcatEmptySeq
  <2>2. CASE m < Len(v)
    <3>1. m + 1 = Len(v)
      BY <1>1, <1>2, <2>2
    <3>2. SubSeq(v, 1, m + 1) = SubSeq(v, 1, (m + 1) - 1) \o <<v[m + 1]>>
      <4> HIDE DEF m
      <4>1. 1 \in 1..Len(v) /\ m + 1 \in 1..Len(v)
        BY <3>1, <1>2, <1>3
      <4>2. QED  BY <4>1, SubSeqRecursiveSecond
    <3>3. QED
      <4> HIDE DEF m, a
      <4>1. (m + 1) - 1 = m
        BY <1>3
      <4>2. QED  BY <2>2, <3>1, <3>2, <4>1, <1>4, <1>6, SubSeqFull DEF CommittedBy
  <2>3. QED  BY <1>2, <1>3, <2>1, <2>2
<1>8. QED  BY <1>2, <1>3, <1>4, <1>5, <1>7
=============================================================================
