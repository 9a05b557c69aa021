----------------------------- MODULE Acceptance -----------------------------
(***************************************************************************)
(* The acceptance rule of exactkv/verification/acceptance.py: which of the *)
(* tokens drafted on the compressed cache survive a comparison with the    *)
(* tokens the full model predicts.                                         *)
(*                                                                         *)
(* An optional value (Python's None or a token) is a sequence of length 0  *)
(* or 1, so the tokens a round commits are accepted_tokens \o correction.  *)
(***************************************************************************)
EXTENDS Integers, Sequences

Smaller(a, b) == IF a <= b THEN a ELSE b

\* zip() stops at the shorter of the two lists.
CommonLen(d, v) == Smaller(Len(d), Len(v))

\* d and v agree on exactly their first m positions.
AgreeOnExactly(d, v, m) ==
    /\ \A i \in 1..m : d[i] = v[i]
    /\ m < CommonLen(d, v) => d[m + 1] # v[m + 1]

MatchLen(d, v) == CHOOSE m \in 0..CommonLen(d, v) : AgreeOnExactly(d, v, m)

compute_acceptance(d, v) ==
    LET m == MatchLen(d, v)
        mismatch == m < CommonLen(d, v)
    IN  [ draft_tokens     |-> d,
          verifier_tokens  |-> IF d = <<>> THEN <<>> ELSE v,
          accepted_tokens  |-> SubSeq(d, 1, m),
          correction_token |-> IF mismatch THEN <<v[m + 1]>> ELSE <<>>,
          rejected_tokens  |-> IF mismatch \/ Len(v) < Len(d)
                               THEN SubSeq(d, m + 1, Len(d)) ELSE <<>>,
          all_matched      |-> ~mismatch /\ Len(v) >= Len(d) ]

\* What a round commits: the accepted prefix, then the correction if there is one.
CommittedBy(a) == a.accepted_tokens \o a.correction_token
=============================================================================
