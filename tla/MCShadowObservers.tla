------------------------- MODULE MCShadowObservers -------------------------
(***************************************************************************)
(* Small instances of ShadowObservers: the model of MCExactKVGenerator and *)
(* a shadow replay that is blocked on every third length, by raising where *)
(* the sequence ends in 1, and otherwise is as exact as the full model,    *)
(* but for sequences of even length that end in 1.                         *)
(***************************************************************************)
EXTENDS ShadowObservers

MCFullNext(s) == (2 * s[1] + s[Len(s)] + Len(s) * (Len(s) + s[1])) % VocabSize

Yields(token) == [top1 |-> <<token>>, blocker |-> "none"]
BlockedBy(blocker) == [top1 |-> <<>>, blocker |-> blocker]

MCShadowReplay(s) ==
    CASE Len(s) % 3 = 0 -> BlockedBy(IF s[Len(s)] = 1 THEN "raised" ELSE "returned")
      [] Len(s) % 3 # 0 /\ Len(s) % 2 = 0 /\ s[Len(s)] = 1 ->
            Yields((MCFullNext(s) + 1) % VocabSize)
      [] OTHER -> Yields(MCFullNext(s))

MCPrompts == {<<1>>} \cup {<<a, b>> : a \in Token \ {EOS}, b \in Token}
=============================================================================
