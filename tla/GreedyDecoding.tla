--------------------------- MODULE GreedyDecoding ---------------------------
(***************************************************************************)
(* What greedy decoding promises, whatever program performs it: the output *)
(* only grows, every token of it is the full model's greedy prediction for *)
(* the prompt and the tokens before it, nothing follows EOS, and the       *)
(* budget is never exceeded.  A program may emit several tokens at once.   *)
(*                                                                         *)
(* FullNext(s) is the full-precision model's prediction after the context  *)
(* s: the argmax of the last logits of ModelRuntime.forward, which the     *)
(* source uses only through its value.                                     *)
(***************************************************************************)
EXTENDS Integers, Sequences

CONSTANTS EOS, FullNext(_)

VARIABLES prompt, max_new_tokens, output

vars == <<prompt, max_new_tokens, output>>

\* s is a greedy continuation of the context c, with EOS nowhere but at its end.
Continues(c, s) ==
    \A i \in 1..Len(s) :
        /\ s[i] = FullNext(c \o SubSeq(s, 1, i - 1))
        /\ i < Len(s) => s[i] # EOS

EndsWithEos(s) == s # <<>> /\ s[Len(s)] = EOS

\* Greedy decoding has nothing left to emit.
Complete == Len(output) = max_new_tokens \/ EndsWithEos(output)

IsPrefixOf(s, t) == Len(s) <= Len(t) /\ \A i \in 1..Len(s) : t[i] = s[i]

Init == output = <<>>

Emit ==
    /\ Len(output') \in (Len(output) + 1)..max_new_tokens
    /\ IsPrefixOf(output, output')
    /\ Continues(prompt, output')
    /\ UNCHANGED <<prompt, max_new_tokens>>

Next == Emit

Spec == Init /\ [][Next]_vars

FairSpec == Spec /\ WF_vars(Next)
=============================================================================
