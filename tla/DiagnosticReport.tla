-------------------------- MODULE DiagnosticReport --------------------------
(***************************************************************************)
(* A report of the diagnostics of DivergenceTools.  The panel drivers      *)
(* (run_external_panel, run_phase_d_runtime_probe) go through their cells  *)
(* one by one, each on a prefill of its own, and append what each one      *)
(* says.  The report is what the module docs and comments of the two tools *)
(* speak about.                                                            *)
(***************************************************************************)
EXTENDS DivergenceTools

CONSTANT MaxCells   \* how many cells a report has, a natural number

VARIABLE cells   \* the results appended so far

\* What the report keeps of a cell that has ended; div is the divergence of its
\* two outputs and out what its tool computed.
CellResult ==
    [ tool    |-> tool.name,
      request |-> request,
      full    |-> full_ids,
      div     |-> IF tool.name = "topk" THEN Divergence ELSE <<>>,
      out     |-> tool.out ]

ReportInit == ToolInit /\ cells = <<>>

InCell == (BaselineStep \/ ToolStep) /\ UNCHANGED cells

\* The next cell of the grid is a call like the first: ToolInit'.
NewCell ==
    /\ request' \in [prompt : Prompts, max_new_tokens : MaxNewTokens, baseline : Baselines]
    /\ pc' = "prefill"
    /\ kv' = [c \in CacheId |-> NoCache]
    /\ past_key_values' = "full"
    /\ next_token_id' = 0
    /\ generated_ids' = <<>>
    /\ stopped_on_eos' = FALSE
    /\ tool' = Idle

AppendCell ==
    /\ Len(cells) < MaxCells
    /\ TopkDone \/ CellDone \/ (tool.name = "idle" /\ Finished)
    /\ cells' = Append(cells, CellResult)
    /\ NewCell

ReportEnded == Len(cells) = MaxCells /\ UNCHANGED <<allVars, cells>>

ReportNext ==
    \/ Len(cells) < MaxCells /\ InCell
    \/ AppendCell
    \/ ReportEnded

ReportSpec == ReportInit /\ [][ReportNext]_<<allVars, cells>>

-----------------------------------------------------------------------------
(* Properties *)

\* "Step through tokens 0..div_idx-2 to arrive at the state before div_idx", then
\* "One more step to get logits at position div_idx": the full path's logits are
\* those of the prompt and the tokens before the divergence.
ReadsTheDivergence(cell) ==
    cell.out[1].context = cell.request.prompt \o SubSeq(cell.full, 1, cell.div[1])

\* "simulated compression on copied KV tensors": a cell that compresses nothing
\* decodes from a copy of the prompt's cache, so its tokens are the baseline's.
DecodesFromACopy(cell) ==
    cell.request.baseline = "noop" => cell.out = cell.full

\* What the comments say of the two tools holds of every cell of a report that
\* has both: a capture with tokens to step through, and a probe cell in noop mode.
ToolsDoAsCommented ==
    LET captures == {i \in DOMAIN cells : cells[i].tool = "topk" /\ cells[i].div[1] > 1}
        probes == {i \in DOMAIN cells :
                      cells[i].tool = "cell" /\ cells[i].request.baseline = "noop"}
    IN  captures # {} /\ probes # {} =>
            /\ \A i \in captures : ReadsTheDivergence(cells[i])
            /\ \A i \in probes : DecodesFromACopy(cells[i])
=============================================================================
