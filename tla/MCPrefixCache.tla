--------------------------- MODULE MCPrefixCache ---------------------------
(***************************************************************************)
(* A small instance of PrefixCache: two model ids that one file name       *)
(* stands for, two tokenizers, two token prefixes; three payloads, two of  *)
(* the same size and different shapes and one without tensors.             *)
(***************************************************************************)
EXTENDS PrefixCache

Identity(model, tokenizer, tokens, summary) ==
    [ model_id |-> model, tokenizer_id |-> tokenizer, prompt_hash |-> "p",
      token_ids_hash |-> tokens, cache_version |-> "1", summary |-> summary ]

MCIdentities == { Identity(<<"a", "/", "b">>, "t1", "x", "row"),
                  Identity(<<"a", "/", "b">>, "t1", "x", "none"),
                  Identity(<<"a", "/", "b">>, "t2", "x", NoSummary),
                  Identity(<<"a", "/", "b">>, "t1", "y", NoSummary),
                  Identity(<<"a", "_", "b">>, "t2", "x", "row") }

MCHandles == {HandleFor(id) : id \in MCIdentities}

Payload(data, n, bytes, summary) ==
    [data |-> data, tensor_count |-> n, bytes |-> bytes, summary |-> summary]

MCPayloads == { Payload("d1", 1, 8, "row"), Payload("d2", 1, 8, "column"),
                Payload("d3", 0, 0, "none") }
=============================================================================
