---------------------------- MODULE PrefixCache ----------------------------
(***************************************************************************)
(* LoopbackPrefixCache of exactkv/cache/remote_prefix.py on top of the     *)
(* storage backends: entries addressed by a prefix identity, and the plan  *)
(* that decides whether a stored prefix may be restored.                   *)
(*                                                                         *)
(* Prompt and token hashes are taken to be free of collisions: an identity *)
(* carries what is hashed.                                                 *)
(***************************************************************************)
EXTENDS KVStorage

CONSTANTS
    Identities,     \* [model_id, tokenizer_id, prompt_hash, token_ids_hash,
                    \*  cache_version, summary]; model_id a sequence of characters
    NoSummary       \* dtype_summary and shape_summary empty: not stated

\* _handle_for and PrefixIdentity.storage_key: the tokenizer is no part of it.
HandleFor(id) == [ namespace |-> <<"prefix", "/">> \o id.model_id,
                   key       |-> <<id.prompt_hash, "__", id.token_ids_hash>>,
                   version   |-> <<id.cache_version>> ]

ASSUME IdentitiesOK ==
    /\ \A id \in Identities : id.model_id \in Seq(STRING) /\ HandleFor(id) \in Handles
    /\ \A p \in Payloads : p.summary # NoSummary

VARIABLE stored    \* history: the identity of the last store into each slot

prefixVars == <<storageVars, stored>>

PrefixInit == StorageInit /\ stored = [s \in Slots |-> Missing]

\* store(): the metadata is built from the payload, whatever the identity says of it.
Store(id, o) ==
    LET h == HandleFor(id)
        m == MetadataOf(heap[o])
    IN  /\ PutMemory(h, o, m) \/ BeginPut(h, o, m)
        /\ stored' = [stored EXCEPT ![Slot(h)] = id]

\* delete(), called on the backend.
Discard(id) == Delete(HandleFor(id)) /\ UNCHANGED stored

PrefixNext ==
    \/ \E id \in Identities : (\E o \in Objects : Store(id, o)) \/ Discard(id)
    \/ StorageStep /\ UNCHANGED stored

PrefixSpec == PrefixInit /\ [][PrefixNext]_prefixVars

-----------------------------------------------------------------------------
(* The restore plan *)

\* retrieve() labels the metadata it finds with the identity it was asked for.
retrieve(id) == [identity |-> id, storage_metadata |-> get(HandleFor(id)).metadata]

Stated(a, b) == a # NoSummary /\ b # NoSummary

\* check_prefix_compatibility: the fields that differ.  prefix_token_count follows
\* from the tokens hashed.
Fault_TrustsStoredShape(expected, entry) ==
    {f \in {"model_id", "tokenizer_id", "cache_version", "prompt_hash", "token_ids_hash"} :
        expected[f] # entry.identity[f]}
check_prefix_compatibility(expected, entry) ==
    LET known == entry.identity
        meta == entry.storage_metadata
    IN  {f \in {"model_id", "tokenizer_id", "cache_version", "prompt_hash", "token_ids_hash"} :
            expected[f] # known[f]}
        \cup {f \in {"summary"} : Stated(expected[f], known[f]) /\ expected[f] # known[f]}
        \cup {f \in {"storage_metadata"} :
                 Stated(known.summary, meta.summary) /\ known.summary # meta.summary}

\* build_restore_plan(id, expected): whether restore_allowed; get may raise.
PlanRaises(id) == exists(HandleFor(id)) /\ get(HandleFor(id)).result # "ok"
RestoreAllowed(id, expected) ==
    /\ exists(HandleFor(id))
    /\ ~PlanRaises(id)
    /\ check_prefix_compatibility(expected, retrieve(id)) = {}

-----------------------------------------------------------------------------
(* Properties *)

\* Type correctness, of the storage below it too.
PrefixTypeOK == StorageTypeOK /\ stored \in [Slots -> {Missing} \cup Identities]

Agree(a, b, fields) == \A f \in fields : a[f] = b[f]

\* A restore plan that allows a restore leads to an entry that was stored for the
\* prompt, tokens and cache version expected, and for the very model where entries
\* are in memory; and its payload has the dtypes and shapes expected where the
\* identities state them.  Neither a later store with another shape under the same
\* identity nor a delete leaves a plan that is wrong; a caller that changes what it
\* stored escapes only the last comparison, which is made with the metadata.
PlanFitsPayload ==
    \A id, expected \in Identities :
        LET h == HandleFor(id)
            by == stored[Slot(h)]
        IN  RestoreAllowed(id, expected) /\ Settled(Slot(h)) =>
                /\ Agree(by, expected, {"prompt_hash", "token_ids_hash", "cache_version"})
                /\ backend = "memory" => by.model_id = expected.model_id
                /\ Stated(id.summary, expected.summary) =>
                      /\ get(h).metadata.summary = expected.summary
                      /\ Slot(h) \notin touched => get(h).payload.summary = expected.summary

\* docs/REMOTE_PREFIX_CACHE_SEMANTICS.md, section 8: on a mismatch of model_id, and
\* of tokenizer_id, restore_allowed is False; all the more on a mismatch of both.
\* But a file name stands for several model ids, an address for all tokenizers, and
\* the plan compares the identity expected with the one asked for, never with the
\* one the entry was stored under.
ForeignPrefixBlocked ==
    \A id, expected \in Identities :
        RestoreAllowed(id, expected) =>
            LET by == stored[Slot(HandleFor(id))]
            IN  by.model_id = expected.model_id \/ by.tokenizer_id = expected.tokenizer_id
=============================================================================
