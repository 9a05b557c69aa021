----------------------------- MODULE KVStorage -----------------------------
(***************************************************************************)
(* The storage backends of exactkv/cache/storage.py.  The file backend     *)
(* keeps an entry in two files and writes or unlinks them one after the    *)
(* other; the process may die, or a write raise, between any two steps.    *)
(* The in-memory backend keeps a reference to the caller's payload.        *)
(*                                                                         *)
(* get, exists and metadata change nothing: they are operators, and the    *)
(* properties say what they answer in every reachable state.  One process  *)
(* uses a backend at a time.  Files written before a crash survive it.     *)
(***************************************************************************)
EXTENDS Integers, Sequences

CONSTANTS
    Handles,        \* the KVStorageHandles in use: [namespace, key, version]
    Payloads,       \* contents of a payload: [data, tensor_count, bytes, summary]
    Objects,        \* the caller's payload objects
    Backends,       \* the kinds of backend a run may use
    MaxFailures,    \* bound on crashes and failed writes
    Missing, Torn   \* no file; a file cut short

-----------------------------------------------------------------------------
(* Metadata *)

\* build_verifier_storage_metadata; summary stands for dtype_summary and shape_summary,
\* which are the text "none" for a payload without tensors.
MetadataOf(p) == [tensor_count |-> p.tensor_count, bytes |-> p.bytes, summary |-> p.summary]
Metadata == {MetadataOf(p) : p \in Payloads}

\* validate_storage_metadata finds no error: it compares counts and bytes only.
Valid(m, p) ==
    /\ m.tensor_count = p.tensor_count
    /\ m.tensor_count > 0 => m.bytes = p.bytes

\* What the in-memory backend keeps of an entry.
Reference == [object : Objects, metadata : Metadata]

Entry == [payload : Payloads, metadata : Metadata]
Nothing == [payload |-> Missing, metadata |-> Missing]

ASSUME StorageConstantsOK ==
    /\ \A h \in Handles :
          h.namespace \in Seq(STRING) /\ h.key \in Seq(STRING) /\ h.version \in Seq(STRING)
    /\ Backends \subseteq {"memory", "file"}
    /\ MaxFailures \in Nat
    /\ Missing # Torn
    /\ {Missing, Torn} \intersect (Payloads \cup Metadata \cup Reference) = {}

-----------------------------------------------------------------------------
VARIABLES
    backend,
    heap,           \* what each payload object holds
    entries,        \* InMemoryKVStorageBackend._entries
    payload_file,   \* the .pt files
    meta_file,      \* the .meta.json files
    op,             \* the put or delete the file backend is in the middle of
    failures,
    attempts,       \* history: the last completed put or delete of a slot, then
                    \* those that were interrupted after it
    touched         \* history: slots whose stored object changed since its put

storage == <<entries, payload_file, meta_file>>
storageVars == <<backend, heap, storage, op, failures, attempts, touched>>

-----------------------------------------------------------------------------
(* Addresses *)

SafeNamespace(ns) == [i \in DOMAIN ns |-> IF ns[i] = "/" THEN "_" ELSE ns[i]]

filename_stem(h) ==
    SafeNamespace(h.namespace) \o <<"__">> \o h.key \o <<"__v">> \o h.version

\* Where a handle's entry is: under its _key in memory, in the files of its stem.
MemoryKey(h) == <<h.namespace, h.key, h.version>>
Slot(h) == IF backend = "memory" THEN MemoryKey(h) ELSE <<filename_stem(h)>>
Slots == {MemoryKey(h) : h \in Handles} \cup {<<filename_stem(h)>> : h \in Handles}

-----------------------------------------------------------------------------
(* Reading *)

exists(h) ==
    IF backend = "memory" THEN entries[Slot(h)] # Missing
    ELSE payload_file[Slot(h)] # Missing /\ meta_file[Slot(h)] # Missing

Answer(result, p, m) == [result |-> result, payload |-> p, metadata |-> m]
Raises(error) == Answer(error, Missing, Missing)

\* The answer of get, or the error it raises: "corrupt" is what torch.load or
\* json.loads raises on a torn file, "invalid" a KVStorageError.
Fault_NoValidationOnLoad(h) ==
    LET p == payload_file[Slot(h)]
        m == meta_file[Slot(h)]
    IN  IF p = Missing \/ m = Missing THEN Raises("not_found")
        ELSE IF Torn \in {p, m} THEN Raises("corrupt") ELSE Answer("ok", p, m)
GetFile(h) ==
    LET p == payload_file[Slot(h)]
        m == meta_file[Slot(h)]
    IN  CASE ~exists(h)       -> Raises("not_found")
          [] exists(h) /\ Torn \in {p, m} -> Raises("corrupt")
          [] OTHER            -> IF Valid(m, p) THEN Answer("ok", p, m) ELSE Raises("invalid")

GetMemory(h) ==
    LET e == entries[Slot(h)]
    IN  IF e = Missing THEN Raises("not_found") ELSE Answer("ok", heap[e.object], e.metadata)

get(h) == IF backend = "memory" THEN GetMemory(h) ELSE GetFile(h)

\* metadata() of the file backend opens only the sidecar.
metadata(h) ==
    IF backend = "memory" THEN GetMemory(h).metadata ELSE meta_file[Slot(h)]

-----------------------------------------------------------------------------
(* put and delete *)

NoSlot == <<>>
Idle == [name |-> "none", slot |-> NoSlot, entry |-> Nothing, step |-> "idle"]

StorageInit ==
    /\ backend \in Backends
    /\ heap \in [Objects -> Payloads]
    /\ entries = [s \in Slots |-> Missing]
    /\ payload_file = [s \in Slots |-> Missing]
    /\ meta_file = [s \in Slots |-> Missing]
    /\ op = Idle
    /\ failures = 0
    /\ attempts = [s \in Slots |-> <<Nothing>>]
    /\ touched = {}

Completed(s, e) == attempts' = [attempts EXCEPT ![s] = <<e>>]
Interrupted(s, e) == attempts' = [attempts EXCEPT ![s] = Append(@, e)]

\* The caller changes the payload object it put, a cache that grows for one.
Mutate(o, p) ==
    /\ op = Idle
    /\ heap[o] # p
    /\ heap' = [heap EXCEPT ![o] = p]
    /\ touched' = touched \cup {s \in Slots : entries[s] # Missing /\ entries[s].object = o}
    /\ UNCHANGED <<backend, storage, op, failures, attempts>>

PutMemory(h, o, m) ==
    /\ backend = "memory"
    /\ Valid(m, heap[o])
    /\ entries' = [entries EXCEPT ![Slot(h)] = [object |-> o, metadata |-> m]]
    /\ touched' = touched \ {Slot(h)}
    /\ Completed(Slot(h), [payload |-> heap[o], metadata |-> m])
    /\ UNCHANGED <<backend, heap, payload_file, meta_file, op, failures>>

\* torch.save and write_text each truncate their file, then fill it.
BeginPut(h, o, m) ==
    /\ backend = "file"
    /\ op = Idle
    /\ Valid(m, heap[o])
    /\ op' = [ name |-> "put", slot |-> Slot(h), step |-> "fill_payload",
               entry |-> [payload |-> heap[o], metadata |-> m] ]
    /\ payload_file' = [payload_file EXCEPT ![Slot(h)] = Torn]
    /\ UNCHANGED <<backend, heap, entries, meta_file, failures, attempts, touched>>

FillPayload ==
    /\ op.step = "fill_payload"
    /\ payload_file' = [payload_file EXCEPT ![op.slot] = op.entry.payload]
    /\ op' = [op EXCEPT !.step = "open_meta"]
    /\ UNCHANGED <<backend, heap, entries, meta_file, failures, attempts, touched>>

OpenMeta ==
    /\ op.step = "open_meta"
    /\ meta_file' = [meta_file EXCEPT ![op.slot] = Torn]
    /\ op' = [op EXCEPT !.step = "fill_meta"]
    /\ UNCHANGED <<backend, heap, entries, payload_file, failures, attempts, touched>>

Fault_FillMetaSkipsIdle ==
    op.step = "fill_meta" /\ op' = [op EXCEPT !.step = "idle"] /\ Completed(op.slot, op.entry)
    /\ meta_file' = [meta_file EXCEPT ![op.slot] = op.entry.metadata]
    /\ UNCHANGED <<backend, heap, entries, payload_file, failures, touched>>
FillMeta ==
    /\ op.step = "fill_meta"
    /\ meta_file' = [meta_file EXCEPT ![op.slot] = op.entry.metadata]
    /\ op' = Idle
    /\ Completed(op.slot, op.entry)
    /\ UNCHANGED <<backend, heap, entries, payload_file, failures, touched>>

DeleteMemory(h) ==
    /\ backend = "memory"
    /\ entries' = [entries EXCEPT ![Slot(h)] = Missing]
    /\ touched' = touched \ {Slot(h)}
    /\ Completed(Slot(h), Nothing)
    /\ UNCHANGED <<backend, heap, payload_file, meta_file, op, failures>>

BeginDelete(h) ==
    /\ backend = "file"
    /\ op = Idle
    /\ payload_file' = [payload_file EXCEPT ![Slot(h)] = Missing]
    /\ op' = [name |-> "delete", slot |-> Slot(h), step |-> "unlink_meta", entry |-> Nothing]
    /\ UNCHANGED <<backend, heap, entries, meta_file, failures, attempts, touched>>

Fault_DeleteKeepsMeta ==
    op.step = "unlink_meta" /\ op' = Idle /\ Completed(op.slot, Nothing)
    /\ UNCHANGED <<backend, heap, storage, failures, touched>>
UnlinkMeta ==
    /\ op.step = "unlink_meta"
    /\ meta_file' = [meta_file EXCEPT ![op.slot] = Missing]
    /\ op' = Idle
    /\ Completed(op.slot, Nothing)
    /\ UNCHANGED <<backend, heap, entries, payload_file, failures, touched>>

\* A write or unlink raises: the operation ends where it is.
WriteFails ==
    /\ op # Idle
    /\ failures < MaxFailures
    /\ failures' = failures + 1
    /\ op' = Idle
    /\ Interrupted(op.slot, op.entry)
    /\ UNCHANGED <<backend, heap, storage, touched>>

\* The process dies and a new one starts on the same directory.
Crash ==
    /\ failures < MaxFailures
    /\ failures' = failures + 1
    /\ op' = Idle
    /\ entries' = [s \in Slots |-> Missing]
    /\ touched' = {}
    /\ CASE backend = "memory" -> attempts' = [s \in Slots |-> <<Nothing>>]
         [] op # Idle          -> Interrupted(op.slot, op.entry)
         [] OTHER              -> UNCHANGED attempts
    /\ UNCHANGED <<backend, heap, payload_file, meta_file>>

\* What goes on below the callers of put and delete.
StorageStep ==
    \/ FillPayload \/ OpenMeta \/ FillMeta \/ UnlinkMeta
    \/ WriteFails \/ Crash
    \/ \E o \in Objects, p \in Payloads : Mutate(o, p)

Delete(h) == DeleteMemory(h) \/ BeginDelete(h)

-----------------------------------------------------------------------------
(* Properties *)

File == {"fill_payload", "open_meta", "fill_meta", "unlink_meta"}

StorageTypeOK ==
    /\ backend \in Backends
    /\ heap \in [Objects -> Payloads]
    /\ entries \in [Slots -> {Missing} \cup Reference]
    /\ payload_file \in [Slots -> {Missing, Torn} \cup Payloads]
    /\ meta_file \in [Slots -> {Missing, Torn} \cup Metadata]
    /\ op = Idle \/ op \in [name : {"put", "delete"}, slot : Slots, step : File,
                            entry : {Nothing} \cup Entry]
    /\ failures \in 0..MaxFailures
    /\ attempts \in [Slots -> Seq({Nothing} \cup Entry)]
    /\ touched \subseteq Slots

\* No put or delete of the slot was interrupted, or is under way.
Settled(s) == Len(attempts[s]) = 1 /\ op.slot # s

\* Unless a put or delete of it was interrupted, a handle reads as its last put or
\* delete left it, the same through get, exists and metadata; the payload too,
\* unless the caller went on changing the object it had put in memory.  A put that
\* completes repairs whatever an interrupted one has left behind.
ReadYourWrites ==
    \A h \in Handles : Settled(Slot(h)) =>
        LET last == attempts[Slot(h)][1]
        IN  /\ exists(h) <=> last # Nothing
            /\ metadata(h) = last.metadata
            /\ get(h).result = IF last = Nothing THEN "not_found" ELSE "ok"
            /\ get(h).metadata = last.metadata
            /\ Slot(h) \notin touched => get(h).payload = last.payload

\* After crashes and failed writes too, what get returns from files is a payload
\* and metadata that were put there, since the last completed put or delete; the
\* metadata may be of an older put than the payload, never of a newer one, and
\* then the two agree on tensor count and bytes.
NeverAheadOfPayload ==
    backend = "file" => \A h \in Handles : get(h).result = "ok" =>
        LET puts == IF op.slot = Slot(h) THEN Append(attempts[Slot(h)], op.entry)
                    ELSE attempts[Slot(h)]
        IN  /\ \E i, j \in 1..Len(puts) :
                  /\ i <= j
                  /\ get(h).metadata = puts[i].metadata
                  /\ get(h).payload = puts[j].payload
            /\ Valid(get(h).metadata, get(h).payload)
=============================================================================
