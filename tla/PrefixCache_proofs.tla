-------------------------- MODULE PrefixCache_proofs --------------------------
(***************************************************************************)
(* Proofs about the storage backends and the prefix cache on top of them,  *)
(* for any handles, payloads and identities and any number of failures.    *)
(*                                                                         *)
(* The inductive invariant has a part for each backend.  In memory, an     *)
(* entry has the metadata of the last put, and its payload if untouched.  In files, the payload    *)
(* file is the one put i, the metadata file that of put j, with j <= i, of *)
(* the puts since the last that completed, or either is torn; a slot whose *)
(* last put completed has both files of that put.                          *)
(***************************************************************************)
EXTENDS PrefixCache, SequenceTheorems, TLAPS

-----------------------------------------------------------------------------
(* The inductive invariant *)

\* What a put through the prefix cache stores: metadata built from the payload.
GoodEntries == {e \in Entry : e.metadata = MetadataOf(e.payload)} \cup {Nothing}

Puts(s) == IF op.slot = s THEN Append(attempts[s], op.entry) ELSE attempts[s]

HistoryInv ==
    /\ \A s \in Slots : attempts[s] \in Seq(GoodEntries) /\ attempts[s] # <<>>
    /\ op.entry \in GoodEntries
    /\ op.step = "unlink_meta" => op.entry = Nothing

MemoryInv ==
    backend = "memory" =>
        /\ op = Idle
        /\ \A s \in Slots :
              /\ Len(attempts[s]) = 1
              /\ entries[s] = Missing <=> attempts[s][1] = Nothing
              /\ entries[s] # Missing =>
                    /\ attempts[s][1].metadata = entries[s].metadata
                    /\ s \notin touched =>
                          attempts[s][1].payload = heap[entries[s].object]

FileInv ==
    backend = "file" =>
        /\ op.step \in {"open_meta", "fill_meta", "unlink_meta"} =>
              payload_file[op.slot] = op.entry.payload
        /\ \A s \in Slots : \E i, j \in 1..Len(Puts(s)) :
              /\ i <= j
              /\ meta_file[s] \in {Torn, Puts(s)[i].metadata}
              /\ payload_file[s] \in {Torn, Puts(s)[j].payload}
        /\ \A s \in Slots : Len(attempts[s]) = 1 /\ op.slot # s =>
              /\ payload_file[s] = attempts[s][1].payload
              /\ meta_file[s] = attempts[s][1].metadata

\* A slot was stored into by the identity remembered, or never.
StoredInv ==
    \A s \in Slots :
        \/ \E id \in Identities : stored[s] = id /\ Slot(HandleFor(id)) = s
        \/ /\ \A i \in 1..Len(attempts[s]) : attempts[s][i] = Nothing
           /\ op.slot = s => op.entry = Nothing

IInv == PrefixTypeOK /\ HistoryInv /\ MemoryInv /\ FileInv /\ StoredInv

-----------------------------------------------------------------------------
(* Lemmas *)

LEMMA BackendFacts ==
    ASSUME backend \in Backends
    PROVE  backend \in {"memory", "file"}
BY StorageConstantsOK

LEMMA SlotFacts ==
    /\ \A h \in Handles : Slot(h) \in Slots
    /\ \A id \in Identities : Slot(HandleFor(id)) \in Slots
    /\ NoSlot \notin Slots
BY IdentitiesOK DEF Slot, Slots, NoSlot, MemoryKey

LEMMA EntryFacts ==
    /\ Nothing \in GoodEntries
    /\ GoodEntries \subseteq {Nothing} \cup Entry
    /\ Nothing \notin Entry
    /\ Nothing.payload = Missing /\ Nothing.metadata = Missing
    /\ \A p \in Payloads : [payload |-> p, metadata |-> MetadataOf(p)] \in GoodEntries
    /\ \A e \in Entry : /\ e.payload \in Payloads /\ e.metadata \in Metadata
                        /\ e = [payload |-> e.payload, metadata |-> e.metadata]
<1>1. Missing \notin Payloads
    BY StorageConstantsOK
<1>2. \A p \in Payloads : [payload |-> p, metadata |-> MetadataOf(p)] \in Entry
    BY DEF Entry, Metadata
<1> QED BY <1>1, <1>2 DEF Nothing, GoodEntries, Entry

\* Sequences of one element and of one more.
LEMMA HistoryFacts ==
    ASSUME NEW S, NEW e \in S
    PROVE  /\ <<e>> \in Seq(S) /\ Len(<<e>>) = 1 /\ <<e>>[1] = e /\ <<e>> # <<>>
           /\ \A a \in Seq(S) :
                 /\ Append(a, e) \in Seq(S) /\ Append(a, e) # <<>>
                 /\ Len(a) \in Nat
                 /\ Len(Append(a, e)) = Len(a) + 1
                 /\ Append(a, e)[Len(a) + 1] = e
                 /\ \A i \in 1..Len(a) : Append(a, e)[i] = a[i] /\ a[i] \in S
                 /\ a # <<>> => Len(a) > 0
<1>1. \A a \in Seq(S) : a # <<>> => Len(a) > 0
    BY EmptySeq
<1>2. \A a \in Seq(S) :
         /\ Append(a, e) \in Seq(S) /\ Append(a, e) # <<>>
         /\ Len(a) \in Nat
         /\ Len(Append(a, e)) = Len(a) + 1
         /\ Append(a, e)[Len(a) + 1] = e
         /\ \A i \in 1..Len(a) : Append(a, e)[i] = a[i] /\ a[i] \in S
    BY AppendProperties, LenProperties, ElementOfSeq
<1> QED BY <1>1, <1>2

-----------------------------------------------------------------------------
LEMMA Initial == PrefixInit => IInv
<1> SUFFICES ASSUME PrefixInit PROVE IInv
    OBVIOUS
<1> USE DEF PrefixInit, StorageInit
<1>1. HistoryInv
    BY EntryFacts, HistoryFacts DEF HistoryInv, Idle
<1>2. StorageTypeOK
    <2>1. attempts \in [Slots -> Seq({Nothing} \cup Entry)]
        BY HistoryFacts
    <2> QED BY <2>1, StorageConstantsOK DEF StorageTypeOK
<1>3. PrefixTypeOK
    BY <1>2 DEF PrefixTypeOK
<1>4. MemoryInv
    BY DEF MemoryInv
<1>5. \A s \in Slots : op.slot # s /\ op.step = "idle" /\ Puts(s) = <<Nothing>>
    BY SlotFacts DEF Idle, Puts
<1>6. FileInv
    <2>1. ASSUME NEW s \in Slots
          PROVE  /\ Len(Puts(s)) = 1 /\ Puts(s)[1] = Nothing
                 /\ attempts[s][1] = Nothing
                 /\ payload_file[s] = Missing /\ meta_file[s] = Missing
        BY <1>5, HistoryFacts
    <2>2. \A s \in Slots : \E i, j \in 1..Len(Puts(s)) :
             /\ i <= j
             /\ meta_file[s] \in {Torn, Puts(s)[i].metadata}
             /\ payload_file[s] \in {Torn, Puts(s)[j].payload}
        <3>1. 1 \in 1..1 /\ 1 <= 1
            OBVIOUS
        <3> QED BY <2>1, <3>1, EntryFacts
    <2>3. \A s \in Slots : payload_file[s] = attempts[s][1].payload
                          /\ meta_file[s] = attempts[s][1].metadata
        BY <2>1, EntryFacts
    <2>4. op.step \notin {"open_meta", "fill_meta", "unlink_meta"}
        BY DEF Idle
    <2> QED BY <2>2, <2>3, <2>4 DEF FileInv
<1>7. StoredInv
    BY <1>5, EntryFacts DEF StoredInv
<1> QED BY <1>1, <1>3, <1>4, <1>6, <1>7 DEF IInv

-----------------------------------------------------------------------------
(* Steps of the in-memory backend *)

\* What is common to put and delete in memory: one entry changes, completely.
LEMMA MemoryStep ==
    ASSUME IInv, backend = "memory", NEW s0 \in Slots, NEW ref \in {Missing} \cup Reference,
           NEW e \in GoodEntries,
           e = IF ref = Missing THEN Nothing
               ELSE [payload |-> heap[ref.object], metadata |-> ref.metadata],
           entries' = [entries EXCEPT ![s0] = ref],
           touched' = touched \ {s0},
           Completed(s0, e),
           \/ stored' = stored /\ e = Nothing
           \/ \E id \in Identities : /\ stored' = [stored EXCEPT ![s0] = id]
                                     /\ Slot(HandleFor(id)) = s0,
           UNCHANGED <<backend, heap, payload_file, meta_file, op, failures>>
    PROVE  IInv'
<1>1. attempts' = [attempts EXCEPT ![s0] = <<e>>] /\ <<e>> \in Seq(GoodEntries)
      /\ <<e>> # <<>> /\ Len(<<e>>) = 1 /\ <<e>>[1] = e
    BY HistoryFacts DEF Completed
<1>2. attempts \in [Slots -> Seq({Nothing} \cup Entry)] /\ entries \in [Slots -> {Missing} \cup Reference]
    BY DEF IInv, PrefixTypeOK, StorageTypeOK
<1>3. HistoryInv'
    BY <1>1, <1>2 DEF IInv, HistoryInv
<1>4. PrefixTypeOK'
    <2>1. <<e>> \in Seq({Nothing} \cup Entry)
        BY EntryFacts, HistoryFacts
    <2>2. attempts' \in [Slots -> Seq({Nothing} \cup Entry)]
        BY <1>1, <1>2, <2>1
    <2>3. entries' \in [Slots -> {Missing} \cup Reference] /\ touched' \subseteq Slots
        BY <1>2 DEF IInv, PrefixTypeOK, StorageTypeOK
    <2>4. StorageTypeOK'
        BY <2>2, <2>3 DEF IInv, PrefixTypeOK, StorageTypeOK
    <2>5. stored' \in [Slots -> {Missing} \cup Identities]
        BY DEF IInv, PrefixTypeOK
    <2> QED BY <2>4, <2>5 DEF PrefixTypeOK
<1>5. MemoryInv'
    <2>1. ref # Missing => /\ e.payload = heap[ref.object] /\ e.metadata = ref.metadata
                           /\ heap[ref.object] \in Payloads
        BY DEF IInv, PrefixTypeOK, StorageTypeOK, Reference
    <2>2. ref = Missing <=> e = Nothing
        BY <2>1, EntryFacts, StorageConstantsOK
    <2>3. /\ attempts'[s0] = <<e>> /\ entries'[s0] = ref /\ heap' = heap /\ op' = op
          /\ s0 \notin touched'
        BY <1>1, <1>2
    <2>4. \A s \in Slots \ {s0} :
             /\ attempts'[s] = attempts[s] /\ entries'[s] = entries[s]
             /\ s \in touched' <=> s \in touched
        BY <1>1, <1>2
    <2>5. backend = "memory" /\ MemoryInv
        BY DEF IInv
    <2> QED BY <1>1, <2>1, <2>2, <2>3, <2>4, <2>5 DEF MemoryInv
<1>6. FileInv'
    BY DEF FileInv
<1>7. StoredInv'
    <2> SUFFICES ASSUME NEW s \in Slots
                 PROVE  \/ \E id \in Identities : stored'[s] = id /\ Slot(HandleFor(id)) = s
                        \/ /\ \A i \in 1..Len(attempts'[s]) : attempts'[s][i] = Nothing
                           /\ op'.slot = s => op'.entry = Nothing
        BY DEF StoredInv, Slot
    <2>2. op'.slot = NoSlot /\ s # NoSlot
        BY SlotFacts DEF IInv, MemoryInv, Idle
    <2>3. CASE s # s0
        <3>1. stored'[s] = stored[s] /\ attempts'[s] = attempts[s]
            BY <1>1, <1>2, <2>3 DEF IInv, PrefixTypeOK
        <3> QED BY <2>2, <3>1 DEF IInv, StoredInv
    <2>4. CASE s = s0
        <3>1. CASE stored' = stored /\ e = Nothing
            BY <1>1, <1>2, <2>2, <2>4, <3>1
        <3>2. CASE \E id \in Identities : /\ stored' = [stored EXCEPT ![s0] = id]
                                          /\ Slot(HandleFor(id)) = s0
            BY <2>4, <3>2 DEF IInv, PrefixTypeOK
        <3> QED BY <3>1, <3>2
    <2> QED BY <2>3, <2>4
<1> QED BY <1>3, <1>4, <1>5, <1>6, <1>7 DEF IInv

LEMMA PutMemoryInv ==
    ASSUME IInv, NEW id \in Identities, NEW o \in Objects,
           PutMemory(HandleFor(id), o, MetadataOf(heap[o])),
           stored' = [stored EXCEPT ![Slot(HandleFor(id))] = id]
    PROVE  IInv'
<1> DEFINE ref == [object |-> o, metadata |-> MetadataOf(heap[o])]
           e == [payload |-> heap[o], metadata |-> MetadataOf(heap[o])]
<1>1. heap[o] \in Payloads
    BY DEF IInv, PrefixTypeOK, StorageTypeOK
<1>2. ref \in Reference /\ e \in GoodEntries /\ ref # Missing
    <2>1. ref \in Reference
        BY <1>1 DEF Reference, Metadata
    <2> QED BY <1>1, <2>1, EntryFacts, StorageConstantsOK
<1>3. ref.object = o /\ ref.metadata = MetadataOf(heap[o])
    OBVIOUS
<1>4. PICK s0 \in Slots : s0 = Slot(HandleFor(id))
    BY SlotFacts
<1> HIDE DEF ref, e
<1>5. /\ backend = "memory" /\ entries' = [entries EXCEPT ![s0] = ref]
      /\ touched' = touched \ {s0} /\ Completed(s0, e)
      /\ UNCHANGED <<backend, heap, payload_file, meta_file, op, failures>>
    BY <1>4 DEF PutMemory, ref, e
<1>6. e = [payload |-> heap[ref.object], metadata |-> ref.metadata]
    BY <1>3 DEF e
<1> QED BY <1>2, <1>4, <1>5, <1>6, MemoryStep

LEMMA DeleteMemoryInv ==
    ASSUME IInv, NEW id \in Identities, DeleteMemory(HandleFor(id)), UNCHANGED stored
    PROVE  IInv'
<1>1. PICK s0 \in Slots : s0 = Slot(HandleFor(id))
    BY SlotFacts
<1>2. /\ backend = "memory" /\ entries' = [entries EXCEPT ![s0] = Missing]
      /\ touched' = touched \ {s0} /\ Completed(s0, Nothing)
      /\ UNCHANGED <<backend, heap, payload_file, meta_file, op, failures>>
    BY <1>1 DEF DeleteMemory
<1> QED BY <1>1, <1>2, EntryFacts, MemoryStep

\* The caller changes an object: the entries that hold it are touched.
LEMMA MutateInv ==
    ASSUME IInv, NEW o \in Objects, NEW p \in Payloads, Mutate(o, p), UNCHANGED stored
    PROVE  IInv'
<1>1. UNCHANGED <<backend, entries, payload_file, meta_file, op, failures, attempts, stored>>
      /\ heap' = [heap EXCEPT ![o] = p]
      /\ touched' = touched \cup {s \in Slots : entries[s] # Missing /\ entries[s].object = o}
    BY DEF Mutate, storage
<1>2. PrefixTypeOK'
    BY <1>1 DEF IInv, PrefixTypeOK, StorageTypeOK
<1>3. HistoryInv' /\ FileInv'
    BY <1>1 DEF IInv, HistoryInv, FileInv, Puts
<1>4. StoredInv'
    BY <1>1 DEF IInv, StoredInv, Slot
<1>5. MemoryInv'
    BY <1>1 DEF IInv, MemoryInv, PrefixTypeOK, StorageTypeOK, Reference
<1> QED BY <1>2, <1>3, <1>4, <1>5 DEF IInv

-----------------------------------------------------------------------------
(* Steps of the file backend *)

\* An operation begins on a slot; its payload file is torn, or gone.
LEMMA BeginStep ==
    ASSUME IInv, backend = "file", op = Idle, NEW s0 \in Slots, NEW e \in GoodEntries,
           NEW content \in {Torn, e.payload}, NEW step \in {"fill_payload", "unlink_meta"},
           NEW name \in {"put", "delete"},
           step = "unlink_meta" => content = e.payload /\ e = Nothing,
           content \in {Missing, Torn} \cup Payloads,
           op' = [name |-> name, slot |-> s0, step |-> step, entry |-> e],
           payload_file' = [payload_file EXCEPT ![s0] = content],
           \/ stored' = stored /\ e = Nothing
           \/ \E id \in Identities : /\ stored' = [stored EXCEPT ![s0] = id]
                                     /\ Slot(HandleFor(id)) = s0,
           UNCHANGED <<backend, heap, entries, meta_file, failures, attempts, touched>>
    PROVE  IInv'
<1>1. PrefixTypeOK'
    <2>1. op' \in [name : {"put", "delete"}, slot : Slots, step : File, entry : {Nothing} \cup Entry]
        BY EntryFacts DEF File
    <2>2. payload_file' \in [Slots -> {Missing, Torn} \cup Payloads]
        BY DEF IInv, PrefixTypeOK, StorageTypeOK
    <2>3. StorageTypeOK'
        BY <2>1, <2>2 DEF IInv, PrefixTypeOK, StorageTypeOK
    <2>4. stored' \in [Slots -> {Missing} \cup Identities]
        BY DEF IInv, PrefixTypeOK
    <2> QED BY <2>3, <2>4 DEF PrefixTypeOK
<1>2. HistoryInv'
    BY DEF IInv, HistoryInv
<1>3. MemoryInv'
    BY DEF MemoryInv
<1>4. op.slot = NoSlot /\ op'.slot = s0 /\ op'.entry = e /\ op'.step = step
    BY DEF Idle
<1>5. FileInv'
    <2>1. ASSUME NEW s \in Slots, s # s0
          PROVE  /\ Puts(s)' = Puts(s) /\ meta_file'[s] = meta_file[s]
                 /\ payload_file'[s] = payload_file[s] /\ attempts'[s] = attempts[s]
                 /\ op.slot # s
        BY <1>4, <2>1, SlotFacts DEF Puts, IInv, PrefixTypeOK, StorageTypeOK
    <2>2. /\ Puts(s0) = attempts[s0] /\ Puts(s0)' = Append(attempts[s0], e)
          /\ meta_file'[s0] = meta_file[s0] /\ payload_file'[s0] = content
          /\ attempts[s0] \in Seq(GoodEntries)
        BY <1>4, SlotFacts DEF Puts, IInv, PrefixTypeOK, StorageTypeOK, HistoryInv
    <2>3. \E i, j \in 1..Len(Puts(s0)') :
              /\ i <= j
              /\ meta_file'[s0] \in {Torn, Puts(s0)'[i].metadata}
              /\ payload_file'[s0] \in {Torn, Puts(s0)'[j].payload}
        <3> DEFINE a == attempts[s0]
        <3>1. PICK i \in 1..Len(a) : meta_file[s0] \in {Torn, a[i].metadata}
            BY <2>2 DEF IInv, FileInv
        <3>2. /\ Len(a) \in Nat /\ Len(Append(a, e)) = Len(a) + 1
              /\ Append(a, e)[Len(a) + 1] = e /\ Append(a, e)[i] = a[i]
            BY <2>2, <3>1, HistoryFacts
        <3> HIDE DEF a
        <3>3. i \in 1..Len(Append(a, e)) /\ Len(a) + 1 \in 1..Len(Append(a, e)) /\ i <= Len(a) + 1
            BY <3>1, <3>2
        <3> QED BY <2>2, <3>1, <3>2, <3>3 DEF a
    <2>4. op'.step \in {"open_meta", "fill_meta", "unlink_meta"} =>
              payload_file'[op'.slot] = op'.entry.payload
        BY <1>4, <2>2
    <2> QED BY <1>4, <2>1, <2>3, <2>4 DEF IInv, FileInv
<1>6. StoredInv'
    <2> SUFFICES ASSUME NEW s \in Slots
                 PROVE  \/ \E id \in Identities : stored'[s] = id /\ Slot(HandleFor(id)) = s
                        \/ /\ \A i \in 1..Len(attempts'[s]) : attempts'[s][i] = Nothing
                           /\ op'.slot = s => op'.entry = Nothing
        BY DEF StoredInv, Slot
    <2>2. CASE s # s0
        <3>1. stored'[s] = stored[s]
            BY <2>2 DEF IInv, PrefixTypeOK
        <3> QED BY <1>4, <2>2, <3>1 DEF IInv, StoredInv
    <2>3. CASE s = s0
        <3>1. CASE stored' = stored /\ e = Nothing
            BY <1>4, <2>3, <3>1 DEF IInv, StoredInv
        <3>2. CASE \E id \in Identities : /\ stored' = [stored EXCEPT ![s0] = id]
                                          /\ Slot(HandleFor(id)) = s0
            BY <2>3, <3>2 DEF IInv, PrefixTypeOK
        <3> QED BY <3>1, <3>2
    <2> QED BY <2>2, <2>3
<1> QED BY <1>1, <1>2, <1>3, <1>5, <1>6 DEF IInv

LEMMA BeginPutInv ==
    ASSUME IInv, NEW id \in Identities, NEW o \in Objects,
           BeginPut(HandleFor(id), o, MetadataOf(heap[o])),
           stored' = [stored EXCEPT ![Slot(HandleFor(id))] = id]
    PROVE  IInv'
<1> DEFINE e == [payload |-> heap[o], metadata |-> MetadataOf(heap[o])]
<1>1. e \in GoodEntries
    BY EntryFacts DEF IInv, PrefixTypeOK, StorageTypeOK
<1>2. PICK s0 \in Slots : s0 = Slot(HandleFor(id))
    BY SlotFacts
<1> HIDE DEF e
<1>3. /\ backend = "file" /\ op = Idle
      /\ op' = [name |-> "put", slot |-> s0, step |-> "fill_payload", entry |-> e]
      /\ payload_file' = [payload_file EXCEPT ![s0] = Torn]
      /\ UNCHANGED <<backend, heap, entries, meta_file, failures, attempts, touched>>
    BY <1>2 DEF BeginPut, e
<1> QED BY <1>1, <1>2, <1>3, BeginStep

LEMMA BeginDeleteInv ==
    ASSUME IInv, NEW id \in Identities, BeginDelete(HandleFor(id)), UNCHANGED stored
    PROVE  IInv'
<1>1. PICK s0 \in Slots : s0 = Slot(HandleFor(id))
    BY SlotFacts
<1>2. /\ backend = "file" /\ op = Idle
      /\ op' = [name |-> "delete", slot |-> s0, step |-> "unlink_meta", entry |-> Nothing]
      /\ payload_file' = [payload_file EXCEPT ![s0] = Missing]
      /\ UNCHANGED <<backend, heap, entries, meta_file, failures, attempts, touched>>
    BY <1>1 DEF BeginDelete
<1> QED BY <1>1, <1>2, EntryFacts, BeginStep

\* An operation under way is one of the file backend, on a slot.
LEMMA OpFacts ==
    ASSUME IInv, op # Idle
    PROVE  /\ backend = "file" /\ op.slot \in Slots /\ op.slot # NoSlot
           /\ op.entry \in GoodEntries
           /\ op.entry.payload \in {Missing} \cup Payloads
           /\ op.entry.metadata \in {Missing} \cup Metadata
           /\ op \in [name : {"put", "delete"}, slot : Slots, step : File,
                     entry : {Nothing} \cup Entry]
           /\ \A s \in Slots :
                 Puts(s) = IF s = op.slot THEN Append(attempts[s], op.entry) ELSE attempts[s]
           /\ \A s \in Slots : attempts[s] \in Seq(GoodEntries) /\ Len(attempts[s]) \in Nat
<1>1. op \in [name : {"put", "delete"}, slot : Slots, step : File, entry : {Nothing} \cup Entry]
    BY DEF IInv, PrefixTypeOK, StorageTypeOK
<1>2. backend = "file"
    BY BackendFacts DEF IInv, PrefixTypeOK, StorageTypeOK, MemoryInv
<1>3. op.slot \in Slots /\ op.slot # NoSlot
    BY <1>1, SlotFacts
<1>4. op.entry \in GoodEntries
    BY DEF IInv, HistoryInv
<1>5. op.entry.payload \in {Missing} \cup Payloads /\ op.entry.metadata \in {Missing} \cup Metadata
    BY <1>4, EntryFacts
<1>6. \A s \in Slots : attempts[s] \in Seq(GoodEntries) /\ Len(attempts[s]) \in Nat
    BY <1>4, HistoryFacts DEF IInv, HistoryInv
<1> QED BY <1>1, <1>2, <1>3, <1>4, <1>5, <1>6 DEF Puts

\* The operation goes on: its payload is complete, its metadata as it was or torn.
LEMMA MidStep ==
    ASSUME IInv, op # Idle, NEW step \in {"open_meta", "fill_meta"},
           NEW m \in {Torn, meta_file[op.slot]},
           op' = [op EXCEPT !.step = step],
           payload_file' = [payload_file EXCEPT ![op.slot] = op.entry.payload],
           meta_file' = [meta_file EXCEPT ![op.slot] = m],
           UNCHANGED <<backend, heap, entries, failures, attempts, touched, stored>>
    PROVE  IInv'
<1> USE OpFacts
<1>1. /\ op'.slot = op.slot /\ op'.entry = op.entry /\ op'.step = step
      /\ op' \in [name : {"put", "delete"}, slot : Slots, step : File, entry : {Nothing} \cup Entry]
    BY DEF File
<1>2. PrefixTypeOK'
    BY <1>1 DEF IInv, PrefixTypeOK, StorageTypeOK
<1>3. HistoryInv'
    BY <1>1 DEF IInv, HistoryInv
<1>4. MemoryInv'
    BY DEF MemoryInv
<1>5. \A s \in Slots : Puts(s)' = Puts(s)
    BY <1>1 DEF Puts
<1>6. ASSUME NEW s \in Slots
      PROVE  \E i, j \in 1..Len(Puts(s)) :
                /\ i <= j
                /\ meta_file'[s] \in {Torn, Puts(s)[i].metadata}
                /\ payload_file'[s] \in {Torn, Puts(s)[j].payload}
    <2>1. PICK i, j \in 1..Len(Puts(s)) :
                /\ i <= j
                /\ meta_file[s] \in {Torn, Puts(s)[i].metadata}
                /\ payload_file[s] \in {Torn, Puts(s)[j].payload}
        BY DEF IInv, FileInv
    <2>2. CASE s # op.slot
        BY <2>1, <2>2 DEF IInv, PrefixTypeOK, StorageTypeOK
    <2>3. CASE s = op.slot
        <3> DEFINE a == attempts[s]
        <3>1. Puts(s) = Append(a, op.entry) /\ a \in Seq(GoodEntries)
            BY <2>3
        <3>2. /\ Len(a) \in Nat /\ Len(Append(a, op.entry)) = Len(a) + 1
              /\ Append(a, op.entry)[Len(a) + 1] = op.entry
            BY <3>1, HistoryFacts
        <3>3. meta_file'[s] = m /\ payload_file'[s] = op.entry.payload
            BY <2>3 DEF IInv, PrefixTypeOK, StorageTypeOK
        <3> HIDE DEF a
        <3>4. Len(a) + 1 \in 1..Len(Puts(s)) /\ i <= Len(a) + 1
            BY <2>1, <3>1, <3>2
        <3>5. meta_file'[s] \in {Torn, Puts(s)[i].metadata}
            BY <2>1, <2>3, <3>3
        <3>6. payload_file'[s] \in {Torn, Puts(s)[Len(a) + 1].payload}
            BY <3>1, <3>2, <3>3
        <3> QED BY <2>1, <3>4, <3>5, <3>6
    <2> QED BY <2>2, <2>3
<1>7. payload_file'[op'.slot] = op'.entry.payload
    BY <1>1 DEF IInv, PrefixTypeOK, StorageTypeOK
<1>8. ASSUME NEW s \in Slots, Len(attempts'[s]) = 1, op'.slot # s
      PROVE  payload_file'[s] = attempts'[s][1].payload /\ meta_file'[s] = attempts'[s][1].metadata
    BY <1>1, <1>8 DEF IInv, FileInv, PrefixTypeOK, StorageTypeOK
<1>9. FileInv'
    BY <1>5, <1>6, <1>7, <1>8 DEF FileInv
<1>10. StoredInv'
    BY <1>1 DEF IInv, StoredInv, Slot
<1> QED BY <1>2, <1>3, <1>4, <1>9, <1>10 DEF IInv

LEMMA FillPayloadInv ==
    ASSUME IInv, FillPayload, UNCHANGED stored PROVE IInv'
<1>1. op # Idle
    BY DEF FillPayload, Idle
<1>2. meta_file' = [meta_file EXCEPT ![op.slot] = meta_file[op.slot]]
    BY DEF FillPayload, IInv, PrefixTypeOK, StorageTypeOK
<1> QED BY <1>1, <1>2, MidStep DEF FillPayload

LEMMA OpenMetaInv ==
    ASSUME IInv, OpenMeta, UNCHANGED stored PROVE IInv'
<1>1. op # Idle
    BY DEF OpenMeta, Idle
<1>2. payload_file' = [payload_file EXCEPT ![op.slot] = op.entry.payload]
    BY <1>1, OpFacts DEF OpenMeta, IInv, PrefixTypeOK, StorageTypeOK, FileInv
<1> QED BY <1>1, <1>2, MidStep DEF OpenMeta

\* The operation completes: both files of the slot are its own.
LEMMA CompleteStep ==
    ASSUME IInv, op # Idle, op.step \in {"fill_meta", "unlink_meta"}, op' = Idle,
           Completed(op.slot, op.entry),
           meta_file' = [meta_file EXCEPT ![op.slot] = op.entry.metadata],
           UNCHANGED <<backend, heap, entries, payload_file, failures, touched, stored>>
    PROVE  IInv'
<1> DEFINE e == op.entry
<1>1. /\ attempts' = [attempts EXCEPT ![op.slot] = <<e>>]
      /\ <<e>> \in Seq(GoodEntries) /\ <<e>> # <<>> /\ Len(<<e>>) = 1 /\ <<e>>[1] = e
      /\ <<e>> \in Seq({Nothing} \cup Entry)
    BY OpFacts, HistoryFacts, EntryFacts DEF Completed
<1>2. /\ attempts \in [Slots -> Seq({Nothing} \cup Entry)]
      /\ meta_file \in [Slots -> {Missing, Torn} \cup Metadata]
    BY DEF IInv, PrefixTypeOK, StorageTypeOK
<1>3. op'.slot = NoSlot /\ op'.entry = Nothing /\ op'.step = "idle"
    BY DEF Idle
<1> USE OpFacts
<1>4. PrefixTypeOK'
    BY <1>1, <1>2 DEF IInv, PrefixTypeOK, StorageTypeOK
<1>5. HistoryInv'
    BY <1>1, <1>2, <1>3, EntryFacts DEF IInv, HistoryInv
<1>6. MemoryInv'
    BY DEF MemoryInv
<1>7. payload_file[op.slot] = e.payload
    BY DEF IInv, FileInv
<1>8. ASSUME NEW s \in Slots, s # op.slot
      PROVE  attempts'[s] = attempts[s] /\ meta_file'[s] = meta_file[s] /\ Puts(s)' = Puts(s)
    BY <1>1, <1>2, <1>3, <1>8, SlotFacts DEF Puts
<1>9. /\ attempts'[op.slot] = <<e>> /\ meta_file'[op.slot] = e.metadata
      /\ \A s \in Slots : s = op.slot => Puts(s)' = <<e>>
    BY <1>1, <1>2, <1>3, SlotFacts DEF Puts
<1>10. FileInv'
    <2>1. ASSUME NEW s \in Slots
          PROVE  \E i, j \in 1..Len(Puts(s)') :
                    /\ i <= j
                    /\ meta_file'[s] \in {Torn, Puts(s)'[i].metadata}
                    /\ payload_file'[s] \in {Torn, Puts(s)'[j].payload}
        <3>1. CASE s # op.slot
            BY <1>8, <3>1 DEF IInv, FileInv
        <3>2. CASE s = op.slot
            <4>1. 1 \in 1..Len(Puts(s)') /\ Puts(s)'[1] = e
                BY <1>1, <1>9, <3>2
            <4>2. meta_file'[s] = e.metadata /\ payload_file'[s] = e.payload
                BY <1>7, <1>9, <3>2
            <4> HIDE DEF e
            <4> QED BY <4>1, <4>2
        <3> QED BY <3>1, <3>2
    <2>2. ASSUME NEW s \in Slots, Len(attempts'[s]) = 1
          PROVE  /\ payload_file'[s] = attempts'[s][1].payload
                 /\ meta_file'[s] = attempts'[s][1].metadata
        <3>1. CASE s # op.slot
            BY <1>8, <2>2, <3>1 DEF IInv, FileInv
        <3>2. CASE s = op.slot
            BY <1>1, <1>7, <1>9, <3>2
        <3> QED BY <3>1, <3>2
    <2> QED BY <1>3, <2>1, <2>2 DEF FileInv
<1>11. StoredInv'
    <2> SUFFICES ASSUME NEW s \in Slots
                 PROVE  \/ \E id \in Identities : stored'[s] = id /\ Slot(HandleFor(id)) = s
                        \/ /\ \A i \in 1..Len(attempts'[s]) : attempts'[s][i] = Nothing
                           /\ op'.slot = s => op'.entry = Nothing
        BY DEF StoredInv, Slot
    <2>1. CASE s # op.slot
        BY <1>3, <1>8, <2>1 DEF IInv, StoredInv
    <2>2. CASE s = op.slot
        BY <1>1, <1>3, <1>9, <2>2 DEF IInv, StoredInv
    <2> QED BY <2>1, <2>2
<1> QED BY <1>4, <1>5, <1>6, <1>10, <1>11 DEF IInv

LEMMA FillMetaInv ==
    ASSUME IInv, FillMeta, UNCHANGED stored PROVE IInv'
<1>1. op # Idle
    BY DEF FillMeta, Idle
<1> QED BY <1>1, CompleteStep DEF FillMeta

LEMMA UnlinkMetaInv ==
    ASSUME IInv, UnlinkMeta, UNCHANGED stored PROVE IInv'
<1>1. op # Idle
    BY DEF UnlinkMeta, Idle
<1>2. op.entry = Nothing
    BY DEF UnlinkMeta, IInv, HistoryInv
<1> QED BY <1>1, <1>2, EntryFacts, CompleteStep DEF UnlinkMeta

-----------------------------------------------------------------------------
(* Failures *)

\* The operation under way ends where it is.
LEMMA InterruptStep ==
    ASSUME IInv, op # Idle, op' = Idle, Interrupted(op.slot, op.entry),
           entries' \in [Slots -> {Missing} \cup Reference], touched' \subseteq Slots,
           failures' \in 0..MaxFailures,
           UNCHANGED <<backend, heap, payload_file, meta_file, stored>>
    PROVE  IInv'
<1> DEFINE e == op.entry
<1>1. attempts' = [attempts EXCEPT ![op.slot] = Append(attempts[op.slot], e)]
    BY DEF Interrupted
<1>2. attempts \in [Slots -> Seq({Nothing} \cup Entry)]
    BY DEF IInv, PrefixTypeOK, StorageTypeOK
<1>3. op'.slot = NoSlot /\ op'.entry = Nothing /\ op'.step = "idle"
    BY DEF Idle
<1> USE OpFacts
<1>4. \A s \in Slots : attempts'[s] = Puts(s) /\ Puts(s)' = Puts(s)
    <2>1. \A s \in Slots : attempts'[s] = Puts(s)
        BY <1>1, <1>2
    <2>2. \A s \in Slots : Puts(s)' = attempts'[s]
        BY <1>3, SlotFacts DEF Puts
    <2> QED BY <2>1, <2>2
<1>5. PrefixTypeOK'
    <2>1. Append(attempts[op.slot], e) \in Seq({Nothing} \cup Entry)
        BY <1>2, EntryFacts, HistoryFacts
    <2>2. attempts' \in [Slots -> Seq({Nothing} \cup Entry)]
        BY <1>1, <1>2, <2>1
    <2> QED BY <2>2 DEF IInv, PrefixTypeOK, StorageTypeOK
<1>6. HistoryInv'
    <2>1. ASSUME NEW s \in Slots
          PROVE  attempts'[s] \in Seq(GoodEntries) /\ attempts'[s] # <<>>
        <3>1. attempts[s] \in Seq(GoodEntries) /\ attempts[s] # <<>>
            BY DEF IInv, HistoryInv
        <3>2. Append(attempts[s], e) \in Seq(GoodEntries) /\ Append(attempts[s], e) # <<>>
            <4>1. e \in GoodEntries
                OBVIOUS
            <4> DEFINE a == attempts[s]
            <4>2. a \in Seq(GoodEntries)
                BY <3>1
            <4> HIDE DEF a, e
            <4>3. Append(a, e) \in Seq(GoodEntries) /\ Append(a, e) # <<>>
                BY <4>1, <4>2, HistoryFacts
            <4> QED BY <4>3 DEF a
        <3>3. attempts'[s] \in {attempts[s], Append(attempts[s], e)}
            BY <1>4
        <3> QED BY <3>1, <3>2, <3>3
    <2> QED BY <1>3, <2>1, EntryFacts DEF HistoryInv
<1>7. MemoryInv'
    BY DEF MemoryInv
<1>8. FileInv'
    <2>1. ASSUME NEW s \in Slots, Len(attempts'[s]) = 1
          PROVE  s # op.slot /\ attempts'[s] = attempts[s]
        <3>1. CASE s = op.slot
            <4>1. attempts'[s] = Append(attempts[s], e) /\ attempts[s] \in Seq(GoodEntries)
                BY <1>4, <3>1
            <4>2. attempts[s] # <<>>
                BY DEF IInv, HistoryInv
            <4> DEFINE a == attempts[s]
            <4>3. a \in Seq(GoodEntries) /\ a # <<>> /\ attempts'[s] = Append(a, e)
                BY <4>1, <4>2
            <4> HIDE DEF a
            <4>4. Len(Append(a, e)) = Len(a) + 1 /\ Len(a) > 0 /\ Len(a) \in Nat
                BY <4>3, HistoryFacts
            <4> QED BY <2>1, <4>3, <4>4
        <3>2. CASE s # op.slot
            BY <1>4, <3>2
        <3> QED BY <3>1, <3>2
    <2> QED BY <1>3, <1>4, <2>1 DEF IInv, FileInv
<1>9. StoredInv'
    <2> SUFFICES ASSUME NEW s \in Slots
                 PROVE  \/ \E id \in Identities : stored'[s] = id /\ Slot(HandleFor(id)) = s
                        \/ /\ \A i \in 1..Len(attempts'[s]) : attempts'[s][i] = Nothing
                           /\ op'.slot = s => op'.entry = Nothing
        BY DEF StoredInv, Slot
    <2>1. CASE \E id \in Identities : stored[s] = id /\ Slot(HandleFor(id)) = s
        BY <2>1
    <2>2. CASE /\ \A i \in 1..Len(attempts[s]) : attempts[s][i] = Nothing
               /\ op.slot = s => op.entry = Nothing
        <3>1. CASE s # op.slot
            BY <1>3, <1>4, <2>2, <3>1
        <3>2. CASE s = op.slot
            <4> DEFINE a == attempts[s]
            <4>1. attempts'[s] = Append(a, Nothing) /\ a \in Seq(GoodEntries)
                BY <1>4, <2>2, <3>2
            <4>2. \A i \in 1..Len(a) : a[i] = Nothing
                BY <2>2
            <4> HIDE DEF a
            <4>3. /\ Len(a) \in Nat
                  /\ Len(Append(a, Nothing)) = Len(a) + 1
                  /\ Append(a, Nothing)[Len(a) + 1] = Nothing
                  /\ \A i \in 1..Len(a) : Append(a, Nothing)[i] = a[i]
                BY <4>1, EntryFacts, HistoryFacts
            <4>4. \A i \in 1..Len(attempts'[s]) : i \in 1..Len(a) \/ i = Len(a) + 1
                BY <4>1, <4>3
            <4> QED BY <1>3, <4>1, <4>2, <4>3, <4>4
        <3> QED BY <3>1, <3>2
    <2> QED BY <2>1, <2>2 DEF IInv, StoredInv
<1> QED BY <1>5, <1>6, <1>7, <1>8, <1>9 DEF IInv

LEMMA WriteFailsInv ==
    ASSUME IInv, WriteFails, UNCHANGED stored PROVE IInv'
<1>1. /\ entries \in [Slots -> {Missing} \cup Reference] /\ touched \subseteq Slots
      /\ failures \in 0..MaxFailures
    BY DEF IInv, PrefixTypeOK, StorageTypeOK
<1>2. failures' \in 0..MaxFailures
    BY <1>1, StorageConstantsOK DEF WriteFails
<1>3. /\ op # Idle /\ op' = Idle /\ Interrupted(op.slot, op.entry)
      /\ UNCHANGED <<backend, heap, entries, payload_file, meta_file, touched>>
    BY DEF WriteFails, storage
<1> QED BY <1>1, <1>2, <1>3, InterruptStep

LEMMA CrashInv ==
    ASSUME IInv, Crash, UNCHANGED stored PROVE IInv'
<1>1. /\ op' = Idle /\ entries' = [s \in Slots |-> Missing] /\ touched' = {}
      /\ UNCHANGED <<backend, heap, payload_file, meta_file>>
    BY DEF Crash
<1>2. failures' \in 0..MaxFailures
    BY StorageConstantsOK DEF Crash, IInv, PrefixTypeOK, StorageTypeOK
<1>3. backend \in {"memory", "file"}
    BY BackendFacts DEF IInv, PrefixTypeOK, StorageTypeOK
<1>4. CASE backend = "memory"
    <2>1. op = Idle /\ attempts' = [s \in Slots |-> <<Nothing>>]
        BY <1>4 DEF Crash, IInv, MemoryInv
    <2>2. /\ <<Nothing>> \in Seq(GoodEntries) /\ <<Nothing>> \in Seq({Nothing} \cup Entry)
          /\ <<Nothing>> # <<>> /\ Len(<<Nothing>>) = 1 /\ <<Nothing>>[1] = Nothing
        BY EntryFacts, HistoryFacts
    <2>3. PrefixTypeOK'
        BY <1>1, <1>2, <2>1, <2>2 DEF IInv, PrefixTypeOK, StorageTypeOK
    <2>4. HistoryInv' /\ MemoryInv'
        BY <1>1, <2>1, <2>2, EntryFacts DEF HistoryInv, MemoryInv, Idle
    <2>5. FileInv'
        BY <1>1, <1>4 DEF FileInv
    <2>6. StoredInv'
        BY <1>1, <2>1, <2>2 DEF StoredInv, Idle
    <2> QED BY <2>3, <2>4, <2>5, <2>6 DEF IInv
<1>5. CASE backend = "file" /\ op # Idle
    BY <1>1, <1>2, <1>5, InterruptStep DEF Crash
<1>6. CASE backend = "file" /\ op = Idle
    <2>1. UNCHANGED <<attempts, op>>
        BY <1>1, <1>6 DEF Crash
    <2>2. PrefixTypeOK'
        BY <1>1, <1>2, <2>1 DEF IInv, PrefixTypeOK, StorageTypeOK
    <2>3. HistoryInv' /\ MemoryInv' /\ FileInv'
        BY <1>1, <1>6, <2>1 DEF IInv, HistoryInv, MemoryInv, FileInv, Puts
    <2>4. StoredInv'
        BY <1>1, <2>1 DEF IInv, StoredInv, Slot
    <2> QED BY <2>2, <2>3, <2>4 DEF IInv
<1> QED BY <1>3, <1>4, <1>5, <1>6

-----------------------------------------------------------------------------
LEMMA Inductive == IInv /\ [PrefixNext]_prefixVars => IInv'
<1> SUFFICES ASSUME IInv, [PrefixNext]_prefixVars PROVE IInv'
    OBVIOUS
<1>1. CASE \E id \in Identities : \E o \in Objects : Store(id, o)
    BY <1>1, PutMemoryInv, BeginPutInv DEF Store
<1>2. CASE \E id \in Identities : Discard(id)
    BY <1>2, DeleteMemoryInv, BeginDeleteInv DEF Discard, Delete
<1>3. CASE StorageStep /\ UNCHANGED stored
    BY <1>3, FillPayloadInv, OpenMetaInv, FillMetaInv, UnlinkMetaInv, WriteFailsInv, CrashInv,
       MutateInv DEF StorageStep
<1>4. CASE UNCHANGED prefixVars
    <2>1. UNCHANGED <<backend, heap, entries, payload_file, meta_file, op, failures, attempts,
                      touched, stored>>
        BY <1>4 DEF prefixVars, storageVars, storage
    <2>2. PrefixTypeOK' /\ HistoryInv' /\ MemoryInv'
        BY <2>1 DEF IInv, PrefixTypeOK, StorageTypeOK, HistoryInv, MemoryInv
    <2>3. FileInv' /\ StoredInv'
        BY <2>1 DEF IInv, FileInv, StoredInv, Puts, Slot
    <2> QED BY <2>2, <2>3 DEF IInv
<1> QED BY <1>1, <1>2, <1>3, <1>4 DEF PrefixNext

LEMMA Invariant == PrefixSpec => []IInv
BY Initial, Inductive, PTL DEF PrefixSpec

-----------------------------------------------------------------------------
(* Theorems *)

\* The types of the storage and of the prefix cache.
THEOREM Typing == PrefixSpec => []PrefixTypeOK
BY Invariant, PTL DEF IInv

\* Where nothing was interrupted, exists and metadata answer what the last put or
\* delete left, after any failures; get does, but for a payload touched since.
LEMMA SettledReads ==
    ASSUME IInv, NEW h \in Handles, Settled(Slot(h)),
           NEW last, last = attempts[Slot(h)][1]
    PROVE  /\ last \in GoodEntries
           /\ exists(h) <=> last # Nothing
           /\ metadata(h) = last.metadata
           /\ get(h).result = IF last = Nothing THEN "not_found" ELSE "ok"
           /\ get(h).metadata = last.metadata
           /\ Slot(h) \notin touched => get(h).payload = last.payload
<1>1. PICK s \in Slots : s = Slot(h)
    BY SlotFacts
<1>2. last \in GoodEntries /\ last = attempts[s][1] /\ Len(attempts[s]) = 1
    BY <1>1, EntryFacts, HistoryFacts DEF IInv, HistoryInv, Settled
<1>3. CASE last = Nothing
    <2>1. last.payload = Missing /\ last.metadata = Missing
        BY <1>3, EntryFacts
    <2>2. /\ Raises("not_found").result = "not_found"
          /\ Raises("not_found").payload = Missing /\ Raises("not_found").metadata = Missing
        BY DEF Raises, Answer
    <2>3. CASE backend = "memory"
        <3>1. entries[s] = Missing
            BY <1>2, <1>3, <2>3 DEF IInv, MemoryInv
        <3>2. get(h) = Raises("not_found") /\ ~exists(h) /\ metadata(h) = GetMemory(h).metadata
            BY <1>1, <2>3, <3>1 DEF exists, metadata, get, GetMemory
        <3>3. GetMemory(h) = get(h)
            BY <2>3 DEF get
        <3> QED BY <1>2, <1>3, <2>1, <2>2, <3>2, <3>3
    <2>4. CASE backend = "file"
        <3>1. payload_file[s] = Missing /\ meta_file[s] = Missing
            BY <1>1, <1>2, <1>3, <2>4, EntryFacts DEF IInv, FileInv, Settled
        <3>2. ~exists(h) /\ metadata(h) = Missing /\ backend # "memory"
            BY <1>1, <2>4, <3>1 DEF exists, metadata
        <3>3. get(h) = Raises("not_found")
            BY <3>2 DEF get, GetFile
        <3> QED BY <1>2, <1>3, <2>1, <2>2, <3>2, <3>3
    <2> QED BY <2>3, <2>4, BackendFacts DEF IInv, PrefixTypeOK, StorageTypeOK
<1>4. CASE last # Nothing
    <2>1. /\ last \in Entry /\ last.payload \in Payloads /\ last.metadata \in Metadata
          /\ last.metadata = MetadataOf(last.payload)
          /\ last.payload \notin {Missing, Torn} /\ last.metadata \notin {Missing, Torn}
        BY <1>2, <1>4, EntryFacts, StorageConstantsOK DEF GoodEntries
    <2>2. CASE backend = "memory"
        <3>1. /\ entries[s] # Missing /\ last.metadata = entries[s].metadata
              /\ s \notin touched => last.payload = heap[entries[s].object]
            BY <1>2, <1>4, <2>2 DEF IInv, MemoryInv
        <3>2. get(h) = Answer("ok", heap[entries[s].object], entries[s].metadata)
            BY <1>1, <2>2, <3>1 DEF get, GetMemory
        <3>3. metadata(h) = get(h).metadata /\ exists(h)
            BY <1>1, <2>2, <3>1 DEF exists, metadata, get
        <3> QED BY <1>1, <1>2, <1>4, <3>1, <3>2, <3>3 DEF Answer
    <2>3. CASE backend = "file"
        <3>1. payload_file[s] = last.payload /\ meta_file[s] = last.metadata
            BY <1>1, <1>2, <2>3 DEF IInv, FileInv, Settled
        <3>2. exists(h) /\ metadata(h) = last.metadata /\ backend # "memory"
            BY <1>1, <2>1, <2>3, <3>1 DEF exists, metadata
        <3>3. Valid(last.metadata, last.payload)
            BY <2>1 DEF Valid, MetadataOf
        <3>4. GetFile(h) = Answer("ok", last.payload, last.metadata)
            BY <1>1, <2>1, <3>1, <3>2, <3>3 DEF GetFile
        <3> QED BY <1>2, <1>4, <3>2, <3>4 DEF get, Answer
    <2> QED BY <2>2, <2>3, BackendFacts DEF IInv, PrefixTypeOK, StorageTypeOK
<1> QED BY <1>3, <1>4

\* The storage backends answer what was last put or deleted.
THEOREM ReadsReturnLastWrite == PrefixSpec => []ReadYourWrites
<1>1. IInv => ReadYourWrites
    BY SettledReads DEF ReadYourWrites
<1> QED BY <1>1, Invariant, PTL

\* A file entry that can be read mixes at most an older metadata with a newer
\* payload of the puts since the last that completed, never the reverse.
THEOREM NoNewerMetadata == PrefixSpec => []NeverAheadOfPayload
<1>1. ASSUME IInv, backend = "file", NEW h \in Handles, get(h).result = "ok"
      PROVE  /\ \E i, j \in 1..Len(Puts(Slot(h))) :
                    /\ i <= j
                    /\ get(h).metadata = Puts(Slot(h))[i].metadata
                    /\ get(h).payload = Puts(Slot(h))[j].payload
             /\ Valid(get(h).metadata, get(h).payload)
    <2>1. PICK s \in Slots : s = Slot(h)
        BY SlotFacts
    <2>2. get(h) = GetFile(h)
        BY <1>1 DEF get
    <2>3. /\ exists(h) /\ Torn \notin {payload_file[s], meta_file[s]}
          /\ Valid(meta_file[s], payload_file[s])
          /\ get(h) = Answer("ok", payload_file[s], meta_file[s])
        <3>1. GetFile(h).result = "ok"
            BY <1>1, <2>2
        <3>2. exists(h)
            BY <3>1 DEF GetFile, Raises, Answer
        <3>3. Torn \notin {payload_file[s], meta_file[s]}
            BY <2>1, <3>1, <3>2 DEF GetFile, Raises, Answer
        <3>4. GetFile(h) = IF Valid(meta_file[s], payload_file[s])
                           THEN Answer("ok", payload_file[s], meta_file[s]) ELSE Raises("invalid")
            BY <2>1, <3>2, <3>3 DEF GetFile
        <3>5. Valid(meta_file[s], payload_file[s])
            BY <3>1, <3>4 DEF Raises, Answer
        <3> QED BY <2>2, <3>2, <3>3, <3>4, <3>5
    <2>4. get(h).payload = payload_file[s] /\ get(h).metadata = meta_file[s]
        BY <2>3 DEF Answer
    <2> QED BY <1>1, <2>1, <2>3, <2>4 DEF IInv, FileInv
<1>2. IInv => NeverAheadOfPayload
    BY <1>1 DEF NeverAheadOfPayload, Puts
<1> QED BY <1>2, Invariant, PTL

-----------------------------------------------------------------------------
(* The restore plan *)

LEMMA Shifted ==
    ASSUME NEW S, NEW p \in Seq(S), NEW m \in Seq(S)
    PROVE  /\ Len(p) \in Nat /\ Len(m) \in Nat /\ Len(p \o m) = Len(p) + Len(m)
           /\ \A i \in 1..Len(m) : (p \o m)[Len(p) + i] = m[i]
<1>1. Len(p) \in Nat /\ Len(m) \in Nat
    BY LenProperties
<1>2. Len(p \o m) = Len(p) + Len(m)
    BY ConcatProperties
<1>3. ASSUME NEW i \in 1..Len(m) PROVE (p \o m)[Len(p) + i] = m[i]
    <2>1. /\ Len(p) + i \in 1..(Len(p) + Len(m)) /\ ~(Len(p) + i <= Len(p))
          /\ (Len(p) + i) - Len(p) = i
        BY <1>1
    <2> QED BY <2>1, ConcatProperties
<1> QED BY <1>1, <1>2, <1>3

LEMMA EqualTails ==
    ASSUME NEW S, NEW a \in Seq(S), NEW b \in Seq(S), NEW x \in Seq(S), NEW y \in Seq(S),
           Len(x) = Len(y), a \o x = b \o y
    PROVE  a = b /\ x = y
<1>1. Len(a) \in Nat /\ Len(b) \in Nat /\ Len(x) \in Nat /\ Len(y) \in Nat
    BY LenProperties
<1>2. Len(a \o x) = Len(a) + Len(x) /\ Len(b \o y) = Len(b) + Len(y)
    BY ConcatProperties
<1>3. Len(a) = Len(b)
    BY <1>1, <1>2
<1>4. ASSUME NEW i \in 1..Len(x) PROVE x[i] = y[i]
    <2>1. (a \o x)[Len(a) + i] = x[i]
        BY Shifted
    <2>2. (b \o y)[Len(b) + i] = y[i]
        BY Shifted
    <2> QED BY <1>3, <2>1, <2>2
<1>5. x = y
    BY <1>4, SeqEqual
<1> QED BY <1>5, ConcatSimplifications

\* An address tells apart all that is hashed, the cache version and, in memory, the
\* model; a file name may stand for several models.
LEMMA AddressInjective ==
    ASSUME NEW a \in Identities, NEW b \in Identities,
           backend \in {"memory", "file"},
           Slot(HandleFor(a)) = Slot(HandleFor(b))
    PROVE  /\ a.prompt_hash = b.prompt_hash /\ a.token_ids_hash = b.token_ids_hash
           /\ a.cache_version = b.cache_version
           /\ backend = "memory" => a.model_id = b.model_id
<1> DEFINE Text == STRING \cup {"prefix", "/", "_", "__", "__v"}
           Prefix == <<"prefix", "/">>
           Key(id) == <<id.prompt_hash, "__", id.token_ids_hash>>
           Version(id) == <<id.cache_version>>
           Space(id) == Prefix \o id.model_id
<1>1. \A id \in Identities :
         /\ HandleFor(id).namespace = Space(id) /\ HandleFor(id).key = Key(id)
         /\ HandleFor(id).version = Version(id)
         /\ id.model_id \in Seq(Text) /\ Space(id) \in Seq(Text)
         /\ Key(id) \in Seq(Text) /\ Version(id) \in Seq(Text)
         /\ Len(Key(id)) = 3 /\ Len(Version(id)) = 1
    <2> SUFFICES ASSUME NEW id \in Identities
                 PROVE  /\ HandleFor(id).namespace = Space(id) /\ HandleFor(id).key = Key(id)
                        /\ HandleFor(id).version = Version(id)
                        /\ id.model_id \in Seq(Text) /\ Space(id) \in Seq(Text)
                        /\ Key(id) \in Seq(Text) /\ Version(id) \in Seq(Text)
                        /\ Len(Key(id)) = 3 /\ Len(Version(id)) = 1
        OBVIOUS
    <2>1. /\ HandleFor(id).namespace = Space(id) /\ HandleFor(id).key = Key(id)
          /\ HandleFor(id).version = Version(id)
        BY DEF HandleFor
    <2>2. /\ id.model_id \in Seq(STRING) /\ Space(id) \in Seq(STRING)
          /\ Key(id) \in Seq(STRING) /\ Version(id) \in Seq(STRING)
        BY <2>1, IdentitiesOK, StorageConstantsOK
    <2>3. Len(Key(id)) = 3 /\ Len(Version(id)) = 1
        OBVIOUS
    <2>4. STRING \subseteq Text
        OBVIOUS
    <2> HIDE DEF Text, Key, Version, Space
    <2>5. \A q \in Seq(STRING) : q \in Seq(Text)
        BY <2>4, SeqMonotonic
    <2> QED BY <2>1, <2>2, <2>3, <2>5
<1>2. Prefix \in Seq(Text)
    OBVIOUS
<1>3. /\ Key(a) = Key(b) => a.prompt_hash = b.prompt_hash /\ a.token_ids_hash = b.token_ids_hash
      /\ Version(a) = Version(b) => a.cache_version = b.cache_version
    OBVIOUS
<1> HIDE DEF Text, Prefix, Key, Version
<1>4. CASE backend = "memory"
    <2>1. Space(a) = Space(b) /\ Key(a) = Key(b) /\ Version(a) = Version(b)
        BY <1>1, <1>4 DEF Slot, MemoryKey
    <2>2. a.model_id = b.model_id
        BY <1>1, <1>2, <2>1, ConcatSimplifications
    <2> QED BY <1>3, <2>1, <2>2
<1>5. CASE backend = "file"
    <2> DEFINE Sep == <<"__">>
               SepV == <<"__v">>
               Safe(id) == SafeNamespace(Space(id))
    <2>1. Sep \in Seq(Text) /\ SepV \in Seq(Text) /\ Len(Sep) = 1 /\ Len(SepV) = 1
        BY DEF Text
    <2>2. \A m \in Seq(Text) : SafeNamespace(m) \in Seq(Text)
        <3> SUFFICES ASSUME NEW m \in Seq(Text) PROVE SafeNamespace(m) \in Seq(Text)
            OBVIOUS
        <3>1. DOMAIN m = 1..Len(m) /\ Len(m) \in Nat /\ \A i \in 1..Len(m) : m[i] \in Text
            BY LenProperties, ElementOfSeq
        <3>2. SafeNamespace(m) = [i \in 1..Len(m) |-> IF m[i] = "/" THEN "_" ELSE m[i]]
            BY <3>1 DEF SafeNamespace
        <3>3. SafeNamespace(m) \in [1..Len(m) -> Text]
            BY <3>1, <3>2 DEF Text
        <3> QED BY <3>1, <3>3, SeqDef
    <2>3. \A id \in Identities : Safe(id) \in Seq(Text)
        BY <1>1, <2>2
    <2>4. filename_stem(HandleFor(a)) = filename_stem(HandleFor(b))
        BY <1>5 DEF Slot
    <2>5. \A id \in Identities : filename_stem(HandleFor(id)) =
             (((Safe(id) \o Sep) \o Key(id)) \o SepV) \o Version(id)
        BY <1>1 DEF filename_stem
    <2> DEFINE P1(id) == Safe(id) \o Sep
               P2(id) == P1(id) \o Key(id)
               P3(id) == P2(id) \o SepV
    <2> HIDE DEF Sep, SepV, Safe, Space
    <2>6. \A id \in Identities : /\ P1(id) \in Seq(Text) /\ P2(id) \in Seq(Text)
                                  /\ P3(id) \in Seq(Text)
        BY <1>1, <2>1, <2>3, ConcatProperties
    <2>7. P3(a) \o Version(a) = P3(b) \o Version(b)
        BY <2>4, <2>5
    <2> HIDE DEF P1, P2, P3
    <2>8. P3(a) = P3(b) /\ Version(a) = Version(b)
        <3>1. /\ P3(a) \in Seq(Text) /\ P3(b) \in Seq(Text)
              /\ Version(a) \in Seq(Text) /\ Version(b) \in Seq(Text)
              /\ Len(Version(a)) = Len(Version(b))
            BY <1>1, <2>6
        <3> QED BY <2>7, <3>1, EqualTails
    <2>9. P2(a) \o SepV = P2(b) \o SepV
        BY <2>8 DEF P3
    <2>10. P2(a) = P2(b)
        BY <2>1, <2>6, <2>9, EqualTails
    <2>11. P1(a) \o Key(a) = P1(b) \o Key(b)
        BY <2>10 DEF P2
    <2>12. P1(a) = P1(b) /\ Key(a) = Key(b)
        <3>1. /\ P1(a) \in Seq(Text) /\ P1(b) \in Seq(Text)
              /\ Key(a) \in Seq(Text) /\ Key(b) \in Seq(Text)
              /\ Len(Key(a)) = Len(Key(b))
            BY <1>1, <2>6
        <3> QED BY <2>11, <3>1, EqualTails
    <2> QED BY <1>3, <1>5, <2>8, <2>12
<1> QED BY <1>4, <1>5

\* A plan that allows a restore leads to what was stored for the prefix expected,
\* with the dtypes and shapes expected.
THEOREM PlansFit == PrefixSpec => []PlanFitsPayload
<1>1. ASSUME IInv, NEW id \in Identities, NEW expected \in Identities,
             RestoreAllowed(id, expected), Settled(Slot(HandleFor(id)))
      PROVE  LET h == HandleFor(id)
                 by == stored[Slot(h)]
             IN  /\ Agree(by, expected, {"prompt_hash", "token_ids_hash", "cache_version"})
                 /\ backend = "memory" => by.model_id = expected.model_id
                 /\ Stated(id.summary, expected.summary) =>
                       /\ get(h).metadata.summary = expected.summary
                       /\ Slot(h) \notin touched => get(h).payload.summary = expected.summary
    <2> DEFINE h == HandleFor(id)
    <2>1. h \in Handles
        BY IdentitiesOK
    <2>2. PICK s \in Slots : s = Slot(h)
        BY SlotFacts
    <2> DEFINE last == attempts[s][1]
    <2> HIDE DEF h
    <2>3. /\ last \in GoodEntries /\ (exists(h) <=> last # Nothing)
          /\ get(h).metadata = last.metadata
          /\ s \notin touched => get(h).payload = last.payload
        BY <1>1, <2>1, <2>2, SettledReads DEF h
    <2>4. last # Nothing
        BY <1>1, <2>3 DEF RestoreAllowed, h
    <2>5. PICK by \in Identities : stored[s] = by /\ Slot(HandleFor(by)) = s
        <3>1. Len(attempts[s]) = 1
            <4>1. Settled(s)
                BY <1>1, <2>2 DEF h
            <4> QED BY <4>1 DEF Settled
        <3>2. 1 \in 1..Len(attempts[s])
            BY <3>1
        <3>3. attempts[s][1] # Nothing
            BY <2>4
        <3>4. \/ \E by \in Identities : stored[s] = by /\ Slot(HandleFor(by)) = s
              \/ \A i \in 1..Len(attempts[s]) : attempts[s][i] = Nothing
            BY <1>1 DEF IInv, StoredInv
        <3> QED BY <3>2, <3>3, <3>4
    <2>6. backend \in {"memory", "file"}
        BY <1>1, BackendFacts DEF IInv, PrefixTypeOK, StorageTypeOK
    <2>7. /\ by.prompt_hash = id.prompt_hash /\ by.token_ids_hash = id.token_ids_hash
          /\ by.cache_version = id.cache_version
          /\ backend = "memory" => by.model_id = id.model_id
        BY <2>2, <2>5, <2>6, AddressInjective DEF h
    <2>8. check_prefix_compatibility(expected, retrieve(id)) = {}
        BY <1>1 DEF RestoreAllowed
    <2>9. /\ retrieve(id).identity = id /\ retrieve(id).storage_metadata = last.metadata
        BY <2>3 DEF retrieve, h
    <2>10. /\ expected["prompt_hash"] = id["prompt_hash"]
           /\ expected["token_ids_hash"] = id["token_ids_hash"]
           /\ expected["cache_version"] = id["cache_version"]
           /\ expected["model_id"] = id["model_id"]
        BY <2>8, <2>9 DEF check_prefix_compatibility
    <2>11. /\ Stated(expected["summary"], id["summary"]) => expected["summary"] = id["summary"]
           /\ Stated(id.summary, last.metadata.summary) => id.summary = last.metadata.summary
        BY <2>8, <2>9 DEF check_prefix_compatibility
    <2>12. Agree(by, expected, {"prompt_hash", "token_ids_hash", "cache_version"})
        BY <2>7, <2>10 DEF Agree
    <2>13. /\ last.payload \in Payloads /\ last.metadata.summary = last.payload.summary
        BY <2>3, <2>4, EntryFacts DEF GoodEntries, MetadataOf
    <2>14. last.metadata.summary # NoSummary
        BY <2>13, IdentitiesOK
    <2>15. Stated(id.summary, expected.summary) =>
              /\ last.metadata.summary = expected.summary
              /\ last.payload.summary = expected.summary
        BY <2>11, <2>13, <2>14 DEF Stated
    <2> QED BY <2>2, <2>3, <2>5, <2>7, <2>10, <2>12, <2>15 DEF h
<1>2. IInv => PlanFitsPayload
    BY <1>1 DEF PlanFitsPayload
<1> QED BY <1>2, Invariant, PTL
=============================================================================
