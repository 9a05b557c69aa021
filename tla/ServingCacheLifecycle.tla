------------------------ MODULE ServingCacheLifecycle ------------------------
(***************************************************************************)
(* The lifecycle harness of exactkv/serving/cache_lifecycle.py: the book-  *)
(* keeping of a server that registers the authoritative and the compressed *)
(* cache of a request, maps each to blocks, and advances both when tokens  *)
(* are committed.  Its callers choose ids, lengths and retained positions. *)
(*                                                                         *)
(* A call that raises before it has changed anything is a stuttering step  *)
(* and has no action here; one that raises after it has drawn a cache id   *)
(* leaves the id drawn.                                                    *)
(***************************************************************************)
EXTENDS Integers, Sequences

CONSTANTS
    BlockSize,      \* harness.block_size
    Lengths,        \* the logical lengths of the caches registered
    Retentions,     \* the retained_logical_positions callers pass
    ExplicitIds,    \* the cache ids callers choose themselves
    Counts,         \* the numbers of tokens a commit appends
    MaxLogical,     \* bound: no cache grows beyond it
    MaxId           \* bound: no more ids are drawn

Owners == {"authoritative_full", "compressed_draft"}

ASSUME HarnessOK ==
    /\ BlockSize \in Nat \ {0}
    /\ Lengths \subseteq Nat
    /\ \A r \in Retentions : r \in Seq(Nat)
    /\ ExplicitIds \subseteq Owners \X Nat
    /\ Counts \subseteq Nat \ {0}

VARIABLES
    entries,            \* _entries: the registered caches by id
    authoritative_id,
    compressed_id,
    next_id             \* _next_id: how many ids were drawn

vars == <<entries, authoritative_id, compressed_id, next_id>>

NoId == <<"none", 0>>

-----------------------------------------------------------------------------
(* Block tables.  An optional mapping is a sequence of length 0 or 1. *)

AtMost(a, b) == IF a <= b THEN a ELSE b

StrictlyIncreasing(s) == \A i \in 1..(Len(s) - 1) : s[i] < s[i + 1]

validate_retained(positions, logical, physical) ==
    /\ physical < logical
    /\ Len(positions) = physical
    /\ \A i \in 1..Len(positions) : positions[i] \in 0..(logical - 1)
    /\ StrictlyIncreasing(positions)

Mapped(logical, physical, retained) ==
    retained # <<>> /\ validate_retained(retained[1], logical, physical)

\* build_blocks does not raise.
Buildable(logical, physical, retained) ==
    /\ physical <= logical
    /\ physical \in 1..(logical - 1) => Mapped(logical, physical, retained)

build_blocks(physical, retained) ==
    LET Logical(p) == IF retained = <<>> THEN p ELSE retained[1][p + 1]
    IN  [ b \in 1..((physical + BlockSize - 1) \div BlockSize) |->
            LET first == (b - 1) * BlockSize
                last == AtMost(first + BlockSize, physical) - 1
            IN  [ physical_start |-> first,          physical_end |-> last + 1,
                  logical_start  |-> Logical(first), logical_end  |-> Logical(last) + 1 ] ]

Entry(owner, logical, physical, retained) ==
    [ owner    |-> owner,    logical_seq_len            |-> logical,
      physical_seq_len |-> physical, retained_logical_positions |-> retained,
      blocks   |-> build_blocks(physical, retained) ]

-----------------------------------------------------------------------------
Init ==
    /\ entries = <<>>
    /\ authoritative_id = NoId
    /\ compressed_id = NoId
    /\ next_id = 0

\* cache_id or self._new_cache_id(owner)
EntryId(owner, cache_id) == IF cache_id = NoId THEN <<owner, next_id + 1>> ELSE cache_id

DrawId(cache_id) == next_id' = IF cache_id = NoId THEN next_id + 1 ELSE next_id

\* The entry with this id belongs to the other owner.
Fault_NoOwnerCheck(id, owner) == FALSE
Clashes(id, owner) == id \in DOMAIN entries /\ entries[id].owner # owner

Registered(id, entry) ==
    entries' = [i \in DOMAIN entries \cup {id} |-> IF i = id THEN entry ELSE entries[i]]

\* register_authoritative_full of a state whose cache covers all its tokens; the
\* others raise first of all.
RegisterAuthoritative(logical, cache_id) ==
    LET id == EntryId("authoritative_full", cache_id)
    IN  /\ ~Clashes(id, "authoritative_full")
        /\ DrawId(cache_id)
        /\ Registered(id, Entry("authoritative_full", logical, logical, <<>>))
        /\ authoritative_id' = id
        /\ UNCHANGED compressed_id

\* register_compressed_cache; a mapping is looked at only for a pruned cache.
Mapping(logical, physical, retained) == IF physical < logical THEN retained ELSE <<>>

Fault_MappingMayBeMissing(logical, physical, retained) ==
    /\ physical <= logical
    /\ physical < logical /\ retained # <<>> => Mapped(logical, physical, retained)
Registrable(logical, physical, retained) ==
    /\ physical <= logical
    /\ physical < logical => Mapped(logical, physical, retained)

RegisterCompressed(logical, physical, retained, cache_id) ==
    LET id == EntryId("compressed_draft", cache_id)
    IN  /\ ~Clashes(id, "compressed_draft")
        /\ Registrable(logical, physical, retained)
        /\ DrawId(cache_id)
        /\ Registered(id, Entry("compressed_draft", logical, physical,
                                Mapping(logical, physical, retained)))
        /\ compressed_id' = id
        /\ UNCHANGED authoritative_id

\* A registration under a new id raises once the id is drawn: the id is taken by
\* the other owner, or the compressed cache's mapping is missing or wrong.
AuthoritativeRaises ==
    /\ Clashes(EntryId("authoritative_full", NoId), "authoritative_full")
    /\ DrawId(NoId)
    /\ UNCHANGED <<entries, authoritative_id, compressed_id>>

CompressedRaises(logical, physical, retained) ==
    /\ \/ Clashes(EntryId("compressed_draft", NoId), "compressed_draft")
       \/ ~Registrable(logical, physical, retained)
    /\ DrawId(NoId)
    /\ UNCHANGED <<entries, authoritative_id, compressed_id>>

\* append_committed_tokens advances every registered cache, also those that a
\* later registration has replaced; a pruned cache grows only logically.
Fault_ForgetsMapping(e, count) ==
    Entry(e.owner, e.logical_seq_len + count,
          IF e.physical_seq_len = e.logical_seq_len THEN e.physical_seq_len + count
          ELSE e.physical_seq_len, <<>>)
Fault_PrunedStays(e, count) ==
    IF e.physical_seq_len < e.logical_seq_len THEN e
    ELSE Entry(e.owner, e.logical_seq_len + count, e.physical_seq_len + count, <<>>)
Fault_StaleBlocks(e, count) ==
    [e EXCEPT !.logical_seq_len = @ + count, !.physical_seq_len = @ + count]
Advanced(e, count) ==
    LET was_identity == /\ e.retained_logical_positions = <<>>
                        /\ e.physical_seq_len = e.logical_seq_len
    IN  Entry(e.owner, e.logical_seq_len + count,
              IF was_identity THEN e.physical_seq_len + count ELSE e.physical_seq_len,
              e.retained_logical_positions)

AppendCommittedTokens(count) ==
    /\ \A id \in DOMAIN entries : entries[id].logical_seq_len + count <= MaxLogical
    /\ entries' = [id \in DOMAIN entries |-> Advanced(entries[id], count)]
    /\ UNCHANGED <<authoritative_id, compressed_id, next_id>>

MayDraw == IF next_id < MaxId THEN {NoId} ELSE {}

Next ==
    \/ \E n \in Lengths, id \in ExplicitIds \cup MayDraw : RegisterAuthoritative(n, id)
    \/ \E n \in Lengths, r \in {<<>>} \cup {<<p>> : p \in Retentions} :
       \E k \in 0..(n + 1), id \in ExplicitIds \cup MayDraw : RegisterCompressed(n, k, r, id)
    \/ MayDraw # {} /\ AuthoritativeRaises
    \/ /\ MayDraw # {}
       /\ \E n \in Lengths, r \in {<<>>} \cup {<<p>> : p \in Retentions} :
          \E k \in 0..(n + 1) : CompressedRaises(n, k, r)
    \/ \E count \in Counts : AppendCommittedTokens(count)

Spec == Init /\ [][Next]_vars

-----------------------------------------------------------------------------
(* validate_invariants(), one operator for each thing it may raise about *)

BlocksMalformed ==
    \E id \in DOMAIN entries : \E b \in 1..Len(entries[id].blocks) :
        LET block == entries[id].blocks[b]
        IN  \/ block.logical_start < 0 \/ block.physical_start < 0
            \/ block.logical_end <= block.logical_start
            \/ block.physical_end <= block.physical_start

Oversized ==
    \E id \in DOMAIN entries : entries[id].physical_seq_len > entries[id].logical_seq_len

PrunedWithoutMapping ==
    \E id \in DOMAIN entries :
        /\ entries[id].physical_seq_len < entries[id].logical_seq_len
        /\ entries[id].retained_logical_positions = <<>>

WrongOwner ==
    \/ authoritative_id # NoId /\ entries[authoritative_id].owner # "authoritative_full"
    \/ compressed_id # NoId /\ entries[compressed_id].owner # "compressed_draft"

NotSeparate == compressed_id # NoId /\ compressed_id = authoritative_id

LengthsDiffer ==
    /\ authoritative_id # NoId
    /\ compressed_id # NoId
    /\ entries[authoritative_id].logical_seq_len # entries[compressed_id].logical_seq_len

invariants_valid ==
    ~ \/ authoritative_id = NoId
      \/ BlocksMalformed \/ Oversized \/ PrunedWithoutMapping
      \/ WrongOwner \/ NotSeparate \/ LengthsDiffer

-----------------------------------------------------------------------------
(* Properties *)

\* The class comment of ServingCacheLifecycleHarness: "the compressed_draft entry
\* must never overwrite authoritative storage".  An id keeps its owner for good,
\* even if callers choose ids the harness would have drawn, and an entry changes
\* only when it is registered again or when tokens are appended to all.
OwnersKeepTheirEntries ==
    [][\A id \in DOMAIN entries :
         /\ id \in DOMAIN entries'
         /\ entries'[id].owner = entries[id].owner
         /\ entries'[id] # entries[id] =>
               \/ id = authoritative_id' /\ entries'[id].owner = "authoritative_full"
               \/ id = compressed_id' /\ entries'[id].owner = "compressed_draft"
               \/ entries'[id].logical_seq_len > entries[id].logical_seq_len]_vars

\* The block table of every entry, also of one whose cache was pruned and has
\* grown since: it covers the physical positions in order, without a gap, in
\* blocks of BlockSize but the last; its logical ranges are disjoint, ordered and
\* within the logical length; and each physical position's logical position lies
\* in its own block's range.
BlocksMapEntry ==
    \A id \in DOMAIN entries :
        LET e == entries[id]
            n == Len(e.blocks)
        IN  /\ IF n = 0 THEN e.physical_seq_len = 0
               ELSE /\ e.blocks[1].physical_start = 0
                    /\ e.blocks[n].physical_end = e.physical_seq_len
                    /\ e.blocks[n].logical_end <= e.logical_seq_len
            /\ \A b \in 1..n :
                  LET block == e.blocks[b]
                  IN  /\ block.physical_end - block.physical_start \in 1..BlockSize
                      /\ b < n =>
                            /\ block.physical_end - block.physical_start = BlockSize
                            /\ e.blocks[b + 1].physical_start = block.physical_end
                            /\ e.blocks[b + 1].logical_start >= block.logical_end
                      /\ \A p \in block.physical_start..(block.physical_end - 1) :
                            (IF e.retained_logical_positions = <<>> THEN p
                             ELSE e.retained_logical_positions[1][p + 1])
                            \in block.logical_start..(block.logical_end - 1)

\* append_committed_tokens updates the entries in place, one after the other, and
\* calls build_blocks for each: if that raised for one of them, the others would
\* be left ahead of it.  It never raises, whatever was registered before.
AppendCannotFail ==
    \A id \in DOMAIN entries, count \in Counts :
        LET e == Advanced(entries[id], count)
        IN  Buildable(e.logical_seq_len, e.physical_seq_len, e.retained_logical_positions)

\* validate_invariants() fails only for want of an authoritative entry or because
\* the two current entries have different logical lengths: nothing a caller does
\* brings about the other failures.
ValidityExplained == invariants_valid <=> authoritative_id # NoId /\ ~LengthsDiffer

\* Committing tokens neither aligns nor misaligns the two current entries, even
\* when one of them is pruned and the other is not: only registrations do.
CommitKeepsAlignment ==
    [][(\E count \in Counts : AppendCommittedTokens(count)) =>
           (LengthsDiffer' <=> LengthsDiffer)]_vars
=============================================================================
