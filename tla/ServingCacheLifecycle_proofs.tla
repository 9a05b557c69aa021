-------------------- MODULE ServingCacheLifecycle_proofs --------------------
(***************************************************************************)
(* Proofs about the serving cache lifecycle, for every block size, every   *)
(* choice of lengths, ids, retained positions and counts, without bounds.  *)
(*                                                                         *)
(* Every property follows from one inductive invariant: each entry is one  *)
(* that build_blocks accepts, with the block table build_blocks returns    *)
(* for it, and the current ids name entries of their owners.  What the     *)
(* block tables look like (BlocksMapEntry) then follows from two lemmas on *)
(* build_blocks: retained positions compared neighbour by neighbour are    *)
(* increasing over any distance (by induction), and the division that      *)
(* counts the blocks leaves none empty and no position out.                *)
(***************************************************************************)
EXTENDS ServingCacheLifecycle, SharedLemmas

-----------------------------------------------------------------------------
(* Lemmas on block tables *)

\* StrictlyIncreasing compares neighbours; this compares any two elements.
LEMMA IncreasingPairs ==
    ASSUME NEW s \in Seq(Nat), StrictlyIncreasing(s)
    PROVE  \A i, j \in 1..Len(s) : i <= j => s[j] - s[i] >= j - i
<1> DEFINE T == {d \in Nat : \A i \in 1..Len(s) : i + d \in 1..Len(s) => s[i + d] - s[i] >= d}
<1>1. 0 \in T
    OBVIOUS
<1>2. ASSUME NEW d \in T PROVE d + 1 \in T
    <2> SUFFICES ASSUME NEW i \in 1..Len(s), i + (d + 1) \in 1..Len(s)
                 PROVE  s[i + (d + 1)] - s[i] >= d + 1
        OBVIOUS
    <2>1. i + d \in 1..(Len(s) - 1) /\ i + d \in 1..Len(s) /\ (i + d) + 1 = i + (d + 1)
        OBVIOUS
    <2>2. s[i + d] < s[i + (d + 1)]
        BY <2>1 DEF StrictlyIncreasing
    <2>3. s[i + d] - s[i] >= d
        BY <2>1
    <2>4. s[i] \in Nat /\ s[i + d] \in Nat /\ s[i + (d + 1)] \in Nat /\ d \in Nat
        BY <2>1
    <2> QED BY <2>2, <2>3, <2>4
<1>3. T = Nat
    <2> HIDE DEF T
    <2>1. T \in SUBSET Nat
        BY DEF T
    <2> QED BY <1>1, <1>2, <2>1, SetInduction
<1>4. ASSUME NEW i \in 1..Len(s), NEW j \in 1..Len(s), i <= j
      PROVE  s[j] - s[i] >= j - i
    <2>1. j - i \in Nat /\ i + (j - i) = j
        BY <1>4
    <2>2. j - i \in T
        <3> HIDE DEF T
        <3> QED BY <1>3, <2>1
    <2> QED BY <2>1, <2>2
<1> QED BY <1>4

\* The number of blocks: physical positions rounded up to whole blocks.
LEMMA BlockCount ==
    ASSUME NEW p \in Nat
    PROVE  LET n == (p + BlockSize - 1) \div BlockSize
           IN  /\ n \in Nat
               /\ BlockSize * n >= p
               /\ BlockSize * n < p + BlockSize
<1> USE HarnessOK
<1>1. p + BlockSize - 1 \in Nat
    OBVIOUS
<1> QED BY <1>1

\* The blocks of an entry, position by position.
ValidEntry(logical, physical, retained) ==
    /\ logical \in Nat /\ physical \in Nat /\ physical <= logical
    /\ physical = logical => retained = <<>>
    /\ physical < logical =>
          /\ retained \in {<<p>> : p \in Seq(Nat)}
          /\ validate_retained(retained[1], logical, physical)

Position(retained, p) == IF retained = <<>> THEN p ELSE retained[1][p + 1]

\* Logical positions grow with the physical ones and stay within the cache.
LEMMA PositionsIncrease ==
    ASSUME NEW logical, NEW physical, NEW retained, ValidEntry(logical, physical, retained)
    PROVE  /\ \A p \in 0..(physical - 1) : Position(retained, p) \in 0..(logical - 1)
           /\ \A p, q \in 0..(physical - 1) :
                 p <= q => Position(retained, q) - Position(retained, p) >= q - p
<1>1. CASE physical = logical
    BY <1>1 DEF ValidEntry, Position
<1>2. CASE physical < logical
    <2>1. PICK s \in Seq(Nat) : retained = <<s>>
        BY <1>2 DEF ValidEntry
    <2>2. /\ Len(s) = physical
          /\ \A i \in 1..Len(s) : s[i] \in 0..(logical - 1)
          /\ StrictlyIncreasing(s)
        BY <1>2, <2>1 DEF ValidEntry, validate_retained
    <2>3. \A i, j \in 1..Len(s) : i <= j => s[j] - s[i] >= j - i
        BY <2>2, IncreasingPairs
    <2>4. retained # <<>> /\ retained[1] = s
        BY <2>1
    <2>5. \A p : Position(retained, p) = s[p + 1]
        BY <2>4 DEF Position
    <2>6. physical \in Nat /\ logical \in Nat
        BY DEF ValidEntry
    <2>7. \A p \in 0..(physical - 1) : p + 1 \in 1..Len(s)
        BY <2>2, <2>6
    <2>8. ASSUME NEW p \in 0..(physical - 1), NEW q \in 0..(physical - 1), p <= q
          PROVE  s[q + 1] - s[p + 1] >= q - p
        <3>1. s[q + 1] - s[p + 1] >= (q + 1) - (p + 1)
            BY <2>3, <2>7, <2>8
        <3> QED BY <3>1
    <2> QED BY <2>2, <2>5, <2>7, <2>8
<1> QED BY <1>1, <1>2 DEF ValidEntry

\* The physical positions of block b of a cache.
First(b) == (b - 1) * BlockSize
Last(b, physical) == AtMost(First(b) + BlockSize, physical) - 1

\* The blocks tile the physical positions.
LEMMA BlocksTile ==
    ASSUME NEW physical \in Nat, NEW n \in Nat,
           BlockSize * n >= physical, BlockSize * n < physical + BlockSize, NEW b \in 1..n
    PROVE  /\ First(b) \in 0..(physical - 1)
           /\ Last(b, physical) \in First(b)..(physical - 1)
           /\ Last(b, physical) + 1 - First(b) \in 1..BlockSize
           /\ b = 1 => First(b) = 0
           /\ b = n => Last(b, physical) = physical - 1
           /\ b < n => /\ Last(b, physical) + 1 - First(b) = BlockSize
                       /\ First(b + 1) = Last(b, physical) + 1
<1>0. BlockSize \in Nat \ {0}
    BY HarnessOK
<1>1. First(b) \in Nat /\ First(b) + BlockSize = b * BlockSize /\ First(b + 1) = b * BlockSize
    BY <1>0 DEF First
<1>2. b * BlockSize <= n * BlockSize
    BY <1>0
<1>3. First(b) < physical
    BY <1>0, <1>1, <1>2
<1>4. b < n => b * BlockSize <= (n - 1) * BlockSize /\ (n - 1) * BlockSize < physical
    BY <1>0
<1>5. b = n => physical <= b * BlockSize
    BY <1>0
<1>6. b * BlockSize \in Nat /\ (n - 1) * BlockSize \in Int
    BY <1>0
<1>7. b = 1 => First(b) = 0
    BY <1>0 DEF First
<1> QED BY <1>0, <1>1, <1>3, <1>4, <1>5, <1>6, <1>7 DEF Last, AtMost

\* What build_blocks returns.
LEMMA BlocksOf ==
    ASSUME NEW physical \in Nat, NEW retained
    PROVE  LET blocks == build_blocks(physical, retained)
               n == Len(blocks)
           IN  /\ n \in Nat /\ BlockSize * n >= physical /\ BlockSize * n < physical + BlockSize
               /\ \A b \in 1..n :
                     /\ blocks[b].physical_start = First(b)
                     /\ blocks[b].physical_end = Last(b, physical) + 1
                     /\ blocks[b].logical_start = Position(retained, First(b))
                     /\ blocks[b].logical_end = Position(retained, Last(b, physical)) + 1
<1> DEFINE n == (physical + BlockSize - 1) \div BlockSize
<1>1. n \in Nat /\ BlockSize * n >= physical /\ BlockSize * n < physical + BlockSize
    BY BlockCount
<1>2. build_blocks(physical, retained) =
        [ b \in 1..n |-> [ physical_start |-> First(b), physical_end |-> Last(b, physical) + 1,
                           logical_start |-> Position(retained, First(b)),
                           logical_end |-> Position(retained, Last(b, physical)) + 1 ] ]
    BY DEF build_blocks, Position, First, Last
<1> HIDE DEF n
<1>3. Len(build_blocks(physical, retained)) = n
    BY <1>1, <1>2
<1> QED BY <1>1, <1>2, <1>3

-----------------------------------------------------------------------------
(* The inductive invariant *)

GoodEntry(e) ==
    /\ e.owner \in Owners
    /\ ValidEntry(e.logical_seq_len, e.physical_seq_len, e.retained_logical_positions)
    /\ e.blocks = build_blocks(e.physical_seq_len, e.retained_logical_positions)

Current(id, owner) == id = NoId \/ (id \in DOMAIN entries /\ entries[id].owner = owner)

IInv ==
    /\ DOMAIN entries \subseteq Owners \X Nat
    /\ next_id \in Nat
    /\ \A id \in DOMAIN entries : GoodEntry(entries[id])
    /\ Current(authoritative_id, "authoritative_full")
    /\ Current(compressed_id, "compressed_draft")

LEMMA EntryIsGood ==
    ASSUME NEW owner \in Owners, NEW logical, NEW physical, NEW retained,
           ValidEntry(logical, physical, retained)
    PROVE  LET e == Entry(owner, logical, physical, retained)
           IN  /\ GoodEntry(e) /\ e.owner = owner
               /\ e.logical_seq_len = logical /\ e.physical_seq_len = physical
               /\ e.retained_logical_positions = retained
BY DEF Entry, GoodEntry

\* A registration is accepted only with an entry that is valid.
LEMMA RegistrableIsValid ==
    ASSUME NEW logical \in Lengths, NEW physical \in Nat,
           NEW retained \in {<<>>} \cup {<<p>> : p \in Retentions},
           Registrable(logical, physical, retained)
    PROVE  ValidEntry(logical, physical, Mapping(logical, physical, retained))
<1>1. logical \in Nat /\ \A r \in Retentions : r \in Seq(Nat)
    BY HarnessOK
<1>2. CASE physical < logical
    <2>1. retained # <<>> /\ validate_retained(retained[1], logical, physical)
        BY <1>2 DEF Registrable, Mapped
    <2>2. retained \in {<<p>> : p \in Seq(Nat)}
        BY <1>1, <2>1
    <2> QED BY <1>1, <1>2, <2>1, <2>2 DEF ValidEntry, Mapping, Registrable
<1>3. CASE ~ (physical < logical)
    BY <1>1, <1>3 DEF ValidEntry, Mapping, Registrable
<1> QED BY <1>2, <1>3

\* Tokens appended to a valid entry leave it valid and advance it by their number.
LEMMA AdvancedIsGood ==
    ASSUME NEW e, GoodEntry(e), NEW count \in Nat \ {0}
    PROVE  /\ GoodEntry(Advanced(e, count))
           /\ Advanced(e, count).owner = e.owner
           /\ Advanced(e, count).logical_seq_len = e.logical_seq_len + count
<1> DEFINE logical == e.logical_seq_len
           physical == e.physical_seq_len
           retained == e.retained_logical_positions
           grown == IF retained = <<>> /\ physical = logical THEN physical + count
                    ELSE physical
<1>1. e.owner \in Owners /\ ValidEntry(logical, physical, retained)
    BY DEF GoodEntry
<1>2. Advanced(e, count) = Entry(e.owner, logical + count, grown, retained)
    BY DEF Advanced
<1>3. ValidEntry(logical + count, grown, retained)
    <2>1. CASE physical = logical
        BY <1>1, <2>1 DEF ValidEntry
    <2>2. CASE physical < logical
        <3>1. PICK s \in Seq(Nat) : retained = <<s>>
            BY <1>1, <2>2 DEF ValidEntry
        <3>2. validate_retained(s, logical, physical)
            BY <1>1, <2>2, <3>1 DEF ValidEntry
        <3>3. logical \in Nat /\ physical \in Nat /\ grown = physical
            BY <1>1, <2>2 DEF ValidEntry
        <3>4. validate_retained(s, logical + count, physical)
            BY <3>2, <3>3 DEF validate_retained
        <3> QED BY <2>2, <3>1, <3>3, <3>4 DEF ValidEntry
    <2> QED BY <1>1, <2>1, <2>2 DEF ValidEntry
<1> QED BY <1>1, <1>2, <1>3, EntryIsGood

\* The id an entry is registered under.
LEMMA EntryIdType ==
    ASSUME NEW owner \in Owners, NEW id \in ExplicitIds \cup MayDraw, next_id \in Nat
    PROVE  /\ EntryId(owner, id) \in Owners \X Nat
           /\ DrawId(id) => next_id' \in Nat
BY HarnessOK DEF EntryId, DrawId, MayDraw, NoId, Owners

LEMMA RegisteredKeeps ==
    ASSUME IInv, NEW owner \in Owners, NEW id \in Owners \X Nat, NEW entry,
           GoodEntry(entry), entry.owner = owner, ~Clashes(id, owner), Registered(id, entry)
    PROVE  /\ DOMAIN entries' = DOMAIN entries \cup {id}
           /\ entries'[id] = entry
           /\ \A i \in DOMAIN entries : i # id => entries'[i] = entries[i]
           /\ \A i \in DOMAIN entries : entries'[i].owner = entries[i].owner
           /\ DOMAIN entries' \subseteq Owners \X Nat
           /\ \A i \in DOMAIN entries' : GoodEntry(entries'[i])
<1>1. DOMAIN entries' = DOMAIN entries \cup {id}
    BY DEF Registered
<1>2. entries'[id] = entry /\ \A i \in DOMAIN entries : i # id => entries'[i] = entries[i]
    BY DEF Registered
<1>3. id \in DOMAIN entries => entries[id].owner = owner
    BY DEF Clashes
<1> QED BY <1>1, <1>2, <1>3 DEF IInv

LEMMA Initial == Init => IInv
BY DEF Init, IInv, Current

\* A registration, by either owner, of a valid entry.
LEMMA RegistrationInv ==
    ASSUME IInv, NEW owner \in Owners, NEW n, NEW k, NEW mapping, ValidEntry(n, k, mapping),
           NEW cache_id \in ExplicitIds \cup MayDraw, DrawId(cache_id),
           ~Clashes(EntryId(owner, cache_id), owner),
           Registered(EntryId(owner, cache_id), Entry(owner, n, k, mapping)),
           owner = "authoritative_full" =>
               authoritative_id' = EntryId(owner, cache_id) /\ UNCHANGED compressed_id,
           owner = "compressed_draft" =>
               compressed_id' = EntryId(owner, cache_id) /\ UNCHANGED authoritative_id
    PROVE  IInv'
<1> DEFINE id == EntryId(owner, cache_id)
           entry == Entry(owner, n, k, mapping)
<1>1. next_id \in Nat
    BY DEF IInv
<1>2. id \in Owners \X Nat /\ next_id' \in Nat
    BY <1>1, EntryIdType
<1>3. GoodEntry(entry) /\ entry.owner = owner
    BY EntryIsGood
<1>4. ~Clashes(id, owner) /\ Registered(id, entry)
    OBVIOUS
<1> HIDE DEF id, entry
<1>5. /\ DOMAIN entries' = DOMAIN entries \cup {id}
      /\ entries'[id] = entry
      /\ \A i \in DOMAIN entries : entries'[i].owner = entries[i].owner
      /\ DOMAIN entries' \subseteq Owners \X Nat
      /\ \A i \in DOMAIN entries' : GoodEntry(entries'[i])
    BY <1>2, <1>3, <1>4, RegisteredKeeps
<1>6. Current(authoritative_id, "authoritative_full")' /\ Current(compressed_id, "compressed_draft")'
    <2>1. CASE owner = "authoritative_full"
        BY <1>3, <1>5, <2>1 DEF IInv, Current, id
    <2>2. CASE owner = "compressed_draft"
        BY <1>3, <1>5, <2>2 DEF IInv, Current, id
    <2> QED BY <2>1, <2>2 DEF Owners
<1> QED BY <1>2, <1>5, <1>6 DEF IInv

\* One step of each kind.
LEMMA RegisterAuthoritativeInv ==
    ASSUME IInv, NEW n \in Lengths, NEW cache_id \in ExplicitIds \cup MayDraw,
           RegisterAuthoritative(n, cache_id)
    PROVE  IInv'
<1>1. ValidEntry(n, n, <<>>)
    BY HarnessOK DEF ValidEntry
<1> QED BY <1>1, RegistrationInv, Zenon DEF RegisterAuthoritative, Owners

LEMMA RegisterCompressedInv ==
    ASSUME IInv, NEW n \in Lengths, NEW k \in Nat,
           NEW r \in {<<>>} \cup {<<p>> : p \in Retentions},
           NEW cache_id \in ExplicitIds \cup MayDraw,
           RegisterCompressed(n, k, r, cache_id)
    PROVE  IInv'
<1>1. ValidEntry(n, k, Mapping(n, k, r))
    BY RegistrableIsValid DEF RegisterCompressed
<1> QED BY <1>1, RegistrationInv, Zenon DEF RegisterCompressed, Owners

\* A commit advances every entry by the same number of tokens.
LEMMA AppendAdvancesAll ==
    ASSUME IInv, NEW count \in Counts, AppendCommittedTokens(count)
    PROVE  /\ DOMAIN entries' = DOMAIN entries
           /\ \A id \in DOMAIN entries :
                 /\ GoodEntry(entries'[id])
                 /\ entries'[id].owner = entries[id].owner
                 /\ entries'[id].logical_seq_len = entries[id].logical_seq_len + count
           /\ count \in Nat \ {0}
<1>1. count \in Nat \ {0}
    BY HarnessOK
<1>2. entries' = [id \in DOMAIN entries |-> Advanced(entries[id], count)]
    BY DEF AppendCommittedTokens
<1> QED BY <1>1, <1>2, AdvancedIsGood DEF IInv

LEMMA AppendInv ==
    ASSUME IInv, NEW count \in Counts, AppendCommittedTokens(count)
    PROVE  IInv'
<1>1. /\ DOMAIN entries' = DOMAIN entries
      /\ \A id \in DOMAIN entries :
            GoodEntry(entries'[id]) /\ entries'[id].owner = entries[id].owner
    BY AppendAdvancesAll
<1>2. UNCHANGED <<authoritative_id, compressed_id, next_id>>
    BY DEF AppendCommittedTokens
<1>3. Current(authoritative_id, "authoritative_full")' /\ Current(compressed_id, "compressed_draft")'
    BY <1>1, <1>2 DEF IInv, Current
<1> QED BY <1>1, <1>2, <1>3 DEF IInv

\* A call that raises after drawing an id leaves everything else alone.
LEMMA RaisesInv ==
    ASSUME IInv, DrawId(NoId), UNCHANGED <<entries, authoritative_id, compressed_id>>
    PROVE  IInv'
BY DEF IInv, DrawId, Current

LEMMA Inductive == IInv /\ [Next]_vars => IInv'
<1> SUFFICES ASSUME IInv, [Next]_vars PROVE IInv'
    OBVIOUS
<1>1. CASE \E n \in Lengths, id \in ExplicitIds \cup MayDraw : RegisterAuthoritative(n, id)
    BY <1>1, RegisterAuthoritativeInv
<1>2. CASE \E n \in Lengths, r \in {<<>>} \cup {<<p>> : p \in Retentions} :
           \E k \in 0..(n + 1), id \in ExplicitIds \cup MayDraw :
               RegisterCompressed(n, k, r, id)
    <2>1. PICK n \in Lengths, r \in {<<>>} \cup {<<p>> : p \in Retentions} :
               \E k \in 0..(n + 1), id \in ExplicitIds \cup MayDraw :
                   RegisterCompressed(n, k, r, id)
        BY <1>2
    <2>2. PICK k \in 0..(n + 1), id \in ExplicitIds \cup MayDraw :
               RegisterCompressed(n, k, r, id)
        BY <2>1
    <2>3. k \in Nat
        BY HarnessOK
    <2> QED BY <2>2, <2>3, RegisterCompressedInv
<1>3. CASE AuthoritativeRaises
    BY <1>3, RaisesInv DEF AuthoritativeRaises
<1>4. CASE \E n \in Lengths, r \in {<<>>} \cup {<<p>> : p \in Retentions} :
           \E k \in 0..(n + 1) : CompressedRaises(n, k, r)
    BY <1>4, RaisesInv DEF CompressedRaises
<1>5. CASE \E count \in Counts : AppendCommittedTokens(count)
    BY <1>5, AppendInv
<1>6. CASE UNCHANGED vars
    BY <1>6 DEF vars, IInv, Current
<1> QED BY <1>1, <1>2, <1>3, <1>4, <1>5, <1>6 DEF Next

\* The invariant holds in every reachable state.
LEMMA Invariant == Spec => []IInv
BY Initial, Inductive, PTL DEF Spec

-----------------------------------------------------------------------------
(* The properties *)

\* append_committed_tokens never raises between two entries: build_blocks accepts
\* what every registered entry becomes.
THEOREM AppendNeverFails == Spec => []AppendCannotFail
<1>1. IInv => AppendCannotFail
    <2> SUFFICES ASSUME IInv, NEW id \in DOMAIN entries, NEW count \in Counts
                 PROVE  LET e == Advanced(entries[id], count)
                        IN  Buildable(e.logical_seq_len, e.physical_seq_len,
                                      e.retained_logical_positions)
        BY DEF AppendCannotFail
    <2>1. GoodEntry(Advanced(entries[id], count))
        BY HarnessOK, AdvancedIsGood DEF IInv
    <2> QED BY <2>1 DEF GoodEntry, ValidEntry, Buildable, Mapped
<1> QED BY <1>1, Invariant, PTL

\* The block table of every entry maps each physical position to a block that
\* covers its logical position, without gaps and in order.
THEOREM BlocksMapEveryEntry == Spec => []BlocksMapEntry
<1>1. IInv => BlocksMapEntry
    <2> SUFFICES ASSUME IInv, NEW id \in DOMAIN entries
                 PROVE  LET e == entries[id]
                            n == Len(e.blocks)
                        IN  /\ IF n = 0 THEN e.physical_seq_len = 0
                               ELSE /\ e.blocks[1].physical_start = 0
                                    /\ e.blocks[n].physical_end = e.physical_seq_len
                                    /\ e.blocks[n].logical_end <= e.logical_seq_len
                            /\ \A b \in 1..n :
                                  LET block == e.blocks[b]
                                  IN  /\ block.physical_end - block.physical_start
                                            \in 1..BlockSize
                                      /\ b < n =>
                                            /\ block.physical_end - block.physical_start
                                                  = BlockSize
                                            /\ e.blocks[b + 1].physical_start
                                                  = block.physical_end
                                            /\ e.blocks[b + 1].logical_start
                                                  >= block.logical_end
                                      /\ \A p \in block.physical_start
                                                  ..(block.physical_end - 1) :
                                            (IF e.retained_logical_positions = <<>> THEN p
                                             ELSE e.retained_logical_positions[1][p + 1])
                                            \in block.logical_start..(block.logical_end - 1)
        BY DEF BlocksMapEntry
    <2> DEFINE e == entries[id]
               logical == e.logical_seq_len
               physical == e.physical_seq_len
               retained == e.retained_logical_positions
               blocks == e.blocks
               n == Len(blocks)
               last(b) == Last(b, physical)
    <2>1. ValidEntry(logical, physical, retained) /\ blocks = build_blocks(physical, retained)
        BY DEF IInv, GoodEntry
    <2>2. logical \in Nat /\ physical \in Nat /\ physical <= logical /\ BlockSize \in Nat \ {0}
        BY <2>1, HarnessOK DEF ValidEntry
    <2> HIDE DEF e, logical, physical, retained, blocks
    <2>3. /\ n \in Nat /\ BlockSize * n >= physical /\ BlockSize * n < physical + BlockSize
          /\ \A b \in 1..n :
                /\ blocks[b].physical_start = First(b)
                /\ blocks[b].physical_end = last(b) + 1
                /\ blocks[b].logical_start = Position(retained, First(b))
                /\ blocks[b].logical_end = Position(retained, last(b)) + 1
        BY <2>1, <2>2, BlocksOf
    <2>4. /\ \A p \in 0..(physical - 1) : Position(retained, p) \in 0..(logical - 1)
          /\ \A p, q \in 0..(physical - 1) :
                p <= q => Position(retained, q) - Position(retained, p) >= q - p
        BY <2>1, PositionsIncrease
    <2>5. n = 0 => physical = 0
        BY <2>2, <2>3
    <2> HIDE DEF last, n
    <2>6. ASSUME NEW b \in 1..n
          PROVE  /\ First(b) \in 0..(physical - 1)
                 /\ last(b) \in First(b)..(physical - 1)
                 /\ last(b) + 1 - First(b) \in 1..BlockSize
                 /\ b = 1 => First(b) = 0
                 /\ b = n => last(b) = physical - 1
                 /\ b < n => /\ last(b) + 1 - First(b) = BlockSize
                             /\ First(b + 1) = last(b) + 1
        BY <2>2, <2>3, BlocksTile DEF last
    <2>7. n # 0 => 1 \in 1..n /\ n \in 1..n
        BY <2>3
    <2>8. IF n = 0 THEN physical = 0
          ELSE /\ blocks[1].physical_start = 0
               /\ blocks[n].physical_end = physical
               /\ blocks[n].logical_end <= logical
        <3>1. CASE n # 0
            <4>1. /\ blocks[1].physical_start = 0 /\ last(n) = physical - 1
                  /\ last(n) \in 0..(physical - 1)
                BY <2>2, <2>3, <2>6, <2>7, <3>1
            <4>2. Position(retained, last(n)) \in 0..(logical - 1)
                BY <2>4, <4>1
            <4> QED BY <2>2, <2>3, <2>7, <3>1, <4>1, <4>2
        <3> QED BY <2>5, <3>1
    <2>9. ASSUME NEW b \in 1..n
          PROVE  /\ blocks[b].physical_end - blocks[b].physical_start \in 1..BlockSize
                 /\ b < n => /\ blocks[b].physical_end - blocks[b].physical_start = BlockSize
                             /\ blocks[b + 1].physical_start = blocks[b].physical_end
                             /\ blocks[b + 1].logical_start >= blocks[b].logical_end
                 /\ \A p \in blocks[b].physical_start..(blocks[b].physical_end - 1) :
                       (IF retained = <<>> THEN p ELSE retained[1][p + 1])
                       \in blocks[b].logical_start..(blocks[b].logical_end - 1)
        <3>1. /\ First(b) \in 0..(physical - 1) /\ last(b) \in First(b)..(physical - 1)
              /\ last(b) \in 0..(physical - 1)
            BY <2>2, <2>6
        <3>2. /\ Position(retained, First(b)) \in 0..(logical - 1)
              /\ Position(retained, last(b)) \in 0..(logical - 1)
            BY <2>4, <3>1
        <3>3. ASSUME NEW p \in First(b)..last(b)
              PROVE  Position(retained, p)
                     \in Position(retained, First(b))..Position(retained, last(b))
            <4>1. p \in 0..(physical - 1) /\ First(b) <= p /\ p <= last(b)
                BY <2>2, <3>1
            <4>2. /\ Position(retained, p) - Position(retained, First(b)) >= p - First(b)
                  /\ Position(retained, last(b)) - Position(retained, p) >= last(b) - p
                  /\ Position(retained, p) \in 0..(logical - 1)
                BY <2>4, <3>1, <4>1
            <4> QED BY <2>2, <3>1, <3>2, <4>1, <4>2
        <3>4. ASSUME b < n
              PROVE  /\ blocks[b + 1].physical_start = last(b) + 1
                     /\ blocks[b + 1].logical_start >= Position(retained, last(b)) + 1
            <4>1. b + 1 \in 1..n /\ First(b + 1) = last(b) + 1 /\ First(b + 1) \in 0..(physical - 1)
                BY <2>3, <2>6, <3>4
            <4>2. /\ Position(retained, First(b + 1)) - Position(retained, last(b))
                       >= First(b + 1) - last(b)
                  /\ Position(retained, First(b + 1)) \in 0..(logical - 1)
                BY <2>4, <3>1, <4>1
            <4> QED BY <2>2, <2>3, <3>1, <3>2, <4>1, <4>2
        <3>5. \A p : Position(retained, p) = IF retained = <<>> THEN p ELSE retained[1][p + 1]
            BY DEF Position
        <3>6. /\ blocks[b].physical_end - blocks[b].physical_start \in 1..BlockSize
              /\ b < n => blocks[b].physical_end - blocks[b].physical_start = BlockSize
            BY <2>3, <2>6
        <3>7. /\ blocks[b].physical_end - 1 = last(b)
              /\ blocks[b].logical_end - 1 = Position(retained, last(b))
            BY <2>3, <3>1, <3>2
        <3> QED BY <2>3, <3>3, <3>4, <3>5, <3>6, <3>7
    <2> QED BY <2>8, <2>9 DEF e, logical, physical, retained, blocks, n
<1> QED BY <1>1, Invariant, PTL

\* validate_invariants() can fail for two reasons only: there is no authoritative
\* entry, or the current entries differ in length.
THEOREM ValidityIsExplained == Spec => []ValidityExplained
<1>1. IInv => ValidityExplained
    <2> SUFFICES ASSUME IInv PROVE ValidityExplained
        OBVIOUS
    <2>1. ~BlocksMalformed
        <3> SUFFICES ASSUME NEW id \in DOMAIN entries, NEW b \in 1..Len(entries[id].blocks)
                     PROVE  LET block == entries[id].blocks[b]
                            IN  /\ block.logical_start >= 0 /\ block.physical_start >= 0
                                /\ block.logical_end > block.logical_start
                                /\ block.physical_end > block.physical_start
                                /\ block.logical_start \in Int /\ block.physical_start \in Int
                                /\ block.logical_end \in Int /\ block.physical_end \in Int
            BY DEF BlocksMalformed
        <3> DEFINE e == entries[id]
                   physical == e.physical_seq_len
                   retained == e.retained_logical_positions
        <3>1. /\ ValidEntry(e.logical_seq_len, physical, retained)
              /\ e.blocks = build_blocks(physical, retained)
              /\ physical \in Nat /\ e.logical_seq_len \in Nat
            BY DEF IInv, GoodEntry, ValidEntry
        <3> HIDE DEF e, physical, retained
        <3>2. /\ e.blocks[b].physical_start = First(b)
              /\ e.blocks[b].physical_end = Last(b, physical) + 1
              /\ e.blocks[b].logical_start = Position(retained, First(b))
              /\ e.blocks[b].logical_end = Position(retained, Last(b, physical)) + 1
              /\ First(b) \in 0..(physical - 1)
              /\ Last(b, physical) \in First(b)..(physical - 1)
            BY <3>1, BlocksOf, BlocksTile DEF e
        <3>3. Last(b, physical) \in 0..(physical - 1) /\ First(b) <= Last(b, physical)
            BY <3>1, <3>2
        <3>4. /\ Position(retained, First(b)) \in 0..(e.logical_seq_len - 1)
              /\ Position(retained, Last(b, physical)) \in 0..(e.logical_seq_len - 1)
              /\ Position(retained, Last(b, physical)) - Position(retained, First(b))
                    >= Last(b, physical) - First(b)
            BY <3>1, <3>2, <3>3, PositionsIncrease
        <3> QED BY <3>1, <3>2, <3>3, <3>4 DEF e
    <2>2. ~Oversized
        <3> SUFFICES ASSUME NEW id \in DOMAIN entries
                     PROVE  ~ (entries[id].physical_seq_len > entries[id].logical_seq_len)
            BY DEF Oversized
        <3> QED BY DEF IInv, GoodEntry, ValidEntry
    <2>3. ~PrunedWithoutMapping
        <3> SUFFICES ASSUME NEW id \in DOMAIN entries,
                            entries[id].physical_seq_len < entries[id].logical_seq_len
                     PROVE  entries[id].retained_logical_positions # <<>>
            BY DEF PrunedWithoutMapping
        <3> QED BY DEF IInv, GoodEntry, ValidEntry
    <2>4. ~WrongOwner /\ ~NotSeparate
        BY DEF WrongOwner, NotSeparate, IInv, Current
    <2> QED BY <2>1, <2>2, <2>3, <2>4 DEF ValidityExplained, invariants_valid
<1> QED BY <1>1, Invariant, PTL

\* An id keeps its owner, and an entry changes only when it is registered anew or
\* when tokens are appended to all of them.
THEOREM OwnersKeep == Spec => OwnersKeepTheirEntries
<1> DEFINE Keeps ==
        \A id \in DOMAIN entries :
            /\ id \in DOMAIN entries'
            /\ entries'[id].owner = entries[id].owner
            /\ entries'[id] # entries[id] =>
                  \/ id = authoritative_id' /\ entries'[id].owner = "authoritative_full"
                  \/ id = compressed_id' /\ entries'[id].owner = "compressed_draft"
                  \/ entries'[id].logical_seq_len > entries[id].logical_seq_len
<1>1. IInv /\ [Next]_vars => [Keeps]_vars
    <2> SUFFICES ASSUME IInv, Next PROVE Keeps
        OBVIOUS
    <2>1. ASSUME NEW n \in Lengths, NEW cache_id \in ExplicitIds \cup MayDraw,
                 RegisterAuthoritative(n, cache_id)
          PROVE  Keeps
        <3> DEFINE id == EntryId("authoritative_full", cache_id)
                   entry == Entry("authoritative_full", n, n, <<>>)
        <3>1. /\ ~Clashes(id, "authoritative_full") /\ Registered(id, entry)
              /\ authoritative_id' = id /\ entry.owner = "authoritative_full"
            BY <2>1 DEF RegisterAuthoritative, Entry
        <3> HIDE DEF id, entry
        <3> QED BY <3>1 DEF Registered, Clashes
    <2>2. ASSUME NEW n, NEW k, NEW r, NEW cache_id, RegisterCompressed(n, k, r, cache_id)
          PROVE  Keeps
        <3> DEFINE id == EntryId("compressed_draft", cache_id)
                   entry == Entry("compressed_draft", n, k, Mapping(n, k, r))
        <3>1. /\ ~Clashes(id, "compressed_draft") /\ Registered(id, entry)
              /\ compressed_id' = id /\ entry.owner = "compressed_draft"
            BY <2>2 DEF RegisterCompressed, Entry
        <3> HIDE DEF id, entry
        <3> QED BY <3>1 DEF Registered, Clashes
    <2>3. ASSUME UNCHANGED entries PROVE Keeps
        BY <2>3
    <2>4. ASSUME NEW count \in Counts, AppendCommittedTokens(count) PROVE Keeps
        <3>1. ASSUME NEW id \in DOMAIN entries
              PROVE  entries[id].logical_seq_len \in Nat
            BY DEF IInv, GoodEntry, ValidEntry
        <3> QED BY <2>4, <3>1, AppendAdvancesAll
    <2> QED BY <2>1, <2>2, <2>3, <2>4 DEF Next, AuthoritativeRaises, CompressedRaises
<1> QED BY <1>1, Invariant, PTL DEF Spec, OwnersKeepTheirEntries

\* A commit keeps the difference of the two current lengths as it is.
THEOREM CommitKeepsTheAlignment == Spec => CommitKeepsAlignment
<1> DEFINE Aligned == (\E count \in Counts : AppendCommittedTokens(count)) =>
                          (LengthsDiffer' <=> LengthsDiffer)
<1>1. IInv /\ [Next]_vars => [Aligned]_vars
    <2> SUFFICES ASSUME IInv, NEW count \in Counts, AppendCommittedTokens(count)
                 PROVE  LengthsDiffer' <=> LengthsDiffer
        OBVIOUS
    <2>1. UNCHANGED <<authoritative_id, compressed_id>>
        BY DEF AppendCommittedTokens
    <2>2. ASSUME NEW id \in DOMAIN entries
          PROVE  /\ entries[id].logical_seq_len \in Nat
                 /\ entries'[id].logical_seq_len = entries[id].logical_seq_len + count
                 /\ count \in Nat
        BY AppendAdvancesAll DEF IInv, GoodEntry, ValidEntry
    <2> QED BY <2>1, <2>2 DEF LengthsDiffer, IInv, Current
<1> QED BY <1>1, Invariant, PTL DEF Spec, CommitKeepsAlignment
=============================================================================
