--------------------------- MODULE BloomFilterProofs ---------------------------
(***************************************************************************)
(* Proofs about BloomFilter, for every size, number of hashes, hash function  *)
(* and number of filters and references.  The inductive invariant says of     *)
(* every block in use that the bits of what was inserted are set in it; that    *)
(* a block in use is not freed needs the exact count of the references.       *)
(***************************************************************************)
EXTENDS BloomFilter, FiniteSetTheorems, TLAPS

\* In a block in use, the bits of whatever was inserted are set.
Recorded ==
  \A b \in Block : blocks[b].n_bytes > 0 =>
     \A p \in inserted[b] : Indexes(p[1], p[2], blocks[b].n_bytes) \subseteq blocks[b].bits

IInv == TypeOK /\ NothingDangles /\ CountsAreExact /\ Recorded

Structure == [refs : Nat, is_mutable : BOOLEAN, block : Block, n_bytes : Nat, k : 0 .. MaxK]
Contents == [n_bytes : Nat, bits : SUBSET Nat, refs : Nat]

\* ostree_bloom_get_bit and ostree_bloom_set_bit: the index of a bit is a number.
LEMMA IndexesType ==
  ASSUME NEW e \in Element, NEW k \in 0 .. MaxK, NEW n \in Nat \ {0}
  PROVE  Indexes(e, k, n) \in SUBSET Nat
<1>1. \A i \in 0 .. k - 1 : Hash[<<e, i>>] \in Nat
  BY HashAssumption, MaxKAssumption
<1>2. \A h \in Nat : h % (8 * n) \in Nat
  OBVIOUS
<1> QED
  BY <1>1, <1>2 DEF Indexes, Index

\* The filters that hold a reference on a GBytes are finitely many.
LEMMA ReadersFinite ==
  ASSUME NEW b \in Block
  PROVE  IsFiniteSet(Readers(b)) /\ Cardinality(Readers(b)) \in Nat
<1>1. Readers(b) \subseteq Filter
  BY DEF Readers
<1> QED
  BY <1>1, FilterAssumption, FS_Subset, FS_CardinalityType

\* A filter that was not a reader becomes one: it is one more.
LEMMA OneMore ==
  ASSUME NEW S, IsFiniteSet(S), NEW f, f \notin S, NEW T, T = S \cup {f}
  PROVE  Cardinality(T) = Cardinality(S) + 1
  BY FS_AddElement

\* A reader that goes leaves one less.
LEMMA OneLess ==
  ASSUME NEW S, IsFiniteSet(S), NEW f, f \in S, NEW T, T = S \ {f}
  PROVE  /\ Cardinality(T) = Cardinality(S) - 1
         /\ Cardinality(S) >= 1
<1>1. Cardinality(S) \in Nat /\ Cardinality(T) \in Nat
  BY FS_CardinalityType, FS_RemoveElement
<1>2. Cardinality(T) = Cardinality(S) - 1
  BY FS_RemoveElement
<1> QED
  BY <1>1, <1>2

\* Whoever has no reader at all: no live, sealed filter is on the block.
LEMMA NoReader ==
  ASSUME NEW b \in Block, Cardinality(Readers(b)) = 0
  PROVE  \A f \in Filter : Live(f) /\ ~filters[f].is_mutable => filters[f].block # b
<1>1. Readers(b) = {}
  BY ReadersFinite, FS_EmptySet
<1> QED
  BY <1>1 DEF Readers

\* The only reader is the one known.
LEMMA OnlyReader ==
  ASSUME NEW b \in Block, NEW f \in Readers(b), Cardinality(Readers(b)) = 1
  PROVE  \A g \in Filter \ {f} : Live(g) /\ ~filters[g].is_mutable => filters[g].block # b
<1>1. PICK x : Readers(b) = {x}
  BY ReadersFinite, FS_Singleton
<1> QED
  BY <1>1 DEF Readers

LEMMA InitIInv == Init => IInv
<1> SUFFICES ASSUME Init PROVE IInv
  OBVIOUS
<1>1. TypeOK
  BY MaxHeldAssumption, FilterAssumption, MaxKAssumption DEF Init, TypeOK, Gone, Free
<1>2. \A f \in Filter : ~Live(f)
  BY DEF Init, Live, Gone
<1>3. NothingDangles /\ Recorded
  BY <1>2 DEF Init, NothingDangles, FiltersInUse, MutableAlone, HeldInUse, Recorded
<1>4. ASSUME NEW b \in Block
      PROVE  blocks[b].refs = held[b] + Cardinality(Readers(b))
  <2>1. Readers(b) = {}
    BY <1>2 DEF Readers
  <2> QED
    BY <2>1, FS_EmptySet DEF Init, Free
<1> QED
  BY <1>1, <1>3, <1>4 DEF IInv, CountsAreExact

\* ostree_bloom_new.
LEMMA NewStep ==
  ASSUME IInv, NEW f \in Filter, NEW b \in Block, NEW n \in Size, NEW k \in 1 .. MaxK, new(f, b, n, k)
  PROVE  IInv'
<1> USE DEF IInv
<1>0. n \in Nat \ {0} /\ blocks[b] = Free /\ ~Live(f)
  BY SizeAssumption DEF new
<1>t. TypeOK'
  BY <1>0, MaxKAssumption DEF TypeOK, new
<1>1. \A g \in Filter \ {f} : filters'[g] = filters[g]
  BY DEF new, TypeOK
<1>2. filters'[f] = [refs |-> 1, is_mutable |-> TRUE, block |-> b, n_bytes |-> n, k |-> k]
  BY DEF new, TypeOK
<1>3. /\ blocks'[b] = [n_bytes |-> n, bits |-> {}, refs |-> 0]
      /\ \A c \in Block \ {b} : blocks'[c] = blocks[c]
      /\ held' = held
  BY DEF new, TypeOK
<1>4. \A g \in Filter : Live(g) => filters[g].block # b
  BY <1>0 DEF NothingDangles, FiltersInUse, Free, TypeOK
<1>l. \A g \in Filter : Live(g)' <=> Live(g) \/ g = f
  BY <1>1, <1>2 DEF Live
<1>5. NothingDangles'
  <2>1. FiltersInUse'
    BY <1>0, <1>1, <1>2, <1>3, <1>4, <1>l DEF NothingDangles, FiltersInUse, TypeOK
  <2>2. MutableAlone'
    BY <1>0, <1>1, <1>2, <1>3, <1>4, <1>l DEF NothingDangles, MutableAlone, TypeOK
  <2>3. HeldInUse'
    BY <1>0, <1>3 DEF NothingDangles, HeldInUse, TypeOK
  <2> QED
    BY <2>1, <2>2, <2>3 DEF NothingDangles
<1>6. CountsAreExact'
  <2>1. \A c \in Block : Readers(c)' = Readers(c)
    BY <1>0, <1>1, <1>2 DEF Readers, Live
  <2> QED
    BY <2>1, <1>0, <1>3 DEF CountsAreExact, Free
<1>7. Recorded'
  BY <1>0, <1>3 DEF Recorded, new, TypeOK
<1> QED
  BY <1>t, <1>5, <1>6, <1>7

\* ostree_bloom_new_from_bytes.
LEMMA LoadStep ==
  ASSUME IInv, NEW f \in Filter, NEW b \in Block, NEW k \in 1 .. MaxK, new_from_bytes(f, b, k)
  PROVE  IInv'
<1> USE DEF IInv
<1>0. ~Live(f) /\ held[b] > 0 /\ blocks[b].n_bytes > 0
  BY DEF new_from_bytes
<1>t. TypeOK'
  <2>1. blocks[b].n_bytes \in Nat /\ blocks[b].refs + 1 \in Nat
    BY DEF TypeOK
  <2>2. [refs |-> 1, is_mutable |-> FALSE, block |-> b, n_bytes |-> blocks[b].n_bytes, k |-> k] \in Structure
    BY <2>1, MaxKAssumption DEF Structure
  <2>3. filters' \in [Filter -> Structure]
    BY <2>2 DEF TypeOK, Structure, new_from_bytes
  <2>4. blocks' \in [Block -> Contents]
    BY <2>1 DEF TypeOK, Contents, new_from_bytes
  <2>5. held' = held /\ inserted' = inserted /\ answer' = answer
    BY DEF new_from_bytes
  <2> QED
    BY <2>3, <2>4, <2>5 DEF TypeOK, Structure, Contents
<1>1. \A g \in Filter \ {f} : filters'[g] = filters[g]
  BY DEF new_from_bytes, TypeOK
<1>2. filters'[f] = [refs |-> 1, is_mutable |-> FALSE, block |-> b, n_bytes |-> blocks[b].n_bytes, k |-> k]
  BY DEF new_from_bytes, TypeOK
<1>3. /\ blocks'[b] = [blocks[b] EXCEPT !.refs = blocks[b].refs + 1]
      /\ \A c \in Block \ {b} : blocks'[c] = blocks[c]
      /\ held' = held /\ inserted' = inserted
  BY DEF new_from_bytes, TypeOK
<1>4. blocks'[b].n_bytes = blocks[b].n_bytes /\ blocks'[b].bits = blocks[b].bits
      /\ blocks'[b].refs = blocks[b].refs + 1
  BY <1>3 DEF TypeOK
<1>5. \A g \in Filter : Live(g) /\ filters[g].is_mutable => filters[g].block # b
  <2>1. blocks[b].refs # 0
    BY <1>0, ReadersFinite DEF CountsAreExact, TypeOK
  <2> QED
    BY <2>1 DEF NothingDangles, MutableAlone
<1>l. \A g \in Filter : Live(g)' <=> Live(g) \/ g = f
  BY <1>1, <1>2 DEF Live
<1>6. NothingDangles'
  <2>1. FiltersInUse'
    BY <1>0, <1>1, <1>2, <1>3, <1>4, <1>l DEF NothingDangles, FiltersInUse, TypeOK
  <2>2. MutableAlone'
    BY <1>0, <1>1, <1>2, <1>3, <1>5, <1>l DEF NothingDangles, MutableAlone, TypeOK
  <2>3. HeldInUse'
    BY <1>0, <1>3, <1>4 DEF NothingDangles, HeldInUse, TypeOK
  <2> QED
    BY <2>1, <2>2, <2>3 DEF NothingDangles
<1>7. CountsAreExact'
  <2>1. \A c \in Block \ {b} : Readers(c)' = Readers(c)
    BY <1>0, <1>1, <1>2 DEF Readers, Live
  <2>2. Readers(b)' = Readers(b) \cup {f} /\ f \notin Readers(b)
    BY <1>0, <1>1, <1>2 DEF Readers, Live
  <2>3. Cardinality(Readers(b)') = Cardinality(Readers(b)) + 1
    BY <2>2, ReadersFinite, OneMore
  <2> QED
    BY <2>1, <2>3, <1>3, <1>4, ReadersFinite DEF CountsAreExact, TypeOK
<1>8. Recorded'
  BY <1>3, <1>4 DEF Recorded, TypeOK
<1> QED
  BY <1>t, <1>6, <1>7, <1>8

\* ostree_bloom_ref.
LEMMA RefStep ==
  ASSUME IInv, NEW f \in Filter, ref(f)
  PROVE  IInv'
<1> USE DEF IInv
<1>t. TypeOK'
  BY DEF TypeOK, ref
<1>1. \A g \in Filter : /\ filters'[g].block = filters[g].block /\ filters'[g].n_bytes = filters[g].n_bytes
                        /\ filters'[g].is_mutable = filters[g].is_mutable
                        /\ Live(g)' <=> Live(g)
  BY DEF ref, TypeOK, Live
<1>2. \A c \in Block : Readers(c)' = Readers(c)
  BY <1>1 DEF Readers
<1>3. NothingDangles'
  <2>1. FiltersInUse'
    BY <1>1 DEF NothingDangles, FiltersInUse, ref, TypeOK
  <2>2. MutableAlone'
    BY <1>1 DEF NothingDangles, MutableAlone, ref
  <2> QED
    BY <2>1, <2>2 DEF NothingDangles, HeldInUse, ref
<1>4. CountsAreExact' /\ Recorded'
  BY <1>2 DEF CountsAreExact, Recorded, ref
<1> QED
  BY <1>t, <1>3, <1>4

\* ostree_bloom_add_element: the block is no other filter's, and no caller's.
LEMMA AddStep ==
  ASSUME IInv, NEW f \in Filter, NEW e \in Element, add_element(f, e)
  PROVE  IInv'
<1> USE DEF IInv
<1> DEFINE b == filters[f].block  k == filters[f].k  n == filters[f].n_bytes
           added == Indexes(e, k, n)
<1>0. b \in Block /\ k \in 1 .. MaxK /\ n \in Nat \ {0} /\ blocks[b].n_bytes = n
  BY MaxKAssumption DEF add_element, NothingDangles, FiltersInUse, TypeOK
<1>1. added \in SUBSET Nat
  BY <1>0, MaxKAssumption, IndexesType
<1>2. /\ blocks' = [blocks EXCEPT ![b].bits = @ \cup added]
      /\ inserted' = [inserted EXCEPT ![b] = @ \cup {<<e, k>>}]
      /\ filters' = filters /\ held' = held /\ answer' = answer
  BY DEF add_element
<1> HIDE DEF added
<1>3. /\ blocks'[b].n_bytes = blocks[b].n_bytes /\ blocks'[b].refs = blocks[b].refs
      /\ blocks'[b].bits = blocks[b].bits \cup added
      /\ \A c \in Block \ {b} : blocks'[c] = blocks[c]
  BY <1>0, <1>2 DEF TypeOK
<1>4. \A c \in Block : blocks'[c].n_bytes = blocks[c].n_bytes /\ blocks'[c].refs = blocks[c].refs
  BY <1>3
<1>t. TypeOK'
  <2>1. blocks' \in [Block -> Contents]
    BY <1>1, <1>2 DEF TypeOK, Contents
  <2>2. <<e, k>> \in Element \X (1 .. MaxK)
    BY <1>0
  <2>3. inserted' \in [Block -> SUBSET (Element \X (1 .. MaxK))]
    BY <1>2, <2>2 DEF TypeOK
  <2> QED
    BY <1>2, <2>1, <2>3 DEF TypeOK, Contents
<1>5. NothingDangles'
  BY <1>2, <1>4 DEF NothingDangles, FiltersInUse, MutableAlone, HeldInUse, Live, TypeOK
<1>6. CountsAreExact'
  BY <1>2, <1>4 DEF CountsAreExact, Readers, Live
<1>7. Recorded'
  BY <1>0, <1>2, <1>3 DEF Recorded, added, TypeOK
<1> QED
  BY <1>t, <1>5, <1>6, <1>7

\* ostree_bloom_seal: a filter that becomes a reader counts, and so does the caller.
LEMMA SealStep ==
  ASSUME IInv, NEW f \in Filter, seal(f)
  PROVE  IInv'
<1> USE DEF IInv
<1>b. PICK b \in Block : b = filters[f].block
  BY DEF TypeOK
<1>0. b \in Block /\ Live(f) /\ held[b] \in Nat /\ blocks[b].n_bytes > 0
  BY <1>b DEF seal, NothingDangles, FiltersInUse, TypeOK
<1>1. \A g \in Filter : /\ filters'[g].block = filters[g].block /\ filters'[g].n_bytes = filters[g].n_bytes
                        /\ filters'[g].k = filters[g].k
                        /\ Live(g)' <=> Live(g)
  BY DEF seal, TypeOK, Live
<1>2. ~filters'[f].is_mutable /\ \A g \in Filter \ {f} : filters'[g].is_mutable <=> filters[g].is_mutable
  BY DEF seal, TypeOK
<1>3. /\ blocks'[b].n_bytes = blocks[b].n_bytes /\ blocks'[b].bits = blocks[b].bits
      /\ blocks'[b].refs = IF filters[f].is_mutable THEN 2 ELSE blocks[b].refs + 1
      /\ \A c \in Block \ {b} : blocks'[c] = blocks[c]
  BY <1>b, <1>0 DEF seal, TypeOK
<1>4. /\ held'[b] = held[b] + 1 /\ \A c \in Block \ {b} : held'[c] = held[c]
      /\ inserted' = inserted
  BY <1>b, <1>0 DEF seal, TypeOK
<1>t. TypeOK'
  <2>1. held' \in [Block -> 0 .. MaxHeld]
    BY <1>0, MaxHeldAssumption DEF seal, TypeOK
  <2>2. filters' \in [Filter -> Structure]
    <3>1. filters \in [Filter -> Structure]
      BY DEF TypeOK, Structure
    <3>2. filters' = [filters EXCEPT ![f].is_mutable = FALSE]
      BY DEF seal
    <3>3. [filters[f] EXCEPT !.is_mutable = FALSE] \in Structure
      BY <3>1 DEF Structure
    <3> QED
      BY <3>1, <3>2, <3>3
  <2>3. blocks' \in [Block -> Contents]
    BY <1>b, <1>0 DEF seal, TypeOK, Contents
  <2> QED
    BY <2>1, <2>2, <2>3 DEF seal, TypeOK, Structure, Contents
<1>5. NothingDangles'
  <2>1. FiltersInUse'
    BY <1>1, <1>3 DEF NothingDangles, FiltersInUse, TypeOK
  <2>2. ASSUME NEW g \in Filter, NEW h \in Filter, Live(g), filters'[g].is_mutable
        PROVE  /\ blocks'[filters[g].block].refs = 0
               /\ Live(h) /\ filters[h].block = filters[g].block => h = g
    <3>1. g # f /\ filters[g].is_mutable
      BY <1>2, <2>2
    <3>2. filters[g].block # b
      BY <1>b, <1>0, <2>2, <3>1 DEF NothingDangles, MutableAlone
    <3> QED
      BY <1>3, <2>2, <3>1, <3>2 DEF NothingDangles, MutableAlone, TypeOK
  <2>3. MutableAlone'
    BY <1>1, <2>2 DEF MutableAlone
  <2>4. HeldInUse'
    BY <1>0, <1>3, <1>4 DEF NothingDangles, HeldInUse, TypeOK
  <2> QED
    BY <2>1, <2>3, <2>4 DEF NothingDangles
<1>6. CountsAreExact'
  <2>1. \A c \in Block \ {b} : Readers(c)' = Readers(c)
    BY <1>b, <1>0, <1>1, <1>2 DEF Readers
  <2>2. \A c \in Block \ {b} : blocks'[c].refs = held'[c] + Cardinality(Readers(c)')
    BY <2>1, <1>3, <1>4 DEF CountsAreExact
  <2>3. blocks[b].refs = held[b] + Cardinality(Readers(b))
    BY DEF CountsAreExact
  <2>4. ASSUME filters[f].is_mutable
        PROVE  blocks'[b].refs = held'[b] + Cardinality(Readers(b)')
    <3>1. blocks[b].refs = 0 /\ \A g \in Filter : Live(g) /\ filters[g].block = b => g = f
      BY <1>b, <1>0, <2>4 DEF NothingDangles, MutableAlone
    <3>2. Readers(b) = {} /\ Readers(b)' = {f}
      BY <3>1, <2>4, <1>b, <1>0, <1>1, <1>2 DEF Readers
    <3>3. Cardinality(Readers(b)) = 0 /\ Cardinality(Readers(b)') = 1
      BY <3>2, FS_EmptySet, FS_Singleton
    <3>4. held[b] = 0
      BY <1>0, <2>3, <3>1, <3>3
    <3> QED
      BY <2>4, <1>3, <1>4, <3>3, <3>4
  <2>5. ASSUME ~filters[f].is_mutable
        PROVE  blocks'[b].refs = held'[b] + Cardinality(Readers(b)')
    <3>1. Readers(b)' = Readers(b)
      BY <1>b, <1>0, <1>1, <1>2, <2>5 DEF Readers
    <3>2. blocks'[b].refs = blocks[b].refs + 1
      BY <1>3, <2>5
    <3> QED
      BY <1>0, <1>4, <2>3, <3>1, <3>2, ReadersFinite
  <2> QED
    BY <2>2, <2>4, <2>5 DEF CountsAreExact
<1>7. Recorded'
  BY <1>0, <1>3, <1>4 DEF Recorded, TypeOK
<1> QED
  BY <1>t, <1>5, <1>6, <1>7

\* g_bytes_unref: the counted reference goes, and with the last one the block.
LEMMA UnreferencedBlock ==
  ASSUME TypeOK, NEW b \in Block, blocks[b].refs > 0
  PROVE  /\ Unreferenced(b) \in Contents
         /\ Unreferenced(b).refs = blocks[b].refs - 1
         /\ blocks[b].refs = 1 => Unreferenced(b) = Free
         /\ blocks[b].refs > 1 => /\ Unreferenced(b).n_bytes = blocks[b].n_bytes
                                  /\ Unreferenced(b).bits = blocks[b].bits
<1>1. blocks[b] \in Contents
  BY DEF TypeOK, Contents
<1> QED
  BY <1>1 DEF Unreferenced, Free, Contents

LEMMA ReleaseStep ==
  ASSUME IInv, NEW b \in Block, Release(b)
  PROVE  IInv'
<1> USE DEF IInv
<1>0. held[b] \in Nat /\ held[b] > 0 /\ filters' = filters /\ inserted' = inserted /\ answer' = answer
  BY DEF Release, TypeOK
<1>1. /\ blocks[b].refs = held[b] + Cardinality(Readers(b))
      /\ Cardinality(Readers(b)) \in Nat /\ blocks[b].refs > 0 /\ blocks[b].refs \in Nat
  BY <1>0, ReadersFinite DEF CountsAreExact
<1>2. /\ blocks'[b] = Unreferenced(b) /\ \A c \in Block \ {b} : blocks'[c] = blocks[c]
      /\ held'[b] = held[b] - 1 /\ \A c \in Block \ {b} : held'[c] = held[c]
  BY DEF Release, TypeOK
<1>t. TypeOK'
  <2>1. held' \in [Block -> 0 .. MaxHeld]
    BY <1>0, MaxHeldAssumption DEF Release, TypeOK
  <2>2. blocks' \in [Block -> Contents]
    BY <1>1, UnreferencedBlock DEF Release, TypeOK, Contents
  <2> QED
    BY <1>0, <2>1, <2>2 DEF TypeOK, Contents
<1>3. ASSUME blocks[b].refs = 1
      PROVE  held'[b] = 0 /\ \A g \in Filter : Live(g) => filters[g].block # b
  <2>1. held[b] = 1 /\ Cardinality(Readers(b)) = 0
    BY <1>0, <1>1, <1>3
  <2>2. \A g \in Filter : Live(g) /\ ~filters[g].is_mutable => filters[g].block # b
    BY <2>1, NoReader
  <2>3. \A g \in Filter : Live(g) /\ filters[g].is_mutable => filters[g].block # b
    BY <1>3 DEF NothingDangles, MutableAlone
  <2> QED
    BY <2>1, <2>2, <2>3, <1>2
<1>4. blocks'[b].refs = blocks[b].refs - 1
      /\ (blocks[b].refs > 1 => blocks'[b].n_bytes = blocks[b].n_bytes /\ blocks'[b].bits = blocks[b].bits)
  BY <1>1, <1>2, UnreferencedBlock
<1>5. NothingDangles'
  <2>1. \A g \in Filter : Live(g) /\ filters[g].is_mutable => filters[g].block # b
    BY <1>1 DEF NothingDangles, MutableAlone
  <2>2. FiltersInUse'
    <3>1. \A g \in Filter : Live(g) => blocks'[filters[g].block].n_bytes = blocks[filters[g].block].n_bytes
      BY <1>1, <1>2, <1>3, <1>4 DEF TypeOK
    <3> QED
      BY <3>1, <1>0 DEF NothingDangles, FiltersInUse, Live
  <2>3. MutableAlone'
    BY <2>1, <1>0, <1>2 DEF NothingDangles, MutableAlone, Live, TypeOK
  <2>4. HeldInUse'
    BY <1>0, <1>1, <1>2, <1>3, <1>4 DEF NothingDangles, HeldInUse, TypeOK
  <2> QED
    BY <2>2, <2>3, <2>4 DEF NothingDangles
<1>6. CountsAreExact'
  <2>1. \A c \in Block : Readers(c)' = Readers(c)
    BY <1>0 DEF Readers, Live
  <2> QED
    BY <2>1, <1>0, <1>1, <1>2, <1>4 DEF CountsAreExact
<1>7. Recorded'
  <2>1. blocks[b].refs = 1 => blocks'[b].n_bytes = 0
    BY <1>1, <1>2, UnreferencedBlock DEF Free
  <2> QED
    BY <2>1, <1>0, <1>1, <1>2, <1>4 DEF Recorded
<1> QED
  BY <1>t, <1>5, <1>6, <1>7

\* ostree_bloom_unref.
LEMMA UnrefStep ==
  ASSUME IInv, NEW f \in Filter, unref(f)
  PROVE  IInv'
<1> USE DEF IInv
<1>b. PICK b \in Block : b = filters[f].block
  BY DEF TypeOK
<1>0. Live(f) /\ held' = held /\ inserted' = inserted /\ answer' = answer
  BY DEF unref
<1>1. CASE filters[f].refs > 1
  <2>0. filters' = [filters EXCEPT ![f].refs = @ - 1] /\ blocks' = blocks
    BY <1>1 DEF unref
  <2>1. \A g \in Filter : /\ filters'[g].block = filters[g].block /\ filters'[g].n_bytes = filters[g].n_bytes
                          /\ filters'[g].is_mutable = filters[g].is_mutable /\ filters'[g].k = filters[g].k
                          /\ Live(g)' <=> Live(g)
    BY <1>1, <2>0 DEF TypeOK, Live
  <2>2. \A c \in Block : Readers(c)' = Readers(c)
    BY <2>1 DEF Readers
  <2>3. TypeOK'
    BY <1>0, <1>1, <2>0 DEF TypeOK
  <2>4. FiltersInUse'
    BY <2>0, <2>1 DEF NothingDangles, FiltersInUse
  <2>5. MutableAlone'
    BY <2>0, <2>1 DEF NothingDangles, MutableAlone
  <2>6. HeldInUse' /\ CountsAreExact' /\ Recorded'
    BY <1>0, <2>0, <2>2 DEF NothingDangles, HeldInUse, CountsAreExact, Recorded
  <2> QED
    BY <2>3, <2>4, <2>5, <2>6 DEF NothingDangles
<1>2. CASE ~(filters[f].refs > 1)
  <2>0. /\ filters' = [filters EXCEPT ![f] = Gone]
        /\ blocks' = [blocks EXCEPT ![b] = IF filters[f].is_mutable THEN Free ELSE Unreferenced(b)]
    BY <1>2, <1>b DEF unref
  <2>1. filters'[f] = Gone /\ \A g \in Filter \ {f} : filters'[g] = filters[g]
    BY <2>0 DEF TypeOK
  <2>2. ~Live(f)' /\ \A g \in Filter \ {f} : Live(g)' <=> Live(g)
    BY <2>1 DEF Live, Gone
  <2>3. blocks[b].refs = held[b] + Cardinality(Readers(b)) /\ held[b] \in Nat
    BY DEF CountsAreExact, TypeOK
  <2>4. \A c \in Block \ {b} : blocks'[c] = blocks[c] /\ Readers(c)' = Readers(c)
    BY <1>b, <2>0, <2>1, <2>2 DEF TypeOK, Readers
  <2>5. filters' \in [Filter -> Structure]
    BY <2>0, FilterAssumption, MaxKAssumption DEF TypeOK, Structure, Gone
  <2>6. CASE filters[f].is_mutable
    <3>1. blocks[b].refs = 0 /\ \A g \in Filter : Live(g) /\ filters[g].block = b => g = f
      BY <1>b, <1>0, <2>6 DEF NothingDangles, MutableAlone
    <3>2. blocks'[b] = Free
      BY <2>0, <2>6 DEF TypeOK
    <3>3. Readers(b)' = {}
      BY <3>1, <2>1, <2>2 DEF Readers
    <3>4. held[b] = 0 /\ Cardinality(Readers(b)') = 0
      BY <2>3, <3>1, <3>3, ReadersFinite, FS_EmptySet
    <3>5. \A g \in Filter : Live(g)' => /\ g # f /\ Live(g) /\ filters'[g] = filters[g]
                                         /\ filters[g].block # b
      BY <3>1, <2>1, <2>2
    <3>t. TypeOK'
      BY <2>0, <2>5, <2>6, <1>0 DEF TypeOK, Structure, Free
    <3>6. NothingDangles'
      <4>1. FiltersInUse'
        BY <2>4, <3>5 DEF NothingDangles, FiltersInUse, TypeOK
      <4>2. MutableAlone'
        BY <2>4, <3>5 DEF NothingDangles, MutableAlone, TypeOK
      <4>3. HeldInUse'
        BY <1>0, <2>4, <3>4 DEF NothingDangles, HeldInUse
      <4> QED
        BY <4>1, <4>2, <4>3 DEF NothingDangles
    <3>7. CountsAreExact'
      BY <1>0, <2>4, <3>2, <3>4 DEF CountsAreExact, Free
    <3>8. Recorded'
      BY <1>0, <2>4, <3>2 DEF Recorded, Free
    <3> QED
      BY <3>t, <3>6, <3>7, <3>8
  <2>7. CASE ~filters[f].is_mutable
    <3>1. f \in Readers(b) /\ Readers(b)' = Readers(b) \ {f}
      BY <1>b, <1>0, <2>1, <2>2, <2>7 DEF Readers
    <3>2. /\ Cardinality(Readers(b)') = Cardinality(Readers(b)) - 1 /\ Cardinality(Readers(b)) >= 1
          /\ Cardinality(Readers(b)) \in Nat
      BY <3>1, ReadersFinite, OneLess
    <3>3. blocks[b].refs > 0 /\ blocks[b].refs \in Nat
      BY <2>3, <3>2
    <3>4. blocks'[b] = Unreferenced(b)
      BY <2>0, <2>7 DEF TypeOK
    <3>5. \A g \in Filter : Live(g)' => g # f /\ Live(g) /\ filters'[g] = filters[g]
      BY <2>1, <2>2
    <3>6. ASSUME blocks[b].refs = 1
          PROVE  /\ held[b] = 0 /\ blocks'[b].n_bytes = 0
                 /\ \A g \in Filter \ {f} : Live(g) => filters[g].block # b
      <4>1. held[b] = 0 /\ Cardinality(Readers(b)) = 1
        BY <2>3, <3>2, <3>6
      <4>2. \A g \in Filter \ {f} : Live(g) /\ ~filters[g].is_mutable => filters[g].block # b
        BY <4>1, <3>1, OnlyReader
      <4>3. \A g \in Filter : Live(g) /\ filters[g].is_mutable => filters[g].block # b
        BY <3>3 DEF NothingDangles, MutableAlone
      <4>4. blocks'[b].n_bytes = 0
        BY <3>3, <3>4, <3>6, UnreferencedBlock DEF Free
      <4> QED
        BY <4>1, <4>2, <4>3, <4>4
    <3>7. /\ blocks'[b].refs = blocks[b].refs - 1
          /\ blocks[b].refs > 1 => blocks'[b].n_bytes = blocks[b].n_bytes /\ blocks'[b].bits = blocks[b].bits
      BY <3>3, <3>4, UnreferencedBlock
    <3>t. TypeOK'
      <4>1. blocks' \in [Block -> Contents]
        BY <2>0, <2>7, <3>3, UnreferencedBlock DEF TypeOK, Contents
      <4> QED
        BY <1>0, <2>5, <4>1 DEF TypeOK, Structure, Contents
    <3>8. NothingDangles'
      <4>1. FiltersInUse'
        <5>1. \A g \in Filter \ {f} : Live(g) => blocks'[filters[g].block].n_bytes = blocks[filters[g].block].n_bytes
          BY <2>4, <3>3, <3>6, <3>7 DEF TypeOK
        <5> QED
          BY <5>1, <3>5 DEF NothingDangles, FiltersInUse
      <4>2. \A g \in Filter : Live(g) /\ filters[g].is_mutable => filters[g].block # b
        BY <3>3 DEF NothingDangles, MutableAlone
      <4>3. MutableAlone'
        BY <4>2, <2>4, <3>5 DEF NothingDangles, MutableAlone, TypeOK
      <4>4. HeldInUse'
        BY <1>0, <2>3, <2>4, <3>3, <3>6, <3>7 DEF NothingDangles, HeldInUse
      <4> QED
        BY <4>1, <4>3, <4>4 DEF NothingDangles
    <3>9. CountsAreExact'
      <4>1. blocks'[b].refs = held'[b] + Cardinality(Readers(b)')
        BY <1>0, <2>3, <3>2, <3>7
      <4> QED
        BY <4>1, <1>0, <2>4 DEF CountsAreExact
    <3>10. Recorded'
      BY <1>0, <2>4, <3>3, <3>6, <3>7 DEF Recorded
    <3> QED
      BY <3>t, <3>8, <3>9, <3>10
  <2> QED
    BY <2>6, <2>7
<1> QED
  BY <1>1, <1>2

\* A copy of a GBytes has what was inserted in it as the original has.
LEMMA CopyStep ==
  ASSUME IInv, NEW b \in Block, NEW c \in Block, Copy(b, c)
  PROVE  IInv'
<1> USE DEF IInv
<1>0. /\ held[b] > 0 /\ blocks[c] = Free /\ MaxHeld > 0 /\ filters' = filters
      /\ blocks[b].n_bytes > 0 /\ b # c
  BY DEF Copy, NothingDangles, HeldInUse, Free
<1>1. /\ blocks'[c] = [blocks[b] EXCEPT !.refs = 1] /\ inserted'[c] = inserted[b] /\ held'[c] = 1
      /\ \A d \in Block \ {c} : blocks'[d] = blocks[d] /\ inserted'[d] = inserted[d] /\ held'[d] = held[d]
  BY DEF Copy, TypeOK
<1>2. /\ blocks'[c] \in Contents /\ blocks'[c].n_bytes = blocks[b].n_bytes
      /\ blocks'[c].bits = blocks[b].bits /\ blocks'[c].refs = 1
  BY <1>1 DEF TypeOK, Contents
<1>t. TypeOK'
  <2>1. blocks' \in [Block -> Contents]
    BY <1>1, <1>2 DEF Copy, TypeOK, Contents
  <2>2. held' \in [Block -> 0 .. MaxHeld] /\ inserted' \in [Block -> SUBSET (Element \X (1 .. MaxK))]
    BY <1>0, MaxHeldAssumption DEF Copy, TypeOK
  <2> QED
    BY <2>1, <2>2 DEF Copy, TypeOK, Contents
<1>3. \A f \in Filter : Live(f) => filters[f].block # c
  BY <1>0 DEF NothingDangles, FiltersInUse, Free
<1>4. NothingDangles'
  <2>1. FiltersInUse'
    BY <1>0, <1>1, <1>3 DEF NothingDangles, FiltersInUse, Live, TypeOK
  <2>2. MutableAlone'
    BY <1>0, <1>1, <1>3 DEF NothingDangles, MutableAlone, Live, TypeOK
  <2>3. HeldInUse'
    BY <1>0, <1>1, <1>2 DEF NothingDangles, HeldInUse
  <2> QED
    BY <2>1, <2>2, <2>3 DEF NothingDangles
<1>5. CountsAreExact'
  <2>1. \A d \in Block : Readers(d)' = Readers(d)
    BY <1>0 DEF Readers, Live
  <2>2. Cardinality(Readers(c)) = 0
    <3>1. Readers(c) = {}
      BY <1>3 DEF Readers
    <3> QED
      BY <3>1, FS_EmptySet
  <2>3. blocks'[c].refs = held'[c] + Cardinality(Readers(c)')
    BY <2>1, <2>2, <1>1, <1>2
  <2>4. ASSUME NEW d \in Block \ {c}
        PROVE  blocks'[d].refs = held'[d] + Cardinality(Readers(d)')
    BY <2>1, <1>1 DEF CountsAreExact
  <2> QED
    BY <2>3, <2>4 DEF CountsAreExact
<1>6. Recorded'
  BY <1>0, <1>1, <1>2 DEF Recorded
<1> QED
  BY <1>t, <1>4, <1>5, <1>6

LEMMA NextIInv == IInv /\ [Next]_vars => IInv'
<1> SUFFICES ASSUME IInv, [Next]_vars PROVE IInv'
  OBVIOUS
<1>1. CASE UNCHANGED vars
  BY <1>1 DEF IInv, TypeOK, NothingDangles, FiltersInUse, MutableAlone, HeldInUse, CountsAreExact,
              Recorded, Readers, Live, vars
<1>2. CASE Next
  BY <1>2, NewStep, LoadStep, AddStep, RefStep, UnrefStep, SealStep, ReleaseStep, CopyStep DEF Next
<1> QED
  BY <1>1, <1>2

\* What was inserted is found, whatever filter of no more hashes reads the block.
LEMMA RecordedIsFound == IInv => NoFalseNegatives
<1> SUFFICES ASSUME IInv, NEW f \in Filter, Live(f), NEW p \in inserted[filters[f].block],
                    filters[f].k <= p[2], NEW i \in 0 .. filters[f].k - 1
             PROVE  Index(p[1], i, filters[f].n_bytes) \in blocks[filters[f].block].bits
  BY DEF NoFalseNegatives, maybe_contains
<1>1. filters[f].block \in Block /\ filters[f].k \in 0 .. MaxK /\ p[2] \in 1 .. MaxK
  BY DEF IInv, TypeOK
<1>2. filters[f].n_bytes > 0 /\ filters[f].n_bytes = blocks[filters[f].block].n_bytes
  BY DEF IInv, NothingDangles, FiltersInUse
<1>3. Indexes(p[1], p[2], filters[f].n_bytes) \subseteq blocks[filters[f].block].bits
  BY <1>1, <1>2 DEF IInv, Recorded
<1>4. i \in 0 .. p[2] - 1
  BY <1>1, MaxKAssumption
<1> QED
  BY <1>3, <1>4 DEF Indexes

\* Bytes that a caller holds belong to no filter that can still be written to.
LEMMA HeldStay ==
  ASSUME IInv, [Next]_vars, NEW b \in Block, held[b] > 0, held'[b] > 0
  PROVE  blocks'[b].bits = blocks[b].bits
<1>1. blocks[b].refs > 0 /\ blocks[b].n_bytes > 0 /\ blocks[b] \in Contents
  BY ReadersFinite DEF IInv, CountsAreExact, NothingDangles, HeldInUse, TypeOK, Contents
<1>2. \A f \in Filter : Live(f) /\ filters[f].is_mutable => filters[f].block # b
  BY <1>1 DEF IInv, NothingDangles, MutableAlone
<1>3. blocks[b].refs = held[b] + Cardinality(Readers(b)) /\ Cardinality(Readers(b)) \in Nat
  BY ReadersFinite DEF IInv, CountsAreExact
<1>u. blocks[b].refs > 1 => Unreferenced(b).bits = blocks[b].bits
  BY <1>1, UnreferencedBlock DEF IInv
<1>4. ASSUME NEW f \in Filter, NEW c \in Block, NEW n \in Size, NEW k \in 1 .. MaxK, new(f, c, n, k)
      PROVE  blocks'[b].bits = blocks[b].bits
  BY <1>1, <1>4 DEF new, Free, IInv, TypeOK
<1>5. ASSUME NEW f \in Filter, NEW c \in Block, NEW k \in 1 .. MaxK, new_from_bytes(f, c, k)
      PROVE  blocks'[b].bits = blocks[b].bits
  BY <1>5 DEF new_from_bytes, IInv, TypeOK
<1>6. ASSUME NEW f \in Filter, NEW e \in Element, add_element(f, e)
      PROVE  blocks'[b].bits = blocks[b].bits
  BY <1>2, <1>6 DEF add_element, IInv, TypeOK
<1>7. ASSUME NEW f \in Filter, unref(f)
      PROVE  blocks'[b].bits = blocks[b].bits
  <2>1. CASE filters[f].refs > 1 \/ filters[f].block # b
    BY <2>1, <1>7 DEF unref, IInv, TypeOK
  <2>2. CASE ~(filters[f].refs > 1) /\ filters[f].block = b
    <3>1. ~filters[f].is_mutable /\ blocks'[b] = Unreferenced(b)
      BY <1>2, <1>7, <2>2 DEF unref, IInv, TypeOK
    <3>2. f \in Readers(b)
      BY <1>7, <2>2, <3>1 DEF Readers, unref
    <3>3. Cardinality(Readers(b)) >= 1
      BY <3>2, ReadersFinite, OneLess
    <3>4. held[b] \in Nat
      BY DEF IInv, TypeOK
    <3> QED
      BY <1>3, <1>u, <3>1, <3>3, <3>4
  <2> QED
    BY <2>1, <2>2
<1>8. ASSUME NEW f \in Filter, seal(f)
      PROVE  blocks'[b].bits = blocks[b].bits
  BY <1>8 DEF seal, IInv, TypeOK
<1>9. ASSUME NEW c \in Block, Release(c)
      PROVE  blocks'[b].bits = blocks[b].bits
  <2>1. CASE c # b
    BY <2>1, <1>9 DEF Release, IInv, TypeOK
  <2>2. CASE c = b
    <3>1. held'[b] = held[b] - 1 /\ held[b] \in Nat /\ blocks'[b] = Unreferenced(b)
      BY <2>2, <1>9 DEF Release, IInv, TypeOK
    <3> QED
      BY <1>3, <1>u, <3>1
  <2> QED
    BY <2>1, <2>2
<1>10. ASSUME NEW c \in Block, NEW d \in Block, Copy(c, d)
       PROVE  blocks'[b].bits = blocks[b].bits
  BY <1>1, <1>10 DEF Copy, Free, IInv, TypeOK
<1>11. ASSUME NEW f \in Filter, ref(f)
       PROVE  blocks'[b].bits = blocks[b].bits
  BY <1>11 DEF ref
<1> QED
  BY <1>4, <1>5, <1>6, <1>7, <1>8, <1>9, <1>10, <1>11 DEF Next, vars

THEOREM AlwaysIInv == Spec => []IInv
  BY InitIInv, NextIInv, PTL DEF Spec

\* Every state of the filters and blocks is well-typed.
THEOREM TypeCorrect == Spec => []TypeOK
<1>1. IInv => TypeOK
  BY DEF IInv
<1> QED
  BY <1>1, AlwaysIInv, PTL

\* ostree_bloom_maybe_contains never denies an element that was added: neither
\* before nor after sealing, nor in a filter loaded from the bytes or a copy.
THEOREM NeverFalseNegative == Spec => []NoFalseNegatives
  BY RecordedIsFound, AlwaysIInv, PTL

\* No filter and no caller has a reference on memory that was freed or reused, and
\* a filter that can change shares its memory with none.
THEOREM NeverDangles == Spec => []NothingDangles
<1>1. IInv => NothingDangles
  BY DEF IInv
<1> QED
  BY <1>1, AlwaysIInv, PTL

\* The references on each GBytes are its callers' and its sealed filters'.
THEOREM CountsExact == Spec => []CountsAreExact
<1>1. IInv => CountsAreExact
  BY DEF IInv
<1> QED
  BY <1>1, AlwaysIInv, PTL

\* The bytes ostree_bloom_seal returned do not change under whoever keeps them.
THEOREM SealedBytesStay == Spec => BytesStay
<1>1. IInv /\ [Next]_vars => [\A b \in Block : held[b] > 0 /\ held'[b] > 0 => blocks'[b].bits = blocks[b].bits]_vars
  BY HeldStay
<1> QED
  BY <1>1, AlwaysIInv, PTL DEF Spec, BytesStay

=============================================================================
