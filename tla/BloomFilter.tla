------------------------------ MODULE BloomFilter ------------------------------
(***************************************************************************)
(* ostree-bloom.c: the filters an updater advertises its refs in.  A filter  *)
(* under construction owns its block of memory; sealing hands the block to    *)
(* a GBytes, which the filter and the callers then share by reference        *)
(* counts.  Whoever gets a copy of the bytes can load a filter from them.     *)
(* The hash function is a constant.                                         *)
(***************************************************************************)
EXTENDS Integers, FiniteSets

CONSTANTS
    Filter,    \* the structures that can exist at a time
    Block,     \* the blocks of memory
    Element,
    MaxK,      \* no filter has more hash functions
    Size,      \* sizes in bytes asked for
    MaxSize,   \* G_MAXSIZE
    MaxUInt,   \* G_MAXUINT
    Hash,      \* the universal hash function: the hash of an element by its k-th function
    MaxHeld    \* bound on the references a caller has on one GBytes

ASSUME MaxKAssumption == MaxK \in Nat \ {0}
ASSUME SizeAssumption == Size \subseteq Nat /\ MaxSize \in Nat
ASSUME MaxUIntAssumption == MaxUInt \in Nat \ {0}
ASSUME HashAssumption == Hash \in [Element \X (0 .. MaxK - 1) -> Nat]
ASSUME MaxHeldAssumption == MaxHeld \in Nat
ASSUME FilterAssumption == IsFiniteSet(Filter) /\ Block # {}

VARIABLES
    filters,   \* the structures; no reference is left on one that is gone
    blocks,    \* contents: no byte when free, the set bits, and references on the GBytes
    held,      \* the references callers have on the GBytes of a block
    inserted,  \* history: what was added to a block's filter, and by how many hashes
    answer     \* what the last call of ostree_bloom_ref returned

vars == <<filters, blocks, held, inserted, answer>>

Gone == [refs |-> 0, is_mutable |-> FALSE, block |-> CHOOSE b \in Block : TRUE, n_bytes |-> 0, k |-> 0]
Free == [n_bytes |-> 0, bits |-> {}, refs |-> 0]

Live(f) == filters[f].refs >= 1

\* The bit of a filter of n bytes that an element's i-th hash stands for.
Index(e, i, n) == Hash[<<e, i>>] % (8 * n)

\* Mutant: the last hash function is forgotten.
IndexesButOne(e, k, n) == {Index(e, i, n) : i \in 0 .. k - 2}

\* The bits of an element, k hashes of it.
Indexes(e, k, n) == {Index(e, i, n) : i \in 0 .. k - 1}

(* ostree_bloom_maybe_contains: every bit of the element is set.              *)
maybe_contains(f, e) ==
    \A i \in 0 .. filters[f].k - 1 :
        Index(e, i, filters[f].n_bytes) \in blocks[filters[f].block].bits

-----------------------------------------------------------------------------

Init ==
    /\ filters = [f \in Filter |-> Gone]
    /\ blocks = [b \in Block |-> Free]
    /\ held = [b \in Block |-> 0]
    /\ inserted = [b \in Block |-> {}]
    /\ answer = "none"

(* ostree_bloom_new: no bit is set.                                          *)
new(f, b, n, k) ==
    /\ ~Live(f) /\ blocks[b] = Free
    /\ n > 0 /\ n <= MaxSize \div 8
    /\ filters' = [filters EXCEPT ![f] =
                     [refs |-> 1, is_mutable |-> TRUE, block |-> b, n_bytes |-> n, k |-> k]]
    /\ blocks' = [blocks EXCEPT ![b] = [n_bytes |-> n, bits |-> {}, refs |-> 0]]
    /\ inserted' = [inserted EXCEPT ![b] = {}]
    /\ UNCHANGED <<held, answer>>

(* ostree_bloom_new_from_bytes, of bytes the caller holds, with any k.        *)
new_from_bytes(f, b, k) ==
    /\ ~Live(f) /\ held[b] > 0
    /\ blocks[b].n_bytes > 0 /\ blocks[b].n_bytes <= MaxSize \div 8
    /\ filters' = [filters EXCEPT ![f] =
                     [refs |-> 1, is_mutable |-> FALSE, block |-> b, n_bytes |-> blocks[b].n_bytes, k |-> k]]
    /\ blocks' = [blocks EXCEPT ![b].refs = @ + 1]
    /\ UNCHANGED <<held, inserted, answer>>

(* ostree_bloom_ref: its precondition on the counter is an equality, which     *)
(* holds only one below the largest number.                                 *)
ref(f) ==
    /\ Live(f)
    /\ IF filters[f].refs = MaxUInt - 1
         THEN filters' = [filters EXCEPT ![f].refs = @ + 1] /\ answer' = "bloom"
         ELSE answer' = "NULL" /\ UNCHANGED filters
    /\ UNCHANGED <<blocks, held, inserted>>

\* A reference on the GBytes of a block goes, and with the last one the block.
Unreferenced(b) == IF blocks[b].refs = 1 THEN Free ELSE [blocks[b] EXCEPT !.refs = @ - 1]

(* ostree_bloom_unref: with its last reference a filter lets go of its bytes.  *)
unref(f) ==
    LET b == filters[f].block IN
    /\ Live(f)
    /\ IF filters[f].refs > 1
         THEN filters' = [filters EXCEPT ![f].refs = @ - 1] /\ UNCHANGED blocks
         ELSE /\ filters' = [filters EXCEPT ![f] = Gone]
              /\ blocks' = [blocks EXCEPT ![b] = IF filters[f].is_mutable THEN Free ELSE Unreferenced(b)]
    /\ UNCHANGED <<held, inserted, answer>>

(* ostree_bloom_add_element.                                                 *)
add_element(f, e) ==
    LET b == filters[f].block  k == filters[f].k IN
    /\ Live(f) /\ filters[f].is_mutable
    /\ blocks' = [blocks EXCEPT ![b].bits = @ \cup Indexes(e, k, filters[f].n_bytes)]
    /\ inserted' = [inserted EXCEPT ![b] = @ \cup {<<e, k>>}]
    /\ UNCHANGED <<filters, held, answer>>

(* ostree_bloom_seal: the first call makes the block a GBytes of the filter's; *)
(* every call gives the caller a reference.                                  *)
seal(f) ==
    LET b == filters[f].block IN
    /\ Live(f) /\ held[b] < MaxHeld
    /\ filters' = [filters EXCEPT ![f].is_mutable = FALSE]
    /\ blocks' = [blocks EXCEPT ![b].refs = IF filters[f].is_mutable THEN 2 ELSE @ + 1]
    /\ held' = [held EXCEPT ![b] = @ + 1]
    /\ UNCHANGED <<inserted, answer>>

(* g_bytes_unref by a caller.                                                *)
Release(b) ==
    /\ held[b] > 0
    /\ held' = [held EXCEPT ![b] = @ - 1]
    /\ blocks' = [blocks EXCEPT ![b] = Unreferenced(b)]
    /\ UNCHANGED <<filters, inserted, answer>>

(* The bytes are written down, and read back as others, maybe elsewhere.      *)
Copy(b, c) ==
    /\ held[b] > 0 /\ blocks[c] = Free /\ MaxHeld > 0
    /\ blocks' = [blocks EXCEPT ![c] = [blocks[b] EXCEPT !.refs = 1]]
    /\ inserted' = [inserted EXCEPT ![c] = inserted[b]]
    /\ held' = [held EXCEPT ![c] = 1]
    /\ UNCHANGED <<filters, answer>>

Next ==
    \/ \E f \in Filter :
          \/ \E b \in Block, n \in Size, k \in 1 .. MaxK : new(f, b, n, k)
          \/ \E b \in Block, k \in 1 .. MaxK : new_from_bytes(f, b, k)
          \/ \E e \in Element : add_element(f, e)
          \/ ref(f) \/ unref(f) \/ seal(f)
    \/ \E b \in Block : Release(b) \/ \E c \in Block : Copy(b, c)

Spec == Init /\ [][Next]_vars

-----------------------------------------------------------------------------

TypeOK ==
    /\ filters \in [Filter -> [refs : Nat, is_mutable : BOOLEAN, block : Block, n_bytes : Nat, k : 0 .. MaxK]]
    /\ blocks \in [Block -> [n_bytes : Nat, bits : SUBSET Nat, refs : Nat]]
    /\ held \in [Block -> 0 .. MaxHeld]
    /\ inserted \in [Block -> SUBSET (Element \X (1 .. MaxK))]
    /\ answer \in {"none", "bloom", "NULL"}

(* What a filter was given it may contain, for ever: also once sealed, also    *)
(* after another filter was loaded from the bytes or from a copy of them,      *)
(* with as many hash functions or fewer.                                     *)
NoFalseNegatives ==
    \A f \in Filter : Live(f) =>
        \A p \in inserted[filters[f].block] :
            filters[f].k <= p[2] => maybe_contains(f, p[1])

\* The filters that have a reference on the GBytes of a block.
Readers(b) == {f \in Filter : Live(f) /\ ~filters[f].is_mutable /\ filters[f].block = b}

(* A block that a filter or a caller can still read is in use, with the size   *)
(* the filter has; one that can still change is a single filter's.            *)
FiltersInUse ==
    \A f \in Filter : Live(f) =>
        /\ filters[f].k > 0 /\ filters[f].n_bytes > 0
        /\ filters[f].n_bytes = blocks[filters[f].block].n_bytes
MutableAlone ==
    \A f, g \in Filter : Live(f) /\ filters[f].is_mutable =>
        /\ blocks[filters[f].block].refs = 0
        /\ Live(g) /\ filters[g].block = filters[f].block => g = f
HeldInUse == \A b \in Block : held[b] > 0 => blocks[b].n_bytes > 0

NothingDangles == FiltersInUse /\ MutableAlone /\ HeldInUse

(* A GBytes goes with its last holder and no later: each reference counted is  *)
(* a caller's or a sealed filter's.                                          *)
CountsAreExact ==
    \A b \in Block : blocks[b].refs = held[b] + Cardinality(Readers(b))

(* Bytes that a caller keeps a reference on stay as they were.                *)
BytesStay ==
    [][\A b \in Block : held[b] > 0 /\ held'[b] > 0 => blocks'[b].bits = blocks[b].bits]_vars

(* The documentation of ostree_bloom_ref: it returns the filter.              *)
RefReturnsFilter == answer # "NULL"

=============================================================================
