----------------------------- MODULE MCBloomFilter -----------------------------
(* Instances of BloomFilter: the hashes of two elements collide in a filter of   *)
(* one byte and not in one of two; 32-bit counters are not reached.            *)
EXTENDS BloomFilter, TLC

CONSTANTS e1, e2, f1, f2, b1, b2

MCHash == <<e1, 0>> :> 3 @@ <<e1, 1>> :> 12 @@ <<e2, 0>> :> 11 @@ <<e2, 1>> :> 22
MCSize == {0, 1, 2, 4}

Symmetry == Permutations(Filter)

=============================================================================
