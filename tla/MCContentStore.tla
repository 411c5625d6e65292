--------------------------- MODULE MCContentStore ---------------------------
(* ContentStore for TLC: two names and a table in which they collide.      *)
EXTENDS ContentStore, TLC

CONSTANTS a, b, t1, t2

ThreadSet == {t1, t2}
KeySet == {a, b}
Strangers == [k \in KeySet |-> NoKey]

\* Slot 1 is all b has, so that it evicts a or goes astray.
Tight == [k \in KeySet |-> IF k = a THEN <<1, 2, 1>> ELSE <<1>>]

WholeOf(k, stamp) == [name |-> [key |-> k, seq |-> Whole], stamp |-> stamp]
ChunkOf(k, i) == [name |-> [key |-> k, seq |-> i], stamp |-> 1]
ObjectSet == {WholeOf(a, 1), WholeOf(a, 2), WholeOf(b, 1), ChunkOf(a, 0), ChunkOf(a, 1)}

Symmetry == Permutations(ThreadSet)
=============================================================================
