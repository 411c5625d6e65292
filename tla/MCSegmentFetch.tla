--------------------------- MODULE MCSegmentFetch ---------------------------
(* A file of a few chunks and the two threads the net listener has by default. *)
EXTENDS SegmentFetch

Symmetry == Permutations(Workers)
=============================================================================
