------------------------------- MODULE MCPit -------------------------------
(* Pit for TLC.  Workers and names are interchangeable.                    *)
EXTENDS Pit, TLC

CONSTANTS w1, w2, e1, a, b

WorkerSet == {w1, w2}
ExpresserSet == {e1}
NameSet == {a, b}
Symmetry == Permutations(WorkerSet) \cup Permutations(NameSet)
=============================================================================
