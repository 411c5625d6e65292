---------------------------- MODULE MCFilterFlood ----------------------------
(* FilterFlood for TLC: three nodes in a row with two levels; one cluster    *)
(* above, the first two nodes in leaf 1 and the third in leaf 0.             *)
EXTENDS FilterFlood

Row == {1, 2, 3}
RowHears == [n \in Row |-> {k \in Row : k = n + 1 \/ n = k + 1}]
TwoLevels == [p \in Row \X {1, 2} |-> IF p[2] = 1 \/ p[1] = 3 THEN 0 ELSE 1]
FirstName == [n \in Row |-> IF n = 1 THEN {3} ELSE {}]
==============================================================================
