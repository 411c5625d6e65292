-------------------------- MODULE MCInterestRouting --------------------------
(* InterestRouting for TLC: nodes in a row with the publisher at its end, on *)
(* a grid of two levels whose leaves are a bit more than twenty wide and     *)
(* high.  The first two are in leaf 0, and the last, in leaf 1, is nearer to *)
(* leaf 0's centre than the second.  Places are counted in halves.           *)
EXTENDS InterestRouting

Row == {1, 2, 3}
RowHears == [n \in Row |-> {k \in Row : k = n + 1 \/ n = k + 1}]
RowPlaces == <<<<20, 20>>, <<40, 40>>, <<44, 20>>>>
NoHeads == [n \in Row |-> {}]
Nothing == [c \in Clusters |-> 0]
Knowing(c) == [Nothing EXCEPT ![c] = 1]
FirstKnows == [n \in Row |-> IF n = 1 THEN Knowing(<<2, 1>>) ELSE Nothing]
==============================================================================
