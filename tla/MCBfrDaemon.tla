---------------------------- MODULE MCBfrDaemon ----------------------------
(* BfrDaemon for TLC: a grid of one level with two clusters, a node that can *)
(* be in either, and neighbours 1 and 7 beside the node's own number 2.      *)
EXTENDS BfrDaemon

CONSTANTS here, there

PositionSet == {here, there}
Grid == [c \in {1} \X PositionSet |-> IF c[2] = here THEN 3 ELSE 4]

Bloom1 == [type |-> "bloom"]
Other == [type |-> "other"]
Response(c, h) == [type |-> "response", level |-> 1, cluster |-> c, head |-> h]
Location == [type |-> "location", position |-> there]

AllPackets == {Bloom1, Other, Response(3, 7), Response(3, 1), Response(4, 1)}
FewPackets == {Bloom1, Response(3, 7), Response(4, 1)}
AllRequests == {Location, [type |-> "short"], [type |-> "distance"]}
GoodRequests == {Location, [type |-> "distance"]}
=============================================================================
