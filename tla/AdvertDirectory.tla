--------------------------- MODULE AdvertDirectory ---------------------------
(***************************************************************************)
(* What the exchange of Bloom filters promises: a node's directory gives,  *)
(* for a cluster the node is not in, nothing or a filter that some node of *)
(* that cluster has advertised.  It need not be the last one: adverts are  *)
(* lost and overtake each other.                                           *)
(***************************************************************************)
CONSTANTS Nodes, Clusters, Filters,
          OwnClusters, \* OwnClusters[n]: the clusters n is in
          NoFilter

VARIABLES adverts,   \* <<c, f>>: filter f was advertised for cluster c
          directory  \* directory[n][c]: what n knows of c

advertVars == <<adverts, directory>>

Init ==
    /\ adverts = {}
    /\ directory = [n \in Nodes |-> [c \in Clusters |-> NoFilter]]

Advertise(n) ==
    /\ \E A \in SUBSET (OwnClusters[n] \X Filters) : adverts' = adverts \cup A
    /\ UNCHANGED directory

Learn(n, c) ==
    /\ c \notin OwnClusters[n]
    /\ \E f \in Filters :
          /\ <<c, f>> \in adverts
          /\ directory' = [directory EXCEPT ![n][c] = f]
    /\ UNCHANGED adverts

Next ==
    \E n \in Nodes :
        \/ Advertise(n)
        \/ \E c \in Clusters : Learn(n, c)

Spec == Init /\ [][Next]_advertVars
==============================================================================
