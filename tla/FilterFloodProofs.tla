-------------------------- MODULE FilterFloodProofs --------------------------
(***************************************************************************)
(* Proofs about the exchange of Bloom filters, for any nodes that hear     *)
(* each other in any way, any grid, any nonces and any filters: filters    *)
(* are credited to those whose content they are of, and what a node knows  *)
(* of other clusters is what they advertised.                              *)
(***************************************************************************)
EXTENDS FilterFlood, TLAPS

-----------------------------------------------------------------------------
(* The grid and the cluster tables.                                        *)

\* The grid puts every node into one cluster of each level.
LEMMA Grid ==
  ASSUME NEW n \in Nodes, NEW l \in Levels
  PROVE  /\ Own(n, l) \in Clusters /\ Own(n, l)[1] = l /\ Own(n, l)[2] = ClusterOf[<<n, l>>]
         /\ ClusterOf[<<n, l>>] \in Nat
         /\ n \in InCluster(Own(n, l))
<1>1. ClusterOf[<<n, l>>] \in Nat
  BY FloodAssumption
<1>2. ClusterOf[<<n, l>>] \in {ClusterOf[<<k, j>>] : k \in Nodes, j \in Levels}
  OBVIOUS
<1>3. Own(n, l) \in Clusters
  BY <1>2 DEF Own, Clusters
<1>4. n \in InCluster(Own(n, l))
  BY DEF InCluster, Own
<1>5. QED
  BY <1>1, <1>3, <1>4 DEF Own

\* The leaves' level is the lowest, and a flood can reach it.
LEMMA LevelsAndTtl ==
  /\ NumLevels \in Levels /\ FloodTtl \in Nat
  /\ \A l \in Levels : l \in Nat /\ l <= NumLevels /\ l <= FloodTtl
  BY FloodAssumption DEF Levels

\* A node's leaf is the one cluster of its own on the lowest level.
LEMMA OwnLeaf ==
  ASSUME NEW n \in Nodes, NEW l \in Levels
  PROVE  IsOwnLeaf(n, Own(n, l)) <=> l = NumLevels
  BY DEF IsOwnLeaf, Own

\* Filters put together are a filter.
LEMMA UnionOfFilters ==
  ASSUME NEW F, F \subseteq {NoFilter} \cup Filter
  PROVE  Union(F) \in Filter
  BY DEF Union, Filter

\* What is kept for a cluster is a filter or nothing.
LEMMA KnownType ==
  ASSUME TypeOK, NEW n \in Nodes, NEW c \in Clusters
  PROVE  Known(n, c) \in {NoFilter} \cup Filter
  BY DEF TypeOK, Known

\* Only a leaf has parts: another cluster converts to itself and is left out.
LEMMA PartsOfCluster ==
  ASSUME NEW n \in Nodes, NEW c \in Clusters
  PROVE  Parts(n, c) = IF IsOwnLeaf(n, c) THEN {members[n][k] : k \in Nodes} ELSE {}
<1>1. \A d \in Clusters : d = <<d[1], d[2]>>
  BY DEF Clusters
<1>2. QED
  BY <1>1 DEF Parts, Converted

\* An aggregate is a filter if something is kept for the cluster.
LEMMA AggregateType ==
  ASSUME TypeOK, NEW n \in Nodes, NEW c \in Clusters, NEW own \in Filter, Known(n, c) # NoFilter
  PROVE  Aggregate(n, c, own) \in Filter
<1>1. \A k \in Nodes : members[n][k] \in {NoFilter} \cup Filter
  BY DEF TypeOK
<1>2. Parts(n, c) \subseteq {NoFilter} \cup Filter
  BY <1>1, PartsOfCluster
<1>3. Union(Parts(n, c)) \in Filter
  BY <1>2, UnionOfFilters
<1>4. QED
  BY <1>3, KnownType DEF Aggregate, Filter

\* What the node's store can come to hold is a filter.
LEMMA OwnFilter ==
  ASSUME NEW n \in Nodes, NEW own \in SUBSET Store[n]
  PROVE  own \in Filter
  BY FloodAssumption DEF Filter

\* What is kept of a node's own cluster and put together with its own filter is content
\* of the cluster or the node's own.
LEMMA AggregateTrue ==
  ASSUME AdvertsTrue, NEW n \in Nodes, NEW l \in Levels, NEW own,
         Known(n, Own(n, l)) # NoFilter
  PROVE  Aggregate(n, Own(n, l), own) \subseteq HeldIn(Own(n, l)) \cup own
<1> DEFINE c == Own(n, l)
<1>1. c \in Clusters
  BY Grid
<1>2. Known(n, c) \subseteq HeldIn(c)
  BY <1>1 DEF AdvertsTrue
<1>3. Union(Parts(n, c)) \subseteq HeldIn(c)
  <2>1. CASE l = NumLevels
    <3>1. Parts(n, c) = {members[n][k] : k \in Nodes}
      BY <1>1, <2>1, PartsOfCluster, OwnLeaf
    <3>2. \A k \in Nodes : members[n][k] # NoFilter => members[n][k] \subseteq HeldIn(c)
      BY <2>1 DEF AdvertsTrue
    <3>3. QED
      BY <3>1, <3>2 DEF Union
  <2>2. CASE l # NumLevels
    BY <1>1, <2>2, PartsOfCluster, OwnLeaf DEF Union
  <2>3. QED
    BY <2>1, <2>2
<1>4. QED
  BY <1>2, <1>3 DEF Aggregate

\* What a store has held in a round of bloom() it has held for good.
LEMMA HeldGrows ==
  ASSUME TypeOK, NEW n \in Nodes, NEW own, held' = [held EXCEPT ![n] = @ \cup own]
  PROVE  /\ \A k \in Nodes : held[k] \subseteq held'[k]
         /\ own \subseteq held'[n]
         /\ \A c : HeldIn(c) \subseteq HeldIn(c)'
         /\ \A l \in Levels : own \subseteq HeldIn(Own(n, l))'
<1>1. \A k \in Nodes : held[k] \subseteq held'[k]
  BY DEF TypeOK
<1>2. own \subseteq held'[n]
  BY DEF TypeOK
<1>3. \A c : HeldIn(c) \subseteq HeldIn(c)'
  BY <1>1 DEF HeldIn, InCluster
<1>4. \A l \in Levels : own \subseteq HeldIn(Own(n, l))'
  BY <1>2, Grid DEF HeldIn
<1>5. QED
  BY <1>1, <1>2, <1>3, <1>4

-----------------------------------------------------------------------------
(* A round of bloom().                                                     *)

\* What a round of bloom() sends: well-formed messages in the node's own name, about its
\* own clusters, with filters of what these have held.
LEMMA BloomMessages ==
  ASSUME TypeOK, AdvertsTrue, NEW n \in Nodes, NEW own \in SUBSET Store[n],
         NEW nonce \in [Levels -> Nonces], held' = [held EXCEPT ![n] = @ \cup own],
         NEW x \in Sent(n, own, nonce)
  PROVE  /\ x \in Message /\ x.from = n
         /\ Subject(x) \in Clusters /\ x.filter \subseteq HeldIn(Subject(x))'
         /\ x.dest # 0 => x.ttl <= x.level /\ x.filter \subseteq held'[n]
         /\ Subject(x) \in {Own(n, l) : l \in Levels}
<1>1. own \in Filter
  BY OwnFilter
<1>2. ASSUME NEW l \in Floods(n, own), x = FloodMessage(n, l, own, nonce[l])
      PROVE  /\ x \in Message /\ x.from = n /\ x.dest = 0
             /\ Subject(x) = Own(n, l) /\ l \in Levels
             /\ x.filter = Aggregate(n, Own(n, l), own) /\ Known(n, Own(n, l)) # NoFilter
  <2>1. l \in Levels /\ Known(n, Own(n, l)) # NoFilter
    BY <1>2 DEF Floods
  <2>2. Aggregate(n, Own(n, l), own) \in Filter
    BY <1>1, <2>1, AggregateType, Grid
  <2>3. nonce[l] \in Nonces /\ ClusterOf[<<n, l>>] \in Nat /\ FloodTtl \in 0..FloodTtl
    BY <2>1, Grid, LevelsAndTtl
  <2>4. QED
    BY <1>2, <2>1, <2>2, <2>3 DEF FloodMessage, Message, Subject, Own
<1>3. ASSUME NEW l \in Reports(n, own), x = ReportMessage(n, l, own, nonce[l])
      PROVE  /\ x \in Message /\ x.from = n /\ x.ttl = l /\ x.level = l
             /\ Subject(x) = Own(n, l) /\ l \in Levels /\ x.filter = own
  <2>1. l \in Levels
    BY <1>3 DEF Reports
  <2>2. nonce[l] \in Nonces /\ ClusterOf[<<n, l>>] \in Nat /\ l \in 0..FloodTtl
    BY <2>1, Grid, LevelsAndTtl
  <2>3. QED
    BY <1>1, <1>3, <2>1, <2>2 DEF ReportMessage, Message, Subject, Own
<1>4. CASE \E l \in Floods(n, own) : x = FloodMessage(n, l, own, nonce[l])
  <2>1. PICK l \in Floods(n, own) : x = FloodMessage(n, l, own, nonce[l])
    BY <1>4
  <2>2. x.filter \subseteq HeldIn(Own(n, l)) \cup own
    BY <1>2, <2>1, AggregateTrue
  <2>3. x.filter \subseteq HeldIn(Subject(x))'
    <3>1. HeldIn(Own(n, l)) \subseteq HeldIn(Own(n, l))' /\ own \subseteq HeldIn(Own(n, l))'
      BY <1>2, <2>1, HeldGrows
    <3>2. Subject(x) = Own(n, l)
      BY <1>2, <2>1
    <3>3. QED
      BY <2>2, <3>1, <3>2
  <2>4. QED
    BY <1>2, <2>1, <2>3, Grid
<1>5. CASE \E l \in Reports(n, own) : x = ReportMessage(n, l, own, nonce[l])
  <2>1. PICK l \in Reports(n, own) : x = ReportMessage(n, l, own, nonce[l])
    BY <1>5
  <2>2. own \subseteq held'[n] /\ own \subseteq HeldIn(Own(n, l))'
    BY <1>3, <2>1, HeldGrows
  <2>3. x.filter \subseteq HeldIn(Subject(x))'
    <3>1. Subject(x) = Own(n, l) /\ x.filter = own
      BY <1>3, <2>1
    <3>2. QED
      BY <2>2, <3>1
  <2>4. Own(n, l) \in Clusters /\ l \in Nat
    BY <1>3, <2>1, Grid, LevelsAndTtl
  <2>5. x.ttl <= x.level
    BY <1>3, <2>1, <2>4
  <2>6. QED
    BY <1>3, <2>1, <2>2, <2>3, <2>4, <2>5
<1>6. QED
  BY <1>4, <1>5 DEF Sent

\* What a round of bloom() leaves in the node's tables: as it was, or the aggregate of
\* one of the node's own clusters.
LEMMA BloomTables ==
  ASSUME TypeOK, NEW n \in Nodes, NEW own,
         leafAgg' = IF Aggregated(n, own, NumLevels)
                    THEN [leafAgg EXCEPT ![n] = Aggregate(n, Own(n, NumLevels), own)]
                    ELSE leafAgg,
         table' = [table EXCEPT ![n] =
            [c \in Clusters |->
                IF c[1] < NumLevels /\ c = Own(n, c[1]) /\ Aggregated(n, own, c[1])
                THEN Aggregate(n, c, own)
                ELSE @[c]]]
  PROVE  /\ \A k \in Nodes : leafAgg'[k] = leafAgg[k]
               \/ /\ k = n /\ Known(n, Own(n, NumLevels)) # NoFilter
                  /\ leafAgg'[k] = Aggregate(n, Own(n, NumLevels), own)
         /\ \A k \in Nodes, c \in Clusters : table'[k][c] = table[k][c]
               \/ /\ k = n /\ c[1] \in Levels /\ c = Own(n, c[1]) /\ Known(n, c) # NoFilter
                  /\ table'[k][c] = Aggregate(n, c, own)
         /\ DOMAIN leafAgg' = Nodes /\ leafAgg' = [k \in Nodes |-> leafAgg'[k]]
         /\ table' = [k \in Nodes |-> table'[k]]
         /\ \A k \in Nodes : table'[k] = [c \in Clusters |-> table'[k][c]]
<1>1. /\ \A k \in Nodes : leafAgg'[k] = leafAgg[k]
            \/ /\ k = n /\ Known(n, Own(n, NumLevels)) # NoFilter
               /\ leafAgg'[k] = Aggregate(n, Own(n, NumLevels), own)
      /\ DOMAIN leafAgg' = Nodes /\ leafAgg' = [k \in Nodes |-> leafAgg'[k]]
  BY DEF TypeOK, Aggregated
<1>2. /\ table' = [k \in Nodes |-> table'[k]]
      /\ \A k \in Nodes : table'[k] = [c \in Clusters |-> table'[k][c]]
  BY DEF TypeOK
<1>3. ASSUME NEW k \in Nodes, NEW c \in Clusters, table'[k][c] # table[k][c]
      PROVE  /\ k = n /\ c[1] \in Levels /\ c = Own(n, c[1]) /\ Known(n, c) # NoFilter
             /\ table'[k][c] = Aggregate(n, c, own)
  <2>1. k = n /\ c[1] < NumLevels /\ c = Own(n, c[1]) /\ Aggregated(n, own, c[1])
        /\ table'[k][c] = Aggregate(n, c, own)
    BY <1>3 DEF TypeOK
  <2>2. c[1] \in Levels
    BY DEF Clusters
  <2>3. QED
    BY <2>1, <2>2 DEF Aggregated
<1>4. QED
  BY <1>1, <1>2, <1>3

LEMMA BloomInv ==
  ASSUME FilterInv, NEW n \in Nodes, Bloom(n)
  PROVE  FilterInv'
<1>1. PICK own \in SUBSET Store[n], nonce \in [Levels -> Nonces] :
        LET M == Sent(n, own, nonce)
        IN  /\ net' = net \cup Broadcast(n, M)
            /\ clash' = \/ clash
                        \/ \E m \in M : m.nonce \in drawn
                        \/ \E m1, m2 \in M : m1 # m2 /\ m1.nonce = m2.nonce
            /\ adverts' = adverts \cup {<<Subject(m), m.filter>> : m \in M}
            /\ drawn' = drawn \cup {m.nonce : m \in M}
            /\ leafAgg' = IF Aggregated(n, own, NumLevels)
                          THEN [leafAgg EXCEPT ![n] = Aggregate(n, Own(n, NumLevels), own)]
                          ELSE leafAgg
            /\ table' = [table EXCEPT ![n] =
                  [c \in Clusters |->
                      IF c[1] < NumLevels /\ c = Own(n, c[1]) /\ Aggregated(n, own, c[1])
                      THEN Aggregate(n, c, own)
                      ELSE @[c]]]
            /\ held' = [held EXCEPT ![n] = @ \cup own]
  BY DEF Bloom
<1> DEFINE M == Sent(n, own, nonce)
<1>2. /\ net' = net \cup Broadcast(n, M)
      /\ clash' \in BOOLEAN
      /\ adverts' = adverts \cup {<<Subject(m), m.filter>> : m \in M}
      /\ drawn' = drawn \cup {m.nonce : m \in M}
  BY <1>1 DEF FilterInv, TypeOK
<1>3. held' = [held EXCEPT ![n] = @ \cup own]
  BY <1>1
<1>4. blooms' = blooms + 1 /\ blooms < MaxBlooms
      /\ UNCHANGED <<seen, heads, members, elections>>
  BY DEF Bloom
<1>5. /\ \A k \in Nodes : held[k] \subseteq held'[k]
      /\ own \subseteq held'[n]
      /\ \A c : HeldIn(c) \subseteq HeldIn(c)'
      /\ \A l \in Levels : own \subseteq HeldIn(Own(n, l))'
  BY <1>3, HeldGrows DEF FilterInv
<1>6. \A x \in M : /\ x \in Message /\ x.from = n
                   /\ Subject(x) \in Clusters /\ x.filter \subseteq HeldIn(Subject(x))'
                   /\ x.dest # 0 => x.ttl <= x.level /\ x.filter \subseteq held'[n]
  <2>1. TypeOK /\ AdvertsTrue
    BY DEF FilterInv
  <2>2. QED
    BY <1>3, <2>1, BloomMessages
<1>7. /\ \A k \in Nodes : leafAgg'[k] = leafAgg[k]
            \/ /\ k = n /\ Known(n, Own(n, NumLevels)) # NoFilter
               /\ leafAgg'[k] = Aggregate(n, Own(n, NumLevels), own)
      /\ \A k \in Nodes, c \in Clusters : table'[k][c] = table[k][c]
            \/ /\ k = n /\ c[1] \in Levels /\ c = Own(n, c[1]) /\ Known(n, c) # NoFilter
               /\ table'[k][c] = Aggregate(n, c, own)
      /\ DOMAIN leafAgg' = Nodes /\ leafAgg' = [k \in Nodes |-> leafAgg'[k]]
      /\ table' = [k \in Nodes |-> table'[k]]
      /\ \A k \in Nodes : table'[k] = [c \in Clusters |-> table'[k][c]]
  BY <1>1, BloomTables DEF FilterInv
<1> HIDE DEF M
<1>8. own \in Filter
  BY OwnFilter
<1>9. TypeOK'
  <2>1. net' \subseteq [to : Nodes, msg : Message]
    BY <1>2, <1>6, FloodAssumption DEF FilterInv, TypeOK, Broadcast
  <2>2. \A k \in Nodes : leafAgg'[k] \in {NoFilter} \cup Filter
    <3>1. Known(n, Own(n, NumLevels)) # NoFilter => Aggregate(n, Own(n, NumLevels), own) \in Filter
      BY <1>8, AggregateType, Grid, LevelsAndTtl DEF FilterInv
    <3>2. QED
      BY <1>7, <3>1 DEF FilterInv, TypeOK
  <2>3. \A k \in Nodes, c \in Clusters : table'[k][c] \in {NoFilter} \cup Filter
    <3>1. \A c \in Clusters : Known(n, c) # NoFilter => Aggregate(n, c, own) \in Filter
      BY <1>8, AggregateType DEF FilterInv
    <3>2. QED
      BY <1>7, <3>1 DEF FilterInv, TypeOK
  <2>4. leafAgg' \in [Nodes -> {NoFilter} \cup Filter]
    BY <1>7, <2>2
  <2>5. table' \in [Nodes -> [Clusters -> {NoFilter} \cup Filter]]
    <3>1. \A k \in Nodes : table'[k] \in [Clusters -> {NoFilter} \cup Filter]
      BY <1>7, <2>3
    <3>2. QED
      BY <1>7, <3>1
  <2>6. held' \in [Nodes -> Filter]
    BY <1>3, <1>8 DEF FilterInv, TypeOK, Filter
  <2>7. adverts' \subseteq Clusters \X Filter
    BY <1>2, <1>6 DEF FilterInv, TypeOK, Message
  <2>8. drawn' \subseteq Nonces
    BY <1>2, <1>6 DEF FilterInv, TypeOK, Message
  <2>9. blooms' \in 0..MaxBlooms
    BY <1>4, FloodAssumption DEF FilterInv, TypeOK
  <2>10. QED
    BY <1>2, <1>4, <2>1, <2>4, <2>5, <2>6, <2>7, <2>8, <2>9 DEF FilterInv, TypeOK
<1>10. AdvertsTrue'
  <2>1. \A a \in adverts' : a[2] \subseteq HeldIn(a[1])'
    BY <1>2, <1>5, <1>6 DEF FilterInv, AdvertsTrue
  <2>2. ASSUME NEW l \in Levels, Known(n, Own(n, l)) # NoFilter
        PROVE  Aggregate(n, Own(n, l), own) \subseteq HeldIn(Own(n, l))'
    BY <1>5, <2>2, AggregateTrue DEF FilterInv
  <2>3. ASSUME NEW k \in Nodes, NEW c \in Clusters, Known(k, c)' # NoFilter
        PROVE  Known(k, c)' \subseteq HeldIn(c)'
    <3>1. CASE IsOwnLeaf(k, c)
      <4>1. Known(k, c)' = leafAgg'[k] /\ Known(k, c) = leafAgg[k] /\ c = Own(k, NumLevels)
        BY <3>1 DEF Known, IsOwnLeaf
      <4>2. CASE leafAgg'[k] = leafAgg[k]
        BY <1>5, <2>3, <4>1, <4>2 DEF FilterInv, AdvertsTrue
      <4>3. CASE leafAgg'[k] # leafAgg[k]
        BY <1>7, <2>2, <4>1, <4>3, LevelsAndTtl
      <4>4. QED
        BY <4>2, <4>3
    <3>2. CASE ~IsOwnLeaf(k, c)
      <4>1. Known(k, c)' = table'[k][c] /\ Known(k, c) = table[k][c]
        BY <3>2 DEF Known, IsOwnLeaf
      <4>2. CASE table'[k][c] = table[k][c]
        BY <1>5, <2>3, <4>1, <4>2 DEF FilterInv, AdvertsTrue
      <4>3. CASE table'[k][c] # table[k][c]
        <5>1. /\ k = n /\ c[1] \in Levels /\ c = Own(n, c[1]) /\ Known(n, c) # NoFilter
              /\ table'[k][c] = Aggregate(n, c, own)
          BY <1>7, <4>3
        <5>2. QED
          BY <2>2, <4>1, <5>1
      <4>4. QED
        BY <4>2, <4>3
    <3>3. QED
      BY <3>1, <3>2
  <2>4. \A j, k \in Nodes :
          members'[j][k] # NoFilter => members'[j][k] \subseteq HeldIn(Own(j, NumLevels))'
    BY <1>4, <1>5 DEF FilterInv, AdvertsTrue
  <2>5. QED
    BY <2>1, <2>3, <2>4 DEF AdvertsTrue
<1>11. MembersOwn'
  BY <1>4, <1>5 DEF FilterInv, MembersOwn
<1>12. MessagesTrue'
  <2> SUFFICES ASSUME NEW p \in net'
               PROVE  /\ <<Subject(p.msg), p.msg.filter>> \in adverts'
                      /\ p.msg.dest # 0 =>
                            /\ p.msg.ttl <= p.msg.level
                            /\ p.msg.ttl = p.msg.level => p.msg.filter \subseteq held'[p.msg.from]
    BY DEF MessagesTrue
  <2>1. CASE p \in net
    <3>1. p.msg.from \in Nodes
      BY <2>1 DEF FilterInv, TypeOK, Message
    <3>2. QED
      BY <1>2, <1>5, <2>1, <3>1 DEF FilterInv, MessagesTrue
  <2>2. CASE p \in Broadcast(n, M)
    <3>1. p.msg \in M
      BY <2>2 DEF Broadcast
    <3>2. QED
      BY <1>2, <1>6, <3>1
  <2>3. QED
    BY <1>2, <2>1, <2>2
<1>13. QED
  BY <1>9, <1>10, <1>11, <1>12 DEF FilterInv

-----------------------------------------------------------------------------
(* The other steps.                                                        *)

LEMMA ClusterInv ==
  ASSUME FilterInv, NEW n \in Nodes, NEW l \in Levels, Cluster(n, l)
  PROVE  FilterInv'
<1>1. UNCHANGED <<net, seen, members, blooms, held, adverts, drawn, clash>>
  BY DEF Cluster
<1>2. Own(n, l) \in Clusters /\ {} \in Filter
  BY Grid DEF Filter
<1>3. /\ leafAgg' \in [Nodes -> {NoFilter} \cup Filter]
      /\ \A k \in Nodes : leafAgg'[k] = leafAgg[k] \/ leafAgg'[k] = {}
  <2>1. leafAgg' = leafAgg \/ leafAgg' = [leafAgg EXCEPT ![n] = {}]
    BY DEF Cluster
  <2>2. leafAgg \in [Nodes -> {NoFilter} \cup Filter]
    BY DEF FilterInv, TypeOK
  <2>3. QED
    BY <1>2, <2>1, <2>2
<1>4. /\ table' \in [Nodes -> [Clusters -> {NoFilter} \cup Filter]]
      /\ \A k \in Nodes, c \in Clusters : table'[k][c] = table[k][c] \/ table'[k][c] = {}
  <2>1. table' = table \/ table' = [table EXCEPT ![n][Own(n, l)] = {}]
    BY DEF Cluster
  <2>2. table \in [Nodes -> [Clusters -> {NoFilter} \cup Filter]]
    BY DEF FilterInv, TypeOK
  <2>3. ASSUME NEW c \in Clusters, table' = [table EXCEPT ![n][c] = {}]
        PROVE  /\ table' \in [Nodes -> [Clusters -> {NoFilter} \cup Filter]]
               /\ \A k \in Nodes, d \in Clusters : table'[k][d] = table[k][d] \/ table'[k][d] = {}
    BY <1>2, <2>2, <2>3
  <2>4. QED
    BY <1>2, <2>1, <2>2, <2>3
<1>5. heads' \in [Nodes -> SUBSET Levels]
  <2>1. heads' = [heads EXCEPT ![n] = @ \cup {l}] \/ heads' = [heads EXCEPT ![n] = @ \ {l}]
    BY DEF Cluster
  <2>2. heads \in [Nodes -> SUBSET Levels]
    BY DEF FilterInv, TypeOK
  <2>3. QED
    BY <2>1, <2>2
<1>6. elections' \in 0..MaxElections
  BY FloodAssumption DEF FilterInv, TypeOK, Cluster
<1>7. TypeOK'
  BY <1>1, <1>3, <1>4, <1>5, <1>6 DEF FilterInv, TypeOK
<1>8. \A c : HeldIn(c)' = HeldIn(c)
  BY <1>1 DEF HeldIn, InCluster
<1>9. AdvertsTrue'
  <2>1. \A k \in Nodes, c \in Clusters : Known(k, c)' = Known(k, c) \/ Known(k, c)' = {}
    BY <1>3, <1>4 DEF Known, IsOwnLeaf
  <2>2. \A k \in Nodes, c \in Clusters :
          Known(k, c)' # NoFilter => Known(k, c)' \subseteq HeldIn(c)'
    BY <1>8, <2>1 DEF FilterInv, AdvertsTrue
  <2>3. QED
    BY <1>1, <1>8, <2>2 DEF FilterInv, AdvertsTrue
<1>10. MembersOwn' /\ MessagesTrue'
  BY <1>1 DEF FilterInv, MembersOwn, MessagesTrue
<1>11. QED
  BY <1>7, <1>9, <1>10 DEF FilterInv

\* A message that is forwarded keeps its subject and its filter and names its sender; one
\* with a destination other than 0 no longer passes for a message within that cluster.
LEMMA ForwardedMessage ==
  ASSUME TypeOK, MessagesTrue, NEW p \in net, NEW n \in Nodes, NEW x \in Forwarded(n, p.msg)
  PROVE  /\ x \in Message /\ Subject(x) = Subject(p.msg) /\ x.filter = p.msg.filter
         /\ x.dest # 0 => x.ttl <= x.level /\ x.ttl # x.level
<1> DEFINE m == p.msg
<1>1. m \in Message
  BY DEF TypeOK
<1>2. m.dest # 0 => m.ttl <= m.level
  BY DEF MessagesTrue
<1> HIDE DEF m
<1>3. x = [m EXCEPT !.from = n, !.ttl = @ - 1] /\ m.ttl > 0
  BY DEF Forwarded, m
<1>4. /\ x.nonce = m.nonce /\ x.from = n /\ x.level = m.level /\ x.cluster = m.cluster
      /\ x.ttl = m.ttl - 1 /\ x.dest = m.dest /\ x.filter = m.filter
      /\ m.ttl \in 0..FloodTtl /\ m.level \in Levels
  BY <1>1, <1>3 DEF Message
<1>5. x.ttl \in 0..FloodTtl /\ x.ttl < m.ttl /\ m.ttl \in Nat /\ x.ttl \in Nat /\ m.level \in Nat
  BY <1>3, <1>4, LevelsAndTtl
<1>6. x \in Message
  BY <1>1, <1>3, <1>4, <1>5 DEF Message
<1>7. x.dest # 0 => x.ttl <= x.level /\ x.ttl # x.level
  BY <1>2, <1>4, <1>5 DEF m
<1>8. QED
  BY <1>4, <1>6, <1>7 DEF Subject, m

LEMMA DropInv ==
  ASSUME FilterInv, NEW p \in net, Drop(p)
  PROVE  FilterInv'
<1>1. net' \subseteq net
      /\ UNCHANGED <<seen, nodeVars, blooms, elections, held, adverts, drawn, clash>>
  BY DEF Drop
<1>2. TypeOK'
  BY <1>1 DEF FilterInv, TypeOK, nodeVars
<1>3. AdvertsTrue' /\ MembersOwn'
  BY <1>1 DEF FilterInv, AdvertsTrue, MembersOwn, HeldIn, InCluster, Known, IsOwnLeaf, nodeVars
<1>4. MessagesTrue'
  BY <1>1 DEF FilterInv, MessagesTrue
<1>5. QED
  BY <1>2, <1>3, <1>4 DEF FilterInv

LEMMA ForgetInv ==
  ASSUME FilterInv, NEW n \in Nodes, NEW nonce \in seen[n], Forget(n, nonce)
  PROVE  FilterInv'
<1>1. UNCHANGED <<net, nodeVars, blooms, elections, held, adverts, drawn, clash>>
      /\ seen' = [seen EXCEPT ![n] = @ \ {nonce}]
  BY DEF Forget
<1>2. seen' \in [Nodes -> SUBSET Nonces]
  BY <1>1 DEF FilterInv, TypeOK
<1>3. TypeOK'
  BY <1>1, <1>2 DEF FilterInv, TypeOK, nodeVars
<1>4. AdvertsTrue' /\ MembersOwn' /\ MessagesTrue'
  BY <1>1 DEF FilterInv, AdvertsTrue, MembersOwn, MessagesTrue, HeldIn, InCluster, Known,
    IsOwnLeaf, nodeVars
<1>5. QED
  BY <1>3, <1>4 DEF FilterInv

\* One entry put into a table of tables.
LEMMA PutInTable ==
  ASSUME NEW A, NEW B, NEW V, NEW f \in [A -> [B -> V]], NEW a \in A, NEW b \in B, NEW v \in V
  PROVE  /\ [f EXCEPT ![a][b] = v] \in [A -> [B -> V]]
         /\ \A x \in A, y \in B :
               \/ [f EXCEPT ![a][b] = v][x][y] = f[x][y]
               \/ x = a /\ y = b /\ [f EXCEPT ![a][b] = v][x][y] = v
  OBVIOUS

\* What a message that is not ignored changes: one entry, which is its filter from then on.
LEMMA RecordTables ==
  ASSUME TypeOK, NEW n \in Nodes, NEW m \in Message, Subject(m) \in Clusters, Record(n, m)
  PROVE  /\ members' \in [Nodes -> [Nodes -> {NoFilter} \cup Filter]]
         /\ leafAgg' \in [Nodes -> {NoFilter} \cup Filter]
         /\ table' \in [Nodes -> [Clusters -> {NoFilter} \cup Filter]]
         /\ \A j, k \in Nodes : members'[j][k] = members[j][k]
               \/ (j = n /\ k = m.from /\ Intra(m) /\ members'[j][k] = m.filter)
         /\ \A k \in Nodes : leafAgg'[k] = leafAgg[k]
               \/ (k = n /\ IsOwnLeaf(n, Subject(m)) /\ leafAgg'[k] = m.filter)
         /\ \A k \in Nodes, c \in Clusters : table'[k][c] = table[k][c]
               \/ (c = Subject(m) /\ table'[k][c] = m.filter)
<1>1. Subject(m) \in Clusters /\ m.filter \in {NoFilter} \cup Filter /\ m.from \in Nodes
  BY DEF Message
<1>2. /\ members \in [Nodes -> [Nodes -> {NoFilter} \cup Filter]]
      /\ leafAgg \in [Nodes -> {NoFilter} \cup Filter]
      /\ table \in [Nodes -> [Clusters -> {NoFilter} \cup Filter]]
  BY DEF TypeOK
<1>3. CASE /\ Intra(m) /\ members' = [members EXCEPT ![n][m.from] = m.filter]
           /\ UNCHANGED <<table, leafAgg>>
  <2>1. /\ members' \in [Nodes -> [Nodes -> {NoFilter} \cup Filter]]
        /\ \A j, k \in Nodes :
              members'[j][k] = members[j][k] \/ (j = n /\ k = m.from /\ members'[j][k] = m.filter)
    BY <1>1, <1>2, <1>3, PutInTable
  <2>2. QED
    BY <1>2, <1>3, <2>1
<1>4. CASE /\ IsOwnLeaf(n, Subject(m)) /\ leafAgg' = [leafAgg EXCEPT ![n] = m.filter]
           /\ UNCHANGED <<members, table>>
  <2>1. /\ leafAgg' \in [Nodes -> {NoFilter} \cup Filter]
        /\ \A k \in Nodes : leafAgg'[k] = leafAgg[k] \/ (k = n /\ leafAgg'[k] = m.filter)
    BY <1>1, <1>2, <1>4
  <2>2. QED
    BY <1>2, <1>4, <2>1
<1>5. CASE table' = [table EXCEPT ![n][Subject(m)] = m.filter] /\ UNCHANGED <<members, leafAgg>>
  <2>1. /\ table' \in [Nodes -> [Clusters -> {NoFilter} \cup Filter]]
        /\ \A k \in Nodes, c \in Clusters :
              table'[k][c] = table[k][c] \/ (c = Subject(m) /\ table'[k][c] = m.filter)
    BY <1>1, <1>2, <1>5, PutInTable
  <2>2. QED
    BY <1>2, <1>5, <2>1
<1>6. QED
  BY <1>3, <1>4, <1>5 DEF Record

LEMMA HandleInv ==
  ASSUME FilterInv, NEW p \in net, Handle(p)
  PROVE  FilterInv'
<1> DEFINE n == p.to
           m == p.msg
<1>1. n \in Nodes /\ m \in Message
  BY DEF FilterInv, TypeOK
<1>2. Subject(m) \in Clusters /\ m.filter \in Filter /\ m.filter \subseteq HeldIn(Subject(m))
  BY DEF FilterInv, MessagesTrue, TypeOK, AdvertsTrue
<1>3. m.from \in Nodes /\ m.nonce \in Nonces
  BY <1>1 DEF Message
<1>4. UNCHANGED <<heads, blooms, elections, held, adverts, drawn, clash>>
      /\ seen' = [seen EXCEPT ![n] = @ \cup {m.nonce}]
  BY DEF Handle
<1>5. \A x \in net' : x \in net \/ x \in Broadcast(n, Forwarded(n, m))
  BY DEF Handle
<1>6. \A x \in Broadcast(n, Forwarded(n, m)) :
        /\ x.to \in Nodes /\ x = [to |-> x.to, msg |-> x.msg]
        /\ x.msg \in Message /\ Subject(x.msg) = Subject(m) /\ x.msg.filter = m.filter
        /\ x.msg.dest # 0 => x.msg.ttl <= x.msg.level /\ x.msg.ttl # x.msg.level
  <2> SUFFICES ASSUME NEW x \in Broadcast(n, Forwarded(n, m))
               PROVE  /\ x.to \in Nodes /\ x = [to |-> x.to, msg |-> x.msg]
                      /\ x.msg \in Message /\ Subject(x.msg) = Subject(m)
                      /\ x.msg.filter = m.filter
                      /\ x.msg.dest # 0 => x.msg.ttl <= x.msg.level /\ x.msg.ttl # x.msg.level
    OBVIOUS
  <2>1. x.to \in Nodes /\ x.msg \in Forwarded(n, m) /\ x = [to |-> x.to, msg |-> x.msg]
    BY <1>1, FloodAssumption DEF Broadcast
  <2>2. QED
    BY <1>1, <2>1, ForwardedMessage DEF FilterInv
<1>7. CASE Ignored(n, m) /\ UNCHANGED <<members, table, leafAgg>>
  <2>1. net' \subseteq net
    BY <1>7 DEF Handle
  <2>2. seen' \in [Nodes -> SUBSET Nonces]
    BY <1>1, <1>3, <1>4 DEF FilterInv, TypeOK
  <2>3. TypeOK'
    BY <1>4, <1>7, <2>1, <2>2 DEF FilterInv, TypeOK
  <2>4. AdvertsTrue' /\ MembersOwn'
    BY <1>4, <1>7 DEF FilterInv, AdvertsTrue, MembersOwn, HeldIn, InCluster, Known, IsOwnLeaf
  <2>5. MessagesTrue'
    BY <1>4, <2>1 DEF FilterInv, MessagesTrue
  <2>6. QED
    BY <2>3, <2>4, <2>5 DEF FilterInv
<1>8. CASE ~Ignored(n, m) /\ Record(n, m)
  <2>1. /\ members' \in [Nodes -> [Nodes -> {NoFilter} \cup Filter]]
        /\ leafAgg' \in [Nodes -> {NoFilter} \cup Filter]
        /\ table' \in [Nodes -> [Clusters -> {NoFilter} \cup Filter]]
    BY <1>1, <1>2, <1>8, RecordTables DEF FilterInv
  <2>2. seen' \in [Nodes -> SUBSET Nonces]
    BY <1>1, <1>3, <1>4 DEF FilterInv, TypeOK
  <2>3. net' \subseteq [to : Nodes, msg : Message]
    BY <1>5, <1>6 DEF FilterInv, TypeOK
  <2>4. TypeOK'
    BY <1>4, <2>1, <2>2, <2>3 DEF FilterInv, TypeOK
  <2>5. \A c : HeldIn(c)' = HeldIn(c)
    BY <1>4 DEF HeldIn, InCluster
  <2>6. \A j, k \in Nodes : members'[j][k] = members[j][k]
           \/ (j = n /\ k = m.from /\ Intra(m) /\ members'[j][k] = m.filter)
    BY <1>1, <1>2, <1>8, RecordTables DEF FilterInv
  <2>7. \A k \in Nodes, c \in Clusters : Known(k, c)' = Known(k, c)
           \/ (c = Subject(m) /\ Known(k, c)' = m.filter)
    <3> SUFFICES ASSUME NEW k \in Nodes, NEW c \in Clusters
                 PROVE  Known(k, c)' = Known(k, c) \/ (c = Subject(m) /\ Known(k, c)' = m.filter)
      OBVIOUS
    <3>1. CASE IsOwnLeaf(k, c)
      <4>1. Known(k, c)' = leafAgg'[k] /\ Known(k, c) = leafAgg[k]
        BY <3>1 DEF Known, IsOwnLeaf
      <4>2. leafAgg'[k] = leafAgg[k]
            \/ (k = n /\ IsOwnLeaf(n, Subject(m)) /\ leafAgg'[k] = m.filter)
        BY <1>1, <1>2, <1>8, RecordTables DEF FilterInv
      <4>3. QED
        BY <3>1, <4>1, <4>2 DEF IsOwnLeaf
    <3>2. CASE ~IsOwnLeaf(k, c)
      <4>1. Known(k, c)' = table'[k][c] /\ Known(k, c) = table[k][c]
        BY <3>2 DEF Known, IsOwnLeaf
      <4>2. table'[k][c] = table[k][c] \/ (c = Subject(m) /\ table'[k][c] = m.filter)
        BY <1>1, <1>2, <1>8, RecordTables DEF FilterInv
      <4>3. QED
        BY <4>1, <4>2
    <3>3. QED
      BY <3>1, <3>2
  <2>8. Intra(m) => m.ttl = m.level /\ m.dest = Leaf(n) /\ Subject(m) = Own(n, NumLevels)
    BY <1>8 DEF Ignored, Intra, MyLeaf, Subject, Own, Leaf
  <2>9. AdvertsTrue'
    <3>1. \A a \in adverts' : a[2] \subseteq HeldIn(a[1])'
      BY <1>4, <2>5 DEF FilterInv, AdvertsTrue
    <3>2. \A k \in Nodes, c \in Clusters :
            Known(k, c)' # NoFilter => Known(k, c)' \subseteq HeldIn(c)'
      BY <1>2, <2>5, <2>7 DEF FilterInv, AdvertsTrue
    <3>3. \A j, k \in Nodes :
            members'[j][k] # NoFilter => members'[j][k] \subseteq HeldIn(Own(j, NumLevels))'
      BY <1>2, <2>5, <2>6, <2>8 DEF FilterInv, AdvertsTrue
    <3>4. QED
      BY <3>1, <3>2, <3>3 DEF AdvertsTrue
  <2>10. MembersOwn'
    <3>1. Intra(m) /\ Leaf(n) # 0 => m.filter \subseteq held[m.from]
      BY <2>8 DEF FilterInv, MessagesTrue
    <3>2. QED
      BY <1>4, <2>6, <3>1 DEF FilterInv, MembersOwn
  <2>11. MessagesTrue'
    <3> SUFFICES ASSUME NEW x \in net'
                 PROVE  /\ <<Subject(x.msg), x.msg.filter>> \in adverts'
                        /\ x.msg.dest # 0 =>
                              /\ x.msg.ttl <= x.msg.level
                              /\ x.msg.ttl = x.msg.level => x.msg.filter \subseteq held'[x.msg.from]
      BY DEF MessagesTrue
    <3>1. CASE x \in net
      BY <1>4, <3>1 DEF FilterInv, MessagesTrue
    <3>2. CASE x \in Broadcast(n, Forwarded(n, m))
      <4>1. <<Subject(m), m.filter>> \in adverts
        BY DEF FilterInv, MessagesTrue
      <4>2. QED
        BY <1>4, <1>6, <3>2, <4>1
    <3>3. QED
      BY <1>5, <3>1, <3>2
  <2>12. QED
    BY <2>4, <2>9, <2>10, <2>11 DEF FilterInv
<1>9. QED
  BY <1>7, <1>8 DEF Handle

\* No step breaks the invariant.
LEMMA NextFilterInv == FilterInv /\ [Next]_vars => FilterInv'
<1> SUFFICES ASSUME FilterInv, [Next]_vars
             PROVE  FilterInv'
  OBVIOUS
<1>1. CASE \E n \in Nodes : Bloom(n)
  BY <1>1, BloomInv
<1>2. CASE \E n \in Nodes, l \in Levels : Cluster(n, l)
  BY <1>2, ClusterInv
<1>3. CASE \E p \in net : Drop(p) \/ Handle(p)
  BY <1>3, DropInv, HandleInv
<1>4. CASE \E n \in Nodes : \E nonce \in seen[n] : Forget(n, nonce)
  BY <1>4, ForgetInv
<1>5. CASE UNCHANGED vars
  BY <1>5 DEF FilterInv, TypeOK, AdvertsTrue, MembersOwn, MessagesTrue, HeldIn, InCluster,
    Known, IsOwnLeaf, vars, nodeVars
<1>6. QED
  BY <1>1, <1>2, <1>3, <1>4, <1>5 DEF Next

LEMMA InitFilterInv == Init => FilterInv
<1> SUFFICES ASSUME Init
             PROVE  FilterInv
  OBVIOUS
<1>1. TypeOK
  <2>1. {} \in Filter
    BY DEF Filter
  <2>2. /\ seen \in [Nodes -> SUBSET Nonces] /\ heads \in [Nodes -> SUBSET Levels]
        /\ leafAgg \in [Nodes -> {NoFilter} \cup Filter] /\ held \in [Nodes -> Filter]
    BY <2>1 DEF Init
  <2>3. /\ members \in [Nodes -> [Nodes -> {NoFilter} \cup Filter]]
        /\ table \in [Nodes -> [Clusters -> {NoFilter} \cup Filter]]
    BY DEF Init
  <2>4. blooms \in 0..MaxBlooms /\ elections \in 0..MaxElections
    BY FloodAssumption DEF Init
  <2>5. QED
    BY <2>2, <2>3, <2>4 DEF Init, TypeOK
<1>2. AdvertsTrue /\ MembersOwn /\ MessagesTrue
  BY DEF Init, AdvertsTrue, MembersOwn, MessagesTrue, Known
<1>3. QED
  BY <1>1, <1>2 DEF FilterInv

\* Filters are credited to those whose content they are of: what is advertised, kept of a
\* cluster or of a member, and still on its way.
THEOREM FiltersTrue == Spec => []FilterInv
  BY InitFilterInv, NextFilterInv, PTL DEF Spec

-----------------------------------------------------------------------------
(* The directory of adverts.                                               *)

\* What a node knows of clusters it is not in.
Others == [n \in Nodes |->
              [c \in Clusters |-> IF c = Own(n, c[1]) THEN NoFilter ELSE table[n][c]]]

\* The clusters a node is in.
OwnOf == [n \in Nodes |-> {Own(n, l) : l \in Levels}]

LEMMA OwnClusters ==
  ASSUME NEW n \in Nodes, NEW c \in Clusters
  PROVE  c \in OwnOf[n] <=> c = Own(n, c[1])
<1>1. c[1] \in Levels
  BY DEF Clusters
<1>2. \A l \in Levels : Own(n, l)[1] = l
  BY Grid
<1>3. QED
  BY <1>1, <1>2 DEF OwnOf

LEMMA SameTables ==
  ASSUME NEW A, NEW B, NEW V, NEW f \in [A -> [B -> V]], NEW g \in [A -> [B -> V]],
         \A x \in A, y \in B : f[x][y] = g[x][y]
  PROVE  f = g
<1>1. \A x \in A : f[x] = g[x]
  OBVIOUS
<1>2. QED
  BY <1>1

\* What others advertise is masked where the node itself is in the cluster.
LEMMA OthersEntry ==
  ASSUME TypeOK, TypeOK'
  PROVE  /\ Others \in [Nodes -> [Clusters -> {NoFilter} \cup Filter]]
         /\ Others' \in [Nodes -> [Clusters -> {NoFilter} \cup Filter]]
         /\ \A k \in Nodes, c \in Clusters :
               /\ Others[k][c] = IF c = Own(k, c[1]) THEN NoFilter ELSE table[k][c]
               /\ Others'[k][c] = IF c = Own(k, c[1]) THEN NoFilter ELSE table'[k][c]
<1>1. \A k \in Nodes, c \in Clusters :
        table[k][c] \in {NoFilter} \cup Filter /\ table'[k][c] \in {NoFilter} \cup Filter
  BY DEF TypeOK
<1>2. Others \in [Nodes -> [Clusters -> {NoFilter} \cup Filter]]
  BY <1>1 DEF Others
<1>3. Others' \in [Nodes -> [Clusters -> {NoFilter} \cup Filter]]
  BY <1>1 DEF Others
<1>4. QED
  BY <1>2, <1>3 DEF Others, Own

\* The tables of the node's own clusters do not show.
LEMMA OthersSame ==
  ASSUME TypeOK, TypeOK',
         \A k \in Nodes, c \in Clusters : table'[k][c] = table[k][c] \/ c = Own(k, c[1])
  PROVE  Others' = Others
<1>1. \A k \in Nodes, c \in Clusters : Others'[k][c] = Others[k][c]
  BY OthersEntry
<1>2. QED
  BY <1>1, OthersEntry, SameTables

\* A round of bloom() advertises filters for the node's own clusters.
LEMMA BloomAdvertises ==
  ASSUME FilterInv, NEW n \in Nodes, Bloom(n)
  PROVE  /\ \E A \in SUBSET (OwnOf[n] \X Filter) : adverts' = adverts \cup A
         /\ Others' = Others
<1>1. PICK own \in SUBSET Store[n], nonce \in [Levels -> Nonces] :
        /\ adverts' = adverts \cup {<<Subject(m), m.filter>> : m \in Sent(n, own, nonce)}
        /\ leafAgg' = IF Aggregated(n, own, NumLevels)
                      THEN [leafAgg EXCEPT ![n] = Aggregate(n, Own(n, NumLevels), own)]
                      ELSE leafAgg
        /\ table' = [table EXCEPT ![n] =
              [c \in Clusters |->
                  IF c[1] < NumLevels /\ c = Own(n, c[1]) /\ Aggregated(n, own, c[1])
                  THEN Aggregate(n, c, own)
                  ELSE @[c]]]
        /\ held' = [held EXCEPT ![n] = @ \cup own]
  BY DEF Bloom
<1>2. \A x \in Sent(n, own, nonce) : x \in Message /\ Subject(x) \in OwnOf[n]
  BY <1>1, BloomMessages DEF FilterInv, OwnOf
<1>3. {<<Subject(m), m.filter>> : m \in Sent(n, own, nonce)} \in SUBSET (OwnOf[n] \X Filter)
  BY <1>2 DEF Message
<1>4. \A k \in Nodes, c \in Clusters :
        table'[k][c] = table[k][c] \/ (k = n /\ c = Own(n, c[1]))
  BY <1>1, BloomTables DEF FilterInv
<1>5. Others' = Others
  BY <1>4, BloomInv, OthersSame DEF FilterInv
<1>6. QED
  BY <1>1, <1>3, <1>5

\* What a handler learns of another cluster was advertised for it.
LEMMA HandleLearns ==
  ASSUME FilterInv, NEW p \in net, Handle(p)
  PROVE  /\ adverts' = adverts
         /\ \/ Others' = Others
            \/ \E n \in Nodes, c \in Clusters :
                  /\ c \notin OwnOf[n]
                  /\ \E f \in Filter :
                        <<c, f>> \in adverts /\ Others' = [Others EXCEPT ![n][c] = f]
<1> DEFINE n == p.to
           m == p.msg
           c == Subject(m)
<1>1. adverts' = adverts
  BY DEF Handle
<1>2. n \in Nodes /\ m \in Message /\ <<c, m.filter>> \in adverts
  BY DEF FilterInv, TypeOK, MessagesTrue
<1>3. c \in Clusters /\ m.filter \in Filter
  BY <1>2 DEF FilterInv, TypeOK
<1>4. table' = table \/ table' = [table EXCEPT ![n][c] = m.filter]
  BY DEF Handle, Record
<1>5. CASE table' = table
  BY <1>1, <1>5 DEF Others
<1>6. ASSUME table' = [table EXCEPT ![n][c] = m.filter], c = Own(n, c[1])
      PROVE  Others' = Others
  <2>1. \A k \in Nodes, d \in Clusters :
          table'[k][d] = table[k][d] \/ (k = n /\ d = c)
    BY <1>2, <1>3, <1>6 DEF FilterInv, TypeOK
  <2>2. QED
    BY <1>6, <2>1 DEF Others
<1>7. ASSUME table' = [table EXCEPT ![n][c] = m.filter], c # Own(n, c[1])
      PROVE  Others' = [Others EXCEPT ![n][c] = m.filter]
  <2>1. \A k \in Nodes, d \in Clusters :
          table'[k][d] = IF k = n /\ d = c THEN m.filter ELSE table[k][d]
    BY <1>2, <1>3, <1>7 DEF FilterInv, TypeOK
  <2>2. \A k \in Nodes, d \in Clusters :
          Others'[k][d] = [Others EXCEPT ![n][c] = m.filter][k][d]
    <3>1. TypeOK /\ TypeOK'
      BY HandleInv DEF FilterInv
    <3>2. \A k \in Nodes, d \in Clusters :
            [Others EXCEPT ![n][c] = m.filter][k][d] =
               IF k = n /\ d = c THEN m.filter ELSE Others[k][d]
      BY <1>2, <1>3, <3>1, OthersEntry, PutInTable
    <3>3. QED
      BY <1>7, <2>1, <3>1, <3>2, OthersEntry
  <2>3. QED
    <3>1. TypeOK /\ TypeOK'
      BY HandleInv DEF FilterInv
    <3>2. [Others EXCEPT ![n][c] = m.filter] \in [Nodes -> [Clusters -> {NoFilter} \cup Filter]]
      BY <1>2, <1>3, <3>1, OthersEntry, PutInTable
    <3>3. QED
      BY <2>2, <3>1, <3>2, OthersEntry, SameTables
<1>8. QED
  BY <1>1, <1>2, <1>3, <1>4, <1>5, <1>6, <1>7, OwnClusters

\* Every step of the exchange is a step of the directory or leaves it alone.
LEMMA DirectoryStep ==
  FilterInv /\ [Next]_vars => [Directory!Next]_(Directory!advertVars)
<1> SUFFICES ASSUME FilterInv, [Next]_vars
             PROVE  [Directory!Next]_(Directory!advertVars)
  OBVIOUS
<1>1. CASE \E n \in Nodes : Bloom(n)
  <2>1. PICK n \in Nodes : Bloom(n)
    BY <1>1
  <2>2. Directory!Advertise(n)
    BY <2>1, BloomAdvertises DEF Directory!Advertise, Others, OwnOf
  <2>3. QED
    BY <2>2 DEF Directory!Next
<1>2. CASE \E n \in Nodes, l \in Levels : Cluster(n, l)
  <2>1. PICK n \in Nodes, l \in Levels : Cluster(n, l)
    BY <1>2
  <2>2. adverts' = adverts
        /\ (table' = table \/ table' = [table EXCEPT ![n][Own(n, l)] = {}])
    BY <2>1 DEF Cluster
  <2>3. Own(n, l) \in Clusters
    BY Grid
  <2>4. \A k \in Nodes, d \in Clusters :
          table'[k][d] = table[k][d] \/ (k = n /\ d = Own(n, l))
    BY <2>2, <2>3 DEF FilterInv, TypeOK
  <2>5. Others' = Others
    <3>1. TypeOK /\ TypeOK'
      BY <2>1, ClusterInv DEF FilterInv
    <3>2. \A k \in Nodes, d \in Clusters : table'[k][d] = table[k][d] \/ d = Own(k, d[1])
      <4>1. Own(n, l)[1] = l
        BY Grid
      <4>2. Own(n, l) = Own(n, Own(n, l)[1])
        BY <4>1
      <4>3. QED
        BY <2>4, <4>2
    <3>3. QED
      BY <3>1, <3>2, OthersSame
  <2>6. QED
    BY <2>2, <2>5 DEF Directory!advertVars, Others
<1>3. CASE \E p \in net : Drop(p)
  BY <1>3 DEF Drop, nodeVars, Directory!advertVars
<1>4. CASE \E p \in net : Handle(p)
  <2>1. PICK p \in net : Handle(p)
    BY <1>4
  <2>2. CASE Others' = Others
    BY <2>1, <2>2, HandleLearns DEF Directory!advertVars, Others
  <2>3. CASE \E n \in Nodes, c \in Clusters :
                /\ c \notin OwnOf[n]
                /\ \E f \in Filter :
                      <<c, f>> \in adverts /\ Others' = [Others EXCEPT ![n][c] = f]
    <3>1. PICK n \in Nodes, c \in Clusters :
                /\ c \notin OwnOf[n]
                /\ \E f \in Filter :
                      <<c, f>> \in adverts /\ Others' = [Others EXCEPT ![n][c] = f]
      BY <2>3
    <3>2. Directory!Learn(n, c)
      BY <2>1, <3>1, HandleLearns DEF Directory!Learn, Others, OwnOf
    <3>3. QED
      BY <3>2 DEF Directory!Next
  <2>4. QED
    BY <2>1, <2>2, <2>3, HandleLearns
<1>5. CASE \E n \in Nodes : \E nonce \in seen[n] : Forget(n, nonce)
  BY <1>5 DEF Forget, nodeVars, Directory!advertVars
<1>6. CASE UNCHANGED vars
  BY <1>6 DEF vars, nodeVars, Directory!advertVars
<1>7. QED
  BY <1>1, <1>2, <1>3, <1>4, <1>5, <1>6 DEF Next

\* What a node knows of the clusters it is not in is what they advertised.
THEOREM DirectoryImplemented == Spec => ImplementsDirectory
<1>1. Init => Directory!Init
  BY DEF Init, Directory!Init
<1>2. QED
  BY <1>1, DirectoryStep, InitFilterInv, NextFilterInv, PTL DEF Spec, ImplementsDirectory,
    Directory!Spec
=============================================================================
