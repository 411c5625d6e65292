----------------------------- MODULE FilterFlood -----------------------------
(***************************************************************************)
(* The Bloom filter exchange of strategy.c between routing daemons: bloom()*)
(* and handle_bloom_msg, with the tables of cluster.c they fill, and the   *)
(* memory of nonces that keeps a flood from being handled again.           *)
(*                                                                         *)
(* State is flooded (BFR_FLOOD_STATE), and the time to live of a flood and *)
(* the level it is meant for are one field of the message.  Nodes stay     *)
(* where they are.  A filter is the set of its bits; a name sets one bit.  *)
(***************************************************************************)
EXTENDS Naturals, FiniteSets

CONSTANTS Nodes,
          Hears,        \* Hears[n]: the nodes that n's broadcasts can reach
          NumLevels,    \* g_bfr.num_levels; clusters of this level are the leaves
          ClusterOf,    \* ClusterOf[n, l]: g_bfr.clusterIds
          FloodTtl,     \* the 5 of bloom()
          Bits,         \* of a filter
          FirstBits,    \* the ones that clus_compute_aggregate clears
          Store,        \* Store[n]: what n's content store can come to hold
          Nonces,
          MaxBlooms,    \* bound: rounds of bloom(), of all nodes together
          MaxElections, \* bound: rounds of cluster()
          MaxFlight,    \* bound: messages on their way when a round of bloom() begins
          NoFilter

Levels == 1..NumLevels
Filter == SUBSET Bits
Clusters == Levels \X {ClusterOf[<<n, l>>] : n \in Nodes, l \in Levels}

ASSUME FloodAssumption ==
    /\ NumLevels \in Nat \ {0}
    /\ FloodTtl \in Nat /\ FloodTtl >= NumLevels
    /\ Hears \in [Nodes -> SUBSET Nodes]
    /\ ClusterOf \in [Nodes \X Levels -> Nat]
    /\ FirstBits \subseteq Bits
    /\ Store \in [Nodes -> Filter]
    /\ MaxBlooms \in Nat /\ MaxElections \in Nat /\ MaxFlight \in Nat
    /\ \A f \in Filter : f # NoFilter

VARIABLES net,       \* messages on their way, one for each node they can reach
          seen,      \* _strategy.seen_nonces
          heads,     \* g_bfr.is_cluster_head
          leafAgg,   \* g_bfr.leaf_cluster.agg_filter
          members,   \* g_bfr.leaf_cluster.nodes: a filter for each node
          table,     \* g_bfr.levels: an aggregate filter for each cluster
          blooms, elections,
          held,      \* what each node's store has held in a round of bloom()
          adverts,   \* <<c, f>>: filter f was sent for cluster c
          drawn,     \* nonces drawn by bloom()
          clash      \* a nonce was drawn again

nodeVars == <<heads, leafAgg, members, table>>
vars == <<net, seen, nodeVars, blooms, elections, held, adverts, drawn, clash>>

Message == [nonce : Nonces, from : Nodes, level : Levels, cluster : Nat,
            ttl : 0..FloodTtl, dest : Nat, filter : Filter]

TypeOK ==
    /\ net \subseteq [to : Nodes, msg : Message]
    /\ seen \in [Nodes -> SUBSET Nonces]
    /\ heads \in [Nodes -> SUBSET Levels]
    /\ leafAgg \in [Nodes -> {NoFilter} \cup Filter]
    /\ members \in [Nodes -> [Nodes -> {NoFilter} \cup Filter]]
    /\ table \in [Nodes -> [Clusters -> {NoFilter} \cup Filter]]
    /\ blooms \in 0..MaxBlooms /\ elections \in 0..MaxElections
    /\ held \in [Nodes -> Filter]
    /\ adverts \subseteq Clusters \X Filter
    /\ drawn \subseteq Nonces
    /\ clash \in BOOLEAN

Init ==
    /\ net = {}
    /\ seen = [n \in Nodes |-> {}]
    /\ heads = [n \in Nodes |-> {}]
    /\ leafAgg = [n \in Nodes |-> NoFilter]
    /\ members = [n \in Nodes |-> [k \in Nodes |-> NoFilter]]
    /\ table = [n \in Nodes |-> [c \in Clusters |-> NoFilter]]
    /\ blooms = 0 /\ elections = 0
    /\ held = [n \in Nodes |-> {}]
    /\ adverts = {}
    /\ drawn = {} /\ clash = FALSE

\* The filters of those that have one, put together.
Union(filters) == UNION (filters \ {NoFilter})

Leaf(n) == ClusterOf[<<n, NumLevels>>]
Own(n, l) == <<l, ClusterOf[<<n, l>>]>>

\* Mutant of IsOwnLeaf: every cluster of the leaves' level is taken for the node's.
IsAnyLeaf(n, c) == c[1] = NumLevels

IsOwnLeaf(n, c) == c = Own(n, NumLevels)

-----------------------------------------------------------------------------
(* The cluster tables.                                                     *)

\* clus_get_cluster: the filter kept for a cluster.
Known(n, c) == IF IsOwnLeaf(n, c) THEN leafAgg[n] ELSE table[n][c]

\* grid_convertCluster: the cluster of the centre of c, at c's own level; the level
\* asked for is not looked at.
Converted(c, level) == c[2]

\* The filters that clus_compute_aggregate puts together: for the leaf its members',
\* for another cluster those of its level that convert to it.
Parts(n, c) ==
    IF IsOwnLeaf(n, c)
    THEN {members[n][k] : k \in Nodes}
    ELSE {table[n][d] : d \in {d \in Clusters : d # c /\ d[1] = c[1] /\ Converted(d, c[1]) = c[2]}}

\* clus_compute_aggregate, which clears the filter's first bits only, and the node's
\* own filter.
Aggregate(n, c, own) == (Known(n, c) \ FirstBits) \cup Union(Parts(n, c)) \cup own

-----------------------------------------------------------------------------
(* Sending.                                                                *)

\* Mutant of Subject: the level is read from the field that the time to live shares.
SubjectAtTtl(m) == <<m.ttl, m.cluster>>

Subject(m) == <<m.level, m.cluster>>

\* A message that is lost is one that its receiver never gets round to.
Broadcast(n, M) == [to : Hears[n], msg : M]

\* bloom() at the levels the node is the head of and has a filter for: the aggregate
\* is kept and, if it is not empty, flooded.
Floods(n, own) ==
    {l \in Levels : l \in heads[n] /\ Known(n, Own(n, l)) # NoFilter
                       /\ Aggregate(n, Own(n, l), own) # {}}

\* At the other levels the node's own filter goes to the head, if it is not empty.
Reports(n, own) == {l \in Levels : l \notin heads[n] /\ own # {}}

FloodMessage(n, l, own, nonce) ==
    [nonce |-> nonce, from |-> n, level |-> l, cluster |-> ClusterOf[<<n, l>>],
     ttl |-> FloodTtl, dest |-> 0, filter |-> Aggregate(n, Own(n, l), own)]

\* Its level is its time to live.
ReportMessage(n, l, own, nonce) ==
    [nonce |-> nonce, from |-> n, level |-> l, cluster |-> ClusterOf[<<n, l>>],
     ttl |-> l, dest |-> ClusterOf[<<n, l>>], filter |-> own]

\* What a round sends, with a nonce for each level.
Sent(n, own, nonce) ==
    {FloodMessage(n, l, own, nonce[l]) : l \in Floods(n, own)}
    \cup {ReportMessage(n, l, own, nonce[l]) : l \in Reports(n, own)}

\* The head's filter of its own cluster is the aggregate from now on.
Aggregated(n, own, l) == l \in heads[n] /\ Known(n, Own(n, l)) # NoFilter

\* A round of bloom(): the content daemon's summary, then every level under bfr_lock.
\* A node does not remember the nonces of its own messages.
Bloom(n) ==
    /\ blooms < MaxBlooms /\ Cardinality(net) <= MaxFlight
    /\ blooms' = blooms + 1
    /\ \E own \in SUBSET Store[n] :
          /\ \E nonce \in [Levels -> Nonces] :
                LET M == Sent(n, own, nonce)
                IN
                /\ net' = net \cup Broadcast(n, M)
                /\ clash' = \/ clash
                            \/ \E m \in M : m.nonce \in drawn
                            \/ \E m1, m2 \in M : m1 # m2 /\ m1.nonce = m2.nonce
                /\ adverts' = adverts \cup {<<Subject(m), m.filter>> : m \in M}
                /\ drawn' = drawn \cup {m.nonce : m \in M}
          /\ leafAgg' = IF Aggregated(n, own, NumLevels)
                        THEN [leafAgg EXCEPT ![n] = Aggregate(n, Own(n, NumLevels), own)]
                        ELSE leafAgg
          /\ table' = [table EXCEPT ![n] =
                [c \in Clusters |->
                    IF c[1] < NumLevels /\ c = Own(n, c[1]) /\ Aggregated(n, own, c[1])
                    THEN Aggregate(n, c, own)
                    ELSE @[c]]]
          /\ held' = [held EXCEPT ![n] = @ \cup own]
    /\ UNCHANGED <<seen, heads, members, elections>>

\* What cluster() leaves behind: the node is the head of its cluster or it is not.  A
\* leaf's new head starts with an empty aggregate; at another level the cluster is
\* put into the table.
Cluster(n, l) ==
    /\ elections < MaxElections
    /\ elections' = elections + 1
    /\ \/ heads' = [heads EXCEPT ![n] = @ \cup {l}]
       \/ heads' = [heads EXCEPT ![n] = @ \ {l}]
    /\ leafAgg' = IF l = NumLevels /\ l \in heads'[n]
                  THEN [leafAgg EXCEPT ![n] = {}] ELSE leafAgg
    /\ table' = IF l < NumLevels /\ table[n][Own(n, l)] = NoFilter
                THEN [table EXCEPT ![n][Own(n, l)] = {}] ELSE table
    /\ UNCHANGED <<net, seen, members, blooms, held, adverts, drawn, clash>>

-----------------------------------------------------------------------------
(* Receiving.                                                              *)

\* The level of a message within a cluster is also its time to live: forwarding it once
\* makes it one between clusters, and a flood for cluster 0 becomes one within it.
Intra(m) == m.level = m.ttl /\ m.cluster = m.dest
MyLeaf(n, m) == m.ttl = NumLevels /\ m.dest = Leaf(n)

Ignored(n, m) == Intra(m) /\ ~MyLeaf(n, m)

\* Mutants of Forwarded: the time to live is not counted; the two outcomes are swapped.
ForwardedUncounted(n, m) == {[x EXCEPT !.from = n] : x \in {y \in {m} : y.ttl > 0}}
ForwardedSpent(n, m) == {[x EXCEPT !.from = n] : x \in {y \in {m} : y.ttl = 0}}

\* The message as it is broadcast again; its header names the node that does so.
Forwarded(n, m) == {[x EXCEPT !.from = n, !.ttl = @ - 1] : x \in {y \in {m} : y.ttl > 0}}

\* The filter goes to the sender's place in the leaf, or takes the place of the
\* cluster's aggregate.
Record(n, m) ==
    \/ /\ Intra(m)
       /\ members' = [members EXCEPT ![n][m.from] = m.filter]
       /\ UNCHANGED <<table, leafAgg>>
    \/ /\ ~Intra(m) /\ IsOwnLeaf(n, Subject(m))
       /\ leafAgg' = [leafAgg EXCEPT ![n] = m.filter]
       /\ UNCHANGED <<members, table>>
    \/ /\ ~Intra(m) /\ ~IsOwnLeaf(n, Subject(m))
       /\ table' = [table EXCEPT ![n][Subject(m)] = m.filter]
       /\ UNCHANGED <<members, leafAgg>>

\* The strategy thread takes a message and drops it if its nonce is remembered.
Drop(p) ==
    /\ p \in net /\ p.msg.nonce \in seen[p.to]
    /\ net' = net \ {p}
    /\ UNCHANGED <<seen, nodeVars, blooms, elections, held, adverts, drawn, clash>>

\* Otherwise it remembers the nonce and has the handler pool run handle_bloom_msg, which
\* keeps bfr_lock but for the broadcast.  To wait for the pool or the lock is the same
\* for a message as to be on its way.
Handle(p) ==
    LET n == p.to
        m == p.msg
    IN
    /\ p \in net /\ m.nonce \notin seen[n]
    /\ seen' = [seen EXCEPT ![n] = @ \cup {m.nonce}]
    /\ \/ /\ Ignored(n, m)
          /\ net' = net \ {p}
          /\ UNCHANGED <<members, table, leafAgg>>
       \/ /\ ~Ignored(n, m)
          /\ Record(n, m)
          /\ net' = (net \ {p}) \cup Broadcast(n, Forwarded(n, m))
    /\ UNCHANGED <<heads, blooms, elections, held, adverts, drawn, clash>>

\* unregister_nonce, 100 ms later.
Forget(n, nonce) ==
    /\ nonce \in seen[n]
    /\ seen' = [seen EXCEPT ![n] = @ \ {nonce}]
    /\ UNCHANGED <<net, nodeVars, blooms, elections, held, adverts, drawn, clash>>

-----------------------------------------------------------------------------

Next ==
    \/ \E n \in Nodes : Bloom(n)
    \/ \E n \in Nodes, l \in Levels : Cluster(n, l)
    \/ \E p \in net : Drop(p) \/ Handle(p)
    \/ \E n \in Nodes : \E nonce \in seen[n] : Forget(n, nonce)

Spec == Init /\ [][Next]_vars

\* While a message is on its way or a nonce is remembered, some thread of some node
\* goes on: messages arrive, handlers run, and the nonces' pool wakes from its sleep.
Fairness ==
    WF_vars(\/ \E p \in net : Drop(p) \/ Handle(p)
            \/ \E n \in Nodes : \E nonce \in seen[n] : Forget(n, nonce))

FairSpec == Spec /\ Fairness

-----------------------------------------------------------------------------
(* Properties.                                                             *)

InCluster(c) == {n \in Nodes : Own(n, c[1]) = c}
HeldIn(c) == UNION {held[n] : n \in InCluster(c)}

\* Nobody is told of content in a cluster that no node of the cluster has had: what is
\* sent, kept of a cluster and of its members, and put together from it, with floods
\* that cross, are handled in any order and are taken for other messages.
AdvertsTrue ==
    /\ \A a \in adverts : a[2] \subseteq HeldIn(a[1])
    /\ \A n \in Nodes, c \in Clusters :
          Known(n, c) # NoFilter => Known(n, c) \subseteq HeldIn(c)
    /\ \A n, k \in Nodes :
          members[n][k] # NoFilter => members[n][k] \subseteq HeldIn(Own(n, NumLevels))

\* The filter a node keeps under a member of its leaf is of the member's own content:
\* a member's message that others forward is not taken for theirs.  Leaf 0 is left out,
\* where a flood whose time to live has come down to the leaves' level passes for a
\* message of the node that forwarded it.
MembersOwn ==
    \A n, k \in Nodes :
        Leaf(n) # 0 /\ members[n][k] # NoFilter => members[n][k] \subseteq held[k]

\* A message on its way has a filter that was advertised for its cluster.  One that can
\* still pass for a message within a leaf other than 0 has the filter of the node that
\* sends it: forwarding counts the time to live down below the level.
MessagesTrue ==
    \A p \in net :
        /\ <<Subject(p.msg), p.msg.filter>> \in adverts
        /\ p.msg.dest # 0 =>
              /\ p.msg.ttl <= p.msg.level
              /\ p.msg.ttl = p.msg.level => p.msg.filter \subseteq held[p.msg.from]

\* Filters are credited to those whose content they are of.
FilterInv == TypeOK /\ AdvertsTrue /\ MembersOwn /\ MessagesTrue

Directory ==
    INSTANCE AdvertDirectory WITH
        Filters <- Filter,
        OwnClusters <- [n \in Nodes |-> {Own(n, l) : l \in Levels}],
        directory <- [n \in Nodes |->
            [c \in Clusters |-> IF c = Own(n, c[1]) THEN NoFilter ELSE table[n][c]]]

\* What a node knows of other clusters is what they advertised.
ImplementsDirectory == Directory!Spec

\* Floods end, although nonces are forgotten while copies are on their way and a node
\* handles its own messages when they come back.
FloodsEnd == <>[](net = {} /\ \A n \in Nodes : seen[n] = {})

\* If no message is lost and no nonce drawn twice, whatever a head floods about a
\* cluster gets every node outside that cluster to know it.  Cluster 0 is left out: its
\* floods end where the time to live has come down to its level.
FloodsSpread ==
    \A c \in {c \in Clusters : c[2] # 0 /\ InCluster(c) # {}} :
        (\E p \in net : Subject(p.msg) = c /\ p.msg.ttl = FloodTtl)
            ~> clash \/ \A k \in Nodes \ InCluster(c) : table[k][c] # NoFilter
=============================================================================
