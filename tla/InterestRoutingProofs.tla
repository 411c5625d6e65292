------------------------ MODULE InterestRoutingProofs ------------------------
(***************************************************************************)
(* In every network, whatever hears what, whatever the filters match,      *)
(* however the grid is divided and whatever the tables of hops hold: the   *)
(* flood of a leaf is kept to it; applications keep their entries; data    *)
(* and what they answer come from stores that have the content.            *)
(***************************************************************************)
EXTENDS InterestRouting, FiniteSetTheorems, FunctionTheorems, WellFoundedInduction, TLAPS

-----------------------------------------------------------------------------
(* The floods of a leaf.                                                   *)

\* All the proof needs of a packet is which fields it has: their values may be anything.
AsInterest(m) ==
  m = [kind |-> "interest", from |-> m.from, nonce |-> m.nonce, orig |-> m.orig, dest |-> m.dest,
       distance |-> m.distance]

AsJob(j) == j = [at |-> j.at, left |-> j.left, msg |-> j.msg] /\ AsInterest(j.msg)

PacketsInv ==
  /\ \A p \in net : p.msg.kind = "interest" => AsInterest(p.msg)
  /\ \A j \in jobs : AsJob(j)

\* What may be sent: by its own leaf, or by a node that knows a cluster with the content or waits for it.
Contained(m) ==
  m.kind = "interest" /\ Intra(m) /\ m.orig # Leaf(m.from) => Found(m.from) # {} \/ UsedSlots(m.from) # {}

\* An interest keeps its leaf and its destination on its way.
LEMMA ForwardedFacts ==
  ASSUME NEW n, NEW m, AsInterest(m)
  PROVE  /\ AsInterest(ForwardedBy(n, m)) /\ ForwardedBy(n, m).from = n /\ ForwardedBy(n, m).kind = "interest"
         /\ ForwardedBy(n, m).orig = m.orig /\ ForwardedBy(n, m).dest = m.dest
<1> DEFINE f == m.from
           k == m.nonce
           o == m.orig
           d == m.dest
           z == m.distance
<1>1. m = [kind |-> "interest", from |-> f, nonce |-> k, orig |-> o, dest |-> d, distance |-> z]
  BY DEF AsInterest
<1> HIDE DEF f, k, o, d, z
<1>2. [m EXCEPT !.from = n] =
        [kind |-> "interest", from |-> n, nonce |-> k, orig |-> o, dest |-> d, distance |-> z]
  BY <1>1
<1>3. QED
  BY <1>2 DEF ForwardedBy, AsInterest, o, d

LEMMA BroadcastFacts ==
  ASSUME NEW m, NEW p \in Broadcast(m)
  PROVE  p.msg = m
BY DEF Broadcast

LEMMA SentFacts ==
  ASSUME NEW n, NEW nonce, NEW dest, NEW distance
  PROVE  /\ AsInterest(InterestFrom(n, nonce, dest, distance))
         /\ Contained(InterestFrom(n, nonce, dest, distance))
<1> DEFINE m == InterestFrom(n, nonce, dest, distance)
<1>1. m = [kind |-> "interest", from |-> n, nonce |-> nonce, orig |-> Leaf(n), dest |-> dest,
           distance |-> distance]
  BY DEF InterestFrom
<1>2. m.from = n /\ m.orig = Leaf(n)
  BY <1>1
<1>3. AsInterest(m)
  BY <1>1 DEF AsInterest
<1>4. QED
  BY <1>2, <1>3 DEF Contained

LEMMA DataFacts ==
  ASSUME NEW n, NEW hops
  PROVE  DataFrom(n, hops).kind = "data"
BY DEF DataFrom

\* What a step may do: take packets away and send one message, which no node need hear.
Sends(m) == \A p \in net' \ net : p.msg = m
Harmless(m) == (m.kind = "interest" => AsInterest(m)) /\ Contained(m)

LEMMA SendKeeps ==
  ASSUME PacketsInv, NEW m, Harmless(m), Sends(m), \A j \in jobs' : AsJob(j)
  PROVE  PacketsInv' /\ \A p \in net' \ net : Contained(p.msg)
BY DEF PacketsInv, Harmless, Sends

LEMMA QuietKeeps ==
  ASSUME PacketsInv, net' \subseteq net, \A j \in jobs' : AsJob(j)
  PROVE  PacketsInv' /\ \A p \in net' \ net : Contained(p.msg)
BY DEF PacketsInv

\* What a node sends on that has an entry for the name.
LEMMA HitKeeps ==
  ASSUME PacketsInv, NEW n, NEW s, NEW m, NEW rest, AsInterest(m), rest \subseteq net, s \in UsedSlots(n),
         InterestHit(n, s, m, rest), jobs' = jobs
  PROVE  PacketsInv' /\ \A p \in net' \ net : Contained(p.msg)
<1>1. \A j \in jobs' : AsJob(j)
  BY DEF PacketsInv
<1>2. CASE net' = rest
  BY <1>1, <1>2, QuietKeeps
<1>3. CASE net' = rest \cup Broadcast(ForwardedBy(n, m))
  <2> DEFINE f == ForwardedBy(n, m)
  <2>1. AsInterest(f) /\ f.from = n
    BY ForwardedFacts
  <2> HIDE DEF f
  <2>2. Harmless(f)
    BY <2>1 DEF Harmless, Contained
  <2>3. Sends(f)
    BY <1>3, BroadcastFacts DEF Sends, f
  <2>4. QED
    BY <1>1, <2>2, <2>3, SendKeeps
<1>4. QED
  BY <1>2, <1>3 DEF InterestHit

LEMMA TakeInterestKeeps ==
  ASSUME PacketsInv, NEW p \in net, TakeInterest(p)
  PROVE  PacketsInv' /\ \A q \in net' \ net : Contained(q.msg)
<1> DEFINE n == p.to
           m == p.msg
           rest == net \ {p}
<1>1. p.msg.kind = "interest" /\ AsInterest(m) /\ rest \subseteq net /\ \A j \in jobs : AsJob(j)
  BY DEF TakeInterest, PacketsInv
<1>2. CASE (\E s \in Match(n) : InterestHit(n, s, m, rest)) /\ jobs' = jobs
  <2>1. PICK s \in Match(n) : InterestHit(n, s, m, rest)
    BY <1>2
  <2>2. s \in UsedSlots(n)
    BY DEF Match
  <2> HIDE DEF n, m, rest
  <2>3. QED
    BY <1>1, <1>2, <2>1, <2>2, HitKeeps
<1>3. CASE net' = rest \cup Broadcast(DataFrom(n, 1)) /\ jobs' = jobs
  <2>1. DataFrom(n, 1).kind = "data" /\ Sends(DataFrom(n, 1))
    BY <1>3, DataFacts, BroadcastFacts DEF Sends
  <2>2. Harmless(DataFrom(n, 1))
    BY <2>1 DEF Harmless, Contained
  <2>3. QED
    BY <1>1, <1>3, <2>1, <2>2, SendKeeps
<1>4. CASE net' = rest /\ jobs' = jobs \cup {[at |-> n, left |-> "query", msg |-> m]}
  <2>1. \A j \in jobs' : AsJob(j)
    <3> DEFINE new == [at |-> n, left |-> "query", msg |-> m]
    <3>1. AsJob(new)
      <4> HIDE DEF m, n
      <4>1. new.msg = m
        OBVIOUS
      <4>2. QED
        BY <1>1, <4>1 DEF AsJob
    <3> HIDE DEF new
    <3>2. jobs' = jobs \cup {new}
      BY <1>4 DEF new
    <3>3. QED
      BY <1>1, <3>1, <3>2
  <2>2. QED
    BY <1>1, <1>4, <2>1, QuietKeeps
<1>5. QED
  BY <1>2, <1>3, <1>4 DEF TakeInterest

\* bfrd sends an interest on within its own leaf, or on the way to a cluster it knows.
LEMMA DecideKeeps ==
  ASSUME PacketsInv, NEW j \in jobs, Decide(j)
  PROVE  PacketsInv' /\ \A p \in net' \ net : Contained(p.msg)
<1> DEFINE n == j.at
           m == j.msg
<1>1. AsInterest(m) /\ AsJob(j) /\ \A k \in jobs : AsJob(k)
  BY DEF PacketsInv, AsJob
<1>2. CASE \E hops \in Hops(n, inUse) :
             /\ Forwards(n, m, hops) /\ net' = net \cup Broadcast(ForwardedBy(n, m))
             /\ jobs' = (jobs \ {j}) \cup {[j EXCEPT !.left = "add"]}
  <2> DEFINE f == ForwardedBy(n, m)
  <2>1. AsInterest(f) /\ f.from = n /\ f.orig = m.orig /\ f.dest = m.dest
    BY <1>1, ForwardedFacts
  <2>2. Found(n) # {} \/ ~Intra(m) \/ m.orig = Leaf(n)
    BY <1>2 DEF Forwards
  <2>3. Harmless(f)
    <3> HIDE DEF f, n, m
    <3>1. QED
      BY <2>1, <2>2 DEF Harmless, Contained, Intra
  <2>4. Sends(f)
    BY <1>2, BroadcastFacts DEF Sends
  <2>5. \A k \in jobs' : AsJob(k)
    <3> DEFINE new == [j EXCEPT !.left = "add"]
    <3>1. new = [at |-> n, left |-> "add", msg |-> m]
      <4>1. j = [at |-> n, left |-> j.left, msg |-> m]
        BY <1>1 DEF AsJob
      <4> HIDE DEF n, m
      <4>2. QED
        BY <4>1
    <3>2. AsJob(new)
      <4> HIDE DEF n, m, new
      <4>1. QED
        BY <1>1, <3>1 DEF AsJob
    <3> HIDE DEF new
    <3>3. jobs' = (jobs \ {j}) \cup {new}
      BY <1>2 DEF new
    <3>4. QED
      BY <1>1, <3>2, <3>3
  <2>6. QED
    BY <2>3, <2>4, <2>5, SendKeeps
<1>3. CASE jobs' = jobs \ {j} /\ net' = net
  BY <1>1, <1>3, QuietKeeps
<1>4. QED
  BY <1>2, <1>3 DEF Decide

LEMMA TakeDataKeeps ==
  ASSUME PacketsInv, NEW p \in net, TakeData(p)
  PROVE  PacketsInv' /\ \A q \in net' \ net : Contained(q.msg)
<1> DEFINE m == DataFrom(p.to, p.msg.hops + 1)
<1>1. jobs' = jobs /\ \A j \in jobs : AsJob(j)
  BY DEF TakeData, PacketsInv
<1>2. CASE net' = net \ {p}
  BY <1>1, <1>2, QuietKeeps
<1>3. CASE net' = (net \ {p}) \cup Broadcast(m)
  <2>1. m.kind = "data"
    BY DataFacts
  <2> HIDE DEF m
  <2>2. Sends(m)
    BY <1>3, BroadcastFacts DEF Sends
  <2>3. Harmless(m)
    BY <2>1 DEF Harmless, Contained
  <2>4. QED
    BY <1>1, <2>2, <2>3, SendKeeps
<1>4. QED
  BY <1>2, <1>3 DEF TakeData

LEMMA AppKeeps ==
  ASSUME PacketsInv, NEW n, NEW call, Send(n, call), jobs' = jobs
  PROVE  PacketsInv' /\ \A p \in net' \ net : Contained(p.msg)
<1> DEFINE nonce == <<n, asks'[n], call.tries>>
           dest == call.dest
           distance == call.distance
           m == InterestFrom(n, nonce, dest, distance)
<1>1. net' = net \cup Broadcast(m)
  BY DEF Send
<1>2. AsInterest(m) /\ Contained(m)
  <2> HIDE DEF nonce, dest, distance
  <2>1. QED
    BY SentFacts
<1> HIDE DEF m
<1>3. Sends(m) /\ Harmless(m)
  BY <1>1, <1>2, BroadcastFacts DEF Sends, Harmless
<1>4. \A j \in jobs' : AsJob(j)
  BY DEF PacketsInv
<1>5. QED
  BY <1>3, <1>4, SendKeeps

LEMMA StepKeeps ==
  ASSUME PacketsInv, [Next]_vars
  PROVE  PacketsInv' /\ \A p \in net' \ net : Contained(p.msg)
<1>0. \A j \in jobs : AsJob(j)
  BY DEF PacketsInv
<1>1. ASSUME NEW n \in Askers, Ask(n) \/ Retry(n)
      PROVE  PacketsInv' /\ \A p \in net' \ net : Contained(p.msg)
  <2>1. Send(n, app'[n]) /\ jobs' = jobs
    BY <1>1 DEF Ask, Retry
  <2>2. QED
    BY <2>1, AppKeeps
<1>2. CASE \/ \E n \in Askers : GiveUp(n) \/ Return(n)
           \/ Publish \/ Tick \/ UNCHANGED vars
  <2>1. net' = net /\ jobs' = jobs
    BY <1>2 DEF GiveUp, Return, Publish, Tick, vars
  <2>2. QED
    BY <1>0, <2>1, QuietKeeps
<1>3. ASSUME NEW p \in net, TakeInterest(p) \/ TakeData(p)
      PROVE  PacketsInv' /\ \A q \in net' \ net : Contained(q.msg)
  BY <1>3, TakeInterestKeeps, TakeDataKeeps
<1>4. ASSUME NEW p \in net, Drop(p)
      PROVE  PacketsInv' /\ \A q \in net' \ net : Contained(q.msg)
  <2>1. net' = net \ {p} /\ jobs' = jobs
    BY <1>4 DEF Drop
  <2>2. QED
    BY <1>0, <2>1, QuietKeeps
<1>5. ASSUME NEW j \in jobs, Decide(j)
      PROVE  PacketsInv' /\ \A p \in net' \ net : Contained(p.msg)
  BY <1>5, DecideKeeps
<1>6. ASSUME NEW j \in jobs, Add(j)
      PROVE  PacketsInv' /\ \A p \in net' \ net : Contained(p.msg)
  <2>1. net' = net /\ jobs' = jobs \ {j}
    BY <1>6 DEF Add
  <2>2. QED
    BY <1>0, <2>1, QuietKeeps
<1>7. QED
  <2>1. CASE Next
    BY <2>1, <1>1, <1>2, <1>3, <1>4, <1>5, <1>6 DEF Next
  <2>2. CASE UNCHANGED vars
    BY <1>2, <2>2
  <2>3. QED
    BY <2>1, <2>2

\* The flood of a leaf that does not know the way stays in it: who sends such an interest on is in the leaf,
\* or knows a cluster that has the content (fwd_query_response), or has an entry for the name that
\* handle_interest found.
THEOREM LeafFloodsKept == Spec => LeafFloodsStay
<1>1. Init => PacketsInv
  BY DEF Init, PacketsInv
<1>2. PacketsInv /\ [Next]_vars => PacketsInv'
  BY StepKeeps
<1>3. PacketsInv /\ [Next]_vars =>
         [\A p \in net' \ net :
            p.msg.kind = "interest" /\ Intra(p.msg) /\ p.msg.orig # Leaf(p.msg.from)
                => Found(p.msg.from) # {} \/ UsedSlots(p.msg.from) # {}]_net
  BY StepKeeps DEF Contained
<1>4. QED
  BY <1>1, <1>2, <1>3, PTL DEF Spec, LeafFloodsStay

-----------------------------------------------------------------------------
(* Numbers and the grid.                                                   *)

\* A set of numbers has a least one: the intervals below its elements are finite sets, among which one
\* is contained in no other.
LEMMA LeastOne ==
  ASSUME NEW S \in SUBSET Nat, S # {}
  PROVE  \E x \in S : \A y \in S : x <= y
<1> DEFINE Below(x) == 0..(x - 1)
           T == {Below(x) : x \in S}
<1>1. T \subseteq FiniteSubsetsOf(Nat) /\ T # {}
  <2>1. \A x \in S : Below(x) \subseteq Nat /\ IsFiniteSet(Below(x))
    BY FS_Interval
  <2>2. QED
    BY <2>1 DEF FiniteSubsetsOf
<1>2. PICK t \in T : \A u \in T : ~(<<u, t>> \in StrictSubsetOrdering(Nat))
  BY <1>1, FS_StrictSubsetOrderingWellFounded, WFMin
<1>3. PICK x \in S : t = Below(x)
  BY <1>2
<1>4. ASSUME NEW y \in S
      PROVE  x <= y
  <2> SUFFICES ASSUME y < x
               PROVE  FALSE
    OBVIOUS
  <2>1. Below(y) \subseteq Below(x) /\ y \in Below(x) /\ y \notin Below(y)
    OBVIOUS
  <2>2. Below(y) \in SUBSET Nat /\ Below(x) \in SUBSET Nat /\ Below(y) # Below(x)
    BY <2>1
  <2>3. <<Below(y), Below(x)>> \in StrictSubsetOrdering(Nat)
    BY <2>1, <2>2 DEF StrictSubsetOrdering
  <2>4. QED
    BY <1>2, <1>3, <2>3
<1>5. QED
  BY <1>4

LEMMA SmallestIs ==
  ASSUME NEW S \in SUBSET Nat, S # {}
  PROVE  Smallest(S) \in S
<1>1. \E x \in S : \A y \in S : x <= y
  BY LeastOne
<1>2. QED
  BY <1>1 DEF Smallest

\* The number of a level's divisions, 2^l: as many as a set of l elements has subsets, of which the empty
\* set is one.
LEMMA Divisions ==
  ASSUME NEW l \in Nat
  PROVE  2^l \in Nat \ {0}
<1> DEFINE S == 1..l
<1>1. IsFiniteSet(S) /\ Cardinality(S) = l
  BY FS_Interval
<1> HIDE DEF S
<1>2. IsFiniteSet(SUBSET S) /\ Cardinality(SUBSET S) = 2^l
  BY <1>1, FS_SUBSET
<1>3. Cardinality(SUBSET S) \in Nat
  BY <1>2, FS_CardinalityType
<1>4. {} \in SUBSET S
  OBVIOUS
<1>5. Cardinality(SUBSET S) # 0
  BY <1>2, <1>4, FS_EmptySet
<1>6. QED
  BY <1>2, <1>3, <1>5

\* The whole part of a root exists: one less than the least number whose square is larger.
LEMMA RootIs ==
  ASSUME NEW k \in Nat
  PROVE  Root(k) \in Nat /\ Root(k) * Root(k) <= k
<1> DEFINE S == {r \in Nat : r * r > k}
<1>1. k + 1 \in S
  <2>1. (k + 1) * (k + 1) = k * k + k + k + 1 /\ k * k \in Nat
    OBVIOUS
  <2>2. QED
    BY <2>1
<1>2. PICK x \in S : \A y \in S : x <= y
  BY <1>1, LeastOne
<1>3. x # 0
  BY <1>2
<1> DEFINE r == x - 1
<1>4. r \in Nat /\ r + 1 = x /\ r \notin S
  BY <1>2, <1>3
<1>5. r * r <= k /\ k < (r + 1) * (r + 1)
  BY <1>2, <1>4
<1>6. r <= k
  <2> HIDE DEF r
  <2>1. CASE r = 0
    BY <2>1
  <2>2. CASE r # 0
    <3>1. r >= 1
      BY <2>2, <1>4
    <3>2. r * r >= r
      BY <3>1, <1>4
    <3>3. QED
      BY <3>2, <1>4, <1>5
  <2>3. QED
    BY <2>1, <2>2
<1>7. r \in 0..k
  BY <1>4, <1>6
<1>8. \E q \in 0..k : q * q <= k /\ k < (q + 1) * (q + 1)
  BY <1>5, <1>7
<1>9. Root(k) \in 0..k /\ Root(k) * Root(k) <= k
  BY <1>8 DEF Root
<1>10. QED
  BY <1>9

LEMMA GridIs ==
  /\ Width \in Nat /\ Height \in Nat /\ HalfUnit \in Nat \ {0} /\ Unit \in Nat \ {0} /\ Unit = 2 * HalfUnit
  /\ Place \in [Nodes -> (0..Width * Unit) \X (0..Height * Unit)]
BY RoutingAssumption DEF Unit

LEMMA DivisionsOf ==
  ASSUME NEW l \in 1..NumLevels
  PROVE  l \in Nat /\ 2^l \in Nat \ {0}
<1>1. l \in Nat
  BY RoutingAssumption
<1>2. QED
  BY <1>1, Divisions

\* A place in the grid is in one of the tiles.
LEMMA TileIs ==
  ASSUME NEW l \in 1..NumLevels, NEW w \in Nat, NEW z \in 0..w * Unit
  PROVE  Tile(l, w, z) \in 0..(2^l - 1)
<1> DEFINE d == 2^l
           s == w * Unit
           T == {t \in 0..d - 1 : z * d > s * (t + 1)}
<1>1. d \in Nat \ {0} /\ s \in Nat /\ z \in Nat /\ z <= s
  BY DivisionsOf, GridIs
<1>2. Tile(l, w, z) = Cardinality(T)
  BY DEF Tile
<1> HIDE DEF d, s
<1>3. T \subseteq 0..(d - 2)
  <2> SUFFICES ASSUME NEW t \in 0..d - 1, z * d > s * (t + 1), t > d - 2
               PROVE  FALSE
    BY <1>1
  <2>1. t + 1 = d
    BY <1>1
  <2>2. z * d <= s * d /\ z * d \in Nat /\ s * d \in Nat
    BY <1>1
  <2>3. QED
    BY <1>1, <2>1, <2>2
<1>4. IsFiniteSet(0..(d - 2)) /\ Cardinality(0..(d - 2)) = d - 1
  BY <1>1, FS_Interval
<1> HIDE DEF T
<1>5. IsFiniteSet(T) /\ Cardinality(T) <= d - 1 /\ Cardinality(T) \in Nat
  BY <1>3, <1>4, FS_Subset, FS_CardinalityType
<1>6. QED
  BY <1>1, <1>2, <1>5 DEF d

\* A row and a column make a tile.
LEMMA PairBelow ==
  ASSUME NEW d \in Nat \ {0}, NEW x \in 0..(d - 1), NEW y \in 0..(d - 1)
  PROVE  x + d * y \in 0..(d * d - 1)
<1>1. d * y <= d * (d - 1)
  OBVIOUS
<1>2. d * (d - 1) = d * d - d /\ d * d \in Nat /\ d * y \in Nat
  OBVIOUS
<1>3. QED
  BY <1>1, <1>2

LEMMA ClusterIs ==
  ASSUME NEW l \in 1..NumLevels, NEW place \in (0..Width * Unit) \X (0..Height * Unit)
  PROVE  <<l, ClusterAt(l, place)>> \in Clusters
<1> DEFINE d == 2^l
           x == Tile(l, Width, place[1])
           y == Tile(l, Height, place[2])
<1>1. place[1] \in 0..Width * Unit /\ place[2] \in 0..Height * Unit
  OBVIOUS
<1>2. d \in Nat \ {0} /\ x \in 0..(d - 1) /\ y \in 0..(d - 1)
  BY <1>1, GridIs, DivisionsOf, TileIs
<1>3. ClusterAt(l, place) = x + d * y
  BY DEF ClusterAt
<1> HIDE DEF d, x, y
<1>4. ClusterAt(l, place) \in 0..(d * d - 1)
  BY <1>2, <1>3, PairBelow
<1>5. QED
  BY <1>4 DEF Clusters, d

\* A set with one element more has twice as many subsets.
LEMMA Doubles ==
  ASSUME NEW l \in Nat
  PROVE  2^(l + 1) = 2 * 2^l
<1> DEFINE a == l + 1
           S == 1..l
           P == SUBSET S
           Q == {A \in SUBSET (1..a) : a \in A}
<1>1. IsFiniteSet(S) /\ Cardinality(S) = l
  BY FS_Interval
<1>2. IsFiniteSet(1..a) /\ Cardinality(1..a) = a
  BY FS_Interval
<1>3. 1..a = S \cup {a} /\ a \notin S
  OBVIOUS
<1> HIDE DEF S, a
<1>4. IsFiniteSet(P) /\ Cardinality(P) = 2^l
  BY <1>1, FS_SUBSET
<1>5. IsFiniteSet(SUBSET (1..a)) /\ Cardinality(SUBSET (1..a)) = 2^a
  BY <1>2, FS_SUBSET
<1>6. SUBSET (1..a) = P \cup Q /\ P \cap Q = {}
  BY <1>3
<1>7. IsFiniteSet(Q) /\ Cardinality(Q) = Cardinality(P)
  <2> DEFINE f == [A \in P |-> A \cup {a}]
  <2>1. \A A \in P : f[A] \in Q
    BY <1>3
  <2>2. \A A, B \in P : f[A] = f[B] => A = B
    <3> SUFFICES ASSUME NEW A \in P, NEW B \in P, A \cup {a} = B \cup {a}
                 PROVE  A = B
      OBVIOUS
    <3>1. a \notin A /\ a \notin B
      BY <1>3
    <3>2. QED
      BY <3>1
  <2>3. \A B \in Q : \E A \in P : f[A] = B
    <3> TAKE B \in Q
    <3>1. B \ {a} \in P /\ (B \ {a}) \cup {a} = B
      BY <1>3
    <3>2. QED
      BY <3>1
  <2>4. f \in Bijection(P, Q)
    BY <2>1, <2>2, <2>3, Fun_IsBij
  <2>5. QED
    BY <1>4, <2>4, FS_Bijection DEF ExistsBijection
<1> HIDE DEF P, Q
<1>8. Cardinality(SUBSET (1..a)) = Cardinality(P) + Cardinality(Q) - Cardinality({})
  BY <1>4, <1>6, <1>7, FS_Union
<1>9. Cardinality({}) = 0 /\ Cardinality(P) \in Nat
  BY <1>4, FS_EmptySet, FS_CardinalityType
<1>10. 2^a = 2 * 2^l
  BY <1>4, <1>5, <1>7, <1>8, <1>9
<1>11. QED
  BY <1>10 DEF a

\* What the middle of a tile is rounded to, as the quotient of a division by 2^(l + 1).
LEMMA MiddleIs ==
  ASSUME NEW l \in 1..NumLevels, NEW w \in Nat, NEW t \in 0..(2^l - 1), NEW d, d = 2^l
  PROVE  /\ Middle(l, w, t) \in 0..w
         /\ 2 * (d * Middle(l, w, t)) <= w * (2 * t + 1) + d
         /\ w * (2 * t + 1) + d < 2 * (d * Middle(l, w, t)) + 2 * d
<1> DEFINE e == 2^(l + 1)
           k == w * (2 * t + 1) + d
           m == k \div e
<1>1. d \in Nat \ {0} /\ e = 2 * d /\ t \in 0..(d - 1)
  BY DivisionsOf, Doubles
<1>2. Middle(l, w, t) = m
  BY DEF Middle
<1> HIDE DEF e
<1>3. k \in Nat /\ e \in Nat \ {0}
  BY <1>1
<1>4. k <= 2 * (w * d) - w + d
  <2>1. w * (2 * t + 1) <= w * (2 * d - 1)
    BY <1>1
  <2>2. w * (2 * d - 1) = 2 * (w * d) - w /\ w * (2 * t + 1) \in Nat /\ w * d \in Nat
    BY <1>1
  <2>3. QED
    BY <1>1, <2>1, <2>2
<1> HIDE DEF k
<1>5. m \in Nat /\ e * m <= k /\ k < e * m + e
  BY <1>3
<1> HIDE DEF m
<1>6. e * m = 2 * (d * m) /\ d * m \in Nat
  BY <1>1, <1>5
<1>7. m <= w
  <2> SUFFICES ASSUME m >= w + 1
               PROVE  FALSE
    BY <1>5
  <2>1. d * m >= d * (w + 1)
    BY <1>1, <1>5
  <2>2. d * (w + 1) = w * d + d /\ w * d \in Nat
    BY <1>1
  <2>3. e * m <= k /\ e * m >= 2 * (w * d) + 2 * d
    BY <1>1, <1>5, <1>6, <2>1, <2>2
  <2>4. QED
    BY <1>1, <1>3, <1>4, <1>6, <2>2, <2>3
<1>8. QED
  BY <1>1, <1>2, <1>5, <1>6, <1>7 DEF k

\* A cluster's number is of the column and the row of a tile.
LEMMA CenterParts ==
  ASSUME NEW l \in 1..NumLevels, NEW id \in 0..(2^l * 2^l - 1)
  PROVE  id % 2^l \in 0..(2^l - 1) /\ id \div 2^l \in 0..(2^l - 1) /\ id = (id % 2^l) + 2^l * (id \div 2^l)
<1> DEFINE d == 2^l
           y == id \div d
<1>1. d \in Nat \ {0}
  BY DivisionsOf
<1>2. id \in 0..(d * d - 1)
  OBVIOUS
<1> SUFFICES id % d \in 0..(d - 1) /\ y \in 0..(d - 1) /\ id = (id % d) + d * y
  OBVIOUS
<1> HIDE DEF d
<1>3. id \in Nat /\ id % d \in 0..(d - 1) /\ y \in Nat /\ id = (id % d) + d * y
  BY <1>1, <1>2
<1> HIDE DEF y
<1>4. y <= d - 1
  <2> SUFFICES ASSUME y >= d
               PROVE  FALSE
    BY <1>1, <1>3
  <2>1. d * y >= d * d /\ d * y \in Nat
    BY <1>1, <1>3
  <2>2. QED
    BY <1>1, <1>2, <1>3, <2>1
<1>5. QED
  BY <1>1, <1>3, <1>4

\* The centre of a cluster is in the grid.
LEMMA CenterIs ==
  ASSUME NEW l \in 1..NumLevels, NEW id \in 0..(2^l * 2^l - 1)
  PROVE  Center(l, id) \in (0..Width * Unit) \X (0..Height * Unit)
<1> DEFINE x == Middle(l, Width, id % 2^l)
           y == Middle(l, Height, id \div 2^l)
<1>1. x \in 0..Width /\ y \in 0..Height
  BY CenterParts, MiddleIs, GridIs
<1>2. Center(l, id) = <<x * Unit, y * Unit>>
  BY DEF Center
<1> HIDE DEF x, y
<1>3. ASSUME NEW w \in Nat, NEW v \in 0..w
      PROVE  v * Unit \in 0..w * Unit
  BY GridIs
<1>4. QED
  BY <1>1, <1>2, <1>3, GridIs

LEMMA DistanceIs ==
  ASSUME NEW l \in 1..NumLevels, NEW id \in 0..(2^l * 2^l - 1),
         NEW place \in (0..Width * Unit) \X (0..Height * Unit)
  PROVE  Distance(l, id, place) \in 0..(Width + Height)
<1> DEFINE w == Width * Unit
           h == Height * Unit
           dx == place[1] - Center(l, id)[1]
           dy == place[2] - Center(l, id)[2]
           k == dx * dx + dy * dy
<1>1. w \in Nat /\ h \in Nat /\ place[1] \in 0..w /\ place[2] \in 0..h
  BY GridIs
<1>2. Center(l, id)[1] \in 0..w /\ Center(l, id)[2] \in 0..h
  BY CenterIs
<1>3. dx \in Int /\ -w <= dx /\ dx <= w /\ dy \in Int /\ -h <= dy /\ dy <= h
  BY <1>1, <1>2
<1>4. Distance(l, id, place) = Root(k) \div Unit
  BY DEF Distance
<1>5. w + h = Unit * (Width + Height)
  BY GridIs
<1> HIDE DEF dx, dy, w, h
<1>6. ASSUME NEW u \in Nat, NEW v \in Int, -u <= v, v <= u
      PROVE  v * v \in Nat /\ v * v <= u * u
  BY <1>6
<1>7. k \in Nat /\ k <= w * w + h * h
  <2>1. dx * dx \in Nat /\ dx * dx <= w * w
    BY <1>1, <1>3, <1>6
  <2>2. dy * dy \in Nat /\ dy * dy <= h * h
    BY <1>1, <1>3, <1>6
  <2>3. QED
    BY <1>1, <2>1, <2>2
<1> HIDE DEF k
<1> DEFINE r == Root(k)
<1>8. r \in Nat /\ r * r <= k
  BY <1>7, RootIs
<1> HIDE DEF r
<1>9. r <= w + h
  <2> SUFFICES ASSUME r >= w + h + 1
               PROVE  FALSE
    BY <1>1, <1>8
  <2>1. r * r >= (w + h + 1) * (w + h + 1)
    BY <1>1, <1>8
  <2>2. /\ (w + h + 1) * (w + h + 1) = w * w + h * h + 2 * (w * h) + 2 * w + 2 * h + 1
        /\ w * w \in Nat /\ h * h \in Nat /\ w * h \in Nat
    BY <1>1
  <2>3. QED
    BY <1>1, <1>7, <1>8, <2>1, <2>2
<1>10. r \div Unit \in 0..(Width + Height)
  <2> DEFINE q == r \div Unit
             c == Width + Height
  <2>1. q \in Nat /\ Unit * q <= r /\ c \in Nat /\ w + h = Unit * c /\ Unit \in Nat \ {0}
    BY <1>5, <1>8, GridIs
  <2> HIDE DEF q, c
  <2>2. q <= c
    <3> SUFFICES ASSUME q >= c + 1
                 PROVE  FALSE
      BY <2>1
    <3>1. Unit * q >= Unit * (c + 1)
      BY <2>1
    <3>2. Unit * (c + 1) = Unit * c + Unit /\ Unit * q \in Nat /\ Unit * c \in Nat
      BY <2>1
    <3>3. QED
      BY <1>1, <1>8, <1>9, <2>1, <3>1, <3>2
  <2>3. q \in 0..c
    BY <2>1, <2>2
  <2>4. QED
    BY <2>3 DEF q, c
<1>11. QED
  BY <1>4, <1>10 DEF r

-----------------------------------------------------------------------------
(* What is sent where.                                                     *)

LEMMA OwnIs ==
  ASSUME NEW n \in Nodes, NEW l \in 1..NumLevels
  PROVE  Own(n, l) \in Clusters
<1>1. Place[n] \in (0..Width * Unit) \X (0..Height * Unit)
  BY GridIs
<1>2. QED
  BY <1>1, ClusterIs DEF Own

LEMMA LeafIs ==
  ASSUME NEW n \in Nodes
  PROVE  Leaf(n) \in Clusters
<1>1. NumLevels \in 1..NumLevels
  BY RoutingAssumption
<1>2. QED
  BY <1>1, OwnIs DEF Leaf

LEMMA ClusterParts ==
  ASSUME NEW c \in Clusters
  PROVE  c[1] \in 1..NumLevels /\ c[2] \in 0..(2^c[1] * 2^c[1] - 1) /\ c = <<c[1], c[2]>>
<1>1. PICK l \in 1..NumLevels : c \in {l} \X (0..2^l * 2^l - 1)
  BY DEF Clusters
<1>2. c[1] = l /\ c[2] \in 0..2^l * 2^l - 1 /\ c = <<c[1], c[2]>>
  BY <1>1
<1>3. QED
  BY <1>2

\* The four clusters of the highest level: the one at the centre has another next to it.
LEMMA CenterClusterIs ==
  ASSUME NEW n \in Nodes
  PROVE  CenterCluster(n) \in Clusters
<1> DEFINE c == ClusterAt(1, <<Width * HalfUnit, Height * HalfUnit>>)
<1>1. 1 \in 1..NumLevels /\ 2^1 = 2
  BY RoutingAssumption
<1>2. ASSUME NEW w \in Nat
      PROVE  w * HalfUnit \in 0..w * Unit
  <2>1. w * Unit = 2 * (w * HalfUnit) /\ w * HalfUnit \in Nat
    BY GridIs
  <2>2. QED
    BY <2>1
<1>3. <<Width * HalfUnit, Height * HalfUnit>> \in (0..Width * Unit) \X (0..Height * Unit)
  BY <1>2, GridIs
<1>4. <<1, c>> \in Clusters
  BY <1>1, <1>3, ClusterIs
<1> HIDE DEF c
<1>5. c \in 0..(2^1 * 2^1 - 1)
  BY <1>4, ClusterParts
<1>6. c \in 0..3
  BY <1>1, <1>5
<1>7. ASSUME NEW k \in 0..3
      PROVE  <<1, k>> \in Clusters
  <2> DEFINE l == 1
             d == 2^l
  <2>1. d = 2 /\ l \in 1..NumLevels
    BY <1>1
  <2> HIDE DEF d
  <2>2. k \in 0..d * d - 1
    BY <2>1
  <2> HIDE DEF l
  <2>3. <<l, k>> \in Clusters
    BY <2>1, <2>2 DEF Clusters, d
  <2>4. QED
    BY <2>3 DEF l
<1>8. c % 2 = 0 => c + 1 \in 0..3
  BY <1>6
<1>9. c % 2 # 0 => c - 1 \in 0..3
  BY <1>6
<1>10. QED
  BY <1>4, <1>7, <1>8, <1>9 DEF CenterCluster, c

LEMMA DestsAre ==
  ASSUME NEW n \in Nodes
  PROVE  Dests(n) \subseteq Clusters
<1>1. Found(n) \subseteq Clusters
  BY DEF Found
<1>2. DefaultDest(n) \in Clusters
  <2> DEFINE S == 2..NumLevels \ Undecided(n)
  <2>1. CASE S = {}
    BY <2>1, CenterClusterIs DEF DefaultDest
  <2>2. CASE S # {}
    <3>1. NumLevels \in Nat /\ S \in SUBSET Nat
      BY RoutingAssumption
    <3>2. Smallest(S) \in S
      BY <2>2, <3>1, SmallestIs
    <3>3. Smallest(S) \in 1..NumLevels /\ Smallest(S) - 1 \in 1..NumLevels
      BY <3>1, <3>2
    <3>4. DefaultLevel(n) \in 1..NumLevels
      BY <3>3 DEF DefaultLevel
    <3>5. QED
      BY <2>2, <3>4, OwnIs DEF DefaultDest
  <2>3. QED
    BY <2>1, <2>2
<1>3. QED
  BY <1>1, <1>2 DEF Dests

\* Hops count less than nothing, and the distance to a cluster is bounded by the grid.
LEMMA DestDistanceIs ==
  ASSUME NEW n \in Nodes, NEW dest \in Clusters, NEW hops \in Hops(n, inUse)
  PROVE  DestDistance(n, dest, hops) \in Distances
<1> DEFINE z == Distance(dest[1], dest[2], Place[n])
<1>1. z \in 0..(Width + Height)
  <2>1. Place[n] \in (0..Width * Unit) \X (0..Height * Unit)
    BY GridIs
  <2>2. QED
    BY <2>1, ClusterParts, DistanceIs
<1> HIDE DEF z
<1>2. hops \in Int
  BY RoutingAssumption DEF Hops
<1>3. -Abs(hops) \in Int /\ -Abs(hops) <= 0
  BY <1>2 DEF Abs
<1>4. DestDistance(n, dest, hops) = -Abs(hops) \/ DestDistance(n, dest, hops) = z
  BY DEF DestDistance, z
<1>5. QED
  BY <1>1, <1>3, <1>4, GridIs DEF Distances

LEMMA SentIs ==
  ASSUME NEW n \in Nodes, NEW nonce \in Askers \X (1..MaxAsks) \X (1..Attempts), NEW dest \in Clusters,
         NEW distance \in Distances
  PROVE  InterestFrom(n, nonce, dest, distance) \in Interest
<1> DEFINE o == Leaf(n)
<1>1. InterestFrom(n, nonce, dest, distance) =
        [kind |-> "interest", from |-> n, nonce |-> nonce, orig |-> o, dest |-> dest, distance |-> distance]
  BY DEF InterestFrom
<1>2. o \in Clusters
  BY LeafIs
<1> HIDE DEF o
<1>3. QED
  BY <1>1, <1>2 DEF Interest

LEMMA ForwardedIs ==
  ASSUME NEW n \in Nodes, NEW m \in Interest
  PROVE  ForwardedBy(n, m) \in Interest
BY DEF ForwardedBy, Interest

LEMMA DataIs ==
  ASSUME NEW n \in Nodes, NEW hops \in Nat
  PROVE  DataFrom(n, hops) \in Data /\ DataFrom(n, hops).from = n
BY DEF DataFrom, Data

LEMMA MessageIs ==
  ASSUME NEW m \in Interest \cup Data
  PROVE  /\ m.from \in Nodes /\ m.kind \in {"interest", "data"}
         /\ m.kind = "interest" <=> m \in Interest
         /\ m.kind = "data" <=> m \in Data
BY DEF Interest, Data

-----------------------------------------------------------------------------
(* The types, the applications' entries and where the content is.          *)

Packets == [to : Nodes, msg : Interest \cup Data]
Entry == [kind : {"free", "net", "app"}, created : 0..MaxTime, available : BOOLEAN, served : BOOLEAN]
Call == [state : {"idle", "waits", "has", "failed"}, slot : {0} \cup Slots, tries : 0..Attempts,
         sent : 0..MaxTime, routed : BOOLEAN, dest : Clusters, distance : Distances]
Jobs == [at : Nodes, left : {"query", "add"}, msg : Interest]

\* An application that waits has made a call: its nonces are told apart by it.
CallsCounted == \A n \in Askers : app[n].state = "waits" => asks[n] # 0

IInv == TypeOK /\ EntriesKept /\ ContentStays /\ CallsCounted

DataReal == \A p \in net : p.msg.kind = "data" => p.msg.from \in store

\* A step that takes packets away and sends one message.
LEMMA NetKept ==
  ASSUME TypeOK, ContentStays, NEW m \in Interest \cup Data, net' \subseteq net \cup Broadcast(m),
         store \subseteq store', m.kind = "data" => m.from \in store'
  PROVE  net' \subseteq Packets /\ DataReal'
<1>1. m.from \in Nodes
  BY MessageIs
<1>2. Hears[m.from] \subseteq Nodes
  BY <1>1, RoutingAssumption
<1>3. \A p \in Broadcast(m) : p.msg = m /\ p \in Packets
  BY <1>2 DEF Broadcast, Packets
<1>4. net \subseteq Packets
  BY DEF TypeOK, Packets
<1>5. DataReal
  BY DEF ContentStays, DataReal
<1>6. QED
  BY <1>3, <1>4, <1>5 DEF DataReal

LEMMA NetLess ==
  ASSUME TypeOK, ContentStays, net' \subseteq net, store \subseteq store'
  PROVE  net' \subseteq Packets /\ DataReal'
BY DEF TypeOK, Packets, ContentStays, DataReal

\* One entry, one call is changed.
Enters(n, s, e) == pit' = [pit EXCEPT ![n][s] = e]
Becomes(n, c) == app' = [app EXCEPT ![n] = c]

LEMMA EntryChanged ==
  ASSUME TypeOK, NEW n \in Nodes, NEW s \in Slots, NEW e \in Entry, Enters(n, s, e)
  PROVE  /\ pit' \in [Nodes -> [Slots -> Entry]]
         /\ pit'[n][s] = e
         /\ \A k \in Nodes, u \in Slots : k # n \/ u # s => pit'[k][u] = pit[k][u]
<1>1. pit \in [Nodes -> [Slots -> Entry]]
  BY DEF TypeOK, Entry
<1>2. QED
  BY <1>1 DEF Enters

LEMMA CallChanged ==
  ASSUME TypeOK, NEW n \in Askers, NEW c \in Call, Becomes(n, c)
  PROVE  /\ app' \in [Askers -> Call]
         /\ app'[n] = c
         /\ \A k \in Askers : k # n => app'[k] = app[k]
BY DEF TypeOK, Call, Becomes

LEMMA SlotsAre ==
  ASSUME TypeOK, NEW n \in Nodes
  PROVE  /\ \A s \in EntrySlots(n) : s \in Slots /\ pit[n][s].kind # "app"
         /\ \A s \in Match(n) : s \in Slots /\ pit[n][s].kind # "free" /\ pit[n][s].available
         /\ 0 \notin Slots
<1>1. Slots \subseteq Nat /\ 0 \notin Slots
  BY DEF Slots
<1>2. FreeSlots(n) # {} => Smallest(FreeSlots(n)) \in FreeSlots(n)
  <2>1. FreeSlots(n) \in SUBSET Nat
    BY <1>1 DEF FreeSlots
  <2>2. QED
    BY <2>1, SmallestIs
<1>3. \A s \in EntrySlots(n) : s \in Slots /\ pit[n][s].kind # "app"
  <2>1. ASSUME NEW s \in EntrySlots(n)
        PROVE  s \in Slots /\ pit[n][s].kind # "app"
    <3>1. CASE FreeSlots(n) # {}
      BY <1>2, <2>1, <3>1 DEF EntrySlots, FreeSlots
    <3>2. CASE FreeSlots(n) = {}
      BY <2>1, <3>2 DEF EntrySlots, Victims
    <3>3. QED
      BY <3>1, <3>2
  <2>2. QED
    BY <2>1
<1>4. QED
  BY <1>1, <1>3 DEF Match, UsedSlots

LEMMA NewIs ==
  ASSUME TypeOK
  PROVE  /\ \A kind \in {"net", "app"} :
               /\ NewEntry(kind) \in Entry /\ NewEntry(kind).kind = kind /\ NewEntry(kind).available
               /\ ~NewEntry(kind).served
         /\ Free \in Entry /\ Free.kind = "free" /\ ~Free.served
<1>1. now \in 0..MaxTime /\ 0 \in 0..MaxTime
  BY RoutingAssumption DEF TypeOK
<1>2. QED
  BY <1>1 DEF NewEntry, Free, Entry

\* An entry is refreshed: another one with the same fields but for its time takes its place.
LEMMA Refreshed ==
  ASSUME TypeOK, NEW n \in Nodes, NEW s \in Slots, pit' = [pit EXCEPT ![n][s].created = now]
  PROVE  \E e \in Entry : /\ Enters(n, s, e) /\ e.kind = pit[n][s].kind /\ e.served = pit[n][s].served
                          /\ e.available = pit[n][s].available
<1> DEFINE e == [pit[n][s] EXCEPT !.created = now]
<1>1. now \in 0..MaxTime /\ pit \in [Nodes -> [Slots -> Entry]]
  BY RoutingAssumption DEF TypeOK, Entry
<1>2. pit[n][s] \in Entry
  BY <1>1
<1>3. /\ e \in Entry /\ e.kind = pit[n][s].kind /\ e.served = pit[n][s].served
      /\ e.available = pit[n][s].available
  BY <1>1, <1>2 DEF Entry
<1>4. Enters(n, s, e)
  BY <1>1 DEF Enters
<1>5. QED
  BY <1>3, <1>4

\* What becomes of entries and calls.
EntriesReal == \A n \in Nodes, s \in Slots : pit[n][s].served => n \in store
CallsReal == \A n \in Askers : app[n].state = "has" => n \in store

LEMMA Together ==
  ASSUME now' \in 1..MaxTime, net' \subseteq Packets, pit' \in [Nodes -> [Slots -> Entry]], store' \subseteq Nodes,
         jobs' \subseteq Jobs, app' \in [Askers -> Call], asks' \in [Askers -> 0..MaxAsks], inUse' \subseteq Nodes,
         EntriesKept', DataReal', EntriesReal', CallsReal', CallsCounted'
  PROVE  IInv'
BY DEF IInv, TypeOK, Packets, Entry, Jobs, Call, ContentStays, DataReal, EntriesReal, CallsReal

LEMMA Apart ==
  ASSUME IInv
  PROVE  /\ now \in 1..MaxTime /\ net \subseteq Packets /\ pit \in [Nodes -> [Slots -> Entry]]
         /\ store \subseteq Nodes /\ jobs \subseteq Jobs /\ app \in [Askers -> Call]
         /\ asks \in [Askers -> 0..MaxAsks] /\ inUse \subseteq Nodes
         /\ TypeOK /\ EntriesKept /\ ContentStays /\ DataReal /\ EntriesReal /\ CallsReal /\ CallsCounted
BY DEF IInv, TypeOK, Packets, Entry, Jobs, Call, ContentStays, DataReal, EntriesReal, CallsReal

\* A pipeline's step with an entry: an application's stays one.
LEMMA EntryStep ==
  ASSUME IInv, NEW n \in Nodes, NEW s \in Slots, NEW e \in Entry, Enters(n, s, e), app' = app,
         store \subseteq store', e.kind = "app" <=> pit[n][s].kind = "app",
         e.served => e.kind = "app" /\ ~e.available /\ n \in store'
  PROVE  pit' \in [Nodes -> [Slots -> Entry]] /\ EntriesKept' /\ EntriesReal' /\ CallsReal'
<1>1. /\ pit' \in [Nodes -> [Slots -> Entry]] /\ pit'[n][s] = e
      /\ \A k \in Nodes, u \in Slots : k # n \/ u # s => pit'[k][u] = pit[k][u]
  BY Apart, EntryChanged
<1>2. EntriesKept'
  <2>1. EntriesKept
    BY Apart
  <2>2. \A k \in Nodes, u \in Slots :
           /\ pit'[k][u].kind = "app" <=> pit[k][u].kind = "app"
           /\ pit'[k][u].served => pit'[k][u].kind = "app" /\ ~pit'[k][u].available
    BY <1>1, <2>1 DEF EntriesKept
  <2>3. QED
    BY <2>1, <2>2 DEF EntriesKept
<1>3. EntriesReal'
  BY <1>1, Apart DEF EntriesReal
<1>4. CallsReal'
  BY Apart DEF CallsReal
<1>5. QED
  BY <1>1, <1>2, <1>3, <1>4

\* An application's step with its entry.
LEMMA CallStep ==
  ASSUME IInv, NEW n \in Askers, NEW s \in Slots, NEW e \in Entry, NEW c \in Call, Enters(n, s, e), Becomes(n, c),
         store' = store, c.state = "waits" <=> c.slot # 0, ~e.served, e.kind = "app" <=> c.slot = s,
         \A u \in Slots : u # s => (pit[n][u].kind = "app" <=> c.slot = u),
         c.state = "has" => n \in store
  PROVE  /\ pit' \in [Nodes -> [Slots -> Entry]] /\ app' \in [Askers -> Call]
         /\ EntriesKept' /\ EntriesReal' /\ CallsReal'
         /\ app'[n] = c /\ \A k \in Askers : k # n => app'[k] = app[k]
<1>0. n \in Nodes
  BY RoutingAssumption
<1>1. /\ pit' \in [Nodes -> [Slots -> Entry]] /\ pit'[n][s] = e
      /\ \A k \in Nodes, u \in Slots : k # n \/ u # s => pit'[k][u] = pit[k][u]
  BY <1>0, Apart, EntryChanged
<1>2. app' \in [Askers -> Call] /\ app'[n] = c /\ \A k \in Askers : k # n => app'[k] = app[k]
  BY Apart, CallChanged
<1>3. EntriesKept
  BY Apart
<1>4. \A k \in Askers : app'[k].state = "waits" <=> app'[k].slot # 0
  BY <1>2, <1>3 DEF EntriesKept
<1>5. ASSUME NEW k \in Nodes, NEW u \in Slots
      PROVE  /\ pit'[k][u].kind = "app" <=> k \in Askers /\ app'[k].slot = u
             /\ pit'[k][u].served => pit'[k][u].kind = "app" /\ ~pit'[k][u].available
  <2>1. CASE k = n /\ u = s
    BY <1>1, <1>2, <2>1
  <2>2. CASE k = n /\ u # s
    <3>1. pit'[k][u] = pit[n][u] /\ app'[k] = c
      BY <1>1, <1>2, <2>2
    <3>2. QED
      BY <1>0, <1>3, <2>2, <3>1 DEF EntriesKept
  <2>3. CASE k # n
    <3>1. pit'[k][u] = pit[k][u] /\ (k \in Askers => app'[k] = app[k])
      BY <1>1, <1>2, <2>3
    <3>2. QED
      BY <1>3, <3>1 DEF EntriesKept
  <2>4. QED
    BY <2>1, <2>2, <2>3
<1>6. EntriesKept'
  BY <1>4, <1>5 DEF EntriesKept
<1>7. EntriesReal'
  BY <1>1, Apart DEF EntriesReal
<1>8. CallsReal'
  BY <1>2, Apart DEF CallsReal
<1>9. QED
  BY <1>1, <1>2, <1>6, <1>7, <1>8

-----------------------------------------------------------------------------
(* Steps of applications.                                                  *)

LEMMA SendStep ==
  ASSUME IInv, NEW n \in Askers, NEW c \in Call, Send(n, c), asks'[n] \in 1..MaxAsks, c.tries \in 1..Attempts,
         store' = store
  PROVE  net' \subseteq Packets /\ DataReal'
<1> DEFINE nonce == <<n, asks'[n], c.tries>>
           m == InterestFrom(n, nonce, c.dest, c.distance)
<1>1. n \in Nodes /\ c.dest \in Clusters /\ c.distance \in Distances /\ nonce \in Askers \X (1..MaxAsks) \X (1..Attempts)
  BY RoutingAssumption DEF Call
<1>2. net' = net \cup Broadcast(m)
  BY DEF Send
<1> HIDE DEF nonce
<1>3. m \in Interest
  BY <1>1, SentIs
<1> HIDE DEF m
<1>4. m.kind = "interest"
  BY <1>3 DEF Interest
<1>5. QED
  BY <1>2, <1>3, <1>4, Apart, NetKept

LEMMA AskStep ==
  ASSUME IInv, NEW n \in Askers, Ask(n)
  PROVE  IInv'
<1>1. PICK dest \in Dests(n), hops \in Hops(n, inUse), s \in EntrySlots(n) :
          /\ pit' = [pit EXCEPT ![n][s] = NewEntry("app")]
          /\ app' = [app EXCEPT ![n] =
                [state |-> "waits", slot |-> s, tries |-> 1, sent |-> now,
                 routed |-> Routed(n, dest, DestDistance(n, dest, hops)), dest |-> dest,
                 distance |-> DestDistance(n, dest, hops)]]
  BY DEF Ask
<1> DEFINE e == NewEntry("app")
           z == DestDistance(n, dest, hops)
           c == [state |-> "waits", slot |-> s, tries |-> 1, sent |-> now, routed |-> Routed(n, dest, z),
                 dest |-> dest, distance |-> z]
<1>2. n \in Nodes /\ 1 \in 1..Attempts /\ now \in 0..MaxTime /\ TypeOK
  BY RoutingAssumption, Apart
<1>3. s \in Slots /\ pit[n][s].kind # "app" /\ s # 0
  BY <1>2, SlotsAre
<1>4. e \in Entry /\ e.kind = "app" /\ ~e.served
  BY <1>2, NewIs
<1>5. Routed(n, dest, z) \in BOOLEAN
  BY DEF Routed
<1>6. /\ c \in Call /\ c.slot = s /\ c.state = "waits" /\ c.tries = 1
  <2>1. dest \in Clusters
    BY <1>2, DestsAre
  <2>2. z \in Distances
    BY <1>2, <2>1, DestDistanceIs
  <2> DEFINE r == Routed(n, dest, z)
  <2>3. r \in BOOLEAN
    BY <1>5
  <2> HIDE DEF r, z
  <2>4. [state |-> "waits", slot |-> s, tries |-> 1, sent |-> now, routed |-> r, dest |-> dest,
         distance |-> z] \in Call
    BY <1>2, <1>3, <2>1, <2>2, <2>3 DEF Call
  <2>5. QED
    BY <2>4 DEF r
<1>7. Enters(n, s, e) /\ Becomes(n, c)
  BY <1>1 DEF Enters, Becomes
<1> HIDE DEF e, c
<1>8. /\ asks[n] < MaxAsks /\ asks' = [asks EXCEPT ![n] = @ + 1] /\ Send(n, app'[n])
      /\ now' = now /\ store' = store /\ jobs' = jobs /\ inUse' = inUse /\ app[n].state # "waits"
  BY DEF Ask
<1>9. \A u \in Slots : u # s => (pit[n][u].kind = "app" <=> c.slot = u)
  <2>1. app[n].slot = 0 /\ 0 \notin Slots
    BY <1>2, <1>8, Apart, SlotsAre DEF EntriesKept
  <2>2. QED
    BY <1>2, <1>6, <2>1, Apart DEF EntriesKept
<1>10. /\ pit' \in [Nodes -> [Slots -> Entry]] /\ app' \in [Askers -> Call]
       /\ EntriesKept' /\ EntriesReal' /\ CallsReal'
       /\ app'[n] = c /\ \A k \in Askers : k # n => app'[k] = app[k]
  BY <1>3, <1>4, <1>6, <1>7, <1>8, <1>9, CallStep
<1>11. /\ asks' \in [Askers -> 0..MaxAsks] /\ asks'[n] \in 1..MaxAsks
       /\ \A k \in Askers : k # n => asks'[k] = asks[k]
  <2>1. asks \in [Askers -> 0..MaxAsks] /\ MaxAsks \in Nat
    BY Apart, RoutingAssumption
  <2>2. QED
    BY <1>8, <2>1
<1>12. net' \subseteq Packets /\ DataReal'
  BY <1>2, <1>6, <1>8, <1>10, <1>11, SendStep
<1>13. CallsCounted'
  BY <1>10, <1>11, Apart DEF CallsCounted
<1>14. QED
  BY <1>8, <1>10, <1>11, <1>12, <1>13, Apart, Together

\* The application that waits and its entry.
LEMMA WaitsAt ==
  ASSUME IInv, NEW n \in Askers, app[n].state = "waits"
  PROVE  /\ n \in Nodes /\ app[n] \in Call /\ app[n].slot \in Slots /\ 0 \notin Slots /\ asks[n] \in 1..MaxAsks
         /\ pit[n][app[n].slot].kind = "app"
         /\ \A u \in Slots : pit[n][u].kind = "app" <=> app[n].slot = u
<1>1. n \in Nodes /\ app[n] \in Call /\ asks[n] \in 0..MaxAsks /\ asks[n] # 0 /\ TypeOK
  BY RoutingAssumption, Apart DEF CallsCounted
<1>2. app[n].slot \in {0} \cup Slots /\ app[n].slot # 0 /\ 0 \notin Slots
  <2>1. app[n].slot # 0
    BY Apart DEF EntriesKept
  <2>2. QED
    BY <1>1, <2>1, SlotsAre DEF Call
<1>3. \A u \in Slots : pit[n][u].kind = "app" <=> app[n].slot = u
  BY <1>1, Apart DEF EntriesKept
<1>4. asks[n] \in 1..MaxAsks
  BY <1>1, RoutingAssumption
<1>5. QED
  BY <1>1, <1>2, <1>3, <1>4

LEMMA RetryStep ==
  ASSUME IInv, NEW n \in Askers, Retry(n)
  PROVE  IInv'
<1> DEFINE s == app[n].slot
           t == app[n].tries + 1
           c == [app[n] EXCEPT !.tries = t, !.sent = now]
<1>1. /\ app[n].state = "waits" /\ ~pit[n][s].served /\ app[n].tries < Attempts
      /\ app' = [app EXCEPT ![n].tries = @ + 1, ![n].sent = now]
      /\ pit' = [pit EXCEPT ![n][s].created = now] /\ Send(n, app'[n])
      /\ now' = now /\ store' = store /\ jobs' = jobs /\ inUse' = inUse /\ asks' = asks
  BY DEF Retry, TimedOut, Retries
<1>2. /\ n \in Nodes /\ app[n] \in Call /\ s \in Slots /\ 0 \notin Slots /\ asks[n] \in 1..MaxAsks
      /\ pit[n][s].kind = "app" /\ \A u \in Slots : pit[n][u].kind = "app" <=> s = u
  BY <1>1, WaitsAt
<1>3. now \in 0..MaxTime /\ TypeOK /\ app \in [Askers -> Call]
  BY RoutingAssumption, Apart
<1>4. Becomes(n, c)
  BY <1>1, <1>3 DEF Becomes
<1>5. c \in Call /\ c.slot = s /\ c.state = "waits" /\ c.tries \in 1..Attempts
  <2>1. app[n].tries \in 0..Attempts /\ Attempts \in Nat
    BY <1>2, RoutingAssumption DEF Call
  <2>2. t \in 1..Attempts /\ t \in 0..Attempts
    BY <1>1, <2>1
  <2> HIDE DEF t
  <2>3. QED
    BY <1>1, <1>2, <1>3, <2>2 DEF Call
<1> HIDE DEF c, s, t
<1>6. PICK e \in Entry : Enters(n, s, e) /\ e.kind = pit[n][s].kind /\ e.served = pit[n][s].served
  BY <1>1, <1>2, <1>3, Refreshed
<1>7. /\ pit' \in [Nodes -> [Slots -> Entry]] /\ app' \in [Askers -> Call]
      /\ EntriesKept' /\ EntriesReal' /\ CallsReal'
      /\ app'[n] = c /\ \A k \in Askers : k # n => app'[k] = app[k]
  <2>1. c.slot # 0
    BY <1>2, <1>5
  <2>2. ~e.served /\ (e.kind = "app" <=> c.slot = s)
    BY <1>1, <1>2, <1>5, <1>6
  <2>3. \A u \in Slots : u # s => (pit[n][u].kind = "app" <=> c.slot = u)
    BY <1>2, <1>5
  <2>4. /\ c \in Call /\ Enters(n, s, e) /\ Becomes(n, c) /\ store' = store /\ s \in Slots
        /\ c.state = "waits" <=> c.slot # 0
        /\ c.state # "has"
    BY <1>1, <1>2, <1>4, <1>5, <1>6, <2>1
  <2>5. QED
    BY <2>2, <2>3, <2>4, CallStep
<1>8. net' \subseteq Packets /\ DataReal'
  BY <1>1, <1>2, <1>5, <1>7, SendStep
<1>9. CallsCounted'
  BY <1>1, <1>2, <1>7, Apart DEF CallsCounted
<1>10. QED
  BY <1>1, <1>7, <1>8, <1>9, Apart, Together

\* Both ways out of a call release its entry.
LEMMA LeaveStep ==
  ASSUME IInv, NEW n \in Askers, GiveUp(n) \/ Return(n)
  PROVE  IInv'
<1> DEFINE s == app[n].slot
<1>1. /\ app[n].state = "waits" /\ pit' = Released(n, s)
      /\ now' = now /\ net' = net /\ store' = store /\ jobs' = jobs /\ inUse' = inUse /\ asks' = asks
  BY DEF GiveUp, Return, TimedOut
<1>2. /\ n \in Nodes /\ app[n] \in Call /\ s \in Slots /\ 0 \notin Slots
      /\ pit[n][s].kind = "app" /\ \A u \in Slots : pit[n][u].kind = "app" <=> s = u
  BY <1>1, WaitsAt
<1>3. TypeOK /\ app \in [Askers -> Call]
  BY Apart
<1>4. \E state \in {"failed", "has"} :
         /\ app' = [app EXCEPT ![n].state = state, ![n].slot = 0]
         /\ state = "has" => pit[n][s].served
  BY DEF GiveUp, Return
<1>5. PICK state \in {"failed", "has"} :
         /\ app' = [app EXCEPT ![n].state = state, ![n].slot = 0]
         /\ state = "has" => pit[n][s].served
  BY <1>4
<1> DEFINE c == [app[n] EXCEPT !.state = state, !.slot = 0]
<1>6. Becomes(n, c)
  BY <1>3, <1>5 DEF Becomes
<1>7. c \in Call /\ c.slot = 0 /\ c.state = state
  BY <1>2 DEF Call
<1> HIDE DEF c, s
<1>8. Enters(n, s, Free) /\ Free \in Entry /\ Free.kind = "free" /\ ~Free.served
  BY <1>1, <1>3, NewIs DEF Enters, Released
<1>9. state = "has" => n \in store
  BY <1>2, <1>5, Apart DEF EntriesReal
<1>10. /\ pit' \in [Nodes -> [Slots -> Entry]] /\ app' \in [Askers -> Call]
       /\ EntriesKept' /\ EntriesReal' /\ CallsReal'
       /\ app'[n] = c /\ \A k \in Askers : k # n => app'[k] = app[k]
  BY <1>1, <1>2, <1>6, <1>7, <1>8, <1>9, CallStep
<1>11. net' \subseteq Packets /\ DataReal'
  BY <1>1, Apart, NetLess
<1>12. CallsCounted'
  BY <1>1, <1>7, <1>10, Apart DEF CallsCounted
<1>13. QED
  BY <1>1, <1>10, <1>11, <1>12, Apart, Together

-----------------------------------------------------------------------------
(* Steps of the pipelines.                                                 *)

LEMMA StillKept ==
  ASSUME IInv, pit' = pit, app' = app, store \subseteq store'
  PROVE  /\ pit' \in [Nodes -> [Slots -> Entry]] /\ app' \in [Askers -> Call]
         /\ EntriesKept' /\ EntriesReal' /\ CallsReal'
<1>1. EntriesKept'
  BY Apart DEF EntriesKept
<1>2. EntriesReal' /\ CallsReal'
  BY Apart DEF EntriesReal, CallsReal
<1>3. QED
  BY <1>1, <1>2, Apart

LEMMA CountsStay ==
  ASSUME IInv, app' = app, asks' = asks
  PROVE  asks' \in [Askers -> 0..MaxAsks] /\ CallsCounted'
BY Apart DEF CallsCounted

LEMMA QueryStep ==
  ASSUME IInv, NEW p \in net, TakeInterest(p)
  PROVE  IInv'
<1> DEFINE n == p.to
           m == p.msg
           rest == net \ {p}
<1>1. /\ p \in Packets /\ m.kind = "interest"
      /\ now' = now /\ store' = store /\ app' = app /\ asks' = asks /\ inUse' = inUse
  BY Apart DEF TakeInterest
<1>2. n \in Nodes /\ m \in Interest /\ TypeOK /\ ContentStays /\ jobs \subseteq Jobs
  <2>1. p.msg \in Interest \cup Data /\ p.to \in Nodes
    BY <1>1 DEF Packets
  <2>2. QED
    BY <1>1, <2>1, MessageIs, Apart
<1>3. asks' \in [Askers -> 0..MaxAsks] /\ CallsCounted'
  BY <1>1, CountsStay
<1>4. CASE (\E s \in Match(n) : InterestHit(n, s, m, rest)) /\ jobs' = jobs
  <2>1. PICK s \in Match(n) : InterestHit(n, s, m, rest)
    BY <1>4
  <2>2. s \in Slots
    BY <1>2, SlotsAre
  <2>3. pit' = [pit EXCEPT ![n][s].created = now] /\ (net' = rest \cup Broadcast(ForwardedBy(n, m)) \/ net' = rest)
    BY <2>1 DEF InterestHit
  <2> HIDE DEF n, m
  <2>4. PICK e \in Entry : /\ Enters(n, s, e) /\ e.kind = pit[n][s].kind /\ e.served = pit[n][s].served
                           /\ e.available = pit[n][s].available
    BY <1>2, <2>2, <2>3, Refreshed
  <2>5. e.served => e.kind = "app" /\ ~e.available /\ n \in store'
    <3>1. EntriesKept /\ EntriesReal
      BY Apart
    <3>2. pit[n][s].served => pit[n][s].kind = "app" /\ ~pit[n][s].available /\ n \in store
      BY <1>2, <2>2, <3>1 DEF EntriesKept, EntriesReal
    <3>3. QED
      BY <1>1, <2>4, <3>2
  <2>6. pit' \in [Nodes -> [Slots -> Entry]] /\ EntriesKept' /\ EntriesReal' /\ CallsReal'
    BY <1>1, <1>2, <2>2, <2>4, <2>5, EntryStep
  <2>7. net' \subseteq Packets /\ DataReal'
    <3> DEFINE f == ForwardedBy(n, m)
    <3>1. f \in Interest
      BY <1>2, ForwardedIs
    <3> HIDE DEF f
    <3>2. f.kind # "data"
      BY <3>1 DEF Interest
    <3>3. net' \subseteq net \cup Broadcast(f)
      BY <2>3 DEF f
    <3>4. QED
      BY <1>1, <1>2, <3>1, <3>2, <3>3, NetKept
  <2>8. QED
    BY <1>1, <1>3, <1>4, <2>6, <2>7, Apart, Together
<1>5. ASSUME pit' = pit, jobs' \subseteq Jobs, net' \subseteq Packets, DataReal'
      PROVE  IInv'
  <2>1. /\ pit' \in [Nodes -> [Slots -> Entry]] /\ app' \in [Askers -> Call]
        /\ EntriesKept' /\ EntriesReal' /\ CallsReal'
    BY <1>1, <1>5, StillKept
  <2>2. QED
    BY <1>1, <1>3, <1>5, <2>1, Apart, Together
<1>6. CASE n \in store /\ net' = rest \cup Broadcast(DataFrom(n, 1)) /\ pit' = pit /\ jobs' = jobs
  <2> DEFINE d == DataFrom(n, 1)
  <2>1. d \in Data /\ d.from = n
    BY <1>2, DataIs
  <2> HIDE DEF d
  <2>2. net' \subseteq net \cup Broadcast(d)
    BY <1>6 DEF d
  <2>3. net' \subseteq Packets /\ DataReal'
    BY <1>1, <1>2, <1>6, <2>1, <2>2, NetKept
  <2>4. QED
    BY <1>2, <1>5, <1>6, <2>3
<1>7. CASE jobs' = jobs \cup {[at |-> n, left |-> "query", msg |-> m]} /\ net' = rest /\ pit' = pit
  <2>1. [at |-> n, left |-> "query", msg |-> m] \in Jobs
    <3> HIDE DEF n, m
    <3>1. QED
      BY <1>2 DEF Jobs
  <2>2. net' \subseteq Packets /\ DataReal'
    BY <1>1, <1>2, <1>7, NetLess
  <2>3. QED
    BY <1>2, <1>5, <1>7, <2>1, <2>2
<1>8. QED
  BY <1>4, <1>6, <1>7 DEF TakeInterest

LEMMA DecideStep ==
  ASSUME IInv, NEW j \in jobs, Decide(j)
  PROVE  IInv'
<1> DEFINE n == j.at
           m == j.msg
           f == ForwardedBy(n, m)
           new == [j EXCEPT !.left = "add"]
<1>1. /\ now' = now /\ pit' = pit /\ store' = store /\ app' = app /\ asks' = asks /\ inUse' = inUse
      /\ net' \subseteq net \cup Broadcast(f) /\ jobs' \subseteq jobs \cup {new}
  BY DEF Decide
<1>2. j \in Jobs /\ jobs \subseteq Jobs /\ TypeOK /\ ContentStays
  BY Apart
<1>3. n \in Nodes /\ m \in Interest /\ new \in Jobs
  BY <1>2 DEF Jobs
<1>4. f \in Interest
  BY <1>3, ForwardedIs
<1> HIDE DEF f, new
<1>5. f.kind # "data"
  BY <1>4 DEF Interest
<1>6. net' \subseteq Packets /\ DataReal'
  BY <1>1, <1>2, <1>4, <1>5, NetKept
<1>7. /\ pit' \in [Nodes -> [Slots -> Entry]] /\ app' \in [Askers -> Call]
      /\ EntriesKept' /\ EntriesReal' /\ CallsReal'
  BY <1>1, StillKept
<1>8. asks' \in [Askers -> 0..MaxAsks] /\ CallsCounted'
  BY <1>1, CountsStay
<1>9. QED
  BY <1>1, <1>2, <1>3, <1>6, <1>7, <1>8, Apart, Together

LEMMA AddStep ==
  ASSUME IInv, NEW j \in jobs, Add(j)
  PROVE  IInv'
<1> DEFINE n == j.at
           e == NewEntry("net")
<1>1. /\ now' = now /\ net' = net /\ store' = store /\ app' = app /\ asks' = asks /\ inUse' = inUse
      /\ jobs' \subseteq jobs /\ \E s \in EntrySlots(n) : Enters(n, s, e)
  BY DEF Add, Entered, Enters
<1>2. j \in Jobs /\ TypeOK /\ ContentStays
  BY Apart
<1>3. n \in Nodes
  BY <1>2 DEF Jobs
<1>4. e \in Entry /\ e.kind = "net" /\ ~e.served
  BY <1>2, NewIs
<1> HIDE DEF n, e
<1>5. PICK s \in EntrySlots(n) : Enters(n, s, e)
  BY <1>1
<1>6. s \in Slots /\ pit[n][s].kind # "app"
  BY <1>2, <1>3, SlotsAre
<1>7. pit' \in [Nodes -> [Slots -> Entry]] /\ EntriesKept' /\ EntriesReal' /\ CallsReal'
  BY <1>1, <1>3, <1>4, <1>5, <1>6, EntryStep
<1>8. net' \subseteq Packets /\ DataReal'
  BY <1>1, <1>2, NetLess
<1>9. asks' \in [Askers -> 0..MaxAsks] /\ CallsCounted'
  BY <1>1, CountsStay
<1>10. QED
  BY <1>1, <1>7, <1>8, <1>9, Apart, Together

\* Content is stored before anybody is told of it.
LEMMA DataStep ==
  ASSUME IInv, NEW p \in net, TakeData(p)
  PROVE  IInv'
<1> DEFINE n == p.to
           d == DataFrom(n, p.msg.hops + 1)
<1>1. /\ now' = now /\ jobs' = jobs /\ app' = app /\ asks' = asks /\ inUse' = inUse \cup {n}
      /\ store' = store \cup {n} /\ p.msg.kind = "data" /\ p \in Packets
  BY Apart DEF TakeData
<1>2. /\ n \in Nodes /\ p.msg \in Data /\ TypeOK /\ ContentStays /\ EntriesKept /\ EntriesReal
      /\ now \in 0..MaxTime /\ pit \in [Nodes -> [Slots -> Entry]]
  <2>1. p.msg \in Interest \cup Data /\ p.to \in Nodes
    BY <1>1 DEF Packets
  <2>2. QED
    BY <1>1, <2>1, MessageIs, Apart, RoutingAssumption
<1>3. d \in Data /\ d.from = n
  <2>1. p.msg.hops \in Nat
    BY <1>2 DEF Data
  <2>2. QED
    BY <1>2, <2>1, DataIs
<1>4. \E s \in Match(n) :
         \/ /\ pit[n][s].kind = "app"
            /\ pit' = [pit EXCEPT ![n][s].served = TRUE, ![n][s].available = FALSE, ![n][s].created = now]
            /\ net' \subseteq net \cup Broadcast(d)
         \/ /\ pit[n][s].kind = "net" /\ pit' = Released(n, s)
            /\ net' \subseteq net \cup Broadcast(d)
  <2> HIDE DEF d
  <2>1. QED
    BY DEF TakeData, d
<1>5. PICK s \in Match(n) :
         \/ /\ pit[n][s].kind = "app"
            /\ pit' = [pit EXCEPT ![n][s].served = TRUE, ![n][s].available = FALSE, ![n][s].created = now]
            /\ net' \subseteq net \cup Broadcast(d)
         \/ /\ pit[n][s].kind = "net" /\ pit' = Released(n, s)
            /\ net' \subseteq net \cup Broadcast(d)
  BY <1>4
<1>6. s \in Slots /\ pit[n][s] \in Entry
  BY <1>2, SlotsAre
<1> HIDE DEF n, d
<1>7. store \subseteq store' /\ n \in store' /\ store' \subseteq Nodes /\ inUse' \subseteq Nodes
  BY <1>1, <1>2, Apart
<1>8. net' \subseteq Packets /\ DataReal'
  BY <1>2, <1>3, <1>5, <1>7, NetKept
<1>9. \E e \in Entry : /\ Enters(n, s, e) /\ (e.kind = "app" <=> pit[n][s].kind = "app")
                       /\ e.served => e.kind = "app" /\ ~e.available
  <2>1. CASE /\ pit[n][s].kind = "app"
             /\ pit' = [pit EXCEPT ![n][s].served = TRUE, ![n][s].available = FALSE, ![n][s].created = now]
    <3> DEFINE e == [pit[n][s] EXCEPT !.served = TRUE, !.available = FALSE, !.created = now]
    <3>1. e \in Entry /\ e.kind = "app" /\ ~e.available
      BY <1>2, <1>6, <2>1 DEF Entry
    <3>2. Enters(n, s, e)
      BY <1>2, <1>6, <2>1 DEF Enters
    <3>3. QED
      BY <2>1, <3>1, <3>2
  <2>2. CASE pit[n][s].kind = "net" /\ pit' = Released(n, s)
    <3>1. Enters(n, s, Free) /\ Free \in Entry /\ Free.kind = "free" /\ ~Free.served
      BY <1>2, <2>2, NewIs DEF Enters, Released
    <3>2. QED
      BY <2>2, <3>1
  <2>3. QED
    BY <1>5, <2>1, <2>2
<1>10. pit' \in [Nodes -> [Slots -> Entry]] /\ EntriesKept' /\ EntriesReal' /\ CallsReal'
  BY <1>1, <1>2, <1>6, <1>7, <1>9, EntryStep
<1>11. asks' \in [Askers -> 0..MaxAsks] /\ CallsCounted'
  BY <1>1, CountsStay
<1>12. QED
  BY <1>1, <1>7, <1>8, <1>10, <1>11, Apart, Together

\* Steps that leave the tables and the applications alone.
LEMMA OtherStep ==
  ASSUME IInv, Publish \/ (\E p \in net : Drop(p)) \/ Tick \/ UNCHANGED vars
  PROVE  IInv'
<1>1. /\ pit' = pit /\ jobs' = jobs /\ app' = app /\ asks' = asks /\ inUse' = inUse
      /\ net' \subseteq net /\ store \subseteq store' /\ store' \subseteq Nodes
  BY Apart, RoutingAssumption DEF Publish, Drop, Tick, vars
<1>2. now' \in 1..MaxTime
  BY Apart, RoutingAssumption DEF Publish, Drop, Tick, vars
<1>3. net' \subseteq Packets /\ DataReal'
  BY <1>1, Apart, NetLess
<1>4. /\ pit' \in [Nodes -> [Slots -> Entry]] /\ app' \in [Askers -> Call]
      /\ EntriesKept' /\ EntriesReal' /\ CallsReal'
  BY <1>1, StillKept
<1>5. asks' \in [Askers -> 0..MaxAsks] /\ CallsCounted'
  BY <1>1, CountsStay
<1>6. QED
  BY <1>1, <1>2, <1>3, <1>4, <1>5, Apart, Together

LEMMA InitHolds ==
  ASSUME Init
  PROVE  IInv
<1>1. 1 \in 1..MaxTime /\ 0 \in 0..MaxTime /\ 0 \in 0..Attempts /\ 0 \in 0..MaxAsks /\ Holders \subseteq Nodes
  BY RoutingAssumption
<1>2. Free \in Entry /\ Free.kind = "free" /\ ~Free.served
  BY <1>1 DEF Free, Entry
<1>3. NoCall \in Call /\ NoCall.state = "idle" /\ NoCall.slot = 0
  <2>1. <<1, 0>> \in Clusters
    <3> DEFINE l == 1
               d == 2^l
    <3>1. l \in 1..NumLevels /\ d \in Nat \ {0}
      BY RoutingAssumption, Divisions
    <3> HIDE DEF d
    <3>2. d * d >= 1
      BY <3>1
    <3>3. 0 \in 0..d * d - 1
      BY <3>1, <3>2
    <3> HIDE DEF l
    <3>4. <<l, 0>> \in Clusters
      BY <3>1, <3>3 DEF Clusters, d
    <3>5. QED
      BY <3>4 DEF l
  <2>2. QED
    <3>1. 0 \in Distances
      BY GridIs DEF Distances
    <3>2. QED
      BY <1>1, <2>1, <3>1 DEF NoCall, Call
<1>4. 0 \notin Slots
  BY DEF Slots
<1>5. TypeOK
  BY <1>1, <1>2, <1>3 DEF Init, TypeOK, Entry, Call
<1>6. EntriesKept
  BY <1>2, <1>3, <1>4 DEF Init, EntriesKept
<1>7. ContentStays /\ CallsCounted
  BY <1>2, <1>3 DEF Init, ContentStays, CallsCounted
<1>8. QED
  BY <1>5, <1>6, <1>7 DEF IInv

\* In every network, an application that waits keeps its entry until it leaves, no entry of an application's
\* is left behind, and whoever sends data or is given them has the content in its store.
THEOREM EntriesAndContent == Spec => []RoutingInv
<1>1. Init => IInv
  BY InitHolds
<1>2. IInv /\ [Next]_vars => IInv'
  <2> SUFFICES ASSUME IInv, [Next]_vars
               PROVE  IInv'
    OBVIOUS
  <2>1. CASE \E n \in Askers : Ask(n) \/ Retry(n) \/ GiveUp(n) \/ Return(n)
    BY <2>1, AskStep, RetryStep, LeaveStep
  <2>2. CASE \E p \in net : TakeInterest(p) \/ TakeData(p)
    BY <2>2, QueryStep, DataStep
  <2>3. CASE \E j \in jobs : Decide(j) \/ Add(j)
    BY <2>3, DecideStep, AddStep
  <2>4. CASE Publish \/ (\E p \in net : Drop(p)) \/ Tick \/ UNCHANGED vars
    BY <2>4, OtherStep
  <2>5. QED
    BY <2>1, <2>2, <2>3, <2>4 DEF Next
<1>3. IInv => RoutingInv
  BY DEF IInv, RoutingInv
<1>4. QED
  BY <1>1, <1>2, <1>3, PTL DEF Spec

-----------------------------------------------------------------------------
(* The grid.  The levels' clusters nest; a cluster's centre is in the      *)
(* cluster, unless rounding takes it out: what a distance to a cluster     *)
(* means, and a filter handed to the level above.                          *)

\* The tile a coordinate is in: its upper border belongs to it, its lower one to the tile before.
LEMMA TileHolds ==
  ASSUME NEW l \in 1..NumLevels, NEW w \in Nat, NEW z \in Nat, NEW k \in 0..(2^l - 1),
         w * Unit * k < z * 2^l \/ k = 0, z * 2^l <= w * Unit * (k + 1)
  PROVE  Tile(l, w, z) = k
<1> DEFINE d == 2^l
           s == w * Unit
           y == z * d
           T == {t \in 0..d - 1 : y > s * (t + 1)}
<1>1. d \in Nat \ {0} /\ s \in Nat /\ y \in Nat /\ k \in 0..(d - 1)
  BY DivisionsOf, GridIs
<1>2. Tile(l, w, z) = Cardinality(T) /\ (s * k < y \/ k = 0) /\ y <= s * (k + 1)
  BY DEF Tile
<1> HIDE DEF d, s, y
<1>3. ASSUME NEW t \in 0..d - 1
      PROVE  y > s * (t + 1) <=> t <= k - 1
  <2>1. CASE t <= k - 1
    <3>1. k = (t + 1) + (k - 1 - t) /\ k - 1 - t \in Nat
      BY <1>1, <2>1
    <3>2. s * k >= s * (t + 1)
      BY <1>1, <3>1
    <3>3. s * k \in Nat /\ s * (t + 1) \in Nat /\ k # 0
      BY <1>1, <2>1
    <3>4. QED
      BY <1>1, <1>2, <2>1, <3>2, <3>3
  <2>2. CASE t > k - 1
    <3>1. s * (t + 1) >= s * (k + 1)
      BY <1>1, <2>2
    <3>2. s * (k + 1) \in Nat /\ s * (t + 1) \in Nat
      BY <1>1
    <3>3. QED
      BY <1>1, <1>2, <2>2, <3>1, <3>2
  <2>3. QED
    BY <1>1, <2>1, <2>2
<1>4. T = 0..(k - 1)
  <2>1. \A t : t \in 0..(k - 1) <=> t \in 0..d - 1 /\ t <= k - 1
    BY <1>1
  <2>2. \A t : t \in T <=> t \in 0..d - 1 /\ t <= k - 1
    BY <1>3
  <2>3. QED
    BY <2>1, <2>2
<1>5. Cardinality(0..(k - 1)) = k
  BY <1>1, FS_Interval
<1>6. QED
  BY <1>2, <1>4, <1>5

\* Each coordinate of the grid is in a tile so.
LEMMA TileBounds ==
  ASSUME NEW l \in 1..NumLevels, NEW w \in Nat, NEW z \in 0..w * Unit
  PROVE  \E k \in 0..(2^l - 1) : (w * Unit * k < z * 2^l \/ k = 0) /\ z * 2^l <= w * Unit * (k + 1)
<1> DEFINE d == 2^l
           s == w * Unit
           y == z * d
           S == {t \in 0..(d - 1) : y <= s * (t + 1)}
<1>1. d \in Nat \ {0} /\ s \in Nat /\ z \in 0..s
  BY DivisionsOf, GridIs
<1>2. y \in Nat /\ y <= s * d
  <2> HIDE DEF d, s
  <2>1. QED
    BY <1>1
<1> SUFFICES \E k \in 0..(d - 1) : (s * k < y \/ k = 0) /\ y <= s * (k + 1)
  OBVIOUS
<1> HIDE DEF d, s, y
<1>3. d - 1 \in S /\ S \in SUBSET Nat
  <2>1. s * ((d - 1) + 1) = s * d
    BY <1>1
  <2>2. QED
    BY <1>1, <1>2, <2>1
<1>4. PICK k \in S : \A t \in S : k <= t
  <2> HIDE DEF S
  <2>1. QED
    BY <1>3, LeastOne
<1>5. CASE k = 0
  BY <1>4, <1>5
<1>6. CASE k # 0
  <2>1. k - 1 \in 0..(d - 1) /\ k - 1 \notin S /\ (k - 1) + 1 = k
    BY <1>1, <1>4, <1>6
  <2>2. s * k < y
    <3>1. ~(y <= s * ((k - 1) + 1)) /\ s * k \in Nat
      BY <1>1, <2>1
    <3>2. QED
      BY <1>2, <2>1, <3>1
  <2>3. QED
    BY <1>4, <2>2
<1>7. QED
  BY <1>5, <1>6

\* A cluster's number is made of the column and the row of its tile.
LEMMA ColumnAndRow ==
  ASSUME NEW d \in Nat \ {0}, NEW x \in 0..(d - 1), NEW y \in Nat
  PROVE  (x + d * y) % d = x /\ (x + d * y) \div d = y
<1> DEFINE id == x + d * y
           r == id % d
           q == id \div d
<1>1. d * y \in Nat /\ id \in Nat
  OBVIOUS
<1> HIDE DEF id
<1>2. r \in 0..(d - 1) /\ q \in Nat /\ id = d * q + r
  BY <1>1
<1>3. id = x + d * y
  BY DEF id
<1> HIDE DEF r, q
<1>4. q <= y
  <2> SUFFICES ASSUME q >= y + 1
               PROVE  FALSE
    BY <1>2
  <2>1. d * q >= d * (y + 1) /\ d * (y + 1) = d * y + d /\ d * q \in Nat
    BY <1>2
  <2>2. QED
    BY <1>1, <1>2, <1>3, <2>1
<1>5. y <= q
  <2> SUFFICES ASSUME y >= q + 1
               PROVE  FALSE
    BY <1>2
  <2>1. d * y >= d * (q + 1) /\ d * (q + 1) = d * q + d /\ d * q \in Nat
    BY <1>2
  <2>2. QED
    BY <1>1, <1>2, <1>3, <2>1
<1>6. q = y
  BY <1>2, <1>4, <1>5
<1>7. r = x
  BY <1>1, <1>2, <1>3, <1>6
<1>8. QED
  BY <1>6, <1>7 DEF r, q, id

\* On a side of at least one unit less than it has tiles the middle of a tile stays in it, however it is
\* rounded.
LEMMA MiddleInTile ==
  ASSUME NEW l \in 1..NumLevels, NEW w \in Nat, NEW t \in 0..(2^l - 1), w >= 2^l - 1
  PROVE  Tile(l, w, Middle(l, w, t) * Unit) = t
<1> DEFINE d == 2^l
           m == Middle(l, w, t)
           a == d * m
           b == w * t
<1>1. d \in Nat \ {0} /\ t \in 0..(d - 1) /\ w >= d - 1
  BY DivisionsOf
<1>2. m \in Nat /\ 2 * a <= w * (2 * t + 1) + d /\ w * (2 * t + 1) + d < 2 * a + 2 * d
  BY MiddleIs
<1> HIDE DEF d, m
<1>3. a \in Nat /\ b \in Nat /\ w * (2 * t + 1) = 2 * b + w
  BY <1>1, <1>2
<1>4. a <= b + w
  <2> HIDE DEF a, b
  <2>1. QED
    BY <1>1, <1>2, <1>3
<1>5. b < a \/ t = 0
  <2>1. a >= b
    <3> HIDE DEF a, b
    <3>1. QED
      BY <1>1, <1>2, <1>3
  <2>2. ASSUME a = b, t # 0
        PROVE  FALSE
    <3>1. w = d - 1
      <4> HIDE DEF a, b
      <4>1. QED
        BY <1>1, <1>2, <1>3, <2>2
    <3>2. (d - 1) * t = d * t - t /\ d * t \in Nat
      BY <1>1
    <3>3. d * t = d * m + t
      BY <1>1, <1>2, <2>2, <3>1, <3>2
    <3>4. CASE m >= t
      <4>1. d * m >= d * t
        BY <1>1, <1>2, <3>4
      <4>2. QED
        BY <1>1, <1>2, <1>3, <2>2, <3>2, <3>3, <4>1
    <3>5. CASE m <= t - 1
      <4>1. d * m <= d * (t - 1)
        BY <1>1, <1>2, <3>5
      <4>2. d * (t - 1) = d * t - d
        BY <1>1
      <4>3. QED
        BY <1>1, <1>3, <3>2, <3>3, <4>1, <4>2
    <3>6. QED
      BY <1>1, <1>2, <3>4, <3>5
  <2>3. QED
    BY <1>3, <2>1, <2>2
<1>6. /\ w * Unit * t = Unit * b /\ (m * Unit) * d = Unit * a /\ w * Unit * (t + 1) = Unit * (b + w)
  BY <1>1, <1>2, GridIs
<1>7. (w * Unit * t < (m * Unit) * d \/ t = 0) /\ (m * Unit) * d <= w * Unit * (t + 1)
  <2> HIDE DEF a, b
  <2>1. Unit * a <= Unit * (b + w)
    BY <1>3, <1>4, GridIs
  <2>2. b < a => Unit * b < Unit * a
    BY <1>3, GridIs
  <2>3. QED
    BY <1>5, <1>6, <2>1, <2>2
<1>8. m * Unit \in Nat
  BY <1>2, GridIs
<1>9. QED
  BY <1>1, <1>7, <1>8, TileHolds DEF d, m

\* On a shorter side two middles are rounded to the same unit.
LEMMA MiddlesApart ==
  ASSUME NEW l \in 1..NumLevels, NEW w \in Nat,
         \A t \in 0..(2^l - 1) : Tile(l, w, Middle(l, w, t) * Unit) = t
  PROVE  w >= 2^l - 1
<1> DEFINE d == 2^l
           T == 0..(d - 1)
           f == [t \in T |-> Middle(l, w, t)]
<1>1. d \in Nat \ {0}
  BY DivisionsOf
<1>2. \A t \in T : Middle(l, w, t) \in 0..w
  BY MiddleIs
<1>3. \A t, u \in T : f[t] = f[u] => t = u
  <2> SUFFICES ASSUME NEW t \in T, NEW u \in T, Middle(l, w, t) = Middle(l, w, u)
               PROVE  t = u
    OBVIOUS
  <2>1. Tile(l, w, Middle(l, w, t) * Unit) = t /\ Tile(l, w, Middle(l, w, u) * Unit) = u
    OBVIOUS
  <2>2. QED
    BY <2>1
<1> HIDE DEF d
<1>4. f \in Injection(T, 0..w)
  <2>1. f \in [T -> 0..w]
    BY <1>2
  <2>2. QED
    BY <1>3, <2>1, Fun_IsInj
<1>5. IsFiniteSet(0..w) /\ Cardinality(0..w) = w + 1 /\ Cardinality(T) = d
  <2>1. 0 \in Int /\ w \in Int /\ d - 1 \in Int
    BY <1>1
  <2>2. IsFiniteSet(0..w) /\ Cardinality(0..w) = w + 1
    <3> HIDE DEF f, T
    <3>1. QED
      BY <2>1, FS_Interval
  <2>3. Cardinality(0..(d - 1)) = d
    <3> HIDE DEF f, T
    <3>1. QED
      BY <1>1, <2>1, FS_Interval
  <2>4. QED
    BY <2>2, <2>3
<1> HIDE DEF f, T
<1>6. Cardinality(T) <= Cardinality(0..w)
  BY <1>4, <1>5, FS_Injection
<1>7. QED
  BY <1>1, <1>5, <1>6 DEF d

\* The centre that grid_center computes for a cluster is in the cluster by grid_cluster exactly if the grid
\* is wide and high enough, one unit less than the level has divisions.  Then a distance to a cluster is one
\* to a place in it, and grid_convertCluster, which asks for the centre's cluster at the cluster's own level,
\* gives back every cluster unchanged.  On a smaller grid round() takes some centre out.
THEOREM CenterInCluster ==
  ASSUME NEW l \in 1..NumLevels
  PROVE  (\A id \in 0..(2^l * 2^l - 1) : ClusterAt(l, Center(l, id)) = id)
            <=> Width >= 2^l - 1 /\ Height >= 2^l - 1
<1> DEFINE d == 2^l
           X(t) == Tile(l, Width, Middle(l, Width, t) * Unit)
           Y(t) == Tile(l, Height, Middle(l, Height, t) * Unit)
<1>1. d \in Nat \ {0}
  BY DivisionsOf
<1>2. ASSUME NEW x, NEW y, NEW id, id % d = x, id \div d = y
      PROVE  ClusterAt(l, Center(l, id)) = X(x) + d * Y(y)
  BY <1>2 DEF ClusterAt, Center
<1>3. ASSUME Width >= d - 1, Height >= d - 1, NEW id \in 0..(d * d - 1)
      PROVE  ClusterAt(l, Center(l, id)) = id
  <2> DEFINE x == id % d
             y == id \div d
  <2>1. x \in 0..(d - 1) /\ y \in 0..(d - 1) /\ id = x + d * y
    BY CenterParts
  <2>2. ClusterAt(l, Center(l, id)) = X(x) + d * Y(y)
    BY <1>2
  <2> HIDE DEF x, y
  <2>3. X(x) = x /\ Y(y) = y
    BY <1>3, <2>1, GridIs, MiddleInTile
  <2>4. QED
    BY <2>1, <2>2, <2>3
<1>4. ASSUME \A id \in 0..(d * d - 1) : ClusterAt(l, Center(l, id)) = id
      PROVE  Width >= d - 1 /\ Height >= d - 1
  <2>1. ASSUME NEW x \in 0..(d - 1), NEW y \in 0..(d - 1)
        PROVE  X(x) = x /\ Y(y) = y
    <3> DEFINE id == x + d * y
               u == X(x)
               v == Y(y)
    <3>1. id \in 0..(d * d - 1)
      <4> HIDE DEF d
      <4>1. QED
        BY <1>1, PairBelow
    <3>2. id % d = x /\ id \div d = y
      <4> HIDE DEF d
      <4>1. QED
        BY <1>1, ColumnAndRow
    <3>3. u + d * v = id
      <4> HIDE DEF id
      <4>1. QED
        BY <1>2, <1>4, <3>1, <3>2
    <3>4. u \in 0..(d - 1) /\ v \in 0..(d - 1)
      <4>1. ASSUME NEW w \in Nat, NEW t \in 0..(d - 1)
            PROVE  Tile(l, w, Middle(l, w, t) * Unit) \in 0..(d - 1)
        <5> DEFINE m == Middle(l, w, t)
        <5>1. m \in 0..w
          BY MiddleIs
        <5> HIDE DEF m
        <5>2. m * Unit \in 0..w * Unit
          BY <5>1, GridIs
        <5>3. QED
          BY <5>2, TileIs DEF m
      <4>2. QED
        BY <4>1, GridIs
    <3> HIDE DEF d, u, v
    <3>5. (u + d * v) % d = u /\ (u + d * v) \div d = v
      BY <1>1, <3>4, ColumnAndRow
    <3>6. QED
      BY <3>2, <3>3, <3>5 DEF u, v
  <2>2. 0 \in 0..(d - 1)
    BY <1>1
  <2>3. \A t \in 0..(d - 1) : X(t) = t /\ Y(t) = t
    BY <2>1
  <2>4. QED
    BY <2>3, GridIs, MiddlesApart
<1>5. QED
  BY <1>3, <1>4

\* The tile of the level above has twice the width.
LEMMA TilesNest ==
  ASSUME NEW l \in 1..NumLevels, l + 1 \in 1..NumLevels, NEW w \in Nat, NEW z \in 0..w * Unit
  PROVE  Tile(l, w, z) = Tile(l + 1, w, z) \div 2
<1> DEFINE m == l + 1
           e == 2^m
           d == 2^l
           s == w * Unit
<1>1. d \in Nat \ {0} /\ e = 2 * d /\ s \in Nat /\ z \in Nat /\ m \in 1..NumLevels
  BY DivisionsOf, Doubles, GridIs
<1>2. PICK k \in 0..(e - 1) : (s * k < z * e \/ k = 0) /\ z * e <= s * (k + 1)
  <2> HIDE DEF m
  <2>1. \E k \in 0..(2^m - 1) : (w * Unit * k < z * 2^m \/ k = 0) /\ z * 2^m <= w * Unit * (k + 1)
    BY <1>1, TileBounds
  <2>2. QED
    BY <2>1
<1> DEFINE q == k \div 2
<1> HIDE DEF e, d, s
<1>3. q \in Nat /\ (k = 2 * q \/ k = 2 * q + 1)
  BY <1>1, <1>2
<1> HIDE DEF q
<1>4. q \in 0..(d - 1)
  BY <1>1, <1>2, <1>3
<1>5. 2 * (s * q) <= s * k /\ s * (k + 1) <= 2 * (s * (q + 1))
  <2>1. s * (2 * q) <= s * k /\ s * (k + 1) <= s * (2 * (q + 1))
    BY <1>1, <1>2, <1>3
  <2>2. s * (2 * q) = 2 * (s * q) /\ s * (2 * (q + 1)) = 2 * (s * (q + 1))
    BY <1>1, <1>3
  <2>3. QED
    BY <2>1, <2>2
<1>6. z * e = 2 * (z * d) /\ z * d \in Nat
  BY <1>1
<1>7. s * k \in Nat /\ s * (k + 1) \in Nat /\ s * q \in Nat /\ s * (q + 1) \in Nat
  BY <1>1, <1>2, <1>3
<1>8. (s * q < z * d \/ q = 0) /\ z * d <= s * (q + 1)
  BY <1>2, <1>3, <1>5, <1>6, <1>7
<1>9. Tile(l, w, z) = q
  BY <1>1, <1>4, <1>8, TileHolds DEF d, s
<1>10. Tile(m, w, z) = k
  <2> HIDE DEF m
  <2>1. QED
    BY <1>1, <1>2, TileHolds DEF e, s
<1>11. QED
  BY <1>9, <1>10 DEF q

\* The cluster of level l that a cluster of the next level is a quarter of: 0, 1, 4 and 5 of level 2 make 0
\* of level 1.
Whole(l, id) == (id % 2^(l + 1)) \div 2 + 2^l * ((id \div 2^(l + 1)) \div 2)

\* Clusters nest: a node's cluster of one level lies in its cluster of the level above, whichever place the
\* node has and on which border of a cluster.  bfrd keeps a node's clusters in one array (g_bfr.clusterIds)
\* and sends the filter of one to the cluster above it on this understanding.
THEOREM ClustersNest ==
  ASSUME NEW l \in 1..NumLevels, l + 1 \in 1..NumLevels, NEW place \in (0..Width * Unit) \X (0..Height * Unit)
  PROVE  ClusterAt(l, place) = Whole(l, ClusterAt(l + 1, place))
<1> DEFINE m == l + 1
           e == 2^m
           x == Tile(m, Width, place[1])
           y == Tile(m, Height, place[2])
           id == ClusterAt(m, place)
<1>1. place[1] \in 0..Width * Unit /\ place[2] \in 0..Height * Unit
  OBVIOUS
<1>2. x \in 0..(e - 1) /\ y \in 0..(e - 1) /\ e \in Nat \ {0}
  BY <1>1, GridIs, TileIs, DivisionsOf
<1>3. id = x + e * y
  BY DEF ClusterAt
<1>4. Tile(l, Width, place[1]) = x \div 2 /\ Tile(l, Height, place[2]) = y \div 2
  BY <1>1, GridIs, TilesNest
<1> HIDE DEF x, y, id, e
<1>5. id % e = x /\ id \div e = y
  BY <1>2, <1>3, ColumnAndRow
<1>6. ClusterAt(l, place) = (id % e) \div 2 + 2^l * ((id \div e) \div 2)
  BY <1>4, <1>5 DEF ClusterAt
<1>7. QED
  BY <1>6 DEF Whole, e, id

\* What converting a cluster to the level above is for: on a grid wide and high enough for the cluster's
\* level its centre, rounded as it is, lies in the cluster that it is a quarter of.
THEOREM CenterInWhole ==
  ASSUME NEW l \in 1..NumLevels, l + 1 \in 1..NumLevels, NEW id \in 0..(2^(l + 1) * 2^(l + 1) - 1),
         Width >= 2^(l + 1) - 1, Height >= 2^(l + 1) - 1
  PROVE  ClusterAt(l, Center(l + 1, id)) = Whole(l, id)
<1> DEFINE m == l + 1
<1>1. m \in 1..NumLevels /\ id \in 0..(2^m * 2^m - 1) /\ Width >= 2^m - 1 /\ Height >= 2^m - 1
  OBVIOUS
<1>2. Center(m, id) \in (0..Width * Unit) \X (0..Height * Unit) /\ ClusterAt(m, Center(m, id)) = id
  <2> HIDE DEF m
  <2>1. QED
    BY <1>1, CenterIs, CenterInCluster
<1>3. ClusterAt(l, Center(m, id)) = Whole(l, ClusterAt(m, Center(m, id)))
  BY <1>2, ClustersNest
<1>4. QED
  BY <1>2, <1>3

\* The cluster at the grid's centre, which a node that heads its clusters of every level asks when no filter
\* matches, is always 0: the centre is a corner of the four, and a border belongs to the tile before it.
\* Only from cluster 0 does such a node ask another one, 1.
THEOREM HeadOfAllAsks ==
  ASSUME NEW n \in Nodes
  PROVE  CenterCluster(n) = IF Own(n, 1) = <<1, 0>> THEN <<1, 1>> ELSE <<1, 0>>
<1>1. 1 \in 1..NumLevels /\ 2^1 = 2
  BY RoutingAssumption
<1>2. ASSUME NEW w \in Nat
      PROVE  Tile(1, w, w * HalfUnit) = 0
  <2>1. /\ w * HalfUnit \in Nat /\ 0 \in 0..(2^1 - 1)
        /\ (w * HalfUnit) * 2^1 <= w * Unit * (0 + 1)
    BY <1>1, GridIs
  <2>2. QED
    BY <1>1, <2>1, TileHolds
<1>3. ClusterAt(1, <<Width * HalfUnit, Height * HalfUnit>>) = 0
  BY <1>1, <1>2, GridIs DEF ClusterAt
<1>4. QED
  BY <1>3 DEF CenterCluster
=============================================================================
