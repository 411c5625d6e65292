--------------------------- MODULE InterestRouting ---------------------------
(***************************************************************************)
(* How an interest finds content and the content its way back: the packet  *)
(* pipelines of several ccnud (handle_interest, handle_data), the          *)
(* applications' ccnudnb_express_interest, and the answers of each node's  *)
(* bfrd (dest_query_response, fwd_query_response) from its position, its   *)
(* cluster tables and its distance table.                                  *)
(*                                                                         *)
(* One name, not segmented, is asked for; stores keep it.  A table's       *)
(* operations are atomic here (Pit looks into them); nodes and what they   *)
(* know of other clusters stay as they are (FilterFlood changes it).       *)
(***************************************************************************)
EXTENDS Integers, FiniteSets

CONSTANTS Nodes,
          Hears,         \* Hears[n]: the nodes that n's broadcasts can reach
          Askers,        \* nodes with an application that asks for the name
          Publisher,     \* the publisher_id in the content's packets
          Holders,       \* nodes that have the content from the start
          Width, Height, \* the grid's, in its units
          HalfUnit,      \* places are counted in parts: so many are half a unit
          NumLevels,     \* g_bfr.num_levels
          Place,         \* Place[n]: g_bfr.x and y
          Heads,         \* Heads[n]: the levels whose bit is set in is_cluster_head
          Known,         \* Known[n][c]: components of the name that the filter n
                         \* keeps for cluster c matches
          HopsRead,      \* what dtab_getHops may find in an entry that is in use
          MaxHops,       \* MAX_HOPS of bfrd
          Pipeline,      \* threads of packet_pipeline
          NumSlots,      \* PIT_SIZE
          Timeout,       \* g_timeout_ms, in ticks of the clock
          Lifetime,      \* PIT_LIFETIME_MS
          Attempts,      \* g_interest_attempts
          MaxAsks,       \* bound: calls of each application
          MaxTime        \* bound: the clock stops here

ASSUME RoutingAssumption ==
    /\ Hears \in [Nodes -> SUBSET Nodes]
    /\ Askers \subseteq Nodes /\ Publisher \in Nodes /\ Holders \subseteq Nodes
    /\ NumLevels \in 1..8      \* a packet has 16 bits for a cluster's number
    /\ Width \in Nat /\ Height \in Nat /\ HalfUnit \in Nat \ {0}
    /\ Place \in [Nodes -> (0..Width * (2 * HalfUnit)) \X (0..Height * (2 * HalfUnit))]
    /\ Heads \in [Nodes -> SUBSET (1..NumLevels)]
    /\ HopsRead \subseteq Int
    /\ MaxHops \in Nat /\ Pipeline \in Nat /\ NumSlots \in Nat
    /\ Timeout \in Nat /\ Lifetime \in Nat
    /\ Attempts \in Nat \ {0}    \* with none a call sends nothing
    /\ MaxAsks \in Nat /\ MaxTime \in Nat \ {0}

VARIABLES now,      \* the clock
          net,      \* packets on their way, one for each node they can reach
          pit,      \* pit[n]: the entries for the name in n's g_pit.pit_table
          store,    \* the nodes whose content store has the content
          jobs,     \* handle_interest under way: a packet, and what is left to do
          app,      \* app[n]: n's ccnudnb_express_interest
          asks,     \* asks[n]: how many calls n's application has made
          inUse     \* the nodes whose distance table has the name's entry in use

vars == <<now, net, pit, store, jobs, app, asks, inUse>>

Slots == 1..NumSlots
\* A level divides both sides of the grid by two once more.
Clusters == UNION {{l} \X (0..2^l * 2^l - 1) : l \in 1..NumLevels}

-----------------------------------------------------------------------------
(* The grid.                                                               *)

\* The whole part of a square root: all that the comparison of distances sees.
Root(k) == CHOOSE r \in 0..k : r * r <= k /\ k < (r + 1) * (r + 1)

Unit == 2 * HalfUnit

\* The upper border of the t-th of the 2^l tiles that a side w is divided into is at
\* w * (t + 1) / 2^l units.
Tile(l, w, z) == Cardinality({t \in 0..2^l - 1 : z * 2^l > w * Unit * (t + 1)})

\* grid_cluster
ClusterAt(l, place) == Tile(l, Width, place[1]) + 2^l * Tile(l, Height, place[2])

\* The middle of the t-th tile, rounded to units, halves upwards.
Middle(l, w, t) == (w * (2 * t + 1) + 2^l) \div 2^(l + 1)

\* grid_center
Center(l, id) ==
    <<Middle(l, Width, id % 2^l) * Unit, Middle(l, Height, id \div 2^l) * Unit>>

\* grid_distance, in whole units
Distance(l, id, place) ==
    LET dx == place[1] - Center(l, id)[1]
        dy == place[2] - Center(l, id)[2]
    IN Root(dx * dx + dy * dy) \div Unit

Own(n, l) == <<l, ClusterAt(l, Place[n])>>
Leaf(n) == Own(n, NumLevels)

Largest(S) == CHOOSE k \in S : \A j \in S : j <= k
Smallest(S) == CHOOSE k \in S : \A j \in S : k <= j

-----------------------------------------------------------------------------
(* bfrd.                                                                   *)

\* clus_findCluster: the smallest clusters of those that match most of the name; which
\* of them is first in its list is left open.
Found(n) ==
    LET longest == Largest({Known[n][c] : c \in Clusters})
        matching == {c \in Clusters : Known[n][c] = longest}
    IN IF longest = 0 THEN {}
       ELSE {c \in matching : \A d \in matching : d[1] <= c[1]}

\* With no cluster found, one level decides, the last one looked at: the node's own
\* cluster that it is not the head of.
Undecided(n) == {i \in 2..NumLevels : {i, i - 1} \subseteq Heads[n]}
DefaultLevel(n) ==
    LET i == Smallest(2..NumLevels \ Undecided(n)) IN IF i \in Heads[n] THEN i - 1 ELSE i

\* The head of all of them asks the cluster at the grid's centre, or the one next to it.
CenterCluster(n) ==
    LET c == ClusterAt(1, <<Width * HalfUnit, Height * HalfUnit>>) IN
    IF <<1, c>> # Own(n, 1) THEN <<1, c>>
    ELSE IF c % 2 = 0 THEN <<1, c + 1>> ELSE <<1, c - 1>>

DefaultDest(n) ==
    IF 2..NumLevels \ Undecided(n) = {} THEN CenterCluster(n) ELSE Own(n, DefaultLevel(n))

\* dest_query_response
Dests(n) == IF Found(n) # {} THEN Found(n) ELSE {DefaultDest(n)}

\* dtab_getHops.  The hops and the time an entry expires are never written: what is
\* read is what the memory holds.
Hops(n, used) == IF n \in used THEN {-1} \cup HopsRead ELSE {-1}

Abs(k) == IF k < 0 THEN -k ELSE k

\* The distance that dest_query_response gives: to a node's own leaf, if a filter says that
\* the content is there, the number of hops with a minus sign.
DestDistance(n, dest, hops) ==
    IF Found(n) # {} /\ dest = Leaf(n) THEN -Abs(hops)
    ELSE Distance(dest[1], dest[2], Place[n])

\* For its own leaf a node's distance counts hops, with a minus sign; for any cluster
\* it is taken at the leaves' level.
MyDistance(n, m, hops) ==
    IF m.dest = Leaf(n)
    THEN IF hops < 0 THEN -MaxHops ELSE -hops
    ELSE Distance(NumLevels, m.dest[2], Place[n])

Intra(m) == m.dest = m.orig

\* Interests are flooded in a leaf where the way is not known.
Closer(n, m, hops) ==
    \/ Abs(MyDistance(n, m, hops)) < Abs(m.distance)
    \/ Intra(m) /\ MyDistance(n, m, hops) = -MaxHops

\* Mutant of Forwards: the flood of a leaf is not kept to it.
ForwardsCloser(n, m, hops) == Closer(n, m, hops)

\* fwd_query_response.  The shorter way it may know changes neither its answer nor the
\* packet.
Forwards(n, m, hops) ==
    /\ Closer(n, m, hops)
    /\ Found(n) # {} \/ ~Intra(m) \/ m.orig = Leaf(n)

-----------------------------------------------------------------------------
(* The pending interest table: its entries for the name, in their order.   *)

Free == [kind |-> "free", created |-> 0, available |-> FALSE, served |-> FALSE]
NewEntry(kind) == [kind |-> kind, created |-> now, available |-> TRUE, served |-> FALSE]

FreeSlots(n) == {s \in Slots : pit[n][s].kind = "free"}
UsedSlots(n) == {s \in Slots : pit[n][s].kind # "free"}
Expired(entry) == entry.kind # "free" /\ now > entry.created + Lifetime

\* PIT_exact_match looks at the first entry of the name only.
Match(n) ==
    {s \in UsedSlots(n) :
        /\ \A u \in UsedSlots(n) : s <= u
        /\ ~Expired(pit[n][s]) /\ pit[n][s].available}

\* evict() takes an application's entry never, and of the others the first or, by the
\* milliseconds that ticks do not show, another one of the last that were made together.
Victims(n) ==
    {v \in Slots : /\ pit[n][v].kind = "net"
                   /\ \A s \in Slots : s > v /\ pit[n][s].kind = "net"
                                         => pit[n][s].created = pit[n][v].created}

\* Where PIT_get_handle and PIT_add_entry put an entry.
EntrySlots(n) == IF FreeSlots(n) # {} THEN {Smallest(FreeSlots(n))} ELSE Victims(n)

\* Mutant of Released: the entry is closed but stays.
ReleasedNot(n, s) == [pit EXCEPT ![n][s].available = TRUE]

\* PIT_release
Released(n, s) == [pit EXCEPT ![n][s] = Free]

-----------------------------------------------------------------------------
(* Packets.                                                                *)

\* Hops with a minus sign, or a distance.
Distances == {k \in Int : k <= Width + Height}

Interest == [kind : {"interest"}, from : Nodes,
             nonce : Askers \X (1..MaxAsks) \X (1..Attempts), orig : Clusters, dest : Clusters, distance : Distances]
Data == [kind : {"data"}, from : Nodes, hops : Nat]

Broadcast(m) == [to : Hears[m.from], msg : {m}]
InterestFrom(n, nonce, dest, distance) ==
    [kind |-> "interest", from |-> n, nonce |-> nonce, orig |-> Leaf(n), dest |-> dest, distance |-> distance]
DataFrom(n, hops) == [kind |-> "data", from |-> n, hops |-> hops]

\* Neither the distance nor the time to live matters to who gets it next: the one is
\* not written back, the other never looked at.
ForwardedBy(n, m) == [m EXCEPT !.from = n]

-----------------------------------------------------------------------------

NoCall == [state |-> "idle", slot |-> 0, tries |-> 0, sent |-> 0, routed |-> FALSE,
           dest |-> <<1, 0>>, distance |-> 0]

TypeOK ==
    /\ now \in 1..MaxTime
    /\ net \subseteq [to : Nodes, msg : Interest \cup Data]
    /\ pit \in [Nodes -> [Slots -> [kind : {"free", "net", "app"}, created : 0..MaxTime,
                                    available : BOOLEAN, served : BOOLEAN]]]
    /\ store \subseteq Nodes
    /\ jobs \subseteq [at : Nodes, left : {"query", "add"}, msg : Interest]
    /\ app \in [Askers -> [state : {"idle", "waits", "has", "failed"}, slot : {0} \cup Slots,
                           tries : 0..Attempts, sent : 0..MaxTime, routed : BOOLEAN,
                           dest : Clusters, distance : Distances]]
    /\ asks \in [Askers -> 0..MaxAsks]
    /\ inUse \subseteq Nodes

Init ==
    /\ now = 1
    /\ net = {}
    /\ pit = [n \in Nodes |-> [s \in Slots |-> Free]]
    /\ store = Holders
    /\ jobs = {}
    /\ app = [n \in Askers |-> NoCall]
    /\ asks = [n \in Askers |-> 0]
    /\ inUse = {}

-----------------------------------------------------------------------------
(* Applications.                                                           *)

SurelyForwards(n, m) == \A hops \in {-1} \cup HopsRead : Forwards(n, m, hops)

\* The nodes that pass an interest on lead from the asker to one that has the content.
Routed(n, dest, distance) ==
    LET m == InterestFrom(n, <<n, 1, 1>>, dest, distance) IN
    \A S \in SUBSET Nodes :
        /\ Hears[n] \subseteq S
        /\ \A f \in S : SurelyForwards(f, m) => Hears[f] \subseteq S
        => S \cap store # {}

Send(n, call) ==
    net' = net \cup Broadcast(InterestFrom(n, <<n, asks'[n], call.tries>>, call.dest, call.distance))

\* ccnudnb_express_interest, after the content store had nothing: the destination, an
\* entry and the first interest.
Ask(n) ==
    /\ app[n].state # "waits" /\ asks[n] < MaxAsks /\ n \notin store
    /\ asks' = [asks EXCEPT ![n] = @ + 1]
    /\ \E dest \in Dests(n), hops \in Hops(n, inUse), s \in EntrySlots(n) :
          LET distance == DestDistance(n, dest, hops) IN
          /\ pit' = [pit EXCEPT ![n][s] = NewEntry("app")]
          /\ app' = [app EXCEPT ![n] =
                [state |-> "waits", slot |-> s, tries |-> 1, sent |-> now,
                 routed |-> Routed(n, dest, distance), dest |-> dest, distance |-> distance]]
    /\ Send(n, app'[n])
    /\ UNCHANGED <<now, store, jobs, inUse>>

TimedOut(n) ==
    app[n].state = "waits" /\ now >= app[n].sent + Timeout /\ ~pit[n][app[n].slot].served

\* Mutant of Retries: there is one attempt only.
RetriesOnce(n) == app[n].tries < 1

Retries(n) == app[n].tries < Attempts

Retry(n) ==
    /\ TimedOut(n) /\ Retries(n)
    /\ app' = [app EXCEPT ![n].tries = @ + 1, ![n].sent = now]
    /\ pit' = [pit EXCEPT ![n][app[n].slot].created = now]
    /\ UNCHANGED asks
    /\ Send(n, app'[n])
    /\ UNCHANGED <<now, store, jobs, inUse>>

GiveUp(n) ==
    /\ TimedOut(n) /\ ~Retries(n)
    /\ app' = [app EXCEPT ![n].state = "failed", ![n].slot = 0]
    /\ pit' = Released(n, app[n].slot)
    /\ UNCHANGED <<now, net, store, jobs, asks, inUse>>

Return(n) ==
    /\ app[n].state = "waits" /\ pit[n][app[n].slot].served
    /\ app' = [app EXCEPT ![n].state = "has", ![n].slot = 0]
    /\ pit' = Released(n, app[n].slot)
    /\ UNCHANGED <<now, net, store, jobs, asks, inUse>>

\* ccnu_publish, by an application of the publisher's.
Publish ==
    /\ store' = store \cup {Publisher}
    /\ store' # store
    /\ UNCHANGED <<now, net, pit, jobs, app, asks, inUse>>

-----------------------------------------------------------------------------
(* The pipelines.                                                          *)

Idle(n) == Cardinality({j \in jobs : j.at = n}) < Pipeline

\* An interest for a name that is waited for is sent on once the entry is old.
InterestHit(n, s, m, rest) ==
    /\ pit' = [pit EXCEPT ![n][s].created = now]
    /\ \/ /\ now - pit[n][s].created >= Timeout
          /\ net' = rest \cup Broadcast(ForwardedBy(n, m))
       \/ /\ now - pit[n][s].created < Timeout
          /\ net' = rest

\* handle_interest: a name that is not waited for is looked up in the store, and if it
\* is not there bfrd is asked.
TakeInterest(p) ==
    LET n == p.to
        rest == net \ {p}
    IN
    /\ p \in net /\ p.msg.kind = "interest" /\ Idle(n)
    /\ \/ /\ \E s \in Match(n) : InterestHit(n, s, p.msg, rest)
          /\ UNCHANGED jobs
       \/ /\ Match(n) = {} /\ n \in store
          /\ net' = rest \cup Broadcast(DataFrom(n, 1))
          /\ UNCHANGED <<pit, jobs>>
       \/ /\ Match(n) = {} /\ n \notin store
          /\ jobs' = jobs \cup {[at |-> n, left |-> "query", msg |-> p.msg]}
          /\ net' = rest
          /\ UNCHANGED pit
    /\ UNCHANGED <<now, store, app, asks, inUse>>

\* bfrd answers.  What is sent on is entered in the table afterwards.
Decide(j) ==
    /\ j \in jobs /\ j.left = "query"
    /\ \E hops \in Hops(j.at, inUse) :
          \/ /\ Forwards(j.at, j.msg, hops)
             /\ net' = net \cup Broadcast(ForwardedBy(j.at, j.msg))
             /\ jobs' = (jobs \ {j}) \cup {[j EXCEPT !.left = "add"]}
          \/ /\ ~Forwards(j.at, j.msg, hops)
             /\ jobs' = jobs \ {j}
             /\ UNCHANGED net
    /\ UNCHANGED <<now, pit, store, app, asks, inUse>>

\* Mutant of Entered: the entry is left out.
EnteredNot(n, s) == pit

\* PIT_add_entry
Entered(n, s) == [pit EXCEPT ![n][s] = NewEntry("net")]

Add(j) ==
    /\ j \in jobs /\ j.left = "add"
    /\ \E s \in EntrySlots(j.at) : pit' = Entered(j.at, s)
    /\ jobs' = jobs \ {j}
    /\ UNCHANGED <<now, net, store, app, asks, inUse>>

\* Data that nobody waits for, or that is the node's own, is dropped.
Drop(p) ==
    /\ p \in net /\ p.msg.kind = "data"
    /\ p.to = Publisher \/ (Idle(p.to) /\ Match(p.to) = {})
    /\ net' = net \ {p}
    /\ UNCHANGED <<now, pit, store, jobs, app, asks, inUse>>

\* handle_data: bfrd is told the hops, the store keeps the content, and it goes to the
\* application that waits or on to the neighbours.
TakeData(p) ==
    LET n == p.to IN
    /\ p \in net /\ p.msg.kind = "data" /\ n # Publisher /\ Idle(n)
    /\ \E s \in Match(n) :
          \/ /\ pit[n][s].kind = "app"
             /\ pit' = [pit EXCEPT ![n][s].served = TRUE, ![n][s].available = FALSE,
                                   ![n][s].created = now]
             /\ net' = net \ {p}
          \/ /\ pit[n][s].kind = "net"
             /\ net' = (net \ {p}) \cup Broadcast(DataFrom(n, p.msg.hops + 1))
             /\ pit' = Released(n, s)
    /\ inUse' = inUse \cup {n}
    /\ store' = store \cup {n}
    /\ UNCHANGED <<now, jobs, app, asks>>

\* The time between two attempts is longer than packets take on their way and in the
\* pipelines: an answer never meets a timeout here (it does in Pit).
Tick ==
    /\ now < MaxTime /\ net = {} /\ jobs = {}
    /\ \A n \in Askers : app[n].state = "waits" => ~pit[n][app[n].slot].served
    /\ now' = now + 1
    /\ UNCHANGED <<net, pit, store, jobs, app, asks, inUse>>

-----------------------------------------------------------------------------

Next ==
    \/ \E n \in Askers : Ask(n) \/ Retry(n) \/ GiveUp(n) \/ Return(n)
    \/ Publish
    \/ \E p \in net : TakeInterest(p) \/ TakeData(p) \/ Drop(p)
    \/ \E j \in jobs : Decide(j) \/ Add(j)
    \/ Tick

Spec == Init /\ [][Next]_vars

\* Packets arrive and the pipelines' threads run; one that has sent an interest on
\* enters it too.
FairSpec ==
    /\ Spec
    /\ WF_vars(\/ \E p \in net : TakeInterest(p) \/ TakeData(p) \/ Drop(p)
               \/ \E j \in jobs : Decide(j))
    /\ WF_vars(\E j \in jobs : Add(j))

-----------------------------------------------------------------------------
(* Properties.                                                             *)

\* An expired entry of the name hides the ones after it.
Hidden == \E n \in Nodes, s \in Slots : Expired(pit[n][s])

\* Some application's interest does not lead to the content.
Misled == \E n \in Askers : asks[n] > 0 /\ ~app[n].routed

\* An application that asks for content to which its interests lead gets it within its
\* attempts, in whatever order copies of interests and data are handled, if no packet is
\* lost, no earlier interest has expired and nobody else is misled: a node that waits
\* for the name drops the interests of others.
Delivered ==
    \A n \in Askers : app[n].state = "failed" /\ app[n].routed => Hidden \/ Misled

\* An application that waits has an entry of its own, which eviction spares and no other
\* packet's release takes, and no other entry is an application's: none is left behind.
EntriesKept ==
    /\ \A n \in Askers : app[n].state = "waits" <=> app[n].slot # 0
    /\ \A n \in Nodes, s \in Slots :
          /\ pit[n][s].kind = "app" <=> n \in Askers /\ app[n].slot = s
          /\ pit[n][s].served => pit[n][s].kind = "app" /\ ~pit[n][s].available

\* Data come from nodes that have the content, and whoever is given it has it in the
\* node's store: what answers one interest can answer the next.
ContentStays ==
    /\ \A p \in net : p.msg.kind = "data" => p.msg.from \in store
    /\ \A n \in Nodes, s \in Slots : pit[n][s].served => n \in store
    /\ \A n \in Askers : app[n].state = "has" => n \in store

\* What holds of the packets, the entries and the applications in every state.
RoutingInv == TypeOK /\ EntriesKept /\ ContentStays

\* The flood of a leaf that does not know the way stays in it: a node outside sends it
\* on only if it knows a cluster with the content or waits for it itself.
LeafFloodsStay ==
    [][\A p \in net' \ net :
          p.msg.kind = "interest" /\ Intra(p.msg) /\ p.msg.orig # Leaf(p.msg.from)
              => Found(p.msg.from) # {} \/ UsedSlots(p.msg.from) # {}]_net

\* Interests and data die out, although nothing is remembered of an interest but the
\* entry it leaves and nodes hear their own interests come back, while no entry expires.
TrafficEnds == <>Hidden \/ <>[](net = {} /\ jobs = {})

\* "the ttl parameter which sets how many hops an interest stays alive": it does not
\* stay alive for ever.
InterestsDie == <>[](\A p \in net : p.msg.kind # "interest")
=============================================================================
