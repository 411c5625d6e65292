------------------------------ MODULE BfrDaemon ------------------------------
(***************************************************************************)
(* The threads of the routing daemon that pass messages on: the network    *)
(* and the IPC listener, the main loop of bfrd_main.c, and the strategy    *)
(* service of strategy.c, which also elects the head of the node's         *)
(* clusters (cluster()).                                                   *)
(*                                                                         *)
(* The queues' own locks, bfrd_mutex and _strategy.lock are held for one   *)
(* step.  bfr_lock is not: cluster() keeps it while it sleeps between the  *)
(* join it broadcasts and the responses it then looks for.                 *)
(***************************************************************************)
EXTENDS Integers, Sequences, SequencesExt

CONSTANTS Me,           \* g_bfr.nodeId
          NumLevels,    \* g_bfr.num_levels; clusters of this level are the leaves
          Positions,    \* positions of the node
          Start,        \* the position the daemon is started with
          ClusterOf,    \* ClusterOf[l, p]: grid_cluster
          Packets,      \* what a neighbour's packet can hold
          Requests,     \* what a message on the domain socket can hold
          MaxAttempts,  \* JOIN_MAX_ATTEMPTS
          MaxPackets,   \* bound: packets received
          MaxRequests,  \* bound: messages received on the domain socket
          None          \* no message, no join

Levels == 1..NumLevels

\* The entries of q that are in S, in their order.
Among(q, S) ==
    LET among[n \in 0..Len(q)] ==
            IF n = 0 THEN <<>>
            ELSE IF q[n] \in S THEN Append(among[n - 1], q[n]) ELSE among[n - 1]
    IN  among[Len(q)]

Packet == [type : {"bloom", "join", "pill", "other"}]
          \cup [type : {"response"}, level : Levels, cluster : Nat, head : Nat]
Request == [type : {"location"}, position : Positions]
           \cup [type : {"distance", "short", "other"}]

ASSUME DaemonAssumption ==
    /\ Me \in Nat
    /\ NumLevels \in Nat \ {0} /\ MaxAttempts \in Nat \ {0}
    /\ Start \in Positions
    /\ ClusterOf \in [Levels \X Positions -> Nat]
    /\ Packets \subseteq Packet /\ Requests \subseteq Request
    /\ MaxPackets \in Nat /\ MaxRequests \in Nat

VARIABLES received,    \* packets the network listener has queued, from the first one on
          requests,    \* how many messages the IPC listener has queued
          notifying,   \* the listeners that have yet to signal main
          netQ, ipcQ,  \* the listeners' queues
          main,        \* where the main thread is
          held,        \* the message it is passing on
          position,    \* g_bfr.x, g_bfr.y
          clusterIds,  \* g_bfr.clusterIds
          strategy,    \* where the strategy thread is
          todo,        \* what it has yet to do: levels to cluster, BloomEvent, LookAtQueue
          routeQ,      \* _strategy.route_msg_q
          handled,     \* messages the strategy thread has dealt with, in order
          join,        \* cluster()'s join message
          attempt,     \* cluster()'s attempts
          responses,   \* cluster_responses
          candidate,   \* the head cluster() has found, and whether it was told
          leafCluster, \* g_bfr.leaf_cluster.id
          heads        \* the levels whose is_cluster_head bit is set

listenVars == <<received, requests, notifying>>
mainVars == <<main, held>>
gridVars == <<position, clusterIds>>
clusterVars == <<join, attempt, responses, candidate, leafCluster, heads>>
vars == <<received, requests, notifying, netQ, ipcQ, main, held, position, clusterIds, strategy, todo,
          routeQ, handled, join, attempt, responses, candidate, leafCluster, heads>>

Listeners == {"net", "ipc"}

BloomEvent == 0
LookAtQueue == NumLevels + 1

\* A queued message carries the number of its arrival.
Numbered(S) == [id : Nat \ {0}, body : S]
Messages == Numbered(Packets)
Responses == Numbered({p \in Packets : p.type = "response"})

TypeOK ==
    /\ received \in Seq(Messages)
    /\ requests \in Nat
    /\ notifying \subseteq Listeners
    /\ netQ \in Seq(Messages)
    /\ ipcQ \in Seq(Numbered(Requests))
    /\ main \in {"loop", "waiting", "net", "pass", "ipc", "locate"}
    /\ held \in Messages \cup Numbered(Requests) \cup {None}
    /\ position \in Positions
    /\ clusterIds \in [Levels -> Nat]
    /\ strategy \in {"events", "backoff", "listen", "pick", "found", "loop", "waiting", "woken",
                     "drain"}
    /\ todo \in Seq(0..NumLevels + 1)
    /\ routeQ \in Seq(Messages)
    /\ handled \in Seq(Messages)
    /\ join \in [level : Levels, cluster : Nat] \cup {None}
    /\ attempt \in 0..MaxAttempts
    /\ responses \in Seq(Messages)
    /\ candidate \in [head : Nat, told : BOOLEAN]
    /\ leafCluster \in Nat
    /\ heads \subseteq Levels

\* A node is its own head until it is told of another.
Myself == [head |-> Me, told |-> FALSE]

\* bfr_init, strategy_init and the calls before the strategy thread's loop: bloom(),
\* then cluster() from the leaves up.
Init ==
    /\ received = <<>>
    /\ requests = 0
    /\ notifying = {}
    /\ netQ = <<>> /\ ipcQ = <<>>
    /\ main = "loop" /\ held = None
    /\ position = Start
    /\ clusterIds = [l \in Levels |-> ClusterOf[<<l, Start>>]]
    /\ strategy = "events"
    /\ todo = <<BloomEvent>> \o [i \in Levels |-> NumLevels + 1 - i]
    /\ routeQ = <<>> /\ handled = <<>>
    /\ join = None /\ attempt = 0
    /\ responses = <<>>
    /\ candidate = Myself
    /\ leafCluster = 0
    /\ heads = {}

\* cluster() holds bfr_lock; every other holder lets go of it within a step.
BfrLocked == strategy \in {"listen", "pick", "found"}

-----------------------------------------------------------------------------
(* The listeners.                                                          *)

ReceivePacket ==
    /\ "net" \notin notifying /\ Len(received) < MaxPackets
    /\ \E p \in Packets :
          LET m == [id |-> Len(received) + 1, body |-> p] IN
          netQ' = Append(netQ, m) /\ received' = Append(received, m)
    /\ notifying' = notifying \cup {"net"}
    /\ UNCHANGED <<requests, ipcQ, mainVars, gridVars, strategy, todo, routeQ, handled, clusterVars>>

ReceiveRequest ==
    /\ "ipc" \notin notifying /\ requests < MaxRequests
    /\ \E r \in Requests : ipcQ' = Append(ipcQ, [id |-> requests + 1, body |-> r])
    /\ requests' = requests + 1
    /\ notifying' = notifying \cup {"ipc"}
    /\ UNCHANGED <<received, netQ, mainVars, gridVars, strategy, todo, routeQ, handled, clusterVars>>

\* pthread_cond_signal: nothing remembers it if main is not waiting.
Notify(l) ==
    /\ l \in notifying
    /\ notifying' = notifying \ {l}
    /\ main' = IF main = "waiting" THEN "net" ELSE main
    /\ UNCHANGED <<received, requests, netQ, ipcQ, held, gridVars, strategy, todo, routeQ, handled,
                   clusterVars>>

-----------------------------------------------------------------------------
(* The main loop.                                                          *)

MainStep(before, after) ==
    /\ main = before /\ main' = after

Wait ==
    /\ MainStep("loop", "waiting")
    /\ UNCHANGED <<listenVars, netQ, ipcQ, held, gridVars, strategy, todo, routeQ, handled,
                   clusterVars>>

SpuriousWakeup ==
    /\ MainStep("waiting", "net")
    /\ UNCHANGED <<listenVars, netQ, ipcQ, held, gridVars, strategy, todo, routeQ, handled,
                   clusterVars>>

IsRouting(p) == p.type \in {"bloom", "join", "response", "pill"}

\* bfr_handle_net on the message at the head of its queue: the strategy layer gets
\* routing messages, others and a node's own are freed.
TakePacket ==
    /\ main = "net" /\ netQ # <<>>
    /\ netQ' = Tail(netQ)
    /\ \/ /\ IsRouting(Head(netQ).body)
          /\ held' = Head(netQ)
          /\ main' = "pass"
       \/ /\ ~IsRouting(Head(netQ).body)
          /\ UNCHANGED mainVars
    /\ UNCHANGED <<listenVars, ipcQ, gridVars, strategy, todo, routeQ, handled, clusterVars>>

\* Mutant of PassMessage: the message overtakes the ones that wait.
PassMessageFirst ==
    /\ MainStep("pass", "net")
    /\ routeQ' = <<held>> \o routeQ
    /\ held' = None
    /\ strategy' = IF strategy = "waiting" THEN "woken" ELSE strategy
    /\ UNCHANGED <<listenVars, netQ, ipcQ, gridVars, todo, handled, clusterVars>>

\* strategy_passMsg.
PassMessage ==
    /\ MainStep("pass", "net")
    /\ routeQ' = Append(routeQ, held)
    /\ held' = None
    /\ strategy' = IF strategy = "waiting" THEN "woken" ELSE strategy
    /\ UNCHANGED <<listenVars, netQ, ipcQ, gridVars, todo, handled, clusterVars>>

NetDrained ==
    /\ MainStep("net", "ipc")
    /\ netQ = <<>>
    /\ UNCHANGED <<listenVars, netQ, ipcQ, held, gridVars, strategy, todo, routeQ, handled,
                   clusterVars>>

\* bfr_handle_ipc on the message at the head of its queue: a location that is too
\* short makes it return, a good one has it lock bfr_lock; a distance goes to the
\* distance table.
TakeRequest ==
    /\ main = "ipc" /\ ipcQ # <<>>
    /\ ipcQ' = Tail(ipcQ)
    /\ LET type == Head(ipcQ).body.type IN
       \/ type = "location" /\ main' = "locate" /\ held' = Head(ipcQ)
       \/ type = "short" /\ main' = "loop" /\ UNCHANGED held
       \/ type \in {"distance", "other"} /\ UNCHANGED mainVars
    /\ UNCHANGED <<listenVars, netQ, gridVars, strategy, todo, routeQ, handled, clusterVars>>

\* Mutant of Relocate: the main thread leaves the other messages to the next wakeup.
RelocateAndWait ==
    /\ MainStep("locate", "loop")
    /\ ~BfrLocked
    /\ position' = held.body.position
    /\ clusterIds' = [l \in Levels |-> ClusterOf[<<l, held.body.position>>]]
    /\ held' = None
    /\ UNCHANGED <<listenVars, netQ, ipcQ, strategy, todo, routeQ, handled, clusterVars>>

\* The location update under bfr_lock.
Relocate ==
    /\ MainStep("locate", "ipc")
    /\ ~BfrLocked
    /\ position' = held.body.position
    /\ clusterIds' = [l \in Levels |-> ClusterOf[<<l, held.body.position>>]]
    /\ held' = None
    /\ UNCHANGED <<listenVars, netQ, ipcQ, strategy, todo, routeQ, handled, clusterVars>>

IpcDrained ==
    /\ MainStep("ipc", "loop")
    /\ ipcQ = <<>>
    /\ UNCHANGED <<listenVars, netQ, ipcQ, held, gridVars, strategy, todo, routeQ, handled,
                   clusterVars>>

-----------------------------------------------------------------------------
(* The strategy service.                                                   *)

StrategyStep(before, after) ==
    /\ strategy = before /\ strategy' = after

daemonVars == <<listenVars, netQ, ipcQ, mainVars, gridVars>>

\* At the top of the loop no message is at hand: wait, for a signal or for the next
\* event, without a look at the queue.
StrategyWait ==
    /\ StrategyStep("loop", "waiting")
    /\ UNCHANGED <<daemonVars, todo, routeQ, handled, clusterVars>>

\* Takes the message at the head of route_msg_q if there is one.
NextMessage ==
    /\ handled' = IF routeQ = <<>> THEN handled ELSE Append(handled, Head(routeQ))
    /\ routeQ' = IF routeQ = <<>> THEN routeQ ELSE Tail(routeQ)

\* Back from the wait with a signal, or without one: without a message wait again.
StrategyWoken ==
    /\ strategy = "woken"
    /\ strategy' = IF routeQ = <<>> THEN "waiting" ELSE "drain"
    /\ NextMessage
    /\ UNCHANGED <<daemonVars, todo, clusterVars>>

StrategySpurious ==
    /\ StrategyStep("waiting", "woken")
    /\ UNCHANGED <<daemonVars, todo, routeQ, handled, clusterVars>>

\* Mutant of DueEvents: the queue is not looked at after a timeout.
DueEventsOnly(due, last) == Among([l \in Levels |-> l], due) \o last

\* cluster() at the levels that are due, from the top down, then bloom() if it is due;
\* "check if we got any messages as well" is last.
DueEvents(due, last) == Among([l \in Levels |-> l], due) \o last \o <<LookAtQueue>>

\* The wait for the next event times out.
StrategyTimeout ==
    /\ StrategyStep("waiting", "events")
    /\ \E due \in SUBSET Levels, last \in {<<>>, <<BloomEvent>>} : todo' = DueEvents(due, last)
    /\ UNCHANGED <<daemonVars, routeQ, handled, clusterVars>>

NextEvent(event) ==
    /\ strategy = "events" /\ todo # <<>> /\ Head(todo) = event
    /\ todo' = Tail(todo)

\* bloom() needs bfr_lock, which nobody can hold while the strategy thread does not.
\* Its filters are not modelled.
Bloom ==
    /\ NextEvent(BloomEvent)
    /\ UNCHANGED <<daemonVars, strategy, routeQ, handled, clusterVars>>

LookAt ==
    /\ NextEvent(LookAtQueue)
    /\ strategy' = IF routeQ = <<>> THEN "loop" ELSE "drain"
    /\ NextMessage
    /\ UNCHANGED <<daemonVars, clusterVars>>

\* The calls before the loop are not followed by a look at the queue.
Started ==
    /\ StrategyStep("events", "loop")
    /\ todo = <<>>
    /\ UNCHANGED <<daemonVars, todo, routeQ, handled, clusterVars>>

\* The rest of the messages, one by one; handled stands for what is done with each.
Drain ==
    /\ strategy = "drain"
    /\ strategy' = IF routeQ = <<>> THEN "loop" ELSE "drain"
    /\ NextMessage
    /\ UNCHANGED <<daemonVars, todo, clusterVars>>

-----------------------------------------------------------------------------
(* cluster().                                                              *)

\* The join message is made out before the backoff and before bfr_lock is taken.
BeginCluster ==
    /\ \E level \in Levels :
          /\ NextEvent(level)
          /\ join' = [level |-> level, cluster |-> clusterIds[level]]
    /\ strategy' = "backoff"
    /\ UNCHANGED <<daemonVars, routeQ, handled, attempt, responses, candidate, leafCluster,
                   heads>>

\* After the backoff: lock bfr_lock and broadcast the join.
BroadcastJoin ==
    /\ StrategyStep("backoff", "listen")
    /\ UNCHANGED <<daemonVars, todo, routeQ, handled, clusterVars>>

\* Mutant of FilterMessages: the saved messages are put back in reverse.
FilterMessagesReversed ==
    /\ responses' = responses \o Among(routeQ, Responses)
    /\ routeQ' = Reverse(Among(routeQ, Messages \ Responses))

\* filter_msgs: takes the responses out of the queue.
FilterMessages ==
    /\ responses' = responses \o Among(routeQ, Responses)
    /\ routeQ' = Among(routeQ, Messages \ Responses)

\* Mutant of AttemptOver: attempts that are not counted.

AttemptUncounted(n) ==
    /\ UNCHANGED attempt
    /\ strategy' = IF attempt = MaxAttempts THEN "found" ELSE "listen"

\* An attempt without a response is the last, or the join is sent again.
AttemptOver(n) ==
    /\ attempt' = n
    /\ strategy' = IF n = MaxAttempts THEN "found" ELSE "listen"

\* The wait for responses is over.
Listen ==
    /\ strategy = "listen"
    /\ FilterMessages
    /\ \/ /\ responses' # <<>>
          /\ strategy' = "pick"
          /\ UNCHANGED attempt
       \/ /\ responses' = <<>>
          /\ AttemptOver(attempt + 1)
    /\ UNCHANGED <<daemonVars, todo, handled, join, candidate, leafCluster, heads>>

Pertains(p) ==
    /\ p.type = "response"
    /\ p.level = join.level /\ p.cluster = join.cluster

\* Mutant of Accepts: the cluster a response is about is not compared.
AcceptsAny(p, c) == p.level = join.level /\ (c.told => p.cluster < c.head)

\* After the first head, candidate_id holds a node's id and not a cluster's.
Accepts(p, c) == Pertains(p) /\ (c.told => p.cluster < c.head)

\* Responses that pertain name the candidate; the others go back to route_msg_q.
Consider(state, m) ==
    IF Accepts(m.body, state.candidate)
    THEN [state EXCEPT !.candidate = [head |-> m.body.head, told |-> TRUE]]
    ELSE [state EXCEPT !.queue = Append(@, m)]

\* The loop counts up to a length that it makes shorter: it sees half of the
\* responses, rounded up.  The rest is deleted when cluster() has found a head.
Pick ==
    LET seen == (Len(responses) + 1) \div 2
        considered[n \in 0..seen] ==
            IF n = 0 THEN [candidate |-> candidate, queue |-> routeQ]
            ELSE Consider(considered[n - 1], responses[n])
    IN
    /\ strategy = "pick"
    /\ candidate' = considered[seen].candidate
    /\ routeQ' = considered[seen].queue
    /\ responses' = SubSeq(responses, seen + 1, Len(responses))
    /\ \/ /\ candidate'.told
          /\ strategy' = "found"
          /\ UNCHANGED attempt
       \/ /\ ~candidate'.told
          /\ AttemptOver(attempt + 1)
    /\ UNCHANGED <<daemonVars, todo, handled, join, leafCluster, heads>>

\* The head is recorded, bfr_lock unlocked and what is left of the responses deleted.
Elect ==
    /\ StrategyStep("found", "events")
    /\ leafCluster' = IF join.level = NumLevels THEN join.cluster ELSE leafCluster
    /\ heads' = IF candidate.head = Me THEN heads \cup {join.level} ELSE heads \ {join.level}
    /\ join' = None /\ attempt' = 0 /\ responses' = <<>> /\ candidate' = Myself
    /\ UNCHANGED <<daemonVars, todo, routeQ, handled>>

-----------------------------------------------------------------------------

MainNext ==
    \/ Wait \/ TakePacket \/ PassMessage \/ NetDrained
    \/ TakeRequest \/ Relocate \/ IpcDrained

StrategyNext ==
    \/ StrategyWait \/ StrategyWoken \/ Bloom \/ LookAt \/ Started \/ Drain
    \/ BeginCluster \/ BroadcastJoin \/ Listen \/ Pick \/ Elect

Next ==
    \/ ReceivePacket \/ ReceiveRequest
    \/ \E l \in Listeners : Notify(l)
    \/ MainNext \/ SpuriousWakeup
    \/ StrategyNext \/ StrategySpurious \/ StrategyTimeout

Spec == Init /\ [][Next]_vars

\* Threads run; the strategy thread's wait times out, as it has a deadline; bfr_lock
\* is not kept for ever from a thread that waits for it, however often cluster()
\* takes it.  No message has to come and no wakeup is spurious by fairness.
Fairness ==
    /\ \A l \in Listeners : WF_vars(Notify(l))
    /\ WF_vars(MainNext) /\ SF_vars(Relocate)
    /\ WF_vars(StrategyNext) /\ WF_vars(StrategyTimeout)

FairSpec == Spec /\ Fairness

-----------------------------------------------------------------------------
(* Properties.                                                             *)

Ids(q) == {q[i].id : i \in DOMAIN q}
Kept(q) == Among(q, {m \in Messages \ Responses : IsRouting(m.body)})

\* Bloom filter updates, joins and pills go through both queues in the order they
\* came in, none lost and none twice, whatever cluster() takes out of the second
\* queue and puts back into it meanwhile.
PassedInOrder ==
    LET passing == IF main = "pass" THEN <<held>> ELSE <<>>
    IN  Kept(handled \o routeQ \o passing \o netQ) = Kept(received)

\* What holds of the queues and of the threads that work on them.
QueueInv == TypeOK /\ PassedInOrder

\* A head that cluster() was told of is one that some neighbour named in a response
\* about the very cluster the node asked to join.
HeadWasNamed ==
    candidate.told /\ join # None =>
        \E i \in DOMAIN received :
            Pertains(received[i].body) /\ received[i].body.head = candidate.head

\* Whatever is in a queue when the main thread wakes up is taken out of it, with the
\* elections going on that keep bfr_lock from the main thread.
WokenHandles ==
    /\ \A i \in 1..MaxPackets :
          main = "net" /\ i \in Ids(netQ) ~> i \notin Ids(netQ)
    /\ \A i \in 1..MaxRequests :
          main = "net" /\ i \in Ids(ipcQ) ~> i \notin Ids(ipcQ)

\* A message passed to the strategy layer does not stay in its queue, also if the
\* strategy thread missed the signal: the next timeout finds it.
PassedIsHandled == \A i \in 1..MaxPackets : i \in Ids(routeQ) ~> i \notin Ids(routeQ)

\* cluster() comes to an end and gives bfr_lock back, with responses or without.
ElectionEnds == strategy = "backoff" ~> strategy = "events"
=============================================================================
