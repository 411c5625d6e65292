-------------------------- MODULE ThreadPoolProofs --------------------------
(***************************************************************************)
(* Proofs about the thread pool, for every number of workers, clients,     *)
(* jobs and lists: nobody sleeps while there is work or a value for them.  *)
(***************************************************************************)
EXTENDS ThreadPool, FiniteSetTheorems, TLAPS

\* Jobs that are pending or that a worker has were added; so a later addition does
\* not change where their values go.
AddedInv ==
    /\ pending \in Seq(added)
    /\ \A w \in Workers : worker[w] \in {"running", "storing"} => current[w] \in added

\* Both conditions together: no sleeper misses anything.
AwakeInv == WorkHasWorker /\ ResultHasClient /\ NoSleepAfterShutdown

\* The initial state is typed, and everybody is awake in it.
LEMMA InitInv == Init => TypeOK /\ AddedInv /\ AwakeInv
<1> SUFFICES ASSUME Init
             PROVE  TypeOK /\ AddedInv /\ AwakeInv
  OBVIOUS
<1>1. <<>> \in Seq(Jobs) /\ <<>> \in Seq(added)
  OBVIOUS
<1>2. TypeOK
  BY <1>1, ListAssumption DEF Init, TypeOK
<1>3. AddedInv
  BY <1>1 DEF Init, AddedInv
<1>4. Sleepers = {} /\ \A l \in Lists : Waiters(l) = {}
  BY DEF Init, Sleepers, Waiters
<1>5. AwakeInv
  BY <1>4 DEF AwakeInv, WorkHasWorker, ResultHasClient, NoSleepAfterShutdown
<1>6. QED
  BY <1>2, <1>3, <1>5

\* What a worker that takes a job, and a client that takes a value, leave in the list.
LEMMA TailOfList ==
  ASSUME NEW S, NEW s \in Seq(S), s # <<>>
  PROVE  Tail(s) \in Seq(S) /\ Head(s) \in S /\ Len(Tail(s)) = Len(s) - 1
  OBVIOUS

\* Adding a job leaves the types as they are.
LEMMA AddJobType ==
  ASSUME TypeOK, AddedInv, NEW j \in Jobs, NEW l \in Lists \cup {NoList}, AddJob(j, l)
  PROVE  (TypeOK /\ AddedInv)'
<1>1. /\ pending' = Append(pending, j) /\ added' = added \cup {j} /\ j \notin added
      /\ listOf' = [listOf EXCEPT ![j] = l]
      /\ UNCHANGED <<pool, shutdown, current, completed, client, wants, runs, fetched>>
  BY DEF AddJob, poolVars, clientVars
<1>2. /\ worker' \in [Workers -> {"ready", "asleep", "woken", "running", "storing", "exited"}]
      /\ \A w \in Workers : worker'[w] = worker[w] \/ worker'[w] = "woken"
  BY DEF AddJob, SignalWorker, Sleepers, TypeOK
<1>3. pending' \in Seq(Jobs) /\ pending' \in Seq(added') /\ added' \subseteq Jobs
  <2>1. pending \in Seq(added \cup {j})
    BY DEF AddedInv
  <2>2. QED
    BY <1>1, <2>1 DEF TypeOK
<1>4. \A w \in Workers : worker'[w] \in {"running", "storing"} =>
         worker'[w] = worker[w] /\ current'[w] = current[w] /\ current[w] \in added
  BY <1>1, <1>2 DEF AddedInv
<1>5. AddedInv'
  BY <1>1, <1>3, <1>4 DEF AddedInv
<1>6. \A w \in Workers : worker'[w] = "storing" => listOf'[current'[w]] \in Lists
  BY <1>1, <1>4 DEF TypeOK
<1>7. TypeOK'
  BY <1>1, <1>2, <1>3, <1>4, <1>6 DEF TypeOK
<1>8. QED
  BY <1>5, <1>7

\* A worker's step leaves the types as they are.
LEMMA WorkerType ==
  ASSUME TypeOK, AddedInv, NEW w \in Workers, WorkerStep(w) \/ SpuriousWakeup(w)
  PROVE  (TypeOK /\ AddedInv)'
<1>1. CASE TakeJob(w)
  <2>1. /\ pending # <<>> /\ pending' = Tail(pending)
        /\ worker' = [worker EXCEPT ![w] = "running"]
        /\ current' = [current EXCEPT ![w] = Head(pending)]
        /\ UNCHANGED <<pool, shutdown, completed, client, wants, listOf, added, runs, fetched>>
    BY <1>1 DEF TakeJob, poolVars, clientVars
  <2>2. /\ Tail(pending) \in Seq(Jobs) /\ Tail(pending) \in Seq(added)
        /\ Head(pending) \in added /\ Head(pending) \in Jobs
    BY <2>1, TailOfList DEF TypeOK, AddedInv
  <2>3. AddedInv'
    BY <2>1, <2>2 DEF AddedInv, TypeOK
  <2>4. TypeOK'
    BY <2>1, <2>2 DEF TypeOK
  <2>5. QED
    BY <2>3, <2>4
<1>2. CASE Sleep(w) \/ SpuriousWakeup(w) \/ Exit(w)
  <2>1. /\ \E state \in {"asleep", "woken", "exited"} : worker' = [worker EXCEPT ![w] = state]
        /\ UNCHANGED <<poolVars, pending, current, completed, clientVars, listOf, added, runs,
                       fetched>>
    BY <1>2 DEF Sleep, SpuriousWakeup, Exit
  <2>2. QED
    BY <2>1 DEF poolVars, clientVars, TypeOK, AddedInv
<1>3. CASE RunJob(w)
  <2>1. /\ runs' = [runs EXCEPT ![current[w]] = runs[current[w]] + 1]
        /\ current[w] \in Jobs
        /\ UNCHANGED <<pool, shutdown, pending, completed, client, wants, listOf, added, fetched>>
    BY <1>3 DEF RunJob, poolVars, clientVars, TypeOK
  <2>2. runs' \in [Jobs -> Nat]
    BY <2>1 DEF TypeOK
  <2>3. CASE /\ listOf[current[w]] \in Lists /\ current' = current
             /\ worker' = [worker EXCEPT ![w] = "storing"]
    BY <1>3, <2>1, <2>2, <2>3 DEF RunJob, TypeOK, AddedInv
  <2>4. CASE /\ current' = [current EXCEPT ![w] = NoJob]
             /\ worker' = [worker EXCEPT ![w] = "ready"]
    BY <2>1, <2>2, <2>4 DEF TypeOK, AddedInv
  <2>5. QED
    BY <1>3, <2>3, <2>4 DEF RunJob
<1>4. CASE StoreResult(w)
  <2> DEFINE l == listOf[current[w]]
  <2>1. /\ worker' = [worker EXCEPT ![w] = "ready"]
        /\ current' = [current EXCEPT ![w] = NoJob]
        /\ UNCHANGED <<pool, shutdown, pending, wants, listOf, added, runs, fetched>>
        /\ completed' = [completed EXCEPT ![l] = Append(completed[l], current[w])]
        /\ l \in Lists /\ current[w] \in Jobs
    BY <1>4 DEF StoreResult, poolVars, TypeOK
  <2>2. /\ client' \in [Clients -> {"idle", "ready", "asleep", "woken"}]
        /\ \A c \in Clients : client'[c] # "idle" => client[c] # "idle"
    BY <1>4 DEF StoreResult, SignalClient, Waiters, TypeOK
  <2>3. completed' \in [Lists -> Seq(Jobs)]
    <3>1. Append(completed[l], current[w]) \in Seq(Jobs)
      BY <2>1 DEF TypeOK
    <3> HIDE DEF l
    <3>2. QED
      BY <2>1, <3>1 DEF TypeOK
  <2> HIDE DEF l
  <2>4. TypeOK'
    BY <2>1, <2>2, <2>3 DEF TypeOK
  <2>5. AddedInv'
    BY <2>1 DEF AddedInv, TypeOK
  <2>6. QED
    BY <2>4, <2>5
<1>5. QED
  BY <1>1, <1>2, <1>3, <1>4 DEF WorkerStep

\* So does every other step.
LEMMA NextType == TypeOK /\ AddedInv /\ [Next]_vars => (TypeOK /\ AddedInv)'
<1> SUFFICES ASSUME TypeOK, AddedInv, [Next]_vars
             PROVE  (TypeOK /\ AddedInv)'
  OBVIOUS
<1>1. ASSUME NEW c \in Clients, FetchResult(c)
      PROVE  (TypeOK /\ AddedInv)'
  <2>1. wants[c] \in Lists /\ completed[wants[c]] # <<>>
    BY <1>1 DEF FetchResult, TypeOK
  <2>2. /\ Tail(completed[wants[c]]) \in Seq(Jobs) /\ Head(completed[wants[c]]) \in Jobs
    BY <2>1, TailOfList DEF TypeOK
  <2>3. /\ fetched' = fetched \cup {Head(completed[wants[c]])}
        /\ completed' = [completed EXCEPT ![wants[c]] = Tail(completed[wants[c]])]
        /\ client' = [client EXCEPT ![c] = "idle"]
        /\ UNCHANGED <<poolVars, pending, worker, current, wants, listOf, added, runs>>
    BY <1>1 DEF FetchResult
  <2>4. TypeOK'
    BY <2>1, <2>2, <2>3 DEF poolVars, TypeOK
  <2>5. AddedInv'
    BY <2>3 DEF AddedInv
  <2>6. QED
    BY <2>4, <2>5
<1>2. ASSUME NEW c \in Clients, Wait(c) \/ \E l \in Lists : GetJob(c, l)
      PROVE  (TypeOK /\ AddedInv)'
  <2>1. PICK state \in {"ready", "asleep"}, l \in Lists :
           /\ client' = [client EXCEPT ![c] = state]
           /\ \/ wants' = [wants EXCEPT ![c] = l]
              \/ wants' = wants /\ wants[c] \in Lists
           /\ UNCHANGED <<poolVars, pending, worker, current, completed, listOf, added, runs,
                          fetched>>
    <3>1. CASE Wait(c)
      BY <3>1 DEF Wait, TypeOK
    <3>2. CASE \E l \in Lists : GetJob(c, l)
      BY <3>2 DEF GetJob
    <3>3. QED
      BY <1>2, <3>1, <3>2
  <2>2. /\ client' \in [Clients -> {"idle", "ready", "asleep", "woken"}]
        /\ wants' \in [Clients -> Lists \cup {NoList}]
    BY <2>1 DEF TypeOK
  <2>3. \A d \in Clients : client'[d] # "idle" => wants'[d] \in Lists
    BY <2>1 DEF TypeOK
  <2>4. QED
    BY <2>1, <2>2, <2>3 DEF poolVars, TypeOK, AddedInv
<1>3. CASE Shutdown \/ Close
  BY <1>3 DEF Shutdown, Close, clientVars, TypeOK, AddedInv
<1>4. CASE UNCHANGED vars
  BY <1>4 DEF vars, TypeOK, AddedInv
<1>5. QED
  BY <1>1, <1>2, <1>3, <1>4, AddJobType, WorkerType DEF Next, ClientStep

\* Every state is typed.
THEOREM PoolTypes == Spec => []TypeOK
<1>1. Init => TypeOK /\ AddedInv
  BY InitInv
<1>2. QED
  BY <1>1, NextType, PTL DEF Spec

-----------------------------------------------------------------------------
(* Nobody sleeps on something to do.                                       *)

\* Sets of workers and of clients are finite.
LEMMA FiniteThreads ==
  /\ IsFiniteSet(WokenWorkers) /\ Cardinality(WokenWorkers) \in Nat
  /\ \A l : IsFiniteSet(WokenClients(l)) /\ Cardinality(WokenClients(l)) \in Nat
<1>1. IsFiniteSet(WokenWorkers) /\ \A l : IsFiniteSet(WokenClients(l))
  BY WorkerAssumption, ClientAssumption, FS_Subset DEF WokenWorkers, WokenClients
<1>2. QED
  BY <1>1, FS_CardinalityType

\* One element more or less changes a cardinality by one at most.
LEMMA OneElement ==
  ASSUME NEW S, NEW x, IsFiniteSet(S)
  PROVE  /\ Cardinality(S \cup {x}) \in Nat /\ Cardinality(S \cup {x}) >= Cardinality(S)
         /\ Cardinality(S \ {x}) \in Nat /\ Cardinality(S \ {x}) >= Cardinality(S) - 1
<1>1. /\ Cardinality(S) \in Nat
      /\ IsFiniteSet(S \cup {x}) /\ IsFiniteSet(S \ {x})
      /\ Cardinality(S \cup {x}) = IF x \in S THEN Cardinality(S) ELSE Cardinality(S) + 1
      /\ Cardinality(S \ {x}) = IF x \in S THEN Cardinality(S) - 1 ELSE Cardinality(S)
  BY FS_AddElement, FS_RemoveElement, FS_CardinalityType
<1>2. Cardinality(S \cup {x}) \in Nat /\ Cardinality(S \ {x}) \in Nat
  BY <1>1, FS_CardinalityType
<1>3. QED
  BY <1>1, <1>2

\* A step that wakes one worker, or none because none sleeps, may add one job.
LEMMA SignalWorkerCounts ==
  ASSUME TypeOK, WorkHasWorker, SignalWorker, pending' \in Seq(Jobs),
         Len(pending') = Len(pending) + 1
  PROVE  WorkHasWorker'
<1>1. CASE Sleepers = {} /\ UNCHANGED worker
  BY <1>1 DEF WorkHasWorker, Sleepers
<1>2. ASSUME NEW w \in Sleepers, worker' = [worker EXCEPT ![w] = "woken"]
      PROVE  WorkHasWorker'
  <2>1. WokenWorkers' = WokenWorkers \cup {w} /\ w \notin WokenWorkers
    BY <1>2 DEF WokenWorkers, Sleepers, TypeOK
  <2>2. Cardinality(WokenWorkers') = Cardinality(WokenWorkers) + 1
    BY <2>1, FiniteThreads, FS_AddElement
  <2>3. Len(pending) <= Cardinality(WokenWorkers) /\ Len(pending) \in Nat
    BY <1>2 DEF WorkHasWorker, Sleepers, TypeOK
  <2>4. QED
    BY <2>2, <2>3, FiniteThreads DEF WorkHasWorker
<1>3. QED
  BY <1>1, <1>2 DEF SignalWorker

\* The workers' side of the invariant.
LEMMA NextWork ==
  TypeOK /\ TypeOK' /\ WorkHasWorker /\ NoSleepAfterShutdown /\ [Next]_vars
      => WorkHasWorker' /\ NoSleepAfterShutdown'
<1> SUFFICES ASSUME TypeOK, TypeOK', WorkHasWorker, NoSleepAfterShutdown, [Next]_vars
             PROVE  WorkHasWorker' /\ NoSleepAfterShutdown'
  OBVIOUS
<1>1. ASSUME NEW j \in Jobs, NEW l \in Lists \cup {NoList}, AddJob(j, l)
      PROVE  WorkHasWorker' /\ NoSleepAfterShutdown'
  <2>1. /\ SignalWorker /\ pending' \in Seq(Jobs) /\ Len(pending') = Len(pending) + 1
        /\ shutdown' = shutdown
    BY <1>1 DEF AddJob, TypeOK, poolVars
  <2>2. Sleepers' \subseteq Sleepers
    BY <2>1 DEF SignalWorker, Sleepers, TypeOK
  <2>3. QED
    BY <2>1, <2>2, SignalWorkerCounts DEF NoSleepAfterShutdown
<1>2. ASSUME NEW w \in Workers, TakeJob(w)
      PROVE  WorkHasWorker' /\ NoSleepAfterShutdown'
  <2>1. /\ Sleepers' = Sleepers /\ WokenWorkers' = WokenWorkers \ {w}
        /\ shutdown' = shutdown
    BY <1>2 DEF TakeJob, AtLoop, Sleepers, WokenWorkers, TypeOK, poolVars
  <2>2. /\ Cardinality(WokenWorkers') >= Cardinality(WokenWorkers) - 1
        /\ Cardinality(WokenWorkers') \in Nat
    BY <2>1, FiniteThreads, OneElement
  <2>3. /\ Len(pending') = Len(pending) - 1 /\ Len(pending) \in Nat
    BY <1>2 DEF TakeJob, TypeOK
  <2>4. QED
    BY <2>1, <2>2, <2>3, FiniteThreads DEF WorkHasWorker, NoSleepAfterShutdown
<1>3. ASSUME NEW w \in Workers, Sleep(w)
      PROVE  WorkHasWorker' /\ NoSleepAfterShutdown'
  <2>1. pending' = <<>> /\ shutdown' = FALSE
    BY <1>3 DEF Sleep, poolVars, TypeOK
  <2>2. IsFiniteSet(WokenWorkers')
    BY WorkerAssumption, FS_Subset DEF WokenWorkers
  <2>3. Len(pending') = 0 /\ Cardinality(WokenWorkers') \in Nat
    BY <2>1, <2>2, FS_CardinalityType
  <2>4. QED
    BY <2>1, <2>3 DEF WorkHasWorker, NoSleepAfterShutdown
<1>4. ASSUME NEW w \in Workers, SpuriousWakeup(w)
      PROVE  WorkHasWorker' /\ NoSleepAfterShutdown'
  <2>1. /\ Sleepers' \subseteq Sleepers /\ WokenWorkers' = WokenWorkers \cup {w}
        /\ shutdown' = shutdown /\ pending' = pending
    BY <1>4 DEF SpuriousWakeup, Sleepers, WokenWorkers, TypeOK, poolVars
  <2>2. Cardinality(WokenWorkers') >= Cardinality(WokenWorkers)
    BY <2>1, FiniteThreads, OneElement
  <2>3. Cardinality(WokenWorkers') \in Nat
    BY <2>1, FiniteThreads, OneElement
  <2>4. Len(pending) \in Nat
    BY DEF TypeOK
  <2>5. QED
    BY <2>1, <2>2, <2>3, <2>4, FiniteThreads DEF WorkHasWorker, NoSleepAfterShutdown
<1>5. ASSUME NEW w \in Workers, RunJob(w) \/ StoreResult(w)
      PROVE  WorkHasWorker' /\ NoSleepAfterShutdown'
  <2>1. /\ Sleepers' = Sleepers /\ WokenWorkers' = WokenWorkers
        /\ shutdown' = shutdown /\ pending' = pending
    BY <1>5 DEF RunJob, StoreResult, Sleepers, WokenWorkers, TypeOK, poolVars
  <2>2. QED
    BY <2>1 DEF WorkHasWorker, NoSleepAfterShutdown
<1>6. ASSUME NEW w \in Workers, Exit(w)
      PROVE  WorkHasWorker' /\ NoSleepAfterShutdown'
  <2>1. Sleepers' = {}
    BY <1>6 DEF Exit, Sleepers, NoSleepAfterShutdown, TypeOK
  <2>2. QED
    BY <2>1 DEF WorkHasWorker, NoSleepAfterShutdown
<1>7. CASE Shutdown
  <2>1. Sleepers' = {}
    BY <1>7 DEF Shutdown, Sleepers
  <2>2. QED
    BY <2>1 DEF WorkHasWorker, NoSleepAfterShutdown
<1>8. CASE worker' = worker /\ pending' = pending /\ shutdown' = shutdown
  BY <1>8 DEF WorkHasWorker, NoSleepAfterShutdown, Sleepers, WokenWorkers
<1>9. QED
  BY <1>1, <1>2, <1>3, <1>4, <1>5, <1>6, <1>7, <1>8
  DEF Next, WorkerStep, ClientStep, FetchResult, Wait, GetJob, Close, vars, poolVars

\* The clients' side of the invariant.
LEMMA NextResult ==
  TypeOK /\ TypeOK' /\ ResultHasClient /\ [Next]_vars => ResultHasClient'
<1> SUFFICES ASSUME TypeOK, TypeOK', ResultHasClient, [Next]_vars, NEW m \in Lists,
                    Waiters(m)' # {}
             PROVE  Len(completed'[m]) <= Cardinality(WokenClients(m)')
  BY DEF ResultHasClient
<1>0. /\ Len(completed[m]) \in Nat /\ Len(completed'[m]) \in Nat
      /\ IsFiniteSet(WokenClients(m)') /\ Cardinality(WokenClients(m)') \in Nat
  <2>1. IsFiniteSet(WokenClients(m)')
    BY ClientAssumption, FS_Subset DEF WokenClients
  <2>2. QED
    BY <2>1, FS_CardinalityType DEF TypeOK
<1>1. ASSUME NEW w \in Workers, StoreResult(w)
      PROVE  Len(completed'[m]) <= Cardinality(WokenClients(m)')
  <2> DEFINE l == listOf[current[w]]
  <2>1. /\ l \in Lists /\ wants' = wants /\ SignalClient(l)
        /\ completed' = [completed EXCEPT ![l] = Append(completed[l], current[w])]
        /\ current[w] \in Jobs
    BY <1>1 DEF StoreResult, TypeOK
  <2> HIDE DEF l
  <2>2. CASE Waiters(l) = {} /\ client' = client
    <3>1. Waiters(m)' = Waiters(m) /\ WokenClients(m)' = WokenClients(m)
      BY <2>1, <2>2 DEF Waiters, WokenClients
    <3>2. m # l /\ completed'[m] = completed[m]
      BY <2>1, <2>2, <3>1 DEF TypeOK
    <3>3. QED
      BY <3>1, <3>2 DEF ResultHasClient
  <2>3. ASSUME NEW c \in Waiters(l), client' = [client EXCEPT ![c] = "woken"]
        PROVE  Len(completed'[m]) <= Cardinality(WokenClients(m)')
    <3>1. CASE m = l
      <4>1. WokenClients(m)' = WokenClients(m) \cup {c} /\ c \notin WokenClients(m)
        BY <2>1, <2>3, <3>1 DEF WokenClients, Waiters, TypeOK
      <4>2. Cardinality(WokenClients(m)') = Cardinality(WokenClients(m)) + 1
        BY <4>1, FiniteThreads, FS_AddElement
      <4>3. Len(completed'[m]) = Len(completed[m]) + 1
        BY <2>1, <3>1 DEF TypeOK
      <4>4. Len(completed[m]) <= Cardinality(WokenClients(m))
        BY <2>3, <3>1 DEF ResultHasClient
      <4>5. QED
        BY <1>0, <4>2, <4>3, <4>4, FiniteThreads
    <3>2. CASE m # l
      <4>1. Waiters(m)' = Waiters(m) /\ WokenClients(m)' = WokenClients(m)
        BY <2>1, <2>3, <3>2 DEF Waiters, WokenClients, TypeOK
      <4>2. completed'[m] = completed[m]
        BY <2>1, <3>2 DEF TypeOK
      <4>3. QED
        BY <4>1, <4>2 DEF ResultHasClient
    <3>3. QED
      BY <3>1, <3>2
  <2>4. QED
    BY <2>1, <2>2, <2>3 DEF SignalClient
<1>2. ASSUME NEW c \in Clients, FetchResult(c)
      PROVE  Len(completed'[m]) <= Cardinality(WokenClients(m)')
  <2>1. /\ wants[c] \in Lists /\ completed[wants[c]] # <<>> /\ wants' = wants
        /\ completed' = [completed EXCEPT ![wants[c]] = Tail(completed[wants[c]])]
        /\ client' = [client EXCEPT ![c] = "idle"]
        /\ client[c] \in {"ready", "woken"}
    BY <1>2 DEF FetchResult, TypeOK
  <2>2. Waiters(m) = Waiters(m)'
    BY <2>1 DEF Waiters, TypeOK
  <2>3. CASE wants[c] = m
    <3>1. WokenClients(m)' = WokenClients(m) \ {c}
      BY <2>1 DEF WokenClients, TypeOK
    <3>2. Cardinality(WokenClients(m)') >= Cardinality(WokenClients(m)) - 1
      BY <3>1, FiniteThreads, OneElement
    <3>3. Len(completed'[m]) = Len(completed[m]) - 1
      BY <2>1, <2>3 DEF TypeOK
    <3>4. QED
      BY <1>0, <2>2, <3>2, <3>3, FiniteThreads DEF ResultHasClient
  <2>4. CASE wants[c] # m
    <3>1. WokenClients(m)' = WokenClients(m) /\ completed'[m] = completed[m]
      BY <2>1, <2>4 DEF WokenClients, TypeOK
    <3>2. QED
      BY <2>2, <3>1 DEF ResultHasClient
  <2>5. QED
    BY <2>3, <2>4
<1>3. ASSUME NEW c \in Clients, Wait(c)
      PROVE  Len(completed'[m]) <= Cardinality(WokenClients(m)')
  <2>1. /\ wants' = wants /\ completed' = completed /\ completed[wants[c]] = <<>>
        /\ client' = [client EXCEPT ![c] = "asleep"]
    BY <1>3 DEF Wait
  <2>2. CASE wants[c] = m
    BY <1>0, <2>1, <2>2
  <2>3. CASE wants[c] # m
    <3>1. Waiters(m)' = Waiters(m) /\ WokenClients(m)' = WokenClients(m)
      BY <2>1, <2>3 DEF Waiters, WokenClients, TypeOK
    <3>2. QED
      BY <2>1, <3>1 DEF ResultHasClient
  <2>4. QED
    BY <2>2, <2>3
<1>4. ASSUME NEW c \in Clients, NEW l \in Lists, GetJob(c, l)
      PROVE  Len(completed'[m]) <= Cardinality(WokenClients(m)')
  <2>1. /\ client[c] = "idle" /\ completed' = completed
        /\ client' = [client EXCEPT ![c] = "ready"]
        /\ wants' = [wants EXCEPT ![c] = l]
    BY <1>4 DEF GetJob
  <2>2. Waiters(m)' = Waiters(m) /\ WokenClients(m)' = WokenClients(m)
    BY <2>1 DEF Waiters, WokenClients, TypeOK
  <2>3. QED
    BY <2>1, <2>2 DEF ResultHasClient
<1>5. CASE UNCHANGED <<client, wants, completed>>
  BY <1>5 DEF ResultHasClient, Waiters, WokenClients
<1>6. QED
  BY <1>1, <1>2, <1>3, <1>4, <1>5
  DEF Next, WorkerStep, ClientStep, AddJob, TakeJob, Sleep, SpuriousWakeup, RunJob, Exit,
      Shutdown, Close, vars, clientVars

\* No job waits while every worker sleeps, no value while its clients sleep, and
\* nobody sleeps through the shutdown: one signal for each job is enough.
THEOREM NobodySleepsOnWork == Spec => []PoolInv
<1>1. Init => TypeOK /\ AddedInv /\ AwakeInv
  BY InitInv
<1>2. TypeOK /\ AddedInv /\ AwakeInv /\ [Next]_vars => (TypeOK /\ AddedInv /\ AwakeInv)'
  <2>1. TypeOK /\ AddedInv /\ [Next]_vars => TypeOK' /\ AddedInv'
    BY NextType
  <2>2. AwakeInv /\ TypeOK /\ TypeOK' /\ [Next]_vars => AwakeInv'
    BY NextWork, NextResult DEF AwakeInv
  <2>3. QED
    BY <2>1, <2>2
<1>3. TypeOK /\ AwakeInv => PoolInv
  BY DEF AwakeInv, PoolInv
<1>4. QED
  BY <1>1, <1>2, <1>3, PTL DEF Spec

-----------------------------------------------------------------------------
(* A job is in one place.                                                  *)

\* Jobs that are somewhere were added.
JobsAdded ==
    /\ Range(pending) \cup fetched \subseteq added
    /\ \A l \in Lists : Range(completed[l]) \subseteq added
    /\ \A w \in Workers : current[w] \in added \cup {NoJob}

\* No job is in two places.
OneHome ==
    /\ IsInjective(pending) /\ \A l \in Lists : IsInjective(completed[l])
    /\ \A v, w \in Workers : current[v] # NoJob /\ current[v] = current[w] => v = w
    /\ \A l, m \in Lists : \A j \in Range(completed[l]) : j \in Range(completed[m]) => l = m
    /\ \A w \in Workers : current[w] \notin Range(pending) \cup fetched
    /\ \A l \in Lists :
          /\ Range(completed[l]) \cap (Range(pending) \cup fetched) = {}
          /\ \A w \in Workers : current[w] \notin Range(completed[l])
    /\ Range(pending) \cap fetched = {}

\* A job is run when a worker has taken it, and not again.
RunsInv ==
    /\ \A w \in Workers : current[w] # NoJob <=> worker[w] \in {"running", "storing"}
    /\ \A j \in Jobs :
          /\ runs[j] <= 1
          /\ runs[j] = 1 => /\ j \in added /\ j \notin Range(pending)
                            /\ \A w \in Workers : current[w] = j => worker[w] = "storing"

HomeInv == JobsAdded /\ OneHome /\ RunsInv

\* A list whose members differ, with a new one.
LEMMA ListWith ==
  ASSUME NEW S, NEW q \in Seq(S), NEW e \in S
  PROVE  /\ Range(Append(q, e)) = Range(q) \cup {e}
         /\ IsInjective(q) /\ e \notin Range(q) => IsInjective(Append(q, e))
<1>1. /\ Append(q, e) \in Seq(S) /\ Len(Append(q, e)) = Len(q) + 1 /\ Len(q) \in Nat
      /\ DOMAIN q = 1..Len(q) /\ DOMAIN Append(q, e) = 1..(Len(q) + 1)
      /\ \A i \in 1..Len(q) : Append(q, e)[i] = q[i]
      /\ Append(q, e)[Len(q) + 1] = e
  OBVIOUS
<1> DEFINE r == Append(q, e)
<1> HIDE DEF r
<1>2. \A i \in DOMAIN r : r[i] = IF i \in DOMAIN q THEN q[i] ELSE e
  BY <1>1 DEF r
<1>3. DOMAIN q \subseteq DOMAIN r /\ \E i \in DOMAIN r : r[i] = e
  BY <1>1 DEF r
<1>4. Range(r) = Range(q) \cup {e}
  BY <1>2, <1>3 DEF Range
<1>5. ASSUME IsInjective(q), e \notin Range(q), NEW i \in DOMAIN r, NEW k \in DOMAIN r, r[i] = r[k]
      PROVE  i = k
  <2>1. i \in DOMAIN q \/ i = Len(q) + 1
    BY <1>1 DEF r
  <2>2. k \in DOMAIN q \/ k = Len(q) + 1
    BY <1>1 DEF r
  <2>3. QED
    BY <1>2, <1>5, <2>1, <2>2 DEF IsInjective, Range
<1>6. QED
  BY <1>4, <1>5 DEF IsInjective, r

\* The same list without its first member.
LEMMA ListWithout ==
  ASSUME NEW S, NEW q \in Seq(S), q # <<>>, IsInjective(q)
  PROVE  /\ Head(q) \in Range(q) /\ Range(Tail(q)) = Range(q) \ {Head(q)}
         /\ IsInjective(Tail(q))
<1>1. /\ Len(q) \in Nat /\ Len(q) > 0 /\ DOMAIN q = 1..Len(q) /\ Head(q) = q[1]
      /\ DOMAIN Tail(q) = 1..(Len(q) - 1)
      /\ \A i \in 1..(Len(q) - 1) : Tail(q)[i] = q[i + 1]
  OBVIOUS
<1> DEFINE r == Tail(q)
<1> HIDE DEF r
<1>2. \A i \in DOMAIN r : i + 1 \in DOMAIN q /\ i + 1 # 1 /\ r[i] = q[i + 1] /\ i \in Int
  BY <1>1 DEF r
<1>3. \A i \in DOMAIN q : i = 1 \/ \E k \in DOMAIN r : i = k + 1
  <2> TAKE i \in DOMAIN q
  <2>1. i = 1 \/ (i - 1 \in DOMAIN r /\ i = (i - 1) + 1)
    BY <1>1 DEF r
  <2>2. QED
    BY <2>1
<1>4. 1 \in DOMAIN q /\ Head(q) = q[1]
  BY <1>1
<1>5. Head(q) \in Range(q)
  BY <1>4 DEF Range
<1>6. Range(r) = Range(q) \ {Head(q)}
  <2>1. ASSUME NEW x \in Range(r)
        PROVE  x \in Range(q) /\ x # Head(q)
    <3>1. PICK i \in DOMAIN r : x = r[i]
      BY <2>1 DEF Range
    <3>2. x = q[i + 1] /\ i + 1 \in DOMAIN q /\ i + 1 # 1
      BY <1>2, <3>1
    <3>3. QED
      BY <1>4, <3>2 DEF Range, IsInjective
  <2>2. ASSUME NEW x \in Range(q), x # Head(q)
        PROVE  x \in Range(r)
    <3>1. PICK i \in DOMAIN q : x = q[i]
      BY <2>2 DEF Range
    <3>2. PICK k \in DOMAIN r : i = k + 1
      BY <1>3, <1>4, <2>2, <3>1
    <3>3. QED
      BY <1>2, <3>1, <3>2 DEF Range
  <2>3. QED
    BY <2>1, <2>2
<1>7. IsInjective(r)
  <2>1. ASSUME NEW i \in DOMAIN r, NEW k \in DOMAIN r, r[i] = r[k]
        PROVE  i = k
    <3>1. i + 1 = k + 1
      BY <1>2, <2>1 DEF IsInjective
    <3>2. QED
      BY <1>2, <3>1
  <2>2. QED
    BY <2>1 DEF IsInjective
<1>8. QED
  BY <1>5, <1>6, <1>7 DEF r

\* A new job is nowhere yet.
LEMMA AddJobHome ==
  ASSUME TypeOK, HomeInv, NEW j \in Jobs, NEW l \in Lists \cup {NoList}, AddJob(j, l)
  PROVE  HomeInv'
<1>1. /\ pending' = Append(pending, j) /\ added' = added \cup {j} /\ j \notin added
      /\ UNCHANGED <<current, completed, runs, fetched>>
      /\ \A w \in Workers : worker'[w] \in {"running", "storing"} \/ worker[w] \in {"running", "storing"}
            => worker'[w] = worker[w]
  BY DEF AddJob, SignalWorker, Sleepers, TypeOK
<1>2. Range(pending') = Range(pending) \cup {j}
  BY <1>1, ListWith DEF TypeOK
<1>3. j \notin Range(pending)
  BY <1>1 DEF HomeInv, JobsAdded
<1>4. IsInjective(pending')
  BY <1>1, <1>3, ListWith DEF TypeOK, HomeInv, OneHome
<1>5. JobsAdded'
  BY <1>1, <1>2 DEF HomeInv, JobsAdded
<1>6. /\ \A w \in Workers : current[w] # j
      /\ j \notin fetched /\ \A m \in Lists : j \notin Range(completed[m])
  BY <1>1, ListAssumption DEF HomeInv, JobsAdded
<1>7. OneHome'
  BY <1>1, <1>2, <1>4, <1>6 DEF HomeInv, OneHome
<1>8. RunsInv'
  BY <1>1, <1>2 DEF HomeInv, RunsInv
<1>9. QED
  BY <1>5, <1>7, <1>8 DEF HomeInv

\* A job goes from the list of pending jobs to the worker.
LEMMA TakeJobHome ==
  ASSUME TypeOK, HomeInv, NEW w \in Workers, TakeJob(w)
  PROVE  /\ HomeInv' /\ Range(pending') = Range(pending) \ {Head(pending)}
         /\ Head(pending) \in Range(pending) /\ Head(pending) \in Jobs /\ current[w] = NoJob
<1> DEFINE j == Head(pending)
<1>1. /\ pending # <<>> /\ pending' = Tail(pending) /\ worker[w] \in {"ready", "woken"}
      /\ worker' = [worker EXCEPT ![w] = "running"] /\ current' = [current EXCEPT ![w] = j]
      /\ UNCHANGED <<completed, added, runs, fetched>>
  BY DEF TakeJob, AtLoop
<1>2. /\ j \in Range(pending) /\ Range(pending') = Range(pending) \ {j}
      /\ IsInjective(pending')
  BY <1>1, ListWithout DEF TypeOK, HomeInv, OneHome
<1>3. j \in Jobs /\ j \in added
  BY <1>2 DEF HomeInv, JobsAdded, TypeOK
<1> HIDE DEF j
<1>4. /\ current[w] = NoJob /\ j # NoJob
      /\ \A v \in Workers : current'[v] = IF v = w THEN j ELSE current[v]
      /\ \A v \in Workers : worker'[v] = IF v = w THEN "running" ELSE worker[v]
  BY <1>1, <1>3, ListAssumption DEF HomeInv, RunsInv, TypeOK
<1>5. /\ j \notin fetched /\ \A v \in Workers : current[v] # j
      /\ \A l \in Lists : j \notin Range(completed[l])
  BY <1>2 DEF HomeInv, OneHome
<1>6. JobsAdded'
  BY <1>1, <1>2, <1>3, <1>4 DEF HomeInv, JobsAdded
<1>7. OneHome'
  <2>1. \A u, v \in Workers : current'[u] # NoJob /\ current'[u] = current'[v] => u = v
    BY <1>4, <1>5 DEF HomeInv, OneHome
  <2>2. \A v \in Workers : /\ current'[v] \notin Range(pending') \cup fetched'
                           /\ \A l \in Lists : current'[v] \notin Range(completed'[l])
    BY <1>1, <1>2, <1>4, <1>5 DEF HomeInv, OneHome
  <2>3. /\ Range(pending') \cap fetched' = {}
        /\ \A l \in Lists : Range(completed'[l]) \cap (Range(pending') \cup fetched') = {}
    BY <1>1, <1>2 DEF HomeInv, OneHome
  <2>4. /\ \A l \in Lists : IsInjective(completed'[l])
        /\ \A l, m \in Lists : \A k \in Range(completed'[l]) : k \in Range(completed'[m]) => l = m
    BY <1>1 DEF HomeInv, OneHome
  <2>5. QED
    BY <1>2, <2>1, <2>2, <2>3, <2>4 DEF OneHome
<1>8. RunsInv'
  BY <1>1, <1>2, <1>4 DEF HomeInv, RunsInv
<1>9. QED
  BY <1>2, <1>3, <1>4, <1>6, <1>7, <1>8 DEF HomeInv, j

\* A job that is run has not been run before; it stays with the worker if there is a value to store.
LEMMA RunJobHome ==
  ASSUME TypeOK, HomeInv, NEW w \in Workers, RunJob(w)
  PROVE  HomeInv'
<1> DEFINE j == current[w]
<1>1. /\ worker[w] = "running" /\ j \in Jobs /\ j # NoJob
      /\ runs' = [runs EXCEPT ![j] = runs[j] + 1]
      /\ UNCHANGED <<pending, completed, added, fetched>>
  BY ListAssumption DEF RunJob, TypeOK
<1>2. \/ worker' = [worker EXCEPT ![w] = "storing"] /\ current' = current
      \/ worker' = [worker EXCEPT ![w] = "ready"] /\ current' = [current EXCEPT ![w] = NoJob]
  BY DEF RunJob
<1>3. runs[j] = 0 /\ j \in added /\ j \notin Range(pending)
  BY <1>1 DEF HomeInv, RunsInv, JobsAdded, OneHome, TypeOK
<1> HIDE DEF j
<1>4. \A v \in Workers : v # w => current'[v] = current[v] /\ worker'[v] = worker[v] /\ current[v] # j
  BY <1>1, <1>2 DEF j, HomeInv, OneHome, TypeOK
<1>5. \/ worker'[w] = "storing" /\ current'[w] = j
      \/ worker'[w] = "ready" /\ current'[w] = NoJob
  BY <1>2 DEF j, TypeOK
<1>6. \A k \in Jobs : runs'[k] = IF k = j THEN 1 ELSE runs[k]
  BY <1>1, <1>3 DEF TypeOK
<1>7. \A v \in Workers : current'[v] \in {current[v], NoJob}
  BY <1>4, <1>5 DEF j
<1>8. JobsAdded'
  BY <1>1, <1>7 DEF HomeInv, JobsAdded
<1>9. OneHome'
  <2>1. NoJob \notin Range(pending) \cup fetched /\ \A l \in Lists : NoJob \notin Range(completed[l])
    BY ListAssumption DEF HomeInv, JobsAdded, TypeOK
  <2>2. \A v \in Workers : /\ current'[v] \notin Range(pending') \cup fetched'
                           /\ \A l \in Lists : current'[v] \notin Range(completed'[l])
    BY <1>1, <1>7, <2>1 DEF HomeInv, OneHome
  <2>3. \A u, v \in Workers : current'[u] # NoJob /\ current'[u] = current'[v] => u = v
    BY <1>7 DEF HomeInv, OneHome
  <2>4. QED
    BY <1>1, <2>2, <2>3 DEF HomeInv, OneHome
<1>10. RunsInv'
  <2>1. \A v \in Workers : current'[v] # NoJob <=> worker'[v] \in {"running", "storing"}
    BY <1>1, <1>4, <1>5 DEF HomeInv, RunsInv
  <2>2. ASSUME NEW k \in Jobs
        PROVE  /\ runs'[k] <= 1
               /\ runs'[k] = 1 => /\ k \in added' /\ k \notin Range(pending')
                                  /\ \A v \in Workers : current'[v] = k => worker'[v] = "storing"
    <3>1. CASE k = j
      BY <1>1, <1>3, <1>4, <1>5, <1>6, <3>1, ListAssumption
    <3>2. CASE k # j
      BY <1>1, <1>4, <1>5, <1>6, <3>2, ListAssumption DEF HomeInv, RunsInv
    <3>3. QED
      BY <3>1, <3>2
  <2>3. QED
    BY <2>1, <2>2 DEF RunsInv
<1>11. QED
  BY <1>8, <1>9, <1>10 DEF HomeInv

\* A value goes from the worker to the list it was meant for.
LEMMA StoreResultHome ==
  ASSUME TypeOK, HomeInv, NEW w \in Workers, StoreResult(w)
  PROVE  LET j == current[w]
             d == listOf[j]
         IN  /\ HomeInv' /\ d \in Lists /\ j \in Jobs
             /\ Range(completed'[d]) = Range(completed[d]) \cup {j}
             /\ \A l \in Lists : l # d => Range(completed'[l]) = Range(completed[l])
<1> DEFINE j == current[w]
           d == listOf[current[w]]
<1>1. /\ worker[w] = "storing" /\ j \in Jobs /\ j # NoJob /\ d \in Lists
      /\ completed' = [completed EXCEPT ![d] = Append(completed[d], j)]
      /\ worker' = [worker EXCEPT ![w] = "ready"] /\ current' = [current EXCEPT ![w] = NoJob]
      /\ UNCHANGED <<pending, listOf, added, runs, fetched>>
  BY ListAssumption DEF StoreResult, TypeOK
<1>2. /\ j \in added /\ j \notin Range(pending) \cup fetched
      /\ \A l \in Lists : j \notin Range(completed[l])
      /\ \A v \in Workers : v # w => current[v] # j
  BY <1>1 DEF HomeInv, OneHome, JobsAdded
<1> HIDE DEF j, d
<1>3. \A v \in Workers : /\ current'[v] = IF v = w THEN NoJob ELSE current[v]
                         /\ worker'[v] = IF v = w THEN "ready" ELSE worker[v]
  BY <1>1 DEF TypeOK
<1>4. /\ Range(Append(completed[d], j)) = Range(completed[d]) \cup {j}
      /\ IsInjective(Append(completed[d], j))
  BY <1>1, <1>2, ListWith DEF TypeOK, HomeInv, OneHome
<1>5. \A l \in Lists : completed'[l] = IF l = d THEN Append(completed[l], j) ELSE completed[l]
  BY <1>1 DEF TypeOK
<1>6. /\ Range(completed'[d]) = Range(completed[d]) \cup {j}
      /\ \A l \in Lists : l # d => Range(completed'[l]) = Range(completed[l])
      /\ \A l \in Lists : IsInjective(completed'[l])
  BY <1>1, <1>4, <1>5 DEF HomeInv, OneHome
<1>7. JobsAdded'
  BY <1>1, <1>2, <1>3, <1>6 DEF HomeInv, JobsAdded
<1>8. OneHome'
  <2>1. NoJob \notin Range(pending) \cup fetched /\ \A l \in Lists : NoJob \notin Range(completed[l])
    BY ListAssumption DEF HomeInv, JobsAdded, TypeOK
  <2>2. \A v \in Workers : /\ current'[v] \notin Range(pending') \cup fetched'
                           /\ \A l \in Lists : current'[v] \notin Range(completed'[l])
    <3> TAKE v \in Workers
    <3>1. CASE v = w
      BY <1>1, <1>3, <1>6, <2>1, <3>1
    <3>2. CASE v # w
      BY <1>1, <1>2, <1>3, <1>6, <3>2 DEF HomeInv, OneHome
    <3>3. QED
      BY <3>1, <3>2
  <2>3. \A u, v \in Workers : current'[u] # NoJob /\ current'[u] = current'[v] => u = v
    BY <1>3 DEF HomeInv, OneHome
  <2>4. \A l, m \in Lists : \A k \in Range(completed'[l]) : k \in Range(completed'[m]) => l = m
    BY <1>2, <1>6 DEF HomeInv, OneHome
  <2>5. \A l \in Lists : Range(completed'[l]) \cap (Range(pending') \cup fetched') = {}
    BY <1>1, <1>2, <1>6 DEF HomeInv, OneHome
  <2>6. IsInjective(pending') /\ Range(pending') \cap fetched' = {}
    BY <1>1 DEF HomeInv, OneHome
  <2>7. QED
    BY <1>6, <2>2, <2>3, <2>4, <2>5, <2>6 DEF OneHome
<1>9. RunsInv'
  BY <1>1, <1>3, ListAssumption DEF HomeInv, RunsInv
<1>10. QED
  BY <1>1, <1>6, <1>7, <1>8, <1>9 DEF HomeInv, j, d

\* A value that is fetched leaves the list.
LEMMA FetchResultHome ==
  ASSUME TypeOK, HomeInv, NEW c \in Clients, FetchResult(c)
  PROVE  LET d == wants[c]
             j == Head(completed[d])
         IN  /\ HomeInv' /\ d \in Lists /\ j \in Jobs /\ j \in Range(completed[d])
             /\ Range(completed'[d]) = Range(completed[d]) \ {j}
             /\ \A l \in Lists : l # d => Range(completed'[l]) = Range(completed[l])
<1> DEFINE d == wants[c]
           j == Head(completed[d])
<1>1. /\ d \in Lists /\ completed[d] # <<>> /\ fetched' = fetched \cup {j}
      /\ completed' = [completed EXCEPT ![d] = Tail(completed[d])]
      /\ UNCHANGED <<pending, worker, current, added, runs>>
  BY DEF FetchResult, TypeOK
<1> HIDE DEF d
<1>2. /\ j \in Range(completed[d]) /\ Range(Tail(completed[d])) = Range(completed[d]) \ {j}
      /\ IsInjective(Tail(completed[d]))
  BY <1>1, ListWithout DEF TypeOK, HomeInv, OneHome
<1>3. j \in Jobs /\ j \in added
  BY <1>1, <1>2 DEF HomeInv, JobsAdded, TypeOK
<1> HIDE DEF j
<1>4. \A l \in Lists : completed'[l] = IF l = d THEN Tail(completed[l]) ELSE completed[l]
  BY <1>1 DEF TypeOK
<1>5. /\ Range(completed'[d]) = Range(completed[d]) \ {j}
      /\ \A l \in Lists : l # d => Range(completed'[l]) = Range(completed[l])
      /\ \A l \in Lists : IsInjective(completed'[l])
  BY <1>1, <1>2, <1>4 DEF HomeInv, OneHome
<1>6. JobsAdded'
  BY <1>1, <1>3, <1>5 DEF HomeInv, JobsAdded
<1>7. OneHome'
  <2>1. \A l \in Lists : j \notin Range(completed'[l])
    BY <1>1, <1>2, <1>5 DEF HomeInv, OneHome
  <2>2. j \notin Range(pending) /\ \A w \in Workers : current[w] # j
    BY <1>1, <1>2 DEF HomeInv, OneHome
  <2>3. \A l \in Lists : Range(completed'[l]) \subseteq Range(completed[l])
    BY <1>5
  <2>4. \A w \in Workers : current'[w] \notin Range(pending') \cup fetched'
    BY <1>1, <2>2 DEF HomeInv, OneHome
  <2>5. \A l \in Lists : \A w \in Workers : current'[w] \notin Range(completed'[l])
    BY <1>1, <2>3 DEF HomeInv, OneHome
  <2>6. \A l \in Lists : Range(completed'[l]) \cap (Range(pending') \cup fetched') = {}
    BY <1>1, <2>1, <2>3 DEF HomeInv, OneHome
  <2>7. \A l, m \in Lists : \A k \in Range(completed'[l]) : k \in Range(completed'[m]) => l = m
    BY <2>3 DEF HomeInv, OneHome
  <2>8. /\ IsInjective(pending') /\ Range(pending') \cap fetched' = {}
        /\ \A v, w \in Workers : current'[v] # NoJob /\ current'[v] = current'[w] => v = w
    BY <1>1, <2>2 DEF HomeInv, OneHome
  <2>9. QED
    BY <1>5, <2>4, <2>5, <2>6, <2>7, <2>8 DEF OneHome
<1>8. RunsInv'
  BY <1>1 DEF HomeInv, RunsInv
<1>9. QED
  BY <1>1, <1>2, <1>3, <1>5, <1>6, <1>7, <1>8 DEF HomeInv, d, j

\* Steps that move no job.
LEMMA StillHome ==
  ASSUME HomeInv, UNCHANGED <<pending, current, completed, added, runs, fetched>>,
         \A w \in Workers : worker[w] \in {"running", "storing"} \/ worker'[w] \in {"running", "storing"}
            => worker'[w] = worker[w]
  PROVE  HomeInv'
  BY DEF HomeInv, JobsAdded, OneHome, RunsInv

\* Which steps those are.
LEMMA QuietSteps ==
  ASSUME TypeOK,
         \/ \E w \in Workers : Sleep(w) \/ SpuriousWakeup(w) \/ Exit(w)
         \/ \E c \in Clients : Wait(c) \/ \E l \in Lists : GetJob(c, l)
         \/ Shutdown \/ Close \/ UNCHANGED vars
  PROVE  /\ UNCHANGED <<pending, current, completed, listOf, added, runs, fetched>>
         /\ \A w \in Workers : worker[w] \in {"running", "storing"} \/ worker'[w] \in {"running", "storing"}
               => worker'[w] = worker[w]
<1>1. ASSUME NEW w \in Workers, Sleep(w) \/ SpuriousWakeup(w) \/ Exit(w)
      PROVE  /\ UNCHANGED <<pending, current, completed, listOf, added, runs, fetched>>
             /\ \A v \in Workers : worker[v] \in {"running", "storing"} \/ worker'[v] \in {"running", "storing"}
                   => worker'[v] = worker[v]
  BY <1>1 DEF Sleep, SpuriousWakeup, Exit, AtLoop, TypeOK
<1>2. CASE Shutdown
  BY <1>2 DEF Shutdown
<1>3. CASE Close
  BY <1>3 DEF Close
<1>4. CASE \E c \in Clients : Wait(c) \/ \E l \in Lists : GetJob(c, l)
  BY <1>4 DEF Wait, GetJob
<1>5. CASE UNCHANGED vars
  BY <1>5 DEF vars
<1>6. QED
  BY <1>1, <1>2, <1>3, <1>4, <1>5

\* Every step leaves each job in one place.
LEMMA NextHome == TypeOK /\ HomeInv /\ [Next]_vars => HomeInv'
<1> SUFFICES ASSUME TypeOK, HomeInv, [Next]_vars
             PROVE  HomeInv'
  OBVIOUS
<1>1. CASE \/ \E w \in Workers : Sleep(w) \/ SpuriousWakeup(w) \/ Exit(w)
           \/ \E c \in Clients : Wait(c) \/ \E l \in Lists : GetJob(c, l)
           \/ Shutdown \/ Close \/ UNCHANGED vars
  BY <1>1, QuietSteps, StillHome
<1>2. QED
  BY <1>1, AddJobHome, TakeJobHome, RunJobHome, StoreResultHome, FetchResultHome
  DEF Next, WorkerStep, ClientStep

LEMMA InitHome == Init => HomeInv
<1> SUFFICES ASSUME Init
             PROVE  HomeInv
  OBVIOUS
<1>1. Range(<<>>) = {} /\ IsInjective(<<>>)
  BY DEF Range, IsInjective
<1>2. /\ pending = <<>> /\ \A l \in Lists : completed[l] = <<>>
      /\ \A w \in Workers : current[w] = NoJob /\ worker[w] = "ready"
      /\ \A j \in Jobs : runs[j] = 0
      /\ fetched = {}
  BY DEF Init
<1>3. QED
  BY <1>1, <1>2 DEF HomeInv, JobsAdded, OneHome, RunsInv

\* There is a place of a kind only when the job is where the kind says, and one of each kind.
LEMMA PlacesOfAKind ==
  ASSUME HomeInv, NEW j \in Jobs
  PROVE  /\ PendingPlaces(j) # {} => j \in Range(pending)
         /\ WorkerPlaces(j) # {} => \E w \in Workers : current[w] = j
         /\ ListPlaces(j) # {} => \E l \in Lists : j \in Range(completed[l])
         /\ FetchedPlaces(j) # {} => j \in fetched
         /\ \A p, q \in PendingPlaces(j) : p = q
         /\ \A p, q \in WorkerPlaces(j) : p = q
         /\ \A p, q \in ListPlaces(j) : p = q
         /\ \A p, q \in FetchedPlaces(j) : p = q
<1>1. \A p \in PendingPlaces(j) : \E i \in DOMAIN pending : pending[i] = j /\ p = <<"pending", i>>
  BY DEF PendingPlaces
<1>2. \A p \in WorkerPlaces(j) : \E w \in Workers : current[w] = j /\ p = <<"worker", w>>
  BY DEF WorkerPlaces
<1>3. \A p \in ListPlaces(j) : \E l \in Lists : \E i \in DOMAIN completed[l] :
         completed[l][i] = j /\ p = <<"list", l, i>>
  BY DEF ListPlaces
<1>4. \A p \in FetchedPlaces(j) : j \in fetched /\ p = <<"fetched">>
  BY DEF FetchedPlaces
<1>5. /\ PendingPlaces(j) # {} => j \in Range(pending)
      /\ ListPlaces(j) # {} => \E l \in Lists : j \in Range(completed[l])
  BY <1>1, <1>3 DEF Range
<1>6. \A p, q \in PendingPlaces(j) : p = q
  BY <1>1 DEF HomeInv, OneHome, IsInjective
<1>7. \A p, q \in WorkerPlaces(j) : p = q
  BY <1>2, ListAssumption DEF HomeInv, OneHome
<1>8. ASSUME NEW p \in ListPlaces(j), NEW q \in ListPlaces(j)
      PROVE  p = q
  <2>1. PICK l \in Lists : \E i \in DOMAIN completed[l] : completed[l][i] = j /\ p = <<"list", l, i>>
    BY <1>3
  <2>2. PICK i \in DOMAIN completed[l] : completed[l][i] = j /\ p = <<"list", l, i>>
    BY <2>1
  <2>3. PICK m \in Lists : \E k \in DOMAIN completed[m] : completed[m][k] = j /\ q = <<"list", m, k>>
    BY <1>3
  <2>4. PICK k \in DOMAIN completed[m] : completed[m][k] = j /\ q = <<"list", m, k>>
    BY <2>3
  <2>5. l = m
    BY <2>2, <2>4 DEF HomeInv, OneHome, Range
  <2>6. QED
    BY <2>2, <2>4, <2>5 DEF HomeInv, OneHome, IsInjective
<1>9. QED
  BY <1>2, <1>4, <1>5, <1>6, <1>7, <1>8

\* A job is run once at most, and is pending, with a worker, in a list of values or
\* fetched, whatever the threads do.
THEOREM JobsRunOnce == Spec => []RunOnce
<1>1. Init => TypeOK /\ AddedInv /\ HomeInv
  BY InitInv, InitHome
<1>2. TypeOK /\ AddedInv /\ HomeInv /\ [Next]_vars => (TypeOK /\ AddedInv /\ HomeInv)'
  BY NextType, NextHome
<1>3. TypeOK /\ HomeInv => RunOnce
  <2> SUFFICES ASSUME TypeOK, HomeInv, NEW j \in Jobs
               PROVE  Cardinality(Places(j)) <= 1
    BY DEF RunOnce, HomeInv, RunsInv
  <2>1. ASSUME NEW p \in Places(j), NEW q \in Places(j)
        PROVE  p = q
    <3>1. Places(j) = PendingPlaces(j) \cup WorkerPlaces(j) \cup ListPlaces(j) \cup FetchedPlaces(j)
      BY DEF Places
    <3>2. /\ j \in Range(pending) => j \notin fetched
          /\ \A w \in Workers : current[w] = j => j \notin Range(pending) /\ j \notin fetched
          /\ \A l \in Lists : j \in Range(completed[l]) =>
                /\ j \notin Range(pending) /\ j \notin fetched
                /\ \A w \in Workers : current[w] # j
      BY DEF HomeInv, OneHome
    <3>3. QED
      BY <3>1, <3>2, PlacesOfAKind
  <2>2. Places(j) = {} \/ \E p : Places(j) = {p}
    BY <2>1
  <2> HIDE DEF Places
  <2>3. CASE Places(j) = {}
    BY <2>3, FS_EmptySet
  <2>4. ASSUME NEW p, Places(j) = {p}
        PROVE  Cardinality(Places(j)) <= 1
    <3>1. Cardinality({p}) = 1
      BY FS_Singleton
    <3>2. QED
      BY <2>4, <3>1
  <2>5. QED
    BY <2>2, <2>3, <2>4
<1>4. QED
  BY <1>1, <1>2, <1>3, PTL DEF Spec

-----------------------------------------------------------------------------
(* The pool implements the job service.                                    *)

\* What the service sees of a state is made of these.
LEMMA SameView ==
  ASSUME UNCHANGED <<pending, current, completed, added>>
  PROVE  UNCHANGED <<Running, Results, Ended>>
  BY DEF Running, Results, Ended

\* A pool with a worker to spare runs fewer jobs than it has workers.
LEMMA RoomToRun ==
  ASSUME TypeOK, NEW w \in Workers, current[w] = NoJob
  PROVE  Cardinality(Running) < Cardinality(Workers)
<1> DEFINE Busy == {v \in Workers : current[v] # NoJob}
           f == [v \in Busy |-> current[v]]
<1>1. IsFiniteSet(Busy) /\ Cardinality(Busy) < Cardinality(Workers)
  <2>1. Busy \in SUBSET (Workers \ {w})
    OBVIOUS
  <2>2. /\ IsFiniteSet(Workers \ {w}) /\ Cardinality(Workers) \in Nat
        /\ Cardinality(Workers \ {w}) = Cardinality(Workers) - 1
    BY WorkerAssumption, FS_RemoveElement, FS_CardinalityType
  <2>3. IsFiniteSet(Busy) /\ Cardinality(Busy) <= Cardinality(Workers \ {w})
    BY <2>1, <2>2, FS_Subset
  <2>4. Cardinality(Busy) \in Nat
    BY <2>3, FS_CardinalityType
  <2> HIDE DEF Busy
  <2>5. QED
    BY <2>2, <2>3, <2>4
<1>2. f \in Surjection(Busy, Running)
  <2>1. f \in [Busy -> Running]
    BY DEF Running, TypeOK
  <2>2. \A j \in Running : \E v \in Busy : f[v] = j
    BY ListAssumption DEF Running
  <2> HIDE DEF f, Busy
  <2>3. QED
    BY <2>1, <2>2 DEF Surjection
<1>3. Cardinality(Running) <= Cardinality(Busy) /\ IsFiniteSet(Running)
  <2> HIDE DEF f, Busy
  <2>1. QED
    BY <1>1, <1>2, FS_Surjection
<1>4. Cardinality(Running) \in Nat /\ Cardinality(Busy) \in Nat /\ Cardinality(Workers) \in Nat
  <2> HIDE DEF Busy
  <2>1. QED
    BY <1>1, <1>3, WorkerAssumption, FS_CardinalityType
<1> HIDE DEF Busy
<1>5. QED
  BY <1>1, <1>3, <1>4

\* tpool_add_job adds a job the service does not know.
LEMMA AddJobAdds ==
  ASSUME TypeOK, HomeInv, NEW j \in Jobs, NEW l \in Lists \cup {NoList}, AddJob(j, l)
  PROVE  Service!Add(j, l)
<1>1. /\ pending' = Append(pending, j) /\ added' = added \cup {j} /\ j \notin added
      /\ listOf' = [listOf EXCEPT ![j] = l]
      /\ UNCHANGED <<shutdown, current, completed, fetched>>
  BY DEF AddJob, poolVars
<1>2. Range(pending') = Range(pending) \cup {j}
  BY <1>1, ListWith DEF TypeOK
<1>3. Running' = Running /\ Results' = Results /\ Ended' = Ended
  BY <1>1, <1>2 DEF Running, Results, Ended
<1>4. j \notin Running \cup Ended \cup Range(pending)
  BY <1>1, ListAssumption DEF Running, Ended, HomeInv, JobsAdded
<1>5. Service!Range(pending) = Range(pending)
  BY DEF Service!Range, Range
<1>6. QED
  BY <1>1, <1>3, <1>4, <1>5 DEF Service!Add, Service!Known

\* A worker takes the oldest job.
LEMMA TakeJobBegins ==
  ASSUME TypeOK, HomeInv, NEW w \in Workers, TakeJob(w)
  PROVE  Service!Begin
<1>1. /\ pending # <<>> /\ pending' = Tail(pending) /\ ~shutdown
      /\ current' = [current EXCEPT ![w] = Head(pending)]
      /\ UNCHANGED <<shutdown, completed, listOf, added, fetched>>
  BY DEF TakeJob, poolVars
<1>2. /\ Range(pending') = Range(pending) \ {Head(pending)} /\ Head(pending) \in Range(pending)
      /\ Head(pending) \in Jobs /\ current[w] = NoJob
  BY TakeJobHome
<1>3. Cardinality(Running) < Cardinality(Workers)
  BY <1>2, RoomToRun
<1> DEFINE j == Head(pending)
<1> HIDE DEF j
<1>4. \A v \in Workers : current'[v] = IF v = w THEN j ELSE current[v]
  BY <1>1 DEF TypeOK, j
<1>5. Running' = Running \cup {j}
  BY <1>2, <1>4, ListAssumption DEF Running, j
<1>6. Ended' = Ended
  <2>1. j \in Range(pending) /\ Range(pending') = Range(pending) \ {j}
    BY <1>2 DEF j
  <2>2. ASSUME NEW k \in added
        PROVE  k \in Ended' <=> k \in Ended
    BY <1>1, <1>2, <1>4, <2>1, ListAssumption DEF Ended, TypeOK
  <2>3. QED
    BY <1>1, <2>2 DEF Ended
<1>7. Results' = Results
  BY <1>1 DEF Results
<1>8. Service!Cardinality(Running) = Cardinality(Running)
  BY DEF Service!Cardinality, Cardinality
<1>9. QED
  BY <1>1, <1>3, <1>5, <1>6, <1>7, <1>8 DEF Service!Begin, j

\* A job that is run ends, and its value is there, when the value is stored, or at once when it is not.
LEMMA JobEnds ==
  ASSUME TypeOK, HomeInv, NEW w \in Workers, NEW j \in Jobs, current[w] = j,
         current' = [current EXCEPT ![w] = NoJob],
         UNCHANGED <<pending, listOf, added, fetched, shutdown>>,
         Results' = [l \in Lists |-> IF l = listOf[j] THEN Results[l] \cup {j} ELSE Results[l]]
  PROVE  Service!End(j)
<1>1. \A v \in Workers : current'[v] = IF v = w THEN NoJob ELSE current[v]
  BY DEF TypeOK
<1>2. j # NoJob /\ \A v \in Workers : v # w => current[v] # j
  BY ListAssumption DEF HomeInv, OneHome
<1>3. j \in added /\ j \notin Range(pending)
  BY <1>2 DEF HomeInv, JobsAdded, OneHome
<1>4. Running' = Running \ {j} /\ j \in Running
  BY <1>1, <1>2, ListAssumption DEF Running
<1>5. Ended' = Ended \cup {j}
  <2>1. ASSUME NEW k \in added
        PROVE  k \in Ended' <=> k \in Ended \/ k = j
    BY <1>1, <1>2, <1>3, ListAssumption DEF Ended, TypeOK
  <2>2. QED
    BY <1>3, <2>1 DEF Ended
<1>6. QED
  BY <1>4, <1>5 DEF Service!End

LEMMA RunJobEnds ==
  ASSUME TypeOK, HomeInv, NEW w \in Workers, RunJob(w)
  PROVE  \/ Service!End(current[w]) /\ current[w] \in Jobs
         \/ Service!jobVars' = Service!jobVars
<1>1. /\ current[w] \in Jobs
      /\ UNCHANGED <<pending, completed, listOf, added, fetched, shutdown>>
  BY DEF RunJob, poolVars, TypeOK
<1>2. CASE current' = current
  BY <1>1, <1>2, SameView DEF Service!jobVars
<1>3. CASE current' = [current EXCEPT ![w] = NoJob] /\ listOf[current[w]] \notin Lists
  <2>1. Results' = [l \in Lists |-> IF l = listOf[current[w]] THEN Results[l] \cup {current[w]} ELSE Results[l]]
    BY <1>1, <1>3 DEF Results
  <2>2. QED
    BY <1>1, <1>3, <2>1, JobEnds
<1>4. QED
  BY <1>2, <1>3 DEF RunJob

LEMMA StoreResultEnds ==
  ASSUME TypeOK, HomeInv, NEW w \in Workers, StoreResult(w)
  PROVE  Service!End(current[w]) /\ current[w] \in Jobs
<1>1. /\ current' = [current EXCEPT ![w] = NoJob]
      /\ UNCHANGED <<pending, listOf, added, fetched, shutdown>>
  BY DEF StoreResult, poolVars
<1> DEFINE j == current[w]
           d == listOf[j]
<1>2. /\ d \in Lists /\ j \in Jobs
      /\ Range(completed'[d]) = Range(completed[d]) \cup {j}
      /\ \A l \in Lists : l # d => Range(completed'[l]) = Range(completed[l])
  BY StoreResultHome
<1>3. Results' = [l \in Lists |-> IF l = d THEN Results[l] \cup {j} ELSE Results[l]]
  <2> HIDE DEF d, j
  <2>1. \A l \in Lists : Range(completed'[l]) = IF l = d THEN Results[l] \cup {j} ELSE Results[l]
    BY <1>2 DEF Results
  <2>2. QED
    BY <2>1 DEF Results
<1>4. QED
  BY <1>1, <1>2, <1>3, JobEnds

LEMMA FetchResultFetches ==
  ASSUME TypeOK, HomeInv, NEW c \in Clients, FetchResult(c)
  PROVE  \E j \in Jobs : Service!Fetch(j)
<1> DEFINE d == wants[c]
           j == Head(completed[d])
<1>1. /\ fetched' = fetched \cup {j}
      /\ UNCHANGED <<pending, current, listOf, added, shutdown>>
  BY DEF FetchResult, poolVars
<1>2. /\ d \in Lists /\ j \in Jobs /\ j \in Range(completed[d])
      /\ Range(completed'[d]) = Range(completed[d]) \ {j}
      /\ \A l \in Lists : l # d => Range(completed'[l]) = Range(completed[l])
  BY FetchResultHome
<1> HIDE DEF d, j
<1>3. Results' = [Results EXCEPT ![d] = Results[d] \ {j}]
  BY <1>2 DEF Results
<1>4. j \in Results[d]
  BY <1>2 DEF Results
<1>5. Running' = Running /\ Ended' = Ended
  BY DEF FetchResult, Running, Ended
<1>6. Service!Fetch(j)
  BY <1>1, <1>2, <1>3, <1>4, <1>5 DEF Service!Fetch
<1>7. QED
  BY <1>2, <1>6

\* Jobs are begun in the order in which they were added, each once, no more of them at a time than
\* there are workers and none after the shutdown, and a value is fetched once from the list
\* it was meant for: for any number of workers, clients, jobs and lists.
THEOREM PoolIsService == Spec => ImplementsService
<1>1. Init => Service!Init
  <2> SUFFICES ASSUME Init
               PROVE  Service!Init
    OBVIOUS
  <2>1. Range(<<>>) = {}
    BY DEF Range
  <2>2. /\ pending = <<>> /\ completed = [l \in Lists |-> <<>>]
        /\ \A w \in Workers : current[w] = NoJob
        /\ listOf = [j \in Jobs |-> NoList] /\ fetched = {} /\ added = {} /\ shutdown = FALSE
    BY DEF Init
  <2>3. Running = {} /\ Ended = {} /\ Results = [l \in Lists |-> {}]
    BY <2>1, <2>2, ListAssumption DEF Running, Ended, Results
  <2>4. QED
    BY <2>2, <2>3 DEF Service!Init
<1>2. TypeOK /\ HomeInv /\ [Next]_vars => [Service!Next]_Service!jobVars
  <2> SUFFICES ASSUME TypeOK, HomeInv, [Next]_vars
               PROVE  [Service!Next]_Service!jobVars
    OBVIOUS
  <2>1. CASE \/ \E w \in Workers : Sleep(w) \/ SpuriousWakeup(w) \/ Exit(w)
             \/ \E c \in Clients : Wait(c) \/ \E l \in Lists : GetJob(c, l)
             \/ Close \/ UNCHANGED vars
    <3>1. UNCHANGED <<pending, current, completed, listOf, added, fetched>>
      BY <2>1, QuietSteps
    <3>2. shutdown' = shutdown
      BY <2>1 DEF Sleep, SpuriousWakeup, Exit, Wait, GetJob, Close, vars, poolVars
    <3>3. QED
      BY <3>1, <3>2, SameView DEF Service!jobVars
  <2>2. CASE Shutdown
    <3>1. UNCHANGED <<pending, current, completed, listOf, added, fetched>> /\ shutdown' = TRUE
      BY <2>2 DEF Shutdown
    <3>2. Service!Stop
      BY <3>1, SameView DEF Service!Stop
    <3>3. QED
      BY <3>2 DEF Service!Next
  <2>3. ASSUME NEW w \in Workers, TakeJob(w) \/ RunJob(w) \/ StoreResult(w)
        PROVE  [Service!Next]_Service!jobVars
    BY <2>3, TakeJobBegins, RunJobEnds, StoreResultEnds DEF Service!Next
  <2>4. CASE \E j \in Jobs, l \in Lists \cup {NoList} : AddJob(j, l)
    BY <2>4, AddJobAdds DEF Service!Next
  <2>5. CASE \E c \in Clients : FetchResult(c)
    BY <2>5, FetchResultFetches DEF Service!Next
  <2>6. QED
    BY <2>1, <2>2, <2>3, <2>4, <2>5 DEF Next, WorkerStep, ClientStep
<1>3. Init => TypeOK /\ AddedInv /\ HomeInv
  BY InitInv, InitHome
<1>4. TypeOK /\ AddedInv /\ HomeInv /\ [Next]_vars => (TypeOK /\ AddedInv /\ HomeInv)'
  BY NextType, NextHome
<1>5. QED
  BY <1>1, <1>2, <1>3, <1>4, PTL DEF Spec, ImplementsService, Service!Spec
=============================================================================
