----------------------------- MODULE ThreadPool -----------------------------
(***************************************************************************)
(* libcon/src/thread_pool.c: a pool of threads that run jobs from a list,  *)
(* as the daemons' packet pipelines, IPC handlers and nonce timers use it. *)
(*                                                                         *)
(* A step is one critical section: of the pool's pj_mutex (the pending     *)
(* jobs) or of a completed_jobs_t list's mutex; the job itself runs        *)
(* between two of them.  A thread blocked in pthread_cond_wait is asleep;  *)
(* a signal, a broadcast or a spurious wakeup makes it woken, and it goes  *)
(* on when it gets the mutex back.                                         *)
(***************************************************************************)
EXTENDS Integers, Sequences, FiniteSets, Functions

CONSTANTS Workers,   \* the pool's threads
          Clients,   \* threads that fetch return values
          Jobs,      \* calls of tpool_add_job
          Lists,     \* completed_jobs_t lists
          OwnList,   \* the pool's own one, pool->completed_jobs
          NoList,    \* the list of a job added with TPOOL_NO_RV
          NoJob      \* what an idle worker runs

ASSUME WorkerAssumption == IsFiniteSet(Workers) /\ Workers # {}
ASSUME ClientAssumption == IsFiniteSet(Clients)
ASSUME ListAssumption == /\ OwnList \in Lists /\ NoList \notin Lists
                         /\ NoJob \notin Jobs

VARIABLES pool,       \* "open", "joining" in tpool_shutdown, "closed", "crashed"
          shutdown,   \* pool->shutdown
          pending,    \* pool->pending_jobs
          worker,     \* where each worker is
          current,    \* the job a worker runs, or whose value it has yet to store
          completed,  \* completed[l]: jobs whose return values are in list l
          client,     \* where each client is
          wants,      \* the list a client fetches from
          listOf,     \* listOf[j]: where job j's value goes; set when it is added
          added,      \* jobs given to tpool_add_job
          runs,       \* runs[j]: how often job j has been run
          fetched     \* jobs whose value a client got

poolVars == <<pool, shutdown>>
clientVars == <<client, wants>>
vars == <<pool, shutdown, pending, worker, current, completed, client, wants, listOf,
          added, runs, fetched>>

TypeOK ==
    /\ pool \in {"open", "joining", "closed", "crashed"}
    /\ shutdown \in BOOLEAN
    /\ pending \in Seq(Jobs)
    /\ worker \in [Workers -> {"ready", "asleep", "woken", "running", "storing", "exited"}]
    /\ current \in [Workers -> Jobs \cup {NoJob}]
    /\ completed \in [Lists -> Seq(Jobs)]
    /\ client \in [Clients -> {"idle", "ready", "asleep", "woken"}]
    /\ wants \in [Clients -> Lists \cup {NoList}]
    /\ listOf \in [Jobs -> Lists \cup {NoList}]
    /\ added \subseteq Jobs
    /\ runs \in [Jobs -> Nat]
    /\ fetched \subseteq Jobs
    /\ \A w \in Workers :
          /\ worker[w] \in {"running", "storing"} => current[w] \in Jobs
          /\ worker[w] = "storing" => listOf[current[w]] \in Lists
    /\ \A c \in Clients : client[c] # "idle" => wants[c] \in Lists

Init ==
    /\ pool = "open"
    /\ shutdown = FALSE
    /\ pending = <<>>
    /\ worker = [w \in Workers |-> "ready"]
    /\ current = [w \in Workers |-> NoJob]
    /\ completed = [l \in Lists |-> <<>>]
    /\ client = [c \in Clients |-> "idle"]
    /\ wants = [c \in Clients |-> NoList]
    /\ listOf = [j \in Jobs |-> NoList]
    /\ added = {}
    /\ runs = [j \in Jobs |-> 0]
    /\ fetched = {}

\* The process is alive; the pool's memory is still there.
Alive == pool # "crashed"
PoolAllocated == pool \in {"open", "joining"}

Sleepers == {w \in Workers : worker[w] = "asleep"}
WokenWorkers == {w \in Workers : worker[w] = "woken"}
Waiters(l) == {c \in Clients : client[c] = "asleep" /\ wants[c] = l}
WokenClients(l) == {c \in Clients : client[c] = "woken" /\ wants[c] = l}

-----------------------------------------------------------------------------
(* tpool_add_job.                                                          *)

\* pthread_cond_signal(&pool->pj_cond): wakes one sleeping worker, if any.
SignalWorker ==
    \/ Sleepers = {} /\ UNCHANGED worker
    \/ \E w \in Sleepers : worker' = [worker EXCEPT ![w] = "woken"]

\* Mutant of AddJob: nobody is signalled.
AddJobSilent(j, l) ==
    /\ PoolAllocated /\ j \notin added
    /\ added' = added \cup {j}
    /\ listOf' = [listOf EXCEPT ![j] = l]
    /\ pending' = Append(pending, j)
    /\ UNCHANGED <<poolVars, worker, current, completed, clientVars, runs, fetched>>

AddJob(j, l) ==
    /\ PoolAllocated /\ j \notin added
    /\ added' = added \cup {j}
    /\ listOf' = [listOf EXCEPT ![j] = l]
    /\ pending' = Append(pending, j)
    /\ SignalWorker
    /\ UNCHANGED <<poolVars, current, completed, clientVars, runs, fetched>>

-----------------------------------------------------------------------------
(* tpool_worker.                                                           *)

\* A worker that gets pj_mutex, at the top of its loop or back from a wait.
AtLoop(w) == Alive /\ worker[w] \in {"ready", "woken"}

\* Mutant of TakeJob: the newest job first.
TakeNewest(w) ==
    /\ AtLoop(w) /\ ~shutdown /\ pending # <<>>
    /\ current' = [current EXCEPT ![w] = pending[Len(pending)]]
    /\ pending' = SubSeq(pending, 1, Len(pending) - 1)
    /\ worker' = [worker EXCEPT ![w] = "running"]
    /\ UNCHANGED <<poolVars, completed, clientVars, listOf, added, runs, fetched>>

\* Mutant of TakeJob: the job stays in the list.
TakeAndKeep(w) ==
    /\ AtLoop(w) /\ ~shutdown /\ pending # <<>>
    /\ current' = [current EXCEPT ![w] = Head(pending)]
    /\ worker' = [worker EXCEPT ![w] = "running"]
    /\ UNCHANGED <<poolVars, pending, completed, clientVars, listOf, added, runs, fetched>>

TakeJob(w) ==
    /\ AtLoop(w) /\ ~shutdown /\ pending # <<>>
    /\ current' = [current EXCEPT ![w] = Head(pending)]
    /\ pending' = Tail(pending)
    /\ worker' = [worker EXCEPT ![w] = "running"]
    /\ UNCHANGED <<poolVars, completed, clientVars, listOf, added, runs, fetched>>

\* Mutant of Sleep: the worker waits again without looking at shutdown.
SleepRegardless(w) ==
    /\ AtLoop(w) /\ pending = <<>>
    /\ worker' = [worker EXCEPT ![w] = "asleep"]
    /\ UNCHANGED <<poolVars, pending, current, completed, clientVars, listOf, added, runs,
                   fetched>>

Sleep(w) ==
    /\ AtLoop(w) /\ ~shutdown /\ pending = <<>>
    /\ worker' = [worker EXCEPT ![w] = "asleep"]
    /\ UNCHANGED <<poolVars, pending, current, completed, clientVars, listOf, added, runs,
                   fetched>>

SpuriousWakeup(w) ==
    /\ Alive /\ worker[w] = "asleep"
    /\ worker' = [worker EXCEPT ![w] = "woken"]
    /\ UNCHANGED <<poolVars, pending, current, completed, clientVars, listOf, added, runs,
                   fetched>>

\* The job, outside every lock; one added with TPOOL_NO_RV leaves nothing to store.
RunJob(w) ==
    LET j == current[w] IN
    /\ Alive /\ worker[w] = "running"
    /\ runs' = [runs EXCEPT ![j] = @ + 1]
    /\ IF listOf[j] \in Lists
       THEN worker' = [worker EXCEPT ![w] = "storing"] /\ UNCHANGED current
       ELSE /\ worker' = [worker EXCEPT ![w] = "ready"]
            /\ current' = [current EXCEPT ![w] = NoJob]
    /\ UNCHANGED <<poolVars, pending, completed, clientVars, listOf, added, fetched>>

\* pthread_cond_signal(job->cj_cond).
SignalClient(l) ==
    \/ Waiters(l) = {} /\ UNCHANGED client
    \/ \E c \in Waiters(l) : client' = [client EXCEPT ![c] = "woken"]

\* Mutant of StoreResult: the value of every job goes to the pool's own list.
StoreInOwnList(w) ==
    /\ Alive /\ worker[w] = "storing"
    /\ completed' = [completed EXCEPT ![OwnList] = Append(@, current[w])]
    /\ SignalClient(OwnList)
    /\ worker' = [worker EXCEPT ![w] = "ready"]
    /\ current' = [current EXCEPT ![w] = NoJob]
    /\ UNCHANGED <<poolVars, pending, wants, listOf, added, runs, fetched>>

\* Mutant of StoreResult: a client is woken only when the list was empty.
StoreSignalFirst(w) ==
    LET l == listOf[current[w]] IN
    /\ Alive /\ worker[w] = "storing"
    /\ completed' = [completed EXCEPT ![l] = Append(@, current[w])]
    /\ IF completed[l] = <<>> THEN SignalClient(l) ELSE UNCHANGED client
    /\ worker' = [worker EXCEPT ![w] = "ready"]
    /\ current' = [current EXCEPT ![w] = NoJob]
    /\ UNCHANGED <<poolVars, pending, wants, listOf, added, runs, fetched>>

StoreResult(w) ==
    LET l == listOf[current[w]] IN
    /\ Alive /\ worker[w] = "storing"
    /\ completed' = [completed EXCEPT ![l] = Append(@, current[w])]
    /\ SignalClient(l)
    /\ worker' = [worker EXCEPT ![w] = "ready"]
    /\ current' = [current EXCEPT ![w] = NoJob]
    /\ UNCHANGED <<poolVars, pending, wants, listOf, added, runs, fetched>>

Exit(w) ==
    /\ AtLoop(w) /\ shutdown
    /\ worker' = [worker EXCEPT ![w] = "exited"]
    /\ UNCHANGED <<poolVars, pending, current, completed, clientVars, listOf, added, runs,
                   fetched>>

-----------------------------------------------------------------------------
(* tpool_get_job, on the pool's own list, and tpool_cjl_get_job.           *)

\* The list's memory is there: a caller's own list outlives the pool.
ListAllocated(l) == Alive /\ (l = OwnList => PoolAllocated)

GetJob(c, l) ==
    /\ client[c] = "idle" /\ ListAllocated(l)
    /\ client' = [client EXCEPT ![c] = "ready"]
    /\ wants' = [wants EXCEPT ![c] = l]
    /\ UNCHANGED <<poolVars, pending, worker, current, completed, listOf, added, runs, fetched>>

FetchResult(c) ==
    LET l == wants[c] IN
    /\ client[c] \in {"ready", "woken"} /\ ListAllocated(l)
    /\ completed[l] # <<>>
    /\ fetched' = fetched \cup {Head(completed[l])}
    /\ completed' = [completed EXCEPT ![l] = Tail(@)]
    /\ client' = [client EXCEPT ![c] = "idle"]
    /\ UNCHANGED <<poolVars, pending, worker, current, wants, listOf, added, runs>>

Wait(c) ==
    /\ client[c] \in {"ready", "woken"} /\ ListAllocated(wants[c])
    /\ completed[wants[c]] = <<>>
    /\ client' = [client EXCEPT ![c] = "asleep"]
    /\ UNCHANGED <<poolVars, pending, worker, current, completed, wants, listOf, added, runs,
                   fetched>>

-----------------------------------------------------------------------------
(* tpool_shutdown.                                                         *)

Shutdown ==
    /\ pool = "open"
    /\ pool' = "joining"
    /\ shutdown' = TRUE
    /\ worker' = [w \in Workers |-> IF worker[w] = "asleep" THEN "woken" ELSE worker[w]]
    /\ UNCHANGED <<pending, current, completed, clientVars, listOf, added, runs, fetched>>

\* After the joins the pool's two lists are deleted.  linked_list_delete calls the
\* list's del_fun on every element, and tpool_create gave both lists a NULL one.
Close ==
    /\ pool = "joining" /\ \A w \in Workers : worker[w] = "exited"
    /\ pool' = IF pending = <<>> /\ completed[OwnList] = <<>> THEN "closed" ELSE "crashed"
    /\ UNCHANGED <<shutdown, pending, worker, current, completed, clientVars, listOf, added,
                   runs, fetched>>

-----------------------------------------------------------------------------

WorkerStep(w) == TakeJob(w) \/ Sleep(w) \/ RunJob(w) \/ StoreResult(w) \/ Exit(w)
ClientStep(c) == FetchResult(c) \/ Wait(c)

Next ==
    \/ \E j \in Jobs, l \in Lists \cup {NoList} : AddJob(j, l)
    \/ \E w \in Workers : WorkerStep(w) \/ SpuriousWakeup(w)
    \/ \E c \in Clients : ClientStep(c)
    \/ \E c \in Clients, l \in Lists : GetJob(c, l)
    \/ Shutdown
    \/ Close

Spec == Init /\ [][Next]_vars

\* Threads run, jobs end, and a thread that wants a mutex gets it some time.  Nobody
\* has to add jobs, to fetch values or to shut the pool down, and no spurious wakeup
\* is counted on.
Fairness ==
    /\ \A w \in Workers : WF_vars(WorkerStep(w))
    /\ \A c \in Clients : WF_vars(ClientStep(c))
    /\ WF_vars(Close)

FairSpec == Spec /\ Fairness

-----------------------------------------------------------------------------
(* Properties.                                                             *)

\* Where a job is.
PendingPlaces(j) == {<<"pending", i>> : i \in {k \in DOMAIN pending : pending[k] = j}}
WorkerPlaces(j) == {<<"worker", w>> : w \in {v \in Workers : current[v] = j}}
ListPlaces(j) == UNION {{<<"list", l, i>> : i \in {k \in DOMAIN completed[l] : completed[l][k] = j}}
                       : l \in Lists}
FetchedPlaces(j) == {<<"fetched">> : k \in fetched \cap {j}}
Places(j) == PendingPlaces(j) \cup WorkerPlaces(j) \cup ListPlaces(j) \cup FetchedPlaces(j)

\* A job is run at most once, and is in one place only: in the list of pending jobs,
\* with one worker, in one list of results, or fetched.
RunOnce ==
    \A j \in Jobs : runs[j] <= 1 /\ Cardinality(Places(j)) <= 1

\* No job waits while the threads sleep: as long as some worker is asleep, every
\* pending job has a woken worker of its own on its way to the list.  This is what
\* makes one pthread_cond_signal for each job enough.
WorkHasWorker == Sleepers # {} => Len(pending) <= Cardinality(WokenWorkers)

\* The same of the lists of return values and the clients that wait for them.
ResultHasClient ==
    \A l \in Lists : Waiters(l) # {} => Len(completed[l]) <= Cardinality(WokenClients(l))

\* After the broadcast of tpool_shutdown no worker sleeps any more, so the joins return.
NoSleepAfterShutdown == shutdown => Sleepers = {}

\* Nobody sleeps while there is something to do for it.
PoolInv == TypeOK /\ WorkHasWorker /\ ResultHasClient /\ NoSleepAfterShutdown

Running == {j \in Jobs : \E w \in Workers : current[w] = j}
Results == [l \in Lists |-> Range(completed[l])]
Ended == {j \in added : j \notin Range(pending) /\ \A w \in Workers : current[w] # j}

\* The pool implements the job service.
Service == INSTANCE JobService
             WITH queue <- pending, running <- Running, results <- Results, listOf <- listOf,
                  fetched <- fetched, ended <- Ended, stopped <- shutdown,
                  PoolSize <- Cardinality(Workers)
ImplementsService == Service!Spec

\* Every job added is run, unless the pool is shut down.
JobsRun == \A j \in Jobs : j \in added ~> runs[j] = 1 \/ shutdown

\* A client does not stay blocked while there is a value in its list.
ValuesFetched ==
    \A c \in Clients, l \in Lists :
        client[c] # "idle" /\ wants[c] = l /\ completed[l] # <<>>
            ~> client[c] = "idle" \/ completed[l] = <<>> \/ ~ListAllocated(l)

\* tpool_shutdown comes to the end of its joins, whatever the workers were doing.
ShutdownEnds == pool = "joining" ~> pool \in {"closed", "crashed"}
=============================================================================
