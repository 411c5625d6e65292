----------------------------- MODULE JobService -----------------------------
(***************************************************************************)
(* What a thread pool promises (include/thread_pool.h): jobs are begun in  *)
(* the order they were added, no more of them at a time than there are     *)
(* threads, each once; a job's return value goes to the list named when    *)
(* the job was added, or nowhere, and is fetched from there once.  A pool  *)
(* that is shut down begins no further job ("may lose data").              *)
(***************************************************************************)
EXTENDS Integers, Sequences, FiniteSets, Functions

CONSTANTS Jobs,      \* jobs
          Lists,     \* completed_jobs_t lists, the pool's own among them
          NoList,    \* the list of a job added with TPOOL_NO_RV
          PoolSize   \* number of threads

VARIABLES queue,     \* jobs added and not begun, oldest first
          running,   \* jobs begun and not ended
          results,   \* results[l]: ended jobs whose value is in list l
          listOf,    \* listOf[j]: the list job j's value goes to
          fetched,   \* jobs whose return value somebody got
          ended,     \* jobs that have ended
          stopped    \* the pool is shut down

jobVars == <<queue, running, results, listOf, fetched, ended, stopped>>

Init ==
    /\ queue = <<>>
    /\ running = {}
    /\ results = [l \in Lists |-> {}]
    /\ listOf = [j \in Jobs |-> NoList]
    /\ fetched = {}
    /\ ended = {}
    /\ stopped = FALSE

Known == running \cup ended \cup Range(queue)

Add(j, l) ==
    /\ j \notin Known
    /\ queue' = Append(queue, j)
    /\ listOf' = [listOf EXCEPT ![j] = l]
    /\ UNCHANGED <<running, results, fetched, ended, stopped>>

Begin ==
    /\ ~stopped /\ queue # <<>> /\ Cardinality(running) < PoolSize
    /\ running' = running \cup {Head(queue)}
    /\ queue' = Tail(queue)
    /\ UNCHANGED <<results, listOf, fetched, ended, stopped>>

End(j) ==
    /\ j \in running
    /\ running' = running \ {j}
    /\ ended' = ended \cup {j}
    /\ results' = [l \in Lists |-> IF l = listOf[j] THEN results[l] \cup {j} ELSE results[l]]
    /\ UNCHANGED <<queue, listOf, fetched, stopped>>

Fetch(j) ==
    /\ \E l \in Lists : /\ j \in results[l]
                        /\ results' = [results EXCEPT ![l] = @ \ {j}]
    /\ fetched' = fetched \cup {j}
    /\ UNCHANGED <<queue, running, listOf, ended, stopped>>

Stop ==
    /\ stopped' = TRUE
    /\ UNCHANGED <<queue, running, results, listOf, fetched, ended>>

Next ==
    \/ \E j \in Jobs : \/ \E l \in Lists \cup {NoList} : Add(j, l)
                       \/ End(j) \/ Fetch(j)
    \/ Begin
    \/ Stop

Spec == Init /\ [][Next]_jobVars
=============================================================================
