----------------------------- MODULE PitProofs -----------------------------
(***************************************************************************)
(* Proofs about the pending interest table, for every number of threads,   *)
(* entries, names and retries.                                             *)
(***************************************************************************)
EXTENDS Pit, TLAPS

\* A thread whose handle refers to an entry.
HasHandle(t) ==
    pc[t] \in {"lockEntry", "hit", "close", "clear", "lockNew", "send", "wait",
               "signalled", "timedOut", "done"}

\* What TypeOK leaves out of the threads' types: which states belong to which
\* kind of thread, and that a busy thread has a name and, where it needs one, a handle.
ThreadInv ==
    /\ \A w \in Workers :
          /\ pc[w] \in WorkerPC
          /\ pc[w] # "idle" => job[w].kind \in {"interest", "data"}
    /\ \A e \in Expressers : pc[e] \in ExpresserPC
    /\ \A t \in Threads :
          /\ pc[t] # "idle" => job[t].name \in Names
          /\ HasHandle(t) => pe[t].index \in Slots

\* The slots are positive integers, so 0 is the index of no slot.
LEMMA SlotFacts == /\ 0 \notin Slots
                   /\ Slots \subseteq Nat
  BY BoundAssumption DEF Slots

\* What the operations on one entry return is an entry.
LEMMA EntryFacts ==
  ASSUME now \in Nat
  PROVE  /\ EmptyEntry \in Entry
         /\ \A entry \in Entry :
               /\ ClearedEntry(entry) \in Entry
               /\ Refreshed(entry) \in Entry
               /\ [entry EXCEPT !.expires = 0] \in Entry
               /\ [entry EXCEPT !.available = FALSE] \in Entry
               /\ [entry EXCEPT !.available = TRUE] \in Entry
               /\ \A n \in Names : WithObject(entry, n) \in Entry
         /\ \A n \in Names, r \in BOOLEAN, o \in Names \cup {NoName} :
               NewEntry(n, r, o) \in Entry
<1>1. EmptyEntry \in Entry
  BY DEF EmptyEntry, Entry
<1>2. ASSUME NEW entry \in Entry
      PROVE  /\ ClearedEntry(entry) \in Entry
             /\ Refreshed(entry) \in Entry
             /\ [entry EXCEPT !.expires = 0] \in Entry
             /\ [entry EXCEPT !.available = FALSE] \in Entry
             /\ [entry EXCEPT !.available = TRUE] \in Entry
             /\ \A n \in Names : WithObject(entry, n) \in Entry
  <2>1. now + Lifetime \in Nat
    BY BoundAssumption
  <2>2. ClearedEntry(entry) \in Entry
    BY DEF ClearedEntry, Entry, EmptyEntry
  <2>3. Refreshed(entry) \in Entry
    BY <2>1 DEF Refreshed, Entry
  <2>4. [entry EXCEPT !.expires = 0] \in Entry
    BY DEF Entry
  <2>5. [entry EXCEPT !.available = FALSE] \in Entry
    BY DEF Entry
  <2>6. [entry EXCEPT !.available = TRUE] \in Entry
    BY DEF Entry
  <2>7. \A n \in Names : WithObject(entry, n) \in Entry
    BY DEF WithObject, Entry
  <2>8. QED
    BY <2>2, <2>3, <2>4, <2>5, <2>6, <2>7
<1>3. \A n \in Names, r \in BOOLEAN, o \in Names \cup {NoName} :
         NewEntry(n, r, o) \in Entry
  BY BoundAssumption DEF NewEntry, Entry
<1>4. QED
  BY <1>1, <1>2, <1>3

TypeInv == TypeOK /\ ThreadInv

\* The initial state is typed.
LEMMA InitTypeInv == Init => TypeInv
  BY BoundAssumption, ThreadAssumption, SlotFacts
  DEF Init, TypeInv, TypeOK, ThreadInv, HasHandle, EmptyEntry, Entry, Threads,
      NoHandle, NoJob, WorkerPC, ExpresserPC

\* No step of a worker disturbs the types.
LEMMA WorkerTypeInv ==
  ASSUME TypeInv, NEW w \in Workers, WorkerStep(w) \/ WorkerFullStep(w)
  PROVE  TypeInv'
<1> USE ThreadAssumption, SlotFacts
    DEF TypeInv, TypeOK, ThreadInv, HasHandle, Threads, tableVars, Goto, WorkerPC, ExpresserPC
<1>0. now \in Nat /\ w \in Threads
  OBVIOUS
<1>1. CASE SearchMiss(w)
  BY <1>1 DEF SearchMiss, MissLabel
<1>2. CASE SearchHit(w)
  BY <1>2 DEF SearchHit, First, MatchingSlots
<1>3. CASE MatchFails(w)
  BY <1>3 DEF MatchFails, MissLabel, NoHandle
<1>4. CASE MatchSucceeds(w)
  <2> DEFINE s == pe[w].index
  <2>1. s \in Slots /\ table[s] \in Entry /\ table[s].registered \in BOOLEAN
    BY <1>4 DEF MatchSucceeds, Entry
  <2>2. table' = [table EXCEPT ![s] = [@ EXCEPT !.available = FALSE]]
    BY <1>4 DEF MatchSucceeds
  <2>3. table' \in [Slots -> Entry]
    BY <1>0, <2>1, <2>2, EntryFacts
  <2>4. QED
    BY <1>4, <2>1, <2>3 DEF MatchSucceeds
<1>5. CASE InterestHit(w)
  BY <1>0, <1>5, EntryFacts DEF InterestHit
<1>6. CASE CloseEntry(w)
  BY <1>0, <1>6, EntryFacts DEF CloseEntry, NoHandle
<1>7. CASE DataForApplication(w)
  <2> DEFINE s == pe[w].index
  <2>1. s \in Slots /\ job[w].name \in Names
    BY <1>7 DEF DataForApplication
  <2>2. table' \in [Slots -> Entry]
    <3>1. WithObject(table[s], job[w].name) \in Entry
      BY <1>0, <2>1, EntryFacts
    <3>2. Refreshed(WithObject(table[s], job[w].name)) \in Entry
      BY <1>0, <3>1, EntryFacts
    <3>3. QED
      BY <1>7, <2>1, <3>2 DEF DataForApplication
  <2>3. CASE pc' = [pc EXCEPT ![w] = "idle"]
    BY <1>7, <2>2, <2>3 DEF DataForApplication, NoHandle
  <2>4. CASE \E e \in Expressers :
                pc[e] = "wait" /\ pc' = [pc EXCEPT ![w] = "idle", ![e] = "signalled"]
    <3>1. PICK e \in Expressers :
            pc[e] = "wait" /\ pc' = [pc EXCEPT ![w] = "idle", ![e] = "signalled"]
      BY <2>4
    <3>2. e # w /\ e \in Threads
      OBVIOUS
    <3>3. /\ pc'[w] = "idle" /\ pc'[e] = "signalled"
          /\ \A t \in Threads : t # w /\ t # e => pc'[t] = pc[t]
          /\ pc' \in [Threads -> WorkerPC \cup ExpresserPC]
      BY <1>0, <3>1, <3>2
    <3>4. /\ pe' = [pe EXCEPT ![w] = NoHandle] /\ job' = job
          /\ mutex' = [mutex EXCEPT ![s] = NoThread]
          /\ UNCHANGED <<now, pitLock, attempts, got, requests>>
      BY <1>7 DEF DataForApplication
    <3>5. TypeOK'
      BY <2>2, <3>3, <3>4 DEF NoHandle
    <3>6. ThreadInv'
      BY <1>0, <3>1, <3>2, <3>3, <3>4 DEF NoHandle
    <3>7. QED
      BY <3>5, <3>6
  <2>5. QED
    BY <1>7, <2>3, <2>4 DEF DataForApplication
<1>8. CASE DataForNetwork(w)
  BY <1>0, <1>8, EntryFacts DEF DataForNetwork, ReleaseEntry
<1>9. CASE ClearEntry(w)
  BY <1>0, <1>9, EntryFacts DEF ClearEntry, NoHandle
<1>10. CASE InterestMiss(w)
  <2>1. pc[w] = "miss" /\ \E label \in {"idle", "add"} : pc' = [pc EXCEPT ![w] = label]
    BY <1>10 DEF InterestMiss
  <2>2. UNCHANGED <<now, tableVars, job, pe, attempts, got, requests>>
    BY <1>10 DEF InterestMiss
  <2>3. TypeOK'
    BY <1>0, <2>1, <2>2
  <2>4. ThreadInv'
    BY <1>0, <2>1, <2>2
  <2>5. QED
    BY <2>3, <2>4
<1>11. CASE AddEntry(w)
  <2>1. PICK s \in Slots :
          table' = [table EXCEPT ![s] = NewEntry(job[w].name, FALSE, table[s].obj)]
    BY <1>11 DEF AddEntry, First, FreeSlots
  <2>2. table[s].obj \in Names \cup {NoName} /\ job[w].name \in Names
    BY <1>0, <1>11 DEF AddEntry, Entry
  <2>3. table' \in [Slots -> Entry]
    BY <1>0, <2>1, <2>2, EntryFacts
  <2>4. QED
    BY <1>11, <2>3 DEF AddEntry
<1>12. CASE AddEntryEvicting(w)
  <2>1. PICK s \in Slots :
          table' = [table EXCEPT ![s] = NewEntry(job[w].name, FALSE, NoName)]
    BY <1>12 DEF AddEntryEvicting, Victims, Evictable
  <2>2. job[w].name \in Names
    BY <1>0, <1>12 DEF AddEntryEvicting
  <2>3. table' \in [Slots -> Entry]
    BY <1>0, <2>1, <2>2, EntryFacts
  <2>4. QED
    BY <1>12, <2>3 DEF AddEntryEvicting
<1>13. CASE AddEntryFull(w)
  BY <1>13 DEF AddEntryFull
<1>14. QED
  BY <1>1, <1>2, <1>3, <1>4, <1>5, <1>6, <1>7, <1>8, <1>9, <1>10, <1>11, <1>12, <1>13
  DEF WorkerStep, WorkerFullStep

\* Nor does a step of an application thread.
LEMMA ExpresserTypeInv ==
  ASSUME TypeInv, NEW e \in Expressers, ExpresserStep(e) \/ ExpresserFullStep(e)
  PROVE  TypeInv'
<1> USE ThreadAssumption, BoundAssumption, SlotFacts
    DEF TypeInv, TypeOK, ThreadInv, HasHandle, Threads, tableVars, Goto, WorkerPC, ExpresserPC
<1>0. now \in Nat /\ e \in Threads
  OBVIOUS
<1>1. ASSUME NEW s \in Slots, NEW o \in Names \cup {NoName}, pc[e] = "alloc",
             RegisterAt(e, s, o), UNCHANGED <<now, mutex, job, attempts, got, requests>>
      PROVE  TypeInv'
  <2>1. NewEntry(job[e].name, TRUE, o) \in Entry
    BY <1>0, <1>1, EntryFacts
  <2>2. table' \in [Slots -> Entry]
    BY <1>1, <2>1 DEF RegisterAt
  <2>3. QED
    BY <1>0, <1>1, <2>2 DEF RegisterAt
<1>2. CASE GetHandle(e)
  <2>1. PICK s \in Slots : RegisterAt(e, s, table[s].obj)
    BY <1>2 DEF GetHandle, First, FreeSlots
  <2>2. table[s].obj \in Names \cup {NoName}
    BY DEF Entry
  <2>3. QED
    BY <1>1, <1>2, <2>1, <2>2 DEF GetHandle
<1>3. CASE GetHandleEvicting(e)
  <2>1. PICK s \in Slots : RegisterAt(e, s, NoName)
    BY <1>3 DEF GetHandleEvicting, Victims, Evictable
  <2>2. QED
    BY <1>1, <1>3, <2>1 DEF GetHandleEvicting
<1>4. CASE GetHandleFull(e)
  BY <1>4 DEF GetHandleFull
<1>5. CASE LockNew(e)
  BY <1>5 DEF LockNew
<1>6. CASE Send(e)
  <2>1. table' \in [Slots -> Entry]
    BY <1>0, <1>6, EntryFacts DEF Send
  <2>2. attempts[e] \in 0..Retries /\ attempts[e] < Retries
    BY <1>6 DEF Send
  <2>3. attempts[e] + 1 \in 0..Retries
    BY <2>2
  <2>4. attempts' \in [Expressers -> 0..Retries]
    BY <1>6, <2>3 DEF Send
  <2>5. /\ pc[e] = "send" /\ pe' = pe /\ job' = job
        /\ UNCHANGED <<now, pitLock, got, requests>>
    BY <1>6 DEF Send
  <2>6. mutex' \in [Slots -> Threads \cup {NoThread}]
    BY <1>6 DEF Send
  <2>7. \E label \in {"wait", "done"} : pc' = [pc EXCEPT ![e] = label]
    BY <1>6 DEF Send
  <2>8. QED
    BY <2>1, <2>4, <2>5, <2>6, <2>7
<1>7. CASE GiveUp(e)
  BY <1>7 DEF GiveUp
<1>8. CASE TimeOut(e)
  BY <1>8 DEF TimeOut
<1>9. CASE WakeWithObject(e)
  BY <1>9 DEF WakeWithObject
<1>10. CASE WakeWithout(e)
  <2>1. CASE pc[e] = "timedOut" /\ mutex' = [mutex EXCEPT ![pe[e].index] = e]
               /\ pc' = [pc EXCEPT ![e] = "send"]
    BY <1>10, <2>1 DEF WakeWithout
  <2>2. CASE pc[e] = "signalled" /\ mutex' = mutex /\ pc' = [pc EXCEPT ![e] = "wait"]
    BY <1>10, <2>2 DEF WakeWithout
  <2>3. QED
    BY <1>10, <2>1, <2>2 DEF WakeWithout
<1>11. CASE Finish(e)
  <2>1. pe[e].index \in Slots
    BY <1>11 DEF Finish
  <2>2. table[pe[e].index] \in Entry /\ table[pe[e].index].obj \in Names \cup {NoName}
    BY <2>1 DEF Entry
  <2>3. table' \in [Slots -> Entry]
    BY <1>0, <1>11, <2>2, EntryFacts DEF Finish, ReleaseEntry
  <2>4. QED
    BY <1>11, <2>2, <2>3 DEF Finish, ReleaseEntry
<1>12. CASE ClearEntry(e)
  <2>1. table' \in [Slots -> Entry]
    BY <1>0, <1>12, EntryFacts DEF ClearEntry
  <2>2. QED
    BY <1>12, <2>1 DEF ClearEntry, NoHandle
<1>13. QED
  BY <1>2, <1>3, <1>4, <1>5, <1>6, <1>7, <1>8, <1>9, <1>10, <1>11, <1>12
  DEF ExpresserStep, ExpresserFullStep

\* Every step keeps the types.
LEMMA NextTypeInv == TypeInv /\ [Next]_vars => TypeInv'
<1> SUFFICES ASSUME TypeInv, [Next]_vars
             PROVE  TypeInv'
  OBVIOUS
<1> USE ThreadAssumption, BoundAssumption
<1>1. ASSUME NEW w \in Workers, NEW k \in {"interest", "data"}, NEW n \in Names,
             Receive(w, k, n)
      PROVE  TypeInv'
  BY <1>1 DEF Receive, TypeInv, TypeOK, ThreadInv, HasHandle, Threads, tableVars, Goto,
              WorkerPC, ExpresserPC
<1>2. ASSUME NEW e \in Expressers, NEW n \in Names, Express(e, n)
      PROVE  TypeInv'
  BY <1>2 DEF Express, TypeInv, TypeOK, ThreadInv, HasHandle, Threads, tableVars, Goto,
              WorkerPC, ExpresserPC
<1>3. CASE Tick
  BY <1>3 DEF Tick, TypeInv, TypeOK, ThreadInv, HasHandle, tableVars, threadVars
<1>4. CASE UNCHANGED vars
  BY <1>4 DEF vars, TypeInv, TypeOK, ThreadInv, HasHandle
<1>5. QED
  BY <1>1, <1>2, <1>3, <1>4, WorkerTypeInv, ExpresserTypeInv
  DEF Next, RoomyNext, FullNext, Arrival

\* Every behaviour of the table and its threads keeps the types, a full table
\* included.
THEOREM TypeCorrect == Spec => []TypeOK
<1>1. Init => TypeInv
  BY InitTypeInv
<1>2. TypeInv /\ [Next]_vars => TypeInv'
  BY NextTypeInv
<1>3. TypeInv => TypeOK
  BY DEF TypeInv
<1>4. QED
  BY <1>1, <1>2, <1>3, PTL DEF Spec

-----------------------------------------------------------------------------
(* Locks and names, with or without a full table.                          *)

\* A step that takes no entry mutex, gives none up, and moves no thread in or out
\* of the states that hold one keeps MutexOwner.
LEMMA MutexUnmoved ==
  ASSUME TypeInv, MutexOwner, NEW t \in Threads,
         mutex' = mutex,
         \A u \in Threads : u # t => pe'[u] = pe[u] /\ (Holding(u)' <=> Holding(u)),
         ~Holding(t), ~Holding(t)'
  PROVE  MutexOwner'
<1>1. ASSUME NEW u \in Threads, Holding(u)'
      PROVE  pe'[u].index # 0 /\ mutex'[pe'[u].index] = u
  <2>1. u # t
    BY <1>1
  <2>2. Holding(u) /\ pe'[u] = pe[u]
    BY <1>1, <2>1
  <2>3. QED
    BY <2>2 DEF MutexOwner
<1>2. ASSUME NEW s \in Slots, mutex'[s] # NoThread
      PROVE  \E u \in Threads : mutex'[s] = u /\ Holding(u)' /\ pe'[u].index = s
  <2>1. PICK u \in Threads : mutex[s] = u /\ mutex'[s] = u /\ Holding(u) /\ pe[u].index = s
    BY <1>2 DEF MutexOwner, TypeInv, TypeOK
  <2>2. u # t
    BY <2>1
  <2>3. Holding(u)' /\ pe'[u] = pe[u]
    BY <2>1, <2>2
  <2>4. QED
    BY <2>1, <2>3
<1>3. QED
  BY <1>1, <1>2 DEF MutexOwner, Holding

\* Taking a free mutex keeps it, if the thread's handle refers to that entry.
LEMMA MutexTaken ==
  ASSUME TypeInv, MutexOwner, NEW t \in Threads, NEW s \in Slots,
         mutex[s] = NoThread, mutex' = [mutex EXCEPT ![s] = t],
         pe'[t].index = s, Holding(t)', ~Holding(t),
         \A u \in Threads : u # t => pe'[u] = pe[u] /\ (Holding(u)' <=> Holding(u))
  PROVE  MutexOwner'
BY ThreadAssumption, SlotFacts DEF MutexOwner, TypeInv, TypeOK, Threads

\* So does giving up the mutex of the entry it refers to.
LEMMA MutexGiven ==
  ASSUME TypeInv, MutexOwner, NEW t \in Threads, Holding(t),
         mutex' = [mutex EXCEPT ![pe[t].index] = NoThread], ~Holding(t)',
         \A u \in Threads : u # t => pe'[u] = pe[u] /\ (Holding(u)' <=> Holding(u))
  PROVE  MutexOwner'
BY ThreadAssumption, SlotFacts DEF MutexOwner, TypeInv, TypeOK, Threads

\* A step that leaves the mutexes, and who works on which entry, as they are.
LEMMA MutexKept ==
  ASSUME TypeInv, MutexOwner, NEW t \in Threads, Holding(t), Holding(t)',
         mutex' = mutex, pe' = pe,
         \A u \in Threads : u # t => (Holding(u)' <=> Holding(u))
  PROVE  MutexOwner'
BY ThreadAssumption, SlotFacts DEF MutexOwner, TypeInv, TypeOK, Threads

\* Every step keeps the owners of the mutexes right.
LEMMA NextMutexOwner == TypeInv /\ MutexOwner /\ [Next]_vars => MutexOwner'
<1> SUFFICES ASSUME TypeInv, MutexOwner, [Next]_vars
             PROVE  MutexOwner'
  OBVIOUS
<1> USE ThreadAssumption
<1>0. /\ pc \in [Threads -> WorkerPC \cup ExpresserPC]
      /\ pe \in [Threads -> [index : Slots \cup {0}, registered : BOOLEAN]]
      /\ Workers \subseteq Threads /\ Expressers \subseteq Threads
      /\ \A t \in Threads : HasHandle(t) => pe[t].index \in Slots
  BY DEF TypeInv, TypeOK, ThreadInv, Threads
<1>1. ASSUME NEW w \in Workers, WorkerStep(w) \/ WorkerFullStep(w)
      PROVE  MutexOwner'
  <2>1. CASE SearchMiss(w) \/ InterestMiss(w) \/ AddEntry(w) \/ AddEntryEvicting(w)
             \/ AddEntryFull(w) \/ CloseEntry(w) \/ ClearEntry(w)
    BY <1>0, <2>1, MutexUnmoved
    DEF SearchMiss, InterestMiss, AddEntry, AddEntryEvicting, AddEntryFull, CloseEntry,
        ClearEntry, Goto, MissLabel, Holding, tableVars
  <2>2. CASE SearchHit(w) \/ MatchFails(w)
    BY <1>0, <2>2, MutexUnmoved DEF SearchHit, MatchFails, Goto, MissLabel, Holding, tableVars
  <2>3. CASE MatchSucceeds(w)
    BY <1>0, <2>3, MutexTaken DEF MatchSucceeds, Goto, Holding, HasHandle
  <2>4. CASE InterestHit(w) \/ DataForNetwork(w)
    BY <1>0, <2>4, MutexGiven DEF InterestHit, DataForNetwork, ReleaseEntry, Goto, Holding
  <2>5. CASE DataForApplication(w)
    <3>1. /\ pc[w] = "hit" /\ w \in Threads
          /\ mutex' = [mutex EXCEPT ![pe[w].index] = NoThread]
          /\ pe' = [pe EXCEPT ![w] = NoHandle]
      BY <2>5 DEF DataForApplication, Threads
    <3>2. pc'[w] = "idle" /\ \A u \in Threads : u # w => (Holding(u)' <=> Holding(u))
      <4>1. CASE pc' = [pc EXCEPT ![w] = "idle"]
        BY <1>0, <3>1, <4>1 DEF Holding
      <4>2. ASSUME NEW e \in Expressers, pc[e] = "wait",
                   pc' = [pc EXCEPT ![w] = "idle", ![e] = "signalled"]
            PROVE  pc'[w] = "idle" /\ \A u \in Threads : u # w => (Holding(u)' <=> Holding(u))
        <5>1. e # w
          OBVIOUS
        <5>2. /\ pc'[w] = "idle" /\ pc'[e] = "signalled"
              /\ \A u \in Threads : u # w /\ u # e => pc'[u] = pc[u]
          BY <1>0, <4>2, <5>1
        <5>3. QED
          BY <4>2, <5>2 DEF Holding
      <4>3. QED
        BY <2>5, <4>1, <4>2 DEF DataForApplication, Goto
    <3>3. QED
      BY <1>0, <3>1, <3>2, MutexGiven DEF Holding
  <2>6. QED
    BY <1>1, <2>1, <2>2, <2>3, <2>4, <2>5 DEF WorkerStep, WorkerFullStep
<1>2. ASSUME NEW e \in Expressers, ExpresserStep(e) \/ ExpresserFullStep(e)
      PROVE  MutexOwner'
  <2>1. CASE GetHandle(e) \/ GetHandleEvicting(e)
    <3>1. /\ pc[e] = "alloc" /\ mutex' = mutex
          /\ \A u \in Threads : u # e => pc'[u] = pc[u] /\ pe'[u] = pe[u]
          /\ pc'[e] = "lockNew"
      BY <1>0, <2>1 DEF GetHandle, GetHandleEvicting, RegisterAt, Goto
    <3>2. QED
      BY <1>0, <3>1, MutexUnmoved DEF Holding
  <2>2. CASE GetHandleFull(e) \/ TimeOut(e) \/ ClearEntry(e)
    BY <1>0, <2>2, MutexUnmoved DEF GetHandleFull, TimeOut, ClearEntry, Goto, Holding, tableVars
  <2>3. CASE LockNew(e)
    BY <1>0, <2>3, MutexTaken DEF LockNew, Goto, Holding, HasHandle
  <2>4. CASE WakeWithObject(e)
    BY <1>0, <2>4, MutexTaken DEF WakeWithObject, Goto, Holding, HasHandle
  <2>5. CASE WakeWithout(e)
    BY <1>0, <2>5, MutexTaken, MutexUnmoved DEF WakeWithout, Goto, Holding, HasHandle
  <2>6. CASE Send(e)
    BY <1>0, <2>6, MutexGiven, MutexKept DEF Send, Goto, Holding
  <2>7. CASE GiveUp(e)
    BY <1>0, <2>7, MutexKept DEF GiveUp, Goto, Holding, tableVars
  <2>8. CASE Finish(e)
    BY <1>0, <2>8, MutexGiven DEF Finish, ReleaseEntry, Goto, Holding
  <2>9. QED
    BY <1>2, <2>1, <2>2, <2>3, <2>4, <2>5, <2>6, <2>7, <2>8
    DEF ExpresserStep, ExpresserFullStep
<1>3. CASE Arrival
  BY <1>0, <1>3, MutexUnmoved DEF Arrival, Receive, Express, Goto, Holding, tableVars
<1>4. CASE Tick \/ UNCHANGED vars
  BY <1>4 DEF Tick, vars, tableVars, threadVars, MutexOwner, Holding
<1>5. QED
  BY <1>1, <1>2, <1>3, <1>4 DEF Next, RoomyNext, FullNext

\* Only the thread that works on an entry ever holds the entry's mutex.
THEOREM MutexOwnership == Spec => []MutexOwner
<1>1. Init => TypeInv /\ MutexOwner
  BY InitTypeInv, ThreadAssumption DEF Init, MutexOwner, Holding, Threads
<1>2. TypeInv /\ MutexOwner /\ [Next]_vars => (TypeInv /\ MutexOwner)'
  BY NextTypeInv, NextMutexOwner
<1>3. QED
  BY <1>1, <1>2, PTL DEF Spec

\* The operations on an entry leave its valid bit and its name alone, clear both,
\* or set both.
LEMMA EntryNames ==
  /\ \A entry \in Entry :
        /\ Refreshed(entry).valid = entry.valid /\ Refreshed(entry).name = entry.name
        /\ \A n \in Names : /\ WithObject(entry, n) \in Entry
                            /\ WithObject(entry, n).valid = entry.valid
                            /\ WithObject(entry, n).name = entry.name
        /\ ~ClearedEntry(entry).valid
  /\ \A n, r, o : NewEntry(n, r, o).name = n
  BY DEF Entry, Refreshed, WithObject, ClearedEntry, EmptyEntry, NewEntry

\* Every step leaves the used entries with names.
LEMMA NextValidHasName == TypeInv /\ ValidHasName /\ [Next]_vars => ValidHasName'
<1> SUFFICES ASSUME TypeInv, ValidHasName, [Next]_vars
             PROVE  ValidHasName'
  OBVIOUS
<1> USE ThreadAssumption, EntryNames
<1>0. /\ table \in [Slots -> Entry]
      /\ Workers \subseteq Threads /\ Expressers \subseteq Threads
      /\ \A t \in Threads : pc[t] # "idle" => job[t].name \in Names
      /\ \A t \in Threads : HasHandle(t) => pe[t].index \in Slots
      /\ \A s \in Slots : table[s].valid => table[s].name # NoName
  BY DEF TypeInv, TypeOK, ThreadInv, Threads, ValidHasName
<1>1. CASE table' = table
  BY <1>1 DEF ValidHasName
<1>2. ASSUME NEW w \in Workers, WorkerStep(w) \/ WorkerFullStep(w), table' # table
      PROVE  ValidHasName'
  <2>1. CASE MatchSucceeds(w)
    BY <1>0, <2>1 DEF MatchSucceeds, HasHandle, Entry, ValidHasName
  <2>2. CASE CloseEntry(w)
    BY <1>0, <2>2 DEF CloseEntry, HasHandle, Entry, ValidHasName
  <2>3. CASE InterestHit(w)
    BY <1>0, <2>3 DEF InterestHit, HasHandle, ValidHasName
  <2>4. CASE DataForApplication(w)
    BY <1>0, <2>4 DEF DataForApplication, HasHandle, ValidHasName
  <2>5. CASE DataForNetwork(w)
    <3> DEFINE entry == WithObject(table[pe[w].index], job[w].name)
    <3>1. pe[w].index \in Slots /\ job[w].name \in Names
      BY <1>0, <2>5 DEF DataForNetwork, HasHandle
    <3>2. entry \in Entry /\ (entry.valid => entry.name # NoName)
      BY <1>0, <3>1
    <3>3. table' = [table EXCEPT ![pe[w].index] = [entry EXCEPT !.expires = 0]]
      BY <2>5 DEF DataForNetwork, ReleaseEntry
    <3> HIDE DEF entry
    <3>4. QED
      BY <1>0, <3>1, <3>2, <3>3 DEF Entry, ValidHasName
  <2>6. CASE ClearEntry(w)
    BY <1>0, <2>6 DEF ClearEntry, HasHandle, ValidHasName
  <2>7. CASE AddEntry(w)
    <3>1. PICK s \in Slots :
            table' = [table EXCEPT ![s] = NewEntry(job[w].name, FALSE, table[s].obj)]
      BY <2>7 DEF AddEntry, First, FreeSlots
    <3>2. job[w].name \in Names
      BY <1>0, <2>7 DEF AddEntry
    <3>3. QED
      BY <1>0, <3>1, <3>2 DEF ValidHasName, NewEntry
  <2>8. CASE AddEntryEvicting(w)
    <3>1. PICK s \in Slots :
            table' = [table EXCEPT ![s] = NewEntry(job[w].name, FALSE, NoName)]
      BY <2>8 DEF AddEntryEvicting, Victims, Evictable
    <3>2. job[w].name \in Names
      BY <1>0, <2>8 DEF AddEntryEvicting
    <3>3. QED
      BY <1>0, <3>1, <3>2 DEF ValidHasName, NewEntry
  <2>9. QED
    BY <1>2, <2>1, <2>2, <2>3, <2>4, <2>5, <2>6, <2>7, <2>8
    DEF WorkerStep, WorkerFullStep, SearchMiss, SearchHit, MatchFails, InterestMiss,
        AddEntryFull, tableVars
<1>3. ASSUME NEW e \in Expressers, ExpresserStep(e) \/ ExpresserFullStep(e), table' # table
      PROVE  ValidHasName'
  <2>1. CASE GetHandle(e)
    <3>1. PICK s \in Slots :
            table' = [table EXCEPT ![s] = NewEntry(job[e].name, TRUE, table[s].obj)]
      BY <2>1 DEF GetHandle, RegisterAt, First, FreeSlots
    <3>2. job[e].name \in Names
      BY <1>0, <2>1 DEF GetHandle
    <3>3. QED
      BY <1>0, <3>1, <3>2 DEF ValidHasName, NewEntry
  <2>2. CASE GetHandleEvicting(e)
    <3>1. PICK s \in Slots :
            table' = [table EXCEPT ![s] = NewEntry(job[e].name, TRUE, NoName)]
      BY <2>2 DEF GetHandleEvicting, RegisterAt, Victims, Evictable
    <3>2. job[e].name \in Names
      BY <1>0, <2>2 DEF GetHandleEvicting
    <3>3. QED
      BY <1>0, <3>1, <3>2 DEF ValidHasName, NewEntry
  <2>3. CASE Send(e)
    BY <1>0, <2>3 DEF Send, HasHandle, ValidHasName
  <2>4. CASE Finish(e)
    <3>1. /\ table' = [table EXCEPT ![pe[e].index] =
                         [table[pe[e].index] EXCEPT !.expires = 0]]
          /\ pe[e].index \in Slots
      BY <1>0, <2>4 DEF Finish, ReleaseEntry, HasHandle
    <3>2. QED
      BY <1>0, <3>1 DEF Entry, ValidHasName
  <2>5. CASE ClearEntry(e)
    BY <1>0, <2>5 DEF ClearEntry, HasHandle, ValidHasName
  <2>6. QED
    BY <1>3, <2>1, <2>3, <2>4, <2>5, <2>2
    DEF ExpresserStep, ExpresserFullStep, GetHandleFull, LockNew, GiveUp, TimeOut,
        WakeWithObject, WakeWithout, tableVars
<1>4. CASE Arrival \/ Tick \/ UNCHANGED vars
  BY <1>1, <1>4 DEF Arrival, Receive, Express, Tick, vars, tableVars
<1>5. QED
  BY <1>1, <1>2, <1>3, <1>4 DEF Next, RoomyNext, FullNext

\* Every entry whose valid bit is set has a name, so PIT_exact_match never reads
\* through a NULL name, full table or not.
THEOREM NamesPresent == Spec => []ValidHasName
<1>1. Init => TypeInv /\ ValidHasName
  BY InitTypeInv DEF Init, ValidHasName, EmptyEntry
<1>2. TypeInv /\ ValidHasName /\ [Next]_vars => (TypeInv /\ ValidHasName)'
  BY NextTypeInv, NextValidHasName
<1>3. QED
  BY <1>1, <1>2, PTL DEF Spec

\* The table is typed, its mutexes have their owners and its entries their names, with
\* the table full or not.
THEOREM TableCorrect == Spec => []TableInv
<1>1. TypeOK /\ MutexOwner /\ ValidHasName => TableInv
  BY DEF TableInv
<1>2. QED
  BY <1>1, TypeCorrect, MutexOwnership, NamesPresent, PTL

-----------------------------------------------------------------------------
(* Eviction, full table or not.                                            *)

\* A step on the entry of slot s that leaves its name and its registration alone,
\* clears it, or writes a new entry over one that no application registered.
EntryStep(s) ==
    \/ /\ table'[s].name = table[s].name
       /\ table'[s].valid = table[s].valid
       /\ table'[s].registered = table[s].registered
    \/ table'[s].name = NoName /\ ~table'[s].registered
    \/ ~table[s].registered /\ table'[s].valid

\* An entry an application registered has its valid bit set.
RegisteredValid == \A s \in Slots : table[s].registered => table[s].valid

\* Every step is such a step for each slot.
LEMMA NextEntryStep ==
  ASSUME TypeInv, RegisteredValid, [Next]_vars
  PROVE  \A s \in Slots : EntryStep(s)
<1>0. /\ table \in [Slots -> Entry]
      /\ Workers \subseteq Threads /\ Expressers \subseteq Threads
      /\ \A t \in Threads : pc[t] # "idle" => job[t].name \in Names
      /\ \A t \in Threads : HasHandle(t) => pe[t].index \in Slots
  BY DEF TypeInv, TypeOK, ThreadInv, Threads
<1>1. CASE table' = table
  BY <1>1 DEF EntryStep
<1>2. ASSUME NEW t \in Threads, NEW entry \in Entry, HasHandle(t),
             entry.name = table[pe[t].index].name,
             entry.valid = table[pe[t].index].valid,
             entry.registered = table[pe[t].index].registered,
             table' = [table EXCEPT ![pe[t].index] = entry]
      PROVE  \A s \in Slots : EntryStep(s)
  BY <1>0, <1>2 DEF EntryStep
<1>3. ASSUME NEW s \in Slots, NEW t \in Threads, NEW r \in BOOLEAN, NEW o,
             ~table[s].registered,
             table' = [table EXCEPT ![s] = NewEntry(job[t].name, r, o)]
      PROVE  \A u \in Slots : EntryStep(u)
  BY <1>0, <1>3 DEF EntryStep, NewEntry
<1>4. ASSUME NEW t \in Threads, ClearEntry(t)
      PROVE  \A s \in Slots : EntryStep(s)
  BY <1>0, <1>4 DEF ClearEntry, ClearedEntry, EmptyEntry, HasHandle, EntryStep
<1>5. ASSUME NEW w \in Workers, WorkerStep(w) \/ WorkerFullStep(w), table' # table
      PROVE  \A s \in Slots : EntryStep(s)
  <2> DEFINE old == table[pe[w].index]
  <2>1. HasHandle(w) => old \in Entry
    BY <1>0
  <2>2. CASE MatchSucceeds(w)
    <3>1. /\ table' = [table EXCEPT ![pe[w].index] = [old EXCEPT !.available = FALSE]]
          /\ HasHandle(w)
      BY <2>2 DEF MatchSucceeds, HasHandle
    <3>2. QED
      BY <1>0, <1>2, <2>1, <3>1 DEF Entry
  <2>3. CASE CloseEntry(w)
    <3>1. /\ table' = [table EXCEPT ![pe[w].index] = [old EXCEPT !.available = TRUE]]
          /\ HasHandle(w)
      BY <2>3 DEF CloseEntry, HasHandle
    <3>2. QED
      BY <1>0, <1>2, <2>1, <3>1 DEF Entry
  <2>4. CASE InterestHit(w)
    <3>1. table' = [table EXCEPT ![pe[w].index] = Refreshed(old)] /\ HasHandle(w)
      BY <2>4 DEF InterestHit, HasHandle
    <3>2. QED
      BY <1>0, <2>1, <3>1 DEF Entry, Refreshed, EntryStep
  <2>5. CASE DataForApplication(w)
    <3>1. /\ table' = [table EXCEPT ![pe[w].index] = Refreshed(WithObject(old, job[w].name))]
          /\ HasHandle(w)
      BY <2>5 DEF DataForApplication, HasHandle
    <3>2. QED
      BY <1>0, <2>1, <3>1 DEF Entry, Refreshed, WithObject, EntryStep
  <2>6. CASE DataForNetwork(w)
    <3>1. /\ table' = [table EXCEPT ![pe[w].index] =
                          [WithObject(old, job[w].name) EXCEPT !.expires = 0]]
          /\ HasHandle(w)
      BY <2>6 DEF DataForNetwork, ReleaseEntry, HasHandle
    <3>2. QED
      BY <1>0, <2>1, <3>1 DEF Entry, WithObject, EntryStep
  <2>7. CASE AddEntry(w)
    <3>1. PICK s \in Slots :
            /\ ~table[s].valid
            /\ table' = [table EXCEPT ![s] = NewEntry(job[w].name, FALSE, table[s].obj)]
      BY <2>7 DEF AddEntry, First, FreeSlots
    <3>2. ~table[s].registered
      BY <3>1 DEF RegisteredValid
    <3>3. QED
      BY <1>0, <1>3, <3>1, <3>2
  <2>8. CASE AddEntryEvicting(w)
    <3>1. PICK s \in Slots :
            /\ ~table[s].registered
            /\ table' = [table EXCEPT ![s] = NewEntry(job[w].name, FALSE, NoName)]
      BY <2>8 DEF AddEntryEvicting, Victims, Evictable
    <3>2. QED
      BY <1>0, <1>3, <3>1
  <2>9. QED
    BY <1>0, <1>4, <1>5, <2>2, <2>3, <2>4, <2>5, <2>6, <2>7, <2>8
    DEF WorkerStep, WorkerFullStep, SearchMiss, SearchHit, MatchFails, InterestMiss,
        AddEntryFull, tableVars
<1>6. ASSUME NEW e \in Expressers, ExpresserStep(e) \/ ExpresserFullStep(e), table' # table
      PROVE  \A s \in Slots : EntryStep(s)
  <2>1. CASE GetHandle(e)
    <3>1. PICK s \in Slots :
            /\ ~table[s].valid
            /\ table' = [table EXCEPT ![s] = NewEntry(job[e].name, TRUE, table[s].obj)]
      BY <2>1 DEF GetHandle, RegisterAt, First, FreeSlots
    <3>2. ~table[s].registered
      BY <3>1 DEF RegisteredValid
    <3>3. QED
      BY <1>0, <1>3, <3>1, <3>2
  <2>2. CASE GetHandleEvicting(e)
    <3>1. PICK s \in Slots :
            /\ ~table[s].registered
            /\ table' = [table EXCEPT ![s] = NewEntry(job[e].name, TRUE, NoName)]
      BY <2>2 DEF GetHandleEvicting, RegisterAt, Victims, Evictable
    <3>2. QED
      BY <1>0, <1>3, <3>1
  <2>3. CASE Send(e)
    <3>1. table' = [table EXCEPT ![pe[e].index] = Refreshed(table[pe[e].index])] /\ HasHandle(e)
      BY <2>3 DEF Send, HasHandle
    <3>2. QED
      BY <1>0, <3>1 DEF Entry, Refreshed, EntryStep
  <2>4. CASE Finish(e)
    <3>1. /\ table' = [table EXCEPT ![pe[e].index] =
                          [table[pe[e].index] EXCEPT !.expires = 0]]
          /\ HasHandle(e)
      BY <2>4 DEF Finish, ReleaseEntry, HasHandle
    <3>2. QED
      BY <1>0, <3>1 DEF Entry, EntryStep
  <2>5. QED
    BY <1>0, <1>4, <1>6, <2>1, <2>2, <2>3, <2>4
    DEF ExpresserStep, ExpresserFullStep, GetHandleFull, LockNew, GiveUp, TimeOut,
        WakeWithObject, WakeWithout, tableVars
<1>7. CASE Arrival \/ Tick \/ UNCHANGED vars
  BY <1>1, <1>7 DEF Arrival, Receive, Express, Tick, vars, tableVars
<1>8. QED
  BY <1>1, <1>5, <1>6, <1>7 DEF Next, RoomyNext, FullNext

\* evict never gives an application's entry to somebody else.
THEOREM EvictionSafe == Spec => EvictSparesRegistered
<1>1. Init => TypeInv /\ RegisteredValid
  BY InitTypeInv DEF Init, RegisteredValid, EmptyEntry
<1>2. TypeInv /\ RegisteredValid /\ [Next]_vars => (TypeInv /\ RegisteredValid)'
  BY NextTypeInv, NextEntryStep DEF RegisteredValid, EntryStep
<1>3. TypeInv /\ RegisteredValid /\ [Next]_vars
      => [\A s \in Slots :
             table[s].registered /\ table'[s].name # table[s].name
                 => table'[s].name = NoName]_table
  BY NextEntryStep DEF EntryStep
<1>4. QED
  BY <1>1, <1>2, <1>3, PTL DEF Spec, EvictSparesRegistered

-----------------------------------------------------------------------------
(* While the table has room: one releaser per entry, and the right content. *)

\* What an entry is used for, apart from when it expires and whether it is available.
SameUse(s) == /\ table'[s].valid = table[s].valid
              /\ table'[s].name = table[s].name
              /\ table'[s].obj = table[s].obj
              /\ table'[s].registered = table[s].registered

\* A thread that stays as it is.
SameThread(t) == pc'[t] = pc[t] /\ pe'[t] = pe[t] /\ job'[t] = job[t]

\* A thread that stays as it is goes on being one that releases, or not.
LEMMA SameThreadReleases ==
  ASSUME NEW t, SameThread(t)
  PROVE  Releases(t)' <=> Releases(t)
  BY DEF SameThread, Releases

\* A worker that is not going to release an entry, before or after the step.
LEMMA QuietWorker ==
  ASSUME TypeInv, TypeInv', EntriesInv, MutexOwner', NEW w \in Workers,
         pc'[w] \in {"idle", "search", "miss", "add", "close"},
         ~Releases(w), ~Releases(w)',
         \A t \in Threads : t # w => SameThread(t),
         \A s \in Slots :
            /\ SameUse(s)
            /\ \/ table'[s].expires = table[s].expires /\ mutex'[s] = mutex[s]
               \/ pc[w] = "hit" /\ pe[w].index = s,
         got' = got,
         pitLock' = pitLock \/ pitLock = w
  PROVE  EntriesInv'
<1> USE ThreadAssumption, SlotFacts DEF SameUse
<1>1. /\ w \in Threads /\ w \notin Expressers
      /\ \A t \in Threads : t # w => (Releases(t)' <=> Releases(t))
      /\ \A t \in Threads : HasHandle(t) => pe[t].index \in Slots
      /\ \A t \in Threads : Releases(t) => pe[t].index \in Slots
      /\ Expressers \subseteq Threads /\ Workers \subseteq Threads
  BY SameThreadReleases DEF Threads, TypeInv, ThreadInv, HasHandle, Releases
<1>2. OneReleaser'
  BY <1>1 DEF EntriesInv, OneReleaser, SameThread
<1>3. EntryKept'
  <2> SUFFICES ASSUME NEW t \in Threads, Releases(t)'
               PROVE  /\ pe'[t].index # 0
                      /\ table'[pe'[t].index].valid
                      /\ table'[pe'[t].index].name = job'[t].name
                      /\ (table'[pe'[t].index].registered <=> t \in Expressers)
    BY DEF EntryKept
  <2>1. t # w /\ Releases(t) /\ SameThread(t) /\ pe[t].index \in Slots
    BY <1>1
  <2>2. SameUse(pe[t].index)
    BY <2>1
  <2>3. QED
    BY <2>1, <2>2 DEF EntriesInv, EntryKept, SameThread
<1>4. MatchInv'
  <2> SUFFICES ASSUME NEW u \in Workers, pc'[u] = "lockEntry"
               PROVE  /\ pitLock' = u /\ table'[pe'[u].index].valid
                      /\ table'[pe'[u].index].name = job'[u].name
    BY DEF MatchInv
  <2>1. u # w /\ SameThread(u) /\ pe[u].index \in Slots
    BY <1>1 DEF SameThread, HasHandle
  <2>2. SameUse(pe[u].index)
    BY <2>1
  <2>3. QED
    BY <2>1, <2>2 DEF EntriesInv, MatchInv, SameThread
<1>5. NewInv' /\ NewEntryUnlocked'
  <2> SUFFICES ASSUME NEW u \in Expressers, pc'[u] = "lockNew"
               PROVE  pitLock' = u /\ mutex'[pe'[u].index] = NoThread
    BY DEF NewInv, NewEntryUnlocked
  <2>1. u # w /\ SameThread(u) /\ pe[u].index \in Slots /\ pitLock = u
        /\ mutex[pe[u].index] = NoThread
    BY <1>1 DEF SameThread, HasHandle, EntriesInv, NewInv, NewEntryUnlocked
  <2>2. ~(pc[w] = "hit" /\ pe[w].index = pe[u].index)
    BY <1>1, <2>1 DEF EntriesInv, MutexOwner, Holding
  <2>3. mutex'[pe[u].index] = mutex[pe[u].index]
    BY <2>1, <2>2
  <2>4. QED
    BY <2>1, <2>3 DEF SameThread
<1>6. HitInv'
  <2> SUFFICES ASSUME NEW u \in Workers, pc'[u] = "hit"
               PROVE  /\ table'[pe'[u].index].valid /\ table'[pe'[u].index].name = job'[u].name
                      /\ pe'[u].registered = table'[pe'[u].index].registered
                      /\ \A t \in Threads : pc'[t] = "clear" => pe'[t].index # pe'[u].index
    BY DEF HitInv
  <2>1. u # w /\ SameThread(u) /\ pe[u].index \in Slots
    BY <1>1 DEF SameThread, HasHandle
  <2>2. SameUse(pe[u].index)
    BY <2>1
  <2>3. \A t \in Threads : pc'[t] = "clear" => pe'[t].index # pe'[u].index
    BY <2>1 DEF EntriesInv, HitInv, SameThread
  <2>4. QED
    BY <2>1, <2>2, <2>3 DEF EntriesInv, HitInv, SameThread
<1>7. ExpiredInv'
  <2> SUFFICES ASSUME NEW t \in Threads, pc'[t] = "clear"
               PROVE  table'[pe'[t].index].expires = 0
    BY DEF ExpiredInv
  <2>1. t # w /\ SameThread(t) /\ pc[t] = "clear" /\ pe[t].index \in Slots
    BY <1>1 DEF SameThread, HasHandle
  <2>2. pc[w] = "hit" => pe[t].index # pe[w].index
    BY <2>1 DEF EntriesInv, HitInv
  <2>3. QED
    BY <2>1, <2>2 DEF EntriesInv, ExpiredInv, SameThread
<1>8. RegisteredInv' /\ ObjectInv'
  BY <1>1 DEF EntriesInv, RegisteredInv, ObjectInv, SameThread
<1>9. RightContent'
  BY <1>1 DEF EntriesInv, RightContent, SameThread
<1>10. NoLostWakeup'
  <2> SUFFICES ASSUME NEW e \in Expressers, pc'[e] = "wait"
               PROVE  table'[pe'[e].index].obj = NoName
    BY DEF NoLostWakeup
  <2>1. SameThread(e) /\ pe[e].index \in Slots
    BY <1>1 DEF SameThread, HasHandle
  <2>2. SameUse(pe[e].index)
    BY <2>1
  <2>3. QED
    BY <2>1, <2>2 DEF EntriesInv, NoLostWakeup, SameThread
<1>11. QED
  BY <1>2, <1>3, <1>4, <1>6, <1>7, <1>8, <1>9, <1>5, <1>10 DEF EntriesInv

\* An application thread that goes on using its own entry.
LEMMA QuietExpresser ==
  ASSUME TypeInv, TypeInv', EntriesInv, MutexOwner', NEW e \in Expressers,
         pc[e] \in {"lockNew", "send", "wait", "signalled", "timedOut"},
         pc'[e] \in {"send", "wait", "signalled", "timedOut", "done"},
         pc'[e] = "wait" => table[pe[e].index].obj = NoName,
         pe' = pe, job' = job, got' = got,
         \A t \in Threads : t # e => pc'[t] = pc[t],
         \A s \in Slots : SameUse(s) /\ (s # pe[e].index =>
                                          /\ table'[s].expires = table[s].expires
                                                          /\ mutex'[s] = mutex[s]),
         pitLock' = pitLock \/ pitLock = e
  PROVE  EntriesInv'
<1> USE ThreadAssumption, SlotFacts DEF SameUse
<1>1. /\ e \in Threads /\ e \notin Workers /\ Releases(e) /\ Releases(e)'
      /\ \A t \in Threads : t # e => SameThread(t)
      /\ \A t \in Threads : HasHandle(t) => pe[t].index \in Slots
      /\ \A t \in Threads : Releases(t) => pe[t].index \in Slots
      /\ Expressers \subseteq Threads /\ Workers \subseteq Threads
  BY DEF Threads, TypeInv, ThreadInv, HasHandle, Releases, SameThread
<1>2. \A t \in Threads : Releases(t)' <=> Releases(t)
  BY <1>1, SameThreadReleases
<1>3. \A t \in Threads : t # e /\ Releases(t) => pe[t].index # pe[e].index
  BY <1>1 DEF EntriesInv, OneReleaser
<1>4. OneReleaser'
  BY <1>1, <1>2 DEF EntriesInv, OneReleaser
<1>5. EntryKept'
  <2> SUFFICES ASSUME NEW t \in Threads, Releases(t)'
               PROVE  /\ pe'[t].index # 0
                      /\ table'[pe'[t].index].valid
                      /\ table'[pe'[t].index].name = job'[t].name
                      /\ (table'[pe'[t].index].registered <=> t \in Expressers)
    BY DEF EntryKept
  <2>1. Releases(t) /\ pe[t].index \in Slots
    BY <1>1, <1>2
  <2>2. SameUse(pe[t].index)
    BY <2>1
  <2>3. QED
    BY <2>1, <2>2 DEF EntriesInv, EntryKept
<1>6. MatchInv'
  <2> SUFFICES ASSUME NEW u \in Workers, pc'[u] = "lockEntry"
               PROVE  /\ pitLock' = u /\ table'[pe'[u].index].valid
                      /\ table'[pe'[u].index].name = job'[u].name
    BY DEF MatchInv
  <2>1. u # e /\ pc[u] = "lockEntry" /\ pe[u].index \in Slots
    BY <1>1 DEF HasHandle
  <2>2. SameUse(pe[u].index)
    BY <2>1
  <2>3. QED
    BY <2>1, <2>2 DEF EntriesInv, MatchInv
<1>7. NewInv' /\ NewEntryUnlocked'
  <2> SUFFICES ASSUME NEW u \in Expressers, pc'[u] = "lockNew"
               PROVE  pitLock' = u /\ mutex'[pe'[u].index] = NoThread
    BY DEF NewInv, NewEntryUnlocked
  <2>1. u # e /\ pc[u] = "lockNew" /\ pe[u].index \in Slots /\ Releases(u)
    BY <1>1 DEF HasHandle, Releases
  <2>2. pe[u].index # pe[e].index
    BY <1>1, <1>3, <2>1
  <2>3. QED
    BY <2>1, <2>2 DEF EntriesInv, NewInv, NewEntryUnlocked
<1>8. HitInv'
  <2> SUFFICES ASSUME NEW u \in Workers, pc'[u] = "hit"
               PROVE  /\ table'[pe'[u].index].valid /\ table'[pe'[u].index].name = job'[u].name
                      /\ pe'[u].registered = table'[pe'[u].index].registered
                      /\ \A t \in Threads : pc'[t] = "clear" => pe'[t].index # pe'[u].index
    BY DEF HitInv
  <2>1. u # e /\ pc[u] = "hit" /\ pe[u].index \in Slots
    BY <1>1 DEF HasHandle
  <2>2. \A t \in Threads : pc'[t] = "clear" => pe'[t].index # pe'[u].index
    BY <2>1 DEF EntriesInv, HitInv
  <2>3. SameUse(pe[u].index)
    BY <2>1
  <2>4. /\ table[pe[u].index].valid /\ table[pe[u].index].name = job[u].name
        /\ pe[u].registered = table[pe[u].index].registered
    BY <2>1 DEF EntriesInv, HitInv
  <2>5. QED
    BY <2>2, <2>3, <2>4
<1>9. ExpiredInv'
  <2> SUFFICES ASSUME NEW t \in Threads, pc'[t] = "clear"
               PROVE  table'[pe'[t].index].expires = 0
    BY DEF ExpiredInv
  <2>1. t # e /\ pc[t] = "clear"
    OBVIOUS
  <2>2. Releases(t)
    BY <2>1 DEF Releases, Threads
  <2>3. pe[t].index # pe[e].index /\ pe[t].index \in Slots
    BY <1>1, <1>3, <2>1, <2>2
  <2>4. table'[pe[t].index].expires = table[pe[t].index].expires
    BY <2>2, <2>3
  <2>5. table[pe[t].index].expires = 0
    BY <2>1 DEF EntriesInv, ExpiredInv
  <2>6. QED
    BY <2>4, <2>5
<1>10. RegisteredInv' /\ ObjectInv'
  BY <1>1, <1>2 DEF EntriesInv, RegisteredInv, ObjectInv
<1>11. RightContent'
  BY DEF EntriesInv, RightContent
<1>12. NoLostWakeup'
  <2> SUFFICES ASSUME NEW u \in Expressers, pc'[u] = "wait"
               PROVE  table'[pe'[u].index].obj = NoName
    BY DEF NoLostWakeup
  <2>1. HasHandle(u) /\ table[pe[u].index].obj = NoName
    BY <1>1 DEF EntriesInv, NoLostWakeup, HasHandle
  <2>2. SameUse(pe[u].index)
    BY <1>1, <2>1
  <2>3. QED
    BY <2>1, <2>2
<1>13. QED
  BY <1>4, <1>6, <1>7, <1>8, <1>9, <1>10, <1>11, <1>5, <1>12 DEF EntriesInv

\* A lookup that finds an entry under its name locks the table around it.
LEMMA RoomySearchHit ==
  ASSUME TypeInv, TypeInv', EntriesInv, MutexOwner', NEW w \in Workers, SearchHit(w)
  PROVE  EntriesInv'
<1> USE ThreadAssumption, SlotFacts
<1>1. /\ w \in Threads /\ w \notin Expressers
      /\ \A t \in Threads : HasHandle(t) => pe[t].index \in Slots
      /\ Expressers \subseteq Threads /\ Workers \subseteq Threads
  BY DEF Threads, TypeInv, ThreadInv
<1>2. /\ pc[w] = "search" /\ pc'[w] = "lockEntry" /\ pitLock = NoThread /\ pitLock' = w
      /\ pe'[w].index \in MatchingSlots(job[w].name)
      /\ \A t \in Threads : t # w => SameThread(t)
      /\ UNCHANGED <<table, mutex, job, got>>
  BY <1>1 DEF SearchHit, First, Goto, SameThread, TypeInv, TypeOK
<1>3. /\ \A t \in Threads : t # w => (Releases(t)' <=> Releases(t))
      /\ ~Releases(w) /\ ~Releases(w)'
  BY <1>1, <1>2, SameThreadReleases DEF Releases
<1>4. OneReleaser' /\ EntryKept'
  BY <1>1, <1>2, <1>3 DEF EntriesInv, OneReleaser, EntryKept, SameThread
<1>5. MatchInv' /\ NewInv' /\ NewEntryUnlocked'
  BY <1>1, <1>2 DEF EntriesInv, MatchInv, NewInv, NewEntryUnlocked, SameThread, MatchingSlots, Threads
<1>6. HitInv' /\ ExpiredInv'
  BY <1>1, <1>2 DEF EntriesInv, HitInv, ExpiredInv, SameThread
<1>7. RegisteredInv' /\ ObjectInv'
  BY <1>1, <1>2, <1>3 DEF EntriesInv, RegisteredInv, ObjectInv, SameThread
<1>8. RightContent' /\ NoLostWakeup'
  BY <1>1, <1>2 DEF EntriesInv, RightContent, NoLostWakeup, SameThread
<1>9. QED
  BY <1>4, <1>5, <1>6, <1>7, <1>8 DEF EntriesInv

\* A lookup that matches gets an entry nobody is releasing, for an expired entry
\* does not match.
LEMMA RoomyMatchSucceeds ==
  ASSUME TypeInv, TypeInv', EntriesInv, MutexOwner', NEW w \in Workers, MatchSucceeds(w)
  PROVE  EntriesInv'
<1> USE ThreadAssumption, BoundAssumption, SlotFacts
<1> DEFINE s == pe[w].index
<1>1. /\ s \in Slots /\ w \in Threads /\ w \notin Expressers
      /\ pc[w] = "lockEntry" /\ mutex[s] = NoThread /\ pitLock = w
      /\ table[s].expires >= now /\ now > 0
      /\ table[s].valid /\ table[s].name = job[w].name
  BY DEF MatchSucceeds, Matches, EntriesInv, MatchInv, TypeInv, TypeOK, ThreadInv, HasHandle, Threads
<1>2. /\ pc' = [pc EXCEPT ![w] = "hit"]
      /\ pe' = [pe EXCEPT ![w].registered = table[s].registered]
      /\ table' = [table EXCEPT ![s].available = FALSE]
      /\ job' = job /\ got' = got /\ now' = now
  BY DEF MatchSucceeds, Goto
<1>3. /\ \A t \in Threads : t # w => pc'[t] = pc[t] /\ pe'[t] = pe[t]
      /\ pc'[w] = "hit" /\ pe'[w].index = s /\ pe'[w].registered = table[s].registered
  BY <1>1, <1>2 DEF TypeInv, TypeOK
<1>4. \A u \in Slots : /\ table'[u].valid = table[u].valid /\ table'[u].name = table[u].name
                       /\ table'[u].obj = table[u].obj /\ table'[u].expires = table[u].expires
                       /\ table'[u].registered = table[u].registered
  BY <1>1, <1>2 DEF TypeInv, TypeOK, Entry
<1> HIDE DEF s
<1>5. \A t \in Threads : t # w => (Releases(t)' <=> Releases(t))
  BY <1>2, <1>3 DEF Releases
<1>6. Releases(w)' => ~table[s].registered
  BY <1>1, <1>2, <1>3 DEF Releases
<1>7. \A t \in Threads : t # w /\ Releases(t) /\ ~table[s].registered => pe[t].index # s
  <2> SUFFICES ASSUME NEW t \in Threads, t # w, Releases(t), ~table[s].registered, pe[t].index = s
               PROVE FALSE
    OBVIOUS
  <2>1. t \notin Expressers
    BY DEF EntriesInv, EntryKept
  <2>2. pc[t] # "clear"
    BY <1>1 DEF EntriesInv, ExpiredInv, TypeInv, TypeOK, Entry
  <2>3. pc[t] # "hit"
    BY <1>1 DEF EntriesInv, MutexOwner, Holding, Threads
  <2>4. QED
    BY <2>1, <2>2, <2>3 DEF Releases
<1>8. OneReleaser'
  BY <1>3, <1>5, <1>6, <1>7 DEF EntriesInv, OneReleaser
<1>9. EntryKept'
  BY <1>1, <1>2, <1>3, <1>4, <1>5, <1>6 DEF EntriesInv, EntryKept, TypeInv, TypeOK
<1>10. MatchInv' /\ NewInv' /\ NewEntryUnlocked'
  <2>1. \A u \in Workers : pc'[u] # "lockEntry"
    BY <1>1, <1>3 DEF EntriesInv, MatchInv, Threads
  <2>2. \A e \in Expressers : pc'[e] # "lockNew"
    BY <1>1, <1>3 DEF EntriesInv, NewInv, Threads
  <2>3. QED
    BY <2>1, <2>2 DEF MatchInv, NewInv, NewEntryUnlocked
<1>11. HitInv' /\ ExpiredInv'
  <2>1. \A t \in Threads : pc'[t] = "clear" =>
           t # w /\ pc[t] = "clear" /\ pe'[t] = pe[t] /\ pe[t].index \in Slots
    BY <1>3 DEF TypeInv, ThreadInv, HasHandle
  <2>2. ExpiredInv'
    BY <1>4, <2>1 DEF EntriesInv, ExpiredInv
  <2>3. ASSUME NEW t \in Threads, pc'[t] = "clear"
        PROVE  pe'[t].index # s
    <3>1. pe'[t] = pe[t] /\ table[pe[t].index].expires = 0
      BY <2>1, <2>3 DEF EntriesInv, ExpiredInv
    <3>2. table[s].expires # 0
      BY <1>1 DEF TypeInv, TypeOK, Entry
    <3>3. QED
      BY <3>1, <3>2
  <2>4. ASSUME NEW u \in Workers, pc'[u] = "hit"
        PROVE  /\ table'[pe'[u].index].valid /\ table'[pe'[u].index].name = job'[u].name
               /\ pe'[u].registered = table'[pe'[u].index].registered
               /\ \A t \in Threads : pc'[t] = "clear" => pe'[t].index # pe'[u].index
    <3>1. CASE u = w
      <4>1. /\ pe'[u].index = s /\ job'[u] = job[w]
            /\ pe'[u].registered = table[s].registered
        BY <1>2, <1>3, <3>1
      <4>2. table'[s].valid /\ table'[s].name = job[w].name
            /\ table'[s].registered = table[s].registered
        BY <1>1, <1>4
      <4>3. QED
        BY <2>3, <4>1, <4>2
    <3>2. CASE u # w
      <4>1. u \in Threads /\ pc[u] = "hit" /\ pe'[u] = pe[u] /\ job'[u] = job[u]
        BY <1>2, <1>3, <2>4, <3>2 DEF Threads
      <4>2. pe[u].index \in Slots
        BY <4>1 DEF TypeInv, ThreadInv, HasHandle
      <4>3. /\ table[pe[u].index].valid /\ table[pe[u].index].name = job[u].name
            /\ pe[u].registered = table[pe[u].index].registered
            /\ \A t \in Threads : pc[t] = "clear" => pe[t].index # pe[u].index
        BY <4>1 DEF EntriesInv, HitInv
      <4>4. \A t \in Threads : pc'[t] = "clear" => pe'[t].index # pe'[u].index
        BY <2>1, <4>1, <4>3
      <4>5. QED
        BY <1>4, <4>1, <4>2, <4>3, <4>4
    <3>3. QED
      BY <3>1, <3>2
  <2>5. HitInv'
    BY <2>4 DEF HitInv
  <2>6. QED
    BY <2>2, <2>5
<1>12. RegisteredInv' /\ ObjectInv'
  BY <1>1, <1>2, <1>3, <1>4 DEF EntriesInv, RegisteredInv, ObjectInv, Threads, Releases
<1>13. RightContent' /\ NoLostWakeup'
  BY <1>1, <1>2, <1>3, <1>4 DEF EntriesInv, RightContent, NoLostWakeup, Threads, TypeInv, ThreadInv, HasHandle
<1>14. QED
  BY <1>8, <1>9, <1>10, <1>11, <1>12, <1>13 DEF EntriesInv

\* The first half of PIT_release, by a worker that stored its object or by an
\* application thread that took the entry's.
LEMMA Releasing ==
  ASSUME TypeInv, TypeInv', EntriesInv, MutexOwner', NEW t \in Threads,
         Releases(t), Holding(t), pc'[t] = "clear", pe' = pe, job' = job, pitLock' = pitLock,
         \A u \in Threads : u # t => pc'[u] = pc[u],
         \A s \in Slots : s # pe[t].index => table'[s] = table[s] /\ mutex'[s] = mutex[s],
         table'[pe[t].index].expires = 0,
         table'[pe[t].index].valid = table[pe[t].index].valid,
         table'[pe[t].index].name = table[pe[t].index].name,
         table'[pe[t].index].registered = table[pe[t].index].registered,
         \/ table'[pe[t].index].obj = table[pe[t].index].obj
         \/ table'[pe[t].index].obj = job[t].name,
         \A e \in Expressers :
            got'[e] = got[e] \/ (e = t /\ got'[e] = table[pe[t].index].obj)
  PROVE  EntriesInv'
<1> USE ThreadAssumption, SlotFacts
<1> DEFINE s == pe[t].index
<1>1. /\ \A u \in Threads : u # t => SameThread(u)
      /\ \A u \in Threads : HasHandle(u) => pe[u].index \in Slots
      /\ Expressers \subseteq Threads /\ Workers \subseteq Threads
  BY DEF Threads, TypeInv, ThreadInv, SameThread
<1>2. \A u \in Threads : Releases(u)' <=> Releases(u)
  BY <1>1, SameThreadReleases DEF Releases, Threads
<1>3. \A u \in Threads : u # t /\ Releases(u) => pe[u].index # s
  BY DEF EntriesInv, OneReleaser
<1>4. \A u \in Threads : u # t /\ pc[u] = "hit" => pe[u].index # s
  BY DEF EntriesInv, MutexOwner, Holding
<1>5. /\ s \in Slots /\ table[s].valid /\ table[s].name = job[t].name
  BY <1>1 DEF EntriesInv, EntryKept, Releases, HasHandle
<1> HIDE DEF s
<1>6. OneReleaser'
  BY <1>2 DEF EntriesInv, OneReleaser
<1>7. EntryKept'
  <2> SUFFICES ASSUME NEW u \in Threads, Releases(u)'
               PROVE  /\ pe'[u].index # 0
                      /\ table'[pe'[u].index].valid
                      /\ table'[pe'[u].index].name = job'[u].name
                      /\ (table'[pe'[u].index].registered <=> u \in Expressers)
    BY DEF EntryKept
  <2>1. Releases(u) /\ pe[u].index \in Slots
    BY <1>1, <1>2 DEF Releases, HasHandle
  <2>2. /\ table'[pe[u].index].valid = table[pe[u].index].valid
        /\ table'[pe[u].index].name = table[pe[u].index].name
        /\ table'[pe[u].index].registered = table[pe[u].index].registered
    BY <1>3, <2>1 DEF s
  <2>3. QED
    BY <2>1, <2>2 DEF EntriesInv, EntryKept
<1>8. MatchInv'
  <2> SUFFICES ASSUME NEW u \in Workers, pc'[u] = "lockEntry"
               PROVE  /\ pitLock' = u /\ table'[pe'[u].index].valid
                      /\ table'[pe'[u].index].name = job'[u].name
    BY DEF MatchInv
  <2>1. u # t /\ pc[u] = "lockEntry" /\ pe[u].index \in Slots
    BY <1>1 DEF HasHandle
  <2>2. /\ table'[pe[u].index].valid = table[pe[u].index].valid
        /\ table'[pe[u].index].name = table[pe[u].index].name
    BY <2>1
  <2>3. /\ pitLock = u /\ table[pe[u].index].valid
        /\ table[pe[u].index].name = job[u].name
    BY <2>1 DEF EntriesInv, MatchInv
  <2>4. QED
    BY <2>2, <2>3
<1>9. NewInv' /\ NewEntryUnlocked'
  <2> SUFFICES ASSUME NEW u \in Expressers, pc'[u] = "lockNew"
               PROVE  pitLock' = u /\ mutex'[pe'[u].index] = NoThread
    BY DEF NewInv, NewEntryUnlocked
  <2>1. u # t /\ pc[u] = "lockNew" /\ pe[u].index \in Slots /\ Releases(u)
    BY <1>1 DEF HasHandle, Releases
  <2>2. QED
    BY <1>1, <1>3, <2>1 DEF EntriesInv, NewInv, NewEntryUnlocked, s
<1>10. HitInv'
  <2> SUFFICES ASSUME NEW u \in Workers, pc'[u] = "hit"
               PROVE  /\ table'[pe'[u].index].valid /\ table'[pe'[u].index].name = job'[u].name
                      /\ pe'[u].registered = table'[pe'[u].index].registered
                      /\ \A v \in Threads : pc'[v] = "clear" => pe'[v].index # pe'[u].index
    BY DEF HitInv
  <2>1. u # t /\ pc[u] = "hit" /\ pe[u].index \in Slots /\ pe[u].index # s
    BY <1>1, <1>4 DEF HasHandle
  <2>2. \A v \in Threads : pc'[v] = "clear" => pe'[v].index # pe'[u].index
    BY <1>1, <2>1 DEF EntriesInv, HitInv, s
  <2>3. table'[pe[u].index] = table[pe[u].index]
    BY <2>1 DEF s
  <2>4. /\ table[pe[u].index].valid /\ table[pe[u].index].name = job[u].name
        /\ pe[u].registered = table[pe[u].index].registered
    BY <2>1 DEF EntriesInv, HitInv
  <2>5. QED
    BY <2>2, <2>3, <2>4
<1>11. ExpiredInv'
  <2> SUFFICES ASSUME NEW u \in Threads, pc'[u] = "clear"
               PROVE  table'[pe'[u].index].expires = 0
    BY DEF ExpiredInv
  <2>1. CASE u = t
    BY <2>1
  <2>2. CASE u # t
    <3>1. pc[u] = "clear" /\ pe[u].index \in Slots /\ Releases(u)
      BY <1>1, <2>2 DEF HasHandle, Releases, Threads
    <3>2. QED
      BY <1>3, <2>2, <3>1 DEF EntriesInv, ExpiredInv, s
  <2>3. QED
    BY <2>1, <2>2
<1>12. RegisteredInv'
  BY <1>1, <1>2, <1>5 DEF EntriesInv, RegisteredInv, s
<1>13. ObjectInv'
  <2> SUFFICES ASSUME NEW u \in Slots, table'[u].obj # NoName
               PROVE  table'[u].valid /\ table'[u].obj = table'[u].name
    BY DEF ObjectInv
  <2>1. CASE u = s
    BY <1>5, <2>1 DEF EntriesInv, ObjectInv, s
  <2>2. CASE u # s
    BY <2>2 DEF EntriesInv, ObjectInv, s
  <2>3. QED
    BY <2>1, <2>2
<1>14. RightContent'
  <2>1. table[s].obj \in {NoName, job[t].name}
    BY <1>5 DEF EntriesInv, ObjectInv
  <2>2. \A e \in Expressers : got'[e] \in {NoName, job'[e].name}
    BY <2>1 DEF EntriesInv, RightContent, s
  <2>3. QED
    BY <2>2 DEF RightContent
<1>15. NoLostWakeup'
  <2> SUFFICES ASSUME NEW u \in Expressers, pc'[u] = "wait"
               PROVE  table'[pe'[u].index].obj = NoName
    BY DEF NoLostWakeup
  <2>1. u # t /\ pc[u] = "wait" /\ pe[u].index \in Slots /\ Releases(u)
    BY <1>1 DEF HasHandle, Releases
  <2>2. QED
    BY <1>1, <1>3, <2>1 DEF EntriesInv, NoLostWakeup, s
<1>16. QED
  BY <1>6, <1>7, <1>8, <1>9, <1>10, <1>11, <1>12, <1>13, <1>14, <1>15 DEF EntriesInv

\* Data for an application: the entry gets its object and the waiting thread is woken.
LEMMA RoomyDataForApplication ==
  ASSUME TypeInv, TypeInv', EntriesInv, MutexOwner', NEW w \in Workers, DataForApplication(w)
  PROVE  EntriesInv'
<1> USE ThreadAssumption, SlotFacts
<1> DEFINE s == pe[w].index
<1>1. /\ w \in Threads /\ w \notin Expressers /\ s \in Slots
      /\ \A t \in Threads : HasHandle(t) => pe[t].index \in Slots
      /\ \A t \in Threads : Releases(t) => pe[t].index \in Slots
      /\ Expressers \subseteq Threads /\ Workers \subseteq Threads
  BY DEF Threads, TypeInv, ThreadInv, HasHandle, Releases, DataForApplication
<1>2. /\ pc[w] = "hit" /\ job[w].kind = "data" /\ pe[w].registered
      /\ table[s].valid /\ table[s].name = job[w].name
      /\ \A t \in Threads : pc[t] = "clear" => pe[t].index # s
  BY DEF DataForApplication, EntriesInv, HitInv
<1>3. /\ job' = job /\ got' = got /\ pitLock' = pitLock
      /\ pe' = [pe EXCEPT ![w] = NoHandle]
      /\ mutex' = [mutex EXCEPT ![s] = NoThread]
  BY DEF DataForApplication
<1>4. /\ \A u \in Slots : u # s => table'[u] = table[u] /\ mutex'[u] = mutex[u]
      /\ table'[s].valid = table[s].valid /\ table'[s].name = table[s].name
      /\ table'[s].registered = table[s].registered
      /\ table'[s].obj \in {table[s].obj, job[w].name}
  <2>1. /\ table' = [table EXCEPT ![s] = Refreshed(WithObject(table[s], job[w].name))]
        /\ table \in [Slots -> Entry] /\ mutex \in [Slots -> Threads \cup {NoThread}]
    BY DEF DataForApplication, TypeInv, TypeOK
  <2>2. \A u \in Slots : u # s => table'[u] = table[u] /\ mutex'[u] = mutex[u]
    BY <1>3, <2>1
  <2>3. table'[s] = Refreshed(WithObject(table[s], job[w].name)) /\ table[s] \in Entry
    BY <1>1, <2>1
  <2>4. QED
    BY <2>2, <2>3 DEF Refreshed, WithObject, Entry
<1>5. \A t \in Threads : t # w => pe'[t] = pe[t]
  BY <1>3 DEF TypeInv, TypeOK
<1>6. /\ pc'[w] = "idle"
      /\ \A t \in Threads : t # w =>
            \/ pc'[t] = pc[t] /\ ~(t \in Expressers /\ pc[t] = "wait" /\ pe[t].index = s)
            \/ t \in Expressers /\ pc[t] = "wait" /\ pc'[t] = "signalled"
  <2>1. CASE /\ \A e \in Expressers : ~(pc[e] = "wait" /\ pe[e].index = s)
             /\ pc' = [pc EXCEPT ![w] = "idle"]
    BY <1>1, <2>1 DEF TypeInv, TypeOK
  <2>2. ASSUME NEW e \in Expressers, pc[e] = "wait", pe[e].index = s,
               pc' = [pc EXCEPT ![w] = "idle", ![e] = "signalled"]
        PROVE  /\ pc'[w] = "idle"
               /\ \A t \in Threads : t # w =>
                     \/ pc'[t] = pc[t] /\ ~(t \in Expressers /\ pc[t] = "wait" /\ pe[t].index = s)
                     \/ t \in Expressers /\ pc[t] = "wait" /\ pc'[t] = "signalled"
    <3>1. e # w /\ e \in Threads /\ Releases(e)
      BY <1>1, <2>2 DEF Releases
    <3>2. pc'[w] = "idle" /\ pc'[e] = "signalled" /\ \A t \in Threads : t # w /\ t # e => pc'[t] = pc[t]
      BY <1>1, <2>2, <3>1 DEF TypeInv, TypeOK
    <3>3. \A t \in Expressers : t # e /\ pc[t] = "wait" => pe[t].index # s
      BY <1>1, <2>2, <3>1 DEF EntriesInv, OneReleaser, Releases
    <3>4. QED
      BY <2>2, <3>2, <3>3
  <2>3. QED
    BY <2>1, <2>2 DEF DataForApplication, Goto
<1> HIDE DEF s
<1>7. /\ \A t \in Threads : t # w => (Releases(t)' <=> Releases(t))
      /\ ~Releases(w)'
  BY <1>1, <1>3, <1>5, <1>6 DEF Releases
<1>8. OneReleaser'
  BY <1>1, <1>5, <1>7 DEF EntriesInv, OneReleaser
<1>9. EntryKept'
  <2> SUFFICES ASSUME NEW t \in Threads, Releases(t)'
               PROVE  /\ pe'[t].index # 0
                      /\ table'[pe'[t].index].valid
                      /\ table'[pe'[t].index].name = job'[t].name
                      /\ (table'[pe'[t].index].registered <=> t \in Expressers)
    BY DEF EntryKept
  <2>1. t # w /\ Releases(t) /\ pe'[t] = pe[t] /\ pe[t].index \in Slots
    BY <1>1, <1>5, <1>7
  <2>2. /\ table'[pe[t].index].valid = table[pe[t].index].valid
        /\ table'[pe[t].index].name = table[pe[t].index].name
        /\ table'[pe[t].index].registered = table[pe[t].index].registered
    BY <1>4, <2>1
  <2>3. QED
    BY <1>3, <2>1, <2>2 DEF EntriesInv, EntryKept
<1>10. MatchInv'
  <2> SUFFICES ASSUME NEW u \in Workers, pc'[u] = "lockEntry"
               PROVE  /\ pitLock' = u /\ table'[pe'[u].index].valid
                      /\ table'[pe'[u].index].name = job'[u].name
    BY DEF MatchInv
  <2>1. u # w /\ pc[u] = "lockEntry" /\ pe'[u] = pe[u] /\ pe[u].index \in Slots
    BY <1>1, <1>5, <1>6 DEF HasHandle
  <2>2. /\ table'[pe[u].index].valid = table[pe[u].index].valid
        /\ table'[pe[u].index].name = table[pe[u].index].name
    BY <1>4, <2>1
  <2>3. QED
    BY <1>3, <2>1, <2>2 DEF EntriesInv, MatchInv
<1>11. NewInv' /\ NewEntryUnlocked'
  <2> SUFFICES ASSUME NEW u \in Expressers, pc'[u] = "lockNew"
               PROVE  pitLock' = u /\ mutex'[pe'[u].index] = NoThread
    BY DEF NewInv, NewEntryUnlocked
  <2>1. u # w /\ pc[u] = "lockNew" /\ pe'[u] = pe[u] /\ pe[u].index \in Slots
    BY <1>1, <1>5, <1>6 DEF HasHandle
  <2>2. mutex'[pe[u].index] \in {mutex[pe[u].index], NoThread}
    BY <1>1, <1>3, <1>4, <2>1 DEF TypeInv, TypeOK
  <2>3. QED
    BY <1>3, <2>1, <2>2 DEF EntriesInv, NewInv, NewEntryUnlocked
<1>12. HitInv'
  <2> SUFFICES ASSUME NEW u \in Workers, pc'[u] = "hit"
               PROVE  /\ table'[pe'[u].index].valid /\ table'[pe'[u].index].name = job'[u].name
                      /\ pe'[u].registered = table'[pe'[u].index].registered
                      /\ \A v \in Threads : pc'[v] = "clear" => pe'[v].index # pe'[u].index
    BY DEF HitInv
  <2>1. u # w /\ pc[u] = "hit" /\ pe'[u] = pe[u] /\ pe[u].index \in Slots
    BY <1>1, <1>5, <1>6 DEF HasHandle
  <2>2. \A v \in Threads : pc'[v] = "clear" => pe'[v].index # pe'[u].index
    BY <1>5, <1>6, <2>1 DEF EntriesInv, HitInv
  <2>3. QED
    BY <1>3, <1>4, <2>1, <2>2 DEF EntriesInv, HitInv
<1>13. ExpiredInv'
  <2> SUFFICES ASSUME NEW t \in Threads, pc'[t] = "clear"
               PROVE  table'[pe'[t].index].expires = 0
    BY DEF ExpiredInv
  <2>1. t # w /\ pc[t] = "clear" /\ pe'[t] = pe[t] /\ pe[t].index \in Slots /\ pe[t].index # s
    BY <1>1, <1>2, <1>5, <1>6 DEF HasHandle
  <2>2. QED
    BY <1>4, <2>1 DEF EntriesInv, ExpiredInv
<1>14. RegisteredInv'
  <2> SUFFICES ASSUME NEW u \in Slots, table'[u].registered
               PROVE  \E e \in Expressers : Releases(e)' /\ pe'[e].index = u
    BY DEF RegisteredInv
  <2>1. table[u].registered
    BY <1>4
  <2>2. PICK e \in Expressers : Releases(e) /\ pe[e].index = u
    BY <2>1 DEF EntriesInv, RegisteredInv
  <2>3. QED
    BY <1>1, <1>5, <1>7, <2>2
<1>15. ObjectInv'
  <2> SUFFICES ASSUME NEW u \in Slots, table'[u].obj # NoName
               PROVE  table'[u].valid /\ table'[u].obj = table'[u].name
    BY DEF ObjectInv
  <2>1. CASE u = s
    BY <1>2, <1>4, <2>1 DEF EntriesInv, ObjectInv
  <2>2. CASE u # s
    BY <1>4, <2>2 DEF EntriesInv, ObjectInv
  <2>3. QED
    BY <2>1, <2>2
<1>16. RightContent'
  BY <1>3 DEF EntriesInv, RightContent
<1>17. NoLostWakeup'
  <2> SUFFICES ASSUME NEW u \in Expressers, pc'[u] = "wait"
               PROVE  table'[pe'[u].index].obj = NoName
    BY DEF NoLostWakeup
  <2>1. u # w /\ pc[u] = "wait" /\ pe'[u] = pe[u] /\ pe[u].index \in Slots /\ pe[u].index # s
    BY <1>1, <1>5, <1>6 DEF HasHandle
  <2>2. QED
    BY <1>4, <2>1 DEF EntriesInv, NoLostWakeup
<1>18. QED
  BY <1>8, <1>9, <1>10, <1>11, <1>12, <1>13, <1>14, <1>15, <1>16, <1>17 DEF EntriesInv

\* The second half of PIT_release: nobody else uses the entry that is cleared.
LEMMA RoomyClearEntry ==
  ASSUME TypeInv, TypeInv', EntriesInv, MutexOwner', NEW t \in Threads, ClearEntry(t)
  PROVE  EntriesInv'
<1> USE ThreadAssumption, SlotFacts
<1> DEFINE s == pe[t].index
<1>1. /\ s \in Slots /\ pc[t] = "clear" /\ Releases(t) /\ pitLock = NoThread
      /\ \A u \in Threads : HasHandle(u) => pe[u].index \in Slots
      /\ \A u \in Threads : Releases(u) => pe[u].index \in Slots
      /\ Expressers \subseteq Threads /\ Workers \subseteq Threads /\ NoThread \notin Threads
  BY DEF Threads, TypeInv, ThreadInv, HasHandle, Releases, ClearEntry
<1>2. /\ job' = job /\ got' = got /\ pitLock' = pitLock /\ mutex' = mutex
      /\ pc'[t] = "idle"
      /\ \A u \in Threads : u # t => SameThread(u)
  BY DEF ClearEntry, Goto, SameThread, TypeInv, TypeOK
<1>3. /\ \A u \in Slots : u # s => table'[u] = table[u]
      /\ table'[s].obj = NoName /\ ~table'[s].registered
  BY <1>1 DEF ClearEntry, ClearedEntry, EmptyEntry, TypeInv, TypeOK, Entry
<1>4. \A u \in Threads : u # t /\ Releases(u) => pe[u].index # s
  BY <1>1 DEF EntriesInv, OneReleaser
<1>5. \A u \in Workers : pc[u] = "hit" => pe[u].index # s
  BY <1>1 DEF EntriesInv, HitInv
<1> HIDE DEF s
<1>6. /\ \A u \in Threads : u # t => (Releases(u)' <=> Releases(u))
      /\ ~Releases(t)'
  BY <1>2, SameThreadReleases DEF Releases
<1>7. OneReleaser'
  BY <1>2, <1>6 DEF EntriesInv, OneReleaser, SameThread
<1>8. EntryKept'
  <2> SUFFICES ASSUME NEW u \in Threads, Releases(u)'
               PROVE  /\ pe'[u].index # 0
                      /\ table'[pe'[u].index].valid
                      /\ table'[pe'[u].index].name = job'[u].name
                      /\ (table'[pe'[u].index].registered <=> u \in Expressers)
    BY DEF EntryKept
  <2>1. u # t /\ Releases(u) /\ SameThread(u) /\ pe[u].index \in Slots /\ pe[u].index # s
    BY <1>1, <1>2, <1>4, <1>6
  <2>2. QED
    BY <1>3, <2>1 DEF EntriesInv, EntryKept, SameThread
<1>9. MatchInv' /\ NewInv' /\ NewEntryUnlocked'
  BY <1>1, <1>2 DEF EntriesInv, MatchInv, NewInv, NewEntryUnlocked, SameThread
<1>10. HitInv'
  <2> SUFFICES ASSUME NEW u \in Workers, pc'[u] = "hit"
               PROVE  /\ table'[pe'[u].index].valid /\ table'[pe'[u].index].name = job'[u].name
                      /\ pe'[u].registered = table'[pe'[u].index].registered
                      /\ \A v \in Threads : pc'[v] = "clear" => pe'[v].index # pe'[u].index
    BY DEF HitInv
  <2>1. u # t /\ pc[u] = "hit" /\ SameThread(u) /\ pe[u].index \in Slots /\ pe[u].index # s
    BY <1>1, <1>2, <1>5 DEF HasHandle, SameThread
  <2>2. \A v \in Threads : pc'[v] = "clear" => pe'[v].index # pe'[u].index
    BY <1>2, <2>1 DEF EntriesInv, HitInv, SameThread
  <2>3. QED
    BY <1>3, <2>1, <2>2 DEF EntriesInv, HitInv, SameThread
<1>11. ExpiredInv'
  <2> SUFFICES ASSUME NEW u \in Threads, pc'[u] = "clear"
               PROVE  table'[pe'[u].index].expires = 0
    BY DEF ExpiredInv
  <2>1. u # t /\ pc[u] = "clear" /\ SameThread(u) /\ Releases(u) /\ pe[u].index \in Slots
    BY <1>1, <1>2 DEF HasHandle, SameThread, Releases, Threads
  <2>2. QED
    BY <1>3, <1>4, <2>1 DEF EntriesInv, ExpiredInv, SameThread
<1>12. RegisteredInv'
  <2> SUFFICES ASSUME NEW u \in Slots, table'[u].registered
               PROVE  \E e \in Expressers : Releases(e)' /\ pe'[e].index = u
    BY DEF RegisteredInv
  <2>1. u # s /\ table[u].registered
    BY <1>3
  <2>2. PICK e \in Expressers : Releases(e) /\ pe[e].index = u
    BY <2>1 DEF EntriesInv, RegisteredInv
  <2>3. e # t
    BY <2>1, <2>2 DEF s
  <2>4. QED
    BY <1>1, <1>2, <1>6, <2>2, <2>3 DEF SameThread
<1>13. ObjectInv' /\ RightContent'
  BY <1>2, <1>3 DEF EntriesInv, ObjectInv, RightContent
<1>14. NoLostWakeup'
  <2> SUFFICES ASSUME NEW u \in Expressers, pc'[u] = "wait"
               PROVE  table'[pe'[u].index].obj = NoName
    BY DEF NoLostWakeup
  <2>1. u # t /\ pc[u] = "wait" /\ SameThread(u) /\ pe[u].index \in Slots
    BY <1>1, <1>2 DEF HasHandle, SameThread
  <2>2. QED
    BY <1>3, <2>1 DEF EntriesInv, NoLostWakeup, SameThread
<1>15. QED
  BY <1>7, <1>8, <1>9, <1>10, <1>11, <1>12, <1>13, <1>14 DEF EntriesInv

\* Nobody uses an entry whose valid bit is clear, nor holds its mutex.
LEMMA FreeSlotUnused ==
  ASSUME TypeInv, EntriesInv, NEW s \in Slots, ~table[s].valid
  PROVE  /\ table[s].obj = NoName /\ mutex[s] = NoThread
         /\ \A t \in Threads : pe[t].index = s =>
               ~Releases(t) /\ pc[t] \notin {"lockEntry", "hit"}
<1>1. table[s].obj = NoName
  BY DEF EntriesInv, ObjectInv
<1>2. ASSUME NEW t \in Threads, pe[t].index = s
      PROVE  ~Releases(t) /\ pc[t] \notin {"lockEntry", "hit"}
  <2>1. ~Releases(t)
    BY <1>2 DEF EntriesInv, EntryKept
  <2>2. t \in Expressers => pc[t] \notin {"lockEntry", "hit"}
    BY DEF TypeInv, ThreadInv, ExpresserPC
  <2>3. t \in Workers => pc[t] \notin {"lockEntry", "hit"}
    BY <1>2 DEF EntriesInv, MatchInv, HitInv
  <2>4. QED
    BY <2>1, <2>2, <2>3 DEF Threads
<1>3. mutex[s] = NoThread
  <2> SUFFICES ASSUME mutex[s] # NoThread
               PROVE  FALSE
    OBVIOUS
  <2> DEFINE t == mutex[s]
  <2>1. t \in Threads /\ pe[t].index = s /\ pc[t] \in {"hit", "send", "done"}
    BY DEF EntriesInv, MutexOwner, Holding, TypeInv, TypeOK
  <2>2. pc[t] # "hit" /\ ~Releases(t)
    BY <1>2, <2>1
  <2>3. t \in Expressers
    BY <2>1, <2>2 DEF Threads, TypeInv, ThreadInv, WorkerPC
  <2>4. QED
    BY <2>1, <2>2, <2>3 DEF Releases
<1>4. QED
  BY <1>1, <1>2, <1>3

\* A thread takes a free slot for a new entry, for an interest it forwarded or, if
\* it is an application's, for its own request.
LEMMA Adding ==
  ASSUME TypeInv, TypeInv', EntriesInv, MutexOwner', NEW t \in Threads, NEW s \in Slots,
         ~table[s].valid, ~Releases(t), pc'[t] # "hit", pitLock = NoThread,
         table' = [table EXCEPT ![s] = NewEntry(job[t].name, t \in Expressers, NoName)],
         \A u \in Threads : u # t => SameThread(u),
         job' = job, mutex' = mutex, got' = got,
         \/ t \in Workers /\ pc'[t] = "idle" /\ pitLock' = pitLock
         \/ t \in Expressers /\ pc'[t] = "lockNew" /\ pe'[t].index = s /\ pitLock' = t
  PROVE  EntriesInv'
<1> USE ThreadAssumption, SlotFacts
<1>1. /\ \A u \in Threads : HasHandle(u) => pe[u].index \in Slots
      /\ \A u \in Threads : Releases(u) => pe[u].index \in Slots
      /\ Expressers \subseteq Threads /\ Workers \subseteq Threads /\ NoThread \notin Threads
  BY DEF Threads, TypeInv, ThreadInv, HasHandle, Releases
<1>2. /\ \A u \in Slots : u # s => table'[u] = table[u]
      /\ table'[s].valid /\ table'[s].name = job[t].name /\ table'[s].obj = NoName
      /\ table'[s].registered <=> t \in Expressers
  BY DEF NewEntry, TypeInv, TypeOK
<1>3. /\ mutex[s] = NoThread
      /\ \A u \in Threads : pe[u].index = s => ~Releases(u) /\ pc[u] \notin {"lockEntry", "hit"}
  BY FreeSlotUnused
<1>4. /\ \A u \in Threads : u # t => (Releases(u)' <=> Releases(u))
      /\ Releases(t)' <=> t \in Expressers
      /\ t \in Expressers => pe'[t].index = s /\ pc'[t] = "lockNew"
      /\ t \in Workers => pc'[t] = "idle"
  BY SameThreadReleases DEF Releases
<1>5. OneReleaser'
  BY <1>3, <1>4 DEF EntriesInv, OneReleaser, SameThread
<1>6. EntryKept'
  <2> SUFFICES ASSUME NEW u \in Threads, Releases(u)'
               PROVE  /\ pe'[u].index # 0
                      /\ table'[pe'[u].index].valid
                      /\ table'[pe'[u].index].name = job'[u].name
                      /\ (table'[pe'[u].index].registered <=> u \in Expressers)
    BY DEF EntryKept
  <2>1. CASE u = t
    BY <1>2, <1>4, <2>1
  <2>2. CASE u # t
    <3>1. Releases(u) /\ SameThread(u) /\ pe[u].index \in Slots /\ pe[u].index # s
      BY <1>1, <1>3, <1>4, <2>2
    <3>2. QED
      BY <1>2, <3>1 DEF EntriesInv, EntryKept, SameThread
  <2>3. QED
    BY <2>1, <2>2
<1>7. MatchInv' /\ NewInv' /\ NewEntryUnlocked'
  BY <1>1, <1>3, <1>4 DEF EntriesInv, MatchInv, NewInv, NewEntryUnlocked, SameThread
<1>8. HitInv'
  <2> SUFFICES ASSUME NEW u \in Workers, pc'[u] = "hit"
               PROVE  /\ table'[pe'[u].index].valid /\ table'[pe'[u].index].name = job'[u].name
                      /\ pe'[u].registered = table'[pe'[u].index].registered
                      /\ \A v \in Threads : pc'[v] = "clear" => pe'[v].index # pe'[u].index
    BY DEF HitInv
  <2>1. u # t /\ pc[u] = "hit" /\ SameThread(u) /\ pe[u].index \in Slots /\ pe[u].index # s
    BY <1>1, <1>3 DEF HasHandle, SameThread
  <2>2. \A v \in Threads : pc'[v] = "clear" => pe'[v].index # pe'[u].index
    BY <1>4, <2>1 DEF EntriesInv, HitInv, SameThread, Threads
  <2>3. QED
    BY <1>2, <2>1, <2>2 DEF EntriesInv, HitInv, SameThread
<1>9. ExpiredInv'
  <2> SUFFICES ASSUME NEW u \in Threads, pc'[u] = "clear"
               PROVE  table'[pe'[u].index].expires = 0
    BY DEF ExpiredInv
  <2>1. u # t /\ pc[u] = "clear" /\ SameThread(u) /\ Releases(u) /\ pe[u].index \in Slots
    BY <1>1, <1>4 DEF HasHandle, SameThread, Releases, Threads
  <2>2. QED
    BY <1>2, <1>3, <2>1 DEF EntriesInv, ExpiredInv, SameThread
<1>10. RegisteredInv'
  <2> SUFFICES ASSUME NEW u \in Slots, table'[u].registered
               PROVE  \E e \in Expressers : Releases(e)' /\ pe'[e].index = u
    BY DEF RegisteredInv
  <2>1. CASE u = s
    BY <1>2, <1>4, <2>1
  <2>2. CASE u # s
    <3>1. PICK e \in Expressers : Releases(e) /\ pe[e].index = u
      BY <1>2, <2>2 DEF EntriesInv, RegisteredInv
    <3>2. e # t
      BY <3>1
    <3>3. QED
      BY <1>1, <1>4, <3>1, <3>2 DEF SameThread
  <2>3. QED
    BY <2>1, <2>2
<1>11. ObjectInv' /\ RightContent'
  BY <1>2 DEF EntriesInv, ObjectInv, RightContent
<1>12. NoLostWakeup'
  <2> SUFFICES ASSUME NEW u \in Expressers, pc'[u] = "wait"
               PROVE  table'[pe'[u].index].obj = NoName
    BY DEF NoLostWakeup
  <2>1. u # t /\ pc[u] = "wait" /\ SameThread(u) /\ pe[u].index \in Slots
    BY <1>1, <1>4 DEF HasHandle, SameThread
  <2>2. QED
    BY <1>2, <2>1 DEF EntriesInv, NoLostWakeup, SameThread
<1>13. QED
  BY <1>5, <1>6, <1>7, <1>8, <1>9, <1>10, <1>11, <1>12 DEF EntriesInv

\* An application thread that takes up a new request.
LEMMA RoomyExpress ==
  ASSUME TypeInv, TypeInv', EntriesInv, MutexOwner', NEW e \in Expressers, NEW n \in Names,
         Express(e, n)
  PROVE  EntriesInv'
<1> USE ThreadAssumption, SlotFacts
<1>1. /\ e \in Threads /\ e \notin Workers /\ ~Releases(e) /\ ~Releases(e)'
      /\ Expressers \subseteq Threads /\ Workers \subseteq Threads
      /\ pc'[e] = "alloc"
      /\ \A t \in Threads : t # e => SameThread(t)
  BY DEF Threads, Express, Goto, Releases, SameThread, TypeInv, TypeOK
<1>2. /\ UNCHANGED <<table, mutex, pitLock>>
      /\ got'[e] = NoName /\ \A u \in Expressers : u # e => got'[u] = got[u]
  BY DEF Express, tableVars, TypeInv, TypeOK
<1>3. \A t \in Threads : t # e => (Releases(t)' <=> Releases(t))
  BY SameThreadReleases, <1>1
<1>4. OneReleaser' /\ EntryKept'
  BY <1>1, <1>2, <1>3 DEF EntriesInv, OneReleaser, EntryKept, SameThread
<1>5. MatchInv' /\ NewInv' /\ NewEntryUnlocked'
  BY <1>1, <1>2 DEF EntriesInv, MatchInv, NewInv, NewEntryUnlocked, SameThread
<1>6. HitInv' /\ ExpiredInv'
  BY <1>1, <1>2 DEF EntriesInv, HitInv, ExpiredInv, SameThread
<1>7. RegisteredInv' /\ ObjectInv'
  BY <1>1, <1>2, <1>3 DEF EntriesInv, RegisteredInv, ObjectInv, SameThread
<1>8. RightContent' /\ NoLostWakeup'
  BY <1>1, <1>2 DEF EntriesInv, RightContent, NoLostWakeup, SameThread
<1>9. QED
  BY <1>4, <1>5, <1>6, <1>7, <1>8 DEF EntriesInv

\* The steps of a worker keep the invariant.
LEMMA WorkerEntriesInv ==
  ASSUME TypeInv, TypeInv', EntriesInv, MutexOwner', NEW w \in Workers,
         WorkerStep(w) \/ \E k \in {"interest", "data"}, n \in Names : Receive(w, k, n)
  PROVE  EntriesInv'
<1> USE ThreadAssumption, SlotFacts
<1>1. /\ w \in Threads /\ w \notin Expressers
      /\ pc \in [Threads -> WorkerPC \cup ExpresserPC]
      /\ DOMAIN pe = Threads /\ DOMAIN job = Threads
      /\ table \in [Slots -> Entry] /\ DOMAIN mutex = Slots
      /\ HasHandle(w) => pe[w].index \in Slots
      /\ pc[w] # "idle" => job[w].kind \in {"interest", "data"} /\ job[w].name \in Names
  BY DEF Threads, TypeInv, TypeOK, ThreadInv
<1>2. CASE \E k \in {"interest", "data"}, n \in Names : Receive(w, k, n)
  <2>1. /\ pc'[w] = "search" /\ ~Releases(w) /\ ~Releases(w)'
        /\ \A t \in Threads : t # w => SameThread(t)
        /\ UNCHANGED <<table, mutex, pitLock, got>>
    BY <1>1, <1>2 DEF Receive, Goto, SameThread, Releases, tableVars
  <2>2. QED
    BY <2>1, QuietWorker DEF SameUse
<1>3. CASE SearchMiss(w) \/ InterestMiss(w)
  <2>1. /\ pc'[w] \in {"idle", "miss", "add"} /\ ~Releases(w) /\ ~Releases(w)'
        /\ \A t \in Threads : t # w => SameThread(t)
        /\ UNCHANGED <<table, mutex, pitLock, got>>
    BY <1>1, <1>3 DEF SearchMiss, InterestMiss, MissLabel, Goto, SameThread, Releases, tableVars
  <2>2. QED
    BY <2>1, QuietWorker DEF SameUse
<1>4. CASE SearchHit(w)
  BY <1>4, RoomySearchHit
<1>5. CASE MatchFails(w)
  <2>1. /\ pc'[w] \in {"idle", "miss"} /\ ~Releases(w) /\ ~Releases(w)' /\ pitLock = w
        /\ \A t \in Threads : t # w => SameThread(t)
        /\ UNCHANGED <<table, mutex, got>>
    BY <1>1, <1>5 DEF MatchFails, MissLabel, Goto, SameThread, Releases, EntriesInv, MatchInv
  <2>2. QED
    BY <2>1, QuietWorker DEF SameUse
<1>6. CASE MatchSucceeds(w)
  BY <1>6, RoomyMatchSucceeds
<1>7. CASE InterestHit(w)
  <2>1. /\ pc[w] = "hit" /\ pc'[w] = "close" /\ ~Releases(w) /\ ~Releases(w)'
        /\ pe[w].index \in Slots
        /\ \A t \in Threads : t # w => SameThread(t)
        /\ got' = got /\ pitLock' = pitLock
    BY <1>1, <1>7 DEF InterestHit, Goto, SameThread, Releases, HasHandle
  <2>2. \A s \in Slots : /\ SameUse(s)
                         /\ s # pe[w].index => table'[s] = table[s] /\ mutex'[s] = mutex[s]
    BY <1>1, <1>7, <2>1 DEF InterestHit, Refreshed, SameUse, Entry
  <2>3. QED
    BY <2>1, <2>2, QuietWorker
<1>8. CASE CloseEntry(w)
  <2>1. /\ pc'[w] = "idle" /\ ~Releases(w) /\ ~Releases(w)' /\ pe[w].index \in Slots
        /\ \A t \in Threads : t # w => SameThread(t)
        /\ UNCHANGED <<mutex, pitLock, got>>
    BY <1>1, <1>8 DEF CloseEntry, Goto, SameThread, Releases, HasHandle
  <2>2. \A s \in Slots : SameUse(s) /\ table'[s].expires = table[s].expires
    BY <1>1, <1>8, <2>1 DEF CloseEntry, SameUse, Entry
  <2>3. QED
    BY <2>1, <2>2, QuietWorker
<1>9. CASE DataForApplication(w)
  BY <1>9, RoomyDataForApplication
<1>10. CASE DataForNetwork(w)
  <2>1. /\ Releases(w) /\ Holding(w) /\ pc'[w] = "clear" /\ pe[w].index \in Slots
        /\ UNCHANGED <<pe, job, pitLock, got>>
        /\ \A t \in Threads : t # w => pc'[t] = pc[t]
        /\ job[w].name \in Names
    BY <1>1, <1>10 DEF DataForNetwork, ReleaseEntry, Goto, Releases, Holding, HasHandle
  <2>2. \A s \in Slots : s # pe[w].index => table'[s] = table[s] /\ mutex'[s] = mutex[s]
    BY <1>1, <1>10 DEF DataForNetwork, ReleaseEntry
  <2>3. table'[pe[w].index] = [WithObject(table[pe[w].index], job[w].name) EXCEPT !.expires = 0]
    BY <1>1, <1>10, <2>1 DEF DataForNetwork, ReleaseEntry
  <2>4. /\ table'[pe[w].index].expires = 0
        /\ table'[pe[w].index].valid = table[pe[w].index].valid
        /\ table'[pe[w].index].name = table[pe[w].index].name
        /\ table'[pe[w].index].registered = table[pe[w].index].registered
        /\ table'[pe[w].index].obj \in {table[pe[w].index].obj, job[w].name}
    BY <1>1, <2>1, <2>3 DEF WithObject, Entry
  <2>5. \/ table'[pe[w].index].obj = table[pe[w].index].obj
        \/ table'[pe[w].index].obj = job[w].name
    BY <2>4
  <2>6. \A e \in Expressers : got'[e] = got[e]
    BY <2>1
  <2>7. QED
    BY <1>1, <2>1, <2>2, <2>4, <2>5, <2>6, Releasing
<1>11. CASE ClearEntry(w)
  BY <1>1, <1>11, RoomyClearEntry
<1>12. CASE AddEntry(w)
  <2>1. PICK s \in Slots : /\ ~table[s].valid
                           /\ table' = [table EXCEPT ![s] = NewEntry(job[w].name, FALSE, table[s].obj)]
    BY <1>12 DEF AddEntry, First, FreeSlots
  <2>2. table[s].obj = NoName
    BY <2>1, FreeSlotUnused
  <2>3. /\ pc'[w] = "idle" /\ ~Releases(w) /\ pitLock = NoThread
        /\ UNCHANGED <<job, mutex, got, pitLock>>
        /\ \A t \in Threads : t # w => SameThread(t)
    BY <1>1, <1>12 DEF AddEntry, Goto, SameThread, Releases
  <2>4. table' = [table EXCEPT ![s] = NewEntry(job[w].name, w \in Expressers, NoName)]
    <3>1. (w \in Expressers) = FALSE
      BY <1>1
    <3>2. QED
      BY <2>1, <2>2, <3>1
  <2>5. QED
    BY <1>1, <2>1, <2>3, <2>4, Adding
<1>13. QED
  BY <1>2, <1>3, <1>4, <1>5, <1>6, <1>7, <1>8, <1>9, <1>10, <1>11, <1>12 DEF WorkerStep

\* The steps of an application thread keep the invariant.
LEMMA ExpresserEntriesInv ==
  ASSUME TypeInv, TypeInv', EntriesInv, MutexOwner', NEW e \in Expressers,
         ExpresserStep(e) \/ \E n \in Names : Express(e, n)
  PROVE  EntriesInv'
<1> USE ThreadAssumption, SlotFacts
<1>1. /\ e \in Threads /\ e \notin Workers
      /\ pc \in [Threads -> WorkerPC \cup ExpresserPC]
      /\ DOMAIN pe = Threads /\ DOMAIN job = Threads
      /\ table \in [Slots -> Entry] /\ DOMAIN mutex = Slots /\ DOMAIN got = Expressers
      /\ HasHandle(e) => pe[e].index \in Slots
  BY DEF Threads, TypeInv, TypeOK, ThreadInv
<1>2. CASE \E n \in Names : Express(e, n)
  BY <1>2, RoomyExpress
<1>3. CASE GetHandle(e)
  <2>1. PICK s \in Slots : /\ ~table[s].valid
                           /\ table' = [table EXCEPT ![s] = NewEntry(job[e].name, TRUE, table[s].obj)]
                           /\ pe' = [pe EXCEPT ![e] = [index |-> s, registered |-> TRUE]]
    BY <1>3 DEF GetHandle, First, FreeSlots, RegisterAt
  <2>2. table[s].obj = NoName
    BY <2>1, FreeSlotUnused
  <2>3. /\ pc'[e] = "lockNew" /\ ~Releases(e) /\ pitLock = NoThread /\ pitLock' = e
        /\ UNCHANGED <<job, mutex, got>> /\ pe'[e].index = s
        /\ \A t \in Threads : t # e => SameThread(t)
    BY <1>1, <1>3, <2>1 DEF GetHandle, RegisterAt, Goto, SameThread, Releases
  <2>4. table' = [table EXCEPT ![s] = NewEntry(job[e].name, e \in Expressers, NoName)]
    BY <2>1, <2>2
  <2>5. QED
    BY <1>1, <2>1, <2>3, <2>4, Adding
<1>4. CASE LockNew(e)
  <2>1. /\ pc[e] = "lockNew" /\ pc'[e] = "send" /\ pitLock = e /\ pe[e].index \in Slots
        /\ UNCHANGED <<pe, job, got, table>>
        /\ \A t \in Threads : t # e => pc'[t] = pc[t]
        /\ \A s \in Slots : s # pe[e].index => mutex'[s] = mutex[s]
    BY <1>1, <1>4 DEF LockNew, Goto, HasHandle, EntriesInv, NewInv
  <2>2. QED
    BY <2>1, QuietExpresser DEF SameUse
<1>5. CASE Send(e)
  <2>1. /\ pc[e] = "send" /\ pc'[e] \in {"wait", "done"} /\ pe[e].index \in Slots
        /\ pc'[e] = "wait" => table[pe[e].index].obj = NoName
        /\ UNCHANGED <<pe, job, got, pitLock>>
        /\ \A t \in Threads : t # e => pc'[t] = pc[t]
    BY <1>1, <1>5 DEF Send, Goto, HasHandle
  <2>2. \A s \in Slots : /\ SameUse(s)
                         /\ s # pe[e].index => table'[s] = table[s] /\ mutex'[s] = mutex[s]
    BY <1>1, <1>5, <2>1 DEF Send, Refreshed, SameUse, Entry
  <2>3. QED
    BY <2>1, <2>2, QuietExpresser
<1>6. CASE GiveUp(e) \/ TimeOut(e)
  <2>1. /\ pc[e] \in {"send", "wait"} /\ pc'[e] \in {"done", "timedOut"}
        /\ UNCHANGED <<pe, job, got, pitLock, table, mutex>>
        /\ \A t \in Threads : t # e => pc'[t] = pc[t]
    BY <1>1, <1>6 DEF GiveUp, TimeOut, Goto, tableVars
  <2>2. QED
    BY <2>1, QuietExpresser DEF SameUse
<1>7. CASE WakeWithObject(e) \/ WakeWithout(e)
  <2>1. /\ pc[e] \in {"signalled", "timedOut"} /\ pc'[e] \in {"done", "send", "wait"}
        /\ pc'[e] = "wait" => table[pe[e].index].obj = NoName
        /\ UNCHANGED <<pe, job, got, pitLock, table>>
        /\ \A t \in Threads : t # e => pc'[t] = pc[t]
        /\ \A s \in Slots : s # pe[e].index => mutex'[s] = mutex[s]
    BY <1>1, <1>7 DEF WakeWithObject, WakeWithout, Goto
  <2>2. QED
    BY <2>1, QuietExpresser DEF SameUse
<1>8. CASE Finish(e)
  <2>1. /\ Releases(e) /\ Holding(e) /\ pc'[e] = "clear" /\ pe[e].index \in Slots
        /\ UNCHANGED <<pe, job, pitLock>>
        /\ \A t \in Threads : t # e => pc'[t] = pc[t]
        /\ got'[e] = table[pe[e].index].obj /\ \A u \in Expressers : u # e => got'[u] = got[u]
    BY <1>1, <1>8 DEF Finish, ReleaseEntry, Goto, Releases, Holding, HasHandle
  <2>2. \A s \in Slots : s # pe[e].index => table'[s] = table[s] /\ mutex'[s] = mutex[s]
    BY <1>1, <1>8 DEF Finish, ReleaseEntry
  <2>3. table'[pe[e].index] = [table[pe[e].index] EXCEPT !.expires = 0]
    BY <1>1, <1>8, <2>1 DEF Finish, ReleaseEntry
  <2>4. /\ table'[pe[e].index].expires = 0
        /\ table'[pe[e].index].valid = table[pe[e].index].valid
        /\ table'[pe[e].index].name = table[pe[e].index].name
        /\ table'[pe[e].index].registered = table[pe[e].index].registered
        /\ table'[pe[e].index].obj = table[pe[e].index].obj
    BY <1>1, <2>1, <2>3 DEF Entry
  <2>5. QED
    BY <1>1, <2>1, <2>2, <2>4, Releasing
<1>9. CASE ClearEntry(e)
  BY <1>1, <1>9, RoomyClearEntry
<1>10. QED
  BY <1>2, <1>3, <1>4, <1>5, <1>6, <1>7, <1>8, <1>9 DEF ExpresserStep

\* A step that finds a free slot where it needs one keeps the invariant.
LEMMA NextEntriesInv ==
  TypeInv /\ TypeInv' /\ EntriesInv /\ MutexOwner' /\ [RoomyNext]_vars => EntriesInv'
<1> SUFFICES ASSUME TypeInv, TypeInv', EntriesInv, MutexOwner', [RoomyNext]_vars
             PROVE  EntriesInv'
  OBVIOUS
<1>1. CASE Tick \/ UNCHANGED vars
  <2>1. UNCHANGED <<pitLock, mutex, table, pc, job, pe, got>>
    BY <1>1 DEF Tick, vars, tableVars, threadVars
  <2>2. OneReleaser' /\ EntryKept'
    BY <2>1 DEF EntriesInv, OneReleaser, EntryKept, Releases
  <2>3. MatchInv' /\ HitInv' /\ ExpiredInv' /\ NewInv' /\ NewEntryUnlocked'
    BY <2>1 DEF EntriesInv, MatchInv, HitInv, ExpiredInv, NewInv, NewEntryUnlocked
  <2>4. RegisteredInv' /\ ObjectInv' /\ RightContent' /\ NoLostWakeup'
    BY <2>1 DEF EntriesInv, RegisteredInv, ObjectInv, RightContent, NoLostWakeup, Releases
  <2>5. QED
    BY <2>2, <2>3, <2>4 DEF EntriesInv
<1>2. QED
  BY <1>1, WorkerEntriesInv, ExpresserEntriesInv DEF RoomyNext, Arrival

\* A step that finds a free slot where it needs one passes the table's lock on.
LEMMA NextTableLockPasses ==
  TypeInv /\ TypeInv' /\ TableLockPasses /\ MutexOwner' /\ [RoomyNext]_vars => TableLockPasses'
<1> SUFFICES ASSUME TypeInv, TypeInv', TableLockPasses, MutexOwner', [RoomyNext]_vars,
                    pitLock' # NoThread
             PROVE  TableLockPasses'
  BY DEF TableLockPasses
<1> USE ThreadAssumption
<1>0. /\ pc \in [Threads -> WorkerPC \cup ExpresserPC]
      /\ Workers \subseteq Threads /\ Expressers \subseteq Threads
      /\ pitLock' \in Threads
      /\ pitLock # NoThread => pitLock \in Threads /\ pc[pitLock] \in {"lockEntry", "lockNew"}
  BY DEF TypeInv, TypeOK, Threads, TableLockPasses
<1>1. pc'[pitLock'] \in {"lockEntry", "lockNew"}
  <2>1. ASSUME NEW w \in Workers, WorkerStep(w)
        PROVE  pc'[pitLock'] \in {"lockEntry", "lockNew"}
    <3>1. CASE SearchHit(w)
      BY <1>0, <3>1 DEF SearchHit, Goto
    <3>2. CASE MatchFails(w) \/ MatchSucceeds(w)
      BY <3>2 DEF MatchFails, MatchSucceeds
    <3>3. CASE \/ SearchMiss(w) \/ InterestHit(w) \/ CloseEntry(w) \/ DataForNetwork(w)
               \/ ClearEntry(w) \/ InterestMiss(w) \/ AddEntry(w)
      <4>1. /\ pitLock' = pitLock /\ pc[w] \notin {"lockEntry", "lockNew"}
            /\ \A t \in Threads : t # w => pc'[t] = pc[t]
        BY <1>0, <3>3 DEF SearchMiss, InterestHit, CloseEntry, DataForNetwork, ReleaseEntry,
           ClearEntry, InterestMiss, AddEntry, Goto, tableVars
      <4>2. QED
        BY <1>0, <4>1
    <3>4. CASE DataForApplication(w)
      <4>1. /\ pitLock' = pitLock
            /\ \/ pc' = [pc EXCEPT ![w] = "idle"]
               \/ \E e \in Expressers :
                     pc[e] = "wait" /\ pc' = [pc EXCEPT ![w] = "idle", ![e] = "signalled"]
            /\ pc[w] = "hit"
        BY <3>4 DEF DataForApplication, Goto
      <4>2. QED
        BY <1>0, <4>1
    <3>5. QED
      BY <2>1, <3>1, <3>2, <3>3, <3>4 DEF WorkerStep
  <2>2. ASSUME NEW e \in Expressers, ExpresserStep(e)
        PROVE  pc'[pitLock'] \in {"lockEntry", "lockNew"}
    <3>1. CASE GetHandle(e)
      BY <1>0, <3>1 DEF GetHandle, RegisterAt, Goto
    <3>2. CASE LockNew(e)
      BY <3>2 DEF LockNew
    <3>3. CASE \/ Send(e) \/ GiveUp(e) \/ TimeOut(e) \/ WakeWithObject(e) \/ WakeWithout(e)
               \/ Finish(e) \/ ClearEntry(e)
      <4>1. /\ pitLock' = pitLock /\ pc[e] \notin {"lockEntry", "lockNew"}
            /\ \A t \in Threads : t # e => pc'[t] = pc[t]
        BY <1>0, <3>3 DEF Send, GiveUp, TimeOut, WakeWithObject, WakeWithout, Finish,
           ReleaseEntry, ClearEntry, Goto, tableVars
      <4>2. QED
        BY <1>0, <4>1
    <3>4. QED
      BY <2>2, <3>1, <3>2, <3>3 DEF ExpresserStep
  <2>3. CASE Arrival
    BY <1>0, <2>3 DEF Arrival, Receive, Express, Goto, tableVars
  <2>4. CASE Tick \/ UNCHANGED vars
    BY <1>0, <2>4 DEF Tick, vars, tableVars, threadVars
  <2>5. QED
    BY <2>1, <2>2, <2>3, <2>4 DEF RoomyNext
<1>2. pe'[pitLock'].index \in Slots
  BY <1>0, <1>1 DEF TypeInv, ThreadInv, HasHandle
<1>3. QED
  BY <1>1, <1>2 DEF TableLockPasses, MutexOwner, Holding

\* Together with the types, the invariant is inductive.
LEMMA RoomyInduction ==
  /\ Init => TypeInv /\ RoomyInv
  /\ TypeInv /\ RoomyInv /\ [RoomyNext]_vars => (TypeInv /\ RoomyInv)'
<1>1. Init => TypeInv /\ RoomyInv
  <2> SUFFICES ASSUME Init
               PROVE  TypeInv /\ RoomyInv
    OBVIOUS
  <2>1. \A t \in Threads : ~Releases(t) /\ pc[t] = "idle"
    BY DEF Init, Releases
  <2>2. MutexOwner
    BY <2>1 DEF Init, MutexOwner, Holding
  <2>3. EntriesInv
    BY <2>1, <2>2
    DEF Init, EntriesInv, OneReleaser, EntryKept, MatchInv, HitInv, ExpiredInv, NewInv,
        NewEntryUnlocked, RegisteredInv, ObjectInv, RightContent, NoLostWakeup, EmptyEntry,
        Threads
  <2>4. TableLockPasses
    BY DEF Init, TableLockPasses
  <2>5. QED
    BY <2>3, <2>4, InitTypeInv DEF RoomyInv
<1>2. TypeInv /\ RoomyInv /\ [RoomyNext]_vars => (TypeInv /\ RoomyInv)'
  <2>1. [RoomyNext]_vars => [Next]_vars
    BY DEF Next
  <2>2. RoomyInv => MutexOwner /\ EntriesInv /\ TableLockPasses
    BY DEF RoomyInv, EntriesInv
  <2>3. EntriesInv' /\ TableLockPasses' => RoomyInv'
    BY DEF RoomyInv
  <2>4. QED
    BY <2>1, <2>2, <2>3, NextTypeInv, NextMutexOwner, NextEntriesInv, NextTableLockPasses
<1>3. QED
  BY <1>1, <1>2

\* While every allocation finds a free slot: an entry is released once, by the
\* thread it belongs to, while it is still that thread's, nobody sleeps on an object
\* that has arrived, an application gets the content it asked for, and the table's lock
\* is not kept by a thread that waits for one that waits.
THEOREM RoomyCorrect == RoomySpec => []RoomyInv
BY RoomyInduction, PTL DEF RoomySpec

\* What follows for the application: its call returns the content it asked for.
THEOREM RoomyContent == RoomySpec => []RightContent
<1>1. RoomyInv => RightContent
  BY DEF RoomyInv, EntriesInv
<1>2. QED
  BY <1>1, RoomyCorrect, PTL

\* Nobody sleeps through the arrival of its object.
THEOREM RoomyWakeup == RoomySpec => []NoLostWakeup
<1>1. RoomyInv => NoLostWakeup
  BY DEF RoomyInv, EntriesInv
<1>2. QED
  BY <1>1, RoomyCorrect, PTL

\* The entry a thread releases is its own: in use, under its name, and nobody else's.
THEOREM RoomyRelease == RoomySpec => [](OneReleaser /\ EntryKept)
<1>1. RoomyInv => OneReleaser /\ EntryKept
  BY DEF RoomyInv, EntriesInv
<1>2. QED
  BY <1>1, RoomyCorrect, PTL

\* No circle of threads forms in which each waits for a lock the next one holds.
THEOREM RoomyLocks == RoomySpec => []TableLockPasses
<1>1. RoomyInv => TableLockPasses
  BY DEF RoomyInv
<1>2. QED
  BY <1>1, RoomyCorrect, PTL

-----------------------------------------------------------------------------
(* While the table has room it keeps the promise of PendingInterests.      *)

\* What a step may change for one application, one entry or one worker of the promise.
LEMMA OneCall ==
  ASSUME NEW e \in Expressers, NEW r, CallOf(e)' = r,
         \A u \in Expressers : u # e => CallOf(u)' = CallOf(u)
  PROVE  Calls' = [Calls EXCEPT ![e] = r]
BY DEF Calls

LEMMA OnePlace ==
  ASSUME NEW s \in Slots, NEW r, RelayedAt(s)' = r,
         \A u \in Slots : u # s => RelayedAt(u)' = RelayedAt(u)
  PROVE  Relayed' = [Relayed EXCEPT ![s] = r]
BY DEF Relayed

LEMMA OnePacket ==
  ASSUME NEW w \in Workers, NEW r, DataOf(w)' = r,
         \A u \in Workers : u # w => DataOf(u)' = DataOf(u)
  PROVE  DataInHand' = [DataInHand EXCEPT ![w] = r]
BY DEF DataInHand

LEMMA NoCallMoves ==
  ASSUME \A e \in Expressers : CallOf(e)' = CallOf(e)
  PROVE  Calls' = Calls
BY DEF Calls

LEMMA NoPlaceMoves ==
  ASSUME \A s \in Slots : RelayedAt(s)' = RelayedAt(s)
  PROVE  Relayed' = Relayed
BY DEF Relayed

LEMMA NoPacketMoves ==
  ASSUME \A w \in Workers : DataOf(w)' = DataOf(w)
  PROVE  DataInHand' = DataInHand
BY DEF DataInHand

\* An application whose thread stays as it is has the same call, if its entry's object
\* stays.
LEMMA SameCall ==
  ASSUME NEW e \in Expressers, SameThread(e), got'[e] = got[e],
         Releases(e) /\ pc[e] # "clear" => table'[pe[e].index].obj = table[pe[e].index].obj,
         pc[e] \in ExpresserPC
  PROVE  CallOf(e)' = CallOf(e)
BY DEF CallOf, InCall, Answer, SameThread, Releases, ExpresserPC

\* An entry whose use stays the same is half released as before.
LEMMA SamePlace ==
  ASSUME NEW s \in Slots, SameUse(s), HalfReleased(s)' <=> HalfReleased(s)
  PROVE  RelayedAt(s)' = RelayedAt(s)
BY DEF RelayedAt, SameUse

LEMMA SamePacket ==
  ASSUME NEW w \in Workers, SameThread(w)
  PROVE  DataOf(w)' = DataOf(w)
BY DEF DataOf, CarriesData, SameThread

\* A step of worker w on which no call and no recorded interest depends.
LEMMA WorkerAlone ==
  ASSUME TypeInv, NEW w \in Workers, got' = got,
         \A t \in Threads : t # w => SameThread(t),
         \A s \in Slots : SameUse(s), pc[w] # "clear", pc'[w] # "clear"
  PROVE  /\ Calls' = Calls /\ Relayed' = Relayed
         /\ \A u \in Workers : u # w => DataOf(u)' = DataOf(u)
<1>1. /\ Workers \subseteq Threads /\ Expressers \subseteq Threads /\ w \notin Expressers
      /\ \A e \in Expressers : pc[e] \in ExpresserPC
      /\ \A e \in Expressers : Releases(e) => pe[e].index \in Slots
  BY ThreadAssumption DEF Threads, TypeInv, ThreadInv, Releases, HasHandle
<1>2. \A e \in Expressers : CallOf(e)' = CallOf(e)
  BY <1>1, SameCall DEF SameUse
<1>3. \A s \in Slots : HalfReleased(s)' <=> HalfReleased(s)
  BY <1>1 DEF HalfReleased, SameThread
<1>4. \A s \in Slots : RelayedAt(s)' = RelayedAt(s)
  BY <1>3, SamePlace
<1>5. \A u \in Workers : u # w => DataOf(u)' = DataOf(u)
  BY <1>1, SamePacket
<1>6. QED
  BY <1>2, <1>4, <1>5, NoCallMoves, NoPlaceMoves

\* A step of application thread e that leaves the use of the entries alone.
LEMMA ExpresserAlone ==
  ASSUME TypeInv, NEW e \in Expressers,
         \A t \in Threads : t # e => SameThread(t),
         \A u \in Expressers : u # e => got'[u] = got[u],
         \A s \in Slots : SameUse(s)
  PROVE  /\ Relayed' = Relayed /\ DataInHand' = DataInHand
         /\ \A u \in Expressers : u # e => CallOf(u)' = CallOf(u)
<1>1. /\ Workers \subseteq Threads /\ Expressers \subseteq Threads /\ e \notin Workers
      /\ \A u \in Expressers : pc[u] \in ExpresserPC
      /\ \A u \in Expressers : Releases(u) => pe[u].index \in Slots
  BY ThreadAssumption DEF Threads, TypeInv, ThreadInv, Releases, HasHandle
<1>2. \A u \in Expressers : u # e => CallOf(u)' = CallOf(u)
  BY <1>1, SameCall DEF SameUse
<1>3. \A s \in Slots : HalfReleased(s)' <=> HalfReleased(s)
  BY <1>1 DEF HalfReleased, SameThread
<1>4. \A s \in Slots : RelayedAt(s)' = RelayedAt(s)
  BY <1>3, SamePlace
<1>5. \A u \in Workers : DataOf(u)' = DataOf(u)
  BY <1>1, SamePacket
<1>6. QED
  BY <1>2, <1>4, <1>5, NoPacketMoves, NoPlaceMoves

\* The steps of a worker that leave the table's use, and the promise, alone.
LEMMA QuietWorkerMaps ==
  ASSUME TypeInv, TypeInv', EntriesInv, NEW w \in Workers,
         \/ SearchHit(w) \/ MatchSucceeds(w) \/ InterestHit(w) \/ CloseEntry(w)
         \/ InterestMiss(w)
  PROVE  UNCHANGED Pending!interestVars
<1> USE ThreadAssumption
<1>1. /\ w \in Threads /\ pc \in [Threads -> WorkerPC \cup ExpresserPC]
      /\ DOMAIN pe = Threads /\ table \in [Slots -> Entry]
      /\ HasHandle(w) => pe[w].index \in Slots
  BY DEF Threads, TypeInv, TypeOK, ThreadInv
<1>2. /\ \A t \in Threads : t # w => SameThread(t)
      /\ job' = job /\ got' = got /\ pc[w] # "clear" /\ pc'[w] # "clear"
      /\ CarriesData(w)' <=> CarriesData(w)
  <2>1. CASE SearchHit(w)
    BY <1>1, <2>1 DEF SearchHit, Goto, SameThread, CarriesData
  <2>2. CASE MatchSucceeds(w)
    BY <1>1, <2>2 DEF MatchSucceeds, Goto, SameThread, CarriesData
  <2>3. CASE InterestHit(w)
    BY <1>1, <2>3 DEF InterestHit, Goto, SameThread, CarriesData
  <2>4. CASE CloseEntry(w)
    BY <1>1, <2>4 DEF CloseEntry, Goto, SameThread, CarriesData
  <2>5. CASE InterestMiss(w)
    BY <1>1, <2>5 DEF InterestMiss, Goto, SameThread, CarriesData, tableVars
  <2>6. QED
    BY <2>1, <2>2, <2>3, <2>4, <2>5
<1>3. \A s \in Slots : SameUse(s)
  <2>1. CASE SearchHit(w) \/ InterestMiss(w)
    BY <2>1 DEF SearchHit, InterestMiss, tableVars, SameUse
  <2>2. CASE MatchSucceeds(w)
    BY <1>1, <2>2 DEF MatchSucceeds, HasHandle, SameUse, Entry
  <2>3. CASE InterestHit(w)
    BY <1>1, <2>3 DEF InterestHit, Refreshed, HasHandle, SameUse, Entry
  <2>4. CASE CloseEntry(w)
    BY <1>1, <2>4 DEF CloseEntry, HasHandle, SameUse, Entry
  <2>5. QED
    BY <2>1, <2>2, <2>3, <2>4
<1>4. DataOf(w)' = DataOf(w)
  BY <1>2 DEF DataOf
<1>5. Calls' = Calls /\ Relayed' = Relayed /\ \A u \in Workers : u # w => DataOf(u)' = DataOf(u)
  BY <1>2, <1>3, WorkerAlone
<1>6. QED
  BY <1>4, <1>5, NoPacketMoves DEF Pending!interestVars

\* A packet that comes in, if it is data.
LEMMA ReceiveMaps ==
  ASSUME TypeInv, NEW w \in Workers, NEW k \in {"interest", "data"}, NEW n \in Names,
         Receive(w, k, n)
  PROVE  Pending!Next \/ UNCHANGED Pending!interestVars
<1> USE ThreadAssumption
<1>1. /\ w \in Threads /\ pc \in [Threads -> WorkerPC \cup ExpresserPC]
      /\ DOMAIN job = Threads
  BY DEF Threads, TypeInv, TypeOK
<1>2. /\ \A t \in Threads : t # w => SameThread(t)
      /\ table' = table /\ got' = got /\ pc[w] = "idle" /\ pc'[w] = "search"
      /\ job'[w] = [kind |-> k, name |-> n]
  BY <1>1 DEF Receive, Goto, SameThread, tableVars
<1>3. Calls' = Calls /\ Relayed' = Relayed /\ \A u \in Workers : u # w => DataOf(u)' = DataOf(u)
  BY <1>2, WorkerAlone DEF SameUse
<1>4. DataOf(w) = NoName /\ DataOf(w)' = IF k = "data" THEN n ELSE NoName
  BY <1>2 DEF DataOf, CarriesData
<1>5. CASE k = "interest"
  BY <1>3, <1>4, <1>5, NoPacketMoves DEF Pending!interestVars
<1>6. CASE k = "data"
  <2>1. DataInHand' = [DataInHand EXCEPT ![w] = n]
    BY <1>3, <1>4, <1>6, OnePacket
  <2>2. DataInHand[w] = NoName
    BY <1>4 DEF DataInHand
  <2>3. Pending!Receive(w, n)
    BY <1>3, <2>1, <2>2 DEF Pending!Receive
  <2>4. QED
    BY <2>3 DEF Pending!Next
<1>7. QED
  BY <1>5, <1>6

\* A worker that lets go of its packet without an entry for it.
LEMMA DropMaps ==
  ASSUME TypeInv, NEW w \in Workers, got' = got,
         \A t \in Threads : t # w => SameThread(t),
         \A s \in Slots : SameUse(s), pc[w] # "clear", pc'[w] \notin {"clear", "search", "lockEntry", "hit"}
  PROVE  Pending!Next \/ UNCHANGED Pending!interestVars
<1>1. Calls' = Calls /\ Relayed' = Relayed /\ \A u \in Workers : u # w => DataOf(u)' = DataOf(u)
  BY WorkerAlone
<1>2. DataOf(w)' = NoName
  BY DEF DataOf, CarriesData
<1>3. CASE DataOf(w) = NoName
  BY <1>1, <1>2, <1>3, NoPacketMoves DEF Pending!interestVars
<1>4. CASE DataOf(w) # NoName
  <2>1. DataInHand' = [DataInHand EXCEPT ![w] = NoName]
    BY <1>1, <1>2, OnePacket
  <2>2. DataInHand[w] # NoName
    BY <1>4 DEF DataInHand
  <2>3. Pending!Drop(w)
    BY <1>1, <2>1, <2>2 DEF Pending!Drop
  <2>4. QED
    BY <2>3 DEF Pending!Next
<1>5. QED
  BY <1>3, <1>4

\* No entry for the packet's name, or none that matches.
LEMMA MissMaps ==
  ASSUME TypeInv, NEW w \in Workers, SearchMiss(w) \/ MatchFails(w)
  PROVE  Pending!Next \/ UNCHANGED Pending!interestVars
<1>1. /\ w \in Threads /\ pc \in [Threads -> WorkerPC \cup ExpresserPC] /\ DOMAIN pe = Threads
  BY DEF Threads, TypeInv, TypeOK
<1>2. /\ \A t \in Threads : t # w => SameThread(t)
      /\ table' = table /\ got' = got /\ pc[w] # "clear" /\ pc'[w] \in {"idle", "miss"}
  BY <1>1 DEF SearchMiss, MatchFails, MissLabel, Goto, SameThread, tableVars
<1>3. QED
  BY <1>2, DropMaps DEF SameUse

\* What data make of an application's entry.
LEMMA ServedEntry ==
  ASSUME NEW entry \in Entry, NEW n
  PROVE  LET served == Refreshed(WithObject(entry, n)) IN
         /\ served.valid = entry.valid /\ served.name = entry.name
         /\ served.registered = entry.registered
         /\ served.obj = IF entry.obj = NoName THEN n ELSE entry.obj
<1>1. CASE entry.obj = NoName
  BY <1>1 DEF Refreshed, WithObject, Entry
<1>2. CASE entry.obj # NoName
  BY <1>2 DEF Refreshed, WithObject, Entry
<1>3. QED
  BY <1>1, <1>2

\* Data for an application: handed over to the one that waits, or dropped if it has
\* its object by now.
LEMMA DataForApplicationMaps ==
  ASSUME TypeInv, TypeInv', EntriesInv, NEW w \in Workers, DataForApplication(w)
  PROVE  Pending!Next \/ UNCHANGED Pending!interestVars
<1> USE ThreadAssumption, SlotFacts
<1> DEFINE s == pe[w].index
           n == job[w].name
<1>1. /\ w \in Threads /\ w \notin Expressers /\ s \in Slots /\ n \in Names /\ n # NoName
      /\ pc \in [Threads -> WorkerPC \cup ExpresserPC]
      /\ DOMAIN pe = Threads /\ table \in [Slots -> Entry]
      /\ Workers \subseteq Threads /\ Expressers \subseteq Threads
      /\ \A e \in Expressers : pc[e] \in ExpresserPC
      /\ \A e \in Expressers : Releases(e) => pe[e].index \in Slots
  BY DEF Threads, TypeInv, TypeOK, ThreadInv, DataForApplication, HasHandle, Releases
<1>2. /\ pc[w] = "hit" /\ job[w].kind = "data" /\ got' = got /\ job' = job
      /\ table[s].valid /\ table[s].name = n /\ table[s].registered
      /\ table' = [table EXCEPT ![s] = Refreshed(WithObject(table[s], n))]
      /\ \A t \in Threads : t # w => pe'[t] = pe[t]
  BY <1>1 DEF DataForApplication, EntriesInv, HitInv
<1>3. /\ \A u \in Slots : u # s => table'[u] = table[u]
      /\ table'[s].valid = table[s].valid /\ table'[s].name = n
      /\ table'[s].registered = table[s].registered
      /\ table'[s].obj = IF table[s].obj = NoName THEN n ELSE table[s].obj
  <2>1. \A u \in Slots : u # s => table'[u] = table[u]
    BY <1>1, <1>2
  <2>2. table'[s] = Refreshed(WithObject(table[s], n)) /\ table[s] \in Entry
    BY <1>1, <1>2
  <2>3. table[s].name = n
    BY <1>2
  <2> HIDE DEF s, n
  <2>4. /\ table'[s].valid = table[s].valid /\ table'[s].name = table[s].name
        /\ table'[s].registered = table[s].registered
        /\ table'[s].obj = IF table[s].obj = NoName THEN n ELSE table[s].obj
    BY <2>2, ServedEntry
  <2>5. QED
    BY <2>1, <2>3, <2>4
<1>4. PICK e \in Expressers : Releases(e) /\ pe[e].index = s
  BY <1>1, <1>2 DEF EntriesInv, RegisteredInv
<1>5. pc[e] \in {"wait", "signalled", "timedOut"} /\ job[e].name = n
  <2>1. job[e].name = n
    BY <1>1, <1>2, <1>4 DEF EntriesInv, EntryKept
  <2>2. pc[e] \notin {"send", "done"}
    BY <1>1, <1>2, <1>4 DEF EntriesInv, MutexOwner, Holding
  <2>3. pc[e] # "lockNew"
    BY <1>1, <1>2, <1>4 DEF EntriesInv, MutexOwner, Holding, NewEntryUnlocked
  <2>4. pc[e] # "clear"
    BY <1>1, <1>2, <1>4 DEF EntriesInv, HitInv
  <2>5. QED
    BY <1>4, <2>1, <2>2, <2>3, <2>4 DEF Releases
<1>6. \A u \in Expressers : u # e /\ Releases(u) => pe[u].index # s
  BY <1>1, <1>4 DEF EntriesInv, OneReleaser
<1>7. /\ pc'[w] = "idle"
      /\ pc'[e] = pc[e] \/ pc'[e] = "signalled"
      /\ \A t \in Threads : t # w /\ t # e => pc'[t] = pc[t]
  <2>1. CASE pc' = [pc EXCEPT ![w] = "idle"]
    BY <1>1, <2>1
  <2>2. ASSUME NEW u \in Expressers, pc[u] = "wait", pe[u].index = s,
               pc' = [pc EXCEPT ![w] = "idle", ![u] = "signalled"]
        PROVE  u = e /\ pc' = [pc EXCEPT ![w] = "idle", ![e] = "signalled"]
    BY <1>6, <2>2 DEF Releases
  <2>3. CASE pc' = [pc EXCEPT ![w] = "idle", ![e] = "signalled"]
    BY <1>1, <2>3
  <2>4. QED
    BY <2>1, <2>2, <2>3 DEF DataForApplication, Goto
<1> HIDE DEF s, n
<1>8. \A t \in Threads : t # w /\ t # e => SameThread(t)
  BY <1>2, <1>7 DEF SameThread
<1>9. \A u \in Expressers : u # e => CallOf(u)' = CallOf(u)
  <2> SUFFICES ASSUME NEW u \in Expressers, u # e
               PROVE  CallOf(u)' = CallOf(u)
    OBVIOUS
  <2>1. SameThread(u) /\ got'[u] = got[u] /\ pc[u] \in ExpresserPC
    BY <1>1, <1>2, <1>8
  <2>2. Releases(u) => table'[pe[u].index] = table[pe[u].index]
    BY <1>1, <1>3, <1>6
  <2>3. QED
    BY <2>1, <2>2, SameCall
<1>10. Relayed' = Relayed
  <2>1. \A u \in Slots : HalfReleased(u)' <=> HalfReleased(u)
    BY <1>1, <1>2, <1>7, <1>8 DEF HalfReleased, SameThread
  <2>2. \A u \in Slots : /\ table'[u].valid = table[u].valid /\ table'[u].name = table[u].name
                         /\ table'[u].registered = table[u].registered
    BY <1>2, <1>3
  <2>3. \A u \in Slots : RelayedAt(u)' = RelayedAt(u)
    BY <2>1, <2>2 DEF RelayedAt
  <2>4. QED
    BY <2>3, NoPlaceMoves
<1>11. \A u \in Workers : u # w => DataOf(u)' = DataOf(u)
  BY <1>1, <1>8, SamePacket, ThreadAssumption
<1>12. DataOf(w) = n /\ DataOf(w)' = NoName
  BY <1>2, <1>7 DEF DataOf, CarriesData, n
<1>13. DataInHand' = [DataInHand EXCEPT ![w] = NoName] /\ DataInHand[w] = n
  BY <1>11, <1>12, OnePacket DEF DataInHand
<1>14. /\ CallOf(e) = [state |-> "made", name |-> n, answer |-> table[s].obj]
       /\ CallOf(e)' = [state |-> "made", name |-> n, answer |-> table'[s].obj]
  <2>1. pe'[e] = pe[e] /\ pc'[e] \in {"wait", "signalled", "timedOut"}
    BY <1>1, <1>2, <1>5, <1>7
  <2>2. QED
    BY <1>2, <1>4, <1>5, <2>1 DEF CallOf, InCall, Answer
<1>15. CASE table[s].obj = NoName
  <2>1. Calls' = [Calls EXCEPT ![e] = [state |-> "made", name |-> n, answer |-> n]]
    BY <1>3, <1>9, <1>14, <1>15, OneCall
  <2>2. Calls[e] = [state |-> "made", name |-> n, answer |-> NoName]
    BY <1>14, <1>15 DEF Calls
  <2>3. [Calls[e] EXCEPT !.answer = n] = [state |-> "made", name |-> n, answer |-> n]
    BY <2>2
  <2>4. Calls' = [Calls EXCEPT ![e].answer = n]
    BY <2>1, <2>3
  <2>5. Pending!HandOver(w, e)
    BY <1>1, <1>10, <1>13, <2>2, <2>4 DEF Pending!HandOver
  <2>6. QED
    BY <2>5 DEF Pending!Next
<1>16. CASE table[s].obj # NoName
  <2>1. CallOf(e)' = CallOf(e)
    BY <1>3, <1>14, <1>16
  <2>2. Calls' = Calls
    BY <1>9, <2>1, NoCallMoves
  <2>3. Pending!Drop(w)
    BY <1>1, <1>10, <1>13, <2>2 DEF Pending!Drop
  <2>4. QED
    BY <2>3 DEF Pending!Next
<1>17. QED
  BY <1>15, <1>16

\* Data for the network use up the entry recorded for its interest.
LEMMA DataForNetworkMaps ==
  ASSUME TypeInv, TypeInv', EntriesInv, NEW w \in Workers, DataForNetwork(w)
  PROVE  Pending!Next \/ UNCHANGED Pending!interestVars
<1> USE ThreadAssumption, SlotFacts
<1>0. PICK s, n : s = pe[w].index /\ n = job[w].name
  OBVIOUS
<1>1. /\ w \in Threads /\ w \notin Expressers /\ s \in Slots /\ n \in Names /\ n # NoName
      /\ pc \in [Threads -> WorkerPC \cup ExpresserPC] /\ table \in [Slots -> Entry]
      /\ Workers \subseteq Threads /\ Expressers \subseteq Threads
      /\ \A e \in Expressers : pc[e] \in ExpresserPC
      /\ \A e \in Expressers : Releases(e) => pe[e].index \in Slots
  BY <1>0 DEF Threads, TypeInv, TypeOK, ThreadInv, DataForNetwork, HasHandle, Releases
<1>2. /\ pc[w] = "hit" /\ job[w].kind = "data" /\ got' = got /\ pc'[w] = "clear"
      /\ pe'[w].index = s
      /\ \A t \in Threads : t # w => SameThread(t)
      /\ table[s].valid /\ table[s].name = n /\ ~table[s].registered
      /\ \A u \in Slots : u # s => table'[u] = table[u]
      /\ \A t \in Threads : pc[t] = "clear" => pe[t].index # s
  BY <1>0, <1>1 DEF DataForNetwork, ReleaseEntry, Goto, EntriesInv, HitInv, SameThread
<1>3. \A e \in Expressers : Releases(e) => pe[e].index # s
  BY <1>1, <1>2 DEF EntriesInv, EntryKept
<1>4. \A e \in Expressers : CallOf(e)' = CallOf(e)
  BY <1>1, <1>2, <1>3, SameCall
<1>5. \A u \in Slots : u # s => RelayedAt(u)' = RelayedAt(u)
  <2> SUFFICES ASSUME NEW u \in Slots, u # s
               PROVE  RelayedAt(u)' = RelayedAt(u)
    OBVIOUS
  <2>1. HalfReleased(u)' <=> HalfReleased(u)
    BY <1>1, <1>2 DEF HalfReleased, SameThread
  <2>2. QED
    BY <1>2, <2>1 DEF RelayedAt
<1>6. RelayedAt(s) = n /\ RelayedAt(s)' = NoName
  <2>1. ~HalfReleased(s) /\ HalfReleased(s)'
    BY <1>1, <1>2 DEF HalfReleased
  <2>2. QED
    BY <1>2, <2>1 DEF RelayedAt
<1>7. Relayed' = [Relayed EXCEPT ![s] = NoName] /\ Relayed[s] = n
  <2>1. Relayed' = [Relayed EXCEPT ![s] = NoName]
    BY <1>1, <1>5, <1>6, OnePlace
  <2>2. QED
    BY <1>1, <1>6, <2>1 DEF Relayed
<1>8. DataOf(w) = n /\ DataOf(w)' = NoName
  BY <1>0, <1>2 DEF DataOf, CarriesData
<1>9. DataInHand' = [DataInHand EXCEPT ![w] = NoName] /\ DataInHand[w] = n
  BY <1>1, <1>2, <1>8, OnePacket, SamePacket DEF DataInHand
<1>10. Calls' = Calls
  BY <1>4, NoCallMoves
<1>11. Pending!PassOn(w, s)
  BY <1>1, <1>7, <1>9, <1>10 DEF Pending!PassOn
<1>12. QED
  BY <1>1, <1>11 DEF Pending!Next

\* The second half of PIT_release: the entry was over already.
LEMMA ClearEntryMaps ==
  ASSUME TypeInv, TypeInv', EntriesInv, NEW t \in Threads, ClearEntry(t)
  PROVE  UNCHANGED Pending!interestVars
<1> USE ThreadAssumption, SlotFacts
<1>0. PICK s : s = pe[t].index
  OBVIOUS
<1>1. /\ s \in Slots /\ pc[t] = "clear" /\ Releases(t) /\ pc'[t] = "idle"
      /\ table \in [Slots -> Entry] /\ job' = job /\ got' = got
      /\ Workers \subseteq Threads /\ Expressers \subseteq Threads
      /\ \A e \in Expressers : pc[e] \in ExpresserPC
      /\ \A e \in Threads : Releases(e) => pe[e].index \in Slots
  BY <1>0 DEF Threads, TypeInv, TypeOK, ThreadInv, ClearEntry, Goto, HasHandle, Releases
<1>2. /\ \A u \in Threads : u # t => SameThread(u)
      /\ \A u \in Slots : u # s => table'[u] = table[u]
      /\ ~table'[s].valid
  BY <1>0, <1>1 DEF ClearEntry, Goto, SameThread, ClearedEntry, EmptyEntry, TypeInv, TypeOK, Entry
<1>3. \A u \in Threads : u # t /\ Releases(u) => pe[u].index # s
  BY <1>0, <1>1 DEF EntriesInv, OneReleaser
<1>4. table[s].registered <=> t \in Expressers
  BY <1>0, <1>1 DEF EntriesInv, EntryKept
<1>5. \A e \in Expressers : CallOf(e)' = CallOf(e)
  <2> SUFFICES ASSUME NEW e \in Expressers
               PROVE  CallOf(e)' = CallOf(e)
    OBVIOUS
  <2>1. CASE e = t
    BY <1>1, <2>1 DEF CallOf, InCall, Answer
  <2>2. CASE e # t
    <3>1. SameThread(e) /\ got'[e] = got[e] /\ pc[e] \in ExpresserPC
      BY <1>1, <1>2, <2>2
    <3>2. Releases(e) => table'[pe[e].index] = table[pe[e].index]
      BY <1>1, <1>2, <1>3, <2>2
    <3>3. QED
      BY <3>1, <3>2, SameCall
  <2>3. QED
    BY <2>1, <2>2
<1>6. \A u \in Slots : RelayedAt(u)' = RelayedAt(u)
  <2> SUFFICES ASSUME NEW u \in Slots
               PROVE  RelayedAt(u)' = RelayedAt(u)
    OBVIOUS
  <2>1. CASE u = s
    <3>1. t \in Workers => HalfReleased(s)
      BY <1>0, <1>1 DEF HalfReleased
    <3>2. RelayedAt(s) = NoName
      BY <1>4, <3>1 DEF RelayedAt, Threads
    <3>3. RelayedAt(s)' = NoName
      BY <1>2 DEF RelayedAt
    <3>4. QED
      BY <2>1, <3>2, <3>3
  <2>2. CASE u # s
    <3>1. HalfReleased(u)' <=> HalfReleased(u)
      BY <1>0, <1>1, <1>2, <2>2 DEF HalfReleased, SameThread
    <3>2. QED
      BY <1>2, <2>2, <3>1 DEF RelayedAt
  <2>3. QED
    BY <2>1, <2>2
<1>7. \A w \in Workers : DataOf(w)' = DataOf(w)
  BY <1>1, <1>2, SamePacket DEF DataOf, CarriesData
<1>8. QED
  BY <1>5, <1>6, <1>7, NoCallMoves, NoPlaceMoves, NoPacketMoves DEF Pending!interestVars

\* An interest sent on is recorded where nothing was.
LEMMA AddEntryMaps ==
  ASSUME TypeInv, TypeInv', EntriesInv, NEW w \in Workers, AddEntry(w)
  PROVE  Pending!Next \/ UNCHANGED Pending!interestVars
<1> USE ThreadAssumption, SlotFacts
<1>1. /\ w \in Threads /\ w \notin Expressers
      /\ pc \in [Threads -> WorkerPC \cup ExpresserPC] /\ table \in [Slots -> Entry]
      /\ Workers \subseteq Threads /\ Expressers \subseteq Threads
      /\ \A e \in Expressers : pc[e] \in ExpresserPC
      /\ \A t \in Threads : Releases(t) => pe[t].index \in Slots
  BY DEF Threads, TypeInv, TypeOK, ThreadInv, HasHandle, Releases
<1>2. /\ pc[w] = "add" /\ pc'[w] = "idle" /\ got' = got /\ job' = job
      /\ \A t \in Threads : t # w => SameThread(t)
  BY <1>1 DEF AddEntry, Goto, SameThread
<1>3. PICK s \in Slots : /\ ~table[s].valid
                         /\ table' = [table EXCEPT ![s] = NewEntry(job[w].name, FALSE, table[s].obj)]
  BY DEF AddEntry, First, FreeSlots
<1>4. PICK n \in Names : n = job[w].name
  BY <1>1, <1>2 DEF TypeInv, ThreadInv
<1>5. /\ \A u \in Slots : u # s => table'[u] = table[u]
      /\ table'[s].valid /\ ~table'[s].registered /\ table'[s].name = n
  BY <1>1, <1>3, <1>4 DEF NewEntry
<1>6. \A t \in Threads : Releases(t) => pe[t].index # s
  BY <1>1, <1>3 DEF EntriesInv, EntryKept
<1>7. \A e \in Expressers : CallOf(e)' = CallOf(e)
  BY <1>1, <1>2, <1>5, <1>6, SameCall
<1>8. \A u \in Slots : HalfReleased(u)' <=> HalfReleased(u)
  BY <1>1, <1>2 DEF HalfReleased, SameThread
<1>9. ~HalfReleased(s)
  BY <1>1, <1>6 DEF HalfReleased, Releases
<1>10. \A u \in Slots : u # s => RelayedAt(u)' = RelayedAt(u)
  BY <1>5, <1>8 DEF RelayedAt
<1>11. RelayedAt(s) = NoName
  BY <1>3 DEF RelayedAt
<1>12. RelayedAt(s)' = n
  BY <1>5, <1>8, <1>9 DEF RelayedAt
<1>13. Relayed' = [Relayed EXCEPT ![s] = n]
  BY <1>10, <1>12, OnePlace
<1>14. Relayed[s] = NoName
  BY <1>11 DEF Relayed
<1>15. \A u \in Workers : DataOf(u)' = DataOf(u)
  BY <1>1, <1>2, SamePacket DEF DataOf, CarriesData
<1>16. Pending!Record(s, n)
  BY <1>7, <1>13, <1>14, <1>15, NoCallMoves, NoPacketMoves DEF Pending!Record
<1>17. QED
  BY <1>16 DEF Pending!Next

\* An application's new request.
LEMMA ExpressMaps ==
  ASSUME TypeInv, NEW e \in Expressers, NEW n \in Names, Express(e, n)
  PROVE  Pending!Next \/ UNCHANGED Pending!interestVars
<1> USE ThreadAssumption
<1>1. /\ e \in Threads /\ pc \in [Threads -> WorkerPC \cup ExpresserPC]
      /\ DOMAIN job = Threads /\ DOMAIN got = Expressers
  BY DEF Threads, TypeInv, TypeOK
<1>2. /\ \A t \in Threads : t # e => SameThread(t)
      /\ table' = table /\ pc[e] = "idle" /\ pc'[e] = "alloc"
      /\ job'[e].name = n /\ got'[e] = NoName
      /\ \A u \in Expressers : u # e => got'[u] = got[u]
  BY <1>1 DEF Express, Goto, SameThread, tableVars
<1>3. /\ Relayed' = Relayed /\ DataInHand' = DataInHand
      /\ \A u \in Expressers : u # e => CallOf(u)' = CallOf(u)
  BY <1>2, ExpresserAlone DEF SameUse
<1>4. CallOf(e)' = [state |-> "made", name |-> n, answer |-> NoName]
  BY <1>2 DEF CallOf, InCall, Answer
<1>5. Calls' = [Calls EXCEPT ![e] = [state |-> "made", name |-> n, answer |-> NoName]]
  BY <1>3, <1>4, OneCall
<1>6. Calls[e].state = "over"
  BY <1>2 DEF Calls, CallOf, InCall
<1>7. Pending!Ask(e, n)
  BY <1>3, <1>5, <1>6 DEF Pending!Ask
<1>8. QED
  BY <1>7 DEF Pending!Next

\* A call that has no entry yet has no answer.
NothingYet == \A e \in Expressers : pc[e] = "alloc" => got[e] = NoName

LEMMA NextNothingYet == TypeInv /\ NothingYet /\ [Next]_vars => NothingYet'
<1> SUFFICES ASSUME TypeInv, NothingYet, [Next]_vars
             PROVE  NothingYet'
  OBVIOUS
<1> USE ThreadAssumption DEF NothingYet
<1>0. /\ pc \in [Threads -> WorkerPC \cup ExpresserPC] /\ DOMAIN got = Expressers
      /\ Workers \subseteq Threads /\ Expressers \subseteq Threads
      /\ \A e \in Expressers : e \notin Workers
  BY DEF TypeInv, TypeOK, Threads
<1>1. ASSUME NEW w \in Workers, WorkerStep(w) \/ WorkerFullStep(w)
      PROVE  NothingYet'
  <2>1. CASE DataForApplication(w)
    <3>1. /\ got' = got
          /\ \/ pc' = [pc EXCEPT ![w] = "idle"]
             \/ \E e \in Expressers : pc' = [pc EXCEPT ![w] = "idle", ![e] = "signalled"]
      BY <2>1 DEF DataForApplication, Goto
    <3>2. QED
      BY <1>0, <3>1
  <2>2. CASE ~DataForApplication(w)
    <3>1. got' = got /\ \A t \in Threads : t # w => pc'[t] = pc[t]
      BY <1>0, <1>1, <2>2
      DEF WorkerStep, WorkerFullStep, SearchMiss, SearchHit, MatchFails, MatchSucceeds,
          InterestHit, CloseEntry, DataForNetwork, ReleaseEntry, ClearEntry, InterestMiss,
          AddEntry, AddEntryEvicting, AddEntryFull, Goto
    <3>2. QED
      BY <1>0, <3>1
  <2>3. QED
    BY <2>1, <2>2
<1>2. ASSUME NEW e \in Expressers, ExpresserStep(e) \/ ExpresserFullStep(e)
      PROVE  NothingYet'
  <2>1. /\ pc'[e] # "alloc" /\ \A t \in Threads : t # e => pc'[t] = pc[t]
        /\ \A u \in Expressers : u # e => got'[u] = got[u]
    BY <1>0, <1>2
    DEF ExpresserStep, ExpresserFullStep, GetHandle, GetHandleEvicting, GetHandleFull,
        RegisterAt, LockNew, Send, GiveUp, TimeOut, WakeWithObject, WakeWithout, Finish,
        ReleaseEntry, ClearEntry, Goto
  <2>2. QED
    BY <1>0, <2>1
<1>3. CASE Arrival
  BY <1>0, <1>3 DEF Arrival, Receive, Express, Goto
<1>4. CASE Tick \/ UNCHANGED vars
  BY <1>4 DEF Tick, vars, threadVars
<1>5. QED
  BY <1>1, <1>2, <1>3, <1>4 DEF Next, RoomyNext, FullNext

\* An entry for the application's interest: there is no answer in it yet.
LEMMA GetHandleMaps ==
  ASSUME TypeInv, TypeInv', EntriesInv, NothingYet, NEW e \in Expressers, GetHandle(e)
  PROVE  UNCHANGED Pending!interestVars
<1> USE ThreadAssumption, SlotFacts
<1>1. /\ e \in Threads /\ e \notin Workers
      /\ pc \in [Threads -> WorkerPC \cup ExpresserPC] /\ table \in [Slots -> Entry]
      /\ DOMAIN pe = Threads
      /\ Workers \subseteq Threads /\ Expressers \subseteq Threads
      /\ \A u \in Expressers : pc[u] \in ExpresserPC
      /\ \A t \in Threads : Releases(t) => pe[t].index \in Slots
  BY DEF Threads, TypeInv, TypeOK, ThreadInv, HasHandle, Releases
<1>2. PICK s \in Slots : ~table[s].valid /\ RegisterAt(e, s, table[s].obj)
  BY DEF GetHandle, First, FreeSlots
<1>3. table[s].obj = NoName
  BY <1>2, FreeSlotUnused
<1>4. /\ pc[e] = "alloc" /\ pc'[e] = "lockNew" /\ pe'[e].index = s
      /\ job' = job /\ got' = got
      /\ \A t \in Threads : t # e => SameThread(t)
  BY <1>1, <1>2 DEF GetHandle, RegisterAt, Goto, SameThread
<1>5. /\ \A u \in Slots : u # s => table'[u] = table[u]
      /\ table'[s].registered /\ table'[s].obj = NoName
  BY <1>1, <1>2, <1>3 DEF RegisterAt, NewEntry
<1>6. \A t \in Threads : Releases(t) => pe[t].index # s
  BY <1>1, <1>2 DEF EntriesInv, EntryKept
<1>7. got[e] = NoName
  BY <1>4 DEF NothingYet
<1>8. \A u \in Expressers : CallOf(u)' = CallOf(u)
  <2> SUFFICES ASSUME NEW u \in Expressers
               PROVE  CallOf(u)' = CallOf(u)
    OBVIOUS
  <2>1. CASE u = e
    BY <1>4, <1>5, <1>7, <2>1 DEF CallOf, InCall, Answer
  <2>2. CASE u # e
    BY <1>1, <1>4, <1>5, <1>6, <2>2, SameCall
  <2>3. QED
    BY <2>1, <2>2
<1>9. \A u \in Slots : RelayedAt(u)' = RelayedAt(u)
  <2>1. \A u \in Slots : HalfReleased(u)' <=> HalfReleased(u)
    BY <1>1, <1>4 DEF HalfReleased, SameThread
  <2>2. QED
    BY <1>2, <1>5, <2>1 DEF RelayedAt
<1>10. \A u \in Workers : DataOf(u)' = DataOf(u)
  BY <1>1, <1>4, SamePacket
<1>11. QED
  BY <1>8, <1>9, <1>10, NoCallMoves, NoPlaceMoves, NoPacketMoves DEF Pending!interestVars

\* The steps of an application thread that uses its entry change nothing in its call.
LEMMA QuietExpresserMaps ==
  ASSUME TypeInv, TypeInv', EntriesInv, NEW e \in Expressers,
         LockNew(e) \/ Send(e) \/ GiveUp(e) \/ TimeOut(e) \/ WakeWithObject(e) \/ WakeWithout(e)
  PROVE  UNCHANGED Pending!interestVars
<1> USE ThreadAssumption
<1>1. /\ e \in Threads /\ pc \in [Threads -> WorkerPC \cup ExpresserPC]
      /\ table \in [Slots -> Entry]
      /\ HasHandle(e) => pe[e].index \in Slots
  BY DEF Threads, TypeInv, TypeOK, ThreadInv
<1>2. /\ \A t \in Threads : t # e => SameThread(t)
      /\ UNCHANGED <<job, pe, got>>
      /\ pc[e] \in {"lockNew", "send", "wait", "signalled", "timedOut"}
      /\ pc'[e] \in {"send", "wait", "signalled", "timedOut", "done"}
  <2>1. CASE LockNew(e) \/ GiveUp(e) \/ TimeOut(e)
    BY <1>1, <2>1 DEF LockNew, GiveUp, TimeOut, Goto, SameThread
  <2>2. CASE Send(e)
    BY <1>1, <2>2 DEF Send, Goto, SameThread
  <2>3. CASE WakeWithObject(e) \/ WakeWithout(e)
    BY <1>1, <2>3 DEF WakeWithObject, WakeWithout, Goto, SameThread
  <2>4. QED
    BY <2>1, <2>2, <2>3
<1>3. \A s \in Slots : SameUse(s)
  <2>1. CASE table' = table
    BY <2>1 DEF SameUse
  <2>2. CASE Send(e)
    BY <1>1, <2>2 DEF Send, Refreshed, HasHandle, SameUse, Entry
  <2>3. QED
    BY <2>1, <2>2 DEF LockNew, GiveUp, TimeOut, WakeWithObject, WakeWithout, tableVars
<1>4. /\ Relayed' = Relayed /\ DataInHand' = DataInHand
      /\ \A u \in Expressers : u # e => CallOf(u)' = CallOf(u)
  BY <1>2, <1>3, ExpresserAlone
<1>5. CallOf(e)' = CallOf(e)
  <2>1. table'[pe[e].index].obj = table[pe[e].index].obj
    BY <1>1, <1>2, <1>3 DEF HasHandle, SameUse
  <2>2. QED
    BY <1>2, <2>1 DEF CallOf, InCall, Answer
<1>6. QED
  BY <1>4, <1>5, NoCallMoves DEF Pending!interestVars

\* The call takes its entry's object and is over.
LEMMA FinishMaps ==
  ASSUME TypeInv, TypeInv', EntriesInv, NEW e \in Expressers, Finish(e)
  PROVE  Pending!Next \/ UNCHANGED Pending!interestVars
<1> USE ThreadAssumption
<1>1. /\ e \in Threads /\ pc \in [Threads -> WorkerPC \cup ExpresserPC]
      /\ table \in [Slots -> Entry] /\ DOMAIN got = Expressers
      /\ pe[e].index \in Slots
  BY DEF Threads, TypeInv, TypeOK, ThreadInv, Finish, HasHandle
<1>2. PICK s \in Slots : s = pe[e].index
  BY <1>1
<1>3. /\ \A t \in Threads : t # e => SameThread(t)
      /\ UNCHANGED <<job, pe>> /\ got'[e] = table[s].obj
      /\ \A u \in Expressers : u # e => got'[u] = got[u]
      /\ pc[e] = "done" /\ pc'[e] = "clear"
  BY <1>1, <1>2 DEF Finish, ReleaseEntry, Goto, SameThread
<1>4. \A u \in Slots : SameUse(u)
  BY <1>1, <1>2 DEF Finish, ReleaseEntry, SameUse, Entry
<1>5. /\ Relayed' = Relayed /\ DataInHand' = DataInHand
      /\ \A u \in Expressers : u # e => CallOf(u)' = CallOf(u)
  BY <1>3, <1>4, ExpresserAlone
<1>6. PICK n : n = job[e].name
  OBVIOUS
<1>7. /\ CallOf(e) = [state |-> "made", name |-> n, answer |-> table[s].obj]
      /\ CallOf(e)' = [state |-> "over", name |-> n, answer |-> table[s].obj]
  BY <1>2, <1>3, <1>6 DEF CallOf, InCall, Answer
<1>8. Calls[e] = [state |-> "made", name |-> n, answer |-> table[s].obj]
  BY <1>7 DEF Calls
<1>9. [Calls[e] EXCEPT !.state = "over"] = [state |-> "over", name |-> n, answer |-> table[s].obj]
  BY <1>8
<1>10. Calls' = [Calls EXCEPT ![e].state = "over"]
  BY <1>5, <1>7, <1>9, OneCall
<1>11. Pending!Return(e)
  BY <1>5, <1>8, <1>10 DEF Pending!Return
<1>12. QED
  BY <1>11 DEF Pending!Next

\* Every step that finds a free slot where it needs one is a step of the promise or none.
LEMMA StepMaps ==
  TypeInv /\ TypeInv' /\ EntriesInv /\ NothingYet /\ [RoomyNext]_vars
      => [Pending!Next]_(Pending!interestVars)
<1> SUFFICES ASSUME TypeInv, TypeInv', EntriesInv, NothingYet, [RoomyNext]_vars
             PROVE  Pending!Next \/ UNCHANGED Pending!interestVars
  OBVIOUS
<1>1. ASSUME NEW w \in Workers, WorkerStep(w)
      PROVE  Pending!Next \/ UNCHANGED Pending!interestVars
  BY <1>1, QuietWorkerMaps, MissMaps, DataForApplicationMaps, DataForNetworkMaps,
     ClearEntryMaps, AddEntryMaps DEF WorkerStep, Threads
<1>2. ASSUME NEW e \in Expressers, ExpresserStep(e)
      PROVE  Pending!Next \/ UNCHANGED Pending!interestVars
  BY <1>2, QuietExpresserMaps, GetHandleMaps, FinishMaps, ClearEntryMaps
  DEF ExpresserStep, Threads
<1>3. CASE Arrival
  BY <1>3, ReceiveMaps, ExpressMaps DEF Arrival
<1>4. CASE Tick \/ UNCHANGED vars
  <2>1. UNCHANGED <<table, pc, job, pe, got>>
    BY <1>4 DEF Tick, vars, tableVars, threadVars
  <2>2. \A e \in Expressers : CallOf(e)' = CallOf(e)
    BY <2>1 DEF CallOf, InCall, Answer
  <2>3. \A s \in Slots : RelayedAt(s)' = RelayedAt(s)
    BY <2>1 DEF RelayedAt, HalfReleased
  <2>4. \A w \in Workers : DataOf(w)' = DataOf(w)
    BY <2>1 DEF DataOf, CarriesData
  <2>5. QED
    BY <2>2, <2>3, <2>4, NoCallMoves, NoPlaceMoves, NoPacketMoves DEF Pending!interestVars
<1>5. QED
  BY <1>1, <1>2, <1>3, <1>4 DEF RoomyNext

\* While it has room the table keeps what PendingInterests promises, although its
\* operations come in pieces: a lookup is not one step, a release is two, and an
\* entry's object, its condition and its bit are written one after the other.
THEOREM TableIsPending == RoomySpec => ImplementsInterests
<1>1. Init => Pending!Init
  <2> SUFFICES ASSUME Init
               PROVE  Pending!Init
    OBVIOUS
  <2>1. \A e \in Expressers :
           CallOf(e) = [state |-> "over", name |-> NoName, answer |-> NoName]
    BY DEF Init, Threads, NoJob, CallOf, InCall, Answer
  <2>2. \A s \in Slots : RelayedAt(s) = NoName
    BY DEF Init, EmptyEntry, RelayedAt
  <2>3. \A w \in Workers : DataOf(w) = NoName
    BY DEF Init, Threads, DataOf, CarriesData
  <2>4. QED
    BY <2>1, <2>2, <2>3 DEF Pending!Init, Calls, Relayed, DataInHand
<1>2. Init => TypeInv /\ RoomyInv /\ NothingYet
  BY RoomyInduction DEF Init, NothingYet, Threads
<1>3. TypeInv /\ RoomyInv /\ NothingYet /\ [RoomyNext]_vars => (TypeInv /\ RoomyInv /\ NothingYet)'
  BY RoomyInduction, NextNothingYet DEF Next
<1>4. TypeInv /\ TypeInv' /\ RoomyInv /\ NothingYet /\ [RoomyNext]_vars
      => [Pending!Next]_(Pending!interestVars)
  BY StepMaps DEF RoomyInv
<1>5. QED
  BY <1>1, <1>2, <1>3, <1>4, PTL DEF RoomySpec, ImplementsInterests, Pending!Spec
=============================================================================
