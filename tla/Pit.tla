-------------------------------- MODULE Pit --------------------------------
(***************************************************************************)
(* The pending interest table of ccnud (ccnu/src/ccnud_pit.c) together     *)
(* with the threads that use it: the packet pipeline of                    *)
(* ccnud_net_listener.c (handle_interest, handle_data) and the application *)
(* threads inside ccnudnb_express_interest (ccnud_net_broadcaster.c).      *)
(* ccnflood's ccnfd_pit.c is a copy of the same table.                     *)
(*                                                                         *)
(* A step is what one thread does between two operations on a mutex.  The  *)
(* table is guarded by two levels of lock: pitLock, one for the table, and *)
(* mutex[s], one per entry; neither alone protects an entry's fields.      *)
(***************************************************************************)
EXTENDS Integers, FiniteSets

CONSTANTS Workers,      \* threads of the net listener's packet pipeline
          Expressers,   \* threads that express interests for applications
          Names,        \* content names
          NumSlots,     \* PIT_SIZE
          Lifetime,     \* PIT_LIFETIME_MS, in ticks of the clock
          Retries,      \* g_interest_attempts
          MaxTime,      \* bound: the clock stops here
          MaxRequests,  \* bound: packets received plus interests expressed
          NoThread,     \* an unlocked mutex
          NoName        \* a NULL content_name or content_obj

ASSUME ThreadAssumption == /\ Workers \cap Expressers = {}
                           /\ NoThread \notin Workers \cup Expressers
                           /\ NoName \notin Names
ASSUME BoundAssumption == /\ NumSlots \in Nat \ {0}
                          /\ Lifetime \in Nat /\ Retries \in Nat
                          /\ MaxTime \in Nat \ {0} /\ MaxRequests \in Nat

VARIABLES now,       \* the clock; never 0, the value PIT_release writes
          pitLock,   \* the thread that holds g_pit.pit_lock
          mutex,     \* mutex[s]: the thread that holds entry s's mutex
          table,     \* table[s]: entry s of g_pit.pit_table and its valid bit
          pc,        \* where each thread is
          job,       \* what each thread is serving: an interest, a data packet, a request
          pe,        \* each thread's PENTRY handle
          attempts,  \* interests an expresser has sent for its request
          got,       \* the object express_interest handed back
          requests   \* how much of MaxRequests is used up

tableVars == <<pitLock, mutex, table>>
threadVars == <<pc, job, pe>>
vars == <<now, pitLock, mutex, table, pc, job, pe, attempts, got, requests>>

Threads == Workers \cup Expressers
Slots == 1..NumSlots

NoHandle == [index |-> 0, registered |-> FALSE]
NoJob == [kind |-> "none", name |-> NoName]

EmptyEntry == [valid |-> FALSE, name |-> NoName, obj |-> NoName, expires |-> 0,
               registered |-> FALSE, available |-> FALSE]

Entry == [valid : BOOLEAN, name : Names \cup {NoName}, obj : Names \cup {NoName},
          expires : Nat, registered : BOOLEAN, available : BOOLEAN]

WorkerPC == {"idle", "search", "lockEntry", "hit", "close", "clear", "miss", "add"}
ExpresserPC == {"idle", "alloc", "lockNew", "send", "wait", "signalled", "timedOut",
                "done", "clear"}

TypeOK ==
    /\ now \in Nat \ {0}
    /\ pitLock \in Threads \cup {NoThread}
    /\ mutex \in [Slots -> Threads \cup {NoThread}]
    /\ table \in [Slots -> Entry]
    /\ pc \in [Threads -> WorkerPC \cup ExpresserPC]
    /\ job \in [Threads -> [kind : {"none", "interest", "data", "express"},
                            name : Names \cup {NoName}]]
    /\ pe \in [Threads -> [index : Slots \cup {0}, registered : BOOLEAN]]
    /\ attempts \in [Expressers -> 0..Retries]
    /\ got \in [Expressers -> Names \cup {NoName}]
    /\ requests \in 0..MaxRequests

Init ==
    /\ now = 1
    /\ pitLock = NoThread
    /\ mutex = [s \in Slots |-> NoThread]
    /\ table = [s \in Slots |-> EmptyEntry]
    /\ pc = [t \in Threads |-> "idle"]
    /\ job = [t \in Threads |-> NoJob]
    /\ pe = [t \in Threads |-> NoHandle]
    /\ attempts = [e \in Expressers |-> 0]
    /\ got = [e \in Expressers |-> NoName]
    /\ requests = 0

-----------------------------------------------------------------------------
(* The table.                                                              *)

First(S) == {s \in S : \A u \in S : s <= u}
FreeSlots == {s \in Slots : ~table[s].valid}
MatchingSlots(n) == {s \in Slots : table[s].valid /\ table[s].name = n}

\* Mutant of Evictable: registered entries are candidates too.
EvictableRegistered == {s \in Slots : mutex[s] = NoThread}

\* What evict() considers: entries whose mutex trylock gets and that no
\* application thread is registered on.
Evictable == {s \in Slots : mutex[s] = NoThread /\ ~table[s].registered}

\* What evict() returns.  Its scan moves on to a later entry whenever that
\* entry's expiry differs from the candidate's, so it ends on the first entry of
\* the last run of candidates with equal expiry times.
Victims ==
    {v \in Evictable :
        /\ \A s \in Evictable : s > v => table[s].expires = table[v].expires
        /\ \A p \in Evictable :
              /\ p < v
              /\ \A s \in Evictable : ~(p < s /\ s < v)
              => table[p].expires # table[v].expires}

\* The entry PIT_get_handle and PIT_add_entry write: a slot bit_find found keeps
\* the obj it had, an evicted one is emptied first.
NewEntry(n, registered, obj) ==
    [valid |-> TRUE, name |-> n, obj |-> obj, expires |-> now + Lifetime,
     registered |-> registered, available |-> TRUE]

Refreshed(entry) == [entry EXCEPT !.expires = now + Lifetime]
Goto(t, label) == pc' = [pc EXCEPT ![t] = label]

-----------------------------------------------------------------------------
(* Packets: ccnudnl_service hands each one to a thread of the pipeline.    *)

Receive(w, k, n) ==
    /\ pc[w] = "idle" /\ requests < MaxRequests
    /\ requests' = requests + 1
    /\ job' = [job EXCEPT ![w] = [kind |-> k, name |-> n]]
    /\ Goto(w, "search")
    /\ UNCHANGED <<now, tableVars, pe, attempts, got>>

\* A packet whose name PIT_exact_match rejects: unsolicited data is dropped, an
\* interest goes on to the content store and the routing daemon.
MissLabel(w) == IF job[w].kind = "data" THEN "idle" ELSE "miss"

SearchMiss(w) ==
    /\ pc[w] = "search" /\ pitLock = NoThread
    /\ MatchingSlots(job[w].name) = {}
    /\ Goto(w, MissLabel(w))
    /\ UNCHANGED <<now, tableVars, job, pe, attempts, got, requests>>

\* PIT_exact_match stops at the first entry with the name and waits for that
\* entry's mutex with the table locked.
SearchHit(w) ==
    /\ pc[w] = "search" /\ pitLock = NoThread
    /\ \E s \in First(MatchingSlots(job[w].name)) :
          pe' = [pe EXCEPT ![w] = [index |-> s, registered |-> FALSE]]
    /\ pitLock' = w
    /\ Goto(w, "lockEntry")
    /\ UNCHANGED <<now, mutex, table, job, attempts, got, requests>>

Matches(s) == table[s].expires >= now /\ table[s].available

\* Mutant of MatchFails: the early return forgets to unlock the table.
MatchFailsLocked(w) ==
    /\ pc[w] = "lockEntry" /\ mutex[pe[w].index] = NoThread
    /\ ~Matches(pe[w].index)
    /\ pe' = [pe EXCEPT ![w] = NoHandle]
    /\ Goto(w, MissLabel(w))
    /\ UNCHANGED <<now, tableVars, job, attempts, got, requests>>

MatchFails(w) ==
    /\ pc[w] = "lockEntry" /\ mutex[pe[w].index] = NoThread
    /\ ~Matches(pe[w].index)
    /\ pitLock' = NoThread
    /\ pe' = [pe EXCEPT ![w] = NoHandle]
    /\ Goto(w, MissLabel(w))
    /\ UNCHANGED <<now, mutex, table, job, attempts, got, requests>>

MatchSucceeds(w) ==
    LET s == pe[w].index IN
    /\ pc[w] = "lockEntry" /\ mutex[s] = NoThread
    /\ Matches(s)
    /\ mutex' = [mutex EXCEPT ![s] = w]
    /\ pitLock' = NoThread
    /\ table' = [table EXCEPT ![s].available = FALSE]
    /\ pe' = [pe EXCEPT ![w].registered = table[s].registered]
    /\ Goto(w, "hit")
    /\ UNCHANGED <<now, job, attempts, got, requests>>

\* handle_interest on an entry that is already pending: PIT_refresh, and the
\* first half of PIT_close.
InterestHit(w) ==
    LET s == pe[w].index IN
    /\ pc[w] = "hit" /\ job[w].kind = "interest"
    /\ table' = [table EXCEPT ![s] = Refreshed(@)]
    /\ mutex' = [mutex EXCEPT ![s] = NoThread]
    /\ Goto(w, "close")
    /\ UNCHANGED <<now, pitLock, job, pe, attempts, got, requests>>

\* The second half of PIT_close.
CloseEntry(w) ==
    /\ pc[w] = "close" /\ pitLock = NoThread
    /\ table' = [table EXCEPT ![pe[w].index].available = TRUE]
    /\ pe' = [pe EXCEPT ![w] = NoHandle]
    /\ Goto(w, "idle")
    /\ UNCHANGED <<now, pitLock, mutex, job, attempts, got, requests>>

WithObject(entry, n) == IF entry.obj = NoName THEN [entry EXCEPT !.obj = n] ELSE entry

\* Mutant of DataForApplication: nobody is signalled.
DataForApplicationSilent(w) ==
    LET s == pe[w].index IN
    /\ pc[w] = "hit" /\ job[w].kind = "data" /\ pe[w].registered
    /\ table' = [table EXCEPT ![s] = Refreshed(WithObject(@, job[w].name))]
    /\ mutex' = [mutex EXCEPT ![s] = NoThread]
    /\ pe' = [pe EXCEPT ![w] = NoHandle]
    /\ Goto(w, "idle")
    /\ UNCHANGED <<now, pitLock, job, attempts, got, requests>>

\* handle_data on an entry an application thread registered: hand over the
\* object, refresh, signal the entry's condition, unlock.  available stays 0.
DataForApplication(w) ==
    LET s == pe[w].index
        waiters == {e \in Expressers : pc[e] = "wait" /\ pe[e].index = s}
    IN
    /\ pc[w] = "hit" /\ job[w].kind = "data" /\ pe[w].registered
    /\ table' = [table EXCEPT ![s] = Refreshed(WithObject(@, job[w].name))]
    /\ mutex' = [mutex EXCEPT ![s] = NoThread]
    /\ pe' = [pe EXCEPT ![w] = NoHandle]
    /\ \/ waiters = {} /\ Goto(w, "idle")
       \/ \E e \in waiters : pc' = [pc EXCEPT ![w] = "idle", ![e] = "signalled"]
    /\ UNCHANGED <<now, pitLock, job, attempts, got, requests>>

\* The first half of PIT_release: make the entry very expired, unlock it.
ReleaseEntry(t, s, entry) ==
    /\ table' = [table EXCEPT ![s] = [entry EXCEPT !.expires = 0]]
    /\ mutex' = [mutex EXCEPT ![s] = NoThread]
    /\ Goto(t, "clear")

\* handle_data on an entry for an interest heard from the network: forward the
\* data and release the entry.
DataForNetwork(w) ==
    LET s == pe[w].index IN
    /\ pc[w] = "hit" /\ job[w].kind = "data" /\ ~pe[w].registered
    /\ ReleaseEntry(w, s, WithObject(table[s], job[w].name))
    /\ UNCHANGED <<now, pitLock, job, pe, attempts, got, requests>>

\* Mutants of ClearedEntry: the object, or the valid bit, is not reset.
ClearedEntryKeepsObject(entry) ==
    [EmptyEntry EXCEPT !.expires = entry.expires, !.obj = entry.obj]
ClearedEntryKeepsBit(entry) == [EmptyEntry EXCEPT !.expires = entry.expires, !.valid = TRUE]

\* The second half of PIT_release, by whoever released.
ClearedEntry(entry) == [EmptyEntry EXCEPT !.expires = entry.expires]

ClearEntry(t) ==
    /\ pc[t] = "clear" /\ pitLock = NoThread
    /\ table' = [table EXCEPT ![pe[t].index] = ClearedEntry(@)]
    /\ pe' = [pe EXCEPT ![t] = NoHandle]
    /\ Goto(t, "idle")
    /\ UNCHANGED <<now, pitLock, mutex, job, attempts, got, requests>>

\* handle_interest without an entry: answer from the content store or drop, or
\* forward because the routing daemon said so.
InterestMiss(w) ==
    /\ pc[w] = "miss"
    /\ \/ Goto(w, "idle")
       \/ Goto(w, "add")
    /\ UNCHANGED <<now, tableVars, job, pe, attempts, got, requests>>

\* PIT_add_entry, for an interest just forwarded.
AddEntry(w) ==
    /\ pc[w] = "add" /\ pitLock = NoThread
    /\ \E s \in First(FreeSlots) :
          table' = [table EXCEPT ![s] = NewEntry(job[w].name, FALSE, @.obj)]
    /\ Goto(w, "idle")
    /\ UNCHANGED <<now, pitLock, mutex, job, pe, attempts, got, requests>>

AddEntryEvicting(w) ==
    /\ pc[w] = "add" /\ pitLock = NoThread
    /\ FreeSlots = {}
    /\ \E s \in Victims :
          table' = [table EXCEPT ![s] = NewEntry(job[w].name, FALSE, NoName)]
    /\ Goto(w, "idle")
    /\ UNCHANGED <<now, pitLock, mutex, job, pe, attempts, got, requests>>

\* Nothing can be evicted: PIT_add_entry returns -1 and leaves pit_lock locked.
AddEntryFull(w) ==
    /\ pc[w] = "add" /\ pitLock = NoThread
    /\ FreeSlots = {} /\ Evictable = {}
    /\ pitLock' = w
    /\ Goto(w, "idle")
    /\ UNCHANGED <<now, mutex, table, job, pe, attempts, got, requests>>

-----------------------------------------------------------------------------
(* Applications: ccnudnb_express_interest, after the routing daemon gave   *)
(* the interest a destination.                                             *)

Express(e, n) ==
    /\ pc[e] = "idle" /\ requests < MaxRequests
    /\ requests' = requests + 1
    /\ job' = [job EXCEPT ![e] = [kind |-> "express", name |-> n]]
    /\ got' = [got EXCEPT ![e] = NoName]
    /\ Goto(e, "alloc")
    /\ UNCHANGED <<now, tableVars, pe, attempts>>

\* PIT_get_handle writes the entry under pit_lock only, then takes its mutex.
RegisterAt(e, s, obj) ==
    /\ table' = [table EXCEPT ![s] = NewEntry(job[e].name, TRUE, obj)]
    /\ pe' = [pe EXCEPT ![e] = [index |-> s, registered |-> TRUE]]
    /\ pitLock' = e
    /\ Goto(e, "lockNew")

GetHandle(e) ==
    /\ pc[e] = "alloc" /\ pitLock = NoThread
    /\ \E s \in First(FreeSlots) : RegisterAt(e, s, table[s].obj)
    /\ UNCHANGED <<now, mutex, job, attempts, got, requests>>

GetHandleEvicting(e) ==
    /\ pc[e] = "alloc" /\ pitLock = NoThread
    /\ FreeSlots = {}
    /\ \E s \in Victims : RegisterAt(e, s, NoName)
    /\ UNCHANGED <<now, mutex, job, attempts, got, requests>>

\* Nothing can be evicted: PIT_get_handle returns NULL and leaves pit_lock locked.
GetHandleFull(e) ==
    /\ pc[e] = "alloc" /\ pitLock = NoThread
    /\ FreeSlots = {} /\ Evictable = {}
    /\ pitLock' = e
    /\ Goto(e, "idle")
    /\ UNCHANGED <<now, mutex, table, job, pe, attempts, got, requests>>

LockNew(e) ==
    /\ pc[e] = "lockNew" /\ mutex[pe[e].index] = NoThread
    /\ mutex' = [mutex EXCEPT ![pe[e].index] = e]
    /\ pitLock' = NoThread
    /\ attempts' = [attempts EXCEPT ![e] = 0]
    /\ Goto(e, "send")
    /\ UNCHANGED <<now, table, job, pe, got, requests>>

\* Mutant of Send: the attempts are not counted.
SendUncounted(e) ==
    LET s == pe[e].index IN
    /\ pc[e] = "send" /\ attempts[e] < Retries
    /\ table' = [table EXCEPT ![s] = Refreshed(@)]
    /\ mutex' = [mutex EXCEPT ![s] = NoThread]
    /\ Goto(e, "wait")
    /\ UNCHANGED <<now, pitLock, job, pe, attempts, got, requests>>

\* One round of the retransmission loop: refresh, send, and wait on the entry's
\* condition unless the object is there already.
Send(e) ==
    LET s == pe[e].index IN
    /\ pc[e] = "send" /\ attempts[e] < Retries
    /\ attempts' = [attempts EXCEPT ![e] = @ + 1]
    /\ table' = [table EXCEPT ![s] = Refreshed(@)]
    /\ IF table[s].obj = NoName
       THEN mutex' = [mutex EXCEPT ![s] = NoThread] /\ Goto(e, "wait")
       ELSE UNCHANGED mutex /\ Goto(e, "done")
    /\ UNCHANGED <<now, pitLock, job, pe, got, requests>>

GiveUp(e) ==
    /\ pc[e] = "send" /\ attempts[e] = Retries
    /\ Goto(e, "done")
    /\ UNCHANGED <<now, tableVars, job, pe, attempts, got, requests>>

\* pthread_cond_timedwait runs out; the thread has yet to get the mutex back.
TimeOut(e) ==
    /\ pc[e] = "wait"
    /\ Goto(e, "timedOut")
    /\ UNCHANGED <<now, tableVars, job, pe, attempts, got, requests>>

WakeWithObject(e) ==
    LET s == pe[e].index IN
    /\ pc[e] \in {"signalled", "timedOut"} /\ mutex[s] = NoThread
    /\ table[s].obj # NoName
    /\ mutex' = [mutex EXCEPT ![s] = e]
    /\ Goto(e, "done")
    /\ UNCHANGED <<now, pitLock, table, job, pe, attempts, got, requests>>

\* Woken without an object: after a timeout the next round, after a signal the
\* while loop waits again.
WakeWithout(e) ==
    LET s == pe[e].index IN
    /\ pc[e] \in {"signalled", "timedOut"} /\ mutex[s] = NoThread
    /\ table[s].obj = NoName
    /\ \/ /\ pc[e] = "timedOut"
          /\ mutex' = [mutex EXCEPT ![s] = e]
          /\ Goto(e, "send")
       \/ /\ pc[e] = "signalled"
          /\ Goto(e, "wait")
          /\ UNCHANGED mutex
    /\ UNCHANGED <<now, pitLock, table, job, pe, attempts, got, requests>>

\* Mutant of Finish: the last timeout counts as a failure whatever has arrived.
FinishByCount(e) ==
    LET s == pe[e].index IN
    /\ pc[e] = "done"
    /\ got' = [got EXCEPT ![e] = IF attempts[e] < Retries THEN table[s].obj ELSE NoName]
    /\ ReleaseEntry(e, s, table[s])
    /\ UNCHANGED <<now, pitLock, job, pe, attempts, requests>>

\* After the loop: take the object, if any, and the first half of PIT_release.
Finish(e) ==
    LET s == pe[e].index IN
    /\ pc[e] = "done"
    /\ got' = [got EXCEPT ![e] = table[s].obj]
    /\ ReleaseEntry(e, s, table[s])
    /\ UNCHANGED <<now, pitLock, job, pe, attempts, requests>>

-----------------------------------------------------------------------------

Tick ==
    /\ now < MaxTime
    /\ now' = now + 1
    /\ UNCHANGED <<tableVars, threadVars, attempts, got, requests>>

\* What a worker does without anything new coming in, a free slot permitting.
WorkerStep(w) ==
    \/ SearchMiss(w) \/ SearchHit(w) \/ MatchFails(w) \/ MatchSucceeds(w)
    \/ InterestHit(w) \/ CloseEntry(w) \/ DataForApplication(w) \/ DataForNetwork(w)
    \/ ClearEntry(w) \/ InterestMiss(w) \/ AddEntry(w)

ExpresserStep(e) ==
    \/ GetHandle(e) \/ LockNew(e) \/ Send(e) \/ GiveUp(e) \/ TimeOut(e)
    \/ WakeWithObject(e) \/ WakeWithout(e) \/ Finish(e) \/ ClearEntry(e)

\* The steps that meet a full table.
WorkerFullStep(w) == AddEntryEvicting(w) \/ AddEntryFull(w)
ExpresserFullStep(e) == GetHandleEvicting(e) \/ GetHandleFull(e)

Arrival ==
    \/ \E w \in Workers, k \in {"interest", "data"}, n \in Names : Receive(w, k, n)
    \/ \E e \in Expressers, n \in Names : Express(e, n)

RoomyNext ==
    \/ Arrival
    \/ Tick
    \/ \E w \in Workers : WorkerStep(w)
    \/ \E e \in Expressers : ExpresserStep(e)

FullNext ==
    \/ \E w \in Workers : WorkerFullStep(w)
    \/ \E e \in Expressers : ExpresserFullStep(e)

Next == RoomyNext \/ FullNext

Spec == Init /\ [][Next]_vars

\* The behaviours in which every allocation finds a free slot.
RoomySpec == Init /\ [][RoomyNext]_vars

\* Every thread that can move does; nothing makes packets or requests arrive, and
\* the clock need not advance (timeouts do not depend on it here).
Fairness ==
    /\ \A w \in Workers : WF_vars(WorkerStep(w) \/ WorkerFullStep(w))
    /\ \A e \in Expressers : WF_vars(ExpresserStep(e) \/ ExpresserFullStep(e))

FairSpec == Spec /\ Fairness

FairRoomySpec == RoomySpec /\ Fairness

-----------------------------------------------------------------------------
(* Properties.                                                             *)

\* A thread between locking an entry's mutex and unlocking it.
Holding(t) == pc[t] \in {"hit", "send", "done"}

\* A thread that will release the entry its handle refers to: an application
\* thread from PIT_get_handle on, a worker relaying data for a remote interest.
Releases(t) ==
    \/ /\ t \in Expressers
       /\ pc[t] \in {"lockNew", "send", "wait", "signalled", "timedOut", "done", "clear"}
    \/ t \in Workers /\ pc[t] = "clear"
    \/ t \in Workers /\ pc[t] = "hit" /\ job[t].kind = "data" /\ ~pe[t].registered

\* An entry's mutex is held by exactly the thread that works on the entry through
\* its handle, so the unlock in PIT_release and PIT_close is always the holder's.
MutexOwner ==
    /\ \A t \in Threads : Holding(t) => pe[t].index # 0 /\ mutex[pe[t].index] = t
    /\ \A s \in Slots : mutex[s] # NoThread => Holding(mutex[s]) /\ pe[mutex[s]].index = s

\* PIT_exact_match dereferences the name of every entry whose valid bit is set:
\* no interleaving of add, evict and release leaves one with a NULL name.
ValidHasName == \A s \in Slots : table[s].valid => table[s].name # NoName

\* What holds of the table whether it is full or not.
TableInv == TypeOK /\ MutexOwner /\ ValidHasName

\* No two threads are going to release the same entry, so no entry is released
\* under the feet of the thread that still uses it.
OneReleaser ==
    \A t, u \in Threads :
        Releases(t) /\ Releases(u) /\ pe[t].index = pe[u].index => t = u

\* The entry a thread is going to release is still the one it matched or got: in
\* use, under the name the thread serves, and marked as an application's entry
\* exactly if an application thread owns it.
EntryKept ==
    \A t \in Threads : Releases(t) =>
        /\ pe[t].index # 0
        /\ table[pe[t].index].valid
        /\ table[pe[t].index].name = job[t].name
        /\ (table[pe[t].index].registered <=> t \in Expressers)

\* ccnudnb_express_interest hands back the content it was asked for or none.
RightContent == \A e \in Expressers : got[e] \in {NoName, job[e].name}

\* A thread asleep in pthread_cond_timedwait has no object waiting for it:
\* handle_data never stores one without waking the thread.
NoLostWakeup ==
    \A e \in Expressers : pc[e] = "wait" => table[pe[e].index].obj = NoName

\* PIT_get_handle takes a new entry's mutex with the table locked; nobody else
\* ever holds that mutex, so the whole table never waits for one entry there.
NewEntryUnlocked ==
    \A e \in Expressers : pc[e] = "lockNew" => mutex[pe[e].index] = NoThread

\* "We don't touch any registered entries": an entry an application registered
\* gets no other name by eviction; its name can only be cleared by a release.
EvictSparesRegistered ==
    [][\A s \in Slots :
          table[s].registered /\ table'[s].name # table[s].name
              => table'[s].name = NoName]_table

\* An interest an application expresses is answered or given up: the call returns.
ExpressReturns == \A e \in Expressers : pc[e] = "alloc" ~> pc[e] = "idle"

\* Every packet the pipeline takes is dealt with: no thread of it stays blocked.
PacketHandled == \A w \in Workers : pc[w] = "search" ~> pc[w] = "idle"

\* An object that reaches the entry of an application still waiting is what the
\* call returns, also if it arrives while the wait times out for the last time.
DeliveredIsReturned ==
    \A e \in Expressers :
        /\ pc[e] \in {"wait", "signalled", "timedOut"}
        /\ table[pe[e].index].obj = job[e].name
        ~> pc[e] = "clear" /\ got[e] = job[e].name

-----------------------------------------------------------------------------
(* The inductive invariant behind OneReleaser, EntryKept, RightContent and  *)
(* NoLostWakeup while the table has room (proved in PitProofs).             *)

\* Between the match and the entry's mutex the table is locked, so the entry stays
\* what was matched.
MatchInv ==
    \A w \in Workers : pc[w] = "lockEntry" =>
        /\ pitLock = w
        /\ table[pe[w].index].valid /\ table[pe[w].index].name = job[w].name

\* A matched entry is not one that is being released, and the handle's copy of
\* the registered flag is up to date.
HitInv ==
    \A w \in Workers : pc[w] = "hit" =>
        /\ table[pe[w].index].valid /\ table[pe[w].index].name = job[w].name
        /\ pe[w].registered = table[pe[w].index].registered
        /\ \A t \in Threads : pc[t] = "clear" => pe[t].index # pe[w].index

\* A half released entry is very expired, which is what keeps it from being matched.
ExpiredInv == \A t \in Threads : pc[t] = "clear" => table[pe[t].index].expires = 0

\* A new entry's owner has the table locked.
NewInv == \A e \in Expressers : pc[e] = "lockNew" => pitLock = e

\* An entry marked as an application's has its application.
RegisteredInv ==
    \A s \in Slots : table[s].registered =>
        \E e \in Expressers : Releases(e) /\ pe[e].index = s

\* An object is in a used entry, under its own name.
ObjectInv ==
    \A s \in Slots : table[s].obj # NoName => table[s].valid /\ table[s].obj = table[s].name

\* The table is locked only until one more mutex is taken, and no thread that holds an
\* entry's mutex waits for another lock, so no circle of waiting threads forms.
TableLockPasses ==
    pitLock # NoThread =>
        /\ pc[pitLock] \in {"lockEntry", "lockNew"}
        /\ LET owner == mutex[pe[pitLock].index] IN owner # NoThread => Holding(owner)

EntriesInv ==
    /\ MutexOwner /\ OneReleaser /\ EntryKept
    /\ MatchInv /\ HitInv /\ ExpiredInv /\ NewInv /\ NewEntryUnlocked
    /\ RegisteredInv /\ ObjectInv
    /\ RightContent /\ NoLostWakeup

RoomyInv == EntriesInv /\ TableLockPasses

-----------------------------------------------------------------------------
(* What the table promises while it has room.  A half released entry is     *)
(* over, and what an application's entry holds is the answer to its call.   *)

InCall(e) == pc[e] \notin {"idle", "clear"}
Answer(e) == IF InCall(e) /\ pc[e] # "alloc" THEN table[pe[e].index].obj ELSE got[e]
CallOf(e) == [state |-> IF InCall(e) THEN "made" ELSE "over",
              name |-> job[e].name, answer |-> Answer(e)]

HalfReleased(s) == \E w \in Workers : pc[w] = "clear" /\ pe[w].index = s
RelayedAt(s) ==
    IF table[s].valid /\ ~table[s].registered /\ ~HalfReleased(s) THEN table[s].name ELSE NoName

CarriesData(w) == job[w].kind = "data" /\ pc[w] \in {"search", "lockEntry", "hit"}
DataOf(w) == IF CarriesData(w) THEN job[w].name ELSE NoName

Calls == [e \in Expressers |-> CallOf(e)]
Relayed == [s \in Slots |-> RelayedAt(s)]
DataInHand == [w \in Workers |-> DataOf(w)]

Pending == INSTANCE PendingInterests WITH
    Callers <- Expressers, Carriers <- Workers, Places <- Slots,
    call <- Calls, relayed <- Relayed, data <- DataInHand

\* A data packet answers one interest at most, an interest that the table took in waits
\* for its data, and a call returns the data that were handed over to it.
ImplementsInterests == Pending!Spec
=============================================================================
