---------------------------- MODULE SegmentFetch ----------------------------
(***************************************************************************)
(* The retrieval of a file: retrieve_segment (ccnud_listener.c), which     *)
(* keeps a window of chunks requested, and the threads that handle data    *)
(* (handle_data and match_segment in ccnud_net_listener.c), which hand the *)
(* chunks over in a list.  ccnfd has a copy of both.                       *)
(*                                                                         *)
(* Four kinds of mutex are involved: pit_lock, one in each entry of the    *)
(* table, segments_lock and the segment's own.  A step is what a thread    *)
(* does between two operations on them.  Data are lost, repeated and       *)
(* reordered at will, and entries expire at any time.                      *)
(***************************************************************************)
EXTENDS Integers, FiniteSets, Sequences, SequencesExt, FiniteSetsExt

CONSTANTS Workers,    \* threads of the net listener's pipeline
          NumChunks,  \* chunks of the file
          Cached,     \* chunks the content store may hold (a bound)
          MaxWindow,  \* MAX_INTEREST_PIPELINE
          NumSlots,   \* PIT_SIZE
          Retriever,  \* the thread in retrieve_segment
          NoThread    \* an unlocked mutex

ASSUME FetchAssumption ==
    /\ NumChunks \in Nat \ {0} /\ MaxWindow \in Nat \ {0} /\ NumSlots \in Nat
    /\ Cached \subseteq Nat
    /\ Retriever \notin Workers /\ NoThread \notin Workers \cup {Retriever}

Chunks == 0..(NumChunks - 1)
Places == 1..MaxWindow
Slots == 1..NumSlots
None == -1           \* no chunk, no object

VARIABLES pitLock, mutex, segmentsLock, segMutex,   \* who holds each mutex
          table,      \* the entries of the pending interest table
          registered, \* the segment is in the net listener's list
          stored,     \* chunks the content store holds
          list,       \* rcv_chunks: entries handed over
          worker,     \* where each worker is, with which chunk and entry
          pc,         \* where retrieve_segment is
          current,    \* current_chunk
          tx,         \* interests it may still send in this round
          window,     \* chunk_window: the chunk and the entry in each place
          placeOf,    \* pit_to_chunk
          taken,      \* the place of the chunk that is being copied
          cwnd, ssthresh, avoiding, fulfilled,      \* congestion control
          file,       \* what was copied to each chunk's place
          received    \* missing: the chunks that were copied

locks == <<pitLock, mutex, segmentsLock, segMutex>>
control == <<cwnd, ssthresh, avoiding, fulfilled>>
fetch == <<current, tx, window, placeOf, taken, control, file, received>>
vars == <<locks, table, registered, stored, list, worker, pc, fetch>>

EmptyEntry == [valid |-> FALSE, chunk |-> None, obj |-> None, expired |-> TRUE, available |-> FALSE]
FreePlace == [chunk |-> None, slot |-> 0]
Idle == [at |-> "idle", chunk |-> None, slot |-> 0]

FirstWindow == 1

Init ==
    /\ pitLock = NoThread /\ mutex = [s \in Slots |-> NoThread]
    /\ segmentsLock = NoThread /\ segMutex = NoThread
    /\ table = [s \in Slots |-> EmptyEntry]
    /\ registered = FALSE
    /\ stored \in SUBSET (Chunks \cap Cached)
    /\ list = <<>>
    /\ worker = [w \in Workers |-> Idle]
    /\ pc = "register"
    /\ current = 0 /\ tx = 0
    /\ window = [i \in Places |-> FreePlace]
    /\ placeOf = [s \in Slots |-> 0] /\ taken = 0
    /\ cwnd = FirstWindow /\ ssthresh = 1 /\ avoiding = FALSE /\ fulfilled = 0
    /\ file = [c \in Chunks |-> None]
    /\ received = {}

TypeOK ==
    /\ {pitLock, segmentsLock, segMutex} \subseteq Workers \cup {Retriever, NoThread}
    /\ mutex \in [Slots -> Workers \cup {NoThread}]
    /\ table \in [Slots -> [valid : BOOLEAN, chunk : Chunks \cup {None}, obj : Chunks \cup {None},
                            expired : BOOLEAN, available : BOOLEAN]]
    /\ registered \in BOOLEAN /\ stored \subseteq Chunks
    /\ pc \in {"register", "round", "fill", "look", "lockHit", "appendHit", "collect", "wait",
              "take", "release", "resend", "done", "crashed"}
    /\ list \in Seq(Slots) /\ Len(list) <= NumChunks
    /\ worker \in [Workers -> [at : {"idle", "search", "lockEntry", "put", "match", "lockSegment", "append"},
                               chunk : Chunks \cup {None}, slot : Slots \cup {0}]]
    /\ current \in 0..NumChunks /\ tx \in 0..MaxWindow
    /\ window \in [Places -> [chunk : Chunks \cup {None}, slot : Slots \cup {0}]]
    /\ placeOf \in [Slots -> Places \cup {None, 0}] /\ taken \in Places \cup {0}
    /\ cwnd \in 1..(MaxWindow + NumChunks) /\ ssthresh \in 1..(MaxWindow + NumChunks)
    /\ avoiding \in BOOLEAN /\ fulfilled \in 0..NumChunks
    /\ file \in [Chunks -> Chunks \cup {None}] /\ received \subseteq Chunks
-----------------------------------------------------------------------------
(* Data: a thread of the pipeline in handle_data.                          *)

At(w, at) == worker' = [worker EXCEPT ![w].at = at]
Rest(w) == worker' = [worker EXCEPT ![w] = Idle]

\* A chunk is received, asked for or not, for the first time or again.
Deliver(w, c) ==
    /\ worker[w].at = "idle"
    /\ worker' = [worker EXCEPT ![w] = [at |-> "search", chunk |-> c, slot |-> 0]]
    /\ UNCHANGED <<locks, table, registered, stored, list, pc, fetch>>

EntriesOf(c) == {s \in Slots : table[s].valid /\ table[s].chunk = c}

\* PIT_exact_match: the first entry with the name, whose mutex it waits for with the table locked.
SearchMiss(w) ==
    /\ worker[w].at = "search" /\ pitLock = NoThread
    /\ EntriesOf(worker[w].chunk) = {}
    /\ Rest(w)
    /\ UNCHANGED <<locks, table, registered, stored, list, pc, fetch>>

SearchHit(w) ==
    /\ worker[w].at = "search" /\ pitLock = NoThread
    /\ EntriesOf(worker[w].chunk) # {}
    /\ worker' = [worker EXCEPT ![w] = [at |-> "lockEntry", chunk |-> @.chunk, slot |-> Min(EntriesOf(@.chunk))]]
    /\ pitLock' = w
    /\ UNCHANGED <<mutex, segmentsLock, segMutex, table, registered, stored, list, pc, fetch>>

\* Mutant of Matches: an entry somebody has already matched matches again.
MatchesAgain(s) == ~table[s].expired
Matches(s) == ~table[s].expired /\ table[s].available

MatchFails(w) ==
    /\ worker[w].at = "lockEntry" /\ mutex[worker[w].slot] = NoThread
    /\ ~Matches(worker[w].slot)
    /\ pitLock' = NoThread
    /\ Rest(w)
    /\ UNCHANGED <<mutex, segmentsLock, segMutex, table, registered, stored, list, pc, fetch>>

MatchSucceeds(w) ==
    LET s == worker[w].slot IN
    /\ worker[w].at = "lockEntry" /\ mutex[s] = NoThread
    /\ Matches(s)
    /\ mutex' = [mutex EXCEPT ![s] = w] /\ pitLock' = NoThread
    /\ table' = [table EXCEPT ![s].available = FALSE]
    /\ At(w, "put")
    /\ UNCHANGED <<segmentsLock, segMutex, registered, stored, list, pc, fetch>>

\* The content store may keep the chunk; the entry gets it and is refreshed.
Put(w) ==
    LET s == worker[w].slot IN
    /\ worker[w].at = "put"
    /\ stored' \in {stored, stored \cup ({worker[w].chunk} \cap Cached)}
    /\ table' = [table EXCEPT ![s].obj = IF @ = None THEN worker[w].chunk ELSE @, ![s].expired = FALSE]
    /\ At(w, "match")
    /\ UNCHANGED <<locks, registered, list, pc, fetch>>

\* match_segment waits for the segment's mutex with the list of segments and the entry locked.
MatchSegment(w) ==
    /\ worker[w].at = "match" /\ segmentsLock = NoThread
    /\ segmentsLock' = w
    /\ At(w, "lockSegment")
    /\ UNCHANGED <<pitLock, mutex, segMutex, table, registered, stored, list, pc, fetch>>

LockSegment(w) ==
    /\ worker[w].at = "lockSegment" /\ segMutex = NoThread
    /\ segMutex' = w /\ segmentsLock' = NoThread
    /\ At(w, "append")
    /\ UNCHANGED <<pitLock, mutex, table, registered, stored, list, pc, fetch>>

\* The chunk is handed over.  retrieve_segment waits for a time at most: the signal it gets for a full
\* window only shortens that.
HandOver(w) ==
    /\ worker[w].at = "append"
    /\ mutex' = [mutex EXCEPT ![worker[w].slot] = NoThread] /\ segMutex' = NoThread
    /\ list' = Append(list, worker[w].slot)
    /\ Rest(w)
    /\ UNCHANGED <<pitLock, segmentsLock, table, registered, stored, pc, fetch>>
-----------------------------------------------------------------------------
(* retrieve_segment: it sends interests for as many chunks as the window   *)
(* has room for,                                                           *)

Goto(label) == pc' = label

Register ==
    /\ pc = "register" /\ segmentsLock = NoThread
    /\ registered' = TRUE
    /\ Goto("round")
    /\ UNCHANGED <<locks, table, stored, list, worker, fetch>>

\* Mutant of Complete: every chunk has been asked for.
CompleteWhenAsked == current = NumChunks
Complete == received = Chunks

Round ==
    /\ pc = "round" /\ ~Complete
    /\ tx' = cwnd
    /\ Goto("fill")
    /\ UNCHANGED <<locks, table, registered, stored, list, worker, current, window, placeOf, taken, control, file, received>>

FreePlaces == {i \in Places : i <= cwnd /\ window[i] = FreePlace}

FilledUp ==
    /\ pc = "fill"
    /\ tx = 0 \/ current = NumChunks \/ FreePlaces = {}
    /\ Goto("collect")
    /\ UNCHANGED <<locks, table, registered, stored, list, worker, fetch>>

FreeSlots == {s \in Slots : ~table[s].valid}

\* PIT_get_handle with an entry that is free; the retrieval's own entries are never evicted.
GetHandle ==
    /\ pc = "fill" /\ tx > 0 /\ current < NumChunks /\ FreePlaces # {}
    /\ pitLock = NoThread /\ FreeSlots # {}
    /\ LET i == Min(FreePlaces)
           s == Min(FreeSlots)
       IN  /\ mutex[s] = NoThread
           /\ table' = [table EXCEPT ![s] = [valid |-> TRUE, chunk |-> current, obj |-> @.obj,
                                             expired |-> FALSE, available |-> TRUE]]
           /\ window' = [window EXCEPT ![i] = [chunk |-> current, slot |-> s]]
           /\ placeOf' = [placeOf EXCEPT ![s] = i]
    /\ Goto("look")
    /\ UNCHANGED <<locks, registered, stored, list, worker, current, tx, taken, control, file, received>>

\* CS_get misses: the interest is sent.
SendInterest ==
    /\ pc = "look" /\ current \notin stored
    /\ current' = current + 1 /\ tx' = tx - 1
    /\ Goto("fill")
    /\ UNCHANGED <<locks, table, registered, stored, list, worker, window, placeOf, taken, control, file, received>>

\* CS_get hits: the entry is looked up again.
Hit ==
    /\ pc = "look" /\ current \in stored
    /\ pitLock = NoThread
    /\ pitLock' = Retriever
    /\ Goto("lockHit")
    /\ UNCHANGED <<mutex, segmentsLock, segMutex, table, registered, stored, list, worker, fetch>>

Current == Min(EntriesOf(current))

FillFromStore ==
    /\ pc = "lockHit" /\ mutex[Current] = NoThread
    /\ Matches(Current)
    /\ table' = [table EXCEPT ![Current].obj = current, ![Current].available = FALSE]
    /\ pitLock' = NoThread
    /\ Goto("appendHit")
    /\ UNCHANGED <<mutex, segmentsLock, segMutex, registered, stored, list, worker, fetch>>

\* The chunk has come in the meantime, or the entry has expired: PIT_exact_match returns NULL, which is used.
Crash ==
    /\ pc = "lockHit" /\ mutex[Current] = NoThread
    /\ ~Matches(Current)
    /\ pitLock' = NoThread
    /\ Goto("crashed")
    /\ UNCHANGED <<mutex, segmentsLock, segMutex, table, registered, stored, list, worker, fetch>>

AppendHit ==
    /\ pc = "appendHit" /\ segMutex = NoThread
    /\ list' = Append(list, Current)
    /\ current' = current + 1
    /\ Goto("fill")
    /\ UNCHANGED <<locks, table, registered, stored, worker, tx, window, placeOf, taken, control, file, received>>
-----------------------------------------------------------------------------
(* waits for chunks unless there are some, and copies those there are,     *)

Wait ==
    /\ pc = "collect" /\ segMutex = NoThread /\ list = <<>>
    /\ Goto("wait")
    /\ UNCHANGED <<locks, table, registered, stored, list, worker, fetch>>

\* By the signal or by the time.
WakeUp ==
    /\ pc = "wait" /\ segMutex = NoThread
    /\ Goto("resend")
    /\ UNCHANGED <<locks, table, registered, stored, list, worker, fetch>>

Collect ==
    /\ pc = "collect" /\ segMutex = NoThread /\ list # <<>>
    /\ segMutex' = Retriever
    /\ Goto("take")
    /\ UNCHANGED <<pitLock, mutex, segmentsLock, table, registered, stored, list, worker, fetch>>

\* Mutant of ChunkIn: the chunk that is requested next.
ChunkInCurrent(i) == IF current < NumChunks THEN current ELSE window[i].chunk
ChunkIn(i) == window[i].chunk

\* The chunk is copied to its place, and the first half of PIT_release.
Take ==
    LET s == Head(list)
        c == ChunkIn(placeOf[s])
    IN  /\ pc = "take" /\ list # <<>> /\ mutex[s] = NoThread
        /\ file' = [file EXCEPT ![c] = table[s].obj]
        /\ table' = [table EXCEPT ![s].expired = TRUE]
        /\ list' = Tail(list)
        /\ taken' = placeOf[s]
        /\ placeOf' = [placeOf EXCEPT ![s] = None]
        /\ Goto("release")
        /\ UNCHANGED <<locks, registered, stored, worker, current, tx, window, control, received>>

\* Mutant of ClearedEntry: the entry stays valid.
ClearedEntryValid(entry) == [entry EXCEPT !.obj = None]
ClearedEntry(entry) == EmptyEntry

\* The second half of PIT_release, with the segment locked; the window grows by one for every chunk.
Release ==
    LET s == window[taken].slot IN
    /\ pc = "release" /\ pitLock = NoThread
    /\ table' = [table EXCEPT ![s] = ClearedEntry(@)]
    /\ window' = [window EXCEPT ![taken] = FreePlace]
    /\ received' = received \cup {window[taken].chunk}
    /\ taken' = 0
    /\ cwnd' = cwnd + 1
    /\ fulfilled' = IF avoiding THEN fulfilled + 1 ELSE fulfilled
    /\ Goto("take")
    /\ UNCHANGED <<locks, registered, stored, list, worker, current, tx, placeOf, ssthresh, avoiding, file>>

Collected ==
    /\ pc = "take" /\ list = <<>>
    /\ segMutex' = NoThread
    /\ Goto("resend")
    /\ UNCHANGED <<pitLock, mutex, segmentsLock, table, registered, stored, list, worker, fetch>>
-----------------------------------------------------------------------------
(* and sends again, place by place, what was sent long ago.                *)

Waiting == {i \in Places : window[i] # FreePlace}

\* Mutant of Refreshed: PIT_refresh is forgotten.
RefreshedNot(entry) == entry
Refreshed(entry) == [entry EXCEPT !.expired = FALSE]

\* PIT_refresh and the interest; the window is closed.
Resend(i) ==
    /\ pc = "resend" /\ i \in Waiting /\ mutex[window[i].slot] = NoThread
    /\ table' = [table EXCEPT ![window[i].slot] = Refreshed(@)]
    /\ ssthresh' = (cwnd \div 2) + 1 /\ cwnd' = 1 /\ avoiding' = FALSE
    /\ UNCHANGED <<locks, registered, stored, list, worker, pc, current, tx, window, placeOf, taken, fulfilled,
                   file, received>>

Capped(n) == Min({n, MaxWindow})

\* The end of a round of the loop.
EndRound ==
    LET avoids == avoiding \/ cwnd >= ssthresh
        done == IF avoids THEN fulfilled ELSE 0
        grown == IF avoids /\ done = cwnd THEN cwnd + 1 ELSE cwnd
    IN  /\ pc = "resend" /\ \A i \in Waiting : mutex[window[i].slot] = NoThread
        /\ avoiding' = avoids
        /\ fulfilled' = IF avoids /\ done = cwnd THEN 0 ELSE done
        /\ cwnd' = Capped(grown)
        /\ Goto("round")
        /\ UNCHANGED <<locks, table, registered, stored, list, worker, current, tx, window, placeOf, taken, ssthresh,
                       file, received>>

\* ccnudnl_unreg_segment, after which the segment's mutex and condition are destroyed.
Finish ==
    /\ pc = "round" /\ Complete
    /\ segmentsLock = NoThread
    /\ registered' = FALSE
    /\ Goto("done")
    /\ UNCHANGED <<locks, table, stored, list, worker, fetch>>

\* An entry's lifetime ends.
Expire(s) ==
    /\ table[s].valid /\ ~table[s].expired
    /\ table' = [table EXCEPT ![s].expired = TRUE]
    /\ UNCHANGED <<locks, registered, stored, list, worker, pc, fetch>>
-----------------------------------------------------------------------------
WorkerStep(w) ==
    SearchMiss(w) \/ SearchHit(w) \/ MatchFails(w) \/ MatchSucceeds(w) \/ Put(w) \/ MatchSegment(w)
        \/ LockSegment(w) \/ HandOver(w)
\* ccnfd's retrieve_segment takes the same steps.
RequestStep == Register \/ Round \/ FilledUp \/ GetHandle \/ SendInterest \/ Hit \/ FillFromStore \/ Crash \/ AppendHit
CollectStep == Wait \/ WakeUp \/ Collect \/ Take \/ Release \/ Collected \/ EndRound \/ Finish
RetrieverStep == RequestStep \/ CollectStep

Next ==
    \/ \E w \in Workers : WorkerStep(w) \/ \E c \in Chunks : Deliver(w, c)
    \/ RetrieverStep
    \/ \E i \in Places : Resend(i)
    \/ \E s \in Slots : Expire(s)

\* The threads run, and retrieve_segment gets a mutex that becomes free again and again; what is asked for
\* again and again is answered again and again, and an interest that is old is in the end found to be.
Fairness ==
    /\ \A w \in Workers : WF_vars(WorkerStep(w))
    /\ SF_vars(RetrieverStep)
    /\ \A i \in Places : SF_vars(Resend(i))
    /\ \A c \in Chunks : SF_vars(\E w \in Workers : Deliver(w, c))

Spec == Init /\ [][Next]_vars /\ Fairness
-----------------------------------------------------------------------------
(* Properties.                                                             *)

\* Each requested chunk has one place and one entry, that of its name, and no entry is without a place, so
\* that data find the chunk they are for (chunk_window, _pit_handles and pit_to_chunk agree).
WindowInv ==
    /\ \A i \in Waiting :
          LET s == window[i].slot IN
          /\ s \in Slots /\ window[i].chunk \in Chunks
          /\ table[s].valid /\ table[s].chunk = window[i].chunk
          /\ window[i].chunk \notin received
          /\ i # taken => placeOf[s] = i
    /\ \A s \in Slots : table[s].valid => \E i \in Waiting : window[i].slot = s
    /\ \A i, j \in Waiting : i # j => window[i].slot # window[j].slot /\ window[i].chunk # window[j].chunk

Holders(s) == {w \in Workers : worker[w].slot = s /\ worker[w].at \notin {"search", "lockEntry"}}

\* Where a thread is tells what it holds.
LocksInv ==
    /\ \A w \in Workers : worker[w].at = "lockEntry" <=> pitLock = w
    /\ pitLock = Retriever <=> pc = "lockHit"
    /\ \A w \in Workers : worker[w].at = "lockSegment" <=> segmentsLock = w
    /\ segmentsLock # Retriever
    /\ \A w \in Workers : worker[w].at = "append" <=> segMutex = w
    /\ segMutex = Retriever <=> pc \in {"take", "release"}
    /\ \A s \in Slots, w \in Workers : mutex[s] = w <=> w \in Holders(s)

\* A thread of the pipeline has the entry of the chunk it received.
WorkersInv ==
    \A w \in Workers :
        /\ worker[w].at = "idle" <=> worker[w].chunk = None
        /\ worker[w].at \in {"idle", "search"} <=> worker[w].slot = 0
        /\ worker[w].slot # 0 =>
              LET entry == table[worker[w].slot] IN
              /\ entry.valid /\ entry.chunk = worker[w].chunk
              /\ worker[w].at # "lockEntry" => ~entry.available
              /\ worker[w].at \notin {"lockEntry", "put"} => entry.obj = entry.chunk

Handed(s) == \E i \in DOMAIN list : list[i] = s
OfHit(s) == pc = "appendHit" /\ table[s].chunk = current
OfTaken(s) == taken # 0 /\ window[taken].slot = s

\* An entry is free, or wants its chunk, or has been matched; then it is with a thread, or found in the
\* store, or handed over, or taken, with its chunk.
EntriesInv ==
    /\ \A s \in Slots :
          /\ ~table[s].valid => table[s] = EmptyEntry
          /\ table[s].valid => table[s].chunk # None /\ table[s].obj \in {None, table[s].chunk}
          /\ Handed(s) \/ OfHit(s) \/ OfTaken(s) =>
                /\ table[s].valid /\ ~table[s].available
                /\ table[s].obj = table[s].chunk /\ Holders(s) = {}
          /\ Handed(s) => ~OfHit(s) /\ ~OfTaken(s)
    /\ \A i, j \in DOMAIN list : i # j => list[i] # list[j]

\* What has been asked for is waited for or received, and chunk 0 comes before any other.
CourseInv ==
    /\ registered <=> pc \notin {"register", "done"}
    /\ pc = "register" => Waiting = {}
    /\ pc = "done" => received = Chunks
    /\ pc \in {"look", "lockHit", "appendHit"} =>
          tx > 0 /\ current < NumChunks /\ \E i \in Waiting : window[i].chunk = current
    /\ \A i \in Waiting :
          /\ window[i].chunk <= current
          /\ window[i].chunk = current => pc \in {"look", "lockHit", "appendHit", "crashed"}
    /\ \A c \in received : c < current
    /\ \A c \in 0..(current - 1) : c \in received \/ \E i \in Waiting : window[i].chunk = c
    /\ taken # 0 <=> pc = "release"
    /\ taken # 0 => taken \in Waiting /\ file[window[taken].chunk] = window[taken].chunk
    /\ cwnd <= MaxWindow + Cardinality(received) /\ fulfilled <= Cardinality(received)
    /\ pc \notin {"take", "release", "resend"} => cwnd <= MaxWindow
    /\ 0 \notin received => received = {} /\ cwnd = 1 /\ \A i \in Waiting : i = 1 /\ window[i].chunk = 0

\* The window, the table, the list and the threads agree in every state.
FetchInv == TypeOK /\ WindowInv /\ LocksInv /\ WorkersInv /\ EntriesInv /\ CourseInv

\* An entry is handed over once and not touched by a thread of the pipeline any more: data that come twice
\* are never copied into a place that has been used again (the log_asserts of retrieve_segment).
HandedOnce ==
    /\ \A i, j \in DOMAIN list : i # j => list[i] # list[j]
    /\ \A s \in Slots : Cardinality(Holders(s)) <= 1
    /\ \A i \in DOMAIN list :
          LET s == list[i] IN
          Holders(s) = {} /\ placeOf[s] \in Waiting /\ table[s].obj = table[s].chunk

\* What is returned holds every chunk at its own place; chunk 0, whose size says where the
\* others go, is copied before any other is asked for.
FileRight ==
    /\ \A c \in received : file[c] = c
    /\ \A i \in Waiting : window[i].chunk # 0 => 0 \in received

\* While a thread of the pipeline uses the segment, which is on retrieve_segment's stack, it is there.
SegmentAlive ==
    \A w \in Workers : worker[w].at \in {"match", "lockSegment", "append"} => registered

\* A retrieval that ends leaves no entry in the table, nothing handed over and nothing locked.
EntriesReturned ==
    pc = "done" => /\ list = <<>> /\ \A s \in Slots : ~table[s].valid
                   /\ segMutex = NoThread /\ \A s \in Slots : mutex[s] = NoThread

\* A thread of the pipeline waits for a mutex that is locked,
WorkerWaits(w) ==
    \/ worker[w].at = "search" /\ pitLock # NoThread
    \/ worker[w].at = "lockEntry" /\ mutex[worker[w].slot] # NoThread
    \/ worker[w].at = "match" /\ segmentsLock # NoThread
    \/ worker[w].at = "lockSegment" /\ segMutex # NoThread

\* or retrieve_segment is where it may have to.
RetrieverWaits ==
    \/ pc \in {"register", "round"} /\ segmentsLock # NoThread
    \/ pc = "fill" /\ (pitLock # NoThread \/ \E s \in FreeSlots : mutex[s] # NoThread)
    \/ pc \in {"look", "release"} /\ pitLock # NoThread
    \/ pc = "lockHit" /\ mutex[Current] # NoThread
    \/ pc \in {"appendHit", "collect", "wait"} /\ segMutex # NoThread
    \/ pc = "take" /\ list # <<>> /\ mutex[Head(list)] # NoThread
    \/ pc = "resend" /\ \E i \in Waiting : mutex[window[i].slot] # NoThread

\* Somebody waits and nobody has anything else to do.
Standstill ==
    /\ RetrieverWaits \/ pc \in {"done", "crashed"}
    /\ \A w \in Workers : WorkerWaits(w) \/ worker[w].at = "idle"
    /\ RetrieverWaits \/ \E w \in Workers : WorkerWaits(w)

\* retrieve_segment waits for the table in PIT_release with the segment locked, a thread for an entry with
\* the table locked, and the thread that has the entry for the segment, or for the list of segments which
\* the one that waits for the segment has locked.
Circle ==
    /\ pc = "release" /\ pitLock \in Workers
    /\ \E w \in Workers :
          /\ mutex[worker[pitLock].slot] = w
          /\ \/ worker[w].at = "lockSegment"
             \/ worker[w].at = "match" /\ segmentsLock # NoThread

\* The order in which the four kinds of mutex are locked can bring the threads to a standstill in one way.
StopsInCircle == Standstill => Circle

\* The segment is there for the threads that use it, nothing but the circle stops them, and nothing is
\* left behind for the next retrieval.
SegmentInv == SegmentAlive /\ StopsInCircle /\ EntriesReturned

\* "The only danger" of a release "is searching the pit and finding this entry" (ccnud_pit.c).
OnlyDanger == ~Circle

\* Once closed the circle stays: no timeout and no later packet opens it.
CircleStays == [][Circle => Circle']_vars

Timely == <>[][~\E s \in Slots : Expire(s)]_vars

\* Every retrieval ends once answers come within the lifetime of an entry, but for the circle and the crash.
Fetches == Timely => <>(pc \in {"done", "crashed"} \/ Circle)
=============================================================================
