-------------------------- MODULE SegmentFetchProofs --------------------------
(***************************************************************************)
(* FetchInv is inductive, and what SegmentFetch says of the list, the file *)
(* and the segment follows from it.  There is a lemma for every action,    *)
(* with a step for every part of FetchInv the action can disturb; the      *)
(* facts they share come first: what a change of one thread, of one entry  *)
(* or of the list leaves of the parts that speak about all of them.        *)
(***************************************************************************)
EXTENDS SegmentFetch, FiniteSetTheorems, WellFoundedInduction, TLAPS

\* A set of numbers has a least one: the intervals below its elements are finite sets, among which one
\* is contained in no other.
LEMMA LeastOne ==
  ASSUME NEW S \in SUBSET Nat, S # {}
  PROVE  Min(S) \in S /\ \A y \in S : Min(S) <= y
<1> DEFINE Below(x) == 0..(x - 1)
           T == {Below(x) : x \in S}
<1>1. T \subseteq FiniteSubsetsOf(Nat) /\ T # {}
  <2>1. \A x \in S : Below(x) \subseteq Nat /\ IsFiniteSet(Below(x))
    BY FS_Interval
  <2>2. QED
    BY <2>1 DEF FiniteSubsetsOf
<1>2. PICK t \in T : \A u \in T : ~(<<u, t>> \in StrictSubsetOrdering(Nat))
  BY <1>1, FS_StrictSubsetOrderingWellFounded, WFMin
<1>3. PICK x \in S : t = Below(x)
  BY <1>2
<1>4. ASSUME NEW y \in S
      PROVE  x <= y
  <2> SUFFICES ASSUME y < x
               PROVE  FALSE
    OBVIOUS
  <2>1. Below(y) \subseteq Below(x) /\ y \in Below(x) /\ y \notin Below(y)
    OBVIOUS
  <2>2. Below(y) \in SUBSET Nat /\ Below(x) \in SUBSET Nat /\ Below(y) # Below(x)
    BY <2>1
  <2>3. <<Below(y), Below(x)>> \in StrictSubsetOrdering(Nat)
    BY <2>1, <2>2 DEF StrictSubsetOrdering
  <2>4. QED
    BY <1>2, <1>3, <2>3
<1>5. QED
  BY <1>4 DEF Min

\* What Append, Head and Tail give.
LEMMA SeqFacts ==
  ASSUME NEW S, NEW q \in Seq(S), NEW e \in S
  PROVE  /\ Append(q, e) \in Seq(S) /\ Len(Append(q, e)) = Len(q) + 1
         /\ DOMAIN q = 1..Len(q) /\ Len(q) \in Nat
         /\ \A i \in 1..Len(q) : Append(q, e)[i] = q[i]
         /\ Append(q, e)[Len(q) + 1] = e
         /\ q # <<>> => /\ Head(q) = q[1] /\ Head(q) \in S
                        /\ Tail(q) \in Seq(S) /\ Len(Tail(q)) = Len(q) - 1
                        /\ Len(q) > 0
                        /\ \A i \in 1..(Len(q) - 1) : Tail(q)[i] = q[i + 1]
  OBVIOUS

-----------------------------------------------------------------------------
(* Threads of the pipeline.                                                *)

Labels == {"idle", "search", "lockEntry", "put", "match", "lockSegment", "append"}
Entry == [valid : BOOLEAN, chunk : Chunks \cup {None}, obj : Chunks \cup {None},
          expired : BOOLEAN, available : BOOLEAN]

\* A thread goes to another place: which thread has which entry.
LEMMA WorkerMoves ==
  ASSUME TypeOK, NEW w \in Workers, NEW a \in Labels, NEW c \in Chunks \cup {None},
         NEW s \in Slots \cup {0},
         worker' = [worker EXCEPT ![w] = [at |-> a, chunk |-> c, slot |-> s]]
  PROVE  /\ worker' \in [Workers -> [at : Labels, chunk : Chunks \cup {None}, slot : Slots \cup {0}]]
         /\ worker'[w].at = a /\ worker'[w].chunk = c /\ worker'[w].slot = s
         /\ \A v \in Workers : v # w => worker'[v] = worker[v]
         /\ \A x \in Slots :
               Holders(x)' = IF x = s /\ a \notin {"search", "lockEntry"}
                             THEN Holders(x) \cup {w} ELSE Holders(x) \ {w}
<1>1. worker' \in [Workers -> [at : Labels, chunk : Chunks \cup {None}, slot : Slots \cup {0}]]
  BY DEF TypeOK, Labels
<1>2. worker'[w] = [at |-> a, chunk |-> c, slot |-> s] /\ \A v \in Workers : v # w => worker'[v] = worker[v]
  BY DEF TypeOK
<1>3. worker'[w].at = a /\ worker'[w].chunk = c /\ worker'[w].slot = s
  BY <1>2
<1>4. \A x \in Slots :
         Holders(x)' = IF x = s /\ a \notin {"search", "lockEntry"}
                       THEN Holders(x) \cup {w} ELSE Holders(x) \ {w}
  BY <1>2, <1>3 DEF Holders
<1>5. QED
  BY <1>1, <1>2, <1>3, <1>4

\* It goes on with the chunk and the entry it has.
LEMMA WorkerGoes ==
  ASSUME TypeOK, NEW w \in Workers, NEW a \in Labels, At(w, a)
  PROVE  /\ worker' \in [Workers -> [at : Labels, chunk : Chunks \cup {None}, slot : Slots \cup {0}]]
         /\ worker'[w].at = a /\ worker'[w].chunk = worker[w].chunk
         /\ worker'[w].slot = worker[w].slot
         /\ \A v \in Workers : v # w => worker'[v] = worker[v]
         /\ \A x \in Slots :
               Holders(x)' = IF x = worker[w].slot /\ a \notin {"search", "lockEntry"}
                             THEN Holders(x) \cup {w} ELSE Holders(x) \ {w}
<1>1. worker[w] \in [at : Labels, chunk : Chunks \cup {None}, slot : Slots \cup {0}]
  BY DEF TypeOK, Labels
<1>2. [worker[w] EXCEPT !.at = a] = [at |-> a, chunk |-> worker[w].chunk, slot |-> worker[w].slot]
  BY <1>1
<1>3. worker' = [worker EXCEPT ![w] =
                   [at |-> a, chunk |-> worker[w].chunk, slot |-> worker[w].slot]]
  BY <1>2 DEF At
<1>4. worker[w].chunk \in Chunks \cup {None} /\ worker[w].slot \in Slots \cup {0}
  BY <1>1
<1> DEFINE c == worker[w].chunk
           s == worker[w].slot
<1>5. /\ c \in Chunks \cup {None} /\ s \in Slots \cup {0}
      /\ worker' = [worker EXCEPT ![w] = [at |-> a, chunk |-> c, slot |-> s]]
  BY <1>3, <1>4
<1> HIDE DEF c, s
<1>6. /\ worker' \in [Workers -> [at : Labels, chunk : Chunks \cup {None}, slot : Slots \cup {0}]]
      /\ worker'[w].at = a /\ worker'[w].chunk = c /\ worker'[w].slot = s
      /\ \A v \in Workers : v # w => worker'[v] = worker[v]
      /\ \A x \in Slots :
            Holders(x)' = IF x = s /\ a \notin {"search", "lockEntry"}
                          THEN Holders(x) \cup {w} ELSE Holders(x) \ {w}
  BY <1>5, WorkerMoves
<1>7. QED
  BY <1>6 DEF c, s

\* It is done, and has no entry any more.
LEMMA WorkerRests ==
  ASSUME TypeOK, NEW w \in Workers, Rest(w)
  PROVE  /\ worker' \in [Workers -> [at : Labels, chunk : Chunks \cup {None}, slot : Slots \cup {0}]]
         /\ worker'[w].at = "idle" /\ worker'[w].chunk = None /\ worker'[w].slot = 0
         /\ \A v \in Workers : v # w => worker'[v] = worker[v]
         /\ \A x \in Slots : Holders(x)' = Holders(x) \ {w}
<1>1. "idle" \in Labels /\ None \in Chunks \cup {None} /\ 0 \in Slots \cup {0}
  BY DEF Labels
<1>2. worker' = [worker EXCEPT ![w] = [at |-> "idle", chunk |-> None, slot |-> 0]]
  BY DEF Rest, Idle
<1>3. \A x \in Slots : x # 0
  BY FetchAssumption DEF Slots
<1>4. QED
  BY <1>1, <1>2, <1>3, WorkerMoves

\* An entry changes.
LEMMA EntryChanges ==
  ASSUME TypeOK, NEW s \in Slots, NEW e \in Entry, table' = [table EXCEPT ![s] = e]
  PROVE  /\ table' \in [Slots -> Entry] /\ table'[s] = e
         /\ \A x \in Slots : x # s => table'[x] = table[x]
  BY DEF TypeOK, Entry

\* A chunk comes, asked for or not: the thread has no entry yet.
LEMMA DeliverInv ==
  ASSUME FetchInv, NEW w \in Workers, NEW c \in Chunks, Deliver(w, c)
  PROVE  FetchInv'
<1>1. /\ worker[w].at = "idle"
      /\ worker' = [worker EXCEPT ![w] = [at |-> "search", chunk |-> c, slot |-> 0]]
      /\ UNCHANGED <<pitLock, mutex, segmentsLock, segMutex, table, registered, stored, list, pc,
                     current, tx, window, placeOf, taken, cwnd, ssthresh, avoiding, fulfilled,
                     file, received>>
  BY DEF Deliver, locks, fetch, control
<1>2. /\ worker' \in [Workers -> [at : Labels, chunk : Chunks \cup {None}, slot : Slots \cup {0}]]
      /\ worker'[w].at = "search" /\ worker'[w].chunk = c /\ worker'[w].slot = 0
      /\ \A v \in Workers : v # w => worker'[v] = worker[v]
      /\ \A x \in Slots : Holders(x)' = Holders(x) \ {w}
  BY <1>1, WorkerMoves DEF FetchInv, Labels
<1>3. \A x \in Slots : Holders(x)' = Holders(x)
  <2>1. worker[w].slot = 0
    BY <1>1 DEF FetchInv, WorkersInv
  <2>2. QED
    BY <1>2, <2>1, FetchAssumption DEF Holders, Slots
<1>4. TypeOK'
  BY <1>1, <1>2 DEF FetchInv, TypeOK, Labels
<1>5. WindowInv' /\ CourseInv'
  BY <1>1 DEF FetchInv, WindowInv, CourseInv, Waiting
<1>6. LocksInv'
  BY <1>1, <1>2, <1>3 DEF FetchInv, LocksInv
<1>7. WorkersInv'
  BY <1>1, <1>2 DEF FetchInv, WorkersInv, Chunks, None
<1>8. EntriesInv'
  BY <1>1, <1>3 DEF FetchInv, EntriesInv, Handed, OfHit, OfTaken
<1>9. QED
  BY <1>4, <1>5, <1>6, <1>7, <1>8 DEF FetchInv

LEMMA SearchMissInv ==
  ASSUME FetchInv, NEW w \in Workers, SearchMiss(w)
  PROVE  FetchInv'
<1>1. /\ worker[w].at = "search" /\ Rest(w)
      /\ UNCHANGED <<pitLock, mutex, segmentsLock, segMutex, table, registered, stored, list, pc,
                     current, tx, window, placeOf, taken, cwnd, ssthresh, avoiding, fulfilled,
                     file, received>>
  BY DEF SearchMiss, locks, fetch, control
<1>2. /\ worker' \in [Workers -> [at : Labels, chunk : Chunks \cup {None}, slot : Slots \cup {0}]]
      /\ worker'[w].at = "idle" /\ worker'[w].chunk = None /\ worker'[w].slot = 0
      /\ \A v \in Workers : v # w => worker'[v] = worker[v]
      /\ \A x \in Slots : Holders(x)' = Holders(x) \ {w}
  BY <1>1, WorkerRests DEF FetchInv
<1>3. \A x \in Slots : Holders(x)' = Holders(x)
  BY <1>1, <1>2 DEF Holders
<1>4. TypeOK'
  BY <1>1, <1>2 DEF FetchInv, TypeOK, Labels
<1>5. WindowInv' /\ CourseInv'
  BY <1>1 DEF FetchInv, WindowInv, CourseInv, Waiting
<1>6. LocksInv'
  BY <1>1, <1>2, <1>3 DEF FetchInv, LocksInv
<1>7. WorkersInv'
  BY <1>1, <1>2 DEF FetchInv, WorkersInv
<1>8. EntriesInv'
  BY <1>1, <1>3 DEF FetchInv, EntriesInv, Handed, OfHit, OfTaken
<1>9. QED
  BY <1>4, <1>5, <1>6, <1>7, <1>8 DEF FetchInv

\* The entries with a name are there, and the first of them is one.
LEMMA FirstEntry ==
  ASSUME NEW c, EntriesOf(c) # {}
  PROVE  /\ Min(EntriesOf(c)) \in Slots
         /\ table[Min(EntriesOf(c))].valid /\ table[Min(EntriesOf(c))].chunk = c
<1>1. EntriesOf(c) \in SUBSET Nat
  BY FetchAssumption DEF EntriesOf, Slots
<1>2. Min(EntriesOf(c)) \in EntriesOf(c)
  BY <1>1, LeastOne
<1>3. QED
  BY <1>2 DEF EntriesOf

LEMMA SearchHitInv ==
  ASSUME FetchInv, NEW w \in Workers, SearchHit(w)
  PROVE  FetchInv'
<1> DEFINE c == worker[w].chunk
           s == Min(EntriesOf(c))
<1>1. /\ worker[w].at = "search" /\ EntriesOf(c) # {}
      /\ pitLock = NoThread /\ pitLock' = w
      /\ worker' = [worker EXCEPT ![w] = [at |-> "lockEntry", chunk |-> c, slot |-> s]]
      /\ UNCHANGED <<mutex, segmentsLock, segMutex, table, registered, stored, list, pc,
                     current, tx, window, placeOf, taken, cwnd, ssthresh, avoiding, fulfilled,
                     file, received>>
  BY DEF SearchHit, fetch, control
<1>2. s \in Slots /\ table[s].valid /\ table[s].chunk = c
  BY <1>1, FirstEntry
<1>3. worker[w] \in [at : Labels, chunk : Chunks \cup {None}, slot : Slots \cup {0}]
  BY DEF FetchInv, TypeOK, Labels
<1> HIDE DEF s
<1>5. /\ worker' \in [Workers -> [at : Labels, chunk : Chunks \cup {None}, slot : Slots \cup {0}]]
      /\ worker'[w].at = "lockEntry" /\ worker'[w].chunk = c /\ worker'[w].slot = s
      /\ \A v \in Workers : v # w => worker'[v] = worker[v]
      /\ \A x \in Slots : Holders(x)' = Holders(x) \ {w}
  <2>1. "lockEntry" \in Labels /\ c \in Chunks \cup {None} /\ s \in Slots \cup {0} /\ TypeOK
    BY <1>2, <1>3 DEF Labels, FetchInv
  <2>2. worker' = [worker EXCEPT ![w] = [at |-> "lockEntry", chunk |-> c, slot |-> s]]
    BY <1>1
  <2>3. QED
    BY <2>1, <2>2, WorkerMoves
<1>6. \A x \in Slots : Holders(x)' = Holders(x)
  BY <1>1, <1>5 DEF Holders
<1>7. TypeOK'
  BY <1>1, <1>5 DEF FetchInv, TypeOK, Labels
<1>8. WindowInv' /\ CourseInv'
  BY <1>1 DEF FetchInv, WindowInv, CourseInv, Waiting
<1>9. LocksInv'
  BY <1>1, <1>5, <1>6, FetchAssumption DEF FetchInv, LocksInv
<1>10. WorkersInv'
  <2>1. s # 0 /\ c # None
    BY <1>1, <1>2, FetchAssumption DEF FetchInv, WorkersInv, Slots
  <2>2. QED
    BY <1>1, <1>2, <1>5, <2>1 DEF FetchInv, WorkersInv
<1>11. EntriesInv'
  BY <1>1, <1>6 DEF FetchInv, EntriesInv, Handed, OfHit, OfTaken
<1>12. QED
  BY <1>7, <1>8, <1>9, <1>10, <1>11 DEF FetchInv

LEMMA MatchFailsInv ==
  ASSUME FetchInv, NEW w \in Workers, MatchFails(w)
  PROVE  FetchInv'
<1>1. /\ worker[w].at = "lockEntry" /\ Rest(w) /\ pitLock' = NoThread
      /\ UNCHANGED <<mutex, segmentsLock, segMutex, table, registered, stored, list, pc,
                     current, tx, window, placeOf, taken, cwnd, ssthresh, avoiding, fulfilled,
                     file, received>>
  BY DEF MatchFails, fetch, control
<1>2. /\ worker' \in [Workers -> [at : Labels, chunk : Chunks \cup {None}, slot : Slots \cup {0}]]
      /\ worker'[w].at = "idle" /\ worker'[w].chunk = None /\ worker'[w].slot = 0
      /\ \A v \in Workers : v # w => worker'[v] = worker[v]
      /\ \A x \in Slots : Holders(x)' = Holders(x) \ {w}
  BY <1>1, WorkerRests DEF FetchInv
<1>3. \A x \in Slots : Holders(x)' = Holders(x)
  BY <1>1, <1>2 DEF Holders
<1>4. TypeOK'
  BY <1>1, <1>2 DEF FetchInv, TypeOK, Labels
<1>5. WindowInv' /\ CourseInv'
  BY <1>1 DEF FetchInv, WindowInv, CourseInv, Waiting
<1>6. LocksInv'
  BY <1>1, <1>2, <1>3, FetchAssumption DEF FetchInv, LocksInv
<1>7. WorkersInv'
  BY <1>1, <1>2 DEF FetchInv, WorkersInv
<1>8. EntriesInv'
  BY <1>1, <1>3 DEF FetchInv, EntriesInv, Handed, OfHit, OfTaken
<1>9. QED
  BY <1>4, <1>5, <1>6, <1>7, <1>8 DEF FetchInv

LEMMA MatchSucceedsInv ==
  ASSUME FetchInv, NEW w \in Workers, MatchSucceeds(w)
  PROVE  FetchInv'
<1> DEFINE s == worker[w].slot
<1>1. /\ worker[w].at = "lockEntry" /\ mutex[s] = NoThread /\ table[s].available
      /\ mutex' = [mutex EXCEPT ![s] = w] /\ pitLock' = NoThread
      /\ table' = [table EXCEPT ![s].available = FALSE] /\ At(w, "put")
      /\ UNCHANGED <<segmentsLock, segMutex, registered, stored, list, pc,
                     current, tx, window, placeOf, taken, cwnd, ssthresh, avoiding, fulfilled,
                     file, received>>
  BY DEF MatchSucceeds, Matches, fetch, control
<1>2. /\ worker' \in [Workers -> [at : Labels, chunk : Chunks \cup {None}, slot : Slots \cup {0}]]
      /\ worker'[w].at = "put" /\ worker'[w].chunk = worker[w].chunk
      /\ worker'[w].slot = worker[w].slot
      /\ \A v \in Workers : v # w => worker'[v] = worker[v]
      /\ \A x \in Slots : Holders(x)' = IF x = worker[w].slot
                                        THEN Holders(x) \cup {w} ELSE Holders(x) \ {w}
  <2>1. TypeOK /\ "put" \in Labels
    BY DEF FetchInv, Labels
  <2>2. QED
    BY <1>1, <2>1, WorkerGoes
<1>3. s \in Slots /\ s # 0
  BY <1>1, FetchAssumption DEF FetchInv, TypeOK, WorkersInv, Slots
<1>4. table[s].valid /\ table[s].chunk = worker[w].chunk /\ table[s] \in Entry
  BY <1>3 DEF FetchInv, WorkersInv, TypeOK, Entry
<1>5. /\ table' \in [Slots -> Entry]
      /\ table'[s] = [table[s] EXCEPT !.available = FALSE]
      /\ \A x \in Slots : x # s => table'[x] = table[x]
  <2>1. [table[s] EXCEPT !.available = FALSE] \in Entry
    BY <1>4 DEF Entry
  <2>2. table' = [table EXCEPT ![s] = [table[s] EXCEPT !.available = FALSE]]
    BY <1>1
  <2>3. QED
    BY <1>3, <2>1, <2>2, EntryChanges DEF FetchInv
<1>6. /\ table'[s].valid = table[s].valid /\ table'[s].chunk = table[s].chunk
      /\ table'[s].obj = table[s].obj /\ ~table'[s].available
  BY <1>4, <1>5 DEF Entry
<1>7. Holders(s) = {}
  BY <1>1, <1>3, FetchAssumption DEF FetchInv, LocksInv, Holders
<1>8. \A v \in Workers : v # w => worker[v].slot # s
  BY <1>1, <1>3, <1>7 DEF FetchInv, LocksInv, WorkersInv, Holders
<1>9. \A x \in Slots : mutex'[x] = IF x = s THEN w ELSE mutex[x]
  BY <1>1, <1>3 DEF FetchInv, TypeOK
<1> HIDE DEF s
<1>10. TypeOK'
  BY <1>1, <1>2, <1>5, <1>9 DEF FetchInv, TypeOK, Labels, Entry
<1>11. WindowInv' /\ CourseInv'
  <2>1. \A x \in Slots : table'[x].valid = table[x].valid /\ table'[x].chunk = table[x].chunk
    BY <1>5, <1>6
  <2>2. WindowInv'
    BY <1>1, <2>1 DEF FetchInv, WindowInv, Waiting
  <2>3. CourseInv'
    BY <1>1 DEF FetchInv, CourseInv, Waiting
  <2>4. QED
    BY <2>2, <2>3
<1>12. LocksInv'
  BY <1>1, <1>2, <1>3, <1>7, <1>8, <1>9, FetchAssumption DEF FetchInv, LocksInv, s, Holders
<1>13. WorkersInv'
  <2>1. \A v \in Workers : v # w => table'[worker[v].slot] = table[worker[v].slot]
                                      \/ worker[v].slot = 0
    BY <1>5, <1>8 DEF FetchInv, TypeOK
  <2>2. QED
    BY <1>1, <1>2, <1>3, <1>4, <1>6, <2>1 DEF FetchInv, WorkersInv, s
<1>14. EntriesInv'
  <2>1. ~Handed(s) /\ ~OfHit(s) /\ ~OfTaken(s)
    BY <1>1, <1>3 DEF FetchInv, EntriesInv, s
  <2>2. /\ \A x \in Slots : Handed(x)' = Handed(x) /\ OfTaken(x)' = OfTaken(x)
        /\ \A x \in Slots : OfHit(x)' = OfHit(x)
    BY <1>1, <1>5, <1>6 DEF Handed, OfHit, OfTaken
  <2>3. \A x \in Slots : x # s => Holders(x)' = Holders(x)
    BY <1>2, <1>3 DEF s, Holders
  <2>4. QED
    BY <1>1, <1>3, <1>4, <1>5, <1>6, <2>1, <2>2, <2>3 DEF FetchInv, EntriesInv
<1>15. QED
  BY <1>10, <1>11, <1>12, <1>13, <1>14 DEF FetchInv

LEMMA PutInv ==
  ASSUME FetchInv, NEW w \in Workers, Put(w)
  PROVE  FetchInv'
<1> DEFINE s == worker[w].slot
           e == [table[s] EXCEPT !.obj = IF @ = None THEN worker[w].chunk ELSE @, !.expired = FALSE]
<1>1. /\ worker[w].at = "put" /\ table' = [table EXCEPT ![s] = e] /\ At(w, "match")
      /\ stored' \in {stored, stored \cup ({worker[w].chunk} \cap Cached)}
      /\ UNCHANGED <<pitLock, mutex, segmentsLock, segMutex, registered, list, pc,
                     current, tx, window, placeOf, taken, cwnd, ssthresh, avoiding, fulfilled,
                     file, received>>
  BY DEF Put, locks, fetch, control
<1>2. /\ worker' \in [Workers -> [at : Labels, chunk : Chunks \cup {None}, slot : Slots \cup {0}]]
      /\ worker'[w].at = "match" /\ worker'[w].chunk = worker[w].chunk
      /\ worker'[w].slot = worker[w].slot
      /\ \A v \in Workers : v # w => worker'[v] = worker[v]
      /\ \A x \in Slots : Holders(x)' = IF x = worker[w].slot
                                        THEN Holders(x) \cup {w} ELSE Holders(x) \ {w}
  <2>1. TypeOK /\ "match" \in Labels
    BY DEF FetchInv, Labels
  <2>2. QED
    BY <1>1, <2>1, WorkerGoes
<1>3. s \in Slots /\ s # 0
  BY <1>1, FetchAssumption DEF FetchInv, TypeOK, WorkersInv, Slots
<1>4. /\ table[s].valid /\ table[s].chunk = worker[w].chunk /\ ~table[s].available
      /\ table[s] \in Entry /\ table[s].obj \in {None, table[s].chunk}
      /\ worker[w].chunk \in Chunks
  BY <1>1, <1>3 DEF FetchInv, WorkersInv, EntriesInv, TypeOK, Entry
<1>5. /\ e.valid = table[s].valid /\ e.chunk = table[s].chunk
      /\ e.obj = table[s].chunk /\ e.available = table[s].available /\ ~e.available
      /\ e \in Entry
  BY <1>4 DEF Entry
<1> HIDE DEF e
<1>6. /\ table' \in [Slots -> Entry] /\ table'[s] = e
      /\ \A x \in Slots : x # s => table'[x] = table[x]
  BY <1>1, <1>3, <1>5, EntryChanges DEF FetchInv
<1>7. \A x \in Slots : Holders(x)' = Holders(x)
  BY <1>1, <1>2 DEF Holders
<1> HIDE DEF s
<1>8. TypeOK'
  <2>1. stored' \subseteq Chunks
    BY <1>1, <1>4 DEF FetchInv, TypeOK
  <2>2. QED
    BY <1>1, <1>2, <1>6, <2>1 DEF FetchInv, TypeOK, Labels, Entry
<1>9. WindowInv' /\ CourseInv'
  <2>1. \A x \in Slots : table'[x].valid = table[x].valid /\ table'[x].chunk = table[x].chunk
    BY <1>5, <1>6
  <2>2. WindowInv'
    BY <1>1, <2>1 DEF FetchInv, WindowInv, Waiting
  <2>3. CourseInv'
    BY <1>1 DEF FetchInv, CourseInv, Waiting
  <2>4. QED
    BY <2>2, <2>3
<1>10. LocksInv'
  BY <1>1, <1>2, <1>7 DEF FetchInv, LocksInv
<1>11. WorkersInv'
  <2>1. \A x \in Slots : /\ table'[x].valid = table[x].valid /\ table'[x].chunk = table[x].chunk
                         /\ table'[x].available = table[x].available
                         /\ table[x].obj = table[x].chunk => table'[x].obj = table'[x].chunk
    BY <1>4, <1>5, <1>6
  <2>2. \A v \in Workers : worker[v].slot \in Slots \cup {0}
    BY DEF FetchInv, TypeOK
  <2>3. QED
    BY <1>1, <1>2, <1>3, <1>4, <1>5, <1>6, <2>1, <2>2 DEF FetchInv, WorkersInv, s
<1>12. EntriesInv'
  <2>1. /\ \A x \in Slots : Handed(x)' = Handed(x) /\ OfTaken(x)' = OfTaken(x)
        /\ \A x \in Slots : OfHit(x)' = OfHit(x)
    BY <1>1, <1>5, <1>6 DEF Handed, OfHit, OfTaken
  <2>2. QED
    BY <1>1, <1>3, <1>4, <1>5, <1>6, <1>7, <2>1 DEF FetchInv, EntriesInv
<1>13. QED
  BY <1>8, <1>9, <1>10, <1>11, <1>12 DEF FetchInv

LEMMA MatchSegmentInv ==
  ASSUME FetchInv, NEW w \in Workers, MatchSegment(w)
  PROVE  FetchInv'
<1>1. /\ worker[w].at = "match" /\ At(w, "lockSegment")
      /\ segmentsLock = NoThread /\ segmentsLock' = w
      /\ UNCHANGED <<pitLock, mutex, segMutex, table, registered, stored, list, pc,
                     current, tx, window, placeOf, taken, cwnd, ssthresh, avoiding, fulfilled,
                     file, received>>
  BY DEF MatchSegment, fetch, control
<1>2. /\ worker' \in [Workers -> [at : Labels, chunk : Chunks \cup {None}, slot : Slots \cup {0}]]
      /\ worker'[w].at = "lockSegment" /\ worker'[w].chunk = worker[w].chunk
      /\ worker'[w].slot = worker[w].slot
      /\ \A v \in Workers : v # w => worker'[v] = worker[v]
      /\ \A x \in Slots : Holders(x)' = IF x = worker[w].slot
                                        THEN Holders(x) \cup {w} ELSE Holders(x) \ {w}
  <2>1. TypeOK /\ "lockSegment" \in Labels
    BY DEF FetchInv, Labels
  <2>2. QED
    BY <1>1, <2>1, WorkerGoes
<1>3. \A x \in Slots : Holders(x)' = Holders(x)
  BY <1>1, <1>2 DEF Holders
<1>4. TypeOK'
  BY <1>1, <1>2 DEF FetchInv, TypeOK, Labels
<1>5. WindowInv' /\ CourseInv'
  BY <1>1 DEF FetchInv, WindowInv, CourseInv, Waiting
<1>6. LocksInv'
  BY <1>1, <1>2, <1>3, FetchAssumption DEF FetchInv, LocksInv
<1>7. WorkersInv'
  BY <1>1, <1>2 DEF FetchInv, WorkersInv
<1>8. EntriesInv'
  BY <1>1, <1>3 DEF FetchInv, EntriesInv, Handed, OfHit, OfTaken
<1>9. QED
  BY <1>4, <1>5, <1>6, <1>7, <1>8 DEF FetchInv

LEMMA LockSegmentInv ==
  ASSUME FetchInv, NEW w \in Workers, LockSegment(w)
  PROVE  FetchInv'
<1>1. /\ worker[w].at = "lockSegment" /\ At(w, "append")
      /\ segMutex = NoThread /\ segMutex' = w /\ segmentsLock' = NoThread
      /\ UNCHANGED <<pitLock, mutex, table, registered, stored, list, pc,
                     current, tx, window, placeOf, taken, cwnd, ssthresh, avoiding, fulfilled,
                     file, received>>
  BY DEF LockSegment, fetch, control
<1>2. /\ worker' \in [Workers -> [at : Labels, chunk : Chunks \cup {None}, slot : Slots \cup {0}]]
      /\ worker'[w].at = "append" /\ worker'[w].chunk = worker[w].chunk
      /\ worker'[w].slot = worker[w].slot
      /\ \A v \in Workers : v # w => worker'[v] = worker[v]
      /\ \A x \in Slots : Holders(x)' = IF x = worker[w].slot
                                        THEN Holders(x) \cup {w} ELSE Holders(x) \ {w}
  <2>1. TypeOK /\ "append" \in Labels
    BY DEF FetchInv, Labels
  <2>2. QED
    BY <1>1, <2>1, WorkerGoes
<1>3. \A x \in Slots : Holders(x)' = Holders(x)
  BY <1>1, <1>2 DEF Holders
<1>4. TypeOK'
  BY <1>1, <1>2 DEF FetchInv, TypeOK, Labels
<1>5. WindowInv' /\ CourseInv'
  BY <1>1 DEF FetchInv, WindowInv, CourseInv, Waiting
<1>6. LocksInv'
  BY <1>1, <1>2, <1>3, FetchAssumption DEF FetchInv, LocksInv
<1>7. WorkersInv'
  BY <1>1, <1>2 DEF FetchInv, WorkersInv
<1>8. EntriesInv'
  BY <1>1, <1>3 DEF FetchInv, EntriesInv, Handed, OfHit, OfTaken
<1>9. QED
  BY <1>4, <1>5, <1>6, <1>7, <1>8 DEF FetchInv

\* What is appended to the list is handed over.
LEMMA ListGrows ==
  ASSUME NEW q, NEW S, q \in Seq(S), NEW s \in S, NEW r, r = Append(q, s),
         \A i \in DOMAIN q : q[i] # s, \A i, j \in DOMAIN q : i # j => q[i] # q[j]
  PROVE  /\ r \in Seq(S) /\ Len(r) = Len(q) + 1
         /\ \A i, j \in DOMAIN r : i # j => r[i] # r[j]
         /\ \A x : (\E i \in DOMAIN r : r[i] = x) <=> x = s \/ \E i \in DOMAIN q : q[i] = x
<1>1. /\ r \in Seq(S) /\ Len(r) = Len(q) + 1 /\ Len(q) \in Nat
      /\ DOMAIN q = 1..Len(q) /\ DOMAIN r = 1..(Len(q) + 1)
      /\ \A i \in 1..Len(q) : r[i] = q[i]
      /\ r[Len(q) + 1] = s
  BY SeqFacts
<1>2. \A i \in DOMAIN r : (i \in DOMAIN q /\ r[i] = q[i]) \/ (i = Len(q) + 1 /\ r[i] = s)
  BY <1>1
<1>3. QED
  BY <1>1, <1>2

\* No more entries are handed over than there are chunks: they are of different chunks.
LEMMA ListShort ==
  ASSUME NEW q \in Seq(Slots), NEW f \in [Slots -> Chunks],
         \A i, j \in DOMAIN q : i # j => f[q[i]] # f[q[j]]
  PROVE  Len(q) <= NumChunks
<1> DEFINE g == [i \in 1..Len(q) |-> f[q[i]]]
<1>1. Len(q) \in Nat /\ DOMAIN q = 1..Len(q) /\ \A i \in 1..Len(q) : q[i] \in Slots
  OBVIOUS
<1>2. g \in Injection(1..Len(q), Chunks)
  BY <1>1 DEF Injection, IsInjective
<1>3. IsFiniteSet(Chunks) /\ Cardinality(Chunks) = NumChunks
  BY FS_Interval, FetchAssumption DEF Chunks
<1>4. Cardinality(1..Len(q)) = Len(q)
  <2>1. 1 \in Int /\ Len(q) \in Int
    BY <1>1
  <2>2. Cardinality(1..Len(q)) = IF 1 > Len(q) THEN 0 ELSE Len(q) - 1 + 1
    BY <2>1, FS_Interval
  <2>3. QED
    BY <1>1, <2>2
<1>5. QED
  BY <1>2, <1>3, <1>4, FS_Injection

\* A chunk has one entry at most.
LEMMA OneEntry ==
  ASSUME WindowInv, NEW s \in Slots, NEW t \in Slots, table[s].valid, table[t].valid,
         table[s].chunk = table[t].chunk
  PROVE  s = t
<1>1. PICK i \in Waiting : window[i].slot = s
  BY DEF WindowInv
<1>2. PICK j \in Waiting : window[j].slot = t
  BY DEF WindowInv
<1>3. window[i].chunk = window[j].chunk
  BY <1>1, <1>2 DEF WindowInv
<1>4. QED
  BY <1>1, <1>2, <1>3 DEF WindowInv

\* So that the list has room for all the entries that wait.
LEMMA ListFits ==
  ASSUME TypeOK, WindowInv, EntriesInv, NEW q \in Seq(Slots),
         \A i, j \in DOMAIN q : i # j => q[i] # q[j], \A i \in DOMAIN q : table[q[i]].valid
  PROVE  Len(q) <= NumChunks
<1> DEFINE f == [s \in Slots |-> IF table[s].valid THEN table[s].chunk ELSE 0]
<1>1. f \in [Slots -> Chunks]
  <2>1. 0 \in Chunks
    BY FetchAssumption DEF Chunks
  <2>2. \A s \in Slots : table[s].valid => table[s].chunk \in Chunks
    BY DEF TypeOK, EntriesInv
  <2>3. QED
    BY <2>1, <2>2
<1>2. \A i \in DOMAIN q : q[i] \in Slots /\ f[q[i]] = table[q[i]].chunk
  OBVIOUS
<1>3. \A i, j \in DOMAIN q : i # j => f[q[i]] # f[q[j]]
  BY <1>2, OneEntry
<1> HIDE DEF f
<1>4. QED
  BY <1>1, <1>3, ListShort

LEMMA HandOverInv ==
  ASSUME FetchInv, NEW w \in Workers, HandOver(w)
  PROVE  FetchInv'
<1> DEFINE s == worker[w].slot
<1>1. /\ worker[w].at = "append" /\ Rest(w) /\ segMutex' = NoThread
      /\ mutex' = [mutex EXCEPT ![s] = NoThread] /\ list' = Append(list, s)
      /\ UNCHANGED <<pitLock, segmentsLock, table, registered, stored, pc,
                     current, tx, window, placeOf, taken, cwnd, ssthresh, avoiding, fulfilled,
                     file, received>>
  BY DEF HandOver, fetch, control
<1>2. /\ worker' \in [Workers -> [at : Labels, chunk : Chunks \cup {None}, slot : Slots \cup {0}]]
      /\ worker'[w].at = "idle" /\ worker'[w].chunk = None /\ worker'[w].slot = 0
      /\ \A v \in Workers : v # w => worker'[v] = worker[v]
      /\ \A x \in Slots : Holders(x)' = Holders(x) \ {w}
  BY <1>1, WorkerRests DEF FetchInv
<1>3. s \in Slots /\ s # 0
  BY <1>1, FetchAssumption DEF FetchInv, TypeOK, WorkersInv, Slots
<1>4. table[s].valid /\ ~table[s].available /\ table[s].obj = table[s].chunk
  BY <1>1, <1>3 DEF FetchInv, WorkersInv
<1>5. Holders(s) = {w}
  BY <1>1, <1>3 DEF FetchInv, LocksInv, Holders
<1>6. ~Handed(s) /\ ~OfHit(s) /\ ~OfTaken(s)
  BY <1>3, <1>5 DEF FetchInv, EntriesInv
<1> HIDE DEF s
<1>7. /\ \A x \in Slots : Holders(x)' = IF x = s THEN {} ELSE Holders(x)
      /\ mutex' \in [Slots -> Workers \cup {NoThread}]
      /\ \A x \in Slots : mutex'[x] = IF x = s THEN NoThread ELSE mutex[x]
  <2>1. \A x \in Slots : x # s => w \notin Holders(x)
    BY DEF Holders, s
  <2>2. \A x \in Slots : Holders(x)' = IF x = s THEN {} ELSE Holders(x)
    BY <1>2, <1>5, <2>1
  <2>3. mutex \in [Slots -> Workers \cup {NoThread}]
    BY DEF FetchInv, TypeOK
  <2>4. QED
    BY <1>1, <1>3, <2>2, <2>3
<1>8. /\ list' \in Seq(Slots) /\ \A i, j \in DOMAIN list' : i # j => list'[i] # list'[j]
      /\ \A x : (\E i \in DOMAIN list' : list'[i] = x) <=> x = s \/ Handed(x)
  <2>1. list \in Seq(Slots) /\ \A i, j \in DOMAIN list : i # j => list[i] # list[j]
    BY DEF FetchInv, TypeOK, EntriesInv
  <2>2. \A i \in DOMAIN list : list[i] # s
    BY <1>6 DEF Handed
  <2>3. QED
    BY <1>1, <1>3, <2>1, <2>2, ListGrows DEF Handed
<1>9. \A i \in DOMAIN list' : list'[i] \in Slots /\ table[list'[i]].valid
  <2>1. \A x \in Slots : Handed(x) => table[x].valid
    BY DEF FetchInv, EntriesInv
  <2>2. \A i \in DOMAIN list' : list'[i] \in Slots
    BY <1>8
  <2>3. QED
    BY <1>4, <1>8, <2>1, <2>2
<1>10. TypeOK'
  <2>1. Len(list') <= NumChunks
    BY <1>8, <1>9, ListFits DEF FetchInv
  <2>2. QED
    BY <1>1, <1>2, <1>7, <1>8, <2>1 DEF FetchInv, TypeOK, Labels
<1>11. WindowInv' /\ CourseInv'
  BY <1>1 DEF FetchInv, WindowInv, CourseInv, Waiting
<1>12. LocksInv'
  BY <1>1, <1>2, <1>7, FetchAssumption DEF FetchInv, LocksInv
<1>13. WorkersInv'
  BY <1>1, <1>2 DEF FetchInv, WorkersInv
<1>14. EntriesInv'
  <2>1. /\ \A x \in Slots : OfHit(x)' = OfHit(x) /\ OfTaken(x)' = OfTaken(x)
        /\ \A x \in Slots : Handed(x)' <=> x = s \/ Handed(x)
    BY <1>1, <1>8 DEF OfHit, OfTaken, Handed
  <2>2. QED
    BY <1>1, <1>3, <1>4, <1>6, <1>7, <1>8, <2>1 DEF FetchInv, EntriesInv
<1>15. QED
  BY <1>10, <1>11, <1>12, <1>13, <1>14 DEF FetchInv

-----------------------------------------------------------------------------
(* retrieve_segment.                                                       *)

\* The chunk that is asked for has its entry.
LEMMA CurrentEntry ==
  ASSUME FetchInv, pc \in {"look", "lockHit", "appendHit"}
  PROVE  /\ Current \in Slots /\ table[Current].valid /\ table[Current].chunk = current
         /\ current \in Chunks
         /\ \A s \in Slots : table[s].valid /\ table[s].chunk = current => s = Current
<1>1. PICK i \in Waiting : window[i].chunk = current
  BY DEF FetchInv, CourseInv
<1>2. window[i].slot \in EntriesOf(current) /\ current \in Chunks
  BY <1>1 DEF FetchInv, WindowInv, EntriesOf
<1>3. Current \in Slots /\ table[Current].valid /\ table[Current].chunk = current
  BY <1>2, FirstEntry DEF Current
<1> HIDE DEF Current
<1>4. QED
  BY <1>2, <1>3, OneEntry DEF FetchInv

\* Steps that only go on, or take or give back the table or the segment.
LEMMA QuietInv ==
  ASSUME FetchInv,
         Register \/ Round \/ FilledUp \/ Hit \/ Crash \/ Wait \/ WakeUp \/ Collect \/ Collected \/ Finish
  PROVE  FetchInv'
<1>1. UNCHANGED <<mutex, segmentsLock, table, stored, list, worker, current, window, placeOf, taken,
                  cwnd, ssthresh, avoiding, fulfilled, file, received>>
  BY DEF Register, Round, FilledUp, Hit, Crash, Wait, WakeUp, Collect, Collected, Finish, locks,
    fetch, control
<1>2. \/ Register \/ Round \/ FilledUp \/ Wait \/ WakeUp \/ Finish
      \/ Hit \/ Crash \/ Collect \/ Collected
  OBVIOUS
<1>3. WindowInv' /\ WorkersInv'
  BY <1>1 DEF FetchInv, WindowInv, Waiting, WorkersInv
<1>4. \A s \in Slots : Holders(s)' = Holders(s)
  BY <1>1 DEF Holders
<1>5. TypeOK'
  <2>1. CASE Round
    BY <1>1, <2>1, FetchAssumption DEF FetchInv, TypeOK, CourseInv, Round, Goto, locks
  <2>2. CASE ~Round
    BY <1>1, <1>2, <2>2 DEF FetchInv, TypeOK, Goto, locks, fetch, Register, FilledUp, Hit, Crash,
      Wait, WakeUp, Collect, Collected, Finish
  <2>3. QED
    BY <2>1, <2>2
<1>6. LocksInv'
  BY <1>1, <1>2, <1>4, FetchAssumption DEF FetchInv, LocksInv, Goto, locks, Register, Round, FilledUp,
    Hit, Crash, Wait, WakeUp, Collect, Collected, Finish
<1>7. EntriesInv'
  <2>1. pc' # "appendHit"
    BY <1>2 DEF Goto, Register, Round, FilledUp, Hit, Crash, Wait, WakeUp, Collect, Collected, Finish
  <2>2. \A s \in Slots : Handed(s)' = Handed(s) /\ OfTaken(s)' = OfTaken(s) /\ ~OfHit(s)'
    BY <1>1, <2>1 DEF Handed, OfTaken, OfHit
  <2>3. QED
    BY <1>1, <1>4, <2>2 DEF FetchInv, EntriesInv
<1>8. CourseInv'
  <2>1. CASE Register
    BY <1>1, <2>1 DEF FetchInv, CourseInv, Waiting, Goto, Register, locks, fetch
  <2>2. CASE Finish
    BY <1>1, <2>2 DEF FetchInv, CourseInv, Waiting, Goto, Finish, Complete, locks, fetch
  <2>3. CASE Round \/ FilledUp \/ Wait \/ WakeUp
    BY <1>1, <2>3 DEF FetchInv, CourseInv, Waiting, Goto, Round, FilledUp, Wait, WakeUp, locks, fetch
  <2>4. CASE Hit \/ Crash \/ Collect \/ Collected
    BY <1>1, <2>4 DEF FetchInv, CourseInv, Waiting, Goto, Hit, Crash, Collect, Collected, locks, fetch
  <2>5. QED
    BY <1>2, <2>1, <2>2, <2>3, <2>4
<1>9. QED
  BY <1>3, <1>5, <1>6, <1>7, <1>8 DEF FetchInv

\* Room for a chunk: a place of the window and an entry that is not in use.
LEMMA Room ==
  ASSUME FetchInv, FreePlaces # {}, FreeSlots # {}
  PROVE  /\ Min(FreePlaces) \in Places /\ Min(FreePlaces) <= cwnd
         /\ window[Min(FreePlaces)] = FreePlace
         /\ Min(FreeSlots) \in Slots /\ table[Min(FreeSlots)] = EmptyEntry
<1>1. FreePlaces \in SUBSET Nat /\ FreeSlots \in SUBSET Nat
  BY FetchAssumption DEF FreePlaces, FreeSlots, Places, Slots
<1>2. Min(FreePlaces) \in FreePlaces /\ Min(FreeSlots) \in FreeSlots
  BY <1>1, LeastOne
<1>3. QED
  BY <1>2 DEF FreePlaces, FreeSlots, FetchInv, EntriesInv

LEMMA GetHandleInv ==
  ASSUME FetchInv, GetHandle
  PROVE  FetchInv'
<1> DEFINE i == Min(FreePlaces)
           s == Min(FreeSlots)
           e == [valid |-> TRUE, chunk |-> current, obj |-> None, expired |-> FALSE, available |-> TRUE]
           p == [chunk |-> current, slot |-> s]
<1>1. /\ i \in Places /\ i <= cwnd /\ window[i] = FreePlace
      /\ s \in Slots /\ table[s] = EmptyEntry
  BY Room DEF GetHandle
<1> HIDE DEF i, s
<1>2. /\ pc = "fill" /\ pc' = "look" /\ tx > 0 /\ current < NumChunks
      /\ table' = [table EXCEPT ![s] = e]
      /\ window' = [window EXCEPT ![i] = p]
      /\ placeOf' = [placeOf EXCEPT ![s] = i]
      /\ UNCHANGED <<pitLock, mutex, segmentsLock, segMutex, registered, stored, list, worker, current,
                     tx, taken, cwnd, ssthresh, avoiding, fulfilled, file, received>>
  BY <1>1 DEF GetHandle, Goto, locks, control, EmptyEntry, i, s
<1>3. current \in Chunks /\ e \in Entry /\ s # 0 /\ s \in Nat
  BY <1>1, <1>2, FetchAssumption DEF FetchInv, TypeOK, Chunks, Entry, Slots
<1>4. /\ table' \in [Slots -> Entry] /\ table'[s] = e
      /\ \A x \in Slots : x # s => table'[x] = table[x]
  BY <1>1, <1>2, <1>3, EntryChanges DEF FetchInv
<1>5. /\ window' \in [Places -> [chunk : Chunks \cup {None}, slot : Slots \cup {0}]]
      /\ window'[i] = p /\ \A j \in Places : j # i => window'[j] = window[j]
      /\ placeOf' \in [Slots -> Places \cup {None, 0}]
      /\ placeOf'[s] = i /\ \A x \in Slots : x # s => placeOf'[x] = placeOf[x]
  BY <1>1, <1>2, <1>3 DEF FetchInv, TypeOK
<1>6. /\ e.valid /\ e.chunk = current /\ e.obj = None /\ e.available
      /\ p.chunk = current /\ p.slot = s /\ p # FreePlace /\ ~table[s].valid
  BY <1>1, <1>3 DEF FreePlace, EmptyEntry
<1> HIDE DEF e, p
<1>7. /\ i \notin Waiting /\ Waiting' = Waiting \cup {i} /\ taken = 0
      /\ \A j \in Waiting : window'[j] = window[j] /\ j \in Places
  BY <1>1, <1>2, <1>5, <1>6 DEF Waiting, FetchInv, CourseInv
<1>8. \A j \in Waiting : window[j].slot # s /\ window[j].slot \in Slots /\ window[j].chunk # current
  BY <1>2, <1>6 DEF FetchInv, WindowInv, CourseInv
<1>9. TypeOK'
  BY <1>2, <1>4, <1>5 DEF FetchInv, TypeOK, Entry
<1>10. WindowInv'
  <2>1. \A j \in Waiting' :
           /\ window'[j].slot \in Slots /\ window'[j].chunk \in Chunks
           /\ table'[window'[j].slot].valid /\ table'[window'[j].slot].chunk = window'[j].chunk
           /\ window'[j].chunk \notin received'
           /\ j # taken' => placeOf'[window'[j].slot] = j
    <3>1. current \notin received
      BY <1>3 DEF FetchInv, CourseInv, Chunks
    <3>2. QED
      BY <1>1, <1>2, <1>3, <1>4, <1>5, <1>6, <1>7, <1>8, <3>1 DEF FetchInv, WindowInv
  <2>2. \A x \in Slots : table'[x].valid => \E j \in Waiting' : window'[j].slot = x
    BY <1>1, <1>4, <1>5, <1>6, <1>7 DEF FetchInv, WindowInv
  <2>3. \A j, k \in Waiting' :
           j # k => window'[j].slot # window'[k].slot /\ window'[j].chunk # window'[k].chunk
    BY <1>5, <1>6, <1>7, <1>8 DEF FetchInv, WindowInv
  <2>4. QED
    BY <2>1, <2>2, <2>3 DEF WindowInv
<1>11. LocksInv'
  BY <1>2 DEF FetchInv, LocksInv, Holders
<1>12. WorkersInv'
  <2>1. \A w \in Workers : worker[w].slot = 0 \/ (worker[w].slot \in Slots /\ worker[w].slot # s)
    BY <1>6 DEF FetchInv, WorkersInv, TypeOK
  <2>2. QED
    BY <1>2, <1>4, <2>1 DEF FetchInv, WorkersInv
<1>13. EntriesInv'
  <2>1. ~Handed(s) /\ ~OfHit(s) /\ ~OfTaken(s)
    BY <1>1, <1>6 DEF FetchInv, EntriesInv
  <2>2. \A x \in Slots : Handed(x)' = Handed(x) /\ ~OfTaken(x) /\ ~OfTaken(x)' /\ ~OfHit(x)'
                         /\ Holders(x)' = Holders(x)
    BY <1>2, <1>7 DEF Handed, OfTaken, OfHit, Holders
  <2>3. QED
    BY <1>2, <1>3, <1>4, <1>6, <2>1, <2>2 DEF FetchInv, EntriesInv, Chunks, None
<1>14. CourseInv'
  <2>1. 0 \notin received => i = 1 /\ current = 0
    <3> SUFFICES ASSUME 0 \notin received
                 PROVE  i = 1 /\ current = 0
      OBVIOUS
    <3>1. i = 1
      BY <1>1 DEF FetchInv, CourseInv, Places
    <3>2. \A j \in Waiting : j = 1
      BY DEF FetchInv, CourseInv
    <3>3. current = 0
      BY <1>3, <1>7, <3>1, <3>2 DEF FetchInv, CourseInv, Chunks
    <3>4. QED
      BY <3>1, <3>3
  <2>2. /\ \E j \in Waiting' : window'[j].chunk = current'
        /\ \A j \in Waiting' : window'[j].chunk <= current'
        /\ \A c \in 0..(current' - 1) : c \in received' \/ \E j \in Waiting' : window'[j].chunk = c
    BY <1>2, <1>3, <1>5, <1>6, <1>7 DEF FetchInv, CourseInv, Chunks
  <2>3. 0 \notin received' =>
           received' = {} /\ cwnd' = 1 /\ \A j \in Waiting' : j = 1 /\ window'[j].chunk = 0
    BY <1>2, <1>5, <1>6, <1>7, <2>1 DEF FetchInv, CourseInv
  <2>4. QED
    BY <1>2, <1>7, <2>2, <2>3 DEF FetchInv, CourseInv
<1>15. QED
  BY <1>9, <1>10, <1>11, <1>12, <1>13, <1>14 DEF FetchInv

LEMMA SendInterestInv ==
  ASSUME FetchInv, SendInterest
  PROVE  FetchInv'
<1>1. /\ pc = "look" /\ pc' = "fill" /\ current' = current + 1 /\ tx' = tx - 1
      /\ UNCHANGED <<pitLock, mutex, segmentsLock, segMutex, table, registered, stored, list, worker,
                     window, placeOf, taken, cwnd, ssthresh, avoiding, fulfilled, file, received>>
  BY DEF SendInterest, Goto, locks, control
<1>2. current \in Chunks
  BY <1>1, CurrentEntry
<1>3. TypeOK'
  BY <1>1, <1>2, FetchAssumption DEF FetchInv, TypeOK, CourseInv, Chunks
<1>4. WindowInv' /\ LocksInv' /\ WorkersInv'
  BY <1>1 DEF FetchInv, WindowInv, Waiting, LocksInv, WorkersInv, Holders
<1>5. EntriesInv'
  BY <1>1 DEF FetchInv, EntriesInv, Handed, OfHit, OfTaken, Holders
<1>6. CourseInv'
  <2>1. \A i \in Waiting : window[i].chunk \in Nat
    BY DEF FetchInv, WindowInv, Chunks
  <2>2. \A c \in received : c \in Nat
    BY DEF FetchInv, TypeOK, Chunks
  <2>3. QED
    BY <1>1, <1>2, <2>1, <2>2 DEF FetchInv, CourseInv, Waiting, Chunks
<1>7. QED
  BY <1>3, <1>4, <1>5, <1>6 DEF FetchInv

LEMMA FillFromStoreInv ==
  ASSUME FetchInv, FillFromStore
  PROVE  FetchInv'
<1> DEFINE s == Current
           e == [table[s] EXCEPT !.obj = current, !.available = FALSE]
<1>1. /\ pc = "lockHit" /\ pc' = "appendHit" /\ pitLock' = NoThread
      /\ mutex[s] = NoThread /\ table[s].available /\ table' = [table EXCEPT ![s] = e]
      /\ UNCHANGED <<mutex, segmentsLock, segMutex, registered, stored, list, worker, current, tx,
                     window, placeOf, taken, cwnd, ssthresh, avoiding, fulfilled, file, received>>
  BY DEF FillFromStore, Matches, Goto, fetch, control
<1>2. /\ s \in Slots /\ table[s].valid /\ table[s].chunk = current /\ current \in Chunks
      /\ \A x \in Slots : table[x].valid /\ table[x].chunk = current => x = s
  BY <1>1, CurrentEntry
<1>3. table[s] \in Entry
  BY <1>2 DEF FetchInv, TypeOK, Entry
<1>4. /\ e \in Entry /\ e.valid /\ e.chunk = current /\ e.obj = current /\ ~e.available
  BY <1>2, <1>3 DEF Entry
<1> HIDE DEF s, e
<1>5. /\ table' \in [Slots -> Entry] /\ table'[s] = e
      /\ \A x \in Slots : x # s => table'[x] = table[x]
  BY <1>1, <1>2, <1>4, EntryChanges DEF FetchInv
<1>6. \A w \in Workers : worker[w].slot # s
  <2>1. \A w \in Workers : worker[w].at # "lockEntry"
    BY <1>1, FetchAssumption DEF FetchInv, LocksInv
  <2>2. s # 0
    BY <1>2, FetchAssumption DEF Slots
  <2>3. QED
    BY <1>1, <2>1, <2>2 DEF FetchInv, WorkersInv
<1>7. ~Handed(s) /\ Holders(s) = {} /\ \A x \in Slots : ~OfTaken(x) /\ ~OfHit(x)
  BY <1>1, <1>2, <1>6 DEF FetchInv, EntriesInv, CourseInv, OfTaken, OfHit, Holders
<1>8. TypeOK'
  BY <1>1, <1>5 DEF FetchInv, TypeOK, Entry
<1>9. WindowInv'
  <2>1. \A x \in Slots : table'[x].valid = table[x].valid /\ table'[x].chunk = table[x].chunk
    <3>1. e.valid = table[s].valid
      BY <1>2, <1>3, <1>4 DEF Entry
    <3>2. QED
      BY <1>2, <1>4, <1>5, <3>1
  <2>2. QED
    BY <1>1, <2>1 DEF FetchInv, WindowInv, Waiting
<1>10. LocksInv'
  BY <1>1, FetchAssumption DEF FetchInv, LocksInv, Holders
<1>11. WorkersInv'
  <2>1. \A w \in Workers : worker[w].slot \in Slots \cup {0}
    BY DEF FetchInv, TypeOK
  <2>2. QED
    BY <1>1, <1>5, <1>6, <2>1 DEF FetchInv, WorkersInv
<1>12. EntriesInv'
  <2>1. \A x \in Slots : /\ Handed(x)' = Handed(x) /\ ~OfTaken(x)'
                         /\ OfHit(x)' => table'[x].chunk = current
                         /\ Holders(x)' = Holders(x)
    BY <1>1, <1>7 DEF Handed, OfTaken, OfHit, Holders
  <2>2. \A x \in Slots : x # s => ~OfHit(x)'
    <3>1. \A x \in Slots : ~table[x].valid => table[x].chunk # current
      BY <1>2 DEF FetchInv, EntriesInv, EmptyEntry, Chunks, None
    <3>2. QED
      BY <1>2, <1>5, <2>1, <3>1
  <2>3. QED
    BY <1>1, <1>2, <1>4, <1>5, <1>7, <2>1, <2>2 DEF FetchInv, EntriesInv
<1>13. CourseInv'
  BY <1>1 DEF FetchInv, CourseInv, Waiting
<1>14. QED
  BY <1>8, <1>9, <1>10, <1>11, <1>12, <1>13 DEF FetchInv

LEMMA AppendHitInv ==
  ASSUME FetchInv, AppendHit
  PROVE  FetchInv'
<1> DEFINE s == Current
<1>1. /\ pc = "appendHit" /\ pc' = "fill" /\ current' = current + 1 /\ list' = Append(list, s)
      /\ UNCHANGED <<pitLock, mutex, segmentsLock, segMutex, table, registered, stored, worker, tx,
                     window, placeOf, taken, cwnd, ssthresh, avoiding, fulfilled, file, received>>
  BY DEF AppendHit, Goto, locks, control
<1>2. s \in Slots /\ table[s].valid /\ table[s].chunk = current /\ current \in Chunks
  BY <1>1, CurrentEntry
<1> HIDE DEF s
<1>3. OfHit(s) /\ ~Handed(s) /\ ~OfTaken(s) /\ taken = 0
  BY <1>1, <1>2 DEF OfHit, OfTaken, FetchInv, EntriesInv, CourseInv
<1>4. /\ list' \in Seq(Slots) /\ \A i, j \in DOMAIN list' : i # j => list'[i] # list'[j]
      /\ \A x : (\E i \in DOMAIN list' : list'[i] = x) <=> x = s \/ Handed(x)
  <2>1. list \in Seq(Slots) /\ \A i, j \in DOMAIN list : i # j => list[i] # list[j]
    BY DEF FetchInv, TypeOK, EntriesInv
  <2>2. \A i \in DOMAIN list : list[i] # s
    BY <1>3 DEF Handed
  <2>3. QED
    BY <1>1, <1>2, <2>1, <2>2, ListGrows DEF Handed
<1>5. \A i \in DOMAIN list' : list'[i] \in Slots /\ table[list'[i]].valid
  <2>1. \A x \in Slots : Handed(x) => table[x].valid
    BY DEF FetchInv, EntriesInv
  <2>2. \A i \in DOMAIN list' : list'[i] \in Slots
    BY <1>4
  <2>3. QED
    BY <1>2, <1>4, <2>1, <2>2
<1>6. TypeOK'
  <2>1. Len(list') <= NumChunks
    BY <1>4, <1>5, ListFits DEF FetchInv
  <2>2. current' \in 0..NumChunks
    BY <1>1, <1>2, FetchAssumption DEF Chunks
  <2>3. QED
    BY <1>1, <1>4, <2>1, <2>2 DEF FetchInv, TypeOK
<1>7. WindowInv' /\ LocksInv' /\ WorkersInv'
  BY <1>1 DEF FetchInv, WindowInv, Waiting, LocksInv, WorkersInv, Holders
<1>8. EntriesInv'
  <2>1. \A x \in Slots : /\ Handed(x)' <=> x = s \/ Handed(x)
                         /\ ~OfHit(x)' /\ OfTaken(x)' = OfTaken(x) /\ Holders(x)' = Holders(x)
    BY <1>1, <1>4 DEF Handed, OfHit, OfTaken, Holders
  <2>2. QED
    BY <1>1, <1>2, <1>3, <1>4, <2>1 DEF FetchInv, EntriesInv
<1>9. CourseInv'
  <2>1. \A i \in Waiting : window[i].chunk \in Nat
    BY DEF FetchInv, WindowInv, Chunks
  <2>2. \A c \in received : c \in Nat
    BY DEF FetchInv, TypeOK, Chunks
  <2>3. QED
    BY <1>1, <1>2, <2>1, <2>2 DEF FetchInv, CourseInv, Waiting, Chunks
<1>10. QED
  BY <1>6, <1>7, <1>8, <1>9 DEF FetchInv

\* The first entry of the list, and its place.
LEMMA FirstHanded ==
  ASSUME FetchInv, pc = "take", list # <<>>
  PROVE  /\ Head(list) \in Slots /\ Handed(Head(list))
         /\ placeOf[Head(list)] \in Waiting /\ window[placeOf[Head(list)]].slot = Head(list)
         /\ Tail(list) \in Seq(Slots) /\ Len(Tail(list)) <= NumChunks
         /\ \A i, j \in DOMAIN Tail(list) : i # j => Tail(list)[i] # Tail(list)[j]
         /\ \A x : (\E i \in DOMAIN Tail(list) : Tail(list)[i] = x) <=> Handed(x) /\ x # Head(list)
<1> DEFINE s == Head(list)
           q == Tail(list)
<1>1. list \in Seq(Slots) /\ Len(list) <= NumChunks /\ NumChunks \in Nat
      /\ \A i, j \in DOMAIN list : i # j => list[i] # list[j]
  BY FetchAssumption DEF FetchInv, TypeOK, EntriesInv
<1>2. /\ s \in Slots /\ s = list[1] /\ q \in Seq(Slots) /\ Len(q) = Len(list) - 1
      /\ Len(list) \in Nat /\ Len(list) > 0
      /\ \A i \in 1..(Len(list) - 1) : q[i] = list[i + 1]
      /\ DOMAIN list = 1..Len(list) /\ DOMAIN q = 1..(Len(list) - 1)
  BY <1>1, SeqFacts
<1>3. Handed(s)
  BY <1>2 DEF Handed
<1> HIDE DEF s, q
<1>4. \A i, j \in DOMAIN q : i # j => q[i] # q[j]
  <2> SUFFICES ASSUME NEW i \in DOMAIN q, NEW j \in DOMAIN q, i # j
               PROVE  q[i] # q[j]
    OBVIOUS
  <2>1. i + 1 \in DOMAIN list /\ j + 1 \in DOMAIN list /\ i + 1 # j + 1
    BY <1>2
  <2>2. QED
    BY <1>1, <1>2, <2>1
<1>5. \A x : (\E i \in DOMAIN q : q[i] = x) <=> Handed(x) /\ x # s
  <2> SUFFICES ASSUME NEW x
               PROVE  (\E i \in DOMAIN q : q[i] = x) <=> Handed(x) /\ x # s
    OBVIOUS
  <2>1. ASSUME NEW i \in DOMAIN q, q[i] = x
        PROVE  Handed(x) /\ x # s
    <3>1. i + 1 \in DOMAIN list /\ 1 \in DOMAIN list /\ i + 1 # 1 /\ list[i + 1] = x
      BY <1>2, <2>1
    <3>2. QED
      BY <1>1, <1>2, <3>1 DEF Handed
  <2>2. ASSUME Handed(x), x # s
        PROVE  \E i \in DOMAIN q : q[i] = x
    <3>1. PICK i \in DOMAIN list : list[i] = x
      BY <2>2 DEF Handed
    <3>2. i - 1 \in DOMAIN q /\ q[i - 1] = x
      BY <1>2, <2>2, <3>1
    <3>3. QED
      BY <3>2
  <2>3. QED
    BY <2>1, <2>2
<1>6. placeOf[s] \in Waiting /\ window[placeOf[s]].slot = s
  <2>1. taken = 0 /\ table[s].valid
    BY <1>2, <1>3 DEF FetchInv, EntriesInv, CourseInv
  <2>2. PICK i \in Waiting : window[i].slot = s
    BY <1>2, <2>1 DEF FetchInv, WindowInv
  <2>3. i # 0
    BY DEF Waiting, Places
  <2>4. QED
    BY <2>1, <2>2, <2>3 DEF FetchInv, WindowInv
<1>7. Len(q) <= NumChunks
  BY <1>1, <1>2
<1>8. QED
  BY <1>2, <1>3, <1>4, <1>5, <1>6, <1>7 DEF s, q

LEMMA TakeInv ==
  ASSUME FetchInv, Take
  PROVE  FetchInv'
<1> DEFINE s == Head(list)
           p == placeOf[s]
           c == window[p].chunk
           e == [table[s] EXCEPT !.expired = TRUE]
<1>1. /\ pc = "take" /\ pc' = "release" /\ list # <<>> /\ list' = Tail(list)
      /\ file' = [file EXCEPT ![c] = table[s].obj] /\ table' = [table EXCEPT ![s] = e]
      /\ taken' = p /\ placeOf' = [placeOf EXCEPT ![s] = None]
      /\ UNCHANGED <<pitLock, mutex, segmentsLock, segMutex, registered, stored, worker, current, tx,
                     window, cwnd, ssthresh, avoiding, fulfilled, received>>
  BY DEF Take, ChunkIn, Goto, locks, control
<1>2. /\ s \in Slots /\ Handed(s) /\ p \in Waiting /\ window[p].slot = s
      /\ list' \in Seq(Slots) /\ Len(list') <= NumChunks
      /\ \A i, j \in DOMAIN list' : i # j => list'[i] # list'[j]
      /\ \A x : (\E i \in DOMAIN list' : list'[i] = x) <=> Handed(x) /\ x # s
  BY <1>1, FirstHanded
<1>3. /\ table[s].valid /\ ~table[s].available /\ table[s].obj = table[s].chunk
      /\ table[s].chunk = c /\ c \in Chunks /\ c \notin received /\ Holders(s) = {}
  BY <1>2 DEF FetchInv, EntriesInv, WindowInv
<1>4. table[s] \in Entry
  BY <1>2 DEF FetchInv, TypeOK, Entry
<1>5. /\ e \in Entry /\ e.valid = table[s].valid /\ e.chunk = table[s].chunk
      /\ e.obj = table[s].obj /\ e.available = table[s].available
  BY <1>4 DEF Entry
<1>6. taken = 0
  BY <1>1 DEF FetchInv, CourseInv
<1> HIDE DEF s, e
<1>7. /\ table' \in [Slots -> Entry] /\ table'[s] = e
      /\ \A x \in Slots : x # s => table'[x] = table[x]
  BY <1>1, <1>2, <1>5, EntryChanges DEF FetchInv
<1>8. \A x \in Slots : /\ table'[x].valid = table[x].valid /\ table'[x].chunk = table[x].chunk
                       /\ table'[x].obj = table[x].obj /\ table'[x].available = table[x].available
  BY <1>5, <1>7
<1>9. /\ file' \in [Chunks -> Chunks \cup {None}] /\ file'[c] = c
      /\ \A d \in Chunks : d # c => file'[d] = file[d]
  <2> HIDE DEF c
  <2>1. file \in [Chunks -> Chunks \cup {None}] /\ table[s].obj = c
    BY <1>3 DEF FetchInv, TypeOK
  <2>2. QED
    BY <1>1, <1>3, <2>1
<1>10. /\ placeOf' \in [Slots -> Places \cup {None, 0}]
       /\ \A x \in Slots : x # s => placeOf'[x] = placeOf[x]
  BY <1>1, <1>2 DEF FetchInv, TypeOK
<1>11. p \in Places
  BY <1>2 DEF Waiting
<1> HIDE DEF c, p
<1>12. TypeOK'
  BY <1>1, <1>2, <1>7, <1>9, <1>10, <1>11 DEF FetchInv, TypeOK, Entry
<1>13. WindowInv'
  <2>1. \A i \in Waiting : window[i].slot \in Slots /\ (i # p => window[i].slot # s)
    BY <1>2 DEF FetchInv, WindowInv
  <2>2. \A i \in Waiting : i # taken
    BY <1>6 DEF Waiting, Places
  <2>3. QED
    BY <1>1, <1>8, <1>10, <2>1, <2>2 DEF FetchInv, WindowInv, Waiting
<1>14. LocksInv'
  BY <1>1 DEF FetchInv, LocksInv, Holders
<1>15. WorkersInv'
  <2>1. \A w \in Workers : worker[w].slot \in Slots \cup {0}
    BY DEF FetchInv, TypeOK
  <2>2. QED
    BY <1>1, <1>8, <2>1 DEF FetchInv, WorkersInv
<1>16. EntriesInv'
  <2>1. \A x \in Slots : /\ Handed(x)' <=> Handed(x) /\ x # s
                         /\ ~OfHit(x)' /\ Holders(x)' = Holders(x)
    BY <1>1, <1>2 DEF Handed, OfHit, Holders
  <2>2. \A x \in Slots : OfTaken(x)' <=> x = s
    BY <1>1, <1>2, <1>11 DEF OfTaken, Places
  <2>3. \A x \in Slots : table'[x] = EmptyEntry \/ table[x].valid
    BY <1>3, <1>7 DEF FetchInv, EntriesInv
  <2>4. QED
    BY <1>1, <1>2, <1>3, <1>8, <2>1, <2>2, <2>3 DEF FetchInv, EntriesInv
<1>17. CourseInv'
  <2>1. p # 0 /\ window[p].chunk = c
    BY <1>11 DEF Places, c
  <2>2. QED
    BY <1>1, <1>2, <1>9, <2>1 DEF FetchInv, CourseInv, Waiting
<1>18. QED
  BY <1>12, <1>13, <1>14, <1>15, <1>16, <1>17 DEF FetchInv

\* The chunks that were received are as many as they are, and one more.
LEMMA Received ==
  ASSUME TypeOK
  PROVE  /\ Cardinality(received) \in Nat /\ Cardinality(received) <= NumChunks
         /\ \A c \in Chunks : c \notin received =>
               Cardinality(received \cup {c}) = Cardinality(received) + 1
<1>1. IsFiniteSet(Chunks) /\ Cardinality(Chunks) = NumChunks
  BY FS_Interval, FetchAssumption DEF Chunks
<1>2. received \in SUBSET Chunks
  BY DEF TypeOK
<1>3. IsFiniteSet(received) /\ Cardinality(received) <= NumChunks
  BY <1>1, <1>2, FS_Subset
<1>4. QED
  BY <1>3, FS_CardinalityType, FS_AddElement

LEMMA ReleaseInv ==
  ASSUME FetchInv, Release
  PROVE  FetchInv'
<1> DEFINE s == window[taken].slot
           c == window[taken].chunk
<1>1. /\ pc = "release" /\ pc' = "take" /\ pitLock = NoThread
      /\ table' = [table EXCEPT ![s] = EmptyEntry]
      /\ window' = [window EXCEPT ![taken] = FreePlace]
      /\ received' = received \cup {c} /\ taken' = 0 /\ cwnd' = cwnd + 1
      /\ fulfilled' = IF avoiding THEN fulfilled + 1 ELSE fulfilled
      /\ UNCHANGED <<pitLock, mutex, segmentsLock, segMutex, registered, stored, list, worker,
                     current, tx, placeOf, ssthresh, avoiding, file>>
  BY DEF Release, ClearedEntry, Goto, locks
<1>2. taken \in Waiting /\ taken # 0 /\ taken \in Places /\ file[c] = c
  BY <1>1 DEF FetchInv, CourseInv, Waiting
<1>3. /\ s \in Slots /\ c \in Chunks /\ c \notin received /\ table[s].chunk = c
      /\ \A i \in Waiting : i # taken => window[i].slot # s /\ window[i].chunk # c
  BY <1>2 DEF FetchInv, WindowInv
<1>4. OfTaken(s) /\ Holders(s) = {} /\ ~Handed(s) /\ table[s].valid
  BY <1>2, <1>3 DEF FetchInv, EntriesInv, OfTaken
<1>5. /\ table' \in [Slots -> Entry] /\ table'[s] = EmptyEntry
      /\ \A x \in Slots : x # s => table'[x] = table[x]
  <2>1. EmptyEntry \in Entry
    BY DEF EmptyEntry, Entry
  <2> HIDE DEF s
  <2>2. QED
    BY <1>1, <1>3, <2>1, EntryChanges DEF FetchInv
<1>6. /\ window' \in [Places -> [chunk : Chunks \cup {None}, slot : Slots \cup {0}]]
      /\ window'[taken] = FreePlace /\ \A i \in Places : i # taken => window'[i] = window[i]
  BY <1>1, <1>2 DEF FetchInv, TypeOK, FreePlace
<1>7. Waiting' = Waiting \ {taken} /\ \A i \in Waiting' : window'[i] = window[i]
  BY <1>6 DEF Waiting
<1>8. ~table'[s].valid
  BY <1>5 DEF EmptyEntry
<1>9. \A w \in Workers : worker[w].slot # s
  <2>1. \A w \in Workers : worker[w].at # "lockEntry"
    BY <1>1, FetchAssumption DEF FetchInv, LocksInv
  <2>2. s # 0
    BY <1>3, FetchAssumption DEF Slots
  <2>3. QED
    BY <1>4, <2>1, <2>2 DEF FetchInv, WorkersInv, Holders
<1>10. /\ Cardinality(received') = Cardinality(received) + 1 /\ Cardinality(received) \in Nat
       /\ Cardinality(received) + 1 <= NumChunks
  <2>1. Cardinality(received') = Cardinality(received) + 1
    BY <1>1, <1>3, Received DEF FetchInv
  <2>2. received' \subseteq Chunks
    BY <1>1, <1>3 DEF FetchInv, TypeOK
  <2>3. IsFiniteSet(Chunks) /\ Cardinality(Chunks) = NumChunks
    BY FS_Interval, FetchAssumption DEF Chunks
  <2>4. Cardinality(received') <= NumChunks
    BY <2>2, <2>3, FS_Subset
  <2>5. QED
    BY <2>1, <2>4, Received DEF FetchInv
<1> HIDE DEF s, c
<1>11. TypeOK'
  <2>1. cwnd' \in 1..(MaxWindow + NumChunks) /\ fulfilled' \in 0..NumChunks
    BY <1>1, <1>10, FetchAssumption DEF FetchInv, TypeOK, CourseInv
  <2>2. received' \subseteq Chunks
    BY <1>1, <1>3 DEF FetchInv, TypeOK
  <2>3. QED
    BY <1>1, <1>5, <1>6, <2>1, <2>2 DEF FetchInv, TypeOK, Entry
<1>12. WindowInv'
  <2>1. \A i \in Waiting' :
           /\ window'[i].slot \in Slots /\ window'[i].chunk \in Chunks
           /\ table'[window'[i].slot].valid /\ table'[window'[i].slot].chunk = window'[i].chunk
           /\ window'[i].chunk \notin received'
           /\ placeOf'[window'[i].slot] = i
    BY <1>1, <1>3, <1>5, <1>7 DEF FetchInv, WindowInv
  <2>2. \A x \in Slots : table'[x].valid => \E i \in Waiting' : window'[i].slot = x
    <3> SUFFICES ASSUME NEW x \in Slots, table'[x].valid
                 PROVE  \E i \in Waiting' : window'[i].slot = x
      OBVIOUS
    <3>1. x # s /\ table[x].valid
      BY <1>5, <1>8
    <3>2. PICK i \in Waiting : window[i].slot = x
      BY <3>1 DEF FetchInv, WindowInv
    <3>3. i # taken
      BY <3>1, <3>2 DEF s
    <3>4. QED
      BY <1>7, <3>2, <3>3
  <2>3. \A i, j \in Waiting' :
           i # j => window'[i].slot # window'[j].slot /\ window'[i].chunk # window'[j].chunk
    BY <1>7 DEF FetchInv, WindowInv
  <2>4. QED
    BY <2>1, <2>2, <2>3 DEF WindowInv
<1>13. LocksInv'
  BY <1>1 DEF FetchInv, LocksInv, Holders
<1>14. WorkersInv'
  <2>1. \A w \in Workers : worker[w].slot \in Slots \cup {0}
    BY DEF FetchInv, TypeOK
  <2>2. QED
    BY <1>1, <1>5, <1>9, <2>1 DEF FetchInv, WorkersInv
<1>15. EntriesInv'
  <2>1. \A x \in Slots : /\ Handed(x)' = Handed(x) /\ ~OfHit(x)' /\ ~OfTaken(x)'
                         /\ Holders(x)' = Holders(x)
    BY <1>1 DEF Handed, OfHit, OfTaken, Holders
  <2>2. QED
    BY <1>1, <1>4, <1>5, <1>8, <2>1 DEF FetchInv, EntriesInv
<1>16. CourseInv'
  <2>1. \A x \in received' : x < current'
    BY <1>1, <1>2, <1>3 DEF FetchInv, CourseInv, TypeOK, Chunks, c
  <2>2. \A x \in 0..(current' - 1) : x \in received' \/ \E i \in Waiting' : window'[i].chunk = x
    <3> SUFFICES ASSUME NEW x \in 0..(current - 1), x \notin received'
                 PROVE  \E i \in Waiting' : window'[i].chunk = x
      BY <1>1
    <3>1. x \notin received /\ x # c
      BY <1>1
    <3>2. PICK i \in Waiting : window[i].chunk = x
      BY <3>1 DEF FetchInv, CourseInv
    <3>3. i # taken
      BY <3>1, <3>2 DEF c
    <3>4. QED
      BY <1>7, <3>2, <3>3
  <2>3. cwnd' <= MaxWindow + Cardinality(received') /\ fulfilled' <= Cardinality(received')
    BY <1>1, <1>10, FetchAssumption DEF FetchInv, TypeOK, CourseInv
  <2>4. 0 \in received'
    <3>1. 0 \notin received => c = 0
      BY <1>2 DEF FetchInv, CourseInv, c
    <3>2. QED
      BY <1>1, <3>1
  <2>5. QED
    BY <1>1, <1>7, <2>1, <2>2, <2>3, <2>4 DEF FetchInv, CourseInv
<1>17. QED
  BY <1>11, <1>12, <1>13, <1>14, <1>15, <1>16 DEF FetchInv

LEMMA ResendInv ==
  ASSUME FetchInv, NEW i \in Places, Resend(i)
  PROVE  FetchInv'
<1> DEFINE s == window[i].slot
           e == [table[s] EXCEPT !.expired = FALSE]
<1>1. /\ pc = "resend" /\ i \in Waiting /\ table' = [table EXCEPT ![s] = e]
      /\ ssthresh' = (cwnd \div 2) + 1 /\ cwnd' = 1 /\ avoiding' = FALSE
      /\ UNCHANGED <<pitLock, mutex, segmentsLock, segMutex, registered, stored, list, worker, pc,
                     current, tx, window, placeOf, taken, fulfilled, file, received>>
  BY DEF Resend, Refreshed, locks
<1>2. s \in Slots
  BY <1>1 DEF FetchInv, WindowInv
<1>3. table[s] \in Entry
  BY <1>2 DEF FetchInv, TypeOK, Entry
<1>4. /\ e \in Entry /\ e.valid = table[s].valid /\ e.chunk = table[s].chunk
      /\ e.obj = table[s].obj /\ e.available = table[s].available
  BY <1>3 DEF Entry
<1> HIDE DEF s, e
<1>5. /\ table' \in [Slots -> Entry] /\ table'[s] = e
      /\ \A x \in Slots : x # s => table'[x] = table[x]
  BY <1>1, <1>2, <1>4, EntryChanges DEF FetchInv
<1>6. \A x \in Slots : /\ table'[x].valid = table[x].valid /\ table'[x].chunk = table[x].chunk
                       /\ table'[x].obj = table[x].obj /\ table'[x].available = table[x].available
                       /\ table[x].valid \/ table'[x] = table[x]
  <2>1. table[s].valid
    BY <1>1 DEF FetchInv, WindowInv, s
  <2>2. QED
    BY <1>4, <1>5, <2>1
<1>7. TypeOK'
  <2>1. cwnd \in Nat /\ cwnd >= 1 /\ cwnd <= MaxWindow + NumChunks /\ MaxWindow + NumChunks \in Nat
    BY FetchAssumption DEF FetchInv, TypeOK
  <2>2. (cwnd \div 2) + 1 \in 1..(MaxWindow + NumChunks) /\ 1 \in 1..(MaxWindow + NumChunks)
    BY <2>1
  <2>3. QED
    BY <1>1, <1>5, <2>2 DEF FetchInv, TypeOK, Entry
<1>8. WindowInv' /\ LocksInv'
  BY <1>1, <1>6 DEF FetchInv, WindowInv, Waiting, LocksInv, Holders
<1>9. WorkersInv'
  <2>1. \A w \in Workers : worker[w].slot \in Slots \cup {0}
    BY DEF FetchInv, TypeOK
  <2>2. QED
    BY <1>1, <1>6, <2>1 DEF FetchInv, WorkersInv
<1>10. EntriesInv'
  <2>1. \A x \in Slots : /\ Handed(x)' = Handed(x) /\ OfHit(x)' = OfHit(x)
                         /\ OfTaken(x)' = OfTaken(x) /\ Holders(x)' = Holders(x)
    BY <1>1, <1>6 DEF Handed, OfHit, OfTaken, Holders
  <2>2. QED
    BY <1>1, <1>6, <2>1 DEF FetchInv, EntriesInv
<1>11. CourseInv'
  BY <1>1, Received, FetchAssumption DEF FetchInv, CourseInv, Waiting
<1>12. QED
  BY <1>7, <1>8, <1>9, <1>10, <1>11 DEF FetchInv

\* The smaller of a window and the largest.
LEMMA CappedWindow ==
  ASSUME NEW n \in Nat, n >= 1
  PROVE  Capped(n) \in Nat /\ Capped(n) >= 1 /\ Capped(n) <= n /\ Capped(n) <= MaxWindow
  BY LeastOne, FetchAssumption DEF Capped

LEMMA EndRoundInv ==
  ASSUME FetchInv, EndRound
  PROVE  FetchInv'
<1> DEFINE avoids == avoiding \/ cwnd >= ssthresh
           done == IF avoids THEN fulfilled ELSE 0
           grown == IF avoids /\ done = cwnd THEN cwnd + 1 ELSE cwnd
<1>1. /\ pc = "resend" /\ pc' = "round" /\ avoiding' = avoids
      /\ fulfilled' = IF avoids /\ done = cwnd THEN 0 ELSE done
      /\ cwnd' = Capped(grown)
      /\ UNCHANGED <<pitLock, mutex, segmentsLock, segMutex, table, registered, stored, list, worker,
                     current, tx, window, placeOf, taken, ssthresh, file, received>>
  BY DEF EndRound, Goto, locks
<1>2. /\ cwnd \in Nat /\ cwnd >= 1 /\ fulfilled \in 0..NumChunks
      /\ cwnd <= MaxWindow + NumChunks /\ MaxWindow + NumChunks \in Nat
      /\ NumChunks \in Nat /\ MaxWindow \in Nat
  BY FetchAssumption DEF FetchInv, TypeOK
<1>3. grown \in Nat /\ grown >= 1 /\ done \in 0..NumChunks /\ done <= fulfilled
  BY <1>2
<1>4. cwnd' \in Nat /\ cwnd' >= 1 /\ cwnd' <= grown /\ cwnd' <= MaxWindow
  BY <1>1, <1>3, CappedWindow
<1>5. fulfilled' \in 0..NumChunks /\ fulfilled' <= fulfilled
  BY <1>1, <1>2, <1>3
<1>6. TypeOK'
  <2>1. cwnd' \in 1..(MaxWindow + NumChunks)
    BY <1>2, <1>4
  <2>2. avoiding' \in BOOLEAN
    BY <1>1 DEF FetchInv, TypeOK
  <2>3. QED
    BY <1>1, <1>5, <2>1, <2>2 DEF FetchInv, TypeOK
<1>7. WindowInv' /\ LocksInv' /\ WorkersInv'
  BY <1>1 DEF FetchInv, WindowInv, Waiting, LocksInv, WorkersInv, Holders
<1>8. EntriesInv'
  <2>1. \A x \in Slots : /\ Handed(x)' = Handed(x) /\ ~OfHit(x)'
                         /\ OfTaken(x)' = OfTaken(x) /\ Holders(x)' = Holders(x)
    BY <1>1 DEF Handed, OfHit, OfTaken, Holders
  <2>2. QED
    BY <1>1, <2>1 DEF FetchInv, EntriesInv
<1>9. CourseInv'
  <2>1. cwnd' <= MaxWindow + Cardinality(received') /\ fulfilled' <= Cardinality(received')
    BY <1>1, <1>2, <1>4, <1>5, Received DEF FetchInv, CourseInv
  <2>2. 0 \notin received => cwnd' = 1
    <3>1. ASSUME 0 \notin received
          PROVE  fulfilled = 0 /\ cwnd = 1
      <4>1. received = {} /\ cwnd = 1
        BY <3>1 DEF FetchInv, CourseInv
      <4>2. fulfilled <= 0
        BY <4>1, FS_EmptySet DEF FetchInv, CourseInv
      <4>3. QED
        BY <1>2, <4>1, <4>2
    <3>2. QED
      BY <1>3, <1>4, <3>1
  <2>3. QED
    BY <1>1, <1>4, <2>1, <2>2 DEF FetchInv, CourseInv, Waiting
<1>10. QED
  BY <1>6, <1>7, <1>8, <1>9 DEF FetchInv

LEMMA ExpireInv ==
  ASSUME FetchInv, NEW s \in Slots, Expire(s)
  PROVE  FetchInv'
<1> DEFINE e == [table[s] EXCEPT !.expired = TRUE]
<1>1. /\ table[s].valid /\ table' = [table EXCEPT ![s] = e]
      /\ UNCHANGED <<pitLock, mutex, segmentsLock, segMutex, registered, stored, list, worker, pc,
                     current, tx, window, placeOf, taken, cwnd, ssthresh, avoiding, fulfilled,
                     file, received>>
  BY DEF Expire, locks, fetch, control
<1>2. table[s] \in Entry
  BY DEF FetchInv, TypeOK, Entry
<1>3. /\ e \in Entry /\ e.valid = table[s].valid /\ e.chunk = table[s].chunk
      /\ e.obj = table[s].obj /\ e.available = table[s].available
  BY <1>2 DEF Entry
<1> HIDE DEF e
<1>4. /\ table' \in [Slots -> Entry] /\ table'[s] = e
      /\ \A x \in Slots : x # s => table'[x] = table[x]
  BY <1>1, <1>3, EntryChanges DEF FetchInv
<1>5. \A x \in Slots : /\ table'[x].valid = table[x].valid /\ table'[x].chunk = table[x].chunk
                       /\ table'[x].obj = table[x].obj /\ table'[x].available = table[x].available
                       /\ table[x].valid \/ table'[x] = table[x]
  BY <1>1, <1>3, <1>4
<1>6. TypeOK'
  BY <1>1, <1>4 DEF FetchInv, TypeOK, Entry
<1>7. WindowInv' /\ LocksInv' /\ CourseInv'
  BY <1>1, <1>5 DEF FetchInv, WindowInv, Waiting, LocksInv, Holders, CourseInv
<1>8. WorkersInv'
  <2>1. \A w \in Workers : worker[w].slot \in Slots \cup {0}
    BY DEF FetchInv, TypeOK
  <2>2. QED
    BY <1>1, <1>5, <2>1 DEF FetchInv, WorkersInv
<1>9. EntriesInv'
  <2>1. \A x \in Slots : /\ Handed(x)' = Handed(x) /\ OfHit(x)' = OfHit(x)
                         /\ OfTaken(x)' = OfTaken(x) /\ Holders(x)' = Holders(x)
    BY <1>1, <1>5 DEF Handed, OfHit, OfTaken, Holders
  <2>2. QED
    BY <1>1, <1>5, <2>1 DEF FetchInv, EntriesInv
<1>10. QED
  BY <1>6, <1>7, <1>8, <1>9 DEF FetchInv

-----------------------------------------------------------------------------
(* Every step.                                                             *)

LEMMA NextFetchInv == FetchInv /\ [Next]_vars => FetchInv'
<1> SUFFICES ASSUME FetchInv, [Next]_vars
             PROVE  FetchInv'
  OBVIOUS
<1>1. CASE \E w \in Workers : WorkerStep(w) \/ \E c \in Chunks : Deliver(w, c)
  BY <1>1, SearchMissInv, SearchHitInv, MatchFailsInv, MatchSucceedsInv, PutInv, MatchSegmentInv,
    LockSegmentInv, HandOverInv, DeliverInv DEF WorkerStep
<1>2. CASE RetrieverStep
  BY <1>2, QuietInv, GetHandleInv, SendInterestInv, FillFromStoreInv, AppendHitInv, TakeInv,
    ReleaseInv, EndRoundInv DEF RetrieverStep, RequestStep, CollectStep
<1>3. CASE \E i \in Places : Resend(i)
  BY <1>3, ResendInv
<1>4. CASE \E s \in Slots : Expire(s)
  BY <1>4, ExpireInv
<1>5. CASE UNCHANGED vars
  <2>1. UNCHANGED <<pitLock, mutex, segmentsLock, segMutex, table, registered, stored, list, worker,
                    pc, current, tx, window, placeOf, taken, cwnd, ssthresh, avoiding, fulfilled,
                    file, received>>
    BY <1>5 DEF vars, locks, fetch, control
  <2>2. TypeOK'
    BY <2>1 DEF FetchInv, TypeOK
  <2>3. WindowInv' /\ LocksInv' /\ WorkersInv' /\ CourseInv'
    BY <2>1 DEF FetchInv, WindowInv, Waiting, LocksInv, WorkersInv, CourseInv, Holders
  <2>4. EntriesInv'
    BY <2>1 DEF FetchInv, EntriesInv, Handed, OfHit, OfTaken, Holders
  <2>5. QED
    BY <2>2, <2>3, <2>4 DEF FetchInv
<1>6. QED
  BY <1>1, <1>2, <1>3, <1>4, <1>5 DEF Next

LEMMA InitFetchInv == Init => FetchInv
<1> SUFFICES ASSUME Init
             PROVE  FetchInv
  OBVIOUS
<1>1. /\ \A s \in Slots : table[s] = EmptyEntry /\ Holders(s) = {}
      /\ \A w \in Workers : worker[w].at = "idle" /\ worker[w].slot = 0 /\ worker[w].chunk = None
      /\ Waiting = {} /\ list = <<>> /\ DOMAIN list = {} /\ taken = 0 /\ received = {}
      /\ \A s \in Slots : s # 0 /\ mutex[s] = NoThread
  BY FetchAssumption DEF Init, Holders, Idle, Waiting, Slots
<1>2. TypeOK
  <2>1. /\ table \in [Slots -> [valid : BOOLEAN, chunk : Chunks \cup {None}, obj : Chunks \cup {None},
                                expired : BOOLEAN, available : BOOLEAN]]
        /\ worker \in [Workers -> [at : {"idle", "search", "lockEntry", "put", "match", "lockSegment",
                                         "append"},
                                   chunk : Chunks \cup {None}, slot : Slots \cup {0}]]
        /\ window \in [Places -> [chunk : Chunks \cup {None}, slot : Slots \cup {0}]]
    BY DEF Init, EmptyEntry, Idle, FreePlace
  <2>2. /\ mutex \in [Slots -> Workers \cup {NoThread}] /\ placeOf \in [Slots -> Places \cup {None, 0}]
        /\ file \in [Chunks -> Chunks \cup {None}] /\ stored \subseteq Chunks
    BY DEF Init
  <2>3. list \in Seq(Slots) /\ Len(list) <= NumChunks
    BY FetchAssumption DEF Init
  <2>4. /\ current \in 0..NumChunks /\ tx \in 0..MaxWindow
        /\ cwnd \in 1..(MaxWindow + NumChunks) /\ ssthresh \in 1..(MaxWindow + NumChunks)
        /\ fulfilled \in 0..NumChunks
    BY FetchAssumption DEF Init, FirstWindow
  <2>5. QED
    BY <2>1, <2>2, <2>3, <2>4 DEF Init, TypeOK
<1>3. WindowInv
  BY <1>1 DEF WindowInv, EmptyEntry
<1>4. LocksInv /\ WorkersInv
  BY <1>1, FetchAssumption DEF LocksInv, WorkersInv, Init
<1>5. EntriesInv
  BY <1>1 DEF EntriesInv, Handed, OfHit, OfTaken, EmptyEntry, Init
<1>6. CourseInv
  <2>1. Cardinality(received) = 0
    BY <1>1, FS_EmptySet
  <2>2. QED
    BY <1>1, <2>1, FetchAssumption DEF CourseInv, Init, FirstWindow
<1>7. QED
  BY <1>2, <1>3, <1>4, <1>5, <1>6 DEF FetchInv

\* The window, the table, the list and the threads agree, for any number of threads, any
\* file, window and table.
THEOREM FetchCorrect == Spec => []FetchInv
  BY InitFetchInv, NextFetchInv, PTL DEF Spec

\* An entry is handed over once, with its chunk, and no thread of the pipeline touches it
\* from then on until it is released.
THEOREM HandedOverOnce == Spec => []HandedOnce
<1>1. FetchInv => HandedOnce
  <2> SUFFICES ASSUME FetchInv
               PROVE  HandedOnce
    OBVIOUS
  <2>1. \A s \in Slots : Cardinality(Holders(s)) <= 1
    <3> SUFFICES ASSUME NEW s \in Slots
                 PROVE  Cardinality(Holders(s)) <= 1
      OBVIOUS
    <3>1. Holders(s) \subseteq {mutex[s]}
      BY DEF FetchInv, LocksInv, Holders
    <3>2. IsFiniteSet({mutex[s]}) /\ Cardinality({mutex[s]}) = 1
      BY FS_Singleton
    <3>3. /\ IsFiniteSet(Holders(s))
          /\ Cardinality(Holders(s)) <= Cardinality({mutex[s]})
      BY <3>1, <3>2, FS_Subset
    <3>4. QED
      BY <3>2, <3>3
  <2>2. ASSUME NEW i \in DOMAIN list
        PROVE  /\ Holders(list[i]) = {} /\ placeOf[list[i]] \in Waiting
               /\ table[list[i]].obj = table[list[i]].chunk
    <3>1. list[i] \in Slots /\ Handed(list[i])
      BY <2>2 DEF FetchInv, TypeOK, Handed
    <3>2. /\ Holders(list[i]) = {} /\ table[list[i]].valid /\ ~OfTaken(list[i])
          /\ table[list[i]].obj = table[list[i]].chunk
      BY <3>1 DEF FetchInv, EntriesInv
    <3>3. PICK j \in Waiting : window[j].slot = list[i]
      BY <3>1, <3>2 DEF FetchInv, WindowInv
    <3>4. j # taken
      BY <3>2, <3>3 DEF OfTaken, Waiting, Places
    <3>5. QED
      BY <3>2, <3>3, <3>4 DEF FetchInv, WindowInv
  <2>3. QED
    BY <2>1, <2>2 DEF HandedOnce, FetchInv, EntriesInv
<1>2. QED
  BY <1>1, FetchCorrect, PTL

\* What was received is at its own place of the file.
FileKept == \A c \in received : file[c] = c

LEMMA NextFileKept == FetchInv /\ FileKept /\ [Next]_vars => FileKept'
<1> SUFFICES ASSUME FetchInv, FileKept, [Next]_vars
             PROVE  FileKept'
  OBVIOUS
<1>1. CASE Take
  <2> DEFINE s == Head(list)
             c == window[placeOf[s]].chunk
  <2>1. s \in Slots /\ placeOf[s] \in Waiting /\ received' = received
        /\ file' = [file EXCEPT ![c] = table[s].obj]
    BY <1>1, FirstHanded DEF Take, ChunkIn
  <2>2. c \notin received
    BY <2>1 DEF FetchInv, WindowInv
  <2>3. QED
    BY <2>1, <2>2 DEF FetchInv, TypeOK, FileKept
<1>2. CASE Release
  <2>1. received' = received \cup {window[taken].chunk} /\ file' = file
        /\ file[window[taken].chunk] = window[taken].chunk
    BY <1>2 DEF Release, FetchInv, CourseInv
  <2>2. QED
    BY <2>1 DEF FileKept
<1>3. CASE ~Take /\ ~Release
  <2>1. UNCHANGED <<file, received>>
    <3>1. CASE \E w \in Workers : WorkerStep(w) \/ \E c \in Chunks : Deliver(w, c)
      BY <3>1 DEF WorkerStep, Deliver, SearchMiss, SearchHit, MatchFails, MatchSucceeds, Put,
        MatchSegment, LockSegment, HandOver, fetch
    <3>2. CASE RequestStep
      BY <3>2 DEF RequestStep, Register, Round, FilledUp, GetHandle, SendInterest, Hit,
        FillFromStore, Crash, AppendHit, fetch
    <3>3. CASE CollectStep
      BY <1>3, <3>3 DEF CollectStep, Wait, WakeUp, Collect, Collected, EndRound, Finish, fetch
    <3>4. CASE (\E i \in Places : Resend(i)) \/ (\E s \in Slots : Expire(s)) \/ UNCHANGED vars
      BY <3>4 DEF Resend, Expire, vars, fetch
    <3>5. QED
      BY <3>1, <3>2, <3>3, <3>4 DEF Next, RetrieverStep
  <2>2. QED
    BY <2>1 DEF FileKept
<1>4. QED
  BY <1>1, <1>2, <1>3

\* What is returned holds every chunk at its own place, and chunk 0 is there before any other
\* is asked for.
THEOREM FileIsRight == Spec => []FileRight
<1>1. Init => FetchInv /\ FileKept
  BY InitFetchInv DEF Init, FileKept
<1>2. FetchInv /\ FileKept /\ [Next]_vars => (FetchInv /\ FileKept)'
  BY NextFetchInv, NextFileKept
<1>3. FetchInv /\ FileKept => FileRight
  BY DEF FetchInv, CourseInv, FileKept, FileRight
<1>4. QED
  BY <1>1, <1>2, <1>3, PTL DEF Spec

\* The thread that has an entry's mutex is past the search.
LEMMA EntryHolder ==
  ASSUME FetchInv, NEW s \in Slots, mutex[s] # NoThread
  PROVE  \E w \in Workers : mutex[s] = w /\ worker[w].slot = s
                            /\ worker[w].at \in {"put", "match", "lockSegment", "append"}
<1>1. PICK w \in Workers : mutex[s] = w
  BY DEF FetchInv, TypeOK
<1>2. w \in Holders(s)
  BY <1>1 DEF FetchInv, LocksInv
<1>3. s # 0 /\ worker[w].at # "idle"
  BY <1>2, FetchAssumption DEF Slots, Holders, FetchInv, WorkersInv
<1>4. QED
  BY <1>1, <1>2, <1>3 DEF Holders, FetchInv, TypeOK, Labels

\* With nobody in possession of the segment nobody waits for long: whoever has a mutex goes on.
LEMMA SegmentFree ==
  ASSUME FetchInv, Standstill, segMutex = NoThread
  PROVE  FALSE
<1>1. \A w \in Workers : WorkerWaits(w) \/ worker[w].at = "idle"
  BY DEF Standstill
<1>2. \A w \in Workers : worker[w].at \notin {"put", "append", "lockSegment"}
  BY <1>1 DEF WorkerWaits
<1>3. segmentsLock = NoThread
  BY <1>2 DEF FetchInv, TypeOK, LocksInv
<1>4. \A w \in Workers : worker[w].at # "match"
  BY <1>1, <1>3 DEF WorkerWaits
<1>5. \A s \in Slots : mutex[s] = NoThread
  BY <1>2, <1>4, EntryHolder
<1>6. \A w \in Workers : worker[w].at # "lockEntry"
  <2> SUFFICES ASSUME NEW w \in Workers, worker[w].at = "lockEntry"
               PROVE  FALSE
    OBVIOUS
  <2>1. worker[w].slot \in Slots
    BY DEF FetchInv, TypeOK, WorkersInv
  <2>2. QED
    BY <1>1, <1>5, <2>1 DEF WorkerWaits
<1>7. pc # "lockHit"
  <2> SUFFICES ASSUME pc = "lockHit"
               PROVE  FALSE
    OBVIOUS
  <2>1. Current \in Slots
    BY CurrentEntry
  <2>2. ~RetrieverWaits
    BY <1>5, <2>1 DEF RetrieverWaits
  <2>3. QED
    BY <2>2 DEF Standstill
<1>8. pitLock = NoThread
  BY <1>6, <1>7 DEF FetchInv, TypeOK, LocksInv
<1>9. \A w \in Workers : ~WorkerWaits(w)
  BY <1>2, <1>4, <1>6, <1>8 DEF WorkerWaits
<1>10. RetrieverWaits
  BY <1>9 DEF Standstill
<1>11. pc = "fill" \/ pc = "resend"
  <2>1. pc # "take"
    BY FetchAssumption DEF FetchInv, LocksInv
  <2>2. QED
    BY <1>3, <1>7, <1>8, <1>10, <2>1 DEF RetrieverWaits
<1>12. \E s \in Slots : mutex[s] # NoThread
  BY <1>3, <1>7, <1>8, <1>10, <1>11 DEF RetrieverWaits, FreeSlots, FetchInv, WindowInv
<1>13. QED
  BY <1>5, <1>12

\* retrieve_segment has the segment while it copies chunks and gives their entries back.
LEMMA SegmentKept ==
  ASSUME FetchInv, Standstill, segMutex = Retriever
  PROVE  Circle
<1>1. pc \in {"take", "release"}
  BY DEF FetchInv, LocksInv
<1>2. RetrieverWaits
  BY <1>1 DEF Standstill
<1>3. pc = "release"
  <2> SUFFICES ASSUME pc = "take"
               PROVE  FALSE
    BY <1>1
  <2>1. list # <<>> /\ mutex[Head(list)] # NoThread
    BY <1>2 DEF RetrieverWaits
  <2>2. Head(list) \in Slots /\ Holders(Head(list)) = {}
    BY <2>1, FirstHanded DEF FetchInv, EntriesInv
  <2>3. PICK w \in Workers : mutex[Head(list)] = w
    BY <2>1, <2>2, EntryHolder
  <2>4. QED
    BY <2>2, <2>3 DEF FetchInv, LocksInv
<1>4. pitLock # NoThread /\ pitLock \in Workers
  BY <1>2, <1>3 DEF RetrieverWaits, FetchInv, TypeOK, LocksInv
<1> DEFINE s == worker[pitLock].slot
<1>5. worker[pitLock].at = "lockEntry" /\ s \in Slots
  BY <1>4 DEF FetchInv, TypeOK, LocksInv, WorkersInv
<1>6. mutex[s] # NoThread
  BY <1>4, <1>5 DEF Standstill, WorkerWaits
<1>7. PICK w \in Workers : mutex[s] = w /\ worker[w].at \in {"put", "match", "lockSegment", "append"}
  BY <1>5, <1>6, EntryHolder
<1>8. worker[w].at = "lockSegment" \/ (worker[w].at = "match" /\ segmentsLock # NoThread)
  BY <1>7 DEF Standstill, WorkerWaits
<1>9. QED
  BY <1>3, <1>4, <1>7, <1>8 DEF Circle

LEMMA Standing ==
  ASSUME FetchInv
  PROVE  StopsInCircle
<1> SUFFICES ASSUME Standstill
             PROVE  Circle
  BY DEF StopsInCircle
<1>1. segMutex \notin Workers
  <2> SUFFICES ASSUME NEW w \in Workers, segMutex = w
               PROVE  FALSE
    OBVIOUS
  <2>1. worker[w].at = "append"
    BY DEF FetchInv, LocksInv
  <2>2. QED
    BY <2>1 DEF Standstill, WorkerWaits
<1>2. segMutex \in {Retriever, NoThread}
  BY <1>1 DEF FetchInv, TypeOK
<1>3. QED
  BY <1>2, SegmentFree, SegmentKept

\* The four kinds of mutex bring retrieve_segment and the pipeline to a standstill in one way only, the circle
\* over PIT_release, however many threads and chunks there are; two chunks' threads, one waiting for the list
\* of segments that the other has, can close it too.
THEOREM StandstillIsCircle == Spec => []StopsInCircle
<1>1. QED
  BY Standing, FetchCorrect, PTL

\* The segment on retrieve_segment's stack is there while a thread of the pipeline uses it, only the circle
\* stops them, and a retrieval that ends leaves nothing behind.
THEOREM SegmentIsThere == Spec => []SegmentInv
<1>1. FetchInv => SegmentInv
  <2> SUFFICES ASSUME FetchInv
               PROVE  SegmentInv
    OBVIOUS
  <2>1. ASSUME \E s \in Slots : table[s].valid
        PROVE  registered /\ pc # "done"
    <3>1. PICK i \in Waiting : window[i].chunk \in Chunks /\ window[i].chunk \notin received
      BY <2>1 DEF FetchInv, WindowInv
    <3>2. QED
      BY <3>1 DEF FetchInv, CourseInv
  <2>2. \A w \in Workers : worker[w].slot # 0 => worker[w].slot \in Slots /\ table[worker[w].slot].valid
    BY DEF FetchInv, WorkersInv, TypeOK
  <2>3. SegmentAlive
    BY <2>1, <2>2 DEF SegmentAlive, FetchInv, WorkersInv
  <2>4. EntriesReturned
    <3> SUFFICES ASSUME pc = "done"
                 PROVE  /\ list = <<>> /\ \A s \in Slots : ~table[s].valid
                        /\ segMutex = NoThread /\ \A s \in Slots : mutex[s] = NoThread
      BY DEF EntriesReturned
    <3>1. \A s \in Slots : ~table[s].valid
      BY <2>1
    <3>2. \A w \in Workers : worker[w].slot = 0 /\ worker[w].at \in {"idle", "search"}
      BY <2>2, <3>1 DEF FetchInv, WorkersInv
    <3>3. segMutex = NoThread
      BY <3>2 DEF FetchInv, LocksInv, TypeOK
    <3>4. \A s \in Slots : mutex[s] = NoThread
      <4>1. \A s \in Slots : s # 0
        BY FetchAssumption DEF Slots
      <4>2. QED
        BY <3>2, <4>1 DEF FetchInv, LocksInv, TypeOK, Holders
    <3>5. list = <<>>
      <4>1. \A s \in Slots : ~Handed(s)
        BY <3>1 DEF FetchInv, EntriesInv
      <4>2. list \in Seq(Slots)
        BY DEF FetchInv, TypeOK
      <4>3. DOMAIN list = 1..Len(list) /\ Len(list) \in Nat
        BY <4>2
      <4>4. \A i \in DOMAIN list : list[i] \in Slots
        BY <4>2
      <4>5. ASSUME Len(list) # 0
            PROVE  FALSE
        <5>1. 1 \in DOMAIN list
          BY <4>3, <4>5
        <5>2. list[1] \in Slots /\ Handed(list[1])
          BY <4>4, <5>1 DEF Handed
        <5>3. QED
          BY <4>1, <5>2
      <4>6. QED
        BY <4>2, <4>5
    <3>6. QED
      BY <3>1, <3>3, <3>4, <3>5
  <2>5. StopsInCircle
    BY Standing
  <2>6. QED
    BY <2>3, <2>4, <2>5 DEF SegmentInv
<1>2. QED
  BY <1>1, FetchCorrect, PTL

\* Every thread of the circle waits for the next: nothing that happens opens it again.
LEMMA CircleHolds == FetchInv /\ Circle /\ [Next]_vars => Circle'
<1> SUFFICES ASSUME FetchInv, Circle, [Next]_vars
             PROVE  Circle'
  OBVIOUS
<1>1. pc = "release" /\ pitLock \in Workers /\ segMutex = Retriever
  BY DEF Circle, FetchInv, LocksInv
<1>2. PICK v \in Workers :
        /\ mutex[worker[pitLock].slot] = v
        /\ \/ worker[v].at = "lockSegment"
           \/ worker[v].at = "match" /\ segmentsLock # NoThread
  BY DEF Circle
<1>3. worker[pitLock].at = "lockEntry" /\ pitLock # NoThread /\ segmentsLock # NoThread /\ v # NoThread
  BY <1>1, <1>2, FetchAssumption DEF FetchInv, LocksInv
<1>4. ASSUME UNCHANGED <<locks, pc>>, NEW u \in Workers, worker[u].at \in {"put", "idle"},
             \A w \in Workers : w # u => worker'[w] = worker[w]
      PROVE  Circle'
  BY <1>1, <1>2, <1>3, <1>4 DEF Circle, locks
<1>5. ASSUME NEW u \in Workers, WorkerStep(u) \/ \E c \in Chunks : Deliver(u, c)
      PROVE  Circle'
  <2>1. ~SearchMiss(u) /\ ~SearchHit(u)
    BY <1>3 DEF SearchMiss, SearchHit
  <2>2. ~MatchFails(u) /\ ~MatchSucceeds(u)
    <3> SUFFICES ASSUME worker[u].at = "lockEntry", mutex[worker[u].slot] = NoThread
                 PROVE  FALSE
      BY DEF MatchFails, MatchSucceeds
    <3>1. u = pitLock
      BY DEF FetchInv, LocksInv
    <3>2. QED
      BY <1>2, <1>3, <3>1
  <2>3. ~MatchSegment(u)
    BY <1>3 DEF MatchSegment
  <2>4. ~LockSegment(u) /\ ~HandOver(u)
    BY <1>1, FetchAssumption DEF LockSegment, HandOver, FetchInv, LocksInv
  <2>5. Put(u) \/ \E c \in Chunks : Deliver(u, c)
    BY <1>5, <2>1, <2>2, <2>3, <2>4 DEF WorkerStep
  <2>6. UNCHANGED <<locks, pc>> /\ worker[u].at \in {"put", "idle"}
        /\ \A w \in Workers : w # u => worker'[w] = worker[w]
    BY <2>5 DEF Put, Deliver, At, locks, FetchInv, TypeOK
  <2>7. QED
    BY <1>4, <2>6
<1>6. ~RetrieverStep
  BY <1>1, <1>3 DEF RetrieverStep, RequestStep, CollectStep, Register, Round, FilledUp, GetHandle,
    SendInterest, Hit, FillFromStore, Crash, AppendHit, Wait, WakeUp, Collect, Take, Release,
    Collected, EndRound, Finish
<1>7. CASE (\E s \in Slots : Expire(s)) \/ UNCHANGED vars
  <2>1. UNCHANGED <<locks, pc, worker>>
    BY <1>7 DEF Expire, vars
  <2>2. QED
    BY <2>1, <1>1, <1>2 DEF Circle, locks
<1>8. ~(\E i \in Places : Resend(i))
  BY <1>1 DEF Resend
<1>9. QED
  BY <1>5, <1>6, <1>7, <1>8 DEF Next

\* Once retrieve_segment, a thread at the table and a thread with an entry wait for each other in a circle, no
\* timeout, no packet and no other thread makes them go on: the retrieval is lost for good.
THEOREM CircleIsForever == Spec => CircleStays
<1>1. FetchInv /\ [Next]_vars => [Circle => Circle']_vars
  BY CircleHolds
<1>2. QED
  BY <1>1, FetchCorrect, PTL DEF Spec, CircleStays
=============================================================================
