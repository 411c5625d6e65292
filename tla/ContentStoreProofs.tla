------------------------- MODULE ContentStoreProofs -------------------------
(***************************************************************************)
(* Theorems about the content store, for every table, every set of names   *)
(* and objects and every number of threads.                                *)
(***************************************************************************)
EXTENDS ContentStore, FiniteSetTheorems, TLAPS

\* The pointer of a thread that has found nothing is no segment.
LEMMA SegmentsNumbered == NoSegment \notin Segments
<1>1. Cardinality(Threads) \in Nat
  BY FS_CardinalityType, StoreAssumption
<1>2. QED
  BY <1>1, StoreAssumption DEF NoSegment, Segments

\* The hash functions give slots of the table.
LEMMA HashedSlots ==
  ASSUME NEW k \in Keys, NEW i \in DOMAIN Hash[k]
  PROVE  Hash[k][i] \in Slots
<1>1. Hash[k] \in Seq(Slots)
  BY StoreAssumption
<1>2. QED
  BY <1>1

\* hash_put writes to slots of the table, also where it reads past the end of its array
\* and does not go astray altogether.
LEMMA PlacesAreSlots ==
  ASSUME NEW k \in Keys
  PROVE  Places(k) \subseteq Slots
BY HashedSlots DEF Places, Evicted, First, PositionsWith

\* hash_get returns what is in a slot that has the key, or nothing.
LEMMA FoundInSlot ==
  ASSUME NEW k \in Keys \cup {NoKey}, NEW g \in Found(k), g # NoSegment
  PROVE  \E s \in Slots : table[s].key = k /\ k # NoKey /\ table[s].seg = g
<1>1. k # NoKey
  BY DEF Found
<1>2. PICK i \in First(PositionsWith(k, {k})) : g = table[Hash[k][i]].seg
  BY DEF Found
<1>3. i \in DOMAIN Hash[k] /\ table[Hash[k][i]].key = k
  BY <1>2 DEF First, PositionsWith
<1>4. QED
  BY <1>1, <1>2, <1>3, HashedSlots

\* So it returns a segment or nothing.
LEMMA FoundIsSegment ==
  ASSUME TypeOK, NEW k \in Keys \cup {NoKey}, NEW g \in Found(k)
  PROVE  g \in Segments \cup {NoSegment}
BY FoundInSlot DEF TypeOK

\* A segment that CS_put and CS_putSegment build has the type of one.
LEMMA NewSegmentType ==
  ASSUME NEW o \in Wholes, NEW chunks \in Seq(Chunks)
  PROVE  NewSegment(o, chunks) \in Segment
BY DEF NewSegment, Segment

\* The chunks that come with an index object are chunks.
LEMMA ChunkListsType ==
  ASSUME NEW o \in Wholes, NEW chunks \in ChunkLists(o)
  PROVE  chunks \in Seq(Chunks) /\ Range(chunks) \subseteq Objects
<1>1. CASE chunks = <<>>
  BY <1>1 DEF Range
<1>2. CASE chunks # <<>>
  <2>1. PICK c \in Chunks : chunks = <<c>>
    BY <1>2 DEF ChunkLists
  <2>2. Range(chunks) = {c}
    BY <2>1 DEF Range
  <2>3. QED
    BY <2>1, <2>2 DEF Chunks
<1>3. QED
  BY <1>1, <1>2

\* An array of chunks that grows by one chunk is one of chunks and holes.
LEMMA WithChunkType ==
  ASSUME NEW chunks \in Seq(Chunks \cup {Garbage}), NEW o \in Chunks
  PROVE  WithChunk(chunks, o) \in Seq(Chunks \cup {Garbage})
<1> DEFINE n == IF o.name.seq < Len(chunks) THEN Len(chunks) ELSE o.name.seq + 1
<1>1. o.name.seq \in Nat
  BY StoreAssumption DEF Chunks, Object, Name, Whole
<1>2. n \in Nat
  BY <1>1
<1>3. WithChunk(chunks, o) \in [1..n -> Chunks \cup {Garbage}]
  BY <1>1 DEF WithChunk
<1> HIDE DEF n
<1>4. QED
  BY <1>2, <1>3

\* malloc returns a segment that is in no use.
LEMMA FreeSegment ==
  ASSUME NEW g \in First(Free)
  PROVE  g \in Segments /\ ~segs[g].live /\ \A t \in Threads : ptr[t] # g
BY DEF First, Free

\* hash_put keeps the types of the table and of memory.
LEMMA HashPutTypes ==
  ASSUME TypeOK, NEW k \in Keys, NEW new \in Segment, NEW s \in Slots, HashPut(k, new, s)
  PROVE  /\ table' \in [Slots -> [key : Keys \cup {NoKey}, seg : Segments \cup {NoSegment}]]
         /\ segs' \in [Segments -> Segment]
<1>1. PICK g \in First(Free) :
        /\ table' = [table EXCEPT ![s] = [key |-> k, seg |-> g]]
        /\ segs' = [x \in Segments |->
                      IF x = g THEN new ELSE IF x = table[s].seg THEN Freed ELSE segs[x]]
  BY DEF HashPut
<1>2. g \in Segments
  BY FreeSegment
<1>3. Freed \in Segment
  BY DEF Freed, Segment
<1>4. table' \in [Slots -> [key : Keys \cup {NoKey}, seg : Segments \cup {NoSegment}]]
  BY <1>1, <1>2 DEF TypeOK
<1>5. segs' \in [Segments -> Segment]
  BY <1>1, <1>3 DEF TypeOK
<1>6. QED
  BY <1>4, <1>5

\* hash_put frees the segment that is in the way of the new one, and only that one, so
\* that the table still owns every segment there is.
LEMMA HashPutOwns ==
  ASSUME TypeOK, SegmentsOwned, NEW k \in Keys, NEW new \in Segment, new.live,
         NEW s \in Slots, HashPut(k, new, s)
  PROVE  SegmentsOwned'
<1>1. PICK g \in First(Free) :
        /\ table' = [table EXCEPT ![s] = [key |-> k, seg |-> g]]
        /\ segs' = [x \in Segments |->
                      IF x = g THEN new ELSE IF x = table[s].seg THEN Freed ELSE segs[x]]
  BY DEF HashPut
<1>2. g \in Segments /\ ~segs[g].live /\ g # NoSegment
  BY FreeSegment, SegmentsNumbered
<1>3. \A u \in Slots : table[u].seg # g
  BY <1>2 DEF SegmentsOwned, TypeOK
<1>4. table'[s] = [key |-> k, seg |-> g] /\ \A u \in Slots \ {s} : table'[u] = table[u]
  BY <1>1 DEF TypeOK
<1>5. /\ segs'[g] = new
      /\ \A x \in Segments \ {g} : segs'[x] = IF x = table[s].seg THEN Freed ELSE segs[x]
  BY <1>1, <1>2
<1>6. \A u \in Slots \ {s} : table[u].key # NoKey =>
         table[u].seg \in Segments \ {g} /\ table[u].seg # table[s].seg
  BY <1>3 DEF SegmentsOwned, TypeOK
<1>7. ASSUME NEW u \in Slots
      PROVE  IF table'[u].key = NoKey THEN table'[u].seg = NoSegment
             ELSE table'[u].seg # NoSegment /\ segs'[table'[u].seg].live
  <2>1. CASE u = s
    BY <1>2, <1>4, <1>5, <2>1, StoreAssumption
  <2>2. CASE u # s
    BY <1>4, <1>5, <1>6, <2>2 DEF SegmentsOwned
  <2>3. QED
    BY <2>1, <2>2
<1>8. ASSUME NEW x \in Segments, segs'[x].live
      PROVE  \E u \in Slots : table'[u].seg = x
  <2>1. CASE x = g
    BY <1>4, <2>1
  <2>2. CASE x # g
    <3>1. x # table[s].seg /\ segs[x].live
      BY <1>5, <1>8, <2>2 DEF Freed
    <3>2. PICK u \in Slots : table[u].seg = x
      BY <3>1 DEF SegmentsOwned
    <3>3. QED
      BY <1>4, <3>1, <3>2
  <2>3. QED
    BY <2>1, <2>2
<1>9. ASSUME NEW u \in Slots, NEW v \in Slots,
             table'[u].seg = table'[v].seg, table'[u].seg # NoSegment
      PROVE  u = v
  BY <1>3, <1>4, <1>9 DEF SegmentsOwned
<1>10. QED
  BY <1>7, <1>8, <1>9 DEF SegmentsOwned

-----------------------------------------------------------------------------

\* At the start nothing is allocated.
LEMMA InitStore == Init => TypeOK /\ SegmentsOwned
<1> SUFFICES ASSUME Init
             PROVE  TypeOK /\ SegmentsOwned
  OBVIOUS
<1>1. Freed \in Segment /\ ~Freed.live
  BY DEF Freed, Segment
<1>2. TypeOK
  BY <1>1 DEF Init, TypeOK
<1>3. SegmentsOwned
  BY <1>1 DEF Init, SegmentsOwned
<1>4. QED
  BY <1>2, <1>3

\* A thread that returns from a call is idle and has no pointer.
LEMMA ReturnTypes ==
  ASSUME TypeOK, NEW t \in Threads, Return(t)
  PROVE  /\ pc' \in [Threads -> {"idle", "insert", "store", "copy"}]
         /\ op' \in [Threads -> Objects \cup Name \cup {NoObject}]
         /\ ptr' \in [Threads -> Segments \cup {NoSegment}]
         /\ \A u \in Threads :
               /\ pc'[u] = "insert" => op'[u] \in Wholes
               /\ pc'[u] = "store" => op'[u] \in Objects /\ ptr'[u] \in Segments
               /\ pc'[u] = "copy" => op'[u] \in Name /\ ptr'[u] \in Segments
BY DEF Return, TypeOK

\* Misused memory leaves the rest as it is.
LEMMA BreakTypes ==
  ASSUME TypeOK, Break
  PROVE  TypeOK'
BY DEF Break, TypeOK

\* The object put is in the sets the constants declare.
LEMMA ObjectTypes ==
  ASSUME NEW o \in Objects
  PROVE  /\ o.name \in Name /\ o.name.key \in Keys
         /\ Prefix(o) \in Keys \cup {NoKey}
         /\ IsChunk(o) => o \in Chunks
         /\ ~IsChunk(o) => o \in Wholes
<1>1. o.name \in Name /\ o.name.key \in Keys
  BY StoreAssumption DEF Object, Name
<1>2. QED
  BY <1>1, StoreAssumption DEF Prefix, IsChunk, Chunks, Wholes

\* CS_put looks a segment up: types.
LEMMA BeginPutTypes ==
  ASSUME TypeOK, NEW t \in Threads, NEW o \in Objects, BeginPut(t, o)
  PROVE  TypeOK'
<1>1. PICK g \in Found(Prefix(o)) :
        /\ IsChunk(o) => g # NoSegment
        /\ pc' = [pc EXCEPT ![t] = IF g = NoSegment THEN "insert" ELSE "store"]
        /\ ptr' = [ptr EXCEPT ![t] = g]
  BY DEF BeginPut
<1>2. g \in Segments \cup {NoSegment}
  BY FoundIsSegment, ObjectTypes
<1>3. g = NoSegment => o \in Wholes
  BY <1>1, ObjectTypes
<1>4. op' = [op EXCEPT ![t] = o] /\ answer' = NoAnswer /\ UNCHANGED <<table, segs, last, broken>>
  BY DEF BeginPut
<1>5. /\ pc' \in [Threads -> {"idle", "insert", "store", "copy"}]
      /\ op' \in [Threads -> Objects \cup Name \cup {NoObject}]
      /\ ptr' \in [Threads -> Segments \cup {NoSegment}]
  BY <1>1, <1>2, <1>4 DEF TypeOK
<1>6. ASSUME NEW u \in Threads
      PROVE  /\ pc'[u] = "insert" => op'[u] \in Wholes
             /\ pc'[u] = "store" => op'[u] \in Objects /\ ptr'[u] \in Segments
             /\ pc'[u] = "copy" => op'[u] \in Name /\ ptr'[u] \in Segments
  BY <1>1, <1>2, <1>3, <1>4 DEF TypeOK
<1>7. QED
  BY <1>4, <1>5, <1>6 DEF TypeOK

\* A new segment goes into the table: types and ownership.
LEMMA InsertInv ==
  ASSUME TypeOK, SegmentsOwned, NEW t \in Threads, Insert(t)
  PROVE  TypeOK' /\ SegmentsOwned'
<1>1. op[t] \in Wholes /\ op[t] \in Objects
  BY DEF Insert, At, TypeOK, Wholes
<1>2. op[t].name \in Name /\ op[t].name.key \in Keys
  BY <1>1, ObjectTypes
<1>3. CASE Break
  BY <1>3, BreakTypes DEF Break, SegmentsOwned
<1>4. CASE ~Break
  <2>1. PICK s \in Places(op[t].name.key) : HashPut(op[t].name.key, NewSegment(op[t], <<>>), s)
    BY <1>4 DEF Insert, HashPutBreaks
  <2>2. /\ last' = [last EXCEPT ![op[t].name] = op[t]]
        /\ Return(t) /\ answer' = NoAnswer /\ broken' = broken
    BY <1>4 DEF Insert, HashPutBreaks
  <2>3. s \in Slots
    BY <1>2, PlacesAreSlots
  <2>4. NewSegment(op[t], <<>>) \in Segment /\ NewSegment(op[t], <<>>).live
    <3>1. <<>> \in Seq(Chunks)
      OBVIOUS
    <3>2. QED
      BY <1>1, <3>1, NewSegmentType DEF NewSegment
  <2>5. /\ table' \in [Slots -> [key : Keys \cup {NoKey}, seg : Segments \cup {NoSegment}]]
        /\ segs' \in [Segments -> Segment]
    BY <1>2, <2>1, <2>3, <2>4, HashPutTypes
  <2>6. last' \in [Name -> Objects \cup {NoObject}]
    BY <1>1, <1>2, <2>2 DEF TypeOK
  <2>7. TypeOK'
    BY <2>2, <2>5, <2>6, ReturnTypes DEF TypeOK
  <2>8. SegmentsOwned'
    BY <1>2, <2>1, <2>3, <2>4, HashPutOwns
  <2>9. QED
    BY <2>7, <2>8
<1>5. QED
  BY <1>3, <1>4

\* A segment that was found gets an object: types and ownership.
LEMMA StoreAction ==
  ASSUME TypeOK, SegmentsOwned, NEW t \in Threads, Store(t)
  PROVE  TypeOK' /\ SegmentsOwned'
<1> DEFINE g == ptr[t]
           o == op[t]
<1>1. o \in Objects /\ g \in Segments
  BY DEF Store, At, TypeOK
<1>2. CASE Break
  BY <1>2, BreakTypes DEF Break, SegmentsOwned
<1>3. CASE ~Break
  <2>1. /\ segs[g].live
        /\ segs' = [segs EXCEPT ![g] = IF IsChunk(o) THEN [segs[g] EXCEPT !.chunks = WithChunk(segs[g].chunks, o)]
                                       ELSE [segs[g] EXCEPT !.index = o]]
        /\ last' = [last EXCEPT ![o.name] = o]
        /\ Return(t) /\ answer' = NoAnswer /\ UNCHANGED <<table, broken>>
    BY <1>3 DEF Store
  <2>2. segs[g] \in Segment
    BY <1>1 DEF TypeOK
  <2>3. IsChunk(o) => WithChunk(segs[g].chunks, o) \in Seq(Chunks \cup {Garbage})
    BY <1>1, <2>2, WithChunkType, ObjectTypes DEF Segment
  <2>4. ~IsChunk(o) => o \in Wholes
    BY <1>1, ObjectTypes
  <2>5. segs'[g] \in Segment /\ segs'[g].live
    <3>1. segs'[g] = IF IsChunk(o) THEN [segs[g] EXCEPT !.chunks = WithChunk(segs[g].chunks, o)]
                     ELSE [segs[g] EXCEPT !.index = o]
      BY <1>1, <2>1 DEF TypeOK
    <3>2. CASE IsChunk(o)
      BY <2>1, <2>2, <2>3, <3>1, <3>2 DEF Segment
    <3>3. CASE ~IsChunk(o)
      BY <2>1, <2>2, <2>4, <3>1, <3>3 DEF Segment
    <3>4. QED
      BY <3>2, <3>3
  <2>6. \A x \in Segments \ {g} : segs'[x] = segs[x]
    BY <2>1 DEF TypeOK
  <2>7. segs' \in [Segments -> Segment]
    BY <1>1, <2>1, <2>5, <2>6 DEF TypeOK
  <2>8. last' \in [Name -> Objects \cup {NoObject}]
    BY <1>1, <2>1, ObjectTypes DEF TypeOK
  <2>9. TypeOK'
    BY <2>1, <2>7, <2>8, ReturnTypes DEF TypeOK
  <2>10. \A x \in Segments : segs'[x].live = segs[x].live
    BY <2>1, <2>5, <2>6
  <2>11. SegmentsOwned'
    BY <2>1, <2>10 DEF SegmentsOwned, TypeOK
  <2>12. QED
    BY <2>9, <2>11
<1>4. QED
  BY <1>2, <1>3

\* A segment is published with its chunks: types and ownership.
LEMMA PutSegmentInv ==
  ASSUME TypeOK, SegmentsOwned, NEW t \in Threads, NEW o \in Wholes,
         NEW chunks \in ChunkLists(o), PutSegment(t, o, chunks)
  PROVE  TypeOK' /\ SegmentsOwned'
<1>1. o \in Objects /\ o.name.key \in Keys
  BY ObjectTypes DEF Wholes
<1>2. chunks \in Seq(Chunks) /\ Range(chunks) \subseteq Objects
  BY ChunkListsType
<1>3. CASE Break
  BY <1>3, BreakTypes DEF Break, SegmentsOwned
<1>4. CASE ~Break
  <2>1. PICK s \in Places(o.name.key) : HashPut(o.name.key, NewSegment(o, chunks), s)
    BY <1>4 DEF PutSegment, HashPutBreaks
  <2>2. /\ last' = [n \in Name |-> LET new == {p \in {o} \cup Range(chunks) : p.name = n}
                                   IN  IF new = {} THEN last[n] ELSE CHOOSE p \in new : TRUE]
        /\ answer' = NoAnswer /\ UNCHANGED <<pc, op, ptr, broken>>
    BY <1>4 DEF PutSegment, HashPutBreaks
  <2>3. s \in Slots
    BY <1>1, PlacesAreSlots
  <2>4. NewSegment(o, chunks) \in Segment /\ NewSegment(o, chunks).live
    BY <1>2, NewSegmentType DEF NewSegment
  <2>5. /\ table' \in [Slots -> [key : Keys \cup {NoKey}, seg : Segments \cup {NoSegment}]]
        /\ segs' \in [Segments -> Segment]
    BY <1>1, <2>1, <2>3, <2>4, HashPutTypes
  <2>6. last' \in [Name -> Objects \cup {NoObject}]
    <3>1. ASSUME NEW n \in Name, NEW new \in SUBSET ({o} \cup Range(chunks))
          PROVE  (IF new = {} THEN last[n] ELSE CHOOSE p \in new : TRUE) \in Objects \cup {NoObject}
      BY <1>1, <1>2 DEF TypeOK
    <3>2. QED
      BY <2>2, <3>1
  <2>7. TypeOK'
    BY <2>2, <2>5, <2>6 DEF TypeOK
  <2>8. SegmentsOwned'
    BY <1>1, <2>1, <2>3, <2>4, HashPutOwns
  <2>9. QED
    BY <2>7, <2>8
<1>5. QED
  BY <1>3, <1>4

\* CS_get looks a segment up: types.
LEMMA BeginGetTypes ==
  ASSUME TypeOK, NEW t \in Threads, NEW n \in Name, BeginGet(t, n)
  PROVE  TypeOK'
<1>1. n.key \in Keys
  BY DEF Name
<1>2. UNCHANGED <<table, segs, last, broken>>
  BY DEF BeginGet
<1>3. CASE Answer(n, NoObject) /\ UNCHANGED <<pc, op, ptr>>
  BY <1>2, <1>3 DEF Answer, TypeOK
<1>4. CASE ~(Answer(n, NoObject) /\ UNCHANGED <<pc, op, ptr>>)
  <2>1. /\ pc' = [pc EXCEPT ![t] = "copy"]
        /\ op' = [op EXCEPT ![t] = n]
        /\ answer' = NoAnswer
    BY <1>4 DEF BeginGet
  <2>2. PICK g \in Found(n.key) \ {NoSegment} : ptr' = [ptr EXCEPT ![t] = g]
    BY <1>4 DEF BeginGet
  <2>3. g \in Segments
    BY <1>1, <2>2, FoundIsSegment
  <2>4. QED
    BY <1>2, <2>1, <2>2, <2>3 DEF TypeOK
<1>5. QED
  BY <1>3, <1>4

\* The object is copied: types.
LEMMA CopyTypes ==
  ASSUME TypeOK, NEW t \in Threads, Copy(t)
  PROVE  TypeOK'
<1>1. op[t] \in Name /\ ptr[t] \in Segments
  BY DEF Copy, At, TypeOK
<1>2. CASE Break
  BY <1>2, BreakTypes
<1>3. CASE ~Break
  <2>1. /\ Contents(ptr[t], op[t]) # Garbage
        /\ Answer(op[t], Contents(ptr[t], op[t])) /\ Return(t)
        /\ UNCHANGED <<table, segs, last, broken>>
    BY <1>3 DEF Copy
  <2>2. segs[ptr[t]] \in Segment
    BY <1>1 DEF TypeOK
  <2>3. op[t].seq = Whole \/ op[t].seq \in Nat
    BY <1>1, StoreAssumption DEF Name
  <2>4. Contents(ptr[t], op[t]) \in Objects \cup {NoObject, Garbage}
    <3>1. CASE op[t].seq = Whole
      BY <2>2, <3>1 DEF Contents, Segment, Wholes
    <3>2. CASE op[t].seq # Whole
      <4>1. segs[ptr[t]].chunks \in Seq(Chunks \cup {Garbage})
        BY <2>2 DEF Segment
      <4>2. QED
        BY <2>3, <3>2, <4>1 DEF Contents, Chunks
    <3>3. QED
      BY <3>1, <3>2
  <2>5. answer' \in [name : Name, obj : Objects \cup {NoObject}] \cup {NoAnswer}
    BY <1>1, <2>1, <2>4 DEF Answer
  <2>6. QED
    BY <2>1, <2>5, ReturnTypes DEF TypeOK
<1>4. QED
  BY <1>2, <1>3

\* Every step keeps the types and the ownership of segments.
LEMMA StepStore ==
  ASSUME TypeOK, SegmentsOwned, [Next]_vars
  PROVE  TypeOK' /\ SegmentsOwned'
<1>1. ASSUME NEW t \in Threads, NEW o \in Objects, BeginPut(t, o)
      PROVE  TypeOK' /\ SegmentsOwned'
  BY <1>1, BeginPutTypes DEF BeginPut, SegmentsOwned
<1>2. ASSUME NEW t \in Threads, Insert(t)
      PROVE  TypeOK' /\ SegmentsOwned'
  BY <1>2, InsertInv
<1>3. ASSUME NEW t \in Threads, Store(t)
      PROVE  TypeOK' /\ SegmentsOwned'
  BY <1>3, StoreAction
<1>4. ASSUME NEW t \in Threads, NEW o \in Wholes, NEW chunks \in ChunkLists(o),
             PutSegment(t, o, chunks)
      PROVE  TypeOK' /\ SegmentsOwned'
  BY <1>4, PutSegmentInv
<1>5. ASSUME NEW t \in Threads, NEW o \in Objects, BeginGet(t, o.name)
      PROVE  TypeOK' /\ SegmentsOwned'
  BY <1>5, BeginGetTypes, ObjectTypes DEF BeginGet, SegmentsOwned
<1>6. ASSUME NEW t \in Threads, Copy(t)
      PROVE  TypeOK' /\ SegmentsOwned'
  <2>1. UNCHANGED <<table, segs>>
    BY <1>6 DEF Copy, Break
  <2>2. QED
    BY <1>6, <2>1, CopyTypes DEF SegmentsOwned
<1>7. CASE UNCHANGED vars
  BY <1>7 DEF vars, TypeOK, SegmentsOwned
<1>8. QED
  BY <1>1, <1>2, <1>3, <1>4, <1>5, <1>6, <1>7 DEF Next

\* Every value of the store's state is of its type, and a thread that is to use what it
\* has found has found a segment.
THEOREM StoreTypes == Spec => []TypeOK
<1>1. Init => TypeOK /\ SegmentsOwned
  BY InitStore
<1>2. TypeOK /\ SegmentsOwned /\ [Next]_vars => (TypeOK /\ SegmentsOwned)'
  BY StepStore
<1>3. QED
  BY <1>1, <1>2, PTL DEF Spec

\* hash_put neither leaks a segment nor frees one twice, whatever slot it reads past
\* the end of its array and whatever it evicts.
THEOREM StoreOwnership == Spec => []SegmentsOwned
<1>1. Init => TypeOK /\ SegmentsOwned
  BY InitStore
<1>2. TypeOK /\ SegmentsOwned /\ [Next]_vars => (TypeOK /\ SegmentsOwned)'
  BY StepStore
<1>3. QED
  BY <1>1, <1>2, PTL DEF Spec

\* The two together: what holds of the store whatever names are put.
THEOREM StoreCorrect == Spec => []StoreInv
<1>1. TypeOK /\ SegmentsOwned => StoreInv
  BY DEF StoreInv
<1>2. QED
  BY <1>1, StoreTypes, StoreOwnership, PTL

-----------------------------------------------------------------------------
(* The store is a cache, if no name is another's without its last          *)
(* component.                                                              *)

\* Putting a key leaves it in no slot of its own but the one it is put into.
LEMMA PlacedOnly ==
  ASSUME TypeOK, KeyPlacedOnce, NEW k \in Keys, NEW s \in Places(k),
         NEW j \in DOMAIN Hash[k], table[Hash[k][j]].key = k
  PROVE  Hash[k][j] = s
<1> DEFINE usable == PositionsWith(k, {NoKey, k})
<1>1. Hash[k] \in Seq(Slots) /\ DOMAIN Hash[k] \subseteq Nat
  BY StoreAssumption
<1>2. j \in usable
  BY DEF PositionsWith
<1>3. PICK i \in First(usable) : s = Hash[k][i]
  BY <1>2 DEF Places
<1>4. i \in DOMAIN Hash[k] /\ table[s].key \in {NoKey, k} /\ \A u \in usable : i <= u
  BY <1>3 DEF First, PositionsWith
<1>5. CASE table[s].key = k
  BY <1>3, <1>4, <1>5 DEF KeyPlacedOnce
<1>6. CASE table[s].key = NoKey
  <2>1. PICK l \in 1..(i - 1) : Hash[k][l] = Hash[k][j]
    BY <1>3, <1>4, <1>6 DEF KeyPlacedOnce
  <2>2. l \in DOMAIN Hash[k] /\ l < i
    BY <1>1, <1>4, <2>1
  <2>3. l \in usable
    BY <2>1, <2>2 DEF PositionsWith
  <2>4. i <= l
    BY <1>4, <2>3
  <2>5. i \in Nat /\ l \in Nat
    BY <1>1, <1>4, <2>2
  <2>6. QED
    BY <2>2, <2>4, <2>5
<1>7. QED
  BY <1>4, <1>5, <1>6

\* Putting a key keeps every key in one place.
LEMMA PutKeepsPlaced ==
  ASSUME TypeOK, KeyPlacedOnce, NEW k \in Keys, NEW g, NEW s \in Places(k),
         table' = [table EXCEPT ![s] = [key |-> k, seg |-> g]]
  PROVE  KeyPlacedOnce'
<1> DEFINE usable == PositionsWith(k, {NoKey, k})
<1>1. s \in Slots /\ k # NoKey
  BY PlacesAreSlots, StoreAssumption
<1>2. table'[s].key = k /\ \A u \in Slots \ {s} : table'[u] = table[u]
  BY <1>1 DEF TypeOK
<1>3. SUFFICES ASSUME NEW h \in Keys, NEW i \in DOMAIN Hash[h], NEW j \in DOMAIN Hash[h],
                      table'[Hash[h][i]].key = h
               PROVE  /\ table'[Hash[h][j]].key = h => Hash[h][j] = Hash[h][i]
                      /\ table'[Hash[h][j]].key = NoKey =>
                            \E l \in 1..(j - 1) : Hash[h][l] = Hash[h][i]
  BY DEF KeyPlacedOnce
<1>4. Hash[h][i] \in Slots /\ Hash[h][j] \in Slots
  BY HashedSlots
<1>5. CASE h # k
  BY <1>1, <1>2, <1>3, <1>4, <1>5 DEF KeyPlacedOnce
<1>6. CASE h = k
  <2>1. Hash[k][i] = s
    BY <1>2, <1>3, <1>4, <1>6, PlacedOnly
  <2>2. table'[Hash[k][j]].key = k => Hash[k][j] = s
    BY <1>2, <1>4, <1>6, PlacedOnly
  <2>3. ASSUME table'[Hash[k][j]].key = NoKey
        PROVE  \E l \in 1..(j - 1) : Hash[k][l] = s
    <3>1. Hash[k][j] # s /\ j \in usable
      BY <1>1, <1>2, <1>4, <1>6, <2>3 DEF PositionsWith
    <3>2. PICK l \in First(usable) : s = Hash[k][l]
      BY <3>1 DEF Places
    <3>3. l \in DOMAIN Hash[k] /\ l <= j /\ l # j
      BY <3>1, <3>2 DEF First, PositionsWith
    <3>4. Hash[k] \in Seq(Slots)
      BY StoreAssumption
    <3>5. l \in 1..(j - 1)
      BY <1>6, <3>3, <3>4
    <3>6. QED
      BY <3>2, <3>5
  <2>4. QED
    BY <1>6, <2>1, <2>2, <2>3
<1>7. QED
  BY <1>5, <1>6

\* The names of a key's objects.
LEMMA NamesOfKey ==
  ASSUME NEW k \in Keys
  PROVE  WholeName(k) \in Name /\ WholeName(k).key = k /\ \A i : ChunkName(k, i).key = k
BY DEF WholeName, ChunkName, Name

\* Putting a segment that has what was last put under its names keeps the others so.
LEMMA PutKeepsCurrent ==
  ASSUME TypeOK, SegmentsOwned, KeyPlacedOnce, ContentCurrent,
         NEW k \in Keys, NEW s \in Places(k), NEW new, HashPut(k, new, s),
         new.index = last'[WholeName(k)],
         \A i \in DOMAIN new.chunks :
            ChunkName(k, i) \in Name /\ new.chunks[i] = last'[ChunkName(k, i)],
         \A n \in Name : n.key # k => last'[n] = last[n]
  PROVE  ContentCurrent'
<1>1. PICK g \in First(Free) :
        /\ table' = [table EXCEPT ![s] = [key |-> k, seg |-> g]]
        /\ segs' = [x \in Segments |->
                      IF x = g THEN new ELSE IF x = table[s].seg THEN Freed ELSE segs[x]]
  BY DEF HashPut
<1>2. g \in Segments /\ ~segs[g].live
  BY FreeSegment
<1>3. s \in Slots /\ k # NoKey
  BY PlacesAreSlots, StoreAssumption
<1>4. table'[s] = [key |-> k, seg |-> g] /\ \A u \in Slots \ {s} : table'[u] = table[u]
  BY <1>1, <1>3 DEF TypeOK
<1>5. SUFFICES ASSUME NEW h \in Keys, NEW i \in DOMAIN Hash[h], table'[Hash[h][i]].key = h
               PROVE  LET x == table'[Hash[h][i]].seg IN
                      /\ segs'[x].index = last'[WholeName(h)]
                      /\ \A l \in DOMAIN segs'[x].chunks :
                            segs'[x].chunks[l] # Garbage =>
                                /\ ChunkName(h, l) \in Name
                                /\ segs'[x].chunks[l] = last'[ChunkName(h, l)]
  BY DEF ContentCurrent, Current, WholeName, ChunkName, Name
<1>6. Hash[h][i] \in Slots
  BY HashedSlots
<1>7. CASE Hash[h][i] = s
  <2>1. h = k /\ table'[Hash[h][i]].seg = g /\ segs'[g] = new
    BY <1>1, <1>2, <1>4, <1>5, <1>7
  <2>2. QED
    BY <2>1
<1>8. CASE Hash[h][i] # s
  <2> DEFINE x == table[Hash[h][i]].seg
  <2>1. table[Hash[h][i]].key = h /\ table'[Hash[h][i]].seg = x
    BY <1>4, <1>5, <1>6, <1>8
  <2>2. h # k
    BY <1>8, <2>1, PlacedOnly
  <2>3. h # NoKey
    BY StoreAssumption
  <2>4. x \in Segments /\ segs[x].live
    BY <1>6, <2>1, <2>3 DEF SegmentsOwned, TypeOK
  <2>5. x # NoSegment
    BY <2>4, SegmentsNumbered
  <2>6. x # g /\ x # table[s].seg
    BY <1>2, <1>3, <1>6, <1>8, <2>4, <2>5 DEF SegmentsOwned
  <2>7. segs'[x] = segs[x]
    BY <1>1, <2>4, <2>6
  <2>8. Current(h, x)
    BY <2>1 DEF ContentCurrent
  <2>9. last'[WholeName(h)] = last[WholeName(h)]
    BY <2>2, NamesOfKey
  <2>10. \A l : ChunkName(h, l) \in Name => last'[ChunkName(h, l)] = last[ChunkName(h, l)]
    BY <2>2, NamesOfKey
  <2>11. segs'[x].index = last'[WholeName(h)]
    BY <2>7, <2>8, <2>9 DEF Current
  <2>12. \A l \in DOMAIN segs'[x].chunks :
            segs'[x].chunks[l] # Garbage =>
                ChunkName(h, l) \in Name /\ segs'[x].chunks[l] = last'[ChunkName(h, l)]
    BY <2>7, <2>8, <2>10 DEF Current
  <2>13. QED
    BY <2>1, <2>11, <2>12
<1>9. QED
  BY <1>7, <1>8

\* Putting a segment frees the one in its place: the pointers to others stay good.
LEMMA PutKeepsPointers ==
  ASSUME TypeOK, SegmentsOwned, PointerCurrent,
         NEW k \in Keys, NEW s \in Places(k), NEW new, HashPut(k, new, s),
         \A u \in Threads : pc'[u] \in {"store", "copy"} =>
            pc'[u] = pc[u] /\ op'[u] = op[u] /\ ptr'[u] = ptr[u]
  PROVE  PointerCurrent'
<1>1. PICK g \in First(Free) :
        /\ table' = [table EXCEPT ![s] = [key |-> k, seg |-> g]]
        /\ segs' = [x \in Segments |->
                      IF x = g THEN new ELSE IF x = table[s].seg THEN Freed ELSE segs[x]]
  BY DEF HashPut
<1>2. s \in Slots
  BY PlacesAreSlots
<1>3. \A v \in Slots \ {s} : table'[v] = table[v]
  BY <1>1, <1>2 DEF TypeOK
<1>4. SUFFICES ASSUME NEW u \in Threads, pc'[u] \in {"store", "copy"}, segs'[ptr'[u]].live
               PROVE  /\ pc'[u] = "store" => IsChunk(op'[u])
                      /\ \E i \in DOMAIN Hash[KeyOf(u)'] :
                            table'[Hash[KeyOf(u)'][i]] = [key |-> KeyOf(u)', seg |-> ptr'[u]]
  BY DEF PointerCurrent, IsChunk
<1>5. pc'[u] = pc[u] /\ op'[u] = op[u] /\ ptr'[u] = ptr[u] /\ KeyOf(u)' = KeyOf(u)
  BY <1>4 DEF KeyOf
<1>6. ptr[u] \in Segments /\ ptr[u] # g
  BY <1>4, <1>5, FreeSegment DEF TypeOK
<1>7. ptr[u] # table[s].seg /\ segs[ptr[u]].live
  BY <1>1, <1>4, <1>5, <1>6 DEF Freed
<1>8. KeyOf(u) \in Keys
  BY <1>4, <1>5, ObjectTypes DEF KeyOf, TypeOK, Name
<1>9. pc[u] = "store" => IsChunk(op[u])
  BY <1>4, <1>5, <1>7 DEF PointerCurrent
<1>10. PICK i \in DOMAIN Hash[KeyOf(u)] :
          table[Hash[KeyOf(u)][i]] = [key |-> KeyOf(u), seg |-> ptr[u]]
  BY <1>4, <1>5, <1>7 DEF PointerCurrent
<1>11. Hash[KeyOf(u)][i] \in Slots \ {s}
  BY <1>7, <1>8, <1>10, HashedSlots
<1>12. QED
  BY <1>3, <1>5, <1>9, <1>10, <1>11

\* At the start no key is in the table.
LEMMA InitCache == Init => CacheInv
<1> SUFFICES ASSUME Init
             PROVE  CacheInv
  OBVIOUS
<1>1. \A s \in Slots : table[s].key = NoKey
  BY DEF Init
<1>2. \A k \in Keys : \A i \in DOMAIN Hash[k] : table[Hash[k][i]].key # k
  BY <1>1, HashedSlots, StoreAssumption
<1>3. PointerCurrent
  BY DEF Init, PointerCurrent
<1>4. QED
  BY <1>2, <1>3 DEF CacheInv, KeyPlacedOnce, ContentCurrent

\* Steps that leave the table, memory and last as they are keep what is said of them.
LEMMA SameStore ==
  ASSUME KeyPlacedOnce, ContentCurrent, UNCHANGED <<table, segs, last>>
  PROVE  KeyPlacedOnce' /\ ContentCurrent'
<1>1. KeyPlacedOnce'
  BY DEF KeyPlacedOnce
<1>2. ASSUME NEW k \in Keys, NEW g, Current(k, g)
      PROVE  Current(k, g)'
  BY <1>2 DEF Current, WholeName, ChunkName, Name
<1>3. ContentCurrent'
  BY <1>2 DEF ContentCurrent
<1>4. QED
  BY <1>1, <1>3

\* A thread that has got a pointer from hash_get has the table's.
LEMMA FoundPointer ==
  ASSUME TypeOK, SegmentsOwned, PointerCurrent, NEW t \in Threads, NEW k \in Keys,
         NEW g \in Found(k), g # NoSegment,
         UNCHANGED <<table, segs>>,
         \A u \in Threads \ {t} : pc'[u] = pc[u] /\ op'[u] = op[u] /\ ptr'[u] = ptr[u],
         ptr'[t] = g, KeyOf(t)' = k, pc'[t] = "store" => IsChunk(op'[t])
  PROVE  PointerCurrent'
<1>1. PICK i \in First(PositionsWith(k, {k})) : g = table[Hash[k][i]].seg
  BY DEF Found
<1>2. i \in DOMAIN Hash[k] /\ table[Hash[k][i]].key = k
  BY <1>1 DEF First, PositionsWith
<1>3. table[Hash[k][i]] = [key |-> k, seg |-> g]
  BY <1>1, <1>2, HashedSlots DEF TypeOK
<1>4. SUFFICES ASSUME NEW u \in Threads, pc'[u] \in {"store", "copy"}, segs'[ptr'[u]].live
               PROVE  /\ pc'[u] = "store" => IsChunk(op'[u])
                      /\ \E l \in DOMAIN Hash[KeyOf(u)'] :
                            table'[Hash[KeyOf(u)'][l]] = [key |-> KeyOf(u)', seg |-> ptr'[u]]
  BY DEF PointerCurrent, IsChunk
<1>5. CASE u = t
  BY <1>2, <1>3, <1>5
<1>6. CASE u # t
  <2>1. pc'[u] = pc[u] /\ op'[u] = op[u] /\ ptr'[u] = ptr[u] /\ KeyOf(u)' = KeyOf(u)
    BY <1>6 DEF KeyOf
  <2>2. QED
    BY <1>4, <2>1 DEF PointerCurrent
<1>7. QED
  BY <1>5, <1>6

\* Steps that give nobody a pointer and free nothing leave the pointers good.
LEMMA SamePointers ==
  ASSUME PointerCurrent, UNCHANGED table,
         \A u \in Threads : pc'[u] \in {"store", "copy"} =>
            pc'[u] = pc[u] /\ op'[u] = op[u] /\ ptr'[u] = ptr[u],
         \A u \in Threads : pc[u] \in {"store", "copy"} =>
            segs'[ptr[u]].live = segs[ptr[u]].live
  PROVE  PointerCurrent'
<1>1. SUFFICES ASSUME NEW u \in Threads, pc'[u] \in {"store", "copy"}, segs'[ptr'[u]].live
               PROVE  /\ pc'[u] = "store" => IsChunk(op'[u])
                      /\ \E l \in DOMAIN Hash[KeyOf(u)'] :
                            table'[Hash[KeyOf(u)'][l]] = [key |-> KeyOf(u)', seg |-> ptr'[u]]
  BY DEF PointerCurrent, IsChunk
<1>2. pc'[u] = pc[u] /\ op'[u] = op[u] /\ ptr'[u] = ptr[u] /\ KeyOf(u)' = KeyOf(u)
  BY <1>1 DEF KeyOf
<1>3. QED
  BY <1>1, <1>2 DEF PointerCurrent

\* CS_put has looked its segment up.
LEMMA BeginPutCache ==
  ASSUME NoParents, TypeOK, SegmentsOwned, CacheInv,
         NEW t \in Threads, NEW o \in Objects, BeginPut(t, o)
  PROVE  CacheInv'
<1>1. PICK g \in Found(Prefix(o)) :
        /\ IsChunk(o) => g # NoSegment
        /\ pc' = [pc EXCEPT ![t] = IF g = NoSegment THEN "insert" ELSE "store"]
        /\ ptr' = [ptr EXCEPT ![t] = g]
  BY DEF BeginPut
<1>2. op' = [op EXCEPT ![t] = o] /\ UNCHANGED <<table, segs, last>>
  BY DEF BeginPut
<1>3. KeyPlacedOnce' /\ ContentCurrent'
  BY <1>2, SameStore DEF CacheInv
<1>4. CASE g = NoSegment
  <2>1. \A u \in Threads : pc'[u] \in {"store", "copy"} =>
           pc'[u] = pc[u] /\ op'[u] = op[u] /\ ptr'[u] = ptr[u]
    BY <1>1, <1>2, <1>4 DEF TypeOK
  <2>2. PointerCurrent'
    BY <1>2, <2>1, SamePointers DEF CacheInv
  <2>3. QED
    BY <1>3, <2>2 DEF CacheInv
<1>5. CASE g # NoSegment
  <2>1. IsChunk(o)
    BY <1>1, <1>5, ObjectTypes DEF Found, Prefix, NoParents
  <2>2. Prefix(o) = o.name.key /\ o.name.key \in Keys
    BY <2>1, ObjectTypes DEF Prefix
  <2>3. pc'[t] = "store" /\ op'[t] = o /\ ptr'[t] = g
    BY <1>1, <1>2, <1>5 DEF TypeOK
  <2>4. KeyOf(t)' = o.name.key
    BY <2>3 DEF KeyOf
  <2>5. \A u \in Threads \ {t} : pc'[u] = pc[u] /\ op'[u] = op[u] /\ ptr'[u] = ptr[u]
    BY <1>1, <1>2 DEF TypeOK
  <2>6. PointerCurrent'
    BY <1>1, <1>2, <1>5, <2>1, <2>2, <2>3, <2>4, <2>5, FoundPointer DEF CacheInv
  <2>7. QED
    BY <1>3, <2>6 DEF CacheInv
<1>6. QED
  BY <1>4, <1>5

\* A thread that returns from a call has no pointer any more, the others keep theirs.
LEMMA ReturnPointers ==
  ASSUME TypeOK, NEW t \in Threads, Return(t)
  PROVE  \A u \in Threads : pc'[u] \in {"store", "copy"} =>
            pc'[u] = pc[u] /\ op'[u] = op[u] /\ ptr'[u] = ptr[u]
BY DEF Return, TypeOK

\* Misused memory leaves the rest as it is.
LEMMA BreakCache ==
  ASSUME CacheInv, Break
  PROVE  CacheInv'
<1>1. UNCHANGED <<table, segs, pc, op, ptr, last>>
  BY DEF Break
<1>2. QED
  BY <1>1, SameStore, SamePointers DEF CacheInv

\* A new segment has gone into the table.
LEMMA InsertCache ==
  ASSUME TypeOK, SegmentsOwned, CacheInv, NEW t \in Threads, Insert(t)
  PROVE  CacheInv'
<1> DEFINE o == op[t]
           k == o.name.key
           new == NewSegment(o, <<>>)
<1>1. o \in Wholes /\ o \in Objects
  BY DEF Insert, At, TypeOK, Wholes
<1>2. o.name \in Name /\ k \in Keys /\ o.name = WholeName(k)
  BY <1>1, ObjectTypes DEF Wholes, Chunks, WholeName, Name
<1>3. CASE Break
  BY <1>3, BreakCache
<1>4. CASE ~Break
  <2>1. PICK s \in Places(k) : HashPut(k, new, s)
    BY <1>4 DEF Insert, HashPutBreaks
  <2>2. last' = [last EXCEPT ![o.name] = o] /\ Return(t)
    BY <1>4 DEF Insert, HashPutBreaks
  <2>3. new.index = last'[WholeName(k)] /\ new.chunks = <<>>
    BY <1>2, <2>2 DEF NewSegment, TypeOK
  <2>4. \A n \in Name : n.key # k => last'[n] = last[n]
    BY <1>2, <2>2 DEF TypeOK
  <2>5. KeyPlacedOnce'
    BY <1>2, <2>1, PutKeepsPlaced DEF HashPut, CacheInv
  <2>6. \A i \in DOMAIN new.chunks :
           ChunkName(k, i) \in Name /\ new.chunks[i] = last'[ChunkName(k, i)]
    BY <2>3
  <2>7. ContentCurrent'
    BY <1>2, <2>1, <2>3, <2>4, <2>6, PutKeepsCurrent DEF CacheInv
  <2>8. PointerCurrent'
    BY <1>2, <2>1, <2>2, ReturnPointers, PutKeepsPointers DEF CacheInv
  <2>9. QED
    BY <2>5, <2>7, <2>8 DEF CacheInv
<1>5. QED
  BY <1>3, <1>4

\* A segment has been published with its chunks.
LEMMA PutSegmentCache ==
  ASSUME TypeOK, SegmentsOwned, CacheInv, NEW t \in Threads, NEW o \in Wholes,
         NEW chunks \in ChunkLists(o), PutSegment(t, o, chunks)
  PROVE  CacheInv'
<1> DEFINE k == o.name.key
           seg == NewSegment(o, chunks)
           come(n) == {p \in {o} \cup Range(chunks) : p.name = n}
<1>1. o \in Objects /\ o.name \in Name /\ k \in Keys /\ o.name = WholeName(k)
  BY ObjectTypes DEF Wholes, Chunks, WholeName, Name
<1>2. CASE Break
  BY <1>2, BreakCache
<1>3. CASE ~Break
  <2>1. PICK s \in Places(k) : HashPut(k, seg, s)
    BY <1>3 DEF PutSegment, HashPutBreaks
  <2>2. /\ last' = [n \in Name |-> LET new == {p \in {o} \cup Range(chunks) : p.name = n}
                                   IN  IF new = {} THEN last[n] ELSE CHOOSE p \in new : TRUE]
        /\ UNCHANGED <<pc, op, ptr>>
    BY <1>3 DEF PutSegment, HashPutBreaks
  <2>3. \A n \in Name : last'[n] = IF come(n) = {} THEN last[n] ELSE CHOOSE p \in come(n) : TRUE
    BY <2>2
  <2>4. \/ chunks = <<>> /\ Range(chunks) = {}
        \/ \E c \in Chunks : /\ chunks = <<c>> /\ Range(chunks) = {c}
                             /\ c.name = ChunkName(k, 1) /\ c.name \in Name
    <3>1. CASE chunks = <<>>
      BY <3>1 DEF Range
    <3>2. CASE chunks # <<>>
      <4>1. PICK c \in Chunks : chunks = <<c>> /\ c.name = [o.name EXCEPT !.seq = 0]
        BY <3>2 DEF ChunkLists
      <4>2. Range(chunks) = {c}
        BY <4>1 DEF Range
      <4>3. c.name = ChunkName(k, 1)
        BY <1>1, <4>1 DEF WholeName, ChunkName
      <4>4. c.name \in Name
        BY <4>1, ObjectTypes DEF Chunks
      <4>5. QED
        BY <4>1, <4>2, <4>3, <4>4
    <3>3. QED
      BY <3>1, <3>2
  <2>5. \A i : ChunkName(k, i).key = k /\ (ChunkName(k, 1) # WholeName(k))
    BY DEF ChunkName, WholeName, Whole
  <2>6. come(WholeName(k)) = {o}
    BY <1>1, <2>4, <2>5
  <2>7. seg.index = last'[WholeName(k)]
    BY <1>1, <2>3, <2>6, NamesOfKey DEF NewSegment
  <2>8. \A i \in DOMAIN seg.chunks :
           ChunkName(k, i) \in Name /\ seg.chunks[i] = last'[ChunkName(k, i)]
    <3>1. seg.chunks = chunks
      BY DEF NewSegment
    <3>2. CASE chunks = <<>>
      BY <3>1, <3>2
    <3>3. CASE chunks # <<>>
      <4>1. PICK c \in Chunks : /\ chunks = <<c>> /\ Range(chunks) = {c}
                                /\ c.name = ChunkName(k, 1) /\ c.name \in Name
        BY <2>4, <3>3
      <4>2. come(ChunkName(k, 1)) = {c}
        BY <1>1, <2>5, <4>1
      <4>3. last'[ChunkName(k, 1)] = c
        BY <2>3, <4>1, <4>2
      <4>4. QED
        BY <3>1, <4>1, <4>3
    <3>4. QED
      BY <3>2, <3>3
  <2>9. \A n \in Name : n.key # k => last'[n] = last[n]
    <3>1. SUFFICES ASSUME NEW n \in Name, n.key # k
                   PROVE  come(n) = {}
      BY <2>3
    <3>2. o.name # n
      BY <1>1, <3>1
    <3>3. \A c \in Range(chunks) : c.name # n
      BY <2>4, <2>5, <3>1
    <3>4. QED
      BY <3>2, <3>3
  <2>10. KeyPlacedOnce'
    BY <1>1, <2>1, PutKeepsPlaced DEF HashPut, CacheInv
  <2> HIDE DEF seg
  <2>11. ContentCurrent'
    BY <1>1, <2>1, <2>7, <2>8, <2>9, PutKeepsCurrent DEF CacheInv
  <2>12. PointerCurrent'
    BY <1>1, <2>1, <2>2, PutKeepsPointers DEF CacheInv
  <2>13. QED
    BY <2>10, <2>11, <2>12 DEF CacheInv
<1>4. QED
  BY <1>2, <1>3

\* A segment that was found has got a chunk.
LEMMA StoreCache ==
  ASSUME TypeOK, SegmentsOwned, CacheInv, NEW t \in Threads, Store(t)
  PROVE  CacheInv'
<1> DEFINE g == ptr[t]
           o == op[t]
           k == o.name.key
           chunks == segs[g].chunks
<1>1. pc[t] = "store" /\ o \in Objects /\ g \in Segments
  BY DEF Store, At, TypeOK
<1>2. CASE Break
  BY <1>2, BreakCache
<1>3. CASE ~Break
  <2>1. /\ segs[g].live
        /\ segs' = [segs EXCEPT ![g] = IF IsChunk(o) THEN [segs[g] EXCEPT !.chunks = WithChunk(segs[g].chunks, o)]
                                       ELSE [segs[g] EXCEPT !.index = o]]
        /\ last' = [last EXCEPT ![o.name] = o]
        /\ Return(t) /\ UNCHANGED table
    BY <1>3 DEF Store
  <2>2. IsChunk(o)
    BY <1>1, <2>1 DEF CacheInv, PointerCurrent
  <2>3. PICK j \in DOMAIN Hash[k] : table[Hash[k][j]] = [key |-> k, seg |-> g]
    BY <1>1, <2>1 DEF CacheInv, PointerCurrent, KeyOf
  <2>4. k \in Keys /\ o.name \in Name /\ o.name.seq \in Nat /\ o.name.seq # Whole
    BY <1>1, <2>2, ObjectTypes, StoreAssumption DEF Chunks, Object, Name, IsChunk
  <2>5. o.name = [key |-> k, seq |-> o.name.seq]
    BY <2>4 DEF Name
  <2>6. segs[g] \in Segment /\ chunks \in Seq(Chunks \cup {Garbage})
    BY <1>1 DEF TypeOK, Segment
  <2>7. segs'[g] = [segs[g] EXCEPT !.chunks = WithChunk(chunks, o)]
    BY <1>1, <2>1, <2>2 DEF TypeOK
  <2>8. /\ segs'[g].index = segs[g].index /\ segs'[g].chunks = WithChunk(chunks, o)
        /\ segs'[g].live = segs[g].live
    BY <2>6, <2>7 DEF Segment
  <2>9. \A x \in Segments \ {g} : segs'[x] = segs[x]
    BY <2>1 DEF TypeOK
  <2>10. last'[o.name] = o /\ \A n \in Name \ {o.name} : last'[n] = last[n]
    BY <2>1, <2>4 DEF TypeOK
  <2>11. KeyPlacedOnce'
    BY <2>1 DEF KeyPlacedOnce, CacheInv
  <2>12. PointerCurrent'
    <3>1. \A u \in Threads : pc[u] \in {"store", "copy"} => segs'[ptr[u]].live = segs[ptr[u]].live
      BY <2>8, <2>9 DEF TypeOK
    <3>2. QED
      BY <2>1, <3>1, ReturnPointers, SamePointers DEF CacheInv
  <2>13. Current(k, g)
    BY <2>3, <2>4 DEF CacheInv, ContentCurrent
  <2>14. segs'[g].index = last'[WholeName(k)]
    <3>1. WholeName(k) # o.name
      BY <2>4 DEF WholeName
    <3>2. QED
      BY <2>4, <2>8, <2>10, <2>13, <3>1, NamesOfKey DEF Current
  <2>15. ASSUME NEW l \in DOMAIN segs'[g].chunks, segs'[g].chunks[l] # Garbage
         PROVE  ChunkName(k, l) \in Name /\ segs'[g].chunks[l] = last'[ChunkName(k, l)]
    <3>1. l \in Nat \ {0}
      BY <2>4, <2>6, <2>8, <2>15 DEF WithChunk
    <3>2. CASE l = o.name.seq + 1
      <4>1. ChunkName(k, l) = o.name
        BY <2>4, <2>5, <3>2 DEF ChunkName
      <4>2. segs'[g].chunks[l] = o
        BY <2>4, <2>6, <2>8, <2>15, <3>2 DEF WithChunk
      <4>3. QED
        BY <2>4, <2>10, <4>1, <4>2
    <3>3. CASE l # o.name.seq + 1
      <4>1. l \in DOMAIN chunks /\ segs'[g].chunks[l] = chunks[l]
        <5> DEFINE n == IF o.name.seq < Len(chunks) THEN Len(chunks) ELSE o.name.seq + 1
        <5>1. WithChunk(chunks, o) = [m \in 1..n |-> IF m = o.name.seq + 1 THEN o
                                                    ELSE IF m <= Len(chunks) THEN chunks[m]
                                                    ELSE Garbage]
          BY DEF WithChunk
        <5>2. segs'[g].chunks = WithChunk(chunks, o) /\ l \in 1..n
          BY <2>8, <2>15, <5>1
        <5>3. segs'[g].chunks[l] = IF l <= Len(chunks) THEN chunks[l] ELSE Garbage
          BY <3>3, <5>1, <5>2
        <5>4. l <= Len(chunks)
          BY <2>15, <5>3
        <5>5. l \in DOMAIN chunks
          BY <2>6, <3>1, <5>4
        <5>6. QED
          BY <5>3, <5>4, <5>5
      <4>2. ChunkName(k, l) \in Name /\ chunks[l] = last[ChunkName(k, l)]
        BY <2>13, <2>15, <4>1 DEF Current
      <4>3. ChunkName(k, l).seq = l - 1
        BY DEF ChunkName
      <4>4. ChunkName(k, l) # o.name
        BY <2>4, <3>1, <3>3, <4>3
      <4>5. QED
        BY <2>10, <4>1, <4>2, <4>4
    <3>4. QED
      BY <3>2, <3>3
  <2>16. ContentCurrent'
    <3>1. SUFFICES ASSUME NEW h \in Keys, NEW i \in DOMAIN Hash[h], table[Hash[h][i]].key = h
                   PROVE  LET x == table[Hash[h][i]].seg IN
                          /\ segs'[x].index = last'[WholeName(h)]
                          /\ \A l \in DOMAIN segs'[x].chunks :
                                segs'[x].chunks[l] # Garbage =>
                                    /\ ChunkName(h, l) \in Name
                                    /\ segs'[x].chunks[l] = last'[ChunkName(h, l)]
      <4>1. table' = table
        BY <2>1
      <4>2. QED
        BY <4>1 DEF ContentCurrent, Current, WholeName, ChunkName
    <3> DEFINE x == table[Hash[h][i]].seg
    <3>2. Hash[h][i] \in Slots /\ Hash[k][j] \in Slots /\ h # NoKey
      BY <2>4, HashedSlots, StoreAssumption
    <3>3. CASE h = k
      <4>1. Hash[h][i] = Hash[k][j]
        <5>1. KeyPlacedOnce /\ table[Hash[k][i]].key = k /\ table[Hash[k][j]].key = k
          BY <2>3, <3>1, <3>3 DEF CacheInv
        <5>2. k \in Keys /\ i \in DOMAIN Hash[k] /\ j \in DOMAIN Hash[k]
          BY <2>4, <3>1, <3>3
        <5>3. Hash[k][i] = Hash[k][j]
          BY <5>1, <5>2 DEF KeyPlacedOnce
        <5>4. QED
          BY <3>3, <5>3
      <4>2. x = g
        BY <2>3, <4>1
      <4>3. QED
        BY <2>14, <2>15, <3>3, <4>2
    <3>4. CASE h # k
      <4>1. x # g /\ x \in Segments
        BY <1>1, <2>3, <3>1, <3>2, <3>4, SegmentsNumbered DEF SegmentsOwned, TypeOK
      <4>2. Current(h, x) /\ segs'[x] = segs[x]
        BY <2>9, <3>1, <4>1 DEF CacheInv, ContentCurrent
      <4>3. o.name.key = k
        OBVIOUS
      <4>4. \A n \in Name : n.key = h => last'[n] = last[n]
        BY <2>10, <3>4
      <4>5. QED
        BY <4>2, <4>4, NamesOfKey DEF Current
    <3>5. QED
      BY <3>3, <3>4
  <2>17. QED
    BY <2>11, <2>12, <2>16 DEF CacheInv
<1>4. QED
  BY <1>2, <1>3

\* CS_get has looked its segment up.
LEMMA BeginGetCache ==
  ASSUME TypeOK, SegmentsOwned, CacheInv, NEW t \in Threads, NEW n \in Name, BeginGet(t, n)
  PROVE  CacheInv'
<1>1. UNCHANGED <<table, segs, last>> /\ n.key \in Keys
  BY DEF BeginGet, Name
<1>2. KeyPlacedOnce' /\ ContentCurrent'
  BY <1>1, SameStore DEF CacheInv
<1>3. CASE UNCHANGED <<pc, op, ptr>>
  <2>1. PointerCurrent'
    BY <1>1, <1>3, SamePointers DEF CacheInv
  <2>2. QED
    BY <1>2, <2>1 DEF CacheInv
<1>4. CASE ~UNCHANGED <<pc, op, ptr>>
  <2>1. /\ pc' = [pc EXCEPT ![t] = "copy"]
        /\ op' = [op EXCEPT ![t] = n]
    BY <1>4 DEF BeginGet
  <2>2. PICK g \in Found(n.key) \ {NoSegment} : ptr' = [ptr EXCEPT ![t] = g]
    BY <1>4 DEF BeginGet
  <2>3. pc'[t] = "copy" /\ op'[t] = n /\ ptr'[t] = g
    BY <2>1, <2>2 DEF TypeOK
  <2>4. KeyOf(t)' = n.key
    BY <2>3 DEF KeyOf
  <2>5. \A u \in Threads \ {t} : pc'[u] = pc[u] /\ op'[u] = op[u] /\ ptr'[u] = ptr[u]
    BY <2>1, <2>2 DEF TypeOK
  <2>6. PointerCurrent'
    BY <1>1, <2>2, <2>3, <2>4, <2>5, FoundPointer DEF CacheInv
  <2>7. QED
    BY <1>2, <2>6 DEF CacheInv
<1>5. QED
  BY <1>3, <1>4

\* The object has been copied.
LEMMA CopyCache ==
  ASSUME TypeOK, CacheInv, NEW t \in Threads, Copy(t)
  PROVE  CacheInv'
<1>1. CASE Break
  BY <1>1, BreakCache
<1>2. CASE ~Break
  <2>1. Return(t) /\ UNCHANGED <<table, segs, last>>
    BY <1>2 DEF Copy
  <2>2. PointerCurrent'
    BY <2>1, ReturnPointers, SamePointers DEF CacheInv
  <2>3. QED
    BY <2>1, <2>2, SameStore DEF CacheInv
<1>3. QED
  BY <1>1, <1>2

\* Every step keeps the invariant behind the refinement.
LEMMA StepCache ==
  ASSUME NoParents, TypeOK, SegmentsOwned, CacheInv, [Next]_vars
  PROVE  CacheInv'
<1>1. ASSUME NEW t \in Threads, NEW o \in Objects, BeginGet(t, o.name)
      PROVE  CacheInv'
  BY <1>1, BeginGetCache, ObjectTypes
<1>2. CASE UNCHANGED vars
  <2>1. UNCHANGED <<table, segs, pc, op, ptr, last>>
    BY <1>2 DEF vars
  <2>2. QED
    BY <2>1, SameStore, SamePointers DEF CacheInv
<1>3. QED
  BY <1>1, <1>2, BeginPutCache, InsertCache, StoreCache, PutSegmentCache, CopyCache DEF Next

\* An empty table with nothing put satisfies the invariant, so every state does.  The
\* assumption is needed: a parent replaces the index object of the name put.
THEOREM StoreCurrent ==
  ASSUME NoParents
  PROVE  Spec => []CacheInv
<1>1. Init => CacheInv
  BY InitCache
<1>2. TypeOK /\ SegmentsOwned /\ CacheInv /\ [Next]_vars => CacheInv'
  BY NoParents, StepCache
<1>3. QED
  BY <1>1, <1>2, StoreTypes, StoreOwnership, PTL DEF Spec

-----------------------------------------------------------------------------
(* The store implements the cache.                                         *)

\* A step that gives no answer and changes nothing that was put is a Put of nothing.
LEMMA PutsNothing ==
  ASSUME TypeOK, UNCHANGED last, answer' = NoAnswer
  PROVE  Cache!Put
BY DEF TypeOK, Cache!Put

\* Memory misused is a Put of nothing as well.
LEMMA BreakPutsNothing ==
  ASSUME TypeOK, Break
  PROVE  Cache!Put
BY PutsNothing DEF Break

\* Putting one object under its name is a Put.
LEMMA PutsOne ==
  ASSUME TypeOK, NEW o \in Objects, last' = [last EXCEPT ![o.name] = o], answer' = NoAnswer
  PROVE  Cache!Put
<1>1. o.name \in Name /\ o # NoObject
  BY ObjectTypes, StoreAssumption
<1>2. last' \in [Name -> Objects \cup {NoObject}]
  BY <1>1 DEF TypeOK
<1>3. \A n \in Name : last'[n] # last[n] => last'[n] # NoObject /\ last'[n].name = n
  BY <1>1 DEF TypeOK
<1>4. QED
  BY <1>2, <1>3 DEF Cache!Put

\* So is putting an index object with its chunks.
LEMMA PutsMany ==
  ASSUME TypeOK, NEW t \in Threads, NEW o \in Wholes, NEW chunks \in ChunkLists(o),
         PutSegment(t, o, chunks)
  PROVE  Cache!Put
<1>1. CASE Break
  BY <1>1, BreakPutsNothing
<1>2. CASE ~Break
  <2> DEFINE New(n) == {p \in {o} \cup Range(chunks) : p.name = n}
  <2>1. last' = [n \in Name |-> IF New(n) = {} THEN last[n] ELSE CHOOSE p \in New(n) : TRUE]
    BY <1>2 DEF PutSegment, HashPutBreaks
  <2>2. {o} \cup Range(chunks) \subseteq Objects
    BY ChunkListsType DEF Wholes
  <2>3. ASSUME NEW n \in Name, New(n) # {}
        PROVE  last'[n] \in Objects /\ last'[n].name = n
    <3>1. (CHOOSE p \in New(n) : TRUE) \in New(n)
      BY <2>3
    <3>2. last'[n] \in New(n)
      BY <2>1, <2>3, <3>1
    <3>3. QED
      BY <2>2, <3>2
  <2>4. ASSUME NEW n \in Name, New(n) = {}
        PROVE  last'[n] = last[n]
    BY <2>1, <2>4
  <2>5. \A n \in Name : last'[n] \in Objects \cup {NoObject}
    BY <2>3, <2>4 DEF TypeOK
  <2>6. last' \in [Name -> Objects \cup {NoObject}]
    BY <2>1, <2>5
  <2>7. \A n \in Name : last'[n] # last[n] => last'[n] # NoObject /\ last'[n].name = n
    BY <2>3, <2>4, StoreAssumption
  <2>8. answer' = NoAnswer
    BY <1>2 DEF PutSegment, HashPutBreaks
  <2>9. QED
    BY <2>6, <2>7, <2>8 DEF Cache!Put
<1>3. QED
  BY <1>1, <1>2

\* What is copied out of a live segment is what was last put under the name.
LEMMA CopiesLast ==
  ASSUME TypeOK, CacheInv, NEW t \in Threads, pc[t] = "copy", segs[ptr[t]].live,
         Contents(ptr[t], op[t]) # Garbage
  PROVE  Contents(ptr[t], op[t]) \in {last[op[t]], NoObject}
<1> DEFINE k == op[t].key
           g == ptr[t]
<1>1. op[t] \in Name /\ g \in Segments
  BY DEF TypeOK
<1>2. k \in Keys /\ KeyOf(t) = k
  BY <1>1 DEF Name, KeyOf
<1>3. PICK i \in DOMAIN Hash[k] : table[Hash[k][i]] = [key |-> k, seg |-> g]
  BY <1>2 DEF CacheInv, PointerCurrent
<1>4. Current(k, g)
  <2>1. table[Hash[k][i]].key = k /\ table[Hash[k][i]].seg = g
    BY <1>3
  <2>2. QED
    BY <1>2, <2>1 DEF CacheInv, ContentCurrent
<1>5. CASE op[t].seq = Whole
  <2>1. WholeName(k) = op[t]
    BY <1>1, <1>5 DEF Name, WholeName
  <2>2. QED
    BY <1>4, <1>5, <2>1 DEF Current, Contents
<1>6. CASE op[t].seq # Whole /\ op[t].seq < Len(segs[g].chunks)
  <2>1. op[t].seq \in Nat
    BY <1>1, <1>6, StoreAssumption DEF Name
  <2>2. segs[g].chunks \in Seq(Chunks \cup {Garbage})
    BY <1>1 DEF TypeOK, Segment
  <2>3. op[t].seq + 1 \in DOMAIN segs[g].chunks
    BY <1>6, <2>1, <2>2
  <2>4. Contents(g, op[t]) = segs[g].chunks[op[t].seq + 1]
    BY <1>6 DEF Contents
  <2>5. (op[t].seq + 1) - 1 = op[t].seq
    BY <2>1
  <2>6. ChunkName(k, op[t].seq + 1) = op[t]
    BY <1>1, <2>5 DEF Name, ChunkName
  <2>7. QED
    BY <1>4, <2>3, <2>4, <2>6 DEF Current
<1>7. CASE op[t].seq # Whole /\ ~(op[t].seq < Len(segs[g].chunks))
  BY <1>7 DEF Contents
<1>8. QED
  BY <1>5, <1>6, <1>7

\* CS_get answers from the segment it found, or with nothing.
LEMMA CopyGets ==
  ASSUME TypeOK, CacheInv, NEW t \in Threads, Copy(t)
  PROVE  Cache!Next
<1>1. CASE Break
  BY <1>1, BreakPutsNothing DEF Cache!Next
<1>2. CASE ~Break
  <2>1. /\ pc[t] = "copy" /\ segs[ptr[t]].live
        /\ Contents(ptr[t], op[t]) # Garbage
        /\ answer' = [name |-> op[t], obj |-> Contents(ptr[t], op[t])]
        /\ UNCHANGED last
    BY <1>2 DEF Copy, At, Answer
  <2>2. Contents(ptr[t], op[t]) \in {last[op[t]], NoObject}
    BY <2>1, CopiesLast
  <2>3. op[t] \in Name
    BY <2>1 DEF TypeOK
  <2>4. Cache!Get(op[t])
    BY <2>1, <2>2 DEF Cache!Get
  <2>5. QED
    BY <2>3, <2>4 DEF Cache!Next
<1>3. QED
  BY <1>1, <1>2

\* Every step of the store is a step of the cache.
LEMMA StepImplements ==
  ASSUME TypeOK, CacheInv, [Next]_vars
  PROVE  [Cache!Next]_<<last, answer>>
<1>1. ASSUME NEW t \in Threads, NEW o \in Objects, BeginPut(t, o)
      PROVE  Cache!Put
  BY <1>1, PutsNothing DEF BeginPut
<1>2. ASSUME NEW t \in Threads, Insert(t)
      PROVE  Cache!Put
  <2>1. CASE Break
    BY <2>1, BreakPutsNothing
  <2>2. CASE ~Break
    <3>1. last' = [last EXCEPT ![op[t].name] = op[t]] /\ answer' = NoAnswer
      BY <1>2, <2>2 DEF Insert, HashPutBreaks
    <3>2. op[t] \in Objects
      BY <1>2 DEF Insert, At, TypeOK, Wholes
    <3>3. QED
      BY <3>1, <3>2, PutsOne
  <2>3. QED
    BY <2>1, <2>2
<1>3. ASSUME NEW t \in Threads, Store(t)
      PROVE  Cache!Put
  <2>1. CASE Break
    BY <2>1, BreakPutsNothing
  <2>2. CASE ~Break
    <3>1. last' = [last EXCEPT ![op[t].name] = op[t]] /\ answer' = NoAnswer
      BY <1>3, <2>2 DEF Store
    <3>2. op[t] \in Objects
      BY <1>3 DEF Store, At, TypeOK
    <3>3. QED
      BY <3>1, <3>2, PutsOne
  <2>3. QED
    BY <2>1, <2>2
<1>4. ASSUME NEW t \in Threads, NEW o \in Objects, BeginGet(t, o.name)
      PROVE  Cache!Next
  <2>1. o.name \in Name
    BY ObjectTypes
  <2>2. UNCHANGED last
    BY <1>4 DEF BeginGet
  <2>3. CASE answer' = NoAnswer
    BY <2>2, <2>3, PutsNothing DEF Cache!Next
  <2>4. CASE answer' # NoAnswer
    <3>1. answer' = [name |-> o.name, obj |-> NoObject]
      BY <1>4, <2>4 DEF BeginGet, Answer
    <3>2. Cache!Get(o.name)
      BY <2>2, <3>1 DEF Cache!Get
    <3>3. QED
      BY <2>1, <3>2 DEF Cache!Next
  <2>5. QED
    BY <2>3, <2>4
<1>5. CASE UNCHANGED vars
  BY <1>5 DEF vars
<1>6. CASE Next
  BY <1>1, <1>2, <1>3, <1>4, <1>6, PutsMany, CopyGets DEF Next, Cache!Next
<1>7. QED
  BY <1>5, <1>6

\* While no name that is put is another's without its last component, the content store
\* is a cache for any number of threads, names and slots and any hash function: what
\* CS_get returns for a name is the object last put under it, or nothing.
THEOREM StoreIsCache ==
  ASSUME NoParents
  PROVE  Spec => ImplementsCache
<1>1. Init => Cache!Init
  BY DEF Init, Cache!Init
<1>2. TypeOK /\ CacheInv /\ [Next]_vars => [Cache!Next]_<<last, answer>>
  BY StepImplements
<1>3. QED
  BY <1>1, <1>2, StoreTypes, StoreCurrent, NoParents, PTL DEF Spec, ImplementsCache, Cache!Spec
=============================================================================
