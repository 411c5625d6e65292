---------------------------- MODULE ContentStore ----------------------------
(***************************************************************************)
(* The content store of ccnud_cs.c over the hash table of hashtable.c: a   *)
(* cache of segments, each an index object and its chunks, that the        *)
(* daemon's threads put into and get from.                                 *)
(*                                                                         *)
(* The lock of the store is held for the table's operations only, a        *)
(* segment's own lock for one access to it: both for one step.  A thread   *)
(* keeps its pointer to a segment between the two, with neither lock, and  *)
(* memory that was freed or never written is used all the same: broken     *)
(* says that this has happened, after which nothing can be said.           *)
(*                                                                         *)
(* Segments are places in memory.  One is not used again while a thread    *)
(* still points to it: if malloc did, the thread would misuse it as well.  *)
(***************************************************************************)
EXTENDS Integers, Sequences, FiniteSets, Functions

CONSTANTS Threads,    \* threads that call the store
          Keys,       \* names without a sequence number
          Parent,     \* Parent[k]: k without its last component
          NoKey,
          SeqNos,     \* sequence numbers of chunks
          Objects,    \* objects that are put
          NumSlots,   \* the size of the table, CS_SIZE
          Hash,       \* Hash[k]: the slots the hash functions give for k, in order
          NoObject, NoAnswer,
          Garbage     \* what memory holds that was not written

Slots == 1..NumSlots
Segments == 1..(NumSlots + Cardinality(Threads) + 1)
NoSegment == 0
Whole == -1           \* in place of a sequence number

Name == [key : Keys, seq : SeqNos \cup {Whole}]
Object == [name : Name, stamp : Nat]
Chunks == {o \in Objects : o.name.seq # Whole}
Wholes == Objects \ Chunks

ASSUME StoreAssumption ==
    /\ NoKey \notin Keys /\ {NoObject, Garbage} \cap Object = {} /\ NoObject # Garbage
    /\ IsFiniteSet(Threads)
    /\ SeqNos \subseteq Nat
    /\ Objects \subseteq Object
    /\ Parent \in [Keys -> Keys \cup {NoKey}]
    /\ NumSlots \in Nat
    /\ Hash \in [Keys -> Seq(Slots) \ {<<>>}]

VARIABLES table,    \* the entries of the hash table
          segs,     \* the segments: memory
          pc,       \* where each thread is
          op,       \* the object it puts, the name it gets
          ptr,      \* the segment it has found
          answer,   \* what the CS_get that has just ended was asked for and returned
          last,     \* last[n]: the object last put under name n
          broken    \* freed or unwritten memory has been used

vars == <<table, segs, pc, op, ptr, answer, last, broken>>

Segment == [live : BOOLEAN,
            index : Wholes \cup {NoObject},
            chunks : Seq(Chunks \cup {Garbage})]

Freed == [live |-> FALSE, index |-> NoObject, chunks |-> <<>>]

TypeOK ==
    /\ table \in [Slots -> [key : Keys \cup {NoKey}, seg : Segments \cup {NoSegment}]]
    /\ segs \in [Segments -> Segment]
    /\ pc \in [Threads -> {"idle", "insert", "store", "copy"}]
    /\ op \in [Threads -> Objects \cup Name \cup {NoObject}]
    /\ ptr \in [Threads -> Segments \cup {NoSegment}]
    /\ \A t \in Threads :
          /\ pc[t] = "insert" => op[t] \in Wholes
          /\ pc[t] = "store" => op[t] \in Objects /\ ptr[t] \in Segments
          /\ pc[t] = "copy" => op[t] \in Name /\ ptr[t] \in Segments
    /\ answer \in [name : Name, obj : Objects \cup {NoObject}] \cup {NoAnswer}
    /\ last \in [Name -> Objects \cup {NoObject}]
    /\ broken \in BOOLEAN

\* CS_init, hash_create.
Init ==
    /\ table = [s \in Slots |-> [key |-> NoKey, seg |-> NoSegment]]
    /\ segs = [g \in Segments |-> Freed]
    /\ pc = [t \in Threads |-> "idle"]
    /\ op = [t \in Threads |-> NoObject]
    /\ ptr = [t \in Threads |-> NoSegment]
    /\ answer = NoAnswer
    /\ last = [n \in Name |-> NoObject]
    /\ broken = FALSE

-----------------------------------------------------------------------------
(* The hash table.                                                         *)

First(S) == {s \in S : \A u \in S : s <= u}

\* Positions in Hash[k] whose slot has one of the keys.
PositionsWith(k, keys) == {i \in DOMAIN Hash[k] : table[Hash[k][i]].key \in keys}

\* What hash_get returns: a set of one.
Found(k) ==
    IF k = NoKey \/ PositionsWith(k, {k}) = {} THEN {NoSegment}
    ELSE {table[Hash[k][i]].seg : i \in First(PositionsWith(k, {k}))}

Stamp(s) == segs[table[s].seg].index.stamp

\* oldest_evict: among the slots of k, the first with the highest time stamp.
Evicted(k) ==
    {Hash[k][i] : i \in First({j \in DOMAIN Hash[k] :
        \A l \in DOMAIN Hash[k] : Stamp(Hash[k][l]) <= Stamp(Hash[k][j])})}

\* Mutant of Places: a free slot is used before k is looked for in the others.
PlacesUsable(k) ==
    LET usable == PositionsWith(k, {NoKey, k}) IN
    IF usable # {} THEN {Hash[k][i] : i \in usable}
    ELSE {s \in Slots : table[s].key = NoKey} \cup Evicted(k)

\* Where hash_put puts k.  When none of the slots of k is free or has k already it
\* reads one number past the end of the array of slots: any slot may be there.  A
\* free one is used, an occupied one has evict() called.
Places(k) ==
    LET usable == PositionsWith(k, {NoKey, k}) IN
    IF usable # {} THEN {Hash[k][i] : i \in First(usable)}
    ELSE {s \in Slots : table[s].key = NoKey} \cup Evicted(k)

\* Or a number that is no slot at all.  (And evict() then reads time stamps of objects
\* that threads with only the segment's lock may be replacing.)
Strays(k) == PositionsWith(k, {NoKey, k}) = {}

\* Putting k frees the segment that is in its way, with all its chunks: a chunk that
\* was never written has no valid address.
HasHoles(s) == table[s].seg # NoSegment /\ Garbage \in Range(segs[table[s].seg].chunks)

Break ==
    /\ broken' = TRUE
    /\ answer' = NoAnswer
    /\ UNCHANGED <<table, segs, pc, op, ptr, last>>

Free == {g \in Segments : ~segs[g].live /\ \A t \in Threads : ptr[t] # g}

\* Mutant of HashPut: the segment that was there is not freed.
HashPutKeepsOld(k, new, s) ==
    \E g \in First(Free) :
        /\ table' = [table EXCEPT ![s] = [key |-> k, seg |-> g]]
        /\ segs' = [segs EXCEPT ![g] = new]

\* hash_put of a new segment at slot s, which frees the one that was there.
HashPut(k, new, s) ==
    \E g \in First(Free) :
        /\ table' = [table EXCEPT ![s] = [key |-> k, seg |-> g]]
        /\ segs' = [x \in Segments |->
                      IF x = g THEN new ELSE IF x = table[s].seg THEN Freed ELSE segs[x]]

HashPutBreaks(k) ==
    /\ Strays(k) \/ \E s \in Places(k) : HasHoles(s)
    /\ Break

-----------------------------------------------------------------------------
(* CS_put.                                                                 *)

\* content_is_segmented.
IsChunk(o) == o.name.seq # Whole

\* content_prefix: the name without its last component, a sequence number or not.
Prefix(o) == IF IsChunk(o) THEN o.name.key ELSE Parent[o.name.key]

At(t, place) == ~broken /\ pc[t] = place

\* The segment is looked up.  A chunk without a segment is not stored: CS_put
\* returns -1 and nothing changes.
BeginPut(t, o) ==
    /\ At(t, "idle")
    /\ \E g \in Found(Prefix(o)) :
          /\ IsChunk(o) => g # NoSegment
          /\ pc' = [pc EXCEPT ![t] = IF g = NoSegment THEN "insert" ELSE "store"]
          /\ ptr' = [ptr EXCEPT ![t] = g]
    /\ op' = [op EXCEPT ![t] = o]
    /\ answer' = NoAnswer
    /\ UNCHANGED <<table, segs, last, broken>>

Return(t) ==
    /\ pc' = [pc EXCEPT ![t] = "idle"]
    /\ op' = [op EXCEPT ![t] = NoObject]
    /\ ptr' = [ptr EXCEPT ![t] = NoSegment]

NewSegment(o, chunks) == [live |-> TRUE, index |-> o, chunks |-> chunks]

\* A whole object without a segment gets one.
Insert(t) ==
    /\ At(t, "insert")
    /\ \/ HashPutBreaks(op[t].name.key)
       \/ /\ \E s \in Places(op[t].name.key) :
                /\ ~HasHoles(s)
                /\ HashPut(op[t].name.key, NewSegment(op[t], <<>>), s)
          /\ last' = [last EXCEPT ![op[t].name] = op[t]]
          /\ Return(t)
          /\ answer' = NoAnswer
          /\ UNCHANGED broken

\* The chunks with o among them; the array grows up to it, without being cleared.
WithChunk(chunks, o) ==
    [i \in 1..(IF o.name.seq < Len(chunks) THEN Len(chunks) ELSE o.name.seq + 1) |->
        IF i = o.name.seq + 1 THEN o
        ELSE IF i <= Len(chunks) THEN chunks[i] ELSE Garbage]

\* The segment that was found gets the object: as a chunk, or as its index.
Store(t) ==
    LET g == ptr[t]  o == op[t] IN
    /\ At(t, "store")
    /\ \/ ~segs[g].live /\ Break
       \/ /\ segs[g].live
          /\ segs' = [segs EXCEPT ![g] =
                        IF IsChunk(o) THEN [segs[g] EXCEPT !.chunks = WithChunk(segs[g].chunks, o)]
                        ELSE [segs[g] EXCEPT !.index = o]]
          /\ last' = [last EXCEPT ![o.name] = o]
          /\ Return(t)
          /\ answer' = NoAnswer
          /\ UNCHANGED <<table, broken>>

\* CS_putSegment: an index object with all its chunks.
PutSegment(t, o, chunks) ==
    /\ At(t, "idle")
    /\ \/ HashPutBreaks(o.name.key)
       \/ /\ \E s \in Places(o.name.key) :
                /\ ~HasHoles(s)
                /\ HashPut(o.name.key, NewSegment(o, chunks), s)
          /\ last' = [n \in Name |-> LET new == {p \in {o} \cup Range(chunks) : p.name = n}
                                   IN  IF new = {} THEN last[n] ELSE CHOOSE p \in new : TRUE]
          /\ answer' = NoAnswer
          /\ UNCHANGED <<pc, op, ptr, broken>>

-----------------------------------------------------------------------------
(* CS_get.                                                                 *)

Answer(n, o) == answer' = [name |-> n, obj |-> o]

BeginGet(t, n) ==
    /\ At(t, "idle")
    /\ \/ /\ NoSegment \in Found(n.key)
          /\ Answer(n, NoObject)
          /\ UNCHANGED <<pc, op, ptr>>
       \/ /\ \E g \in Found(n.key) \ {NoSegment} : ptr' = [ptr EXCEPT ![t] = g]
          /\ pc' = [pc EXCEPT ![t] = "copy"]
          /\ op' = [op EXCEPT ![t] = n]
          /\ answer' = NoAnswer
    /\ UNCHANGED <<table, segs, last, broken>>

\* Mutant of Contents: chunks are counted from one.
ContentsFromOne(g, n) ==
    IF n.seq = Whole THEN segs[g].index
    ELSE IF n.seq \in DOMAIN segs[g].chunks THEN segs[g].chunks[n.seq]
    ELSE NoObject

\* What a segment has under a name.
Contents(g, n) ==
    IF n.seq = Whole THEN segs[g].index
    ELSE IF n.seq < Len(segs[g].chunks) THEN segs[g].chunks[n.seq + 1]
    ELSE NoObject

\* The object is copied out of the segment.
Copy(t) ==
    LET found == Contents(ptr[t], op[t]) IN
    /\ At(t, "copy")
    /\ \/ (~segs[ptr[t]].live \/ found = Garbage) /\ Break
       \/ /\ segs[ptr[t]].live /\ found # Garbage
          /\ Answer(op[t], found)
          /\ Return(t)
          /\ UNCHANGED <<table, segs, last, broken>>

-----------------------------------------------------------------------------

\* The chunks of a sequence publication, in their order.
ChunkLists(o) == {<<>>} \cup {<<c>> : c \in {d \in Chunks : d.name = [o.name EXCEPT !.seq = 0]}}

Next ==
    \E t \in Threads :
       \/ \E o \in Objects : BeginPut(t, o)
       \/ Insert(t)
       \/ Store(t)
       \/ \E o \in Wholes : \E chunks \in ChunkLists(o) : PutSegment(t, o, chunks)
       \/ \E o \in Objects : BeginGet(t, o.name)
       \/ Copy(t)

Spec == Init /\ [][Next]_vars

\* No name is put that is another's without its last component.
NoParents == \A k \in Keys : Parent[k] = NoKey

-----------------------------------------------------------------------------
(* Properties.                                                             *)

\* The table owns the segments: every live segment is in one slot, every used slot
\* has a live segment of its own, so none is leaked and none freed twice.
SegmentsOwned ==
    /\ \A s \in Slots : IF table[s].key = NoKey THEN table[s].seg = NoSegment
                        ELSE table[s].seg # NoSegment /\ segs[table[s].seg].live
    /\ \A g \in Segments : segs[g].live => \E s \in Slots : table[s].seg = g
    /\ \A s, u \in Slots : table[s].seg = table[u].seg /\ table[s].seg # NoSegment => s = u

\* What holds of the table and the segments whatever names are put.
StoreInv == TypeOK /\ SegmentsOwned

\* A key is in one of its slots at most, and a slot of its own that is free comes after
\* that one: so putting the key again finds it.  (It may be in a slot that is not its own
\* as well, where nobody finds it.)
KeyPlacedOnce ==
    \A k \in Keys : \A i, j \in DOMAIN Hash[k] :
        table[Hash[k][i]].key = k =>
            /\ table[Hash[k][j]].key = k => Hash[k][j] = Hash[k][i]
            /\ table[Hash[k][j]].key = NoKey => \E l \in 1..(j - 1) : Hash[k][l] = Hash[k][i]

WholeName(k) == [key |-> k, seq |-> Whole]
ChunkName(k, i) == [key |-> k, seq |-> i - 1]

\* What is in a slot where its key finds it is what was last put.
Current(k, g) ==
    /\ segs[g].index = last[WholeName(k)]
    /\ \A i \in DOMAIN segs[g].chunks :
          segs[g].chunks[i] # Garbage =>
              ChunkName(k, i) \in Name /\ segs[g].chunks[i] = last[ChunkName(k, i)]

ContentCurrent ==
    \A k \in Keys : \A i \in DOMAIN Hash[k] :
        table[Hash[k][i]].key = k => Current(k, table[Hash[k][i]].seg)

\* A pointer to a segment that has not been freed is to the one the table has.
KeyOf(t) == IF pc[t] = "copy" THEN op[t].key ELSE op[t].name.key
PointerCurrent ==
    \A t \in Threads : pc[t] \in {"store", "copy"} /\ segs[ptr[t]].live =>
        /\ pc[t] = "store" => IsChunk(op[t])
        /\ \E i \in DOMAIN Hash[KeyOf(t)] :
              table[Hash[KeyOf(t)][i]] = [key |-> KeyOf(t), seg |-> ptr[t]]

\* With the types and SegmentsOwned, and without parents, the inductive invariant
\* behind ImplementsCache.
CacheInv == KeyPlacedOnce /\ ContentCurrent /\ PointerCurrent

\* As long as no memory is misused the store is a cache: whatever is evicted, lost
\* or published again, and however late a thread uses the segment it has found, a
\* name's answer is the object last put under it or none.
Cache == INSTANCE ContentCache WITH Names <- Name

ImplementsCache == Cache!Spec
=============================================================================
