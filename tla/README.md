# A verification project for CCNU and its Bloom filter routing

The repository holds a content-centric networking stack for mobile ad hoc networks: `ccnud`, a
daemon that keeps content and exchanges interests and data with its neighbours, and `bfrd`, a
routing daemon that groups nodes into a grid of clusters, elects cluster heads and floods Bloom
filters of what can be found where. This directory models their concurrent core in TLA+, checks
it with TLC and proves part of it with TLAPS.

Run, in this directory:

    tlc -workers 2 -config PitRoomy.cfg MCPit      # any run of the table in "Runs"
    tlapm PitProofs.tla                            # any *Proofs module

`PROJECT.json` lists components, runs, the source lines each definition models, the hazards of the
code and which property covers them, and for every property a plausible bug (a mutant of the
model) that the property finds.

## 1. Inventory

Paths are under `src/`.

| Component | State | Operations | What must hold | Here |
|---|---|---|---|---|
| Pending interest table (`ccnu/src/ccnud_pit.c`) with the packet pipeline (`ccnud_net_listener.c`) and the application threads (`ccnud_net_broadcaster.c`) | `g_pit`: 500 entries (name, object, expiry, registered, available), a bitmap of used ones, `pit_lock` and a mutex and condition per entry | find, allocate, add, refresh, close, release, evict; handle an interest or data; express an interest and wait | an entry is released once, by its owner; an application gets its own content; no lost wakeup; calls return | `Pit`, `PendingInterests` |
| The same, between nodes | packets, each node's entries and store | send, forward, answer, send back, ask again | who asks gets the content; interests and data die out | `InterestRouting` |
| Retrieval of a file (`ccnud_listener.c`: `retrieve_segment`) | a window of chunks and their entries, a list of chunks handed over, congestion control | ask for chunks, take them, ask again | every chunk once, at its place; nothing left behind; it ends; no circle of locks | `SegmentFetch` |
| Local sockets: client libraries (`ccnu.c`, `ccnf.c`, `bfr.c`), listeners (`ccnud_listener.c`, `ccnfd_listener.c`, `bfr_listener.c`), main loops (`ccnud.c`, `ccnfd.c`) | connections, streams, jobs, queued options | every call and its handler | both sides agree on the fields; success means done; options in order; a call returns | `LocalProtocols`, `LocalCalls`, `CallService` |
| Thread pool (`libcon/src/thread_pool.c`) | lists of pending and completed jobs, a shutdown flag, two mutexes with conditions, callers' own lists | add, run, store value, fetch value, shut down | each job once, in order; nobody sleeps while there is something for it; shutdown ends | `ThreadPool`, `JobService` |
| Routing daemon: listeners and main loop (`bfr/src/bfr_net_listener.c`, `bfr_listener.c`, `bfrd.c`, `bfrd_main.c`) | two queues, one condition, `g_bfr` under `bfr_lock` | queue a message and signal; wait, drain, pass on, update the position | what is queued and signalled is handled, in order | `BfrDaemon` |
| Routing strategy (`bfr/src/strategy.c`) | `route_msg_q`, event times, join lists, cluster heads | timed wait, `cluster()`, join handlers | messages kept in order, elections end and name real heads | `BfrDaemon` (the loop and `cluster()`) |
| Bloom filter exchange (`strategy.c`, `cluster.c`) | cluster tables, members' filters, aggregates, remembered nonces | `bloom()`, `handle_bloom_msg`, forget a nonce | nobody is told of content that is not there; floods end and reach everybody | `FilterFlood`, `AdvertDirectory` |
| Query handlers (`bfr_listener.c`), grid (`grid.c`), distance table (`distance_table.c`) | distances | where does an interest go, is it forwarded | interests lead to the content; a leaf's floods stay in it | `InterestRouting` |
| Content store (`ccnu/src/ccnud_cs.c`) over the hash table (`libcon/src/hashtable.c`) | 50 slots of segments, each an index object, chunks and a lock | put, put a sequence, get, summary, evict | a cache: an answer is what was last put; segments neither leaked nor freed twice | `ContentStore`, `ContentCache` |
| `ccnflood` | copies of table, store and file retrieval; flooding | as above | as above | its sockets (`LocalCalls`), its file retrieval (`SegmentFetch`) |
| Synchronised queue, linked lists, bitmap, buffers (`libcon/src`) | lists and words | the usual ones | sequences, sets | not modelled |
| Start-up, logging, statistics, applications, scripts, `graph.c` | | I/O | | not modelled |

How they interact. A packet goes from `ccnudnl_service` to a thread of a pool, which finds or makes
an entry of the interest table, asks the content store, and asks `bfrd` over a local socket whether
to forward. An application's request is a thread that registers an entry and waits on its condition
until a pipeline thread hands it the object. `bfrd`'s listeners put messages into queues for its
main thread, which passes routing messages into a second queue for the strategy thread and answers
location updates under `bfr_lock`; the strategy thread holds `bfr_lock` while it sleeps in
`cluster()`, and calls back into `ccnud` for the store's summary. Between nodes, heads flood filters of
what their clusters hold, each node keeps one for every other cluster, and these decide where an
interest is sent; each node that forwards one leaves an entry, along which the data go back.

What is hard. Two levels of locks in the interest table, with operations split over two critical
sections; pointers kept after the lock that found them is gone; condition variables waited on
without their condition; a lock held across sleeps; loops over lists they shorten; eviction under
everybody's feet; floods that cross themselves, with nonces that are forgotten and fields of two
meanings; interests that meet their own copies; processes that end in the middle of a call. None of it
is persisted, so there is no crash recovery; the network loses messages, which the models contain as
messages that do not come.

## 2. Modules

A step is what a thread does between two operations on a lock, with every lock that is held for
such a step only being part of the step; a lock held for longer is a variable or a place in the
program.

**`Pit`** (with `MCPit`, `PitProofs`) and **`PendingInterests`**, what the table promises. `table` is `g_pit.pit_table` with the bitmap folded in as
`valid`; `pitLock` and `mutex[s]` are the locks; `pc`, `job` and `pe` are each thread's place, what
it serves and its `PENTRY`. Workers run `handle_interest` and `handle_data`: `SearchHit`/`SearchMiss`
and `MatchSucceeds`/`MatchFails` are `PIT_exact_match`, which waits for an entry's mutex with the
table locked; `InterestHit` and `CloseEntry` are `PIT_refresh` and the two halves of `PIT_close`;
`DataForApplication` hands over and signals; `DataForNetwork` and `ClearEntry` are the two halves of
`PIT_release`; `AddEntry` is `PIT_add_entry`. Expressers run `ccnudnb_express_interest` from
`PIT_get_handle` (`GetHandle`, `LockNew`) over the retransmission loop (`Send`, `TimeOut`,
`WakeWithObject`, `WakeWithout`, `GiveUp`) to `Finish` and `ClearEntry`. `...Evicting` and `...Full`
are the same operations when the table is full. The segment branch of `handle_data` is in `SegmentFetch`.
`PendingInterests` knows which interests are pending, each with its name and its caller, and what callers were
answered: an interest is served once, with data of its name that a thread has in hand. In the mapping an entry that is
half released is no longer pending; the object in an application's entry is its call's answer; and data are in hand
from their arrival until the entry they matched is served or missed.

**`ThreadPool`** (with `MCThreadPool`, `ThreadPoolProofs`) and **`JobService`**, what the header
promises. A worker is ready, asleep, woken, running, storing or exited; `AddJob` appends and signals
(one sleeper, if any, becomes woken), and so on to `Shutdown` and `Close`, which crashes when the
lists have something left. The mapping to `JobService` takes the pending list for its queue, the
workers' jobs for what is running, and the lists for the results.

**`BfrDaemon`** (with `MCBfrDaemon`, `BfrDaemonProofs`). Listeners queue and then signal (two steps); the main thread
waits, drains `netQ` through `PassMessage` into `routeQ`, drains `ipcQ` and takes `bfr_lock` for a
location; the strategy thread waits with a deadline, runs the events that are due and drains
`routeQ`. `cluster()` is `BeginCluster` (the join is made out), `BroadcastJoin` (after the backoff,
with `bfr_lock`), `Listen` (`filter_msgs`), `Pick` (the loop over the responses) and `Elect`. Signals
are not remembered. What is done with a routing message that the strategy thread takes is not
modelled: `handled` records that it was. `Among` picks the messages of a set out of a queue, and `considered`
counts the loop of `Pick`: both are recursive functions, which a proof can unfold one message at a time.

**`ContentStore`** (with `MCContentStore`, `ContentStoreProofs`) and **`ContentCache`**, what a cache
promises. `table` are the hash table's slots, `segs` is memory, `ptr[t]` a thread's pointer to a
segment between the lookup under the table's lock and the access under the segment's. `BeginPut`,
`Insert` and `Store` are `CS_put`; `PutSegment` is `CS_putSegment`; `BeginGet` and `Copy` are `CS_get`;
`Places`, `Evicted` and `Strays` are `hash_put`, which reads past the end of its array when all slots of
a key are taken. Use of memory that is freed or was never written sets `broken` and ends the behaviour:
what such a program does next cannot be told. `last` remembers what was last put under a name and
`answer` what the last `CS_get` returned; the store implements `ContentCache` with these two.

**`SegmentFetch`** (with `MCSegmentFetch`, `SegmentFetchProofs`). A step is what a thread does between two operations on the four
kinds of mutex (`pit_lock`, an entry's, `segments_lock`, the segment's). Workers run `handle_data` from the
search of the table through `match_segment` to the append to `rcv_chunks`; the retriever fills its window
(`FirstWindow`, an entry for each chunk, from the store if it is there), waits, takes what was handed over
(`PIT_release` with the segment locked, as in the code), sends old interests again and adapts its window.
Data come in any order, twice or not at all; entries expire at any time. `ccnfd` has a copy of this code.

**`LocalProtocols`** gives, for every call of the three daemons, the fields its client sends and awaits and
the fields its handler reads and replies, in the order of the `send` and `recv` calls. **`LocalCalls`** (with
`MCLocalCalls`, `LocalCallsProofs`) runs them: a client connects, sends, awaits, and may end at any time; the listener accepts,
reads the type and makes a job, or queues an option for the main thread; a handler reads, works and replies.
A stream whose other end is closed gives what it still holds and then the end; writing to it raises
`SIGPIPE`. **`CallService`** is what the headers promise: a call is carried out at most once, and before it
succeeds.

**`FilterFlood`** (with `MCFilterFlood`, `FilterFloodProofs`) and **`AdvertDirectory`**. Several `bfrd`, with clusters that do not
change. `Bloom` is a round of `bloom()`: the aggregate at every level the node heads is made (`Parts` is
`clus_compute_aggregate`, which takes clusters of its own level, and `FirstBits` what its `memset` clears)
and flooded, the node's filter sent to the head otherwise. `Handle` is `handle_bloom_msg` with `Record` and
`Forwarded`; `Drop` and `Forget` are the memory of nonces; `Cluster` is what an election leaves behind. The
time to live and the level a message is for are one field, as in the code, so `Intra` changes its mind on
the way. `AdvertDirectory` promises that a directory gives for other clusters only what they advertised.

**`InterestRouting`** (with `MCInterestRouting`, `InterestRoutingProofs`). Several nodes, each with a `ccnud` and a `bfrd`, and one
name. `Ask`, `Retry`, `GiveUp` and `Return` are `ccnudnb_express_interest`; `TakeInterest`, `Decide` and `Add`
are `handle_interest`, in three steps because it asks `bfrd` in between and enters the interest after it was
sent on; `TakeData` and `Drop` are `handle_data`. `Dests` is `dest_query_response` and `Forwards`
`fwd_query_response`, over the grid's geometry (`ClusterAt`, `Center`, `Distance`), the tables' filters
(`Known`) and the distance table (`Hops`, of which a value that was never written is read). `DestDistance` is
the distance that goes with a destination, `Middle` what `round()` makes of the middle of a cluster. The code's
numbers are doubles, the model's whole: a place is counted in parts of a unit, borders are compared without
dividing, and a distance is cut to units, as where it is read. Operations of the table are atomic; `Pit` takes
them apart.

## 3. Runs

An invariant that ends in `Inv` is a conjunction that begins with the module's type invariant, but for `RoomyInv`,
`CacheInv` and `SegmentInv`: `TableInv` (names are present, mutexes have their owners), `PoolInv` (nobody sleeps while there is
something for it), `QueueInv` (messages pass in order), `StoreInv` (segments have one owner), `StreamInv` (both ends
read what was sent, and nobody is left waiting for one who waits for him), `FetchInv` (window, entries and places agree), `FilterInv` (filters are of those they are kept
for) and `RoutingInv` (applications keep their entries, content stays where it was given). `RoomyInv` is the inductive
invariant of the table with room, with the order in which its locks are taken (`TableLockPasses`); `SegmentInv` is of
the segment of a retrieval (it outlives its users, its mutexes stop all threads only in the circle, nothing is left
behind). Their parts are named, and commented, before them.

| Run | Shows |
|---|---|
| `pit_roomy` (passes) | While allocations find a free slot: one releaser per entry, entries stay their owner's, the right content or none, no lost wakeup, a new entry's mutex is free, the table's lock passes on, `RoomyInv`; the table implements the pending interests; and, with fairness, calls return, packets are dealt with, an object that reached a waiting application is returned. |
| `pit_full` (passes) | What eviction leaves true: names present, mutexes owned, applications' entries spared. |
| `thread_pool` (passes) | Jobs run once and in order, one signal each is enough for workers and clients, shutdown reaches everybody and ends; the pool implements the job service. |
| `bfr_daemon_queues` (passes) | Routing messages pass both queues in order, none lost or doubled, with `cluster()` taking responses out of one and putting some back; a head comes from a response about the cluster joined. |
| `bfr_daemon_live` (passes) | A wakeup empties both queues though `cluster()` keeps taking `bfr_lock`; the strategy thread handles what it is passed even if it missed the signal; elections end. |
| `content_store` (passes) | With eviction, stray slots, holes and late pointers: segments neither leaked nor freed twice, `CacheInv`, and every answer is what was last put or none until memory is misused. |
| `local_calls` (passes) | Of all calls to the three daemons, two at a time: handlers read what clients sent and clients what handlers sent, a call that succeeds was carried out once, nobody is left waiting for one who waits for him, options are applied in order, clients are killed or left spinning only by the end of a daemon (or by a short name), and calls end, but for two kinds that `CallsReturn` names: a call that loops for ever for a file because its daemon has ended (`LoopsForEver`), and one that waits behind a retrieval that lasts for ever (`[]Occupied`). |
| `segment_fetch` (passes) | Window, entries and places agree; no chunk is handed over twice or copied to another's place; chunk 0 comes first; the segment outlives the threads that use it; the threads all wait for mutexes only in the circle below; nothing is left behind; and, when answers come in time, the retrieval ends but for that circle and a NULL entry. |
| `segment_fetch_circle` (violated) | A duplicate of a chunk has the retriever wait for `pit_lock` with its segment locked, a second thread for the entry with `pit_lock` locked, and a third, that has the entry, for the segment. |
| `filter_flood` (passes) | No filter is credited to a cluster or node that never had its content; what a node knows of other clusters is what they advertised; floods end although nonces are forgotten; they reach everybody if no message is lost and no nonce drawn twice. |
| `interest_routing` (passes) | Who is not misled gets the content within three attempts; a call keeps its entry and leaves none behind; data come from stores that have the content; a leaf's flood stays in it; all traffic ends, as long as no entry expires. |
| `interest_routing_storm` (violated) | Once an entry has expired the next interest for its name goes between two nodes for ever, whatever its time to live. |

A violated run is a disagreement with the sentence of the code or its documentation quoted in
`PROJECT.json` under "findings".

Other things the code does, met while modelling, which the passing runs step around by a condition
that says so:

- When the table is full of applications' entries `PIT_get_handle` and `PIT_add_entry` return with `pit_lock`
  locked and every later call blocks; and an entry evicted between the two halves of `PIT_release` can give
  an application another name's content. `pit_roomy` is about behaviours in which allocations find a free slot.
- `bfrd`'s and `ccnud`'s main threads wait without looking at their queues: a message notified meanwhile stays
  until the next one. `WokenHandles` is about the messages that are there when the thread wakes up.
- `cluster()` looks at half of the responses and may delete the others, and joins the cluster it has left if
  the location changes during the backoff.
- An object published one component below a stored name replaces that name's index object. In
  `content_store` no name is below another.
- `bfrd` drops a distance update of which only a part has come when it looks. `OthersKept` leaves it out.
- A flood for cluster 0 becomes a message within a leaf when its time to live has come down to the leaves'
  level. `MembersOwn` (in `FilterInv`) and `FloodsSpread` leave cluster 0 out.
- A node that waits for a name drops other nodes' interests for it, so an application whose own interests go
  nowhere starves others, however often they ask. `Delivered` excuses these (`Misled`) and expired entries
  (`Hidden`). Data satisfies only the first entry of its name: where a forwarded interest's entry lies before
  the application's, the data goes on and the application waits for another attempt, although its node's
  store has the content by then; two attempts are not enough in `interest_routing`.
- The circle of waits has a second, longer form: a thread has the table locked and waits for an entry, whose holder
  waits for `segments_lock`, whose holder waits for the segment, whose retriever waits for the table. It takes three
  threads of the pipeline, which has two by default; `segment_fetch` does not reach it, and it was found when the
  proof of `StandstillIsCircle` failed for a narrower `Circle`.
- `grid_convertCluster` takes no notice of the level it is to convert to (`grid.c`): it looks for the cluster that holds
  the centre of the one it is given at that one's own level, and that is the same cluster on all but very small grids
  (`CenterInCluster`). The comment in `grid.h:89` has 2:0, 2:1, 2:4 and 2:5 become 1:0.
- `grid_center` rounds. On a grid with fewer units than a level has divisions, but for one, the centre of some cluster is
  rounded into another: with three levels on a grid two units wide, 0.375 becomes 0 and 0.625 becomes 1
  (`CenterInCluster` says which grids). The default grid and the usage text's are far larger.
- The end of a daemon leaves a client that awaits a file in an endless loop (`LoopsForEver`): `ccnu_retrieveSeq` takes
  what `recv` returns at the end of the stream for progress (`ccnu.c:681`).
- A node that heads its clusters of every level sends what no filter matches to cluster 0 of the first level, as the
  grid's centre belongs to it, and only from cluster 0 to another, 1 (`HeadOfAllAsks`).

### Bounds

- `Pit`: two workers and one application, two slots and two names: two names in two slots is the
  least that lets an entry be cleared under a new owner, and two workers the least that lets one
  match while the other releases. `MaxRequests` (3 with room, up to 6 when full) packets and requests
  together, `MaxTime` 3 for a lifetime of 1, so that entries expire and are refreshed; 2 retries so
  that there is a round after a timeout.
- `ThreadPool`: two workers, two clients, two jobs, two lists: a signal may go to the wrong one of
  two in each role. Each job is added at most once (a job is a call of `tpool_add_job`).
- `BfrDaemon`: a grid of one level with two clusters, so that a location update changes the cluster;
  up to three packets, among them responses from two neighbours and about both clusters; one or two
  messages on the local socket; one or two join attempts. The live run uses one packet and two
  messages: what can starve is the one who waits for `bfr_lock`. It leaves out messages that are too
  short, with which the main thread gives up draining (a hazard listed in `PROJECT.json`).
- `ContentStore`: two threads, two names, a table of two slots in which one name has a single slot it
  shares with the other (so that it evicts, or strays), index objects with two time stamps, chunks 0
  and 1 (chunk 1 first leaves a hole).
- `SegmentFetch`: three chunks through a window of two with two entries: the least in which a place and an
  entry are used again while data for the chunk before may still come. Two workers: the default of the
  pipeline, and what the circle needs. Chunk 1 may be in the store.
- `LocalCalls`: two calls, the first of any kind, the second an option, a publication, a location or a
  query, so that each way through a daemon meets each other; a sequence of one chunk.
- `FilterFlood`: three nodes in a row, two in one leaf, one cluster above: a flood is forwarded once and comes
  back, and a flood with time to live 3 ends at its level 2. Two rounds of `bloom()`, the second when nothing is on
  its way (`MaxFlight`), one election, two nonces, so that they clash. A name's bit lies outside the bits the
  aggregate clears.
- `InterestRouting`: three nodes in a row: the middle one hears copies from both sides, and one side's
  neighbour is nearer to a centre than the middle. The grid is 81 by 83 units with two levels, so that every centre is
  rounded, and places are counted in halves. Two of them ask once each, with three attempts. In
  `interest_routing` entries outlive the run, in `interest_routing_storm` they do not.

CHECK_DEADLOCK is off where the system may stop: the request bounds are used up, a pool is closed,
memory has been misused.

### Fairness

Threads run: weak fairness of each thread's steps. `pthread_cond_timedwait` returns: in `Pit` the
timeout is one of the thread's own steps, in `BfrDaemon` it has a condition of its own, since the
deadline is the strategy loop's next event. `Relocate` has strong fairness, as the main thread waits
in `pthread_mutex_lock` for a lock that `cluster()` releases and takes again, with sleeps in between in
which a waiter gets it. Nothing else is assumed: no packet, request or job has to come, no spurious
wakeup is counted on, no client has to fetch, no pool has to be shut down, and the clock need not
advance.

`SegmentFetch` gives the retriever strong fairness, as it waits for mutexes that others keep releasing, and
assumes that an interest sent for ever is answered some time (`Deliver`, `Resend`): a network that loses
everything fetches nothing. `Fetches` holds of behaviours in which entries stop expiring. In `LocalCalls` every
thread runs but a handler that retrieves a file, which may never end: `CallsReturn` lets off who waits behind it only
if it lasts for ever. In `FilterFlood` and
`InterestRouting` some packet is delivered, or some handler runs, while there is one: which is the next is left
open, so that a single packet may wait for ever while others go round.

## 4. Proofs

Every theorem holds for all values of the constants that satisfy the named assumptions of the module: finite sets
of threads where they are counted, counts and times that are natural numbers, distinct null values. Some ask for more:
`Pit`, `BfrDaemon`, `SegmentFetch` and `InterestRouting` for at least one slot, level, chunk or attempt; `ContentStore` for
hash functions that give every name a slot (`StoreAssumption`); `FilterFlood` for a time to live that is not less than
the number of levels (`FloodAssumption`); and `InterestRouting` for at most eight levels, as an interest has 16 bits
for a cluster's number, and for nodes that are on the grid, at places that are whole multiples of some part of a
unit (`RoutingAssumption`). It asks nothing of the grid's size: `round()` in `grid_center` is in the model.

**Interest table** (`PitProofs`). `TypeCorrect`, `MutexOwnership`, `NamesPresent`, together `TableCorrect`, and `EvictionSafe`
hold of `Spec`, with the table full or not. `RoomyContent`, `RoomyWakeup` and `RoomyRelease` hold of
`RoomySpec`, the behaviours in which allocations find a free slot; they fail when it does not
(see "Other things the code does"). None of them is inductive. A release clears the slot by its number and without the
entry's mutex, so what makes it safe is that nobody else can come to use the slot meanwhile: a half
released entry is so expired that no search matches it (`ExpiredInv`), it is not free, an entry that
was matched is not being released (`HitInv`, `MatchInv`), and every registered entry has its one
application (`RegisteredInv`, `NewInv`). `ObjectInv` ties objects to the entry's name, from which
`RightContent` follows. `EntriesInv` is the conjunction; `NextEntriesInv` has a step for each action. `RoomyCorrect` adds
`TableLockPasses`, and `RoomyLocks` says what it is for: whoever has the table locked takes one more mutex, whose
holder waits for no lock, so that no threads wait for each other. `TableIsPending` proves the refinement of
`PendingInterests`: that the interest an object is put into is pending, has the object's name and has no answer yet is
what `HitInv`, `MatchInv` and `ObjectInv` say; `NothingYet` says that a call that has no entry yet has no answer.

**Thread pool** (`ThreadPoolProofs`). `PoolTypes`; and `NobodySleepsOnWork`: while a worker sleeps there
are at most as many pending jobs as woken workers, and the same of clients and values. An addition
makes one more job and, if anyone sleeps, one more woken worker; a woken worker that finds the list
empty can only go back to sleep because nothing is pending; that is why one signal each is enough,
with spurious wakeups and with workers that never slept. The counting needs that the sets are finite.
`JobsRunOnce`: a job that is anywhere was added, it is in one place only (pending, at some worker, completed, or a
client's), and it has run at most once, which is decided by the place (`HomeInv`); a job added a second time is not
a step of the model, as adding allocates it. `PoolIsService` proves that every step is a step of `JobService` or changes nothing there.

**Content store** (`ContentStoreProofs`). `StoreTypes` and `StoreOwnership` (every live segment in one
slot, every used slot with a live segment), together `StoreCorrect`, hold for any hash functions, stray slots included. Under
`NoParents` (no name put is another's without its last component) `StoreCurrent` proves `CacheInv`: a key
is in at most one of its slots and found there before any free one (`KeyPlacedOnce`, which a slot given
twice by the hash functions complicates), what is found holds the last objects put (`ContentCurrent`), and
a thread's pointer is to the table's segment for its name or to a freed one (`PointerCurrent`). From it
`StoreIsCache` proves that every step is a step of `ContentCache`: `Copy` by `PointerCurrent` and
`ContentCurrent`, the puts because they change `last` only under the names of the objects put. Without
`NoParents` both fail, as the index object of one name is stored under another.

**Routing daemon** (`BfrDaemonProofs`). `QueuesKeepOrder`, for any queues and any number of messages: what the
strategy thread has handled, what waits in its queue, what the main thread is passing on and what waits in its own
queue are, but for responses to joins and what is not for the strategy, together exactly what arrived, in that order. `cluster()` takes responses out of the middle of
`routeQ` and puts some back in front; neither changes what is left when the responses are looked through (`Among` distributes over
concatenation, and picks twice as it picks once). `HeadIsNamed` says that a head comes from a response about the
cluster that was joined. The invariant adds that what is in a queue or at hand has arrived (`OriginInv`, `HeldInv`)
and where `cluster()` can be with which values: a join while it runs, attempts while it listens, a
head only once one is found (`ElectionInv`).

**Filter exchange** (`FilterFloodProofs`). `FiltersTrue`: `FilterInv` is inductive as it is: what is on its way (`MessagesTrue`)
is tied to what was advertised (`AdvertsTrue`), to who had the content, and to the members' filters a head keeps
(`MembersOwn`). `DirectoryImplemented` proves the refinement of `AdvertDirectory` step by step: a round of `bloom()` advertises,
recording another cluster's message learns, and all else stutters, `Forget` included.

**File retrieval** (`SegmentFetchProofs`). `FetchCorrect` (`FetchInv`), `HandedOverOnce`, `FileIsRight` and
`SegmentIsThere`. That a chunk is never handed over twice, although its data may come twice and its entry be used again for
another chunk, needs all of it at once: which chunk the window is waiting for (`WindowInv`), who has which of the four kinds
of mutex (`LocksInv`), what a worker between two of them may rely on (`WorkersInv`), what each entry is of
(`EntriesInv`) and what the retriever is about to do (`CourseInv`). There is a lemma for each action.
`StandstillIsCircle`: the only way in which every thread waits for a mutex is the circle. When nobody has the segment
somebody goes on (`SegmentFree`), and a thread that appends to its list goes on too; so the retriever has it, waits for
the table, and the table's holder waits, by one thread or by several, for the retriever (`SegmentKept`).
`CircleIsForever`: every step of a thread outside the circle leaves it as it is.

**Local sockets** (`LocalCallsProofs`). `StreamsUnderstood` (`StreamInv`), `DaemonSparesClients`, `OrderKept`,
`MessagesKept`, and `CallsAreServed`: every step is one of `CallService`. Of the protocols it uses only a few facts, stated and
proved first from `LocalProtocols`' definitions: the handler's fields are the client's, and the replies are what is awaited, for each kind of call.
The invariant follows a call through its life: what its handler has not read is the rest of what the client sent
(`RequestInv`), what the client has not read is the rest of what was replied (`AnswerInv`), the streams end only when
one side has ended (`EndInv`), a request for the pool is always in somebody's hands (`HandedInv`), and a client returns success only with the last answer (`ReturnInv`), by
when the call has been performed (`PerformedInv`). `LineInv` is the order of options: applied, at hand,
queued, and behind. `StreamsGoOn`: when no client sends, everything a handler or the listener waits for has been sent,
as a client that waits or is done has sent all of its request and one that has gone has closed its end, after the
whole header or before any of it (`HeaderWhole`); so no thread is kept, no job waits, and a client's call is closed or
not yet made.

**Interest routing** (`InterestRoutingProofs`), in any network and on any grid under `RoutingAssumption`. `LeafFloodsKept` (`LeafFloodsStay`): an
interest flooded within a leaf is sent on outside it only by a node that knows a cluster with the content or
waits for it; it needs only which fields packets have (`PacketsInv`). `EntriesAndContent` proves `RoutingInv`: the
types; `EntriesKept`, an application that waits has an entry of its own until it leaves, although pipelines match, refresh,
serve, release and evict entries meanwhile, and leaves none behind; and `ContentStays`, whoever sends data, is served or
returns with success has the content in its node's store. Types are most of the work, as cluster numbers and distances are computed: that
a place's cluster exists, that its centre is in the grid and that a distance is bounded come from lemmas about
the grid (`TileIs`, `MiddleIs`, `CenterIs`, `DistanceIs`, `DestDistanceIs`). What they need of numbers is proved too: a power of two is the number of a finite set's subsets, an
integer root exists because a set of numbers has a least one. One call's entry and state are followed by
`CallStep`, one pipeline's by `EntryStep`. Of the grid itself: `ClustersNest` and `HeadOfAllAsks` on any grid, with the
borders of clusters, which belong to the one before (`TileHolds`), as the case to be careful with. `CenterInCluster` says
on which grids every rounded centre of a level is in its cluster, and is an equivalence: on a side of at least one unit
less than the level has divisions rounding leaves every middle in its tile (`MiddleInTile`); on a shorter one there are
fewer whole units than tiles, so that two middles are rounded to the same (`MiddlesApart`). `CenterInWhole` has the
first of these as its hypothesis.

Only model-checked. Everything about liveness (`CallsReturn`, `Fetches`, `FloodsEnd` and so on): fairness and
ENABLED are out of the provers' reach. `Delivered`: it is about the instance, as whether three
attempts are enough depends on who hears whom; two are not enough for three nodes in a row. The violated
properties have their counterexamples.

## 5. Not modelled

- In `Pit`: time stamps, routes, distances and time-to-live of packets, which change no state of the table;
  the routing daemon's answer to a forwarding query is a free choice (`InterestRouting` makes it).
- The join handlers with `pending_joins` and `matching_responses`: in `BfrDaemon` responses come or do not.
- Filters forwarded by position (`BFR_FLOOD_STATE` is defined), detection of interests' nonces
  (`CCNU_NONCE_DETECT` is not), `random_evict`: code that is not built or used.
- Nodes that move, in `FilterFlood` and `InterestRouting`: a node's clusters stay its clusters. The location
  update itself is in `BfrDaemon`.
- False positives of Bloom filters: a name is one bit. Segmented names in `InterestRouting`, whose chunks are
  routed by their prefix.
- The interests of `ccnflood`, forwarded without asking; a handler of `ccnfd` is otherwise `ccnud`'s.
- Raw sockets, configuration, start-up, logging and statistics are I/O; lists, bitmaps, buffers and names are
  sequential helpers that the models use as sequences, sets and values.
- Uses of freed or unwritten memory end a behaviour of `ContentStore`. The order of time stamps in eviction is
  modelled as the code has it, which is not the order its comments give.

## 6. Plan

The modules are written, and every safety invariant and every refinement that a run checks is proved, but for
`Delivered`. What is left is the join handlers, as an election between nodes.

Hazards of the code that are not in the list of `PROJECT.json`, as they are the smaller ones: `evict()` takes any
entry with another expiry for an older one (`ccnud_pit.c:84`), `oldest_evict` keeps the highest time stamp
(`ccnud_cs.c:339`) and reads an index object without its segment's lock (line 337); `tpool_create` returns with a
mutex locked when a thread cannot be made (`thread_pool.c:32`), `tpool_shutdown` calls a list's delete function that
is NULL (line 53); `bloom()` returns early and leaves its deadline in the past (`strategy.c:555`), the election's
loop shortens the list it counts (line 453); a location update that is too short stops the draining of a queue
(`bfrd.c:224`); `retrieve_segment` compares a pointer with `< 0` (`ccnud_listener.c:801`); `clus_get_cluster` answers with filters of the leaf before a move
(`cluster.c:23`).
