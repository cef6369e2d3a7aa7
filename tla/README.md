# minecpp in TLA+

minecpp is a Minecraft 1.8 server in C and C++. These modules model its concurrent and
stateful parts, TLC checks them on small instances, and TLAPS proves the central
properties for every value of the constants. Paths below are relative to the
repository; `server.cpp` is `versions/v1_8/src/server.cpp`.

## The system

| component | source | state | operations |
|---|---|---|---|
| job system | `src/core/src/thread_pool.c` | per worker: three FIFO rings (lanes) of 1024 jobs behind a mutex, a condition variable; globals `g_down`, `g_w`, `g_n`, `g_rr`, counters | init, submit, shutdown, stats; the worker loop pops, steals and drains |
| chunk streaming | `server.cpp`, `chunk.cpp` | per player `loaded` and `inflight`; the world's map of chunks; the budget | request, job, adopt, evict, retry, block changes |
| net thread | `net_thread.cpp`, `net.c` | sockets, per connection a channel (rx, tx, compression), `closing` | accept, read, write, close, messages of the tick thread |
| sessions | `server.cpp` | players: state, name, keepalive | handshake, status, login, join, kick, timers |
| inventory | `server.cpp` | 45 slots, cursor, a drag that spans packets | seven click modes, drop, place, creative, pickup |
| entities, visibility | `server.cpp` | items, mobs, `known_players`, `seen_by` | spawn, tick, despawn, show, hide, broadcast |
| region files | `src/core/src/region.c` | a header and sectors on disk; entries and a sector map in memory | open, close, read, write |
| message queue | `src/core/src/mqueue.c` | a list behind a mutex | push, pop, wait |
| codecs | `buf.c`, `nbt.c`, `protocol.cpp`, `chunk.cpp` | none | encode, decode |
| world generation, physics, crypto | `worldgen.cpp`, `physics.cpp`, `crypto.c` | none, or floats | |
| main loop | `main.cpp` | the tick counter | 20 ticks a second; stop, join, drain |
| stubs | `scheduler.c`, `event.c`, `v1_9`, `v1_10` | | |

**How they interact.** Three kinds of threads share very little. The *net thread* turns
bytes into packets and pushes them into `tick_q`. The *tick thread* (`Server::OnTick`)
pops `tick_q`, owns every player, the world and the entities, and pushes frames and
orders (`EnableCompression`, `Close`) into `net_q`. *Workers* run chunk jobs that the
tick thread submits; they read region files or generate, and push the result into
`tick_q`. So everybody acts on what the others knew some messages ago, and what is hard
about the system is exactly that:

- *job system*: three parties at one ring (owner, thieves, submitter), a shutdown that
  destroys mutexes thieves may still try, two globals that are stored while workers read
  them. Correct means: no job runs twice, none that was accepted is lost, shutdown returns
  when all have run.
- *chunk streaming*: requests cut off by a budget, replies for players who have left,
  moved on or already have the column, evictions while others look. Correct means: no
  request is forgotten or repeated, nothing on screen is evicted, what players see is
  what the world has.
- *sessions*: the two threads agree on the frame format and on who exists although both
  can end a connection. Correct means: no player without a socket, no socket without a
  player, one name once, one keepalive at a time.
- *inventory*: a state machine of many branches, driven by a client that paints ahead
  of the answers. Correct means: nothing is created or lost, and the client knows.
- *wire*: packets cut into bytes at any place, a compression threshold that changes
  between two of them, buffers that fill, a stream that ends. Correct means: the handler
  gets what was sent, whole, in order and in time; what breaks a limit is given up and
  never taken for something else.
- *visibility*: who sees whom is kept on both sides and changed by joins, moves, kicks
  and departures. Correct means: the two sides agree, screens show what exists, where
  its client was told it is but for rounding.
- *shutdown*: the queues are freed under threads that were anywhere in their loops.
  Correct means: both threads end, and nobody has a queue when it goes.
- *region files*: crashes and failures between the writes of sectors and header.
  Correct means: what was written with success can be read back, for ever.

## Modules

| module | models | abstracts |
|---|---|---|
| `ThreadPool` | `thread_pool.c`, one step a lock, a read, a ring operation | a job is its number; three lanes are `LANES` |
| `Executor` | what `thread_pool.h` promises | implemented by `ThreadPool` (`ImplementsExecutor`) |
| `ChunkStream` | columns of all players, the world, the jobs and replies | the content of a column is the number of its last edit; a row of columns for the plane |
| `Sessions` | net thread, tick thread, both queues, clients | a frame is its kind and its format |
| `Inventory` | one player's inventory and the stacks on the ground | a kind of item is id, damage and NBT; no positions |
| `Region` | one handle on one file, the disk, crashes | a payload is its identity and its sectors |
| `ChunkStore` | what a region file promises | implemented by `Region` (`ImplementsStore`) |
| `Visibility` | players, entities, who knows and sees whom, what each client shows | one axis, in 64ths of a block; entities stay where they are |
| `Buf` | readers and writers of `buf.c` | a buffer is run-length coded |
| `Nbt` | the serialiser and the parser of `nbt.c`, with the limits of the parser | failures are one |
| `Codec` | how `protocol.cpp` encodes and decodes, over a layout of fields | the halves of a 64-bit value are a pair |
| `Packets` | the layouts of the packets and the tables of ids | |
| `Columns` | a column in `ChunkData` and `MapChunkBulk` | a section is one block and one value of each light |
| `Channel` | one direction of a connection, byte by byte: `minecpp_chan`, socket, event loop | what a packet is, its handler and zlib are constants |
| `Wire` | the packets in a `Channel`: what `Enc` and the handlers make of them | zlib is reversible and no more |
| `Stream` | what a connection promises: frames in order, in time, all of them when it is closed | no bytes but their number; implemented by `Channel` (`ImplementsStream`) |
| `ThreadPoolProofs`, `ChunkStreamProofs`, `SessionsProofs`, `InventoryProofs`, `RegionProofs`, `VisibilityProofs`, `StreamProofs`, `ChannelProofs` | theorems | |
| `MC*` | instances for TLC | |

`Channel` extends `Buf` and takes the rest as constants (`Payload`, `Handle`, `IsSwitch`,
`Compress`, `Uncompress`, and `Right`, which says of an item and of what its handler was
given whether the one should come of the other); `Wire` extends `Channel` and `Columns`
(and so `Packets`, `Codec`, `Nbt`), and its `Encoded`, `Handled`, `Switches`, `Deflate`,
`Inflate` and `CameOut` are the values of those constants in `MCWire.cfg`. `Sessions` and
`Channel` cut the connection in two ways: `Sessions` has both threads and both queues and
takes a frame as a whole, `Channel` has one direction's bytes and takes the order of the
messages as given.

State keeps the names of the code where it can. The correspondence, beyond names:

- **ThreadPool.** `pc` and `caller` say between which two points of
  `worker_main`/`minecpp_thread_pool_*` a thread is; `mu` is who holds a worker's mutex
  (or that it is destroyed). A pop is two steps, read and advance, so
  that mutual exclusion is what the mutex provides and not the grain of the model. A
  timed wait may end at any moment; whom a signal wakes is left out.
  `g_w` and `g_n` are plain globals that `init` stores (158-159) while the workers read
  them in their steal loops. `Publish` is both stores, and which of them a worker sees is
  open: `knows` are the threads that are bound to see both, `carries` the mutexes that
  hand this on: a mutex unlocked by who knows teaches who locks it next, as C's mutexes do,
  and nothing else orders the stores before the reads (`g_down` is cleared before them, and
  who sees it set again steals no more). A worker outside
  `knows` reads either value of each: no count, and its steal loop ends (`StealEnd`); both
  (`StealTry`, after which it goes on seeing them); the count without the table, and it
  dereferences null (`Fault`), which ends the process (`Up`).
- **ChunkStream.** The tick is the loop of `OnTick`: messages, then the retry for each
  player. Messages of players are chosen when they are popped; `replies` holds what
  workers have pushed. `newest` and `client` are history: who was sent a column last,
  and what he saw. `AllocFails` lets `new` return null in submit and worker; `Label` is
  the `xPos` found in a column's NBT, under which `Adopt` files it.
- **Sessions.** `net` says whether the net thread polls, handles events or empties
  `net_q`; `at` whether the tick drains or runs timers. A message pops into a handler
  as a whole; `emit` is what the handler has sent and not yet pushed. Corrupt frames,
  end of file, full buffers and kicks all take the paths the code has for them. A
  client talks, hears, falls silent or hangs up at any moment.
  When the signal to stop comes, `at` goes on behind the loop of main: `Join` waits until
  the net thread has left its loop and closed what is open (`Leave`, `CloseLeft`,
  `Over`), then `Free` empties both queues. The shutdown of the pool lies between the two
  (`ThreadPool`).
- **Channel.** `tx` and `rx` are the buffers of the two channels, `pipe` the bytes under way.
  `Frame`, `ChanNext` and `Recv` are `minecpp_chan_send`, `_next` and `_recv`. `ends`,
  `written` and `got` are history. A socket takes, and the network delivers, all bytes,
  all but one, or (a bounded number of times) one. A buffer is the sequence of its runs,
  each a byte and where the run ends, in which neighbours differ, so that equal bytes are
  equal buffers and the size is in the last run. `Sendable` is what is asked of a packet:
  it fits a frame (`minecpp_chan_send` does not see to that; the largest the server sends
  does), zlib gives back what it was given, and the handler reads a threshold as it was
  written.
- **Wire.** The packet's `Encode` and `Decode` are one layout, the sequence of its fields with the
  test that only one of the two makes; that both visit the fields in one order was read
  off the code packet by packet, and where they differ the layout says so (`Flagged`,
  `AtMost`, `Counted`). `Enc` ignores what `Encode` returns, as in `server.cpp:42`.
- **Visibility.** `known`, `seen` are `known_players` and `seen_by`; `shows`, `image` and
  `things` are what the client of each player has on its screen, put down when it is
  sent. A movement is converted as in `BroadcastPlayerMove`: rounded by itself, cast to a
  signed byte. `Respawn` puts a player back to the spawn and tells nobody else, as
  `HandleClientStatus` does; `untold` is history, how far a figure is off for that. `Tick`
  scans the entities and stops at the first despawn or pickup; `turn` is history and changes
  with each scan that comes to its end. `Eids` is the number of entities that are there at
  once; their number in all is not bounded.
- **Inventory.** Each click mode is an action with the branches of `ProcessClick`, its
  refusals, and `Resync` for what is resent. `shown` is what the client was told or has
  painted. A stack whose count went to 0 without its id being cleared is still a stack, as for
  `SlotEmpty` (`Free`); counts are bytes (`BYTE`). A drag goes over any slots of the client's
  choice, as the server has no test of their number against the cursor's items, and a
  right drag over more (`RunsOut`) takes the count through 0. `Gifts` are the counts a
  creative client names, which may be none or above `MAX`.
  The loops over slots are `Sweep`s: the body of a loop is a function, and what is there
  after n turns a recursive function of n, about which one can prove things where
  `FoldLeft` takes an operator.
- **Region.** `op` is the write in progress; `WriteSector` and `WriteHeader` are the
  `fwrite`s in their order, `WriteFails` any of them, `Crash` the death of the process
  at any point, after which `Open` starts from the file. The header goes out as one
  write: 8192 bytes exceed the buffer stdio usually gives a file. A crash of the operating
  system, which may reorder writes, is not modelled: the code never calls `fsync`.

## Runs

Every run ends within five minutes with two workers. Deadlock is not checked: all
systems may come to rest (jobs done, clients gone, bounds used up).

| run | asks | bounds and why they are enough |
|---|---|---|
| `pool` | safety of the pool, the refinement of `Executor`; accepted jobs run, shutdown returns | 2 workers, 2 lanes of 1 job, 3 jobs: the third meets a full lane, a thief and the drain loop; a second init after a shutdown is left to the proofs |
| `chunks` | requests, evictions, freshness | 2 players, 3 columns, room for 2, one edit: eviction, sharing and departure all happen |
| `chunks_live` | every column in view that can arrive does | budget 1 and room for 1 column, failed allocations, a column filed under the coordinates of another, an aborted tick: every request is cut off or refused at some time |
| `chunks_edits` | *violation*: an edit made while players look is undone | as `chunks` |
| `sessions` | agreement of the threads, up to the end of the process | 2 connections, 1 name, a socket of 1 frame, a buffer of 2: names compete, buffers fill, and the signal comes at every point |
| `sessions_live` | kicked connections close, silent players go, a stop stops | 1 connection; liveness does not depend on others |
| `inventory` | conservation, the client's view, drags | 3 slots, stacks of 2, bytes of 5 values, 2 kinds, 3 items, creative stacks of 0, 1 and 3 (over the maximum): each mode splits, merges, fills and overflows |
| `inventory_dupes` | *violation*: items out of nothing | 4 slots, from counts the code itself produces |
| `region` | first fit, durability, the refinement of `ChunkStore` | 2 chunks, 4 data sectors, payloads of 1, 2, 3 sectors where an entry counts to 2: in place, moves, gaps, appends, truncated counts |
| `region_diskfull` | *violation*: durability after a failed append | as `region` |
| `wire` | packets arrive as sent, in time, all of them; the refinement of `Stream` | the sizes of the code (2 MiB frames, 8 MiB buffer, 64 KiB reads, 2 MiB for the NBT of a slot), but trees 4 deep instead of 512; one script for every packet with all fields zero, at the top and at the bottom of their ranges, with each value its layout branches on; packets at and beyond the limits, each before another one and with compression on; columns alone and in bulk; the switch of compression with packets just under, at and over the threshold; five bulks that do not fit the buffer |
| `visibility` | screens and what the server knows of them agree; stacks go unless they are starved | 2 connections, a place 6 blocks and a 64th from the spawn and one out of sight, 2 moves, 2 entities at a time that come and go without end: rounding, a delta too long for a byte, losing sight, respawns; ages of 0 and 1 ticks, so that despawns and pickups cut scans short on either side of a stack in the map |

Bounds of the models: `MaxJobs`, `MaxInits`; `MaxEdits` and `Burst` (players talk in the
first turns of a tick's drain); `MaxItems`; `MaxSectors`, and `BeyondStray`, which ends
the writes of a behaviour when an entry has gone astray; `Gifts`, of the 256 counts of a byte. Symmetry is used where
connections, kinds, names or chunks are interchangeable, and in no liveness run. In
`MCWire`: `ListBound` (a list is filled to the decoder's cap or 127 elements) and `slow`
(how often a script has a single byte delivered); in `Visibility`: `Eids`, `MaxMoves`,
`MaxSpawn` (the limits of 512, 256 and 200 entities at a time are replaced by `Eids`).

**Fairness.** `pool`: threads are scheduled, and a thread that asks for a mutex over
and over gets it; the critical sections do not block, so this is strong fairness on the
blocking locks only. A process in which a worker has faulted owes nothing more (`Up`).
`chunks_live`: the main loop ticks for ever, a tick ends and the
workers run their jobs (which `pool` shows). `sessions_live`: both threads run, and
a client that stays connected reads or hangs up in the end; the code itself has no timer
for a connection that is closing. After the signal nothing of a client is needed:
`Join` and `Free` are the main thread's own steps, `CloseLeft` the net thread's. `wire`:
both event loops go on polling and a socket with data is readable; this is weak fairness
of an end's steps, written as "an end that can always move does", since `ENABLED` of a
step that encodes a packet is expensive. `Cut` owes nothing. `visibility`: the main loop ticks for ever (weak fairness of `Tick`).

### What the violations show

- `chunks_edits` (`server.cpp:599`): each player's request for a column is a job of its
  own, and each result is adopted over what the world has. A second player who comes
  near undoes the block changes of the first while he looks at them; the comment
  at 600 speaks of restarts only.
- `inventory_dupes` (`server.cpp:1147`): a shift-click that merges all it moves leaves a
  stack of count 0 with its id, which a later drop decrements to 255.
- `region_diskfull` (`region.c:271`): the new run is entered before it is written and no
  failure undoes it, so a later shorter write succeeds in a run the file does not have.
  After `NOMEM` (268) the entry keeps sectors that the map gives to others.

### Divergences without a run

Of the first five the model has every step, so that they are among its behaviours; the
properties name them as what they except.

- A right drag (`server.cpp:1319-1337`) serves slot after slot while the cursor has an id,
  which is cleared only afterwards: over more slots than items the count (1334) goes through 0
  and 255 are left. `tests/test_server18.cpp:465` says "drag direito: 1 por slot".
  `ItemsConserved` and `NothingFromNothing` leave out this step and no other (`RunsOut`).
- A left drag (1311) adds its share to a stack of any size and the sum is cut to a byte;
  creative (2259) makes stacks above 64, and 200 and a share of 64 are 8. `ItemsConserved`
  starts from stacks within the maximum (`Sane`).
- `HandleClientStatus` (2310) puts a player to the spawn and tells only him, though "Broadcast
  player position change to other players who know this player" (622) is what a change of
  place is followed by elsewhere. The others show him where he was, and his later movements,
  relative to the spawn, keep the figure off by as much: `DriftBounded` bounds the error
  but for the respawns (`untold`).
- A despawn or a pickup ends the scan of its tick (2768-2769, 2855-2856), although the comment
  says "mapa mudou: recomeça o scan". A stack behind others that go in every tick, say a
  row of dropped ones that somebody picks up one by one, never grows old: whence the
  premise of `ItemsGoUnlessStarved`.
- "SEMPRE responde (destrava inflight)" (3087) is not so when `new` returns null in
  `SubmitChunkJob` (569) or `ChunkJobMain` (3029): the column stays in `inflight`, and
  `RequestChunks` does not ask for what is there. `Answered` holds without such failures
  (`chunks`), and `ViewFills` excepts the columns they hit.
- `server.cpp:3005` says that connections stalled in handshake or login fall after 30 s,
  and 366 counts on it; the loop skips all who are not in Play (3009).
- `server.cpp:1585` has status 3 and 4 of the dig packet the other way round from 1589;
  `docs/roadmap-1.8.md:44` says that creative actions are ignored in survival, and
  `HandleCreativeAction` does not look. `HandleCloseWindow` has no caller (884).
- `Kick` (308) leaves the player in the others' `known_players`, which `RemovePlayer`
  (279) clears: his figure stays on their screens for ever. `UpdateVisibility`
  runs at a join only (542). `Visibility` has both as the code does them, and its
  properties say what holds nevertheless (`ScreensTrue` exempts the kicked).
- `server.cpp:622-624` says which movements are sent as relative ones; up to 255 32nds
  count as small (635), and the cast to `int8_t` turns those from four blocks on into
  others. `bsx` (`server.h:85-87`) is assigned once and never used: errors of rounding add
  up, one 64th of a block a movement (`DriftBounded` holds modulo the eight blocks, and but
  for the respawns).
- `thread_pool.c:158-159` stores `g_w` and `g_n` without lock or atomic while workers read them
  (83-84). No comment speaks of it; the model has what may come of it (`Fault`), and
  `OnlyNewcomersFault` says for how long.
- `nbt.h:11` promises that serialising what was parsed gives the same bytes; `nbt.c:458`
  writes an empty list with element type `END`, whatever it was parsed with.
- Metadata: the entry of index 31 and type 3 has the key 0x7F, which ends the list; the
  decoder takes 63 entries, the encoder has no limit; bytes come back unsigned. A packet
  that uses one of these does not come back, and the server sends none.
- `peek_varint` reports an overlong length apart from an incomplete one, and
  `minecpp_chan_next` (484) waits for more in both cases.
- `ApplyChunkData` on a column that already has a section with add nibbles leaves those
  nibbles there.

## Proofs

All for any values of the constants, from the named assumptions of each module.

**Job system** (`ThreadPoolProofs`). `IInv` adds to `NeverTwice` and `NothingLost` three
things without which they are not inductive: who is inside a critical section holds the
mutex (`LockInv`), which threads exist in which phase of init and shutdown (`LifeInv`),
and that every job is in one place, a ring, one hand or done (`JobInv`). From it follow
type correctness, `NeverTwice`, `NothingLost`, `DrainedAtShutdown`,
`RingsChangeUnderLock`, `UrgentFirst` and the refinement of `Executor`, all with the stale
reads and faults of `g_w` and `g_n`. The case that needs
most of it is a thief that tries a mutex already destroyed: the ring is empty by then.
`UrgentFirst` needs one more part, `UrgentInv`: between the look at the lanes and the pop
nothing more urgent gets into the ring, for its owner has the mutex. `OnlyNewcomersFault`
needs `KnowInv`: the mutex of a ring that holds a job was last unlocked by who knows, so
that who takes a job out of it knows from then on (`RingsTeach`, `VeteranKnows`).

**Chunk streaming** (`ChunkStreamProofs`). `IInv` says player by player that a column in
the pool or on its way back is inflight and not loaded (`Waiting`), in one place
(`Once`), and that nobody who is not playing has any (`Idle`); it rests on connection ids
not being used twice. From it follow type correctness, `LoadedPresent`, `OneJobEach` and
`TrimmedOnAdopt` with all faults, and `Answered` and `NewestSeesWorld` where allocations
do not fail (and, for the latter, columns are filed under their own coordinates).

**Sessions** (`SessionsProofs`). None of the six invariants the run checks is inductive, for
each is about what is on its way, and nothing in it says in which order that comes.
`SessionInv` says it: for each of the four channels between the tick thread, the net
thread and a client, which message may come behind which (`Ordered`, with `InOrder`,
`OutOrder`, `UpOrder`, `DownOrder`), and for each connection what the threads know of each
other (`News`), that a client is told nothing before its last word of the login has been
handled (`Words`), where the switch to compression has got to (`Switches`, `PipeFormat`) and
that a keepalive or its answer is in one of four places at most (`Alive`). An order that
is a relation between each entry and all behind it survives `Append`, `\o` and `Tail` by
lemmas stated once; most of the proof is about two steps, a frame that goes to the
socket (`Ordered(Pipe(p))` while `tx` is drained) and the message that switches the format.
From it follow type correctness, `UniqueNames`, `NoOrphans`, `NoDeafSockets`, `SameFormat`,
`OneKeepAlive` and `NothingLeft`, for any number of connections, names, any timers and
sizes of buffers, with and without compression. The assumption that no player is called
like a kind of message is the model's own: both share the field `what`.

**Inventory** (`InventoryProofs`). `Inv`, the types with `ClientSeesTruth` and `DragHasItems`, is
inductive as it stands. The work is in what a click does: loops over slots, and sums over
them. A loop is a recursive function (`Sweep`), and so is the count of the items (`Sum`).
What holds after each turn is a set of results for each turn, and that a sweep stays
in it (`Sweeping`) follows from the least element of a set of naturals (`Stepwise`), by
the library's well-foundedness of `<` and with no induction over an operator. So `Within`
(a click changes no slot but those it resends) and `Keeps` (it moves items and neither
creates nor loses one, from stacks within the maximum) are proved branch by branch, for
any number of slots, the shift-click's merges, the double click's collecting, the drag's
hand-outs and the two loops of a pickup included. From them follow `ClientSeesTruth`,
`DragHasItems` and `ItemsConserved`, which speaks of steps from stacks of 1 to 64 and leaves
out the one operation for which it is false there, a right drag over more slots than
there are items (`RunsOut`). That the slots of a drag are all different is part of
`TypeOK` because a left drag that gave one slot two shares would lose items (`HandOut`
takes the number of slots off the cursor).

**Region files** (`RegionProofs`). `IInv` says that until an entry goes astray the handle's
runs are apart and in the map (`Apart`, `Mapped`), lie in the file or in the write in
progress (`InFile`), that this write touches nobody else's run (`Writing`), and that
handle and file agree on every chunk no write has failed on (`Agreed`): only then may a
header flushed for one chunk, or by `close`, be trusted for all. From it follow
`RunsDisjoint`, `Durable` and `ReadsBack` until an entry goes astray, and the refinement
of `ChunkStore`: for each behaviour in which none does (`FilesAreStores`), and for every
behaviour with crashes if disk and allocator do not fail (`CrashSafe`). That first fit
finds a first run is `First`, the least element of a set of naturals, from the library's
well-foundedness of `<`.

**Visibility** (`VisibilityProofs`). `Mutual` alone is not inductive: a join may meet
remains of earlier sessions. `IInv` adds that who is not playing knows nobody and is sent
nothing (`Off`), that who never played is known to nobody and in no `seen_by`
(`Unheard`), and what figures and entities are on each screen (`Figures`, `Entities`).
From it follow `Mutual`, `ScreensTrue` and `RefreshedOnJoin`, and with the arithmetic of
the conversion (`Drifts`: rounding, the cast to a byte, modulo 512) `DriftBounded`, for
any places, players, movements and respawns.

**What a connection promises** (`StreamProofs`). `Stream` is the connection without its
bytes. `IInv` has the frames' ends in rising order (`Rising`), the receiver's account
behind the socket's and that behind the sender's (`Behind`), and what the end of the stream
says (`Ended`). From it follow, for any frames, portions and losses, that no whole frame
waits or is thrown away (`NoFrameWaits`), that a channel closed after a flush has
delivered everything when its receiver goes (`CloseDelivers`, the safety half of
`Delivered`), and that nothing is made up (`Received`).

**The channel** (`ChannelProofs`). That the bytes keep that promise, for any scripts,
payloads, handlers and limits that satisfy the assumptions `WireConstants` and
`ScriptsSendable`. The proof has three storeys.

1. *Buffers.* A buffer is determined by its bytes (`SameBytes`), so it is enough to know the
   size and the bytes of what `Take`, `Drop` and `Join` return (`Taken`, `Dropped`, `Joined`), also
   where two runs of one byte meet and become one (`SplicedBytes`).
2. *Frames.* A varint is read as it was written when it is there, and not at all when it
   is cut short (`VarintRead`, `VarintShort`, from the digits: `SeptetsAre`). So what begins
   like a frame (`Alike`) yields that frame's packet and leaves the rest when the frame is
   there whole, and "more" otherwise (`FrameRead`), without, above and below the threshold.
3. *The two ends.* `IInv` says where in the stream of all bytes each buffer stands and that it
   has the bytes of the frames that lie there (`Streams`, `Stands`), that the accounts meet
   (`Accounts`), which threshold each end is at (`Thresholds`: that of the last
   SetCompression before the packet it is at, `InForce`), and when nothing whole may be left
   (`Rested`). Neither the refinement nor `Faithful` is inductive without the bytes: whether a
   frame is taken out whole, and is no other, is a matter of what stands behind it.

Each action keeps `IInv` and is a step of `Stream` (`SendKeeps`, `TakenKeeps`, `RecvKeeps`,
`TakeKeeps`, ...), so `ChannelImplementsStream`; `NoneWaits` and `CloseDelivers` then come
from `StreamProofs`, instantiated. As `Stream` has no corrupt phase, nothing that
`minecpp_chan_send` writes is ever called corrupt. `VerbatimDelivery` says that the handlers are
given, in order, what each payload gives by itself, and `FaithfulDelivery` that `Faithful`
holds when the codec is right on the items of the scripts (`CodecRight`): of `Faithful`,
the codec is what is left to TLC. `TypeCorrect` has the caps: a receiver that waits holds
less than a frame, so what it reads never exceeds the buffer, and the overflow branch of
`minecpp_chan_recv` is dead as long as the other end sends what fits a frame.

**Model-checked only.** Liveness (`EveryJobRuns`, `ShutdownReturns`, `ViewFills`,
`KickedAreClosed`, `SilentDropped`, `StopReturns`, `Delivered`, `ItemsGoUnlessStarved`), which is out of the
prover's reach under fairness; and the codec half of `Faithful` (`CodecRight`), which rests
on recursive operators over trees and layouts: the run `wire` finds it of every item that
it delivers.

## Not modelled

- Physics and world generation: floating point and noise. Mobs do not walk for the same
  reason; that `SendEntityTo` resets the shared last position for all who see an entity
  is therefore out of sight.
- Crypto: AES is never switched on (`set_encryption` has no caller), the hash makes the
  UUID of a name.
- NBT trees in memory (building, searching, comparing, copying them); in region files
  the conversion of a tree to a column, whose result `ChunkStream` names by its label.
- Chat, animations, sounds, block light and heights: no state that a property tells
  apart.
- `FrameEncode` and `FrameDecode` (`protocol.cpp`), the scheduler, events, versions 1.9 and
  1.10: no callers, or stubs. The tools; the tests are read, not modelled.
- Failed allocations outside chunk streaming and region files; a receiver that leaves
  first, in `Channel` (`Sessions` has it); several handles on one region file (the server opens
  one a job, for reading only; nothing in the server writes yet).

`PROJECT.json` gives each component its status and each hazard its properties, or the
reason why it has none.

## Plan

Done: the job system, chunk streaming, sessions with the end of the process, the inventory,
region files and visibility, all with their proofs; the
channel down to its bytes, and what it promises (`Stream`), with their proofs; every packet in it
(`Wire`). Left, in
this order:

1. `nbt.c`: `minecpp_nbt_equal` and `_clone`, on which the merging of stacks rests (equal is
   not reflexive when a compound has one name twice).
2. The serialisation of columns to NBT, over `Nbt`.
