# LightInk: models, checks and proofs

TLA+ models of LightInkLLMT (`src/`), the TLC runs that check them and the
theorems TLAPS proves about them. LightInk is a C++ library with four parts a
program uses side by side: an asynchronous logger, timers, small sockets
(TCP, UDP, KCP) and Lua / message-pack glue. They share containers, buffers and
smart pointers. The repository has no unit tests; its `Example/` programs are
the only statement of how the parts are meant to be used.

`PROJECT.json` lists components, runs, theorems and hazards, and maps every
definition to the lines it models.

## 1. The system

| Part | State | Operations | Talks to | What makes it correct | Here |
|---|---|---|---|---|---|
| `RingBuffer` | memory, three indices of two segments A, B | set_data, insert, remove, get_data, get_data_block, get_ab_data, get_free_block, clear | a link's `write_data` | bytes come out once and in order; no size wraps, no copy leaves the memory | modelled, proved |
| `AsyncQueue` | ring of atomic pointers, two atomic indices | push, pop | every logging thread, the log thread | nothing popped twice, overwritten or stuck; order per thread | modelled, proved in part |
| Async logging: `LoggerMgr`, `AsyncThread`, `LogThread` | `m_thread`, `m_release`, `m_threadID`, the queue | log, init_async, release; the log thread's loop | channels, pthreads | each message written once, in its thread's order; release neither hangs nor loses | modelled but for the registry, proved in part |
| Timers: `STTimerMgr`, `TimerWheel`, `TimerData` | wheels of circular lists, `m_timers`, `m_removeList`, carried time | add, remove, tick, release; callbacks | the program's loop | called on time, as often as asked; lists stay whole | modelled but for two wrappers, the clock proved |
| `TalkLoop` | map of links, tick queues | update, add_listen, add_connect, remove_link, release | select, links, callbacks of the program | links are ticked while they live and not after; who disconnects or dies is removed | modelled; safety proved |
| Links: `LinkBase`, `LinkTcp`, `LinkUdp`, `LinkKcp` | link state, ping count, peer's address, key, `m_kcp` | connect, accept, read_data, write_data, on_ping_tick, disconnect, release | sockets, `TalkLoop` | each end talks to its other end only; dead peers are noticed; handles are closed | modelled but for what a full socket does not take and `ikcp.c`; the handshake proved |
| `SelfDQueue` | list of tick nodes | push_back, pop_front, removal by destructor | `TalkLoop` | a node leaves with its link | as sequences in `TalkLoop` |
| `SmallAllocator` | a pool per class of sizes, chunks in three lists, chains of free blocks | reallocate, gc | Lua | no block given out twice or lost, no chunk in use deleted | modelled, proved |
| `SharedPtr`, `WeakPtr`, `RefCounterTS` | two atomic counters | copy, lock, drop | any thread | released and deleted once, never while owned | modelled in part, proved |
| Msgpack: `Packer`, `Unpacker`, `DataFixBuffer`, `CapCompresser`, `XxteaEncrypter` | buffer and two positions | pack, unpack, compress, encrypt | program | what is unpacked is what was packed, whatever form it took | modelled in part, proved |
| Logger registry, `FixedLogger` | map of loggers, one static pointer per fixed logger | register, get, destroy | logging threads | nobody sees a half-made or deleted logger | not modelled |
| Log channels, rotation | current file, its size and index | log, flush, confirm_file | file system | no line lost when a rename or open fails | not modelled |
| Log formatting, spin mutex, OS helpers, Lua engine | - | conversions and glue | - | - | not modelled |

Vendored and left aside: `kcp/ikcp.c`, Lua, fmt, Turf atomics.

The hard behaviours are the lock-free queue and the reference counts under any
interleaving, the hand-over between logging threads and a log thread that is
being released, lists and maps that are changed while they are walked
(timers, links), callbacks that call back into the loop that runs them, and the
lossy network under the UDP handshake. `PROJECT.json` lists them as hazards,
each at its line.

## 2. Modules

| Module | Models | Uses |
|---|---|---|
| `ByteFifo` | what a ring buffer promises: a bounded byte queue | |
| `RingBuffer` | `RingBuffer.cpp` | refines `ByteFifo` |
| `RingBuffer_proofs` | theorems about it | |
| `BoundedQueue` | what the message queue promises: atomic put and get between call and return | |
| `AsyncQueue` | `AsyncQueue.h`, one action per atomic access | refines `BoundedQueue` |
| `AsyncQueue_proofs` | theorems about it | |
| `AsyncLog` | `AsyncThread.cpp`, `LogThreadType.cpp`, parts of `LoggerMgr.cpp` and `Logger.cpp` | composes `AsyncQueue` (INSTANCE) with the logging threads, the log thread and the owner |
| `AsyncLog_proofs` | theorem about it | |
| `Timer` | `STTimerMgr.cpp`, `TimerWheel.cpp`, `TimerData.cpp` | |
| `Timer_proofs` | theorems about it | |
| `TalkLoop` | `TalkLoop.cpp` and what it calls of `LinkBase.cpp`, `LinkTcp.cpp`, `LinkUdp.cpp`, `LinkKcp.cpp`, `SelfDQueue.cpp` | |
| `TalkLoop_proofs` | theorems about it | |
| `UdpHandshake` | `LinkUdp.cpp`, `LinkKcp.cpp` and both ends of the network | |
| `UdpHandshake_proofs` | theorems about it | |
| `SmallAllocator` | `SmallAllocator.cpp` | |
| `SharedPtr` | `SharedPtr.cpp`, `RefCounter.h`, one action per access to a counter | |
| `Memory_proofs` | theorems about `SmallAllocator` and `SharedPtr` | |
| `Msgpack` | `Packer.cpp`, `Unpacker.cpp`, their adaptors, `DataFixBuffer.cpp`, `CapCompresser.cpp`, lengths of `XxteaEncrypter.cpp` | |
| `Msgpack_proofs` | theorems about it | |
| `MC*` | instances for TLC | |

Each model keeps beside an operation the faults it is checked against: an
operator named for the fault (`ClearNot`, `TestLast`, ...) that no specification
uses and that replaces the operation when one asks whether a property notices.

### RingBuffer

The indices keep their names without `m_`. `Split` is how much of a request goes
behind A and behind B; `set_data`, `insert` and the caller who receives into
`get_free_block` share it. `call`, `ret` and `out` record the call, what it
returned and what it copied, so that the refinement compares calls and not just
contents. Sizes do not reach 2^32: `SegmentsOK` is what keeps the unsigned
subtractions from wrapping.

`get_data_block` has two overloads and they differ: when a read goes on behind
segment A (`Crosses`), `dest += dataLen` moves the `char *` of the one, and appends
the length as a char to the string of the other (RingBuffer.cpp:156), which does not
count it. So `ByteFifo` promises less of the string overload (`PeekString`): the
count is right, the bytes asked for are there in order, but one that nobody wrote may
stand among them. With the promise of the `char *` overload (`Peek`) in its place TLC
finds the refinement violated in two calls: fill the memory, and read past its end. No
code in the repository calls the overload, and none states what it should do; it is
listed as a hazard. What a length becomes as a char is the constant `AsChar`.

### AsyncQueue

Every load, store and compare-exchange of push and pop is an action, so TLC sees
every interleaving of them. The model takes the atomics as sequentially
consistent, which is an abstraction: the code asks for *relaxed* operations
throughout (include/Atomic/Atomic.h:81-123), so a compiler or a weaker machine
may reorder them, and what a message holds need not be visible to the thread
that pops its pointer. What the runs and proofs say holds where the build keeps
the program's order; reordering is a hazard no property covers. A message is
(producer, number). `lapped` records the one thing that breaks the queue: a producer tests for full, is delayed until the
write index has gone round to the same value, and its compare succeeds although
the queue is full by then (AsyncQueue.h:91-97). What the runs found:

- nothing is popped twice and nothing accepted is overwritten, lapped or not, as
  long as one thread pops (also proved);
- with two producers a lapped queue exists from two slots and three pushes on:
  order per thread is lost, messages stay in a queue that looks empty, and a
  producer may spin for ever in `fill`. `OrderUnlessLapped`,
  `PushReturnsUnlessLapped` and `DeliveredUnlessLapped` say what holds up to there;
- with one producer, and only then, the ring implements `BoundedQueue`. With two,
  a push can be refused although the queue is no longer full, its index being
  stale when tested;
- with two consumers `AtMostOnce` and `Accounted` fail. LightInk has one.

### AsyncLog

`at[p]` is where a logging thread is, `worker` where the log thread is. The
owner is the logging thread that calls `init_async` and `release`. A Log and a
Flush message go the same way and are one kind. The model keeps three facts of the
code that decide what is lost:

- `LogThread::work` detaches its own thread, and `join` then calls
  `pthread_join` on it. POSIX leaves that undefined; glibc returns EINVAL at
  once, and that is modelled (`join_detached`). Before `work_thread` has set
  `m_threadID`, `join` returns without waiting (`join_not_running`). In both
  cases `release` deletes the `AsyncThread` under a running thread;
- what a thread reads of it afterwards is taken to be as it was. That is the
  mildest outcome: what the properties say is what holds even so, and what is
  lost in the model is lost without the help of reused memory;
- `m_release` is tested after the pop, so a message pushed between the two
  stays in the queue (`DrainedToLastPop` says exactly what is written), and
  `push` forgets the message without a word once `m_release` is set.

A `pthread_create` that fails leaves `m_thread` set: from then on messages
gather in a queue that nobody reads. The liveness properties leave that case out
by name (`worker = "none"`).

`ReleaseKeepsMessages` is violated. `Example/Log/ExampleLog.cpp` starts the
log thread with Block, logs, and calls `release` at the end of the program. The
run shows a message that push has accepted, then release, the join that does not
wait, the delete, and the message never written.

### Timer

A node of a list is a pair, `pre` and `next` are its pointers; stale pointers are
kept as the code keeps them. `tick` is cut where callbacks run and where a list is
walked: `tick`, `begin_step`, `remove`, `submit_timer`, `submit_slot`,
`cascade`, `call`, `call_last` or `call_again`, and so on. Time is kept as
differences (`owed`, `lag`, `due`) so that behaviours need not end.

What holds, and what it says of the code:

- a timer that starts in the first wheel is called at its step. One that starts in
  a wheel above may be a step late, or early by one step *of that wheel*
  (`OnTime` gives the exact bounds): `add_timer` uses the slot before the offset
  in every wheel, but the slot an upper wheel submits next is that of the time
  that begins. With the default sizes (10 ms, 1024 slots) a 30 s timer is called
  after about 20 s;
- every repetition adds half a step to the interval (STTimerMgr.cpp:176), so a
  timer of 10 ms at a step of 10 ms is called every 15 ms on average. `due` is
  counted from the code's own `m_nextTime`, so `OnTime` does not judge this;
- the lists keep every timer (`RingsOK`) for two kinds of client, which Init chooses
  between: one that repeats timers, removes none and adds none from a callback, and
  one with one-shot timers that removes them between two ticks before they are
  called. Lift a restriction and TLC shows the lists break: when a
  repeating timer and the finished one behind it share a slot, deleting the second
  writes through its stale `m_pre`, so that a timer added in the callback between is
  cut off the list, and removing the first leaves the head of its slot pointing to
  freed memory. `remove_timer` for a timer that has had its last call deletes it
  twice. These are hazards and not runs: nothing in the repository says what
  a client may do.

### TalkLoop

One thread runs everything, and what makes it hard is that the program may call the loop
and its links from every callback. `update` is therefore cut where a callback may run
(`ping_tick`, `kcp_tick`, `accept`, `connect`, `read_data`, `remove_link`), `at` says
where it is and `call` whether the program may call now. `links` is `m_links`, `pingQ`
and `kcpQ` are the tick queues, `watch` is `m_activeEvent` as set before `select`,
`todo` is `m_processLink`. A node of a queue is the handle of its link and the time
until it is due; `old` marks the node of a link whose entry in `m_links` was
overwritten. `wire` is what the other end has done, and `open` the handles the system
has given out: the lowest free one is next, and `shutdown` fails on a socket that is not
connected. That is Linux, and external.

What holds, and what it says of the code:

- a link that is opened in the `on_disconnect` of a TCP link gets the handle just
  closed. `add_link` overwrites the entry of the link that goes, and `remove_link` then
  deletes and erases the *new* `LinkNode` together with the old link (TalkLoop.cpp:244,
  270-272). The old `LinkNode` stays: its ticks are still queued and point to the
  deleted link. `TicksOfLinks` says that this is the only way there; behaviours end in
  `at = "deleted"` when such a tick comes due;
- a link that is still connecting at its first ping tick leaves the ping queue for good
  (`slow`, LinkBase.cpp:563): once connected nobody asks it;
- `disconnect` for a link still connecting, called in the round in which its connect
  event is worked off, is taken back by `set_state` (`Overtaken`, TalkLoop.cpp:207).
  `DisconnectKept` says that nothing else takes it back;
- every send the socket takes resets `m_pingTimes` (LinkBase.cpp:311), so a link that
  sends is never found dead: `DeadPeersRemoved` excepts it in so many words;
- the first tick of a kcp link is due after `KCP_UPDATETICK * 1000` (LinkKcp.cpp:149),
  the others after `KCP_UPDATETICK` (:174), in one queue in order of insertion: a new
  link holds up the ticks behind it by the difference, and not by more (`OnTick`);
- UDP handles are never closed, nor are those of TCP links whose peer has reset them,
  since `release` closes a socket only after it could be shut down
  (LinkBase.cpp:571-582);
- `release` goes on from the map entry it has erased; that is undefined, so it may go on
  or not (`"crashed"`, TalkLoop.cpp:87).

### UdpHandshake

Both ends of the network: clients, the listener, and the links it accepts. A client
sends its hand once; `accept` answers once, from a socket of its own, with a key that
may be 0. Datagrams are lost, doubled and overtake each other. `links[p]` is the link at
port p, `net` the datagrams under way, `made` a record of what accept made for whom,
`odd` what a link's program has read that its other end did not write. A datagram's `no`
says which client link it belongs to; the code has no such thing and no guard uses it.
No port is given out twice, because none is ever closed.

What holds: a connected client has the key of a link made for it, and talks to such a
link (`Paired`); its program reads nothing of strangers (`OwnData`). What the exceptions
in the two say: when the network doubles a hand, accept makes two links for one client,
which may hold the key of one and send to the other (LinkUdp.cpp:196); a reply that
comes twice is read as data over UDP; and a key of 0 never connects. When the hand or
the reply is lost nothing is tried again: both ends go by `PingOut`, unless they go on
sending (`SilentRemoved`). A link that is disconnecting is still read in the same round,
so it may be written to until it is removed.

### SmallAllocator

Every call is Lua's: `reallocate` or `gc`. The ways through `reallocate` are
`realloc_null`, `realloc_free`, `realloc_same`, `realloc_large` and `realloc_move` (to
and from `li_malloc`, too); `allocate_fixed`, `deallocate_fixed` and `gc_fixed` are
operators on a `FixedAllocator`. Chunks keep the pointers `pre` and `next` and the chain
of indices in the first bytes of their free blocks, so the lists can really break. The
address of a deleted chunk is used again at once. `held` is what Lua has, `ok` whether
the system has memory.

`LuaBlockNull` is violated: `reallocate(NULL, 0, 0)` allocates a block, which Lua, whose
source asserts NULL (lmem.c:82), drops for good. `RoomOK` excepts one more thing: a
large block asked to grow within its class is returned as it is
(SmallAllocator.cpp:347). With the default class width of 8 that is up to 7 bytes more
than `li_malloc` was asked for.

### SharedPtr

Three `SharedPtr`s and two `WeakPtr`s over one counter stand for any threads: every
load, increment and decrement is a step, in sequentially consistent order (the same
abstraction as in `AsyncQueue`). `check_delete_ptr` decrements a count and *then* reads
it: two drops at once may both read zero, release the object twice, or read a counter
the other has deleted (`overlap`). `lock` tests and then increments, and the constructor
from a `WeakPtr` tests nothing: an object already released may be owned again
(`revived`). `HeldIsAlive` and `DeletedOnce` hold up to there; `NothingLeaks` holds
always. Its specification, type invariant and the like carry the prefix `Ptr`, so that
`Memory_proofs` can extend it beside `SmallAllocator`.

### Msgpack

A byte has `Bits` bits instead of 8, and everything the format derives from a byte's
width scales with it; that keeps the values around each limit few. `Power2` and `Values`
are the powers those limits are made of; they, the loops over bytes and groups, and the
reads of several values are recursive functions, which the proofs can unfold. `Bytes` packs,
`Unpack` reads what the reader asks for, and `carry` stands for the four ways a message
goes: as it is, compressed into a buffer, compressed through pointers, encrypted. Writer
and reader go on after a failure, as the code does. What the exceptions in `Unpacked`
and `Carried` say: strings, vectors, maps asked for in place of something else are empty
*with success*, and the head is gone; a pack that fails leaves a torn value; a smaller
type takes the lower bits without a word; a value packed in a fixed form may be refused
by a type that has it (`int8_t` takes no head of an unsigned byte); a message whose
length is a multiple of 8, or (through pointers) ends in a group of zeros, does not come
out of the compresser; one to three bytes can be encrypted and not decrypted.

## 3. Runs

| Run | Instance | States | Shows |
|---|---|---|---|
| `ring_buffer` | 3 bytes, 2 values, requests up to 4 | 7,438 | `SegmentsOK`, refinement of `ByteFifo` |
| `async_queue` | 2 slots, 2 producers, 1 consumer, 3 pushes each | 72,528 | safety with lapping, liveness until then |
| `async_queue_one` | 3 slots, 1 producer, 1 consumer, 7 pushes | 4,087 | refinement of `BoundedQueue` with fairness |
| `async_log` | 2 slots, owner logs once, another thread twice, both policies | 77,833 | written once, in order, drained, every wait ends |
| `async_log_release` | the same, owner alone, Block | - | violation: `ReleaseKeepsMessages` |
| `timer` | 3 wheels of 2, step 2 ms, 3 timers | 585,071 | on time, clock, removal, whole lists, every timer ends |
| `talk_loop` | 2 handles, TCP and KCP, pings every 2, updates up to 1 late | 426,742 | which links are ticked and when, disconnect, dead peers |
| `udp_handshake` | 3 ports, keys 0 and 7, 2 datagrams under way, 1 doubled | 801,029 | who talks to whom, silent links go |
| `small_allocator` | 2 classes, chunks of 2 blocks, 3 + 1 chunks, 1 large block, 5 blocks held | 182,496 | lists, chains, room |
| `small_allocator_lua` | the same | - | violation: `LuaBlockNull` |
| `msgpack` | bytes of 3 bits, messages of up to 2 values in 14 bytes | 5,365,642 | what is unpacked, what is carried |
| `shared_ptr` | 3 shared, 2 weak pointers, symmetric | 287,887 | who owns, what is deleted, nothing leaks |

`WrittenOnce`, `RingsOK`, `TicksOfLinks` and `HeldIsAlive` each begin with their
module's `TypeOK`.

Why the bounds are enough.

- `ring_buffer`: a request longer than the memory and every position of both segments
  occur; more memory only repeats the four cases of `Split` and `remove`.
- `async_queue`: two slots are the smallest queue that holds a message and make the
  index come round after two pushes; three pushes each let a claim be stale by a whole
  round, the case that breaks the queue. Seven pushes take one producer round three
  slots twice.
- `async_log`: two slots make a producer wait, and three messages let each thread log
  before, during and after release. They also let a stale claim lap: the owner finds
  room at index 0 and is delayed, the other thread pushes, its message is popped, it
  pushes again, which brings `m_writeIdx` back to 0, and the owner's compare succeeds.
  So the words "or lapped" in `OrderKept`, `DrainedToLastPop`, `AcceptedIsWritten` and
  `LogReturns` except behaviours that the run has; `WrittenOnce` and `ReleaseReturns`
  hold in those, too.
- `timer`: delays reach each wheel, the upper ones in a later slot too, ticks come less
  than a step and more than two steps apart, and three timers give one in the middle of
  a slot's list two neighbours.
- `talk_loop`: two handles allow a listener beside what it accepts, a link beside one
  opened in its `on_disconnect` on the same or the other handle, and two nodes in one
  tick queue; an update that is late by one lets a node come due behind another. UDP
  links take the steps of KCP links without their ticks and are left to `udp_handshake`;
  every action takes place.
- `udp_handshake`: three ports hold a client and two links accepted for it, or two
  clients and a link; two datagrams overtake each other, and one doubling makes two
  links of one hand. The key 0 is the one that is special.
- `small_allocator`: three chunks of two blocks put a chunk in each list and one in the
  middle of each, and free enough for gc; the sizes are the limits of the classes and
  two large ones of one class.
- `msgpack`: values below, at and above each limit of a form, strings and containers
  with their length in and behind the head, two values so that the first can put the
  reader out of step, a buffer too short for some pairs.
- `shared_ptr`: two drops at once beside a third pointer that is copied or made by a
  lock.

`MaxPush`, `MaxLog`, `MaxArg`, `MaxId`, `MaxLate`, `MaxNet`, `MaxTwice`, `MaxChunks`,
`MaxLarge`, `MaxHeld` and `MaxItems` bound what callers, the network or the memory do,
never what the code does.

Deadlock is checked wherever the system cannot stop. `async_log` stops when all have
logged and the log thread is gone, `timer` after release, `talk_loop` where a deleted
link is used, `udp_handshake` when every port was given out and nothing is under way,
`msgpack` when the message is read, `shared_ptr` when no pointer is left.

Fairness. `AsyncQueue` and `AsyncLog` assume weak fairness of each thread inside the
logger and of the log thread: the operating system's scheduler runs every thread, and
neither waits on a lock. Nobody has to log or to release. `Timer` assumes that time goes
by and that whoever owns the manager keeps calling `tick`. `TalkLoop` assumes that the
program keeps calling `update` (weak fairness of `loop`) and that time goes by (strong
fairness of `pass`, for it is only possible between two calls). `UdpHandshake` assumes
that each link's tick comes and that a link that is disconnecting is removed, both of
which `update` does; nothing is assumed of the network.

## 4. Proofs

`RingBuffer_proofs`, for every memory size, byte set and bound:

- `RingTypeOK`, `RingSafe`: `TypeOK /\ SegmentsOK` is inductive by itself: every
  subtraction is of ordered indices, every place written lies in the memory.
- `RingImplementsFifo`: `Spec => ImplementsFifo`, with what `ByteFifo` promises of each
  overload of `get_data_block`: of the string overload, one byte more at most. Each call is shown to do to
  `Contents`, the bytes as `operator[]` numbers them, what the byte queue does;
  `SegmentsOK` is needed before and after the step, since the numbering itself depends
  on where A ends. Lemmas say how appending and dropping act on `Contents`, with and
  without the turn from B to A.

`AsyncQueue_proofs`, for one consumer and any number of producers, slots and pushes:

- `QueueTypeOK`, `QueueAtMostOnce` and `QueueAccounted`. Neither of the last two is
  inductive. The invariant `Inv` follows the messages and never the indices, which is
  why it survives lapping: the message in a producer's hands is nowhere else yet
  (`OnlyDone`), no message is in two slots, nor in a slot once popped (`OnePlace`), and
  only the consumer empties the slot it reads (`Holds`). `OneConsumer` is an assumption
  of the theorems; `LoggerMgr::init_async` starts at most one log thread.
- `QueueOrder`, from `OrderInv`, which does follow the indices and so holds until the
  first lap only. Slots are ranked by their distance from `readIdx`, the one before it
  first, where the consumer may still read (`Rank`). Messages lie in claimed slots or
  where the consumer reads, and no two producers fill the same slot (`Places`); by rank,
  each producer's messages, those still being written included, are in order (`InOrder`),
  and what was popped comes before them (`PoppedFirst`). A producer's claim with a stale
  index that does not lap is one of a slot nobody claimed meanwhile. Lemmas say how the
  ranks turn when an index moves.
- `QueueRefinesBounded`: with one producer, too, `Spec => Bounded!Spec`, the safety part
  of `ImplementsBoundedQueue`. One producer never laps (`Single`), since what it has read
  of `writeIdx` stays true. Then each step is shown to append to the abstract queue, to
  take its first message, or to leave it.

`AsyncLog_proofs`, for any number of logging threads, slots and messages:

- `LogWrittenOnce`. The message a thread may push (again) under Block is its last and is
  nowhere yet (`Pushing`, `Sitting`); what is in a slot, with the log thread or in the
  channels is nowhere else (`OnePlace`); and the slot the log thread reads keeps its
  message (`Reading`). The init, the release and the abandoned log thread move no
  message, so they are quiet steps. That message numbers are not `NULL` is assumed of
  the constants.
- `LogDrainedToLastPop` and `LogOrderKept`, with `Places` and `InOrder` of
  `AsyncQueue_proofs` (`QP`, whose lemmas are used on the logger's queue). `Life` says
  what the owner has done of `init_async` and `release` and what it knows of the log
  thread by that; in particular, nobody pushes before the thread is there, and writing at
  once begins again only when it has ended or was abandoned. For draining, everything
  accepted is in a slot, with the log thread or written (`Everywhere`), and when the
  thread has seen the queue empty, what it had seen accepted is written (`Emptied`): the
  queue is empty only if no claimed slot is, so none waits for its message. For the
  order, what is written comes before what the log thread has, and that before what is in
  the queue, as long as the thread can still read it (`Handed`).

`Timer_proofs`, for any step, wheels, timers and clients:

- `TimerClockKept`. `ClockKept` is not inductive, since within `tick` the rest of the
  time is in `dur` and copied to `m_fixTime` at every step; the invariant says when the
  two agree.
- `TimerRingsOK`, `TimerRemovedSilent`, from one invariant, `Placed`. `RingsOK` speaks of
  what a walk meets, which no step is easily shown to keep; the invariant says that some
  assignment of a place to every timer exists (`Where`), such that the timers of a slot
  are the list behind its head (`Ring`) and those placed in the chain are it (`Chain`).
  Lemmas say what linking, unlinking and detaching do to a `Ring` and a `Chain`, and that
  a walk meets just these sets (`RingMet`, `ChainMet`). A client that removes needs the
  m_next of a list's last timer to be right; one that repeats makes it stale, when the
  last timer deletes itself from a chain whose tail still points into a slot (`Last`). A
  timer's place in a wheel is in range because what is left of its time is below
  the wheel's step (`Span`) and no wheel has turned further than its length (`Wheels`);
  the recursive functions `StepOf` and `SeatFrom` are unfolded by well-founded
  induction over sets of wheels (`Upwards`).
- `TimerOnTime`, from the same invariant. `OnTime` is about the moment of the call, so
  `Placed` says of every timer all the way down how what is due agrees with where it is
  (`Fits`): due is the steps until its slot is submitted (`Wait`), and what is left of its
  time then, and no more than the slack that the wheel it is in leaves it (`InTime`):
  none for a timer that starts in the first wheel, and each wheel that it comes down
  uses up a step of its own. `Wait` adds up the rounds that the wheels below have not
  finished (`Ahead`) and the slots before this one in its own (`Rounds`). The heart of
  the proof is that a step takes one from it for every slot at once, though the wheels
  that have come round begin again in the middle of it: `submit_timer` does
  (`TimerTurns`), and the slots that the wheels then submit, the highest first, change it
  for no other slot (`SlotTurns`), when a wheel that has come round and still has to
  submit its slot counts as finished (`Position`). That `add_timer` picks the slot that
  fits is shown once for a new or called timer (`FitsAdded`) and once for one that comes
  down a wheel (`FitsCascaded`), however many wheels it is passed on
  (`SeatFromWhere`).

`TalkLoop_proofs`, for any handles, kinds of links and times:

- `LoopDisconnectKept`, an action property. Its invariant says that the only link that
  may lose its entry to another is the one whose `on_disconnect` runs, because all
  others still have their handles. Every action is shown to change one link, to add one,
  or none.
- `LoopTicksOfLinks` and `LoopOnTick`, from one invariant, `TickInv`. Of a queue it says
  that its nodes are nearly in order (`InOrder`: a node is due later than the ones behind
  it by at most `Slack`, the difference of the first kcp tick from the others), that no
  two nodes belong to one link and that links of `m_links` own them (`Owners`); lemmas say
  what adding, orphaning, requeuing, taking and ageing nodes do to that. So nothing behind
  a node that is not due is due for longer than `Slack` (`NotDue`). Of the links it says
  that one that is connecting has not been asked yet and is in the ping queue or `slow`
  (`Asked`), and that what `update` looks for stays true until it is worked off
  (`Watching`): without that, the connect event could hand a link without ticks to
  `set_state`.

`UdpHandshake_proofs`, for any ports, keys and bounds of the network:

- `HandshakeTypeOK`, `HandshakePaired`, `HandshakeOwnData`. `Paired` speaks of links,
  and is not inductive: a late reply or datagram changes the address and the key. The
  invariant says the same of all that is under way: it comes from a link made for whom
  it goes to or from that link's client (`UnderWay`), every hand not yet doubled is
  under way or was accepted, not both (`Hands`), so only a doubled hand has two links
  (`OneServer`), and a reply read after the first was doubled (`Replies`).

`Memory_proofs`, for any width of the classes, blocks in a chunk, sizes and memory of
the allocator:

- `AllocatorRoomOK`. The invariant `Fits` says that a small block's room is exactly its
  class's and that it stays small: `reallocate` decides by the size Lua remembers
  whether a block is large. Lemmas say what the division by the width of a class bounds.
- `AllocatorTypeOK`, `AllocatorListsOK`, `AllocatorBlocksOK`, from one invariant,
  `AllocatorInv`. What a walk of a list meets is a recursion over data, which is beyond
  the prover; `InList` and `Chain` say it without: a chunk is met if it is in every set
  that holds the head and with each chunk the one behind it. The invariant knows a list
  by the set of its chunks (`Linked`): each is the head or has one before it that knows
  it as next, and no smaller set is closed under `next`. Lemmas show that unlinking takes
  the chunk out of that set (`UnlinkedLists`) and pushing adds it (`PushedLists`), and
  that the set is what `InList` meets (`InListIs`). The free blocks of a chunk are known
  in the same way (`FreeChain`, `TakeIs`, `PutIs`), and are those that Lua does not have
  (`PoolsOK`). Each chunk is in the list that `OfAvail` gives for its free blocks, between
  two calls; within a call the one that is served may be elsewhere (`Ready`, `Settled`,
  `Freed`, `Emptied`).
- `ListsOK` bounds the empty chunks by `MaxChunks`, not by the chunks there are:
  `deallocate` deletes one when there are more than a quarter of all and one, and by that
  makes the quarter smaller. So a pool that shrinks from many chunks keeps more than a
  quarter of those it has left (three of three, after eight of one block each); the three
  chunks of the run are too few to show it.

and for any finite sets of shared and weak pointers:

- `HeldIsAliveAlways`, `DeletedOnceAlways`, `NothingLeaksAlways`. The counters are the
  cardinalities of the pointers that count (`Counted`). A drop that finds the last owner
  gone is under way until it releases (`ReleaseLeft`, `DeleteLeft`), which gives the
  absence of leaks also for drops that overlap; without overlap and revival there is one
  drop at a time and what it has read stays true (`OneDrop`), which gives the rest.

`Msgpack_proofs`, for any width of a byte from three bits on, size of the buffer, limits
of the forms with the length in the head, and values within what their types hold:

- `MessagesTyped`: bytes stay bytes, what is unpacked is integers, and the buffer and the
  positions stay in their bounds. Nothing has been read or carried while the message is
  packed (`Began`).
- `MessagesCarried`: a message comes out of the compresser and the cipher as it went in,
  the excepted lengths left out. A group's flag is a sum of powers of two of which each
  bit is one byte's (`BitAdded`, `GroupIs`), so `uncompress_group` puts back the group and
  zeros behind it (`FillIs`, `Padded`). The loop of `uncompress` puts back all groups when
  it ends behind the last one, or one byte earlier if the last byte is one that was kept
  (`GroupsBack`, `LastKept`): that is what the exceptions of `Carried` are about. The length
  of the last group takes away what was padded (`UncompressIs`).
- `MessagesUnpacked`: what is unpacked is what was packed as long as each was asked for by
  its like, and by a type that has its values it is not refused. `Unpacked` speaks of
  what was asked for already, and is not inductive; the invariant `Whole` says that the
  message is the bytes of all values one after the other unless one is torn, and that the
  reader begins at its beginning. `ItemBack` then takes one value at a time: if its bytes lie where the reader stands
  (`Held`), what is given is the value in the type asked for, and the reader stands behind
  them. It rests on `IntBack` (the shortest form of an integer, read by any type),
  `LengthBack` (strings, arrays, maps) and `ArgsBack` (one after the other), and those on
  `LoadIs` (what is stored in k bytes and loaded is the value modulo `Values[k]`).
- That the recursive functions have the values their equations say is shown by
  well-founded induction over sets (`Upwards`, `Recursion`, `Stepwise`), since an
  induction over an operator is out of the provers' reach; lemmas of number theory
  (`DivisionIs`, `DivisionTwice`, `RemainderIs`, ...) are stated alone, where the SMT
  solver finds them.

The invariants of `AsyncLog_proofs`, `UdpHandshake_proofs`, `Memory_proofs` (the
allocator) and `Timer_proofs` were checked with TLC on the instances of the runs, too.

Only model-checked: all liveness (`LogReturns`, `DeadPeersRemoved`, `SilentRemoved`,
...), which under fairness is beyond the proof system's reach, and with it the fairness
part of the refinement of `BoundedQueue`. Every safety property of a passing run is
stated by a theorem.

## 5. Not modelled, and why

- Vendored code, the larger part of the repository's lines: Lua, `ikcp.c`, fmt, Turf.
  Where a model meets it, it is modelled from how it is used.
- The Lua engine's bindings (`include/LuaEngine`): templates over the stack of the
  interpreter, repeated for each number of arguments; what they do is what the
  interpreter does with them. The same goes for msgpack's tuples (`PackTuple.h`), one
  expansion of `pack` for each length.
- The registry of loggers: each operation is one critical section over a map. What is
  hard about `FixedLogger` is when its unordered writes become visible
  (`LoggerMgr.h:116`), which a model with sequentially consistent atomics cannot show.
- Log rotation: what matters is what the file system answers and there is no promise to
  hold it to; after a failed rename the file stays closed.
- The bytes a full socket does not take: `write_data` keeps them in the ring buffer
  until the next `write_data` (LinkBase.cpp:336); nothing in the loop sends them, since
  write events are not looked at. `RingBuffer` shows that they stay in order.
- Formatting, CRC32, the cipher's rounds, bin and ext forms, growing and shared buffers:
  conversions without a state of their own.
- `AutoPtr` (one owner, no count); a `WeakPtr` that is default constructed, assigned,
  reset or made of a bare pointer (`check_delete_ptr` then reads a NULL counter,
  assignment forgets the counter it had).
- The spin mutex, a compare-and-swap in a loop.
- Data races proper: where the atomics' relaxed order shows (`Atomic.h:116`).
- Hazards without a property say in `PROJECT.json` why they have none, and those whose
  property excepts what the code does wrong say what is excepted. So no property speaks
  of a message in an abandoned queue, of deleting the successor of a timer that was put
  back, of a handle left open, or of a reader out of step; the double release by
  overlapping drops, a revived object and the lengths the compresser loses are excepted
  by name in `DeletedOnce`, `HeldIsAlive` and `Carried`.
