# A TLA+ development of go-data-reqrep-shared

`go-data-reqrep-shared` is request/reply communication through one memory-mapped
file. Clients and servers, Go or Perl/C processes, map the same segment; there is
no broker and no coordinator. Everything the parties agree on is in the segment:
words read and written with atomic instructions, and futexes to sleep on. Any
process may be killed at any instruction, and the segment outlives it.

This directory specifies both implementations, the Go one and the C one it is a port
of, checks them alone and next to each other with TLC on small instances, and proves
with TLAPS, for every value of the constants, the safety properties TLC checks, of both
implementations together.
Line numbers below refer to the files of the repository.

## 1. Inventory

| Component | State in the segment | Operations | Interacts with |
|---|---|---|---|
| Request queue and arena (`reqrep_queue.go`, `reqrep_arena.go`) | `req_head`, `req_tail`, ring of request slots, `arena_wpos`, `arena_used`, arena bytes | `sendLocked`, `recvLocked`, `writeArenaLocked`, `readArena`, `releaseArenaLocked` | runs under the arena mutex |
| Arena mutex (`reqrep_mutex.go`, `reqrep_futex_linux.go`) | `mutex` (0, or pid with the writer bit), `mutex_waiters` | `mutexLock`, `mutexUnlock`, `recoverStaleMutex`, `pidAlive` | called by `trySend`, `tryRecv`; recovery also from `recvWait` |
| Response slots (`reqrep_slots.go`, `reqrep.go:405-559`) | per slot `state`, `owner_pid`, `generation`, `waiters`, response bytes; `resp_hint` | `acquireRespSlot`, `releaseRespSlot`, `waitResponse`, `readAndRelease`, `cancelRequest`, `tryDrainResponse`, `writeResponse` | no lock: client and server goroutines of several processes on the same words |
| Blocking (`reqrep_queue.go:64-265`, `reqrep.go:561-602`) | `send_futex`, `slot_futex`, `recv_futex` and a waiters count for each | `sendWait`, `recvWait`, `wakeConsumers`, `wakeProducers`, `wakeSlotWaiters` | senders wait for slots and room, servers for requests |
| Server and Client (`reqrep.go:28-150`) | none of their own | `NewServer`, `Serve`, `Close`, `NewClient`, `Query` | `Query` = acquire, send, wait; `Serve` = receive, one goroutine per request |
| Segment (`reqrep.go:152-400`) | header | `setupShm`, `openOrCreate`, `openExisting`, `initHeader`, `validateHeader`, `computeLayout`, `nextPow2` | several processes open or create the file at once |
| Layout accessors and generator (`reqrep_layout*.go`, `gen/`) | none | offsets, constants | build time |
| C, string segments (`gen/reqrep.h:206-916`, `1111-1141`) | the same segment | `reqrep_create`, `_open`, `_create_memfd`, `_open_fd`, `_destroy`; `_mutex_lock`, `_mutex_unlock`; `_send_locked`, `_recv_locked`, `_send_wait`, `_recv_wait`; `_clear` | peers of the Go processes on the same words |
| C, response slots (`gen/reqrep.h:313-366`, `918-1084`) | the same slots | `_slot_acquire`, `_try_send`, `_reply`, `_try_get`, `_get_wait`, `_cancel`, `_request` | as above |
| C, integer segments (`gen/reqrep.h:1207-1614`) | ring of 24-byte places with a sequence each, `req_head`, `req_tail`; the same response slots | `_create_int`, `_int_try_send`, `_int_try_recv`, their waits, `_int_request`, `_int_reply`, `_int_clear` | C processes only |
| C, eventfds (`gen/reqrep.h:1147-1205`) | process-local descriptors | create, set, notify, consume | none here |

What is hard here:

* **Interleaving.** A response slot is four separate words with no lock. Tenant,
  late replier, canceller and recoverer act on it together, and the compare-and-swap
  they use compares one of the four words.
* **Crashes.** A process can die with the mutex, with a slot, between taking a slot and
  signing it, or just after being the one thread a `futexWake(1)` chose.
* **Sleep and wake.** Five kinds of futex, each with "change, read waiters, wake one"
  on one side and "register, compare, sleep" on the other.
* **Timeouts against answers.** A context may end just when the response arrives; the
  slot must be given back exactly once.
* **Boundaries.** A full ring, a full arena, a wrap of the arena whose size is no
  multiple of 8, generations that wrap and skip 0, sizes computed in 32 bits.
* **Start-up.** Several processes create and open the same path, with different options, and
  may die half-way.
* **Two implementations of one protocol.** They agree on the words and differ in the order
  of accesses, in when they wake, in when they recover, and in which end of the header they
  write first.
* **A lock-free ring.** Position and sequence are two words; a thread may sleep between them
  while the others go round the ring.

What makes each component correct:

* queue: a bounded FIFO that returns every payload unchanged although the allocator
  keeps two numbers only, and reclaims all of the arena when empty;
* mutex: exclusion including recovery; recovery never hits a living holder; a dead
  holder does not stop the others; no lost wakeup;
* slots: one tenant at a time, a query gets the response to its own request, ids are
  unique among the queries in progress, nothing leaks, a ready response is delivered;
* segment: initialised once whoever races or dies, one sound layout for all who have the
  file, and what was created can be opened;
* integer queue: a FIFO that hands out each request once and whole, and says "full" or
  "empty" only for a reason;
* blocking: exact waiters counts, no request left to sleeping servers, every sender
  gets through or returns when its context ends.

`PROJECT.json` lists the hazards line by line with the property that covers each.

## 2. Modules

| Module | Models | Role |
|---|---|---|
| `BoundedQueue` | what the request queue promises | abstract specification |
| `ArenaQueue` | ring and arena, Go | implements `BoundedQueue` |
| `PeerArena` | the same with C clients and servers and `reqrep_clear` | implements `BoundedQueue` with a clear |
| `Mutex` | arena mutex and recovery, Go | |
| `PeerMutex` | the same with C threads, and the recovery in `recvWait` | |
| `RespSlots` | slots, `Query`, handler goroutines of `Serve` | uses the queue through its abstract form |
| `PeerSlots` | C clients and servers on string and integer segments, next to Go clients; `reqrep_clear` | uses `BoundedQueue` or `RingQueue` through their abstract form |
| `Blocking` | `sendWait`, `recvWait`, wake helpers | abstracts the slots to taken / not taken |
| `PeerBlocking` | the same with C senders and receivers | |
| `Segment` | opening, creating, closing; the layout, Go | provides what all the others take as given |
| `PeerSegment` | the same with C processes, integer segments and memfds | |
| `RingQueue` | what the queue of an integer segment promises | abstract specification |
| `IntQueue` | the lock-free queue | implements `RingQueue` |
| `MC...` | constants of the instances | TLC |
| `ArenaQueueProofs`, `MutexProofs`, `IntQueueProofs`, `BlockingProofs`, `SegmentProofs`, `PeerSegmentProofs` | | TLAPS, one component each |
| `RespSlotsProofs`, `TenancyProofs` | types, counts and ids; who has a slot and what it gets | TLAPS |

Each `Peer...` module EXTENDS the module of the Go code, adds the C operations as further actions and composes both in
`PeerNext`. Where an access is the same in both, C uses the Go module's action (a CAS is a CAS); what
is written anew is what differs. Which processes are C ones is chosen in the initial
state from a constant (`Mixes`, `Worlds`) or, in `PeerSegment`, by each call. Runs and proofs are about the
composed modules, which contain the Go-only behaviours as a special case; `SegmentProofs`, which `PeerSegmentProofs` builds on, and the first theorems
of `RespSlotsProofs` and `TenancyProofs` are about the Go code alone.

How they fit together: `Segment` shows that every party that got through its constructor sees the
same words at the same places, which is the `Init` of the other modules. `Mutex` shows that a critical section excludes the others, which
justifies one step per `sendLocked`/`recvLocked` in `ArenaQueue`. `ArenaQueue` implements
`BoundedQueue`, which justifies the plain bounded sequence in `RespSlots` and `Blocking`. `IntQueue` implements `RingQueue`, whose
steps with one consumer are those `PeerSlots` takes on its queue in integer mode.
`RespSlots` lets a failed attempt be retried at any later moment; `Blocking` models the
sleep in between and shows that the retry really comes.

### ArenaQueue

One action per call under the mutex: `Send` (success), `SendFull` (ring or arena
full, too long a payload), `Recv`, `RecvEmpty`. The arena holds bytes, the ring holds offset, length, charge
and id, and `got` is what `readArena` read back, so that an overwritten payload would
be seen. `head` and `tail` grow; the index is the counter modulo the capacity (the code
masks, its capacity being a power of two). `refused` and `got` record the result of the last call. The 31-bit
length field is not narrower than any payload the arena can take. The statistics
counters are left out; nothing reads them.

`PeerArena` adds `reqrep_send_locked`, `reqrep_recv_locked` and `ClearQueue` (1111-1118 of `reqrep.h`, under the mutex). C
does not compare a payload with the size of the arena before it takes the reset path (742-748): alone in the queue, a payload longer than
the arena is accepted and its copy passes the end (754). The model takes that step too; what lies behind the arena is not modelled. Go's `recvLocked`
dequeues only what lies inside the arena (`Recv`): on such a request the slice of `readArena` panics. The run has C payloads that fit;
with longer ones (45 and 90 bytes) TLC finds `TypeOK`, `RegionsDisjoint` and `IInv` true, which the proofs show in general. After a clear the counters start at 0 again; `RefinesClearable` says that
the whole is the FIFO, emptied by a clear and whole after it.

### Mutex

One action per atomic access or system call. `pc` names the place in `mutexLock`,
`mutexUnlock` or `recoverStaleMutex`. The spin phase's 32 attempts are one attempt that
may be repeated by stuttering: what matters is whether a CAS succeeds. The wait's
outcome is one of: woken, timed out (`ETIMEDOUT`), interrupted (`EINTR`), or not
slept at all because the word had changed (`EAGAIN`). `Crash(p)` kills a process; its
threads stop where they are and `pidAlive` becomes false. A pid names one process: reuse and
namespaces, which the comments in the code accept as limits, are left out.

`PeerMutex` adds C threads: they recover at the first timeout that finds the holder gone, and spin again after a wait. Its weak CAS
is taken not to fail on a free word. It also adds the recovery of `recvWait` (`reqrep_queue.go:234-255`) with its own two
locals, which live as long as the call; `tryRecv`, which follows, is the lock and unlock of the model. TLC shows
(`RecvNeverRecovers`) that `recvWait` itself never recovers: between two of its timeouts `tryRecv` has locked the mutex, and that
already takes the recovery of `mutexLock` if the holder is dead.

### RespSlots

One action per atomic access of a slot, because no lock protects it: loading `state` and
loading `generation` are two actions, with any other process between them. The id
is kept as its two halves. A response is represented by the request it answers, one
whole value: torn bytes of two responses in one slot are not told apart from the later
one. The spin phase of `waitResponse` is one iteration of loads (or none); spin counts
do not matter to any property. The length check of `readAndRelease` repeats
the one of `writeResponse` and cannot fail after it; it is left out. A handler
that panics cancels its request in the deferred function before the panic takes the
process down; the first half is `CanFail`, the second a server that stops. An oversized
response (`CanOverflow`) makes `writeResponse` fail, which `Serve` ignores.

### PeerSlots

A world (a member of `Worlds`) fixes the mode of the segment, its Go and its C clients and what may happen in it. In C,
`SlotAcquire` increments the generation in one step, leaves generation 0 alone, and frees a dead owner's slot without a
second look; `LoadId` loads the generation again for the id. `GetWait` has one `try_get` before its loop, one after every
sleep, and a last one after a READY state; it looks at generation and state once more after it has registered. `CancelRequest`
wakes every sleeper where Go's wakes every sleeper too, `DrainResponse` is a `try_get` whose response is discarded, and the early return of
`reqrep_request` (1070-1073) cancels without draining (outcome `"late"`). `Clear` takes the slots one access at a time, with all
clients running. In integer mode the queue is the one of `RingQueue`: a request that is
placed and not yet published (`publish`) holds up the receiver, and a place being left (`leave`) is not free. A timeout of 0 (one
attempt, no wait) is not modelled.

### Blocking

The wait loops of senders and receivers are the same actions with the differences
(`Deadline`, `LoadSeq`) spelt out: load the counter, try again, look at the deadline,
register, `futexWait`, deregister, look at the context, try a third time. The futex
counters are only compared with a value that the same thread loaded earlier, so they
are represented by the set of threads whose loaded value is still current; this assumes that no counter goes
through all its 2^32 values within one such window. Waking is three steps (bump,
look at waiters, wake one). The recovery of the mutex after a timeout of `recvWait` (234-255) is in `PeerMutex`.

`PeerBlocking` adds C senders and receivers, which read the waiters first and bump only if there are any, register before they look at
the time left, have no cap on a sleep, and make a last attempt after `ETIMEDOUT`. The integer loops (1384-1417, 1446-1471) are the
same as the string ones but for the attempt, which is one step here.

### Segment

Servers (`NewServer`) and clients (`NewClient`) act on one path. A file is its size, the state of
its header (zero, in part, full, foreign) and the layout written in it; `holders` is its flock. One action
per system call or group of stores: `OpenFile`/`Create`, `Lock`, `Stat`, `Truncate` (with the mmap), `Check`
(`isHeaderZero`, `validateHeader`), `InitFields` and `InitMagic` (the two halves of `initHeader`), `Unlock` (the deferred calls, with the
munmap of the error path), `setupShm`, `Close`. `InitFields` stands for eleven stores: between the first and the last of them the
header is not zero and has no magic, which is all that anybody can see of it under the lock. `Crash` kills a process anywhere;
what it stored stays, lock and mapping go. `Remove` unlinks the path; a file without name and user is freed (`Reclaim`). Refused options and a client without
a file return before anything is touched and are no step. Goroutines of one process are separate
openers, as flock belongs to the open file and not to the process.

`PeerSegment` lets every opener choose an implementation per call, and a C creator a mode. C locks exclusively for opening, too; writes the
magic first, so that the half-written header (`part`) is refused by both for its stride, which is stored last and still 0 (`reqrep.go:272`, `reqrep.h:407`); never finishes what another
left; and checks more fields. It computes the stride as Go does, in 32 bits, but does not refuse the response sizes for which it wraps (469); the model does
the same. The run has options for which it does not wrap; with one for which it does, TLC finds `SoundLayouts` violated and `TypeOK`, `Agreement`, `CreatedAlone`, `IntLayouts` and
`HeaderStable` true. The header of an integer segment is complete before its sequences are written (`"int"`, then `"ring"`). A memfd
has no name: it is created in one step, because nobody else can see it, and handed from process to process.

The layout operators compute in words of `W` bits, with `MaxUint32 = 2^W - 1`: the stride in 32 bits, the arena hint
in 64 and then cut to 32, every offset guarded. `nextPow2` is defined by what it returns (0 when the power does not fit), not by its
shifts. That the header is in the page cache and survives its writer is assumed; a power failure is not modelled, nor is a system
call that fails.

### IntQueue

One action per access: load a position, load the sequence of its place, CAS the position, write or read the two halves of a place (value;
slot and generation), store the sequence. The weak CAS may fail without a reason: that is a stutter, since the thread is then where it
was. Positions have 64 bits in the code and do not come round. The places are plain memory in C and
are read and written only between a claim and the store to the sequence, which `RingInv` shows to be exclusive.
`IntClear` happens only while no living process is inside a call. `RingQueue` sees the claim as the step at which a request enters
or leaves the queue; the refinement mapping (`Ring`) says of a place that is still being written what it is going to hold.

## 3. Runs

Eight runs pass; four show a disagreement between the code and one of its comments.
Numbers are distinct states.

| Run | Question | Bounds, and why they are enough |
|---|---|---|
| `arena` | Do payloads survive? Is it a FIFO? Is the invariant of the proof true? | Ring of 4, arena of 44 bytes (no multiple of 8), 5 sends, 3 in a behaviour with a clear, payloads of 0, 17, 41 and 45 bytes: the arena wraps with requests in flight, fills, is charged more than its size, is reset, and refuses a hopeless payload. Ring slots are reused, also after a clear. Lengths that meet in the arena come with two contents, the others with one. 224 k. |
| `mutex` | Exclusion, recovery, wakeups, progress | Three threads in two processes, one of which can be killed anywhere; no C process, or either one; one thread may be in `recvWait`. Holder, woken thread, recoverer and two competitors for the recovery all occur. 140 k. |
| `slots_steady` | Does a query end, with its own response, when nothing goes wrong? | A Go and a C client on a string segment; two C clients on an integer one. Two slots, a queue of one (so that the send fails after a slot was taken), generations that wrap at 3. |
| `slots_expire` | Is a slot its tenant's alone, and are ids unique, when deadlines end at any moment? | One slot, in both modes: two clients with one query each (a Go and a C client, or two C clients in integer mode), and a client alone with three (cancel, drain and late reply of one query meet the next tenancy and the one after it). 438 k. |
| `slots_crash` | Are dead owners found? Does an expired query end? | A Go or a C client process killed anywhere next to a Go client; one client of either kind with deadlines, a handler that fails, overflows or answers, and a clear. One slot. |
| `blocking` | Lost wakeups, starvation | Two senders for one slot and a queue of one, and a server; a C sender next to a Go sender and a Go server, or Go senders and a C server. Contexts and servers may end at any moment, without deadlines (the harder case). 256 k. |
| `segment` | Is the file initialised once, and do all agree on a sound layout? | Two servers, a client, two files (the path's and its successor after a removal, or a memfd), words of 20 bits so that TLC's integers suffice. The options include a queue whose default arena does not fit the word, the longest response allowed, sizes off every boundary, and options refused by each guard but the last; the path starts empty or with somebody else's file. Servers and files are interchangeable (`SYMMETRY`; no liveness is checked here). 1.4 M. |
| `int_queue` | Is the lock-free ring a FIFO? Is it drained? | Two producers and two consumers, two places, three sends: each place is reused, so that a thread asleep between two loads finds the place of another lap. One producer can be killed anywhere; one clear. |

`CHECK_DEADLOCK FALSE` is set where the system may stop: queries are bounded, and with no server a
sleeping client is at its end. `mutex`, `arena`, `segment` and `int_queue` are checked for deadlock.

Properties of the passing runs:

* `RegionsDisjoint`, `EmptyMeansReclaimed`, `RefinesClearable` (arena): no byte of a request in
  flight is written; `arena_used = 0` exactly for an empty queue; every step is a step of the
  FIFO, with a refusal only for a reason, or empties it.
* `MutualExclusion`, `NoLostWakeup`, `LiveLockKept`, `Progress`, `RecvNeverRecovers` (mutex).
* `OwnResponse`, `NonZeroId`, `NoLeak`, `QueriesEnd` (steady), `SingleTenant`, `UniqueIds` (expire),
  `ExpiredEnds`, `DeadOwnerNoticed` (crash).
* `GoRequestNoticed`, `RequestTaken`, `GoSendEnds`, `ExpiredSendEnds` (blocking). A request of a C client may be
  overlooked by a server that is just going to sleep; `RequestTaken` says that a Go server takes it at the cap.
  `GoSendEnds` and `ExpiredSendEnds` rest on the same cap in `sendWait`, which a comment in the tests denies (`NoRescue`, below).
* `QueriesEnd` speaks of all queries of Go clients, and of a C query from the moment its request is in the queue: a C sender that missed
  its wakeup sleeps for ever, which keeps nobody else from ending.
* `Agreement`, `SoundLayouts`, `IntLayouts`, `HeaderStable`, `CreatedAlone`, `PeerCreatedOpens` (segment). Its `TypeOK` also says who
  holds the flock: exactly those between taking and releasing it, so that nobody waits for one that is gone.
* `RingInv`, `RefinesRing`, `RefusalJustified`, `Drains` (int_queue). Requests and refusals of
  different threads are ordered by their claims; `RefusalJustified` is what remains true of a refusal although position and
  sequence were loaded at different times.

Each is shown able to fail: `PROJECT.json` names for every property of every passing run a plausible error in the
code (the operator next to the original, marked "Mutant of") under which TLC finds it violated.

### Disagreements found

| Run | What the code does | What the comment says |
|---|---|---|
| `slots_misdelivery` | `writeResponse` checks the generation (422) and publishes later with a CAS on the state alone (435). A cancel and a new acquisition in between, and the reply goes to the new tenant, which returns it as its own. | `gen/reqrep.h:51-53`, the generation prevents ABA |
| `slots_missed_wake` | `futexWake(1)` of `writeResponse` may reach a sleeper of an earlier tenancy; the tenant sleeps on with its response READY. | `reqrep.go:468-470`, "no wakeup is missed" |
| `segment_half_init` | `openOrCreate` repeats `initHeader` only for a header that is zero throughout (355). Killed between the first field and the magic, a server leaves a file that every later open refuses. | `reqrep.go:227-229`, a crash mid-init is detected and recovered from |
| `blocking_wrong_futex` | `sendWait` picks the futex by the failure before the last; a sender short of slots can sleep on `send_futex` until the 2 s cap. | `reqrep.go:575-577`, "futexWake(1) on each address wakes the right group" |

Three more show when the property or the world of an instance is changed, the first of a test's comment, the others of the C code:

* `NoRescue` with the constants of `blocking`: `sendWait` caps every sleep at 2 s, with or without a deadline (`reqrep_queue.go:118-120`, 300). A C server bumps
  `send_futex` only if it sees a waiter, so a Go sender between its load and its registration misses the wakeup and sleeps with the queue empty; at the cap it goes
  on. The comment at `reqrep_test.go:231-232` says: "Unlike recvWait, sendWait has no periodic 2-second rescue timeout, so with a context.Background() the
  sender would block indefinitely." The comment is out of date; `GoSendEnds` holds because of the cap.
* `NoLeak` with the constants of `slots_expire` and `Worlds <- OneLate`: when nothing is left of the timeout after the send,
  `reqrep_request` cancels and returns (1070-1073). If the reply is there already the cancel does nothing, and there is no drain as at
  1079-1081: the slot stays READY while its owner lives. The comment at 1031-1032 asks the caller to drain.
* `ClearUnblocks` with the constants of `slots_crash`, `Mortal = {}` and `Worlds <- OneCleared`: `reqrep_get_wait` checks the generation (1003) and then loads
  the state (1008), `reqrep_clear` stores FREE (1126) and then increments the generation (1129). A client that checks
  before the increment and loads FREE sleeps on FREE if the wake (1131) comes just before; without a timeout it never returns. The comment at
  1120: "Release all in-flight response slots so get_wait callers unblock."

More shows when the constants or the property of an instance are changed: with the constants of
`slots_misdelivery`, `NeverStale` fails (`cancelRequest` frees the slot at `reqrep.go:530` before it increments the generation at
534, so that the next tenant is told `ErrStaleSlot`); with three clients and `Mortal = {p1}`, `RecoversDeadOnly` fails
(two clients recover the same dead slot and the slower one frees it under the faster one, `reqrep_slots.go:48`); with `HasDeadline = FALSE`,
`ExpiredEnds` fails (the sleep has no timeout and a mere cancel does not wake it); with `CanFail` and two
handlers, `OwnResponse` fails without any context ending (the spin phase loads the
generation before the state, `reqrep.go:457-461`); with the constants of `segment`,
`\A p \in Opener : pc[p] = "ready" => file[fd[p]].head # "int"` fails (a C creator killed between the complete header and the
sequences, `gen/reqrep.h:1241-1246`, leaves a ring without sequences that every later create and open accepts).

### Fairness

* `WF(Run(t))`, `WF(ClientStep(c))`, `WF(HandlerStep(h) \/ CancelStep(h))`, and in the composed modules `WF(Locking(t))`,
  `WF(PeerClientStep(c) ...)`, `WF(PeerHandlerStep(h) ...)`, `WF(Advance(t))`: the Go and kernel schedulers run every
  thread that can run. Nothing is assumed of which sleeper a wake chooses, of
  signals, or of contexts ending.
* `SF(Timeout(t))` in `Mutex` and `PeerMutex`: the 2 s timer is restarted by each wait, so it fires only if
  a wait lasts; strong fairness says that signals and wakeups do not cut short every single wait.
* `WF(SleepEnds(t))` in `Blocking`, part of `Advance` for Go threads in `PeerBlocking`: the sleep is capped at 2 s whatever the context. A
  C thread has no such cap and no fairness for an interrupted sleep; what it is promised is the timeout when its deadline is over (`PeerTimeout`).
* `WF(Cancel(c))` in `Blocking` only with a deadline. `Answered` is part of `Run`: a server
  that took a request answers it. `GoSendEnds` therefore speaks of servers whose handlers return.
* In `RespSlots` and `PeerSlots` the end of the sleep for a response is part of the step only when there is a deadline and it is over. The
  sleep of a sender ends sometime in Go, at the cap. In C nothing is assumed of it unless the deadline is over (`Runs`): its wakeup can be lost, as `PeerBlocking`
  shows, and `QueriesEnd` asks nothing of a C query before it is in the queue.
* `WF(IntTrySend(p))`, `WF(IntTryRecv(c))` in `IntQueue`: clients send and servers receive until the bound. That a CAS loop could be
  overtaken for ever does not happen within the bound on sends; it is the usual limit of lock-free code.

## 4. Proofs

Every invariant, action property and refinement that a passing run checks is stated by a theorem. The theorems hold for every
value of the constants that satisfies the modules' `ASSUME`; further hypotheses are named in the statement. Those about
`PeerSpec` cover any mix of Go and C processes.

* **`ArenaQueueProofs`** (`PeerSpec`): `TypeCorrect`, `NoOverwrite` (`RegionsDisjoint`), `Reclaimed`
  (`EmptyMeansReclaimed`), from `Invariance` (`IInv`, an invariant of the run), for all payloads, C's longer than the arena included; and
  `PayloadsInside` (`Fitting`) and `Refinement` (`RefinesClearable`) under `PeersFit`. The disjointness of regions is
  not inductive, because the allocator sees `wpos` and `used` only. `IInv` adds: each request starts where the previous one ends or at 0
  after a wrap (`Chained`); there is at most one wrap between the oldest and the newest (`OneWrap`); an allocation
  passes the end of the arena only alone in the queue and at 0 (`Bounded`), which is the case of arena sizes that are
  no multiple of 8 and of payloads longer than the arena; and `used` is the distance from the oldest to `wpos` plus what was lost at the end (`Charged`). The
  refinement rests on the disjointness: a `Send` leaves the bytes of the requests in flight alone, so the abstract queue
  read from the arena grows by the request just sent, whole.
* **`MutexProofs`** (`PeerSpec`): `TypeCorrect`, `Exclusion`, `NeverStolen` (`LiveLockKept`), `NeverByRecvWait` (`RecvNeverRecovers`), `NoneLost` (`NoLostWakeup`). Inductive
  (`IInv`): the holder's pid is in the word, threads that run belong to living processes, a thread about to recover has seen the pid of a process that is
  gone (`Ownership`); the CAS of `recoverStaleMutex` then compares with a dead holder, since a pid is not reused. A thread that goes to wait has seen a word that
  was not free (`Waiting`). A receiver that remembers one timeout of its own remembers a dead holder and, outside of `mutexLock`, that holder is no longer in the word
  (`Remembered`): this is why the second timeout that `recvWait` waits for never comes.
* **`IntQueueProofs`** (`Spec`): `TypeCorrect`, `PlacesExclusive` (`RingInv`), `Justified` (`RefusalJustified`), `Refinement` (`RefinesRing`), kills of
  any thread and the clear included. `IInv` adds to `RingInv`, which says what the sequence of each of the last `Cap` positions means and whose the place is, that a
  thread's position is not ahead of the counter and at the CAS has a sequence that is due if the CAS can succeed (`Positions`), and that a producer's stores are in its
  place (`Contents`). The arithmetic is that of laps: positions less than `Cap` apart have different places, and a sequence modulo `Cap` names
  the position. A loaded sequence that is behind stays behind until the counter moves, so a refusal is justified although the two loads are apart. In the refinement
  the abstract queue is the list of claimed positions; the two CAS, the publishing store, the freeing store and the clear are its steps, all other accesses stutter.
* **`BlockingProofs`** (`PeerSpec`): `TypeCorrect` (each waiters word is the number of registered threads) and `Noticed` (`GoRequestNoticed`). The
  invariant (`NoticeInv`) adds that recv_futex has only receivers on it, and, unless there are C clients, that a receiver about to sleep with a current counter implies an empty
  queue or a sender that has yet to bump (`NoneOverlooked`).
* **`SegmentProofs`** (`Spec`): `TypeCorrect`, `Agreed`, `LayoutsSound`, `NeverRewritten`, `AlwaysOpens`; **`PeerSegmentProofs`** (`PeerSpec`): the same with C processes,
  `IntLayoutsSound`, `NobodyInside` (`CreatedAlone`) and `PeerAlwaysOpens` (`PeerCreatedOpens`). `Agreement` alone is not
  inductive: `GoodFiles` says that a complete header has a layout which `validateHeader` accepts in a file of this size, and
  `CourseOf` what each call knows where it stands (a server about to write has the lock and a file without a complete
  header; who got past the check has one). `PeerIInv` restates both for the C order of stores and the two modes, and adds that a memfd belongs to C callers that made or were handed it
  and that nobody uses a file whose ring still lacks its sequences while its creator lives (`Private`). That accepted options give a sound layout is a lemma about the
  arithmetic (`LayoutGood`, `PeerLayoutsGood`), for every word size; it needs each of the guards of `Acceptable` but the one on the total size. That `nextPow2` returns a power of two unless
  it overflows follows from the least exponent that is large enough.
* **`RespSlotsProofs`**: `IdsUnique` (Go, `NoWrap`): `UniqueIds`, failing handlers, ending contexts and killed processes included. The strengthening is
  `Issued`: an id never exceeds the current generation of its slot, so that a new one, which does, is new. `PeerTypesCorrect` (`PeerTypeOK`) holds of
  `PeerSpec` with no hypothesis, `IdsNonZero` (`NonZeroId`) under `NoLap`: the waiters word of a slot is the number of clients registered in it through every wait, cancel, clear and kill. `PeerInv` adds
  where a client can be registered (`Placed`); `reqrep_clear` and recovery leave waiters words alone, which is what makes the count survive them.
* **`TenancyProofs`**, one tenant: `Tenancy` (Go; `~CanFail`, `Mortal = {}`, `NoWrap`), `PeerTenancy` and `PeerIdsUnique` (Go and C; `Merciful`, `NoWrap`): `SingleTenant`, `UniqueIds`, contexts
  and deadlines ending at any moment. The invariant adds the client in `tryDrainResponse` that will find it still has the slot (`Exclusive`), that past the bump of a cancel an
  id is out of date (`Course`), and for C, which loads the generation in an access of its own after it has added to it, that no id of the slot has the generation which is
  about to be loaded (`Fresh`).
* **`TenancyProofs`**, the right answer: `OwnAnswer` (`OwnResponse`), `NothingLeaks` (`NoLeak`), `NobodyStale` and `SteadyIdsNonZero` (`NonZeroId`, without `NoLap`) under `Steady`, generations free to wrap. `SteadyInv` follows each request through the queue and the
  handler: it names a slot whose one keeper waits for it and has no response yet (`OnItsWay`), no two requests name one slot (`Apart`), and a READY slot has the
  response to its keeper's request (`ClientSound`).

The hypotheses, each of which some worlds of the runs satisfy, and why they cannot go:

* `PeersFit`: no C client offers a payload longer than the arena. One that is accepted is not read back as it was sent, and passes the end
  of the arena.
* `StridesFit` (`PeerLayoutsSound`, `PeerAlwaysOpens`): no C creator asks for a response size for which the stride wraps. With one, slots are smaller than a response, and
  Go may refuse the header.
* `NoLap`: while a client is between its two additions (`reqrep_slots.go:25-27`) others do not bring the generation round to its last value once
  more. The code adds a second time only, so that the result would be 0 again.
* `NoWrap`: no generation passes 2^32. Without it ids repeat.
* `Merciful`: nobody is killed, no handler fails, nobody clears. A handler that cancels and a recovery that races each free a live slot
  (`reqrep_slots.go:48`; section 3), and so does a clear, whose purpose it is.
* `Steady`: moreover no deadline ends. With one, the reply to a cancelled request reaches the next tenant: `slots_misdelivery` is the counterexample.

The inductive invariants were model-checked before they were proved, on the instances of the runs (`MCMutex`, `MCIntQueue`, `MCArenaQueue`, `MCPeerSegment`, and `slots_expire`
for that of `PeerTenancy`).

Only model-checked, since liveness under fairness is out of the prover's reach: `Progress`, `QueriesEnd`, `ExpiredEnds`,
`DeadOwnerNoticed`, `GoSendEnds`, `RequestTaken`, `ExpiredSendEnds`, `Drains`. The four runs that find a violation prove nothing beyond their
counterexamples.

## 5. Not modelled

* Failing system calls and allocations, in both implementations (`reqrep_ensure_copy_buf`, `calloc` in `reqrep_setup_handle`, `mmap`, `ftruncate`).
* Anonymous mappings (`path == NULL`): they are inherited by fork only and have no race of creation.
* A crash inside the critical section of the queue: `Mutex` recovers the lock, but nobody repairs `head`,
  `tail`, `arena_used` and `arena_wpos`. A kill between the stores to `arena_wpos` and `arena_used` leaves a charge that is too small.
  The code accepts this; critical sections are one step.
* `reqrep_int_clear` next to running calls, and its loop over the response slots (the same as that of `reqrep_clear`).
* A timeout of 0 in C; `reqrep_pending`, `reqrep_size` and `reqrep_int_size`, which only report; `reqrep_sync`.
* The eventfd helpers (1147-1205): one system call each, on descriptors that nothing in the repository waits on.
* What lies behind the arena, where the copy of a C payload longer than the arena ends, and slots that overlap because a C stride wrapped: the
  steps that lead there are modelled, what happens in that memory is not.
* `Server.Close` while its goroutines run: the caller's duty to stop the goroutines first.
* Reuse of pids and pid namespaces.
* Layout accessors (offsets) and the generator: no state, no decisions.
* Memory ordering: Go's `sync/atomic` is sequentially consistent, and so is the model. C uses acquire, release and relaxed
  accesses; the model gives their interleavings, which is what x86 gives for all of them but a store followed by a load of
  another word. The response bytes are plain memory; see RespSlots above.

## 6. Plan

Done: all modules above, their runs, and the safety properties of the runs as theorems.

What could follow:

1. `RespSlots` and `PeerSlots`: what is left of `SingleTenant` with kills, when one client at a time recovers; today `slots_crash` checks only that dead owners
   are found and that expired queries end.
2. `OwnResponse` with deadlines where a client drains every expired query before its slot can be taken again.
3. `IntQueue` with its clear next to running calls.
