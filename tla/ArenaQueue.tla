----------------------------- MODULE ArenaQueue -----------------------------
(***************************************************************************)
(* The request queue of the shared segment: a ring of fixed-size request   *)
(* slots addressed by the growing counters head and tail, and a byte arena *)
(* that holds the payloads.  sendLocked and recvLocked run under the arena *)
(* mutex (see Mutex), so each is one step here.                            *)
(*                                                                         *)
(* The arena is a circular buffer kept by two numbers only: wpos, the next *)
(* write position, and used, the bytes charged.  A payload takes a         *)
(* multiple of 8 bytes, never straddles the end of the arena, and a slot   *)
(* remembers in arenaSkip what it was charged: its own bytes and the tail  *)
(* of the arena it made unusable by wrapping to 0.                         *)
(***************************************************************************)
EXTENDS Integers, Sequences

CONSTANTS
  ReqCap,       \* request slots (a power of two: index = counter & mask)
  ReqArenaCap,  \* bytes in the arena; any number, not always a multiple of 8
  Byte,         \* the values of a byte, 0 among them
  RespSlots,    \* number of response slots
  Request,      \* the requests senders offer: [data, slot, gen]
  MaxSends      \* bound on the counter tail (uint64 in the code)

ASSUME CapAssumption ==
  /\ ReqCap \in Nat \ {0}
  /\ ReqArenaCap \in Nat \ {0}
  /\ RespSlots \in Nat \ {0}
  /\ MaxSends \in Nat
  /\ 0 \in Byte

ASSUME RequestAssumption ==
  Request \subseteq [data : Seq(Byte), slot : 0..(RespSlots - 1), gen : Nat \ {0}]

VARIABLES
  head, tail,   \* counters of dequeued and enqueued requests
  ring,         \* the request slots
  wpos, used,   \* arena_wpos, arena_used
  arena,        \* the bytes of the arena
  refused,      \* the request the last sendLocked refused, NoRequest if it took it
  got           \* what the last recvLocked returned

vars == <<head, tail, ring, wpos, used, arena, refused, got>>

----------------------------------------------------------------------------
(* Arena allocation *)

\* Bytes charged for a payload of n bytes: rounded up to 8, at least 8.
Alloc(n) == IF n = 0 THEN 8 ELSE ((n + 7) \div 8) * 8

\* The payload does not fit between wpos and the end of the arena.
Wraps(n) == wpos + Alloc(n) > ReqArenaCap

\* Mutant of SkipFor: the tail of the arena lost to the wrap is not charged.
SkipForNoPad(n) == Alloc(n)

SkipFor(n) == Alloc(n) + (IF Wraps(n) THEN ReqArenaCap - wpos ELSE 0)

ArenaFull(n) == used + SkipFor(n) > ReqArenaCap

\* Mutant of ArenaOk: a full arena always fails the send.
ArenaOkNoReset(n) == n <= ReqArenaCap /\ ~ArenaFull(n)

\* A full arena is reset when nothing is in flight; otherwise the send fails.
ArenaOk(n) == n <= ReqArenaCap /\ (ArenaFull(n) => head = tail)

\* Mutant of PlaceOff: the wrap does not go back to 0.
PlaceOffNoWrap(n) == IF ArenaFull(n) THEN 0 ELSE wpos

\* Where the payload goes and what it is charged.
PlaceOff(n) == IF ArenaFull(n) \/ Wraps(n) THEN 0 ELSE wpos

PlaceSkip(n) == IF ArenaFull(n) THEN Alloc(n) ELSE SkipFor(n)

writeArenaLocked(data) ==
  LET n == Len(data)
      off == PlaceOff(n)
  IN  /\ arena' = [a \in DOMAIN arena |->
                     IF a \in off..(off + n - 1) THEN data[a - off + 1] ELSE arena[a]]
      /\ wpos' = off + Alloc(n)
      /\ used' = (IF ArenaFull(n) THEN 0 ELSE used) + PlaceSkip(n)

readArena(off, n) == [k \in 1..n |-> arena[off + k - 1]]

releaseArenaLocked(skip) ==
  /\ used' = IF used >= skip THEN used - skip ELSE 0
  /\ wpos' = IF used' = 0 THEN 0 ELSE wpos

----------------------------------------------------------------------------
(* The queue *)

Idx(i) == i % ReqCap

\* The request slot of the i-th request, for i in head..tail-1.
Entry(i) == ring[Idx(i)]

RequestOf(i) ==
  [data |-> readArena(Entry(i).off, Entry(i).len),
   slot |-> Entry(i).slot,
   gen  |-> Entry(i).gen]

EmptyEntry == [off |-> 0, len |-> 0, skip |-> 0, slot |-> 0, gen |-> 0]

\* recvLocked on an empty queue returns (nil, 0, false).
NoRequest == [data |-> <<>>, slot |-> 0, gen |-> 0]

\* A fresh segment is all zeroes.
Init ==
  /\ head = 0 /\ tail = 0
  /\ ring = [s \in 0..(ReqCap - 1) |-> EmptyEntry]
  /\ wpos = 0 /\ used = 0
  /\ arena = [a \in 0..(ReqArenaCap - 1) |-> 0]
  /\ refused = NoRequest
  /\ got = NoRequest

\* Mutant of QueueFull: one request too many.
QueueFullLate == tail - head > ReqCap

QueueFull == tail - head >= ReqCap

\* The request takes the next slot of the ring and its place in the arena.
Enqueue(r) ==
  /\ tail < MaxSends
  /\ ~QueueFull
  /\ writeArenaLocked(r.data)
  /\ ring' = [ring EXCEPT ![Idx(tail)] =
                [off |-> PlaceOff(Len(r.data)), len |-> Len(r.data),
                 skip |-> PlaceSkip(Len(r.data)), slot |-> r.slot, gen |-> r.gen]]
  /\ tail' = tail + 1
  /\ refused' = NoRequest
  /\ UNCHANGED <<head, got>>

\* sendLocked that enqueues.
Send(r) == ArenaOk(Len(r.data)) /\ Enqueue(r)

\* sendLocked that returns false: ring full, arena full or payload too long.
SendFull(r) ==
  /\ QueueFull \/ ~ArenaOk(Len(r.data))
  /\ refused' = r
  /\ UNCHANGED <<head, tail, ring, wpos, used, arena, got>>

\* The oldest request leaves: the copy is taken before the arena is released.
Dequeue ==
  /\ tail # head
  /\ got' = RequestOf(head)
  /\ releaseArenaLocked(Entry(head).skip)
  /\ head' = head + 1
  /\ UNCHANGED <<tail, ring, arena, refused>>

\* recvLocked that dequeues.  A payload that passes the end of the arena (only C
\* sends such, see PeerArena) makes readArena panic: nothing is dequeued.
Recv == Entry(head).off + Entry(head).len <= ReqArenaCap /\ Dequeue

RecvEmpty ==
  /\ tail = head
  /\ got' = NoRequest
  /\ UNCHANGED <<head, tail, ring, wpos, used, arena, refused>>

Next ==
  \/ Recv
  \/ RecvEmpty
  \/ \E r \in Request : Send(r) \/ SendFull(r)

Spec == Init /\ [][Next]_vars

----------------------------------------------------------------------------
(* Properties *)

Live == head..(tail - 1)

End(i)  == Entry(i).off + Alloc(Entry(i).len)

EntryType ==
  [off : Nat, len : Nat, skip : Nat, slot : 0..(RespSlots - 1), gen : Nat]

\* Types of the shared words, and head <= tail <= head + reqCap.
TypeOK ==
  /\ head \in Nat /\ tail \in Nat /\ head <= tail /\ tail - head <= ReqCap
  /\ ring \in [0..(ReqCap - 1) -> EntryType]
  /\ wpos \in Nat /\ used \in Nat
  /\ arena \in [0..(ReqArenaCap - 1) -> Byte]
  /\ refused \in Request \cup {NoRequest}

\* No two requests in flight share a byte of the arena, and a payload no longer
\* than the arena lies inside it: what sendLocked copies never damages a request
\* not yet received, although the allocator knows only wpos and used.
RegionsDisjoint ==
  /\ \A i \in Live : Entry(i).len <= ReqArenaCap =>
       Entry(i).off + Entry(i).len <= ReqArenaCap
  /\ \A i, j \in Live : i < j =>
       \/ Entry(i).off + Entry(i).len <= Entry(j).off
       \/ Entry(j).off + Entry(j).len <= Entry(i).off

\* The claim of releaseArenaLocked: used = 0 exactly when nothing is in flight,
\* and the arena then starts again at 0, so no space is ever lost.
EmptyMeansReclaimed ==
  /\ used = 0 <=> head = tail
  /\ head = tail => wpos = 0

----------------------------------------------------------------------------
(* The inductive invariant *)

\* Bytes at the end of the arena that request i wasted by wrapping to 0.
Pad(i) == Entry(i).skip - Alloc(Entry(i).len)

\* Request i lies at or above the oldest one: no wrap since the oldest.
Up(i) == Entry(i).off >= Entry(head).off

\* Each request starts where the one before it ends, or at 0 after a wrap.
Chained ==
  \A i \in Live : i + 1 \in Live =>
    \/ Entry(i + 1).off = End(i) /\ Pad(i + 1) = 0
    \/ Entry(i + 1).off = 0 /\ Pad(i + 1) = ReqArenaCap - End(i)

\* At most one wrap: requests above the oldest ascend, then requests below it.
OneWrap ==
  /\ \A i, j \in Live : i < j /\ Up(j) => Up(i) /\ End(i) <= Entry(j).off
  /\ \A i, j \in Live : i < j /\ ~Up(i) => ~Up(j) /\ End(i) <= Entry(j).off
  /\ \A i \in Live : ~Up(i) => End(i) <= Entry(head).off

\* An allocation passes the end of the arena only alone in the queue, at 0 (arena
\* size not a multiple of 8, or a payload longer than the arena from C).
Bounded ==
  \A i \in Live :
    /\ Pad(i) >= 0
    /\ Pad(i) > 0 => Entry(i).off = 0
    /\ End(i) <= ReqArenaCap \/ (Entry(i).off = 0 /\ tail = head + 1)

\* What used counts, seen from the oldest request.
Charged ==
  head # tail =>
    /\ wpos = End(tail - 1)
    /\ used = IF Up(tail - 1) THEN Pad(head) + wpos - Entry(head).off
                              ELSE ReqArenaCap - Entry(head).off + wpos

IInv ==
  /\ TypeOK
  /\ head = tail => used = 0 /\ wpos = 0
  /\ Chained
  /\ OneWrap
  /\ Bounded
  /\ Charged

----------------------------------------------------------------------------
(* Refinement *)

\* Reading the payloads back from the arena, the ring is the bounded FIFO
\* (RefinesClearable of PeerArena).
BQ == INSTANCE BoundedQueue WITH
        Cap <- ReqCap, MaxLen <- ReqArenaCap,
        queue <- [k \in 1..(tail - head) |-> RequestOf(head + k - 1)]
=============================================================================
