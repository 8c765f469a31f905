-------------------------- MODULE ArenaQueueProofs --------------------------
(***************************************************************************)
(* The arena queue never lets two requests in flight share a byte, for     *)
(* every ring size, arena size and payload length, whatever mix of Go and  *)
(* C processes sends, receives and clears; and it hands every request out  *)
(* whole as long as C clients offer none longer than the arena.            *)
(***************************************************************************)
EXTENDS PeerArena, SequenceTheorems, TLAPS

----------------------------------------------------------------------------
(* Arithmetic *)

\* A multiple of c is at least c or at most 0.
LEMMA MultipleBound ==
  ASSUME NEW c \in Nat \ {0}, NEW d \in Int
  PROVE  (d >= 1 => c * d >= c) /\ (d <= 0 => c * d <= 0)
  OBVIOUS

\* Counters less than reqCap apart have different ring indices.
LEMMA ModUnique ==
  ASSUME NEW c \in Nat \ {0}, NEW i \in Nat, NEW j \in Nat, i < j, j - i < c
  PROVE  i % c # j % c
<1> DEFINE p == i \div c
           q == j \div c
<1>1. p \in Int /\ q \in Int
  OBVIOUS
<1>2. /\ i = c * p + (i % c) /\ i % c \in Int
      /\ j = c * q + (j % c) /\ j % c \in Int
  OBVIOUS
<1> HIDE DEF p, q
<1>3. c * (q - p) = c * q - c * p
  BY <1>1
<1>4. SUFFICES ASSUME i % c = j % c PROVE FALSE
  OBVIOUS
<1>5. j - i = c * (q - p)
  BY <1>1, <1>2, <1>3, <1>4
<1>6. (q - p >= 1 => c * (q - p) >= c) /\ (q - p <= 0 => c * (q - p) <= 0)
  BY <1>1, MultipleBound
<1> QED
  BY <1>1, <1>5, <1>6

\* A ring index is a slot of the ring.
LEMMA IdxInRing ==
  ASSUME NEW i \in Nat
  PROVE  Idx(i) \in 0..(ReqCap - 1)
  BY CapAssumption DEF Idx

\* An allocation holds its payload, is at least 8 and wastes at most 7 bytes.
LEMMA AllocFacts ==
  ASSUME NEW n \in Nat
  PROVE  Alloc(n) \in Nat /\ Alloc(n) >= 8 /\ n <= Alloc(n) /\ Alloc(n) <= n + 8
  BY DEF Alloc

----------------------------------------------------------------------------
(* Facts about the state *)

\* The fields of a request in flight are numbers.
LEMMA EntryFacts ==
  ASSUME TypeOK, NEW i \in Live
  PROVE  /\ i \in Nat
         /\ Entry(i) \in EntryType
         /\ Entry(i).off \in Nat /\ Entry(i).len \in Nat /\ Entry(i).skip \in Nat
         /\ Alloc(Entry(i).len) \in Nat /\ Alloc(Entry(i).len) >= 8
         /\ Entry(i).len <= Alloc(Entry(i).len)
<1>1. i \in Nat
  BY DEF TypeOK, Live
<1>2. Entry(i) \in EntryType
  BY <1>1, IdxInRing DEF TypeOK, Entry
<1>3. Entry(i).off \in Nat /\ Entry(i).len \in Nat /\ Entry(i).skip \in Nat
  BY <1>2 DEF EntryType
<1> QED
  BY <1>1, <1>2, <1>3, AllocFacts

\* What a request brings with it.
LEMMA RequestFacts ==
  ASSUME NEW r \in Request
  PROVE  /\ r.data \in Seq(Byte) /\ Len(r.data) \in Nat
         /\ r.slot \in 0..(RespSlots - 1) /\ r.gen \in Nat
  BY RequestAssumption

\* The first state satisfies the invariant.
LEMMA InitIInv == Init => IInv
<1> SUFFICES ASSUME Init PROVE IInv
  OBVIOUS
<1>1. TypeOK
  <2>1. EmptyEntry \in EntryType
    BY CapAssumption DEF EntryType, EmptyEntry
  <2>2. ring \in [0..(ReqCap - 1) -> EntryType]
    BY <2>1 DEF Init
  <2>3. arena \in [0..(ReqArenaCap - 1) -> Byte]
    BY CapAssumption DEF Init
  <2>4. /\ head \in Nat /\ tail \in Nat /\ head <= tail /\ tail - head <= ReqCap
        /\ wpos \in Nat /\ used \in Nat
    BY CapAssumption DEF Init
  <2> QED
    BY <2>2, <2>3, <2>4, Zenon DEF Init, TypeOK
<1>2. Live = {}
  BY DEF Init, Live
<1> QED
  BY <1>1, <1>2 DEF Init, IInv, Chained, OneWrap, Bounded, Charged

\* Calls that change no shared word but their result keep the invariant.
LEMMA ResultOnly ==
  ASSUME IInv, UNCHANGED <<head, tail, ring, wpos, used, arena>>, refused' \in Request \cup {NoRequest}
  PROVE  IInv'
  BY DEF IInv, TypeOK, Chained, OneWrap, Bounded, Charged, Live, Entry, End, Pad, Up

\* Dequeuing the oldest request keeps the invariant: the next one becomes the
\* point from which used is counted.
LEMMA RecvIInv == IInv /\ Dequeue => IInv'
<1> SUFFICES ASSUME IInv, Dequeue PROVE IInv'
  OBVIOUS
<1> USE DEF IInv
<1>1. head \in Nat /\ tail \in Nat /\ head < tail /\ tail - head <= ReqCap
  BY DEF TypeOK, Dequeue
<1>2. head \in Live /\ Live' = Live \ {head} /\ tail - 1 \in Live
  BY <1>1 DEF Live, Dequeue
<1>3. \A i : Entry(i)' = Entry(i) /\ End(i)' = End(i) /\ Pad(i)' = Pad(i)
  BY DEF Dequeue, Entry, End, Pad
<1>4. \A i \in Live : /\ i \in Nat /\ head <= i /\ i <= tail - 1
                      /\ Entry(i).off \in Nat /\ Entry(i).len \in Nat
                      /\ Entry(i).skip \in Nat
                      /\ End(i) \in Nat /\ Pad(i) \in Nat
                      /\ End(i) >= Entry(i).off + 8
                      /\ Entry(i).skip = Pad(i) + End(i) - Entry(i).off
  BY <1>1, EntryFacts DEF Live, End, Pad, Bounded
<1>5. used >= Entry(head).skip
  <2>1. /\ wpos = End(tail - 1)
        /\ used = IF Up(tail - 1) THEN Pad(head) + wpos - Entry(head).off
                                  ELSE ReqArenaCap - Entry(head).off + wpos
    BY <1>1 DEF Charged
  <2>2. CASE tail - 1 = head
    BY <1>2, <1>4, <2>1, <2>2 DEF Up
  <2>3. CASE tail - 1 # head /\ Up(tail - 1)
    <3>1. End(head) <= Entry(tail - 1).off
      BY <1>1, <1>2, <2>3 DEF OneWrap
    <3> QED
      BY <1>2, <1>4, <2>1, <2>3, <3>1
  <2>4. CASE ~Up(tail - 1)
    <3>1. Entry(head).off > 0 /\ tail - 1 # head
      BY <1>2, <1>4, <2>4 DEF Up
    <3>2. Pad(head) = 0 /\ End(head) <= ReqArenaCap
      BY <1>1, <1>2, <1>4, <3>1 DEF Bounded
    <3> QED
      BY <1>2, <1>4, <2>1, <2>4, <3>2, CapAssumption
  <2> QED
    BY <2>2, <2>3, <2>4
<1>6. /\ used' = used - Entry(head).skip /\ used' \in Nat
      /\ wpos' = IF used' = 0 THEN 0 ELSE wpos
      /\ wpos' \in Nat
  BY <1>2, <1>4, <1>5 DEF TypeOK, Dequeue, releaseArenaLocked
<1>7. TypeOK'
  <2>1. /\ head' \in Nat /\ tail' \in Nat /\ head' <= tail' /\ tail' - head' <= ReqCap
        /\ ring' = ring /\ arena' = arena /\ refused' = refused
    BY <1>1, CapAssumption DEF Dequeue
  <2> QED
    BY <1>6, <2>1, Zenon DEF TypeOK
<1>8. CASE head + 1 = tail
  <2>1. tail - 1 = head
    BY <1>1, <1>8
  <2>2. wpos = End(head) /\ used = Pad(head) + wpos - Entry(head).off
    BY <1>1, <1>2, <1>4, <2>1 DEF Charged, Up
  <2>3. used' = 0 /\ wpos' = 0
    BY <1>2, <1>4, <1>6, <2>2
  <2>4. Live' = {} /\ head' = tail'
    BY <1>1, <1>8 DEF Live, Dequeue
  <2> QED
    BY <1>7, <2>3, <2>4 DEF Chained, OneWrap, Bounded, Charged
<1>9. CASE head + 1 # tail
  <2> DEFINE g == head + 1
  <2>1. g \in Live /\ g \in Nat /\ g < tail /\ head < g /\ head' = g /\ tail' = tail
    BY <1>1, <1>9 DEF Live, Dequeue
  <2>2. \/ Entry(g).off = End(head) /\ Pad(g) = 0
        \/ Entry(g).off = 0 /\ Pad(g) = ReqArenaCap - End(head)
    BY <1>2, <2>1 DEF Chained
  <2>3. \A i \in Live \ {head} : g <= i
    BY <1>1, <1>4
  <2>4. \A i : Up(i)' = (Entry(i).off >= Entry(g).off)
    BY <1>3, <2>1 DEF Up
  <2>4a. Up(tail - 1)' <=> Entry(tail - 1).off >= Entry(g).off
    BY <1>3, <2>1 DEF Up
  <2> HIDE DEF g
  <2>5. Chained'
    BY <1>2, <1>3 DEF Chained
  <2>6. OneWrap'
    BY <1>1, <1>2, <1>3, <1>4, <2>1, <2>2, <2>3, <2>4 DEF OneWrap, Up
  <2>7. Bounded'
    BY <1>1, <1>2, <1>3, <1>4, <1>9, <2>1 DEF Bounded, g
  <2>8. End(head) <= ReqArenaCap
    BY <1>1, <1>2, <1>9 DEF Bounded
  <2>9. /\ wpos = End(tail - 1)
        /\ used = IF Up(tail - 1) THEN Pad(head) + wpos - Entry(head).off
                                  ELSE ReqArenaCap - Entry(head).off + wpos
    BY <1>1 DEF Charged
  <2>10. /\ Entry(tail - 1).off >= Entry(g).off => used' = Pad(g) + wpos - Entry(g).off
         /\ Entry(tail - 1).off < Entry(g).off => used' = ReqArenaCap - Entry(g).off + wpos
         /\ used' > 0
    <3> DEFINE l == tail - 1
    <3>1. /\ l \in Live /\ g <= l /\ head < l
          /\ wpos = End(l)
          /\ Up(l) => used = Pad(head) + wpos - Entry(head).off
          /\ ~Up(l) => used = ReqArenaCap - Entry(head).off + wpos
      BY <1>1, <1>2, <2>1, <2>9 DEF g
    <3> HIDE DEF l
    <3> SUFFICES
          /\ Entry(l).off >= Entry(g).off => used' = Pad(g) + wpos - Entry(g).off
          /\ Entry(l).off < Entry(g).off => used' = ReqArenaCap - Entry(g).off + wpos
          /\ used' > 0
      BY DEF l
    <3>2. /\ used' = used - (Pad(head) + End(head) - Entry(head).off)
          /\ used' \in Nat /\ used \in Nat /\ ReqArenaCap \in Nat
          /\ Entry(head).off \in Nat /\ End(head) \in Nat /\ Pad(head) \in Nat
          /\ Entry(g).off \in Nat /\ End(g) \in Nat /\ Pad(g) \in Nat
          /\ Entry(l).off \in Nat /\ End(l) \in Nat /\ End(l) >= Entry(l).off + 8
      BY <1>2, <1>4, <1>6, <2>1, <3>1, CapAssumption DEF TypeOK
    <3>3. CASE Up(l)
      <4>1. Entry(g).off = End(head) /\ Pad(g) = 0 /\ Up(g)
        BY <1>2, <1>4, <2>1, <2>2, <3>1, <3>3 DEF OneWrap, Up
      <4>2. Entry(l).off >= Entry(g).off
        BY <1>4, <2>1, <3>1, <3>3 DEF OneWrap
      <4> QED
        BY <3>1, <3>2, <3>3, <4>1, <4>2
    <3>4. CASE ~Up(l)
      <4>1. Entry(head).off > 0 /\ Pad(head) = 0
        BY <1>2, <1>4, <3>1, <3>4 DEF Up, Bounded
      <4>2. CASE Up(g)
        <5>1. Entry(g).off = End(head) /\ Pad(g) = 0
          BY <1>2, <1>4, <2>1, <2>2, <4>1, <4>2 DEF Up
        <5>2. Entry(l).off < Entry(g).off
          BY <1>2, <1>4, <2>1, <3>1, <3>4, <5>1 DEF Up
        <5> QED
          BY <2>8, <3>1, <3>2, <3>4, <4>1, <5>1, <5>2
      <4>3. CASE ~Up(g)
        <5>1. Entry(g).off = 0 /\ Pad(g) = ReqArenaCap - End(head)
          BY <1>2, <1>4, <2>1, <2>2, <4>3 DEF Up
        <5>2. used' = Pad(g) + wpos
          BY <3>1, <3>2, <3>4, <4>1, <5>1
        <5>3. wpos > 0 /\ wpos \in Nat
          BY <3>1, <3>2
        <5> QED
          BY <3>2, <5>1, <5>2, <5>3
      <4> QED
        BY <4>2, <4>3
    <3> QED
      BY <3>3, <3>4
  <2>11. wpos' = wpos
    BY <1>6, <2>10
  <2>12. Charged'
    <3>1. End(tail - 1)' = End(tail - 1) /\ Entry(head)' = Entry(g) /\ Pad(head)' = Pad(g)
      BY <1>3, <2>1 DEF End, Entry, Pad
    <3>2. tail - 1 \in Live /\ Entry(tail - 1).off \in Nat /\ Entry(g).off \in Nat
      BY <1>2, <1>4, <2>1
    <3> QED
      BY <2>4a, <2>9, <2>10, <2>11, <3>1, <3>2 DEF Charged
  <2>13. head' # tail'
    BY <1>1, <2>1
  <2> QED
    BY <1>7, <2>5, <2>6, <2>7, <2>12, <2>13
<1> QED
  BY <1>8, <1>9

\* What a successful send of either implementation does.
Accepts(r) == PeerArenaOk(Len(r.data)) /\ Enqueue(r)

\* Enqueuing keeps the invariant: the charge admits a payload only where the
\* requests in flight leave room.
LEMMA SendIInv == ASSUME NEW r \in Request PROVE IInv /\ Accepts(r) => IInv'
<1> SUFFICES ASSUME IInv, Accepts(r) PROVE IInv'
  OBVIOUS
<1> USE DEF IInv
<1> DEFINE n == Len(r.data)
           A == Alloc(n)
           off == PlaceOff(n)
           skip == PlaceSkip(n)
           new == [off |-> off, len |-> n, skip |-> skip, slot |-> r.slot, gen |-> r.gen]
<1>1. /\ head \in Nat /\ tail \in Nat /\ head <= tail /\ tail - head < ReqCap
      /\ wpos \in Nat /\ used \in Nat /\ ReqArenaCap \in Nat /\ ReqCap \in Nat
  BY CapAssumption DEF TypeOK, Accepts, Enqueue, QueueFull
<1>2. n \in Nat /\ A \in Nat /\ A >= 8 /\ n <= A /\ A <= n + 8
  BY RequestFacts, AllocFacts
<1>3. /\ tail' = tail + 1 /\ head' = head
      /\ ring' = [ring EXCEPT ![Idx(tail)] = new]
      /\ wpos' = off + A
      /\ used' = (IF ArenaFull(n) THEN 0 ELSE used) + skip
      /\ ArenaFull(n) => head = tail
  BY DEF Accepts, Enqueue, writeArenaLocked, PeerArenaOk
<1>4. PICK t \in Nat : t = tail
  BY <1>1
<1>5. Live' = Live \cup {t} /\ t \notin Live /\ \A i \in Live : i \in Nat /\ head <= i /\ i < t
  BY <1>1, <1>3, <1>4 DEF Live
<1>6. \A i \in Live : Entry(i)' = Entry(i) /\ End(i)' = End(i) /\ Pad(i)' = Pad(i)
  <2> SUFFICES ASSUME NEW i \in Live PROVE Entry(i)' = Entry(i)
    BY DEF End, Pad
  <2>1. i % ReqCap # t % ReqCap
    BY <1>1, <1>4, <1>5, ModUnique, CapAssumption
  <2>2. Idx(i) \in DOMAIN ring
    BY <1>5, IdxInRing DEF TypeOK
  <2> QED
    BY <1>3, <1>4, <2>1, <2>2 DEF Entry, Idx
<1>7. Entry(t)' = new
  BY <1>3, <1>4, IdxInRing DEF TypeOK, Entry
<1>8. Entry(t)'.off = off /\ Entry(t)'.len = n /\ End(t)' = off + A /\ Pad(t)' = skip - A
  BY <1>7 DEF End, Pad
<1>9. \A i \in Live : /\ Entry(i).off \in Nat /\ End(i) \in Nat /\ Pad(i) \in Nat
                      /\ End(i) >= Entry(i).off + 8
  BY EntryFacts DEF End, Pad, Bounded
<1>10. ASSUME off \in Nat
       PROVE  arena' \in [0..(ReqArenaCap - 1) -> Byte]
  <2>1. arena' = [a \in 0..(ReqArenaCap - 1) |->
                    IF a \in off..(off + n - 1) THEN r.data[a - off + 1] ELSE arena[a]]
    BY DEF Accepts, Enqueue, writeArenaLocked, TypeOK
  <2>2. \A k \in 1..n : r.data[k] \in Byte
    BY RequestFacts
  <2> HIDE DEF n, off
  <2>3. \A a \in 0..(ReqArenaCap - 1) :
          (IF a \in off..(off + n - 1) THEN r.data[a - off + 1] ELSE arena[a]) \in Byte
    BY <1>1, <1>2, <1>10, <2>2 DEF TypeOK
  <2> QED
    BY <2>1, <2>3
<1>11. ASSUME off \in Nat, skip \in Nat, used' \in Nat
       PROVE  TypeOK'
  <2>1. ring' \in [0..(ReqCap - 1) -> EntryType]
    <3>1. new \in EntryType
      BY <1>2, <1>11, RequestFacts DEF EntryType
    <3> QED
      BY <1>3, <3>1 DEF TypeOK
  <2>2. /\ head' \in Nat /\ tail' \in Nat /\ head' <= tail' /\ tail' - head' <= ReqCap
        /\ wpos' \in Nat
    BY <1>1, <1>2, <1>3, <1>11
  <2>3. refused' \in Request \cup {NoRequest}
    BY DEF Accepts, Enqueue
  <2> QED
    BY <1>10, <1>11, <2>1, <2>2, <2>3, Zenon DEF TypeOK
<1>12. CASE head = tail
  <2>1. used = 0 /\ wpos = 0
    BY <1>12
  <2>2. off = 0 /\ skip = A /\ wpos' = A /\ used' = A
    BY <1>1, <1>2, <1>3, <2>1 DEF PlaceOff, PlaceSkip, ArenaFull, SkipFor, Wraps
  <2> HIDE DEF n, A, new, off, skip
  <2>3. TypeOK'
    BY <1>2, <1>11, <2>2
  <2>4. Live' = {t} /\ head' = t /\ tail' = t + 1 /\ Pad(t)' = 0
        /\ Entry(t)'.off = 0 /\ End(t)' = A /\ Entry(t)'.len = n
    BY <1>2, <1>3, <1>4, <1>5, <1>8, <1>12, <2>2 DEF Live
  <2>5. Chained' /\ OneWrap' /\ Bounded'
    <3>1. Chained'
      BY <2>4 DEF Chained
    <3>2. Up(t)'
      BY <2>4 DEF Up
    <3>3. OneWrap'
      BY <1>4, <2>4, <3>2 DEF OneWrap
    <3>4. Bounded'
      BY <1>2, <2>4 DEF Bounded
    <3> QED
      BY <3>1, <3>3, <3>4
  <2>6. Charged'
    <3>1. (tail - 1)' = t
      BY <2>4
    <3>2. End(tail - 1)' = A /\ Up(tail - 1)' /\ Pad(head)' = 0 /\ Entry(head)'.off = 0
      BY <2>4, <3>1 DEF End, Up, Pad, Entry
    <3> QED
      BY <1>2, <2>2, <3>2 DEF Charged
  <2>7. head' # tail'
    BY <2>4
  <2> QED
    BY <2>3, <2>5, <2>6, <2>7
<1>13. CASE head # tail
  <2> DEFINE l == t - 1
  <2>1. /\ l \in Live /\ l \in Nat /\ head \in Live
        /\ wpos = End(l)
        /\ Up(l) => used = Pad(head) + wpos - Entry(head).off
        /\ ~Up(l) => used = ReqArenaCap - Entry(head).off + wpos
    BY <1>1, <1>4, <1>13 DEF Live, Charged
  <2>2. /\ used + SkipFor(n) <= ReqArenaCap
        /\ SkipFor(n) = A + (IF wpos + A > ReqArenaCap THEN ReqArenaCap - wpos ELSE 0)
        /\ off = IF wpos + A > ReqArenaCap THEN 0 ELSE wpos
        /\ skip = SkipFor(n)
        /\ used' = used + skip
    BY <1>1, <1>2, <1>3, <1>13 DEF PlaceOff, PlaceSkip, ArenaFull, SkipFor, Wraps
  <2> HIDE DEF n, A, new, off, skip
  <2>3. \A i \in Live : i # l => i < l
    BY <1>4, <1>5
  <2> HIDE DEF l
  <2>4. /\ Entry(head).off \in Nat /\ End(head) \in Nat /\ Pad(head) \in Nat
        /\ Entry(l).off \in Nat /\ End(l) \in Nat /\ End(l) >= Entry(l).off + 8
    BY <1>9, <2>1
  <2>5. Entry(head).off <= ReqArenaCap
    BY <1>1, <1>9, <2>1 DEF Bounded
  <2>6. ~Up(l) => Pad(head) = 0 /\ End(l) <= Entry(head).off
    BY <2>1, <2>4 DEF Up, OneWrap, Bounded
  <2>7. wpos <= ReqArenaCap
    <3>1. SUFFICES ASSUME wpos > ReqArenaCap PROVE FALSE
      BY <1>1
    <3>2. Up(l)
      BY <1>1, <2>1, <2>4, <2>5, <2>6, <3>1
    <3>3. l = head /\ Entry(l).off = 0
      BY <1>1, <1>4, <2>1, <2>4, <3>1 DEF Bounded, l
    <3> QED
      BY <1>1, <1>2, <2>1, <2>2, <2>4, <3>1, <3>2, <3>3
  <2>8. /\ off \in Nat /\ skip \in Nat /\ used' \in Nat
        /\ \/ off = wpos /\ skip = A
           \/ off = 0 /\ skip = A + ReqArenaCap - wpos
        /\ skip > A => off = 0
        /\ off + A <= ReqArenaCap
        /\ off >= Entry(head).off =>
             /\ Up(l) /\ off = wpos
             /\ used' = Pad(head) + off + A - Entry(head).off
        /\ off < Entry(head).off =>
             /\ off + A <= Entry(head).off
             /\ ~Up(l) => off = wpos
             /\ used' = ReqArenaCap - Entry(head).off + off + A
    <3>1. CASE wpos + A <= ReqArenaCap
      <4>1. off = wpos /\ skip = A /\ used' = used + A /\ used + A <= ReqArenaCap
        BY <1>1, <1>2, <2>2, <3>1
      <4>2. Up(l) <=> off >= Entry(head).off
        BY <1>1, <1>2, <2>1, <2>2, <2>4, <2>6, <4>1 DEF Up
      <4> QED
        BY <1>1, <1>2, <2>1, <2>4, <2>6, <3>1, <4>1, <4>2
    <3>2. CASE wpos + A > ReqArenaCap
      <4>1. /\ off = 0 /\ skip = A + ReqArenaCap - wpos /\ used' = used + skip
            /\ used + skip <= ReqArenaCap
        BY <1>1, <1>2, <2>2, <3>2
      <4>2. Up(l) /\ A <= Entry(head).off
        BY <1>1, <1>2, <2>1, <2>4, <2>5, <2>6, <4>1
      <4>3. Pad(head) = 0
        BY <1>2, <2>1, <2>4, <4>2 DEF Bounded
      <4> QED
        BY <1>1, <1>2, <2>1, <2>4, <2>5, <2>7, <4>1, <4>2, <4>3
    <3> QED
      BY <1>1, <1>2, <3>1, <3>2
  <2>9. TypeOK'
    BY <1>10, <1>11, <2>8
  <2>10. Chained'
    <3> SUFFICES ASSUME NEW i \in Live', i + 1 \in Live'
                 PROVE  \/ Entry(i + 1)'.off = End(i)' /\ Pad(i + 1)' = 0
                        \/ Entry(i + 1)'.off = 0 /\ Pad(i + 1)' = ReqArenaCap - End(i)'
      BY DEF Chained
    <3>1. i \in Live /\ (i + 1 \in Live \/ (i = l /\ i + 1 = t))
      BY <1>4, <1>5 DEF l
    <3>2. CASE i + 1 \in Live
      BY <1>6, <3>1, <3>2 DEF Chained
    <3>3. CASE i = l /\ i + 1 = t
      <4>1. Entry(i + 1)'.off = off /\ Pad(i + 1)' = skip - A /\ End(i)' = wpos
        BY <1>6, <1>8, <2>1, <3>1, <3>3
      <4> QED
        BY <1>1, <1>2, <2>8, <4>1
    <3> QED
      BY <3>1, <3>2, <3>3
  <2>11. \A i \in Live : Up(i)' <=> Up(i)
    BY <1>3, <1>6, <2>1 DEF Up, Entry
  <2>12. Up(t)' <=> off >= Entry(head).off
    BY <1>3, <1>6, <1>8, <2>1 DEF Up, Entry
  <2>13. OneWrap'
    <3>1. \A i \in Live : Up(l) => Up(i) /\ End(i) <= wpos
      BY <1>9, <2>1, <2>3, <2>4 DEF OneWrap
    <3>2. \A i \in Live : ~Up(i) => ~Up(l) /\ End(i) <= wpos
      BY <1>9, <2>1, <2>3, <2>4 DEF OneWrap
    <3>3. \A i \in Live : i # t /\ ~(t < i)
      BY <1>5
    <3>4. Entry(head)' = Entry(head)
      BY <1>3, <1>6, <2>1 DEF Entry
    <3>5. \A i, j \in Live' : i < j /\ Up(j)' => Up(i)' /\ End(i)' <= Entry(j)'.off
      BY <1>5, <1>6, <1>8, <2>1, <2>8, <2>11, <2>12, <3>1, <3>3 DEF OneWrap
    <3>6. \A i, j \in Live' : i < j /\ ~Up(i)' => ~Up(j)' /\ End(i)' <= Entry(j)'.off
      BY <1>5, <1>6, <1>8, <2>1, <2>4, <2>8, <2>11, <2>12, <3>2, <3>3 DEF OneWrap
    <3>7. \A i \in Live' : ~Up(i)' => End(i)' <= Entry(head)'.off
      BY <1>5, <1>6, <1>8, <2>4, <2>8, <2>11, <2>12, <3>4 DEF OneWrap
    <3> QED
      BY <3>5, <3>6, <3>7 DEF OneWrap
  <2>14. Bounded'
    BY <1>1, <1>2, <1>4, <1>5, <1>6, <1>8, <1>9, <2>1, <2>7, <2>8 DEF Bounded, l
  <2>15. Charged'
    <3>1. /\ End(tail - 1)' = off + A /\ (Up(tail - 1)' <=> off >= Entry(head).off)
          /\ Pad(head)' = Pad(head) /\ Entry(head)' = Entry(head)
      BY <1>1, <1>3, <1>4, <1>6, <1>8, <2>1, <2>12 DEF End, Up, Pad, Entry
    <3>2. /\ off >= Entry(head).off => used' = Pad(head) + wpos' - Entry(head).off
          /\ ~(off >= Entry(head).off) => used' = ReqArenaCap - Entry(head).off + wpos'
      BY <1>1, <1>2, <1>3, <2>4, <2>8
    <3> QED
      BY <1>3, <3>1, <3>2 DEF Charged
  <2> QED
    BY <1>1, <1>3, <2>9, <2>10, <2>13, <2>14, <2>15
<1> QED
  BY <1>12, <1>13

\* Under the invariant the requests in flight share no byte.
LEMMA Disjoint == IInv => RegionsDisjoint
<1> SUFFICES ASSUME IInv PROVE RegionsDisjoint
  OBVIOUS
<1>1. \A i \in Live : /\ i \in Nat /\ head <= i /\ head \in Live
                      /\ Entry(i).off \in Nat /\ Entry(i).len \in Nat
                      /\ End(i) \in Nat
                      /\ Entry(i).off + Entry(i).len <= End(i)
  BY EntryFacts DEF IInv, TypeOK, Live, End
<1>2. \A i \in Live : Entry(i).len <= ReqArenaCap => Entry(i).off + Entry(i).len <= ReqArenaCap
  BY <1>1, CapAssumption DEF IInv, Bounded
<1>3. \A i, j \in Live : i < j => End(i) <= Entry(j).off \/ End(j) <= Entry(i).off
  BY <1>1 DEF IInv, OneWrap, Up
<1> QED
  BY <1>1, <1>2, <1>3 DEF RegionsDisjoint

----------------------------------------------------------------------------
(* Both implementations *)

\* Calls that leave the queue alone keep the invariant.
LEMMA RefusedIInv ==
  ASSUME NEW r \in Request, IInv, refused' = r,
         UNCHANGED <<head, tail, ring, wpos, used, arena>>
  PROVE  IInv'
  BY ResultOnly

\* Every call but the clear keeps the invariant, Go's and C's.
LEMMA StepIInv == IInv /\ [PeerNext]_<<vars, cleared>> /\ ~ClearQueue => IInv'
<1> SUFFICES ASSUME IInv, [PeerNext]_<<vars, cleared>>, ~ClearQueue PROVE IInv'
  OBVIOUS
<1>1. refused \in Request \cup {NoRequest}
  BY DEF IInv, TypeOK
<1>2. CASE Dequeue
  BY <1>2, RecvIInv
<1>3. CASE RecvEmpty
  BY <1>1, <1>3, ResultOnly DEF RecvEmpty
<1>4. ASSUME NEW r \in Request, Send(r) \/ SendFull(r) PROVE IInv'
  <2>1. Send(r) => Accepts(r)
    BY DEF Send, Accepts, ArenaOk, PeerArenaOk
  <2>2. SendFull(r) => IInv'
    BY RefusedIInv DEF SendFull
  <2> QED
    BY <1>4, <2>1, <2>2, SendIInv
<1>5. ASSUME NEW r \in PeerRequest, reqrep_send_locked(r) PROVE IInv'
  BY <1>5, PeerArenaAssumption, SendIInv, RefusedIInv DEF reqrep_send_locked, Accepts
<1>6. CASE UNCHANGED <<vars, cleared>>
  BY <1>1, <1>6, ResultOnly DEF vars
<1> QED
  BY <1>2, <1>3, <1>4, <1>5, <1>6 DEF PeerNext, Next, Recv, reqrep_recv_locked

\* After reqrep_clear the queue is empty, whatever was in it.
LEMMA ClearIInv == IInv /\ ClearQueue => IInv'
<1> SUFFICES ASSUME IInv, ClearQueue PROVE IInv'
  OBVIOUS
<1>1. TypeOK'
  BY CapAssumption DEF IInv, TypeOK, ClearQueue
<1>2. Live' = {} /\ head' = tail' /\ used' = 0 /\ wpos' = 0
  BY DEF Live, ClearQueue
<1> QED
  BY <1>1, <1>2 DEF IInv, Chained, OneWrap, Bounded, Charged

----------------------------------------------------------------------------
(* Theorems *)

\* sendLocked, recvLocked, their C counterparts and reqrep_clear keep the
\* allocator's invariant.
THEOREM Invariance == PeerSpec => []IInv
<1>1. PeerInit => IInv
  BY InitIInv DEF PeerInit
<1>2. IInv /\ [PeerNext]_<<vars, cleared>> => IInv'
  BY StepIInv, ClearIInv
<1> QED
  BY <1>1, <1>2, PTL DEF PeerSpec

\* The words of the queue header stay in range: head <= tail <= head + reqCap.
THEOREM TypeCorrect == PeerSpec => []TypeOK
  BY Invariance, PTL DEF IInv

\* writeArenaLocked never places a payload over a request that is still queued,
\* and a payload no longer than the arena never outside it, whatever the ring, the
\* arena and the lengths, those of C's payloads longer than the arena included.
THEOREM NoOverwrite == PeerSpec => []RegionsDisjoint
  BY Invariance, Disjoint, PTL

\* What releaseArenaLocked relies on to rewind the arena: used = 0 exactly when
\* every request has been received, so rewinding destroys nothing and a drained
\* queue has its whole arena back.
THEOREM Reclaimed == PeerSpec => []EmptyMeansReclaimed
<1>1. IInv => EmptyMeansReclaimed
  <2> SUFFICES ASSUME IInv, head # tail PROVE used # 0
    BY DEF IInv, EmptyMeansReclaimed
  <2> DEFINE l == tail - 1
  <2>1. head \in Live /\ l \in Live
    BY DEF IInv, TypeOK, Live
  <2>2. /\ wpos = End(l)
        /\ Up(l) => used = Pad(head) + wpos - Entry(head).off
        /\ ~Up(l) => used = ReqArenaCap - Entry(head).off + wpos
    BY DEF IInv, Charged
  <2> HIDE DEF l
  <2>3. /\ Entry(head).off \in Nat /\ Entry(l).off \in Nat /\ End(l) \in Nat
        /\ End(l) >= Entry(l).off + 8 /\ Pad(head) \in Nat
    BY <2>1, EntryFacts DEF IInv, End, Pad, Bounded
  <2>4. Entry(head).off <= ReqArenaCap
    BY <2>1, <2>3, EntryFacts, CapAssumption DEF IInv, Bounded, End
  <2> QED
    BY <2>2, <2>3, <2>4, CapAssumption DEF Up
<1> QED
  BY Invariance, <1>1, PTL

----------------------------------------------------------------------------
(* Payloads that fit *)

\* What enqueuing does to the requests in flight.
LEMMA Enqueued ==
  ASSUME IInv, NEW r, Enqueue(r), NEW t \in Nat, t = tail
  PROVE  /\ Live' = Live \cup {t}
         /\ \A i \in Live : i \in Nat /\ head <= i /\ i < t /\ Entry(i)' = Entry(i)
         /\ Entry(t)' = [off |-> PlaceOff(Len(r.data)), len |-> Len(r.data),
                         skip |-> PlaceSkip(Len(r.data)), slot |-> r.slot, gen |-> r.gen]
<1>1. /\ head \in Nat /\ head <= t /\ t - head < ReqCap /\ ReqCap \in Nat \ {0}
      /\ head' = head /\ tail' = t + 1 /\ DOMAIN ring = 0..(ReqCap - 1)
  BY CapAssumption DEF IInv, TypeOK, Enqueue, QueueFull
<1>2. Live' = Live \cup {t} /\ \A i \in Live : i \in Nat /\ head <= i /\ i < t /\ t - i < ReqCap
  <2>1. Live' = head..t /\ Live = head..(t - 1)
    BY <1>1 DEF Live
  <2> QED
    BY <1>1, <2>1
<1>3. ring' = [ring EXCEPT ![Idx(t)] =
                 [off |-> PlaceOff(Len(r.data)), len |-> Len(r.data),
                  skip |-> PlaceSkip(Len(r.data)), slot |-> r.slot, gen |-> r.gen]]
  BY DEF Enqueue
<1>4. ASSUME NEW i \in Live PROVE Entry(i)' = Entry(i)
  <2>1. i % ReqCap # t % ReqCap
    BY <1>1, <1>2, ModUnique
  <2> QED
    BY <1>1, <1>2, <1>3, <2>1, IdxInRing DEF Entry, Idx
<1> QED
  BY <1>1, <1>2, <1>3, <1>4, IdxInRing DEF Entry

\* Unless C offers a payload longer than the arena none is ever in flight.
LEMMA FittingStep ==
  PeersFit /\ IInv /\ Fitting /\ [PeerNext]_<<vars, cleared>> => Fitting'
<1> SUFFICES ASSUME PeersFit, IInv, Fitting, [PeerNext]_<<vars, cleared>> PROVE Fitting'
  OBVIOUS
<1>1. head \in Nat /\ tail \in Nat
  BY DEF IInv, TypeOK
<1>2. ASSUME NEW r, Enqueue(r), Len(r.data) <= ReqArenaCap PROVE Fitting'
  <2>1. PICK t \in Nat : t = tail
    BY <1>1
  <2> QED
    BY <1>2, <2>1, Enqueued DEF Fitting
<1>3. ASSUME Live' \subseteq Live, ring' = ring PROVE Fitting'
  BY <1>3 DEF Fitting, Entry
<1>4. CASE Dequeue
  BY <1>1, <1>3, <1>4 DEF Dequeue, Live
<1>5. CASE RecvEmpty
  BY <1>3, <1>5 DEF RecvEmpty, Live
<1>6. ASSUME NEW r \in Request, Send(r) \/ SendFull(r) PROVE Fitting'
  BY <1>2, <1>3, <1>6 DEF Send, SendFull, ArenaOk, Live
<1>7. ASSUME NEW r \in PeerRequest, reqrep_send_locked(r) PROVE Fitting'
  BY <1>2, <1>3, <1>7 DEF reqrep_send_locked, PeersFit, Live
<1>8. CASE ClearQueue
  BY <1>3, <1>8 DEF ClearQueue, Live
<1>9. CASE UNCHANGED <<vars, cleared>>
  BY <1>3, <1>9 DEF vars, Live
<1> QED
  BY <1>4, <1>5, <1>6, <1>7, <1>8, <1>9 DEF PeerNext, Next, Recv, reqrep_recv_locked

\* writeArenaLocked's comparison with the size of the arena keeps every payload of a
\* Go client inside it, and so does C's allocation if C clients offer nothing longer.
THEOREM PayloadsInside == ASSUME PeersFit PROVE PeerSpec => []Fitting
<1>1. PeerInit => Fitting
  BY DEF PeerInit, Init, Fitting, Live
<1>2. IInv /\ Fitting /\ [PeerNext]_<<vars, cleared>> => Fitting'
  BY FittingStep
<1> QED
  BY <1>1, <1>2, Invariance, PTL DEF PeerSpec

----------------------------------------------------------------------------
(* Refinement *)

\* The requests in flight, with their payloads read back from the arena.
Queue == [k \in 1..(tail - head) |-> RequestOf(head + k - 1)]

\* What a request can be once its payload was read back.
Whole == [data : Seq(Byte), slot : 0..(RespSlots - 1), gen : Nat]

\* A request in flight reads back as some payload with its id.
LEMMA RequestOfType ==
  ASSUME IInv, Fitting, NEW i \in Live
  PROVE  RequestOf(i) \in Whole
<1> DEFINE off == Entry(i).off
           n == Entry(i).len
<1>1. TypeOK /\ off \in Nat /\ n \in Nat /\ off + n <= ReqArenaCap /\ Entry(i) \in EntryType
  BY EntryFacts, Disjoint DEF IInv, RegionsDisjoint, Fitting
<1> HIDE DEF off, n
<1>2. \A k \in 1..n : arena[off + k - 1] \in Byte
  BY <1>1, CapAssumption DEF TypeOK
<1>3. readArena(off, n) \in [1..n -> Byte]
  BY <1>2 DEF readArena
<1>4. readArena(off, n) \in Seq(Byte)
  BY <1>1, <1>3
<1> QED
  BY <1>1, <1>4 DEF RequestOf, Whole, EntryType, off, n

\* The queue as a sequence.
QueueShape ==
  /\ Queue \in Seq(Whole) /\ Len(Queue) = tail - head /\ tail - head \in Nat
  /\ \A i \in Live : i - head + 1 \in 1..(tail - head) /\ Queue[i - head + 1] = RequestOf(i)

LEMMA QueueIs == IInv /\ Fitting => QueueShape
<1> SUFFICES ASSUME IInv, Fitting PROVE QueueShape
  OBVIOUS
<1>1. head \in Nat /\ tail \in Nat /\ tail - head \in Nat
  BY DEF IInv, TypeOK
<1>2. \A k \in 1..(tail - head) : head + k - 1 \in Live
  BY <1>1 DEF Live
<1>3. Queue \in [1..(tail - head) -> Whole]
  BY <1>2, RequestOfType DEF Queue
<1>4. Queue \in Seq(Whole) /\ Len(Queue) = tail - head
  BY <1>1, <1>3
<1>5. ASSUME NEW i \in Live
      PROVE  i - head + 1 \in 1..(tail - head) /\ Queue[i - head + 1] = RequestOf(i)
  <2>1. i - head + 1 \in 1..(tail - head) /\ head + (i - head + 1) - 1 = i
    BY <1>1 DEF Live
  <2> QED
    BY <2>1 DEF Queue
<1> QED
  BY <1>1, <1>4, <1>5 DEF QueueShape

\* The oldest request is the first, and there is one unless the counters meet.
LEMMA QueueHead ==
  ASSUME IInv, Fitting, head # tail
  PROVE  Queue # <<>> /\ Head(Queue) = RequestOf(head) /\ head \in Live
<1>1. head \in Nat /\ tail \in Nat /\ tail - head \in Nat \ {0} /\ QueueShape
  BY QueueIs DEF IInv, TypeOK
<1>2. head - head + 1 = 1 /\ head \in Live
  BY <1>1 DEF Live
<1>3. Queue[1] = RequestOf(head)
  BY <1>1, <1>2 DEF QueueShape
<1> QED
  BY <1>1, <1>2, <1>3 DEF QueueShape

\* A sequence of requests with counters that meet is the empty one.
LEMMA QueueEmpty == head \in Nat /\ head = tail => Queue = <<>>
<1> SUFFICES ASSUME head \in Nat, head = tail PROVE Queue = <<>>
  OBVIOUS
<1>1. Queue \in [1..0 -> {}]
  BY DEF Queue
<1> QED
  BY <1>1

\* recvLocked moves the counter only: the others read as before.
LEMMA RecvRefines ==
  ASSUME IInv, IInv', Fitting, Fitting', Dequeue
  PROVE  BQ!Recv
<1>1. head \in Nat /\ tail \in Nat /\ head # tail /\ QueueShape /\ QueueShape'
  <2>1. QueueShape /\ QueueShape'
    BY QueueIs, PTL
  <2> QED
    BY <2>1 DEF IInv, TypeOK, Dequeue
<1>2. head' = head + 1 /\ tail' = tail /\ UNCHANGED <<ring, arena, refused>> /\ got' = RequestOf(head)
  BY DEF Dequeue
<1>3. \A i : RequestOf(i)' = RequestOf(i)
  BY <1>2 DEF RequestOf, readArena, Entry
<1>4. Queue # <<>> /\ Head(Queue) = RequestOf(head)
  BY <1>1, QueueHead
<1>5. Queue' = Tail(Queue)
  <2>1. /\ Tail(Queue) \in Seq(Whole) /\ Len(Tail(Queue)) = tail - head - 1
        /\ \A k \in 1..(tail - head - 1) : Tail(Queue)[k] = Queue[k + 1]
    BY <1>1, <1>4, HeadTailProperties DEF QueueShape
  <2>2. Queue' \in Seq(Whole) /\ Len(Queue') = tail - head - 1
    BY <1>1, <1>2 DEF QueueShape
  <2>3. ASSUME NEW k \in 1..(tail - head - 1) PROVE Queue'[k] = Queue[k + 1]
    <3>1. PICK i \in Nat : i = head + k
      BY <1>1
    <3>2. i \in Live /\ i \in Live' /\ i - head + 1 = k + 1 /\ i - head' + 1 = k
      BY <1>1, <1>2, <3>1 DEF Live
    <3>3. Queue'[k] = RequestOf(i)'
      BY <1>1, <3>2 DEF QueueShape
    <3>4. Queue[k + 1] = RequestOf(i)
      BY <1>1, <3>2 DEF QueueShape
    <3> QED
      BY <1>3, <3>3, <3>4
  <2> QED
    BY <2>1, <2>2, <2>3, SeqEqual
<1> QED
  BY <1>2, <1>4, <1>5 DEF BQ!Recv, Queue

\* sendLocked appends what it was given: the payload reads back from the arena as it
\* was, and the writing of it leaves those in flight alone.
LEMMA SendRefines ==
  ASSUME IInv, IInv', Fitting, Fitting', NEW r \in Request, Enqueue(r)
  PROVE  BQ!Send(r)
<1> DEFINE n == Len(r.data)
           off == PlaceOff(n)
           new == [off |-> off, len |-> n, skip |-> PlaceSkip(n), slot |-> r.slot, gen |-> r.gen]
<1>1. /\ head \in Nat /\ tail \in Nat /\ tail - head < ReqCap /\ ReqCap \in Nat \ {0}
      /\ QueueShape /\ QueueShape' /\ TypeOK /\ TypeOK' /\ RegionsDisjoint'
  <2>1. QueueShape /\ QueueShape' /\ RegionsDisjoint'
    BY QueueIs, Disjoint, PTL
  <2> QED
    BY <2>1, CapAssumption DEF IInv, TypeOK, Enqueue, QueueFull
<1>2. r.data \in Seq(Byte) /\ n \in Nat /\ r.slot \in 0..(RespSlots - 1) /\ r.gen \in Nat
  BY RequestFacts
<1>3. /\ tail' = tail + 1 /\ head' = head /\ refused' = NoRequest /\ got' = got
      /\ ring' = [ring EXCEPT ![Idx(tail)] = new]
      /\ arena' = [a \in DOMAIN arena |->
                     IF a \in off..(off + n - 1) THEN r.data[a - off + 1] ELSE arena[a]]
  BY DEF Enqueue, writeArenaLocked
<1>3a. PICK t \in Nat : t = tail
  BY <1>1
<1>4. /\ Live' = Live \cup {t}
      /\ \A i \in Live : i \in Nat /\ head <= i /\ i < t /\ Entry(i)' = Entry(i)
      /\ Entry(t)' = new
  BY <1>3a, Enqueued
<1>5. n <= ReqArenaCap
  BY <1>4 DEF Fitting
<1> HIDE DEF n, off, new
<1>7. off \in Nat /\ off + n <= ReqArenaCap /\ Entry(t)'.off = off /\ Entry(t)'.len = n
  <2>1. Entry(t)'.off + Entry(t)'.len <= ReqArenaCap
    BY <1>1, <1>4 DEF RegionsDisjoint, Fitting
  <2>2. Entry(t)' \in EntryType
    BY <1>1, IdxInRing DEF TypeOK, Entry
  <2> QED
    BY <1>4, <2>1, <2>2 DEF EntryType, new
<1>8. \A a \in 0..(ReqArenaCap - 1) :
        arena'[a] = IF a \in off..(off + n - 1) THEN r.data[a - off + 1] ELSE arena[a]
  BY <1>1, <1>3 DEF TypeOK
<1>9. RequestOf(t)' = r
  <2> DEFINE read == [k \in 1..n |-> arena'[off + k - 1]]
  <2>1. ASSUME NEW k \in 1..n PROVE arena'[off + k - 1] = r.data[k]
    <3>1. off + k - 1 \in 0..(ReqArenaCap - 1) /\ off + k - 1 \in off..(off + n - 1)
          /\ (off + k - 1) - off + 1 = k
      BY <1>2, <1>7, CapAssumption
    <3> QED
      BY <1>8, <3>1
  <2>2. r.data \in [1..n -> Byte]
    BY <1>2 DEF n
  <2>3. read = r.data
    BY <2>1, <2>2
  <2>4. r = [data |-> r.data, slot |-> r.slot, gen |-> r.gen]
    BY RequestAssumption
  <2>5. RequestOf(t)' = [data |-> read, slot |-> r.slot, gen |-> r.gen]
    BY <1>4, <1>7 DEF RequestOf, readArena, new
  <2> QED
    BY <2>3, <2>4, <2>5
<1>10. ASSUME NEW i \in Live PROVE RequestOf(i)' = RequestOf(i)
  <2> DEFINE o == Entry(i).off
             l == Entry(i).len
  <2>1. o \in Nat /\ l \in Nat /\ Entry(i)' = Entry(i)
    BY <1>1, <1>4, EntryFacts
  <2>2. o + l <= ReqArenaCap /\ (o + l <= off \/ off + n <= o)
    <3>1. /\ Entry(i)'.off + Entry(i)'.len <= ReqArenaCap
          /\ \/ Entry(i)'.off + Entry(i)'.len <= Entry(t)'.off
             \/ Entry(t)'.off + Entry(t)'.len <= Entry(i)'.off
      BY <1>1, <1>4 DEF RegionsDisjoint, Fitting
    <3> QED
      BY <1>7, <2>1, <3>1
  <2>3. ASSUME NEW m \in 1..l PROVE arena'[o + m - 1] = arena[o + m - 1]
    <3> HIDE DEF o, l
    <3>1. o + m - 1 \in 0..(ReqArenaCap - 1) /\ o + m - 1 \notin off..(off + n - 1)
      BY <1>2, <1>7, <2>1, <2>2, CapAssumption
    <3> QED
      BY <1>8, <3>1
  <2> QED
    BY <2>1, <2>3 DEF RequestOf, readArena
<1>11. Queue' = Append(Queue, r)
  <2>1. r \in Whole
    BY RequestAssumption DEF Whole
  <2>2. /\ Queue \in Seq(Whole) /\ Len(Queue) = tail - head /\ tail - head \in Nat
        /\ Queue' \in Seq(Whole) /\ Len(Queue') = tail - head + 1
    BY <1>1, <1>3 DEF QueueShape
  <2>3. /\ Append(Queue, r) \in Seq(Whole) /\ Len(Append(Queue, r)) = tail - head + 1
        /\ \A k \in 1..(tail - head) : Append(Queue, r)[k] = Queue[k]
        /\ Append(Queue, r)[tail - head + 1] = r
    BY <2>1, <2>2, AppendProperties
  <2>4. \A k \in 1..Len(Queue') : k \in 1..(tail - head) \/ k = tail - head + 1
    BY <2>2
  <2>5. Queue'[tail - head + 1] = r
    <3>1. t \in Live' /\ t - head' + 1 = tail - head + 1
      BY <1>1, <1>3, <1>4, <1>3a
    <3> QED
      BY <1>1, <1>9, <3>1 DEF QueueShape
  <2>6. ASSUME NEW k \in 1..(tail - head) PROVE Queue'[k] = Queue[k]
    <3>1. PICK i \in Live : i = head + k - 1
      BY <1>1 DEF Live
    <3>2. i \in Live' /\ i - head' + 1 = k /\ i - head + 1 = k
      BY <1>1, <1>3, <1>4, <3>1
    <3>3. Queue'[k] = RequestOf(i)'
      BY <1>1, <3>2 DEF QueueShape
    <3>4. Queue[k] = RequestOf(i)
      BY <1>1, <3>2 DEF QueueShape
    <3> QED
      BY <1>10, <3>3, <3>4
  <2>7. \A k \in 1..Len(Queue') : Queue'[k] = Append(Queue, r)[k]
    BY <2>3, <2>4, <2>5, <2>6
  <2> QED
    BY <2>2, <2>3, <2>7, SeqEqual
<1>12. Len(Queue) < ReqCap /\ Len(r.data) <= ReqArenaCap
  BY <1>1, <1>5 DEF QueueShape, n
<1> QED
  BY <1>3, <1>11, <1>12, Zenon DEF BQ!Send, Queue

\* A step of either implementation is a step of the FIFO, or a clear of it.
LEMMA QueueStep ==
  IInv /\ IInv' /\ Fitting /\ Fitting' /\ [PeerNext]_<<vars, cleared>>
    => [BQ!Next \/ (head' = 0 /\ tail' = 0 /\ BQ!Clear)]_(BQ!vars)
<1> SUFFICES ASSUME IInv, IInv', Fitting, Fitting', [PeerNext]_<<vars, cleared>>
             PROVE  [BQ!Next \/ (head' = 0 /\ tail' = 0 /\ BQ!Clear)]_(BQ!vars)
  OBVIOUS
<1>1. head \in Nat /\ tail \in Nat /\ head <= tail /\ QueueShape
  BY QueueIs DEF IInv, TypeOK
<1>2. \A i : UNCHANGED <<ring, arena>> => RequestOf(i)' = RequestOf(i)
  BY DEF RequestOf, readArena, Entry
<1>3. ASSUME UNCHANGED <<head, tail, ring, arena>> PROVE Queue' = Queue
  BY <1>3 DEF Queue, RequestOf, readArena, Entry
<1>4. CASE Dequeue
  BY <1>4, RecvRefines DEF BQ!Next
<1>5. CASE RecvEmpty
  <2>1. Queue = <<>> /\ Queue' = Queue
    BY <1>1, <1>3, <1>5, QueueEmpty DEF RecvEmpty
  <2>2. BQ!RecvEmpty
    BY <1>5, <2>1 DEF RecvEmpty, BQ!RecvEmpty, Queue
  <2> QED
    BY <2>2 DEF BQ!Next
<1>6. ASSUME NEW r \in Request, Enqueue(r) PROVE BQ!Next
  BY <1>6, SendRefines DEF BQ!Next
<1>7. ASSUME NEW r \in Request, refused' = r, UNCHANGED <<head, tail, ring, wpos, used, arena, got>>,
             QueueFull \/ ~ArenaOk(Len(r.data))
      PROVE  BQ!Next
  <2>1. Len(r.data) \in Nat /\ ReqArenaCap \in Nat /\ ReqCap \in Nat \ {0}
    BY RequestFacts, CapAssumption
  <2>2. head # tail \/ Len(r.data) > ReqArenaCap
    BY <1>1, <1>7, <2>1 DEF QueueFull, ArenaOk
  <2>3. Queue # <<>> \/ Len(r.data) > ReqArenaCap
    BY <2>2, QueueHead
  <2>4. Queue' = Queue
    BY <1>3, <1>7
  <2>5. BQ!Refuse(r)
    BY <1>7, <2>3, <2>4 DEF BQ!Refuse, Queue
  <2> QED
    BY <2>5 DEF BQ!Next
<1>8. CASE ClearQueue
  <2>1. head' = 0 /\ tail' = 0 /\ refused' = refused /\ got' = got
    BY <1>8 DEF ClearQueue
  <2>2. (head \in Nat /\ head = tail)' => (Queue = <<>>)'
    BY QueueEmpty, PTL
  <2>3. Queue' = <<>>
    BY <2>1, <2>2
  <2> QED
    BY <2>1, <2>3 DEF BQ!Clear, Queue
<1>9. CASE UNCHANGED <<vars, cleared>>
  <2>1. Queue' = Queue /\ refused' = refused /\ got' = got
    BY <1>3, <1>9 DEF vars
  <2> QED
    BY <2>1 DEF BQ!vars, Queue
<1>10. ASSUME NEW r \in Request, Send(r) \/ SendFull(r) PROVE BQ!Next
  BY <1>6, <1>7, <1>10 DEF Send, SendFull
<1>11. ASSUME NEW r \in PeerRequest, reqrep_send_locked(r) PROVE BQ!Next
  <2>1. r \in Request /\ (~PeerArenaOk(Len(r.data)) => ~ArenaOk(Len(r.data)))
    BY PeerArenaAssumption DEF PeerArenaOk, ArenaOk
  <2> QED
    BY <1>6, <1>7, <1>11, <2>1 DEF reqrep_send_locked
<1> QED
  BY <1>4, <1>5, <1>8, <1>9, <1>10, <1>11 DEF PeerNext, Next, Recv, reqrep_recv_locked

\* The ring, its counters and the arena together are a FIFO: sendLocked appends the
\* whole request, recvLocked hands the oldest out as it was sent, a refusal has its
\* reason, and reqrep_clear is the only step that drops what was sent.  A C payload
\* longer than the arena is the exception: accepted, and not read back as sent.
THEOREM Refinement == ASSUME PeersFit PROVE PeerSpec => RefinesClearable
<1>1. PeerInit => BQ!Init
  <2> SUFFICES ASSUME PeerInit PROVE BQ!Init
    OBVIOUS
  <2>1. Queue = <<>>
    BY QueueEmpty DEF PeerInit, Init
  <2> QED
    BY <2>1 DEF PeerInit, Init, BQ!Init, Queue
<1> QED
  BY <1>1, QueueStep, Invariance, PayloadsInside, PTL DEF PeerSpec, RefinesClearable
=============================================================================
