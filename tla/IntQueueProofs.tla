--------------------------- MODULE IntQueueProofs ---------------------------
(***************************************************************************)
(* The lock-free queue of an integer segment, for any number of producers  *)
(* and consumers, killed anywhere, and for every size of the ring: its     *)
(* sequences give every place to one thread at a time, and it implements   *)
(* RingQueue.                                                              *)
(***************************************************************************)
EXTENDS IntQueue, FiniteSetTheorems, SequenceTheorems, TLAPS

----------------------------------------------------------------------------
(* Arithmetic *)

\* Less than a lap apart, different places.
LEMMA PlacesDiffer ==
  ASSUME NEW a \in Int, NEW b \in Int, a < b, b - a < Cap
  PROVE  At(a) # At(b)
<1> DEFINE k == a \div Cap
           l == b \div Cap
<1>1. Cap \in Nat \ {0}
  BY RingAssumption
<1>2. k \in Int /\ l \in Int
  BY <1>1
<1>3. /\ a = Cap * k + At(a) /\ At(a) \in Int
      /\ b = Cap * l + At(b) /\ At(b) \in Int
  BY <1>1 DEF At
<1> HIDE DEF k, l
<1>4. SUFFICES ASSUME At(a) = At(b) PROVE FALSE
  OBVIOUS
<1>5. b - a = Cap * (l - k)
  BY <1>1, <1>2, <1>3, <1>4
<1>6. (l - k >= 1 => Cap * (l - k) >= Cap) /\ (l - k <= 0 => Cap * (l - k) <= 0)
  BY <1>1, <1>2
<1> QED
  BY <1>1, <1>2, <1>5, <1>6

\* Whole laps lead back to the place.
LEMMA Laps ==
  ASSUME NEW a \in Int, NEW k \in Int
  PROVE  At(a + Cap * k) = At(a)
<1> DEFINE m == a \div Cap
           b == a + Cap * k
           l == b \div Cap
<1>1. Cap \in Nat \ {0}
  BY RingAssumption
<1>2. m \in Int /\ Cap * k \in Int /\ b \in Int
  BY <1>1
<1>3. l \in Int /\ At(a) \in 0..Cap - 1 /\ At(b) \in 0..Cap - 1
      /\ a = Cap * m + At(a) /\ b = Cap * l + At(b)
  BY <1>1, <1>2 DEF At
<1>4. Cap * (m + k - l) = At(b) - At(a)
  <2>1. m \in Int
    BY <1>1
  <2>2. b = a + Cap * k
    OBVIOUS
  <2> HIDE DEF l, m, b
  <2>3. Cap * (m + k - l) = Cap * m + Cap * k - Cap * l
    BY <1>1, <1>3, <2>1
  <2>4. Cap * m \in Int /\ Cap * l \in Int
    BY <1>1, <1>3, <2>1
  <2> QED
    BY <1>2, <1>3, <2>2, <2>3, <2>4
<1>5. \A n \in Int : (n >= 1 => Cap * n >= Cap) /\ (n <= -1 => Cap * n <= -Cap)
  BY <1>1
<1>6. m + k - l = 0
  <2> DEFINE n == m + k - l
  <2>1. n \in Int
    BY <1>1, <1>3
  <2>2. Cap * n = At(b) - At(a)
    BY <1>4
  <2> HIDE DEF n, l, m, b
  <2>3. n = 0
    BY <1>1, <1>3, <1>5, <2>1, <2>2
  <2> QED
    BY <2>3 DEF n
<1>7. At(b) - At(a) = 0
  BY <1>1, <1>4, <1>6
<1> QED
  BY <1>3, <1>7

\* The place of a position one lap on, and of the last position that had it.
LEMMA NextLap ==
  ASSUME NEW a \in Int
  PROVE  At(a + Cap) = At(a) /\ At(a - Cap) = At(a)
<1>1. Cap \in Int
  BY RingAssumption
<1>2. a + Cap * 1 = a + Cap /\ a + Cap * (-1) = a - Cap
  BY <1>1
<1> QED
  BY <1>2, Laps

\* Every position behind the tail has a successor at its place among the last Cap.
LEMMA LastAtPlace ==
  ASSUME NEW a \in Int, NEW t \in Int, a < t
  PROVE  \E b \in t - Cap..t - 1 : At(b) = At(a) /\ b >= a
<1> DEFINE n == t - 1 - a
           k == n \div Cap
<1>1. Cap \in Nat \ {0} /\ n \in Nat
  BY RingAssumption
<1>2. k \in Nat /\ Cap * k <= n /\ n < Cap * k + Cap /\ Cap * k \in Nat
  BY <1>1
<1> HIDE DEF k
<1> DEFINE b == a + Cap * k
<1>3. At(b) = At(a)
  BY <1>2, Laps
<1>4. b \in t - Cap..t - 1 /\ b >= a
  BY <1>1, <1>2
<1> QED
  BY <1>3, <1>4

\* A position has a place.
LEMMA AtInRing ==
  ASSUME NEW q \in Int
  PROVE  At(q) \in 0..Cap - 1
  BY RingAssumption DEF At

----------------------------------------------------------------------------
(* Types *)

Labels == {"idle", "seq", "cas", "reload", "value", "route", "publish"}

\* The thread alone moves, along the labels of its call.
LEMMA GotoTypes ==
  ASSUME TypeOK, NEW t \in Thread, NEW from, NEW to \in Labels, Goto(t, from, to)
  PROVE  /\ pc' \in [Thread -> Labels] /\ pc'[t] = to /\ pc[t] = from
         /\ \A u \in Thread \ {t} : pc'[u] = pc[u]
         /\ dead' = dead /\ clears' = clears
  BY DEF TypeOK, Goto, Labels

\* What a producer sends is a request.
LEMMA SendsRequest ==
  ASSUME TypeOK, NEW p \in Producer
  PROVE  /\ Sends(p) \in Mark /\ Whole(Sends(p)) \in Request
         /\ Whole(Sends(p)).value = Sends(p) /\ Whole(Sends(p)).route = Sends(p)
  BY DEF TypeOK, Sends, Mark, Request, Whole

\* Nothing is a request of the first producer.
LEMMA NoneRequest == None \in Request
<1>1. (CHOOSE p \in Producer : TRUE) \in Producer
  BY RingAssumption
<1>2. 0 \in 0..MaxSends
  BY RingAssumption
<1> QED
  BY <1>1, <1>2 DEF None, Whole, Request, Mark

\* The place of a thread is one of the ring.
LEMMA PlaceOfThread ==
  ASSUME TypeOK, NEW t \in Thread
  PROVE  /\ pos[t] \in Nat /\ At(pos[t]) \in 0..Cap - 1
         /\ sequence[At(pos[t])] \in Nat /\ place[At(pos[t])] \in Request
         /\ place[At(pos[t])].value \in Mark /\ place[At(pos[t])].route \in Mark
<1>1. pos[t] \in Nat
  BY DEF TypeOK
<1>2. At(pos[t]) \in 0..Cap - 1
  BY <1>1, AtInRing
<1>3. place[At(pos[t])] \in Request
  BY <1>2 DEF TypeOK
<1> QED
  BY <1>1, <1>2, <1>3 DEF TypeOK, Request

\* The first state.
LEMMA InitTypes == Init => TypeOK
  BY NoneRequest, RingAssumption DEF Init, TypeOK, Thread

\* A step of a producer.
LEMMA SendTypes ==
  ASSUME TypeOK, NEW p \in Producer, IntTrySend(p)
  PROVE  TypeOK'
<1>1. p \in Thread
  BY DEF Thread
<1> USE DEF Labels, ring
<1>2. ASSUME NEW from, LoadTail(p, from), made' \in 0..MaxSends, calls' \in [Producer -> 0..MaxSends]
      PROVE  TypeOK'
  <2>1. pc' \in [Thread -> Labels] /\ dead' = dead /\ clears' = clears
    BY <1>1, <1>2, GotoTypes DEF LoadTail
  <2> QED
    BY <1>1, <1>2, <2>1 DEF TypeOK, LoadTail
<1>3. CASE StartSend(p)
  <2>1. made' \in 0..MaxSends /\ calls' \in [Producer -> 0..MaxSends]
    BY <1>3, RingAssumption DEF StartSend, TypeOK
  <2> QED
    BY <1>2, <1>3, <2>1 DEF StartSend
<1>4. CASE LoadSeq(p, pos[p])
  <2>1. pc' \in [Thread -> Labels] /\ dead' = dead /\ clears' = clears
    BY <1>1, <1>4, GotoTypes DEF LoadSeq
  <2> QED
    BY <1>4, <2>1 DEF TypeOK, LoadSeq
<1>5. CASE ClaimTail(p)
  <2>1. pc' \in [Thread -> Labels] /\ dead' = dead /\ clears' = clears
    BY <1>1, <1>5, GotoTypes DEF ClaimTail
  <2> QED
    BY <1>5, <2>1 DEF TypeOK, ClaimTail
<1>6. CASE (\E from : LoadTail(p, from)) /\ UNCHANGED <<calls, made>>
  <2>1. made' \in 0..MaxSends /\ calls' \in [Producer -> 0..MaxSends]
    BY <1>6 DEF TypeOK
  <2> QED
    BY <1>2, <1>6, <2>1
<1>7. CASE WriteValue(p)
  <2>1. pc' \in [Thread -> Labels] /\ dead' = dead /\ clears' = clears
    BY <1>1, <1>7, GotoTypes DEF WriteValue
  <2>2. place' \in [0..Cap - 1 -> Request]
    BY <1>1, <1>7, PlaceOfThread, SendsRequest DEF WriteValue, TypeOK, Request
  <2> QED
    BY <1>7, <2>1, <2>2 DEF TypeOK, WriteValue
<1>8. CASE WriteRoute(p)
  <2>1. pc' \in [Thread -> Labels] /\ dead' = dead /\ clears' = clears
    BY <1>1, <1>8, GotoTypes DEF WriteRoute
  <2>2. place' \in [0..Cap - 1 -> Request]
    BY <1>1, <1>8, PlaceOfThread, SendsRequest DEF WriteRoute, TypeOK, Request
  <2> QED
    BY <1>8, <2>1, <2>2 DEF TypeOK, WriteRoute
<1>9. CASE Publish(p)
  <2>1. pc' \in [Thread -> Labels] /\ dead' = dead /\ clears' = clears
    BY <1>1, <1>9, GotoTypes DEF Publish
  <2>2. sequence' \in [0..Cap - 1 -> Nat]
    BY <1>1, <1>9, PlaceOfThread DEF Publish, TypeOK
  <2> QED
    BY <1>9, <2>1, <2>2 DEF TypeOK, Publish
<1> QED
  BY <1>3, <1>4, <1>5, <1>6, <1>7, <1>8, <1>9 DEF IntTrySend

\* A step of a consumer.
LEMMA RecvTypes ==
  ASSUME TypeOK, NEW c \in Consumer, IntTryRecv(c)
  PROVE  TypeOK'
<1>1. c \in Thread
  BY DEF Thread
<1> USE DEF Labels, ring
<1>2. CASE \E from : LoadHead(c, from)
  <2>1. pc' \in [Thread -> Labels] /\ dead' = dead /\ clears' = clears
    BY <1>1, <1>2, GotoTypes DEF LoadHead
  <2> QED
    BY <1>1, <1>2, <2>1 DEF TypeOK, LoadHead
<1>3. CASE LoadSeq(c, pos[c] + 1)
  <2>1. pc' \in [Thread -> Labels] /\ dead' = dead /\ clears' = clears
    BY <1>1, <1>3, GotoTypes DEF LoadSeq
  <2> QED
    BY <1>3, <2>1 DEF TypeOK, LoadSeq
<1>4. CASE ClaimHead(c)
  <2>1. pc' \in [Thread -> Labels] /\ dead' = dead /\ clears' = clears
    BY <1>1, <1>4, GotoTypes DEF ClaimHead
  <2> QED
    BY <1>4, <2>1 DEF TypeOK, ClaimHead
<1>5. CASE ReadValue(c)
  <2>1. pc' \in [Thread -> Labels] /\ dead' = dead /\ clears' = clears
    BY <1>1, <1>5, GotoTypes DEF ReadValue
  <2>2. got' \in [Consumer -> Request]
    BY <1>1, <1>5, PlaceOfThread DEF ReadValue, TypeOK, Request
  <2> QED
    BY <1>5, <2>1, <2>2 DEF TypeOK, ReadValue
<1>6. CASE ReadRoute(c)
  <2>1. pc' \in [Thread -> Labels] /\ dead' = dead /\ clears' = clears
    BY <1>1, <1>6, GotoTypes DEF ReadRoute
  <2>2. got' \in [Consumer -> Request]
    BY <1>1, <1>6, PlaceOfThread DEF ReadRoute, TypeOK, Request
  <2> QED
    BY <1>6, <2>1, <2>2 DEF TypeOK, ReadRoute
<1>7. CASE FreePlace(c)
  <2>1. pc' \in [Thread -> Labels] /\ dead' = dead /\ clears' = clears
    BY <1>1, <1>7, GotoTypes DEF FreePlace
  <2>2. sequence' \in [0..Cap - 1 -> Nat]
    BY <1>1, <1>7, PlaceOfThread, RingAssumption DEF FreePlace, TypeOK
  <2> QED
    BY <1>7, <2>1, <2>2 DEF TypeOK, FreePlace
<1> QED
  BY <1>2, <1>3, <1>4, <1>5, <1>6, <1>7 DEF IntTryRecv

\* Every step keeps the types.
LEMMA TypeStep == TypeOK /\ [Next]_vars => TypeOK'
<1> SUFFICES ASSUME TypeOK, [Next]_vars PROVE TypeOK'
  OBVIOUS
<1>1. ASSUME NEW t \in Thread, Crash(t) PROVE TypeOK'
  BY <1>1 DEF Crash, TypeOK, ring
<1>2. CASE IntClear
  BY <1>2, RingAssumption DEF IntClear, TypeOK
<1>3. CASE UNCHANGED vars
  BY <1>3 DEF vars, ring, TypeOK
<1> QED
  BY <1>1, <1>2, <1>3, SendTypes, RecvTypes DEF Next

----------------------------------------------------------------------------
(* The ring *)

\* Where the thread of a claimed place stands, and what its sequence says.
LEMMA ClaimFacts ==
  ASSUME TypeOK, RingInv, NEW t \in Thread, Claimed(t)
  PROVE  /\ t \in Producer => pos[t] \in head..tail - 1 /\ sequence[At(pos[t])] = pos[t]
         /\ t \notin Producer => pos[t] \in tail - Cap..head - 1 /\ sequence[At(pos[t])] = pos[t] + 1
         /\ \A u \in Thread \ {t} : Claimed(u) => At(pos[u]) # At(pos[t])
  BY DEF RingInv, Turn

\* A sequence equal to the tail says that the ring is not full, and that the place
\* of the next position is nobody's.
LEMMA TailFree ==
  ASSUME TypeOK, RingInv, sequence[At(tail)] = tail
  PROVE  tail < head + Cap /\ \A u \in Thread : Claimed(u) => At(pos[u]) # At(tail)
<1> USE RingAssumption
<1>1. head \in Nat /\ tail \in Nat /\ head <= tail /\ tail <= head + Cap
  BY DEF TypeOK, RingInv
<1>2. ASSUME tail = head + Cap PROVE FALSE
  <2>1. At(head) = At(tail) /\ head \in head..tail - 1
    BY <1>1, <1>2, NextLap
  <2>2. \A p \in Producer : Claimed(p) => pos[p] # head
    BY <1>1, <1>2, <2>1, ClaimFacts DEF Thread
  <2>3. sequence[At(head)] = head + 1
    BY <2>1, <2>2 DEF RingInv
  <2> QED
    BY <1>1, <1>2, <2>1, <2>3
<1>3. ASSUME NEW u \in Thread, Claimed(u), At(pos[u]) = At(tail) PROVE FALSE
  <2>1. pos[u] \in Nat
    BY PlaceOfThread
  <2>2. u \notin Producer /\ pos[u] + 1 = tail
    BY <1>1, <1>3, <2>1, ClaimFacts
  <2> QED
    BY <1>1, <1>3, <2>1, <2>2, PlacesDiffer
<1> QED
  BY <1>1, <1>2, <1>3

\* A sequence one above the head says that the oldest request is there, and that
\* nobody is at work on its place.
LEMMA HeadFull ==
  ASSUME TypeOK, RingInv, sequence[At(head)] = head + 1
  PROVE  head < tail /\ \A u \in Thread : Claimed(u) => At(pos[u]) # At(head)
<1> USE RingAssumption
<1>1. head \in Nat /\ tail \in Nat /\ head <= tail /\ tail <= head + Cap
  BY DEF TypeOK, RingInv
<1>2. ASSUME tail = head PROVE FALSE
  <2>1. At(head - Cap) = At(head) /\ head - Cap \in tail - Cap..head - 1
    BY <1>1, <1>2, NextLap
  <2>2. ASSUME NEW c \in Consumer, Claimed(c) PROVE pos[c] # head - Cap
    <3>1. c \in Thread /\ c \notin Producer
      BY DEF Thread
    <3> QED
      BY <1>1, <1>2, <2>1, <2>2, <3>1, ClaimFacts
  <2>3. sequence[At(head - Cap)] = head - Cap + Cap
    BY <2>1, <2>2 DEF RingInv
  <2> QED
    BY <1>1, <1>2, <2>1, <2>3
<1>3. ASSUME NEW u \in Thread, Claimed(u), At(pos[u]) = At(head) PROVE FALSE
  <2>1. pos[u] \in Nat
    BY PlaceOfThread
  <2>2. u \in Producer /\ pos[u] = head + 1
    BY <1>1, <1>3, <2>1, ClaimFacts
  <2> QED
    BY <1>1, <1>3, <2>1, <2>2, PlacesDiffer
<1> QED
  BY <1>1, <1>2, <1>3

\* Steps of a call that neither claim a place nor give it on.
LEMMA SameRing ==
  ASSUME RingInv, UNCHANGED <<head, tail, sequence>>,
         \A t \in Thread : (Claimed(t)' <=> Claimed(t)) /\ (Claimed(t) => pos'[t] = pos[t])
  PROVE  RingInv'
<1>1. \A t \in Thread : Claimed(t) => Turn(t)' = Turn(t)
  BY DEF Turn
<1> QED
  BY <1>1 DEF RingInv, At, Thread

\* A producer claims the position of the tail.
LEMMA ClaimTailRing ==
  ASSUME IInv, NEW p \in Producer, ClaimTail(p)
  PROVE  RingInv'
<1> USE RingAssumption DEF IInv
<1>1. /\ p \in Thread /\ ~Claimed(p) /\ pos[p] = tail /\ pc[p] = "cas"
      /\ head \in Nat /\ tail \in Nat /\ head <= tail
      /\ head' = head /\ tail' = tail + 1 /\ sequence' = sequence /\ pos' = pos
  BY DEF Thread, ClaimTail, Goto, Claimed, TypeOK, RingInv
<1>2. sequence[At(tail)] = tail
  BY <1>1 DEF Positions, Counter, Turn
<1>3. tail < head + Cap /\ \A u \in Thread : Claimed(u) => At(pos[u]) # At(tail)
  BY <1>2, TailFree
<1>4. \A u \in Thread : Claimed(u)' <=> Claimed(u) \/ u = p
  BY <1>1, GotoTypes DEF ClaimTail, Claimed, Labels
<1>5. ASSUME NEW u \in Thread, Claimed(u)'
      PROVE  /\ pos'[u] \in IF u \in Producer THEN head'..tail' - 1 ELSE tail' - Cap..head' - 1
             /\ sequence'[At(pos'[u])] = Turn(u)'
             /\ \A v \in Thread \ {u} : Claimed(v)' => At(pos'[v]) # At(pos'[u])
  <2>1. CASE u = p
    BY <1>1, <1>2, <1>3, <1>4, <2>1 DEF Turn
  <2>2. CASE u # p
    <3>1. Claimed(u) /\ At(pos[u]) # At(tail) /\ pos[u] \in Nat
      BY <1>3, <1>4, <1>5, <2>2, PlaceOfThread
    <3>2. pos[u] # tail - Cap
      BY <1>1, <3>1, NextLap
    <3> QED
      BY <1>1, <1>3, <1>4, <2>2, <3>1, <3>2 DEF RingInv, Turn
  <2> QED
    BY <2>1, <2>2
<1>6. ASSUME NEW q \in head'..tail' - 1, \A x \in Producer : Claimed(x)' => pos'[x] # q
      PROVE  sequence'[At(q)] = q + 1
  <2>1. q # tail /\ q \in head..tail - 1
    BY <1>1, <1>4, <1>6
  <2>2. \A x \in Producer : Claimed(x) => pos[x] # q
    BY <1>1, <1>4, <1>6 DEF Thread
  <2> QED
    BY <1>1, <2>1, <2>2 DEF RingInv
<1>7. ASSUME NEW q \in tail' - Cap..head' - 1, \A x \in Consumer : Claimed(x)' => pos'[x] # q
      PROVE  sequence'[At(q)] = q + Cap
  <2>1. q \in tail - Cap..head - 1
    BY <1>1
  <2>2. \A x \in Consumer : Claimed(x) => pos[x] # q
    BY <1>1, <1>4, <1>7 DEF Thread
  <2> QED
    BY <1>1, <2>1, <2>2 DEF RingInv
<1>8. head' <= tail' /\ tail' <= head' + Cap
  BY <1>1, <1>3
<1> QED
  BY <1>5, <1>6, <1>7, <1>8, Zenon DEF RingInv, At

\* A consumer claims the position of the head.
LEMMA ClaimHeadRing ==
  ASSUME IInv, NEW c \in Consumer, ClaimHead(c)
  PROVE  RingInv'
<1> USE RingAssumption DEF IInv
<1>1. /\ c \in Thread /\ c \notin Producer /\ ~Claimed(c) /\ pos[c] = head /\ pc[c] = "cas"
      /\ head \in Nat /\ tail \in Nat /\ tail <= head + Cap
      /\ head' = head + 1 /\ tail' = tail /\ sequence' = sequence /\ pos' = pos
  BY DEF Thread, ClaimHead, Goto, Claimed, TypeOK, RingInv
<1>2. sequence[At(head)] = head + 1
  BY <1>1 DEF Positions, Counter, Turn
<1>3. head < tail /\ \A u \in Thread : Claimed(u) => At(pos[u]) # At(head)
  BY <1>2, HeadFull
<1>4. \A u \in Thread : Claimed(u)' <=> Claimed(u) \/ u = c
  BY <1>1, GotoTypes DEF ClaimHead, Claimed, Labels
<1>5. ASSUME NEW u \in Thread, Claimed(u)'
      PROVE  /\ pos'[u] \in IF u \in Producer THEN head'..tail' - 1 ELSE tail' - Cap..head' - 1
             /\ sequence'[At(pos'[u])] = Turn(u)'
             /\ \A v \in Thread \ {u} : Claimed(v)' => At(pos'[v]) # At(pos'[u])
  <2>1. CASE u = c
    BY <1>1, <1>2, <1>3, <1>4, <2>1 DEF Turn
  <2>2. CASE u # c
    <3>1. Claimed(u) /\ At(pos[u]) # At(head) /\ pos[u] \in Nat
      BY <1>3, <1>4, <1>5, <2>2, PlaceOfThread
    <3>2. pos[u] # head
      BY <3>1
    <3> QED
      BY <1>1, <1>3, <1>4, <2>2, <3>1, <3>2 DEF RingInv, Turn
  <2> QED
    BY <2>1, <2>2
<1>6. ASSUME NEW q \in head'..tail' - 1, \A x \in Producer : Claimed(x)' => pos'[x] # q
      PROVE  sequence'[At(q)] = q + 1
  <2>1. q \in head..tail - 1
    BY <1>1, <1>6
  <2>2. \A x \in Producer : Claimed(x) => pos[x] # q
    BY <1>1, <1>4, <1>6 DEF Thread
  <2> QED
    BY <1>1, <2>1, <2>2 DEF RingInv
<1>7. ASSUME NEW q \in tail' - Cap..head' - 1, \A x \in Consumer : Claimed(x)' => pos'[x] # q
      PROVE  sequence'[At(q)] = q + Cap
  <2>1. q # head /\ q \in tail - Cap..head - 1
    BY <1>1, <1>4, <1>7
  <2>2. \A x \in Consumer : Claimed(x) => pos[x] # q
    BY <1>1, <1>4, <1>7 DEF Thread
  <2> QED
    BY <1>1, <2>1, <2>2 DEF RingInv
<1>8. head' <= tail' /\ tail' <= head' + Cap
  BY <1>1, <1>3
<1> QED
  BY <1>5, <1>6, <1>7, <1>8, Zenon DEF RingInv, At

\* A thread gives its place on: the producer to the consumers, the consumer to the
\* producers of the next lap.
LEMMA GiveOnRing ==
  ASSUME IInv, NEW t \in Thread, Claimed(t),
         UNCHANGED <<head, tail, pos>>,
         \A u \in Thread : Claimed(u)' <=> Claimed(u) /\ u # t,
         sequence' = [sequence EXCEPT ![At(pos[t])] =
                        IF t \in Producer THEN pos[t] + 1 ELSE pos[t] + Cap]
  PROVE  RingInv'
<1> USE RingAssumption DEF IInv
<1>1. /\ head \in Nat /\ tail \in Nat /\ pos[t] \in Nat /\ At(pos[t]) \in DOMAIN sequence
      /\ pos[t] \in tail - Cap..tail - 1 /\ head <= tail /\ tail <= head + Cap
  <2>1. head \in Nat /\ tail \in Nat /\ head <= tail /\ tail <= head + Cap
    BY DEF TypeOK, RingInv
  <2>2. pos[t] \in Nat /\ At(pos[t]) \in 0..Cap - 1
    BY PlaceOfThread
  <2>3. pos[t] \in tail - Cap..tail - 1
    BY <2>1, <2>2, ClaimFacts
  <2> QED
    BY <2>1, <2>2, <2>3 DEF TypeOK
<1>2. \A i : i # At(pos[t]) => sequence'[i] = sequence[i]
  OBVIOUS
<1>3. \A q \in tail - Cap..tail - 1 : q # pos[t] => At(q) # At(pos[t])
  BY <1>1, PlacesDiffer
<1>4. ASSUME NEW u \in Thread, Claimed(u)'
      PROVE  /\ pos'[u] \in IF u \in Producer THEN head'..tail' - 1 ELSE tail' - Cap..head' - 1
             /\ sequence'[At(pos'[u])] = Turn(u)'
             /\ \A v \in Thread \ {u} : Claimed(v)' => At(pos'[v]) # At(pos'[u])
  <2>1. Claimed(u) /\ At(pos[u]) # At(pos[t])
    BY <1>4, ClaimFacts
  <2> QED
    BY <1>2, <2>1 DEF RingInv, Turn
<1>5. ASSUME NEW q \in head'..tail' - 1, \A x \in Producer : Claimed(x)' => pos'[x] # q
      PROVE  sequence'[At(q)] = q + 1
  <2>1. q \in head..tail - 1
    BY <1>1
  <2>2. CASE q = pos[t]
    <3>1. t \in Producer
      BY <1>1, <2>1, <2>2, ClaimFacts
    <3> QED
      BY <1>1, <2>2, <3>1
  <2>3. CASE q # pos[t]
    <3>1. \A x \in Producer : Claimed(x) => pos[x] # q
      BY <1>5, <2>3 DEF Thread
    <3> QED
      BY <1>1, <1>2, <1>3, <2>1, <2>3, <3>1 DEF RingInv
  <2> QED
    BY <2>2, <2>3
<1>6. ASSUME NEW q \in tail' - Cap..head' - 1, \A x \in Consumer : Claimed(x)' => pos'[x] # q
      PROVE  sequence'[At(q)] = q + Cap
  <2>1. q \in tail - Cap..head - 1
    BY <1>1
  <2>2. CASE q = pos[t]
    <3>1. t \notin Producer
      BY <1>1, <2>1, <2>2, ClaimFacts
    <3> QED
      BY <1>1, <2>2, <3>1
  <2>3. CASE q # pos[t]
    <3>1. \A x \in Consumer : Claimed(x) => pos[x] # q
      BY <1>6, <2>3 DEF Thread
    <3> QED
      BY <1>1, <1>2, <1>3, <2>1, <2>3, <3>1 DEF RingInv
  <2> QED
    BY <2>2, <2>3
<1>7. head' <= tail' /\ tail' <= head' + Cap
  BY <1>1
<1> QED
  BY <1>4, <1>5, <1>6, <1>7, Zenon DEF RingInv, At

\* The places of the lap before the first.
LEMMA LapBefore ==
  ASSUME NEW q \in -Cap..-1
  PROVE  At(q) = q + Cap
<1>1. Cap \in Nat \ {0} /\ q \in Int /\ q + Cap \in 0..Cap - 1
  BY RingAssumption
<1>2. At(q + Cap) = q + Cap
  BY <1>1 DEF At
<1> QED
  BY <1>1, <1>2, NextLap

\* The empty ring of the first state, and the one int_clear leaves.
LEMMA InitRing == Init => RingInv
<1> SUFFICES ASSUME Init PROVE RingInv
  OBVIOUS
<1> USE RingAssumption
<1>1. \A q \in -Cap..-1 : sequence[At(q)] = q + Cap
  BY LapBefore DEF Init
<1>2. \A t \in Thread : ~Claimed(t)
  BY DEF Init, Claimed
<1> QED
  BY <1>1, <1>2 DEF Init, RingInv

LEMMA ClearRing ==
  ASSUME IntClear
  PROVE  RingInv'
<1> USE RingAssumption
<1>1. head' = 0 /\ tail' = 0 /\ \A q \in -Cap..-1 : sequence'[At(q)] = q + Cap
  BY LapBefore DEF IntClear
<1>2. \A t \in Thread : ~Claimed(t)'
  BY DEF IntClear, Claimed
<1>3. \A q \in Int : At(q)' = At(q)
  BY DEF At
<1> QED
  BY <1>1, <1>2, <1>3 DEF RingInv

\* A step of a producer, and of a consumer.
LEMMA SendRing ==
  ASSUME IInv, NEW p \in Producer, IntTrySend(p)
  PROVE  RingInv'
<1>1. p \in Thread /\ TypeOK /\ RingInv
  BY DEF Thread, IInv
<1> USE DEF Labels, ring
<1>2. ASSUME NEW from \in {"idle", "cas", "reload"}, LoadTail(p, from) PROVE RingInv'
  <2>1. \A u \in Thread : Claimed(u)' <=> Claimed(u)
    BY <1>1, <1>2, GotoTypes DEF LoadTail, Claimed
  <2>2. ~Claimed(p) /\ \A u \in Thread \ {p} : pos'[u] = pos[u]
    BY <1>1, <1>2 DEF LoadTail, Claimed, Goto, TypeOK
  <2> QED
    BY <1>1, <1>2, <2>1, <2>2, SameRing DEF LoadTail
<1>3. CASE LoadSeq(p, pos[p])
  <2>1. \A u \in Thread : Claimed(u)' <=> Claimed(u)
    BY <1>1, <1>3, GotoTypes DEF LoadSeq, Claimed
  <2> QED
    BY <1>1, <1>3, <2>1, SameRing DEF LoadSeq
<1>4. CASE WriteValue(p)
  <2>1. \A u \in Thread : Claimed(u)' <=> Claimed(u)
    BY <1>1, <1>4, GotoTypes DEF WriteValue, Claimed
  <2> QED
    BY <1>1, <1>4, <2>1, SameRing DEF WriteValue
<1>5. CASE WriteRoute(p)
  <2>1. \A u \in Thread : Claimed(u)' <=> Claimed(u)
    BY <1>1, <1>5, GotoTypes DEF WriteRoute, Claimed
  <2> QED
    BY <1>1, <1>5, <2>1, SameRing DEF WriteRoute
<1>6. CASE Publish(p)
  <2>1. Claimed(p) /\ \A u \in Thread : Claimed(u)' <=> Claimed(u) /\ u # p
    BY <1>1, <1>6, GotoTypes DEF Publish, Claimed
  <2> QED
    BY <1>1, <1>6, <2>1, GiveOnRing DEF Publish
<1> QED
  BY <1>2, <1>3, <1>4, <1>5, <1>6, ClaimTailRing DEF IntTrySend, StartSend

LEMMA RecvRing ==
  ASSUME IInv, NEW c \in Consumer, IntTryRecv(c)
  PROVE  RingInv'
<1>1. c \in Thread /\ c \notin Producer /\ TypeOK /\ RingInv
  BY RingAssumption DEF Thread, IInv
<1> USE DEF Labels, ring
<1>2. ASSUME NEW from \in {"idle", "cas", "reload"}, LoadHead(c, from) PROVE RingInv'
  <2>1. \A u \in Thread : Claimed(u)' <=> Claimed(u)
    BY <1>1, <1>2, GotoTypes DEF LoadHead, Claimed
  <2>2. ~Claimed(c) /\ \A u \in Thread \ {c} : pos'[u] = pos[u]
    BY <1>1, <1>2 DEF LoadHead, Claimed, Goto, TypeOK
  <2> QED
    BY <1>1, <1>2, <2>1, <2>2, SameRing DEF LoadHead
<1>3. CASE LoadSeq(c, pos[c] + 1)
  <2>1. \A u \in Thread : Claimed(u)' <=> Claimed(u)
    BY <1>1, <1>3, GotoTypes DEF LoadSeq, Claimed
  <2> QED
    BY <1>1, <1>3, <2>1, SameRing DEF LoadSeq
<1>4. CASE ReadValue(c)
  <2>1. \A u \in Thread : Claimed(u)' <=> Claimed(u)
    BY <1>1, <1>4, GotoTypes DEF ReadValue, Claimed
  <2> QED
    BY <1>1, <1>4, <2>1, SameRing DEF ReadValue
<1>5. CASE ReadRoute(c)
  <2>1. \A u \in Thread : Claimed(u)' <=> Claimed(u)
    BY <1>1, <1>5, GotoTypes DEF ReadRoute, Claimed
  <2> QED
    BY <1>1, <1>5, <2>1, SameRing DEF ReadRoute
<1>6. CASE FreePlace(c)
  <2>1. Claimed(c) /\ \A u \in Thread : Claimed(u)' <=> Claimed(u) /\ u # c
    BY <1>1, <1>6, GotoTypes DEF FreePlace, Claimed
  <2> QED
    BY <1>1, <1>6, <2>1, GiveOnRing DEF FreePlace
<1> QED
  BY <1>2, <1>3, <1>4, <1>5, <1>6, ClaimHeadRing DEF IntTryRecv

----------------------------------------------------------------------------
(* What a thread knows from its loads *)

\* The steps of other threads: a counter that moves leaves the position behind, and
\* a place that changes hands was another one as long as the counter stands.
LEMMA OthersKeepPosition ==
  ASSUME IInv, NEW t \in Thread, pc'[t] = pc[t], pos'[t] = pos[t],
         pc[t] \in {"seq", "cas"},
         Counter(t)' \in Int, Counter(t) <= Counter(t)',
         pc[t] = "cas" /\ pos[t] = Counter(t)' /\ pos[t] = Counter(t)
           => sequence'[At(pos[t])] = sequence[At(pos[t])]
  PROVE  /\ pos'[t] <= Counter(t)'
         /\ pc'[t] = "cas" /\ pos'[t] = Counter(t)' => sequence'[At(pos'[t])] = Turn(t)'
<1>1. pos[t] \in Nat /\ Counter(t) \in Nat
  BY DEF IInv, TypeOK, Counter
<1>2. /\ pos[t] <= Counter(t)
      /\ pc[t] = "cas" /\ pos[t] = Counter(t) => sequence[At(pos[t])] = Turn(t)
  BY DEF IInv, Positions
<1>3. Turn(t)' = Turn(t)
  BY DEF Turn
<1> QED
  BY <1>1, <1>2, <1>3

\* A place given on is not the one of the head or the tail: the sequence of that one
\* says that nobody is at work on it.
LEMMA OtherPlace ==
  ASSUME IInv, NEW t \in Thread, Claimed(t),
         NEW u \in Thread, pc[u] = "cas", pos[u] = Counter(u)
  PROVE  At(pos[u]) # At(pos[t])
<1>1. sequence[At(pos[u])] = Turn(u) /\ TypeOK /\ RingInv
  BY DEF IInv, Positions
<1> QED
  BY <1>1, TailFree, HeadFull DEF Counter, Turn

LEMMA SendPositions ==
  ASSUME IInv, NEW p \in Producer, IntTrySend(p)
  PROVE  Positions'
<1>1. p \in Thread /\ TypeOK /\ RingInv /\ head \in Nat /\ tail \in Nat /\ pos[p] \in Nat
  BY DEF Thread, IInv, TypeOK
<1> USE DEF Labels, ring
<1> DEFINE Fine(t) == /\ pc[t] \in {"seq", "cas"} => pos[t] <= Counter(t)
                      /\ pc[t] = "cas" /\ pos[t] = Counter(t) => sequence[At(pos[t])] = Turn(t)
<1>2. /\ pos' \in [Thread -> Nat] /\ head' = head /\ tail' \in Nat /\ tail <= tail'
      /\ \A t \in Thread \ {p} : pc'[t] = pc[t] /\ pos'[t] = pos[t]
  BY <1>1 DEF IntTrySend, StartSend, LoadTail, LoadSeq, ClaimTail, WriteValue, WriteRoute, Publish,
     Goto, IInv, TypeOK
<1>3. ASSUME NEW t \in Thread \ {p}, pc[t] = "cas", pos[t] = Counter(t)
      PROVE  sequence'[At(pos[t])] = sequence[At(pos[t])]
  <2>1. CASE Publish(p)
    <3>1. Claimed(p)
      BY <2>1 DEF Publish, Goto, Claimed
    <3> QED
      BY <1>1, <1>3, <2>1, <3>1, OtherPlace DEF Publish
  <2>2. CASE ~Publish(p)
    BY <2>2 DEF IntTrySend, StartSend, LoadTail, LoadSeq, ClaimTail, WriteValue, WriteRoute
  <2> QED
    BY <2>1, <2>2
<1>4. ASSUME NEW t \in Thread \ {p} PROVE Fine(t)'
  <2>1. Counter(t)' \in Int /\ Counter(t) <= Counter(t)'
    BY <1>1, <1>2 DEF Counter
  <2>2. CASE pc[t] \in {"seq", "cas"}
    BY <1>2, <1>3, <2>1, <2>2, OthersKeepPosition DEF Turn
  <2> QED
    BY <1>2, <2>2
<1>5. Fine(p)'
  <2>1. CASE \E from : LoadTail(p, from)
    BY <1>1, <2>1 DEF LoadTail, Goto, IInv, TypeOK, Counter
  <2>2. CASE LoadSeq(p, pos[p])
    BY <1>1, <2>2 DEF LoadSeq, Goto, IInv, TypeOK, Counter, Positions, Turn
  <2>3. CASE ClaimTail(p) \/ WriteValue(p) \/ WriteRoute(p) \/ Publish(p)
    BY <1>1, <2>3 DEF ClaimTail, WriteValue, WriteRoute, Publish, Goto, IInv, TypeOK
  <2> QED
    BY <2>1, <2>2, <2>3 DEF IntTrySend, StartSend
<1> QED
  BY <1>4, <1>5 DEF Positions, Thread

LEMMA RecvPositions ==
  ASSUME IInv, NEW c \in Consumer, IntTryRecv(c)
  PROVE  Positions'
<1>1. /\ c \in Thread /\ c \notin Producer /\ TypeOK /\ RingInv
      /\ head \in Nat /\ tail \in Nat /\ pos[c] \in Nat
  BY RingAssumption DEF Thread, IInv, TypeOK
<1> USE DEF Labels, ring
<1> DEFINE Fine(t) == /\ pc[t] \in {"seq", "cas"} => pos[t] <= Counter(t)
                      /\ pc[t] = "cas" /\ pos[t] = Counter(t) => sequence[At(pos[t])] = Turn(t)
<1>2. /\ pos' \in [Thread -> Nat] /\ tail' = tail /\ head' \in Nat /\ head <= head'
      /\ \A t \in Thread \ {c} : pc'[t] = pc[t] /\ pos'[t] = pos[t]
  BY <1>1 DEF IntTryRecv, LoadHead, LoadSeq, ClaimHead, ReadValue, ReadRoute, FreePlace,
     Goto, IInv, TypeOK
<1>3. ASSUME NEW t \in Thread \ {c}, pc[t] = "cas", pos[t] = Counter(t)
      PROVE  sequence'[At(pos[t])] = sequence[At(pos[t])]
  <2>1. CASE FreePlace(c)
    <3>1. Claimed(c)
      BY <2>1 DEF FreePlace, Goto, Claimed
    <3> QED
      BY <1>1, <1>3, <2>1, <3>1, OtherPlace DEF FreePlace
  <2>2. CASE ~FreePlace(c)
    BY <2>2 DEF IntTryRecv, LoadHead, LoadSeq, ClaimHead, ReadValue, ReadRoute
  <2> QED
    BY <2>1, <2>2
<1>4. ASSUME NEW t \in Thread \ {c} PROVE Fine(t)'
  <2>1. Counter(t)' \in Int /\ Counter(t) <= Counter(t)'
    BY <1>1, <1>2 DEF Counter
  <2>2. CASE pc[t] \in {"seq", "cas"}
    BY <1>2, <1>3, <2>1, <2>2, OthersKeepPosition DEF Turn
  <2> QED
    BY <1>2, <2>2
<1>5. Fine(c)'
  <2>1. CASE \E from : LoadHead(c, from)
    BY <1>1, <2>1 DEF LoadHead, Goto, IInv, TypeOK, Counter
  <2>2. CASE LoadSeq(c, pos[c] + 1)
    BY <1>1, <2>2 DEF LoadSeq, Goto, IInv, TypeOK, Counter, Positions, Turn
  <2>3. CASE ClaimHead(c) \/ ReadValue(c) \/ ReadRoute(c) \/ FreePlace(c)
    BY <1>1, <2>3 DEF ClaimHead, ReadValue, ReadRoute, FreePlace, Goto, IInv, TypeOK
  <2> QED
    BY <2>1, <2>2, <2>3 DEF IntTryRecv
<1> QED
  BY <1>4, <1>5 DEF Positions, Thread

----------------------------------------------------------------------------
(* What is in the places *)

\* Two producers that claimed are at two places.
LEMMA OwnPlace ==
  ASSUME IInv, NEW p \in Producer, NEW x \in Producer \ {p}, Claimed(p), Claimed(x)
  PROVE  At(pos[x]) # At(pos[p])
<1>1. TypeOK /\ RingInv /\ p \in Thread /\ x \in Thread \ {p}
  BY DEF IInv, Thread
<1> QED
  BY <1>1, ClaimFacts

LEMMA SendContents ==
  ASSUME IInv, NEW p \in Producer, IntTrySend(p)
  PROVE  Contents'
<1>1. p \in Thread /\ TypeOK /\ RingInv /\ Contents
  BY DEF Thread, IInv
<1> USE DEF Labels, ring
<1>2. \A x \in Producer \ {p} : pc'[x] = pc[x] /\ pos'[x] = pos[x] /\ Sends(x)' = Sends(x)
  BY <1>1 DEF IntTrySend, StartSend, LoadTail, LoadSeq, ClaimTail, WriteValue, WriteRoute, Publish,
     Goto, TypeOK, Thread, Sends
<1>3. ASSUME place' = place, pos'[p] = pos[p], Sends(p)' = Sends(p), pc'[p] = "publish" => pc[p] = "publish",
             pc'[p] = "route" => pc[p] = "route"
      PROVE  Contents'
  BY <1>1, <1>2, <1>3 DEF Contents, At
<1>4. ASSUME place' = place, pc'[p] \notin {"route", "publish"}
      PROVE  Contents'
  BY <1>1, <1>2, <1>4 DEF Contents, At
<1>5. CASE \E from : LoadTail(p, from)
  BY <1>1, <1>4, <1>5, GotoTypes DEF LoadTail
<1>6. CASE LoadSeq(p, pos[p])
  BY <1>1, <1>4, <1>6, GotoTypes DEF LoadSeq
<1>7. CASE ClaimTail(p)
  BY <1>1, <1>4, <1>7, GotoTypes DEF ClaimTail
<1>8. CASE Publish(p)
  BY <1>1, <1>4, <1>8, GotoTypes DEF Publish
<1>9. CASE WriteValue(p) \/ WriteRoute(p)
  <2>1. Claimed(p) /\ pos' = pos /\ Sends(p)' = Sends(p) /\ At(pos[p]) \in 0..Cap - 1
    BY <1>1, <1>9, PlaceOfThread DEF WriteValue, WriteRoute, Goto, Claimed, Sends
  <2>2. \A i \in 0..Cap - 1 : i # At(pos[p]) => place'[i] = place[i]
    BY <1>9 DEF WriteValue, WriteRoute, IInv, TypeOK
  <2>3. \A x \in Producer \ {p} : pc[x] \in {"route", "publish"} => place'[At(pos[x])] = place[At(pos[x])]
    <3> SUFFICES ASSUME NEW x \in Producer \ {p}, pc[x] \in {"route", "publish"}
                 PROVE  place'[At(pos[x])] = place[At(pos[x])]
      OBVIOUS
    <3>1. Claimed(x) /\ x \in Thread
      BY DEF Claimed, Thread
    <3>2. At(pos[x]) # At(pos[p]) /\ At(pos[x]) \in 0..Cap - 1
      BY <1>1, <2>1, <3>1, OwnPlace, PlaceOfThread
    <3> QED
      BY <2>2, <3>2
  <2>4. place[At(pos[p])] \in Request /\ place \in [0..Cap - 1 -> Request]
    BY <1>1, PlaceOfThread DEF TypeOK
  <2>5. /\ pc'[p] \in {"route", "publish"} => place'[At(pos[p])].value = Sends(p)
        /\ pc'[p] = "publish" => place'[At(pos[p])].route = Sends(p)
    <3>1. CASE WriteValue(p)
      <4>1. pc'[p] = "route"
        BY <1>1, <3>1, GotoTypes DEF WriteValue
      <4> QED
        BY <2>1, <2>4, <3>1, <4>1 DEF WriteValue, Request
    <3>2. CASE WriteRoute(p)
      <4>1. pc'[p] = "publish" /\ place[At(pos[p])].value = Sends(p)
        BY <1>1, <3>2, GotoTypes DEF WriteRoute, Contents
      <4> QED
        BY <2>1, <2>4, <3>2, <4>1 DEF WriteRoute, Request
    <3> QED
      BY <1>9, <3>1, <3>2
  <2> QED
    BY <1>1, <1>2, <2>1, <2>3, <2>5 DEF Contents, At
<1> QED
  BY <1>5, <1>6, <1>7, <1>8, <1>9 DEF IntTrySend, StartSend

LEMMA RecvContents ==
  ASSUME IInv, NEW c \in Consumer, IntTryRecv(c)
  PROVE  Contents'
<1>1. c \in Thread /\ c \notin Producer
  BY RingAssumption DEF Thread
<1>2. /\ \A p \in Producer : pc'[p] = pc[p] /\ pos'[p] = pos[p]
      /\ UNCHANGED <<place, calls>>
  BY <1>1 DEF IntTryRecv, LoadHead, LoadSeq, ClaimHead, ReadValue, ReadRoute, FreePlace,
     Goto, IInv, TypeOK, Thread, ring
<1> QED
  BY <1>1, <1>2 DEF IInv, Contents, At, Sends

----------------------------------------------------------------------------
(* The invariant *)

LEMMA InitIInv == Init => IInv
<1> SUFFICES ASSUME Init PROVE IInv
  OBVIOUS
<1>1. \A t \in Thread : pc[t] = "idle"
  BY DEF Init
<1> QED
  BY <1>1, InitTypes, InitRing DEF IInv, Positions, Contents, Thread

LEMMA StepIInv == IInv /\ [Next]_vars => IInv'
<1> SUFFICES ASSUME IInv, [Next]_vars PROVE IInv'
  OBVIOUS
<1>1. TypeOK'
  BY TypeStep DEF IInv
<1>2. CASE \E p \in Producer : IntTrySend(p)
  BY <1>1, <1>2, SendRing, SendPositions, SendContents DEF IInv
<1>3. CASE \E c \in Consumer : IntTryRecv(c)
  BY <1>1, <1>3, RecvRing, RecvPositions, RecvContents DEF IInv
<1>4. CASE IntClear
  <2>1. \A t \in Thread : pc'[t] = "idle"
    BY <1>4 DEF IntClear
  <2> QED
    BY <1>1, <1>4, <2>1, ClearRing DEF IInv, Positions, Contents, Thread
<1>5. CASE (\E t \in Thread : Crash(t)) \/ UNCHANGED vars
  <2>1. UNCHANGED <<ring, pc, pos, calls>>
    BY <1>5 DEF Crash, vars
  <2> QED
    BY <1>1, <2>1 DEF IInv, RingInv, Positions, Contents, Claimed, Turn, Counter, Sends, At, Thread, ring
<1> QED
  BY <1>2, <1>3, <1>4, <1>5 DEF Next

\* The inductive invariant holds in every reachable state, of any ring with any
\* threads: an index never runs ahead, a sequence names the owner of its place, and
\* what a producer wrote stays.
THEOREM Invariance == Spec => []IInv
  BY InitIInv, StepIInv, PTL DEF Spec

\* The variables of reqrep_int_try_send and reqrep_int_try_recv keep their types.
THEOREM TypeCorrect == Spec => []TypeOK
<1>1. IInv => TypeOK
  BY DEF IInv
<1> QED
  BY <1>1, Invariance, PTL

\* Of the last Cap positions each has a place, in one of four states that its
\* sequence tells, and a thread that claimed one has it alone, however many
\* producers and consumers run reqrep_int_try_send and reqrep_int_try_recv.
THEOREM PlacesExclusive == Spec => []RingInv
<1>1. IInv => RingInv
  BY DEF IInv
<1> QED
  BY <1>1, Invariance, PTL

----------------------------------------------------------------------------
(* Refusals *)

\* The sequence at the place of one of the last Cap positions is not behind it, and
\* is past it once it was received.
LEMMA SequenceBound ==
  ASSUME IInv, NEW q \in tail - Cap..tail - 1
  PROVE  /\ sequence[At(q)] >= q
         /\ q < head => sequence[At(q)] >= q + 1
<1> USE RingAssumption
<1>1. TypeOK /\ RingInv /\ head \in Nat /\ tail \in Nat
  BY DEF IInv, TypeOK
<1>2. CASE q < head
  <2>1. ASSUME NEW c \in Consumer, Claimed(c), pos[c] = q PROVE sequence[At(q)] = q + 1
    <3>1. c \in Thread /\ c \notin Producer
      BY DEF Thread
    <3> QED
      BY <1>1, <2>1, <3>1, ClaimFacts
  <2>2. sequence[At(q)] = q + 1 \/ sequence[At(q)] = q + Cap
    BY <1>1, <1>2, <2>1 DEF RingInv
  <2> QED
    BY <1>1, <2>2
<1>3. CASE q >= head
  <2>1. ASSUME NEW p \in Producer, Claimed(p), pos[p] = q PROVE sequence[At(q)] = q
    <3>1. p \in Thread
      BY DEF Thread
    <3> QED
      BY <1>1, <2>1, <3>1, ClaimFacts
  <2>2. sequence[At(q)] = q \/ sequence[At(q)] = q + 1
    BY <1>1, <1>3, <2>1 DEF RingInv
  <2> QED
    BY <1>1, <1>3, <2>2
<1> QED
  BY <1>1, <1>2, <1>3

\* A thread that gives up has loaded a sequence below its turn.
LEMMA RefusedLoads ==
  ASSUME IInv, [Next]_vars, NEW t \in Thread, Refused(t)
  PROVE  sequence[At(pos[t])] < Turn(t) /\ pos[t] <= Counter(t)
<1> USE RingAssumption DEF Refused
<1>1. pos[t] <= Counter(t) /\ TypeOK
  BY DEF IInv, Positions
<1>2. ASSUME NEW p \in Producer, IntTrySend(p)
      PROVE  p = t /\ LoadSeq(p, pos[p])
  BY <1>1, <1>2 DEF IntTrySend, StartSend, LoadTail, LoadSeq, ClaimTail, WriteValue, WriteRoute, Publish,
     Goto, TypeOK, Thread
<1>3. ASSUME NEW c \in Consumer, IntTryRecv(c)
      PROVE  c = t /\ LoadSeq(c, pos[c] + 1)
  BY <1>1, <1>3 DEF IntTryRecv, LoadHead, LoadSeq, ClaimHead, ReadValue, ReadRoute, FreePlace,
     Goto, TypeOK, Thread
<1>4. ~IntClear /\ ~(\E u \in Thread : Crash(u)) /\ ~UNCHANGED vars
  BY <1>1 DEF IntClear, Crash, vars, TypeOK
<1>5. LoadSeq(t, Turn(t))
  BY <1>2, <1>3, <1>4 DEF Next, Turn
<1>6. pc'[t] = IF sequence[At(pos[t])] = Turn(t) THEN "cas"
               ELSE IF sequence[At(pos[t])] < Turn(t) THEN "idle" ELSE "reload"
  BY <1>1, <1>5 DEF LoadSeq, Goto, TypeOK
<1> QED
  BY <1>1, <1>6

\* A refused send: the position it loaded is still the tail, and the place of the
\* request a lap before is not free.
LEMMA FullJustified ==
  ASSUME IInv, [Next]_vars, NEW p \in Producer, Refused(p)
  PROVE  tail - head = Cap \/ Unfinished(Consumer, tail - Cap)
<1> USE RingAssumption
<1>1. /\ p \in Thread /\ TypeOK /\ RingInv /\ head \in Nat /\ tail \in Nat /\ pos[p] \in Nat
      /\ tail <= head + Cap
  BY DEF IInv, TypeOK, RingInv, Thread
<1>2. sequence[At(pos[p])] < pos[p] /\ pos[p] <= tail /\ sequence[At(pos[p])] \in Nat
  BY <1>1, RefusedLoads, PlaceOfThread DEF Turn, Counter
<1>3. pos[p] = tail
  <2> SUFFICES ASSUME pos[p] < tail PROVE FALSE
    BY <1>1, <1>2
  <2>0. pos[p] \in Int /\ tail \in Int /\ pos[p] < tail
    BY <1>1
  <2>1. PICK b \in tail - Cap..tail - 1 : At(b) = At(pos[p]) /\ b >= pos[p]
    BY <2>0, LastAtPlace, Zenon
  <2>2. sequence[At(b)] >= b
    BY <2>1, SequenceBound
  <2> QED
    BY <1>1, <1>2, <2>1, <2>2
<1>4. ASSUME tail - head # Cap, ~Unfinished(Consumer, tail - Cap) PROVE FALSE
  <2>1. tail - Cap \in tail - Cap..head - 1
    BY <1>1, <1>4
  <2>2. sequence[At(tail - Cap)] = tail - Cap + Cap
    BY <1>1, <1>4, <2>1 DEF RingInv, Unfinished
  <2>3. At(tail - Cap) = At(tail)
    BY <1>1, NextLap
  <2> QED
    BY <1>1, <1>2, <1>3, <2>2, <2>3
<1> QED
  BY <1>4

\* A refused receive: the position it loaded is still the head, and no request is
\* there.
LEMMA EmptyJustified ==
  ASSUME IInv, [Next]_vars, NEW c \in Consumer, Refused(c)
  PROVE  head = tail \/ Unfinished(Producer, head)
<1> USE RingAssumption
<1>1. /\ c \in Thread /\ c \notin Producer /\ TypeOK /\ RingInv
      /\ head \in Nat /\ tail \in Nat /\ pos[c] \in Nat /\ head <= tail
  BY DEF IInv, TypeOK, RingInv, Thread
<1>2. sequence[At(pos[c])] < pos[c] + 1 /\ pos[c] <= head /\ sequence[At(pos[c])] \in Nat
  BY <1>1, RefusedLoads, PlaceOfThread DEF Turn, Counter
<1>3. pos[c] = head
  <2> SUFFICES ASSUME pos[c] < head PROVE FALSE
    BY <1>1, <1>2
  <2>0. pos[c] \in Int /\ tail \in Int /\ pos[c] < tail
    BY <1>1
  <2>1. PICK b \in tail - Cap..tail - 1 : At(b) = At(pos[c]) /\ b >= pos[c]
    BY <2>0, LastAtPlace, Zenon
  <2>2. sequence[At(b)] >= b /\ (b < head => sequence[At(b)] >= b + 1)
    BY <2>1, SequenceBound
  <2> QED
    BY <1>1, <1>2, <2>1, <2>2
<1>4. ASSUME head # tail, ~Unfinished(Producer, head) PROVE FALSE
  <2>1. sequence[At(head)] = head + 1
    BY <1>1, <1>4 DEF RingInv, Unfinished
  <2> QED
    BY <1>1, <1>2, <1>3, <2>1
<1> QED
  BY <1>4

\* reqrep_int_try_send and reqrep_int_try_recv refuse for a reason that holds at the
\* moment they decide, whatever moved since they loaded their position.
THEOREM Justified == Spec => RefusalJustified
<1>1. IInv /\ [Next]_vars =>
        [/\ \A p \in Producer : Refused(p) =>
              tail - head = Cap \/ Unfinished(Consumer, tail - Cap)
         /\ \A c \in Consumer : Refused(c) => head = tail \/ Unfinished(Producer, head)]_vars
  BY FullJustified, EmptyJustified DEF Thread
<1> QED
  BY <1>1, Invariance, PTL DEF Spec, RefusalJustified

----------------------------------------------------------------------------
(* Refinement *)

\* What RingQueue sees of a state.
Queue == [k \in 1..tail - head |-> RequestAt(head + k - 1)]
Sending == {p \in Producer : Claimed(p)}
Taking == {c \in Consumer : Claimed(c)}
Got == [c \in Consumer |-> Handed(c)]

\* The request of a position that is being sent, and of one that is not.
LEMMA RequestBeingSent ==
  ASSUME IInv, NEW p \in Producer, Claimed(p)
  PROVE  RequestAt(pos[p]) = <<p, Whole(Sends(p))>>
<1>1. \A x \in Producer : Claimed(x) /\ pos[x] = pos[p] => x = p
  BY OwnPlace
<1>2. (CHOOSE x \in Producer : Claimed(x) /\ pos[x] = pos[p]) = p
  BY <1>1
<1> QED
  BY <1>2 DEF RequestAt

QueueShape ==
  /\ head \in Nat /\ tail \in Nat /\ tail - head \in Nat
  /\ Queue \in Seq(Producer \X Request) /\ Len(Queue) = tail - head
  /\ \A p \in Producer : Claimed(p) =>
       /\ pos[p] \in head..tail - 1
       /\ Queue[pos[p] - head + 1] = <<p, Whole(Sends(p))>>
  /\ \A k \in 1..tail - head :
       (\A p \in Producer : Claimed(p) => pos[p] # head + k - 1) =>
         Queue[k] = <<place[At(head + k - 1)].value[1], place[At(head + k - 1)]>>

\* A request that is being sent is seen whole, any other as it is in its place.
LEMMA QueueIs == IInv => QueueShape
<1> SUFFICES ASSUME IInv PROVE QueueShape
  OBVIOUS
<1>1. head \in Nat /\ tail \in Nat /\ tail - head \in Nat /\ TypeOK /\ RingInv
  BY DEF IInv, TypeOK, RingInv
<1>2. \A k \in 1..tail - head : Queue[k] = RequestAt(head + k - 1)
  BY DEF Queue
<1>3. ASSUME NEW p \in Producer, Claimed(p)
      PROVE  pos[p] \in head..tail - 1 /\ Queue[pos[p] - head + 1] = <<p, Whole(Sends(p))>>
  <2>1. p \in Thread /\ pos[p] \in head..tail - 1
    BY <1>1, <1>3, ClaimFacts DEF Thread
  <2>2. pos[p] - head + 1 \in 1..tail - head /\ head + (pos[p] - head + 1) - 1 = pos[p]
    BY <1>1, <2>1
  <2>3. Queue[pos[p] - head + 1] = RequestAt(pos[p])
    BY <1>2, <2>2
  <2> QED
    BY <1>3, <2>1, <2>3, RequestBeingSent
<1>4. ASSUME NEW k \in 1..tail - head, \A p \in Producer : Claimed(p) => pos[p] # head + k - 1
      PROVE  Queue[k] = <<place[At(head + k - 1)].value[1], place[At(head + k - 1)]>>
  BY <1>2, <1>4 DEF RequestAt
<1>5. \A k \in 1..tail - head : Queue[k] \in Producer \X Request
  <2> SUFFICES ASSUME NEW k \in 1..tail - head PROVE Queue[k] \in Producer \X Request
    OBVIOUS
  <2>1. CASE \E p \in Producer : Claimed(p) /\ pos[p] = head + k - 1
    <3>1. PICK p \in Producer : Claimed(p) /\ pos[p] = head + k - 1
      BY <2>1
    <3>2. Queue[k] = <<p, Whole(Sends(p))>>
      BY <1>2, <3>1, RequestBeingSent
    <3> QED
      BY <1>1, <3>2, SendsRequest
  <2>2. CASE \A p \in Producer : Claimed(p) => pos[p] # head + k - 1
    <3>1. At(head + k - 1) \in 0..Cap - 1
      BY <1>1, AtInRing
    <3>2. place[At(head + k - 1)] \in Request
      BY <1>1, <3>1 DEF TypeOK
    <3> QED
      BY <1>4, <2>2, <3>2 DEF Request, Mark
  <2> QED
    BY <2>1, <2>2
<1>6. Queue \in [1..tail - head -> Producer \X Request]
  BY <1>5 DEF Queue
<1>7. Queue \in Seq(Producer \X Request) /\ Len(Queue) = tail - head
  BY <1>1, <1>6
<1> QED
  BY <1>1, <1>3, <1>4, <1>7 DEF QueueShape

\* What a consumer is handed is a request.
LEMMA HandedRequest == IInv => Got \in [Consumer -> Request]
<1> SUFFICES ASSUME IInv, NEW c \in Consumer PROVE Handed(c) \in Request
  BY DEF Got
<1>1. place[At(pos[c])] \in Request /\ place[At(pos[c])].route \in Mark
  BY PlaceOfThread DEF IInv, Thread
<1>2. got[c] \in Request
  BY DEF IInv, TypeOK
<1> QED
  BY <1>1, <1>2 DEF Handed, Request

\* The queue is the same after a step that keeps the counters, the producers at work,
\* what they send and the places of the requests that nobody is sending.
LEMMA QueueKept ==
  ASSUME IInv, IInv', UNCHANGED <<head, tail>>,
         \A p \in Producer : Claimed(p)' <=> Claimed(p),
         \A p \in Producer : Claimed(p) => pos'[p] = pos[p] /\ Sends(p)' = Sends(p),
         \A q \in head..tail - 1 :
           (\A p \in Producer : Claimed(p) => pos[p] # q) => place'[At(q)] = place[At(q)]
  PROVE  Queue' = Queue
<1>1. QueueShape /\ QueueShape'
  BY QueueIs, PTL
<1>2. \A k \in 1..tail - head : Queue'[k] = Queue[k]
  <2> SUFFICES ASSUME NEW k \in 1..tail - head PROVE Queue'[k] = Queue[k]
    OBVIOUS
  <2> DEFINE q == head + k - 1
  <2>1. q \in head..tail - 1 /\ q - head + 1 = k
    BY <1>1 DEF QueueShape
  <2>2. CASE \E p \in Producer : Claimed(p) /\ pos[p] = q
    <3>1. PICK p \in Producer : Claimed(p) /\ pos[p] = q
      BY <2>2
    <3>2. Queue[k] = <<p, Whole(Sends(p))>>
      BY <1>1, <2>1, <3>1 DEF QueueShape
    <3>3. Queue'[k] = <<p, Whole(Sends(p)')>>
      <4>1. Claimed(p)' /\ pos'[p] - head' + 1 = k
        BY <2>1, <3>1
      <4>2. Queue'[pos'[p] - head' + 1] = <<p, Whole(Sends(p)')>>
        BY <1>1, <4>1 DEF QueueShape, Whole
      <4> QED
        BY <4>1, <4>2
    <3> QED
      BY <3>1, <3>2, <3>3
  <2>3. CASE \A p \in Producer : Claimed(p) => pos[p] # q
    <3>1. place'[At(q)] = place[At(q)]
      BY <2>1, <2>3
    <3>2. Queue'[k] = <<place'[At(q)].value[1], place'[At(q)]>>
      BY <1>1, <2>3 DEF QueueShape, At
    <3> QED
      BY <1>1, <2>3, <3>1, <3>2 DEF QueueShape
  <2> QED
    BY <2>2, <2>3
<1>3. /\ Queue \in Seq(Producer \X Request) /\ Queue' \in Seq(Producer \X Request)
      /\ Len(Queue) = tail - head /\ Len(Queue') = tail - head
  BY <1>1 DEF QueueShape
<1> QED
  BY <1>2, <1>3, SeqEqual

\* The consumers that occupy a place are fewer than the places behind the head.
LEMMA FewTaking ==
  ASSUME IInv, sequence[At(tail)] = tail
  PROVE  (tail - head) + Cardinality(Taking) < Cap
<1> USE RingAssumption
<1>1. /\ TypeOK /\ RingInv /\ head \in Nat /\ tail \in Nat /\ Cap \in Nat
      /\ head <= tail /\ tail < head + Cap
  BY TailFree DEF IInv, TypeOK, RingInv
<1> DEFINE T == tail - Cap + 1..head - 1
           f == [c \in Taking |-> pos[c]]
<1>2. ASSUME NEW c \in Taking PROVE c \in Thread /\ Claimed(c) /\ pos[c] \in T
  <2>1. c \in Thread /\ c \notin Producer /\ Claimed(c)
    BY DEF Taking, Thread
  <2>2. pos[c] \in tail - Cap..head - 1 /\ At(pos[c]) # At(tail)
    BY <1>1, <2>1, ClaimFacts, TailFree
  <2>3. At(tail - Cap) = At(tail)
    BY <1>1, NextLap
  <2> QED
    BY <1>1, <2>1, <2>2, <2>3
<1>3. ASSUME NEW c \in Taking, NEW d \in Taking, pos[c] = pos[d] PROVE c = d
  BY <1>1, <1>2, <1>3, ClaimFacts
<1>4. f \in Injection(Taking, T)
  BY <1>2, <1>3 DEF Injection, IsInjective
<1>5. IsFiniteSet(T) /\ Cardinality(T) = head - 1 - (tail - Cap + 1) + 1
  <2>1. tail - Cap + 1 \in Int /\ head - 1 \in Int /\ (tail - Cap + 1 > head - 1 <=> tail - Cap + 1 = head)
    BY <1>1
  <2>2. IsFiniteSet(T) /\ Cardinality(T) = IF tail - Cap + 1 > head - 1 THEN 0 ELSE head - 1 - (tail - Cap + 1) + 1
    BY <2>1, FS_Interval, Zenon
  <2> QED
    BY <1>1, <2>1, <2>2
<1>6. IsFiniteSet(Taking) /\ Cardinality(Taking) <= Cardinality(T)
  BY <1>4, <1>5, FS_Injection, Zenon
<1>7. Cardinality(Taking) \in Nat
  BY <1>6, FS_CardinalityType
<1> QED
  BY <1>1, <1>5, <1>6, <1>7

\* The cardinality RingQueue speaks of is the one of FiniteSets.
LEMMA SameCardinality == \A S : Ring!Cardinality(S) = Cardinality(S)
  BY DEF Ring!Cardinality, Cardinality, Ring!IsFiniteSet, IsFiniteSet

\* The claim of the tail is the send.
LEMMA ClaimTailSends ==
  ASSUME IInv, IInv', NEW p \in Producer, ClaimTail(p)
  PROVE  Ring!Send(p, Whole(Sends(p)))
<1> USE RingAssumption
<1>1. /\ p \in Thread /\ ~Claimed(p) /\ pos[p] = tail /\ pc[p] = "cas" /\ TypeOK /\ RingInv
      /\ head' = head /\ tail' = tail + 1 /\ place' = place /\ pos' = pos /\ got' = got /\ calls' = calls
  BY DEF Thread, ClaimTail, Goto, Claimed, IInv
<1>2. sequence[At(tail)] = tail
  BY <1>1 DEF IInv, Positions, Counter, Turn
<1>3. \A u \in Thread : Claimed(u)' <=> Claimed(u) \/ u = p
  BY <1>1, GotoTypes DEF ClaimTail, Claimed, Labels
<1>4. QueueShape /\ QueueShape'
  BY QueueIs, PTL
<1>5. Sending' = Sending \cup {p} /\ Taking' = Taking /\ p \notin Sending
  BY <1>1, <1>3 DEF Sending, Taking, Thread
<1>6. Got' = Got
  <2>1. \A c \in Consumer : pc'[c] = pc[c]
    BY <1>1, GotoTypes DEF ClaimTail, Thread, Labels
  <2> QED
    BY <1>1, <2>1 DEF Got, Handed, At
<1>7. Whole(Sends(p)) \in Request
  BY <1>1, SendsRequest
<1>8. Queue' = Append(Queue, <<p, Whole(Sends(p))>>)
  <2> DEFINE S == Producer \X Request
             e == <<p, Whole(Sends(p))>>
  <2>1. e \in S /\ Queue \in Seq(S) /\ Queue' \in Seq(S) /\ Len(Queue) = tail - head /\ Len(Queue') = tail - head + 1
    BY <1>1, <1>4, <1>7 DEF QueueShape
  <2>2. Queue'[tail - head + 1] = e
    <3>1. Claimed(p)'
      BY <1>1, <1>3
    <3>2. Queue'[pos'[p] - head' + 1] = <<p, Whole(Sends(p)')>>
      BY <1>4, <3>1 DEF QueueShape, Whole
    <3> QED
      BY <1>1, <3>2 DEF Sends
  <2>3. ASSUME NEW k \in 1..tail - head PROVE Queue'[k] = Queue[k]
    <3> DEFINE q == head + k - 1
    <3>1. q \in head..tail - 1 /\ q - head + 1 = k /\ k \in 1..tail' - head' /\ q # tail
      BY <1>1, <1>4 DEF QueueShape
    <3>2. CASE \E x \in Producer : Claimed(x) /\ pos[x] = q
      <4>1. PICK x \in Producer : Claimed(x) /\ pos[x] = q
        BY <3>2
      <4>2. Queue[k] = <<x, Whole(Sends(x))>>
        BY <1>4, <3>1, <4>1 DEF QueueShape
      <4>3. Claimed(x)' /\ Sends(x)' = Sends(x)
        BY <1>1, <1>3, <4>1 DEF Sends, Thread
      <4>4. Queue'[k] = <<x, Whole(Sends(x)')>>
        BY <1>1, <1>4, <3>1, <4>1, <4>3 DEF QueueShape, Whole
      <4> QED
        BY <4>2, <4>3, <4>4
    <3>3. CASE \A x \in Producer : Claimed(x) => pos[x] # q
      <4>1. \A x \in Producer : Claimed(x)' => pos'[x] # q
        BY <1>1, <1>3, <3>1, <3>3 DEF Thread
      <4>2. Queue'[k] = <<place'[At(q)].value[1], place'[At(q)]>>
        BY <1>1, <1>4, <3>1, <4>1 DEF QueueShape, At
      <4> QED
        BY <1>1, <1>4, <3>3, <4>2 DEF QueueShape
    <3> QED
      BY <3>2, <3>3
  <2>4. /\ Append(Queue, e) \in Seq(S) /\ Len(Append(Queue, e)) = tail - head + 1
        /\ \A k \in 1..tail - head : Append(Queue, e)[k] = Queue[k]
        /\ Append(Queue, e)[tail - head + 1] = e
    BY <2>1, AppendProperties
  <2>5. \A k \in 1..Len(Queue') : Queue'[k] = Append(Queue, e)[k]
    <3> HIDE DEF e, S
    <3>1. tail - head \in Nat
      BY <1>4 DEF QueueShape
    <3>2. \A k \in 1..Len(Queue') : k \in 1..tail - head \/ k = tail - head + 1
      BY <2>1, <3>1
    <3> QED
      BY <2>2, <2>3, <2>4, <3>2
  <2> QED
    BY <2>1, <2>4, <2>5, SeqEqual
<1>9. Len(Queue) + Cardinality(Taking) < Cap
  BY <1>2, <1>4, FewTaking DEF QueueShape
<1> QED
  BY <1>5, <1>6, <1>8, <1>9, SameCardinality, Zenon DEF Ring!Send, Queue, Sending, Taking, Got

\* The store to the sequence is the end of the send.
LEMMA PublishSent ==
  ASSUME IInv, IInv', NEW p \in Producer, Publish(p)
  PROVE  Ring!Sent(p)
<1>1. /\ p \in Thread /\ Claimed(p) /\ pc[p] = "publish" /\ TypeOK /\ RingInv /\ Contents
      /\ UNCHANGED <<head, tail, place, pos, got, calls>>
  BY DEF Thread, Publish, Goto, Claimed, IInv
<1>2. \A u \in Thread : Claimed(u)' <=> Claimed(u) /\ u # p
  BY <1>1, GotoTypes DEF Publish, Claimed, Labels
<1>3. QueueShape /\ QueueShape'
  BY QueueIs, PTL
<1>4. Sending' = Sending \ {p} /\ Taking' = Taking
  BY <1>1, <1>2, RingAssumption DEF Sending, Taking, Thread
<1>5. Got' = Got
  <2>1. \A c \in Consumer : pc'[c] = pc[c]
    BY <1>1, GotoTypes, RingAssumption DEF Publish, Thread, Labels
  <2> QED
    BY <1>1, <2>1 DEF Got, Handed, At
<1>6. \A k \in 1..tail - head : Queue'[k] = Queue[k]
  <2> SUFFICES ASSUME NEW k \in 1..tail - head PROVE Queue'[k] = Queue[k]
    OBVIOUS
  <2> DEFINE q == head + k - 1
  <2>1. q \in head..tail - 1 /\ q - head + 1 = k /\ k \in 1..tail' - head'
    BY <1>1, <1>3 DEF QueueShape
  <2>2. CASE q = pos[p]
    <3>1. Queue[k] = <<p, Whole(Sends(p))>>
      BY <1>1, <1>3, <2>1, <2>2 DEF QueueShape
    <3>2. place[At(q)] = Whole(Sends(p)) /\ place[At(q)].value[1] = p
      <4>1. place[At(q)].value = Sends(p) /\ place[At(q)].route = Sends(p)
        BY <1>1, <2>2 DEF Contents
      <4>2. place[At(q)] \in Request
        BY <1>1, <2>2, PlaceOfThread
      <4> QED
        BY <4>1, <4>2 DEF Request, Whole, Sends
    <3>3. \A x \in Producer : Claimed(x)' => pos'[x] # q
      BY <1>1, <1>2, <2>2, OwnPlace DEF Thread
    <3>4. Queue'[k] = <<place'[At(q)].value[1], place'[At(q)]>>
      BY <1>1, <1>3, <2>1, <3>3 DEF QueueShape, At
    <3> QED
      BY <1>1, <3>1, <3>2, <3>4
  <2>3. CASE q # pos[p] /\ \E x \in Producer : Claimed(x) /\ pos[x] = q
    <3>1. PICK x \in Producer : Claimed(x) /\ pos[x] = q
      BY <2>3
    <3>2. Queue[k] = <<x, Whole(Sends(x))>>
      BY <1>3, <2>1, <3>1 DEF QueueShape
    <3>3. Claimed(x)' /\ Sends(x)' = Sends(x)
      BY <1>1, <1>2, <2>3, <3>1 DEF Sends, Thread
    <3>4. Queue'[k] = <<x, Whole(Sends(x)')>>
      BY <1>1, <1>3, <2>1, <3>1, <3>3 DEF QueueShape, Whole
    <3> QED
      BY <3>2, <3>3, <3>4
  <2>4. CASE \A x \in Producer : Claimed(x) => pos[x] # q
    <3>1. \A x \in Producer : Claimed(x)' => pos'[x] # q
      BY <1>1, <1>2, <2>4 DEF Thread
    <3>2. Queue'[k] = <<place'[At(q)].value[1], place'[At(q)]>>
      BY <1>1, <1>3, <2>1, <3>1 DEF QueueShape, At
    <3> QED
      BY <1>1, <1>3, <2>4, <3>2 DEF QueueShape
  <2> QED
    BY <2>2, <2>3, <2>4
<1>7. Queue' = Queue
  <2>1. /\ Queue \in Seq(Producer \X Request) /\ Queue' \in Seq(Producer \X Request)
        /\ Len(Queue) = tail - head /\ Len(Queue') = tail - head
    BY <1>1, <1>3 DEF QueueShape
  <2> QED
    BY <1>6, <2>1, SeqEqual
<1> QED
  BY <1>4, <1>5, <1>7 DEF Ring!Sent, Queue, Sending, Taking, Got

\* The claim of the head is the receive: the oldest request is there.
LEMMA ClaimHeadReceives ==
  ASSUME IInv, IInv', NEW c \in Consumer, ClaimHead(c)
  PROVE  Ring!Recv(c)
<1> USE RingAssumption
<1>1. /\ c \in Thread /\ c \notin Producer /\ ~Claimed(c) /\ pos[c] = head /\ pc[c] = "cas"
      /\ TypeOK /\ RingInv
      /\ head' = head + 1 /\ tail' = tail /\ place' = place /\ pos' = pos /\ got' = got /\ calls' = calls
  BY DEF Thread, ClaimHead, Goto, Claimed, IInv
<1>2. sequence[At(head)] = head + 1
  BY <1>1 DEF IInv, Positions, Counter, Turn
<1>3. head < tail /\ \A u \in Thread : Claimed(u) => pos[u] # head
  BY <1>1, <1>2, HeadFull
<1>4. \A u \in Thread : Claimed(u)' <=> Claimed(u) \/ u = c
  BY <1>1, GotoTypes DEF ClaimHead, Claimed, Labels
<1>5. QueueShape /\ QueueShape'
  BY QueueIs, PTL
<1>6. Taking' = Taking \cup {c} /\ Sending' = Sending /\ c \notin Taking
  BY <1>1, <1>4 DEF Sending, Taking, Thread
<1> DEFINE S == Producer \X Request
<1>7. /\ Queue \in Seq(S) /\ Queue' \in Seq(S) /\ Queue # <<>>
      /\ Len(Queue) = tail - head /\ Len(Queue') = tail - head - 1 /\ tail - head \in Nat \ {0}
  BY <1>1, <1>3, <1>5 DEF QueueShape
<1>8. Head(Queue) = <<place[At(head)].value[1], place[At(head)]>>
  <2>1. 1 \in 1..tail - head /\ head + 1 - 1 = head
    BY <1>3, <1>5 DEF QueueShape
  <2>2. Queue[1] = <<place[At(head)].value[1], place[At(head)]>>
    BY <1>3, <1>5, <2>1 DEF QueueShape, Thread
  <2> QED
    BY <1>7, <2>2
<1>9. Head(Queue)[1] \in Sending => \E k \in 2..Len(Queue) : Queue[k][1] = Head(Queue)[1]
  <2> SUFFICES ASSUME NEW p \in Producer, Claimed(p), Head(Queue)[1] = p
               PROVE  \E k \in 2..Len(Queue) : Queue[k][1] = p
    BY DEF Sending
  <2>1. pos[p] \in head..tail - 1 /\ pos[p] # head /\ Queue[pos[p] - head + 1] = <<p, Whole(Sends(p))>>
    BY <1>3, <1>5 DEF QueueShape, Thread
  <2>2. pos[p] - head + 1 \in 2..Len(Queue)
    <3> HIDE DEF S
    <3>1. head \in Nat /\ tail \in Nat
      BY <1>5 DEF QueueShape
    <3> QED
      BY <1>7, <2>1, <3>1
  <2> QED
    BY <2>1, <2>2
<1>10. Got' = [Got EXCEPT ![c] = Head(Queue)[2]]
  <2>1. pc'[c] = "value" /\ \A d \in Consumer \ {c} : pc'[d] = pc[d]
    BY <1>1, GotoTypes DEF ClaimHead, Thread, Labels
  <2>2. Head(Queue)[2] = place[At(head)]
    BY <1>8
  <2>3. \A d \in Consumer \ {c} : Handed(d)' = Handed(d)
    BY <1>1, <2>1 DEF Handed, At
  <2>4. Handed(c)' = place[At(head)]
    BY <1>1, <2>1 DEF Handed, At
  <2> QED
    BY <2>2, <2>3, <2>4 DEF Got
<1>11. Queue' = Tail(Queue)
  <2>1. ASSUME NEW k \in 1..tail - head - 1 PROVE Queue'[k] = Queue[k + 1]
    <3> DEFINE q == head + k
    <3>1. /\ q \in head..tail - 1 /\ q - head + 1 = k + 1 /\ k + 1 \in 1..tail - head /\ head + (k + 1) - 1 = q
          /\ k \in 1..tail' - head' /\ head' + k - 1 = q /\ q - head' + 1 = k
      BY <1>1, <1>5 DEF QueueShape
    <3> HIDE DEF q
    <3>2. CASE \E x \in Producer : Claimed(x) /\ pos[x] = q
      <4>1. PICK x \in Producer : Claimed(x) /\ pos[x] = q
        BY <3>2
      <4>2. Queue[k + 1] = <<x, Whole(Sends(x))>>
        BY <1>5, <3>1, <4>1 DEF QueueShape
      <4>3. Claimed(x)' /\ Sends(x)' = Sends(x) /\ pos'[x] - head' + 1 = k
        BY <1>1, <1>4, <3>1, <4>1 DEF Sends, Thread
      <4>4. Queue'[pos'[x] - head' + 1] = <<x, Whole(Sends(x)')>>
        BY <1>5, <4>3 DEF QueueShape, Whole
      <4> QED
        BY <4>2, <4>3, <4>4
    <3>3. CASE \A x \in Producer : Claimed(x) => pos[x] # q
      <4>1. \A x \in Producer : Claimed(x)' => pos'[x] # q
        BY <1>1, <1>4, <3>3 DEF Thread
      <4>2. Queue'[k] = <<place'[At(q)].value[1], place'[At(q)]>>
        BY <1>5, <3>1, <4>1 DEF QueueShape, At
      <4>3. Queue[k + 1] = <<place[At(q)].value[1], place[At(q)]>>
        BY <1>5, <3>1, <3>3 DEF QueueShape
      <4> QED
        BY <1>1, <4>2, <4>3
    <3> QED
      BY <3>2, <3>3
  <2>2. /\ Tail(Queue) \in Seq(S) /\ Len(Tail(Queue)) = tail - head - 1
        /\ \A k \in 1..tail - head - 1 : Tail(Queue)[k] = Queue[k + 1]
    <3> HIDE DEF S
    <3> QED
      BY <1>7, HeadTailProperties
  <2> QED
    BY <1>7, <2>1, <2>2, SeqEqual
<1> QED
  BY <1>6, <1>7, <1>9, <1>10, <1>11, Zenon DEF Ring!Recv, Ring!HeadIsThere, Queue, Sending, Taking, Got

\* The store to the sequence is the end of the receive.
LEMMA FreeReceived ==
  ASSUME IInv, IInv', NEW c \in Consumer, FreePlace(c)
  PROVE  Ring!Received(c)
<1>1. /\ c \in Thread /\ c \notin Producer /\ pc[c] = "publish" /\ TypeOK
      /\ UNCHANGED <<head, tail, place, pos, got, calls>>
  BY RingAssumption DEF Thread, FreePlace, Goto, IInv
<1>2. \A u \in Thread : Claimed(u)' <=> Claimed(u) /\ u # c
  BY <1>1, GotoTypes DEF FreePlace, Claimed, Labels
<1>3. Taking' = Taking \ {c} /\ Sending' = Sending
  BY <1>1, <1>2 DEF Sending, Taking, Thread
<1>4. Queue' = Queue
  BY <1>1, <1>2, QueueKept DEF Sends, Thread
<1>5. Got' = Got
  <2>1. pc'[c] = "idle" /\ \A d \in Consumer \ {c} : pc'[d] = pc[d]
    BY <1>1, GotoTypes DEF FreePlace, Thread, Labels
  <2> QED
    BY <1>1, <2>1 DEF Got, Handed, At
<1> QED
  BY <1>3, <1>4, <1>5 DEF Ring!Received, Queue, Sending, Taking, Got

\* Steps of a call that claim nothing and give nothing on are not seen.
LEMMA SendStutters ==
  ASSUME IInv, IInv', NEW p \in Producer, IntTrySend(p), ~ClaimTail(p), ~Publish(p)
  PROVE  UNCHANGED <<Queue, Sending, Taking, Got>>
<1>1. p \in Thread /\ p \notin Consumer /\ TypeOK /\ RingInv
  BY RingAssumption DEF Thread, IInv
<1>2. /\ UNCHANGED <<head, tail, got>>
      /\ \A u \in Thread \ {p} : pc'[u] = pc[u] /\ pos'[u] = pos[u]
      /\ \A x \in Producer \ {p} : calls'[x] = calls[x]
      /\ Claimed(p)' <=> Claimed(p)
      /\ Claimed(p) => pos'[p] = pos[p] /\ calls'[p] = calls[p]
  BY <1>1 DEF IntTrySend, StartSend, LoadTail, LoadSeq, WriteValue, WriteRoute, Goto, TypeOK, Claimed, ring
<1>3. \A q \in 0..Cap - 1 : (Claimed(p) /\ q = At(pos[p])) \/ place'[q] = place[q]
  BY <1>1 DEF IntTrySend, StartSend, LoadTail, LoadSeq, WriteValue, WriteRoute, Goto, TypeOK, Claimed, ring
<1>4. ASSUME NEW q \in head..tail - 1, \A x \in Producer : Claimed(x) => pos[x] # q
      PROVE  place'[At(q)] = place[At(q)]
  <2>1. head \in Nat /\ tail \in Nat /\ tail <= head + Cap /\ q \in Int /\ At(q) \in 0..Cap - 1
    <3>1. head \in Nat /\ tail \in Nat /\ tail <= head + Cap
      BY <1>1 DEF TypeOK, RingInv
    <3>2. q \in Int
      BY <3>1
    <3> QED
      BY <3>1, <3>2, AtInRing
  <2>2. ASSUME Claimed(p) PROVE At(q) # At(pos[p])
    <3>1. pos[p] \in head..tail - 1 /\ pos[p] # q
      BY <1>1, <1>4, <2>2, ClaimFacts
    <3> QED
      BY <2>1, <3>1, PlacesDiffer, RingAssumption
  <2> QED
    BY <1>3, <2>1, <2>2
<1>5. Queue' = Queue
  BY <1>1, <1>2, <1>4, QueueKept DEF Sends, Thread, Claimed
<1>6. ASSUME NEW c \in Consumer PROVE Handed(c)' = Handed(c)
  <2>1. c \in Thread \ {p} /\ At(pos[c]) \in 0..Cap - 1
    BY <1>1, PlaceOfThread DEF Thread
  <2>2. ASSUME Claimed(c) PROVE place'[At(pos[c])] = place[At(pos[c])]
    BY <1>1, <1>3, <2>1, <2>2, ClaimFacts
  <2> QED
    BY <1>2, <2>1, <2>2 DEF Handed, Claimed, At
<1> QED
  BY <1>1, <1>2, <1>5, <1>6 DEF Sending, Taking, Got, Claimed, Thread

LEMMA RecvStutters ==
  ASSUME IInv, IInv', NEW c \in Consumer, IntTryRecv(c), ~ClaimHead(c), ~FreePlace(c)
  PROVE  UNCHANGED <<Queue, Sending, Taking, Got>>
<1>1. c \in Thread /\ c \notin Producer /\ TypeOK
  BY RingAssumption DEF Thread, IInv
<1>2. /\ UNCHANGED <<head, tail, place, calls>>
      /\ \A u \in Thread \ {c} : pc'[u] = pc[u] /\ pos'[u] = pos[u]
      /\ \A x \in Consumer \ {c} : got'[x] = got[x]
      /\ Claimed(c)' <=> Claimed(c)
      /\ Claimed(c) => pos'[c] = pos[c]
  BY <1>1 DEF IntTryRecv, LoadHead, LoadSeq, ReadValue, ReadRoute, Goto, TypeOK, Claimed, ring
<1>3. Queue' = Queue
  BY <1>1, <1>2, QueueKept DEF Sends, Thread, Claimed
<1>4. Handed(c)' = Handed(c)
  <2>1. place[At(pos[c])] \in Request /\ got[c] \in Request
    BY <1>1, PlaceOfThread DEF TypeOK
  <2>2. CASE ReadValue(c)
    <3>1. pc[c] = "value" /\ pc'[c] = "route" /\ got'[c] = [got[c] EXCEPT !.value = place[At(pos[c])].value]
      BY <1>1, <2>2, GotoTypes DEF ReadValue, TypeOK, Labels
    <3>2. [got'[c] EXCEPT !.route = place[At(pos[c])].route] = place[At(pos[c])]
      BY <2>1, <3>1 DEF Request
    <3> QED
      BY <1>2, <2>2, <3>1, <3>2 DEF Handed, At, ReadValue
  <2>3. CASE ReadRoute(c)
    <3>1. pc[c] = "route" /\ pc'[c] = "publish" /\ got'[c] = [got[c] EXCEPT !.route = place[At(pos[c])].route]
      BY <1>1, <2>3, GotoTypes DEF ReadRoute, TypeOK, Labels
    <3> QED
      BY <3>1 DEF Handed
  <2>4. CASE (\E from \in {"idle", "cas", "reload"} : LoadHead(c, from)) \/ LoadSeq(c, pos[c] + 1)
    <3>1. pc[c] \notin {"value", "route"} /\ pc'[c] \notin {"value", "route"} /\ got'[c] = got[c]
      BY <1>1, <2>4 DEF LoadHead, LoadSeq, Goto, TypeOK
    <3> QED
      BY <3>1 DEF Handed
  <2> QED
    BY <2>2, <2>3, <2>4 DEF IntTryRecv
<1>5. \A d \in Consumer \ {c} : Handed(d)' = Handed(d)
  BY <1>2 DEF Handed, At, Thread
<1> QED
  BY <1>1, <1>2, <1>3, <1>4, <1>5 DEF Sending, Taking, Got, Claimed, Thread

\* A ring that nobody is at work on and that is empty.
LEMMA NothingQueued ==
  head = 0 /\ tail = 0 /\ (\A t \in Thread : ~Claimed(t))
    => Queue = <<>> /\ Sending = {} /\ Taking = {}
<1> SUFFICES ASSUME head = 0, tail = 0, \A t \in Thread : ~Claimed(t)
             PROVE  Queue = <<>> /\ Sending = {} /\ Taking = {}
  OBVIOUS
<1>1. Queue = [k \in 1..0 |-> RequestAt(head + k - 1)]
  BY DEF Queue
<1>2. Queue \in [1..0 -> {}]
  BY <1>1
<1> QED
  BY <1>2 DEF Sending, Taking, Thread

\* reqrep_int_clear empties the ring.
LEMMA ClearClears ==
  ASSUME IInv, IInv', IntClear
  PROVE  Ring!Clear
<1>1. \A t \in Thread : pc'[t] = "idle"
  BY DEF IntClear
<1>2. Queue' = <<>> /\ Sending' = {} /\ Taking' = {}
  <2>1. head' = 0 /\ tail' = 0 /\ \A t \in Thread : ~Claimed(t)'
    BY <1>1 DEF IntClear, Claimed
  <2>2. (head = 0 /\ tail = 0 /\ (\A t \in Thread : ~Claimed(t)))'
          => (Queue = <<>> /\ Sending = {} /\ Taking = {})'
    BY NothingQueued, PTL
  <2> QED
    BY <2>1, <2>2
<1>3. (Got \in [Consumer -> Request])'
  BY HandedRequest, PTL
<1>4. \A c \in Consumer \ Taking : Got'[c] = Got[c]
  <2> SUFFICES ASSUME NEW c \in Consumer, ~Claimed(c) PROVE Got'[c] = Got[c]
    BY DEF Taking
  <2>1. pc'[c] = "idle" /\ got' = got
    BY <1>1 DEF IntClear, Thread
  <2>2. Handed(c)' = got[c]
    BY <2>1 DEF Handed
  <2>3. Handed(c) = got[c]
    BY DEF Handed, Claimed
  <2> QED
    BY <2>2, <2>3 DEF Got
<1> QED
  BY <1>2, <1>3, <1>4, Zenon DEF Ring!Clear, Queue, Sending, Taking, Got

\* A step of the ring is a step of RingQueue or not seen.
LEMMA RingStep == IInv /\ IInv' /\ [Next]_vars => [Ring!Next]_Ring!vars
<1> SUFFICES ASSUME IInv, IInv', [Next]_vars PROVE [Ring!Next]_Ring!vars
  OBVIOUS
<1>1. UNCHANGED <<Queue, Sending, Taking, Got>> => UNCHANGED Ring!vars
  BY DEF Ring!vars, Queue, Sending, Taking, Got
<1>2. ASSUME NEW p \in Producer, IntTrySend(p) PROVE Ring!Next \/ UNCHANGED Ring!vars
  <2>1. CASE ClaimTail(p)
    <3>1. Ring!Send(p, Whole(Sends(p))) /\ Whole(Sends(p)) \in Request
      BY <2>1, ClaimTailSends, SendsRequest DEF IInv
    <3> QED
      BY <3>1 DEF Ring!Next
  <2>2. CASE Publish(p)
    BY <2>2, PublishSent DEF Ring!Next
  <2>3. CASE ~ClaimTail(p) /\ ~Publish(p)
    BY <1>1, <1>2, <2>3, SendStutters
  <2> QED
    BY <2>1, <2>2, <2>3
<1>3. ASSUME NEW c \in Consumer, IntTryRecv(c) PROVE Ring!Next \/ UNCHANGED Ring!vars
  <2>1. CASE ClaimHead(c)
    BY <2>1, ClaimHeadReceives DEF Ring!Next
  <2>2. CASE FreePlace(c)
    BY <2>2, FreeReceived DEF Ring!Next
  <2>3. CASE ~ClaimHead(c) /\ ~FreePlace(c)
    BY <1>1, <1>3, <2>3, RecvStutters
  <2> QED
    BY <2>1, <2>2, <2>3
<1>4. CASE IntClear
  BY <1>4, ClearClears DEF Ring!Next
<1>5. CASE (\E t \in Thread : Crash(t)) \/ UNCHANGED vars
  <2>1. UNCHANGED <<head, tail, place, pc, pos, calls, got>>
    BY <1>5 DEF Crash, vars, ring
  <2>2. Queue' = Queue
    BY <2>1, QueueKept DEF Claimed, Sends
  <2>3. UNCHANGED <<Sending, Taking, Got>>
    BY <2>1 DEF Sending, Taking, Got, Claimed, Handed, At
  <2> QED
    BY <1>1, <2>2, <2>3
<1> QED
  BY <1>2, <1>3, <1>4, <1>5 DEF Next

\* The lock-free ring implements RingQueue: reqrep_int_try_send and
\* reqrep_int_try_recv together are a FIFO that hands out every request once, and
\* with the response id that its own send wrote.
THEOREM Refinement == Spec => RefinesRing
<1>1. Init => Ring!Init
  <2> SUFFICES ASSUME Init PROVE Ring!Init
    OBVIOUS
  <2>1. Queue = <<>> /\ Sending = {} /\ Taking = {}
    BY NothingQueued DEF Init, Claimed
  <2>2. Got \in [Consumer -> Request]
    BY InitIInv, HandedRequest
  <2> QED
    BY <2>1, <2>2 DEF Ring!Init, Queue, Sending, Taking, Got
<1> QED
  BY <1>1, RingStep, Invariance, PTL DEF Spec, RefinesRing, Ring!Spec
=============================================================================
