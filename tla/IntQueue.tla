------------------------------ MODULE IntQueue ------------------------------
(***************************************************************************)
(* The request queue of an integer segment: a ring of Cap places, each     *)
(* with a sequence number that tells whose turn it is.  The place of       *)
(* position q belongs to the producer of q while its sequence is q, holds  *)
(* a request for the consumer of q while it is q + 1, and is free for      *)
(* position q + Cap once it is q + Cap.  req_head and req_tail are claimed *)
(* with a compare-and-swap; the words of a place are plain memory.         *)
(*                                                                         *)
(* Response slots and the waits around the two calls are in PeerSlots and  *)
(* PeerBlocking.  Positions have 64 bits in the code and do not come round *)
(* in the life of a segment.                                               *)
(***************************************************************************)
EXTENDS Integers, Sequences, FiniteSets

CONSTANTS
  Producer, Consumer,
  Cap,          \* req_cap, a power of two
  MaxSends,     \* bound: calls of int_try_send
  MaxClears,    \* bound: calls of int_clear
  Mortal        \* the threads whose process may be killed

ASSUME RingAssumption ==
  /\ Cap \in Nat \ {0, 1}
  /\ MaxSends \in Nat /\ MaxClears \in Nat
  /\ Producer # {} /\ Producer \cap Consumer = {}
  /\ Mortal \subseteq Producer \cup Consumer

Thread == Producer \cup Consumer

\* A request is known by its producer and the number of the call; 0 stands for
\* none.  It consists of a value and the id of a response slot, two words.
Mark == Producer \X (0..MaxSends)
Request == [value : Mark, route : Mark]
Whole(m) == [value |-> m, route |-> m]
None == Whole(<<CHOOSE p \in Producer : TRUE, 0>>)

VARIABLES
  head, tail,   \* req_head, req_tail
  sequence,     \* per place: its sequence
  place,        \* per place: value, and resp_slot with resp_gen
  pc, pos,      \* per thread: where it is, and its local pos
  calls,        \* per producer: number of its last call
  made,         \* number of calls of int_try_send
  got,          \* per consumer: what its last receive read
  dead,         \* the threads that were killed
  clears        \* number of calls of int_clear

ring == <<head, tail, sequence, place>>
vars == <<ring, pc, pos, calls, made, got, dead, clears>>

At(q) == q % Cap

\* int_init_header
Init ==
  /\ head = 0 /\ tail = 0
  /\ sequence = [i \in 0..Cap - 1 |-> i]
  /\ place = [i \in 0..Cap - 1 |-> None]
  /\ pc = [t \in Thread |-> "idle"]
  /\ pos = [t \in Thread |-> 0]
  /\ calls = [p \in Producer |-> 0] /\ made = 0
  /\ got = [c \in Consumer |-> None]
  /\ dead = {}
  /\ clears = 0

Goto(t, from, to) ==
  /\ pc[t] = from /\ t \notin dead
  /\ pc' = [pc EXCEPT ![t] = to]
  /\ UNCHANGED <<dead, clears>>

----------------------------------------------------------------------------
(* reqrep_int_try_send *)

Sends(p) == <<p, calls[p]>>

\* Mutant of LoadTail: the position before.
LoadTailBehind(p, from) ==
  /\ Goto(p, from, "seq")
  /\ pos' = [pos EXCEPT ![p] = tail - 1]
  /\ UNCHANGED <<ring, got>>

LoadTail(p, from) ==
  /\ Goto(p, from, "seq")
  /\ pos' = [pos EXCEPT ![p] = tail]
  /\ UNCHANGED <<ring, got>>

StartSend(p) ==
  /\ made < MaxSends
  /\ LoadTail(p, "idle")
  /\ made' = made + 1
  /\ calls' = [calls EXCEPT ![p] = made + 1]

\* Mutant of LoadSeq: every other sequence is taken for a full or an empty ring.
LoadSeqNoReload(t, turn) ==
  /\ Goto(t, "seq", IF sequence[At(pos[t])] = turn THEN "cas" ELSE "idle")
  /\ UNCHANGED <<ring, pos, calls, made, got>>

\* Load the sequence; the sign of its difference from `turn` says what to do.
LoadSeq(t, turn) ==
  LET s == sequence[At(pos[t])]
  IN  /\ Goto(t, "seq", IF s = turn THEN "cas" ELSE IF s < turn THEN "idle" ELSE "reload")
      /\ UNCHANGED <<ring, pos, calls, made, got>>

\* A compare-and-swap that fails loads the position anew.  It is a weak one: when it
\* fails without a reason, the thread is where it was before it loaded the sequence.
ClaimTail(p) ==
  /\ tail = pos[p]
  /\ Goto(p, "cas", "value")
  /\ tail' = tail + 1
  /\ UNCHANGED <<head, sequence, place, pos, calls, made, got>>

WriteValue(p) ==
  /\ Goto(p, "value", "route")
  /\ place' = [place EXCEPT ![At(pos[p])].value = Sends(p)]
  /\ UNCHANGED <<head, tail, sequence, pos, calls, made, got>>

WriteRoute(p) ==
  /\ Goto(p, "route", "publish")
  /\ place' = [place EXCEPT ![At(pos[p])].route = Sends(p)]
  /\ UNCHANGED <<head, tail, sequence, pos, calls, made, got>>

\* Mutant of Publish: the sequence is that of an empty place.
PublishEmpty(p) ==
  /\ Goto(p, "publish", "idle")
  /\ sequence' = [sequence EXCEPT ![At(pos[p])] = pos[p]]
  /\ UNCHANGED <<head, tail, place, pos, calls, made, got>>

Publish(p) ==
  /\ Goto(p, "publish", "idle")
  /\ sequence' = [sequence EXCEPT ![At(pos[p])] = pos[p] + 1]
  /\ UNCHANGED <<head, tail, place, pos, calls, made, got>>

\* Mutant of IntTrySend: the place is published before it is written.
IntTrySendEarly(p) ==
  \/ StartSend(p)
  \/ LoadSeq(p, pos[p])
  \/ ClaimTail(p)
  \/ tail # pos[p] /\ LoadTail(p, "cas") /\ UNCHANGED <<calls, made>>
  \/ LoadTail(p, "reload") /\ UNCHANGED <<calls, made>>
  \/ /\ Goto(p, "value", "route")
     /\ sequence' = [sequence EXCEPT ![At(pos[p])] = pos[p] + 1]
     /\ UNCHANGED <<head, tail, place, pos, calls, made, got>>
  \/ WriteRoute(p)
  \/ /\ Goto(p, "publish", "idle")
     /\ place' = [place EXCEPT ![At(pos[p])].value = Sends(p)]
     /\ UNCHANGED <<head, tail, sequence, pos, calls, made, got>>

IntTrySend(p) ==
  \/ StartSend(p)
  \/ LoadSeq(p, pos[p])
  \/ ClaimTail(p)
  \/ tail # pos[p] /\ LoadTail(p, "cas") /\ UNCHANGED <<calls, made>>
  \/ LoadTail(p, "reload") /\ UNCHANGED <<calls, made>>
  \/ WriteValue(p) \/ WriteRoute(p) \/ Publish(p)

----------------------------------------------------------------------------
(* reqrep_int_try_recv *)

LoadHead(c, from) ==
  /\ Goto(c, from, "seq")
  /\ pos' = [pos EXCEPT ![c] = head]
  /\ UNCHANGED <<ring, calls, made, got>>

ClaimHead(c) ==
  /\ head = pos[c]
  /\ Goto(c, "cas", "value")
  /\ head' = head + 1
  /\ UNCHANGED <<tail, sequence, place, pos, calls, made, got>>

ReadValue(c) ==
  /\ Goto(c, "value", "route")
  /\ got' = [got EXCEPT ![c].value = place[At(pos[c])].value]
  /\ UNCHANGED <<ring, pos, calls, made>>

ReadRoute(c) ==
  /\ Goto(c, "route", "publish")
  /\ got' = [got EXCEPT ![c].route = place[At(pos[c])].route]
  /\ UNCHANGED <<ring, pos, calls, made>>

\* Mutant of FreePlace: the place is offered to the producers of this lap.
FreePlaceSameLap(c) ==
  /\ Goto(c, "publish", "idle")
  /\ sequence' = [sequence EXCEPT ![At(pos[c])] = pos[c]]
  /\ UNCHANGED <<head, tail, place, pos, calls, made, got>>

FreePlace(c) ==
  /\ Goto(c, "publish", "idle")
  /\ sequence' = [sequence EXCEPT ![At(pos[c])] = pos[c] + Cap]
  /\ UNCHANGED <<head, tail, place, pos, calls, made, got>>

IntTryRecv(c) ==
  \/ LoadHead(c, "idle")
  \/ LoadSeq(c, pos[c] + 1)
  \/ ClaimHead(c)
  \/ head # pos[c] /\ LoadHead(c, "cas")
  \/ LoadHead(c, "reload")
  \/ ReadValue(c) \/ ReadRoute(c) \/ FreePlace(c)

----------------------------------------------------------------------------

\* reqrep_int_clear, while no living process is inside a send or a receive.
IntClear ==
  /\ clears < MaxClears
  /\ \A t \in Thread : pc[t] = "idle" \/ t \in dead
  /\ clears' = clears + 1
  /\ head' = 0 /\ tail' = 0
  /\ sequence' = [i \in 0..Cap - 1 |-> i]
  /\ pc' = [t \in Thread |-> "idle"]
  /\ UNCHANGED <<place, pos, calls, made, got, dead>>

Crash(t) ==
  /\ t \in Mortal \ dead
  /\ dead' = dead \cup {t}
  /\ UNCHANGED <<ring, pc, pos, calls, made, got, clears>>

Next ==
  \/ \E p \in Producer : IntTrySend(p)
  \/ \E c \in Consumer : IntTryRecv(c)
  \/ \E t \in Thread : Crash(t)
  \/ IntClear

Spec == Init /\ [][Next]_vars

\* Threads run, clients go on sending and servers receiving.
FairSpec ==
  /\ Spec
  /\ \A p \in Producer : WF_vars(IntTrySend(p))
  /\ \A c \in Consumer : WF_vars(IntTryRecv(c))

----------------------------------------------------------------------------
(* Properties *)

TypeOK ==
  /\ head \in Nat /\ tail \in Nat
  /\ sequence \in [0..Cap - 1 -> Nat]
  /\ place \in [0..Cap - 1 -> Request]
  /\ pc \in [Thread -> {"idle", "seq", "cas", "reload", "value", "route", "publish"}]
  /\ pos \in [Thread -> Nat]
  /\ calls \in [Producer -> 0..MaxSends] /\ made \in 0..MaxSends
  /\ got \in [Consumer -> Request]
  /\ dead \subseteq Mortal /\ clears \in 0..MaxClears

\* The threads between their compare-and-swap and their store to the sequence.
Claimed(t) == pc[t] \in {"value", "route", "publish"}

\* The turn of a thread: the sequence at which it may have the place of its pos.
Turn(t) == IF t \in Producer THEN pos[t] ELSE pos[t] + 1

\* The last Cap positions are spread over the places; each of them is being
\* written, holds a request, is being read or is free for the next lap, and its
\* sequence says which.  A thread that claimed a place has it alone.
RingInv ==
  /\ head <= tail /\ tail <= head + Cap
  /\ \A t \in Thread : Claimed(t) =>
       /\ pos[t] \in IF t \in Producer THEN head..tail - 1 ELSE tail - Cap..head - 1
       /\ sequence[At(pos[t])] = Turn(t)
       /\ \A u \in Thread \ {t} : Claimed(u) => At(pos[u]) # At(pos[t])
  /\ \A q \in head..tail - 1 :
       (\A p \in Producer : Claimed(p) => pos[p] # q) => sequence[At(q)] = q + 1
  /\ \A q \in tail - Cap..head - 1 :
       (\A c \in Consumer : Claimed(c) => pos[c] # q) => sequence[At(q)] = q + Cap

\* What RingQueue sees: the request of a position, whether already written or not.
RequestAt(q) ==
  IF \E p \in Producer : Claimed(p) /\ pos[p] = q
  THEN LET p == CHOOSE x \in Producer : Claimed(x) /\ pos[x] = q IN <<p, Whole(Sends(p))>>
  ELSE <<place[At(q)].value[1], place[At(q)]>>

\* What a consumer that claimed a position is going to have read.
Handed(c) ==
  CASE pc[c] = "value" -> place[At(pos[c])]
    [] pc[c] = "route" -> [got[c] EXCEPT !.route = place[At(pos[c])].route]
    [] OTHER           -> got[c]

Ring == INSTANCE RingQueue WITH
  queue   <- [k \in 1..tail - head |-> RequestAt(head + k - 1)],
  sending <- {p \in Producer : Claimed(p)},
  taking  <- {c \in Consumer : Claimed(c)},
  got     <- [c \in Consumer |-> Handed(c)]

\* The ring is a FIFO that hands out every request once, with the value and the
\* response id of one and the same send.
RefinesRing == Ring!Spec

Refused(t) == t \notin dead /\ pc[t] = "seq" /\ pc'[t] = "idle"
Unfinished(T, q) == \E t \in T : Claimed(t) /\ pos[t] = q

\* int_try_send says "full" only when Cap requests are in the queue or the request
\* Cap places before is still being received, and int_try_recv "empty" only when
\* there is none or the next one is still being sent: however much the others did
\* between the load of the position and the load of the sequence.
RefusalJustified ==
  [][/\ \A p \in Producer : Refused(p) =>
          tail - head = Cap \/ Unfinished(Consumer, tail - Cap)
     /\ \A c \in Consumer : Refused(c) => head = tail \/ Unfinished(Producer, head)]_vars

\* As long as nobody is killed inside a call, all that is sent is received.
Drains == (head < tail) ~> (head = tail \/ \E t \in dead : Claimed(t))

----------------------------------------------------------------------------
(* The inductive invariant *)

\* The counter a thread claims its positions from.
Counter(t) == IF t \in Producer THEN tail ELSE head

\* A position is never ahead of its counter.  As long as the counter has not moved
\* past it, what the load of the sequence has shown stays true: nobody can have
\* the place but by moving the counter.
Positions ==
  \A t \in Thread :
    /\ pc[t] \in {"seq", "cas"} => pos[t] <= Counter(t)
    /\ pc[t] = "cas" /\ pos[t] = Counter(t) => sequence[At(pos[t])] = Turn(t)

\* What a producer has written so far is in its place.
Contents ==
  \A p \in Producer :
    /\ pc[p] \in {"route", "publish"} => place[At(pos[p])].value = Sends(p)
    /\ pc[p] = "publish" => place[At(pos[p])].route = Sends(p)

IInv == TypeOK /\ RingInv /\ Positions /\ Contents
=============================================================================
