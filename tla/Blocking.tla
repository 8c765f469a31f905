------------------------------ MODULE Blocking ------------------------------
(***************************************************************************)
(* Blocking send and receive: the loops of sendWait and recvWait and the   *)
(* wake helpers they rely on.  Senders compete for response slots and for  *)
(* room in the request queue, and sleep on slot_futex or send_futex;       *)
(* receivers sleep on recv_futex.                                          *)
(*                                                                         *)
(* A futex counter is only ever compared with the value the same thread    *)
(* loaded before, so the three counters are represented by the set of      *)
(* threads whose loaded value is still the current one: a bump removes all *)
(* threads of that word (no counter goes through its 2^32 values between a *)
(* load and the wait that follows).                                        *)
(*                                                                         *)
(* Abstracted from RespSlots: the slot words (a slot is taken or not) and  *)
(* the reply, which comes at some time after the request was dequeued.     *)
(* The mutexes of trySend and tryRecv make one step of each critical       *)
(* section (see Mutex).                                                    *)
(***************************************************************************)
EXTENDS Naturals, Sequences, FiniteSets

CONSTANTS
  Sender, Receiver,  \* client goroutines; goroutines that call Serve
  Slot,              \* response slots
  QueueCap,          \* requests that fit (ring or arena)
  MaxQueries,        \* bound on the queries of each sender
  CanExpire,         \* may the context of a query end?
  HasDeadline,       \* has that context a deadline (or only a cancel function)?
  CanStop            \* may the context of a Serve end?

Thread == Sender \cup Receiver

ASSUME BlockingAssumption ==
  /\ Sender \cap Receiver = {}
  /\ IsFiniteSet(Sender) /\ IsFiniteSet(Receiver) /\ IsFiniteSet(Slot)
  /\ QueueCap \in Nat \ {0} /\ MaxQueries \in Nat
  /\ CanExpire \in BOOLEAN /\ HasDeadline \in BOOLEAN /\ CanStop \in BOOLEAN

Futex == {"send", "slot", "recv"}

VARIABLES
  taken,     \* the slots that are not free
  queue,     \* requests in the queue: <<sender, number>>
  waiters,   \* waiters[f]: send_waiters, slot_waiters, recv_waiters
  pc,
  queries,   \* queries[c]: queries sender c has begun
  todo,      \* todo[c]: slots its scan has still to look at
  mine,      \* mine[c]: the slot it has taken
  noSlots,   \* noSlots[c]: why its last attempt failed
  site,      \* site[t]: which attempt of the wait loop t is in ("last": PeerBlocking)
  word,      \* word[t]: the futex t waits on
  current,   \* threads whose fseq equals the futex counter
  expired    \* threads whose context is done

vars == <<taken, queue, waiters, pc, queries, todo, mine, noSlots, site, word, current, expired>>
attempt == <<queries, todo, mine, noSlots>>
waits == <<word, current>>

FirstWord(t) == IF t \in Sender THEN "send" ELSE "recv"

Init ==
  /\ taken = {}
  /\ queue = <<>>
  /\ waiters = [f \in Futex |-> 0]
  /\ pc = [t \in Thread |-> IF t \in Sender THEN "idle" ELSE "recv"]
  /\ queries = [c \in Sender |-> 0]
  /\ todo = [c \in Sender |-> {}]
  /\ mine \in [Sender -> Slot]
  /\ noSlots = [c \in Sender |-> FALSE]
  /\ site = [t \in Thread |-> "first"]
  /\ word = [t \in Thread |-> FirstWord(t)]
  /\ current = {}
  /\ expired = {}

Goto(t, from, to) ==
  /\ pc[t] = from
  /\ pc' = [pc EXCEPT ![t] = to]

----------------------------------------------------------------------------
(* wakeConsumers, wakeProducers, wakeSlotWaiters: bump, read waiters, wake *)

\* Mutant of Bump: the counter is left alone when nobody is registered.
BumpIfWaiters(t, f, from, to) ==
  /\ Goto(t, from, to)
  /\ current' = IF waiters[f] > 0 THEN {u \in current : word[u] # f} ELSE current
  /\ UNCHANGED <<taken, queue, waiters, attempt, site, word, expired>>

Bump(t, f, from, to) ==
  /\ Goto(t, from, to)
  /\ current' = {u \in current : word[u] # f}
  /\ UNCHANGED <<taken, queue, waiters, attempt, site, word, expired>>

Look(t, f, from, wake, done) ==
  /\ Goto(t, from, IF waiters[f] > 0 THEN wake ELSE done)
  /\ UNCHANGED <<taken, queue, waiters, attempt, site, waits, expired>>

SleepersOn(f) == {t \in Thread : pc[t] = "sleep" /\ word[t] = f}

WakeOne(t, f, from, done) ==
  /\ pc[t] = from
  /\ \/ \E u \in SleepersOn(f) : pc' = [pc EXCEPT ![t] = done, ![u] = "woken"]
     \/ SleepersOn(f) = {} /\ pc' = [pc EXCEPT ![t] = done]
  /\ UNCHANGED <<taken, queue, waiters, attempt, site, waits, expired>>

wakeConsumers(c) ==
  \/ Bump(c, "recv", "sentBump", "sentLook")
  \/ Look(c, "recv", "sentLook", "sentWake", "await")
  \/ WakeOne(c, "recv", "sentWake", "await")

wakeProducers(r) ==
  \/ Bump(r, "send", "gotBump", "gotLook")
  \/ Look(r, "send", "gotLook", "gotWake", "recv")
  \/ WakeOne(r, "send", "gotWake", "recv")

\* Where a sender goes on after a failed attempt, or after its query.
Resume(c) ==
  CASE site[c] = "done"   -> "idle"
    [] site[c] = "second" -> "deadline"
    [] OTHER              -> "load"

wakeSlotWaiters(c) ==
  \/ Bump(c, "slot", "freeBump", "freeLook")
  \/ Look(c, "slot", "freeLook", "freeWake", Resume(c))
  \/ WakeOne(c, "slot", "freeWake", Resume(c))

----------------------------------------------------------------------------
(* trySend, and the end of the query *)

Query(c) ==
  /\ queries[c] < MaxQueries
  /\ Goto(c, "idle", "scan")
  /\ queries' = [queries EXCEPT ![c] = @ + 1]
  /\ todo' = [todo EXCEPT ![c] = Slot]
  /\ site' = [site EXCEPT ![c] = "first"]
  /\ expired' = expired \ {c}
  /\ UNCHANGED <<taken, queue, waiters, mine, noSlots, waits>>

\* One slot of the scan: taken from it, or passed over.
Scan(c) ==
  /\ pc[c] = "scan"
  /\ \E s \in todo[c] :
       \/ /\ s \notin taken
          /\ taken' = taken \cup {s}
          /\ mine' = [mine EXCEPT ![c] = s]
          /\ todo' = [todo EXCEPT ![c] = {}]
          /\ Goto(c, "scan", "send")
       \/ /\ s \in taken
          /\ todo' = [todo EXCEPT ![c] = @ \ {s}]
          /\ UNCHANGED <<taken, mine, pc>>
  /\ UNCHANGED <<queue, waiters, queries, noSlots, site, waits, expired>>

ScanFailed(c) ==
  /\ todo[c] = {}
  /\ Goto(c, "scan", Resume(c))
  /\ noSlots' = [noSlots EXCEPT ![c] = TRUE]
  /\ UNCHANGED <<taken, queue, waiters, queries, todo, mine, site, waits, expired>>

Send(c) ==
  /\ Len(queue) < QueueCap
  /\ Goto(c, "send", "sentBump")
  /\ queue' = Append(queue, <<c, queries[c]>>)
  /\ UNCHANGED <<taken, waiters, attempt, site, waits, expired>>

\* Mutant of SendFull: the slot is not released.
SendFullKeeps(c) ==
  /\ Len(queue) = QueueCap
  /\ Goto(c, "send", "freeBump")
  /\ noSlots' = [noSlots EXCEPT ![c] = FALSE]
  /\ UNCHANGED <<taken, queue, waiters, queries, todo, mine, site, waits, expired>>

\* No room: releaseRespSlot.
SendFull(c) ==
  /\ Len(queue) = QueueCap
  /\ Goto(c, "send", "freeBump")
  /\ noSlots' = [noSlots EXCEPT ![c] = FALSE]
  /\ taken' = taken \ {mine[c]}
  /\ UNCHANGED <<queue, waiters, queries, todo, mine, site, waits, expired>>

InQueue(c) == \E i \in 1..Len(queue) : queue[i] = <<c, queries[c]>>

\* The query ends and frees its slot.
EndQuery(c) ==
  /\ Goto(c, "await", "freeBump")
  /\ taken' = taken \ {mine[c]}
  /\ site' = [site EXCEPT ![c] = "done"]
  /\ UNCHANGED <<queue, waiters, attempt, waits, expired>>

\* It was answered, after the server took the request; or its context is done
\* and it cancels.
Answered(c) == ~InQueue(c) /\ EndQuery(c)

Cancel(c) == c \in expired /\ EndQuery(c)

----------------------------------------------------------------------------
(* tryRecv *)

Recv(r) ==
  /\ queue # <<>>
  /\ Goto(r, "recv", "gotBump")
  /\ queue' = Tail(queue)
  /\ site' = [site EXCEPT ![r] = "first"]
  /\ UNCHANGED <<taken, waiters, attempt, waits, expired>>

RecvEmpty(r) ==
  /\ queue = <<>>
  /\ Goto(r, "recv", Resume(r))
  /\ UNCHANGED <<taken, queue, waiters, attempt, site, waits, expired>>

----------------------------------------------------------------------------
(* The wait loop, the same in sendWait and recvWait *)

\* A new attempt at the given place of the loop.
Retry(t, from, place) ==
  /\ Goto(t, from, IF t \in Sender THEN "scan" ELSE "recv")
  /\ site' = [site EXCEPT ![t] = place]
  /\ todo' = IF t \in Sender THEN [todo EXCEPT ![t] = Slot] ELSE todo

\* The counter is loaded before the second attempt; a sender takes the word
\* that fits the failure of the attempt before it.
LoadSeq(t) ==
  /\ Retry(t, "load", "second")
  /\ word' = [word EXCEPT ![t] =
                IF t \in Receiver THEN "recv" ELSE IF noSlots[t] THEN "slot" ELSE "send"]
  /\ current' = current \cup {t}
  /\ UNCHANGED <<taken, queue, waiters, queries, mine, noSlots, expired>>

Ended(t) == IF t \in Sender THEN "idle" ELSE "stopped"

\* recvWait looks at the context, sendWait at the time left to its deadline.
Deadline(t) ==
  /\ Goto(t, "deadline", IF t \in expired /\ (t \in Receiver \/ HasDeadline) THEN Ended(t) ELSE "register")
  /\ UNCHANGED <<taken, queue, waiters, attempt, site, waits, expired>>

Register(t) ==
  /\ Goto(t, "register", "futex")
  /\ waiters' = [waiters EXCEPT ![word[t]] = @ + 1]
  /\ UNCHANGED <<taken, queue, attempt, site, waits, expired>>

\* The kernel compares the counter with fseq before it sleeps.
FutexWait(t) ==
  /\ Goto(t, "futex", IF t \in current THEN "sleep" ELSE "woken")
  /\ UNCHANGED <<taken, queue, waiters, attempt, site, waits, expired>>

\* Mutant of SleepEnds: no cap, the sleep lasts as long as the context.
SleepEndsUncapped(t) ==
  /\ t \in expired
  /\ Goto(t, "sleep", "woken")
  /\ UNCHANGED <<taken, queue, waiters, attempt, site, waits, expired>>

\* The 2 s cap, the deadline if it is nearer, or a signal.
SleepEnds(t) ==
  /\ Goto(t, "sleep", "woken")
  /\ UNCHANGED <<taken, queue, waiters, attempt, site, waits, expired>>

\* (fseq and futexPtr are not used again: word and current are set back.)
Deregister(t) ==
  /\ Goto(t, "woken", "context")
  /\ waiters' = [waiters EXCEPT ![word[t]] = @ - 1]
  /\ word' = [word EXCEPT ![t] = FirstWord(t)]
  /\ current' = current \ {t}
  /\ UNCHANGED <<taken, queue, attempt, site, expired>>

\* Mutant of Context: the context is not looked at after the wait.
ContextIgnored(t) ==
  /\ Retry(t, "context", "third")
  /\ UNCHANGED <<taken, queue, waiters, queries, mine, noSlots, waits, expired>>

Context(t) ==
  \/ /\ t \in expired
     /\ Goto(t, "context", Ended(t))
     /\ UNCHANGED <<taken, queue, waiters, attempt, site, waits, expired>>
  \/ /\ t \notin expired
     /\ Retry(t, "context", "third")
     /\ UNCHANGED <<taken, queue, waiters, queries, mine, noSlots, waits, expired>>

WaitLoop(t) ==
  LoadSeq(t) \/ Deadline(t) \/ Register(t) \/ FutexWait(t) \/ Deregister(t) \/ Context(t)

----------------------------------------------------------------------------

\* The context of a query, or of a Serve, ends.
Expire(t) ==
  /\ IF t \in Sender THEN CanExpire ELSE CanStop
  /\ t \notin expired /\ pc[t] \notin {"idle", "stopped"}
  /\ expired' = expired \cup {t}
  /\ UNCHANGED <<taken, queue, waiters, pc, attempt, site, waits>>

SenderStep(c) ==
  \/ Scan(c) \/ ScanFailed(c) \/ Send(c) \/ SendFull(c) \/ Answered(c)
  \/ wakeConsumers(c) \/ wakeSlotWaiters(c)

ReceiverStep(r) == Recv(r) \/ RecvEmpty(r) \/ wakeProducers(r)

Run(t) ==
  \/ t \in Sender /\ SenderStep(t)
  \/ t \in Receiver /\ ReceiverStep(t)
  \/ WaitLoop(t)

Next ==
  \/ \E c \in Sender : Query(c) \/ Cancel(c)
  \/ \E t \in Thread : Run(t) \/ SleepEnds(t) \/ Expire(t)

Spec == Init /\ [][Next]_vars

\* The scheduler runs every goroutine that can run, a request that was taken is
\* answered, and a sleep ends at the 2 s cap at the latest.  A query that waits
\* for its response notices the end of its context only if that has a deadline.
FairSpec ==
  /\ Spec
  /\ \A t \in Thread : WF_vars(Run(t)) /\ WF_vars(SleepEnds(t))
  /\ HasDeadline => \A c \in Sender : WF_vars(Cancel(c))

----------------------------------------------------------------------------
(* Properties *)

Labels ==
  {"idle", "scan", "send", "sentBump", "sentLook", "sentWake", "await",
   "freeBump", "freeLook", "freeWake", "recv", "gotBump", "gotLook", "gotWake", "stopped",
   "load", "deadline", "register", "futex", "sleep", "woken", "context"}

Registered(f) == {t \in Thread : pc[t] \in {"futex", "sleep", "woken"} /\ word[t] = f}

\* Types, and each waiters word counts exactly the threads between their
\* registration and their deregistration.
TypeOK ==
  /\ taken \subseteq Slot
  /\ queue \in Seq(Sender \X Nat) /\ Len(queue) <= QueueCap
  /\ waiters \in [Futex -> Nat]
  /\ \A f \in Futex : waiters[f] = Cardinality(Registered(f))
  /\ pc \in [Thread -> Labels]
  /\ queries \in [Sender -> Nat]
  /\ todo \in [Sender -> SUBSET Slot]
  /\ mine \in [Sender -> Slot]
  /\ noSlots \in [Sender -> BOOLEAN]
  /\ site \in [Thread -> {"first", "second", "third", "last", "done"}]
  /\ word \in [Thread -> Futex]
  /\ current \subseteq Thread /\ expired \subseteq Thread

\* While every Serve goes on, a request in the queue is never left to sleeping
\* receivers: one of them is awake, or the sender has yet to wake one.  No timer
\* is needed for it.
RequestNoticed ==
  queue # <<>> /\ Receiver \cap expired = {} /\ Receiver # {} =>
    \/ \E r \in Receiver : pc[r] \notin {"sleep", "stopped"}
    \/ \E c \in Sender : pc[c] \in {"sentBump", "sentLook", "sentWake"}

\* sendWait returns once the context is done, even if no Serve is left to wake
\* it, no slot is ever freed and the context has no deadline: at the next 2 s cap,
\* which a comment in the tests denies (NoRescue in PeerBlocking).  (The number of
\* queries is bounded, so the senders come to rest together.)
ExpiredSendEnds ==
  (\E c \in Sender : c \in expired /\ pc[c] # "idle") ~>
    (\A c \in Sender \cap expired : pc[c] \in {"idle", "await"})

AtRest == \A t \in Thread : pc[t] \in {"idle", "sleep", "stopped", "await"}

\* futexWake(1) on each address wakes the right group: with no context ending,
\* no sender sleeps on, with everybody else at rest, while a slot is free and
\* the queue has room.
RightGroup ==
  AtRest /\ (\E c \in Sender : pc[c] = "sleep") =>
    taken = Slot \/ Len(queue) = QueueCap
=============================================================================
