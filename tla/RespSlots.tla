----------------------------- MODULE RespSlots ------------------------------
(***************************************************************************)
(* Response slots and the life of a query.  A client goroutine acquires a  *)
(* slot, enqueues its request with the id (slot, generation), waits for    *)
(* the slot to become READY and releases it; when its context expires it   *)
(* cancels.  A handler goroutine of the server dequeues a request and      *)
(* writes the response into the slot named by the id, or cancels it.       *)
(*                                                                         *)
(* One action per atomic access of the slot and per system call, since no  *)
(* lock protects a slot.  The request queue, which a mutex does protect,   *)
(* is a bounded sequence (ArenaQueue implements it).  The wait between two *)
(* attempts of sendWait is a retry at an arbitrary later moment.           *)
(***************************************************************************)
EXTENDS Integers, Sequences, FiniteSets

CONSTANTS
  Client, Handler,   \* client goroutines, server handler goroutines
  Proc, PidOf,       \* client processes; PidOf[c]: the process of client c
  Mortal,            \* the processes that may be killed
  NoPid,             \* owner_pid = 0
  N,                 \* number of response slots
  QueueCap,          \* requests the queue can hold
  GenMod, GenStart,  \* generations wrap at GenMod (2^32); their first value
  MaxQueries,        \* bound: MaxQueries[c] queries of client c
  CanExpire,         \* may the context of a query end?
  HasDeadline,       \* has the context a deadline (or only a cancel function)?
  CanFail,           \* may the handler return an error?
  CanOverflow        \* may the handler's response be too long for a slot?

Thread == Client \cup Handler
Slot == 0..(N - 1)
Gen == 0..(GenMod - 1)

ASSUME SlotAssumption ==
  /\ Client \cap Handler = {}
  /\ N \in Nat \ {0} /\ QueueCap \in Nat \ {0}
  /\ GenMod \in Nat /\ GenMod > 1 /\ GenStart \in Gen
  /\ PidOf \in [Client -> Proc] /\ NoPid \notin Proc /\ Mortal \subseteq Proc
  /\ MaxQueries \in [Client -> Nat]
  /\ CanExpire \in BOOLEAN /\ HasDeadline \in BOOLEAN /\ CanFail \in BOOLEAN
  /\ CanOverflow \in BOOLEAN

VARIABLES
  state,       \* state[s]: "FREE", "ACQUIRED" or "READY"; also the futex word
  owner,       \* owner_pid
  generation,  \* generation
  waiters,     \* waiters on the slot
  data,        \* the response in the slot: the request it answers
  hint,        \* resp_hint
  queue,       \* requests in flight: [req, slot, gen]
  alive,       \* client processes that exist
  pc,
  slot, gen,   \* per thread: the two halves of the id it works on
  req,         \* per thread: the request, <<client, number>>
  pos,         \* per client: position of the scan over the slots
  seen,        \* per client: the slot state it last loaded
  holder,      \* per client: the owner pid it last loaded
  fresh,       \* per client: acquired in the first pass (the hint is updated)?
  due,         \* per client: does sendWait look at the context before it tries again?
  waiting,     \* per client: counted in the waiters of its slot?
  expired,     \* per client: is the context done?
  outcome,     \* per client: how its last query ended: "ok", "stale", "ctx"
  answer       \* per client: the request answered by the response it read

shared == <<state, owner, generation, waiters, data, hint, queue, alive>>
ids == <<slot, gen, req>>
scan == <<pos, seen, holder, fresh, due>>
results == <<outcome, answer>>
vars == <<shared, pc, ids, scan, waiting, expired, results>>

NoReq == <<>>

Init ==
  /\ state = [s \in Slot |-> "FREE"]
  /\ owner = [s \in Slot |-> NoPid]
  /\ generation = [s \in Slot |-> GenStart]
  /\ waiters = [s \in Slot |-> 0]
  /\ data = [s \in Slot |-> NoReq]
  /\ hint = 0
  /\ queue = <<>>
  /\ alive = Proc
  /\ pc = [t \in Thread |-> "idle"]
  /\ slot = [t \in Thread |-> 0]
  /\ gen = [t \in Thread |-> 0]
  /\ req = [t \in Thread |-> IF t \in Client THEN <<t, 0>> ELSE NoReq]
  /\ pos = [c \in Client |-> 0]
  /\ seen = [c \in Client |-> "FREE"]
  /\ holder = [c \in Client |-> NoPid]
  /\ fresh = [c \in Client |-> TRUE]
  /\ due = [c \in Client |-> FALSE]
  /\ waiting = [c \in Client |-> FALSE]
  /\ expired = [c \in Client |-> FALSE]
  /\ outcome = [c \in Client |-> "none"]
  /\ answer = [c \in Client |-> NoReq]

Goto(t, from, to) ==
  /\ pc[t] = from
  /\ pc' = [pc EXCEPT ![t] = to]

\* A step that reads and branches only.
Branch(t, from, to) ==
  /\ Goto(t, from, to)
  /\ UNCHANGED <<shared, ids, scan, waiting, expired, results>>

\* CompareAndSwap(state[s], old, new), or the failure branch.
SlotCAS(t, from, s, old, new, ok, fail) ==
  /\ Goto(t, from, IF state[s] = old THEN ok ELSE fail)
  /\ state' = IF state[s] = old THEN [state EXCEPT ![s] = new] ELSE state

----------------------------------------------------------------------------
(* acquireRespSlot *)

StartScan(c, from) ==
  /\ Goto(c, from, "scan")
  /\ slot' = [slot EXCEPT ![c] = hint]
  /\ pos' = [pos EXCEPT ![c] = 0]

Query(c) ==
  /\ req[c][2] < MaxQueries[c]
  /\ StartScan(c, "idle")
  /\ req' = [req EXCEPT ![c] = <<c, req[c][2] + 1>>]
  /\ expired' = [expired EXCEPT ![c] = FALSE]
  /\ outcome' = [outcome EXCEPT ![c] = "none"]
  /\ UNCHANGED <<shared, gen, seen, holder, fresh, due, waiting, answer>>

\* First pass: CAS FREE -> ACQUIRED, from hint on; then the second pass from 0.
Scan(c) ==
  LET s == slot[c]
      lastOne == pos[c] + 1 = N
  IN  /\ SlotCAS(c, "scan", s, "FREE", "ACQUIRED", "own", IF lastOne THEN "stale" ELSE "scan")
      /\ fresh' = [fresh EXCEPT ![c] = TRUE]
      /\ IF state[s] = "FREE"
         THEN UNCHANGED <<slot, pos>>
         ELSE /\ slot' = [slot EXCEPT ![c] = IF lastOne THEN 0 ELSE (s + 1) % N]
              /\ pos' = [pos EXCEPT ![c] = IF lastOne THEN 0 ELSE pos[c] + 1]
      /\ UNCHANGED <<owner, generation, waiters, data, hint, queue, alive,
                     gen, req, seen, holder, due, waiting, expired, results>>

\* Second pass, next slot; after the last one there is no slot to be had.
NextStale(c) ==
  LET lastOne == slot[c] + 1 = N
  IN  /\ pc' = [pc EXCEPT ![c] = IF lastOne THEN "retry" ELSE "stale"]
      /\ slot' = [slot EXCEPT ![c] = IF lastOne THEN 0 ELSE slot[c] + 1]

\* Mutant of StaleState: only ACQUIRED slots are looked at.
StaleStateAcquired(c) ==
  /\ pc[c] = "stale"
  /\ seen' = [seen EXCEPT ![c] = state[slot[c]]]
  /\ IF state[slot[c]] # "ACQUIRED"
     THEN NextStale(c)
     ELSE Goto(c, "stale", "staleOwner") /\ UNCHANGED slot
  /\ UNCHANGED <<shared, gen, req, pos, holder, fresh, due, waiting, expired, results>>

StaleState(c) ==
  /\ pc[c] = "stale"
  /\ seen' = [seen EXCEPT ![c] = state[slot[c]]]
  /\ IF state[slot[c]] = "FREE"
     THEN NextStale(c)
     ELSE Goto(c, "stale", "staleOwner") /\ UNCHANGED slot
  /\ UNCHANGED <<shared, gen, req, pos, holder, fresh, due, waiting, expired, results>>

StaleOwner(c) ==
  /\ pc[c] = "staleOwner"
  /\ holder' = [holder EXCEPT ![c] = owner[slot[c]]]
  /\ IF owner[slot[c]] = NoPid
     THEN NextStale(c)
     ELSE Goto(c, "staleOwner", "staleProbe") /\ UNCHANGED slot
  /\ UNCHANGED <<shared, gen, req, pos, seen, fresh, due, waiting, expired, results>>

\* pidAlive(pid), which takes 0 for alive; pid is not used again.
StaleProbe(c) ==
  /\ pc[c] = "staleProbe"
  /\ holder' = [holder EXCEPT ![c] = NoPid]
  /\ IF holder[c] \in alive \cup {NoPid}
     THEN NextStale(c)
     ELSE Goto(c, "staleProbe", "staleClear") /\ UNCHANGED slot
  /\ UNCHANGED <<shared, gen, req, pos, seen, fresh, due, waiting, expired, results>>

StaleClear(c) ==
  /\ Goto(c, "staleClear", "staleFree")
  /\ owner' = [owner EXCEPT ![slot[c]] = NoPid]
  /\ UNCHANGED <<state, generation, waiters, data, hint, queue, alive,
                 ids, scan, waiting, expired, results>>

StaleFree(c) ==
  /\ pc[c] = "staleFree"
  /\ IF state[slot[c]] = seen[c]
     THEN /\ Goto(c, "staleFree", "staleGrab")
          /\ state' = [state EXCEPT ![slot[c]] = "FREE"]
          /\ UNCHANGED slot
     ELSE NextStale(c) /\ UNCHANGED state
  /\ UNCHANGED <<owner, generation, waiters, data, hint, queue, alive,
                 gen, req, scan, waiting, expired, results>>

StaleGrab(c) ==
  /\ pc[c] = "staleGrab"
  /\ fresh' = [fresh EXCEPT ![c] = FALSE]
  /\ IF state[slot[c]] = "FREE"
     THEN /\ Goto(c, "staleGrab", "own")
          /\ state' = [state EXCEPT ![slot[c]] = "ACQUIRED"]
          /\ UNCHANGED slot
     ELSE NextStale(c) /\ UNCHANGED state
  /\ UNCHANGED <<owner, generation, waiters, data, hint, queue, alive,
                 gen, req, pos, seen, holder, due, waiting, expired, results>>

Own(c) ==
  /\ Goto(c, "own", "bump")
  /\ owner' = [owner EXCEPT ![slot[c]] = PidOf[c]]
  /\ UNCHANGED <<state, generation, waiters, data, hint, queue, alive,
                 ids, scan, waiting, expired, results>>

Succ(g) == (g + 1) % GenMod

\* Mutant of Bump: generation 0 is handed out after the wrap.
BumpZero(c) ==
  /\ Goto(c, "bump", IF fresh[c] THEN "hint" ELSE "send")
  /\ generation' = [generation EXCEPT ![slot[c]] = Succ(@)]
  /\ gen' = [gen EXCEPT ![c] = generation'[slot[c]]]
  /\ UNCHANGED <<state, owner, waiters, data, hint, queue, alive,
                 slot, req, scan, waiting, expired, results>>

\* AddUint32(generation, 1); a result of 0 is added to once more, and only once.
Bump(c) ==
  LET g == Succ(generation[slot[c]])
      bumped == IF fresh[c] THEN "hint" ELSE "send"
  IN  /\ Goto(c, "bump", IF g = 0 THEN "bumpAgain" ELSE bumped) \/ Goto(c, "bumpAgain", bumped)
      /\ generation' = [generation EXCEPT ![slot[c]] = g]
      /\ gen' = [gen EXCEPT ![c] = g]
      /\ UNCHANGED <<state, owner, waiters, data, hint, queue, alive,
                     slot, req, scan, waiting, expired, results>>

Hint(c) ==
  /\ Goto(c, "hint", "send")
  /\ hint' = (slot[c] + 1) % N
  /\ UNCHANGED <<state, owner, generation, waiters, data, queue, alive,
                 ids, scan, waiting, expired, results>>

AcquireStep(c) ==
  \/ Scan(c) \/ StaleState(c) \/ StaleOwner(c) \/ StaleProbe(c) \/ StaleClear(c)
  \/ StaleFree(c) \/ StaleGrab(c) \/ Own(c) \/ Bump(c) \/ Hint(c)

----------------------------------------------------------------------------
(* releaseRespSlot: owner, then state; each caller has its own way on *)

Disown(c, from, to) ==
  /\ Goto(c, from, to)
  /\ owner' = [owner EXCEPT ![slot[c]] = NoPid]
  /\ UNCHANGED <<state, generation, waiters, data, hint, queue, alive,
                 ids, scan, waiting, expired, results>>

FreeSlot(c, from, to) ==
  /\ Goto(c, from, to)
  /\ state' = [state EXCEPT ![slot[c]] = "FREE"]
  /\ UNCHANGED <<owner, generation, waiters, data, hint, queue, alive,
                 ids, scan, waiting, expired, results>>

----------------------------------------------------------------------------
(* trySend and sendWait *)

\* sendLocked under the mutex; a full queue gives the slot back.  (due is local
\* to sendWait: it is FALSE between calls.)
Send(c) ==
  \/ /\ Len(queue) < QueueCap
     /\ Goto(c, "send", "spinGen")
     /\ queue' = Append(queue, [req |-> req[c], slot |-> slot[c], gen |-> gen[c]])
     /\ due' = [due EXCEPT ![c] = FALSE]
     /\ UNCHANGED <<state, owner, generation, waiters, data, hint, alive,
                    ids, pos, seen, holder, fresh, waiting, expired, results>>
  \/ Len(queue) = QueueCap /\ Branch(c, "send", "fullOwner")

\* Mutant of SendFull: the slot is disowned and not freed.
SendFullKeeps(c) == Disown(c, "fullOwner", "retry")

SendFull(c) == Disown(c, "fullOwner", "fullState") \/ FreeSlot(c, "fullState", "retry")

\* sendWait tries again at once after its first attempt and after the one that
\* follows a wait; before every other attempt it waits and looks at the context.
Retry(c) ==
  \/ /\ ~(due[c] /\ expired[c])
     /\ StartScan(c, "retry")
     /\ due' = [due EXCEPT ![c] = ~due[c]]
     /\ UNCHANGED <<shared, gen, req, seen, holder, fresh, waiting, expired, results>>
  \/ /\ due[c] /\ expired[c]
     /\ Goto(c, "retry", "idle")
     /\ outcome' = [outcome EXCEPT ![c] = "ctx"]
     /\ due' = [due EXCEPT ![c] = FALSE]
     /\ UNCHANGED <<shared, ids, pos, seen, holder, fresh, waiting, expired, answer>>

SendStep(c) == Send(c) \/ SendFull(c) \/ Retry(c)

----------------------------------------------------------------------------
(* waitResponse *)

\* Leave waitResponse with an error; the deferred decrement comes first.
Fail(c, from, err) ==
  /\ Goto(c, from, IF waiting[c] THEN "unwait" ELSE "cancel")
  /\ outcome' = [outcome EXCEPT ![c] = err]
  /\ UNCHANGED <<shared, ids, scan, waiting, expired, answer>>

\* Spin phase: context, generation, then state; the last round goes on to wait.
SpinGen(c) ==
  \/ expired[c] /\ Fail(c, "spinGen", "ctx")
  \/ ~expired[c] /\ generation[slot[c]] # gen[c] /\ Fail(c, "spinGen", "stale")
  \/ ~expired[c] /\ generation[slot[c]] = gen[c] /\ Branch(c, "spinGen", "spinState")

\* Mutant of SpinState: a slot that is not free is taken for ready.
SpinStateEager(c) ==
  \/ state[slot[c]] # "FREE" /\ Branch(c, "spinState", "read")
  \/ state[slot[c]] = "FREE" /\ Branch(c, "spinState", "wait")

SpinState(c) ==
  \/ state[slot[c]] = "READY" /\ Branch(c, "spinState", "read")
  \/ state[slot[c]] # "READY" /\ Branch(c, "spinState", "spinGen")
  \/ state[slot[c]] # "READY" /\ Branch(c, "spinState", "wait")

\* Mutant of Wait: the client does not register.
WaitUncounted(c) ==
  /\ Goto(c, "wait", "load")
  /\ waiting' = [waiting EXCEPT ![c] = TRUE]
  /\ UNCHANGED <<shared, ids, scan, expired, results>>

Wait(c) ==
  /\ Goto(c, "wait", "load")
  /\ waiters' = [waiters EXCEPT ![slot[c]] = @ + 1]
  /\ waiting' = [waiting EXCEPT ![c] = TRUE]
  /\ UNCHANGED <<state, owner, generation, data, hint, queue, alive, ids, scan, expired, results>>

\* Futex phase: state first, then generation, then the context.
LoadState(c) ==
  /\ Goto(c, "load", "loadGen")
  /\ seen' = [seen EXCEPT ![c] = state[slot[c]]]
  /\ UNCHANGED <<shared, ids, pos, holder, fresh, due, waiting, expired, results>>

LoadGen(c) ==
  \/ generation[slot[c]] # gen[c] /\ Fail(c, "loadGen", "stale")
  \/ /\ generation[slot[c]] = gen[c]
     /\ Branch(c, "loadGen", IF seen[c] = "READY" THEN "read" ELSE "ctx")

\* Mutant of Ctx: the context is not looked at.
CtxIgnored(c, from, to) == Branch(c, from, to)

Ctx(c, from, to) ==
  \/ expired[c] /\ Fail(c, from, "ctx")
  \/ ~expired[c] /\ Branch(c, from, to)

\* The kernel compares the state with the one loaded, then sleeps.
FutexWait(c) == Branch(c, "futex", IF state[slot[c]] = seen[c] THEN "sleep" ELSE "woken")

\* A signal, or the deadline of the context if it has one, ends the sleep.
SleepEnds(c) == expired[c] /\ HasDeadline /\ Branch(c, "sleep", "woken")

Interrupted(c) == Branch(c, "sleep", "woken")

\* readAndRelease: copy, then releaseRespSlot.
Read(c) ==
  /\ Goto(c, "read", "readOwner")
  /\ outcome' = [outcome EXCEPT ![c] = "ok"]
  /\ answer' = [answer EXCEPT ![c] = data[slot[c]]]
  /\ UNCHANGED <<shared, ids, scan, waiting, expired>>

ReadRelease(c) ==
  \/ Disown(c, "readOwner", "readState")
  \/ FreeSlot(c, "readState", IF waiting[c] THEN "unwait" ELSE "idle")

\* The deferred decrement of the waiters.
Unwait(c) ==
  /\ Goto(c, "unwait", IF outcome[c] = "ok" THEN "idle" ELSE "cancel")
  /\ waiters' = [waiters EXCEPT ![slot[c]] = @ - 1]
  /\ waiting' = [waiting EXCEPT ![c] = FALSE]
  /\ UNCHANGED <<state, owner, generation, data, hint, queue, alive, ids, scan, expired, results>>

WaitStep(c) ==
  \/ SpinGen(c) \/ SpinState(c) \/ Wait(c) \/ LoadState(c) \/ LoadGen(c)
  \/ Ctx(c, "ctx", "futex") \/ FutexWait(c) \/ SleepEnds(c) \/ Ctx(c, "woken", "load")
  \/ Read(c) \/ ReadRelease(c) \/ Unwait(c)

----------------------------------------------------------------------------
(* cancelRequest, by a client after an error or by a handler, and the drain *)

\* Where a thread goes when cancelRequest returns.
Cancelled(t) == IF t \in Client THEN "drainGen" ELSE "idle"

CancelGen(t) ==
  Branch(t, "cancel", IF generation[slot[t]] = gen[t] THEN "cancelFree" ELSE Cancelled(t))

CancelFree(t) ==
  /\ SlotCAS(t, "cancelFree", slot[t], "ACQUIRED", "FREE", "cancelOwner", Cancelled(t))
  /\ UNCHANGED <<owner, generation, waiters, data, hint, queue, alive,
                 ids, scan, waiting, expired, results>>

CancelOwner(t) == Disown(t, "cancelOwner", "cancelBump")

CancelBump(t) ==
  /\ Goto(t, "cancelBump", "cancelWaiters")
  /\ generation' = [generation EXCEPT ![slot[t]] = Succ(@)]
  /\ UNCHANGED <<state, owner, waiters, data, hint, queue, alive,
                 ids, scan, waiting, expired, results>>

SleepersOn(s) == {c \in Client : pc[c] = "sleep" /\ slot[c] = s}

CancelWaiters(t) ==
  Branch(t, "cancelWaiters", IF waiters[slot[t]] > 0 THEN "cancelWake" ELSE Cancelled(t))

\* Wake everyone who sleeps on the state of the slot.
CancelWake(t) ==
  /\ pc[t] = "cancelWake"
  /\ pc' = [u \in Thread |->
              IF u = t THEN Cancelled(t)
              ELSE IF u \in SleepersOn(slot[t]) THEN "woken" ELSE pc[u]]
  /\ UNCHANGED <<shared, ids, scan, waiting, expired, results>>

CancelStep(t) ==
  \/ CancelGen(t) \/ CancelFree(t) \/ CancelOwner(t) \/ CancelBump(t)
  \/ CancelWaiters(t) \/ CancelWake(t)

\* tryDrainResponse
Drain(c) ==
  \/ Branch(c, "drainGen", IF generation[slot[c]] = gen[c] THEN "drainState" ELSE "idle")
  \/ Branch(c, "drainState", IF state[slot[c]] = "READY" THEN "drainOwner" ELSE "idle")
  \/ Disown(c, "drainOwner", "drainFree")
  \/ FreeSlot(c, "drainFree", "idle")

----------------------------------------------------------------------------
(* Serve: one handler goroutine per request *)

Recv(h) ==
  /\ queue # <<>>
  /\ Goto(h, "idle", "handle")
  /\ slot' = [slot EXCEPT ![h] = Head(queue).slot]
  /\ gen' = [gen EXCEPT ![h] = Head(queue).gen]
  /\ req' = [req EXCEPT ![h] = Head(queue).req]
  /\ queue' = Tail(queue)
  /\ UNCHANGED <<state, owner, generation, waiters, data, hint, alive,
                 scan, waiting, expired, results>>

\* The handler answers; or fails and the request is cancelled; or answers with
\* more than the slot can hold, an error Serve ignores.
Handle(h) ==
  \/ Branch(h, "handle", "replyState")
  \/ CanFail /\ Branch(h, "handle", "cancel")
  \/ CanOverflow /\ Branch(h, "handle", "idle")

\* writeResponse
ReplyState(h) ==
  Branch(h, "replyState", IF state[slot[h]] = "ACQUIRED" THEN "replyGen" ELSE "idle")

ReplyGen(h) ==
  Branch(h, "replyGen", IF generation[slot[h]] = gen[h] THEN "replyCopy" ELSE "idle")

ReplyCopy(h) ==
  /\ Goto(h, "replyCopy", "replyReady")
  /\ data' = [data EXCEPT ![slot[h]] = req[h]]
  /\ UNCHANGED <<state, owner, generation, waiters, hint, queue, alive,
                 ids, scan, waiting, expired, results>>

ReplyReady(h) ==
  /\ SlotCAS(h, "replyReady", slot[h], "ACQUIRED", "READY", "replyWaiters", "idle")
  /\ UNCHANGED <<owner, generation, waiters, data, hint, queue, alive,
                 ids, scan, waiting, expired, results>>

\* Mutant of ReplyWaiters: the reply is published without a wakeup.
ReplyWaitersNever(h) == Branch(h, "replyWaiters", "idle")

ReplyWaiters(h) ==
  Branch(h, "replyWaiters", IF waiters[slot[h]] > 0 THEN "replyWake" ELSE "idle")

\* futexWake(state, 1)
ReplyWake(h) ==
  LET S == SleepersOn(slot[h])
  IN  /\ pc[h] = "replyWake"
      /\ \/ \E c \in S : pc' = [pc EXCEPT ![h] = "idle", ![c] = "woken"]
         \/ S = {} /\ pc' = [pc EXCEPT ![h] = "idle"]
      /\ UNCHANGED <<shared, ids, scan, waiting, expired, results>>

HandlerStep(h) ==
  \/ Recv(h) \/ Handle(h) \/ ReplyState(h) \/ ReplyGen(h) \/ ReplyCopy(h)
  \/ ReplyReady(h) \/ ReplyWaiters(h) \/ ReplyWake(h)

----------------------------------------------------------------------------

Expire(c) ==
  /\ CanExpire /\ ~expired[c] /\ pc[c] \notin {"idle", "dead"}
  /\ expired' = [expired EXCEPT ![c] = TRUE]
  /\ UNCHANGED <<shared, pc, ids, scan, waiting, results>>

\* A client process is killed: its goroutines stop where they are.
Crash(p) ==
  /\ p \in alive \cap Mortal
  /\ alive' = alive \ {p}
  /\ pc' = [t \in Thread |-> IF t \in Client /\ PidOf[t] = p THEN "dead" ELSE pc[t]]
  /\ UNCHANGED <<state, owner, generation, waiters, data, hint, queue,
                 ids, scan, waiting, expired, results>>

ClientStep(c) ==
  AcquireStep(c) \/ SendStep(c) \/ WaitStep(c) \/ CancelStep(c) \/ Drain(c)

Next ==
  \/ \E c \in Client : Query(c) \/ ClientStep(c) \/ Expire(c) \/ Interrupted(c)
  \/ \E h \in Handler : HandlerStep(h) \/ CancelStep(h)
  \/ \E p \in Proc : Crash(p)

Spec == Init /\ [][Next]_vars

\* Every goroutine that can run is run; nothing is assumed of signals, of the
\* end of a context, or of which sleeper the kernel wakes.
FairSpec ==
  /\ Spec
  /\ \A c \in Client : WF_vars(ClientStep(c))
  /\ \A h \in Handler : WF_vars(HandlerStep(h) \/ CancelStep(h))

----------------------------------------------------------------------------
(* Properties *)

\* Labels at which a client, if nobody interfered, still has its slot.  The last two
\* lines, the last one of ClientLabels and "leave" are labels of PeerSlots only.
TenantLabels ==
  {"own", "bump", "bumpAgain", "hint", "send", "fullOwner", "fullState", "spinGen", "spinState",
   "wait", "load", "loadGen", "ctx", "futex", "sleep", "woken", "read", "readOwner", "readState",
   "cancel", "cancelFree", "drainState", "drainOwner", "drainFree",
   "setHint", "loadId", "publish", "sent", "getState", "getGen", "lastState", "lastGen",
   "recheckGen", "recheckState", "ready"}

ClientLabels ==
  TenantLabels \cup
  {"idle", "scan", "stale", "staleOwner", "staleProbe", "staleClear", "staleFree", "staleGrab",
   "retry", "unwait", "cancelOwner", "cancelBump", "cancelWaiters", "cancelWake", "drainGen", "dead",
   "sendSleep", "drainLoad", "drainCheck"}

HandlerLabels ==
  {"idle", "handle", "replyState", "replyGen", "replyCopy", "replyReady", "replyWaiters",
   "replyWake", "cancel", "cancelFree", "cancelOwner", "cancelBump", "cancelWaiters",
   "cancelWake", "leave"}

Requests == Client \X Nat
SlotStates == {"FREE", "ACQUIRED", "READY"}
Outcomes == {"none", "ok", "stale", "ctx", "late"}   \* "late": PeerSlots only

\* Every thread is at a label of its own kind.
Located ==
  /\ pc \in [Thread -> ClientLabels \cup HandlerLabels]
  /\ \A c \in Client : pc[c] \in ClientLabels
  /\ \A h \in Handler : pc[h] \in HandlerLabels

\* The words of the slots, the queue, the ids, and the local variables of every thread.
SlotTypes ==
  /\ state \in [Slot -> SlotStates]
  /\ owner \in [Slot -> Proc \cup {NoPid}]
  /\ generation \in [Slot -> Gen]
  /\ waiters \in [Slot -> Int]
  /\ data \in [Slot -> Requests \cup {NoReq}]
  /\ hint \in Slot
  /\ queue \in Seq([req : Requests, slot : Slot, gen : Gen]) /\ Len(queue) <= QueueCap
  /\ Located
  /\ slot \in [Thread -> Slot]
  /\ gen \in [Thread -> Gen]
  /\ req \in [Thread -> Requests \cup {NoReq}]
  /\ \A c \in Client : req[c] \in Requests
  /\ seen \in [Client -> SlotStates]
  /\ holder \in [Client -> Proc \cup {NoPid}]
  /\ waiting \in [Client -> BOOLEAN]
  /\ expired \in [Client -> BOOLEAN]
  /\ outcome \in [Client -> Outcomes]
  /\ answer \in [Client -> Requests \cup {NoReq}]

Tenant(c) == pc[c] \in TenantLabels \/ (pc[c] = "unwait" /\ outcome[c] # "ok")

\* While handlers do not cancel and nobody is killed, a client has the slot it
\* acquired to itself until it gives it back: timeouts, cancels and late replies
\* of other queries neither free it nor hand it to a second client.
SingleTenant ==
  \A c \in Client : Tenant(c) =>
    /\ state[slot[c]] # "FREE"
    /\ \A d \in Client \ {c} : Tenant(d) => slot[d] # slot[c]

\* A query that returns a response returns the response to its own request.
OwnResponse == \A c \in Client : outcome[c] = "ok" => answer[c] = req[c]

\* Labels at which a client has no id: before Bump, or between queries.
NoIdLabels ==
  {"idle", "scan", "stale", "staleOwner", "staleProbe", "staleClear", "staleFree", "staleGrab",
   "retry", "own", "bump", "bumpAgain", "setHint", "loadId", "sendSleep", "dead"}

HasId(c) == pc[c] \notin NoIdLabels

\* No two queries in progress carry the same id: what one of them does with its
\* generation never passes for the other.
UniqueIds ==
  \A c, d \in Client :
    c # d /\ HasId(c) /\ HasId(d) => slot[c] # slot[d] \/ gen[c] # gen[d]

\* No generation goes through the wrap of its 32 bits.
NoWrap == [][\A s \in Slot : generation'[s] >= generation[s]]_vars

\* Between the two additions of a client others do not bring the generation round
\* to the end of its 32 bits once more.
NoLap == \A c \in Client : pc[c] = "bumpAgain" => generation[slot[c]] # GenMod - 1

Quiet == queue = <<>> /\ \A t \in Thread : pc[t] = "idle"

\* When nothing is going on every slot is free and uncounted: no query, however
\* it ended, keeps a slot or leaves a waiter behind.
NoLeak == Quiet => \A s \in Slot : state[s] = "FREE" /\ waiters[s] = 0

\* ErrStaleSlot is for a slot that was cancelled or reused: with handlers that
\* never fail and processes that live, no query is told so.
NeverStale == \A c \in Client : outcome[c] # "stale"

\* The second pass of acquireRespSlot frees only slots of dead processes.
RecoversDeadOnly ==
  [][\A c \in Client :
       pc[c] = "staleFree" /\ pc'[c] = "staleGrab" =>
         \A d \in Client : Tenant(d) => slot[d] # slot[c]]_vars

\* A query whose context is done comes to an end, server or no server.
ExpiredEnds == \A c \in Client : (expired[c] /\ pc[c] # "idle") ~> pc[c] \in {"idle", "dead"}

\* A client that waits for a response that is ready gets to return.
ReadyDelivered ==
  \A c \in Client :
    (Tenant(c) /\ state[slot[c]] = "READY" /\ generation[slot[c]] = gen[c]) ~> pc[c] = "idle"

Seeking == {c \in Client : pc[c] \in {"scan", "stale", "staleOwner", "staleProbe", "staleClear",
                                      "staleFree", "staleGrab", "retry"}}

\* A slot that names a dead process as its owner does not keep the name while
\* some client is looking for a slot: the second pass of its search finds it.
DeadOwnerNoticed ==
  \A s \in Slot, p \in Mortal :
    (owner[s] = p /\ p \notin alive /\ Seeking # {}) ~> (owner[s] # p \/ Seeking = {})
=============================================================================
