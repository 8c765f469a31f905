----------------------------- MODULE PeerSlots ------------------------------
(***************************************************************************)
(* C clients on the slots of RespSlots, next to Go clients or alone.  The  *)
(* words of a slot and most accesses to them are those of the Go code; C   *)
(* differs in what it does between them: it loads the generation after it  *)
(* incremented it, leaves generation 0 alone, does not spin, looks at the  *)
(* slot once more around every sleep, and drains with try_get.             *)
(*                                                                         *)
(* A segment has a mode.  In string mode the request queue is under the    *)
(* mutex.  In integer mode it is the lock-free ring of IntQueue, of which  *)
(* this module keeps what shows: a request is in its place before it can   *)
(* be received, and a place is received before it is free again.  Go       *)
(* processes open string segments only.                                    *)
(*                                                                         *)
(* reqrep_clear, which any C process may call on a string segment, resets  *)
(* the queue and takes every slot from its tenant.                         *)
(***************************************************************************)
EXTENDS RespSlots

CONSTANT
  Worlds  \* the systems considered: mode of the segment, its Go and its C clients,
          \* the bounds on the queries of each and on the calls of reqrep_clear,
          \* and whether deadlines end and handlers of a Go server fail

ASSUME WorldAssumption ==
  /\ Worlds \subseteq [mode : {"str", "int"}, go : SUBSET Client, c : SUBSET Client,
                       queries : Nat, clears : Nat, expires : BOOLEAN, fails : BOOLEAN]
  /\ \A w \in Worlds :
       /\ w.go \cap w.c = {}
       /\ w.mode = "int" =>
            w.go = {} /\ Mortal = {} /\ ~w.fails /\ \A g, h \in Handler : g = h

VARIABLES
  world,     \* the system, one of Worlds
  timedOut,  \* per client: did the last futex wait of send_wait end with ETIMEDOUT?
  clear      \* the call of reqrep_clear: where it is, its slot, the state it loaded

peerVars == <<vars, world, timedOut, clear>>

PeerInit ==
  /\ Init
  /\ world \in Worlds
  /\ timedOut = [c \in Client |-> FALSE]
  /\ clear = [at |-> "idle", slot |-> 0, seen |-> "FREE", calls |-> 0]

----------------------------------------------------------------------------
(* reqrep_slot_acquire *)

\* Second pass, the owner is dead: free the slot at once, owner_pid as it is.
ProbeOwner(c) ==
  /\ pc[c] = "staleProbe"
  /\ holder' = [holder EXCEPT ![c] = NoPid]
  /\ IF holder[c] \in alive \cup {NoPid}
     THEN NextStale(c)
     ELSE Goto(c, "staleProbe", "staleFree") /\ UNCHANGED slot
  /\ UNCHANGED <<shared, gen, req, pos, seen, fresh, due, waiting, expired, results>>

\* Mutant of AddGeneration: the generation stays.
AddGenerationNot(c) == Branch(c, "bump", IF fresh[c] THEN "setHint" ELSE "loadId")

AddGeneration(c) ==
  /\ Goto(c, "bump", IF fresh[c] THEN "setHint" ELSE "loadId")
  /\ generation' = [generation EXCEPT ![slot[c]] = Succ(@)]
  /\ UNCHANGED <<state, owner, waiters, data, hint, queue, alive,
                 ids, scan, waiting, expired, results>>

SetHint(c) ==
  /\ Goto(c, "setHint", "loadId")
  /\ hint' = (slot[c] + 1) % N
  /\ UNCHANGED <<state, owner, generation, waiters, data, queue, alive,
                 ids, scan, waiting, expired, results>>

SlotAcquire(c) ==
  \/ Scan(c) \/ StaleState(c) \/ StaleOwner(c) \/ ProbeOwner(c) \/ StaleFree(c)
  \/ StaleGrab(c) \/ Own(c) \/ AddGeneration(c) \/ SetHint(c)

\* reqrep_slot_release: the owner, then the state.
SlotRelease(c, first, second, to) == Disown(c, first, second) \/ FreeSlot(c, second, to)

----------------------------------------------------------------------------
(* reqrep_try_send, reqrep_int_try_send, send_wait *)

\* The id is made of the generation found in the slot now.
LoadId(c) ==
  /\ Goto(c, "loadId", "send")
  /\ gen' = [gen EXCEPT ![c] = generation[slot[c]]]
  /\ UNCHANGED <<shared, slot, req, scan, waiting, expired, results>>

Enqueue(c, to) ==
  /\ Goto(c, "send", to)
  /\ queue' = Append(queue, [req |-> req[c], slot |-> slot[c], gen |-> gen[c]])
  /\ due' = [due EXCEPT ![c] = FALSE]
  /\ UNCHANGED <<state, owner, generation, waiters, data, hint, alive,
                 ids, pos, seen, holder, fresh, waiting, expired, results>>

TrySend(c) ==
  \/ SlotAcquire(c)
  \/ LoadId(c)
  \/ Len(queue) < QueueCap /\ Enqueue(c, "sent")
  \/ Len(queue) = QueueCap /\ Branch(c, "send", "fullOwner")
  \/ SendFull(c)

\* Places of the ring that were received and are not yet free again.
Leaving == {h \in Handler : pc[h] = "leave"}

\* The place is claimed with a CAS of req_tail and published with the store to
\* its sequence.  A place that is being left is not free yet.
IntTrySend(c) ==
  \/ SlotAcquire(c)
  \/ LoadId(c)
  \/ Len(queue) + Cardinality(Leaving) < QueueCap /\ Enqueue(c, "publish")
  \/ Branch(c, "publish", "sent")
  \/ Len(queue) + Cardinality(Leaving) >= QueueCap /\ Branch(c, "send", "fullOwner")
  \/ SendFull(c)

\* Attempts come in pairs: one before the wait, one after it.  The deadline ends
\* the call before a wait, and after an attempt that follows a wait it ended.
SendWait(c) ==
  \/ /\ ~due[c] /\ ~timedOut[c]
     /\ StartScan(c, "retry")
     /\ due' = [due EXCEPT ![c] = TRUE]
     /\ UNCHANGED <<shared, gen, req, seen, holder, fresh, waiting, expired, results, timedOut>>
  \/ /\ due[c] /\ ~expired[c]
     /\ Branch(c, "retry", "sendSleep")
     /\ UNCHANGED timedOut
  \/ /\ timedOut[c] \/ (due[c] /\ expired[c])
     /\ Goto(c, "retry", "idle")
     /\ outcome' = [outcome EXCEPT ![c] = "ctx"]
     /\ due' = [due EXCEPT ![c] = FALSE]
     /\ timedOut' = [timedOut EXCEPT ![c] = FALSE]
     /\ UNCHANGED <<shared, ids, pos, seen, holder, fresh, waiting, expired, answer>>
  \/ \E b \in {FALSE, expired[c]} :
       /\ StartScan(c, "sendSleep")
       /\ timedOut' = [timedOut EXCEPT ![c] = b]
       /\ due' = [due EXCEPT ![c] = FALSE]
       /\ UNCHANGED <<shared, gen, req, seen, holder, fresh, waiting, expired, results>>

----------------------------------------------------------------------------
(* reqrep_try_get, reqrep_get_wait and their integer twins *)

LoadSeen(c, from, to) ==
  /\ Goto(c, from, to)
  /\ seen' = [seen EXCEPT ![c] = state[slot[c]]]
  /\ UNCHANGED <<shared, ids, pos, holder, fresh, due, waiting, expired, results>>

\* State first, then generation; what follows when the response is not there
\* depends on the caller.
TryGet(c, loading, checking, NotReady) ==
  \/ LoadSeen(c, loading, checking)
  \/ generation[slot[c]] # gen[c] /\ Fail(c, checking, "stale")
  \/ generation[slot[c]] = gen[c] /\ seen[c] = "READY" /\ Branch(c, checking, "read")
  \/ generation[slot[c]] = gen[c] /\ seen[c] # "READY" /\ NotReady

Register(c) ==
  /\ Goto(c, "wait", "recheckGen")
  /\ waiters' = [waiters EXCEPT ![slot[c]] = @ + 1]
  /\ waiting' = [waiting EXCEPT ![c] = TRUE]
  /\ UNCHANGED <<state, owner, generation, data, hint, queue, alive, ids, scan, expired, results>>

Deregister(c, from, to) ==
  /\ Goto(c, from, to)
  /\ waiters' = [waiters EXCEPT ![slot[c]] = @ - 1]
  /\ waiting' = [waiting EXCEPT ![c] = FALSE]
  /\ UNCHANGED <<state, owner, generation, data, hint, queue, alive, ids, scan, expired, results>>

\* After the registration: generation and state once more, the state for the wait.
Recheck(c) ==
  \/ generation[slot[c]] # gen[c] /\ Fail(c, "recheckGen", "stale")
  \/ generation[slot[c]] = gen[c] /\ Branch(c, "recheckGen", "recheckState")
  \/ LoadSeen(c, "recheckState", IF state[slot[c]] = "READY" THEN "ready" ELSE "ctx")

\* One try_get before the loop and one after every sleep go back to its head;
\* one that follows a READY seen by the loop is the last, whatever it returns.
GetWait(c) ==
  \/ TryGet(c, "getState", "getGen", Branch(c, "getGen", "load"))
  \/ LoadSeen(c, "load", IF state[slot[c]] = "READY" THEN "lastState" ELSE "wait")
  \/ Register(c) \/ Recheck(c) \/ Ctx(c, "ctx", "futex") \/ FutexWait(c) \/ SleepEnds(c)
  \/ Deregister(c, "woken", "getState")
  \/ Deregister(c, "ready", "lastState")
  \/ TryGet(c, "lastState", "lastGen", Fail(c, "lastGen", "ctx"))
  \/ Read(c) \/ ReadRelease(c) \/ Unwait(c)

----------------------------------------------------------------------------
(* reqrep_cancel, reqrep_request *)

\* Where reqrep_request goes on after reqrep_cancel: with the drain, or, when
\* its deadline was over before it began to wait, nowhere.
AfterCancel(c) == IF outcome[c] = "late" THEN "idle" ELSE "drainLoad"

CancelCAS(c) ==
  /\ SlotCAS(c, "cancelFree", slot[c], "ACQUIRED", "FREE", "cancelOwner", AfterCancel(c))
  /\ UNCHANGED <<owner, generation, waiters, data, hint, queue, alive,
                 ids, scan, waiting, expired, results>>

\* The threads after a wake of everyone who sleeps on slot s.
WakeAll(s) == [u \in Thread |-> IF u \in SleepersOn(s) THEN "woken" ELSE pc[u]]

CancelRequest(c) ==
  \/ Branch(c, "cancel", IF generation[slot[c]] = gen[c] THEN "cancelFree" ELSE AfterCancel(c))
  \/ CancelCAS(c) \/ CancelOwner(c) \/ CancelBump(c)
  \/ Branch(c, "cancelWaiters", IF waiters[slot[c]] > 0 THEN "cancelWake" ELSE AfterCancel(c))
  \/ /\ pc[c] = "cancelWake"
     /\ pc' = [WakeAll(slot[c]) EXCEPT ![c] = AfterCancel(c)]
     /\ UNCHANGED <<shared, ids, scan, waiting, expired, results>>

\* Mutant of DrainResponse: the generation is not compared.
DrainResponseUnchecked(c) ==
  \/ LoadSeen(c, "drainLoad", "drainCheck")
  \/ Branch(c, "drainCheck", IF seen[c] = "READY" THEN "drainOwner" ELSE "idle")
  \/ SlotRelease(c, "drainOwner", "drainFree", "idle")

\* try_get once more, its response discarded.
DrainResponse(c) ==
  \/ LoadSeen(c, "drainLoad", "drainCheck")
  \/ Branch(c, "drainCheck",
            IF generation[slot[c]] = gen[c] /\ seen[c] = "READY" THEN "drainOwner" ELSE "idle")
  \/ SlotRelease(c, "drainOwner", "drainFree", "idle")

\* What is left of the timeout after the send.
Remaining(c) ==
  \/ ~expired[c] /\ Branch(c, "sent", "getState")
  \/ expired[c] /\ Fail(c, "sent", "late")

Request(c) == Remaining(c) \/ GetWait(c) \/ CancelRequest(c) \/ DrainResponse(c)

StrRequest(c) == ((TrySend(c) \/ Request(c)) /\ UNCHANGED timedOut) \/ SendWait(c)

IntRequest(c) == ((IntTrySend(c) \/ Request(c)) /\ UNCHANGED timedOut) \/ SendWait(c)

----------------------------------------------------------------------------
(* Servers: reqrep_reply is writeResponse; integer mode *)

IntTryRecv(h) ==
  \/ /\ queue # <<>>
     /\ ~\E c \in Client : pc[c] = "publish" /\ req[c] = Head(queue).req
     /\ Goto(h, "idle", "leave")
     /\ slot' = [slot EXCEPT ![h] = Head(queue).slot]
     /\ gen' = [gen EXCEPT ![h] = Head(queue).gen]
     /\ req' = [req EXCEPT ![h] = Head(queue).req]
     /\ queue' = Tail(queue)
     /\ UNCHANGED <<state, owner, generation, waiters, data, hint, alive,
                    scan, waiting, expired, results>>
  \/ Branch(h, "leave", "handle")

StrReply(h) ==
  \/ Branch(h, "handle", "replyState")
  \/ CanOverflow /\ Branch(h, "handle", "idle")
  \/ ReplyState(h) \/ ReplyGen(h) \/ ReplyCopy(h) \/ ReplyReady(h)
  \/ ReplyWaiters(h) \/ ReplyWake(h)

IntReply(h) ==
  \/ Branch(h, "handle", "replyState")
  \/ ReplyState(h) \/ ReplyGen(h) \/ ReplyCopy(h) \/ ReplyReady(h)
  \/ ReplyWaiters(h) \/ ReplyWake(h)

\* A Go server cancels the request of a handler that failed.
GoCancel(h) == (world.fails /\ CanFail /\ Branch(h, "handle", "cancel")) \/ CancelStep(h)

----------------------------------------------------------------------------
(* reqrep_clear *)

ClearGoto(from, to) == clear.at = from /\ clear' = [clear EXCEPT !.at = to]

\* On to the next slot, or done: what remains wakes senders and servers, whose
\* sleep ends here at any moment.
NextSlot ==
  clear' = IF clear.slot + 1 < N
           THEN [clear EXCEPT !.at = "load", !.slot = clear.slot + 1]
           ELSE [clear EXCEPT !.at = "idle", !.slot = 0]

ClearReset ==
  /\ clear.at = "idle" /\ clear.calls < world.clears /\ world.mode = "str"
  /\ clear' = [clear EXCEPT !.at = "load", !.calls = clear.calls + 1]
  /\ queue' = <<>>
  /\ UNCHANGED <<state, owner, generation, waiters, data, hint, alive, pc>>

\* Load the state; CAS to FREE, again while another value is found that is not
\* FREE; owner, generation, and a wake of the sleepers if the slot counts any.
ClearSlot ==
  \/ /\ clear.at = "load"
     /\ IF state[clear.slot] = "FREE" THEN NextSlot
        ELSE clear' = [clear EXCEPT !.at = "cas", !.seen = state[clear.slot]]
     /\ UNCHANGED <<shared, pc>>
  \/ /\ clear.at = "cas"
     /\ IF state[clear.slot] = clear.seen
        THEN /\ clear' = [clear EXCEPT !.at = "owner"]
             /\ state' = [state EXCEPT ![clear.slot] = "FREE"]
        ELSE /\ IF state[clear.slot] = "FREE" THEN NextSlot
                ELSE clear' = [clear EXCEPT !.seen = state[clear.slot]]
             /\ UNCHANGED state
     /\ UNCHANGED <<owner, generation, waiters, data, hint, queue, alive, pc>>
  \/ /\ ClearGoto("owner", "bump")
     /\ owner' = [owner EXCEPT ![clear.slot] = NoPid]
     /\ UNCHANGED <<state, generation, waiters, data, hint, queue, alive, pc>>
  \/ /\ ClearGoto("bump", "waiters")
     /\ generation' = [generation EXCEPT ![clear.slot] = Succ(@)]
     /\ UNCHANGED <<state, owner, waiters, data, hint, queue, alive, pc>>
  \/ /\ clear.at = "waiters" /\ waiters[clear.slot] > 0
     /\ ClearGoto("waiters", "wake")
     /\ UNCHANGED <<shared, pc>>
  \/ /\ clear.at = "waiters" /\ waiters[clear.slot] = 0
     /\ NextSlot
     /\ UNCHANGED <<shared, pc>>
  \/ /\ clear.at = "wake"
     /\ NextSlot
     /\ pc' = WakeAll(clear.slot)
     /\ UNCHANGED shared

Clear ==
  (ClearReset \/ ClearSlot) /\ UNCHANGED <<ids, scan, waiting, expired, results, timedOut>>

----------------------------------------------------------------------------

PeerClientStep(c) ==
  \/ c \in world.go /\ ClientStep(c) /\ UNCHANGED timedOut
  \/ c \in world.c /\ world.mode = "str" /\ StrRequest(c)
  \/ c \in world.c /\ world.mode = "int" /\ IntRequest(c)

PeerHandlerStep(h) ==
  /\ \/ world.mode = "str" /\ (Recv(h) \/ StrReply(h) \/ GoCancel(h))
     \/ world.mode = "int" /\ (IntTryRecv(h) \/ IntReply(h))
  /\ UNCHANGED timedOut

\* A new call; a signal; the deadline of a C request, which is all that can end it.
Environment(c) ==
  \/ /\ c \in world.go \cup world.c /\ req[c][2] < world.queries /\ Query(c)
     /\ timedOut' = [timedOut EXCEPT ![c] = FALSE]
  \/ /\ \/ Interrupted(c)
        \/ world.expires /\ (c \in world.c => HasDeadline) /\ Expire(c)
     /\ UNCHANGED timedOut

PeerNext ==
  \/ \E c \in Client : (PeerClientStep(c) \/ Environment(c)) /\ UNCHANGED <<world, clear>>
  \/ \E h \in Handler : PeerHandlerStep(h) /\ UNCHANGED <<world, clear>>
  \/ \E p \in Proc : Crash(p) /\ UNCHANGED <<world, timedOut, clear>>
  \/ Clear /\ UNCHANGED world

PeerSpec == PeerInit /\ [][PeerNext]_peerVars

\* What a C client does for certain.  The sleep of its sender has no cap, and a wakeup can
\* be missed (PeerBlocking): only the deadline ends it.
Runs(c) ==
  /\ PeerClientStep(c)
  /\ c \in world.c /\ pc[c] = "sendSleep" => expired[c]

\* As in RespSlots: every thread that can run is run.
PeerFairSpec ==
  /\ PeerSpec
  /\ \A c \in Client : WF_peerVars(Runs(c) /\ UNCHANGED <<world, clear>>)
  /\ \A h \in Handler : WF_peerVars(PeerHandlerStep(h) /\ UNCHANGED <<world, clear>>)
  /\ WF_peerVars(ClearSlot /\ Clear /\ UNCHANGED world)

----------------------------------------------------------------------------
(* Properties, besides those of RespSlots *)

\* Types, and the waiters word of a slot counts exactly the clients registered in
\* it, dead ones included.
PeerTypeOK ==
  /\ world \in Worlds
  /\ SlotTypes
  /\ timedOut \in [Client -> BOOLEAN]
  /\ \A s \in Slot : waiters[s] = Cardinality({c \in Client : waiting[c] /\ slot[c] = s})

\* The id of a Go query is never 0, which its sendWait takes for a failed attempt,
\* though C clients leave generation 0 in the slots.
NonZeroId == \A c \in world.go : HasId(c) => gen[c] # 0

\* Queries that must end: every one of a Go client, and those of C clients whose request
\* is in the queue, or further.
Underway ==
  {c \in Client : \/ c \in world.go /\ pc[c] \notin {"idle", "dead"}
                  \/ c \in world.c /\ HasId(c) /\ pc[c] \notin {"send", "fullOwner", "fullState"}}

\* Every query of a Go client comes to an end, and so does a query of a C client that
\* was accepted, though get_wait has no timeout here: no wakeup of a waiting client is
\* lost.  A C sender may sleep for ever.  The clients make a bounded number of queries, so
\* that once one has begun there is a time when all that were begun are over.
QueriesEnd == (Underway # {}) ~> (Underway = {})

\* reqrep_clear releases "all in-flight response slots so get_wait callers
\* unblock": one that is counted as a waiter when its slot is taken returns.
ClearUnblocks ==
  \A c \in Client :
    (waiting[c] /\ clear.at = "owner" /\ clear.slot = slot[c] /\ generation[slot[c]] = gen[c])
      ~> pc[c] \in {"idle", "dead"}
=============================================================================
