--------------------------- MODULE RespSlotsProofs ---------------------------
(***************************************************************************)
(* Types, ids and the count of waiters of the response slots, for any      *)
(* number of clients, Go and C, handlers and slots.                        *)
(***************************************************************************)
EXTENDS PeerSlots, FiniteSetTheorems, TLAPS

Entry == [req : Requests, slot : Slot, gen : Gen]

\* Arithmetic on slot numbers and generations stays in range.
LEMMA Ranges ==
  /\ 0 \in Slot
  /\ \A s \in Slot : s \in Nat /\ (s + 1) % N \in Slot /\ (s + 1 # N => s + 1 \in Slot)
  /\ \A g \in Gen : g \in Nat /\ Succ(g) \in Gen
  BY SlotAssumption DEF Slot, Gen, Succ

\* The first state is well typed.
LEMMA InitTypes == Init => SlotTypes
<1> SUFFICES ASSUME Init PROVE SlotTypes
  OBVIOUS
<1>1. queue \in Seq(Entry) /\ Len(queue) <= QueueCap
  BY SlotAssumption DEF Init
<1>2. Located
  BY DEF Init, Located, Thread, ClientLabels, HandlerLabels
<1> QED
  BY <1>1, <1>2, Ranges, SlotAssumption
     DEF Init, SlotTypes, SlotStates, Outcomes, Entry, Thread, Requests, Gen

\* A thread that moves to a label of its kind stays located.
LEMMA GotoTypes ==
  ASSUME Located, NEW t \in Thread, NEW from, NEW to, Goto(t, from, to),
         t \in Client => to \in ClientLabels, t \in Handler => to \in HandlerLabels
  PROVE  Located'
  BY DEF Located, Goto, Thread

LEMMA ClientGoto ==
  ASSUME SlotTypes, NEW c \in Client, NEW from, NEW to \in ClientLabels, Goto(c, from, to)
  PROVE  Located'
  BY SlotAssumption, GotoTypes DEF SlotTypes, Thread

\* Nothing but the control state changes when a step only branches.
LEMMA BranchTypes ==
  ASSUME SlotTypes, NEW t \in Thread, NEW from, NEW to, Branch(t, from, to),
         t \in Client => to \in ClientLabels, t \in Handler => to \in HandlerLabels
  PROVE  SlotTypes'
<1>1. Located'
  BY GotoTypes DEF Branch, SlotTypes
<1> QED
  BY <1>1 DEF Branch, SlotTypes, shared, ids, scan, results

LEMMA ClientBranch ==
  ASSUME SlotTypes, NEW c \in Client, NEW from, NEW to \in ClientLabels, Branch(c, from, to)
  PROVE  SlotTypes'
  BY SlotAssumption, BranchTypes DEF Thread

\* Releasing a slot keeps the types.
LEMMA ReleaseTypes ==
  ASSUME SlotTypes, NEW t \in Thread, NEW from, NEW to,
         t \in Client => to \in ClientLabels, t \in Handler => to \in HandlerLabels,
         Disown(t, from, to) \/ FreeSlot(t, from, to)
  PROVE  SlotTypes'
<1> USE DEF ids, scan, results
<1>1. Located'
  BY GotoTypes DEF Disown, FreeSlot, SlotTypes
<1>2. slot[t] \in Slot
  BY DEF SlotTypes
<1>3. CASE Disown(t, from, to)
  <2>1. owner' \in [Slot -> Proc \cup {NoPid}]
    BY <1>2, <1>3 DEF Disown, SlotTypes
  <2> QED
    BY <1>1, <1>3, <2>1 DEF Disown, SlotTypes
<1>4. CASE FreeSlot(t, from, to)
  <2>1. state' \in [Slot -> SlotStates]
    BY <1>2, <1>4 DEF FreeSlot, SlotTypes, SlotStates
  <2> QED
    BY <1>1, <1>4, <2>1 DEF FreeSlot, SlotTypes
<1> QED
  BY <1>3, <1>4

\* So does a successful or failed exchange of the state of a slot.
LEMMA CASTypes ==
  ASSUME SlotTypes, NEW t \in Thread, NEW from, NEW ok, NEW fail, NEW s \in Slot,
         NEW old, NEW new \in SlotStates,
         t \in Client => ok \in ClientLabels /\ fail \in ClientLabels,
         t \in Handler => ok \in HandlerLabels /\ fail \in HandlerLabels,
         SlotCAS(t, from, s, old, new, ok, fail)
  PROVE  Located' /\ state' \in [Slot -> SlotStates]
<1>1. Located'
  BY GotoTypes DEF SlotCAS, SlotTypes
<1> QED
  BY <1>1 DEF SlotCAS, SlotTypes

\* Acquiring a slot keeps the types, in Go and in C.
LEMMA AcquireTypes ==
  ASSUME SlotTypes, NEW c \in Client, AcquireStep(c) \/ SlotAcquire(c)
  PROVE  SlotTypes'
<1> USE DEF shared, ids, scan, results
<1>0. c \in Thread /\ c \notin Handler /\ slot[c] \in Slot /\ 0 \in Slot
  BY SlotAssumption, Ranges DEF Thread, SlotTypes
<1>1. /\ {"scan", "own", "bump", "bumpAgain", "hint", "send", "stale", "staleOwner", "staleProbe",
          "staleClear", "staleFree", "staleGrab", "retry", "setHint", "loadId"} \subseteq ClientLabels
      /\ {"FREE", "ACQUIRED"} \subseteq SlotStates
  BY DEF ClientLabels, TenantLabels, SlotStates
<1>2. ASSUME NextStale(c), NEW from, pc[c] = from PROVE Located' /\ slot' \in [Thread -> Slot]
  <2>1. PICK to \in {"retry", "stale"} : Goto(c, from, to)
    BY <1>2 DEF NextStale, Goto
  <2>2. slot' \in [Thread -> Slot]
    BY <1>0, <1>2, Ranges DEF NextStale, SlotTypes
  <2> QED
    BY <1>1, <2>1, <2>2, ClientGoto
<1>3. ASSUME NEW from, NEW to \in ClientLabels, Goto(c, from, to), slot' = slot
      PROVE  Located' /\ slot' \in [Thread -> Slot]
  BY <1>3, ClientGoto DEF SlotTypes
<1>4. CASE Scan(c)
  <2>0. PICK fail \in {"stale", "scan"} :
          SlotCAS(c, "scan", slot[c], "FREE", "ACQUIRED", "own", fail)
    BY <1>4 DEF Scan
  <2>1. Located' /\ state' \in [Slot -> SlotStates]
    BY <1>0, <1>1, <2>0, CASTypes
  <2>2. slot' \in [Thread -> Slot]
    <3>1. (slot[c] + 1) % N \in Slot
      BY <1>0, Ranges
    <3>2. slot' = slot \/ \E s \in Slot : slot' = [slot EXCEPT ![c] = s]
      BY <1>0, <1>4, <3>1 DEF Scan
    <3> QED
      BY <1>0, <3>1, <3>2 DEF SlotTypes
  <2> QED
    BY <1>4, <2>1, <2>2 DEF Scan, SlotTypes
<1>5. CASE StaleState(c)
  <2>1. Located' /\ slot' \in [Thread -> Slot]
    BY <1>1, <1>2, <1>3, <1>5 DEF StaleState
  <2>2. seen' \in [Client -> SlotStates]
    BY <1>0, <1>5 DEF StaleState, SlotTypes
  <2> QED
    BY <1>5, <2>1, <2>2 DEF StaleState, SlotTypes
<1>6. CASE StaleOwner(c)
  <2>1. Located' /\ slot' \in [Thread -> Slot]
    BY <1>1, <1>2, <1>3, <1>6 DEF StaleOwner
  <2>2. holder' \in [Client -> Proc \cup {NoPid}]
    BY <1>0, <1>6 DEF StaleOwner, SlotTypes
  <2> QED
    BY <1>6, <2>1, <2>2 DEF StaleOwner, SlotTypes
<1>7. CASE StaleProbe(c) \/ ProbeOwner(c)
  <2>1. Located' /\ slot' \in [Thread -> Slot]
    BY <1>1, <1>2, <1>3, <1>7 DEF StaleProbe, ProbeOwner
  <2>2. holder' \in [Client -> Proc \cup {NoPid}]
    BY <1>0, <1>7 DEF StaleProbe, ProbeOwner, SlotTypes
  <2> QED
    BY <1>7, <2>1, <2>2 DEF StaleProbe, ProbeOwner, SlotTypes
<1>8. CASE StaleClear(c) \/ Own(c)
  <2>1. Located'
    BY <1>1, <1>8, ClientGoto DEF StaleClear, Own
  <2>2. owner' \in [Slot -> Proc \cup {NoPid}]
    <3>1. \E p \in {NoPid, PidOf[c]} : owner' = [owner EXCEPT ![slot[c]] = p]
      BY <1>8 DEF StaleClear, Own
    <3>2. PidOf[c] \in Proc
      BY SlotAssumption
    <3> QED
      BY <1>0, <3>1, <3>2 DEF SlotTypes
  <2> QED
    BY <1>8, <2>1, <2>2 DEF StaleClear, Own, SlotTypes
<1>9. CASE StaleFree(c) \/ StaleGrab(c)
  <2>1. Located' /\ slot' \in [Thread -> Slot]
    BY <1>1, <1>2, <1>3, <1>9 DEF StaleFree, StaleGrab
  <2>2. state' \in [Slot -> SlotStates]
    <3>1. state' = state \/ \E v \in SlotStates : state' = [state EXCEPT ![slot[c]] = v]
      BY <1>1, <1>9 DEF StaleFree, StaleGrab
    <3> QED
      BY <1>0, <3>1 DEF SlotTypes
  <2> QED
    BY <1>9, <2>1, <2>2 DEF StaleFree, StaleGrab, SlotTypes
<1>10. CASE Bump(c) \/ AddGeneration(c)
  <2>1. Located'
    BY <1>1, <1>10, ClientGoto DEF Bump, AddGeneration
  <2>2. generation[slot[c]] \in Gen /\ Succ(generation[slot[c]]) \in Gen
    BY <1>0, Ranges DEF SlotTypes
  <2>3. generation' = [generation EXCEPT ![slot[c]] = Succ(generation[slot[c]])]
    BY <1>0, <1>10 DEF Bump, AddGeneration
  <2>4. generation' \in [Slot -> Gen]
    BY <1>0, <2>2, <2>3 DEF SlotTypes
  <2>5. gen' \in [Thread -> Gen]
    BY <1>0, <1>10, <2>2 DEF Bump, AddGeneration, SlotTypes
  <2> QED
    BY <1>10, <2>1, <2>4, <2>5 DEF Bump, AddGeneration, SlotTypes
<1>11. CASE Hint(c) \/ SetHint(c)
  <2>1. Located'
    BY <1>1, <1>11, ClientGoto DEF Hint, SetHint
  <2>2. hint' \in Slot
    BY <1>0, <1>11, Ranges DEF Hint, SetHint
  <2> QED
    BY <1>11, <2>1, <2>2 DEF Hint, SetHint, SlotTypes
<1> QED
  BY <1>4, <1>5, <1>6, <1>7, <1>8, <1>9, <1>10, <1>11 DEF AcquireStep, SlotAcquire

\* A request that is enqueued with a well typed id leaves a well typed queue.
LEMMA EnqueueTypes ==
  ASSUME SlotTypes, NEW c \in Client, NEW to \in ClientLabels, Enqueue(c, to), Len(queue) < QueueCap
  PROVE  SlotTypes'
<1> DEFINE e == [req |-> req[c], slot |-> slot[c], gen |-> gen[c]]
<1>1. e \in Entry /\ queue \in Seq(Entry)
  BY DEF SlotTypes, Entry, Thread
<1>2. queue' \in Seq(Entry) /\ Len(queue') <= QueueCap
  BY <1>1, SlotAssumption DEF Enqueue
<1>3. Located'
  BY ClientGoto DEF Enqueue
<1> QED
  BY <1>2, <1>3 DEF Enqueue, SlotTypes, Entry, ids, results

\* A query begins, or looks for a slot once more.
LEMMA ScanTypes ==
  ASSUME SlotTypes, NEW c \in Client, NEW from, StartScan(c, from)
  PROVE  Located' /\ slot' \in [Thread -> Slot]
<1>1. Located'
  BY ClientGoto DEF StartScan, ClientLabels
<1> QED
  BY <1>1 DEF StartScan, SlotTypes

\* Sending keeps the types, in Go and in C.
LEMMA SendTypes ==
  ASSUME SlotTypes, NEW c \in Client,
         \/ SendStep(c) \/ Query(c) \/ TrySend(c) \/ SendWait(c)
         \/ IntTrySend(c) /\ IsFiniteSet(Handler)
  PROVE  SlotTypes'
<1> USE DEF shared, ids, scan, results
<1>0. c \in Thread /\ c \notin Handler
  BY SlotAssumption DEF Thread
<1>1. {"send", "spinGen", "fullOwner", "fullState", "retry", "scan", "idle", "loadId", "publish",
       "sent", "sendSleep"} \subseteq ClientLabels
  BY DEF ClientLabels, TenantLabels
<1>2. ASSUME NEW from, NEW to \in ClientLabels, Branch(c, from, to) PROVE SlotTypes'
  BY <1>2, ClientBranch
<1>3. CASE Send(c)
  <2>1. (Len(queue) < QueueCap /\ Enqueue(c, "spinGen")) \/ Branch(c, "send", "fullOwner")
    BY <1>3 DEF Send, Enqueue
  <2> QED
    BY <1>1, <1>2, <2>1, EnqueueTypes
<1>4. CASE SendFull(c)
  BY <1>0, <1>1, <1>4, ReleaseTypes DEF SendFull
<1>5. ASSUME NEW from, StartScan(c, from),
             UNCHANGED <<shared, gen, req, seen, holder, waiting, expired, results>>
      PROVE  SlotTypes'
  BY <1>5, ScanTypes DEF SlotTypes
<1>6. ASSUME Goto(c, "retry", "idle"), outcome' = [outcome EXCEPT ![c] = "ctx"],
             UNCHANGED <<shared, ids, seen, holder, waiting, expired, answer>>
      PROVE  SlotTypes'
  <2>1. Located'
    BY <1>1, <1>6, ClientGoto
  <2>2. outcome' \in [Client -> Outcomes]
    BY <1>6 DEF SlotTypes, Outcomes
  <2> QED
    BY <1>6, <2>1, <2>2 DEF SlotTypes
<1>7. CASE Retry(c)
  BY <1>5, <1>6, <1>7 DEF Retry
<1>8. CASE SendWait(c)
  BY <1>1, <1>2, <1>5, <1>6, <1>8 DEF SendWait
<1>9. CASE Query(c)
  <2>1. req[c] \in Client \X Nat
    BY DEF SlotTypes, Requests
  <2>2. <<c, req[c][2] + 1>> \in Requests
    BY <2>1 DEF Requests
  <2>3. /\ req' \in [Thread -> Requests \cup {NoReq}]
        /\ \A d \in Client : req'[d] \in Requests
    BY <1>0, <1>9, <2>2 DEF Query, SlotTypes, Thread
  <2>4. Located' /\ slot' \in [Thread -> Slot]
    BY <1>9, ScanTypes DEF Query
  <2>5. expired' \in [Client -> BOOLEAN] /\ outcome' \in [Client -> Outcomes]
    BY <1>9 DEF Query, SlotTypes, Outcomes
  <2> QED
    BY <1>9, <2>3, <2>4, <2>5 DEF Query, SlotTypes
<1>10. CASE LoadId(c)
  <2>1. Located'
    BY <1>1, <1>10, ClientGoto DEF LoadId
  <2>2. gen' \in [Thread -> Gen]
    BY <1>0, <1>10 DEF LoadId, SlotTypes
  <2> QED
    BY <1>10, <2>1, <2>2 DEF LoadId, SlotTypes
<1>11. CASE TrySend(c)
  BY <1>1, <1>2, <1>4, <1>10, <1>11, AcquireTypes, EnqueueTypes DEF TrySend
<1>12. CASE IntTrySend(c) /\ IsFiniteSet(Handler)
  <2>1. Cardinality(Leaving) \in Nat
    BY <1>12, FS_Subset, FS_CardinalityType DEF Leaving
  <2>2. Len(queue) \in Nat
    BY DEF SlotTypes
  <2>3. Len(queue) + Cardinality(Leaving) < QueueCap => Len(queue) < QueueCap
    BY <2>1, <2>2, SlotAssumption
  <2> QED
    BY <1>1, <1>2, <1>4, <1>10, <1>12, <2>3, AcquireTypes, EnqueueTypes DEF IntTrySend
<1> QED
  BY <1>3, <1>4, <1>7, <1>8, <1>9, <1>11, <1>12 DEF SendStep

\* A query ends with an error.
LEMMA FailTypes ==
  ASSUME SlotTypes, NEW c \in Client, NEW from, NEW err \in Outcomes, Fail(c, from, err)
  PROVE  SlotTypes'
<1>1. Located'
  BY ClientGoto DEF Fail, ClientLabels, TenantLabels
<1>2. outcome' \in [Client -> Outcomes]
  BY DEF Fail, SlotTypes
<1> QED
  BY <1>1, <1>2 DEF Fail, SlotTypes, shared, ids, scan

\* A client registers in its slot, or leaves it.
LEMMA CountTypes ==
  ASSUME SlotTypes, NEW c \in Client, NEW from, NEW to \in ClientLabels, Goto(c, from, to),
         NEW k \in {1, -1}, NEW b \in BOOLEAN,
         waiters' = [waiters EXCEPT ![slot[c]] = @ + k], waiting' = [waiting EXCEPT ![c] = b],
         UNCHANGED <<state, owner, generation, data, hint, queue, alive, ids, scan, expired, results>>
  PROVE  SlotTypes'
<1>1. Located'
  BY ClientGoto
<1>2. slot[c] \in Slot
  BY DEF SlotTypes, Thread
<1>3. waiters' \in [Slot -> Int] /\ waiting' \in [Client -> BOOLEAN]
  BY <1>2 DEF SlotTypes
<1> QED
  BY <1>1, <1>3 DEF SlotTypes, ids, scan, results

\* The state of the slot is loaded.
LEMMA LoadTypes ==
  ASSUME SlotTypes, NEW c \in Client, NEW from, NEW to \in ClientLabels, LoadSeen(c, from, to)
  PROVE  SlotTypes'
<1>1. Located'
  BY ClientGoto DEF LoadSeen
<1>2. slot[c] \in Slot
  BY DEF SlotTypes, Thread
<1>3. seen' \in [Client -> SlotStates]
  BY <1>2 DEF LoadSeen, SlotTypes
<1> QED
  BY <1>1, <1>3 DEF LoadSeen, SlotTypes, shared, ids, results

\* Waiting keeps the types, in Go and in C.
LEMMA WaitTypes ==
  ASSUME SlotTypes, NEW c \in Client, WaitStep(c) \/ Interrupted(c) \/ GetWait(c) \/ Remaining(c)
  PROVE  SlotTypes'
<1>0. c \in Thread /\ c \notin Handler
  BY SlotAssumption DEF Thread
<1>1. /\ {"spinGen", "spinState", "wait", "load", "loadGen", "ctx", "futex", "sleep", "woken",
          "read", "readOwner", "readState", "unwait", "cancel", "idle", "sent", "getState", "getGen",
          "lastState", "lastGen", "recheckGen", "recheckState", "ready"} \subseteq ClientLabels
      /\ {"ok", "ctx", "stale", "late"} \subseteq Outcomes
  BY DEF ClientLabels, TenantLabels, Outcomes
<1>2. CASE SpinGen(c) \/ SpinState(c) \/ LoadGen(c)
  BY <1>1, <1>2, ClientBranch, FailTypes DEF SpinGen, SpinState, LoadGen
<1>3. CASE Ctx(c, "ctx", "futex") \/ Ctx(c, "woken", "load") \/ Remaining(c)
  BY <1>1, <1>3, ClientBranch, FailTypes DEF Ctx, Remaining
<1>4. CASE FutexWait(c) \/ SleepEnds(c) \/ Interrupted(c)
  BY <1>1, <1>4, ClientBranch DEF FutexWait, SleepEnds, Interrupted
<1>5. CASE Wait(c) \/ Register(c)
  BY <1>1, <1>5, CountTypes DEF Wait, Register
<1>6. ASSUME NEW from, NEW to \in ClientLabels, Deregister(c, from, to) PROVE SlotTypes'
  <2>1. Goto(c, from, to) /\ waiters' = [waiters EXCEPT ![slot[c]] = @ + (-1)]
    BY <1>6, <1>0 DEF Deregister, SlotTypes
  <2> QED
    BY <1>6, <2>1, CountTypes DEF Deregister
<1>7. CASE Unwait(c)
  BY <1>1, <1>6, <1>7 DEF Unwait, Deregister
<1>8. CASE LoadState(c)
  BY <1>1, <1>8, LoadTypes DEF LoadState, LoadSeen
<1>9. CASE Read(c)
  <2>1. Located'
    BY <1>1, <1>9, ClientGoto DEF Read
  <2>2. outcome' \in [Client -> Outcomes] /\ answer' \in [Client -> Requests \cup {NoReq}]
    BY <1>0, <1>1, <1>9 DEF Read, SlotTypes
  <2> QED
    BY <1>9, <2>1, <2>2 DEF Read, SlotTypes, shared, ids, scan
<1>10. CASE ReadRelease(c)
  BY <1>0, <1>1, <1>10, ReleaseTypes DEF ReadRelease
<1>11. CASE Recheck(c)
  BY <1>1, <1>11, ClientBranch, FailTypes, LoadTypes DEF Recheck
<1>12. CASE TryGet(c, "getState", "getGen", Branch(c, "getGen", "load"))
  BY <1>1, <1>12, ClientBranch, FailTypes, LoadTypes DEF TryGet
<1>13. CASE TryGet(c, "lastState", "lastGen", Fail(c, "lastGen", "ctx"))
  BY <1>1, <1>13, ClientBranch, FailTypes, LoadTypes DEF TryGet
<1>14. CASE LoadSeen(c, "load", IF state[slot[c]] = "READY" THEN "lastState" ELSE "wait")
  BY <1>1, <1>14, LoadTypes
<1> QED
  BY <1>1, <1>2, <1>3, <1>4, <1>5, <1>6, <1>7, <1>8, <1>9, <1>10, <1>11, <1>12, <1>13, <1>14
     DEF WaitStep, GetWait

\* Sleepers that are woken stay located.
LEMMA WakeTypes ==
  ASSUME SlotTypes, NEW t \in Thread, NEW to, t \in Client => to \in ClientLabels,
         t \in Handler => to \in HandlerLabels, NEW S,
         pc' = [u \in Thread |-> IF u = t THEN to ELSE IF u \in SleepersOn(S) THEN "woken" ELSE pc[u]],
         UNCHANGED <<shared, ids, scan, waiting, expired, results>>
  PROVE  SlotTypes'
<1>1. "woken" \in ClientLabels /\ \A u \in SleepersOn(S) : u \notin Handler
  BY SlotAssumption DEF ClientLabels, TenantLabels, SleepersOn
<1>2. Located'
  BY <1>1 DEF SlotTypes, Located, Thread
<1> QED
  BY <1>2 DEF SlotTypes, shared, ids, scan, results

\* Cancelling and draining keep the types, in Go and in C.
LEMMA CancelTypes ==
  ASSUME SlotTypes, NEW t \in Thread,
         \/ CancelStep(t) \/ (t \in Client /\ Drain(t))
         \/ t \in Client /\ (CancelRequest(t) \/ DrainResponse(t))
  PROVE  SlotTypes'
<1> USE DEF ids, scan, results
<1> DEFINE To == IF t \in Client THEN ClientLabels ELSE HandlerLabels
<1>0. (t \in Client => t \notin Handler) /\ slot[t] \in Slot /\ t \in Client \cup Handler
  BY SlotAssumption DEF SlotTypes, Thread
<1>1. {"cancelFree", "cancelOwner", "cancelBump", "cancelWaiters", "cancelWake"}
         \subseteq ClientLabels \cap HandlerLabels
  BY DEF ClientLabels, HandlerLabels
<1>2. {"idle", "drainGen", "drainState", "drainOwner", "drainFree", "drainLoad", "drainCheck"}
         \subseteq ClientLabels
  BY DEF ClientLabels, TenantLabels
<1>3. Cancelled(t) \in To /\ (t \in Client => AfterCancel(t) \in To)
  BY <1>0, <1>2 DEF Cancelled, AfterCancel, HandlerLabels
<1>4. ASSUME NEW from, NEW to \in To, Branch(t, from, to) \/ Disown(t, from, to) PROVE SlotTypes'
  BY <1>0, <1>4, BranchTypes, ReleaseTypes
<1>5. ASSUME NEW to \in To,
             SlotCAS(t, "cancelFree", slot[t], "ACQUIRED", "FREE", "cancelOwner", to),
             UNCHANGED <<owner, generation, waiters, data, hint, queue, alive,
                         ids, scan, waiting, expired, results>>
      PROVE  SlotTypes'
  <2>1. Located' /\ state' \in [Slot -> SlotStates]
    BY <1>0, <1>1, <1>5, CASTypes DEF SlotStates
  <2> QED
    BY <1>5, <2>1 DEF SlotTypes
<1>6. CASE CancelGen(t) \/ CancelWaiters(t) \/ CancelOwner(t)
  BY <1>1, <1>3, <1>4, <1>6 DEF CancelGen, CancelWaiters, CancelOwner
<1>7. CASE CancelFree(t)
  BY <1>3, <1>5, <1>7 DEF CancelFree
<1>8. CASE CancelBump(t)
  <2>1. Located'
    BY <1>1, <1>8, GotoTypes DEF CancelBump, SlotTypes
  <2>2. generation' \in [Slot -> Gen]
    BY <1>0, <1>8, Ranges DEF CancelBump, SlotTypes
  <2> QED
    BY <1>8, <2>1, <2>2 DEF CancelBump, SlotTypes
<1>9. CASE CancelWake(t)
  BY <1>0, <1>3, <1>9, WakeTypes DEF CancelWake
<1>10. CASE t \in Client /\ Drain(t)
  BY <1>0, <1>2, <1>4, <1>10, ReleaseTypes DEF Drain
<1>11. CASE t \in Client /\ DrainResponse(t)
  BY <1>0, <1>2, <1>4, <1>11, ReleaseTypes, LoadTypes DEF DrainResponse, SlotRelease
<1>12. CASE t \in Client /\ CancelRequest(t)
  <2>1. CASE pc' = [WakeAll(slot[t]) EXCEPT ![t] = AfterCancel(t)]
             /\ UNCHANGED <<shared, ids, scan, waiting, expired, results>>
    <3>1. pc' = [u \in Thread |-> IF u = t THEN AfterCancel(t)
                                  ELSE IF u \in SleepersOn(slot[t]) THEN "woken" ELSE pc[u]]
      BY <2>1 DEF WakeAll
    <3> QED
      BY <1>0, <1>3, <1>12, <2>1, <3>1, WakeTypes
  <2>2. CASE CancelCAS(t)
    BY <1>3, <1>5, <1>12, <2>2 DEF CancelCAS
  <2>3. CASE CancelOwner(t) \/ CancelBump(t)
    BY <1>6, <1>8, <2>3
  <2> QED
    BY <1>1, <1>3, <1>4, <1>12, <2>1, <2>2, <2>3 DEF CancelRequest
<1> QED
  BY <1>6, <1>7, <1>8, <1>9, <1>10, <1>11, <1>12 DEF CancelStep

\* Handling a request keeps the types, in Go and in C.
LEMMA HandlerTypes ==
  ASSUME SlotTypes, NEW h \in Handler, HandlerStep(h) \/ IntTryRecv(h) \/ GoCancel(h)
  PROVE  SlotTypes'
<1> USE DEF ids, scan, results
<1>0. h \in Thread /\ h \notin Client /\ slot[h] \in Slot
  BY SlotAssumption DEF Thread, SlotTypes
<1>1. /\ {"idle", "handle", "leave", "replyState", "replyGen", "replyCopy", "replyReady",
          "replyWaiters", "replyWake", "cancel"} \subseteq HandlerLabels
      /\ "READY" \in SlotStates /\ "woken" \in ClientLabels
  BY DEF ClientLabels, HandlerLabels, TenantLabels, SlotStates
<1>2. ASSUME NEW to \in HandlerLabels, queue # <<>>, Goto(h, "idle", to),
             slot' = [slot EXCEPT ![h] = Head(queue).slot],
             gen' = [gen EXCEPT ![h] = Head(queue).gen],
             req' = [req EXCEPT ![h] = Head(queue).req], queue' = Tail(queue),
             UNCHANGED <<state, owner, generation, waiters, data, hint, alive,
                         scan, waiting, expired, results>>
      PROVE  SlotTypes'
  <2>1. queue \in Seq(Entry)
    BY DEF SlotTypes, Entry
  <2>2. Head(queue) \in Entry /\ Tail(queue) \in Seq(Entry) /\ Len(Tail(queue)) <= QueueCap
    BY <1>2, <2>1, SlotAssumption DEF SlotTypes
  <2>3. Located'
    BY <1>0, <1>2, GotoTypes DEF SlotTypes
  <2>4. /\ slot' \in [Thread -> Slot] /\ gen' \in [Thread -> Gen]
        /\ req' \in [Thread -> Requests \cup {NoReq}] /\ \A c \in Client : req'[c] \in Requests
    BY <1>0, <1>2, <2>2 DEF SlotTypes, Entry, Thread
  <2> QED
    BY <1>2, <2>2, <2>3, <2>4 DEF SlotTypes, Entry
<1>3. ASSUME NEW from, NEW to \in HandlerLabels, Branch(h, from, to) PROVE SlotTypes'
  BY <1>0, <1>3, BranchTypes
<1>4. CASE Recv(h)
  BY <1>1, <1>2, <1>4 DEF Recv
<1>5. CASE IntTryRecv(h)
  BY <1>1, <1>2, <1>3, <1>5 DEF IntTryRecv
<1>6. CASE Handle(h) \/ ReplyState(h) \/ ReplyGen(h) \/ ReplyWaiters(h)
  BY <1>1, <1>3, <1>6 DEF Handle, ReplyState, ReplyGen, ReplyWaiters
<1>7. CASE ReplyCopy(h)
  <2>1. Located'
    BY <1>0, <1>1, <1>7, GotoTypes DEF ReplyCopy, SlotTypes
  <2>2. data' \in [Slot -> Requests \cup {NoReq}]
    BY <1>0, <1>7 DEF ReplyCopy, SlotTypes
  <2> QED
    BY <1>7, <2>1, <2>2 DEF ReplyCopy, SlotTypes
<1>8. CASE ReplyReady(h)
  <2>1. Located' /\ state' \in [Slot -> SlotStates]
    BY <1>0, <1>1, <1>8, CASTypes DEF ReplyReady
  <2> QED
    BY <1>8, <2>1 DEF ReplyReady, SlotTypes
<1>9. CASE ReplyWake(h)
  <2>1. Located'
    <3>1. ASSUME NEW c \in SleepersOn(slot[h]), pc' = [pc EXCEPT ![h] = "idle", ![c] = "woken"]
          PROVE  Located'
      <4>1. c \in Client /\ c \notin Handler
        BY SlotAssumption DEF SleepersOn
      <4>2. pc' = [u \in Thread |-> IF u = c THEN "woken" ELSE IF u = h THEN "idle" ELSE pc[u]]
        BY <1>0, <3>1, <4>1 DEF SlotTypes, Located, Thread
      <4> QED
        BY <1>0, <1>1, <4>1, <4>2 DEF SlotTypes, Located, Thread
    <3>2. CASE pc' = [pc EXCEPT ![h] = "idle"]
      BY <1>0, <1>1, <3>2 DEF SlotTypes, Located
    <3>3. \/ \E c \in SleepersOn(slot[h]) : pc' = [pc EXCEPT ![h] = "idle", ![c] = "woken"]
          \/ pc' = [pc EXCEPT ![h] = "idle"]
      BY <1>9 DEF ReplyWake
    <3> QED
      BY <3>1, <3>2, <3>3
  <2> QED
    BY <1>9, <2>1 DEF ReplyWake, SlotTypes, shared
<1>10. CASE GoCancel(h)
  BY <1>0, <1>1, <1>3, <1>10, CancelTypes DEF GoCancel
<1> QED
  BY <1>4, <1>5, <1>6, <1>7, <1>8, <1>9, <1>10 DEF HandlerStep

\* The end of a context and the death of a process keep the types.
LEMMA EndTypes ==
  ASSUME SlotTypes, (\E c \in Client : Expire(c)) \/ (\E p \in Proc : Crash(p))
  PROVE  SlotTypes'
<1> USE DEF shared, ids, scan, results
<1>1. CASE \E c \in Client : Expire(c)
  <2>1. expired' \in [Client -> BOOLEAN]
    BY <1>1 DEF Expire, SlotTypes
  <2> QED
    BY <1>1, <2>1 DEF Expire, SlotTypes, Located
<1>2. CASE \E p \in Proc : Crash(p)
  <2>1. Located'
    BY <1>2, SlotAssumption DEF Crash, SlotTypes, Located, ClientLabels, Thread
  <2> QED
    BY <1>2, <2>1 DEF Crash, SlotTypes
<1> QED
  BY <1>1, <1>2

\* The slot words, the queued ids and the locals of every thread stay in range.
THEOREM TypesCorrect == Spec => []SlotTypes
<1>1. SlotTypes /\ [Next]_vars => SlotTypes'
  <2> SUFFICES ASSUME SlotTypes, [Next]_vars PROVE SlotTypes'
    OBVIOUS
  <2>0. \A t : t \in Client \/ t \in Handler => t \in Thread
    BY DEF Thread
  <2>1. ASSUME NEW c \in Client, ClientStep(c) \/ Query(c) \/ Interrupted(c)
        PROVE  SlotTypes'
    BY <2>0, <2>1, AcquireTypes, SendTypes, WaitTypes, CancelTypes DEF ClientStep
  <2>2. ASSUME NEW h \in Handler, HandlerStep(h) \/ CancelStep(h) PROVE SlotTypes'
    BY <2>0, <2>2, HandlerTypes, CancelTypes
  <2>3. CASE UNCHANGED vars
    BY <2>3 DEF vars, shared, ids, scan, results, SlotTypes, Located
  <2> QED
    BY <2>1, <2>2, <2>3, EndTypes DEF Next
<1> QED
  BY InitTypes, <1>1, PTL DEF Spec

----------------------------------------------------------------------------

\* The id a client holds was handed out by its slot, at the present generation or before.
Issued == \A c \in Client : HasId(c) => gen[c] <= generation[slot[c]]

\* What every step but Bump does: whoever has an id had it before.
KeepsIds ==
  \A c \in Client : HasId(c)' => HasId(c) /\ gen'[c] = gen[c] /\ slot'[c] = slot[c]

\* No generation decreases in a step.
Grows == \A s \in Slot : generation'[s] >= generation[s]

\* A step that hands out no id keeps the ids unique.
LEMMA KeepsUnique ==
  ASSUME SlotTypes, SlotTypes', Issued, UniqueIds, Grows, KeepsIds
  PROVE  Issued' /\ UniqueIds'
<1>0. \A c \in Client : c \in Thread
  BY DEF Thread
<1>1. ASSUME NEW c \in Client, HasId(c)' PROVE gen'[c] <= generation'[slot'[c]]
  <2>1. HasId(c) /\ gen'[c] = gen[c] /\ slot'[c] = slot[c]
    BY <1>1 DEF KeepsIds
  <2>2. slot[c] \in Slot /\ gen[c] \in Nat
    BY <1>0, Ranges DEF SlotTypes
  <2>3. generation[slot[c]] \in Nat /\ generation'[slot[c]] \in Nat
    BY <2>2, Ranges DEF SlotTypes
  <2>4. gen[c] <= generation[slot[c]] /\ generation'[slot[c]] >= generation[slot[c]]
    BY <2>1, <2>2 DEF Issued, Grows
  <2> QED
    BY <2>1, <2>2, <2>3, <2>4
<1>2. UniqueIds'
  BY DEF KeepsIds, UniqueIds
<1> QED
  BY <1>1, <1>2 DEF Issued

\* Without a wrap, the successor of a generation is larger.
LEMMA SuccGrows ==
  ASSUME NEW g \in Gen, Succ(g) >= g
  PROVE  Succ(g) > g
<1>1. g \in Nat /\ g < GenMod /\ GenMod \in Nat /\ GenMod > 1
  BY SlotAssumption DEF Gen
<1>2. CASE g + 1 < GenMod
  BY <1>1, <1>2 DEF Succ
<1>3. CASE g + 1 = GenMod
  BY <1>1, <1>3 DEF Succ
<1> QED
  BY <1>1, <1>2, <1>3

\* Bump hands out an id larger than every id of its slot.
LEMMA BumpUnique ==
  ASSUME SlotTypes, SlotTypes', Issued, UniqueIds, Grows, NEW c \in Client, Bump(c)
  PROVE  Issued' /\ UniqueIds'
<1> DEFINE s == slot[c]
           g == Succ(generation[slot[c]])
<1>0. \A d \in Client : d \in Thread
  BY DEF Thread
<1>1. s \in Slot /\ generation[s] \in Gen /\ g \in Gen
  BY <1>0, Ranges DEF SlotTypes
<1>1a. generation[s] \in Nat /\ g \in Nat
  BY <1>1 DEF Gen
<1>2. generation' = [generation EXCEPT ![s] = g] /\ gen' = [gen EXCEPT ![c] = g] /\ slot' = slot
  BY DEF Bump
<1>3. generation'[s] = g /\ gen'[c] = g
  BY <1>0, <1>1, <1>2 DEF SlotTypes
<1>4. g > generation[s]
  BY <1>1, <1>3, SuccGrows DEF Grows
<1>5. ASSUME NEW d \in Client, d # c, HasId(d)'
      PROVE  /\ HasId(d) /\ gen'[d] = gen[d]
             /\ gen[d] <= generation[slot[d]]
  <2>1. pc'[d] = pc[d]
    BY <1>0, <1>5 DEF Bump, Goto, SlotTypes, Located
  <2> QED
    BY <1>0, <1>2, <1>5, <2>1 DEF HasId, SlotTypes, Issued
<1>6. ASSUME NEW d \in Client, HasId(d)' PROVE gen'[d] <= generation'[slot'[d]]
  <2>1. CASE d = c
    <3>1. slot'[d] = s
      BY <1>2, <2>1
    <3> QED
      BY <1>1a, <1>3, <2>1, <3>1
  <2>2. CASE d # c
    <3>1. gen'[d] = gen[d] /\ gen[d] <= generation[slot[d]]
      BY <1>5, <1>6, <2>2
    <3>2. gen[d] \in Nat /\ generation[slot[d]] \in Nat /\ generation'[slot[d]] \in Nat
          /\ generation'[slot[d]] >= generation[slot[d]]
      BY <1>0, Ranges DEF SlotTypes, Grows
    <3> QED
      BY <1>2, <3>1, <3>2
  <2> QED
    BY <2>1, <2>2
<1>7. ASSUME NEW d \in Client, d # c, HasId(d)' PROVE slot'[d] # slot'[c] \/ gen'[d] # gen'[c]
  <2>1. gen'[d] = gen[d] /\ gen[d] <= generation[slot[d]] /\ gen[d] \in Nat
    BY <1>0, Ranges, <1>5, <1>7 DEF SlotTypes
  <2>2. CASE slot[d] = s
    BY <1>1a, <1>3, <1>4, <2>1, <2>2
  <2>3. CASE slot[d] # s
    BY <1>2, <2>3
  <2> QED
    BY <2>2, <2>3
<1>8. ASSUME NEW d \in Client, NEW e \in Client, d # e, d # c, e # c, HasId(d)', HasId(e)'
      PROVE  slot'[d] # slot'[e] \/ gen'[d] # gen'[e]
  BY <1>2, <1>5, <1>8 DEF UniqueIds
<1>9. UniqueIds'
  BY <1>7, <1>8 DEF UniqueIds
<1> QED
  BY <1>6, <1>9 DEF Issued
\* A thread that moves without getting an id, at its old slot or with no id, keeps all ids.
LEMMA MoveKeeps ==
  ASSUME SlotTypes, NEW t \in Thread, NEW from, NEW to, Goto(t, from, to),
         from \notin NoIdLabels \/ to \in NoIdLabels \/ t \notin Client,
         \A c \in Client : gen'[c] = gen[c],
         \A c \in Client : slot'[c] = slot[c] \/ (c = t /\ to \in NoIdLabels)
  PROVE  KeepsIds
<1> SUFFICES ASSUME NEW c \in Client, HasId(c)'
             PROVE  HasId(c) /\ gen'[c] = gen[c] /\ slot'[c] = slot[c]
  BY DEF KeepsIds
<1>1. c \in Thread
  BY DEF Thread
<1>2. CASE c = t
  BY <1>1, <1>2 DEF Goto, HasId, SlotTypes, Located
<1>3. CASE c # t
  BY <1>1, <1>3 DEF Goto, HasId, SlotTypes, Located
<1> QED
  BY <1>2, <1>3

\* Every step of acquireRespSlot but Bump keeps the ids.
LEMMA AcquireKeeps ==
  ASSUME SlotTypes, NEW c \in Client, AcquireStep(c), ~Bump(c)
  PROVE  KeepsIds
<1>0. c \in Thread
  BY DEF Thread
<1>1. {"scan", "own", "bump", "stale", "staleOwner", "staleProbe", "staleClear", "staleFree",
       "staleGrab", "retry"} \subseteq NoIdLabels
  BY DEF NoIdLabels
<1>2. ASSUME NEW from, pc[c] = from, NextStale(c), gen' = gen PROVE KeepsIds
  <2>1. PICK to \in {"retry", "stale"} : Goto(c, from, to)
    BY <1>2 DEF NextStale, Goto
  <2>2. \A d \in Client : slot'[d] = slot[d] \/ d = c
    BY <1>0, <1>2 DEF NextStale, SlotTypes, Thread
  <2> QED
    BY <1>0, <1>1, <1>2, <2>1, <2>2, MoveKeeps
<1>3. CASE Scan(c)
  <2>1. PICK to \in {"own", "stale", "scan"} : Goto(c, "scan", to)
    BY <1>3 DEF Scan, SlotCAS
  <2>2. \A d \in Client : slot'[d] = slot[d] \/ d = c
    BY <1>0, <1>3 DEF Scan, SlotTypes, Thread
  <2>3. gen' = gen
    BY <1>3 DEF Scan
  <2> QED
    BY <1>0, <1>1, <2>1, <2>2, <2>3, MoveKeeps
<1>4. CASE StaleState(c)
  <2>1. gen' = gen /\ (NextStale(c) \/ (Goto(c, "stale", "staleOwner") /\ slot' = slot))
    BY <1>4 DEF StaleState
  <2> QED
    BY <1>0, <1>1, <1>2, <2>1, MoveKeeps
<1>5. CASE StaleOwner(c) \/ StaleProbe(c)
  <2>1. gen' = gen /\ (NextStale(c) \/ (Goto(c, "staleOwner", "staleProbe") /\ slot' = slot)
                                 \/ (Goto(c, "staleProbe", "staleClear") /\ slot' = slot))
    BY <1>5 DEF StaleOwner, StaleProbe
  <2> QED
    BY <1>0, <1>1, <1>2, <2>1, MoveKeeps
<1>6. CASE StaleClear(c)
  BY <1>0, <1>1, <1>6, MoveKeeps DEF StaleClear, ids
<1>7. CASE StaleFree(c)
  <2>1. gen' = gen /\ (NextStale(c) \/ (Goto(c, "staleFree", "staleGrab") /\ slot' = slot))
    BY <1>7 DEF StaleFree
  <2> QED
    BY <1>0, <1>1, <1>2, <2>1, MoveKeeps
<1>8. CASE StaleGrab(c)
  <2>1. gen' = gen /\ (NextStale(c) \/ (Goto(c, "staleGrab", "own") /\ slot' = slot))
    BY <1>8 DEF StaleGrab
  <2> QED
    BY <1>0, <1>1, <1>2, <2>1, MoveKeeps
<1>9. CASE Own(c)
  BY <1>0, <1>1, <1>9, MoveKeeps DEF Own, ids
<1>10. CASE Hint(c)
  <2>1. "hint" \notin NoIdLabels
    BY DEF NoIdLabels
  <2> QED
    BY <1>0, <1>10, <2>1, MoveKeeps DEF Hint, ids
<1> QED
  BY <1>3, <1>4, <1>5, <1>6, <1>7, <1>8, <1>9, <1>10 DEF AcquireStep

\* A branch and a release keep the ids, unless they leave a label without one.
LEMMA PlainKeeps ==
  ASSUME SlotTypes, NEW t \in Thread, NEW from, NEW to,
         from \notin NoIdLabels \/ to \in NoIdLabels \/ t \notin Client,
         Branch(t, from, to) \/ Disown(t, from, to) \/ FreeSlot(t, from, to)
  PROVE  KeepsIds
<1>1. Goto(t, from, to) /\ gen' = gen /\ slot' = slot
  BY DEF Branch, Disown, FreeSlot, ids
<1> QED
  BY <1>1, MoveKeeps

\* Sending, and starting a query, keep the ids.
LEMMA SendKeeps ==
  ASSUME SlotTypes, NEW c \in Client, SendStep(c) \/ Query(c)
  PROVE  KeepsIds
<1>0. c \in Thread
  BY DEF Thread
<1>1. {"send", "fullOwner", "fullState"} \cap NoIdLabels = {} /\ {"idle", "scan"} \subseteq NoIdLabels
  BY DEF NoIdLabels
<1>2. ASSUME NEW from, StartScan(c, from), gen' = gen PROVE KeepsIds
  <2>1. \A d \in Client : slot'[d] = slot[d] \/ d = c
    BY <1>0, <1>2 DEF StartScan, SlotTypes, Thread
  <2> QED
    BY <1>0, <1>1, <1>2, <2>1, MoveKeeps DEF StartScan
<1>3. CASE Send(c)
  <2>1. CASE Branch(c, "send", "fullOwner")
    BY <1>0, <1>1, <2>1, PlainKeeps
  <2>2. CASE ~Branch(c, "send", "fullOwner")
    <3>1. Goto(c, "send", "spinGen") /\ gen' = gen /\ slot' = slot
      BY <1>3, <2>2 DEF Send, ids
    <3> QED
      BY <1>0, <1>1, <3>1, MoveKeeps
  <2> QED
    BY <2>1, <2>2
<1>4. CASE SendFull(c)
  BY <1>0, <1>1, <1>4, PlainKeeps DEF SendFull
<1>5. CASE Retry(c)
  <2>1. (StartScan(c, "retry") /\ gen' = gen) \/ (Goto(c, "retry", "idle") /\ gen' = gen /\ slot' = slot)
    BY <1>5 DEF Retry, ids
  <2> QED
    BY <1>0, <1>1, <1>2, <2>1, MoveKeeps
<1>6. CASE Query(c)
  BY <1>2, <1>6 DEF Query
<1> QED
  BY <1>3, <1>4, <1>5, <1>6 DEF SendStep

\* Waiting keeps the ids.
LEMMA WaitKeeps ==
  ASSUME SlotTypes, NEW c \in Client, WaitStep(c) \/ Interrupted(c)
  PROVE  KeepsIds
<1>0. c \in Thread
  BY DEF Thread
<1>1. {"spinGen", "spinState", "wait", "load", "loadGen", "ctx", "futex", "sleep", "woken",
       "read", "readOwner", "readState", "unwait"} \cap NoIdLabels = {}
  BY DEF NoIdLabels
<1>2. ASSUME NEW from, NEW err, from \notin NoIdLabels, Fail(c, from, err) PROVE KeepsIds
  BY <1>0, <1>2, MoveKeeps DEF Fail, ids
<1>3. CASE SpinGen(c) \/ SpinState(c) \/ LoadGen(c)
  BY <1>0, <1>1, <1>2, <1>3, PlainKeeps DEF SpinGen, SpinState, LoadGen
<1>4. CASE Ctx(c, "ctx", "futex") \/ Ctx(c, "woken", "load")
  BY <1>0, <1>1, <1>2, <1>4, PlainKeeps DEF Ctx
<1>5. CASE FutexWait(c) \/ SleepEnds(c) \/ Interrupted(c)
  BY <1>0, <1>1, <1>5, PlainKeeps DEF FutexWait, SleepEnds, Interrupted
<1>6. CASE Wait(c) \/ Unwait(c)
  BY <1>0, <1>1, <1>6, MoveKeeps DEF Wait, Unwait, ids
<1>7. CASE LoadState(c) \/ Read(c)
  BY <1>0, <1>1, <1>7, MoveKeeps DEF LoadState, Read, ids
<1>8. CASE ReadRelease(c)
  BY <1>0, <1>1, <1>8, PlainKeeps DEF ReadRelease
<1> QED
  BY <1>3, <1>4, <1>5, <1>6, <1>7, <1>8 DEF WaitStep

\* A wakeup moves sleepers, which have ids, to a label with one.
LEMMA WakeKeeps ==
  ASSUME SlotTypes, gen' = gen, slot' = slot, NEW t \in Thread,
         pc[t] \notin NoIdLabels \/ t \notin Client,
         \A c \in Client \ {t} : pc'[c] # pc[c] => pc[c] = "sleep"
  PROVE  KeepsIds
<1>1. "sleep" \notin NoIdLabels
  BY DEF NoIdLabels
<1> QED
  BY <1>1 DEF KeepsIds, HasId
\* Cancelling and draining keep the ids.
LEMMA CancelKeeps ==
  ASSUME SlotTypes, NEW t \in Thread, CancelStep(t) \/ Drain(t)
  PROVE  KeepsIds
<1>1. {"cancel", "cancelFree", "cancelOwner", "cancelBump", "cancelWaiters", "cancelWake",
       "drainGen", "drainState", "drainOwner", "drainFree"} \cap NoIdLabels = {}
  BY DEF NoIdLabels
<1>2. CASE CancelGen(t) \/ CancelWaiters(t) \/ CancelOwner(t)
  BY <1>1, <1>2, PlainKeeps DEF CancelGen, CancelWaiters, CancelOwner
<1>3. CASE CancelFree(t)
  BY <1>1, <1>3, MoveKeeps DEF CancelFree, SlotCAS, ids
<1>4. CASE CancelBump(t)
  BY <1>1, <1>4, MoveKeeps DEF CancelBump, ids
<1>5. CASE CancelWake(t)
  <2>1. gen' = gen /\ slot' = slot /\ pc[t] = "cancelWake"
    BY <1>5 DEF CancelWake, ids
  <2>2. \A c \in Client \ {t} : pc'[c] # pc[c] => pc[c] = "sleep"
    BY <1>5 DEF CancelWake, SleepersOn, Thread
  <2> QED
    BY <1>1, <2>1, <2>2, WakeKeeps
<1>6. CASE Drain(t)
  BY <1>1, <1>6, PlainKeeps DEF Drain
<1> QED
  BY <1>2, <1>3, <1>4, <1>5, <1>6 DEF CancelStep

\* A handler leaves the ids of the clients alone.
LEMMA HandlerKeeps ==
  ASSUME SlotTypes, NEW h \in Handler, HandlerStep(h)
  PROVE  KeepsIds
<1>0. h \in Thread /\ h \notin Client /\ Client \subseteq Thread
  BY SlotAssumption DEF Thread
<1>1. CASE Recv(h)
  <2>1. \A c \in Client : gen'[c] = gen[c] /\ slot'[c] = slot[c]
    BY <1>0, <1>1 DEF Recv, SlotTypes
  <2>2. Goto(h, "idle", "handle")
    BY <1>1 DEF Recv
  <2> QED
    BY <1>0, <2>1, <2>2, MoveKeeps
<1>2. CASE Handle(h) \/ ReplyState(h) \/ ReplyGen(h) \/ ReplyWaiters(h)
  BY <1>0, <1>2, PlainKeeps DEF Handle, ReplyState, ReplyGen, ReplyWaiters
<1>3. CASE ReplyCopy(h)
  BY <1>0, <1>3, MoveKeeps DEF ReplyCopy, ids
<1>4. CASE ReplyReady(h)
  BY <1>0, <1>4, MoveKeeps DEF ReplyReady, SlotCAS, ids
<1>5. CASE ReplyWake(h)
  <2>1. gen' = gen /\ slot' = slot
    BY <1>5 DEF ReplyWake, ids
  <2>2. \A c \in Client \ {h} : pc'[c] # pc[c] => pc[c] = "sleep"
    BY <1>0, <1>5 DEF ReplyWake, SleepersOn, SlotTypes, Located
  <2> QED
    BY <1>0, <2>1, <2>2, WakeKeeps
<1> QED
  BY <1>1, <1>2, <1>3, <1>4, <1>5 DEF HandlerStep

\* The inductive invariant of the ids: an id is a generation its slot has had.
LEMMA IdsIssued == Spec /\ NoWrap => [](Issued /\ UniqueIds)
<1>1. Init => Issued /\ UniqueIds
  BY DEF Init, Issued, UniqueIds, HasId, NoIdLabels, Thread
<1>2. SlotTypes /\ SlotTypes' /\ Issued /\ UniqueIds /\ [Next]_vars /\ [Grows]_vars
        => Issued' /\ UniqueIds'
  <2> SUFFICES ASSUME SlotTypes, SlotTypes', Issued, UniqueIds, [Next]_vars, [Grows]_vars
               PROVE  Issued' /\ UniqueIds'
    OBVIOUS
  <2>0. Client \subseteq Thread /\ Handler \subseteq Thread
    BY DEF Thread
  <2>1. Grows
    <3>1. CASE UNCHANGED vars
      <4>1. generation' = generation /\ \A s \in Slot : generation[s] \in Nat
        BY <3>1, Ranges DEF vars, shared, SlotTypes
      <4> QED
        BY <4>1 DEF Grows
    <3> QED
      BY <3>1
  <2>2. ASSUME KeepsIds PROVE Issued' /\ UniqueIds'
    BY <2>1, <2>2, KeepsUnique
  <2>3. ASSUME NEW c \in Client, Bump(c) PROVE Issued' /\ UniqueIds'
    BY <2>1, <2>3, BumpUnique
  <2>4. ASSUME NEW c \in Client, ClientStep(c) \/ Query(c) \/ Interrupted(c), ~Bump(c)
        PROVE  KeepsIds
    BY <2>0, <2>4, AcquireKeeps, SendKeeps, WaitKeeps, CancelKeeps DEF ClientStep
  <2>5. ASSUME NEW c \in Client, Expire(c) PROVE KeepsIds
    BY <2>5 DEF Expire, ids, KeepsIds, HasId
  <2>6. ASSUME NEW h \in Handler, HandlerStep(h) \/ CancelStep(h) PROVE KeepsIds
    BY <2>0, <2>6, HandlerKeeps, CancelKeeps
  <2>7. ASSUME NEW p \in Proc, Crash(p) PROVE KeepsIds
    BY <2>0, <2>7 DEF Crash, ids, KeepsIds, HasId, NoIdLabels
  <2>8. CASE UNCHANGED vars
    <3>1. KeepsIds
      BY <2>8 DEF vars, ids, KeepsIds, HasId
    <3> QED
      BY <2>2, <3>1
  <2> QED
    BY <2>2, <2>3, <2>4, <2>5, <2>6, <2>7, <2>8 DEF Next
<1> QED
  BY <1>1, <1>2, TypesCorrect, PTL DEF Spec, NoWrap, Grows

\* No two queries in progress have the same id, whatever the number of clients,
\* slots and handlers, whoever fails, expires or is killed, as long as no
\* generation wraps: an id is the generation its slot had when it was handed
\* out (Issued), and Bump moves on to a larger one.
THEOREM IdsUnique == Spec /\ NoWrap => []UniqueIds
  BY IdsIssued, PTL

----------------------------------------------------------------------------
(* Go and C clients together *)

\* In a step of the threads in T every other thread stays as it is, but for sleepers
\* that are woken.
Elsewhere(T) ==
  /\ \A d \in Client \ T :
       /\ pc'[d] = pc[d] \/ (pc[d] = "sleep" /\ pc'[d] = "woken")
       /\ slot'[d] = slot[d] /\ gen'[d] = gen[d] /\ req'[d] = req[d]
       /\ seen'[d] = seen[d] /\ waiting'[d] = waiting[d] /\ expired'[d] = expired[d]
       /\ outcome'[d] = outcome[d] /\ answer'[d] = answer[d]
  /\ \A h \in Handler \ T :
       pc'[h] = pc[h] /\ slot'[h] = slot[h] /\ gen'[h] = gen[h] /\ req'[h] = req[h]

\* The local variables of the threads but t.
Locals(t) ==
  /\ \A d \in Thread \ {t} : slot'[d] = slot[d] /\ gen'[d] = gen[d] /\ req'[d] = req[d]
  /\ \A d \in Client \ {t} :
       /\ seen'[d] = seen[d] /\ waiting'[d] = waiting[d] /\ expired'[d] = expired[d]
       /\ outcome'[d] = outcome[d] /\ answer'[d] = answer[d]

LEMMA GotoElsewhere ==
  ASSUME SlotTypes, NEW t \in Thread, NEW from, NEW to, Goto(t, from, to), Locals(t)
  PROVE  Elsewhere({t})
  BY DEF Elsewhere, Locals, Goto, SlotTypes, Located, Thread

LEMMA BranchElsewhere ==
  ASSUME SlotTypes, NEW t \in Thread, NEW from, NEW to, Branch(t, from, to)
  PROVE  Elsewhere({t})
<1>1. Locals(t)
  BY DEF Branch, Locals, shared, ids, scan, results
<1> QED
  BY <1>1, GotoElsewhere DEF Branch

LEMMA ReleaseElsewhere ==
  ASSUME SlotTypes, NEW t \in Thread, NEW from, NEW to, Disown(t, from, to) \/ FreeSlot(t, from, to)
  PROVE  Elsewhere({t})
<1>1. Locals(t) /\ Goto(t, from, to)
  BY DEF Disown, FreeSlot, Locals, ids, scan, results
<1> QED
  BY <1>1, GotoElsewhere

LEMMA AcquireElsewhere ==
  ASSUME SlotTypes, NEW c \in Client, AcquireStep(c) \/ SlotAcquire(c)
  PROVE  Elsewhere({c})
<1> USE DEF shared, ids, scan, results
<1>0. c \in Thread
  BY DEF Thread
<1>1. CASE Scan(c) \/ StaleState(c) \/ StaleOwner(c) \/ StaleProbe(c) \/ ProbeOwner(c)
  <2>1. \E from, to : Goto(c, from, to)
    BY <1>1 DEF Scan, SlotCAS, StaleState, StaleOwner, StaleProbe, ProbeOwner, NextStale, Goto
  <2>2. Locals(c)
    BY <1>1 DEF Locals, Scan, StaleState, StaleOwner, StaleProbe, ProbeOwner, NextStale, SlotTypes
  <2> QED
    BY <1>0, <2>1, <2>2, GotoElsewhere
<1>2. CASE StaleClear(c) \/ StaleFree(c) \/ StaleGrab(c) \/ Own(c)
  <2>1. \E from, to : Goto(c, from, to)
    BY <1>2 DEF StaleClear, StaleFree, StaleGrab, Own, NextStale, Goto
  <2>2. Locals(c)
    BY <1>2 DEF Locals, StaleClear, StaleFree, StaleGrab, Own, NextStale, SlotTypes
  <2> QED
    BY <1>0, <2>1, <2>2, GotoElsewhere
<1>3. CASE Bump(c) \/ Hint(c) \/ AddGeneration(c) \/ SetHint(c)
  <2>1. \E from, to : Goto(c, from, to)
    BY <1>3 DEF Bump, Hint, AddGeneration, SetHint
  <2>2. Locals(c)
    BY <1>3 DEF Locals, Bump, Hint, AddGeneration, SetHint, SlotTypes
  <2> QED
    BY <1>0, <2>1, <2>2, GotoElsewhere
<1> QED
  BY <1>1, <1>2, <1>3 DEF AcquireStep, SlotAcquire

LEMMA SendElsewhere ==
  ASSUME SlotTypes, NEW c \in Client,
         SendStep(c) \/ Query(c) \/ TrySend(c) \/ IntTrySend(c) \/ SendWait(c)
  PROVE  Elsewhere({c})
<1> USE DEF shared, ids, scan, results
<1>0. c \in Thread
  BY DEF Thread
<1>1. CASE Send(c) \/ Retry(c) \/ Query(c)
  <2>1. \E from, to : Goto(c, from, to)
    BY <1>1 DEF Send, Retry, Query, StartScan, Branch
  <2>2. Locals(c)
    BY <1>1 DEF Locals, Send, Retry, Query, StartScan, Branch, SlotTypes
  <2> QED
    BY <1>0, <2>1, <2>2, GotoElsewhere
<1>2. CASE SendWait(c)
  <2>1. \E from, to : Goto(c, from, to)
    BY <1>2 DEF SendWait, StartScan, Branch
  <2>2. Locals(c)
    BY <1>2 DEF Locals, SendWait, StartScan, Branch, SlotTypes
  <2> QED
    BY <1>0, <2>1, <2>2, GotoElsewhere
<1>3. CASE LoadId(c) \/ (\E to : Enqueue(c, to))
  <2>1. \E from, to : Goto(c, from, to)
    BY <1>3 DEF LoadId, Enqueue
  <2>2. Locals(c)
    BY <1>3 DEF Locals, LoadId, Enqueue, SlotTypes
  <2> QED
    BY <1>0, <2>1, <2>2, GotoElsewhere
<1>4. CASE SendFull(c)
  BY <1>0, <1>4, ReleaseElsewhere DEF SendFull
<1> QED
  BY <1>0, <1>1, <1>2, <1>3, <1>4, AcquireElsewhere, BranchElsewhere DEF SendStep, TrySend, IntTrySend

LEMMA WaitElsewhere ==
  ASSUME SlotTypes, NEW c \in Client, WaitStep(c) \/ Interrupted(c) \/ GetWait(c) \/ Remaining(c)
  PROVE  Elsewhere({c})
<1> USE DEF shared, ids, scan, results
<1>0. c \in Thread
  BY DEF Thread
<1>1. ASSUME NEW from, NEW err, Fail(c, from, err) PROVE Elsewhere({c})
  <2>1. Locals(c)
    BY <1>1 DEF Locals, Fail, SlotTypes
  <2> QED
    BY <1>0, <1>1, <2>1, GotoElsewhere DEF Fail
<1>2. ASSUME NEW from, NEW to, LoadSeen(c, from, to) \/ Deregister(c, from, to) PROVE Elsewhere({c})
  <2>1. Locals(c)
    BY <1>2 DEF Locals, LoadSeen, Deregister, SlotTypes
  <2> QED
    BY <1>0, <1>2, <2>1, GotoElsewhere DEF LoadSeen, Deregister
<1>3. CASE SpinGen(c) \/ SpinState(c) \/ LoadGen(c) \/ Ctx(c, "ctx", "futex") \/ Ctx(c, "woken", "load")
           \/ Remaining(c) \/ FutexWait(c) \/ SleepEnds(c) \/ Interrupted(c)
  BY <1>0, <1>1, <1>3, BranchElsewhere
     DEF SpinGen, SpinState, LoadGen, Ctx, Remaining, FutexWait, SleepEnds, Interrupted
<1>4. CASE Wait(c) \/ Register(c) \/ Read(c)
  <2>1. Locals(c) /\ \E from, to : Goto(c, from, to)
    BY <1>4 DEF Locals, Wait, Register, Read, SlotTypes
  <2> QED
    BY <1>0, <2>1, GotoElsewhere
<1>5. CASE Unwait(c)
  BY <1>2, <1>5 DEF Unwait, Deregister
<1>6. CASE LoadState(c)
  BY <1>2, <1>6 DEF LoadState, LoadSeen
<1>7. CASE ReadRelease(c)
  BY <1>0, <1>7, ReleaseElsewhere DEF ReadRelease
<1>8. CASE Recheck(c)
  BY <1>0, <1>1, <1>2, <1>8, BranchElsewhere DEF Recheck
<1>9. CASE TryGet(c, "getState", "getGen", Branch(c, "getGen", "load"))
  BY <1>0, <1>1, <1>2, <1>9, BranchElsewhere DEF TryGet
<1>10. CASE TryGet(c, "lastState", "lastGen", Fail(c, "lastGen", "ctx"))
  BY <1>0, <1>1, <1>2, <1>10, BranchElsewhere DEF TryGet
<1> QED
  BY <1>2, <1>3, <1>4, <1>5, <1>6, <1>7, <1>8, <1>9, <1>10 DEF WaitStep, GetWait

LEMMA WakeElsewhere ==
  ASSUME SlotTypes, NEW T, NEW s, UNCHANGED <<shared, ids, scan, waiting, expired, results>>,
         \A u \in Thread \ T : pc'[u] = IF u \in SleepersOn(s) THEN "woken" ELSE pc[u]
  PROVE  Elsewhere(T)
  BY SlotAssumption DEF Elsewhere, SleepersOn, Thread, shared, ids, scan, results

LEMMA CancelElsewhere ==
  ASSUME SlotTypes, NEW t \in Thread,
         CancelStep(t) \/ Drain(t) \/ CancelRequest(t) \/ DrainResponse(t)
  PROVE  Elsewhere({t})
<1>1. CASE CancelFree(t) \/ CancelBump(t) \/ CancelCAS(t)
  <2>1. Locals(t) /\ \E from, to : Goto(t, from, to)
    BY <1>1 DEF Locals, CancelFree, CancelBump, CancelCAS, SlotCAS, ids, scan, results
  <2> QED
    BY <2>1, GotoElsewhere
<1>2. CASE CancelWake(t)
  <2>1. \A u \in Thread \ {t} : pc'[u] = IF u \in SleepersOn(slot[t]) THEN "woken" ELSE pc[u]
    BY <1>2 DEF CancelWake
  <2> QED
    BY <1>2, <2>1, WakeElsewhere DEF CancelWake
<1>3. ASSUME NEW to, pc' = [WakeAll(slot[t]) EXCEPT ![t] = to],
             UNCHANGED <<shared, ids, scan, waiting, expired, results>>
      PROVE  Elsewhere({t})
  <2>1. \A u \in Thread \ {t} : pc'[u] = IF u \in SleepersOn(slot[t]) THEN "woken" ELSE pc[u]
    BY <1>3 DEF WakeAll
  <2> QED
    BY <1>3, <2>1, WakeElsewhere
<1>4. ASSUME NEW from, NEW to, LoadSeen(t, from, to) PROVE Elsewhere({t})
  <2>1. Locals(t)
    BY <1>4 DEF Locals, LoadSeen, SlotTypes, shared, ids, results
  <2> QED
    BY <1>4, <2>1, GotoElsewhere DEF LoadSeen
<1>5. CASE CancelGen(t) \/ CancelOwner(t) \/ CancelWaiters(t) \/ Drain(t)
  BY <1>5, BranchElsewhere, ReleaseElsewhere DEF CancelGen, CancelOwner, CancelWaiters, Drain
<1>6. CASE DrainResponse(t)
  BY <1>4, <1>6, BranchElsewhere, ReleaseElsewhere DEF DrainResponse, SlotRelease
<1> QED
  BY <1>1, <1>2, <1>3, <1>5, <1>6, BranchElsewhere DEF CancelStep, CancelRequest

LEMMA HandlerElsewhere ==
  ASSUME SlotTypes, NEW h \in Handler, HandlerStep(h) \/ IntTryRecv(h) \/ GoCancel(h)
  PROVE  Elsewhere({h})
<1>0. h \in Thread /\ h \notin Client
  BY SlotAssumption DEF Thread
<1>1. CASE Recv(h) \/ ReplyCopy(h) \/ ReplyReady(h)
  <2>1. Locals(h) /\ \E from, to : Goto(h, from, to)
    BY <1>1 DEF Locals, Recv, ReplyCopy, ReplyReady, SlotCAS, SlotTypes, ids, scan, results
  <2> QED
    BY <1>0, <2>1, GotoElsewhere
<1>2. CASE IntTryRecv(h)
  <2>1. CASE Branch(h, "leave", "handle")
    BY <1>0, <2>1, BranchElsewhere
  <2>2. CASE ~Branch(h, "leave", "handle")
    <3>1. Locals(h) /\ \E from, to : Goto(h, from, to)
      BY <1>2, <2>2 DEF Locals, IntTryRecv, SlotTypes, scan, results
    <3> QED
      BY <1>0, <3>1, GotoElsewhere
  <2> QED
    BY <2>1, <2>2
<1>3. CASE ReplyWake(h)
  <2>1. ASSUME NEW c \in SleepersOn(slot[h]), pc' = [pc EXCEPT ![h] = "idle", ![c] = "woken"]
        PROVE  \A u \in Thread \ {h} : pc'[u] = IF u = c THEN "woken" ELSE pc[u]
    BY <1>0, <2>1 DEF SlotTypes, Located, SleepersOn
  <2>2. \A u \in Thread \ {h} :
          pc'[u] = pc[u] \/ (u \in Client /\ pc[u] = "sleep" /\ pc'[u] = "woken")
    <3>1. CASE \E c \in SleepersOn(slot[h]) : pc' = [pc EXCEPT ![h] = "idle", ![c] = "woken"]
      BY <2>1, <3>1 DEF SleepersOn
    <3>2. CASE pc' = [pc EXCEPT ![h] = "idle"]
      BY <1>0, <3>2 DEF SlotTypes, Located
    <3> QED
      BY <1>3, <3>1, <3>2 DEF ReplyWake
  <2> QED
    BY <1>3, <2>2, SlotAssumption DEF ReplyWake, Elsewhere, Thread, shared, ids, scan, results
<1>4. CASE Handle(h) \/ ReplyState(h) \/ ReplyGen(h) \/ ReplyWaiters(h) \/ GoCancel(h)
  BY <1>0, <1>4, BranchElsewhere, CancelElsewhere DEF Handle, ReplyState, ReplyGen, ReplyWaiters, GoCancel
<1> QED
  BY <1>1, <1>2, <1>3, <1>4 DEF HandlerStep

\* The variables of PeerSlots.
ClearTypes ==
  clear \in [at : {"idle", "load", "cas", "owner", "bump", "waiters", "wake"},
             slot : Slot, seen : SlotStates, calls : Nat]

PeerTypes ==
  /\ world \in Worlds
  /\ SlotTypes
  /\ timedOut \in [Client -> BOOLEAN]
  /\ ClearTypes

\* reqrep_clear keeps the types and moves no thread but sleepers.
LEMMA ClearSafe ==
  ASSUME SlotTypes, ClearTypes, Clear
  PROVE  SlotTypes' /\ ClearTypes' /\ Elsewhere({})
<1> USE DEF ids, scan, results
<1> DEFINE s == clear.slot
<1>0. s \in Slot /\ clear.seen \in SlotStates /\ clear.calls \in Nat
      /\ "FREE" \in SlotStates /\ 0 \in Slot
  BY Ranges DEF ClearTypes, SlotStates
<1>1. NextSlot => ClearTypes'
  <2>1. s + 1 < N => s + 1 \in Slot
    BY <1>0, SlotAssumption DEF Slot
  <2> QED
    BY <1>0, <2>1 DEF ClearTypes, NextSlot
<1>2. ASSUME pc' = pc PROVE Located' /\ Elsewhere({})
  BY <1>2 DEF Clear, Elsewhere, SlotTypes, Located
<1>3. ASSUME pc' = WakeAll(s), UNCHANGED shared PROVE SlotTypes' /\ Elsewhere({})
  <2>1. \A u \in Thread : pc'[u] = IF u \in SleepersOn(s) THEN "woken" ELSE pc[u]
    BY <1>3 DEF WakeAll
  <2>2. Located'
    BY <1>3, <2>1, SlotAssumption DEF WakeAll, SleepersOn, SlotTypes, Located, ClientLabels, TenantLabels, Thread
  <2> QED
    BY <1>3, <2>1, <2>2, WakeElsewhere DEF Clear, SlotTypes, shared
<1>4. ASSUME state' \in [Slot -> SlotStates], UNCHANGED <<generation, waiters, data, hint, alive, pc>>,
             owner' \in [Slot -> Proc \cup {NoPid}], queue' = queue \/ queue' = <<>>
      PROVE  SlotTypes' /\ Elsewhere({})
  <2>1. queue' \in Seq(Entry) /\ Len(queue') <= QueueCap
    <3>1. <<>> \in Seq(Entry) /\ Len(<<>>) <= QueueCap
      BY SlotAssumption
    <3>2. queue \in Seq(Entry) /\ Len(queue) <= QueueCap
      BY DEF SlotTypes, Entry
    <3> QED
      BY <1>4, <3>1, <3>2
  <2> QED
    BY <1>2, <1>4, <2>1 DEF Clear, SlotTypes, Entry
<1>5. CASE ClearReset
  <2>0. clear.calls + 1 \in Nat
    BY <1>0
  <2>1. ClearTypes'
    BY <1>5, <2>0 DEF ClearReset, ClearTypes
  <2> QED
    BY <1>4, <1>5, <2>1 DEF ClearReset, SlotTypes
<1>6. CASE clear.at = "load" /\ ClearSlot
  <2>0. NextSlot \/ clear' = [clear EXCEPT !.at = "cas", !.seen = state[s]]
    BY <1>6 DEF ClearSlot, ClearGoto
  <2>1. ClearTypes'
    <3>1. state[s] \in SlotStates
      BY <1>0 DEF SlotTypes
    <3> QED
      BY <1>1, <2>0, <3>1 DEF ClearTypes
  <2> QED
    BY <1>4, <1>6, <2>1 DEF ClearSlot, ClearGoto, SlotTypes, shared
<1>7. CASE clear.at = "cas" /\ ClearSlot
  <2>1. ClearTypes'
    <3>1. state[s] \in SlotStates
      BY <1>0 DEF SlotTypes
    <3>2. \/ NextSlot \/ clear' = [clear EXCEPT !.at = "owner"]
          \/ clear' = [clear EXCEPT !.seen = state[s]]
      BY <1>7 DEF ClearSlot, ClearGoto
    <3> QED
      BY <1>1, <3>1, <3>2 DEF ClearTypes
  <2>0. state' = state \/ state' = [state EXCEPT ![s] = "FREE"]
    BY <1>7 DEF ClearSlot, ClearGoto
  <2>2. state' \in [Slot -> SlotStates]
    BY <1>0, <2>0 DEF SlotTypes
  <2> QED
    BY <1>4, <1>7, <2>1, <2>2 DEF ClearSlot, ClearGoto, SlotTypes
<1>8. CASE clear.at = "owner" /\ ClearSlot
  <2>1. ClearTypes'
    BY <1>8 DEF ClearSlot, ClearGoto, ClearTypes
  <2>2. owner' \in [Slot -> Proc \cup {NoPid}]
    BY <1>0, <1>8 DEF ClearSlot, ClearGoto, SlotTypes
  <2> QED
    BY <1>4, <1>8, <2>1, <2>2 DEF ClearSlot, ClearGoto, SlotTypes
<1>9. CASE clear.at = "bump" /\ ClearSlot
  <2>1. ClearTypes'
    BY <1>9 DEF ClearSlot, ClearGoto, ClearTypes
  <2>2. /\ generation' = [generation EXCEPT ![s] = Succ(@)]
        /\ UNCHANGED <<state, owner, waiters, data, hint, queue, alive, pc>>
    BY <1>9 DEF ClearSlot, ClearGoto
  <2>3. generation' \in [Slot -> Gen]
    BY <1>0, <2>2, Ranges DEF SlotTypes
  <2> QED
    BY <1>2, <2>1, <2>2, <2>3 DEF Clear, SlotTypes
<1>10. CASE clear.at = "waiters" /\ ClearSlot
  <2>1. ClearTypes'
    BY <1>1, <1>10 DEF ClearSlot, ClearGoto, ClearTypes
  <2> QED
    BY <1>4, <1>10, <2>1 DEF ClearSlot, ClearGoto, SlotTypes, shared
<1>11. CASE clear.at = "wake" /\ ClearSlot
  BY <1>1, <1>3, <1>11 DEF ClearSlot, ClearGoto
<1> QED
  BY <1>5, <1>6, <1>7, <1>8, <1>9, <1>10, <1>11 DEF Clear, ClearSlot, ClearGoto

\* The environment of a client, too, leaves the other threads alone.
LEMMA EnvironmentSafe ==
  ASSUME SlotTypes, NEW c \in Client, Environment(c)
  PROVE  SlotTypes' /\ Elsewhere({c})
<1>1. CASE Expire(c)
  <2>1. Elsewhere({c})
    BY <1>1 DEF Expire, Elsewhere, SlotTypes, shared, ids, scan, results
  <2> QED
    BY <1>1, <2>1, EndTypes
<1>2. CASE Query(c) \/ Interrupted(c)
  BY <1>2, SendTypes, SendElsewhere, WaitTypes, WaitElsewhere
<1> QED
  BY <1>1, <1>2 DEF Environment

\* In an integer segment there is at most one handler, which makes Leaving finite.
LEMMA OneHandler ==
  ASSUME world \in Worlds, world.mode = "int"
  PROVE  IsFiniteSet(Handler)
<1>1. \A g, h \in Handler : g = h
  BY WorldAssumption
<1>2. CASE Handler = {}
  BY <1>2, FS_EmptySet
<1>3. CASE Handler # {}
  <2>1. PICK h \in Handler : Handler = {h}
    BY <1>1, <1>3
  <2>2. IsFiniteSet({h})
    BY FS_Singleton
  <2> QED
    BY <2>1, <2>2
<1> QED
  BY <1>2, <1>3

\* A client that works keeps the types and leaves the other threads alone.
LEMMA PeerClientSafe ==
  ASSUME PeerTypes, NEW c \in Client, PeerClientStep(c)
  PROVE  /\ SlotTypes' /\ Elsewhere({c})
         /\ timedOut' \in [Client -> BOOLEAN]
<1>0. c \in Thread
  BY DEF Thread
<1> USE DEF PeerTypes
<1>1. CASE ClientStep(c) /\ UNCHANGED timedOut
  BY <1>0, <1>1, AcquireTypes, SendTypes, WaitTypes, CancelTypes,
     AcquireElsewhere, SendElsewhere, WaitElsewhere, CancelElsewhere DEF ClientStep
<1>2. CASE SendWait(c)
  <2>1. timedOut' \in [Client -> BOOLEAN]
    BY <1>2 DEF SendWait, SlotTypes
  <2> QED
    BY <1>2, <2>1, SendTypes, SendElsewhere
<1>3. CASE Request(c) /\ UNCHANGED timedOut
  BY <1>0, <1>3, WaitTypes, CancelTypes, WaitElsewhere, CancelElsewhere DEF Request
<1>4. CASE TrySend(c) /\ UNCHANGED timedOut
  BY <1>4, SendTypes, SendElsewhere
<1>5. CASE world.mode = "int" /\ IntTrySend(c) /\ UNCHANGED timedOut
  BY <1>5, OneHandler, SendTypes, SendElsewhere
<1> QED
  BY <1>1, <1>2, <1>3, <1>4, <1>5 DEF PeerClientStep, StrRequest, IntRequest

\* So does a handler of a Go or a C server.
LEMMA PeerHandlerSafe ==
  ASSUME PeerTypes, NEW h \in Handler, PeerHandlerStep(h)
  PROVE  SlotTypes' /\ Elsewhere({h})
<1>0. h \in Thread
  BY DEF Thread
<1>1. CASE StrReply(h) \/ Recv(h)
  <2>1. HandlerStep(h)
    BY <1>1 DEF StrReply, HandlerStep, Handle
  <2> QED
    BY <2>1, HandlerTypes, HandlerElsewhere DEF PeerTypes
<1>2. CASE IntReply(h)
  <2>1. HandlerStep(h)
    BY <1>2 DEF IntReply, HandlerStep, Handle
  <2> QED
    BY <2>1, HandlerTypes, HandlerElsewhere DEF PeerTypes
<1>3. CASE GoCancel(h) \/ IntTryRecv(h)
  BY <1>3, HandlerTypes, HandlerElsewhere DEF PeerTypes
<1> QED
  BY <1>1, <1>2, <1>3 DEF PeerHandlerStep

\* The types of Go and C clients together.
LEMMA PeerStepTypes == PeerTypes /\ [PeerNext]_peerVars => PeerTypes'
<1> SUFFICES ASSUME PeerTypes, [PeerNext]_peerVars PROVE PeerTypes'
  OBVIOUS
<1>1. ASSUME NEW c \in Client, PeerClientStep(c) \/ Environment(c), UNCHANGED <<world, clear>>
      PROVE  PeerTypes'
  BY <1>1, PeerClientSafe, EnvironmentSafe DEF PeerTypes, ClearTypes, Environment
<1>2. ASSUME NEW h \in Handler, PeerHandlerStep(h), UNCHANGED <<world, clear>> PROVE PeerTypes'
  BY <1>2, PeerHandlerSafe DEF PeerTypes, ClearTypes, PeerHandlerStep
<1>3. ASSUME NEW p \in Proc, Crash(p), UNCHANGED <<world, timedOut, clear>> PROVE PeerTypes'
  BY <1>3, EndTypes DEF PeerTypes, ClearTypes
<1>4. ASSUME Clear, UNCHANGED world PROVE PeerTypes'
  BY <1>4, ClearSafe DEF PeerTypes, Clear
<1>5. CASE UNCHANGED peerVars
  BY <1>5 DEF peerVars, vars, shared, ids, scan, results, PeerTypes, ClearTypes, SlotTypes, Located
<1> QED
  BY <1>1, <1>2, <1>3, <1>4, <1>5 DEF PeerNext

----------------------------------------------------------------------------
(* The count of waiters *)

Registered(s) == {c \in Client : waiting[c] /\ slot[c] = s}

Counted ==
  \A s \in Slot : IsFiniteSet(Registered(s)) /\ waiters[s] = Cardinality(Registered(s))

\* Where a client is registered with its slot: a Go client until it leaves the wait, a C
\* client around every sleep.  A Go client that has its response may or may not be.
Registers(c) ==
  IF c \in world.go
  THEN {"load", "loadGen", "ctx", "futex", "sleep", "woken", "unwait"}
  ELSE {"recheckGen", "recheckState", "ctx", "futex", "sleep", "woken", "ready", "unwait"}

MayRegister(c) ==
  IF c \in world.go THEN {"read", "readOwner", "readState", "dead"} ELSE {"dead"}

PlacedAt(c) ==
  /\ pc[c] \in Registers(c) => waiting[c]
  /\ waiting[c] => pc[c] \in Registers(c) \cup MayRegister(c)

Placed == \A c \in Client : PlacedAt(c)

\* The count is right: it is all of the invariant, with the places of the registered.
CountInv == Counted /\ Placed

\* A step of c that neither registers nor deregisters it.
Unregistered(c) ==
  /\ waiters' = waiters /\ waiting'[c] = waiting[c]
  /\ waiting[c] => slot'[c] = slot[c]
  /\ PlacedAt(c)'

\* Whoever else is where it was, or woken, has not lost its place.
LEMMA ElsewherePlaced ==
  ASSUME Placed, NEW T, Elsewhere(T), world' = world
  PROVE  \A d \in Client \ T : PlacedAt(d)'
  BY DEF Placed, PlacedAt, Elsewhere, Registers, MayRegister

LEMMA UnregisteredCounts ==
  ASSUME CountInv, NEW T, Elsewhere(T), world' = world, waiters' = waiters,
         \A c \in Client \cap T : Unregistered(c)
  PROVE  CountInv'
<1>1. \A c \in Client : waiting'[c] = waiting[c] /\ (waiting[c] => slot'[c] = slot[c])
  BY DEF Elsewhere, Unregistered
<1>2. \A s \in Slot : Registered(s)' = Registered(s)
  BY <1>1 DEF Registered
<1>3. Placed'
  BY ElsewherePlaced DEF CountInv, Placed, Unregistered
<1> QED
  BY <1>2, <1>3 DEF CountInv, Counted

\* A client that registers was not, and one that deregisters was.
LEMMA RegisterCounts ==
  ASSUME SlotTypes, CountInv, NEW c \in Client, Elsewhere({c}), world' = world,
         Wait(c) \/ Register(c), ~waiting[c], PlacedAt(c)'
  PROVE  CountInv'
<1>0. c \in Thread /\ slot[c] \in Slot /\ slot' = slot
  BY DEF SlotTypes, Thread, Wait, Register, ids
<1>1. /\ waiters' = [waiters EXCEPT ![slot[c]] = @ + 1]
      /\ waiting' = [waiting EXCEPT ![c] = TRUE]
  BY DEF Wait, Register
<1>2. Registered(slot[c])' = Registered(slot[c]) \cup {c}
  BY <1>0, <1>1 DEF Registered, SlotTypes
<1>3. \A s \in Slot \ {slot[c]} : Registered(s)' = Registered(s) /\ waiters'[s] = waiters[s]
  BY <1>0, <1>1 DEF Registered, SlotTypes
<1>4. c \notin Registered(slot[c])
  BY DEF Registered
<1>5. IsFiniteSet(Registered(slot[c])') /\ waiters'[slot[c]] = Cardinality(Registered(slot[c])')
  <2>1. IsFiniteSet(Registered(slot[c])) /\ waiters[slot[c]] = Cardinality(Registered(slot[c]))
    BY <1>0 DEF CountInv, Counted
  <2>2. waiters'[slot[c]] = waiters[slot[c]] + 1
    BY <1>0, <1>1 DEF SlotTypes
  <2> QED
    BY <1>2, <1>4, <2>1, <2>2, FS_AddElement
<1>6. Placed'
  BY ElsewherePlaced DEF CountInv, Placed
<1>7. ASSUME NEW s \in Slot
      PROVE  IsFiniteSet(Registered(s)') /\ waiters'[s] = Cardinality(Registered(s)')
  <2>1. CASE s = slot[c]
    BY <1>0, <1>5, <2>1
  <2>2. CASE s # slot[c]
    BY <1>3, <2>2 DEF CountInv, Counted
  <2> QED
    BY <2>1, <2>2
<1> QED
  BY <1>6, <1>7 DEF CountInv, Counted

LEMMA DeregisterCounts ==
  ASSUME SlotTypes, CountInv, NEW c \in Client, Elsewhere({c}), world' = world,
         Unwait(c) \/ \E from, to : Deregister(c, from, to), waiting[c], PlacedAt(c)'
  PROVE  CountInv'
<1>0. c \in Thread /\ slot[c] \in Slot /\ slot' = slot
  BY DEF SlotTypes, Thread, Unwait, Deregister, ids
<1>1. /\ waiters' = [waiters EXCEPT ![slot[c]] = @ - 1]
      /\ waiting' = [waiting EXCEPT ![c] = FALSE]
  BY DEF Unwait, Deregister
<1>2. Registered(slot[c])' = Registered(slot[c]) \ {c}
  BY <1>0, <1>1 DEF Registered, SlotTypes
<1>3. \A s \in Slot \ {slot[c]} : Registered(s)' = Registered(s) /\ waiters'[s] = waiters[s]
  BY <1>0, <1>1 DEF Registered, SlotTypes
<1>4. c \in Registered(slot[c])
  BY DEF Registered
<1>5. IsFiniteSet(Registered(slot[c])') /\ waiters'[slot[c]] = Cardinality(Registered(slot[c])')
  <2>1. IsFiniteSet(Registered(slot[c])) /\ waiters[slot[c]] = Cardinality(Registered(slot[c]))
    BY <1>0 DEF CountInv, Counted
  <2>2. waiters'[slot[c]] = waiters[slot[c]] - 1
    BY <1>0, <1>1 DEF SlotTypes
  <2> QED
    BY <1>2, <1>4, <2>1, <2>2, FS_RemoveElement
<1>6. Placed'
  BY ElsewherePlaced DEF CountInv, Placed
<1>7. ASSUME NEW s \in Slot
      PROVE  IsFiniteSet(Registered(s)') /\ waiters'[s] = Cardinality(Registered(s)')
  <2>1. CASE s = slot[c]
    BY <1>0, <1>5, <2>1
  <2>2. CASE s # slot[c]
    BY <1>3, <2>2 DEF CountInv, Counted
  <2> QED
    BY <2>1, <2>2
<1> QED
  BY <1>6, <1>7 DEF CountInv, Counted

\* A step between two labels that keeps the place of c.
LEMMA MoveUnregistered ==
  ASSUME SlotTypes, NEW c \in Client, PlacedAt(c), world' = world, NEW from, NEW to,
         Goto(c, from, to), waiters' = waiters, waiting' = waiting, slot' = slot,
         from \in Registers(c) \/ waiting[c] => to \in Registers(c) \cup MayRegister(c),
         to \in Registers(c) => from \in Registers(c) \/ waiting[c]
  PROVE  Unregistered(c)
<1>1. c \in Thread /\ pc[c] = from /\ pc'[c] = to
  BY DEF Goto, SlotTypes, Located, Thread
<1>2. Registers(c)' = Registers(c) /\ MayRegister(c)' = MayRegister(c)
  BY DEF Registers, MayRegister
<1> QED
  BY <1>1, <1>2 DEF Unregistered, PlacedAt

\* Nobody is registered at any other label.
Off == ClientLabels \ {"load", "loadGen", "ctx", "futex", "sleep", "woken", "unwait", "read",
                       "readOwner", "readState", "recheckGen", "recheckState", "ready", "dead"}

LEMMA OffUnregistered ==
  ASSUME SlotTypes, NEW c \in Client, PlacedAt(c), world' = world,
         waiters' = waiters, waiting' = waiting,
         \E from, to \in Off : Goto(c, from, to)
  PROVE  Unregistered(c)
<1>1. c \in Thread /\ pc[c] \in Off /\ pc'[c] \in Off
  BY DEF Goto, SlotTypes, Located, Thread
<1>2. Registers(c)' = Registers(c) /\ MayRegister(c)' = MayRegister(c)
  BY DEF Registers, MayRegister
<1>3. Off \cap (Registers(c) \cup MayRegister(c)) = {}
  BY DEF Off, Registers, MayRegister
<1>4. waiting[c] \in BOOLEAN /\ ~waiting[c]
  BY <1>1, <1>3 DEF PlacedAt, SlotTypes
<1> QED
  BY <1>1, <1>2, <1>3, <1>4 DEF Unregistered, PlacedAt

\* Acquiring a slot, sending, cancelling and draining are all done without a place.
LEMMA OffLabels ==
  {"idle", "scan", "stale", "staleOwner", "staleProbe", "staleClear", "staleFree", "staleGrab",
   "retry", "own", "bump", "bumpAgain", "hint", "setHint", "loadId", "send", "publish", "sent", "sendSleep",
   "fullOwner", "fullState", "spinGen", "spinState", "wait", "getState", "getGen", "lastState",
   "lastGen", "cancel", "cancelFree", "cancelOwner", "cancelBump", "cancelWaiters", "cancelWake",
   "drainGen", "drainState", "drainOwner", "drainFree", "drainLoad", "drainCheck"} \subseteq Off
  BY DEF Off, ClientLabels, TenantLabels

LEMMA AcquireUnregistered ==
  ASSUME SlotTypes, NEW c \in Client, PlacedAt(c), world' = world,
         AcquireStep(c) \/ SlotAcquire(c)
  PROVE  Unregistered(c)
<1> USE DEF shared, ids, scan, results
<1>1. waiters' = waiters /\ waiting' = waiting
  BY DEF AcquireStep, SlotAcquire, Scan, StaleState, StaleOwner, StaleProbe, ProbeOwner, StaleClear,
         StaleFree, StaleGrab, Own, Bump, Hint, AddGeneration, SetHint
<1>2. NextStale(c) => \E to \in {"retry", "stale"} : pc' = [pc EXCEPT ![c] = to]
  BY DEF NextStale
<1>3. CASE Scan(c) \/ StaleState(c) \/ StaleOwner(c) \/ StaleProbe(c) \/ ProbeOwner(c)
  <2>1. \E from, to \in Off : Goto(c, from, to)
    BY <1>2, <1>3, OffLabels DEF Scan, SlotCAS, StaleState, StaleOwner, StaleProbe, ProbeOwner, Goto
  <2> QED
    BY <1>1, <2>1, OffUnregistered
<1>4. CASE StaleClear(c) \/ StaleFree(c) \/ StaleGrab(c) \/ Own(c)
  <2>1. \E from, to \in Off : Goto(c, from, to)
    BY <1>2, <1>4, OffLabels DEF StaleClear, StaleFree, StaleGrab, Own, Goto
  <2> QED
    BY <1>1, <2>1, OffUnregistered
<1>5. CASE Bump(c) \/ Hint(c) \/ AddGeneration(c) \/ SetHint(c)
  <2>1. \E from, to \in Off : Goto(c, from, to)
    <3>1. CASE Bump(c)
      <4>1. PICK from \in {"bump", "bumpAgain"}, to \in {"bumpAgain", "hint", "send"} : Goto(c, from, to)
        BY <3>1 DEF Bump
      <4> QED
        BY <4>1, OffLabels
    <3> QED
      BY <1>5, <3>1, OffLabels DEF Hint, AddGeneration, SetHint
  <2> QED
    BY <1>1, <2>1, OffUnregistered
<1> QED
  BY <1>3, <1>4, <1>5 DEF AcquireStep, SlotAcquire

LEMMA SendUnregistered ==
  ASSUME SlotTypes, NEW c \in Client, PlacedAt(c), world' = world,
         SendStep(c) \/ Query(c) \/ TrySend(c) \/ IntTrySend(c) \/ SendWait(c)
  PROVE  Unregistered(c)
<1> USE DEF shared, ids, scan, results
<1>1. CASE Send(c) \/ Retry(c) \/ Query(c)
  <2>1. \E from, to \in Off : Goto(c, from, to)
    BY <1>1, OffLabels DEF Send, Retry, Query, StartScan, Branch
  <2>2. waiters' = waiters /\ waiting' = waiting
    BY <1>1 DEF Send, Retry, Query, Branch
  <2> QED
    BY <2>1, <2>2, OffUnregistered
<1>2. CASE SendWait(c)
  <2>1. \E from, to \in Off : Goto(c, from, to)
    BY <1>2, OffLabels DEF SendWait, StartScan, Branch
  <2>2. waiters' = waiters /\ waiting' = waiting
    BY <1>2 DEF SendWait, Branch
  <2> QED
    BY <2>1, <2>2, OffUnregistered
<1>3. CASE LoadId(c) \/ Enqueue(c, "sent") \/ Enqueue(c, "publish") \/ Branch(c, "publish", "sent")
           \/ Branch(c, "send", "fullOwner") \/ SendFull(c)
  <2>1. \E from, to \in Off : Goto(c, from, to)
    BY <1>3, OffLabels DEF LoadId, Enqueue, Branch, SendFull, Disown, FreeSlot
  <2>2. waiters' = waiters /\ waiting' = waiting
    BY <1>3 DEF LoadId, Enqueue, Branch, SendFull, Disown, FreeSlot
  <2> QED
    BY <2>1, <2>2, OffUnregistered
<1> QED
  BY <1>1, <1>2, <1>3, AcquireUnregistered DEF SendStep, TrySend, IntTrySend

LEMMA CancelUnregistered ==
  ASSUME SlotTypes, NEW c \in Client, PlacedAt(c), world' = world,
         CancelStep(c) \/ Drain(c) \/ CancelRequest(c) \/ DrainResponse(c)
  PROVE  Unregistered(c)
<1> USE DEF shared, ids, scan, results
<1>0. c \in Thread /\ Cancelled(c) \in {"drainGen", "idle"} /\ AfterCancel(c) \in {"drainLoad", "idle"}
  BY DEF Thread, Cancelled, AfterCancel
<1>1. CASE CancelGen(c) \/ CancelFree(c) \/ CancelOwner(c) \/ CancelBump(c) \/ CancelWaiters(c)
  <2>1. \E from, to \in Off : Goto(c, from, to)
    BY <1>0, <1>1, OffLabels
       DEF CancelGen, CancelFree, CancelOwner, CancelBump, CancelWaiters, SlotCAS, Branch, Disown
  <2>2. waiters' = waiters /\ waiting' = waiting
    BY <1>1 DEF CancelGen, CancelFree, CancelOwner, CancelBump, CancelWaiters, Branch, Disown
  <2> QED
    BY <2>1, <2>2, OffUnregistered
<1>2. CASE Drain(c) \/ DrainResponse(c)
  <2>1. \E from, to \in Off : Goto(c, from, to)
    BY <1>2, OffLabels DEF Drain, DrainResponse, LoadSeen, SlotRelease, Branch, Disown, FreeSlot
  <2>2. waiters' = waiters /\ waiting' = waiting
    BY <1>2 DEF Drain, DrainResponse, LoadSeen, SlotRelease, Branch, Disown, FreeSlot
  <2> QED
    BY <2>1, <2>2, OffUnregistered
<1>3. ASSUME pc[c] = "cancelWake", waiters' = waiters, waiting' = waiting,
             pc'[c] \in {"drainGen", "drainLoad", "idle"}
      PROVE  Unregistered(c)
  <2>1. Registers(c)' = Registers(c) /\ MayRegister(c)' = MayRegister(c)
    BY DEF Registers, MayRegister
  <2>2. {pc[c], pc'[c]} \cap (Registers(c) \cup MayRegister(c)) = {}
    BY <1>3 DEF Registers, MayRegister
  <2>3. waiting[c] \in BOOLEAN /\ ~waiting[c]
    BY <2>2 DEF PlacedAt, SlotTypes
  <2> QED
    BY <1>3, <2>1, <2>2, <2>3 DEF Unregistered, PlacedAt
<1>4. CASE CancelWake(c)
  <2>1. pc'[c] = Cancelled(c)
    BY <1>0, <1>4 DEF CancelWake
  <2> QED
    BY <1>0, <1>3, <1>4, <2>1 DEF CancelWake
<1>5. CASE CancelRequest(c)
  <2>1. CASE pc[c] = "cancelWake" /\ pc' = [WakeAll(slot[c]) EXCEPT ![c] = AfterCancel(c)]
             /\ UNCHANGED <<shared, waiting>>
    <3>1. pc'[c] = AfterCancel(c)
      BY <1>0, <2>1 DEF WakeAll
    <3> QED
      BY <1>0, <1>3, <2>1, <3>1
  <2>2. CASE CancelOwner(c) \/ CancelBump(c)
    BY <1>1, <2>2
  <2>3. CASE CancelCAS(c) \/ Branch(c, "cancel", IF generation[slot[c]] = gen[c]
                                                 THEN "cancelFree" ELSE AfterCancel(c))
             \/ Branch(c, "cancelWaiters", IF waiters[slot[c]] > 0 THEN "cancelWake" ELSE AfterCancel(c))
    <3>1. \E from, to \in Off : Goto(c, from, to)
      BY <1>0, <2>3, OffLabels DEF CancelCAS, SlotCAS, Branch
    <3>2. waiters' = waiters /\ waiting' = waiting
      BY <2>3 DEF CancelCAS, Branch
    <3> QED
      BY <3>1, <3>2, OffUnregistered
  <2> QED
    BY <1>5, <2>1, <2>2, <2>3 DEF CancelRequest
<1> QED
  BY <1>1, <1>2, <1>4, <1>5 DEF CancelStep

\* Waiting, Go: registered from Wait to Unwait.
LEMMA GoWaitCounts ==
  ASSUME SlotTypes, CountInv, NEW c \in Client, c \in world.go, world' = world, Elsewhere({c}),
         WaitStep(c) \/ Interrupted(c)
  PROVE  CountInv'
<1> USE DEF shared, ids, scan, results
<1>1. c \in Thread /\ PlacedAt(c) /\ waiting[c] \in BOOLEAN
      /\ Registers(c) = {"load", "loadGen", "ctx", "futex", "sleep", "woken", "unwait"}
      /\ MayRegister(c) = {"read", "readOwner", "readState", "dead"}
      /\ Registers(c)' = Registers(c) /\ MayRegister(c)' = MayRegister(c)
  BY DEF Thread, CountInv, Placed, Registers, MayRegister, SlotTypes
<1>2. SUFFICES ASSUME ~Wait(c), ~Unwait(c) PROVE Unregistered(c)
  <2>1. CASE Wait(c)
    <3>1. pc[c] = "wait" /\ pc'[c] = "load" /\ waiting'[c] = TRUE
      BY <1>1, <2>1 DEF Wait, Goto, SlotTypes, Located
    <3>2. ~waiting[c] /\ PlacedAt(c)'
      BY <1>1, <3>1 DEF PlacedAt
    <3> QED
      BY <2>1, <3>2, RegisterCounts
  <2>2. CASE Unwait(c)
    <3>1. pc[c] = "unwait" /\ pc'[c] \in {"idle", "cancel"} /\ waiting'[c] = FALSE
      BY <1>1, <2>2 DEF Unwait, Goto, SlotTypes, Located
    <3>2. waiting[c] /\ PlacedAt(c)'
      BY <1>1, <3>1 DEF PlacedAt
    <3> QED
      BY <2>2, <3>2, DeregisterCounts
  <2>3. CASE ~Wait(c) /\ ~Unwait(c)
    <3>1. Unregistered(c)
      BY <1>2, <2>3
    <3>2. \A d \in Client \cap {c} : Unregistered(d)
      BY <3>1
    <3> QED
      BY <3>1, <3>2, UnregisteredCounts DEF Unregistered
  <2> QED
    BY <2>1, <2>2, <2>3
<1>3. waiters' = waiters /\ waiting' = waiting /\ slot' = slot
  BY <1>2 DEF WaitStep, Interrupted, SpinGen, SpinState, LoadState, LoadGen, Ctx, FutexWait, SleepEnds,
              Read, ReadRelease, Branch, Fail, Disown, FreeSlot
<1>4. ASSUME NEW from, NEW err, Fail(c, from, err), from \notin {"read", "readOwner", "readState", "dead"}
      PROVE  Unregistered(c)
  <2>1. Goto(c, from, IF waiting[c] THEN "unwait" ELSE "cancel") /\ pc[c] = from
    BY <1>4 DEF Fail, Goto
  <2> QED
    BY <1>1, <1>3, <1>4, <2>1, MoveUnregistered DEF PlacedAt
<1>5. CASE SpinGen(c) \/ LoadGen(c) \/ Ctx(c, "ctx", "futex") \/ Ctx(c, "woken", "load")
  <2>1. \/ \E from \in {"spinGen", "loadGen", "ctx", "woken"}, err \in {"ctx", "stale"} : Fail(c, from, err)
        \/ Goto(c, "spinGen", "spinState") \/ Goto(c, "loadGen", "read") \/ Goto(c, "loadGen", "ctx")
        \/ Goto(c, "ctx", "futex") \/ Goto(c, "woken", "load")
    BY <1>5 DEF SpinGen, LoadGen, Ctx, Branch
  <2>2. PlacedAt(c) /\ \A from, to : Goto(c, from, to) => pc[c] = from
    BY <1>1 DEF Goto
  <2> QED
    BY <1>1, <1>3, <1>4, <2>1, <2>2, MoveUnregistered DEF PlacedAt
<1>6. CASE SpinState(c) \/ LoadState(c) \/ FutexWait(c) \/ SleepEnds(c) \/ Interrupted(c)
  <2>1. \/ Goto(c, "spinState", "read") \/ Goto(c, "spinState", "spinGen") \/ Goto(c, "spinState", "wait")
        \/ Goto(c, "load", "loadGen") \/ Goto(c, "futex", "sleep") \/ Goto(c, "futex", "woken")
        \/ Goto(c, "sleep", "woken")
    BY <1>6 DEF SpinState, LoadState, FutexWait, SleepEnds, Interrupted, Branch
  <2>2. \A from, to : Goto(c, from, to) => pc[c] = from
    BY DEF Goto
  <2> QED
    BY <1>1, <1>3, <2>1, <2>2, MoveUnregistered DEF PlacedAt
<1>7. CASE Read(c) \/ ReadRelease(c)
  <2>1. \/ Goto(c, "read", "readOwner") \/ Goto(c, "readOwner", "readState")
        \/ Goto(c, "readState", IF waiting[c] THEN "unwait" ELSE "idle")
    BY <1>7 DEF Read, ReadRelease, Disown, FreeSlot
  <2> QED
    BY <1>1, <1>3, <2>1, MoveUnregistered DEF PlacedAt
<1> QED
  BY <1>2, <1>5, <1>6, <1>7 DEF WaitStep

\* Waiting, C: registered around a sleep.
LEMMA GetWaitCounts ==
  ASSUME SlotTypes, CountInv, NEW c \in Client, c \notin world.go, world' = world, Elsewhere({c}),
         GetWait(c) \/ Remaining(c) \/ Interrupted(c)
  PROVE  CountInv'
<1> USE DEF shared, ids, scan, results
<1> DEFINE Deregisters == Unwait(c) \/ Deregister(c, "woken", "getState")
                            \/ Deregister(c, "ready", "lastState")
<1>1. c \in Thread /\ PlacedAt(c) /\ waiting[c] \in BOOLEAN
      /\ Registers(c) = {"recheckGen", "recheckState", "ctx", "futex", "sleep", "woken", "ready", "unwait"}
      /\ MayRegister(c) = {"dead"}
      /\ Registers(c)' = Registers(c) /\ MayRegister(c)' = MayRegister(c)
  BY DEF Thread, CountInv, Placed, Registers, MayRegister, SlotTypes
<1>2. SUFFICES ASSUME ~Register(c), ~Deregisters PROVE Unregistered(c)
  <2>1. CASE Register(c)
    <3>1. pc[c] = "wait" /\ pc'[c] = "recheckGen" /\ waiting'[c] = TRUE
      BY <1>1, <2>1 DEF Register, Goto, SlotTypes, Located
    <3>2. ~waiting[c] /\ PlacedAt(c)'
      BY <1>1, <3>1 DEF PlacedAt
    <3> QED
      BY <2>1, <3>2, RegisterCounts
  <2>2. CASE Deregisters
    <3>1. pc[c] \in {"unwait", "woken", "ready"} /\ waiting'[c] = FALSE
          /\ pc'[c] \in {"idle", "cancel", "getState", "lastState"}
      BY <1>1, <2>2 DEF Unwait, Deregister, Goto, SlotTypes, Located
    <3>2. waiting[c] /\ PlacedAt(c)'
      BY <1>1, <3>1 DEF PlacedAt
    <3> QED
      BY <2>2, <3>2, DeregisterCounts
  <2>3. CASE ~Register(c) /\ ~Deregisters
    <3>1. Unregistered(c)
      BY <1>2, <2>3
    <3>2. \A d \in Client \cap {c} : Unregistered(d)
      BY <3>1
    <3> QED
      BY <3>1, <3>2, UnregisteredCounts DEF Unregistered
  <2> QED
    BY <2>1, <2>2, <2>3
<1> HIDE DEF Deregisters
<1>3. ASSUME NEW from, NEW to, Branch(c, from, to) \/ LoadSeen(c, from, to) \/ Read(c) \/ ReadRelease(c)
                               \/ (\E err : Fail(c, from, err))
      PROVE  waiters' = waiters /\ waiting' = waiting /\ slot' = slot
  BY <1>3 DEF Branch, LoadSeen, Read, ReadRelease, Fail, Disown, FreeSlot
<1>4. ASSUME NEW from, NEW err, Fail(c, from, err), from # "dead"
      PROVE  Unregistered(c)
  <2>1. Goto(c, from, IF waiting[c] THEN "unwait" ELSE "cancel") /\ pc[c] = from
    BY <1>4 DEF Fail, Goto
  <2> QED
    BY <1>1, <1>3, <1>4, <2>1, MoveUnregistered DEF PlacedAt
<1>5. ASSUME NEW from, NEW to, Branch(c, from, to) \/ LoadSeen(c, from, to),
             (from \in Registers(c) /\ to \in Registers(c)) \/ {from, to} \cap (Registers(c) \cup {"dead"}) = {}
      PROVE  Unregistered(c)
  <2>1. Goto(c, from, to) /\ pc[c] = from
    BY <1>5 DEF Branch, LoadSeen, Goto
  <2> QED
    BY <1>1, <1>3, <1>5, <2>1, MoveUnregistered DEF PlacedAt
<1>6. CASE TryGet(c, "getState", "getGen", Branch(c, "getGen", "load"))
  BY <1>1, <1>4, <1>5, <1>6 DEF TryGet
<1>7. CASE TryGet(c, "lastState", "lastGen", Fail(c, "lastGen", "ctx"))
  BY <1>1, <1>4, <1>5, <1>7 DEF TryGet
<1>8. CASE LoadSeen(c, "load", IF state[slot[c]] = "READY" THEN "lastState" ELSE "wait") \/ Remaining(c)
  BY <1>1, <1>4, <1>5, <1>8 DEF Remaining
<1>9. CASE Recheck(c) \/ Ctx(c, "ctx", "futex")
  BY <1>1, <1>4, <1>5, <1>9 DEF Recheck, Ctx
<1>10. CASE FutexWait(c) \/ SleepEnds(c) \/ Interrupted(c)
  BY <1>1, <1>5, <1>10 DEF FutexWait, SleepEnds, Interrupted
<1>11. CASE Read(c) \/ ReadRelease(c)
  <2>1. \/ Goto(c, "read", "readOwner") \/ Goto(c, "readOwner", "readState")
        \/ Goto(c, "readState", IF waiting[c] THEN "unwait" ELSE "idle")
    BY <1>11 DEF Read, ReadRelease, Disown, FreeSlot
  <2>2. waiters' = waiters /\ waiting' = waiting /\ slot' = slot
    BY <1>3, <1>11
  <2>3. pc[c] \in {"read", "readOwner", "readState"}
    BY <2>1 DEF Goto
  <2>4. ~waiting[c]
    BY <1>1, <2>3 DEF PlacedAt
  <2> QED
    BY <1>1, <2>1, <2>2, <2>4, MoveUnregistered DEF PlacedAt
<1> QED
  BY <1>2, <1>6, <1>7, <1>8, <1>9, <1>10, <1>11 DEF GetWait, Deregisters

\* Handlers, reqrep_clear and the death of a process register nobody.
LEMMA HandlerCounts ==
  ASSUME PeerTypes, CountInv, NEW h \in Handler, PeerHandlerStep(h), world' = world
  PROVE  CountInv'
<1>1. waiters' = waiters
  <2> USE DEF shared
  <2>1. CASE Recv(h) \/ StrReply(h) \/ IntReply(h) \/ IntTryRecv(h)
    BY <2>1 DEF Recv, StrReply, IntReply, IntTryRecv, ReplyState, ReplyGen, ReplyCopy, ReplyReady,
                ReplyWaiters, ReplyWake, Branch
  <2>2. CASE GoCancel(h)
    BY <2>2 DEF GoCancel, CancelStep, CancelGen, CancelFree, CancelOwner, CancelBump, CancelWaiters,
                CancelWake, Branch, Disown
  <2> QED
    BY <2>1, <2>2 DEF PeerHandlerStep
<1> QED
  BY <1>1, PeerHandlerSafe, UnregisteredCounts, SlotAssumption

LEMMA ClearCounts ==
  ASSUME PeerTypes, CountInv, Clear, world' = world
  PROVE  CountInv'
<1>1. waiters' = waiters
  BY DEF Clear, ClearReset, ClearSlot, shared
<1> QED
  BY <1>1, ClearSafe, UnregisteredCounts DEF PeerTypes

LEMMA CrashCounts ==
  ASSUME PeerTypes, CountInv, NEW p \in Proc, Crash(p), world' = world
  PROVE  CountInv'
<1>1. waiters' = waiters /\ waiting' = waiting /\ slot' = slot
  BY DEF Crash, ids
<1>2. \A c \in Client : pc'[c] = pc[c] \/ pc'[c] = "dead"
  BY DEF Crash, Thread
<1>3. \A c \in Client : PlacedAt(c)'
  BY <1>1, <1>2 DEF CountInv, Placed, PlacedAt, Registers, MayRegister
<1> QED
  BY <1>1, <1>3 DEF CountInv, Counted, Registered, Placed

LEMMA GoClients ==
  ASSUME world \in Worlds
  PROVE  world.go \subseteq Client /\ world.go \cap world.c = {}
  BY WorldAssumption

\* A client that works, and what happens to it, keep the count.
LEMMA ClientCounts ==
  ASSUME PeerTypes, CountInv, NEW c \in Client, PeerClientStep(c) \/ Environment(c), world' = world
  PROVE  CountInv'
<1>1. SlotTypes /\ Elsewhere({c}) /\ PlacedAt(c) /\ c \in Thread
  BY PeerClientSafe, EnvironmentSafe DEF PeerTypes, CountInv, Placed, Thread
<1>2. ASSUME Unregistered(c) PROVE CountInv'
  <2>1. \A d \in Client \cap {c} : Unregistered(d)
    BY <1>2
  <2> QED
    BY <1>1, <1>2, <2>1, UnregisteredCounts DEF Unregistered
<1>3. c \in world.c => c \notin world.go
  BY GoClients DEF PeerTypes
<1>4. CASE c \in world.go /\ ClientStep(c)
  BY <1>1, <1>2, <1>4, GoWaitCounts, AcquireUnregistered, SendUnregistered, CancelUnregistered
     DEF ClientStep
<1>5. CASE c \in world.c /\ (TrySend(c) \/ IntTrySend(c) \/ SendWait(c) \/ Request(c))
  BY <1>1, <1>2, <1>3, <1>5, GetWaitCounts, SendUnregistered, CancelUnregistered DEF Request
<1>6. CASE Query(c)
  BY <1>1, <1>2, <1>6, SendUnregistered
<1>7. CASE Interrupted(c)
  BY <1>1, <1>7, GoWaitCounts, GetWaitCounts
<1>8. CASE Expire(c)
  <2>1. Unregistered(c)
    BY <1>1, <1>8 DEF Expire, Unregistered, PlacedAt, Registers, MayRegister, shared, ids
  <2> QED
    BY <1>2, <2>1
<1> QED
  BY <1>4, <1>5, <1>6, <1>7, <1>8 DEF PeerClientStep, Environment, StrRequest, IntRequest

\* A Go client hands out no id of generation 0, and nobody else touches its id.
LEMMA ClientIds ==
  ASSUME PeerTypes, NoLap, NonZeroId, NEW c \in Client, PeerClientStep(c) \/ Environment(c), world' = world
  PROVE  NonZeroId'
<1>1. SlotTypes /\ Elsewhere({c}) /\ c \in Thread
  BY PeerClientSafe, EnvironmentSafe DEF PeerTypes, Thread
<1>2. \A d \in Client \ {c} : HasId(d)' => HasId(d) /\ gen'[d] = gen[d]
  BY <1>1 DEF Elsewhere, HasId, NoIdLabels
<1>3. SUFFICES ASSUME c \in world.go, HasId(c)' PROVE gen'[c] # 0
  BY <1>2, GoClients DEF NonZeroId, PeerTypes
<1>4. CASE KeepsIds
  BY <1>3, <1>4 DEF KeepsIds, NonZeroId
<1>5. CASE Bump(c)
  <2>1. DEFINE g == Succ(generation[slot[c]])
  <2>2. gen'[c] = g
    BY <1>1, <1>5 DEF Bump, SlotTypes
  <2>3. pc[c] = "bumpAgain" => g # 0
    <3>1. generation[slot[c]] \in 0..(GenMod - 1)
      BY <1>1, Ranges DEF SlotTypes, Gen
    <3>2. pc[c] = "bumpAgain" => generation[slot[c]] + 1 < GenMod
      BY <3>1, SlotAssumption DEF NoLap
    <3> QED
      BY <3>1, <3>2, SlotAssumption DEF Succ
  <2>4. g = 0 => pc'[c] = "bumpAgain"
    BY <1>1, <1>5, <2>3 DEF Bump, Goto, SlotTypes, Located
  <2> QED
    BY <1>3, <2>2, <2>4 DEF HasId, NoIdLabels
<1>6. CASE Expire(c)
  <2>1. KeepsIds
    BY <1>6 DEF Expire, ids, KeepsIds, HasId
  <2> QED
    BY <1>4, <2>1
<1>7. CASE ClientStep(c) /\ ~Bump(c)
  BY <1>1, <1>4, <1>7, AcquireKeeps, SendKeeps, WaitKeeps, CancelKeeps DEF ClientStep
<1>8. CASE Query(c) \/ Interrupted(c)
  BY <1>1, <1>4, <1>8, SendKeeps, WaitKeeps
<1>9. c \notin world.c
  BY <1>3, GoClients DEF PeerTypes
<1> QED
  BY <1>5, <1>6, <1>7, <1>8, <1>9 DEF PeerClientStep, Environment

LEMMA ElsewhereIds ==
  ASSUME PeerTypes, NonZeroId, NEW T, Elsewhere(T), Client \cap T = {}, world' = world
  PROVE  NonZeroId'
  BY GoClients DEF PeerTypes, NonZeroId, Elsewhere, HasId, NoIdLabels

PeerInv == PeerTypes /\ CountInv

\* The inductive invariant of the slots with Go and C clients on them.
LEMMA PeerInvariance == PeerSpec => []PeerInv
<1>1. PeerInit => PeerInv
  <2> SUFFICES ASSUME PeerInit PROVE PeerInv
    OBVIOUS
  <2>1. PeerTypes
    BY InitTypes, Ranges DEF PeerInit, PeerTypes, ClearTypes, SlotStates
  <2>2. CountInv
    <3>1. \A s \in Slot : Registered(s) = {} /\ waiters[s] = 0
      BY DEF PeerInit, Init, Registered
    <3>2. \A c \in Client : ~waiting[c] /\ pc[c] = "idle"
      BY DEF PeerInit, Init, Thread
    <3> QED
      BY <3>1, <3>2, FS_EmptySet DEF CountInv, Counted, Placed, PlacedAt, Registers
  <2> QED
    BY <2>1, <2>2 DEF PeerInv
<1>2. PeerInv /\ [PeerNext]_peerVars => PeerInv'
  <2> SUFFICES ASSUME PeerInv, [PeerNext]_peerVars PROVE PeerInv'
    OBVIOUS
  <2>1. PeerTypes'
    BY PeerStepTypes DEF PeerInv
  <2>2. ASSUME NEW c \in Client, PeerClientStep(c) \/ Environment(c), UNCHANGED <<world, clear>>
        PROVE  PeerInv'
    BY <2>1, <2>2, ClientCounts DEF PeerInv
  <2>3. ASSUME NEW h \in Handler, PeerHandlerStep(h), UNCHANGED <<world, clear>> PROVE PeerInv'
    BY <2>1, <2>3, HandlerCounts DEF PeerInv
  <2>4. ASSUME NEW p \in Proc, Crash(p), UNCHANGED <<world, timedOut, clear>> PROVE PeerInv'
    BY <2>1, <2>4, CrashCounts DEF PeerInv
  <2>5. ASSUME Clear, UNCHANGED world PROVE PeerInv'
    BY <2>1, <2>5, ClearCounts DEF PeerInv, PeerTypes
  <2>6. CASE UNCHANGED peerVars
    BY <2>1, <2>6 DEF peerVars, vars, shared, ids, PeerInv, CountInv, Counted, Registered, Placed,
       PlacedAt, Registers, MayRegister
  <2> QED
    BY <2>2, <2>3, <2>4, <2>5, <2>6 DEF PeerNext
<1> QED
  BY <1>1, <1>2, PTL DEF PeerSpec

\* Whatever the clients, Go and C, the handlers, deadlines, failures and deaths: every
\* word keeps its type, and the waiters word of a slot counts exactly the clients
\* registered in it.  A client registers once and deregisters once on every way out of
\* the wait, which is what the places of the registered (Placed) say.
THEOREM PeerTypesCorrect == PeerSpec => []PeerTypeOK
<1>1. PeerInv => PeerTypeOK
  BY DEF PeerInv, PeerTypes, CountInv, Counted, Registered, PeerTypeOK
<1> QED
  BY <1>1, PeerInvariance, PTL

\* Unless others bring the generation of a slot round to the end of its 32 bits once
\* more between the two additions of a client (NoLap), a Go client never sends a request
\* with the id 0, which its sendWait takes for a failed attempt: it adds to the
\* generation once more when C clients or a wrap have left a slot that goes to 0.
THEOREM IdsNonZero == PeerSpec /\ []NoLap => []NonZeroId
<1>1. PeerInit => NonZeroId
  BY GoClients DEF PeerInit, Init, Thread, NonZeroId, HasId, NoIdLabels
<1>2. PeerInv /\ NoLap /\ NonZeroId /\ [PeerNext]_peerVars => NonZeroId'
  <2> SUFFICES ASSUME PeerInv, NoLap, NonZeroId, [PeerNext]_peerVars PROVE NonZeroId'
    OBVIOUS
  <2>1. ASSUME NEW c \in Client, PeerClientStep(c) \/ Environment(c), UNCHANGED <<world, clear>>
        PROVE  NonZeroId'
    BY <2>1, ClientIds DEF PeerInv
  <2>2. ASSUME NEW h \in Handler, PeerHandlerStep(h), UNCHANGED <<world, clear>> PROVE NonZeroId'
    <3>1. Client \cap {h} = {} /\ Elsewhere({h})
      BY <2>2, PeerHandlerSafe, SlotAssumption DEF PeerInv
    <3> QED
      BY <2>2, <3>1, ElsewhereIds DEF PeerInv
  <2>3. ASSUME NEW p \in Proc, Crash(p), UNCHANGED <<world, timedOut, clear>> PROVE NonZeroId'
    BY <2>3, GoClients DEF PeerInv, PeerTypes, NonZeroId, Crash, HasId, NoIdLabels, ids, Thread
  <2>4. ASSUME Clear, UNCHANGED world PROVE NonZeroId'
    BY <2>4, ClearSafe, ElsewhereIds DEF PeerInv, PeerTypes
  <2>5. CASE UNCHANGED peerVars
    BY <2>5 DEF peerVars, vars, ids, NonZeroId, HasId
  <2> QED
    BY <2>1, <2>2, <2>3, <2>4, <2>5 DEF PeerNext
<1> QED
  BY <1>1, <1>2, PeerInvariance, PTL DEF PeerSpec
=============================================================================
