---------------------------- MODULE TenancyProofs ----------------------------
(***************************************************************************)
(* A response slot has one tenant at a time while handlers do not cancel   *)
(* and no process is killed; without deadlines and clears too, every query *)
(* gets its own response and nothing leaks.  For any number of clients, Go *)
(* and C, handlers and slots.                                              *)
(***************************************************************************)
EXTENDS RespSlotsProofs

CancelLabels ==
  {"cancel", "cancelFree", "cancelOwner", "cancelBump", "cancelWaiters", "cancelWake"}

Draining == {"drainGen", "drainLoad", "drainCheck"}

\* A client has its slot, or will find when it drains that it still has.
Holds(c) == Tenant(c) \/ (pc[c] \in Draining /\ generation[slot[c]] = gen[c])

\* Who has a slot has it alone, and it is not free.
Exclusive ==
  /\ \A c \in Client : Holds(c) => state[slot[c]] # "FREE"
  /\ \A c, d \in Client : c # d /\ Holds(c) /\ Holds(d) => slot[c] # slot[d]

\* Where a response was read the query is a success; past the bump of a cancel
\* the id is out of date.
Course ==
  \A c \in Client :
    /\ pc[c] \in {"readOwner", "readState"} => outcome[c] = "ok"
    /\ pc[c] \in {"cancelWaiters", "cancelWake"} => gen[c] # generation[slot[c]]

\* The second pass recovers nothing and no handler cancels.
Calm ==
  /\ alive = Proc /\ DOMAIN outcome = Client
  /\ \A c \in Client : pc[c] \notin {"staleClear", "staleFree", "staleGrab"}
  /\ \A h \in Handler : pc[h] \notin CancelLabels

\* The other clients, in a step of thread t: asleep and woken, or unmoved.
Others(t) ==
  \A d \in Client \ {t} :
    /\ pc'[d] = pc[d] \/ (pc[d] = "sleep" /\ pc'[d] = "woken")
    /\ slot'[d] = slot[d] /\ gen'[d] = gen[d] /\ outcome'[d] = outcome[d]

\* The threads but t in a step of t, and the processes.
Rest(t) ==
  /\ Others(t)
  /\ alive' = alive /\ DOMAIN outcome' = DOMAIN outcome
  /\ \A h \in Handler \ {t} : pc'[h] = pc[h]

\* What a client's own step must see to; Scan may take a slot besides.
Sound(c) ==
  /\ Holds(c)' => Holds(c) /\ slot'[c] = slot[c]
  /\ pc'[c] \in {"readOwner", "readState"} => outcome'[c] = "ok"
  /\ pc'[c] \in {"cancelWaiters", "cancelWake"} => gen'[c] # generation'[slot'[c]]
  /\ pc'[c] \notin {"staleClear", "staleFree", "staleGrab"}

\* In a step of t another client does not come to hold a slot.
LEMMA OthersHold ==
  ASSUME SlotTypes, SlotTypes', Issued, Grows, NEW t, Others(t),
         NEW d \in Client, d # t, Holds(d)'
  PROVE  Holds(d) /\ slot'[d] = slot[d]
<1>0. d \in Thread
  BY DEF Thread
<1>1. /\ pc'[d] = pc[d] \/ (pc[d] = "sleep" /\ pc'[d] = "woken")
      /\ slot'[d] = slot[d] /\ gen'[d] = gen[d] /\ outcome'[d] = outcome[d]
  BY DEF Others
<1>2. CASE Tenant(d)'
  BY <1>1, <1>2 DEF Tenant, TenantLabels, Holds, Draining
<1>3. CASE pc'[d] \in Draining /\ generation'[slot'[d]] = gen'[d]
  <2>1. pc[d] \in Draining /\ HasId(d)
    BY <1>1, <1>3 DEF HasId, NoIdLabels, Draining
  <2>2. slot[d] \in Slot /\ gen[d] \in Nat
    BY <1>0, Ranges DEF SlotTypes
  <2>3. generation[slot[d]] \in Nat /\ generation'[slot[d]] \in Nat
    BY <2>2, Ranges DEF SlotTypes
  <2>4. gen[d] <= generation[slot[d]] /\ generation'[slot[d]] >= generation[slot[d]]
    BY <2>1, <2>2 DEF Issued, Grows
  <2>5. generation[slot[d]] = gen[d]
    BY <1>1, <1>3, <2>2, <2>3, <2>4
  <2> QED
    BY <1>1, <2>1, <2>5 DEF Holds
<1> QED
  BY <1>2, <1>3 DEF Holds

\* A step of t that takes no slot, and frees none but the one t gives up, keeps
\* the slots exclusive.
LEMMA StepExclusive ==
  ASSUME SlotTypes, SlotTypes', Issued, Grows, Exclusive, NEW t, Others(t),
         t \in Client /\ Holds(t)' => Holds(t) /\ slot'[t] = slot[t],
         \A s \in Slot : state'[s] = "FREE" =>
           state[s] = "FREE" \/ (t \in Client /\ s = slot[t] /\ Holds(t) /\ ~Holds(t)')
  PROVE  Exclusive'
<1>1. \A d \in Client : Holds(d)' => Holds(d) /\ slot'[d] = slot[d]
  BY OthersHold
<1>2. ASSUME NEW d \in Client, Holds(d)' PROVE state'[slot'[d]] # "FREE"
  <2>1. Holds(d) /\ slot'[d] = slot[d] /\ slot[d] \in Slot /\ state[slot[d]] # "FREE"
    BY <1>1, <1>2 DEF Exclusive, SlotTypes, Thread
  <2>2. CASE d = t
    BY <1>2, <2>1, <2>2
  <2>3. CASE d # t
    BY <2>1, <2>3 DEF Exclusive
  <2> QED
    BY <2>2, <2>3
<1>3. ASSUME NEW d \in Client, NEW e \in Client, d # e, Holds(d)', Holds(e)'
      PROVE  slot'[d] # slot'[e]
  BY <1>1, <1>3 DEF Exclusive
<1> QED
  BY <1>2, <1>3 DEF Exclusive

\* Taking a free slot keeps the slots exclusive: its tenants would keep it from
\* being free.
LEMMA ScanExclusive ==
  ASSUME SlotTypes, SlotTypes', Issued, Grows, Exclusive, NEW c \in Client, Scan(c)
  PROVE  Exclusive'
<1>0. c \in Thread /\ Client \subseteq Thread /\ slot[c] \in Slot
  BY DEF Thread, SlotTypes
<1>1. Others(c)
  BY <1>0 DEF Scan, SlotCAS, Goto, SlotTypes, Others, results
<1>2. CASE state[slot[c]] = "FREE"
  <2>1. slot' = slot /\ state' = [state EXCEPT ![slot[c]] = "ACQUIRED"]
    BY <1>2 DEF Scan, SlotCAS
  <2>2. ASSUME NEW d \in Client, d # c, Holds(d)'
        PROVE  Holds(d) /\ slot[d] # slot[c] /\ state[slot[d]] # "FREE" /\ slot[d] \in Slot
    <3>1. Holds(d)
      BY <1>1, <2>2, OthersHold
    <3> QED
      BY <1>0, <1>2, <3>1 DEF Exclusive, SlotTypes
  <2>3. \A d \in Client : Holds(d)' => state'[slot'[d]] # "FREE"
    BY <1>0, <2>1, <2>2 DEF SlotTypes
  <2>4. \A d, e \in Client : d # e /\ Holds(d)' /\ Holds(e)' => slot'[d] # slot'[e]
    BY <2>1, <2>2 DEF Exclusive
  <2> QED
    BY <2>3, <2>4 DEF Exclusive
<1>3. CASE state[slot[c]] # "FREE"
  <2>1. state' = state /\ pc'[c] \in {"scan", "stale"}
    BY <1>0, <1>3 DEF Scan, SlotCAS, Goto, SlotTypes
  <2>2. ~Holds(c)'
    BY <2>1 DEF Holds, Draining, Tenant, TenantLabels
  <2> QED
    BY <1>1, <2>1, <2>2, StepExclusive
<1> QED
  BY <1>2, <1>3
\* The course of the other clients is kept.
LEMMA OthersCourse ==
  ASSUME SlotTypes, SlotTypes', Issued, Grows, Course, NEW t, Others(t), NEW d \in Client, d # t
  PROVE  /\ pc'[d] \in {"readOwner", "readState"} => outcome'[d] = "ok"
         /\ pc'[d] \in {"cancelWaiters", "cancelWake"} => gen'[d] # generation'[slot'[d]]
<1>0. d \in Thread
  BY DEF Thread
<1>1. /\ pc'[d] = pc[d] \/ (pc[d] = "sleep" /\ pc'[d] = "woken")
      /\ slot'[d] = slot[d] /\ gen'[d] = gen[d] /\ outcome'[d] = outcome[d]
  BY DEF Others
<1>2. ASSUME pc'[d] \in {"cancelWaiters", "cancelWake"} PROVE gen'[d] # generation'[slot'[d]]
  <2>1. pc[d] \in {"cancelWaiters", "cancelWake"}
    BY <1>1, <1>2
  <2>2. HasId(d) /\ gen[d] # generation[slot[d]]
    BY <2>1 DEF HasId, NoIdLabels, Course
  <2>3. slot[d] \in Slot /\ gen[d] \in Nat
    BY <1>0, Ranges DEF SlotTypes
  <2>4. generation[slot[d]] \in Nat /\ generation'[slot[d]] \in Nat
    BY <2>3, Ranges DEF SlotTypes
  <2>5. gen[d] <= generation[slot[d]] /\ generation'[slot[d]] >= generation[slot[d]]
    BY <2>2, <2>3 DEF Issued, Grows
  <2> QED
    BY <1>1, <2>2, <2>3, <2>4, <2>5
<1> QED
  BY <1>1, <1>2 DEF Course

\* Whatever the step of t, the rest of the system stays calm and on course.
LEMMA StepKeeps ==
  ASSUME SlotTypes, SlotTypes', Issued, Grows, Course, Calm, NEW t \in Thread, Rest(t),
         t \in Client => Sound(t) \/ pc'[t] = "own",
         t \in Handler => pc'[t] \notin CancelLabels
  PROVE  Course' /\ Calm'
<1>1. Course'
  BY OthersCourse DEF Course, Rest, Sound
<1>2. alive' = Proc /\ DOMAIN outcome' = Client
  BY DEF Rest, Calm
<1>3. ASSUME NEW c \in Client PROVE pc'[c] \notin {"staleClear", "staleFree", "staleGrab"}
  BY DEF Calm, Rest, Others, Sound
<1>4. ASSUME NEW h \in Handler PROVE pc'[h] \notin CancelLabels
  BY DEF Calm, Rest
<1> QED
  BY <1>1, <1>2, <1>3, <1>4 DEF Calm

\* The rest of the system in a step of one thread.
LEMMA MoveRest ==
  ASSUME SlotTypes, NEW t \in Thread, NEW from, NEW to, Goto(t, from, to),
         alive' = alive, DOMAIN outcome' = DOMAIN outcome,
         \A d \in Client \ {t} : slot'[d] = slot[d] /\ gen'[d] = gen[d] /\ outcome'[d] = outcome[d]
  PROVE  Rest(t) /\ pc[t] = from /\ pc'[t] = to
  BY DEF Goto, SlotTypes, Located, Rest, Others, Thread

\* A branch moves the control state of its thread and nothing else.
LEMMA BranchRest ==
  ASSUME SlotTypes, NEW t \in Thread, NEW from, NEW to, Branch(t, from, to)
  PROVE  /\ Rest(t) /\ pc[t] = from /\ pc'[t] = to /\ state' = state /\ slot' = slot
         /\ gen' = gen /\ generation' = generation /\ outcome' = outcome
<1>1. /\ Goto(t, from, to) /\ state' = state /\ slot' = slot /\ alive' = alive
      /\ gen' = gen /\ generation' = generation /\ outcome' = outcome
  BY DEF Branch, shared, ids, results
<1> QED
  BY <1>1, MoveRest

\* A step from one label of a tenant to another that changes no slot state.
LEMMA TenantMove ==
  ASSUME SlotTypes, SlotTypes', Issued, Grows, Exclusive, Course, Calm,
         NEW c \in Client, Rest(c), state' = state, slot' = slot, Tenant(c),
         pc'[c] \in ClientLabels \ {"readOwner", "readState", "cancelWaiters", "cancelWake",
                                   "staleClear", "staleFree", "staleGrab"}
  PROVE  Exclusive' /\ Course' /\ Calm'
<1>1. Sound(c)
  BY DEF Sound, Holds
<1>2. c \in Thread /\ c \notin Handler
  BY SlotAssumption DEF Thread
<1>3. Exclusive'
  BY <1>1, StepExclusive DEF Sound, Rest
<1> QED
  BY <1>1, <1>2, <1>3, StepKeeps
\* The rest of the system when a client's query takes another course.
LEMMA OutcomeRest ==
  ASSUME SlotTypes, Calm, NEW c \in Client, NEW from, NEW to, NEW err, Goto(c, from, to),
         outcome' = [outcome EXCEPT ![c] = err], alive' = alive, slot' = slot, gen' = gen
  PROVE  Rest(c) /\ pc[c] = from /\ pc'[c] = to /\ outcome'[c] = err
<1>1. c \in Thread
  BY DEF Thread
<1>2. /\ outcome'[c] = err /\ DOMAIN outcome' = DOMAIN outcome
      /\ \A d \in Client \ {c} : outcome'[d] = outcome[d]
  BY DEF Calm
<1> QED
  BY <1>1, <1>2, MoveRest

\* Waiting for a response keeps the slots exclusive.
LEMMA WaitTenancy ==
  ASSUME SlotTypes, SlotTypes', Issued, Grows, Exclusive, Course, Calm,
         NEW c \in Client, WaitStep(c) \/ Interrupted(c)
  PROVE  Exclusive' /\ Course' /\ Calm'
<1> DEFINE Plain == {"spinGen", "spinState", "wait", "load", "loadGen", "ctx", "futex", "sleep",
                     "woken", "read", "cancel", "unwait", "idle"}
<1>0. c \in Thread /\ c \notin Handler
  BY SlotAssumption DEF Thread
<1>1. Plain \subseteq ClientLabels \ {"readOwner", "readState", "cancelWaiters", "cancelWake",
                                     "staleClear", "staleFree", "staleGrab"}
  BY DEF ClientLabels, TenantLabels
<1>2. ASSUME NEW from \in TenantLabels, NEW to \in Plain, Branch(c, from, to)
      PROVE  Exclusive' /\ Course' /\ Calm'
  BY <1>0, <1>1, <1>2, BranchRest, TenantMove DEF Tenant
<1>3. ASSUME NEW from \in TenantLabels, NEW err, Fail(c, from, err)
      PROVE  Exclusive' /\ Course' /\ Calm'
  <2>1. PICK to \in {"unwait", "cancel"} : Goto(c, from, to)
    BY <1>3 DEF Fail
  <2>2. outcome' = [outcome EXCEPT ![c] = err] /\ state' = state /\ alive' = alive
        /\ slot' = slot /\ gen' = gen
    BY <1>3 DEF Fail, shared, ids
  <2>3. Rest(c) /\ pc[c] = from /\ pc'[c] = to
    BY <2>1, <2>2, OutcomeRest
  <2> QED
    BY <1>1, <2>2, <2>3, TenantMove DEF Tenant
<1>4. Plain \ {"unwait", "idle"} \subseteq TenantLabels
  BY DEF TenantLabels
<1>5. CASE SpinGen(c) \/ SpinState(c) \/ LoadGen(c)
  BY <1>2, <1>3, <1>4, <1>5 DEF SpinGen, SpinState, LoadGen
<1>6. CASE Ctx(c, "ctx", "futex") \/ Ctx(c, "woken", "load")
  BY <1>2, <1>3, <1>4, <1>6 DEF Ctx
<1>7. CASE FutexWait(c) \/ SleepEnds(c) \/ Interrupted(c)
  BY <1>2, <1>4, <1>7 DEF FutexWait, SleepEnds, Interrupted
<1>8. CASE Wait(c) \/ LoadState(c)
  <2>1. /\ Goto(c, "wait", "load") \/ Goto(c, "load", "loadGen")
        /\ state' = state /\ alive' = alive /\ slot' = slot /\ gen' = gen /\ outcome' = outcome
    BY <1>8 DEF Wait, LoadState, shared, ids, results
  <2>2. Rest(c) /\ pc[c] \in {"wait", "load"} /\ pc'[c] \in {"load", "loadGen"}
    BY <1>0, <2>1, MoveRest
  <2> QED
    BY <1>1, <1>4, <2>1, <2>2, TenantMove DEF Tenant
<1>9. CASE Read(c)
  <2>1. /\ Goto(c, "read", "readOwner") /\ state' = state /\ alive' = alive /\ slot' = slot
        /\ gen' = gen /\ outcome' = [outcome EXCEPT ![c] = "ok"]
    BY <1>9 DEF Read, shared, ids
  <2>2. Rest(c) /\ pc[c] = "read" /\ pc'[c] = "readOwner" /\ outcome'[c] = "ok"
    BY <2>1, OutcomeRest
  <2>3. Sound(c)
    BY <1>4, <2>1, <2>2 DEF Sound, Holds, Tenant
  <2> QED
    BY <1>0, <2>1, <2>2, <2>3, StepExclusive, StepKeeps DEF Sound, Rest
<1>10. CASE ReadRelease(c)
  <2>1. CASE Disown(c, "readOwner", "readState")
    <3>1. /\ Goto(c, "readOwner", "readState") /\ state' = state /\ alive' = alive
          /\ slot' = slot /\ gen' = gen /\ outcome' = outcome
      BY <2>1 DEF Disown, ids, results
    <3>2. Rest(c) /\ pc[c] = "readOwner" /\ pc'[c] = "readState"
      BY <1>0, <3>1, MoveRest
    <3>3. Sound(c)
      BY <3>1, <3>2 DEF Sound, Holds, Draining, Tenant, TenantLabels, Course
    <3> QED
      BY <1>0, <3>1, <3>2, <3>3, StepExclusive, StepKeeps DEF Sound, Rest
  <2>2. CASE ~Disown(c, "readOwner", "readState")
    <3>1. PICK to \in {"unwait", "idle"} :
            /\ Goto(c, "readState", to) /\ state' = [state EXCEPT ![slot[c]] = "FREE"]
            /\ alive' = alive /\ slot' = slot /\ gen' = gen /\ outcome' = outcome
      BY <1>10, <2>2 DEF ReadRelease, FreeSlot, ids, results
    <3>2. Rest(c) /\ pc[c] = "readState" /\ pc'[c] \in {"unwait", "idle"}
      BY <1>0, <3>1, MoveRest
    <3>3. outcome'[c] = "ok"
      BY <3>1, <3>2 DEF Course
    <3>4. Holds(c) /\ ~Holds(c)' /\ Sound(c)
      BY <3>2, <3>3 DEF Sound, Holds, Draining, Tenant, TenantLabels
    <3>5. \A s \in Slot : state'[s] = "FREE" => state[s] = "FREE" \/ s = slot[c]
      BY <3>1 DEF SlotTypes
    <3> QED
      BY <1>0, <3>2, <3>4, <3>5, StepExclusive, StepKeeps DEF Sound, Rest
  <2> QED
    BY <2>1, <2>2
<1>11. CASE Unwait(c)
  <2>1. PICK to : /\ to = (IF outcome[c] = "ok" THEN "idle" ELSE "cancel")
                  /\ Goto(c, "unwait", to) /\ state' = state /\ alive' = alive /\ slot' = slot
                  /\ gen' = gen /\ outcome' = outcome
    BY <1>11 DEF Unwait, ids, results
  <2>2. Rest(c) /\ pc[c] = "unwait" /\ pc'[c] = to
    BY <1>0, <2>1, MoveRest
  <2>3. Sound(c)
    BY <2>1, <2>2 DEF Sound, Holds, Draining, Tenant, TenantLabels
  <2> QED
    BY <1>0, <2>1, <2>2, <2>3, StepExclusive, StepKeeps DEF Sound, Rest
<1> QED
  BY <1>5, <1>6, <1>7, <1>8, <1>9, <1>10, <1>11 DEF WaitStep
\* A client's step that frees no slot keeps the slots exclusive.
LEMMA SoundStep ==
  ASSUME SlotTypes, SlotTypes', Issued, Grows, Exclusive, Course, Calm,
         NEW c \in Client, Rest(c), state' = state, Sound(c)
  PROVE  Exclusive' /\ Course' /\ Calm'
<1>1. c \in Thread /\ c \notin Handler
  BY SlotAssumption DEF Thread
<1> QED
  BY <1>1, StepExclusive, StepKeeps DEF Sound, Rest

\* Giving the slot back keeps the slots exclusive.
LEMMA GiveBack ==
  ASSUME SlotTypes, SlotTypes', Issued, Grows, Exclusive, Course, Calm,
         NEW c \in Client, Rest(c), state' = [state EXCEPT ![slot[c]] = "FREE"],
         Holds(c), pc'[c] \in {"retry", "idle", "cancelOwner"}
  PROVE  Exclusive' /\ Course' /\ Calm'
<1>1. c \in Thread /\ c \notin Handler
  BY SlotAssumption DEF Thread
<1>2. ~Holds(c)' /\ Sound(c)
  BY DEF Sound, Holds, Draining, Tenant, TenantLabels
<1>3. \A s \in Slot : state'[s] = "FREE" => state[s] = "FREE" \/ s = slot[c]
  BY DEF SlotTypes
<1> QED
  BY <1>1, <1>2, <1>3, StepExclusive, StepKeeps DEF Rest

\* Looking for a slot, and taking one, keeps the slots exclusive.
LEMMA AcquireTenancy ==
  ASSUME SlotTypes, SlotTypes', Issued, Grows, Exclusive, Course, Calm,
         NEW c \in Client, AcquireStep(c)
  PROVE  Exclusive' /\ Course' /\ Calm'
<1>0. c \in Thread /\ c \notin Handler /\ Client \subseteq Thread
  BY SlotAssumption DEF Thread
<1>1. CASE Scan(c)
  <2>1. PICK to \in {"own", "stale", "scan"} : Goto(c, "scan", to)
    BY <1>1 DEF Scan, SlotCAS
  <2>2. /\ alive' = alive /\ outcome' = outcome
        /\ \A d \in Client \ {c} : slot'[d] = slot[d] /\ gen'[d] = gen[d]
    BY <1>0, <1>1 DEF Scan, SlotTypes, results
  <2>3. Rest(c) /\ pc'[c] = to
    BY <1>0, <2>1, <2>2, MoveRest
  <2>4. Sound(c) \/ pc'[c] = "own"
    BY <2>1, <2>3 DEF Sound, Holds, Draining, Tenant, TenantLabels
  <2> QED
    BY <1>0, <1>1, <2>3, <2>4, ScanExclusive, StepKeeps
<1>2. CASE StaleState(c) \/ StaleOwner(c) \/ StaleProbe(c)
  <2>1. holder[c] \in alive \cup {NoPid}
    BY <1>0 DEF SlotTypes, Calm
  <2>2. \/ NextStale(c)
        \/ Goto(c, "stale", "staleOwner") /\ slot' = slot
        \/ Goto(c, "staleOwner", "staleProbe") /\ slot' = slot
    BY <1>2, <2>1 DEF StaleState, StaleOwner, StaleProbe
  <2>3. PICK to \in {"retry", "stale", "staleOwner", "staleProbe"} :
          /\ Goto(c, pc[c], to)
          /\ \A d \in Client \ {c} : slot'[d] = slot[d]
    BY <1>0, <2>2 DEF NextStale, Goto, SlotTypes
  <2>4. state' = state /\ alive' = alive /\ gen' = gen /\ outcome' = outcome
    BY <1>2 DEF StaleState, StaleOwner, StaleProbe, shared, results
  <2>5. Rest(c) /\ pc'[c] = to
    BY <1>0, <2>3, <2>4, MoveRest
  <2>6. Sound(c)
    BY <2>5 DEF Sound, Holds, Draining, Tenant, TenantLabels
  <2> QED
    BY <2>4, <2>5, <2>6, SoundStep
<1>3. ~(StaleClear(c) \/ StaleFree(c) \/ StaleGrab(c))
  BY DEF StaleClear, StaleFree, StaleGrab, Goto, Calm
<1>4. CASE Own(c) \/ Bump(c) \/ Hint(c)
  <2>1. PICK from \in {"own", "bump", "bumpAgain", "hint"}, to \in {"bump", "bumpAgain", "hint", "send"} :
          Goto(c, from, to)
    <3>1. CASE Bump(c)
      BY <3>1 DEF Bump
    <3> QED
      BY <1>4, <3>1 DEF Own, Hint
  <2>2. /\ state' = state /\ alive' = alive /\ slot' = slot /\ outcome' = outcome
        /\ \A d \in Client \ {c} : gen'[d] = gen[d]
    BY <1>0, <1>4 DEF Own, Bump, Hint, ids, results, SlotTypes
  <2>3. Rest(c) /\ pc[c] = from /\ pc'[c] = to
    BY <1>0, <2>1, <2>2, MoveRest
  <2>4. Tenant(c) /\ pc'[c] \in ClientLabels \ {"readOwner", "readState", "cancelWaiters",
                               "cancelWake", "staleClear", "staleFree", "staleGrab"}
    BY <2>3 DEF Tenant, TenantLabels, ClientLabels
  <2> QED
    BY <2>2, <2>3, <2>4, TenantMove
<1> QED
  BY <1>1, <1>2, <1>3, <1>4 DEF AcquireStep

\* Sending the request, or failing to, keeps the slots exclusive.
LEMMA SendTenancy ==
  ASSUME SlotTypes, SlotTypes', Issued, Grows, Exclusive, Course, Calm,
         NEW c \in Client, SendStep(c) \/ Query(c)
  PROVE  Exclusive' /\ Course' /\ Calm'
<1>0. c \in Thread /\ c \notin Handler /\ Client \subseteq Thread
  BY SlotAssumption DEF Thread
<1>1. CASE Send(c) \/ Disown(c, "fullOwner", "fullState")
  <2>1. PICK from \in {"send", "fullOwner"}, to \in {"spinGen", "fullOwner", "fullState"} :
          Goto(c, from, to)
    BY <1>1 DEF Send, Branch, Disown
  <2>2. state' = state /\ alive' = alive /\ slot' = slot /\ outcome' = outcome /\ gen' = gen
    BY <1>1 DEF Send, Branch, Disown, shared, ids, results
  <2>3. Rest(c) /\ pc[c] = from /\ pc'[c] = to
    BY <1>0, <2>1, <2>2, MoveRest
  <2>4. Tenant(c) /\ pc'[c] \in ClientLabels \ {"readOwner", "readState", "cancelWaiters",
                               "cancelWake", "staleClear", "staleFree", "staleGrab"}
    BY <2>3 DEF Tenant, TenantLabels, ClientLabels
  <2> QED
    BY <2>2, <2>3, <2>4, TenantMove
<1>2. CASE FreeSlot(c, "fullState", "retry")
  <2>1. /\ Goto(c, "fullState", "retry") /\ state' = [state EXCEPT ![slot[c]] = "FREE"]
        /\ alive' = alive /\ slot' = slot /\ outcome' = outcome /\ gen' = gen
    BY <1>2 DEF FreeSlot, ids, results
  <2>2. Rest(c) /\ pc[c] = "fullState" /\ pc'[c] = "retry"
    BY <1>0, <2>1, MoveRest
  <2>3. Holds(c)
    BY <2>2 DEF Holds, Draining, Tenant, TenantLabels
  <2> QED
    BY <2>1, <2>2, <2>3, GiveBack
<1>3. CASE Retry(c) \/ Query(c)
  <2>1. PICK from \in {"retry", "idle"}, to \in {"scan", "idle"} : Goto(c, from, to)
    BY <1>3 DEF Retry, Query, StartScan
  <2>2. state' = state /\ alive' = alive /\ gen' = gen
    BY <1>3 DEF Retry, Query, shared, ids
  <2>3. /\ DOMAIN outcome' = DOMAIN outcome
        /\ \A d \in Client \ {c} : outcome'[d] = outcome[d] /\ slot'[d] = slot[d]
    BY <1>0, <1>3 DEF Retry, Query, StartScan, ids, results, SlotTypes, Calm
  <2>4. Rest(c) /\ pc'[c] = to
    BY <1>0, <2>1, <2>2, <2>3, MoveRest
  <2>5. Sound(c)
    BY <2>4 DEF Sound, Holds, Draining, Tenant, TenantLabels
  <2> QED
    BY <2>2, <2>4, <2>5, SoundStep
<1> QED
  BY <1>1, <1>2, <1>3 DEF SendStep, SendFull
\* Cancelling a query, and draining its response, keeps the slots exclusive.
LEMMA CancelTenancy ==
  ASSUME SlotTypes, SlotTypes', Issued, Grows, Exclusive, Course, Calm,
         NEW c \in Client, CancelStep(c) \/ Drain(c)
  PROVE  Exclusive' /\ Course' /\ Calm'
<1> DEFINE Plain == ClientLabels \ {"readOwner", "readState", "cancelWaiters", "cancelWake",
                                   "staleClear", "staleFree", "staleGrab"}
<1>0. c \in Thread /\ c \notin Handler /\ Client \subseteq Thread /\ Cancelled(c) = "drainGen"
  BY SlotAssumption DEF Thread, Cancelled
<1>1. {"cancelFree", "drainGen", "drainState", "drainOwner", "drainFree", "idle"} \subseteq Plain
  BY DEF ClientLabels, TenantLabels
<1>2. ASSUME NEW from \in TenantLabels, NEW to \in Plain, Branch(c, from, to) \/ Disown(c, from, to)
      PROVE  Exclusive' /\ Course' /\ Calm'
  <2>1. /\ Goto(c, from, to) /\ state' = state /\ alive' = alive /\ slot' = slot
        /\ gen' = gen /\ outcome' = outcome
    BY <1>2 DEF Branch, Disown, shared, ids, results
  <2>2. Rest(c) /\ pc[c] = from /\ pc'[c] = to
    BY <1>0, <2>1, MoveRest
  <2> QED
    BY <2>1, <2>2, TenantMove DEF Tenant
<1>3. {"cancel", "cancelFree", "drainState", "drainOwner", "drainFree"} \subseteq TenantLabels
  BY DEF TenantLabels
<1>4. CASE CancelGen(c)
  BY <1>0, <1>1, <1>2, <1>3, <1>4 DEF CancelGen
<1>5. CASE CancelFree(c)
  <2>1. PICK to \in {"cancelOwner", "drainGen"} :
          /\ Goto(c, "cancelFree", to)
          /\ \/ to = "cancelOwner" /\ state' = [state EXCEPT ![slot[c]] = "FREE"]
             \/ to = "drainGen" /\ state' = state
    BY <1>0, <1>5 DEF CancelFree, SlotCAS
  <2>2. alive' = alive /\ slot' = slot /\ gen' = gen /\ outcome' = outcome
    BY <1>5 DEF CancelFree, ids, results
  <2>3. Rest(c) /\ pc[c] = "cancelFree" /\ pc'[c] = to
    BY <1>0, <2>1, <2>2, MoveRest
  <2>4. Tenant(c) /\ Holds(c)
    BY <1>3, <2>3 DEF Tenant, Holds
  <2>5. CASE to = "cancelOwner"
    BY <2>1, <2>3, <2>4, <2>5, GiveBack
  <2>6. CASE to = "drainGen"
    BY <1>1, <2>1, <2>2, <2>3, <2>4, <2>6, TenantMove
  <2> QED
    BY <2>5, <2>6
<1>6. CASE CancelOwner(c)
  <2>1. /\ Goto(c, "cancelOwner", "cancelBump") /\ state' = state /\ alive' = alive
        /\ slot' = slot /\ gen' = gen /\ outcome' = outcome
    BY <1>6 DEF CancelOwner, Disown, ids, results
  <2>2. Rest(c) /\ pc'[c] = "cancelBump"
    BY <1>0, <2>1, MoveRest
  <2>3. Sound(c)
    BY <2>2 DEF Sound, Holds, Draining, Tenant, TenantLabels
  <2> QED
    BY <2>1, <2>2, <2>3, SoundStep
<1>7. CASE CancelBump(c)
  <2>1. /\ Goto(c, "cancelBump", "cancelWaiters") /\ state' = state /\ alive' = alive
        /\ slot' = slot /\ gen' = gen /\ outcome' = outcome
        /\ generation' = [generation EXCEPT ![slot[c]] = Succ(generation[slot[c]])]
    BY <1>7 DEF CancelBump, ids, results
  <2>2. Rest(c) /\ pc[c] = "cancelBump" /\ pc'[c] = "cancelWaiters"
    BY <1>0, <2>1, MoveRest
  <2>3. slot[c] \in Slot /\ generation[slot[c]] \in Gen /\ gen[c] \in Nat
    BY <1>0, Ranges DEF SlotTypes
  <2>4. generation'[slot[c]] = Succ(generation[slot[c]]) /\ Succ(generation[slot[c]]) \in Nat
    BY <2>1, <2>3, Ranges DEF SlotTypes
  <2>5. Succ(generation[slot[c]]) > generation[slot[c]]
    BY <2>3, <2>4, SuccGrows DEF Grows
  <2>6. gen[c] <= generation[slot[c]] /\ generation[slot[c]] \in Nat
    BY <2>2, <2>3, Ranges DEF Issued, HasId, NoIdLabels
  <2>7. gen'[c] # generation'[slot'[c]]
    BY <2>1, <2>3, <2>4, <2>5, <2>6
  <2>8. Sound(c)
    BY <2>2, <2>7 DEF Sound, Holds, Draining, Tenant, TenantLabels
  <2> QED
    BY <2>1, <2>2, <2>8, SoundStep
<1>8. CASE CancelWaiters(c) \/ CancelWake(c)
  <2>1. /\ pc[c] \in {"cancelWaiters", "cancelWake"} /\ pc'[c] \in {"cancelWake", "drainGen"}
        /\ \A d \in Thread \ {c} : pc'[d] = pc[d] \/ (d \in Client /\ pc[d] = "sleep" /\ pc'[d] = "woken")
    BY <1>0, <1>8 DEF CancelWaiters, CancelWake, Branch, Goto, SleepersOn, SlotTypes, Located
  <2>2. /\ state' = state /\ alive' = alive /\ generation' = generation /\ slot' = slot
        /\ gen' = gen /\ outcome' = outcome
    BY <1>8 DEF CancelWaiters, CancelWake, Branch, shared, ids, results
  <2>3. Rest(c)
    BY <2>1, <2>2, SlotAssumption DEF Rest, Others, Thread
  <2>4. gen'[c] # generation'[slot'[c]]
    BY <2>1, <2>2 DEF Course
  <2>5. Sound(c)
    BY <2>1, <2>4 DEF Sound, Holds, Draining, Tenant, TenantLabels
  <2> QED
    BY <2>2, <2>3, <2>5, SoundStep
<1>9. CASE Branch(c, "drainGen", IF generation[slot[c]] = gen[c] THEN "drainState" ELSE "idle")
  <2>1. /\ Rest(c) /\ pc[c] = "drainGen" /\ state' = state /\ slot' = slot
        /\ pc'[c] = IF generation[slot[c]] = gen[c] THEN "drainState" ELSE "idle"
    BY <1>0, <1>9, BranchRest
  <2>2. Sound(c)
    BY <2>1 DEF Sound, Holds, Draining, Tenant, TenantLabels
  <2> QED
    BY <2>1, <2>2, SoundStep
<1>10. CASE Branch(c, "drainState", IF state[slot[c]] = "READY" THEN "drainOwner" ELSE "idle")
  BY <1>1, <1>2, <1>3, <1>10
<1>11. CASE Disown(c, "drainOwner", "drainFree")
  BY <1>1, <1>2, <1>3, <1>11
<1>12. CASE FreeSlot(c, "drainFree", "idle")
  <2>1. /\ Goto(c, "drainFree", "idle") /\ state' = [state EXCEPT ![slot[c]] = "FREE"]
        /\ alive' = alive /\ slot' = slot /\ outcome' = outcome /\ gen' = gen
    BY <1>12 DEF FreeSlot, ids, results
  <2>2. Rest(c) /\ pc[c] = "drainFree" /\ pc'[c] = "idle"
    BY <1>0, <2>1, MoveRest
  <2>3. Holds(c)
    BY <1>3, <2>2 DEF Holds, Tenant
  <2> QED
    BY <2>1, <2>2, <2>3, GiveBack
<1> QED
  BY <1>4, <1>5, <1>6, <1>7, <1>8, <1>9, <1>10, <1>11, <1>12 DEF CancelStep, Drain

\* A handler that replies frees no slot.
LEMMA HandlerTenancy ==
  ASSUME SlotTypes, SlotTypes', Issued, Grows, Exclusive, Course, Calm,
         NEW h \in Handler, Recv(h) \/ IntTryRecv(h) \/ StrReply(h) \/ IntReply(h)
  PROVE  Exclusive' /\ Course' /\ Calm'
<1>0. h \in Thread /\ h \notin Client /\ Client \subseteq Thread
  BY SlotAssumption DEF Thread
<1>1. \A s \in Slot : state'[s] = "FREE" => state[s] = "FREE"
  BY DEF Recv, IntTryRecv, StrReply, IntReply, ReplyState, ReplyGen, ReplyCopy, ReplyReady, ReplyWaiters,
         ReplyWake, Branch, SlotCAS, shared, SlotTypes
<1>2. \A d \in Client : slot'[d] = slot[d] /\ gen'[d] = gen[d]
  BY <1>0 DEF Recv, IntTryRecv, StrReply, IntReply, ReplyState, ReplyGen, ReplyCopy, ReplyReady,
              ReplyWaiters, ReplyWake, Branch, ids, SlotTypes
<1>3. alive' = alive /\ outcome' = outcome
  BY DEF Recv, IntTryRecv, StrReply, IntReply, ReplyState, ReplyGen, ReplyCopy, ReplyReady,
         ReplyWaiters, ReplyWake, Branch, shared, results
<1>4. Rest(h) /\ pc'[h] \notin CancelLabels
  <2>1. CASE ReplyWake(h)
    <3>1. /\ pc'[h] = "idle"
          /\ \A d \in Thread \ {h} :
                pc'[d] = pc[d] \/ (d \in Client /\ pc[d] = "sleep" /\ pc'[d] = "woken")
      BY <1>0, <2>1 DEF ReplyWake, SleepersOn, SlotTypes, Located
    <3> QED
      BY <1>0, <1>2, <1>3, <3>1, SlotAssumption DEF Rest, Others, Thread, CancelLabels
  <2>2. CASE ~ReplyWake(h)
    <3>1. PICK from, to \in {"idle", "leave", "handle", "replyState", "replyGen", "replyCopy", "replyReady",
                            "replyWaiters", "replyWake"} : Goto(h, from, to)
      BY <2>2 DEF Recv, IntTryRecv, StrReply, IntReply, ReplyState, ReplyGen, ReplyCopy, ReplyReady,
                  ReplyWaiters, Branch, SlotCAS
    <3>2. Rest(h) /\ pc'[h] = to
      BY <1>0, <1>2, <1>3, <3>1, MoveRest
    <3> QED
      BY <3>2 DEF CancelLabels
  <2> QED
    BY <2>1, <2>2
<1> QED
  BY <1>0, <1>1, <1>4, StepExclusive, StepKeeps DEF Rest

\* Timeouts, cancels, full queues and late replies never hand a slot to a second
\* client nor free it under its tenant, as long as handlers do not cancel, no
\* process is killed and no generation wraps.  SingleTenant is strengthened to
\* the clients that are about to drain a slot with a valid id (Holds).
THEOREM Tenancy ==
  ASSUME ~CanFail, Mortal = {}
  PROVE  Spec /\ NoWrap => []SingleTenant
<1>1. Init => Issued /\ UniqueIds /\ Exclusive /\ Course /\ Calm
  BY DEF Init, Issued, UniqueIds, Exclusive, Course, Calm, Holds, Draining, Tenant, TenantLabels,
         HasId, NoIdLabels, Thread, CancelLabels
<1>2. SlotTypes /\ SlotTypes' /\ Issued /\ Exclusive /\ Course /\ Calm /\ [Next]_vars /\ [Grows]_vars
        => Exclusive' /\ Course' /\ Calm'
  <2> SUFFICES ASSUME SlotTypes, SlotTypes', Issued, Exclusive, Course, Calm, [Next]_vars, [Grows]_vars
               PROVE  Exclusive' /\ Course' /\ Calm'
    OBVIOUS
  <2>1. CASE UNCHANGED vars
    BY <2>1 DEF vars, shared, ids, results, Exclusive, Course, Calm, Holds, Tenant
  <2>2. ASSUME Grows, Next PROVE Exclusive' /\ Course' /\ Calm'
    <3>1. ASSUME NEW c \in Client, ClientStep(c) \/ Query(c) \/ Interrupted(c)
          PROVE  Exclusive' /\ Course' /\ Calm'
      BY <2>2, <3>1, AcquireTenancy, SendTenancy, WaitTenancy, CancelTenancy DEF ClientStep
    <3>2. ASSUME NEW c \in Client, Expire(c) PROVE Exclusive' /\ Course' /\ Calm'
      BY <3>2 DEF Expire, shared, ids, results, Exclusive, Course, Calm, Holds, Tenant
    <3>3. ASSUME NEW h \in Handler, HandlerStep(h) PROVE Exclusive' /\ Course' /\ Calm'
      <4>1. Recv(h) \/ StrReply(h)
        BY <3>3 DEF HandlerStep, Handle, StrReply
      <4> QED
        BY <2>2, <4>1, HandlerTenancy
    <3>4. ASSUME NEW h \in Handler PROVE ~CancelStep(h)
      BY DEF CancelStep, CancelGen, CancelFree, CancelOwner, CancelBump, CancelWaiters, CancelWake,
             Branch, SlotCAS, Disown, Goto, Calm, CancelLabels
    <3>5. ASSUME NEW p \in Proc PROVE ~Crash(p)
      BY DEF Crash
    <3> QED
      BY <2>2, <3>1, <3>2, <3>3, <3>4, <3>5 DEF Next
  <2> QED
    BY <2>1, <2>2
<1>3. Exclusive => SingleTenant
  BY DEF Exclusive, SingleTenant, Holds
<1> QED
  BY <1>1, <1>2, <1>3, TypesCorrect, IdsIssued, PTL DEF Spec, NoWrap, Grows

----------------------------------------------------------------------------
(* Go and C clients together, with deadlines *)

\* A C client loads its id after it has added to the generation: until then every
\* id that others hold of the slot is older.
Loading(c) == pc[c] \in {"setHint", "loadId"}

Fresh ==
  \A c \in world.c : Loading(c) =>
    \A d \in Client : HasId(d) /\ slot[d] = slot[c] => gen[d] < generation[slot[c]]

\* What a client's own step must see to for the ids; AddGeneration and LoadId apart.
Modest(c) ==
  /\ HasId(c)' => HasId(c) /\ gen'[c] = gen[c] /\ slot'[c] = slot[c]
  /\ Loading(c)' => Loading(c) /\ slot'[c] = slot[c]

\* Labels of a tenant that has an id, and labels that ask nothing more of a client.
Steps == TenantLabels \ {"own", "bump", "bumpAgain", "setHint", "loadId"}
Plain == ClientLabels \ {"readOwner", "readState", "cancelWaiters", "cancelWake",
                         "staleClear", "staleFree", "staleGrab"}

LEMMA ElsewhereRest ==
  ASSUME NEW t, Elsewhere({t}), alive' = alive, DOMAIN outcome' = DOMAIN outcome
  PROVE  Rest(t)
  BY DEF Elsewhere, Rest, Others

\* A tenant moves on, with its slot and id, and no slot changes.
LEMMA PeerMove ==
  ASSUME SlotTypes, SlotTypes', Issued, Grows, Exclusive, Course, Calm,
         NEW c \in Client, Elsewhere({c}), NEW from \in Steps, NEW to \in Plain \ {"setHint", "loadId"},
         Goto(c, from, to), UNCHANGED <<state, alive, slot, gen>>
  PROVE  Exclusive' /\ Course' /\ Calm' /\ Modest(c)
<1>1. pc[c] = from /\ pc'[c] = to
  BY DEF Goto, SlotTypes, Located, Thread
<1>2. Rest(c)
  BY ElsewhereRest DEF SlotTypes
<1>3. Exclusive' /\ Course' /\ Calm'
  BY <1>1, <1>2, TenantMove DEF Steps, Plain, Tenant
<1>4. from \notin NoIdLabels
  BY DEF Steps, TenantLabels, NoIdLabels
<1>5. Modest(c)
  BY <1>1, <1>4 DEF Modest, HasId, Loading
<1> QED
  BY <1>3, <1>5

\* Looking for a slot, taking it and adding to its generation.
LEMMA SlotAcquireTenancy ==
  ASSUME SlotTypes, SlotTypes', Issued, Grows, Exclusive, Course, Calm,
         NEW c \in Client, Elsewhere({c}), SlotAcquire(c)
  PROVE  Exclusive' /\ Course' /\ Calm' /\ (Modest(c) \/ AddGeneration(c))
<1>0. c \in Thread
  BY DEF Thread
<1>1. ProbeOwner(c) => StaleProbe(c)
  BY DEF ProbeOwner, StaleProbe, SlotTypes, Calm
<1>2. CASE Scan(c) \/ StaleState(c) \/ StaleOwner(c) \/ StaleProbe(c) \/ StaleFree(c) \/ StaleGrab(c) \/ Own(c)
  <2>1. AcquireStep(c)
    BY <1>2 DEF AcquireStep
  <2>2. CASE Bump(c)
    BY <1>0, <1>2, <2>2 DEF Scan, SlotCAS, StaleState, StaleOwner, StaleProbe, StaleFree, StaleGrab, Own,
       Bump, Goto
  <2>3. CASE ~Bump(c)
    <3>1. KeepsIds
      BY <2>1, <2>3, AcquireKeeps
    <3>2. ~Loading(c)'
      BY <1>0, <1>2 DEF Scan, SlotCAS, StaleState, StaleOwner, StaleProbe, StaleFree, StaleGrab, Own,
         NextStale, Goto, SlotTypes, Located, Loading
    <3>3. Modest(c)
      BY <3>1, <3>2 DEF KeepsIds, Modest
    <3> QED
      BY <2>1, <3>3, AcquireTenancy
  <2> QED
    BY <2>2, <2>3
<1>3. CASE AddGeneration(c) \/ SetHint(c)
  <2>1. PICK from \in {"bump", "setHint"}, to \in {"setHint", "loadId"} : Goto(c, from, to)
    BY <1>3 DEF AddGeneration, SetHint
  <2>2. pc[c] = from /\ pc'[c] = to /\ UNCHANGED <<state, alive, slot, gen, outcome>>
    BY <1>0, <1>3, <2>1 DEF AddGeneration, SetHint, Goto, SlotTypes, Located, ids, results
  <2>3. Rest(c)
    BY <2>2, ElsewhereRest
  <2>4. Tenant(c) /\ to \in Plain
    BY <2>2 DEF Tenant, TenantLabels, ClientLabels, Plain
  <2>5. Exclusive' /\ Course' /\ Calm'
    BY <2>2, <2>3, <2>4, TenantMove DEF Plain
  <2>6. SetHint(c) => Modest(c)
    BY <2>2 DEF SetHint, Goto, Modest, HasId, NoIdLabels, Loading
  <2> QED
    BY <1>3, <2>5, <2>6
<1> QED
  BY <1>1, <1>2, <1>3 DEF SlotAcquire

\* Sending, or failing to, and waiting to try again.
LEMMA TrySendTenancy ==
  ASSUME SlotTypes, SlotTypes', Issued, Grows, Exclusive, Course, Calm,
         NEW c \in Client, Elsewhere({c}), TrySend(c) \/ IntTrySend(c) \/ SendWait(c)
  PROVE  Exclusive' /\ Course' /\ Calm' /\ (Modest(c) \/ AddGeneration(c) \/ LoadId(c))
<1>0. c \in Thread
  BY DEF Thread
<1>1. /\ {"send", "fullOwner", "publish", "sent"} \subseteq Steps
      /\ {"fullOwner", "fullState", "publish", "sent"} \subseteq Plain \ {"setHint", "loadId"}
      /\ {"scan", "sendSleep", "idle", "retry"} \subseteq Plain \cap NoIdLabels
  BY DEF Steps, Plain, TenantLabels, ClientLabels, NoIdLabels
<1>2. CASE LoadId(c)
  <2>1. pc[c] = "loadId" /\ pc'[c] = "send" /\ UNCHANGED <<state, alive, slot, outcome>>
    BY <1>0, <1>2 DEF LoadId, Goto, SlotTypes, Located, shared, results
  <2>2. Rest(c)
    BY <2>1, ElsewhereRest
  <2>3. Tenant(c) /\ pc'[c] \in Plain
    BY <2>1 DEF Tenant, TenantLabels, ClientLabels, Plain
  <2> QED
    BY <1>2, <2>1, <2>2, <2>3, TenantMove DEF Plain
<1>3. CASE Enqueue(c, "sent") \/ Enqueue(c, "publish")
  <2>1. UNCHANGED <<state, alive, slot, gen>>
    BY <1>3 DEF Enqueue, ids
  <2> QED
    BY <1>1, <1>3, <2>1, PeerMove DEF Enqueue
<1>4. CASE Branch(c, "send", "fullOwner") \/ Branch(c, "publish", "sent") \/ Disown(c, "fullOwner", "fullState")
  <2>1. UNCHANGED <<state, alive, slot, gen>>
    BY <1>4 DEF Branch, Disown, shared, ids
  <2> QED
    BY <1>1, <1>4, <2>1, PeerMove DEF Branch, Disown
<1>5. CASE FreeSlot(c, "fullState", "retry")
  <2>1. SendStep(c)
    BY <1>5 DEF SendStep, SendFull
  <2>2. Exclusive' /\ Course' /\ Calm'
    BY <2>1, SendTenancy
  <2>3. pc'[c] = "retry"
    BY <1>0, <1>5 DEF FreeSlot, Goto, SlotTypes, Located
  <2>4. Modest(c)
    BY <2>3 DEF Modest, HasId, NoIdLabels, Loading
  <2> QED
    BY <2>2, <2>4
<1>6. CASE SendWait(c)
  <2>1. PICK from \in {"retry", "sendSleep"}, to \in {"scan", "sendSleep", "idle"} : Goto(c, from, to)
    BY <1>6 DEF SendWait, StartScan, Branch
  <2>2. pc'[c] = to /\ UNCHANGED <<state, alive>> /\ DOMAIN outcome' = DOMAIN outcome
    BY <1>0, <1>6, <2>1 DEF SendWait, Branch, Goto, SlotTypes, Located, shared, results
  <2>3. Rest(c) /\ Modest(c)
    BY <2>2, ElsewhereRest DEF Modest, HasId, NoIdLabels, Loading
  <2>4. Sound(c)
    BY <2>2 DEF Sound, Holds, Draining, Tenant, TenantLabels
  <2> QED
    BY <2>2, <2>3, <2>4, SoundStep
<1> QED
  BY <1>2, <1>3, <1>4, <1>5, <1>6, SlotAcquireTenancy DEF TrySend, IntTrySend, SendFull

\* Waiting for the response.
LEMMA GetWaitTenancy ==
  ASSUME SlotTypes, SlotTypes', Issued, Grows, Exclusive, Course, Calm,
         NEW c \in Client, Elsewhere({c}), GetWait(c) \/ Remaining(c)
  PROVE  Exclusive' /\ Course' /\ Calm' /\ Modest(c)
<1>0. c \in Thread
  BY DEF Thread
<1>1. /\ {"sent", "getState", "getGen", "load", "wait", "recheckGen", "recheckState", "ready", "ctx",
          "futex", "sleep", "woken", "lastState", "lastGen", "read"} \subseteq Steps \cap Plain
      /\ {"unwait", "cancel"} \subseteq Plain
      /\ Steps \cap {"setHint", "loadId"} = {} /\ {"unwait", "cancel"} \cap {"setHint", "loadId"} = {}
  BY DEF Steps, Plain, TenantLabels, ClientLabels
<1>2. ASSUME NEW from \in Steps, NEW to \in Plain \ {"setHint", "loadId"},
             Branch(c, from, to) \/ LoadSeen(c, from, to) \/ Deregister(c, from, to)
      PROVE  Exclusive' /\ Course' /\ Calm' /\ Modest(c)
  <2>1. Goto(c, from, to) /\ UNCHANGED <<state, alive, slot, gen>>
    BY <1>2 DEF Branch, LoadSeen, Deregister, shared, ids
  <2> QED
    BY <2>1, PeerMove
<1>3. ASSUME NEW from \in Steps, NEW err, Fail(c, from, err)
      PROVE  Exclusive' /\ Course' /\ Calm' /\ Modest(c)
  <2>1. PICK to \in {"unwait", "cancel"} : Goto(c, from, to)
    BY <1>3 DEF Fail
  <2>2. UNCHANGED <<state, alive, slot, gen>>
    BY <1>3 DEF Fail, shared, ids
  <2> QED
    BY <1>1, <2>1, <2>2, PeerMove
<1>4. CASE TryGet(c, "getState", "getGen", Branch(c, "getGen", "load"))
           \/ TryGet(c, "lastState", "lastGen", Fail(c, "lastGen", "ctx"))
  BY <1>1, <1>2, <1>3, <1>4 DEF TryGet
<1>5. CASE LoadSeen(c, "load", IF state[slot[c]] = "READY" THEN "lastState" ELSE "wait") \/ Remaining(c)
  BY <1>1, <1>2, <1>3, <1>5 DEF Remaining
<1>6. CASE Register(c)
  <2>1. UNCHANGED <<state, alive, slot, gen>>
    BY <1>6 DEF Register, ids
  <2> QED
    BY <1>1, <1>6, <2>1, PeerMove DEF Register
<1>7. CASE Recheck(c) \/ Ctx(c, "ctx", "futex")
  BY <1>1, <1>2, <1>3, <1>7 DEF Recheck, Ctx
<1>8. CASE FutexWait(c) \/ SleepEnds(c)
  BY <1>1, <1>2, <1>8 DEF FutexWait, SleepEnds
<1>9. CASE Deregister(c, "woken", "getState") \/ Deregister(c, "ready", "lastState")
  BY <1>1, <1>2, <1>9
<1>10. CASE Read(c) \/ ReadRelease(c) \/ Unwait(c)
  <2>1. WaitStep(c)
    BY <1>10 DEF WaitStep
  <2>2. KeepsIds /\ Exclusive' /\ Course' /\ Calm'
    BY <2>1, WaitTenancy, WaitKeeps
  <2>3. ~Loading(c)'
    BY <1>0, <1>10 DEF Read, ReadRelease, Disown, FreeSlot, Unwait, Goto, SlotTypes, Located, Loading
  <2> QED
    BY <2>2, <2>3 DEF KeepsIds, Modest
<1> QED
  BY <1>4, <1>5, <1>6, <1>7, <1>8, <1>9, <1>10 DEF GetWait

\* Cancelling, and draining the response or not.
LEMMA CancelRequestTenancy ==
  ASSUME SlotTypes, SlotTypes', Issued, Grows, Exclusive, Course, Calm,
         NEW c \in Client, Elsewhere({c}), CancelRequest(c) \/ DrainResponse(c)
  PROVE  Exclusive' /\ Course' /\ Calm' /\ Modest(c)
<1> DEFINE after == AfterCancel(c)
<1>0. c \in Thread /\ after \in {"idle", "drainLoad"}
  BY DEF Thread, AfterCancel
<1>1. /\ {"cancel", "cancelFree", "drainOwner", "drainFree"} \subseteq Steps
      /\ {"cancelFree", "drainFree", "drainOwner", "idle", "drainLoad"} \subseteq Plain \ {"setHint", "loadId"}
  BY DEF Steps, Plain, TenantLabels, ClientLabels
<1>2. ASSUME pc[c] \notin NoIdLabels, ~Loading(c)', UNCHANGED <<slot, gen>> PROVE Modest(c)
  BY <1>2 DEF Modest, HasId
<1>3. {"cancelFree", "cancelOwner", "cancelBump", "cancelWaiters", "cancelWake", "drainLoad", "drainCheck",
       "drainFree"} \cap NoIdLabels = {}
  BY DEF NoIdLabels
<1>4. CASE Branch(c, "cancel", IF generation[slot[c]] = gen[c] THEN "cancelFree" ELSE after)
  <2>1. UNCHANGED <<state, alive, slot, gen>>
    BY <1>4 DEF Branch, shared, ids
  <2> QED
    BY <1>0, <1>1, <1>4, <2>1, PeerMove DEF Branch
<1>5. CASE CancelCAS(c)
  <2>1. PICK to \in {"cancelOwner", after} :
          /\ Goto(c, "cancelFree", to)
          /\ \/ to = "cancelOwner" /\ state' = [state EXCEPT ![slot[c]] = "FREE"]
             \/ to = after /\ state' = state
    BY <1>5 DEF CancelCAS, SlotCAS
  <2>2. pc[c] = "cancelFree" /\ pc'[c] = to /\ UNCHANGED <<alive, slot, gen, outcome>>
    BY <1>0, <1>5, <2>1 DEF CancelCAS, Goto, SlotTypes, Located, ids, results
  <2>3. CASE to = "cancelOwner"
    <3>1. Rest(c) /\ Holds(c)
      BY <2>2, ElsewhereRest DEF Holds, Tenant, TenantLabels
    <3>2. state' = [state EXCEPT ![slot[c]] = "FREE"]
      BY <1>0, <2>1, <2>3
    <3>3. Exclusive' /\ Course' /\ Calm'
      BY <2>2, <2>3, <3>1, <3>2, GiveBack
    <3> QED
      BY <1>2, <1>3, <2>2, <2>3, <3>3 DEF Loading
  <2>4. CASE to = after
    <3>1. state' = state
      BY <1>0, <2>1, <2>4
    <3> QED
      BY <1>0, <1>1, <2>1, <2>2, <2>4, <3>1, PeerMove
  <2> QED
    BY <2>3, <2>4
<1>6. CASE CancelOwner(c) \/ CancelBump(c)
  <2>1. CancelStep(c)
    BY <1>6 DEF CancelStep
  <2>2. pc[c] \in {"cancelOwner", "cancelBump"} /\ ~Loading(c)' /\ UNCHANGED <<slot, gen>>
    BY <1>0, <1>6 DEF CancelOwner, Disown, CancelBump, Goto, SlotTypes, Located, ids, Loading
  <2> QED
    BY <1>2, <1>3, <2>1, <2>2, CancelTenancy
<1>7. CASE \/ Branch(c, "cancelWaiters", IF waiters[slot[c]] > 0 THEN "cancelWake" ELSE after)
           \/ /\ pc[c] = "cancelWake"
              /\ pc' = [WakeAll(slot[c]) EXCEPT ![c] = after]
              /\ UNCHANGED <<shared, ids, scan, waiting, expired, results>>
  <2>1. /\ pc[c] \in {"cancelWaiters", "cancelWake"} /\ pc'[c] \in {"cancelWake", "idle", "drainLoad"}
        /\ UNCHANGED <<state, alive, slot, gen, generation, outcome>>
    BY <1>0, <1>7 DEF Branch, Goto, WakeAll, SlotTypes, Located, shared, ids, results
  <2>2. Rest(c)
    BY <2>1, ElsewhereRest
  <2>3. gen'[c] # generation'[slot'[c]]
    BY <2>1 DEF Course
  <2>4. Sound(c)
    BY <2>1, <2>3 DEF Sound, Holds, Draining, Tenant, TenantLabels
  <2> QED
    BY <1>2, <1>3, <2>1, <2>2, <2>4, SoundStep DEF Loading
<1>8. CASE LoadSeen(c, "drainLoad", "drainCheck")
  <2>1. pc[c] = "drainLoad" /\ pc'[c] = "drainCheck"
        /\ UNCHANGED <<state, alive, slot, gen, generation, outcome>>
    BY <1>0, <1>8 DEF LoadSeen, Goto, SlotTypes, Located, shared, ids, results
  <2>2. Rest(c)
    BY <2>1, ElsewhereRest
  <2>3. Sound(c)
    BY <2>1 DEF Sound, Holds, Draining, Tenant, TenantLabels
  <2> QED
    BY <1>2, <1>3, <2>1, <2>2, <2>3, SoundStep DEF Loading
<1>9. CASE Branch(c, "drainCheck",
                  IF generation[slot[c]] = gen[c] /\ seen[c] = "READY" THEN "drainOwner" ELSE "idle")
  <2>1. /\ pc[c] = "drainCheck" /\ pc'[c] \in {"drainOwner", "idle"}
        /\ pc'[c] = "drainOwner" => generation[slot[c]] = gen[c]
        /\ UNCHANGED <<state, alive, slot, gen, generation, outcome>>
    BY <1>0, <1>9 DEF Branch, Goto, SlotTypes, Located, shared, ids, results
  <2>2. Rest(c)
    BY <2>1, ElsewhereRest
  <2>3. Sound(c)
    BY <2>1 DEF Sound, Holds, Draining, Tenant, TenantLabels
  <2> QED
    BY <1>2, <1>3, <2>1, <2>2, <2>3, SoundStep DEF Loading
<1>10. CASE Disown(c, "drainOwner", "drainFree")
  <2>1. UNCHANGED <<state, alive, slot, gen>>
    BY <1>10 DEF Disown, ids
  <2> QED
    BY <1>1, <1>10, <2>1, PeerMove DEF Disown
<1>11. CASE FreeSlot(c, "drainFree", "idle")
  <2>1. Drain(c)
    BY <1>11 DEF Drain
  <2>2. pc[c] = "drainFree" /\ pc'[c] = "idle" /\ UNCHANGED <<slot, gen>>
    BY <1>0, <1>11 DEF FreeSlot, Goto, SlotTypes, Located, ids
  <2> QED
    BY <1>2, <1>3, <2>1, <2>2, CancelTenancy DEF Loading
<1> QED
  BY <1>4, <1>5, <1>6, <1>7, <1>8, <1>9, <1>10, <1>11
     DEF CancelRequest, DrainResponse, SlotRelease, LoadSeen

Distinct == Issued /\ UniqueIds /\ Fresh

\* A step that hands out no id, and brings no client to the point of loading one.
LEMMA KeepsDistinct ==
  ASSUME PeerTypes, SlotTypes', Distinct, Grows, KeepsIds, world' = world,
         \A c \in world.c : Loading(c)' => Loading(c) /\ slot'[c] = slot[c]
  PROVE  Distinct'
<1>1. Issued' /\ UniqueIds'
  BY KeepsUnique DEF Distinct, PeerTypes
<1>2. SUFFICES ASSUME NEW c \in world.c, Loading(c)', NEW d \in Client, HasId(d)', slot'[d] = slot'[c]
               PROVE  gen'[d] < generation'[slot'[c]]
  BY <1>1 DEF Distinct, Fresh
<1>3. c \in Client /\ c \in Thread /\ d \in Thread
  BY WorldAssumption DEF PeerTypes, Thread
<1>4. Loading(c) /\ slot'[c] = slot[c] /\ HasId(d) /\ slot'[d] = slot[d] /\ gen'[d] = gen[d]
  BY <1>2 DEF KeepsIds
<1>5. gen[d] < generation[slot[c]]
  BY <1>2, <1>4 DEF Distinct, Fresh
<1>6. slot[c] \in Slot /\ gen[d] \in Nat /\ generation[slot[c]] \in Nat /\ generation'[slot[c]] \in Nat
  BY <1>3, Ranges DEF PeerTypes, SlotTypes
<1>7. generation'[slot[c]] >= generation[slot[c]]
  BY <1>6 DEF Grows
<1> QED
  BY <1>4, <1>5, <1>6, <1>7

\* In a step that leaves the other threads alone the ids are the stepping client's matter.
LEMMA ModestDistinct ==
  ASSUME PeerTypes, SlotTypes', Distinct, Grows, world' = world, NEW c \in Client, Elsewhere({c}),
         HasId(c)' => HasId(c) /\ gen'[c] = gen[c] /\ slot'[c] = slot[c],
         c \in world.c /\ Loading(c)' => Loading(c) /\ slot'[c] = slot[c]
  PROVE  Distinct'
<1>1. KeepsIds
  BY DEF Elsewhere, KeepsIds, HasId, NoIdLabels
<1>2. world.c \subseteq Client
  BY WorldAssumption DEF PeerTypes
<1>3. \A d \in world.c : Loading(d)' => Loading(d) /\ slot'[d] = slot[d]
  BY <1>2 DEF Elsewhere, Loading
<1> QED
  BY <1>1, <1>3, KeepsDistinct

\* The id that Go's clients get, or C's loads, is newer than all of its slot.
LEMMA BumpDistinct ==
  ASSUME PeerTypes, SlotTypes', Distinct, Exclusive, Grows, world' = world, NEW c \in Client,
         Bump(c), c \notin world.c
  PROVE  Distinct'
<1>1. Issued' /\ UniqueIds'
  BY BumpUnique DEF Distinct, PeerTypes
<1>2. SUFFICES ASSUME NEW e \in world.c, Loading(e)', NEW d \in Client, HasId(d)', slot'[d] = slot'[e]
               PROVE  gen'[d] < generation'[slot'[e]]
  BY <1>1 DEF Distinct, Fresh
<1>3. e \in Client /\ e # c /\ c \in Thread /\ d \in Thread /\ e \in Thread
  BY WorldAssumption DEF PeerTypes, Thread
<1>4. Loading(e) /\ slot' = slot /\ pc[c] \in {"bump", "bumpAgain"}
  <2>1. pc'[e] = pc[e] /\ pc[c] \in {"bump", "bumpAgain"}
    BY <1>3 DEF Bump, Goto, PeerTypes, SlotTypes, Located
  <2> QED
    BY <1>2, <2>1 DEF Bump, Loading
<1>5. Holds(c) /\ Holds(e)
  BY <1>4 DEF Holds, Tenant, TenantLabels, Loading
<1>6. slot[c] # slot[e] /\ d # c
  BY <1>2, <1>3, <1>4, <1>5 DEF Exclusive
<1>7. HasId(d) /\ gen'[d] = gen[d] /\ generation'[slot[e]] = generation[slot[e]]
  BY <1>2, <1>3, <1>6 DEF Bump, Goto, PeerTypes, SlotTypes, Located, HasId
<1> QED
  BY <1>2, <1>4, <1>7 DEF Distinct, Fresh

LEMMA AddDistinct ==
  ASSUME PeerTypes, SlotTypes', Distinct, Grows, world' = world, NEW c \in Client, AddGeneration(c)
  PROVE  Distinct'
<1>0. c \in Thread /\ Client \subseteq Thread /\ world.c \subseteq Client /\ slot[c] \in Slot
  BY WorldAssumption DEF PeerTypes, SlotTypes, Thread
<1>1. /\ pc[c] = "bump" /\ pc'[c] \in {"setHint", "loadId"} /\ slot' = slot /\ gen' = gen
      /\ \A d \in Client \ {c} : pc'[d] = pc[d]
  BY <1>0 DEF AddGeneration, Goto, PeerTypes, SlotTypes, Located, ids
<1>2. KeepsIds
  BY <1>1 DEF KeepsIds, HasId, NoIdLabels
<1>3. Issued' /\ UniqueIds'
  BY <1>2, KeepsUnique DEF Distinct, PeerTypes
<1>4. SUFFICES ASSUME NEW e \in world.c, Loading(e)', NEW d \in Client, HasId(d)', slot'[d] = slot'[e]
               PROVE  gen'[d] < generation'[slot'[e]]
  BY <1>3 DEF Distinct, Fresh
<1>5. HasId(d) /\ slot[d] = slot[e] /\ gen[d] <= generation[slot[d]] /\ slot[e] \in Slot
  BY <1>0, <1>1, <1>2, <1>4 DEF KeepsIds, Distinct, Issued, PeerTypes, SlotTypes
<1>6. gen[d] \in Nat /\ \A s \in Slot : generation[s] \in Nat /\ generation'[s] \in Nat
                                       /\ generation'[s] >= generation[s]
  BY <1>0, Ranges DEF PeerTypes, SlotTypes, Grows
<1>7. CASE e = c
  <2>1. generation'[slot[c]] = Succ(generation[slot[c]]) /\ generation[slot[c]] \in Gen
    BY <1>0 DEF AddGeneration, PeerTypes, SlotTypes
  <2>2. generation'[slot[c]] > generation[slot[c]]
    BY <1>0, <1>6, <2>1, SuccGrows
  <2> QED
    BY <1>0, <1>1, <1>5, <1>6, <1>7, <2>2
<1>8. CASE e # c
  <2>1. Loading(e)
    BY <1>0, <1>1, <1>4, <1>8 DEF Loading
  <2>2. gen[d] < generation[slot[e]]
    BY <1>5, <2>1 DEF Distinct, Fresh
  <2> QED
    BY <1>1, <1>5, <1>6, <2>2
<1> QED
  BY <1>7, <1>8

LEMMA LoadDistinct ==
  ASSUME PeerTypes, SlotTypes', Distinct, Exclusive, world' = world, NEW c \in Client, c \in world.c,
         LoadId(c)
  PROVE  Distinct'
<1>0. c \in Thread /\ Client \subseteq Thread /\ world.c \subseteq Client /\ slot[c] \in Slot
  BY WorldAssumption DEF PeerTypes, SlotTypes, Thread
<1>1. /\ pc[c] = "loadId" /\ pc'[c] = "send" /\ slot' = slot /\ generation' = generation
      /\ gen'[c] = generation[slot[c]]
      /\ \A d \in Client \ {c} : pc'[d] = pc[d] /\ gen'[d] = gen[d]
  BY <1>0 DEF LoadId, Goto, PeerTypes, SlotTypes, Located, shared
<1>2. \A d \in Client \ {c} : HasId(d)' => HasId(d) /\ (slot[d] = slot[c] => gen[d] < generation[slot[c]])
  BY <1>1 DEF HasId, Distinct, Fresh, Loading
<1>3. \A d \in Client : gen[d] \in Nat /\ generation[slot[d]] \in Nat
  BY <1>0, Ranges DEF PeerTypes, SlotTypes
<1>4. Issued'
  BY <1>1, <1>2, <1>3 DEF Distinct, Issued
<1>5. UniqueIds'
  <2>1. \A d \in Client \ {c} : HasId(d)' => slot'[d] # slot'[c] \/ gen'[d] # gen'[c]
    BY <1>1, <1>2, <1>3
  <2>2. \A d, e \in Client \ {c} : d # e /\ HasId(d)' /\ HasId(e)' => slot'[d] # slot'[e] \/ gen'[d] # gen'[e]
    BY <1>1, <1>2 DEF Distinct, UniqueIds
  <2> QED
    BY <2>1, <2>2 DEF UniqueIds
<1>6. ASSUME NEW e \in world.c, Loading(e)', NEW d \in Client, HasId(d)', slot'[d] = slot'[e]
      PROVE  gen'[d] < generation'[slot'[e]]
  <2>1. e # c /\ Loading(e) /\ e \in Client
    BY <1>0, <1>1, <1>6 DEF Loading
  <2>2. Holds(c) /\ Holds(e)
    BY <1>1, <2>1 DEF Holds, Tenant, TenantLabels, Loading
  <2>3. slot[c] # slot[e]
    BY <2>1, <2>2 DEF Exclusive
  <2>4. d # c /\ HasId(d) /\ gen'[d] = gen[d]
    BY <1>1, <1>2, <1>6, <2>3
  <2> QED
    BY <1>1, <1>6, <2>1, <2>4 DEF Distinct, Fresh
<1> QED
  BY <1>4, <1>5, <1>6 DEF Distinct, Fresh

\* Systems whose handlers do not fail, without kills and calls of reqrep_clear.
Merciful ==
  /\ Mortal = {}
  /\ \A w \in Worlds : ~w.fails /\ w.clears = 0

PeerTenancyInv == Distinct /\ Exclusive /\ Course /\ Calm /\ clear.at = "idle"

\* A client that works, and what happens to it.
LEMMA ClientTenancy ==
  ASSUME PeerTypes, PeerTypes', PeerTenancyInv, Grows, NEW c \in Client,
         PeerClientStep(c) \/ Environment(c), UNCHANGED <<world, clear>>
  PROVE  PeerTenancyInv'
<1>0. /\ c \in Thread /\ world.go \cap world.c = {} /\ SlotTypes /\ SlotTypes'
      /\ Issued /\ UniqueIds /\ Exclusive /\ Course /\ Calm /\ clear'.at = "idle" /\ world' = world
  BY GoClients DEF PeerTypes, PeerTenancyInv, Distinct, Thread
<1>1. Elsewhere({c})
  BY <1>0, PeerClientSafe, EnvironmentSafe
<1>2. ASSUME Modest(c) \/ AddGeneration(c) \/ (LoadId(c) /\ c \in world.c) PROVE Distinct'
  BY <1>0, <1>1, <1>2, ModestDistinct, AddDistinct, LoadDistinct DEF PeerTenancyInv, Modest
<1>3. ASSUME KeepsIds, c \notin world.c \/ ~Loading(c)' PROVE Distinct'
  BY <1>0, <1>1, <1>3, ModestDistinct DEF PeerTenancyInv, KeepsIds
<1>4. CASE c \in world.go /\ ClientStep(c)
  <2>1. Exclusive' /\ Course' /\ Calm'
    BY <1>0, <1>4, AcquireTenancy, SendTenancy, WaitTenancy, CancelTenancy DEF ClientStep
  <2>2. c \notin world.c
    BY <1>0, <1>4
  <2>3. CASE Bump(c)
    BY <1>0, <2>1, <2>2, <2>3, BumpDistinct DEF PeerTenancyInv
  <2>4. CASE ~Bump(c)
    <3>1. KeepsIds
      BY <1>0, <1>4, <2>4, AcquireKeeps, SendKeeps, WaitKeeps, CancelKeeps DEF ClientStep
    <3> QED
      BY <1>0, <1>3, <2>1, <2>2, <3>1 DEF PeerTenancyInv
  <2> QED
    BY <2>3, <2>4
<1>5. CASE c \in world.c /\ (TrySend(c) \/ IntTrySend(c) \/ SendWait(c))
  BY <1>0, <1>1, <1>2, <1>5, TrySendTenancy DEF PeerTenancyInv
<1>6. CASE Request(c)
  BY <1>0, <1>1, <1>2, <1>6, GetWaitTenancy, CancelRequestTenancy DEF PeerTenancyInv, Request
<1>7. CASE Query(c) \/ Interrupted(c)
  <2>1. Exclusive' /\ Course' /\ Calm' /\ KeepsIds
    BY <1>0, <1>7, SendTenancy, WaitTenancy, SendKeeps, WaitKeeps
  <2>2. ~Loading(c)'
    BY <1>0, <1>7 DEF Query, StartScan, Interrupted, Branch, Goto, SlotTypes, Located, Loading
  <2> QED
    BY <1>0, <1>3, <2>1, <2>2 DEF PeerTenancyInv
<1>8. CASE Expire(c)
  <2>1. UNCHANGED <<shared, pc, ids, results>>
    BY <1>8 DEF Expire
  <2>2. Exclusive' /\ Course' /\ Calm' /\ Distinct'
    BY <1>0, <2>1 DEF PeerTenancyInv, shared, ids, results, Exclusive, Course, Calm, Holds, Tenant,
       Distinct, Issued, UniqueIds, Fresh, HasId, Loading
  <2> QED
    BY <1>0, <2>2 DEF PeerTenancyInv
<1> QED
  BY <1>4, <1>5, <1>6, <1>7, <1>8 DEF PeerClientStep, Environment, StrRequest, IntRequest

LEMMA PeerHandlerTenancy ==
  ASSUME PeerTypes, PeerTypes', PeerTenancyInv, Grows, ~world.fails, NEW h \in Handler,
         PeerHandlerStep(h), UNCHANGED <<world, clear>>
  PROVE  PeerTenancyInv'
<1>1. ~GoCancel(h)
  BY DEF GoCancel, CancelStep, CancelGen, CancelFree, CancelOwner, CancelBump, CancelWaiters, CancelWake,
     Branch, SlotCAS, Disown, Goto, PeerTenancyInv, Calm, CancelLabels
<1>2. Exclusive' /\ Course' /\ Calm'
  BY <1>1, HandlerTenancy DEF PeerHandlerStep, PeerTypes, PeerTenancyInv, Distinct
<1>3. Elsewhere({h}) /\ h \notin Client /\ world.c \subseteq Client
  BY PeerHandlerSafe, SlotAssumption, WorldAssumption DEF PeerTypes
<1>4. KeepsIds /\ \A c \in world.c : Loading(c)' => Loading(c) /\ slot'[c] = slot[c]
  BY <1>3 DEF Elsewhere, KeepsIds, HasId, NoIdLabels, Loading
<1>5. Distinct'
  BY <1>4, KeepsDistinct DEF PeerTypes, PeerTenancyInv
<1> QED
  BY <1>2, <1>5 DEF PeerTenancyInv

LEMMA PeerTenancyInvariance ==
  ASSUME Merciful PROVE PeerSpec /\ NoWrap => []PeerTenancyInv
<1>1. PeerInit => PeerTenancyInv
  BY GoClients DEF PeerInit, Init, PeerTenancyInv, Distinct, Issued, UniqueIds, Fresh, Exclusive, Course, Calm,
     Holds, Draining, Tenant, TenantLabels, HasId, NoIdLabels, Loading, Thread, CancelLabels
<1>2. PeerInv /\ PeerInv' /\ PeerTenancyInv /\ [PeerNext]_peerVars /\ [Grows]_vars => PeerTenancyInv'
  <2> SUFFICES ASSUME PeerInv, PeerInv', PeerTenancyInv, [PeerNext]_peerVars, [Grows]_vars
               PROVE  PeerTenancyInv'
    OBVIOUS
  <2>0. PeerTypes /\ PeerTypes' /\ world \in Worlds /\ ~world.fails /\ world.clears = 0
    BY DEF PeerInv, PeerTypes, Merciful
  <2>1. Grows
    <3>1. CASE UNCHANGED vars
      <4>1. generation' = generation /\ \A s \in Slot : generation[s] \in Nat
        BY <2>0, <3>1, Ranges DEF vars, shared, PeerTypes, SlotTypes
      <4> QED
        BY <4>1 DEF Grows
    <3> QED
      BY <3>1
  <2>2. ASSUME NEW p \in Proc PROVE ~Crash(p)
    BY DEF Crash, Merciful
  <2>3. ~Clear
    <3>1. clear.at = "idle" /\ clear.calls \in Nat
      BY <2>0 DEF PeerTenancyInv, PeerTypes, ClearTypes
    <3>2. ~(clear.calls < world.clears)
      BY <2>0, <3>1
    <3> QED
      BY <3>1, <3>2 DEF Clear, ClearReset, ClearSlot, ClearGoto
  <2>4. CASE UNCHANGED peerVars
    <3>1. UNCHANGED <<shared, pc, ids, outcome, world, clear>>
      BY <2>4 DEF peerVars, vars, results
    <3> QED
      BY <3>1 DEF shared, ids, PeerTenancyInv, Exclusive, Course, Calm, Holds, Tenant, Distinct, Issued,
         UniqueIds, Fresh, HasId, Loading
  <2> QED
    BY <2>0, <2>1, <2>2, <2>3, <2>4, ClientTenancy, PeerHandlerTenancy DEF PeerNext
<1> QED
  BY <1>1, <1>2, PeerInvariance, PTL DEF PeerSpec, NoWrap, Grows

\* The same with C clients among the Go clients, or on an integer segment, and with
\* deadlines that end anywhere: reqrep_cancel, the drain of reqrep_request and a reply
\* that comes late leave the next tenant of the slot alone, as long as handlers do not
\* fail, nobody is killed or clears, and no generation wraps.
THEOREM PeerTenancy == ASSUME Merciful PROVE PeerSpec /\ NoWrap => []SingleTenant
<1>1. PeerTenancyInv => SingleTenant
  BY DEF PeerTenancyInv, Exclusive, SingleTenant, Holds
<1> QED
  BY <1>1, PeerTenancyInvariance, PTL

\* Nor do two queries get one id, although C loads the generation for it apart from
\* adding to it (AddGeneration, LoadId): in between the slot has no second tenant, and
\* a late cancel of an earlier one can only make the generation larger (Fresh).
THEOREM PeerIdsUnique == ASSUME Merciful PROVE PeerSpec /\ NoWrap => []UniqueIds
<1>1. PeerTenancyInv => UniqueIds
  BY DEF PeerTenancyInv, Distinct
<1> QED
  BY <1>1, PeerTenancyInvariance, PTL

----------------------------------------------------------------------------
(* Calm weather: no deadlines, no failing handlers, no kills, no clear *)

\* Where a client has no slot; has one and no request in the queue; has sent its
\* request; has an id of the present generation; knows of its response.
Outside == {"idle", "scan", "stale", "staleOwner", "staleProbe", "retry", "sendSleep", "unwait"}
Unsent == {"own", "bump", "bumpAgain", "hint", "setHint", "loadId", "send", "fullOwner", "fullState"}
Sent == {"publish", "sent", "spinGen", "spinState", "wait", "load", "loadGen", "ctx", "futex",
         "sleep", "woken", "read", "readOwner", "readState", "getState", "getGen", "lastState",
         "lastGen", "recheckGen", "recheckState", "ready"}
Identified == Sent \cup {"hint", "send", "fullOwner", "fullState"}
Answered == {"read", "readOwner", "readState", "ready", "lastState", "lastGen"}

Keeps(c) == pc[c] \in Unsent \cup Sent

\* What is true of client c and of the slot it has.
ClientSound(c) ==
  /\ pc[c] \in Outside \cup Unsent \cup Sent
  /\ ~expired[c] /\ ~timedOut[c]
  /\ pc[c] \in Unsent => state[slot[c]] = "ACQUIRED"
  /\ pc[c] = "bumpAgain" => generation[slot[c]] = 0
  /\ pc[c] \in Sent => state[slot[c]] # "FREE"
  /\ pc[c] \in Identified => gen[c] = generation[slot[c]]
  /\ pc[c] \in Sent /\ state[slot[c]] = "READY" => data[slot[c]] = req[c]
  /\ pc[c] \in Answered \/ (pc[c] \in {"loadGen", "getGen"} /\ seen[c] = "READY")
       => state[slot[c]] = "READY"
  /\ pc[c] = "lastGen" => seen[c] = "READY"
  /\ outcome[c] \in {"none", "ok"}
  /\ outcome[c] = "ok" => answer[c] = req[c]
  /\ pc[c] \in {"readOwner", "readState", "unwait"} => outcome[c] = "ok"

\* Every slot that is not free is some client's, and no two clients'.
OneKeeper ==
  /\ \A s \in Slot : state[s] # "FREE" => \E c \in Client : Keeps(c) /\ slot[c] = s
  /\ \A c, d \in Client : c # d /\ Keeps(c) /\ Keeps(d) => slot[c] # slot[d]

\* A request on its way, in the queue or with a handler, is that of the client that
\* has its slot and has no response yet.
OnItsWay(r, s) ==
  /\ state[s] = "ACQUIRED"
  /\ \E c \in Client : pc[c] \in Sent /\ slot[c] = s /\ req[c] = r

Carrying == {"leave", "handle", "replyState", "replyGen", "replyCopy", "replyReady"}

HandlerSound(h) ==
  /\ pc[h] \in Carrying \cup {"idle", "replyWaiters", "replyWake"}
  /\ pc[h] \in Carrying => OnItsWay(req[h], slot[h])
  /\ pc[h] = "replyReady" => data[slot[h]] = req[h]

\* No two requests on their way are for the same slot.
Apart ==
  /\ \A i, j \in 1..Len(queue) : i # j => queue[i].slot # queue[j].slot
  /\ \A g, h \in Handler : g # h /\ pc[g] \in Carrying /\ pc[h] \in Carrying => slot[g] # slot[h]
  /\ \A i \in 1..Len(queue), h \in Handler : pc[h] \in Carrying => queue[i].slot # slot[h]

SteadyInv ==
  /\ \A c \in Client : ClientSound(c)
  /\ \A h \in Handler : HandlerSound(h)
  /\ \A i \in 1..Len(queue) : OnItsWay(queue[i].req, queue[i].slot)
  /\ OneKeeper
  /\ Apart
  /\ alive = Proc /\ clear.at = "idle"

\* In a step of t the slot of client d stays as it is, or gets the answer to d.
Spared(d) ==
  Keeps(d) =>
    /\ generation'[slot[d]] = generation[slot[d]]
    /\ \/ /\ state'[slot[d]] = state[slot[d]]
          /\ data'[slot[d]] = data[slot[d]] \/ state[slot[d]] = "ACQUIRED"
       \/ /\ pc[d] \in Sent /\ state[slot[d]] = "ACQUIRED"
          /\ state'[slot[d]] = "READY" /\ data'[slot[d]] = req[d]

\* The clients that do not move stay sound.
LEMMA SparedSound ==
  ASSUME SlotTypes, SteadyInv, NEW T, Elsewhere(T), NEW d \in Client \ T,
         timedOut'[d] = timedOut[d], Spared(d)
  PROVE  ClientSound(d)'
<1>1. ClientSound(d)
  BY DEF SteadyInv
<1>2. /\ slot'[d] = slot[d] /\ gen'[d] = gen[d] /\ req'[d] = req[d] /\ seen'[d] = seen[d]
      /\ expired'[d] = expired[d] /\ outcome'[d] = outcome[d] /\ answer'[d] = answer[d]
      /\ pc'[d] = pc[d] \/ (pc[d] = "sleep" /\ pc'[d] = "woken")
  BY DEF Elsewhere
<1>3. {"sleep", "woken"} \subseteq Sent /\ Sent \cap (Outside \cup Unsent) = {} /\ Unsent \cap Outside = {}
      /\ Answered \subseteq Sent /\ Sent \subseteq Identified /\ Identified \subseteq Sent \cup Unsent
      /\ {"sleep", "woken"} \cap (Answered \cup {"loadGen", "getGen", "lastGen", "readOwner", "readState", "unwait"}) = {}
      /\ {"loadGen", "getGen"} \subseteq Sent /\ "bumpAgain" \in Unsent
  BY DEF Sent, Outside, Unsent, Answered, Identified
<1>4. /\ pc'[d] \in Unsent <=> pc[d] \in Unsent
      /\ pc'[d] \in Sent <=> pc[d] \in Sent
      /\ pc'[d] \in Identified <=> pc[d] \in Identified
      /\ pc'[d] \in Outside <=> pc[d] \in Outside
      /\ pc'[d] \in Answered <=> pc[d] \in Answered
      /\ \A l \in {"bumpAgain", "loadGen", "getGen", "lastGen", "readOwner", "readState", "unwait"} :
            pc'[d] = l <=> pc[d] = l
  BY <1>2, <1>3
<1>5. CASE ~Keeps(d)
  BY <1>1, <1>2, <1>3, <1>4, <1>5 DEF ClientSound, Keeps
<1>6. CASE Keeps(d)
  BY <1>1, <1>2, <1>3, <1>4, <1>6 DEF ClientSound, Spared
<1> QED
  BY <1>5, <1>6

\* A request stays on its way as long as its client and the state of its slot do.
LEMMA WayKept ==
  ASSUME SlotTypes, NEW T, Elsewhere(T), NEW r, NEW s, OnItsWay(r, s), state'[s] = state[s],
         \A c \in Client \cap T :
           pc[c] \in Sent => pc'[c] \in Sent /\ slot'[c] = slot[c] /\ req'[c] = req[c]
  PROVE  OnItsWay(r, s)'
<1>1. PICK c \in Client : pc[c] \in Sent /\ slot[c] = s /\ req[c] = r
  BY DEF OnItsWay
<1>2. pc'[c] \in Sent /\ slot'[c] = s /\ req'[c] = r
  BY <1>1 DEF Elsewhere, Sent
<1> QED
  BY <1>2 DEF OnItsWay

\* Only its client has the slot of a request on its way.
LEMMA WayKeeper ==
  ASSUME SteadyInv, NEW r, NEW s, OnItsWay(r, s), NEW c \in Client, Keeps(c), slot[c] = s
  PROVE  pc[c] \in Sent /\ req[c] = r /\ state[s] = "ACQUIRED"
  BY DEF SteadyInv, OneKeeper, OnItsWay, Keeps

\* A step of a client that takes and gives up no slot and sends nothing.
LEMMA ClientQuiet ==
  ASSUME SlotTypes, SlotTypes', SteadyInv, NEW c \in Client, Elsewhere({c}),
         UNCHANGED <<state, data, queue, alive, clear>>,
         \A d \in Client \ {c} : timedOut'[d] = timedOut[d],
         Keeps(c)' <=> Keeps(c), Keeps(c) => slot'[c] = slot[c] /\ req'[c] = req[c],
         pc[c] \in Sent => pc'[c] \in Sent,
         \A s \in Slot : generation'[s] = generation[s] \/ (Keeps(c) /\ s = slot[c]),
         ClientSound(c)'
  PROVE  SteadyInv'
<1>0. c \notin Handler /\ \A d \in Client : slot[d] \in Slot
  BY SlotAssumption DEF SlotTypes, Thread
<1>1. \A d \in Client \ {c} : Spared(d)
  BY <1>0 DEF Spared, SteadyInv, OneKeeper
<1>2. \A d \in Client : ClientSound(d)'
  BY <1>1, SparedSound
<1>3. \A r, s : OnItsWay(r, s) => OnItsWay(r, s)'
  BY WayKept DEF Keeps
<1>4. \A h \in Handler : pc'[h] = pc[h] /\ slot'[h] = slot[h] /\ req'[h] = req[h]
  BY <1>0 DEF Elsewhere
<1>5. \A h \in Handler : HandlerSound(h)'
  BY <1>3, <1>4 DEF SteadyInv, HandlerSound
<1>6. \A i \in 1..Len(queue)' : OnItsWay(queue[i].req, queue[i].slot)'
  BY <1>3 DEF SteadyInv
<1>7. \A d \in Client : (Keeps(d)' <=> Keeps(d)) /\ (Keeps(d) => slot'[d] = slot[d])
  BY DEF Elsewhere, Keeps, Sent
<1>8. OneKeeper'
  BY <1>7 DEF SteadyInv, OneKeeper
<1>9. Apart'
  BY <1>4 DEF SteadyInv, Apart
<1> QED
  BY <1>2, <1>5, <1>6, <1>8, <1>9 DEF SteadyInv

\* A client that moves on with the slot it has, or without one, and learns nothing new
\* but, possibly, the state of its slot.
LEMMA PlainSound ==
  ASSUME SlotTypes, SlotTypes', SteadyInv, NEW c \in Client, Elsewhere({c}),
         UNCHANGED <<state, data, queue, alive, clear, generation, timedOut>>,
         NEW from, NEW to, Goto(c, from, to),
         UNCHANGED <<slot, gen, req, expired, outcome, answer>>,
         {from, to} \subseteq Outside \/ {from, to} \subseteq Unsent \/ {from, to} \subseteq Sent,
         to # "bumpAgain", to \in Identified => from \in Identified,
         to \in Answered => state[slot[c]] = "READY",
         to \in {"loadGen", "getGen", "lastGen"} => seen'[c] = state[slot[c]],
         to \in {"readOwner", "readState", "unwait"} => outcome[c] = "ok"
  PROVE  SteadyInv'
<1>1. c \in Thread /\ slot[c] \in Slot /\ pc[c] = from /\ pc'[c] = to /\ ClientSound(c)
  BY DEF Thread, SlotTypes, Located, Goto, SteadyInv
<1>2. /\ Sent \cap (Outside \cup Unsent) = {} /\ Unsent \cap Outside = {}
      /\ Answered \subseteq Sent /\ "lastGen" \in Answered /\ {"loadGen", "getGen"} \subseteq Sent
  BY DEF Sent, Outside, Unsent, Answered
<1>3. ClientSound(c)'
  BY <1>1, <1>2 DEF ClientSound
<1>4. (Keeps(c)' <=> Keeps(c)) /\ (pc[c] \in Sent => pc'[c] \in Sent)
  BY <1>1, <1>2 DEF Keeps
<1> QED
  BY <1>3, <1>4, ClientQuiet

\* A client without a slot does what it likes with its own variables.
LEMMA RoamSound ==
  ASSUME SlotTypes, SlotTypes', SteadyInv, NEW c \in Client, Elsewhere({c}),
         UNCHANGED <<state, data, queue, alive, clear, generation, timedOut>>,
         pc[c] \in Outside, pc'[c] \in Outside \ {"unwait"}, expired'[c] = FALSE,
         outcome'[c] \in {"none", "ok"}, outcome'[c] = "ok" => answer'[c] = req'[c]
  PROVE  SteadyInv'
<1>1. /\ Outside \cap (Sent \cup Unsent \cup Identified \cup Answered) = {}
      /\ Outside \cap {"bumpAgain", "loadGen", "getGen", "lastGen", "readOwner", "readState"} = {}
  BY DEF Sent, Outside, Unsent, Answered, Identified
<1>2. ClientSound(c)'
  BY <1>1 DEF ClientSound, SteadyInv
<1>3. ~Keeps(c) /\ ~Keeps(c)' /\ pc[c] \notin Sent
  BY <1>1 DEF Keeps
<1> QED
  BY <1>2, <1>3, ClientQuiet

\* A client that takes a free slot.
LEMMA TakeSound ==
  ASSUME SlotTypes, SlotTypes', SteadyInv, NEW c \in Client, Elsewhere({c}),
         UNCHANGED <<data, queue, alive, clear, generation, timedOut>>,
         UNCHANGED <<slot, gen, req, expired, outcome, answer>>,
         pc[c] \in Outside, pc'[c] = "own", state[slot[c]] = "FREE",
         state' = [state EXCEPT ![slot[c]] = "ACQUIRED"]
  PROVE  SteadyInv'
<1>0. c \notin Handler /\ slot[c] \in Slot /\ \A d \in Client : slot[d] \in Slot
  BY SlotAssumption DEF SlotTypes, Thread
<1>1. /\ Outside \cap (Sent \cup Unsent \cup Identified \cup Answered) = {}
      /\ "own" \in Unsent /\ "own" \notin Sent \cup Identified \cup Answered
      /\ "own" \notin {"loadGen", "getGen", "lastGen", "readOwner", "readState", "unwait"}
  BY DEF Sent, Outside, Unsent, Answered, Identified
<1>2. state'[slot[c]] = "ACQUIRED" /\ \A s \in Slot \ {slot[c]} : state'[s] = state[s]
  BY <1>0 DEF SlotTypes
<1>3. \A d \in Client : Keeps(d) => state[slot[d]] # "FREE"
  BY DEF SteadyInv, ClientSound, Keeps
<1>4. \A d \in Client \ {c} : Spared(d)
  BY <1>0, <1>2, <1>3 DEF Spared
<1>5. ClientSound(c)'
  BY <1>1, <1>2 DEF ClientSound, SteadyInv
<1>6. \A d \in Client : ClientSound(d)'
  BY <1>4, <1>5, SparedSound
<1>7. \A r, s : OnItsWay(r, s) => OnItsWay(r, s)'
  <2> SUFFICES ASSUME NEW r, NEW s, OnItsWay(r, s) PROVE OnItsWay(r, s)'
    OBVIOUS
  <2>1. s \in Slot \ {slot[c]}
    BY <1>0 DEF OnItsWay
  <2> QED
    BY <1>1, <1>2, <2>1, WayKept
<1>8. \A h \in Handler : pc'[h] = pc[h] /\ slot'[h] = slot[h] /\ req'[h] = req[h]
  BY <1>0 DEF Elsewhere
<1>9. \A h \in Handler : HandlerSound(h)'
  BY <1>7, <1>8 DEF SteadyInv, HandlerSound
<1>10. \A i \in 1..Len(queue)' : OnItsWay(queue[i].req, queue[i].slot)'
  BY <1>7 DEF SteadyInv
<1>11. Keeps(c)' /\ ~Keeps(c) /\ \A d \in Client \ {c} : (Keeps(d)' <=> Keeps(d))
  BY <1>1 DEF Elsewhere, Keeps, Sent
<1>12. OneKeeper'
  <2>1. \A s \in Slot : state'[s] # "FREE" => \E d \in Client : Keeps(d)' /\ slot'[d] = s
    BY <1>2, <1>11 DEF SteadyInv, OneKeeper
  <2>2. \A d, e \in Client : d # e /\ Keeps(d)' /\ Keeps(e)' => slot'[d] # slot'[e]
    BY <1>3, <1>11 DEF SteadyInv, OneKeeper
  <2> QED
    BY <2>1, <2>2 DEF OneKeeper
<1>13. Apart'
  BY <1>8 DEF SteadyInv, Apart
<1> QED
  BY <1>6, <1>9, <1>10, <1>12, <1>13 DEF SteadyInv

LEMMA QueuedSlots ==
  ASSUME SlotTypes, NEW i \in 1..Len(queue)
  PROVE  queue[i].slot \in Slot
<1>1. queue \in Seq(Entry)
  BY DEF SlotTypes, Entry
<1>2. queue[i] \in Entry
  BY <1>1
<1> QED
  BY <1>2 DEF Entry

\* A client that gives back its slot: no request is on its way to it.
LEMMA GiveSound ==
  ASSUME SlotTypes, SlotTypes', SteadyInv, NEW c \in Client, Elsewhere({c}),
         UNCHANGED <<data, queue, alive, clear, generation, timedOut>>,
         UNCHANGED <<slot, gen, req, expired, outcome, answer>>,
         pc[c] \in {"fullState", "readState"}, pc'[c] \in Outside,
         pc'[c] = "unwait" => pc[c] = "readState",
         state' = [state EXCEPT ![slot[c]] = "FREE"]
  PROVE  SteadyInv'
<1>0. c \notin Handler /\ slot[c] \in Slot /\ \A d \in Client : slot[d] \in Slot
  BY SlotAssumption DEF SlotTypes, Thread
<1>1. /\ Outside \cap (Sent \cup Unsent \cup Identified \cup Answered) = {}
      /\ "fullState" \in Unsent \ Sent /\ "readState" \in Answered \cap Sent
      /\ Outside \cap {"bumpAgain", "loadGen", "getGen", "lastGen", "readOwner", "readState"} = {}
  BY DEF Sent, Outside, Unsent, Answered, Identified
<1>2. state'[slot[c]] = "FREE" /\ \A s \in Slot \ {slot[c]} : state'[s] = state[s]
  BY <1>0 DEF SlotTypes
<1>3. Keeps(c) /\ ~Keeps(c)' /\ ClientSound(c)
  BY <1>1 DEF Keeps, SteadyInv
<1>4. \A d \in Client \ {c} : Keeps(d) => slot[d] # slot[c]
  BY <1>3 DEF SteadyInv, OneKeeper
<1>5. \A d \in Client \ {c} : Spared(d)
  BY <1>0, <1>2, <1>4 DEF Spared
<1>6. ClientSound(c)'
  BY <1>1, <1>3 DEF ClientSound
<1>7. \A d \in Client : ClientSound(d)'
  BY <1>5, <1>6, SparedSound
<1>8. \A r : ~OnItsWay(r, slot[c])
  BY <1>1, <1>3, WayKeeper DEF ClientSound
<1>9. \A r, s : OnItsWay(r, s) /\ s \in Slot => OnItsWay(r, s)'
  <2> SUFFICES ASSUME NEW r, NEW s \in Slot, OnItsWay(r, s) PROVE OnItsWay(r, s)'
    OBVIOUS
  <2>1. PICK d \in Client : pc[d] \in Sent /\ slot[d] = s /\ req[d] = r
    BY DEF OnItsWay
  <2>2. d # c /\ state'[s] = "ACQUIRED"
    BY <1>2, <1>8, <2>1 DEF OnItsWay
  <2>3. pc'[d] \in Sent /\ slot'[d] = s /\ req'[d] = r
    BY <2>1, <2>2 DEF Elsewhere, Sent
  <2> QED
    BY <2>2, <2>3 DEF OnItsWay
<1>10. \A h \in Handler : pc'[h] = pc[h] /\ slot'[h] = slot[h] /\ req'[h] = req[h] /\ slot[h] \in Slot
  BY <1>0 DEF Elsewhere, SlotTypes, Thread
<1>11. \A h \in Handler : HandlerSound(h)'
  BY <1>9, <1>10 DEF SteadyInv, HandlerSound
<1>12. \A i \in 1..Len(queue)' : OnItsWay(queue[i].req, queue[i].slot)'
  <2> SUFFICES ASSUME NEW i \in 1..Len(queue) PROVE OnItsWay(queue[i].req, queue[i].slot)'
    OBVIOUS
  <2>1. queue[i].slot \in Slot
    BY QueuedSlots
  <2>2. OnItsWay(queue[i].req, queue[i].slot)
    BY DEF SteadyInv
  <2> QED
    BY <1>9, <2>1, <2>2
<1>13. \A d \in Client \ {c} : (Keeps(d)' <=> Keeps(d))
  BY DEF Elsewhere, Keeps, Sent
<1>14. OneKeeper'
  <2>1. \A s \in Slot : state'[s] # "FREE" => \E d \in Client : Keeps(d)' /\ slot'[d] = s
    BY <1>2, <1>13 DEF SteadyInv, OneKeeper
  <2>2. \A d, e \in Client : d # e /\ Keeps(d)' /\ Keeps(e)' => slot'[d] # slot'[e]
    BY <1>3, <1>13 DEF SteadyInv, OneKeeper
  <2> QED
    BY <2>1, <2>2 DEF OneKeeper
<1>15. Apart'
  BY <1>10 DEF SteadyInv, Apart
<1> QED
  BY <1>7, <1>11, <1>12, <1>14, <1>15 DEF SteadyInv

\* A client that enqueues its request: nothing was on its way to its slot.
LEMMA EnqueueSound ==
  ASSUME SlotTypes, SlotTypes', SteadyInv, NEW c \in Client, Elsewhere({c}),
         UNCHANGED <<clear, timedOut>>, NEW to \in Sent \ (Answered \cup {"loadGen", "getGen"}),
         Enqueue(c, to)
  PROVE  SteadyInv'
<1> DEFINE e == [req |-> req[c], slot |-> slot[c], gen |-> gen[c]]
<1>0. c \in Thread /\ c \notin Handler /\ slot[c] \in Slot
  BY SlotAssumption DEF SlotTypes, Thread
<1>1. /\ pc[c] = "send" /\ pc'[c] = to /\ UNCHANGED <<state, data, alive, generation>>
      /\ UNCHANGED <<slot, gen, req, seen, expired, outcome, answer>> /\ queue' = Append(queue, e)
  BY <1>0 DEF Enqueue, Goto, SlotTypes, Located, ids, results
<1>2. /\ "send" \in Unsent \cap Identified /\ Sent \cap Unsent = {} /\ {"send", "bumpAgain"} \cap Sent = {}
      /\ Sent \cap {"unwait"} = {} /\ {"readOwner", "readState", "lastGen"} \subseteq Answered
      /\ Sent \subseteq Identified
  BY DEF Sent, Unsent, Identified, Answered
<1>3. ClientSound(c) /\ Keeps(c) /\ state[slot[c]] = "ACQUIRED"
  BY <1>1, <1>2 DEF SteadyInv, ClientSound, Keeps
<1>4. ClientSound(c)'
  BY <1>1, <1>2, <1>3 DEF ClientSound
<1>5. \A d \in Client : ClientSound(d)'
  BY <1>1, <1>4, SparedSound DEF Spared
<1>6. \A r, s : OnItsWay(r, s) => OnItsWay(r, s)'
  BY <1>1, <1>2, WayKept
<1>7. OnItsWay(req[c], slot[c])'
  BY <1>1, <1>3 DEF OnItsWay
<1>8. \A r : ~OnItsWay(r, slot[c])
  BY <1>1, <1>2, <1>3, WayKeeper
<1>9. \A h \in Handler : pc'[h] = pc[h] /\ slot'[h] = slot[h] /\ req'[h] = req[h]
  BY <1>0 DEF Elsewhere
<1>10. \A h \in Handler : HandlerSound(h)'
  BY <1>1, <1>6, <1>9 DEF SteadyInv, HandlerSound
<1>11. /\ Len(queue') = Len(queue) + 1 /\ Len(queue) \in Nat /\ queue'[Len(queue) + 1] = e
       /\ \A i \in 1..Len(queue) : queue'[i] = queue[i]
  <2>1. queue \in Seq(Entry)
    BY DEF SlotTypes, Entry
  <2> QED
    BY <1>1, <2>1
<1>12. \A i \in 1..Len(queue') : i = Len(queue) + 1 \/ i \in 1..Len(queue)
  BY <1>11
<1>13. \A i \in 1..Len(queue)' : OnItsWay(queue[i].req, queue[i].slot)'
  <2> SUFFICES ASSUME NEW i \in 1..Len(queue') PROVE OnItsWay(queue[i].req, queue[i].slot)'
    OBVIOUS
  <2>1. CASE i \in 1..Len(queue)
    <3>1. queue'[i] = queue[i] /\ OnItsWay(queue[i].req, queue[i].slot)
      BY <1>11, <2>1 DEF SteadyInv
    <3>2. PICK r, s : r = queue[i].req /\ s = queue[i].slot /\ OnItsWay(r, s)'
      BY <1>6, <3>1
    <3> QED
      BY <3>1, <3>2 DEF OnItsWay
  <2>2. CASE i = Len(queue) + 1
    BY <1>1, <1>7, <1>11, <2>2 DEF OnItsWay
  <2> QED
    BY <1>12, <2>1, <2>2
<1>14. \A i \in 1..Len(queue) : queue[i].slot # slot[c]
  BY <1>8 DEF SteadyInv
<1>15. \A h \in Handler : pc[h] \in Carrying => slot[h] # slot[c]
  BY <1>8 DEF SteadyInv, HandlerSound
<1>16. OneKeeper'
  <2>1. \A d \in Client : Keeps(d)' <=> Keeps(d)
    BY <1>1, <1>2 DEF Elsewhere, Keeps, Sent
  <2> QED
    BY <1>1, <2>1 DEF SteadyInv, OneKeeper
<1>17. Apart'
  <2>1. \A i, j \in 1..Len(queue') : i # j => queue'[i].slot # queue'[j].slot
    <3> SUFFICES ASSUME NEW i \in 1..Len(queue'), NEW j \in 1..Len(queue'), i # j
                 PROVE  queue'[i].slot # queue'[j].slot
      OBVIOUS
    <3>1. CASE i \in 1..Len(queue) /\ j \in 1..Len(queue)
      BY <1>11, <3>1 DEF SteadyInv, Apart
    <3>2. CASE i = Len(queue) + 1 /\ j \in 1..Len(queue)
      BY <1>11, <1>14, <3>2
    <3>3. CASE j = Len(queue) + 1 /\ i \in 1..Len(queue)
      BY <1>11, <1>14, <3>3
    <3> QED
      BY <1>12, <3>1, <3>2, <3>3
  <2>2. \A g, h \in Handler : g # h /\ pc'[g] \in Carrying /\ pc'[h] \in Carrying => slot'[g] # slot'[h]
    BY <1>9 DEF SteadyInv, Apart
  <2>3. ASSUME NEW i \in 1..Len(queue'), NEW h \in Handler, pc'[h] \in Carrying
        PROVE  queue'[i].slot # slot'[h]
    <3>1. pc[h] \in Carrying /\ slot'[h] = slot[h]
      BY <1>9, <2>3
    <3>2. CASE i \in 1..Len(queue)
      BY <1>11, <3>1, <3>2 DEF SteadyInv, Apart
    <3>3. CASE i = Len(queue) + 1
      BY <1>11, <1>15, <3>1, <3>3
    <3> QED
      BY <1>12, <3>2, <3>3
  <2> QED
    BY <2>1, <2>2, <2>3 DEF Apart
<1> QED
  BY <1>1, <1>5, <1>10, <1>13, <1>16, <1>17 DEF SteadyInv

\* A handler that moves on, or is done, with its request.
LEMMA HandlerQuiet ==
  ASSUME SlotTypes, SlotTypes', SteadyInv, NEW h \in Handler, Elsewhere({h}),
         UNCHANGED <<state, queue, alive, clear, generation, timedOut>>,
         slot'[h] = slot[h], req'[h] = req[h],
         pc'[h] \in Carrying \cup {"idle", "replyWaiters", "replyWake"},
         pc'[h] \in Carrying => pc[h] \in Carrying,
         pc'[h] = "replyReady" => data'[slot[h]] = req[h],
         data' = data \/ (pc[h] \in Carrying /\ \A s \in Slot \ {slot[h]} : data'[s] = data[s])
  PROVE  SteadyInv'
<1>0. h \notin Client /\ (\A d \in Client : slot[d] \in Slot) /\ \A g \in Handler : slot[g] \in Slot
  BY SlotAssumption DEF SlotTypes, Thread
<1>1. pc[h] \in Carrying => state[slot[h]] = "ACQUIRED"
  BY DEF SteadyInv, HandlerSound, OnItsWay
<1>2. \A d \in Client : Spared(d)
  BY <1>0, <1>1 DEF Spared
<1>3. \A d \in Client : ClientSound(d)'
  BY <1>0, <1>2, SparedSound
<1>4. \A r, s : OnItsWay(r, s) => OnItsWay(r, s)'
  BY <1>0, WayKept
<1>5. \A g \in Handler \ {h} : pc'[g] = pc[g] /\ slot'[g] = slot[g] /\ req'[g] = req[g]
  BY DEF Elsewhere
<1>6. \A g \in Handler : HandlerSound(g)'
  <2>1. HandlerSound(h)'
    BY <1>4 DEF SteadyInv, HandlerSound
  <2>2. ASSUME NEW g \in Handler \ {h} PROVE HandlerSound(g)'
    <3>1. pc[g] = "replyReady" => data'[slot[g]] = data[slot[g]]
      BY <1>0 DEF SteadyInv, Apart, Carrying
    <3> QED
      BY <1>4, <1>5, <3>1 DEF SteadyInv, HandlerSound
  <2> QED
    BY <2>1, <2>2
<1>7. \A i \in 1..Len(queue)' : OnItsWay(queue[i].req, queue[i].slot)'
  BY <1>4 DEF SteadyInv
<1>8. OneKeeper'
  <2>1. \A d \in Client : (Keeps(d)' <=> Keeps(d)) /\ slot'[d] = slot[d]
    BY <1>0 DEF Elsewhere, Keeps, Sent
  <2> QED
    BY <2>1 DEF SteadyInv, OneKeeper
<1>9. Apart'
  BY <1>5 DEF SteadyInv, Apart
<1> QED
  BY <1>3, <1>6, <1>7, <1>8, <1>9 DEF SteadyInv

\* A handler that receives a request takes it over from the queue.
LEMMA RecvSound ==
  ASSUME SlotTypes, SlotTypes', SteadyInv, NEW h \in Handler, Elsewhere({h}),
         UNCHANGED <<state, data, alive, clear, generation, timedOut>>,
         queue # <<>>, pc[h] = "idle", pc'[h] \in {"handle", "leave"},
         slot'[h] = Head(queue).slot, req'[h] = Head(queue).req, queue' = Tail(queue)
  PROVE  SteadyInv'
<1>0. h \notin Client
  BY SlotAssumption
<1>1. \A d \in Client : ClientSound(d)'
  BY <1>0, SparedSound DEF Spared
<1>2. \A r, s : OnItsWay(r, s) => OnItsWay(r, s)'
  BY <1>0, WayKept
<1>3. /\ Head(queue) = queue[1] /\ 1 \in 1..Len(queue)
      /\ \A i \in 1..Len(queue') : i + 1 \in 1..Len(queue) /\ queue'[i] = queue[i + 1] /\ i + 1 # 1
      /\ \A i, j \in 1..Len(queue') : i # j => i + 1 # j + 1
  <2>1. queue \in Seq(Entry)
    BY DEF SlotTypes, Entry
  <2> QED
    BY <2>1
<1>4. OnItsWay(req[h], slot[h])'
  <2>1. PICK r, s : r = queue[1].req /\ s = queue[1].slot /\ OnItsWay(r, s)'
    BY <1>2, <1>3 DEF SteadyInv
  <2> QED
    BY <1>3, <2>1 DEF OnItsWay
<1>5. \A g \in Handler \ {h} : pc'[g] = pc[g] /\ slot'[g] = slot[g] /\ req'[g] = req[g]
  BY DEF Elsewhere
<1>6. \A g \in Handler : HandlerSound(g)'
  <2>1. HandlerSound(h)'
    BY <1>4 DEF HandlerSound, Carrying
  <2>2. \A g \in Handler \ {h} : HandlerSound(g)'
    BY <1>2, <1>5 DEF SteadyInv, HandlerSound
  <2> QED
    BY <2>1, <2>2
<1>7. \A i \in 1..Len(queue)' : OnItsWay(queue[i].req, queue[i].slot)'
  <2> SUFFICES ASSUME NEW i \in 1..Len(queue') PROVE OnItsWay(queue[i].req, queue[i].slot)'
    OBVIOUS
  <2>1. queue'[i] = queue[i + 1] /\ OnItsWay(queue[i + 1].req, queue[i + 1].slot)
    BY <1>3 DEF SteadyInv
  <2>2. PICK r, s : r = queue[i + 1].req /\ s = queue[i + 1].slot /\ OnItsWay(r, s)'
    BY <1>2, <2>1
  <2> QED
    BY <2>1, <2>2 DEF OnItsWay
<1>8. OneKeeper'
  <2>1. \A d \in Client : (Keeps(d)' <=> Keeps(d)) /\ slot'[d] = slot[d]
    BY <1>0 DEF Elsewhere, Keeps, Sent
  <2> QED
    BY <2>1 DEF SteadyInv, OneKeeper
<1>9. Apart'
  <2>1. \A i, j \in 1..Len(queue') : i # j => queue'[i].slot # queue'[j].slot
    BY <1>3 DEF SteadyInv, Apart
  <2>2. \A f, g \in Handler : f # g /\ pc'[f] \in Carrying /\ pc'[g] \in Carrying => slot'[f] # slot'[g]
    BY <1>3, <1>5 DEF SteadyInv, Apart
  <2>3. \A i \in 1..Len(queue'), g \in Handler : pc'[g] \in Carrying => queue'[i].slot # slot'[g]
    <3> SUFFICES ASSUME NEW i \in 1..Len(queue'), NEW g \in Handler, pc'[g] \in Carrying
                 PROVE  queue'[i].slot # slot'[g]
      OBVIOUS
    <3>1. CASE g = h
      BY <1>3, <3>1 DEF SteadyInv, Apart
    <3>2. CASE g # h
      BY <1>3, <1>5, <3>2 DEF SteadyInv, Apart
    <3> QED
      BY <3>1, <3>2
  <2> QED
    BY <2>1, <2>2, <2>3 DEF Apart
<1> QED
  BY <1>1, <1>6, <1>7, <1>8, <1>9 DEF SteadyInv

\* A handler that publishes its response: it is the answer to the client of the slot.
LEMMA PublishSound ==
  ASSUME SlotTypes, SlotTypes', SteadyInv, NEW h \in Handler, Elsewhere({h}),
         UNCHANGED <<data, queue, alive, clear, generation, timedOut>>,
         pc[h] = "replyReady", pc'[h] = "replyWaiters",
         state' = [state EXCEPT ![slot[h]] = "READY"]
  PROVE  SteadyInv'
<1>0. h \notin Client /\ slot[h] \in Slot /\ (\A d \in Client : slot[d] \in Slot)
  BY SlotAssumption DEF SlotTypes, Thread
<1>1. HandlerSound(h) /\ "replyReady" \in Carrying /\ "replyWaiters" \notin Carrying
  BY DEF SteadyInv, Carrying
<1>2. OnItsWay(req[h], slot[h]) /\ data[slot[h]] = req[h] /\ state[slot[h]] = "ACQUIRED"
  BY <1>1 DEF HandlerSound, OnItsWay
<1>3. state'[slot[h]] = "READY" /\ \A s \in Slot \ {slot[h]} : state'[s] = state[s]
  BY <1>0 DEF SlotTypes
<1>4. \A d \in Client : Spared(d)
  <2> SUFFICES ASSUME NEW d \in Client, Keeps(d) PROVE Spared(d)
    BY DEF Spared
  <2>1. CASE slot[d] = slot[h]
    <3>1. pc[d] \in Sent /\ req[d] = req[h]
      BY <1>2, <2>1, WayKeeper
    <3> QED
      BY <1>2, <1>3, <2>1, <3>1 DEF Spared
  <2>2. CASE slot[d] # slot[h]
    BY <1>0, <1>3, <2>2 DEF Spared
  <2> QED
    BY <2>1, <2>2
<1>5. \A d \in Client : ClientSound(d)'
  BY <1>0, <1>4, SparedSound
<1>6. \A r : \A s \in Slot \ {slot[h]} : OnItsWay(r, s) => OnItsWay(r, s)'
  BY <1>0, <1>3, WayKept
<1>7. \A g \in Handler \ {h} : /\ pc'[g] = pc[g] /\ slot'[g] = slot[g] /\ req'[g] = req[g]
                               /\ slot[g] \in Slot /\ (pc[g] \in Carrying => slot[g] # slot[h])
  BY <1>1 DEF Elsewhere, SteadyInv, Apart, SlotTypes, Thread
<1>8. \A g \in Handler : HandlerSound(g)'
  <2>1. HandlerSound(h)'
    BY DEF HandlerSound, Carrying
  <2>2. \A g \in Handler \ {h} : HandlerSound(g)'
    BY <1>6, <1>7 DEF SteadyInv, HandlerSound
  <2> QED
    BY <2>1, <2>2
<1>9. \A i \in 1..Len(queue)' : OnItsWay(queue[i].req, queue[i].slot)'
  <2> SUFFICES ASSUME NEW i \in 1..Len(queue) PROVE OnItsWay(queue[i].req, queue[i].slot)'
    OBVIOUS
  <2>1. queue[i].slot \in Slot \ {slot[h]}
    BY <1>1, QueuedSlots DEF SteadyInv, Apart
  <2>2. OnItsWay(queue[i].req, queue[i].slot)
    BY DEF SteadyInv
  <2> QED
    BY <1>6, <2>1, <2>2
<1>10. OneKeeper'
  <2>1. \A d \in Client : (Keeps(d)' <=> Keeps(d)) /\ slot'[d] = slot[d]
    BY <1>0 DEF Elsewhere, Keeps, Sent
  <2>2. \A s \in Slot : state'[s] # "FREE" => state[s] # "FREE"
    BY <1>2, <1>3
  <2> QED
    BY <2>1, <2>2 DEF SteadyInv, OneKeeper
<1>11. Apart'
  BY <1>1, <1>7 DEF SteadyInv, Apart
<1> QED
  BY <1>5, <1>8, <1>9, <1>10, <1>11 DEF SteadyInv

\* The steps of a handler, Go or C, that does not fail.
LEMMA HandlerSteady ==
  ASSUME SlotTypes, SlotTypes', SteadyInv, NEW h \in Handler, UNCHANGED <<clear, timedOut>>,
         Recv(h) \/ IntTryRecv(h) \/ StrReply(h) \/ IntReply(h) \/ CancelStep(h)
  PROVE  SteadyInv'
<1>0. h \in Thread /\ h \notin Client /\ slot[h] \in Slot /\ HandlerSound(h)
  BY SlotAssumption DEF SlotTypes, Thread, SteadyInv
<1>1. Elsewhere({h})
  BY <1>0, HandlerElsewhere, CancelElsewhere DEF StrReply, IntReply, HandlerStep, Handle
<1>2. ASSUME NEW from \in Carrying \cup {"replyWaiters", "replyWake"},
             NEW to \in Carrying \cup {"idle", "replyWaiters", "replyWake"}, to # "replyReady",
             to \in Carrying => from \in Carrying, Branch(h, from, to)
      PROVE  SteadyInv'
  <2>1. pc[h] = from /\ pc'[h] = to
        /\ UNCHANGED <<state, data, queue, alive, generation, slot, req>>
    BY <1>0, <1>2 DEF Branch, Goto, SlotTypes, Located, shared, ids
  <2> QED
    BY <1>1, <1>2, <2>1, HandlerQuiet
<1>3. {"leave", "handle", "replyState", "replyGen", "replyCopy", "replyReady"} \subseteq Carrying
      /\ Carrying \cap {"idle", "replyWaiters", "replyWake"} = {}
  BY DEF Carrying
<1>4. CASE Recv(h) \/ (IntTryRecv(h) /\ ~Branch(h, "leave", "handle"))
  <2>1. /\ queue # <<>> /\ pc[h] = "idle" /\ pc'[h] \in {"handle", "leave"} /\ queue' = Tail(queue)
        /\ UNCHANGED <<state, data, alive, generation>>
        /\ slot' = [slot EXCEPT ![h] = Head(queue).slot] /\ req' = [req EXCEPT ![h] = Head(queue).req]
    BY <1>0, <1>4 DEF Recv, IntTryRecv, Goto, SlotTypes, Located
  <2>2. slot'[h] = Head(queue).slot /\ req'[h] = Head(queue).req
    BY <1>0, <2>1 DEF SlotTypes
  <2> QED
    BY <1>1, <2>1, <2>2, RecvSound
<1>5. CASE Branch(h, "leave", "handle") \/ Branch(h, "handle", "replyState") \/ Branch(h, "handle", "idle")
  BY <1>2, <1>3, <1>5
<1>6. CASE ReplyState(h) \/ ReplyGen(h)
  BY <1>2, <1>3, <1>6 DEF ReplyState, ReplyGen
<1>7. CASE ReplyWaiters(h)
  BY <1>2, <1>3, <1>7 DEF ReplyWaiters
<1>8. CASE ReplyCopy(h)
  <2>1. /\ pc[h] = "replyCopy" /\ pc'[h] = "replyReady" /\ data' = [data EXCEPT ![slot[h]] = req[h]]
        /\ UNCHANGED <<state, queue, alive, generation, slot, req>>
    BY <1>0, <1>8 DEF ReplyCopy, Goto, SlotTypes, Located, ids
  <2>2. data'[slot[h]] = req[h] /\ \A s \in Slot \ {slot[h]} : data'[s] = data[s]
    BY <1>0, <2>1 DEF SlotTypes
  <2> QED
    BY <1>1, <1>3, <2>1, <2>2, HandlerQuiet
<1>9. CASE ReplyReady(h)
  <2>1. /\ pc[h] = "replyReady" /\ UNCHANGED <<data, queue, alive, generation>>
        /\ pc'[h] = IF state[slot[h]] = "ACQUIRED" THEN "replyWaiters" ELSE "idle"
        /\ state[slot[h]] = "ACQUIRED" => state' = [state EXCEPT ![slot[h]] = "READY"]
    BY <1>0, <1>9 DEF ReplyReady, SlotCAS, Goto, SlotTypes, Located
  <2>2. state[slot[h]] = "ACQUIRED"
    BY <1>0, <1>3, <2>1 DEF HandlerSound, OnItsWay
  <2> QED
    BY <1>1, <2>1, <2>2, PublishSound
<1>10. CASE ReplyWake(h)
  <2>1. pc[h] = "replyWake" /\ UNCHANGED <<state, data, queue, alive, generation, slot, req>>
    BY <1>10 DEF ReplyWake, shared, ids
  <2>2. pc'[h] = "idle"
    <3>1. ASSUME NEW c \in Client, pc' = [pc EXCEPT ![h] = "idle", ![c] = "woken"] PROVE pc'[h] = "idle"
      BY <1>0, <3>1 DEF SlotTypes, Located
    <3>2. CASE pc' = [pc EXCEPT ![h] = "idle"]
      BY <1>0, <3>2 DEF SlotTypes, Located
    <3> QED
      BY <1>10, <3>1, <3>2 DEF ReplyWake, SleepersOn
  <2> QED
    BY <1>1, <1>3, <2>1, <2>2, HandlerQuiet
<1>11. CASE CancelStep(h)
  BY <1>0, <1>11 DEF HandlerSound, Carrying, CancelStep, CancelGen, CancelFree, CancelOwner, CancelBump,
     CancelWaiters, CancelWake, Branch, SlotCAS, Disown, Goto
<1> QED
  BY <1>4, <1>5, <1>6, <1>7, <1>8, <1>9, <1>10, <1>11 DEF IntTryRecv, StrReply, IntReply

\* Looking for a slot, and taking one; nobody is dead, so none is recovered.
LEMMA AcquireSteady ==
  ASSUME SlotTypes, SlotTypes', SteadyInv, NEW c \in Client, UNCHANGED <<clear, timedOut>>,
         AcquireStep(c) \/ SlotAcquire(c)
  PROVE  SteadyInv'
<1> USE DEF ids, results
<1>0. c \in Thread /\ slot[c] \in Slot /\ ClientSound(c) /\ Elsewhere({c})
  BY AcquireElsewhere DEF SlotTypes, Thread, SteadyInv
<1>1. \A from, to : Goto(c, from, to) => pc[c] = from /\ pc'[c] = to
  BY <1>0 DEF Goto, SlotTypes, Located
<1>2. ~expired[c] /\ expired[c] \in BOOLEAN /\ outcome[c] \in {"none", "ok"}
      /\ (outcome[c] = "ok" => answer[c] = req[c])
  BY <1>0 DEF ClientSound, SlotTypes
<1>3. ASSUME NEW from \in {"scan", "stale", "staleOwner", "staleProbe"},
             NEW to \in {"scan", "stale", "staleOwner", "staleProbe", "retry"}, Goto(c, from, to),
             UNCHANGED <<state, data, queue, alive, generation, req, expired, outcome, answer>>
      PROVE  SteadyInv'
  <2>1. pc[c] \in Outside /\ pc'[c] \in Outside \ {"unwait"}
    BY <1>1, <1>3 DEF Outside
  <2> QED
    BY <1>0, <1>2, <1>3, <2>1, RoamSound
<1>4. NextStale(c) => \E to \in {"retry", "stale"} : pc' = [pc EXCEPT ![c] = to]
  BY DEF NextStale
<1>5. CASE Scan(c)
  <2>1. CASE state[slot[c]] = "FREE"
    <3>1. pc[c] = "scan" /\ pc'[c] = "own" /\ state' = [state EXCEPT ![slot[c]] = "ACQUIRED"]
          /\ UNCHANGED <<data, queue, alive, generation, slot, gen, req, expired, outcome, answer>>
      BY <1>1, <1>5, <2>1 DEF Scan, SlotCAS
    <3>2. "scan" \in Outside
      BY DEF Outside
    <3> QED
      BY <1>0, <2>1, <3>1, <3>2, TakeSound
  <2>2. CASE state[slot[c]] # "FREE"
    <3>1. /\ \E to \in {"scan", "stale"} : Goto(c, "scan", to)
          /\ UNCHANGED <<state, data, queue, alive, generation, req, expired, outcome, answer>>
      BY <1>5, <2>2 DEF Scan, SlotCAS
    <3> QED
      BY <1>3, <3>1
  <2> QED
    BY <2>1, <2>2
<1>6. CASE StaleState(c) \/ StaleOwner(c)
  <2>1. \E from \in {"stale", "staleOwner"}, to \in {"stale", "staleOwner", "staleProbe", "retry"} :
          Goto(c, from, to)
    BY <1>4, <1>6 DEF StaleState, StaleOwner, Goto
  <2>2. UNCHANGED <<state, data, queue, alive, generation, req, expired, outcome, answer>>
    BY <1>6 DEF StaleState, StaleOwner, shared
  <2> QED
    BY <1>3, <2>1, <2>2
<1>7. CASE StaleProbe(c) \/ ProbeOwner(c)
  <2>1. holder[c] \in alive \cup {NoPid}
    BY DEF SlotTypes, SteadyInv
  <2>2. \E to \in {"stale", "retry"} : Goto(c, "staleProbe", to)
    BY <1>4, <1>7, <2>1 DEF StaleProbe, ProbeOwner, Goto
  <2>3. UNCHANGED <<state, data, queue, alive, generation, req, expired, outcome, answer>>
    BY <1>7 DEF StaleProbe, ProbeOwner, shared
  <2> QED
    BY <1>3, <2>2, <2>3
<1>8. CASE StaleClear(c) \/ StaleFree(c) \/ StaleGrab(c)
  <2>1. pc[c] \in {"staleClear", "staleFree", "staleGrab"}
    BY <1>8 DEF StaleClear, StaleFree, StaleGrab, Goto
  <2> QED
    BY <1>0, <2>1 DEF ClientSound, Outside, Unsent, Sent
<1>9. ASSUME NEW from \in Unsent, NEW to \in Unsent \ {"bumpAgain"}, Goto(c, from, to),
             to \in Identified => from \in Identified,
             UNCHANGED <<state, data, queue, alive, generation, slot, gen, req, expired, outcome, answer>>
      PROVE  SteadyInv'
  <2>1. to \notin Answered \cup {"loadGen", "getGen", "lastGen", "readOwner", "readState", "unwait"}
    BY <1>9 DEF Unsent, Answered
  <2> QED
    BY <1>0, <1>9, <2>1, PlainSound
<1>10. /\ {"own", "bump", "bumpAgain", "hint", "send", "setHint", "loadId"} \subseteq Unsent
       /\ {"own", "bump", "bumpAgain", "setHint", "loadId"} \cap Identified = {} /\ {"hint", "send"} \subseteq Identified
  BY DEF Unsent, Identified, Sent
<1>11. CASE Own(c) \/ Hint(c) \/ SetHint(c)
  <2>1. \/ Goto(c, "own", "bump") \/ Goto(c, "hint", "send") \/ Goto(c, "setHint", "loadId")
    BY <1>11 DEF Own, Hint, SetHint
  <2>2. UNCHANGED <<state, data, queue, alive, generation, slot, gen, req, expired, outcome, answer>>
    BY <1>11 DEF Own, Hint, SetHint
  <2> QED
    BY <1>9, <1>10, <2>1, <2>2
<1>12. CASE Bump(c) \/ AddGeneration(c)
  <2>1. pc[c] \in {"bump", "bumpAgain"} /\ pc'[c] \in {"bumpAgain", "hint", "send", "setHint", "loadId"}
        /\ UNCHANGED <<state, data, queue, alive, slot, req, expired, outcome, answer>>
    <3>1. CASE Bump(c)
      <4>1. PICK from \in {"bump", "bumpAgain"}, to \in {"bumpAgain", "hint", "send"} : Goto(c, from, to)
        BY <3>1 DEF Bump
      <4> QED
        BY <1>1, <3>1, <4>1 DEF Bump
    <3> QED
      BY <1>1, <1>12, <3>1 DEF AddGeneration
  <2>2. \A s \in Slot \ {slot[c]} : generation'[s] = generation[s]
    BY <1>12 DEF Bump, AddGeneration, SlotTypes
  <2>3. pc'[c] \in Identified => gen'[c] = generation'[slot[c]]
    <3>1. CASE Bump(c)
      BY <1>0, <3>1 DEF Bump, SlotTypes
    <3>2. CASE AddGeneration(c)
      <4>1. pc'[c] \in {"setHint", "loadId"}
        BY <1>1, <3>2 DEF AddGeneration
      <4> QED
        BY <1>10, <4>1
    <3> QED
      BY <1>12, <3>1, <3>2
  <2>4. pc'[c] \in Unsent \ (Sent \cup Answered \cup {"loadGen", "getGen", "lastGen", "readOwner", "readState", "unwait"})
        /\ pc[c] \in Unsent \ Sent
    BY <2>1 DEF Unsent, Sent, Answered
  <2>5. pc'[c] = "bumpAgain" => generation'[slot[c]] = 0
    <3>1. CASE Bump(c)
      BY <1>0, <1>1, <3>1 DEF Bump, SlotTypes
    <3>2. CASE AddGeneration(c)
      BY <1>1, <3>2 DEF AddGeneration
    <3> QED
      BY <1>12, <3>1, <3>2
  <2>6. ClientSound(c)'
    BY <1>0, <2>1, <2>3, <2>4, <2>5 DEF ClientSound
  <2>7. Keeps(c) /\ Keeps(c)'
    BY <2>4 DEF Keeps
  <2> QED
    BY <1>0, <2>1, <2>2, <2>4, <2>6, <2>7, ClientQuiet
<1> QED
  BY <1>5, <1>6, <1>7, <1>8, <1>11, <1>12 DEF AcquireStep, SlotAcquire

\* Sending: the id is loaded, the request enqueued, or the slot given back.
LEMMA SendSteady ==
  ASSUME SlotTypes, SlotTypes', SteadyInv, NEW c \in Client, UNCHANGED clear,
         (UNCHANGED timedOut /\ (SendStep(c) \/ Query(c) \/ TrySend(c) \/ IntTrySend(c))) \/ SendWait(c),
         timedOut \in [Client -> BOOLEAN]
  PROVE  SteadyInv'
<1> USE DEF shared, ids, results
<1>0. c \in Thread /\ slot[c] \in Slot /\ ClientSound(c) /\ Elsewhere({c})
  BY SendElsewhere DEF SlotTypes, Thread, SteadyInv
<1>1. \A from, to : Goto(c, from, to) => pc[c] = from /\ pc'[c] = to
  BY <1>0 DEF Goto, SlotTypes, Located
<1>2. /\ ~expired[c] /\ expired[c] \in BOOLEAN /\ ~timedOut[c] /\ outcome[c] \in {"none", "ok"}
      /\ outcome[c] = "ok" => answer[c] = req[c]
  BY <1>0 DEF ClientSound, SlotTypes
<1>3. ASSUME NEW from \in {"idle", "retry", "sendSleep"}, NEW to \in {"scan", "sendSleep"}, Goto(c, from, to),
             UNCHANGED <<state, data, queue, alive, generation, timedOut>>, expired'[c] = FALSE,
             outcome'[c] \in {"none", "ok"}, outcome'[c] = "ok" => answer'[c] = req'[c]
      PROVE  SteadyInv'
  <2>1. pc[c] \in Outside /\ pc'[c] \in Outside \ {"unwait"}
    BY <1>1, <1>3 DEF Outside
  <2> QED
    BY <1>0, <1>3, <2>1, RoamSound
<1>4. ASSUME NEW from \in Unsent, NEW to \in Unsent \ {"bumpAgain"}, Goto(c, from, to),
             to \in Identified => from \in Identified,
             UNCHANGED <<state, data, queue, alive, generation, slot, gen, req, expired, outcome, answer, timedOut>>
      PROVE  SteadyInv'
  <2>1. to \notin Answered \cup {"loadGen", "getGen", "lastGen", "readOwner", "readState", "unwait"}
    BY <1>4 DEF Unsent, Answered
  <2> QED
    BY <1>0, <1>4, <2>1, PlainSound
<1>5. /\ {"loadId", "send", "fullOwner", "fullState"} \subseteq Unsent
      /\ {"send", "fullOwner", "fullState"} \subseteq Identified
      /\ {"spinGen", "sent", "publish"} \subseteq Sent \ (Answered \cup {"loadGen", "getGen"})
  BY DEF Unsent, Identified, Sent, Answered
<1>6. CASE Query(c) /\ UNCHANGED timedOut
  <2>1. Goto(c, "idle", "scan") /\ UNCHANGED <<state, data, queue, alive, generation>>
        /\ expired'[c] = FALSE /\ outcome'[c] = "none"
    BY <1>6 DEF Query, StartScan, SlotTypes
  <2> QED
    BY <1>3, <1>6, <2>1
<1>7. CASE (Retry(c) /\ UNCHANGED timedOut) \/ SendWait(c)
  <2>1. /\ \E from \in {"idle", "retry", "sendSleep"}, to \in {"scan", "sendSleep"} : Goto(c, from, to)
        /\ UNCHANGED <<state, data, queue, alive, generation, expired, outcome, answer, req>>
    BY <1>2, <1>7 DEF Retry, SendWait, StartScan, Branch
  <2>2. timedOut' = timedOut
    BY <1>2, <1>7 DEF SendWait
  <2> QED
    BY <1>2, <1>3, <2>1, <2>2
<1>8. CASE LoadId(c) /\ UNCHANGED timedOut
  <2>1. pc[c] = "loadId" /\ pc'[c] = "send" /\ gen'[c] = generation[slot[c]]
        /\ UNCHANGED <<state, data, queue, alive, generation, slot, req, expired, outcome, answer>>
    BY <1>0, <1>1, <1>8 DEF LoadId, SlotTypes
  <2>2. pc'[c] \in Unsent \ (Sent \cup Answered \cup {"loadGen", "getGen", "lastGen", "readOwner", "readState", "unwait"})
        /\ pc[c] \in Unsent \ Sent
    BY <2>1 DEF Unsent, Sent, Answered
  <2>3. ClientSound(c)' /\ Keeps(c) /\ Keeps(c)'
    BY <1>0, <1>8, <2>1, <2>2 DEF ClientSound, Keeps
  <2> QED
    BY <1>0, <1>8, <2>1, <2>2, <2>3, ClientQuiet
<1>9. CASE UNCHANGED timedOut /\ (Enqueue(c, "sent") \/ Enqueue(c, "publish") \/ Enqueue(c, "spinGen"))
  BY <1>0, <1>5, <1>9, EnqueueSound
<1>10. CASE Branch(c, "publish", "sent") /\ UNCHANGED timedOut
  <2>1. {"publish", "sent"} \subseteq Sent /\ "publish" \in Identified
        /\ "sent" \notin Answered \cup {"loadGen", "getGen", "lastGen", "readOwner", "readState", "unwait"}
    BY DEF Sent, Identified, Answered
  <2>2. Goto(c, "publish", "sent")
        /\ UNCHANGED <<state, data, queue, alive, generation, slot, gen, req, expired, outcome, answer>>
    BY <1>10 DEF Branch
  <2> QED
    BY <1>0, <1>10, <2>1, <2>2, PlainSound
<1>11. CASE Branch(c, "send", "fullOwner") /\ UNCHANGED timedOut
  BY <1>4, <1>5, <1>11 DEF Branch
<1>12. CASE Disown(c, "fullOwner", "fullState") /\ UNCHANGED timedOut
  BY <1>4, <1>5, <1>12 DEF Disown
<1>13. CASE FreeSlot(c, "fullState", "retry") /\ UNCHANGED timedOut
  <2>1. pc[c] = "fullState" /\ pc'[c] = "retry" /\ state' = [state EXCEPT ![slot[c]] = "FREE"]
        /\ UNCHANGED <<data, queue, alive, generation, slot, gen, req, expired, outcome, answer>>
    BY <1>1, <1>13 DEF FreeSlot
  <2>2. "retry" \in Outside
    BY DEF Outside
  <2> QED
    BY <1>0, <1>13, <2>1, <2>2, GiveSound
<1>14. CASE Send(c) /\ UNCHANGED timedOut
  BY <1>9, <1>11, <1>14 DEF Send, Enqueue
<1>15. CASE SendFull(c) /\ UNCHANGED timedOut
  BY <1>12, <1>13, <1>15 DEF SendFull
<1> QED
  BY <1>6, <1>7, <1>8, <1>9, <1>10, <1>11, <1>14, <1>15, AcquireSteady DEF SendStep, TrySend, IntTrySend

\* Waiting for the response and reading it: the slot is not stale and no time is over.
LEMMA WaitSteady ==
  ASSUME SlotTypes, SlotTypes', SteadyInv, NEW c \in Client, UNCHANGED <<clear, timedOut>>,
         WaitStep(c) \/ Interrupted(c) \/ GetWait(c) \/ Remaining(c)
  PROVE  SteadyInv'
<1> USE DEF shared, ids, results
<1> DEFINE s == slot[c]
<1>0. c \in Thread /\ slot[c] \in Slot /\ ClientSound(c) /\ Elsewhere({c})
  BY WaitElsewhere DEF SlotTypes, Thread, SteadyInv
<1>1. \A from, to : Goto(c, from, to) => pc[c] = from /\ pc'[c] = to
  BY <1>0 DEF Goto, SlotTypes, Located
<1>2. ~expired[c] /\ (pc[c] \in Sent => generation[s] = gen[c])
      /\ (pc[c] \in Answered => state[s] = "READY")
      /\ (pc[c] \in {"loadGen", "getGen", "lastGen"} /\ seen[c] = "READY" => state[s] = "READY")
      /\ (pc[c] = "lastGen" => seen[c] = "READY")
      /\ (pc[c] \in {"readOwner", "readState", "unwait"} => outcome[c] = "ok")
  BY <1>0 DEF ClientSound, Identified, Answered
<1>3. /\ {"sent", "spinGen", "spinState", "wait", "load", "loadGen", "ctx", "futex", "sleep", "woken", "read",
          "readOwner", "readState", "getState", "getGen", "lastState", "lastGen", "recheckGen",
          "recheckState", "ready"} \subseteq Sent
      /\ {"sent", "spinGen", "spinState", "wait", "load", "loadGen", "ctx", "futex", "sleep", "woken",
          "getState", "getGen", "recheckGen", "recheckState"} \cap Answered = {}
      /\ Answered = {"read", "readOwner", "readState", "ready", "lastState", "lastGen"}
      /\ {"unwait", "bumpAgain"} \cap Sent = {} /\ Sent \subseteq Identified
  BY DEF Sent, Answered, Identified
<1>4. ASSUME NEW from \in Sent, NEW to \in Sent, Goto(c, from, to),
             UNCHANGED <<state, data, queue, alive, generation, slot, gen, req, expired, outcome, answer>>,
             to \in Answered => state[s] = "READY",
             to \in {"loadGen", "getGen", "lastGen"} => seen'[c] = state[s],
             to \in {"readOwner", "readState"} => outcome[c] = "ok"
      PROVE  SteadyInv'
  BY <1>0, <1>3, <1>4, PlainSound
<1>5. ASSUME NEW from \in Sent, NEW to \in Sent, Branch(c, from, to),
             to \in Answered => state[s] = "READY", to \notin {"loadGen", "getGen", "lastGen"},
             to \notin {"readOwner", "readState"}
      PROVE  SteadyInv'
  BY <1>4, <1>5 DEF Branch
<1>6. ASSUME NEW from \in Sent, NEW to \in Sent, LoadSeen(c, from, to),
             to \in Answered => state[s] = "READY", to \notin {"readOwner", "readState"}
      PROVE  SteadyInv'
  <2>1. seen'[c] = state[s]
    BY <1>0, <1>6 DEF LoadSeen, SlotTypes
  <2> QED
    BY <1>4, <1>6, <2>1 DEF LoadSeen
<1>7. CASE SpinGen(c)
  <2>1. Branch(c, "spinGen", "spinState")
    BY <1>1, <1>2, <1>3, <1>7 DEF SpinGen, Fail
  <2> QED
    BY <1>3, <1>5, <2>1
<1>8. CASE SpinState(c)
  BY <1>3, <1>5, <1>8 DEF SpinState
<1>9. CASE Wait(c) \/ Register(c)
  <2>1. /\ Goto(c, "wait", "load") \/ Goto(c, "wait", "recheckGen")
        /\ UNCHANGED <<state, data, queue, alive, generation, slot, gen, req, expired, outcome, answer>>
    BY <1>9 DEF Wait, Register
  <2> QED
    BY <1>3, <1>4, <2>1
<1>10. CASE LoadState(c)
  BY <1>3, <1>6, <1>10 DEF LoadState, LoadSeen
<1>11. CASE LoadGen(c)
  <2>1. pc[c] = "loadGen"
    BY <1>1, <1>11 DEF LoadGen, Fail, Branch
  <2>2. Branch(c, "loadGen", "ctx") \/ (Branch(c, "loadGen", "read") /\ state[s] = "READY")
    BY <1>2, <1>3, <1>11, <2>1 DEF LoadGen
  <2> QED
    BY <1>3, <1>5, <2>2
<1>12. CASE Ctx(c, "ctx", "futex") \/ Ctx(c, "woken", "load")
  BY <1>2, <1>3, <1>5, <1>12 DEF Ctx
<1>13. CASE FutexWait(c) \/ SleepEnds(c) \/ Interrupted(c)
  BY <1>3, <1>5, <1>13 DEF FutexWait, SleepEnds, Interrupted
<1>14. CASE Read(c)
  <2>1. /\ pc[c] = "read" /\ pc'[c] = "readOwner" /\ outcome'[c] = "ok" /\ answer'[c] = data[s]
        /\ UNCHANGED <<state, data, queue, alive, generation, slot, gen, req, expired, seen>>
    BY <1>0, <1>1, <1>14 DEF Read, SlotTypes, scan
  <2>2. state[s] = "READY" /\ data[s] = req[c]
    BY <1>0, <1>3, <2>1 DEF ClientSound
  <2>3. ClientSound(c)' /\ Keeps(c) /\ Keeps(c)'
    BY <1>0, <1>3, <2>1, <2>2 DEF ClientSound, Keeps, Unsent, Outside, Sent
  <2> QED
    BY <1>0, <1>3, <2>1, <2>3, ClientQuiet
<1>15. CASE Disown(c, "readOwner", "readState")
  <2>1. pc[c] = "readOwner" /\ Goto(c, "readOwner", "readState")
        /\ UNCHANGED <<state, data, queue, alive, generation, slot, gen, req, expired, outcome, answer>>
    BY <1>1, <1>15 DEF Disown
  <2> QED
    BY <1>2, <1>3, <1>4, <2>1
<1>16. CASE FreeSlot(c, "readState", IF waiting[c] THEN "unwait" ELSE "idle")
  <2>1. pc[c] = "readState" /\ pc'[c] \in {"unwait", "idle"} /\ state' = [state EXCEPT ![slot[c]] = "FREE"]
        /\ UNCHANGED <<data, queue, alive, generation, slot, gen, req, expired, outcome, answer>>
    BY <1>1, <1>16 DEF FreeSlot
  <2>2. {"unwait", "idle"} \subseteq Outside
    BY DEF Outside
  <2> QED
    BY <1>0, <2>1, <2>2, GiveSound
<1>17. CASE Unwait(c)
  <2>1. pc[c] = "unwait" /\ outcome[c] = "ok" /\ pc'[c] = "idle"
        /\ UNCHANGED <<state, data, queue, alive, generation, slot, gen, req, expired, outcome, answer>>
    BY <1>1, <1>2, <1>17 DEF Unwait
  <2>2. {"unwait", "idle"} \subseteq Outside /\ expired[c] = FALSE /\ answer[c] = req[c]
    BY <1>0, <1>2, <2>1 DEF Outside, ClientSound, SlotTypes
  <2> QED
    BY <1>0, <2>1, <2>2, RoamSound
<1>18. CASE Deregister(c, "woken", "getState") \/ Deregister(c, "ready", "lastState")
  <2>1. /\ Goto(c, "woken", "getState") \/ (Goto(c, "ready", "lastState") /\ pc[c] = "ready")
        /\ UNCHANGED <<state, data, queue, alive, generation, slot, gen, req, expired, outcome, answer>>
    BY <1>1, <1>18 DEF Deregister
  <2> QED
    BY <1>2, <1>3, <1>4, <2>1
<1>19. CASE Recheck(c)
  <2>1. \/ Branch(c, "recheckGen", "recheckState")
        \/ LoadSeen(c, "recheckState", IF state[slot[c]] = "READY" THEN "ready" ELSE "ctx")
    BY <1>1, <1>2, <1>3, <1>19 DEF Recheck, Fail
  <2> QED
    BY <1>3, <1>5, <1>6, <2>1
<1>20. CASE LoadSeen(c, "load", IF state[slot[c]] = "READY" THEN "lastState" ELSE "wait")
  BY <1>3, <1>6, <1>20
<1>21. CASE Remaining(c)
  BY <1>2, <1>3, <1>5, <1>21 DEF Remaining
<1>22. CASE TryGet(c, "getState", "getGen", Branch(c, "getGen", "load"))
  <2>1. \/ LoadSeen(c, "getState", "getGen") \/ Branch(c, "getGen", "load")
        \/ (Branch(c, "getGen", "read") /\ pc[c] = "getGen" /\ seen[c] = "READY")
    BY <1>1, <1>2, <1>3, <1>22 DEF TryGet, Fail, Branch
  <2> QED
    BY <1>2, <1>3, <1>5, <1>6, <2>1
<1>23. CASE TryGet(c, "lastState", "lastGen", Fail(c, "lastGen", "ctx"))
  <2>1. \/ (LoadSeen(c, "lastState", "lastGen") /\ pc[c] = "lastState")
        \/ (Branch(c, "lastGen", "read") /\ pc[c] = "lastGen")
    BY <1>1, <1>2, <1>3, <1>23 DEF TryGet, Fail, Branch, LoadSeen
  <2> QED
    BY <1>2, <1>3, <1>5, <1>6, <2>1
<1> QED
  BY <1>7, <1>8, <1>9, <1>10, <1>11, <1>12, <1>13, <1>14, <1>15, <1>16, <1>17, <1>18, <1>19, <1>20, <1>21,
     <1>22, <1>23 DEF WaitStep, GetWait, ReadRelease

\* Nobody cancels, and nothing is drained.
LEMMA NoCancel ==
  ASSUME SteadyInv, NEW c \in Client
  PROVE  ~(CancelStep(c) \/ Drain(c) \/ CancelRequest(c) \/ DrainResponse(c))
<1>1. pc[c] \notin {"cancel", "cancelFree", "cancelOwner", "cancelBump", "cancelWaiters", "cancelWake",
                    "drainGen", "drainState", "drainLoad", "drainCheck", "drainOwner", "drainFree"}
  BY DEF SteadyInv, ClientSound, Outside, Unsent, Sent
<1> QED
  BY <1>1 DEF CancelStep, CancelGen, CancelFree, CancelOwner, CancelBump, CancelWaiters, CancelWake,
     CancelRequest, CancelCAS, Drain, DrainResponse, SlotRelease, LoadSeen, Branch, SlotCAS, Disown,
     FreeSlot, Goto

\* Systems without deadlines, failing handlers, kills and calls of reqrep_clear.
Steady ==
  /\ Mortal = {}
  /\ \A w \in Worlds : ~w.expires /\ ~w.fails /\ w.clears = 0

\* The inductive invariant of a steady system.
LEMMA SteadyInvariance == ASSUME Steady PROVE PeerSpec => [](PeerInv /\ SteadyInv)
<1>1. PeerInit => SteadyInv
  <2> SUFFICES ASSUME PeerInit PROVE SteadyInv
    OBVIOUS
  <2>1. \A c \in Client : ClientSound(c)
    BY DEF PeerInit, Init, Thread, ClientSound, Outside, Unsent, Sent, Identified, Answered
  <2>2. \A h \in Handler : HandlerSound(h)
    BY DEF PeerInit, Init, Thread, HandlerSound, Carrying
  <2>3. Len(queue) = 0
    BY DEF PeerInit, Init
  <2>4. 1..Len(queue) = {}
    BY <2>3
  <2>5. OneKeeper /\ Apart
    BY <2>4 DEF PeerInit, Init, OneKeeper, Apart, Keeps, Unsent, Sent, Carrying, Thread
  <2> QED
    BY <2>1, <2>2, <2>4, <2>5 DEF SteadyInv, PeerInit, Init
<1>2. PeerInv /\ PeerInv' /\ SteadyInv /\ [PeerNext]_peerVars => SteadyInv'
  <2> SUFFICES ASSUME PeerInv, PeerInv', SteadyInv, [PeerNext]_peerVars PROVE SteadyInv'
    OBVIOUS
  <2>0. /\ world \in Worlds /\ SlotTypes /\ SlotTypes' /\ timedOut \in [Client -> BOOLEAN] /\ ClearTypes
        /\ ~world.expires /\ ~world.fails /\ world.clears = 0 /\ Mortal = {}
    BY DEF PeerInv, PeerTypes, Steady
  <2>1. ASSUME NEW c \in Client, PeerClientStep(c), UNCHANGED clear PROVE SteadyInv'
    BY <2>0, <2>1, AcquireSteady, SendSteady, WaitSteady, NoCancel
       DEF PeerClientStep, ClientStep, StrRequest, IntRequest, Request
  <2>2. ASSUME NEW c \in Client, Environment(c), UNCHANGED clear PROVE SteadyInv'
    <3>1. timedOut[c] = FALSE
      BY <2>0 DEF SteadyInv, ClientSound
    <3>2. UNCHANGED timedOut
      BY <2>0, <2>2, <3>1 DEF Environment
    <3> QED
      BY <2>0, <2>2, <3>2, SendSteady, WaitSteady DEF Environment
  <2>3. ASSUME NEW h \in Handler, PeerHandlerStep(h), UNCHANGED clear PROVE SteadyInv'
    BY <2>0, <2>3, HandlerSteady DEF PeerHandlerStep, GoCancel
  <2>4. ASSUME NEW p \in Proc PROVE ~Crash(p)
    BY <2>0 DEF Crash
  <2>5. ~Clear
    <3>1. clear.at = "idle" /\ clear.calls \in Nat
      BY <2>0 DEF SteadyInv, ClearTypes
    <3>2. ~(clear.calls < world.clears)
      BY <2>0, <3>1
    <3> QED
      BY <3>1, <3>2 DEF Clear, ClearReset, ClearSlot, ClearGoto
  <2>6. CASE UNCHANGED peerVars
    BY <2>6 DEF peerVars, vars, shared, ids, scan, results, SteadyInv, ClientSound, HandlerSound,
       OnItsWay, OneKeeper, Apart, Keeps
  <2> QED
    BY <2>1, <2>2, <2>3, <2>4, <2>5, <2>6 DEF PeerNext
<1> QED
  BY <1>1, <1>2, PeerInvariance, PTL DEF PeerSpec

\* With no deadline, no failing handler, no kill and no reqrep_clear a query that
\* returns a response returns the response to its own request: whatever Go and C
\* clients share the segment, however many handlers and slots there are, and through
\* every wrap of a generation.  The slot has one keeper (OneKeeper), at most one
\* request on its way names it (Apart), and that request is the keeper's (OnItsWay).
THEOREM OwnAnswer == ASSUME Steady PROVE PeerSpec => []OwnResponse
<1>1. SteadyInv => OwnResponse
  BY DEF SteadyInv, ClientSound, OwnResponse
<1> QED
  BY <1>1, SteadyInvariance, PTL

\* And when nothing is going on every slot is free and counts no waiter.
THEOREM NothingLeaks == ASSUME Steady PROVE PeerSpec => []NoLeak
<1>1. PeerInv /\ SteadyInv => NoLeak
  <2> SUFFICES ASSUME PeerInv, SteadyInv, Quiet, NEW s \in Slot
               PROVE  state[s] = "FREE" /\ waiters[s] = 0
    BY DEF NoLeak
  <2>1. \A c \in Client : pc[c] = "idle"
    BY DEF Quiet, Thread
  <2>2. state[s] = "FREE"
    BY <2>1 DEF SteadyInv, OneKeeper, Keeps, Unsent, Sent
  <2>3. Registered(s) = {}
    BY <2>1 DEF PeerInv, CountInv, Placed, PlacedAt, Registers, MayRegister, Registered
  <2> QED
    BY <2>2, <2>3, FS_EmptySet DEF PeerInv, CountInv, Counted
<1> QED
  BY <1>1, SteadyInvariance, PTL

\* And no id of a Go client has generation 0: nobody else adds to the generation
\* between its two additions.
THEOREM SteadyIdsNonZero == ASSUME Steady PROVE PeerSpec => []NonZeroId
<1>1. SteadyInv => NoLap
  BY SlotAssumption DEF SteadyInv, ClientSound, NoLap
<1> QED
  BY <1>1, SteadyInvariance, IdsNonZero, PTL

\* And no query is told that its slot was taken from it.
THEOREM NobodyStale == ASSUME Steady PROVE PeerSpec => []NeverStale
<1>1. SteadyInv => NeverStale
  BY DEF SteadyInv, ClientSound, NeverStale
<1> QED
  BY <1>1, SteadyInvariance, PTL
=============================================================================
