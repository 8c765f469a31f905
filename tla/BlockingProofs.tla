--------------------------- MODULE BlockingProofs ---------------------------
(***************************************************************************)
(* For any number of senders, receivers and slots, and whichever of them   *)
(* are C threads: the waiters words count the registered threads, and no   *)
(* request of a Go client is left to sleeping receivers.                   *)
(***************************************************************************)
EXTENDS PeerBlocking, FiniteSetTheorems, TLAPS

Registering == {"futex", "sleep", "woken"}

\* A step of one thread that keeps it registered, or unregistered, leaves the
\* registered threads and their counts alone.
LEMMA SameCount ==
  ASSUME TypeOK, NEW t \in Thread, NEW from, NEW to, Goto(t, from, to),
         from \in Registering <=> to \in Registering, waiters' = waiters,
         \A u \in Thread : u # t \/ from \in Registering => word'[u] = word[u]
  PROVE  \A f \in Futex : waiters'[f] = Cardinality(Registered(f)')
<1>1. ASSUME NEW f \in Futex PROVE Registered(f)' = Registered(f)
  BY DEF TypeOK, Goto, Registered, Registering
<1> QED
  BY <1>1 DEF TypeOK

\* Waking a sleeper keeps it registered.
LEMMA WakeCount ==
  ASSUME TypeOK, NEW t \in Thread, NEW f \in Futex, NEW from \in Labels \ Registering,
         NEW done \in Labels \ Registering, WakeOne(t, f, from, done)
  PROVE  TypeOK'
<1>1. ASSUME NEW g \in Futex PROVE Registered(g)' = Registered(g)
  <2>1. \A u \in Thread : pc'[u] \in Registering <=> pc[u] \in Registering
    BY DEF TypeOK, WakeOne, SleepersOn, Registering
  <2>2. word' = word
    BY DEF WakeOne, waits
  <2> QED
    BY <2>1, <2>2 DEF Registered, Registering
<1>2. \A g \in Futex : waiters'[g] = Cardinality(Registered(g)')
  BY <1>1 DEF TypeOK, WakeOne
<1>3. pc' \in [Thread -> Labels]
  <2>1. \/ pc' = [pc EXCEPT ![t] = done]
        \/ \E u \in Thread : pc' = [pc EXCEPT ![t] = done, ![u] = "woken"]
    BY DEF WakeOne, SleepersOn
  <2> QED
    BY <2>1 DEF TypeOK, Labels
<1> QED
  BY <1>2, <1>3 DEF TypeOK, WakeOne, attempt, waits

\* Registering adds the thread to the set, and one to the count, of its word.
LEMMA RegisterCount ==
  ASSUME TypeOK, NEW t \in Thread, Register(t) \/ PeerRegister(t)
  PROVE  TypeOK'
<1>0. PICK w \in Futex : w = word[t]
  BY DEF TypeOK
<1>1. PICK from \in {"register", "deadline"} : Goto(t, from, "futex")
  BY DEF Register, PeerRegister
<1>2. word' = word /\ waiters' = [waiters EXCEPT ![w] = @ + 1]
  BY <1>0 DEF Register, PeerRegister, waits
<1>3. Registered(w)' = Registered(w) \cup {t} /\ t \notin Registered(w)
  BY <1>0, <1>1, <1>2 DEF TypeOK, Goto, Registered
<1>4. \A g \in Futex \ {w} : Registered(g)' = Registered(g)
  BY <1>0, <1>1, <1>2 DEF TypeOK, Goto, Registered
<1>5. IsFiniteSet(Thread)
  BY BlockingAssumption, FS_Union DEF Thread
<1>6. IsFiniteSet(Registered(w))
  BY <1>5, FS_Subset DEF Registered
<1>7. Cardinality(Registered(w)') = Cardinality(Registered(w)) + 1
  BY <1>3, <1>6, FS_AddElement
<1>8. Cardinality(Registered(w)) \in Nat
  BY <1>6, FS_CardinalityType
<1>9. waiters' \in [Futex -> Nat] /\ \A g \in Futex : waiters'[g] = Cardinality(Registered(g)')
  BY <1>2, <1>4, <1>7, <1>8 DEF TypeOK
<1>10. pc' \in [Thread -> Labels]
  BY <1>1 DEF TypeOK, Goto, Labels
<1> QED
  BY <1>9, <1>10 DEF TypeOK, Register, PeerRegister, attempt, waits

\* Deregistering takes the thread, and one of the count, away again.
LEMMA DeregisterCount ==
  ASSUME TypeOK, NEW t \in Thread, NEW from \in Registering, NEW to \in Labels \ Registering,
         Goto(t, from, to), Leave(t)
  PROVE  /\ waiters' \in [Futex -> Nat] /\ pc' \in [Thread -> Labels]
         /\ word' \in [Thread -> Futex] /\ current' \subseteq Thread
         /\ \A g \in Futex : waiters'[g] = Cardinality(Registered(g)')
<1> USE DEF Registering
<1>0. PICK w \in Futex : w = word[t]
  BY DEF TypeOK
<1>1. Registered(w)' = Registered(w) \ {t} /\ t \in Registered(w)
  BY <1>0 DEF TypeOK, Leave, Goto, Registered
<1>2. \A g \in Futex \ {w} : Registered(g)' = Registered(g)
  BY <1>0 DEF TypeOK, Leave, Goto, Registered
<1>3. IsFiniteSet(Thread)
  BY BlockingAssumption, FS_Union DEF Thread
<1>4. IsFiniteSet(Registered(w)) /\ IsFiniteSet(Registered(w)')
  BY <1>1, <1>3, FS_Subset DEF Registered
<1>5. Cardinality(Registered(w)') = Cardinality(Registered(w)) - 1
  BY <1>1, <1>4, FS_RemoveElement
<1>6. Cardinality(Registered(w)) \in Nat /\ Cardinality(Registered(w)') \in Nat
  BY <1>4, FS_CardinalityType
<1>7. \A g \in Futex : waiters'[g] = Cardinality(Registered(g)')
  BY <1>0, <1>2, <1>5, <1>6 DEF TypeOK, Leave
<1>8. waiters' \in [Futex -> Nat]
  BY <1>0, <1>5, <1>6 DEF TypeOK, Leave
<1> QED
  BY <1>7, <1>8 DEF TypeOK, Leave, Goto, FirstWord, Futex

\* Bumping a counter, and looking at the waiters, keep the types.
LEMMA LookTypes ==
  ASSUME TypeOK, NEW t \in Thread, NEW f \in Futex, NEW from \in Labels \ Registering,
         NEW to \in Labels \ Registering, NEW done \in Labels \ Registering,
         Bump(t, f, from, to) \/ Look(t, f, from, to, done)
  PROVE  TypeOK'
<1>1. PICK next \in {to, done} : Goto(t, from, next)
  BY DEF Bump, Look
<1>2. waiters' = waiters /\ word' = word
  BY DEF Bump, Look, waits
<1>3. \A g \in Futex : waiters'[g] = Cardinality(Registered(g)')
  BY <1>1, <1>2, SameCount
<1>4. pc' \in [Thread -> Labels] /\ current' \subseteq Thread
  BY <1>1 DEF Goto, TypeOK, Bump, Look, waits
<1> QED
  BY <1>2, <1>3, <1>4 DEF Bump, Look, TypeOK, attempt

\* Where Resume leads.
LEMMA ResumeType ==
  ASSUME NEW t PROVE Resume(t) \in {"idle", "deadline", "load"}
  BY DEF Resume

\* The steps of a query keep the types.
LEMMA SenderTypes ==
  ASSUME TypeOK, NEW c \in Sender,
         \/ Query(c) \/ Cancel(c) \/ SenderStep(c)
         \/ reqrep_wake_consumers(c) \/ reqrep_wake_slot_waiters(c)
  PROVE  TypeOK'
<1> c \in Thread
  BY DEF Thread
<1> USE DEF Registering
<1>1. CASE Query(c)
  <2>1. \A f \in Futex : waiters'[f] = Cardinality(Registered(f)')
    BY <1>1, SameCount DEF Query, waits
  <2> QED
    BY <1>1, <2>1 DEF Query, Goto, TypeOK, Labels, waits
<1>2. CASE Scan(c)
  <2>1. \A f \in Futex : waiters'[f] = Cardinality(Registered(f)')
    <3>1. CASE UNCHANGED pc
      BY <1>2, <3>1 DEF Scan, TypeOK, Registered, waits
    <3>2. CASE Goto(c, "scan", "send")
      BY <1>2, <3>2, SameCount DEF Scan, waits
    <3> QED
      BY <1>2, <3>1, <3>2 DEF Scan
  <2>2. taken' \subseteq Slot /\ mine' \in [Sender -> Slot]
    <3>1. PICK s \in todo[c] :
            \/ taken' = taken \cup {s} /\ mine' = [mine EXCEPT ![c] = s]
            \/ taken' = taken /\ mine' = mine
      BY <1>2 DEF Scan
    <3>2. s \in Slot
      BY <3>1 DEF TypeOK
    <3> QED
      BY <3>1, <3>2 DEF TypeOK
  <2>3. todo' \in [Sender -> SUBSET Slot] /\ pc' \in [Thread -> Labels]
    BY <1>2 DEF Scan, Goto, TypeOK, Labels
  <2> QED
    BY <1>2, <2>1, <2>2, <2>3 DEF Scan, TypeOK, waits
<1>3. CASE ScanFailed(c)
  <2>1. \A f \in Futex : waiters'[f] = Cardinality(Registered(f)')
    BY <1>3, SameCount, ResumeType DEF ScanFailed, waits
  <2> QED
    BY <1>3, <2>1, ResumeType DEF ScanFailed, Goto, TypeOK, Labels, waits
<1>4. CASE Send(c)
  <2>1. \A f \in Futex : waiters'[f] = Cardinality(Registered(f)')
    BY <1>4, SameCount DEF Send, waits
  <2>2. queue' \in Seq(Sender \X Nat) /\ Len(queue') <= QueueCap
    BY <1>4, BlockingAssumption DEF Send, TypeOK
  <2> QED
    BY <1>4, <2>1, <2>2 DEF Send, Goto, TypeOK, Labels, waits, attempt
<1>5. CASE SendFull(c)
  <2>1. \A f \in Futex : waiters'[f] = Cardinality(Registered(f)')
    BY <1>5, SameCount DEF SendFull, waits
  <2> QED
    BY <1>5, <2>1 DEF SendFull, Goto, TypeOK, Labels, waits
<1>6. CASE EndQuery(c)
  <2>1. \A f \in Futex : waiters'[f] = Cardinality(Registered(f)')
    BY <1>6, SameCount DEF EndQuery, waits
  <2> QED
    BY <1>6, <2>1 DEF EndQuery, Goto, TypeOK, Labels, waits, attempt
<1>7. {"sentBump", "sentLook", "sentWake", "freeBump", "freeLook", "freeWake", "await", "idle",
       "deadline", "load"} \subseteq Labels \ Registering
  BY DEF Labels
<1>8. Resume(c) \in Labels \ Registering
  BY <1>7, ResumeType
<1>9. CASE wakeConsumers(c) \/ reqrep_wake_consumers(c)
  BY <1>7, <1>9, LookTypes, WakeCount DEF wakeConsumers, reqrep_wake_consumers, Futex
<1>10. CASE wakeSlotWaiters(c) \/ reqrep_wake_slot_waiters(c)
  BY <1>7, <1>8, <1>10, LookTypes, WakeCount DEF wakeSlotWaiters, reqrep_wake_slot_waiters, Futex
<1> QED
  BY <1>1, <1>2, <1>3, <1>4, <1>5, <1>6, <1>9, <1>10 DEF Cancel, SenderStep, Answered

\* The steps of tryRecv keep the types.
LEMMA ReceiverTypes ==
  ASSUME TypeOK, NEW r \in Receiver, ReceiverStep(r) \/ reqrep_try_recv(r)
  PROVE  TypeOK'
<1> r \in Thread
  BY DEF Thread
<1> USE DEF Registering
<1>1. CASE Recv(r)
  <2>1. \A f \in Futex : waiters'[f] = Cardinality(Registered(f)')
    BY <1>1, SameCount DEF Recv, waits
  <2>2. queue' \in Seq(Sender \X Nat) /\ Len(queue') <= QueueCap
    BY <1>1, BlockingAssumption DEF Recv, TypeOK
  <2> QED
    BY <1>1, <2>1, <2>2 DEF Recv, Goto, TypeOK, Labels, waits, attempt
<1>2. CASE RecvEmpty(r)
  <2>1. \A f \in Futex : waiters'[f] = Cardinality(Registered(f)')
    BY <1>2, SameCount, ResumeType DEF RecvEmpty, waits
  <2> QED
    BY <1>2, <2>1, ResumeType DEF RecvEmpty, Goto, TypeOK, Labels, waits, attempt
<1>3. {"gotBump", "gotLook", "gotWake", "recv"} \subseteq Labels \ Registering
  BY DEF Labels
<1>4. CASE wakeProducers(r) \/ reqrep_wake_producers(r)
  BY <1>3, <1>4, LookTypes, WakeCount DEF wakeProducers, reqrep_wake_producers, Futex
<1> QED
  BY <1>1, <1>2, <1>4 DEF ReceiverStep, reqrep_try_recv

\* The wait loop keeps the types.
LEMMA WaitTypes ==
  ASSUME TypeOK, NEW t \in Thread, WaitLoop(t) \/ SleepEnds(t) \/ Expire(t)
  PROVE  TypeOK'
<1> USE DEF Registering
<1>1. CASE LoadSeq(t)
  <2>1. \A f \in Futex : waiters'[f] = Cardinality(Registered(f)')
    <3>1. Goto(t, "load", IF t \in Sender THEN "scan" ELSE "recv") /\ waiters' = waiters
      BY <1>1 DEF LoadSeq, Retry
    <3>2. \A u \in Thread : u # t => word'[u] = word[u]
      BY <1>1 DEF LoadSeq, TypeOK
    <3> QED
      BY <3>1, <3>2, SameCount
  <2> QED
    BY <1>1, <2>1 DEF LoadSeq, Retry, Goto, TypeOK, Labels, Futex
<1>2. CASE Deadline(t)
  <2>1. \A f \in Futex : waiters'[f] = Cardinality(Registered(f)')
    BY <1>2, SameCount DEF Deadline, Ended, waits
  <2> QED
    BY <1>2, <2>1 DEF Deadline, Ended, Goto, TypeOK, Labels, waits, attempt
<1>3. CASE FutexWait(t) \/ SleepEnds(t)
  <2>1. \A f \in Futex : waiters'[f] = Cardinality(Registered(f)')
    BY <1>3, SameCount DEF FutexWait, SleepEnds, waits
  <2> QED
    BY <1>3, <2>1 DEF FutexWait, SleepEnds, Goto, TypeOK, Labels, waits, attempt
<1>4. CASE Context(t)
  <2>1. \A f \in Futex : waiters'[f] = Cardinality(Registered(f)')
    BY <1>4, SameCount DEF Context, Retry, Ended, waits
  <2> QED
    <3>1. CASE t \in expired
      BY <1>4, <2>1, <3>1 DEF Context, Ended, Goto, TypeOK, Labels, waits, attempt
    <3>2. CASE t \notin expired
      <4>0. Retry(t, "context", "third")
        BY <1>4, <3>2 DEF Context
      <4>1. todo' \in [Sender -> SUBSET Slot]
        BY <4>0 DEF Retry, TypeOK
      <4>2. pc' \in [Thread -> Labels]
        BY <4>0 DEF Retry, Goto, TypeOK, Labels
      <4>3. site' \in [Thread -> {"first", "second", "third", "last", "done"}]
        BY <4>0 DEF Retry, TypeOK
      <4>4. UNCHANGED <<taken, queue, waiters, queries, mine, noSlots, word, current, expired>>
        BY <1>4, <3>2 DEF Context, waits
      <4> QED
        BY <2>1, <4>1, <4>2, <4>3, <4>4 DEF TypeOK
    <3> QED
      BY <3>1, <3>2
<1>5. CASE Expire(t)
  BY <1>5 DEF Expire, TypeOK, Registered, waits, attempt
<1>6. CASE Deregister(t)
  <2>1. Goto(t, "woken", "context") /\ Leave(t) /\ "context" \in Labels \ Registering
    BY <1>6 DEF Deregister, Leave, Labels
  <2> QED
    BY <1>6, <2>1, DeregisterCount DEF Deregister, TypeOK, attempt
<1> QED
  BY <1>1, <1>2, <1>3, <1>4, <1>5, <1>6, RegisterCount DEF WaitLoop

\* So does the wait loop of a C thread.
LEMMA PeerWaitTypes ==
  ASSUME TypeOK, NEW t \in Thread, PeerWaitLoop(t)
  PROVE  TypeOK'
<1> USE DEF Registering
<1>1. CASE PeerLoad(t)
  <2>1. CASE LoadSeq(t)
    BY <2>1, WaitTypes DEF WaitLoop
  <2>2. CASE ~LoadSeq(t)
    <3>1. Goto(t, "load", Ended(t)) /\ UNCHANGED <<taken, queue, waiters, attempt, site, waits, expired>>
      BY <1>1, <2>2 DEF PeerLoad
    <3>2. \A f \in Futex : waiters'[f] = Cardinality(Registered(f)')
      BY <3>1, SameCount DEF Ended, waits
    <3> QED
      BY <3>1, <3>2 DEF Ended, Goto, TypeOK, Labels, waits, attempt
  <2> QED
    BY <2>1, <2>2
<1>2. CASE PeerWait(t)
  <2>1. CASE FutexWait(t)
    BY <2>1, WaitTypes DEF WaitLoop
  <2>2. CASE ~FutexWait(t)
    <3>1. /\ Goto(t, "futex", Ended(t)) /\ Leave(t) /\ Ended(t) \in Labels \ Registering
          /\ UNCHANGED <<taken, queue, attempt, site, expired>>
      BY <1>2, <2>2 DEF PeerWait, Ended, Labels
    <3> QED
      BY <3>1, DeregisterCount DEF TypeOK, attempt
  <2> QED
    BY <2>1, <2>2
<1>3. CASE PeerTimeout(t)
  <2>1. \A f \in Futex : waiters'[f] = Cardinality(Registered(f)')
    BY <1>3, SameCount DEF PeerTimeout, waits
  <2> QED
    BY <1>3, <2>1 DEF PeerTimeout, Goto, TypeOK, Labels, waits, attempt
<1>4. CASE PeerDeregister(t)
  <2>1. PICK to \in {"scan", "recv"} : Goto(t, "woken", to)
    BY <1>4 DEF PeerDeregister, Retry
  <2>2. Leave(t) /\ to \in Labels \ Registering
    BY <1>4 DEF PeerDeregister, Labels
  <2>3. /\ site' \in [Thread -> {"first", "second", "third", "last", "done"}]
        /\ todo' \in [Sender -> SUBSET Slot]
    BY <1>4 DEF PeerDeregister, Retry, TypeOK
  <2> QED
    BY <1>4, <2>1, <2>2, <2>3, DeregisterCount DEF PeerDeregister, TypeOK
<1> QED
  BY <1>1, <1>2, <1>3, <1>4, RegisterCount DEF PeerWaitLoop

\* A fresh segment has no waiters.
LEMMA TypeInit == Init => TypeOK
<1> SUFFICES ASSUME Init PROVE TypeOK
  OBVIOUS
<1>1. \A f \in Futex : Registered(f) = {}
  BY DEF Init, Registered
<1>2. \A f \in Futex : Cardinality(Registered(f)) = 0
  BY <1>1, FS_EmptySet
<1> QED
  BY <1>2, BlockingAssumption DEF Init, TypeOK, Labels, Futex, FirstWord

\* Every step, of either implementation, keeps the types.
LEMMA TypeStep == peers \subseteq Thread /\ TypeOK /\ [PeerNext]_peerVars => TypeOK'
<1> SUFFICES ASSUME peers \subseteq Thread, TypeOK, [PeerNext]_peerVars PROVE TypeOK'
  OBVIOUS
<1>1. CASE UNCHANGED vars
  BY <1>1 DEF vars, TypeOK, Registered
<1>2. ASSUME NEW t \in Thread, Run(t) \/ SleepEnds(t) \/ Expire(t) PROVE TypeOK'
  BY <1>2, SenderTypes, ReceiverTypes, WaitTypes DEF Run
<1>3. ASSUME NEW c \in Sender, Query(c) \/ Cancel(c) PROVE TypeOK'
  BY <1>3, SenderTypes
<1>4. ASSUME NEW t \in Thread, PeerRun(t) PROVE TypeOK'
  BY <1>4, SenderTypes, ReceiverTypes, PeerWaitTypes
     DEF PeerRun, reqrep_send_wait, reqrep_recv_wait, SenderStep
<1>5. ASSUME NEW t \in peers, PeerInterrupted(t) PROVE t \in Thread /\ SleepEnds(t)
  BY <1>5 DEF PeerInterrupted
<1> QED
  BY <1>1, <1>2, <1>3, <1>4, <1>5 DEF PeerNext, Advance, peerVars

\* Each of send_waiters, slot_waiters and recv_waiters counts exactly the threads,
\* Go or C, between registration and deregistration, and the queue keeps its bound.
THEOREM TypeCorrect == PeerSpec => []TypeOK
<1>1. PeerInit => peers \subseteq Thread /\ TypeOK
  BY TypeInit, PeerBlockingAssumption DEF PeerInit
<1>2. peers \subseteq Thread /\ [PeerNext]_peerVars => (peers \subseteq Thread)'
  BY DEF PeerNext, Advance, peerVars
<1> QED
  BY <1>1, <1>2, TypeStep, PTL DEF PeerSpec

----------------------------------------------------------------------------

Waking == {"sentBump", "sentLook", "sentWake"}

\* A receiver about to sleep on a counter value that is still current has found
\* the queue empty, and what came into it since is about to be announced.
NoneOverlooked ==
  \A r \in Receiver :
    r \in current /\ pc[r] \in {"deadline", "register", "futex"} =>
      queue = <<>> \/ \E c \in Sender : pc[c] = "sentBump"

\* Receivers and only receivers use recv_futex; they stop only at the end of
\* their context, or deadline.
ReceiversOnly ==
  /\ \A t \in Thread : word[t] = "recv" <=> t \in Receiver
  /\ \A r \in Receiver : pc[r] = "stopped" \/ site[r] = "last" => r \in expired

\* A C client may leave a request unannounced; a Go client does not.
NoticeInv ==
  /\ peers \subseteq Thread /\ TypeOK /\ ReceiversOnly
  /\ peers \cap Sender = {} => NoneOverlooked /\ RequestNoticed

\* A sleeping receiver is counted in recv_waiters.
LEMMA SleeperCounted ==
  ASSUME TypeOK, ReceiversOnly, NEW r \in Receiver, pc[r] = "sleep"
  PROVE  waiters["recv"] > 0
<1>1. r \in Registered("recv")
  BY DEF Registered, ReceiversOnly, Thread
<1>2. IsFiniteSet(Registered("recv"))
  BY BlockingAssumption, FS_Union, FS_Subset DEF Registered, Thread
<1>3. Cardinality(Registered("recv")) # 0 /\ Cardinality(Registered("recv")) \in Nat
  BY <1>1, <1>2, FS_EmptySet, FS_CardinalityType
<1> QED
  BY <1>3 DEF TypeOK, Futex

\* What the lemmas below distinguish: steps of a sender, wakeups by a C client, steps
\* of a receiver, and steps of a wait loop.
SenderMoves(c) == Query(c) \/ Cancel(c) \/ SenderStep(c)
PeerWakes(c) == reqrep_wake_consumers(c) \/ reqrep_wake_slot_waiters(c)
ReceiverMoves(r) == ReceiverStep(r) \/ reqrep_wake_producers(r)
Waits(t) == WaitLoop(t) \/ SleepEnds(t) \/ Expire(t) \/ PeerWaitLoop(t)

\* Every step is one of these.
LEMMA Moves ==
  ASSUME peers \subseteq Thread, PeerNext
  PROVE  /\ peers' = peers
         /\ \/ \E c \in Sender : SenderMoves(c) \/ (c \in peers /\ PeerWakes(c))
            \/ \E r \in Receiver : ReceiverMoves(r)
            \/ \E t \in Thread : Waits(t)
  BY DEF PeerNext, Advance, Run, PeerRun, reqrep_send_wait, reqrep_recv_wait, reqrep_try_recv,
         SenderStep, ReceiverStep, PeerInterrupted, SenderMoves, PeerWakes, ReceiverMoves, Waits, Thread

\* Every step keeps receivers on recv_futex.
LEMMA ReceiversStep ==
  ASSUME peers \subseteq Thread, TypeOK, ReceiversOnly, PeerNext
  PROVE  ReceiversOnly'
<1> USE BlockingAssumption DEF Thread
<1>1. ASSUME NEW c \in Sender, SenderMoves(c) \/ PeerWakes(c) PROVE ReceiversOnly'
  <2>1. \A r \in Receiver : pc'[r] = pc[r] \/ pc'[r] = "woken"
    BY <1>1 DEF SenderMoves, PeerWakes, reqrep_wake_consumers, reqrep_wake_slot_waiters,
         Query, Cancel, EndQuery, SenderStep, Scan, ScanFailed, Send, SendFull, Answered,
         wakeConsumers, wakeSlotWaiters, Bump, Look, WakeOne, SleepersOn, Goto, TypeOK
  <2>2. word' = word /\ \A r \in Receiver : site'[r] = site[r] /\ (r \in expired => r \in expired')
    BY <1>1 DEF SenderMoves, PeerWakes, reqrep_wake_consumers, reqrep_wake_slot_waiters,
         Query, Cancel, EndQuery, SenderStep, Scan, ScanFailed, Send, SendFull, Answered,
         wakeConsumers, wakeSlotWaiters, Bump, Look, WakeOne, waits, TypeOK
  <2> QED
    BY <2>1, <2>2 DEF ReceiversOnly
<1>2. ASSUME NEW r \in Receiver, ReceiverMoves(r) PROVE ReceiversOnly'
  <2>1. \A q \in Receiver : pc'[q] = "stopped" => pc[q] = "stopped"
    BY <1>2, ResumeType DEF ReceiverMoves, reqrep_wake_producers, ReceiverStep, Recv, RecvEmpty,
         wakeProducers, Bump, Look, WakeOne, SleepersOn, Goto, TypeOK
  <2>2. /\ word' = word /\ expired' = expired
        /\ \A q \in Receiver : site'[q] = "last" => site[q] = "last"
    BY <1>2 DEF ReceiverMoves, reqrep_wake_producers, ReceiverStep, Recv, RecvEmpty,
         wakeProducers, Bump, Look, WakeOne, waits, TypeOK
  <2> QED
    BY <2>1, <2>2 DEF ReceiversOnly
<1>3. ASSUME NEW t \in Thread, Waits(t) PROVE ReceiversOnly'
  <2> USE DEF Waits, WaitLoop, SleepEnds, Expire, LoadSeq, Deadline, Register, FutexWait, Deregister,
              Context, PeerWaitLoop, PeerLoad, PeerRegister, PeerWait, PeerTimeout, PeerDeregister,
              reqrep_remaining_time
  <2>1. \A u \in Thread : word'[u] = "recv" <=> u \in Receiver
    BY <1>3 DEF Leave, FirstWord, ReceiversOnly, TypeOK, waits
  <2>2. expired \subseteq expired'
    BY <1>3
  <2>3. \A r \in Receiver : site'[r] = "last" => site[r] = "last" \/ r \in expired
    BY <1>3 DEF Retry, TypeOK
  <2>4. \A r \in Receiver : pc'[r] = "stopped" =>
          pc[r] = "stopped" \/ r \in expired \/ site[r] = "last"
    BY <1>3 DEF Retry, Ended, Goto, TypeOK
  <2> QED
    BY <2>1, <2>2, <2>3, <2>4 DEF ReceiversOnly
<1> QED
  BY <1>1, <1>2, <1>3, Moves

\* Every step keeps what a receiver about to sleep has to rely on.
LEMMA OverlookedStep ==
  ASSUME peers \subseteq Thread, peers \cap Sender = {}, TypeOK, ReceiversOnly, NoneOverlooked, PeerNext
  PROVE  NoneOverlooked'
<1> USE BlockingAssumption DEF Thread
<1>1. ASSUME NEW c \in Sender, Query(c) \/ Scan(c) \/ ScanFailed(c) \/ SendFull(c) \/ EndQuery(c)
      PROVE  NoneOverlooked'
  <2>1. pc[c] # "sentBump" /\ \A t \in Thread \ {c} : pc'[t] = pc[t]
    BY <1>1 DEF Query, Scan, ScanFailed, SendFull, EndQuery, Goto, TypeOK
  <2>2. current' = current /\ queue' = queue
    BY <1>1 DEF Query, Scan, ScanFailed, SendFull, EndQuery, waits
  <2> QED
    BY <2>1, <2>2 DEF NoneOverlooked
<1>2. ASSUME NEW c \in Sender, Send(c) PROVE NoneOverlooked'
  BY <1>2 DEF Send, Goto, NoneOverlooked, TypeOK
<1>3. ASSUME NEW c \in Sender, wakeConsumers(c) PROVE NoneOverlooked'
  <2>1. CASE Bump(c, "recv", "sentBump", "sentLook")
    BY <2>1 DEF Bump, NoneOverlooked, ReceiversOnly
  <2>2. CASE Look(c, "recv", "sentLook", "sentWake", "await") \/ WakeOne(c, "recv", "sentWake", "await")
    <3>1. pc[c] # "sentBump"
          /\ \A t \in Thread \ {c} : pc'[t] = pc[t] \/ (pc[t] = "sleep" /\ pc'[t] = "woken")
      BY <2>2 DEF Look, WakeOne, SleepersOn, Goto, TypeOK
    <3>2. current' = current /\ queue' = queue
      BY <2>2 DEF Look, WakeOne, waits
    <3> QED
      BY <3>1, <3>2 DEF NoneOverlooked
  <2> QED
    BY <1>3, <2>1, <2>2 DEF wakeConsumers
<1>4. ASSUME NEW c \in Sender, wakeSlotWaiters(c) PROVE NoneOverlooked'
  <2>1. pc[c] # "sentBump"
        /\ \A t \in Thread \ {c} : pc'[t] = pc[t] \/ (pc[t] = "sleep" /\ pc'[t] = "woken")
    BY <1>4 DEF wakeSlotWaiters, Bump, Look, WakeOne, SleepersOn, Goto, TypeOK
  <2>2. current' \subseteq current /\ queue' = queue
    BY <1>4 DEF wakeSlotWaiters, Bump, Look, WakeOne, waits
  <2> QED
    BY <2>1, <2>2 DEF NoneOverlooked
<1>5. ASSUME NEW r \in Receiver, Recv(r) PROVE NoneOverlooked'
  <2>1. queue # <<>> /\ current' = current
        /\ pc'[r] = "gotBump" /\ \A t \in Thread \ {r} : pc'[t] = pc[t]
    BY <1>5 DEF Recv, Goto, TypeOK, waits
  <2> QED
    BY <2>1 DEF NoneOverlooked
<1>6. ASSUME NEW r \in Receiver, RecvEmpty(r) PROVE NoneOverlooked'
  BY <1>6 DEF RecvEmpty, NoneOverlooked
<1>7. ASSUME NEW r \in Receiver, wakeProducers(r) \/ reqrep_wake_producers(r) PROVE NoneOverlooked'
  <2>1. pc'[r] \in {"gotLook", "gotWake", "recv"} /\ r \notin Sender
        /\ \A t \in Thread \ {r} : pc'[t] = pc[t] \/ (pc[t] = "sleep" /\ pc'[t] = "woken")
    BY <1>7 DEF wakeProducers, reqrep_wake_producers, Bump, Look, WakeOne, SleepersOn, Goto, TypeOK
  <2>2. current' \subseteq current /\ queue' = queue
    BY <1>7 DEF wakeProducers, reqrep_wake_producers, Bump, Look, WakeOne, waits
  <2> QED
    BY <2>1, <2>2 DEF NoneOverlooked
<1>8. ASSUME NEW t \in Thread, Waits(t) PROVE NoneOverlooked'
  <2> USE DEF Waits, WaitLoop, SleepEnds, Expire, LoadSeq, Deadline, Register, FutexWait, Deregister,
              Context, PeerWaitLoop, PeerLoad, PeerRegister, PeerWait, PeerTimeout, PeerDeregister
  <2>1. \A u \in Thread \ {t} : pc'[u] = pc[u] /\ (u \in current' <=> u \in current)
    BY <1>8 DEF Leave, Retry, Goto, TypeOK, waits
  <2>2. t \in current' /\ pc'[t] \in {"deadline", "register", "futex"} =>
          t \in current /\ pc[t] \in {"deadline", "register", "futex"}
    BY <1>8 DEF Leave, Retry, Ended, Goto, TypeOK, waits
  <2>3. queue' = queue /\ (pc[t] = "sentBump" => pc'[t] = "sentBump")
    BY <1>8 DEF Retry, Goto
  <2> QED
    BY <2>1, <2>2, <2>3 DEF NoneOverlooked
<1>9. ASSUME NEW c \in Sender, SenderMoves(c) PROVE NoneOverlooked'
  BY <1>1, <1>2, <1>3, <1>4, <1>9 DEF SenderMoves, SenderStep, Cancel, Answered
<1>10. ASSUME NEW r \in Receiver, ReceiverMoves(r) PROVE NoneOverlooked'
  BY <1>5, <1>6, <1>7, <1>10 DEF ReceiverMoves, ReceiverStep
<1> QED
  BY <1>8, <1>9, <1>10, Moves

\* Every step keeps a waking sender or a receiver awake beside a request.
LEMMA NoticeStep ==
  ASSUME peers \subseteq Thread, peers \cap Sender = {}, TypeOK, ReceiversOnly, ReceiversOnly',
         NoneOverlooked, RequestNoticed, PeerNext
  PROVE  RequestNoticed'
<1> USE BlockingAssumption DEF Thread
<1> DEFINE Awake == \E r \in Receiver : pc[r] \notin {"sleep", "stopped"}
<1>0. SUFFICES ASSUME queue' # <<>>, Receiver \cap expired' = {}, Receiver # {}
               PROVE  Awake' \/ \E c \in Sender : pc'[c] \in Waking
  BY DEF RequestNoticed, Waking
<1>1. \A r \in Receiver : pc'[r] # "stopped"
  BY <1>0 DEF ReceiversOnly
<1>2. ASSUME NEW c \in Sender, Query(c) \/ Scan(c) \/ ScanFailed(c) \/ SendFull(c) \/ EndQuery(c)
             \/ wakeSlotWaiters(c)
      PROVE  Awake' \/ \E d \in Sender : pc'[d] \in Waking
  <2>1. pc[c] \notin Waking
        /\ \A t \in Thread \ {c} : pc'[t] = pc[t] \/ (pc[t] = "sleep" /\ pc'[t] = "woken")
    BY <1>2 DEF Query, Scan, ScanFailed, SendFull, EndQuery, wakeSlotWaiters, Bump, Look, WakeOne,
         SleepersOn, Goto, TypeOK, Waking
  <2>2. queue' = queue /\ Receiver \cap expired = {}
    BY <1>0, <1>2 DEF Query, Scan, ScanFailed, SendFull, EndQuery, wakeSlotWaiters, Bump, Look, WakeOne
  <2> QED
    BY <1>0, <2>1, <2>2 DEF RequestNoticed, Waking
<1>3. ASSUME NEW c \in Sender, Send(c) PROVE \E d \in Sender : pc'[d] \in Waking
  BY <1>3 DEF Send, Goto, TypeOK, Waking
<1>4. ASSUME NEW c \in Sender, wakeConsumers(c)
      PROVE  Awake' \/ \E d \in Sender : pc'[d] \in Waking
  <2>1. CASE Bump(c, "recv", "sentBump", "sentLook")
    BY <2>1 DEF Bump, Goto, TypeOK, Waking
  <2>2. CASE Look(c, "recv", "sentLook", "sentWake", "await")
    <3>1. CASE waiters["recv"] > 0
      BY <2>2, <3>1 DEF Look, Goto, TypeOK, Waking
    <3>2. CASE ~(waiters["recv"] > 0)
      <4>1. \A r \in Receiver : pc[r] # "sleep"
        BY <3>2, SleeperCounted
      <4>2. \A r \in Receiver : pc'[r] = pc[r]
        BY <2>2 DEF Look, Goto, TypeOK
      <4> QED
        BY <1>0, <1>1, <4>1, <4>2
    <3> QED
      BY <3>1, <3>2
  <2>3. CASE WakeOne(c, "recv", "sentWake", "await")
    <3>1. CASE SleepersOn("recv") = {}
      <4>1. \A r \in Receiver : pc[r] # "sleep"
        BY <3>1 DEF SleepersOn, ReceiversOnly
      <4>2. \A r \in Receiver : pc'[r] = pc[r]
        BY <2>3, <3>1 DEF WakeOne, TypeOK
      <4> QED
        BY <1>0, <1>1, <4>1, <4>2
    <3>2. CASE SleepersOn("recv") # {}
      <4>1. PICK u \in SleepersOn("recv") : pc' = [pc EXCEPT ![c] = "await", ![u] = "woken"]
        BY <2>3, <3>2 DEF WakeOne
      <4>2. u \in Receiver /\ pc'[u] = "woken"
        BY <4>1 DEF SleepersOn, ReceiversOnly, TypeOK
      <4> QED
        BY <4>2
    <3> QED
      BY <3>1, <3>2
  <2> QED
    BY <1>4, <2>1, <2>2, <2>3 DEF wakeConsumers
<1>5. ASSUME NEW r \in Receiver, ReceiverMoves(r) PROVE Awake'
  <2>1. pc'[r] \in {"gotBump", "gotLook", "gotWake", "recv", "idle", "deadline", "load"}
    BY <1>5, ResumeType DEF ReceiverMoves, reqrep_wake_producers, ReceiverStep, Recv, RecvEmpty,
         wakeProducers, Bump, Look, WakeOne, SleepersOn, Goto, TypeOK
  <2> QED
    BY <2>1
<1>6. ASSUME NEW t \in Thread, FutexWait(t)
      PROVE  Awake' \/ \E d \in Sender : pc'[d] \in Waking
  <2>1. queue' = queue /\ Receiver \cap expired = {} /\ pc[t] = "futex"
        /\ \A u \in Thread \ {t} : pc'[u] = pc[u]
    BY <1>0, <1>6 DEF FutexWait, Goto, TypeOK
  <2>2. CASE t \in current /\ t \in Receiver
    <3>1. PICK c \in Sender : pc[c] = "sentBump"
      BY <1>0, <2>1, <2>2 DEF NoneOverlooked
    <3>2. pc'[c] = "sentBump"
      BY <2>1, <3>1
    <3> QED
      BY <3>2 DEF Waking
  <2>3. CASE t \notin current /\ t \in Receiver
    BY <1>6, <2>3 DEF FutexWait, Goto, TypeOK
  <2>4. CASE t \in Sender
    BY <1>0, <2>1, <2>4 DEF RequestNoticed, Waking
  <2> QED
    BY <2>2, <2>3, <2>4
<1>7. ASSUME NEW t \in Thread, Waits(t), ~FutexWait(t)
      PROVE  Awake' \/ \E d \in Sender : pc'[d] \in Waking
  <2> USE DEF Waits, WaitLoop, SleepEnds, Expire, LoadSeq, Deadline, Register, Deregister,
              Context, PeerWaitLoop, PeerLoad, PeerRegister, PeerWait, PeerTimeout, PeerDeregister
  <2>1. queue' = queue /\ expired \subseteq expired'
    BY <1>7
  <2>2. (pc'[t] = pc[t] \/ (pc[t] \notin Waking /\ pc'[t] # "sleep"))
        /\ \A u \in Thread \ {t} : pc'[u] = pc[u]
    BY <1>7 DEF Retry, Ended, Goto, TypeOK, Waking
  <2>3. Awake \/ \E c \in Sender : pc[c] \in Waking
    BY <1>0, <2>1 DEF RequestNoticed, Waking
  <2> QED
    BY <1>1, <2>2, <2>3
<1>8. ASSUME NEW c \in Sender, SenderMoves(c) PROVE Awake' \/ \E d \in Sender : pc'[d] \in Waking
  BY <1>2, <1>3, <1>4, <1>8 DEF SenderMoves, SenderStep, Cancel, Answered
<1> QED
  BY <1>5, <1>6, <1>7, <1>8, Moves

\* For every number of senders and receivers, and without any timer: as long as the
\* clients are Go clients and no server ends, a request in the queue has a receiver,
\* Go or C, awake or a sender that has yet to announce it.  wakeConsumers bumps
\* recv_futex before it reads recv_waiters, and both implementations of the wait
\* load it before their last look at the queue.
THEOREM Noticed == PeerSpec => []GoRequestNoticed
<1>1. PeerInit => NoticeInv
  <2> SUFFICES ASSUME PeerInit PROVE NoticeInv
    OBVIOUS
  <2>1. TypeOK /\ peers \subseteq Thread
    BY TypeInit, PeerBlockingAssumption DEF PeerInit
  <2> QED
    BY <2>1, BlockingAssumption
       DEF PeerInit, Init, NoticeInv, ReceiversOnly, NoneOverlooked, RequestNoticed, FirstWord, Thread
<1>2. NoticeInv /\ [PeerNext]_peerVars => NoticeInv'
  <2> SUFFICES ASSUME NoticeInv, [PeerNext]_peerVars PROVE NoticeInv'
    OBVIOUS
  <2>1. CASE PeerNext
    <3>1. peers' = peers /\ peers \subseteq Thread /\ TypeOK' /\ ReceiversOnly'
      BY <2>1, Moves, TypeStep, ReceiversStep DEF NoticeInv
    <3>2. peers \cap Sender = {} => NoneOverlooked' /\ RequestNoticed'
      BY <2>1, <3>1, OverlookedStep, NoticeStep DEF NoticeInv
    <3> QED
      BY <3>1, <3>2 DEF NoticeInv
  <2>2. CASE UNCHANGED peerVars
    BY <2>2, TypeStep DEF peerVars, vars, NoticeInv, ReceiversOnly, NoneOverlooked, RequestNoticed
  <2> QED
    BY <2>1, <2>2
<1>3. NoticeInv => GoRequestNoticed
  BY DEF NoticeInv, GoRequestNoticed
<1> QED
  BY <1>1, <1>2, <1>3, PTL DEF PeerSpec
=============================================================================
