----------------------------- MODULE MutexProofs -----------------------------
(***************************************************************************)
(* The arena mutex for any number of threads in any mix of Go and C        *)
(* processes, killed at any moment: mutual exclusion, locks that are never *)
(* stolen, wakeups that are never lost, and a recovery that cannot happen. *)
(***************************************************************************)
EXTENDS PeerMutex, FiniteSetTheorems, TLAPS

\* The steps that only C, or only recvWait, takes.
Others(t) ==
  PeerLeave(t) \/ PeerProbe(t) \/ (t \in Receiver /\ (RecvTimeout(t) \/ RecvRecovery(t)))

\* All the others are steps of mutexLock and mutexUnlock, or change nothing of theirs.
LEMMA PeerSteps ==
  ASSUME [PeerNext]_peerVars
  PROVE  [Next]_vars \/ \E t \in Thread : Others(t)
<1> USE PeerMutexAssumption
<1>1. ASSUME NEW t \in Thread, PeerRun(t) PROVE Run(t) \/ Others(t)
  BY <1>1 DEF PeerRun, Run, reqrep_mutex_lock, reqrep_mutex_unlock, reqrep_recover_stale_mutex,
     Wakeup, Others
<1>2. ASSUME NEW t \in Thread, Locking(t) PROVE Next \/ Others(t)
  BY <1>1, <1>2 DEF Locking, Next
<1>3. ASSUME NEW t \in Receiver, RecvWait(t) PROVE UNCHANGED vars
  BY <1>3 DEF RecvWait
<1>4. ASSUME NEW t \in Receiver, RecvTimeout(t) \/ RecvRecovery(t) PROVE \E u \in Thread : Others(u)
  BY <1>4 DEF Others
<1>5. CASE UNCHANGED peerVars
  BY <1>5 DEF peerVars
<1> QED
  BY <1>2, <1>3, <1>4, <1>5 DEF PeerNext, Next

\* A step of one thread that keeps it registered, or keeps it out, keeps the set.
LEMMA SameRegistered ==
  ASSUME pc \in [Thread -> Labels], NEW t \in Thread, NEW from, NEW to, Goto(t, from, to),
         from \in Registering <=> to \in Registering
  PROVE  Registered' = Registered
  BY DEF Goto, Registered

\* The count of waiters stays above the registered threads when one enters.
LEMMA EnterCount ==
  ASSUME TypeOK, NEW t \in Thread, Enter(t)
  PROVE  waiters' \in Nat /\ Cardinality(Registered') <= waiters'
<1>1. Registered' = Registered \cup {t} /\ t \notin Registered
  BY DEF TypeOK, Enter, Goto, Registered, Registering
<1>2. IsFiniteSet(Registered)
  BY MutexAssumption, FS_Subset DEF Registered
<1>3. Cardinality(Registered') = Cardinality(Registered) + 1
  BY <1>1, <1>2, FS_AddElement
<1>4. Cardinality(Registered) \in Nat
  BY <1>2, FS_CardinalityType
<1> QED
  BY <1>3, <1>4 DEF TypeOK, Enter

\* A registered thread is counted, so the count can be decremented.
LEMMA LeaveCount ==
  ASSUME TypeOK, NEW t \in Thread, pc[t] \in Registering, NEW to \in Labels \ Registering,
         Goto(t, pc[t], to), waiters' = waiters - 1
  PROVE  waiters' \in Nat /\ Cardinality(Registered') <= waiters'
<1>1. Registered' = Registered \ {t} /\ t \in Registered
  BY DEF TypeOK, Goto, Registered
<1>2. IsFiniteSet(Registered) /\ IsFiniteSet(Registered')
  BY MutexAssumption, FS_Subset DEF Registered
<1>3. Cardinality(Registered') = Cardinality(Registered) - 1
  BY <1>1, <1>2, FS_RemoveElement
<1>4. Cardinality(Registered) \in Nat /\ Cardinality(Registered') \in Nat
  BY <1>2, FS_CardinalityType
<1> QED
  BY <1>3, <1>4 DEF TypeOK

\* Every step keeps the types.
LEMMA TypeStep == TypeOK /\ [Next]_vars => TypeOK'
<1> SUFFICES ASSUME TypeOK, [Next]_vars PROVE TypeOK'
  OBVIOUS
<1> USE MutexAssumption
<1>1. ASSUME NEW t \in Thread, Lock(t) PROVE TypeOK'
  <2>1. Registered' = Registered
    BY <1>1, SameRegistered DEF Lock, TypeOK, Registering
  <2> QED
    BY <1>1, <2>1 DEF Lock, TypeOK, Goto, Labels, Word
<1>2. ASSUME NEW t \in Thread, Spin(t) PROVE TypeOK'
  <2>1. Registered' = Registered
    BY <1>2, SameRegistered DEF Spin, Acquire, SpinFail, TypeOK, Registering
  <2> QED
    BY <1>2, <2>1 DEF Spin, Acquire, SpinFail, TypeOK, Goto, Labels, Word, locals
<1>3. ASSUME NEW t \in Thread, Enter(t) PROVE TypeOK'
  BY <1>3, EnterCount DEF Enter, TypeOK, Goto, Labels, locals
<1>4. ASSUME NEW t \in Thread, Load(t) PROVE TypeOK'
  <2>1. Registered' = Registered
    BY <1>4, SameRegistered DEF Load, TypeOK, Registering
  <2> QED
    BY <1>4, <2>1 DEF Load, TypeOK, Goto, Labels, Word
<1>5. ASSUME NEW t \in Thread, FutexWait(t) \/ Interrupted(t) \/ Timeout(t) PROVE TypeOK'
  <2>1. Registered' = Registered
    BY <1>5, SameRegistered DEF FutexWait, Interrupted, Timeout, TypeOK, Registering
  <2> QED
    BY <1>5, <2>1 DEF FutexWait, Interrupted, Timeout, TypeOK, Goto, Labels, locals
<1>6. ASSUME NEW t \in Thread, Leave(t) \/ TimedOut(t) PROVE TypeOK'
  <2>1. waiters' \in Nat /\ Cardinality(Registered') <= waiters'
    BY <1>6, LeaveCount DEF Leave, TimedOut, Goto, Registering, Labels
  <2> QED
    BY <1>6, <2>1 DEF Leave, TimedOut, TypeOK, Goto, Labels, locals
<1>7. ASSUME NEW t \in Thread, Fast(t) PROVE TypeOK'
  <2>1. Registered' = Registered
    BY <1>7, SameRegistered DEF Fast, Acquire, FastFail, TypeOK, Registering
  <2> QED
    BY <1>7, <2>1 DEF Fast, Acquire, FastFail, TypeOK, Goto, Labels, Word, locals
<1>8. ASSUME NEW t \in Thread, Check(t) PROVE TypeOK'
  <2>1. Registered' = Registered
    BY <1>8, SameRegistered DEF Check, TypeOK, Registering
  <2> QED
    BY <1>8, <2>1 DEF Check, TypeOK, Goto, Labels, Word
<1>9. ASSUME NEW t \in Thread, Probe(t) PROVE TypeOK'
  <2>1. Registered' = Registered
    BY <1>9, SameRegistered DEF Probe, ProbeAlive, ProbeDead, TypeOK, Registering
  <2> QED
    BY <1>9, <2>1 DEF Probe, ProbeAlive, ProbeDead, TypeOK, Goto, Labels, Word
<1>10. ASSUME NEW t \in Thread, Recover(t) \/ Unlock(t) PROVE TypeOK'
  <2>1. Registered' = Registered
    BY <1>10, SameRegistered DEF Recover, Unlock, TypeOK, Registering
  <2> QED
    BY <1>10, <2>1 DEF Recover, Unlock, TypeOK, Goto, Labels, Word, locals
<1>11. ASSUME NEW t \in Thread, Wakeup(t) PROVE TypeOK'
  <2>1. Registered' = Registered
    BY <1>11 DEF Wakeup, ReadWaiters, WakeOne, Sleepers, Goto, TypeOK, Registered, Registering
  <2> QED
    BY <1>11, <2>1 DEF Wakeup, ReadWaiters, WakeOne, Sleepers, TypeOK, Goto, Labels, locals
<1>12. ASSUME NEW p \in Proc, Crash(p) PROVE TypeOK'
  <2>1. Registered' \subseteq Registered /\ IsFiniteSet(Registered)
    BY <1>12, FS_Subset DEF Crash, TypeOK, Registered, Registering
  <2>2. Cardinality(Registered') <= Cardinality(Registered)
        /\ Cardinality(Registered) \in Nat /\ Cardinality(Registered') \in Nat
    BY <2>1, FS_Subset, FS_CardinalityType
  <2>3. Cardinality(Registered') <= waiters
    BY <2>2 DEF TypeOK
  <2> QED
    BY <1>12, <2>3 DEF Crash, TypeOK, Labels, locals
<1>13. CASE UNCHANGED vars
  BY <1>13 DEF vars, TypeOK, Registered
<1> QED
  BY <1>1, <1>2, <1>3, <1>4, <1>5, <1>6, <1>7, <1>8, <1>9, <1>10, <1>11, <1>12, <1>13
     DEF Next, Run

\* So do those of C and of recvWait.
LEMMA OthersTypes ==
  ASSUME TypeOK, NEW t \in Thread, Others(t)
  PROVE  TypeOK'
<1> USE MutexAssumption
<1>1. CASE PeerLeave(t)
  <2>1. waiters' \in Nat /\ Cardinality(Registered') <= waiters'
    BY <1>1, LeaveCount DEF PeerLeave, Goto, Registering, Labels
  <2> QED
    BY <1>1, <2>1 DEF PeerLeave, TypeOK, Goto, Labels, locals
<1>2. CASE PeerProbe(t)
  <2>1. Registered' = Registered
    BY <1>2, SameRegistered DEF PeerProbe, TypeOK, Registering
  <2> QED
    BY <1>2, <2>1 DEF PeerProbe, TypeOK, Goto, Labels, locals
<1>3. CASE RecvTimeout(t)
  <2>1. Registered' = Registered
    BY <1>3, SameRegistered DEF RecvTimeout, TypeOK, Registering
  <2> QED
    BY <1>3, <2>1 DEF RecvTimeout, TypeOK, Goto, Labels, locals
<1>4. CASE RecvCheck(t)
  <2>1. Registered' = Registered
    BY <1>4, SameRegistered DEF RecvCheck, RecvGoto, TypeOK, Registering
  <2> QED
    BY <1>4, <2>1 DEF RecvCheck, RecvGoto, TypeOK, Goto, Labels, Word
<1>5. CASE RecvProbe(t)
  <2>1. \E to \in {"recover", "spin"} : RecvGoto(t, "rprobe", to)
    BY <1>5 DEF RecvProbe
  <2>2. Registered' = Registered
    BY <2>1, SameRegistered DEF RecvGoto, TypeOK, Registering
  <2>3. seen' = seen
    BY <1>5 DEF RecvProbe
  <2> QED
    BY <2>1, <2>2, <2>3 DEF RecvGoto, TypeOK, Goto, Labels, Word
<1> QED
  BY <1>1, <1>2, <1>3, <1>4, <1>5 DEF Others, RecvRecovery

\* Every step keeps the holder's pid in the word, and one holder at most.
LEMMA OwnershipStep ==
  TypeOK /\ TypeOK' /\ Ownership /\ MutualExclusion /\ [Next]_vars
    => Ownership' /\ MutualExclusion'
<1> SUFFICES ASSUME TypeOK, TypeOK', Ownership, MutualExclusion, [Next]_vars
             PROVE  Ownership' /\ MutualExclusion'
  OBVIOUS
<1> USE MutexAssumption DEF TypeOK, Ownership, MutualExclusion, Goto
<1>1. ASSUME NEW t \in Thread, NEW from, Acquire(t, from), from \in {"spin", "fast"}
      PROVE  Ownership' /\ MutualExclusion'
  <2>1. \A u \in Thread : pc[u] # "cs"
    BY <1>1 DEF Acquire
  <2> QED
    BY <1>1, <2>1 DEF Acquire, locals
<1>2. ASSUME NEW t \in Thread, SpinFail(t) \/ FastFail(t) \/ Lock(t)
      PROVE  Ownership' /\ MutualExclusion'
  BY <1>2 DEF SpinFail, FastFail, Lock, locals
<1>3. ASSUME NEW t \in Thread,
             Enter(t) \/ FutexWait(t) \/ Interrupted(t) \/ Timeout(t) \/ Leave(t) \/ TimedOut(t)
      PROVE  Ownership' /\ MutualExclusion'
  BY <1>3 DEF Enter, FutexWait, Interrupted, Timeout, Leave, TimedOut, locals
<1>4. ASSUME NEW t \in Thread, Load(t) \/ Check(t)
      PROVE  Ownership' /\ MutualExclusion'
  BY <1>4 DEF Load, Check
<1>5. ASSUME NEW t \in Thread, Probe(t)
      PROVE  Ownership' /\ MutualExclusion'
  BY <1>5 DEF Probe, ProbeAlive, ProbeDead
<1>6. ASSUME NEW t \in Thread, Recover(t)
      PROVE  Ownership' /\ MutualExclusion'
  <2>1. seen[t] \notin alive
    BY <1>6 DEF Recover
  <2>2. \A u \in Thread : pc[u] = "cs" => mutex \in alive
    OBVIOUS
  <2> QED
    BY <1>6, <2>1, <2>2 DEF Recover, locals
<1>7. ASSUME NEW t \in Thread, Unlock(t)
      PROVE  Ownership' /\ MutualExclusion'
  BY <1>7 DEF Unlock, locals
<1>8. ASSUME NEW t \in Thread, Wakeup(t)
      PROVE  Ownership' /\ MutualExclusion'
  BY <1>8 DEF Wakeup, ReadWaiters, WakeOne, Sleepers, locals
<1>9. ASSUME NEW p \in Proc, Crash(p)
      PROVE  Ownership' /\ MutualExclusion'
  BY <1>9 DEF Crash, locals
<1>10. CASE UNCHANGED vars
  BY <1>10 DEF vars
<1> QED
  BY <1>1, <1>2, <1>3, <1>4, <1>5, <1>6, <1>7, <1>8, <1>9, <1>10
     DEF Next, Run, Spin, Fast

LEMMA OthersOwnership ==
  ASSUME TypeOK, TypeOK', Ownership, MutualExclusion, NEW t \in Thread, Others(t)
  PROVE  Ownership' /\ MutualExclusion'
<1> USE MutexAssumption DEF TypeOK, Ownership, MutualExclusion, Goto
<1>1. CASE PeerLeave(t)
  BY <1>1 DEF PeerLeave, locals
<1>2. CASE PeerProbe(t)
  BY <1>2 DEF PeerProbe, locals, reqrep_pid_alive
<1>3. CASE RecvTimeout(t)
  BY <1>3 DEF RecvTimeout, locals
<1>4. CASE RecvCheck(t)
  BY <1>4 DEF RecvCheck, RecvGoto
<1>5. CASE RecvProbe(t)
  <2>1. /\ \/ RecvGoto(t, "rprobe", "spin")
           \/ RecvGoto(t, "rprobe", "recover") /\ seen[t] \notin alive
        /\ seen' = seen
    BY <1>5 DEF RecvProbe
  <2> QED
    BY <2>1 DEF RecvGoto
<1> QED
  BY <1>1, <1>2, <1>3, <1>4, <1>5 DEF Others, RecvRecovery

\* A thread comes to wait by loading a word that is not free.
LEMMA WaitingStep ==
  ASSUME TypeOK, Waiting, [Next]_vars \/ \E t \in Thread : Others(t)
  PROVE  Waiting'
<1> USE DEF TypeOK, Waiting, Goto
<1>1. ASSUME NEW t \in Thread, Others(t) PROVE Waiting'
  BY <1>1 DEF Others, PeerLeave, PeerProbe, RecvTimeout, RecvRecovery, RecvCheck, RecvProbe, RecvGoto, locals
<1>2. ASSUME NEW t \in Thread, Load(t) PROVE Waiting'
  BY <1>2 DEF Load
<1>3. ASSUME NEW t \in Thread, Check(t) PROVE Waiting'
  BY <1>3 DEF Check
<1>4. ASSUME NEW t \in Thread, Wakeup(t) PROVE Waiting'
  BY <1>4 DEF Wakeup, ReadWaiters, WakeOne, Sleepers, locals
<1>5. ASSUME NEW t \in Thread,
             Lock(t) \/ Interrupted(t) \/ Timeout(t) \/ Spin(t) \/ Enter(t) \/ FutexWait(t) \/ Leave(t)
             \/ Fast(t) \/ TimedOut(t) \/ Probe(t) \/ Recover(t) \/ Unlock(t)
      PROVE  Waiting'
  BY <1>5 DEF Lock, Interrupted, Timeout, Spin, Acquire, SpinFail, Enter, FutexWait, Leave, Fast, FastFail,
     TimedOut, Probe, ProbeAlive, ProbeDead, Recover, Unlock, locals
<1>6. ASSUME NEW p \in Proc, Crash(p) PROVE Waiting'
  BY <1>6 DEF Crash, locals
<1>7. CASE UNCHANGED vars
  BY <1>7 DEF vars
<1> QED
  BY <1>1, <1>2, <1>3, <1>4, <1>5, <1>6, <1>7 DEF Next, Run

\* Where a thread is that is not on its way through mutexLock.
Outside == {"idle", "cs", "unlocked", "uwake", "rcheck", "rprobe"}

\* What a step can do to the word, and how a thread comes out of mutexLock and to its
\* probe in recvWait.
Moves(r) ==
  /\ alive' \subseteq alive
  /\ mutex' \in {mutex, Free} \/ mutex' \in alive
  /\ pc[r] \notin Outside /\ pc'[r] \in Outside => mutex' \in alive
  /\ pc'[r] = "rprobe" =>
       \/ pc[r] = "rprobe" /\ seen'[r] = seen[r]
       \/ pc[r] = "rcheck" /\ seen'[r] = mutex /\ mutex # Free
  /\ pc[r] = "rprobe" /\ pc'[r] = "recover" => r \in Receiver /\ RecvProbe(r)

LEMMA EveryMove ==
  ASSUME TypeOK, Ownership, [Next]_vars \/ \E t \in Thread : Others(t), NEW r \in Thread
  PROVE  Moves(r)
<1> USE DEF TypeOK, Goto, Moves, Outside
<1>1. ASSUME NEW t \in Thread, NEW from, Acquire(t, from), from \in {"spin", "fast"} PROVE Moves(r)
  BY <1>1 DEF Acquire, locals, Ownership
<1>2. ASSUME NEW t \in Thread, Load(t) PROVE Moves(r)
  BY <1>2 DEF Load
<1>3. ASSUME NEW t \in Thread, Check(t) PROVE Moves(r)
  BY <1>3 DEF Check
<1>4. ASSUME NEW t \in Thread, Wakeup(t) PROVE Moves(r)
  BY <1>4 DEF Wakeup, ReadWaiters, WakeOne, Sleepers, locals
<1>5. ASSUME NEW t \in Thread, Recover(t) \/ Unlock(t) PROVE Moves(r)
  BY <1>5 DEF Recover, Unlock, locals
<1>6. ASSUME NEW t \in Thread, Lock(t) \/ Probe(t) PROVE Moves(r)
  BY <1>6 DEF Lock, Probe, ProbeAlive, ProbeDead
<1>7. ASSUME NEW t \in Thread,
             SpinFail(t) \/ FastFail(t) \/ Interrupted(t) \/ Timeout(t) \/ Enter(t) \/ FutexWait(t)
             \/ Leave(t) \/ TimedOut(t)
      PROVE  Moves(r)
  BY <1>7 DEF SpinFail, FastFail, Interrupted, Timeout, Enter, FutexWait, Leave, TimedOut, locals
<1>8. ASSUME NEW p \in Proc, Crash(p) PROVE Moves(r)
  BY <1>8 DEF Crash, locals
<1>9. CASE UNCHANGED vars
  BY <1>9 DEF vars
<1>10. ASSUME NEW t \in Thread, PeerLeave(t) \/ PeerProbe(t) \/ RecvTimeout(t) PROVE Moves(r)
  BY <1>10 DEF PeerLeave, PeerProbe, RecvTimeout, locals
<1>11. ASSUME NEW t \in Thread, RecvCheck(t) PROVE Moves(r)
  BY <1>11 DEF RecvCheck, RecvGoto
<1>12. ASSUME NEW t \in Receiver, t \in Thread, RecvProbe(t) PROVE Moves(r)
  <2>1. \E to \in {"spin", "recover"} : RecvGoto(t, "rprobe", to)
    BY <1>12 DEF RecvProbe
  <2>2. seen' = seen
    BY <1>12 DEF RecvProbe
  <2> QED
    BY <1>12, <2>1, <2>2 DEF RecvGoto
<1> QED
  BY <1>1, <1>2, <1>3, <1>4, <1>5, <1>6, <1>7, <1>8, <1>9, <1>10, <1>11, <1>12
     DEF Next, Run, Spin, Fast, Others, RecvRecovery

\* A holder that recvWait remembers stays gone, and the word never shows it again once
\* its thread has been through mutexLock.
Recalls(r) ==
  /\ pc[r] = "rprobe" => seen[r] # Free
  /\ rtimeouts[r] = 1 =>
       /\ rlast[r] \in Proc \ alive
       /\ pc[r] \in Outside => mutex # rlast[r]
       /\ pc[r] = "rprobe" => seen[r] # rlast[r]

LEMMA RecallsKept ==
  ASSUME IInv, NEW r \in Receiver, Moves(r), rtimeouts'[r] = rtimeouts[r], rlast'[r] = rlast[r]
  PROVE  Recalls(r)'
<1>1. Recalls(r) /\ \A p \in Proc : p # Free
  BY MutexAssumption DEF IInv, Remembered, Recalls, Outside
<1>2. pc[r] = "rcheck" => pc[r] \in Outside
  BY DEF Outside
<1> QED
  BY <1>1, <1>2 DEF Moves, Recalls

\* The probe of recvWait remembers a holder that is gone, and never finds the one it
\* remembers from before.
LEMMA ProbeForgets ==
  ASSUME IInv, NEW r \in Receiver, RecvProbe(r)
  PROVE  /\ pc'[r] = "spin" /\ Recalls(r)'
         /\ rtimeouts' \in [Receiver -> 0..1] /\ rlast' \in [Receiver -> Word]
         /\ \A t \in Receiver \ {r} : rtimeouts'[t] = rtimeouts[t] /\ rlast'[t] = rlast[t]
<1> DEFINE gone == seen[r] \notin alive
           n == IF ~gone THEN 0 ELSE IF seen[r] = rlast[r] THEN rtimeouts[r] + 1 ELSE 1
<1>1. /\ r \in Thread /\ pc[r] = "rprobe" /\ pc \in [Thread -> Labels]
      /\ rtimeouts \in [Receiver -> 0..1] /\ rlast \in [Receiver -> Word]
      /\ seen[r] \in Proc /\ (rtimeouts[r] = 1 => seen[r] # rlast[r])
  BY PeerMutexAssumption DEF IInv, TypeOK, Remembered, RecvProbe, RecvGoto, Goto, Word
<1>2. n \in 0..1 /\ (n = 1 => gone)
  BY <1>1
<1>3. /\ pc' = [pc EXCEPT ![r] = "spin"] /\ alive' = alive
      /\ rtimeouts' = [rtimeouts EXCEPT ![r] = n]
      /\ rlast' = [rlast EXCEPT ![r] = IF gone THEN seen[r] ELSE Free]
  <2> HIDE DEF n
  <2>1. ~(n >= 2)
    BY <1>2
  <2> QED
    BY <2>1 DEF RecvProbe, RecvGoto, Goto, n
<1> HIDE DEF n
<1> QED
  BY <1>1, <1>2, <1>3 DEF Recalls, Outside, Word

LEMMA RememberedStep ==
  ASSUME IInv, [PeerNext]_peerVars
  PROVE  Remembered'
<1> USE PeerMutexAssumption
<1>1. \A r \in Receiver : Moves(r)
  BY PeerSteps, EveryMove DEF IInv
<1>2. rtimeouts \in [Receiver -> 0..1] /\ rlast \in [Receiver -> Word]
  BY DEF IInv, Remembered
<1>3. /\ \A r \in Receiver : Recalls(r)'
      /\ rtimeouts' \in [Receiver -> 0..1] /\ rlast' \in [Receiver -> Word]
  <2>1. CASE UNCHANGED <<rtimeouts, rlast>>
    BY <1>1, <1>2, <2>1, RecallsKept
  <2>2. ASSUME NEW r \in Receiver, RecvProbe(r)
        PROVE  /\ \A t \in Receiver : Recalls(t)'
               /\ rtimeouts' \in [Receiver -> 0..1] /\ rlast' \in [Receiver -> Word]
    BY <1>1, <2>2, ProbeForgets, RecallsKept
  <2>3. ASSUME NEW r \in Receiver, RecvWait(r)
        PROVE  /\ \A t \in Receiver : Recalls(t)'
               /\ rtimeouts' \in [Receiver -> 0..1] /\ rlast' \in [Receiver -> Word]
    <3>1. /\ rtimeouts' = [rtimeouts EXCEPT ![r] = 0] /\ rlast' = [rlast EXCEPT ![r] = Free]
          /\ pc[r] = "idle" /\ pc' = pc
      BY <2>3 DEF RecvWait, vars
    <3>2. Recalls(r)'
      BY <1>2, <3>1 DEF Recalls
    <3>3. \A t \in Receiver \ {r} : Recalls(t)'
      BY <1>1, <1>2, <3>1, RecallsKept
    <3> QED
      BY <1>2, <3>1, <3>2, <3>3 DEF Word
  <2> QED
    BY <2>1, <2>2, <2>3 DEF PeerNext, peerVars, Locking, RecvTimeout, RecvRecovery, RecvCheck
<1> QED
  BY <1>3 DEF Remembered, Recalls, Outside, Word

----------------------------------------------------------------------------
(* Theorems *)

LEMMA PeerInitIInv == PeerInit => IInv
<1> SUFFICES ASSUME PeerInit PROVE IInv
  OBVIOUS
<1>1. Registered = {}
  BY DEF PeerInit, Init, Registered, Registering
<1>2. Cardinality(Registered) = 0
  BY <1>1, FS_EmptySet
<1>3. TypeOK
  BY <1>2, MutexAssumption DEF PeerInit, Init, TypeOK, Labels, Word
<1>4. Ownership /\ MutualExclusion /\ Waiting
  BY MutexAssumption DEF PeerInit, Init, Ownership, MutualExclusion, Waiting
<1>5. Remembered
  BY PeerMutexAssumption DEF PeerInit, Init, Remembered, Word
<1> QED
  BY <1>3, <1>4, <1>5 DEF IInv

LEMMA StepIInv == IInv /\ [PeerNext]_peerVars => IInv'
<1> SUFFICES ASSUME IInv, [PeerNext]_peerVars PROVE IInv'
  OBVIOUS
<1>1. [Next]_vars \/ \E t \in Thread : Others(t)
  BY PeerSteps
<1>2. TypeOK'
  BY <1>1, TypeStep, OthersTypes DEF IInv
<1>3. Ownership' /\ MutualExclusion'
  BY <1>1, <1>2, OwnershipStep, OthersOwnership DEF IInv
<1>4. Waiting'
  BY <1>1, WaitingStep DEF IInv
<1>5. Remembered'
  BY RememberedStep
<1> QED
  BY <1>2, <1>3, <1>4, <1>5 DEF IInv

\* The inductive invariant: the word holds the holder's pid, only the pid of a dead
\* process can be about to be recovered, and recvWait does not remember the holder.
THEOREM Invariance == PeerSpec => []IInv
  BY PeerInitIInv, StepIInv, PTL DEF PeerSpec

\* The mutex word never shows a stuck or foreign value, and mutex_waiters never
\* falls below the threads registered in it.
THEOREM TypeCorrect == PeerSpec => []TypeOK
<1>1. IInv => TypeOK
  BY DEF IInv
<1> QED
  BY <1>1, Invariance, PTL

\* At most one thread is between mutexLock and mutexUnlock, for any threads of Go and
\* C processes, although both implementations free locks that they do not hold.
THEOREM Exclusion == PeerSpec => []MutualExclusion
<1>1. IInv => MutualExclusion
  BY DEF IInv
<1> QED
  BY <1>1, Invariance, PTL

\* Only a holder's own unlock removes a living process's pid from the word.
THEOREM NeverStolen == PeerSpec => LiveLockKept
<1> DEFINE Kept ==
      \A p \in alive :
        mutex = p /\ mutex' # p =>
          \E t \in Thread : ProcOf[t] = p /\ pc[t] = "cs" /\ pc'[t] = "unlocked"
<1>1. IInv /\ [PeerNext]_peerVars => [Kept]_vars
  <2> SUFFICES ASSUME IInv, [PeerNext]_peerVars, NEW p \in alive, mutex = p, mutex' # p
               PROVE  \E t \in Thread : ProcOf[t] = p /\ pc[t] = "cs" /\ pc'[t] = "unlocked"
    BY Zenon
  <2> USE MutexAssumption DEF IInv, TypeOK, Ownership, Goto
  <2>1. \A t \in Thread : ~Others(t)
    BY DEF Others, PeerLeave, PeerProbe, RecvTimeout, RecvRecovery, RecvCheck, RecvProbe, RecvGoto
  <2>2. Next
    BY <2>1, PeerSteps DEF vars
  <2>3. PICK t \in Thread : Recover(t) \/ Unlock(t)
    BY <2>2 DEF Next, Run, Lock, Spin, Acquire, SpinFail, Enter, Load, FutexWait, Interrupted,
           Timeout, Leave, Fast, FastFail, TimedOut, Check, Probe, ProbeAlive, ProbeDead,
           Wakeup, ReadWaiters, WakeOne, Crash
  <2>4. ~Recover(t)
    BY DEF Recover
  <2>5. Unlock(t)
    BY <2>3, <2>4
  <2> QED
    BY <2>5 DEF Unlock
<1> QED
  BY <1>1, Invariance, PTL DEF PeerSpec, LiveLockKept

\* recvWait never gets as far as recovering the mutex: its second timeout cannot find
\* the holder that was gone at its first, for any threads and processes.
THEOREM NeverByRecvWait == PeerSpec => RecvNeverRecovers
<1>1. IInv /\ [PeerNext]_peerVars
        => [\A t \in Receiver : pc[t] = "rprobe" => pc'[t] # "recover"]_peerVars
  <2> SUFFICES ASSUME IInv, [PeerNext]_peerVars, NEW r \in Receiver, pc[r] = "rprobe", pc'[r] = "recover"
               PROVE  FALSE
    BY Zenon
  <2>1. r \in Thread /\ Moves(r)
    BY PeerMutexAssumption, PeerSteps, EveryMove DEF IInv
  <2>2. RecvProbe(r)
    BY <2>1 DEF Moves
  <2> QED
    BY <2>2, ProbeForgets
<1> QED
  BY <1>1, Invariance, PTL DEF PeerSpec, RecvNeverRecovers

\* The thread that steps is awake afterwards, unless it leaves a mutex behind that is
\* held, or that nobody sleeps on.
LEMMA WakeupStep ==
  IInv /\ NoLostWakeup /\ [PeerNext]_peerVars => NoLostWakeup'
<1> SUFFICES ASSUME IInv, NoLostWakeup, [PeerNext]_peerVars PROVE NoLostWakeup'
  OBVIOUS
<1> USE DEF IInv, TypeOK, Goto
<1>1. ASSUME NEW t \in Thread, pc'[t] \notin {"idle", "sleep"} PROVE NoLostWakeup'
  BY <1>1 DEF NoLostWakeup
<1>2. ASSUME NEW t \in Thread, Others(t) PROVE NoLostWakeup'
  <2>1. pc'[t] \notin {"idle", "sleep"}
    BY <1>2 DEF Others, PeerLeave, PeerProbe, RecvTimeout, RecvRecovery, RecvCheck, RecvProbe, RecvGoto
  <2> QED
    BY <1>1, <2>1
<1>3. ASSUME NEW t \in Thread,
             Lock(t) \/ Spin(t) \/ Enter(t) \/ Load(t) \/ Leave(t) \/ Fast(t) \/ TimedOut(t) \/ Check(t)
             \/ Probe(t) \/ Recover(t) \/ Unlock(t) \/ Interrupted(t) \/ Timeout(t)
             \/ ReadWaiters(t, "freed", "fwake", "spin")
      PROVE  NoLostWakeup'
  <2>1. pc'[t] \notin {"idle", "sleep"}
    BY <1>3 DEF Lock, Spin, Acquire, SpinFail, Enter, Load, Leave, Fast, FastFail, TimedOut, Check, Probe,
       ProbeAlive, ProbeDead, Recover, Unlock, Interrupted, Timeout, ReadWaiters
  <2> QED
    BY <1>1, <2>1
<1>4. ASSUME NEW t \in Thread, FutexWait(t) PROVE NoLostWakeup'
  <2>1. CASE mutex = seen[t]
    <3>1. mutex' # Free
      BY <1>4, <2>1 DEF FutexWait, Waiting
    <3> QED
      BY <3>1 DEF NoLostWakeup
  <2>2. CASE mutex # seen[t]
    <3>1. pc'[t] \notin {"idle", "sleep"}
      BY <1>4, <2>2 DEF FutexWait
    <3> QED
      BY <1>1, <3>1
  <2> QED
    BY <2>1, <2>2
<1>5. ASSUME NEW t \in Thread, ReadWaiters(t, "unlocked", "uwake", "idle") PROVE NoLostWakeup'
  <2>1. CASE waiters > 0
    <3>1. pc'[t] \notin {"idle", "sleep"}
      BY <1>5, <2>1 DEF ReadWaiters
    <3> QED
      BY <1>1, <3>1
  <2>2. CASE ~(waiters > 0)
    <3>1. IsFiniteSet(Registered) /\ waiters = 0
      BY <2>2, MutexAssumption, FS_Subset DEF Registered
    <3>2. Cardinality(Registered) = 0
      BY <3>1, FS_CardinalityType
    <3>3. Registered = {}
      BY <3>1, <3>2, FS_EmptySet
    <3>4. Sleepers' = {}
      BY <1>5, <2>2, <3>3 DEF ReadWaiters, Sleepers, Registered, Registering
    <3> QED
      BY <3>4 DEF NoLostWakeup
  <2> QED
    BY <2>1, <2>2
<1>6. ASSUME NEW t \in Thread, NEW from \in {"uwake", "fwake"}, NEW done \in {"idle", "spin"}, WakeOne(t, from, done)
      PROVE  NoLostWakeup'
  <2>1. ASSUME NEW u \in Sleepers, pc' = [pc EXCEPT ![t] = done, ![u] = "leave"] PROVE NoLostWakeup'
    <3>1. u \in Thread /\ pc'[u] = "leave"
      BY <2>1 DEF Sleepers
    <3> QED
      BY <1>1, <3>1
  <2>2. ASSUME Sleepers = {}, pc' = [pc EXCEPT ![t] = done] PROVE NoLostWakeup'
    <3>1. Sleepers' = {}
      BY <2>2 DEF Sleepers
    <3> QED
      BY <3>1 DEF NoLostWakeup
  <2> QED
    BY <1>6, <2>1, <2>2 DEF WakeOne
<1>7. ASSUME NEW p \in Proc, Crash(p) PROVE NoLostWakeup'
  BY <1>7 DEF Crash, NoLostWakeup
<1>8. CASE UNCHANGED vars
  BY <1>8 DEF vars, NoLostWakeup, Sleepers
<1>9. [Next]_vars \/ \E t \in Thread : Others(t)
  BY PeerSteps
<1> QED
  BY <1>2, <1>3, <1>4, <1>5, <1>6, <1>7, <1>8, <1>9 DEF Next, Run, Wakeup

\* No wakeup is lost, for any threads of Go and C processes: neither between the store
\* of mutexUnlock and its look at the waiters, nor between the load of a waiter and
\* its sleep.
THEOREM NoneLost == PeerSpec => []NoLostWakeup
<1>1. PeerInit => NoLostWakeup
  BY DEF PeerInit, Init, NoLostWakeup, Sleepers
<1> QED
  BY <1>1, WakeupStep, Invariance, PTL DEF PeerSpec
=============================================================================
