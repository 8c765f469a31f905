------------------------------ MODULE PeerMutex -----------------------------
(***************************************************************************)
(* The arena mutex with C processes among its users, and with the second   *)
(* place at which Go looks for a dead holder: recvWait, when its wait for  *)
(* a request has timed out.                                                *)
(*                                                                         *)
(* A C thread recovers at the first timeout that finds the holder gone,    *)
(* and goes back to spinning when it is woken (its CAS is taken not to     *)
(* fail on a free word: it does not on x86).                               *)
(***************************************************************************)
EXTENDS Mutex

CONSTANTS
  Receiver,    \* the threads that call recvWait
  Mixes        \* which processes may be the ones that run the C implementation

ASSUME PeerMutexAssumption == Receiver \subseteq Thread /\ Mixes \subseteq SUBSET Proc

VARIABLES
  peers,      \* the processes that run the C implementation
  rtimeouts,  \* rtimeouts[t]: local recvConsecutiveTimeouts of recvWait
  rlast       \* rlast[t]: local recvLastObservedVal

peerVars == <<vars, peers, rtimeouts, rlast>>

C(t) == ProcOf[t] \in peers

PeerInit ==
  /\ Init
  /\ peers \in Mixes
  /\ rtimeouts = [t \in Receiver |-> 0]
  /\ rlast = [t \in Receiver |-> Free]

----------------------------------------------------------------------------
(* The C mutex *)

reqrep_pid_alive(pid) == pid \in alive

reqrep_recover_stale_mutex(t) ==
  \/ Recover(t)
  \/ ReadWaiters(t, "freed", "fwake", "spin")
  \/ WakeOne(t, "fwake", "spin")

PeerLeave(t) ==
  /\ Goto(t, "leave", "spin")
  /\ waiters' = waiters - 1
  /\ UNCHANGED <<mutex, alive, locals>>

PeerProbe(t) ==
  /\ Goto(t, "probe", IF reqrep_pid_alive(seen[t]) THEN "spin" ELSE "recover")
  /\ UNCHANGED <<mutex, waiters, alive, locals>>

reqrep_mutex_lock(t) ==
  \/ Spin(t) \/ Enter(t) \/ Load(t) \/ FutexWait(t) \/ PeerLeave(t)
  \/ TimedOut(t) \/ Check(t) \/ PeerProbe(t) \/ reqrep_recover_stale_mutex(t)

reqrep_mutex_unlock(t) ==
  \/ Unlock(t)
  \/ ReadWaiters(t, "unlocked", "uwake", "idle")
  \/ WakeOne(t, "uwake", "idle")

PeerRun(t) == reqrep_mutex_lock(t) \/ reqrep_mutex_unlock(t)

----------------------------------------------------------------------------
(* Go: recvWait after ETIMEDOUT; the tryRecv that follows locks the mutex *)

\* A new call of recvWait, with its locals.
RecvWait(t) ==
  /\ t \in Receiver /\ ~C(t) /\ pc[t] = "idle"
  /\ <<rtimeouts[t], rlast[t]>> # <<0, Free>>
  /\ rtimeouts' = [rtimeouts EXCEPT ![t] = 0]
  /\ rlast' = [rlast EXCEPT ![t] = Free]
  /\ UNCHANGED <<vars, peers>>

RecvTimeout(t) ==
  /\ t \in Receiver /\ ~C(t)
  /\ Goto(t, "idle", "rcheck")
  /\ UNCHANGED <<mutex, waiters, alive, locals, peers, rtimeouts, rlast>>

\* tryRecv calls mutexLock, or the mutex is recovered before.
RecvGoto(t, from, to) ==
  /\ Goto(t, from, to)
  /\ timeouts' = [timeouts EXCEPT ![t] = 0]
  /\ last' = [last EXCEPT ![t] = Free]
  /\ UNCHANGED <<mutex, waiters, alive, peers>>

RecvCheck(t) ==
  /\ RecvGoto(t, "rcheck", IF mutex = Free THEN "spin" ELSE "rprobe")
  /\ seen' = [seen EXCEPT ![t] = mutex]
  /\ UNCHANGED <<rtimeouts, rlast>>

\* Mutant of RecvProbe: recover at the first timeout.
RecvProbeOnce(t) ==
  /\ RecvGoto(t, "rprobe", IF seen[t] \in alive THEN "spin" ELSE "recover")
  /\ UNCHANGED <<seen, rtimeouts, rlast>>

RecvProbe(t) ==
  LET gone == seen[t] \notin alive
      n    == IF ~gone THEN 0 ELSE IF seen[t] = rlast[t] THEN rtimeouts[t] + 1 ELSE 1
  IN  /\ RecvGoto(t, "rprobe", IF n >= 2 THEN "recover" ELSE "spin")
      /\ rtimeouts' = [rtimeouts EXCEPT ![t] = IF n >= 2 THEN 0 ELSE n]
      /\ rlast' = [rlast EXCEPT ![t] = IF gone THEN seen[t] ELSE Free]
      /\ UNCHANGED seen

RecvRecovery(t) == RecvCheck(t) \/ RecvProbe(t)

----------------------------------------------------------------------------

\* Either implementation; the locals of recvWait are its own.
Locking(t) ==
  /\ IF C(t) THEN PeerRun(t) ELSE Run(t)
  /\ UNCHANGED <<peers, rtimeouts, rlast>>

PeerNext ==
  \/ \E t \in Thread :
       \/ Locking(t)
       \/ /\ Lock(t) \/ Interrupted(t) \/ Timeout(t)
          /\ UNCHANGED <<peers, rtimeouts, rlast>>
  \/ \E t \in Receiver : RecvWait(t) \/ RecvTimeout(t) \/ RecvRecovery(t)
  \/ \E p \in Proc : Crash(p) /\ UNCHANGED <<peers, rtimeouts, rlast>>

PeerSpec == PeerInit /\ [][PeerNext]_peerVars

\* As in Mutex.
PeerFairSpec ==
  /\ PeerSpec
  /\ \A t \in Thread :
       /\ WF_peerVars(Locking(t))
       /\ SF_peerVars(Timeout(t) /\ UNCHANGED <<peers, rtimeouts, rlast>>)
  /\ \A t \in Receiver : WF_peerVars(RecvRecovery(t))

----------------------------------------------------------------------------

\* recvWait never recovers the mutex itself: between two of its timeouts tryRecv
\* locks the mutex, so whoever was gone at the first does not hold it at the
\* second.  A dead holder is the business of mutexLock alone.
RecvNeverRecovers ==
  [][\A t \in Receiver : pc[t] = "rprobe" => pc'[t] # "recover"]_peerVars

----------------------------------------------------------------------------
(* The inductive invariant *)

\* A holder that recvWait remembers is gone, and is not the holder any more once
\* the tryRecv behind the timeout has had the mutex.
Remembered ==
  /\ rtimeouts \in [Receiver -> 0..1] /\ rlast \in [Receiver -> Word]
  /\ \A t \in Receiver :
       /\ pc[t] = "rprobe" => seen[t] # Free
       /\ rtimeouts[t] = 1 =>
            /\ rlast[t] \in Proc \ alive
            /\ pc[t] \in {"idle", "cs", "unlocked", "uwake", "rcheck", "rprobe"} =>
                 mutex # rlast[t]
            /\ pc[t] = "rprobe" => seen[t] # rlast[t]

IInv == TypeOK /\ Ownership /\ MutualExclusion /\ Waiting /\ Remembered
=============================================================================
