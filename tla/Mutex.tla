------------------------------- MODULE Mutex --------------------------------
(***************************************************************************)
(* The arena mutex: one futex word in the shared segment that holds the    *)
(* pid of the process owning the lock (0 when free), a count of waiters,   *)
(* and the recovery of a lock whose owner died.  Threads of several        *)
(* processes contend; a process may be killed between any two steps.       *)
(*                                                                         *)
(* One action per atomic access or system call.  The 32 CAS attempts of    *)
(* the spin phase are one attempt that may be repeated by stuttering.      *)
(***************************************************************************)
EXTENDS Naturals, FiniteSets

CONSTANTS
  Thread,    \* goroutines
  Proc,      \* processes, by pid
  ProcOf,    \* ProcOf[t]: the process of thread t
  Mortal,    \* the processes that may be killed
  Free       \* the word of an unlocked mutex (0)

ASSUME MutexAssumption ==
  /\ ProcOf \in [Thread -> Proc]
  /\ Mortal \subseteq Proc
  /\ Free \notin Proc
  /\ IsFiniteSet(Thread)

VARIABLES
  mutex,     \* the futex word: Free or the pid of the holder
  waiters,   \* mutex_waiters
  alive,     \* the processes that exist
  pc,        \* pc[t]: the next step of thread t
  seen,      \* seen[t]: locals cur and val: the word as t last read it
  timeouts,  \* timeouts[t]: local consecutiveTimeouts
  last       \* last[t]: local lastObservedVal

vars == <<mutex, waiters, alive, pc, seen, timeouts, last>>
locals == <<seen, timeouts, last>>

Word == Proc \cup {Free}

Labels ==
  {"idle",                                    \* not in mutexLock or mutexUnlock
   "spin", "enter", "load", "wait", "sleep",  \* mutexLock, up to futexWait
   "leave", "fast",                           \* woken: deregister, fast path
   "timedout", "check", "probe",              \* ETIMEDOUT: look at the holder
   "recover", "freed", "fwake",               \* recoverStaleMutex
   "cs",                                      \* holding the mutex
   "unlocked", "uwake",                       \* mutexUnlock after its store
   "rcheck", "rprobe",                        \* recvWait after ETIMEDOUT (PeerMutex)
   "dead"}                                    \* the process was killed

Init ==
  /\ mutex = Free
  /\ waiters = 0
  /\ alive = Proc
  /\ pc = [t \in Thread |-> "idle"]
  /\ seen = [t \in Thread |-> Free]
  /\ timeouts = [t \in Thread |-> 0]
  /\ last = [t \in Thread |-> Free]

Goto(t, from, to) ==
  /\ pc[t] = from
  /\ pc' = [pc EXCEPT ![t] = to]

----------------------------------------------------------------------------
(* mutexLock *)

Lock(t) ==
  /\ Goto(t, "idle", "spin")
  /\ timeouts' = [timeouts EXCEPT ![t] = 0]
  /\ last' = [last EXCEPT ![t] = Free]
  /\ UNCHANGED <<mutex, waiters, alive, seen>>

\* Mutant of Acquire: the pid of the caller's own process is taken for a free word.
AcquireOwnPid(t, from) ==
  /\ mutex \in {Free, ProcOf[t]}
  /\ mutex' = ProcOf[t]
  /\ Goto(t, from, "cs")
  /\ UNCHANGED <<waiters, alive, locals>>

\* CompareAndSwap(mutex, 0, mypid)
Acquire(t, from) ==
  /\ mutex = Free
  /\ mutex' = ProcOf[t]
  /\ Goto(t, from, "cs")
  /\ UNCHANGED <<waiters, alive, locals>>

SpinFail(t) ==
  /\ mutex # Free
  /\ Goto(t, "spin", "enter")
  /\ UNCHANGED <<mutex, waiters, alive, locals>>

Spin(t) == Acquire(t, "spin") \/ SpinFail(t)

Enter(t) ==
  /\ Goto(t, "enter", "load")
  /\ waiters' = waiters + 1
  /\ UNCHANGED <<mutex, alive, locals>>

Load(t) ==
  /\ Goto(t, "load", IF mutex = Free THEN "leave" ELSE "wait")
  /\ seen' = [seen EXCEPT ![t] = mutex]
  /\ UNCHANGED <<mutex, waiters, alive, timeouts, last>>

\* Mutant of FutexWait: the kernel's comparison with cur is dropped.
FutexWaitUnchecked(t) ==
  /\ Goto(t, "wait", "sleep")
  /\ UNCHANGED <<mutex, waiters, alive, locals>>

\* futexWait: the kernel compares the word with cur before it sleeps.
FutexWait(t) ==
  /\ Goto(t, "wait", IF mutex = seen[t] THEN "sleep" ELSE "leave")
  /\ UNCHANGED <<mutex, waiters, alive, locals>>

\* A signal ends the wait (EINTR is reported as a plain return).
Interrupted(t) ==
  /\ Goto(t, "sleep", "leave")
  /\ UNCHANGED <<mutex, waiters, alive, locals>>

\* lock timeout: ETIMEDOUT.
Timeout(t) ==
  /\ Goto(t, "sleep", "timedout")
  /\ UNCHANGED <<mutex, waiters, alive, locals>>

Leave(t) ==
  /\ Goto(t, "leave", "fast")
  /\ waiters' = waiters - 1
  /\ UNCHANGED <<mutex, alive, locals>>

FastFail(t) ==
  /\ mutex # Free
  /\ Goto(t, "fast", "spin")
  /\ UNCHANGED <<mutex, waiters, alive, locals>>

Fast(t) == Acquire(t, "fast") \/ FastFail(t)

----------------------------------------------------------------------------
(* mutexLock after ETIMEDOUT *)

\* Mutant of TimedOut: no "continue", the common path deregisters once more.
TimedOutFallsThrough(t) ==
  /\ Goto(t, "timedout", "leave")
  /\ waiters' = waiters - 1
  /\ UNCHANGED <<mutex, alive, locals>>

TimedOut(t) ==
  /\ Goto(t, "timedout", "check")
  /\ waiters' = waiters - 1
  /\ UNCHANGED <<mutex, alive, locals>>

Check(t) ==
  /\ Goto(t, "check", IF mutex = Free THEN "spin" ELSE "probe")
  /\ seen' = [seen EXCEPT ![t] = mutex]
  /\ UNCHANGED <<mutex, waiters, alive, timeouts, last>>

\* pidAlive(val): the holder exists; forget the earlier timeouts.
ProbeAlive(t) ==
  /\ seen[t] \in alive
  /\ Goto(t, "probe", "spin")
  /\ timeouts' = [timeouts EXCEPT ![t] = 0]
  /\ last' = [last EXCEPT ![t] = Free]
  /\ UNCHANGED <<mutex, waiters, alive, seen>>

\* Mutant of ProbeDead: lastObservedVal is not remembered.
ProbeDeadForgets(t) ==
  /\ seen[t] \notin alive
  /\ Goto(t, "probe", IF seen[t] = last[t] /\ timeouts[t] >= 1 THEN "recover" ELSE "spin")
  /\ timeouts' = [timeouts EXCEPT ![t] = 1]
  /\ UNCHANGED <<mutex, waiters, alive, seen, last>>

\* The holder is gone: recover at the second timeout that finds it so.
ProbeDead(t) ==
  LET n == IF seen[t] = last[t] THEN timeouts[t] + 1 ELSE 1
  IN  /\ seen[t] \notin alive
      /\ Goto(t, "probe", IF n >= 2 THEN "recover" ELSE "spin")
      /\ timeouts' = [timeouts EXCEPT ![t] = IF n >= 2 THEN 0 ELSE n]
      /\ last' = [last EXCEPT ![t] = seen[t]]
      /\ UNCHANGED <<mutex, waiters, alive, seen>>

Probe(t) == ProbeAlive(t) \/ ProbeDead(t)

\* Mutant of Recover: a store instead of the CAS on the observed word.
RecoverStore(t) ==
  /\ Goto(t, "recover", "freed")
  /\ mutex' = Free
  /\ UNCHANGED <<waiters, alive, locals>>

\* recoverStaleMutex: CompareAndSwap(mutex, observed, 0)
Recover(t) ==
  /\ Goto(t, "recover", IF mutex = seen[t] THEN "freed" ELSE "spin")
  /\ mutex' = IF mutex = seen[t] THEN Free ELSE mutex
  /\ UNCHANGED <<waiters, alive, locals>>

----------------------------------------------------------------------------
(* mutexUnlock, and the wakeup it shares with recoverStaleMutex *)

Unlock(t) ==
  /\ Goto(t, "cs", "unlocked")
  /\ mutex' = Free
  /\ UNCHANGED <<waiters, alive, locals>>

ReadWaiters(t, from, wake, done) ==
  /\ Goto(t, from, IF waiters > 0 THEN wake ELSE done)
  /\ UNCHANGED <<mutex, waiters, alive, locals>>

Sleepers == {t \in Thread : pc[t] = "sleep"}

\* futexWake(mutex, 1): the kernel wakes one sleeper, if there is one.
WakeOne(t, from, done) ==
  /\ pc[t] = from
  /\ \/ \E u \in Sleepers : pc' = [pc EXCEPT ![t] = done, ![u] = "leave"]
     \/ Sleepers = {} /\ pc' = [pc EXCEPT ![t] = done]
  /\ UNCHANGED <<mutex, waiters, alive, locals>>

Wakeup(t) ==
  \/ ReadWaiters(t, "unlocked", "uwake", "idle")
  \/ WakeOne(t, "uwake", "idle")
  \/ ReadWaiters(t, "freed", "fwake", "spin")
  \/ WakeOne(t, "fwake", "spin")

----------------------------------------------------------------------------

\* A process is killed: its threads stop where they are.
Crash(p) ==
  /\ p \in alive \cap Mortal
  /\ alive' = alive \ {p}
  /\ pc' = [t \in Thread |-> IF ProcOf[t] = p THEN "dead" ELSE pc[t]]
  /\ UNCHANGED <<mutex, waiters, locals>>

\* The steps a thread takes by itself once it has called mutexLock.
Run(t) ==
  \/ Spin(t) \/ Enter(t) \/ Load(t) \/ FutexWait(t) \/ Leave(t) \/ Fast(t)
  \/ TimedOut(t) \/ Check(t) \/ Probe(t) \/ Recover(t)
  \/ Unlock(t) \/ Wakeup(t)

Next ==
  \/ \E t \in Thread : Lock(t) \/ Run(t) \/ Interrupted(t) \/ Timeout(t)
  \/ \E p \in Proc : Crash(p)

Spec == Init /\ [][Next]_vars

\* The scheduler runs every thread that can run, and the 2 s timer of a wait
\* fires unless the wait ends first; signals do not cut short every wait.
FairSpec ==
  /\ Spec
  /\ \A t \in Thread : WF_vars(Run(t)) /\ SF_vars(Timeout(t))

----------------------------------------------------------------------------
(* Properties *)

\* Threads between mutexLock's registration and its deregistration.
Registering == {"load", "wait", "sleep", "leave", "timedout"}
Registered == {t \in Thread : pc[t] \in Registering}

\* Types, and the waiters word counts at least the registered threads (threads
\* killed while registered are counted forever).
TypeOK ==
  /\ mutex \in Word
  /\ waiters \in Nat /\ Cardinality(Registered) <= waiters
  /\ alive \subseteq Proc
  /\ pc \in [Thread -> Labels]
  /\ seen \in [Thread -> Word]
  /\ timeouts \in [Thread -> 0..1]
  /\ last \in [Thread -> Word]

\* Two threads are never in the critical section together, dead processes and
\* recovery included: a recovered lock has no live holder left.
MutualExclusion ==
  \A t, u \in Thread : pc[t] = "cs" /\ pc[u] = "cs" => t = u

\* As long as nobody is killed, a free mutex with a sleeper has a thread awake
\* that will take the mutex or wake the sleeper: no wakeup is lost although
\* mutexUnlock stores 0 first and reads the waiters afterwards.
NoLostWakeup ==
  alive = Proc /\ mutex = Free /\ Sleepers # {} =>
    \E t \in Thread : pc[t] \notin {"idle", "sleep"}

\* The word leaves the pid of a living process only by that process's own
\* mutexUnlock: recovery never takes the lock from a live holder.
LiveLockKept ==
  [][\A p \in alive :
       mutex = p /\ mutex' # p =>
         \E t \in Thread : ProcOf[t] = p /\ pc[t] = "cs" /\ pc'[t] = "unlocked"]_vars

Trying(t) == pc[t] \notin {"idle", "cs", "unlocked", "uwake", "dead"}

\* A thread that wants the mutex does not wait forever with nobody inside, even
\* when the holder, or the thread that was just woken, has been killed.
Progress ==
  \A t \in Thread :
    Trying(t) ~> ((\E u \in Thread : pc[u] = "cs") \/ pc[t] = "dead")

----------------------------------------------------------------------------
(* The inductive invariant *)

\* The holder's pid is in the word, the holder is alive, and a thread about to
\* recover has seen the pid of a process that is gone.
Ownership ==
  /\ \A t \in Thread : pc[t] # "dead" => ProcOf[t] \in alive
  /\ \A t \in Thread : pc[t] = "cs" => mutex = ProcOf[t]
  /\ \A t \in Thread : pc[t] = "recover" => seen[t] \notin alive

\* Nobody waits for a word that it has seen free.
Waiting == \A t \in Thread : pc[t] = "wait" => seen[t] # Free
=============================================================================
