---------------------------- MODULE PeerBlocking ----------------------------
(***************************************************************************)
(* Blocking send and receive with C processes among the senders and the    *)
(* receivers.  They use the same futex words, in other ways:               *)
(*  - a C waker reads the waiters first and bumps the counter only if       *)
(*    there are any, so a bump is missed by whoever has loaded the counter  *)
(*    and not registered yet;                                              *)
(*  - a C waiter sleeps until it is woken or its deadline has passed: there *)
(*    is no cap of 2 s, and no deadline if the timeout is negative;        *)
(*  - it registers before it looks at the time left, and makes a last       *)
(*    attempt when the wait has timed out.                                 *)
(* The four loops (reqrep_send_wait, reqrep_recv_wait and their integer     *)
(* counterparts) are the same but for the attempt; that the lock-free ring  *)
(* of the integer mode behaves as one queue is the subject of IntQueue.     *)
(*                                                                         *)
(* For a C thread, expired says that the deadline of its call has passed.   *)
(***************************************************************************)
EXTENDS Blocking

CONSTANT Mixes    \* which threads may be the ones of C processes

ASSUME PeerBlockingAssumption == Mixes \subseteq SUBSET Thread

VARIABLE peers    \* the threads of C processes

peerVars == <<vars, peers>>

PeerInit == Init /\ peers \in Mixes

----------------------------------------------------------------------------
(* Wakeups: read waiters, bump, wake *)

reqrep_wake_consumers(c) ==
  \/ Look(c, "recv", "sentBump", "sentLook", "await")
  \/ Bump(c, "recv", "sentLook", "sentWake")
  \/ WakeOne(c, "recv", "sentWake", "await")

reqrep_wake_producers(r) ==
  \/ Look(r, "send", "gotBump", "gotLook", "recv")
  \/ Bump(r, "send", "gotLook", "gotWake")
  \/ WakeOne(r, "send", "gotWake", "recv")

reqrep_wake_slot_waiters(c) ==
  \/ Look(c, "slot", "freeBump", "freeLook", Resume(c))
  \/ Bump(c, "slot", "freeLook", "freeWake")
  \/ WakeOne(c, "slot", "freeWake", Resume(c))

----------------------------------------------------------------------------
(* The wait loop *)

reqrep_remaining_time(t) == t \notin expired

\* The loop ends after the attempt that follows a timeout.
PeerLoad(t) ==
  \/ /\ site[t] # "last"
     /\ LoadSeq(t)
  \/ /\ site[t] = "last"
     /\ Goto(t, "load", Ended(t))
     /\ UNCHANGED <<taken, queue, waiters, attempt, site, waits, expired>>

PeerRegister(t) ==
  /\ Goto(t, "deadline", "futex")
  /\ waiters' = [waiters EXCEPT ![word[t]] = @ + 1]
  /\ UNCHANGED <<taken, queue, attempt, site, waits, expired>>

\* The waiter count goes down; fseq is not used again.
Leave(t) ==
  /\ waiters' = [waiters EXCEPT ![word[t]] = @ - 1]
  /\ word' = [word EXCEPT ![t] = FirstWord(t)]
  /\ current' = current \ {t}

\* Mutant of PeerWait: the return at the deadline forgets to deregister.
PeerWaitKeeps(t) ==
  \/ /\ ~reqrep_remaining_time(t)
     /\ Goto(t, "futex", Ended(t))
     /\ word' = [word EXCEPT ![t] = FirstWord(t)]
     /\ current' = current \ {t}
     /\ UNCHANGED <<taken, queue, waiters, attempt, site, expired>>
  \/ reqrep_remaining_time(t) /\ FutexWait(t)

PeerWait(t) ==
  \/ /\ ~reqrep_remaining_time(t)
     /\ Goto(t, "futex", Ended(t))
     /\ Leave(t)
     /\ UNCHANGED <<taken, queue, attempt, site, expired>>
  \/ reqrep_remaining_time(t) /\ FutexWait(t)

\* ETIMEDOUT.
PeerTimeout(t) ==
  /\ ~reqrep_remaining_time(t)
  /\ Goto(t, "sleep", "woken")
  /\ site' = [site EXCEPT ![t] = "last"]
  /\ UNCHANGED <<taken, queue, waiters, attempt, waits, expired>>

\* EINTR.
PeerInterrupted(t) == SleepEnds(t)

PeerDeregister(t) ==
  /\ Leave(t)
  /\ Retry(t, "woken", IF site[t] = "last" THEN "last" ELSE "third")
  /\ UNCHANGED <<taken, queue, queries, mine, noSlots, expired>>

PeerWaitLoop(t) ==
  PeerLoad(t) \/ PeerRegister(t) \/ PeerWait(t) \/ PeerTimeout(t) \/ PeerDeregister(t)

----------------------------------------------------------------------------

reqrep_try_recv(r) == Recv(r) \/ RecvEmpty(r) \/ reqrep_wake_producers(r)

reqrep_recv_wait(r) == reqrep_try_recv(r) \/ PeerWaitLoop(r)

\* The attempts are those of reqrep_try_send.
reqrep_send_wait(c) ==
  \/ Scan(c) \/ ScanFailed(c) \/ Send(c) \/ SendFull(c)
  \/ reqrep_wake_consumers(c) \/ reqrep_wake_slot_waiters(c)
  \/ PeerWaitLoop(c)

\* A query of a C client ends when the response is drained.
PeerRun(t) ==
  \/ t \in Sender /\ (reqrep_send_wait(t) \/ Answered(t))
  \/ t \in Receiver /\ reqrep_recv_wait(t)

\* Either implementation; in Go the cap ends every sleep.
Advance(t) ==
  /\ IF t \in peers THEN PeerRun(t) ELSE Run(t) \/ SleepEnds(t)
  /\ UNCHANGED peers

PeerNext ==
  \/ \E t \in Thread : Advance(t)
  \/ /\ \/ \E c \in Sender : Query(c) \/ Cancel(c)
        \/ \E t \in Thread : Expire(t)
        \/ \E t \in peers : PeerInterrupted(t)
     /\ UNCHANGED peers

PeerSpec == PeerInit /\ [][PeerNext]_peerVars

\* As in Blocking; a C thread has no cap, and no signal is promised to it.
PeerFairSpec ==
  /\ PeerSpec
  /\ \A t \in Thread : WF_peerVars(Advance(t))
  /\ HasDeadline => \A c \in Sender : WF_peerVars(Cancel(c) /\ UNCHANGED peers)

----------------------------------------------------------------------------
(* Properties *)

\* RequestNoticed for requests of Go clients, C servers included: the bump that
\* comes first, whether somebody is registered or not, makes it so.
GoRequestNoticed == peers \cap Sender = {} => RequestNoticed

\* A request of either kind of client does not stay in the queue while a Go
\* server is at it, although C clients lose wakeups: the cap ends its sleep.
RequestTaken ==
  (queue # <<>>) ~> (queue = <<>> \/ \A r \in Receiver \ peers : pc[r] = "stopped")

\* Every query of a Go client gets its request through and ends, unless every
\* server is over, with C clients that compete and C servers that miss to wake it.
\* It rests on the 2 s cap of sendWait (periodicTimeout), which a comment in the
\* tests says is not there: see NoRescue.
GoSendEnds ==
  (\E c \in Sender \ peers : pc[c] # "idle") ~>
    \/ \A c \in Sender \ peers : pc[c] = "idle"
    \/ \A r \in Receiver : pc[r] = "stopped"

\* Go senders that sleep because the queue was full, though it is empty by now and
\* nobody is about to wake them.
Stranded ==
  {c \in Sender \ peers : AtRest /\ pc[c] = "sleep" /\ word[c] = "send" /\ queue = <<>>}

\* "Unlike recvWait, sendWait has no periodic 2-second rescue timeout, so with a
\* context.Background() the sender would block indefinitely": one that has missed its
\* wakeup and has no deadline sleeps on.
NoRescue == [][\A c \in Stranded : pc'[c] = "sleep"]_peerVars
=============================================================================
