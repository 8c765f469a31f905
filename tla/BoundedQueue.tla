---------------------------- MODULE BoundedQueue ----------------------------
(***************************************************************************)
(* What the request queue of the shared segment promises: a FIFO of        *)
(* requests, at most Cap of them in flight, each handed out once, whole    *)
(* and unchanged, together with the response id it was sent with.  An      *)
(* empty queue accepts every request that fits the arena at all, and a     *)
(* receive reports "empty" only when nothing is in flight.                 *)
(***************************************************************************)
EXTENDS Naturals, Sequences

CONSTANTS
  Cap,       \* the largest number of requests in flight
  MaxLen,    \* the longest payload the queue can ever take
  Request,   \* records [data, slot, gen]: payload and both halves of the id
  NoRequest  \* what a receive returns when the queue is empty

VARIABLES
  queue,     \* the requests in flight, oldest first
  refused,   \* the request the last send refused, or NoRequest
  got        \* what the last receive returned

vars == <<queue, refused, got>>

Init ==
  /\ queue = <<>>
  /\ refused = NoRequest
  /\ got = NoRequest

Send(r) ==
  /\ Len(queue) < Cap
  /\ Len(r.data) <= MaxLen
  /\ queue' = Append(queue, r)
  /\ refused' = NoRequest
  /\ UNCHANGED got

\* A refusal needs a reason: something in flight, or a hopeless payload.
Refuse(r) ==
  /\ queue # <<>> \/ Len(r.data) > MaxLen
  /\ refused' = r
  /\ UNCHANGED <<queue, got>>

Recv ==
  /\ queue # <<>>
  /\ got' = Head(queue)
  /\ queue' = Tail(queue)
  /\ UNCHANGED refused

RecvEmpty ==
  /\ queue = <<>>
  /\ got' = NoRequest
  /\ UNCHANGED <<queue, refused>>

\* Not a step of Next: only reqrep_clear takes it (PeerArena).
Clear ==
  /\ queue' = <<>>
  /\ UNCHANGED <<refused, got>>

Next ==
  \/ Recv
  \/ RecvEmpty
  \/ \E r \in Request : Send(r) \/ Refuse(r)

Spec == Init /\ [][Next]_vars
=============================================================================
