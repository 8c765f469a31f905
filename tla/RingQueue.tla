----------------------------- MODULE RingQueue ------------------------------
(***************************************************************************)
(* What the request queue of an integer segment promises.  It is a FIFO,   *)
(* and each request is handed out once and whole; but a call takes time:   *)
(* a request has its place in the order before it can be received, and a   *)
(* request that was handed out occupies its place for a while.  With one   *)
(* consumer these are the steps PeerSlots takes on its queue.              *)
(***************************************************************************)
EXTENDS Naturals, Sequences, FiniteSets

CONSTANTS
  Cap,       \* number of places
  Producer,
  Consumer,
  Request    \* what is sent

VARIABLES
  queue,     \* pairs <<producer, request>>, oldest first
  sending,   \* the producers whose request is in the queue and not yet there
  taking,    \* the consumers that were handed a request and occupy its place
  got        \* per consumer: what the last receive handed out

vars == <<queue, sending, taking, got>>

Init ==
  /\ queue = <<>>
  /\ sending = {} /\ taking = {}
  /\ got \in [Consumer -> Request]

Send(p, r) ==
  /\ p \notin sending
  /\ Len(queue) + Cardinality(taking) < Cap
  /\ queue' = Append(queue, <<p, r>>)
  /\ sending' = sending \cup {p}
  /\ UNCHANGED <<taking, got>>

Sent(p) ==
  /\ sending' = sending \ {p}
  /\ UNCHANGED <<queue, taking, got>>

\* The head of the queue is there: its producer is not sending, or sends another.
HeadIsThere ==
  /\ queue # <<>>
  /\ Head(queue)[1] \in sending =>
       \E k \in 2..Len(queue) : queue[k][1] = Head(queue)[1]

Recv(c) ==
  /\ c \notin taking
  /\ HeadIsThere
  /\ got' = [got EXCEPT ![c] = Head(queue)[2]]
  /\ queue' = Tail(queue)
  /\ taking' = taking \cup {c}
  /\ UNCHANGED sending

Received(c) ==
  /\ taking' = taking \ {c}
  /\ UNCHANGED <<queue, sending, got>>

\* What a call that was under way had in its hands is of no importance any more.
Clear ==
  /\ queue' = <<>>
  /\ sending' = {} /\ taking' = {}
  /\ got' \in [Consumer -> Request]
  /\ \A c \in Consumer \ taking : got'[c] = got[c]

Next ==
  \/ \E p \in Producer : Sent(p) \/ \E r \in Request : Send(p, r)
  \/ \E c \in Consumer : Recv(c) \/ Received(c)
  \/ Clear

Spec == Init /\ [][Next]_vars
=============================================================================
