------------------------------ MODULE PeerArena -----------------------------
(***************************************************************************)
(* The request queue with C clients and servers, which use the same ring   *)
(* and arena, and with reqrep_clear, which empties both.  C allocates as    *)
(* Go does but does not compare the payload with the size of the arena     *)
(* (its own limit is 2^31 - 1 bytes): alone in the queue, a longer one is  *)
(* accepted and copied past the end.  What lies there is not modelled; the *)
(* ring and the counters, which lie before the arena, stay as they are.    *)
(***************************************************************************)
EXTENDS ArenaQueue

CONSTANTS
  PeerRequest,     \* the requests of C clients
  MaxClearedSends  \* bound on the requests sent in a behaviour with a clear

ASSUME PeerArenaAssumption == PeerRequest \subseteq Request /\ MaxClearedSends \in Nat

VARIABLE cleared    \* requests sent before the last reqrep_clear

PeerArenaOk(n) == ArenaFull(n) => head = tail

\* Returns 1, or 0 for a full ring or arena.
reqrep_send_locked(r) ==
  \/ PeerArenaOk(Len(r.data)) /\ Enqueue(r)
  \/ /\ QueueFull \/ ~PeerArenaOk(Len(r.data))
     /\ refused' = r
     /\ UNCHANGED <<head, tail, ring, wpos, used, arena, got>>

\* Returns 1 with the oldest request, or 0.
reqrep_recv_locked == Dequeue \/ RecvEmpty

\* Mutant of ClearQueue: the arena is not given back.
ClearQueueOnly ==
  /\ head' = 0 /\ tail' = 0
  /\ UNCHANGED <<ring, wpos, used, arena, refused, got>>

\* reqrep_clear under the mutex.
ClearQueue ==
  /\ head' = 0 /\ tail' = 0
  /\ wpos' = 0 /\ used' = 0
  /\ UNCHANGED <<ring, arena, refused, got>>

PeerInit == Init /\ cleared = 0

PeerNext ==
  /\ \/ /\ \/ Next
           \/ reqrep_recv_locked
           \/ \E r \in PeerRequest : reqrep_send_locked(r)
        /\ UNCHANGED cleared
     \/ /\ ClearQueue
        /\ cleared' = cleared + tail
  /\ cleared' > 0 => cleared' + tail' <= MaxClearedSends

PeerSpec == PeerInit /\ [][PeerNext]_<<vars, cleared>>

----------------------------------------------------------------------------

\* No C client offers a payload longer than the arena.
PeersFit == \A r \in PeerRequest : Len(r.data) <= ReqArenaCap

\* No request in flight is longer than the arena, so each lies inside it whole.
Fitting == \A i \in Live : Entry(i).len <= ReqArenaCap

\* The ring and the arena, used by both implementations, are the bounded FIFO,
\* which reqrep_clear empties, as long as payloads fit the arena: whatever is
\* sent after a clear comes out whole.
RefinesClearable ==
  BQ!Init /\ [][BQ!Next \/ (head' = 0 /\ tail' = 0 /\ BQ!Clear)]_(BQ!vars)
=============================================================================
