---------------------------- MODULE MCArenaQueue ----------------------------
EXTENDS PeerArena

CONSTANTS
  Lengths,      \* payload lengths of which several fit the arena together
  LongLengths   \* payload lengths that fit alone, or not at all

\* A payload repeats one byte, which also gives its id.
Payload(n, b) == [data |-> [k \in 1..n |-> b], slot |-> b - 1, gen |-> b]

\* Two kinds of the payloads that meet in the arena, one of the others.
MCRequest ==
  { Payload(n, b) : n \in Lengths, b \in 1..2 } \cup { Payload(n, 1) : n \in LongLengths }

MCPeerRequest == { Payload(n, 1) : n \in Lengths } \cup { Payload(41, 1) }

MCByte == 0..2
=============================================================================
