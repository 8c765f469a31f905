---------------------------- MODULE MCRespSlots -----------------------------
EXTENDS RespSlots, TLC

CONSTANTS c1, c2, c3, p1, p2, FirstQueries, OtherQueries

\* Client c1 in a process of its own, the others in a second one.
MCPidOf == [c \in Client |-> IF c = c1 THEN p1 ELSE p2]

\* The number of queries of c1, and of each other client.
MCMaxQueries == [c \in Client |-> IF c = c1 THEN FirstQueries ELSE OtherQueries]
=============================================================================
