---------------------------- MODULE MCPeerSlots -----------------------------
EXTENDS PeerSlots, TLC

CONSTANTS c1, c2, p1, p2, FirstQueries, OtherQueries

\* Client c1 in a process of its own, the others in a second one.
MCPidOf == [c \in Client |-> IF c = c1 THEN p1 ELSE p2]

\* The number of queries of c1, and of each other client.
MCMaxQueries == [c \in Client |-> IF c = c1 THEN FirstQueries ELSE OtherQueries]

StrSegment(go, c) ==
  [mode |-> "str", go |-> go, c |-> c, queries |-> 2, clears |-> 0, expires |-> FALSE, fails |-> FALSE]
IntSegment(c) == [StrSegment({}, c) EXCEPT !.mode = "int"]

\* A Go and a C client on a string segment; two C clients on an integer segment.
Mixed == {StrSegment({c1}, {c2}), IntSegment({c1, c2})}

\* The same with deadlines: two clients with one query each, and a client alone
\* with three.
MixedLate ==
  LET late(w, n) == [w EXCEPT !.expires = TRUE, !.queries = n]
  IN  {late(StrSegment({c1}, {c2}), 1), late(IntSegment({c1, c2}), 1)}
        \cup {late(StrSegment({c1}, {}), 3), late(StrSegment({}, {c1}), 3), late(IntSegment({c1}), 3)}

\* Two clients, one of which is killed; a client alone with its deadline, a server
\* that may fail and a process that clears.
Doomed ==
  {StrSegment({c1, c2}, {}), StrSegment({c1}, {c2})}
    \cup {[w EXCEPT !.expires = TRUE, !.fails = TRUE, !.clears = 1] :
             w \in {StrSegment({c1}, {}), StrSegment({}, {c1})}}

\* One C client with a deadline; one C client next to a process that clears.
OneLate == {[StrSegment({}, {c1}) EXCEPT !.expires = TRUE]}
OneCleared == {[StrSegment({}, {c1}) EXCEPT !.clears = 1]}
=============================================================================
