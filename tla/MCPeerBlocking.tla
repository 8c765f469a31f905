--------------------------- MODULE MCPeerBlocking ---------------------------
EXTENDS PeerBlocking

CONSTANTS c1, c2, r1

\* A C client next to a Go client and a Go server, or Go clients and a C server.
\* (Go alone is the subject of BlockingProofs.)
MCMixes == { {c1}, {r1} }
=============================================================================
