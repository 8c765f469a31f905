------------------------------ MODULE MCMutex -------------------------------
EXTENDS PeerMutex, TLC

CONSTANTS p1, p2, t1, t2, t3

\* Two threads in one process, one in another.
MCProcOf == t1 :> p1 @@ t2 :> p2 @@ t3 :> p2

\* Go processes only, or one process of each kind.
MCMixes == { {}, {p1}, {p2} }
=============================================================================
