------------------------------ MODULE MCPeerSegment -------------------------
EXTENDS PeerSegment, TLC

Symmetry == Permutations(Server) \cup Permutations(Inode)

Opt(cap, arena, slots, max) ==
  [reqCap |-> cap, reqArenaCap |-> arena, respSlots |-> slots, respDataMax |-> max]

\* In words of 20 bits: a queue so long that the default size of its arena does
\* not fit, with the longest response; sizes off every boundary; and options
\* refused for their response size, their capacity and either offset.
MCOptions ==
  { Opt(4096, 0, 1, MaxUint32 - 95), Opt(5, 4097, 3, 33),
    Opt(2, 0, 1, MaxUint32 - 31), Opt(MaxUint32, 0, 1, 1), Opt(2^17, 0, 1, 1),
    Opt(2, MaxUint32, 1, 1) }

\* Of these a C creator uses the one off every boundary, as Go creators do; the
\* capacity is refused.
MCPeerOptions == { Opt(5, 4097, 3, 33), Opt(MaxUint32, 0, 1, 1) }

\* Files of another program, one too small for a header.
MCFirstFile ==
  { [size |-> n, head |-> "foreign", layout |-> NoLayout] : n \in {100, 5000} }
=============================================================================
