------------------------------ MODULE MCSegment -----------------------------
EXTENDS Segment

Opt(cap, arena, slots, max) ==
  [reqCap |-> cap, reqArenaCap |-> arena, respSlots |-> slots, respDataMax |-> max]

Small == Opt(0, 100, 0, 0)

\* In words of 20 bits: a segment by default but for its arena; a queue so long
\* that the default size of its arena does not fit, with the longest response;
\* sizes off every boundary; and options refused for their response size, their
\* capacity and either offset.
MCOptions ==
  { Small, Opt(4096, 0, 1, MaxUint32 - 95), Opt(5, 4097, 3, 33),
    Opt(2, 0, 1, MaxUint32 - 31), Opt(MaxUint32, 0, 1, 1), Opt(2^17, 0, 1, 1),
    Opt(2, MaxUint32, 1, 1) }

\* Files of another program, one too small for a header.
MCFirstFile ==
  { [size |-> n, head |-> "foreign", layout |-> NoLayout] : n \in {100, 5000} }
=============================================================================
