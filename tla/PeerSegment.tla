---------------------------- MODULE PeerSegment -----------------------------
(***************************************************************************)
(* C processes create and open segments next to the Go processes of        *)
(* Segment: string segments, integer segments, and memfds passed from one  *)
(* process to another.  C takes the flock exclusively for opening, too;    *)
(* writes the magic first and not last; does not finish what another       *)
(* process left behind; and checks more of the header when it opens.       *)
(*                                                                         *)
(* The header of an integer segment is complete ("int") before the         *)
(* sequences of its ring are written ("ring").                             *)
(***************************************************************************)
EXTENDS Segment

CONSTANTS
  Calls,         \* the C calls made: "str", "int", "memfd"
  PeerOptions    \* the options of C creators

ASSUME PeerAssumption ==
  /\ Calls \subseteq {"str", "int", "memfd"}
  /\ PeerOptions \subseteq Options

VARIABLE call    \* call[p]: the call p is in, or that opened its segment; "go" without one

peerVars == <<vars, call>>

PeerInit == Init /\ call = [p \in Opener |-> "go"]

C(p) == call[p] # "go"

----------------------------------------------------------------------------
(* Layout *)

reqrep_next_pow2(v) == nextPow2(v)

\* No defaults but for the arena.
PeerFilled(o) ==
  LET cap == reqrep_next_pow2(o.reqCap)
  IN  [reqCap |-> cap, respSlots |-> o.respSlots, respDataMax |-> o.respDataMax,
       arenaHint |-> IF o.reqArenaCap = 0 THEN cap * 256 ELSE o.reqArenaCap]

\* The stride of the responses is cut to 32 bits, as RespStride is; C has no guard
\* on the response size, so this layout can have slots smaller than a response.
reqrep_compute_layout(d) == computeLayout(d)

\* No C creator comes with a response size for which the stride wraps.
StridesFit == \A o \in PeerOptions : o.respDataMax <= MaxUint32 - RespSlotSize - 63

PeerAcceptable(d) ==
  /\ d.reqCap # 0 /\ d.respSlots # 0
  /\ ReqArenaOff(d) <= MaxUint32
  /\ d.arenaHint <= MaxUint32
  /\ RespOff(d) <= MaxUint32

ReqIntSlotSize == 24

\* Mutant of IntRespOff: the size of a slot without its sequence.
IntRespOffShort(d) == Align(HeaderSize + d.reqCap * (ReqIntSlotSize - 8), 64)

IntRespOff(d) == Align(HeaderSize + d.reqCap * ReqIntSlotSize, 64)

reqrep_int_compute_layout(d) ==
  LET stride == Align(RespSlotSize + 8, 64)
  IN  [reqCap |-> d.reqCap, respSlots |-> d.respSlots, respDataMax |-> 8,
       reqSlotsOff |-> HeaderSize, reqArenaOff |-> 0, reqArenaCap |-> 0,
       respOff |-> IntRespOff(d), respStride |-> stride,
       totalSize |-> IntRespOff(d) + d.respSlots * stride]

IntAcceptable(d) ==
  /\ d.reqCap # 0 /\ d.respSlots # 0
  /\ IntRespOff(d) <= MaxUint32

\* The layouts a creator may come with.
PeerLayouts(mode) ==
  LET filled == {PeerFilled(o) : o \in PeerOptions}
  IN  IF mode = "str"
      THEN { reqrep_compute_layout(d) : d \in {e \in filled : PeerAcceptable(e)} }
      ELSE { reqrep_int_compute_layout(d) : d \in {e \in filled : IntAcceptable(e)} }

----------------------------------------------------------------------------
(* reqrep_create, reqrep_create_int and reqrep_open *)

\* A creator computes the layout of its options first.
PeerChoose(p, mode) ==
  IF p \in Server
  THEN \E l \in PeerLayouts(mode) : want' = [want EXCEPT ![p] = l]
  ELSE UNCHANGED want

PeerOpenFile(p, mode) ==
  /\ path # NoFile
  /\ Goto(p, "idle", "flock")
  /\ call' = [call EXCEPT ![p] = mode]
  /\ fd' = [fd EXCEPT ![p] = path]
  /\ PeerChoose(p, mode)
  /\ UNCHANGED <<path, file, holders, mapped, view, err>>

PeerCreateFile(p, mode) ==
  /\ p \in Server /\ path = NoFile
  /\ Goto(p, "idle", "flock")
  /\ call' = [call EXCEPT ![p] = mode]
  /\ \E i \in Inode :
       /\ \A q \in Opener : fd[q] # i
       /\ path' = i
       /\ fd' = [fd EXCEPT ![p] = i]
  /\ PeerChoose(p, mode)
  /\ UNCHANGED <<file, holders, mapped, view, err>>

\* Only a Go client takes the lock shared.
Exclusive(p) == p \in Server \/ C(p)

\* Mutant of PeerLock: everybody takes the lock shared.
PeerLockShared(p) ==
  /\ Goto(p, "flock", "stat")
  /\ holders' = [holders EXCEPT ![fd[p]] = @ \cup {p}]
  /\ UNCHANGED <<path, file, fd, want, mapped, view, err>>

PeerLock(p) ==
  /\ Goto(p, "flock", "stat")
  /\ \A q \in holders[fd[p]] : ~Exclusive(p) /\ ~Exclusive(q)
  /\ holders' = [holders EXCEPT ![fd[p]] = @ \cup {p}]
  /\ UNCHANGED <<path, file, fd, want, mapped, view, err>>

HeadsOf(mode) == IF mode = "int" THEN {"int", "ring"} ELSE {"full"}

\* Mutant of reqrep_validate_header: the arena must end before the responses.
ValidateStrict(f, size, mode) ==
  /\ f.head \in HeadsOf(mode)
  /\ mode = "str" => f.layout.reqArenaOff + f.layout.reqArenaCap < f.layout.respOff

reqrep_validate_header(f, size, mode) ==
  /\ f.head \in HeadsOf(mode)
  /\ LET l == f.layout
         slotsEnd == l.reqSlotsOff + l.reqCap * (IF mode = "str" THEN ReqSlotSize ELSE ReqIntSlotSize)
         arenaEnd == l.reqArenaOff + l.reqArenaCap
     IN  /\ IsPow2(l.reqCap)
         /\ l.totalSize = size
         /\ l.reqSlotsOff = HeaderSize
         /\ l.respSlots # 0
         /\ l.respStride >= RespSlotSize
         /\ slotsEnd <= l.totalSize
         /\ mode = "str" =>
              l.reqArenaOff >= slotsEnd /\ arenaEnd <= l.totalSize /\ l.respOff >= arenaEnd
         /\ l.respOff >= slotsEnd
         /\ l.respOff + l.respSlots * l.respStride <= l.totalSize

\* A file that is not new has to be valid; what a crash left is not finished.
PeerCheck(p) ==
  /\ pc[p] = "check"
  /\ \/ /\ reqrep_validate_header(file[fd[p]], mapped[p], call[p])
        /\ Goto(p, "check", "unlock")
        /\ UNCHANGED <<path, file, holders, fd, want, mapped, view, err>>
     \/ /\ ~reqrep_validate_header(file[fd[p]], mapped[p], call[p])
        /\ Fail(p, "check", "invalid")

\* The rest of the header after the magic (InitFields), resp_stride last, then the
\* response slots, which are zero already.
reqrep_init_header(p) ==
  \/ InitFields(p)
  \/ /\ Goto(p, "magic", "unlock")
     /\ file' = [file EXCEPT ![fd[p]].head = "full", ![fd[p]].layout = want[p]]
     /\ UNCHANGED <<path, holders, fd, want, mapped, view, err>>

\* The sequences of the ring follow the complete header.
reqrep_int_init_header(p) ==
  \/ InitFields(p)
  \/ /\ Goto(p, "magic", "sequences")
     /\ file' = [file EXCEPT ![fd[p]].head = "int", ![fd[p]].layout = want[p]]
     /\ UNCHANGED <<path, holders, fd, want, mapped, view, err>>
  \/ /\ Goto(p, "sequences", "unlock")
     /\ file' = [file EXCEPT ![fd[p]].head = "ring"]
     /\ UNCHANGED <<path, holders, fd, want, mapped, view, err>>

\* The handle caches the layout of the header.
reqrep_setup_handle(p) == setupShm(p)

\* Mutant of reqrep_create_int: the lock is released before the sequences.
CreateIntEarlyUnlock(p) ==
  \/ Stat(p) \/ Truncate(p) \/ PeerCheck(p) \/ InitFields(p) \/ Unlock(p) \/ reqrep_setup_handle(p)
  \/ /\ Goto(p, "magic", "sequences")
     /\ file' = [file EXCEPT ![fd[p]].head = "int", ![fd[p]].layout = want[p]]
     /\ holders' = [holders EXCEPT ![fd[p]] = @ \ {p}]
     /\ UNCHANGED <<path, fd, want, mapped, view, err>>
  \/ /\ Goto(p, "sequences", "unlock")
     /\ file' = [file EXCEPT ![fd[p]].head = "ring"]
     /\ UNCHANGED <<path, holders, fd, want, mapped, view, err>>

reqrep_create(p) ==
  Stat(p) \/ Truncate(p) \/ PeerCheck(p) \/ reqrep_init_header(p) \/ Unlock(p) \/ reqrep_setup_handle(p)

reqrep_create_int(p) ==
  Stat(p) \/ Truncate(p) \/ PeerCheck(p) \/ reqrep_int_init_header(p) \/ Unlock(p) \/ reqrep_setup_handle(p)

reqrep_open(p) == Stat(p) \/ PeerCheck(p) \/ Unlock(p) \/ reqrep_setup_handle(p)

----------------------------------------------------------------------------
(* reqrep_create_memfd, reqrep_create_int_memfd and reqrep_open_fd *)

\* Nobody can see the file before the call returns: it is one step.
CreateMemfd(p, mode) ==
  /\ p \in Server
  /\ Goto(p, "idle", "ready")
  /\ call' = [call EXCEPT ![p] = "memfd"]
  /\ \E l \in PeerLayouts(mode), i \in Inode \ {path} :
       /\ \A q \in Opener : fd[q] # i
       /\ file' = [file EXCEPT ![i] = [size |-> l.totalSize, layout |-> l,
                                       head |-> IF mode = "str" THEN "full" ELSE "ring"]]
       /\ fd' = [fd EXCEPT ![p] = i]
       /\ mapped' = [mapped EXCEPT ![p] = l.totalSize]
       /\ view' = [view EXCEPT ![p] = l]
  /\ UNCHANGED <<path, holders, want, err>>

\* The descriptor comes from a process that has the memfd; no lock is taken, and
\* the file, which is sealed, has its header.
reqrep_open_fd(p, mode) ==
  \E q \in Opener :
    LET f == file[fd[q]]
    IN  /\ pc[q] = "ready" /\ call[q] = "memfd"
        /\ reqrep_validate_header(f, f.size, mode)
        /\ Goto(p, "idle", "ready")
        /\ call' = [call EXCEPT ![p] = "memfd"]
        /\ fd' = [fd EXCEPT ![p] = fd[q]]
        /\ mapped' = [mapped EXCEPT ![p] = f.size]
        /\ view' = [view EXCEPT ![p] = f.layout]
        /\ UNCHANGED <<path, file, holders, want, err>>

reqrep_destroy(p) == Close(p)

----------------------------------------------------------------------------

GoCall(p) ==
  /\ OpenFile(p) \/ Create(p)
  /\ call' = [call EXCEPT ![p] = "go"]

PeerCall(p) ==
  \E mode \in {"str", "int"} :
    \/ mode \in Calls /\ (PeerOpenFile(p, mode) \/ PeerCreateFile(p, mode))
    \/ "memfd" \in Calls /\ (CreateMemfd(p, mode) \/ reqrep_open_fd(p, mode))

PeerStep(p) ==
  \/ ~C(p) /\ Step(p)
  \/ p \in Server /\ call[p] = "str" /\ reqrep_create(p)
  \/ p \in Server /\ call[p] = "int" /\ reqrep_create_int(p)
  \/ p \in Client /\ C(p) /\ reqrep_open(p)

PeerNext ==
  \/ \E p \in Opener : GoCall(p) \/ PeerCall(p)
  \/ \E p \in Opener :
       /\ \/ PeerLock(p) \/ PeerStep(p) \/ Crash(p)
          \/ ~C(p) /\ Close(p)
          \/ C(p) /\ reqrep_destroy(p)
       /\ call' = [call EXCEPT ![p] = IF pc'[p] = "idle" THEN "go" ELSE @]
  \/ Remove /\ UNCHANGED call

PeerSpec == PeerInit /\ [][PeerNext]_peerVars

----------------------------------------------------------------------------
(* Properties, besides those of Segment *)

\* Nobody has a segment open while its creator is still at work on it: neither the
\* header nor the ring of an integer segment is written under a user.
CreatedAlone ==
  \A p, q \in Opener :
    pc[p] = "ready" /\ fd[q] = fd[p] => pc[q] \notin {"truncate", "init", "magic", "sequences"}

\* What either implementation created, both open, in the mode it was created in.
PeerCreatedOpens ==
  [][\A p \in Opener :
       pc[p] = "check" /\ err'[p] = "invalid" => file[fd[p]].head \notin HeadsOf(call[p])]_peerVars

\* The request and the response slots of an integer layout follow each other
\* without overlap, and their offsets fit 32 bits.
IntSound(l) ==
  /\ l.reqSlotsOff + l.reqCap * ReqIntSlotSize <= l.respOff
  /\ l.respOff + l.respSlots * l.respStride <= l.totalSize
  /\ RespSlotSize + 8 <= l.respStride
  /\ l.respOff % 64 = 0 /\ l.respStride % 64 = 0 /\ l.respOff <= MaxUint32

\* Every layout that gets into the header of an integer segment is sound.
IntLayouts == \A i \in Inode : file[i].head \in {"int", "ring"} => IntSound(file[i].layout)

----------------------------------------------------------------------------
(* The inductive invariant *)

\* An integer layout reqrep_validate_header accepts in a file of its size.
IntGood(l) ==
  /\ l \in Layout /\ IntSound(l) /\ IsPow2(l.reqCap)
  /\ l.reqSlotsOff = HeaderSize /\ l.respSlots # 0 /\ l.totalSize > 0

\* What a string layout of either implementation is: good, if no stride wraps.
StrGood(l) == l \in Layout /\ l.totalSize > 0 /\ (StridesFit => Good(l))

GoodOf(mode, l) == IF mode = "int" THEN IntGood(l) ELSE StrGood(l)

\* A complete header has a good layout, of its mode, that fits the file.
PeerGoodFiles ==
  \A i \in Inode : file[i].head \in Complete =>
    /\ GoodOf(IF file[i].head = "full" THEN "str" ELSE "int", file[i].layout)
    /\ file[i].layout.totalSize = file[i].size

\* Segment's Course, in the mode of the call: only a server, alone, writes the
\* ring of an integer segment, and a memfd has its whole header.
PeerCourseOf(p) ==
  /\ pc[p] = "idle" => ~C(p)
  /\ call[p] = "memfd" => pc[p] = "ready"
  /\ pc[p] \in {"truncate", "init", "magic"} => p \in Server /\ file[fd[p]].head \notin Complete
  /\ pc[p] = "sequences" => p \in Server /\ call[p] = "int" /\ file[fd[p]].head = "int"
  /\ p \in Server /\ pc[p] \in {"flock", "stat", "truncate", "check", "init", "magic"} =>
       GoodOf(call[p], want[p])
  /\ pc[p] \in {"init", "magic"} => mapped[p] = want[p].totalSize
  /\ pc[p] \in {"check", "init", "magic", "sequences"} => mapped[p] = file[fd[p]].size
  /\ pc[p] # "unlock" => err[p] = "none"
  /\ pc[p] \in {"unlock", "setup", "ready"} /\ err[p] = "none" =>
       /\ file[fd[p]].head \in (IF call[p] = "memfd" THEN {"full", "ring"} ELSE HeadsOf(call[p]))
       /\ mapped[p] = file[fd[p]].size
  /\ pc[p] = "ready" => view[p] = file[fd[p]].layout

\* A memfd is at no path, and only those who got its descriptor have it; while a
\* creator writes the ring of an integer segment nobody else has passed the lock.
Private ==
  \A p, q \in Opener :
    /\ call[p] = "memfd" => fd[p] # path /\ (fd[q] = fd[p] => call[q] = "memfd")
    /\ pc[p] = "sequences" /\ fd[q] = fd[p] => pc[q] \notin {"setup", "ready"}

PeerIInv ==
  /\ TypeOK /\ call \in [Opener -> {"go", "str", "int", "memfd"}]
  /\ PeerGoodFiles /\ (\A p \in Opener : PeerCourseOf(p)) /\ Private
=============================================================================
