---------------------------- MODULE SegmentProofs ----------------------------
(***************************************************************************)
(* The layout of the segment, for every word width and all options, and    *)
(* the creation of the segment by any number of processes.                 *)
(***************************************************************************)
EXTENDS Segment, TLAPS

\* What a filled-in set of options is made of.
Filling == [reqCap : Nat, respDataMax : 0..MaxUint32, respSlots : Nat \ {0}, arenaHint : Nat]

\* Reduction to 32 bits.
LEMMA Reduced ==
  ASSUME NEW x \in Nat
  PROVE  x % (MaxUint32 + 1) \in 0..MaxUint32 /\ (x <= MaxUint32 => x % (MaxUint32 + 1) = x)
  BY SegmentAssumption

\* Rounding up to a multiple of 8 or 64.
LEMMA Aligned ==
  ASSUME NEW x \in Nat
  PROVE  /\ Align(x, 8) \in Nat /\ Align(x, 8) >= x /\ Align(x, 8) % 8 = 0
         /\ Align(x, 64) \in Nat /\ Align(x, 64) >= x /\ Align(x, 64) % 64 = 0
  BY DEF Align

\* Accepted options have a power of two for a capacity, and slots.
LEMMA FillingOk ==
  ASSUME NEW o \in Options, Acceptable(Filled(o))
  PROVE  Filled(o) \in Filling
<1> DEFINE d == Filled(o)
<1>1. d.reqCap \in Nat \ {0}
  BY DEF Acceptable, IsPow2
<1>2. o \in [reqCap : 0..MaxUint32, reqArenaCap : 0..MaxUint32,
             respSlots : 0..MaxUint32, respDataMax : 0..MaxUint32]
  BY SegmentAssumption
<1>3. d.respDataMax \in 0..MaxUint32
  BY <1>2, SegmentAssumption DEF Filled
<1>4. d.respSlots \in Nat \ {0}
  BY <1>1, <1>2, SegmentAssumption DEF Filled
<1>5. d.arenaHint \in Nat
  BY <1>1, <1>2, SegmentAssumption DEF Filled
<1>6. d = [reqCap |-> d.reqCap, respDataMax |-> d.respDataMax, respSlots |-> d.respSlots,
           arenaHint |-> d.arenaHint]
  BY DEF Filled
<1> QED
  BY <1>1, <1>3, <1>4, <1>5, <1>6 DEF Filling

\* The response slots are aligned and large enough.
LEMMA StrideOk ==
  ASSUME NEW d \in Filling, d.respDataMax <= MaxUint32 - RespSlotSize - 63
  PROVE  /\ RespStride(d) \in Nat /\ RespStride(d) % 64 = 0
         /\ RespStride(d) >= RespSlotSize + d.respDataMax
<1> DEFINE x == RespSlotSize + d.respDataMax + 63
<1>1. x \in Nat /\ x <= MaxUint32
  BY SegmentAssumption DEF Filling, RespSlotSize
<1>2. x % (MaxUint32 + 1) = x
  BY <1>1, Reduced
<1>3. RespStride(d) = (x \div 64) * 64
  BY <1>2 DEF RespStride
<1> QED
  BY <1>1, <1>3 DEF Filling, RespSlotSize

\* computeLayout returns a layout of a file that is not empty, even if the stride wraps.
LEMMA LayoutTyped ==
  ASSUME NEW d \in Filling
  PROVE  computeLayout(d) \in Layout /\ computeLayout(d).totalSize > 0
<1>1. ReqArenaCap(d) \in Nat /\ ReqArenaCap(d) >= 4096
  BY Reduced, SegmentAssumption DEF ReqArenaCap, Filling
<1>2. ReqArenaOff(d) \in Nat
  BY Aligned DEF ReqArenaOff, Filling, HeaderSize, ReqSlotSize
<1>3. RespOff(d) \in Nat /\ RespOff(d) > 0
  BY <1>1, <1>2, Aligned DEF RespOff
<1>4. RespStride(d) \in Nat
  BY Reduced, SegmentAssumption DEF RespStride, Filling, RespSlotSize
<1>5. d.respSlots * RespStride(d) \in Nat
  BY <1>4 DEF Filling
<1> QED
  BY <1>1, <1>2, <1>3, <1>4, <1>5 DEF computeLayout, Layout, Filling, TotalSize, HeaderSize

\* computeLayout lays the regions out one after the other.
LEMMA LaidOut ==
  ASSUME NEW d \in Filling, d.respDataMax <= MaxUint32 - RespSlotSize - 63,
         IsPow2(d.reqCap), ReqArenaOff(d) <= MaxUint32, RespOff(d) <= MaxUint32
  PROVE  Good(computeLayout(d))
<1> USE DEF HeaderSize, ReqSlotSize
<1>1. ReqArenaCap(d) \in Nat /\ ReqArenaCap(d) >= 4096
  BY Reduced, SegmentAssumption DEF ReqArenaCap, Filling
<1>2. /\ ReqArenaOff(d) \in Nat /\ ReqArenaOff(d) % 8 = 0
      /\ ReqArenaOff(d) >= HeaderSize + d.reqCap * ReqSlotSize
  BY Aligned DEF ReqArenaOff, Filling
<1>3. /\ RespOff(d) \in Nat /\ RespOff(d) % 64 = 0
      /\ RespOff(d) >= ReqArenaOff(d) + ReqArenaCap(d)
  BY <1>1, <1>2, Aligned DEF RespOff
<1>4. /\ RespStride(d) \in Nat /\ RespStride(d) % 64 = 0
      /\ RespStride(d) >= RespSlotSize + d.respDataMax
  BY StrideOk
<1>5. d.respSlots * RespStride(d) \in Nat
  BY <1>4 DEF Filling
<1>6. TotalSize(d) \in Nat /\ TotalSize(d) = RespOff(d) + d.respSlots * RespStride(d)
  BY <1>3, <1>5 DEF TotalSize
<1>7. computeLayout(d) \in Layout
  BY <1>1, <1>2, <1>3, <1>4, <1>6 DEF computeLayout, Layout, Filling
<1>8. Sound(computeLayout(d))
  BY <1>1, <1>2, <1>3, <1>4, <1>6 DEF computeLayout, Sound
<1> QED
  BY <1>1, <1>2, <1>3, <1>5, <1>6, <1>7, <1>8 DEF Good, computeLayout, Filling

\* What NewServer accepts is laid out well.
LEMMA LayoutGood ==
  ASSUME NEW o \in Options, Acceptable(Filled(o))
  PROVE  Good(computeLayout(Filled(o)))
  BY FillingOk, LaidOut DEF Acceptable

----------------------------------------------------------------------------

FileType ==
  [size : Nat, head : {"zero", "part", "foreign"} \cup Complete, layout : Layout \cup {NoLayout}]

\* The first state satisfies the invariant.
LEMMA InitOk == Init => IInv
<1> SUFFICES ASSUME Init PROVE IInv
  OBVIOUS
<1>1. file \in [Inode -> FileType] /\ \A i \in Inode : file[i].head # "full"
  <2>1. EmptyFile \in FileType /\ EmptyFile.head # "full"
    BY DEF EmptyFile, FileType
  <2>2. \A f \in FirstFile : f \in FileType /\ f.head # "full"
    BY SegmentAssumption DEF FileType
  <2> QED
    BY <2>1, <2>2 DEF Init
<1>2. TypeOK
  BY <1>1, SegmentAssumption DEF Init, TypeOK, FileType, Locked
<1>3. GoodFiles
  BY <1>1 DEF GoodFiles
<1>4. Course /\ Agreement
  BY DEF Init, Course, Agreement
<1> QED
  BY <1>2, <1>3, <1>4 DEF IInv

\* A file in use is not freed, and no file becomes better than it was.
LEMMA ReclaimKeeps ==
  ASSUME TypeOK, Reclaim
  PROVE  /\ file' \in [Inode -> FileType]
         /\ \A i \in Inode, p \in Opener : fd'[p] = i => file'[i] = file[i]
         /\ \A i \in Inode : file'[i] \in {file[i], EmptyFile}
<1>1. EmptyFile \in FileType
  BY DEF EmptyFile, FileType
<1> QED
  BY <1>1 DEF Complete, TypeOK, Reclaim, FileType

\* Servers start with a good layout.
LEMMA ChooseGood ==
  ASSUME TypeOK, NEW p \in Opener, Choose(p)
  PROVE  /\ want' \in [Opener -> Layout \cup {NoLayout}]
         /\ \A q \in Opener \ {p} : want'[q] = want[q]
         /\ p \in Server => Good(want'[p])
<1>1. CASE p \in Server
  <2>1. PICK o \in Options :
          Acceptable(Filled(o)) /\ want' = [want EXCEPT ![p] = computeLayout(Filled(o))]
    BY <1>1 DEF Choose
  <2>2. Good(computeLayout(Filled(o)))
    BY <2>1, LayoutGood
  <2> QED
    BY <2>1, <2>2 DEF TypeOK, Good
<1>2. CASE p \notin Server
  BY <1>2 DEF Choose, TypeOK
<1> QED
  BY <1>1, <1>2

\* A step that leaves the files alone, except for freeing unused ones, keeps
\* what the other processes rely on.
Others(p) ==
  \A q \in Opener \ {p} :
    /\ pc'[q] = pc[q] /\ fd'[q] = fd[q] /\ want'[q] = want[q]
    /\ mapped'[q] = mapped[q] /\ view'[q] = view[q] /\ err'[q] = err[q]

\* What Course and Agreement say of one process.
CourseOf(p) ==
  /\ pc[p] \in {"truncate", "init", "magic"} => p \in Server /\ file[fd[p]].head # "full"
  /\ p \in Server /\ pc[p] \in {"flock", "stat", "truncate", "check", "init", "magic"} => Good(want[p])
  /\ pc[p] \in {"init", "magic"} => mapped[p] = want[p].totalSize
  /\ pc[p] \in {"check", "init", "magic"} => mapped[p] = file[fd[p]].size
  /\ pc[p] # "unlock" => err[p] = "none"
  /\ pc[p] \in {"unlock", "setup", "ready"} /\ err[p] = "none" =>
       file[fd[p]].head = "full" /\ mapped[p] = file[fd[p]].size
  /\ pc[p] = "ready" =>
       /\ file[fd[p]].head = "full" /\ view[p] = file[fd[p]].layout
       /\ view[p].totalSize = mapped[p] /\ mapped[p] = file[fd[p]].size

\* The invariant, process by process.
LEMMA ByProcess ==
  /\ (Course /\ Agreement) <=> \A p \in Opener : CourseOf(p)
  /\ (Course /\ Agreement)' <=> \A p \in Opener : CourseOf(p)'
  BY DEF Complete, Course, Agreement, CourseOf

\* Steps that write no file: only the process itself is to be looked at.
LEMMA Reading ==
  ASSUME IInv, NEW p \in Opener, Others(p), UNCHANGED file \/ Reclaim, TypeOK', CourseOf(p)'
  PROVE  IInv'
<1>1. \A q \in Opener \ {p} : pc[q] # "idle" => fd'[q] \in Inode /\ file'[fd'[q]] = file[fd[q]]
  BY ReclaimKeeps DEF IInv, TypeOK, Others
<1>2. \A i \in Inode : file'[i] = file[i] \/ file'[i].head # "full"
  BY ReclaimKeeps DEF IInv, EmptyFile
<1>3. GoodFiles'
  BY <1>2 DEF IInv, GoodFiles
<1>4. ASSUME NEW q \in Opener \ {p} PROVE CourseOf(q)'
  BY <1>1, <1>4, ByProcess DEF IInv, CourseOf, Others
<1> QED
  BY <1>3, <1>4, ByProcess DEF IInv

\* Steps that write: a server alone with a file that nobody has opened yet.
LEMMA Writing ==
  ASSUME IInv, NEW p \in Opener, Others(p), pc[p] \in {"truncate", "init", "magic"}, fd'[p] = fd[p],
         \A i \in Inode : i # fd[p] => file'[i] = file[i],
         TypeOK', CourseOf(p)',
         file'[fd[p]].head = "full" =>
           Good(file'[fd[p]].layout) /\ file'[fd[p]].layout.totalSize = file'[fd[p]].size
  PROVE  IInv'
<1>1. p \in Server /\ file[fd[p]].head # "full" /\ fd[p] \in Inode /\ holders[fd[p]] = {p}
  BY DEF IInv, Course, TypeOK, Locked
<1>2. GoodFiles'
  BY <1>1 DEF IInv, GoodFiles
<1>3. ASSUME NEW q \in Opener \ {p} PROVE CourseOf(q)'
  <2>1. CourseOf(q)
    BY ByProcess DEF IInv
  <2>2. CASE pc[q] \in Locked \cup {"setup", "ready"}
    <3>1. fd[q] \in Inode
      BY <2>2 DEF IInv, TypeOK, Locked
    <3>2. pc[q] \in Locked => fd[q] # fd[p]
      BY <1>1 DEF IInv, TypeOK
    <3>3. pc[q] \in {"setup", "ready"} => fd[q] # fd[p]
      BY <1>1, <2>1 DEF CourseOf
    <3>4. file'[fd'[q]] = file[fd[q]]
      BY <2>2, <3>1, <3>2, <3>3 DEF Others, Locked
    <3> QED
      BY <2>1, <3>4 DEF CourseOf, Others
  <2>3. CASE pc[q] \in {"idle", "flock"}
    BY <2>1, <2>3 DEF CourseOf, Others
  <2> QED
    BY <2>2, <2>3 DEF IInv, TypeOK
<1> QED
  BY <1>2, <1>3, ByProcess DEF IInv

Labels == Locked \cup {"idle", "flock", "setup", "ready"}

\* Steps inside the locked part, or outside it, leave the locks as they are.
LEMMA SameLocks ==
  ASSUME TypeOK, NEW p \in Opener, NEW from \in Labels, NEW to \in Labels, Goto(p, from, to),
         from \in Locked <=> to \in Locked, from # "idle", UNCHANGED <<holders, fd>>
  PROVE  /\ pc' \in [Opener -> Labels]
         /\ \A q \in Opener : pc'[q] # "idle" => fd'[q] \in Inode
         /\ \A q \in Opener, i \in Inode : (q \in holders[i] <=> pc[q] \in Locked /\ fd[q] = i)'
         /\ \A i \in Inode : \A s \in holders'[i] \cap Server : holders'[i] = {s}
<1>1. pc' = [pc EXCEPT ![p] = to] /\ pc[p] = from /\ pc \in [Opener -> Labels]
  BY DEF Goto, TypeOK, Labels
<1>2. \A q \in Opener : (pc'[q] \in Locked <=> pc[q] \in Locked) /\ (pc'[q] # "idle" => pc[q] # "idle")
  BY <1>1
<1> QED
  BY <1>1, <1>2 DEF TypeOK

\* The types survive an open ...
LEMMA OpenTypes ==
  ASSUME TypeOK, NEW p \in Opener, NEW i \in Inode, Goto(p, "idle", "flock"), path' \in Inode,
         fd' = [fd EXCEPT ![p] = i], want' \in [Opener -> Layout \cup {NoLayout}],
         UNCHANGED <<file, holders, mapped, view, err>>
  PROVE  TypeOK'
<1>1. \A q \in Opener, j \in Inode : (q \in holders[j] <=> pc[q] \in Locked /\ fd[q] = j)'
  BY DEF Goto, TypeOK, Locked
<1>2. pc' \in [Opener -> Locked \cup {"idle", "flock", "setup", "ready"}]
  BY DEF Goto, TypeOK
<1>3. fd' \in [Opener -> Inode \cup {NoFile}] /\ \A q \in Opener : pc'[q] # "idle" => fd'[q] \in Inode
  BY DEF Goto, TypeOK
<1> QED
  BY <1>1, <1>2, <1>3 DEF TypeOK

\* ... and a lock that leaves a server alone with it ...
LEMMA LockTypes ==
  ASSUME TypeOK, NEW p \in Opener, Goto(p, "flock", "stat"),
         p \in Server => holders[fd[p]] = {}, holders[fd[p]] \cap Server = {},
         holders' = [holders EXCEPT ![fd[p]] = @ \cup {p}],
         UNCHANGED <<path, file, fd, want, mapped, view, err>>
  PROVE  TypeOK'
<1>1. \A q \in Opener, i \in Inode : (q \in holders[i] <=> pc[q] \in Locked /\ fd[q] = i)'
  BY DEF Goto, TypeOK, Locked
<1>2. \A i \in Inode : \A s \in holders'[i] \cap Server : holders'[i] = {s}
  BY DEF Goto, TypeOK, Opener
<1> QED
  BY <1>1, <1>2 DEF Goto, TypeOK, Locked

\* ... and a look at the file ...
LEMMA LookTypes ==
  ASSUME TypeOK, NEW p \in Opener, Stat(p) \/ Check(p) \/ setupShm(p)
  PROVE  TypeOK'
<1>1. fd[p] \in Inode /\ file[fd[p]] \in FileType
  BY DEF Complete, TypeOK, Stat, Check, setupShm, Goto, FileType
<1>2. PICK from \in {"stat", "check", "setup"}, to \in {"truncate", "check", "init", "unlock", "ready"} :
        Goto(p, from, to) /\ (from \in Locked <=> to \in Locked)
  BY DEF Stat, Check, setupShm, Fail, Goto, Locked
<1>3. /\ UNCHANGED <<path, file, holders, fd, want>>
      /\ mapped' \in [Opener -> Nat] /\ view' \in [Opener -> Layout \cup {NoLayout}]
      /\ err' \in [Opener -> {"none", "small", "invalid"}]
  <2>1. CASE Stat(p)
    <3>1. CASE Fail(p, "stat", "small")
      BY <3>1 DEF TypeOK, Fail
    <3>2. CASE /\ mapped' = [mapped EXCEPT ![p] = file[fd[p]].size]
               /\ UNCHANGED <<path, file, holders, fd, want, view, err>>
      <4>1. file[fd[p]].size \in Nat
        BY <1>1 DEF FileType
      <4> QED
        BY <3>2, <4>1 DEF TypeOK
    <3> QED
      BY <2>1, <3>1, <3>2 DEF Stat
  <2>2. CASE Check(p)
    BY <2>2 DEF TypeOK, Check, Fail
  <2>3. CASE setupShm(p)
    BY <1>1, <2>3 DEF TypeOK, setupShm, FileType
  <2> QED
    BY <2>1, <2>2, <2>3
<1>4. from \in Labels /\ to \in Labels /\ from # "idle"
  BY DEF Labels, Locked
<1> QED
  BY <1>2, <1>3, <1>4, SameLocks DEF TypeOK, Labels

\* ... and a write of a layout ...
LEMMA WriteTypes ==
  ASSUME TypeOK, NEW p \in Opener, want[p] \in Layout,
         Truncate(p) \/ InitFields(p) \/ InitMagic(p)
  PROVE  TypeOK'
<1>1. fd[p] \in Inode /\ file[fd[p]] \in FileType /\ want[p].totalSize \in Nat
  BY DEF Complete, TypeOK, Truncate, InitFields, InitMagic, Goto, FileType, Layout
<1>2. file' \in [Inode -> FileType]
  <2>1. file \in [Inode -> FileType]
    BY DEF Complete, TypeOK, FileType
  <2> QED
    BY <1>1, <2>1 DEF Complete, Truncate, InitFields, InitMagic, FileType
<1>3. PICK from \in {"truncate", "init", "magic"}, to \in {"init", "magic", "unlock"} :
        Goto(p, from, to)
  BY DEF Truncate, InitFields, InitMagic, Goto
<1>4. UNCHANGED <<path, holders, fd, want, view, err>> /\ mapped' \in [Opener -> Nat]
  BY <1>1 DEF TypeOK, Truncate, InitFields, InitMagic
<1>5. from \in Labels /\ to \in Labels /\ from \in Locked /\ to \in Locked /\ from # "idle"
  BY DEF Labels, Locked
<1> QED
  BY <1>2, <1>3, <1>4, <1>5, SameLocks DEF Complete, TypeOK, Labels, FileType

\* ... and a return, a close or a crash.
LEMMA LeaveTypes ==
  ASSUME TypeOK, NEW p \in Opener, Unlock(p) \/ Close(p) \/ Crash(p)
  PROVE  TypeOK'
<1>1. UNCHANGED file \/ Reclaim
  BY DEF Unlock, Close, Crash, Unmap
<1>2. file' \in [Inode -> FileType]
  BY <1>1, ReclaimKeeps DEF Complete, TypeOK, FileType
<1>3. /\ path' = path /\ fd' \in [Opener -> Inode \cup {NoFile}]
      /\ want' \in [Opener -> Layout \cup {NoLayout}] /\ mapped' \in [Opener -> Nat]
      /\ view' \in [Opener -> Layout \cup {NoLayout}]
      /\ err' \in [Opener -> {"none", "small", "invalid"}]
      /\ pc' \in [Opener -> Locked \cup {"idle", "flock", "setup", "ready"}]
      /\ \A q \in Opener : pc'[q] # "idle" => fd'[q] \in Inode
  <2>1. CASE Unlock(p)
    <3>1. CASE err[p] = "none"
      BY <2>1, <3>1 DEF TypeOK, Unlock, Return, Goto
    <3>2. CASE err[p] # "none"
      BY <2>1, <3>2 DEF TypeOK, Unlock, Unmap, Return, Goto
    <3> QED
      BY <3>1, <3>2
  <2>2. CASE Close(p)
    BY <2>2 DEF TypeOK, Close, Unmap, Goto
  <2>3. CASE Crash(p)
    BY <2>3 DEF TypeOK, Crash, Unmap, Return
  <2> QED
    BY <2>1, <2>2, <2>3
<1>4. /\ holders' \in [Inode -> SUBSET Opener]
      /\ \A q \in Opener, i \in Inode : (q \in holders[i] <=> pc[q] \in Locked /\ fd[q] = i)'
      /\ \A i \in Inode : holders'[i] \subseteq holders[i]
  <2>1. CASE Unlock(p)
    BY <2>1 DEF TypeOK, Unlock, Unmap, Goto, Locked
  <2>2. CASE Close(p)
    BY <2>2 DEF TypeOK, Close, Unmap, Goto, Locked
  <2>3. CASE Crash(p)
    BY <2>3, SegmentAssumption DEF TypeOK, Crash, Unmap, Locked
  <2> QED
    BY <2>1, <2>2, <2>3
<1>5. \A i \in Inode : \A s \in holders'[i] \cap Server : holders'[i] = {s}
  BY <1>4 DEF TypeOK
<1> QED
  BY <1>2, <1>3, <1>4, <1>5 DEF Complete, TypeOK, FileType

\* Opening and locking.
LEMMA OpenOk ==
  ASSUME IInv, NEW p \in Opener, OpenFile(p) \/ Create(p) \/ Lock(p)
  PROVE  IInv'
<1>1. CASE OpenFile(p) \/ Create(p)
  <2>1. PICK i \in Inode : path' = i /\ fd' = [fd EXCEPT ![p] = i]
    BY <1>1 DEF OpenFile, Create, IInv, TypeOK
  <2>2. Choose(p) /\ Goto(p, "idle", "flock") /\ UNCHANGED <<file, holders, mapped, view, err>>
    BY <1>1 DEF OpenFile, Create
  <2>3. TypeOK'
    BY <2>1, <2>2, ChooseGood, OpenTypes DEF IInv
  <2>4. Others(p) /\ CourseOf(p)'
    BY <2>1, <2>2, ChooseGood DEF IInv, Goto, TypeOK, Others, Course, CourseOf
  <2> QED
    BY <2>2, <2>3, <2>4, Reading
<1>2. CASE Lock(p)
  <2>1. TypeOK'
    BY <1>2, LockTypes DEF IInv, Lock
  <2>2. Others(p) /\ UNCHANGED file
    BY <1>2 DEF IInv, Lock, Goto, TypeOK, Others
  <2>3. CourseOf(p)'
    BY <1>2 DEF IInv, Lock, Goto, TypeOK, Course, CourseOf
  <2> QED
    BY <2>1, <2>2, <2>3, Reading
<1> QED
  BY <1>1, <1>2

\* Looking at the file.
LEMMA LookOk ==
  ASSUME IInv, NEW p \in Opener, Stat(p) \/ Check(p) \/ setupShm(p)
  PROVE  IInv'
<1>1. fd[p] \in Inode /\ file[fd[p]] \in FileType
  BY DEF Complete, IInv, TypeOK, Stat, Check, setupShm, Goto, FileType
<1>2. TypeOK'
  BY LookTypes DEF IInv
<1>3. Others(p) /\ UNCHANGED file
  BY DEF IInv, Stat, Check, setupShm, Fail, Goto, TypeOK, Others
<1>4. CourseOf(p)'
  <2>1. CASE Stat(p)
    <3>1. IsNew(p) => file[fd[p]].head # "full"
      BY <1>1 DEF IInv, GoodFiles, Good, IsNew
    <3> QED
      BY <1>1, <2>1, <3>1 DEF IInv, Stat, IsNew, Fail, Goto, TypeOK, Course, CourseOf
  <2>2. CASE Check(p)
    BY <1>1, <2>2
       DEF IInv, Check, Unfinished, isHeaderZero, Valid, validateHeader, Fail, Goto, TypeOK, Course,
           CourseOf
  <2>3. CASE setupShm(p)
    BY <1>1, <2>3 DEF IInv, GoodFiles, setupShm, Goto, TypeOK, Course, CourseOf
  <2> QED
    BY <2>1, <2>2, <2>3
<1> QED
  BY <1>2, <1>3, <1>4, Reading

\* Writing the file.
LEMMA WriteOk ==
  ASSUME IInv, NEW p \in Opener, Truncate(p) \/ InitFields(p) \/ InitMagic(p)
  PROVE  IInv'
<1>1. fd[p] \in Inode /\ file[fd[p]] \in FileType /\ Good(want[p]) /\ file[fd[p]].head # "full"
  BY DEF Complete, IInv, TypeOK, Course, Truncate, InitFields, InitMagic, Goto, FileType
<1>2. TypeOK'
  BY <1>1, WriteTypes DEF IInv, Good
<1>3. Others(p) /\ fd' = fd /\ pc[p] \in {"truncate", "init", "magic"}
  BY DEF IInv, Truncate, InitFields, InitMagic, Goto, TypeOK, Others
<1>4. \A i \in Inode : i # fd[p] => file'[i] = file[i]
  BY DEF IInv, Truncate, InitFields, InitMagic, TypeOK
<1>5. CourseOf(p)'
  <2>1. CASE Truncate(p)
    BY <1>1, <2>1 DEF IInv, Truncate, Goto, TypeOK, Course, CourseOf, FileType
  <2>2. CASE InitFields(p)
    BY <1>1, <2>2 DEF IInv, InitFields, Goto, TypeOK, Course, CourseOf, FileType
  <2>3. CASE InitMagic(p)
    BY <1>1, <2>3 DEF IInv, InitMagic, Goto, TypeOK, Course, CourseOf, FileType
  <2> QED
    BY <2>1, <2>2, <2>3
<1>6. file'[fd[p]].head = "full" =>
        Good(file'[fd[p]].layout) /\ file'[fd[p]].layout.totalSize = file'[fd[p]].size
  BY <1>1 DEF IInv, Truncate, InitFields, InitMagic, Goto, TypeOK, Course, FileType
<1> QED
  BY <1>2, <1>3, <1>4, <1>5, <1>6, Writing

\* Leaving: return, close, crash.
LEMMA LeaveOk ==
  ASSUME IInv, NEW p \in Opener, Unlock(p) \/ Close(p) \/ Crash(p)
  PROVE  IInv'
<1>1. UNCHANGED file \/ Reclaim
  BY DEF Unlock, Close, Crash, Unmap
<1>2. Others(p)
  BY DEF IInv, Unlock, Close, Crash, Unmap, Return, Goto, TypeOK, Others
<1>3. TypeOK'
  BY LeaveTypes DEF IInv
<1>4. CourseOf(p)'
  <2>1. CASE Unlock(p)
    BY <2>1 DEF IInv, Unlock, Unmap, Return, Goto, TypeOK, Course, CourseOf
  <2>2. CASE Close(p) \/ Crash(p)
    BY <2>2 DEF IInv, Close, Crash, Unmap, Return, Goto, TypeOK, Course, CourseOf
  <2> QED
    BY <2>1, <2>2
<1> QED
  BY <1>1, <1>2, <1>3, <1>4, Reading

\* The file loses its name.
LEMMA RemoveOk ==
  ASSUME IInv, Remove
  PROVE  IInv'
<1>1. TypeOK'
  BY ReclaimKeeps DEF IInv, Remove, TypeOK, FileType
<1>2. \A p \in Opener : pc[p] # "idle" => file'[fd'[p]] = file[fd[p]]
  BY ReclaimKeeps DEF IInv, Remove, TypeOK
<1>3. GoodFiles'
  BY ReclaimKeeps DEF IInv, Remove, GoodFiles, EmptyFile
<1>4. Course' /\ Agreement'
  BY <1>2 DEF IInv, Remove, Course, Agreement
<1> QED
  BY <1>1, <1>3, <1>4 DEF IInv

\* Every step keeps the invariant.
LEMMA StepOk == IInv /\ [Next]_vars => IInv'
<1> SUFFICES ASSUME IInv, [Next]_vars PROVE IInv'
  OBVIOUS
<1>1. CASE UNCHANGED vars
  BY <1>1 DEF vars, IInv, TypeOK, GoodFiles, Course, Agreement
<1>2. CASE Next
  BY <1>2, OpenOk, LookOk, WriteOk, LeaveOk, RemoveOk DEF Next, Step
<1> QED
  BY <1>1, <1>2

\* The invariant of openOrCreate and openExisting, for any number of servers
\* and clients, all options, and processes killed anywhere.
THEOREM Invariance == Spec => []IInv
  BY InitOk, StepOk, PTL DEF Spec

\* Words and locks keep their types, and a lock is held by nobody but a caller
\* between its flock and its unlock.
THEOREM TypeCorrect == Spec => []TypeOK
<1>1. IInv => TypeOK
  BY DEF IInv
<1> QED
  BY <1>1, Invariance, PTL

\* Everybody who has opened the segment agrees with its header.
THEOREM Agreed == Spec => []Agreement
<1>1. IInv => Agreement
  BY DEF IInv
<1> QED
  BY <1>1, Invariance, PTL

\* The regions computed by computeLayout never overlap, for any options.
THEOREM LayoutsSound == Spec => []SoundLayouts
<1>1. IInv => SoundLayouts
  BY DEF IInv, GoodFiles, Good, SoundLayouts
<1> QED
  BY <1>1, Invariance, PTL

\* initHeader never runs over a header that somebody uses.
THEOREM NeverRewritten == Spec => HeaderStable
<1>1. IInv /\ [Next]_vars =>
        [\A i \in Inode : file[i].head = "full" /\ (\E p \in Opener : fd[p] = i /\ fd'[p] = i) =>
           file'[i] = file[i]]_vars
  <2> SUFFICES ASSUME IInv, Next, NEW i \in Inode, file[i].head = "full",
                      NEW q \in Opener, fd'[q] = i
               PROVE  file'[i] = file[i]
    BY DEF vars
  <2>1. CASE Reclaim
    BY <2>1, ReclaimKeeps DEF IInv
  <2>2. CASE UNCHANGED file
    BY <2>2
  <2>3. ASSUME NEW p \in Opener, Truncate(p) \/ InitFields(p) \/ InitMagic(p)
        PROVE  file'[i] = file[i]
    BY <2>3 DEF IInv, TypeOK, Course, Truncate, InitFields, InitMagic, Goto
  <2> QED
    BY <2>1, <2>2, <2>3
       DEF Next, Step, OpenFile, Create, Lock, Stat, Fail, Check, setupShm, Unlock, Unmap, Close, Crash, Remove
<1> QED
  BY <1>1, Invariance, PTL DEF Spec, HeaderStable

\* validateHeader accepts every header that initHeader has completed.
THEOREM AlwaysOpens == Spec => CreatedOpens
<1>1. IInv /\ [Next]_vars =>
        [\A p \in Opener :
           pc[p] = "check" /\ err'[p] = "invalid" => file[fd[p]].head # "full"]_vars
  <2> SUFFICES ASSUME IInv, Next, NEW p \in Opener, pc[p] = "check", err'[p] = "invalid",
                      file[fd[p]].head = "full"
               PROVE  FALSE
    BY DEF vars
  <2>1. fd[p] \in Inode /\ err[p] = "none" /\ mapped[p] = file[fd[p]].size
    BY DEF IInv, TypeOK, Course
  <2>2. Good(file[fd[p]].layout) /\ file[fd[p]].layout.totalSize = file[fd[p]].size
    BY <2>1 DEF IInv, GoodFiles
  <2>3. file[fd[p]].layout.respStride >= RespSlotSize
    BY <2>2 DEF Good, Sound, Layout, RespSlotSize
  <2>4. Valid(p)
    BY <2>1, <2>2, <2>3 DEF Valid, validateHeader, Good
  <2>5. err' # err
    BY <2>1
  <2>6. PICK q \in Opener : Check(q) \/ Stat(q) \/ Return(q)
    BY <2>5 DEF Next, Step, OpenFile, Create, Lock, Truncate, InitFields, InitMagic,
                Unlock, setupShm, Close, Crash, Remove
  <2>7. CASE Return(q)
    BY <2>1, <2>7 DEF Return, IInv, TypeOK
  <2>8. CASE Stat(q)
    BY <2>1, <2>8 DEF IInv, TypeOK, Stat, Fail, Goto
  <2>9. CASE Check(q)
    BY <2>1, <2>4, <2>9 DEF IInv, TypeOK, Check, Fail, Goto
  <2> QED
    BY <2>6, <2>7, <2>8, <2>9
<1> QED
  BY <1>1, Invariance, PTL DEF Spec, CreatedOpens
=============================================================================
