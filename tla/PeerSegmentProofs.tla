-------------------------- MODULE PeerSegmentProofs --------------------------
(***************************************************************************)
(* Go and C processes that create and open segments next to each other,    *)
(* for any number of them, all options and every word width.  What a       *)
(* string layout promises needs StridesFit; the rest does not.             *)
(***************************************************************************)
EXTENDS PeerSegment, SegmentProofs, WellFoundedInduction

\* Unless the power of two needs a bit too many, there is one.
LEMMA NextPow2Ok ==
  ASSUME NEW v \in 0..MaxUint32, nextPow2(v) # 0
  PROVE  IsPow2(nextPow2(v))
<1>1. \A k \in Int : 2^k \in Int
  OBVIOUS
<1>2. W \in Nat /\ W >= 2 /\ 2^W \in Int /\ 2^W > v
  <2>1. 2^0 = 1 /\ 2^1 = 2
    OBVIOUS
  <2>2. W \in Nat /\ 2^W = MaxUint32 + 1 /\ MaxUint32 \in Nat /\ MaxUint32 >= 4096
    BY SegmentAssumption
  <2>3. W # 0
    <3> SUFFICES ASSUME W = 0 PROVE FALSE
      OBVIOUS
    <3>1. 2^W = 1
      BY <2>1, Zenon
    <3> QED
      BY <2>2, <3>1
  <2>4. W # 1
    <3> SUFFICES ASSUME W = 1 PROVE FALSE
      OBVIOUS
    <3>1. 2^W = 2
      BY <2>1, Zenon
    <3> QED
      BY <2>2, <3>1
  <2> QED
    BY <2>2, <2>3, <2>4
<1>3. CASE v < 2
  <2>1. 2 = 2^1 /\ 1 \in 0..(W - 1) /\ 2 \in Nat \ {0}
    BY <1>2
  <2>2. nextPow2(v) = 2
    BY <1>3 DEF nextPow2
  <2> QED
    BY <2>1, <2>2 DEF IsPow2
<1>4. CASE v >= 2
  <2> DEFINE T == {k \in 0..W : 2^k >= v}
             Fits(k) == 2^k >= v /\ (k > 0 => 2^(k - 1) < v)
  <2>1. T \subseteq Nat
    BY <1>2
  <2>2. W \in T
    BY <1>2
  <2>3. PICK k \in T : \A j \in T : ~(<<j, k>> \in OpToRel(<, Nat))
    <3>1. T # {}
      BY <2>2
    <3> HIDE DEF T
    <3> QED
      BY <2>1, <3>1, NatLessThanWellFounded, WFMin, Zenon
  <2>4. ASSUME k > 0 PROVE 2^(k - 1) < v
    <3>1. k - 1 \in 0..W /\ k \in Nat /\ k - 1 \in Nat /\ k - 1 < k
      BY <1>2, <2>4
    <3>2. <<k - 1, k>> \in OpToRel(<, Nat)
      BY <3>1 DEF OpToRel
    <3>3. k - 1 \notin T
      BY <2>3, <3>2
    <3>4. 2^(k - 1) \in Int
      BY <1>1, <3>1
    <3> QED
      BY <3>1, <3>3, <3>4
  <2>5. k \in 0..W /\ Fits(k)
    BY <2>4
  <2> HIDE DEF Fits
  <2> DEFINE c == CHOOSE j \in 0..W : Fits(j)
  <2>6. c \in 0..W /\ Fits(c)
    BY <2>5
  <2>7. nextPow2(v) = IF c = W THEN 0 ELSE 2^c
    BY <1>4 DEF nextPow2, Fits
  <2> HIDE DEF c
  <2>8. c \in 0..(W - 1) /\ nextPow2(v) = 2^c
    BY <1>2, <2>6, <2>7
  <2>9. 2^c \in Int /\ 2^c >= v
    BY <1>1, <2>6 DEF Fits
  <2>10. 2^c \in Nat \ {0}
    BY <1>4, <2>9
  <2> QED
    BY <2>8, <2>10 DEF IsPow2
<1> QED
  BY <1>3, <1>4

\* The options of a C creator, filled in.
LEMMA PeerFillingOk ==
  ASSUME NEW o \in PeerOptions, PeerFilled(o).reqCap # 0, PeerFilled(o).respSlots # 0
  PROVE  PeerFilled(o) \in Filling /\ IsPow2(PeerFilled(o).reqCap)
<1> DEFINE d == PeerFilled(o)
<1>1. o \in [reqCap : 0..MaxUint32, reqArenaCap : 0..MaxUint32,
             respSlots : 0..MaxUint32, respDataMax : 0..MaxUint32]
  BY SegmentAssumption, PeerAssumption
<1>2. d.reqCap = nextPow2(o.reqCap)
  BY DEF PeerFilled, reqrep_next_pow2
<1>3. IsPow2(d.reqCap) /\ d.reqCap \in Nat
  BY <1>1, <1>2, NextPow2Ok DEF IsPow2
<1>4. d.respSlots \in Nat \ {0} /\ d.respDataMax \in 0..MaxUint32
  BY <1>1, SegmentAssumption DEF PeerFilled
<1>5. d.arenaHint \in Nat
  BY <1>1, <1>2, <1>3, SegmentAssumption DEF PeerFilled, reqrep_next_pow2
<1>6. d = [reqCap |-> d.reqCap, respDataMax |-> d.respDataMax, respSlots |-> d.respSlots,
           arenaHint |-> d.arenaHint]
  BY DEF PeerFilled
<1> QED
  BY <1>3, <1>4, <1>5, <1>6 DEF Filling

\* reqrep_int_compute_layout lays the two regions out one after the other.
LEMMA IntLaidOut ==
  ASSUME NEW d \in Filling, IsPow2(d.reqCap), IntAcceptable(d)
  PROVE  IntGood(reqrep_int_compute_layout(d))
<1> DEFINE l == reqrep_int_compute_layout(d)
<1>1. /\ IntRespOff(d) \in Nat /\ IntRespOff(d) % 64 = 0
      /\ IntRespOff(d) >= 256 + d.reqCap * 24
  BY Aligned DEF IntRespOff, Filling, HeaderSize, ReqIntSlotSize
<1>2. Align(RespSlotSize + 8, 64) = 64
  BY DEF Align, RespSlotSize
<1>3. l = [reqCap |-> d.reqCap, respSlots |-> d.respSlots, respDataMax |-> 8,
           reqSlotsOff |-> 256, reqArenaOff |-> 0, reqArenaCap |-> 0,
           respOff |-> IntRespOff(d), respStride |-> 64,
           totalSize |-> IntRespOff(d) + d.respSlots * 64]
  BY <1>2 DEF reqrep_int_compute_layout, HeaderSize
<1> HIDE DEF l
<1>4. l \in Layout
  BY <1>1, <1>3 DEF Layout, Filling
<1>5. IntSound(l)
  BY <1>1, <1>3 DEF IntSound, IntAcceptable, Filling, ReqIntSlotSize, RespSlotSize
<1> QED
  BY <1>1, <1>3, <1>4, <1>5 DEF IntGood, Filling, HeaderSize, l

\* Whatever layout a C creator comes with is good, unless its stride wraps.
LEMMA PeerLayoutsGood ==
  ASSUME NEW mode \in {"str", "int"}, NEW l \in PeerLayouts(mode)
  PROVE  GoodOf(mode, l)
<1>1. CASE mode = "str"
  <2>1. PICK o \in PeerOptions :
          PeerAcceptable(PeerFilled(o)) /\ l = reqrep_compute_layout(PeerFilled(o))
    BY <1>1 DEF PeerLayouts
  <2>2. l \in Layout /\ l.totalSize > 0
    BY <2>1, PeerFillingOk, LayoutTyped DEF PeerAcceptable, reqrep_compute_layout
  <2>3. ASSUME StridesFit PROVE Good(l)
    <3>1. PeerFilled(o).respDataMax <= MaxUint32 - RespSlotSize - 63
      BY <2>3 DEF PeerFilled, StridesFit
    <3> QED
      BY <2>1, <3>1, PeerFillingOk, LaidOut DEF PeerAcceptable, reqrep_compute_layout
  <2> QED
    BY <1>1, <2>2, <2>3 DEF GoodOf, StrGood
<1>2. CASE mode = "int"
  <2>1. PICK o \in PeerOptions :
          IntAcceptable(PeerFilled(o)) /\ l = reqrep_int_compute_layout(PeerFilled(o))
    BY <1>2 DEF PeerLayouts
  <2>2. IntGood(l)
    BY <2>1, PeerFillingOk, IntLaidOut DEF IntAcceptable
  <2> QED
    BY <1>2, <2>2 DEF GoodOf
<1> QED
  BY <1>1, <1>2

\* A good layout of either mode is a layout, of a file that is not empty.
LEMMA GoodIsLayout ==
  ASSUME NEW mode, NEW l, GoodOf(mode, l)
  PROVE  l \in Layout /\ l.totalSize \in Nat /\ l.totalSize > 0
  BY DEF GoodOf, StrGood, IntGood, Layout

----------------------------------------------------------------------------

Modes == {"go", "str", "int", "memfd"}

\* The calls of the others stay the same.
OtherCalls(p) == call' \in [Opener -> Modes] /\ \A q \in Opener \ {p} : call'[q] = call[q]

\* What a header in a mode is.
LEMMA HeadsComplete ==
  /\ \A mode \in {"go", "str"} : HeadsOf(mode) = {"full"}
  /\ HeadsOf("int") = {"int", "ring"}
  /\ \A p \in Opener : PeerIInv /\ pc[p] \in {"setup", "ready"} => file[fd[p]].head \in Complete
  BY DEF HeadsOf, Complete, PeerIInv, PeerCourseOf

\* The first state satisfies the invariant.
LEMMA PeerInitOk == PeerInit => PeerIInv
<1> SUFFICES ASSUME PeerInit PROVE PeerIInv
  OBVIOUS
<1>1. IInv
  BY InitOk DEF PeerInit
<1>2. \A i \in Inode : file[i].head \notin Complete
  BY SegmentAssumption DEF PeerInit, Init, EmptyFile, Complete
<1>3. PeerGoodFiles
  BY <1>2 DEF PeerGoodFiles
<1>4. ASSUME NEW p \in Opener PROVE PeerCourseOf(p)
  BY DEF PeerInit, Init, PeerCourseOf, C
<1>5. Private
  BY DEF PeerInit, Init, Private
<1> QED
  BY <1>1, <1>3, <1>4, <1>5 DEF IInv, PeerIInv, PeerInit

\* Steps that write no file: only the process itself is to be looked at.
LEMMA PeerReading ==
  ASSUME PeerIInv, NEW p \in Opener, Others(p), OtherCalls(p), UNCHANGED file \/ Reclaim, TypeOK',
         PeerCourseOf(p)', Private'
  PROVE  PeerIInv'
<1>1. \A q \in Opener \ {p} : pc[q] # "idle" => fd'[q] \in Inode /\ file'[fd'[q]] = file[fd[q]]
  BY ReclaimKeeps DEF PeerIInv, TypeOK, Others
<1>2. \A i \in Inode : file'[i] = file[i] \/ file'[i].head \notin Complete
  BY ReclaimKeeps DEF PeerIInv, EmptyFile, Complete
<1>3. PeerGoodFiles'
  BY <1>2 DEF PeerIInv, PeerGoodFiles
<1>4. ASSUME NEW q \in Opener \ {p} PROVE PeerCourseOf(q)'
  BY <1>1, <1>4 DEF PeerIInv, PeerCourseOf, Others, OtherCalls, C
<1> QED
  BY <1>3, <1>4 DEF PeerIInv, OtherCalls, Modes

\* Steps that write: a server alone with a file that nobody has opened yet.
LEMMA PeerWriting ==
  ASSUME PeerIInv, NEW p \in Opener, Others(p), OtherCalls(p), fd'[p] = fd[p],
         pc[p] \in {"truncate", "init", "magic", "sequences"},
         \A i \in Inode : i # fd[p] => file'[i] = file[i],
         TypeOK', PeerCourseOf(p)', Private',
         file'[fd[p]].head \in Complete =>
           /\ GoodOf(IF file'[fd[p]].head = "full" THEN "str" ELSE "int", file'[fd[p]].layout)
           /\ file'[fd[p]].layout.totalSize = file'[fd[p]].size
  PROVE  PeerIInv'
<1>1. p \in Server /\ fd[p] \in Inode /\ holders[fd[p]] = {p}
  BY DEF PeerIInv, PeerCourseOf, TypeOK, Locked
<1>2. PeerGoodFiles'
  BY <1>1 DEF PeerIInv, PeerGoodFiles
<1>3. ASSUME NEW q \in Opener \ {p} PROVE PeerCourseOf(q)'
  <2>1. PeerCourseOf(q)
    BY DEF PeerIInv
  <2>2. CASE pc[q] \in Locked \cup {"setup", "ready"}
    <3>1. fd[q] \in Inode
      BY <2>2 DEF PeerIInv, TypeOK, Locked
    <3>2. pc[q] \in Locked => fd[q] # fd[p]
      BY <1>1 DEF PeerIInv, TypeOK
    <3>3. pc[q] \in {"setup", "ready"} => fd[q] # fd[p]
      <4>1. CASE pc[p] = "sequences"
        BY <4>1 DEF PeerIInv, Private
      <4>2. CASE pc[p] # "sequences"
        BY <4>2, HeadsComplete DEF PeerIInv, PeerCourseOf
      <4> QED
        BY <4>1, <4>2
    <3>4. file'[fd'[q]] = file[fd[q]]
      BY <2>2, <3>1, <3>2, <3>3 DEF Others, Locked
    <3> QED
      BY <2>1, <3>4 DEF PeerCourseOf, Others, OtherCalls, C
  <2>3. CASE pc[q] \in {"idle", "flock"}
    BY <2>1, <2>3 DEF PeerCourseOf, Others, OtherCalls, C
  <2> QED
    BY <2>2, <2>3 DEF PeerIInv, TypeOK
<1> QED
  BY <1>2, <1>3 DEF PeerIInv, OtherCalls, Modes

\* Only those who had the lock get past it, so who gets a file has it alone or
\* finds nobody at work on it; a memfd stays with those who have it.
LEMMA PrivateKept ==
  ASSUME PeerIInv, NEW p \in Opener, Others(p), OtherCalls(p), UNCHANGED path,
         pc'[p] = "idle" => fd'[p] = NoFile /\ call'[p] = "go",
         pc'[p] # "idle" => fd'[p] = fd[p] /\ call'[p] = call[p],
         pc'[p] = "sequences" => pc[p] \in {"magic", "sequences"},
         pc'[p] \in {"setup", "ready"} => pc[p] \in {"unlock", "setup", "ready"}
  PROVE  Private'
<1> SUFFICES ASSUME NEW x \in Opener, NEW q \in Opener
             PROVE  /\ call'[x] = "memfd" => fd'[x] # path' /\ (fd'[q] = fd'[x] => call'[q] = "memfd")
                    /\ pc'[x] = "sequences" /\ fd'[q] = fd'[x] => pc'[q] \notin {"setup", "ready"}
  BY DEF Private
<1>1. ASSUME call'[x] = "memfd"
      PROVE  fd'[x] # path' /\ (fd'[q] = fd'[x] => call'[q] = "memfd")
  <2>1. call[x] = "memfd" /\ fd'[x] = fd[x] /\ pc[x] = "ready" /\ fd[x] \in Inode
    BY <1>1 DEF PeerIInv, PeerCourseOf, TypeOK, Others, OtherCalls
  <2>2. fd'[q] = fd'[x] => fd[q] = fd[x] /\ call'[q] = call[q]
    BY <2>1, SegmentAssumption DEF Others, OtherCalls
  <2> QED
    BY <2>1, <2>2 DEF PeerIInv, Private
<1>2. ASSUME pc'[x] = "sequences", fd'[q] = fd'[x], pc'[q] \in {"setup", "ready"}
      PROVE  FALSE
  <2>1. fd'[x] = fd[x] /\ fd'[q] = fd[q] /\ fd[q] = fd[x]
    BY <1>2 DEF Others
  <2>2. pc[x] \in {"magic", "sequences"} /\ x # q /\ fd[x] \in Inode /\ x \in Server
    BY <1>2 DEF Others, PeerIInv, PeerCourseOf, TypeOK
  <2>3. pc[q] \in {"unlock", "setup", "ready"}
    BY <1>2 DEF Others
  <2>4. CASE pc[q] = "unlock"
    BY <2>1, <2>2, <2>4 DEF PeerIInv, TypeOK, Locked
  <2>5. CASE pc[q] # "unlock"
    BY <2>1, <2>2, <2>3, <2>5, HeadsComplete DEF PeerIInv, Private, PeerCourseOf
  <2> QED
    BY <2>4, <2>5
<1> QED
  BY <1>1, <1>2

----------------------------------------------------------------------------
(* Opening and locking *)

\* The options of a call in some mode, once chosen.
LEMMA Opened ==
  ASSUME PeerIInv, NEW p \in Opener, NEW i \in Inode, NEW mode \in {"go", "str", "int"},
         Goto(p, "idle", "flock"), path' = i, fd' = [fd EXCEPT ![p] = i],
         path = i \/ (\A q \in Opener : fd[q] # i),
         want' \in [Opener -> Layout \cup {NoLayout}], \A q \in Opener \ {p} : want'[q] = want[q],
         p \in Server => GoodOf(mode, want'[p]),
         call' = [call EXCEPT ![p] = mode], UNCHANGED <<file, holders, mapped, view, err>>
  PROVE  PeerIInv'
<1>1. TypeOK'
  BY OpenTypes DEF PeerIInv
<1>2. Others(p)
  BY DEF PeerIInv, TypeOK, Goto, Others
<1>3. OtherCalls(p)
  BY DEF PeerIInv, OtherCalls, Modes
<1>4. pc'[p] = "flock" /\ call'[p] = mode /\ err'[p] = "none"
  BY DEF PeerIInv, TypeOK, Goto, PeerCourseOf
<1>5. PeerCourseOf(p)'
  BY <1>4 DEF PeerCourseOf
<1>6. Private'
  <2> SUFFICES ASSUME NEW x \in Opener, NEW q \in Opener
               PROVE  /\ call'[x] = "memfd" => fd'[x] # path' /\ (fd'[q] = fd'[x] => call'[q] = "memfd")
                      /\ pc'[x] = "sequences" /\ fd'[q] = fd'[x] => pc'[q] \notin {"setup", "ready"}
    BY DEF Private
  <2>1. ASSUME call'[x] = "memfd"
        PROVE  fd'[x] # path' /\ (fd'[q] = fd'[x] => call'[q] = "memfd")
    <3>1. x # p /\ call[x] = "memfd" /\ fd'[x] = fd[x] /\ fd[x] # i
      BY <1>3, <1>4, <2>1 DEF OtherCalls, PeerIInv, Private, TypeOK
    <3>2. CASE q = p
      BY <3>1, <3>2 DEF PeerIInv, TypeOK
    <3>3. CASE q # p
      BY <1>2, <1>3, <3>1, <3>3 DEF Others, OtherCalls, PeerIInv, Private
    <3> QED
      BY <3>1, <3>2, <3>3
  <2>2. ASSUME pc'[x] = "sequences", fd'[q] = fd'[x], pc'[q] \in {"setup", "ready"}
        PROVE  FALSE
    BY <1>2, <1>4, <2>2 DEF Others, PeerIInv, Private
  <2> QED
    BY <2>1, <2>2
<1> QED
  BY <1>1, <1>2, <1>3, <1>5, <1>6, PeerReading

\* The layout of a C creator.
LEMMA PeerChooseGood ==
  ASSUME TypeOK, NEW p \in Opener, NEW mode \in {"str", "int"}, PeerChoose(p, mode)
  PROVE  /\ want' \in [Opener -> Layout \cup {NoLayout}]
         /\ \A q \in Opener \ {p} : want'[q] = want[q]
         /\ p \in Server => GoodOf(mode, want'[p])
<1>1. CASE p \in Server
  <2>1. PICK l \in PeerLayouts(mode) : want' = [want EXCEPT ![p] = l]
    BY <1>1 DEF PeerChoose
  <2>2. GoodOf(mode, l) /\ l \in Layout
    BY PeerLayoutsGood, GoodIsLayout
  <2> QED
    BY <2>1, <2>2 DEF TypeOK
<1>2. CASE p \notin Server
  BY <1>2 DEF PeerChoose, TypeOK
<1> QED
  BY <1>1, <1>2

\* A call on the path, of either implementation.
LEMMA PeerOpenOk ==
  ASSUME PeerIInv, NEW p \in Opener,
         GoCall(p) \/ \E mode \in {"str", "int"} : PeerOpenFile(p, mode) \/ PeerCreateFile(p, mode)
  PROVE  PeerIInv'
<1> USE DEF PeerIInv
<1>1. CASE GoCall(p)
  <2>1. PICK i \in Inode : /\ path' = i /\ fd' = [fd EXCEPT ![p] = i]
                           /\ path = i \/ (\A q \in Opener : fd[q] # i)
    BY <1>1 DEF GoCall, OpenFile, Create, TypeOK
  <2>2. /\ Choose(p) /\ Goto(p, "idle", "flock") /\ call' = [call EXCEPT ![p] = "go"]
        /\ UNCHANGED <<file, holders, mapped, view, err>>
    BY <1>1 DEF GoCall, OpenFile, Create
  <2>3. Good(want'[p]) => GoodOf("go", want'[p])
    BY DEF GoodOf, StrGood, Good
  <2> QED
    BY <2>1, <2>2, <2>3, ChooseGood, Opened
<1>2. CASE \E mode \in {"str", "int"} : PeerOpenFile(p, mode) \/ PeerCreateFile(p, mode)
  <2>1. PICK mode \in {"str", "int"} : PeerOpenFile(p, mode) \/ PeerCreateFile(p, mode)
    BY <1>2
  <2>2. PICK i \in Inode : /\ path' = i /\ fd' = [fd EXCEPT ![p] = i]
                           /\ path = i \/ (\A q \in Opener : fd[q] # i)
    BY <2>1 DEF PeerOpenFile, PeerCreateFile, TypeOK
  <2>3. /\ PeerChoose(p, mode) /\ Goto(p, "idle", "flock") /\ call' = [call EXCEPT ![p] = mode]
        /\ UNCHANGED <<file, holders, mapped, view, err>>
    BY <2>1 DEF PeerOpenFile, PeerCreateFile
  <2> QED
    BY <2>2, <2>3, PeerChooseGood, Opened
<1> QED
  BY <1>1, <1>2

\* What a call in progress remembers of itself.
KeepsCall(p) == call' = [call EXCEPT ![p] = IF pc'[p] = "idle" THEN "go" ELSE @]

\* The call only changes when it ends.
LEMMA CallKept ==
  ASSUME PeerIInv, NEW p \in Opener, KeepsCall(p)
  PROVE  OtherCalls(p) /\ call'[p] = IF pc'[p] = "idle" THEN "go" ELSE call[p]
  BY DEF PeerIInv, KeepsCall, OtherCalls, Modes

\* The lock.
LEMMA PeerLockOk ==
  ASSUME PeerIInv, NEW p \in Opener, PeerLock(p), KeepsCall(p)
  PROVE  PeerIInv'
<1>1. fd[p] \in Inode /\ holders[fd[p]] \subseteq Opener
  BY DEF PeerIInv, TypeOK, PeerLock, Goto
<1>2. TypeOK'
  <2>1. holders[fd[p]] \cap Server = {} /\ (p \in Server => holders[fd[p]] = {})
    BY <1>1 DEF PeerLock, Exclusive
  <2> QED
    BY <2>1, LockTypes DEF PeerIInv, PeerLock
<1>3. Others(p) /\ UNCHANGED <<file, path, fd>> /\ pc'[p] = "stat" /\ pc[p] = "flock"
  BY DEF PeerIInv, PeerLock, Goto, TypeOK, Others
<1>4. OtherCalls(p) /\ call'[p] = call[p]
  BY <1>3, CallKept
<1>5. PeerCourseOf(p)'
  BY <1>3, <1>4 DEF PeerIInv, PeerLock, PeerCourseOf, C
<1>6. Private'
  BY <1>3, <1>4, PrivateKept
<1> QED
  BY <1>2, <1>3, <1>4, <1>5, <1>6, PeerReading

----------------------------------------------------------------------------
(* The steps of a call *)

\* PeerCheck keeps the types.
LEMMA PeerCheckTypes ==
  ASSUME TypeOK, NEW p \in Opener, PeerCheck(p)
  PROVE  TypeOK'
<1>1. Goto(p, "check", "unlock") /\ UNCHANGED <<path, file, holders, fd, want, mapped, view>>
  BY DEF PeerCheck, Fail
<1>2. err' \in [Opener -> {"none", "small", "invalid"}]
  BY DEF PeerCheck, Fail, TypeOK
<1>3. "check" \in Labels /\ "unlock" \in Labels /\ "check" \in Locked /\ "unlock" \in Locked
  BY DEF Labels, Locked
<1> QED
  BY <1>1, <1>2, <1>3, SameLocks DEF TypeOK, Labels

\* Looking at the file.
LEMMA PeerLookOk ==
  ASSUME PeerIInv, NEW p \in Opener, KeepsCall(p),
         \/ Stat(p) \/ setupShm(p)
         \/ call[p] = "go" /\ Check(p)
         \/ call[p] \in {"str", "int"} /\ PeerCheck(p)
  PROVE  PeerIInv'
<1>1. fd[p] \in Inode /\ file[fd[p]] \in FileType /\ PeerCourseOf(p)
  BY DEF Complete, PeerIInv, TypeOK, Stat, Check, PeerCheck, setupShm, Goto, FileType
<1>2. TypeOK'
  BY LookTypes, PeerCheckTypes DEF PeerIInv
<1>3. Others(p) /\ UNCHANGED <<path, file, fd, holders>>
  BY DEF PeerIInv, Stat, Check, PeerCheck, setupShm, Fail, Goto, TypeOK, Others
<1>4. /\ pc'[p] \in {"truncate", "check", "init", "unlock", "ready"}
      /\ pc'[p] = "ready" => pc[p] = "setup"
  BY DEF PeerIInv, Stat, Check, PeerCheck, setupShm, Fail, Goto, TypeOK
<1>5. OtherCalls(p) /\ call'[p] = call[p]
  BY <1>4, CallKept
<1>6. Private'
  BY <1>3, <1>4, <1>5, PrivateKept
<1>7. PeerCourseOf(p)'
  <2>1. CASE Stat(p)
    <3>1. IsNew(p) => file[fd[p]].head \notin Complete
      BY <1>1, GoodIsLayout DEF PeerIInv, PeerGoodFiles, IsNew
    <3> QED
      BY <1>1, <1>5, <2>1, <3>1
         DEF PeerIInv, Stat, IsNew, Fail, Goto, TypeOK, PeerCourseOf, C
  <2>2. CASE call[p] = "go" /\ Check(p)
    <3>1. Unfinished(p) => p \in Server /\ file[fd[p]].head \notin Complete /\ mapped[p] = want[p].totalSize
      BY DEF Unfinished, isHeaderZero, Complete
    <3>2. Valid(p) => file[fd[p]].head \in HeadsOf("go")
      BY HeadsComplete DEF Valid, validateHeader
    <3> QED
      BY <1>1, <1>5, <2>2, <3>1, <3>2 DEF PeerIInv, Check, Fail, Goto, TypeOK, PeerCourseOf, C
  <2>3. CASE call[p] \in {"str", "int"} /\ PeerCheck(p)
    <3>1. reqrep_validate_header(file[fd[p]], mapped[p], call[p]) =>
            file[fd[p]].head \in HeadsOf(call[p])
      BY DEF reqrep_validate_header
    <3> QED
      BY <1>1, <1>5, <2>3, <3>1 DEF PeerIInv, PeerCheck, Fail, Goto, TypeOK, PeerCourseOf, C
  <2>4. CASE setupShm(p)
    BY <1>1, <1>5, <2>4 DEF PeerIInv, setupShm, Goto, TypeOK, PeerCourseOf, C
  <2> QED
    BY <2>1, <2>2, <2>3, <2>4
<1> QED
  BY <1>2, <1>3, <1>5, <1>6, <1>7, PeerReading

\* The two steps of reqrep_int_init_header after InitFields.
IntHeader(p) ==
  /\ Goto(p, "magic", "sequences")
  /\ file' = [file EXCEPT ![fd[p]].head = "int", ![fd[p]].layout = want[p]]
  /\ UNCHANGED <<path, holders, fd, want, mapped, view, err>>

IntRing(p) ==
  /\ Goto(p, "sequences", "unlock")
  /\ file' = [file EXCEPT ![fd[p]].head = "ring"]
  /\ UNCHANGED <<path, holders, fd, want, mapped, view, err>>

\* So do they.
LEMMA IntWriteTypes ==
  ASSUME TypeOK, NEW p \in Opener, (IntHeader(p) /\ want[p] \in Layout) \/ IntRing(p)
  PROVE  TypeOK'
<1>1. fd[p] \in Inode /\ file \in [Inode -> FileType]
  BY DEF Complete, TypeOK, IntHeader, IntRing, Goto, FileType
<1>2. file' \in [Inode -> FileType]
  BY <1>1 DEF Complete, IntHeader, IntRing, FileType
<1>3. PICK from \in {"magic", "sequences"}, to \in {"sequences", "unlock"} : Goto(p, from, to)
  BY DEF IntHeader, IntRing
<1>4. UNCHANGED <<path, holders, fd, want, mapped, view, err>>
  BY DEF IntHeader, IntRing
<1>5. from \in Labels /\ to \in Labels /\ from \in Locked /\ to \in Locked /\ from # "idle"
  BY DEF Labels, Locked
<1> QED
  BY <1>2, <1>3, <1>4, <1>5, SameLocks DEF Complete, TypeOK, Labels, FileType

\* Writing the file.
LEMMA PeerWriteOk ==
  ASSUME PeerIInv, NEW p \in Opener, KeepsCall(p),
         \/ Truncate(p) \/ InitFields(p)
         \/ call[p] \in {"go", "str"} /\ InitMagic(p)
         \/ call[p] = "int" /\ (IntHeader(p) \/ IntRing(p))
  PROVE  PeerIInv'
<1> DEFINE f == file[fd[p]]
           g == file'[fd[p]]
<1>1. fd[p] \in Inode /\ f \in FileType /\ PeerCourseOf(p)
  BY DEF Complete, PeerIInv, TypeOK, Truncate, InitFields, InitMagic, IntHeader, IntRing, Goto,
         FileType
<1>2. ~IntRing(p) => GoodOf(call[p], want[p]) /\ f.head \notin Complete
  BY <1>1 DEF Truncate, InitFields, InitMagic, IntHeader, IntRing, Goto, PeerCourseOf
<1>3. ~IntRing(p) => want[p] \in Layout
  BY <1>2, GoodIsLayout
<1>4. TypeOK'
  BY <1>3, WriteTypes, IntWriteTypes DEF PeerIInv, IntRing, Goto
<1>5. /\ Others(p) /\ fd' = fd /\ UNCHANGED path
      /\ pc[p] \in {"truncate", "init", "magic", "sequences"}
  BY DEF PeerIInv, Truncate, InitFields, InitMagic, IntHeader, IntRing, Goto, TypeOK, Others
<1>6. /\ pc'[p] \in {"init", "magic", "unlock", "sequences"}
      /\ pc'[p] = "sequences" => pc[p] = "magic"
  BY DEF PeerIInv, Truncate, InitFields, InitMagic, IntHeader, IntRing, Goto, TypeOK
<1>7. OtherCalls(p) /\ call'[p] = call[p]
  BY <1>6, CallKept
<1>8. Private'
  BY <1>5, <1>6, <1>7, PrivateKept
<1>9. \A i \in Inode : i # fd[p] => file'[i] = file[i]
  BY DEF PeerIInv, Truncate, InitFields, InitMagic, IntHeader, IntRing, TypeOK
<1>10. CASE Truncate(p)
  <2>1. g = [f EXCEPT !.size = want[p].totalSize] /\ pc'[p] = "init"
    BY <1>1, <1>10 DEF Truncate, Goto, PeerIInv, TypeOK
  <2>2. g.size = want[p].totalSize /\ g.head = f.head
    BY <1>1, <2>1 DEF FileType
  <2>3. PeerCourseOf(p)'
    BY <1>1, <1>7, <1>10, <2>1, <2>2 DEF PeerIInv, Truncate, Goto, TypeOK, PeerCourseOf, C
  <2> QED
    BY <1>2, <1>4, <1>5, <1>7, <1>8, <1>9, <1>10, <2>2, <2>3, PeerWriting DEF Truncate, IntRing, Goto
<1>11. CASE InitFields(p)
  <2>1. g.size = f.size /\ g.head = "part" /\ g.head \notin Complete
    BY <1>1, <1>11 DEF InitFields, PeerIInv, TypeOK, FileType, Complete
  <2>2. PeerCourseOf(p)'
    BY <1>1, <1>7, <1>11, <2>1 DEF PeerIInv, InitFields, Goto, TypeOK, PeerCourseOf, C
  <2> QED
    BY <1>4, <1>5, <1>7, <1>8, <1>9, <2>1, <2>2, PeerWriting
<1>12. CASE call[p] \in {"go", "str"} /\ InitMagic(p)
  <2>1. g.size = f.size /\ g.head = "full" /\ g.layout = want[p]
    BY <1>1, <1>12 DEF InitMagic, PeerIInv, TypeOK, FileType
  <2>2. GoodOf("str", g.layout) /\ g.layout.totalSize = g.size
    BY <1>1, <1>2, <1>12, <2>1 DEF InitMagic, IntRing, Goto, GoodOf, PeerCourseOf
  <2>3. PeerCourseOf(p)'
    BY <1>1, <1>7, <1>12, <2>1, HeadsComplete
       DEF PeerIInv, InitMagic, Goto, TypeOK, PeerCourseOf, C
  <2> QED
    BY <1>4, <1>5, <1>7, <1>8, <1>9, <2>1, <2>2, <2>3, PeerWriting
<1>13. CASE call[p] = "int" /\ IntHeader(p)
  <2>1. g.size = f.size /\ g.head = "int" /\ g.layout = want[p]
    BY <1>1, <1>13 DEF IntHeader, PeerIInv, TypeOK, FileType
  <2>2. GoodOf("int", g.layout) /\ g.layout.totalSize = g.size
    BY <1>1, <1>2, <1>13, <2>1 DEF IntHeader, IntRing, Goto, PeerCourseOf
  <2>3. PeerCourseOf(p)'
    BY <1>1, <1>7, <1>13, <2>1 DEF PeerIInv, IntHeader, Goto, TypeOK, PeerCourseOf, C
  <2> QED
    BY <1>4, <1>5, <1>7, <1>8, <1>9, <2>1, <2>2, <2>3, PeerWriting
<1>14. CASE call[p] = "int" /\ IntRing(p)
  <2>1. g.size = f.size /\ g.head = "ring" /\ g.layout = f.layout /\ f.head = "int"
    BY <1>1, <1>14 DEF IntRing, Goto, PeerIInv, TypeOK, FileType, PeerCourseOf
  <2>2. GoodOf("int", g.layout) /\ g.layout.totalSize = g.size
    BY <1>1, <2>1 DEF PeerIInv, PeerGoodFiles, Complete
  <2>3. PeerCourseOf(p)'
    BY <1>1, <1>7, <1>14, <2>1, HeadsComplete
       DEF PeerIInv, IntRing, Goto, TypeOK, PeerCourseOf, C
  <2> QED
    BY <1>4, <1>5, <1>7, <1>8, <1>9, <2>1, <2>2, <2>3, PeerWriting
<1> QED
  BY <1>10, <1>11, <1>12, <1>13, <1>14

\* Leaving: return, close, crash.
LEMMA PeerLeaveOk ==
  ASSUME PeerIInv, NEW p \in Opener, KeepsCall(p), Unlock(p) \/ Close(p) \/ Crash(p)
  PROVE  PeerIInv'
<1>1. UNCHANGED file \/ Reclaim
  BY DEF Unlock, Close, Crash, Unmap
<1>2. Others(p) /\ UNCHANGED path
  BY DEF PeerIInv, Unlock, Close, Crash, Unmap, Return, Goto, TypeOK, Others
<1>3. TypeOK'
  BY LeaveTypes DEF PeerIInv
<1>4. IF pc'[p] = "idle"
      THEN fd'[p] = NoFile /\ err'[p] = "none"
      ELSE Unlock(p) /\ err[p] = "none" /\ pc'[p] = "setup" /\ UNCHANGED <<file, fd, mapped>>
  <2>1. PeerCourseOf(p)
    BY DEF PeerIInv
  <2>2. CASE Unlock(p)
    BY <2>2 DEF PeerIInv, Unlock, Unmap, Return, Goto, TypeOK
  <2>3. CASE Close(p)
    BY <2>1, <2>3 DEF PeerIInv, Close, Unmap, Goto, TypeOK, PeerCourseOf
  <2>4. CASE Crash(p)
    BY <2>4 DEF PeerIInv, Crash, Unmap, Return, TypeOK
  <2> QED
    BY <2>2, <2>3, <2>4
<1>5. OtherCalls(p) /\ call'[p] = IF pc'[p] = "idle" THEN "go" ELSE call[p]
  BY CallKept
<1>6. Private'
  BY <1>2, <1>4, <1>5, PrivateKept DEF Unlock, Goto
<1>7. PeerCourseOf(p)'
  <2>1. CASE pc'[p] = "idle"
    BY <1>4, <1>5, <2>1 DEF PeerCourseOf, C
  <2>2. CASE pc'[p] # "idle"
    <3>1. err'[p] = "none"
      BY <1>4, <2>2 DEF Unlock, Return, PeerIInv, TypeOK
    <3> QED
      BY <1>4, <1>5, <2>2, <3>1 DEF PeerIInv, PeerCourseOf, C, Unlock, Goto
  <2> QED
    BY <2>1, <2>2
<1> QED
  BY <1>1, <1>2, <1>3, <1>5, <1>6, <1>7, PeerReading

----------------------------------------------------------------------------
(* Memfds, and the file's name *)

\* A handle on a memfd.
LEMMA MemfdTypes ==
  ASSUME TypeOK, NEW p \in Opener, NEW i \in Inode, NEW l \in Layout, NEW n \in Nat,
         Goto(p, "idle", "ready"), file' \in [Inode -> FileType],
         fd' = [fd EXCEPT ![p] = i], mapped' = [mapped EXCEPT ![p] = n],
         view' = [view EXCEPT ![p] = l], UNCHANGED <<path, holders, want, err>>
  PROVE  TypeOK'
<1>1. \A q \in Opener, j \in Inode : (q \in holders[j] <=> pc[q] \in Locked /\ fd[q] = j)'
  BY DEF Goto, TypeOK, Locked
<1>2. pc' \in [Opener -> Locked \cup {"idle", "flock", "setup", "ready"}]
  BY DEF Goto, TypeOK
<1>3. fd' \in [Opener -> Inode \cup {NoFile}] /\ \A q \in Opener : pc'[q] # "idle" => fd'[q] \in Inode
  BY DEF Goto, TypeOK
<1> QED
  BY <1>1, <1>2, <1>3 DEF Complete, TypeOK, FileType

\* Who gets a memfd has a handle on it like those who already had it.
LEMMA MemfdOk ==
  ASSUME PeerIInv, NEW p \in Opener, NEW i \in Inode, NEW l \in Layout, NEW n \in Nat,
         Goto(p, "idle", "ready"), call' = [call EXCEPT ![p] = "memfd"], file' \in [Inode -> FileType],
         fd' = [fd EXCEPT ![p] = i], mapped' = [mapped EXCEPT ![p] = n],
         view' = [view EXCEPT ![p] = l], UNCHANGED <<path, holders, want, err>>,
         i # path, \A q \in Opener : fd[q] = i => file'[i] = file[i] /\ call[q] = "memfd",
         \A j \in Inode : j # i => file'[j] = file[j],
         file'[i].head \in {"full", "ring"}, file'[i].layout = l, file'[i].size = n,
         l.totalSize = n, GoodOf(IF file'[i].head = "full" THEN "str" ELSE "int", l)
  PROVE  PeerIInv'
<1>1. TypeOK'
  BY MemfdTypes DEF PeerIInv
<1>2. Others(p) /\ OtherCalls(p)
  BY DEF PeerIInv, TypeOK, Goto, Others, OtherCalls, Modes
<1>3. /\ pc'[p] = "ready" /\ fd'[p] = i /\ call'[p] = "memfd" /\ mapped'[p] = n /\ view'[p] = l
      /\ pc[p] = "idle" /\ err'[p] = "none"
  BY DEF PeerIInv, TypeOK, Goto, PeerCourseOf
<1>4. PeerGoodFiles'
  BY DEF PeerIInv, PeerGoodFiles
<1>5. ASSUME NEW q \in Opener PROVE PeerCourseOf(q)'
  <2>1. CASE q = p
    BY <1>3, <2>1 DEF PeerCourseOf, C
  <2>2. CASE q # p
    <3>1. pc[q] # "idle" => fd[q] \in Inode /\ file'[fd[q]] = file[fd[q]]
      BY DEF PeerIInv, TypeOK
    <3> QED
      BY <1>2, <2>2, <3>1 DEF PeerIInv, Others, OtherCalls, PeerCourseOf, C
  <2> QED
    BY <2>1, <2>2
<1>6. Private'
  <2> SUFFICES ASSUME NEW x \in Opener, NEW q \in Opener
               PROVE  /\ call'[x] = "memfd" => fd'[x] # path' /\ (fd'[q] = fd'[x] => call'[q] = "memfd")
                      /\ pc'[x] = "sequences" /\ fd'[q] = fd'[x] => pc'[q] \notin {"setup", "ready"}
    BY DEF Private
  <2>1. ASSUME pc'[x] = "sequences" PROVE x # p /\ call[x] = "int" /\ fd'[x] # i
    BY <1>2, <1>3, <2>1 DEF PeerIInv, PeerCourseOf, Others
  <2>2. CASE x = p
    BY <1>2, <1>3, <2>1, <2>2 DEF Others, OtherCalls
  <2>3. CASE x # p /\ q = p
    BY <1>2, <1>3, <2>1, <2>3 DEF PeerIInv, Private, Others, OtherCalls
  <2>4. CASE x # p /\ q # p
    BY <1>2, <2>4 DEF PeerIInv, Private, Others, OtherCalls
  <2> QED
    BY <2>2, <2>3, <2>4
<1> QED
  BY <1>1, <1>2, <1>4, <1>5, <1>6 DEF PeerIInv, OtherCalls, Modes

\* reqrep_create_memfd and reqrep_create_int_memfd.
LEMMA CreateMemfdOk ==
  ASSUME PeerIInv, NEW p \in Opener, NEW mode \in {"str", "int"}, CreateMemfd(p, mode)
  PROVE  PeerIInv'
<1>1. PICK l \in PeerLayouts(mode), i \in Inode \ {path} :
        /\ \A q \in Opener : fd[q] # i
        /\ file' = [file EXCEPT ![i] = [size |-> l.totalSize, layout |-> l,
                                        head |-> IF mode = "str" THEN "full" ELSE "ring"]]
        /\ fd' = [fd EXCEPT ![p] = i]
        /\ mapped' = [mapped EXCEPT ![p] = l.totalSize]
        /\ view' = [view EXCEPT ![p] = l]
  BY DEF CreateMemfd
<1>2. GoodOf(mode, l) /\ l \in Layout /\ l.totalSize \in Nat
  BY PeerLayoutsGood, GoodIsLayout
<1>3. file \in [Inode -> FileType] /\ i \in Inode
  BY DEF PeerIInv, TypeOK, FileType, Complete
<1>4. file'[i] = [size |-> l.totalSize, layout |-> l, head |-> IF mode = "str" THEN "full" ELSE "ring"]
  BY <1>1, <1>3
<1>5. file'[i] \in FileType
  BY <1>2, <1>4 DEF FileType, Complete
<1>6. file' \in [Inode -> FileType] /\ \A j \in Inode : j # i => file'[j] = file[j]
  BY <1>1, <1>3, <1>4, <1>5
<1>7. GoodOf(IF file'[i].head = "full" THEN "str" ELSE "int", l)
  BY <1>2, <1>4
<1> DEFINE n == l.totalSize
<1>8. file'[i].head \in {"full", "ring"} /\ file'[i].layout = l /\ file'[i].size = n
  BY <1>4
<1>9. /\ Goto(p, "idle", "ready") /\ call' = [call EXCEPT ![p] = "memfd"]
      /\ UNCHANGED <<path, holders, want, err>>
  BY DEF CreateMemfd
<1>10. mapped' = [mapped EXCEPT ![p] = n] /\ n \in Nat
  BY <1>1, <1>2
<1>11. \A q \in Opener : fd[q] = i => file'[i] = file[i] /\ call[q] = "memfd"
  BY <1>1
<1> HIDE DEF n
<1> QED
  BY <1>1, <1>2, <1>3, <1>6, <1>7, <1>8, <1>9, <1>10, <1>11, MemfdOk, ZenonT(60) DEF n

\* reqrep_open_fd.
LEMMA OpenFdOk ==
  ASSUME PeerIInv, NEW p \in Opener, NEW mode \in {"str", "int"}, reqrep_open_fd(p, mode)
  PROVE  PeerIInv'
<1>1. PICK q \in Opener :
        /\ pc[q] = "ready" /\ call[q] = "memfd"
        /\ Goto(p, "idle", "ready")
        /\ call' = [call EXCEPT ![p] = "memfd"]
        /\ fd' = [fd EXCEPT ![p] = fd[q]]
        /\ mapped' = [mapped EXCEPT ![p] = file[fd[q]].size]
        /\ view' = [view EXCEPT ![p] = file[fd[q]].layout]
        /\ UNCHANGED <<path, file, holders, want, err>>
  BY DEF reqrep_open_fd
<1> DEFINE i == fd[q]
           l == file[fd[q]].layout
<1>2. i \in Inode /\ file \in [Inode -> FileType] /\ i # path
  BY <1>1 DEF PeerIInv, TypeOK, FileType, Complete, Private
<1>3. file[i].head \in {"full", "ring"}
  BY <1>1 DEF PeerIInv, PeerCourseOf
<1>4. GoodOf(IF file[i].head = "full" THEN "str" ELSE "int", l) /\ l.totalSize = file[i].size
  BY <1>2, <1>3 DEF PeerIInv, PeerGoodFiles, Complete
<1>5. l \in Layout /\ l.totalSize \in Nat
  BY <1>4, GoodIsLayout
<1>6. \A x \in Opener : fd[x] = i => call[x] = "memfd"
  BY <1>1 DEF PeerIInv, Private
<1> DEFINE n == file[fd[q]].size
<1>7. n \in Nat /\ mapped' = [mapped EXCEPT ![p] = n]
  BY <1>1, <1>2 DEF FileType
<1>8. fd' = [fd EXCEPT ![p] = i] /\ view' = [view EXCEPT ![p] = l] /\ UNCHANGED file
  BY <1>1
<1>9. file[i].layout = l /\ file[i].size = n /\ l.totalSize = n
  BY <1>4
<1> HIDE DEF i, l, n
<1>10. /\ file' \in [Inode -> FileType] /\ \A j \in Inode : j # i => file'[j] = file[j]
       /\ \A x \in Opener : fd[x] = i => file'[i] = file[i] /\ call[x] = "memfd"
       /\ file'[i].head \in {"full", "ring"} /\ file'[i].layout = l /\ file'[i].size = n
       /\ GoodOf(IF file'[i].head = "full" THEN "str" ELSE "int", l)
  BY <1>2, <1>3, <1>4, <1>6, <1>8, <1>9
<1>11. /\ Goto(p, "idle", "ready") /\ call' = [call EXCEPT ![p] = "memfd"]
       /\ UNCHANGED <<path, holders, want, err>>
  BY <1>1
<1> QED
  BY <1>2, <1>5, <1>7, <1>8, <1>9, <1>10, <1>11, MemfdOk

\* The file loses its name.
LEMMA PeerRemoveOk ==
  ASSUME PeerIInv, Remove, UNCHANGED call
  PROVE  PeerIInv'
<1>1. TypeOK'
  BY ReclaimKeeps DEF PeerIInv, Remove, TypeOK, FileType
<1>2. \A p \in Opener : pc[p] # "idle" => file'[fd'[p]] = file[fd[p]]
  BY ReclaimKeeps DEF PeerIInv, Remove, TypeOK
<1>3. PeerGoodFiles'
  BY ReclaimKeeps DEF PeerIInv, Remove, PeerGoodFiles, EmptyFile, Complete
<1>4. ASSUME NEW p \in Opener PROVE PeerCourseOf(p)'
  BY <1>2 DEF PeerIInv, Remove, PeerCourseOf, C
<1>5. Private'
  <2>1. \A p \in Opener : call[p] = "memfd" => fd[p] \in Inode
    BY DEF PeerIInv, PeerCourseOf, TypeOK
  <2> QED
    BY <2>1, SegmentAssumption DEF PeerIInv, Remove, Private
<1> QED
  BY <1>1, <1>3, <1>4, <1>5 DEF PeerIInv

----------------------------------------------------------------------------

\* A step of a call, whichever it is.
LEMMA Steps ==
  ASSUME NEW p \in Opener, PeerStep(p), call[p] \in Modes
  PROVE  \/ Stat(p) \/ setupShm(p) \/ Unlock(p) \/ Truncate(p) \/ InitFields(p)
         \/ call[p] = "go" /\ Check(p)
         \/ call[p] \in {"str", "int"} /\ PeerCheck(p)
         \/ call[p] \in {"go", "str"} /\ InitMagic(p)
         \/ call[p] = "int" /\ (IntHeader(p) \/ IntRing(p))
         \/ call[p] = "memfd" /\ PeerCheck(p)
<1>1. ~C(p) => call[p] = "go"
  BY DEF C
<1>2. reqrep_init_header(p) => InitFields(p) \/ InitMagic(p)
  BY DEF reqrep_init_header, InitMagic
<1>3. reqrep_int_init_header(p) => InitFields(p) \/ IntHeader(p) \/ IntRing(p)
  BY DEF reqrep_int_init_header, IntHeader, IntRing
<1>4. reqrep_setup_handle(p) => setupShm(p)
  BY DEF reqrep_setup_handle
<1>5. CASE ~C(p) /\ Step(p)
  BY <1>1, <1>5 DEF Step
<1>6. CASE call[p] = "str" /\ reqrep_create(p)
  BY <1>2, <1>4, <1>6 DEF reqrep_create
<1>7. CASE call[p] = "int" /\ reqrep_create_int(p)
  BY <1>3, <1>4, <1>7 DEF reqrep_create_int
<1>8. CASE C(p) /\ reqrep_open(p)
  BY <1>4, <1>8 DEF reqrep_open, C, Modes
<1> QED
  BY <1>5, <1>6, <1>7, <1>8 DEF PeerStep

\* Every step keeps the invariant.
LEMMA PeerStepOk == PeerIInv /\ [PeerNext]_peerVars => PeerIInv'
<1> SUFFICES ASSUME PeerIInv, [PeerNext]_peerVars PROVE PeerIInv'
  OBVIOUS
<1>1. CASE UNCHANGED peerVars
  BY <1>1 DEF peerVars, vars, PeerIInv, TypeOK, PeerGoodFiles, PeerCourseOf, Private, C
<1>2. ASSUME NEW p \in Opener, GoCall(p) \/ PeerCall(p) PROVE PeerIInv'
  BY <1>2, PeerOpenOk, CreateMemfdOk, OpenFdOk DEF PeerCall
<1>3. ASSUME NEW p \in Opener, KeepsCall(p),
             PeerLock(p) \/ PeerStep(p) \/ Crash(p) \/ Close(p) PROVE PeerIInv'
  <2>1. call[p] \in Modes /\ (call[p] = "memfd" => ~PeerCheck(p))
    BY DEF PeerIInv, Modes, PeerCourseOf, PeerCheck
  <2>2. CASE PeerStep(p)
    BY <1>3, <2>1, <2>2, Steps, PeerLookOk, PeerWriteOk, PeerLeaveOk
  <2> QED
    BY <1>3, <2>2, PeerLockOk, PeerLeaveOk
<1>4. CASE Remove /\ UNCHANGED call
  BY <1>4, PeerRemoveOk
<1> QED
  BY <1>1, <1>2, <1>3, <1>4 DEF PeerNext, KeepsCall, reqrep_destroy

----------------------------------------------------------------------------

\* The invariant of both implementations' calls on one path and on memfds, with
\* any number of processes, all options and processes killed anywhere.
THEOREM PeerInvariance == PeerSpec => []PeerIInv
  BY PeerInitOk, PeerStepOk, PTL DEF PeerSpec

\* Types; the lock is held by nobody but a call between its flock and its unlock,
\* and by a server alone, though C and Go take it differently.
THEOREM PeerTypeCorrect == PeerSpec => []TypeOK
<1>1. PeerIInv => TypeOK
  BY DEF PeerIInv
<1> QED
  BY <1>1, PeerInvariance, PTL

\* Everybody who has opened a segment, in whichever way, agrees with its header.
THEOREM PeerAgreed == PeerSpec => []Agreement
<1>1. PeerIInv => Agreement
  <2> SUFFICES ASSUME PeerIInv, NEW p \in Opener, pc[p] = "ready"
               PROVE  /\ file[fd[p]].head \in Complete /\ view[p] = file[fd[p]].layout
                      /\ view[p].totalSize = mapped[p] /\ mapped[p] = file[fd[p]].size
    BY DEF Agreement
  <2>1. fd[p] \in Inode /\ file[fd[p]].head \in Complete
    BY HeadsComplete DEF PeerIInv, TypeOK
  <2> QED
    BY <2>1 DEF PeerIInv, PeerCourseOf, PeerGoodFiles
<1> QED
  BY <1>1, PeerInvariance, PTL

\* The regions of a string segment never overlap, whoever computed its layout, as
\* long as no C creator asks for responses so long that the stride wraps (Go refuses
\* them, reqrep_compute_layout does not).
THEOREM PeerLayoutsSound == ASSUME StridesFit PROVE PeerSpec => []SoundLayouts
<1>1. PeerIInv => SoundLayouts
  BY DEF PeerIInv, PeerGoodFiles, GoodOf, StrGood, Good, SoundLayouts, Complete
<1> QED
  BY <1>1, PeerInvariance, PTL

\* Nor do those of an integer segment (reqrep_int_compute_layout).
THEOREM IntLayoutsSound == PeerSpec => []IntLayouts
<1>1. PeerIInv => IntLayouts
  BY DEF PeerIInv, PeerGoodFiles, GoodOf, IntGood, IntLayouts, Complete
<1> QED
  BY <1>1, PeerInvariance, PTL

\* Neither the header nor the ring is written under somebody who uses the segment.
THEOREM NobodyInside == PeerSpec => []CreatedAlone
<1>1. PeerIInv => CreatedAlone
  <2> SUFFICES ASSUME PeerIInv, NEW p \in Opener, NEW q \in Opener, pc[p] = "ready", fd[q] = fd[p],
                      pc[q] \in {"truncate", "init", "magic", "sequences"}
               PROVE  FALSE
    BY DEF CreatedAlone
  <2>1. file[fd[p]].head \in Complete
    BY HeadsComplete
  <2> QED
    BY <2>1 DEF PeerIInv, PeerCourseOf, Private
<1> QED
  BY <1>1, PeerInvariance, PTL

\* Nobody writes a complete header again: not Go, which finishes what a crash
\* left, nor C, whose magic comes first.
THEOREM PeerNeverRewritten == PeerSpec => HeaderStable
<1>1. PeerIInv /\ [PeerNext]_peerVars =>
        [\A i \in Inode : file[i].head = "full" /\ (\E p \in Opener : fd[p] = i /\ fd'[p] = i) =>
           file'[i] = file[i]]_vars
  <2> SUFFICES ASSUME PeerIInv, PeerNext, NEW i \in Inode, file[i].head = "full",
                      NEW q \in Opener, fd[q] = i, fd'[q] = i
               PROVE  file'[i] = file[i]
    BY DEF peerVars, vars
  <2>1. CASE Reclaim
    BY <2>1, ReclaimKeeps DEF PeerIInv
  <2>2. CASE UNCHANGED file
    BY <2>2
  <2>3. ASSUME NEW p \in Opener,
               Truncate(p) \/ InitFields(p) \/ InitMagic(p) \/ IntHeader(p) \/ IntRing(p)
        PROVE  file'[i] = file[i]
    <3>1. fd[p] \in Inode /\ file[fd[p]].head # "full"
      BY <2>3
         DEF PeerIInv, TypeOK, PeerCourseOf, Complete, Truncate, InitFields, InitMagic, IntHeader,
             IntRing, Goto
    <3>2. fd[p] # i
      BY <3>1
    <3> QED
      BY <2>3, <3>1, <3>2 DEF PeerIInv, TypeOK, Truncate, InitFields, InitMagic, IntHeader, IntRing
  <2>4. ASSUME NEW p \in Opener, NEW mode \in {"str", "int"}, CreateMemfd(p, mode)
        PROVE  file'[i] = file[i]
    BY <2>4 DEF CreateMemfd, PeerIInv, TypeOK
  <2>5. ASSUME NEW p \in Opener, GoCall(p) \/ PeerCall(p) PROVE file'[i] = file[i]
    BY <2>2, <2>4, <2>5
       DEF GoCall, PeerCall, OpenFile, Create, PeerOpenFile, PeerCreateFile, reqrep_open_fd
  <2>6. ASSUME NEW p \in Opener, PeerStep(p) PROVE file'[i] = file[i]
    <3>1. call[p] \in Modes
      BY DEF PeerIInv, Modes
    <3> QED
      BY <2>1, <2>2, <2>3, <2>6, <3>1, Steps DEF Stat, Fail, Check, PeerCheck, setupShm, Unlock, Unmap
  <2>7. ASSUME NEW p \in Opener, PeerLock(p) \/ Crash(p) \/ Close(p) PROVE file'[i] = file[i]
    BY <2>1, <2>2, <2>7 DEF PeerLock, Crash, Close, Unmap
  <2> QED
    BY <2>1, <2>5, <2>6, <2>7 DEF PeerNext, reqrep_destroy, Remove
<1> QED
  BY <1>1, PeerInvariance, PTL DEF PeerSpec, HeaderStable

\* A good layout passes either check, whatever region is last.
LEMMA GoodValid ==
  ASSUME StridesFit, NEW mode \in {"go", "str", "int"}, NEW f \in FileType, f.head \in HeadsOf(mode),
         GoodOf(mode, f.layout), f.layout.totalSize = f.size
  PROVE  IF mode = "go" THEN validateHeader(f, f.size) ELSE reqrep_validate_header(f, f.size, mode)
<1> DEFINE l == f.layout
           n == l.respSlots * l.respStride
<1>1. l \in Layout /\ n \in Nat /\ IsPow2(l.reqCap) /\ l.reqSlotsOff = 256 /\ l.respSlots # 0
  BY GoodIsLayout DEF GoodOf, StrGood, Good, IntGood, Layout, HeaderSize
<1>2. CASE mode = "go"
  BY <1>1, <1>2, HeadsComplete
     DEF GoodOf, StrGood, Good, Sound, validateHeader, Layout, RespSlotSize, HeaderSize
<1>3. CASE mode = "str"
  <2>1. /\ l.reqSlotsOff + l.reqCap * ReqSlotSize <= l.reqArenaOff
        /\ l.reqArenaOff + l.reqArenaCap <= l.respOff /\ l.respOff + n <= l.totalSize
        /\ RespSlotSize + l.respDataMax <= l.respStride
    BY <1>3 DEF GoodOf, StrGood, Good, Sound
  <2>2. l.reqCap * ReqSlotSize \in Nat
    BY <1>1 DEF Layout, ReqSlotSize
  <2> QED
    BY <1>1, <1>3, <2>1, <2>2 DEF reqrep_validate_header, Layout, RespSlotSize, HeaderSize
<1>4. CASE mode = "int"
  <2>1. /\ l.reqSlotsOff + l.reqCap * ReqIntSlotSize <= l.respOff
        /\ l.respOff + n <= l.totalSize /\ RespSlotSize + 8 <= l.respStride
    BY <1>4 DEF GoodOf, IntGood, IntSound
  <2>2. l.reqCap * ReqIntSlotSize \in Nat
    BY <1>1 DEF Layout, ReqIntSlotSize
  <2> QED
    BY <1>1, <1>4, <2>1, <2>2 DEF reqrep_validate_header, Layout, RespSlotSize, HeaderSize
<1> QED
  BY <1>2, <1>3, <1>4

\* What either implementation completed, both accept in its mode: the stricter
\* checks of reqrep_validate_header refuse no layout of computeLayout in which the
\* stride did not wrap.
THEOREM PeerAlwaysOpens == ASSUME StridesFit PROVE PeerSpec => PeerCreatedOpens
<1>1. PeerIInv /\ [PeerNext]_peerVars =>
        [\A p \in Opener :
           pc[p] = "check" /\ err'[p] = "invalid" => file[fd[p]].head \notin HeadsOf(call[p])]_peerVars
  <2> SUFFICES ASSUME PeerIInv, PeerNext, NEW p \in Opener, pc[p] = "check", err'[p] = "invalid",
                      file[fd[p]].head \in HeadsOf(call[p])
               PROVE  FALSE
    BY DEF peerVars
  <2> DEFINE f == file[fd[p]]
  <2>1. fd[p] \in Inode /\ f \in FileType /\ err[p] = "none" /\ mapped[p] = f.size
    BY DEF PeerIInv, TypeOK, PeerCourseOf, FileType, Complete
  <2>2. call[p] \in {"go", "str", "int"}
    BY DEF PeerIInv, PeerCourseOf
  <2>3. f.head \in Complete /\ (f.head = "full" <=> call[p] # "int")
    BY <2>2, HeadsComplete DEF Complete
  <2>4. GoodOf(call[p], f.layout) /\ f.layout.totalSize = f.size
    BY <2>1, <2>2, <2>3 DEF PeerIInv, PeerGoodFiles, GoodOf
  <2>5. IF call[p] = "go" THEN Valid(p) ELSE reqrep_validate_header(f, mapped[p], call[p])
    BY <2>1, <2>2, <2>4, GoodValid DEF Valid
  <2>6. ASSUME NEW q \in Opener, GoCall(q) \/ PeerCall(q) PROVE err' = err
    BY <2>6 DEF GoCall, PeerCall, OpenFile, Create, PeerOpenFile, PeerCreateFile, CreateMemfd,
                reqrep_open_fd
  <2>7. ASSUME NEW q \in Opener, PeerStep(q) PROVE err'[p] # "invalid"
    <3>1. call[q] \in Modes
      BY DEF PeerIInv, Modes
    <3>2. CASE Stat(q) \/ Unlock(q)
      BY <2>1, <3>2, ZenonT(60) DEF PeerIInv, TypeOK, Stat, Fail, Unlock, Return, Goto
    <3>3. CASE call[q] = "go" /\ Check(q)
      BY <2>1, <2>5, <3>3 DEF PeerIInv, TypeOK, Check, Fail, Goto
    <3>4. CASE C(q) /\ PeerCheck(q)
      BY <2>1, <2>5, <3>4 DEF PeerIInv, TypeOK, PeerCheck, Fail, Goto, C
    <3> QED
      BY <2>1, <2>7, <3>1, <3>2, <3>3, <3>4, Steps
         DEF setupShm, Truncate, InitFields, InitMagic, IntHeader, IntRing, C
  <2>8. ASSUME NEW q \in Opener, PeerLock(q) \/ Crash(q) \/ Close(q) PROVE err'[p] # "invalid"
    BY <2>1, <2>8 DEF PeerIInv, TypeOK, PeerLock, Crash, Close, Return
  <2> QED
    BY <2>1, <2>6, <2>7, <2>8 DEF PeerNext, reqrep_destroy, Remove
<1> QED
  BY <1>1, PeerInvariance, PTL DEF PeerSpec, PeerCreatedOpens
=============================================================================
