------------------------------ MODULE Segment -------------------------------
(***************************************************************************)
(* Creating and opening the segment: NewServer (openOrCreate, initHeader,  *)
(* setupShm), NewClient (openExisting) and Close, by several processes on  *)
(* one path, any of which may be killed between two steps; somebody may    *)
(* remove the file.  The file is what the kernel keeps: its size and its   *)
(* header; the lock on it is flock, exclusive for servers, shared for      *)
(* clients, and dropped by the kernel when its holder dies.                *)
(*                                                                         *)
(* The header is zero, written in part (everything before the magic),      *)
(* full, or foreign (one that validateHeader refuses whatever follows).    *)
(* Sizes are computed as in the code, in words of W bits.                  *)
(***************************************************************************)
EXTENDS Integers

CONSTANTS
  Server, Client,      \* processes (or goroutines) that call NewServer, NewClient
  Inode, NoFile,       \* the files the path may name over time, and none
  W, MaxUint32,        \* bits of a uint32, and its largest value
  MaxInt,              \* largest size of a mapping
  Options,             \* the options servers use
  FirstFile,           \* files that may be at the path in the beginning
  NoLayout             \* the layout of a header not yet full

Opener == Server \cup Client

ASSUME SegmentAssumption ==
  /\ Server \cap Client = {} /\ NoFile \notin Inode
  /\ W \in Nat /\ MaxUint32 \in Nat /\ MaxUint32 + 1 = 2^W /\ MaxUint32 >= 4096 + 95
  /\ MaxInt \in Nat
  /\ Options \subseteq [reqCap : 0..MaxUint32, reqArenaCap : 0..MaxUint32,
                        respSlots : 0..MaxUint32, respDataMax : 0..MaxUint32]
  /\ FirstFile \subseteq [size : Nat, head : {"zero", "foreign"}, layout : {NoLayout}]

VARIABLES
  path,     \* the inode the path names, or NoFile
  file,     \* file[i]: size, header and the layout written in it
  holders,  \* holders[i]: who holds the flock
  pc,
  fd,       \* fd[p]: the file p has open or mapped
  want,     \* want[p]: the layout of its options
  mapped,   \* mapped[p]: the size of its mapping (st.Size, or the new size)
  view,     \* view[p]: the layout cached by setupShm
  err       \* err[p]: the error with which its call is about to return

vars == <<path, file, holders, pc, fd, want, mapped, view, err>>

----------------------------------------------------------------------------
(* Layout *)

HeaderSize == 256
ReqSlotSize == 24
RespSlotSize == 32

Align(x, a) == ((x + a - 1) \div a) * a

IsPow2(c) == c \in Nat \ {0} /\ \E k \in 0..(W - 1) : c = 2^k

\* The smallest power of two >= v, at least 2; 0 if it needs a bit too many.
nextPow2(v) ==
  IF v < 2 THEN 2
  ELSE LET k == CHOOSE k \in 0..W : 2^k >= v /\ (k > 0 => 2^(k - 1) < v)
       IN  IF k = W THEN 0 ELSE 2^k

\* The options with their defaults filled in.
Filled(o) ==
  LET cap == nextPow2(IF o.reqCap = 0 THEN 256 ELSE o.reqCap)
  IN  [reqCap      |-> cap,
       respDataMax |-> IF o.respDataMax = 0 THEN 4096 ELSE o.respDataMax,
       respSlots   |-> IF o.respSlots = 0 THEN cap ELSE o.respSlots,
       arenaHint   |-> IF o.reqArenaCap = 0 THEN cap * 256 ELSE o.reqArenaCap]

ReqArenaOff(d) == Align(HeaderSize + d.reqCap * ReqSlotSize, 8)

\* The hint is cut to 32 bits.
ReqArenaCap(d) ==
  LET cap == d.arenaHint % (MaxUint32 + 1) IN IF cap < 4096 THEN 4096 ELSE cap

\* Mutant of RespStride: rounded down.
RespStrideDown(d) == ((RespSlotSize + d.respDataMax) \div 64) * 64

\* Computed in 32 bits.
RespStride(d) == (((RespSlotSize + d.respDataMax + 63) % (MaxUint32 + 1)) \div 64) * 64

RespOff(d) == Align(ReqArenaOff(d) + ReqArenaCap(d), 64)

TotalSize(d) == RespOff(d) + d.respSlots * RespStride(d)

computeLayout(d) ==
  [reqCap |-> d.reqCap, respSlots |-> d.respSlots, respDataMax |-> d.respDataMax,
   reqSlotsOff |-> HeaderSize, reqArenaOff |-> ReqArenaOff(d), reqArenaCap |-> ReqArenaCap(d),
   respOff |-> RespOff(d), respStride |-> RespStride(d), totalSize |-> TotalSize(d)]

\* The options are refused unless every word of the layout fits.
Acceptable(d) ==
  /\ d.respDataMax <= MaxUint32 - RespSlotSize - 63
  /\ IsPow2(d.reqCap)
  /\ ReqArenaOff(d) <= MaxUint32
  /\ RespOff(d) <= MaxUint32
  /\ TotalSize(d) <= MaxInt

----------------------------------------------------------------------------

EmptyFile == [size |-> 0, head |-> "zero", layout |-> NoLayout]

Init ==
  /\ \/ path = NoFile /\ file = [i \in Inode |-> EmptyFile]
     \/ /\ path \in Inode
        /\ \E f \in FirstFile : file = [i \in Inode |-> IF i = path THEN f ELSE EmptyFile]
  /\ holders = [i \in Inode |-> {}]
  /\ pc = [p \in Opener |-> "idle"]
  /\ fd = [p \in Opener |-> NoFile]
  /\ want = [p \in Opener |-> NoLayout]
  /\ mapped = [p \in Opener |-> 0]
  /\ view = [p \in Opener |-> NoLayout]
  /\ err = [p \in Opener |-> "none"]

Goto(p, from, to) ==
  /\ pc[p] = from
  /\ pc' = [pc EXCEPT ![p] = to]

----------------------------------------------------------------------------
(* openOrCreate and openExisting *)

\* A server computes the layout of its options before it opens the file.  With
\* options that do not pass, or a client's path without a file (ENOENT), the
\* call returns an error and has touched nothing.
Choose(p) ==
  IF p \in Server
  THEN \E o \in Options :
         Acceptable(Filled(o)) /\ want' = [want EXCEPT ![p] = computeLayout(Filled(o))]
  ELSE UNCHANGED want

\* open of an existing file.
OpenFile(p) ==
  /\ path # NoFile
  /\ Goto(p, "idle", "flock")
  /\ fd' = [fd EXCEPT ![p] = path]
  /\ Choose(p)
  /\ UNCHANGED <<path, file, holders, mapped, view, err>>

\* open with O_CREAT makes an empty file.
Create(p) ==
  /\ p \in Server /\ path = NoFile
  /\ Goto(p, "idle", "flock")
  /\ \E i \in Inode :
       /\ \A q \in Opener : fd[q] # i
       /\ path' = i
       /\ fd' = [fd EXCEPT ![p] = i]
  /\ Choose(p)
  /\ UNCHANGED <<file, holders, mapped, view, err>>

\* LOCK_EX for a server, LOCK_SH for a client.
Lock(p) ==
  /\ Goto(p, "flock", "stat")
  /\ IF p \in Server THEN holders[fd[p]] = {} ELSE holders[fd[p]] \cap Server = {}
  /\ holders' = [holders EXCEPT ![fd[p]] = @ \cup {p}]
  /\ UNCHANGED <<path, file, fd, want, mapped, view, err>>

\* The kernel frees a file that has no name and no user left.
Reclaim ==
  file' = [i \in Inode |->
             IF path' = i \/ (\E p \in Opener : fd'[p] = i) THEN file[i] ELSE EmptyFile]

\* The descriptor and the mapping are gone.
Unmap(p) ==
  /\ fd' = [fd EXCEPT ![p] = NoFile]
  /\ mapped' = [mapped EXCEPT ![p] = 0]
  /\ UNCHANGED path
  /\ Reclaim

\* The locals of the call are gone.
Return(p) ==
  /\ want' = [want EXCEPT ![p] = NoLayout]
  /\ err' = [err EXCEPT ![p] = "none"]

\* An error: the deferred unlock and close follow.
Fail(p, from, why) ==
  /\ Goto(p, from, "unlock")
  /\ err' = [err EXCEPT ![p] = why]
  /\ UNCHANGED <<path, file, holders, fd, want, mapped, view>>

\* fstat: a server takes an empty file for a new one.
IsNew(p) == p \in Server /\ file[fd[p]].size = 0

Stat(p) ==
  /\ pc[p] = "stat"
  /\ \/ ~IsNew(p) /\ file[fd[p]].size < HeaderSize /\ Fail(p, "stat", "small")
     \/ /\ IsNew(p) \/ file[fd[p]].size >= HeaderSize
        /\ Goto(p, "stat", IF IsNew(p) THEN "truncate" ELSE "check")
        /\ mapped' = [mapped EXCEPT ![p] = file[fd[p]].size]
        /\ UNCHANGED <<path, file, holders, fd, want, view, err>>

\* ftruncate of a new file, and mmap.
Truncate(p) ==
  /\ Goto(p, "truncate", "init")
  /\ file' = [file EXCEPT ![fd[p]].size = want[p].totalSize]
  /\ mapped' = [mapped EXCEPT ![p] = want[p].totalSize]
  /\ UNCHANGED <<path, holders, fd, want, view, err>>

validateHeader(f, size) ==
  /\ f.head = "full"
  /\ IsPow2(f.layout.reqCap)
  /\ f.layout.totalSize = size
  /\ f.layout.reqSlotsOff = HeaderSize
  /\ f.layout.respSlots # 0
  /\ f.layout.respStride >= RespSlotSize

isHeaderZero(f) == f.head = "zero"

\* Mutant of Unfinished: a zero header is enough.
UnfinishedAnySize(p) == p \in Server /\ isHeaderZero(file[fd[p]])

\* What a crash between ftruncate and initHeader leaves: isHeaderZero, and the
\* size is the one of these options.
Unfinished(p) ==
  /\ p \in Server
  /\ isHeaderZero(file[fd[p]])
  /\ mapped[p] = want[p].totalSize

Valid(p) == validateHeader(file[fd[p]], mapped[p])

Check(p) ==
  /\ pc[p] = "check"
  /\ \/ /\ Unfinished(p) \/ Valid(p)
        /\ Goto(p, "check", IF Unfinished(p) THEN "init" ELSE "unlock")
        /\ UNCHANGED <<path, file, holders, fd, want, mapped, view, err>>
     \/ ~Unfinished(p) /\ ~Valid(p) /\ Fail(p, "check", "invalid")

\* initHeader: the structural fields, then the magic.
InitFields(p) ==
  /\ Goto(p, "init", "magic")
  /\ file' = [file EXCEPT ![fd[p]].head = "part"]
  /\ UNCHANGED <<path, holders, fd, want, mapped, view, err>>

InitMagic(p) ==
  /\ Goto(p, "magic", "unlock")
  /\ file' = [file EXCEPT ![fd[p]].head = "full", ![fd[p]].layout = want[p]]
  /\ UNCHANGED <<path, holders, fd, want, mapped, view, err>>

\* Mutant of Unlock: an error returns without the unlock.
UnlockOnSuccess(p) ==
  /\ Goto(p, "unlock", IF err[p] = "none" THEN "setup" ELSE "idle")
  /\ holders' = IF err[p] = "none" THEN [holders EXCEPT ![fd[p]] = @ \ {p}] ELSE holders
  /\ IF err[p] = "none" THEN UNCHANGED <<path, file, fd, mapped>> ELSE Unmap(p)
  /\ Return(p)
  /\ UNCHANGED view

\* The deferred LOCK_UN and close (and munmap after an error).
Unlock(p) ==
  /\ Goto(p, "unlock", IF err[p] = "none" THEN "setup" ELSE "idle")
  /\ holders' = [holders EXCEPT ![fd[p]] = @ \ {p}]
  /\ IF err[p] = "none" THEN UNCHANGED <<path, file, fd, mapped>> ELSE Unmap(p)
  /\ Return(p)
  /\ UNCHANGED view

\* The header is read without the lock.
setupShm(p) ==
  /\ Goto(p, "setup", "ready")
  /\ view' = [view EXCEPT ![p] = file[fd[p]].layout]
  /\ UNCHANGED <<path, file, holders, fd, want, mapped, err>>

Close(p) ==
  /\ Goto(p, "ready", "idle")
  /\ Unmap(p)
  /\ view' = [view EXCEPT ![p] = NoLayout]
  /\ UNCHANGED <<holders, want, err>>

----------------------------------------------------------------------------

\* A process is killed (and may start again): the kernel drops lock and mapping.
Crash(p) ==
  /\ pc[p] # "idle"
  /\ pc' = [pc EXCEPT ![p] = "idle"]
  /\ holders' = [i \in Inode |-> holders[i] \ {p}]
  /\ Unmap(p) /\ Return(p)
  /\ view' = [view EXCEPT ![p] = NoLayout]

\* Somebody removes the file; mappings stay.
Remove ==
  /\ path # NoFile
  /\ path' = NoFile
  /\ UNCHANGED <<holders, pc, fd, want, mapped, view, err>>
  /\ Reclaim

Step(p) ==
  Stat(p) \/ Truncate(p) \/ Check(p) \/ InitFields(p) \/ InitMagic(p) \/ Unlock(p) \/ setupShm(p)

Next ==
  \/ \E p \in Opener : OpenFile(p) \/ Create(p) \/ Lock(p) \/ Step(p) \/ Close(p) \/ Crash(p)
  \/ Remove

Spec == Init /\ [][Next]_vars

----------------------------------------------------------------------------
(* Properties *)

Layout ==
  [reqCap : Nat, respSlots : Nat, respDataMax : Nat, reqSlotsOff : Nat, reqArenaOff : Nat,
   reqArenaCap : Nat, respOff : Nat, respStride : Nat, totalSize : Nat]

\* "sequences", "int" and "ring" occur in PeerSegment only.
Locked == {"stat", "truncate", "check", "init", "magic", "sequences", "unlock"}
Complete == {"full", "int", "ring"}

\* Types; the flock is held exactly by those between Lock and Unlock, so nobody
\* waits for one who is gone or has returned, and a server that holds it is alone.
TypeOK ==
  /\ path \in Inode \cup {NoFile}
  /\ file \in [Inode -> [size : Nat, head : {"zero", "part", "foreign"} \cup Complete,
                         layout : Layout \cup {NoLayout}]]
  /\ holders \in [Inode -> SUBSET Opener]
  /\ pc \in [Opener -> Locked \cup {"idle", "flock", "setup", "ready"}]
  /\ fd \in [Opener -> Inode \cup {NoFile}]
  /\ want \in [Opener -> Layout \cup {NoLayout}]
  /\ mapped \in [Opener -> Nat]
  /\ view \in [Opener -> Layout \cup {NoLayout}]
  /\ err \in [Opener -> {"none", "small", "invalid"}]
  /\ \A p \in Opener : pc[p] # "idle" => fd[p] \in Inode
  /\ \A p \in Opener, i \in Inode : p \in holders[i] <=> pc[p] \in Locked /\ fd[p] = i
  /\ \A i \in Inode : \A s \in holders[i] \cap Server : holders[i] = {s}

\* Whoever has opened the segment sees what its header says, all of it within
\* the mapping, and so everybody who has the same file agrees on the layout:
\* whatever options they came with, and whoever died while creating it.
Agreement ==
  \A p \in Opener : pc[p] = "ready" =>
    /\ file[fd[p]].head \in Complete /\ view[p] = file[fd[p]].layout
    /\ view[p].totalSize = mapped[p] /\ mapped[p] = file[fd[p]].size

\* A complete header is never written again while its file exists.
HeaderStable ==
  [][\A i \in Inode : file[i].head = "full" /\ (\E p \in Opener : fd[p] = i /\ fd'[p] = i) =>
       file'[i] = file[i]]_vars

\* The request slots, the arena and the response slots of a layout follow each
\* other without overlap, each response slot has room for its data, the words
\* that are accessed atomically are aligned and the offsets fit 32 bits.
Sound(l) ==
  /\ l.reqSlotsOff + l.reqCap * ReqSlotSize <= l.reqArenaOff
  /\ l.reqArenaOff + l.reqArenaCap <= l.respOff
  /\ l.respOff + l.respSlots * l.respStride <= l.totalSize
  /\ RespSlotSize + l.respDataMax <= l.respStride
  /\ l.reqArenaOff % 8 = 0 /\ l.respOff % 64 = 0 /\ l.respStride % 64 = 0
  /\ l.reqArenaOff <= MaxUint32 /\ l.respOff <= MaxUint32

\* Every layout that gets into a header is sound.
SoundLayouts == \A i \in Inode : file[i].head = "full" => Sound(file[i].layout)

\* What NewServer created, NewServer and NewClient open, whatever the options of
\* either: validateHeader never refuses a complete header.
CreatedOpens ==
  [][\A p \in Opener :
       pc[p] = "check" /\ err'[p] = "invalid" => file[fd[p]].head # "full"]_vars

\* The comment of initHeader: a crash in the middle of it is detected, and
\* repaired by the next open with the same options.
CrashedInitRecovered ==
  [][\A p \in Server :
       pc[p] = "check" /\ err'[p] = "invalid" =>
         file[fd[p]].head = "foreign" \/ mapped[p] # want[p].totalSize]_vars

----------------------------------------------------------------------------
(* The inductive invariant *)

\* A layout validateHeader accepts in a file of its size.
Good(l) ==
  /\ l \in Layout /\ Sound(l) /\ IsPow2(l.reqCap)
  /\ l.reqSlotsOff = HeaderSize /\ l.respSlots # 0 /\ l.totalSize > 0

\* A complete header has a good layout that fits the file.
GoodFiles ==
  \A i \in Inode : file[i].head = "full" =>
    Good(file[i].layout) /\ file[i].layout.totalSize = file[i].size

\* Where each call has got to: only servers write, with a good layout and into
\* a file without a complete header; who got through has one.
Course ==
  \A p \in Opener :
    /\ pc[p] \in {"truncate", "init", "magic"} => p \in Server /\ file[fd[p]].head # "full"
    /\ p \in Server /\ pc[p] \in {"flock", "stat", "truncate", "check", "init", "magic"} => Good(want[p])
    /\ pc[p] \in {"init", "magic"} => mapped[p] = want[p].totalSize
    /\ pc[p] \in {"check", "init", "magic"} => mapped[p] = file[fd[p]].size
    /\ pc[p] # "unlock" => err[p] = "none"
    /\ pc[p] \in {"unlock", "setup", "ready"} /\ err[p] = "none" =>
         file[fd[p]].head = "full" /\ mapped[p] = file[fd[p]].size

IInv == TypeOK /\ GoodFiles /\ Course /\ Agreement
=============================================================================
