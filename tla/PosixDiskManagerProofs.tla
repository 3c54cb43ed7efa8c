----------------------- MODULE PosixDiskManagerProofs -----------------------
(***************************************************************************)
(* Theorems about PosixDiskManager, for any number of processes, disks,    *)
(* pages and faults.                                                       *)
(***************************************************************************)
EXTENDS PosixDiskManager, TLAPS

Busy == Labels \ {"idle", "aborted"}
HoldsFd == {"created", "loaded", "stat1", "stat2", "truncate", "tsync", "rw", "wsync",
            "size", "unlink"}
Prepared == {"truncate", "tsync", "rw", "wsync"}

(* What a process's place in the code says about its other variables.      *)
ProcOK(p) ==
  /\ pc[p] \in Busy => call[p] \in CallType
  /\ pc[p] \in HoldsFd => fd[p] \in Inodes
  /\ fd[p] # None => open_fds[p] > 0
  /\ pc[p] \in Busy /\ call[p].op \in {"create", "load"} => cur_disk_id[p] < MaxLoads
  /\ pc[p] = "loaded" => call[p].op \in {"create", "load"}
  /\ pc[p] \in Prepared => ~ExceedsMax(call[p].cursor)

(* TypeOK without the file system.                                         *)
MgrTypeOK ==
  /\ disks \in [Procs -> [Ids -> Names \cup {None}]]
  /\ cur_disk_id \in [Procs -> Ids]
  /\ pc \in [Procs -> Labels]
  /\ call \in [Procs -> CallType \cup {NoCall}]
  /\ should_exist \in [Procs -> BOOLEAN]
  /\ again \in [Procs -> SUBSET Sites]
  /\ fd \in [Procs -> Inodes \cup {None}]
  /\ open_fds \in [Procs -> 0 .. MaxFds]
  /\ reply \in [Procs -> ReplyType]
  /\ destroyed \in [Procs -> Nat]
  /\ acked \in [Names -> [PageIndex -> Content \cup {Unknown}]]

MgrOK == MgrTypeOK /\ \A p \in Procs : ProcOK(p)

(* The inductive invariant.                                                *)
IInv == FsTypeOK /\ MgrOK

-----------------------------------------------------------------------------
(* Arithmetic of page offsets.                                             *)

(* The constants of the offset arithmetic are positive.                    *)
LEMMA UModNat == UMod \in Nat \ {0} /\ UMod >= PageSize /\ PageSize \in Nat \ {0} /\ NumPages \in Nat \ {0}
  BY PageSizeAssumption, NumPagesAssumption DEF UMod

(* An offset is the start of a page of the 32-bit range, wrapped or not.   *)
LEMMA OffsetIsPage ==
  ASSUME NEW c \in Int
  PROVE \E k \in PageIndex : Offset(c) = k * PageSize
<1> DEFINE q == (c * PageSize) \div UMod
<1>0. PageSize \in Nat /\ PageSize > 0 /\ NumPages \in Nat /\ NumPages > 0 /\ UMod \in Nat /\ UMod > 0
  BY UModNat
<1>1. q \in Int /\ c * PageSize \in Int
  BY <1>0
<1>2. c * PageSize = UMod * q + Offset(c) /\ Offset(c) \in 0 .. (UMod - 1)
  BY <1>0, <1>1 DEF Offset
<1> HIDE DEF q
<1> DEFINE k == c - NumPages * q
<1>3. k \in Int /\ Offset(c) = k * PageSize
  BY <1>0, <1>1, <1>2 DEF UMod
<1>4. k >= 0 /\ k < NumPages
  <2> HIDE DEF k
  <2>1. k * PageSize >= 0 /\ k * PageSize < NumPages * PageSize
    BY <1>0, <1>2, <1>3 DEF UMod
  <2>2. k >= 0
    BY <2>1, <1>0, <1>3
  <2>3. k < NumPages
    BY <2>1, <1>0, <1>3
  <2> QED BY <2>2, <2>3
<1> QED BY <1>0, <1>3, <1>4 DEF PageIndex

(* Offsets and new sizes of prepare_rw lie in the unsigned range, and a    *)
(* cursor has a slot.                                                      *)
LEMMA OffsetType ==
  ASSUME NEW c \in Int
  PROVE /\ Offset(c) \in 0 .. (UMod - PageSize)
        /\ Slot(c) \in PageIndex
        /\ NewSize(c) \in 0 .. (UMod - 1)
<1>0. PageSize \in Nat /\ PageSize > 0 /\ NumPages \in Nat /\ NumPages > 0 /\ UMod \in Nat /\ UMod > 0
  BY UModNat
<1>1. PICK k \in PageIndex : Offset(c) = k * PageSize
  BY OffsetIsPage
<1>2. k \in Nat /\ k + 1 <= NumPages
  BY <1>0, <1>1 DEF PageIndex
<1>3. Offset(c) \in Nat /\ Offset(c) + PageSize <= UMod
  BY <1>0, <1>1, <1>2 DEF UMod
<1>4. Slot(c) = k
  BY <1>0, <1>1, <1>2 DEF Slot
<1>5. NewSize(c) \in 0 .. (UMod - 1)
  BY <1>0, <1>3 DEF NewSize
<1> QED BY <1>0, <1>1, <1>3, <1>4, <1>5

-----------------------------------------------------------------------------
(* The control-flow operators preserve MgrOK.                              *)

(* Going on to the next system call keeps the invariant.                   *)
LEMMA GotoOK ==
  ASSUME MgrOK, NEW p \in Procs, NEW l \in Busy, pc[p] \in Busy, Goto(p, l),
         l \in HoldsFd => fd[p] \in Inodes,
         l # "loaded",
         l \in Prepared => ~ExceedsMax(call[p].cursor)
  PROVE MgrOK'
<1>1. MgrTypeOK'
  BY DEF MgrOK, MgrTypeOK, Goto, Busy, mgr
<1>2. ASSUME NEW q \in Procs PROVE ProcOK(q)'
  BY <1>2 DEF MgrOK, MgrTypeOK, ProcOK, Goto, Busy, HoldsFd, Prepared, mgr, ExceedsMax, NewSize, Offset
<1> QED BY <1>1, <1>2 DEF MgrOK

(* Running a macro argument a second time keeps the invariant.             *)
LEMMA AgainOK ==
  ASSUME MgrOK, NEW p \in Procs, NEW l \in Busy, pc[p] \in Busy,
         NEW site \in Sites, NEW done, Again(p, site, done, l),
         l \in HoldsFd => fd[p] \in Inodes,
         l # "loaded",
         l \in Prepared => ~ExceedsMax(call[p].cursor)
  PROVE MgrOK'
<1>1. MgrTypeOK'
  BY DEF MgrOK, MgrTypeOK, Again, Busy, mgr
<1>2. ASSUME NEW q \in Procs PROVE ProcOK(q)'
  BY <1>2 DEF MgrOK, MgrTypeOK, ProcOK, Again, Busy, HoldsFd, Prepared, mgr, ExceedsMax, NewSize, Offset
<1> QED BY <1>1, <1>2 DEF MgrOK

(* Returning from an operation, which closes its descriptor, keeps the     *)
(* invariant.                                                              *)
LEMMA ReturnOK ==
  ASSUME MgrOK, NEW p \in Procs, NEW res \in Errors \cup {"ok"}, NEW val \in Nat,
         NEW page \in Content \cup {None}, Return(p, res, val, page)
  PROVE MgrOK'
<1> USE DEF MgrOK, MgrTypeOK, Return, Leave, CloseDisk, mgr
<1>1. MgrTypeOK'
  <2>1. fd' \in [Procs -> Inodes \cup {None}] /\ pc' \in [Procs -> Labels] /\ again' \in [Procs -> SUBSET Sites]
    BY DEF Labels
  <2>2. open_fds' \in [Procs -> 0 .. MaxFds]
    BY BoundsAssumption DEF ProcOK
  <2>3. reply' \in [Procs -> ReplyType]
    BY DEF ReplyType
  <2>4. call' \in [Procs -> CallType \cup {NoCall}] /\ should_exist' \in [Procs -> BOOLEAN]
    OBVIOUS
  <2> QED BY <2>1, <2>2, <2>3, <2>4
<1>2. ASSUME NEW q \in Procs PROVE ProcOK(q)'
  BY <1>2, BoundsAssumption DEF ProcOK, Busy, HoldsFd, Prepared, ExceedsMax, NewSize, Offset
<1> QED BY <1>1, <1>2

(* The end of any set of processes keeps the invariant.                    *)
LEMMA GoneOK ==
  ASSUME MgrOK, NEW P \in SUBSET Procs, NEW l \in {"idle", "aborted"},
         NEW why \in {"bad_result", "failed_assert", None}, Gone(P, l, why)
  PROVE MgrOK'
<1> USE DEF MgrOK, MgrTypeOK, Gone
<1>1. MgrTypeOK'
  <2>1. /\ fd' \in [Procs -> Inodes \cup {None}] /\ pc' \in [Procs -> Labels]
        /\ again' \in [Procs -> SUBSET Sites]
    BY DEF Labels
  <2>2. open_fds' \in [Procs -> 0 .. MaxFds] /\ destroyed' \in [Procs -> Nat]
    BY BoundsAssumption
  <2>3. reply' \in [Procs -> ReplyType]
    BY DEF ReplyType, NoReply
  <2>4. call' \in [Procs -> CallType \cup {NoCall}] /\ should_exist' \in [Procs -> BOOLEAN]
    OBVIOUS
  <2>5. disks' \in [Procs -> [Ids -> Names \cup {None}]] /\ cur_disk_id' \in [Procs -> Ids]
    BY BoundsAssumption DEF Ids
  <2> QED BY <2>1, <2>2, <2>3, <2>4, <2>5
<1>2. ASSUME NEW q \in Procs PROVE ProcOK(q)'
  BY <1>2 DEF ProcOK, Busy, HoldsFd, Prepared, ExceedsMax, NewSize, Offset
<1> QED BY <1>1, <1>2

(* A process that dies of a missing result or a failed assert keeps the    *)
(* invariant.                                                              *)
LEMMA DiesOK ==
  ASSUME MgrOK, NEW p \in Procs, BadResult(p) \/ FailedAssert(p)
  PROVE MgrOK'
  BY GoneOK DEF BadResult, FailedAssert

(* Returning an error keeps the invariant.                                 *)
LEMMA FailOK ==
  ASSUME MgrOK, NEW p \in Procs, NEW e \in Errors, Fail(p, e)
  PROVE MgrOK'
  BY ReturnOK DEF Fail
-----------------------------------------------------------------------------
(* The file system operators preserve FsTypeOK.                            *)

(* A step that leaves the file system alone keeps its type.                *)
LEMMA FsStutter ==
  ASSUME FsTypeOK, UNCHANGED fs
  PROVE FsTypeOK'
  BY DEF FsTypeOK, fs

(* A file that truncate resized is a file.                                 *)
LEMMA ResizeType ==
  ASSUME NEW f \in File, NEW n \in 0 .. UMod
  PROVE Resize(f, n) \in File
  BY DEF Resize, File, Content

(* A file after a write of at most a page at the start of a page is a      *)
(* file.                                                                   *)
LEMMA WriteAtType ==
  ASSUME NEW f \in File, NEW c \in Int, NEW v \in Content, NEW len \in 1 .. PageSize
  PROVE WriteAt(f, Offset(c), v, len) \in File
<1>1. Offset(c) \in 0 .. (UMod - PageSize) /\ Offset(c) \div PageSize \in PageIndex
  BY OffsetType DEF Slot
<1>2. Offset(c) + len \in 0 .. UMod
  BY <1>1, UModNat
<1> QED BY <1>1, <1>2 DEF WriteAt, File

(* A file that open created is a file.                                     *)
LEMMA EmptyFileType == EmptyFile \in File
  BY UModNat DEF EmptyFile, File, Content

(* open with O_CREAT keeps the type of the file system.                    *)
LEMMA CreateEntryType ==
  ASSUME FsTypeOK, NEW n \in Names, NEW i \in Inodes, CreateEntry(n, i)
  PROVE FsTypeOK'
  BY EmptyFileType DEF FsTypeOK, CreateEntry

(* fsync of an open file keeps the type of the file system.                *)
LEMMA SyncType ==
  ASSUME FsTypeOK, NEW p \in Procs, fd[p] \in Inodes, sync(p)
  PROVE FsTypeOK'
  BY DEF FsTypeOK, sync, Flush

(* What a power failure leaves of a file is a file.                        *)
LEMMA SurvivorType ==
  ASSUME FsTypeOK, NEW i \in Inodes, NEW L, NEW D, NEW T
  PROVE Survivor(i, L, D, T) \in File
<1> DEFINE size == IF i \in L THEN file[i].size ELSE media[i].size
           page(k) == IF <<i, k>> \in T THEN Torn
                      ELSE IF <<i, k>> \in D THEN file[i].page[k] ELSE media[i].page[k]
           before == [size |-> size, page |-> [k \in PageIndex |-> page(k)]]
<1>1. size \in 0 .. UMod /\ before \in File
  BY DEF FsTypeOK, File, Content
<1>2. Survivor(i, L, D, T) = Resize(before, size)
  BY DEF Survivor
<1> QED BY <1>1, <1>2, ResizeType

(* A power failure keeps the type of the file system.                      *)
LEMMA LosePowerType ==
  ASSUME FsTypeOK, LosePower
  PROVE FsTypeOK'
<1>1. file' \in [Inodes -> File] /\ media' = file'
  BY SurvivorType DEF LosePower
<1>2. dir' \in [Names -> Inodes \cup {None}] /\ mdir' = dir'
  BY DEF LosePower, FsTypeOK
<1> QED BY <1>1, <1>2 DEF FsTypeOK

-----------------------------------------------------------------------------
(* Every action preserves IInv.                                            *)

(* disk_byte_size and extend keep the invariant when stat succeeds.        *)
LEMMA SizeValueOK ==
  ASSUME MgrOK, NEW p \in Procs, pc[p] \in Busy, NEW n \in Nat, SizeValue(p, n)
  PROVE MgrOK'
<1>1. CASE SecondSize(p, "size_value")
  <2> USE DEF MgrOK, MgrTypeOK, SecondSize, CloseDisk, mgr
  <2>1. MgrTypeOK'
    BY <1>1, BoundsAssumption DEF ProcOK, Labels, Sites
  <2>2. ASSUME NEW q \in Procs PROVE ProcOK(q)'
    BY <1>1, <2>2, BoundsAssumption DEF ProcOK, Busy, HoldsFd, Prepared, Labels, ExceedsMax, NewSize, Offset
  <2> QED BY <2>1, <2>2
<1>2. CASE extend_result(p, n)
  <2>1. (n \div PageSize) + 1 \in Nat
    BY UModNat
  <2> QED BY <1>2, <2>1, ReturnOK, FailOK DEF extend_result, Errors
<1>3. CASE Return(p, "ok", n, None)
  BY <1>3, ReturnOK
<1>4. CASE BadResult(p)
  BY <1>4, DiesOK
<1> QED BY <1>1, <1>2, <1>3, <1>4 DEF SizeValue

(* disk_byte_size and extend keep the invariant when stat or init fails.   *)
LEMMA SizeErrorOK ==
  ASSUME MgrOK, NEW p \in Procs, pc[p] \in Busy, NEW e \in Errors, SizeError(p, e)
  PROVE MgrOK'
<1>1. CASE SecondSize(p, "size_error")
  <2> USE DEF MgrOK, MgrTypeOK, SecondSize, CloseDisk, mgr
  <2>1. MgrTypeOK'
    BY <1>1, BoundsAssumption DEF ProcOK, Labels, Sites
  <2>2. ASSUME NEW q \in Procs PROVE ProcOK(q)'
    BY <1>1, <2>2, BoundsAssumption DEF ProcOK, Busy, HoldsFd, Prepared, Labels, ExceedsMax, NewSize, Offset
  <2> QED BY <2>1, <2>2
<1> QED BY <1>1, FailOK, DiesOK DEF SizeError

(* A failure of PosixDisk::init keeps the invariant.                       *)
LEMMA InitErrorOK ==
  ASSUME MgrOK, NEW p \in Procs, pc[p] \in Busy, NEW e \in Errors, InitError(p, e)
  PROVE MgrOK'
<1>1. CASE Again(p, "init", {"exists"}, "access1")
  <2>1. "access1" \in Busy /\ "access1" \notin HoldsFd /\ "access1" \notin Prepared /\ "init" \in Sites
    BY DEF Busy, Labels, HoldsFd, Prepared, Sites
  <2> QED BY <1>1, <2>1, AgainOK
<1> QED BY <1>1, FailOK, SizeErrorOK DEF InitError

(* A failure of PosixDisk::read or write keeps the invariant.              *)
LEMMA RwErrorOK ==
  ASSUME MgrOK, NEW p \in Procs, pc[p] \in Busy, fd[p] \in Inodes, NEW e \in Errors, RwError(p, e)
  PROVE MgrOK'
<1>1. "stat1" \in Busy /\ "stat1" \notin Prepared /\ "rw" \in Sites
  BY DEF Busy, Labels, Prepared, Sites
<1> QED BY <1>1, AgainOK, FailOK DEF RwError

(* A failure of prepare_rw keeps the invariant.                            *)
LEMMA PrepareErrorOK ==
  ASSUME MgrOK, NEW p \in Procs, pc[p] \in Busy, fd[p] \in Inodes, NEW e \in Errors, PrepareError(p, e)
  PROVE MgrOK'
<1>1. "stat1" \in Busy /\ "stat1" \notin Prepared /\ "prepare_rw" \in Sites
  BY DEF Busy, Labels, Prepared, Sites
<1> QED BY <1>1, AgainOK, RwErrorOK DEF PrepareError

(* A cursor that passed the checks of prepare_rw keeps the invariant on    *)
(* the way to the transfer.                                                *)
LEMMA PrepareOkOK ==
  ASSUME MgrOK, NEW p \in Procs, pc[p] \in Busy, fd[p] \in Inodes,
         ~ExceedsMax(call[p].cursor), PrepareOk(p)
  PROVE MgrOK'
<1>1. CASE "prepare_rw" \notin again[p]
  <2> USE DEF MgrOK, MgrTypeOK, PrepareOk, mgr
  <2>1. MgrTypeOK'
    BY <1>1 DEF Labels
  <2>2. ASSUME NEW q \in Procs PROVE ProcOK(q)'
    BY <1>1, <2>2 DEF ProcOK, Busy, HoldsFd, Prepared, ExceedsMax, NewSize, Offset
  <2> QED BY <2>1, <2>2
<1> QED BY <1>1, DiesOK DEF PrepareOk
(* The first evaluation of exists keeps the invariant.                     *)
LEMMA Access1OK ==
  ASSUME IInv, NEW p \in Procs, Access1(p)
  PROVE IInv'
<1>1. "access2" \in Busy /\ "access2" \notin HoldsFd /\ "access2" \notin Prepared
      /\ "exists" \in Sites /\ pc[p] \in Busy
  BY DEF Access1, Busy, Labels, HoldsFd, Prepared, Sites
<1>2. MgrOK'
  BY <1>1, GotoOK, AgainOK DEF Access1, IInv
<1> QED BY <1>2, FsStutter DEF IInv, Access1

(* The second evaluation of exists keeps the invariant.                    *)
LEMMA Access2OK ==
  ASSUME IInv, NEW p \in Procs, Access2(p)
  PROVE IInv'
<1>1. "open" \in Busy /\ "open" \notin HoldsFd /\ "open" \notin Prepared /\ pc[p] \in Busy
  BY DEF Access2, Busy, Labels, HoldsFd, Prepared
<1>2. {"DISK_ALREADY_EXISTS", "DISK_NOT_FOUND", "UNKOWN_ERROR"} \subseteq Errors
  BY DEF Errors
<1>3. MgrOK'
  BY <1>1, <1>2, GotoOK, InitErrorOK, DiesOK DEF Access2, IInv
<1> QED BY <1>3, FsStutter DEF IInv, Access2

(* open, which takes a descriptor below the limit, keeps the invariant.    *)
LEMMA OpenOK ==
  ASSUME IInv, NEW p \in Procs, Open(p)
  PROVE IInv'
<1> DEFINE n == call[p].name
           Opened(i) ==
             /\ open_fds[p] < MaxFds
             /\ pc' = [pc EXCEPT ![p] = AfterOpen(p)]
             /\ fd' = [fd EXCEPT ![p] = i]
             /\ open_fds' = [open_fds EXCEPT ![p] = @ + 1]
             /\ UNCHANGED <<again, reply, mgr, call, should_exist, acked>>
<1>1. pc[p] \in Busy /\ call[p] \in CallType /\ n \in Names
  BY DEF Open, IInv, MgrOK, ProcOK, Busy, Labels, CallType
<1>2. AfterOpen(p) \in {"created", "loaded", "unlink", "stat1", "size"}
  BY <1>1 DEF AfterOpen, CallType, DiskOps, IInv, MgrOK, MgrTypeOK
<1>3. AfterOpen(p) = "loaded" => call[p].op \in {"create", "load"}
  BY <1>1 DEF AfterOpen, CallType, DiskOps, IInv, MgrOK, MgrTypeOK
<1>4. ASSUME NEW i \in Inodes, Opened(i) PROVE MgrOK'
  <2> USE DEF IInv, MgrOK, MgrTypeOK, mgr
  <2>0. i # None
    BY <1>4, InodesAssumption
  <2>1. MgrTypeOK'
    BY <1>2, <1>4, BoundsAssumption DEF Labels
  <2>2. ASSUME NEW q \in Procs PROVE ProcOK(q)'
    BY <1>1, <1>2, <1>3, <1>4, <2>0, <2>2, BoundsAssumption
    DEF ProcOK, Busy, Labels, HoldsFd, Prepared, ExceedsMax, NewSize, Offset
  <2> QED BY <2>1, <2>2
<1>5. CASE dir[n] # None /\ Opened(dir[n]) /\ UNCHANGED fs
  <2>1. dir[n] \in Inodes
    BY <1>1, <1>5 DEF IInv, FsTypeOK
  <2> QED BY <1>4, <1>5, <2>1, FsStutter DEF IInv
<1>6. CASE \E i \in Inodes : Opened(i) /\ CreateEntry(n, i)
  BY <1>1, <1>4, <1>6, CreateEntryType DEF IInv
<1>7. CASE InitError(p, "CREATE_DISK_ERROR") /\ UNCHANGED fs
  <2>1. "CREATE_DISK_ERROR" \in Errors
    BY DEF Errors
  <2> QED BY <1>1, <1>7, <2>1, InitErrorOK, FsStutter DEF IInv
<1> QED BY <1>5, <1>6, <1>7 DEF Open

(* Both evaluations of get_disk_byte_size in prepare_rw keep the           *)
(* invariant.                                                              *)
LEMMA StatOK ==
  ASSUME IInv, NEW p \in Procs, Stat1(p) \/ Stat2(p)
  PROVE IInv'
<1>1. "stat2" \in Busy /\ "stat2" \notin Prepared /\ "truncate" \in Busy /\ "stat" \in Sites
  BY DEF Busy, Labels, Prepared, Sites
<1>2. pc[p] \in Busy /\ fd[p] \in Inodes
  BY DEF Stat1, Stat2, IInv, MgrOK, ProcOK, Busy, Labels, HoldsFd
<1>3. "DISK_EXCEEDS_MAX_SIZE" \in Errors /\ "GET_DISK_SIZE_ERROR" \in Errors
  BY DEF Errors
<1>4. CASE Stat1(p)
  <2>1. MgrOK'
    BY <1>1, <1>2, <1>4, GotoOK, AgainOK, DiesOK DEF Stat1, IInv
  <2> QED BY <1>4, <2>1, FsStutter DEF Stat1, IInv
<1>5. CASE Stat2(p)
  <2>1. MgrOK'
    BY <1>1, <1>2, <1>3, <1>5, GotoOK, PrepareErrorOK, PrepareOkOK, DiesOK DEF Stat2, IInv
  <2> QED BY <1>5, <2>1, FsStutter DEF Stat2, IInv
<1> QED BY <1>4, <1>5

(* Where posix_disk.cpp transfers data the process has a descriptor and a  *)
(* cursor in range.                                                        *)
LEMMA PreparedFacts ==
  ASSUME IInv, NEW p \in Procs, pc[p] \in Prepared
  PROVE /\ pc[p] \in Busy /\ call[p] \in CallType /\ fd[p] \in Inodes
        /\ ~ExceedsMax(call[p].cursor)
        /\ call[p].name \in Names /\ call[p].cursor \in Int /\ call[p].bytes \in Content
<1>1. pc[p] \in Busy /\ call[p] \in CallType /\ fd[p] \in Inodes /\ ~ExceedsMax(call[p].cursor)
  BY DEF IInv, MgrOK, ProcOK, Prepared, Busy, Labels, HoldsFd
<1>2. /\ call[p].name \in Names /\ call[p].cursor \in Cursors \cup {0}
      /\ call[p].bytes \in Bytes \cup {Zero}
  BY <1>1 DEF CallType
<1>3. call[p].cursor \in Int
  BY <1>2, CursorsAssumption
<1>4. call[p].bytes \in Content
  BY <1>2 DEF Content
<1> QED BY <1>1, <1>2, <1>3, <1>4

(* truncate keeps the invariant.                                           *)
LEMMA TruncateOK ==
  ASSUME IInv, NEW p \in Procs, Truncate(p)
  PROVE IInv'
<1>0. pc[p] \in Prepared
  BY DEF Truncate, Prepared
<1>1. "tsync" \in Busy /\ "tsync" # "loaded"
  BY DEF Busy, Labels
<1> DEFINE i == dir[call[p].name]
<1>2. CASE /\ Found(p)
           /\ file' = [file EXCEPT ![i] = Resize(@, NewSize(call[p].cursor))]
           /\ Goto(p, "tsync")
           /\ UNCHANGED <<dir, mdir, media>>
  <2>1. MgrOK'
    BY <1>0, <1>1, <1>2, PreparedFacts, GotoOK DEF IInv
  <2>2. i \in Inodes /\ file[i] \in File
    BY <1>0, <1>2, PreparedFacts DEF Found, IInv, FsTypeOK
  <2>3. NewSize(call[p].cursor) \in 0 .. UMod
    BY <1>0, PreparedFacts, OffsetType, UModNat
  <2>4. Resize(file[i], NewSize(call[p].cursor)) \in File
    BY <2>2, <2>3, ResizeType
  <2>5. FsTypeOK'
    BY <1>2, <2>2, <2>4 DEF IInv, FsTypeOK
  <2> QED BY <2>1, <2>5 DEF IInv
<1>3. CASE PrepareOk(p) /\ UNCHANGED fs
  BY <1>0, <1>3, PreparedFacts, PrepareOkOK, FsStutter DEF IInv
<1> QED BY <1>2, <1>3 DEF Truncate

(* The fsync after truncate keeps the invariant.                           *)
LEMMA TruncateSyncOK ==
  ASSUME IInv, NEW p \in Procs, TruncateSync(p)
  PROVE IInv'
<1>0. pc[p] \in Prepared /\ "tsync" \in Busy /\ "sync" \in Sites
  BY DEF TruncateSync, Prepared, Busy, Labels, Sites
<1>1. FsTypeOK'
  BY <1>0, PreparedFacts, SyncType, FsStutter DEF TruncateSync, IInv
<1>2. MgrOK'
  BY <1>0, PreparedFacts, PrepareOkOK, DiesOK, AgainOK DEF TruncateSync, IInv
<1> QED BY <1>1, <1>2 DEF IInv

(* write, in full or in part, keeps the invariant.                         *)
LEMMA WriteOK ==
  ASSUME IInv, NEW p \in Procs, Write(p)
  PROVE IInv'
<1> DEFINE off == Offset(call[p].cursor)
           Put(v, len) == file' = [file EXCEPT ![fd[p]] = WriteAt(@, off, v, len)]
<1>0. pc[p] \in Prepared /\ "wsync" \in Busy /\ "wsync" # "loaded" /\ "UNKOWN_ERROR" \in Errors
  BY DEF Write, Prepared, Busy, Labels, Errors
<1>1. MgrOK'
  BY <1>0, PreparedFacts, GotoOK, RwErrorOK DEF Write, IInv
<1>2. ASSUME NEW v \in Content, NEW len \in 1 .. PageSize, Put(v, len)
      PROVE file' \in [Inodes -> File]
  <2>1. file[fd[p]] \in File /\ fd[p] \in Inodes /\ call[p].cursor \in Int
    BY <1>0, PreparedFacts DEF IInv, FsTypeOK
  <2>2. WriteAt(file[fd[p]], off, v, len) \in File
    BY <1>2, <2>1, WriteAtType
  <2> QED BY <1>2, <2>1, <2>2 DEF IInv, FsTypeOK
<1>3. PageSize \in 1 .. PageSize /\ 1 .. (PageSize - 1) \subseteq 1 .. PageSize
      /\ call[p].bytes \in Content /\ Torn \in Content
  BY <1>0, PreparedFacts, UModNat DEF Content
<1>4. \/ Put(call[p].bytes, PageSize)
      \/ \E len \in 1 .. (PageSize - 1) : Put(Torn, len)
      \/ UNCHANGED file
  BY DEF Write
<1>5. file' \in [Inodes -> File]
  BY <1>2, <1>3, <1>4 DEF IInv, FsTypeOK
<1>6. FsTypeOK'
  BY <1>5 DEF IInv, FsTypeOK, Write
<1> QED BY <1>1, <1>6 DEF IInv
(* The fsync after write keeps the invariant.                              *)
LEMMA WriteSyncOK ==
  ASSUME IInv, NEW p \in Procs, WriteSync(p)
  PROVE IInv'
<1> DEFINE n == call[p].name
<1>0. pc[p] \in Prepared /\ "wsync" \in Busy /\ "wsync" # "loaded" /\ "sync" \in Sites
      /\ "UNKOWN_ERROR" \in Errors
  BY DEF WriteSync, Prepared, Busy, Labels, Sites, Errors
<1>1. FsTypeOK'
  BY <1>0, PreparedFacts, SyncType, FsStutter DEF WriteSync, IInv
<1>2. ASSUME Leave(p, "ok", 0, None), CloseDisk(p), UNCHANGED mgr,
             acked' = [acked EXCEPT ![n][Slot(call[p].cursor)] = call[p].bytes]
      PROVE MgrOK'
  <2> USE <1>2 DEF IInv, MgrOK, MgrTypeOK, Leave, CloseDisk, mgr
  <2>1. MgrTypeOK'
    <3>1. fd' \in [Procs -> Inodes \cup {None}] /\ pc' \in [Procs -> Labels]
          /\ again' \in [Procs -> SUBSET Sites]
      BY DEF Labels
    <3>2. open_fds' \in [Procs -> 0 .. MaxFds]
      BY BoundsAssumption DEF ProcOK
    <3>3. reply' \in [Procs -> ReplyType]
      BY DEF ReplyType
    <3>4. call' \in [Procs -> CallType \cup {NoCall}] /\ should_exist' \in [Procs -> BOOLEAN]
      OBVIOUS
    <3>5. acked' \in [Names -> [PageIndex -> Content \cup {Unknown}]]
      BY <1>0, PreparedFacts
    <3> QED BY <3>1, <3>2, <3>3, <3>4, <3>5
  <2>2. ASSUME NEW q \in Procs PROVE ProcOK(q)'
    BY <2>2, BoundsAssumption DEF ProcOK, Busy, HoldsFd, Prepared, ExceedsMax, NewSize, Offset
  <2> QED BY <2>1, <2>2
<1>3. MgrOK'
  BY <1>0, <1>2, PreparedFacts, DiesOK, AgainOK, RwErrorOK DEF WriteSync, IInv
<1> QED BY <1>1, <1>3 DEF IInv

(* read keeps the invariant.                                               *)
LEMMA ReadOK ==
  ASSUME IInv, NEW p \in Procs, Read(p)
  PROVE IInv'
<1>0. pc[p] \in Prepared /\ "READ_DISK_ERROR" \in Errors
  BY DEF Read, Prepared, Errors
<1>1. file[fd[p]].page[Slot(call[p].cursor)] \in Content
  BY <1>0, PreparedFacts, OffsetType DEF IInv, FsTypeOK, File
<1>2. MgrOK'
  BY <1>0, <1>1, PreparedFacts, ReturnOK, DiesOK, RwErrorOK DEF Read, IInv
<1> QED BY <1>2, FsStutter DEF Read, IInv

(* Closing the disk that create made keeps the invariant.                  *)
LEMMA CreatedOK ==
  ASSUME IInv, NEW p \in Procs, Created(p)
  PROVE IInv'
<1>1. ASSUME CloseDisk(p), pc' = [pc EXCEPT ![p] = "access1"],
             should_exist' = [should_exist EXCEPT ![p] = TRUE],
             UNCHANGED <<again, reply, mgr, call, acked>>, pc[p] = "created"
      PROVE MgrOK'
  <2> USE <1>1 DEF IInv, MgrOK, MgrTypeOK, CloseDisk, mgr
  <2>1. MgrTypeOK'
    <3>1. fd' \in [Procs -> Inodes \cup {None}] /\ pc' \in [Procs -> Labels]
      BY DEF Labels
    <3>2. open_fds' \in [Procs -> 0 .. MaxFds]
      BY BoundsAssumption DEF ProcOK
    <3> QED BY <3>1, <3>2
  <2>2. ASSUME NEW q \in Procs PROVE ProcOK(q)'
    BY <2>2, BoundsAssumption
    DEF ProcOK, Busy, Labels, HoldsFd, Prepared, ExceedsMax, NewSize, Offset
  <2> QED BY <2>1, <2>2
<1>2. MgrOK'
  BY <1>1, DiesOK DEF Created, IInv
<1> QED BY <1>2, FsStutter DEF Created, IInv

(* Giving a loaded disk its id keeps the invariant.                        *)
LEMMA LoadedOK ==
  ASSUME IInv, NEW p \in Procs, Loaded(p)
  PROVE IInv'
<1> USE DEF IInv, MgrOK, MgrTypeOK, Loaded, Leave, CloseDisk
<1>0. pc[p] \in Busy /\ call[p].op \in {"create", "load"} /\ call[p] \in CallType
  BY DEF ProcOK, Busy, Labels
<1>1. call[p].name \in Names
  BY <1>0 DEF CallType
<1>2. cur_disk_id[p] \in Ids /\ cur_disk_id[p] + 1 \in Ids /\ cur_disk_id[p] \in Nat
  BY <1>0, BoundsAssumption DEF ProcOK, Ids
<1>3. disks' \in [Procs -> [Ids -> Names \cup {None}]] /\ cur_disk_id' \in [Procs -> Ids]
  BY <1>1, <1>2
<1>4. fd' \in [Procs -> Inodes \cup {None}] /\ pc' \in [Procs -> Labels] /\ again' \in [Procs -> SUBSET Sites]
  BY DEF Labels
<1>5. open_fds' \in [Procs -> 0 .. MaxFds]
  BY BoundsAssumption DEF ProcOK
<1>6. reply' \in [Procs -> ReplyType]
  BY <1>2 DEF ReplyType
<1>7. call' \in [Procs -> CallType \cup {NoCall}] /\ should_exist' \in [Procs -> BOOLEAN]
  OBVIOUS
<1>8. MgrTypeOK'
  BY <1>3, <1>4, <1>5, <1>6, <1>7
<1>9. ASSUME NEW q \in Procs PROVE ProcOK(q)'
  BY <1>9, BoundsAssumption DEF ProcOK, Busy, HoldsFd, Prepared, ExceedsMax, NewSize, Offset
<1> QED BY <1>8, <1>9, FsStutter

(* stat for disk_byte_size and extend keeps the invariant.                 *)
LEMMA SizeOK ==
  ASSUME IInv, NEW p \in Procs, Size(p)
  PROVE IInv'
<1>0. pc[p] \in Busy /\ call[p] \in CallType /\ "GET_DISK_SIZE_ERROR" \in Errors
  BY DEF Size, IInv, MgrOK, ProcOK, Busy, Labels, Errors
<1>1. call[p].name \in Names
  BY <1>0 DEF CallType
<1>2. Found(p) => StatSize(p) \in Nat
  BY <1>1 DEF Found, StatSize, IInv, FsTypeOK, File
<1>3. Found(p) => StatSize(p) % UMod \in Nat
  BY <1>2, UModNat
<1>4. MgrOK'
  BY <1>0, <1>3, SizeValueOK, SizeErrorOK, DiesOK DEF Size, IInv
<1> QED BY <1>4, FsStutter DEF Size, IInv

(* unlink, which leaves its descriptor open when it succeeds, keeps the    *)
(* invariant.                                                              *)
LEMMA UnlinkOK ==
  ASSUME IInv, NEW p \in Procs, Unlink(p)
  PROVE IInv'
<1>0. pc[p] \in Busy /\ call[p] \in CallType /\ fd[p] \in Inodes /\ "unlink" \in Busy
      /\ "unlink" \notin Prepared /\ "unlink" \in Sites /\ "DESTROY_DISK_ERROR" \in Errors
  BY DEF Unlink, IInv, MgrOK, ProcOK, Busy, Labels, HoldsFd, Prepared, Sites, Errors
<1>1. call[p].name \in Names /\ call[p].id \in Ids
  BY <1>0 DEF CallType
<1>2. FsTypeOK'
  BY <1>1 DEF Unlink, IInv, FsTypeOK, fs
<1>3. ASSUME disks' = [disks EXCEPT ![p][call[p].id] = None],
             destroyed' = [destroyed EXCEPT ![p] = @ + 1],
             Leave(p, "ok", 0, None), fd' = [fd EXCEPT ![p] = None],
             UNCHANGED <<cur_disk_id, open_fds, acked>>
      PROVE MgrOK'
  <2> USE DEF IInv, MgrOK, MgrTypeOK, Leave
  <2>1. MgrTypeOK'
    <3>1. fd' \in [Procs -> Inodes \cup {None}] /\ pc' \in [Procs -> Labels] /\ again' \in [Procs -> SUBSET Sites]
      BY <1>3 DEF Labels
    <3>2. destroyed' \in [Procs -> Nat]
      BY <1>3
    <3>3. reply' \in [Procs -> ReplyType]
      BY <1>3 DEF ReplyType
    <3>4. call' \in [Procs -> CallType \cup {NoCall}] /\ should_exist' \in [Procs -> BOOLEAN]
      BY <1>3
    <3>5. disks' \in [Procs -> [Ids -> Names \cup {None}]]
      BY <1>1, <1>3
    <3> QED BY <1>3, <3>1, <3>2, <3>3, <3>4, <3>5
  <2>2. ASSUME NEW q \in Procs PROVE ProcOK(q)'
    BY <1>3, <2>2 DEF ProcOK, Busy, HoldsFd, Prepared, ExceedsMax, NewSize, Offset
  <2> QED BY <2>1, <2>2
<1>4. MgrOK'
  BY <1>0, <1>3, DiesOK, AgainOK, FailOK DEF Unlink, IInv
<1> QED BY <1>2, <1>4 DEF IInv
(* Starting an operation keeps the invariant.                              *)
LEMMA StartOK ==
  ASSUME IInv, NEW p \in Procs, pc[p] = "idle", NEW c \in CallType, NEW exist \in BOOLEAN,
         c.op \in {"create", "load"} => cur_disk_id[p] < MaxLoads,
         Start(p, c, exist),
         acked' \in [Names -> [PageIndex -> Content \cup {Unknown}]]
  PROVE IInv'
<1> USE DEF IInv, MgrOK, MgrTypeOK, Start, mgr
<1>1. MgrTypeOK'
  <2>1. pc' \in [Procs -> Labels] /\ should_exist' \in [Procs -> BOOLEAN]
    BY DEF Labels
  <2>2. reply' \in [Procs -> ReplyType]
    BY DEF ReplyType, NoReply
  <2>3. call' \in [Procs -> CallType \cup {NoCall}]
    OBVIOUS
  <2> QED BY <2>1, <2>2, <2>3
<1>2. ASSUME NEW q \in Procs PROVE ProcOK(q)'
  BY <1>2 DEF ProcOK, Busy, Labels, HoldsFd, Prepared, ExceedsMax, NewSize, Offset
<1>3. FsTypeOK'
  BY FsStutter
<1> QED BY <1>1, <1>2, <1>3

(* Calls of create and load keep the invariant.                            *)
LEMMA CreateLoadOK ==
  ASSUME IInv, NEW p \in Procs, NEW n \in Names, create(p, n) \/ load(p, n)
  PROVE IInv'
<1>1. NamedCall("create", n) \in CallType /\ NamedCall("load", n) \in CallType
  <2>1. 0 \in Ids
    BY BoundsAssumption DEF Ids
  <2> QED BY <2>1 DEF NamedCall, CallType
<1>2. acked' \in [Names -> [PageIndex -> Content \cup {Unknown}]]
  BY DEF create, load, IInv, MgrOK, MgrTypeOK
<1> QED BY <1>1, <1>2, StartOK DEF create, load

(* unload keeps the invariant.                                             *)
LEMMA unloadOK ==
  ASSUME IInv, NEW p \in Procs, NEW d \in Ids, unload(p, d)
  PROVE IInv'
<1> USE DEF IInv, MgrOK, MgrTypeOK, unload, Leave
<1>1. MgrTypeOK'
  <2>1. pc' \in [Procs -> Labels] /\ should_exist' \in [Procs -> BOOLEAN] /\ again' \in [Procs -> SUBSET Sites]
    BY DEF Labels
  <2>2. reply' \in [Procs -> ReplyType]
    BY DEF ReplyType, Errors
  <2>3. call' \in [Procs -> CallType \cup {NoCall}]
    OBVIOUS
  <2>4. disks' \in [Procs -> [Ids -> Names \cup {None}]]
    OBVIOUS
  <2> QED BY <2>1, <2>2, <2>3, <2>4
<1>2. ASSUME NEW q \in Procs PROVE ProcOK(q)'
  BY <1>2 DEF ProcOK, Busy, HoldsFd, Prepared, ExceedsMax, NewSize, Offset
<1>3. FsTypeOK'
  BY FsStutter
<1> QED BY <1>1, <1>2, <1>3

(* Calls of the operations on a disk id keep the invariant.                *)
LEMMA OnDiskOK ==
  ASSUME IInv, NEW p \in Procs, NEW op \in DiskOps, NEW d \in Ids,
         NEW cursor \in Cursors \cup {0}, NEW bytes \in Bytes \cup {Zero},
         OnDisk(p, op, d, cursor, bytes)
  PROVE IInv'
<1>1. CASE disks[p][d] = None
  <2>1. MgrOK' /\ "DISK_NOT_FOUND" \in Errors
    BY <1>1, FailOK DEF OnDisk, IInv, Errors
  <2> QED BY <1>1, <2>1, FsStutter DEF OnDisk, IInv
<1>2. CASE disks[p][d] # None
  <2> DEFINE c == [op |-> op, name |-> disks[p][d], id |-> d, cursor |-> cursor, bytes |-> bytes]
  <2>1. disks[p][d] \in Names
    BY <1>2 DEF IInv, MgrOK, MgrTypeOK
  <2>2. c \in CallType /\ c.op \notin {"create", "load"}
    BY <2>1 DEF CallType, DiskOps
  <2>3. acked' \in [Names -> [PageIndex -> Content \cup {Unknown}]]
    <3> DEFINE n == disks[p][d]
    <3>1. acked \in [Names -> [PageIndex -> Content \cup {Unknown}]]
      BY DEF IInv, MgrOK, MgrTypeOK
    <3>2. CASE op = "write"
      <4>1. acked' = [acked EXCEPT ![n][Slot(cursor)] = Unknown]
        BY <1>2, <3>2 DEF OnDisk
      <4> QED BY <3>1, <4>1
    <3>3. CASE op = "destroy"
      <4>1. acked' = [acked EXCEPT ![n] = [k \in PageIndex |-> Unknown]]
        BY <1>2, <3>3 DEF OnDisk
      <4> QED BY <3>1, <4>1
    <3>4. CASE op \notin {"write", "destroy"}
      <4>1. acked' = acked
        BY <1>2, <3>4 DEF OnDisk
      <4> QED BY <3>1, <4>1
    <3> QED BY <3>2, <3>3, <3>4
  <2>4. pc[p] = "idle" /\ Start(p, c, TRUE)
    BY <1>2 DEF OnDisk
  <2> HIDE DEF c
  <2> QED BY <2>2, <2>3, <2>4, StartOK
<1> QED BY <1>1, <1>2

(* Every call a process may make keeps the invariant.                      *)
LEMMA CallOK ==
  ASSUME IInv, NEW p \in Procs, Call(p)
  PROVE IInv'
<1>1. CASE \E n \in Names : create(p, n) \/ load(p, n)
  BY <1>1, CreateLoadOK
<1>2. CASE \E d \in Ids : unload(p, d)
  BY <1>2, unloadOK
<1>3. CASE \E d \in Ids : destroy(p, d) \/ disk_byte_size(p, d) \/ extend(p, d)
  BY <1>3, OnDiskOK DEF destroy, disk_byte_size, extend, DiskOps
<1>4. CASE \E d \in Ids, cursor \in Cursors : read(p, d, cursor)
  BY <1>4, OnDiskOK DEF read, DiskOps
<1>5. CASE \E d \in Ids, cursor \in Cursors, bytes \in Bytes : write(p, d, cursor, bytes)
  BY <1>5, OnDiskOK DEF write, DiskOps
<1> QED BY <1>1, <1>2, <1>3, <1>4, <1>5 DEF Call

(* The invariant holds when the managers are constructed.                  *)
LEMMA InitOK == Init => IInv
<1> SUFFICES ASSUME Init PROVE IInv
  OBVIOUS
<1>1. FsTypeOK
  BY EmptyFileType DEF Init, FsInit, FsTypeOK
<1>2. MgrTypeOK
  BY BoundsAssumption DEF Init, MgrTypeOK, Ids, Labels, ReplyType, NoReply
<1>3. ASSUME NEW p \in Procs PROVE ProcOK(p)
  BY <1>3 DEF Init, ProcOK, Busy, HoldsFd, Prepared
<1> QED BY <1>1, <1>2, <1>3 DEF IInv, MgrOK

(* The invariant depends on the variables only.                            *)
LEMMA StutterOK == IInv /\ UNCHANGED vars => IInv'
  BY DEF IInv, FsTypeOK, MgrOK, MgrTypeOK, ProcOK, vars, fs, mgr, ctl, ExceedsMax, NewSize, Offset

(* Every step keeps the invariant.                                         *)
LEMMA StepOK == IInv /\ [Next]_vars => IInv'
<1> SUFFICES ASSUME IInv, [Next]_vars PROVE IInv'
  OBVIOUS
<1>1. ASSUME NEW p \in Procs, SystemCall(p) PROVE IInv'
  BY <1>1, Access1OK, Access2OK, OpenOK, CreatedOK, LoadedOK, StatOK, TruncateOK,
     TruncateSyncOK, WriteOK, WriteSyncOK, ReadOK, SizeOK, UnlinkOK DEF SystemCall
<1>2. ASSUME NEW p \in Procs, Restart(p) PROVE IInv'
  BY <1>2, GoneOK, FsStutter DEF Restart, IInv
<1>3. CASE PowerLoss
  BY <1>3, GoneOK, LosePowerType DEF PowerLoss, IInv
<1>4. CASE UNCHANGED vars
  BY <1>4, StutterOK
<1> QED BY <1>1, <1>2, <1>3, <1>4, CallOK DEF Next

(* Every variable keeps its type, whatever the processes do and whatever   *)
(* fails: in particular a process holds a descriptor wherever              *)
(* posix_disk.cpp uses m_fd, never counts fewer than zero or more than     *)
(* MaxFds open, and no offset or length leaves the 32-bit range.           *)
THEOREM TypeCorrect == Spec => []TypeOK
<1>1. IInv => TypeOK
  BY DEF IInv, MgrOK, MgrTypeOK, TypeOK
<1> QED BY <1>1, InitOK, StepOK, PTL DEF Spec
-----------------------------------------------------------------------------
(* The size limit.                                                         *)

(* The cursors whose offset arithmetic stays below 2^32.                   *)
NoWrapCursors == NumPages > 1 /\ Cursors \subseteq 0 .. (NumPages - 2)

(* Without wrap-around the new size of prepare_rw is one page past the     *)
(* offset.                                                                 *)
LEMMA NoWrap ==
  ASSUME NoWrapCursors, NEW c \in Cursors \cup {0}
  PROVE NewSize(c) = Offset(c) + PageSize /\ Offset(c) \in Nat
<1>1. PageSize \in Nat /\ PageSize > 0 /\ NumPages \in Nat /\ UMod \in Nat /\ UMod > 0
  BY UModNat
<1>2. c \in Nat /\ c + 1 < NumPages
  BY <1>1 DEF NoWrapCursors
<1>3. c * PageSize \in Nat /\ c * PageSize + PageSize < UMod
  BY <1>1, <1>2 DEF UMod
<1> HIDE DEF UMod
<1>4. Offset(c) = c * PageSize
  BY <1>1, <1>2, <1>3 DEF Offset
<1> QED BY <1>1, <1>3, <1>4 DEF NewSize

(* A cursor that passed the check of prepare_rw ends within the maximum.   *)
LEMMA PreparedFits ==
  ASSUME NoWrapCursors, IInv, NEW p \in Procs, pc[p] \in Prepared
  PROVE /\ NewSize(call[p].cursor) \in Nat /\ NewSize(call[p].cursor) <= MaxDiskSize
        /\ Offset(call[p].cursor) \in Nat
        /\ Offset(call[p].cursor) + PageSize <= MaxDiskSize
<1>1. ~ExceedsMax(call[p].cursor) /\ call[p] \in CallType
  BY PreparedFacts
<1>2. call[p].cursor \in Cursors \cup {0}
  BY <1>1 DEF CallType
<1>3. NewSize(call[p].cursor) = Offset(call[p].cursor) + PageSize /\ Offset(call[p].cursor) \in Nat
  BY <1>2, NoWrap
<1>4. MaxDiskSize \in Nat /\ PageSize \in Nat
  BY MaxDiskSizeAssumption, UModNat
<1> QED BY <1>1, <1>3, <1>4 DEF ExceedsMax

(* A step that leaves the file system alone keeps the size limit.          *)
LEMMA WithinMaxStutter ==
  ASSUME WithinMax, UNCHANGED <<file, media>>
  PROVE WithinMax'
  BY DEF WithinMax

(* Every system call keeps the size limit.                                 *)
LEMMA WithinMaxSystemCall ==
  ASSUME NoWrapCursors, IInv, WithinMax, NEW p \in Procs, SystemCall(p)
  PROVE WithinMax'
<1>0. MaxDiskSize \in Nat
  BY MaxDiskSizeAssumption, UModNat
<1>1. CASE Open(p)
  <2>1. CASE UNCHANGED fs
    BY <2>1, WithinMaxStutter DEF fs
  <2>2. CASE \E i \in Inodes : CreateEntry(call[p].name, i)
    BY <1>0, <2>2 DEF CreateEntry, EmptyFile, WithinMax, IInv, FsTypeOK
  <2> QED BY <1>1, <2>1, <2>2 DEF Open
<1>2. CASE Truncate(p)
  <2>0. pc[p] \in Prepared
    BY <1>2 DEF Truncate, Prepared
  <2>1. CASE UNCHANGED fs
    BY <2>1, WithinMaxStutter DEF fs
  <2>2. CASE /\ file' = [file EXCEPT ![dir[call[p].name]] = Resize(@, NewSize(call[p].cursor))]
             /\ UNCHANGED media
    <3>1. ASSUME NEW i \in Inodes PROVE file'[i].size <= MaxDiskSize
      BY <2>0, <2>2, <3>1, PreparedFits DEF WithinMax, IInv, FsTypeOK, Resize
    <3> QED BY <2>2, <3>1 DEF WithinMax
  <2> QED BY <1>2, <2>1, <2>2 DEF Truncate
<1>3. CASE TruncateSync(p) \/ WriteSync(p)
  <2>1. CASE UNCHANGED fs
    BY <2>1, WithinMaxStutter DEF fs
  <2>2. CASE sync(p)
    BY <2>2 DEF sync, Flush, WithinMax, IInv, FsTypeOK
  <2> QED BY <1>3, <2>1, <2>2 DEF TruncateSync, WriteSync
<1>4. CASE Write(p)
  <2> DEFINE off == Offset(call[p].cursor)
  <2>0. pc[p] \in Prepared
    BY <1>4 DEF Write, Prepared
  <2>1. off \in Nat /\ off + PageSize <= MaxDiskSize /\ PageSize \in Nat
    BY <2>0, PreparedFits, UModNat
  <2>2. ASSUME NEW v, NEW len \in 1 .. PageSize,
               file' = [file EXCEPT ![fd[p]] = WriteAt(@, off, v, len)]
        PROVE \A i \in Inodes : file'[i].size <= MaxDiskSize
    <3>1. off + len <= MaxDiskSize
      BY <1>0, <2>1
    <3> QED BY <2>2, <3>1 DEF WriteAt, WithinMax, IInv, FsTypeOK
  <2>3. PageSize \in 1 .. PageSize /\ 1 .. (PageSize - 1) \subseteq 1 .. PageSize
    BY UModNat
  <2>4. \A i \in Inodes : file'[i].size <= MaxDiskSize
    BY <1>4, <2>2, <2>3 DEF Write, WithinMax
  <2> QED BY <1>4, <2>4 DEF Write, WithinMax
<1>5. CASE UNCHANGED fs
  BY <1>5, WithinMaxStutter DEF fs
<1>6. CASE Unlink(p)
  <2>1. UNCHANGED <<file, media>>
    BY <1>6 DEF Unlink, fs
  <2> QED BY <2>1, WithinMaxStutter
<1>7. CASE Access1(p) \/ Access2(p) \/ Created(p) \/ Loaded(p) \/ Stat1(p) \/ Stat2(p) \/ Read(p) \/ Size(p)
  <2>1. UNCHANGED fs
    BY <1>7 DEF Access1, Access2, Created, Loaded, Stat1, Stat2, Read, Size
  <2> QED BY <2>1, <1>5
<1> QED BY <1>1, <1>2, <1>3, <1>4, <1>6, <1>7 DEF SystemCall

(* A power failure keeps the size limit.                                   *)
LEMMA WithinMaxPowerLoss ==
  ASSUME IInv, WithinMax, LosePower
  PROVE WithinMax'
<1>1. ASSUME NEW i \in Inodes, NEW L, NEW D, NEW T
      PROVE Survivor(i, L, D, T).size \in {file[i].size, media[i].size}
  BY DEF Survivor, Resize
<1>2. ASSUME NEW i \in Inodes PROVE file'[i].size \in {file[i].size, media[i].size}
  BY <1>1, <1>2 DEF LosePower
<1>3. media' = file'
  BY DEF LosePower
<1> QED BY <1>2, <1>3 DEF WithinMax

(* A call keeps the size limit.                                            *)
LEMMA WithinMaxCall ==
  ASSUME WithinMax, NEW p \in Procs, Call(p)
  PROVE WithinMax'
<1>1. UNCHANGED fs
  BY DEF Call, create, load, unload, destroy, write, read, disk_byte_size, extend, OnDisk, Start
<1> QED BY <1>1, WithinMaxStutter DEF fs

(* Every step keeps the size limit.                                        *)
LEMMA WithinMaxStep ==
  ASSUME NoWrapCursors, IInv, WithinMax, [Next]_vars
  PROVE WithinMax'
<1>1. ASSUME NEW p \in Procs, Restart(p) PROVE WithinMax'
  BY <1>1, WithinMaxStutter DEF Restart, fs
<1>2. CASE PowerLoss
  BY <1>2, WithinMaxPowerLoss DEF PowerLoss
<1>3. CASE UNCHANGED vars
  BY <1>3, WithinMaxStutter DEF vars, fs
<1> QED BY <1>1, <1>2, <1>3, WithinMaxCall, WithinMaxSystemCall DEF Next

(* The empty files at the start are within the limit.                      *)
LEMMA WithinMaxInit == Init => WithinMax
  BY MaxDiskSizeAssumption, UModNat DEF Init, FsInit, EmptyFile, WithinMax

(* prepare_rw keeps every disk file, and what of it is on the medium,      *)
(* within max_disk_byte_size: for any number of managers working on the    *)
(* same disks, any failing system calls, kills and power losses, as long   *)
(* as callers pass cursors whose offset arithmetic does not wrap.          *)
THEOREM SizeBounded == NoWrapCursors => (Spec => []WithinMax)
<1> SUFFICES ASSUME NoWrapCursors PROVE Spec => []WithinMax
  OBVIOUS
<1>1. IInv /\ WithinMax /\ [Next]_vars => WithinMax'
  BY WithinMaxStep
<1> QED BY <1>1, WithinMaxInit, InitOK, StepOK, PTL DEF Spec
-----------------------------------------------------------------------------
(* Descriptors.                                                            *)

(* A process has a descriptor open where the code uses m_fd and nowhere    *)
(* else, besides the ones its destroys left behind.                        *)
Balanced(p) ==
  /\ fd[p] # None => pc[p] \in HoldsFd
  /\ open_fds[p] = destroyed[p] + (IF fd[p] = None THEN 0 ELSE 1)

AllBalanced == \A p \in Procs : Balanced(p)

(* Going on, for the first or the second time, keeps the balance.          *)
LEMMA GotoBalanced ==
  ASSUME MgrOK, AllBalanced, NEW p \in Procs, NEW l, NEW site, NEW done,
         Goto(p, l) \/ Again(p, site, done, l), fd[p] # None => l \in HoldsFd
  PROVE AllBalanced'
  BY DEF MgrOK, MgrTypeOK, AllBalanced, Balanced, Goto, Again, mgr

(* Returning from an operation, which closes its descriptor, keeps the     *)
(* balance.                                                                *)
LEMMA ReturnBalanced ==
  ASSUME MgrOK, AllBalanced, NEW p \in Procs, NEW res, NEW val, NEW page, Return(p, res, val, page)
  PROVE AllBalanced'
<1> USE DEF MgrOK, MgrTypeOK, Return, Leave, CloseDisk, mgr
<1>1. ASSUME NEW q \in Procs PROVE Balanced(q)'
  BY <1>1, BoundsAssumption DEF AllBalanced, Balanced
<1> QED BY <1>1 DEF AllBalanced

(* The end of any set of processes keeps the balance.                      *)
LEMMA GoneBalanced ==
  ASSUME AllBalanced, NEW P \in SUBSET Procs, NEW l, NEW why, Gone(P, l, why)
  PROVE AllBalanced'
  BY DEF Gone, AllBalanced, Balanced

(* A process that dies of a missing result or a failed assert.             *)
LEMMA DiesBalanced ==
  ASSUME AllBalanced, NEW p \in Procs, BadResult(p) \/ FailedAssert(p)
  PROVE AllBalanced'
  BY GoneBalanced DEF BadResult, FailedAssert

(* Closing the disk and going back to init keeps the balance.              *)
LEMMA CloseBalanced ==
  ASSUME MgrOK, AllBalanced, NEW p \in Procs, CloseDisk(p), UNCHANGED mgr,
         pc' = [pc EXCEPT ![p] = "access1"]
  PROVE AllBalanced'
<1> USE DEF MgrOK, MgrTypeOK, CloseDisk, mgr
<1>1. ASSUME NEW q \in Procs PROVE Balanced(q)'
  BY <1>1, BoundsAssumption DEF AllBalanced, Balanced
<1> QED BY <1>1 DEF AllBalanced

(* The errors and answers of the operations keep the balance.              *)
LEMMA SizeBalanced ==
  ASSUME MgrOK, AllBalanced, NEW p \in Procs, NEW n, NEW e,
         SizeValue(p, n) \/ SizeError(p, e)
  PROVE AllBalanced'
  BY CloseBalanced, ReturnBalanced, DiesBalanced
  DEF SizeValue, SizeError, SecondSize, extend_result, Fail

(* init failed, before it had a descriptor.                                *)
LEMMA InitErrorBalanced ==
  ASSUME MgrOK, AllBalanced, NEW p \in Procs, NEW e, pc[p] \notin HoldsFd, InitError(p, e)
  PROVE AllBalanced'
<1>1. fd[p] = None
  BY DEF AllBalanced, Balanced
<1>2. Again(p, "init", {"exists"}, "access1") => AllBalanced'
  BY <1>1, GotoBalanced
<1> QED BY <1>2, ReturnBalanced, SizeBalanced DEF InitError, Fail

(* prepare_rw, read and write keep the balance.                            *)
LEMMA RwBalanced ==
  ASSUME MgrOK, AllBalanced, NEW p \in Procs, NEW e,
         RwError(p, e) \/ PrepareError(p, e) \/ PrepareOk(p)
  PROVE AllBalanced'
<1>1. {"stat1", "rw"} \subseteq HoldsFd
  BY DEF HoldsFd
<1>2. Again(p, "rw", Sites, "stat1") \/ Again(p, "prepare_rw", {"stat"}, "stat1") => AllBalanced'
  BY <1>1, GotoBalanced
<1>3. ASSUME pc' = [pc EXCEPT ![p] = "rw"], UNCHANGED <<fd, open_fds, mgr>>
      PROVE AllBalanced'
  BY <1>1, <1>3 DEF MgrOK, MgrTypeOK, AllBalanced, Balanced, mgr
<1> QED BY <1>2, <1>3, ReturnBalanced, DiesBalanced DEF RwError, PrepareError, PrepareOk, Fail

(* Every system call keeps the balance.                                    *)
LEMMA SystemCallBalanced ==
  ASSUME IInv, AllBalanced, NEW p \in Procs, SystemCall(p)
  PROVE AllBalanced'
<1> USE DEF IInv
<1>0. MgrOK
  OBVIOUS
<1>1. CASE Access1(p) \/ Access2(p)
  <2>1. pc[p] \notin HoldsFd /\ fd[p] = None
    BY <1>1 DEF Access1, Access2, HoldsFd, AllBalanced, Balanced
  <2> QED BY <1>0, <1>1, <2>1, GotoBalanced, InitErrorBalanced, DiesBalanced DEF Access1, Access2
<1>2. CASE Open(p)
  <2> DEFINE Opened(i) ==
               /\ pc' = [pc EXCEPT ![p] = AfterOpen(p)]
               /\ fd' = [fd EXCEPT ![p] = i]
               /\ open_fds' = [open_fds EXCEPT ![p] = @ + 1]
               /\ UNCHANGED mgr
  <2>1. pc[p] \notin HoldsFd /\ fd[p] = None /\ pc[p] \in Busy /\ call[p] \in CallType
    BY <1>2 DEF Open, HoldsFd, Busy, Labels, AllBalanced, Balanced, MgrOK, ProcOK
  <2>2. AfterOpen(p) \in HoldsFd
    BY <2>1 DEF AfterOpen, CallType, DiskOps, MgrOK, MgrTypeOK, HoldsFd
  <2>3. ASSUME NEW i, i # None, Opened(i) PROVE AllBalanced'
    <3>1. ASSUME NEW q \in Procs PROVE Balanced(q)'
      BY <2>1, <2>2, <2>3, <3>1, BoundsAssumption DEF AllBalanced, Balanced, MgrOK, MgrTypeOK, mgr
    <3> QED BY <3>1 DEF AllBalanced
  <2> QED BY <1>0, <1>2, <2>1, <2>3, InitErrorBalanced, InodesAssumption DEF Open
<1>3. CASE Created(p)
  BY <1>0, <1>3, CloseBalanced, DiesBalanced DEF Created
<1>4. CASE Loaded(p)
  <2> USE DEF MgrOK, MgrTypeOK, Loaded, Leave, CloseDisk
  <2>1. ASSUME NEW q \in Procs PROVE Balanced(q)'
    BY <1>4, <2>1, BoundsAssumption DEF AllBalanced, Balanced
  <2> QED BY <2>1 DEF AllBalanced
<1>5. CASE Stat1(p) \/ Stat2(p) \/ Truncate(p) \/ TruncateSync(p)
  <2>1. {"stat2", "truncate", "tsync"} \subseteq HoldsFd
    BY DEF HoldsFd
  <2> QED BY <1>0, <1>5, <2>1, GotoBalanced, RwBalanced, DiesBalanced
          DEF Stat1, Stat2, Truncate, TruncateSync
<1>6. CASE Write(p) \/ Read(p)
  <2>1. "wsync" \in HoldsFd
    BY DEF HoldsFd
  <2> QED BY <1>0, <1>6, <2>1, GotoBalanced, RwBalanced, ReturnBalanced, DiesBalanced DEF Write, Read
<1>7. CASE WriteSync(p)
  <2>1. "wsync" \in HoldsFd
    BY DEF HoldsFd
  <2>2. ASSUME Leave(p, "ok", 0, None), CloseDisk(p), UNCHANGED mgr
        PROVE AllBalanced'
    <3> USE DEF MgrOK, MgrTypeOK, Leave, CloseDisk, mgr
    <3>1. ASSUME NEW q \in Procs PROVE Balanced(q)'
      BY <2>2, <3>1, BoundsAssumption DEF AllBalanced, Balanced
    <3> QED BY <3>1 DEF AllBalanced
  <2> QED BY <1>0, <1>7, <2>1, <2>2, GotoBalanced, RwBalanced, DiesBalanced DEF WriteSync
<1>8. CASE Size(p)
  BY <1>0, <1>8, SizeBalanced, DiesBalanced DEF Size
<1>9. CASE Unlink(p)
  <2>1. "unlink" \in HoldsFd /\ fd[p] \in Inodes
    BY <1>9 DEF HoldsFd, Unlink, MgrOK, ProcOK
  <2>2. ASSUME destroyed' = [destroyed EXCEPT ![p] = @ + 1], Leave(p, "ok", 0, None),
               fd' = [fd EXCEPT ![p] = None], UNCHANGED open_fds
        PROVE AllBalanced'
    <3> USE DEF MgrOK, MgrTypeOK, Leave
    <3>1. ASSUME NEW q \in Procs PROVE Balanced(q)'
      BY <2>1, <2>2, <3>1, InodesAssumption, BoundsAssumption DEF AllBalanced, Balanced
    <3> QED BY <3>1 DEF AllBalanced
  <2> QED BY <1>0, <1>9, <2>1, <2>2, GotoBalanced, ReturnBalanced, DiesBalanced DEF Unlink, Fail
<1> QED BY <1>1, <1>2, <1>3, <1>4, <1>5, <1>6, <1>7, <1>8, <1>9 DEF SystemCall

(* Every call keeps the balance.                                           *)
LEMMA CallBalanced ==
  ASSUME IInv, AllBalanced, NEW p \in Procs, Call(p)
  PROVE AllBalanced'
<1> USE DEF IInv
<1>1. ASSUME pc[p] = "idle", UNCHANGED <<fd, open_fds, destroyed>>, NEW l, pc' = [pc EXCEPT ![p] = l]
      PROVE AllBalanced'
  BY <1>1 DEF AllBalanced, Balanced, MgrOK, MgrTypeOK, HoldsFd
<1>2. ASSUME NEW c, NEW exist, pc[p] = "idle", Start(p, c, exist) PROVE AllBalanced'
  BY <1>1, <1>2 DEF Start, mgr
<1>3. ASSUME NEW op, NEW d, NEW cursor, NEW bytes, OnDisk(p, op, d, cursor, bytes)
      PROVE AllBalanced'
  BY <1>2, <1>3, ReturnBalanced DEF OnDisk, Fail
<1>4. ASSUME NEW d \in Ids, unload(p, d) PROVE AllBalanced'
  BY <1>1, <1>4 DEF unload, Leave
<1> QED BY <1>2, <1>3, <1>4 DEF Call, create, load, destroy, disk_byte_size, extend, read, write

(* Between operations a process has open exactly the descriptors its       *)
(* successful destroys left behind, whatever fails, is repeated by the     *)
(* macros, or is killed.                                                   *)
THEOREM DescriptorsBalance == Spec => []DescriptorBalance
<1>1. Init => AllBalanced
  BY DEF Init, AllBalanced, Balanced
<1>2. IInv /\ AllBalanced /\ [Next]_vars => AllBalanced'
  <2> SUFFICES ASSUME IInv, AllBalanced, [Next]_vars PROVE AllBalanced'
    OBVIOUS
  <2>1. ASSUME NEW p \in Procs, Restart(p) PROVE AllBalanced'
    BY <2>1, GoneBalanced DEF Restart
  <2>2. CASE PowerLoss
    BY <2>2, GoneBalanced DEF PowerLoss
  <2>3. CASE UNCHANGED vars
    BY <2>3 DEF vars, ctl, mgr, AllBalanced, Balanced
  <2> QED BY <2>1, <2>2, <2>3, CallBalanced, SystemCallBalanced DEF Next
<1>3. IInv /\ AllBalanced => DescriptorBalance
  BY DEF IInv, MgrOK, MgrTypeOK, AllBalanced, Balanced, DescriptorBalance, HoldsFd
<1> QED BY <1>1, <1>2, <1>3, InitOK, StepOK, PTL DEF Spec
=============================================================================
