-------------------------- MODULE DurabilityProofs --------------------------
(***************************************************************************)
(* What one PosixDiskManager with a directory to itself guarantees: pages  *)
(* whose write was acknowledged survive, reads return them, files are      *)
(* whole numbers of pages and never shrink.  For any number of disks and   *)
(* pages, whatever fails (unless a theorem says what must not) and         *)
(* whenever the process is killed or power lost.                           *)
(***************************************************************************)
EXTENDS PosixDiskManagerProofs

OneManager == \A p, q \in Procs : p = q

-----------------------------------------------------------------------------
(* What a step does to the process that takes it, in four shapes.          *)

(* It goes on to a label of L inside the same operation.                   *)
Goes(p, L) ==
  /\ pc[p] \in Busy /\ pc'[p] \in L
  /\ UNCHANGED <<acked, call, reply, mgr>>
  /\ pc'[p] \in HoldsFd => fd' = fd

(* The operation returns.                                                  *)
Replies(p, res, val, page) ==
  /\ pc'[p] = "idle" /\ call'[p] = NoCall
  /\ reply'[p] = [res |-> res, val |-> val, page |-> page]
  /\ UNCHANGED <<acked, mgr>>

RepliesError(p, e) == Replies(p, e, 0, None)

(* The process ends.                                                       *)
Dies(p) ==
  /\ pc'[p] \in {"idle", "aborted"} /\ call'[p] = NoCall
  /\ reply'[p].res \in {"bad_result", "failed_assert", None}
  /\ disks'[p] = [d \in Ids |-> None] /\ cur_disk_id'[p] = 0
  /\ UNCHANGED acked

(* Going on has its shape.                                                 *)
LEMMA GotoShape ==
  ASSUME MgrOK, NEW p \in Procs, pc[p] \in Busy, NEW l, NEW site, NEW done,
         Goto(p, l) \/ Again(p, site, done, l)
  PROVE Goes(p, {l})
  BY DEF MgrOK, MgrTypeOK, Goto, Again, Goes

(* Returning has its shape.                                                *)
LEMMA ReturnShape ==
  ASSUME MgrOK, NEW p \in Procs, NEW res, NEW val, NEW page, Return(p, res, val, page)
  PROVE Replies(p, res, val, page)
  BY DEF MgrOK, MgrTypeOK, Return, Leave, Replies

(* Returning an error has its shape.                                       *)
LEMMA FailShape ==
  ASSUME MgrOK, NEW p \in Procs, NEW e, Fail(p, e)
  PROVE RepliesError(p, e)
  BY ReturnShape DEF Fail, RepliesError

(* The end of processes has its shape.                                     *)
LEMMA GoneShape ==
  ASSUME NEW P \in SUBSET Procs, NEW p \in P, NEW l \in {"idle", "aborted"},
         NEW why \in {"bad_result", "failed_assert", None}, Gone(P, l, why)
  PROVE Dies(p)
  BY DEF Gone, NoReply, Dies

(* A missing result or a failed assert ends the process.                   *)
LEMMA DiesShape ==
  ASSUME NEW p \in Procs, BadResult(p) \/ FailedAssert(p)
  PROVE Dies(p)
  BY GoneShape DEF BadResult, FailedAssert

(* The second evaluation of disk_byte_size in extend starts over.          *)
LEMMA SecondSizeShape ==
  ASSUME MgrOK, NEW p \in Procs, pc[p] \in Busy, NEW site, SecondSize(p, site)
  PROVE Goes(p, {"access1"})
  BY DEF MgrOK, MgrTypeOK, SecondSize, Goes, HoldsFd

(* disk_byte_size and extend after a stat that succeeded.                  *)
LEMMA SizeValueShape ==
  ASSUME MgrOK, NEW p \in Procs, pc[p] \in Busy, NEW n \in Nat, SizeValue(p, n)
  PROVE /\ call[p].op \in {"disk_byte_size", "extend"}
        /\ \/ Dies(p) \/ Goes(p, {"access1"})
           \/ call[p].op = "disk_byte_size" /\ Replies(p, "ok", n, None)
           \/ call[p].op = "extend" /\ Replies(p, "ok", (n \div PageSize) + 1, None)
           \/ RepliesError(p, "DISK_EXCEEDS_MAX_SIZE")
  BY DiesShape, SecondSizeShape, ReturnShape, FailShape DEF SizeValue, extend_result

(* disk_byte_size and extend after a stat or an init that failed.          *)
LEMMA SizeErrorShape ==
  ASSUME MgrOK, NEW p \in Procs, pc[p] \in Busy, NEW e, SizeError(p, e)
  PROVE Dies(p) \/ Goes(p, {"access1"}) \/ RepliesError(p, e)
  BY DiesShape, SecondSizeShape, FailShape DEF SizeError

(* An init that failed.                                                    *)
LEMMA InitErrorShape ==
  ASSUME MgrOK, NEW p \in Procs, pc[p] \in Busy, NEW e, InitError(p, e)
  PROVE Dies(p) \/ Goes(p, {"access1"}) \/ RepliesError(p, e)
  BY SizeErrorShape, GotoShape, FailShape DEF InitError

(* A read or write that failed.                                            *)
LEMMA RwErrorShape ==
  ASSUME MgrOK, NEW p \in Procs, pc[p] \in Busy, NEW e, RwError(p, e)
  PROVE Goes(p, {"stat1"}) \/ RepliesError(p, e)
  BY GotoShape, FailShape DEF RwError

(* A prepare_rw that failed.                                               *)
LEMMA PrepareErrorShape ==
  ASSUME MgrOK, NEW p \in Procs, pc[p] \in Busy, NEW e, PrepareError(p, e)
  PROVE Goes(p, {"stat1"}) \/ RepliesError(p, e)
  BY GotoShape, RwErrorShape DEF PrepareError

(* A prepare_rw that succeeded.                                            *)
LEMMA PrepareOkShape ==
  ASSUME MgrOK, NEW p \in Procs, pc[p] \in Busy, PrepareOk(p)
  PROVE Dies(p) \/ Goes(p, {"rw"})
<1>1. CASE "prepare_rw" \notin again[p]
  BY <1>1 DEF MgrOK, MgrTypeOK, PrepareOk, Goes
<1> QED BY <1>1, DiesShape DEF PrepareOk

-----------------------------------------------------------------------------
(* The invariant of a single manager.                                      *)

(* An inode has one name at most, in the directory and on the medium, so   *)
(* that work on one disk leaves the others alone.                          *)
OneName == \A m, n \in Names :
  /\ dir[m] # None /\ dir[m] \in {dir[n], mdir[n]} => m = n
  /\ mdir[m] # None /\ mdir[m] = mdir[n] => m = n

RwLabels == {"stat1", "stat2", "truncate", "tsync", "rw", "wsync"}
TheFile(p) == file[dir[call[p].name]]

(* What the place of the process in an operation says about the file: its  *)
(* descriptor is the file's, truncate extends it, a page that waits for    *)
(* its fsync is there; and a page that is being written or whose disk is   *)
(* being destroyed is not promised.                                        *)
SoloOK(p) ==
  /\ pc[p] \in HoldsFd => fd[p] = dir[call[p].name]
  /\ pc[p] \in RwLabels => call[p].op \in {"read", "write"}
  /\ pc[p] = "unlink" => call[p].op = "destroy"
  /\ pc[p] = "truncate" => NewSize(call[p].cursor) > TheFile(p).size
  /\ pc[p] = "wsync" =>
       /\ call[p].op = "write"
       /\ TheFile(p).page[Slot(call[p].cursor)] = call[p].bytes
       /\ Offset(call[p].cursor) + PageSize <= TheFile(p).size
  /\ call[p].op = "write" => acked[call[p].name][Slot(call[p].cursor)] = Unknown
  /\ call[p].op = "destroy" => \A k \in PageIndex : acked[call[p].name][k] = Unknown

AllSolo == \A p \in Procs : SoloOK(p)

(* The inductive invariant: with the types, the size limit and the above,  *)
(* what was acknowledged is there.                                         *)
DInv == IInv /\ WithinMax /\ OneName /\ AllSolo /\ AckedSurvives

-----------------------------------------------------------------------------
(* The names of inodes, for any number of managers.                        *)

(* Creating a file, with an inode nobody refers to, gives it one name.     *)
LEMMA CreateOneName ==
  ASSUME OneName, FsTypeOK, NEW n \in Names, NEW i \in Inodes, CreateEntry(n, i),
         \A m \in Names : dir[m] # i /\ mdir[m] # i
  PROVE OneName'
  BY DEF OneName, FsTypeOK, CreateEntry

(* fsync writes down the name the file has.                                *)
LEMMA FlushOneName ==
  ASSUME OneName, FsTypeOK, NEW i \in Inodes, Flush(i)
  PROVE OneName'
<1>1. /\ dir' = dir
      /\ \A n \in Names : mdir'[n] = IF dir[n] = i THEN i ELSE mdir[n]
  BY DEF Flush
<1> QED BY <1>1, InodesAssumption DEF OneName

(* A power failure keeps or loses names.                                   *)
LEMMA LosePowerOneName ==
  ASSUME OneName, LosePower
  PROVE OneName'
<1>1. mdir' = dir' /\ \A n \in Names : dir'[n] \in {dir[n], mdir[n]}
  BY DEF LosePower
<1> QED BY <1>1 DEF OneName

(* Every step of every process keeps names unique.                         *)
LEMMA StepOneName ==
  ASSUME IInv, OneName, [Next]_vars
  PROVE OneName'
<1>1. CASE UNCHANGED <<dir, mdir>>
  BY <1>1 DEF OneName
<1>2. ASSUME NEW p \in Procs, Open(p) PROVE OneName'
  <2>1. call[p].name \in Names
    BY <1>2 DEF Open, IInv, MgrOK, ProcOK, Busy, Labels, CallType
  <2> QED BY <1>1, <1>2, <2>1, CreateOneName DEF Open, IInv, fs
<1>3. ASSUME NEW p \in Procs, TruncateSync(p) \/ WriteSync(p) PROVE OneName'
  <2>1. fd[p] \in Inodes
    BY <1>3 DEF TruncateSync, WriteSync, IInv, MgrOK, ProcOK, HoldsFd
  <2> QED BY <1>1, <1>3, <2>1, FlushOneName DEF TruncateSync, WriteSync, sync, IInv, fs
<1>4. ASSUME NEW p \in Procs, Unlink(p) PROVE OneName'
  <2>1. CASE dir' = [dir EXCEPT ![call[p].name] = None] /\ UNCHANGED mdir
    BY <2>1 DEF OneName, IInv, FsTypeOK
  <2> QED BY <1>1, <1>4, <2>1 DEF Unlink, fs
<1>5. ASSUME NEW p \in Procs,
             \/ Access1(p) \/ Access2(p) \/ Created(p) \/ Loaded(p) \/ Stat1(p) \/ Stat2(p)
             \/ Truncate(p) \/ Write(p) \/ Read(p) \/ Size(p)
      PROVE OneName'
  BY <1>1, <1>5 DEF Access1, Access2, Created, Loaded, Stat1, Stat2, Truncate, Write, Read, Size, fs
<1>6. ASSUME NEW p \in Procs, Call(p) \/ Restart(p) PROVE OneName'
  BY <1>1, <1>6 DEF Call, create, load, unload, destroy, write, read, disk_byte_size, extend,
     OnDisk, Start, Restart, fs
<1>7. CASE PowerLoss
  BY <1>7, LosePowerOneName DEF PowerLoss
<1>8. CASE UNCHANGED vars
  BY <1>1, <1>8 DEF vars, fs
<1> QED BY <1>2, <1>3, <1>4, <1>5, <1>6, <1>7, <1>8 DEF Next, SystemCall

-----------------------------------------------------------------------------
(* Steps that leave the files alone.                                       *)

(* A slot of a cursor is where its offset is.                              *)
LEMMA SlotOffset ==
  ASSUME NEW c \in Int
  PROVE /\ Slot(c) \in PageIndex /\ Slot(c) \in Nat
        /\ Slot(c) * PageSize = Offset(c) /\ (Slot(c) + 1) * PageSize = Offset(c) + PageSize
<1>0. PageSize \in Nat /\ PageSize > 0 /\ NumPages \in Nat
  BY UModNat
<1>1. PICK k \in PageIndex : Offset(c) = k * PageSize
  BY OffsetIsPage
<1>2. k \in Nat
  BY <1>0 DEF PageIndex
<1>3. Slot(c) = k
  BY <1>0, <1>1, <1>2 DEF Slot
<1> QED BY <1>0, <1>1, <1>2, <1>3

(* The end of the operation leaves nothing to say about it.                *)
LEMMA EndSolo ==
  ASSUME OneManager, NEW p \in Procs, pc'[p] \in {"idle", "aborted"}, call'[p] = NoCall
  PROVE AllSolo'
<1>1. SoloOK(p)'
  BY DEF SoloOK, HoldsFd, RwLabels, NoCall, NamedCall, None
<1> QED BY <1>1 DEF OneManager, AllSolo

(* Going on keeps what is known of the file.                               *)
LEMMA GoSolo ==
  ASSUME OneManager, AllSolo, NEW p \in Procs, NEW L, Goes(p, L), UNCHANGED <<dir, file>>,
         pc'[p] \in HoldsFd => pc[p] \in HoldsFd,
         pc'[p] \in RwLabels => pc[p] \in RwLabels,
         pc'[p] = "unlink" => pc[p] = "unlink",
         pc'[p] = "wsync" => pc[p] = "wsync",
         pc'[p] = "truncate" => NewSize(call[p].cursor) > TheFile(p).size
  PROVE AllSolo'
<1>1. SoloOK(p)'
  BY DEF AllSolo, SoloOK, Goes, TheFile, NewSize, Offset, Slot
<1> QED BY <1>1 DEF OneManager, AllSolo

(* A page stays where it is when nothing happens to the files.             *)
LEMMA QuietAcked ==
  ASSUME AckedSurvives, UNCHANGED fs, UNCHANGED acked
  PROVE AckedSurvives'
  BY DEF AckedSurvives, fs

(* A step in a shape that touches no file keeps both.                      *)
LEMMA QuietStep ==
  ASSUME OneManager, AllSolo, AckedSurvives, NEW p \in Procs, UNCHANGED fs,
         \/ Dies(p)
         \/ \E res, val, page : Replies(p, res, val, page)
         \/ Goes(p, {"access1", "access2", "open"})
  PROVE AllSolo' /\ AckedSurvives'
<1>1. acked' = acked
  BY DEF Dies, Replies, Goes
<1>2. CASE Goes(p, {"access1", "access2", "open"})
  <2>1. pc'[p] \notin HoldsFd /\ pc'[p] \notin RwLabels /\ pc'[p] \notin {"unlink", "wsync", "truncate"}
    BY <1>2 DEF Goes, HoldsFd, RwLabels
  <2> QED BY <1>1, <1>2, <2>1, GoSolo, QuietAcked DEF fs
<1>3. CASE Dies(p) \/ \E res, val, page : Replies(p, res, val, page)
  BY <1>1, <1>3, EndSolo, QuietAcked DEF Dies, Replies
<1> QED BY <1>2, <1>3

(* exists, and the ends of create and load.                                *)
LEMMA AccessSolo ==
  ASSUME OneManager, DInv, NEW p \in Procs,
         Access1(p) \/ Access2(p) \/ Created(p) \/ Loaded(p)
  PROVE AllSolo' /\ AckedSurvives'
<1> USE DEF DInv, IInv
<1>1. pc[p] \in Busy /\ UNCHANGED fs
  BY DEF Access1, Access2, Created, Loaded, Busy, Labels
<1>2. CASE Access1(p)
  <2>1. Goes(p, {"access2"})
    BY <1>1, <1>2, GotoShape DEF Access1
  <2> QED BY <1>1, <2>1, QuietStep DEF Goes
<1>3. CASE Access2(p)
  <2>1. Goes(p, {"open"}) \/ Goes(p, {"access1"}) \/ Dies(p) \/ \E e : RepliesError(p, e)
    BY <1>1, <1>3, GotoShape, InitErrorShape, DiesShape DEF Access2
  <2> QED BY <1>1, <2>1, QuietStep DEF Goes, RepliesError
<1>4. CASE Created(p)
  <2>1. Goes(p, {"access1"}) \/ Dies(p)
    BY <1>1, <1>4, DiesShape DEF Created, Goes, MgrOK, MgrTypeOK, HoldsFd
  <2> QED BY <1>1, <2>1, QuietStep DEF Goes
<1>5. CASE Loaded(p)
  <2>1. pc'[p] = "idle" /\ call'[p] = NoCall /\ acked' = acked
    BY <1>5 DEF Loaded, Leave, MgrOK, MgrTypeOK
  <2> QED BY <1>1, <2>1, EndSolo, QuietAcked
<1> QED BY <1>2, <1>3, <1>4, <1>5

(* Within the size limit a length is what stat's unsigned result says.     *)
LEMMA StatSizeExact ==
  ASSUME DInv, NEW p \in Procs, call[p] \in CallType, Found(p)
  PROVE StatSize(p) = TheFile(p).size /\ StatSize(p) % UMod = StatSize(p) /\ StatSize(p) \in Nat
<1>1. dir[call[p].name] \in Inodes
  BY DEF CallType, Found, DInv, IInv, FsTypeOK
<1>2. StatSize(p) \in Nat /\ StatSize(p) <= MaxDiskSize
  BY <1>1 DEF StatSize, DInv, IInv, FsTypeOK, File, WithinMax
<1>3. StatSize(p) < UMod
  BY <1>2, MaxDiskSizeAssumption, UModNat
<1> QED BY <1>2, <1>3, UModNat DEF StatSize, TheFile

(* prepare_rw up to its checks.                                            *)
LEMMA StatSolo ==
  ASSUME OneManager, DInv, NEW p \in Procs, Stat1(p) \/ Stat2(p)
  PROVE AllSolo' /\ AckedSurvives'
<1> USE DEF DInv, IInv
<1>1. pc[p] \in Busy /\ pc[p] \in HoldsFd /\ pc[p] \in RwLabels /\ UNCHANGED fs
  BY DEF Stat1, Stat2, Busy, Labels, HoldsFd, RwLabels
<1>2. call[p] \in CallType
  BY <1>1 DEF MgrOK, ProcOK
<1>3. ASSUME Goes(p, {"stat1", "stat2", "rw"}) PROVE AllSolo' /\ AckedSurvives'
  <2>1. pc'[p] \notin {"unlink", "wsync", "truncate"}
    BY <1>3 DEF Goes
  <2> QED BY <1>1, <1>3, <2>1, GoSolo, QuietAcked DEF Goes, fs
<1>4. CASE Stat1(p)
  <2>1. Goes(p, {"stat2"}) \/ Dies(p)
    BY <1>1, <1>4, GotoShape, DiesShape DEF Stat1
  <2> QED BY <1>1, <1>3, <2>1, QuietStep DEF Goes
<1>5. CASE Stat2(p)
  <2>1. \/ Goes(p, {"stat1"}) \/ Goes(p, {"rw"}) \/ Dies(p) \/ \E e : RepliesError(p, e)
        \/ Goto(p, "truncate") /\ Found(p) /\ Grows(call[p].cursor, StatSize(p) % UMod)
    BY <1>1, <1>5, PrepareErrorShape, PrepareOkShape, DiesShape DEF Stat2
  <2>2. ASSUME Goto(p, "truncate"), Found(p), Grows(call[p].cursor, StatSize(p) % UMod)
        PROVE AllSolo' /\ AckedSurvives'
    <3>1. Goes(p, {"truncate"})
      BY <1>1, <2>2, GotoShape
    <3>2. NewSize(call[p].cursor) > TheFile(p).size
      BY <1>2, <2>2, StatSizeExact DEF Grows
    <3> QED BY <1>1, <3>1, <3>2, GoSolo, QuietAcked DEF Goes, fs
  <2> QED BY <1>1, <1>3, <2>1, <2>2, QuietStep DEF Goes, RepliesError
<1> QED BY <1>4, <1>5

(* read, disk_byte_size and extend.                                        *)
LEMMA ReadSolo ==
  ASSUME OneManager, DInv, NEW p \in Procs, Read(p) \/ Size(p)
  PROVE AllSolo' /\ AckedSurvives'
<1> USE DEF DInv, IInv
<1>1. pc[p] \in Busy /\ pc[p] \in HoldsFd /\ UNCHANGED fs
  BY DEF Read, Size, Busy, Labels, HoldsFd
<1>2. call[p] \in CallType
  BY <1>1 DEF MgrOK, ProcOK
<1>3. CASE Read(p)
  <2>1. Goes(p, {"stat1"}) \/ Dies(p) \/ \E res, val, page : Replies(p, res, val, page)
    BY <1>1, <1>3, RwErrorShape, DiesShape, ReturnShape DEF Read, RepliesError
  <2>2. ASSUME Goes(p, {"stat1"}) PROVE AllSolo' /\ AckedSurvives'
    <3>1. pc'[p] = "stat1" /\ pc[p] \in RwLabels
      BY <1>3, <2>2 DEF Goes, Read, RwLabels
    <3> QED BY <1>1, <2>2, <3>1, GoSolo, QuietAcked DEF Goes, fs
  <2> QED BY <1>1, <2>1, <2>2, QuietStep
<1>4. CASE Size(p)
  <2>1. Found(p) => StatSize(p) % UMod \in Nat
    BY <1>2, StatSizeExact
  <2>2. Goes(p, {"access1"}) \/ Dies(p) \/ \E res, val, page : Replies(p, res, val, page)
    BY <1>1, <1>4, <2>1, SizeValueShape, SizeErrorShape, DiesShape DEF Size, RepliesError
  <2> QED BY <1>1, <2>2, QuietStep DEF Goes
<1> QED BY <1>3, <1>4

-----------------------------------------------------------------------------
(* Steps that change files.                                                *)

(* An acknowledged page is one of a file, with a length and a place.       *)
LEMMA AckedPlace ==
  ASSUME FsTypeOK, AckedSurvives, NEW n \in Names, NEW k \in PageIndex, acked[n][k] # Unknown
  PROVE /\ dir[n] \in Inodes /\ mdir[n] = dir[n]
        /\ file[dir[n]].size \in Nat /\ media[dir[n]].size \in Nat
        /\ k \in Nat /\ PageSize \in Nat /\ k * PageSize \in Nat
        /\ k * PageSize < file[dir[n]].size /\ k * PageSize < media[dir[n]].size
        /\ k * PageSize + PageSize <= file[dir[n]].size
        /\ k * PageSize + PageSize <= media[dir[n]].size
<1>0. PageSize \in Nat /\ PageSize > 0 /\ NumPages \in Nat
  BY UModNat
<1>1. k \in Nat
  BY <1>0 DEF PageIndex
<1>2. k * PageSize \in Nat /\ (k + 1) * PageSize = k * PageSize + PageSize
  BY <1>0, <1>1
<1>3. dir[n] \in Inodes /\ mdir[n] = dir[n]
  BY DEF AckedSurvives, FsTypeOK
<1>4. file[dir[n]].size \in Nat /\ media[dir[n]].size \in Nat
  BY <1>3 DEF FsTypeOK, File
<1> QED BY <1>0, <1>1, <1>2, <1>3, <1>4 DEF AckedSurvives

(* open, which may create an empty file for a name that has none.          *)
LEMMA OpenSolo ==
  ASSUME OneManager, DInv, NEW p \in Procs, Open(p)
  PROVE AllSolo' /\ AckedSurvives'
<1> USE DEF DInv, IInv
<1> DEFINE n == call[p].name
           Opened(i) ==
             /\ pc' = [pc EXCEPT ![p] = AfterOpen(p)]
             /\ fd' = [fd EXCEPT ![p] = i]
             /\ UNCHANGED <<call, acked>>
<1>1. pc[p] \in Busy /\ call[p] \in CallType
  BY DEF Open, MgrOK, ProcOK, Busy, Labels
<1>2. n \in Names
  BY <1>1 DEF CallType
<1>3. /\ AfterOpen(p) \notin {"truncate", "wsync"}
      /\ AfterOpen(p) \in RwLabels => call[p].op \in {"read", "write"}
      /\ AfterOpen(p) = "unlink" => call[p].op = "destroy"
  BY <1>1 DEF AfterOpen, CallType, DiskOps, RwLabels, MgrOK, MgrTypeOK
<1>4. ASSUME NEW i, Opened(i), dir'[n] = i PROVE AllSolo'
  <2>1. pc'[p] = AfterOpen(p) /\ fd'[p] = i
    BY <1>4 DEF MgrOK, MgrTypeOK
  <2>2. SoloOK(p)'
    BY <1>3, <1>4, <2>1 DEF AllSolo, SoloOK, NewSize, Offset, Slot
  <2> QED BY <2>2 DEF OneManager, AllSolo
<1>5. CASE dir[n] # None /\ Opened(dir[n]) /\ UNCHANGED fs
  BY <1>4, <1>5, QuietAcked DEF fs
<1>6. ASSUME NEW i \in Inodes, dir[n] = None, Opened(i), CreateEntry(n, i),
             \A m \in Names : dir[m] # i /\ mdir[m] # i
      PROVE AllSolo' /\ AckedSurvives'
  <2>1. dir'[n] = i
    BY <1>2, <1>6 DEF CreateEntry, FsTypeOK
  <2>2. ASSUME NEW m \in Names, NEW k \in PageIndex, acked[m][k] # Unknown
        PROVE /\ dir'[m] = dir[m] /\ mdir'[m] = mdir[m]
              /\ file'[dir[m]] = file[dir[m]] /\ media'[dir[m]] = media[dir[m]]
    <3>1. m # n /\ dir[m] # i
      BY <1>6, <2>2 DEF AckedSurvives
    <3> QED BY <1>6, <3>1 DEF CreateEntry, FsTypeOK
  <2>3. AckedSurvives'
    BY <1>6, <2>2 DEF AckedSurvives
  <2> QED BY <1>4, <1>6, <2>1, <2>3
<1>7. CASE InitError(p, "CREATE_DISK_ERROR") /\ UNCHANGED fs
  <2>1. Dies(p) \/ Goes(p, {"access1"}) \/ RepliesError(p, "CREATE_DISK_ERROR")
    BY <1>1, <1>7, InitErrorShape
  <2> QED BY <1>7, <2>1, QuietStep DEF Goes, RepliesError
<1> QED BY <1>5, <1>6, <1>7 DEF Open

(* What holds of the process where prepare_rw and the transfer are.        *)
LEMMA SoloFacts ==
  ASSUME DInv, NEW p \in Procs, pc[p] \in Prepared
  PROVE /\ pc[p] \in Busy /\ call[p] \in CallType /\ call[p].name \in Names
        /\ call[p].cursor \in Int /\ call[p].bytes \in Content
        /\ fd[p] \in Inodes /\ fd[p] = dir[call[p].name] /\ Found(p)
        /\ call[p].op \in {"read", "write"}
<1>1. fd[p] \in Inodes /\ pc[p] \in HoldsFd /\ pc[p] \in RwLabels
  BY PreparedFacts DEF DInv, Prepared, HoldsFd, RwLabels
<1>2. fd[p] = dir[call[p].name] /\ call[p].op \in {"read", "write"}
  BY <1>1 DEF DInv, AllSolo, SoloOK
<1> QED BY <1>1, <1>2, PreparedFacts, InodesAssumption DEF DInv, Found

(* truncate, which extends.                                                *)
LEMMA TruncateSolo ==
  ASSUME OneManager, DInv, NEW p \in Procs, Truncate(p)
  PROVE AllSolo' /\ AckedSurvives'
<1> USE DEF DInv, IInv
<1> DEFINE i == dir[call[p].name]
           N == NewSize(call[p].cursor)
<1>0. pc[p] \in Prepared /\ pc[p] = "truncate"
  BY DEF Truncate, Prepared
<1>1. i \in Inodes /\ fd[p] = i /\ N \in Nat /\ pc[p] \in Busy
  BY <1>0, SoloFacts, OffsetType, UModNat
<1>2. N > file[i].size
  BY <1>0 DEF AllSolo, SoloOK, TheFile
<1>3. CASE /\ file' = [file EXCEPT ![i] = Resize(@, N)]
           /\ Goto(p, "tsync") /\ UNCHANGED <<dir, mdir, media>>
  <2>1. Goes(p, {"tsync"})
    BY <1>1, <1>3, GotoShape
  <2>2. pc'[p] = "tsync" /\ fd' = fd /\ call' = call /\ acked' = acked
    BY <2>1 DEF Goes, HoldsFd
  <2>3. SoloOK(p)'
    BY <1>0, <1>1, <1>3, <2>2, SoloFacts DEF AllSolo, SoloOK, NewSize, Offset, Slot
  <2>4. ASSUME NEW n \in Names, NEW k \in PageIndex, acked[n][k] # Unknown
        PROVE file'[dir[n]].page[k] = file[dir[n]].page[k] /\ file'[dir[n]].size >= file[dir[n]].size
    <3>1. CASE dir[n] = i
      <4>1. file[i].size \in Nat /\ k * PageSize \in Nat /\ k * PageSize < file[i].size
        BY <2>4, <3>1, AckedPlace
      <4>2. k * PageSize < N
        BY <1>1, <1>2, <4>1
      <4>3. file'[i] = Resize(file[i], N)
        BY <1>1, <1>3 DEF FsTypeOK
      <4>4. file'[i].page[k] = file[i].page[k] /\ file'[i].size = N
        BY <4>2, <4>3 DEF Resize
      <4> QED BY <1>1, <1>2, <3>1, <4>1, <4>4
    <3>2. CASE dir[n] # i
      <4>1. dir[n] \in Inodes /\ file[dir[n]].size \in Nat
        BY <2>4, AckedPlace
      <4>2. file'[dir[n]] = file[dir[n]]
        BY <1>3, <3>2, <4>1 DEF FsTypeOK
      <4> QED BY <4>1, <4>2
    <3> QED BY <3>1, <3>2
  <2>5. ASSUME NEW n \in Names, NEW k \in PageIndex, acked[n][k] # Unknown
        PROVE (k + 1) * PageSize <= file'[dir[n]].size
    <3>1. /\ (k + 1) * PageSize = k * PageSize + PageSize /\ k * PageSize \in Nat /\ PageSize \in Nat
          /\ k * PageSize + PageSize <= file[dir[n]].size /\ file[dir[n]].size \in Nat
      BY <2>5, AckedPlace
    <3>2. file'[dir[n]].size \in {N, file[dir[n]].size}
      <4>1. dir[n] \in Inodes
        BY <2>5, AckedPlace
      <4> QED BY <1>1, <1>3, <4>1 DEF FsTypeOK, Resize
    <3> QED BY <1>1, <2>4, <2>5, <3>1, <3>2
  <2>6. AckedSurvives'
    BY <1>3, <2>2, <2>4, <2>5 DEF AckedSurvives
  <2> QED BY <2>3, <2>6 DEF OneManager, AllSolo
<1>4. CASE PrepareOk(p) /\ UNCHANGED fs
  <2>1. Dies(p) \/ Goes(p, {"rw"})
    BY <1>1, <1>4, PrepareOkShape
  <2>2. ASSUME Goes(p, {"rw"}) PROVE AllSolo' /\ AckedSurvives'
    <3>1. pc'[p] = "rw" /\ pc[p] \in RwLabels /\ pc[p] \in HoldsFd
      BY <1>0, <2>2 DEF Goes, RwLabels, HoldsFd
    <3> QED BY <1>4, <2>2, <3>1, GoSolo, QuietAcked DEF Goes, fs
  <2> QED BY <1>4, <2>1, <2>2, QuietStep
<1> QED BY <1>3, <1>4 DEF Truncate

(* fsync brings the medium up to date with one file.                       *)
LEMMA FlushAcked ==
  ASSUME FsTypeOK, AckedSurvives, NEW i \in Inodes, Flush(i), UNCHANGED acked
  PROVE AckedSurvives'
<1>1. ASSUME NEW n \in Names, NEW k \in PageIndex, acked[n][k] # Unknown
      PROVE /\ mdir'[n] = dir[n]
            /\ media'[dir[n]] \in {media[dir[n]], file[dir[n]]}
  <2>1. dir[n] \in Inodes /\ mdir[n] = dir[n]
    BY <1>1, AckedPlace
  <2> QED BY <2>1 DEF Flush, FsTypeOK
<1> QED BY <1>1 DEF AckedSurvives, Flush

(* The fsync after truncate.                                               *)
LEMMA TruncateSyncSolo ==
  ASSUME OneManager, DInv, NEW p \in Procs, TruncateSync(p)
  PROVE AllSolo' /\ AckedSurvives'
<1> USE DEF DInv, IInv
<1>0. pc[p] \in Prepared /\ pc[p] = "tsync" /\ pc[p] \in RwLabels /\ pc[p] \in HoldsFd
  BY DEF TruncateSync, Prepared, RwLabels, HoldsFd
<1>1. fd[p] \in Inodes /\ pc[p] \in Busy
  BY <1>0, SoloFacts
<1>2. Dies(p) \/ Goes(p, {"rw"}) \/ Goes(p, {"tsync"})
  BY <1>1, PrepareOkShape, DiesShape, GotoShape DEF TruncateSync
<1>3. UNCHANGED <<dir, file>> /\ (UNCHANGED fs \/ Flush(fd[p]))
  BY DEF TruncateSync, sync, Flush, fs
<1>4. acked' = acked
  BY <1>2 DEF Dies, Goes
<1>5. AckedSurvives'
  BY <1>1, <1>3, <1>4, QuietAcked, FlushAcked
<1>6. ASSUME Goes(p, {"rw", "tsync"}) PROVE AllSolo'
  <2>1. pc'[p] \notin {"unlink", "wsync", "truncate"}
    BY <1>6 DEF Goes
  <2> QED BY <1>0, <1>3, <1>6, <2>1, GoSolo
<1>7. AllSolo'
  BY <1>2, <1>6, EndSolo DEF Goes, Dies
<1> QED BY <1>5, <1>7

(* write, which puts a page that is not promised.                          *)
LEMMA WriteSolo ==
  ASSUME OneManager, DInv, NEW p \in Procs, Write(p)
  PROVE AllSolo' /\ AckedSurvives'
<1> USE DEF DInv, IInv
<1> DEFINE c == call[p].cursor
           i == fd[p]
           Put(v, len) == file' = [file EXCEPT ![fd[p]] = WriteAt(@, Offset(c), v, len)]
<1>0. pc[p] \in Prepared /\ pc[p] = "rw" /\ pc[p] \in RwLabels /\ pc[p] \in HoldsFd
      /\ call[p].op = "write" /\ UNCHANGED <<dir, mdir, media>>
  BY DEF Write, Prepared, RwLabels, HoldsFd
<1>1. i \in Inodes /\ i = dir[call[p].name] /\ c \in Int /\ pc[p] \in Busy /\ call[p].name \in Names
  BY <1>0, SoloFacts
<1>2. /\ Slot(c) \in PageIndex /\ Offset(c) \div PageSize = Slot(c)
      /\ Offset(c) \in Nat /\ PageSize \in Nat \ {0} /\ file[i].size \in Nat
      /\ file[i].page \in [PageIndex -> Content]
  BY <1>1, SlotOffset, OffsetType, UModNat DEF Slot, FsTypeOK, File
<1>3. ASSUME NEW v, NEW len \in 1 .. PageSize, Put(v, len)
      PROVE /\ file'[i].page = [file[i].page EXCEPT ![Slot(c)] = v]
            /\ file'[i].size \in Nat /\ file'[i].size >= file[i].size
            /\ file'[i].size >= Offset(c) + len
            /\ \A j \in Inodes : j # i => file'[j] = file[j]
  <2>1. file'[i] = WriteAt(file[i], Offset(c), v, len)
    BY <1>1, <1>3 DEF FsTypeOK
  <2>2. len \in Nat
    BY <1>2
  <2> QED BY <1>1, <1>2, <1>3, <2>1, <2>2 DEF WriteAt, FsTypeOK
<1>4. ASSUME NEW v, NEW len \in 1 .. PageSize, Put(v, len), UNCHANGED acked
      PROVE AckedSurvives'
  <2>1. ASSUME NEW n \in Names, NEW k \in PageIndex, acked[n][k] # Unknown
        PROVE /\ file'[dir[n]].page[k] = file[dir[n]].page[k]
              /\ (k + 1) * PageSize <= file'[dir[n]].size
    <3>1. /\ dir[n] \in Inodes /\ file[dir[n]].size \in Nat
          /\ k * PageSize \in Nat /\ (k + 1) * PageSize = k * PageSize + PageSize
          /\ k * PageSize + PageSize <= file[dir[n]].size
      BY <1>2, <2>1, AckedPlace
    <3>2. CASE dir[n] = i
      <4>1. n = call[p].name
        BY <1>1, <3>1, <3>2, InodesAssumption DEF OneName
      <4>2. k # Slot(c)
        BY <1>0, <2>1, <4>1 DEF AllSolo, SoloOK
      <4>3. /\ file'[i].page = [file[i].page EXCEPT ![Slot(c)] = v]
            /\ file'[i].size \in Nat /\ file'[i].size >= file[i].size
        BY <1>3, <1>4
      <4>4. file'[i].page[k] = file[i].page[k]
        BY <1>2, <4>2, <4>3
      <4>5. k * PageSize + PageSize <= file'[i].size
        BY <1>2, <3>1, <3>2, <4>3
      <4> QED BY <3>1, <3>2, <4>4, <4>5
    <3>3. CASE dir[n] # i
      BY <1>3, <1>4, <3>1, <3>3
    <3> QED BY <3>2, <3>3
  <2> QED BY <1>0, <1>4, <2>1 DEF AckedSurvives
<1>5. PageSize \in 1 .. PageSize /\ 1 .. (PageSize - 1) \subseteq 1 .. PageSize
  BY <1>2
<1>6. CASE Put(call[p].bytes, PageSize) /\ Goto(p, "wsync")
  <2>1. Goes(p, {"wsync"})
    BY <1>1, <1>6, GotoShape
  <2>2. pc'[p] = "wsync" /\ fd' = fd /\ call' = call /\ acked' = acked
    BY <2>1 DEF Goes, HoldsFd
  <2>3. file'[i].page[Slot(c)] = call[p].bytes /\ Offset(c) + PageSize <= file'[i].size
    <3>1. /\ file'[i].page = [file[i].page EXCEPT ![Slot(c)] = call[p].bytes]
          /\ file'[i].size \in Nat /\ file'[i].size >= Offset(c) + PageSize
      BY <1>3, <1>5, <1>6
    <3>2. file'[i].page[Slot(c)] = call[p].bytes
      BY <1>2, <3>1
    <3> QED BY <1>2, <3>1, <3>2
  <2>4. SoloOK(p)'
    <3>1. TheFile(p)' = file'[i]
      BY <1>0, <1>1, <2>2 DEF TheFile
    <3>2. Slot(call'[p].cursor) = Slot(c) /\ Offset(call'[p].cursor) = Offset(c)
      BY <2>2
    <3> QED BY <1>0, <1>1, <2>2, <2>3, <3>1, <3>2 DEF AllSolo, SoloOK, RwLabels
  <2> QED BY <1>4, <1>5, <1>6, <2>2, <2>4 DEF OneManager, AllSolo
<1>7. CASE /\ (\E len \in 1 .. (PageSize - 1) : Put(Torn, len)) \/ UNCHANGED file
           /\ RwError(p, "UNKOWN_ERROR")
  <2>1. Goes(p, {"stat1"}) \/ RepliesError(p, "UNKOWN_ERROR")
    BY <1>1, <1>7, RwErrorShape
  <2>2. acked' = acked
    BY <2>1 DEF Goes, Replies, RepliesError
  <2>3. AckedSurvives'
    BY <1>0, <1>4, <1>5, <1>7, <2>2, QuietAcked DEF fs
  <2>4. ASSUME Goes(p, {"stat1"}) PROVE AllSolo'
    <3>1. pc'[p] = "stat1" /\ fd' = fd /\ call' = call
      BY <2>4 DEF Goes, HoldsFd
    <3>2. SoloOK(p)'
      BY <1>0, <1>1, <2>2, <3>1 DEF AllSolo, SoloOK, Slot, Offset
    <3> QED BY <3>2 DEF OneManager, AllSolo
  <2>5. AllSolo'
    BY <2>1, <2>4, EndSolo DEF RepliesError, Replies
  <2> QED BY <2>3, <2>5
<1> QED BY <1>6, <1>7 DEF Write

(* The fsync after write, which acknowledges the page.                     *)
LEMMA WriteSyncSolo ==
  ASSUME OneManager, DInv, NEW p \in Procs, WriteSync(p)
  PROVE AllSolo' /\ AckedSurvives'
<1> USE DEF DInv, IInv
<1> DEFINE n == call[p].name
           s == Slot(call[p].cursor)
<1>0. pc[p] \in Prepared /\ pc[p] = "wsync" /\ pc[p] \in RwLabels /\ pc[p] \in HoldsFd
  BY DEF WriteSync, Prepared, RwLabels, HoldsFd
<1>1. fd[p] \in Inodes /\ fd[p] = dir[n] /\ pc[p] \in Busy /\ n \in Names /\ call[p].cursor \in Int
  BY <1>0, SoloFacts
<1>2. UNCHANGED <<dir, file>> /\ (UNCHANGED fs \/ Flush(fd[p]))
  BY DEF WriteSync, sync, Flush, fs
<1>3. ASSUME acked' = [acked EXCEPT ![n][s] = call[p].bytes], Flush(fd[p]), Leave(p, "ok", 0, None)
      PROVE AllSolo' /\ AckedSurvives'
  <2>1. pc'[p] = "idle" /\ call'[p] = NoCall
    BY <1>3 DEF Leave, MgrOK, MgrTypeOK
  <2>2. /\ mdir'[n] = dir[n] /\ media'[dir[n]] = file[dir[n]] /\ dir' = dir /\ file' = file
        /\ \A m \in Names : dir[m] # dir[n] =>
             mdir'[m] = mdir[m] /\ (dir[m] \in Inodes => media'[dir[m]] = media[dir[m]])
    BY <1>1, <1>3 DEF Flush, FsTypeOK
  <2>3. /\ file[dir[n]].page[s] = call[p].bytes
        /\ (s + 1) * PageSize <= file[dir[n]].size /\ s \in PageIndex
    BY <1>0, <1>1, SlotOffset DEF AllSolo, SoloOK, TheFile
  <2>4. ASSUME NEW m \in Names, NEW k \in PageIndex, acked'[m][k] # Unknown
        PROVE /\ dir[m] # None /\ mdir'[m] = dir[m]
              /\ file[dir[m]].page[k] = acked'[m][k] /\ media'[dir[m]].page[k] = acked'[m][k]
              /\ (k + 1) * PageSize <= file[dir[m]].size
              /\ (k + 1) * PageSize <= media'[dir[m]].size
    <3>1. CASE m = n /\ k = s
      <4>1. acked'[m][k] = call[p].bytes
        BY <1>1, <1>3, <2>3, <3>1 DEF MgrOK, MgrTypeOK
      <4> QED BY <1>1, <2>2, <2>3, <3>1, <4>1, InodesAssumption
    <3>2. CASE ~(m = n /\ k = s)
      <4>1. acked'[m][k] = acked[m][k]
        BY <1>1, <1>3, <2>3, <3>2 DEF MgrOK, MgrTypeOK
      <4>2. /\ dir[m] \in Inodes /\ mdir[m] = dir[m]
            /\ file[dir[m]].page[k] = acked[m][k] /\ media[dir[m]].page[k] = acked[m][k]
            /\ (k + 1) * PageSize <= file[dir[m]].size
            /\ (k + 1) * PageSize <= media[dir[m]].size
        BY <2>4, <4>1, AckedPlace DEF AckedSurvives
      <4>3. CASE dir[m] = dir[n]
        <5>1. m = n
          BY <1>1, <4>2, <4>3, InodesAssumption DEF OneName
        <5> QED BY <2>2, <4>1, <4>2, <5>1, InodesAssumption
      <4>4. CASE dir[m] # dir[n]
        BY <2>2, <4>1, <4>2, <4>4, InodesAssumption
      <4> QED BY <4>3, <4>4
    <3> QED BY <3>1, <3>2
  <2>5. AckedSurvives'
    BY <2>2, <2>4 DEF AckedSurvives
  <2> QED BY <2>1, <2>5, EndSolo
<1>4. ASSUME acked' = acked PROVE AckedSurvives'
  BY <1>1, <1>2, <1>4, QuietAcked, FlushAcked
<1>5. ASSUME Goes(p, {"wsync", "stat1"}) PROVE AllSolo' /\ AckedSurvives'
  <2>1. pc'[p] \notin {"unlink", "truncate"} /\ acked' = acked
    BY <1>5 DEF Goes
  <2> QED BY <1>0, <1>2, <1>4, <1>5, <2>1, GoSolo
<1>6. CASE Dies(p) \/ RepliesError(p, "UNKOWN_ERROR")
  BY <1>4, <1>6, EndSolo DEF Dies, RepliesError, Replies
<1>7. \/ acked' = [acked EXCEPT ![n][s] = call[p].bytes] /\ Flush(fd[p]) /\ Leave(p, "ok", 0, None)
      \/ Dies(p) \/ RepliesError(p, "UNKOWN_ERROR")
      \/ Goes(p, {"wsync"}) \/ Goes(p, {"stat1"})
  BY <1>1, DiesShape, GotoShape, RwErrorShape DEF WriteSync, sync
<1> QED BY <1>3, <1>5, <1>6, <1>7 DEF Goes

(* unlink, of a disk nothing is promised of.                               *)
LEMMA UnlinkSolo ==
  ASSUME OneManager, DInv, NEW p \in Procs, Unlink(p)
  PROVE AllSolo' /\ AckedSurvives'
<1> USE DEF DInv, IInv
<1>0. pc[p] \in Busy /\ pc[p] \in HoldsFd /\ pc[p] = "unlink" /\ call[p].op = "destroy"
  BY DEF Unlink, Busy, Labels, HoldsFd, AllSolo, SoloOK
<1>1. \A k \in PageIndex : acked[call[p].name][k] = Unknown
  BY <1>0 DEF AllSolo, SoloOK
<1>2. ASSUME dir' = [dir EXCEPT ![call[p].name] = None], UNCHANGED <<file, mdir, media, acked>>
      PROVE AckedSurvives'
  BY <1>1, <1>2 DEF AckedSurvives, FsTypeOK
<1>3. ASSUME acked' = acked PROVE AckedSurvives'
  BY <1>2, <1>3, QuietAcked DEF Unlink
<1>4. \/ Leave(p, "ok", 0, None) /\ UNCHANGED acked
      \/ Dies(p) \/ RepliesError(p, "DESTROY_DISK_ERROR")
      \/ Goes(p, {"unlink"}) /\ UNCHANGED fs
  BY <1>0, DiesShape, GotoShape, FailShape DEF Unlink
<1>5. CASE Leave(p, "ok", 0, None) /\ UNCHANGED acked
  <2>1. pc'[p] = "idle" /\ call'[p] = NoCall
    BY <1>5 DEF Leave, MgrOK, MgrTypeOK
  <2> QED BY <1>3, <1>5, <2>1, EndSolo
<1>6. CASE Dies(p) \/ RepliesError(p, "DESTROY_DISK_ERROR")
  BY <1>3, <1>6, EndSolo DEF Dies, RepliesError, Replies
<1>7. CASE Goes(p, {"unlink"}) /\ UNCHANGED fs
  <2>1. pc'[p] = "unlink" /\ pc'[p] \notin RwLabels /\ acked' = acked
    BY <1>7 DEF Goes, RwLabels
  <2> QED BY <1>0, <1>3, <1>7, <2>1, GoSolo DEF fs
<1> QED BY <1>4, <1>5, <1>6, <1>7

(* A call takes back the promise of what it is about to change.            *)
LEMMA CallSolo ==
  ASSUME OneManager, DInv, NEW p \in Procs, Call(p)
  PROVE AllSolo' /\ AckedSurvives'
<1> USE DEF DInv, IInv
<1>1. ASSUME NEW c, NEW exist, Start(p, c, exist),
             \A n \in Names : \A k \in PageIndex : acked'[n][k] \in {acked[n][k], Unknown},
             c.op = "write" => acked'[c.name][Slot(c.cursor)] = Unknown,
             c.op = "destroy" => \A k \in PageIndex : acked'[c.name][k] = Unknown
      PROVE AllSolo' /\ AckedSurvives'
  <2>1. pc'[p] = "access1" /\ call'[p] = c /\ UNCHANGED fs
    BY <1>1 DEF Start, MgrOK, MgrTypeOK
  <2>2. SoloOK(p)'
    BY <1>1, <2>1 DEF SoloOK, HoldsFd, RwLabels, Slot, Offset
  <2>3. AckedSurvives'
    BY <1>1, <2>1 DEF AckedSurvives, fs
  <2> QED BY <2>2, <2>3 DEF OneManager, AllSolo
<1>2. ASSUME NEW n \in Names, create(p, n) \/ load(p, n) PROVE AllSolo' /\ AckedSurvives'
  BY <1>1, <1>2 DEF create, load, NamedCall
<1>3. ASSUME NEW d \in Ids, unload(p, d) PROVE AllSolo' /\ AckedSurvives'
  <2>1. pc'[p] = "idle" /\ call'[p] = NoCall /\ UNCHANGED fs /\ acked' = acked
    BY <1>3 DEF unload, Leave, MgrOK, MgrTypeOK
  <2> QED BY <2>1, EndSolo, QuietAcked
<1>4. ASSUME NEW op \in DiskOps, NEW d \in Ids, NEW cursor \in Cursors \cup {0}, NEW bytes,
             OnDisk(p, op, d, cursor, bytes)
      PROVE AllSolo' /\ AckedSurvives'
  <2> DEFINE n == disks[p][d]
             c == [op |-> op, name |-> n, id |-> d, cursor |-> cursor, bytes |-> bytes]
  <2>1. CASE n = None
    <3>1. RepliesError(p, "DISK_NOT_FOUND") /\ UNCHANGED fs
      BY <1>4, <2>1, FailShape DEF OnDisk
    <3> QED BY <3>1, QuietStep DEF RepliesError
  <2>2. CASE n # None
    <3>1. n \in Names /\ Slot(cursor) \in PageIndex
      BY <2>2, SlotOffset, CursorsAssumption DEF MgrOK, MgrTypeOK
    <3>2. acked \in [Names -> [PageIndex -> Content \cup {Unknown}]]
      BY DEF MgrOK, MgrTypeOK
    <3>3. /\ op = "write" => acked' = [acked EXCEPT ![n][Slot(cursor)] = Unknown]
          /\ op = "destroy" => acked' = [acked EXCEPT ![n] = [k \in PageIndex |-> Unknown]]
          /\ op \notin {"write", "destroy"} => acked' = acked
      BY <1>4, <2>2 DEF OnDisk
    <3>4. /\ op = "write" => acked'[n][Slot(cursor)] = Unknown
          /\ op = "destroy" => \A k \in PageIndex : acked'[n][k] = Unknown
      BY <3>1, <3>2, <3>3
    <3>5. \A m \in Names : \A k \in PageIndex : acked'[m][k] \in {acked[m][k], Unknown}
      BY <3>1, <3>2, <3>3
    <3>6. Start(p, c, TRUE)
      BY <1>4, <2>2 DEF OnDisk
    <3>7. c.op = op /\ c.name = n /\ c.cursor = cursor
      OBVIOUS
    <3> HIDE DEF c
    <3> QED BY <1>1, <3>4, <3>5, <3>6, <3>7
  <2> QED BY <2>1, <2>2
<1>5. CASE \E d \in Ids : destroy(p, d) \/ disk_byte_size(p, d) \/ extend(p, d)
  BY <1>4, <1>5 DEF destroy, disk_byte_size, extend, DiskOps
<1>6. CASE \E d \in Ids, cursor \in Cursors : read(p, d, cursor)
  BY <1>4, <1>6 DEF read, DiskOps
<1>7. CASE \E d \in Ids, cursor \in Cursors, bytes \in Bytes : write(p, d, cursor, bytes)
  BY <1>4, <1>7 DEF write, DiskOps
<1> QED BY <1>2, <1>3, <1>5, <1>6, <1>7 DEF Call

(* A power failure finds an acknowledged page on the medium.               *)
LEMMA LosePowerAcked ==
  ASSUME FsTypeOK, AckedSurvives, LosePower, UNCHANGED acked
  PROVE AckedSurvives'
<1>1. PICK N \in SUBSET Renamed, L \in SUBSET Resized, D \in SUBSET Dirty :
        \E T \in SUBSET (Dirty \ D) :
          /\ dir' = [n \in Names |-> IF n \in N THEN dir[n] ELSE mdir[n]]
          /\ mdir' = dir'
          /\ file' = [i \in Inodes |-> Survivor(i, L, D, T)]
          /\ media' = file'
  BY DEF LosePower
<1>2. PICK T \in SUBSET (Dirty \ D) :
          /\ dir' = [n \in Names |-> IF n \in N THEN dir[n] ELSE mdir[n]]
          /\ mdir' = dir'
          /\ file' = [i \in Inodes |-> Survivor(i, L, D, T)]
          /\ media' = file'
  BY <1>1
<1>3. ASSUME NEW n \in Names, NEW k \in PageIndex, acked[n][k] # Unknown
      PROVE /\ dir'[n] = dir[n] /\ dir[n] # None
            /\ file'[dir[n]].page[k] = acked[n][k]
            /\ (k + 1) * PageSize <= file'[dir[n]].size
  <2> DEFINE i == dir[n]
             size == IF i \in L THEN file[i].size ELSE media[i].size
  <2>1. /\ i \in Inodes /\ mdir[n] = i /\ k * PageSize < file[i].size /\ k * PageSize < media[i].size
    BY <1>3, AckedPlace
  <2>2. file[i].page[k] = acked[n][k] /\ media[i].page[k] = acked[n][k]
        /\ (k + 1) * PageSize <= file[i].size /\ (k + 1) * PageSize <= media[i].size
    BY <1>3 DEF AckedSurvives
  <2>3. <<i, k>> \notin Dirty
    BY <2>2 DEF Dirty
  <2>4. <<i, k>> \notin D /\ <<i, k>> \notin T
    BY <1>1, <1>2, <2>3
  <2>5. Survivor(i, L, D, T).size = size /\ Survivor(i, L, D, T).page[k] = media[i].page[k]
    BY <2>1, <2>4 DEF Survivor, Resize
  <2> QED BY <1>2, <2>1, <2>2, <2>5, InodesAssumption
<1> QED BY <1>2, <1>3 DEF AckedSurvives

(* Nothing is loaded, open or promised at the start.                       *)
LEMMA InitDInv == Init => DInv
<1> SUFFICES ASSUME Init PROVE DInv
  OBVIOUS
<1>1. OneName /\ AckedSurvives
  BY DEF Init, FsInit, OneName, AckedSurvives
<1>2. AllSolo
  BY DEF Init, AllSolo, SoloOK, HoldsFd, RwLabels, NoCall, NamedCall, None
<1> QED BY <1>1, <1>2, InitOK, WithinMaxInit DEF DInv

(* Every step keeps the invariant.                                         *)
LEMMA StepDInv ==
  ASSUME OneManager, NoWrapCursors, DInv, [Next]_vars
  PROVE DInv'
<1>1. IInv' /\ WithinMax' /\ OneName'
  BY StepOK, WithinMaxStep, StepOneName DEF DInv
<1>2. ASSUME NEW p \in Procs, SystemCall(p) PROVE AllSolo' /\ AckedSurvives'
  BY <1>2, AccessSolo, OpenSolo, StatSolo, TruncateSolo, TruncateSyncSolo, WriteSolo, WriteSyncSolo,
     ReadSolo, UnlinkSolo DEF SystemCall
<1>3. ASSUME NEW p \in Procs, Restart(p) PROVE AllSolo' /\ AckedSurvives'
  <2>1. Dies(p) /\ UNCHANGED fs
    BY <1>3, GoneShape DEF Restart
  <2> QED BY <2>1, QuietStep DEF DInv
<1>4. ASSUME PowerLoss PROVE AllSolo' /\ AckedSurvives'
  <2>1. \A p \in Procs : Dies(p)
    BY <1>4, GoneShape DEF PowerLoss
  <2>2. acked' = acked
    BY <1>4 DEF PowerLoss, Gone
  <2>3. AckedSurvives'
    BY <1>4, <2>2, LosePowerAcked DEF PowerLoss, DInv, IInv
  <2>4. AllSolo'
    BY <2>1, EndSolo DEF Dies, AllSolo
  <2> QED BY <2>3, <2>4
<1>5. ASSUME UNCHANGED vars PROVE AllSolo' /\ AckedSurvives'
  <2>1. AckedSurvives'
    BY <1>5, QuietAcked DEF vars, DInv
  <2>2. AllSolo'
    BY <1>5 DEF vars, fs, ctl, mgr, DInv, AllSolo, SoloOK, TheFile, NewSize, Offset, Slot
  <2> QED BY <2>1, <2>2
<1>6. AllSolo' /\ AckedSurvives'
  BY <1>2, <1>3, <1>4, <1>5, CallSolo DEF Next
<1> QED BY <1>1, <1>6 DEF DInv

(* The invariant of a single manager holds throughout.                     *)
LEMMA DInvariant == OneManager /\ NoWrapCursors => (Spec => []DInv)
<1> SUFFICES ASSUME OneManager, NoWrapCursors PROVE Spec => []DInv
  OBVIOUS
<1>1. DInv /\ [Next]_vars => DInv'
  BY StepDInv
<1> QED BY <1>1, InitDInv, PTL DEF Spec

(* A page whose write returned Ok is in the file and on the medium until   *)
(* it is written again or its disk destroyed: whatever system calls fail   *)
(* and are repeated by the macros, and wherever kills and power failures   *)
(* fall between truncate, write and fsync.                                 *)
THEOREM AckedPagesSurvive == OneManager /\ NoWrapCursors => (Spec => []AckedSurvives)
<1> SUFFICES ASSUME OneManager, NoWrapCursors PROVE Spec => []AckedSurvives
  OBVIOUS
<1>1. DInv => AckedSurvives
  BY DEF DInv
<1> QED BY <1>1, DInvariant, PTL

-----------------------------------------------------------------------------
(* Who returns what, for any number of managers.                           *)

(* A step of p is nothing to the control state of the other processes.     *)
Others(p) == \A q \in Procs \ {p} :
  pc'[q] = pc[q] /\ call'[q] = call[q] /\ reply'[q] = reply[q]

(* The ways on and out concern their own process only.                     *)
LEMMA WaysOthers ==
  ASSUME MgrOK, NEW p \in Procs, NEW l, NEW site, NEW done, NEW res, NEW val, NEW page,
         \/ Goto(p, l) \/ Again(p, site, done, l) \/ PrepareOk(p) \/ SecondSize(p, site)
         \/ Return(p, res, val, page) \/ Fail(p, res) \/ BadResult(p) \/ FailedAssert(p)
  PROVE Others(p)
<1>1. CASE BadResult(p) \/ FailedAssert(p)
  BY <1>1 DEF Others, BadResult, FailedAssert, Gone
<1>2. CASE Goto(p, l) \/ Again(p, site, done, l) \/ SecondSize(p, site)
  BY <1>2 DEF Others, MgrOK, MgrTypeOK, Goto, Again, SecondSize
<1>3. CASE Return(p, res, val, page) \/ Fail(p, res)
  BY <1>3 DEF Others, MgrOK, MgrTypeOK, Return, Fail, Leave
<1>4. CASE PrepareOk(p)
  BY <1>1, <1>4 DEF Others, MgrOK, MgrTypeOK, PrepareOk
<1> QED BY <1>1, <1>2, <1>3, <1>4

(* So do the error paths.                                                  *)
LEMMA ErrorOthers ==
  ASSUME MgrOK, NEW p \in Procs, NEW n, NEW e,
         \/ SizeValue(p, n) \/ SizeError(p, e) \/ InitError(p, e)
         \/ RwError(p, e) \/ PrepareError(p, e)
  PROVE Others(p)
<1>1. ASSUME SizeError(p, e) PROVE Others(p)
  BY <1>1, WaysOthers DEF SizeError
<1>2. ASSUME RwError(p, e) PROVE Others(p)
  BY <1>2, WaysOthers DEF RwError
<1> QED BY <1>1, <1>2, WaysOthers DEF SizeValue, extend_result, InitError, PrepareError

(* Every call, system call and restart of p leaves the others where they   *)
(* are.                                                                    *)
LEMMA StepOthers ==
  ASSUME MgrOK, NEW p \in Procs, Call(p) \/ SystemCall(p) \/ Restart(p)
  PROVE Others(p)
<1>1. CASE Access1(p) \/ Access2(p) \/ Stat1(p) \/ Stat2(p) \/ Truncate(p) \/ TruncateSync(p)
           \/ Write(p) \/ Read(p) \/ Size(p)
  BY <1>1, WaysOthers, ErrorOthers DEF Access1, Access2, Stat1, Stat2, Truncate, TruncateSync,
     Write, Read, Size
<1>2. CASE Open(p)
  <2>1. CASE InitError(p, "CREATE_DISK_ERROR")
    BY <2>1, ErrorOthers
  <2> QED BY <1>2, <2>1 DEF Open, Others, MgrOK, MgrTypeOK
<1>3. CASE Created(p) \/ Loaded(p)
  BY <1>3, WaysOthers DEF Created, Loaded, Leave, Others, MgrOK, MgrTypeOK
<1>4. CASE WriteSync(p) \/ Unlink(p)
  <2>1. CASE Leave(p, "ok", 0, None)
    BY <2>1 DEF Leave, Others, MgrOK, MgrTypeOK
  <2> QED BY <1>4, <2>1, WaysOthers, ErrorOthers DEF WriteSync, Unlink
<1>5. CASE Restart(p)
  BY <1>5 DEF Restart, Gone, Others
<1>6. ASSUME NEW op, NEW d, NEW cursor, NEW bytes, OnDisk(p, op, d, cursor, bytes)
      PROVE Others(p)
  <2>1. CASE Fail(p, "DISK_NOT_FOUND")
    BY <2>1, WaysOthers
  <2> QED BY <1>6, <2>1 DEF OnDisk, Start, Others, MgrOK, MgrTypeOK
<1>7. CASE Call(p)
  <2>1. CASE \E n \in Names : create(p, n) \/ load(p, n)
    BY <2>1 DEF create, load, Start, Others, MgrOK, MgrTypeOK
  <2>2. CASE \E d \in Ids : unload(p, d)
    BY <2>2 DEF unload, Leave, Others, MgrOK, MgrTypeOK
  <2> QED BY <1>6, <1>7, <2>1, <2>2 DEF Call, destroy, disk_byte_size, extend, read, write
<1> QED BY <1>1, <1>2, <1>3, <1>4, <1>5, <1>7 DEF SystemCall

(* The operation a label belongs to.                                       *)
OpOK(p) ==
  /\ pc[p] \in RwLabels => call[p].op \in {"read", "write"}
  /\ pc[p] = "unlink" => call[p].op = "destroy"
  /\ pc[p] = "size" => call[p].op \in {"disk_byte_size", "extend"}

AllOps == \A p \in Procs : OpOK(p)

(* A step that ends an operation, goes on among labels of one operation or *)
(* back to init keeps labels and operations together.                      *)
LEMMA ShapeOps ==
  ASSUME AllOps, NEW p \in Procs, Others(p),
         \/ Dies(p)
         \/ \E res, val, page : Replies(p, res, val, page)
         \/ Goes(p, {"access1", "access2", "open"})
         \/ Goes(p, RwLabels) /\ pc[p] \in RwLabels
         \/ Goes(p, {"unlink"}) /\ pc[p] = "unlink"
  PROVE AllOps'
<1>1. OpOK(p)'
  BY DEF AllOps, OpOK, Dies, Replies, Goes, RwLabels
<1> QED BY <1>1 DEF AllOps, OpOK, Others

(* Every system call keeps them together.                                  *)
LEMMA SystemCallOps ==
  ASSUME IInv, AllOps, NEW p \in Procs, SystemCall(p)
  PROVE AllOps'
<1> USE DEF IInv
<1>0. Others(p) /\ pc[p] \in Busy
  BY StepOthers DEF SystemCall, Busy, Labels, Access1, Access2, Open, Created, Loaded, Stat1, Stat2,
     Truncate, TruncateSync, Write, WriteSync, Read, Size, Unlink
<1>1. CASE Access1(p) \/ Access2(p)
  <2>1. \/ Goes(p, {"access1"}) \/ Goes(p, {"access2"}) \/ Goes(p, {"open"})
        \/ Dies(p) \/ \E e : RepliesError(p, e)
    BY <1>0, <1>1, GotoShape, InitErrorShape, DiesShape DEF Access1, Access2
  <2> QED BY <1>0, <2>1, ShapeOps DEF Goes, RepliesError
<1>2. CASE Open(p)
  <2>1. CASE InitError(p, "CREATE_DISK_ERROR")
    <3>1. Dies(p) \/ Goes(p, {"access1"}) \/ RepliesError(p, "CREATE_DISK_ERROR")
      BY <1>0, <2>1, InitErrorShape
    <3> QED BY <1>0, <3>1, ShapeOps DEF Goes, RepliesError
  <2>2. CASE pc' = [pc EXCEPT ![p] = AfterOpen(p)] /\ call' = call
    <3>1. call[p] \in CallType /\ should_exist[p] \in BOOLEAN
      BY <1>0 DEF MgrOK, MgrTypeOK, ProcOK
    <3>2. /\ AfterOpen(p) \in RwLabels => call[p].op \in {"read", "write"}
          /\ AfterOpen(p) = "unlink" => call[p].op = "destroy"
          /\ AfterOpen(p) = "size" => call[p].op \in {"disk_byte_size", "extend"}
      BY <3>1 DEF AfterOpen, CallType, DiskOps, RwLabels
    <3>3. OpOK(p)'
      BY <2>2, <3>2 DEF OpOK, MgrOK, MgrTypeOK
    <3> QED BY <1>0, <3>3 DEF AllOps, OpOK, Others
  <2> QED BY <1>2, <2>1, <2>2 DEF Open
<1>3. CASE Created(p)
  <2>1. Goes(p, {"access1"}) \/ Dies(p)
    BY <1>0, <1>3, DiesShape DEF Created, Goes, MgrOK, MgrTypeOK, HoldsFd
  <2> QED BY <1>0, <2>1, ShapeOps DEF Goes
<1>4. CASE \/ Stat1(p) \/ Stat2(p) \/ Truncate(p) \/ TruncateSync(p) \/ Write(p) \/ Read(p)
           \/ WriteSync(p) /\ ~Leave(p, "ok", 0, None)
  <2>1. pc[p] \in RwLabels
    BY <1>4 DEF RwLabels, Stat1, Stat2, Truncate, TruncateSync, Write, Read, WriteSync
  <2>2. ASSUME NEW l \in RwLabels, Goes(p, {l}) PROVE Goes(p, RwLabels)
    BY <2>2 DEF Goes
  <2>3. ASSUME NEW l \in RwLabels, NEW site, NEW done, Goto(p, l) \/ Again(p, site, done, l)
        PROVE Goes(p, RwLabels)
    BY <1>0, <2>2, <2>3, GotoShape
  <2>4. {"stat1", "stat2", "truncate", "tsync", "rw", "wsync"} \subseteq RwLabels
    BY DEF RwLabels
  <2>5. ASSUME NEW e, RwError(p, e) \/ PrepareError(p, e) \/ PrepareOk(p)
        PROVE Goes(p, RwLabels) \/ Dies(p) \/ \E x : RepliesError(p, x)
    BY <1>0, <2>2, <2>4, <2>5, RwErrorShape, PrepareErrorShape, PrepareOkShape
  <2>6. Goes(p, RwLabels) \/ Dies(p) \/ \E res, val, page : Replies(p, res, val, page)
    <3>1. CASE Stat1(p) \/ Stat2(p)
      BY <2>3, <2>4, <2>5, <3>1, DiesShape DEF Stat1, Stat2, RepliesError
    <3>2. CASE Truncate(p) \/ TruncateSync(p)
      BY <2>3, <2>4, <2>5, <3>2, DiesShape DEF Truncate, TruncateSync, RepliesError
    <3>3. CASE Write(p) \/ Read(p)
      BY <2>3, <2>4, <2>5, <3>3, DiesShape, ReturnShape DEF Write, Read, RepliesError
    <3>4. CASE WriteSync(p) /\ ~Leave(p, "ok", 0, None)
      BY <2>3, <2>4, <2>5, <3>4, DiesShape DEF WriteSync, RepliesError
    <3> QED BY <1>4, <3>1, <3>2, <3>3, <3>4
  <2> QED BY <1>0, <2>1, <2>6, ShapeOps
<1>5. CASE Size(p)
  <2>1. call[p] \in CallType
    BY <1>0 DEF MgrOK, ProcOK
  <2>2. Found(p) => StatSize(p) % UMod \in Nat
    BY <2>1, UModNat DEF Found, StatSize, CallType, FsTypeOK, File
  <2>3. Goes(p, {"access1"}) \/ Dies(p) \/ \E res, val, page : Replies(p, res, val, page)
    BY <1>0, <1>5, <2>2, SizeValueShape, SizeErrorShape, DiesShape DEF Size, RepliesError
  <2> QED BY <1>0, <2>3, ShapeOps DEF Goes
<1>6. CASE Unlink(p) /\ ~Leave(p, "ok", 0, None)
  <2>1. Dies(p) \/ (Goes(p, {"unlink"}) /\ pc[p] = "unlink") \/ RepliesError(p, "DESTROY_DISK_ERROR")
    BY <1>0, <1>6, DiesShape, GotoShape, FailShape DEF Unlink
  <2> QED BY <1>0, <2>1, ShapeOps DEF RepliesError
<1>7. ASSUME NEW val, Leave(p, "ok", val, None) PROVE AllOps'
  <2>1. OpOK(p)'
    BY <1>7 DEF Leave, OpOK, RwLabels, MgrOK, MgrTypeOK
  <2> QED BY <1>0, <2>1 DEF AllOps, OpOK, Others
<1> QED BY <1>1, <1>2, <1>3, <1>4, <1>5, <1>6, <1>7 DEF SystemCall, Loaded

(* Every step keeps them together.                                         *)
LEMMA StepOps ==
  ASSUME IInv, AllOps, [Next]_vars
  PROVE AllOps'
<1> USE DEF IInv
<1>1. ASSUME NEW p \in Procs, Call(p) \/ Restart(p) PROVE AllOps'
  <2>1. Others(p)
    BY <1>1, StepOthers
  <2>2. pc'[p] \in {"access1", "idle"}
    BY <1>1 DEF Call, create, load, unload, destroy, disk_byte_size, extend, read, write, OnDisk,
       Start, Leave, Fail, Return, Restart, Gone, MgrOK, MgrTypeOK
  <2>3. OpOK(p)'
    BY <2>2 DEF OpOK, RwLabels
  <2> QED BY <2>1, <2>3 DEF AllOps, OpOK, Others
<1>2. CASE PowerLoss
  BY <1>2 DEF PowerLoss, Gone, AllOps, OpOK, RwLabels
<1>3. CASE UNCHANGED vars
  BY <1>3 DEF vars, ctl, AllOps, OpOK
<1> QED BY <1>1, <1>2, <1>3, SystemCallOps DEF Next

(* Nobody is inside an operation at the start.                             *)
LEMMA InitOps == Init => AllOps
  BY DEF Init, AllOps, OpOK, RwLabels

(* The four ways an operation comes to return Ok, but for the answers of   *)
(* disk_byte_size and extend.                                              *)
LEMMA OkReturns ==
  ASSUME IInv, AllOps, [Next]_vars, NEW p \in Procs,
         pc[p] # "idle", pc'[p] = "idle", reply'[p].res = "ok"
  PROVE \/ Loaded(p) \/ WriteSync(p) \/ Unlink(p)
        \/ Read(p) /\ reply'[p].page = file[fd[p]].page[Slot(call[p].cursor)]
        \/ Found(p) /\ ~Misaligned(p) /\ SizeValue(p, StatSize(p) % UMod) /\ pc[p] = "size"
<1> USE DEF IInv
<1>1. PICK q \in Procs : Call(q) \/ SystemCall(q) \/ Restart(q)
  <2>1. ~PowerLoss
    BY GoneShape DEF PowerLoss, Dies, None
  <2>2. ~UNCHANGED vars
    BY DEF vars, ctl
  <2> QED BY <2>1, <2>2 DEF Next
<1>2. q = p
  BY <1>1, StepOthers DEF Others
<1>3. ~Restart(p)
  BY GoneShape DEF Restart, Dies, None
<1>4. ~Call(p)
  BY DEF Call, create, load, unload, destroy, disk_byte_size, extend, read, write, OnDisk
<1>5. SystemCall(p) /\ pc[p] \in Busy
  BY <1>1, <1>2, <1>3, <1>4 DEF SystemCall, Busy, Labels, Access1, Access2, Open, Created, Loaded,
     Stat1, Stat2, Truncate, TruncateSync, Write, WriteSync, Read, Size, Unlink
<1>6. ASSUME NEW e \in Errors, RepliesError(p, e) PROVE FALSE
  BY <1>6 DEF RepliesError, Replies, Errors
<1>7. ASSUME NEW l, l # "idle", Goes(p, {l}) PROVE FALSE
  BY <1>7 DEF Goes
<1>8. ~Dies(p)
  BY DEF Dies, None
<1>9. ~Access1(p) /\ ~Access2(p)
  BY <1>5, <1>6, <1>7, <1>8, GotoShape, InitErrorShape, DiesShape DEF Access1, Access2, Errors
<1>10. ~Open(p)
  <2>1. ~InitError(p, "CREATE_DISK_ERROR")
    BY <1>5, <1>6, <1>7, <1>8, InitErrorShape DEF Errors
  <2>2. call[p] \in CallType /\ should_exist[p] \in BOOLEAN
    BY <1>5 DEF MgrOK, MgrTypeOK, ProcOK
  <2>3. AfterOpen(p) # "idle"
    BY <2>2 DEF AfterOpen, CallType, DiskOps
  <2> QED BY <2>1, <2>3 DEF Open, MgrOK, MgrTypeOK
<1>11. ~Created(p)
  BY <1>8, DiesShape DEF Created, MgrOK, MgrTypeOK
<1>12. ~Stat1(p) /\ ~Stat2(p)
  BY <1>5, <1>6, <1>7, <1>8, GotoShape, PrepareErrorShape, PrepareOkShape, DiesShape
  DEF Stat1, Stat2, Errors
<1>13. ~Truncate(p) /\ ~TruncateSync(p) /\ ~Write(p)
  BY <1>5, <1>6, <1>7, <1>8, GotoShape, RwErrorShape, PrepareOkShape, DiesShape
  DEF Truncate, TruncateSync, Write, Errors
<1>14. CASE Read(p)
  <2>1. ~RwError(p, "READ_DISK_ERROR") /\ ~BadResult(p)
    BY <1>5, <1>6, <1>7, <1>8, RwErrorShape, DiesShape DEF Errors
  <2>2. Return(p, "ok", 0, file[fd[p]].page[Slot(call[p].cursor)])
    BY <1>14, <2>1 DEF Read
  <2>3. Replies(p, "ok", 0, file[fd[p]].page[Slot(call[p].cursor)])
    BY <2>2, ReturnShape
  <2>4. reply'[p].page = file[fd[p]].page[Slot(call[p].cursor)]
    BY <2>3 DEF Replies
  <2> QED BY <1>14, <2>4
<1>15. CASE Size(p)
  <2>1. ~SizeError(p, "GET_DISK_SIZE_ERROR") /\ ~FailedAssert(p)
    BY <1>5, <1>6, <1>7, <1>8, SizeErrorShape, DiesShape DEF Errors
  <2> QED BY <1>15, <2>1 DEF Size
<1> QED BY <1>5, <1>9, <1>10, <1>11, <1>12, <1>13, <1>14, <1>15 DEF SystemCall

-----------------------------------------------------------------------------
(* What operations return.                                                 *)

(* The types and the operation of every label hold throughout.             *)
LEMMA OpsInvariant == Spec => [](IInv /\ AllOps)
<1>1. Init => IInv /\ AllOps
  BY InitOK, InitOps
<1>2. IInv /\ AllOps /\ [Next]_vars => IInv' /\ AllOps'
  BY StepOK, StepOps
<1> QED BY <1>1, <1>2, PTL DEF Spec

(* A read that returns Ok returns the bytes of the last acknowledged write *)
(* of its page: between prepare_rw's stat by path and the read through     *)
(* m_fd nothing makes the two files differ, and no retry of the macros     *)
(* returns another page.                                                   *)
THEOREM ReadsReturnAcked == OneManager /\ NoWrapCursors => (Spec => ReadReturnsAcked)
<1> SUFFICES ASSUME OneManager, NoWrapCursors PROVE Spec => ReadReturnsAcked
  OBVIOUS
<1> DEFINE A == \A p \in Procs : Returns(p, "read", "ok") =>
                  acked[call[p].name][Slot(call[p].cursor)] \in {Unknown, reply'[p].page}
<1>1. DInv /\ IInv /\ AllOps /\ [Next]_vars => A
  <2> SUFFICES ASSUME DInv, IInv, AllOps, [Next]_vars, NEW p \in Procs, Returns(p, "read", "ok"),
                      acked[call[p].name][Slot(call[p].cursor)] # Unknown
               PROVE acked[call[p].name][Slot(call[p].cursor)] = reply'[p].page
    OBVIOUS
  <2>1. /\ pc[p] # "idle" /\ pc'[p] = "idle" /\ reply'[p].res = "ok"
        /\ call[p].op = "read"
    BY DEF Returns
  <2>2. \/ Loaded(p) \/ WriteSync(p) \/ Unlink(p)
        \/ Read(p) /\ reply'[p].page = file[fd[p]].page[Slot(call[p].cursor)]
        \/ SizeValue(p, StatSize(p) % UMod)
    BY <2>1, OkReturns
  <2>3. ~Loaded(p) /\ ~WriteSync(p) /\ ~Unlink(p) /\ ~SizeValue(p, StatSize(p) % UMod)
    BY <2>1 DEF Loaded, WriteSync, Unlink, SizeValue, DInv, AllSolo, SoloOK, AllOps, OpOK,
       IInv, MgrOK, ProcOK
  <2>4. Read(p) /\ reply'[p].page = file[fd[p]].page[Slot(call[p].cursor)] /\ pc[p] \in Prepared
    BY <2>2, <2>3 DEF Read, Prepared
  <2>5. call[p].name \in Names /\ Slot(call[p].cursor) \in PageIndex /\ fd[p] = dir[call[p].name]
    BY <2>4, SoloFacts, SlotOffset
  <2> QED BY <2>4, <2>5 DEF DInv, AckedSurvives
<1>2. [][A]_vars <=> ReadReturnsAcked
  BY DEF ReadReturnsAcked
<1>3. Spec => [][A]_vars
  BY <1>1, DInvariant, OpsInvariant, PTL DEF Spec
<1> QED BY <1>2, <1>3

(* One page past a length that is a whole number of pages.                 *)
LEMMA PastTheEnd ==
  ASSUME NEW n \in Nat
  PROVE ((n \div PageSize) + 1) * PageSize >= n
<1>1. PageSize \in Nat /\ PageSize > 0
  BY PageSizeAssumption
<1> DEFINE d == n \div PageSize
<1>2. d \in Nat /\ n = PageSize * d + (n % PageSize) /\ n % PageSize \in 0 .. (PageSize - 1)
  BY <1>1
<1>3. (d + 1) * PageSize = PageSize * d + PageSize /\ PageSize * d \in Nat
  BY <1>1, <1>2
<1> HIDE DEF d
<1>4. (d + 1) * PageSize >= n
  BY <1>1, <1>2, <1>3
<1> QED BY <1>4 DEF d

(* The cursor a successful extend returns lies past the end of the file,   *)
(* for any number of managers on the disk and whichever of the two runs of *)
(* disk_byte_size saw it change.                                           *)
THEOREM ExtendIsFresh == NoWrapCursors => (Spec => ExtendFresh)
<1> SUFFICES ASSUME NoWrapCursors PROVE Spec => ExtendFresh
  OBVIOUS
<1> DEFINE A == \A p \in Procs : Returns(p, "extend", "ok") =>
                  reply'[p].val * PageSize >= file[dir[call[p].name]].size
<1>1. WithinMax /\ IInv /\ AllOps /\ [Next]_vars => A
  <2> SUFFICES ASSUME WithinMax, IInv, AllOps, [Next]_vars, NEW p \in Procs,
                      Returns(p, "extend", "ok")
               PROVE reply'[p].val * PageSize >= file[dir[call[p].name]].size
    OBVIOUS
  <2>1. /\ pc[p] # "idle" /\ pc'[p] = "idle" /\ reply'[p].res = "ok"
        /\ call[p].op = "extend"
    BY DEF Returns
  <2>2. \/ Loaded(p) \/ WriteSync(p) \/ Unlink(p) \/ Read(p)
        \/ Found(p) /\ ~Misaligned(p) /\ SizeValue(p, StatSize(p) % UMod) /\ pc[p] = "size"
    BY <2>1, OkReturns
  <2>3. ~Loaded(p) /\ ~WriteSync(p) /\ ~Unlink(p) /\ ~Read(p)
    BY <2>1 DEF Loaded, WriteSync, Unlink, Read, AllOps, OpOK, RwLabels, IInv, MgrOK, ProcOK
  <2>4. Found(p) /\ SizeValue(p, StatSize(p) % UMod) /\ pc[p] \in Busy
    BY <2>2, <2>3 DEF Busy, Labels
  <2>5. call[p] \in CallType
    BY <2>4 DEF IInv, MgrOK, ProcOK
  <2>6. dir[call[p].name] \in Inodes
    BY <2>4, <2>5 DEF CallType, Found, IInv, FsTypeOK
  <2>7. StatSize(p) \in Nat /\ StatSize(p) <= MaxDiskSize
    BY <2>6 DEF StatSize, IInv, FsTypeOK, File, WithinMax
  <2>8. StatSize(p) % UMod = StatSize(p)
    BY <2>7, MaxDiskSizeAssumption, UModNat
  <2>9. Replies(p, "ok", (StatSize(p) \div PageSize) + 1, None)
    <3>1. \/ Dies(p) \/ Goes(p, {"access1"})
          \/ Replies(p, "ok", (StatSize(p) \div PageSize) + 1, None)
          \/ RepliesError(p, "DISK_EXCEEDS_MAX_SIZE")
      BY <2>1, <2>4, <2>7, <2>8, SizeValueShape DEF IInv
    <3>2. ~Dies(p)
      BY <2>1 DEF Dies, None
    <3>3. ~Goes(p, {"access1"}) /\ ~RepliesError(p, "DISK_EXCEEDS_MAX_SIZE")
      BY <2>1 DEF Goes, RepliesError, Replies
    <3> QED BY <3>1, <3>2, <3>3
  <2>10. reply'[p].val = (StatSize(p) \div PageSize) + 1
    BY <2>9 DEF Replies
  <2> QED BY <2>7, <2>10, PastTheEnd DEF StatSize
<1>2. [][A]_vars <=> ExtendFresh
  BY DEF ExtendFresh
<1>3. Spec => [][A]_vars
  BY <1>1, OpsInvariant, SizeBounded, PTL DEF Spec
<1> QED BY <1>2, <1>3

-----------------------------------------------------------------------------
(* The lengths of files.                                                   *)

(* A write makes no file shorter.                                          *)
LEMMA WriteGrows ==
  ASSUME FsTypeOK, NEW i \in Inodes, NEW off \in Nat, NEW v, NEW len \in Nat, NEW j \in Inodes,
         file' = [file EXCEPT ![i] = WriteAt(@, off, v, len)]
  PROVE file'[j].size >= file[j].size
<1>1. file[j].size \in Nat /\ file[i].size \in Nat
  BY DEF FsTypeOK, File
<1> QED BY <1>1 DEF FsTypeOK, WriteAt

(* No call of the program makes a disk file shorter: the truncate of       *)
(* prepare_rw, by path and after two stats by path, is still an extension  *)
(* when it happens.                                                        *)
THEOREM FilesNeverShrink == OneManager /\ NoWrapCursors => (Spec => NeverShrinks)
<1> SUFFICES ASSUME OneManager, NoWrapCursors PROVE Spec => NeverShrinks
  OBVIOUS
<1> DEFINE A == \A n \in Names : dir[n] # None /\ dir'[n] = dir[n] /\ "power" \notin Accidents =>
                  file'[dir[n]].size >= file[dir[n]].size
<1>1. DInv /\ [Next]_vars => A
  <2> SUFFICES ASSUME DInv, [Next]_vars, NEW n \in Names, dir[n] # None, dir'[n] = dir[n],
                      "power" \notin Accidents
               PROVE file'[dir[n]].size >= file[dir[n]].size
    OBVIOUS
  <2> USE DEF DInv, IInv
  <2> DEFINE j == dir[n]
  <2>1. j \in Inodes /\ file[j].size \in Nat
    BY DEF FsTypeOK, File
  <2>2. CASE UNCHANGED file
    BY <2>1, <2>2
  <2>3. ASSUME NEW p \in Procs, Open(p) PROVE file'[j].size >= file[j].size
    <3>1. ASSUME NEW m \in Names, NEW i \in Inodes, i # j, CreateEntry(m, i)
          PROVE file'[j] = file[j]
      BY <2>1, <3>1 DEF CreateEntry, FsTypeOK
    <3>2. call[p].name \in Names
      BY <2>3 DEF Open, MgrOK, ProcOK, Busy, Labels, CallType
    <3> QED BY <2>1, <2>2, <2>3, <3>1, <3>2 DEF Open, fs
  <2>4. ASSUME NEW p \in Procs, Truncate(p) PROVE file'[j].size >= file[j].size
    <3>1. pc[p] \in Prepared /\ pc[p] = "truncate"
      BY <2>4 DEF Truncate, Prepared
    <3>2. dir[call[p].name] \in Inodes /\ NewSize(call[p].cursor) \in Nat
      BY <3>1, SoloFacts, OffsetType, UModNat
    <3>3. NewSize(call[p].cursor) > file[dir[call[p].name]].size
      BY <3>1 DEF AllSolo, SoloOK, TheFile
    <3>4. CASE file' = [file EXCEPT ![dir[call[p].name]] = Resize(@, NewSize(call[p].cursor))]
      BY <2>1, <3>2, <3>3, <3>4 DEF FsTypeOK, Resize
    <3> QED BY <2>2, <2>4, <3>4 DEF Truncate, fs
  <2>5. ASSUME NEW p \in Procs, Write(p) PROVE file'[j].size >= file[j].size
    <3>1. pc[p] \in Prepared
      BY <2>5 DEF Write, Prepared
    <3>2. /\ fd[p] \in Inodes /\ Offset(call[p].cursor) \in Nat /\ PageSize \in Nat
          /\ 1 .. (PageSize - 1) \subseteq Nat
      BY <3>1, SoloFacts, OffsetType, UModNat
    <3>3. ASSUME NEW v, NEW len \in Nat,
                 file' = [file EXCEPT ![fd[p]] = WriteAt(@, Offset(call[p].cursor), v, len)]
          PROVE file'[j].size >= file[j].size
      BY <2>1, <3>2, <3>3, WriteGrows
    <3>4. CASE file' = [file EXCEPT ![fd[p]] = WriteAt(@, Offset(call[p].cursor), call[p].bytes, PageSize)]
      BY <3>2, <3>3, <3>4
    <3>5. CASE \E len \in 1 .. (PageSize - 1) :
                 file' = [file EXCEPT ![fd[p]] = WriteAt(@, Offset(call[p].cursor), Torn, len)]
      BY <3>2, <3>3, <3>5
    <3> QED BY <2>2, <2>5, <3>4, <3>5 DEF Write
  <2>6. ASSUME NEW p \in Procs, TruncateSync(p) \/ WriteSync(p) PROVE UNCHANGED file
    BY <2>6 DEF TruncateSync, WriteSync, sync, Flush, fs
  <2>7. ASSUME NEW p \in Procs,
               \/ Access1(p) \/ Access2(p) \/ Created(p) \/ Loaded(p) \/ Stat1(p) \/ Stat2(p)
               \/ Read(p) \/ Size(p) \/ Unlink(p)
        PROVE UNCHANGED file
    BY <2>7 DEF Access1, Access2, Created, Loaded, Stat1, Stat2, Read, Size, Unlink, fs
  <2>8. ASSUME NEW p \in Procs, Call(p) \/ Restart(p) PROVE UNCHANGED file
    BY <2>8 DEF Call, create, load, unload, destroy, write, read, disk_byte_size, extend,
       OnDisk, Start, Restart, fs
  <2>9. ~PowerLoss
    BY DEF PowerLoss
  <2>10. CASE UNCHANGED vars
    BY <2>2, <2>10 DEF vars, fs
  <2> QED BY <2>2, <2>3, <2>4, <2>5, <2>6, <2>7, <2>8, <2>9, <2>10 DEF Next, SystemCall
<1>2. [][A]_vars <=> NeverShrinks
  BY DEF NeverShrinks
<1>3. Spec => [][A]_vars
  BY <1>1, DInvariant, PTL DEF Spec
<1> QED BY <1>2, <1>3

(* Every file, and what of it is on the medium, is a whole number of       *)
(* pages.                                                                  *)
Whole(f) == \A i \in Inodes : f[i].size % PageSize = 0
AllWhole == Whole(file) /\ Whole(media)

(* Where the transfer is about to happen prepare_rw has made the file long *)
(* enough for it.                                                          *)
Room(p) == pc[p] \in {"tsync", "rw", "wsync"} => NewSize(call[p].cursor) <= TheFile(p).size
AllRoom == \A p \in Procs : Room(p)

(* A short write cannot happen, or always happens inside the file.         *)
ShortWritesInside ==
  \/ "write" \notin Fallible
  \/ OneManager /\ NoWrapCursors /\ "truncate" \notin Fallible

(* The cursor of a call is an integer.                                     *)
LEMMA CallCursor ==
  ASSUME NEW p \in Procs, call[p] \in CallType
  PROVE call[p].cursor \in Int
<1>1. call[p].cursor \in Cursors \/ call[p].cursor = 0
  BY DEF CallType
<1>2. \A c \in Cursors : c \in Int
  BY CursorsAssumption
<1> QED BY <1>1, <1>2

(* Every system call keeps the room that truncate made.                    *)
LEMMA SystemCallRoom ==
  ASSUME OneManager, NoWrapCursors, "truncate" \notin Fallible, DInv, AllRoom,
         NEW p \in Procs, SystemCall(p)
  PROVE AllRoom'
<1> USE DEF DInv, IInv
<1>0. pc[p] \in Busy
  BY DEF SystemCall, Busy, Labels, Access1, Access2, Open, Created, Loaded, Stat1, Stat2,
     Truncate, TruncateSync, Write, WriteSync, Read, Size, Unlink
<1>1. ASSUME pc'[p] \notin {"tsync", "rw", "wsync"} PROVE AllRoom'
  BY <1>1 DEF AllRoom, Room, OneManager
<1>2. ASSUME UNCHANGED <<dir, file, call>>, NewSize(call[p].cursor) <= TheFile(p).size PROVE AllRoom'
  BY <1>2 DEF AllRoom, Room, OneManager, TheFile, NewSize, Offset
<1>3. ASSUME NEW L, Goes(p, L), {"tsync", "rw", "wsync"} \cap L = {} PROVE AllRoom'
  BY <1>1, <1>3 DEF Goes
<1>4. ASSUME Dies(p) \/ \E res, val, page : Replies(p, res, val, page) PROVE AllRoom'
  BY <1>1, <1>4 DEF Dies, Replies
<1>5. CASE Access1(p) \/ Access2(p)
  <2>1. \/ Goes(p, {"access1"}) \/ Goes(p, {"access2"}) \/ Goes(p, {"open"})
        \/ Dies(p) \/ \E e : RepliesError(p, e)
    BY <1>0, <1>5, GotoShape, InitErrorShape, DiesShape DEF Access1, Access2
  <2> QED BY <1>3, <1>4, <2>1 DEF RepliesError
<1>6. CASE Open(p)
  <2>1. CASE InitError(p, "CREATE_DISK_ERROR")
    <3>1. Dies(p) \/ Goes(p, {"access1"}) \/ RepliesError(p, "CREATE_DISK_ERROR")
      BY <1>0, <2>1, InitErrorShape
    <3> QED BY <1>3, <1>4, <3>1 DEF RepliesError
  <2>2. CASE pc' = [pc EXCEPT ![p] = AfterOpen(p)]
    <3>1. call[p] \in CallType /\ should_exist[p] \in BOOLEAN
      BY <1>0 DEF MgrOK, MgrTypeOK, ProcOK
    <3>2. AfterOpen(p) \notin {"tsync", "rw", "wsync"}
      BY <3>1 DEF AfterOpen, CallType, DiskOps
    <3> QED BY <1>1, <2>2, <3>2 DEF MgrOK, MgrTypeOK
  <2> QED BY <1>6, <2>1, <2>2 DEF Open
<1>7. CASE Created(p) \/ Loaded(p) \/ Unlink(p)
  <2>1. pc'[p] \in {"access1", "idle", "aborted", "unlink"}
    BY <1>7 DEF Created, Loaded, Unlink, Leave, Again, Fail, Return, BadResult, Gone, MgrOK, MgrTypeOK
  <2> QED BY <1>1, <2>1
<1>8. CASE Stat1(p)
  <2>1. Goes(p, {"stat2"}) \/ Dies(p)
    BY <1>0, <1>8, GotoShape, DiesShape DEF Stat1
  <2> QED BY <1>3, <1>4, <2>1
<1>9. CASE Stat2(p)
  <2>1. \/ Goes(p, {"stat1"}) \/ Goes(p, {"truncate"}) \/ Dies(p) \/ \E e : RepliesError(p, e)
        \/ PrepareOk(p) /\ Found(p) /\ ~Grows(call[p].cursor, StatSize(p) % UMod)
    BY <1>0, <1>9, PrepareErrorShape, GotoShape, DiesShape DEF Stat2
  <2>2. CASE PrepareOk(p) /\ Found(p) /\ ~Grows(call[p].cursor, StatSize(p) % UMod)
    <3>1. call[p] \in CallType
      BY <1>0 DEF MgrOK, ProcOK
    <3>2. NewSize(call[p].cursor) \in Nat
      BY <3>1, CallCursor, OffsetType, UModNat
    <3>3. NewSize(call[p].cursor) <= TheFile(p).size
      <4>1. StatSize(p) = TheFile(p).size /\ StatSize(p) % UMod = StatSize(p) /\ StatSize(p) \in Nat
        BY <2>2, <3>1, StatSizeExact
      <4>2. ~(NewSize(call[p].cursor) > StatSize(p))
        BY <2>2, <4>1 DEF Grows
      <4> QED BY <3>2, <4>1, <4>2
    <3>4. Dies(p) \/ Goes(p, {"rw"})
      BY <1>0, <2>2, PrepareOkShape
    <3>5. UNCHANGED <<dir, file>>
      BY <1>9 DEF Stat2, fs
    <3> QED BY <1>2, <1>4, <3>3, <3>4, <3>5 DEF Goes
  <2> QED BY <1>3, <1>4, <2>1, <2>2 DEF RepliesError
<1>10. CASE Truncate(p)
  <2>1. pc[p] \in Prepared
    BY <1>10 DEF Truncate, Prepared
  <2>2. /\ Found(p) /\ dir[call[p].name] \in Inodes /\ call[p].name \in Names
        /\ NewSize(call[p].cursor) \in Nat
    BY <2>1, SoloFacts, OffsetType, UModNat
  <2>3. /\ file' = [file EXCEPT ![dir[call[p].name]] = Resize(@, NewSize(call[p].cursor))]
        /\ dir' = dir /\ call' = call
    BY <1>10, <2>2 DEF Truncate, Goto
  <2>4. TheFile(p)'.size = NewSize(call[p].cursor)
    BY <2>2, <2>3 DEF TheFile, Resize, FsTypeOK
  <2>5. NewSize(call[p].cursor)' = NewSize(call[p].cursor)
    BY <2>3 DEF NewSize, Offset
  <2>6. Room(p)'
    BY <2>2, <2>4, <2>5 DEF Room
  <2> QED BY <2>6 DEF AllRoom, OneManager
<1>11. CASE TruncateSync(p)
  <2>1. Dies(p) \/ (call' = call /\ UNCHANGED <<dir, file>>)
    BY <1>11, DiesShape DEF TruncateSync, sync, Flush, PrepareOk, Again, fs
  <2>2. NewSize(call[p].cursor) <= TheFile(p).size
    BY <1>11 DEF TruncateSync, AllRoom, Room
  <2> QED BY <1>2, <1>4, <2>1, <2>2
<1>12. CASE Write(p)
  <2>1. pc[p] = "rw" /\ pc[p] \in Prepared
    BY <1>12 DEF Write, Prepared
  <2>2. /\ fd[p] \in Inodes /\ fd[p] = dir[call[p].name]
        /\ NewSize(call[p].cursor) \in Nat /\ Offset(call[p].cursor) \in Nat
        /\ PageSize \in Nat /\ file[fd[p]].size \in Nat
    BY <2>1, SoloFacts, OffsetType, UModNat DEF FsTypeOK, File
  <2>3. NewSize(call[p].cursor) <= file[fd[p]].size
    BY <2>1, <2>2 DEF AllRoom, Room, TheFile
  <2>4. CASE RwError(p, "UNKOWN_ERROR")
    <3>1. Goes(p, {"stat1"}) \/ RepliesError(p, "UNKOWN_ERROR")
      BY <1>0, <2>4, RwErrorShape
    <3> QED BY <1>3, <1>4, <3>1 DEF RepliesError
  <2>5. CASE /\ Goto(p, "wsync")
             /\ file' = [file EXCEPT ![fd[p]] =
                           WriteAt(@, Offset(call[p].cursor), call[p].bytes, PageSize)]
    <3>1. file'[fd[p]].size >= file[fd[p]].size
      BY <2>2, <2>5, WriteGrows
    <3>2. file'[fd[p]].size \in Nat
      BY <2>2, <2>5 DEF FsTypeOK, WriteAt
    <3>3. call' = call /\ dir' = dir
      BY <1>12, <2>5 DEF Write, Goto
    <3>4. NewSize(call[p].cursor)' = NewSize(call[p].cursor) /\ TheFile(p)' = file'[fd[p]]
      BY <2>2, <3>3 DEF NewSize, Offset, TheFile
    <3>5. Room(p)'
      BY <2>2, <2>3, <3>1, <3>2, <3>4 DEF Room
    <3> QED BY <3>5 DEF AllRoom, OneManager
  <2> QED BY <1>12, <2>4, <2>5 DEF Write
<1>13. CASE WriteSync(p)
  <2>1. NewSize(call[p].cursor) <= TheFile(p).size /\ UNCHANGED <<dir, file>>
    BY <1>13 DEF WriteSync, AllRoom, Room, sync, Flush, fs
  <2>2. CASE Leave(p, "ok", 0, None)
    BY <1>1, <2>2 DEF Leave, MgrOK, MgrTypeOK
  <2>3. CASE ~Leave(p, "ok", 0, None)
    <3>1. Dies(p) \/ Goes(p, {"wsync"}) \/ Goes(p, {"stat1"}) \/ RepliesError(p, "UNKOWN_ERROR")
      BY <1>0, <1>13, <2>3, DiesShape, GotoShape, RwErrorShape DEF WriteSync
    <3> QED BY <1>2, <1>3, <1>4, <2>1, <3>1 DEF Goes, RepliesError
  <2> QED BY <2>2, <2>3
<1>14. CASE Read(p)
  <2>1. Goes(p, {"stat1"}) \/ Dies(p) \/ \E res, val, page : Replies(p, res, val, page)
    BY <1>0, <1>14, RwErrorShape, DiesShape, ReturnShape DEF Read, RepliesError
  <2> QED BY <1>3, <1>4, <2>1
<1>15. CASE Size(p)
  <2>1. call[p] \in CallType
    BY <1>0 DEF MgrOK, ProcOK
  <2>2. Found(p) => StatSize(p) % UMod \in Nat
    BY <2>1, StatSizeExact
  <2>3. Goes(p, {"access1"}) \/ Dies(p) \/ \E res, val, page : Replies(p, res, val, page)
    BY <1>0, <1>15, <2>2, SizeValueShape, SizeErrorShape, DiesShape DEF Size, RepliesError
  <2> QED BY <1>3, <1>4, <2>3
<1> QED BY <1>5, <1>6, <1>7, <1>8, <1>9, <1>10, <1>11, <1>12, <1>13, <1>14, <1>15 DEF SystemCall

(* So does every step.                                                     *)
LEMMA StepRoom ==
  ASSUME OneManager, NoWrapCursors, "truncate" \notin Fallible, DInv, AllRoom, [Next]_vars
  PROVE AllRoom'
<1>1. ASSUME NEW p \in Procs, Call(p) \/ Restart(p) PROVE AllRoom'
  <2>1. pc'[p] \in {"access1", "idle"}
    BY <1>1 DEF Call, create, load, unload, destroy, disk_byte_size, extend, read, write, OnDisk,
       Start, Leave, Fail, Return, Restart, Gone, DInv, IInv, MgrOK, MgrTypeOK
  <2> QED BY <2>1 DEF AllRoom, Room, OneManager
<1>2. CASE PowerLoss
  BY <1>2 DEF PowerLoss, Gone, AllRoom, Room
<1>3. CASE UNCHANGED vars
  BY <1>3 DEF vars, ctl, fs, AllRoom, Room, TheFile, NewSize, Offset
<1> QED BY <1>1, <1>2, <1>3, SystemCallRoom DEF Next

(* The end of a page is a whole number of pages, wrapped or not.           *)
LEMMA PageEnds ==
  ASSUME NEW c \in Int
  PROVE NewSize(c) % PageSize = 0 /\ (Offset(c) + PageSize) % PageSize = 0
<1>0. PageSize \in Nat /\ PageSize > 0 /\ NumPages \in Nat /\ NumPages > 0 /\ UMod \in Nat /\ UMod > 0
  BY UModNat
<1>1. PICK k \in PageIndex : Offset(c) = k * PageSize
  BY OffsetIsPage
<1>2. k \in Nat /\ k + 1 <= NumPages
  BY <1>0, <1>1 DEF PageIndex
<1>3. Offset(c) + PageSize = (k + 1) * PageSize
  BY <1>0, <1>1, <1>2
<1>4. (Offset(c) + PageSize) % PageSize = 0
  BY <1>0, <1>2, <1>3
<1>5. Offset(c) \in Nat /\ Offset(c) + PageSize <= UMod
  BY <1>0, OffsetType
<1>6. NewSize(c) \in {0, Offset(c) + PageSize}
  BY <1>0, <1>5 DEF NewSize
<1>7. 0 % PageSize = 0
  BY <1>0
<1> QED BY <1>4, <1>6, <1>7

(* A system call changes lengths by whole pages.                           *)
LEMMA SystemCallWhole ==
  ASSUME IInv, AllWhole, NEW p \in Procs, SystemCall(p),
         "write" \in Fallible /\ pc[p] = "rw" =>
           NewSize(call[p].cursor) = Offset(call[p].cursor) + PageSize
           /\ fd[p] = dir[call[p].name] /\ NewSize(call[p].cursor) <= TheFile(p).size
  PROVE AllWhole'
<1> USE DEF IInv
<1>1. CASE UNCHANGED <<file, media>>
  BY <1>1 DEF AllWhole, Whole
<1>2. CASE Open(p)
  <2>1. 0 % PageSize = 0
    BY UModNat
  <2>2. ASSUME NEW n, NEW i \in Inodes, CreateEntry(n, i) PROVE AllWhole'
    BY <2>1, <2>2 DEF CreateEntry, EmptyFile, AllWhole, Whole, FsTypeOK
  <2> QED BY <1>1, <1>2, <2>2 DEF Open, fs
<1>3. CASE Truncate(p)
  <2>1. pc[p] \in Prepared
    BY <1>3 DEF Truncate, Prepared
  <2>2. call[p].cursor \in Int /\ call[p].name \in Names
    BY <2>1, PreparedFacts
  <2>3. NewSize(call[p].cursor) % PageSize = 0
    BY <2>2, PageEnds
  <2>4. CASE /\ Found(p) /\ UNCHANGED media
             /\ file' = [file EXCEPT ![dir[call[p].name]] = Resize(@, NewSize(call[p].cursor))]
    BY <2>2, <2>3, <2>4 DEF Found, AllWhole, Whole, Resize, FsTypeOK
  <2> QED BY <1>1, <1>3, <2>4 DEF Truncate, fs
<1>4. CASE TruncateSync(p) \/ WriteSync(p)
  <2>1. CASE Flush(fd[p])
    BY <2>1 DEF Flush, AllWhole, Whole, FsTypeOK
  <2> QED BY <1>1, <1>4, <2>1 DEF TruncateSync, WriteSync, sync, fs
<1>5. CASE Write(p)
  <2> DEFINE off == Offset(call[p].cursor)
             i == fd[p]
  <2>1. pc[p] \in Prepared /\ pc[p] = "rw" /\ UNCHANGED media
    BY <1>5 DEF Write, Prepared
  <2>2. fd[p] \in Inodes /\ call[p].cursor \in Int
    BY <2>1, PreparedFacts
  <2>3. off \in Nat /\ PageSize \in Nat /\ file[i].size \in Nat /\ (off + PageSize) % PageSize = 0
    BY <2>2, PageEnds, OffsetType, UModNat DEF FsTypeOK, File
  <2>4. ASSUME NEW v, NEW len, file' = [file EXCEPT ![i] = WriteAt(@, off, v, len)],
               len = PageSize \/ off + len <= file[i].size, len \in Nat
        PROVE AllWhole'
    <3>1. file'[i].size \in {file[i].size, off + PageSize}
      BY <2>2, <2>3, <2>4 DEF WriteAt, FsTypeOK
    <3>2. \A j \in Inodes : j # i => file'[j] = file[j]
      BY <2>4 DEF FsTypeOK
    <3> QED BY <2>1, <2>2, <2>3, <3>1, <3>2 DEF AllWhole, Whole
  <2>5. CASE file' = [file EXCEPT ![i] = WriteAt(@, off, call[p].bytes, PageSize)]
    BY <2>3, <2>4, <2>5
  <2>6. ASSUME "write" \in Fallible, NEW len \in 1 .. (PageSize - 1),
               file' = [file EXCEPT ![i] = WriteAt(@, off, Torn, len)]
        PROVE AllWhole'
    <3>1. off + PageSize <= file[i].size
      BY <2>1, <2>6 DEF TheFile
    <3>2. len \in Nat /\ off + len <= file[i].size
      BY <2>3, <3>1
    <3> QED BY <2>4, <2>6, <3>2
  <2> QED BY <1>1, <1>5, <2>1, <2>5, <2>6 DEF Write
<1>6. CASE \/ Access1(p) \/ Access2(p) \/ Created(p) \/ Loaded(p) \/ Stat1(p) \/ Stat2(p)
           \/ Read(p) \/ Size(p) \/ Unlink(p)
  BY <1>1, <1>6 DEF Access1, Access2, Created, Loaded, Stat1, Stat2, Read, Size, Unlink, fs
<1> QED BY <1>2, <1>3, <1>4, <1>5, <1>6 DEF SystemCall

(* Every other step leaves whole pages.                                    *)
LEMMA OtherWhole ==
  ASSUME AllWhole, (\E p \in Procs : Call(p) \/ Restart(p)) \/ PowerLoss \/ UNCHANGED vars
  PROVE AllWhole'
<1>1. CASE UNCHANGED <<file, media>>
  BY <1>1 DEF AllWhole, Whole
<1>2. ASSUME NEW p \in Procs, Call(p) \/ Restart(p) PROVE AllWhole'
  BY <1>1, <1>2 DEF Call, create, load, unload, destroy, write, read, disk_byte_size, extend,
     OnDisk, Start, Restart, fs
<1>3. CASE PowerLoss
  <2>1. ASSUME NEW i \in Inodes, NEW L, NEW D, NEW T
        PROVE Survivor(i, L, D, T).size \in {file[i].size, media[i].size}
    BY DEF Survivor, Resize
  <2>2. \A i \in Inodes : file'[i].size \in {file[i].size, media[i].size}
    <3>1. PICK L, D, T : file' = [i \in Inodes |-> Survivor(i, L, D, T)]
      BY <1>3 DEF PowerLoss, LosePower
    <3> QED BY <2>1, <3>1
  <2>3. media' = file'
    BY <1>3 DEF PowerLoss, LosePower
  <2> QED BY <2>2, <2>3 DEF AllWhole, Whole
<1> QED BY <1>1, <1>2, <1>3 DEF vars, fs

(* Files are empty at the start.                                           *)
LEMMA InitWhole == Init => AllWhole /\ AllRoom
<1>1. 0 % PageSize = 0
  BY UModNat
<1> QED BY <1>1 DEF Init, FsInit, EmptyFile, AllWhole, Whole, AllRoom, Room

(* Every disk file is a whole number of pages, so the assert of            *)
(* get_disk_byte_size cannot fail.  For any number of managers when writes *)
(* are not cut short; a short write leaves a whole file too, for a single  *)
(* manager, unless the truncate whose result prepare_rw ignores failed.    *)
THEOREM SizesAligned == ShortWritesInside => (Spec => []SizeAligned)
<1>0. AllWhole /\ IInv => SizeAligned
  BY DEF AllWhole, Whole, IInv, FsTypeOK, SizeAligned
<1>1. ASSUME "write" \notin Fallible PROVE Spec => []SizeAligned
  <2>1. IInv /\ AllWhole /\ [Next]_vars => AllWhole'
    BY <1>1, SystemCallWhole, OtherWhole DEF Next
  <2>2. IInv /\ AllWhole /\ [Next]_vars => IInv'
    BY StepOK
  <2>3. Init => IInv /\ AllWhole
    BY InitOK, InitWhole
  <2> QED BY <1>0, <2>1, <2>2, <2>3, PTL DEF Spec
<1>2. ASSUME OneManager, NoWrapCursors, "truncate" \notin Fallible PROVE Spec => []SizeAligned
  <2> DEFINE Inv == DInv /\ AllRoom /\ AllWhole
  <2>1. Inv /\ [Next]_vars => AllWhole'
    <3> SUFFICES ASSUME DInv, AllRoom, AllWhole, [Next]_vars PROVE AllWhole'
      OBVIOUS
    <3>1. ASSUME NEW p \in Procs, SystemCall(p) PROVE AllWhole'
      <4>1. ASSUME pc[p] = "rw"
            PROVE /\ NewSize(call[p].cursor) = Offset(call[p].cursor) + PageSize
                  /\ fd[p] = dir[call[p].name] /\ NewSize(call[p].cursor) <= TheFile(p).size
        <5>1. pc[p] \in Prepared
          BY <4>1 DEF Prepared
        <5>2. call[p].cursor \in Cursors \cup {0} /\ fd[p] = dir[call[p].name]
          BY <5>1, SoloFacts DEF CallType
        <5> QED BY <1>2, <4>1, <5>2, NoWrap DEF AllRoom, Room
      <4> QED BY <3>1, <4>1, SystemCallWhole DEF DInv
    <3> QED BY <3>1, OtherWhole DEF Next
  <2>2. Inv /\ [Next]_vars => DInv' /\ AllRoom'
    BY <1>2, StepDInv, StepRoom
  <2>3. Init => Inv
    BY InitDInv, InitWhole
  <2>4. Inv => SizeAligned
    BY <1>0 DEF DInv
  <2> QED BY <2>1, <2>2, <2>3, <2>4, PTL DEF Spec
<1> QED BY <1>1, <1>2 DEF ShortWritesInside

-----------------------------------------------------------------------------
(* create.                                                                 *)

(* What create knows when access and open do not fail of themselves: its   *)
(* first init opens a name that has no file, and the load that follows     *)
(* finds the file and a free descriptor.                                   *)
CreateOK(p) ==
  /\ "exists" \notin again[p]
  /\ call[p].op = "create" /\ pc[p] = "open" /\ ~should_exist[p] => dir[call[p].name] = None
  /\ call[p].op = "create" /\ pc[p] \in Busy /\ (should_exist[p] \/ pc[p] = "created") =>
       dir[call[p].name] # None
  /\ call[p].op = "create" /\ should_exist[p] /\ pc[p] \in {"access1", "access2", "open"} =>
       open_fds[p] < MaxFds

AllCreates == \A p \in Procs : CreateOK(p)

(* Returning, dying and being started again end what there is to know.     *)
LEMMA EndCreate ==
  ASSUME OneManager, NEW p \in Procs, again'[p] = {}, call'[p] = NoCall
  PROVE AllCreates'
<1>1. CreateOK(p)'
  BY DEF CreateOK, NoCall, NamedCall, None
<1> QED BY <1>1 DEF OneManager, AllCreates

(* Other operations than create only have to keep exists out of again.     *)
LEMMA OtherCreate ==
  ASSUME OneManager, NEW p \in Procs, "exists" \notin again'[p], call'[p].op # "create"
  PROVE AllCreates'
<1>1. CreateOK(p)'
  BY DEF CreateOK
<1> QED BY <1>1 DEF OneManager, AllCreates

(* Ending has its shape.                                                   *)
LEMMA EndShape ==
  ASSUME MgrOK, NEW p \in Procs, NEW res, NEW val, NEW page,
         \/ Return(p, res, val, page) \/ Fail(p, res) \/ Leave(p, res, val, page)
         \/ BadResult(p) \/ FailedAssert(p)
  PROVE again'[p] = {} /\ call'[p] = NoCall
<1>1. CASE BadResult(p) \/ FailedAssert(p)
  BY <1>1 DEF BadResult, FailedAssert, Gone
<1>2. CASE Return(p, res, val, page) \/ Fail(p, res) \/ Leave(p, res, val, page)
  BY <1>2 DEF Return, Fail, Leave, MgrOK, MgrTypeOK
<1> QED BY <1>1, <1>2

(* Every system call keeps what create knows.                              *)
LEMMA SystemCallCreate ==
  ASSUME OneManager, {"access", "open"} \cap Fallible = {}, IInv, AllOps, AllCreates,
         NEW p \in Procs, SystemCall(p)
  PROVE AllCreates'
<1> USE DEF IInv
<1> DEFINE n == call[p].name
           End == again'[p] = {} /\ call'[p] = NoCall
<1>0. pc[p] \in Busy /\ CreateOK(p) /\ "exists" \notin again[p]
  BY DEF AllCreates, CreateOK, SystemCall, Busy, Labels, Access1, Access2, Open, Created, Loaded,
     Stat1, Stat2, Truncate, TruncateSync, Write, WriteSync, Read, Size, Unlink
<1>1. call[p] \in CallType /\ should_exist[p] \in BOOLEAN /\ n \in Names /\ again[p] \in SUBSET Sites
  BY <1>0 DEF MgrOK, MgrTypeOK, ProcOK, CallType
<1>2. ASSUME End PROVE AllCreates'
  BY <1>2, EndCreate
<1>3. ASSUME NEW e, InitError(p, e), call[p].op # "create" PROVE AllCreates'
  <2>1. CASE \E site \in {"size_value", "size_error"} : SecondSize(p, site)
    BY <1>3, <2>1, OtherCreate DEF SecondSize, MgrOK, MgrTypeOK
  <2> QED BY <1>2, <1>3, <2>1, EndShape DEF InitError, SizeError
<1>4. ASSUME NEW e, InitError(p, e), call[p].op = "create", ~should_exist[p] PROVE AllCreates'
  <2>1. CASE Again(p, "init", {"exists"}, "access1")
    <3>1. pc'[p] = "access1" /\ call' = call /\ should_exist' = should_exist
          /\ again'[p] = (again[p] \ {"exists"}) \cup {"init"}
      BY <2>1 DEF Again, MgrOK, MgrTypeOK
    <3>2. CreateOK(p)'
      BY <1>4, <3>1 DEF CreateOK
    <3> QED BY <3>2 DEF OneManager, AllCreates
  <2> QED BY <1>2, <1>4, <2>1, EndShape DEF InitError
<1>5. CASE Access1(p)
  <2>1. Goto(p, "access2") /\ UNCHANGED fs
    BY <1>5 DEF Access1
  <2>2. CreateOK(p)'
    BY <1>0, <1>5, <2>1 DEF CreateOK, Goto, MgrOK, MgrTypeOK, fs, Access1
  <2> QED BY <2>2 DEF OneManager, AllCreates
<1>6. CASE Access2(p)
  <2>1. ASSUME Goto(p, "open"), should_exist[p] = (dir[n] # None), UNCHANGED fs PROVE AllCreates'
    <3>1. CreateOK(p)'
      BY <1>0, <1>6, <2>1 DEF CreateOK, Goto, MgrOK, MgrTypeOK, fs, Access2
    <3> QED BY <3>1 DEF OneManager, AllCreates
  <2>2. ASSUME should_exist[p], dir[n] = None PROVE call[p].op # "create"
    BY <1>0, <2>2 DEF CreateOK
  <2> QED BY <1>0, <1>1, <1>2, <1>3, <1>4, <1>6, <2>1, <2>2, EndShape DEF Access2
<1>7. CASE Open(p)
  <2>1. ASSUME InitError(p, "CREATE_DISK_ERROR"), open_fds[p] = MaxFds PROVE AllCreates'
    <3>1. call[p].op = "create" => ~should_exist[p]
      BY <1>0, <1>7, <2>1, BoundsAssumption DEF CreateOK, Open
    <3> QED BY <1>3, <1>4, <2>1, <3>1
  <2>2. ASSUME pc' = [pc EXCEPT ![p] = AfterOpen(p)], UNCHANGED <<again, call, should_exist>>,
               dir'[n] # None
        PROVE AllCreates'
    <3>1. AfterOpen(p) \notin {"access1", "access2", "open"}
      BY <1>1 DEF AfterOpen, CallType, DiskOps
    <3>2. CreateOK(p)'
      BY <1>0, <2>2, <3>1 DEF CreateOK, MgrOK, MgrTypeOK
    <3> QED BY <3>2 DEF OneManager, AllCreates
  <2>3. ASSUME NEW i \in Inodes, CreateEntry(n, i) PROVE dir'[n] # None
    BY <1>1, <2>3, InodesAssumption DEF CreateEntry, FsTypeOK
  <2> QED BY <1>7, <2>1, <2>2, <2>3 DEF Open, fs
<1>8. CASE Created(p)
  <2>1. CASE "init" \notin again[p]
    <3>1. /\ pc'[p] = "access1" /\ should_exist'[p] = TRUE /\ again' = again /\ call' = call
          /\ dir' = dir /\ CloseDisk(p)
      BY <1>8, <2>1 DEF Created, MgrOK, MgrTypeOK, fs
    <3>2. fd[p] # None /\ open_fds[p] \in 0 .. MaxFds /\ open_fds[p] > 0
      BY <1>8, InodesAssumption DEF Created, MgrOK, MgrTypeOK, ProcOK, HoldsFd
    <3>3. open_fds'[p] < MaxFds
      BY <3>1, <3>2, BoundsAssumption DEF CloseDisk, MgrOK, MgrTypeOK
    <3>4. CreateOK(p)'
      BY <1>0, <1>8, <3>1, <3>3 DEF CreateOK, Created
    <3> QED BY <3>4 DEF OneManager, AllCreates
  <2> QED BY <1>2, <1>8, <2>1, EndShape DEF Created
<1>9. CASE Loaded(p)
  BY <1>2, <1>9, EndShape DEF Loaded
<1>10. ASSUME pc[p] \in RwLabels \cup {"size", "unlink"} PROVE AllCreates'
  <2>1. call[p].op # "create"
    BY <1>10 DEF AllOps, OpOK
  <2>2. ASSUME NEW l, NEW site, NEW done, Goto(p, l) \/ Again(p, site, done, l), site # "exists"
        PROVE AllCreates'
    BY <1>0, <2>1, <2>2, OtherCreate DEF Goto, Again, MgrOK, MgrTypeOK
  <2>3. ASSUME NEW e, RwError(p, e) \/ PrepareError(p, e) \/ PrepareOk(p) PROVE AllCreates'
    <3>1. ASSUME RwError(p, e) PROVE AllCreates'
      BY <1>2, <2>2, <3>1, EndShape DEF RwError
    <3>2. ASSUME PrepareOk(p) PROVE AllCreates'
      <4>1. CASE "prepare_rw" \notin again[p]
        BY <1>0, <2>1, <3>2, <4>1, OtherCreate DEF PrepareOk, MgrOK, MgrTypeOK
      <4> QED BY <1>2, <3>2, <4>1, EndShape DEF PrepareOk
    <3> QED BY <1>2, <2>2, <2>3, <3>1, <3>2, EndShape DEF PrepareError
  <2>4. ASSUME NEW site \in {"size_value", "size_error"}, SecondSize(p, site) PROVE AllCreates'
    BY <2>1, <2>4, OtherCreate DEF SecondSize, MgrOK, MgrTypeOK
  <2>5. CASE Stat1(p) \/ Stat2(p) \/ Truncate(p) \/ TruncateSync(p)
    BY <1>2, <2>2, <2>3, <2>5, EndShape DEF Stat1, Stat2, Truncate, TruncateSync
  <2>6. CASE Write(p) \/ WriteSync(p) \/ Read(p)
    BY <1>2, <2>2, <2>3, <2>6, EndShape DEF Write, WriteSync, Read
  <2>7. CASE Size(p)
    BY <1>2, <2>4, <2>7, EndShape DEF Size, SizeValue, SizeError, extend_result
  <2>8. CASE Unlink(p)
    BY <1>2, <2>2, <2>8, EndShape DEF Unlink
  <2>9. ~Access1(p) /\ ~Access2(p) /\ ~Open(p) /\ ~Created(p) /\ ~Loaded(p)
    BY <1>10 DEF RwLabels, Access1, Access2, Open, Created, Loaded
  <2> QED BY <2>5, <2>6, <2>7, <2>8, <2>9 DEF SystemCall
<1> QED BY <1>5, <1>6, <1>7, <1>8, <1>9, <1>10 DEF SystemCall, RwLabels, Stat1, Stat2, Truncate,
     TruncateSync, Write, WriteSync, Read, Size, Unlink

(* Every step keeps what create knows.                                     *)
LEMMA StepCreate ==
  ASSUME OneManager, {"access", "open"} \cap Fallible = {}, IInv, AllOps, AllCreates, [Next]_vars
  PROVE AllCreates'
<1> USE DEF IInv
<1>0. \A p \in Procs : "exists" \notin again[p]
  BY DEF AllCreates, CreateOK
<1>1. ASSUME NEW p \in Procs, NEW c, NEW exist, Start(p, c, exist), c.op = "create" => ~exist
      PROVE AllCreates'
  <2>1. pc'[p] = "access1" /\ call'[p] = c /\ should_exist'[p] = exist /\ again' = again
    BY <1>1 DEF Start, MgrOK, MgrTypeOK
  <2>2. CreateOK(p)'
    BY <1>0, <1>1, <2>1 DEF CreateOK
  <2> QED BY <2>2 DEF OneManager, AllCreates
<1>2. ASSUME NEW p \in Procs, Call(p) PROVE AllCreates'
  <2>1. CASE \E n \in Names : create(p, n) \/ load(p, n)
    BY <1>1, <2>1 DEF create, load, NamedCall
  <2>2. CASE \E d \in Ids : unload(p, d)
    BY <2>2, EndShape, EndCreate DEF unload
  <2>3. ASSUME NEW op \in DiskOps, NEW d, NEW cursor, NEW bytes, OnDisk(p, op, d, cursor, bytes)
        PROVE AllCreates'
    <3>1. CASE Fail(p, "DISK_NOT_FOUND")
      BY <3>1, EndShape, EndCreate
    <3>2. CASE Start(p, [op |-> op, name |-> disks[p][d], id |-> d,
                         cursor |-> cursor, bytes |-> bytes], TRUE)
      BY <1>1, <2>3, <3>2 DEF DiskOps
    <3> QED BY <2>3, <3>1, <3>2 DEF OnDisk
  <2> QED BY <1>2, <2>1, <2>2, <2>3 DEF Call, destroy, disk_byte_size, extend, read, write, DiskOps
<1>3. ASSUME NEW p \in Procs, Restart(p) PROVE AllCreates'
  BY <1>3, EndCreate DEF Restart, Gone
<1>4. CASE PowerLoss
  BY <1>4 DEF PowerLoss, Gone, AllCreates, CreateOK, NoCall, NamedCall, None
<1>5. CASE UNCHANGED vars
  BY <1>5 DEF vars, fs, ctl, mgr, AllCreates, CreateOK
<1> QED BY <1>2, <1>3, <1>4, <1>5, SystemCallCreate DEF Next

(* Nothing is being created at the start.                                  *)
LEMMA InitCreate == Init => AllCreates
  BY DEF Init, AllCreates, CreateOK, NoCall, NamedCall, None

(* A create that fails with anything but DISK_ALREADY_EXISTS leaves no     *)
(* file: its init, run a second time by the macro after a failure, does    *)
(* not meet a file of the first run, and once it has created the file the  *)
(* load that follows cannot fail.  Descriptors may run out; access and     *)
(* open do not fail otherwise.                                             *)
THEOREM CreatesAtomic ==
  OneManager /\ {"access", "open"} \cap Fallible = {} => (Spec => CreateAtomic)
<1> SUFFICES ASSUME OneManager, {"access", "open"} \cap Fallible = {} PROVE Spec => CreateAtomic
  OBVIOUS
<1> DEFINE A == \A p \in Procs : \A e \in Errors \ {"DISK_ALREADY_EXISTS"} :
                  Returns(p, "create", e) => dir[call[p].name] = None
           Inv == IInv /\ AllOps /\ AllCreates
<1>1. Inv /\ [Next]_vars => A
  <2> SUFFICES ASSUME IInv, AllOps, AllCreates, [Next]_vars, NEW p \in Procs,
                      NEW e \in Errors \ {"DISK_ALREADY_EXISTS"}, Returns(p, "create", e)
               PROVE dir[call[p].name] = None
    OBVIOUS
  <2> USE DEF IInv
  <2>1. /\ pc[p] # "idle" /\ pc'[p] = "idle" /\ reply'[p].res = e /\ call[p].op = "create"
        /\ e \notin {"ok", "bad_result", "failed_assert", None, "DISK_ALREADY_EXISTS"}
    BY DEF Returns, Errors, None
  <2>2. ~Dies(p)
    BY <2>1 DEF Dies
  <2>3. ~PowerLoss /\ ~Restart(p)
    BY <2>2, GoneShape DEF PowerLoss, Restart
  <2>4. ~UNCHANGED vars /\ ~Call(p)
    BY <2>1 DEF vars, ctl, Call, create, load, unload, destroy, disk_byte_size, extend, read,
       write, OnDisk
  <2>5. SystemCall(p)
    BY <2>1, <2>3, <2>4, StepOthers DEF Next, Others
  <2>6. pc[p] \in Busy /\ CreateOK(p) /\ should_exist[p] \in BOOLEAN /\ call[p] \in CallType
    BY <2>1, <2>5 DEF AllCreates, MgrOK, MgrTypeOK, ProcOK, SystemCall, Busy, Labels, Access1,
       Access2, Open, Created, Loaded, Stat1, Stat2, Truncate, TruncateSync, Write, WriteSync,
       Read, Size, Unlink
  <2>7. pc[p] \notin RwLabels \cup {"size", "unlink"}
    BY <2>1 DEF AllOps, OpOK
  <2>8. ~Loaded(p)
    BY <2>1 DEF Loaded, Leave, MgrOK, MgrTypeOK
  <2>9. ~Access1(p) /\ ~Created(p)
    BY <2>1, <2>2, DiesShape DEF Access1, Created, Goto, Again, MgrOK, MgrTypeOK
  <2>10. ~Access2(p)
    <3>1. ~Goto(p, "open") /\ ~BadResult(p)
      BY <2>1, <2>2, DiesShape DEF Goto, MgrOK, MgrTypeOK
    <3>2. ASSUME InitError(p, "DISK_ALREADY_EXISTS") PROVE FALSE
      <4>1. Dies(p) \/ Goes(p, {"access1"}) \/ RepliesError(p, "DISK_ALREADY_EXISTS")
        BY <2>6, <3>2, InitErrorShape
      <4> QED BY <2>1, <2>2, <4>1 DEF Goes, RepliesError, Replies
    <3>3. ~(should_exist[p] /\ dir[call[p].name] = None) /\ "exists" \notin again[p]
      BY <2>1, <2>6 DEF CreateOK
    <3> QED BY <3>1, <3>2, <3>3 DEF Access2
  <2>11. Open(p)
    BY <2>5, <2>7, <2>8, <2>9, <2>10 DEF SystemCall, RwLabels, Stat1, Stat2, Truncate,
       TruncateSync, Write, WriteSync, Read, Size, Unlink
  <2>12. AfterOpen(p) # "idle"
    BY <2>6 DEF AfterOpen, CallType, DiskOps
  <2>13. open_fds[p] = MaxFds /\ pc[p] = "open"
    BY <2>1, <2>11, <2>12 DEF Open, MgrOK, MgrTypeOK
  <2>14. ~should_exist[p]
    BY <2>1, <2>6, <2>13, BoundsAssumption DEF CreateOK
  <2> QED BY <2>1, <2>6, <2>13, <2>14 DEF CreateOK
<1>2. [][A]_vars <=> CreateAtomic
  BY DEF CreateAtomic
<1>3. Inv /\ [Next]_vars => Inv'
  BY StepOK, StepOps, StepCreate
<1>4. Init => Inv
  BY InitOK, InitOps, InitCreate
<1>5. Spec => [][A]_vars
  BY <1>1, <1>3, <1>4, PTL DEF Spec
<1> QED BY <1>2, <1>5
=============================================================================
