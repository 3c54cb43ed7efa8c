------------------------ MODULE DiskRefinementProofs ------------------------
(***************************************************************************)
(* One PosixDiskManager with a directory to itself implements DiskStore,   *)
(* for any number of disks and pages, whatever fails and whenever the      *)
(* process is killed or power lost.  Every step of the manager is mapped   *)
(* to a step of the abstract disk manager or to none.                      *)
(***************************************************************************)
EXTENDS DiskRefinement, DurabilityProofs

(* The process that owns the manager, for the mapping to speak of.         *)
Solo == OneManager /\ Procs # {}

(* There is one.                                                           *)
LEMMA TheOnlyProc ==
  ASSUME Solo
  PROVE TheProc \in Procs /\ \A p \in Procs : p = TheProc
  BY DEF Solo, OneManager, TheProc

-----------------------------------------------------------------------------
(* What the mapping adds to the invariant.                                 *)

(* Beyond its length a file reads as zeros, so extending it shows nothing. *)
ZeroBeyond == \A i \in Inodes : \A k \in PageIndex :
  k * PageSize >= file[i].size => file[i].page[k] = Zero

(* Between operations there is no call; init is told to create only by     *)
(* create, and its open creates a file only then.                          *)
PlaceOK(p) ==
  /\ pc[p] \in {"idle", "aborted"} => call[p] = NoCall
  /\ ~should_exist[p] => call[p].op = "create"
  /\ pc[p] = "open" /\ dir[call[p].name] = None => ~should_exist[p]

AllPlaces == \A p \in Procs : PlaceOK(p)

RInv == DInv /\ AllOps /\ ZeroBeyond /\ AllPlaces

(* truncate leaves zeros beyond the new length.                            *)
LEMMA ResizeZero ==
  ASSUME NEW f, NEW n \in Nat, NEW k \in PageIndex, k * PageSize >= Resize(f, n).size
  PROVE Resize(f, n).page[k] = Zero
<1>1. k \in Nat /\ k * PageSize \in Nat
  BY UModNat DEF PageIndex
<1>2. ~(k * PageSize < n)
  BY <1>1 DEF Resize
<1> QED BY <1>2 DEF Resize

(* A write extends the file over the page it writes.                       *)
LEMMA WriteAtZero ==
  ASSUME NEW f \in File, NEW c \in Int, NEW v, NEW len \in Nat \ {0}, NEW k \in PageIndex,
         \A j \in PageIndex : j * PageSize >= f.size => f.page[j] = Zero,
         k * PageSize >= WriteAt(f, Offset(c), v, len).size
  PROVE WriteAt(f, Offset(c), v, len).page[k] = Zero
<1> DEFINE g == WriteAt(f, Offset(c), v, len)
<1>1. k * PageSize \in Nat /\ f.size \in Nat /\ Offset(c) \in Nat /\ f.page \in [PageIndex -> Content]
  BY UModNat, OffsetType DEF PageIndex, File
<1>2. g.size >= f.size /\ g.size >= Offset(c) + len /\ g.size \in Nat
      /\ g.page = [f.page EXCEPT ![Slot(c)] = v]
  BY <1>1 DEF WriteAt, Slot
<1>3. Slot(c) * PageSize = Offset(c)
  BY SlotOffset
<1> HIDE DEF g
<1>4. k * PageSize >= f.size /\ k # Slot(c)
  BY <1>1, <1>2, <1>3 DEF g
<1> QED BY <1>1, <1>2, <1>4 DEF g

(* Every step leaves zeros beyond the ends of files.                       *)
LEMMA StepZero ==
  ASSUME RInv, [Next]_vars
  PROVE ZeroBeyond'
<1> USE DEF RInv, DInv, IInv
<1>1. CASE UNCHANGED file
  BY <1>1 DEF ZeroBeyond
<1>2. ASSUME NEW p \in Procs, Open(p) PROVE ZeroBeyond'
  <2>1. ASSUME NEW i \in Inodes, file' = [file EXCEPT ![i] = EmptyFile] PROVE ZeroBeyond'
    BY <2>1 DEF ZeroBeyond, FsTypeOK, EmptyFile
  <2> QED BY <1>1, <1>2, <2>1 DEF Open, CreateEntry, fs
<1>3. ASSUME NEW p \in Procs, Truncate(p) PROVE ZeroBeyond'
  <2>1. pc[p] \in Prepared
    BY <1>3 DEF Truncate, Prepared
  <2>2. dir[call[p].name] \in Inodes /\ NewSize(call[p].cursor) \in Nat
    BY <2>1, SoloFacts, OffsetType, UModNat
  <2>3. CASE file' = [file EXCEPT ![dir[call[p].name]] = Resize(@, NewSize(call[p].cursor))]
    BY <2>2, <2>3, ResizeZero DEF ZeroBeyond, FsTypeOK
  <2> QED BY <1>1, <1>3, <2>3 DEF Truncate, fs
<1>4. ASSUME NEW p \in Procs, Write(p) PROVE ZeroBeyond'
  <2>1. pc[p] \in Prepared
    BY <1>4 DEF Write, Prepared
  <2>2. /\ fd[p] \in Inodes /\ call[p].cursor \in Int /\ PageSize \in Nat \ {0}
        /\ \A len \in 1 .. (PageSize - 1) : len \in Nat \ {0}
    BY <2>1, SoloFacts, UModNat
  <2>3. ASSUME NEW v, NEW len \in Nat \ {0},
               file' = [file EXCEPT ![fd[p]] = WriteAt(@, Offset(call[p].cursor), v, len)]
        PROVE ZeroBeyond'
    <3>1. file[fd[p]] \in File
      BY <2>2 DEF FsTypeOK
    <3>2. ASSUME NEW i \in Inodes, NEW k \in PageIndex, k * PageSize >= file'[i].size
          PROVE file'[i].page[k] = Zero
      <4>1. CASE i # fd[p]
        BY <2>3, <3>2, <4>1 DEF ZeroBeyond, FsTypeOK
      <4>2. CASE i = fd[p]
        <5>1. file'[i] = WriteAt(file[i], Offset(call[p].cursor), v, len)
          BY <2>3, <4>2 DEF FsTypeOK
        <5> QED BY <2>2, <3>1, <3>2, <4>2, <5>1, WriteAtZero DEF ZeroBeyond
      <4> QED BY <4>1, <4>2
    <3> QED BY <3>2 DEF ZeroBeyond
  <2>4. CASE file' = [file EXCEPT ![fd[p]] = WriteAt(@, Offset(call[p].cursor), call[p].bytes, PageSize)]
    BY <2>2, <2>3, <2>4
  <2>5. CASE \E len \in 1 .. (PageSize - 1) :
               file' = [file EXCEPT ![fd[p]] = WriteAt(@, Offset(call[p].cursor), Torn, len)]
    BY <2>2, <2>3, <2>5
  <2> QED BY <1>1, <1>4, <2>4, <2>5 DEF Write
<1>5. ASSUME NEW p \in Procs, TruncateSync(p) \/ WriteSync(p) PROVE UNCHANGED file
  BY <1>5 DEF TruncateSync, WriteSync, sync, Flush, fs
<1>6. ASSUME NEW p \in Procs,
             \/ Access1(p) \/ Access2(p) \/ Created(p) \/ Loaded(p) \/ Stat1(p) \/ Stat2(p)
             \/ Read(p) \/ Size(p) \/ Unlink(p)
      PROVE UNCHANGED file
  BY <1>6 DEF Access1, Access2, Created, Loaded, Stat1, Stat2, Read, Size, Unlink, fs
<1>7. ASSUME NEW p \in Procs, Call(p) \/ Restart(p) PROVE UNCHANGED file
  BY <1>7 DEF Call, create, load, unload, destroy, write, read, disk_byte_size, extend,
     OnDisk, Start, Restart, fs
<1>8. CASE PowerLoss
  <2>1. PICK L, D, T : file' = [i \in Inodes |-> Survivor(i, L, D, T)]
    BY <1>8 DEF PowerLoss, LosePower
  <2>2. ASSUME NEW i \in Inodes, NEW k \in PageIndex, k * PageSize >= Survivor(i, L, D, T).size
        PROVE Survivor(i, L, D, T).page[k] = Zero
    <3>1. (IF i \in L THEN file[i].size ELSE media[i].size) \in Nat
      BY DEF FsTypeOK, File
    <3> QED BY <2>2, <3>1, ResizeZero DEF Survivor
  <2> QED BY <2>1, <2>2 DEF ZeroBeyond
<1>9. CASE UNCHANGED vars
  BY <1>1, <1>9 DEF vars, fs
<1> QED BY <1>1, <1>2, <1>3, <1>4, <1>5, <1>6, <1>7, <1>8, <1>9 DEF Next, SystemCall
(* The operation is over, or goes on elsewhere than in open.               *)
Ended(p) == pc'[p] \in {"idle", "aborted"} /\ call'[p] = NoCall /\ should_exist'[p] = TRUE
GoesOn(p) == pc'[p] \in Busy \ {"open"} /\ UNCHANGED <<call, should_exist>>

(* Either keeps what the place of the process says.                        *)
LEMMA PlaceKept ==
  ASSUME OneManager, AllPlaces, NEW p \in Procs, Ended(p) \/ GoesOn(p)
  PROVE AllPlaces'
<1>1. PlaceOK(p)'
  BY DEF AllPlaces, PlaceOK, Ended, GoesOn, Busy, Labels, NoCall, NamedCall, None
<1> QED BY <1>1 DEF OneManager, AllPlaces

(* The ends of operations.                                                 *)
LEMMA EndPlace ==
  ASSUME MgrOK, NEW p \in Procs, NEW res, NEW val, NEW page,
         \/ Return(p, res, val, page) \/ Fail(p, res) \/ Leave(p, res, val, page)
         \/ BadResult(p) \/ FailedAssert(p)
  PROVE Ended(p)
<1>1. CASE BadResult(p) \/ FailedAssert(p)
  BY <1>1 DEF BadResult, FailedAssert, Gone, Ended
<1>2. CASE Return(p, res, val, page) \/ Fail(p, res) \/ Leave(p, res, val, page)
  BY <1>2 DEF Return, Fail, Leave, MgrOK, MgrTypeOK, Ended
<1> QED BY <1>1, <1>2

(* The other control flow.                                                 *)
LEMMA GoPlace ==
  ASSUME MgrOK, NEW p \in Procs, NEW l \in Busy \ {"open"}, NEW site, NEW done,
         \/ Goto(p, l) \/ Again(p, site, done, l)
         \/ SecondSize(p, site)
  PROVE GoesOn(p)
  BY DEF Goto, Again, SecondSize, MgrOK, MgrTypeOK, GoesOn, Busy, Labels

(* What a macro does with an error, and prepare_rw with success.           *)
LEMMA ErrorPlace ==
  ASSUME MgrOK, NEW p \in Procs, NEW e,
         \/ InitError(p, e) \/ SizeError(p, e) \/ RwError(p, e) \/ PrepareError(p, e)
         \/ PrepareOk(p)
  PROVE Ended(p) \/ GoesOn(p)
<1>0. {"access1", "stat1", "rw"} \subseteq Busy \ {"open"}
  BY DEF Busy, Labels
<1>1. ASSUME SizeError(p, e) PROVE Ended(p) \/ GoesOn(p)
  BY <1>0, <1>1, EndPlace, GoPlace DEF SizeError
<1>2. ASSUME InitError(p, e) PROVE Ended(p) \/ GoesOn(p)
  BY <1>0, <1>1, <1>2, EndPlace, GoPlace DEF InitError
<1>3. ASSUME RwError(p, e) PROVE Ended(p) \/ GoesOn(p)
  BY <1>0, <1>3, EndPlace, GoPlace DEF RwError
<1>4. ASSUME PrepareError(p, e) PROVE Ended(p) \/ GoesOn(p)
  BY <1>0, <1>3, <1>4, GoPlace DEF PrepareError
<1>5. ASSUME PrepareOk(p) PROVE Ended(p) \/ GoesOn(p)
  <2>1. CASE "prepare_rw" \notin again[p]
    BY <1>0, <1>5, <2>1 DEF PrepareOk, GoesOn, MgrOK, MgrTypeOK
  <2> QED BY <1>5, <2>1, EndPlace DEF PrepareOk
<1> QED BY <1>1, <1>2, <1>3, <1>4, <1>5

(* Every system call keeps what the place of the process says.             *)
LEMMA SystemCallPlace ==
  ASSUME OneManager, RInv, NEW p \in Procs, SystemCall(p)
  PROVE AllPlaces'
<1> USE DEF RInv, DInv, IInv
<1>0. /\ MgrOK
      /\ {"access1", "access2", "stat1", "stat2", "truncate", "tsync", "wsync", "unlink"}
           \subseteq Busy \ {"open"}
  BY DEF Busy, Labels
<1>1. SUFFICES ASSUME ~(Ended(p) \/ GoesOn(p)) PROVE AllPlaces'
  BY PlaceKept
<1>2. ~Access1(p) /\ ~Stat1(p) /\ ~Stat2(p) /\ ~Truncate(p) /\ ~TruncateSync(p)
  BY <1>0, <1>1, GoPlace, EndPlace, ErrorPlace DEF Access1, Stat1, Stat2, Truncate, TruncateSync
<1>3. ~Write(p) /\ ~WriteSync(p) /\ ~Read(p) /\ ~Unlink(p)
  BY <1>0, <1>1, GoPlace, EndPlace, ErrorPlace DEF Write, WriteSync, Read, Unlink
<1>4. ~Size(p)
  BY <1>0, <1>1, GoPlace, EndPlace, ErrorPlace DEF Size, SizeValue, extend_result
<1>5. ~Loaded(p)
  BY <1>0, <1>1, EndPlace DEF Loaded
<1>6. CASE Access2(p)
  <2>1. Goto(p, "open") /\ should_exist[p] = (dir[call[p].name] # None) /\ UNCHANGED fs
    BY <1>0, <1>1, <1>6, EndPlace, ErrorPlace DEF Access2
  <2>2. PlaceOK(p)'
    BY <2>1 DEF Goto, AllPlaces, PlaceOK, MgrOK, MgrTypeOK, fs
  <2> QED BY <2>2 DEF OneManager, AllPlaces
<1>7. CASE Open(p)
  <2>1. call[p] \in CallType /\ should_exist[p] \in BOOLEAN
    BY <1>7 DEF Open, MgrOK, MgrTypeOK, ProcOK, Busy, Labels
  <2>2. AfterOpen(p) \in Busy \ {"open"}
    BY <2>1 DEF AfterOpen, CallType, DiskOps, Busy, Labels
  <2>3. ASSUME pc' = [pc EXCEPT ![p] = AfterOpen(p)], UNCHANGED <<call, should_exist>>
        PROVE GoesOn(p)
    BY <2>2, <2>3 DEF GoesOn, MgrOK, MgrTypeOK
  <2> QED BY <1>0, <1>1, <1>7, <2>3, ErrorPlace DEF Open
<1>8. CASE Created(p)
  <2>1. pc'[p] = "access1" /\ should_exist'[p] = TRUE
    BY <1>0, <1>1, <1>8, EndPlace DEF Created, MgrOK, MgrTypeOK
  <2>2. PlaceOK(p)'
    BY <2>1 DEF PlaceOK
  <2> QED BY <2>2 DEF OneManager, AllPlaces
<1> QED BY <1>2, <1>3, <1>4, <1>5, <1>6, <1>7, <1>8 DEF SystemCall

(* Every step does.                                                        *)
LEMMA StepPlace ==
  ASSUME OneManager, RInv, [Next]_vars
  PROVE AllPlaces'
<1> USE DEF RInv, DInv, IInv
<1>1. ASSUME NEW p \in Procs, NEW c, NEW exist \in BOOLEAN, Start(p, c, exist),
             ~exist => c.op = "create"
      PROVE AllPlaces'
  <2>1. pc'[p] = "access1" /\ call'[p] = c /\ should_exist'[p] = exist
    BY <1>1 DEF Start, MgrOK, MgrTypeOK
  <2>2. PlaceOK(p)'
    BY <1>1, <2>1 DEF PlaceOK
  <2> QED BY <2>2 DEF OneManager, AllPlaces
<1>2. ASSUME NEW p \in Procs, Call(p) PROVE AllPlaces'
  <2>1. CASE \E n \in Names : create(p, n) \/ load(p, n)
    BY <1>1, <2>1 DEF create, load, NamedCall
  <2>2. CASE \E d \in Ids : unload(p, d)
    BY <2>2, EndPlace, PlaceKept DEF unload
  <2>3. ASSUME NEW op, NEW d, NEW cursor, NEW bytes, OnDisk(p, op, d, cursor, bytes)
        PROVE AllPlaces'
    BY <1>1, <2>3, EndPlace, PlaceKept DEF OnDisk
  <2> QED BY <1>2, <2>1, <2>2, <2>3 DEF Call, destroy, disk_byte_size, extend, read, write
<1>3. ASSUME NEW p \in Procs, Restart(p) PROVE AllPlaces'
  BY <1>3, PlaceKept DEF Restart, Gone, Ended
<1>4. CASE PowerLoss
  BY <1>4 DEF PowerLoss, Gone, AllPlaces, PlaceOK
<1>5. CASE UNCHANGED vars
  BY <1>5 DEF vars, fs, ctl, AllPlaces, PlaceOK
<1> QED BY <1>2, <1>3, <1>4, <1>5, SystemCallPlace DEF Next

(* The invariant holds throughout.                                         *)
LEMMA RInvariant == OneManager /\ NoWrapCursors => (Spec => []RInv)
<1> SUFFICES ASSUME OneManager, NoWrapCursors PROVE Spec => []RInv
  OBVIOUS
<1>1. Init => RInv
  <2> SUFFICES ASSUME Init PROVE ZeroBeyond /\ AllPlaces
    BY InitDInv, InitOps DEF RInv
  <2>1. ZeroBeyond
    BY DEF Init, FsInit, ZeroBeyond, EmptyFile
  <2>2. AllPlaces
    BY DEF Init, AllPlaces, PlaceOK
  <2> QED BY <2>1, <2>2
<1>2. RInv /\ [Next]_vars => RInv'
  <2> SUFFICES ASSUME RInv, [Next]_vars PROVE RInv'
    OBVIOUS
  <2>1. DInv' /\ AllOps'
    BY StepDInv, StepOps DEF RInv, DInv
  <2> QED BY <2>1, StepZero, StepPlace DEF RInv
<1> QED BY <1>1, <1>2, PTL DEF Spec
-----------------------------------------------------------------------------
(* The mapped state.                                                       *)

(* What a name shows: nothing, or the pages of its file.                   *)
LEMMA DiskView ==
  ASSUME NEW n \in Names
  PROVE /\ dir[n] = None => AbsDisk[n] = Store!NoDisk
        /\ dir[n] # None => /\ AbsDisk[n] = [k \in PageIndex |-> file[dir[n]].page[k]]
                            /\ AbsDisk[n] # Store!NoDisk
<1>1. AbsDisk[n] = DiskOf(n)
  BY DEF AbsDisk
<1>2. CASE dir[n] = None
  BY <1>1, <1>2 DEF DiskOf, Store!NoDisk
<1>3. CASE dir[n] # None
  <2>1. DiskOf(n) = [k \in PageIndex |-> file[dir[n]].page[k]]
    BY <1>3 DEF DiskOf
  <2>2. 0 \in DOMAIN DiskOf(n)
    BY <2>1, UModNat DEF PageIndex
  <2>3. 0 \notin DOMAIN Store!NoDisk
    BY DEF Store!NoDisk
  <2> QED BY <1>1, <1>3, <2>1, <2>2, <2>3
<1> QED BY <1>2, <1>3

(* The same after a step.                                                  *)
LEMMA DiskViewNext ==
  ASSUME NEW n \in Names
  PROVE /\ dir'[n] = None => AbsDisk'[n] = Store!NoDisk
        /\ dir'[n] # None => /\ AbsDisk'[n] = [k \in PageIndex |-> file'[dir'[n]].page[k]]
                             /\ AbsDisk'[n] # Store!NoDisk
<1>1. AbsDisk'[n] = DiskOf(n)'
  BY DEF AbsDisk
<1>2. CASE dir'[n] = None
  BY <1>1, <1>2 DEF DiskOf, Store!NoDisk
<1>3. CASE dir'[n] # None
  <2>1. DiskOf(n)' = [k \in PageIndex |-> file'[dir'[n]].page[k]]
    BY <1>3 DEF DiskOf
  <2>2. 0 \in DOMAIN DiskOf(n)'
    BY <2>1, UModNat DEF PageIndex
  <2>3. 0 \notin DOMAIN Store!NoDisk
    BY DEF Store!NoDisk
  <2> QED BY <1>1, <1>3, <2>1, <2>2, <2>3
<1> QED BY <1>2, <1>3

(* A step that touches no directory entry and no file shows the same.      *)
LEMMA QuietDisk ==
  ASSUME UNCHANGED <<dir, file>>
  PROVE AbsDisk' = AbsDisk
  BY DEF AbsDisk, DiskOf

(* No call is no request.                                                  *)
LEMMA NoCallRequest == RequestOf(NoCall) = Store!NoRequest
<1>1. Slot(0) = 0
  BY UModNat DEF Slot, Offset
<1> QED BY <1>1 DEF RequestOf, NoCall, NamedCall, Store!NoRequest

(* A call is a request.                                                    *)
LEMMA CallRequest ==
  ASSUME NEW c \in CallType
  PROVE RequestOf(c) \in Store!Request /\ RequestOf(c) # Store!NoRequest
<1>0. c.cursor \in Int
  <2>1. c.cursor \in Cursors \/ c.cursor = 0
    BY DEF CallType
  <2>2. \A x \in Cursors : x \in Int
    BY CursorsAssumption
  <2> QED BY <2>1, <2>2
<1>1. Slot(c.cursor) \in PageIndex
  BY <1>0, OffsetType
<1>2. RequestOf(c) \in Store!Request
  BY <1>1 DEF CallType, RequestOf, Store!Request, Content, DiskOps
<1>3. RequestOf(c).op # None
  BY DEF CallType, RequestOf, DiskOps, None
<1> QED BY <1>2, <1>3 DEF Store!NoRequest

(* Inside an operation there is a request, and it is the call's.           *)
LEMMA BusyRequest ==
  ASSUME Solo, IInv, pc[TheProc] \in Busy
  PROVE /\ call[TheProc] \in CallType /\ AbsReq # Store!NoRequest
        /\ AbsReq.op = call[TheProc].op /\ AbsReq.name = call[TheProc].name
        /\ AbsReq.id = call[TheProc].id /\ AbsReq.page = Slot(call[TheProc].cursor)
        /\ AbsReq.bytes = call[TheProc].bytes
  BY TheOnlyProc, CallRequest DEF IInv, MgrOK, ProcOK, AbsReq, RequestOf

(* Between operations there is none.                                       *)
LEMMA IdleRequest ==
  ASSUME Solo, AllPlaces, pc[TheProc] \in {"idle", "aborted"}
  PROVE AbsReq = Store!NoRequest
  BY TheOnlyProc, NoCallRequest DEF AllPlaces, PlaceOK, AbsReq

-----------------------------------------------------------------------------
(* The four shapes of a step, mapped.                                      *)

AbsRest == <<AbsSafe, AbsIds, AbsIssued>>

(* Going on changes nothing but perhaps the disks.                         *)
LEMMA GoesMaps ==
  ASSUME Solo, IInv, NEW L, Goes(TheProc, L), Store!Effect
  PROVE Store!Next
<1>1. UNCHANGED <<acked, call, reply, disks, cur_disk_id>> /\ pc[TheProc] \in Busy
  BY DEF Goes, mgr
<1>2. UNCHANGED <<AbsRest, AbsReq, AbsAns>>
  BY <1>1 DEF AbsRest, AbsSafe, AbsIds, AbsIssued, AbsReq, AbsAns, RequestOf
<1>3. AbsReq # Store!NoRequest
  BY <1>1, BusyRequest
<1>4. Store!Work
  BY <1>2, <1>3 DEF Store!Work, AbsRest
<1> QED BY <1>4 DEF Store!Next

(* What a return does to the mapped state.                                 *)
LEMMA RepliesMaps ==
  ASSUME Solo, NEW res, NEW val, NEW page, Replies(TheProc, res, val, page)
  PROVE /\ UNCHANGED AbsRest /\ AbsReq' = Store!NoRequest
        /\ AbsAns' = [res |-> res, val |-> val, page |-> page]
<1>1. /\ UNCHANGED <<acked, disks, cur_disk_id>> /\ call'[TheProc] = NoCall
      /\ reply'[TheProc] = [res |-> res, val |-> val, page |-> page]
  BY DEF Replies, mgr
<1>2. RequestOf(call'[TheProc]) = Store!NoRequest
  BY <1>1, NoCallRequest
<1>3. AbsReq' = RequestOf(call'[TheProc])
  BY DEF AbsReq, RequestOf, Slot, Offset
<1> QED BY <1>1, <1>2, <1>3 DEF AbsRest, AbsSafe, AbsIds, AbsIssued, AbsAns

(* Returning an error is an excuse.                                        *)
LEMMA ErrorMaps ==
  ASSUME Solo, IInv, pc[TheProc] \in Busy, NEW e \in Errors, RepliesError(TheProc, e),
         Store!Effect,
         e = "DISK_ALREADY_EXISTS" =>
           call[TheProc].op = "create" /\ AbsDisk[call[TheProc].name] # Store!NoDisk,
         e = "DISK_NOT_FOUND" => AbsDisk[call[TheProc].name] = Store!NoDisk
  PROVE Store!Next
<1>1. UNCHANGED AbsRest /\ AbsReq' = Store!NoRequest /\ AbsAns'.res = e
  BY RepliesMaps DEF RepliesError
<1>2. e \notin {"ok", None} \cup Deaths
  BY DEF Errors, Deaths, None
<1>3. AbsReq # Store!NoRequest /\ AbsReq.op = call[TheProc].op /\ AbsReq.name = call[TheProc].name
  BY BusyRequest
<1>4. Store!Excuse(AbsAns')
  BY <1>1, <1>3 DEF Store!Excuse, AbsRest
<1>5. Store!Respond
  BY <1>1, <1>2, <1>3, <1>4 DEF Store!Respond
<1> QED BY <1>5 DEF Store!Next

(* Returning Ok is a promise, when it is kept.                             *)
LEMMA OkMaps ==
  ASSUME Solo, IInv, pc[TheProc] \in Busy, AbsReq' = Store!NoRequest, AbsAns'.res = "ok",
         Store!Effect, Store!Promise(AbsAns')
  PROVE Store!Next
<1>1. Store!Respond
  BY BusyRequest DEF Store!Respond
<1> QED BY <1>1 DEF Store!Next

(* The end of the process is its end.                                      *)
LEMMA DiesMaps ==
  ASSUME Solo, Dies(TheProc), Store!Effect
  PROVE Store!Next
<1>1. /\ acked' = acked /\ call'[TheProc] = NoCall
      /\ disks'[TheProc] = [d \in Ids |-> None] /\ cur_disk_id'[TheProc] = 0
      /\ reply'[TheProc].res \in {"bad_result", "failed_assert", None}
  BY DEF Dies
<1>2. AbsReq' = Store!NoRequest
  BY <1>1, NoCallRequest DEF AbsReq, RequestOf, Slot, Offset
<1>3. AbsIds' = [d \in Ids |-> None] /\ AbsIssued' = {} /\ AbsSafe' = AbsSafe
  BY <1>1 DEF AbsIds, AbsIssued, AbsSafe
<1>4. AbsAns'.res \in {None} \cup Deaths
  BY <1>1 DEF AbsAns, Deaths
<1>5. Store!Die
  BY <1>2, <1>3, <1>4 DEF Store!Die
<1> QED BY <1>5 DEF Store!Next
-----------------------------------------------------------------------------
(* The steps of the manager, mapped.                                       *)

(* A step that shows the disks nothing, in a shape with an error that says *)
(* nothing of them.                                                        *)
LEMMA QuietMaps ==
  ASSUME Solo, IInv, pc[TheProc] \in Busy, AbsDisk' = AbsDisk,
         \/ Dies(TheProc)
         \/ \E L : Goes(TheProc, L)
         \/ \E e \in Errors \ {"DISK_ALREADY_EXISTS", "DISK_NOT_FOUND"} : RepliesError(TheProc, e)
  PROVE Store!Next
<1>1. Store!Effect
  BY DEF Store!Effect
<1> QED BY <1>1, DiesMaps, GoesMaps, ErrorMaps

(* exists: its error tells whether there is such a disk.                   *)
LEMMA AccessMaps ==
  ASSUME Solo, RInv, Access1(TheProc) \/ Access2(TheProc)
  PROVE Store!Next
<1> DEFINE p == TheProc
           n == call[p].name
<1> USE DEF RInv, DInv, IInv
<1>1. p \in Procs /\ pc[p] \in Busy /\ UNCHANGED <<dir, file>> /\ MgrOK
  BY TheOnlyProc DEF Access1, Access2, Busy, Labels, fs
<1>2. AbsDisk' = AbsDisk /\ Store!Effect
  BY <1>1, QuietDisk DEF Store!Effect
<1>3. n \in Names /\ (~should_exist[p] => call[p].op = "create")
  BY <1>1 DEF MgrOK, ProcOK, CallType, AllPlaces, PlaceOK
<1> HIDE DEF p
<1>4. ASSUME NEW e \in Errors, InitError(p, e),
             e = "DISK_ALREADY_EXISTS" => ~should_exist[p] /\ dir[n] # None,
             e = "DISK_NOT_FOUND" => dir[n] = None
      PROVE Store!Next
  <2>1. Dies(p) \/ Goes(p, {"access1"}) \/ RepliesError(p, e)
    BY <1>1, <1>4, InitErrorShape
  <2>2. CASE Dies(p) \/ Goes(p, {"access1"})
    BY <1>1, <1>2, <2>2, QuietMaps DEF p
  <2>3. CASE RepliesError(p, e)
    <3>1. /\ e = "DISK_ALREADY_EXISTS" => call[p].op = "create" /\ AbsDisk[n] # Store!NoDisk
          /\ e = "DISK_NOT_FOUND" => AbsDisk[n] = Store!NoDisk
      BY <1>3, <1>4, DiskView
    <3> QED BY <1>1, <1>2, <2>3, <3>1, ErrorMaps DEF p
  <2> QED BY <2>1, <2>2, <2>3
<1>5. {"DISK_ALREADY_EXISTS", "DISK_NOT_FOUND", "UNKOWN_ERROR"} \subseteq Errors
  BY DEF Errors
<1>6. CASE Goto(p, "access2") \/ Again(p, "exists", {}, "access2") \/ Goto(p, "open")
  <2>1. \E L : Goes(p, L)
    BY <1>1, <1>6, GotoShape
  <2> QED BY <1>1, <1>2, <2>1, QuietMaps DEF p
<1>7. CASE BadResult(p)
  BY <1>1, <1>2, <1>7, DiesShape, QuietMaps DEF p
<1>8. CASE Access1(p)
  BY <1>6, <1>8 DEF Access1
<1>9. CASE Access2(p)
  <2>1. CASE dir[n] # None /\ ~should_exist[p] /\ InitError(p, "DISK_ALREADY_EXISTS")
    BY <1>4, <1>5, <2>1
  <2>2. CASE dir[n] = None /\ InitError(p, "DISK_NOT_FOUND")
    BY <1>4, <1>5, <2>2
  <2>3. CASE InitError(p, "UNKOWN_ERROR")
    BY <1>4, <1>5, <2>3
  <2> QED BY <1>6, <1>7, <1>9, <2>1, <2>2, <2>3 DEF Access2
<1> QED BY <1>8, <1>9 DEF p

(* Creating a file, with an inode nobody refers to, shows one new disk.    *)
LEMMA CreateDisk ==
  ASSUME FsTypeOK, NEW n \in Names, NEW i \in Inodes, CreateEntry(n, i), dir[n] = None,
         \A m \in Names : dir[m] # i
  PROVE /\ AbsDisk[n] = Store!NoDisk
        /\ AbsDisk' = [AbsDisk EXCEPT ![n] = [k \in PageIndex |-> Zero]]
<1>1. AbsDisk[n] = Store!NoDisk
  BY DiskView
<1>2. dir' = [dir EXCEPT ![n] = i] /\ file' = [file EXCEPT ![i] = EmptyFile] /\ i # None
  BY InodesAssumption DEF CreateEntry
<1>3. DiskOf(n)' = [k \in PageIndex |-> Zero]
  <2>1. dir'[n] = i /\ file'[i] = EmptyFile
    BY <1>2 DEF FsTypeOK
  <2>2. DiskOf(n)' = [k \in PageIndex |-> EmptyFile.page[k]]
    BY <1>2, <2>1 DEF DiskOf
  <2> QED BY <2>2 DEF EmptyFile
<1>4. ASSUME NEW m \in Names, m # n PROVE DiskOf(m)' = DiskOf(m)
  <2>1. dir'[m] = dir[m] /\ (dir[m] # None => file'[dir[m]] = file[dir[m]])
    BY <1>2, <1>4 DEF FsTypeOK
  <2> QED BY <2>1 DEF DiskOf
<1> QED BY <1>1, <1>3, <1>4 DEF AbsDisk

(* open: it creates the disk, when create asked for it.                    *)
LEMMA OpenMaps ==
  ASSUME Solo, RInv, Open(TheProc)
  PROVE Store!Next
<1> DEFINE p == TheProc
           n == call[p].name
           Opened == pc' = [pc EXCEPT ![p] = AfterOpen(p)] /\ UNCHANGED <<reply, mgr, call, acked>>
<1> USE DEF RInv, DInv, IInv
<1>1. p \in Procs /\ pc[p] \in Busy /\ pc[p] = "open" /\ MgrOK
  BY TheOnlyProc DEF Open, Busy, Labels
<1>2. n \in Names /\ (dir[n] = None => call[p].op = "create")
  BY <1>1 DEF MgrOK, ProcOK, CallType, AllPlaces, PlaceOK
<1>3. ASSUME Opened, Store!Effect PROVE Store!Next
  <2>1. UNCHANGED <<AbsRest, AbsReq, AbsAns>>
    BY <1>3 DEF mgr, AbsRest, AbsSafe, AbsIds, AbsIssued, AbsReq, AbsAns, RequestOf
  <2>2. Store!Work
    BY <1>1, <1>3, <2>1, BusyRequest DEF Store!Work, AbsRest
  <2> QED BY <2>2 DEF Store!Next
<1>4. CASE UNCHANGED fs /\ Opened
  BY <1>3, <1>4, QuietDisk DEF fs, Store!Effect
<1>5. ASSUME NEW i \in Inodes, \A m \in Names : dir[m] # i, dir[n] = None, CreateEntry(n, i), Opened
      PROVE Store!Next
  <2>1. /\ AbsDisk[n] = Store!NoDisk
        /\ AbsDisk' = [AbsDisk EXCEPT ![n] = [k \in PageIndex |-> Zero]]
    BY <1>2, <1>5, CreateDisk
  <2>2. AbsReq.op = "create" /\ AbsReq.name = n
    BY <1>1, <1>2, <1>5, BusyRequest
  <2>3. Store!Effect
    BY <2>1, <2>2 DEF Store!Effect
  <2> QED BY <1>3, <1>5, <2>3
<1>6. CASE UNCHANGED fs /\ InitError(p, "CREATE_DISK_ERROR")
  <2>1. Dies(p) \/ Goes(p, {"access1"}) \/ RepliesError(p, "CREATE_DISK_ERROR")
    BY <1>1, <1>6, InitErrorShape
  <2>2. "CREATE_DISK_ERROR" \in Errors \ {"DISK_ALREADY_EXISTS", "DISK_NOT_FOUND"}
    BY DEF Errors
  <2> QED BY <1>1, <1>6, <2>1, <2>2, QuietDisk, QuietMaps DEF fs
<1> HIDE DEF p
<1>7. \/ UNCHANGED fs /\ Opened
      \/ \E i \in Inodes : (\A m \in Names : dir[m] # i) /\ dir[n] = None /\ CreateEntry(n, i) /\ Opened
      \/ UNCHANGED fs /\ InitError(p, "CREATE_DISK_ERROR")
  BY DEF Open, p
<1> QED BY <1>4, <1>5, <1>6, <1>7
(* A file changes: the disk it belongs to shows its pages, the others stay *)
(* as they are.                                                            *)
LEMMA FileDisk ==
  ASSUME DInv, NEW n \in Names, dir[n] # None, NEW f, dir' = dir,
         file' = [file EXCEPT ![dir[n]] = f]
  PROVE AbsDisk' = [AbsDisk EXCEPT ![n] = [k \in PageIndex |-> f.page[k]]]
<1> USE DEF DInv, IInv
<1>1. file'[dir[n]] = f
  BY DEF FsTypeOK
<1>2. DiskOf(n)' = [k \in PageIndex |-> f.page[k]]
  BY <1>1 DEF DiskOf
<1>3. ASSUME NEW m \in Names, m # n PROVE DiskOf(m)' = DiskOf(m)
  <2>1. dir[m] # None => dir[m] # dir[n] /\ dir[m] \in Inodes
    BY <1>3 DEF OneName, FsTypeOK
  <2>2. dir[m] # None => file'[dir[m]] = file[dir[m]]
    BY <2>1 DEF FsTypeOK
  <2> QED BY <2>2 DEF DiskOf
<1> QED BY <1>2, <1>3 DEF AbsDisk

(* prepare_rw: its truncate only adds zeros where zeros already show.      *)
LEMMA PrepareMaps ==
  ASSUME Solo, RInv,
         Stat1(TheProc) \/ Stat2(TheProc) \/ Truncate(TheProc) \/ TruncateSync(TheProc)
  PROVE Store!Next
<1> DEFINE p == TheProc
           n == call[p].name
           size == NewSize(call[p].cursor)
<1> USE DEF RInv, DInv, IInv
<1>1. p \in Procs /\ pc[p] \in Busy /\ MgrOK
  BY TheOnlyProc DEF Stat1, Stat2, Truncate, TruncateSync, Busy, Labels
<1>2. {"DISK_EXCEEDS_MAX_SIZE", "GET_DISK_SIZE_ERROR"} \subseteq
        Errors \ {"DISK_ALREADY_EXISTS", "DISK_NOT_FOUND"}
  BY DEF Errors
<1>3. /\ \/ Dies(p) \/ \E L : Goes(p, L)
         \/ \E e \in {"DISK_EXCEEDS_MAX_SIZE", "GET_DISK_SIZE_ERROR"} : RepliesError(p, e)
      /\ \/ UNCHANGED <<dir, file>>
         \/ /\ pc[p] = "truncate" /\ Found(p)
            /\ file' = [file EXCEPT ![dir[n]] = Resize(@, size)] /\ dir' = dir
  <2>1. CASE Stat1(p)
    BY <1>1, <2>1, GotoShape, DiesShape DEF Stat1, fs
  <2>2. CASE Stat2(p)
    <3>1. CASE \E e \in {"DISK_EXCEEDS_MAX_SIZE", "GET_DISK_SIZE_ERROR"} : PrepareError(p, e)
      BY <1>1, <2>2, <3>1, PrepareErrorShape DEF Stat2, fs
    <3> QED BY <1>1, <2>2, <3>1, GotoShape, DiesShape, PrepareOkShape DEF Stat2, fs
  <2>3. CASE Truncate(p)
    BY <1>1, <2>3, GotoShape, PrepareOkShape DEF Truncate, fs
  <2>4. CASE TruncateSync(p)
    BY <1>1, <2>4, GotoShape, DiesShape, PrepareOkShape DEF TruncateSync, sync, Flush, fs
  <2> QED BY <2>1, <2>2, <2>3, <2>4
<1>4. AbsDisk' = AbsDisk
  <2>1. CASE UNCHANGED <<dir, file>>
    BY <2>1, QuietDisk
  <2>2. CASE pc[p] = "truncate" /\ Found(p) /\ dir' = dir
             /\ file' = [file EXCEPT ![dir[n]] = Resize(@, size)]
    <3> DEFINE f == file[dir[n]]
    <3>1. n \in Names /\ dir[n] # None /\ dir[n] \in Inodes /\ size \in Nat
      <4>1. pc[p] \in Prepared
        BY <2>2 DEF Prepared
      <4> QED BY <1>1, <2>2, <4>1, SoloFacts, OffsetType, UModNat DEF Found
    <3>2. f.size < size /\ f.size \in Nat
      BY <1>1, <2>2, <3>1 DEF AllSolo, SoloOK, TheFile, FsTypeOK, File
    <3>3. file' = [file EXCEPT ![dir[n]] = Resize(f, size)]
      BY <2>2
    <3>4. AbsDisk' = [AbsDisk EXCEPT ![n] = [k \in PageIndex |-> Resize(f, size).page[k]]]
      <4> HIDE DEF n, f, size
      <4> QED BY <2>2, <3>1, <3>3, FileDisk
    <3>5. ASSUME NEW k \in PageIndex PROVE Resize(f, size).page[k] = f.page[k]
      <4>1. k * PageSize \in Nat
        BY UModNat DEF PageIndex
      <4>2. ~(k * PageSize < size) => f.page[k] = Zero
        BY <3>1, <3>2, <4>1 DEF ZeroBeyond
      <4>3. Resize(f, size).page[k] = IF k * PageSize < size THEN f.page[k] ELSE Zero
        BY DEF Resize
      <4> QED BY <4>2, <4>3
    <3>6. AbsDisk[n] = [k \in PageIndex |-> f.page[k]]
      BY <3>1, DiskView
    <3>7. [k \in PageIndex |-> Resize(f, size).page[k]] = [k \in PageIndex |-> f.page[k]]
      BY <3>5
    <3> QED BY <3>1, <3>4, <3>6, <3>7 DEF AbsDisk
  <2> QED BY <1>3, <2>1, <2>2
<1> QED BY <1>1, <1>2, <1>3, <1>4, QuietMaps

(* write: the page is the bytes asked for, or torn.                        *)
LEMMA WriteMaps ==
  ASSUME Solo, RInv, Write(TheProc)
  PROVE Store!Next
<1> DEFINE p == TheProc
           n == call[p].name
           off == Offset(call[p].cursor)
           k == Slot(call[p].cursor)
           f == file[dir[n]]
<1> USE DEF RInv, DInv, IInv
<1>1. p \in Procs /\ pc[p] \in Prepared /\ MgrOK /\ call[p].op = "write"
  BY TheOnlyProc DEF Write, Prepared
<1>2. pc[p] \in Busy /\ n \in Names /\ dir[n] # None /\ dir[n] \in Inodes /\ fd[p] = dir[n]
      /\ call[p].cursor \in Int
  BY <1>1, SoloFacts DEF Found
<1>3. AbsReq.op = "write" /\ AbsReq.name = n /\ AbsReq.page = k /\ AbsReq.bytes = call[p].bytes
  BY <1>1, <1>2, BusyRequest
<1>4. ASSUME NEW v \in {call[p].bytes, Torn}, NEW len,
             file' = [file EXCEPT ![fd[p]] = WriteAt(@, off, v, len)], dir' = dir
      PROVE Store!Effect
  <2>1. file' = [file EXCEPT ![dir[n]] = WriteAt(f, off, v, len)]
    BY <1>2, <1>4
  <2>2. AbsDisk' = [AbsDisk EXCEPT ![n] = [j \in PageIndex |-> WriteAt(f, off, v, len).page[j]]]
    <3> HIDE DEF n, f, off
    <3> QED BY <1>2, <1>4, <2>1, FileDisk
  <2>3. WriteAt(f, off, v, len).page = [f.page EXCEPT ![k] = v] /\ f.page \in [PageIndex -> Content]
    BY <1>2 DEF WriteAt, Slot, FsTypeOK, File
  <2>4. AbsDisk[n] = [j \in PageIndex |-> f.page[j]] /\ AbsDisk[n] # Store!NoDisk
    BY <1>2, DiskView
  <2>5. [j \in PageIndex |-> WriteAt(f, off, v, len).page[j]] = [AbsDisk[n] EXCEPT ![k] = v]
    BY <2>3, <2>4
  <2>6. AbsDisk' = [AbsDisk EXCEPT ![n][k] = v]
    BY <2>2, <2>5
  <2> QED BY <1>3, <1>4, <2>4, <2>6 DEF Store!Effect
<1> HIDE DEF off
<1>5. Store!Effect
  <2>1. CASE UNCHANGED file
    BY <2>1, QuietDisk DEF Write, Store!Effect
  <2> QED BY <1>4, <2>1 DEF Write, off
<1>6. (\E L : Goes(p, L)) \/ RepliesError(p, "UNKOWN_ERROR")
  <2>1. CASE Goto(p, "wsync")
    BY <1>1, <1>2, <2>1, GotoShape
  <2>2. CASE RwError(p, "UNKOWN_ERROR")
    BY <1>1, <1>2, <2>2, RwErrorShape
  <2> QED BY <2>1, <2>2 DEF Write
<1>7. "UNKOWN_ERROR" \in Errors
  BY DEF Errors
<1> QED BY <1>2, <1>5, <1>6, <1>7, GoesMaps, ErrorMaps
(* When the call is over so is the request.                                *)
LEMMA EndRequest ==
  ASSUME call'[TheProc] = NoCall
  PROVE AbsReq' = Store!NoRequest
  BY NoCallRequest DEF AbsReq, RequestOf, Slot, Offset

(* Acknowledging a page makes it safe, and giving it up takes it out.      *)
LEMMA SafePages ==
  ASSUME MgrTypeOK, NEW n \in Names, NEW k \in PageIndex, NEW v,
         acked' = [acked EXCEPT ![n][k] = v]
  PROVE AbsSafe' = IF v = Unknown THEN AbsSafe \ {<<n, k>>} ELSE AbsSafe \cup {<<n, k>>}
<1>1. ASSUME NEW m \in Names, NEW j \in PageIndex
      PROVE acked'[m][j] = IF m = n /\ j = k THEN v ELSE acked[m][j]
  BY DEF MgrTypeOK
<1>2. ASSUME NEW s \in Names \X PageIndex
      PROVE s \in AbsSafe' <=> IF s = <<n, k>> THEN v # Unknown ELSE s \in AbsSafe
  <2>1. s[1] \in Names /\ s[2] \in PageIndex /\ s = <<s[1], s[2]>>
    OBVIOUS
  <2>2. s = <<n, k>> <=> s[1] = n /\ s[2] = k
    BY <2>1
  <2>3. s \in AbsSafe' <=> acked'[s[1]][s[2]] # Unknown
    BY DEF AbsSafe
  <2>4. s \in AbsSafe <=> acked[s[1]][s[2]] # Unknown
    BY DEF AbsSafe
  <2> QED BY <1>1, <2>1, <2>2, <2>3, <2>4
<1>3. AbsSafe \subseteq Names \X PageIndex /\ AbsSafe' \subseteq Names \X PageIndex
  BY DEF AbsSafe
<1>4. <<n, k>> \in Names \X PageIndex
  OBVIOUS
<1> QED BY <1>2, <1>3, <1>4

(* The fsync that ends a write: Ok promises the page.                      *)
LEMMA WriteSyncMaps ==
  ASSUME Solo, RInv, WriteSync(TheProc)
  PROVE Store!Next
<1> DEFINE p == TheProc
           n == call[p].name
           k == Slot(call[p].cursor)
           Acks == /\ Leave(p, "ok", 0, None) /\ UNCHANGED mgr
                   /\ acked' = [acked EXCEPT ![n][k] = call[p].bytes]
<1> USE DEF RInv, DInv, IInv
<1>1. p \in Procs /\ pc[p] \in Prepared /\ MgrOK /\ MgrTypeOK /\ pc[p] = "wsync"
  BY TheOnlyProc DEF WriteSync, Prepared, MgrOK
<1>2. pc[p] \in Busy /\ n \in Names /\ dir[n] # None /\ call[p].cursor \in Int
  BY <1>1, SoloFacts DEF Found
<1>3. AbsDisk' = AbsDisk /\ Store!Effect
  <2>1. UNCHANGED <<dir, file>>
    BY DEF WriteSync, sync, Flush, fs
  <2> QED BY <2>1, QuietDisk DEF Store!Effect
<1>4. CASE Acks
  <2>1. k \in PageIndex
    BY <1>2, OffsetType
  <2>2. call[p].op = "write" /\ file[dir[n]].page[k] = call[p].bytes
    BY <1>1 DEF AllSolo, SoloOK, TheFile
  <2>3. /\ AbsReq.op = "write" /\ AbsReq.name = n /\ AbsReq.page = k /\ AbsReq.bytes = call[p].bytes
        /\ call[p] \in CallType
    BY <1>2, <2>2, BusyRequest
  <2>4. call[p].bytes # Unknown
    BY <2>3, UnknownAssumption DEF CallType, Zero, Unknown
  <2>5. /\ call'[p] = NoCall /\ reply'[p] = [res |-> "ok", val |-> 0, page |-> None]
        /\ UNCHANGED <<disks, cur_disk_id>>
    BY <1>1, <1>4 DEF Leave, MgrTypeOK, mgr
  <2>6. AbsReq' = Store!NoRequest /\ AbsAns'.res = "ok"
    BY <2>5, EndRequest DEF AbsAns
  <2>7. AbsSafe' = AbsSafe \cup {<<n, k>>}
    <3> HIDE DEF n, k
    <3> QED BY <1>1, <1>2, <1>4, <2>1, <2>4, SafePages
  <2>8. UNCHANGED <<AbsIds, AbsIssued>>
    BY <2>5 DEF AbsIds, AbsIssued
  <2>9. AbsDisk'[n] # Store!NoDisk /\ AbsDisk'[n][k] = call[p].bytes
    BY <1>2, <1>3, <2>1, <2>2, DiskView
  <2>10. Store!Promise(AbsAns')
    <3> HIDE DEF n, k
    <3> QED BY <2>3, <2>7, <2>8, <2>9 DEF Store!Promise
  <2> QED BY <1>2, <1>3, <2>6, <2>10, OkMaps
<1>5. CASE BadResult(p)
  BY <1>1, <1>2, <1>3, <1>5, DiesShape, QuietMaps
<1>6. CASE Again(p, "sync", {}, "wsync") \/ RwError(p, "UNKOWN_ERROR")
  <2>1. (\E L : Goes(p, L)) \/ RepliesError(p, "UNKOWN_ERROR")
    BY <1>1, <1>2, <1>6, GotoShape, RwErrorShape
  <2>2. "UNKOWN_ERROR" \in Errors \ {"DISK_ALREADY_EXISTS", "DISK_NOT_FOUND"}
    BY DEF Errors
  <2> QED BY <1>2, <1>3, <2>1, <2>2, QuietMaps
<1> QED BY <1>4, <1>5, <1>6 DEF WriteSync

(* read: Ok hands out the page as it is.                                   *)
LEMMA ReadMaps ==
  ASSUME Solo, RInv, Read(TheProc)
  PROVE Store!Next
<1> DEFINE p == TheProc
           n == call[p].name
           k == Slot(call[p].cursor)
<1> USE DEF RInv, DInv, IInv
<1>1. p \in Procs /\ pc[p] \in Prepared /\ MgrOK /\ call[p].op = "read"
  BY TheOnlyProc DEF Read, Prepared
<1>2. /\ pc[p] \in Busy /\ n \in Names /\ dir[n] # None /\ fd[p] = dir[n]
      /\ call[p].cursor \in Int /\ k \in PageIndex
  BY <1>1, SoloFacts, OffsetType DEF Found
<1>3. AbsDisk' = AbsDisk /\ Store!Effect
  <2>1. UNCHANGED <<dir, file>>
    BY DEF Read, fs
  <2> QED BY <2>1, QuietDisk DEF Store!Effect
<1>4. CASE Return(p, "ok", 0, file[fd[p]].page[k])
  <2>1. Replies(p, "ok", 0, file[dir[n]].page[k])
    BY <1>1, <1>2, <1>4, ReturnShape
  <2>2. /\ UNCHANGED AbsRest /\ AbsReq' = Store!NoRequest
        /\ AbsAns' = [res |-> "ok", val |-> 0, page |-> file[dir[n]].page[k]]
    <3> HIDE DEF n, k
    <3> QED BY <2>1, RepliesMaps
  <2>3. AbsReq.op = "read" /\ AbsReq.name = n /\ AbsReq.page = k
    BY <1>1, <1>2, BusyRequest
  <2>4. AbsDisk'[n] # Store!NoDisk /\ AbsAns'.page = AbsDisk'[n][k] /\ AbsAns'.res = "ok"
    BY <1>2, <1>3, <2>2, DiskView
  <2>5. Store!Promise(AbsAns')
    <3> HIDE DEF n, k
    <3> QED BY <2>2, <2>3, <2>4 DEF Store!Promise, AbsRest
  <2> QED BY <1>2, <1>3, <2>2, <2>4, <2>5, OkMaps
<1>5. CASE BadResult(p) \/ RwError(p, "READ_DISK_ERROR")
  <2>1. Dies(p) \/ (\E L : Goes(p, L)) \/ RepliesError(p, "READ_DISK_ERROR")
    BY <1>1, <1>2, <1>5, DiesShape, RwErrorShape
  <2>2. "READ_DISK_ERROR" \in Errors \ {"DISK_ALREADY_EXISTS", "DISK_NOT_FOUND"}
    BY DEF Errors
  <2> QED BY <1>2, <1>3, <2>1, <2>2, QuietMaps
<1> QED BY <1>4, <1>5 DEF Read

(* stat: a size that covers every safe page, a cursor past all of them.    *)
LEMMA SizeMaps ==
  ASSUME Solo, RInv, Size(TheProc)
  PROVE Store!Next
<1> DEFINE p == TheProc
           n == call[p].name
           size == StatSize(p)
<1> USE DEF RInv, DInv, IInv
<1>1. p \in Procs /\ pc[p] \in Busy /\ MgrOK
  BY TheOnlyProc DEF Size, Busy, Labels
<1>2. AbsDisk' = AbsDisk /\ Store!Effect
  <2>1. UNCHANGED <<dir, file>>
    BY DEF Size, fs
  <2> QED BY <2>1, QuietDisk DEF Store!Effect
<1>3. /\ call[p] \in CallType /\ n \in Names
      /\ AbsReq.op = call[p].op /\ AbsReq.name = n
  BY <1>1, BusyRequest DEF CallType
<1>4. {"DISK_EXCEEDS_MAX_SIZE", "GET_DISK_SIZE_ERROR"} \subseteq
        Errors \ {"DISK_ALREADY_EXISTS", "DISK_NOT_FOUND"}
  BY DEF Errors
<1>5. CASE Found(p) /\ SizeValue(p, size % UMod)
  <2>1. size = file[dir[n]].size /\ size % UMod = size /\ size \in Nat
    BY <1>1, <1>3, <1>5, StatSizeExact DEF TheFile
  <2>2. ASSUME NEW s \in AbsSafe, s[1] = n
        PROVE (s[2] + 1) * PageSize <= size /\ s[2] \in Nat
    BY <1>3, <2>1, <2>2, UModNat DEF AbsSafe, AckedSurvives, PageIndex
  <2>3. ASSUME NEW val, Replies(p, "ok", val, None)
        PROVE UNCHANGED AbsRest /\ AbsReq' = Store!NoRequest /\ AbsAns'.res = "ok" /\ AbsAns'.val = val
    BY <2>3, RepliesMaps
  <2>4. CASE call[p].op = "disk_byte_size" /\ Replies(p, "ok", size, None)
    <3>1. Store!Promise(AbsAns')
      BY <1>3, <2>2, <2>3, <2>4 DEF Store!Promise, Store!SafePagesOf, AbsRest
    <3> QED BY <1>1, <1>2, <2>3, <2>4, <3>1, OkMaps
  <2>5. CASE call[p].op = "extend" /\ Replies(p, "ok", (size \div PageSize) + 1, None)
    <3>1. ASSUME NEW s \in AbsSafe, s[1] = n PROVE s[2] < (size \div PageSize) + 1
      <4> DEFINE d == (size \div PageSize) + 1
      <4>1. d * PageSize >= size /\ d \in Nat
        <5> HIDE DEF size
        <5>1. d * PageSize >= size
          BY <2>1, PastTheEnd
        <5>2. size \div PageSize \in Nat
          BY <2>1, UModNat
        <5> QED BY <5>1, <5>2
      <4> HIDE DEF d
      <4>2. (s[2] + 1) * PageSize <= size /\ s[2] \in Nat
        BY <2>2, <3>1
      <4>3. (s[2] + 1) * PageSize = s[2] * PageSize + PageSize /\ s[2] * PageSize \in Nat
            /\ d * PageSize \in Nat /\ PageSize \in Nat \ {0}
        BY <4>1, <4>2, UModNat
      <4>4. s[2] * PageSize < d * PageSize
        BY <2>1, <4>1, <4>2, <4>3
      <4>5. s[2] < d
        BY <4>1, <4>2, <4>3, <4>4
      <4> QED BY <4>5 DEF d
    <3>2. Store!Promise(AbsAns')
      BY <1>3, <2>3, <2>5, <3>1 DEF Store!Promise, Store!SafePagesOf, AbsRest
    <3> QED BY <1>1, <1>2, <2>3, <2>5, <3>2, OkMaps
  <2>6. \/ Dies(p) \/ Goes(p, {"access1"})
        \/ call[p].op = "disk_byte_size" /\ Replies(p, "ok", size, None)
        \/ call[p].op = "extend" /\ Replies(p, "ok", (size \div PageSize) + 1, None)
        \/ RepliesError(p, "DISK_EXCEEDS_MAX_SIZE")
    BY <1>1, <1>5, <2>1, SizeValueShape
  <2> QED BY <1>1, <1>2, <1>4, <2>4, <2>5, <2>6, QuietMaps
<1>6. CASE FailedAssert(p) \/ SizeError(p, "GET_DISK_SIZE_ERROR")
  <2>1. Dies(p) \/ (\E L : Goes(p, L)) \/ RepliesError(p, "GET_DISK_SIZE_ERROR")
    BY <1>1, <1>6, DiesShape, SizeErrorShape
  <2> QED BY <1>1, <1>2, <1>4, <2>1, QuietMaps
<1> QED BY <1>5, <1>6 DEF Size
(* The ends of create's first init and of load.                            *)
LEMMA LoadMaps ==
  ASSUME Solo, RInv, Created(TheProc) \/ Loaded(TheProc)
  PROVE Store!Next
<1> DEFINE p == TheProc
           n == call[p].name
           d == cur_disk_id[p]
<1> USE DEF RInv, DInv, IInv
<1>1. p \in Procs /\ pc[p] \in Busy /\ MgrOK /\ MgrTypeOK /\ pc[p] \in HoldsFd
  BY TheOnlyProc DEF Created, Loaded, Busy, Labels, MgrOK, HoldsFd
<1>2. AbsDisk' = AbsDisk /\ Store!Effect
  <2>1. UNCHANGED <<dir, file>>
    BY DEF Created, Loaded, fs
  <2> QED BY <2>1, QuietDisk DEF Store!Effect
<1>3. CASE Created(p)
  <2>1. Dies(p) \/ Goes(p, {"access1"})
    BY <1>1, <1>3, DiesShape DEF Created, Goes, MgrTypeOK, HoldsFd
  <2> QED BY <1>1, <1>2, <2>1, QuietMaps
<1>4. CASE Loaded(p)
  <2>1. call[p].op \in {"create", "load"} /\ n \in Names /\ dir[n] # None
    BY <1>1, <1>4, InodesAssumption DEF Loaded, MgrOK, ProcOK, CallType, AllSolo, SoloOK
  <2>2. /\ call'[p] = NoCall /\ reply'[p] = [res |-> "ok", val |-> d, page |-> None]
        /\ disks'[p] = [disks[p] EXCEPT ![d] = n] /\ cur_disk_id'[p] = d + 1 /\ acked' = acked
    BY <1>1, <1>4 DEF Loaded, Leave, MgrTypeOK
  <2>3. AbsReq' = Store!NoRequest /\ AbsAns'.res = "ok" /\ AbsAns'.val = d
    BY <2>2, EndRequest DEF AbsAns
  <2>4. AbsReq.op \in {"create", "load"} /\ AbsReq.name = n
    BY <1>1, <2>1, BusyRequest
  <2>5. AbsIds' = [AbsIds EXCEPT ![d] = n] /\ AbsSafe' = AbsSafe
    BY <2>2 DEF AbsIds, AbsSafe
  <2>6. d \notin AbsIssued /\ AbsIssued' = AbsIssued \cup {d}
    <3>1. d \in Nat
      BY <1>1, BoundsAssumption DEF MgrTypeOK, Ids
    <3>2. AbsIssued = 0 .. (d - 1) /\ AbsIssued' = 0 .. ((d + 1) - 1)
      BY <2>2 DEF AbsIssued
    <3> HIDE DEF d
    <3> QED BY <3>1, <3>2
  <2>7. AbsDisk'[n] # Store!NoDisk
    BY <1>2, <2>1, DiskView
  <2>8. Store!Promise(AbsAns')
    <3> HIDE DEF n, d
    <3> QED BY <2>3, <2>4, <2>5, <2>6, <2>7 DEF Store!Promise
  <2> QED BY <1>1, <1>2, <2>3, <2>8, OkMaps
<1> QED BY <1>3, <1>4

(* unlink: the disk is gone, also when the macros then end the process.    *)
LEMMA UnlinkMaps ==
  ASSUME Solo, RInv, Unlink(TheProc)
  PROVE Store!Next
<1> DEFINE p == TheProc
           n == call[p].name
           Removes == Found(p) /\ dir' = [dir EXCEPT ![n] = None] /\ file' = file
           Destroyed == /\ Leave(p, "ok", 0, None) /\ UNCHANGED <<cur_disk_id, acked>>
                        /\ disks' = [disks EXCEPT ![p][call[p].id] = None]
<1> USE DEF RInv, DInv, IInv
<1>1. p \in Procs /\ pc[p] \in Busy /\ MgrOK /\ MgrTypeOK /\ call[p].op = "destroy"
  BY TheOnlyProc DEF Unlink, Busy, Labels, MgrOK, AllOps, OpOK
<1>2. /\ n \in Names /\ call[p].id \in Ids
      /\ AbsReq.op = "destroy" /\ AbsReq.name = n /\ AbsReq.id = call[p].id
  BY <1>1, BusyRequest DEF CallType
<1>3. ASSUME Removes PROVE Store!Effect /\ AbsDisk'[n] = Store!NoDisk
  <2>1. AbsDisk'[n] = Store!NoDisk
    BY <1>2, <1>3, DiskViewNext DEF FsTypeOK
  <2>2. ASSUME NEW m \in Names, m # n PROVE DiskOf(m)' = DiskOf(m)
    <3>1. dir'[m] = dir[m] /\ file' = file
      BY <1>3, <2>2 DEF FsTypeOK
    <3> QED BY <3>1 DEF DiskOf
  <2>3. AbsDisk' = [AbsDisk EXCEPT ![n] = Store!NoDisk]
    BY <2>1, <2>2 DEF AbsDisk
  <2> QED BY <1>2, <2>1, <2>3 DEF Store!Effect
<1>4. CASE Removes /\ Destroyed
  <2>1. /\ call'[p] = NoCall /\ reply'[p] = [res |-> "ok", val |-> 0, page |-> None]
        /\ disks'[p] = [disks[p] EXCEPT ![call[p].id] = None]
        /\ UNCHANGED <<cur_disk_id, acked>>
    BY <1>1, <1>4 DEF Leave, MgrTypeOK
  <2>2. AbsReq' = Store!NoRequest /\ AbsAns'.res = "ok"
    BY <2>1, EndRequest DEF AbsAns
  <2>3. AbsIds' = [AbsIds EXCEPT ![call[p].id] = None] /\ UNCHANGED <<AbsSafe, AbsIssued>>
    BY <2>1 DEF AbsIds, AbsSafe, AbsIssued
  <2>4. Store!Promise(AbsAns')
    <3> HIDE DEF n
    <3> QED BY <1>2, <1>3, <1>4, <2>3 DEF Store!Promise
  <2> QED BY <1>1, <1>3, <1>4, <2>2, <2>4, OkMaps
<1>5. CASE Removes /\ BadResult(p)
  BY <1>1, <1>3, <1>5, DiesShape, DiesMaps
<1>6. CASE UNCHANGED fs /\ (Again(p, "unlink", {}, "unlink") \/ Fail(p, "DESTROY_DISK_ERROR"))
  <2>1. (\E L : Goes(p, L)) \/ RepliesError(p, "DESTROY_DISK_ERROR")
    BY <1>1, <1>6, GotoShape, FailShape
  <2>2. "DESTROY_DISK_ERROR" \in Errors \ {"DISK_ALREADY_EXISTS", "DISK_NOT_FOUND"}
    BY DEF Errors
  <2> QED BY <1>1, <1>6, <2>1, <2>2, QuietDisk, QuietMaps DEF fs
<1> QED BY <1>4, <1>5, <1>6 DEF Unlink

(* Every system call is mapped.                                            *)
LEMMA SystemCallMaps ==
  ASSUME Solo, RInv, SystemCall(TheProc)
  PROVE Store!Next
  BY AccessMaps, OpenMaps, LoadMaps, PrepareMaps, WriteMaps, WriteSyncMaps, ReadMaps, SizeMaps,
     UnlinkMaps DEF SystemCall

-----------------------------------------------------------------------------
(* Calls, and what the environment does.                                   *)

(* A call that starts an operation invokes it.                             *)
LEMMA StartMaps ==
  ASSUME Solo, RInv, NEW c \in CallType, NEW exist, pc[TheProc] = "idle", Start(TheProc, c, exist),
         c.op \in {"create", "load"} \/ c.name = disks[TheProc][c.id],
         AbsSafe' = CASE c.op = "write" -> AbsSafe \ {<<c.name, Slot(c.cursor)>>}
                      [] c.op = "destroy" -> AbsSafe \ Store!SafePagesOf(c.name)
                      [] OTHER -> AbsSafe
  PROVE Store!Next
<1> USE DEF RInv, DInv, IInv
<1>1. TheProc \in Procs /\ MgrTypeOK
  BY TheOnlyProc DEF MgrOK
<1>2. /\ call'[TheProc] = c /\ reply'[TheProc] = NoReply
      /\ UNCHANGED <<dir, file, disks, cur_disk_id>>
  BY <1>1 DEF Start, MgrTypeOK, mgr, fs
<1>3. AbsReq = Store!NoRequest
  BY IdleRequest
<1>4. AbsReq' = RequestOf(c)
  BY <1>2 DEF AbsReq, RequestOf, Slot, Offset
<1>5. /\ AbsReq' \in Store!Request /\ AbsReq'.op = c.op /\ AbsReq'.name = c.name
      /\ AbsReq'.id = c.id /\ AbsReq'.page = Slot(c.cursor)
  BY <1>4, CallRequest DEF RequestOf
<1>6. AbsAns' = Store!NoAnswer
  BY <1>2 DEF AbsAns, NoReply, Store!NoAnswer
<1>7. UNCHANGED <<AbsDisk, AbsIds, AbsIssued>>
  BY <1>2, QuietDisk DEF AbsIds, AbsIssued
<1>8. c.op \in {"create", "load"} \/ c.name = AbsIds[c.id]
  BY DEF AbsIds
<1>9. Store!Invoke
  BY <1>3, <1>5, <1>6, <1>7, <1>8 DEF Store!Invoke
<1> QED BY <1>9 DEF Store!Next

(* Destroying a disk takes back every promise about it.                    *)
LEMMA SafeDisk ==
  ASSUME MgrTypeOK, NEW n \in Names, acked' = [acked EXCEPT ![n] = [k \in PageIndex |-> Unknown]]
  PROVE AbsSafe' = AbsSafe \ Store!SafePagesOf(n)
<1>1. ASSUME NEW m \in Names, NEW j \in PageIndex
      PROVE acked'[m][j] = IF m = n THEN Unknown ELSE acked[m][j]
  BY DEF MgrTypeOK
<1>2. ASSUME NEW s \in Names \X PageIndex
      PROVE s \in AbsSafe' <=> s \in AbsSafe /\ s[1] # n
  <2>1. s[1] \in Names /\ s[2] \in PageIndex
    OBVIOUS
  <2>2. s \in AbsSafe' <=> acked'[s[1]][s[2]] # Unknown
    BY DEF AbsSafe
  <2>3. s \in AbsSafe <=> acked[s[1]][s[2]] # Unknown
    BY DEF AbsSafe
  <2> QED BY <1>1, <2>1, <2>2, <2>3
<1>3. AbsSafe \subseteq Names \X PageIndex /\ AbsSafe' \subseteq Names \X PageIndex
  BY DEF AbsSafe
<1> QED BY <1>2, <1>3 DEF Store!SafePagesOf
(* An operation on an id that is not loaded is refused.                    *)
LEMMA RefuseMaps ==
  ASSUME Solo, RInv, pc[TheProc] = "idle", NEW d \in Ids, disks[TheProc][d] = None,
         UNCHANGED <<dir, file, acked, disks, cur_disk_id>>, call'[TheProc] = NoCall,
         reply'[TheProc] = [res |-> "DISK_NOT_FOUND", val |-> 0, page |-> None]
  PROVE Store!Next
<1>1. AbsReq = Store!NoRequest /\ AbsReq' = Store!NoRequest
  BY IdleRequest, EndRequest DEF RInv
<1>2. UNCHANGED <<AbsDisk, AbsSafe, AbsIds, AbsIssued>> /\ AbsIds[d] = None
  BY QuietDisk DEF AbsSafe, AbsIds, AbsIssued
<1>3. AbsAns' = [Store!NoAnswer EXCEPT !.res = "DISK_NOT_FOUND"]
  BY DEF AbsAns, Store!NoAnswer
<1>4. Store!Refuse(d)
  BY <1>1, <1>2, <1>3 DEF Store!Refuse
<1> QED BY <1>4 DEF Store!Next

(* unload only looks at the ids.                                           *)
LEMMA unloadMaps ==
  ASSUME Solo, RInv, NEW d \in Ids, unload(TheProc, d)
  PROVE Store!Next
<1> DEFINE p == TheProc
<1> USE DEF RInv, DInv, IInv
<1>1. p \in Procs /\ MgrTypeOK /\ pc[p] = "idle"
  BY TheOnlyProc DEF unload, MgrOK
<1>2. /\ disks'[p] = [disks[p] EXCEPT ![d] = None] /\ call'[p] = NoCall
      /\ reply'[p] = [res |-> IF disks[p][d] = None THEN "DISK_NOT_FOUND" ELSE "ok",
                      val |-> 0, page |-> None]
      /\ UNCHANGED <<dir, file, acked, cur_disk_id>>
  BY <1>1 DEF unload, Leave, MgrTypeOK, fs
<1>3. CASE disks[p][d] = None
  <2>1. disks' = disks
    BY <1>1, <1>3 DEF unload, MgrTypeOK
  <2> QED BY <1>1, <1>2, <1>3, <2>1, RefuseMaps
<1>4. CASE disks[p][d] # None
  <2>1. AbsReq = Store!NoRequest /\ AbsReq' = Store!NoRequest
    BY <1>1, <1>2, IdleRequest, EndRequest
  <2>2. UNCHANGED <<AbsDisk, AbsSafe, AbsIssued>>
    BY <1>2, QuietDisk DEF AbsSafe, AbsIssued
  <2>3. AbsIds[d] # None /\ AbsIds' = [AbsIds EXCEPT ![d] = None]
    BY <1>2, <1>4 DEF AbsIds
  <2>4. AbsAns' = [Store!NoAnswer EXCEPT !.res = "ok"]
    BY <1>2, <1>4 DEF AbsAns, Store!NoAnswer
  <2>5. Store!Unload(d)
    BY <2>1, <2>2, <2>3, <2>4 DEF Store!Unload
  <2> QED BY <2>5 DEF Store!Next
<1> QED BY <1>3, <1>4

(* An operation on a disk id: get_disk_path finds the disk, or refuses.    *)
LEMMA OnDiskMaps ==
  ASSUME Solo, RInv, NEW op \in DiskOps, NEW d \in Ids, NEW cursor \in Cursors \cup {0},
         NEW bytes \in Bytes \cup {Zero}, OnDisk(TheProc, op, d, cursor, bytes)
  PROVE Store!Next
<1> DEFINE p == TheProc
           n == disks[p][d]
           c == [op |-> op, name |-> n, id |-> d, cursor |-> cursor, bytes |-> bytes]
<1> USE DEF RInv, DInv, IInv
<1>1. p \in Procs /\ MgrOK /\ MgrTypeOK /\ pc[p] = "idle"
  BY TheOnlyProc DEF OnDisk, MgrOK
<1>2. CASE n = None
  <2>1. Fail(p, "DISK_NOT_FOUND") /\ UNCHANGED fs
    BY <1>2 DEF OnDisk
  <2>2. RepliesError(p, "DISK_NOT_FOUND")
    BY <1>1, <2>1, FailShape
  <2>3. /\ UNCHANGED <<dir, file, acked, disks, cur_disk_id>> /\ call'[p] = NoCall
        /\ reply'[p] = [res |-> "DISK_NOT_FOUND", val |-> 0, page |-> None]
    BY <2>1, <2>2 DEF RepliesError, Replies, mgr, fs
  <2> QED BY <1>1, <1>2, <2>3, RefuseMaps
<1>3. CASE n # None
  <2>1. n \in Names
    BY <1>1, <1>3 DEF MgrTypeOK
  <2>2. c \in CallType
    BY <2>1 DEF CallType
  <2>3. Slot(cursor) \in PageIndex
    <3>1. \A x \in Cursors : x \in Int
      BY CursorsAssumption
    <3>2. cursor \in Int
      BY <3>1
    <3> QED BY <3>2, OffsetType
  <2>4. /\ Start(p, c, TRUE)
        /\ acked' = CASE op = "write" -> [acked EXCEPT ![n][Slot(cursor)] = Unknown]
                      [] op = "destroy" -> [acked EXCEPT ![n] = [k \in PageIndex |-> Unknown]]
                      [] OTHER -> acked
    BY <1>3 DEF OnDisk
  <2>5. AbsSafe' = CASE op = "write" -> AbsSafe \ {<<n, Slot(cursor)>>}
                     [] op = "destroy" -> AbsSafe \ Store!SafePagesOf(n)
                     [] OTHER -> AbsSafe
    <3> HIDE DEF n, c
    <3>1. CASE op = "write"
      <4>1. acked' = [acked EXCEPT ![n][Slot(cursor)] = Unknown]
        BY <2>4, <3>1
      <4>2. AbsSafe' = AbsSafe \ {<<n, Slot(cursor)>>}
        BY <1>1, <2>1, <2>3, <4>1, SafePages
      <4> QED BY <3>1, <4>2
    <3>2. CASE op = "destroy"
      <4>1. AbsSafe' = AbsSafe \ Store!SafePagesOf(n)
        BY <1>1, <2>1, <2>4, <3>2, SafeDisk
      <4> QED BY <3>2, <4>1
    <3>3. CASE op \notin {"write", "destroy"}
      BY <2>4, <3>3 DEF AbsSafe
    <3> QED BY <3>1, <3>2, <3>3
  <2>6. c.op = op /\ c.name = n /\ c.id = d /\ c.cursor = cursor
    OBVIOUS
  <2> HIDE DEF c
  <2> QED BY <1>1, <2>2, <2>4, <2>5, <2>6, StartMaps
<1> QED BY <1>2, <1>3

(* Every call is mapped.                                                   *)
LEMMA CallMaps ==
  ASSUME Solo, RInv, Call(TheProc)
  PROVE Store!Next
<1> DEFINE p == TheProc
<1>1. ASSUME NEW n \in Names, create(p, n) \/ load(p, n) PROVE Store!Next
  <2>1. PICK op \in {"create", "load"}, exist \in BOOLEAN :
          pc[p] = "idle" /\ Start(p, NamedCall(op, n), exist) /\ acked' = acked
    BY <1>1 DEF create, load
  <2> DEFINE c == NamedCall(op, n)
  <2>2. c \in CallType /\ c.op = op
    BY <1>1, BoundsAssumption DEF NamedCall, CallType, Ids
  <2>3. AbsSafe' = AbsSafe
    BY <2>1 DEF AbsSafe
  <2>4. AbsSafe' = CASE c.op = "write" -> AbsSafe \ {<<c.name, Slot(c.cursor)>>}
                     [] c.op = "destroy" -> AbsSafe \ Store!SafePagesOf(c.name)
                     [] OTHER -> AbsSafe
    BY <2>2, <2>3
  <2> HIDE DEF c
  <2> QED BY <2>1, <2>2, <2>4, StartMaps DEF c
<1>2. ASSUME NEW d \in Ids, unload(p, d) PROVE Store!Next
  BY <1>2, unloadMaps
<1>3. DiskOps = {"destroy", "write", "read", "disk_byte_size", "extend"}
  BY DEF DiskOps
<1>4. ASSUME NEW d \in Ids, destroy(p, d) \/ disk_byte_size(p, d) \/ extend(p, d) PROVE Store!Next
  BY <1>3, <1>4, OnDiskMaps DEF destroy, disk_byte_size, extend
<1>5. ASSUME NEW d \in Ids, NEW cursor \in Cursors, NEW bytes \in Bytes,
             read(p, d, cursor) \/ write(p, d, cursor, bytes)
      PROVE Store!Next
  BY <1>3, <1>5, OnDiskMaps DEF read, write
<1>6. ASSUME NEW d \in Ids, NEW cursor \in Cursors, read(p, d, cursor) PROVE Store!Next
  BY <1>3, <1>6, OnDiskMaps DEF read
<1> QED BY <1>1, <1>2, <1>4, <1>5, <1>6 DEF Call

(* A kill, or starting again, ends the process.                            *)
LEMMA RestartMaps ==
  ASSUME Solo, Restart(TheProc)
  PROVE Store!Next
<1>1. Dies(TheProc)
  BY TheOnlyProc, GoneShape DEF Restart
<1>2. Store!Effect
  BY QuietDisk DEF Restart, fs, Store!Effect
<1> QED BY <1>1, <1>2, DiesMaps

(* A power failure leaves every safe page.                                 *)
LEMMA PowerLossMaps ==
  ASSUME Solo, RInv, AckedSurvives', PowerLoss
  PROVE Store!Next
<1>1. /\ TheProc \in Procs /\ acked' = acked /\ call'[TheProc] = NoCall
      /\ disks'[TheProc] = [d \in Ids |-> None] /\ cur_disk_id'[TheProc] = 0
      /\ reply'[TheProc] = NoReply
  BY TheOnlyProc DEF PowerLoss, Gone, NoReply
<1>2. AbsReq' = Store!NoRequest /\ AbsSafe' = AbsSafe
  BY <1>1, EndRequest DEF AbsSafe
<1>3. AbsIds' = [d \in Ids |-> None] /\ AbsIssued' = {} /\ AbsAns' = Store!NoAnswer
  BY <1>1 DEF AbsIds, AbsIssued, AbsAns, NoReply, Store!NoAnswer
<1>4. ASSUME NEW s \in AbsSafe
      PROVE AbsDisk'[s[1]] # Store!NoDisk /\ AbsDisk'[s[1]][s[2]] = AbsDisk[s[1]][s[2]]
  <2>1. s[1] \in Names /\ s[2] \in PageIndex /\ acked[s[1]][s[2]] # Unknown
    BY DEF AbsSafe
  <2>2. dir[s[1]] # None /\ file[dir[s[1]]].page[s[2]] = acked[s[1]][s[2]]
    BY <2>1 DEF RInv, DInv, AckedSurvives
  <2>3. dir'[s[1]] # None /\ file'[dir'[s[1]]].page[s[2]] = acked[s[1]][s[2]]
    BY <1>1, <2>1 DEF AckedSurvives
  <2> QED BY <2>1, <2>2, <2>3, DiskView, DiskViewNext
<1>5. PowerFails
  BY DEF PowerLoss, PowerFails
<1>6. Store!Crash
  BY <1>2, <1>3, <1>4, <1>5 DEF Store!Crash
<1> QED BY <1>6 DEF Store!Next

(* Every step is a step of the abstract disk manager, or none.             *)
LEMMA StepMaps ==
  ASSUME Solo, NoWrapCursors, RInv, [Next]_vars
  PROVE [Store!Next]_Store!vars
<1>1. CASE UNCHANGED vars
  <2>1. UNCHANGED <<dir, file, acked, disks, cur_disk_id, call, reply>>
    BY <1>1 DEF vars, fs, mgr, ctl
  <2>2. UNCHANGED <<AbsDisk, AbsSafe, AbsIds, AbsIssued, AbsReq, AbsAns>>
    BY <2>1, QuietDisk DEF AbsSafe, AbsIds, AbsIssued, AbsReq, AbsAns, RequestOf
  <2> QED BY <2>2 DEF Store!vars
<1>2. CASE PowerLoss
  <2>1. DInv'
    BY StepDInv DEF Solo, RInv
  <2> QED BY <1>2, <2>1, PowerLossMaps DEF DInv
<1>3. ASSUME NEW p \in Procs, Call(p) \/ SystemCall(p) \/ Restart(p) PROVE Store!Next
  <2>1. p = TheProc
    BY TheOnlyProc
  <2> QED BY <1>3, <2>1, CallMaps, SystemCallMaps, RestartMaps
<1> QED BY <1>1, <1>2, <1>3 DEF Next

(* At the start there are no disks, no ids and no request.                 *)
LEMMA InitMaps ==
  ASSUME Solo, Init
  PROVE Store!Init
<1>1. /\ TheProc \in Procs /\ call[TheProc] = NoCall /\ reply[TheProc] = NoReply
      /\ disks[TheProc] = [d \in Ids |-> None] /\ cur_disk_id[TheProc] = 0
  BY TheOnlyProc DEF Init
<1>2. AbsReq = Store!NoRequest
  BY <1>1, NoCallRequest DEF AbsReq
<1>3. AbsIds = [d \in Ids |-> None] /\ AbsIssued = {} /\ AbsAns = Store!NoAnswer
  BY <1>1 DEF AbsIds, AbsIssued, AbsAns, NoReply, Store!NoAnswer
<1>4. AbsSafe = {}
  BY DEF Init, AbsSafe
<1>5. AbsDisk = [n \in Names |-> Store!NoDisk]
  <2>1. \A n \in Names : DiskOf(n) = Store!NoDisk
    BY DEF Init, FsInit, DiskOf, Store!NoDisk
  <2> QED BY <2>1 DEF AbsDisk
<1> QED BY <1>2, <1>3, <1>4, <1>5 DEF Store!Init

(* One PosixDiskManager with a directory to itself implements the abstract *)
(* disk manager: every system call, re-evaluation of a macro argument,     *)
(* partial failure, kill and power loss is a step of one operation that    *)
(* takes effect once, an Ok means what DiskStore says it means, and what a *)
(* write promised is kept.  The cursors are those whose page ends inside   *)
(* the unsigned range.                                                     *)
THEOREM ManagerImplementsStore ==
  OneManager /\ Procs # {} /\ NoWrapCursors => (Spec => ImplementsDiskStore)
<1> SUFFICES ASSUME OneManager, Procs # {}, NoWrapCursors PROVE Spec => ImplementsDiskStore
  OBVIOUS
<1>1. Solo
  BY DEF Solo
<1>2. Init => Store!Init
  BY <1>1, InitMaps
<1>3. RInv /\ [Next]_vars => [Store!Next]_Store!vars
  BY <1>1, StepMaps
<1>4. Spec => Store!Spec
  BY <1>2, <1>3, RInvariant, PTL DEF Spec, Store!Spec
<1> QED BY <1>4 DEF ImplementsDiskStore
=============================================================================
