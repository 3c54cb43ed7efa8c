-------------------------- MODULE PosixDiskManager --------------------------
(***************************************************************************)
(* The disk manager of lewsql: class PosixDiskManager, the PosixDisk       *)
(* handle every operation opens, and the error macros of result.h.  A      *)
(* process of Procs owns one manager; the managers share one directory.    *)
(*                                                                         *)
(* One action is one system call with the code up to the next one.  The    *)
(* program keeps no file open between operations and takes no lock.        *)
(*                                                                         *)
(* The macros of result.h paste their argument, so a call written inside   *)
(* one runs again: PROP_IF_ERROR(c) runs c a second time when the first    *)
(* run failed, UNWRAP_OR_PROP_ERROR(c) runs it twice in any case.  again   *)
(* holds the macro arguments that are in their second run.  When the runs  *)
(* disagree get_error() or get_value() has nothing to return, and since    *)
(* the callers are noexcept the process dies.                              *)
(***************************************************************************)
EXTENDS FileSystem

CONSTANTS
  Procs,        \* processes, one manager each
  Cursors,      \* the DiskPageCursor values callers pass
  MaxDiskSize,  \* max_disk_byte_size
  MaxLoads,     \* bound: disks one process loads in its life
  MaxFds,       \* descriptors one process may have open
  Fallible,     \* the system calls that may fail
  Accidents     \* what else may happen: "kill" a process, "power" loss

SysCalls == {"access", "open", "stat", "truncate", "fsync", "read", "write", "unlink"}

ASSUME CursorsAssumption == Cursors \subseteq Int
ASSUME MaxDiskSizeAssumption == MaxDiskSize \in 0 .. (UMod - 1)
ASSUME BoundsAssumption == MaxLoads \in Nat /\ MaxFds \in Nat
ASSUME FallibleAssumption == Fallible \subseteq SysCalls
ASSUME AccidentsAssumption == Accidents \subseteq {"kill", "power"}

VARIABLES
  disks,         \* disks: id -> name of the loaded disk, None when not loaded
  cur_disk_id,   \* cur_disk_id: the next id
  pc,            \* the system call a process is about to make
  call,          \* the operation in progress and its arguments
  should_exist,  \* argument of the PosixDisk::init in progress
  again,         \* macro arguments evaluated for the second time
  fd,            \* m_fd: the file the current PosixDisk has open
  open_fds,      \* how many descriptors the process has open
  reply,         \* what the last operation returned
  destroyed,     \* history: disks this process destroyed
  acked          \* history: the last acknowledged content of every slot

mgr == <<disks, cur_disk_id, destroyed>>
ctl == <<pc, again, fd, open_fds, reply>>
vars == <<fs, mgr, ctl, call, should_exist, acked>>

Ids == 0 .. MaxLoads
Unknown == "unknown"
ASSUME UnknownAssumption == Unknown \notin Bytes
Errors == {"DISK_ALREADY_EXISTS", "DISK_NOT_FOUND", "DISK_EXCEEDS_MAX_SIZE", "UNKOWN_ERROR",
           "CREATE_DISK_ERROR", "DESTROY_DISK_ERROR", "READ_DISK_ERROR", "GET_DISK_SIZE_ERROR"}
Sites == {"exists", "init", "unlink", "stat", "prepare_rw", "rw", "sync",
          "size_value", "size_error"}
DiskOps == {"destroy", "write", "read", "disk_byte_size", "extend"}

NamedCall(op, n) == [op |-> op, name |-> n, id |-> 0, cursor |-> 0, bytes |-> Zero]
NoCall == NamedCall(None, None)
NoReply == [res |-> None, val |-> 0, page |-> None]

(* prepare_rw's arithmetic: int32 cursor times unsigned page size, in      *)
(* unsigned int.                                                           *)
Offset(cursor) == (cursor * PageSize) % UMod
NewSizeIsOffset(cursor) == Offset(cursor)
NewSize(cursor) == (Offset(cursor) + PageSize) % UMod
Slot(cursor) == Offset(cursor) \div PageSize

(* prepare_rw's two comparisons.                                           *)
OffsetExceedsMax(cursor) == Offset(cursor) > MaxDiskSize
ExceedsMax(cursor) == NewSize(cursor) >= MaxDiskSize
Differs(cursor, cur_byte_size) == NewSize(cursor) # cur_byte_size
Grows(cursor, cur_byte_size) == NewSize(cursor) > cur_byte_size

Init ==
  /\ FsInit
  /\ disks = [p \in Procs |-> [d \in Ids |-> None]]
  /\ cur_disk_id = [p \in Procs |-> 0]
  /\ pc = [p \in Procs |-> "idle"]
  /\ call = [p \in Procs |-> NoCall]
  /\ should_exist = [p \in Procs |-> TRUE]
  /\ again = [p \in Procs |-> {}]
  /\ fd = [p \in Procs |-> None]
  /\ open_fds = [p \in Procs |-> 0]
  /\ reply = [p \in Procs |-> NoReply]
  /\ destroyed = [p \in Procs |-> 0]
  /\ acked = [n \in Names |-> [k \in PageIndex |-> Unknown]]

-----------------------------------------------------------------------------
(* Control flow between system calls.                                      *)

Goto(p, l) ==
  /\ pc' = [pc EXCEPT ![p] = l]
  /\ UNCHANGED <<again, fd, open_fds, reply, mgr, call, should_exist, acked>>

RunAgain(p, site, done, l) == Goto(p, l)

(* The macro argument `site` failed and runs again from l; sites in done   *)
(* have completed.                                                         *)
Again(p, site, done, l) ==
  /\ pc' = [pc EXCEPT ![p] = l]
  /\ again' = [again EXCEPT ![p] = (@ \ done) \cup {site}]
  /\ UNCHANGED <<fd, open_fds, reply, mgr, call, should_exist, acked>>

LeakDisk(p) ==
  /\ fd' = [fd EXCEPT ![p] = None]
  /\ UNCHANGED open_fds

CloseTwice(p) ==
  /\ fd' = [fd EXCEPT ![p] = None]
  /\ open_fds' = [open_fds EXCEPT ![p] = @ - 1]

(* ~PosixDisk closes the descriptor.                                       *)
CloseDisk(p) ==
  /\ fd' = [fd EXCEPT ![p] = None]
  /\ open_fds' = [open_fds EXCEPT ![p] = IF fd[p] = None THEN @ ELSE @ - 1]

(* The operation's own state changes aside, the end of an operation.       *)
Leave(p, res, val, page) ==
  /\ pc' = [pc EXCEPT ![p] = "idle"]
  /\ again' = [again EXCEPT ![p] = {}]
  /\ reply' = [reply EXCEPT ![p] = [res |-> res, val |-> val, page |-> page]]
  /\ call' = [call EXCEPT ![p] = NoCall]
  /\ should_exist' = [should_exist EXCEPT ![p] = TRUE]

Return(p, res, val, page) ==
  /\ Leave(p, res, val, page)
  /\ CloseDisk(p)
  /\ UNCHANGED <<mgr, acked>>

Fail(p, e) == Return(p, e, 0, None)

(* The processes of P end: a failed assert, an exception out of a noexcept *)
(* function, a kill.  Their managers are gone and the system closes their  *)
(* descriptors.                                                            *)
Gone(P, l, why) ==
  LET Reset(f, v) == [p \in Procs |-> IF p \in P THEN v ELSE f[p]]
  IN /\ pc' = Reset(pc, l)
     /\ again' = Reset(again, {})
     /\ reply' = Reset(reply, [NoReply EXCEPT !.res = why])
     /\ call' = Reset(call, NoCall)
     /\ should_exist' = Reset(should_exist, TRUE)
     /\ fd' = Reset(fd, None)
     /\ open_fds' = Reset(open_fds, 0)
     /\ disks' = Reset(disks, [d \in Ids |-> None])
     /\ cur_disk_id' = Reset(cur_disk_id, 0)
     /\ destroyed' = Reset(destroyed, 0)
     /\ UNCHANGED acked

BadResult(p) == Gone({p}, "aborted", "bad_result")
FailedAssert(p) == Gone({p}, "aborted", "failed_assert")

-----------------------------------------------------------------------------
(* PosixDisk::get_disk_byte_size, as disk_byte_size and extend use it.     *)

(* disk_byte_size is the argument of a macro in extend: it runs twice.     *)
SecondSize(p, site) ==
  /\ pc' = [pc EXCEPT ![p] = "access1"]
  /\ again' = [again EXCEPT ![p] = {site}]
  /\ CloseDisk(p)
  /\ UNCHANGED <<reply, mgr, call, should_exist, acked>>

LastPage(p, byte_size) ==
  Return(p, "ok", (byte_size \div PageSize) - 1, None)

extend_result(p, byte_size) ==
  IF byte_size > MaxDiskSize
  THEN Fail(p, "DISK_EXCEEDS_MAX_SIZE")
  ELSE Return(p, "ok", (byte_size \div PageSize) + 1, None)

SizeValue(p, byte_size) ==
  \/ call[p].op = "disk_byte_size" /\ Return(p, "ok", byte_size, None)
  \/ /\ call[p].op = "extend"
     /\ \/ again[p] \cap {"size_value", "size_error"} = {} /\ SecondSize(p, "size_value")
        \/ "size_value" \in again[p] /\ extend_result(p, byte_size)
        \/ "size_error" \in again[p] /\ BadResult(p)

SizeError(p, e) ==
  \/ call[p].op = "disk_byte_size" /\ Fail(p, e)
  \/ /\ call[p].op = "extend"
     /\ \/ again[p] \cap {"size_value", "size_error"} = {} /\ SecondSize(p, "size_error")
        \/ "size_value" \in again[p] /\ BadResult(p)
        \/ "size_error" \in again[p] /\ Fail(p, e)

-----------------------------------------------------------------------------
(* PosixDisk::init, whose calls to exists and open every operation makes.  *)

(* init failed.  In create it is the argument of a macro; the others keep  *)
(* its result in a variable and return the error.                          *)
InitError(p, e) ==
  \/ /\ call[p].op = "create" /\ ~should_exist[p]
     /\ \/ "init" \notin again[p] /\ Again(p, "init", {"exists"}, "access1")
        \/ "init" \in again[p] /\ Fail(p, e)
  \/ call[p].op \in {"disk_byte_size", "extend"} /\ SizeError(p, e)
  \/ /\ call[p].op \notin {"disk_byte_size", "extend"} /\ should_exist[p]
     /\ Fail(p, e)

(* What the operation does with the disk init returned.                    *)
AfterOpen(p) ==
  CASE ~should_exist[p] -> "created"
    [] call[p].op \in {"create", "load"} /\ should_exist[p] -> "loaded"
    [] call[p].op = "destroy" -> "unlink"
    [] call[p].op \in {"read", "write"} -> "stat1"
    [] call[p].op \in {"disk_byte_size", "extend"} -> "size"

(* First run of exists in UNWRAP_OR_PROP_ERROR(PosixDisk::exists(..)).     *)
Access1(p) ==
  /\ pc[p] = "access1"
  /\ \/ Goto(p, "access2")
     \/ "access" \in Fallible /\ Again(p, "exists", {}, "access2")
  /\ UNCHANGED fs

(* Second run: its value decides, unless one of the two runs failed.       *)
Access2(p) ==
  LET exist == dir[call[p].name] # None
  IN /\ pc[p] = "access2"
     /\ \/ /\ "exists" \notin again[p]
           /\ \/ ~should_exist[p] /\ exist /\ InitError(p, "DISK_ALREADY_EXISTS")
              \/ should_exist[p] /\ ~exist /\ InitError(p, "DISK_NOT_FOUND")
              \/ should_exist[p] = exist /\ Goto(p, "open")
        \/ "exists" \in again[p] /\ InitError(p, "UNKOWN_ERROR")
        \/ "access" \in Fallible /\ BadResult(p)
     /\ UNCHANGED fs

(* open with O_RDWR | O_CREAT: creates the file when it is not there,      *)
(* whatever should_exist says.                                             *)
Open(p) ==
  LET n == call[p].name
      InUse == {dir[m] : m \in Names} \cup {mdir[m] : m \in Names} \cup {fd[q] : q \in Procs}
      Opened(i) ==
        /\ open_fds[p] < MaxFds
        /\ pc' = [pc EXCEPT ![p] = AfterOpen(p)]
        /\ fd' = [fd EXCEPT ![p] = i]
        /\ open_fds' = [open_fds EXCEPT ![p] = @ + 1]
        /\ UNCHANGED <<again, reply, mgr, call, should_exist, acked>>
  IN /\ pc[p] = "open"
     /\ \/ dir[n] # None /\ Opened(dir[n]) /\ UNCHANGED fs
        \/ dir[n] = None /\ \E i \in Inodes \ InUse : Opened(i) /\ CreateEntry(n, i)
        \/ /\ "open" \in Fallible \/ open_fds[p] = MaxFds
           /\ InitError(p, "CREATE_DISK_ERROR")
           /\ UNCHANGED fs

-----------------------------------------------------------------------------
(* PosixDisk::prepare_rw, read and write.                                  *)

(* PosixDisk::read or write failed: the manager's PROP_IF_ERROR runs it    *)
(* again.                                                                  *)
RwError(p, e) ==
  \/ "rw" \notin again[p] /\ Again(p, "rw", Sites, "stat1")
  \/ "rw" \in again[p] /\ Fail(p, e)

PrepareError(p, e) ==
  \/ "prepare_rw" \notin again[p] /\ Again(p, "prepare_rw", {"stat"}, "stat1")
  \/ "prepare_rw" \in again[p] /\ RwError(p, e)

(* prepare_rw succeeded.  Its lseek sets the descriptor's own position and *)
(* cannot fail on a regular file, so it is part of the read or write.      *)
PrepareOk(p) ==
  \/ /\ "prepare_rw" \notin again[p]
     /\ pc' = [pc EXCEPT ![p] = "rw"]
     /\ again' = [again EXCEPT ![p] = @ \ {"sync"}]
     /\ UNCHANGED <<fd, open_fds, reply, mgr, call, should_exist, acked>>
  \/ "prepare_rw" \in again[p] /\ BadResult(p)

Found(p) == dir[call[p].name] # None
StatSize(p) == file[dir[call[p].name]].size

(* get_disk_byte_size found a length that is not a multiple of the page    *)
(* size.                                                                   *)
Misaligned(p) == Found(p) /\ StatSize(p) % PageSize # 0
StatFails(p) == ~Found(p) \/ "stat" \in Fallible

(* First run of get_disk_byte_size in prepare_rw: stat by path.            *)
Stat1(p) ==
  /\ pc[p] = "stat1"
  /\ \/ Found(p) /\ ~Misaligned(p) /\ Goto(p, "stat2")
     \/ Misaligned(p) /\ FailedAssert(p)
     \/ StatFails(p) /\ Again(p, "stat", {}, "stat2")
  /\ UNCHANGED fs

(* Second run, then the size checks of prepare_rw.                         *)
Stat2(p) ==
  LET cursor == call[p].cursor
      grows == Grows(cursor, StatSize(p) % UMod)
  IN /\ pc[p] = "stat2"
     /\ \/ /\ "stat" \notin again[p] /\ Found(p) /\ ~Misaligned(p)
           /\ \/ ExceedsMax(cursor) /\ PrepareError(p, "DISK_EXCEEDS_MAX_SIZE")
              \/ ~ExceedsMax(cursor) /\ grows /\ Goto(p, "truncate")
              \/ ~ExceedsMax(cursor) /\ ~grows /\ PrepareOk(p)
        \/ Misaligned(p) /\ FailedAssert(p)
        \/ "stat" \in again[p] /\ StatFails(p) /\ PrepareError(p, "GET_DISK_SIZE_ERROR")
        \/ /\ \/ "stat" \in again[p] /\ Found(p) /\ ~Misaligned(p)
              \/ "stat" \notin again[p] /\ StatFails(p)
           /\ BadResult(p)
     /\ UNCHANGED fs

(* truncate by path; prepare_rw does not look at its result.               *)
Truncate(p) ==
  LET i == dir[call[p].name]
  IN /\ pc[p] = "truncate"
     /\ \/ /\ Found(p)
           /\ file' = [file EXCEPT ![i] = Resize(@, NewSize(call[p].cursor))]
           /\ Goto(p, "tsync")
           /\ UNCHANGED <<dir, mdir, media>>
        \/ /\ ~Found(p) \/ "truncate" \in Fallible
           /\ PrepareOk(p)
           /\ UNCHANGED fs

NoSync(p) == UNCHANGED fs

(* PosixDisk::sync.                                                        *)
sync(p) == Flush(fd[p])

(* The fsync in PosixDisk::truncate, argument of a macro.                  *)
TruncateSync(p) ==
  /\ pc[p] = "tsync"
  /\ \/ /\ sync(p)
        /\ \/ "sync" \notin again[p] /\ PrepareOk(p)
           \/ "sync" \in again[p] /\ BadResult(p)
     \/ /\ "fsync" \in Fallible
        /\ \/ "sync" \notin again[p] /\ Again(p, "sync", {}, "tsync")
           \/ "sync" \in again[p] /\ PrepareOk(p)
        /\ UNCHANGED fs

ShortWriteIsOk(p) ==
  LET off == Offset(call[p].cursor)
      Put(v, len) == file' = [file EXCEPT ![fd[p]] = WriteAt(@, off, v, len)]
  IN /\ pc[p] = "rw" /\ call[p].op = "write"
     /\ \/ Put(call[p].bytes, PageSize)
        \/ "write" \in Fallible /\ \E len \in 1 .. (PageSize - 1) : Put(Torn, len)
     /\ Goto(p, "wsync")
     /\ UNCHANGED <<dir, mdir, media>>

(* ::write of one page; fewer bytes than asked for are an error.           *)
Write(p) ==
  LET off == Offset(call[p].cursor)
      Put(v, len) == file' = [file EXCEPT ![fd[p]] = WriteAt(@, off, v, len)]
  IN /\ pc[p] = "rw" /\ call[p].op = "write"
     /\ \/ Put(call[p].bytes, PageSize) /\ Goto(p, "wsync")
        \/ /\ "write" \in Fallible
           /\ \/ \E len \in 1 .. (PageSize - 1) : Put(Torn, len)
              \/ UNCHANGED file
           /\ RwError(p, "UNKOWN_ERROR")
     /\ UNCHANGED <<dir, mdir, media>>

(* The fsync that ends PosixDisk::write, argument of a macro.              *)
WriteSync(p) ==
  LET n == call[p].name
  IN /\ pc[p] = "wsync"
     /\ \/ /\ sync(p)
           /\ \/ /\ again[p] \cap {"sync", "rw"} = {}
                 /\ Leave(p, "ok", 0, None)
                 /\ CloseDisk(p)
                 /\ acked' = [acked EXCEPT ![n][Slot(call[p].cursor)] = call[p].bytes]
                 /\ UNCHANGED mgr
              \/ again[p] \cap {"sync", "rw"} # {} /\ BadResult(p)
        \/ /\ "fsync" \in Fallible
           /\ \/ "sync" \notin again[p] /\ Again(p, "sync", {}, "wsync")
              \/ "sync" \in again[p] /\ RwError(p, "UNKOWN_ERROR")
           /\ UNCHANGED fs

(* ::read of one page; a page that reaches past the end is an error.       *)
Read(p) ==
  LET off == Offset(call[p].cursor)
  IN /\ pc[p] = "rw" /\ call[p].op = "read"
     /\ \/ /\ off + PageSize <= file[fd[p]].size
           /\ \/ "rw" \notin again[p] /\ Return(p, "ok", 0, file[fd[p]].page[Slot(call[p].cursor)])
              \/ "rw" \in again[p] /\ BadResult(p)
        \/ /\ off + PageSize > file[fd[p]].size \/ "read" \in Fallible
           /\ RwError(p, "READ_DISK_ERROR")
     /\ UNCHANGED fs

-----------------------------------------------------------------------------
(* The operations of PosixDiskManager.                                     *)

Start(p, c, exist) ==
  /\ pc' = [pc EXCEPT ![p] = "access1"]
  /\ call' = [call EXCEPT ![p] = c]
  /\ should_exist' = [should_exist EXCEPT ![p] = exist]
  /\ reply' = [reply EXCEPT ![p] = NoReply]
  /\ UNCHANGED <<fs, mgr, again, fd, open_fds>>

create(p, n) ==
  /\ pc[p] = "idle" /\ cur_disk_id[p] < MaxLoads
  /\ Start(p, NamedCall("create", n), FALSE)
  /\ UNCHANGED acked

KeepOpen(p) ==
  /\ pc[p] = "created"
  /\ pc' = [pc EXCEPT ![p] = "access1"]
  /\ should_exist' = [should_exist EXCEPT ![p] = TRUE]
  /\ UNCHANGED <<fs, fd, open_fds, again, reply, mgr, call, acked>>

(* create's init succeeded: the temporary disk is closed and load begins.  *)
Created(p) ==
  /\ pc[p] = "created"
  /\ \/ /\ "init" \notin again[p]
        /\ CloseDisk(p)
        /\ pc' = [pc EXCEPT ![p] = "access1"]
        /\ should_exist' = [should_exist EXCEPT ![p] = TRUE]
        /\ UNCHANGED <<again, reply, mgr, call, acked>>
     \/ "init" \in again[p] /\ BadResult(p)
  /\ UNCHANGED fs

load(p, n) ==
  /\ pc[p] = "idle" /\ cur_disk_id[p] < MaxLoads
  /\ Start(p, NamedCall("load", n), TRUE)
  /\ UNCHANGED acked

Loaded(p) ==
  LET ret == cur_disk_id[p]
  IN /\ pc[p] = "loaded"
     /\ disks' = [disks EXCEPT ![p][ret] = call[p].name]
     /\ cur_disk_id' = [cur_disk_id EXCEPT ![p] = @ + 1]
     /\ Leave(p, "ok", ret, None)
     /\ CloseDisk(p)
     /\ UNCHANGED <<fs, destroyed, acked>>

unload(p, d) ==
  /\ pc[p] = "idle"
  /\ disks' = [disks EXCEPT ![p][d] = None]
  /\ Leave(p, IF disks[p][d] = None THEN "DISK_NOT_FOUND" ELSE "ok", 0, None)
  /\ UNCHANGED <<fs, cur_disk_id, destroyed, fd, open_fds, acked>>

(* An operation on a disk id, which get_disk_path looks up first.          *)
OnDisk(p, op, d, cursor, bytes) ==
  /\ pc[p] = "idle"
  /\ \/ /\ disks[p][d] = None
        /\ Fail(p, "DISK_NOT_FOUND")
        /\ UNCHANGED fs
     \/ /\ disks[p][d] # None
        /\ Start(p, [op |-> op, name |-> disks[p][d], id |-> d,
                     cursor |-> cursor, bytes |-> bytes], TRUE)
        /\ acked' = CASE op = "write" -> [acked EXCEPT ![disks[p][d]][Slot(cursor)] = Unknown]
                      [] op = "destroy" ->
                           [acked EXCEPT ![disks[p][d]] = [k \in PageIndex |-> Unknown]]
                      [] OTHER -> acked

destroy(p, d) == OnDisk(p, "destroy", d, 0, Zero)
write(p, d, cursor, bytes) == OnDisk(p, "write", d, cursor, bytes)
read(p, d, cursor) == OnDisk(p, "read", d, cursor, Zero)
disk_byte_size(p, d) == OnDisk(p, "disk_byte_size", d, 0, Zero)
extend(p, d) == OnDisk(p, "extend", d, 0, Zero)

(* stat for disk_byte_size and extend.                                     *)
Size(p) ==
  /\ pc[p] = "size"
  /\ \/ Found(p) /\ ~Misaligned(p) /\ SizeValue(p, StatSize(p) % UMod)
     \/ Misaligned(p) /\ FailedAssert(p)
     \/ StatFails(p) /\ SizeError(p, "GET_DISK_SIZE_ERROR")
  /\ UNCHANGED fs

(* PosixDisk::destroy, argument of a macro: when it succeeds should_close  *)
(* is cleared, so nobody closes the descriptor; then unload.               *)
Unlink(p) ==
  /\ pc[p] = "unlink"
  /\ \/ /\ Found(p)
        /\ dir' = [dir EXCEPT ![call[p].name] = None]
        /\ UNCHANGED <<file, mdir, media>>
        /\ \/ /\ "unlink" \notin again[p]
              /\ disks' = [disks EXCEPT ![p][call[p].id] = None]
              /\ destroyed' = [destroyed EXCEPT ![p] = @ + 1]
              /\ Leave(p, "ok", 0, None)
              /\ fd' = [fd EXCEPT ![p] = None]
              /\ UNCHANGED <<cur_disk_id, open_fds, acked>>
           \/ "unlink" \in again[p] /\ BadResult(p)
     \/ /\ ~Found(p) \/ "unlink" \in Fallible
        /\ \/ "unlink" \notin again[p] /\ Again(p, "unlink", {}, "unlink")
           \/ "unlink" \in again[p] /\ Fail(p, "DESTROY_DISK_ERROR")
        /\ UNCHANGED fs

-----------------------------------------------------------------------------
(* The environment: a process is killed or, having died, started again;    *)
(* the machine loses power.                                                *)

Restart(p) ==
  /\ "kill" \in Accidents \/ pc[p] = "aborted"
  /\ Gone({p}, "idle", None)
  /\ UNCHANGED fs

PowerLoss ==
  /\ "power" \in Accidents
  /\ LosePower
  /\ Gone(Procs, "idle", None)

Call(p) ==
  \/ \E n \in Names : create(p, n) \/ load(p, n)
  \/ \E d \in Ids :
       \/ unload(p, d) \/ destroy(p, d) \/ disk_byte_size(p, d) \/ extend(p, d)
       \/ \E cursor \in Cursors :
            read(p, d, cursor) \/ \E bytes \in Bytes : write(p, d, cursor, bytes)

SystemCall(p) ==
  \/ Access1(p) \/ Access2(p) \/ Open(p) \/ Created(p) \/ Loaded(p)
  \/ Stat1(p) \/ Stat2(p) \/ Truncate(p) \/ TruncateSync(p)
  \/ Write(p) \/ WriteSync(p) \/ Read(p) \/ Size(p) \/ Unlink(p)

Next ==
  \/ \E p \in Procs : Call(p) \/ SystemCall(p) \/ Restart(p)
  \/ PowerLoss

Spec == Init /\ [][Next]_vars

(* A process that is not killed keeps running; nobody has to call or fail. *)
FairSpec == Spec /\ \A p \in Procs : WF_vars(SystemCall(p))

-----------------------------------------------------------------------------
(* Properties.                                                             *)

CallType == [op : DiskOps \cup {"create", "load"}, name : Names, id : Ids,
             cursor : Cursors \cup {0}, bytes : Bytes \cup {Zero}]
ReplyType == [res : Errors \cup {"ok", "bad_result", "failed_assert", None},
              val : Nat, page : Content \cup {None}]
Labels == {"idle", "aborted", "access1", "access2", "open", "created", "loaded", "stat1",
           "stat2", "truncate", "tsync", "rw", "wsync", "size", "unlink"}

(* Every variable of the manager and the file system has its type; a       *)
(* process that is inside an operation has a call, and holds a descriptor  *)
(* wherever posix_disk.cpp uses m_fd.                                      *)
TypeOK ==
  /\ FsTypeOK
  /\ disks \in [Procs -> [Ids -> Names \cup {None}]]
  /\ cur_disk_id \in [Procs -> Ids]
  /\ pc \in [Procs -> Labels]
  /\ call \in [Procs -> CallType \cup {NoCall}]
  /\ should_exist \in [Procs -> BOOLEAN]
  /\ again \in [Procs -> SUBSET Sites]
  /\ fd \in [Procs -> Inodes \cup {None}]
  /\ open_fds \in [Procs -> 0 .. MaxFds]
  /\ reply \in [Procs -> ReplyType]
  /\ destroyed \in [Procs -> Nat]
  /\ acked \in [Names -> [PageIndex -> Content \cup {Unknown}]]

(* Every file the directory names is a whole number of pages, what the    *)
(* assert(0) of get_disk_byte_size relies on: also after a write that fell *)
(* short, since prepare_rw has already made the file long enough.          *)
SizeAligned ==
  \A n \in Names :
    /\ dir[n] # None => file[dir[n]].size % PageSize = 0
    /\ mdir[n] # None => media[mdir[n]].size % PageSize = 0

(* No disk file is longer than max_disk_byte_size, whatever reads and      *)
(* writes prepare_rw let through.                                          *)
WithinMax ==
  \A i \in Inodes : file[i].size <= MaxDiskSize /\ media[i].size <= MaxDiskSize

(* A page whose write returned Ok is there, in the page cache and on the   *)
(* medium, until it is written again or its disk is destroyed: through     *)
(* reads that extend the file, failed writes, kills and power losses.      *)
AckedSurvives ==
  \A n \in Names : \A k \in PageIndex : acked[n][k] # Unknown =>
    /\ dir[n] # None /\ mdir[n] = dir[n]
    /\ file[dir[n]].page[k] = acked[n][k] /\ media[dir[n]].page[k] = acked[n][k]
    /\ (k + 1) * PageSize <= file[dir[n]].size /\ (k + 1) * PageSize <= media[dir[n]].size

(* Between operations a process has open exactly the descriptors that its  *)
(* successful destroys left behind (PosixDisk::destroy clears              *)
(* should_close): no error path, macro re-evaluation or move of a          *)
(* PosixDisk leaks one or closes one twice.                                *)
DescriptorBalance ==
  \A p \in Procs : pc[p] = "idle" => fd[p] = None /\ open_fds[p] = destroyed[p]

Returns(p, op, res) == call[p].op = op /\ pc[p] # "idle" /\ pc'[p] = "idle" /\ reply'[p].res = res

(* A read that returns Ok hands out what the last acknowledged write of    *)
(* that page put there.                                                    *)
ReadReturnsAcked ==
  [][\A p \in Procs : Returns(p, "read", "ok") =>
       acked[call[p].name][Slot(call[p].cursor)] \in {Unknown, reply'[p].page}]_vars

(* The cursor extend hands out is no page the disk already has, so the     *)
(* caller's next write overwrites nothing.                                 *)
ExtendFresh ==
  [][\A p \in Procs : Returns(p, "extend", "ok") =>
       reply'[p].val * PageSize >= file[dir[call[p].name]].size]_vars

(* A create that fails leaves no disk behind, unless it failed because     *)
(* there was one: create's own file is not orphaned by the load that       *)
(* follows it.                                                             *)
CreateAtomic ==
  [][\A p \in Procs : \A e \in Errors \ {"DISK_ALREADY_EXISTS"} :
       Returns(p, "create", e) => dir[call[p].name] = None]_vars

(* prepare_rw's truncate only ever extends a disk ("rw operation exceeds   *)
(* current disk size"): no step of a process makes a file shorter.         *)
NeverShrinks ==
  [][\A n \in Names : dir[n] # None /\ dir'[n] = dir[n] /\ "power" \notin Accidents =>
       file'[dir[n]].size >= file[dir[n]].size]_vars

(* The two runs of a macro argument agree: get_error() finds an error and  *)
(* get_value() a value.                                                    *)
ResultsAgree == \A p \in Procs : reply[p].res # "bad_result"

(* Every operation a running process starts returns or ends the process:   *)
(* the re-evaluations of the error macros come to an end even when every   *)
(* system call keeps failing.                                              *)
OperationsEnd == \A p \in Procs :
  pc[p] \notin {"idle", "aborted"} ~> pc[p] \in {"idle", "aborted"}
=============================================================================
