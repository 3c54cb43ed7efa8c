--------------------------- MODULE DiskRefinement ---------------------------
(***************************************************************************)
(* One PosixDiskManager, with a directory to itself, implements the disk   *)
(* manager DiskStore describes: system calls, retries and failures are     *)
(* steps of one operation that takes effect once.                          *)
(***************************************************************************)
EXTENDS PosixDiskManager

(* The process that has the directory to itself.                           *)
TheProc == CHOOSE p \in Procs : TRUE

(* The disks, as their files show them to a process.                       *)
DiskOf(n) == [k \in {k \in PageIndex : dir[n] # None} |-> file[dir[n]].page[k]]

RequestOf(c) == [op |-> c.op, name |-> c.name, id |-> c.id,
                 page |-> Slot(c.cursor), bytes |-> c.bytes]

(* The abstract state, part by part.                                       *)
AbsDisk == [n \in Names |-> DiskOf(n)]
AbsSafe == {s \in Names \X PageIndex : acked[s[1]][s[2]] # Unknown}
AbsIds == disks[TheProc]
AbsIssued == 0 .. (cur_disk_id[TheProc] - 1)
AbsReq == RequestOf(call[TheProc])
AbsAns == reply[TheProc]
Deaths == {"bad_result", "failed_assert"}
PowerFails == "power" \in Accidents

Store == INSTANCE DiskStore WITH
  Pages <- PageIndex, Contents <- Content, Blank <- Zero, Absent <- None,
  disk <- AbsDisk, safe <- AbsSafe, ids <- AbsIds, issued <- AbsIssued,
  req <- AbsReq, ans <- AbsAns

(* Every behaviour of one manager is one of the abstract disk manager: no  *)
(* call that the error macros of result.h repeat, no partial failure, kill *)
(* or power loss makes an answer of PosixDiskManager false, takes back     *)
(* what a write promised, or changes a page nobody is writing.             *)
ImplementsDiskStore == Store!Spec
=============================================================================
