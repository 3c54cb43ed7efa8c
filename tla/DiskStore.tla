----------------------------- MODULE DiskStore ------------------------------
(***************************************************************************)
(* What class DiskManager promises the one process that uses it: disks are *)
(* maps from page to content, an operation takes effect at once somewhere  *)
(* between its call and its return, and a page whose write returned Ok is  *)
(* safe: no later failure, kill or power loss changes it.                  *)
(*                                                                         *)
(* There are no files, sizes, descriptors or retries here.  A disk is      *)
(* reached through the ids load and create return, which name the disk and *)
(* not the file behind it: after destroy and create they reach the new one.*)
(***************************************************************************)
EXTENDS Integers

CONSTANTS
  Names,     \* disk names
  Ids,       \* disk ids
  Pages,     \* page indices
  Contents,  \* what a page may hold
  Blank,     \* the content of a page nobody wrote
  Torn,      \* the content of a page a failed write left behind
  Absent,    \* no name, no request, no answer
  PageSize,  \* bytes of a page
  Deaths,    \* how a process may end by itself
  PowerFails \* whether the machine may lose power

VARIABLES
  disk,    \* name -> its pages (none when there is no such disk)
  safe,    \* the pages <<name, page>> whose last write was acknowledged
  ids,     \* id -> the name it was loaded for, or Absent
  issued,  \* the ids handed out so far
  req,     \* the operation in progress
  ans      \* the answer to the last one

vars == <<disk, safe, ids, issued, req, ans>>

Request == [op : {"create", "load", "destroy", "write", "read", "disk_byte_size", "extend"},
            name : Names, id : Ids, page : Pages, bytes : Contents]
NoDisk == [k \in {} |-> Blank]
NoRequest == [op |-> Absent, name |-> Absent, id |-> 0, page |-> 0, bytes |-> Blank]
NoAnswer == [res |-> Absent, val |-> 0, page |-> Absent]

SafePagesOf(n) == {s \in safe : s[1] = n}

Init ==
  /\ disk = [n \in Names |-> NoDisk]
  /\ safe = {}
  /\ ids = [d \in Ids |-> Absent]
  /\ issued = {}
  /\ req = NoRequest
  /\ ans = NoAnswer

(* An operation begins.  What it is about to overwrite or remove is no     *)
(* longer promised.                                                        *)
Invoke ==
  /\ req = NoRequest /\ req' \in Request /\ ans' = NoAnswer
  /\ req'.op \in {"create", "load"} \/ req'.name = ids[req'.id]
  /\ safe' = CASE req'.op = "write" -> safe \ {<<req'.name, req'.page>>}
               [] req'.op = "destroy" -> safe \ SafePagesOf(req'.name)
               [] OTHER -> safe
  /\ UNCHANGED <<disk, ids, issued>>

(* What the operation in progress may do to the disks, at any time and as  *)
(* often as it is retried; a step may also do nothing.                     *)
Effect ==
  \/ UNCHANGED disk
  \/ /\ req.op = "create" /\ disk[req.name] = NoDisk
     /\ disk' = [disk EXCEPT ![req.name] = [k \in Pages |-> Blank]]
  \/ /\ req.op = "write" /\ disk[req.name] # NoDisk
     /\ \E v \in {req.bytes, Torn} : disk' = [disk EXCEPT ![req.name][req.page] = v]
  \/ /\ req.op = "destroy"
     /\ disk' = [disk EXCEPT ![req.name] = NoDisk]

Work == req # NoRequest /\ Effect /\ UNCHANGED <<safe, ids, issued, req, ans>>

(* What an Ok means, operation by operation.                               *)
Promise(a) ==
  CASE req.op \in {"create", "load"} ->
         /\ disk'[req.name] # NoDisk
         /\ a.val \notin issued /\ issued' = issued \cup {a.val}
         /\ ids' = [ids EXCEPT ![a.val] = req.name]
         /\ UNCHANGED safe
    [] req.op = "destroy" ->
         /\ disk'[req.name] = NoDisk
         /\ ids' = [ids EXCEPT ![req.id] = Absent]
         /\ UNCHANGED <<safe, issued>>
    [] req.op = "write" ->
         /\ disk'[req.name] # NoDisk /\ disk'[req.name][req.page] = req.bytes
         /\ safe' = safe \cup {<<req.name, req.page>>}
         /\ UNCHANGED <<ids, issued>>
    [] req.op = "read" ->
         /\ disk'[req.name] # NoDisk /\ a.page = disk'[req.name][req.page]
         /\ UNCHANGED <<safe, ids, issued>>
    [] req.op = "disk_byte_size" ->
         /\ \A s \in SafePagesOf(req.name) : (s[2] + 1) * PageSize <= a.val
         /\ UNCHANGED <<safe, ids, issued>>
    [] req.op = "extend" ->
         /\ \A s \in SafePagesOf(req.name) : s[2] < a.val
         /\ UNCHANGED <<safe, ids, issued>>

(* An error promises nothing of the operation, except where it says        *)
(* whether there is such a disk.                                           *)
Excuse(a) ==
  /\ a.res = "DISK_ALREADY_EXISTS" => req.op = "create" /\ disk[req.name] # NoDisk
  /\ a.res = "DISK_NOT_FOUND" => disk[req.name] = NoDisk
  /\ UNCHANGED <<safe, ids, issued>>

Respond ==
  /\ req # NoRequest /\ req' = NoRequest
  /\ Effect
  /\ \/ ans'.res = "ok" /\ Promise(ans')
     \/ ans'.res \notin {"ok", Absent} \cup Deaths /\ Excuse(ans')

(* Operations that only look at the ids: unload, and any operation on an   *)
(* id that is not loaded.                                                  *)
Unload(d) ==
  /\ req = NoRequest
  /\ ids[d] # Absent /\ ids' = [ids EXCEPT ![d] = Absent]
  /\ ans' = [NoAnswer EXCEPT !.res = "ok"]
  /\ UNCHANGED <<disk, safe, issued, req>>

Refuse(d) ==
  /\ req = NoRequest
  /\ ids[d] = Absent
  /\ ans' = [NoAnswer EXCEPT !.res = "DISK_NOT_FOUND"]
  /\ UNCHANGED <<disk, safe, ids, issued, req>>

(* The process ends, perhaps as the operation takes effect, and another    *)
(* one starts with no disk loaded.                                         *)
Die ==
  /\ Effect
  /\ ids' = [d \in Ids |-> Absent] /\ issued' = {}
  /\ req' = NoRequest /\ ans'.res \in {Absent} \cup Deaths
  /\ UNCHANGED safe

(* The machine loses power: only the safe pages are sure to be there.      *)
Crash ==
  /\ PowerFails
  /\ \A s \in safe : disk'[s[1]] # NoDisk /\ disk'[s[1]][s[2]] = disk[s[1]][s[2]]
  /\ ids' = [d \in Ids |-> Absent] /\ issued' = {}
  /\ req' = NoRequest /\ ans' = NoAnswer
  /\ UNCHANGED safe

Next ==
  \/ Invoke \/ Work \/ Respond \/ Die \/ Crash
  \/ \E d \in Ids : Unload(d) \/ Refuse(d)

Spec == Init /\ [][Next]_vars
=============================================================================
