------------------------- MODULE MCPosixDiskManager -------------------------
(* Instances of PosixDiskManager for TLC.                                  *)
EXTENDS DiskRefinement, TLC

CONSTANTS p1, p2, i1, i2, i3, i4, n1, b1, b2

(* With MaxDiskSize of 6 and PageSize of 2: two cursors prepare_rw allows, *)
(* one at the limit and one beyond it.                                     *)
ValidCursors == 0 .. 3

(* -1 is the last page of the unsigned range; 8 wraps to page 0.           *)
WrappingCursors == {-1, 0, 1, 8}

NoCalls == {}
AllCalls == SysCalls

(* Process, inode and content names are interchangeable.                   *)
Symmetry == Permutations(Procs) \cup Permutations(Inodes) \cup Permutations(Bytes)

(* The contents of an inode that nothing refers to are gone: CreateEntry   *)
(* empties it before anyone can see it again.                              *)
Live == {dir[n] : n \in Names} \cup {mdir[n] : n \in Names} \cup {fd[p] : p \in Procs}
Seen(f) == [i \in Inodes |-> IF i \in Live THEN f[i] ELSE EmptyFile]
View == <<dir, mdir, Seen(file), Seen(media), mgr, ctl, call, should_exist, acked>>
=============================================================================
