----------------------------- MODULE FileSystem -----------------------------
(***************************************************************************)
(* The part of a POSIX file system the disk manager uses: one directory of *)
(* disk files, their contents as the page cache shows them, and what of    *)
(* both has reached the storage medium.                                    *)
(*                                                                         *)
(* External to lewsql: modelled from the calls of posix_disk.cpp (access,  *)
(* open, stat, truncate, lseek, read, write, fsync, unlink).  A file is    *)
(* its length in bytes and the content of every page-sized slot a 32-bit   *)
(* offset can address.                                                     *)
(***************************************************************************)
EXTENDS Integers, FiniteSets

CONSTANTS
  Names,     \* disk names, the keys of the directory
  Inodes,    \* pool of file identities
  Bytes,     \* page contents a caller may write
  PageSize,  \* page_size, in bytes
  NumPages   \* number of page-sized slots a 32-bit unsigned offset addresses

None == "none"
Zero == "zero"   \* the content of a slot nobody wrote
Torn == "torn"   \* a slot only part of which was written

ASSUME PageSizeAssumption == PageSize \in Nat /\ PageSize > 1
ASSUME NumPagesAssumption == NumPages \in Nat \ {0}
ASSUME InodesAssumption == None \notin Inodes
ASSUME BytesAssumption == Zero \notin Bytes /\ Torn \notin Bytes

(* The range of C++ `unsigned int`, 2^32 in the program.  A page size that *)
(* is a power of two divides it, so an offset that wraps is still the      *)
(* start of a page.                                                        *)
UMod == PageSize * NumPages

PageIndex == 0 .. (NumPages - 1)
Content == Bytes \cup {Zero, Torn}
File == [size : 0 .. UMod, page : [PageIndex -> Content]]
EmptyFile == [size |-> 0, page |-> [k \in PageIndex |-> Zero]]

VARIABLES
  dir,    \* directory as processes see it: name -> inode
  file,   \* contents as processes see them (page cache)
  mdir,   \* directory entries on the medium
  media   \* contents on the medium

fs == <<dir, file, mdir, media>>

FsTypeOK ==
  /\ dir \in [Names -> Inodes \cup {None}]
  /\ mdir \in [Names -> Inodes \cup {None}]
  /\ file \in [Inodes -> File]
  /\ media \in [Inodes -> File]

FsInit ==
  /\ dir = [n \in Names |-> None]
  /\ mdir = [n \in Names |-> None]
  /\ file = [i \in Inodes |-> EmptyFile]
  /\ media = [i \in Inodes |-> EmptyFile]

(* truncate: the length becomes n; what lies beyond it reads as zeros.     *)
Resize(f, n) ==
  [size |-> n,
   page |-> [k \in PageIndex |-> IF k * PageSize < n THEN f.page[k] ELSE Zero]]

(* write of len bytes at the page-aligned offset off.                      *)
WriteAt(f, off, v, len) ==
  [size |-> IF off + len > f.size THEN off + len ELSE f.size,
   page |-> [f.page EXCEPT ![off \div PageSize] = v]]

(* open with O_CREAT of a name that has no entry.                          *)
CreateEntry(n, i) ==
  /\ dir' = [dir EXCEPT ![n] = i]
  /\ file' = [file EXCEPT ![i] = EmptyFile]
  /\ media' = [media EXCEPT ![i] = EmptyFile]
  /\ UNCHANGED mdir

(* fsync of a file: its contents and the entry that names it are on the    *)
(* medium.                                                                 *)
Flush(i) ==
  /\ media' = [media EXCEPT ![i] = file[i]]
  /\ mdir' = [n \in Names |-> IF dir[n] = i THEN i ELSE mdir[n]]
  /\ UNCHANGED <<dir, file>>

(* What the medium may be missing of the files it or the directory names.  *)
Named == {dir[n] : n \in Names} \cup {mdir[n] : n \in Names}
Dirty == {s \in (Inodes \cap Named) \X PageIndex :
            file[s[1]].page[s[2]] # media[s[1]].page[s[2]]}
Resized == {i \in Inodes \cap Named : file[i].size # media[i].size}
Renamed == {n \in Names : dir[n] # mdir[n]}

(* Inode i after a power failure that let the lengths of L, the slots of D *)
(* in full and the slots of T in part reach the medium.                    *)
Survivor(i, L, D, T) ==
  LET size == IF i \in L THEN file[i].size ELSE media[i].size
      page(k) == IF <<i, k>> \in T THEN Torn
                 ELSE IF <<i, k>> \in D THEN file[i].page[k] ELSE media[i].page[k]
  IN Resize([size |-> size, page |-> [k \in PageIndex |-> page(k)]], size)

(* A power failure: of everything not flushed, directory entries included, *)
(* any part may have reached the medium.                                   *)
LosePower ==
  \E N \in SUBSET Renamed, L \in SUBSET Resized, D \in SUBSET Dirty :
    \E T \in SUBSET (Dirty \ D) :
      /\ dir' = [n \in Names |-> IF n \in N THEN dir[n] ELSE mdir[n]]
      /\ mdir' = dir'
      /\ file' = [i \in Inodes |-> Survivor(i, L, D, T)]
      /\ media' = file'
=============================================================================
