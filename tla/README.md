# lewsql: a TLA+ verification project

lewsql is a small relational storage engine in C++: a disk manager that keeps
paged disks in files, a buffer manager (mostly commented out at this commit), a
heap organizer for tables, and the lexer of an SQL compiler. This directory
holds TLA+ models of its parts, the TLC configurations that check them on small
instances, and TLAPS proofs of what can be proved for every instance.

## 1. Inventory

| component | state | operations | used by |
|---|---|---|---|
| disk manager (`disk_manager/src`) | `disks`: id to file name, `cur_disk_id`; one open descriptor while an operation runs; the files | `create`, `load`, `unload`, `destroy`, `read`, `write`, `extend`, `disk_byte_size`; queries `exists`, `is_loaded`, `num_loaded_disks`, `loaded_disk_name` | Heap, (buffer manager) |
| `Result` and its macros (`library/src/result.h`) | none | `PROP_IF_ERROR`, `UNWRAP_OR_PROP_ERROR`, `get_value`, `get_error` | disk manager |
| bitmap (`library/src/bitmap.*`) | `num_bits` bits in an allocated array | `set_bit_val`, `clear_bits`, `serialize`, `deserialize`; queries | page tracker, Heap |
| page tracker (`buffer_page_tracker/`) | a bitmap | forwards to it | buffer manager |
| buffer manager (`buffer_manager/src`) | `mem_pool_map`, tracker | `add_page_mem_pool_map` and `get_page_mem_pool_map`, which nothing calls yet; the bodies of `pin`, `unpin`, `set_dirty` and eviction are commented out | Heap |
| replacement, page allocator | none | `get_victim` always throws; the allocator ends in `assert(0)` | buffer manager |
| heap organizer (`organizers/src/heap.*`) | free list, full list and slot bitmaps, all in pages | constructor, `insert_tuple`, `append_to_full_pages` | nobody yet |
| tuples and types (`organizers/src/tuple.*`, `types/`) | cells | `serialize`, `size` | Heap |
| character stream and lexer (`compiler/src`) | a stream, a position | `has_next_token`, `get_next_token`, `get_next_char`, `peek_next_char`, `put_back_char` | driver |
| driver (`driver/src/run.cpp`) | none | tests of the lexer | |
| logger, tests, SQL grammar | none of interest | | |

How the parts interact: everything is a plain call in one thread. Every disk
manager operation looks an id up, opens the file, works and closes it again;
nothing is cached and nothing is locked, so managers of different processes (or
two managers of one process) that share a directory meet only in the file
system, between any two system calls.

What is hard in this code:

- *A call made twice.* `PROP_IF_ERROR(c)` and `UNWRAP_OR_PROP_ERROR(c)` are
  macros that paste `c` where it is tested, where its error is taken and where
  its value is taken. A failed call is therefore made again, and the second
  result is asked for the error of the first; a successful one inside `UNWRAP`
  is made twice. The macros nest three deep (`sync` in `PosixDisk::write` in
  `PosixDiskManager::write`), so one page write can become a dozen system calls.
- *Partial failure.* A short `write`, a failed `fsync`, a `truncate` whose
  result nobody looks at.
- *Crashes.* A kill or a power failure between `truncate`, `write` and `fsync`.
- *Stale reads.* `exists` then `open`, `stat` then `truncate`, with another
  manager in between.
- *Arithmetic.* The cursor is a signed 32-bit number, the page size an unsigned
  one: their product wraps. Boundaries at `max_disk_byte_size`. Rounding of
  bits to bytes in the bitmap.
- *Limits.* `destroy` leaves its descriptor open; the page pool fills up.
- *Pages that come and go.* `Heap` changes a page between `pin` and `unpin`; unless
  it called `set_dirty` the change is gone when the page leaves memory. The table
  is reached through a disk id that differs from one load to the next.

What makes each part correct:

- disk manager: an acknowledged page survives; reads return it; the file is
  always a whole number of pages and never above the maximum; descriptors
  balance; `extend` names a page that is not in use; a failed `create` leaves
  nothing behind; every operation ends.
- bitmap: bits are independent, round-trip through a page, and the first free
  bit is one nobody holds.
- lexer: tokens are the words of the text, all of them, in order, and positions
  are exact; its loops end.
- buffer map: no two disk pages share a buffer page, and the tracker counts the
  mapped pages.
- heap and tuples: a tuple stays where it was put while pages come and go, no slot
  is used twice, pins balance, an insertion ends, the root is never used for tuples.

`PROJECT.json` lists each hazard at its line with the property that would
notice it.

## 2. Modules

| module | models |
|---|---|
| `FileSystem` | external: one directory of files, the page cache and the medium |
| `PosixDiskManager` | `posix_disk_manager.cpp`, `posix_disk.cpp`, the macros of `result.h` |
| `DiskStore` | the interface `disk_manager.h`: what a disk manager promises one process, without files |
| `DiskRefinement` | the mapping under which `PosixDiskManager` implements `DiskStore` |
| `MCPosixDiskManager` | instances, symmetry and view of the former |
| `PosixDiskManagerProofs`, `DurabilityProofs` | their proofs: for any number of managers, and for one |
| `DiskRefinementProofs` | the proof that one `PosixDiskManager` implements `DiskStore` |
| `Bitmap`, `MCBitmap`, `BitmapProofs` | `bitmap.cpp`, through the calls of `bitmap_tracker.cpp` and `heap.cpp` |
| `BufferMap`, `MCBufferMap`, `BufferMapProofs` | `mem_pool_map` of `buffer_manager.cpp` over `Bitmap` as the tracker |
| `PagePool` | external: the pages of a disk as `pin`, `unpin` and `set_dirty` give them |
| `Tuple` | `tuple.cpp` and the sizes of `types/` as operators |
| `Heap`, `MCHeap`, `HeapProofs` | `heap.cpp`, composed of `PagePool` and `Tuple` |
| `Lexer`, `MCLexer`, `LexerProofs` | `lexer.cpp`, `char_stream.cpp`, and the loop of `test_lexer` in `run.cpp` |

### PosixDiskManager

State. `disks` and `cur_disk_id` are the members of `PosixDiskManager`; `fd` is
`m_fd` of the `PosixDisk` in use (with `should_close`, it is `None` once the
object no longer closes it); `open_fds` counts the descriptors the process has
open. `call` and `should_exist` are arguments on the stack. `pc` names the
system call that comes next. `destroyed` and `acked` are history: how many disks
the process destroyed, and the last content of each page that a write
acknowledged. A write or destroy that has begun makes the pages it is about
`Unknown` until it is acknowledged: nothing is promised of them meanwhile.

One action is one system call and the code up to the next one, so managers of
different processes interleave, and crashes happen, between any two:

| `pc` | code |
|---|---|
| `access1`, `access2` | the two evaluations of `exists` in `UNWRAP_OR_PROP_ERROR`, `PosixDisk::init` |
| `open` | `open(O_RDWR \| O_CREAT)`, which creates a missing file whatever `should_exist` says |
| `created`, `loaded` | the rest of `create` and `load` |
| `stat1`, `stat2` | the two evaluations of `get_disk_byte_size` in `prepare_rw`, then its checks |
| `truncate`, `tsync` | `PosixDisk::truncate`, whose result `prepare_rw` ignores, and its `fsync` |
| `rw`, `wsync` | `lseek` with `::read` or `::write`, and the `fsync` after a write |
| `size` | `get_disk_byte_size` for `disk_byte_size` and `extend` |
| `unlink` | `PosixDisk::destroy` and the `unload` that follows |

`again` is the set of macro arguments that are in their second evaluation. A
failure adds its site to the set and jumps back to where the argument starts;
a success of a second evaluation, or a failure of the second evaluation after a
first success, is `BadResult`: `get_error` or `get_value` has nothing to return
and the process ends (the functions are `noexcept`). The build modelled is the
one with assertions, which is what `run_build.sh` makes.

The queries `exists`, `is_loaded`, `num_loaded_disks` and `loaded_disk_name`
change nothing and are not actions. Creating the manager object is `Init`, and
`Restart` of a process.

### FileSystem

A file is a length and the content of each page-sized slot. `dir`/`file` are what
processes see, `mdir`/`media` what a power failure leaves. `fsync` copies a file
and the directory entry that names it; a power failure keeps any part of what was
not synced, also a part of a page (`Torn`) and a length without its data.
A page may be torn by a short write too. `close` and `lseek` do not fail.

### Bitmap

A byte is the set of its bits that are 1. The array has `num_bits / 8` bytes, as
the constructor allocates it; the bytes behind it that the functions touch are
somebody else's memory: `ForeignWrite` may change them at any time. `page` is the
image in a page; `taken` and `saved` are history.

### DiskStore and DiskRefinement

`DiskStore` is the disk manager without files. A disk is a map from page to
content; `safe` is the set of pages whose last write was acknowledged; `ids` and
`issued` are the loaded ids and those ever handed out. An operation is a request
(`Invoke`), steps in which it may take effect (`Effect`: create a blank disk, put the
page or a torn one, remove the disk) and an answer (`Respond`). An Ok is a promise
(`Promise`): the page holds what was written and is safe from now on; the page read
is the one on the disk; the id is new; `disk_byte_size` and `extend` are beyond
every safe page. An error promises only what its name says of the disk's existence.
`Die` and `Crash` forget the ids; a crash may change everything but the safe pages.

`DiskRefinement` maps one `PosixDiskManager` to it: the disks are what the files
show, the safe pages those with an acknowledged content, the request is `call` with its
cursor turned into a page. `ImplementsDiskStore` says that every step then is one of
`DiskStore` or none: the dozen system calls of an operation, repeated by the macros or
failing halfway, look to the caller like one that takes effect. That ids name a disk
and not a file (after a destroy and a create an old id reaches the new disk) is part
of it. It is about one manager: with two the mapping fails, since a request of
the other changes pages nobody here is writing.

### BufferMap

`mem_pool_map` is a function of functions, both partial. The caller looks a disk page
up and, when `get_page_mem_pool_map` throws, adds it at the page the tracker names.
`remove_page_mem_pool_map` has no live body, so the pool only fills up.

### PagePool, Tuple and Heap

`pin`, `unpin` and `set_dirty` have declarations and commented-out bodies. `PagePool`
models them from how `heap.cpp` uses them: `page` is what a caller finds, `disk` what
is stored; an unpinned page leaves memory at any time (`Evict`), written back when
dirty and forgotten otherwise. When the Heap object ends its id is unloaded: what it
left dirty can no longer be written under that id and is lost, as in a kill.

`Tuple` gives the place of each cell. `Type::size` returns `bool`, so each cell
advances the cursor by one byte whatever its width: `tuple_serialize` writes cells over
each other's upper bytes. A byte is `<<tuple, cell, byte of the cell>>`.

`Heap` is cut at the calls of `pin`:

| `pc` | code |
|---|---|
| `construct` | the root is pinned in the constructor, which then writes it |
| `find` | `find_free_page` |
| `extend`, `link` | no page with room: `extend`, then the free list is set to `m_disk_id` |
| `take` | the assertion on the page, which is then pinned |
| `fill` | bitmap and tuple |
| `append` | `append_to_full_pages`, the walk along the list included (`Walk`) |
| `finish` | `set_dirty` and `unpin` |
| `overrun` | the tuple was written past the end of the page; not followed further |
| `walk` | a walk that does not end |

The bitmap of a page is the set of its taken slots: `bitmap_size` is odd, so
`serialize` and `deserialize` copy all of its bytes, and nothing runs between them that
could disturb the one byte behind the allocation (`Bitmap` is about that byte). `rows`
and `saved` are history: where tuples were stored, and which of them reached the disk.

### Lexer

One action is one turn of a loop. `pc` tells the call in progress; the caller may
ask `has_next_token` before `get_next_token` or not. A character is a model
value: a word character, a blank, a newline, or the byte 0xFF, whose value as a
`char` equals `eof()`, so that `peek_next_char` returns an empty optional for it
and `value()` throws (`char` is signed, as on the platforms the build targets).
A stream that goes bad does the same.

## 3. Runs

Passing (each takes at most a couple of minutes):

| run | instance | shows |
|---|---|---|
| `DiskSolo` | one manager, two loads of one name, cursors 0..2 with three pages of maximum, two contents, two descriptors, killed anywhere | `AckedSurvives`, `ReadReturnsAcked`, `ExtendFresh`, `CreateAtomic`, `NeverShrinks`, `DescriptorBalance`, `TypeOK` |
| `DiskFaults` | one page and one refused cursor, three ids; every call may fail, once or for ever, `write` also by falling short; fair processes | `ImplementsDiskStore`, `OperationsEnd`, `AckedSurvives`, `DescriptorBalance` |
| `DiskCrash` | two pages, two contents, power failures, with failing `fsync` and short `write` | `ImplementsDiskStore`, `SizeAligned`, `AckedSurvives` |
| `DiskShared` | two managers on one directory, all interleavings of system calls | `WithinMax`, `DescriptorBalance`, `TypeOK` |
| `BitmapBytes` | sizes 2, 5 and 8 with bytes of four bits | `BitsKept`, `FirstFreeExact`, `TypeOK` |
| `BufferMap` | two disks of three pages, pools of 2, 4 and 5 pages with bytes of two bits | `NoSharedBuffer`, `NoPageLeaked` |
| `HeapRows` | tables of four schemas, up to nine tuples, ids 0 to 2, six pages of four slots; evictions, closes, reopens and kills anywhere | `LowBytesKept`, `SlotsMatchRows`, `PinsBalanced`, `InsertEnds`, `TypeOK` |
| `LexerWords` | all texts of up to six characters | `TokensAreWords`, `NoWordLost`, `PositionExact`, `LoopEnds`, `TypeOK` |

Violated, each a finding in `PROJECT.json`:

| run | what happens |
|---|---|
| `DoubleEvaluation` (`ResultsAgree`) | one `fsync` that fails once ends the process, since its second evaluation succeeds |
| `CursorWrap` (`WithinMax`) | cursor -1 passes the size check (its new size wraps to 0) and extends the disk to the end of the 32-bit range |
| `BitmapTail` (`AllBitsKept`) | a size that is no multiple of 8: the last bits are not cleared or saved |
| `HeapFreeList` (`RootHoldsNoTuple`) | `insert_tuple` stores `m_disk_id` as the head of the free list; with id 0 the second insertion fails `assert(free_disk_page != ROOT_PAGE)` |

Met while modelling, without a run of their own: the page that would fill a disk to
exactly `max_disk_byte_size` is refused (`>=`, `posix_disk.cpp:125`); a `truncate` that
fails, followed by a short `write`, leaves a file that is no whole number of pages, and
its next use fails the `assert(0)` of `get_disk_byte_size`; with two managers on one
directory a `truncate` to a stale size cuts off the other one's page; a page of the heap
has more slots than bytes (`heap.cpp:120`), so tuples run past its end before it is
full; of cells wider than a byte only the low byte survives (`type.h:24`).

Bounds and why they are enough.

- `PageSize` is 2, the least that lets a write fall short; `NumPages`, 3 to 8,
  stands for 2^32 / `page_size`: the range of an unsigned offset. Page sizes are
  powers of two, so an offset that wraps is still the start of a page.
- `MaxDiskSize` 6 (three pages) gives two cursors that are allowed, one at the
  limit and (in `DiskShared`) one beyond it: the disk grows twice and then refuses.
- One name: operations on two names share nothing but `cur_disk_id` and the
  descriptor count, which several loads of one name and repeated destroys exercise.
- `MaxLoads` bounds ids: two let a disk be loaded twice, destroyed through one id
  and created again under the other's feet; the third id of `DiskFaults` also loads
  the new disk. `MaxFds` bounds descriptors so that the
  leak of `destroy` reaches the limit.
- `Inodes` is a pool: an inode is free for `open` when no directory entry, on the
  medium or not, and no process refers to it. `2|Names| + |Procs|` always suffice.
- Symmetry permutes processes, inodes and contents, which the specification
  only compares for equality; the runs with symmetry check invariants and
  step properties only, the liveness run has none. `VIEW` leaves out the content of
  inodes nothing refers to, which `CreateEntry` empties before anyone sees them.
- Bytes of four bits: two bytes in eight bits, and each kind of size (a multiple
  of the byte, odd, even and no multiple). The content of the memory behind the
  allocation is all zeros or all ones.
- `HeapRows`: four slots and three bytes behind the bitmap keep the inequality of the
  code (more slots than bytes). A table without columns fills a page up to the full
  list without an overrun; one-byte, two-byte and mixed columns meet the overlaps.
  Nine tuples are what it takes to fill two pages in two lives of a table, where a
  full list that was kept would send `append_to_full_pages` on its walk. It may
  stop at an overrun, so it does not check deadlock. `MaxPages` bounds the disk: a pin
  beyond it ends the process.
- `BufferMap`: bytes of two bits give pools of one byte, of two, and of two and a half,
  the last with memory the tracker does not own.
- `LexerWords` ends when the caller is told there are no more tokens or an
  exception leaves it, so it does not check deadlock. `MaxTokens` bounds how long
  the caller goes on without asking `has_next_token`.

Fairness. `FairSpec` asks weak fairness of each process's next system call: a
process that is neither killed nor stopped runs on, and a system call returns.
Nothing makes a caller call, a call succeed or a process restart. `Heap` asks weak
fairness of the steps inside a call, which run in the caller's thread. `Lexer` asks
the same of its own loop, in the caller's thread.

## 4. Proofs

The proof modules are checked by TLAPS from the named assumptions of the modules
alone. Every invariant, step property and refinement that a passing run checks is a
theorem here, for every value of the constants. Each inductive invariant was first checked by TLC.

**Any number of managers** (`PosixDiskManagerProofs`), interleaving, failing and
crashing as they may:

- `TypeCorrect`: `Spec => []TypeOK`. `TypeOK` is not
  inductive: that a descriptor is closed at most once, and that `file[fd[p]]` and
  `dir[call[p].name]` are applied inside their domains, depends on where each
  process is. `IInv` adds to the types, for each process (`ProcOK`), that a
  process inside an operation has a call, that it holds a descriptor at the labels
  where the code uses `m_fd`, that holding one means it is counted in `open_fds`, and
  that one past `prepare_rw`'s checks has a cursor that passed them.
- `SizeBounded`: `NoWrapCursors => (Spec => []WithinMax)`: no file exceeds
  `max_disk_byte_size`. The hypothesis, that no caller passes a cursor whose offset and
  new size leave the unsigned range, is what `CursorWrap` shows to be needed.
- `DescriptorsBalance`: the descriptors that are open are the one in use and those of
  successful destroys (`AllBalanced`), at every label and not only between operations.

**One manager** (`DurabilityProofs`). The theorems assume `OneManager` (nobody else works
on the directory: the code takes no lock, and section 3 says what two managers do to each
other) and `NoWrapCursors`. Nothing is assumed of failures, kills and power
losses unless it is said.

- `AckedPagesSurvive`. The inductive invariant `DInv` adds to `IInv` and `WithinMax` that
  an inode has one name (`OneName`), and what a place in the code says of the file
  (`SoloOK`): the descriptor in use is the named file's, the size `prepare_rw` read
  is still smaller than the new one when it truncates, the page waiting
  for its `fsync` is there, and the page being written or removed is not promised.
- `ReadsReturnAcked` follows from it, since a read that returns Ok has the descriptor of
  the named file; `FilesNeverShrink` follows from what holds before `truncate`.
- `SizesAligned` assumes `ShortWritesInside`: `write` does not fall short, for any
  number of managers, or else one manager's `truncate` does not fail. Without it
  the property is false: a `truncate` that fails and a `write` that then falls short leave
  a file that is no whole number of pages (section 3). The invariant says that from
  `truncate` on the file has the room for the page (`AllRoom`).
- `CreatesAtomic` assumes that `access` and `open` do not fail. They must not: when the
  `load` inside `create` fails, the file stays behind. The invariant follows a create:
  no file before its `open`, its own file after it (`AllCreates`).
- `ExtendIsFresh` needs no `OneManager`.

**The refinement** (`DiskRefinementProofs`): `ManagerImplementsStore`,
`Spec => ImplementsDiskStore` for one manager and `NoWrapCursors`, whatever fails and
whenever power is lost. The invariant `RInv` adds to `DInv` that a file reads as zeros beyond
its length (`ZeroBeyond`), and that only `create` has init create a file (`PlaceOK`). A step
of the process has one of four shapes, and each shape is mapped once:

| the step | is in `DiskStore` |
|---|---|
| goes on inside the operation (`Goes`) | `Work`, with the effect the step has, if any (`GoesMaps`) |
| returns an error (`RepliesError`) | `Respond`, with an excuse that must be true of the disk (`ErrorMaps`) |
| returns Ok | `Respond`, with a promise that must be kept (`OkMaps`) |
| ends the process (`Dies`) | `Die`, perhaps with an effect (`DiesMaps`) |

What remains is what each system call shows the disks. `open` creates one (`CreateDisk`),
`write` puts a page of one disk and no other since an inode has one name (`FileDisk`),
`unlink` removes one, also when the re-evaluated macro then ends the process;
`truncate` shows nothing, by `ZeroBeyond`. A power failure is `Crash` because
`AckedSurvives` holds before and after it. The mapping needs one assumption on contents,
`UnknownAssumption`: nobody writes the marker of a page of which nothing is promised.

**Bitmap and buffer map.**

- `BitsAreKept`, `TypeCorrect`: for every size, width
  of a byte and content of the memory behind the allocation. The induction needs
  `PageKept` (the page holds what was saved), and that a bit's byte and place in
  the byte determine it (`BytePlaceUnique`).
- `FirstFreeIsExact` is about sizes that are a whole number of bytes, as the property is:
  there all bits lie in the allocation (`WholeBytes`), so that the scan and the counts
  see what callers left.
- `NoBufferShared` and `NoBufferLeaked` add to the bitmap's invariant that the buffer
  pages in the map are exactly the tracker's taken bits (`Marked`) and as many as the
  map has entries (`Counted`).

**Heap** (`HeapProofs`): `TypeCorrect`, `PinsAlwaysBalance`, `LowBytesSurvive`,
`BitmapsMatchRows`, `NeverWalks`, for any number of pages, slots and bytes and any schemas.
The inductive invariant `HInv` is a conjunction of named parts:

- `PinsOK`: how often each page is pinned at each place in the code;
- `PoolOK`: only a dirty page, or the one being filled, differs from the disk, so an
  eviction never changes what a caller finds;
- `MemoryOK`, `DiskOK`: each page holds, in its *first* slots, exactly the tuples stored
  there. That taken slots are a prefix is what makes the overlapping cells harmless: a
  tuple runs over its end, but only into slots that are still free (`FillPage`), and the
  next one there overwrites no low byte in front of it (`SerializeWrites`);
- `ListsOK`: a page is appended to the full list only when the free list names it, and then
  the free list goes on naming it, so that the next insertion fails its assertion
  before anything can be appended again. Hence `NeverWalks`: the loop of
  `append_to_full_pages`, which would not end, is never entered. `InsertEnds`
  rests on it.

**Lexer** (`LexerProofs`): `TypeCorrect`, `TokensAlwaysWords`, `NoWordIsLost`,
`PositionIsExact`, for every set of texts. The invariant `LInv` says where the lexer is in
the text: between tokens not inside a word and with all words passed returned
(`Between`), in a token with the characters since a word's beginning (`Within`). `RunIsWord`
is the heart: a run of characters with white space or an end on both sides is the next word.

Only model-checked: liveness (`OperationsEnd`, `InsertEnds`, `LoopEnds`), which is out
of the prover's reach.

## 5. Not modelled

- The buffer manager's `pin`, `unpin`, `set_dirty`, eviction and write-back: they have no
  live code, and `PagePool` stands for them.
- The allocator (its `init` ends in `assert(0)` in every case), the replacement algorithm
  (always throws), the bounds checks of `BufferPage`, which `Heap` passes with constant
  offsets only.
- `Heap::get_next_tuple` and `delete_tuple` (empty). Tuples of different columns in one
  table: `insert_tuple` does not check them (`is_valid_tuple` is not called), a table
  here has one schema. What a page overrun does to the memory behind it. Two Heap objects
  of one table at a time. Failures of the disk below `pin`. A constructor whose `create`
  and `load` both fail leaves by an exception and changes nothing.
- The tokens of test case 5 of the driver (`run.cpp:63`): the case expects punctuation
  as tokens of its own, which the lexer, splitting at whitespace only, does not give.
- `put_back_char` (no caller), printing operators, the logger, the SQL grammar.
- Disk paths: a name stands for `dir_path + "/" + name + suffix`; two names never
  give one path.
- Failures of `close` and `lseek`: the first is ignored by the destructor, the second
  cannot happen on a regular file.
- Reuse of an id or wrap-around of `cur_disk_id` after 2^32 loads.

## 6. Plan

1. done: `FileSystem`, `PosixDiskManager` with its runs, `TypeCorrect` and
   `SizeBounded`; `Lexer`; `Bitmap` with `BitsAreKept`.
2. done: `DiskStore` and the refinement; `BufferMap`; `PagePool`, `Tuple` and `Heap`.
3. done: theorems for every invariant and step property that a run checks.
4. done: the refinement `ImplementsDiskStore` as a theorem.
