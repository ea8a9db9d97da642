# A verification project for copy2

copy2 copies a directory tree in parallel: crawler threads walk the source and
decide what to copy, transfer threads move file contents with Linux AIO, finish
processors put each file in place and set its metadata. This directory holds
TLA+ models of these parts, TLC configurations that check them on small
instances, and TLAPS proofs about them for instances of every size.

* [Inventory](#inventory): the parts of the program, their state, what is hard.
* [Modules](#modules): what each module models and how it corresponds to the code.
* [Runs](#runs): what TLC checks, bounds, fairness.
* [Proofs](#proofs): what is proved and how.
* [What is left](#what-is-left) and [not modelled](#not-modelled).

Run a configuration with `tlc -config MCX.cfg MCX` and check the proofs with
`tlapm` on each `*Proofs.tla`. Line numbers refer to the files under `src/`.

## Inventory

### Threads and how they meet

`main` (copy2.cpp:1434-1731) starts four OpenMP sections: the crawl, the
statistics logger, the finish processors and the transfer threads. They share

* `jobQueue` and `finishQueue` (queue.h), bounded by a counting semaphore that an
  enqueue takes from and a successful dequeue gives back to;
* `crawlDone`, set when the crawl's outermost task returns, and `scheds[i].done`,
  set by each transfer thread as it leaves its loop;
* reference counted directory descriptors (`FDRC`, fdrcguard.h): the last
  reference to a destination directory sends a *dot job*, which stamps the
  directory's own times, owner and mode;
* the semaphore `fdSem`, the budget of open descriptors;
* the staging arena, a buddy allocator behind a spinlock;
* the hard-link state, two maps behind a read-write lock, spilled to LMDB.

### Components

| component | state | operations | hard behaviours | correct when |
|---|---|---|---|---|
| transfer thread, copy2.cpp:105-570 | file slots, block slots, batch of prepared requests | one pass: advance blocks, hand over files, start blocks, take jobs, exit test, `io_submit`, `io_getevents` | requests of many files in flight, partial and failing submissions, failing requests, an exhausted arena | no request is lost, submitted twice or answered into a reused slot; every block is copied once; a file is handed over once, after its last block, with its errors counted |
| crawl, copy2.cpp:707-1143 | a task per node, descriptors, references | `processDir`, `processNonDir` | nested tasks, early returns, blocking enqueues | every node is visited; references are balanced on every path |
| queues, queue.h | items, `enqueueSem` | `enqueue`, `try_dequeue`, `wait_dequeue_timed` | full queues, producers that are consumers | nothing is lost; nobody waits for ever |
| finish processor, copy2.cpp:1145-1333 | the job in hand, its reading of the `done` flags | drain the queue; truncate, compare, remove, rename, stamp, link | one system call of several failing; when to leave the loop | a file appears only complete; every job is processed before the last one leaves |
| directory references, fdrcguard.h | `rc`, `dst` | `incref`, destructor | the last reference may die in a crawler or in a finish processor | a directory is stamped once, after everything in it, and then closed |
| destination tree, what all of them write | per name: what is there, its contents, times, owner and mode; partial files | the system calls of `processNonDir`, `finishProcessorOne`, `recursiveRemove` | an error in the middle of the chain, interrupted runs, partial files of earlier runs, a source that changes | a file appears only whole; the old one is kept till then; another run completes what one has left |
| hard links, hlinkstate.cpp | per source inode: transferred, root, pending links, count; per destination inode: source, count | register, transfer | lock promotion, counts, two tables, transfers racing registrations | link groups of the destination are those of the source |
| LMDB cache, hlinkstate.cpp:20-126 | cache, write transaction | read, write, flush, delete | flush between two reads | a pair that was written is found until it is deleted |
| descriptor budget, syscalls.h:181-243 | `fdSem` | open, close, closedir wrappers, `dup` | early returns, nested tasks that hold and wait | units taken are given back; the budget does not deadlock |
| recursive removal, copy2.cpp:578-705 | list of entries | remove tree | tasks, entries that vanish | what is not on the source is gone, nothing else |
| block arithmetic, filejob.h:9-23 | none | `blockSize`, `blockCount`, `alignUp` | boundaries | blocks partition the file; padding stays inside it |
| allocator, allocator.cpp | arenas, reference counts of path parts | allocate, free, share parts | exhaustion, shared prefixes | no part is freed in use |
| pace-removeextra.cpp | sets of names | compare two trees, remove | tasks | only extra entries are removed |

## Modules

| module | models | state and actions |
|---|---|---|
| `CopyScheduler` | one transfer thread with its kernel queue, the crawler as its producer and the other threads as rivals for the arena | below |
| `FileTransfer` | what a transfer thread promises, without slots, buffers, requests or batches | `Enqueue`, `Take`, `Settle`, `Finish`, `Stop` |
| `MCCopyScheduler` | TLC instances of `CopyScheduler` | a file of several blocks, one of them a hole, and a file of one |
| `CopySchedulerProofs` | theorems about `CopyScheduler` | the inductive invariant `IInv` |
| `CopySchedulerBlocksProofs` | theorems about the hand-over of files, their blocks, and the refinement of `FileTransfer` | the above, `PlaceInv`, `SomewhereInv`, `NumberInv` and `DataInv` |
| `Pipeline` | the four sections, both queues, the directory references and the ends of all loops | below |
| `MCPipeline` | TLC instances of `Pipeline` | a root with two files and a subdirectory with one |
| `PipelineProofs` | theorems about `Pipeline` | the inductive invariants `IInv` and `Supply` |
| `HLinkState` | the hard-link state, the crawler tasks that register names and the finish processors that transfer groups | below |
| `MCHLinkState` | TLC instances of `HLinkState` | three or four names, linked in various ways on both sides, inode numbers of one side in use on the other |
| `HLinkStateProofs` | theorems about `HLinkState` | the inductive invariants `IInv`, `Entries`, `Locks`, `Accounts`, `Copies` and `AllLive`, the order `Nearer` |
| `LinkTables` | the two LMDB tables of the hard-link state with their caches and their one transaction | below |
| `PairStore` | what these tables promise: maps that are saved now and then | `Put`, `Drop`, `Return`, `PutLost` |
| `MCLinkTables`, `LinkTablesProofs` | TLC instance and theorems of `LinkTables` | two tables, inodes, values and threads |
| `Destination` | the entries of one destination directory over several runs | below |
| `MCDestination`, `DestinationProofs` | TLC instance and theorems of `Destination` | one name, in whose place there may be a directory of two levels |
| `BlockLayout` | the block arithmetic and the bytes of one partial file | below |
| `MCBlockLayout`, `BlockLayoutProofs` | TLC instance and theorems of `BlockLayout` | an alignment of four bytes |
| `Descriptors` | the budget of open descriptors and everyone who waits for it | below |
| `MCDescriptors`, `DescriptorsProofs` | TLC instance and theorems of `Descriptors` | three directories, four files, two of them links to one or none, two removals in the way of files, one directory to be removed |

The modules are not one state machine. They meet at these points: `CopyScheduler`
implements `FileTransfer`, which is what `Pipeline` (its `TakenFilesFinish` is the
fairness assumed of `FileCopied`) and `Destination` (its `CleanFilesIntact` and the
finding against it are the outcomes of `Copy`) take a transfer thread for;
`LinkTables` implements `PairStore`, which is what `HLinkState` takes a table for, but
for one weakness that is named below; `Pipeline` justifies that in `Descriptors` a
directory's `CloseDir` comes after the last job of its entries (`DirsClosed`,
`RefsExact`); `Descriptors` has the references of pending links to their directories,
which `HLinkState` leaves out; `BlockLayout` gives the "src" and "zero" of a block in `CopyScheduler`
their bytes.

### CopyScheduler

The thread's loop is cut into the steps between which something else can happen.
`pc` names the phase of the pass; `scan` and `fscan` are what is left of the two
loops over block and file slots, visited in array order as in the code.

| code | model |
|---|---|
| `schedulerUpdateBlockCopyJob`, copy2.cpp:308-408 | `ReadDone`, `WriteDone`, `BlockDone`, `BlockFailed`; each includes what the function calls: clearing, the next block of the same slot, the deferred submission |
| second loop of `schedulerUpdate`, 495-534 | `CompleteFile`, `StartBlock`, `StartNothing`; one new block per file and pass |
| third loop, 541-559 | `TakeJob`, `FillEnd` |
| exit test, 563 | `ExitTest` |
| `schedIOSubmitBatch`, 208-254 | `SubmitSome` (any nonempty prefix accepted), `SubmitNone`, `SubmitFail` |
| `io_queue_run_timeout`, `rd_done`, `wr_done`, 105-137 | `Reap`, `ReapEnd` |
| `processNonDir` 869, `main` 1685 | `Enqueue`, `CrawlEnd` |
| other transfer threads' use of the arena | `OthersAlloc`, `OthersFree` |

`job[i]` is `fileCopyJobs[i]`, `blk[<<i, j>>]` is `blockCopyJobs[i * n + j]`. The
contents of a block are abstracted to where they come from ("src", "zero",
"junk"), which is what copying, sparseness, readback and failures can tell
apart; hashes are taken to be free of collisions. `inUse` is set just when
`data` holds a buffer of the arena. A request's outcome is "ok", "err" (negative
or short), "eof" (no byte moved, status 0) or "corrupt" (a write that stores
other bytes). `settled` and `lost` are history variables.

### Pipeline

The transfer thread is reduced to the phases that touch the queues and the
flags; that a file in a slot gets done is what `CopyScheduler` shows. Each node
of the source tree has a task: a task that waits for its taskgroup lends its
thread, so at most `NCrawlers` tasks are at work. `rc` and `dst` are the fields
of `FDRC`; `ReleasedRc` and `ReleasedDst` are the destructor of `FDRCGuard`,
which revives the count once for the dot job. An enqueue is one step, guarded by
room in the queue: taking the semaphore's unit and inserting are not observable
apart. `processDir` may end at once (`GiveUp`), or fail in `fdopendir` when the guards of
the new directory exist already (`NotListed`): the guard's destructor then has the
only reference and sends the dot job of a directory that was never listed.
`finishProcessor` reads the `done` flags (`Check`) before it drains
(`Dequeue`, `Process`, `SendDot`) and leaves only if they were all set then
(`Miss`). Sections are started in their order by a team of `TeamSize` threads.

### HLinkState

Each name of a regular file has a `pc`; a step is what happens between two lock
operations, for the readers-writer lock (`readers`, `writer`) and for the
spinlock of an entry. What one step of the code reads without the entry's
spinlock (`WrongInode`, `RevOf`) is read at the point where the code reads it
and used later. A promotion is a release and a later acquisition: `Create`,
`LookAgain`, `DropInfo`, `DropRev` and `DropGroup` start when the lock is free
for a writer, whatever has happened since.

An entry that is freed may still be found, by a name that holds it or in a table.
`UsesFreed(n)` says that the next call of `n` reads or writes such an entry, or a link
of a group that was freed when it was made. What the code does then is
undefined, so the behaviours of the model end there: every action is guarded by
`At(n, place)`, which asks that nobody is about to (`Undefined`). No property claims
anything of what would follow, and `NothingFreedUsed` says when it does not happen.

| code | model |
|---|---|
| `processNonDir`, copy2.cpp:757-813 | `Stat`, `StatFails` |
| `hlinkStateRegisterLinkRoot`: look-up, hlinkstate.cpp:164-205 | `Lookup` |
| no entry: promotion, second look, new root, 280-332 | `Reroll`, `Create` |
| an entry and a wrong inode, 193-279 | `Queue`, `Relink`, `RelinkFails`, `DropInfo` |
| the destination's inode, 335-392 | `NewRev`, `Promote`, `LookAgain`, `CountRev`, `LastRev`, `DropRev`, `EndRegister` |
| `processNonDir`, copy2.cpp:826-928 | `SendJob`, `GiveUp`, `NoJob` |
| `finishProcessorOne`, copy2.cpp:1218-1311 | `Finish`, `FinishFails` |
| `hlinkStateHandleTransfer`, hlinkstate.cpp:461-550 | `Handle`, `Transfer`, `LinkPending`, `EndTransfer`; `DropGroup` if nothing is found under the destination's inode, `DropForeign` if another group is |

`fwd` and `rev` are the two tables, keyed by inode numbers of either side (the
code does use keys of the wrong side, at 342 and 533, and so does the model:
`DropForeign` frees the entry of the other group, to which the table still leads, and
keeps the spinlock of its own, as hlinkstate.cpp:535-545 does);
their values name the entry by the name that created it, so `info[n]` and
`rinfo[n]` are the memory of an entry, with the state "freed" when the code
frees it. Contents are abstracted to the sources whose size and times a
destination inode shows: any set, as two files may agree in both. The inode of
a partial file is one that the destination does not use at the time. A source
tree is given with the link counts the crawler reads, which may be smaller than
the number of names it later meets, if links are made meanwhile. Assertions are
not part of the model, as the build of src/README.md:97 has none: they are
statements to be checked.

### LinkTables

`readPair`, `writePair`, `deletePair` and `getRDOnlyTxn` are steps, as the first runs
under the read lock and the others under the write lock or their own;
`flushCache` is part of the `writePair` that fills the cache. Reading
`getRDOnlyTxn` together with LMDB shows that it does not do what its name says: it
begins a transaction without `MDB_RDONLY`, and in an environment opened with
`MDB_NOLOCK` LMDB hands out its single write transaction, begun anew. So all
handles are one transaction (`view`), and whoever calls it first under a new
thread number takes back what was not committed. `stored` is what LMDB has
committed; `book` and `failed` are history variables. LMDB is external and
modelled as committed maps and one view.

### Destination

`dst` maps every entry to what is there: nothing, a directory, or a file with its
contents, the *key* by which copy2 compares (size and whole seconds of mtime),
owner and mode. A version of the source is a number, a change that keeps size and
second is a new version with the old key. `pc[n]` is where the task or the job of a
name is, `rm[p]` where a `recursiveRemove` is; a step is a system call that changes
something, with what the code does up to the next one, and each has a failing twin
bounded by `MaxFaults`. `Crash` forgets everything but the disk, and `StartRun`
begins another run.

| code | model |
|---|---|
| `processDir`: `--sync`, tasks, copy2.cpp:998-1128 | `ListExtras`, `Crawl`, `DirFails`; for subdirectories `CrawlDir`, `CrawlDirFails`, `Pruned` |
| `processNonDir`, 757-930 | `StatFails`, `SendMetadata`, `SendFile`, `NoFile` |
| the transfer | `Copy`: clean, with counted errors, or with errors that nobody counted |
| `finishProcessorOne`, 1145-1312 | `Check`, `Rename`, `SetTimes`, `SetOwner`, `SetMode`, `Discard` and their failures |
| `recursiveRemove`, 604-705 | `Remove`, `RemoveDir`, `RemoveFails` |

### BlockLayout

`BitCeil`, `BlockSize`, `BlockCount` and `AlignUp` are the functions of filejob.h. One
file's partial is `data`, one element for a byte, and its blocks are read and
written in any order by at most `Slots` block jobs; `Put` is the write of a block
with the zeros that pad it to the alignment. Requests do not fail here.

### Descriptors

`fdSem` is the semaphore, `fds` the descriptors that are open, each with its
holder. The places of `at` are the points of `processDir`, `processNonDir`,
`finishProcessorOne` and `recursiveRemove` between two calls that open or close
something; an open waits for a unit. A task that waits for its group lends its
thread to another one, so at most `Crawlers` nodes are between two such points
(`CanRun`), and a finish processor that removes a directory is busy with it
(`CanFinish`). `lost` and `excess` are history variables.

`info` says of each file with several names whether one of them is the root, and
whether it has been transferred. The first name that is looked at becomes the root
(`BecomeRoot`), with descriptors to open ("opening") or, if only its metadata are to
be set, without ("stamp"). Another name is linked at once (`SkipFile`), or waits
("pending", `WaitForRoot`) with a reference to its directory, whose destination
descriptor is therefore not closed (`CloseDir`) before the root's transfer releases
it (`HandOver`, hlinkstate.cpp:488). If the root fails behind its registration, that
never happens. Left to `HLinkState`: a linkat that fails with the locks held, and a file
that is copied under two names.

## Runs

| run | question | bounds |
|---|---|---|
| `scheduler_safety` | do requests, block numbers, buffers and files stay straight; does the thread implement `FileTransfer`? | files of three (one a hole) and one blocks, 2 x 2 slots, an arena of two buffers; failing and empty requests, partial and failing submissions |
| `scheduler_liveness` | is every file handed over, does the loop end, does readback catch corruption? | files of two and one blocks, failures, corrupted writes, a rival |
| `aio_error_unreported` | violated: a failed request is reported | |
| `pipeline_safety` | one place for each job, exact reference counts, stamps last, nothing after the finish processors | three files, two directories, two threads in each pool, queues of three, early returns |
| `pipeline_liveness` | main returns | two files, two directories, two transfer threads, one finish processor |
| `lost_job` | violated: every job is copied | |
| `hlink_safety` | one root for a group, queued names served, contents, counts, no entry freed in use, nothing used that was freed, locks, no good name spoiled | three names, three source trees, in one of which a source inode is the number of another group's new file; two old inodes on the destination, one with a link outside the tree; failing system calls |
| `hlink_stale_root` | violated: every name has its source's contents | three names of one file |
| `link_tables` | are the two tables maps, whatever is flushed, deleted and begun, and do they implement `PairStore`? | two tables, keys, values and thread numbers, caches of one pair (flushed at two), failing commits |
| `destination` | never half a file, never a stale one that passes for fresh, the old kept till the new is whole, clean runs mirror, and some run does | a name with every initial state, partial files, a tree of three in its place, `--sync` or not, two failures, one interruption, two changes of the source |
| `block_layout` | do the blocks with their padding make up the file, in whatever order they are written? | sizes 0 to 18 around multiples of an alignment of 4, eight pairs of limits, leftovers shorter and longer, every set of zero blocks |
| `descriptors` | does the semaphore count what is open, is nothing closed too early, what stays open, what budget suffices? | three directories, four files of which two are links to one, in two directories, two removals in the way, an extra directory, three crawlers, two finish processors, budgets 6 and 13, three failures |

The bounds are the smallest at which the cases meet: two files compete for
slots, a file has more blocks than slots, so that block numbers are reused, a
batch of more than one request can be split, and the arena is smaller than the
slots' demand. In `Pipeline` the last reference of a directory can die in a
crawler and in a finish processor, both queues fill up, and the second transfer
thread or finish processor can leave while the first works. Threads of a pool
are symmetric in `pipeline_safety`, which checks no liveness.

In `HLinkState` three names are enough for a root, one name behind it and a
stranger that shares the destination's inode, or for a group of which one name
comes before and one after the root's transfer. The old inodes 1 and 3 are also
inode numbers of some source tree, so that keys of the wrong side collide. A use
of an entry after it was freed needs a fourth name, met after the entry's count is
down to zero: `EntriesKept` was checked so too, and is proved. The foreign
entry of `DropForeign` needs a group whose count comes to zero with its last transfer,
that is, one of which two names are copied, and whose new file has the number of
another source inode: that is the second tree of `hlink_safety`. The model
may stop when all names are done, when a lock was left held (`LockLost`) and when
somebody is about to use what was freed (`Undefined`); any other deadlock would be
reported.

Names of `Destination` do not interact but through their directory, so one name is
enough; two failures make a chain in which the call fails and its clean-up fails
too, and an interruption before or after them leaves what the next run starts
from. In `Descriptors` the budget of 13 is the first that `HeldInWait` calls
sufficient: with 12 the same instance deadlocks, so the bound is exact there; 6
is below it and lets the safety properties see those who wait. `LinkTables`
needs two tables because a flush of one commits the transaction of both.

`CHECK_DEADLOCK` is off in `block_layout`, which ends when the file is finished, and in
`descriptors`, which ends when everybody has and where too small a budget is a
deadlock of the code, told apart by `EveryoneEnds`.

The type invariants that are proved for every instance (of `CopyScheduler`,
`Pipeline`, `HLinkState`, `LinkTables`, `BlockLayout`, `Descriptors` and `Destination`) are not checked again in
the runs.

### What the runs found

* `aio_error_unreported`: copy2.cpp:401-407 counts the block of a failed request
  as finished and does not increment `nErrors`, although a failed submission does
  (234). The file is renamed into place with a block missing.
* `lost_job`: the exit test reads `crawlDone` after the dequeue missed; a job
  enqueued in between is left behind and its directory is never stamped.
* `hlink_stale_root`: until the root is transferred `destInode` is that of the root's
  old file. A second name on that file passes for one that is linked already, is
  copied itself and may be transferred first. Then a third name is linked to the
  root's name while it still is the old file, whose contents it keeps. A build with
  assertions stops at hlinkstate.cpp:479 when the group is transferred again.

Other instances of the same modules show more. They are not runs of their own,
and each is reproduced by changing the constants or the properties of a cfg:

* `MCPipelineLive.cfg` with `MaxFDs = 1`, or with `Files = {x, y, z}` and its queues of two:
  the one finish processor has a dot job to enqueue into a full queue that only it
  empties, and everything stops. The cfg itself has as few jobs as its queue has
  room for. The queues are as long as `--max-FDs` (copy2.cpp:1607).
* The same with `TeamSize` 2: the finish section waits for a transfer section that no
  thread is left to start.
* `MCHLinkStateSafe.cfg` with `MCSingles` and `LinksPreserved`: what was read of the
  rev table under the read lock (176) is used after the promotion (320). Two names
  that are linked on the destination only, and look alike, both find nothing and
  are both left linked.
* The same cfg with a fourth name `d`, `MCFour`, `MCNewInodeFour`, `MCExtraFour` and the
  action constraint `NoFailure` (a million states): the group's entry is freed and a
  name comes after that, and `EntriesKept` holds; it fails if `CanWrite` overlooks the
  readers.
* The same cfg with `MCForeign` as its source (the group whose entry was freed is
  transferred itself, which is where the behaviours end) or with `MCStranger` (the third
  name has a number of its own): all of its properties hold.
* `LinkTables` with `StaysDeleted` free of its condition `begun = Threads`: a pair that
  had been committed and is deleted comes back when a new thread number first calls
  `getRDOnlyTxn`, within six steps. `PairStore!Return` is this weakness.
* `BlockLayout` without `Apart`: block sizes that are no multiple of 4096 (they come
  from an odd `--min-block-size` or `--max-block-size`) pad into the next block and may
  destroy it. A block size of zero finishes a file without its contents.
* `Descriptors` with a budget of at most `HeldInWait`: directories of a deep tree and
  removals in the finish processors hold all units and wait for one more.

Writing the modules showed more, which the properties exempt by a condition with
a name, so that what is left can be checked:

* a linkat that fails at hlinkstate.cpp:222 returns with both locks (`failed`);
* a name linked on the source after the crawler saw the root with one link is
  queued, and never linked, as the root's `stx_nlink` is 1 (`Unchanged`);
* hlinkstate.cpp:342 looks in the rev table with the source's inode. If that number is
  an inode of the destination too, another file's entry is counted down, and
  `DropRev` may keep its spinlock (`Apart`);
* a name of a group that is copied twice may be linked to either file, and to a
  stale one (`CopiedTwice`, in `NamesCopied` and `NeverSpoiled`);
* nobody counts down `nlinkRC` for a pending name, so the entries of most groups
  are never freed, and those that are belong to groups that are transferred twice or
  are met more often than their root's link count said;
* a second transfer of a group goes once more through the links that the first one
  made and freed (`CopiedTwice`, in `NothingFreedUsed`);
* the last transfer looks its group up by the inode on the destination (hlinkstate.cpp:533).
  If that number is the source inode of another group, that group's entry is freed while
  the table leads to it, and the spinlock of the own one is kept (`DropForeign`;
  `NothingFreedUsed` and `LocksReleased` exempt it by `Apart`);
* the names that wait for a root that fails wait for ever, and each keeps its directory
  open on the destination and without its stamp: one failure may cost as many
  descriptors (`HeldDirs`, in `AllClosed`);
* a fifo, socket or device with several names gets no job, so the names behind the
  first wait for ever with nothing having failed;
* the name that makes an HLinkInfoRev counts itself among its links
  (hlinkstate.cpp:351) and never counts it down, so these are never freed at all;
  with four names, of which one has a number that is an inode of the other side
  too, one is counted below zero and wraps (`EntriesKept` exempts it by `Apart`);
* the mode is compared with the one before the chown (copy2.cpp:1280), which strips
  set-id bits: one run leaves such files without them, the next sets them (`SetId`);
* a file in the place of a source directory is never removed: mkdirat's EEXIST is
  accepted and the open after it fails, in every run (`Mirrored`);
* a partial that cannot be unlinked is opened with what it holds, which blocks of
  zeros do not overwrite with `--sparse` (`Lost`, `NoneSkipped`);
* a directory on another device, and every early return of `processDir`, leaves
  descriptors open and their units taken; a failed dup takes one for nothing, and a
  failed fdopendir gives one back too early (`lost`, `excess`, `AllClosed`).

A block size above the copy buffer arena is retried for ever (copy2.cpp:279, 517):
the options are not related to one another anywhere. `scheduler_liveness` has an arena
that can hold a block of every file.

### Fairness

`CopyScheduler!FairSpec`: the thread loops (`WF`), the kernel answers each
request, whose event is there at some later look (`SF`, as the thread looks only
in the "reap" phase), the crawler makes progress and ends, another thread gives
a buffer back. `Pipeline!FairSpec`: every thread runs (`WF` for each), and a file
in a slot is copied some day (`SF`, as the thread leaves the phase in which it
notices): `TakenFilesFinish` of `CopyScheduler`. Nothing is assumed of the order
in which the queues serve their waiters. `Destination!FairSpec`: the threads run on,
each task and job takes its steps, and copy2 is started again after it ended or was
interrupted (`StartRun`); failures, interruptions and changes of the source are
bounded, so that they are over some day, which is what `EventuallyMirrored` is about.
`Descriptors` takes steps while it can (`WF` of `Next`): each behaviour
of it is finite, so no more is said than that the program goes on; whoever
waits for a unit need not be the one that gets it.

## Proofs

`CopySchedulerProofs` proves, for any set of files, any block counts, any number
of slots and any arena, of `CopyScheduler!Spec`:

* `TypeCorrect`: `[]TypeOK`. The counters are naturals, so `nScheduled` must not be
  decremented at zero; this needs that it counts the blocks in use.
* `NoRequestLost`: `[]RequestsTracked`.
* `NoBufferShared`: `[]BuffersExclusive`.
* `BatchBounded`: `[]BatchFits`, the assertion of `schedIOSubmitDeferred`: the batch
  is free of duplicates, so the slots bound its length. No run checks this one.

`CopySchedulerBlocksProofs` goes on to the files and their blocks:

* `HandedOverUntouched`: the action property `FinishedUntouched`. To `IInv` it adds
  `PlaceInv`: a file is still with the crawler, in the queue, in one slot or
  finished, never in two of them. Only a block slot in use is written through, its
  file slot is active (`RequestsTracked`), and the file of an active slot is not a
  finished one (`PlaceInv`).
* `NoFileLostOrDoubled`: `[]FilesConserved`, from `PlaceInv` and `SomewhereInv` (a file is
  in one of these places).
* `NoBlockSkippedOrDoubled`: `[]BlocksOnce`. `NumberInv` says that the blocks in use have
  different numbers, that none of these is settled, and that a number is below
  the next one just when it is running or settled. `BlockDone`, `BlockFailed` and
  `StartBlock` are one kind of step to it (`SlotMove`): the old block of a slot is
  settled, and the slot is empty or has the next number. The cardinalities follow.
* `CleanMeansCopied`: `[]CleanFilesIntact`. `DataInv` says what the stage of a block
  implies for its bytes (`BlockData`), while no request of its file is lost and the
  devices are `Trusted`: a block about to be read has zeros on the destination, so
  skipping one of zeros is right; a block being written has the source's bytes;
  what is read back is what is there. It needs `NumberInv`, which keeps a write
  away from the other blocks, and the error that `SubmitFail` counts.
* `ThreadImplementsTransfer`: `Spec => ImplementsFileTransfer`. `Enqueue`, `TakeJob`,
  `CompleteFile` and an `ExitTest` that leaves the loop are `Enqueue`, `Take`, `Finish` and
  `Stop`; `BlockDone`, `BlockFailed` and `SubmitFail` are a `Settle` of one block or, with
  the batch, of blocks of several files; everything else is not seen.

The `IInv` of `CopySchedulerProofs` adds to its properties

* `ScanInv`: what the update loop has still to visit is in use and answered: an
  advance changes only the slot it visits;
* `FscanInv`: what the completion loop has still to examine is active;
* `CountInv`: `nScheduled` is the number of block slots in use, and
  `nScheduled + nFinished` never exceeds the number of blocks. This is what makes
  `CompleteFile` safe: when `nFinished` has reached the number of blocks, no slot
  of the file is in use, hence none in flight (`FinishedFileIdle`);
* `JobnoInv`: a block in use has a number below the next one, hence one of the
  file.

There is a lemma per action, over lemmas on a change of one slot
(`OneSlotRequests`, `OneSlotBuffers`, `OneSlotInUse`, `OneSlotCount`,
`OneSlotJobno`) and on the counters. The assumptions are those of
`CopyScheduler`: finitely many files, natural block counts, nonempty buffers,
at least one slot of each kind.

`PipelineProofs` proves, for any tree, whatever `processNonDir` decides of each file, for
any numbers of threads and any bounds, of `Pipeline!Spec`: `TypeCorrect`,
`NoJobDoubled` (`[]JobsInOnePlace`), `RefsAreCounted` (`[]RefsExact`),
`LastHomeLeavesNothing` (`[]NothingAfterFinish`), `ClosedInTheEnd` (`[]DirsClosed`) and
`StampedLast` (`DirsStampedLast`). Its `IInv` says

* `Hands`, `Placed`: what a thread has in hand agrees with where it is, and a job is
  with one task, in one queue, one slot or one hand, or finished;
* `Nested`: the task of an entry runs only while that of its directory lists or waits;
* `Lives`: a directory is opened, listed as a whole or not at all, has its last
  reference turned into its dot job, and is stamped, in this order; its count is
  positive exactly while it has its destination descriptor or a dot job, and the dot
  job holds the only reference;
* `Counts`: the count is its own task's reference, those of its entries' tasks and
  those of its files' jobs and its dot job. This is what makes a release safe: who
  releases is one of those counted, so the count is not zero, and who drops the
  last one knows that nobody else is left;
* `Ends`: `crawlDone` means that the root's task is done, a transfer thread that left
  is idle and saw `crawlDone`, a finish processor that leaves saw all transfer
  threads done, and when all have left the queue is empty: the last to leave
  looked at the flags before it found nothing.

`Nested` is what ties the tree to the ends: with the root's task done no task is at
work anywhere, by going up from node to parent. That needs no induction in
the proof because `TreeAssumption` says it of sets: a nonempty set of nodes that has the
parents of its members has the root. The other assumptions are finitely many
nodes and at least one thread of each kind.

`HLinkStateProofs` proves, for any names, source trees and destinations, of
`HLinkState!Spec`:

* `OneRootOnly`: `[]OneRoot`, the point of the second look after the promotion.
* `NobodyLeftQueued`: `[]PendingServed`.
* `TypeCorrect`: `[]TypeOK`.
* `EntriesAreKept`: `[]EntriesKept`.
* `LocksAreReleased`: `[]LocksReleased`.
* `CountedExactly`: `[]CountedOnce`.
* `AllCopied`: `[]NamesCopied`.
* `NothingSpoiled`: `NeverSpoiled`.
* `FreedIsLeftAlone`: `[](~failed => NothingFreedUsed)`. TLC checks `NothingFreedUsed` with
  failures too.

They speak of the code up to the first use of something freed (`Undefined`), where the
behaviours of the specification end. `FreedIsLeftAlone` says that this does not come, if
no call has failed, no number is an inode of both sides, the names of each group were all there and
no group is copied twice.

For the first two `IInv` has three parts. `Shape` is the part of the types that the argument
needs (of `source`, `fwd` and `info`; the counts play no role). `InTable` says
that a live entry is the one its source's inode leads to in the forward table;
`OneRoot` follows, as a table has one entry for a key. It is kept because
`Create` adds an entry only where there is none, and because `DropInfo` removes
the entry it frees; `DropForeign` frees an entry without removing it, which leaves
a dangling reference, and no live entry astray. `PendingServed` is
inductive beside `Shape`: a name is queued only while the entry is not
transferred, and the spinlock is held until all queued names are linked.

The others rest on `Entries`. A lemma for each action (`LookupDoes`, ...) says what it
does in terms of `Types`, and the rest of the proof uses these lemmas:

* `Led`, `Registering`: what a name knows of itself. Until it has been looked up it
  is in nobody's queue, so nobody changes its inode, and what it read is still so;
* `InHand`, `TableLive`: who is at an entry is a reader, what the forward table leads
  to is live and has the inode it is found by. An entry is freed by a writer, when no
  reader has it in hand, and the foreign key of `DropForeign` leads nowhere (`Apart`);
* `Revs`: the count of an HLinkInfoRev exceeds the names that may count it down
  (`Left`). They are, while `LookAgain` finds nothing (`Apart`), those whose own inode
  leads to it, which only become fewer, and its maker found at least as many links
  and itself (`LinksEnough`). So no name ever gets to `droprev`, and none is freed.

`Locks`, while no call has failed, says for each lock at which places its holder may
be; with `droprev` out of reach, each of them goes on to release it.

`Accounts` is for the counters. A name is *owed* while it has been seen and is not
counted: it is at work, or in a queue (`Owed`). `Ledger` says that the counted and the
owed are the seen, exactly while no call has failed. It rests on `Kinship`: a name is in
one queue at most, that of a root of its own inode, and has no job of its own then; so
the crawler and the root do not both count it. What is left to show is that nobody is
owed in the end. That needs `Whole`, which holds while no call has failed and the
names of a group were all there when the first was looked at (`Unchanged`): the
count of a root's entry covers all that may still count it down (`May`), so nobody
ever removes it from the forward table (`NoDrops`); so a root finds its own entry and
its queue when it is transferred, and has work to do until the queue is empty
(`RootsWork`). A queue has two names of one inode, hence the root saw
two links and its finish processor handles them.

`Copies` adds, while no call has failed, what the files hold:

* `AllHold`: a name that is copied, and a root that need not be (`Holder`), holds its
  source's contents once it is past its job. Nobody else changes such a name, and the
  file that a copy goes to is nobody's before (`Fresh`);
* `RootsServed`, `OldRoots`: an entry marked as transferred is that of a root past its
  transfer, unless the group is copied twice. It holds too when the entry of an
  earlier root was dropped and another made (`Droppers`, `OneDropper`); so whoever
  finds the mark links to a file that is not going to be replaced;
* `AllSettled`: a name that is neither copied nor a root holds the contents already, is
  linked, or is queued; in the end nobody is owed, so nobody is queued.

`FreedIsLeftAlone` rests on these: `AllLive` says that the HLinkInfo of every group
that was all there is live or not made yet (`NoDrops`, `Apart`), and `TransferredOnce` that
a root about to transfer its group finds it not transferred (`RootsServed`), so that no
link was freed before.

The assumptions are those of `HLinkState` on names and inode numbers.

`LinkTablesProofs` proves, for any tables, keys, values, thread numbers and cache
size, of `LinkTables!Spec`: `NoPutWaits` (`[]OnlyDeletesUncommitted`), `WrittenIsFound`
(`[]WrittenFound`), `DeletedStaysAway` (`StaysDeleted`) and `Refinement`
(`ImplementsPairStore`): the initial state is one of `PairStore`, and each step is a
step or a stutter of it, `GetRDOnlyTxn` a `Return`, a flush a `Put` with its `Save`, and
one whose commit fails a `PutLost`. The inductive invariant is `TypeOK`,
`OnlyDeletesUncommitted`, and what `WrittenFound` says of pairs that are in the
book: it is inductive because a flush puts every pair of its cache, and all others
of its table are in the view.

`BlockLayoutProofs` proves, for any sizes, limits, alignment and number of slots,
`TypeCorrect`, `HandedOverExact` (`[]ContentExact`), `FinishedBlocksStay`
(`[]FinishedStays`) and `SpaceSuffices` (`[]SpaceReserved`). The argument is the
arithmetic: blocks `k` and `l` of a whole number of units do not meet even with
their padding (`AlignUp` of what a block has is at most its size, and the end of
the last block's is that of the file), so that a write of `l` leaves the bytes of a
finished `k` alone; the invariant says that of each finished block, and that bytes
of blocks not yet written are zeros unless there was a leftover. One assumption,
`BitCeilAssumption`, stands for what needs induction (that `2^n >= n`): that
`BitCeil` has a value. TLC evaluates it for the sizes of the run.

`DescriptorsProofs` proves, for any finite tree, any files in the way, any budget
and any number of threads and failures, `TypeCorrect`, `BudgetCounts`
(`[]BudgetExact`), `DescriptorsStayOpen` (`[]StillOpen`) and `LittleIsLeft`
(`[]AllClosed`). Its `IInv` says which
descriptors each place of `at` holds (`Holding`), so that an open adds one that was
not there and a close removes as many as it gives back; and that children are at
work only while their directory waits for them (`Behind`, `ExtraBehind`), so that
what closes a directory finds nobody who uses it. `LittleIsLeft` adds a count of what
nobody is going to close (`Left`): a failure adds three at most, and then a unit is
given back, or two, or one with a unit taken for nothing (`Ledger`). When everyone has
ended or waits for a root that failed, that is all that is open, but for one descriptor
of each directory with names that wait. `Linked` says that the root of a name that waits is
registered and on its way to its transfer, unless something failed: so nobody is left
waiting without a failure.

`DestinationProofs` proves, for any names, trees in their place, files, failures,
interruptions and changes of the source, `TypeCorrect`, `UpToDateIsEqual`
(`[]FreshMeansEqual`), `OnlyWholeFiles` (`[]NeverHalfWritten`), `LeftoversAreRetried`
(`[]PartialMeansRetry`), `NoFileLostForNothing` (`RemovedOnlyForNew`) and
`CleanRunsMirror` (`[]CleanRunMirrors`). Its `IInv`
follows a name through its job:

* `JobAt` says what each step may take for granted of the partial, and after the
  rename of the name: it is whole, it has the contents that go with the job's key;
* `Known` orders the keys: the job's is not newer than its version, nor that newer than the
  source's, and a name shows no key of the future. So a key that is the source's and
  tells versions apart is that of the version read, and no change of the source can
  make an old file look fresh;
* `Retry` is `PartialMeansRetry` at all times, not only between runs: a partial is
  opened for a name that differs from the source, and from then on only the
  rename, which takes the partial away, makes the name look like the source;
* `Removals` says that what is removed has its phase or its job waiting for it, so
  that no removal runs on into somebody else's step; with `Tree` it also gives that
  a directory that is removed is empty.

For `CleanRunsMirror`, `Clean` says of a run in which nothing has failed or changed how far
each name has got (`NameDone`): what its job has found and made of the name, from the
partial to the times, the owner and the mode; and that what is to be removed is absent
or has its removal under way (`Going`), down to the kids of a listed directory, so that
a directory is empty when its own removal comes.

The assumptions are those of `Destination`: names and what is below them are
different things, and a tree in the place of a name has two levels at most.

### What liveness rests on

Liveness itself (`TakenFilesFinish`, `ThreadEnds`, `MainReturns`, `EventuallyMirrored`,
`EveryoneEnds`) is only model-checked: fairness and `ENABLED` are out of the
prover's reach. What is proved, for instances of every size, are the two safety facts
that each of them rests on, and `BlockLayout` too: at no time is everyone waiting (`SomebodyGoesOn`), and no
work is done twice, so that it is over some day (`WorkRunsOut`, `StepsRunOut`,
`RerollsRunOut`, `RunsEnd`). What fairness has to add is that who can take a step
takes it. The guards that these theorems spell out (`CanGo`, `SomebodyCanGo`, ...) were
compared with `ENABLED` in every reachable state of the instances of the runs.

| module | nobody is stuck | nothing goes round in circles |
|---|---|---|
| `CopySchedulerBlocksProofs` | `SomebodyGoesOn`: the thread has a next step in each of its loops until it returns; every file in a slot has all its blocks finished, or a request on its way, or a block that will be started when a buffer is free, and a buffer that is not free has a holder | `WorkRunsOut`: a step that is no poll takes a block or a file to a stage that it does not leave again; the stages are finitely many |
| `PipelineProofs` | `SomebodyGoesOn`: with a thread for each section there is somebody with something to do until main returns | `WorkRunsOut`: the same for the task and the job of each node and for the sections |
| `HLinkStateProofs` | `SomebodyGoesOn`: of those who wait for the readers-writer lock or a spinlock one has what the others wait for | `RerollsRunOut`: every step is `Nearer` the end, the rerolls among them |
| `DestinationProofs` | `SomebodyGoesOn`: every removal goes on, at its root or below; every name does, or what is removed for it; and so does the directory, or what it waits for | `RunsEnd`: a step of a run uses up a stage of the first of directory, names, entries, kids and their kids that it touches |
| `BlockLayoutProofs` | `SomebodyGoesOn`: until it is handed over a file has a block to start or a request under way, and then its own length and no request | `StepsRunOut`: each step is one less of a number fixed when the file is opened |
| `DescriptorsProofs` | `SomebodyGoesOn`: with a budget above `HeldInWait` the waits for units, for crawler threads, for taskgroups and for finish processors are never all there is | `StepsRunOut`: each step of a task or job is one less, whatever fails |

The exceptions that these theorems name are real:

* `AllSendDots` (`Pipeline`): all finish processors send a dot job into the full queue. It
  is reached with more jobs than the queue has room for (see
  [above](#what-the-runs-found)), and it is the only way to stop half-way with four
  threads;
* `Buffers[x] = {}` (`CopyScheduler`): a block size that no buffer of the arena serves;
* `failed`, `Apart` and `Undefined` (`HLinkState`): a lock that an error path keeps, a number
  that is an inode of both sides, and the end of behaviours before a use of something freed;
* `maxFDs > HeldInWait` (`Descriptors`).

How they are proved:

* `Pipeline`: `Supply` adds to `IInv` that, once a finish processor has gone home, those that
  look for jobs are as many as the jobs in the queue (`LastJobs`): each dot job that is
  still sent comes from one that will look again. If nobody can go on, a full queue has
  somebody to empty it, so no task waits for room; the deepest directory at work has no
  entry at work and is not waiting (`Deepest`: a nonempty set of directories has one that is
  the parent of none of them, since a parent map on a finite set would else be a
  permutation without the root); so the crawl is over, and the sections end in turn.
* `Descriptors`: `Shares` splits what is open among those who hold it. When everyone waits for
  a unit, each of the crawler's directories holds at most what `HeldInWait` counts for it,
  and so do the jobs, of which each file has one under one name (`OneRootEach`, a part of
  `Linked`); the sum is below the budget, so a unit is there. The same
  lemma on deepest directories shows that a taskgroup waits for somebody who is at work.
* `HLinkState`: by `Locks`, who waits to be the only reader holds no spinlock, and who spins
  holds the lock as a reader. `Nearer` counts the stages ahead of all names (`Ahead`), then
  the names that roots have still to link (`ToLink`), then the names whose place does not
  agree with what the forward table says by now (`Outdated`). A reroll makes its own name
  agree, and only a step that leaves a stage behind makes others disagree.
* `CopyScheduler`: `Reached` says which stages a block or file is in or past; a slot's request is
  of one block, so a step takes one block on. In the batch that is given up
  (copy2.cpp:220) several go on at once.
* `Destination`: `Found` adds to `IInv` that a name which is no file any more, by the time its
  task comes to it, is not taken for up to date: a change gives it a new key, and the
  destination has none of the future (`Known`). Removals go two levels down
  (`TreeAssumption`), and the lowest that is under way waits for nothing.

They need a little more of the constants than the invariants do: finitely many names,
kids, extra entries and finish processors, a transfer that can succeed, a decision of
the crawler for each file, and that in `Descriptors` the root is a directory from which all
others hang (`RootAssumption`). All of them hold of any run of the program.

What is proved of each kind, then: every safety invariant, every action property and every
refinement that a passing run checks (`NothingFreedUsed` while no call has failed), and of
its liveness properties the above.

## What is left

The modules of the plan are written; what could be added is

* of `HLinkState`, symbolic links;
* in `Destination`, two names that are linked, composed with `HLinkState`.

## Not modelled

* Vendored code: LMDB, xxHash, the moodycamel queues, the buddy allocator,
  bytesize. It is about nine tenths of the lines under `src/` and is taken at its
  interface: the queues as sets with a capacity (no order is promised between
  producers, and none is used), the buddy allocator as a choice among free aligned
  ranges, LMDB as committed maps and one transaction, hashes as free of
  collisions. Modelling it would be a verification of other projects.
* pace-removeextra.cpp, a tool of its own that compares two listings as `--sync` does
  and removes what is extra with plain recursion; `Destination` has this in copy2's
  own form.
* allocator.cpp: carving the arenas at start-up, and the reference counted parts of
  paths, which are owned by one task or job at a time. The counts that threads
  share, those of the directories, are in `Pipeline`.
* Options and start-up: they run before the first thread; the values they let
  through are constants of the modules. The program refuses an allocator that is not
  larger than the copy buffer and the threads' memory (copy2.cpp:1578); the
  relations of block size, arena, queue lengths and budget that the modules ask for it
  does not check.
* Formatting and logging (logging.h, the logger's text), benchmarks, tests, and the
  debugging aids of lmdb-misc.c.
* Reads inside LMDB by two threads at once, which the shared transaction makes a
  data race.
