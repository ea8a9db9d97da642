--------------------------- MODULE CopyScheduler ---------------------------
(***************************************************************************)
(* One transfer thread of copy2: the loop around schedulerUpdate.  The     *)
(* thread owns nFileCopyJobs file slots of nBlockCopyJobs block slots      *)
(* each.  A pass of the loop                                               *)
(*                                                                         *)
(*   "update"    advances every block whose aio request has completed,     *)
(*   "complete"  hands finished files to the finishQueue and starts at     *)
(*               most one new block per unfinished file,                   *)
(*   "fill"      takes jobs from the jobQueue for the idle file slots,     *)
(*   "exit"      leaves the loop when idle and the crawl is over,          *)
(*   "submit"    hands the batch of prepared requests to the kernel, and   *)
(*   "reap"      runs the callbacks of the completed requests.             *)
(*                                                                         *)
(* The kernel, the crawler and the other transfer threads (which share     *)
(* the copy buffer arena) interleave with these steps.                     *)
(*                                                                         *)
(* A data block is abstracted to where its bytes come from: "src" (the     *)
(* source block, not all zero), "zero" (all zero) or "junk" (anything      *)
(* else: what the buffer held before, or corrupted bytes).                 *)
(***************************************************************************)
EXTENDS Integers, Sequences, FiniteSets

CONSTANTS
    Files,           \* the regular files the crawler decides to transfer
    NoFile,          \* an idle file slot
    NBlocks,         \* [Files -> Nat]: blockCount(stx_size, blockSize)
    ZeroBlocks,      \* [Files -> SUBSET Nat]: blocks whose source bytes are all zero
    Chunks,          \* the copy buffer arena, in units of the smallest buffer
    Buffers,         \* [Files -> SUBSET SUBSET Chunks]: what buddy_malloc(blockSize) may return
    NFileCopyJobs,   \* opts.nFileCopyJobs
    NBlockCopyJobs,  \* opts.nBlockCopyJobs
    Sparse,          \* opts.sparse
    Readback,        \* opts.readback
    AioResults,      \* the outcomes the devices produce, a subset of Results
    SubmitMayFail,   \* whether io_submit may return an error
    MaxGrabs         \* bound: buffers the other threads take during the run

Results == {"ok", "err", "eof", "corrupt"}

Bytes == {"src", "zero", "junk"}

FileSlots == 1 .. NFileCopyJobs

BlockSlots == 1 .. NBlockCopyJobs

Slots == FileSlots \X BlockSlots

ASSUME FilesAssumption == IsFiniteSet(Files) /\ NoFile \notin Files
ASSUME BlocksAssumption == /\ NBlocks \in [Files -> Nat]
                           /\ ZeroBlocks \in [Files -> SUBSET Nat]
ASSUME BuffersAssumption == Buffers \in [Files -> SUBSET ((SUBSET Chunks) \ {{}})]
ASSUME JobsAssumption == /\ NFileCopyJobs \in Nat \ {0}
                         /\ NBlockCopyJobs \in Nat \ {0}
ASSUME OptsAssumption == /\ Sparse \in BOOLEAN
                         /\ Readback \in BOOLEAN
                         /\ SubmitMayFail \in BOOLEAN
                         /\ AioResults \subseteq Results
                         /\ MaxGrabs \in Nat

VARIABLES
    pc,          \* where the thread is in its pass
    scan,        \* block slots this pass has still to advance
    fscan,       \* file slots this pass has still to examine
    job,         \* fileCopyJobs
    blk,         \* blockCopyJobs
    batch,       \* cbBatch[0 .. cbBatchSize - 1]
    kernel,      \* requests handed to the kernel and not reaped
    crawl,       \* files the crawler has still to enqueue
    queued,      \* jobQueue
    crawlDone,   \* sharedState->crawlDone
    others,      \* chunks of the arena held by the other transfer threads
    grabs,       \* buffers the other threads have taken so far
    dst,         \* contents of the destination (partial) files
    finished,    \* jobs handed to the finishQueue
    settled,     \* history: the blocks of each file counted in nBlockJobsFinished
    lost         \* history: files one of whose requests failed or moved no byte

threadVars == <<pc, scan, fscan>>
crawlVars == <<crawl, queued, crawlDone>>
otherVars == <<others, grabs>>
vars == <<threadVars, job, blk, batch, kernel, crawlVars, otherVars,
          dst, finished, settled, lost>>

----------------------------------------------------------------------------
IdleJob == [file |-> NoFile, nScheduled |-> 0, nFinished |-> 0, nErrors |-> 0]

\* What schedulerClearBlockCopyJob leaves behind: the zeroed struct.
FreeBlock == [inUse |-> FALSE, jobno |-> 0, type |-> "READ", status |-> "ok",
              data |-> {}, bytes |-> "junk", srcHash |-> "junk"]

\* Mutant: the slot is cleared with nofree, and its buffer is not given back.
ClearedKeepingBuffer(s) == [FreeBlock EXCEPT !.data = blk[s].data]

\* schedulerClearBlockCopyJob of block slot s: the buffer returns to the arena.
Cleared(s) == FreeBlock

\* The struct that schedulerScheduleBlockCopyJob prepares.
ReadBlock(jobno, buffer) ==
    [inUse |-> TRUE, jobno |-> jobno, type |-> "READ", status |-> "pending",
     data |-> buffer, bytes |-> "junk", srcHash |-> "junk"]

Active(i) == job[i].file # NoFile

FileAt(s) == job[s[1]].file

\* Bytes of block k of file x on the source.
Source(x, k) == IF k \in ZeroBlocks[x] THEN "zero" ELSE "src"

\* The blocks of the files, as <<file, jobno>>.
BlockIds == UNION {{x} \X (0 .. NBlocks[x] - 1) : x \in Files}

Queue == {batch[n] : n \in 1 .. Len(batch)}

InUse(i) == {j \in BlockSlots : blk[<<i, j>>].inUse}

\* Completed and not yet advanced blocks of the active files.
Ready == {s \in Slots : /\ Active(s[1])
                        /\ blk[s].inUse
                        /\ blk[s].status # "pending"}

\* Mutant: the next block is taken from the finished ones alone.
JobnoFromFinished(i) == job[i].nFinished

\* blockJob->jobno of the next block of slot i, and whether it lies in the file.
NextJobno(i) == job[i].nScheduled + job[i].nFinished

MoreBlocks(i) == NextJobno(i) < NBlocks[job[i].file]

FreeChunks == Chunks \ (others \cup UNION {blk[s].data : s \in Slots})

\* The buffers buddy_malloc can return for a file of this block size now.
Available(x) == {b \in Buffers[x] : b \subseteq FreeChunks}

\* The loops of schedulerUpdate visit the slots in array order.
IsFirstSlot(s, S) ==
    /\ s \in S
    /\ \A t \in S : s[1] < t[1] \/ (s[1] = t[1] /\ s[2] <= t[2])

IsFirst(i, S) == i \in S /\ \A k \in S : i <= k

----------------------------------------------------------------------------
Init ==
    /\ pc = "update"
    /\ scan = {}
    /\ fscan = {}
    /\ job = [i \in FileSlots |-> IdleJob]
    /\ blk = [s \in Slots |-> FreeBlock]
    /\ batch = << >>
    /\ kernel = {}
    /\ crawl = Files
    /\ queued = {}
    /\ crawlDone = FALSE
    /\ others = {}
    /\ grabs = 0
    /\ dst = [b \in BlockIds |-> "zero"]
    /\ finished = {}
    /\ settled = [x \in Files |-> {}]
    /\ lost = {}

----------------------------------------------------------------------------
\* "update": schedulerUpdateBlockCopyJob for each block in use.

\* Block s is the next one that the update loop visits.
CanAdvance(s) == pc = "update" /\ IsFirstSlot(s, scan)

\* The source block has been read: skip an all-zero block, otherwise write it.
ReadDone(s) ==
    /\ CanAdvance(s)
    /\ blk[s].status = "ok" /\ blk[s].type = "READ"
    /\ IF Sparse /\ blk[s].bytes = "zero"
         THEN /\ blk' = [blk EXCEPT ![s].type = "FINISH"]
              /\ UNCHANGED batch
         ELSE /\ blk' = [blk EXCEPT ![s].type = "WRITE", ![s].status = "pending",
                                    ![s].srcHash = IF Readback THEN blk[s].bytes ELSE "junk"]
              /\ batch' = Append(batch, s)
    /\ scan' = scan \ {s}
    /\ UNCHANGED <<pc, fscan, job, kernel, crawlVars, otherVars, dst, finished, settled, lost>>

\* The block has been written: read it back into the zeroed buffer if asked to.
WriteDone(s) ==
    /\ CanAdvance(s)
    /\ blk[s].status = "ok" /\ blk[s].type = "WRITE"
    /\ IF Readback
         THEN /\ blk' = [blk EXCEPT ![s].type = "READDST", ![s].status = "pending",
                                    ![s].bytes = "zero"]
              /\ batch' = Append(batch, s)
         ELSE /\ blk' = [blk EXCEPT ![s].type = "FINISH"]
              /\ UNCHANGED batch
    /\ scan' = scan \ {s}
    /\ UNCHANGED <<pc, fscan, job, kernel, crawlVars, otherVars, dst, finished, settled, lost>>

\* Mutant: the two hashes are computed and never compared.
HashIgnored(s) == FALSE

\* The bytes read back are not those that were written.
HashMismatch(s) == blk[s].type = "READDST" /\ blk[s].bytes # blk[s].srcHash

\* The file once block s is done and, if there is a next one, that one started.
AfterBlock(s) ==
    [job[s[1]] EXCEPT !.nScheduled = IF MoreBlocks(s[1]) THEN @ ELSE @ - 1,
                      !.nFinished = @ + 1,
                      !.nErrors = IF HashMismatch(s) THEN @ + 1 ELSE @]

\* The block is complete: count it and reuse its slot and its buffer for the
\* next block of the file, or give the buffer back when there is none.
BlockDone(s) ==
    LET i == s[1]
        x == job[i].file
    IN  /\ CanAdvance(s)
        /\ blk[s].status = "ok" /\ blk[s].type \in {"READDST", "FINISH"}
        /\ settled' = [settled EXCEPT ![x] = @ \cup {blk[s].jobno}]
        /\ IF MoreBlocks(i)
             THEN /\ blk' = [blk EXCEPT ![s] = ReadBlock(NextJobno(i), blk[s].data)]
                  /\ batch' = Append(batch, s)
             ELSE /\ blk' = [blk EXCEPT ![s] = Cleared(s)]
                  /\ UNCHANGED batch
        /\ job' = [job EXCEPT ![i] = AfterBlock(s)]
        /\ scan' = scan \ {s}
        /\ UNCHANGED <<pc, fscan, kernel, crawlVars, otherVars, dst, finished, lost>>

\* The file once the request of one of its blocks has failed.
AfterFailure(i) == [job[i] EXCEPT !.nScheduled = @ - 1, !.nFinished = @ + 1]

\* The request failed: the block counts as finished and its slot is cleared.
BlockFailed(s) ==
    LET i == s[1]
    IN  /\ CanAdvance(s)
        /\ blk[s].status = "err"
        /\ settled' = [settled EXCEPT ![job[i].file] = @ \cup {blk[s].jobno}]
        /\ job' = [job EXCEPT ![i] = AfterFailure(i)]
        /\ blk' = [blk EXCEPT ![s] = Cleared(s)]
        /\ scan' = scan \ {s}
        /\ UNCHANGED <<pc, fscan, batch, kernel, crawlVars, otherVars, dst, finished, lost>>

UpdateEnd ==
    /\ pc = "update" /\ scan = {}
    /\ pc' = "complete"
    /\ fscan' = {i \in FileSlots : Active(i)}
    /\ UNCHANGED <<scan, job, blk, batch, kernel, crawlVars, otherVars, dst, finished,
                   settled, lost>>

----------------------------------------------------------------------------
\* "complete": the second loop of schedulerUpdate.

\* Mutant: off by one.
MoreThanAllFinished(i) == job[i].nFinished > NBlocks[job[i].file]

AllBlocksFinished(i) == job[i].nFinished >= NBlocks[job[i].file]

\* Mutant: the counters are cleared but not the active flag.
ClearedActive(i) == [IdleJob EXCEPT !.file = job[i].file]

\* What schedulerClearFileCopyJob leaves behind.
ClearedJob(i) == IdleJob

\* Hand the file to the finishQueue and run schedulerClearFileCopyJob.
CompleteFile(i) ==
    /\ pc = "complete" /\ IsFirst(i, fscan)
    /\ AllBlocksFinished(i)
    /\ finished' = finished \cup {[file |-> job[i].file, nErrors |-> job[i].nErrors]}
    /\ blk' = [s \in Slots |-> IF s[1] = i /\ blk[s].inUse THEN Cleared(s) ELSE blk[s]]
    /\ job' = [job EXCEPT ![i] = ClearedJob(i)]
    /\ fscan' = fscan \ {i}
    /\ UNCHANGED <<pc, scan, batch, kernel, crawlVars, otherVars, dst, settled, lost>>

\* The file once one more of its blocks is scheduled.
AfterStart(i) == [job[i] EXCEPT !.nScheduled = @ + 1]

\* Start one more block of the file, if it has one, a block slot is idle and
\* the arena has a buffer; otherwise the file waits for a later pass.
StartBlock(i) ==
    /\ pc = "complete" /\ IsFirst(i, fscan)
    /\ ~AllBlocksFinished(i)
    /\ MoreBlocks(i)
    /\ \E j \in BlockSlots, b \in Available(job[i].file) :
          /\ IsFirst(j, BlockSlots \ InUse(i))
          /\ blk' = [blk EXCEPT ![<<i, j>>] = ReadBlock(NextJobno(i), b)]
          /\ batch' = Append(batch, <<i, j>>)
    /\ job' = [job EXCEPT ![i] = AfterStart(i)]
    /\ fscan' = fscan \ {i}
    /\ UNCHANGED <<pc, scan, kernel, crawlVars, otherVars, dst, finished, settled, lost>>

StartNothing(i) ==
    /\ pc = "complete" /\ IsFirst(i, fscan)
    /\ ~AllBlocksFinished(i)
    /\ \/ ~MoreBlocks(i)
       \/ InUse(i) = BlockSlots
       \/ Available(job[i].file) = {}
    /\ fscan' = fscan \ {i}
    /\ UNCHANGED <<pc, scan, job, blk, batch, kernel, crawlVars, otherVars, dst, finished,
                   settled, lost>>

CompleteEnd ==
    /\ pc = "complete" /\ fscan = {}
    /\ pc' = "fill"
    /\ UNCHANGED <<scan, fscan, job, blk, batch, kernel, crawlVars, otherVars, dst, finished,
                   settled, lost>>

----------------------------------------------------------------------------
\* "fill": the third loop of schedulerUpdate, then its exit test.

\* Mutant: the slots are filled without looking at their active flag.
AnySlots == FileSlots

IdleSlots == {i \in FileSlots : ~Active(i)}

TakeJob(i, x) ==
    /\ pc = "fill" /\ IsFirst(i, IdleSlots)
    /\ x \in queued
    /\ queued' = queued \ {x}
    /\ job' = [job EXCEPT ![i] = [IdleJob EXCEPT !.file = x]]
    /\ UNCHANGED <<threadVars, blk, batch, kernel, crawl, crawlDone, otherVars, dst, finished,
                   settled, lost>>

\* No idle slot is left, or the dequeue missed (at once, or after 100 ms).
FillEnd ==
    /\ pc = "fill"
    /\ IdleSlots = {} \/ queued = {}
    /\ pc' = "exit"
    /\ UNCHANGED <<scan, fscan, job, blk, batch, kernel, crawlVars, otherVars, dst, finished,
                   settled, lost>>

\* Mutant: the end of the crawl alone ends the thread.
ExitAfterCrawl == crawlDone

MayExit == IdleSlots = FileSlots /\ crawlDone

ExitTest ==
    /\ pc = "exit"
    /\ pc' = IF MayExit THEN "done" ELSE "submit"
    /\ UNCHANGED <<scan, fscan, job, blk, batch, kernel, crawlVars, otherVars, dst, finished,
                   settled, lost>>

----------------------------------------------------------------------------
\* "submit" and "reap": schedulerTick.

\* Mutant: the batch is shortened without moving its rest to the front.
UnmovedRest(n) == [m \in 1 .. Len(batch) - n |-> batch[m]]

\* What is left of the batch after its first n requests were accepted.
RestOfBatch(n) == [m \in 1 .. Len(batch) - n |-> batch[m + n]]

\* io_submit accepts a nonempty prefix of the batch; the rest stays at its front.
SubmitSome ==
    /\ pc = "submit" /\ batch # << >>
    /\ \E n \in 1 .. Len(batch) :
          /\ kernel' = kernel \cup {batch[m] : m \in 1 .. n}
          /\ batch' = RestOfBatch(n)
    /\ pc' = "reap"
    /\ UNCHANGED <<scan, fscan, job, blk, crawlVars, otherVars, dst, finished, settled, lost>>

SubmitNone ==
    /\ pc = "submit" /\ batch = << >>
    /\ pc' = "reap"
    /\ UNCHANGED <<scan, fscan, job, blk, batch, kernel, crawlVars, otherVars, dst, finished,
                   settled, lost>>

\* The block slots of file slot i in the batch, and how many they are.
Batched(i) == {j \in BlockSlots : <<i, j>> \in Queue}

\* Mutant: the failed blocks are not counted as errors.
NoSubmitErrors(i) == 0

\* The errors a failed io_submit adds to a file: one for each block.
SubmitErrors(i) == Cardinality(Batched(i))

\* The file once its blocks in the batch have failed.
AfterSubmitFailure(i) ==
    [job[i] EXCEPT !.nScheduled = @ - Cardinality(Batched(i)),
                   !.nFinished = @ + Cardinality(Batched(i)),
                   !.nErrors = @ + SubmitErrors(i)]

\* io_submit failed: every block of the batch is cleared and counted as a
\* finished block with an error, and the pass ends without reaping.
SubmitFail ==
    /\ SubmitMayFail
    /\ pc = "submit" /\ batch # << >>
    /\ blk' = [s \in Slots |-> IF s \in Queue THEN Cleared(s) ELSE blk[s]]
    /\ job' = [i \in FileSlots |-> AfterSubmitFailure(i)]
    /\ settled' = [x \in Files |->
                     settled[x] \cup {blk[s].jobno : s \in {t \in Queue : FileAt(t) = x}}]
    /\ batch' = << >>
    /\ pc' = "update"
    /\ scan' = Ready
    /\ UNCHANGED <<fscan, kernel, crawlVars, otherVars, dst, finished, lost>>

\* A request completes and its callback (rd_done, wr_done) records the status.
\* A result of zero bytes is a success for the callbacks.
Reap(s, res) ==
    LET x == FileAt(s)
        k == blk[s].jobno
    IN  /\ pc = "reap" /\ s \in kernel /\ res \in AioResults
        /\ res = "corrupt" => blk[s].type = "WRITE"
        /\ kernel' = kernel \ {s}
        /\ blk' = [blk EXCEPT
                     ![s].status = IF res = "err" THEN "err" ELSE "ok",
                     ![s].bytes = CASE res = "ok" /\ blk[s].type = "READ" -> Source(x, k)
                                    [] res = "ok" /\ blk[s].type = "READDST" -> dst[<<x, k>>]
                                    [] OTHER -> blk[s].bytes]
        /\ dst' = IF blk[s].type = "WRITE" /\ res # "eof"
                    THEN [dst EXCEPT ![<<x, k>>] = IF res = "ok" THEN blk[s].bytes ELSE "junk"]
                    ELSE dst
        /\ lost' = IF res \in {"err", "eof"} THEN lost \cup {x} ELSE lost
        /\ UNCHANGED <<threadVars, job, batch, crawlVars, otherVars, finished, settled>>

\* io_getevents finds no (further) completed request: the next pass begins.
ReapEnd ==
    /\ pc = "reap"
    /\ pc' = "update"
    /\ scan' = Ready
    /\ UNCHANGED <<fscan, job, blk, batch, kernel, crawlVars, otherVars, dst, finished,
                   settled, lost>>

----------------------------------------------------------------------------
\* The crawler and the other transfer threads.

Enqueue(x) ==
    /\ x \in crawl
    /\ crawl' = crawl \ {x}
    /\ queued' = queued \cup {x}
    /\ UNCHANGED <<threadVars, job, blk, batch, kernel, crawlDone, otherVars, dst, finished,
                   settled, lost>>

CrawlEnd ==
    /\ crawl = {} /\ ~crawlDone
    /\ crawlDone' = TRUE
    /\ UNCHANGED <<threadVars, job, blk, batch, kernel, crawl, queued, otherVars, dst,
                   finished, settled, lost>>

OthersAlloc ==
    /\ grabs < MaxGrabs /\ others = {}
    /\ \E x \in Files : others' \in Available(x)
    /\ grabs' = grabs + 1
    /\ UNCHANGED <<threadVars, job, blk, batch, kernel, crawlVars, dst, finished, settled, lost>>

OthersFree ==
    /\ others # {}
    /\ others' = {}
    /\ UNCHANGED <<threadVars, job, blk, batch, kernel, crawlVars, grabs, dst, finished,
                   settled, lost>>

----------------------------------------------------------------------------
UpdatePhase ==
    \/ \E s \in Slots : ReadDone(s) \/ WriteDone(s) \/ BlockDone(s) \/ BlockFailed(s)
    \/ UpdateEnd

CompletePhase ==
    \/ \E i \in FileSlots : CompleteFile(i) \/ StartBlock(i) \/ StartNothing(i)
    \/ CompleteEnd

FillPhase ==
    \/ \E i \in FileSlots, x \in Files : TakeJob(i, x)
    \/ FillEnd
    \/ ExitTest

TickPhase ==
    \/ SubmitSome \/ SubmitNone \/ SubmitFail
    \/ ReapEnd

Complete == \E s \in Slots, res \in Results : Reap(s, res)

Thread == UpdatePhase \/ CompletePhase \/ FillPhase \/ TickPhase

Crawler == (\E x \in Files : Enqueue(x)) \/ CrawlEnd

Others == OthersAlloc \/ OthersFree

\* The loop has returned and the rest of the program has come to rest.
Terminated == pc = "done" /\ crawlDone /\ others = {} /\ UNCHANGED vars

Next == Thread \/ Complete \/ Crawler \/ Others \/ Terminated

Spec == Init /\ [][Next]_vars

----------------------------------------------------------------------------
(***************************************************************************)
(* Invariants.                                                             *)
(***************************************************************************)
JobType == [file : Files \cup {NoFile}, nScheduled : Nat, nFinished : Nat, nErrors : Nat]

BlockType == [inUse : BOOLEAN, jobno : Nat, type : {"READ", "WRITE", "READDST", "FINISH"},
              status : {"pending", "ok", "err"}, data : SUBSET Chunks,
              bytes : Bytes, srcHash : Bytes]

\* Every variable has its type; no counter of a FileCopyJob, a size_t, falls
\* below zero.
TypeOK ==
    /\ pc \in {"update", "complete", "fill", "exit", "submit", "reap", "done"}
    /\ scan \in SUBSET Slots
    /\ fscan \in SUBSET FileSlots
    /\ job \in [FileSlots -> JobType]
    /\ blk \in [Slots -> BlockType]
    /\ batch \in Seq(Slots)
    /\ kernel \in SUBSET Slots
    /\ crawl \in SUBSET Files
    /\ queued \in SUBSET Files
    /\ crawlDone \in BOOLEAN
    /\ others \in SUBSET Chunks
    /\ grabs \in 0 .. MaxGrabs
    /\ dst \in [BlockIds -> Bytes]
    /\ finished \subseteq [file : Files, nErrors : Nat]
    /\ settled \in [Files -> SUBSET Nat]
    /\ lost \in SUBSET Files


InFlight == Queue \cup kernel

\* Every request that is waiting for its result is in the batch or in the
\* kernel, once, and belongs to a block in use of an active file: no request is
\* lost by a partial io_submit, submitted twice, or answered into a slot that
\* schedulerClearFileCopyJob has already given to another file.
RequestsTracked ==
    /\ \A m, n \in 1 .. Len(batch) : m # n => batch[m] # batch[n]
    /\ Queue \cap kernel = {}
    /\ InFlight = {s \in Slots : blk[s].inUse /\ blk[s].status = "pending"}
    /\ \A s \in Slots : blk[s].inUse => Active(s[1])

\* The assertion of schedIOSubmitDeferred: the batch never outgrows cbBatch.
BatchFits == Len(batch) <= NFileCopyJobs * NBlockCopyJobs

\* The two counters of a file place its blocks: nScheduled blocks are in slots,
\* nFinished are done with, and together they are the first blocks of the file,
\* each once.  The next jobno is computed from their sum, so a counter that
\* drifts by one skips a block or copies one twice.
BlocksOnce ==
    \A i \in FileSlots : Active(i) =>
        LET x == job[i].file
            running == {blk[<<i, j>>].jobno : j \in InUse(i)}
        IN  /\ job[i].nScheduled = Cardinality(running)
            /\ Cardinality(running) = Cardinality(InUse(i))
            /\ job[i].nFinished = Cardinality(settled[x])
            /\ running \cap settled[x] = {}
            /\ running \cup settled[x] = 0 .. NextJobno(i) - 1
            /\ NextJobno(i) <= NBlocks[x]

\* A staging buffer has one owner: the buffers of the blocks in use are
\* disjoint from one another and from those of the other threads, and a block
\* holds a buffer just while it is in use (none is leaked with its file).
BuffersExclusive ==
    /\ \A s \in Slots : blk[s].inUse <=> blk[s].data # {}
    /\ \A s \in Slots : blk[s].data \cap others = {}
    /\ \A s, t \in Slots : s # t => blk[s].data \cap blk[t].data = {}

\* A file is in one place: with the crawler, in the jobQueue, in one file slot,
\* or handed to the finishQueue, once.
FilesConserved ==
    \A x \in Files :
        LET slots == {i \in FileSlots : job[i].file = x}
            results == {r \in finished : r.file = x}
        IN  Cardinality(slots) + Cardinality(results)
              + (IF x \in crawl THEN 1 ELSE 0) + (IF x \in queued THEN 1 ELSE 0) = 1

Intact(x) == \A k \in 0 .. NBlocks[x] - 1 : dst[<<x, k>>] = Source(x, k)

\* A file handed over without errors has the source's bytes in every block, if
\* each of its requests succeeded: corruption on the way to the device is
\* caught by the readback, and an io_submit failure is counted as an error.
\* Without readback the devices are trusted not to corrupt.
CleanFilesIntact ==
    (Readback \/ "corrupt" \notin AioResults) =>
        \A r \in finished : r.nErrors = 0 /\ r.file \notin lost => Intact(r.file)

\* As CleanFilesIntact, of every file that is handed over without errors.
FinishedFilesIntact ==
    \A r \in finished : r.nErrors = 0 => Intact(r.file)

----------------------------------------------------------------------------
(***************************************************************************)
(* Action properties.                                                      *)
(***************************************************************************)
\* Once a file is with the finish processors, which truncate it, compare its
\* size and close it, the transfer thread writes to it no more.
FinishedUntouched ==
    [][\A r \in finished : /\ r \in finished'
                           /\ \A k \in 0 .. NBlocks[r.file] - 1 :
                                 dst'[<<r.file, k>>] = dst[<<r.file, k>>]]_vars

----------------------------------------------------------------------------
(***************************************************************************)
(* Fairness and liveness.  The thread never stops looping, the kernel      *)
(* answers every request (its event is there at one of the thread's later  *)
(* looks), the crawler ends, and another thread frees a buffer it took.    *)
(***************************************************************************)
FairSpec ==
    /\ Spec
    /\ WF_vars(Thread)
    /\ \A s \in Slots : SF_vars(\E res \in Results : Reap(s, res))
    /\ WF_vars(Crawler)
    /\ WF_vars(OthersFree)

Copying(x) == \E i \in FileSlots : job[i].file = x

HandedOver(x) == \E r \in finished : r.file = x

\* A file that occupies a slot is eventually handed over, whatever fails.
TakenFilesFinish == \A x \in Files : Copying(x) ~> HandedOver(x)

\* The loop ends.
ThreadEnds == <>(pc = "done")

----------------------------------------------------------------------------
(***************************************************************************)
(* The thread implements FileTransfer.                                     *)
(***************************************************************************)
Place(x) ==
    CASE x \in crawl -> "crawl"
      [] x \in queued -> "queued"
      [] Copying(x) -> "copying"
      [] OTHER -> "finished"

Abstract ==
    INSTANCE FileTransfer WITH
        place <- [x \in Files |-> Place(x)],
        errors <- {r.file : r \in {q \in finished : q.nErrors > 0}},
        stopped <- pc = "done"

\* Each step of the thread takes, settles or hands over files as the abstract
\* transfer does, or is invisible to it.
ImplementsFileTransfer == Abstract!Spec
============================================================================
