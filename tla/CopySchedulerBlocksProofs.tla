---------------------- MODULE CopySchedulerBlocksProofs ----------------------
(***************************************************************************)
(* Proofs about the way of a file and of its blocks through a transfer     *)
(* thread.  A file is in one place at a time, and once it was handed over  *)
(* the thread leaves it alone (PlaceInv).  None of its blocks is skipped   *)
(* or copied twice, a file handed over without errors has the bytes of its *)
(* source, and with that the transfer thread implements FileTransfer.  The *)
(* inductive invariant follows each block from its number (it is running   *)
(* in one slot, settled, or still to come) and from the stage its slot is  *)
(* in to what its destination holds.                                       *)
(***************************************************************************)
EXTENDS CopySchedulerProofs

\* No file is in two places, in two slots, or handed over twice.
PlaceInv ==
    /\ crawl \cap queued = {}
    /\ \A i \in FileSlots : job[i].file \notin crawl \cup queued
    /\ \A i, k \in FileSlots : Active(i) /\ i # k => job[i].file # job[k].file
    /\ \A r \in finished : /\ r.file \notin crawl \cup queued
                           /\ \A i \in FileSlots : job[i].file # r.file
    /\ \A r, q \in finished : r.file = q.file => r = q

----------------------------------------------------------------------------
LEMMA PlaceInit == Init => PlaceInv
<1> SUFFICES ASSUME Init PROVE PlaceInv
  OBVIOUS
<1>1. \A i \in FileSlots : job[i].file = NoFile
  BY DEF Init, IdleJob
<1> QED
  BY <1>1, FilesAssumption DEF Init, PlaceInv, Active

\* A step that moves no file keeps the invariant.
LEMMA PlaceKept ==
    ASSUME PlaceInv, \A i \in FileSlots : job'[i].file = job[i].file,
           crawl' = crawl, queued' = queued, finished' = finished
    PROVE  PlaceInv'
  BY DEF PlaceInv, Active

\* The updates of a file's counters leave its name.
LEMMA SameFile ==
    ASSUME TypeOK, NEW i \in FileSlots
    PROVE  /\ AfterFailure(i).file = job[i].file
           /\ AfterStart(i).file = job[i].file
           /\ AfterSubmitFailure(i).file = job[i].file
           /\ \A s \in Slots : s[1] = i => AfterBlock(s).file = job[i].file
<1>1. job[i] \in JobType
  BY DEF TypeOK
<1> QED
  BY <1>1, Zenon DEF AfterFailure, AfterStart, AfterSubmitFailure, AfterBlock, JobType

\* The steps of the update loop.
LEMMA UpdatePlace ==
    ASSUME IInv, PlaceInv, NEW s \in Slots,
           ReadDone(s) \/ WriteDone(s) \/ BlockDone(s) \/ BlockFailed(s)
    PROVE  PlaceInv'
<1>1. TypeOK /\ s[1] \in FileSlots
  BY DEF IInv, Slots
<1>2. crawl' = crawl /\ queued' = queued /\ finished' = finished
  BY DEF ReadDone, WriteDone, BlockDone, BlockFailed, crawlVars
<1>3. ASSUME NEW i \in FileSlots PROVE job'[i].file = job[i].file
  <2>1. CASE job' = job
    BY <2>1
  <2>2. CASE job' = [job EXCEPT ![s[1]] = AfterBlock(s)]
    BY <1>1, <2>2, SameFile DEF TypeOK
  <2>3. CASE job' = [job EXCEPT ![s[1]] = AfterFailure(s[1])]
    BY <1>1, <2>3, SameFile DEF TypeOK
  <2> QED
    BY <2>1, <2>2, <2>3 DEF ReadDone, WriteDone, BlockDone, BlockFailed
<1> QED
  BY <1>2, <1>3, PlaceKept

\* A file that is handed over leaves its slot.
LEMMA CompletePlace ==
    ASSUME IInv, PlaceInv, NEW i \in FileSlots, CompleteFile(i) PROVE PlaceInv'
<1> DEFINE x == job[i].file
           e == [file |-> job[i].file, nErrors |-> job[i].nErrors]
<1>1. Active(i) /\ x # NoFile /\ x \in Files
  BY DEF CompleteFile, IsFirst, IInv, FscanInv, Active, TypeOK, JobType
<1>2. \A k \in FileSlots : job'[k].file = IF k = i THEN NoFile ELSE job[k].file
  BY DEF CompleteFile, ClearedJob, IdleJob, IInv, TypeOK
<1>3. finished' = finished \cup {e} /\ e.file = x
  BY DEF CompleteFile
<1>4. crawl' = crawl /\ queued' = queued /\ crawl \subseteq Files /\ queued \subseteq Files
  BY DEF CompleteFile, crawlVars, IInv, TypeOK
<1>5. \A r \in finished : r.file # x /\ r.file \in Files
  BY DEF PlaceInv, IInv, TypeOK
<1>6. crawl' \cap queued' = {}
  BY <1>4 DEF PlaceInv
<1>7. \A k \in FileSlots : job'[k].file \notin crawl' \cup queued'
  BY <1>2, <1>4, FilesAssumption DEF PlaceInv
<1>8. \A k, l \in FileSlots : Active(k)' /\ k # l => job'[k].file # job'[l].file
  BY <1>2 DEF PlaceInv, Active
<1>9. \A r \in finished' : /\ r.file \notin crawl' \cup queued'
                           /\ \A k \in FileSlots : job'[k].file # r.file
  <2>1. ASSUME NEW r \in finished
        PROVE  /\ r.file \notin crawl' \cup queued'
               /\ \A k \in FileSlots : job'[k].file # r.file
    BY <2>1, <1>2, <1>4, <1>5, FilesAssumption DEF PlaceInv
  <2>2. x \notin crawl' \cup queued' /\ \A k \in FileSlots : job'[k].file # x
    BY <1>1, <1>2, <1>4 DEF PlaceInv
  <2> QED
    BY <2>1, <2>2, <1>3
<1>10. \A r, q \in finished' : r.file = q.file => r = q
  BY <1>3, <1>5 DEF PlaceInv
<1> QED
  BY <1>6, <1>7, <1>8, <1>9, <1>10 DEF PlaceInv

\* A file that is taken moves from the queue to an idle slot.
LEMMA TakePlace ==
    ASSUME IInv, PlaceInv, NEW i \in FileSlots, NEW x \in Files, TakeJob(i, x) PROVE PlaceInv'
<1>1. ~Active(i) /\ x \in queued
  BY DEF TakeJob, IsFirst, IdleSlots
<1>2. \A k \in FileSlots : job'[k].file = IF k = i THEN x ELSE job[k].file
  BY DEF TakeJob, IdleJob, IInv, TypeOK
<1>3. crawl' = crawl /\ queued' = queued \ {x} /\ finished' = finished
  BY DEF TakeJob
<1>4. x \notin crawl /\ (\A k \in FileSlots : job[k].file # x) /\ \A r \in finished : r.file # x
  BY <1>1 DEF PlaceInv
<1>5. x # NoFile
  BY FilesAssumption
<1> QED
  BY <1>1, <1>2, <1>3, <1>4, <1>5 DEF PlaceInv, Active

LEMMA EnqueuePlace ==
    ASSUME IInv, PlaceInv, NEW x \in Files, Enqueue(x) PROVE PlaceInv'
<1>1. x \in crawl /\ crawl' = crawl \ {x} /\ queued' = queued \cup {x}
      /\ job' = job /\ finished' = finished
  BY DEF Enqueue
<1> QED
  BY <1>1 DEF PlaceInv, Active

LEMMA PlaceStep == IInv /\ PlaceInv /\ [Next]_vars => PlaceInv'
<1> SUFFICES ASSUME IInv, PlaceInv, [Next]_vars PROVE PlaceInv'
  OBVIOUS
<1>1. ASSUME NEW s \in Slots, ReadDone(s) \/ WriteDone(s) \/ BlockDone(s) \/ BlockFailed(s)
      PROVE PlaceInv'
  BY <1>1, UpdatePlace
<1>2. ASSUME NEW i \in FileSlots, CompleteFile(i) PROVE PlaceInv'
  BY <1>2, CompletePlace
<1>3. ASSUME NEW i \in FileSlots, StartBlock(i) PROVE PlaceInv'
  <2>1. job' = [job EXCEPT ![i] = AfterStart(i)]
        /\ crawl' = crawl /\ queued' = queued /\ finished' = finished
    BY <1>3 DEF StartBlock, crawlVars
  <2>2. \A k \in FileSlots : job'[k].file = job[k].file
    BY <2>1, SameFile DEF IInv, TypeOK
  <2> QED
    BY <2>1, <2>2, PlaceKept
<1>4. ASSUME NEW i \in FileSlots, NEW x \in Files, TakeJob(i, x) PROVE PlaceInv'
  BY <1>4, TakePlace
<1>5. CASE SubmitFail
  <2>1. crawl' = crawl /\ queued' = queued /\ finished' = finished
    BY <1>5 DEF SubmitFail, crawlVars
  <2>2. \A k \in FileSlots : job'[k].file = job[k].file
    BY <1>5, SameFile DEF SubmitFail, IInv
  <2> QED
    BY <2>1, <2>2, PlaceKept
<1>6. ASSUME NEW x \in Files, Enqueue(x) PROVE PlaceInv'
  BY <1>6, EnqueuePlace
<1>7. CASE job' = job /\ crawl' = crawl /\ queued' = queued /\ finished' = finished
  BY <1>7, PlaceKept
<1>8. CASE \/ UpdateEnd \/ CompleteEnd \/ FillEnd \/ ExitTest
           \/ SubmitSome \/ SubmitNone \/ ReapEnd
           \/ \E i \in FileSlots : StartNothing(i)
  BY <1>7, <1>8 DEF UpdateEnd, CompleteEnd, FillEnd, ExitTest, SubmitSome, SubmitNone,
                    ReapEnd, StartNothing, crawlVars
<1>9. CASE Complete \/ CrawlEnd \/ Others \/ UNCHANGED vars
  BY <1>7, <1>9 DEF Complete, Reap, CrawlEnd, Others, OthersAlloc, OthersFree, vars, crawlVars
<1> QED
  BY <1>1, <1>2, <1>3, <1>4, <1>5, <1>6, <1>8, <1>9
     DEF Next, Thread, UpdatePhase, CompletePhase, FillPhase, TickPhase, Crawler, Terminated

LEMMA SpecPlace == Spec => []PlaceInv
  BY PlaceInit, PlaceStep, SpecInv, PTL DEF Spec

----------------------------------------------------------------------------
\* Only the kernel writes to a destination file, and only for a block of the file
\* whose slot is active; CompleteFile hands a file over when it has none left.
\* So no step changes a file that the finish processors have.
THEOREM HandedOverUntouched == Spec => FinishedUntouched
<1> DEFINE A == \A r \in finished : /\ r \in finished'
                                    /\ \A k \in 0 .. NBlocks[r.file] - 1 :
                                          dst'[<<r.file, k>>] = dst[<<r.file, k>>]
<1>1. IInv /\ PlaceInv /\ [Next]_vars => A
  <2> SUFFICES ASSUME IInv, PlaceInv, Next PROVE A
    BY DEF vars
  <2>1. ASSUME finished \subseteq finished', dst' = dst PROVE A
    BY <2>1
  <2>2. ASSUME NEW s \in Slots, NEW res \in Results, Reap(s, res) PROVE A
    <3>1. finished' = finished /\ s \in kernel
      BY <2>2 DEF Reap
    <3>2. s[1] \in FileSlots
      BY DEF Slots
    <3>3. dst \in [BlockIds -> Bytes]
      BY DEF IInv, TypeOK
    <3> SUFFICES ASSUME NEW r \in finished, NEW k \in 0 .. NBlocks[r.file] - 1
                 PROVE  dst'[<<r.file, k>>] = dst[<<r.file, k>>]
      BY <3>1
    <3>4. r.file # FileAt(s)
      BY <3>2 DEF PlaceInv, FileAt
    <3>5. <<r.file, k>> # <<FileAt(s), blk[s].jobno>>
      BY <3>4
    <3>6. r.file \in Files /\ <<r.file, k>> \in BlockIds
      <4>1. r.file \in Files
        BY DEF IInv, TypeOK
      <4> QED
        BY <4>1 DEF BlockIds
    <3> QED
      BY <2>2, <3>3, <3>5, <3>6 DEF Reap
  <2>3. CASE UpdatePhase
    BY <2>1, <2>3 DEF UpdatePhase, ReadDone, WriteDone, BlockDone, BlockFailed, UpdateEnd
  <2>4. CASE CompletePhase
    BY <2>1, <2>4 DEF CompletePhase, CompleteFile, StartBlock, StartNothing, CompleteEnd
  <2>5. CASE FillPhase
    BY <2>1, <2>5 DEF FillPhase, TakeJob, FillEnd, ExitTest
  <2>6. CASE TickPhase
    BY <2>1, <2>6 DEF TickPhase, SubmitSome, SubmitNone, SubmitFail, ReapEnd
  <2>7. CASE Crawler \/ Others \/ Terminated
    BY <2>1, <2>7 DEF Crawler, Enqueue, CrawlEnd, Others, OthersAlloc, OthersFree,
                      Terminated, vars
  <2> QED
    BY <2>2, <2>3, <2>4, <2>5, <2>6, <2>7 DEF Next, Thread, Complete
<1> QED
  BY <1>1, SpecInv, SpecPlace, PTL DEF Spec, FinishedUntouched

----------------------------------------------------------------------------
\* No file drops out of the thread's hands.
SomewhereInv ==
    /\ \A x \in Files : \/ x \in crawl \cup queued
                        \/ \E i \in FileSlots : job[i].file = x
                        \/ \E r \in finished : r.file = x
    /\ crawlDone => crawl = {}

\* The numbers of the blocks in use are new, and with the settled blocks they
\* are the first ones of the file.
Running(i, k) == \E s \in Slots : s[1] = i /\ blk[s].inUse /\ blk[s].jobno = k

NumberInv ==
    /\ \A s, t \in Slots : blk[s].inUse /\ blk[t].inUse /\ s # t /\ s[1] = t[1] =>
                              blk[s].jobno # blk[t].jobno
    /\ \A s \in Slots : blk[s].inUse => blk[s].jobno \notin settled[FileAt(s)]
    /\ \A i \in FileSlots : Active(i) =>
          \A k \in Nat : k < NextJobno(i) <=> k \in settled[job[i].file] \/ Running(i, k)
    /\ \A x \in crawl \cup queued : settled[x] = {}
    /\ \A r \in finished : settled[r.file] = 0 .. NBlocks[r.file] - 1

\* The devices do not corrupt, or the readback would show it.
Trusted == Readback \/ "corrupt" \notin AioResults

DstOf(s) == dst[<<FileAt(s), blk[s].jobno>>]

SourceOf(s) == Source(FileAt(s), blk[s].jobno)

\* What the stage of a block in use says of its bytes, as long as no request
\* of its file was lost.
BlockData(s) ==
    /\ blk[s].status # "err"
    /\ blk[s].type = "READ" => /\ DstOf(s) = "zero"
                               /\ blk[s].status = "ok" => blk[s].bytes = SourceOf(s)
    /\ blk[s].type = "WRITE" => /\ blk[s].bytes = SourceOf(s)
                                /\ Readback => blk[s].srcHash = SourceOf(s)
                                /\ ~Readback /\ blk[s].status = "ok" => DstOf(s) = SourceOf(s)
    /\ blk[s].type = "READDST" => /\ blk[s].srcHash = SourceOf(s)
                                  /\ blk[s].status = "ok" => blk[s].bytes = DstOf(s)
    /\ blk[s].type = "FINISH" => DstOf(s) = SourceOf(s)

DataInv ==
    /\ \A s \in Slots : blk[s].inUse /\ FileAt(s) \notin lost => BlockData(s)
    /\ \A i \in FileSlots : Active(i) /\ job[i].nErrors = 0 /\ job[i].file \notin lost =>
          \A k \in settled[job[i].file] : dst[<<job[i].file, k>>] = Source(job[i].file, k)
    /\ \A i \in FileSlots : Active(i) =>
          \A k \in 0 .. NBlocks[job[i].file] - 1 :
             k >= NextJobno(i) => dst[<<job[i].file, k>>] = "zero"
    /\ \A x \in crawl \cup queued : \A k \in 0 .. NBlocks[x] - 1 : dst[<<x, k>>] = "zero"
    /\ \A r \in finished : r.nErrors = 0 /\ r.file \notin lost => Intact(r.file)

TrustedDataInv == Trusted => DataInv

----------------------------------------------------------------------------
(***************************************************************************)
(* Where the files are.                                                    *)
(***************************************************************************)

\* Most steps move no file.
LEMMA FilesStay ==
    ASSUME IInv, [Next]_vars
    PROVE  \/ /\ UNCHANGED <<crawl, queued, crawlDone, finished>>
              /\ \A i \in FileSlots : job'[i].file = job[i].file
           \/ \E i \in FileSlots : CompleteFile(i)
           \/ \E i \in FileSlots, x \in Files : TakeJob(i, x)
           \/ \E x \in Files : Enqueue(x)
           \/ CrawlEnd
<1> DEFINE Kept == /\ UNCHANGED <<crawl, queued, crawlDone, finished>>
                   /\ \A i \in FileSlots : job'[i].file = job[i].file
<1>0. TypeOK
  BY DEF IInv
<1>1. ASSUME NEW s \in Slots, ReadDone(s) \/ WriteDone(s) \/ BlockDone(s) \/ BlockFailed(s)
      PROVE Kept
  <2>1. s[1] \in FileSlots
    BY DEF Slots
  <2>2. UNCHANGED <<crawl, queued, crawlDone, finished>>
    BY <1>1 DEF ReadDone, WriteDone, BlockDone, BlockFailed, crawlVars
  <2>3. ASSUME NEW i \in FileSlots PROVE job'[i].file = job[i].file
    <3>1. CASE job' = job
      BY <3>1
    <3>2. CASE job' = [job EXCEPT ![s[1]] = AfterBlock(s)]
      BY <1>0, <2>1, <3>2, SameFile DEF TypeOK
    <3>3. CASE job' = [job EXCEPT ![s[1]] = AfterFailure(s[1])]
      BY <1>0, <2>1, <3>3, SameFile DEF TypeOK
    <3> QED
      BY <1>1, <3>1, <3>2, <3>3 DEF ReadDone, WriteDone, BlockDone, BlockFailed
  <2> QED
    BY <2>2, <2>3
<1>2. ASSUME NEW i \in FileSlots, StartBlock(i) PROVE Kept
  <2>1. /\ job' = [job EXCEPT ![i] = AfterStart(i)]
        /\ UNCHANGED <<crawl, queued, crawlDone, finished>>
    BY <1>2 DEF StartBlock, crawlVars
  <2> QED
    BY <1>0, <2>1, SameFile DEF TypeOK
<1>3. CASE SubmitFail
  <2>1. /\ \A i \in FileSlots : job'[i] = AfterSubmitFailure(i)
        /\ UNCHANGED <<crawl, queued, crawlDone, finished>>
    BY <1>3 DEF SubmitFail, crawlVars
  <2> QED
    BY <1>0, <2>1, SameFile
<1>4. CASE job' = job /\ UNCHANGED <<crawl, queued, crawlDone, finished>>
  BY <1>4
<1>5. CASE \/ UpdateEnd \/ CompleteEnd \/ FillEnd \/ ExitTest
           \/ SubmitSome \/ SubmitNone \/ ReapEnd
           \/ \E i \in FileSlots : StartNothing(i)
  BY <1>4, <1>5 DEF UpdateEnd, CompleteEnd, FillEnd, ExitTest, SubmitSome, SubmitNone,
                    ReapEnd, StartNothing, crawlVars
<1>6. CASE Complete \/ Others \/ UNCHANGED vars
  BY <1>4, <1>6 DEF Complete, Reap, Others, OthersAlloc, OthersFree, vars, crawlVars
<1> QED
  BY <1>1, <1>2, <1>3, <1>5, <1>6
     DEF Next, Thread, UpdatePhase, CompletePhase, FillPhase, TickPhase, Crawler, Terminated

LEMMA SomewhereInit == Init => SomewhereInv
  BY DEF Init, SomewhereInv

LEMMA SomewhereStep == IInv /\ SomewhereInv /\ [Next]_vars => SomewhereInv'
<1> SUFFICES ASSUME IInv, SomewhereInv, [Next]_vars PROVE SomewhereInv'
  OBVIOUS
<1>1. CASE /\ UNCHANGED <<crawl, queued, crawlDone, finished>>
           /\ \A i \in FileSlots : job'[i].file = job[i].file
  BY <1>1 DEF SomewhereInv
<1>2. ASSUME NEW i \in FileSlots, CompleteFile(i) PROVE SomewhereInv'
  <2> DEFINE e == [file |-> job[i].file, nErrors |-> job[i].nErrors]
  <2>1. /\ UNCHANGED <<crawl, queued, crawlDone>>
        /\ finished' = finished \cup {e} /\ e.file = job[i].file
        /\ \A k \in FileSlots : k # i => job'[k] = job[k]
    BY <1>2 DEF CompleteFile, crawlVars, IInv, TypeOK
  <2> HIDE DEF e
  <2> QED
    BY <2>1 DEF SomewhereInv
<1>3. ASSUME NEW i \in FileSlots, NEW x \in Files, TakeJob(i, x) PROVE SomewhereInv'
  <2>1. /\ crawl' = crawl /\ crawlDone' = crawlDone /\ finished' = finished
        /\ queued' = queued \ {x}
    BY <1>3 DEF TakeJob
  <2>2. \A k \in FileSlots : job'[k].file = IF k = i THEN x ELSE job[k].file
    BY <1>3 DEF TakeJob, IdleJob, IInv, TypeOK
  <2>3. job[i].file \notin Files
    BY <1>3, FilesAssumption DEF TakeJob, IsFirst, IdleSlots, Active
  <2> QED
    BY <2>1, <2>2, <2>3 DEF SomewhereInv
<1>4. ASSUME NEW x \in Files, Enqueue(x) PROVE SomewhereInv'
  BY <1>4 DEF Enqueue, SomewhereInv
<1>5. CASE CrawlEnd
  BY <1>5 DEF CrawlEnd, SomewhereInv
<1> QED
  BY <1>1, <1>2, <1>3, <1>4, <1>5, FilesStay

LEMMA SpecSomewhere == Spec => []SomewhereInv
  BY SomewhereInit, SomewhereStep, SpecInv, PTL DEF Spec

\* A file is in one place only, and it is always somewhere: the numbers of its
\* places add up to one.
THEOREM NoFileLostOrDoubled == Spec => []FilesConserved
<1>1. IInv /\ PlaceInv /\ SomewhereInv => FilesConserved
  <2> SUFFICES ASSUME IInv, PlaceInv, SomewhereInv, NEW x \in Files
               PROVE  Cardinality({i \in FileSlots : job[i].file = x})
                        + Cardinality({r \in finished : r.file = x})
                        + (IF x \in crawl THEN 1 ELSE 0) + (IF x \in queued THEN 1 ELSE 0) = 1
    BY DEF FilesConserved
  <2> DEFINE S == {i \in FileSlots : job[i].file = x}
             R == {r \in finished : r.file = x}
  <2>1. x # NoFile
    BY FilesAssumption
  <2>2. CASE x \in crawl \cup queued
    <3>1. S = {} /\ R = {}
      BY <2>2 DEF PlaceInv
    <3>2. Cardinality(S) = 0 /\ Cardinality(R) = 0
      BY <3>1, FS_EmptySet
    <3>3. x \in crawl <=> x \notin queued
      BY <2>2 DEF PlaceInv
    <3> QED
      BY <3>2, <3>3
  <2>3. CASE \E i \in FileSlots : job[i].file = x
    <3>1. PICK i \in FileSlots : job[i].file = x
      BY <2>3
    <3>2. S = {i} /\ R = {}
      BY <2>1, <3>1 DEF PlaceInv, Active
    <3>3. Cardinality(S) = 1 /\ Cardinality(R) = 0
      BY <3>2, FS_EmptySet, FS_Singleton
    <3>4. x \notin crawl /\ x \notin queued
      BY <3>1 DEF PlaceInv
    <3> QED
      BY <3>3, <3>4
  <2>4. CASE \E r \in finished : r.file = x
    <3>1. PICK r \in finished : r.file = x
      BY <2>4
    <3>2. S = {} /\ R = {r}
      BY <3>1 DEF PlaceInv
    <3>3. Cardinality(S) = 0 /\ Cardinality(R) = 1
      BY <3>2, FS_EmptySet, FS_Singleton
    <3>4. x \notin crawl /\ x \notin queued
      BY <3>1 DEF PlaceInv
    <3> QED
      BY <3>3, <3>4
  <2> QED
    BY <2>2, <2>3, <2>4 DEF SomewhereInv
<1> QED
  BY <1>1, SpecInv, SpecPlace, SpecSomewhere, PTL

----------------------------------------------------------------------------
(***************************************************************************)
(* The numbers of the blocks.                                              *)
(***************************************************************************)

\* A block in use belongs to an active file and is one of its blocks.
LEMMA BlockInUse ==
    ASSUME IInv, NEW s \in Slots, blk[s].inUse
    PROVE  /\ s[1] \in FileSlots /\ Active(s[1])
           /\ FileAt(s) \in Files /\ FileAt(s) = job[s[1]].file
           /\ blk[s].jobno \in Nat /\ blk[s].jobno < NextJobno(s[1])
           /\ blk[s].jobno \in 0 .. NBlocks[FileAt(s)] - 1
           /\ <<FileAt(s), blk[s].jobno>> \in BlockIds
<1>1. s[1] \in FileSlots /\ Active(s[1])
  BY DEF IInv, RequestsTracked, Slots
<1>2. FileAt(s) \in Files /\ FileAt(s) = job[s[1]].file
  BY <1>1 DEF IInv, TypeOK, JobType, Active, FileAt
<1>3. blk[s].jobno \in Nat /\ NextJobno(s[1]) \in Nat /\ NBlocks[FileAt(s)] \in Nat
  BY <1>1, <1>2, BlocksAssumption DEF IInv, TypeOK, BlockType, JobType, NextJobno
<1>4. blk[s].jobno < NextJobno(s[1]) /\ NextJobno(s[1]) <= NBlocks[FileAt(s)]
  BY <1>1, <1>2 DEF IInv, JobnoInv, CountInv
<1>5. blk[s].jobno \in 0 .. NBlocks[FileAt(s)] - 1
  BY <1>3, <1>4
<1> QED
  BY <1>1, <1>2, <1>3, <1>4, <1>5 DEF BlockIds

LEMMA ActiveFile ==
    ASSUME IInv, NEW i \in FileSlots, Active(i)
    PROVE  /\ job[i] \in JobType /\ job[i].file \in Files
           /\ NBlocks[job[i].file] \in Nat
           /\ NextJobno(i) \in Nat /\ NextJobno(i) <= NBlocks[job[i].file]
<1>1. job[i] \in JobType /\ job[i].file \in Files
  BY DEF IInv, TypeOK, JobType, Active
<1> QED
  BY <1>1, BlocksAssumption DEF IInv, CountInv, NextJobno, JobType

\* What settling the block of slot s, starting the next block of its file
\* there, or both come to: r is what the slot then holds.
SlotMove(s, r) ==
    /\ blk' = [blk EXCEPT ![s] = r]
    /\ r.inUse => /\ r.jobno = NextJobno(s[1]) /\ MoreBlocks(s[1])
                  /\ r.type = "READ" /\ r.status = "pending"
    /\ blk[s].inUse => settled' = [settled EXCEPT ![FileAt(s)] = @ \cup {blk[s].jobno}]
    /\ ~blk[s].inUse => settled' = settled
    /\ NextJobno(s[1])' = IF r.inUse THEN NextJobno(s[1]) + 1 ELSE NextJobno(s[1])
    /\ \A k \in FileSlots : job'[k].file = job[k].file /\ (k # s[1] => job'[k] = job[k])
    /\ UNCHANGED <<crawl, queued, finished, dst, lost>>

LEMMA BlockDoneMoves ==
    ASSUME IInv, NEW s \in Slots, BlockDone(s)
    PROVE  blk[s].inUse /\ \E r \in BlockType : SlotMove(s, r)
<1> DEFINE i == s[1]
           r == IF MoreBlocks(i) THEN ReadBlock(NextJobno(i), blk[s].data) ELSE FreeBlock
<1>0. CanAdvance(s) /\ Visited(s) /\ MoreBlocks(i) \in BOOLEAN
  BY ScannedBlock DEF BlockDone, MoreBlocks
<1>1. /\ i \in FileSlots /\ job[i] \in JobType /\ job[i].nScheduled >= 1
      /\ blk[s] \in BlockType /\ blk[s].inUse
  BY <1>0 DEF Visited
<1>2. NextJobno(i) \in Nat
  BY <1>1 DEF NextJobno, JobType
<1>3. /\ r \in BlockType
      /\ r.inUse <=> MoreBlocks(i)
      /\ r.inUse => r.jobno = NextJobno(i) /\ r.type = "READ" /\ r.status = "pending"
  <2>1. CASE MoreBlocks(i)
    BY <1>1, <1>2, <2>1 DEF ReadBlock, BlockType, Bytes
  <2>2. CASE ~MoreBlocks(i)
    BY <2>2 DEF FreeBlock, BlockType, Bytes
  <2> QED
    BY <2>1, <2>2
<1>4. blk' = [blk EXCEPT ![s] = r]
  BY DEF BlockDone, Cleared
<1>5. /\ job' = [job EXCEPT ![i] = AfterBlock(s)]
      /\ AfterBlock(s).file = job[i].file
      /\ AfterBlock(s).nFinished = job[i].nFinished + 1
      /\ AfterBlock(s).nScheduled =
            IF MoreBlocks(i) THEN job[i].nScheduled ELSE job[i].nScheduled - 1
  BY <1>0, <1>1, AfterBlockCounters DEF BlockDone
<1>6. /\ job'[i] = AfterBlock(s)
      /\ \A k \in FileSlots : job'[k].file = job[k].file /\ (k # i => job'[k] = job[k])
  BY <1>1, <1>5 DEF IInv, TypeOK
<1> HIDE DEF r
<1>7. NextJobno(i)' = IF r.inUse THEN NextJobno(i) + 1 ELSE NextJobno(i)
  BY <1>1, <1>3, <1>5, <1>6 DEF NextJobno, JobType
<1>8. settled' = [settled EXCEPT ![FileAt(s)] = @ \cup {blk[s].jobno}]
  BY DEF BlockDone, FileAt
<1>9. UNCHANGED <<crawl, queued, finished, dst, lost>>
  BY DEF BlockDone, crawlVars
<1>10. SlotMove(s, r)
  BY <1>1, <1>3, <1>4, <1>6, <1>7, <1>8, <1>9 DEF SlotMove
<1> QED
  BY <1>1, <1>3, <1>10

LEMMA BlockFailedMoves ==
    ASSUME IInv, NEW s \in Slots, BlockFailed(s)
    PROVE  blk[s].inUse /\ \E r \in BlockType : SlotMove(s, r)
<1> DEFINE i == s[1]
<1>0. CanAdvance(s) /\ Visited(s)
  BY ScannedBlock DEF BlockFailed
<1>1. /\ i \in FileSlots /\ job[i] \in JobType /\ job[i].nScheduled >= 1
      /\ blk[s] \in BlockType /\ blk[s].inUse
  BY <1>0 DEF Visited
<1>2. FreeBlock \in BlockType /\ ~FreeBlock.inUse
  BY DEF FreeBlock, BlockType, Bytes
<1>3. /\ job' = [job EXCEPT ![i] = AfterFailure(i)]
      /\ AfterFailure(i).file = job[i].file
      /\ AfterFailure(i).nFinished = job[i].nFinished + 1
      /\ AfterFailure(i).nScheduled = job[i].nScheduled - 1
  BY <1>1, AfterFailureCounters DEF BlockFailed
<1>4. /\ job'[i] = AfterFailure(i)
      /\ \A k \in FileSlots : job'[k].file = job[k].file /\ (k # i => job'[k] = job[k])
  BY <1>1, <1>3 DEF IInv, TypeOK
<1>5. NextJobno(i)' = NextJobno(i)
  BY <1>1, <1>3, <1>4 DEF NextJobno, JobType
<1>6. /\ blk' = [blk EXCEPT ![s] = FreeBlock]
      /\ settled' = [settled EXCEPT ![FileAt(s)] = @ \cup {blk[s].jobno}]
      /\ UNCHANGED <<crawl, queued, finished, dst, lost>>
  BY DEF BlockFailed, Cleared, FileAt, crawlVars
<1>7. SlotMove(s, FreeBlock)
  BY <1>1, <1>2, <1>4, <1>5, <1>6 DEF SlotMove
<1> QED
  BY <1>1, <1>2, <1>7

LEMMA StartBlockMoves ==
    ASSUME IInv, NEW i \in FileSlots, StartBlock(i)
    PROVE  /\ Active(i)
           /\ \E s \in Slots, r \in BlockType : s[1] = i /\ ~blk[s].inUse /\ SlotMove(s, r)
<1>1. Active(i) /\ MoreBlocks(i)
  BY DEF StartBlock, IsFirst, IInv, FscanInv
<1>2. job[i] \in JobType /\ job[i].file \in Files /\ NextJobno(i) \in Nat
  BY <1>1, ActiveFile
<1>3. PICK j \in BlockSlots, b \in Available(job[i].file) :
          /\ IsFirst(j, BlockSlots \ InUse(i))
          /\ blk' = [blk EXCEPT ![<<i, j>>] = ReadBlock(NextJobno(i), b)]
  BY DEF StartBlock
<1> DEFINE s == <<i, j>>
           r == ReadBlock(NextJobno(i), b)
<1>4. s \in Slots /\ s[1] = i /\ ~blk[s].inUse
  BY <1>3 DEF Slots, IsFirst, InUse
<1>5. b \in SUBSET Chunks
  BY <1>2, BuffersAssumption DEF Available
<1>6. /\ r \in BlockType /\ r.inUse /\ r.jobno = NextJobno(i)
      /\ r.type = "READ" /\ r.status = "pending"
  BY <1>2, <1>5 DEF ReadBlock, BlockType, Bytes
<1>7. /\ job' = [job EXCEPT ![i] = AfterStart(i)]
      /\ AfterStart(i).file = job[i].file
      /\ AfterStart(i).nFinished = job[i].nFinished
      /\ AfterStart(i).nScheduled = job[i].nScheduled + 1
  BY <1>2, AfterStartCounters DEF StartBlock
<1>8. /\ job'[i] = AfterStart(i)
      /\ \A k \in FileSlots : job'[k].file = job[k].file /\ (k # i => job'[k] = job[k])
  BY <1>7 DEF IInv, TypeOK
<1>9. NextJobno(i)' = NextJobno(i) + 1
  BY <1>2, <1>7, <1>8 DEF NextJobno, JobType
<1>10. blk' = [blk EXCEPT ![s] = r] /\ UNCHANGED <<crawl, queued, finished, dst, lost, settled>>
  BY <1>3 DEF StartBlock, crawlVars
<1> HIDE DEF s, r
<1>11. SlotMove(s, r)
  BY <1>1, <1>4, <1>6, <1>8, <1>9, <1>10 DEF SlotMove
<1> QED
  BY <1>1, <1>4, <1>6, <1>11

\* No two active slots have the same file, so settled belongs to the slot.
LEMMA OtherFile ==
    ASSUME IInv, PlaceInv, NEW s \in Slots, NEW t \in Slots,
           Active(s[1]) \/ Active(t[1]), s[1] # t[1]
    PROVE  FileAt(s) # FileAt(t)
  BY DEF PlaceInv, FileAt, Slots

LEMMA SlotMoveNumbers ==
    ASSUME IInv, PlaceInv, NumberInv,
           NEW s \in Slots, NEW r \in BlockType, Active(s[1]), SlotMove(s, r)
    PROVE  NumberInv'
<1> DEFINE i == s[1]
           x == FileAt(s)
           n == NextJobno(i)
<1>1. /\ i \in FileSlots /\ x = job[i].file /\ x \in Files /\ n \in Nat
      /\ settled \in [Files -> SUBSET Nat]
  BY ActiveFile DEF Slots, FileAt, IInv, TypeOK
<1>2. \A t \in Slots : blk'[t] = IF t = s THEN r ELSE blk[t]
  BY DEF SlotMove, IInv, TypeOK
<1>3. /\ \A y \in Files : y # x => settled'[y] = settled[y]
      /\ \A k : k \in settled'[x] <=> k \in settled[x] \/ (blk[s].inUse /\ blk[s].jobno = k)
  <2>1. CASE blk[s].inUse
    <3>1. settled' = [settled EXCEPT ![x] = @ \cup {blk[s].jobno}]
      BY <2>1 DEF SlotMove
    <3> QED
      BY <1>1, <2>1, <3>1
  <2>2. CASE ~blk[s].inUse
    BY <2>2 DEF SlotMove
  <2> QED
    BY <2>1, <2>2
<1>4. /\ \A k \in FileSlots : job'[k].file = job[k].file
      /\ \A k \in FileSlots : k # i => NextJobno(k)' = NextJobno(k)
      /\ n' = IF r.inUse THEN n + 1 ELSE n
      /\ r.inUse => r.jobno = n
      /\ UNCHANGED <<crawl, queued, finished>>
  BY DEF SlotMove, NextJobno
<1>5. \A t \in Slots : FileAt(t)' = FileAt(t) /\ t[1] \in FileSlots
  BY <1>4 DEF FileAt, Slots
<1>6. \A t \in Slots : blk[t].inUse => /\ blk[t].jobno \in Nat
                                        /\ t[1] = i => blk[t].jobno < n
                                        /\ FileAt(t) \in Files
                                        /\ blk[t].jobno \notin settled[FileAt(t)]
  BY BlockInUse DEF NumberInv
<1>7. \A k \in Nat : k < n <=> k \in settled[x] \/ Running(i, k)
  BY <1>1 DEF NumberInv
<1>8. n \notin settled[x]
  BY <1>1, <1>7
<1>9. ASSUME NEW t \in Slots, NEW u \in Slots,
             blk'[t].inUse, blk'[u].inUse, t # u, t[1] = u[1]
      PROVE  blk'[t].jobno # blk'[u].jobno
  <2>1. CASE t # s /\ u # s
    BY <1>2, <1>9, <2>1 DEF NumberInv
  <2>2. CASE t = s
    BY <1>1, <1>2, <1>4, <1>6, <1>9, <2>2
  <2>3. CASE u = s
    BY <1>1, <1>2, <1>4, <1>6, <1>9, <2>3
  <2> QED
    BY <2>1, <2>2, <2>3
<1>10. ASSUME NEW t \in Slots, blk'[t].inUse
       PROVE  blk'[t].jobno \notin settled'[FileAt(t)']
  <2>1. CASE t = s
    BY <1>1, <1>2, <1>3, <1>4, <1>5, <1>6, <1>8, <1>10, <2>1
  <2>2. CASE t # s /\ t[1] = i
    <3>1. FileAt(t) = x
      BY <2>2 DEF FileAt
    <3>2. blk[t].inUse /\ blk'[t] = blk[t]
      BY <1>2, <1>10, <2>2
    <3>3. blk[s].inUse => blk[t].jobno # blk[s].jobno
      BY <2>2, <3>2 DEF NumberInv
    <3>4. FileAt(t)' = x /\ blk'[t].jobno = blk[t].jobno
      BY <1>5, <3>1, <3>2
    <3>5. blk[t].jobno \notin settled[x]
      BY <3>1, <3>2 DEF NumberInv
    <3>6. blk[t].jobno \notin settled'[x]
      BY <1>3, <3>3, <3>5
    <3> QED
      BY <3>4, <3>6
  <2>3. CASE t[1] # i
    <3>1. blk[t].inUse /\ blk'[t] = blk[t]
      BY <1>2, <1>10, <2>3
    <3>2. FileAt(t) # x
      BY <2>3, OtherFile
    <3>3. FileAt(t)' = FileAt(t) /\ blk'[t].jobno = blk[t].jobno
      BY <1>5, <3>1
    <3>4. blk[t].jobno \notin settled[FileAt(t)] /\ FileAt(t) \in Files
      BY <3>1, BlockInUse DEF NumberInv
    <3>5. settled'[FileAt(t)] = settled[FileAt(t)]
      BY <1>3, <3>2, <3>4
    <3> QED
      BY <3>3, <3>4, <3>5
  <2> QED
    BY <2>1, <2>2, <2>3
<1>11. ASSUME NEW k \in FileSlots, Active(k)', NEW m \in Nat
       PROVE  m < NextJobno(k)' <=> m \in settled'[job'[k].file] \/ Running(k, m)'
  <2>0. job'[k].file = job[k].file /\ Active(k) /\ job[k].file \in Files
    BY <1>4, <1>11, ActiveFile DEF Active
  <2>1. CASE k = i
    <3>1. Running(i, m)' <=> \/ r.inUse /\ m = n
                             \/ \E t \in Slots : /\ t # s /\ t[1] = i
                                                 /\ blk[t].inUse /\ blk[t].jobno = m
      BY <1>2, <1>4 DEF Running
    <3>2. Running(i, m) <=> \/ blk[s].inUse /\ blk[s].jobno = m
                            \/ \E t \in Slots : /\ t # s /\ t[1] = i
                                                /\ blk[t].inUse /\ blk[t].jobno = m
      BY DEF Running
    <3>3. m \in settled'[x] \/ Running(i, m)' <=> \/ m \in settled[x] \/ Running(i, m)
                                                  \/ r.inUse /\ m = n
      BY <1>3, <3>1, <3>2
    <3>4. m < n' <=> m < n \/ (r.inUse /\ m = n)
      BY <1>1, <1>4
    <3> QED
      BY <1>1, <1>7, <2>0, <2>1, <3>3, <3>4
  <2>2. CASE k # i
    <3>1. Running(k, m)' <=> Running(k, m)
      BY <1>2, <2>2 DEF Running
    <3>2. job[k].file # x
      BY <1>1, <2>0, <2>2 DEF PlaceInv
    <3> QED
      BY <1>3, <1>4, <2>0, <2>2, <3>1, <3>2 DEF NumberInv
  <2> QED
    BY <2>1, <2>2
<1>12. ASSUME NEW y \in crawl' \cup queued' PROVE settled'[y] = {}
  <2>1. y # x /\ y \in crawl \cup queued /\ y \in Files
    BY <1>1, <1>4 DEF PlaceInv, IInv, TypeOK
  <2> QED
    BY <1>3, <2>1 DEF NumberInv
<1>13. ASSUME NEW q \in finished' PROVE settled'[q.file] = 0 .. NBlocks[q.file] - 1
  <2>1. q \in finished /\ q.file # x /\ q.file \in Files
    BY <1>1, <1>4 DEF PlaceInv, IInv, TypeOK
  <2> QED
    BY <1>3, <2>1 DEF NumberInv
<1> QED
  BY <1>9, <1>10, <1>11, <1>12, <1>13 DEF NumberInv

\* A step that leaves the blocks and the counters of the files as they are.
LEMMA NumbersKept ==
    ASSUME IInv, NumberInv, UNCHANGED <<settled, finished>>,
           crawl' \cup queued' \subseteq crawl \cup queued,
           \A s \in Slots : /\ blk'[s].inUse <=> blk[s].inUse
                            /\ blk'[s].jobno = blk[s].jobno,
           \A i \in FileSlots : job'[i].file = job[i].file /\ NextJobno(i)' = NextJobno(i)
    PROVE  NumberInv'
<1>1. \A s \in Slots : FileAt(s)' = FileAt(s)
  BY DEF FileAt, Slots
<1>2. \A i \in FileSlots, k \in Nat : Running(i, k)' <=> Running(i, k)
  BY DEF Running
<1>3. \A i \in FileSlots : Active(i)' <=> Active(i)
  BY DEF Active
<1>4. \A s, t \in Slots : blk'[s].inUse /\ blk'[t].inUse /\ s # t /\ s[1] = t[1] =>
                             blk'[s].jobno # blk'[t].jobno
  BY DEF NumberInv
<1>5. \A s \in Slots : blk'[s].inUse => blk'[s].jobno \notin settled'[FileAt(s)']
  BY <1>1 DEF NumberInv
<1>6. \A i \in FileSlots : Active(i)' =>
         \A k \in Nat : k < NextJobno(i)' <=> k \in settled'[job'[i].file] \/ Running(i, k)'
  BY <1>2, <1>3 DEF NumberInv
<1>7. \A x \in crawl' \cup queued' : settled'[x] = {}
  BY DEF NumberInv
<1>8. \A r \in finished' : settled'[r.file] = 0 .. NBlocks[r.file] - 1
  BY DEF NumberInv
<1> QED
  BY <1>4, <1>5, <1>6, <1>7, <1>8 DEF NumberInv

\* The blocks of a rejected batch are settled and leave their slots.
LEMMA SubmitFailNumbers ==
    ASSUME IInv, PlaceInv, NumberInv, SubmitFail PROVE NumberInv'
<1>1. /\ \A s \in Queue : s \in Slots /\ blk[s].inUse
      /\ \A s \in Slots : blk'[s] = IF s \in Queue THEN FreeBlock ELSE blk[s]
      /\ \A i \in FileSlots : job'[i].file = job[i].file /\ NextJobno(i)' = NextJobno(i)
  BY FailedBatch
<1>2. ~FreeBlock.inUse
  BY DEF FreeBlock
<1>3. \A x \in Files : settled'[x] =
         settled[x] \cup {blk[s].jobno : s \in {t \in Queue : FileAt(t) = x}}
  BY DEF SubmitFail
<1>4. UNCHANGED <<crawl, queued, finished>>
  BY DEF SubmitFail, crawlVars
<1>5. \A s \in Slots : FileAt(s)' = FileAt(s) /\ s[1] \in FileSlots
  BY <1>1 DEF FileAt, Slots
<1>6. \A i \in FileSlots : Active(i)' <=> Active(i)
  BY <1>1 DEF Active
<1>7. ASSUME NEW s \in Slots, NEW t \in Slots,
             blk'[s].inUse, blk'[t].inUse, s # t, s[1] = t[1]
      PROVE  blk'[s].jobno # blk'[t].jobno
  BY <1>1, <1>2, <1>7 DEF NumberInv
<1>8. ASSUME NEW s \in Slots, blk'[s].inUse
      PROVE  blk'[s].jobno \notin settled'[FileAt(s)']
  <2>1. s \notin Queue /\ blk'[s] = blk[s] /\ blk[s].inUse
    BY <1>1, <1>2, <1>8
  <2>2. FileAt(s) \in Files /\ blk[s].jobno \notin settled[FileAt(s)] /\ Active(s[1])
    BY <2>1, BlockInUse DEF NumberInv
  <2>3. ASSUME NEW t \in Queue, FileAt(t) = FileAt(s) PROVE blk[t].jobno # blk[s].jobno
    <3>1. t \in Slots /\ blk[t].inUse /\ t # s
      BY <1>1, <2>1
    <3>2. t[1] = s[1]
      BY <2>2, <2>3, <3>1, OtherFile
    <3> QED
      BY <2>1, <3>1, <3>2 DEF NumberInv
  <2>4. blk[s].jobno \notin settled'[FileAt(s)]
    BY <1>3, <2>2, <2>3
  <2> QED
    BY <1>5, <2>1, <2>4
<1>9. ASSUME NEW i \in FileSlots, Active(i)', NEW k \in Nat
      PROVE  k < NextJobno(i)' <=> k \in settled'[job'[i].file] \/ Running(i, k)'
  <2> DEFINE x == job[i].file
  <2>1. Active(i) /\ x \in Files /\ job'[i].file = x
    BY <1>1, <1>6, <1>9, ActiveFile
  <2>2. k \in settled'[x] <=>
           k \in settled[x] \/ \E s \in Queue : s[1] = i /\ blk[s].jobno = k
    <3>1. \A s \in Queue : FileAt(s) = x <=> s[1] = i
      <4> TAKE s \in Queue
      <4>1. s \in Slots /\ blk[s].inUse /\ s[1] \in FileSlots
        BY <1>1, <1>5
      <4>2. s[1] = i => FileAt(s) = x
        BY DEF FileAt
      <4>3. s[1] # i => FileAt(s) # x
        BY <2>1, <4>1 DEF FileAt, PlaceInv
      <4> QED
        BY <4>2, <4>3
    <3> QED
      BY <1>3, <2>1, <3>1
  <2>3. Running(i, k)' <=>
           \E s \in Slots : s \notin Queue /\ s[1] = i /\ blk[s].inUse /\ blk[s].jobno = k
    BY <1>1, <1>2 DEF Running
  <2>4. Running(i, k) <=>
           \/ \E s \in Queue : s[1] = i /\ blk[s].jobno = k
           \/ \E s \in Slots : s \notin Queue /\ s[1] = i /\ blk[s].inUse /\ blk[s].jobno = k
    BY <1>1 DEF Running
  <2>5. k < NextJobno(i) <=> k \in settled[x] \/ Running(i, k)
    BY <2>1 DEF NumberInv
  <2> QED
    BY <1>1, <2>1, <2>2, <2>3, <2>4, <2>5
<1>10. ASSUME NEW x \in Files, x \in crawl \cup queued \/ \E r \in finished : r.file = x
       PROVE  settled'[x] = settled[x]
  <2>1. \A s \in Queue : FileAt(s) # x
    BY <1>1, <1>5, <1>10 DEF PlaceInv, FileAt
  <2> QED
    BY <1>3, <2>1
<1>11. \A x \in crawl' \cup queued' : settled'[x] = {}
  BY <1>4, <1>10 DEF NumberInv, IInv, TypeOK
<1>12. \A r \in finished' : settled'[r.file] = 0 .. NBlocks[r.file] - 1
  BY <1>4, <1>10 DEF NumberInv, IInv, TypeOK
<1> QED
  BY <1>7, <1>8, <1>9, <1>11, <1>12 DEF NumberInv

\* A file whose blocks are all finished has them all settled.
LEMMA FinishedFileSettled ==
    ASSUME IInv, NumberInv, NEW i \in FileSlots, Active(i), AllBlocksFinished(i)
    PROVE  /\ \A s \in Slots : s[1] = i => ~blk[s].inUse
           /\ settled[job[i].file] = 0 .. NBlocks[job[i].file] - 1
<1> DEFINE x == job[i].file
<1>1. /\ job[i] \in JobType /\ x \in Files /\ NBlocks[x] \in Nat
      /\ NextJobno(i) \in Nat /\ NextJobno(i) <= NBlocks[x]
  BY ActiveFile
<1>2. InUse(i) = {}
  BY FinishedFileIdle
<1>3. \A s \in Slots : s[1] = i => ~blk[s].inUse
  BY <1>2 DEF Slots, InUse
<1>4. NextJobno(i) = NBlocks[x]
  <2>1. job[i].nFinished >= NBlocks[x]
    BY DEF AllBlocksFinished
  <2> QED
    BY <1>1, <2>1 DEF NextJobno, JobType
<1>5. \A k \in Nat : k < NBlocks[x] <=> k \in settled[x]
  BY <1>3, <1>4 DEF NumberInv, Running
<1>6. settled[x] \subseteq Nat
  BY <1>1 DEF IInv, TypeOK
<1>7. settled[x] = 0 .. NBlocks[x] - 1
  <2>1. \A k : k \in 0 .. NBlocks[x] - 1 <=> k \in Nat /\ k < NBlocks[x]
    BY <1>1
  <2>2. \A k : k \in settled[x] <=> k \in 0 .. NBlocks[x] - 1
    BY <1>5, <1>6, <2>1
  <2> QED
    BY <2>2
<1> QED
  BY <1>3, <1>7

LEMMA CompleteFileNumbers ==
    ASSUME IInv, PlaceInv, NumberInv, NEW i \in FileSlots, CompleteFile(i) PROVE NumberInv'
<1> DEFINE e == [file |-> job[i].file, nErrors |-> job[i].nErrors]
<1>1. Active(i) /\ AllBlocksFinished(i)
  BY DEF CompleteFile, IsFirst, IInv, FscanInv
<1>2. /\ \A s \in Slots : s[1] = i => ~blk[s].inUse
      /\ settled[job[i].file] = 0 .. NBlocks[job[i].file] - 1
  BY <1>1, FinishedFileSettled
<1>3. \A s \in Slots : blk'[s] = blk[s]
  BY <1>2 DEF CompleteFile
<1>4. /\ settled' = settled /\ crawl' = crawl /\ queued' = queued
      /\ finished' = finished \cup {e} /\ e.file = job[i].file
  BY DEF CompleteFile, crawlVars
<1>5. /\ \A k \in FileSlots : k # i => job'[k] = job[k]
      /\ job'[i].file = NoFile
  BY DEF CompleteFile, ClearedJob, IdleJob, IInv, TypeOK
<1>6. \A s \in Slots : blk[s].inUse => FileAt(s)' = FileAt(s)
  BY <1>2, <1>5 DEF FileAt, Slots
<1>7. \A k \in FileSlots : Active(k)' => /\ k # i /\ Active(k) /\ job'[k].file = job[k].file
                                         /\ NextJobno(k)' = NextJobno(k)
  BY <1>5 DEF Active, NextJobno
<1>8. \A k \in FileSlots, m \in Nat : Running(k, m)' <=> Running(k, m)
  BY <1>3 DEF Running
<1>9. \A s, t \in Slots : blk'[s].inUse /\ blk'[t].inUse /\ s # t /\ s[1] = t[1] =>
                             blk'[s].jobno # blk'[t].jobno
  BY <1>3 DEF NumberInv
<1>10. \A s \in Slots : blk'[s].inUse => blk'[s].jobno \notin settled'[FileAt(s)']
  BY <1>3, <1>4, <1>6 DEF NumberInv
<1>11. \A k \in FileSlots : Active(k)' =>
         \A m \in Nat : m < NextJobno(k)' <=> m \in settled'[job'[k].file] \/ Running(k, m)'
  BY <1>4, <1>7, <1>8 DEF NumberInv
<1>12. \A r \in finished' : settled'[r.file] = 0 .. NBlocks[r.file] - 1
  BY <1>2, <1>4 DEF NumberInv
<1>13. \A x \in crawl' \cup queued' : settled'[x] = {}
  BY <1>4 DEF NumberInv
<1> QED
  BY <1>9, <1>10, <1>11, <1>12, <1>13 DEF NumberInv

LEMMA TakeJobNumbers ==
    ASSUME IInv, PlaceInv, NumberInv, NEW i \in FileSlots, NEW x \in Files, TakeJob(i, x)
    PROVE  NumberInv'
<1>1. ~Active(i) /\ x \in queued /\ settled[x] = {}
  BY DEF TakeJob, IsFirst, IdleSlots, NumberInv
<1>2. \A s \in Slots : s[1] = i => ~blk[s].inUse
  BY <1>1 DEF IInv, RequestsTracked
<1>3. blk' = blk /\ settled' = settled /\ crawl' = crawl /\ finished' = finished
      /\ queued' \subseteq queued
  BY DEF TakeJob
<1>4. /\ \A k \in FileSlots : k # i => job'[k] = job[k]
      /\ job'[i].file = x /\ job'[i].nScheduled = 0 /\ job'[i].nFinished = 0
  BY DEF TakeJob, IdleJob, IInv, TypeOK
<1>5. \A s \in Slots : blk[s].inUse => FileAt(s)' = FileAt(s)
  BY <1>2, <1>4 DEF FileAt, Slots
<1>6. \A k \in FileSlots, m \in Nat : Running(k, m)' <=> Running(k, m)
  BY <1>3 DEF Running
<1>7. \A s, t \in Slots : blk'[s].inUse /\ blk'[t].inUse /\ s # t /\ s[1] = t[1] =>
                             blk'[s].jobno # blk'[t].jobno
  BY <1>3 DEF NumberInv
<1>8. \A s \in Slots : blk'[s].inUse => blk'[s].jobno \notin settled'[FileAt(s)']
  BY <1>3, <1>5 DEF NumberInv
<1>9. ASSUME NEW k \in FileSlots, Active(k)', NEW m \in Nat
      PROVE  m < NextJobno(k)' <=> m \in settled'[job'[k].file] \/ Running(k, m)'
  <2>1. CASE k = i
    <3>1. NextJobno(i)' = 0 /\ settled'[job'[i].file] = {}
      BY <1>1, <1>3, <1>4 DEF NextJobno
    <3>2. ~Running(i, m)
      BY <1>2 DEF Running
    <3> QED
      BY <1>6, <2>1, <3>1, <3>2
  <2>2. CASE k # i
    BY <1>3, <1>4, <1>6, <1>9, <2>2 DEF NumberInv, Active, NextJobno
  <2> QED
    BY <2>1, <2>2
<1>10. \A r \in finished' : settled'[r.file] = 0 .. NBlocks[r.file] - 1
  BY <1>3 DEF NumberInv
<1>11. \A y \in crawl' \cup queued' : settled'[y] = {}
  BY <1>3 DEF NumberInv
<1> QED
  BY <1>7, <1>8, <1>9, <1>10, <1>11 DEF NumberInv

\* What the slot of a block that has been read holds next.
LEMMA ReadDoneBlock ==
    ASSUME IInv, NEW s \in Slots, ReadDone(s)
    PROVE  /\ blk[s].inUse /\ blk[s].type = "READ" /\ blk[s].status = "ok"
           /\ \A t \in Slots : t # s => blk'[t] = blk[t]
           /\ blk'[s].inUse /\ blk'[s].jobno = blk[s].jobno
           /\ \/ /\ blk[s].bytes = "zero"
                 /\ blk'[s].type = "FINISH" /\ blk'[s].status = "ok"
              \/ /\ blk'[s].type = "WRITE" /\ blk'[s].status = "pending"
                 /\ blk'[s].bytes = blk[s].bytes
                 /\ Readback => blk'[s].srcHash = blk[s].bytes
           /\ UNCHANGED <<job, crawl, queued, finished, dst, settled, lost>>
<1>0. blk[s] \in BlockType /\ blk[s].inUse /\ blk[s].type = "READ" /\ blk[s].status = "ok"
  BY ScannedBlock DEF ReadDone, Visited
<1>1. UNCHANGED <<job, crawl, queued, finished, dst, settled, lost>>
  BY DEF ReadDone, crawlVars
<1>2. CASE Sparse /\ blk[s].bytes = "zero"
  <2> DEFINE r == [blk[s] EXCEPT !.type = "FINISH"]
  <2>1. blk' = [blk EXCEPT ![s] = r]
    BY <1>2 DEF ReadDone
  <2>2. r.inUse /\ r.jobno = blk[s].jobno /\ r.type = "FINISH" /\ r.status = "ok"
    BY <1>0 DEF BlockType
  <2> HIDE DEF r
  <2>3. \A t \in Slots : blk'[t] = IF t = s THEN r ELSE blk[t]
    BY <2>1 DEF IInv, TypeOK
  <2> QED
    BY <1>0, <1>1, <1>2, <2>2, <2>3
<1>3. CASE ~(Sparse /\ blk[s].bytes = "zero")
  <2> DEFINE h == IF Readback THEN blk[s].bytes ELSE "junk"
             r == [blk[s] EXCEPT !.type = "WRITE", !.status = "pending", !.srcHash = h]
  <2>1. blk' = [blk EXCEPT ![s] = r]
    BY <1>3 DEF ReadDone
  <2>2. /\ r.inUse /\ r.jobno = blk[s].jobno /\ r.type = "WRITE" /\ r.status = "pending"
        /\ r.bytes = blk[s].bytes /\ r.srcHash = h
    BY <1>0 DEF BlockType
  <2>3. Readback => h = blk[s].bytes
    OBVIOUS
  <2> HIDE DEF h, r
  <2>4. \A t \in Slots : blk'[t] = IF t = s THEN r ELSE blk[t]
    BY <2>1 DEF IInv, TypeOK
  <2> QED
    BY <1>0, <1>1, <2>2, <2>3, <2>4
<1> QED
  BY <1>2, <1>3

LEMMA WriteDoneBlock ==
    ASSUME IInv, NEW s \in Slots, WriteDone(s)
    PROVE  /\ blk[s].inUse /\ blk[s].type = "WRITE" /\ blk[s].status = "ok"
           /\ \A t \in Slots : t # s => blk'[t] = blk[t]
           /\ blk'[s].inUse /\ blk'[s].jobno = blk[s].jobno
           /\ \/ /\ Readback
                 /\ blk'[s].type = "READDST" /\ blk'[s].status = "pending"
                 /\ blk'[s].srcHash = blk[s].srcHash
              \/ /\ ~Readback
                 /\ blk'[s].type = "FINISH" /\ blk'[s].status = "ok"
           /\ UNCHANGED <<job, crawl, queued, finished, dst, settled, lost>>
<1>0. blk[s] \in BlockType /\ blk[s].inUse /\ blk[s].type = "WRITE" /\ blk[s].status = "ok"
  BY ScannedBlock DEF WriteDone, Visited
<1>1. UNCHANGED <<job, crawl, queued, finished, dst, settled, lost>>
  BY DEF WriteDone, crawlVars
<1>2. CASE ~Readback
  <2> DEFINE r == [blk[s] EXCEPT !.type = "FINISH"]
  <2>1. blk' = [blk EXCEPT ![s] = r]
    BY <1>2 DEF WriteDone
  <2>2. r.inUse /\ r.jobno = blk[s].jobno /\ r.type = "FINISH" /\ r.status = "ok"
    BY <1>0 DEF BlockType
  <2> HIDE DEF r
  <2>3. \A t \in Slots : blk'[t] = IF t = s THEN r ELSE blk[t]
    BY <2>1 DEF IInv, TypeOK
  <2> QED
    BY <1>0, <1>1, <1>2, <2>2, <2>3
<1>3. CASE Readback
  <2> DEFINE r == [blk[s] EXCEPT !.type = "READDST", !.status = "pending", !.bytes = "zero"]
  <2>1. blk' = [blk EXCEPT ![s] = r]
    BY <1>3 DEF WriteDone
  <2>2. /\ r.inUse /\ r.jobno = blk[s].jobno /\ r.type = "READDST" /\ r.status = "pending"
        /\ r.srcHash = blk[s].srcHash
    BY <1>0 DEF BlockType
  <2> HIDE DEF r
  <2>3. \A t \in Slots : blk'[t] = IF t = s THEN r ELSE blk[t]
    BY <2>1 DEF IInv, TypeOK
  <2> QED
    BY <1>0, <1>1, <1>3, <2>2, <2>3
<1> QED
  BY <1>2, <1>3

LEMMA ReapBlock ==
    ASSUME IInv, NEW s \in Slots, NEW res \in Results, Reap(s, res)
    PROVE  /\ blk[s] \in BlockType /\ blk[s].inUse /\ blk[s].status = "pending"
           /\ \A t \in Slots : t # s => blk'[t] = blk[t]
           /\ blk'[s].inUse /\ blk'[s].jobno = blk[s].jobno /\ blk'[s].type = blk[s].type
           /\ blk'[s].srcHash = blk[s].srcHash
           /\ blk'[s].status = IF res = "err" THEN "err" ELSE "ok"
           /\ res = "ok" /\ blk[s].type = "READ" => blk'[s].bytes = SourceOf(s)
           /\ res = "ok" /\ blk[s].type = "READDST" => blk'[s].bytes = DstOf(s)
           /\ blk[s].type \notin {"READ", "READDST"} => blk'[s].bytes = blk[s].bytes
           /\ UNCHANGED <<job, crawl, queued, finished, settled>>
<1>0. blk[s] \in BlockType /\ blk[s].inUse /\ blk[s].status = "pending"
  BY DEF Reap, IInv, TypeOK, RequestsTracked, InFlight
<1>1. UNCHANGED <<job, crawl, queued, finished, settled>>
  BY DEF Reap, crawlVars
<1> DEFINE x == FileAt(s)
           k == blk[s].jobno
           y == CASE res = "ok" /\ blk[s].type = "READ" -> Source(x, k)
                  [] res = "ok" /\ blk[s].type = "READDST" -> dst[<<x, k>>]
                  [] OTHER -> blk[s].bytes
           st == IF res = "err" THEN "err" ELSE "ok"
           r == [blk[s] EXCEPT !.status = st, !.bytes = y]
<1>2. blk' = [blk EXCEPT ![s] = r]
  BY DEF Reap
<1>3. /\ r.inUse /\ r.jobno = blk[s].jobno /\ r.type = blk[s].type
      /\ r.srcHash = blk[s].srcHash /\ r.status = st /\ r.bytes = y
  <2> HIDE DEF y, st
  <2> QED
    BY <1>0 DEF BlockType
<1>4. /\ res = "ok" /\ blk[s].type = "READ" => y = SourceOf(s)
      /\ res = "ok" /\ blk[s].type = "READDST" => y = DstOf(s)
      /\ blk[s].type \notin {"READ", "READDST"} => y = blk[s].bytes
  BY DEF SourceOf, DstOf
<1>5. st = IF res = "err" THEN "err" ELSE "ok"
  OBVIOUS
<1> HIDE DEF y, st, r
<1>6. \A t \in Slots : blk'[t] = IF t = s THEN r ELSE blk[t]
  BY <1>2 DEF IInv, TypeOK
<1> QED
  BY <1>0, <1>1, <1>3, <1>4, <1>5, <1>6

LEMMA NumberInit == Init => NumberInv
<1> SUFFICES ASSUME Init PROVE NumberInv
  OBVIOUS
<1>1. \A s \in Slots : ~blk[s].inUse
  BY DEF Init, FreeBlock
<1>2. \A i \in FileSlots : ~Active(i)
  BY DEF Init, IdleJob, Active
<1>3. finished = {} /\ \A x \in crawl \cup queued : settled[x] = {}
  BY DEF Init
<1> QED
  BY <1>1, <1>2, <1>3 DEF NumberInv

LEMMA NumberStep == IInv /\ PlaceInv /\ NumberInv /\ [Next]_vars => NumberInv'
<1> SUFFICES ASSUME IInv, PlaceInv, NumberInv, [Next]_vars PROVE NumberInv'
  OBVIOUS
<1>1. ASSUME NEW s \in Slots, ReadDone(s) \/ WriteDone(s) PROVE NumberInv'
  <2>1. /\ \A t \in Slots : /\ blk'[t].inUse <=> blk[t].inUse
                            /\ blk'[t].jobno = blk[t].jobno
        /\ UNCHANGED <<job, crawl, queued, finished, settled>>
    BY <1>1, ReadDoneBlock, WriteDoneBlock
  <2> QED
    BY <2>1, NumbersKept DEF NextJobno
<1>2. ASSUME NEW s \in Slots, NEW res \in Results, Reap(s, res) PROVE NumberInv'
  <2>1. /\ \A t \in Slots : /\ blk'[t].inUse <=> blk[t].inUse
                            /\ blk'[t].jobno = blk[t].jobno
        /\ UNCHANGED <<job, crawl, queued, finished, settled>>
    BY <1>2, ReapBlock
  <2> QED
    BY <2>1, NumbersKept DEF NextJobno
<1>3. ASSUME NEW s \in Slots, BlockDone(s) \/ BlockFailed(s) PROVE NumberInv'
  BY <1>3, BlockDoneMoves, BlockFailedMoves, BlockInUse, SlotMoveNumbers
<1>4. ASSUME NEW i \in FileSlots, StartBlock(i) PROVE NumberInv'
  BY <1>4, StartBlockMoves, SlotMoveNumbers
<1>5. ASSUME NEW i \in FileSlots, CompleteFile(i) PROVE NumberInv'
  BY <1>5, CompleteFileNumbers
<1>6. ASSUME NEW i \in FileSlots, NEW x \in Files, TakeJob(i, x) PROVE NumberInv'
  BY <1>6, TakeJobNumbers
<1>7. CASE SubmitFail
  BY <1>7, SubmitFailNumbers
<1>8. CASE /\ UNCHANGED <<job, blk, settled, finished>>
           /\ crawl' \cup queued' \subseteq crawl \cup queued
  BY <1>8, NumbersKept DEF NextJobno
<1>9. CASE \/ UpdateEnd \/ CompleteEnd \/ FillEnd \/ ExitTest
           \/ SubmitSome \/ SubmitNone \/ ReapEnd
           \/ \E i \in FileSlots : StartNothing(i)
  BY <1>8, <1>9 DEF UpdateEnd, CompleteEnd, FillEnd, ExitTest, SubmitSome, SubmitNone,
                    ReapEnd, StartNothing, crawlVars
<1>10. CASE Crawler \/ Others \/ UNCHANGED vars
  BY <1>8, <1>10 DEF Crawler, Enqueue, CrawlEnd, Others, OthersAlloc, OthersFree, vars,
                     crawlVars
<1> QED
  BY <1>1, <1>2, <1>3, <1>4, <1>5, <1>6, <1>7, <1>9, <1>10
     DEF Next, Thread, UpdatePhase, CompletePhase, FillPhase, TickPhase, Complete, Terminated

LEMMA SpecNumber == Spec => []NumberInv
  BY NumberInit, NumberStep, SpecInv, SpecPlace, PTL DEF Spec

\* The next block of a file is numbered by the sum of two counters that are kept
\* apart from the blocks themselves, by three different updates.  They always
\* agree with them: the running and the settled blocks are disjoint, as many as
\* the counters say, and the first ones of the file.
THEOREM NoBlockSkippedOrDoubled == Spec => []BlocksOnce
<1>1. IInv /\ NumberInv => BlocksOnce
  <2> SUFFICES ASSUME IInv, NumberInv, NEW i \in FileSlots, Active(i)
               PROVE  LET x == job[i].file
                          running == {blk[<<i, j>>].jobno : j \in InUse(i)}
                      IN  /\ job[i].nScheduled = Cardinality(running)
                          /\ Cardinality(running) = Cardinality(InUse(i))
                          /\ job[i].nFinished = Cardinality(settled[x])
                          /\ running \cap settled[x] = {}
                          /\ running \cup settled[x] = 0 .. NextJobno(i) - 1
                          /\ NextJobno(i) <= NBlocks[x]
    BY DEF BlocksOnce
  <2> DEFINE x == job[i].file
             running == {blk[<<i, j>>].jobno : j \in InUse(i)}
             n == NextJobno(i)
             G == [j \in InUse(i) |-> blk[<<i, j>>].jobno]
  <2>1. /\ job[i] \in JobType /\ x \in Files /\ n \in Nat /\ n <= NBlocks[x]
        /\ settled[x] \subseteq Nat
    BY ActiveFile DEF IInv, TypeOK
  <2>2. \A j \in InUse(i) : /\ <<i, j>> \in Slots /\ blk[<<i, j>>].inUse
                            /\ blk[<<i, j>>].jobno \in Nat
                            /\ FileAt(<<i, j>>) = x
    <3> TAKE j \in InUse(i)
    <3>1. <<i, j>> \in Slots /\ blk[<<i, j>>].inUse
      BY DEF InUse, Slots
    <3> QED
      BY <3>1, BlockInUse DEF FileAt
  <2>3. \A k : k \in running <=> Running(i, k)
    <3>1. \A k : Running(i, k) => k \in running
      <4> SUFFICES ASSUME NEW s \in Slots, s[1] = i, blk[s].inUse
                   PROVE  blk[s].jobno \in running
        BY DEF Running
      <4>1. s = <<i, s[2]>> /\ s[2] \in BlockSlots
        BY DEF Slots
      <4>2. s[2] \in InUse(i)
        BY <4>1 DEF InUse
      <4> QED
        BY <4>1, <4>2
    <3>2. ASSUME NEW j \in InUse(i) PROVE Running(i, blk[<<i, j>>].jobno)
      BY <2>2 DEF Running
    <3> QED
      BY <3>1, <3>2
  <2>4. running \cap settled[x] = {}
    <3>1. \A j \in InUse(i) : blk[<<i, j>>].jobno \notin settled[x]
      BY <2>2 DEF NumberInv
    <3> QED
      BY <3>1
  <2>5. running \cup settled[x] = 0 .. n - 1
    <3>1. \A k \in Nat : k < n <=> k \in settled[x] \/ k \in running
      BY <2>3 DEF NumberInv
    <3>2. running \subseteq Nat
      BY <2>2
    <3>3. \A k : k \in 0 .. n - 1 <=> k \in Nat /\ k < n
      BY <2>1
    <3> HIDE DEF running, n
    <3>4. \A k : k \in running \cup settled[x] <=> k \in 0 .. n - 1
      BY <2>1, <3>1, <3>2, <3>3
    <3> QED
      BY <3>4
  <2>6. IsFiniteSet(InUse(i)) /\ Cardinality(InUse(i)) \in Nat
    BY InUseFinite
  <2>7. G \in Surjection(InUse(i), running) /\ G \in Injection(InUse(i), running)
    <3>1. G \in [InUse(i) -> running] /\ \A k \in running : \E j \in InUse(i) : G[j] = k
      OBVIOUS
    <3>2. \A j, l \in InUse(i) : j # l => G[j] # G[l]
      BY <2>2 DEF NumberInv
    <3> HIDE DEF G, running
    <3> QED
      BY <3>1, <3>2 DEF Injection, IsInjective, Surjection
  <2>8. IsFiniteSet(running) /\ Cardinality(running) = Cardinality(InUse(i))
    BY <2>6, <2>7, FS_Surjection
  <2>9. /\ IsFiniteSet(settled[x])
        /\ Cardinality(running \cup settled[x]) = n
    <3>1. IsFiniteSet(0 .. n - 1) /\ Cardinality(0 .. n - 1) = n
      BY <2>1, FS_Interval
    <3>2. settled[x] \subseteq 0 .. n - 1
      BY <2>5
    <3> QED
      BY <2>5, <3>1, <3>2, FS_Subset
  <2>10. Cardinality(running \cap settled[x]) = 0
    BY <2>4, FS_EmptySet
  <2>11. n = Cardinality(running) + Cardinality(settled[x])
    <3>1. Cardinality(running \cup settled[x])
            = Cardinality(running) + Cardinality(settled[x]) - Cardinality(running \cap settled[x])
      BY <2>8, <2>9, FS_Union
    <3>2. Cardinality(running) \in Nat /\ Cardinality(settled[x]) \in Nat
      BY <2>8, <2>9, FS_CardinalityType
    <3> HIDE DEF running, n
    <3> QED
      BY <2>9, <2>10, <3>1, <3>2
  <2>12. job[i].nScheduled = Cardinality(InUse(i))
    BY DEF IInv, CountInv
  <2>13. job[i].nFinished = Cardinality(settled[x])
    <3>1. n = job[i].nScheduled + job[i].nFinished
      BY DEF NextJobno
    <3>2. job[i].nScheduled \in Nat /\ job[i].nFinished \in Nat
      BY <2>1 DEF JobType
    <3>3. Cardinality(settled[x]) \in Nat
      BY <2>9, FS_CardinalityType
    <3> HIDE DEF n
    <3> QED
      BY <2>8, <2>11, <2>12, <3>1, <3>2, <3>3
  <2> QED
    BY <2>1, <2>4, <2>5, <2>8, <2>12, <2>13
<1> QED
  BY <1>1, SpecInv, SpecNumber, PTL

----------------------------------------------------------------------------
(***************************************************************************)
(* The bytes of the blocks.                                                *)
(***************************************************************************)

\* A step that changes neither a block nor a destination file.
LEMMA DataKept ==
    ASSUME IInv, DataInv, UNCHANGED <<job, blk, dst, settled, finished, lost>>,
           crawl' \cup queued' \subseteq crawl \cup queued
    PROVE  DataInv'
  BY DEF DataInv, BlockData, DstOf, SourceOf, Source, FileAt, Active, NextJobno, Intact

\* A step that moves one block to its next stage.
LEMMA StageData ==
    ASSUME IInv, DataInv, NEW s \in Slots,
           UNCHANGED <<job, crawl, queued, finished, dst, settled, lost>>,
           \A t \in Slots : t # s => blk'[t] = blk[t],
           FileAt(s) \notin lost => BlockData(s)'
    PROVE  DataInv'
<1>1. \A t \in Slots : FileAt(t)' = FileAt(t)
  BY DEF FileAt
<1>2. ASSUME NEW t \in Slots, blk'[t].inUse, FileAt(t)' \notin lost' PROVE BlockData(t)'
  <2>1. CASE t = s
    BY <1>1, <1>2, <2>1
  <2>2. CASE t # s
    BY <1>1, <1>2, <2>2 DEF DataInv, BlockData, DstOf, SourceOf
  <2> QED
    BY <2>1, <2>2
<1>3. \A i \in FileSlots : Active(i)' = Active(i) /\ NextJobno(i)' = NextJobno(i)
  BY DEF Active, NextJobno
<1> QED
  BY <1>2, <1>3 DEF DataInv, Intact

\* A block that was read is written with the bytes of the source, or skipped
\* because they are zero, as the destination's still are.
LEMMA ReadDoneData == ASSUME IInv, DataInv, NEW s \in Slots, ReadDone(s) PROVE DataInv'
<1>1. FileAt(s) \notin lost => BlockData(s)
  BY ReadDoneBlock DEF DataInv
<1>2. UNCHANGED <<job, dst>> /\ blk'[s].jobno = blk[s].jobno
  BY ReadDoneBlock
<1>3. FileAt(s)' = FileAt(s) /\ DstOf(s)' = DstOf(s) /\ SourceOf(s)' = SourceOf(s)
  BY <1>2 DEF FileAt, DstOf, SourceOf
<1>4. FileAt(s) \notin lost => BlockData(s)'
  BY <1>1, <1>3, ReadDoneBlock DEF BlockData
<1> QED
  BY <1>4, ReadDoneBlock, StageData

\* A block that was written is read back, or trusted.
LEMMA WriteDoneData == ASSUME IInv, DataInv, NEW s \in Slots, WriteDone(s) PROVE DataInv'
<1>1. FileAt(s) \notin lost => BlockData(s)
  BY WriteDoneBlock DEF DataInv
<1>2. UNCHANGED <<job, dst>> /\ blk'[s].jobno = blk[s].jobno
  BY WriteDoneBlock
<1>3. FileAt(s)' = FileAt(s) /\ DstOf(s)' = DstOf(s) /\ SourceOf(s)' = SourceOf(s)
  BY <1>2 DEF FileAt, DstOf, SourceOf
<1>4. FileAt(s) \notin lost => BlockData(s)'
  BY <1>1, <1>3, WriteDoneBlock DEF BlockData
<1> QED
  BY <1>4, WriteDoneBlock, StageData

\* A request reaches only the bytes of its own block.
LEMMA ReapData ==
    ASSUME IInv, PlaceInv, NumberInv, Trusted, DataInv,
           NEW s \in Slots, NEW res \in Results, Reap(s, res)
    PROVE  DataInv'
<1> DEFINE x == FileAt(s)
           k == blk[s].jobno
<1>1. /\ blk[s].inUse /\ blk[s].status = "pending"
      /\ UNCHANGED <<job, crawl, queued, finished, settled>>
      /\ \A t \in Slots : t # s => blk'[t] = blk[t]
      /\ blk'[s].inUse /\ blk'[s].jobno = k
  BY ReapBlock
<1>2. /\ s[1] \in FileSlots /\ Active(s[1]) /\ x \in Files /\ x = job[s[1]].file
      /\ k \in Nat /\ k < NextJobno(s[1]) /\ <<x, k>> \in BlockIds
  BY <1>1, BlockInUse
<1>3. lost \subseteq lost' /\ (x \notin lost' => res \notin {"err", "eof"} /\ x \notin lost)
  BY DEF Reap
<1>4. /\ \A b \in BlockIds : b # <<x, k>> => dst'[b] = dst[b]
      /\ blk[s].type # "WRITE" => dst' = dst
      /\ blk[s].type = "WRITE" /\ res = "ok" => dst'[<<x, k>>] = blk[s].bytes
  BY <1>2 DEF Reap, IInv, TypeOK
<1>5. /\ res \in AioResults
      /\ res = "corrupt" => blk[s].type = "WRITE"
  BY DEF Reap
<1>6. \A t \in Slots : FileAt(t)' = FileAt(t)
  BY <1>1 DEF FileAt
<1>7. ASSUME x \notin lost' PROVE BlockData(s)'
  <2>1. BlockData(s) /\ res \in {"ok", "corrupt"}
    BY <1>1, <1>3, <1>7 DEF DataInv, Results
  <2>2. SourceOf(s)' = SourceOf(s) /\ DstOf(s)' = dst'[<<x, k>>]
    BY <1>1, <1>6 DEF SourceOf, DstOf
  <2>3. blk'[s].status = "ok" /\ blk'[s].type = blk[s].type /\ blk'[s].srcHash = blk[s].srcHash
    BY <2>1, ReapBlock
  <2>4. CASE blk[s].type = "READ"
    <3>1. DstOf(s)' = "zero"
      BY <1>4, <2>1, <2>2, <2>4 DEF BlockData, DstOf
    <3>2. blk'[s].bytes = SourceOf(s)
      BY <1>5, <2>1, <2>4, ReapBlock
    <3> QED
      BY <2>2, <2>3, <2>4, <3>1, <3>2 DEF BlockData
  <2>5. CASE blk[s].type = "WRITE"
    <3>1. blk'[s].bytes = blk[s].bytes /\ blk[s].bytes = SourceOf(s)
      BY <2>1, <2>5, ReapBlock DEF BlockData
    <3>2. Readback => blk'[s].srcHash = SourceOf(s)
      BY <2>1, <2>3, <2>5 DEF BlockData
    <3>3. ~Readback => DstOf(s)' = SourceOf(s)
      BY <1>4, <1>5, <2>1, <2>2, <2>5, <3>1 DEF Trusted
    <3> QED
      BY <2>2, <2>3, <2>5, <3>1, <3>2, <3>3 DEF BlockData
  <2>6. CASE blk[s].type = "READDST"
    <3>1. DstOf(s)' = DstOf(s)
      BY <1>4, <2>2, <2>6 DEF DstOf
    <3>2. blk'[s].bytes = DstOf(s)
      BY <1>5, <2>1, <2>6, ReapBlock
    <3>3. blk'[s].srcHash = SourceOf(s)
      BY <2>1, <2>3, <2>6 DEF BlockData
    <3> QED
      BY <2>2, <2>3, <2>6, <3>1, <3>2, <3>3 DEF BlockData
  <2>7. CASE blk[s].type = "FINISH"
    <3>1. DstOf(s)' = DstOf(s)
      BY <1>4, <2>2, <2>7 DEF DstOf
    <3>2. DstOf(s) = SourceOf(s)
      BY <2>1, <2>7 DEF BlockData
    <3> QED
      BY <2>2, <2>3, <2>7, <3>1, <3>2 DEF BlockData
  <2>8. blk[s].type \in {"READ", "WRITE", "READDST", "FINISH"}
    BY ReapBlock DEF BlockType
  <2> QED
    BY <2>4, <2>5, <2>6, <2>7, <2>8
<1>8. ASSUME NEW t \in Slots, blk'[t].inUse, FileAt(t)' \notin lost' PROVE BlockData(t)'
  <2>1. CASE t = s
    BY <1>6, <1>7, <1>8, <2>1
  <2>2. CASE t # s
    <3>1. blk'[t] = blk[t] /\ blk[t].inUse /\ FileAt(t) \notin lost
      BY <1>1, <1>3, <1>6, <1>8, <2>2
    <3>2. <<FileAt(t), blk[t].jobno>> \in BlockIds
      BY <3>1, BlockInUse
    <3>3. <<FileAt(t), blk[t].jobno>> # <<x, k>>
      <4>1. CASE t[1] = s[1]
        BY <1>1, <2>2, <3>1, <4>1 DEF NumberInv
      <4>2. CASE t[1] # s[1]
        BY <1>2, <4>2, OtherFile
      <4> QED
        BY <4>1, <4>2
    <3>4. DstOf(t)' = DstOf(t) /\ SourceOf(t)' = SourceOf(t)
      BY <1>4, <1>6, <3>1, <3>2, <3>3 DEF DstOf, SourceOf
    <3>5. BlockData(t)
      BY <3>1 DEF DataInv
    <3> QED
      BY <3>1, <3>4, <3>5 DEF BlockData
  <2> QED
    BY <2>1, <2>2
<1>9. ASSUME NEW i \in FileSlots, Active(i)', job'[i].nErrors = 0, job'[i].file \notin lost',
             NEW m \in settled'[job'[i].file]
      PROVE  dst'[<<job'[i].file, m>>] = Source(job'[i].file, m)
  <2>1. /\ Active(i) /\ job' = job /\ settled' = settled
        /\ job[i].nErrors = 0 /\ job[i].file \notin lost /\ m \in settled[job[i].file]
    BY <1>1, <1>3, <1>9 DEF Active
  <2>2. job[i].file \in Files /\ m \in 0 .. NBlocks[job[i].file] - 1
    <3>1. /\ job[i].file \in Files /\ NBlocks[job[i].file] \in Nat
          /\ NextJobno(i) \in Nat /\ NextJobno(i) <= NBlocks[job[i].file]
      BY <2>1, ActiveFile
    <3>2. m \in Nat
      BY <2>1, <3>1 DEF IInv, TypeOK
    <3>3. m < NextJobno(i)
      BY <2>1, <3>2 DEF NumberInv
    <3> QED
      BY <3>1, <3>2, <3>3
  <2>3. <<job[i].file, m>> # <<x, k>>
    <3>1. k \notin settled[x]
      BY <1>1 DEF NumberInv
    <3> QED
      BY <2>1, <3>1
  <2>4. dst'[<<job[i].file, m>>] = dst[<<job[i].file, m>>]
    BY <1>4, <2>2, <2>3 DEF BlockIds
  <2> QED
    BY <2>1, <2>4 DEF DataInv
<1>10. ASSUME NEW i \in FileSlots, Active(i)', NEW m \in 0 .. NBlocks[job'[i].file] - 1,
              m >= NextJobno(i)'
       PROVE  dst'[<<job'[i].file, m>>] = "zero"
  <2>1. Active(i) /\ job' = job /\ NextJobno(i)' = NextJobno(i)
    BY <1>1, <1>10 DEF Active, NextJobno
  <2>2. job[i].file \in Files /\ NextJobno(i) \in Nat
    BY <2>1, ActiveFile
  <2>3. <<job[i].file, m>> # <<x, k>>
    <3>1. CASE i = s[1]
      <4>1. k # m
        BY <1>2, <1>10, <2>1, <2>2, <3>1
      <4> QED
        BY <4>1
    <3>2. CASE i # s[1]
      BY <1>2, <3>2 DEF PlaceInv
    <3> QED
      BY <3>1, <3>2
  <2>4. dst'[<<job[i].file, m>>] = dst[<<job[i].file, m>>]
    BY <1>4, <1>10, <2>1, <2>2, <2>3 DEF BlockIds
  <2> QED
    BY <1>10, <2>1, <2>4 DEF DataInv
<1>11. ASSUME NEW y \in Files, y # x, NEW m \in 0 .. NBlocks[y] - 1
       PROVE  dst'[<<y, m>>] = dst[<<y, m>>]
  BY <1>4, <1>11 DEF BlockIds
<1>12. \A y \in crawl' \cup queued' : \A m \in 0 .. NBlocks[y] - 1 : dst'[<<y, m>>] = "zero"
  <2> SUFFICES ASSUME NEW y \in crawl \cup queued, NEW m \in 0 .. NBlocks[y] - 1
               PROVE  dst'[<<y, m>>] = "zero"
    BY <1>1
  <2>1. y # x /\ y \in Files
    BY <1>2 DEF PlaceInv, IInv, TypeOK
  <2> QED
    BY <1>11, <2>1 DEF DataInv
<1>13. \A r \in finished' : r.nErrors = 0 /\ r.file \notin lost' => Intact(r.file)'
  <2> SUFFICES ASSUME NEW r \in finished, r.nErrors = 0, r.file \notin lost',
                      NEW m \in 0 .. NBlocks[r.file] - 1
               PROVE  dst'[<<r.file, m>>] = Source(r.file, m)
    BY <1>1 DEF Intact
  <2>1. r.file # x /\ r.file \in Files /\ r.file \notin lost
    BY <1>2, <1>3 DEF PlaceInv, IInv, TypeOK
  <2> QED
    BY <1>11, <2>1 DEF DataInv, Intact
<1> QED
  BY <1>8, <1>9, <1>10, <1>12, <1>13 DEF DataInv

\* The settled block is the source's unless its error is counted, and the next
\* one finds its destination still untouched.
LEMMA SlotMoveData ==
    ASSUME IInv, PlaceInv, NumberInv, DataInv,
           NEW s \in Slots, NEW r \in BlockType, Active(s[1]), SlotMove(s, r),
           job'[s[1]].nErrors = 0 /\ FileAt(s) \notin lost =>
              /\ job[s[1]].nErrors = 0
              /\ blk[s].inUse => DstOf(s) = SourceOf(s)
    PROVE  DataInv'
<1> DEFINE i == s[1]
           x == FileAt(s)
           n == NextJobno(i)
<1>1. /\ i \in FileSlots /\ x = job[i].file /\ x \in Files /\ n \in Nat
      /\ NBlocks[x] \in Nat /\ settled \in [Files -> SUBSET Nat]
  BY ActiveFile DEF Slots, FileAt, IInv, TypeOK
<1>2. \A t \in Slots : blk'[t] = IF t = s THEN r ELSE blk[t]
  BY DEF SlotMove, IInv, TypeOK
<1>3. /\ \A y \in Files : y # x => settled'[y] = settled[y]
      /\ \A k : k \in settled'[x] <=> k \in settled[x] \/ (blk[s].inUse /\ blk[s].jobno = k)
  <2>1. CASE blk[s].inUse
    <3>1. settled' = [settled EXCEPT ![x] = @ \cup {blk[s].jobno}]
      BY <2>1 DEF SlotMove
    <3> QED
      BY <1>1, <2>1, <3>1
  <2>2. CASE ~blk[s].inUse
    BY <2>2 DEF SlotMove
  <2> QED
    BY <2>1, <2>2
<1>4. /\ \A k \in FileSlots : job'[k].file = job[k].file
      /\ \A k \in FileSlots : k # i => job'[k] = job[k] /\ NextJobno(k)' = NextJobno(k)
      /\ n' = IF r.inUse THEN n + 1 ELSE n
      /\ UNCHANGED <<crawl, queued, finished, dst, lost>>
  BY DEF SlotMove, NextJobno
<1>5. \A t \in Slots : FileAt(t)' = FileAt(t) /\ t[1] \in FileSlots
  BY <1>4 DEF FileAt, Slots
<1>6. ASSUME NEW t \in Slots, blk'[t].inUse, FileAt(t)' \notin lost' PROVE BlockData(t)'
  <2>1. CASE t = s
    <3>1. /\ r.inUse /\ r.jobno = n /\ n < NBlocks[x]
          /\ r.type = "READ" /\ r.status = "pending"
      BY <1>1, <1>2, <1>6, <2>1 DEF SlotMove, MoreBlocks
    <3>2. dst[<<x, n>>] = "zero"
      <4>1. n \in 0 .. NBlocks[x] - 1 /\ n >= n
        BY <1>1, <3>1
      <4> QED
        BY <1>1, <4>1 DEF DataInv
    <3>3. DstOf(s)' = "zero"
      BY <1>2, <1>4, <1>5, <3>1, <3>2 DEF DstOf
    <3> QED
      BY <1>2, <2>1, <3>1, <3>3 DEF BlockData
  <2>2. CASE t # s
    <3>1. blk'[t] = blk[t] /\ BlockData(t)
      BY <1>2, <1>4, <1>5, <1>6, <2>2 DEF DataInv
    <3>2. DstOf(t)' = DstOf(t) /\ SourceOf(t)' = SourceOf(t)
      BY <1>4, <1>5, <3>1 DEF DstOf, SourceOf
    <3> QED
      BY <3>1, <3>2 DEF BlockData
  <2> QED
    BY <2>1, <2>2
<1>7. ASSUME NEW k \in FileSlots, Active(k)', job'[k].nErrors = 0, job'[k].file \notin lost',
             NEW m \in settled'[job'[k].file]
      PROVE  dst'[<<job'[k].file, m>>] = Source(job'[k].file, m)
  <2>1. Active(k) /\ job'[k].file = job[k].file /\ job[k].file \in Files
    BY <1>4, <1>7, ActiveFile DEF Active
  <2>2. CASE k = i
    <3>1. job[i].nErrors = 0 /\ x \notin lost /\ (blk[s].inUse => DstOf(s) = SourceOf(s))
      BY <1>1, <1>4, <1>7, <2>1, <2>2
    <3>2. m \in settled[x] \/ (blk[s].inUse /\ blk[s].jobno = m)
      BY <1>1, <1>3, <1>7, <2>1, <2>2
    <3>3. dst[<<x, m>>] = Source(x, m)
      BY <1>1, <2>1, <2>2, <3>1, <3>2 DEF DataInv, DstOf, SourceOf
    <3> QED
      BY <1>1, <1>4, <2>1, <2>2, <3>3
  <2>3. CASE k # i
    <3>1. job[k].file # x
      BY <1>1, <2>1, <2>3 DEF PlaceInv
    <3> QED
      BY <1>3, <1>4, <1>7, <2>1, <2>3, <3>1 DEF DataInv
  <2> QED
    BY <2>2, <2>3
<1>8. ASSUME NEW k \in FileSlots, Active(k)', NEW m \in 0 .. NBlocks[job'[k].file] - 1,
             m >= NextJobno(k)'
      PROVE  dst'[<<job'[k].file, m>>] = "zero"
  <2>1. Active(k) /\ job'[k].file = job[k].file /\ NextJobno(k) \in Nat
    BY <1>4, <1>8, ActiveFile DEF Active
  <2>2. m >= NextJobno(k)
    BY <1>1, <1>4, <1>8, <2>1
  <2> QED
    BY <1>4, <1>8, <2>1, <2>2 DEF DataInv
<1>9. \A y \in crawl' \cup queued' : \A m \in 0 .. NBlocks[y] - 1 : dst'[<<y, m>>] = "zero"
  BY <1>4 DEF DataInv
<1>10. \A q \in finished' : q.nErrors = 0 /\ q.file \notin lost' => Intact(q.file)'
  BY <1>4 DEF DataInv, Intact
<1> QED
  BY <1>6, <1>7, <1>8, <1>9, <1>10 DEF DataInv

\* The errors a step counts for a file.
LEMMA AfterErrors ==
    ASSUME IInv, NEW i \in FileSlots
    PROVE  /\ AfterFailure(i).nErrors = job[i].nErrors
           /\ AfterStart(i).nErrors = job[i].nErrors
           /\ AfterSubmitFailure(i).nErrors = job[i].nErrors + Cardinality(Batched(i))
           /\ \A s \in Slots : s[1] = i =>
                 AfterBlock(s).nErrors = IF HashMismatch(s) THEN job[i].nErrors + 1
                                                            ELSE job[i].nErrors
<1>1. job[i] \in JobType
  BY DEF IInv, TypeOK
<1> QED
  BY <1>1, Zenon DEF AfterFailure, AfterStart, AfterSubmitFailure, AfterBlock, SubmitErrors,
                     JobType

\* Read back, the block has the hash of what was read from the source; otherwise
\* it was trusted, or skipped.
LEMMA BlockDoneData ==
    ASSUME IInv, PlaceInv, NumberInv, DataInv, NEW s \in Slots, BlockDone(s) PROVE DataInv'
<1>1. PICK r \in BlockType : SlotMove(s, r)
  BY BlockDoneMoves
<1>2. blk[s].inUse /\ s[1] \in FileSlots /\ Active(s[1]) /\ job[s[1]] \in JobType
  BY BlockDoneMoves, BlockInUse, ActiveFile
<1>3. job'[s[1]].nErrors = IF HashMismatch(s) THEN job[s[1]].nErrors + 1 ELSE job[s[1]].nErrors
  <2>1. job'[s[1]] = AfterBlock(s)
    BY <1>2 DEF BlockDone, IInv, TypeOK
  <2> QED
    BY <1>2, <2>1, AfterErrors
<1>4. ASSUME job'[s[1]].nErrors = 0, FileAt(s) \notin lost
      PROVE  job[s[1]].nErrors = 0 /\ DstOf(s) = SourceOf(s)
  <2>1. job[s[1]].nErrors \in Nat
    BY <1>2 DEF JobType
  <2>2. ~HashMismatch(s) /\ job[s[1]].nErrors = 0
    BY <1>3, <1>4, <2>1
  <2>3. BlockData(s) /\ blk[s].status = "ok" /\ blk[s].type \in {"READDST", "FINISH"}
    BY <1>2, <1>4 DEF DataInv, BlockDone
  <2> QED
    BY <2>2, <2>3 DEF BlockData, HashMismatch
<1> QED
  BY <1>1, <1>2, <1>4, SlotMoveData

LEMMA BlockFailedData ==
    ASSUME IInv, PlaceInv, NumberInv, DataInv, NEW s \in Slots, BlockFailed(s) PROVE DataInv'
<1>1. PICK r \in BlockType : SlotMove(s, r)
  BY BlockFailedMoves
<1>2. blk[s].inUse /\ Active(s[1]) /\ blk[s].status = "err"
  BY BlockFailedMoves, BlockInUse DEF BlockFailed
<1>3. FileAt(s) \in lost
  BY <1>2 DEF DataInv, BlockData
<1> QED
  BY <1>1, <1>2, <1>3, SlotMoveData

LEMMA StartBlockData ==
    ASSUME IInv, PlaceInv, NumberInv, DataInv, NEW i \in FileSlots, StartBlock(i) PROVE DataInv'
<1>1. PICK s \in Slots, r \in BlockType : s[1] = i /\ ~blk[s].inUse /\ SlotMove(s, r)
  BY StartBlockMoves
<1>2. Active(i) /\ job'[i] = AfterStart(i)
  BY StartBlockMoves DEF StartBlock, IInv, TypeOK
<1>3. job'[i].nErrors = job[i].nErrors
  BY <1>2, AfterErrors
<1> QED
  BY <1>1, <1>2, <1>3, SlotMoveData

\* A file that loses blocks with a rejected batch has an error counted.
LEMMA SubmitFailData ==
    ASSUME IInv, PlaceInv, NumberInv, DataInv, SubmitFail PROVE DataInv'
<1>1. /\ \A s \in Queue : s \in Slots /\ blk[s].inUse
      /\ \A s \in Slots : blk'[s] = IF s \in Queue THEN FreeBlock ELSE blk[s]
      /\ \A i \in FileSlots : /\ job'[i].file = job[i].file /\ NextJobno(i)' = NextJobno(i)
                              /\ Cardinality(Batched(i)) \in Nat
  BY FailedBatch
<1>2. ~FreeBlock.inUse
  BY DEF FreeBlock
<1>3. \A x \in Files : settled'[x] =
         settled[x] \cup {blk[s].jobno : s \in {t \in Queue : FileAt(t) = x}}
  BY DEF SubmitFail
<1>4. UNCHANGED <<crawl, queued, finished, dst, lost>>
  BY DEF SubmitFail, crawlVars
<1>5. \A s \in Slots : FileAt(s)' = FileAt(s) /\ s[1] \in FileSlots
  BY <1>1 DEF FileAt, Slots
<1>6. \A i \in FileSlots : Active(i)' <=> Active(i)
  BY <1>1 DEF Active
<1>7. ASSUME NEW s \in Slots, blk'[s].inUse, FileAt(s)' \notin lost' PROVE BlockData(s)'
  <2>1. blk'[s] = blk[s] /\ BlockData(s)
    BY <1>1, <1>2, <1>4, <1>5, <1>7 DEF DataInv
  <2>2. DstOf(s)' = DstOf(s) /\ SourceOf(s)' = SourceOf(s)
    BY <1>4, <1>5, <2>1 DEF DstOf, SourceOf
  <2> QED
    BY <2>1, <2>2 DEF BlockData
<1>8. ASSUME NEW i \in FileSlots, Active(i)', job'[i].nErrors = 0, job'[i].file \notin lost',
             NEW m \in settled'[job'[i].file]
      PROVE  dst'[<<job'[i].file, m>>] = Source(job'[i].file, m)
  <2> DEFINE x == job[i].file
  <2>1. Active(i) /\ x \in Files /\ job'[i].file = x /\ job[i] \in JobType
    BY <1>1, <1>6, <1>8, ActiveFile
  <2>2. job[i].nErrors = 0 /\ Cardinality(Batched(i)) = 0
    <3>1. job'[i].nErrors = job[i].nErrors + Cardinality(Batched(i))
      BY AfterErrors DEF SubmitFail
    <3>2. job[i].nErrors \in Nat /\ Cardinality(Batched(i)) \in Nat
      BY <1>1, <2>1 DEF JobType
    <3> QED
      BY <1>8, <3>1, <3>2
  <2>3. Batched(i) = {}
    <3>1. IsFiniteSet(Batched(i))
      <4>1. IsFiniteSet(BlockSlots)
        BY JobsAssumption, FS_Interval DEF BlockSlots
      <4> QED
        BY <4>1, FS_Subset DEF Batched
    <3> QED
      BY <2>2, <3>1, FS_EmptySet
  <2>4. \A s \in Queue : FileAt(s) # x
    <3> TAKE s \in Queue
    <3>1. s \in Slots /\ s = <<s[1], s[2]>> /\ s[2] \in BlockSlots /\ s[1] \in FileSlots
      BY <1>1 DEF Slots
    <3>2. s[1] # i
      BY <2>3, <3>1 DEF Batched
    <3> QED
      BY <2>1, <3>1, <3>2 DEF PlaceInv, FileAt
  <2>5. settled'[x] = settled[x]
    <3>1. {blk[s].jobno : s \in {t \in Queue : FileAt(t) = x}} = {}
      BY <2>4
    <3> QED
      BY <1>3, <2>1, <3>1
  <2> QED
    BY <1>4, <1>8, <2>1, <2>2, <2>5 DEF DataInv
<1>9. \A i \in FileSlots : Active(i)' =>
         \A m \in 0 .. NBlocks[job'[i].file] - 1 :
            m >= NextJobno(i)' => dst'[<<job'[i].file, m>>] = "zero"
  BY <1>1, <1>4, <1>6 DEF DataInv
<1>10. \A y \in crawl' \cup queued' : \A m \in 0 .. NBlocks[y] - 1 : dst'[<<y, m>>] = "zero"
  BY <1>4 DEF DataInv
<1>11. \A q \in finished' : q.nErrors = 0 /\ q.file \notin lost' => Intact(q.file)'
  BY <1>4 DEF DataInv, Intact
<1> QED
  BY <1>7, <1>8, <1>9, <1>10, <1>11 DEF DataInv

LEMMA CompleteFileData ==
    ASSUME IInv, NumberInv, DataInv, NEW i \in FileSlots, CompleteFile(i) PROVE DataInv'
<1> DEFINE e == [file |-> job[i].file, nErrors |-> job[i].nErrors]
<1>1. Active(i) /\ AllBlocksFinished(i)
  BY DEF CompleteFile, IsFirst, IInv, FscanInv
<1>2. /\ \A s \in Slots : s[1] = i => ~blk[s].inUse
      /\ settled[job[i].file] = 0 .. NBlocks[job[i].file] - 1
  BY <1>1, FinishedFileSettled
<1>3. \A s \in Slots : blk'[s] = blk[s]
  BY <1>2 DEF CompleteFile
<1>4. /\ UNCHANGED <<settled, crawl, queued, dst, lost>>
      /\ finished' = finished \cup {e} /\ e.file = job[i].file /\ e.nErrors = job[i].nErrors
  BY DEF CompleteFile, crawlVars
<1>5. /\ \A k \in FileSlots : k # i => job'[k] = job[k]
      /\ job'[i].file = NoFile
  BY DEF CompleteFile, ClearedJob, IdleJob, IInv, TypeOK
<1> HIDE DEF e
<1>6. ASSUME NEW s \in Slots, blk'[s].inUse, FileAt(s)' \notin lost' PROVE BlockData(s)'
  <2>1. blk'[s] = blk[s] /\ blk[s].inUse /\ s[1] # i /\ s[1] \in FileSlots
    BY <1>2, <1>3, <1>6 DEF Slots
  <2>2. FileAt(s)' = FileAt(s) /\ FileAt(s) \notin lost
    BY <1>4, <1>5, <1>6, <2>1 DEF FileAt
  <2>3. BlockData(s) /\ DstOf(s)' = DstOf(s) /\ SourceOf(s)' = SourceOf(s)
    BY <1>4, <2>1, <2>2 DEF DataInv, DstOf, SourceOf
  <2> QED
    BY <2>1, <2>3 DEF BlockData
<1>7. \A k \in FileSlots : Active(k)' => /\ k # i /\ Active(k) /\ job'[k] = job[k]
                                         /\ NextJobno(k)' = NextJobno(k)
  BY <1>5 DEF Active, NextJobno
<1>8. \A k \in FileSlots : Active(k)' /\ job'[k].nErrors = 0 /\ job'[k].file \notin lost' =>
         \A m \in settled'[job'[k].file] : dst'[<<job'[k].file, m>>] = Source(job'[k].file, m)
  BY <1>4, <1>7 DEF DataInv
<1>9. \A k \in FileSlots : Active(k)' =>
         \A m \in 0 .. NBlocks[job'[k].file] - 1 :
            m >= NextJobno(k)' => dst'[<<job'[k].file, m>>] = "zero"
  BY <1>4, <1>7 DEF DataInv
<1>10. \A y \in crawl' \cup queued' : \A m \in 0 .. NBlocks[y] - 1 : dst'[<<y, m>>] = "zero"
  BY <1>4 DEF DataInv
<1>11. ASSUME NEW q \in finished', q.nErrors = 0, q.file \notin lost'
       PROVE  Intact(q.file)'
  <2>1. CASE q \in finished
    BY <1>4, <1>11, <2>1 DEF DataInv, Intact
  <2>2. CASE q = e
    BY <1>1, <1>2, <1>4, <1>11, <2>2 DEF DataInv, Intact
  <2> QED
    BY <1>4, <2>1, <2>2
<1> QED
  BY <1>6, <1>8, <1>9, <1>10, <1>11 DEF DataInv

LEMMA TakeJobData ==
    ASSUME IInv, NumberInv, DataInv, NEW i \in FileSlots, NEW x \in Files, TakeJob(i, x)
    PROVE  DataInv'
<1>1. ~Active(i) /\ x \in queued /\ settled[x] = {}
  BY DEF TakeJob, IsFirst, IdleSlots, NumberInv
<1>2. \A s \in Slots : s[1] = i => ~blk[s].inUse
  BY <1>1 DEF IInv, RequestsTracked
<1>3. /\ UNCHANGED <<blk, settled, crawl, finished, dst, lost>>
      /\ queued' \subseteq queued
  BY DEF TakeJob
<1>4. /\ \A k \in FileSlots : k # i => job'[k] = job[k]
      /\ job'[i].file = x
  BY DEF TakeJob, IdleJob, IInv, TypeOK
<1>5. ASSUME NEW s \in Slots, blk'[s].inUse, FileAt(s)' \notin lost' PROVE BlockData(s)'
  <2>1. blk'[s] = blk[s] /\ blk[s].inUse /\ s[1] # i /\ s[1] \in FileSlots
    BY <1>2, <1>3, <1>5 DEF Slots
  <2>2. FileAt(s)' = FileAt(s) /\ FileAt(s) \notin lost
    BY <1>3, <1>4, <1>5, <2>1 DEF FileAt
  <2>3. BlockData(s) /\ DstOf(s)' = DstOf(s) /\ SourceOf(s)' = SourceOf(s)
    BY <1>3, <2>1, <2>2 DEF DataInv, DstOf, SourceOf
  <2> QED
    BY <2>1, <2>3 DEF BlockData
<1>6. \A k \in FileSlots : k # i => /\ Active(k)' = Active(k) /\ job'[k] = job[k]
                                    /\ NextJobno(k)' = NextJobno(k)
  BY <1>4 DEF Active, NextJobno
<1>7. \A k \in FileSlots : Active(k)' /\ job'[k].nErrors = 0 /\ job'[k].file \notin lost' =>
         \A m \in settled'[job'[k].file] : dst'[<<job'[k].file, m>>] = Source(job'[k].file, m)
  BY <1>1, <1>3, <1>4, <1>6 DEF DataInv
<1>8. \A k \in FileSlots : Active(k)' =>
         \A m \in 0 .. NBlocks[job'[k].file] - 1 :
            m >= NextJobno(k)' => dst'[<<job'[k].file, m>>] = "zero"
  BY <1>1, <1>3, <1>4, <1>6 DEF DataInv
<1>9. \A y \in crawl' \cup queued' : \A m \in 0 .. NBlocks[y] - 1 : dst'[<<y, m>>] = "zero"
  BY <1>3 DEF DataInv
<1>10. \A q \in finished' : q.nErrors = 0 /\ q.file \notin lost' => Intact(q.file)'
  BY <1>3 DEF DataInv, Intact
<1> QED
  BY <1>5, <1>7, <1>8, <1>9, <1>10 DEF DataInv

LEMMA DataInit == Init => DataInv
<1> SUFFICES ASSUME Init PROVE DataInv
  OBVIOUS
<1>1. \A s \in Slots : ~blk[s].inUse
  BY DEF Init, FreeBlock
<1>2. \A i \in FileSlots : ~Active(i)
  BY DEF Init, IdleJob, Active
<1>3. \A x \in crawl \cup queued : \A k \in 0 .. NBlocks[x] - 1 : dst[<<x, k>>] = "zero"
  BY DEF Init, BlockIds
<1>4. finished = {}
  BY DEF Init
<1> QED
  BY <1>1, <1>2, <1>3, <1>4 DEF DataInv

LEMMA DataStep ==
    IInv /\ PlaceInv /\ NumberInv /\ TrustedDataInv /\ [Next]_vars => TrustedDataInv'
<1> SUFFICES ASSUME IInv, PlaceInv, NumberInv, Trusted, DataInv, [Next]_vars PROVE DataInv'
  BY DEF TrustedDataInv, Trusted
<1>1. ASSUME NEW s \in Slots, ReadDone(s) \/ WriteDone(s) \/ BlockDone(s) \/ BlockFailed(s)
      PROVE DataInv'
  BY <1>1, ReadDoneData, WriteDoneData, BlockDoneData, BlockFailedData
<1>2. ASSUME NEW s \in Slots, NEW res \in Results, Reap(s, res) PROVE DataInv'
  BY <1>2, ReapData
<1>3. ASSUME NEW i \in FileSlots, CompleteFile(i) \/ StartBlock(i) PROVE DataInv'
  BY <1>3, CompleteFileData, StartBlockData
<1>4. ASSUME NEW i \in FileSlots, NEW x \in Files, TakeJob(i, x) PROVE DataInv'
  BY <1>4, TakeJobData
<1>5. CASE SubmitFail
  BY <1>5, SubmitFailData
<1>6. CASE /\ UNCHANGED <<job, blk, dst, settled, finished, lost>>
           /\ crawl' \cup queued' \subseteq crawl \cup queued
  BY <1>6, DataKept
<1>7. CASE \/ UpdateEnd \/ CompleteEnd \/ FillEnd \/ ExitTest
           \/ SubmitSome \/ SubmitNone \/ ReapEnd
           \/ \E i \in FileSlots : StartNothing(i)
  BY <1>6, <1>7 DEF UpdateEnd, CompleteEnd, FillEnd, ExitTest, SubmitSome, SubmitNone,
                    ReapEnd, StartNothing, crawlVars
<1>8. CASE Crawler \/ Others \/ UNCHANGED vars
  BY <1>6, <1>8 DEF Crawler, Enqueue, CrawlEnd, Others, OthersAlloc, OthersFree, vars,
                    crawlVars
<1> QED
  BY <1>1, <1>2, <1>3, <1>4, <1>5, <1>7, <1>8
     DEF Next, Thread, UpdatePhase, CompletePhase, FillPhase, TickPhase, Complete, Terminated

LEMMA SpecData == Spec => []TrustedDataInv
<1>1. Init => TrustedDataInv
  BY DataInit DEF TrustedDataInv
<1> QED
  BY <1>1, DataStep, SpecInv, SpecPlace, SpecNumber, PTL DEF Spec

\* Whatever the order in which the requests of a file complete, and whatever
\* requests of other files fail: with an error count of zero, and no request of
\* its own lost, every block of the file is on the destination when the file is
\* handed over.
THEOREM CleanMeansCopied == Spec => []CleanFilesIntact
<1>1. TrustedDataInv => CleanFilesIntact
  BY DEF TrustedDataInv, Trusted, DataInv, CleanFilesIntact
<1> QED
  BY <1>1, SpecData, PTL

----------------------------------------------------------------------------
(***************************************************************************)
(* The refinement of FileTransfer.                                         *)
(***************************************************************************)

\* Where the abstract transfer sees each file, and what it sees of its blocks.
ViewInv ==
    \A x \in Files :
        /\ x \in crawl => Place(x) = "crawl"
        /\ x \in queued => Place(x) = "queued"
        /\ \A i \in FileSlots : job[i].file = x => Place(x) = "copying"
        /\ \A r \in finished : r.file = x => Place(x) = "finished"
        /\ settled[x] \subseteq 0 .. NBlocks[x] - 1

LEMMA SpecView == Spec => []ViewInv
<1>1. IInv /\ PlaceInv /\ SomewhereInv /\ NumberInv => ViewInv
  <2> SUFFICES ASSUME IInv, PlaceInv, SomewhereInv, NumberInv, NEW x \in Files
               PROVE  /\ x \in crawl => Place(x) = "crawl"
                      /\ x \in queued => Place(x) = "queued"
                      /\ \A i \in FileSlots : job[i].file = x => Place(x) = "copying"
                      /\ \A r \in finished : r.file = x => Place(x) = "finished"
                      /\ settled[x] \subseteq 0 .. NBlocks[x] - 1
    BY DEF ViewInv
  <2>1. x \in crawl => Place(x) = "crawl"
    BY DEF Place, PlaceInv, Copying
  <2>2. x \in queued => Place(x) = "queued"
    BY DEF Place, PlaceInv, Copying
  <2>3. \A i \in FileSlots : job[i].file = x => Place(x) = "copying"
    BY DEF Place, PlaceInv, Copying
  <2>4. \A r \in finished : r.file = x => Place(x) = "finished"
    BY DEF Place, PlaceInv, Copying
  <2>5. settled[x] \subseteq 0 .. NBlocks[x] - 1
    <3>1. CASE x \in crawl \cup queued
      BY <3>1 DEF NumberInv
    <3>2. ASSUME NEW i \in FileSlots, job[i].file = x
          PROVE  settled[x] \subseteq 0 .. NBlocks[x] - 1
      <4>1. Active(i)
        BY <3>2, FilesAssumption DEF Active
      <4>2. /\ NBlocks[x] \in Nat /\ NextJobno(i) \in Nat /\ NextJobno(i) <= NBlocks[x]
            /\ settled[x] \subseteq Nat
        BY <3>2, <4>1, ActiveFile DEF IInv, TypeOK
      <4>3. \A k \in settled[x] : k \in Nat /\ k < NextJobno(i)
        BY <3>2, <4>1, <4>2 DEF NumberInv
      <4> QED
        BY <4>2, <4>3
    <3>3. CASE \E r \in finished : r.file = x
      BY <3>3 DEF NumberInv
    <3> QED
      BY <3>1, <3>2, <3>3 DEF SomewhereInv
  <2> QED
    BY <2>1, <2>2, <2>3, <2>4, <2>5
<1> QED
  BY <1>1, SpecInv, SpecPlace, SpecSomewhere, SpecNumber, PTL

\* The state the abstract transfer sees.
place == [x \in Files |-> Place(x)]

errors == {r.file : r \in {q \in finished : q.nErrors > 0}}

LEMMA AbstractInit == Init => Abstract!Init
<1> SUFFICES ASSUME Init PROVE Abstract!Init
  OBVIOUS
<1>1. \A x \in Files : Place(x) = "crawl"
  <2> TAKE x \in Files
  <2>1. x \in crawl /\ x \notin queued /\ ~Copying(x)
    BY FilesAssumption DEF Init, IdleJob, Copying
  <2> QED
    BY <2>1 DEF Place
<1>2. {r.file : r \in {q \in finished : q.nErrors > 0}} = {}
  BY DEF Init
<1>3. (pc = "done") = FALSE
  BY DEF Init
<1>4. settled = [x \in Files |-> {}]
  BY DEF Init
<1> QED
  BY <1>1, <1>2, <1>3, <1>4 DEF Abstract!Init

\* A step that the abstract transfer does not see.
LEMMA Unseen ==
    ASSUME place' = place, errors' = errors, settled' = settled,
           pc' = "done" <=> pc = "done"
    PROVE  UNCHANGED Abstract!vars
<1>1. (pc' = "done") = (pc = "done")
  OBVIOUS
<1>2. [x \in Files |-> Place(x)]' = [x \in Files |-> Place(x)]
  BY DEF place
<1>3. {r.file : r \in {q \in finished : q.nErrors > 0}}'
        = {r.file : r \in {q \in finished : q.nErrors > 0}}
  BY DEF errors
<1> QED
  BY <1>1, <1>2, <1>3, Zenon DEF Abstract!vars

\* A step that moves no file.
LEMMA SamePlace ==
    ASSUME UNCHANGED <<crawl, queued, finished>>,
           \A i \in FileSlots : job'[i].file = job[i].file
    PROVE  place' = place /\ errors' = errors
<1>1. \A x \in Files : Place(x)' = Place(x)
  BY DEF Place, Copying
<1> QED
  BY <1>1 DEF place, errors

\* A step that settles blocks, none or several, of files that are being copied.
LEMMA SettleStep ==
    ASSUME ViewInv, ViewInv', TypeOK', place' = place, errors' = errors,
           pc # "done", pc' # "done",
           \A x \in Files : /\ settled[x] \subseteq settled'[x]
                            /\ settled'[x] # settled[x] => Copying(x)
    PROVE  Abstract!Settle
<1>1. (pc = "done") = FALSE /\ (pc' = "done") = (pc = "done")
  OBVIOUS
<1>2. [x \in Files |-> Place(x)]' = [x \in Files |-> Place(x)]
  BY DEF place
<1>3. {r.file : r \in {q \in finished : q.nErrors > 0}}'
        = {r.file : r \in {q \in finished : q.nErrors > 0}}
  BY DEF errors
<1>4. \A x \in Files : settled'[x] \subseteq Abstract!Blocks(x)
  BY DEF ViewInv, Abstract!Blocks
<1>5. settled' \in [Files -> SUBSET UNION {Abstract!Blocks(x) : x \in Files}]
  <2>1. settled' \in [Files -> SUBSET Nat]
    BY DEF TypeOK
  <2>2. \A x \in Files : settled'[x] \in SUBSET UNION {Abstract!Blocks(y) : y \in Files}
    BY <1>4
  <2> QED
    BY <2>1, <2>2
<1>6. \A x \in Files : Copying(x) => [y \in Files |-> Place(y)][x] = "copying"
  BY DEF ViewInv, Copying
<1> QED
  BY <1>1, <1>2, <1>3, <1>4, <1>5, <1>6, Zenon DEF Abstract!Settle

\* A file moves from one place to another.
LEMMA OneMoves ==
    ASSUME ViewInv, ViewInv', SomewhereInv, NEW x \in Files, NEW p,
           Place(x)' = p,
           \A y \in Files \ {x} :
              /\ y \in crawl <=> y \in crawl'
              /\ y \in queued <=> y \in queued'
              /\ (\E i \in FileSlots : job[i].file = y) => \E i \in FileSlots : job'[i].file = y
              /\ (\E r \in finished : r.file = y) => \E r \in finished' : r.file = y
    PROVE  place' = [place EXCEPT ![x] = p]
<1>1. ASSUME NEW y \in Files, y # x PROVE Place(y)' = Place(y)
  <2>1. CASE y \in crawl
    BY <1>1, <2>1 DEF ViewInv
  <2>2. CASE y \in queued
    BY <1>1, <2>2 DEF ViewInv
  <2>3. CASE \E i \in FileSlots : job[i].file = y
    BY <1>1, <2>3 DEF ViewInv
  <2>4. CASE \E r \in finished : r.file = y
    BY <1>1, <2>4 DEF ViewInv
  <2> QED
    BY <2>1, <2>2, <2>3, <2>4 DEF SomewhereInv
<1> QED
  BY <1>1 DEF place

LEMMA FinishStep ==
    ASSUME IInv, PlaceInv, SomewhereInv, NumberInv, ViewInv, ViewInv',
           NEW i \in FileSlots, CompleteFile(i)
    PROVE  \E x \in Files : Abstract!Finish(x)
<1> DEFINE e == [file |-> job[i].file, nErrors |-> job[i].nErrors]
<1>1. Active(i) /\ AllBlocksFinished(i) /\ pc = "complete" /\ pc' = pc
  BY DEF CompleteFile, IsFirst, IInv, FscanInv
<1>2. PICK x \in Files : x = job[i].file /\ settled[x] = 0 .. NBlocks[x] - 1
  BY <1>1, ActiveFile, FinishedFileSettled
<1>3. /\ UNCHANGED <<crawl, queued, settled>>
      /\ finished' = finished \cup {e} /\ e.file = x
  BY <1>2 DEF CompleteFile, crawlVars
<1>4. \A k \in FileSlots : k # i => job'[k] = job[k]
  BY DEF CompleteFile, IInv, TypeOK
<1> HIDE DEF e
<1>5. Place(x) = "copying" /\ Place(x)' = "finished"
  BY <1>2, <1>3 DEF ViewInv
<1>6. place' = [place EXCEPT ![x] = "finished"]
  <2>1. \A y \in Files \ {x} :
           /\ y \in crawl <=> y \in crawl'
           /\ y \in queued <=> y \in queued'
           /\ (\E k \in FileSlots : job[k].file = y) => \E k \in FileSlots : job'[k].file = y
           /\ (\E r \in finished : r.file = y) => \E r \in finished' : r.file = y
    BY <1>2, <1>3, <1>4
  <2> QED
    BY <1>2, <1>5, <2>1, OneMoves
<1>7. errors' \in {errors, errors \cup {x}}
  <2>1. CASE e.nErrors > 0
    BY <1>3, <2>1 DEF errors
  <2>2. CASE ~(e.nErrors > 0)
    BY <1>3, <2>2 DEF errors
  <2> QED
    BY <2>1, <2>2
<1>8. (pc = "done") = FALSE /\ (pc' = "done") = (pc = "done")
  BY <1>1
<1>9. [y \in Files |-> Place(y)][x] = "copying"
  BY <1>2, <1>5
<1>10. settled[x] = Abstract!Blocks(x)
  BY <1>2 DEF Abstract!Blocks
<1>11. Abstract!Finish(x)
  BY <1>3, <1>6, <1>7, <1>8, <1>9, <1>10, Zenon DEF Abstract!Finish, place, errors
<1> QED
  BY <1>11

LEMMA TakeStep ==
    ASSUME IInv, SomewhereInv, ViewInv, ViewInv',
           NEW i \in FileSlots, NEW x \in Files, TakeJob(i, x)
    PROVE  Abstract!Take(x)
<1>1. ~Active(i) /\ x \in queued /\ pc = "fill" /\ pc' = pc
  BY DEF TakeJob, IsFirst, IdleSlots, threadVars
<1>2. UNCHANGED <<crawl, settled, finished>> /\ queued' = queued \ {x}
  BY DEF TakeJob
<1>3. \A k \in FileSlots : job'[k].file = IF k = i THEN x ELSE job[k].file
  BY DEF TakeJob, IdleJob, IInv, TypeOK
<1>4. Place(x) = "queued" /\ Place(x)' = "copying"
  BY <1>1, <1>3 DEF ViewInv
<1>5. place' = [place EXCEPT ![x] = "copying"]
  <2>1. job[i].file \notin Files
    BY <1>1, FilesAssumption DEF Active
  <2>2. \A y \in Files \ {x} :
           /\ y \in crawl <=> y \in crawl'
           /\ y \in queued <=> y \in queued'
           /\ (\E k \in FileSlots : job[k].file = y) => \E k \in FileSlots : job'[k].file = y
           /\ (\E r \in finished : r.file = y) => \E r \in finished' : r.file = y
    BY <1>2, <1>3, <2>1
  <2> QED
    BY <1>4, <2>2, OneMoves
<1>6. errors' = errors
  BY <1>2 DEF errors
<1>7. (pc = "done") = FALSE /\ (pc' = "done") = (pc = "done")
  BY <1>1
<1>8. [y \in Files |-> Place(y)][x] = "queued"
  BY <1>4
<1> QED
  BY <1>2, <1>5, <1>6, <1>7, <1>8, Zenon DEF Abstract!Take, place, errors

LEMMA EnqueueStep ==
    ASSUME SomewhereInv, ViewInv, ViewInv', NEW x \in Files, Enqueue(x)
    PROVE  Abstract!Enqueue(x)
<1>1. /\ x \in crawl /\ queued' = queued \cup {x} /\ crawl' = crawl \ {x}
      /\ UNCHANGED <<pc, job, settled, finished>>
  BY DEF Enqueue, threadVars
<1>2. Place(x) = "crawl" /\ Place(x)' = "queued"
  BY <1>1 DEF ViewInv
<1>3. place' = [place EXCEPT ![x] = "queued"]
  <2>1. \A y \in Files \ {x} :
           /\ y \in crawl <=> y \in crawl'
           /\ y \in queued <=> y \in queued'
           /\ (\E k \in FileSlots : job[k].file = y) => \E k \in FileSlots : job'[k].file = y
           /\ (\E r \in finished : r.file = y) => \E r \in finished' : r.file = y
    BY <1>1
  <2> QED
    BY <1>2, <2>1, OneMoves
<1>4. errors' = errors
  BY <1>1 DEF errors
<1>5. (pc' = "done") = (pc = "done")
  BY <1>1
<1>6. [y \in Files |-> Place(y)][x] = "crawl"
  BY <1>2
<1> QED
  BY <1>1, <1>3, <1>4, <1>5, <1>6, Zenon DEF Abstract!Enqueue, place, errors

\* The thread stops with its slots idle and the crawl over.
LEMMA StopStep ==
    ASSUME SomewhereInv, ViewInv, ExitTest, MayExit, place' = place, errors' = errors
    PROVE  Abstract!Stop
<1>1. /\ crawl = {} /\ settled' = settled
      /\ \A i \in FileSlots : job[i].file = NoFile
  BY DEF ExitTest, MayExit, SomewhereInv, IdleSlots, Active
<1>2. (pc = "done") = FALSE /\ (pc' = "done") = TRUE
  BY DEF ExitTest
<1>3. \A x \in Files : [y \in Files |-> Place(y)][x] \notin {"crawl", "copying"}
  <2> TAKE x \in Files
  <2>1. \A i \in FileSlots : job[i].file # x
    BY <1>1, FilesAssumption
  <2>2. Place(x) \in {"queued", "finished"}
    BY <1>1, <2>1 DEF SomewhereInv, ViewInv
  <2> QED
    BY <2>2
<1> QED
  BY <1>1, <1>2, <1>3, Zenon DEF Abstract!Stop, place, errors

\* The steps that settle blocks settle those of the files in the slots.
LEMMA SettledGrows ==
    ASSUME IInv, SubmitFail \/ \E s \in Slots : BlockDone(s) \/ BlockFailed(s), NEW x \in Files
    PROVE  settled[x] \subseteq settled'[x] /\ (settled'[x] # settled[x] => Copying(x))
<1>1. ASSUME NEW s \in Slots, BlockDone(s) \/ BlockFailed(s)
      PROVE  settled[x] \subseteq settled'[x] /\ (settled'[x] # settled[x] => Copying(x))
  <2>1. settled' = [settled EXCEPT ![FileAt(s)] = @ \cup {blk[s].jobno}]
    BY <1>1, BlockDoneMoves, BlockFailedMoves DEF SlotMove
  <2>2. Copying(FileAt(s))
    BY DEF Copying, FileAt, Slots
  <2>3. settled'[x] = IF x = FileAt(s) THEN settled[x] \cup {blk[s].jobno} ELSE settled[x]
    BY <2>1 DEF IInv, TypeOK
  <2> QED
    BY <2>2, <2>3
<1>2. CASE SubmitFail
  <2> DEFINE S == {t \in Queue : FileAt(t) = x}
  <2>1. settled'[x] = settled[x] \cup {blk[s].jobno : s \in S}
    BY <1>2 DEF SubmitFail
  <2>2. S # {} => Copying(x)
    BY <1>2, FailedBatch DEF Copying, FileAt, Slots
  <2>3. S = {} => settled'[x] = settled[x]
    BY <2>1
  <2> QED
    BY <2>1, <2>2, <2>3
<1> QED
  BY <1>1, <1>2

LEMMA AbstractStep ==
    ASSUME IInv, PlaceInv, SomewhereInv, NumberInv, ViewInv, TypeOK', ViewInv', [Next]_vars
    PROVE  [Abstract!Next]_(Abstract!vars)
<1>1. ASSUME NEW i \in FileSlots, CompleteFile(i) PROVE Abstract!Next
  BY <1>1, FinishStep DEF Abstract!Next
<1>2. ASSUME NEW i \in FileSlots, NEW x \in Files, TakeJob(i, x) PROVE Abstract!Next
  BY <1>2, TakeStep DEF Abstract!Next
<1>3. ASSUME NEW x \in Files, Enqueue(x) PROVE Abstract!Next
  BY <1>3, EnqueueStep DEF Abstract!Next
<1>4. CASE CrawlEnd
  <2>1. UNCHANGED <<pc, job, crawl, queued, finished, settled>>
    BY <1>4 DEF CrawlEnd, threadVars
  <2> QED
    BY <2>1, SamePlace, Unseen
<1>5. CASE /\ UNCHANGED <<crawl, queued, crawlDone, finished>>
           /\ \A i \in FileSlots : job'[i].file = job[i].file
  <2>0. place' = place /\ errors' = errors
    BY <1>5, SamePlace
  <2>1. CASE SubmitFail \/ \E s \in Slots : BlockDone(s) \/ BlockFailed(s)
    <3>1. pc # "done" /\ pc' # "done"
      BY <2>1 DEF SubmitFail, BlockDone, BlockFailed, CanAdvance
    <3>2. Abstract!Settle
      BY <2>0, <2>1, <3>1, SettledGrows, SettleStep
    <3> QED
      BY <3>2 DEF Abstract!Next
  <2>2. CASE ExitTest /\ MayExit
    BY <2>0, <2>2, StopStep DEF Abstract!Next
  <2>3. CASE settled' = settled /\ (pc' = "done" <=> pc = "done")
    BY <2>0, <2>3, Unseen
  <2>4. CASE \/ \E s \in Slots : ReadDone(s) \/ WriteDone(s)
             \/ UpdateEnd \/ CompleteEnd \/ FillEnd \/ (ExitTest /\ ~MayExit)
             \/ SubmitSome \/ SubmitNone \/ ReapEnd
             \/ \E i \in FileSlots : StartBlock(i) \/ StartNothing(i)
    <3>1. settled' = settled /\ pc # "done" /\ pc' # "done"
      BY <2>4 DEF ReadDone, WriteDone, CanAdvance, UpdateEnd, CompleteEnd, FillEnd, ExitTest,
                  SubmitSome, SubmitNone, ReapEnd, StartBlock, StartNothing
    <3> QED
      BY <3>1, <2>3
  <2>5. CASE Complete \/ Others \/ UNCHANGED vars
    BY <2>3, <2>5 DEF Complete, Reap, Others, OthersAlloc, OthersFree, vars, threadVars
  <2> QED
    BY <1>1, <1>2, <1>3, <1>4, <2>1, <2>2, <2>4, <2>5
       DEF Next, Thread, UpdatePhase, CompletePhase, FillPhase, TickPhase, Crawler, Terminated
<1> QED
  BY <1>1, <1>2, <1>3, <1>4, <1>5, FilesStay

\* The thread with its slots, buffers, requests and batches does to the files
\* what FileTransfer promises: each is taken once, its blocks are settled while
\* it is in a slot, it is handed over when they all are, and the thread stops
\* with none in its hands.
THEOREM ThreadImplementsTransfer == Spec => ImplementsFileTransfer
<1>1. IInv => TypeOK
  BY DEF IInv
<1> QED
  BY <1>1, AbstractInit, AbstractStep, SpecInv, SpecPlace, SpecSomewhere, SpecNumber, SpecView,
     PTL DEF Spec, ImplementsFileTransfer, Abstract!Spec
----------------------------------------------------------------------------
(***************************************************************************)
(* Every request is made once.  What is fair to expect of the kernel and   *)
(* the thread is not a matter of proof here; that they cannot be kept busy *)
(* for ever by the same files is.                                          *)
(***************************************************************************)

\* How far the block in slot s has come: it is read, written and, if asked for,
\* read back; each request is in the batch, in the kernel, or answered.
SlotRank(s) ==
    (CASE blk[s].type = "READ" -> 0 [] blk[s].type = "WRITE" -> 3 [] OTHER -> 6)
    + (IF blk[s].status # "pending" THEN 3 ELSE IF s \in kernel THEN 2 ELSE 1)

\* Block k of file x has come to stage n; at stage 10 it is settled.
Reached(x, k, n) ==
    \/ k \in settled[x]
    \/ \E s \in Slots : blk[s].inUse /\ FileAt(s) = x /\ blk[s].jobno = k /\ n <= SlotRank(s)

\* File x has left the crawler, left the jobQueue, been handed over.
Passed(x, n) ==
    \/ n = 1 /\ x \notin crawl
    \/ n = 2 /\ x \notin crawl \cup queued
    \/ n = 3 /\ HandedOver(x)

\* The stages of all blocks and files, and those that are still to come.
BlockStages == BlockIds \X (1 .. 10)
FileStages == Files \X (1 .. 3)

BlocksToDo == {w \in BlockStages : ~Reached(w[1][1], w[1][2], w[2])}
FilesToDo == {w \in FileStages : ~Passed(w[1], w[2])}

\* One stage more is behind.
Progress ==
    /\ BlocksToDo' \subseteq BlocksToDo /\ FilesToDo' \subseteq FilesToDo
    /\ BlocksToDo' # BlocksToDo \/ FilesToDo' # FilesToDo

\* All that the thread keeps of its files and blocks.
work == <<job, blk, batch, kernel, crawl, queued, dst, finished, settled, lost>>

LEMMA SlotRankType ==
    ASSUME NEW s \in Slots, blk[s] \in BlockType
    PROVE  SlotRank(s) \in 1 .. 9
  BY DEF SlotRank, BlockType

\* There are finitely many stages.
LEMMA StagesFinite == IsFiniteSet(BlockStages) /\ IsFiniteSet(FileStages)
<1>1. IsFiniteSet(1 .. 10) /\ IsFiniteSet(1 .. 3)
  <2>1. 1 \in Int /\ 10 \in Int /\ 3 \in Int
    OBVIOUS
  <2> QED
    BY <2>1, FS_Interval, Zenon
<1>2. IsFiniteSet(FileStages)
  BY <1>1, FilesAssumption, FS_Product DEF FileStages
<1> DEFINE B(x) == {x} \X (0 .. NBlocks[x] - 1)
           S == {B(x) : x \in Files}
<1>3. \A T \in S : IsFiniteSet(T)
  <2> SUFFICES ASSUME NEW x \in Files PROVE IsFiniteSet(B(x))
    OBVIOUS
  <2>1. 0 \in Int /\ NBlocks[x] - 1 \in Int
    BY BlocksAssumption
  <2>2. IsFiniteSet(0 .. NBlocks[x] - 1)
    BY <2>1, FS_Interval, Zenon
  <2>3. IsFiniteSet({x})
    BY FS_Singleton
  <2> QED
    BY <2>2, <2>3, FS_Product
<1>4. IsFiniteSet(S)
  <2> DEFINE f == [x \in Files |-> B(x)]
  <2>1. f \in Surjection(Files, S)
    BY DEF Surjection
  <2> QED
    BY <2>1, FilesAssumption, FS_Surjection
<1>5. IsFiniteSet(BlockIds)
  BY <1>3, <1>4, FS_UNION DEF BlockIds
<1> QED
  BY <1>1, <1>2, <1>5, FS_Product DEF BlockStages

\* No stage is lost if each block in use is settled or stays in its slot with
\* its rank.
LEMMA StagesKept ==
    ASSUME \A x \in Files : settled[x] \subseteq settled'[x],
           \A t \in Slots : blk[t].inUse =>
              \/ blk[t].jobno \in settled'[FileAt(t)]
              \/ /\ blk'[t].inUse /\ blk'[t].jobno = blk[t].jobno
                 /\ FileAt(t)' = FileAt(t)
                 /\ SlotRank(t) \in Int /\ SlotRank(t)' \in Int
                 /\ SlotRank(t) <= SlotRank(t)'
    PROVE  BlocksToDo' \subseteq BlocksToDo
<1> SUFFICES ASSUME NEW x \in Files, NEW k, NEW n \in 1 .. 10, Reached(x, k, n)
             PROVE  Reached(x, k, n)'
  BY DEF BlocksToDo, BlockStages, BlockIds
<1>1. CASE k \in settled[x]
  BY <1>1 DEF Reached
<1>2. ASSUME NEW t \in Slots,
             blk[t].inUse, FileAt(t) = x, blk[t].jobno = k, n <= SlotRank(t)
      PROVE  Reached(x, k, n)'
  <2>1. CASE blk[t].jobno \in settled'[FileAt(t)]
    BY <1>2, <2>1 DEF Reached
  <2>2. CASE /\ blk'[t].inUse /\ blk'[t].jobno = blk[t].jobno
             /\ FileAt(t)' = FileAt(t)
             /\ SlotRank(t) \in Int /\ SlotRank(t)' \in Int
             /\ SlotRank(t) <= SlotRank(t)'
    <3>1. n <= SlotRank(t)'
      BY <1>2, <2>2
    <3> QED
      BY <1>2, <2>2, <3>1 DEF Reached
  <2> QED
    BY <1>2, <2>1, <2>2
<1> QED
  BY <1>1, <1>2 DEF Reached

\* A step that leaves the files in their places.
LEMMA FilesKept ==
    ASSUME UNCHANGED <<crawl, queued, finished>>
    PROVE  FilesToDo' = FilesToDo
  BY DEF FilesToDo, Passed, HandedOver

LEMMA OneMoreStage ==
    ASSUME BlocksToDo' \subseteq BlocksToDo, UNCHANGED <<crawl, queued, finished>>,
           NEW x, NEW k, NEW n \in 1 .. 10, <<x, k>> \in BlockIds,
           ~Reached(x, k, n), Reached(x, k, n)'
    PROVE  Progress
<1>1. <<<<x, k>>, n>> \in BlocksToDo /\ <<<<x, k>>, n>> \notin BlocksToDo'
  BY DEF BlocksToDo, BlockStages
<1> QED
  BY <1>1, FilesKept DEF Progress

\* No other slot works on the same block.
LEMMA OneSlotPerBlock ==
    ASSUME IInv, PlaceInv, NumberInv, NEW s \in Slots, NEW t \in Slots,
           blk[s].inUse, blk[t].inUse, FileAt(s) = FileAt(t), blk[s].jobno = blk[t].jobno
    PROVE  s = t
<1>1. Active(s[1])
  BY BlockInUse
<1> QED
  BY <1>1, OtherFile DEF NumberInv

\* A block in use that rises is progress.
LEMMA RisingBlock ==
    ASSUME IInv, TypeOK', PlaceInv, NumberInv, NEW s \in Slots, blk[s].inUse,
           UNCHANGED <<crawl, queued, finished, settled, job>>,
           \A t \in Slots : blk[t].inUse => /\ blk'[t].inUse /\ blk'[t].jobno = blk[t].jobno
                                            /\ SlotRank(t) <= SlotRank(t)',
           SlotRank(s) < SlotRank(s)'
    PROVE  Progress
<1>0. PICK x, k : x = FileAt(s) /\ k = blk[s].jobno
  OBVIOUS
<1>1. \A t \in Slots : SlotRank(t) \in 1 .. 9
  BY SlotRankType DEF IInv, TypeOK
<1>2. \A t \in Slots : SlotRank(t)' \in 1 .. 9
  <2> SUFFICES ASSUME NEW t \in Slots PROVE SlotRank(t)' \in 1 .. 9
    OBVIOUS
  <2>1. blk'[t] \in BlockType
    BY DEF TypeOK
  <2> QED
    BY <2>1 DEF SlotRank, BlockType
<1>3. \A t \in Slots : FileAt(t)' = FileAt(t)
  BY DEF FileAt
<1>4. BlocksToDo' \subseteq BlocksToDo
  BY <1>1, <1>2, <1>3, StagesKept
<1>5. <<x, k>> \in BlockIds /\ k \notin settled[x]
  BY <1>0, BlockInUse DEF NumberInv
<1>6. PICK n \in 1 .. 10 : n = SlotRank(s)'
  BY <1>2
<1>7. Reached(x, k, n)'
  <2>1. blk'[s].inUse /\ blk'[s].jobno = k /\ FileAt(s)' = x /\ n <= SlotRank(s)'
    BY <1>0, <1>2, <1>3, <1>6
  <2> QED
    BY <2>1 DEF Reached
<1>8. ~Reached(x, k, n)
  <2> SUFFICES ASSUME NEW t \in Slots, blk[t].inUse, FileAt(t) = x, blk[t].jobno = k,
                      n <= SlotRank(t)
               PROVE  FALSE
    BY <1>5 DEF Reached
  <2>1. t = s
    BY <1>0, OneSlotPerBlock
  <2> QED
    BY <2>1, <1>1, <1>2, <1>6
<1> QED
  BY <1>4, <1>5, <1>6, <1>7, <1>8, OneMoreStage

\* A block in use that is settled is progress, if the others are settled too or
\* left alone.
LEMMA SettledBlock ==
    ASSUME IInv, NumberInv, NEW s \in Slots, blk[s].inUse,
           UNCHANGED <<crawl, queued, finished, kernel>>,
           \A i \in FileSlots : job'[i].file = job[i].file,
           \A x \in Files : settled[x] \subseteq settled'[x],
           blk[s].jobno \in settled'[FileAt(s)],
           \A t \in Slots : blk[t].inUse => \/ blk[t].jobno \in settled'[FileAt(t)]
                                            \/ blk'[t] = blk[t]
    PROVE  Progress
<1>0. PICK x, k : x = FileAt(s) /\ k = blk[s].jobno
  OBVIOUS
<1>1. \A t \in Slots : SlotRank(t) \in 1 .. 9
  BY SlotRankType DEF IInv, TypeOK
<1>2. \A t \in Slots : FileAt(t)' = FileAt(t)
  BY DEF FileAt, Slots
<1>3. \A t \in Slots : blk'[t] = blk[t] => SlotRank(t)' = SlotRank(t)
  BY DEF SlotRank
<1>4. BlocksToDo' \subseteq BlocksToDo
  <2>1. ASSUME NEW t \in Slots, blk[t].inUse, blk'[t] = blk[t]
        PROVE  /\ blk'[t].inUse /\ blk'[t].jobno = blk[t].jobno
               /\ FileAt(t)' = FileAt(t)
               /\ SlotRank(t) \in Int /\ SlotRank(t)' \in Int
               /\ SlotRank(t) <= SlotRank(t)'
    BY <1>1, <1>2, <1>3, <2>1
  <2>2. \A t \in Slots : blk[t].inUse =>
           \/ blk[t].jobno \in settled'[FileAt(t)]
           \/ /\ blk'[t].inUse /\ blk'[t].jobno = blk[t].jobno
              /\ FileAt(t)' = FileAt(t)
              /\ SlotRank(t) \in Int /\ SlotRank(t)' \in Int
              /\ SlotRank(t) <= SlotRank(t)'
    BY <2>1
  <2> QED
    BY <2>2, StagesKept
<1>5. <<x, k>> \in BlockIds /\ k \notin settled[x]
  BY <1>0, BlockInUse DEF NumberInv
<1>6. ~Reached(x, k, 10)
  BY <1>1, <1>5 DEF Reached
<1>7. Reached(x, k, 10)'
  BY <1>0 DEF Reached
<1> QED
  BY <1>4, <1>5, <1>6, <1>7, OneMoreStage
\* The same for a step that touches one slot.
LEMMA OneBlockRises ==
    ASSUME IInv, TypeOK', PlaceInv, NumberInv, NEW s \in Slots,
           blk[s].inUse, blk'[s].inUse, blk'[s].jobno = blk[s].jobno,
           UNCHANGED <<crawl, queued, finished, settled, job>>,
           \A t \in Slots : t # s => blk'[t] = blk[t], kernel' \cup {s} = kernel \cup {s},
           SlotRank(s) < SlotRank(s)'
    PROVE  Progress
<1>1. ASSUME NEW t \in Slots, blk[t].inUse
      PROVE  /\ blk'[t].inUse /\ blk'[t].jobno = blk[t].jobno
             /\ SlotRank(t) <= SlotRank(t)'
  <2>1. CASE t = s
    <3>1. SlotRank(s) \in 1 .. 9
      BY SlotRankType DEF IInv, TypeOK
    <3>2. SlotRank(s)' \in 1 .. 9
      <4>1. blk'[s] \in BlockType
        BY DEF TypeOK
      <4> QED
        BY <4>1 DEF SlotRank, BlockType
    <3> QED
      BY <2>1, <3>1, <3>2
  <2>2. CASE t # s
    <3>1. blk'[t] = blk[t] /\ (t \in kernel' <=> t \in kernel)
      BY <2>2
    <3>2. SlotRank(t)' = SlotRank(t)
      BY <3>1 DEF SlotRank
    <3>3. SlotRank(t) \in 1 .. 9
      BY SlotRankType DEF IInv, TypeOK
    <3> QED
      BY <1>1, <3>1, <3>2, <3>3
  <2> QED
    BY <2>1, <2>2
<1> QED
  BY <1>1, RisingBlock

\* A request that is prepared or answered.
LEMMA RequestProgress ==
    ASSUME IInv, TypeOK', PlaceInv, NumberInv, NEW s \in Slots,
           \/ ReadDone(s) \/ WriteDone(s) \/ \E res \in Results : Reap(s, res)
    PROVE  Progress
<1>1. CASE ReadDone(s)
  <2>1. /\ blk[s].inUse /\ blk[s].type = "READ" /\ blk[s].status = "ok"
        /\ \A t \in Slots : t # s => blk'[t] = blk[t]
        /\ blk'[s].inUse /\ blk'[s].jobno = blk[s].jobno
        /\ \/ blk'[s].type = "FINISH" /\ blk'[s].status = "ok"
           \/ blk'[s].type = "WRITE" /\ blk'[s].status = "pending"
        /\ UNCHANGED <<job, crawl, queued, finished, settled>>
    BY <1>1, ReadDoneBlock
  <2>2. kernel' = kernel
    BY <1>1 DEF ReadDone
  <2>3. SlotRank(s) < SlotRank(s)'
    BY <2>1, <2>2 DEF SlotRank
  <2> QED
    BY <2>1, <2>2, <2>3, OneBlockRises
<1>2. CASE WriteDone(s)
  <2>1. /\ blk[s].inUse /\ blk[s].type = "WRITE" /\ blk[s].status = "ok"
        /\ \A t \in Slots : t # s => blk'[t] = blk[t]
        /\ blk'[s].inUse /\ blk'[s].jobno = blk[s].jobno
        /\ \/ blk'[s].type = "READDST" /\ blk'[s].status = "pending"
           \/ blk'[s].type = "FINISH" /\ blk'[s].status = "ok"
        /\ UNCHANGED <<job, crawl, queued, finished, settled>>
    BY <1>2, WriteDoneBlock
  <2>2. kernel' = kernel
    BY <1>2 DEF WriteDone
  <2>3. SlotRank(s) < SlotRank(s)'
    BY <2>1, <2>2 DEF SlotRank
  <2> QED
    BY <2>1, <2>2, <2>3, OneBlockRises
<1>3. ASSUME NEW res \in Results, Reap(s, res) PROVE Progress
  <2>1. /\ blk[s] \in BlockType /\ blk[s].inUse /\ blk[s].status = "pending"
        /\ \A t \in Slots : t # s => blk'[t] = blk[t]
        /\ blk'[s].inUse /\ blk'[s].jobno = blk[s].jobno /\ blk'[s].type = blk[s].type
        /\ blk'[s].status # "pending"
        /\ UNCHANGED <<job, crawl, queued, finished, settled>>
    BY <1>3, ReapBlock
  <2>2. s \in kernel /\ kernel' = kernel \ {s}
    BY <1>3 DEF Reap
  <2>3. SlotRank(s) < SlotRank(s)'
    BY <2>1, <2>2 DEF SlotRank, BlockType
  <2> QED
    BY <2>1, <2>2, <2>3, OneBlockRises
<1> QED
  BY <1>1, <1>2, <1>3

\* io_submit accepts at least one request, which was not in the kernel before.
LEMMA SubmitSomeProgress ==
    ASSUME IInv, TypeOK', PlaceInv, NumberInv, SubmitSome
    PROVE  Progress
<1>1. PICK n \in 1 .. Len(batch) : kernel' = kernel \cup {batch[m] : m \in 1 .. n}
  BY DEF SubmitSome
<1>2. UNCHANGED <<job, blk, crawl, queued, finished, settled>>
  BY DEF SubmitSome, crawlVars
<1>3. batch \in Seq(Slots)
  BY DEF IInv, TypeOK
<1>4. 1 \in 1 .. n /\ 1 \in 1 .. Len(batch)
  BY <1>1, <1>3
<1>5. PICK s \in Slots : s = batch[1]
  BY <1>3, <1>4
<1>6. s \in Queue /\ s \in kernel'
  BY <1>1, <1>4, <1>5 DEF Queue
<1>7. blk[s].inUse /\ blk[s].status = "pending" /\ s \notin kernel
  BY <1>6 DEF IInv, RequestsTracked, InFlight
<1>8. \A t \in Slots : SlotRank(t) \in 1 .. 9
  BY SlotRankType DEF IInv, TypeOK
<1>9. SlotRank(s) < SlotRank(s)'
  <2>1. blk[s] \in BlockType
    BY DEF IInv, TypeOK
  <2> QED
    BY <1>2, <1>6, <1>7, <2>1 DEF SlotRank, BlockType
<1>10. ASSUME NEW t \in Slots PROVE SlotRank(t) <= SlotRank(t)'
  <2>1. blk[t] \in BlockType /\ blk'[t] = blk[t] /\ (t \in kernel => t \in kernel')
    BY <1>1, <1>2 DEF IInv, TypeOK
  <2> QED
    BY <2>1 DEF SlotRank, BlockType
<1> QED
  BY <1>2, <1>7, <1>9, <1>10, RisingBlock

\* A block is settled, or the next one of a file starts.
LEMMA MoveProgress ==
    ASSUME IInv, PlaceInv, NumberInv, NEW s \in Slots, NEW r \in BlockType, Active(s[1]),
           SlotMove(s, r), r.inUse \/ blk[s].inUse, kernel' = kernel
    PROVE  Progress
<1>1. \A t \in Slots : blk'[t] = IF t = s THEN r ELSE blk[t]
  BY DEF SlotMove, IInv, TypeOK
<1>2. \A i \in FileSlots : job'[i].file = job[i].file
  BY DEF SlotMove
<1>3. UNCHANGED <<crawl, queued, finished>>
  BY DEF SlotMove
<1>4. FileAt(s) \in Files /\ s[1] \in FileSlots /\ NextJobno(s[1]) \in Nat
  BY ActiveFile DEF Slots, FileAt
<1>5. /\ \A x \in Files : settled[x] \subseteq settled'[x]
      /\ blk[s].inUse => blk[s].jobno \in settled'[FileAt(s)]
  BY <1>4, Zenon DEF SlotMove, IInv, TypeOK
<1>6. CASE blk[s].inUse
  <2>1. \A t \in Slots : blk[t].inUse => \/ blk[t].jobno \in settled'[FileAt(t)]
                                         \/ blk'[t] = blk[t]
    BY <1>1, <1>5, <1>6
  <2> QED
    BY <1>2, <1>3, <1>5, <1>6, <2>1, SettledBlock
<1>7. CASE ~blk[s].inUse /\ r.inUse
  <2>1. PICK x, k : x = FileAt(s) /\ k = NextJobno(s[1])
    OBVIOUS
  <2>2. /\ blk'[s].inUse /\ blk'[s].jobno = k /\ FileAt(s)' = x
        /\ k < NBlocks[x]
    BY <1>1, <1>2, <1>4, <1>7, <2>1 DEF SlotMove, MoreBlocks, FileAt
  <2>3. <<x, k>> \in BlockIds
    <3>1. NBlocks[x] \in Nat /\ k \in Nat /\ x \in Files
      BY <1>4, <2>1, BlocksAssumption
    <3>2. k \in 0 .. NBlocks[x] - 1
      BY <2>2, <3>1
    <3> QED
      BY <3>1, <3>2 DEF BlockIds
  <2>4. k \notin settled[x] /\ ~Running(s[1], k)
    <3>1. ~(k < NextJobno(s[1])) /\ k \in Nat
      BY <1>4, <2>1
    <3>2. x = job[s[1]].file
      BY <2>1 DEF FileAt
    <3> QED
      BY <1>4, <3>1, <3>2 DEF NumberInv
  <2>5. ~Reached(x, k, 1)
    <3> SUFFICES ASSUME \E t \in Slots : blk[t].inUse /\ FileAt(t) = x /\ blk[t].jobno = k
                 PROVE  FALSE
      BY <2>4 DEF Reached
    <3>0. PICK t \in Slots : blk[t].inUse /\ FileAt(t) = x /\ blk[t].jobno = k
      OBVIOUS
    <3>1. t[1] # s[1]
      BY <2>4, <3>0 DEF Running
    <3> QED
      BY <2>1, <3>0, <3>1, OtherFile
  <2>6. Reached(x, k, 1)'
    <3>1. SlotRank(s)' \in 1 .. 9
      BY <1>1 DEF SlotRank, BlockType
    <3>2. 1 <= SlotRank(s)'
      BY <3>1
    <3> QED
      BY <2>2, <3>2 DEF Reached
  <2>7. BlocksToDo' \subseteq BlocksToDo
    <3>1. ASSUME NEW t \in Slots, blk[t].inUse
          PROVE  /\ blk'[t].inUse /\ blk'[t].jobno = blk[t].jobno
                 /\ FileAt(t)' = FileAt(t)
                 /\ SlotRank(t) \in Int /\ SlotRank(t)' \in Int
                 /\ SlotRank(t) <= SlotRank(t)'
      <4>1. blk'[t] = blk[t] /\ FileAt(t)' = FileAt(t)
        BY <1>1, <1>2, <1>7, <3>1 DEF FileAt, Slots
      <4>2. SlotRank(t)' = SlotRank(t)
        BY <4>1 DEF SlotRank
      <4>3. SlotRank(t) \in 1 .. 9
        BY SlotRankType DEF IInv, TypeOK
      <4> QED
        BY <3>1, <4>1, <4>2, <4>3
    <3> QED
      BY <1>5, <3>1, StagesKept
  <2> QED
    BY <1>3, <2>3, <2>5, <2>6, <2>7, OneMoreStage
<1> QED
  BY <1>6, <1>7
\* A rejected batch is not empty, and settles the blocks it held.
LEMMA SubmitFailProgress ==
    ASSUME IInv, NumberInv, SubmitFail
    PROVE  Progress
<1>1. /\ \A t \in Queue : t \in Slots /\ blk[t].inUse
      /\ \A t \in Slots : blk'[t] = IF t \in Queue THEN FreeBlock ELSE blk[t]
      /\ \A i \in FileSlots : job'[i].file = job[i].file
  BY FailedBatch
<1>2. PICK s : s \in Queue
  <2>1. batch \in Seq(Slots) /\ batch # << >>
    BY DEF SubmitFail, IInv, TypeOK
  <2>2. 1 \in 1 .. Len(batch)
    BY <2>1
  <2> QED
    BY <2>2 DEF Queue
<1>3. \A x \in Files : settled'[x] =
         settled[x] \cup {blk[t].jobno : t \in {u \in Queue : FileAt(u) = x}}
  BY DEF SubmitFail
<1>4. ASSUME NEW t \in Queue
      PROVE  FileAt(t) \in Files /\ blk[t].jobno \in settled'[FileAt(t)]
  <2>1. t \in Slots /\ blk[t].inUse
    BY <1>1
  <2>2. FileAt(t) \in Files
    BY <2>1, BlockInUse
  <2> QED
    BY <1>3, <2>2
<1>5. UNCHANGED <<crawl, queued, finished, kernel>>
  BY DEF SubmitFail, crawlVars
<1>6. \A t \in Slots : blk[t].inUse => \/ blk[t].jobno \in settled'[FileAt(t)]
                                       \/ blk'[t] = blk[t]
  BY <1>1, <1>4
<1> QED
  BY <1>1, <1>2, <1>3, <1>4, <1>5, <1>6, SettledBlock

\* A file that moves on has no block in use.
LEMMA FileProgress ==
    ASSUME IInv,
           \A t \in Slots : blk[t].inUse => blk'[t] = blk[t] /\ FileAt(t)' = FileAt(t),
           UNCHANGED <<settled, kernel>>,
           crawl' \subseteq crawl, crawl' \cup queued' \subseteq crawl \cup queued,
           finished \subseteq finished',
           NEW x \in Files, NEW n \in 1 .. 3, ~Passed(x, n), Passed(x, n)'
    PROVE  Progress
<1>1. BlocksToDo' \subseteq BlocksToDo
  <2>1. ASSUME NEW t \in Slots, blk[t].inUse
        PROVE  /\ blk'[t].inUse /\ blk'[t].jobno = blk[t].jobno
               /\ FileAt(t)' = FileAt(t)
               /\ SlotRank(t) \in Int /\ SlotRank(t)' \in Int
               /\ SlotRank(t) <= SlotRank(t)'
    <3>1. blk'[t] = blk[t] /\ SlotRank(t)' = SlotRank(t)
      BY <2>1 DEF SlotRank
    <3>2. SlotRank(t) \in 1 .. 9
      BY SlotRankType DEF IInv, TypeOK
    <3> QED
      BY <2>1, <3>1, <3>2
  <2> QED
    BY <2>1, StagesKept
<1>2. \A y \in Files, m \in 1 .. 3 : Passed(y, m) => Passed(y, m)'
  BY DEF Passed, HandedOver
<1>3. FilesToDo' \subseteq FilesToDo
  BY <1>2 DEF FilesToDo, FileStages
<1>4. <<x, n>> \in FilesToDo /\ <<x, n>> \notin FilesToDo'
  BY DEF FilesToDo, FileStages
<1> QED
  BY <1>1, <1>3, <1>4 DEF Progress

LEMMA PlaceProgress ==
    ASSUME IInv, PlaceInv, NumberInv,
           \/ \E i \in FileSlots : CompleteFile(i)
           \/ \E i \in FileSlots, x \in Files : TakeJob(i, x)
           \/ \E x \in Files : Enqueue(x)
    PROVE  Progress
<1>1. ASSUME NEW i \in FileSlots, CompleteFile(i) PROVE Progress
  <2>1. Active(i) /\ AllBlocksFinished(i)
    BY <1>1 DEF CompleteFile, IsFirst, IInv, FscanInv
  <2>2. \A s \in Slots : s[1] = i => ~blk[s].inUse
    BY <2>1, FinishedFileSettled
  <2>3. PICK x \in Files : x = job[i].file
    BY <2>1, ActiveFile
  <2>4. PICK e : e.file = x /\ finished' = finished \cup {e}
    BY <1>1, <2>3 DEF CompleteFile
  <2>5. /\ UNCHANGED <<settled, kernel, crawl, queued>>
        /\ \A s \in Slots : blk[s].inUse => blk'[s] = blk[s]
    BY <1>1, <2>2 DEF CompleteFile, crawlVars
  <2>6. \A k \in FileSlots : k # i => job'[k] = job[k]
    BY <1>1 DEF CompleteFile, IInv, TypeOK
  <2>7. \A s \in Slots : blk[s].inUse => FileAt(s)' = FileAt(s)
    BY <2>2, <2>6 DEF FileAt, Slots
  <2>8. ~HandedOver(x) /\ HandedOver(x)'
    BY <2>3, <2>4 DEF HandedOver, PlaceInv
  <2>9. ~Passed(x, 3) /\ Passed(x, 3)'
    BY <2>8 DEF Passed
  <2>10. 3 \in 1 .. 3
    OBVIOUS
  <2> QED
    BY <2>4, <2>5, <2>7, <2>9, <2>10, FileProgress
<1>2. ASSUME NEW i \in FileSlots, NEW x \in Files, TakeJob(i, x) PROVE Progress
  <2>1. ~Active(i) /\ x \in queued
    BY <1>2 DEF TakeJob, IsFirst, IdleSlots
  <2>2. \A s \in Slots : s[1] = i => ~blk[s].inUse
    BY <2>1 DEF IInv, RequestsTracked
  <2>3. UNCHANGED <<settled, kernel, crawl, blk, finished>> /\ queued' = queued \ {x}
    BY <1>2 DEF TakeJob
  <2>4. \A k \in FileSlots : k # i => job'[k] = job[k]
    BY <1>2 DEF TakeJob, IInv, TypeOK
  <2>5. \A s \in Slots : blk[s].inUse => FileAt(s)' = FileAt(s)
    BY <2>2, <2>4 DEF FileAt, Slots
  <2>6. ~Passed(x, 2) /\ Passed(x, 2)'
    BY <2>1, <2>3 DEF Passed, PlaceInv
  <2>7. 2 \in 1 .. 3
    OBVIOUS
  <2> QED
    BY <2>3, <2>5, <2>6, <2>7, FileProgress
<1>3. ASSUME NEW x \in Files, Enqueue(x) PROVE Progress
  <2>1. /\ x \in crawl /\ crawl' = crawl \ {x} /\ queued' = queued \cup {x}
        /\ UNCHANGED <<job, blk, kernel, finished, settled>>
    BY <1>3 DEF Enqueue
  <2>2. \A s \in Slots : FileAt(s)' = FileAt(s)
    BY <2>1 DEF FileAt
  <2>3. ~Passed(x, 1) /\ Passed(x, 1)'
    BY <2>1 DEF Passed
  <2>4. 1 \in 1 .. 3
    OBVIOUS
  <2> QED
    BY <2>1, <2>2, <2>3, <2>4, FileProgress
<1> QED
  BY <1>1, <1>2, <1>3

LEMMA WorkOrProgress ==
    IInv /\ TypeOK' /\ PlaceInv /\ NumberInv /\ Next => Progress \/ UNCHANGED work
<1> SUFFICES ASSUME IInv, TypeOK', PlaceInv, NumberInv, Next
             PROVE  Progress \/ UNCHANGED work
  OBVIOUS
<1>1. ASSUME NEW s \in Slots, ReadDone(s) \/ WriteDone(s) PROVE Progress
  BY <1>1, RequestProgress
<1>2. CASE Complete
  BY <1>2, RequestProgress DEF Complete
<1>3. ASSUME NEW s \in Slots, BlockDone(s) \/ BlockFailed(s) PROVE Progress
  <2>1. kernel' = kernel
    BY <1>3 DEF BlockDone, BlockFailed
  <2>2. blk[s].inUse /\ \E r \in BlockType : SlotMove(s, r)
    BY <1>3, BlockDoneMoves, BlockFailedMoves
  <2>3. Active(s[1])
    BY <2>2, BlockInUse
  <2> QED
    BY <2>1, <2>2, <2>3, MoveProgress
<1>4. ASSUME NEW i \in FileSlots, StartBlock(i) PROVE Progress
  <2>1. PICK s \in Slots, r \in BlockType : s[1] = i /\ SlotMove(s, r) /\ r.inUse /\ Active(i)
    <3>1. PICK s \in Slots, r \in BlockType :
             s[1] = i /\ ~blk[s].inUse /\ SlotMove(s, r) /\ Active(i)
      BY <1>4, StartBlockMoves
    <3>2. blk'[s] = r
      BY <3>1 DEF SlotMove, IInv, TypeOK
    <3>3. r.inUse
      <4>1. PICK j \in BlockSlots, b \in Available(job[i].file) :
                blk' = [blk EXCEPT ![<<i, j>>] = ReadBlock(NextJobno(i), b)]
        BY <1>4 DEF StartBlock
      <4>2. <<i, j>> \in Slots /\ blk'[<<i, j>>].inUse
        BY <4>1 DEF Slots, IInv, TypeOK, ReadBlock
      <4>3. s = <<i, j>> \/ blk'[s] = blk[s]
        BY <4>1 DEF IInv, TypeOK
      <4>4. NextJobno(i)' = NextJobno(i) + 1 /\ NextJobno(i) \in Nat
        <5>1. job'[i] = AfterStart(i) /\ job[i] \in JobType
          BY <1>4 DEF StartBlock, IInv, TypeOK
        <5> QED
          BY <5>1, AfterStartCounters DEF NextJobno, JobType
      <4>5. ~r.inUse => NextJobno(i)' = NextJobno(i)
        BY <3>1 DEF SlotMove
      <4> QED
        BY <4>4, <4>5
    <3> QED
      BY <3>1, <3>3
  <2>2. kernel' = kernel
    BY <1>4 DEF StartBlock
  <2> QED
    BY <2>1, <2>2, MoveProgress
<1>5. CASE SubmitSome
  BY <1>5, SubmitSomeProgress
<1>6. CASE SubmitFail
  BY <1>6, SubmitFailProgress
<1>7. CASE \/ \E i \in FileSlots : CompleteFile(i)
           \/ \E i \in FileSlots, x \in Files : TakeJob(i, x)
           \/ \E x \in Files : Enqueue(x)
  BY <1>7, PlaceProgress
<1>8. CASE \/ UpdateEnd \/ CompleteEnd \/ FillEnd \/ ExitTest \/ SubmitNone \/ ReapEnd
           \/ CrawlEnd \/ \E i \in FileSlots : StartNothing(i)
  BY <1>8 DEF work, UpdateEnd, CompleteEnd, FillEnd, ExitTest, SubmitNone, ReapEnd,
              CrawlEnd, StartNothing, crawlVars
<1>9. CASE Others \/ Terminated
  BY <1>9 DEF work, Others, OthersAlloc, OthersFree, Terminated, vars, threadVars, crawlVars
<1> QED
  BY <1>1, <1>2, <1>3, <1>4, <1>5, <1>6, <1>7, <1>8, <1>9
     DEF Next, Thread, UpdatePhase, CompletePhase, FillPhase, TickPhase, Crawler

\* The loop of copy2.cpp:1712 may poll for ever, but not do work for ever: a block
\* is read, written and read back by one request each (copy2.cpp:315-406), and a
\* file is queued, taken (copy2.cpp:543) and handed over (copy2.cpp:503) once.
\* Every step either leaves all files, blocks and requests as they are, so that
\* only the place in the loop, the end of the crawl or the other threads' buffers
\* change, or puts one of finitely many stages behind; and no stage comes back,
\* also when requests fail, when the rest of a batch is submitted again
\* (copy2.cpp:242) or when a whole batch is given up (copy2.cpp:220).
THEOREM WorkRunsOut ==
    /\ IsFiniteSet(BlockStages) /\ IsFiniteSet(FileStages)
    /\ Spec => [][Progress \/ UNCHANGED work]_vars
<1>1. IInv => TypeOK
  BY DEF IInv
<1>2. IInv /\ IInv' /\ PlaceInv /\ NumberInv /\ [Next]_vars => [Progress \/ UNCHANGED work]_vars
  <2>1. IInv' => TypeOK'
    BY DEF IInv
  <2> QED
    BY <2>1, WorkOrProgress
<1>3. Spec => [][Progress \/ UNCHANGED work]_vars
  BY <1>2, SpecInv, SpecPlace, SpecNumber, PTL DEF Spec
<1> QED
  BY <1>3, StagesFinite
----------------------------------------------------------------------------
(***************************************************************************)
(* Nothing waits for nothing.                                              *)
(***************************************************************************)

\* The next step of the thread's loop: the loops over the slots find the slot
\* they visit next, in a state they have a branch for.
ThreadCanGo ==
    \/ pc = "update" /\ scan = {}
    \/ pc = "update" /\ \E s \in scan : CanAdvance(s) /\ blk[s].status \in {"ok", "err"}
    \/ pc = "complete" /\ fscan = {}
    \/ pc = "complete" /\ \E i \in fscan :
          /\ IsFirst(i, fscan)
          /\ \/ AllBlocksFinished(i) \/ ~MoreBlocks(i) \/ Available(job[i].file) = {}
             \/ InUse(i) = BlockSlots \/ \E j \in BlockSlots : IsFirst(j, BlockSlots \ InUse(i))
    \/ pc = "fill" /\ (IdleSlots = {} \/ queued = {})
    \/ pc = "fill" /\ \E i \in FileSlots : IsFirst(i, IdleSlots)
    \/ pc \in {"exit", "submit", "reap"}

\* The file in slot i can be handed over, has a block with a request that is to be
\* submitted, answered or followed by the next, or can start a block; or somebody
\* else, who will free it, holds what is left of the arena.
FileCanGo(i) ==
    \/ AllBlocksFinished(i)
    \/ \E j \in InUse(i) : <<i, j>> \in InFlight \/ blk[<<i, j>>].status # "pending"
    \/ /\ MoreBlocks(i) /\ InUse(i) = {}
       /\ \/ Available(job[i].file) # {} \/ others # {}
          \/ \E t \in Slots : t[1] # i /\ blk[t].inUse

NobodyStuck ==
    /\ pc # "done" => ThreadCanGo
    /\ \A i \in FileSlots :
          Active(i) => FileCanGo(i) \/ Buffers[job[i].file] = {}
    /\ pc = "done" => InFlight = {} /\ \A s \in Slots : ~blk[s].inUse

\* A nonempty set of numbers has a first one.
LEMMA FirstNumber ==
    ASSUME NEW S \in SUBSET Nat, S # {}
    PROVE  \E i \in S : IsFirst(i, S)
<1> DEFINE R == OpToRel(<, Nat)
<1>1. PICK x \in S : \A y \in S : ~(<<y, x>> \in R)
  <2>1. IsWellFoundedOn(R, Nat)
    BY NatLessThanWellFounded, Zenon
  <2> HIDE DEF R
  <2> QED
    BY <2>1, WFMin
<1>2. \A y \in S : x <= y
  <2> TAKE y \in S
  <2>1. x \in Nat /\ y \in Nat
    OBVIOUS
  <2>2. ~(y < x)
    BY <1>1, <2>1 DEF OpToRel
  <2> QED
    BY <2>1, <2>2
<1> QED
  BY <1>2 DEF IsFirst

LEMMA SlotNumbers == FileSlots \subseteq Nat /\ BlockSlots \subseteq Nat
  BY JobsAssumption DEF FileSlots, BlockSlots

LEMMA FirstSlot ==
    ASSUME NEW S \in SUBSET Slots, S # {}
    PROVE  \E s \in S : IsFirstSlot(s, S)
<1> DEFINE F == {i \in FileSlots : \E j \in BlockSlots : <<i, j>> \in S}
<1>1. F \in SUBSET Nat /\ F # {}
  <2>1. PICK s \in S : TRUE
    OBVIOUS
  <2>2. s = <<s[1], s[2]>> /\ s[1] \in FileSlots /\ s[2] \in BlockSlots
    BY DEF Slots
  <2>3. s[1] \in F
    BY <2>2
  <2> QED
    BY <2>3, SlotNumbers
<1>2. PICK i \in F : IsFirst(i, F)
  BY <1>1, FirstNumber
<1> DEFINE B == {j \in BlockSlots : <<i, j>> \in S}
<1>3. B \in SUBSET Nat /\ B # {}
  BY SlotNumbers
<1>4. PICK j \in B : IsFirst(j, B)
  BY <1>3, FirstNumber
<1>5. ASSUME NEW t \in S PROVE i < t[1] \/ (i = t[1] /\ j <= t[2])
  <2>1. t = <<t[1], t[2]>> /\ t[1] \in FileSlots /\ t[2] \in BlockSlots
    BY DEF Slots
  <2>2. t[1] \in F /\ i <= t[1]
    BY <1>2, <2>1 DEF IsFirst
  <2>3. i = t[1] => j <= t[2]
    BY <1>4, <2>1 DEF IsFirst
  <2>4. i \in Nat /\ t[1] \in Nat
    BY <2>1, SlotNumbers
  <2> QED
    BY <2>2, <2>3, <2>4
<1>6. <<i, j>> \in S /\ <<i, j>>[1] = i /\ <<i, j>>[2] = j
  BY <1>4
<1> QED
  BY <1>5, <1>6 DEF IsFirstSlot

LEMMA ThreadGoes == IInv /\ pc # "done" => ThreadCanGo
<1> SUFFICES ASSUME IInv, pc # "done" PROVE ThreadCanGo
  OBVIOUS
<1>1. CASE pc = "update" /\ scan # {}
  <2>1. PICK s \in scan : IsFirstSlot(s, scan)
    BY <1>1, FirstSlot DEF IInv, TypeOK
  <2>2. blk[s].status \in {"ok", "err"}
    BY DEF IInv, TypeOK, ScanInv, BlockType
  <2> QED
    BY <1>1, <2>1, <2>2 DEF ThreadCanGo, CanAdvance
<1>2. CASE pc = "complete" /\ fscan # {}
  <2>1. PICK i \in fscan : IsFirst(i, fscan)
    BY <1>2, SlotNumbers, FirstNumber DEF IInv, TypeOK
  <2>2. InUse(i) = BlockSlots \/ \E j \in BlockSlots : IsFirst(j, BlockSlots \ InUse(i))
    <3> SUFFICES ASSUME InUse(i) # BlockSlots
                 PROVE  \E j \in BlockSlots : IsFirst(j, BlockSlots \ InUse(i))
      OBVIOUS
    <3>1. BlockSlots \ InUse(i) \in SUBSET Nat /\ BlockSlots \ InUse(i) # {}
      BY SlotNumbers DEF InUse
    <3> QED
      BY <3>1, FirstNumber
  <2> QED
    BY <1>2, <2>1, <2>2 DEF ThreadCanGo
<1>3. CASE pc = "fill" /\ IdleSlots # {}
  <2>1. IdleSlots \in SUBSET Nat
    BY SlotNumbers DEF IdleSlots
  <2>2. \E i \in IdleSlots : IsFirst(i, IdleSlots)
    BY <1>3, <2>1, FirstNumber
  <2> QED
    BY <1>3, <2>2 DEF ThreadCanGo, IdleSlots
<1> QED
  BY <1>1, <1>2, <1>3 DEF ThreadCanGo, IInv, TypeOK

\* A file without a block in use has one to start, and the chunks of a buffer for
\* it that are not free belong to somebody else.
LEMMA FileGoes ==
    ASSUME IInv, NEW i \in FileSlots, Active(i)
    PROVE  FileCanGo(i) \/ Buffers[job[i].file] = {}
<1>1. /\ job[i] \in JobType /\ job[i].file \in Files
      /\ NBlocks[job[i].file] \in Nat
  BY BlocksAssumption DEF IInv, TypeOK, JobType, Active
<1>2. CASE InUse(i) # {}
  <2>1. PICK j \in InUse(i) : TRUE
    BY <1>2
  <2>2. <<i, j>> \in Slots /\ blk[<<i, j>>].inUse
    BY <2>1 DEF InUse, Slots
  <2>3. <<i, j>> \in InFlight \/ blk[<<i, j>>].status # "pending"
    BY <2>2 DEF IInv, RequestsTracked
  <2> QED
    BY <2>1, <2>3 DEF FileCanGo
<1>3. CASE InUse(i) = {} /\ ~AllBlocksFinished(i) /\ Buffers[job[i].file] # {}
  <2>1. job[i].nScheduled = 0
    BY <1>3, FS_EmptySet DEF IInv, CountInv
  <2>2. MoreBlocks(i)
    BY <1>1, <1>3, <2>1 DEF MoreBlocks, NextJobno, AllBlocksFinished, JobType
  <2>3. PICK b \in Buffers[job[i].file] : b \subseteq Chunks
    BY <1>1, <1>3, BuffersAssumption
  <2>4. CASE b \subseteq FreeChunks
    BY <1>3, <2>2, <2>4 DEF FileCanGo, Available
  <2>5. ASSUME NEW c \in b, c \notin FreeChunks PROVE FileCanGo(i)
    <3>1. c \in others \/ \E t \in Slots : c \in blk[t].data
      BY <2>3, <2>5 DEF FreeChunks
    <3>2. CASE c \in others
      BY <1>3, <2>2, <3>2 DEF FileCanGo
    <3>3. ASSUME NEW t \in Slots, c \in blk[t].data PROVE FileCanGo(i)
      <4>1. blk[t].inUse
        BY <3>3 DEF IInv, BuffersExclusive
      <4>2. t[1] # i
        BY <4>1, <1>3 DEF InUse, Slots
      <4> QED
        BY <1>3, <2>2, <4>1, <4>2 DEF FileCanGo
    <3> QED
      BY <3>1, <3>2, <3>3
  <2> QED
    BY <2>4, <2>5
<1> QED
  BY <1>2, <1>3 DEF FileCanGo

\* The thread returns with no file in its slots.
DoneInv == pc = "done" => \A i \in FileSlots : ~Active(i)

LEMMA DoneStep == DoneInv /\ [Next]_vars => DoneInv'
<1> SUFFICES ASSUME DoneInv, [Next]_vars, pc' = "done"
             PROVE  \A i \in FileSlots : ~Active(i)'
  BY DEF DoneInv
<1>1. CASE ExitTest
  BY <1>1 DEF ExitTest, MayExit, IdleSlots, Active
<1>2. CASE pc = "done" /\ job' = job
  BY <1>2 DEF DoneInv, Active
<1>3. CASE Crawler \/ Others \/ Terminated \/ UNCHANGED vars
  <2>1. pc' = pc /\ job' = job
    BY <1>3 DEF Crawler, Enqueue, CrawlEnd, Others, OthersAlloc, OthersFree, Terminated, vars,
                threadVars
  <2> QED
    BY <1>2, <2>1
<1>4. ASSUME UpdatePhase \/ CompletePhase \/ TickPhase \/ Complete PROVE FALSE
  <2>1. CASE UpdatePhase
    BY <2>1 DEF UpdatePhase, ReadDone, WriteDone, BlockDone, BlockFailed, CanAdvance, UpdateEnd
  <2>2. CASE CompletePhase
    BY <2>2 DEF CompletePhase, CompleteFile, StartBlock, StartNothing, CompleteEnd
  <2>3. CASE TickPhase
    BY <2>3 DEF TickPhase, SubmitSome, SubmitNone, SubmitFail, ReapEnd
  <2>4. CASE Complete
    BY <2>4 DEF Complete, Reap, threadVars
  <2> QED
    BY <1>4, <2>1, <2>2, <2>3, <2>4
<1>5. CASE FillEnd \/ \E i \in FileSlots, x \in Files : TakeJob(i, x)
  BY <1>5 DEF FillEnd, TakeJob, threadVars
<1> QED
  BY <1>1, <1>3, <1>4, <1>5 DEF Next, Thread, FillPhase

\* Until it returns, the thread has a next step in each of its loops; a file in a
\* slot has all its blocks finished (copy2.cpp:503), or a request that the batch or
\* the kernel holds or the next pass advances (copy2.cpp:315), or a block to start
\* as soon as a buffer is free (copy2.cpp:280), and buffers that are not free have
\* holders, none is leaked; and what the thread leaves when it returns
\* (copy2.cpp:563) is no request and no buffer.
THEOREM SomebodyGoesOn == Spec => []NobodyStuck
<1>1. Init => DoneInv
  BY DEF Init, DoneInv
<1>2. IInv /\ DoneInv => NobodyStuck
  <2>1. IInv /\ DoneInv /\ pc = "done" => InFlight = {} /\ \A s \in Slots : ~blk[s].inUse
    BY DEF IInv, RequestsTracked, DoneInv, Slots
  <2> QED
    BY <2>1, ThreadGoes, FileGoes DEF NobodyStuck
<1> QED
  BY <1>1, <1>2, DoneStep, SpecInv, PTL DEF Spec
=============================================================================
