------------------------ MODULE CopySchedulerProofs ------------------------
(***************************************************************************)
(* Proofs about one transfer thread, for any number of files, blocks,      *)
(* slots and buffers.  The inductive invariant adds to the properties of   *)
(* CopyScheduler what the thread's loops rely on between two steps: a slot *)
(* still to be advanced stays in use and answered, a file still to be      *)
(* examined stays active, and nScheduled is the number of blocks in use,   *)
(* so that a file whose blocks are all finished has none in flight.        *)
(***************************************************************************)
EXTENDS CopyScheduler, FiniteSetTheorems, TLAPS

\* What the update loop has left to visit: answered blocks in use.
ScanInv ==
    /\ \A s \in scan : blk[s].inUse /\ blk[s].status # "pending"
    /\ pc # "update" => scan = {}

\* What the completion loop has left to examine: active files.
FscanInv ==
    /\ \A i \in fscan : Active(i)
    /\ pc # "complete" => fscan = {}

\* nScheduled counts the blocks in use, and no file has more blocks under way
\* and finished than it has blocks.
CountInv ==
    \A i \in FileSlots :
        /\ job[i].nScheduled = Cardinality(InUse(i))
        /\ Active(i) => NextJobno(i) <= NBlocks[job[i].file]

\* A block in use was numbered before the next one will be.
JobnoInv == \A s \in Slots : blk[s].inUse => blk[s].jobno < NextJobno(s[1])

IInv ==
    /\ TypeOK
    /\ RequestsTracked
    /\ BuffersExclusive
    /\ ScanInv
    /\ FscanInv
    /\ CountInv
    /\ JobnoInv

----------------------------------------------------------------------------
\* The block slots of a file in use are finitely many.
LEMMA InUseFinite ==
    ASSUME NEW i \in FileSlots
    PROVE  IsFiniteSet(InUse(i)) /\ Cardinality(InUse(i)) \in Nat
<1>1. IsFiniteSet(BlockSlots)
  BY JobsAssumption, FS_Interval DEF BlockSlots
<1>2. InUse(i) \subseteq BlockSlots
  BY DEF InUse
<1> QED
  BY <1>1, <1>2, FS_Subset, FS_CardinalityType

\* The initial state satisfies the invariant.
LEMMA InitInv == Init => IInv
<1> SUFFICES ASSUME Init PROVE IInv
  OBVIOUS
<1> USE DEF Init
<1>1. TypeOK
  <2>1. job \in [FileSlots -> JobType]
    BY DEF JobType, IdleJob
  <2>2. blk \in [Slots -> BlockType]
    BY DEF BlockType, FreeBlock, Bytes
  <2>3. dst \in [BlockIds -> Bytes]
    BY DEF Bytes
  <2>4. batch \in Seq(Slots)
    OBVIOUS
  <2>5. grabs \in 0 .. MaxGrabs
    BY OptsAssumption
  <2> QED
    BY <2>1, <2>2, <2>3, <2>4, <2>5 DEF TypeOK
<1>2. RequestsTracked
  BY DEF RequestsTracked, InFlight, Queue, FreeBlock
<1>3. BuffersExclusive
  BY DEF BuffersExclusive, FreeBlock
<1>4. ScanInv /\ FscanInv
  BY DEF ScanInv, FscanInv
<1>5. CountInv
  <2> SUFFICES ASSUME NEW i \in FileSlots
               PROVE  /\ job[i].nScheduled = Cardinality(InUse(i))
                      /\ Active(i) => NextJobno(i) <= NBlocks[job[i].file]
    BY DEF CountInv
  <2>1. InUse(i) = {}
    BY DEF InUse, FreeBlock, Slots
  <2>2. ~Active(i) /\ job[i].nScheduled = 0
    BY DEF Active, IdleJob
  <2> QED
    BY <2>1, <2>2, FS_EmptySet
<1>6. JobnoInv
  BY DEF JobnoInv, FreeBlock
<1> QED
  BY <1>1, <1>2, <1>3, <1>4, <1>5, <1>6 DEF IInv

----------------------------------------------------------------------------
(***************************************************************************)
(* Most steps change one block slot.  The next three lemmas say what such  *)
(* a change must satisfy to keep the requests, the buffers and the         *)
(* counters straight.                                                      *)
(***************************************************************************)

\* What the batch holds after schedIOSubmitDeferred.
LEMMA DeferredQueue ==
    ASSUME batch \in Seq(Slots), NEW s \in Slots, s \notin Queue,
           batch' = Append(batch, s),
           \A m, n \in 1 .. Len(batch) : m # n => batch[m] # batch[n]
    PROVE  /\ Queue' = Queue \cup {s}
           /\ \A m, n \in 1 .. Len(batch') : m # n => batch'[m] # batch'[n]
<1>1. Len(batch') = Len(batch) + 1 /\ Len(batch) \in Nat
  OBVIOUS
<1>2. \A n \in 1 .. Len(batch) : batch'[n] = batch[n] /\ batch[n] \in Queue
  BY DEF Queue
<1>3. batch'[Len(batch) + 1] = s
  OBVIOUS
<1>4. Queue' = {batch'[n] : n \in 1 .. Len(batch')}
  BY DEF Queue
<1>5. Queue' = Queue \cup {s}
  <2>1. Queue' \subseteq Queue \cup {s}
    BY <1>1, <1>2, <1>3, <1>4
  <2>2. Queue \subseteq Queue'
    BY <1>1, <1>2, <1>4 DEF Queue
  <2>3. s \in Queue'
    BY <1>1, <1>3, <1>4
  <2> QED
    BY <2>1, <2>2, <2>3
<1>6. ASSUME NEW m \in 1 .. Len(batch'), NEW n \in 1 .. Len(batch'), m # n
      PROVE  batch'[m] # batch'[n]
  <2>1. CASE m = Len(batch) + 1
    BY <2>1, <1>1, <1>2, <1>3, <1>6
  <2>2. CASE n = Len(batch) + 1
    BY <2>2, <1>1, <1>2, <1>3, <1>6
  <2>3. CASE m \in 1 .. Len(batch) /\ n \in 1 .. Len(batch)
    BY <2>3, <1>2, <1>6
  <2> QED
    BY <2>1, <2>2, <2>3, <1>1
<1> QED
  BY <1>5, <1>6

\* A slot that is not in flight may get a new struct, which is put into the
\* batch just when it waits for a result.
LEMMA OneSlotRequests ==
    ASSUME TypeOK, RequestsTracked,
           NEW s \in Slots, NEW r \in BlockType, s \notin InFlight,
           blk' = [blk EXCEPT ![s] = r], kernel' = kernel,
           \A i \in FileSlots : Active(i) => Active(i)',
           r.inUse => Active(s[1])',
           \/ r.inUse /\ r.status = "pending" /\ batch' = Append(batch, s)
           \/ ~(r.inUse /\ r.status = "pending") /\ batch' = batch
    PROVE  RequestsTracked'
<1> USE DEF TypeOK
<1>0. \A t \in Slots : t[1] \in FileSlots
  BY DEF Slots
<1>1. \A t \in Slots : blk'[t] = IF t = s THEN r ELSE blk[t]
  OBVIOUS
<1>2. s \notin Queue /\ s \notin kernel
  BY DEF InFlight
<1>3. \A t \in Slots : blk'[t].inUse => Active(t[1])'
  BY <1>0, <1>1 DEF RequestsTracked
<1>4. CASE r.inUse /\ r.status = "pending" /\ batch' = Append(batch, s)
  <2>1. /\ Queue' = Queue \cup {s}
        /\ \A m, n \in 1 .. Len(batch') : m # n => batch'[m] # batch'[n]
    BY <1>2, <1>4, DeferredQueue DEF RequestsTracked
  <2>2. InFlight' = InFlight \cup {s}
    BY <2>1 DEF InFlight
  <2>3. InFlight' = {t \in Slots : blk'[t].inUse /\ blk'[t].status = "pending"}
    BY <2>2, <1>1, <1>4 DEF RequestsTracked
  <2>4. Queue' \cap kernel' = {}
    BY <2>1, <1>2 DEF RequestsTracked
  <2> QED
    BY <1>3, <2>1, <2>3, <2>4 DEF RequestsTracked
<1>5. CASE ~(r.inUse /\ r.status = "pending") /\ batch' = batch
  <2>1. Queue' = Queue
    BY <1>5 DEF Queue
  <2>2. InFlight' = InFlight
    BY <2>1 DEF InFlight
  <2>3. InFlight' = {t \in Slots : blk'[t].inUse /\ blk'[t].status = "pending"}
    BY <2>2, <1>1, <1>5 DEF RequestsTracked
  <2> QED
    BY <1>3, <1>5, <2>1, <2>3 DEF RequestsTracked
<1> QED
  BY <1>4, <1>5

\* A slot's new buffer is its old one, or taken from the free chunks, or none.
LEMMA OneSlotBuffers ==
    ASSUME TypeOK, BuffersExclusive,
           NEW s \in Slots, NEW r \in BlockType,
           blk' = [blk EXCEPT ![s] = r], others' = others,
           r.inUse <=> r.data # {},
           r.data \subseteq blk[s].data \/ r.data \subseteq FreeChunks
    PROVE  BuffersExclusive'
<1>1. \A t \in Slots : blk'[t] = IF t = s THEN r ELSE blk[t]
  BY DEF TypeOK
<1>2. r.data \cap others = {}
  BY DEF BuffersExclusive, FreeChunks
<1>3. \A t \in Slots : t # s => r.data \cap blk[t].data = {}
  BY DEF BuffersExclusive, FreeChunks
<1>4. \A t \in Slots : blk'[t].inUse <=> blk'[t].data # {}
  BY <1>1 DEF BuffersExclusive
<1>5. \A t \in Slots : blk'[t].data \cap others' = {}
  BY <1>1, <1>2 DEF BuffersExclusive
<1>6. \A t, u \in Slots : t # u => blk'[t].data \cap blk'[u].data = {}
  BY <1>1, <1>3 DEF BuffersExclusive
<1> QED
  BY <1>4, <1>5, <1>6 DEF BuffersExclusive

\* The blocks in use of each file slot after one block slot has changed.
LEMMA OneSlotInUse ==
    ASSUME TypeOK, NEW s \in Slots, NEW r \in BlockType,
           blk' = [blk EXCEPT ![s] = r]
    PROVE  /\ \A i \in FileSlots : i # s[1] => InUse(i)' = InUse(i)
           /\ InUse(s[1])' = IF r.inUse THEN InUse(s[1]) \cup {s[2]}
                                        ELSE InUse(s[1]) \ {s[2]}
<1>1. s[1] \in FileSlots /\ s[2] \in BlockSlots /\ s = <<s[1], s[2]>>
  BY DEF Slots
<1>2. \A i \in FileSlots, j \in BlockSlots : <<i, j>> \in Slots
  BY DEF Slots
<1>3. \A t \in Slots : blk'[t] = IF t = s THEN r ELSE blk[t]
  BY DEF TypeOK
<1>4. \A i \in FileSlots, j \in BlockSlots : (<<i, j>> = s) <=> (i = s[1] /\ j = s[2])
  BY <1>1
<1>5. \A i \in FileSlots, j \in BlockSlots :
          blk'[<<i, j>>] = IF i = s[1] /\ j = s[2] THEN r ELSE blk[<<i, j>>]
  BY <1>2, <1>3, <1>4
<1>6. \A i \in FileSlots : InUse(i)' = {j \in BlockSlots : blk'[<<i, j>>].inUse}
  BY DEF InUse
<1>7. \A i \in FileSlots : i # s[1] => InUse(i)' = InUse(i)
  BY <1>5, <1>6 DEF InUse
<1>8. \A j \in BlockSlots : blk'[<<s[1], j>>] = IF j = s[2] THEN r ELSE blk[<<s[1], j>>]
  BY <1>1, <1>5
<1>9. /\ InUse(s[1])' = {j \in BlockSlots : blk'[<<s[1], j>>].inUse}
      /\ InUse(s[1]) = {j \in BlockSlots : blk[<<s[1], j>>].inUse}
  BY <1>1, <1>6 DEF InUse
<1>10. \A j \in BlockSlots :
          j \in InUse(s[1])' <=> (IF j = s[2] THEN r.inUse ELSE j \in InUse(s[1]))
  BY <1>8, <1>9
<1>11. InUse(s[1])' \subseteq BlockSlots /\ InUse(s[1]) \subseteq BlockSlots
  BY <1>9
<1>12. CASE r.inUse
  BY <1>1, <1>10, <1>11, <1>12
<1>13. CASE ~r.inUse
  BY <1>1, <1>10, <1>11, <1>13
<1> QED
  BY <1>7, <1>12, <1>13

\* A new block must be numbered below the next one, whose number never falls.
LEMMA OneSlotJobno ==
    ASSUME TypeOK, TypeOK', JobnoInv, NEW s \in Slots, NEW r \in BlockType,
           blk' = [blk EXCEPT ![s] = r],
           \A i \in FileSlots : NextJobno(i) <= NextJobno(i)',
           r.inUse => r.jobno < NextJobno(s[1])'
    PROVE  JobnoInv'
<1> SUFFICES ASSUME NEW t \in Slots, blk'[t].inUse
             PROVE  blk'[t].jobno < NextJobno(t[1])'
  BY DEF JobnoInv
<1>1. blk'[t] = IF t = s THEN r ELSE blk[t]
  BY DEF TypeOK
<1>2. t[1] \in FileSlots /\ NextJobno(t[1]) \in Nat /\ NextJobno(t[1])' \in Nat
  <2>1. t[1] \in FileSlots
    BY DEF Slots
  <2>2. job[t[1]] \in JobType /\ job'[t[1]] \in JobType
    BY <2>1 DEF TypeOK
  <2> QED
    BY <2>1, <2>2 DEF JobType, NextJobno
<1>3. CASE t = s
  BY <1>1, <1>3
<1>4. CASE t # s
  <2>1. blk[t].jobno \in Nat /\ blk[t].jobno < NextJobno(t[1])
    BY <1>1, <1>4 DEF JobnoInv, TypeOK, BlockType
  <2> QED
    BY <2>1, <1>1, <1>2, <1>4
<1> QED
  BY <1>3, <1>4

\* How many blocks of each file are in use after one block slot has changed.
LEMMA OneSlotCount ==
    ASSUME TypeOK, NEW s \in Slots, NEW r \in BlockType,
           blk' = [blk EXCEPT ![s] = r]
    PROVE  /\ \A i \in FileSlots : i # s[1] => InUse(i)' = InUse(i)
           /\ blk[s].inUse /\ r.inUse => InUse(s[1])' = InUse(s[1])
           /\ ~blk[s].inUse /\ r.inUse =>
                 Cardinality(InUse(s[1]))' = Cardinality(InUse(s[1])) + 1
           /\ blk[s].inUse /\ ~r.inUse =>
                 Cardinality(InUse(s[1]))' = Cardinality(InUse(s[1])) - 1
<1>1. s[1] \in FileSlots /\ s[2] \in BlockSlots /\ s = <<s[1], s[2]>>
  BY DEF Slots
<1>2. s[2] \in InUse(s[1]) <=> blk[s].inUse
  BY <1>1 DEF InUse
<1>3. IsFiniteSet(InUse(s[1])) /\ Cardinality(InUse(s[1])) \in Nat
  BY <1>1, InUseFinite
<1>4. /\ Cardinality(InUse(s[1]) \cup {s[2]}) =
            IF s[2] \in InUse(s[1]) THEN Cardinality(InUse(s[1]))
                                    ELSE Cardinality(InUse(s[1])) + 1
      /\ Cardinality(InUse(s[1]) \ {s[2]}) =
            IF s[2] \in InUse(s[1]) THEN Cardinality(InUse(s[1])) - 1
                                    ELSE Cardinality(InUse(s[1]))
  BY <1>3, FS_AddElement, FS_RemoveElement
<1>5. /\ \A i \in FileSlots : i # s[1] => InUse(i)' = InUse(i)
      /\ InUse(s[1])' = IF r.inUse THEN InUse(s[1]) \cup {s[2]}
                                   ELSE InUse(s[1]) \ {s[2]}
  BY OneSlotInUse
<1>6. blk[s].inUse /\ r.inUse => InUse(s[1])' = InUse(s[1])
  BY <1>2, <1>5
<1>7. ~blk[s].inUse /\ r.inUse =>
          Cardinality(InUse(s[1]))' = Cardinality(InUse(s[1])) + 1
  BY <1>2, <1>4, <1>5
<1>8. blk[s].inUse /\ ~r.inUse =>
          Cardinality(InUse(s[1]))' = Cardinality(InUse(s[1])) - 1
  BY <1>2, <1>4, <1>5
<1> QED
  BY <1>5, <1>6, <1>7, <1>8

----------------------------------------------------------------------------
(***************************************************************************)
(* What the counters of a file are after it has been updated.              *)
(***************************************************************************)

LEMMA AfterBlockCounters ==
    ASSUME NEW s \in Slots, job[s[1]] \in JobType,
           job[s[1]].nScheduled >= 1, MoreBlocks(s[1]) \in BOOLEAN
    PROVE  /\ AfterBlock(s) \in JobType
           /\ AfterBlock(s).file = job[s[1]].file
           /\ AfterBlock(s).nFinished = job[s[1]].nFinished + 1
           /\ AfterBlock(s).nScheduled =
                 IF MoreBlocks(s[1]) THEN job[s[1]].nScheduled ELSE job[s[1]].nScheduled - 1
<1> DEFINE j == job[s[1]]
           n == IF MoreBlocks(s[1]) THEN j.nScheduled ELSE j.nScheduled - 1
           d == j.nFinished + 1
           e == IF HashMismatch(s) THEN j.nErrors + 1 ELSE j.nErrors
<1>1. n \in Nat /\ d \in Nat /\ e \in Nat
  BY DEF JobType
<1>2. AfterBlock(s) = [j EXCEPT !.nScheduled = n, !.nFinished = d, !.nErrors = e]
  BY Zenon DEF AfterBlock
<1> HIDE DEF n, d, e
<1>3. /\ AfterBlock(s) \in JobType
      /\ AfterBlock(s).file = j.file
      /\ AfterBlock(s).nFinished = d
      /\ AfterBlock(s).nScheduled = n
  BY <1>1, <1>2 DEF JobType
<1> QED
  BY <1>3 DEF n, d

LEMMA AfterFailureCounters ==
    ASSUME NEW i \in FileSlots, job[i] \in JobType, job[i].nScheduled >= 1
    PROVE  /\ AfterFailure(i) \in JobType
           /\ AfterFailure(i).file = job[i].file
           /\ AfterFailure(i).nFinished = job[i].nFinished + 1
           /\ AfterFailure(i).nScheduled = job[i].nScheduled - 1
<1> DEFINE n == job[i].nScheduled - 1
           d == job[i].nFinished + 1
<1>1. n \in Nat /\ d \in Nat
  BY DEF JobType
<1>2. AfterFailure(i) = [job[i] EXCEPT !.nScheduled = n, !.nFinished = d]
  BY Zenon DEF AfterFailure
<1> HIDE DEF n, d
<1>3. /\ AfterFailure(i) \in JobType
      /\ AfterFailure(i).file = job[i].file
      /\ AfterFailure(i).nFinished = d
      /\ AfterFailure(i).nScheduled = n
  BY <1>1, <1>2 DEF JobType
<1> QED
  BY <1>3 DEF n, d

LEMMA AfterStartCounters ==
    ASSUME NEW i \in FileSlots, job[i] \in JobType
    PROVE  /\ AfterStart(i) \in JobType
           /\ AfterStart(i).file = job[i].file
           /\ AfterStart(i).nFinished = job[i].nFinished
           /\ AfterStart(i).nScheduled = job[i].nScheduled + 1
<1> DEFINE n == job[i].nScheduled + 1
<1>1. n \in Nat
  BY DEF JobType
<1>2. AfterStart(i) = [job[i] EXCEPT !.nScheduled = n]
  BY Zenon DEF AfterStart
<1> HIDE DEF n
<1>3. /\ AfterStart(i) \in JobType
      /\ AfterStart(i).file = job[i].file
      /\ AfterStart(i).nFinished = job[i].nFinished
      /\ AfterStart(i).nScheduled = n
  BY <1>1, <1>2 DEF JobType
<1> QED
  BY <1>3 DEF n

LEMMA AfterSubmitFailureCounters ==
    ASSUME NEW i \in FileSlots, job[i] \in JobType, Cardinality(Batched(i)) \in Nat,
           Cardinality(Batched(i)) <= job[i].nScheduled
    PROVE  /\ AfterSubmitFailure(i) \in JobType
           /\ AfterSubmitFailure(i).file = job[i].file
           /\ AfterSubmitFailure(i).nFinished = job[i].nFinished + Cardinality(Batched(i))
           /\ AfterSubmitFailure(i).nScheduled = job[i].nScheduled - Cardinality(Batched(i))
<1> DEFINE n == job[i].nScheduled - Cardinality(Batched(i))
           d == job[i].nFinished + Cardinality(Batched(i))
           e == job[i].nErrors + SubmitErrors(i)
<1>1. n \in Nat /\ d \in Nat /\ e \in Nat
  BY DEF JobType, SubmitErrors
<1>2. AfterSubmitFailure(i) =
          [job[i] EXCEPT !.nScheduled = n, !.nFinished = d, !.nErrors = e]
  BY Zenon DEF AfterSubmitFailure
<1> HIDE DEF n, d, e
<1>3. /\ AfterSubmitFailure(i) \in JobType
      /\ AfterSubmitFailure(i).file = job[i].file
      /\ AfterSubmitFailure(i).nFinished = d
      /\ AfterSubmitFailure(i).nScheduled = n
  BY <1>1, <1>2 DEF JobType
<1> QED
  BY <1>3 DEF n, d

----------------------------------------------------------------------------
(***************************************************************************)
(* The steps of the update loop.                                           *)
(***************************************************************************)

\* What holds of the block the update loop visits next.
Visited(s) ==
    /\ s \in scan /\ blk[s] \in BlockType /\ blk[s].inUse
    /\ s \notin InFlight
    /\ s[1] \in FileSlots /\ Active(s[1])
    /\ job[s[1]] \in JobType /\ job[s[1]].file \in Files
    /\ pc = "update" /\ fscan = {}
    /\ job[s[1]].nScheduled = Cardinality(InUse(s[1]))
    /\ job[s[1]].nScheduled >= 1

\* A block the update loop has still to visit is answered, so not in flight,
\* and belongs to an active file.
LEMMA ScannedBlock ==
    ASSUME IInv, NEW s \in Slots, CanAdvance(s)
    PROVE  Visited(s)
<1>1. s \in scan /\ pc = "update"
  BY DEF CanAdvance, IsFirstSlot
<1>2. s[1] \in FileSlots /\ s[2] \in BlockSlots /\ s = <<s[1], s[2]>>
  BY DEF Slots
<1>3. blk[s] \in BlockType /\ blk[s].inUse /\ blk[s].status # "pending"
  BY <1>1 DEF IInv, TypeOK, ScanInv
<1>4. s \notin InFlight /\ Active(s[1])
  BY <1>3 DEF IInv, RequestsTracked
<1>5. job[s[1]] \in JobType /\ job[s[1]].file \in Files
  BY <1>2, <1>4 DEF IInv, TypeOK, JobType, Active
<1>6. fscan = {}
  BY <1>1 DEF IInv, FscanInv
<1>7. job[s[1]].nScheduled = Cardinality(InUse(s[1]))
  BY <1>2 DEF IInv, CountInv
<1>8. s[2] \in InUse(s[1])
  BY <1>2, <1>3 DEF InUse
<1>9. job[s[1]].nScheduled # 0
  BY <1>2, <1>7, <1>8, InUseFinite, FS_EmptySet
<1> QED
  BY <1>1, <1>2, <1>3, <1>4, <1>5, <1>6, <1>7, <1>9 DEF Visited, JobType

\* A step of the update loop that leaves the block in use keeps the invariant
\* if it keeps the buffer, and defers the request when it prepares one.
LEMMA BlockKept ==
    ASSUME IInv, NEW s \in Slots, CanAdvance(s),
           NEW r \in BlockType, r.inUse, r.data = blk[s].data, r.jobno = blk[s].jobno,
           blk' = [blk EXCEPT ![s] = r],
           \/ r.status = "pending" /\ batch' = Append(batch, s)
           \/ r.status # "pending" /\ batch' = batch,
           scan' = scan \ {s},
           UNCHANGED <<pc, fscan, job, kernel, crawlVars, otherVars, dst, finished,
                       settled, lost>>
    PROVE  IInv'
<1>0. Visited(s)
  BY ScannedBlock
<1> USE <1>0 DEF Visited
<1>1. TypeOK'
  <2>1. batch \in Seq(Slots)
    BY DEF IInv, TypeOK
  <2>2. batch' \in Seq(Slots)
    BY <2>1
  <2>3. blk' \in [Slots -> BlockType] /\ scan' \in SUBSET Slots
    BY DEF IInv, TypeOK
  <2> QED
    BY <2>2, <2>3 DEF IInv, TypeOK, crawlVars, otherVars
<1>2. RequestsTracked'
  <2>1. \A i \in FileSlots : Active(i)' = Active(i)
    BY DEF Active
  <2> QED
    BY <2>1, OneSlotRequests DEF IInv
<1>3. BuffersExclusive'
  BY OneSlotBuffers DEF IInv, BuffersExclusive, otherVars
<1>4. ScanInv'
  BY DEF IInv, ScanInv, TypeOK
<1>5. FscanInv'
  BY DEF IInv, FscanInv
<1>6. CountInv'
  <2>1. \A i \in FileSlots : InUse(i)' = InUse(i)
    BY OneSlotCount DEF IInv
  <2> QED
    BY <2>1 DEF IInv, CountInv, Active, NextJobno
<1>7. JobnoInv'
  <2>1. \A i \in FileSlots : NextJobno(i) <= NextJobno(i)'
    <3>1. \A i \in FileSlots : job[i] \in JobType /\ job' = job
      BY <1>0 DEF IInv, TypeOK
    <3> QED
      BY <3>1 DEF JobType, NextJobno
  <2>2. r.jobno < NextJobno(s[1])'
    <3>1. blk[s].jobno < NextJobno(s[1])
      BY <1>0 DEF IInv, JobnoInv
    <3>2. NextJobno(s[1])' = NextJobno(s[1])
      BY <1>0 DEF NextJobno
    <3> QED
      BY <3>1, <3>2
  <2> QED
    BY <1>1, <2>1, <2>2, OneSlotJobno DEF IInv
<1> QED
  BY <1>1, <1>2, <1>3, <1>4, <1>5, <1>6, <1>7 DEF IInv

LEMMA ReadDoneInv == ASSUME IInv, NEW s \in Slots, ReadDone(s) PROVE IInv'
<1>0. CanAdvance(s) /\ Visited(s)
  BY ScannedBlock DEF ReadDone
<1> USE DEF Visited
<1>1. CASE Sparse /\ blk[s].bytes = "zero"
  <2> DEFINE r == [blk[s] EXCEPT !.type = "FINISH"]
  <2>1. r \in BlockType /\ r.inUse /\ r.data = blk[s].data /\ r.status # "pending"
       /\ r.jobno = blk[s].jobno
    BY <1>0 DEF BlockType, ReadDone
  <2>2. blk' = [blk EXCEPT ![s] = r] /\ batch' = batch
    BY <1>1 DEF ReadDone
  <2> HIDE DEF r
  <2> QED
    BY <1>0, <2>1, <2>2, BlockKept DEF ReadDone
<1>2. CASE ~(Sparse /\ blk[s].bytes = "zero")
  <2> DEFINE r == [blk[s] EXCEPT !.type = "WRITE", !.status = "pending",
                                 !.srcHash = IF Readback THEN blk[s].bytes ELSE "junk"]
  <2>1. r \in BlockType /\ r.inUse /\ r.data = blk[s].data /\ r.status = "pending"
       /\ r.jobno = blk[s].jobno
    BY <1>0 DEF BlockType, Bytes
  <2>2. blk' = [blk EXCEPT ![s] = r] /\ batch' = Append(batch, s)
    BY <1>2 DEF ReadDone
  <2> HIDE DEF r
  <2> QED
    BY <1>0, <2>1, <2>2, BlockKept DEF ReadDone
<1> QED
  BY <1>1, <1>2

LEMMA WriteDoneInv == ASSUME IInv, NEW s \in Slots, WriteDone(s) PROVE IInv'
<1>0. CanAdvance(s) /\ Visited(s)
  BY ScannedBlock DEF WriteDone
<1> USE DEF Visited
<1>1. CASE Readback
  <2> DEFINE r == [blk[s] EXCEPT !.type = "READDST", !.status = "pending", !.bytes = "zero"]
  <2>1. r \in BlockType /\ r.inUse /\ r.data = blk[s].data /\ r.status = "pending"
       /\ r.jobno = blk[s].jobno
    BY <1>0 DEF BlockType, Bytes
  <2>2. blk' = [blk EXCEPT ![s] = r] /\ batch' = Append(batch, s)
    BY <1>1 DEF WriteDone
  <2> HIDE DEF r
  <2> QED
    BY <1>0, <2>1, <2>2, BlockKept DEF WriteDone
<1>2. CASE ~Readback
  <2> DEFINE r == [blk[s] EXCEPT !.type = "FINISH"]
  <2>1. r \in BlockType /\ r.inUse /\ r.data = blk[s].data /\ r.status # "pending"
       /\ r.jobno = blk[s].jobno
    BY <1>0 DEF BlockType, WriteDone
  <2>2. blk' = [blk EXCEPT ![s] = r] /\ batch' = batch
    BY <1>2 DEF WriteDone
  <2> HIDE DEF r
  <2> QED
    BY <1>0, <2>1, <2>2, BlockKept DEF WriteDone
<1> QED
  BY <1>1, <1>2

\* One more block is counted as finished: the step of BlockDone and BlockFailed.
LEMMA BlockDoneInv == ASSUME IInv, NEW s \in Slots, BlockDone(s) PROVE IInv'
<1> DEFINE i == s[1]
           x == job[i].file
           r == IF MoreBlocks(i) THEN ReadBlock(NextJobno(i), blk[s].data) ELSE FreeBlock
<1>0. CanAdvance(s) /\ Visited(s) /\ MoreBlocks(i) \in BOOLEAN
  BY ScannedBlock DEF BlockDone, MoreBlocks
<1> USE DEF Visited
<1>1. /\ r \in BlockType
      /\ MoreBlocks(i) => /\ r.inUse /\ r.data = blk[s].data /\ r.status = "pending"
                          /\ r.jobno = NextJobno(i)
      /\ ~MoreBlocks(i) => ~r.inUse /\ r.data = {}
  <2>1. CASE MoreBlocks(i)
    BY <1>0, <2>1 DEF ReadBlock, BlockType, NextJobno, Bytes, JobType
  <2>2. CASE ~MoreBlocks(i)
    BY <2>2 DEF FreeBlock, BlockType, Bytes
  <2> QED
    BY <2>1, <2>2
<1>2. blk' = [blk EXCEPT ![s] = r]
  BY DEF BlockDone, Cleared
<1>3. \/ MoreBlocks(i) /\ batch' = Append(batch, s)
      \/ ~MoreBlocks(i) /\ batch' = batch
  BY DEF BlockDone
<1>4. /\ job' = [job EXCEPT ![i] = AfterBlock(s)]
      /\ AfterBlock(s) \in JobType
      /\ AfterBlock(s).file = job[i].file
      /\ AfterBlock(s).nFinished = job[i].nFinished + 1
      /\ AfterBlock(s).nScheduled =
            IF MoreBlocks(i) THEN job[i].nScheduled ELSE job[i].nScheduled - 1
  BY <1>0, AfterBlockCounters DEF BlockDone
<1>5. /\ job'[i] = AfterBlock(s)
      /\ \A k \in FileSlots : k # i => job'[k] = job[k]
      /\ \A k \in FileSlots : job'[k].file = job[k].file
  BY <1>0, <1>4 DEF IInv, TypeOK
<1>6. \A k \in FileSlots : Active(k)' = Active(k)
  BY <1>5 DEF Active
<1> HIDE DEF r
<1>7. TypeOK'
  <2>1. batch' \in Seq(Slots)
    BY <1>3 DEF IInv, TypeOK
  <2>2. blk' \in [Slots -> BlockType] /\ scan' \in SUBSET Slots
    BY <1>1, <1>2 DEF IInv, TypeOK, BlockDone
  <2>3. job' \in [FileSlots -> JobType]
    BY <1>4 DEF IInv, TypeOK
  <2>4. settled' \in [Files -> SUBSET Nat]
    BY <1>0 DEF IInv, TypeOK, BlockDone, BlockType
  <2> QED
    BY <2>1, <2>2, <2>3, <2>4 DEF IInv, TypeOK, BlockDone, crawlVars, otherVars
<1>8. RequestsTracked'
  BY <1>0, <1>1, <1>2, <1>3, <1>6, OneSlotRequests DEF IInv, BlockDone
<1>9. BuffersExclusive'
  BY <1>0, <1>1, <1>2, OneSlotBuffers DEF IInv, BuffersExclusive, BlockDone, otherVars
<1>10. ScanInv'
  BY <1>2 DEF IInv, ScanInv, TypeOK, BlockDone
<1>11. FscanInv'
  BY <1>0 DEF IInv, FscanInv, BlockDone
<1>12. CountInv'
  <2>1. \A k \in FileSlots : k # i => InUse(k)' = InUse(k)
    BY <1>1, <1>2, OneSlotCount DEF IInv
  <2>2. job'[i].nScheduled = Cardinality(InUse(i))'
    BY <1>0, <1>1, <1>2, <1>4, <1>5, OneSlotCount DEF IInv
  <2>3. NextJobno(i)' <= NBlocks[job'[i].file]
    <3>1. NextJobno(i) <= NBlocks[x] /\ NBlocks[x] \in Nat
      BY <1>0, BlocksAssumption DEF IInv, CountInv
    <3>2. CASE MoreBlocks(i)
      <4>1. NextJobno(i) < NBlocks[x]
        BY <3>2 DEF MoreBlocks
      <4> QED
        BY <3>1, <3>2, <4>1, <1>0, <1>4, <1>5 DEF NextJobno, JobType
    <3>3. CASE ~MoreBlocks(i)
      BY <3>1, <3>3, <1>0, <1>4, <1>5 DEF NextJobno, JobType
    <3> QED
      BY <3>2, <3>3
  <2> QED
    BY <2>1, <2>2, <2>3, <1>5, <1>6 DEF IInv, CountInv, NextJobno
<1>13. JobnoInv'
  <2>1. /\ NextJobno(i) \in Nat
        /\ NextJobno(i)' = IF MoreBlocks(i) THEN NextJobno(i) + 1 ELSE NextJobno(i)
    BY <1>0, <1>4, <1>5 DEF NextJobno, JobType
  <2>2. \A k \in FileSlots : NextJobno(k) \in Nat /\ (k # i => NextJobno(k)' = NextJobno(k))
    BY <1>5 DEF NextJobno, IInv, TypeOK, JobType
  <2>3. \A k \in FileSlots : NextJobno(k) <= NextJobno(k)'
    BY <2>1, <2>2
  <2>4. r.inUse => r.jobno < NextJobno(i)'
    BY <1>1, <2>1
  <2> QED
    BY <1>1, <1>2, <1>7, <2>3, <2>4, OneSlotJobno DEF IInv
<1> QED
  BY <1>7, <1>8, <1>9, <1>10, <1>11, <1>12, <1>13 DEF IInv

LEMMA BlockFailedInv == ASSUME IInv, NEW s \in Slots, BlockFailed(s) PROVE IInv'
<1> DEFINE i == s[1]
<1>0. CanAdvance(s) /\ Visited(s)
  BY ScannedBlock DEF BlockFailed
<1> USE DEF Visited
<1>1. /\ FreeBlock \in BlockType
      /\ ~FreeBlock.inUse /\ FreeBlock.data = {}
  BY DEF FreeBlock, BlockType, Bytes
<1>2. blk' = [blk EXCEPT ![s] = FreeBlock]
  BY DEF BlockFailed, Cleared
<1>4. /\ job' \in [FileSlots -> JobType]
      /\ job'[i].nFinished = job[i].nFinished + 1
      /\ job'[i].nScheduled = job[i].nScheduled - 1
      /\ \A k \in FileSlots : k # i => job'[k] = job[k]
      /\ \A k \in FileSlots : job'[k].file = job[k].file
  <2>1. job[i] \in JobType /\ job[i].nScheduled >= 1 /\ i \in FileSlots
    BY <1>0
  <2>2. job' = [job EXCEPT ![i] = AfterFailure(i)]
    BY DEF BlockFailed
  <2> QED
    BY <2>1, <2>2, AfterFailureCounters DEF IInv, TypeOK
<1>6. \A k \in FileSlots : Active(k)' = Active(k)
  BY <1>4 DEF Active
<1>7. TypeOK'
  <2>2. blk' \in [Slots -> BlockType] /\ scan' \in SUBSET Slots
    BY <1>1, <1>2 DEF IInv, TypeOK, BlockFailed
  <2>4. settled' \in [Files -> SUBSET Nat]
    BY <1>0 DEF IInv, TypeOK, BlockFailed, BlockType
  <2> QED
    BY <1>4, <2>2, <2>4 DEF IInv, TypeOK, BlockFailed, crawlVars, otherVars
<1>8. RequestsTracked'
  BY <1>0, <1>1, <1>2, <1>6, OneSlotRequests DEF IInv, BlockFailed
<1>9. BuffersExclusive'
  BY <1>0, <1>1, <1>2, OneSlotBuffers DEF IInv, BuffersExclusive, BlockFailed, otherVars
<1>10. ScanInv'
  BY <1>2 DEF IInv, ScanInv, TypeOK, BlockFailed
<1>11. FscanInv'
  BY <1>0 DEF IInv, FscanInv, BlockFailed
<1>12. CountInv'
  <2>1. \A k \in FileSlots : k # i => InUse(k)' = InUse(k)
    BY <1>1, <1>2, OneSlotCount DEF IInv
  <2>2. job'[i].nScheduled = Cardinality(InUse(i))'
    BY <1>0, <1>1, <1>2, <1>4, OneSlotCount DEF IInv
  <2>3. NextJobno(i)' = NextJobno(i)
    BY <1>0, <1>4 DEF NextJobno, JobType
  <2> QED
    BY <2>1, <2>2, <2>3, <1>0, <1>4, <1>6 DEF IInv, CountInv, NextJobno
<1>13. JobnoInv'
  <2>1. NextJobno(i) \in Nat /\ NextJobno(i)' = NextJobno(i)
    BY <1>0, <1>4 DEF NextJobno, JobType
  <2>2. \A k \in FileSlots : NextJobno(k) \in Nat /\ (k # i => NextJobno(k)' = NextJobno(k))
    BY <1>4 DEF NextJobno, IInv, TypeOK, JobType
  <2>3. \A k \in FileSlots : NextJobno(k) <= NextJobno(k)'
    BY <2>1, <2>2
  <2> QED
    BY <1>1, <1>2, <1>7, <2>3, OneSlotJobno DEF IInv
<1> QED
  BY <1>7, <1>8, <1>9, <1>10, <1>11, <1>12, <1>13 DEF IInv

LEMMA UpdateEndInv == ASSUME IInv, UpdateEnd PROVE IInv'
<1>1. TypeOK'
  BY DEF IInv, TypeOK, UpdateEnd, crawlVars, otherVars
<1>2. RequestsTracked' /\ BuffersExclusive' /\ CountInv' /\ JobnoInv'
  BY DEF IInv, UpdateEnd, RequestsTracked, InFlight, Queue, Active, BuffersExclusive,
         CountInv, JobnoInv, InUse, NextJobno, otherVars
<1>3. ScanInv' /\ FscanInv'
  BY DEF IInv, UpdateEnd, ScanInv, FscanInv, Active
<1> QED
  BY <1>1, <1>2, <1>3 DEF IInv

----------------------------------------------------------------------------
(***************************************************************************)
(* The steps of the completion loop.                                       *)
(***************************************************************************)

\* A file whose blocks are all finished has no block in use.
LEMMA FinishedFileIdle ==
    ASSUME IInv, NEW i \in FileSlots, Active(i), AllBlocksFinished(i)
    PROVE  InUse(i) = {}
<1>1. /\ job[i] \in JobType /\ job[i].file \in Files
      /\ NBlocks[job[i].file] \in Nat
  BY BlocksAssumption DEF IInv, TypeOK, JobType, Active
<1>2. /\ job[i].nScheduled = Cardinality(InUse(i))
      /\ job[i].nScheduled + job[i].nFinished <= NBlocks[job[i].file]
      /\ job[i].nFinished >= NBlocks[job[i].file]
  BY DEF IInv, CountInv, NextJobno, AllBlocksFinished
<1>3. job[i].nScheduled = 0
  BY <1>1, <1>2 DEF JobType
<1> QED
  BY <1>2, <1>3, InUseFinite, FS_EmptySet

LEMMA CompleteFileInv == ASSUME IInv, NEW i \in FileSlots, CompleteFile(i) PROVE IInv'
<1>1. /\ i \in fscan /\ pc = "complete" /\ Active(i) /\ AllBlocksFinished(i)
      /\ scan = {}
  BY DEF CompleteFile, IsFirst, IInv, FscanInv, ScanInv
<1>2. job[i] \in JobType /\ job[i].file \in Files
  BY <1>1 DEF IInv, TypeOK, JobType, Active
<1>3. \A s \in Slots : s[1] = i => ~blk[s].inUse
  <2> SUFFICES ASSUME NEW s \in Slots, s[1] = i, blk[s].inUse PROVE FALSE
    BY DEF IInv, TypeOK, BlockType
  <2>1. s = <<i, s[2]>> /\ s[2] \in BlockSlots
    BY DEF Slots
  <2>2. s[2] \in InUse(i)
    BY <2>1 DEF InUse
  <2> QED
    BY <2>2, <1>1, FinishedFileIdle
<1>4. blk' = blk
  BY <1>3 DEF CompleteFile, IInv, TypeOK
<1>5. /\ IdleJob \in JobType
      /\ job' = [job EXCEPT ![i] = IdleJob]
      /\ job'[i] = IdleJob
      /\ \A k \in FileSlots : k # i => job'[k] = job[k]
  BY DEF CompleteFile, ClearedJob, IInv, TypeOK, JobType, IdleJob
<1>6. TypeOK'
  <2>1. job' \in [FileSlots -> JobType]
    BY <1>5 DEF IInv, TypeOK
  <2>2. [file |-> job[i].file, nErrors |-> job[i].nErrors] \in [file : Files, nErrors : Nat]
    BY <1>2 DEF JobType
  <2>3. finished' \subseteq [file : Files, nErrors : Nat]
    BY <2>2 DEF IInv, TypeOK, CompleteFile
  <2> QED
    BY <1>4, <2>1, <2>3 DEF IInv, TypeOK, CompleteFile, crawlVars, otherVars
<1>7. RequestsTracked'
  <2>1. \A s \in Slots : blk'[s].inUse => Active(s[1])'
    <3> SUFFICES ASSUME NEW s \in Slots, blk[s].inUse PROVE Active(s[1])'
      BY <1>4
    <3>1. s[1] \in FileSlots /\ s[1] # i /\ Active(s[1])
      BY <1>3 DEF Slots, IInv, RequestsTracked
    <3> QED
      BY <3>1, <1>5 DEF Active
  <2> QED
    BY <2>1, <1>4 DEF IInv, RequestsTracked, InFlight, Queue, CompleteFile
<1>8. BuffersExclusive'
  BY <1>4 DEF IInv, BuffersExclusive, CompleteFile, otherVars
<1>9. ScanInv'
  BY <1>1, <1>4 DEF ScanInv, CompleteFile
<1>10. FscanInv'
  BY <1>1, <1>5 DEF IInv, FscanInv, CompleteFile, Active, TypeOK
<1>11. CountInv'
  <2>1. \A k \in FileSlots : InUse(k)' = InUse(k)
    BY <1>4 DEF InUse
  <2>2. InUse(i) = {} /\ Cardinality({}) = 0
    BY <1>1, FinishedFileIdle, FS_EmptySet
  <2>3. ~Active(i)' /\ job'[i].nScheduled = 0
    BY <1>5 DEF Active, IdleJob
  <2>4. \A k \in FileSlots : k # i => NextJobno(k)' = NextJobno(k) /\ Active(k)' = Active(k)
    BY <1>5 DEF NextJobno, Active
  <2> QED
    BY <2>1, <2>2, <2>3, <2>4, <1>5 DEF IInv, CountInv
<1>12. JobnoInv'
  <2> SUFFICES ASSUME NEW s \in Slots, blk[s].inUse
               PROVE  blk[s].jobno < NextJobno(s[1])'
    BY <1>4 DEF JobnoInv
  <2>1. s[1] # i /\ s[1] \in FileSlots
    BY <1>3 DEF Slots
  <2> QED
    BY <2>1, <1>5 DEF NextJobno, IInv, JobnoInv
<1> QED
  BY <1>6, <1>7, <1>8, <1>9, <1>10, <1>11, <1>12 DEF IInv

LEMMA StartBlockInv == ASSUME IInv, NEW i \in FileSlots, StartBlock(i) PROVE IInv'
<1>1. i \in fscan /\ pc = "complete" /\ Active(i) /\ MoreBlocks(i) /\ scan = {}
  BY DEF StartBlock, IsFirst, IInv, FscanInv, ScanInv
<1>2. /\ job[i] \in JobType /\ job[i].file \in Files
      /\ NextJobno(i) \in Nat /\ NBlocks[job[i].file] \in Nat
  BY <1>1, BlocksAssumption DEF IInv, TypeOK, JobType, Active, NextJobno
<1>3. PICK j \in BlockSlots, b \in Available(job[i].file) :
          /\ IsFirst(j, BlockSlots \ InUse(i))
          /\ blk' = [blk EXCEPT ![<<i, j>>] = ReadBlock(NextJobno(i), b)]
          /\ batch' = Append(batch, <<i, j>>)
  BY DEF StartBlock
<1> DEFINE s == <<i, j>>
           r == ReadBlock(NextJobno(i), b)
<1>4. s \in Slots /\ s[1] = i /\ ~blk[s].inUse
  BY <1>3 DEF Slots, IsFirst, InUse
<1>5. b \in (SUBSET Chunks) \ {{}} /\ b \subseteq FreeChunks
  BY <1>2, BuffersAssumption DEF Available
<1>6. /\ r \in BlockType /\ r.inUse /\ r.data = b /\ r.status = "pending" /\ r.data # {}
      /\ r.jobno = NextJobno(i)
  BY <1>2, <1>5 DEF ReadBlock, BlockType, Bytes
<1>7. s \notin InFlight
  BY <1>4 DEF IInv, RequestsTracked
<1>8. blk' = [blk EXCEPT ![s] = r] /\ batch' = Append(batch, s)
  BY <1>3
<1>9. /\ job' = [job EXCEPT ![i] = AfterStart(i)]
      /\ AfterStart(i) \in JobType
      /\ AfterStart(i).file = job[i].file
      /\ AfterStart(i).nFinished = job[i].nFinished
      /\ AfterStart(i).nScheduled = job[i].nScheduled + 1
  BY <1>2, AfterStartCounters DEF StartBlock
<1>10. /\ job' \in [FileSlots -> JobType]
       /\ job'[i] = AfterStart(i)
       /\ \A k \in FileSlots : k # i => job'[k] = job[k]
       /\ \A k \in FileSlots : Active(k)' = Active(k)
  BY <1>9 DEF IInv, TypeOK, Active
<1> HIDE DEF r, s
<1>11. TypeOK'
  <2>1. batch \in Seq(Slots) /\ blk \in [Slots -> BlockType]
    BY DEF IInv, TypeOK
  <2>2. batch' \in Seq(Slots)
    BY <2>1, <1>4, <1>8
  <2>3. blk' \in [Slots -> BlockType]
    BY <2>1, <1>6, <1>8
  <2> QED
    BY <2>2, <2>3, <1>10 DEF IInv, TypeOK, StartBlock, crawlVars, otherVars
<1>12. RequestsTracked'
  BY <1>1, <1>4, <1>6, <1>7, <1>8, <1>10, OneSlotRequests DEF IInv, StartBlock
<1>13. BuffersExclusive'
  BY <1>4, <1>5, <1>6, <1>8, OneSlotBuffers DEF IInv, StartBlock, otherVars
<1>14. ScanInv'
  BY <1>1 DEF ScanInv, StartBlock
<1>15. FscanInv'
  BY <1>10 DEF IInv, FscanInv, StartBlock, TypeOK
<1>16. CountInv'
  <2>1. \A k \in FileSlots : k # i => InUse(k)' = InUse(k)
    BY <1>4, <1>6, <1>8, OneSlotCount DEF IInv
  <2>2. Cardinality(InUse(i))' = Cardinality(InUse(i)) + 1
    BY <1>4, <1>6, <1>8, OneSlotCount DEF IInv
  <2>3. job'[i].nScheduled = Cardinality(InUse(i))'
    BY <2>2, <1>9, <1>10 DEF IInv, CountInv
  <2>4. NextJobno(i)' <= NBlocks[job'[i].file]
    BY <1>1, <1>2, <1>9, <1>10 DEF NextJobno, MoreBlocks, JobType
  <2> QED
    BY <2>1, <2>3, <2>4, <1>10 DEF IInv, CountInv, NextJobno
<1>17. JobnoInv'
  <2>1. NextJobno(i)' = NextJobno(i) + 1
    BY <1>2, <1>9, <1>10 DEF NextJobno, JobType
  <2>2. \A k \in FileSlots : NextJobno(k) \in Nat /\ (k # i => NextJobno(k)' = NextJobno(k))
    BY <1>10 DEF NextJobno, IInv, TypeOK, JobType
  <2>3. \A k \in FileSlots : NextJobno(k) <= NextJobno(k)'
    BY <2>1, <2>2
  <2>4. r.jobno < NextJobno(s[1])'
    BY <1>4, <1>6, <2>1, <2>2
  <2> QED
    BY <1>4, <1>6, <1>8, <1>11, <2>3, <2>4, OneSlotJobno DEF IInv
<1> QED
  BY <1>11, <1>12, <1>13, <1>14, <1>15, <1>16, <1>17 DEF IInv

\* Steps that move the thread from one loop to the next, or that belong to the
\* crawler or the other threads, leave its slots, requests and counters alone.
LEMMA ControlStep ==
    ASSUME IInv, TypeOK', ScanInv', FscanInv',
           UNCHANGED <<job, blk, batch, kernel>>,
           others' = others \/ \A s \in Slots : blk[s].data \cap others' = {}
    PROVE  IInv'
<1>1. RequestsTracked' /\ CountInv' /\ JobnoInv'
  BY DEF IInv, RequestsTracked, InFlight, Queue, Active, CountInv, JobnoInv, InUse, NextJobno
<1>2. BuffersExclusive'
  BY DEF IInv, BuffersExclusive
<1> QED
  BY <1>1, <1>2 DEF IInv

LEMMA StartNothingInv == ASSUME IInv, NEW i \in FileSlots, StartNothing(i) PROVE IInv'
<1>1. TypeOK'
  BY DEF IInv, TypeOK, StartNothing, crawlVars, otherVars
<1>2. ScanInv' /\ FscanInv'
  BY DEF IInv, ScanInv, FscanInv, Active, StartNothing, IsFirst, TypeOK
<1> QED
  BY <1>1, <1>2, ControlStep DEF StartNothing, otherVars

LEMMA CompleteEndInv == ASSUME IInv, CompleteEnd PROVE IInv'
<1>1. TypeOK'
  BY DEF IInv, TypeOK, CompleteEnd, crawlVars, otherVars
<1>2. ScanInv' /\ FscanInv'
  BY DEF IInv, ScanInv, FscanInv, CompleteEnd
<1> QED
  BY <1>1, <1>2, ControlStep DEF CompleteEnd, otherVars

----------------------------------------------------------------------------
(***************************************************************************)
(* The steps of the filling loop and the exit test.                        *)
(***************************************************************************)

\* A new job goes to an idle slot, which has no block in use.
LEMMA TakeJobInv ==
    ASSUME IInv, NEW i \in FileSlots, NEW x \in Files, TakeJob(i, x) PROVE IInv'
<1> DEFINE g == [IdleJob EXCEPT !.file = x]
<1>1. pc = "fill" /\ ~Active(i) /\ scan = {} /\ fscan = {}
  BY DEF TakeJob, IsFirst, IdleSlots, IInv, ScanInv, FscanInv
<1>2. /\ g \in JobType /\ g.file = x /\ g.nScheduled = 0 /\ g.nFinished = 0
      /\ job' = [job EXCEPT ![i] = g]
  BY DEF TakeJob, IdleJob, JobType
<1> HIDE DEF g
<1>3. /\ job' \in [FileSlots -> JobType]
      /\ job'[i] = g
      /\ \A k \in FileSlots : k # i => job'[k] = job[k]
  BY <1>2 DEF IInv, TypeOK
<1>4. \A k \in FileSlots : Active(k) => Active(k)'
  BY <1>1, <1>3 DEF Active
<1>5. UNCHANGED <<pc, scan, fscan, blk, batch, kernel, others>>
  BY DEF TakeJob, threadVars, otherVars
<1>6. TypeOK'
  BY <1>3 DEF IInv, TypeOK, TakeJob, threadVars, otherVars
<1>7. RequestsTracked'
  <2>1. \A s \in Slots : s[1] \in FileSlots
    BY DEF Slots
  <2> QED
    BY <2>1, <1>4, <1>5 DEF IInv, RequestsTracked, InFlight, Queue
<1>8. BuffersExclusive'
  BY <1>5 DEF IInv, BuffersExclusive
<1>9. ScanInv' /\ FscanInv'
  BY <1>1, <1>5 DEF ScanInv, FscanInv
<1>10. CountInv'
  <2>1. \A k \in FileSlots : InUse(k)' = InUse(k)
    BY <1>5 DEF InUse
  <2>2. InUse(i) = {}
    <3>1. \A j \in BlockSlots : <<i, j>> \in Slots /\ <<i, j>>[1] = i
      BY DEF Slots
    <3> QED
      BY <3>1, <1>1 DEF InUse, IInv, RequestsTracked
  <2>3. /\ job'[i].nScheduled = Cardinality(InUse(i))'
        /\ NextJobno(i)' <= NBlocks[job'[i].file]
    BY <2>1, <2>2, <1>2, <1>3, FS_EmptySet, BlocksAssumption DEF NextJobno
  <2>4. \A k \in FileSlots : k # i => NextJobno(k)' = NextJobno(k) /\ Active(k)' = Active(k)
    BY <1>3 DEF NextJobno, Active
  <2> QED
    BY <2>1, <2>3, <2>4, <1>3 DEF IInv, CountInv
<1>11. JobnoInv'
  <2> SUFFICES ASSUME NEW s \in Slots, blk[s].inUse
               PROVE  blk[s].jobno < NextJobno(s[1])'
    BY <1>5 DEF JobnoInv
  <2>1. s[1] # i /\ s[1] \in FileSlots
    BY <1>1 DEF Slots, IInv, RequestsTracked
  <2> QED
    BY <2>1, <1>3 DEF NextJobno, IInv, JobnoInv
<1> QED
  BY <1>6, <1>7, <1>8, <1>9, <1>10, <1>11 DEF IInv

LEMMA FillEndInv == ASSUME IInv, FillEnd PROVE IInv'
<1>1. TypeOK'
  BY DEF IInv, TypeOK, FillEnd, crawlVars, otherVars
<1>2. ScanInv' /\ FscanInv'
  BY DEF IInv, ScanInv, FscanInv, FillEnd
<1> QED
  BY <1>1, <1>2, ControlStep DEF FillEnd, otherVars

LEMMA ExitTestInv == ASSUME IInv, ExitTest PROVE IInv'
<1>1. TypeOK'
  BY DEF IInv, TypeOK, ExitTest, crawlVars, otherVars
<1>2. ScanInv' /\ FscanInv'
  BY DEF IInv, ScanInv, FscanInv, ExitTest
<1> QED
  BY <1>1, <1>2, ControlStep DEF ExitTest, otherVars

----------------------------------------------------------------------------
(***************************************************************************)
(* The steps of schedulerTick.                                             *)
(***************************************************************************)

\* An accepted prefix of the batch moves to the kernel, and the rest stays.
LEMMA SubmitSomeInv == ASSUME IInv, SubmitSome PROVE IInv'
<1>0. /\ batch \in Seq(Slots) /\ Len(batch) \in Nat
      /\ batch \in [1 .. Len(batch) -> Slots]
      /\ scan = {} /\ fscan = {}
  BY DEF IInv, TypeOK, ScanInv, FscanInv, SubmitSome
<1>1. PICK n \in 1 .. Len(batch) :
          /\ kernel' = kernel \cup {batch[m] : m \in 1 .. n}
          /\ batch' = [m \in 1 .. Len(batch) - n |-> batch[m + n]]
  BY DEF SubmitSome, RestOfBatch
<1>2. /\ Len(batch) - n \in Nat
      /\ \A m \in 1 .. Len(batch) - n : m + n \in 1 .. Len(batch) /\ batch[m + n] \in Slots
  BY <1>0
<1>3. batch' \in Seq(Slots) /\ Len(batch') = Len(batch) - n
  <2> DEFINE L == Len(batch) - n
  <2>1. L \in Nat /\ batch' \in [1 .. L -> Slots]
    BY <1>1, <1>2
  <2> HIDE DEF L
  <2>2. batch' \in Seq(Slots) /\ Len(batch') = L
    BY <2>1
  <2> QED
    BY <2>2 DEF L
<1>4. \A m \in 1 .. Len(batch) - n : batch'[m] = batch[m + n]
  BY <1>1
<1>5. Queue' = {batch[m + n] : m \in 1 .. Len(batch) - n}
  BY <1>3, <1>4 DEF Queue
<1>6. TypeOK'
  <2>1. kernel' \in SUBSET Slots
    BY <1>0, <1>1 DEF IInv, TypeOK
  <2> QED
    BY <2>1, <1>3 DEF IInv, TypeOK, SubmitSome, crawlVars, otherVars
<1>7. RequestsTracked'
  <2>1. \A m, k \in 1 .. Len(batch') : m # k => batch'[m] # batch'[k]
    BY <1>0, <1>2, <1>3, <1>4 DEF IInv, RequestsTracked
  <2>2. Queue' \cap kernel' = {}
    <3> SUFFICES ASSUME NEW m \in 1 .. Len(batch) - n, batch[m + n] \in kernel'
                 PROVE  FALSE
      BY <1>5
    <3>1. m + n \in 1 .. Len(batch) /\ batch[m + n] \in Queue
      BY <1>2 DEF Queue
    <3>2. batch[m + n] \notin kernel
      BY <3>1 DEF IInv, RequestsTracked
    <3>3. PICK k \in 1 .. n : batch[k] = batch[m + n]
      BY <3>2, <1>1
    <3>4. k \in 1 .. Len(batch) /\ k # m + n
      BY <1>0
    <3> QED
      BY <3>1, <3>3, <3>4 DEF IInv, RequestsTracked
  <2>3. InFlight' = InFlight
    <3>1. InFlight' = {batch[m + n] : m \in 1 .. Len(batch) - n}
                        \cup kernel \cup {batch[m] : m \in 1 .. n}
      BY <1>1, <1>5 DEF InFlight
    <3>2. \A m \in 1 .. Len(batch) : m \in 1 .. n \/ \E k \in 1 .. Len(batch) - n : m = k + n
      <4> TAKE m \in 1 .. Len(batch)
      <4>1. CASE m > n
        <5>1. m - n \in 1 .. Len(batch) - n /\ m = (m - n) + n
          BY <4>1, <1>0
        <5> QED
          BY <5>1
      <4>2. CASE m <= n
        BY <4>2, <1>0
      <4> QED
        BY <4>1, <4>2, <1>0
    <3>3. Queue \subseteq {batch[m + n] : m \in 1 .. Len(batch) - n}
                            \cup {batch[m] : m \in 1 .. n}
      BY <3>2 DEF Queue
    <3>4. {batch[m + n] : m \in 1 .. Len(batch) - n} \subseteq Queue
      BY <1>2 DEF Queue
    <3>5. {batch[m] : m \in 1 .. n} \subseteq Queue
      BY <1>0 DEF Queue
    <3> QED
      BY <3>1, <3>3, <3>4, <3>5 DEF InFlight
  <2>4. \A s \in Slots : blk'[s].inUse => Active(s[1])'
    BY DEF IInv, RequestsTracked, SubmitSome, Active
  <2>5. InFlight' = {s \in Slots : blk'[s].inUse /\ blk'[s].status = "pending"}
    BY <2>3 DEF IInv, RequestsTracked, SubmitSome
  <2> QED
    BY <2>1, <2>2, <2>4, <2>5 DEF RequestsTracked
<1>8. BuffersExclusive' /\ CountInv' /\ JobnoInv'
  BY DEF IInv, BuffersExclusive, CountInv, JobnoInv, InUse, Active, NextJobno, SubmitSome, otherVars
<1>9. ScanInv' /\ FscanInv'
  BY <1>0 DEF SubmitSome, ScanInv, FscanInv
<1> QED
  BY <1>6, <1>7, <1>8, <1>9 DEF IInv

LEMMA SubmitNoneInv == ASSUME IInv, SubmitNone PROVE IInv'
<1>1. TypeOK'
  BY DEF IInv, TypeOK, SubmitNone, crawlVars, otherVars
<1>2. ScanInv' /\ FscanInv'
  BY DEF IInv, ScanInv, FscanInv, SubmitNone
<1> QED
  BY <1>1, <1>2, ControlStep DEF SubmitNone, otherVars

\* The blocks of a rejected batch are in use, so no counter falls below zero,
\* and clearing them takes away just as many blocks in use.
LEMMA FailedBatch ==
    ASSUME IInv, SubmitFail
    PROVE  /\ Queue \subseteq Slots
           /\ \A s \in Queue : blk[s].inUse /\ blk[s].status = "pending" /\ s \notin kernel
           /\ \A s \in Slots : blk'[s] = IF s \in Queue THEN FreeBlock ELSE blk[s]
           /\ \A i \in FileSlots : /\ Cardinality(Batched(i)) \in Nat
                                   /\ Cardinality(InUse(i)') = job'[i].nScheduled
                                   /\ job'[i] \in JobType
                                   /\ job'[i].file = job[i].file
                                   /\ NextJobno(i)' = NextJobno(i)
<1>1. \A s \in Slots : blk'[s] = IF s \in Queue THEN FreeBlock ELSE blk[s]
  BY DEF SubmitFail, Cleared
<1>2. /\ Queue \subseteq Slots
      /\ \A s \in Queue : blk[s].inUse /\ blk[s].status = "pending" /\ s \notin kernel
  BY DEF IInv, RequestsTracked, InFlight
<1>3. ~FreeBlock.inUse
  BY DEF FreeBlock
<1>4. ASSUME NEW i \in FileSlots
      PROVE  /\ Batched(i) \subseteq InUse(i)
             /\ InUse(i)' = InUse(i) \ Batched(i)
             /\ Cardinality(Batched(i)) \in Nat
             /\ Cardinality(Batched(i)) <= job[i].nScheduled
             /\ Cardinality(InUse(i)') = job[i].nScheduled - Cardinality(Batched(i))
  <2>0. \A j \in BlockSlots : <<i, j>> \in Slots
    BY DEF Slots
  <2>1. Batched(i) \subseteq InUse(i)
    BY <1>2 DEF Batched, InUse
  <2>2. \A j \in BlockSlots : j \in InUse(i)' <=> (j \in InUse(i) /\ j \notin Batched(i))
    BY <2>0, <1>1, <1>3 DEF Batched, InUse
  <2>3. InUse(i)' = InUse(i) \ Batched(i)
    <3>1. InUse(i)' \subseteq BlockSlots /\ InUse(i) \subseteq BlockSlots
      BY DEF InUse
    <3> QED
      BY <2>2, <3>1
  <2>4. IsFiniteSet(InUse(i)) /\ Cardinality(InUse(i)) \in Nat
    BY InUseFinite
  <2>5. IsFiniteSet(Batched(i)) /\ Cardinality(Batched(i)) <= Cardinality(InUse(i))
    BY <2>1, <2>4, FS_Subset
  <2>6. Cardinality(Batched(i)) \in Nat
    BY <2>5, FS_CardinalityType
  <2>7. Cardinality(InUse(i) \ Batched(i)) = Cardinality(InUse(i)) - Cardinality(Batched(i))
    <3>1. InUse(i) \cap Batched(i) = Batched(i)
      BY <2>1
    <3>2. Cardinality(InUse(i) \ Batched(i))
            = Cardinality(InUse(i)) - Cardinality(InUse(i) \cap Batched(i))
      BY <2>4, FS_Difference
    <3> QED
      BY <3>1, <3>2
  <2>8. job[i].nScheduled = Cardinality(InUse(i))
    BY DEF IInv, CountInv
  <2> QED
    BY <2>1, <2>3, <2>5, <2>6, <2>7, <2>8
<1>5. \A i \in FileSlots : job[i] \in JobType
  BY DEF IInv, TypeOK
<1>6. \A i \in FileSlots :
          /\ job'[i] \in JobType
          /\ job'[i].file = job[i].file
          /\ job'[i].nFinished = job[i].nFinished + Cardinality(Batched(i))
          /\ job'[i].nScheduled = job[i].nScheduled - Cardinality(Batched(i))
  <2> TAKE i \in FileSlots
  <2>1. job'[i] = AfterSubmitFailure(i)
    BY DEF SubmitFail
  <2> QED
    BY <2>1, <1>4, <1>5, AfterSubmitFailureCounters
<1>7. \A i \in FileSlots : NextJobno(i)' = NextJobno(i)
  BY <1>4, <1>5, <1>6 DEF NextJobno, JobType
<1> QED
  BY <1>1, <1>2, <1>4, <1>6, <1>7

LEMMA SubmitFailInv == ASSUME IInv, SubmitFail PROVE IInv'
<1>0. /\ scan = {} /\ fscan = {}
      /\ pc' = "update" /\ fscan' = fscan /\ scan' = Ready /\ batch' = << >>
      /\ kernel' = kernel /\ others' = others
  BY DEF IInv, ScanInv, FscanInv, SubmitFail, otherVars
<1>1. \A s \in Slots : blk'[s] = IF s \in Queue THEN FreeBlock ELSE blk[s]
  BY FailedBatch
<1>2. /\ Queue \subseteq Slots
      /\ \A s \in Queue : blk[s].inUse /\ blk[s].status = "pending" /\ s \notin kernel
  BY FailedBatch
<1>3. /\ FreeBlock \in BlockType /\ ~FreeBlock.inUse /\ FreeBlock.data = {}
      /\ FreeBlock.status = "ok"
  BY DEF FreeBlock, BlockType, Bytes
<1>6. \A i \in FileSlots : /\ job'[i] \in JobType
                            /\ job'[i].file = job[i].file
                            /\ Cardinality(InUse(i)') = job'[i].nScheduled
  BY FailedBatch
<1>7. \A i \in FileSlots : Active(i)' = Active(i) /\ NextJobno(i)' = NextJobno(i)
  BY <1>6, FailedBatch DEF Active
<1>8. TypeOK'
  <2>1. job' \in [FileSlots -> JobType]
    BY <1>6 DEF SubmitFail
  <2>2. blk' \in [Slots -> BlockType]
    BY <1>1, <1>3 DEF SubmitFail, IInv, TypeOK
  <2>3. settled' \in [Files -> SUBSET Nat]
    <3>1. \A s \in Queue : blk[s].jobno \in Nat
      BY <1>2 DEF IInv, TypeOK, BlockType
    <3> QED
      BY <3>1 DEF IInv, TypeOK, SubmitFail
  <2>4. Ready \in SUBSET Slots
    BY DEF Ready
  <2> QED
    BY <2>1, <2>2, <2>3, <2>4, <1>0 DEF IInv, TypeOK, SubmitFail, crawlVars, otherVars
<1>9. RequestsTracked'
  <2>1. Queue' = {}
    BY <1>0 DEF Queue
  <2>2. InFlight' = kernel
    BY <2>1, <1>0 DEF InFlight
  <2>3. kernel = {s \in Slots : blk'[s].inUse /\ blk'[s].status = "pending"}
    BY <1>1, <1>2, <1>3 DEF IInv, RequestsTracked, InFlight
  <2>4. \A s \in Slots : blk'[s].inUse => Active(s[1])'
    BY <1>1, <1>3, <1>7 DEF IInv, RequestsTracked, Slots
  <2> QED
    BY <2>1, <2>2, <2>3, <2>4, <1>0 DEF RequestsTracked
<1>10. BuffersExclusive'
  BY <1>0, <1>1, <1>3 DEF IInv, BuffersExclusive
<1>11. ScanInv'
  BY <1>0, <1>1, <1>2 DEF ScanInv, Ready
<1>12. FscanInv'
  BY <1>0 DEF FscanInv
<1>13. CountInv'
  BY <1>6, <1>7 DEF IInv, CountInv
<1>14. JobnoInv'
  BY <1>1, <1>3, <1>7 DEF IInv, JobnoInv, Slots
<1> QED
  BY <1>8, <1>9, <1>10, <1>11, <1>12, <1>13, <1>14 DEF IInv

\* A reaped request leaves the kernel and its block is answered.
LEMMA ReapInv == ASSUME IInv, NEW s \in Slots, NEW res \in Results, Reap(s, res) PROVE IInv'
<1> DEFINE r == blk'[s]
<1>1. /\ s \in kernel /\ pc = "reap" /\ scan = {} /\ fscan = {}
      /\ blk[s] \in BlockType /\ blk[s].inUse /\ blk[s].status = "pending"
      /\ s[1] \in FileSlots /\ Active(s[1])
  BY DEF Reap, IInv, TypeOK, ScanInv, FscanInv, RequestsTracked, InFlight, Slots
<1>2. FileAt(s) \in Files /\ blk[s].jobno \in Nat /\ <<FileAt(s), blk[s].jobno>> \in BlockIds
  <2>1. job[s[1]].file \in Files /\ blk[s].jobno \in Nat /\ NextJobno(s[1]) \in Nat
    BY <1>1 DEF IInv, TypeOK, JobType, BlockType, Active, NextJobno
  <2>2. NBlocks[job[s[1]].file] \in Nat
    BY <2>1, BlocksAssumption
  <2>3. /\ blk[s].jobno < NextJobno(s[1])
        /\ NextJobno(s[1]) <= NBlocks[job[s[1]].file]
    BY <1>1 DEF IInv, JobnoInv, CountInv
  <2>4. blk[s].jobno \in 0 .. NBlocks[job[s[1]].file] - 1
    BY <2>1, <2>2, <2>3
  <2> QED
    BY <2>1, <2>4 DEF FileAt, BlockIds
<1>3. \A x \in Files, k \in Nat : Source(x, k) \in Bytes
  BY DEF Source, Bytes
<1>4. /\ r \in BlockType /\ r.inUse /\ r.data = blk[s].data /\ r.status # "pending"
      /\ r.jobno = blk[s].jobno
      /\ blk' = [blk EXCEPT ![s] = r]
  <2> DEFINE x == FileAt(s)
             k == blk[s].jobno
             y == CASE res = "ok" /\ blk[s].type = "READ" -> Source(x, k)
                    [] res = "ok" /\ blk[s].type = "READDST" -> dst[<<x, k>>]
                    [] OTHER -> blk[s].bytes
             st == IF res = "err" THEN "err" ELSE "ok"
  <2>1. blk' = [blk EXCEPT ![s] = [blk[s] EXCEPT !.status = st, !.bytes = y]]
    BY DEF Reap
  <2>2. y \in Bytes
    <3>1. blk[s].bytes \in Bytes /\ k \in Nat
      BY <1>1 DEF BlockType
    <3>2. CASE res = "ok" /\ blk[s].type = "READ"
      BY <3>1, <3>2, <1>2, <1>3
    <3>3. CASE res = "ok" /\ blk[s].type = "READDST"
      BY <3>1, <3>3, <1>2 DEF IInv, TypeOK
    <3>4. CASE ~(res = "ok" /\ blk[s].type = "READ") /\ ~(res = "ok" /\ blk[s].type = "READDST")
      BY <3>1, <3>4
    <3> QED
      BY <3>2, <3>3, <3>4
  <2>3. st \in {"ok", "err"}
    OBVIOUS
  <2> HIDE DEF y, st
  <2>4. r = [blk[s] EXCEPT !.status = st, !.bytes = y]
    BY <2>1 DEF IInv, TypeOK
  <2>5. blk' = [blk EXCEPT ![s] = r]
    BY <2>1, <2>4
  <2> HIDE DEF r
  <2>6. /\ r \in BlockType /\ r.inUse /\ r.data = blk[s].data
        /\ r.status = st /\ r.jobno = blk[s].jobno
    BY <2>2, <2>3, <2>4, <1>1 DEF BlockType
  <2> QED
    BY <2>3, <2>5, <2>6
<1> HIDE DEF r
<1>5. UNCHANGED <<pc, scan, fscan, job, batch, others>> /\ kernel' = kernel \ {s}
  BY DEF Reap, threadVars, otherVars
<1>6. TypeOK'
  <2>1. dst' \in [BlockIds -> Bytes]
    BY <1>1 DEF Reap, IInv, TypeOK, BlockType, Bytes
  <2>2. lost' \in SUBSET Files /\ kernel' \in SUBSET Slots
    BY <1>2, <1>5 DEF Reap, IInv, TypeOK
  <2>3. blk' \in [Slots -> BlockType]
    BY <1>4 DEF IInv, TypeOK
  <2> QED
    BY <2>1, <2>2, <2>3, <1>5 DEF IInv, TypeOK, Reap, crawlVars, otherVars
<1>7. RequestsTracked'
  <2>1. Queue' = Queue /\ s \notin Queue
    BY <1>1, <1>5 DEF Queue, IInv, RequestsTracked
  <2>2. InFlight' = InFlight \ {s}
    BY <2>1, <1>5 DEF InFlight
  <2>3. \A t \in Slots : blk'[t] = IF t = s THEN r ELSE blk[t]
    BY <1>4 DEF IInv, TypeOK
  <2>4. InFlight' = {t \in Slots : blk'[t].inUse /\ blk'[t].status = "pending"}
    BY <2>2, <2>3, <1>4 DEF IInv, RequestsTracked
  <2>5. \A t \in Slots : blk'[t].inUse => Active(t[1])'
    BY <2>3, <1>1, <1>5 DEF IInv, RequestsTracked, Active
  <2> QED
    BY <2>1, <2>4, <2>5, <1>5 DEF IInv, RequestsTracked
<1>8. BuffersExclusive'
  BY <1>1, <1>4, <1>5, OneSlotBuffers DEF IInv, BuffersExclusive
<1>9. ScanInv' /\ FscanInv'
  BY <1>1, <1>5 DEF ScanInv, FscanInv
<1>10. CountInv'
  <2>1. \A i \in FileSlots : InUse(i)' = InUse(i)
    BY <1>1, <1>4, OneSlotCount DEF IInv
  <2> QED
    BY <2>1, <1>5 DEF IInv, CountInv, Active, NextJobno
<1>11. JobnoInv'
  <2>1. \A i \in FileSlots : NextJobno(i) <= NextJobno(i)'
    <3>1. \A i \in FileSlots : job[i] \in JobType /\ job' = job
      BY <1>5 DEF IInv, TypeOK
    <3> QED
      BY <3>1 DEF JobType, NextJobno
  <2>2. r.jobno < NextJobno(s[1])'
    <3>1. blk[s].jobno < NextJobno(s[1])
      BY <1>1 DEF IInv, JobnoInv
    <3>2. NextJobno(s[1])' = NextJobno(s[1])
      BY <1>5 DEF NextJobno
    <3> QED
      BY <3>1, <3>2, <1>4
  <2> QED
    BY <1>4, <1>6, <2>1, <2>2, OneSlotJobno DEF IInv
<1> QED
  BY <1>6, <1>7, <1>8, <1>9, <1>10, <1>11 DEF IInv

LEMMA ReapEndInv == ASSUME IInv, ReapEnd PROVE IInv'
<1>1. TypeOK'
  BY DEF IInv, TypeOK, ReapEnd, Ready, crawlVars, otherVars
<1>2. ScanInv' /\ FscanInv'
  BY DEF IInv, ScanInv, FscanInv, ReapEnd, Ready
<1> QED
  BY <1>1, <1>2, ControlStep DEF ReapEnd, otherVars

----------------------------------------------------------------------------
(***************************************************************************)
(* The steps of the crawler and of the other transfer threads.             *)
(***************************************************************************)

LEMMA CrawlerInv == ASSUME IInv, Crawler PROVE IInv'
<1>1. UNCHANGED <<threadVars, job, blk, batch, kernel, otherVars, dst, finished, settled, lost>>
  BY DEF Crawler, Enqueue, CrawlEnd
<1>2. crawl' \in SUBSET Files /\ queued' \in SUBSET Files /\ crawlDone' \in BOOLEAN
  BY DEF IInv, TypeOK, Crawler, Enqueue, CrawlEnd
<1>3. TypeOK'
  BY <1>1, <1>2 DEF IInv, TypeOK, threadVars, otherVars
<1>4. ScanInv' /\ FscanInv'
  BY <1>1 DEF IInv, ScanInv, FscanInv, Active, threadVars
<1> QED
  BY <1>1, <1>3, <1>4, ControlStep DEF otherVars

LEMMA OthersInv == ASSUME IInv, Others PROVE IInv'
<1>1. UNCHANGED <<threadVars, job, blk, batch, kernel, crawlVars, dst, finished, settled, lost>>
  BY DEF Others, OthersAlloc, OthersFree
<1>2. /\ others' \in SUBSET Chunks /\ grabs' \in 0 .. MaxGrabs
      /\ \A s \in Slots : blk[s].data \cap others' = {}
  <2>1. CASE OthersAlloc
    <3>1. PICK x \in Files : others' \in Available(x)
      BY <2>1 DEF OthersAlloc
    <3>2. others' \subseteq FreeChunks
      BY <3>1 DEF Available
    <3>3. grabs' \in 0 .. MaxGrabs
      BY <2>1, OptsAssumption DEF OthersAlloc, IInv, TypeOK
    <3> QED
      BY <3>2, <3>3 DEF FreeChunks
  <2>2. CASE OthersFree
    BY <2>2 DEF OthersFree, IInv, TypeOK
  <2> QED
    BY <2>1, <2>2 DEF Others
<1>3. TypeOK'
  BY <1>1, <1>2 DEF IInv, TypeOK, threadVars, crawlVars
<1>4. ScanInv' /\ FscanInv'
  BY <1>1 DEF IInv, ScanInv, FscanInv, Active, threadVars
<1> QED
  BY <1>1, <1>2, <1>3, <1>4, ControlStep

----------------------------------------------------------------------------
\* Every step of the system keeps the invariant.
LEMMA StepInv == IInv /\ [Next]_vars => IInv'
<1> SUFFICES ASSUME IInv, [Next]_vars PROVE IInv'
  OBVIOUS
<1>1. CASE UpdatePhase
  BY <1>1, ReadDoneInv, WriteDoneInv, BlockDoneInv, BlockFailedInv, UpdateEndInv
     DEF UpdatePhase
<1>2. CASE CompletePhase
  BY <1>2, CompleteFileInv, StartBlockInv, StartNothingInv, CompleteEndInv
     DEF CompletePhase
<1>3. CASE FillPhase
  BY <1>3, TakeJobInv, FillEndInv, ExitTestInv DEF FillPhase
<1>4. CASE TickPhase
  BY <1>4, SubmitSomeInv, SubmitNoneInv, SubmitFailInv, ReapEndInv DEF TickPhase
<1>5. CASE Complete
  BY <1>5, ReapInv DEF Complete
<1>6. CASE Crawler
  BY <1>6, CrawlerInv
<1>7. CASE Others
  BY <1>7, OthersInv
<1>8. CASE UNCHANGED vars
  <2>1. UNCHANGED <<pc, scan, fscan, job, blk, batch, kernel, crawl, queued, crawlDone,
                    others, grabs, dst, finished, settled, lost>>
    BY <1>8 DEF vars, threadVars, crawlVars, otherVars
  <2>2. TypeOK' /\ ScanInv' /\ FscanInv'
    BY <2>1 DEF IInv, TypeOK, ScanInv, FscanInv, Active
  <2> QED
    BY <2>1, <2>2, ControlStep
<1> QED
  BY <1>1, <1>2, <1>3, <1>4, <1>5, <1>6, <1>7, <1>8 DEF Next, Thread, Terminated

\* The invariant holds in every reachable state.
LEMMA SpecInv == Spec => []IInv
  BY InitInv, StepInv, PTL DEF Spec

\* Types: no counter of a file ever falls below zero, and the arrays, the batch
\* and the contents of the destination files keep their shape.
THEOREM TypeCorrect == Spec => []TypeOK
<1>1. IInv => TypeOK
  BY DEF IInv
<1> QED
  BY <1>1, SpecInv, PTL

\* schedIOSubmitBatch, the callbacks and schedulerClearFileCopyJob together keep
\* every pending request in the batch or in the kernel, once, and in a slot
\* that still belongs to the file it was made for.
THEOREM NoRequestLost == Spec => []RequestsTracked
<1>1. IInv => RequestsTracked
  BY DEF IInv
<1> QED
  BY <1>1, SpecInv, PTL

\* No staging buffer is ever shared by two blocks, or held by a block not in use.
THEOREM NoBufferShared == Spec => []BuffersExclusive
<1>1. IInv => BuffersExclusive
  BY DEF IInv
<1> QED
  BY <1>1, SpecInv, PTL

\* The batch is a duplicate-free sequence of slots, hence no longer than cbBatch:
\* the assertion of schedIOSubmitDeferred never fails.
THEOREM BatchBounded == Spec => []BatchFits
<1>1. IInv => BatchFits
  <2> SUFFICES ASSUME IInv PROVE BatchFits
    OBVIOUS
  <2> DEFINE L == Len(batch)
             G == [n \in 1 .. L |-> batch[n]]
  <2>1. batch \in Seq(Slots) /\ L \in Nat
    BY DEF IInv, TypeOK
  <2>2. /\ IsFiniteSet(FileSlots) /\ Cardinality(FileSlots) = NFileCopyJobs
        /\ IsFiniteSet(BlockSlots) /\ Cardinality(BlockSlots) = NBlockCopyJobs
    BY JobsAssumption, FS_Interval DEF FileSlots, BlockSlots
  <2>3. /\ IsFiniteSet(Slots)
        /\ Cardinality(Slots) = NFileCopyJobs * NBlockCopyJobs
    BY <2>2, FS_Product DEF Slots
  <2>4. IsFiniteSet(1 .. L) /\ Cardinality(1 .. L) = L
    BY <2>1, FS_Interval
  <2>5. G \in Injection(1 .. L, Slots)
    <3>1. G \in [1 .. L -> Slots]
      BY <2>1
    <3>2. \A m, n \in 1 .. L : m # n => G[m] # G[n]
      BY DEF IInv, RequestsTracked
    <3> QED
      BY <3>1, <3>2 DEF Injection, IsInjective
  <2>6. Cardinality(1 .. L) <= Cardinality(Slots)
    BY <2>3, <2>4, <2>5, FS_Injection
  <2> QED
    BY <2>3, <2>4, <2>6 DEF BatchFits
<1> QED
  BY <1>1, SpecInv, PTL

============================================================================
