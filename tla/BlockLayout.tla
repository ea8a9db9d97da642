---------------------------- MODULE BlockLayout ----------------------------
(***************************************************************************)
(* The bytes of one file on their way into its partial file: the size of a *)
(* block from the options (blockSize, blockCount and alignUp, filejob.h),  *)
(* the truncation to whole aligned blocks (processNonDir), blocks that are *)
(* read and written in any order, padded to the alignment of O_DIRECT      *)
(* (schedulerUpdateBlockCopyJob), and the truncation to the file's size    *)
(* (finishProcessorOne).                                                   *)
(*                                                                         *)
(* Sizes are in bytes and small; size_t does not overflow for sizes a      *)
(* file system has. Requests do not fail (CopyScheduler has those), the    *)
(* file system takes any offset and length for O_DIRECT, as some do, and   *)
(* the source does not change.                                             *)
(***************************************************************************)
EXTENDS Integers, FiniteSets

CONSTANTS Align,        \* DIRECT_IO_ALIGN
          Sizes,        \* stx_size of the file
          BlockLimits,  \* --min-block-size and --max-block-size, as <<min, max>>
          Leftovers,    \* length of a partial that could not be unlinked, or 0
          Slots         \* --block-copy-jobs

ASSUME AlignAssumption == Align \in Nat \ {0}
ASSUME SizesAssumption ==
    Sizes \subseteq Nat /\ Leftovers \subseteq Nat /\ BlockLimits \subseteq Nat \X Nat
ASSUME SlotsAssumption == Slots \in Nat \ {0}

VARIABLES size, leftover, sparse,  \* the file and the options
          bs,        \* its blockSize
          zeros,     \* its blocks that are all zero
          phase,     \* open, copy or done
          started,   \* nBlockJobsScheduled + nBlockJobsFinished: the next jobno
          reading, writing,   \* blocks with such a request under way
          finished,  \* blocks counted in nBlockJobsFinished
          len, data  \* the partial: its length and its bytes
vars == <<size, leftover, sparse, bs, zeros, phase, started, reading, writing,
          finished, len, data>>
parameters == <<size, leftover, sparse, bs, zeros>>

----------------------------------------------------------------------------
(* filejob.h.                                                              *)
Larger(a, b) == IF a < b THEN b ELSE a
Smaller(a, b) == IF a < b THEN a ELSE b

\* std::bit_ceil: the smallest power of two that is not below n.
BitCeil(n) ==
    CHOOSE p \in {2^i : i \in 0 .. n} :
        p >= n /\ \A q \in {2^i : i \in 0 .. n} : q >= n => p <= q

ASSUME BitCeilAssumption == \A n \in Sizes : BitCeil(n \div 2) \in Nat

BlockSize(fsize, min, max) == Larger(min, Smaller(max, BitCeil(fsize \div 2)))

\* Mutant: the last block is forgotten unless it is a whole one.
BlockCountFloor(fsize, b) == IF b = 0 THEN 0 ELSE fsize \div b

BlockCount(fsize, b) ==
    IF b = 0 THEN 0 ELSE (fsize \div b) + (IF fsize % b > 0 THEN 1 ELSE 0)

\* Mutant: what is aligned gets one unit more.
AlignUpAlways(n, align) == (n \div align + 1) * align

\* For a power of two, the mask of the code.
AlignUp(n, align) == ((n + align - 1) \div align) * align

Blocks == 0 .. BlockCount(size, bs) - 1

\* offset and nbytes of a block job.
Offset(k) == bs * k
NBytes(k) == Smaller(bs, size - Offset(k))

\* The bytes of the source, told apart by their place; zero, and bytes of
\* somebody else.
Zero == 0
Old == -1
Source(o) == IF o \div bs \in zeros THEN Zero ELSE o + 1

----------------------------------------------------------------------------
Init ==
    /\ size \in Sizes /\ leftover \in Leftovers /\ sparse \in BOOLEAN
    /\ \E l \in BlockLimits : bs = BlockSize(size, l[1], l[2])
    /\ zeros \in SUBSET Blocks
    /\ phase = "open"
    /\ started = 0
    /\ reading = {} /\ writing = {} /\ finished = {}
    /\ len = leftover
    /\ data = [o \in 0 .. leftover - 1 |-> Old]

\* ftruncate: what was there stays up to the new length.
Truncate(n) ==
    /\ len' = n
    /\ data' = [o \in 0 .. n - 1 |-> IF o < len THEN data[o] ELSE Zero]

\* processNonDir: the partial is given the space of whole aligned blocks.
Open ==
    /\ phase = "open"
    /\ Truncate(AlignUp(size, Align))
    /\ phase' = "copy"
    /\ UNCHANGED <<parameters, started, reading, writing, finished>>

\* schedulerScheduleBlockCopyJob.
StartBlock ==
    /\ phase = "copy"
    /\ started < BlockCount(size, bs)
    /\ Cardinality(reading \cup writing) < Slots
    /\ Offset(started) < size
    /\ reading' = reading \cup {started}
    /\ started' = started + 1
    /\ UNCHANGED <<parameters, phase, writing, finished, len, data>>

\* The block has been read: one of zeros is left alone, if asked to.
ReadDone(k) ==
    /\ k \in reading
    /\ reading' = reading \ {k}
    /\ IF sparse /\ k \in zeros
       THEN finished' = finished \cup {k} /\ UNCHANGED writing
       ELSE writing' = writing \cup {k} /\ UNCHANGED finished
    /\ UNCHANGED <<parameters, phase, started, len, data>>

\* The bytes of block k and the zeros that pad them.
Put(k) ==
    LET end == Offset(k) + AlignUp(NBytes(k), Align)
    IN /\ len' = Larger(len, end)
       /\ data' = [o \in 0 .. len' - 1 |->
                     IF Offset(k) <= o /\ o < Offset(k) + NBytes(k) THEN Source(o)
                     ELSE IF Offset(k) <= o /\ o < end THEN Zero
                     ELSE IF o < len THEN data[o] ELSE Zero]

WriteDone(k) ==
    /\ k \in writing
    /\ Put(k)
    /\ writing' = writing \ {k}
    /\ finished' = finished \cup {k}
    /\ UNCHANGED <<parameters, phase, started, reading>>

\* The file is complete: schedulerUpdate hands it over and the finish processor
\* cuts it to its size.
Finish ==
    /\ phase = "copy"
    /\ Cardinality(finished) >= BlockCount(size, bs)
    /\ Truncate(size)
    /\ phase' = "done"
    /\ UNCHANGED <<parameters, started, reading, writing, finished>>

Next ==
    \/ Open
    \/ StartBlock
    \/ \E k \in reading : ReadDone(k)
    \/ \E k \in writing : WriteDone(k)
    \/ Finish

Spec == Init /\ [][Next]_vars

----------------------------------------------------------------------------
(* Properties.                                                             *)

\* The writes of different blocks stay apart.
Apart == bs % Align = 0 \/ BlockCount(size, bs) = 1
\* Every block of zeros is written, or falls on zeros.
NoneSkipped == leftover = 0 \/ ~sparse \/ zeros = {}

\* The state has its type; the block jobs are the first ones of the file, each
\* in one place.
TypeOK ==
    /\ size \in Sizes /\ leftover \in Leftovers /\ sparse \in BOOLEAN
    /\ bs \in Nat /\ zeros \subseteq Blocks
    /\ phase \in {"open", "copy", "done"}
    /\ started \in 0 .. BlockCount(size, bs)
    /\ reading \cup writing \cup finished = 0 .. started - 1
    /\ reading \cap writing = {}
    /\ (reading \cup writing) \cap finished = {}
    /\ len \in Nat
    /\ DOMAIN data = 0 .. len - 1

\* A file is handed over (copy2.cpp:503) with the source's bytes and no others,
\* whatever the order in which its blocks were written: for a block size of
\* whole units of the alignment, or one block; unless the block size is zero, or
\* zeros were left out over what an old partial held.
ContentExact ==
    phase = "done" /\ bs > 0 /\ Apart /\ NoneSkipped =>
        len = size /\ \A o \in 0 .. size - 1 : data[o] = Source(o)

\* A block that is finished (copy2.cpp:389) is not touched again: what it has in
\* the partial is final, though neighbours pad their writes (copy2.cpp:329).
FinishedStays ==
    phase = "copy" /\ Apart /\ NoneSkipped =>
        \A k \in finished : \A o \in Offset(k) .. Offset(k) + NBytes(k) - 1 :
            o < len /\ data[o] = Source(o)

\* No write reaches beyond the space that was reserved for the file
\* (copy2.cpp:857), so that only the last truncation changes its length.
SpaceReserved == phase = "copy" /\ Apart => len = AlignUp(size, Align)
============================================================================
