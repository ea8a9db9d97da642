-------------------------- MODULE MCCopyScheduler --------------------------
(***************************************************************************)
(* Instances of CopyScheduler for TLC: file a has ABlocks blocks, the      *)
(* second of them a hole, file b a single block; their buffers are the     *)
(* aligned ranges of a small arena, of AUnits chunks for a and one for b,  *)
(* as the buddy allocator cuts them.                                       *)
(***************************************************************************)
EXTENDS CopyScheduler, TLC

CONSTANTS a, b, ABlocks, AUnits, ArenaChunks

MCNBlocks == [x \in Files |-> IF x = a THEN ABlocks ELSE 1]

MCZeroBlocks == [x \in Files |-> IF x = a THEN {1} ELSE {}]

MCChunks == 0 .. ArenaChunks - 1

\* The blocks of n chunks of a buddy allocator: they start at multiples of n.
Aligned(n) == {k * n .. k * n + n - 1 : k \in 0 .. (ArenaChunks \div n) - 1}

MCBuffers == [x \in Files |-> Aligned(IF x = a THEN AUnits ELSE 1)]
============================================================================
