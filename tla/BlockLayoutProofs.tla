------------------------- MODULE BlockLayoutProofs -------------------------
(***************************************************************************)
(* Theorems about BlockLayout: for any file size, block size, alignment,   *)
(* number of slots and order of the requests, the blocks are the bytes of  *)
(* the file, each once; writes that are padded to the alignment stay       *)
(* apart; and what is handed over is the source.                           *)
(***************************************************************************)
EXTENDS BlockLayout, FiniteSetTheorems, TLAPS

-----------------------------------------------------------------------------
(* Arithmetic of filejob.h.                                                *)

LEMMA DivMod ==
    ASSUME NEW n \in Nat, NEW a \in Nat \ {0}
    PROVE  /\ n \div a \in Nat /\ n % a \in 0 .. a - 1
           /\ n = a * (n \div a) + (n % a)
  BY SMT

LEMMA TimesMonotone ==
    ASSUME NEW a \in Nat, NEW b \in Nat, NEW c \in Nat, a <= b
    PROVE  c * a \in Nat /\ c * b \in Nat /\ c * a <= c * b
  BY SMT

LEMMA TimesNext ==
    ASSUME NEW k \in Nat, NEW b \in Nat
    PROVE  b * k \in Nat /\ b * (k + 1) = b * k + b
  BY SMT

LEMMA Multiples ==
    ASSUME NEW a \in Nat \ {0}
    PROVE  /\ \A q \in Nat : a * q \in Nat /\ (a * q) % a = 0
           /\ \A x \in Nat : x % a = 0 => \E q \in Nat : x = a * q
  <1>1. ASSUME NEW q \in Nat PROVE a * q \in Nat /\ (a * q) % a = 0
    <2>1. a * q \in Nat
      BY TimesNext
    <2>2. /\ (a * q) \div a \in Nat /\ (a * q) % a \in 0 .. a - 1
          /\ a * q = a * ((a * q) \div a) + ((a * q) % a)
      BY <2>1, DivMod
    <2> DEFINE d == (a * q) \div a
    <2>3. a * (d + 1) = a * d + a /\ a * (q + 1) = a * q + a /\ a * d \in Nat
      BY <2>2, TimesNext
    <2>4. CASE d + 1 <= q
      <3>1. a * (d + 1) <= a * q
        BY <2>2, <2>4, TimesMonotone
      <3> QED BY <3>1, <2>1, <2>2, <2>3
    <2>5. CASE q + 1 <= d
      <3>1. a * (q + 1) <= a * d
        BY <2>2, <2>5, TimesMonotone
      <3> QED BY <3>1, <2>1, <2>2, <2>3
    <2>6. CASE q = d
      BY <2>1, <2>2, <2>6
    <2> QED BY <2>1, <2>2, <2>4, <2>5, <2>6
  <1>2. ASSUME NEW x \in Nat, x % a = 0 PROVE \E q \in Nat : x = a * q
    <2>1. x \div a \in Nat /\ x = a * (x \div a)
      BY <1>2, DivMod
    <2> QED BY <2>1
  <1> QED BY <1>1, <1>2

LEMMA MultiplesDiffer ==
    ASSUME NEW a \in Nat \ {0}, NEW x \in Nat, NEW y \in Nat,
           x % a = 0, y % a = 0, y <= x
    PROVE  (x - y) % a = 0
  <1>1. PICK p \in Nat : x = a * p
    BY Multiples
  <1>2. PICK q \in Nat : y = a * q
    BY Multiples
  <1>3. CASE q <= p
    <2>1. p - q \in Nat /\ x - y = a * (p - q)
      BY <1>1, <1>2, <1>3
    <2> QED BY <2>1, Multiples
  <1>4. CASE p + 1 <= q
    <2>1. a * (p + 1) <= a * q /\ a * (p + 1) = a * p + a
      BY <1>4, TimesMonotone, TimesNext
    <2> QED BY <2>1, <1>1, <1>2
  <1> QED BY <1>3, <1>4

\* alignUp rounds up, and to no more than any multiple of the alignment that is
\* not below n.
LEMMA AlignUpBounds ==
    ASSUME NEW n \in Nat, NEW a \in Nat \ {0}
    PROVE  /\ AlignUp(n, a) \in Nat
           /\ n <= AlignUp(n, a) /\ AlignUp(n, a) % a = 0
           /\ \A m \in Nat : n <= m /\ m % a = 0 => AlignUp(n, a) <= m
  <1> DEFINE x == n + a - 1
             q == x \div a
  <1>1. x \in Nat
    OBVIOUS
  <1>2. q \in Nat /\ x % a \in 0 .. a - 1 /\ x = a * q + (x % a)
    BY <1>1, DivMod
  <1>3. AlignUp(n, a) = a * q /\ a * q \in Nat
    BY <1>2 DEF AlignUp
  <1>4. n <= a * q
    BY <1>2, <1>3
  <1>5. ASSUME NEW m \in Nat, n <= m, m % a = 0 PROVE a * q <= m
    <2>1. m \div a \in Nat /\ m = a * (m \div a)
      BY <1>5, DivMod
    <2>2. a * ((m \div a) + 1) = m + a
      BY <2>1, TimesNext
    <2>3. CASE q <= m \div a
      BY <2>1, <2>3, <1>2, TimesMonotone
    <2>4. CASE (m \div a) + 1 <= q
      <3>1. m + a <= a * q
        BY <2>1, <2>2, <2>4, <1>2, TimesMonotone
      <3> QED BY <3>1, <1>2, <1>3, <1>5
    <2> QED BY <2>1, <2>3, <2>4, <1>2
  <1>6. (a * q) % a = 0
    BY <1>2, Multiples
  <1> QED BY <1>3, <1>4, <1>5, <1>6

\* blockCount is the number of the first block that begins behind the file.
LEMMA BlockCountBounds ==
    ASSUME NEW n \in Nat, NEW b \in Nat \ {0}
    PROVE  /\ BlockCount(n, b) \in Nat
           /\ n <= b * BlockCount(n, b)
           /\ \A k \in Nat : k < BlockCount(n, b) => b * k < n
           /\ \A o \in Nat : o < n => o \div b < BlockCount(n, b)
  <1> DEFINE q == n \div b
             r == n % b
             c == BlockCount(n, b)
  <1>1. q \in Nat /\ r \in 0 .. b - 1 /\ n = b * q + r
    BY DivMod
  <1>2. c = IF r > 0 THEN q + 1 ELSE q
    BY <1>1 DEF BlockCount
  <1>3. b * (q + 1) = b * q + b /\ b * q \in Nat
    BY <1>1, TimesNext
  <1>4. c \in Nat /\ n <= b * c
    BY <1>1, <1>2, <1>3
  <1>5. ASSUME NEW k \in Nat, k < c PROVE b * k < n
    <2>1. CASE k + 1 <= q
      <3>1. b * (k + 1) <= b * q /\ b * (k + 1) = b * k + b /\ b * k \in Nat
        BY <2>1, <1>1, TimesMonotone, TimesNext
      <3> QED BY <3>1, <1>1, <1>3
    <2>2. CASE k = q /\ r > 0
      BY <2>2, <1>1, <1>3
    <2> QED BY <1>1, <1>2, <1>5, <2>1, <2>2
  <1>6. ASSUME NEW o \in Nat, o < n PROVE o \div b < c
    <2>1. o \div b \in Nat /\ o % b \in 0 .. b - 1 /\ o = b * (o \div b) + (o % b)
      BY DivMod
    <2>2. SUFFICES ASSUME c <= o \div b PROVE FALSE
      BY <1>4, <2>1
    <2>3. b * c <= b * (o \div b) /\ b * c \in Nat /\ b * (o \div b) \in Nat
      BY <2>1, <2>2, <1>4, TimesMonotone
    <2> QED BY <2>1, <2>3, <1>4, <1>6
  <1> QED BY <1>4, <1>5, <1>6

-----------------------------------------------------------------------------
(* The blocks of the file.                                                 *)

BlocksDefined == size \in Nat /\ bs \in Nat \ {0}

\* A block lies in the file, is not empty and no longer than bs.
LEMMA BlockBounds ==
    ASSUME BlocksDefined, NEW k \in Blocks
    PROVE  /\ k \in Nat /\ Offset(k) \in Nat /\ Offset(k) < size
           /\ NBytes(k) \in Nat \ {0} /\ NBytes(k) <= bs
           /\ Offset(k) + NBytes(k) <= size
  <1>1. BlockCount(size, bs) \in Nat
        /\ \A j \in Nat : j < BlockCount(size, bs) => bs * j < size
    BY BlockCountBounds DEF BlocksDefined
  <1>2. k \in Nat /\ k < BlockCount(size, bs)
    BY <1>1 DEF Blocks
  <1>3. bs * k \in Nat /\ bs * k < size
    BY <1>1, <1>2, TimesNext DEF BlocksDefined
  <1> QED BY <1>2, <1>3 DEF Offset, NBytes, Smaller, BlocksDefined

\* Every byte of the file is in the block its offset says.
LEMMA BlockOfByte ==
    ASSUME BlocksDefined, NEW o \in 0 .. size - 1
    PROVE  /\ o \div bs \in Blocks
           /\ Offset(o \div bs) <= o
           /\ o < Offset(o \div bs) + NBytes(o \div bs)
  <1> DEFINE k == o \div bs
  <1>1. o \in Nat /\ o < size
    BY DEF BlocksDefined
  <1>2. k \in Nat /\ o % bs \in 0 .. bs - 1 /\ o = bs * k + (o % bs)
    BY <1>1, DivMod DEF BlocksDefined
  <1>3. k < BlockCount(size, bs) /\ BlockCount(size, bs) \in Nat
    BY <1>1, BlockCountBounds DEF BlocksDefined
  <1>4. bs * k \in Nat
    BY <1>2, TimesNext DEF BlocksDefined
  <1>5. k \in Blocks
    BY <1>2, <1>3 DEF Blocks
  <1>6. Offset(k) = bs * k
    BY DEF Offset
  <1>7. o < Offset(k) + NBytes(k)
    BY <1>1, <1>2, <1>4, <1>6 DEF NBytes, Smaller, BlocksDefined
  <1> QED BY <1>2, <1>4, <1>5, <1>6, <1>7

\* The bytes that the write of a block covers, and those of another block.
LEMMA WritesApart ==
    ASSUME BlocksDefined, Apart, NEW j \in Blocks, NEW k \in Blocks, j # k,
           NEW o \in Nat, Offset(j) <= o, o < Offset(j) + NBytes(j)
    PROVE  ~(Offset(k) <= o /\ o < Offset(k) + AlignUp(NBytes(k), Align))
  <1>1. /\ j \in Nat /\ Offset(j) \in Nat /\ NBytes(j) \in Nat /\ NBytes(j) <= bs
        /\ k \in Nat /\ Offset(k) \in Nat /\ NBytes(k) \in Nat /\ NBytes(k) <= bs
    BY BlockBounds
  <1>2. BlockCount(size, bs) \in Nat
    BY BlockCountBounds DEF BlocksDefined
  <1>3. bs % Align = 0
    BY <1>1, <1>2 DEF Apart, Blocks
  <1>4. AlignUp(NBytes(k), Align) \in Nat /\ AlignUp(NBytes(k), Align) <= bs
    BY <1>1, <1>3, AlignUpBounds, AlignAssumption DEF BlocksDefined
  <1>5. CASE j + 1 <= k
    <2>1. bs * (j + 1) <= bs * k /\ bs * (j + 1) = bs * j + bs
      BY <1>1, <1>5, TimesMonotone, TimesNext DEF BlocksDefined
    <2> QED BY <2>1, <1>1 DEF Offset, BlocksDefined
  <1>6. CASE k + 1 <= j
    <2>1. bs * (k + 1) <= bs * j /\ bs * (k + 1) = bs * k + bs
      BY <1>1, <1>6, TimesMonotone, TimesNext DEF BlocksDefined
    <2> QED BY <2>1, <1>1, <1>4 DEF Offset, BlocksDefined
  <1> QED BY <1>1, <1>5, <1>6

\* No write is longer than the space that was reserved.
LEMMA WriteFits ==
    ASSUME BlocksDefined, Apart, NEW k \in Blocks
    PROVE  /\ AlignUp(size, Align) \in Nat /\ AlignUp(NBytes(k), Align) \in Nat
           /\ Offset(k) + AlignUp(NBytes(k), Align) <= AlignUp(size, Align)
           /\ NBytes(k) <= AlignUp(NBytes(k), Align)
  <1>1. /\ k \in Nat /\ Offset(k) \in Nat /\ Offset(k) < size
        /\ NBytes(k) \in Nat \ {0} /\ NBytes(k) <= bs
        /\ Offset(k) + NBytes(k) <= size
    BY BlockBounds
  <1>2. /\ AlignUp(size, Align) \in Nat /\ size <= AlignUp(size, Align)
        /\ AlignUp(size, Align) % Align = 0
        /\ AlignUp(NBytes(k), Align) \in Nat
        /\ NBytes(k) <= AlignUp(NBytes(k), Align)
        /\ \A m \in Nat : NBytes(k) <= m /\ m % Align = 0
                             => AlignUp(NBytes(k), Align) <= m
    BY <1>1, AlignUpBounds, AlignAssumption DEF BlocksDefined
  <1>4. Offset(k) % Align = 0
    <2>1. CASE bs % Align = 0
      <3>1. PICK m \in Nat : bs = Align * m
        BY <2>1, Multiples, AlignAssumption DEF BlocksDefined
      <3>2. m * k \in Nat /\ bs * k = Align * (m * k)
        BY <3>1, <1>1, AlignAssumption
      <3> QED BY <3>2, Multiples, AlignAssumption DEF Offset
    <2>2. CASE BlockCount(size, bs) = 1
      <3>1. k = 0
        BY <2>2 DEF Blocks
      <3>2. bs * k = Align * 0
        BY <3>1, AlignAssumption DEF BlocksDefined
      <3> QED BY <3>2, Multiples, AlignAssumption DEF Offset
    <2> QED BY <2>1, <2>2 DEF Apart
  <1>5. (AlignUp(size, Align) - Offset(k)) % Align = 0
    BY <1>1, <1>2, <1>4, MultiplesDiffer, AlignAssumption DEF BlocksDefined
  <1>6. /\ AlignUp(size, Align) - Offset(k) \in Nat
        /\ NBytes(k) <= AlignUp(size, Align) - Offset(k)
    BY <1>1, <1>2 DEF BlocksDefined
  <1>7. AlignUp(NBytes(k), Align) <= AlignUp(size, Align) - Offset(k)
    BY <1>2, <1>5, <1>6
  <1> QED BY <1>1, <1>2, <1>7 DEF BlocksDefined

\* The bytes of a block are those whose offset says so.
LEMMA ByteOfBlock ==
    ASSUME BlocksDefined, NEW k \in Blocks, NEW o \in Nat,
           Offset(k) <= o, o < Offset(k) + NBytes(k)
    PROVE  o \div bs = k
  <1>1. /\ k \in Nat /\ Offset(k) \in Nat /\ NBytes(k) \in Nat /\ NBytes(k) <= bs
    BY BlockBounds
  <1>2. o \div bs \in Nat /\ o % bs \in 0 .. bs - 1 /\ o = bs * (o \div bs) + (o % bs)
    BY DivMod DEF BlocksDefined
  <1> DEFINE d == o \div bs
  <1>3. bs * k <= o /\ o < bs * k + bs /\ bs * k \in Nat
    BY <1>1 DEF Offset, BlocksDefined
  <1>4. bs * (d + 1) = bs * d + bs /\ bs * (k + 1) = bs * k + bs /\ bs * d \in Nat
    BY <1>1, <1>2, TimesNext DEF BlocksDefined
  <1>5. CASE d + 1 <= k
    <2>1. bs * (d + 1) <= bs * k
      BY <1>1, <1>2, <1>5, TimesMonotone DEF BlocksDefined
    <2> QED BY <2>1, <1>2, <1>3, <1>4 DEF BlocksDefined
  <1>6. CASE k + 1 <= d
    <2>1. bs * (k + 1) <= bs * d
      BY <1>1, <1>2, <1>6, TimesMonotone DEF BlocksDefined
    <2> QED BY <2>1, <1>2, <1>3, <1>4 DEF BlocksDefined
  <1> QED BY <1>1, <1>2, <1>5, <1>6

-----------------------------------------------------------------------------
(* The inductive invariant. Until the end a block is finished with its     *)
(* bytes in place; and if there was no old partial, everything else is     *)
(* zero or in its place too, which is what a block of zeros that is left   *)
(* out relies on.                                                          *)

NothingForeign ==
    leftover = 0 => \A o \in 0 .. len - 1 : data[o] \in {Zero, Source(o)}

IInv ==
    /\ TypeOK /\ ContentExact /\ FinishedStays /\ SpaceReserved
    /\ NothingForeign
    /\ phase = "open" => started = 0 /\ len = leftover
    /\ phase = "done" => reading = {} /\ writing = {}

LEMMA CountType ==
    ASSUME TypeOK
    PROVE  /\ size \in Nat /\ leftover \in Nat
           /\ BlockCount(size, bs) \in Nat
           /\ \A k \in reading \cup writing \cup finished :
                 k \in Blocks /\ BlocksDefined
           /\ \A k \in Blocks : BlocksDefined
  <1>1. size \in Nat /\ leftover \in Nat /\ bs \in Nat
    BY SizesAssumption DEF TypeOK
  <1>2. BlockCount(size, bs) \in Nat
    BY <1>1, BlockCountBounds DEF BlockCount
  <1>3. \A k \in Blocks : BlocksDefined
    BY <1>1 DEF Blocks, BlocksDefined, BlockCount
  <1>4. \A k \in reading \cup writing \cup finished : k \in Blocks
    BY <1>2 DEF TypeOK, Blocks
  <1> QED BY <1>1, <1>2, <1>3, <1>4

LEMMA InitIInv == Init => IInv
  <1> SUFFICES ASSUME Init PROVE IInv
    OBVIOUS
  <1>1. size \in Nat /\ leftover \in Nat
    BY SizesAssumption DEF Init
  <1>2. bs \in Nat
    <2>1. PICK l \in BlockLimits : bs = BlockSize(size, l[1], l[2])
      BY DEF Init
    <2>2. l[1] \in Nat /\ l[2] \in Nat /\ BitCeil(size \div 2) \in Nat
      BY SizesAssumption, BitCeilAssumption DEF Init
    <2> QED BY <2>1, <2>2 DEF BlockSize, Larger, Smaller
  <1>3. BlockCount(size, bs) \in Nat
    BY <1>1, <1>2, BlockCountBounds DEF BlockCount
  <1>4. TypeOK
    BY <1>1, <1>2, <1>3 DEF Init, TypeOK
  <1>5. NothingForeign
    BY <1>1 DEF Init, NothingForeign
  <1> QED BY <1>4, <1>5 DEF Init, IInv, ContentExact, FinishedStays, SpaceReserved

\* What an action that leaves the parameters alone leaves alone.
LEMMA SameParameters ==
    ASSUME UNCHANGED parameters
    PROVE  /\ size' = size /\ leftover' = leftover /\ sparse' = sparse
           /\ bs' = bs /\ zeros' = zeros
           /\ Blocks' = Blocks /\ Apart' = Apart /\ NoneSkipped' = NoneSkipped
           /\ \A o : Source(o)' = Source(o)
           /\ \A k : Offset(k)' = Offset(k) /\ NBytes(k)' = NBytes(k)
  BY DEF parameters, Blocks, Apart, NoneSkipped, Source, Offset, NBytes

LEMMA OpenIInv == IInv /\ Open => IInv'
  <1> SUFFICES ASSUME IInv, Open PROVE IInv'
    OBVIOUS
  <1> USE SameParameters
  <1> DEFINE n == AlignUp(size, Align)
  <1>1. /\ phase = "open" /\ phase' = "copy" /\ UNCHANGED parameters
        /\ UNCHANGED <<started, reading, writing, finished>>
        /\ len' = n /\ data' = [o \in 0 .. n - 1 |-> IF o < len THEN data[o] ELSE Zero]
    BY DEF Open, Truncate
  <1>2. size \in Nat /\ n \in Nat
    BY CountType, AlignUpBounds, AlignAssumption DEF IInv
  <1>3. started = 0 /\ finished = {} /\ reading = {} /\ writing = {}
    BY <1>1 DEF IInv, TypeOK
  <1>4. TypeOK'
    BY <1>1, <1>2 DEF IInv, TypeOK
  <1>5. NothingForeign'
    <2> SUFFICES ASSUME leftover' = 0, NEW o \in 0 .. len' - 1
                 PROVE  data'[o] \in {Zero, Source(o)}
      BY <1>1 DEF NothingForeign
    <2>1. data'[o] = IF o < len THEN data[o] ELSE Zero
      BY <1>1
    <2>2. CASE o < len
      BY <1>1, <1>2, <2>1, <2>2 DEF IInv, NothingForeign, TypeOK
    <2> QED BY <2>1, <2>2
  <1> QED BY <1>1, <1>3, <1>4, <1>5
          DEF IInv, ContentExact, FinishedStays, SpaceReserved

LEMMA StartBlockIInv == IInv /\ StartBlock => IInv'
  <1> SUFFICES ASSUME IInv, StartBlock PROVE IInv'
    OBVIOUS
  <1> USE SameParameters
  <1>1. /\ phase = "copy" /\ started < BlockCount(size, bs)
        /\ reading' = reading \cup {started} /\ started' = started + 1
        /\ UNCHANGED parameters /\ UNCHANGED <<phase, writing, finished, len, data>>
    BY DEF StartBlock
  <1>2. BlockCount(size, bs) \in Nat
    BY CountType DEF IInv
  <1>3. started' \in 0 .. BlockCount(size, bs)
    BY <1>1, <1>2 DEF IInv, TypeOK
  <1>4. started \notin reading \cup writing \cup finished
    BY <1>2 DEF IInv, TypeOK
  <1>5. reading' \cup writing' \cup finished' = 0 .. started' - 1
    BY <1>1, <1>2 DEF IInv, TypeOK
  <1>6. TypeOK'
    BY <1>1, <1>3, <1>4, <1>5 DEF IInv, TypeOK
  <1>7. NothingForeign' /\ SpaceReserved' /\ ContentExact' /\ FinishedStays'
    BY <1>1 DEF IInv, NothingForeign, SpaceReserved, ContentExact, FinishedStays
  <1> QED BY <1>1, <1>6, <1>7 DEF IInv

\* The only block that is finished without a write is one of zeros.
LEMMA ReadDoneIInv == \A k \in reading : IInv /\ ReadDone(k) => IInv'
  <1> SUFFICES ASSUME NEW k \in reading, IInv, ReadDone(k) PROVE IInv'
    OBVIOUS
  <1> USE SameParameters
  <1>1. /\ reading' = reading \ {k} /\ UNCHANGED parameters
        /\ UNCHANGED <<phase, started, len, data>>
        /\ \/ sparse /\ k \in zeros /\ finished' = finished \cup {k} /\ writing' = writing
           \/ writing' = writing \cup {k} /\ finished' = finished
    BY DEF ReadDone
  <1>2. phase # "done"
    BY DEF IInv
  <1>3. TypeOK'
    <2>1. k \notin writing /\ k \notin finished
      BY DEF IInv, TypeOK
    <2>2. reading' \cup writing' \cup finished' = reading \cup writing \cup finished
      BY <1>1
    <2> QED BY <1>1, <2>1, <2>2 DEF IInv, TypeOK
  <1>4. NothingForeign' /\ SpaceReserved' /\ ContentExact'
    BY <1>1, <1>2 DEF IInv, NothingForeign, SpaceReserved, ContentExact
  <1>5. FinishedStays'
    <2> SUFFICES ASSUME phase = "copy", Apart, NoneSkipped, NEW j \in finished',
                        NEW o \in Offset(j) .. Offset(j) + NBytes(j) - 1
                 PROVE  o < len /\ data[o] = Source(o)
      BY <1>1 DEF FinishedStays
    <2>1. CASE j \in finished
      BY <2>1 DEF IInv, FinishedStays
    <2>2. CASE j = k /\ sparse /\ k \in zeros
      <3>1. BlocksDefined /\ k \in Blocks
        BY CountType DEF IInv
      <3>2. /\ Offset(k) \in Nat /\ NBytes(k) \in Nat
            /\ Offset(k) + NBytes(k) <= size
        BY <3>1, BlockBounds
      <3>3. o \in Nat /\ o < size /\ Offset(k) <= o /\ o < Offset(k) + NBytes(k)
        BY <3>1, <3>2, <2>2 DEF BlocksDefined
      <3>4. o \div bs = k
        BY <3>1, <3>3, ByteOfBlock
      <3>5. Source(o) = Zero
        BY <3>4, <2>2 DEF Source
      <3>6. len = AlignUp(size, Align) /\ len \in Nat /\ size <= len
        BY <3>1, AlignUpBounds, AlignAssumption DEF IInv, SpaceReserved, BlocksDefined
      <3>7. leftover = 0
        BY <2>2 DEF NoneSkipped
      <3> QED BY <3>1, <3>3, <3>5, <3>6, <3>7 DEF IInv, NothingForeign, BlocksDefined
    <2> QED BY <1>1, <2>1, <2>2
  <1> QED BY <1>1, <1>2, <1>3, <1>4, <1>5 DEF IInv

LEMMA InRange ==
    ASSUME NEW n \in Nat, NEW o \in Nat, NEW m \in Nat, o < m, m <= n
    PROVE  o \in 0 .. n - 1 /\ o < n
  OBVIOUS

\* A write puts its block in place and does not reach into another.
LEMMA WriteDoneIInv == \A k \in writing : IInv /\ WriteDone(k) => IInv'
  <1> SUFFICES ASSUME NEW k \in writing, IInv, WriteDone(k) PROVE IInv'
    OBVIOUS
  <1> DEFINE end == Offset(k) + AlignUp(NBytes(k), Align)
  <1>1. /\ writing' = writing \ {k} /\ finished' = finished \cup {k}
        /\ UNCHANGED parameters /\ UNCHANGED <<phase, started, reading>>
        /\ len' = Larger(len, end)
        /\ data' = [o \in 0 .. len' - 1 |->
                      IF Offset(k) <= o /\ o < Offset(k) + NBytes(k) THEN Source(o)
                      ELSE IF Offset(k) <= o /\ o < end THEN Zero
                      ELSE IF o < len THEN data[o] ELSE Zero]
    BY DEF WriteDone, Put
  <1>2. /\ BlocksDefined /\ k \in Blocks /\ size \in Nat
        /\ Offset(k) \in Nat /\ NBytes(k) \in Nat /\ AlignUp(NBytes(k), Align) \in Nat
        /\ NBytes(k) <= AlignUp(NBytes(k), Align)
    BY CountType, BlockBounds, AlignUpBounds, AlignAssumption DEF IInv, BlocksDefined
  <1>3. len \in Nat /\ end \in Nat /\ len' \in Nat /\ len <= len' /\ end <= len'
    BY <1>1, <1>2 DEF IInv, TypeOK, Larger
  <1>4. phase # "done"
    BY DEF IInv
  <1>5. phase # "open"
    BY DEF IInv, TypeOK
  <1>6. TypeOK'
    <2>1. k \notin reading /\ k \notin finished
      BY DEF IInv, TypeOK
    <2>2. reading' \cup writing' \cup finished' = reading \cup writing \cup finished
      BY <1>1
    <2>3. DOMAIN data' = 0 .. len' - 1
      BY <1>1
    <2> QED BY <1>1, <1>3, <2>1, <2>2, <2>3, SameParameters DEF IInv, TypeOK
  <1>7. NothingForeign'
    <2> SUFFICES ASSUME leftover = 0, NEW o \in 0 .. len' - 1
                 PROVE  data'[o] \in {Zero, Source(o)}
      BY <1>1, SameParameters DEF NothingForeign
    <2>1. o < len => data[o] \in {Zero, Source(o)}
      BY <1>3 DEF IInv, NothingForeign
    <2> QED BY <1>1, <2>1
  <1>8. SpaceReserved'
    <2> SUFFICES ASSUME phase = "copy", Apart PROVE len' = AlignUp(size, Align)
      BY <1>1, SameParameters DEF SpaceReserved
    <2>1. end <= AlignUp(size, Align) /\ AlignUp(size, Align) \in Nat
      BY <1>2, WriteFits
    <2>2. len = AlignUp(size, Align)
      BY DEF IInv, SpaceReserved
    <2> QED BY <1>1, <1>3, <2>1, <2>2 DEF Larger
  <1>9. FinishedStays'
    <2> SUFFICES ASSUME phase = "copy", Apart, NoneSkipped, NEW j \in finished',
                        NEW o \in Offset(j) .. Offset(j) + NBytes(j) - 1
                 PROVE  o < len' /\ data'[o] = Source(o)
      BY <1>1, SameParameters DEF FinishedStays
    <2>1. CASE j = k
      <3>1. /\ o \in Nat /\ Offset(k) <= o /\ o < Offset(k) + NBytes(k)
        BY <1>2, <2>1
      <3>2. Offset(k) + NBytes(k) \in Nat /\ Offset(k) + NBytes(k) <= len'
        BY <1>2, <1>3
      <3>3. o \in 0 .. len' - 1 /\ o < len'
        BY <1>3, <3>1, <3>2, InRange
      <3>4. data'[o] = Source(o)
        BY <1>1, <3>1, <3>3
      <3> QED BY <3>3, <3>4
    <2>2. CASE j # k
      <3>1. j \in finished
        BY <1>1, <2>2
      <3>2. j \in Blocks /\ Offset(j) \in Nat /\ NBytes(j) \in Nat
        BY <3>1, <1>2, CountType, BlockBounds DEF IInv
      <3>3. o \in Nat /\ Offset(j) <= o /\ o < Offset(j) + NBytes(j)
        BY <3>2
      <3>4. ~(Offset(k) <= o /\ o < end)
        BY <1>2, <2>2, <3>2, <3>3, WritesApart
      <3>5. o < len /\ data[o] = Source(o)
        BY <3>1 DEF IInv, FinishedStays
      <3>6. o \in 0 .. len' - 1 /\ o < len'
        BY <1>3, <3>3, <3>5, InRange
      <3>7. ~(Offset(k) <= o /\ o < Offset(k) + NBytes(k))
        BY <1>2, <3>3, <3>4
      <3>8. data'[o] = data[o]
        BY <1>1, <3>4, <3>5, <3>6, <3>7
      <3> QED BY <3>5, <3>6, <3>8
    <2> QED BY <2>1, <2>2
  <1>10. ContentExact'
    BY <1>1, <1>4 DEF ContentExact
  <1> QED BY <1>1, <1>4, <1>5, <1>6, <1>7, <1>8, <1>9, <1>10 DEF IInv

\* When as many blocks are finished as there are, all of them are.
LEMMA FinishIInv == IInv /\ Finish => IInv'
  <1> SUFFICES ASSUME IInv, Finish PROVE IInv'
    OBVIOUS
  <1> USE SameParameters
  <1> DEFINE c == BlockCount(size, bs)
  <1>1. /\ phase = "copy" /\ phase' = "done" /\ Cardinality(finished) >= c
        /\ UNCHANGED parameters /\ UNCHANGED <<started, reading, writing, finished>>
        /\ len' = size
        /\ data' = [o \in 0 .. size - 1 |-> IF o < len THEN data[o] ELSE Zero]
    BY DEF Finish, Truncate
  <1>2. size \in Nat /\ c \in Nat
    BY CountType DEF IInv
  <1>3. finished \subseteq Blocks /\ reading \subseteq Blocks /\ writing \subseteq Blocks
    BY CountType DEF IInv
  <1>4. IsFiniteSet(Blocks) /\ Cardinality(Blocks) = c
    <2>1. c - 1 \in Int /\ (0 > c - 1 => c = 0) /\ (c - 1) - 0 + 1 = c
      BY <1>2
    <2>2. /\ IsFiniteSet(0 .. c - 1)
          /\ Cardinality(0 .. c - 1) = IF 0 > c - 1 THEN 0 ELSE (c - 1) - 0 + 1
      BY <2>1, FS_Interval
    <2> QED BY <2>1, <2>2 DEF Blocks
  <1>5. finished = Blocks
    <2>1. Cardinality(finished) <= c /\ Cardinality(finished) \in Nat
      BY <1>3, <1>4, FS_Subset, FS_CardinalityType
    <2> QED BY <1>1, <1>2, <1>3, <1>4, <2>1, FS_Subset
  <1>6. reading = {} /\ writing = {}
    BY <1>3, <1>5 DEF IInv, TypeOK
  <1>7. TypeOK'
    BY <1>1, <1>2 DEF IInv, TypeOK
  <1>8. NothingForeign'
    <2> SUFFICES ASSUME leftover = 0, NEW o \in 0 .. size - 1
                 PROVE  data'[o] \in {Zero, Source(o)}
      BY <1>1 DEF NothingForeign
    <2>1. o < len => data[o] \in {Zero, Source(o)}
      BY <1>2 DEF IInv, NothingForeign, TypeOK
    <2> QED BY <1>1, <2>1
  <1>9. ContentExact'
    <2> SUFFICES ASSUME bs > 0, Apart, NoneSkipped, NEW o \in 0 .. size - 1
                 PROVE  data'[o] = Source(o)
      BY <1>1 DEF ContentExact
    <2>1. BlocksDefined
      BY <1>2 DEF IInv, TypeOK, BlocksDefined
    <2> DEFINE k == o \div bs
    <2>2. k \in Blocks /\ Offset(k) <= o /\ o < Offset(k) + NBytes(k)
      BY <2>1, BlockOfByte
    <2>3. Offset(k) \in Nat /\ NBytes(k) \in Nat
      BY <2>1, <2>2, BlockBounds
    <2>4. k \in finished /\ o \in Offset(k) .. Offset(k) + NBytes(k) - 1
      BY <1>2, <1>5, <2>2, <2>3
    <2>5. o < len /\ data[o] = Source(o)
      BY <1>1, <2>4 DEF IInv, FinishedStays
    <2> QED BY <1>1, <2>5
  <1> QED BY <1>1, <1>6, <1>7, <1>8, <1>9 DEF IInv, FinishedStays, SpaceReserved

LEMMA NextIInv == IInv /\ [Next]_vars => IInv'
  <1> SUFFICES ASSUME IInv, [Next]_vars PROVE IInv'
    OBVIOUS
  <1>1. CASE UNCHANGED vars
    <2>1. /\ UNCHANGED parameters
          /\ UNCHANGED <<phase, started, reading, writing, finished, len, data>>
      BY <1>1 DEF vars, parameters
    <2> QED BY <2>1, SameParameters
          DEF IInv, TypeOK, ContentExact, FinishedStays, SpaceReserved, NothingForeign
  <1> QED BY <1>1, OpenIInv, StartBlockIInv, ReadDoneIInv, WriteDoneIInv, FinishIInv DEF Next

THEOREM InductiveInvariant == Spec => []IInv
  <1>1. Init => IInv
    BY InitIInv
  <1>2. IInv /\ [Next]_vars => IInv'
    BY NextIInv
  <1> QED BY <1>1, <1>2, PTL DEF Spec

\* The block jobs of a file are its first blocks, each in one place
\* (copy2.cpp:260-312).
THEOREM TypeCorrect == Spec => []TypeOK
  <1>1. IInv => TypeOK
    BY DEF IInv
  <1> QED BY <1>1, InductiveInvariant, PTL

\* What is handed over (copy2.cpp:503) is the source, byte for byte, for any
\* size and any block size of whole units of the alignment, or one block.
THEOREM HandedOverExact == Spec => []ContentExact
  <1>1. IInv => ContentExact
    BY DEF IInv
  <1> QED BY <1>1, InductiveInvariant, PTL

\* The padding of a write (copy2.cpp:329) never spoils a finished neighbour.
THEOREM FinishedBlocksStay == Spec => []FinishedStays
  <1>1. IInv => FinishedStays
    BY DEF IInv
  <1> QED BY <1>1, InductiveInvariant, PTL

\* The space reserved at first (copy2.cpp:857) is enough for every write.
THEOREM SpaceSuffices == Spec => []SpaceReserved
  <1>1. IInv => SpaceReserved
    BY DEF IInv
  <1> QED BY <1>1, InductiveInvariant, PTL

-----------------------------------------------------------------------------
(* The end of a file. Whether a step is taken is a matter of fairness; that *)
(* there is one to take, and that there are only so many, is not.           *)

\* When an action of the transfer thread or an answer of the kernel is possible.
CanGo ==
    \/ phase = "open"
    \/ phase = "copy"
       /\ \/ reading # {} \/ writing # {}
          \/ /\ started < BlockCount(size, bs) /\ Offset(started) < size
             /\ Cardinality(reading \cup writing) < Slots
          \/ Cardinality(finished) >= BlockCount(size, bs)

NobodyStuck ==
    /\ phase # "done" => CanGo
    /\ phase = "done" => len = size /\ reading = {} /\ writing = {}

\* The blocks from 0 on are as many as the next number.
LEMMA FirstBlocks ==
    ASSUME NEW n \in Nat
    PROVE  IsFiniteSet(0 .. n - 1) /\ Cardinality(0 .. n - 1) = n
  <1>1. n - 1 \in Int /\ (0 > n - 1 => n = 0) /\ (n - 1) - 0 + 1 = n
    OBVIOUS
  <1>2. 0 \in Int /\ n - 1 \in Int
    BY <1>1
  <1>3. /\ IsFiniteSet(0 .. n - 1)
        /\ Cardinality(0 .. n - 1) = IF 0 > n - 1 THEN 0 ELSE (n - 1) - 0 + 1
    BY <1>2, FS_Interval
  <1> QED BY <1>1, <1>3

LEMMA Jobs ==
    ASSUME TypeOK
    PROVE  /\ started \in Nat /\ started <= BlockCount(size, bs)
           /\ BlockCount(size, bs) \in Nat
           /\ IsFiniteSet(reading) /\ IsFiniteSet(writing) /\ IsFiniteSet(finished)
           /\ Cardinality(reading) \in Nat /\ Cardinality(writing) \in Nat
           /\ IsFiniteSet(0 .. started - 1) /\ Cardinality(0 .. started - 1) = started
  <1>1. BlockCount(size, bs) \in Nat
    BY CountType
  <1>2. started \in Nat /\ started <= BlockCount(size, bs)
    BY <1>1 DEF TypeOK
  <1>3. IsFiniteSet(0 .. started - 1) /\ Cardinality(0 .. started - 1) = started
    BY <1>2, FirstBlocks
  <1>4. /\ reading \subseteq 0 .. started - 1 /\ writing \subseteq 0 .. started - 1
        /\ finished \subseteq 0 .. started - 1
    BY DEF TypeOK
  <1>5. IsFiniteSet(reading) /\ IsFiniteSet(writing) /\ IsFiniteSet(finished)
    BY <1>3, <1>4, FS_Subset
  <1> QED BY <1>1, <1>2, <1>3, <1>5, FS_CardinalityType

\* Without a request under way there is a free slot for the next block, or all
\* blocks are finished; a file without blocks is finished at once.
LEMMA IdleGoesOn ==
    ASSUME IInv, phase = "copy", reading = {}, writing = {}
    PROVE  CanGo
  <1>1. TypeOK
    BY DEF IInv
  <1>2. /\ started \in Nat /\ started <= BlockCount(size, bs)
        /\ BlockCount(size, bs) \in Nat /\ size \in Nat
        /\ Cardinality(0 .. started - 1) = started
    BY <1>1, Jobs, CountType
  <1>3. CASE started < BlockCount(size, bs)
    <2>1. started \in Blocks
      BY <1>2, <1>3 DEF Blocks
    <2>2. BlocksDefined
      BY <1>1, <2>1, CountType
    <2>3. Offset(started) < size
      BY <2>1, <2>2, BlockBounds
    <2>4. Cardinality(reading \cup writing) = 0
      <3>1. reading \cup writing = {}
        OBVIOUS
      <3> QED BY <3>1, FS_EmptySet
    <2>5. Cardinality(reading \cup writing) < Slots
      BY <2>4, SlotsAssumption
    <2> QED BY <1>3, <2>3, <2>5 DEF CanGo
  <1>4. CASE started = BlockCount(size, bs)
    <2>1. finished = 0 .. started - 1
      BY <1>1 DEF TypeOK
    <2>2. Cardinality(finished) >= BlockCount(size, bs)
      BY <1>2, <1>4, <2>1
    <2> QED BY <2>2 DEF CanGo
  <1> QED BY <1>2, <1>3, <1>4

SomebodyInv == IInv /\ (phase = "done" => len = size)

LEMMA SomebodyStep == SomebodyInv /\ [Next]_vars => SomebodyInv'
  <1> SUFFICES ASSUME SomebodyInv, [Next]_vars PROVE SomebodyInv'
    OBVIOUS
  <1>1. IInv'
    BY NextIInv DEF SomebodyInv
  <1>2. phase' = "done" => len' = size'
    <2>1. CASE Finish
      BY <2>1 DEF Finish, Truncate, parameters
    <2>2. CASE Open
      BY <2>2 DEF Open
    <2>3. CASE StartBlock
      BY <2>3 DEF StartBlock
    <2>4. ASSUME NEW k \in reading, ReadDone(k) PROVE phase' = "done" => len' = size'
      BY <2>4 DEF ReadDone, parameters, SomebodyInv
    <2>5. ASSUME NEW k \in writing, WriteDone(k) PROVE phase' = "done" => len' = size'
      <3>1. phase' = phase /\ phase # "done"
        BY <2>5 DEF WriteDone, SomebodyInv, IInv
      <3> QED BY <3>1
    <2>6. CASE UNCHANGED vars
      BY <2>6 DEF vars, SomebodyInv
    <2> QED BY <2>1, <2>2, <2>3, <2>4, <2>5, <2>6 DEF Next
  <1> QED BY <1>1, <1>2 DEF SomebodyInv

\* A file whose bytes are not complete is never left without a block to start
\* (copy2.cpp:268), a request under way, or the hand-over to the finish
\* processor (copy2.cpp:503), and it ends with its own length (copy2.cpp:1152)
\* and no request behind it: also an empty file, one that is shorter than the
\* alignment, and one whose blocks have size zero (filejob.h:16).
THEOREM SomebodyGoesOn == Spec => []NobodyStuck
  <1>1. Init => SomebodyInv
    BY InitIInv DEF Init, SomebodyInv
  <1>2. SomebodyInv => NobodyStuck
    <2> SUFFICES ASSUME SomebodyInv PROVE NobodyStuck
      OBVIOUS
    <2>1. CASE phase = "copy" /\ reading = {} /\ writing = {}
      BY <2>1, IdleGoesOn DEF SomebodyInv, NobodyStuck
    <2>2. CASE phase = "copy" /\ (reading # {} \/ writing # {})
      BY <2>2 DEF NobodyStuck, CanGo
    <2>3. CASE phase \in {"open", "done"}
      BY <2>3 DEF NobodyStuck, CanGo, SomebodyInv, IInv
    <2> QED BY <2>1, <2>2, <2>3 DEF SomebodyInv, IInv, TypeOK
  <1> QED BY <1>1, <1>2, SomebodyStep, PTL DEF Spec

\* The steps a file has left: three for each block that is not started, two
\* for a read under way, one for a write, one each for opening and finishing.
StepsLeft ==
    (CASE phase = "open" -> 2 [] phase = "copy" -> 1 [] phase = "done" -> 0)
    + 3 * (BlockCount(size, bs) - started)
    + 2 * Cardinality(reading) + Cardinality(writing)

LEMMA StepsLeftType == ASSUME TypeOK PROVE StepsLeft \in Nat
  <1>1. /\ started \in Nat /\ started <= BlockCount(size, bs)
        /\ BlockCount(size, bs) \in Nat
        /\ Cardinality(reading) \in Nat /\ Cardinality(writing) \in Nat
    BY Jobs
  <1>2. phase \in {"open", "copy", "done"}
    BY DEF TypeOK
  <1> QED BY <1>1, <1>2 DEF StepsLeft

LEMMA StepsLeftNext == TypeOK /\ TypeOK' /\ Next => StepsLeft' < StepsLeft
  <1> SUFFICES ASSUME TypeOK, TypeOK', Next PROVE StepsLeft' < StepsLeft
    OBVIOUS
  <1> DEFINE c == BlockCount(size, bs)
             r == Cardinality(reading)
             w == Cardinality(writing)
  <1>1. /\ started \in Nat /\ c \in Nat /\ r \in Nat /\ w \in Nat
        /\ IsFiniteSet(reading) /\ IsFiniteSet(writing)
    BY Jobs
  <1>2. CASE Open
    <2>1. /\ phase = "open" /\ phase' = "copy" /\ c' = c /\ started' = started
          /\ r' = r /\ w' = w
      BY <1>2 DEF Open, parameters
    <2> HIDE DEF c, r, w
    <2> QED BY <1>1, <2>1 DEF StepsLeft, c, r, w
  <1>3. CASE StartBlock
    <2>1. /\ phase = "copy" /\ phase' = "copy" /\ c' = c /\ started' = started + 1
          /\ reading' = reading \cup {started} /\ w' = w
      BY <1>3 DEF StartBlock, parameters
    <2>2. started \notin reading
      BY <1>1 DEF TypeOK
    <2>3. r' = r + 1
      BY <1>1, <2>1, <2>2, FS_AddElement
    <2> QED BY <1>1, <2>1, <2>3 DEF StepsLeft
  <1>4. ASSUME NEW k \in reading, ReadDone(k) PROVE StepsLeft' < StepsLeft
    <2>1. /\ phase' = phase /\ c' = c /\ started' = started
          /\ reading' = reading \ {k}
          /\ \/ writing' = writing \/ writing' = writing \cup {k}
      BY <1>4 DEF ReadDone, parameters
    <2>2. k \notin writing
      BY DEF TypeOK
    <2>3. r' = r - 1
      BY <1>1, <2>1, FS_RemoveElement
    <2>4. w' = w \/ w' = w + 1
      BY <1>1, <2>1, <2>2, FS_AddElement
    <2>5. phase \in {"open", "copy", "done"}
      BY DEF TypeOK
    <2> QED BY <1>1, <2>1, <2>3, <2>4, <2>5 DEF StepsLeft
  <1>5. ASSUME NEW k \in writing, WriteDone(k) PROVE StepsLeft' < StepsLeft
    <2>1. /\ phase' = phase /\ c' = c /\ started' = started
          /\ writing' = writing \ {k} /\ r' = r
      BY <1>5 DEF WriteDone, parameters
    <2>2. w' = w - 1
      BY <1>1, <2>1, FS_RemoveElement
    <2>3. phase \in {"open", "copy", "done"}
      BY DEF TypeOK
    <2> QED BY <1>1, <2>1, <2>2, <2>3 DEF StepsLeft
  <1>6. CASE Finish
    <2>1. /\ phase = "copy" /\ phase' = "done" /\ c' = c /\ started' = started
          /\ r' = r /\ w' = w
      BY <1>6 DEF Finish, parameters
    <2> QED BY <1>1, <2>1 DEF StepsLeft
  <1> QED BY <1>2, <1>3, <1>4, <1>5, <1>6 DEF Next

\* No block is read, written or counted twice (copy2.cpp:276-406), and a file
\* is opened and handed over once: every step of a file is one less of a number
\* that is fixed when it is opened.
THEOREM StepsRunOut == Spec => [][StepsLeft' < StepsLeft /\ StepsLeft' \in Nat]_vars
  <1>1. TypeOK => StepsLeft \in Nat
    BY StepsLeftType
  <1>2. TypeOK /\ TypeOK' /\ (StepsLeft \in Nat)' /\ [Next]_vars
            => [StepsLeft' < StepsLeft /\ StepsLeft' \in Nat]_vars
    BY StepsLeftNext
  <1> QED BY <1>1, <1>2, TypeCorrect, PTL DEF Spec
=============================================================================
