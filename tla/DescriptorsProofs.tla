------------------------- MODULE DescriptorsProofs -------------------------
(***************************************************************************)
(* Theorems about Descriptors: for any tree, any number of threads, any    *)
(* budget and any failures the semaphore counts what is open, whoever is   *)
(* at work in a directory finds its descriptors open, and in the end no    *)
(* more is open than what failures have left, two units for each at most.  *)
(*                                                                         *)
(* Where a directory, a file or an extra stands says what it holds         *)
(* (Holding): that is why each close gives back units that were taken, and *)
(* each open takes a descriptor that is not yet there. That a directory    *)
(* still holds them when its entries need them is how far it can have got  *)
(* with an entry under way (Behind).                                       *)
(***************************************************************************)
EXTENDS Descriptors, FiniteSetTheorems, TLAPS

Typed ==
    /\ maxFDs \in Nat /\ maxFDs \in Budgets /\ fdSem \in Nat
    /\ fds \subseteq Nodes \X Kinds /\ IsFiniteSet(fds)
    /\ at \in [Nodes -> Places]
    /\ lost \in Nat /\ excess \in Nat /\ faults \in 0 .. MaxFaults

\* What n holds is exactly the kinds in K.
Holds(n, K) == \A k \in Kinds : <<n, k>> \in fds <=> k \in K

HoldingOf(n) ==
    /\ at[n] \in {"none", "task", "opening", "stamp", "pending", "old"} => Holds(n, {})
    /\ at[n] \in {"stat", "dup"} => Holds(n, {"dir"})
    /\ at[n] \in {"list", "prune", "dst"} => Holds(n, {"dir", "src"})
    /\ at[n] = "read" => Holds(n, {"dir", "src", "prune"})
    /\ at[n] \in {"crawl", "group"} => Holds(n, {"dir", "src", "dst"})
    /\ at[n] = "open" => Holds(n, {"in"})
    /\ at[n] = "space" => Holds(n, {"in", "out"})
    /\ at[n] = "job" /\ n \in Files => Holds(n, {"in", "out"})
    /\ at[n] = "job" /\ n \in Dirs => <<n, "dst">> \in fds
    /\ at[n] = "removing" => Holds(n, {"old"})
Holding == \A n \in Nodes : HoldingOf(n)

\* No entry is further than its directory lets it be.
BehindOf(n) ==
    \/ at[n] = "none"
    \/ at[Parent[n]] = "group"
    \/ at[Parent[n]] = "job" /\ TaskOver(n)
    \/ at[Parent[n]] = "ended" /\ TaskOver(n) /\ (n \in Files => Ended(n))
Behind == \A n \in (Dirs \cup Files) \ {Top} : BehindOf(n)

ExtraBehind ==
    \A n \in Extras :
        at[n] = "none" \/ at[ExtraIn[n]] \notin {"none", "task", "stat", "dup", "list", "read"}

IInv == Typed /\ Holding /\ Behind /\ ExtraBehind /\ BudgetExact

----------------------------------------------------------------------------
(* The helpers.                                                            *)

LEMMA TakeCard ==
    ASSUME IsFiniteSet(fds), NEW n, NEW k, <<n, k>> \notin fds
    PROVE  /\ IsFiniteSet(fds \cup {<<n, k>>})
           /\ Cardinality(fds \cup {<<n, k>>}) = Cardinality(fds) + 1
           /\ Cardinality(fds) \in Nat
  BY FS_AddElement, FS_CardinalityType

LEMMA GiveOneCard ==
    ASSUME IsFiniteSet(fds), NEW n, NEW k, <<n, k>> \in fds
    PROVE  /\ IsFiniteSet(fds \ ({n} \X {k}))
           /\ Cardinality(fds \ ({n} \X {k})) = Cardinality(fds) - 1
           /\ Cardinality(fds) \in Nat
           /\ Cardinality({k}) = 1
  <1>1. fds \ ({n} \X {k}) = fds \ {<<n, k>>}
    OBVIOUS
  <1> QED BY <1>1, FS_RemoveElement, FS_CardinalityType, FS_Singleton

LEMMA GiveTwoCard ==
    ASSUME IsFiniteSet(fds), NEW n, NEW k, NEW l, k # l,
           <<n, k>> \in fds, <<n, l>> \in fds
    PROVE  /\ IsFiniteSet(fds \ ({n} \X {k, l}))
           /\ Cardinality(fds \ ({n} \X {k, l})) = Cardinality(fds) - 2
           /\ Cardinality(fds) \in Nat
           /\ Cardinality({k, l}) = 2
  <1> DEFINE S == fds \ {<<n, k>>}
  <1>1. fds \ ({n} \X {k, l}) = S \ {<<n, l>>}
    OBVIOUS
  <1>2. IsFiniteSet(S) /\ Cardinality(S) = Cardinality(fds) - 1
    BY FS_RemoveElement
  <1>3. <<n, l>> \in S
    OBVIOUS
  <1>4. IsFiniteSet(S \ {<<n, l>>}) /\ Cardinality(S \ {<<n, l>>}) = Cardinality(S) - 1
    BY <1>2, <1>3, FS_RemoveElement
  <1>5. Cardinality({k, l}) = 2
    <2>1. IsFiniteSet({k}) /\ Cardinality({k}) = 1
      BY FS_Singleton
    <2>2. Cardinality({k} \cup {l}) = 2
      BY <2>1, FS_AddElement, l \notin {k}
    <2>3. {k, l} = {k} \cup {l}
      OBVIOUS
    <2> QED BY <2>2, <2>3
  <1>6. Cardinality(fds) \in Nat
    BY FS_CardinalityType
  <1> QED BY <1>1, <1>2, <1>4, <1>5, <1>6

LEMMA Times ==
    ASSUME NEW S, NEW k, IsFiniteSet(S)
    PROVE  IsFiniteSet(S \X {k}) /\ Cardinality(S \X {k}) = Cardinality(S)
  <1>1. IsFiniteSet({k}) /\ Cardinality({k}) = 1
    BY FS_Singleton
  <1>2. Cardinality(S) \in Nat
    BY FS_CardinalityType
  <1>3. /\ IsFiniteSet(S \X {k})
        /\ Cardinality(S \X {k}) = Cardinality(S) * Cardinality({k})
    BY <1>1, FS_Product, Zenon
  <1>4. Cardinality(S \X {k}) = Cardinality(S) * 1
    BY <1>1, <1>3, Zenon
  <1>5. \A c \in Nat : c * 1 = c
    OBVIOUS
  <1> QED BY <1>2, <1>3, <1>4, <1>5, Zenon

LEMMA Both ==
    ASSUME NEW S, NEW T, IsFiniteSet(S), IsFiniteSet(T)
    PROVE  /\ IsFiniteSet(S \cup T)
           /\ Cardinality(S \cup T) \in Nat
           /\ Cardinality(S \cup T) <= Cardinality(S) + Cardinality(T)
  <1>1. IsFiniteSet(S \cap T)
    <2>1. S \cap T \in SUBSET S
      OBVIOUS
    <2> QED BY <2>1, FS_Subset
  <1>2. /\ Cardinality(S) \in Nat /\ Cardinality(T) \in Nat /\ Cardinality(S \cap T) \in Nat
    BY <1>1, FS_CardinalityType
  <1>3. /\ IsFiniteSet(S \cup T)
        /\ Cardinality(S \cup T) = Cardinality(S) + Cardinality(T) - Cardinality(S \cap T)
    BY FS_Union, Zenon
  <1>4. Cardinality(S \cup T) \in Nat
    BY <1>3, FS_CardinalityType, Zenon
  <1> QED BY <1>2, <1>3, <1>4

LEMMA Apart ==
    ASSUME NEW S, NEW T, IsFiniteSet(S), IsFiniteSet(T), S \cap T = {}
    PROVE  /\ IsFiniteSet(S \cup T)
           /\ Cardinality(S \cup T) = Cardinality(S) + Cardinality(T)
  <1>1. /\ IsFiniteSet(S \cup T)
        /\ Cardinality(S \cup T) = Cardinality(S) + Cardinality(T) - Cardinality(S \cap T)
    BY FS_Union, Zenon
  <1>2. Cardinality(S \cap T) = 0
    BY FS_EmptySet
  <1>3. Cardinality(S) \in Nat /\ Cardinality(T) \in Nat
    BY FS_CardinalityType
  <1> QED BY <1>1, <1>2, <1>3

\* What the helpers do to the budget and the set.
Counted ==
    /\ maxFDs' = maxFDs
    /\ fdSem' \in Nat /\ fds' \subseteq Nodes \X Kinds /\ IsFiniteSet(fds')
    /\ lost' \in Nat /\ excess' \in Nat /\ faults' \in 0 .. MaxFaults
    /\ BudgetExact'

LEMMA OpenedCounts ==
    ASSUME Typed, BudgetExact, maxFDs' = maxFDs,
           NEW n \in Nodes, NEW k \in Kinds, <<n, k>> \notin fds, Opened(n, k)
    PROVE  /\ Counted
           /\ \A m \in Nodes, l \in Kinds :
                 <<m, l>> \in fds' <=> <<m, l>> \in fds \/ (m = n /\ l = k)
  <1>1. IsFiniteSet(fds') /\ Cardinality(fds') = Cardinality(fds) + 1 /\ Cardinality(fds) \in Nat
    BY TakeCard DEF Typed, Opened
  <1>2. fdSem' = fdSem - 1 /\ fdSem' \in Nat
    BY DEF Typed, Opened
  <1>3. lost' = lost /\ excess' = excess /\ faults' = faults
    BY DEF Opened
  <1>4. BudgetExact'
    BY <1>1, <1>2, <1>3 DEF BudgetExact, Typed
  <1>5. fds' = fds \cup {<<n, k>>}
    BY DEF Opened
  <1>6. fds' \subseteq Nodes \X Kinds
    BY <1>5 DEF Typed
  <1>7. \A m \in Nodes, l \in Kinds :
           <<m, l>> \in fds' <=> <<m, l>> \in fds \/ (m = n /\ l = k)
    BY <1>5
  <1> QED BY <1>1, <1>2, <1>3, <1>4, <1>6, <1>7 DEF Typed, Counted

LEMMA ClosedOneCounts ==
    ASSUME Typed, BudgetExact, maxFDs' = maxFDs, faults' \in 0 .. MaxFaults,
           NEW n \in Nodes, NEW k \in Kinds, <<n, k>> \in fds, Closed(n, {k})
    PROVE  /\ Counted
           /\ \A m \in Nodes, l \in Kinds :
                 <<m, l>> \in fds' <=> <<m, l>> \in fds /\ ~(m = n /\ l = k)
  <1>1. /\ fds' = fds \ ({n} \X {k}) /\ fdSem' = fdSem + Cardinality({k})
        /\ lost' = lost /\ excess' = excess
    BY DEF Closed
  <1>2. /\ IsFiniteSet(fds') /\ Cardinality(fds') = Cardinality(fds) - 1
        /\ Cardinality(fds) \in Nat /\ Cardinality({k}) = 1
    BY <1>1, GiveOneCard DEF Typed
  <1>3. BudgetExact' /\ fdSem' \in Nat
    BY <1>1, <1>2 DEF BudgetExact, Typed
  <1>4. fds' \subseteq Nodes \X Kinds
    BY <1>1 DEF Typed
  <1>5. \A m \in Nodes, l \in Kinds :
           <<m, l>> \in fds' <=> <<m, l>> \in fds /\ ~(m = n /\ l = k)
    BY <1>1
  <1> QED BY <1>1, <1>2, <1>3, <1>4, <1>5 DEF Typed, Counted

LEMMA ClosedTwoCounts ==
    ASSUME Typed, BudgetExact, maxFDs' = maxFDs, faults' \in 0 .. MaxFaults,
           NEW n \in Nodes, NEW k \in Kinds, NEW j \in Kinds, k # j,
           <<n, k>> \in fds, <<n, j>> \in fds, Closed(n, {k, j})
    PROVE  /\ Counted
           /\ \A m \in Nodes, l \in Kinds :
                 <<m, l>> \in fds' <=> <<m, l>> \in fds /\ ~(m = n /\ l \in {k, j})
  <1>1. /\ fds' = fds \ ({n} \X {k, j}) /\ fdSem' = fdSem + Cardinality({k, j})
        /\ lost' = lost /\ excess' = excess
    BY DEF Closed
  <1>2. /\ IsFiniteSet(fds') /\ Cardinality(fds') = Cardinality(fds) - 2
        /\ Cardinality(fds) \in Nat /\ Cardinality({k, j}) = 2
    <2>1. IsFiniteSet(fds)
      BY DEF Typed
    <2>2. /\ IsFiniteSet(fds \ ({n} \X {k, j}))
          /\ Cardinality(fds \ ({n} \X {k, j})) = Cardinality(fds) - 2
          /\ Cardinality(fds) \in Nat
          /\ Cardinality({k, j}) = 2
      BY <2>1, GiveTwoCard
    <2> QED BY <1>1, <2>2
  <1>3. BudgetExact' /\ fdSem' \in Nat
    BY <1>1, <1>2 DEF BudgetExact, Typed
  <1>4. fds' \subseteq Nodes \X Kinds
    BY <1>1 DEF Typed
  <1>5. \A m \in Nodes, l \in Kinds :
           <<m, l>> \in fds' <=> <<m, l>> \in fds /\ ~(m = n /\ l \in {k, j})
    BY <1>1
  <1> QED BY <1>1, <1>2, <1>3, <1>4, <1>5 DEF Typed, Counted

\* What leaves the descriptors alone.
LEMMA KeptCounts ==
    ASSUME Typed, BudgetExact, maxFDs' = maxFDs, faults' \in 0 .. MaxFaults,
           UNCHANGED <<fdSem, fds, lost, excess>>
    PROVE  Counted
  BY DEF Typed, BudgetExact, Counted

LEMMA FdopendirCounts ==
    ASSUME Typed, BudgetExact, maxFDs' = maxFDs, FdopendirFails
    PROVE  Counted /\ fds' = fds
  <1>1. Cardinality(fds) \in Nat
    BY FS_CardinalityType DEF Typed
  <1>2. faults' \in 0 .. MaxFaults
    BY OptionAssumption DEF Typed, FdopendirFails, Fault
  <1> QED BY <1>1, <1>2 DEF Typed, BudgetExact, FdopendirFails, Counted

LEMMA FaultCounts ==
    ASSUME Typed, Fault
    PROVE  faults' \in 0 .. MaxFaults
  BY OptionAssumption DEF Typed, Fault

----------------------------------------------------------------------------
(* Steps of one directory, file or extra.                                  *)

MoveHolds(n) ==
    \A m \in Nodes \ {n}, l \in Kinds : <<m, l>> \in fds' <=> <<m, l>> \in fds

\* What a step of n to w may do to the others: names that wait for n are linked.
Led(n, w) ==
    /\ at' \in [Nodes -> Places] /\ at'[n] = w
    /\ \A m \in Nodes \ {n} :
          at'[m] = at[m] \/ (m \in Files /\ at[m] = "pending" /\ at'[m] = "ended")

LEMMA GotoLed ==
    ASSUME IInv, NEW n \in Nodes, NEW w \in Places, Goto(n, w)
    PROVE  Led(n, w)
  BY DEF Goto, Led, IInv, Typed

LEMMA HandOverLed ==
    ASSUME IInv, NEW f \in Files, HandOver(f)
    PROVE  Led(f, "ended")
  <1>1. at' = [n \in Nodes |-> IF n = f \/ n \in Waiting(f) THEN "ended" ELSE at[n]]
    BY DEF HandOver
  <1>2. f \in Nodes /\ "ended" \in Places /\ at \in [Nodes -> Places]
    BY DEF Nodes, Places, IInv, Typed
  <1> QED BY <1>1, <1>2 DEF Led, Waiting

LEMMA LedHolding ==
    ASSUME IInv, NEW n \in Nodes, NEW w \in Places, Led(n, w),
           MoveHolds(n), HoldingOf(n)'
    PROVE  Holding'
  <1>2. ASSUME NEW m \in Nodes, m # n PROVE HoldingOf(m)'
    <2>1. HoldingOf(m)
      BY <1>2 DEF IInv, Holding
    <2>2. \A l \in Kinds : <<m, l>> \in fds' <=> <<m, l>> \in fds
      BY <1>2 DEF MoveHolds
    <2>3. CASE at'[m] = at[m]
      BY <2>1, <2>2, <2>3 DEF HoldingOf, Holds, Kinds
    <2>4. CASE at'[m] = "ended"
      BY <2>4 DEF HoldingOf
    <2> QED BY <1>2, <2>3, <2>4 DEF Led
  <1> QED BY <1>2 DEF Holding

\* A node that goes on, and whose entries are not under way.
LEMMA LedBehind ==
    ASSUME IInv, NEW n \in Nodes, NEW w \in Places, Led(n, w),
           at[n] # "none", ~Ended(n),
           TaskOver(n) => w \in {"job", "old", "removing", "ended", "failed"},
           n \in Dirs =>
              /\ at[n] \notin {"group", "job"}
              /\ \/ at[n] \in {"none", "task", "stat", "dup", "list", "read"}
                 \/ w \notin {"none", "task", "stat", "dup", "list", "read"}
    PROVE  Behind' /\ ExtraBehind'
  <1>1. at \in [Nodes -> Places]
    BY DEF IInv, Typed
  <1>2. ASSUME NEW m \in (Dirs \cup Files) \ {Top} PROVE BehindOf(m)'
    <2>1. BehindOf(m) /\ Parent[m] \in Dirs /\ m \in Nodes /\ Parent[m] \in Nodes
      BY TreeAssumption DEF IInv, Behind, Nodes
    <2>0. Parent[m] # n => at'[Parent[m]] = at[Parent[m]]
      BY <2>1, TreeAssumption DEF Led
    <2>2. CASE Parent[m] = n
      <3>1. at[m] = "none" /\ m # n
        BY <2>1, <2>2 DEF BehindOf, Ended
      <3> QED BY <2>1, <3>1 DEF BehindOf, Led
    <2>3. CASE Parent[m] # n /\ m = n
      BY <2>0, <2>1, <2>3 DEF BehindOf, TaskOver, Ended, Led
    <2>4. CASE Parent[m] # n /\ m # n
      BY <2>0, <2>1, <2>4 DEF BehindOf, TaskOver, Ended, Led
    <2> QED BY <2>2, <2>3, <2>4
  <1>3. ASSUME NEW m \in Extras, at'[m] # "none"
        PROVE  at'[ExtraIn[m]] \notin {"none", "task", "stat", "dup", "list", "read"}
    <2>1. ExtraIn[m] \in Dirs /\ m \in Nodes /\ ExtraIn[m] \in Nodes /\ at[m] # "none"
      BY <1>3, TreeAssumption DEF Nodes, Led
    <2>2. at[ExtraIn[m]] \notin {"none", "task", "stat", "dup", "list", "read"}
      BY <2>1 DEF IInv, ExtraBehind
    <2>3. ExtraIn[m] # n => at'[ExtraIn[m]] = at[ExtraIn[m]]
      BY <2>1, TreeAssumption DEF Led
    <2> QED BY <2>1, <2>2, <2>3 DEF Led
  <1> QED BY <1>2, <1>3 DEF Behind, ExtraBehind

\* Both: what remains to be shown of a step is what n holds behind it.
LEMMA LedStep ==
    ASSUME IInv, Counted, NEW n \in Nodes, NEW w \in Places, Led(n, w),
           MoveHolds(n), HoldingOf(n)', at[n] # "none", ~Ended(n),
           TaskOver(n) => w \in {"job", "old", "removing", "ended", "failed"},
           n \in Dirs =>
              /\ at[n] \notin {"group", "job"}
              /\ \/ at[n] \in {"none", "task", "stat", "dup", "list", "read"}
                 \/ w \notin {"none", "task", "stat", "dup", "list", "read"}
    PROVE  IInv'
  <1>1. Holding' /\ at' \in [Nodes -> Places]
    BY LedHolding DEF Led
  <1>2. Behind' /\ ExtraBehind'
    BY LedBehind
  <1> QED BY <1>1, <1>2 DEF Counted, IInv, Typed

LEMMA MoveHolding ==
    ASSUME IInv, NEW n \in Nodes, NEW w \in Places, Goto(n, w),
           MoveHolds(n), HoldingOf(n)'
    PROVE  Holding' /\ at' \in [Nodes -> Places]
  <1>1. Led(n, w)
    BY GotoLed
  <1> QED BY <1>1, LedHolding DEF Led

LEMMA MoveStep ==
    ASSUME IInv, Counted, NEW n \in Nodes, NEW w \in Places, Goto(n, w),
           MoveHolds(n), HoldingOf(n)', at[n] # "none", ~Ended(n),
           TaskOver(n) => w \in {"job", "old", "removing", "ended", "failed"},
           n \in Dirs =>
              /\ at[n] \notin {"group", "job"}
              /\ \/ at[n] \in {"none", "task", "stat", "dup", "list", "read"}
                 \/ w \notin {"none", "task", "stat", "dup", "list", "read"}
    PROVE  IInv'
  <1>1. Led(n, w)
    BY GotoLed
  <1> QED BY <1>1, LedStep

----------------------------------------------------------------------------
(* processDir.                                                             *)

LEMMA OpenDirStep ==
    ASSUME IInv, NEW d \in Dirs, OpenDir(d) PROVE IInv'
  <1> USE DEF Kinds
  <1>0. d \in Nodes /\ HoldingOf(d) /\ maxFDs' = maxFDs /\ at[d] = "task"
    BY TreeAssumption DEF IInv, Holding, OpenDir, Nodes
  <1>h. <<d, "dir">> \notin fds
    BY <1>0 DEF HoldingOf, Holds
  <1>1. CASE Opened(d, "dir") /\ Goto(d, "stat")
    <2>1. /\ Counted
          /\ \A m \in Nodes, l \in Kinds :
                <<m, l>> \in fds' <=> <<m, l>> \in fds \/ (m = d /\ l = "dir")
      BY <1>0, <1>h, <1>1, OpenedCounts DEF IInv
    <2>2. at'[d] = "stat" /\ "stat" \in Places
      BY <1>0, <1>1 DEF Goto, IInv, Typed, Places
    <2>3. MoveHolds(d) /\ HoldingOf(d)'
      BY <1>0, <2>1, <2>2 DEF MoveHolds, HoldingOf, Holds
    <2> QED BY <1>0, <1>1, <2>1, <2>2, <2>3, MoveStep DEF Ended, TaskOver
  <1>2. CASE OpenFails /\ Goto(d, "failed")
    <2>1. Counted /\ fds' = fds
      BY <1>0, <1>h, <1>2, KeptCounts, FaultCounts DEF IInv, Typed, OpenFails
    <2>2. at'[d] = "failed" /\ "failed" \in Places
      BY <1>0, <1>2 DEF Goto, IInv, Typed, Places
    <2>3. MoveHolds(d) /\ HoldingOf(d)'
      BY <1>0, <2>1, <2>2 DEF MoveHolds, HoldingOf, Holds
    <2> QED BY <1>0, <1>2, <2>1, <2>2, <2>3, MoveStep DEF Ended, TaskOver
  <1> QED BY <1>1, <1>2 DEF OpenDir

LEMMA StatDirStep ==
    ASSUME IInv, NEW d \in Dirs, StatDir(d) PROVE IInv'
  <1> USE DEF Kinds
  <1>0. d \in Nodes /\ HoldingOf(d) /\ maxFDs' = maxFDs /\ at[d] = "stat"
    BY TreeAssumption DEF IInv, Holding, StatDir, Nodes
  <1>1. CASE UNCHANGED <<fdSem, fds, lost, excess, faults>> /\ Goto(d, "dup")
    <2>1. Counted /\ fds' = fds
      BY <1>0, <1>1, KeptCounts, FaultCounts DEF IInv, Typed
    <2>2. at'[d] = "dup" /\ "dup" \in Places
      BY <1>0, <1>1 DEF Goto, IInv, Typed, Places
    <2>3. MoveHolds(d) /\ HoldingOf(d)'
      BY <1>0, <2>1, <2>2 DEF MoveHolds, HoldingOf, Holds
    <2> QED BY <1>0, <1>1, <2>1, <2>2, <2>3, MoveStep DEF Ended, TaskOver
  <1>2. CASE Fault /\ UNCHANGED <<fdSem, fds, lost, excess>> /\ Goto(d, "failed")
    <2>1. Counted /\ fds' = fds
      BY <1>0, <1>2, KeptCounts, FaultCounts DEF IInv, Typed
    <2>2. at'[d] = "failed" /\ "failed" \in Places
      BY <1>0, <1>2 DEF Goto, IInv, Typed, Places
    <2>3. MoveHolds(d) /\ HoldingOf(d)'
      BY <1>0, <2>1, <2>2 DEF MoveHolds, HoldingOf, Holds
    <2> QED BY <1>0, <1>2, <2>1, <2>2, <2>3, MoveStep DEF Ended, TaskOver
  <1> QED BY <1>1, <1>2 DEF StatDir

LEMMA DupDirStep ==
    ASSUME IInv, NEW d \in Dirs, DupDir(d) PROVE IInv'
  <1> USE DEF Kinds
  <1>0. d \in Nodes /\ HoldingOf(d) /\ maxFDs' = maxFDs /\ at[d] = "dup"
    BY TreeAssumption DEF IInv, Holding, DupDir, Nodes
  <1>h. <<d, "src">> \notin fds
    BY <1>0 DEF HoldingOf, Holds
  <1>1. CASE Opened(d, "src") /\ Goto(d, "list")
    <2>1. /\ Counted
          /\ \A m \in Nodes, l \in Kinds :
                <<m, l>> \in fds' <=> <<m, l>> \in fds \/ (m = d /\ l = "src")
      BY <1>0, <1>h, <1>1, OpenedCounts DEF IInv
    <2>2. at'[d] = "list" /\ "list" \in Places
      BY <1>0, <1>1 DEF Goto, IInv, Typed, Places
    <2>3. MoveHolds(d) /\ HoldingOf(d)'
      BY <1>0, <2>1, <2>2 DEF MoveHolds, HoldingOf, Holds
    <2> QED BY <1>0, <1>1, <2>1, <2>2, <2>3, MoveStep DEF Ended, TaskOver
  <1>2. CASE Opened(d, "src") /\ Goto(d, "dst")
    <2>1. /\ Counted
          /\ \A m \in Nodes, l \in Kinds :
                <<m, l>> \in fds' <=> <<m, l>> \in fds \/ (m = d /\ l = "src")
      BY <1>0, <1>h, <1>2, OpenedCounts DEF IInv
    <2>2. at'[d] = "dst" /\ "dst" \in Places
      BY <1>0, <1>2 DEF Goto, IInv, Typed, Places
    <2>3. MoveHolds(d) /\ HoldingOf(d)'
      BY <1>0, <2>1, <2>2 DEF MoveHolds, HoldingOf, Holds
    <2> QED BY <1>0, <1>2, <2>1, <2>2, <2>3, MoveStep DEF Ended, TaskOver
  <1>3. CASE /\ Fault /\ fdSem > 0 /\ fdSem' = fdSem - 1 /\ lost' = lost + 1
             /\ UNCHANGED <<fds, excess>> /\ Goto(d, "failed")
    <2>1. Counted /\ fds' = fds
      BY <1>0, <1>h, <1>3, FaultCounts, FS_CardinalityType DEF IInv, Typed, Counted, BudgetExact
    <2>2. at'[d] = "failed" /\ "failed" \in Places
      BY <1>0, <1>3 DEF Goto, IInv, Typed, Places
    <2>3. MoveHolds(d) /\ HoldingOf(d)'
      BY <1>0, <2>1, <2>2 DEF MoveHolds, HoldingOf, Holds
    <2> QED BY <1>0, <1>3, <2>1, <2>2, <2>3, MoveStep DEF Ended, TaskOver
  <1> QED BY <1>1, <1>2, <1>3 DEF DupDir

LEMMA OpenExtrasStep ==
    ASSUME IInv, NEW d \in Dirs, OpenExtras(d) PROVE IInv'
  <1> USE DEF Kinds
  <1>0. d \in Nodes /\ HoldingOf(d) /\ maxFDs' = maxFDs /\ at[d] = "list"
    BY TreeAssumption DEF IInv, Holding, OpenExtras, Nodes
  <1>h. <<d, "prune">> \notin fds
    BY <1>0 DEF HoldingOf, Holds
  <1>1. CASE Opened(d, "prune") /\ Goto(d, "read")
    <2>1. /\ Counted
          /\ \A m \in Nodes, l \in Kinds :
                <<m, l>> \in fds' <=> <<m, l>> \in fds \/ (m = d /\ l = "prune")
      BY <1>0, <1>h, <1>1, OpenedCounts DEF IInv
    <2>2. at'[d] = "read" /\ "read" \in Places
      BY <1>0, <1>1 DEF Goto, IInv, Typed, Places
    <2>3. MoveHolds(d) /\ HoldingOf(d)'
      BY <1>0, <2>1, <2>2 DEF MoveHolds, HoldingOf, Holds
    <2> QED BY <1>0, <1>1, <2>1, <2>2, <2>3, MoveStep DEF Ended, TaskOver
  <1>2. CASE OpenFails /\ Goto(d, "failed")
    <2>1. Counted /\ fds' = fds
      BY <1>0, <1>h, <1>2, KeptCounts, FaultCounts DEF IInv, Typed, OpenFails
    <2>2. at'[d] = "failed" /\ "failed" \in Places
      BY <1>0, <1>2 DEF Goto, IInv, Typed, Places
    <2>3. MoveHolds(d) /\ HoldingOf(d)'
      BY <1>0, <2>1, <2>2 DEF MoveHolds, HoldingOf, Holds
    <2> QED BY <1>0, <1>2, <2>1, <2>2, <2>3, MoveStep DEF Ended, TaskOver
  <1> QED BY <1>1, <1>2 DEF OpenExtras

LEMMA ListExtrasStep ==
    ASSUME IInv, NEW d \in Dirs, ListExtras(d) PROVE IInv'
  <1> USE DEF Kinds
  <1>0. d \in Nodes /\ HoldingOf(d) /\ maxFDs' = maxFDs /\ at[d] = "read"
    BY TreeAssumption DEF IInv, Holding, ListExtras, Nodes
  <1>h. <<d, "prune">> \in fds
    BY <1>0 DEF HoldingOf, Holds
  <1>1. CASE FdopendirFails /\ Goto(d, "failed")
    <2>1. Counted /\ fds' = fds
      BY <1>0, <1>h, <1>1, FdopendirCounts DEF IInv
    <2>2. at'[d] = "failed" /\ "failed" \in Places
      BY <1>0, <1>1 DEF Goto, IInv, Typed, Places
    <2>3. MoveHolds(d) /\ HoldingOf(d)'
      BY <1>0, <2>1, <2>2 DEF MoveHolds, HoldingOf, Holds
    <2> QED BY <1>0, <1>1, <2>1, <2>2, <2>3, MoveStep DEF Ended, TaskOver
  <1>2. CASE /\ Closed(d, {"prune"})
             /\ at' = [n \in Nodes |-> IF n = d THEN "prune"
                                       ELSE IF n \in ExtrasIn(d) THEN "task"
                                       ELSE at[n]]
             /\ UNCHANGED faults
    <2>1. /\ Counted
          /\ \A m \in Nodes, l \in Kinds :
                <<m, l>> \in fds' <=> <<m, l>> \in fds /\ ~(m = d /\ l = "prune")
      BY <1>0, <1>h, <1>2, ClosedOneCounts DEF IInv, Typed
    <2>2. at' \in [Nodes -> Places]
      BY <1>2 DEF IInv, Typed, Places
    <2>3. \A e \in ExtrasIn(d) : e \in Extras /\ e \in Nodes /\ at[e] = "none"
      BY <1>0 DEF ExtrasIn, IInv, ExtraBehind, Nodes
    <2>4. ASSUME NEW m \in Nodes PROVE HoldingOf(m)'
      <3>1. HoldingOf(m)
        BY DEF IInv, Holding
      <3>2. CASE m = d
        BY <1>0, <1>2, <2>1, <3>2 DEF HoldingOf, Holds
      <3>3. CASE m \in ExtrasIn(d)
        <4>1. m # d /\ Holds(m, {}) /\ at'[m] = "task"
          BY <1>0, <1>2, <2>3, <3>1, <3>3 DEF HoldingOf
        <4> QED BY <2>1, <4>1 DEF HoldingOf, Holds
      <3>4. CASE m # d /\ m \notin ExtrasIn(d)
        BY <1>2, <2>1, <3>1, <3>4 DEF HoldingOf, Holds
      <3> QED BY <3>2, <3>3, <3>4
    <2>5. ASSUME NEW m \in (Dirs \cup Files) \ {Top} PROVE BehindOf(m)'
      <3>1. /\ BehindOf(m) /\ m \in Nodes /\ Parent[m] \in Nodes
            /\ m \notin ExtrasIn(d) /\ Parent[m] \notin ExtrasIn(d)
        BY TreeAssumption DEF IInv, Behind, Nodes, ExtrasIn
      <3>2. CASE m = d \/ Parent[m] = d
        BY <1>0, <1>2, <3>1, <3>2 DEF BehindOf, TaskOver, Ended
      <3>3. CASE m # d /\ Parent[m] # d
        BY <1>2, <3>1, <3>3 DEF BehindOf, TaskOver, Ended
      <3> QED BY <3>2, <3>3
    <2>6. ASSUME NEW m \in Extras, at'[m] # "none"
          PROVE  at'[ExtraIn[m]] \notin {"none", "task", "stat", "dup", "list", "read"}
      <3>1. m \in Nodes /\ ExtraIn[m] \in Nodes /\ ExtraIn[m] \notin ExtrasIn(d) /\ m # d
        BY <1>0, TreeAssumption DEF Nodes, ExtrasIn
      <3>2. CASE ExtraIn[m] = d
        BY <1>2, <3>1, <3>2
      <3>3. CASE ExtraIn[m] # d
        <4>1. m \notin ExtrasIn(d)
          BY <3>3 DEF ExtrasIn
        <4> QED BY <1>2, <2>6, <3>1, <3>3, <4>1 DEF IInv, ExtraBehind
      <3> QED BY <3>2, <3>3
    <2> QED BY <2>1, <2>2, <2>4, <2>5, <2>6 DEF IInv, Typed, Counted, Holding, Behind, ExtraBehind
  <1> QED BY <1>1, <1>2 DEF ListExtras

LEMMA PrunedStep ==
    ASSUME IInv, NEW d \in Dirs, Pruned(d) PROVE IInv'
  <1> USE DEF Kinds
  <1>0. d \in Nodes /\ HoldingOf(d) /\ maxFDs' = maxFDs /\ at[d] = "prune"
    BY TreeAssumption DEF IInv, Holding, Pruned, Nodes
  <1>1. CASE UNCHANGED <<fdSem, fds, lost, excess, faults>> /\ Goto(d, "dst")
    <2>1. Counted /\ fds' = fds
      BY <1>0, <1>1, KeptCounts, FaultCounts DEF IInv, Typed
    <2>2. at'[d] = "dst" /\ "dst" \in Places
      BY <1>0, <1>1 DEF Goto, IInv, Typed, Places
    <2>3. MoveHolds(d) /\ HoldingOf(d)'
      BY <1>0, <2>1, <2>2 DEF MoveHolds, HoldingOf, Holds
    <2> QED BY <1>0, <1>1, <2>1, <2>2, <2>3, MoveStep DEF Ended, TaskOver
  <1> QED BY <1>1 DEF Pruned

LEMMA OpenDstStep ==
    ASSUME IInv, NEW d \in Dirs, OpenDst(d) PROVE IInv'
  <1> USE DEF Kinds
  <1>0. d \in Nodes /\ HoldingOf(d) /\ maxFDs' = maxFDs /\ at[d] = "dst"
    BY TreeAssumption DEF IInv, Holding, OpenDst, Nodes
  <1>h. <<d, "dst">> \notin fds
    BY <1>0 DEF HoldingOf, Holds
  <1>1. CASE Opened(d, "dst") /\ Goto(d, "crawl")
    <2>1. /\ Counted
          /\ \A m \in Nodes, l \in Kinds :
                <<m, l>> \in fds' <=> <<m, l>> \in fds \/ (m = d /\ l = "dst")
      BY <1>0, <1>h, <1>1, OpenedCounts DEF IInv
    <2>2. at'[d] = "crawl" /\ "crawl" \in Places
      BY <1>0, <1>1 DEF Goto, IInv, Typed, Places
    <2>3. MoveHolds(d) /\ HoldingOf(d)'
      BY <1>0, <2>1, <2>2 DEF MoveHolds, HoldingOf, Holds
    <2> QED BY <1>0, <1>1, <2>1, <2>2, <2>3, MoveStep DEF Ended, TaskOver
  <1>2. CASE OpenFails /\ Goto(d, "failed")
    <2>1. Counted /\ fds' = fds
      BY <1>0, <1>h, <1>2, KeptCounts, FaultCounts DEF IInv, Typed, OpenFails
    <2>2. at'[d] = "failed" /\ "failed" \in Places
      BY <1>0, <1>2 DEF Goto, IInv, Typed, Places
    <2>3. MoveHolds(d) /\ HoldingOf(d)'
      BY <1>0, <2>1, <2>2 DEF MoveHolds, HoldingOf, Holds
    <2> QED BY <1>0, <1>2, <2>1, <2>2, <2>3, MoveStep DEF Ended, TaskOver
  <1> QED BY <1>1, <1>2 DEF OpenDst

LEMMA CrawlStep ==
    ASSUME IInv, NEW d \in Dirs, Crawl(d) PROVE IInv'
  <1> USE DEF Kinds
  <1>0. d \in Nodes /\ HoldingOf(d) /\ maxFDs' = maxFDs /\ at[d] = "crawl"
    BY TreeAssumption DEF IInv, Holding, Crawl, Nodes
  <1>1. CASE /\ at' = [n \in Nodes |-> IF n = d THEN "group"
                                       ELSE IF n \in Children(d) THEN "task"
                                       ELSE at[n]]
             /\ UNCHANGED <<fdSem, fds, lost, excess, faults>>
    <2>1. Counted /\ fds' = fds
      BY <1>0, <1>1, KeptCounts DEF IInv, Typed
    <2>2. at' \in [Nodes -> Places]
      BY <1>1 DEF IInv, Typed, Places
    <2>3. \A n \in Children(d) : n \in Nodes /\ at[n] = "none"
      BY <1>0 DEF Children, IInv, Behind, BehindOf, Nodes
    <2>4. ASSUME NEW m \in Nodes PROVE HoldingOf(m)'
      <3>1. HoldingOf(m)
        BY DEF IInv, Holding
      <3>2. CASE m = d
        BY <1>0, <1>1, <2>1, <3>2 DEF HoldingOf, Holds
      <3>3. CASE m \in Children(d) /\ m # d
        <4>1. Holds(m, {}) /\ at'[m] = "task"
          BY <1>1, <2>3, <3>1, <3>3 DEF HoldingOf
        <4> QED BY <2>1, <4>1 DEF HoldingOf, Holds
      <3>4. CASE m # d /\ m \notin Children(d)
        BY <1>1, <2>1, <3>1, <3>4 DEF HoldingOf, Holds
      <3> QED BY <3>2, <3>3, <3>4
    <2>5. ASSUME NEW m \in (Dirs \cup Files) \ {Top} PROVE BehindOf(m)'
      <3>1. BehindOf(m) /\ m \in Nodes /\ Parent[m] \in Nodes
        BY TreeAssumption DEF IInv, Behind, Nodes
      <3>2. CASE Parent[m] = d
        BY <1>0, <1>1, <3>1, <3>2 DEF BehindOf
      <3>3. CASE Parent[m] # d
        <4>1. m \notin Children(d)
          BY <3>3 DEF Children
        <4>2. Parent[m] \in Children(d) => at[Parent[m]] = "none"
          BY <2>3
        <4>3. CASE m = d
          BY <1>0, <1>1, <3>1, <3>3, <4>2, <4>3 DEF BehindOf, TaskOver, Ended
        <4>4. CASE m # d
          BY <1>1, <3>1, <3>3, <4>1, <4>2, <4>4 DEF BehindOf, TaskOver, Ended
        <4> QED BY <4>3, <4>4
      <3> QED BY <3>2, <3>3
    <2>6. ASSUME NEW m \in Extras, at'[m] # "none"
          PROVE  at'[ExtraIn[m]] \notin {"none", "task", "stat", "dup", "list", "read"}
      <3>1. m \in Nodes /\ ExtraIn[m] \in Nodes /\ m # d /\ m \notin Children(d)
        BY <1>0, TreeAssumption DEF Nodes, Children
      <3>2. at[ExtraIn[m]] \notin {"none", "task", "stat", "dup", "list", "read"}
        BY <1>1, <2>6, <3>1 DEF IInv, ExtraBehind
      <3>3. ExtraIn[m] \notin Children(d)
        BY <2>3, <3>2
      <3> QED BY <1>1, <3>1, <3>2, <3>3
    <2> QED BY <2>1, <2>2, <2>4, <2>5, <2>6 DEF IInv, Typed, Counted, Holding, Behind, ExtraBehind
  <1>2. CASE /\ Fault
             /\ fds' = fds \ {<<d, "src">>}
             /\ fdSem' = fdSem + 2 /\ excess' = excess + 1
             /\ Goto(d, "job")
             /\ UNCHANGED lost
    <2>0. <<d, "src">> \in fds
      BY <1>0 DEF HoldingOf, Holds
    <2>1. Counted
      <3>1. /\ IsFiniteSet(fds') /\ Cardinality(fds') = Cardinality(fds) - 1
            /\ Cardinality(fds) \in Nat
        BY <1>2, <2>0, FS_RemoveElement, FS_CardinalityType DEF IInv, Typed
      <3>0. fdSem' = fdSem + 2 /\ excess' = excess + 1 /\ lost' = lost /\ maxFDs' = maxFDs
        BY <1>0, <1>2
      <3>2. BudgetExact' /\ fdSem' \in Nat
        BY <3>0, <3>1 DEF BudgetExact, IInv, Typed
      <3>3. fds' \subseteq Nodes \X Kinds /\ faults' \in 0 .. MaxFaults
        BY <1>2, FaultCounts DEF IInv, Typed
      <3> QED BY <1>0, <1>2, <3>1, <3>2, <3>3 DEF Counted, IInv, Typed
    <2>2. at'[d] = "job" /\ "job" \in Places
      BY <1>0, <1>2 DEF Goto, IInv, Typed, Places
    <2>3. MoveHolds(d)
      BY <1>2 DEF MoveHolds
    <2>4. HoldingOf(d)'
      <3>1. d \notin Files /\ <<d, "dst">> \in fds
        BY <1>0, TreeAssumption DEF HoldingOf, Holds
      <3>2. <<d, "dst">> \in fds'
        BY <1>2, <3>1
      <3> QED BY <2>2, <3>1, <3>2 DEF HoldingOf
    <2> QED BY <1>0, <1>2, <2>1, <2>2, <2>3, <2>4, MoveStep DEF Ended, TaskOver
  <1> QED BY <1>1, <1>2 DEF Crawl

LEMMA CrawledStep ==
    ASSUME IInv, NEW d \in Dirs, Crawled(d) PROVE IInv'
  <1> USE DEF Kinds
  <1>0. /\ d \in Nodes /\ d \notin Files /\ HoldingOf(d) /\ maxFDs' = maxFDs /\ at[d] = "group"
        /\ Goto(d, "job") /\ Closed(d, {"dir", "src"}) /\ faults' = faults
    BY TreeAssumption DEF IInv, Holding, Crawled, Nodes
  <1>h. <<d, "dir">> \in fds /\ <<d, "src">> \in fds /\ <<d, "dst">> \in fds
    BY <1>0 DEF HoldingOf, Holds
  <1>1. /\ Counted
        /\ \A m \in Nodes, l \in Kinds :
              <<m, l>> \in fds' <=> <<m, l>> \in fds /\ ~(m = d /\ l \in {"dir", "src"})
    BY <1>0, <1>h, ClosedTwoCounts DEF IInv, Typed
  <1>2. at' = [at EXCEPT ![d] = "job"] /\ "job" \in Places /\ at \in [Nodes -> Places]
    BY <1>0 DEF Goto, IInv, Typed, Places
  <1>3. MoveHolds(d) /\ HoldingOf(d)'
    BY <1>0, <1>h, <1>1, <1>2 DEF MoveHolds, HoldingOf, Holds
  <1>4. Holding' /\ at' \in [Nodes -> Places]
    BY <1>0, <1>2, <1>3, MoveHolding
  <1>5. ASSUME NEW m \in (Dirs \cup Files) \ {Top} PROVE BehindOf(m)'
    <2>1. BehindOf(m) /\ m \in Nodes /\ Parent[m] \in Nodes
      BY TreeAssumption DEF IInv, Behind, Nodes
    <2>2. CASE Parent[m] = d
      <3>1. TaskOver(m) /\ m # d
        BY <1>0, <2>2 DEF Crawled, Children, TaskOver, Ended
      <3> QED BY <1>2, <2>1, <2>2, <3>1 DEF BehindOf, TaskOver, Ended
    <2>3. CASE Parent[m] # d
      BY <1>0, <1>2, <2>1, <2>3 DEF BehindOf, TaskOver, Ended
    <2> QED BY <2>2, <2>3
  <1>6. ExtraBehind'
    BY <1>0, <1>2, TreeAssumption DEF IInv, ExtraBehind, Nodes
  <1> QED BY <1>1, <1>4, <1>5, <1>6 DEF IInv, Typed, Counted, Behind

LEMMA CloseDirStep ==
    ASSUME IInv, NEW d \in Dirs, CloseDir(d) PROVE IInv'
  <1> USE DEF Kinds
  <1>0. /\ d \in Nodes /\ d \notin Files /\ HoldingOf(d) /\ maxFDs' = maxFDs /\ at[d] = "job"
        /\ Goto(d, "ended") /\ Closed(d, {"dst"}) /\ faults' = faults
    BY TreeAssumption DEF IInv, Holding, CloseDir, Nodes
  <1>h. <<d, "dst">> \in fds
    BY <1>0 DEF HoldingOf
  <1>1. /\ Counted
        /\ \A m \in Nodes, l \in Kinds :
              <<m, l>> \in fds' <=> <<m, l>> \in fds /\ ~(m = d /\ l = "dst")
    BY <1>0, <1>h, ClosedOneCounts DEF IInv, Typed
  <1>2. at' = [at EXCEPT ![d] = "ended"] /\ "ended" \in Places /\ at \in [Nodes -> Places]
    BY <1>0 DEF Goto, IInv, Typed, Places
  <1>3. MoveHolds(d) /\ HoldingOf(d)'
    BY <1>0, <1>1, <1>2 DEF MoveHolds, HoldingOf
  <1>4. Holding' /\ at' \in [Nodes -> Places]
    BY <1>0, <1>2, <1>3, MoveHolding
  <1>5. ASSUME NEW m \in (Dirs \cup Files) \ {Top} PROVE BehindOf(m)'
    <2>1. BehindOf(m) /\ m \in Nodes /\ Parent[m] \in Nodes
      BY TreeAssumption DEF IInv, Behind, Nodes
    <2>2. CASE Parent[m] = d
      <3>1. m \in Files => at[m] = "none" \/ Ended(m)
        BY <2>2 DEF CloseDir, Children
      <3>2. at[m] = "none" \/ TaskOver(m)
        BY <1>0, <2>1, <2>2 DEF BehindOf
      <3>3. CASE m = d
        BY <1>0, <1>2, <2>2, <3>3 DEF BehindOf, TaskOver, Ended
      <3>4. CASE m # d
        BY <1>2, <2>1, <2>2, <3>1, <3>2, <3>4 DEF BehindOf, TaskOver, Ended
      <3> QED BY <3>3, <3>4
    <2>3. CASE Parent[m] # d
      BY <1>0, <1>2, <2>1, <2>3 DEF BehindOf, TaskOver, Ended
    <2> QED BY <2>2, <2>3
  <1>6. ExtraBehind'
    BY <1>0, <1>2, TreeAssumption DEF IInv, ExtraBehind, Nodes
  <1> QED BY <1>1, <1>4, <1>5, <1>6 DEF IInv, Typed, Counted, Behind

----------------------------------------------------------------------------
(* Files, and what is removed.                                             *)

LEMMA OpenSourceStep ==
    ASSUME IInv, NEW f \in Files, OpenSource(f) PROVE IInv'
  <1> USE DEF Kinds
  <1>0. f \in Nodes /\ HoldingOf(f) /\ maxFDs' = maxFDs /\ at[f] = "opening" /\ f \notin Dirs
    BY TreeAssumption DEF IInv, Holding, OpenSource, Nodes
  <1>h. <<f, "in">> \notin fds
    BY <1>0 DEF HoldingOf, Holds
  <1>1. CASE Opened(f, "in") /\ Goto(f, "open")
    <2>1. /\ Counted
          /\ \A m \in Nodes, l \in Kinds :
                <<m, l>> \in fds' <=> <<m, l>> \in fds \/ (m = f /\ l = "in")
      BY <1>0, <1>h, <1>1, OpenedCounts DEF IInv
    <2>2. at'[f] = "open" /\ "open" \in Places
      BY <1>0, <1>1 DEF Goto, IInv, Typed, Places
    <2>3. MoveHolds(f) /\ HoldingOf(f)'
      BY <1>0, <2>1, <2>2 DEF MoveHolds, HoldingOf, Holds
    <2> QED BY <1>0, <1>1, <2>1, <2>2, <2>3, MoveStep DEF Ended, TaskOver
  <1>2. CASE OpenFails /\ Goto(f, "failed")
    <2>1. Counted /\ fds' = fds
      BY <1>0, <1>h, <1>2, KeptCounts, FaultCounts DEF IInv, Typed, OpenFails
    <2>2. at'[f] = "failed" /\ "failed" \in Places
      BY <1>0, <1>2 DEF Goto, IInv, Typed, Places
    <2>3. MoveHolds(f) /\ HoldingOf(f)'
      BY <1>0, <2>1, <2>2 DEF MoveHolds, HoldingOf, Holds
    <2> QED BY <1>0, <1>2, <2>1, <2>2, <2>3, MoveStep DEF Ended, TaskOver
  <1> QED BY <1>1, <1>2 DEF OpenSource

LEMMA SkipFileStep ==
    ASSUME IInv, NEW f \in Files, SkipFile(f) PROVE IInv'
  <1> USE DEF Kinds
  <1>0. f \in Nodes /\ HoldingOf(f) /\ maxFDs' = maxFDs /\ at[f] = "task" /\ f \notin Dirs
    BY TreeAssumption DEF IInv, Holding, SkipFile, Nodes
  <1>1. CASE UNCHANGED <<fdSem, fds, lost, excess, faults>> /\ Goto(f, "ended")
    <2>1. Counted /\ fds' = fds
      BY <1>0, <1>1, KeptCounts, FaultCounts DEF IInv, Typed
    <2>2. at'[f] = "ended" /\ "ended" \in Places
      BY <1>0, <1>1 DEF Goto, IInv, Typed, Places
    <2>3. MoveHolds(f) /\ HoldingOf(f)'
      BY <1>0, <2>1, <2>2 DEF MoveHolds, HoldingOf, Holds
    <2> QED BY <1>0, <1>1, <2>1, <2>2, <2>3, MoveStep DEF Ended, TaskOver
  <1> QED BY <1>1 DEF SkipFile

LEMMA BecomeRootStep ==
    ASSUME IInv, NEW f \in Files, BecomeRoot(f) PROVE IInv'
  <1> USE DEF Kinds
  <1>0. f \in Nodes /\ HoldingOf(f) /\ maxFDs' = maxFDs /\ at[f] = "task" /\ f \notin Dirs
    BY TreeAssumption DEF IInv, Holding, BecomeRoot, Nodes
  <1>1. CASE UNCHANGED <<fdSem, fds, lost, excess, faults>> /\ Goto(f, "opening")
    <2>1. Counted /\ fds' = fds
      BY <1>0, <1>1, KeptCounts, FaultCounts DEF IInv, Typed
    <2>2. at'[f] = "opening" /\ "opening" \in Places
      BY <1>0, <1>1 DEF Goto, IInv, Typed, Places
    <2>3. MoveHolds(f) /\ HoldingOf(f)'
      BY <1>0, <2>1, <2>2 DEF MoveHolds, HoldingOf, Holds
    <2> QED BY <1>0, <1>1, <2>1, <2>2, <2>3, MoveStep DEF Ended, TaskOver
  <1>2. CASE UNCHANGED <<fdSem, fds, lost, excess, faults>> /\ Goto(f, "stamp")
    <2>1. Counted /\ fds' = fds
      BY <1>0, <1>2, KeptCounts, FaultCounts DEF IInv, Typed
    <2>2. at'[f] = "stamp" /\ "stamp" \in Places
      BY <1>0, <1>2 DEF Goto, IInv, Typed, Places
    <2>3. MoveHolds(f) /\ HoldingOf(f)'
      BY <1>0, <2>1, <2>2 DEF MoveHolds, HoldingOf, Holds
    <2> QED BY <1>0, <1>2, <2>1, <2>2, <2>3, MoveStep DEF Ended, TaskOver
  <1> QED BY <1>1, <1>2 DEF BecomeRoot

LEMMA WaitForRootStep ==
    ASSUME IInv, NEW f \in Files, WaitForRoot(f) PROVE IInv'
  <1> USE DEF Kinds
  <1>0. f \in Nodes /\ HoldingOf(f) /\ maxFDs' = maxFDs /\ at[f] = "task" /\ f \notin Dirs
    BY TreeAssumption DEF IInv, Holding, WaitForRoot, Nodes
  <1>1. CASE UNCHANGED <<fdSem, fds, lost, excess, faults>> /\ Goto(f, "pending")
    <2>1. Counted /\ fds' = fds
      BY <1>0, <1>1, KeptCounts, FaultCounts DEF IInv, Typed
    <2>2. at'[f] = "pending" /\ "pending" \in Places
      BY <1>0, <1>1 DEF Goto, IInv, Typed, Places
    <2>3. MoveHolds(f) /\ HoldingOf(f)'
      BY <1>0, <2>1, <2>2 DEF MoveHolds, HoldingOf, Holds
    <2> QED BY <1>0, <1>1, <2>1, <2>2, <2>3, MoveStep DEF Ended, TaskOver
  <1> QED BY <1>1 DEF WaitForRoot

LEMMA OpenPartialStep ==
    ASSUME IInv, NEW f \in Files, OpenPartial(f) PROVE IInv'
  <1> USE DEF Kinds
  <1>0. f \in Nodes /\ HoldingOf(f) /\ maxFDs' = maxFDs /\ at[f] = "open" /\ f \notin Dirs
    BY TreeAssumption DEF IInv, Holding, OpenPartial, Nodes
  <1>h. <<f, "out">> \notin fds /\ <<f, "in">> \in fds
    BY <1>0 DEF HoldingOf, Holds
  <1>1. CASE Opened(f, "out") /\ Goto(f, "space")
    <2>1. /\ Counted
          /\ \A m \in Nodes, l \in Kinds :
                <<m, l>> \in fds' <=> <<m, l>> \in fds \/ (m = f /\ l = "out")
      BY <1>0, <1>h, <1>1, OpenedCounts DEF IInv
    <2>2. at'[f] = "space" /\ "space" \in Places
      BY <1>0, <1>1 DEF Goto, IInv, Typed, Places
    <2>3. MoveHolds(f) /\ HoldingOf(f)'
      BY <1>0, <2>1, <2>2 DEF MoveHolds, HoldingOf, Holds
    <2> QED BY <1>0, <1>1, <2>1, <2>2, <2>3, MoveStep DEF Ended, TaskOver
  <1>2. CASE Fault /\ Closed(f, {"in"}) /\ Goto(f, "ended")
    <2>1. /\ Counted
          /\ \A m \in Nodes, l \in Kinds :
                <<m, l>> \in fds' <=> <<m, l>> \in fds /\ ~(m = f /\ l = "in")
      BY <1>0, <1>h, <1>2, ClosedOneCounts, FaultCounts DEF IInv, Typed
    <2>2. at'[f] = "ended" /\ "ended" \in Places
      BY <1>0, <1>2 DEF Goto, IInv, Typed, Places
    <2>3. MoveHolds(f) /\ HoldingOf(f)'
      BY <1>0, <2>1, <2>2 DEF MoveHolds, HoldingOf, Holds
    <2> QED BY <1>0, <1>2, <2>1, <2>2, <2>3, MoveStep DEF Ended, TaskOver
  <1> QED BY <1>1, <1>2 DEF OpenPartial

LEMMA EnqueueFileStep ==
    ASSUME IInv, NEW f \in Files, EnqueueFile(f) PROVE IInv'
  <1> USE DEF Kinds
  <1>0. f \in Nodes /\ HoldingOf(f) /\ maxFDs' = maxFDs /\ at[f] = "space" /\ f \notin Dirs
    BY TreeAssumption DEF IInv, Holding, EnqueueFile, Nodes
  <1>h. <<f, "in">> \in fds /\ <<f, "out">> \in fds
    BY <1>0 DEF HoldingOf, Holds
  <1>1. CASE UNCHANGED <<fdSem, fds, lost, excess, faults>> /\ Goto(f, "job")
    <2>1. Counted /\ fds' = fds
      BY <1>0, <1>h, <1>1, KeptCounts, FaultCounts DEF IInv, Typed
    <2>2. at'[f] = "job" /\ "job" \in Places
      BY <1>0, <1>1 DEF Goto, IInv, Typed, Places
    <2>3. MoveHolds(f) /\ HoldingOf(f)'
      BY <1>0, <2>1, <2>2 DEF MoveHolds, HoldingOf, Holds
    <2> QED BY <1>0, <1>1, <2>1, <2>2, <2>3, MoveStep DEF Ended, TaskOver
  <1>2. CASE Fault /\ Closed(f, {"in", "out"}) /\ Goto(f, "ended")
    <2>1. /\ Counted
          /\ \A m \in Nodes, l \in Kinds :
                <<m, l>> \in fds' <=> <<m, l>> \in fds /\ ~(m = f /\ l \in {"in", "out"})
      BY <1>0, <1>h, <1>2, ClosedTwoCounts, FaultCounts DEF IInv, Typed
    <2>2. at'[f] = "ended" /\ "ended" \in Places
      BY <1>0, <1>2 DEF Goto, IInv, Typed, Places
    <2>3. MoveHolds(f) /\ HoldingOf(f)'
      BY <1>0, <2>1, <2>2 DEF MoveHolds, HoldingOf, Holds
    <2> QED BY <1>0, <1>2, <2>1, <2>2, <2>3, MoveStep DEF Ended, TaskOver
  <1> QED BY <1>1, <1>2 DEF EnqueueFile

LEMMA FinishFileStep ==
    ASSUME IInv, NEW f \in Files, FinishFile(f) PROVE IInv'
  <1> USE DEF Kinds
  <1>0. f \in Nodes /\ HoldingOf(f) /\ maxFDs' = maxFDs /\ at[f] = "job" /\ f \notin Dirs
    BY TreeAssumption DEF IInv, Holding, FinishFile, Nodes
  <1>h. <<f, "in">> \in fds /\ <<f, "out">> \in fds
    BY <1>0 DEF HoldingOf, Holds
  <1>1. CASE faults' = faults /\ Closed(f, {"in", "out"}) /\ Goto(f, "old")
    <2>1. /\ Counted
          /\ \A m \in Nodes, l \in Kinds :
                <<m, l>> \in fds' <=> <<m, l>> \in fds /\ ~(m = f /\ l \in {"in", "out"})
      BY <1>0, <1>h, <1>1, ClosedTwoCounts, FaultCounts DEF IInv, Typed
    <2>2. at'[f] = "old" /\ "old" \in Places
      BY <1>0, <1>1 DEF Goto, IInv, Typed, Places
    <2>3. MoveHolds(f) /\ HoldingOf(f)'
      BY <1>0, <2>1, <2>2 DEF MoveHolds, HoldingOf, Holds
    <2> QED BY <1>0, <1>1, <2>1, <2>2, <2>3, MoveStep DEF Ended, TaskOver
  <1>2. CASE Closed(f, {"in", "out"}) /\ HandOver(f)
    <2>0. faults' = faults /\ Led(f, "ended")
      BY <1>2, HandOverLed DEF HandOver
    <2>1. /\ Counted
          /\ \A m \in Nodes, l \in Kinds :
                <<m, l>> \in fds' <=> <<m, l>> \in fds /\ ~(m = f /\ l \in {"in", "out"})
      BY <1>0, <1>h, <1>2, <2>0, ClosedTwoCounts, FaultCounts DEF IInv, Typed
    <2>2. at'[f] = "ended" /\ "ended" \in Places
      BY <2>0 DEF Led, Places
    <2>3. MoveHolds(f) /\ HoldingOf(f)'
      BY <1>0, <2>1, <2>2 DEF MoveHolds, HoldingOf, Holds
    <2> QED BY <1>0, <2>0, <2>1, <2>2, <2>3, LedStep DEF Ended, TaskOver
  <1>3. CASE Fault /\ Closed(f, {"in", "out"}) /\ Goto(f, "ended")
    <2>1. /\ Counted
          /\ \A m \in Nodes, l \in Kinds :
                <<m, l>> \in fds' <=> <<m, l>> \in fds /\ ~(m = f /\ l \in {"in", "out"})
      BY <1>0, <1>h, <1>3, ClosedTwoCounts, FaultCounts DEF IInv, Typed
    <2>2. at'[f] = "ended" /\ "ended" \in Places
      BY <1>0, <1>3 DEF Goto, IInv, Typed, Places
    <2>3. MoveHolds(f) /\ HoldingOf(f)'
      BY <1>0, <2>1, <2>2 DEF MoveHolds, HoldingOf, Holds
    <2> QED BY <1>0, <1>3, <2>1, <2>2, <2>3, MoveStep DEF Ended, TaskOver
  <1> QED BY <1>1, <1>2, <1>3 DEF FinishFile, GiveUp

LEMMA FinishStampStep ==
    ASSUME IInv, NEW f \in Files, FinishStamp(f) PROVE IInv'
  <1> USE DEF Kinds
  <1>0. f \in Nodes /\ HoldingOf(f) /\ maxFDs' = maxFDs /\ at[f] = "stamp" /\ f \notin Dirs
    BY TreeAssumption DEF IInv, Holding, FinishStamp, Nodes
  <1>1. CASE Fault /\ UNCHANGED <<fdSem, fds, lost, excess>> /\ Goto(f, "ended")
    <2>1. Counted /\ fds' = fds
      BY <1>0, <1>1, KeptCounts, FaultCounts DEF IInv, Typed
    <2>2. at'[f] = "ended" /\ "ended" \in Places
      BY <1>0, <1>1 DEF Goto, IInv, Typed, Places
    <2>3. MoveHolds(f) /\ HoldingOf(f)'
      BY <1>0, <2>1, <2>2 DEF MoveHolds, HoldingOf, Holds
    <2> QED BY <1>0, <1>1, <2>1, <2>2, <2>3, MoveStep DEF Ended, TaskOver
  <1>2. CASE UNCHANGED <<fdSem, fds, lost, excess>> /\ HandOver(f)
    <2>0. faults' = faults /\ Led(f, "ended")
      BY <1>2, HandOverLed DEF HandOver
    <2>1. Counted /\ fds' = fds
      BY <1>0, <1>2, <2>0, KeptCounts, FaultCounts DEF IInv, Typed
    <2>2. at'[f] = "ended" /\ "ended" \in Places
      BY <2>0 DEF Led, Places
    <2>3. MoveHolds(f) /\ HoldingOf(f)'
      BY <1>0, <2>1, <2>2 DEF MoveHolds, HoldingOf, Holds
    <2> QED BY <1>0, <2>0, <2>1, <2>2, <2>3, LedStep DEF Ended, TaskOver
  <1> QED BY <1>1, <1>2 DEF FinishStamp, GiveUp

LEMMA RemoveOpenStep ==
    ASSUME IInv, NEW n \in Files \cup Extras, RemoveOpen(n) PROVE IInv'
  <1> USE DEF Kinds
  <1>0. /\ n \in Nodes /\ HoldingOf(n) /\ maxFDs' = maxFDs
        /\ at[n] \in {"task", "old"} /\ n \notin Dirs
    BY TreeAssumption DEF IInv, Holding, RemoveOpen, Nodes
  <1>h. <<n, "old">> \notin fds
    BY <1>0 DEF HoldingOf, Holds
  <1>1. CASE Opened(n, "old") /\ Goto(n, "removing")
    <2>1. /\ Counted
          /\ \A m \in Nodes, l \in Kinds :
                <<m, l>> \in fds' <=> <<m, l>> \in fds \/ (m = n /\ l = "old")
      BY <1>0, <1>h, <1>1, OpenedCounts DEF IInv
    <2>2. at'[n] = "removing" /\ "removing" \in Places
      BY <1>0, <1>1 DEF Goto, IInv, Typed, Places
    <2>3. MoveHolds(n) /\ HoldingOf(n)'
      BY <1>0, <2>1, <2>2 DEF MoveHolds, HoldingOf, Holds
    <2> QED BY <1>0, <1>1, <2>1, <2>2, <2>3, MoveStep DEF Ended, TaskOver
  <1>2. CASE OpenFails /\ Goto(n, "failed")
    <2>1. Counted /\ fds' = fds
      BY <1>0, <1>h, <1>2, KeptCounts, FaultCounts DEF IInv, Typed, OpenFails
    <2>2. at'[n] = "failed" /\ "failed" \in Places
      BY <1>0, <1>2 DEF Goto, IInv, Typed, Places
    <2>3. MoveHolds(n) /\ HoldingOf(n)'
      BY <1>0, <2>1, <2>2 DEF MoveHolds, HoldingOf, Holds
    <2> QED BY <1>0, <1>2, <2>1, <2>2, <2>3, MoveStep DEF Ended, TaskOver
  <1> QED BY <1>1, <1>2 DEF RemoveOpen

LEMMA RemoveListStep ==
    ASSUME IInv, NEW n \in Files \cup Extras, RemoveList(n) PROVE IInv'
  <1> USE DEF Kinds
  <1>0. n \in Nodes /\ HoldingOf(n) /\ maxFDs' = maxFDs /\ at[n] = "removing" /\ n \notin Dirs
    BY TreeAssumption DEF IInv, Holding, RemoveList, Nodes
  <1>h. <<n, "old">> \in fds
    BY <1>0 DEF HoldingOf, Holds
  <1>1. CASE faults' = faults /\ Closed(n, {"old"}) /\ Goto(n, "ended")
    <2>1. /\ Counted
          /\ \A m \in Nodes, l \in Kinds :
                <<m, l>> \in fds' <=> <<m, l>> \in fds /\ ~(m = n /\ l = "old")
      BY <1>0, <1>h, <1>1, ClosedOneCounts, FaultCounts DEF IInv, Typed
    <2>2. at'[n] = "ended" /\ "ended" \in Places
      BY <1>0, <1>1 DEF Goto, IInv, Typed, Places
    <2>3. MoveHolds(n) /\ HoldingOf(n)'
      BY <1>0, <2>1, <2>2 DEF MoveHolds, HoldingOf, Holds
    <2> QED BY <1>0, <1>1, <2>1, <2>2, <2>3, MoveStep DEF Ended, TaskOver
  <1>2. CASE FdopendirFails /\ Goto(n, "failed")
    <2>1. Counted /\ fds' = fds
      BY <1>0, <1>h, <1>2, FdopendirCounts DEF IInv
    <2>2. at'[n] = "failed" /\ "failed" \in Places
      BY <1>0, <1>2 DEF Goto, IInv, Typed, Places
    <2>3. MoveHolds(n) /\ HoldingOf(n)'
      BY <1>0, <2>1, <2>2 DEF MoveHolds, HoldingOf, Holds
    <2> QED BY <1>0, <1>2, <2>1, <2>2, <2>3, MoveStep DEF Ended, TaskOver
  <1>3. CASE Fault /\ Closed(n, {"old"}) /\ Goto(n, "ended")
    <2>1. /\ Counted
          /\ \A m \in Nodes, l \in Kinds :
                <<m, l>> \in fds' <=> <<m, l>> \in fds /\ ~(m = n /\ l = "old")
      BY <1>0, <1>h, <1>3, ClosedOneCounts, FaultCounts DEF IInv, Typed
    <2>2. at'[n] = "ended" /\ "ended" \in Places
      BY <1>0, <1>3 DEF Goto, IInv, Typed, Places
    <2>3. MoveHolds(n) /\ HoldingOf(n)'
      BY <1>0, <2>1, <2>2 DEF MoveHolds, HoldingOf, Holds
    <2> QED BY <1>0, <1>3, <2>1, <2>2, <2>3, MoveStep DEF Ended, TaskOver
  <1>4. CASE n \in Files /\ Closed(n, {"old"}) /\ HandOver(n)
    <2>0. faults' = faults /\ Led(n, "ended")
      BY <1>4, HandOverLed DEF HandOver
    <2>1. /\ Counted
          /\ \A m \in Nodes, l \in Kinds :
                <<m, l>> \in fds' <=> <<m, l>> \in fds /\ ~(m = n /\ l = "old")
      BY <1>0, <1>h, <1>4, <2>0, ClosedOneCounts, FaultCounts DEF IInv, Typed
    <2>2. at'[n] = "ended" /\ "ended" \in Places
      BY <2>0 DEF Led, Places
    <2>3. MoveHolds(n) /\ HoldingOf(n)'
      BY <1>0, <2>1, <2>2 DEF MoveHolds, HoldingOf, Holds
    <2> QED BY <1>0, <2>0, <2>1, <2>2, <2>3, LedStep DEF Ended, TaskOver
  <1> QED BY <1>1, <1>2, <1>3, <1>4 DEF RemoveList, GiveUp

----------------------------------------------------------------------------
(* The invariant.                                                          *)

LEMMA InitIInv == Init => IInv
  <1> SUFFICES ASSUME Init PROVE IInv
    OBVIOUS
  <1>1. Typed /\ Cardinality(fds) = 0
    BY OptionAssumption, FS_EmptySet DEF Init, Typed, Places, Kinds
  <1>2. Holding
    BY DEF Init, Holding, HoldingOf, Holds
  <1>3. Behind
    BY DEF Init, Behind, BehindOf, Nodes
  <1>4. ExtraBehind
    BY TreeAssumption DEF Init, ExtraBehind, Nodes
  <1>5. BudgetExact
    BY <1>1, OptionAssumption DEF Init, BudgetExact, Typed
  <1> QED BY <1>1, <1>2, <1>3, <1>4, <1>5 DEF IInv

LEMMA StepIInv == IInv /\ [Next]_vars => IInv'
  <1> SUFFICES ASSUME IInv, [Next]_vars PROVE IInv'
    OBVIOUS
  <1>1. ASSUME NEW d \in Dirs,
               \/ OpenDir(d) \/ StatDir(d) \/ DupDir(d)
               \/ OpenExtras(d) \/ ListExtras(d) \/ Pruned(d)
               \/ OpenDst(d) \/ Crawl(d) \/ Crawled(d) \/ CloseDir(d)
        PROVE  IInv'
    BY <1>1, OpenDirStep, StatDirStep, DupDirStep, OpenExtrasStep, ListExtrasStep,
       PrunedStep, OpenDstStep, CrawlStep, CrawledStep, CloseDirStep
  <1>2. ASSUME NEW f \in Files,
               \/ SkipFile(f) \/ BecomeRoot(f) \/ WaitForRoot(f)
               \/ OpenSource(f) \/ OpenPartial(f) \/ EnqueueFile(f)
               \/ FinishFile(f) \/ FinishStamp(f)
        PROVE  IInv'
    BY <1>2, SkipFileStep, BecomeRootStep, WaitForRootStep, OpenSourceStep,
       OpenPartialStep, EnqueueFileStep, FinishFileStep, FinishStampStep
  <1>3. ASSUME NEW n \in Files \cup Extras, RemoveOpen(n) \/ RemoveList(n)
        PROVE  IInv'
    BY <1>3, RemoveOpenStep, RemoveListStep
  <1>4. CASE UNCHANGED vars
    BY <1>4 DEF vars, IInv, Typed, Holding, HoldingOf, Holds, Behind, BehindOf,
       TaskOver, Ended, ExtraBehind, BudgetExact
  <1> QED BY <1>1, <1>2, <1>3, <1>4 DEF Next

\* In every reachable state the semaphore and what is open agree, and where each
\* directory, file and extra stands says what it holds.
THEOREM InductiveInvariant == Spec => []IInv
  BY InitIInv, StepIInv, PTL DEF Spec

----------------------------------------------------------------------------
(* The names that wait.  Their root is registered, and is on its way to    *)
(* its transfer unless something failed; a file has one root.              *)

RootAt == {"opening", "open", "space", "job", "stamp", "old", "removing"}
OneRootEach ==
    /\ \A f \in Files : at[f] \in RootAt => info[Inode[f]] # "none"
    /\ \A f, g \in Files :
          at[f] \in RootAt /\ at[g] \in RootAt /\ Inode[f] = Inode[g] => f = g
Linked ==
    /\ OneRootEach
    /\ info \in [Inodes -> {"none", "waiting", "transferred"}]
    /\ \A f \in Files : at[f] = "pending" => info[Inode[f]] = "waiting"
    /\ \A i \in Inodes : info[i] = "waiting" =>
          faults > 0 \/ \E f \in Files : Inode[f] = i /\ at[f] \in RootAt

\* A step of n that leaves the HLinkInfo alone and fails a root, if at all, by a fault.
LeftAlone(n) ==
    /\ info' = info /\ faults' \in Nat /\ faults' >= faults
    /\ at'[n] # "pending"
    /\ n \in Files /\ at[n] \in RootAt => at'[n] \in RootAt \/ faults' > 0
    /\ n \in Files /\ at'[n] \in RootAt => at[n] \in RootAt
    /\ \A m \in Files \ {n} : at'[m] = at[m] \/ (at[m] = "none" /\ at'[m] = "task")

LEMMA ApartLinked ==
    ASSUME IInv, Linked, NEW n \in Nodes, LeftAlone(n) PROVE Linked'
  <1>0. faults \in Nat
    BY OptionAssumption DEF IInv, Typed
  <1>1. ASSUME NEW i \in Inodes, info'[i] = "waiting"
        PROVE  faults' > 0 \/ \E f \in Files : Inode[f] = i /\ at'[f] \in RootAt
    <2>1. CASE faults > 0
      BY <1>0, <2>1 DEF LeftAlone
    <2>2. CASE \E f \in Files : Inode[f] = i /\ at[f] \in RootAt
      BY <2>2 DEF LeftAlone, RootAt
    <2> QED BY <1>1, <2>1, <2>2 DEF Linked, LeftAlone
  <1>2. \A f \in Files : at'[f] = "pending" => info'[Inode[f]] = "waiting"
    BY DEF LeftAlone, Linked
  <1>3. \A m \in Files : at'[m] \in RootAt => at[m] \in RootAt
    BY DEF LeftAlone, RootAt
  <1>4. OneRootEach'
    BY <1>3 DEF OneRootEach, LeftAlone, Linked
  <1> QED BY <1>1, <1>2, <1>4 DEF Linked, LeftAlone

LEMMA HandOverLinked ==
    ASSUME IInv, Linked, NEW f \in Files, HandOver(f) PROVE Linked'
  <1>0. /\ faults' = faults /\ Inode[f] \in Inodes
        /\ at' = [n \in Nodes |-> IF n = f \/ n \in Waiting(f) THEN "ended" ELSE at[n]]
        /\ info' = [info EXCEPT ![Inode[f]] = "transferred"]
    BY DEF HandOver, Inodes
  <1>1. \A m \in Files : at'[m] = at[m] \/ Inode[m] = Inode[f]
    BY <1>0 DEF Waiting, Nodes
  <1>2. \A m \in Files : at'[m] = "pending" => Inode[m] # Inode[f] /\ at[m] = "pending"
    BY <1>0 DEF Waiting, Nodes
  <1>3. \A m \in Files : Inode[m] \in Inodes
    BY DEF Inodes
  <1>4. /\ info' \in [Inodes -> {"none", "waiting", "transferred"}]
        /\ \A i \in Inodes \ {Inode[f]} : info'[i] = info[i]
        /\ info'[Inode[f]] = "transferred"
    BY <1>0 DEF Linked
  <1>5. \A m \in Files : at'[m] = "pending" => info'[Inode[m]] = "waiting"
    BY <1>2, <1>3, <1>4 DEF Linked
  <1>6. ASSUME NEW i \in Inodes, info'[i] = "waiting"
        PROVE  faults' > 0 \/ \E m \in Files : Inode[m] = i /\ at'[m] \in RootAt
    <2>1. i # Inode[f] /\ info[i] = "waiting"
      BY <1>4, <1>6
    <2> QED BY <1>0, <1>1, <2>1 DEF Linked
  <1>7. \A m \in Files : at'[m] \in RootAt => at[m] \in RootAt
    BY <1>0 DEF RootAt, Nodes
  <1>8. \A m \in Files : info'[Inode[m]] = "none" => info[Inode[m]] = "none"
    BY <1>3, <1>4
  <1>9. OneRootEach'
    BY <1>7, <1>8 DEF OneRootEach, Linked
  <1> QED BY <1>4, <1>5, <1>6, <1>9 DEF Linked

LEMMA FileLinked ==
    ASSUME IInv, Linked, NEW f \in Files,
           \/ SkipFile(f) \/ BecomeRoot(f) \/ WaitForRoot(f)
           \/ OpenSource(f) \/ OpenPartial(f) \/ EnqueueFile(f)
           \/ FinishFile(f) \/ FinishStamp(f)
    PROVE  Linked'
  <1>0. /\ f \in Nodes /\ at \in [Nodes -> Places] /\ faults \in Nat
        /\ Inode[f] \in Inodes
    BY OptionAssumption DEF IInv, Typed, Nodes, Inodes
  <1>g. ASSUME NEW w, Goto(f, w)
        PROVE  at'[f] = w /\ \A m \in Files \ {f} : at'[m] = at[m]
    BY <1>0, <1>g DEF Goto, Nodes
  <1>1. ASSUME SkipFile(f) PROVE Linked'
    <2>1. LeftAlone(f)
      BY <1>0, <1>g, <1>1 DEF SkipFile, LeftAlone, RootAt
    <2> QED BY <1>0, <2>1, ApartLinked
  <1>2. ASSUME BecomeRoot(f) PROVE Linked'
    <2>1. /\ at'[f] \in {"opening", "stamp"} /\ \A m \in Files \ {f} : at'[m] = at[m]
          /\ info' = [info EXCEPT ![Inode[f]] = "waiting"] /\ faults' = faults
          /\ at[f] = "task" /\ info[Inode[f]] = "none"
      BY <1>g, <1>2 DEF BecomeRoot
    <2>2. \A m \in Files : Inode[m] \in Inodes
      BY DEF Inodes
    <2>3. OneRootEach'
      BY <1>0, <2>1, <2>2 DEF OneRootEach, Linked, RootAt
    <2> QED BY <1>0, <2>1, <2>3 DEF Linked, RootAt
  <1>3. ASSUME WaitForRoot(f) PROVE Linked'
    <2>1. /\ at'[f] = "pending" /\ \A m \in Files \ {f} : at'[m] = at[m]
          /\ info' = info /\ faults' = faults /\ at[f] = "task"
          /\ info[Inode[f]] = "waiting"
      BY <1>g, <1>3 DEF WaitForRoot
    <2> QED BY <1>0, <2>1 DEF Linked, OneRootEach, RootAt
  <1>4. ASSUME OpenSource(f) PROVE Linked'
    <2>1. LeftAlone(f)
      BY <1>0, <1>g, <1>4 DEF OpenSource, Opened, OpenFails, Fault, LeftAlone, RootAt
    <2> QED BY <1>0, <2>1, ApartLinked
  <1>5. ASSUME OpenPartial(f) PROVE Linked'
    <2>1. LeftAlone(f)
      BY <1>0, <1>g, <1>5 DEF OpenPartial, Opened, Fault, LeftAlone, RootAt
    <2> QED BY <1>0, <2>1, ApartLinked
  <1>6. ASSUME EnqueueFile(f) PROVE Linked'
    <2>1. LeftAlone(f)
      BY <1>0, <1>g, <1>6 DEF EnqueueFile, Fault, LeftAlone, RootAt
    <2> QED BY <1>0, <2>1, ApartLinked
  <1>7. ASSUME GiveUp(f) PROVE Linked'
    <2>1. LeftAlone(f)
      BY <1>0, <1>g, <1>7 DEF GiveUp, Fault, LeftAlone, RootAt
    <2> QED BY <1>0, <2>1, ApartLinked
  <1>8. ASSUME FinishFile(f) PROVE Linked'
    <2>1. CASE at[f] = "job" /\ Goto(f, "old") /\ UNCHANGED <<info, faults>>
      <3>1. LeftAlone(f)
        BY <1>0, <1>g, <2>1 DEF LeftAlone, RootAt
      <3> QED BY <1>0, <3>1, ApartLinked
    <2> QED BY <1>7, <1>8, <2>1, HandOverLinked DEF FinishFile
  <1>9. ASSUME FinishStamp(f) PROVE Linked'
    BY <1>7, <1>9, HandOverLinked DEF FinishStamp
  <1> QED BY <1>1, <1>2, <1>3, <1>4, <1>5, <1>6, <1>8, <1>9

LEMMA RemovalLinked ==
    ASSUME IInv, Linked, NEW n \in Files \cup Extras, RemoveOpen(n) \/ RemoveList(n)
    PROVE  Linked'
  <1>0. /\ n \in Nodes /\ at \in [Nodes -> Places] /\ faults \in Nat
    BY OptionAssumption DEF IInv, Typed, Nodes
  <1>g. ASSUME NEW w, Goto(n, w)
        PROVE  at'[n] = w /\ \A m \in Files \ {n} : at'[m] = at[m]
    BY <1>0, <1>g DEF Goto, Nodes
  <1>1. ASSUME RemoveOpen(n) PROVE Linked'
    <2>1. n \in Extras => n \notin Files
      BY TreeAssumption
    <2>2. faults' \in Nat /\ faults' >= faults /\ info' = info
      BY <1>0, <1>1 DEF RemoveOpen, Opened, OpenFails, Fault
    <2>3. CASE Opened(n, "old") /\ Goto(n, "removing")
      <3>1. n \in Files => at[n] \in RootAt
        BY <1>1, <2>1 DEF RemoveOpen, RootAt
      <3>2. LeftAlone(n)
        BY <1>0, <1>g, <2>2, <2>3, <3>1 DEF LeftAlone, RootAt
      <3> QED BY <1>0, <3>2, ApartLinked
    <2>4. CASE OpenFails /\ Goto(n, "failed")
      <3>1. LeftAlone(n)
        BY <1>0, <1>g, <2>2, <2>4 DEF LeftAlone, OpenFails, Fault, RootAt
      <3> QED BY <1>0, <3>1, ApartLinked
    <2> QED BY <1>1, <2>3, <2>4 DEF RemoveOpen
  <1>2. ASSUME RemoveList(n) PROVE Linked'
    <2>1. CASE n \in Extras /\ Goto(n, "ended") /\ UNCHANGED <<info, faults>>
      <3>1. n \notin Files
        BY <2>1, TreeAssumption
      <3>2. LeftAlone(n)
        BY <1>0, <1>g, <2>1, <3>1 DEF LeftAlone, RootAt
      <3> QED BY <1>0, <3>2, ApartLinked
    <2>2. CASE FdopendirFails /\ Goto(n, "failed") /\ UNCHANGED info
      <3>1. LeftAlone(n)
        BY <1>0, <1>g, <2>2 DEF FdopendirFails, Fault, LeftAlone, RootAt
      <3> QED BY <1>0, <3>1, ApartLinked
    <2>3. CASE n \in Files /\ GiveUp(n)
      <3>1. LeftAlone(n)
        BY <1>0, <1>g, <2>3 DEF GiveUp, Fault, LeftAlone, RootAt
      <3> QED BY <1>0, <3>1, ApartLinked
    <2> QED BY <1>2, <2>1, <2>2, <2>3, HandOverLinked DEF RemoveList
  <1> QED BY <1>1, <1>2

LEMMA DirLinked ==
    ASSUME IInv, Linked, NEW d \in Dirs,
           \/ OpenDir(d) \/ StatDir(d) \/ DupDir(d)
           \/ OpenExtras(d) \/ ListExtras(d) \/ Pruned(d)
           \/ OpenDst(d) \/ Crawl(d) \/ Crawled(d) \/ CloseDir(d)
    PROVE  Linked'
  <1>0. /\ d \in Nodes /\ d \notin Files /\ at \in [Nodes -> Places] /\ faults \in Nat
    BY TreeAssumption, OptionAssumption DEF IInv, Typed, Nodes
  <1>1. info' = info /\ faults' \in Nat /\ faults' >= faults
    BY <1>0 DEF OpenDir, StatDir, DupDir, OpenExtras, ListExtras, Pruned, OpenDst, Crawl,
       Crawled, CloseDir, Opened, OpenFails, FdopendirFails, Fault
  <1>2. /\ at'[d] # "pending"
        /\ \A m \in Files : at'[m] = at[m] \/ (at[m] = "none" /\ at'[m] = "task")
    <2>1. CASE \E w \in Places \ {"pending"} : Goto(d, w)
      BY <1>0, <2>1 DEF Goto, Nodes
    <2>2. CASE at' = [n \in Nodes |-> IF n = d THEN "prune"
                                      ELSE IF n \in ExtrasIn(d) THEN "task" ELSE at[n]]
      BY <1>0, <2>2, TreeAssumption DEF ExtrasIn, Nodes
    <2>3. CASE /\ at' = [n \in Nodes |-> IF n = d THEN "group"
                                         ELSE IF n \in Children(d) THEN "task" ELSE at[n]]
               /\ at[d] = "crawl"
      <3>1. \A m \in Children(d) : at[m] = "none"
        BY <2>3 DEF IInv, Behind, BehindOf, Children
      <3> QED BY <1>0, <2>3, <3>1 DEF Nodes
    <2>4. ASSUME NEW w \in {"stat", "dup", "list", "dst", "read", "crawl", "job", "ended",
                            "failed"}, Goto(d, w)
          PROVE  \E v \in Places \ {"pending"} : Goto(d, v)
      BY <2>4 DEF Places
    <2>5. CASE OpenDir(d) \/ StatDir(d) \/ DupDir(d) \/ OpenExtras(d)
      BY <2>1, <2>4, <2>5 DEF OpenDir, StatDir, DupDir, OpenExtras
    <2>6. CASE Pruned(d) \/ OpenDst(d) \/ Crawled(d) \/ CloseDir(d)
      BY <2>1, <2>4, <2>6 DEF Pruned, OpenDst, Crawled, CloseDir
    <2>7. CASE ListExtras(d)
      BY <2>1, <2>2, <2>4, <2>7 DEF ListExtras
    <2>8. CASE Crawl(d)
      BY <2>1, <2>3, <2>4, <2>8 DEF Crawl
    <2> QED BY <2>5, <2>6, <2>7, <2>8
  <1>3. LeftAlone(d)
    BY <1>0, <1>1, <1>2 DEF LeftAlone
  <1> QED BY <1>0, <1>3, ApartLinked

LEMMA StepLinked == IInv /\ Linked /\ [Next]_vars => Linked'
  <1> SUFFICES ASSUME IInv, Linked, [Next]_vars PROVE Linked'
    OBVIOUS
  <1>1. CASE Next
    BY <1>1, DirLinked, FileLinked, RemovalLinked DEF Next
  <1>2. CASE UNCHANGED vars
    BY <1>2 DEF vars, Linked, OneRootEach
  <1> QED BY <1>1, <1>2

\* Names wait for what is registered, and nobody but after a failure for a root that
\* is on its way no more (hlinkstate.cpp:263-272).
LEMMA NamesWait == Spec => []Linked
  <1>1. Init => Linked
    BY TreeAssumption DEF Init, Linked, OneRootEach, RootAt, Nodes, Inodes
  <1> QED BY <1>1, InductiveInvariant, StepLinked, PTL DEF Spec

----------------------------------------------------------------------------
(* The theorems.                                                           *)

\* The state has its type: no unit is given back that was not taken
\* (syscalls.h:181-243).
THEOREM TypeCorrect == Spec => []TypeOK
  <1>1. IInv /\ Linked => TypeOK
    <2> SUFFICES ASSUME IInv, Linked PROVE TypeOK
      OBVIOUS
    <2>1. Cardinality(fds) \in Nat
      BY FS_CardinalityType DEF IInv, Typed
    <2> QED BY <2>1 DEF IInv, Linked, Typed, TypeOK, BudgetExact
  <1> QED BY <1>1, InductiveInvariant, NamesWait, PTL

\* The units that are taken are the descriptors that are open, but for what a
\* failed dup and a failed fdopendir leave behind (copy2.cpp:990,
\* syscalls.h:232).
THEOREM BudgetCounts == Spec => []BudgetExact
  <1>1. IInv => BudgetExact
    BY DEF IInv
  <1> QED BY <1>1, InductiveInvariant, PTL

\* No task and no finish processor uses a directory's descriptor that has been
\* closed (copy2.cpp:1074-1130, fdrcguard.h:33-58).
THEOREM DescriptorsStayOpen == Spec => []StillOpen
  <1>1. IInv => StillOpen
    <2> SUFFICES ASSUME IInv, NEW n \in (Dirs \cup Files) \ {Top}, at[n] # "none"
                 PROVE  /\ ~TaskOver(n) => <<Parent[n], "src">> \in fds
                        /\ ~Ended(n) /\ (n \in Files \/ ~TaskOver(n))
                              => <<Parent[n], "dst">> \in fds
      BY DEF StillOpen
    <2>1. BehindOf(n) /\ HoldingOf(Parent[n]) /\ Parent[n] \in Dirs
      BY TreeAssumption DEF IInv, Behind, Holding, Nodes
    <2>2. at[Parent[n]] = "group" => /\ <<Parent[n], "src">> \in fds
                                     /\ <<Parent[n], "dst">> \in fds
      BY <2>1 DEF HoldingOf, Holds, Kinds
    <2>3. at[Parent[n]] = "job" => <<Parent[n], "dst">> \in fds
      BY <2>1 DEF HoldingOf
    <2> QED BY <2>1, <2>2, <2>3 DEF BehindOf, TaskOver, Ended
  <1> QED BY <1>1, InductiveInvariant, PTL

----------------------------------------------------------------------------
(***************************************************************************)
(* What is left open.  Left are the descriptors that nobody is going to    *)
(* close: those of whoever has ended, and a directory's but the            *)
(* destination's once its job is sent.  A failure leaves three at most,    *)
(* and then a unit is given back (ListExtras); otherwise two at most, or   *)
(* one with a unit taken for nothing (DupDir).                             *)
(***************************************************************************)
Left == {fd \in fds : \/ Ended(fd[1])
                      \/ fd[1] \in Dirs /\ at[fd[1]] = "job" /\ fd[2] # "dst"}
Ledger == Cardinality(Left) + lost <= 2 * faults + excess

\* Whoever has ended and is no directory of the source holds the listed one at most.
OwnKinds ==
    \A n \in Files \cup Extras : Ended(n) => \A k \in Kinds : <<n, k>> \in fds => k = "old"

Leftovers == IInv /\ Ledger /\ OwnKinds

LEMMA KindSets ==
    /\ IsFiniteSet({}) /\ Cardinality({}) = 0
    /\ IsFiniteSet({"dir"}) /\ Cardinality({"dir"}) = 1
    /\ IsFiniteSet({"old"}) /\ Cardinality({"old"}) = 1
    /\ IsFiniteSet({"dir", "src"}) /\ Cardinality({"dir", "src"}) = 2
    /\ IsFiniteSet({"dir", "src", "prune"}) /\ Cardinality({"dir", "src", "prune"}) = 3
  <1>1. IsFiniteSet({}) /\ Cardinality({}) = 0
    BY FS_EmptySet
  <1>2. /\ IsFiniteSet({"dir"}) /\ Cardinality({"dir"}) = 1
        /\ IsFiniteSet({"old"}) /\ Cardinality({"old"}) = 1
    BY FS_Singleton
  <1>3. IsFiniteSet({"dir", "src"}) /\ Cardinality({"dir", "src"}) = 2
    <2>1. {"dir", "src"} = {"dir"} \cup {"src"} /\ "src" \notin {"dir"}
      OBVIOUS
    <2>2. /\ IsFiniteSet({"dir"} \cup {"src"})
          /\ Cardinality({"dir"} \cup {"src"}) = Cardinality({"dir"}) + 1
      BY <1>2, <2>1, FS_AddElement
    <2> QED BY <1>2, <2>1, <2>2
  <1>4. IsFiniteSet({"dir", "src", "prune"}) /\ Cardinality({"dir", "src", "prune"}) = 3
    <2>1. {"dir", "src", "prune"} = {"dir", "src"} \cup {"prune"} /\ "prune" \notin {"dir", "src"}
      OBVIOUS
    <2>2. /\ IsFiniteSet({"dir", "src"} \cup {"prune"})
          /\ Cardinality({"dir", "src"} \cup {"prune"}) = Cardinality({"dir", "src"}) + 1
      BY <1>3, <2>1, FS_AddElement
    <2> QED BY <1>3, <2>1, <2>2
  <1> QED BY <1>1, <1>2, <1>3, <1>4

\* A step after which at most the kinds K of n are left as well.
LEMMA LedgerStep ==
    ASSUME Leftovers, IInv', NEW n \in Nodes, NEW K, IsFiniteSet(K),
           \A m \in Nodes \ {n} : \/ at'[m] = at[m] \/ at'[m] = "task"
                                  \/ m \in Files /\ at[m] = "pending",
           \A m \in Nodes \ {n}, l \in Kinds : <<m, l>> \in fds' => <<m, l>> \in fds,
           \A l \in Kinds : <<n, l>> \in Left' => <<n, l>> \in Left \/ l \in K,
           n \notin Dirs /\ Ended(n)' => \A l \in Kinds : <<n, l>> \in fds' => l = "old",
           Cardinality(K) + lost' + 2 * faults + excess <= lost + 2 * faults' + excess'
    PROVE  Leftovers'
  <1> DEFINE N == {n} \X K
  <1>1. /\ IsFiniteSet(N) /\ Cardinality(N) = Cardinality(K) /\ Cardinality(K) \in Nat
    <2>1. IsFiniteSet({n}) /\ Cardinality({n}) = 1
      BY FS_Singleton
    <2>2. IsFiniteSet(N) /\ Cardinality(N) = Cardinality({n}) * Cardinality(K)
      BY <2>1, FS_Product
    <2>3. Cardinality(K) \in Nat
      BY FS_CardinalityType
    <2> QED BY <2>1, <2>2, <2>3
  <1>2. IsFiniteSet(Left) /\ Cardinality(Left) \in Nat
    BY FS_Subset, FS_CardinalityType DEF Left, Leftovers, IInv, Typed
  <1>3. Left' \subseteq Left \cup N
    <2> SUFFICES ASSUME NEW fd \in Left' PROVE fd \in Left \cup N
      OBVIOUS
    <2>1. fd \in fds' /\ fd \in Nodes \X Kinds
      BY DEF Left, IInv, Typed
    <2>2. PICK m \in Nodes, l \in Kinds : fd = <<m, l>>
      BY <2>1
    <2>3. CASE m = n
      BY <2>2, <2>3
    <2>4. CASE m # n
      <3>1. HoldingOf(m) /\ <<m, l>> \in fds
        BY <2>1, <2>2, <2>4 DEF Leftovers, IInv, Holding
      <3>2. ~(at[m] = "pending")
        BY <3>1 DEF HoldingOf, Holds
      <3> QED BY <2>1, <2>2, <2>4, <3>2 DEF Left, Ended
    <2> QED BY <2>3, <2>4
  <1>4. /\ IsFiniteSet(Left \cup N) /\ IsFiniteSet(Left \cap N)
        /\ Cardinality(Left \cup N) =
              Cardinality(Left) + Cardinality(N) - Cardinality(Left \cap N)
        /\ Cardinality(Left \cap N) \in Nat
    <2>1. /\ IsFiniteSet(Left \cup N)
          /\ Cardinality(Left \cup N) =
                Cardinality(Left) + Cardinality(N) - Cardinality(Left \cap N)
      BY <1>1, <1>2, FS_Union, Zenon
    <2>2. IsFiniteSet(Left \cap N)
      <3>1. Left \cap N \subseteq Left
        OBVIOUS
      <3> QED BY <1>2, <3>1, FS_Subset, Zenon
    <2>3. Cardinality(Left \cap N) \in Nat
      BY <2>2, FS_CardinalityType, Zenon
    <2> QED BY <2>1, <2>2, <2>3
  <1>5. Cardinality(Left') \in Nat /\ Cardinality(Left') <= Cardinality(Left \cup N)
    BY <1>3, <1>4, FS_Subset, FS_CardinalityType
  <1>6. /\ lost \in Nat /\ excess \in Nat /\ faults \in Nat
        /\ lost' \in Nat /\ excess' \in Nat /\ faults' \in Nat
    BY OptionAssumption DEF Leftovers, IInv, Typed
  <1>7. Ledger'
    BY <1>1, <1>2, <1>4, <1>5, <1>6 DEF Leftovers, Ledger
  <1>8. OwnKinds'
    <2> SUFFICES ASSUME NEW m \in Files \cup Extras, Ended(m)', NEW k \in Kinds, <<m, k>> \in fds'
                 PROVE  k = "old"
      BY DEF OwnKinds
    <2>1. m \in Nodes /\ m \notin Dirs
      BY TreeAssumption DEF Nodes
    <2>2. m # n => at[m] # "pending"
      <3>1. HoldingOf(m)
        BY <2>1 DEF Leftovers, IInv, Holding
      <3> QED BY <2>1, <3>1 DEF HoldingOf, Holds
    <2> QED BY <2>1, <2>2 DEF Ended, OwnKinds, Leftovers
  <1> QED BY <1>7, <1>8 DEF Leftovers

\* A step of n to w, after which it holds no other kinds than S, of which K are left.
LeavesOnly(n, w, S, K) ==
    /\ Led(n, w)
    /\ \A m \in Nodes \ {n}, l \in Kinds : <<m, l>> \in fds' => <<m, l>> \in fds
    /\ \A l \in Kinds : <<n, l>> \in fds' => l \in S
    /\ w \in {"ended", "failed"} => S \subseteq K /\ (n \notin Dirs => S \subseteq {"old"})
    /\ w = "job" /\ n \in Dirs => S \subseteq K \cup {"dst"}
    /\ IsFiniteSet(K)
    /\ Cardinality(K) + lost' + 2 * faults + excess <= lost + 2 * faults' + excess'

LEMMA LedgerMove ==
    ASSUME Leftovers, IInv', NEW n \in Nodes, NEW w, NEW S, NEW K, LeavesOnly(n, w, S, K)
    PROVE  Leftovers'
  <1>1. /\ at'[n] = w
        /\ \A m \in Nodes \ {n} : at'[m] = at[m] \/ (m \in Files /\ at[m] = "pending")
    BY DEF LeavesOnly, Led
  <1>2. \A l \in Kinds : <<n, l>> \in Left' => l \in K
    BY <1>1 DEF LeavesOnly, Left, Ended
  <1>3. n \notin Dirs /\ Ended(n)' => \A l \in Kinds : <<n, l>> \in fds' => l = "old"
    BY <1>1 DEF LeavesOnly, Ended
  <1>4. /\ IsFiniteSet(K)
        /\ Cardinality(K) + lost' + 2 * faults + excess <= lost + 2 * faults' + excess'
        /\ \A m \in Nodes \ {n}, l \in Kinds : <<m, l>> \in fds' => <<m, l>> \in fds
    BY DEF LeavesOnly
  <1> QED BY <1>1, <1>2, <1>3, <1>4, LedgerStep

LEMMA OpenDirLeaves ==
    ASSUME Leftovers, IInv', NEW d \in Dirs, OpenDir(d) PROVE Leftovers'
  <1>0. /\ d \in Nodes /\ HoldingOf(d) /\ at[d] = "task" /\ d \in Dirs /\ d \notin Files
        /\ lost \in Nat /\ excess \in Nat /\ faults \in Nat
    BY TreeAssumption, OptionAssumption DEF Leftovers, IInv, Holding, Typed, OpenDir, Nodes
  <1>1. CASE Opened(d, "dir") /\ Goto(d, "stat")
    <2>1. /\ \A m \in Nodes \ {d}, l \in Kinds : <<m, l>> \in fds' => <<m, l>> \in fds
          /\ \A l \in Kinds : <<d, l>> \in fds' => l \in Kinds
      BY <1>0, <1>1 DEF Kinds, Opened, OpenFails, Closed, FdopendirFails, HoldingOf, Holds
    <2>2. /\ IsFiniteSet({})
          /\ Cardinality({}) + lost' + 2 * faults + excess <= lost + 2 * faults' + excess'
      BY <1>0, <1>1, KindSets DEF Opened, OpenFails, Closed, FdopendirFails, Fault
    <2>3. Led(d, "stat")
      BY <1>0, <1>1, GotoLed DEF Leftovers, Places
    <2>4. LeavesOnly(d, "stat", Kinds, {})
      BY <1>0, <2>1, <2>2, <2>3 DEF LeavesOnly
    <2> QED BY <1>0, <2>4, LedgerMove
  <1>2. CASE OpenFails /\ Goto(d, "failed")
    <2>1. /\ \A m \in Nodes \ {d}, l \in Kinds : <<m, l>> \in fds' => <<m, l>> \in fds
          /\ \A l \in Kinds : <<d, l>> \in fds' => l \in {}
      BY <1>0, <1>2 DEF Kinds, Opened, OpenFails, Closed, FdopendirFails, HoldingOf, Holds
    <2>2. /\ IsFiniteSet({})
          /\ Cardinality({}) + lost' + 2 * faults + excess <= lost + 2 * faults' + excess'
      BY <1>0, <1>2, KindSets DEF Opened, OpenFails, Closed, FdopendirFails, Fault
    <2>3. Led(d, "failed")
      BY <1>0, <1>2, GotoLed DEF Leftovers, Places
    <2>4. LeavesOnly(d, "failed", {}, {})
      BY <1>0, <2>1, <2>2, <2>3 DEF LeavesOnly
    <2> QED BY <1>0, <2>4, LedgerMove
  <1> QED BY <1>1, <1>2 DEF OpenDir

LEMMA StatDirLeaves ==
    ASSUME Leftovers, IInv', NEW d \in Dirs, StatDir(d) PROVE Leftovers'
  <1>0. /\ d \in Nodes /\ HoldingOf(d) /\ at[d] = "stat" /\ d \in Dirs /\ d \notin Files
        /\ lost \in Nat /\ excess \in Nat /\ faults \in Nat
    BY TreeAssumption, OptionAssumption DEF Leftovers, IInv, Holding, Typed, StatDir, Nodes
  <1>1. CASE UNCHANGED <<fdSem, fds, lost, excess, faults>> /\ Goto(d, "dup")
    <2>1. /\ \A m \in Nodes \ {d}, l \in Kinds : <<m, l>> \in fds' => <<m, l>> \in fds
          /\ \A l \in Kinds : <<d, l>> \in fds' => l \in Kinds
      BY <1>0, <1>1 DEF Kinds, Opened, OpenFails, Closed, FdopendirFails, HoldingOf, Holds
    <2>2. /\ IsFiniteSet({})
          /\ Cardinality({}) + lost' + 2 * faults + excess <= lost + 2 * faults' + excess'
      BY <1>0, <1>1, KindSets DEF Opened, OpenFails, Closed, FdopendirFails, Fault
    <2>3. Led(d, "dup")
      BY <1>0, <1>1, GotoLed DEF Leftovers, Places
    <2>4. LeavesOnly(d, "dup", Kinds, {})
      BY <1>0, <2>1, <2>2, <2>3 DEF LeavesOnly
    <2> QED BY <1>0, <2>4, LedgerMove
  <1>2. CASE Fault /\ UNCHANGED <<fdSem, fds, lost, excess>> /\ Goto(d, "failed")
    <2>1. /\ \A m \in Nodes \ {d}, l \in Kinds : <<m, l>> \in fds' => <<m, l>> \in fds
          /\ \A l \in Kinds : <<d, l>> \in fds' => l \in {"dir"}
      BY <1>0, <1>2 DEF Kinds, Opened, OpenFails, Closed, FdopendirFails, HoldingOf, Holds
    <2>2. /\ IsFiniteSet({"dir"})
          /\ Cardinality({"dir"}) + lost' + 2 * faults + excess <= lost + 2 * faults' + excess'
      BY <1>0, <1>2, KindSets DEF Opened, OpenFails, Closed, FdopendirFails, Fault
    <2>3. Led(d, "failed")
      BY <1>0, <1>2, GotoLed DEF Leftovers, Places
    <2>4. LeavesOnly(d, "failed", {"dir"}, {"dir"})
      BY <1>0, <2>1, <2>2, <2>3 DEF LeavesOnly
    <2> QED BY <1>0, <2>4, LedgerMove
  <1> QED BY <1>1, <1>2 DEF StatDir

LEMMA DupDirLeaves ==
    ASSUME Leftovers, IInv', NEW d \in Dirs, DupDir(d) PROVE Leftovers'
  <1>0. /\ d \in Nodes /\ HoldingOf(d) /\ at[d] = "dup" /\ d \in Dirs /\ d \notin Files
        /\ lost \in Nat /\ excess \in Nat /\ faults \in Nat
    BY TreeAssumption, OptionAssumption DEF Leftovers, IInv, Holding, Typed, DupDir, Nodes
  <1>1. CASE Opened(d, "src") /\ Goto(d, "list")
    <2>1. /\ \A m \in Nodes \ {d}, l \in Kinds : <<m, l>> \in fds' => <<m, l>> \in fds
          /\ \A l \in Kinds : <<d, l>> \in fds' => l \in Kinds
      BY <1>0, <1>1 DEF Kinds, Opened, OpenFails, Closed, FdopendirFails, HoldingOf, Holds
    <2>2. /\ IsFiniteSet({})
          /\ Cardinality({}) + lost' + 2 * faults + excess <= lost + 2 * faults' + excess'
      BY <1>0, <1>1, KindSets DEF Opened, OpenFails, Closed, FdopendirFails, Fault
    <2>3. Led(d, "list")
      BY <1>0, <1>1, GotoLed DEF Leftovers, Places
    <2>4. LeavesOnly(d, "list", Kinds, {})
      BY <1>0, <2>1, <2>2, <2>3 DEF LeavesOnly
    <2> QED BY <1>0, <2>4, LedgerMove
  <1>2. CASE Opened(d, "src") /\ Goto(d, "dst")
    <2>1. /\ \A m \in Nodes \ {d}, l \in Kinds : <<m, l>> \in fds' => <<m, l>> \in fds
          /\ \A l \in Kinds : <<d, l>> \in fds' => l \in Kinds
      BY <1>0, <1>2 DEF Kinds, Opened, OpenFails, Closed, FdopendirFails, HoldingOf, Holds
    <2>2. /\ IsFiniteSet({})
          /\ Cardinality({}) + lost' + 2 * faults + excess <= lost + 2 * faults' + excess'
      BY <1>0, <1>2, KindSets DEF Opened, OpenFails, Closed, FdopendirFails, Fault
    <2>3. Led(d, "dst")
      BY <1>0, <1>2, GotoLed DEF Leftovers, Places
    <2>4. LeavesOnly(d, "dst", Kinds, {})
      BY <1>0, <2>1, <2>2, <2>3 DEF LeavesOnly
    <2> QED BY <1>0, <2>4, LedgerMove
  <1>3. CASE Fault /\ lost' = lost + 1 /\ UNCHANGED <<fds, excess>> /\ Goto(d, "failed")
    <2>1. /\ \A m \in Nodes \ {d}, l \in Kinds : <<m, l>> \in fds' => <<m, l>> \in fds
          /\ \A l \in Kinds : <<d, l>> \in fds' => l \in {"dir"}
      BY <1>0, <1>3 DEF Kinds, Opened, OpenFails, Closed, FdopendirFails, HoldingOf, Holds
    <2>2. /\ IsFiniteSet({"dir"})
          /\ Cardinality({"dir"}) + lost' + 2 * faults + excess <= lost + 2 * faults' + excess'
      BY <1>0, <1>3, KindSets DEF Opened, OpenFails, Closed, FdopendirFails, Fault
    <2>3. Led(d, "failed")
      BY <1>0, <1>3, GotoLed DEF Leftovers, Places
    <2>4. LeavesOnly(d, "failed", {"dir"}, {"dir"})
      BY <1>0, <2>1, <2>2, <2>3 DEF LeavesOnly
    <2> QED BY <1>0, <2>4, LedgerMove
  <1> QED BY <1>1, <1>2, <1>3 DEF DupDir

LEMMA OpenExtrasLeaves ==
    ASSUME Leftovers, IInv', NEW d \in Dirs, OpenExtras(d) PROVE Leftovers'
  <1>0. /\ d \in Nodes /\ HoldingOf(d) /\ at[d] = "list" /\ d \in Dirs /\ d \notin Files
        /\ lost \in Nat /\ excess \in Nat /\ faults \in Nat
    BY TreeAssumption, OptionAssumption DEF Leftovers, IInv, Holding, Typed, OpenExtras, Nodes
  <1>1. CASE Opened(d, "prune") /\ Goto(d, "read")
    <2>1. /\ \A m \in Nodes \ {d}, l \in Kinds : <<m, l>> \in fds' => <<m, l>> \in fds
          /\ \A l \in Kinds : <<d, l>> \in fds' => l \in Kinds
      BY <1>0, <1>1 DEF Kinds, Opened, OpenFails, Closed, FdopendirFails, HoldingOf, Holds
    <2>2. /\ IsFiniteSet({})
          /\ Cardinality({}) + lost' + 2 * faults + excess <= lost + 2 * faults' + excess'
      BY <1>0, <1>1, KindSets DEF Opened, OpenFails, Closed, FdopendirFails, Fault
    <2>3. Led(d, "read")
      BY <1>0, <1>1, GotoLed DEF Leftovers, Places
    <2>4. LeavesOnly(d, "read", Kinds, {})
      BY <1>0, <2>1, <2>2, <2>3 DEF LeavesOnly
    <2> QED BY <1>0, <2>4, LedgerMove
  <1>2. CASE OpenFails /\ Goto(d, "failed")
    <2>1. /\ \A m \in Nodes \ {d}, l \in Kinds : <<m, l>> \in fds' => <<m, l>> \in fds
          /\ \A l \in Kinds : <<d, l>> \in fds' => l \in {"dir", "src"}
      BY <1>0, <1>2 DEF Kinds, Opened, OpenFails, Closed, FdopendirFails, HoldingOf, Holds
    <2>2. /\ IsFiniteSet({"dir", "src"})
          /\ Cardinality({"dir", "src"}) + lost' + 2 * faults + excess <=
                lost + 2 * faults' + excess'
      BY <1>0, <1>2, KindSets DEF Opened, OpenFails, Closed, FdopendirFails, Fault
    <2>3. Led(d, "failed")
      BY <1>0, <1>2, GotoLed DEF Leftovers, Places
    <2>4. LeavesOnly(d, "failed", {"dir", "src"}, {"dir", "src"})
      BY <1>0, <2>1, <2>2, <2>3 DEF LeavesOnly
    <2> QED BY <1>0, <2>4, LedgerMove
  <1> QED BY <1>1, <1>2 DEF OpenExtras

LEMMA ListExtrasLeaves ==
    ASSUME Leftovers, IInv', NEW d \in Dirs, ListExtras(d) PROVE Leftovers'
  <1>0. /\ d \in Nodes /\ HoldingOf(d) /\ at[d] = "read" /\ d \in Dirs /\ d \notin Files
        /\ lost \in Nat /\ excess \in Nat /\ faults \in Nat
    BY TreeAssumption, OptionAssumption DEF Leftovers, IInv, Holding, Typed, ListExtras, Nodes
  <1>1. CASE FdopendirFails /\ Goto(d, "failed")
    <2>1. /\ \A m \in Nodes \ {d}, l \in Kinds : <<m, l>> \in fds' => <<m, l>> \in fds
          /\ \A l \in Kinds : <<d, l>> \in fds' => l \in {"dir", "src", "prune"}
      BY <1>0, <1>1 DEF Kinds, Opened, OpenFails, Closed, FdopendirFails, HoldingOf, Holds
    <2>2. /\ IsFiniteSet({"dir", "src", "prune"})
          /\ Cardinality({"dir", "src", "prune"}) + lost' + 2 * faults + excess <=
                lost + 2 * faults' + excess'
      BY <1>0, <1>1, KindSets DEF Opened, OpenFails, Closed, FdopendirFails, Fault
    <2>3. Led(d, "failed")
      BY <1>0, <1>1, GotoLed DEF Leftovers, Places
    <2>4. LeavesOnly(d, "failed", {"dir", "src", "prune"}, {"dir", "src", "prune"})
      BY <1>0, <2>1, <2>2, <2>3 DEF LeavesOnly
    <2> QED BY <1>0, <2>4, LedgerMove
  <1>2. CASE /\ Closed(d, {"prune"})
             /\ at' = [n \in Nodes |-> IF n = d THEN "prune"
                                       ELSE IF n \in ExtrasIn(d) THEN "task"
                                       ELSE at[n]]
             /\ UNCHANGED faults
    <2>1. at'[d] = "prune" /\ \A m \in Nodes \ {d} : at'[m] = at[m] \/ at'[m] = "task"
      BY <1>0, <1>2
    <2>2. \A m \in Nodes \ {d}, l \in Kinds : <<m, l>> \in fds' => <<m, l>> \in fds
      BY <1>2 DEF Closed
    <2>3. ~Ended(d)' /\ \A l \in Kinds : <<d, l>> \notin Left'
      BY <2>1 DEF Left, Ended
    <2>4. /\ IsFiniteSet({})
          /\ Cardinality({}) + lost' + 2 * faults + excess <= lost + 2 * faults' + excess'
      BY <1>0, <1>2, KindSets DEF Closed
    <2> QED BY <1>0, <2>1, <2>2, <2>3, <2>4, LedgerStep
  <1> QED BY <1>1, <1>2 DEF ListExtras

LEMMA PrunedLeaves ==
    ASSUME Leftovers, IInv', NEW d \in Dirs, Pruned(d) PROVE Leftovers'
  <1>0. /\ d \in Nodes /\ HoldingOf(d) /\ at[d] = "prune" /\ d \in Dirs /\ d \notin Files
        /\ lost \in Nat /\ excess \in Nat /\ faults \in Nat
    BY TreeAssumption, OptionAssumption DEF Leftovers, IInv, Holding, Typed, Pruned, Nodes
  <1>1. CASE UNCHANGED <<fdSem, fds, lost, excess, faults>> /\ Goto(d, "dst")
    <2>1. /\ \A m \in Nodes \ {d}, l \in Kinds : <<m, l>> \in fds' => <<m, l>> \in fds
          /\ \A l \in Kinds : <<d, l>> \in fds' => l \in Kinds
      BY <1>0, <1>1 DEF Kinds, Opened, OpenFails, Closed, FdopendirFails, HoldingOf, Holds
    <2>2. /\ IsFiniteSet({})
          /\ Cardinality({}) + lost' + 2 * faults + excess <= lost + 2 * faults' + excess'
      BY <1>0, <1>1, KindSets DEF Opened, OpenFails, Closed, FdopendirFails, Fault
    <2>3. Led(d, "dst")
      BY <1>0, <1>1, GotoLed DEF Leftovers, Places
    <2>4. LeavesOnly(d, "dst", Kinds, {})
      BY <1>0, <2>1, <2>2, <2>3 DEF LeavesOnly
    <2> QED BY <1>0, <2>4, LedgerMove
  <1> QED BY <1>1 DEF Pruned

LEMMA OpenDstLeaves ==
    ASSUME Leftovers, IInv', NEW d \in Dirs, OpenDst(d) PROVE Leftovers'
  <1>0. /\ d \in Nodes /\ HoldingOf(d) /\ at[d] = "dst" /\ d \in Dirs /\ d \notin Files
        /\ lost \in Nat /\ excess \in Nat /\ faults \in Nat
    BY TreeAssumption, OptionAssumption DEF Leftovers, IInv, Holding, Typed, OpenDst, Nodes
  <1>1. CASE Opened(d, "dst") /\ Goto(d, "crawl")
    <2>1. /\ \A m \in Nodes \ {d}, l \in Kinds : <<m, l>> \in fds' => <<m, l>> \in fds
          /\ \A l \in Kinds : <<d, l>> \in fds' => l \in Kinds
      BY <1>0, <1>1 DEF Kinds, Opened, OpenFails, Closed, FdopendirFails, HoldingOf, Holds
    <2>2. /\ IsFiniteSet({})
          /\ Cardinality({}) + lost' + 2 * faults + excess <= lost + 2 * faults' + excess'
      BY <1>0, <1>1, KindSets DEF Opened, OpenFails, Closed, FdopendirFails, Fault
    <2>3. Led(d, "crawl")
      BY <1>0, <1>1, GotoLed DEF Leftovers, Places
    <2>4. LeavesOnly(d, "crawl", Kinds, {})
      BY <1>0, <2>1, <2>2, <2>3 DEF LeavesOnly
    <2> QED BY <1>0, <2>4, LedgerMove
  <1>2. CASE OpenFails /\ Goto(d, "failed")
    <2>1. /\ \A m \in Nodes \ {d}, l \in Kinds : <<m, l>> \in fds' => <<m, l>> \in fds
          /\ \A l \in Kinds : <<d, l>> \in fds' => l \in {"dir", "src"}
      BY <1>0, <1>2 DEF Kinds, Opened, OpenFails, Closed, FdopendirFails, HoldingOf, Holds
    <2>2. /\ IsFiniteSet({"dir", "src"})
          /\ Cardinality({"dir", "src"}) + lost' + 2 * faults + excess <=
                lost + 2 * faults' + excess'
      BY <1>0, <1>2, KindSets DEF Opened, OpenFails, Closed, FdopendirFails, Fault
    <2>3. Led(d, "failed")
      BY <1>0, <1>2, GotoLed DEF Leftovers, Places
    <2>4. LeavesOnly(d, "failed", {"dir", "src"}, {"dir", "src"})
      BY <1>0, <2>1, <2>2, <2>3 DEF LeavesOnly
    <2> QED BY <1>0, <2>4, LedgerMove
  <1> QED BY <1>1, <1>2 DEF OpenDst

LEMMA CrawlLeaves ==
    ASSUME Leftovers, IInv', NEW d \in Dirs, Crawl(d) PROVE Leftovers'
  <1>0. /\ d \in Nodes /\ HoldingOf(d) /\ at[d] = "crawl" /\ d \in Dirs /\ d \notin Files
        /\ lost \in Nat /\ excess \in Nat /\ faults \in Nat
    BY TreeAssumption, OptionAssumption DEF Leftovers, IInv, Holding, Typed, Crawl, Nodes
  <1>1. CASE /\ Fault /\ fds' = fds \ {<<d, "src">>}
             /\ excess' = excess + 1 /\ lost' = lost /\ Goto(d, "job")
    <2>1. /\ \A m \in Nodes \ {d}, l \in Kinds : <<m, l>> \in fds' => <<m, l>> \in fds
          /\ \A l \in Kinds : <<d, l>> \in fds' => l \in {"dir", "dst"}
      BY <1>0, <1>1 DEF Kinds, Opened, OpenFails, Closed, FdopendirFails, HoldingOf, Holds
    <2>2. /\ IsFiniteSet({"dir"})
          /\ Cardinality({"dir"}) + lost' + 2 * faults + excess <= lost + 2 * faults' + excess'
      BY <1>0, <1>1, KindSets DEF Opened, OpenFails, Closed, FdopendirFails, Fault
    <2>3. Led(d, "job")
      BY <1>0, <1>1, GotoLed DEF Leftovers, Places
    <2>4. LeavesOnly(d, "job", {"dir", "dst"}, {"dir"})
      BY <1>0, <2>1, <2>2, <2>3 DEF LeavesOnly
    <2> QED BY <1>0, <2>4, LedgerMove
  <1>2. CASE /\ at' = [n \in Nodes |-> IF n = d THEN "group"
                                       ELSE IF n \in Children(d) THEN "task"
                                       ELSE at[n]]
             /\ UNCHANGED <<fdSem, fds, lost, excess, faults>>
    <2>1. at'[d] = "group" /\ \A m \in Nodes \ {d} : at'[m] = at[m] \/ at'[m] = "task"
      BY <1>0, <1>2
    <2>2. \A m \in Nodes \ {d}, l \in Kinds : <<m, l>> \in fds' => <<m, l>> \in fds
      BY <1>2
    <2>3. ~Ended(d)' /\ \A l \in Kinds : <<d, l>> \notin Left'
      BY <2>1 DEF Left, Ended
    <2>4. /\ IsFiniteSet({})
          /\ Cardinality({}) + lost' + 2 * faults + excess <= lost + 2 * faults' + excess'
      BY <1>0, <1>2, KindSets
    <2> QED BY <1>0, <2>1, <2>2, <2>3, <2>4, LedgerStep
  <1> QED BY <1>1, <1>2 DEF Crawl

LEMMA CrawledLeaves ==
    ASSUME Leftovers, IInv', NEW d \in Dirs, Crawled(d) PROVE Leftovers'
  <1>0. /\ d \in Nodes /\ HoldingOf(d) /\ at[d] = "group" /\ d \in Dirs /\ d \notin Files
        /\ lost \in Nat /\ excess \in Nat /\ faults \in Nat
    BY TreeAssumption, OptionAssumption DEF Leftovers, IInv, Holding, Typed, Crawled, Nodes
  <1>1. CASE faults' = faults /\ Closed(d, {"dir", "src"}) /\ Goto(d, "job")
    <2>1. /\ \A m \in Nodes \ {d}, l \in Kinds : <<m, l>> \in fds' => <<m, l>> \in fds
          /\ \A l \in Kinds : <<d, l>> \in fds' => l \in {"dst"}
      BY <1>0, <1>1 DEF Kinds, Opened, OpenFails, Closed, FdopendirFails, HoldingOf, Holds
    <2>2. /\ IsFiniteSet({})
          /\ Cardinality({}) + lost' + 2 * faults + excess <= lost + 2 * faults' + excess'
      BY <1>0, <1>1, KindSets DEF Opened, OpenFails, Closed, FdopendirFails, Fault
    <2>3. Led(d, "job")
      BY <1>0, <1>1, GotoLed DEF Leftovers, Places
    <2>4. LeavesOnly(d, "job", {"dst"}, {})
      BY <1>0, <2>1, <2>2, <2>3 DEF LeavesOnly
    <2> QED BY <1>0, <2>4, LedgerMove
  <1> QED BY <1>1 DEF Crawled

LEMMA CloseDirLeaves ==
    ASSUME Leftovers, IInv', NEW d \in Dirs, CloseDir(d) PROVE Leftovers'
  <1>0. /\ d \in Nodes /\ at[d] = "job" /\ d \in Dirs
        /\ lost \in Nat /\ excess \in Nat /\ faults \in Nat
        /\ at \in [Nodes -> Places]
    BY OptionAssumption DEF Leftovers, IInv, Typed, CloseDir, Nodes
  <1>1. /\ fds' = fds \ ({d} \X {"dst"}) /\ at' = [at EXCEPT ![d] = "ended"]
        /\ UNCHANGED <<lost, excess, faults>>
    BY DEF CloseDir, Closed, Goto
  <1>2. \A m \in Nodes \ {d} : at'[m] = at[m]
    BY <1>0, <1>1
  <1>3. \A m \in Nodes \ {d}, l \in Kinds : <<m, l>> \in fds' => <<m, l>> \in fds
    BY <1>1
  <1>4. \A l \in Kinds : <<d, l>> \in Left' => <<d, l>> \in Left
    BY <1>0, <1>1 DEF Left
  <1>5. /\ IsFiniteSet({})
        /\ Cardinality({}) + lost' + 2 * faults + excess <= lost + 2 * faults' + excess'
    BY <1>0, <1>1, KindSets
  <1> QED BY <1>0, <1>2, <1>3, <1>4, <1>5, LedgerStep

LEMMA OpenSourceLeaves ==
    ASSUME Leftovers, IInv', NEW f \in Files, OpenSource(f) PROVE Leftovers'
  <1>0. /\ f \in Nodes /\ HoldingOf(f) /\ at[f] = "opening" /\ f \notin Dirs
        /\ lost \in Nat /\ excess \in Nat /\ faults \in Nat
    BY TreeAssumption, OptionAssumption DEF Leftovers, IInv, Holding, Typed, OpenSource, Nodes
  <1>1. CASE Opened(f, "in") /\ Goto(f, "open")
    <2>1. /\ \A m \in Nodes \ {f}, l \in Kinds : <<m, l>> \in fds' => <<m, l>> \in fds
          /\ \A l \in Kinds : <<f, l>> \in fds' => l \in Kinds
      BY <1>0, <1>1 DEF Kinds, Opened, OpenFails, Closed, FdopendirFails, HoldingOf, Holds
    <2>2. /\ IsFiniteSet({})
          /\ Cardinality({}) + lost' + 2 * faults + excess <= lost + 2 * faults' + excess'
      BY <1>0, <1>1, KindSets DEF Opened, OpenFails, Closed, FdopendirFails, Fault
    <2>3. Led(f, "open")
      BY <1>0, <1>1, GotoLed DEF Leftovers, Places
    <2>4. LeavesOnly(f, "open", Kinds, {})
      BY <1>0, <2>1, <2>2, <2>3 DEF LeavesOnly
    <2> QED BY <1>0, <2>4, LedgerMove
  <1>2. CASE OpenFails /\ Goto(f, "failed")
    <2>1. /\ \A m \in Nodes \ {f}, l \in Kinds : <<m, l>> \in fds' => <<m, l>> \in fds
          /\ \A l \in Kinds : <<f, l>> \in fds' => l \in {}
      BY <1>0, <1>2 DEF Kinds, Opened, OpenFails, Closed, FdopendirFails, HoldingOf, Holds
    <2>2. /\ IsFiniteSet({})
          /\ Cardinality({}) + lost' + 2 * faults + excess <= lost + 2 * faults' + excess'
      BY <1>0, <1>2, KindSets DEF Opened, OpenFails, Closed, FdopendirFails, Fault
    <2>3. Led(f, "failed")
      BY <1>0, <1>2, GotoLed DEF Leftovers, Places
    <2>4. LeavesOnly(f, "failed", {}, {})
      BY <1>0, <2>1, <2>2, <2>3 DEF LeavesOnly
    <2> QED BY <1>0, <2>4, LedgerMove
  <1> QED BY <1>1, <1>2 DEF OpenSource

LEMMA SkipFileLeaves ==
    ASSUME Leftovers, IInv', NEW f \in Files, SkipFile(f) PROVE Leftovers'
  <1>0. /\ f \in Nodes /\ HoldingOf(f) /\ at[f] = "task" /\ f \notin Dirs
        /\ lost \in Nat /\ excess \in Nat /\ faults \in Nat
    BY TreeAssumption, OptionAssumption DEF Leftovers, IInv, Holding, Typed, SkipFile, Nodes
  <1>1. CASE UNCHANGED <<fdSem, fds, lost, excess, faults>> /\ Goto(f, "ended")
    <2>1. /\ \A m \in Nodes \ {f}, l \in Kinds : <<m, l>> \in fds' => <<m, l>> \in fds
          /\ \A l \in Kinds : <<f, l>> \in fds' => l \in {}
      BY <1>0, <1>1 DEF Kinds, Opened, OpenFails, Closed, FdopendirFails, HoldingOf, Holds
    <2>2. /\ IsFiniteSet({})
          /\ Cardinality({}) + lost' + 2 * faults + excess <= lost + 2 * faults' + excess'
      BY <1>0, <1>1, KindSets DEF Opened, OpenFails, Closed, FdopendirFails, Fault
    <2>3. Led(f, "ended")
      BY <1>0, <1>1, GotoLed DEF Leftovers, Places
    <2>4. LeavesOnly(f, "ended", {}, {})
      BY <1>0, <2>1, <2>2, <2>3 DEF LeavesOnly
    <2> QED BY <1>0, <2>4, LedgerMove
  <1> QED BY <1>1 DEF SkipFile

LEMMA BecomeRootLeaves ==
    ASSUME Leftovers, IInv', NEW f \in Files, BecomeRoot(f) PROVE Leftovers'
  <1>0. /\ f \in Nodes /\ HoldingOf(f) /\ at[f] = "task" /\ f \notin Dirs
        /\ lost \in Nat /\ excess \in Nat /\ faults \in Nat
    BY TreeAssumption, OptionAssumption DEF Leftovers, IInv, Holding, Typed, BecomeRoot, Nodes
  <1>1. CASE UNCHANGED <<fdSem, fds, lost, excess, faults>> /\ Goto(f, "opening")
    <2>1. /\ \A m \in Nodes \ {f}, l \in Kinds : <<m, l>> \in fds' => <<m, l>> \in fds
          /\ \A l \in Kinds : <<f, l>> \in fds' => l \in {}
      BY <1>0, <1>1 DEF Kinds, Opened, OpenFails, Closed, FdopendirFails, HoldingOf, Holds
    <2>2. /\ IsFiniteSet({})
          /\ Cardinality({}) + lost' + 2 * faults + excess <= lost + 2 * faults' + excess'
      BY <1>0, <1>1, KindSets DEF Opened, OpenFails, Closed, FdopendirFails, Fault
    <2>3. Led(f, "opening")
      BY <1>0, <1>1, GotoLed DEF Leftovers, Places
    <2>4. LeavesOnly(f, "opening", {}, {})
      BY <1>0, <2>1, <2>2, <2>3 DEF LeavesOnly
    <2> QED BY <1>0, <2>4, LedgerMove
  <1>2. CASE UNCHANGED <<fdSem, fds, lost, excess, faults>> /\ Goto(f, "stamp")
    <2>1. /\ \A m \in Nodes \ {f}, l \in Kinds : <<m, l>> \in fds' => <<m, l>> \in fds
          /\ \A l \in Kinds : <<f, l>> \in fds' => l \in {}
      BY <1>0, <1>2 DEF Kinds, Opened, OpenFails, Closed, FdopendirFails, HoldingOf, Holds
    <2>2. /\ IsFiniteSet({})
          /\ Cardinality({}) + lost' + 2 * faults + excess <= lost + 2 * faults' + excess'
      BY <1>0, <1>2, KindSets DEF Opened, OpenFails, Closed, FdopendirFails, Fault
    <2>3. Led(f, "stamp")
      BY <1>0, <1>2, GotoLed DEF Leftovers, Places
    <2>4. LeavesOnly(f, "stamp", {}, {})
      BY <1>0, <2>1, <2>2, <2>3 DEF LeavesOnly
    <2> QED BY <1>0, <2>4, LedgerMove
  <1> QED BY <1>1, <1>2 DEF BecomeRoot

LEMMA WaitForRootLeaves ==
    ASSUME Leftovers, IInv', NEW f \in Files, WaitForRoot(f) PROVE Leftovers'
  <1>0. /\ f \in Nodes /\ HoldingOf(f) /\ at[f] = "task" /\ f \notin Dirs
        /\ lost \in Nat /\ excess \in Nat /\ faults \in Nat
    BY TreeAssumption, OptionAssumption DEF Leftovers, IInv, Holding, Typed, WaitForRoot, Nodes
  <1>1. CASE UNCHANGED <<fdSem, fds, lost, excess, faults>> /\ Goto(f, "pending")
    <2>1. /\ \A m \in Nodes \ {f}, l \in Kinds : <<m, l>> \in fds' => <<m, l>> \in fds
          /\ \A l \in Kinds : <<f, l>> \in fds' => l \in {}
      BY <1>0, <1>1 DEF Kinds, Opened, OpenFails, Closed, FdopendirFails, HoldingOf, Holds
    <2>2. /\ IsFiniteSet({})
          /\ Cardinality({}) + lost' + 2 * faults + excess <= lost + 2 * faults' + excess'
      BY <1>0, <1>1, KindSets DEF Opened, OpenFails, Closed, FdopendirFails, Fault
    <2>3. Led(f, "pending")
      BY <1>0, <1>1, GotoLed DEF Leftovers, Places
    <2>4. LeavesOnly(f, "pending", {}, {})
      BY <1>0, <2>1, <2>2, <2>3 DEF LeavesOnly
    <2> QED BY <1>0, <2>4, LedgerMove
  <1> QED BY <1>1 DEF WaitForRoot

LEMMA OpenPartialLeaves ==
    ASSUME Leftovers, IInv', NEW f \in Files, OpenPartial(f) PROVE Leftovers'
  <1>0. /\ f \in Nodes /\ HoldingOf(f) /\ at[f] = "open" /\ f \notin Dirs
        /\ lost \in Nat /\ excess \in Nat /\ faults \in Nat
    BY TreeAssumption, OptionAssumption DEF Leftovers, IInv, Holding, Typed, OpenPartial, Nodes
  <1>1. CASE Opened(f, "out") /\ Goto(f, "space")
    <2>1. /\ \A m \in Nodes \ {f}, l \in Kinds : <<m, l>> \in fds' => <<m, l>> \in fds
          /\ \A l \in Kinds : <<f, l>> \in fds' => l \in Kinds
      BY <1>0, <1>1 DEF Kinds, Opened, OpenFails, Closed, FdopendirFails, HoldingOf, Holds
    <2>2. /\ IsFiniteSet({})
          /\ Cardinality({}) + lost' + 2 * faults + excess <= lost + 2 * faults' + excess'
      BY <1>0, <1>1, KindSets DEF Opened, OpenFails, Closed, FdopendirFails, Fault
    <2>3. Led(f, "space")
      BY <1>0, <1>1, GotoLed DEF Leftovers, Places
    <2>4. LeavesOnly(f, "space", Kinds, {})
      BY <1>0, <2>1, <2>2, <2>3 DEF LeavesOnly
    <2> QED BY <1>0, <2>4, LedgerMove
  <1>2. CASE Fault /\ Closed(f, {"in"}) /\ Goto(f, "ended")
    <2>1. /\ \A m \in Nodes \ {f}, l \in Kinds : <<m, l>> \in fds' => <<m, l>> \in fds
          /\ \A l \in Kinds : <<f, l>> \in fds' => l \in {}
      BY <1>0, <1>2 DEF Kinds, Opened, OpenFails, Closed, FdopendirFails, HoldingOf, Holds
    <2>2. /\ IsFiniteSet({})
          /\ Cardinality({}) + lost' + 2 * faults + excess <= lost + 2 * faults' + excess'
      BY <1>0, <1>2, KindSets DEF Opened, OpenFails, Closed, FdopendirFails, Fault
    <2>3. Led(f, "ended")
      BY <1>0, <1>2, GotoLed DEF Leftovers, Places
    <2>4. LeavesOnly(f, "ended", {}, {})
      BY <1>0, <2>1, <2>2, <2>3 DEF LeavesOnly
    <2> QED BY <1>0, <2>4, LedgerMove
  <1> QED BY <1>1, <1>2 DEF OpenPartial

LEMMA EnqueueFileLeaves ==
    ASSUME Leftovers, IInv', NEW f \in Files, EnqueueFile(f) PROVE Leftovers'
  <1>0. /\ f \in Nodes /\ HoldingOf(f) /\ at[f] = "space" /\ f \notin Dirs
        /\ lost \in Nat /\ excess \in Nat /\ faults \in Nat
    BY TreeAssumption, OptionAssumption DEF Leftovers, IInv, Holding, Typed, EnqueueFile, Nodes
  <1>1. CASE UNCHANGED <<fdSem, fds, lost, excess, faults>> /\ Goto(f, "job")
    <2>1. /\ \A m \in Nodes \ {f}, l \in Kinds : <<m, l>> \in fds' => <<m, l>> \in fds
          /\ \A l \in Kinds : <<f, l>> \in fds' => l \in Kinds
      BY <1>0, <1>1 DEF Kinds, Opened, OpenFails, Closed, FdopendirFails, HoldingOf, Holds
    <2>2. /\ IsFiniteSet({})
          /\ Cardinality({}) + lost' + 2 * faults + excess <= lost + 2 * faults' + excess'
      BY <1>0, <1>1, KindSets DEF Opened, OpenFails, Closed, FdopendirFails, Fault
    <2>3. Led(f, "job")
      BY <1>0, <1>1, GotoLed DEF Leftovers, Places
    <2>4. LeavesOnly(f, "job", Kinds, {})
      BY <1>0, <2>1, <2>2, <2>3 DEF LeavesOnly
    <2> QED BY <1>0, <2>4, LedgerMove
  <1>2. CASE Fault /\ Closed(f, {"in", "out"}) /\ Goto(f, "ended")
    <2>1. /\ \A m \in Nodes \ {f}, l \in Kinds : <<m, l>> \in fds' => <<m, l>> \in fds
          /\ \A l \in Kinds : <<f, l>> \in fds' => l \in {}
      BY <1>0, <1>2 DEF Kinds, Opened, OpenFails, Closed, FdopendirFails, HoldingOf, Holds
    <2>2. /\ IsFiniteSet({})
          /\ Cardinality({}) + lost' + 2 * faults + excess <= lost + 2 * faults' + excess'
      BY <1>0, <1>2, KindSets DEF Opened, OpenFails, Closed, FdopendirFails, Fault
    <2>3. Led(f, "ended")
      BY <1>0, <1>2, GotoLed DEF Leftovers, Places
    <2>4. LeavesOnly(f, "ended", {}, {})
      BY <1>0, <2>1, <2>2, <2>3 DEF LeavesOnly
    <2> QED BY <1>0, <2>4, LedgerMove
  <1> QED BY <1>1, <1>2 DEF EnqueueFile

LEMMA FinishFileLeaves ==
    ASSUME Leftovers, IInv', NEW f \in Files, FinishFile(f) PROVE Leftovers'
  <1>0. /\ f \in Nodes /\ HoldingOf(f) /\ at[f] = "job" /\ f \notin Dirs
        /\ lost \in Nat /\ excess \in Nat /\ faults \in Nat
    BY TreeAssumption, OptionAssumption DEF Leftovers, IInv, Holding, Typed, FinishFile, Nodes
  <1>1. CASE faults' = faults /\ Closed(f, {"in", "out"}) /\ Goto(f, "old")
    <2>1. /\ \A m \in Nodes \ {f}, l \in Kinds : <<m, l>> \in fds' => <<m, l>> \in fds
          /\ \A l \in Kinds : <<f, l>> \in fds' => l \in Kinds
      BY <1>0, <1>1 DEF Kinds, Opened, OpenFails, Closed, FdopendirFails, HoldingOf, Holds
    <2>2. /\ IsFiniteSet({})
          /\ Cardinality({}) + lost' + 2 * faults + excess <= lost + 2 * faults' + excess'
      BY <1>0, <1>1, KindSets DEF Opened, OpenFails, Closed, FdopendirFails, Fault
    <2>3. Led(f, "old")
      BY <1>0, <1>1, GotoLed DEF Leftovers, Places
    <2>4. LeavesOnly(f, "old", Kinds, {})
      BY <1>0, <2>1, <2>2, <2>3 DEF LeavesOnly
    <2> QED BY <1>0, <2>4, LedgerMove
  <1>2. CASE Closed(f, {"in", "out"}) /\ HandOver(f)
    <2>1. /\ \A m \in Nodes \ {f}, l \in Kinds : <<m, l>> \in fds' => <<m, l>> \in fds
          /\ \A l \in Kinds : <<f, l>> \in fds' => l \in {}
      BY <1>0, <1>2 DEF Kinds, Opened, OpenFails, Closed, FdopendirFails, HoldingOf, Holds
    <2>2. /\ IsFiniteSet({})
          /\ Cardinality({}) + lost' + 2 * faults + excess <= lost + 2 * faults' + excess'
      BY <1>0, <1>2, KindSets DEF HandOver, Opened, OpenFails, Closed, FdopendirFails, Fault
    <2>3. Led(f, "ended")
      BY <1>0, <1>2, HandOverLed DEF Leftovers
    <2>4. LeavesOnly(f, "ended", {}, {})
      BY <1>0, <2>1, <2>2, <2>3 DEF LeavesOnly
    <2> QED BY <1>0, <2>4, LedgerMove
  <1>3. CASE Fault /\ Closed(f, {"in", "out"}) /\ Goto(f, "ended")
    <2>1. /\ \A m \in Nodes \ {f}, l \in Kinds : <<m, l>> \in fds' => <<m, l>> \in fds
          /\ \A l \in Kinds : <<f, l>> \in fds' => l \in {}
      BY <1>0, <1>3 DEF Kinds, Opened, OpenFails, Closed, FdopendirFails, HoldingOf, Holds
    <2>2. /\ IsFiniteSet({})
          /\ Cardinality({}) + lost' + 2 * faults + excess <= lost + 2 * faults' + excess'
      BY <1>0, <1>3, KindSets DEF Opened, OpenFails, Closed, FdopendirFails, Fault
    <2>3. Led(f, "ended")
      BY <1>0, <1>3, GotoLed DEF Leftovers, Places
    <2>4. LeavesOnly(f, "ended", {}, {})
      BY <1>0, <2>1, <2>2, <2>3 DEF LeavesOnly
    <2> QED BY <1>0, <2>4, LedgerMove
  <1> QED BY <1>1, <1>2, <1>3 DEF FinishFile, GiveUp

LEMMA FinishStampLeaves ==
    ASSUME Leftovers, IInv', NEW f \in Files, FinishStamp(f) PROVE Leftovers'
  <1>0. /\ f \in Nodes /\ HoldingOf(f) /\ at[f] = "stamp" /\ f \notin Dirs
        /\ lost \in Nat /\ excess \in Nat /\ faults \in Nat
    BY TreeAssumption, OptionAssumption DEF Leftovers, IInv, Holding, Typed, FinishStamp, Nodes
  <1>1. CASE Fault /\ UNCHANGED <<fdSem, fds, lost, excess>> /\ Goto(f, "ended")
    <2>1. /\ \A m \in Nodes \ {f}, l \in Kinds : <<m, l>> \in fds' => <<m, l>> \in fds
          /\ \A l \in Kinds : <<f, l>> \in fds' => l \in {}
      BY <1>0, <1>1 DEF Kinds, Opened, OpenFails, Closed, FdopendirFails, HoldingOf, Holds
    <2>2. /\ IsFiniteSet({})
          /\ Cardinality({}) + lost' + 2 * faults + excess <= lost + 2 * faults' + excess'
      BY <1>0, <1>1, KindSets DEF Opened, OpenFails, Closed, FdopendirFails, Fault
    <2>3. Led(f, "ended")
      BY <1>0, <1>1, GotoLed DEF Leftovers, Places
    <2>4. LeavesOnly(f, "ended", {}, {})
      BY <1>0, <2>1, <2>2, <2>3 DEF LeavesOnly
    <2> QED BY <1>0, <2>4, LedgerMove
  <1>2. CASE UNCHANGED <<fdSem, fds, lost, excess>> /\ HandOver(f)
    <2>1. /\ \A m \in Nodes \ {f}, l \in Kinds : <<m, l>> \in fds' => <<m, l>> \in fds
          /\ \A l \in Kinds : <<f, l>> \in fds' => l \in {}
      BY <1>0, <1>2 DEF Kinds, Opened, OpenFails, Closed, FdopendirFails, HoldingOf, Holds
    <2>2. /\ IsFiniteSet({})
          /\ Cardinality({}) + lost' + 2 * faults + excess <= lost + 2 * faults' + excess'
      BY <1>0, <1>2, KindSets DEF HandOver, Opened, OpenFails, Closed, FdopendirFails, Fault
    <2>3. Led(f, "ended")
      BY <1>0, <1>2, HandOverLed DEF Leftovers
    <2>4. LeavesOnly(f, "ended", {}, {})
      BY <1>0, <2>1, <2>2, <2>3 DEF LeavesOnly
    <2> QED BY <1>0, <2>4, LedgerMove
  <1> QED BY <1>1, <1>2 DEF FinishStamp, GiveUp

LEMMA RemoveOpenLeaves ==
    ASSUME Leftovers, IInv', NEW n \in Files \cup Extras, RemoveOpen(n) PROVE Leftovers'
  <1>0. /\ n \in Nodes /\ HoldingOf(n) /\ at[n] \in {"task", "old"} /\ n \notin Dirs
        /\ lost \in Nat /\ excess \in Nat /\ faults \in Nat
    BY TreeAssumption, OptionAssumption DEF Leftovers, IInv, Holding, Typed, RemoveOpen, Nodes
  <1>1. CASE Opened(n, "old") /\ Goto(n, "removing")
    <2>1. /\ \A m \in Nodes \ {n}, l \in Kinds : <<m, l>> \in fds' => <<m, l>> \in fds
          /\ \A l \in Kinds : <<n, l>> \in fds' => l \in Kinds
      BY <1>0, <1>1 DEF Kinds, Opened, OpenFails, Closed, FdopendirFails, HoldingOf, Holds
    <2>2. /\ IsFiniteSet({})
          /\ Cardinality({}) + lost' + 2 * faults + excess <= lost + 2 * faults' + excess'
      BY <1>0, <1>1, KindSets DEF Opened, OpenFails, Closed, FdopendirFails, Fault
    <2>3. Led(n, "removing")
      BY <1>0, <1>1, GotoLed DEF Leftovers, Places
    <2>4. LeavesOnly(n, "removing", Kinds, {})
      BY <1>0, <2>1, <2>2, <2>3 DEF LeavesOnly
    <2> QED BY <1>0, <2>4, LedgerMove
  <1>2. CASE OpenFails /\ Goto(n, "failed")
    <2>1. /\ \A m \in Nodes \ {n}, l \in Kinds : <<m, l>> \in fds' => <<m, l>> \in fds
          /\ \A l \in Kinds : <<n, l>> \in fds' => l \in {}
      BY <1>0, <1>2 DEF Kinds, Opened, OpenFails, Closed, FdopendirFails, HoldingOf, Holds
    <2>2. /\ IsFiniteSet({})
          /\ Cardinality({}) + lost' + 2 * faults + excess <= lost + 2 * faults' + excess'
      BY <1>0, <1>2, KindSets DEF Opened, OpenFails, Closed, FdopendirFails, Fault
    <2>3. Led(n, "failed")
      BY <1>0, <1>2, GotoLed DEF Leftovers, Places
    <2>4. LeavesOnly(n, "failed", {}, {})
      BY <1>0, <2>1, <2>2, <2>3 DEF LeavesOnly
    <2> QED BY <1>0, <2>4, LedgerMove
  <1> QED BY <1>1, <1>2 DEF RemoveOpen

LEMMA RemoveListLeaves ==
    ASSUME Leftovers, IInv', NEW n \in Files \cup Extras, RemoveList(n) PROVE Leftovers'
  <1>0. /\ n \in Nodes /\ HoldingOf(n) /\ at[n] = "removing" /\ n \notin Dirs
        /\ lost \in Nat /\ excess \in Nat /\ faults \in Nat
    BY TreeAssumption, OptionAssumption DEF Leftovers, IInv, Holding, Typed, RemoveList, Nodes
  <1>1. CASE faults' = faults /\ Closed(n, {"old"}) /\ Goto(n, "ended")
    <2>1. /\ \A m \in Nodes \ {n}, l \in Kinds : <<m, l>> \in fds' => <<m, l>> \in fds
          /\ \A l \in Kinds : <<n, l>> \in fds' => l \in {}
      BY <1>0, <1>1 DEF Kinds, Opened, OpenFails, Closed, FdopendirFails, HoldingOf, Holds
    <2>2. /\ IsFiniteSet({})
          /\ Cardinality({}) + lost' + 2 * faults + excess <= lost + 2 * faults' + excess'
      BY <1>0, <1>1, KindSets DEF Opened, OpenFails, Closed, FdopendirFails, Fault
    <2>3. Led(n, "ended")
      BY <1>0, <1>1, GotoLed DEF Leftovers, Places
    <2>4. LeavesOnly(n, "ended", {}, {})
      BY <1>0, <2>1, <2>2, <2>3 DEF LeavesOnly
    <2> QED BY <1>0, <2>4, LedgerMove
  <1>2. CASE FdopendirFails /\ Goto(n, "failed")
    <2>1. /\ \A m \in Nodes \ {n}, l \in Kinds : <<m, l>> \in fds' => <<m, l>> \in fds
          /\ \A l \in Kinds : <<n, l>> \in fds' => l \in {"old"}
      BY <1>0, <1>2 DEF Kinds, Opened, OpenFails, Closed, FdopendirFails, HoldingOf, Holds
    <2>2. /\ IsFiniteSet({"old"})
          /\ Cardinality({"old"}) + lost' + 2 * faults + excess <= lost + 2 * faults' + excess'
      BY <1>0, <1>2, KindSets DEF Opened, OpenFails, Closed, FdopendirFails, Fault
    <2>3. Led(n, "failed")
      BY <1>0, <1>2, GotoLed DEF Leftovers, Places
    <2>4. LeavesOnly(n, "failed", {"old"}, {"old"})
      BY <1>0, <2>1, <2>2, <2>3 DEF LeavesOnly
    <2> QED BY <1>0, <2>4, LedgerMove
  <1>3. CASE Fault /\ Closed(n, {"old"}) /\ Goto(n, "ended")
    <2>1. /\ \A m \in Nodes \ {n}, l \in Kinds : <<m, l>> \in fds' => <<m, l>> \in fds
          /\ \A l \in Kinds : <<n, l>> \in fds' => l \in {}
      BY <1>0, <1>3 DEF Kinds, Opened, OpenFails, Closed, FdopendirFails, HoldingOf, Holds
    <2>2. /\ IsFiniteSet({})
          /\ Cardinality({}) + lost' + 2 * faults + excess <= lost + 2 * faults' + excess'
      BY <1>0, <1>3, KindSets DEF Opened, OpenFails, Closed, FdopendirFails, Fault
    <2>3. Led(n, "ended")
      BY <1>0, <1>3, GotoLed DEF Leftovers, Places
    <2>4. LeavesOnly(n, "ended", {}, {})
      BY <1>0, <2>1, <2>2, <2>3 DEF LeavesOnly
    <2> QED BY <1>0, <2>4, LedgerMove
  <1>4. CASE n \in Files /\ Closed(n, {"old"}) /\ HandOver(n)
    <2>1. /\ \A m \in Nodes \ {n}, l \in Kinds : <<m, l>> \in fds' => <<m, l>> \in fds
          /\ \A l \in Kinds : <<n, l>> \in fds' => l \in {}
      BY <1>0, <1>4 DEF Kinds, Opened, OpenFails, Closed, FdopendirFails, HoldingOf, Holds
    <2>2. /\ IsFiniteSet({})
          /\ Cardinality({}) + lost' + 2 * faults + excess <= lost + 2 * faults' + excess'
      BY <1>0, <1>4, KindSets DEF HandOver, Opened, OpenFails, Closed, FdopendirFails, Fault
    <2>3. Led(n, "ended")
      BY <1>0, <1>4, HandOverLed DEF Leftovers
    <2>4. LeavesOnly(n, "ended", {}, {})
      BY <1>0, <2>1, <2>2, <2>3 DEF LeavesOnly
    <2> QED BY <1>0, <2>4, LedgerMove
  <1> QED BY <1>1, <1>2, <1>3, <1>4 DEF RemoveList, GiveUp

LEMMA InitLeftovers == Init => Leftovers
  <1> SUFFICES ASSUME Init PROVE Leftovers
    OBVIOUS
  <1>1. Left = {}
    BY DEF Init, Left
  <1>2. OwnKinds
    BY DEF Init, OwnKinds
  <1> QED BY <1>1, <1>2, InitIInv, KindSets DEF Leftovers, Ledger, Init

LEMMA StepLeftovers == Leftovers /\ [Next]_vars => Leftovers'
  <1> SUFFICES ASSUME Leftovers, [Next]_vars PROVE Leftovers'
    OBVIOUS
  <1>0. IInv'
    BY StepIInv DEF Leftovers
  <1>1. ASSUME NEW d \in Dirs,
               \/ OpenDir(d) \/ StatDir(d) \/ DupDir(d)
               \/ OpenExtras(d) \/ ListExtras(d) \/ Pruned(d)
               \/ OpenDst(d) \/ Crawl(d) \/ Crawled(d) \/ CloseDir(d)
        PROVE  Leftovers'
    BY <1>0, <1>1, OpenDirLeaves, StatDirLeaves, DupDirLeaves, OpenExtrasLeaves,
       ListExtrasLeaves, PrunedLeaves, OpenDstLeaves, CrawlLeaves, CrawledLeaves,
       CloseDirLeaves
  <1>2. ASSUME NEW f \in Files,
               \/ SkipFile(f) \/ BecomeRoot(f) \/ WaitForRoot(f)
               \/ OpenSource(f) \/ OpenPartial(f) \/ EnqueueFile(f)
               \/ FinishFile(f) \/ FinishStamp(f)
        PROVE  Leftovers'
    BY <1>0, <1>2, SkipFileLeaves, BecomeRootLeaves, WaitForRootLeaves, OpenSourceLeaves,
       OpenPartialLeaves, EnqueueFileLeaves, FinishFileLeaves, FinishStampLeaves
  <1>3. ASSUME NEW n \in Files \cup Extras, RemoveOpen(n) \/ RemoveList(n)
        PROVE  Leftovers'
    BY <1>0, <1>3, RemoveOpenLeaves, RemoveListLeaves
  <1>4. CASE UNCHANGED vars
    BY <1>0, <1>4 DEF vars, Leftovers, Ledger, Left, OwnKinds, Ended
  <1> QED BY <1>1, <1>2, <1>3, <1>4 DEF Next

\* In the end no file keeps a descriptor, and no failure has cost the budget more
\* than two units, whatever failed where (copy2.cpp:956-1099), but for the
\* directories of names whose root has failed behind its registration
\* (hlinkstate.cpp:263-272); and nobody waits for a root if nothing failed.
THEOREM LittleIsLeft == Spec => []AllClosed
  <1>1. Leftovers /\ Linked => AllClosed
    <2> SUFFICES ASSUME Leftovers, Linked, \A n \in Nodes : AtRest(n)
                 PROVE  /\ \A fd \in fds : fd[1] \in Dirs \/ fd[2] = "old"
                        /\ maxFDs <= fdSem + 2 * faults + Cardinality(HeldDirs)
                        /\ \A f \in Files : at[f] = "pending" => faults > 0
      BY DEF AllClosed
    <2> DEFINE H == HeldDirs \X {"dst"}
    <2>1. ASSUME NEW fd \in fds
          PROVE  fd \in Left \cup H /\ (fd[1] \in Dirs \/ fd[2] = "old")
      <3>1. PICK n \in Nodes, k \in Kinds : fd = <<n, k>>
        BY <2>1 DEF Leftovers, IInv, Typed
      <3>2. HoldingOf(n)
        BY DEF Leftovers, IInv, Holding
      <3>3. CASE Ended(n)
        BY <2>1, <3>1, <3>3 DEF Left, Leftovers, OwnKinds, Nodes
      <3>4. CASE n \in HeldDirs
        <4>1. n \in Dirs /\ at[n] = "job"
          BY <3>4 DEF HeldDirs, Held
        <4>2. k = "dst" => fd \in H
          BY <3>1, <3>4
        <4>3. k # "dst" => fd \in Left
          BY <2>1, <3>1, <4>1 DEF Left
        <4> QED BY <3>1, <4>1, <4>2, <4>3
      <3>5. CASE at[n] \in {"none", "pending"}
        BY <2>1, <3>1, <3>2, <3>5 DEF HoldingOf, Holds
      <3> QED BY <3>3, <3>4, <3>5 DEF AtRest
    <2>2. IsFiniteSet(HeldDirs) /\ Cardinality(HeldDirs) \in Nat
      <3>1. HeldDirs \subseteq Dirs
        BY DEF HeldDirs
      <3> QED BY <3>1, TreeAssumption, FS_Subset, FS_CardinalityType
    <2>3. /\ IsFiniteSet(H) /\ Cardinality(H) = Cardinality(HeldDirs)
          /\ IsFiniteSet(Left) /\ Cardinality(Left) \in Nat
      BY <2>2, Times, FS_Subset, FS_CardinalityType DEF Left, Leftovers, IInv, Typed
    <2>4. /\ IsFiniteSet(Left \cup H)
          /\ Cardinality(Left \cup H) \in Nat
          /\ Cardinality(Left \cup H) <= Cardinality(Left) + Cardinality(H)
      <3> HIDE DEF H
      <3> QED BY <2>3, Both
    <2>5. Cardinality(fds) \in Nat /\ Cardinality(fds) <= Cardinality(Left \cup H)
      <3>1. fds \subseteq Left \cup H
        BY <2>1
      <3> QED BY <2>4, <3>1, FS_Subset, FS_CardinalityType
    <2>6. /\ maxFDs \in Nat /\ fdSem \in Nat
          /\ lost \in Nat /\ excess \in Nat /\ faults \in Nat
      BY OptionAssumption DEF Leftovers, IInv, Typed
    <2>7. maxFDs <= fdSem + 2 * faults + Cardinality(HeldDirs)
      <3>1. /\ fdSem + Cardinality(fds) + lost = maxFDs + excess
            /\ Cardinality(Left) + lost <= 2 * faults + excess
        BY DEF Leftovers, Ledger, IInv, BudgetExact
      <3> QED BY <2>2, <2>3, <2>4, <2>5, <2>6, <3>1
    <2>8. ASSUME NEW f \in Files, at[f] = "pending" PROVE faults > 0
      <3>1. info[Inode[f]] = "waiting" /\ Inode[f] \in Inodes
        BY <2>8 DEF Linked, Inodes
      <3>2. ASSUME NEW m \in Files PROVE at[m] \notin RootAt
        <4>1. m \in Nodes /\ m \notin HeldDirs
          BY TreeAssumption DEF Nodes, HeldDirs
        <4> QED BY <4>1 DEF AtRest, RootAt, Ended
      <3> QED BY <3>1, <3>2 DEF Linked
    <2> QED BY <2>1, <2>7, <2>8
  <1>2. Spec => []Leftovers
    BY InitLeftovers, StepLeftovers, PTL DEF Spec
  <1> QED BY <1>1, <1>2, NamesWait, PTL

----------------------------------------------------------------------------
(***************************************************************************)
(* Nobody waits for ever.  What one step does: a single node n goes on its *)
(* way; only when its directory is listed do others get tasks, and only    *)
(* when it is handed over are names that wait for it linked.               *)
(***************************************************************************)
DirWay(p, q) ==
    \/ p = "task" /\ q \in {"stat", "failed"}
    \/ p = "stat" /\ q \in {"dup", "failed"}
    \/ p = "dup" /\ q \in {"list", "dst", "failed"}
    \/ p = "list" /\ q \in {"read", "failed"}
    \/ p = "read" /\ q \in {"prune", "failed"}
    \/ p = "prune" /\ q = "dst"
    \/ p = "dst" /\ q \in {"crawl", "failed"}
    \/ p = "crawl" /\ q \in {"group", "job"}
    \/ p = "group" /\ q = "job"
    \/ p = "job" /\ q = "ended"
FileWay(p, q) ==
    \/ p = "task" /\ q \in {"opening", "stamp", "pending", "ended"}
    \/ p = "opening" /\ q \in {"open", "failed"}
    \/ p = "stamp" /\ q = "ended"
    \/ p = "open" /\ q \in {"space", "ended"}
    \/ p = "space" /\ q \in {"job", "ended"}
    \/ p = "job" /\ q \in {"old", "ended"}
    \/ p = "old" /\ q \in {"removing", "failed"}
    \/ p = "removing" /\ q \in {"ended", "failed"}
ExtraWay(p, q) ==
    \/ p = "task" /\ q \in {"removing", "failed"}
    \/ p = "removing" /\ q \in {"ended", "failed"}
Way(n, p, q) ==
    /\ n \in Dirs => DirWay(p, q)
    /\ n \in Files => FileWay(p, q)
    /\ n \in Extras => ExtraWay(p, q)

\* What n holds in the places where it has ended, or only its job is left, it held.
Moves(n) ==
    /\ Way(n, at[n], at'[n])
    /\ \A m \in Nodes \ {n} :
          \/ at'[m] = at[m]
          \/ at[m] = "none" /\ at'[m] = "task"
          \/ m \in Files /\ at[m] = "pending" /\ at'[m] = "ended"
    /\ \A m \in Nodes \ {n}, k \in Kinds : <<m, k>> \in fds' <=> <<m, k>> \in fds
    /\ at'[n] \in {"job", "ended", "failed"} =>
          \A k \in Kinds : <<n, k>> \in fds' => <<n, k>> \in fds
    /\ at[n] \in {"task", "prune", "group"} => CanRun(n)
    /\ at'[n] = "group" => \A m \in Children(n) : at'[m] # "none"
    /\ at'[n] = "prune" => \A m \in ExtrasIn(n) : at'[m] # "none"
    /\ at'[n] = "old" => n \in Blocked
    /\ at[n] = "removing" /\ at'[n] = "ended" => <<n, "old">> \notin fds'
    /\ \/ lost' = lost
       \/ lost' = lost + 1 /\ n \in Dirs /\ at[n] = "dup" /\ at'[n] = "failed"
    /\ excess' = IF at[n] \in {"read", "crawl", "removing"} /\ at'[n] \in {"failed", "job"}
                 THEN excess + 1 ELSE excess

\* A step that leads n alone to w.
LEMMA GotoMoves ==
    ASSUME IInv, NEW n \in Nodes, NEW w, Goto(n, w)
    PROVE  at'[n] = w /\ \A m \in Nodes \ {n} : at'[m] = at[m]
  BY DEF IInv, Typed, Goto

LEMMA DirMoves ==
    ASSUME IInv, NEW d \in Dirs,
           \/ OpenDir(d) \/ StatDir(d) \/ DupDir(d)
           \/ OpenExtras(d) \/ ListExtras(d) \/ Pruned(d)
           \/ OpenDst(d) \/ Crawl(d) \/ Crawled(d) \/ CloseDir(d)
    PROVE  Moves(d)
  <1> USE DEF Moves, Way, DirWay
  <1>0. /\ d \in Nodes /\ d \notin Files /\ d \notin Extras
        /\ at \in [Nodes -> Places] /\ lost \in Nat /\ excess \in Nat
    BY TreeAssumption DEF IInv, Typed, Nodes
  <1>1. ASSUME OpenDir(d) PROVE Moves(d)
    BY <1>0, <1>1, GotoMoves DEF OpenDir, Opened, OpenFails
  <1>2. ASSUME StatDir(d) PROVE Moves(d)
    BY <1>0, <1>2, GotoMoves DEF StatDir
  <1>3. ASSUME DupDir(d) PROVE Moves(d)
    BY <1>0, <1>3, GotoMoves DEF DupDir, Opened
  <1>4. ASSUME OpenExtras(d) PROVE Moves(d)
    BY <1>0, <1>4, GotoMoves DEF OpenExtras, Opened, OpenFails
  <1>5. ASSUME ListExtras(d) PROVE Moves(d)
    <2>1. CASE FdopendirFails /\ Goto(d, "failed")
      BY <1>0, <1>5, <2>1, GotoMoves DEF ListExtras, FdopendirFails
    <2>2. CASE /\ Closed(d, {"prune"})
               /\ at' = [n \in Nodes |-> IF n = d THEN "prune"
                                         ELSE IF n \in ExtrasIn(d) THEN "task"
                                         ELSE at[n]]
      <3>1. \A m \in ExtrasIn(d) : m \in Nodes /\ m # d /\ at[m] = "none"
        BY <1>0, <1>5 DEF ListExtras, IInv, ExtraBehind, ExtrasIn, Nodes
      <3>2. at[d] = "read" /\ at'[d] = "prune"
        BY <1>0, <1>5, <2>2 DEF ListExtras
      <3> QED BY <1>0, <2>2, <3>1, <3>2 DEF Closed
    <2> QED BY <1>5, <2>1, <2>2 DEF ListExtras
  <1>6. ASSUME Pruned(d) PROVE Moves(d)
    BY <1>0, <1>6, GotoMoves DEF Pruned
  <1>7. ASSUME OpenDst(d) PROVE Moves(d)
    BY <1>0, <1>7, GotoMoves DEF OpenDst, Opened, OpenFails
  <1>8. ASSUME Crawl(d) PROVE Moves(d)
    <2>1. CASE /\ Fault /\ Goto(d, "job") /\ lost' = lost
               /\ fds' = fds \ {<<d, "src">>} /\ excess' = excess + 1
      BY <1>0, <1>8, <2>1, GotoMoves DEF Crawl
    <2>2. CASE /\ at' = [n \in Nodes |-> IF n = d THEN "group"
                                         ELSE IF n \in Children(d) THEN "task"
                                         ELSE at[n]]
               /\ UNCHANGED <<fdSem, fds, lost, excess, faults>>
      <3>1. at[d] = "crawl" /\ at'[d] = "group"
        BY <1>0, <1>8, <2>2 DEF Crawl
      <3>2. \A m \in Children(d) : m \in Nodes /\ at[m] = "none"
        BY <3>1 DEF IInv, Behind, BehindOf, Children, Nodes
      <3>3. \A m \in Children(d) : m # d
        BY <3>1, <3>2
      <3> QED BY <1>0, <2>2, <3>1, <3>2, <3>3
    <2> QED BY <1>8, <2>1, <2>2 DEF Crawl
  <1>9. ASSUME Crawled(d) PROVE Moves(d)
    BY <1>0, <1>9, GotoMoves DEF Crawled, Closed
  <1>10. ASSUME CloseDir(d) PROVE Moves(d)
    BY <1>0, <1>10, GotoMoves DEF CloseDir, Closed
  <1> QED BY <1>1, <1>2, <1>3, <1>4, <1>5, <1>6, <1>7, <1>8, <1>9, <1>10

LEMMA FileMoves ==
    ASSUME IInv, NEW f \in Files,
           \/ SkipFile(f) \/ BecomeRoot(f) \/ WaitForRoot(f)
           \/ OpenSource(f) \/ OpenPartial(f) \/ EnqueueFile(f)
           \/ FinishFile(f) \/ FinishStamp(f)
    PROVE  Moves(f)
  <1> USE DEF Moves, Way, FileWay
  <1>0. /\ f \in Nodes /\ f \notin Dirs /\ f \notin Extras
        /\ at \in [Nodes -> Places] /\ lost \in Nat /\ excess \in Nat
    BY TreeAssumption DEF IInv, Typed, Nodes
  <1>h. ASSUME HandOver(f)
        PROVE  /\ at'[f] = "ended"
               /\ \A m \in Nodes \ {f} :
                     at'[m] = at[m] \/ (m \in Files /\ at[m] = "pending" /\ at'[m] = "ended")
    BY <1>h, HandOverLed DEF Led
  <1>1. ASSUME OpenSource(f) PROVE Moves(f)
    BY <1>0, <1>1, GotoMoves DEF OpenSource, Opened, OpenFails
  <1>2. ASSUME SkipFile(f) PROVE Moves(f)
    BY <1>0, <1>2, GotoMoves DEF SkipFile
  <1>3. ASSUME OpenPartial(f) PROVE Moves(f)
    BY <1>0, <1>3, GotoMoves DEF OpenPartial, Opened, Closed
  <1>4. ASSUME EnqueueFile(f) PROVE Moves(f)
    BY <1>0, <1>4, GotoMoves DEF EnqueueFile, Closed
  <1>5. ASSUME FinishFile(f) PROVE Moves(f)
    <2>1. CASE f \in Blocked /\ Goto(f, "old")
      BY <1>0, <1>5, <2>1, GotoMoves DEF FinishFile, Closed
    <2>2. CASE GiveUp(f)
      BY <1>0, <1>5, <2>2, GotoMoves DEF FinishFile, GiveUp, Closed
    <2>3. CASE HandOver(f)
      BY <1>0, <1>h, <1>5, <2>3 DEF FinishFile, Closed
    <2> QED BY <1>5, <2>1, <2>2, <2>3 DEF FinishFile
  <1>6. ASSUME FinishStamp(f) PROVE Moves(f)
    <2>1. CASE GiveUp(f)
      BY <1>0, <1>6, <2>1, GotoMoves DEF FinishStamp, GiveUp
    <2>2. CASE HandOver(f)
      BY <1>0, <1>h, <1>6, <2>2 DEF FinishStamp
    <2> QED BY <1>6, <2>1, <2>2 DEF FinishStamp
  <1>7. ASSUME BecomeRoot(f) PROVE Moves(f)
    BY <1>0, <1>7, GotoMoves DEF BecomeRoot
  <1>8. ASSUME WaitForRoot(f) PROVE Moves(f)
    BY <1>0, <1>8, GotoMoves DEF WaitForRoot
  <1> QED BY <1>1, <1>2, <1>3, <1>4, <1>5, <1>6, <1>7, <1>8

LEMMA RemovalMoves ==
    ASSUME IInv, NEW n \in Files \cup Extras, RemoveOpen(n) \/ RemoveList(n)
    PROVE  Moves(n)
  <1> USE DEF Moves, Way, FileWay, ExtraWay
  <1>0. /\ n \in Nodes /\ n \notin Dirs /\ ~(n \in Files /\ n \in Extras)
        /\ at \in [Nodes -> Places] /\ lost \in Nat /\ excess \in Nat
    BY TreeAssumption DEF IInv, Typed, Nodes
  <1>1. ASSUME RemoveOpen(n) PROVE Moves(n)
    BY <1>0, <1>1, GotoMoves DEF RemoveOpen, Opened, OpenFails
  <1>2. ASSUME RemoveList(n) PROVE Moves(n)
    <2>1. CASE FdopendirFails /\ Goto(n, "failed")
      BY <1>0, <1>2, <2>1, GotoMoves DEF RemoveList, FdopendirFails
    <2>2. CASE Closed(n, {"old"}) /\ Goto(n, "ended")
      BY <1>0, <1>2, <2>2, GotoMoves DEF RemoveList, Closed
    <2>3. CASE Closed(n, {"old"}) /\ n \in Files /\ HandOver(n)
      <3>1. /\ at'[n] = "ended"
            /\ \A m \in Nodes \ {n} :
                  at'[m] = at[m] \/ (m \in Files /\ at[m] = "pending" /\ at'[m] = "ended")
        BY <2>3, HandOverLed DEF Led
      <3> QED BY <1>0, <1>2, <2>3, <3>1 DEF RemoveList, Closed
    <2> QED BY <1>2, <2>1, <2>2, <2>3 DEF RemoveList, GiveUp
  <1> QED BY <1>1, <1>2

LEMMA SomebodyMoves ==
    ASSUME IInv, Next
    PROVE  \E n \in Nodes : Moves(n)
  BY DirMoves, FileMoves, RemovalMoves DEF Next, Nodes

----------------------------------------------------------------------------
(* Everyone's way has an end.                                              *)

Rank(p) ==
    CASE p = "none" -> 0 [] p = "task" -> 1
      [] p \in {"stat", "opening", "stamp", "pending"} -> 2 [] p = "dup" -> 3
      [] p = "list" -> 4 [] p = "read" -> 5 [] p = "prune" -> 6 [] p = "dst" -> 7
      [] p = "crawl" -> 8 [] p = "group" -> 9 [] p = "open" -> 10 [] p = "space" -> 11
      [] p = "job" -> 12 [] p = "old" -> 13 [] p = "removing" -> 14
      [] OTHER -> 15
Ahead == {step \in Nodes \X (1 .. 15) : Rank(at[step[1]]) < step[2]}
StepsLeft == Cardinality(Ahead)

LEMMA WaysRise ==
    ASSUME NEW n \in Nodes, NEW p, NEW q, Way(n, p, q)
    PROVE  Rank(p) \in 1 .. 14 /\ Rank(q) \in 1 .. 15 /\ Rank(p) < Rank(q)
  <1>1. CASE DirWay(p, q)
    BY <1>1 DEF DirWay, Rank
  <1>2. CASE FileWay(p, q)
    BY <1>2 DEF FileWay, Rank
  <1>3. CASE ExtraWay(p, q)
    BY <1>3 DEF ExtraWay, Rank
  <1> QED BY <1>1, <1>2, <1>3 DEF Way, Nodes

LEMMA AheadFinite == IsFiniteSet(Ahead) /\ StepsLeft \in Nat
  <1>1. IsFiniteSet(Nodes)
    BY TreeAssumption, FS_Union DEF Nodes
  <1>2. IsFiniteSet(1 .. 15)
    <2>1. 1 \in Int /\ 15 \in Int
      OBVIOUS
    <2> QED BY <2>1, FS_Interval, Zenon
  <1>3. IsFiniteSet(Nodes \X (1 .. 15))
    BY <1>1, <1>2, FS_Product
  <1>4. IsFiniteSet(Ahead)
    BY <1>3, FS_Subset DEF Ahead
  <1> QED BY <1>4, FS_CardinalityType DEF StepsLeft

\* Every step of a task or a job is one less: whatever fails, none is taken twice,
\* so that no thread goes round in circles (copy2.cpp:956-1130, 1145-1312).
THEOREM StepsRunOut == Spec => [][StepsLeft' < StepsLeft /\ StepsLeft' \in Nat]_vars
  <1>1. ASSUME IInv, Next PROVE StepsLeft' < StepsLeft /\ StepsLeft' \in Nat
    <2>1. PICK n \in Nodes : Moves(n)
      BY <1>1, SomebodyMoves
    <2>2. Rank(at[n]) \in 1 .. 14 /\ Rank(at'[n]) \in 1 .. 15 /\ Rank(at[n]) < Rank(at'[n])
      BY <2>1, WaysRise DEF Moves
    <2>3. \A m \in Nodes \ {n} : \/ Rank(at'[m]) = Rank(at[m])
                                 \/ Rank(at[m]) = 0 /\ Rank(at'[m]) = 1
                                 \/ Rank(at[m]) = 2 /\ Rank(at'[m]) = 15
      BY <2>1 DEF Moves, Rank
    <2>4. Ahead' \subseteq Ahead
      <3> SUFFICES ASSUME NEW m \in Nodes, NEW k \in 1 .. 15, Rank(at'[m]) < k
                   PROVE  Rank(at[m]) < k
        BY DEF Ahead
      <3>1. CASE m = n
        BY <2>2, <3>1
      <3>2. CASE m # n
        BY <2>3, <3>2
      <3> QED BY <3>1, <3>2
    <2>5. <<n, Rank(at'[n])>> \in Ahead /\ <<n, Rank(at'[n])>> \notin Ahead'
      BY <2>2 DEF Ahead
    <2>6. IsFiniteSet(Ahead) /\ StepsLeft \in Nat
      BY AheadFinite
    <2>7. Cardinality(Ahead') <= Cardinality(Ahead) /\ Cardinality(Ahead') # Cardinality(Ahead)
      BY <2>4, <2>5, <2>6, FS_Subset
    <2>8. Cardinality(Ahead') \in Nat
      BY <2>4, <2>6, FS_Subset, FS_CardinalityType
    <2> QED BY <2>6, <2>7, <2>8 DEF StepsLeft
  <1>2. IInv /\ [Next]_vars => [StepsLeft' < StepsLeft /\ StepsLeft' \in Nat]_vars
    BY <1>1
  <1> QED BY <1>2, InductiveInvariant, PTL DEF Spec

----------------------------------------------------------------------------
(* What the nodes of each sort can be at and hold.                         *)

Sorts ==
    /\ \A d \in Dirs :
          at[d] \notin {"opening", "open", "space", "stamp", "pending", "old", "removing"}
    /\ \A f \in Files :
          /\ at[f] \in {"none", "task", "opening", "open", "space", "job", "stamp", "pending",
                       "old", "removing", "ended", "failed"}
          /\ at[f] \in {"old", "removing"} => f \in Blocked
    /\ \A e \in Extras : at[e] \in {"none", "task", "removing", "ended", "failed"}

\* Who waits for others has given them their tasks.
Told ==
    \A d \in Dirs : /\ at[d] = "group" => \A m \in Children(d) : at[m] # "none"
                    /\ at[d] = "prune" => \A m \in ExtrasIn(d) : at[m] # "none"

\* A directory opens its destination when it has closed the listing of it.
DirKinds ==
    \A d \in Dirs : /\ \A k \in {"in", "out", "old"} : <<d, k>> \notin fds
                    /\ ~(<<d, "prune">> \in fds /\ <<d, "dst">> \in fds)

\* Each unit lost is that of a directory that has no duplicate, and each listing of
\* a removal that stays open has given its unit back.
LostAt == {d \in Dirs : at[d] = "failed" /\ <<d, "src">> \notin fds}
OldOpen == {n \in Files \cup Extras : Ended(n) /\ <<n, "old">> \in fds}
Books == lost <= Cardinality(LostAt) /\ Cardinality(OldOpen) <= excess

Crews == Cardinality(Running) <= Crawlers

Shares == Leftovers /\ Sorts /\ Told /\ DirKinds /\ Books /\ Crews

LEMMA FiniteParts ==
    /\ IsFiniteSet(Nodes) /\ IsFiniteSet(LostAt) /\ IsFiniteSet(OldOpen) /\ IsFiniteSet(Running)
    /\ Cardinality(LostAt) \in Nat /\ Cardinality(OldOpen) \in Nat /\ Cardinality(Running) \in Nat
  <1>1. IsFiniteSet(Nodes)
    BY TreeAssumption, FS_Union DEF Nodes
  <1>2. LostAt \subseteq Nodes /\ OldOpen \subseteq Nodes /\ Running \subseteq Nodes
    BY DEF LostAt, OldOpen, Running, Nodes
  <1> QED BY <1>1, <1>2, FS_Subset, FS_CardinalityType

LEMMA SortsStep ==
    ASSUME Shares, NEW n \in Nodes, Moves(n)
    PROVE  Sorts' /\ Told'
  <1> USE DEF Moves, Way
  <1>1. ASSUME NEW d \in Dirs
        PROVE  /\ at'[d] \notin {"opening", "open", "space", "stamp", "pending", "old",
                                "removing"}
               /\ at'[d] = "group" => \A m \in Children(d) : at'[m] # "none"
               /\ at'[d] = "prune" => \A m \in ExtrasIn(d) : at'[m] # "none"
    <2>1. CASE d = n
      BY <2>1 DEF DirWay
    <2>2. CASE d # n
      <3>1. d \in Nodes /\ \A m \in Nodes : at[m] # "none" => at'[m] # "none"
        BY DEF Nodes, DirWay, FileWay, ExtraWay
      <3>2. Children(d) \subseteq Nodes /\ ExtrasIn(d) \subseteq Nodes
        BY DEF Children, ExtrasIn, Nodes
      <3> QED BY <2>2, <3>1, <3>2 DEF Shares, Sorts, Told
    <2> QED BY <2>1, <2>2
  <1>2. ASSUME NEW f \in Files
        PROVE  /\ at'[f] \in {"none", "task", "opening", "open", "space", "job", "stamp",
                             "pending", "old", "removing", "ended", "failed"}
               /\ at'[f] \in {"old", "removing"} => f \in Blocked
    BY DEF FileWay, Shares, Sorts, Nodes
  <1>3. ASSUME NEW e \in Extras
        PROVE  at'[e] \in {"none", "task", "removing", "ended", "failed"}
    BY DEF ExtraWay, Shares, Sorts, Nodes
  <1> QED BY <1>1, <1>2, <1>3 DEF Sorts, Told

LEMMA DirKindsStep ==
    ASSUME Shares, IInv', Sorts', NEW n \in Nodes, Moves(n)
    PROVE  DirKinds'
  <1> SUFFICES ASSUME NEW d \in Dirs
               PROVE  /\ \A k \in {"in", "out", "old"} : <<d, k>> \notin fds'
                      /\ ~(<<d, "prune">> \in fds' /\ <<d, "dst">> \in fds')
    BY Zenon DEF DirKinds
  <1>0. d \in Nodes /\ HoldingOf(d)'
    <2>1. \A m \in Nodes : HoldingOf(m)'
      BY DEF IInv, Holding
    <2> QED BY <2>1, Zenon DEF Nodes
  <1>1. CASE d # n
    BY <1>0, <1>1 DEF Moves, Shares, DirKinds, Kinds
  <1>2. CASE d = n /\ at'[n] \in {"job", "ended", "failed"}
    BY <1>2 DEF Moves, Shares, DirKinds, Kinds
  <1>3. CASE d = n /\ at'[n] \notin {"job", "ended", "failed"}
    BY <1>0, <1>3 DEF Moves, Way, DirWay, HoldingOf, Holds, Kinds
  <1> QED BY <1>1, <1>2, <1>3

LEMMA BooksStep ==
    ASSUME Shares, NEW n \in Nodes, Moves(n)
    PROVE  Books'
  <1>0. HoldingOf(n) /\ lost \in Nat /\ excess \in Nat
    BY DEF Shares, Leftovers, IInv, Holding, Typed
  <1>1. at[n] \notin {"failed", "none"}
    BY DEF Moves, Way, DirWay, FileWay, ExtraWay, Nodes
  <1>2. LostAt \subseteq LostAt'
    BY <1>1, TreeAssumption DEF Moves, LostAt, Nodes, Kinds
  <1>3. /\ IsFiniteSet(LostAt') /\ Cardinality(LostAt') \in Nat /\ IsFiniteSet(LostAt)
        /\ IsFiniteSet(OldOpen') /\ Cardinality(OldOpen') \in Nat /\ IsFiniteSet(OldOpen)
        /\ Cardinality(OldOpen) \in Nat /\ Cardinality(LostAt) \in Nat
    <2>1. LostAt' \subseteq Nodes /\ OldOpen' \subseteq Nodes
      BY DEF LostAt, OldOpen, Nodes
    <2> QED BY <2>1, FiniteParts, FS_Subset, FS_CardinalityType
  <1>4. lost' <= Cardinality(LostAt')
    <2>1. CASE lost' = lost
      BY <1>0, <1>2, <1>3, <2>1, FS_Subset DEF Shares, Books
    <2>2. CASE lost' = lost + 1 /\ n \in Dirs /\ at[n] = "dup" /\ at'[n] = "failed"
      <3>1. n \notin LostAt /\ n \in LostAt'
        BY <1>0, <2>2 DEF LostAt, Moves, HoldingOf, Holds, Kinds
      <3>2. LostAt \cup {n} \subseteq LostAt'
        BY <1>2, <3>1
      <3>3. /\ IsFiniteSet(LostAt \cup {n})
            /\ Cardinality(LostAt \cup {n}) = Cardinality(LostAt) + 1
        BY <1>3, <3>1, FS_AddElement
      <3>4. Cardinality(LostAt \cup {n}) <= Cardinality(LostAt')
        BY <1>3, <3>2, FS_Subset
      <3> QED BY <1>0, <1>3, <2>2, <3>3, <3>4 DEF Shares, Books
    <2> QED BY <2>1, <2>2 DEF Moves
  <1>5. Cardinality(OldOpen') <= excess'
    <2>1. ASSUME NEW m \in Nodes \ {n}, m \in OldOpen' PROVE m \in OldOpen
      <3>1. HoldingOf(m) /\ <<m, "old">> \in fds
        BY <2>1 DEF Moves, OldOpen, Kinds, Shares, Leftovers, IInv, Holding
      <3>2. at[m] # "pending"
        BY <3>1 DEF HoldingOf, Holds, Kinds
      <3> QED BY <2>1, <3>1, <3>2 DEF Moves, OldOpen, Ended
    <2>2. CASE n \notin OldOpen'
      <3>1. OldOpen' \subseteq OldOpen
        BY <2>1, <2>2 DEF OldOpen, Nodes
      <3>2. Cardinality(OldOpen') <= Cardinality(OldOpen)
        BY <1>3, <3>1, FS_Subset
      <3> QED BY <1>0, <1>3, <3>2 DEF Shares, Books, Moves
    <2>3. CASE n \in OldOpen'
      <3>1. n \in Files \cup Extras /\ at'[n] \in {"ended", "failed"} /\ <<n, "old">> \in fds'
        BY <2>3 DEF OldOpen, Ended
      <3>6. <<n, "old">> \in fds
        BY <3>1 DEF Moves, Kinds
      <3>7. at[n] = "removing" /\ at'[n] = "failed"
        <4>1. CASE n \in Files
          <5>1. at[n] = "removing"
            BY <1>0, <3>1, <3>6, <4>1 DEF Moves, Way, FileWay, HoldingOf, Holds, Kinds
          <5> QED BY <3>1, <5>1 DEF Moves
        <4>2. CASE n \in Extras
          <5>1. at[n] = "removing"
            BY <1>0, <3>1, <3>6, <4>2 DEF Moves, Way, ExtraWay, HoldingOf, Holds, Kinds
          <5> QED BY <3>1, <5>1 DEF Moves
        <4> QED BY <3>1, <4>1, <4>2
      <3>3. excess' = excess + 1
        BY <3>7 DEF Moves
      <3>4. OldOpen' \subseteq OldOpen \cup {n}
        BY <2>1 DEF OldOpen, Nodes
      <3>5. /\ IsFiniteSet(OldOpen \cup {n})
            /\ Cardinality(OldOpen \cup {n}) <= Cardinality(OldOpen) + 1
            /\ Cardinality(OldOpen \cup {n}) \in Nat
        <4>1. /\ IsFiniteSet(OldOpen \cup {n})
              /\ \/ Cardinality(OldOpen \cup {n}) = Cardinality(OldOpen)
                 \/ Cardinality(OldOpen \cup {n}) = Cardinality(OldOpen) + 1
          BY <1>3, FS_AddElement, Zenon
        <4> QED BY <1>3, <4>1
      <3>8. Cardinality(OldOpen') <= Cardinality(OldOpen \cup {n})
        BY <3>4, <3>5, FS_Subset
      <3> QED BY <1>0, <1>3, <3>3, <3>5, <3>8 DEF Shares, Books
    <2> QED BY <2>2, <2>3
  <1> QED BY <1>4, <1>5 DEF Books

LEMMA CrewsStep ==
    ASSUME Shares, NEW n \in Nodes, Moves(n)
    PROVE  Crews'
  <1>1. \A m \in Nodes \ {n} : m \in Running' => m \in Running
    BY DEF Running, Moves, TaskOver, Ended
  <1>2. /\ IsFiniteSet(Running) /\ Cardinality(Running) \in Nat
        /\ IsFiniteSet(Running') /\ Cardinality(Running') \in Nat /\ Crawlers \in Nat
    <2>1. Running' \subseteq Nodes
      BY DEF Running
    <2> QED BY <2>1, FiniteParts, FS_Subset, FS_CardinalityType, OptionAssumption
  <1>3. CASE Running' \subseteq Running
    BY <1>2, <1>3, FS_Subset DEF Shares, Crews
  <1>4. CASE ~(Running' \subseteq Running)
    <2>1. n \in Running' /\ n \notin Running /\ Running' \subseteq Running \cup {n}
      BY <1>1, <1>4 DEF Running
    <2>2. at[n] \in {"task", "prune", "group"}
      BY <2>1 DEF Running, TaskOver, Ended, Moves, Way, DirWay, FileWay, ExtraWay, Nodes
    <2>3. Cardinality(Running) < Crawlers
      BY <2>1, <2>2 DEF Moves, CanRun
    <2>4. IsFiniteSet(Running \cup {n}) /\ Cardinality(Running \cup {n}) = Cardinality(Running) + 1
      BY <1>2, <2>1, FS_AddElement
    <2>5. Cardinality(Running') <= Cardinality(Running \cup {n})
      BY <2>1, <2>4, FS_Subset
    <2> QED BY <1>2, <2>3, <2>4, <2>5 DEF Crews
  <1> QED BY <1>3, <1>4

LEMMA InitShares == Init => Shares
  <1> SUFFICES ASSUME Init PROVE Shares
    OBVIOUS
  <1>1. LostAt = {} /\ OldOpen = {} /\ Running = {}
    BY DEF Init, LostAt, OldOpen, Running, Nodes
  <1>2. Books /\ Crews
    BY <1>1, FS_EmptySet, OptionAssumption DEF Init, Books, Crews
  <1>3. Sorts /\ Told /\ DirKinds
    BY TreeAssumption DEF Init, Sorts, Told, DirKinds, Nodes
  <1> QED BY <1>2, <1>3, InitLeftovers DEF Shares

LEMMA StepShares == Shares /\ [Next]_vars => Shares'
  <1> SUFFICES ASSUME Shares, [Next]_vars PROVE Shares'
    OBVIOUS
  <1>0. Leftovers' /\ IInv' /\ IInv
    BY StepLeftovers DEF Shares, Leftovers
  <1>1. CASE Next
    <2>1. PICK n \in Nodes : Moves(n)
      BY <1>0, <1>1, SomebodyMoves
    <2> QED BY <1>0, <2>1, SortsStep, DirKindsStep, BooksStep, CrewsStep DEF Shares
  <1>2. CASE UNCHANGED vars
    BY <1>0, <1>2 DEF vars, Shares, Sorts, Told, DirKinds, Books, LostAt, OldOpen, Crews, Running,
       TaskOver, Ended
  <1> QED BY <1>1, <1>2

----------------------------------------------------------------------------
(* Who waits, and for what: a unit of the semaphore, a crawler thread, the *)
(* end of others, a finish processor.                                      *)

UnderWay(n) == ~AtRest(n)

Waits(n) ==
    \/ at[n] \in {"dup", "list", "dst", "opening", "open", "old"} /\ fdSem = 0
    \/ at[n] = "task" /\ ~(CanRun(n) /\ fdSem > 0)
    \/ at[n] = "prune" /\ ~(CanRun(n) /\ \A e \in ExtrasIn(n) : Ended(e))
    \/ at[n] = "group" /\ ~(CanRun(n) /\ \A m \in Children(n) : TaskOver(m))
    \/ at[n] \in {"job", "stamp"} /\ ~CanFinish
    \/ at[n] = "job" /\ n \in Dirs /\ \E f \in Children(n) \cap Files : UnderWay(f)

AllWait == \A n \in Nodes : UnderWay(n) => Waits(n)

\* With a budget above HeldInWait not all that are under way wait.
NobodyStuck == maxFDs > HeldInWait /\ AllWait => \A n \in Nodes : ~UnderWay(n)

\* Among any directories there is one that is the parent of none of them.
LEMMA Deepest ==
    ASSUME NEW G \in SUBSET Dirs, G # {}
    PROVE  \E d \in G : Children(d) \cap G = {}
  <1> SUFFICES ASSUME \A d \in G : Children(d) \cap G # {} PROVE FALSE
    OBVIOUS
  <1> DEFINE child == [d \in G |-> CHOOSE m \in G : m \in Children(d)]
  <1>1. \A d \in G : child[d] \in G /\ child[d] \in Children(d)
    OBVIOUS
  <1>2. \A d \in G : child[d] # Top /\ Parent[child[d]] = d
    BY <1>1 DEF Children
  <1>3. child \in [G -> G] /\ \A a, b \in G : child[a] = child[b] => a = b
    BY <1>1, <1>2
  <1>4. child \in Injection(G, G)
    BY <1>3 DEF Injection, IsInjective
  <1>5. IsFiniteSet(G)
    BY TreeAssumption, FS_Subset
  <1>6. child \in Surjection(G, G)
    BY <1>4, <1>5, FS_Injection
  <1>7. \A g \in G : \E d \in G : child[d] = g
    BY <1>6 DEF Surjection
  <1>8. ASSUME NEW g \in G PROVE g # Top /\ Parent[g] \in G
    <2>1. PICK d \in G : child[d] = g
      BY <1>7
    <2> HIDE DEF child
    <2> QED BY <1>2, <2>1
  <1> QED BY <1>8, RootAssumption

\* Where there is a unit to be had, only the end lets all of them rest.
LEMMA RestWithUnits ==
    ASSUME Shares, fdSem > 0, AllWait, NEW n \in Nodes
    PROVE  ~UnderWay(n)
  <1> USE DEF UnderWay, AtRest
  <1>1. at \in [Nodes -> Places]
    BY DEF Shares, Leftovers, IInv, Typed
  <1>0. \A m \in HeldDirs : m \in Dirs /\ at[m] = "job"
    BY DEF HeldDirs, Held
  <1>2. ASSUME NEW m \in Nodes PROVE m \notin Running
    <2>1. at[m] \in Places
      BY <1>1
    <2> QED BY <1>0, <2>1 DEF AllWait, Waits, Running, TaskOver, Ended, Places
  <1>3. ASSUME NEW m \in Nodes PROVE CanRun(m)
    <2>1. Running = {}
      BY <1>2 DEF Running
    <2> QED BY <2>1, FS_EmptySet, OptionAssumption DEF CanRun
  <1>4. ASSUME NEW m \in Nodes
        PROVE  at[m] \in {"none", "prune", "group", "job", "stamp", "pending", "ended", "failed"}
    <2>1. at[m] \in Places
      BY <1>1
    <2> QED BY <1>0, <1>2, <1>3, <2>1 DEF AllWait, Waits, Running, TaskOver, Ended, Places
  <1>5. CanFinish
    <2>1. {f \in Files : at[f] \in {"old", "removing"}} = {}
      BY <1>4 DEF Nodes
    <2> QED BY <2>1, FS_EmptySet, OptionAssumption DEF CanFinish
  <1>6. ASSUME NEW f \in Files PROVE ~UnderWay(f)
    <2>1. f \in Nodes /\ f \notin Dirs
      BY TreeAssumption DEF Nodes
    <2>2. at[f] \in {"none", "job", "stamp", "pending", "ended", "failed"}
      BY <1>4, <2>1 DEF Shares, Sorts
    <2>3. f \notin HeldDirs
      BY <1>0, <2>1
    <2> QED BY <1>5, <2>1, <2>2, <2>3 DEF AllWait, Waits, Ended
  <1>7. ASSUME NEW e \in Extras PROVE ~UnderWay(e) /\ (at[e] # "none" => Ended(e))
    BY <1>4 DEF Shares, Sorts, Ended, Nodes
  <1>8. ASSUME NEW d \in Dirs PROVE at[d] \in {"none", "group", "ended", "failed"} \/ d \in HeldDirs
    <2>1. d \in Nodes
      BY DEF Nodes
    <2>2. CASE at[d] = "job"
      <3>1. ~(\E f \in Children(d) \cap Files : UnderWay(f))
        BY <1>6
      <3> QED BY <1>5, <2>1, <2>2, <3>1 DEF AllWait, Waits, Ended
    <2>3. CASE at[d] = "prune"
      <3>1. \A e \in ExtrasIn(d) : Ended(e)
        BY <1>7, <2>3 DEF Shares, Told, ExtrasIn
      <3> QED BY <1>0, <1>3, <2>1, <2>3, <3>1 DEF AllWait, Waits, Ended
    <2> QED BY <1>4, <2>1, <2>2, <2>3 DEF Shares, Sorts
  <1> DEFINE G == {d \in Dirs : at[d] = "group"}
  <1>9. G = {}
    <2> SUFFICES ASSUME G # {} PROVE FALSE
      OBVIOUS
    <2>1. PICK d \in G : Children(d) \cap G = {}
      BY Deepest
    <2>2. ASSUME NEW m \in Children(d) PROVE TaskOver(m)
      <3>1. at[m] # "none" /\ m \in Dirs \cup Files /\ m \notin G
        BY <2>1, <2>2 DEF Shares, Told, Children
      <3>2. CASE m \in Files
        BY <1>0, <1>6, <3>1, <3>2, TreeAssumption DEF TaskOver, Ended
      <3>3. CASE m \in Dirs
        BY <1>0, <1>8, <3>1, <3>3 DEF TaskOver, Ended
      <3> QED BY <3>1, <3>2, <3>3
    <2>3. d \in Nodes /\ at[d] = "group" /\ CanRun(d)
      BY <1>3 DEF Nodes
    <2> QED BY <1>0, <2>2, <2>3 DEF AllWait, Waits, Ended
  <1> QED BY <1>6, <1>7, <1>8, <1>9 DEF Nodes, Ended

\* Three units for each directory at most, one of them perhaps lost.
DirFds == {fd \in fds : fd[1] \in Dirs}

LEMMA HeldByDirs ==
    ASSUME Shares
    PROVE  /\ IsFiniteSet(DirFds) /\ Cardinality(DirFds) \in Nat
           /\ Cardinality(DirFds) + lost <= 3 * Cardinality(Dirs)
  <1> DEFINE P == {d \in Dirs : <<d, "prune">> \in fds}
             L == LostAt
             A == Dirs \X {"dir"}
             B == (Dirs \ L) \X {"src"}
             C == P \X {"prune"}
             D == (Dirs \ P) \X {"dst"}
  <1>1. P \subseteq Dirs /\ L \subseteq Dirs
    BY DEF LostAt
  <1>2. /\ IsFiniteSet(Dirs) /\ IsFiniteSet(P) /\ IsFiniteSet(L)
        /\ IsFiniteSet(Dirs \ P) /\ IsFiniteSet(Dirs \ L)
    <2>1. \A S \in SUBSET Dirs : IsFiniteSet(S)
      BY TreeAssumption, FS_Subset
    <2> QED BY <1>1, <2>1
  <1>3. /\ Cardinality(Dirs) = Cardinality(P) + Cardinality(Dirs \ P)
        /\ Cardinality(Dirs) = Cardinality(L) + Cardinality(Dirs \ L)
    <2>1. /\ P \cup (Dirs \ P) = Dirs /\ P \cap (Dirs \ P) = {}
          /\ L \cup (Dirs \ L) = Dirs /\ L \cap (Dirs \ L) = {}
      BY <1>1
    <2>2. Cardinality(P \cup (Dirs \ P)) = Cardinality(P) + Cardinality(Dirs \ P)
      BY <1>2, <2>1, Apart, Zenon
    <2>3. Cardinality(L \cup (Dirs \ L)) = Cardinality(L) + Cardinality(Dirs \ L)
      BY <1>2, <2>1, Apart, Zenon
    <2> QED BY <2>1, <2>2, <2>3
  <1>4. /\ IsFiniteSet(A) /\ Cardinality(A) = Cardinality(Dirs)
        /\ IsFiniteSet(B) /\ Cardinality(B) = Cardinality(Dirs \ L)
        /\ IsFiniteSet(C) /\ Cardinality(C) = Cardinality(P)
        /\ IsFiniteSet(D) /\ Cardinality(D) = Cardinality(Dirs \ P)
    BY <1>2, Times, Zenon
  <1>5. DirFds \subseteq (A \cup B) \cup (C \cup D)
    <2> SUFFICES ASSUME NEW fd \in DirFds PROVE fd \in (A \cup B) \cup (C \cup D)
      OBVIOUS
    <2>1. PICK d \in Dirs, k \in Kinds : fd = <<d, k>>
      BY DEF DirFds, Shares, Leftovers, IInv, Typed
    <2>2. <<d, k>> \in fds
      BY <2>1 DEF DirFds
    <2>3. k \in {"dir", "src", "prune", "dst"}
      BY <2>2 DEF Shares, DirKinds, Kinds
    <2>4. k = "src" => d \notin L
      BY <2>2 DEF LostAt
    <2>5. k = "dst" => d \notin P
      BY <2>2 DEF Shares, DirKinds
    <2>6. k = "prune" => d \in P
      BY <2>2
    <2> QED BY <2>1, <2>3, <2>4, <2>5, <2>6
  <1> HIDE DEF A, B, C, D, P, L
  <1>6. /\ IsFiniteSet(A \cup B) /\ Cardinality(A \cup B) <= Cardinality(A) + Cardinality(B)
        /\ IsFiniteSet(C \cup D) /\ Cardinality(C \cup D) <= Cardinality(C) + Cardinality(D)
        /\ Cardinality(A \cup B) \in Nat /\ Cardinality(C \cup D) \in Nat
    BY <1>4, Both
  <1>7. /\ IsFiniteSet((A \cup B) \cup (C \cup D))
        /\ Cardinality((A \cup B) \cup (C \cup D)) <= Cardinality(A \cup B) + Cardinality(C \cup D)
        /\ Cardinality((A \cup B) \cup (C \cup D)) \in Nat
    BY <1>6, Both
  <1>8. /\ IsFiniteSet(DirFds) /\ Cardinality(DirFds) \in Nat
        /\ Cardinality(DirFds) <= Cardinality((A \cup B) \cup (C \cup D))
    BY <1>5, <1>7, FS_Subset, FS_CardinalityType
  <1>9. /\ Cardinality(Dirs) \in Nat /\ Cardinality(P) \in Nat /\ Cardinality(L) \in Nat
        /\ Cardinality(Dirs \ P) \in Nat /\ Cardinality(Dirs \ L) \in Nat
    BY <1>2, FS_CardinalityType
  <1>10. lost <= Cardinality(L) /\ lost \in Nat
    BY DEF L, Shares, Books, Leftovers, IInv, Typed
  <1> QED BY <1>3, <1>4, <1>6, <1>7, <1>8, <1>9, <1>10

\* The files' descriptors where nothing is to be had, and all that are under
\* way wait.
Opening == {f \in Files : at[f] = "open"}
Queued == {f \in Files : at[f] = "job"}
InTheWay == {f \in Files : at[f] \in {"old", "removing"}}

LEMMA HeldByFiles ==
    ASSUME Shares, fdSem = 0, AllWait
    PROVE  fds \subseteq (DirFds \cup (OldOpen \X {"old"}))
                          \cup (((Opening \cup Queued) \X {"in"}) \cup (Queued \X {"out"}))
  <1> SUFFICES ASSUME NEW n \in Nodes, NEW k \in Kinds, <<n, k>> \in fds, n \notin Dirs
               PROVE  <<n, k>> \in (OldOpen \X {"old"})
                          \cup (((Opening \cup Queued) \X {"in"}) \cup (Queued \X {"out"}))
    BY DEF DirFds, Shares, Leftovers, IInv, Typed
  <1>1. HoldingOf(n)
    BY DEF Shares, Leftovers, IInv, Holding
  <1>2. at[n] \notin {"none", "task", "opening", "stamp", "pending", "old"}
    BY <1>1 DEF HoldingOf, Holds
  <1>3. at[n] \notin {"space", "removing"}
    <2>1. n \notin HeldDirs
      BY DEF HeldDirs
    <2> QED BY <2>1 DEF AllWait, Waits, UnderWay, AtRest, Ended
  <1>4. n \in Files \cup Extras
    BY DEF Nodes
  <1>5. at[n] \in {"open", "job", "ended", "failed"}
    BY <1>2, <1>3, <1>4 DEF Shares, Sorts
  <1>6. CASE at[n] = "open"
    <2>1. n \in Files /\ k = "in"
      BY <1>1, <1>4, <1>6 DEF HoldingOf, Holds, Shares, Sorts
    <2> QED BY <1>6, <2>1 DEF Opening
  <1>7. CASE at[n] = "job"
    <2>1. n \in Files /\ k \in {"in", "out"}
      BY <1>1, <1>4, <1>7 DEF HoldingOf, Holds, Shares, Sorts
    <2> QED BY <1>7, <2>1 DEF Queued
  <1>8. CASE at[n] \in {"ended", "failed"}
    <2>1. k = "old"
      BY <1>4, <1>8 DEF Shares, Leftovers, OwnKinds, Ended
    <2> QED BY <1>4, <1>8, <2>1 DEF OldOpen, Ended
  <1> QED BY <1>5, <1>6, <1>7, <1>8

\* There are finitely many files behind the names.
LEMMA InodesFinite == IsFiniteSet(Inodes) /\ Cardinality(Inodes) \in Nat
  <1>1. Inode \in Surjection(Files, Inodes)
    BY TreeAssumption DEF Surjection, Inodes
  <1> QED BY <1>1, TreeAssumption, FS_Surjection, FS_CardinalityType

\* Names with a job or on their way to one are of as many files.
LEMMA RootsOfFiles ==
    ASSUME Linked, NEW S \in SUBSET Files, \A f \in S : at[f] \in RootAt
    PROVE  Cardinality(S) <= Cardinality(Inodes)
  <1> DEFINE i == [f \in S |-> Inode[f]]
  <1>1. i \in [S -> Inodes]
    BY DEF Inodes
  <1>2. \A f, g \in S : i[f] = i[g] => f = g
    BY DEF Linked, OneRootEach
  <1>3. i \in Injection(S, Inodes)
    BY <1>1, <1>2 DEF Injection, IsInjective
  <1> QED BY <1>3, InodesFinite, FS_Injection

\* The names at one place or another are so many at most.
LEMMA FilesShared ==
    ASSUME Shares, Linked
    PROVE  /\ IsFiniteSet(Opening) /\ IsFiniteSet(Queued) /\ IsFiniteSet(InTheWay)
           /\ Cardinality(Opening) \in Nat /\ Cardinality(Queued) \in Nat
           /\ Cardinality(InTheWay) \in Nat
           /\ IsFiniteSet(Opening \cup Queued)
           /\ Cardinality(Opening \cup Queued) = Cardinality(Opening) + Cardinality(Queued)
           /\ Cardinality(Opening) + Cardinality(Queued) + Cardinality(InTheWay)
                 <= Cardinality(Inodes)
           /\ Cardinality(Opening) <= Crawlers
           /\ Cardinality(InTheWay) <= Cardinality(Blocked)
  <1>1. /\ Opening \subseteq Files /\ Queued \subseteq Files /\ InTheWay \subseteq Files
        /\ Opening \cap Queued = {} /\ (Opening \cup Queued) \cap InTheWay = {}
        /\ InTheWay \subseteq Blocked /\ Opening \subseteq Running
        /\ (Opening \cup Queued) \cup InTheWay \subseteq Files
    BY DEF Opening, Queued, InTheWay, Shares, Sorts, Running, TaskOver, Ended, Nodes
  <1>2. /\ IsFiniteSet(Opening) /\ IsFiniteSet(Queued) /\ IsFiniteSet(InTheWay)
        /\ IsFiniteSet(Files) /\ IsFiniteSet(Blocked)
    BY <1>1, TreeAssumption, FS_Subset
  <1>3. /\ IsFiniteSet(Opening \cup Queued)
        /\ Cardinality(Opening \cup Queued) = Cardinality(Opening) + Cardinality(Queued)
    BY <1>1, <1>2, Apart
  <1>4. Cardinality((Opening \cup Queued) \cup InTheWay)
           = Cardinality(Opening \cup Queued) + Cardinality(InTheWay)
    BY <1>1, <1>2, <1>3, Apart
  <1>10. Cardinality((Opening \cup Queued) \cup InTheWay) <= Cardinality(Inodes)
    BY <1>1, RootsOfFiles DEF Opening, Queued, InTheWay, RootAt
  <1>5. /\ Cardinality((Opening \cup Queued) \cup InTheWay) <= Cardinality(Inodes)
        /\ Cardinality(InTheWay) <= Cardinality(Blocked)
        /\ Cardinality(Opening) <= Cardinality(Running)
    BY <1>1, <1>2, <1>10, FiniteParts, FS_Subset
  <1>6. /\ Cardinality(Opening) \in Nat /\ Cardinality(Queued) \in Nat
        /\ Cardinality(InTheWay) \in Nat /\ Cardinality(Inodes) \in Nat
        /\ Cardinality(Running) \in Nat /\ Crawlers \in Nat
    BY <1>2, FiniteParts, InodesFinite, FS_CardinalityType, OptionAssumption
  <1>7. Cardinality(Running) <= Crawlers
    BY DEF Shares, Crews
  <1>8. Cardinality(Opening) + Cardinality(Queued) + Cardinality(InTheWay)
           <= Cardinality(Inodes)
    BY <1>3, <1>4, <1>5, <1>6
  <1>9. Cardinality(Opening) <= Crawlers
    BY <1>5, <1>6, <1>7
  <1> QED BY <1>2, <1>3, <1>5, <1>6, <1>8, <1>9

\* Files wait behind finish processors that all wait themselves.
LEMMA FilesWait ==
    ASSUME Shares, Linked, fdSem = 0, AllWait
    PROVE  3 * Cardinality(Dirs) + Cardinality(Opening) + 2 * Cardinality(Queued) <= HeldInWait
  <1> DEFINE o == Cardinality(Opening)
             q == Cardinality(Queued)
             w == Cardinality(InTheWay)
             n == Cardinality(Inodes)
             b == Cardinality(Blocked)
             d == Cardinality(Dirs)
  <1>1. /\ o \in Nat /\ q \in Nat /\ w \in Nat /\ o + q + w <= n /\ o <= Crawlers /\ w <= b
    BY FilesShared
  <1>2. /\ n \in Nat /\ b \in Nat /\ d \in Nat /\ Crawlers \in Nat /\ Finishers \in Nat
    <2>1. IsFiniteSet(Blocked) /\ IsFiniteSet(Dirs)
      BY TreeAssumption, FS_Subset
    <2> QED BY <2>1, InodesFinite, FS_CardinalityType, OptionAssumption
  <1>3. q = 0 \/ w >= Finishers
    <2>1. CASE Queued = {}
      BY <2>1, FS_EmptySet
    <2>2. CASE Queued # {}
      <3>1. PICK f \in Files : at[f] = "job"
        BY <2>2 DEF Queued
      <3>2. f \in Nodes /\ f \notin Dirs /\ UnderWay(f)
        BY <3>1, TreeAssumption DEF Nodes, UnderWay, AtRest, HeldDirs, Ended
      <3>3. ~CanFinish
        BY <3>1, <3>2 DEF AllWait, Waits
      <3> QED BY <1>1, <1>2, <3>3 DEF CanFinish, InTheWay
    <2> QED BY <2>1, <2>2
  <1>4. HeldInWait =
           LET open == IF Crawlers < n THEN Crawlers ELSE n
               behind == IF b < Finishers THEN 0 ELSE 2 * (n - Finishers)
           IN  3 * d + IF open < behind THEN behind ELSE open
    BY DEF HeldInWait, Smaller
  <1> HIDE DEF o, q, w, n, b, d
  <1>5. 3 * d + o + 2 * q <= HeldInWait
    BY <1>1, <1>2, <1>3, <1>4
  <1> QED BY <1>5 DEF o, q, d

LEMMA HeldInWaitType == HeldInWait \in Nat
  <1> DEFINE n == Cardinality(Inodes)
             b == Cardinality(Blocked)
             d == Cardinality(Dirs)
  <1>1. n \in Nat /\ b \in Nat /\ d \in Nat
    <2>1. IsFiniteSet(Blocked) /\ IsFiniteSet(Dirs)
      BY TreeAssumption, FS_Subset
    <2> QED BY <2>1, InodesFinite, FS_CardinalityType
  <1>2. Crawlers \in Nat /\ Finishers \in Nat
    BY OptionAssumption
  <1>3. HeldInWait =
           LET open == IF Crawlers < n THEN Crawlers ELSE n
               behind == IF b < Finishers THEN 0 ELSE 2 * (n - Finishers)
           IN  3 * d + IF open < behind THEN behind ELSE open
    BY DEF HeldInWait, Smaller
  <1> HIDE DEF n, b, d
  <1> QED BY <1>1, <1>2, <1>3

LEMMA RestWithout ==
    ASSUME Shares, Linked, fdSem = 0, AllWait
    PROVE  maxFDs <= HeldInWait
  <1> DEFINE A == DirFds
             B == OldOpen \X {"old"}
             C == (Opening \cup Queued) \X {"in"}
             D == Queued \X {"out"}
  <1>1. /\ IsFiniteSet(A) /\ Cardinality(A) \in Nat
        /\ Cardinality(A) + lost <= 3 * Cardinality(Dirs)
    BY HeldByDirs
  <1>2. /\ IsFiniteSet(B) /\ Cardinality(B) = Cardinality(OldOpen)
        /\ IsFiniteSet(C) /\ Cardinality(C) = Cardinality(Opening \cup Queued)
        /\ IsFiniteSet(D) /\ Cardinality(D) = Cardinality(Queued)
    BY FiniteParts, FilesShared, Times
  <1>3. fds \subseteq (A \cup B) \cup (C \cup D)
    BY HeldByFiles
  <1>4. /\ Cardinality(Opening \cup Queued) = Cardinality(Opening) + Cardinality(Queued)
        /\ Cardinality(Opening) \in Nat /\ Cardinality(Queued) \in Nat
    BY FilesShared
  <1>5. 3 * Cardinality(Dirs) + Cardinality(Opening) + 2 * Cardinality(Queued) <= HeldInWait
    BY FilesWait
  <1> HIDE DEF A, B, C, D
  <1>6. /\ IsFiniteSet(A \cup B) /\ Cardinality(A \cup B) <= Cardinality(A) + Cardinality(B)
        /\ IsFiniteSet(C \cup D) /\ Cardinality(C \cup D) <= Cardinality(C) + Cardinality(D)
        /\ Cardinality(A \cup B) \in Nat /\ Cardinality(C \cup D) \in Nat
    BY <1>1, <1>2, Both
  <1>7. /\ IsFiniteSet((A \cup B) \cup (C \cup D))
        /\ Cardinality((A \cup B) \cup (C \cup D)) <= Cardinality(A \cup B) + Cardinality(C \cup D)
        /\ Cardinality((A \cup B) \cup (C \cup D)) \in Nat
    BY <1>6, Both
  <1>8. /\ Cardinality(fds) \in Nat
        /\ Cardinality(fds) <= Cardinality((A \cup B) \cup (C \cup D))
    <2>1. IsFiniteSet(fds)
      BY DEF Shares, Leftovers, IInv, Typed
    <2> QED BY <1>3, <1>7, <2>1, FS_Subset, FS_CardinalityType
  <1>9. /\ Cardinality(fds) + lost = maxFDs + excess
        /\ Cardinality(OldOpen) <= excess
        /\ lost \in Nat /\ excess \in Nat /\ maxFDs \in Nat
    <2>1. /\ fdSem + Cardinality(fds) + lost = maxFDs + excess
          /\ lost \in Nat /\ excess \in Nat /\ maxFDs \in Nat
      BY DEF Shares, Leftovers, IInv, Typed, BudgetExact
    <2>2. Cardinality(OldOpen) <= excess
      BY DEF Shares, Books
    <2> QED BY <1>8, <2>1, <2>2
  <1>10. HeldInWait \in Nat /\ Cardinality(Dirs) \in Nat /\ Cardinality(OldOpen) \in Nat
    BY HeldInWaitType, TreeAssumption, FS_CardinalityType, FiniteParts
  <1>11. Cardinality(fds) <= Cardinality(A) + Cardinality(OldOpen)
                                + Cardinality(Opening) + 2 * Cardinality(Queued)
    BY <1>1, <1>2, <1>4, <1>6, <1>7, <1>8, <1>10
  <1> QED BY <1>1, <1>4, <1>5, <1>8, <1>9, <1>10, <1>11

(***************************************************************************)
(* Whoever waits in openat_wrapper or dup_wrapper, for a crawler thread,   *)
(* for a group of tasks or for a finish processor does not wait for ever:  *)
(* with --max-FDs above HeldInWait there is always somebody under way who  *)
(* waits for nothing, until nobody is under way (syscalls.h:219,           *)
(* copy2.cpp:956-1172).  With StepsRunOut this is the safety core of       *)
(* EveryoneEnds.                                                           *)
(***************************************************************************)
THEOREM SomebodyGoesOn == Spec => []NobodyStuck
  <1>1. Spec => []Shares
    BY InitShares, StepShares, PTL DEF Spec
  <1>2. Shares /\ Linked => NobodyStuck
    <2> SUFFICES ASSUME Shares, Linked, maxFDs > HeldInWait, AllWait, NEW n \in Nodes
                 PROVE  ~UnderWay(n)
      BY DEF NobodyStuck
    <2>1. fdSem \in Nat /\ maxFDs \in Nat
      BY DEF Shares, Leftovers, IInv, Typed
    <2>2. CASE fdSem = 0
      <3>1. maxFDs <= HeldInWait
        BY <2>2, RestWithout
      <3>2. HeldInWait \in Nat
        BY HeldInWaitType
      <3> QED BY <2>1, <3>1, <3>2
    <2>3. CASE fdSem > 0
      BY <2>3, RestWithUnits
    <2> QED BY <2>1, <2>2, <2>3
  <1> QED BY <1>1, <1>2, NamesWait, PTL
============================================================================
