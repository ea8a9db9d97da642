--------------------------- MODULE PipelineProofs ---------------------------
(***************************************************************************)
(* Theorems about Pipeline: for any tree, any number of threads and any    *)
(* bounds the reference counts of the directories are exact, a job is in   *)
(* one place and done once, a directory is stamped after all that is in    *)
(* it, and whoever goes home leaves nothing to do.                         *)
(*                                                                         *)
(* The counts are only exact because a directory's life has one order:     *)
(* opened, listed, its last reference turned into its dot job, stamped     *)
(* (Lives); and a release finds a reference because every task and every   *)
(* job has one place (Placed).  The ends of the loops are tied to the      *)
(* order in which the parts stop (Ends).                                   *)
(***************************************************************************)
EXTENDS Pipeline, FiniteSetTheorems, TLAPS

\* Where the job of a node can be.
WithTask(n) == task[n] \in {"toJobQueue", "toFinishQueue", "dot"}

InSlot(n) == \E s \in Schedulers : n \in held[s]

InHand(n) == \E f \in Finishers : fjob[f] = n

HasJob(n) == WithTask(n) \/ n \in jobQueue \/ n \in finishQueue \/ InSlot(n) \/ InHand(n)

\* What the threads have in hand agrees with where they are.
Hands ==
    /\ \A s \in Schedulers : spc[s] = "handing" => ready[s] \in held[s]
    /\ \A f \in Finishers : fpc[f] \in {"process", "dot"} <=> fjob[f] # Nothing
    /\ \A n \in Nodes : task[n] \in {"toJobQueue", "toFinishQueue"} => n \in Files
    /\ \A n \in Nodes : task[n] \in {"listing", "waiting", "dot"} => n \in Dirs

\* A job is in one place, and a file that was not looked at has none.
Placed ==
    /\ \A n \in Nodes : WithTask(n) =>
          n \notin jobQueue /\ n \notin finishQueue /\ ~InSlot(n) /\ ~InHand(n)
    /\ \A n \in jobQueue : n \notin finishQueue /\ ~InSlot(n) /\ ~InHand(n)
    /\ \A n \in finishQueue : ~InSlot(n) /\ ~InHand(n)
    /\ \A n \in Nodes : InSlot(n) => ~InHand(n)
    /\ \A n \in finished : ~HasJob(n)
    /\ \A r, s \in Schedulers : r # s => held[r] \cap held[s] = {}
    /\ \A f, g \in Finishers : f # g /\ fjob[f] # Nothing => fjob[f] # fjob[g]
    /\ \A n \in Files : task[n] \in {"none", "ready"} => ~HasJob(n) /\ n \notin finished

\* An entry's task runs only while its directory's waits for it.
Nested ==
    \A n \in Nodes \ {Root} :
        task[n] \notin {"none", "done"} => task[Parent[n]] \in {"listing", "waiting"}

\* The life of a directory: opened, listed, sent as a dot job, stamped.
Opened(d) == dst[d] \/ HasJob(d) \/ d \in finished

LifeOf(d) ==
    /\ dst[d] => ~HasJob(d) /\ d \notin finished
    /\ rc[d] > 0 <=> dst[d] \/ HasJob(d)
    /\ HasJob(d) => rc[d] = 1
    /\ task[d] \in {"listing", "waiting"} => dst[d]
    /\ Opened(d) => task[d] \in {"listing", "waiting", "dot", "drop", "done"}
    /\ task[d] = "waiting" => Listed(d)
    /\ Opened(d) => task[d] = "listing" \/ Listed(d) \/ Unlisted(d)
    /\ ~Opened(d) => Unlisted(d)
Lives == \A d \in Dirs : LifeOf(d)

\* The references of a directory, by who has them.
Active(d) == {n \in Children(d) : task[n] \notin {"none", "done"}}

Jobs(d) == {n \in (Children(d) \cap Files) \cup {d} : HasJob(n)}

CountOf(d) ==
    rc[d] = One(task[d] \in {"listing", "waiting"}) + Cardinality(Active(d))
            + Cardinality(Jobs(d))
Counts == \A d \in Dirs : CountOf(d)

\* The parts stop one after the other.
Ends ==
    /\ crawlDone => task[Root] = "done"
    /\ \A s \in Schedulers : spc[s] = "done" => held[s] = {} /\ crawlDone
    /\ \A f \in Finishers : (fdone[f] => SchedulersDone) /\ (fpc[f] = "done" => fdone[f])
    /\ (\A f \in Finishers : fpc[f] = "done") => finishQueue = {}
    /\ \A k \in 1 .. 4 : section[k] = "done" => SectionOver(k)

Refs == Nested /\ Lives /\ Counts

IInv == TypeOK /\ Hands /\ Placed /\ Refs /\ Ends

----------------------------------------------------------------------------
(* The tree and its counts.                                                *)

LEMMA FileNotDir == Root \notin Files /\ \A x \in Files : x \notin Dirs /\ x \in Nodes \ {Root}
  BY TreeAssumption DEF Nodes

LEMMA ParentDir == \A n \in Nodes \ {Root} : Parent[n] \in Dirs /\ Parent[n] \in Nodes
  BY TreeAssumption DEF Nodes

LEMMA ParentOther == \A n \in Nodes \ {Root} : Parent[n] # n
<1> SUFFICES ASSUME NEW n \in Nodes \ {Root}, Parent[n] = n PROVE FALSE
  OBVIOUS
<1>1. {n} \in SUBSET Nodes /\ {n} # {} /\ \A m \in {n} \ {Root} : Parent[m] \in {n}
  OBVIOUS
<1>2. Root \in {n}
  BY <1>1, TreeAssumption
<1> QED
  BY <1>2

LEMMA Subsets ==
    ASSUME NEW S \in SUBSET Nodes
    PROVE  IsFiniteSet(S) /\ Cardinality(S) \in Nat /\ (Cardinality(S) = 0 <=> S = {})
<1>1. IsFiniteSet(S)
  BY TreeAssumption, FS_Subset
<1> QED
  BY <1>1, FS_CardinalityType, FS_EmptySet

LEMMA Plus ==
    ASSUME NEW S \in SUBSET Nodes, NEW n \in Nodes, n \notin S
    PROVE  Cardinality(S \cup {n}) = Cardinality(S) + 1
  BY Subsets, FS_AddElement

LEMMA Minus ==
    ASSUME NEW S \in SUBSET Nodes, NEW n \in S
    PROVE  Cardinality(S \ {n}) = Cardinality(S) - 1
  BY Subsets, FS_RemoveElement

LEMMA SubsetsOf ==
    ASSUME NEW d \in Dirs
    PROVE  /\ Active(d) \in SUBSET Nodes /\ Active(d)' \in SUBSET Nodes
           /\ Jobs(d) \in SUBSET Nodes /\ Jobs(d)' \in SUBSET Nodes
  BY DEF Active, Jobs, Children, Nodes

----------------------------------------------------------------------------
(* Every variable has its type.                                            *)

LEMMA TypeInit == Init => TypeOK
<1> SUFFICES ASSUME Init PROVE TypeOK
  OBVIOUS
<1> QED
  BY TreeAssumption DEF Init, TypeOK, Nodes

LEMMA ReleasedType ==
    ASSUME TypeOK, NEW d \in Dirs, rc[d] > 0
    PROVE  ReleasedRc(d) \in [Dirs -> Nat] /\ ReleasedDst(d) \in [Dirs -> BOOLEAN]
  BY DEF TypeOK, ReleasedRc, ReleasedDst, SendsDot

LEMMA TeamType == ASSUME TypeOK, Team PROVE TypeOK'
  BY DEF TypeOK, Team, StartSection, EndSection, crawlVars, refVars, schedVars, finishVars

LEMMA CrawlType ==
    ASSUME TypeOK, NEW n \in Nodes,
           \/ OpenDir(n) \/ GiveUp(n) \/ ListEnd(n) \/ DirDot(n)
           \/ EnqueueJob(n) \/ EnqueueFinish(n)
           \/ ListEntry(n) \/ Transfer(n) \/ MetadataOnly(n),
           Hands
    PROVE  TypeOK'
<1>1. CASE OpenDir(n)
  BY <1>1 DEF OpenDir, Starts, TypeOK, crawlVars, refVars, schedVars, finishVars
<1>2. CASE GiveUp(n)
  BY <1>2 DEF GiveUp, Starts, TypeOK, crawlVars, refVars, schedVars, finishVars
<1>3. CASE ListEnd(n)
  BY <1>3 DEF ListEnd, TypeOK, crawlVars, refVars, schedVars, finishVars
<1>4. CASE DirDot(n)
  BY <1>4 DEF DirDot, TypeOK, crawlVars, refVars, schedVars, finishVars
<1>5. CASE EnqueueJob(n)
  BY <1>5 DEF EnqueueJob, TypeOK, Hands, crawlVars, refVars, schedVars, finishVars
<1>6. CASE EnqueueFinish(n)
  BY <1>6 DEF EnqueueFinish, TypeOK, crawlVars, refVars, schedVars, finishVars
<1>7. CASE ListEntry(n)
  BY <1>7, ParentDir DEF ListEntry, CountedChild, TypeOK, crawlVars, refVars, schedVars, finishVars
<1>8. CASE Transfer(n) \/ MetadataOnly(n)
  BY <1>8, ParentDir, FileNotDir
     DEF Transfer, MetadataOnly, Starts, CountedChild, TypeOK, crawlVars, refVars, schedVars,
         finishVars
<1> QED
  BY <1>1, <1>2, <1>3, <1>4, <1>5, <1>6, <1>7, <1>8

LEMMA SchedulerType ==
    ASSUME TypeOK, Hands, NEW s \in Schedulers, Scheduler(s) PROVE TypeOK'
<1>1. CASE \E x \in Files : FileCopied(s, x)
  BY <1>1 DEF FileCopied, TypeOK, crawlVars, refVars, schedVars, finishVars
<1>2. CASE \E x \in Files : Take(s, x)
  BY <1>2 DEF Take, TypeOK, crawlVars, refVars, schedVars, finishVars
<1>3. CASE HandOver(s)
  <2>1. finishQueue \cup {ready[s]} \in SUBSET Nodes
    BY <1>3 DEF HandOver, Hands, TypeOK, Nodes
  <2> QED
    BY <1>3, <2>1 DEF HandOver, TypeOK, crawlVars, refVars, schedVars, finishVars
<1>4. CASE CompleteEnd(s) \/ FillEnd(s) \/ ExitTest(s)
  BY <1>4 DEF CompleteEnd, FillEnd, ExitTest, TypeOK, crawlVars, refVars, schedVars, finishVars
<1> QED
  BY <1>1, <1>2, <1>3, <1>4 DEF Scheduler

----------------------------------------------------------------------------
(* How jobs move from place to place.                                      *)

LEMMA SlotIn ==
    ASSUME TypeOK, NEW s \in Schedulers, NEW x, held' = [held EXCEPT ![s] = @ \cup {x}]
    PROVE  \A n \in Nodes : InSlot(n)' <=> InSlot(n) \/ n = x
<1>1. \A r \in Schedulers : held'[r] = IF r = s THEN held[s] \cup {x} ELSE held[r]
  BY DEF TypeOK
<1> QED
  BY <1>1 DEF InSlot

LEMMA SlotOut ==
    ASSUME TypeOK, Placed, NEW s \in Schedulers, NEW x \in held[s],
           held' = [held EXCEPT ![s] = @ \ {x}]
    PROVE  \A n \in Nodes : InSlot(n)' <=> InSlot(n) /\ n # x
<1>1. \A r \in Schedulers : held'[r] = IF r = s THEN held[s] \ {x} ELSE held[r]
  BY DEF TypeOK
<1>2. \A r \in Schedulers : r # s => x \notin held[r]
  BY DEF Placed
<1> QED
  BY <1>1, <1>2 DEF InSlot

LEMMA HandSet ==
    ASSUME TypeOK, Placed, NEW f \in Finishers, NEW v, fjob' = [fjob EXCEPT ![f] = v]
    PROVE  \A n \in Nodes : InHand(n)' <=> (InHand(n) /\ n # fjob[f]) \/ n = v
<1>1. \A g \in Finishers : fjob'[g] = IF g = f THEN v ELSE fjob[g]
  BY DEF TypeOK
<1>2. \A n \in Nodes : n # Nothing
  BY TreeAssumption
<1>3. \A g \in Finishers : g # f /\ fjob[g] # Nothing => fjob[g] # fjob[f]
  BY DEF Placed
<1> QED
  BY <1>1, <1>2, <1>3 DEF InHand

\* The places of a job, but for those of the task.
SamePlaces ==
    jobQueue' = jobQueue /\ finishQueue' = finishQueue /\ held' = held /\ fjob' = fjob

\* A step of a task that neither makes a job nor moves one.
LEMMA TaskMoves ==
    ASSUME TypeOK, Placed, SamePlaces, finished' = finished,
           NEW n \in Nodes, NEW v, task' = [task EXCEPT ![n] = v],
           ~WithTask(n), v \notin {"toJobQueue", "toFinishQueue", "dot"},
           v \in {"none", "ready"} => n \in Dirs \/ task[n] \in {"none", "ready"}
    PROVE  Placed' /\ \A m \in Nodes : HasJob(m)' <=> HasJob(m)
<1>1. \A m \in Nodes : task'[m] = IF m = n THEN v ELSE task[m]
  BY DEF TypeOK
<1>2. \A m \in Nodes : WithTask(m)' <=> WithTask(m)
  BY <1>1 DEF WithTask
<1>3. \A m \in Nodes : (InSlot(m)' <=> InSlot(m)) /\ (InHand(m)' <=> InHand(m))
  BY DEF SamePlaces, InSlot, InHand
<1>4. \A m \in Nodes : HasJob(m)' <=> HasJob(m)
  BY <1>2, <1>3 DEF HasJob, SamePlaces
<1>5. jobQueue \subseteq Nodes /\ finishQueue \subseteq Nodes /\ finished \subseteq Nodes
      /\ Files \subseteq Nodes
  BY DEF TypeOK, Nodes
<1>6. \A m \in Files : task'[m] \in {"none", "ready"} => task[m] \in {"none", "ready"}
  BY <1>1, <1>5, FileNotDir
<1> QED
  BY <1>2, <1>3, <1>4, <1>5, <1>6 DEF Placed, SamePlaces

\* A task makes a job for its node.
LEMMA JobMade ==
    ASSUME TypeOK, Placed, SamePlaces, finished' = finished,
           NEW n \in Nodes, NEW v, task' = [task EXCEPT ![n] = v],
           ~HasJob(n), n \notin finished, v \in {"toJobQueue", "toFinishQueue", "dot"}
    PROVE  Placed' /\ \A m \in Nodes : HasJob(m)' <=> HasJob(m) \/ m = n
<1>1. \A m \in Nodes : task'[m] = IF m = n THEN v ELSE task[m]
  BY DEF TypeOK
<1>2. \A m \in Nodes : WithTask(m)' <=> WithTask(m) \/ m = n
  BY <1>1 DEF WithTask
<1>3. \A m \in Nodes : (InSlot(m)' <=> InSlot(m)) /\ (InHand(m)' <=> InHand(m))
  BY DEF SamePlaces, InSlot, InHand
<1>4. \A m \in Nodes : HasJob(m)' <=> HasJob(m) \/ m = n
  BY <1>2, <1>3 DEF HasJob, SamePlaces
<1>5. jobQueue \subseteq Nodes /\ finishQueue \subseteq Nodes /\ finished \subseteq Nodes
      /\ Files \subseteq Nodes
  BY DEF TypeOK, Nodes
<1>6. n \notin jobQueue /\ n \notin finishQueue /\ ~InSlot(n) /\ ~InHand(n)
  BY DEF HasJob
<1>7. \A m \in Files : task'[m] \in {"none", "ready"} => m # n /\ task[m] \in {"none", "ready"}
  BY <1>1, <1>5
<1> QED
  BY <1>2, <1>3, <1>4, <1>5, <1>6, <1>7 DEF Placed, SamePlaces

\* A task enqueues its job and goes on to its end.
LEMMA JobEnqueued ==
    ASSUME TypeOK, Placed, NEW n \in Nodes, WithTask(n), task' = [task EXCEPT ![n] = "drop"],
           \/ jobQueue' = jobQueue \cup {n} /\ finishQueue' = finishQueue
           \/ finishQueue' = finishQueue \cup {n} /\ jobQueue' = jobQueue,
           held' = held, fjob' = fjob, finished' = finished
    PROVE  Placed' /\ \A m \in Nodes : HasJob(m)' <=> HasJob(m)
<1>1. \A m \in Nodes : task'[m] = IF m = n THEN "drop" ELSE task[m]
  BY DEF TypeOK
<1>2. \A m \in Nodes : WithTask(m)' <=> WithTask(m) /\ m # n
  BY <1>1 DEF WithTask
<1>3. \A m \in Nodes : (InSlot(m)' <=> InSlot(m)) /\ (InHand(m)' <=> InHand(m))
  BY DEF InSlot, InHand
<1>4. n \notin jobQueue /\ n \notin finishQueue /\ ~InSlot(n) /\ ~InHand(n) /\ n \notin finished
  BY DEF Placed, HasJob
<1>5. \A m \in Nodes : HasJob(m)' <=> HasJob(m)
  BY <1>2, <1>3, <1>4 DEF HasJob
<1>6. jobQueue \subseteq Nodes /\ finishQueue \subseteq Nodes /\ finished \subseteq Nodes
      /\ Files \subseteq Nodes
  BY DEF TypeOK, Nodes
<1>7. \A m \in Files : task'[m] \in {"none", "ready"} => task[m] \in {"none", "ready"}
  BY <1>1, <1>6
<1> QED
  BY <1>2, <1>3, <1>4, <1>5, <1>6, <1>7 DEF Placed

\* The other threads move a job, and leave the tasks alone.
LEMMA JobTaken ==
    ASSUME TypeOK, Placed, NEW s \in Schedulers, NEW x \in Files, Take(s, x)
    PROVE  Placed' /\ \A m \in Nodes : HasJob(m)' <=> HasJob(m)
<1>1. /\ x \in jobQueue /\ jobQueue' = jobQueue \ {x} /\ finishQueue' = finishQueue
      /\ held' = [held EXCEPT ![s] = @ \cup {x}] /\ fjob' = fjob
      /\ task' = task /\ finished' = finished
  BY DEF Take, crawlVars, finishVars
<1>2. \A m \in Nodes : /\ InSlot(m)' <=> InSlot(m) \/ m = x
                       /\ InHand(m)' <=> InHand(m)
                       /\ WithTask(m)' <=> WithTask(m)
  BY <1>1, SlotIn DEF InHand, WithTask
<1>3. /\ x \in Nodes /\ ~WithTask(x) /\ x \notin finishQueue /\ ~InSlot(x) /\ ~InHand(x)
      /\ x \notin finished
  BY <1>1 DEF Placed, HasJob, Nodes
<1>4. jobQueue \subseteq Nodes /\ finishQueue \subseteq Nodes /\ finished \subseteq Nodes
      /\ Files \subseteq Nodes
  BY DEF TypeOK, Nodes
<1>5. \A m \in Nodes : HasJob(m)' <=> HasJob(m)
  BY <1>1, <1>2, <1>3 DEF HasJob
<1>6. \A q, r \in Schedulers : q # r => held'[q] \cap held'[r] = {}
  <2>1. \A r \in Schedulers : held'[r] = (IF r = s THEN held[s] \cup {x} ELSE held[r])
                              /\ x \notin held[r]
    BY <1>1, <1>3 DEF TypeOK, InSlot
  <2> QED
    BY <2>1 DEF Placed
<1> QED
  BY <1>1, <1>2, <1>3, <1>4, <1>5, <1>6 DEF Placed

LEMMA JobHandedOver ==
    ASSUME TypeOK, Hands, Placed, NEW s \in Schedulers, HandOver(s)
    PROVE  Placed' /\ \A m \in Nodes : HasJob(m)' <=> HasJob(m)
<1> DEFINE x == ready[s]
<1>1. /\ x \in held[s] /\ jobQueue' = jobQueue /\ finishQueue' = finishQueue \cup {x}
      /\ held' = [held EXCEPT ![s] = @ \ {x}] /\ fjob' = fjob
      /\ task' = task /\ finished' = finished
  BY DEF HandOver, crawlVars, finishVars, Hands
<1>2. \A m \in Nodes : InSlot(m)' <=> InSlot(m) /\ m # x
  BY <1>1, SlotOut
<1>3. \A m \in Nodes : (InHand(m)' <=> InHand(m)) /\ (WithTask(m)' <=> WithTask(m))
  BY <1>1 DEF InHand, WithTask
<1>4. x \in Nodes /\ InSlot(x)
  BY <1>1 DEF InSlot, TypeOK, Nodes
<1>5. /\ ~WithTask(x) /\ x \notin finishQueue /\ x \notin jobQueue /\ ~InHand(x)
      /\ x \notin finished
  BY <1>4 DEF Placed, HasJob
<1>6. jobQueue \subseteq Nodes /\ finishQueue \subseteq Nodes /\ finished \subseteq Nodes
      /\ Files \subseteq Nodes
  BY DEF TypeOK, Nodes
<1>7. \A m \in Nodes : HasJob(m)' <=> HasJob(m)
  BY <1>1, <1>2, <1>3, <1>4 DEF HasJob
<1>8. \A q, r \in Schedulers : q # r => held'[q] \cap held'[r] = {}
  <2>1. \A r \in Schedulers : held'[r] \subseteq held[r]
    BY <1>1 DEF TypeOK
  <2> QED
    BY <2>1 DEF Placed
<1> QED
  BY <1>1, <1>2, <1>3, <1>4, <1>5, <1>6, <1>7, <1>8 DEF Placed

LEMMA JobDequeued ==
    ASSUME TypeOK, Hands, Placed, NEW f \in Finishers, NEW j \in Nodes, Dequeue(f, j)
    PROVE  Placed' /\ \A m \in Nodes : HasJob(m)' <=> HasJob(m)
<1>1. /\ j \in finishQueue /\ jobQueue' = jobQueue /\ finishQueue' = finishQueue \ {j}
      /\ held' = held /\ fjob' = [fjob EXCEPT ![f] = j] /\ fjob[f] = Nothing
      /\ task' = task /\ finished' = finished
  BY DEF Dequeue, crawlVars, schedVars, Hands
<1>2. \A m \in Nodes : InHand(m)' <=> InHand(m) \/ m = j
  <2>1. \A m \in Nodes : m # Nothing
    BY TreeAssumption
  <2> QED
    BY <1>1, <2>1, HandSet
<1>3. \A m \in Nodes : (InSlot(m)' <=> InSlot(m)) /\ (WithTask(m)' <=> WithTask(m))
  BY <1>1 DEF InSlot, WithTask
<1>4. ~WithTask(j) /\ j \notin jobQueue /\ ~InSlot(j) /\ ~InHand(j) /\ j \notin finished
  BY <1>1 DEF Placed, HasJob
<1>5. jobQueue \subseteq Nodes /\ finishQueue \subseteq Nodes /\ finished \subseteq Nodes
      /\ Files \subseteq Nodes
  BY DEF TypeOK, Nodes
<1>6. \A m \in Nodes : HasJob(m)' <=> HasJob(m)
  BY <1>1, <1>2, <1>3 DEF HasJob
<1>7. \A g, h \in Finishers : g # h /\ fjob'[g] # Nothing => fjob'[g] # fjob'[h]
  <2>1. \A g \in Finishers : fjob'[g] = (IF g = f THEN j ELSE fjob[g]) /\ fjob[g] # j
    BY <1>1, <1>4 DEF TypeOK, InHand
  <2> QED
    BY <2>1 DEF Placed
<1> QED
  BY <1>1, <1>2, <1>3, <1>4, <1>5, <1>6, <1>7 DEF Placed

LEMMA DotSent ==
    ASSUME TypeOK, Hands, Placed, NEW f \in Finishers, SendDot(f)
    PROVE  Placed' /\ \A m \in Nodes : HasJob(m)' <=> HasJob(m)
<1> DEFINE j == fjob[f]
<1>1. /\ j # Nothing /\ jobQueue' = jobQueue /\ finishQueue' = finishQueue \cup {j}
      /\ held' = held /\ fjob' = [fjob EXCEPT ![f] = Nothing]
      /\ task' = task /\ finished' = finished
  BY DEF SendDot, crawlVars, schedVars, Hands
<1>2. j \in Nodes /\ InHand(j)
  BY <1>1 DEF TypeOK, InHand
<1>3. \A m \in Nodes : InHand(m)' <=> InHand(m) /\ m # j
  <2>1. \A m \in Nodes : m # Nothing
    BY TreeAssumption
  <2> QED
    BY <1>1, <2>1, HandSet
<1>4. \A m \in Nodes : (InSlot(m)' <=> InSlot(m)) /\ (WithTask(m)' <=> WithTask(m))
  BY <1>1 DEF InSlot, WithTask
<1>5. /\ ~WithTask(j) /\ j \notin jobQueue /\ j \notin finishQueue /\ ~InSlot(j)
      /\ j \notin finished
  BY <1>2 DEF Placed, HasJob
<1>6. jobQueue \subseteq Nodes /\ finishQueue \subseteq Nodes /\ finished \subseteq Nodes
      /\ Files \subseteq Nodes
  BY DEF TypeOK, Nodes
<1>7. \A m \in Nodes : HasJob(m)' <=> HasJob(m)
  BY <1>1, <1>2, <1>3, <1>4 DEF HasJob
<1>8. \A g, h \in Finishers : g # h /\ fjob'[g] # Nothing => fjob'[g] # fjob'[h]
  <2>1. \A g \in Finishers : fjob'[g] = (IF g = f THEN Nothing ELSE fjob[g])
    BY <1>1 DEF TypeOK
  <2> QED
    BY <2>1 DEF Placed
<1> QED
  BY <1>1, <1>2, <1>3, <1>4, <1>5, <1>6, <1>7, <1>8 DEF Placed

\* A job is done; if its directory's dot job is made, f has that in hand.
LEMMA JobDone ==
    ASSUME TypeOK, Placed, NEW f \in Finishers, NEW j \in Nodes, fjob[f] = j,
           NEW v \in Nodes \cup {Nothing},
           v # Nothing => v \in Dirs /\ ~HasJob(v) /\ v \notin finished,
           fjob' = [fjob EXCEPT ![f] = v], finished' = finished \cup {j},
           jobQueue' = jobQueue, finishQueue' = finishQueue, held' = held, task' = task
    PROVE  Placed' /\ \A m \in Nodes : HasJob(m)' <=> (HasJob(m) /\ m # j) \/ m = v
<1>1. \A m \in Nodes : m # Nothing
  BY TreeAssumption
<1>2. \A m \in Nodes : InHand(m)' <=> (InHand(m) /\ m # j) \/ m = v
  BY HandSet
<1>3. \A m \in Nodes : (InSlot(m)' <=> InSlot(m)) /\ (WithTask(m)' <=> WithTask(m))
  BY DEF InSlot, WithTask
<1>4. /\ InHand(j) /\ HasJob(j) /\ ~WithTask(j) /\ j \notin jobQueue /\ j \notin finishQueue
      /\ ~InSlot(j) /\ j \notin finished /\ v # j
  BY <1>1 DEF Placed, HasJob, InHand
<1>5. jobQueue \subseteq Nodes /\ finishQueue \subseteq Nodes /\ finished \subseteq Nodes
      /\ Files \subseteq Nodes
  BY DEF TypeOK, Nodes
<1>6. \A m \in Nodes : HasJob(m)' <=> (HasJob(m) /\ m # j) \/ m = v
  BY <1>2, <1>3, <1>4 DEF HasJob
<1>7. \A g, h \in Finishers : g # h /\ fjob'[g] # Nothing => fjob'[g] # fjob'[h]
  <2>1. \A g \in Finishers : fjob'[g] = (IF g = f THEN v ELSE fjob[g])
    BY DEF TypeOK
  <2>2. v # Nothing => \A g \in Finishers : fjob[g] # v
    BY DEF HasJob, InHand
  <2> QED
    BY <2>1, <2>2 DEF Placed
<1>8. /\ v # Nothing => /\ ~WithTask(v) /\ v \notin jobQueue /\ v \notin finishQueue
                        /\ ~InSlot(v) /\ v \notin finished'
      /\ v \notin Files
  BY <1>1, <1>4, <1>5, FileNotDir DEF HasJob
<1>9. \A m \in Files : task'[m] \in {"none", "ready"} => ~HasJob(m)' /\ m \notin finished'
  BY <1>4, <1>5, <1>6, <1>8 DEF Placed
<1>10. \A m \in Nodes : InHand(m)' =>
          /\ ~WithTask(m)' /\ m \notin jobQueue' /\ m \notin finishQueue' /\ ~InSlot(m)'
          /\ m \notin finished'
  <2> SUFFICES ASSUME NEW m \in Nodes, InHand(m)'
               PROVE  /\ ~WithTask(m)' /\ m \notin jobQueue' /\ m \notin finishQueue'
                      /\ ~InSlot(m)' /\ m \notin finished'
    OBVIOUS
  <2>1. CASE m = v
    BY <2>1, <1>1, <1>3, <1>8
  <2>2. CASE InHand(m) /\ m # j
    BY <2>2, <1>3 DEF Placed, HasJob
  <2> QED
    BY <2>1, <2>2, <1>2
<1>11. \A m \in finished' : ~HasJob(m)'
  <2> SUFFICES ASSUME NEW m \in finished', HasJob(m)' PROVE FALSE
    OBVIOUS
  <2>1. m \in finished \cup {j} /\ m \in Nodes
    BY <1>5
  <2>2. m # v
    BY <1>1, <1>8, <2>1
  <2>3. HasJob(m) /\ m # j
    BY <1>6, <2>1, <2>2
  <2> QED
    BY <2>1, <2>3 DEF Placed
<1>12. \A m \in Nodes : (WithTask(m)' \/ m \in jobQueue' \/ m \in finishQueue' \/ InSlot(m)') =>
                            ~InHand(m)'
  BY <1>10
<1> QED
  BY <1>3, <1>5, <1>6, <1>7, <1>9, <1>11, <1>12 DEF Placed

----------------------------------------------------------------------------
(* What the steps do to the references.                                    *)

JobsStay == finished' = finished /\ \A m \in Nodes : HasJob(m)' <=> HasJob(m)

\* Lives depends on the tasks, the references and the jobs only.
LEMMA RefsKept ==
    ASSUME TypeOK, Refs, UNCHANGED <<task, rc, dst>>, JobsStay
    PROVE  Refs'
<1>1. \A d \in Dirs : /\ d \in Nodes /\ Children(d)' = Children(d) /\ Children(d) \subseteq Nodes
                      /\ Active(d)' = Active(d)
  BY DEF Children, Active, Nodes
<1>2. \A d \in Dirs : Jobs(d)' = Jobs(d)
  BY <1>1 DEF Jobs, JobsStay
<1>3. Counts'
  BY <1>1, <1>2 DEF Counts, CountOf, Refs, One
<1>4. \A d \in Dirs : Opened(d)' <=> Opened(d)
  BY <1>1 DEF Opened, JobsStay
<1>5. Lives'
  BY <1>1, <1>4 DEF Lives, LifeOf, Listed, Unlisted, Refs, JobsStay
<1>6. Nested'
  BY DEF Nested, Refs
<1> QED
  BY <1>3, <1>5, <1>6 DEF Refs

LEMMA NestedStep ==
    ASSUME TypeOK, Nested, NEW n \in Nodes, NEW v, task' = [task EXCEPT ![n] = v],
           n # Root /\ v \notin {"none", "done"} => task[Parent[n]] \in {"listing", "waiting"},
           task[n] \in {"listing", "waiting"} =>
              v \in {"listing", "waiting"} \/ \A m \in Children(n) : task[m] = "done"
    PROVE  Nested'
<1>1. \A m \in Nodes : task'[m] = IF m = n THEN v ELSE task[m]
  BY DEF TypeOK
<1> SUFFICES ASSUME NEW m \in Nodes \ {Root}, task'[m] \notin {"none", "done"}
             PROVE  task'[Parent[m]] \in {"listing", "waiting"}
  BY DEF Nested
<1>2. task[Parent[m]] \in {"listing", "waiting"} /\ Parent[m] \in Nodes
  BY <1>1, ParentDir DEF Nested
<1>3. CASE m = n
  BY <1>1, <1>2, <1>3, ParentOther
<1>4. CASE m # n
  <2>1. task'[m] = task[m] /\ m \in Children(Parent[m])
    BY <1>1, <1>4 DEF Children
  <2> QED
    BY <1>1, <1>2, <2>1
<1> QED
  BY <1>3, <1>4

\* A task that goes on, without a reference gained or lost.
LEMMA TaskGoesOn ==
    ASSUME TypeOK, Refs, UNCHANGED <<rc, dst>>, JobsStay,
           NEW n \in Nodes, NEW v \in {"waiting", "drop"}, task' = [task EXCEPT ![n] = v],
           task[n] \notin {"none", "done"},
           task[n] \in {"listing", "waiting"} <=> v = "waiting",
           v = "waiting" => \A m \in Children(n) : task[m] # "none"
    PROVE  Refs'
<1>1. \A m \in Nodes : task'[m] = IF m = n THEN v ELSE task[m]
  BY DEF TypeOK
<1>2. Nested'
  <2>1. n # Root => task[Parent[n]] \in {"listing", "waiting"}
    BY DEF Nested, Refs
  <2> QED
    BY <2>1, NestedStep DEF Refs
<1>3. \A d \in Dirs : /\ d \in Nodes /\ Children(d)' = Children(d) /\ Children(d) \subseteq Nodes
                      /\ task'[d] \in {"listing", "waiting"} <=> task[d] \in {"listing", "waiting"}
  BY <1>1 DEF Children, Nodes
<1>4. \A d \in Dirs : Active(d)' = Active(d)
  BY <1>1, <1>3 DEF Active
<1>5. \A d \in Dirs : Jobs(d)' = Jobs(d)
  BY <1>3 DEF Jobs, JobsStay
<1>6. Counts'
  BY <1>3, <1>4, <1>5 DEF Counts, CountOf, Refs, One
<1>7. \A d \in Dirs : Opened(d)' <=> Opened(d)
  BY <1>3 DEF Opened, JobsStay
<1>8. \A m \in Nodes : task'[m] = "none" <=> task[m] = "none"
  BY <1>1
<1>9. Lives'
  <2> SUFFICES ASSUME NEW d \in Dirs
               PROVE  LifeOf(d)'
    BY DEF Lives
  <2>1. /\ dst'[d] => ~HasJob(d)' /\ d \notin finished'
        /\ rc'[d] > 0 <=> dst'[d] \/ HasJob(d)'
        /\ HasJob(d)' => rc'[d] = 1
        /\ task'[d] \in {"listing", "waiting"} => dst'[d]
    BY <1>3 DEF Lives, LifeOf, Refs, JobsStay
  <2>2. Opened(d)' => task'[d] \in {"listing", "waiting", "dot", "drop", "done"}
    BY <1>1, <1>3, <1>7 DEF Lives, LifeOf, Refs
  <2>3. (Listed(d)' <=> Listed(d)) /\ (Unlisted(d)' <=> Unlisted(d)) /\ LifeOf(d)
    BY <1>3, <1>8 DEF Listed, Unlisted, Lives, Refs
  <2>4. /\ task'[d] = "waiting" => Listed(d)'
        /\ Opened(d)' => task'[d] = "listing" \/ Listed(d)' \/ Unlisted(d)'
        /\ ~Opened(d)' => Unlisted(d)'
    <3>1. CASE d # n
      BY <2>3, <3>1, <1>1, <1>3, <1>7 DEF LifeOf
    <3>2. CASE d = n /\ v = "waiting"
      BY <2>3, <3>2, <1>7 DEF LifeOf, Listed
    <3>3. CASE d = n /\ v = "drop"
      BY <2>3, <3>3, <1>1, <1>3, <1>7 DEF LifeOf
    <3> QED
      BY <3>1, <3>2, <3>3
  <2> QED
    BY <2>1, <2>2, <2>3, <2>4 DEF LifeOf
<1> QED
  BY <1>2, <1>6, <1>9 DEF Refs

\* A directory is opened: no job of it, no entry of it was there before.
LEMMA DirOpened ==
    ASSUME TypeOK, Refs, Placed, NEW d \in Nodes, OpenDir(d) PROVE TypeOK' /\ Placed' /\ Refs'
<1>1. /\ d \in Dirs /\ task[d] = "ready" /\ task' = [task EXCEPT ![d] = "listing"]
      /\ rc' = [rc EXCEPT ![d] = 1] /\ dst' = [dst EXCEPT ![d] = TRUE]
      /\ SamePlaces /\ finished' = finished
  BY DEF OpenDir, Starts, SamePlaces, schedVars, finishVars
<1>2. TypeOK'
  BY DEF OpenDir, Starts, TypeOK, crawlVars, refVars, schedVars, finishVars
<1>3. Placed' /\ \A m \in Nodes : HasJob(m)' <=> HasJob(m)
  BY <1>1, TaskMoves DEF WithTask
<1>4. Nested'
  <2>1. d # Root => task[Parent[d]] \in {"listing", "waiting"}
    BY <1>1 DEF Nested, Refs
  <2> QED
    BY <1>1, <2>1, NestedStep DEF Refs
<1>5. \A m \in Nodes : task'[m] = IF m = d THEN "listing" ELSE task[m]
  BY <1>1 DEF TypeOK
<1>6. \A e \in Dirs : /\ rc'[e] = IF e = d THEN 1 ELSE rc[e]
                      /\ dst'[e] = IF e = d THEN TRUE ELSE dst[e]
                      /\ e \in Nodes /\ Children(e)' = Children(e) /\ Children(e) \subseteq Nodes
  BY <1>1 DEF TypeOK, Children, Nodes
<1>7. ~Opened(d) /\ \A m \in Children(d) : task[m] = "none"
  BY <1>1 DEF Refs, Lives, LifeOf, Unlisted
<1>8. ~HasJob(d) /\ d \notin finished
  BY <1>7 DEF Opened
<1>9. Active(d)' = {} /\ Jobs(d)' = {}
  <2>1. \A m \in Children(d) : task'[m] = "none"
    <3>1. d \notin Children(d)
      BY ParentOther DEF Children
    <3> QED
      BY <3>1, <1>1, <1>5, <1>6, <1>7
  <2>2. Active(d)' = {}
    BY <1>1, <1>6, <2>1 DEF Active
  <2>3. \A m \in Children(d) \cap Files : ~HasJob(m)'
    BY <1>1, <1>3, <1>6, <1>7 DEF Placed
  <2> QED
    BY <2>2, <2>3, <1>1, <1>3, <1>6, <1>8 DEF Jobs
<1>10. \A e \in Dirs \ {d} : Active(e)' = Active(e) /\ Jobs(e)' = Jobs(e)
  <2>1. \A e \in Dirs \ {d} : Active(e)' = Active(e)
    BY <1>1, <1>5, <1>6 DEF Active
  <2> QED
    BY <2>1, <1>3, <1>6 DEF Jobs
<1>11. Counts'
  <2> SUFFICES ASSUME NEW e \in Dirs PROVE CountOf(e)'
    BY DEF Counts
  <2>1. CASE e = d
    <3>1. Cardinality(Active(e)') = 0 /\ Cardinality(Jobs(e)') = 0
      BY <2>1, <1>9, FS_EmptySet
    <3>2. rc'[e] = 1 /\ task'[e] = "listing"
      BY <2>1, <1>1, <1>5, <1>6
    <3>3. One(task'[e] \in {"listing", "waiting"}) = 1
      BY <3>2 DEF One
    <3> QED
      BY <3>1, <3>2, <3>3 DEF CountOf
  <2>2. CASE e # d
    BY <2>2, <1>5, <1>6, <1>10 DEF Counts, CountOf, Refs, One
  <2> QED
    BY <2>1, <2>2
<1>12. Lives'
  <2> SUFFICES ASSUME NEW e \in Dirs PROVE LifeOf(e)'
    BY DEF Lives
  <2>1. CASE e = d
    <3>1. Opened(d)' /\ task'[d] = "listing" /\ dst'[d] /\ rc'[d] = 1
      BY <1>1, <1>5, <1>6 DEF Opened
    <3>2. ~HasJob(d)' /\ d \notin finished'
      BY <1>1, <1>3, <1>8
    <3> QED
      BY <2>1, <3>1, <3>2 DEF LifeOf, Listed, Unlisted
  <2>2. CASE e # d
    <3>1. Opened(e)' <=> Opened(e)
      BY <2>2, <1>1, <1>3, <1>6 DEF Opened
    <3>2. \A m \in Children(e) : task'[m] = "none" <=> task[m] = "none"
      BY <1>1, <1>5, <1>6
    <3>3. LifeOf(e)
      BY DEF Lives, Refs
    <3> QED
      BY <2>2, <3>1, <3>2, <3>3, <1>1, <1>3, <1>5, <1>6 DEF LifeOf, Listed, Unlisted
  <2> QED
    BY <2>1, <2>2
<1> QED
  BY <1>2, <1>3, <1>4, <1>11, <1>12 DEF Refs

\* A directory that cannot be listed: its job is made, and is all there is of it.
LEMMA DirNotListed ==
    ASSUME TypeOK, Refs, Placed, NEW d \in Nodes, NotListed(d) PROVE TypeOK' /\ Placed' /\ Refs'
<1>1. /\ d \in Dirs /\ task[d] = "ready" /\ task' = [task EXCEPT ![d] = "dot"]
      /\ rc' = [rc EXCEPT ![d] = 1] /\ dst' = dst
      /\ SamePlaces /\ finished' = finished
  BY DEF NotListed, Starts, SamePlaces, schedVars, finishVars
<1>2. TypeOK'
  BY DEF NotListed, Starts, TypeOK, crawlVars, refVars, schedVars, finishVars
<1>3. ~Opened(d) /\ \A m \in Children(d) : task[m] = "none"
  BY <1>1 DEF Refs, Lives, LifeOf, Unlisted
<1>4. ~HasJob(d) /\ d \notin finished /\ ~dst[d]
  BY <1>3 DEF Opened
<1>5. Placed' /\ \A m \in Nodes : HasJob(m)' <=> HasJob(m) \/ m = d
  BY <1>1, <1>4, JobMade
<1>6. Nested'
  <2>1. d # Root => task[Parent[d]] \in {"listing", "waiting"}
    BY <1>1 DEF Nested, Refs
  <2> QED
    BY <1>1, <2>1, NestedStep DEF Refs
<1>7. \A m \in Nodes : task'[m] = IF m = d THEN "dot" ELSE task[m]
  BY <1>1 DEF TypeOK
<1>8. \A e \in Dirs : /\ rc'[e] = IF e = d THEN 1 ELSE rc[e]
                      /\ e \in Nodes /\ Children(e)' = Children(e) /\ Children(e) \subseteq Nodes
  BY <1>1 DEF TypeOK, Children, Nodes
<1>9. Active(d)' = {} /\ Jobs(d)' = {d}
  <2>1. \A m \in Children(d) : task'[m] = "none" /\ m # d
    BY <1>1, <1>3, <1>7, <1>8, ParentOther DEF Children
  <2>2. Active(d)' = {}
    BY <1>1, <1>8, <2>1 DEF Active
  <2>3. \A m \in Children(d) \cap Files : ~HasJob(m)'
    BY <1>1, <1>3, <1>5, <1>8, <2>1 DEF Placed
  <2> QED
    BY <2>2, <2>3, <1>1, <1>5, <1>8 DEF Jobs
<1>10. \A e \in Dirs \ {d} : Active(e)' = Active(e) /\ Jobs(e)' = Jobs(e)
  <2>1. \A e \in Dirs \ {d} : Active(e)' = Active(e)
    BY <1>1, <1>7, <1>8 DEF Active
  <2> QED
    BY <2>1, <1>1, <1>5, <1>8, FileNotDir DEF Jobs
<1>11. Counts'
  <2> SUFFICES ASSUME NEW e \in Dirs PROVE CountOf(e)'
    BY DEF Counts
  <2>1. CASE e = d
    <3>1. Cardinality(Active(e)') = 0 /\ Cardinality(Jobs(e)') = 1
      BY <2>1, <1>9, FS_EmptySet, FS_Singleton
    <3>2. rc'[e] = 1 /\ task'[e] = "dot"
      BY <2>1, <1>1, <1>7, <1>8
    <3>3. One(task'[e] \in {"listing", "waiting"}) = 0
      BY <3>2 DEF One
    <3> QED
      BY <3>1, <3>2, <3>3 DEF CountOf
  <2>2. CASE e # d
    BY <2>2, <1>7, <1>8, <1>10 DEF Counts, CountOf, Refs, One
  <2> QED
    BY <2>1, <2>2
<1>12. Lives'
  <2> SUFFICES ASSUME NEW e \in Dirs PROVE LifeOf(e)'
    BY DEF Lives
  <2>0. \A m \in Children(e) : task'[m] = "none" <=> task[m] = "none"
    BY <1>1, <1>7, <1>8
  <2>1. (Listed(e)' <=> Listed(e)) /\ (Unlisted(e)' <=> Unlisted(e))
    BY <2>0, <1>8 DEF Listed, Unlisted
  <2>2. CASE e = d
    <3>1. HasJob(d)' /\ task'[d] = "dot" /\ ~dst'[d] /\ rc'[d] = 1 /\ Unlisted(d)
      BY <1>1, <1>3, <1>4, <1>5, <1>7, <1>8 DEF Unlisted
    <3> QED
      BY <2>1, <2>2, <3>1 DEF LifeOf, Opened
  <2>3. CASE e # d
    <3>1. (HasJob(e)' <=> HasJob(e)) /\ (Opened(e)' <=> Opened(e))
      BY <2>3, <1>1, <1>5, <1>8 DEF Opened
    <3>2. LifeOf(e)
      BY DEF Lives, Refs
    <3> QED
      BY <2>1, <2>3, <3>1, <3>2, <1>1, <1>7, <1>8 DEF LifeOf
  <2> QED
    BY <2>2, <2>3
<1> QED
  BY <1>2, <1>5, <1>6, <1>11, <1>12 DEF Refs

\* A child gets a reference: its task is made, or its job is.
LEMMA EntryListed ==
    ASSUME TypeOK, Refs, Placed, NEW n \in Nodes, ListEntry(n) PROVE Placed' /\ Refs'
<1> DEFINE p == Parent[n]
<1>1. /\ n # Root /\ task[n] = "none" /\ task[p] = "listing"
      /\ task' = [task EXCEPT ![n] = "ready"] /\ rc' = [rc EXCEPT ![p] = @ + 1] /\ dst' = dst
      /\ SamePlaces /\ finished' = finished
  BY DEF ListEntry, CountedChild, SamePlaces, schedVars, finishVars
<1>2. p \in Dirs /\ n # p /\ p \in Nodes
  BY <1>1, ParentDir, ParentOther
<1>3. Placed' /\ \A m \in Nodes : HasJob(m)' <=> HasJob(m)
  BY <1>1, TaskMoves DEF WithTask
<1>4. Nested'
  BY <1>1, NestedStep DEF Refs
<1>5. \A m \in Nodes : task'[m] = IF m = n THEN "ready" ELSE task[m]
  BY <1>1 DEF TypeOK
<1>6. \A e \in Dirs : /\ rc'[e] = IF e = p THEN rc[e] + 1 ELSE rc[e]
                      /\ rc[e] \in Nat
                      /\ e \in Nodes /\ Children(e)' = Children(e) /\ Children(e) \subseteq Nodes
  BY <1>1, <1>2 DEF TypeOK, Children, Nodes
<1>7. \A e \in Dirs : Jobs(e)' = Jobs(e)
  BY <1>3, <1>6 DEF Jobs
<1>8. \A e \in Dirs \ {p} : n \notin Children(e) /\ Active(e)' = Active(e)
  BY <1>5, <1>6 DEF Active, Children
<1>9. Active(p)' = Active(p) \cup {n} /\ n \notin Active(p)
  <2>1. n \in Children(p)
    BY <1>1 DEF Children
  <2> QED
    BY <2>1, <1>1, <1>2, <1>5, <1>6 DEF Active
<1>10. Counts'
  <2> SUFFICES ASSUME NEW e \in Dirs PROVE CountOf(e)'
    BY DEF Counts
  <2>1. One(task'[e] \in {"listing", "waiting"}) = One(task[e] \in {"listing", "waiting"})
    BY <1>1, <1>5, <1>6 DEF One
  <2>2. rc[e] = One(task[e] \in {"listing", "waiting"}) + Cardinality(Active(e))
                + Cardinality(Jobs(e))
    BY DEF Counts, CountOf, Refs
  <2>3. CASE e = p
    <3>1. Cardinality(Active(p)') = Cardinality(Active(p)) + 1
      BY <1>2, <1>9, Plus, SubsetsOf
    <3>2. Cardinality(Active(p)) \in Nat /\ Cardinality(Jobs(p)) \in Nat
      BY <1>2, Subsets, SubsetsOf
    <3> QED
      BY <3>1, <3>2, <2>1, <2>2, <2>3, <1>2, <1>6, <1>7 DEF CountOf, One
  <2>4. CASE e # p
    BY <2>1, <2>2, <2>4, <1>6, <1>7, <1>8 DEF CountOf
  <2> QED
    BY <2>3, <2>4
<1>11. Lives'
  <2> SUFFICES ASSUME NEW e \in Dirs PROVE LifeOf(e)'
    BY DEF Lives
  <2>1. Opened(e)' <=> Opened(e)
    BY <1>1, <1>3, <1>6 DEF Opened
  <2>2. CASE e = p
    <3>1. dst[p] /\ ~HasJob(p) /\ rc[p] > 0 /\ Opened(p)
      BY <1>1, <1>2 DEF LifeOf, Listed, Unlisted, Lives, Refs, Opened
    <3> QED
      BY <2>1, <2>2, <3>1, <1>1, <1>2, <1>3, <1>5, <1>6 DEF LifeOf, Listed, Unlisted, Lives, Refs
  <2>3. CASE e # p
    <3>1. \A m \in Children(e) : task'[m] = task[m]
      BY <2>3, <1>5, <1>6, <1>8
    <3>2. task'[e] = task[e] \/ (task[e] = "none" /\ task'[e] = "ready")
      BY <1>1, <1>5, <1>6
    <3>3. LifeOf(e)
      BY DEF Lives, Refs
    <3> QED
      BY <2>1, <2>3, <3>1, <3>2, <3>3, <1>1, <1>3, <1>6 DEF LifeOf, Listed, Unlisted
  <2> QED
    BY <2>2, <2>3
<1> QED
  BY <1>3, <1>4, <1>10, <1>11 DEF Refs

LEMMA FileJobMade ==
    ASSUME TypeOK, Refs, Placed, NEW x \in Nodes, Transfer(x) \/ MetadataOnly(x)
    PROVE  Placed' /\ Refs'
<1> DEFINE p == Parent[x]
           v == task'[x]
<1>1. /\ x \in Files /\ task[x] = "ready" /\ v \in {"toJobQueue", "toFinishQueue"}
      /\ task' = [task EXCEPT ![x] = v] /\ rc' = [rc EXCEPT ![p] = @ + 1] /\ dst' = dst
      /\ SamePlaces /\ finished' = finished
  BY DEF Transfer, MetadataOnly, Starts, CountedChild, SamePlaces, schedVars, finishVars, TypeOK
<1> HIDE DEF v
<1>2. /\ x # Root /\ x \notin Dirs /\ p \in Dirs /\ x # p /\ p \in Nodes
      /\ x \in Children(p) \cap Files
  BY <1>1, ParentDir, FileNotDir DEF Children
<1>3. ~HasJob(x) /\ x \notin finished
  BY <1>1 DEF Placed
<1>4. Placed' /\ \A m \in Nodes : HasJob(m)' <=> HasJob(m) \/ m = x
  BY <1>1, <1>3, JobMade
<1>5. task[p] \in {"listing", "waiting"}
  BY <1>1, <1>2 DEF Nested, Refs
<1>6. Nested'
  BY <1>1, <1>5, NestedStep DEF Refs
<1>7. \A m \in Nodes : task'[m] = IF m = x THEN v ELSE task[m]
  BY <1>1 DEF TypeOK
<1>8. \A e \in Dirs : /\ rc'[e] = IF e = p THEN rc[e] + 1 ELSE rc[e]
                      /\ rc[e] \in Nat /\ task'[e] = task[e] /\ (HasJob(e)' <=> HasJob(e))
                      /\ e \in Nodes /\ Children(e)' = Children(e) /\ Children(e) \subseteq Nodes
  BY <1>1, <1>2, <1>4, <1>7 DEF TypeOK, Children, Nodes
<1>9. \A e \in Dirs : Active(e)' = Active(e)
  BY <1>1, <1>7, <1>8 DEF Active
<1>10. \A e \in Dirs \ {p} : Jobs(e)' = Jobs(e)
  <2>1. \A e \in Dirs \ {p} : x \notin Children(e) /\ x # e
    BY <1>2 DEF Children
  <2> QED
    BY <2>1, <1>4, <1>8 DEF Jobs
<1>11. Jobs(p)' = Jobs(p) \cup {x} /\ x \notin Jobs(p)
  BY <1>2, <1>3, <1>4, <1>8 DEF Jobs
<1>12. Counts'
  <2> SUFFICES ASSUME NEW e \in Dirs PROVE CountOf(e)'
    BY DEF Counts
  <2>1. CountOf(e)
    BY DEF Counts, Refs
  <2>2. CASE e = p
    <3>1. Cardinality(Jobs(p)') = Cardinality(Jobs(p)) + 1
      BY <1>2, <1>11, Plus, SubsetsOf
    <3>2. Cardinality(Active(p)) \in Nat /\ Cardinality(Jobs(p)) \in Nat
      BY <1>2, Subsets, SubsetsOf
    <3> QED
      BY <3>1, <3>2, <2>1, <2>2, <1>2, <1>8, <1>9 DEF CountOf, One
  <2>3. CASE e # p
    BY <2>1, <2>3, <1>8, <1>9, <1>10 DEF CountOf, One
  <2> QED
    BY <2>2, <2>3
<1>13. Lives'
  <2> SUFFICES ASSUME NEW e \in Dirs PROVE LifeOf(e)'
    BY DEF Lives
  <2>1. Opened(e)' <=> Opened(e)
    BY <1>1, <1>8 DEF Opened
  <2>2. LifeOf(e) /\ \A m \in Children(e) : task'[m] = "none" <=> task[m] = "none"
    BY <1>1, <1>7, <1>8 DEF Lives, Refs
  <2>3. CASE e = p
    <3>1. dst[p] /\ ~HasJob(p) /\ rc[p] > 0 /\ Opened(p)
      BY <1>2, <1>5 DEF LifeOf, Listed, Unlisted, Lives, Refs, Opened
    <3> QED
      BY <2>1, <2>2, <2>3, <3>1, <1>1, <1>8 DEF LifeOf, Listed, Unlisted
  <2>4. CASE e # p
    BY <2>1, <2>2, <2>4, <1>1, <1>8 DEF LifeOf, Listed, Unlisted
  <2> QED
    BY <2>3, <2>4
<1> QED
  BY <1>4, <1>6, <1>12, <1>13 DEF Refs

\* A task ends: it is counted, and the reference of its directory's task stays.
LEMMA TaskEnded ==
    ASSUME TypeOK, Refs, Placed, NEW n \in Nodes, TaskEnd(n) PROVE TypeOK' /\ Placed' /\ Refs'
<1> DEFINE p == Parent[n]
<1>1. /\ task[n] = "drop" /\ task' = [task EXCEPT ![n] = "done"]
      /\ SamePlaces /\ finished' = finished
  BY DEF TaskEnd, SamePlaces, schedVars, finishVars
<1>2. Placed' /\ \A m \in Nodes : HasJob(m)' <=> HasJob(m)
  BY <1>1, TaskMoves DEF WithTask
<1>3. Nested'
  BY <1>1, NestedStep DEF Refs
<1>4. \A m \in Nodes : task'[m] = IF m = n THEN "done" ELSE task[m]
  BY <1>1 DEF TypeOK
<1>5. \A e \in Dirs : e \in Nodes /\ Children(e)' = Children(e) /\ Children(e) \subseteq Nodes
  BY DEF Children, Nodes
<1>6. \A e \in Dirs : Jobs(e)' = Jobs(e)
  BY <1>2, <1>5 DEF Jobs
<1>7. n # Root => /\ p \in Dirs /\ p \in Nodes /\ p # n /\ dst' = dst
                  /\ rc' = [rc EXCEPT ![p] = @ - 1] /\ rc[p] >= 2 /\ dst[p]
                  /\ Active(p)' = Active(p) \ {n} /\ n \in Active(p)
  <2> SUFFICES ASSUME n # Root
               PROVE  /\ p \in Dirs /\ p \in Nodes /\ p # n /\ dst' = dst
                      /\ rc' = [rc EXCEPT ![p] = @ - 1] /\ rc[p] >= 2 /\ dst[p]
                      /\ Active(p)' = Active(p) \ {n} /\ n \in Active(p)
    OBVIOUS
  <2>1. p \in Dirs /\ p \in Nodes /\ p # n
    BY ParentDir, ParentOther
  <2>2. task[p] \in {"listing", "waiting"}
    BY <1>1 DEF Nested, Refs
  <2>3. n \in Active(p)
    BY <1>1 DEF Active, Children
  <2>4. Active(p)' = Active(p) \ {n}
    BY <1>4, <1>5, <2>1 DEF Active
  <2>5. Cardinality(Active(p)) \in Nat \ {0} /\ Cardinality(Jobs(p)) \in Nat
    BY <2>1, <2>3, Subsets, SubsetsOf
  <2>6. rc[p] >= 2
    BY <2>1, <2>2, <2>5 DEF Counts, CountOf, One, Refs
  <2>7. dst[p]
    BY <2>1, <2>2 DEF Lives, LifeOf, Listed, Unlisted, Refs
  <2>8. rc' = ReleasedRc(p) /\ dst' = ReleasedDst(p) /\ ~SendsDot(p)
    BY <2>6 DEF TaskEnd, SendsDot
  <2>9. rc' = [rc EXCEPT ![p] = @ - 1] /\ dst' = dst
    <3>1. rc' = [rc EXCEPT ![p] = @ - 1]
      BY <2>8 DEF ReleasedRc
    <3>2. dst' = [dst EXCEPT ![p] = dst[p]]
      BY <2>1, <2>7, <2>8 DEF ReleasedDst, TypeOK
    <3> QED
      BY <3>1, <3>2 DEF TypeOK
  <2> QED
    BY <2>1, <2>3, <2>4, <2>6, <2>7, <2>9
<1>8. n = Root => rc' = rc /\ dst' = dst
  BY DEF TaskEnd, refVars
<1>9. TypeOK'
  BY <1>7, <1>8 DEF TaskEnd, TypeOK, schedVars, finishVars
<1>10. \A e \in Dirs : n = Root \/ e # p => /\ rc'[e] = rc[e] /\ Active(e)' = Active(e)
  <2> SUFFICES ASSUME NEW e \in Dirs, n = Root \/ e # p
               PROVE  rc'[e] = rc[e] /\ Active(e)' = Active(e)
    OBVIOUS
  <2>1. n \notin Children(e)
    BY DEF Children
  <2>2. Active(e)' = Active(e)
    BY <2>1, <1>4, <1>5 DEF Active
  <2> QED
    BY <2>2, <1>7, <1>8 DEF TypeOK
<1>11. \A e \in Dirs :
           One(task'[e] \in {"listing", "waiting"}) = One(task[e] \in {"listing", "waiting"})
  BY <1>1, <1>4, <1>5 DEF One
<1>12. Counts'
  <2> SUFFICES ASSUME NEW e \in Dirs PROVE CountOf(e)'
    BY DEF Counts
  <2>1. CountOf(e)
    BY DEF Counts, Refs
  <2>2. CASE n # Root /\ e = p
    <3>1. Cardinality(Active(p)') = Cardinality(Active(p)) - 1
      BY <2>2, <1>7, Minus, SubsetsOf
    <3>2. Cardinality(Active(p)) \in Nat /\ Cardinality(Jobs(p)) \in Nat
      BY <2>2, <1>7, Subsets, SubsetsOf
    <3>3. rc'[p] = rc[p] - 1
      BY <2>2, <1>7 DEF TypeOK
    <3> QED
      BY <3>1, <3>2, <3>3, <2>1, <2>2, <1>6, <1>11 DEF CountOf, One
  <2>3. CASE n = Root \/ e # p
    BY <2>1, <2>3, <1>6, <1>10, <1>11 DEF CountOf
  <2> QED
    BY <2>2, <2>3
<1>13. Lives'
  <2> SUFFICES ASSUME NEW e \in Dirs PROVE LifeOf(e)'
    BY DEF Lives
  <2>1. Opened(e)' <=> Opened(e)
    BY <1>1, <1>2, <1>5, <1>7, <1>8 DEF Opened
  <2>2. LifeOf(e) /\ \A m \in Children(e) : task'[m] = "none" <=> task[m] = "none"
    BY <1>1, <1>4, <1>5 DEF Lives, Refs
  <2>3. /\ rc'[e] > 0 <=> dst'[e] \/ HasJob(e)'
        /\ HasJob(e)' => rc'[e] = 1
    <3>1. CASE n # Root /\ e = p
      <4>1. rc'[p] > 0 /\ dst'[p]
        BY <3>1, <1>7 DEF TypeOK
      <4>2. ~HasJob(p)
        BY <3>1, <1>7, <2>2 DEF LifeOf, Listed, Unlisted
      <4> QED
        BY <4>1, <4>2, <3>1, <1>2, <1>5
    <3>2. CASE n = Root \/ e # p
      BY <3>2, <2>2, <1>2, <1>5, <1>7, <1>8, <1>10 DEF LifeOf, Listed, Unlisted
    <3> QED
      BY <3>1, <3>2
  <2> QED
    BY <2>1, <2>2, <2>3, <1>1, <1>2, <1>4, <1>5, <1>7, <1>8 DEF LifeOf, Listed, Unlisted
<1> QED
  BY <1>2, <1>3, <1>9, <1>12, <1>13 DEF Refs

\* A release of directory d that leaves references, or turns the last into the
\* dot job: what both releasers need to know.
LEMMA Release ==
    ASSUME TypeOK, NEW d \in Dirs, rc[d] > 0, dst[d],
           rc' = ReleasedRc(d), dst' = ReleasedDst(d)
    PROVE  /\ SendsDot(d) <=> rc[d] = 1
           /\ \A e \in Dirs \ {d} : rc'[e] = rc[e] /\ dst'[e] = dst[e]
           /\ rc[d] = 1 => rc'[d] = 1 /\ ~dst'[d]
           /\ rc[d] # 1 => rc'[d] = rc[d] - 1 /\ rc'[d] > 0 /\ dst'[d]
           /\ rc' \in [Dirs -> Nat] /\ dst' \in [Dirs -> BOOLEAN]
<1>1. SendsDot(d) <=> rc[d] = 1
  BY DEF SendsDot
<1>2. CASE rc[d] = 1
  <2>1. rc' = [rc EXCEPT ![d] = 1] /\ dst' = [dst EXCEPT ![d] = FALSE]
    BY <1>1, <1>2, Zenon DEF ReleasedRc, ReleasedDst
  <2> QED
    BY <1>1, <1>2, <2>1 DEF TypeOK
<1>3. CASE rc[d] # 1
  <2>1. rc' = [rc EXCEPT ![d] = @ - 1] /\ dst' = [dst EXCEPT ![d] = dst[d]]
    BY <1>1, <1>3, Zenon DEF ReleasedRc, ReleasedDst
  <2>2. rc' \in [Dirs -> Nat] /\ dst' \in [Dirs -> BOOLEAN]
    BY <1>3, <2>1 DEF TypeOK
  <2>3. rc'[d] = rc[d] - 1 /\ rc'[d] > 0 /\ \A e \in Dirs \ {d} : rc'[e] = rc[e]
    BY <1>3, <2>1 DEF TypeOK
  <2>4. \A e \in Dirs : dst'[e] = dst[e]
    BY <2>1 DEF TypeOK
  <2> QED
    BY <1>1, <1>3, <2>2, <2>3, <2>4
<1> QED
  BY <1>2, <1>3

\* The task of a directory ends: its own reference goes to the dot job, or away.
LEMMA DirEnded ==
    ASSUME TypeOK, Hands, Refs, Placed, NEW d \in Nodes, DirEnd(d)
    PROVE  TypeOK' /\ Placed' /\ Refs'
<1> DEFINE v == IF rc[d] = 1 THEN "dot" ELSE "drop"
<1>1. /\ d \in Dirs /\ task[d] = "waiting" /\ \A m \in Children(d) : task[m] = "done"
      /\ SamePlaces /\ finished' = finished
  BY DEF DirEnd, SamePlaces, schedVars, finishVars, Hands
<1>2. dst[d] /\ ~HasJob(d) /\ d \notin finished /\ rc[d] > 0 /\ rc[d] \in Nat
  BY <1>1 DEF Refs, Lives, LifeOf, Listed, Unlisted, TypeOK
<1>3. /\ SendsDot(d) <=> rc[d] = 1
      /\ \A e \in Dirs \ {d} : rc'[e] = rc[e] /\ dst'[e] = dst[e]
      /\ rc[d] = 1 => rc'[d] = 1 /\ ~dst'[d]
      /\ rc[d] # 1 => rc'[d] = rc[d] - 1 /\ rc'[d] > 0 /\ dst'[d]
      /\ rc' \in [Dirs -> Nat] /\ dst' \in [Dirs -> BOOLEAN]
  BY <1>1, <1>2, Release DEF DirEnd
<1>4. task' = [task EXCEPT ![d] = v]
  BY <1>3 DEF DirEnd
<1>5. TypeOK'
  BY <1>3, <1>4 DEF DirEnd, TypeOK, schedVars, finishVars
<1>6. Placed' /\ \A m \in Nodes : HasJob(m)' <=> HasJob(m) \/ (m = d /\ rc[d] = 1)
  <2>1. CASE rc[d] = 1
    BY <2>1, <1>1, <1>2, <1>4, JobMade
  <2>2. CASE rc[d] # 1
    <3>1. task' = [task EXCEPT ![d] = "drop"] /\ ~WithTask(d)
      BY <2>2, <1>1, <1>4 DEF WithTask
    <3> QED
      BY <2>2, <3>1, <1>1, TaskMoves
  <2> QED
    BY <2>1, <2>2
<1>7. Nested'
  <2>1. d # Root => task[Parent[d]] \in {"listing", "waiting"}
    BY <1>1 DEF Nested, Refs
  <2> QED
    BY <1>1, <1>4, <2>1, NestedStep DEF Refs
<1>8. \A m \in Nodes : task'[m] = IF m = d THEN v ELSE task[m]
  BY <1>4 DEF TypeOK
<1>9. \A e \in Dirs : e \in Nodes /\ Children(e)' = Children(e) /\ Children(e) \subseteq Nodes
  BY DEF Children, Nodes
<1>10. \A e \in Dirs : Active(e)' = Active(e)
  BY <1>1, <1>8, <1>9 DEF Active
<1>11. \A e \in Dirs : e # d \/ rc[d] # 1 => Jobs(e)' = Jobs(e)
  BY <1>1, <1>6, <1>9, FileNotDir DEF Jobs
<1>12. rc[d] = 1 => Jobs(d)' = Jobs(d) \cup {d} /\ d \notin Jobs(d)
  BY <1>1, <1>2, <1>6, <1>9 DEF Jobs
<1>13. \A e \in Dirs \ {d} :
           One(task'[e] \in {"listing", "waiting"}) = One(task[e] \in {"listing", "waiting"})
  BY <1>8, <1>9 DEF One
<1>14. One(task[d] \in {"listing", "waiting"}) = 1 /\ One(task'[d] \in {"listing", "waiting"}) = 0
  BY <1>1, <1>8, <1>9 DEF One
<1>15. Counts'
  <2> SUFFICES ASSUME NEW e \in Dirs PROVE CountOf(e)'
    BY DEF Counts
  <2>1. CountOf(e)
    BY DEF Counts, Refs
  <2>2. CASE e # d
    BY <2>1, <2>2, <1>3, <1>10, <1>11, <1>13 DEF CountOf
  <2>3. CASE e = d
    <3>1. Cardinality(Active(d)) \in Nat /\ Cardinality(Jobs(d)) \in Nat
      BY <1>1, Subsets, SubsetsOf
    <3>2. CASE rc[d] = 1
      <4>1. Cardinality(Jobs(d)') = Cardinality(Jobs(d)) + 1
        BY <3>2, <1>1, <1>12, Plus, SubsetsOf
      <4>2. rc'[d] = rc[d]
        BY <3>2, <1>1, <1>2, <1>3
      <4> QED
        BY <4>1, <4>2, <3>1, <2>1, <2>3, <1>1, <1>10, <1>14 DEF CountOf
    <3>3. CASE rc[d] # 1
      BY <3>1, <3>3, <2>1, <2>3, <1>1, <1>2, <1>3, <1>10, <1>11, <1>14 DEF CountOf
    <3> QED
      BY <3>2, <3>3
  <2> QED
    BY <2>2, <2>3
<1>16. Lives'
  <2> SUFFICES ASSUME NEW e \in Dirs PROVE LifeOf(e)'
    BY DEF Lives
  <2>1. Opened(e)' <=> Opened(e)
    BY <1>1, <1>2, <1>3, <1>6, <1>9 DEF Opened
  <2>2. LifeOf(e) /\ \A m \in Children(e) : task'[m] = "none" <=> task[m] = "none"
    BY <1>1, <1>8, <1>9 DEF Lives, Refs
  <2>3. CASE e # d
    BY <2>1, <2>2, <2>3, <1>1, <1>3, <1>6, <1>8, <1>9 DEF LifeOf, Listed, Unlisted
  <2>4. CASE e = d
    <3>1. Opened(d)
      BY <1>2 DEF Opened
    <3>2. task'[d] \in {"dot", "drop"} /\ \A m \in Children(d) : task'[m] # "none"
      BY <2>2, <2>4, <1>1, <1>8, <1>9
    <3>3. rc[d] = 1 => ~dst'[d] /\ HasJob(d)' /\ rc'[d] = 1
      BY <1>1, <1>3, <1>6, <1>9
    <3>4. rc[d] # 1 => dst'[d] /\ ~HasJob(d)' /\ rc'[d] > 0
      BY <1>1, <1>2, <1>3, <1>6, <1>9
    <3> QED
      BY <2>1, <2>4, <3>1, <3>2, <3>3, <3>4, <1>1, <1>2, <1>9 DEF LifeOf, Listed, Unlisted
  <2> QED
    BY <2>3, <2>4
<1> QED
  BY <1>5, <1>6, <1>7, <1>15, <1>16 DEF Refs

\* The dot job of a directory: the last reference goes, and the times are set.
LEMMA DirStamped ==
    ASSUME TypeOK, Hands, Refs, Placed, NEW f \in Finishers, Process(f),
           NEW j \in Dirs, fjob[f] = j
    PROVE  TypeOK' /\ Placed' /\ Refs'
<1>1. j \in Dirs /\ j \in Nodes /\ HasJob(j) /\ JobDir(j) = j
  BY DEF HasJob, InHand, JobDir, Nodes
<1>2. rc[j] = 1 /\ ~dst[j]
  BY <1>1 DEF Refs, Lives, LifeOf, Listed, Unlisted
<1>3. ~SendsDot(j)
  BY <1>2 DEF SendsDot
<1>4. /\ finished' = finished \cup {j} /\ rc' = ReleasedRc(j) /\ dst' = ReleasedDst(j)
      /\ fpc' = [fpc EXCEPT ![f] = "drain"] /\ fjob' = [fjob EXCEPT ![f] = Nothing]
      /\ UNCHANGED <<section, task, crawlDone, jobQueue, finishQueue, spc, held, ready, fdone>>
  BY <1>1, <1>3 DEF Process, crawlVars, schedVars
<1>5. rc' = [rc EXCEPT ![j] = @ - 1] /\ dst' = dst
  <2>1. rc' = [rc EXCEPT ![j] = @ - 1]
    BY <1>3, <1>4 DEF ReleasedRc
  <2>2. dst' = [dst EXCEPT ![j] = dst[j]]
    BY <1>1, <1>2, <1>3, <1>4 DEF ReleasedDst, TypeOK
  <2> QED
    BY <2>1, <2>2 DEF TypeOK
<1>6. rc'[j] = 0 /\ \A e \in Dirs \ {j} : rc'[e] = rc[e]
  BY <1>1, <1>2, <1>5 DEF TypeOK
<1>7. TypeOK'
  <2>1. rc' \in [Dirs -> Nat]
    BY <1>1, <1>2, <1>5 DEF TypeOK
  <2> QED
    BY <2>1, <1>1, <1>4, <1>5 DEF TypeOK
<1>8. Placed' /\ \A m \in Nodes : HasJob(m)' <=> HasJob(m) /\ m # j
  <2>1. \A m \in Nodes : m # Nothing
    BY TreeAssumption
  <2> QED
    BY <2>1, <1>1, <1>4, JobDone
<1>9. Nested'
  BY <1>4 DEF Nested, Refs
<1>10. \A e \in Dirs : e \in Nodes /\ Children(e)' = Children(e) /\ Children(e) \subseteq Nodes
                       /\ Active(e)' = Active(e)
  BY <1>4 DEF Children, Nodes, Active
<1>11. Jobs(j)' = Jobs(j) \ {j} /\ j \in Jobs(j)
  BY <1>1, <1>8, <1>10 DEF Jobs
<1>12. \A e \in Dirs \ {j} : Jobs(e)' = Jobs(e)
  BY <1>1, <1>8, <1>10, FileNotDir DEF Jobs
<1>13. Counts'
  <2> SUFFICES ASSUME NEW e \in Dirs PROVE CountOf(e)'
    BY DEF Counts
  <2>1. CountOf(e)
    BY DEF Counts, Refs
  <2>2. CASE e # j
    BY <2>1, <2>2, <1>4, <1>6, <1>10, <1>12 DEF CountOf, One
  <2>3. CASE e = j
    <3>1. Cardinality(Active(j)) \in Nat /\ Cardinality(Jobs(j)) \in Nat
      BY <1>1, Subsets, SubsetsOf
    <3>2. Cardinality(Jobs(j)') = Cardinality(Jobs(j)) - 1
      BY <1>1, <1>11, Minus, SubsetsOf
    <3> QED
      BY <3>1, <3>2, <2>1, <2>3, <1>1, <1>2, <1>4, <1>6, <1>10 DEF CountOf, One
  <2> QED
    BY <2>2, <2>3
<1>14. Lives'
  <2> SUFFICES ASSUME NEW e \in Dirs PROVE LifeOf(e)'
    BY DEF Lives
  <2>1. Opened(e)' <=> Opened(e)
    BY <1>1, <1>4, <1>5, <1>8, <1>10 DEF Opened
  <2>2. LifeOf(e)
    BY DEF Lives, Refs
  <2>3. CASE e # j
    <3>1. e \notin finished' <=> e \notin finished
      BY <2>3, <1>4
    <3> QED
      BY <2>1, <2>2, <2>3, <3>1, <1>4, <1>5, <1>6, <1>8, <1>10 DEF LifeOf, Listed, Unlisted
  <2>4. CASE e = j
    BY <2>1, <2>2, <2>4, <1>1, <1>2, <1>4, <1>5, <1>6, <1>8, <1>10 DEF LifeOf, Listed, Unlisted
  <2> QED
    BY <2>3, <2>4
<1> QED
  BY <1>7, <1>8, <1>9, <1>13, <1>14 DEF Refs

\* The job of a file: its reference to the directory goes, or becomes the dot job.
LEMMA FileFinished ==
    ASSUME TypeOK, Hands, Refs, Placed, NEW f \in Finishers, Process(f),
           NEW j \in Files, fjob[f] = j, NEW d \in Dirs, d = Parent[j]
    PROVE  TypeOK' /\ Placed' /\ Refs'
<1>1. /\ j \in Files /\ j \in Nodes /\ j # Root /\ j \notin Dirs /\ HasJob(j) /\ JobDir(j) = d
      /\ d \in Dirs /\ d \in Nodes /\ j # d
  BY FileNotDir, ParentDir, ParentOther DEF HasJob, InHand, JobDir, Nodes
<1>2. j \in Jobs(d) /\ \A e \in Dirs \ {d} : j \notin Jobs(e)
  BY <1>1 DEF Jobs, Children
<1>3. /\ Cardinality(Jobs(d)) \in Nat \ {0} /\ Cardinality(Active(d)) \in Nat
      /\ Cardinality(Jobs(d)') \in Nat /\ Cardinality(Active(d)') \in Nat
  BY <1>1, <1>2, Subsets, SubsetsOf
<1>4. /\ rc[d] = One(task[d] \in {"listing", "waiting"}) + Cardinality(Active(d))
                 + Cardinality(Jobs(d))
      /\ One(task[d] \in {"listing", "waiting"}) \in {0, 1}
  BY <1>1 DEF Refs, Counts, CountOf, One
<1>5. rc[d] > 0 /\ rc[d] \in Nat
  BY <1>1, <1>3, <1>4 DEF TypeOK
<1>6. ~HasJob(d)
  <2> SUFFICES ASSUME HasJob(d) PROVE FALSE
    OBVIOUS
  <2>1. rc[d] = 1
    BY <1>1 DEF Refs, Lives, LifeOf, Listed, Unlisted
  <2>2. d \in Jobs(d) \ {j}
    BY <1>1 DEF Jobs
  <2>3. Jobs(d) \ {j} \in SUBSET Nodes /\ Cardinality(Jobs(d) \ {j}) = Cardinality(Jobs(d)) - 1
    BY <1>1, <1>2, Minus, SubsetsOf
  <2>4. Cardinality(Jobs(d) \ {j}) \in Nat \ {0}
    BY <2>2, <2>3, Subsets
  <2> QED
    BY <2>1, <2>3, <2>4, <1>3, <1>4
<1>7. dst[d] /\ d \notin finished
  BY <1>1, <1>5, <1>6 DEF Refs, Lives, LifeOf, Listed, Unlisted
<1>8. /\ finished' = finished \cup {j} /\ rc' = ReleasedRc(d) /\ dst' = ReleasedDst(d)
      /\ fpc' = [fpc EXCEPT ![f] = IF SendsDot(d) THEN "dot" ELSE "drain"]
      /\ fjob' = [fjob EXCEPT ![f] = IF SendsDot(d) THEN d ELSE Nothing]
      /\ UNCHANGED <<section, task, crawlDone, jobQueue, finishQueue, spc, held, ready, fdone>>
  BY <1>1 DEF Process, crawlVars, schedVars
<1>9. /\ SendsDot(d) <=> rc[d] = 1
      /\ \A e \in Dirs \ {d} : rc'[e] = rc[e] /\ dst'[e] = dst[e]
      /\ rc[d] = 1 => rc'[d] = 1 /\ ~dst'[d]
      /\ rc[d] # 1 => rc'[d] = rc[d] - 1 /\ rc'[d] > 0 /\ dst'[d]
      /\ rc' \in [Dirs -> Nat] /\ dst' \in [Dirs -> BOOLEAN]
  BY <1>1, <1>5, <1>7, <1>8, Release
<1>10. fjob' \in [Finishers -> Nodes \cup {Nothing}]
  BY <1>1, <1>8 DEF TypeOK
<1>11. TypeOK'
  BY <1>1, <1>8, <1>9, <1>10 DEF TypeOK
<1>12. Placed' /\ \A m \in Nodes : HasJob(m)' <=> (HasJob(m) /\ m # j) \/ (m = d /\ rc[d] = 1)
  <2>1. /\ jobQueue' = jobQueue /\ finishQueue' = finishQueue /\ held' = held /\ task' = task
        /\ finished' = finished \cup {j}
    BY <1>8
  <2>2. CASE rc[d] = 1
    <3>1. fjob' = [fjob EXCEPT ![f] = d] /\ d \in Nodes \cup {Nothing}
      BY <2>2, <1>1, <1>8, <1>9
    <3> QED
      BY <2>1, <2>2, <3>1, <1>1, <1>6, <1>7, JobDone
  <2>3. CASE rc[d] # 1
    <3>1. fjob' = [fjob EXCEPT ![f] = Nothing] /\ \A m \in Nodes : m # Nothing
      BY <2>3, <1>8, <1>9, TreeAssumption
    <3>2. Placed' /\ \A m \in Nodes : HasJob(m)' <=> HasJob(m) /\ m # j
      BY <2>1, <3>1, <1>1, JobDone
    <3> QED
      BY <2>3, <3>2
  <2> QED
    BY <2>2, <2>3
<1>13. Nested'
  BY <1>8 DEF Nested, Refs
<1>14. \A e \in Dirs : e \in Nodes /\ Children(e)' = Children(e) /\ Children(e) \subseteq Nodes
                       /\ Active(e)' = Active(e)
  BY <1>8 DEF Children, Nodes, Active
<1>15. \A e \in Dirs \ {d} : Jobs(e)' = Jobs(e)
  <2> SUFFICES ASSUME NEW e \in Dirs \ {d} PROVE Jobs(e)' = Jobs(e)
    OBVIOUS
  <2>1. d \notin Jobs(e) /\ d \notin (Children(e) \cap Files) \cup {e}
    BY <1>1, FileNotDir DEF Jobs
  <2>2. j \notin (Children(e) \cap Files) \cup {e}
    BY <1>1 DEF Children
  <2> QED
    BY <2>1, <2>2, <1>12, <1>14 DEF Jobs
<1>16. rc[d] = 1 => Jobs(d)' = (Jobs(d) \ {j}) \cup {d} /\ d \notin Jobs(d) \ {j}
  BY <1>1, <1>6, <1>12, <1>14 DEF Jobs
<1>17. rc[d] # 1 => Jobs(d)' = Jobs(d) \ {j}
  BY <1>12, <1>14, <1>1 DEF Jobs
<1>18. Cardinality(Jobs(d) \ {j}) = Cardinality(Jobs(d)) - 1 /\ Jobs(d) \ {j} \in SUBSET Nodes
  BY <1>1, <1>2, Minus, SubsetsOf
<1>19. Counts'
  <2> SUFFICES ASSUME NEW e \in Dirs PROVE CountOf(e)'
    BY DEF Counts
  <2>1. CountOf(e)
    BY DEF Counts, Refs
  <2>2. CASE e # d
    BY <2>1, <2>2, <1>8, <1>9, <1>14, <1>15 DEF CountOf, One
  <2>3. CASE e = d /\ rc[d] = 1
    <3>1. Cardinality(Jobs(d)') = Cardinality(Jobs(d) \ {j}) + 1
      BY <2>3, <1>1, <1>16, <1>18, Plus
    <3> QED
      BY <3>1, <2>1, <2>3, <1>1, <1>3, <1>8, <1>9, <1>14, <1>18 DEF CountOf, One
  <2>4. CASE e = d /\ rc[d] # 1
    <3>1. rc'[d] = rc[d] - 1 /\ Cardinality(Jobs(d)') = Cardinality(Jobs(d)) - 1
          /\ Cardinality(Active(d)') = Cardinality(Active(d))
      BY <2>4, <1>9, <1>14, <1>17, <1>18
    <3> QED
      BY <3>1, <2>4, <1>3, <1>4, <1>8 DEF CountOf
  <2> QED
    BY <2>2, <2>3, <2>4
<1>20. Lives'
  <2> SUFFICES ASSUME NEW e \in Dirs PROVE LifeOf(e)'
    BY DEF Lives
  <2>1. LifeOf(e)
    BY DEF Lives, Refs
  <2>2. e \in finished' <=> e \in finished
    BY <1>1, <1>8
  <2>3. CASE e # d
    <3>1. HasJob(e)' <=> HasJob(e)
      BY <2>3, <1>1, <1>12, <1>14
    <3>2. Opened(e)' <=> Opened(e)
      BY <2>2, <2>3, <3>1, <1>9 DEF Opened
    <3> QED
      BY <2>1, <2>2, <2>3, <3>1, <3>2, <1>8, <1>9, <1>14 DEF LifeOf, Listed, Unlisted
  <2>4. Opened(d)
    BY <1>7 DEF Opened
  <2>5. CASE e = d /\ rc[d] = 1
    <3>1. HasJob(d)' /\ ~dst'[d] /\ rc'[d] = 1
      BY <2>5, <1>1, <1>9, <1>12
    <3>2. task[d] \notin {"listing", "waiting"}
      BY <2>5, <1>3, <1>4 DEF One
    <3>3. Opened(d)'
      BY <3>1 DEF Opened
    <3> QED
      BY <2>1, <2>4, <2>5, <3>1, <3>2, <3>3, <1>8, <1>14 DEF LifeOf, Listed, Unlisted
  <2>6. CASE e = d /\ rc[d] # 1
    <3>1. ~HasJob(d)' /\ dst'[d] /\ rc'[d] > 0
      BY <2>6, <1>1, <1>6, <1>9, <1>12
    <3>2. Opened(d)'
      BY <3>1 DEF Opened
    <3> QED
      BY <2>1, <2>2, <2>4, <2>6, <3>1, <3>2, <1>7, <1>8, <1>14 DEF LifeOf, Listed, Unlisted
  <2> QED
    BY <2>3, <2>5, <2>6
<1> QED
  BY <1>11, <1>12, <1>13, <1>19, <1>20 DEF Refs

----------------------------------------------------------------------------
(* How the parts end.                                                      *)

\* When the root's task is done the others are, or were never made.
LEMMA CrawlOver ==
    ASSUME Nested, task[Root] = "done"
    PROVE  \A n \in Nodes : task[n] \in {"none", "done"}
<1> DEFINE S == {n \in Nodes : task[n] \notin {"none", "done"}}
<1>1. \A n \in S \ {Root} : Parent[n] \in S
  BY ParentDir DEF Nested
<1>2. Root \notin S
  OBVIOUS
<1>3. S = {}
  BY <1>1, <1>2, TreeAssumption
<1> QED
  BY <1>3

LEMMA AllHome ==
    ASSUME Nested, Ends, \A f \in Finishers : fpc[f] = "done"
    PROVE  /\ SchedulersDone /\ \A s \in Schedulers : held[s] = {}
           /\ \A n \in Nodes : task[n] \in {"none", "done"}
<1>1. SchedulersDone
  BY ThreadsAssumption DEF Ends
<1>2. task[Root] = "done" /\ \A s \in Schedulers : held[s] = {}
  BY <1>1, ThreadsAssumption DEF Ends, SchedulersDone
<1> QED
  BY <1>1, <1>2, CrawlOver

\* What has ended stays so.
LEMMA OverStays ==
    ASSUME NEW k \in 1 .. 4, SectionOver(k),
           task[Root] = "done" => task'[Root] = "done",
           \A s \in Schedulers : spc[s] = "done" => spc'[s] = "done",
           \A f \in Finishers : fpc[f] = "done" => fpc'[f] = "done"
    PROVE  SectionOver(k)'
<1>1. k = 1 \/ k = 2 \/ k = 3 \/ k = 4
  OBVIOUS
<1>2. CASE k = 1
  BY <1>2 DEF SectionOver, Sections
<1>3. CASE k = 2 \/ k = 3
  BY <1>3 DEF SectionOver, Sections
<1>4. CASE k = 4
  BY <1>4 DEF SectionOver, Sections
<1> QED
  BY <1>1, <1>2, <1>3, <1>4

\* A step at which nobody goes home.
LEMMA EndsKept ==
    ASSUME Ends, UNCHANGED <<section, crawlDone, fdone>>,
           task[Root] = "done" => task'[Root] = "done",
           \A s \in Schedulers : /\ spc'[s] = "done" <=> spc[s] = "done"
                                 /\ spc[s] = "done" => held'[s] \subseteq held[s],
           \A f \in Finishers : fpc'[f] = "done" <=> fpc[f] = "done",
           (\A f \in Finishers : fpc[f] = "done") => finishQueue' \subseteq finishQueue
    PROVE  Ends'
<1>1. \A k \in 1 .. 4 : section'[k] = "done" => SectionOver(k)'
  BY OverStays DEF Ends
<1>2. SchedulersDone => SchedulersDone'
  BY DEF SchedulersDone
<1>3. \A s \in Schedulers : spc'[s] = "done" => held'[s] = {} /\ crawlDone'
  BY DEF Ends
<1>4. \A f \in Finishers : (fdone'[f] => SchedulersDone') /\ (fpc'[f] = "done" => fdone'[f])
  BY <1>2 DEF Ends
<1>5. (\A f \in Finishers : fpc'[f] = "done") => finishQueue' = {}
  BY DEF Ends
<1> QED
  BY <1>1, <1>3, <1>4, <1>5 DEF Ends

\* The steps of the crawler leave the other threads alone.
LEMMA TaskHands ==
    ASSUME TypeOK, Hands, UNCHANGED <<spc, held, ready, fpc, fjob>>,
           NEW n \in Nodes, NEW v, task' = [task EXCEPT ![n] = v],
           v \in {"toJobQueue", "toFinishQueue"} => n \in Files,
           v \in {"listing", "waiting", "dot"} => n \in Dirs
    PROVE  Hands'
<1>1. \A m \in Nodes : task'[m] = IF m = n THEN v ELSE task[m]
  BY DEF TypeOK
<1> QED
  BY <1>1 DEF Hands

LEMMA TaskEnds ==
    ASSUME TypeOK, Nested, Ends, UNCHANGED <<section, crawlDone, fdone, spc, held, fpc>>,
           NEW n \in Nodes, task[n] # "done", NEW v, task' = [task EXCEPT ![n] = v],
           finishQueue' # finishQueue => task[n] # "none"
    PROVE  Ends'
<1>1. task[Root] = "done" => task'[Root] = "done"
  BY TreeAssumption DEF TypeOK, Nodes
<1>2. (\A f \in Finishers : fpc[f] = "done") => finishQueue' = finishQueue
  BY AllHome
<1> QED
  BY <1>1, <1>2, EndsKept

----------------------------------------------------------------------------
(* The invariant is inductive.                                             *)

LEMMA InitInv == Init => IInv
<1> SUFFICES ASSUME Init PROVE IInv
  OBVIOUS
<1>1. TypeOK
  BY TypeInit
<1>2. \A n \in Nodes : ~HasJob(n) /\ ~WithTask(n) /\ ~InSlot(n) /\ ~InHand(n) /\ n \notin finished
  BY TreeAssumption DEF Init, HasJob, WithTask, InSlot, InHand
<1>3. \A n \in Nodes : task[n] = IF n = Root THEN "ready" ELSE "none"
  BY DEF Init
<1>4. Hands
  BY <1>3 DEF Init, Hands
<1>5. Placed
  <2>1. jobQueue = {} /\ finishQueue = {} /\ finished = {} /\ Files \subseteq Nodes
        /\ (\A s \in Schedulers : held[s] = {}) /\ \A f \in Finishers : fjob[f] = Nothing
    BY DEF Init, Nodes
  <2> QED
    BY <1>2, <2>1 DEF Placed
<1>6. Nested
  BY <1>3 DEF Nested
<1>7. \A d \in Dirs : /\ d \in Nodes /\ Children(d) \subseteq Nodes \ {Root} /\ rc[d] = 0 /\ ~dst[d]
                      /\ \A n \in Children(d) : task[n] = "none"
  BY <1>3 DEF Init, Nodes, Children
<1>8. Lives
  BY <1>2, <1>3, <1>7 DEF Lives, LifeOf, Listed, Unlisted, Opened
<1>9. Counts
  <2> SUFFICES ASSUME NEW d \in Dirs PROVE CountOf(d)
    BY DEF Counts
  <2>1. Active(d) = {} /\ Jobs(d) = {}
    BY <1>2, <1>7 DEF Active, Jobs
  <2>2. One(task[d] \in {"listing", "waiting"}) = 0
    BY <1>3, <1>7 DEF One
  <2> QED
    BY <2>1, <2>2, <1>7, FS_EmptySet DEF CountOf
<1>10. Ends
  <2>1. ~crawlDone /\ finishQueue = {} /\ (\A s \in Schedulers : spc[s] # "done")
        /\ (\A f \in Finishers : ~fdone[f] /\ fpc[f] # "done")
        /\ \A k \in 1 .. 4 : section[k] # "done"
    BY DEF Init
  <2> QED
    BY <2>1 DEF Ends
<1> QED
  BY <1>1, <1>4, <1>5, <1>6, <1>8, <1>9, <1>10 DEF IInv, Refs

LEMMA TeamInv == ASSUME IInv, Team PROVE IInv'
<1>1. TypeOK /\ Hands /\ Placed /\ Refs /\ Ends
  BY DEF IInv
<1>2. TypeOK'
  BY <1>1, TeamType
<1>3. /\ UNCHANGED <<task, rc, dst, jobQueue, finishQueue, spc, held, ready, fpc, fjob, fdone,
                      finished>>
      /\ \E k \in 1 .. 4 : StartSection(k) \/ EndSection(k)
  BY DEF Team, StartSection, EndSection, crawlVars, refVars, schedVars, finishVars
<1>4. Hands'
  BY <1>1, <1>3 DEF Hands
<1>5. \A n \in Nodes : /\ (WithTask(n)' <=> WithTask(n)) /\ (InSlot(n)' <=> InSlot(n))
                       /\ (InHand(n)' <=> InHand(n)) /\ (HasJob(n)' <=> HasJob(n))
  BY <1>3 DEF HasJob, WithTask, InSlot, InHand
<1>6. Placed'
  <2>1. jobQueue \subseteq Nodes /\ finishQueue \subseteq Nodes /\ finished \subseteq Nodes
        /\ Files \subseteq Nodes
    BY <1>1 DEF TypeOK, Nodes
  <2> QED
    BY <1>1, <1>3, <1>5, <2>1 DEF Placed
<1>7. Refs'
  BY <1>1, <1>3, <1>5, RefsKept DEF JobsStay
<1>8. \A k \in 1 .. 4 : SectionOver(k) => SectionOver(k)'
  BY <1>3, OverStays
<1>9. Ends'
  <2>1. \A k \in 1 .. 4 : section'[k] = "done" => SectionOver(k)'
    <3>1. CASE \E k \in 1 .. 4 : StartSection(k)
      <4>1. \A k \in 1 .. 4 : section'[k] = "done" => section[k] = "done"
        BY <1>1, <3>1 DEF StartSection, TypeOK
      <4> QED
        BY <4>1, <1>1, <1>8 DEF Ends
    <3>2. CASE \E k \in 1 .. 4 : EndSection(k)
      <4>1. PICK k \in 1 .. 4 : EndSection(k)
        BY <3>2
      <4>2. SectionOver(k) /\ \A l \in 1 .. 4 : section'[l] = "done" => l = k \/ section[l] = "done"
        BY <1>1, <4>1 DEF EndSection, TypeOK
      <4> QED
        BY <4>2, <1>1, <1>8 DEF Ends
    <3> QED
      BY <3>1, <3>2, <1>3
  <2>2. crawlDone' => task[Root] = "done"
    <3>1. CASE crawlDone' = crawlDone
      BY <3>1, <1>1 DEF Ends
    <3>2. CASE \E k \in 1 .. 4 : EndSection(k) /\ Sections[k] = "crawl"
      BY <3>2 DEF EndSection, SectionOver, Sections
    <3> QED
      BY <3>1, <3>2, <1>1, <1>3 DEF StartSection, EndSection, crawlVars, TypeOK
  <2>3. crawlDone => crawlDone'
    BY <1>3 DEF StartSection, EndSection, crawlVars
  <2>4. (SchedulersDone' <=> SchedulersDone) /\ finishQueue' = finishQueue
    BY <1>3 DEF SchedulersDone
  <2> QED
    BY <1>1, <1>3, <2>1, <2>2, <2>3, <2>4 DEF Ends
<1> QED
  BY <1>2, <1>4, <1>6, <1>7, <1>9 DEF IInv

\* The steps of the crawler that open, list and end directories.
LEMMA DirInv ==
    ASSUME IInv, NEW n \in Nodes,
           \/ OpenDir(n) \/ NotListed(n) \/ ListEntry(n)
           \/ ListEnd(n) \/ DirEnd(n) \/ TaskEnd(n)
    PROVE  IInv'
<1>1. TypeOK /\ Hands /\ Placed /\ Refs /\ Ends /\ Nested
  BY DEF IInv, Refs
<1>2. /\ UNCHANGED <<section, crawlDone, jobQueue, finishQueue, spc, held, ready, fpc, fjob,
                     fdone, finished>>
      /\ task[n] # "done"
  BY DEF OpenDir, NotListed, ListEntry, ListEnd, DirEnd, TaskEnd, Starts, schedVars, finishVars
<1>3. ASSUME NEW v, task' = [task EXCEPT ![n] = v], v \notin {"toJobQueue", "toFinishQueue"},
             v \in {"listing", "waiting", "dot"} => n \in Dirs
      PROVE  Hands' /\ Ends'
  BY <1>1, <1>2, <1>3, TaskHands, TaskEnds
<1>4. CASE OpenDir(n)
  <2>1. task' = [task EXCEPT ![n] = "listing"] /\ n \in Dirs
    BY <1>4 DEF OpenDir, Starts
  <2>2. Hands' /\ Ends'
    BY <1>1, <1>2, <2>1, TaskHands, TaskEnds
  <2>3. TypeOK' /\ Placed' /\ Refs'
    BY <1>1, <1>4, DirOpened
  <2> QED
    BY <2>2, <2>3 DEF IInv
<1>5. CASE ListEntry(n)
  <2>1. task' = [task EXCEPT ![n] = "ready"]
    BY <1>5 DEF ListEntry
  <2>2. Hands' /\ Ends'
    BY <1>1, <1>2, <2>1, TaskHands, TaskEnds
  <2>3. TypeOK' /\ Placed' /\ Refs'
    BY <1>1, <1>5, EntryListed, CrawlType
  <2> QED
    BY <2>2, <2>3 DEF IInv
<1>6. CASE ListEnd(n)
  <2>1. /\ task' = [task EXCEPT ![n] = "waiting"] /\ task[n] = "listing" /\ n \in Dirs
        /\ UNCHANGED <<rc, dst>> /\ \A m \in Children(n) : task[m] # "none"
    BY <1>1, <1>6 DEF ListEnd, Hands, refVars
  <2>2. Placed' /\ JobsStay
    BY <1>1, <1>2, <2>1, TaskMoves DEF WithTask, SamePlaces, JobsStay
  <2>3. Refs'
    BY <1>1, <2>1, <2>2, TaskGoesOn
  <2>4. Hands' /\ Ends'
    BY <1>1, <1>2, <2>1, TaskHands, TaskEnds
  <2>5. TypeOK'
    BY <1>1, <1>6, CrawlType
  <2> QED
    BY <2>2, <2>3, <2>4, <2>5 DEF IInv
<1>7. CASE DirEnd(n)
  <2>1. \E v \in {"dot", "drop"} : task' = [task EXCEPT ![n] = v]
    BY <1>7 DEF DirEnd
  <2>2. n \in Dirs
    BY <1>1, <1>7 DEF DirEnd, Hands
  <2> QED
    BY <1>1, <1>3, <1>7, <2>1, <2>2, DirEnded DEF IInv
<1>8. CASE TaskEnd(n)
  <2>1. task' = [task EXCEPT ![n] = "done"]
    BY <1>8 DEF TaskEnd
  <2>2. Hands' /\ Ends'
    BY <1>1, <1>2, <2>1, TaskHands, TaskEnds
  <2>3. TypeOK' /\ Placed' /\ Refs'
    BY <1>1, <1>8, TaskEnded
  <2> QED
    BY <2>2, <2>3 DEF IInv
<1>9. CASE NotListed(n)
  <2>1. task' = [task EXCEPT ![n] = "dot"] /\ n \in Dirs
    BY <1>9 DEF NotListed, Starts
  <2>2. Hands' /\ Ends'
    BY <1>1, <1>2, <2>1, TaskHands, TaskEnds
  <2>3. TypeOK' /\ Placed' /\ Refs'
    BY <1>1, <1>9, DirNotListed
  <2> QED
    BY <2>2, <2>3 DEF IInv
<1> QED
  BY <1>4, <1>5, <1>6, <1>7, <1>8, <1>9

\* Those that decide about a node and enqueue its job.
LEMMA NodeInv ==
    ASSUME IInv, NEW n \in Nodes,
           \/ GiveUp(n) \/ Transfer(n) \/ MetadataOnly(n)
           \/ EnqueueJob(n) \/ EnqueueFinish(n) \/ DirDot(n)
    PROVE  IInv'
<1>1. TypeOK /\ Hands /\ Placed /\ Refs /\ Ends /\ Nested
  BY DEF IInv, Refs
<1>2. /\ UNCHANGED <<section, crawlDone, spc, held, ready, fpc, fjob, fdone, finished>>
      /\ task[n] \notin {"none", "done"}
  BY DEF GiveUp, Transfer, MetadataOnly, EnqueueJob, EnqueueFinish, DirDot, Starts, crawlVars,
         schedVars, finishVars
<1>3. TypeOK'
  BY <1>1, CrawlType
<1>4. ASSUME NEW v, task' = [task EXCEPT ![n] = v], v \notin {"listing", "waiting", "dot"},
             v \in {"toJobQueue", "toFinishQueue"} => n \in Files
      PROVE  Hands' /\ Ends'
  BY <1>1, <1>2, <1>4, TaskHands, TaskEnds
<1>5. CASE GiveUp(n)
  <2>1. /\ task' = [task EXCEPT ![n] = "drop"] /\ task[n] = "ready"
        /\ UNCHANGED <<rc, dst>> /\ SamePlaces
    BY <1>5 DEF GiveUp, Starts, refVars, schedVars, finishVars, SamePlaces
  <2>2. Placed' /\ JobsStay
    BY <1>1, <1>2, <2>1, TaskMoves DEF WithTask, JobsStay
  <2>3. Refs'
    BY <1>1, <2>1, <2>2, TaskGoesOn
  <2> QED
    BY <1>3, <1>4, <2>1, <2>2, <2>3 DEF IInv
<1>6. CASE Transfer(n) \/ MetadataOnly(n)
  <2>1. n \in Files /\ \E v \in {"toJobQueue", "toFinishQueue"} : task' = [task EXCEPT ![n] = v]
    BY <1>6 DEF Transfer, MetadataOnly, Starts
  <2> QED
    BY <1>1, <1>3, <1>4, <1>6, <2>1, FileJobMade DEF IInv
<1>7. CASE EnqueueJob(n) \/ EnqueueFinish(n) \/ DirDot(n)
  <2>1. /\ task' = [task EXCEPT ![n] = "drop"] /\ WithTask(n) /\ UNCHANGED <<rc, dst>>
        /\ \/ jobQueue' = jobQueue \cup {n} /\ finishQueue' = finishQueue
           \/ finishQueue' = finishQueue \cup {n} /\ jobQueue' = jobQueue
    BY <1>7 DEF EnqueueJob, EnqueueFinish, DirDot, WithTask, refVars
  <2>2. Placed' /\ JobsStay
    BY <1>1, <1>2, <2>1, JobEnqueued DEF JobsStay
  <2>3. task[n] \notin {"none", "done", "listing", "waiting"}
    BY <2>1 DEF WithTask
  <2>4. Refs'
    BY <1>1, <2>1, <2>2, <2>3, TaskGoesOn
  <2> QED
    BY <1>3, <1>4, <2>1, <2>2, <2>4 DEF IInv
<1> QED
  BY <1>5, <1>6, <1>7

LEMMA SchedulerInv == ASSUME IInv, NEW s \in Schedulers, Scheduler(s) PROVE IInv'
<1>1. TypeOK /\ Hands /\ Placed /\ Refs /\ Ends /\ Nested
  BY DEF IInv, Refs
<1>2. TypeOK'
  BY <1>1, SchedulerType
<1>3. /\ UNCHANGED <<section, task, crawlDone, rc, dst, fpc, fjob, fdone, finished>>
      /\ spc[s] # "done"
  BY DEF Scheduler, FileCopied, Take, HandOver, CompleteEnd, FillEnd, ExitTest, crawlVars,
         refVars, finishVars
<1>4. Hands'
  <2>1. CASE \E x \in Files : FileCopied(s, x)
    BY <1>1, <1>3, <2>1 DEF FileCopied, Hands, TypeOK
  <2>2. CASE \E x \in Files : Take(s, x)
    BY <1>1, <1>3, <2>2 DEF Take, Hands, TypeOK
  <2>3. CASE HandOver(s)
    <3>1. \A r \in Schedulers : spc'[r] = "handing" => r # s /\ ready'[r] = ready[r]
                                                       /\ held'[r] = held[r] /\ spc[r] = "handing"
      BY <1>1, <2>3 DEF HandOver, TypeOK
    <3> QED
      BY <3>1, <1>1, <1>3 DEF Hands
  <2>4. CASE CompleteEnd(s) \/ FillEnd(s) \/ ExitTest(s)
    BY <1>1, <1>3, <2>4 DEF CompleteEnd, FillEnd, ExitTest, Hands, TypeOK
  <2> QED
    BY <2>1, <2>2, <2>3, <2>4 DEF Scheduler
<1>5. Placed' /\ JobsStay
  <2>1. CASE \E x \in Files : Take(s, x)
    BY <1>1, <1>3, <2>1, JobTaken DEF JobsStay
  <2>2. CASE HandOver(s)
    BY <1>1, <1>3, <2>2, JobHandedOver DEF JobsStay
  <2>3. CASE UNCHANGED <<jobQueue, finishQueue, held>>
    <3>1. \A n \in Nodes : /\ (WithTask(n)' <=> WithTask(n)) /\ (InSlot(n)' <=> InSlot(n))
                           /\ (InHand(n)' <=> InHand(n)) /\ (HasJob(n)' <=> HasJob(n))
      BY <1>3, <2>3 DEF HasJob, WithTask, InSlot, InHand
    <3>2. jobQueue \subseteq Nodes /\ finishQueue \subseteq Nodes /\ finished \subseteq Nodes
          /\ Files \subseteq Nodes
      BY <1>1 DEF TypeOK, Nodes
    <3> QED
      BY <1>1, <1>3, <2>3, <3>1, <3>2 DEF Placed, JobsStay
  <2> QED
    BY <2>1, <2>2, <2>3 DEF Scheduler, FileCopied, CompleteEnd, FillEnd, ExitTest
<1>6. Refs'
  BY <1>1, <1>3, <1>5, RefsKept
<1>7. Ends'
  <2>1. (\A f \in Finishers : fpc[f] = "done") => finishQueue' \subseteq finishQueue
    <3>1. ~\A f \in Finishers : fpc[f] = "done"
      BY <1>1, <1>3, AllHome DEF SchedulersDone
    <3> QED
      BY <3>1
  <2>2. CASE ~ExitTest(s)
    <3>1. \A r \in Schedulers : /\ spc'[r] = "done" <=> spc[r] = "done"
                                /\ spc[r] = "done" => held'[r] \subseteq held[r]
      BY <1>1, <1>3, <2>2 DEF Scheduler, FileCopied, Take, HandOver, CompleteEnd, FillEnd, TypeOK
    <3> QED
      BY <2>1, <3>1, <1>1, <1>3, EndsKept
  <2>3. CASE ExitTest(s)
    <3>1. /\ held' = held
          /\ \A r \in Schedulers : /\ spc[r] = "done" => spc'[r] = "done"
                                   /\ spc'[r] = "done" =>
                                         spc[r] = "done" \/ (held[r] = {} /\ crawlDone)
      BY <1>1, <1>3, <2>3 DEF ExitTest, TypeOK
    <3>2. \A k \in 1 .. 4 : section'[k] = "done" => SectionOver(k)'
      BY <1>1, <1>3, <3>1, OverStays DEF Ends
    <3>3. SchedulersDone => SchedulersDone'
      BY <3>1 DEF SchedulersDone
    <3>4. finishQueue' = finishQueue
      BY <2>3 DEF ExitTest
    <3> QED
      BY <1>1, <1>3, <3>1, <3>2, <3>3, <3>4 DEF Ends
  <2> QED
    BY <2>2, <2>3
<1> QED
  BY <1>2, <1>4, <1>5, <1>6, <1>7 DEF IInv

\* A finish processor that does not touch a reference.
LEMMA FinisherQuiet ==
    ASSUME IInv, NEW f \in Finishers,
           Check(f) \/ Miss(f) \/ SendDot(f) \/ \E j \in Nodes : Dequeue(f, j)
    PROVE  TypeOK' /\ Hands' /\ Placed' /\ Refs'
<1>1. TypeOK /\ Hands /\ Placed /\ Refs
  BY DEF IInv
<1>2. UNCHANGED <<section, task, crawlDone, rc, dst, jobQueue, spc, held, ready, finished>>
  BY DEF Check, Miss, SendDot, Dequeue, crawlVars, refVars, schedVars
<1>3. /\ fpc' \in [Finishers -> {"check", "drain", "process", "dot", "done"}]
      /\ fjob' \in [Finishers -> Nodes \cup {Nothing}]
      /\ fdone' \in [Finishers -> BOOLEAN] /\ finishQueue' \in SUBSET Nodes
  <2>1. CASE Check(f) \/ Miss(f)
    BY <1>1, <2>1 DEF Check, Miss, TypeOK, SchedulersDone
  <2>2. CASE SendDot(f)
    <3>1. fjob[f] \in Nodes
      BY <1>1, <2>2 DEF SendDot, Hands, TypeOK
    <3> QED
      BY <3>1, <1>1, <2>2 DEF SendDot, TypeOK
  <2>3. CASE \E j \in Nodes : Dequeue(f, j)
    BY <1>1, <2>3 DEF Dequeue, TypeOK
  <2> QED
    BY <2>1, <2>2, <2>3
<1>4. TypeOK'
  BY <1>1, <1>2, <1>3 DEF TypeOK
<1>5. Hands'
  <2>1. \A j \in Nodes : j # Nothing
    BY TreeAssumption
  <2>2. \A g \in Finishers : fpc'[g] \in {"process", "dot"} <=> fjob'[g] # Nothing
    <3>1. CASE Check(f) \/ Miss(f)
      BY <1>1, <3>1 DEF Check, Miss, Hands, TypeOK
    <3>2. CASE SendDot(f)
      BY <1>1, <3>2 DEF SendDot, Hands, TypeOK
    <3>3. CASE \E j \in Nodes : Dequeue(f, j)
      BY <1>1, <2>1, <3>3 DEF Dequeue, Hands, TypeOK
    <3> QED
      BY <3>1, <3>2, <3>3
  <2> QED
    BY <1>1, <1>2, <2>2 DEF Hands
<1>6. Placed' /\ JobsStay
  <2>1. CASE Check(f) \/ Miss(f)
    <3>1. UNCHANGED <<finishQueue, fjob>>
      BY <2>1 DEF Check, Miss
    <3>2. \A n \in Nodes : /\ (WithTask(n)' <=> WithTask(n)) /\ (InSlot(n)' <=> InSlot(n))
                           /\ (InHand(n)' <=> InHand(n)) /\ (HasJob(n)' <=> HasJob(n))
      BY <1>2, <3>1 DEF HasJob, WithTask, InSlot, InHand
    <3>3. jobQueue \subseteq Nodes /\ finishQueue \subseteq Nodes /\ finished \subseteq Nodes
          /\ Files \subseteq Nodes
      BY <1>1 DEF TypeOK, Nodes
    <3> QED
      BY <1>1, <1>2, <3>1, <3>2, <3>3 DEF Placed, JobsStay
  <2>2. CASE SendDot(f)
    BY <1>1, <1>2, <2>2, DotSent DEF JobsStay
  <2>3. CASE \E j \in Nodes : Dequeue(f, j)
    BY <1>1, <1>2, <2>3, JobDequeued DEF JobsStay
  <2> QED
    BY <2>1, <2>2, <2>3
<1>7. Refs'
  BY <1>1, <1>2, <1>6, RefsKept
<1> QED
  BY <1>4, <1>5, <1>6, <1>7

LEMMA ProcessInv == ASSUME IInv, NEW f \in Finishers, Process(f) PROVE IInv'
<1>1. TypeOK /\ Hands /\ Placed /\ Refs /\ Ends
  BY DEF IInv
<1>2. /\ UNCHANGED <<section, task, crawlDone, jobQueue, finishQueue, spc, held, ready, fdone>>
      /\ fpc[f] = "process"
      /\ LET d == JobDir(fjob[f])
         IN /\ fpc' = [fpc EXCEPT ![f] = IF SendsDot(d) THEN "dot" ELSE "drain"]
            /\ fjob' = [fjob EXCEPT ![f] = IF SendsDot(d) THEN d ELSE Nothing]
  BY DEF Process, crawlVars, schedVars
<1>3. fjob[f] \in Files \/ fjob[f] \in Dirs
  BY <1>1, <1>2 DEF Hands, TypeOK, Nodes
<1>4. JobDir(fjob[f]) \in Dirs /\ JobDir(fjob[f]) # Nothing
  BY <1>3, FileNotDir, ParentDir, TreeAssumption DEF JobDir, Nodes
<1>5. TypeOK' /\ Placed' /\ Refs'
  <2>1. CASE fjob[f] \in Dirs
    BY <1>1, <2>1, DirStamped
  <2>2. CASE fjob[f] \in Files
    <3>1. Parent[fjob[f]] \in Dirs
      BY <2>2, FileNotDir, ParentDir
    <3> QED
      BY <1>1, <2>2, <3>1, FileFinished
  <2> QED
    BY <1>3, <2>1, <2>2
<1>6. \A g \in Finishers : /\ fpc'[g] \in {"process", "dot"} <=> fjob'[g] # Nothing
                           /\ fpc'[g] = "done" <=> fpc[g] = "done"
  BY <1>1, <1>2, <1>4 DEF Hands, TypeOK
<1>7. Hands'
  BY <1>1, <1>2, <1>6 DEF Hands
<1>8. Ends'
  BY <1>1, <1>2, <1>6, EndsKept
<1> QED
  BY <1>5, <1>7, <1>8 DEF IInv

LEMMA FinisherInv == ASSUME IInv, NEW f \in Finishers, Finisher(f) PROVE IInv'
<1>1. TypeOK /\ Ends
  BY DEF IInv
<1>2. CASE Process(f)
  BY <1>2, ProcessInv
<1>3. CASE SendDot(f) \/ \E j \in Nodes : Dequeue(f, j)
  <2>1. /\ UNCHANGED <<section, task, crawlDone, spc, held, fdone>>
        /\ \A g \in Finishers : fpc'[g] = "done" <=> fpc[g] = "done"
        /\ fpc[f] # "done"
    BY <1>1, <1>3 DEF SendDot, Dequeue, crawlVars, schedVars, TypeOK
  <2>2. Ends'
    BY <1>1, <2>1, EndsKept
  <2> QED
    BY <1>3, <2>2, FinisherQuiet DEF IInv
<1>4. CASE Check(f)
  <2>1. /\ UNCHANGED <<section, task, crawlDone, spc, held, finishQueue>>
        /\ \A g \in Finishers : fpc'[g] = "done" <=> fpc[g] = "done"
        /\ \A g \in Finishers : fdone'[g] => fdone[g] \/ SchedulersDone
        /\ \A g \in Finishers : fpc[g] = "done" => fdone'[g] = fdone[g]
    BY <1>1, <1>4 DEF Check, crawlVars, schedVars, TypeOK
  <2>2. (SchedulersDone' <=> SchedulersDone) /\ \A k \in 1 .. 4 : SectionOver(k) => SectionOver(k)'
    BY <2>1, OverStays DEF SchedulersDone
  <2>3. Ends'
    BY <1>1, <2>1, <2>2 DEF Ends
  <2> QED
    BY <1>4, <2>3, FinisherQuiet DEF IInv
<1>5. CASE Miss(f)
  <2>1. /\ UNCHANGED <<section, task, crawlDone, spc, held, finishQueue, fdone>>
        /\ \A g \in Finishers : fpc[g] = "done" => fpc'[g] = "done"
        /\ \A g \in Finishers : fpc'[g] = "done" => fpc[g] = "done" \/ fdone[g]
        /\ finishQueue = {}
    BY <1>1, <1>5 DEF Miss, MayLeave, crawlVars, schedVars, TypeOK
  <2>2. (SchedulersDone' <=> SchedulersDone) /\ \A k \in 1 .. 4 : SectionOver(k) => SectionOver(k)'
    BY <2>1, OverStays DEF SchedulersDone
  <2>3. Ends'
    BY <1>1, <2>1, <2>2 DEF Ends
  <2> QED
    BY <1>5, <2>3, FinisherQuiet DEF IInv
<1> QED
  BY <1>2, <1>3, <1>4, <1>5 DEF Finisher

LEMMA StutterInv == ASSUME IInv, UNCHANGED vars PROVE IInv'
<1>1. UNCHANGED <<section, task, crawlDone, rc, dst, jobQueue, finishQueue, spc, held, ready, fpc,
                  fjob, fdone, finished>>
  BY DEF vars, crawlVars, refVars, schedVars, finishVars
<1>2. TypeOK /\ Hands /\ Placed /\ Refs /\ Ends
  BY DEF IInv
<1>3. TypeOK' /\ Hands'
  BY <1>1, <1>2 DEF TypeOK, Hands
<1>4. \A n \in Nodes : /\ (WithTask(n)' <=> WithTask(n)) /\ (InSlot(n)' <=> InSlot(n))
                       /\ (InHand(n)' <=> InHand(n)) /\ (HasJob(n)' <=> HasJob(n))
  BY <1>1 DEF HasJob, WithTask, InSlot, InHand
<1>5. Placed'
  <2>1. jobQueue \subseteq Nodes /\ finishQueue \subseteq Nodes /\ finished \subseteq Nodes
        /\ Files \subseteq Nodes
    BY <1>2 DEF TypeOK, Nodes
  <2> QED
    BY <1>1, <1>2, <1>4, <2>1 DEF Placed
<1>6. Refs'
  BY <1>1, <1>2, <1>4, RefsKept DEF JobsStay
<1>7. Ends'
  BY <1>1, <1>2, EndsKept
<1> QED
  BY <1>3, <1>5, <1>6, <1>7 DEF IInv

LEMMA StepInv == IInv /\ [Next]_vars => IInv'
<1> SUFFICES ASSUME IInv, [Next]_vars PROVE IInv'
  OBVIOUS
<1>1. CASE Team
  BY <1>1, TeamInv
<1>2. CASE Crawl
  BY <1>2, DirInv, NodeInv DEF Crawl, CrawlTask
<1>3. CASE \E s \in Schedulers : Scheduler(s)
  BY <1>3, SchedulerInv
<1>4. CASE \E f \in Finishers : Finisher(f)
  BY <1>4, FinisherInv
<1>5. CASE Terminated \/ UNCHANGED vars
  BY <1>5, StutterInv DEF Terminated
<1> QED
  BY <1>1, <1>2, <1>3, <1>4, <1>5 DEF Next

LEMMA SpecInv == Spec => []IInv
  BY InitInv, StepInv, PTL DEF Spec

----------------------------------------------------------------------------
(* What follows from it.                                                   *)

\* A node has a job in one place or in none.
LEMMA JobsAreOne ==
    ASSUME TypeOK, Placed, NEW n \in Nodes
    PROVE  JobsUnderway(n) = One(HasJob(n))
<1> DEFINE S == {s \in Schedulers : n \in held[s]}
           F == {f \in Finishers : fjob[f] = n}
<1>1. n # Nothing
  BY TreeAssumption
<1>2. Cardinality(S) = One(InSlot(n))
  <2>1. CASE InSlot(n)
    <3>1. PICK s \in Schedulers : n \in held[s]
      BY <2>1 DEF InSlot
    <3>2. S = {s}
      BY <3>1 DEF Placed
    <3> QED
      BY <2>1, <3>2, FS_Singleton DEF One
  <2>2. CASE ~InSlot(n)
    <3>1. S = {}
      BY <2>2 DEF InSlot
    <3> QED
      BY <2>2, <3>1, FS_EmptySet DEF One
  <2> QED
    BY <2>1, <2>2
<1>3. Cardinality(F) = One(InHand(n))
  <2>1. CASE InHand(n)
    <3>1. PICK f \in Finishers : fjob[f] = n
      BY <2>1 DEF InHand
    <3>2. F = {f}
      BY <1>1, <3>1 DEF Placed
    <3> QED
      BY <2>1, <3>2, FS_Singleton DEF One
  <2>2. CASE ~InHand(n)
    <3>1. F = {}
      BY <2>2 DEF InHand
    <3> QED
      BY <2>2, <3>1, FS_EmptySet DEF One
  <2> QED
    BY <2>1, <2>2
<1>4. JobsUnderway(n) = One(WithTask(n)) + One(n \in jobQueue) + One(n \in finishQueue)
                        + One(InSlot(n)) + One(InHand(n))
  BY <1>2, <1>3 DEF JobsUnderway, WithTask
<1>5. /\ WithTask(n) => n \notin jobQueue /\ n \notin finishQueue /\ ~InSlot(n) /\ ~InHand(n)
      /\ n \in jobQueue => n \notin finishQueue /\ ~InSlot(n) /\ ~InHand(n)
      /\ n \in finishQueue => ~InSlot(n) /\ ~InHand(n)
      /\ InSlot(n) => ~InHand(n)
  BY DEF Placed
<1> HIDE DEF S, F
<1> QED
  BY <1>4, <1>5 DEF One, HasJob

LEMMA InvJobs == IInv => JobsInOnePlace
<1> SUFFICES ASSUME IInv PROVE JobsInOnePlace
  OBVIOUS
<1>1. TypeOK /\ Placed /\ Lives
  BY DEF IInv, Refs
<1>2. \A n \in Nodes : JobsUnderway(n) = One(HasJob(n)) /\ (n \in finished => ~HasJob(n))
  BY <1>1, JobsAreOne DEF Placed
<1>3. \A n \in Nodes : JobsUnderway(n) + One(n \in finished) <= 1
  BY <1>2 DEF One
<1>4. ASSUME NEW d \in Dirs
      PROVE  LET sent == JobsUnderway(d) + One(d \in finished) = 1
                 over == ~dst[d] /\ task[d] \in {"dot", "drop", "done"}
             IN  /\ sent => over /\ (Listed(d) \/ Unlisted(d))
                 /\ Children(d) # {} /\ Listed(d) /\ over => sent
  <2>1. JobsUnderway(d) + One(d \in finished) = 1 <=> HasJob(d) \/ d \in finished
    BY <1>2 DEF One, Nodes
  <2>2. LifeOf(d)
    BY <1>1 DEF Lives
  <2>3. CASE HasJob(d) \/ d \in finished
    BY <2>1, <2>2, <2>3 DEF LifeOf, Opened
  <2>4. CASE ~(HasJob(d) \/ d \in finished)
    <3>1. Children(d) # {} /\ Listed(d) => dst[d]
      BY <2>2, <2>4 DEF LifeOf, Opened, Listed, Unlisted
    <3> QED
      BY <2>1, <2>4, <3>1
  <2> QED
    BY <2>3, <2>4
<1> QED
  BY <1>3, <1>4 DEF JobsInOnePlace

LEMMA InvRefs == IInv => RefsExact
<1> SUFFICES ASSUME IInv, NEW d \in Dirs
             PROVE  rc[d] = One(task[d] \in {"listing", "waiting"})
                       + Cardinality({n \in Children(d) : task[n] \notin {"none", "done"}})
                       + Cardinality({n \in (Children(d) \cap Files) \cup {d} :
                                         JobsUnderway(n) > 0})
  BY DEF RefsExact
<1>1. TypeOK /\ Placed /\ CountOf(d)
  BY DEF IInv, Refs, Counts
<1>2. \A n \in Nodes : JobsUnderway(n) > 0 <=> HasJob(n)
  BY <1>1, JobsAreOne DEF One
<1>3. (Children(d) \cap Files) \cup {d} \subseteq Nodes
  BY DEF Children, Nodes
<1>4. {n \in (Children(d) \cap Files) \cup {d} : JobsUnderway(n) > 0} = Jobs(d)
  BY <1>2, <1>3 DEF Jobs
<1> QED
  BY <1>1, <1>4 DEF CountOf, Active

LEMMA InvClosed == IInv => DirsClosed
<1> SUFFICES ASSUME IInv, Returned, NEW d \in Dirs, ~(rc[d] = 0 /\ ~dst[d])
             PROVE  \E x \in jobQueue : Parent[x] = d
  BY DEF DirsClosed
<1>1. TypeOK /\ Hands /\ LifeOf(d) /\ CountOf(d) /\ Nested /\ Ends /\ d \in Nodes
  BY DEF IInv, Refs, Counts, Lives, Nodes
<1>2. \A k \in 1 .. 4 : SectionOver(k)
  BY <1>1 DEF Returned, Ends
<1>3. \A f \in Finishers : fpc[f] = "done"
  BY <1>2 DEF SectionOver, Sections
<1>4. /\ \A n \in Nodes : task[n] \in {"none", "done"}
      /\ finishQueue = {} /\ \A s \in Schedulers : held[s] = {}
  BY <1>1, <1>3, AllHome DEF Ends
<1>5. \A n \in Nodes : ~InHand(n)
  BY <1>1, <1>3, TreeAssumption DEF Hands, InHand
<1>6. \A n \in Nodes : HasJob(n) <=> n \in jobQueue
  BY <1>4, <1>5 DEF HasJob, WithTask, InSlot
<1>7. rc[d] > 0
  BY <1>1 DEF LifeOf, TypeOK
<1>8. Active(d) = {} /\ One(task[d] \in {"listing", "waiting"}) = 0
  BY <1>1, <1>4 DEF Active, Children, One
<1>9. Jobs(d) # {}
  <2>1. rc[d] = Cardinality(Jobs(d))
    BY <1>1, <1>8, FS_EmptySet, Subsets, SubsetsOf DEF CountOf
  <2> QED
    BY <1>7, <2>1, FS_EmptySet
<1>10. PICK n \in (Children(d) \cap Files) \cup {d} : HasJob(n)
  BY <1>9 DEF Jobs
<1>11. n \in jobQueue
  BY <1>1, <1>6, <1>10 DEF Children
<1>12. n \in Files
  BY <1>1, <1>11 DEF TypeOK
<1> QED
  BY <1>10, <1>11, <1>12, FileNotDir DEF Children

----------------------------------------------------------------------------
\* Every counter, flag and place of every thread has its type in every state; the
\* unsigned FDRC.rc is never decremented at zero.
THEOREM TypeCorrect == Spec => []TypeOK
<1>1. IInv => TypeOK
  BY DEF IInv
<1> QED
  BY <1>1, SpecInv, PTL

\* processDir, processNonDir, the transfer threads and finishProcessorOne pass a job
\* on: none is in two hands, or done twice, whatever the tree and the threads.
THEOREM NoJobDoubled == Spec => []JobsInOnePlace
  BY InvJobs, SpecInv, PTL

\* FDRC.incref and the destructors of FDRCGuard balance: a directory's count is
\* the number of the tasks and jobs that hold it.
THEOREM RefsAreCounted == Spec => []RefsExact
  BY InvRefs, SpecInv, PTL

\* The loop of finishProcessor ends only after all its work has come, though it
\* reads scheds[i].done and the queue at different times.
THEOREM LastHomeLeavesNothing == Spec => []NothingAfterFinish
<1>1. IInv => NothingAfterFinish
  <2> SUFFICES ASSUME IInv, \A f \in Finishers : fpc[f] = "done"
               PROVE  /\ finishQueue = {}
                      /\ \A s \in Schedulers : held[s] = {}
                      /\ \A n \in Nodes : task[n] \in {"none", "done"}
    BY DEF NothingAfterFinish
  <2>1. Nested /\ Ends
    BY DEF IInv, Refs
  <2> QED
    BY <2>1, AllHome DEF Ends
<1> QED
  BY <1>1, SpecInv, PTL

\* When main returns a directory is closed and stamped, but for one with a file
\* that was left in the jobQueue.
THEOREM ClosedInTheEnd == Spec => []DirsClosed
  BY InvClosed, SpecInv, PTL

\* A directory's times are set by its dot job after all that is created in it: the
\* job is sent by the last reference, and what creates holds one.
THEOREM StampedLast == Spec => DirsStampedLast
<1> DEFINE A == \A n \in Nodes \ {Root} : Creates(n) => Parent[n] \notin finished
<1>1. IInv /\ [Next]_vars => A
  <2> SUFFICES ASSUME IInv, [Next]_vars, NEW n \in Nodes \ {Root}, Creates(n)
               PROVE  Parent[n] \notin finished
    OBVIOUS
  <2> DEFINE p == Parent[n]
  <2>1. TypeOK /\ Placed /\ Nested /\ Counts /\ Lives /\ p \in Dirs /\ p \in Nodes
    BY ParentDir DEF IInv, Refs
  <2>2. CASE n \in Dirs /\ task[n] = "ready"
    <3>1. task[p] \in {"listing", "waiting"}
      BY <2>1, <2>2 DEF Nested
    <3> QED
      BY <2>1, <3>1 DEF Lives, LifeOf
  <2>3. CASE n \in Files /\ n \notin finished /\ n \in finished'
    <3>1. PICK f \in Finishers : fjob[f] = n
      <4>1. \E f \in Finishers : Process(f)
        BY <2>3 DEF Next, Team, StartSection, EndSection, Crawl, CrawlTask, OpenDir, NotListed,
                    GiveUp, ListEntry, ListEnd, DirEnd, DirDot, Transfer, MetadataOnly, EnqueueJob,
                    EnqueueFinish, TaskEnd, Scheduler, FileCopied, HandOver, CompleteEnd, Take,
                    FillEnd, ExitTest, Finisher, Check, Dequeue, Miss, SendDot, Terminated, vars,
                    finishVars
      <4> QED
        BY <4>1, <2>3 DEF Process
    <3>2. n \in Jobs(p)
      BY <2>3, <3>1 DEF Jobs, Children, HasJob, InHand
    <3>3. Cardinality(Jobs(p)) \in Nat \ {0} /\ Cardinality(Active(p)) \in Nat
      BY <2>1, <3>2, Subsets, SubsetsOf
    <3>4. rc[p] > 0
      BY <2>1, <3>3 DEF Counts, CountOf, One, TypeOK
    <3> QED
      BY <2>1, <3>4 DEF Lives, LifeOf, Placed
  <2> QED
    BY <2>2, <2>3 DEF Creates
<1> QED
  BY <1>1, SpecInv, PTL DEF Spec, DirsStampedLast

----------------------------------------------------------------------------
(***************************************************************************)
(* Nobody waits for ever: who has something to do.  A transfer thread that *)
(* looks for jobs in vain, and a finish processor that does, have nothing. *)
(***************************************************************************)
SectionCanGo(k) ==
    \/ section[k] = "waiting" /\ Cardinality({l \in 1 .. 4 : section[l] = "running"}) < TeamSize
    \/ section[k] = "running" /\ SectionOver(k)

TaskCanGo(n) ==
    \/ task[n] = "ready" /\ FreeCrawler /\ Running("crawl")
    \/ task[n] \in {"listing", "drop"}
    \/ task[n] = "waiting" /\ FreeCrawler /\ \A m \in Children(n) : task[m] = "done"
    \/ task[n] = "toJobQueue" /\ Room(jobQueue)
    \/ task[n] \in {"toFinishQueue", "dot"} /\ Room(finishQueue)

SchedulerCanGo(s) ==
    /\ Running("transfer") /\ spc[s] # "done"
    /\ spc[s] = "handing" => Room(finishQueue)
    /\ held[s] # {} \/ jobQueue # {} \/ crawlDone

FinisherCanGo(f) ==
    /\ Running("finish")
    /\ \/ fpc[f] \in {"check", "drain"} /\ (finishQueue # {} \/ SchedulersDone)
       \/ fpc[f] = "process"
       \/ fpc[f] = "dot" /\ Room(finishQueue)

SomebodyCanGo ==
    \/ \E k \in 1 .. 4 : SectionCanGo(k)
    \/ \E n \in Nodes : TaskCanGo(n)
    \/ \E s \in Schedulers : SchedulerCanGo(s)
    \/ \E f \in Finishers : FinisherCanGo(f)

\* All finish processors wait for room in the queue that only they empty.
AllSendDots == ~Room(finishQueue) /\ \A f \in Finishers : fpc[f] = "dot"

\* With a thread for each section that is the only way to stop half-way.
NobodyStuck == TeamSize >= 4 => Returned \/ AllSendDots \/ SomebodyCanGo

\* Once a finish processor has gone home those that look for jobs suffice for
\* the queue: all that is still added to it are the dot jobs of the others.
Looking == {f \in Finishers : fpc[f] \in {"check", "drain"}}
LastJobs == (\E f \in Finishers : fpc[f] = "done")
                => Cardinality(finishQueue) <= Cardinality(Looking)

CrawlFirst == task[Root] # "none" /\ (section[1] = "done" => crawlDone)

Supply == IInv /\ LastJobs /\ CrawlFirst

LEMMA CrawlFirstStep ==
    ASSUME IInv, CrawlFirst, Next
    PROVE  CrawlFirst'
<1>0. TypeOK /\ task[Root] # "none" /\ (section[1] = "done" => crawlDone) /\ Root \in Nodes
  BY TreeAssumption DEF IInv, CrawlFirst, Nodes
<1> SUFFICES task'[Root] # "none" /\ (section'[1] = "done" => crawlDone')
  BY DEF CrawlFirst
<1>1. CASE Team
  <2>1. PICK k \in 1 .. 4 : StartSection(k) \/ EndSection(k)
    BY <1>1 DEF Team
  <2>2. task' = task
    BY <2>1 DEF StartSection, EndSection, crawlVars
  <2>3. CASE StartSection(k)
    BY <1>0, <2>2, <2>3 DEF StartSection, TypeOK, crawlVars
  <2>4. CASE EndSection(k)
    <3>1. Sections[1] = "crawl" /\ (crawlDone => crawlDone')
      BY <2>4 DEF EndSection, Sections
    <3>2. k = 1 => crawlDone'
      BY <2>4, <3>1 DEF EndSection
    <3>3. k # 1 => section'[1] = section[1]
      BY <1>0, <2>4 DEF EndSection, TypeOK
    <3> QED
      BY <1>0, <2>2, <3>1, <3>2, <3>3
  <2> QED
    BY <2>1, <2>3, <2>4
<1>2. CASE Crawl
  <2>1. section' = section /\ crawlDone' = crawlDone
    BY <1>2 DEF Crawl, CrawlTask, ListEntry, OpenDir, NotListed, GiveUp, ListEnd, DirEnd, DirDot,
                Transfer, MetadataOnly, EnqueueJob, EnqueueFinish, TaskEnd
  <2>2. PICK n \in Nodes : \E v : v # "none" /\ task' = [task EXCEPT ![n] = v]
    <3>1. PICK n \in Nodes : ListEntry(n) \/ CrawlTask(n)
      BY <1>2 DEF Crawl
    <3>2. \E v \in {"ready", "listing", "waiting", "toJobQueue", "toFinishQueue", "dot", "drop",
                      "done"} : task' = [task EXCEPT ![n] = v]
      BY <3>1 DEF CrawlTask, ListEntry, OpenDir, NotListed, GiveUp, ListEnd, DirEnd, DirDot,
                  Transfer, MetadataOnly, EnqueueJob, EnqueueFinish, TaskEnd, Starts
    <3> QED
      BY <3>2
  <2> QED
    BY <1>0, <2>1, <2>2 DEF TypeOK
<1>3. ASSUME NEW s \in Schedulers, Scheduler(s)
      PROVE  UNCHANGED <<section, crawlDone, task>>
  BY <1>3 DEF Scheduler, FileCopied, HandOver, CompleteEnd, Take, FillEnd, ExitTest, crawlVars
<1>4. ASSUME NEW f \in Finishers, Finisher(f)
      PROVE  UNCHANGED <<section, crawlDone, task>>
  BY <1>4 DEF Finisher, Check, Miss, Process, SendDot, Dequeue, crawlVars
<1>5. CASE Terminated
  BY <1>0, <1>5 DEF Terminated, vars, crawlVars
<1> QED
  BY <1>0, <1>1, <1>2, <1>3, <1>4, <1>5 DEF Next

\* After the first finish processor went home only finish processors have jobs.
LEMMA NoMoreJobs ==
    ASSUME IInv, \E f \in Finishers : fpc[f] = "done", Next,
           \A f \in Finishers : ~Finisher(f)
    PROVE  UNCHANGED <<finishQueue, fpc>>
<1>1. /\ TypeOK /\ Nested /\ Hands
      /\ SchedulersDone /\ task[Root] = "done"
  BY ThreadsAssumption DEF IInv, Refs, Ends, SchedulersDone
<1>2. \A n \in Nodes : task[n] \in {"none", "done"}
  BY <1>1, CrawlOver
<1>3. CASE Team
  BY <1>3 DEF Team, StartSection, EndSection, finishVars
<1>4. ASSUME NEW n \in Nodes, ListEntry(n) \/ CrawlTask(n)
      PROVE  UNCHANGED <<finishQueue, fpc>>
  BY <1>2, <1>4 DEF CrawlTask, ListEntry, OpenDir, NotListed, GiveUp, ListEnd, DirEnd, DirDot,
                    Transfer, MetadataOnly, EnqueueJob, EnqueueFinish, TaskEnd, finishVars
<1>5. ASSUME NEW s \in Schedulers, Scheduler(s)
      PROVE  UNCHANGED <<finishQueue, fpc>>
  BY <1>1, <1>5 DEF Scheduler, FileCopied, HandOver, CompleteEnd, Take, FillEnd, ExitTest,
                    SchedulersDone, finishVars
<1>6. CASE Terminated
  BY <1>6 DEF Terminated, vars, finishVars
<1> QED
  BY <1>3, <1>4, <1>5, <1>6 DEF Next, Crawl

LEMMA LastJobsStep ==
    ASSUME IInv, LastJobs, Next
    PROVE  LastJobs'
<1> SUFFICES ASSUME NEW g \in Finishers, fpc'[g] = "done"
             PROVE  Cardinality(finishQueue') <= Cardinality(Looking')
  BY DEF LastJobs
<1> DEFINE Q == Cardinality(finishQueue)
           L == Cardinality(Looking)
<1>0. TypeOK
  BY DEF IInv
<1>1. /\ IsFiniteSet(Looking) /\ IsFiniteSet(finishQueue)
      /\ IsFiniteSet(Looking') /\ IsFiniteSet(finishQueue')
      /\ Q \in Nat /\ L \in Nat /\ Cardinality(Looking') \in Nat
  <2>1. /\ Looking \subseteq Finishers /\ Looking' \subseteq Finishers
        /\ IsFiniteSet(Finishers)
    BY ThreadsAssumption DEF Looking
  <2>2. finishQueue \in SUBSET Nodes /\ finishQueue' \in SUBSET Nodes
    BY StepInv DEF TypeOK, IInv
  <2> QED
    BY <2>1, <2>2, Subsets, FS_Subset, FS_CardinalityType
<1>2. CASE finishQueue' = {}
  BY <1>1, <1>2, FS_EmptySet
<1>3. CASE \A f \in Finishers : ~Finisher(f)
  <2>1. CASE \E f \in Finishers : fpc[f] = "done"
    <3>1. UNCHANGED <<finishQueue, fpc>>
      BY <1>3, <2>1, NoMoreJobs
    <3> QED
      BY <2>1, <3>1 DEF LastJobs, Looking
  <2>2. CASE ~\E f \in Finishers : fpc[f] = "done"
    BY <1>3, <2>2 DEF Next, Team, StartSection, EndSection, Crawl, CrawlTask, OpenDir, NotListed,
                      GiveUp, ListEntry, ListEnd, DirEnd, DirDot, Transfer, MetadataOnly,
                      EnqueueJob, EnqueueFinish, TaskEnd, Scheduler, FileCopied, HandOver,
                      CompleteEnd, Take, FillEnd, ExitTest, Terminated, vars, finishVars
  <2> QED
    BY <2>1, <2>2
<1>4. CASE \E f \in Finishers : Miss(f)
  BY <1>2, <1>4 DEF Miss
<1>5. ASSUME NEW f \in Finishers,
             Check(f) \/ Process(f) \/ SendDot(f) \/ \E j \in Nodes : Dequeue(f, j)
      PROVE  Q <= L
  <2>1. fpc[g] = "done"
    BY <1>0, <1>5 DEF Check, Process, SendDot, Dequeue, TypeOK
  <2> QED
    BY <2>1 DEF LastJobs
<1>6. ASSUME NEW f \in Finishers, Check(f) \/ Process(f)
      PROVE  Cardinality(finishQueue') <= Cardinality(Looking')
  <2>1. Looking \subseteq Looking' /\ finishQueue' = finishQueue
    BY <1>0, <1>6 DEF Check, Process, Looking, TypeOK
  <2>2. L <= Cardinality(Looking')
    BY <1>1, <2>1, FS_Subset
  <2> QED
    BY <1>1, <1>5, <1>6, <2>1, <2>2
<1>7. ASSUME NEW f \in Finishers, NEW j \in Nodes, Dequeue(f, j)
      PROVE  Cardinality(finishQueue') <= Cardinality(Looking')
  <2>1. /\ finishQueue' = finishQueue \ {j} /\ j \in finishQueue
        /\ Looking' = Looking \ {f} /\ f \in Looking
    BY <1>0, <1>7 DEF Dequeue, Looking, TypeOK
  <2>2. Cardinality(finishQueue') = Q - 1 /\ Cardinality(Looking') = L - 1
    BY <1>1, <2>1, FS_RemoveElement
  <2> QED
    BY <1>1, <1>5, <1>7, <2>2
<1>8. ASSUME NEW f \in Finishers, SendDot(f)
      PROVE  Cardinality(finishQueue') <= Cardinality(Looking')
  <2>1. /\ finishQueue' = finishQueue \cup {fjob[f]}
        /\ Looking' = Looking \cup {f} /\ f \notin Looking
    BY <1>0, <1>8 DEF SendDot, Looking, TypeOK
  <2>2. Cardinality(Looking') = L + 1
    BY <1>1, <2>1, FS_AddElement
  <2>3. Cardinality(finishQueue') = Q \/ Cardinality(finishQueue') = Q + 1
    BY <1>1, <2>1, FS_AddElement, Zenon
  <2>4. Q <= L
    BY <1>5, <1>8
  <2> HIDE DEF Q, L
  <2> QED
    BY <1>1, <2>2, <2>3, <2>4
<1> QED
  BY <1>3, <1>4, <1>6, <1>7, <1>8 DEF Finisher

\* Among any directories there is one that is the parent of none of them.
LEMMA Deepest ==
    ASSUME NEW G \in SUBSET Dirs, G # {}
    PROVE  \E d \in G : Children(d) \cap G = {}
<1> SUFFICES ASSUME \A d \in G : Children(d) \cap G # {} PROVE FALSE
  OBVIOUS
<1> DEFINE child == [d \in G |-> CHOOSE n \in G : n \in Children(d)]
<1>1. \A d \in G : child[d] \in G /\ child[d] \in Children(d)
  OBVIOUS
<1>2. \A d \in G : child[d] # Root /\ Parent[child[d]] = d
  BY <1>1 DEF Children
<1>3. child \in [G -> G] /\ \A a, b \in G : child[a] = child[b] => a = b
  BY <1>1, <1>2
<1>4. child \in Injection(G, G)
  BY <1>3 DEF Injection, IsInjective
<1>5. G \in SUBSET Nodes
  BY DEF Nodes
<1>6. child \in Surjection(G, G)
  BY <1>4, <1>5, Subsets, FS_Injection
<1>7. \A g \in G : \E d \in G : child[d] = g
  BY <1>6 DEF Surjection
<1> HIDE DEF child
<1>8. ASSUME NEW g \in G PROVE g # Root /\ Parent[g] \in G
  BY <1>2, <1>7
<1> QED
  BY <1>5, <1>8, TreeAssumption

\* With a thread for each section all of them are begun.
LEMMA SectionsBegin ==
    ASSUME TypeOK, TeamSize >= 4, NEW k \in 1 .. 4, ~SectionCanGo(k)
    PROVE  section[k] \in {"running", "done"}
<1> DEFINE R == {l \in 1 .. 4 : section[l] = "running"}
<1>1. IsFiniteSet(1 .. 4) /\ Cardinality(1 .. 4) = 4
  <2>1. 1 \in Int /\ 4 \in Int /\ (IF 1 > 4 THEN 0 ELSE 4 - 1 + 1) = 4
    OBVIOUS
  <2>2. IsFiniteSet(1 .. 4) /\ Cardinality(1 .. 4) = IF 1 > 4 THEN 0 ELSE 4 - 1 + 1
    BY <2>1, FS_Interval, Zenon
  <2> QED
    BY <2>1, <2>2
<1>2. CASE section[k] = "waiting"
  <2>1. R \subseteq (1 .. 4) \ {k}
    BY <1>2
  <2>2. /\ IsFiniteSet((1 .. 4) \ {k}) /\ Cardinality((1 .. 4) \ {k}) = 3
    BY <1>1, FS_RemoveElement
  <2>3. Cardinality(R) <= 3 /\ Cardinality(R) \in Nat
    BY <2>1, <2>2, FS_Subset, FS_CardinalityType
  <2>4. TeamSize \in Nat
    BY ThreadsAssumption
  <2> HIDE DEF R
  <2>5. Cardinality(R) < TeamSize
    BY <2>3, <2>4
  <2> QED
    BY <1>2, <2>5 DEF SectionCanGo, R
<1> QED
  BY <1>2 DEF TypeOK

\* While the queues have room the crawler goes on to its end.
LEMMA CrawlGoesOn ==
    ASSUME Supply, Running("crawl"), Room(jobQueue), Room(finishQueue),
           \A n \in Nodes : ~TaskCanGo(n)
    PROVE  task[Root] = "done"
<1>1. /\ TypeOK /\ Hands /\ Lives /\ task[Root] # "none" /\ Root \in Nodes
      /\ NCrawlers \in Nat \ {0}
  BY TreeAssumption, ThreadsAssumption DEF Supply, IInv, Refs, CrawlFirst, Nodes
<1>2. \A n \in Nodes : task[n] \in {"none", "ready", "waiting", "done"}
  BY <1>1 DEF TaskCanGo, TypeOK
<1>3. FreeCrawler
  <2>1. Working = {}
    BY <1>2 DEF Working
  <2> QED
    BY <1>1, <2>1, FS_EmptySet DEF FreeCrawler
<1>4. \A n \in Nodes : task[n] \in {"none", "waiting", "done"}
  BY <1>2, <1>3 DEF TaskCanGo
<1> DEFINE G == {d \in Dirs : task[d] = "waiting"}
<1>5. G = {}
  <2> SUFFICES ASSUME G # {} PROVE FALSE
    OBVIOUS
  <2>1. PICK d \in G : Children(d) \cap G = {}
    BY Deepest
  <2>2. \A n \in Children(d) : n \in Nodes /\ task[n] # "none" /\ task[n] # "waiting"
    <3>1. LifeOf(d) /\ task[d] = "waiting"
      BY <1>1 DEF Lives
    <3>2. \A n \in Children(d) : n \in Nodes /\ task[n] # "none"
      BY <3>1 DEF LifeOf, Listed, Children
    <3>3. \A n \in Children(d) : task[n] = "waiting" => n \in G
      BY <1>1, <3>2 DEF Hands
    <3> QED
      BY <2>1, <3>2, <3>3
  <2>3. \A n \in Children(d) : task[n] = "done"
    BY <1>4, <2>2
  <2>4. d \in Nodes /\ TaskCanGo(d)
    BY <1>3, <2>3 DEF TaskCanGo, Nodes
  <2> QED
    BY <2>4
<1>6. task[Root] # "waiting"
  BY <1>1, <1>5 DEF Hands
<1> QED
  BY <1>1, <1>4, <1>6

\* A full queue occupies a finish processor, if not all are busy filling it.
LEMMA QueueGoesOn ==
    ASSUME Supply, Running("finish"), ~Room(finishQueue), ~AllSendDots
    PROVE  \E f \in Finishers : FinisherCanGo(f)
<1>1. TypeOK /\ MaxFDs \in Nat \ {0}
  BY ThreadsAssumption DEF Supply, IInv
<1>2. finishQueue \in SUBSET Nodes /\ finishQueue # {} /\ Cardinality(finishQueue) \in Nat \ {0}
  <2>1. finishQueue \in SUBSET Nodes
    BY <1>1 DEF TypeOK
  <2>2. Cardinality(finishQueue) \in Nat /\ (Cardinality(finishQueue) = 0 <=> finishQueue = {})
    BY <2>1, Subsets
  <2>3. Cardinality(finishQueue) # 0
    BY <1>1, <2>2 DEF Room
  <2> QED
    BY <2>1, <2>2, <2>3
<1>3. PICK f \in Finishers : fpc[f] # "dot"
  BY DEF AllSendDots
<1>4. CASE fpc[f] # "done"
  BY <1>1, <1>2, <1>3, <1>4 DEF FinisherCanGo, TypeOK
<1>5. CASE fpc[f] = "done"
  <2>1. Cardinality(finishQueue) <= Cardinality(Looking)
    BY <1>5 DEF Supply, LastJobs
  <2>2. Looking # {}
    BY <1>2, <2>1, FS_EmptySet
  <2> QED
    BY <1>2, <2>2 DEF FinisherCanGo, Looking
<1> QED
  BY <1>4, <1>5

LEMMA SupplyGoesOn == Supply => NobodyStuck
<1> SUFFICES ASSUME Supply, TeamSize >= 4, ~AllSendDots, ~SomebodyCanGo
             PROVE  Returned
  BY DEF NobodyStuck
<1>0. TypeOK /\ Nested /\ Ends /\ (section[1] = "done" => crawlDone)
  BY DEF Supply, IInv, Refs, CrawlFirst
<1>1. \A k \in 1 .. 4 : section[k] \in {"running", "done"}
  BY <1>0, SectionsBegin DEF SomebodyCanGo
<1>2. \A k \in 1 .. 4 : SectionOver(k) => section[k] = "done"
  BY <1>1 DEF SomebodyCanGo, SectionCanGo
<1>3. /\ \/ Running("finish") \/ \A f \in Finishers : fpc[f] = "done"
      /\ \/ Running("transfer") \/ SchedulersDone
      /\ \/ Running("crawl") \/ crawlDone
  <2>1. Sections[3] = "finish" /\ Sections[4] = "transfer" /\ Sections[1] = "crawl"
    BY DEF Sections
  <2>2. /\ SectionOver(3) <=> \A f \in Finishers : fpc[f] = "done"
        /\ SectionOver(4) <=> SchedulersDone
    BY DEF Sections, SectionOver, SchedulersDone
  <2> QED
    BY <1>0, <1>1, <2>1, <2>2 DEF Running, Ends
<1>4. Room(finishQueue)
  <2> SUFFICES ASSUME ~Room(finishQueue) PROVE FALSE
    OBVIOUS
  <2>1. CASE Running("finish")
    BY <2>1, QueueGoesOn DEF SomebodyCanGo
  <2>2. CASE \A f \in Finishers : fpc[f] = "done"
    BY <1>0, <2>2, FS_EmptySet, ThreadsAssumption DEF Ends, Room
  <2> QED
    BY <1>3, <2>1, <2>2
<1>5. SchedulersDone \/ (~crawlDone /\ jobQueue = {})
  <2>1. CASE SchedulersDone
    BY <2>1
  <2>2. CASE ~SchedulersDone
    <3>1. Running("transfer")
      BY <1>3, <2>2
    <3>2. PICK s \in Schedulers : spc[s] # "done"
      BY <2>2 DEF SchedulersDone
    <3> QED
      BY <1>4, <3>1, <3>2 DEF SomebodyCanGo, SchedulerCanGo
  <2> QED
    BY <2>1, <2>2
<1>6. SchedulersDone
  <2> SUFFICES ASSUME ~SchedulersDone PROVE FALSE
    OBVIOUS
  <2>1. Room(jobQueue) /\ ~crawlDone
    BY <1>5, FS_EmptySet, ThreadsAssumption DEF Room
  <2>2. Running("crawl")
    BY <1>3, <2>1
  <2>3. task[Root] = "done"
    BY <1>4, <2>1, <2>2, CrawlGoesOn DEF SomebodyCanGo
  <2>4. SectionOver(1)
    BY <2>3 DEF SectionOver, Sections
  <2> QED
    BY <1>0, <1>2, <2>1, <2>4
<1>7. task[Root] = "done"
  BY <1>0, <1>6, ThreadsAssumption DEF Ends, SchedulersDone
<1>8. \A f \in Finishers : fpc[f] = "done"
  <2>1. CASE Running("finish")
    BY <1>0, <1>4, <1>6, <2>1 DEF SomebodyCanGo, FinisherCanGo, TypeOK
  <2> QED
    BY <1>3, <2>1
<1>9. \A k \in 1 .. 4 : SectionOver(k)
  BY <1>6, <1>7, <1>8 DEF SectionOver, Sections, SchedulersDone
<1> QED
  BY <1>2, <1>9 DEF Returned

(***************************************************************************)
(* Four threads wait for one another at two bounded queues, at two flags   *)
(* and in taskgroups (copy2.cpp:1361-1718, fileCopier.h), and yet there is *)
(* always one with something to do until main returns - unless all finish  *)
(* processors are sending a dot job into the full queue that only they     *)
(* empty. It is the safety core of MainReturns.                            *)
(***************************************************************************)
THEOREM SomebodyGoesOn == Spec => []NobodyStuck
<1>1. Init => Supply
  <2>1. Init => IInv
    BY InitInv
  <2>2. Init => LastJobs /\ CrawlFirst
    BY TreeAssumption DEF Init, LastJobs, CrawlFirst, Nodes
  <2> QED
    BY <2>1, <2>2 DEF Supply
<1>2. Supply /\ [Next]_vars => Supply'
  <2> SUFFICES ASSUME Supply, [Next]_vars PROVE Supply'
    OBVIOUS
  <2>1. IInv'
    BY StepInv DEF Supply
  <2>2. CASE Next
    BY <2>1, <2>2, LastJobsStep, CrawlFirstStep DEF Supply
  <2>3. CASE UNCHANGED vars
    BY <2>1, <2>3 DEF Supply, LastJobs, Looking, CrawlFirst, vars, crawlVars, finishVars
  <2> QED
    BY <2>2, <2>3
<1> QED
  BY <1>1, <1>2, SupplyGoesOn, PTL DEF Spec
----------------------------------------------------------------------------
(***************************************************************************)
(* Nobody works for ever: what is done is done once.                       *)
(***************************************************************************)

\* How far the task of a node has come.
TaskStage(n) ==
    CASE task[n] = "none" -> 0
      [] task[n] = "ready" -> 1
      [] task[n] \in {"listing", "toJobQueue", "toFinishQueue"} -> 2
      [] task[n] = "waiting" -> 3
      [] task[n] = "dot" -> 4
      [] task[n] = "drop" -> 5
      [] task[n] = "done" -> 6

\* The job of node n has come to the jobQueue (1), a slot (2), the hands of the
\* transfer thread (3), the finishQueue (4), a finish processor (5), its end (6).
JobReached(n, m) ==
    \/ n \in finished
    \/ m <= 5 /\ \E f \in Finishers : fjob[f] = n /\ fpc[f] = "process"
    \/ m <= 4 /\ n \in finishQueue
    \/ m <= 3 /\ \E s \in Schedulers : ready[s] = n /\ spc[s] = "handing"
    \/ m <= 2 /\ \E s \in Schedulers : n \in held[s]
    \/ m <= 1 /\ n \in jobQueue

SectionStage(k) ==
    CASE section[k] = "waiting" -> 0 [] section[k] = "running" -> 1 [] section[k] = "done" -> 2

\* The stages of all tasks, jobs and sections, and those that are still to come.
NodeStages == Nodes \X (1 .. 6)
SectionStages == (1 .. 4) \X (1 .. 2)

TasksToDo == {w \in NodeStages : TaskStage(w[1]) < w[2]}
JobsToDo == {w \in NodeStages : ~JobReached(w[1], w[2])}
SectionsToDo == {w \in SectionStages : SectionStage(w[1]) < w[2]}

\* One stage more is behind, and none comes back.
Progress ==
    /\ TasksToDo' \subseteq TasksToDo /\ JobsToDo' \subseteq JobsToDo
    /\ SectionsToDo' \subseteq SectionsToDo
    /\ TasksToDo' # TasksToDo \/ JobsToDo' # JobsToDo \/ SectionsToDo' # SectionsToDo

\* All but the places of the threads in their loops.
work == <<section, crawlVars, refVars, jobQueue, finishQueue, held, ready, fjob, finished>>

LEMMA StagesFinite == IsFiniteSet(NodeStages) /\ IsFiniteSet(SectionStages)
<1>1. 1 \in Int /\ 2 \in Int /\ 4 \in Int /\ 6 \in Int
  OBVIOUS
<1>2. IsFiniteSet(1 .. 6) /\ IsFiniteSet(1 .. 4) /\ IsFiniteSet(1 .. 2)
  BY <1>1, FS_Interval, Zenon
<1> QED
  BY <1>2, TreeAssumption, FS_Product DEF NodeStages, SectionStages

\* The stages of the jobs are kept if each place passes its jobs on.
LEMMA JobsKept ==
    ASSUME \A n \in Nodes, m \in 1 .. 6 : JobReached(n, m) => JobReached(n, m)'
    PROVE  JobsToDo' \subseteq JobsToDo
  BY DEF JobsToDo, NodeStages

LEMMA SameJobs ==
    ASSUME jobQueue \subseteq jobQueue', finishQueue \subseteq finishQueue',
           UNCHANGED <<held, ready, spc, fjob, fpc, finished>>
    PROVE  JobsToDo' \subseteq JobsToDo
<1>1. \A n \in Nodes, m \in 1 .. 6 : JobReached(n, m) => JobReached(n, m)'
  BY DEF JobReached
<1> QED
  BY <1>1, JobsKept

LEMMA SameTasks == ASSUME UNCHANGED task PROVE TasksToDo' = TasksToDo
  BY DEF TasksToDo, TaskStage

LEMMA SameSections == ASSUME UNCHANGED section PROVE SectionsToDo' = SectionsToDo
  BY DEF SectionsToDo, SectionStage

\* A task that goes on.
LEMMA TaskStep ==
    ASSUME TypeOK, TypeOK', NEW n \in Nodes, \A m \in Nodes \ {n} : task'[m] = task[m],
           TaskStage(n) < TaskStage(n)', UNCHANGED section, JobsToDo' \subseteq JobsToDo
    PROVE  Progress
<1>1. ASSUME NEW m \in Nodes
      PROVE  TaskStage(m) \in 0 .. 6 /\ TaskStage(m)' \in 0 .. 6 /\ TaskStage(m) <= TaskStage(m)'
  <2>1. TaskStage(m) \in 0 .. 6 /\ TaskStage(m)' \in 0 .. 6
    BY DEF TypeOK, TaskStage
  <2>2. m # n => TaskStage(m)' = TaskStage(m)
    BY DEF TaskStage
  <2> QED
    BY <2>1, <2>2
<1>2. TasksToDo' \subseteq TasksToDo
  <2> SUFFICES ASSUME NEW m \in Nodes, NEW k \in 1 .. 6, TaskStage(m)' < k
               PROVE  TaskStage(m) < k
    BY DEF TasksToDo, NodeStages
  <2> QED
    BY <1>1
<1>3. PICK k \in 1 .. 6 : k = TaskStage(n)'
  BY <1>1
<1>4. <<n, k>> \in TasksToDo /\ <<n, k>> \notin TasksToDo'
  <2>1. <<n, k>> \in NodeStages /\ TaskStage(n) < k
    BY <1>3 DEF NodeStages
  <2>2. ~(TaskStage(n)' < k)
    BY <1>1, <1>3
  <2> QED
    BY <2>1, <2>2 DEF TasksToDo
<1> QED
  BY <1>2, <1>4, SameSections DEF Progress

\* A job that goes on.
LEMMA JobStep ==
    ASSUME UNCHANGED <<section, task>>, NEW n \in Nodes, NEW k \in 1 .. 6,
           ~JobReached(n, k), JobReached(n, k)',
           \A j \in Nodes, m \in 1 .. 6 : JobReached(j, m) => JobReached(j, m)'
    PROVE  Progress
<1>1. <<n, k>> \in JobsToDo /\ <<n, k>> \notin JobsToDo'
  BY DEF JobsToDo, NodeStages
<1>2. JobsToDo' \subseteq JobsToDo
  BY JobsKept
<1> QED
  BY <1>1, <1>2, SameTasks, SameSections DEF Progress

LEMMA CrawlProgress == ASSUME IInv, TypeOK', Crawl PROVE Progress
<1>0. TypeOK
  BY DEF IInv
<1>1. ASSUME NEW n \in Nodes, ListEntry(n) PROVE Progress
  <2>1. /\ task[n] = "none" /\ task' = [task EXCEPT ![n] = "ready"]
        /\ UNCHANGED <<section, jobQueue, finishQueue, held, ready, spc, fjob, fpc, finished>>
    BY <1>1 DEF ListEntry, schedVars, finishVars
  <2>2. TaskStage(n) < TaskStage(n)' /\ \A m \in Nodes \ {n} : task'[m] = task[m]
    BY <1>0, <2>1 DEF TypeOK, TaskStage
  <2> QED
    BY <1>0, <2>1, <2>2, SameJobs, TaskStep
<1>2. ASSUME NEW n \in Nodes, CrawlTask(n) PROVE Progress
  <2>1. /\ UNCHANGED <<section, held, ready, spc, fjob, fpc, finished>>
        /\ jobQueue \subseteq jobQueue' /\ finishQueue \subseteq finishQueue'
    BY <1>2 DEF CrawlTask, OpenDir, NotListed, GiveUp, ListEnd, DirEnd, DirDot, Transfer,
                MetadataOnly, EnqueueJob, EnqueueFinish, TaskEnd, schedVars, finishVars
  <2>2. \E to : task' = [task EXCEPT ![n] = to]
    BY <1>2 DEF CrawlTask, OpenDir, NotListed, GiveUp, ListEnd, DirEnd, DirDot, Transfer,
                MetadataOnly, EnqueueJob, EnqueueFinish, TaskEnd, Starts
  <2>3. \/ task[n] = "ready"
           /\ task'[n] \in {"listing", "dot", "drop", "toJobQueue", "toFinishQueue"}
        \/ task[n] = "listing" /\ task'[n] = "waiting"
        \/ task[n] = "waiting" /\ task'[n] \in {"dot", "drop"}
        \/ task[n] \in {"dot", "toJobQueue", "toFinishQueue"} /\ task'[n] = "drop"
        \/ task[n] = "drop" /\ task'[n] = "done"
    BY <1>0, <1>2 DEF CrawlTask, OpenDir, NotListed, GiveUp, ListEnd, DirEnd, DirDot, Transfer,
                      MetadataOnly, EnqueueJob, EnqueueFinish, TaskEnd, Starts, TypeOK
  <2>4. TaskStage(n) < TaskStage(n)'
    BY <2>3 DEF TaskStage
  <2>5. \A m \in Nodes \ {n} : task'[m] = task[m]
    BY <1>0, <2>2 DEF TypeOK
  <2> QED
    BY <1>0, <2>1, <2>4, <2>5, SameJobs, TaskStep
<1> QED
  BY <1>1, <1>2 DEF Crawl

LEMMA TeamProgress == ASSUME IInv, TypeOK', Team PROVE Progress
<1>1. PICK k \in 1 .. 4 : StartSection(k) \/ EndSection(k)
  BY DEF Team
<1>2. /\ UNCHANGED <<task, jobQueue, finishQueue, held, ready, spc, fjob, fpc, finished>>
      /\ \E to : section' = [section EXCEPT ![k] = to]
  BY <1>1 DEF StartSection, EndSection, crawlVars, schedVars, finishVars
<1>3. section \in [1 .. 4 -> {"waiting", "running", "done"}]
  BY DEF IInv, TypeOK
<1>4. \/ section[k] = "waiting" /\ section'[k] = "running"
      \/ section[k] = "running" /\ section'[k] = "done"
  BY <1>1, <1>3 DEF StartSection, EndSection
<1>5. \A l \in 1 .. 4 : l # k => section'[l] = section[l]
  BY <1>2, <1>3
<1>6. SectionStage(k) < SectionStage(k)'
  BY <1>4 DEF SectionStage
<1>7. ASSUME NEW l \in 1 .. 4
      PROVE  /\ SectionStage(l) \in 0 .. 2 /\ SectionStage(l)' \in 0 .. 2
             /\ SectionStage(l) <= SectionStage(l)'
  <2>1. SectionStage(l) \in 0 .. 2 /\ SectionStage(l)' \in 0 .. 2
    BY DEF IInv, TypeOK, SectionStage
  <2>2. l # k => SectionStage(l)' = SectionStage(l)
    BY <1>5 DEF SectionStage
  <2> QED
    BY <1>6, <2>1, <2>2
<1>8. SectionsToDo' \subseteq SectionsToDo
  <2> SUFFICES ASSUME NEW l \in 1 .. 4, NEW m \in 1 .. 2, SectionStage(l)' < m
               PROVE  SectionStage(l) < m
    BY DEF SectionsToDo, SectionStages
  <2> QED
    BY <1>7
<1>9. PICK m \in 1 .. 2 : m = SectionStage(k)'
  BY <1>6, <1>7
<1>10. <<k, m>> \in SectionsToDo /\ <<k, m>> \notin SectionsToDo'
  <2>1. <<k, m>> \in SectionStages /\ SectionStage(k) < m
    BY <1>6, <1>9 DEF SectionStages
  <2>2. ~(SectionStage(k)' < m)
    BY <1>7, <1>9
  <2> QED
    BY <2>1, <2>2 DEF SectionsToDo
<1>11. TasksToDo' = TasksToDo /\ JobsToDo' \subseteq JobsToDo
  BY <1>2, SameTasks, SameJobs
<1> QED
  BY <1>8, <1>10, <1>11 DEF Progress

\* What has a job in a slot, or in hand, says of the other places.
LEMMA ElseNowhere ==
    ASSUME IInv, NEW n \in Nodes
    PROVE  /\ n \in jobQueue => ~JobReached(n, 2)
           /\ \A s \in Schedulers : n \in held[s] =>
                 /\ n \notin finishQueue /\ n \notin finished
                 /\ \A f \in Finishers : fjob[f] # n
                 /\ \A r \in Schedulers : r # s => n \notin held[r]
           /\ n \in finishQueue => ~JobReached(n, 5)
           /\ \A f \in Finishers : fjob[f] = n =>
                 /\ n \notin finishQueue /\ n \notin finished
                 /\ \A s \in Schedulers : n \notin held[s]
                 /\ \A g \in Finishers : g # f => fjob[g] # n
<1>1. TypeOK /\ Hands /\ Placed
  BY DEF IInv
<1>2. \A s \in Schedulers : spc[s] = "handing" => ready[s] \in held[s]
  BY <1>1 DEF Hands
<1>3. n \in finished => ~HasJob(n)
  BY <1>1 DEF Placed
<1>4. n \in jobQueue => n \notin finishQueue /\ ~InSlot(n) /\ ~InHand(n)
  BY <1>1 DEF Placed
<1>5. n \in finishQueue => ~InSlot(n) /\ ~InHand(n)
  BY <1>1 DEF Placed
<1>6. InSlot(n) => ~InHand(n)
  BY <1>1 DEF Placed
<1>7. n \in jobQueue => ~JobReached(n, 2)
  BY <1>2, <1>3, <1>4 DEF JobReached, HasJob, InSlot, InHand
<1>8. n \in finishQueue => ~JobReached(n, 5)
  BY <1>3, <1>5 DEF JobReached, HasJob, InHand
<1>9. ASSUME NEW s \in Schedulers, n \in held[s]
      PROVE  /\ n \notin finishQueue /\ n \notin finished
             /\ \A f \in Finishers : fjob[f] # n
             /\ \A r \in Schedulers : r # s => n \notin held[r]
  <2>1. InSlot(n)
    BY <1>9 DEF InSlot
  <2>2. \A r \in Schedulers : r # s => n \notin held[r]
    BY <1>1, <1>9 DEF Placed
  <2> QED
    BY <1>3, <1>5, <1>6, <2>1, <2>2 DEF HasJob, InHand
<1>10. ASSUME NEW f \in Finishers, fjob[f] = n
       PROVE  /\ n \notin finishQueue /\ n \notin finished
              /\ \A s \in Schedulers : n \notin held[s]
              /\ \A g \in Finishers : g # f => fjob[g] # n
  <2>1. InHand(n)
    BY <1>10 DEF InHand
  <2>2. fjob[f] # Nothing
    BY <1>10, TreeAssumption
  <2>3. \A g \in Finishers : g # f => fjob[g] # n
    BY <1>1, <1>10, <2>2 DEF Placed
  <2> QED
    BY <1>3, <1>5, <1>6, <2>1, <2>3 DEF HasJob, InSlot
<1> QED
  BY <1>7, <1>8, <1>9, <1>10

LEMMA SchedulerProgress ==
    ASSUME IInv, TypeOK', NEW s \in Schedulers, Scheduler(s)
    PROVE  Progress \/ UNCHANGED work
<1>0. TypeOK /\ Hands
  BY DEF IInv
<1>1. ASSUME NEW x \in Files, FileCopied(s, x) PROVE Progress
  <2>1. /\ spc[s] = "complete" /\ x \in held[s] /\ x \in Nodes
        /\ spc'[s] = "handing" /\ ready'[s] = x
        /\ \A r \in Schedulers \ {s} : spc'[r] = spc[r] /\ ready'[r] = ready[r]
        /\ UNCHANGED <<section, task, jobQueue, finishQueue, held, fjob, fpc, finished>>
    BY <1>0, <1>1 DEF FileCopied, crawlVars, finishVars, TypeOK, Nodes
  <2>2. \A n \in Nodes, m \in 1 .. 6 : JobReached(n, m) => JobReached(n, m)'
    BY <2>1 DEF JobReached
  <2>3. \A r \in Schedulers : spc[r] = "handing" => ready[r] # x
    BY <1>0, <2>1, ElseNowhere DEF Hands
  <2>4. ~JobReached(x, 3)
    BY <2>1, <2>3, ElseNowhere DEF JobReached
  <2>5. JobReached(x, 3)'
    BY <2>1 DEF JobReached
  <2> QED
    BY <2>1, <2>2, <2>4, <2>5, JobStep
<1>2. ASSUME NEW x \in Files, Take(s, x) PROVE Progress
  <2>1. /\ x \in jobQueue /\ x \in Nodes
        /\ jobQueue' = jobQueue \ {x} /\ x \in held'[s]
        /\ \A r \in Schedulers : held[r] \subseteq held'[r]
        /\ UNCHANGED <<section, task, finishQueue, spc, ready, fjob, fpc, finished>>
    BY <1>0, <1>2 DEF Take, crawlVars, finishVars, TypeOK, Nodes
  <2>2. \A n \in Nodes, m \in 1 .. 6 : JobReached(n, m) => JobReached(n, m)'
    BY <2>1 DEF JobReached
  <2>3. ~JobReached(x, 2) /\ JobReached(x, 2)'
    BY <2>1, ElseNowhere DEF JobReached
  <2> QED
    BY <2>1, <2>2, <2>3, JobStep
<1>3. CASE HandOver(s)
  <2>1. PICK x \in Nodes : x = ready[s] /\ x \in held[s]
    BY <1>0, <1>3 DEF HandOver, Hands, TypeOK, Nodes
  <2>2. /\ spc[s] = "handing" /\ spc'[s] = "complete"
        /\ finishQueue' = finishQueue \cup {x} /\ held'[s] = held[s] \ {x}
        /\ \A r \in Schedulers \ {s} :
              spc'[r] = spc[r] /\ ready'[r] = ready[r] /\ held'[r] = held[r]
        /\ UNCHANGED <<section, task, jobQueue, fjob, fpc, finished>>
    BY <1>0, <1>3, <2>1 DEF HandOver, crawlVars, finishVars, TypeOK
  <2>3. \A n \in Nodes, m \in 1 .. 6 : JobReached(n, m) => JobReached(n, m)'
    BY <2>1, <2>2 DEF JobReached
  <2>4. ~JobReached(x, 4)
    BY <2>1, ElseNowhere DEF JobReached
  <2>5. JobReached(x, 4)'
    BY <2>2 DEF JobReached
  <2> QED
    BY <2>2, <2>3, <2>4, <2>5, JobStep
<1>4. CASE CompleteEnd(s) \/ FillEnd(s) \/ ExitTest(s)
  BY <1>4 DEF CompleteEnd, FillEnd, ExitTest, work, finishVars
<1> QED
  BY <1>1, <1>2, <1>3, <1>4 DEF Scheduler

LEMMA FinisherProgress ==
    ASSUME IInv, TypeOK', NEW f \in Finishers, Finisher(f)
    PROVE  Progress \/ UNCHANGED work
<1>0. TypeOK /\ Hands
  BY DEF IInv
<1>1. ASSUME NEW j \in Nodes, Dequeue(f, j) PROVE Progress
  <2>1. /\ fpc[f] = "drain" /\ j \in finishQueue /\ finishQueue' = finishQueue \ {j}
        /\ fpc'[f] = "process" /\ fjob'[f] = j
        /\ \A g \in Finishers \ {f} : fpc'[g] = fpc[g] /\ fjob'[g] = fjob[g]
        /\ UNCHANGED <<section, task, jobQueue, held, ready, spc, finished>>
    BY <1>0, <1>1 DEF Dequeue, crawlVars, schedVars, TypeOK
  <2>2. \A n \in Nodes, m \in 1 .. 6 : JobReached(n, m) => JobReached(n, m)'
    BY <2>1 DEF JobReached
  <2>3. ~JobReached(j, 5) /\ JobReached(j, 5)'
    BY <2>1, ElseNowhere DEF JobReached
  <2> QED
    BY <2>1, <2>2, <2>3, JobStep
<1>2. CASE Process(f)
  <2>1. PICK j \in Nodes : j = fjob[f]
    BY <1>0, <1>2 DEF Process, Hands, TypeOK
  <2>2. /\ fpc[f] = "process" /\ finished' = finished \cup {j}
        /\ \A g \in Finishers \ {f} : fpc'[g] = fpc[g] /\ fjob'[g] = fjob[g]
        /\ UNCHANGED <<section, task, jobQueue, finishQueue, held, ready, spc>>
    BY <1>0, <1>2, <2>1 DEF Process, crawlVars, schedVars, TypeOK
  <2>3. \A n \in Nodes, m \in 1 .. 6 : JobReached(n, m) => JobReached(n, m)'
    BY <2>1, <2>2 DEF JobReached
  <2>4. ~JobReached(j, 6) /\ JobReached(j, 6)'
    BY <2>1, <2>2, ElseNowhere DEF JobReached
  <2> QED
    BY <2>2, <2>3, <2>4, JobStep
<1>3. CASE SendDot(f)
  <2>1. PICK d \in Nodes : d = fjob[f]
    BY <1>0, <1>3 DEF SendDot, Hands, TypeOK
  <2>2. /\ fpc[f] = "dot" /\ finishQueue' = finishQueue \cup {d} /\ fpc'[f] = "drain"
        /\ \A g \in Finishers \ {f} : fpc'[g] = fpc[g] /\ fjob'[g] = fjob[g]
        /\ UNCHANGED <<section, task, jobQueue, held, ready, spc, finished>>
    BY <1>0, <1>3, <2>1 DEF SendDot, crawlVars, schedVars, TypeOK
  <2>3. \A n \in Nodes, m \in 1 .. 6 : JobReached(n, m) => JobReached(n, m)'
    BY <2>2 DEF JobReached
  <2>4. ~JobReached(d, 4)
    BY <2>1, <2>2, ElseNowhere DEF JobReached
  <2>5. JobReached(d, 4)'
    BY <2>2 DEF JobReached
  <2> QED
    BY <2>2, <2>3, <2>4, <2>5, JobStep
<1>4. CASE Check(f) \/ Miss(f)
  BY <1>4 DEF Check, Miss, work, schedVars
<1> QED
  BY <1>1, <1>2, <1>3, <1>4 DEF Finisher

\* The threads poll: completeCurrentJobs, addJobs and finishProcessor go round
\* their loops for as long as there is nothing for them.  All else they do is
\* done once: the task of each node, its job and each parallel section pass a
\* finite number of stages, every step that is not a poll passes one of them,
\* and no step takes a task, a job or a section back.
THEOREM WorkRunsOut ==
    /\ IsFiniteSet(NodeStages) /\ IsFiniteSet(SectionStages)
    /\ Spec => [][Progress \/ UNCHANGED work]_vars
<1>1. IInv /\ TypeOK' /\ [Next]_vars => [Progress \/ UNCHANGED work]_vars
  <2> SUFFICES ASSUME IInv, TypeOK', Next PROVE Progress \/ UNCHANGED work
    OBVIOUS
  <2>1. CASE Team \/ Crawl
    BY <2>1, TeamProgress, CrawlProgress
  <2>2. CASE \E s \in Schedulers : Scheduler(s)
    BY <2>2, SchedulerProgress
  <2>3. CASE \E f \in Finishers : Finisher(f)
    BY <2>3, FinisherProgress
  <2>4. CASE Terminated
    BY <2>4 DEF Terminated, vars, work, schedVars, finishVars
  <2> QED
    BY <2>1, <2>2, <2>3, <2>4 DEF Next
<1>2. Spec => [][Progress \/ UNCHANGED work]_vars
  BY <1>1, SpecInv, TypeCorrect, PTL DEF Spec
<1> QED
  BY <1>2, StagesFinite
=============================================================================
