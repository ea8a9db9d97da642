---------------------------- MODULE Descriptors ----------------------------
(***************************************************************************)
(* The budget of file descriptors, --max-FDs: every open takes a unit of   *)
(* the semaphore fdSem or waits for one, every close gives one back        *)
(* (syscalls.h:181-243).  A directory takes three while its tasks run: its *)
(* own, a duplicate for the tasks to open sources by, and the one of the   *)
(* destination, which is closed when its last file has been finished       *)
(* (processDir; one more under --sync, closed before the last is opened).  *)
(* A file takes two, from its crawler task to its finish processor, which  *)
(* closes both before it removes what is in the way of the rename.         *)
(* Removing a directory takes one while it is listed.                      *)
(*                                                                         *)
(* The first of a file's hard links that is looked at is the root, and has *)
(* the job; the others wait for its transfer, and their directories on the *)
(* destination stay open with them (HLinkInfo.links).  A linkat that fails *)
(* with the locks in hand, and a file that is copied under two names, are  *)
(* HLinkState's.                                                           *)
(*                                                                         *)
(* Any call may fail.  What processDir returns early with it keeps; a      *)
(* fdopendir that fails gives a unit back for a descriptor that stays      *)
(* open.  References to a directory's descriptors are not counted here     *)
(* (Pipeline does that): its source's is closed when processDir returns,   *)
(* for its tasks have ended, the destination's behind its last job and its *)
(* last name that waits.  The descriptors of the two roots take no unit.   *)
(***************************************************************************)
EXTENDS Naturals, FiniteSets

CONSTANTS Dirs,       \* directories of the source, the root of the tree too
          Files,      \* the names of its regular files
          Inode,      \* [Files -> the file a name is a link to]
          Top,        \* the root directory
          Parent,     \* the directory of a file, or of a directory but Top
          Extras,     \* directories that only the destination has
          ExtraIn,    \* the directory of the source they are in
          Blocked,    \* files in whose place the destination has a directory
          Sync,       \* --sync
          Crawlers,   \* --crawlers
          Finishers,  \* --finish-processors
          Budgets,    \* --max-FDs
          MaxFaults

ASSUME TreeAssumption ==
    /\ IsFiniteSet(Dirs) /\ IsFiniteSet(Files) /\ IsFiniteSet(Extras) /\ Top \in Dirs
    /\ Parent \in [(Dirs \cup Files) \ {Top} -> Dirs]
    /\ ExtraIn \in [Extras -> Dirs] /\ Blocked \subseteq Files
    /\ Inode \in [Files -> {Inode[f] : f \in Files}]
    /\ Dirs \cap Files = {} /\ Extras \cap (Dirs \cup Files) = {}
ASSUME RootAssumption ==   \* the way up ends at the root
    \A S \in SUBSET Dirs : S # {} /\ (\A d \in S \ {Top} : Parent[d] \in S) => Top \in S
ASSUME OptionAssumption ==
    /\ Sync \in BOOLEAN /\ Budgets \subseteq Nat
    /\ Crawlers \in Nat \ {0} /\ Finishers \in Nat \ {0} /\ MaxFaults \in Nat

VARIABLES maxFDs,   \* the option
          fdSem,    \* the semaphore
          fds,      \* open descriptors: <<who holds it, which of its own>>
          at,       \* directory, file or extra -> what it does next
          info,     \* HLinkInfo of each inode: is there a root, is it transferred
          lost,     \* history: units taken for nothing
          excess,   \* history: units given back for what stays open
          faults
vars == <<maxFDs, fdSem, fds, at, info, lost, excess, faults>>

Inodes == {Inode[f] : f \in Files}
Nodes == Dirs \cup Files \cup Extras
Children(d) == {n \in (Dirs \cup Files) \ {Top} : Parent[n] = d}
ExtrasIn(d) == {e \in Extras : ExtraIn[e] = d}

\* No task any more, and no job.
Ended(n) == at[n] \in {"ended", "failed"}
TaskOver(n) == Ended(n) \/ at[n] \in {"job", "stamp", "old", "removing", "pending"}

\* A crawler thread that waits for a group of tasks runs others meanwhile.
Running == {n \in Nodes : ~TaskOver(n) /\ at[n] \notin {"none", "task", "group", "prune"}}
CanRun(n) == n \in Running \/ Cardinality(Running) < Crawlers

\* A finish processor does one job after another, and waits like a crawler
\* when it is to remove a directory.
CanFinish == Cardinality({f \in Files : at[f] \in {"old", "removing"}}) < Finishers

Fault == faults < MaxFaults /\ faults' = faults + 1
Goto(n, where) == at' = [at EXCEPT ![n] = where]

Init ==
    /\ maxFDs \in Budgets /\ fdSem = maxFDs
    /\ fds = {}
    /\ at = [n \in Nodes |-> IF n = Top THEN "task" ELSE "none"]
    /\ info = [i \in Inodes |-> "none"]
    /\ lost = 0 /\ excess = 0 /\ faults = 0

----------------------------------------------------------------------------
(* syscalls.h.                                                             *)

\* Mutant: the unit of a failed open is kept.
OpenFailsKeeps ==
    /\ fdSem > 0 /\ Fault
    /\ fdSem' = fdSem - 1
    /\ UNCHANGED <<fds, lost, excess>>

\* openat_wrapper: waits for a unit; a failed open gives it back.
Opened(n, kind) ==
    /\ fdSem > 0
    /\ fdSem' = fdSem - 1
    /\ fds' = fds \cup {<<n, kind>>}
    /\ UNCHANGED <<lost, excess, faults>>
OpenFails ==
    /\ fdSem > 0 /\ Fault
    /\ UNCHANGED <<fdSem, fds, lost, excess>>

\* close_wrapper and closedir_wrapper, of several descriptors of n.
Closed(n, kinds) ==
    /\ fds' = fds \ ({n} \X kinds)
    /\ fdSem' = fdSem + Cardinality(kinds)
    /\ UNCHANGED <<lost, excess>>

\* fdopendir_wrapper gives a unit back and leaves the descriptor open.
FdopendirFails ==
    /\ Fault
    /\ fdSem' = fdSem + 1 /\ excess' = excess + 1
    /\ UNCHANGED <<fds, lost>>

----------------------------------------------------------------------------
(* processDir.                                                             *)
OpenDir(d) ==
    /\ at[d] = "task" /\ CanRun(d)
    /\ \/ Opened(d, "dir") /\ Goto(d, "stat")
       \/ OpenFails /\ Goto(d, "failed")
    /\ UNCHANGED <<maxFDs, info>>

\* The statx, the comparison of devices and the mkdirat: what goes wrong here
\* ends the task with the descriptor open. So does another device.
StatDir(d) ==
    /\ at[d] = "stat"
    /\ \/ Goto(d, "dup") /\ UNCHANGED faults
       \/ Fault /\ Goto(d, "failed")
    /\ UNCHANGED <<maxFDs, fdSem, fds, info, lost, excess>>

\* dup, behind a wait of its own: a failure costs the unit.
DupDir(d) ==
    /\ at[d] = "dup"
    /\ \/ Opened(d, "src") /\ Goto(d, IF Sync THEN "list" ELSE "dst")
       \/ /\ fdSem > 0 /\ Fault
          /\ fdSem' = fdSem - 1 /\ lost' = lost + 1
          /\ Goto(d, "failed")
          /\ UNCHANGED <<fds, excess>>
    /\ UNCHANGED <<maxFDs, info>>

\* --sync: the destination is opened to list what is not on the source.
OpenExtras(d) ==
    /\ at[d] = "list"
    /\ \/ Opened(d, "prune") /\ Goto(d, "read")
       \/ OpenFails /\ Goto(d, "failed")
    /\ UNCHANGED <<maxFDs, info>>

\* It is listed and closed, and each entry gets a task that removes it.
ListExtras(d) ==
    /\ at[d] = "read"
    /\ \/ /\ Closed(d, {"prune"})
          /\ at' = [n \in Nodes |-> IF n = d THEN "prune"
                                    ELSE IF n \in ExtrasIn(d) THEN "task"
                                    ELSE at[n]]
          /\ UNCHANGED faults
       \/ FdopendirFails /\ Goto(d, "failed")
    /\ UNCHANGED <<maxFDs, info>>

Pruned(d) ==
    /\ at[d] = "prune" /\ CanRun(d)
    /\ \A e \in ExtrasIn(d) : Ended(e)
    /\ Goto(d, "dst")
    /\ UNCHANGED <<maxFDs, fdSem, fds, info, lost, excess, faults>>

OpenDst(d) ==
    /\ at[d] = "dst"
    /\ \/ Opened(d, "dst") /\ Goto(d, "crawl")
       \/ OpenFails /\ Goto(d, "failed")
    /\ UNCHANGED <<maxFDs, info>>

\* The directory is read and each entry gets a task. If fdopendir fails the
\* guards close the source's, and send the job that closes the destination's.
Crawl(d) ==
    /\ at[d] = "crawl"
    /\ \/ /\ at' = [n \in Nodes |-> IF n = d THEN "group"
                                    ELSE IF n \in Children(d) THEN "task"
                                    ELSE at[n]]
          /\ UNCHANGED <<fdSem, fds, lost, excess, faults>>
       \/ /\ Fault
          /\ fds' = fds \ {<<d, "src">>}
          /\ fdSem' = fdSem + 2 /\ excess' = excess + 1
          /\ Goto(d, "job")
          /\ UNCHANGED lost
    /\ UNCHANGED <<maxFDs, info>>

\* The tasks have ended: the directory is closed, and its source's duplicate.
Crawled(d) ==
    /\ at[d] = "group" /\ CanRun(d)
    /\ \A n \in Children(d) : TaskOver(n)
    /\ Closed(d, {"dir", "src"})
    /\ Goto(d, "job")
    /\ UNCHANGED <<maxFDs, info, faults>>

\* Mutant: the dot job does not wait for the names that wait for their root.
CloseDirBehindJobs(d) ==
    /\ at[d] = "job" /\ CanFinish
    /\ \A n \in Children(d) : n \in Files => at[n] \in {"none", "pending"} \/ Ended(n)
    /\ Closed(d, {"dst"})
    /\ Goto(d, "ended")
    /\ UNCHANGED <<maxFDs, info, faults>>

\* Behind the last job of an entry, and the last name that waits for its root,
\* comes the directory's dot job.
CloseDir(d) ==
    /\ at[d] = "job" /\ CanFinish
    /\ \A n \in Children(d) : n \in Files => at[n] = "none" \/ Ended(n)
    /\ Closed(d, {"dst"})
    /\ Goto(d, "ended")
    /\ UNCHANGED <<maxFDs, info, faults>>

----------------------------------------------------------------------------
(* processNonDir and finishProcessorOne.                                   *)

\* A failure before the name is registered, or a name that is linked to its root:
\* it was before, or it is now, as the root has been transferred.
SkipFile(f) ==
    /\ at[f] = "task" /\ CanRun(f)
    /\ Goto(f, "ended")
    /\ UNCHANGED <<maxFDs, fdSem, fds, info, lost, excess, faults>>

\* The first name of its file is the root: it is to be transferred, or has all but
\* its metadata and gets a job without descriptors.
BecomeRoot(f) ==
    /\ at[f] = "task" /\ CanRun(f)
    /\ info[Inode[f]] = "none"
    /\ info' = [info EXCEPT ![Inode[f]] = "waiting"]
    /\ Goto(f, "opening") \/ Goto(f, "stamp")
    /\ UNCHANGED <<maxFDs, fdSem, fds, lost, excess, faults>>

\* Another name waits for the root, with a reference to its directory.
WaitForRoot(f) ==
    /\ at[f] = "task" /\ CanRun(f)
    /\ info[Inode[f]] = "waiting"
    /\ Goto(f, "pending")
    /\ UNCHANGED <<maxFDs, fdSem, fds, info, lost, excess, faults>>

OpenSource(f) ==
    /\ at[f] = "opening"
    /\ \/ Opened(f, "in") /\ Goto(f, "open")
       \/ OpenFails /\ Goto(f, "failed")
    /\ UNCHANGED <<maxFDs, info>>

OpenPartial(f) ==
    /\ at[f] = "open"
    /\ \/ Opened(f, "out") /\ Goto(f, "space")
       \/ fdSem > 0 /\ Fault /\ Closed(f, {"in"}) /\ Goto(f, "ended")
    /\ UNCHANGED <<maxFDs, info>>

\* The ftruncate, and the job: transferred without further descriptors.
EnqueueFile(f) ==
    /\ at[f] = "space"
    /\ \/ Goto(f, "job") /\ UNCHANGED <<fdSem, fds, lost, excess, faults>>
       \/ Fault /\ Closed(f, {"in", "out"}) /\ Goto(f, "ended")
    /\ UNCHANGED <<maxFDs, info>>

Waiting(f) == {m \in Files : at[m] = "pending" /\ Inode[m] = Inode[f]}

\* Mutant: the names are linked and never released.
HandOverKeeps(f) ==
    /\ Goto(f, "ended")
    /\ info' = [info EXCEPT ![Inode[f]] = "transferred"]
    /\ UNCHANGED faults

\* hlinkStateHandleTransfer: the names that wait for f are linked, or fail to be;
\* either way their references are released.
HandOver(f) ==
    /\ at' = [n \in Nodes |-> IF n = f \/ n \in Waiting(f) THEN "ended" ELSE at[n]]
    /\ info' = [info EXCEPT ![Inode[f]] = "transferred"]
    /\ UNCHANGED faults

\* The job fails before that: those names wait for ever.
GiveUp(f) == Fault /\ Goto(f, "ended") /\ UNCHANGED info

\* Mutant: the file is closed behind its rename.
FinishFileLate(f) ==
    /\ at[f] = "job" /\ CanFinish
    /\ IF f \in Blocked
       THEN Goto(f, "old") /\ UNCHANGED <<fdSem, fds, info, lost, excess, faults>>
       ELSE Closed(f, {"in", "out"}) /\ (HandOver(f) \/ GiveUp(f))
    /\ UNCHANGED maxFDs

FinishFile(f) ==
    /\ at[f] = "job" /\ CanFinish
    /\ Closed(f, {"in", "out"})
    /\ \/ f \in Blocked /\ Goto(f, "old") /\ UNCHANGED <<info, faults>>
       \/ f \notin Blocked /\ HandOver(f)
       \/ GiveUp(f)
    /\ UNCHANGED maxFDs

FinishStamp(f) ==
    /\ at[f] = "stamp" /\ CanFinish
    /\ HandOver(f) \/ GiveUp(f)
    /\ UNCHANGED <<maxFDs, fdSem, fds, lost, excess>>

----------------------------------------------------------------------------
\* recursiveRemove, of an extra or of what is in the way of a file: the
\* directory is opened to be listed, and closed before its entries are removed.
RemoveOpen(n) ==
    /\ \/ n \in Extras /\ at[n] = "task" /\ CanRun(n)
       \/ n \in Files /\ at[n] = "old"
    /\ \/ Opened(n, "old") /\ Goto(n, "removing")
       \/ OpenFails /\ Goto(n, "failed")
    /\ UNCHANGED <<maxFDs, info>>

\* Behind the removal the file is put in its place, if it can be now.
RemoveList(n) ==
    /\ at[n] = "removing"
    /\ \/ /\ Closed(n, {"old"})
          /\ \/ n \in Extras /\ Goto(n, "ended") /\ UNCHANGED <<info, faults>>
             \/ n \in Files /\ (HandOver(n) \/ GiveUp(n))
       \/ FdopendirFails /\ Goto(n, "failed") /\ UNCHANGED info
    /\ UNCHANGED maxFDs

Next ==
    \/ \E d \in Dirs :
          \/ OpenDir(d) \/ StatDir(d) \/ DupDir(d)
          \/ OpenExtras(d) \/ ListExtras(d) \/ Pruned(d)
          \/ OpenDst(d) \/ Crawl(d) \/ Crawled(d) \/ CloseDir(d)
    \/ \E f \in Files :
          \/ SkipFile(f) \/ BecomeRoot(f) \/ WaitForRoot(f)
          \/ OpenSource(f) \/ OpenPartial(f) \/ EnqueueFile(f)
          \/ FinishFile(f) \/ FinishStamp(f)
    \/ \E n \in Files \cup Extras : RemoveOpen(n) \/ RemoveList(n)

Spec == Init /\ [][Next]_vars

\* The threads run. Whoever waits for a unit need not be the one that gets it:
\* there are only so many steps to take.
FairSpec == Spec /\ WF_vars(Next)

----------------------------------------------------------------------------
(* Properties.                                                             *)

Places == {"none", "task", "stat", "dup", "list", "read", "prune", "dst", "crawl",
           "group", "opening", "open", "space", "job", "stamp", "pending", "old", "removing",
           "ended", "failed"}
Kinds == {"dir", "src", "prune", "dst", "in", "out", "old"}

\* The state has its type, and no unit is given back that was not taken.
TypeOK ==
    /\ maxFDs \in Budgets /\ fdSem \in 0 .. maxFDs + excess
    /\ fds \subseteq Nodes \X Kinds
    /\ at \in [Nodes -> Places]
    /\ info \in [Inodes -> {"none", "waiting", "transferred"}]
    /\ lost \in Nat /\ excess \in Nat /\ faults \in 0 .. MaxFaults

\* The semaphore counts what is open (syscalls.h:181-243), so that no more is
\* open than --max-FDs says, but for what a failed dup (copy2.cpp:990) took for
\* nothing and a failed fdopendir (syscalls.h:232) gave back too early.
BudgetExact == fdSem + Cardinality(fds) + lost = maxFDs + excess

\* Whoever is at work in a directory finds its descriptors open: its tasks both,
\* the finish processor of a file the destination's (copy2.cpp:1172), and so does
\* the root of a name that waits, whose guard looks at it (hlinkstate.cpp:488).
StillOpen ==
    \A n \in (Dirs \cup Files) \ {Top} :
        /\ ~TaskOver(n) /\ at[n] # "none" => <<Parent[n], "src">> \in fds
        /\ ~Ended(n) /\ at[n] # "none" /\ (n \in Files \/ ~TaskOver(n))
              => <<Parent[n], "dst">> \in fds

\* A directory that names in it keep open, which wait for their roots.
Held(d) == at[d] = "job" /\ \E f \in Files : at[f] = "pending" /\ Parent[f] = d
HeldDirs == {d \in Dirs : Held(d)}

\* All is over, but for what waits for a root that will never be transferred.
AtRest(n) == at[n] = "none" \/ Ended(n) \/ at[n] = "pending" \/ n \in HeldDirs

\* In the end only what processDir left open when it returned early is open
\* (copy2.cpp:956-1099), a descriptor whose fdopendir failed, and the directories
\* of the names whose root failed behind its registration (copy2.cpp:831, 1218).
\* No failure costs more than two units but for these; and nobody waits for a
\* root if nothing failed.
AllClosed ==
    (\A n \in Nodes : AtRest(n)) =>
        /\ \A fd \in fds : fd[1] \in Dirs \/ fd[2] = "old"
        /\ maxFDs <= fdSem + 2 * faults + Cardinality(HeldDirs)
        /\ \A f \in Files : at[f] = "pending" => faults > 0

\* What can be held while nobody can go on: three by a directory; and by the
\* files, under one name each, one for each crawler that waits to open the partial
\* or, when every finish processor waits to remove a directory, two by each other.
Smaller(a, b) == IF a < b THEN a ELSE b
HeldInWait ==
    LET n == Cardinality(Inodes)
        open == Smaller(Crawlers, n)
        behind == IF Cardinality(Blocked) < Finishers THEN 0 ELSE 2 * (n - Finishers)
    IN  3 * Cardinality(Dirs) + IF open < behind THEN behind ELSE open

\* With more than that nobody waits for a descriptor for ever (sem_wait,
\* syscalls.h:219): whatever fails and is left open, every task and every job
\* comes to its end, but for the names whose root failed.
EveryoneEnds ==
    maxFDs > HeldInWait ~> \A n \in Nodes : AtRest(n)
============================================================================
