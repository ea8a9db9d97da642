------------------------------ MODULE Pipeline ------------------------------
(***************************************************************************)
(* The whole of copy2: main starts four parallel sections,                 *)
(*                                                                         *)
(*   "crawl"     walks the source tree with a pool of crawler threads,     *)
(*   "log"       prints statistics until the finish processors are done,   *)
(*   "finish"    is the pool of finish processors, and                     *)
(*   "transfer"  is the pool of transfer threads (see CopyScheduler),      *)
(*                                                                         *)
(* which are run by a team of TeamSize threads and meet at two bounded     *)
(* queues, the flag crawlDone and the flags scheds[i].done.  A job in the  *)
(* finishQueue is a file whose contents and metadata are ready to be put   *)
(* in place, or a directory ("dot" job) whose own metadata is to be set.   *)
(*                                                                         *)
(* A directory opened on the destination is a reference counted FDRC.  Its *)
(* last reference sends the dot job, which holds the one reference left    *)
(* until it is processed, so that the directory is stamped after all that  *)
(* is created in it.                                                       *)
(*                                                                         *)
(* Files with one link only: hard links are left to a module of their own. *)
(***************************************************************************)
EXTENDS Integers, FiniteSets

CONSTANTS
    Dirs,           \* directories of the source tree
    Root,           \* its root
    Files,          \* files of the source tree
    Parent,         \* [(Files \cup Dirs) \ {Root} -> Dirs]
    Schedulers,     \* the transfer threads
    Finishers,      \* the finish processors
    Nothing,        \* no job in hand
    NCrawlers,      \* opts.nCrawlers
    NFileCopyJobs,  \* opts.nFileCopyJobs
    MaxFDs,         \* opts.maxFDs, the capacity of each queue
    TeamSize,       \* threads that run the parallel sections
    Decisions       \* what the crawler may decide of a file or a directory

Nodes == Files \cup Dirs

Sections == <<"crawl", "log", "finish", "transfer">>

ASSUME TreeAssumption ==
    /\ Root \in Dirs /\ IsFiniteSet(Nodes)
    /\ Files \cap Dirs = {} /\ Nothing \notin Nodes
    /\ Parent \in [Nodes \ {Root} -> Dirs]
    /\ \A S \in SUBSET Nodes :   \* the way up ends at the root
          S # {} /\ (\A n \in S \ {Root} : Parent[n] \in S) => Root \in S
ASSUME ThreadsAssumption ==
    /\ Schedulers # {} /\ Finishers # {} /\ IsFiniteSet(Finishers)
    /\ {NCrawlers, NFileCopyJobs, MaxFDs, TeamSize} \subseteq Nat \ {0}
ASSUME DecisionsAssumption ==
    Decisions # {} /\ Decisions \subseteq {"transfer", "metadata", "error"}

VARIABLES
    section,     \* [1 .. 4 -> "waiting", "running" or "done"]
    task,        \* the crawler's task for each node
    rc,          \* FDRC.rc of each opened destination directory
    dst,         \* FDRC.dst: the directory has still to send its dot job
    crawlDone,   \* sharedState->crawlDone
    jobQueue,    \* jobs for the transfer threads
    finishQueue, \* jobs for the finish processors
    spc,         \* where each transfer thread is in its loop
    held,        \* the files in the slots of each transfer thread
    ready,       \* the file each transfer thread is handing over
    fpc,         \* where each finish processor is in its loop
    fjob,        \* the job it has in hand
    fdone,       \* its local variable done
    finished     \* history: nodes the finish processors are through with

crawlVars == <<task, crawlDone>>
refVars == <<rc, dst>>
schedVars == <<spc, held, ready>>
finishVars == <<fpc, fjob, fdone, finished>>
vars == <<section, crawlVars, refVars, jobQueue, finishQueue, schedVars, finishVars>>

----------------------------------------------------------------------------
Children(d) == {n \in Nodes \ {Root} : Parent[n] = d}

Running(name) == \E k \in 1 .. 4 : Sections[k] = name /\ section[k] = "running"

\* A queue has room: its semaphore was initialised to MaxFDs, every enqueue
\* takes a unit and every successful dequeue gives one back.
Room(queue) == Cardinality(queue) < MaxFDs

\* The tasks that occupy a crawler thread: a task that waits for its taskgroup
\* lends its thread to other tasks.
Working == {n \in Nodes : task[n] \in {"listing", "toJobQueue", "toFinishQueue", "dot", "drop"}}

FreeCrawler == Cardinality(Working) < NCrawlers

\* Mutant: the count is looked at after it was decremented.
SendsDotLate(d) == rc[d] = 0 /\ dst[d]

\* A release that finds this is the last reference, and the dot job unsent.
SendsDot(d) == rc[d] = 1 /\ dst[d]

\* Mutant: the flag stays set, so that the dot job sends another one.
ResentDst(d) == dst

\* FDRC.rc and FDRC.dst after the destructor of an FDRCGuard of directory d.
ReleasedRc(d) == [rc EXCEPT ![d] = IF SendsDot(d) THEN 1 ELSE @ - 1]

ReleasedDst(d) == [dst EXCEPT ![d] = dst[d] /\ ~SendsDot(d)]

----------------------------------------------------------------------------
Init ==
    /\ section = [k \in 1 .. 4 |-> "waiting"]
    /\ task = [n \in Nodes |-> IF n = Root THEN "ready" ELSE "none"]
    /\ rc = [d \in Dirs |-> 0]
    /\ dst = [d \in Dirs |-> FALSE]
    /\ crawlDone = FALSE
    /\ jobQueue = {}
    /\ finishQueue = {}
    /\ spc = [s \in Schedulers |-> "complete"]
    /\ held = [s \in Schedulers |-> {}]
    /\ ready = [s \in Schedulers |-> Nothing]
    /\ fpc = [f \in Finishers |-> "check"]
    /\ fjob = [f \in Finishers |-> Nothing]
    /\ fdone = [f \in Finishers |-> FALSE]
    /\ finished = {}

----------------------------------------------------------------------------
\* The parallel sections: a free thread of the team takes the next one.
SectionOver(k) ==
    CASE Sections[k] = "crawl" -> task[Root] = "done"
      [] Sections[k] = "transfer" -> \A s \in Schedulers : spc[s] = "done"
      [] OTHER -> \A f \in Finishers : fpc[f] = "done"

StartSection(k) ==
    /\ section[k] = "waiting"
    /\ \A l \in 1 .. k - 1 : section[l] # "waiting"
    /\ Cardinality({l \in 1 .. 4 : section[l] = "running"}) < TeamSize
    /\ section' = [section EXCEPT ![k] = "running"]
    /\ UNCHANGED <<crawlVars, refVars, jobQueue, finishQueue, schedVars, finishVars>>

EndSection(k) ==
    /\ section[k] = "running"
    /\ SectionOver(k)
    /\ section' = [section EXCEPT ![k] = "done"]
    /\ crawlDone' = (crawlDone \/ Sections[k] = "crawl")
    /\ UNCHANGED <<task, refVars, jobQueue, finishQueue, schedVars, finishVars>>

----------------------------------------------------------------------------
\* The crawler.

\* Start the task of node n: it goes on to state "to".
Starts(n, to) ==
    /\ Running("crawl")
    /\ task[n] = "ready" /\ FreeCrawler
    /\ task' = [task EXCEPT ![n] = to]

\* processDir opens the directory on both sides and begins to list it.
OpenDir(d) ==
    /\ d \in Dirs
    /\ Starts(d, "listing")
    /\ rc' = [rc EXCEPT ![d] = 1]
    /\ dst' = [dst EXCEPT ![d] = TRUE]
    /\ UNCHANGED <<section, crawlDone, jobQueue, finishQueue, schedVars, finishVars>>

\* fdopendir fails: the guard of the directory just opened on the destination
\* has the only reference, and sends the dot job of a directory never listed.
NotListed(d) ==
    /\ "error" \in Decisions /\ d \in Dirs
    /\ Starts(d, "dot")
    /\ rc' = [rc EXCEPT ![d] = 1]
    /\ UNCHANGED <<section, crawlDone, dst, jobQueue, finishQueue, schedVars, finishVars>>

\* processDir or processNonDir gives up on the node and returns.
GiveUp(n) ==
    /\ "error" \in Decisions
    /\ Starts(n, "drop")
    /\ UNCHANGED <<section, crawlDone, refVars, jobQueue, finishQueue, schedVars, finishVars>>

\* Mutant: the children borrow the reference of their directory.
UncountedChild(d) == rc

\* incref on behalf of an entry's task.
CountedChild(d) == [rc EXCEPT ![d] = @ + 1]

\* readdir returns an entry: a task is made for it, with a reference of its own.
ListEntry(n) ==
    /\ n # Root /\ task[n] = "none" /\ task[Parent[n]] = "listing"
    /\ task' = [task EXCEPT ![n] = "ready"]
    /\ rc' = CountedChild(Parent[n])
    /\ UNCHANGED <<section, crawlDone, dst, jobQueue, finishQueue, schedVars, finishVars>>

\* The end of the directory stream: wait for the tasks of the taskgroup.
ListEnd(d) ==
    /\ task[d] = "listing"
    /\ \A n \in Children(d) : task[n] # "none"
    /\ task' = [task EXCEPT ![d] = "waiting"]
    /\ UNCHANGED <<section, crawlDone, refVars, jobQueue, finishQueue, schedVars, finishVars>>

\* The taskgroup is over: processDir closes the stream and releases its own
\* reference to the directory.
DirEnd(d) ==
    /\ task[d] = "waiting" /\ FreeCrawler
    /\ \A n \in Children(d) : task[n] = "done"
    /\ task' = [task EXCEPT ![d] = IF SendsDot(d) THEN "dot" ELSE "drop"]
    /\ rc' = ReleasedRc(d)
    /\ dst' = ReleasedDst(d)
    /\ UNCHANGED <<section, crawlDone, jobQueue, finishQueue, schedVars, finishVars>>

\* The dot job of a directory whose last reference was processDir's.
DirDot(d) ==
    /\ task[d] = "dot" /\ Room(finishQueue)
    /\ finishQueue' = finishQueue \cup {d}
    /\ task' = [task EXCEPT ![d] = "drop"]
    /\ UNCHANGED <<section, crawlDone, refVars, jobQueue, schedVars, finishVars>>

\* processNonDir decides to transfer the file's contents, or finds its size and
\* time unchanged; the job gets a reference of its own.
Transfer(x) ==
    /\ "transfer" \in Decisions /\ x \in Files
    /\ Starts(x, "toJobQueue")
    /\ rc' = CountedChild(Parent[x])
    /\ UNCHANGED <<section, crawlDone, dst, jobQueue, finishQueue, schedVars, finishVars>>

MetadataOnly(x) ==
    /\ "metadata" \in Decisions /\ x \in Files
    /\ Starts(x, "toFinishQueue")
    /\ rc' = CountedChild(Parent[x])
    /\ UNCHANGED <<section, crawlDone, dst, jobQueue, finishQueue, schedVars, finishVars>>

EnqueueJob(x) ==
    /\ task[x] = "toJobQueue" /\ Room(jobQueue)
    /\ jobQueue' = jobQueue \cup {x}
    /\ task' = [task EXCEPT ![x] = "drop"]
    /\ UNCHANGED <<section, crawlDone, refVars, finishQueue, schedVars, finishVars>>

EnqueueFinish(x) ==
    /\ task[x] = "toFinishQueue" /\ Room(finishQueue)
    /\ finishQueue' = finishQueue \cup {x}
    /\ task' = [task EXCEPT ![x] = "drop"]
    /\ UNCHANGED <<section, crawlDone, refVars, jobQueue, schedVars, finishVars>>

\* The task returns: the guard of the parent directory is released.  It is not
\* the last one, as the parent's processDir waits with its own.
TaskEnd(n) ==
    /\ task[n] = "drop"
    /\ task' = [task EXCEPT ![n] = "done"]
    /\ IF n = Root
         THEN UNCHANGED refVars
         ELSE /\ rc' = ReleasedRc(Parent[n])
              /\ dst' = ReleasedDst(Parent[n])
    /\ UNCHANGED <<section, crawlDone, jobQueue, finishQueue, schedVars, finishVars>>

----------------------------------------------------------------------------
\* The transfer threads.

\* Copying is over for a file in a slot of s: its job is to be handed over.
FileCopied(s, x) ==
    /\ Running("transfer")
    /\ spc[s] = "complete" /\ x \in held[s]
    /\ spc' = [spc EXCEPT ![s] = "handing"]
    /\ ready' = [ready EXCEPT ![s] = x]
    /\ UNCHANGED <<section, crawlVars, refVars, jobQueue, finishQueue, held, finishVars>>

HandOver(s) ==
    /\ spc[s] = "handing" /\ Room(finishQueue)
    /\ finishQueue' = finishQueue \cup {ready[s]}
    /\ held' = [held EXCEPT ![s] = @ \ {ready[s]}]
    /\ spc' = [spc EXCEPT ![s] = "complete"]
    /\ ready' = [ready EXCEPT ![s] = Nothing]
    /\ UNCHANGED <<section, crawlVars, refVars, jobQueue, finishVars>>

CompleteEnd(s) ==
    /\ Running("transfer")
    /\ spc[s] = "complete"
    /\ spc' = [spc EXCEPT ![s] = "fill"]
    /\ UNCHANGED <<section, crawlVars, refVars, jobQueue, finishQueue, held, ready, finishVars>>

Take(s, x) ==
    /\ spc[s] = "fill"
    /\ Cardinality(held[s]) < NFileCopyJobs
    /\ x \in jobQueue
    /\ jobQueue' = jobQueue \ {x}
    /\ held' = [held EXCEPT ![s] = @ \cup {x}]
    /\ UNCHANGED <<section, crawlVars, refVars, finishQueue, spc, ready, finishVars>>

\* All slots are taken, or the dequeue misses.
FillEnd(s) ==
    /\ spc[s] = "fill"
    /\ Cardinality(held[s]) = NFileCopyJobs \/ jobQueue = {}
    /\ spc' = [spc EXCEPT ![s] = "exit"]
    /\ UNCHANGED <<section, crawlVars, refVars, jobQueue, finishQueue, held, ready, finishVars>>

ExitTest(s) ==
    /\ spc[s] = "exit"
    /\ spc' = [spc EXCEPT ![s] = IF held[s] = {} /\ crawlDone THEN "done" ELSE "complete"]
    /\ UNCHANGED <<section, crawlVars, refVars, jobQueue, finishQueue, held, ready, finishVars>>

----------------------------------------------------------------------------
\* The finish processors.
SchedulersDone == \A s \in Schedulers : spc[s] = "done"

\* finishProcessor reads scheds[i].done before it drains the queue.
Check(f) ==
    /\ Running("finish")
    /\ fpc[f] = "check"
    /\ fdone' = [fdone EXCEPT ![f] = SchedulersDone]
    /\ fpc' = [fpc EXCEPT ![f] = "drain"]
    /\ UNCHANGED <<section, crawlVars, refVars, jobQueue, finishQueue, schedVars, fjob, finished>>

Dequeue(f, j) ==
    /\ fpc[f] = "drain"
    /\ j \in finishQueue
    /\ finishQueue' = finishQueue \ {j}
    /\ fjob' = [fjob EXCEPT ![f] = j]
    /\ fpc' = [fpc EXCEPT ![f] = "process"]
    /\ UNCHANGED <<section, crawlVars, refVars, jobQueue, schedVars, fdone, finished>>

\* Mutant: a finish processor goes home with the crawlers.
LeavesAfterCrawl(f) == crawlDone

\* Whether the finish processor leaves its loop after a dequeue missed.
MayLeave(f) == fdone[f]

Miss(f) ==
    /\ fpc[f] = "drain"
    /\ finishQueue = {}
    /\ fpc' = [fpc EXCEPT ![f] = IF MayLeave(f) THEN "done" ELSE "check"]
    /\ UNCHANGED <<section, crawlVars, refVars, jobQueue, finishQueue, schedVars, fjob, fdone,
                   finished>>

\* The directory whose guard finishProcessorOne holds: a dot job's is its own.
JobDir(j) == IF j \in Dirs THEN j ELSE Parent[j]

\* finishProcessorOne: put the file in place, or stamp the directory, and
\* release the job's reference.
Process(f) ==
    LET j == fjob[f]
        d == JobDir(j)
    IN  /\ fpc[f] = "process"
        /\ finished' = finished \cup {j}
        /\ rc' = ReleasedRc(d)
        /\ dst' = ReleasedDst(d)
        /\ fpc' = [fpc EXCEPT ![f] = IF SendsDot(d) THEN "dot" ELSE "drain"]
        /\ fjob' = [fjob EXCEPT ![f] = IF SendsDot(d) THEN d ELSE Nothing]
        /\ UNCHANGED <<section, crawlVars, jobQueue, finishQueue, schedVars, fdone>>

\* The destructor of the guard sends the dot job; it waits while the queue is
\* full, as any producer does.
SendDot(f) ==
    /\ fpc[f] = "dot" /\ Room(finishQueue)
    /\ finishQueue' = finishQueue \cup {fjob[f]}
    /\ fpc' = [fpc EXCEPT ![f] = "drain"]
    /\ fjob' = [fjob EXCEPT ![f] = Nothing]
    /\ UNCHANGED <<section, crawlVars, refVars, jobQueue, schedVars, fdone, finished>>

----------------------------------------------------------------------------
Returned == \A k \in 1 .. 4 : section[k] = "done"

Terminated == Returned /\ UNCHANGED vars

Team == \E k \in 1 .. 4 : StartSection(k) \/ EndSection(k)

CrawlTask(n) ==
    \/ OpenDir(n) \/ NotListed(n) \/ GiveUp(n) \/ ListEnd(n) \/ DirEnd(n) \/ DirDot(n)
    \/ Transfer(n) \/ MetadataOnly(n) \/ EnqueueJob(n) \/ EnqueueFinish(n)
    \/ TaskEnd(n)

Crawl == \E n \in Nodes : ListEntry(n) \/ CrawlTask(n)

Scheduler(s) ==
    \/ \E x \in Files : FileCopied(s, x) \/ Take(s, x)
    \/ HandOver(s) \/ CompleteEnd(s) \/ FillEnd(s) \/ ExitTest(s)

Finisher(f) ==
    \/ Check(f) \/ Miss(f) \/ Process(f) \/ SendDot(f)
    \/ \E j \in Nodes : Dequeue(f, j)

Next ==
    \/ Team
    \/ Crawl
    \/ \E s \in Schedulers : Scheduler(s)
    \/ \E f \in Finishers : Finisher(f)
    \/ Terminated

Spec == Init /\ [][Next]_vars

----------------------------------------------------------------------------
(***************************************************************************)
(* Invariants.                                                             *)
(***************************************************************************)
\* Every variable has its type; FDRC.rc, a size_t, never falls below zero.
TypeOK ==
    /\ section \in [1 .. 4 -> {"waiting", "running", "done"}]
    /\ task \in [Nodes -> {"none", "ready", "listing", "waiting", "toJobQueue",
                           "toFinishQueue", "dot", "drop", "done"}]
    /\ rc \in [Dirs -> Nat]
    /\ dst \in [Dirs -> BOOLEAN]
    /\ crawlDone \in BOOLEAN
    /\ jobQueue \in SUBSET Files
    /\ finishQueue \in SUBSET Nodes
    /\ spc \in [Schedulers -> {"complete", "handing", "fill", "exit", "done"}]
    /\ held \in [Schedulers -> SUBSET Files]
    /\ ready \in [Schedulers -> Files \cup {Nothing}]
    /\ fpc \in [Finishers -> {"check", "drain", "process", "dot", "done"}]
    /\ fjob \in [Finishers -> Nodes \cup {Nothing}]
    /\ fdone \in [Finishers -> BOOLEAN]
    /\ finished \in SUBSET Nodes

One(b) == IF b THEN 1 ELSE 0

\* How many jobs node n has: with its task, in a queue, in a slot of a transfer
\* thread or in the hands of a finish processor.
JobsUnderway(n) ==
    One(task[n] \in {"toJobQueue", "toFinishQueue", "dot"})
    + One(n \in jobQueue)
    + One(n \in finishQueue)
    + Cardinality({s \in Schedulers : n \in held[s]})
    + Cardinality({f \in Finishers : fjob[f] = n})

\* A directory's entries have all been listed, or none has.
Listed(d) == \A n \in Children(d) : task[n] # "none"

Unlisted(d) == \A n \in Children(d) : task[n] = "none"

\* A node has at most one job ever, in one place, and is finished once.  A
\* directory has its dot job only when its own task is through with it and no
\* entry can still come; and it does have it if it was listed and its last other
\* reference is gone.  (A directory that could not be listed may have it too;
\* an empty one looks the same if it was given up.)
JobsInOnePlace ==
    /\ \A n \in Nodes : JobsUnderway(n) + One(n \in finished) <= 1
    /\ \A d \in Dirs :
          LET sent == JobsUnderway(d) + One(d \in finished) = 1
              over == ~dst[d] /\ task[d] \in {"dot", "drop", "done"}
          IN  /\ sent => over /\ (Listed(d) \/ Unlisted(d))
              /\ Children(d) # {} /\ Listed(d) /\ over => sent

\* FDRC.rc counts the references of a directory exactly: that of its processDir,
\* one for each of its entries' tasks, one for each of its files' jobs and that
\* of its dot job.  One too few closes a descriptor in use, one too many leaks
\* it and never stamps the directory.
RefsExact ==
    \A d \in Dirs :
        rc[d] = One(task[d] \in {"listing", "waiting"})
                + Cardinality({n \in Children(d) : task[n] \notin {"none", "done"}})
                + Cardinality({n \in (Children(d) \cap Files) \cup {d} : JobsUnderway(n) > 0})

\* When the finish processors have gone home nothing is left for them to do,
\* and nothing will come: the transfer threads are idle and the crawl is over.
NothingAfterFinish ==
    (\A f \in Finishers : fpc[f] = "done") =>
        /\ finishQueue = {}
        /\ \A s \in Schedulers : held[s] = {}
        /\ \A n \in Nodes : task[n] \in {"none", "done"}

\* At the end a directory is closed and stamped, unless a job in it was left in
\* the jobQueue.
DirsClosed ==
    Returned => \A d \in Dirs :
        \/ rc[d] = 0 /\ ~dst[d]
        \/ \E x \in jobQueue : Parent[x] = d

\* At the end every file that was to be transferred has been.
NoJobLeft == Returned => jobQueue = {}

----------------------------------------------------------------------------
(***************************************************************************)
(* Action properties.                                                      *)
(***************************************************************************)
\* A step puts node n into its parent directory on the destination.
Creates(n) ==
    \/ n \in Files /\ n \notin finished /\ n \in finished'
    \/ n \in Dirs /\ task[n] = "ready" /\ task'[n] # "ready"

\* Nothing is created in a directory once its times have been set.
DirsStampedLast ==
    [][\A n \in Nodes \ {Root} : Creates(n) => Parent[n] \notin finished]_vars

----------------------------------------------------------------------------
(***************************************************************************)
(* Fairness and liveness.  Every thread runs, and every file in a slot is  *)
(* copied some day (CopyScheduler, TakenFilesFinish).                      *)
(***************************************************************************)
FairSpec ==
    /\ Spec
    /\ \A k \in 1 .. 4 : WF_vars(StartSection(k) \/ EndSection(k))
    /\ \A n \in Nodes : WF_vars(CrawlTask(n)) /\ WF_vars(ListEntry(n))
    /\ \A s \in Schedulers : WF_vars(Scheduler(s))
    /\ \A s \in Schedulers, x \in Files : SF_vars(FileCopied(s, x))
    /\ \A f \in Finishers : WF_vars(Finisher(f))

\* main returns.
MainReturns == <>Returned

=============================================================================
