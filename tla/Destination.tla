---------------------------- MODULE Destination ----------------------------
(***************************************************************************)
(* What happens to the entries of one destination directory over any       *)
(* number of runs of copy2 that may be interrupted: the crawler's decision *)
(* (processNonDir), the file's contents arriving in a partial file beside  *)
(* it, the finish processor's chain of system calls (finishProcessorOne),  *)
(* the removal of a tree that is in the way or, under --sync, not on the   *)
(* source (recursiveRemove), each of which may fail, while the source      *)
(* changes.                                                                *)
(*                                                                         *)
(* Names have one link on either side (HLinkState has the others), source  *)
(* subdirectories are empty, and destination subdirectories hold Kids.     *)
(* The contents, and what a file shows of them (size and whole seconds of  *)
(* mtime: its key), are tagged versions of the source.                     *)
(***************************************************************************)
EXTENDS Naturals, FiniteSets

CONSTANTS Names,        \* entries that the source may have in the directory
          Kids,         \* what a directory in the place of a name may hold
          KidParent,    \* the name or directory of Kids that holds it
          KidDirs,      \* the kids that are directories
          Sparse,       \* --sparse
          Holey,        \* names whose contents have blocks of zeros
          OtherOwner,   \* names that do not belong to who runs copy2
          SetId,        \* names whose mode has bits that chown takes
          SrcKinds,     \* what the source may make of a name
          OldKinds,     \* what the destination has for a name at first
          Outcomes,     \* what a transfer may come to
          MaxFaults, MaxCrashes, MaxChanges

ASSUME TreeAssumption ==
    /\ IsFiniteSet(Names) /\ IsFiniteSet(Kids)
    /\ Names \cap Kids = {}
    /\ \A n \in Names : <<n, "partial">> \notin Names \cup Kids
    /\ KidDirs \subseteq Kids
    /\ KidParent \in [Kids -> Names \cup KidDirs]
    /\ \A k \in KidDirs : KidParent[k] \in Names

ASSUME OptionAssumption ==
    /\ Sparse \in BOOLEAN
    /\ Holey \cup OtherOwner \cup SetId \subseteq Names
    /\ SrcKinds \subseteq {"file", "dir", "gone"}
    /\ OldKinds \subseteq {"absent", "dir", "other", "same"}
    /\ "good" \in Outcomes /\ Outcomes \subseteq {"good", "errors", "silent"}
    /\ MaxFaults \in Nat /\ MaxCrashes \in Nat /\ MaxChanges \in Nat

VARIABLES sync,     \* --sync
          src,      \* name -> what the source has, its version and its key
          dst,      \* entry of the destination -> what is there
          dirpc,    \* where processDir is: off, sync, prune, crawl or done
          pc,       \* name -> where its task or its job is
          job,      \* name -> the FileCopyJob
          rm,       \* entry -> its recursiveRemove: none, task or listed
          faults, crashes, changes,
          calm      \* nothing failed and nothing changed since the run began
vars == <<sync, src, dst, dirpc, pc, job, rm, faults, crashes, changes, calm>>

Part(n) == <<n, "partial">>
Entries == Names \cup {Part(n) : n \in Names}
Nodes == Entries \cup Kids
Children(p) == {k \in Kids : KidParent[k] = p}

\* Tags of contents and keys. A partial shows the time of its writing.
Version(v) == <<"src", v>>
Other == <<"other", 0>>
Now == <<"now", 0>>
Part0 == <<"part", 0>>      \* not all of the contents yet
Torn == <<"torn", 0>>       \* read while the source changed
Bad == <<"bad", 0>>         \* damaged, and the errors are counted
Lost == <<"lost", 0>>       \* damaged, and nobody knows

Absent == [kind |-> "absent"]
Dir == [kind |-> "dir"]
FileRec(data, key, owner, mode) ==
    [kind |-> "file", data |-> data, key |-> key, owner |-> owner,
     mode |-> mode]

NoJob == [ver |-> 0, key |-> 0, meta |-> FALSE, stale |-> FALSE,
          errors |-> FALSE, seen |-> Absent]

\* The decision of processNonDir: absent, or another size or mtime.
Wanted(n) == ~(dst[n].kind = "file" /\ dst[n].key = Version(src[n].key))

\* What the openat with O_CREAT makes of the partial: the umask may take bits
\* of the mode.
NewPartials(n) == {FileRec(Part0, Now, n \notin OtherOwner, m) : m \in BOOLEAN}

\* A system call fails; or all of a step's calls do what they should.
Fault == /\ faults < MaxFaults
         /\ faults' = faults + 1
         /\ calm' = FALSE
NoFault == UNCHANGED <<faults, calm>>

Goto(n, where) == pc' = [pc EXCEPT ![n] = where]

----------------------------------------------------------------------------
OldEntry(kind) ==
    CASE kind = "absent" -> {Absent}
      [] kind = "dir"    -> {Dir}
      [] kind = "other"  -> {FileRec(Other, Other, TRUE, TRUE)}
      [] kind = "same"   -> {FileRec(Version(0), Version(0), o, m) :
                               o, m \in BOOLEAN}

Init ==
    /\ sync \in BOOLEAN
    /\ src \in [Names -> [kind : SrcKinds, ver : {0}, key : {0}]]
    /\ \E old \in [Names -> UNION {OldEntry(k) : k \in OldKinds}] :
          /\ dst = [p \in Nodes |->
                      IF p \in Names THEN old[p]
                      ELSE IF p \notin Kids THEN Absent
                      ELSE IF \E n \in Names : \/ KidParent[p] = n /\ old[n] = Dir
                                               \/ /\ KidParent[p] \in KidDirs
                                                  /\ KidParent[KidParent[p]] = n
                                                  /\ old[n] = Dir
                           THEN IF p \in KidDirs THEN Dir
                                ELSE FileRec(Other, Other, TRUE, TRUE)
                           ELSE Absent]
    /\ dirpc = "off"
    /\ pc = [n \in Names |-> "idle"]
    /\ job = [n \in Names |-> NoJob]
    /\ rm = [p \in Nodes |-> "none"]
    /\ faults = 0 /\ crashes = 0 /\ changes = 0
    /\ calm = FALSE

----------------------------------------------------------------------------
(* recursiveRemove: an unlink that says EISDIR turns into a listing, tasks *)
(* for the entries, and the removal of what should be empty by then.       *)

\* The unlink of a file, of nothing (ENOENT), or the listing of a directory.
Remove(p) ==
    /\ rm[p] = "task"
    /\ IF dst[p].kind = "dir"
       THEN /\ rm' = [q \in Nodes |->
                        IF q = p THEN "listed"
                        ELSE IF q \in Children(p) /\ dst[q] # Absent THEN "task"
                        ELSE rm[q]]
            /\ UNCHANGED dst
       ELSE /\ dst' = [dst EXCEPT ![p] = Absent]
            /\ rm' = [rm EXCEPT ![p] = "none"]
    /\ NoFault
    /\ UNCHANGED <<sync, src, dirpc, pc, job, crashes, changes>>

\* The taskgroup of the entries has ended; a directory that is not empty stays.
RemoveDir(p) ==
    /\ rm[p] = "listed"
    /\ \A k \in Children(p) : rm[k] = "none"
    /\ dst' = IF \E k \in Children(p) : dst[k] # Absent
              THEN dst ELSE [dst EXCEPT ![p] = Absent]
    /\ rm' = [rm EXCEPT ![p] = "none"]
    /\ NoFault
    /\ UNCHANGED <<sync, src, dirpc, pc, job, crashes, changes>>

\* The unlink, the openat or the removal of the emptied directory fails.
RemoveFails(p) ==
    /\ \/ rm[p] = "task"
       \/ rm[p] = "listed" /\ \A k \in Children(p) : rm[k] = "none"
    /\ Fault
    /\ rm' = [rm EXCEPT ![p] = "none"]
    /\ UNCHANGED <<sync, src, dst, dirpc, pc, job, crashes, changes>>

----------------------------------------------------------------------------
(* processDir for the directory itself.                                    *)

StartRun ==
    /\ dirpc = "off"
    /\ dirpc' = IF sync THEN "sync" ELSE "crawl"
    /\ calm' = TRUE
    /\ UNCHANGED <<sync, src, dst, pc, job, rm, faults, crashes, changes>>

\* Mutant: only names are looked for on the source, not the partial files.
ListExtraNames ==
    /\ dirpc = "sync"
    /\ rm' = [p \in Nodes |->
                IF p \in Names /\ dst[p] # Absent /\ src[p].kind = "gone"
                THEN "task" ELSE rm[p]]
    /\ dirpc' = "prune"
    /\ NoFault
    /\ UNCHANGED <<sync, src, dst, pc, job, crashes, changes>>

\* What the destination has and the source has not, partial files among it.
ListExtras ==
    /\ dirpc = "sync"
    /\ rm' = [p \in Nodes |->
                IF /\ p \in Entries
                   /\ dst[p] # Absent
                   /\ p \in Names => src[p].kind = "gone"
                THEN "task" ELSE rm[p]]
    /\ dirpc' = "prune"
    /\ NoFault
    /\ UNCHANGED <<sync, src, dst, pc, job, crashes, changes>>

\* A directory that cannot be opened is not crawled.
DirFails ==
    /\ dirpc \in {"sync", "crawl"}
    /\ Fault
    /\ dirpc' = "done"
    /\ UNCHANGED <<sync, src, dst, pc, job, rm, crashes, changes>>

\* The removals' taskgroup has ended, the source's entries get their tasks.
Crawl ==
    /\ \/ dirpc = "crawl"
       \/ dirpc = "prune" /\ \A p \in Nodes : rm[p] = "none"
    /\ dirpc' = "done"
    /\ pc' = [n \in Names |->
                 IF src[n].kind = "gone" THEN "idle" ELSE src[n].kind]
    /\ NoFault
    /\ UNCHANGED <<sync, src, dst, job, rm, crashes, changes>>

EndRun ==
    /\ dirpc = "done"
    /\ \A n \in Names : pc[n] = "idle"
    /\ dirpc' = "off"
    /\ UNCHANGED <<sync, src, dst, pc, job, rm, faults, crashes, changes, calm>>

----------------------------------------------------------------------------
(* processDir for a subdirectory.                                          *)

\* mkdirat takes whatever exists for a directory, the openat after it does not.
CrawlDir(n) ==
    /\ pc[n] = "dir"
    /\ IF src[n].kind # "dir" \/ dst[n].kind = "file"
       THEN Goto(n, "idle") /\ UNCHANGED <<dst, rm>>
       ELSE /\ dst' = [dst EXCEPT ![n] = Dir]
            /\ Goto(n, "prune")
            /\ rm' = [q \in Nodes |->
                        IF sync /\ q \in Children(n) /\ dst[q] # Absent
                        THEN "task" ELSE rm[q]]
    /\ NoFault
    /\ UNCHANGED <<sync, src, dirpc, job, crashes, changes>>

CrawlDirFails(n) ==
    /\ pc[n] = "dir"
    /\ Fault
    /\ Goto(n, "idle")
    /\ dst' \in {dst, IF src[n].kind = "dir" /\ dst[n] = Absent
                      THEN [dst EXCEPT ![n] = Dir] ELSE dst}
    /\ UNCHANGED <<sync, src, dirpc, job, rm, crashes, changes>>

Pruned(n) ==
    /\ pc[n] = "prune"
    /\ \A k \in Children(n) : rm[k] = "none"
    /\ Goto(n, "idle")
    /\ UNCHANGED <<sync, src, dst, dirpc, job, rm, faults, crashes, changes, calm>>

----------------------------------------------------------------------------
(* processNonDir.                                                          *)

NewJob(n, meta, stale) ==
    [ver |-> src[n].ver, key |-> src[n].key, meta |-> meta, stale |-> stale,
     errors |-> FALSE, seen |-> Absent]

\* One of the two statx fails: of a name that is gone, or for another reason.
StatFails(n) ==
    /\ pc[n] = "file"
    /\ \/ src[n].kind = "gone" /\ NoFault
       \/ Fault
    /\ Goto(n, "idle")
    /\ UNCHANGED <<sync, src, dst, dirpc, job, rm, crashes, changes>>

\* Mutant: there is nothing to do for a file that is not transferred.
SkipMetadata(n) ==
    /\ pc[n] = "file" /\ src[n].kind = "file"
    /\ ~Wanted(n)
    /\ Goto(n, "idle")
    /\ NoFault
    /\ UNCHANGED <<sync, src, dst, dirpc, job, rm, crashes, changes>>

\* Nothing to transfer: a job for the metadata.
SendMetadata(n) ==
    /\ pc[n] = "file" /\ src[n].kind = "file"
    /\ ~Wanted(n)
    /\ job' = [job EXCEPT ![n] = NewJob(n, TRUE, FALSE)]
    /\ Goto(n, "check")
    /\ NoFault
    /\ UNCHANGED <<sync, src, dst, dirpc, rm, crashes, changes>>

\* The old partial goes and a new one is opened. If the unlink fails (its
\* result is ignored) the old one is opened, and keeps what it holds.
SendFile(n) ==
    /\ pc[n] = "file" /\ src[n].kind = "file"
    /\ Wanted(n)
    /\ \/ /\ NoFault
          /\ \E p \in NewPartials(n) : dst' = [dst EXCEPT ![Part(n)] = p]
          /\ job' = [job EXCEPT ![n] = NewJob(n, FALSE, FALSE)]
       \/ /\ dst[Part(n)] # Absent
          /\ Fault
          /\ dst' = [dst EXCEPT ![Part(n)].data = Part0]
          /\ job' = [job EXCEPT ![n] = NewJob(n, FALSE, TRUE)]
    /\ Goto(n, "copy")
    /\ UNCHANGED <<sync, src, dirpc, rm, crashes, changes>>

\* An open or the ftruncate fails, or the name is a directory by now, which
\* readdir did not say: the old partial is gone and there is no job.
NoFile(n) ==
    /\ pc[n] = "file" /\ src[n].kind # "gone"
    /\ Wanted(n)
    /\ \/ /\ src[n].kind = "dir" /\ NoFault
          /\ dst' = [dst EXCEPT ![Part(n)] = Absent]
       \/ /\ src[n].kind = "file" /\ Fault
          /\ \E p \in {Absent} \cup NewPartials(n) :
                dst' = [dst EXCEPT ![Part(n)] = p]
    /\ Goto(n, "idle")
    /\ UNCHANGED <<sync, src, dirpc, job, rm, crashes, changes>>

\* The transfer thread hands the file over. It reads one version unless the
\* source has changed meanwhile; it counts its errors, all but those of failed
\* requests ("silent"); blocks of zeros it does not write into a sparse file,
\* whatever an old partial of another version has in their place.
Copy(n) ==
    /\ pc[n] = "copy"
    /\ \E o \in Outcomes, data \in {Version(job[n].ver), Torn, Bad, Lost} :
          /\ IF o = "good" THEN NoFault ELSE Fault
          /\ o = "errors" <=> data = Bad
          /\ data = Lost => \/ o = "silent"
                            \/ /\ job[n].stale /\ job[n].ver > 0
                               /\ Sparse /\ n \in Holey
          /\ o = "silent" => data = Lost
          /\ data = Torn => src[n].kind # "file" \/ src[n].ver # job[n].ver
          /\ dst' = [dst EXCEPT ![Part(n)].data = data]
          /\ job' = [job EXCEPT ![n].errors = (o = "errors")]
    /\ Goto(n, "check")
    /\ UNCHANGED <<sync, src, dirpc, rm, crashes, changes>>

----------------------------------------------------------------------------
(* finishProcessorOne.                                                     *)

\* Mutant: the errors that the transfer has counted are not looked at.
CheckIgnoresErrors(n) ==
    LET at == IF job[n].meta THEN n ELSE Part(n) IN
    /\ pc[n] = "check"
    /\ IF dst[at].kind # "file"
       THEN /\ Goto(n, "discard")
            /\ UNCHANGED <<job, rm>>
       ELSE /\ job' = [job EXCEPT ![n].seen = dst[at]]
            /\ Goto(n, IF job[n].meta THEN "times" ELSE "clear")
            /\ rm' = IF job[n].meta THEN rm ELSE [rm EXCEPT ![n] = "task"]
    /\ NoFault
    /\ UNCHANGED <<sync, src, dst, dirpc, crashes, changes>>

\* Mutant: room is made for the new file before it is checked.
CheckRemovesFirst(n) ==
    LET at == IF job[n].meta THEN n ELSE Part(n) IN
    /\ pc[n] = "check"
    /\ rm' = IF job[n].meta THEN rm ELSE [rm EXCEPT ![n] = "task"]
    /\ IF dst[at].kind # "file" \/ job[n].errors
       THEN Goto(n, "discard") /\ UNCHANGED job
       ELSE /\ job' = [job EXCEPT ![n].seen = dst[at]]
            /\ Goto(n, IF job[n].meta THEN "times" ELSE "clear")
    /\ NoFault
    /\ UNCHANGED <<sync, src, dst, dirpc, crashes, changes>>

\* ftruncate and statx; a job with errors goes no further.
Check(n) ==
    LET at == IF job[n].meta THEN n ELSE Part(n) IN
    /\ pc[n] = "check"
    /\ IF dst[at].kind # "file" \/ job[n].errors
       THEN /\ Goto(n, "discard")
            /\ UNCHANGED <<job, rm>>
       ELSE /\ job' = [job EXCEPT ![n].seen = dst[at]]
            /\ Goto(n, IF job[n].meta THEN "times" ELSE "clear")
            /\ rm' = IF job[n].meta THEN rm ELSE [rm EXCEPT ![n] = "task"]
    /\ NoFault
    /\ UNCHANGED <<sync, src, dst, dirpc, crashes, changes>>

CheckFails(n) ==
    /\ pc[n] = "check"
    /\ Fault
    /\ Goto(n, "discard")
    /\ UNCHANGED <<sync, src, dst, dirpc, job, rm, crashes, changes>>

\* Mutant: the partial is linked under the name.
RenameLinks(n) ==
    /\ pc[n] = "clear" /\ rm[n] = "none"
    /\ IF dst[n] # Dir /\ dst[Part(n)] # Absent
       THEN /\ dst' = [dst EXCEPT ![n] = dst[Part(n)]]
            /\ Goto(n, "times")
       ELSE Goto(n, "discard") /\ UNCHANGED dst
    /\ NoFault
    /\ UNCHANGED <<sync, src, dirpc, job, rm, crashes, changes>>

\* The old entry's removal is over, whatever came of it; a file is not
\* renamed over a directory.
Rename(n) ==
    /\ pc[n] = "clear" /\ rm[n] = "none"
    /\ IF dst[n] # Dir /\ dst[Part(n)] # Absent
       THEN /\ dst' = [dst EXCEPT ![n] = dst[Part(n)], ![Part(n)] = Absent]
            /\ Goto(n, "times")
       ELSE Goto(n, "discard") /\ UNCHANGED dst
    /\ NoFault
    /\ UNCHANGED <<sync, src, dirpc, job, rm, crashes, changes>>

RenameFails(n) ==
    /\ pc[n] = "clear" /\ rm[n] = "none"
    /\ Fault
    /\ Goto(n, "discard")
    /\ UNCHANGED <<sync, src, dst, dirpc, job, rm, crashes, changes>>

\* Mutant: the times are those the source has by now.
SetTimesOfNow(n) ==
    /\ pc[n] = "times"
    /\ dst' = [dst EXCEPT ![n].key = Version(src[n].key)]
    /\ Goto(n, "owner")
    /\ NoFault
    /\ UNCHANGED <<sync, src, dirpc, job, rm, crashes, changes>>

\* What statx saw before is compared, and set where it differs.
SetTimes(n) ==
    /\ pc[n] = "times"
    /\ dst' = IF job[n].seen.key = Version(job[n].key) THEN dst
              ELSE [dst EXCEPT ![n].key = Version(job[n].key)]
    /\ Goto(n, "owner")
    /\ NoFault
    /\ UNCHANGED <<sync, src, dirpc, job, rm, crashes, changes>>

\* The kernel takes the set-id bits off a file that changes its owner.
SetOwner(n) ==
    /\ pc[n] = "owner"
    /\ dst' = IF job[n].seen.owner THEN dst
              ELSE [dst EXCEPT ![n].owner = TRUE,
                               ![n].mode = @ /\ n \notin SetId]
    /\ Goto(n, "mode")
    /\ NoFault
    /\ UNCHANGED <<sync, src, dirpc, job, rm, crashes, changes>>

SetMode(n) ==
    /\ pc[n] = "mode"
    /\ dst' = IF job[n].seen.mode THEN dst ELSE [dst EXCEPT ![n].mode = TRUE]
    /\ Goto(n, "idle")
    /\ NoFault
    /\ UNCHANGED <<sync, src, dirpc, job, rm, crashes, changes>>

\* The first of the three that fails ends the chain; the file stays.
SetFails(n) ==
    /\ \/ pc[n] = "times" /\ job[n].seen.key # Version(job[n].key)
       \/ pc[n] = "owner" /\ ~job[n].seen.owner
       \/ pc[n] = "mode" /\ ~job[n].seen.mode
    /\ Fault
    /\ Goto(n, "idle")
    /\ UNCHANGED <<sync, src, dst, dirpc, job, rm, crashes, changes>>

\* The partial of a job that failed is unlinked, which may fail too.
Discard(n) ==
    /\ pc[n] = "discard"
    /\ \/ NoFault /\ dst' = IF job[n].meta THEN dst
                            ELSE [dst EXCEPT ![Part(n)] = Absent]
       \/ Fault /\ ~job[n].meta /\ UNCHANGED dst
    /\ Goto(n, "idle")
    /\ UNCHANGED <<sync, src, dirpc, job, rm, crashes, changes>>

----------------------------------------------------------------------------
(* What else happens.                                                      *)

\* The run is interrupted: the disk keeps what it has.
Crash ==
    /\ dirpc # "off" /\ crashes < MaxCrashes
    /\ crashes' = crashes + 1
    /\ dirpc' = "off"
    /\ pc' = [n \in Names |-> "idle"]
    /\ rm' = [p \in Nodes |-> "none"]
    /\ job' = [n \in Names |-> NoJob]
    /\ calm' = FALSE
    /\ UNCHANGED <<sync, src, dst, faults, changes>>

\* The source changes; a file may change within a second, keeping its size.
Change(n) ==
    /\ changes < MaxChanges
    /\ changes' = changes + 1
    /\ \E k \in SrcKinds : \E key \in {src[n].key, src[n].ver + 1} :
          /\ key = src[n].key => src[n].kind = "file" /\ k = "file"
          /\ k # "file" => src[n].kind # k
          /\ src' = [src EXCEPT ![n] =
                        [kind |-> k, ver |-> @.ver + 1, key |-> key]]
    /\ calm' = FALSE
    /\ UNCHANGED <<sync, dst, dirpc, pc, job, rm, faults, crashes>>

DirStep == ListExtras \/ DirFails \/ Crawl \/ EndRun

NameStep(n) ==
    \/ CrawlDir(n) \/ CrawlDirFails(n) \/ Pruned(n)
    \/ StatFails(n) \/ SendMetadata(n) \/ SendFile(n) \/ NoFile(n)
    \/ Copy(n)
    \/ Check(n) \/ CheckFails(n) \/ Rename(n) \/ RenameFails(n)
    \/ SetTimes(n) \/ SetOwner(n) \/ SetMode(n) \/ SetFails(n) \/ Discard(n)

RemoveStep(p) == Remove(p) \/ RemoveDir(p) \/ RemoveFails(p)

Next ==
    \/ StartRun \/ DirStep \/ Crash
    \/ \E n \in Names : NameStep(n) \/ Change(n)
    \/ \E p \in Nodes : RemoveStep(p)

Spec == Init /\ [][Next]_vars

\* Every thread runs on, and copy2 is run again.
FairSpec == /\ Spec
            /\ WF_vars(StartRun) /\ WF_vars(DirStep)
            /\ \A n \in Names : WF_vars(NameStep(n))
            /\ \A p \in Nodes : WF_vars(RemoveStep(p))

----------------------------------------------------------------------------
(* Properties.                                                             *)

FileType == [kind : {"file"},
             data : {Other, Part0, Torn, Bad, Lost}
                       \cup {Version(v) : v \in 0 .. MaxChanges},
             key : {Other, Now} \cup {Version(v) : v \in 0 .. MaxChanges},
             owner : BOOLEAN, mode : BOOLEAN]

JobType == [ver : 0 .. MaxChanges, key : 0 .. MaxChanges, meta : BOOLEAN,
            stale : BOOLEAN, errors : BOOLEAN, seen : {Absent} \cup FileType]

\* The variables have their types (copy2.cpp:604-1312).
TypeOK ==
    /\ sync \in BOOLEAN
    /\ src \in [Names -> [kind : SrcKinds, ver : 0 .. MaxChanges,
                          key : 0 .. MaxChanges]]
    /\ dst \in [Nodes -> {Absent, Dir} \cup FileType]
    /\ dirpc \in {"off", "sync", "prune", "crawl", "done"}
    /\ pc \in [Names -> {"idle", "file", "dir", "prune", "copy", "check",
                         "clear", "times", "owner", "mode", "discard"}]
    /\ job \in [Names -> JobType]
    /\ rm \in [Nodes -> {"none", "task", "listed"}]
    /\ calm \in BOOLEAN
    /\ faults \in 0 .. MaxFaults /\ crashes \in 0 .. MaxCrashes
    /\ changes \in 0 .. MaxChanges

\* The source changed within a second, keeping its size (copy2.cpp:790
\* compares neither nanoseconds nor contents).
Hidden(n) == src[n].ver # src[n].key

\* No interruption or failure leaves a file under its name that looks like the
\* source's and is not: what the decision at copy2.cpp:790 passes over has the
\* source's contents. Only errors that were not counted, and changes that do
\* not show, are left for ever.
FreshMeansEqual ==
    \A n \in Names :
        src[n].kind = "file" /\ dst[n].kind = "file" /\ ~Wanted(n) =>
            \/ dst[n].data = Version(src[n].ver)
            \/ dst[n].data = Lost
            \/ Hidden(n)

\* Contents appear under a name only whole, and not when their transfer has
\* counted errors, whatever failed or was interrupted (copy2.cpp:1229, 1254).
NeverHalfWritten ==
    \A n \in Names : dst[n].kind = "file" => dst[n].data \notin {Part0, Bad}

\* A partial file that an interrupted run left (copy2.cpp:829) belongs to a
\* name that the next run transfers, and so replaces or removes the partial.
PartialMeansRetry ==
    \A n \in Names :
        dirpc = "off" /\ src[n].kind = "file" /\ dst[Part(n)] # Absent =>
            Wanted(n)

Mirrored(n) ==
    CASE src[n].kind = "file" ->
           /\ dst[n].kind = "file" /\ ~Wanted(n)
           /\ dst[n].data \in {Version(src[n].ver), Lost} \/ Hidden(n)
           /\ dst[n].owner
           /\ dst[Part(n)] = Absent
      [] src[n].kind = "dir" ->
           \/ dst[n].kind = "file"              \* is in the way for ever
           \/ /\ dst[n] = Dir
              /\ sync => \A k \in Children(n) : dst[k] = Absent
      [] src[n].kind = "gone" ->
           sync => dst[n] = Absent /\ dst[Part(n)] = Absent

\* One run in which nothing failed and nothing changed makes the destination
\* the source's mirror, whatever interrupted runs have left behind. The mode is
\* another matter: it is compared as it was before the chown (copy2.cpp:1280).
CleanRunMirrors ==
    dirpc = "off" /\ calm =>
        \A n \in Names :
            /\ Mirrored(n)
            /\ src[n].kind = "file" /\ n \notin SetId => dst[n].mode

\* The old file goes only when a whole new one is beside it, in a partial whose
\* transfer counted no errors, or when --sync found no such name on the source
\* (copy2.cpp:1233 comes after the checks of 1219-1231).
RemovedOnlyForNew ==
    [][\A n \in Names :
          dst[n].kind = "file" /\ dst'[n] = Absent =>
              \/ /\ pc[n] = "clear" /\ ~job[n].errors
                 /\ dst[Part(n)].kind = "file" /\ dst[Part(n)].data # Part0
              \/ sync /\ dirpc = "prune"]_vars

\* When the failures are over, runs make the destination the source's mirror,
\* the modes included, and leave it so.
EventuallyMirrored ==
    <>[](\A n \in Names :
            /\ Mirrored(n)
            /\ src[n].kind = "file" => dst[n].mode)
============================================================================
