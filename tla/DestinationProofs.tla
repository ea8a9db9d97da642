------------------------- MODULE DestinationProofs -------------------------
(***************************************************************************)
(* What holds of Destination for any names, any trees in their place, any  *)
(* number of failures, interruptions and changes: files appear only whole, *)
(* a file that looks up to date is, partials belong to names that will be  *)
(* transferred, an old file is removed only when a new one is whole, and a *)
(* run in which nothing fails and nothing changes makes a mirror.          *)
(*                                                                         *)
(* The inductive invariant follows a name through its job: what the job    *)
(* may take for granted of the partial, and later of the name (JobAt), is  *)
(* what the steps before it have seen; Removals says that nobody else      *)
(* removes anything meanwhile.                                             *)
(***************************************************************************)
EXTENDS Destination, FiniteSetTheorems, TLAPS

\* A partial is a file with the time of its writing; kids hang on directories,
\* and what was listed is a directory still.
Tree ==
    /\ \A n \in Names : \/ dst[Part(n)] = Absent
                        \/ dst[Part(n)] \in FileType /\ dst[Part(n)].key = Now
    /\ \A k \in Kids : dst[k] # Absent => dst[KidParent[k]] = Dir
    /\ \A p \in Nodes : rm[p] = "listed" => dst[p] = Dir

\* Nothing is removed but by the phase or the task that waits for it.
Removals ==
    /\ dirpc # "done" => \A n \in Names : pc[n] = "idle"
    /\ dirpc \in {"sync", "prune"} => sync
    /\ dirpc \in {"off", "sync", "crawl"} => \A p \in Nodes : rm[p] = "none"
    /\ \A n \in Names :
          /\ rm[n] = "none" \/ dirpc = "prune" \/ pc[n] = "clear"
          /\ rm[Part(n)] = "none" \/ dirpc = "prune"
    /\ \A k \in Kids :
          \/ rm[k] = "none"
          \/ rm[KidParent[k]] = "listed"
          \/ KidParent[k] \in Names /\ pc[KidParent[k]] = "prune"

\* Contents under the source's present key, if it tells versions apart, are the
\* source's.
Fresh(n, key, data) ==
    key = src[n].key /\ src[n].ver = src[n].key =>
        data \in {Version(src[n].ver), Lost}

\* Keys and versions are not those of the future.
Known(n) ==
    /\ src[n].key <= src[n].ver
    /\ job[n].key <= job[n].ver
    /\ job[n].ver <= src[n].ver /\ job[n].key <= src[n].key
    /\ \A k \in 0 .. MaxChanges :
          dst[n].kind = "file" /\ dst[n].key = Version(k) =>
              k <= src[n].key /\ Fresh(n, k, dst[n].data)

\* A partial belongs to a name that is to be transferred.
Retry(n) == dst[Part(n)] # Absent => Wanted(n)

Whole(n) == dst[n].kind = "file" => dst[n].data \notin {Part0, Bad}

\* What a job may take for granted.
JobAt(n) ==
    /\ pc[n] = "copy" =>
          /\ ~job[n].meta /\ dst[Part(n)].kind = "file"
          /\ job[n].ver = src[n].ver => src[n].kind = "file"
    /\ pc[n] = "check" /\ job[n].meta =>
          /\ dst[n].kind = "file" /\ dst[Part(n)] = Absent
          /\ Fresh(n, job[n].key, dst[n].data)
    /\ pc[n] = "check" /\ ~job[n].meta =>
          /\ dst[Part(n)].kind = "file" /\ dst[Part(n)].data # Part0
          /\ dst[Part(n)].data = Bad => job[n].errors
          /\ ~job[n].errors => Fresh(n, job[n].key, dst[Part(n)].data)
    /\ pc[n] = "clear" =>
          /\ ~job[n].errors
          /\ dst[Part(n)].kind = "file" /\ dst[Part(n)].data \notin {Part0, Bad}
          /\ Fresh(n, job[n].key, dst[Part(n)].data)
    /\ pc[n] = "times" => Fresh(n, job[n].key, dst[n].data)
    /\ pc[n] \in {"times", "owner", "mode"} =>
          dst[n].kind = "file" /\ dst[Part(n)] = Absent

NameInv(n) == Known(n) /\ Retry(n) /\ Whole(n) /\ JobAt(n)

\* Versions are changes that were made.
Counted == \A n \in Names : src[n].ver <= changes

IInv ==
    /\ TypeOK /\ Tree /\ Removals /\ Counted
    /\ \A n \in Names : NameInv(n)

----------------------------------------------------------------------------
(* Tags, records and places.                                               *)

Datas == {Other, Part0, Torn, Bad, Lost} \cup {Version(v) : v \in 0 .. MaxChanges}
KeyTags == {Other, Now} \cup {Version(v) : v \in 0 .. MaxChanges}

LEMMA Tags ==
    /\ \A v, w \in 0 .. MaxChanges : Version(v) = Version(w) => v = w
    /\ \A v \in 0 .. MaxChanges :
          Version(v) \notin {Other, Now, Part0, Torn, Bad, Lost}
    /\ Part0 \notin {Other, Torn, Bad, Lost}
    /\ Bad \notin {Other, Torn, Lost}
    /\ Now # Other
  BY DEF Version, Other, Now, Part0, Torn, Bad, Lost

LEMMA FileFacts ==
    ASSUME NEW f \in FileType
    PROVE  /\ f.kind = "file" /\ f.data \in Datas /\ f.key \in KeyTags
           /\ f.owner \in BOOLEAN /\ f.mode \in BOOLEAN
           /\ f # Absent /\ f # Dir
  BY DEF FileType, Datas, KeyTags, Absent, Dir

LEMMA KindFacts == /\ Absent.kind = "absent" /\ Dir.kind = "dir" /\ Absent # Dir
  BY DEF Absent, Dir

\* A file with other contents, another key, owner or mode is a file.
LEMMA NewFile ==
    ASSUME NEW d \in Datas, NEW k \in KeyTags, NEW o \in BOOLEAN, NEW m \in BOOLEAN
    PROVE  /\ FileRec(d, k, o, m) \in FileType
           /\ FileRec(d, k, o, m).data = d /\ FileRec(d, k, o, m).key = k
           /\ FileRec(d, k, o, m).owner = o /\ FileRec(d, k, o, m).mode = m
  BY DEF FileRec, FileType, Datas, KeyTags

LEMMA WithData ==
    ASSUME NEW f \in FileType, NEW d \in Datas
    PROVE  /\ [f EXCEPT !.data = d] \in FileType
           /\ [f EXCEPT !.data = d].data = d /\ [f EXCEPT !.data = d].key = f.key
           /\ [f EXCEPT !.data = d].owner = f.owner /\ [f EXCEPT !.data = d].mode = f.mode
  BY DEF FileType, Datas

LEMMA WithKey ==
    ASSUME NEW f \in FileType, NEW k \in KeyTags
    PROVE  /\ [f EXCEPT !.key = k] \in FileType
           /\ [f EXCEPT !.key = k].data = f.data /\ [f EXCEPT !.key = k].key = k
           /\ [f EXCEPT !.key = k].owner = f.owner /\ [f EXCEPT !.key = k].mode = f.mode
  BY DEF FileType, KeyTags

LEMMA WithOwner ==
    ASSUME NEW f \in FileType, NEW o \in BOOLEAN, NEW m \in BOOLEAN
    PROVE  /\ [f EXCEPT !.owner = o, !.mode = m] \in FileType
           /\ [f EXCEPT !.owner = o, !.mode = m].data = f.data
           /\ [f EXCEPT !.owner = o, !.mode = m].key = f.key
           /\ [f EXCEPT !.owner = o, !.mode = m].owner = o
           /\ [f EXCEPT !.owner = o, !.mode = m].mode = m
  BY DEF FileType

LEMMA WithMode ==
    ASSUME NEW f \in FileType, NEW m \in BOOLEAN
    PROVE  /\ [f EXCEPT !.mode = m] \in FileType
           /\ [f EXCEPT !.mode = m].data = f.data /\ [f EXCEPT !.mode = m].key = f.key
           /\ [f EXCEPT !.mode = m].owner = f.owner /\ [f EXCEPT !.mode = m].mode = m
  BY DEF FileType

LEMMA Places ==
    /\ \A n \in Names : /\ n \in Nodes /\ n \notin Kids
                        /\ Part(n) \in Nodes /\ Part(n) \notin Names \cup Kids
                        /\ \A m \in Names : Part(m) = Part(n) => m = n
    /\ \A k \in Kids : /\ k \in Nodes /\ k \notin Names /\ KidParent[k] \in Nodes
                       /\ KidParent[k] # k
                       /\ KidParent[k] \in Names \/ KidParent[k] \in Kids
                       /\ KidParent[k] \in Kids => KidParent[KidParent[k]] \in Names
                       /\ \A n \in Names : KidParent[k] # Part(n)
    /\ \A p \in Nodes : \/ p \in Names \/ p \in Kids
                        \/ \E n \in Names : p = Part(n)
  BY TreeAssumption DEF Nodes, Entries, Part

\* A call that fails, or none.
LEMMA Counters ==
    ASSUME TypeOK, Fault \/ NoFault
    PROVE  calm' \in BOOLEAN /\ faults' \in 0 .. MaxFaults
  <1>1. calm' \in BOOLEAN
    BY Zenon DEF TypeOK, Fault, NoFault
  <1>2. MaxFaults \in Nat
    BY OptionAssumption
  <1>3. faults \in 0 .. MaxFaults
    BY DEF TypeOK
  <1>4. (faults < MaxFaults /\ faults' = faults + 1) \/ faults' = faults
    BY DEF Fault, NoFault
  <1>5. faults' \in 0 .. MaxFaults
    BY <1>2, <1>3, <1>4
  <1> QED BY <1>1, <1>5

----------------------------------------------------------------------------
(* What a step leaves alone.                                               *)

Calls == {"copy", "check", "clear", "times", "owner", "mode"}

LEMMA NameFrame ==
    ASSUME NEW n \in Names, NameInv(n), src'[n] = src[n], job'[n] = job[n],
           dst'[n] = dst[n], dst'[Part(n)] = dst[Part(n)],
           pc'[n] = pc[n] \/ pc'[n] \notin Calls
    PROVE  NameInv(n)'
  <1>1. Known(n)'
    BY DEF NameInv, Known, Fresh
  <1>2. Retry(n)' /\ Whole(n)'
    BY DEF NameInv, Retry, Whole, Wanted
  <1>3. JobAt(n)'
    BY DEF NameInv, JobAt, Fresh, Calls
  <1> QED BY <1>1, <1>2, <1>3 DEF NameInv

\* A name may be removed while its job waits for that.
LEMMA NameGone ==
    ASSUME NEW n \in Names, NameInv(n), src'[n] = src[n], job'[n] = job[n],
           dst'[n] \in {dst[n], Absent, Dir},
           dst'[Part(n)] \in {dst[Part(n)], Absent},
           pc[n] = "clear" => dst'[Part(n)] = dst[Part(n)],
           pc'[n] = pc[n], pc[n] = "clear" \/ pc[n] \notin Calls
    PROVE  NameInv(n)'
  <1>1. Known(n)'
    BY KindFacts DEF NameInv, Known, Fresh
  <1>2. Retry(n)' /\ Whole(n)'
    BY KindFacts DEF NameInv, Retry, Whole, Wanted
  <1>3. JobAt(n)'
    BY DEF NameInv, JobAt, Fresh, Calls
  <1> QED BY <1>1, <1>2, <1>3 DEF NameInv

LEMMA TreeSame ==
    ASSUME Tree, UNCHANGED dst,
           \A p \in Nodes : rm'[p] = "listed" => rm[p] = "listed" \/ dst[p] = Dir
    PROVE  Tree'
  BY DEF Tree

\* An entry of the directory that was none changes.
LEMMA TreeEntry ==
    ASSUME TypeOK, Tree, NEW p \in Nodes \ Kids, NEW f,
           dst' = [dst EXCEPT ![p] = f],
           dst[p] # Dir \/ f = Dir,
           p \in Names \/ f = Absent \/ (f \in FileType /\ f.key = Now),
           \A q \in Nodes : rm'[q] = "listed" => rm[q] = "listed"
    PROVE  Tree'
  <1>1. /\ dst'[p] = f /\ \A q \in Nodes \ {p} : dst'[q] = dst[q]
    BY DEF TypeOK
  <1>2. \A n \in Names : \/ dst'[Part(n)] = Absent
                         \/ dst'[Part(n)] \in FileType /\ dst'[Part(n)].key = Now
    BY <1>1, Places DEF Tree
  <1>3. \A k \in Kids : dst'[k] # Absent => dst'[KidParent[k]] = Dir
    BY <1>1, Places DEF Tree
  <1>4. \A q \in Nodes : rm'[q] = "listed" => dst'[q] = Dir
    BY <1>1 DEF Tree
  <1> QED BY <1>2, <1>3, <1>4 DEF Tree

\* A task or job goes on: not one that waits for a removal.
LEMMA RemovalsGoto ==
    ASSUME TypeOK, Removals, NEW n \in Names, NEW w, Goto(n, w), pc[n] # "idle",
           UNCHANGED <<sync, dirpc, rm>>,
           pc[n] = "clear" => rm[n] = "none",
           pc[n] = "prune" => \A k \in Children(n) : rm[k] = "none"
    PROVE  Removals'
  <1>1. dirpc = "done" /\ dirpc' = "done"
    BY DEF Removals
  <1>2. \A m \in Names \ {n} : pc'[m] = pc[m]
    BY DEF TypeOK, Goto
  <1>3. \A m \in Names : /\ rm[m] = "none" \/ pc'[m] = "clear"
                         /\ rm[Part(m)] = "none"
    BY <1>1, <1>2 DEF Removals
  <1>4. \A k \in Kids : \/ rm[k] = "none"
                        \/ rm[KidParent[k]] = "listed"
                        \/ KidParent[k] \in Names /\ pc'[KidParent[k]] = "prune"
    BY <1>2 DEF Removals, Children
  <1> QED BY <1>1, <1>3, <1>4 DEF Removals

LEMMA NameChanges ==
    ASSUME IInv, NEW n \in Names, TypeOK', Tree', Removals', NameInv(n)',
           UNCHANGED <<src, changes>>,
           \A m \in Names \ {n} : /\ dst'[m] = dst[m] /\ dst'[Part(m)] = dst[Part(m)]
                                  /\ job'[m] = job[m] /\ pc'[m] = pc[m]
    PROVE  IInv'
  <1>1. ASSUME NEW m \in Names \ {n} PROVE NameInv(m)'
    BY <1>1, NameFrame DEF IInv
  <1>2. Counted'
    BY DEF IInv, Counted
  <1> QED BY <1>1, <1>2 DEF IInv

----------------------------------------------------------------------------
(* processNonDir.                                                          *)

\* What the EXCEPTs of a name's step say of the others.
LEMMA OtherNames ==
    ASSUME TypeOK, NEW n \in Names, NEW w, Goto(n, w)
    PROVE  pc'[n] = w /\ \A m \in Names \ {n} : pc'[m] = pc[m]
  BY DEF TypeOK, Goto

LEMMA NameTypes ==
    ASSUME TypeOK, NEW n \in Names
    PROVE  /\ MaxChanges \in Nat
           /\ src[n].ver \in 0 .. MaxChanges /\ src[n].key \in 0 .. MaxChanges
           /\ job[n].ver \in 0 .. MaxChanges /\ job[n].key \in 0 .. MaxChanges
           /\ dst[n] \in {Absent, Dir} \cup FileType
           /\ dst[n].kind = "file" => dst[n] \in FileType
           /\ dst[Part(n)].kind = "file" => dst[Part(n)] \in FileType
  <1>1. dst[n] \in {Absent, Dir} \cup FileType /\ dst[Part(n)] \in {Absent, Dir} \cup FileType
    BY Places DEF TypeOK
  <1>2. job[n] \in JobType
    BY DEF TypeOK
  <1>3. job[n].ver \in 0 .. MaxChanges /\ job[n].key \in 0 .. MaxChanges
    BY <1>2 DEF JobType
  <1> QED BY <1>1, <1>3, KindFacts, OptionAssumption DEF TypeOK

\* The name n or its partial becomes f.
LEMMA EntryPut ==
    ASSUME TypeOK, Tree, NEW n \in Names, NEW p \in {n, Part(n)},
           NEW f \in {Absent, Dir} \cup FileType,
           dst' = [dst EXCEPT ![p] = f],
           dst[p] # Dir \/ f = Dir,
           p = n \/ f = Absent \/ (f \in FileType /\ f.key = Now),
           \A q \in Nodes : rm'[q] = "listed" => rm[q] = "listed"
    PROVE  /\ dst' \in [Nodes -> {Absent, Dir} \cup FileType]
           /\ Tree'
           /\ dst'[p] = f
           /\ p = n => dst'[Part(n)] = dst[Part(n)]
           /\ p # n => dst'[n] = dst[n]
           /\ \A m \in Names \ {n} : dst'[m] = dst[m] /\ dst'[Part(m)] = dst[Part(m)]
  <1>1. p \in Nodes \ Kids
    BY Places
  <1>2. dst'[p] = f /\ \A q \in Nodes \ {p} : dst'[q] = dst[q]
    BY <1>1 DEF TypeOK
  <1>3. dst' \in [Nodes -> {Absent, Dir} \cup FileType]
    BY DEF TypeOK
  <1>4. Tree'
    BY <1>1, TreeEntry, Places
  <1>5. /\ p = n => Part(n) # p
        /\ \A m \in Names \ {n} : m # p /\ Part(m) # p
    BY Places
  <1> QED BY <1>2, <1>3, <1>4, <1>5, Places

\* A step after which the name has no calls to make.
LEMMA GotoQuiet ==
    ASSUME IInv, NEW n \in Names, NEW w \in {"idle", "prune", "discard"}, Goto(n, w),
           pc[n] \notin {"idle", "prune"},
           pc[n] = "clear" => rm[n] = "none",
           UNCHANGED <<sync, src, dst, dirpc, job, rm, crashes, changes>>,
           Fault \/ NoFault
    PROVE  IInv'
  <1>1. TypeOK'
    <2>1. calm' \in BOOLEAN /\ faults' \in 0 .. MaxFaults
      BY Counters DEF IInv
    <2> QED BY <2>1 DEF IInv, TypeOK, Goto
  <1>2. Tree'
    BY TreeSame DEF IInv
  <1>3. Removals'
    BY RemovalsGoto DEF IInv
  <1>4. pc'[n] = w /\ \A m \in Names \ {n} : pc'[m] = pc[m]
    BY OtherNames DEF IInv
  <1>5. NameInv(n)'
    BY <1>4, NameFrame DEF IInv, Calls
  <1> QED BY <1>1, <1>2, <1>3, <1>4, <1>5, NameChanges

LEMMA StatFailsInv ==
    ASSUME IInv, NEW n \in Names, StatFails(n)
    PROVE  IInv'
  BY GotoQuiet DEF StatFails

LEMMA JobFacts ==
    ASSUME IInv, NEW n \in Names, NEW meta \in BOOLEAN, NEW stale \in BOOLEAN
    PROVE  /\ NewJob(n, meta, stale) \in JobType
           /\ NewJob(n, meta, stale).ver = src[n].ver
           /\ NewJob(n, meta, stale).key = src[n].key
           /\ NewJob(n, meta, stale).meta = meta
           /\ NewJob(n, meta, stale).errors = FALSE
  <1>1. src[n].ver \in 0 .. MaxChanges /\ src[n].key \in 0 .. MaxChanges
    BY DEF IInv, TypeOK
  <1> QED BY <1>1 DEF NewJob, JobType

\* A new job knows what the source has.
LEMMA NewJobKnown ==
    ASSUME NEW n \in Names, Known(n), src'[n] = src[n], dst'[n] = dst[n],
           job'[n].ver = src[n].ver, job'[n].key = src[n].key,
           src[n].ver \in Nat, src[n].key \in Nat
    PROVE  Known(n)'
  <1>1. src[n].key <= src[n].ver
    BY DEF Known
  <1>2. /\ src'[n].key <= src'[n].ver
        /\ job'[n].key <= job'[n].ver
        /\ job'[n].ver <= src'[n].ver /\ job'[n].key <= src'[n].key
    BY <1>1
  <1>3. \A k \in 0 .. MaxChanges :
          dst'[n].kind = "file" /\ dst'[n].key = Version(k) =>
              k <= src'[n].key /\ Fresh(n, k, dst[n].data)'
    BY DEF Known, Fresh
  <1> QED BY <1>2, <1>3 DEF Known, Fresh

LEMMA SendMetadataInv ==
    ASSUME IInv, NEW n \in Names, SendMetadata(n)
    PROVE  IInv'
  <1>1. /\ pc[n] = "file" /\ ~Wanted(n) /\ Goto(n, "check") /\ NoFault
        /\ job' = [job EXCEPT ![n] = NewJob(n, TRUE, FALSE)]
        /\ UNCHANGED <<sync, src, dst, dirpc, rm, crashes, changes>>
    BY DEF SendMetadata
  <1>2. TypeOK'
    <2>1. calm' \in BOOLEAN /\ faults' \in 0 .. MaxFaults
      BY <1>1, Counters DEF IInv
    <2>2. job' \in [Names -> JobType]
      BY <1>1, JobFacts DEF IInv, TypeOK
    <2> QED BY <1>1, <2>1, <2>2 DEF IInv, TypeOK, Goto
  <1>3. Tree'
    BY <1>1, TreeSame DEF IInv
  <1>4. Removals'
    BY <1>1, RemovalsGoto DEF IInv
  <1>5. pc'[n] = "check" /\ \A m \in Names \ {n} : pc'[m] = pc[m]
    BY <1>1, OtherNames DEF IInv
  <1>6. /\ job'[n].ver = src[n].ver /\ job'[n].key = src[n].key /\ job'[n].meta
        /\ \A m \in Names \ {n} : job'[m] = job[m]
    <2>1. job'[n] = NewJob(n, TRUE, FALSE) /\ \A m \in Names \ {n} : job'[m] = job[m]
      BY <1>1 DEF IInv, TypeOK
    <2>2. job'[n].ver = src[n].ver /\ job'[n].key = src[n].key
      BY <2>1, JobFacts
    <2>3. job'[n].meta = TRUE
      BY <2>1, JobFacts
    <2>4. job'[n].meta
      BY <2>3, Zenon
    <2> QED BY <2>1, <2>2, <2>4
  <1>7. NameInv(n)'
    <2>1. NameInv(n)
      BY DEF IInv
    <2>9. src[n].ver \in Nat /\ src[n].key \in Nat
      BY NameTypes DEF IInv
    <2>2. Known(n)'
      BY <1>1, <1>6, <2>1, <2>9, NewJobKnown DEF NameInv
    <2>3. Retry(n)' /\ Whole(n)'
      BY <1>1, <2>1 DEF NameInv, Retry, Whole, Wanted
    <2>4. dst[n].kind = "file" /\ dst[n].key = Version(src[n].key) /\ dst[Part(n)] = Absent
      BY <1>1, <2>1 DEF NameInv, Retry, Wanted
    <2>5. Fresh(n, src[n].key, dst[n].data)
      BY <2>1, <2>4, NameTypes DEF NameInv, Known, IInv
    <2>6. JobAt(n)'
      BY <1>1, <1>5, <1>6, <2>4, <2>5 DEF JobAt, Fresh
    <2> QED BY <2>2, <2>3, <2>6 DEF NameInv
  <1> QED BY <1>1, <1>2, <1>3, <1>4, <1>5, <1>6, <1>7, NameChanges

\* The partial of a name that is to be transferred is opened.
LEMMA PartialOpened ==
    ASSUME IInv, NEW n \in Names, NEW f \in FileType, f.key = Now, NEW s \in BOOLEAN,
           pc[n] = "file", src[n].kind = "file", Wanted(n), Goto(n, "copy"),
           dst' = [dst EXCEPT ![Part(n)] = f],
           job' = [job EXCEPT ![n] = NewJob(n, FALSE, s)],
           Fault \/ NoFault,
           UNCHANGED <<sync, src, dirpc, rm, crashes, changes>>
    PROVE  IInv'
  <1>1. dst[Part(n)] # Dir
    BY FileFacts, KindFacts DEF IInv, Tree
  <1>2. /\ dst' \in [Nodes -> {Absent, Dir} \cup FileType]
        /\ Tree'
        /\ dst'[Part(n)] = f /\ dst'[n] = dst[n]
        /\ \A m \in Names \ {n} : dst'[m] = dst[m] /\ dst'[Part(m)] = dst[Part(m)]
    BY <1>1, EntryPut, Places DEF IInv
  <1>3. TypeOK'
    <2>1. calm' \in BOOLEAN /\ faults' \in 0 .. MaxFaults
      BY Counters DEF IInv
    <2>2. job' \in [Names -> JobType]
      BY JobFacts DEF IInv, TypeOK
    <2> QED BY <1>2, <2>1, <2>2 DEF IInv, TypeOK, Goto
  <1>4. Removals'
    BY RemovalsGoto DEF IInv
  <1>5. pc'[n] = "copy" /\ \A m \in Names \ {n} : pc'[m] = pc[m]
    BY OtherNames DEF IInv
  <1>6. /\ job'[n].ver = src[n].ver /\ job'[n].key = src[n].key /\ ~job'[n].meta
        /\ \A m \in Names \ {n} : job'[m] = job[m]
    <2>1. job'[n] = NewJob(n, FALSE, s) /\ \A m \in Names \ {n} : job'[m] = job[m]
      BY DEF IInv, TypeOK
    <2> DEFINE f2 == NewJob(n, FALSE, s)
    <2>0. f2.ver = src[n].ver /\ f2.key = src[n].key /\ f2.meta = FALSE
      BY JobFacts, Zenon
    <2>2. job'[n].ver = src[n].ver /\ job'[n].key = src[n].key
      BY <2>0, <2>1
    <2>3. job'[n].meta = FALSE
      BY <2>0, <2>1
    <2>4. ~job'[n].meta
      BY <2>3, Zenon
    <2> QED BY <2>1, <2>2, <2>4
  <1>7. NameInv(n)'
    <2>1. NameInv(n)
      BY DEF IInv
    <2>9. src[n].ver \in Nat /\ src[n].key \in Nat
      BY NameTypes DEF IInv
    <2>2. Known(n)'
      BY <1>2, <1>6, <2>1, <2>9, NewJobKnown DEF NameInv
    <2>3. Retry(n)' /\ Whole(n)'
      BY <1>2, <2>1 DEF NameInv, Retry, Whole, Wanted
    <2>4. JobAt(n)'
      BY <1>2, <1>5, <1>6, FileFacts DEF JobAt
    <2> QED BY <2>2, <2>3, <2>4 DEF NameInv
  <1> QED BY <1>2, <1>3, <1>4, <1>5, <1>6, <1>7, NameChanges

LEMMA NewPartialFacts ==
    ASSUME NEW n \in Names, NEW f \in NewPartials(n)
    PROVE  f \in FileType /\ f.key = Now
  <1>1. PICK m \in BOOLEAN : f = FileRec(Part0, Now, n \notin OtherOwner, m)
    BY DEF NewPartials
  <1>2. Part0 \in Datas /\ Now \in KeyTags
    BY DEF Datas, KeyTags
  <1> QED BY <1>1, <1>2, NewFile

LEMMA SendFileInv ==
    ASSUME IInv, NEW n \in Names, SendFile(n)
    PROVE  IInv'
  <1>1. /\ pc[n] = "file" /\ src[n].kind = "file" /\ Wanted(n) /\ Goto(n, "copy")
        /\ UNCHANGED <<sync, src, dirpc, rm, crashes, changes>>
    BY DEF SendFile
  <1>2. CASE /\ NoFault
             /\ \E p \in NewPartials(n) : dst' = [dst EXCEPT ![Part(n)] = p]
             /\ job' = [job EXCEPT ![n] = NewJob(n, FALSE, FALSE)]
    <2>1. PICK p \in NewPartials(n) : dst' = [dst EXCEPT ![Part(n)] = p]
      BY <1>2
    <2> QED BY <1>1, <1>2, <2>1, NewPartialFacts, PartialOpened
  <1>3. CASE /\ dst[Part(n)] # Absent
             /\ Fault
             /\ dst' = [dst EXCEPT ![Part(n)].data = Part0]
             /\ job' = [job EXCEPT ![n] = NewJob(n, FALSE, TRUE)]
    <2> DEFINE f == [dst[Part(n)] EXCEPT !.data = Part0]
    <2>1. dst[Part(n)] \in FileType /\ dst[Part(n)].key = Now
      BY <1>3 DEF IInv, Tree
    <2>2. f \in FileType /\ f.key = Now
      BY <2>1, WithData DEF Datas
    <2>3. dst' = [dst EXCEPT ![Part(n)] = f]
      BY <1>3, Zenon
    <2> QED BY <1>1, <1>3, <2>2, <2>3, PartialOpened
  <1> QED BY <1>2, <1>3 DEF SendFile

LEMMA NoFileInv ==
    ASSUME IInv, NEW n \in Names, NoFile(n)
    PROVE  IInv'
  <1>1. /\ pc[n] = "file" /\ Wanted(n) /\ Goto(n, "idle") /\ (Fault \/ NoFault)
        /\ UNCHANGED <<sync, src, dirpc, job, rm, crashes, changes>>
    BY DEF NoFile
  <1>2. PICK f \in {Absent} \cup NewPartials(n) : dst' = [dst EXCEPT ![Part(n)] = f]
    BY DEF NoFile
  <1>3. f = Absent \/ (f \in FileType /\ f.key = Now)
    BY NewPartialFacts
  <1>4. dst[Part(n)] # Dir
    BY FileFacts, KindFacts DEF IInv, Tree
  <1>5. /\ dst' \in [Nodes -> {Absent, Dir} \cup FileType]
        /\ Tree'
        /\ dst'[n] = dst[n]
        /\ \A m \in Names \ {n} : dst'[m] = dst[m] /\ dst'[Part(m)] = dst[Part(m)]
    BY <1>1, <1>2, <1>3, <1>4, EntryPut, Places DEF IInv
  <1>6. TypeOK'
    <2>1. calm' \in BOOLEAN /\ faults' \in 0 .. MaxFaults
      BY <1>1, Counters DEF IInv
    <2> QED BY <1>1, <1>5, <2>1 DEF IInv, TypeOK, Goto
  <1>7. Removals'
    BY <1>1, RemovalsGoto DEF IInv
  <1>8. pc'[n] = "idle" /\ \A m \in Names \ {n} : pc'[m] = pc[m]
    BY <1>1, OtherNames DEF IInv
  <1>9. NameInv(n)'
    <2>1. NameInv(n)
      BY DEF IInv
    <2>2. Known(n)'
      BY <1>1, <1>5, <2>1 DEF NameInv, Known, Fresh
    <2>3. Retry(n)' /\ Whole(n)'
      BY <1>1, <1>5, <2>1 DEF NameInv, Retry, Whole, Wanted
    <2>4. JobAt(n)'
      BY <1>8 DEF JobAt
    <2> QED BY <2>2, <2>3, <2>4 DEF NameInv
  <1> QED BY <1>1, <1>5, <1>6, <1>7, <1>8, <1>9, NameChanges

----------------------------------------------------------------------------
(* The transfer, and finishProcessorOne.                                   *)

LEMMA WithErrors ==
    ASSUME NEW j \in JobType, NEW e \in BOOLEAN
    PROVE  /\ [j EXCEPT !.errors = e] \in JobType
           /\ [j EXCEPT !.errors = e].ver = j.ver /\ [j EXCEPT !.errors = e].key = j.key
           /\ [j EXCEPT !.errors = e].meta = j.meta
           /\ [j EXCEPT !.errors = e].errors = e
  BY DEF JobType

LEMMA WithSeen ==
    ASSUME NEW j \in JobType, NEW f \in FileType
    PROVE  /\ [j EXCEPT !.seen = f] \in JobType
           /\ [j EXCEPT !.seen = f].ver = j.ver /\ [j EXCEPT !.seen = f].key = j.key
           /\ [j EXCEPT !.seen = f].meta = j.meta
           /\ [j EXCEPT !.seen = f].errors = j.errors
  BY DEF JobType

\* What was read when the source has shown no change is the source's contents.
LEMMA ReadFresh ==
    ASSUME NEW n \in Names, Known(n), NEW data \in {Version(job[n].ver), Torn, Lost},
           job[n].ver = src[n].ver => src[n].kind = "file",
           data = Torn => src[n].kind # "file" \/ src[n].ver # job[n].ver,
           src[n].ver \in Nat, src[n].key \in Nat, job[n].ver \in Nat, job[n].key \in Nat
    PROVE  Fresh(n, job[n].key, data)
  <1> SUFFICES ASSUME job[n].key = src[n].key, src[n].ver = src[n].key
               PROVE  data \in {Version(src[n].ver), Lost}
    BY DEF Fresh
  <1>1. job[n].key <= job[n].ver /\ job[n].ver <= src[n].ver
    BY DEF Known
  <1>2. job[n].ver = src[n].ver
    BY <1>1
  <1> QED BY <1>2

LEMMA CopyInv ==
    ASSUME IInv, NEW n \in Names, Copy(n)
    PROVE  IInv'
  <1>1. /\ pc[n] = "copy" /\ Goto(n, "check")
        /\ UNCHANGED <<sync, src, dirpc, rm, crashes, changes>>
    BY DEF Copy
  <1>2. PICK o \in Outcomes, data \in {Version(job[n].ver), Torn, Bad, Lost} :
          /\ IF o = "good" THEN NoFault ELSE Fault
          /\ o = "errors" <=> data = Bad
          /\ data = Torn => src[n].kind # "file" \/ src[n].ver # job[n].ver
          /\ dst' = [dst EXCEPT ![Part(n)].data = data]
          /\ job' = [job EXCEPT ![n].errors = (o = "errors")]
    BY DEF Copy
  <1> DEFINE f == [dst[Part(n)] EXCEPT !.data = data]
  <1> DEFINE g == [job[n] EXCEPT !.errors = (o = "errors")]
  <1>3. NameInv(n) /\ ~job[n].meta /\ dst[Part(n)].kind = "file"
    BY <1>1 DEF IInv, NameInv, JobAt
  <1>4. dst[Part(n)] \in FileType /\ dst[Part(n)].key = Now
    BY <1>3, KindFacts DEF IInv, Tree
  <1>5. data \in Datas
    BY NameTypes DEF Datas, IInv
  <1>6. f \in FileType /\ f.key = Now /\ f.data = data
    BY <1>4, <1>5, WithData
  <1>7. dst' = [dst EXCEPT ![Part(n)] = f] /\ job' = [job EXCEPT ![n] = g]
    BY <1>2, Zenon
  <1>8. job[n] \in JobType
    BY DEF IInv, TypeOK
  <1>9. /\ g \in JobType /\ g.ver = job[n].ver /\ g.key = job[n].key
        /\ g.meta = job[n].meta /\ g.errors = (o = "errors")
    <2>1. (o = "errors") \in BOOLEAN
      OBVIOUS
    <2> QED BY <1>8, <2>1, WithErrors, Zenon
  <1> HIDE DEF f, g
  <1>10. /\ dst' \in [Nodes -> {Absent, Dir} \cup FileType]
         /\ Tree'
         /\ dst'[Part(n)] = f /\ dst'[n] = dst[n]
         /\ \A m \in Names \ {n} : dst'[m] = dst[m] /\ dst'[Part(m)] = dst[Part(m)]
    BY <1>1, <1>4, <1>6, <1>7, EntryPut, Places, FileFacts DEF IInv
  <1>11. Fault \/ NoFault
    BY <1>2
  <1>12. job'[n] = g /\ (\A m \in Names \ {n} : job'[m] = job[m])
                     /\ job' \in [Names -> JobType]
    BY <1>7, <1>9 DEF IInv, TypeOK
  <1>13. TypeOK'
    <2>1. calm' \in BOOLEAN /\ faults' \in 0 .. MaxFaults
      BY <1>11, Counters DEF IInv
    <2> QED BY <1>1, <1>10, <1>12, <2>1 DEF IInv, TypeOK, Goto
  <1>14. Removals'
    BY <1>1, RemovalsGoto DEF IInv
  <1>15. pc'[n] = "check" /\ \A m \in Names \ {n} : pc'[m] = pc[m]
    BY <1>1, OtherNames DEF IInv
  <1>16. NameInv(n)'
    <2>1. src'[n] = src[n] /\ job'[n].ver = job[n].ver /\ job'[n].key = job[n].key
      BY <1>1, <1>9, <1>12
    <2>2. Known(n)'
      BY <1>3, <1>10, <2>1 DEF NameInv, Known, Fresh
    <2>3. Wanted(n) /\ src'[n] = src[n]
      BY <1>3, <1>4, <2>1, FileFacts DEF NameInv, Retry
    <2>4. Retry(n)' /\ Whole(n)'
      BY <1>3, <1>10, <2>3 DEF NameInv, Retry, Whole, Wanted
    <2>5. ~job'[n].meta
      BY <1>3, <1>9, <1>12, Zenon
    <2>6. job'[n].errors <=> data = Bad
      <3>1. job'[n].errors = (o = "errors")
        BY <1>9, <1>12, Zenon
      <3> QED BY <1>2, <3>1, Zenon
    <2>7. dst'[Part(n)].kind = "file" /\ dst'[Part(n)].data = data /\ data # Part0
      BY <1>6, <1>10, FileFacts, Tags, NameTypes DEF IInv
    <2>8. data # Bad => Fresh(n, job[n].key, data)
      <3>1. job[n].ver = src[n].ver => src[n].kind = "file"
        BY <1>1, <1>3 DEF NameInv, JobAt
      <3>2. Known(n)
        BY <1>3 DEF NameInv
      <3>3. /\ src[n].ver \in Nat /\ src[n].key \in Nat
            /\ job[n].ver \in Nat /\ job[n].key \in Nat
        BY NameTypes DEF IInv
      <3>4. data = Torn => src[n].kind # "file" \/ src[n].ver # job[n].ver
        BY <1>2
      <3>5. data # Bad => data \in {Version(job[n].ver), Torn, Lost}
        OBVIOUS
      <3> QED BY <3>1, <3>2, <3>3, <3>4, <3>5, ReadFresh
    <2>9. ~job'[n].errors => Fresh(n, job[n].key, data)'
      BY <2>1, <2>6, <2>8 DEF Fresh
    <2>10. JobAt(n)'
      <3>1. pc'[n] = "check"
        BY <1>15
      <3>2. dst'[Part(n)].data = Bad => job'[n].errors
        BY <2>6, <2>7
      <3>3. ~job'[n].errors => Fresh(n, job[n].key, dst[Part(n)].data)'
        BY <2>1, <2>7, <2>9 DEF Fresh
      <3> QED BY <2>5, <2>7, <3>1, <3>2, <3>3 DEF JobAt
    <2> QED BY <2>2, <2>4, <2>10 DEF NameInv
  <1> QED BY <1>1, <1>10, <1>12, <1>13, <1>14, <1>15, <1>16, NameChanges

LEMMA CheckInv ==
    ASSUME IInv, NEW n \in Names, Check(n)
    PROVE  IInv'
  <1> DEFINE at == IF job[n].meta THEN n ELSE Part(n)
  <1>1. /\ pc[n] = "check" /\ NoFault
        /\ UNCHANGED <<sync, src, dst, dirpc, crashes, changes>>
    BY DEF Check
  <1>2. CASE Goto(n, "discard") /\ UNCHANGED <<job, rm>>
    BY <1>1, <1>2, GotoQuiet
  <1>3. CASE /\ dst[at].kind = "file" /\ ~job[n].errors
             /\ job' = [job EXCEPT ![n].seen = dst[at]]
             /\ Goto(n, IF job[n].meta THEN "times" ELSE "clear")
             /\ rm' = IF job[n].meta THEN rm ELSE [rm EXCEPT ![n] = "task"]
    <2> DEFINE g == [job[n] EXCEPT !.seen = dst[at]]
    <2>1. dst[at] \in FileType
      BY <1>3, NameTypes DEF IInv
    <2>2. job[n] \in JobType
      BY DEF IInv, TypeOK
    <2>3. /\ g \in JobType /\ g.ver = job[n].ver /\ g.key = job[n].key
          /\ g.meta = job[n].meta /\ g.errors = job[n].errors
      BY <2>1, <2>2, WithSeen, Zenon
    <2>4. job' = [job EXCEPT ![n] = g]
      BY <1>3, Zenon
    <2> HIDE DEF g
    <2>5. job'[n] = g /\ (\A m \in Names \ {n} : job'[m] = job[m])
                      /\ job' \in [Names -> JobType]
      BY <2>3, <2>4 DEF IInv, TypeOK
    <2>6. rm[n] = "none" /\ dirpc = "done" /\ n \in Nodes /\ n \notin Kids
      BY <1>1, Places DEF IInv, Removals
    <2>7. /\ rm' \in [Nodes -> {"none", "task", "listed"}]
          /\ \A p \in Nodes \ {n} : rm'[p] = rm[p]
          /\ rm'[n] = (IF job[n].meta THEN "none" ELSE "task")
      BY <1>3, <2>6 DEF IInv, TypeOK
    <2>8. /\ pc'[n] = (IF job[n].meta THEN "times" ELSE "clear")
          /\ \A m \in Names \ {n} : pc'[m] = pc[m]
          /\ pc' \in [Names -> {"idle", "file", "dir", "prune", "copy", "check",
                                "clear", "times", "owner", "mode", "discard"}]
      BY <1>3 DEF IInv, TypeOK, Goto
    <2>9. TypeOK'
      <3>1. calm' \in BOOLEAN /\ faults' \in 0 .. MaxFaults
        BY <1>1, Counters DEF IInv
      <3> QED BY <1>1, <2>5, <2>7, <2>8, <3>1 DEF IInv, TypeOK
    <2>10. Tree'
      <3>1. \A p \in Nodes : rm'[p] = "listed" => rm[p] = "listed"
        BY <2>7
      <3> QED BY <1>1, <3>1, TreeSame DEF IInv
    <2>11. Removals'
      <3>1. dirpc' = "done"
        BY <1>1, <2>6
      <3>2. \A m \in Names : /\ rm'[m] = "none" \/ pc'[m] = "clear"
                             /\ rm'[Part(m)] = "none"
        BY <1>1, <2>6, <2>7, <2>8, Places DEF IInv, Removals
      <3>3. ASSUME NEW k \in Kids
            PROVE  \/ rm'[k] = "none"
                   \/ rm'[KidParent[k]] = "listed"
                   \/ KidParent[k] \in Names /\ pc'[KidParent[k]] = "prune"
        BY <1>1, <2>6, <2>7, <2>8, Places DEF IInv, Removals
      <3> QED BY <3>1, <3>2, <3>3 DEF Removals
    <2>12. NameInv(n)'
      <3>1. /\ src'[n] = src[n] /\ dst'[n] = dst[n] /\ dst'[Part(n)] = dst[Part(n)]
            /\ job'[n].ver = job[n].ver /\ job'[n].key = job[n].key
        BY <1>1, <2>3, <2>5
      <3>2. NameInv(n)
        BY DEF IInv
      <3>3. Known(n)'
        BY <3>1, <3>2 DEF NameInv, Known, Fresh
      <3>4. Retry(n)' /\ Whole(n)'
        BY <3>1, <3>2 DEF NameInv, Retry, Whole, Wanted
      <3>5. JobAt(n)'
        <4>1. CASE job[n].meta
          <5>1. pc'[n] = "times"
            BY <2>8, <4>1
          <5> QED BY <1>1, <3>1, <3>2, <4>1, <5>1 DEF NameInv, JobAt, Fresh
        <4>2. CASE ~job[n].meta
          <5>1. pc'[n] = "clear"
            BY <2>8, <4>2
          <5>2. ~job'[n].errors
            BY <1>3, <2>3, <2>5, Zenon
          <5> QED BY <1>1, <1>3, <3>1, <3>2, <4>2, <5>1, <5>2 DEF NameInv, JobAt, Fresh
        <4> QED BY <4>1, <4>2
      <3> QED BY <3>3, <3>4, <3>5 DEF NameInv
    <2> QED BY <1>1, <2>5, <2>8, <2>9, <2>10, <2>11, <2>12, NameChanges
  <1> QED BY <1>2, <1>3 DEF Check

LEMMA CheckFailsInv ==
    ASSUME IInv, NEW n \in Names, CheckFails(n)
    PROVE  IInv'
  BY GotoQuiet DEF CheckFails

LEMMA RenameFailsInv ==
    ASSUME IInv, NEW n \in Names, RenameFails(n)
    PROVE  IInv'
  BY GotoQuiet DEF RenameFails

LEMMA SetFailsInv ==
    ASSUME IInv, NEW n \in Names, SetFails(n)
    PROVE  IInv'
  BY GotoQuiet DEF SetFails

LEMMA RenameInv ==
    ASSUME IInv, NEW n \in Names, Rename(n)
    PROVE  IInv'
  <1>1. /\ pc[n] = "clear" /\ rm[n] = "none" /\ NoFault
        /\ UNCHANGED <<sync, src, dirpc, job, rm, crashes, changes>>
    BY DEF Rename
  <1>2. CASE Goto(n, "discard") /\ UNCHANGED dst
    BY <1>1, <1>2, GotoQuiet
  <1>3. CASE /\ dst[n] # Dir /\ dst[Part(n)] # Absent
             /\ dst' = [dst EXCEPT ![n] = dst[Part(n)], ![Part(n)] = Absent]
             /\ Goto(n, "times")
    <2> DEFINE f == dst[Part(n)]
    <2>1. f \in FileType /\ f.key = Now
      BY <1>3 DEF IInv, Tree
    <2>2. /\ n \in Nodes /\ Part(n) \in Nodes /\ n # Part(n)
      BY Places
    <2>3. /\ dst' \in [Nodes -> {Absent, Dir} \cup FileType]
          /\ dst'[n] = f /\ dst'[Part(n)] = Absent
          /\ \A p \in Nodes \ {n, Part(n)} : dst'[p] = dst[p]
      BY <1>3, <2>1, <2>2 DEF IInv, TypeOK
    <2>4. \A m \in Names \ {n} : dst'[m] = dst[m] /\ dst'[Part(m)] = dst[Part(m)]
      BY <2>3, Places
    <2>5. Tree'
      <3>1. \A m \in Names : \/ dst'[Part(m)] = Absent
                             \/ dst'[Part(m)] \in FileType /\ dst'[Part(m)].key = Now
        BY <2>3, <2>4 DEF IInv, Tree
      <3>2. \A k \in Kids : dst'[k] # Absent => dst'[KidParent[k]] = Dir
        BY <1>3, <2>3, Places DEF IInv, Tree
      <3>3. dst[Part(n)] # Dir
        BY <2>1, FileFacts
      <3>4. \A q \in Nodes : rm'[q] = "listed" => dst'[q] = Dir
        BY <1>1, <1>3, <2>3, <3>3 DEF IInv, Tree
      <3> QED BY <3>1, <3>2, <3>4 DEF Tree
    <2>6. TypeOK'
      <3>1. calm' \in BOOLEAN /\ faults' \in 0 .. MaxFaults
        BY <1>1, Counters DEF IInv
      <3> QED BY <1>1, <1>3, <2>3, <3>1 DEF IInv, TypeOK, Goto
    <2>7. Removals'
      BY <1>1, <1>3, RemovalsGoto DEF IInv
    <2>8. pc'[n] = "times" /\ \A m \in Names \ {n} : pc'[m] = pc[m]
      BY <1>3, OtherNames DEF IInv
    <2>9. NameInv(n)'
      <3>1. NameInv(n) /\ src'[n] = src[n] /\ job'[n] = job[n]
        BY <1>1 DEF IInv
      <3>2. \A k \in 0 .. MaxChanges : f.key # Version(k)
        BY <2>1, Tags
      <3>3. Known(n)'
        BY <2>3, <3>1, <3>2 DEF NameInv, Known, Fresh
      <3>4. Fresh(n, job[n].key, f.data) /\ f.data \notin {Part0, Bad}
        BY <1>1, <3>1 DEF NameInv, JobAt
      <3>5. Retry(n)' /\ Whole(n)'
        BY <2>3, <3>4 DEF Retry, Whole
      <3>6. JobAt(n)'
        BY <2>1, <2>3, <2>8, <3>1, <3>4, FileFacts DEF JobAt, Fresh
      <3> QED BY <3>3, <3>5, <3>6 DEF NameInv
    <2> QED BY <1>1, <2>4, <2>5, <2>6, <2>7, <2>8, <2>9, NameChanges
  <1> QED BY <1>2, <1>3 DEF Rename

\* The file under the name gets its metadata.
LEMMA MetadataSet ==
    ASSUME IInv, NEW n \in Names, NEW f \in FileType,
           NEW w \in {"owner", "mode", "idle"}, Goto(n, w),
           pc[n] \in {"times", "owner", "mode"},
           dst' = [dst EXCEPT ![n] = f],
           f.data = dst[n].data,
           f.key = dst[n].key \/ (pc[n] = "times" /\ f.key = Version(job[n].key)),
           NoFault, UNCHANGED <<sync, src, dirpc, job, rm, crashes, changes>>
    PROVE  IInv'
  <1>1. NameInv(n) /\ dst[n].kind = "file" /\ dst[Part(n)] = Absent
    BY DEF IInv, NameInv, JobAt
  <1>2. /\ dst' \in [Nodes -> {Absent, Dir} \cup FileType]
        /\ Tree'
        /\ dst'[n] = f /\ dst'[Part(n)] = dst[Part(n)]
        /\ \A m \in Names \ {n} : dst'[m] = dst[m] /\ dst'[Part(m)] = dst[Part(m)]
    BY <1>1, EntryPut, Places, KindFacts DEF IInv
  <1>3. TypeOK'
    <2>1. calm' \in BOOLEAN /\ faults' \in 0 .. MaxFaults
      BY Counters DEF IInv
    <2> QED BY <1>2, <2>1 DEF IInv, TypeOK, Goto
  <1>4. Removals'
    BY RemovalsGoto DEF IInv
  <1>5. pc'[n] = w /\ \A m \in Names \ {n} : pc'[m] = pc[m]
    BY OtherNames DEF IInv
  <1>6. NameInv(n)'
    <2>1. src'[n] = src[n] /\ job'[n] = job[n]
      OBVIOUS
    <2>2. \A k \in 0 .. MaxChanges : f.key = Version(k) =>
             k <= src[n].key /\ Fresh(n, k, f.data)
      <3>1. CASE f.key = dst[n].key
        BY <1>1, <3>1 DEF NameInv, Known
      <3>2. CASE pc[n] = "times" /\ f.key = Version(job[n].key)
        <4>1. job[n].key \in 0 .. MaxChanges /\ job[n].key <= src[n].key
          BY <1>1, NameTypes DEF IInv, NameInv, Known
        <4>2. Fresh(n, job[n].key, f.data)
          BY <1>1, <3>2 DEF NameInv, JobAt
        <4> QED BY <3>2, <4>1, <4>2, Tags
      <3> QED BY <3>1, <3>2
    <2>3. Known(n)'
      BY <1>1, <1>2, <2>1, <2>2 DEF NameInv, Known, Fresh
    <2>4. Retry(n)' /\ Whole(n)'
      BY <1>1, <1>2 DEF NameInv, Retry, Whole
    <2>5. JobAt(n)'
      BY <1>1, <1>2, <1>5, FileFacts DEF JobAt
    <2> QED BY <2>3, <2>4, <2>5 DEF NameInv
  <1> QED BY <1>2, <1>3, <1>4, <1>5, <1>6, NameChanges

\* What the three calls find, and the case that nothing differs.
LEMMA MetadataFound ==
    ASSUME IInv, NEW n \in Names, pc[n] \in {"times", "owner", "mode"}
    PROVE  /\ dst[n] \in FileType
           /\ dst = [dst EXCEPT ![n] = dst[n]]
  <1>1. dst[n].kind = "file"
    BY DEF IInv, NameInv, JobAt
  <1> QED BY <1>1, NameTypes, Places DEF IInv, TypeOK

LEMMA SetTimesInv ==
    ASSUME IInv, NEW n \in Names, SetTimes(n)
    PROVE  IInv'
  <1>1. /\ pc[n] = "times" /\ Goto(n, "owner") /\ NoFault
        /\ UNCHANGED <<sync, src, dirpc, job, rm, crashes, changes>>
        /\ dst' = dst \/ dst' = [dst EXCEPT ![n].key = Version(job[n].key)]
    BY DEF SetTimes
  <1>2. CASE dst' = dst
    <2>1. dst[n] \in FileType /\ dst' = [dst EXCEPT ![n] = dst[n]]
      BY <1>1, <1>2, MetadataFound
    <2> QED BY <1>1, <2>1, MetadataSet
  <1>3. CASE dst' = [dst EXCEPT ![n].key = Version(job[n].key)]
    <2> DEFINE f == [dst[n] EXCEPT !.key = Version(job[n].key)]
    <2>1. Version(job[n].key) \in KeyTags
      BY NameTypes DEF KeyTags, IInv
    <2>2. f \in FileType /\ f.data = dst[n].data /\ f.key = Version(job[n].key)
      BY <1>1, <2>1, MetadataFound, WithKey
    <2>3. dst' = [dst EXCEPT ![n] = f]
      BY <1>3, Zenon
    <2> HIDE DEF f
    <2> QED BY <1>1, <2>2, <2>3, MetadataSet
  <1> QED BY <1>1, <1>2, <1>3

LEMMA SetOwnerInv ==
    ASSUME IInv, NEW n \in Names, SetOwner(n)
    PROVE  IInv'
  <1>1. /\ pc[n] = "owner" /\ Goto(n, "mode") /\ NoFault
        /\ UNCHANGED <<sync, src, dirpc, job, rm, crashes, changes>>
    BY DEF SetOwner
  <1>2. CASE dst' = dst
    <2>1. dst[n] \in FileType /\ dst' = [dst EXCEPT ![n] = dst[n]]
      BY <1>1, <1>2, MetadataFound
    <2> QED BY <1>1, <2>1, MetadataSet
  <1>3. CASE dst' = [dst EXCEPT ![n].owner = TRUE,
                                ![n].mode = @ /\ n \notin SetId]
    <2> DEFINE f == [dst[n] EXCEPT !.owner = TRUE,
                                   !.mode = dst[n].mode /\ n \notin SetId]
    <2>1. dst[n] \in FileType /\ n \in Nodes
      BY <1>1, MetadataFound, Places
    <2>2. f \in FileType /\ f.data = dst[n].data /\ f.key = dst[n].key
      <3>1. (dst[n].mode /\ n \notin SetId) \in BOOLEAN
        OBVIOUS
      <3> QED BY <2>1, <3>1, WithOwner, Zenon
    <2>3. dst' = [dst EXCEPT ![n] = f]
      BY <1>3, <2>1 DEF IInv, TypeOK, FileType
    <2> HIDE DEF f
    <2> QED BY <1>1, <2>2, <2>3, MetadataSet
  <1> QED BY <1>2, <1>3 DEF SetOwner

LEMMA SetModeInv ==
    ASSUME IInv, NEW n \in Names, SetMode(n)
    PROVE  IInv'
  <1>1. /\ pc[n] = "mode" /\ Goto(n, "idle") /\ NoFault
        /\ UNCHANGED <<sync, src, dirpc, job, rm, crashes, changes>>
    BY DEF SetMode
  <1>2. CASE dst' = dst
    <2>1. dst[n] \in FileType /\ dst' = [dst EXCEPT ![n] = dst[n]]
      BY <1>1, <1>2, MetadataFound
    <2> QED BY <1>1, <2>1, MetadataSet
  <1>3. CASE dst' = [dst EXCEPT ![n].mode = TRUE]
    <2> DEFINE f == [dst[n] EXCEPT !.mode = TRUE]
    <2>1. f \in FileType /\ f.data = dst[n].data /\ f.key = dst[n].key
      BY <1>1, MetadataFound, WithMode
    <2>2. dst' = [dst EXCEPT ![n] = f]
      BY <1>3, Zenon
    <2> HIDE DEF f
    <2> QED BY <1>1, <2>1, <2>2, MetadataSet
  <1> QED BY <1>2, <1>3 DEF SetMode

LEMMA DiscardInv ==
    ASSUME IInv, NEW n \in Names, Discard(n)
    PROVE  IInv'
  <1>1. /\ pc[n] = "discard" /\ Goto(n, "idle") /\ (Fault \/ NoFault)
        /\ UNCHANGED <<sync, src, dirpc, job, rm, crashes, changes>>
    BY DEF Discard
  <1>2. CASE dst' = dst
    BY <1>1, <1>2, GotoQuiet
  <1>3. CASE dst' = [dst EXCEPT ![Part(n)] = Absent]
    <2>1. dst[Part(n)] # Dir
      BY FileFacts, KindFacts DEF IInv, Tree
    <2>2. /\ dst' \in [Nodes -> {Absent, Dir} \cup FileType]
          /\ Tree'
          /\ dst'[n] = dst[n] /\ dst'[Part(n)] = Absent
          /\ \A m \in Names \ {n} : dst'[m] = dst[m] /\ dst'[Part(m)] = dst[Part(m)]
      BY <1>1, <1>3, <2>1, EntryPut, Places DEF IInv
    <2>3. TypeOK'
      <3>1. calm' \in BOOLEAN /\ faults' \in 0 .. MaxFaults
        BY <1>1, Counters DEF IInv
      <3> QED BY <1>1, <2>2, <3>1 DEF IInv, TypeOK, Goto
    <2>4. Removals'
      BY <1>1, RemovalsGoto DEF IInv
    <2>5. pc'[n] = "idle" /\ \A m \in Names \ {n} : pc'[m] = pc[m]
      BY <1>1, OtherNames DEF IInv
    <2>6. NameInv(n)'
      <3>1. NameInv(n) /\ src'[n] = src[n] /\ job'[n] = job[n]
        BY <1>1 DEF IInv
      <3>2. Known(n)'
        BY <2>2, <3>1 DEF NameInv, Known, Fresh
      <3>3. Retry(n)' /\ Whole(n)' /\ JobAt(n)'
        BY <2>2, <2>5, <3>1 DEF NameInv, Retry, Whole, JobAt
      <3> QED BY <3>2, <3>3 DEF NameInv
    <2> QED BY <1>1, <2>2, <2>3, <2>4, <2>5, <2>6, NameChanges
  <1> QED BY <1>2, <1>3 DEF Discard

----------------------------------------------------------------------------
(* processDir for a subdirectory.                                          *)

LEMMA CrawlDirInv ==
    ASSUME IInv, NEW n \in Names, CrawlDir(n)
    PROVE  IInv'
  <1>1. /\ pc[n] = "dir" /\ NoFault
        /\ UNCHANGED <<sync, src, dirpc, job, crashes, changes>>
    BY DEF CrawlDir
  <1>2. CASE Goto(n, "idle") /\ UNCHANGED <<dst, rm>>
    BY <1>1, <1>2, GotoQuiet
  <1>3. CASE /\ dst[n].kind # "file"
             /\ dst' = [dst EXCEPT ![n] = Dir]
             /\ Goto(n, "prune")
             /\ rm' = [q \in Nodes |->
                         IF sync /\ q \in Children(n) /\ dst[q] # Absent
                         THEN "task" ELSE rm[q]]
    <2>1. dirpc = "done" /\ rm[n] = "none"
      BY <1>1 DEF IInv, Removals
    <2>2. \A k \in Children(n) : rm[k] = "none" /\ k \in Kids
      BY <1>1, <2>1 DEF IInv, Removals, Children
    <2>3. /\ rm' \in [Nodes -> {"none", "task", "listed"}]
          /\ \A q \in Nodes : rm'[q] = "listed" => rm[q] = "listed"
          /\ \A q \in Nodes : rm'[q] = rm[q] \/ q \in Children(n)
      BY <1>3 DEF IInv, TypeOK
    <2>4. /\ dst' \in [Nodes -> {Absent, Dir} \cup FileType]
          /\ Tree'
          /\ dst'[n] = Dir /\ dst'[Part(n)] = dst[Part(n)]
          /\ \A m \in Names \ {n} : dst'[m] = dst[m] /\ dst'[Part(m)] = dst[Part(m)]
      BY <1>3, <2>3, EntryPut, Places DEF IInv
    <2>5. TypeOK'
      <3>1. calm' \in BOOLEAN /\ faults' \in 0 .. MaxFaults
        BY <1>1, Counters DEF IInv
      <3> QED BY <1>1, <1>3, <2>3, <2>4, <3>1 DEF IInv, TypeOK, Goto
    <2>6. pc'[n] = "prune" /\ \A m \in Names \ {n} : pc'[m] = pc[m]
      BY <1>3, OtherNames DEF IInv
    <2>7. Removals'
      <3>1. \A m \in Names : /\ rm'[m] = "none" \/ pc'[m] = "clear"
                             /\ rm'[Part(m)] = "none"
        BY <1>1, <2>1, <2>2, <2>3, <2>6, Places DEF IInv, Removals
      <3>2. ASSUME NEW k \in Kids
            PROVE  \/ rm'[k] = "none"
                   \/ rm'[KidParent[k]] = "listed"
                   \/ KidParent[k] \in Names /\ pc'[KidParent[k]] = "prune"
        <4>1. CASE k \in Children(n)
          BY <2>6, <4>1 DEF Children
        <4>2. CASE k \notin Children(n)
          <5>1. rm'[k] = rm[k]
            BY <2>3, <4>2, Places
          <5>2. rm[KidParent[k]] = "listed" => rm'[KidParent[k]] = "listed"
            BY <2>2, <2>3, Places
          <5>3. KidParent[k] # n
            BY <4>2 DEF Children
          <5> QED BY <2>6, <5>1, <5>2, <5>3 DEF IInv, Removals
        <4> QED BY <4>1, <4>2
      <3> QED BY <1>1, <2>1, <3>1, <3>2 DEF Removals
    <2>8. NameInv(n)'
      <3>1. NameInv(n) /\ src'[n] = src[n] /\ job'[n] = job[n]
        BY <1>1 DEF IInv
      <3>2. Known(n)'
        BY <2>4, <3>1, KindFacts DEF NameInv, Known, Fresh
      <3>3. Retry(n)' /\ Whole(n)' /\ JobAt(n)'
        BY <2>4, <2>6, KindFacts DEF Retry, Whole, JobAt, Wanted
      <3> QED BY <3>2, <3>3 DEF NameInv
    <2> QED BY <1>1, <2>4, <2>5, <2>6, <2>7, <2>8, NameChanges
  <1> QED BY <1>2, <1>3 DEF CrawlDir

LEMMA CrawlDirFailsInv ==
    ASSUME IInv, NEW n \in Names, CrawlDirFails(n)
    PROVE  IInv'
  <1>1. /\ pc[n] = "dir" /\ Fault /\ Goto(n, "idle")
        /\ UNCHANGED <<sync, src, dirpc, job, rm, crashes, changes>>
    BY DEF CrawlDirFails
  <1>2. CASE dst' = dst
    BY <1>1, <1>2, GotoQuiet
  <1>3. CASE dst[n] = Absent /\ dst' = [dst EXCEPT ![n] = Dir]
    <2>1. /\ dst' \in [Nodes -> {Absent, Dir} \cup FileType]
          /\ Tree'
          /\ dst'[n] = Dir /\ dst'[Part(n)] = dst[Part(n)]
          /\ \A m \in Names \ {n} : dst'[m] = dst[m] /\ dst'[Part(m)] = dst[Part(m)]
      BY <1>1, <1>3, EntryPut, KindFacts DEF IInv
    <2>2. TypeOK'
      <3>1. calm' \in BOOLEAN /\ faults' \in 0 .. MaxFaults
        BY <1>1, Counters DEF IInv
      <3> QED BY <1>1, <2>1, <3>1 DEF IInv, TypeOK, Goto
    <2>3. Removals'
      BY <1>1, RemovalsGoto DEF IInv
    <2>4. pc'[n] = "idle" /\ \A m \in Names \ {n} : pc'[m] = pc[m]
      BY <1>1, OtherNames DEF IInv
    <2>5. NameInv(n)'
      <3>1. NameInv(n) /\ src'[n] = src[n] /\ job'[n] = job[n]
        BY <1>1 DEF IInv
      <3>2. Known(n)'
        BY <2>1, <3>1, KindFacts DEF NameInv, Known, Fresh
      <3>3. Retry(n)' /\ Whole(n)' /\ JobAt(n)'
        BY <2>1, <2>4, KindFacts DEF Retry, Whole, JobAt, Wanted
      <3> QED BY <3>2, <3>3 DEF NameInv
    <2> QED BY <1>1, <2>1, <2>2, <2>3, <2>4, <2>5, NameChanges
  <1> QED BY <1>2, <1>3 DEF CrawlDirFails

\* A step that leaves the entries and the jobs alone.
LEMMA NamesKept ==
    ASSUME IInv, TypeOK', Removals', UNCHANGED <<src, dst, job, changes>>,
           \A p \in Nodes : rm'[p] = "listed" => rm[p] = "listed" \/ dst[p] = Dir,
           \A n \in Names : pc'[n] = pc[n] \/ pc'[n] \notin Calls
    PROVE  IInv'
  <1>1. Tree'
    BY TreeSame DEF IInv
  <1>2. ASSUME NEW n \in Names PROVE NameInv(n)'
    BY NameFrame DEF IInv
  <1>3. Counted'
    BY DEF IInv, Counted
  <1> QED BY <1>1, <1>2, <1>3 DEF IInv

LEMMA PrunedInv ==
    ASSUME IInv, NEW n \in Names, Pruned(n)
    PROVE  IInv'
  <1>1. /\ pc[n] = "prune" /\ Goto(n, "idle")
        /\ \A k \in Children(n) : rm[k] = "none"
        /\ UNCHANGED <<sync, src, dst, dirpc, job, rm, faults, crashes, changes, calm>>
    BY DEF Pruned
  <1>2. TypeOK'
    BY <1>1 DEF IInv, TypeOK, Goto
  <1>3. Removals'
    BY <1>1, RemovalsGoto DEF IInv
  <1>4. \A m \in Names : pc'[m] = pc[m] \/ pc'[m] = "idle"
    BY <1>1 DEF IInv, TypeOK, Goto
  <1> QED BY <1>1, <1>2, <1>3, <1>4, NamesKept DEF Calls

----------------------------------------------------------------------------
(* processDir for the directory itself.                                    *)

LEMMA StartRunInv ==
    ASSUME IInv, StartRun
    PROVE  IInv'
  <1>1. /\ dirpc = "off" /\ dirpc' = (IF sync THEN "sync" ELSE "crawl")
        /\ calm' = TRUE
        /\ UNCHANGED <<sync, src, dst, pc, job, rm, faults, crashes, changes>>
    BY DEF StartRun
  <1>2. TypeOK'
    <2>1. calm' \in BOOLEAN
      BY <1>1, Zenon
    <2> QED BY <1>1, <2>1 DEF IInv, TypeOK
  <1>3. \A p \in Nodes : rm'[p] = "none"
    BY <1>1 DEF IInv, Removals
  <1>4. \A n \in Names : pc'[n] = "idle"
    BY <1>1 DEF IInv, Removals
  <1>5. dirpc' = "sync" => sync'
    BY <1>1
  <1>6. Removals'
    BY <1>1, <1>3, <1>4, <1>5, Places DEF Removals
  <1> QED BY <1>1, <1>2, <1>6, NamesKept

LEMMA ListExtrasInv ==
    ASSUME IInv, ListExtras
    PROVE  IInv'
  <1>1. /\ dirpc = "sync" /\ dirpc' = "prune" /\ NoFault
        /\ UNCHANGED <<sync, src, dst, pc, job, crashes, changes>>
    BY DEF ListExtras
  <1>2. /\ rm' \in [Nodes -> {"none", "task", "listed"}]
        /\ \A p \in Nodes : rm'[p] = "listed" => rm[p] = "listed"
        /\ \A p \in Nodes : p \notin Entries => rm'[p] = rm[p]
    BY DEF ListExtras, IInv, TypeOK
  <1>3. TypeOK'
    <2>1. calm' \in BOOLEAN /\ faults' \in 0 .. MaxFaults
      BY <1>1, Counters DEF IInv
    <2> QED BY <1>1, <1>2, <2>1 DEF IInv, TypeOK
  <1>4. (\A n \in Names : pc'[n] = "idle") /\ sync'
    BY <1>1 DEF IInv, Removals
  <1>5. \A k \in Kids : rm'[k] = "none"
    <2>1. \A k \in Kids : k \in Nodes /\ k \notin Entries
      BY Places DEF Entries
    <2> QED BY <1>1, <1>2, <2>1 DEF IInv, Removals
  <1>6. Removals'
    BY <1>1, <1>4, <1>5 DEF Removals
  <1> QED BY <1>1, <1>2, <1>3, <1>6, NamesKept

LEMMA DirFailsInv ==
    ASSUME IInv, DirFails
    PROVE  IInv'
  <1>1. /\ dirpc \in {"sync", "crawl"} /\ dirpc' = "done" /\ Fault
        /\ UNCHANGED <<sync, src, dst, pc, job, rm, crashes, changes>>
    BY DEF DirFails
  <1>2. TypeOK'
    <2>1. calm' \in BOOLEAN /\ faults' \in 0 .. MaxFaults
      BY <1>1, Counters DEF IInv
    <2> QED BY <1>1, <2>1 DEF IInv, TypeOK
  <1>3. \A p \in Nodes : rm'[p] = "none"
    BY <1>1 DEF IInv, Removals
  <1>4. Removals'
    BY <1>1, <1>3, Places DEF Removals
  <1> QED BY <1>1, <1>2, <1>4, NamesKept

LEMMA CrawlInv ==
    ASSUME IInv, Crawl
    PROVE  IInv'
  <1>1. /\ dirpc' = "done" /\ NoFault
        /\ pc' = [n \in Names |->
                     IF src[n].kind = "gone" THEN "idle" ELSE src[n].kind]
        /\ UNCHANGED <<sync, src, dst, job, rm, crashes, changes>>
    BY DEF Crawl
  <1>2. \A p \in Nodes : rm'[p] = "none"
    BY DEF Crawl, IInv, Removals
  <1>3. \A n \in Names : src[n].kind \in {"file", "dir", "gone"}
    BY OptionAssumption DEF IInv, TypeOK
  <1>4. \A n \in Names : pc'[n] \in {"idle", "file", "dir"}
    BY <1>1, <1>3
  <1>5. TypeOK'
    <2>1. calm' \in BOOLEAN /\ faults' \in 0 .. MaxFaults
      BY <1>1, Counters DEF IInv
    <2>2. pc' \in [Names -> {"idle", "file", "dir", "prune", "copy", "check",
                             "clear", "times", "owner", "mode", "discard"}]
      BY <1>1, <1>4
    <2> QED BY <1>1, <2>1, <2>2 DEF IInv, TypeOK
  <1>6. Removals'
    BY <1>1, <1>2, Places DEF Removals
  <1> QED BY <1>1, <1>2, <1>4, <1>5, <1>6, NamesKept DEF Calls

\* Nothing is removed any more when the jobs are through.
LEMMA RemovalsOver ==
    ASSUME Removals, dirpc = "done", \A n \in Names : pc[n] = "idle"
    PROVE  \A p \in Nodes : rm[p] = "none"
  <1>1. \A n \in Names : rm[n] = "none" /\ rm[Part(n)] = "none"
    BY DEF Removals
  <1>2. \A k \in Kids : KidParent[k] \in Names => rm[k] = "none"
    BY <1>1 DEF Removals
  <1>3. \A k \in Kids : KidParent[k] \in Kids => rm[k] = "none"
    BY <1>1, <1>2, Places DEF Removals
  <1> QED BY <1>1, <1>2, <1>3, Places

LEMMA EndRunInv ==
    ASSUME IInv, EndRun
    PROVE  IInv'
  <1>1. /\ dirpc = "done" /\ dirpc' = "off" /\ \A n \in Names : pc[n] = "idle"
        /\ UNCHANGED <<sync, src, dst, pc, job, rm, faults, crashes, changes, calm>>
    BY DEF EndRun
  <1>2. TypeOK'
    BY <1>1 DEF IInv, TypeOK
  <1>3. Removals'
    BY <1>1, RemovalsOver, Places DEF IInv, Removals
  <1> QED BY <1>1, <1>2, <1>3, NamesKept

----------------------------------------------------------------------------
(* recursiveRemove.                                                        *)

\* A removal touches no name but one whose job waits for it, or has none yet.
LEMMA RemovalKeepsNames ==
    ASSUME IInv, NEW p \in Nodes, rm[p] # "none", dst[p] \in {Absent, Dir} \cup FileType,
           dst' = dst \/ dst' = [dst EXCEPT ![p] = Absent],
           UNCHANGED <<src, pc, job>>,
           NEW n \in Names
    PROVE  NameInv(n)'
  <1>1. NameInv(n) /\ n \in Nodes /\ Part(n) \in Nodes /\ n # Part(n)
    BY Places DEF IInv
  <1>2. /\ dst'[n] = dst[n] \/ (p = n /\ dst'[n] = Absent)
        /\ dst'[Part(n)] = dst[Part(n)] \/ (p = Part(n) /\ dst'[Part(n)] = Absent)
    BY <1>1 DEF IInv, TypeOK
  <1>3. /\ p = n => pc[n] = "clear" \/ pc[n] = "idle"
        /\ p = Part(n) => pc[n] = "idle"
    BY DEF IInv, Removals
  <1>4. CASE pc[n] = "clear" \/ pc[n] = "idle"
    <2>1. pc[n] = "clear" => dst'[Part(n)] = dst[Part(n)]
      BY <1>2, <1>3
    <2> QED BY <1>1, <1>2, <1>4, <2>1, NameGone DEF Calls
  <1>5. CASE ~(pc[n] = "clear" \/ pc[n] = "idle")
    <2>1. dst'[n] = dst[n] /\ dst'[Part(n)] = dst[Part(n)]
      BY <1>2, <1>3, <1>5
    <2> QED BY <1>1, <2>1, NameFrame
  <1> QED BY <1>4, <1>5

LEMMA RemoveInv ==
    ASSUME IInv, NEW p \in Nodes, Remove(p)
    PROVE  IInv'
  <1>1. /\ rm[p] = "task" /\ NoFault
        /\ UNCHANGED <<sync, src, dirpc, pc, job, crashes, changes>>
    BY DEF Remove
  <1>2. calm' \in BOOLEAN /\ faults' \in 0 .. MaxFaults
    BY <1>1, Counters DEF IInv
  <1>3. Counted'
    BY <1>1 DEF IInv, Counted
  <1>4. dst[p] \in {Absent, Dir} \cup FileType
    BY DEF IInv, TypeOK
  <1>5. /\ p \in Names => dirpc = "prune" \/ pc[p] = "clear"
        /\ \A n \in Names : p = Part(n) => dirpc = "prune"
    BY <1>1 DEF IInv, Removals
  <1>6. CASE /\ dst[p].kind = "dir"
             /\ rm' = [q \in Nodes |->
                         IF q = p THEN "listed"
                         ELSE IF q \in Children(p) /\ dst[q] # Absent THEN "task"
                         ELSE rm[q]]
             /\ UNCHANGED dst
    <2>1. dst[p] = Dir
      BY <1>4, <1>6, FileFacts, KindFacts
    <2>2. p \in Names \/ p \in Kids
      <3>1. \A n \in Names : p # Part(n)
        BY <2>1, FileFacts, KindFacts DEF IInv, Tree
      <3> QED BY <3>1, Places
    <2>3. \A k \in Children(p) : k \in Kids /\ k # p /\ rm[k] # "listed"
      <3> SUFFICES ASSUME NEW k \in Children(p) PROVE k # p /\ rm[k] # "listed"
        BY DEF Children
      <3>1. k \in Kids /\ KidParent[k] = p
        BY DEF Children
      <3>2. ~(p \in Names /\ pc[p] = "prune")
        BY <1>5 DEF IInv, Removals
      <3> QED BY <1>1, <3>1, <3>2, Places DEF IInv, Removals
    <2>4. /\ rm' \in [Nodes -> {"none", "task", "listed"}]
          /\ rm'[p] = "listed"
          /\ \A q \in Nodes : rm'[q] = "listed" => rm[q] = "listed" \/ q = p
          /\ \A q \in Nodes \ {p} : rm'[q] = rm[q] \/ q \in Children(p)
      BY <1>6 DEF IInv, TypeOK
    <2>5. TypeOK'
      BY <1>1, <1>2, <1>6, <2>4 DEF IInv, TypeOK
    <2>6. Tree'
      BY <1>6, <2>1, <2>4, TreeSame DEF IInv
    <2>7. Removals'
      <3>1. \A n \in Names : /\ rm'[n] = "none" \/ dirpc' = "prune" \/ pc'[n] = "clear"
                             /\ rm'[Part(n)] = "none" \/ dirpc' = "prune"
        BY <1>1, <1>5, <2>3, <2>4, Places DEF IInv, Removals
      <3>2. ASSUME NEW k \in Kids
            PROVE  \/ rm'[k] = "none"
                   \/ rm'[KidParent[k]] = "listed"
                   \/ KidParent[k] \in Names /\ pc'[KidParent[k]] = "prune"
        <4>1. CASE KidParent[k] = p
          BY <2>4, <4>1
        <4>2. CASE KidParent[k] # p
          <5>1. k \notin Children(p)
            BY <4>2 DEF Children
          <5>2. rm[KidParent[k]] = "listed" => rm'[KidParent[k]] = "listed"
            BY <2>3, <2>4, Places
          <5>3. k = p \/ rm'[k] = rm[k]
            BY <2>4, <5>1, Places
          <5> QED BY <1>1, <5>2, <5>3 DEF IInv, Removals
        <4> QED BY <4>1, <4>2
      <3>3. dirpc \notin {"off", "sync", "crawl"}
        BY <1>1 DEF IInv, Removals
      <3> QED BY <1>1, <3>1, <3>2, <3>3 DEF IInv, Removals
    <2>8. \A n \in Names : NameInv(n)'
      BY <1>1, <1>4, <1>6, RemovalKeepsNames
    <2> QED BY <1>3, <2>5, <2>6, <2>7, <2>8 DEF IInv
  <1>7. CASE /\ dst[p].kind # "dir"
             /\ dst' = [dst EXCEPT ![p] = Absent]
             /\ rm' = [rm EXCEPT ![p] = "none"]
    <2>1. dst[p] # Dir
      BY <1>7, KindFacts
    <2>2. /\ dst' \in [Nodes -> {Absent, Dir} \cup FileType]
          /\ dst'[p] = Absent /\ \A q \in Nodes \ {p} : dst'[q] = dst[q]
          /\ rm' \in [Nodes -> {"none", "task", "listed"}]
          /\ rm'[p] = "none" /\ \A q \in Nodes \ {p} : rm'[q] = rm[q]
      BY <1>7 DEF IInv, TypeOK
    <2>3. TypeOK'
      BY <1>1, <1>2, <2>2 DEF IInv, TypeOK
    <2>4. Tree'
      <3>1. \A n \in Names : \/ dst'[Part(n)] = Absent
                             \/ dst'[Part(n)] \in FileType /\ dst'[Part(n)].key = Now
        BY <2>2, Places DEF IInv, Tree
      <3>2. \A k \in Kids : dst'[k] # Absent => dst'[KidParent[k]] = Dir
        BY <2>1, <2>2, Places DEF IInv, Tree
      <3>3. \A q \in Nodes : rm'[q] = "listed" => dst'[q] = Dir
        BY <2>2 DEF IInv, Tree
      <3> QED BY <3>1, <3>2, <3>3 DEF Tree
    <2>5. Removals'
      <3>1. \A n \in Names : /\ rm'[n] = "none" \/ dirpc' = "prune" \/ pc'[n] = "clear"
                             /\ rm'[Part(n)] = "none" \/ dirpc' = "prune"
        BY <1>1, <2>2, Places DEF IInv, Removals
      <3>2. \A k \in Kids : \/ rm'[k] = "none"
                            \/ rm'[KidParent[k]] = "listed"
                            \/ KidParent[k] \in Names /\ pc'[KidParent[k]] = "prune"
        BY <1>1, <2>2, Places DEF IInv, Removals
      <3>3. dirpc \notin {"off", "sync", "crawl"}
        BY <1>1 DEF IInv, Removals
      <3> QED BY <1>1, <3>1, <3>2, <3>3 DEF IInv, Removals
    <2>6. \A n \in Names : NameInv(n)'
      BY <1>1, <1>4, <1>7, RemovalKeepsNames
    <2> QED BY <1>3, <2>3, <2>4, <2>5, <2>6 DEF IInv
  <1> QED BY <1>6, <1>7 DEF Remove

\* A removal is over: its entry is gone, or stays.
LEMMA RemovalEnds ==
    ASSUME IInv, NEW p \in Nodes, rm[p] # "none",
           rm[p] = "listed" => \A k \in Children(p) : rm[k] = "none",
           Fault \/ NoFault,
           \/ dst' = dst
           \/ /\ dst' = [dst EXCEPT ![p] = Absent]
              /\ \A k \in Children(p) : dst[k] = Absent,
           rm' = [rm EXCEPT ![p] = "none"],
           UNCHANGED <<sync, src, dirpc, pc, job, crashes, changes>>
    PROVE  IInv'
  <1>1. calm' \in BOOLEAN /\ faults' \in 0 .. MaxFaults
    BY Counters DEF IInv
  <1>2. /\ dst' \in [Nodes -> {Absent, Dir} \cup FileType]
        /\ \A q \in Nodes \ {p} : dst'[q] = dst[q]
        /\ dst'[p] = dst[p] \/ (dst'[p] = Absent /\ \A k \in Children(p) : dst[k] = Absent)
        /\ rm' \in [Nodes -> {"none", "task", "listed"}]
        /\ rm'[p] = "none" /\ \A q \in Nodes \ {p} : rm'[q] = rm[q]
    BY DEF IInv, TypeOK
  <1>3. TypeOK'
    BY <1>1, <1>2 DEF IInv, TypeOK
  <1>4. Tree'
    <2>1. \A n \in Names : \/ dst'[Part(n)] = Absent
                           \/ dst'[Part(n)] \in FileType /\ dst'[Part(n)].key = Now
      BY <1>2, Places DEF IInv, Tree
    <2>2. ASSUME NEW k \in Kids, dst'[k] # Absent
          PROVE  dst'[KidParent[k]] = Dir
      <3>1. dst[k] # Absent
        BY <1>2, <2>2, Places
      <3>2. KidParent[k] = p => dst'[p] = dst[p]
        BY <1>2, <3>1 DEF Children
      <3> QED BY <1>2, <3>1, <3>2, Places DEF IInv, Tree
    <2>3. \A q \in Nodes : rm'[q] = "listed" => dst'[q] = Dir
      BY <1>2 DEF IInv, Tree
    <2> QED BY <2>1, <2>2, <2>3 DEF Tree
  <1>5. Removals'
    <2>1. \A n \in Names : /\ rm'[n] = "none" \/ dirpc' = "prune" \/ pc'[n] = "clear"
                           /\ rm'[Part(n)] = "none" \/ dirpc' = "prune"
      BY <1>2, Places DEF IInv, Removals
    <2>2. ASSUME NEW k \in Kids
          PROVE  \/ rm'[k] = "none"
                 \/ rm'[KidParent[k]] = "listed"
                 \/ KidParent[k] \in Names /\ pc'[KidParent[k]] = "prune"
      <3>1. rm'[k] = "none" \/ rm'[k] = rm[k]
        BY <1>2, Places
      <3>2. KidParent[k] = p /\ rm[p] = "listed" => rm[k] = "none"
        BY DEF Children
      <3> QED BY <1>2, <3>1, <3>2, Places DEF IInv, Removals
    <2>3. dirpc \notin {"off", "sync", "crawl"}
      BY DEF IInv, Removals
    <2> QED BY <2>1, <2>2, <2>3 DEF IInv, Removals
  <1>6. dst[p] \in {Absent, Dir} \cup FileType
    BY DEF IInv, TypeOK
  <1>7. ASSUME NEW n \in Names PROVE NameInv(n)'
    BY <1>6, RemovalKeepsNames
  <1>8. Counted'
    BY DEF IInv, Counted
  <1> QED BY <1>3, <1>4, <1>5, <1>7, <1>8 DEF IInv

LEMMA RemoveDirInv ==
    ASSUME IInv, NEW p \in Nodes, RemoveDir(p)
    PROVE  IInv'
  <1>1. /\ rm[p] = "listed" /\ \A k \in Children(p) : rm[k] = "none"
        /\ NoFault /\ rm' = [rm EXCEPT ![p] = "none"]
        /\ UNCHANGED <<sync, src, dirpc, pc, job, crashes, changes>>
    BY DEF RemoveDir
  <1>2. \/ dst' = dst
        \/ /\ dst' = [dst EXCEPT ![p] = Absent]
           /\ \A k \in Children(p) : dst[k] = Absent
    BY DEF RemoveDir
  <1> QED BY <1>1, <1>2, RemovalEnds

LEMMA RemoveFailsInv ==
    ASSUME IInv, NEW p \in Nodes, RemoveFails(p)
    PROVE  IInv'
  BY RemovalEnds DEF RemoveFails

----------------------------------------------------------------------------
(* Interruptions and changes of the source.                                *)

LEMMA CrashInv ==
    ASSUME IInv, Crash
    PROVE  IInv'
  <1>1. /\ crashes < MaxCrashes /\ crashes' = crashes + 1 /\ dirpc' = "off"
        /\ pc' = [n \in Names |-> "idle"]
        /\ rm' = [p \in Nodes |-> "none"]
        /\ job' = [n \in Names |-> NoJob]
        /\ calm' = FALSE
        /\ UNCHANGED <<sync, src, dst, faults, changes>>
    BY DEF Crash
  <1>2. NoJob \in JobType /\ NoJob.ver = 0 /\ NoJob.key = 0
    BY OptionAssumption DEF NoJob, JobType
  <1>3. TypeOK'
    <2>1. calm' \in BOOLEAN
      BY <1>1, Zenon
    <2>2. crashes' \in 0 .. MaxCrashes
      BY <1>1, OptionAssumption DEF IInv, TypeOK
    <2>3. job' \in [Names -> JobType]
      BY <1>1, <1>2
    <2> QED BY <1>1, <2>1, <2>2, <2>3 DEF IInv, TypeOK
  <1>4. Tree'
    BY <1>1, TreeSame DEF IInv
  <1>5. Removals'
    BY <1>1, Places DEF Removals
  <1>6. ASSUME NEW n \in Names PROVE NameInv(n)'
    <2>1. NameInv(n) /\ src'[n] = src[n] /\ dst'[n] = dst[n] /\ dst'[Part(n)] = dst[Part(n)]
      BY <1>1 DEF IInv
    <2>2. job'[n].ver = 0 /\ job'[n].key = 0 /\ pc'[n] = "idle"
      BY <1>1, <1>2
    <2>3. src[n].ver \in Nat /\ src[n].key \in Nat /\ src[n].key <= src[n].ver
      BY <2>1, NameTypes DEF IInv, NameInv, Known
    <2>4. Known(n)'
      <3>1. /\ src'[n].key <= src'[n].ver
            /\ job'[n].key <= job'[n].ver
            /\ job'[n].ver <= src'[n].ver /\ job'[n].key <= src'[n].key
        BY <2>1, <2>2, <2>3
      <3>2. \A k \in 0 .. MaxChanges :
              dst'[n].kind = "file" /\ dst'[n].key = Version(k) =>
                  k <= src'[n].key /\ Fresh(n, k, dst[n].data)'
        BY <2>1 DEF NameInv, Known, Fresh
      <3> QED BY <3>1, <3>2 DEF Known, Fresh
    <2>5. Retry(n)' /\ Whole(n)' /\ JobAt(n)'
      BY <2>1, <2>2 DEF NameInv, Retry, Whole, Wanted, JobAt
    <2> QED BY <2>4, <2>5 DEF NameInv
  <1>7. Counted'
    BY <1>1 DEF IInv, Counted
  <1> QED BY <1>3, <1>4, <1>5, <1>6, <1>7 DEF IInv

LEMMA ChangeInv ==
    ASSUME IInv, NEW n \in Names, Change(n)
    PROVE  IInv'
  <1>1. /\ changes < MaxChanges /\ changes' = changes + 1 /\ calm' = FALSE
        /\ UNCHANGED <<sync, dst, dirpc, pc, job, rm, faults, crashes>>
    BY DEF Change
  <1>2. PICK k \in SrcKinds, key \in {src[n].key, src[n].ver + 1} :
          src' = [src EXCEPT ![n] = [kind |-> k, ver |-> @.ver + 1, key |-> key]]
    BY DEF Change
  <1> DEFINE s == [kind |-> k, ver |-> src[n].ver + 1, key |-> key]
  <1>3. src' = [src EXCEPT ![n] = s]
    BY <1>2, Zenon
  <1>4. /\ src[n].ver \in Nat /\ src[n].key \in Nat /\ src[n].key <= src[n].ver
        /\ src[n].ver <= changes /\ changes \in Nat /\ MaxChanges \in Nat
    BY NameTypes DEF IInv, NameInv, Known, Counted, TypeOK
  <1>5. s.ver = src[n].ver + 1 /\ s.key = key
    OBVIOUS
  <1>6. src[n].ver + 1 \in 0 .. MaxChanges /\ key \in 0 .. MaxChanges
    BY <1>1, <1>4
  <1>7. /\ src' \in [Names -> [kind : SrcKinds, ver : 0 .. MaxChanges,
                               key : 0 .. MaxChanges]]
        /\ src'[n].ver = src[n].ver + 1 /\ src'[n].key = key
        /\ \A m \in Names \ {n} : src'[m] = src[m]
    BY <1>3, <1>6 DEF IInv, TypeOK
  <1>8. TypeOK'
    <2>1. calm' \in BOOLEAN
      BY <1>1, Zenon
    <2>2. changes' \in 0 .. MaxChanges
      BY <1>1, <1>4
    <2> QED BY <1>1, <1>7, <2>1, <2>2 DEF IInv, TypeOK
  <1>9. Tree'
    BY <1>1, TreeSame DEF IInv
  <1>10. Removals'
    BY <1>1 DEF IInv, Removals
  <1>11. Counted'
    <2>1. \A m \in Names \ {n} : src'[m].ver <= changes'
      BY <1>1, <1>4, <1>7, NameTypes DEF IInv, Counted
    <2> QED BY <1>1, <1>4, <1>7, <2>1 DEF Counted
  <1>12. \A m \in Names \ {n} : NameInv(m)'
    <2> SUFFICES ASSUME NEW m \in Names \ {n} PROVE NameInv(m)'
      OBVIOUS
    <2> QED BY <1>1, <1>7, NameFrame DEF IInv
  <1>13. NameInv(n)'
    <2>1. /\ NameInv(n) /\ dst'[n] = dst[n] /\ dst'[Part(n)] = dst[Part(n)]
          /\ job'[n] = job[n] /\ pc'[n] = pc[n]
      BY <1>1 DEF IInv
    <2>2. /\ job[n].ver \in Nat /\ job[n].key \in Nat
          /\ job[n].ver <= src[n].ver /\ job[n].key <= src[n].key
          /\ job[n].key <= job[n].ver
      BY <2>1, NameTypes DEF IInv, NameInv, Known
    \* No key of before goes with the new version.
    <2>3. \A j \in Nat : \A d : j <= src[n].key => Fresh(n, j, d)'
      BY <1>4, <1>7 DEF Fresh
    <2>4. Known(n)'
      <3>1. /\ src'[n].key <= src'[n].ver
            /\ job'[n].key <= job'[n].ver
            /\ job'[n].ver <= src'[n].ver /\ job'[n].key <= src'[n].key
        BY <1>4, <1>7, <2>1, <2>2
      <3>2. ASSUME NEW j \in 0 .. MaxChanges, dst'[n].kind = "file",
                   dst'[n].key = Version(j)
            PROVE  j <= src'[n].key /\ Fresh(n, j, dst[n].data)'
        <4>1. j \in Nat /\ j <= src[n].key
          BY <2>1, <3>2 DEF NameInv, Known
        <4>2. j <= src'[n].key
          BY <1>4, <1>7, <4>1
        <4> QED BY <2>3, <4>1, <4>2
      <3> QED BY <3>1, <3>2 DEF Known, Fresh
    <2>5. Retry(n)'
      <3> SUFFICES ASSUME dst'[Part(n)] # Absent, dst'[n].kind = "file",
                          dst'[n].key = Version(src'[n].key)
                   PROVE  FALSE
        BY DEF Retry, Wanted
      <3>1. CASE key = src[n].key
        BY <1>7, <2>1, <3>1 DEF NameInv, Retry, Wanted
      <3>2. CASE key = src[n].ver + 1
        <4>1. key <= src[n].key
          BY <1>6, <1>7, <2>1, <3>2 DEF NameInv, Known
        <4> QED BY <1>4, <3>2, <4>1
      <3> QED BY <3>1, <3>2
    <2>6. Whole(n)'
      BY <2>1 DEF NameInv, Whole
    <2>7. JobAt(n)'
      <3>1. job'[n].ver # src'[n].ver
        BY <1>4, <1>7, <2>1, <2>2
      <3>2. \A d : job'[n].key = src'[n].key /\ src'[n].ver = src'[n].key =>
                      d \in {Version(src'[n].ver), Lost}
        BY <1>4, <1>7, <2>1, <2>2
      <3> QED BY <2>1, <3>1, <3>2 DEF NameInv, JobAt, Fresh
    <2> QED BY <2>4, <2>5, <2>6, <2>7 DEF NameInv
  <1> QED BY <1>8, <1>9, <1>10, <1>11, <1>12, <1>13 DEF IInv

----------------------------------------------------------------------------
(* The invariant.                                                          *)

LEMMA OldEntries ==
    ASSUME NEW k \in OldKinds, NEW e \in OldEntry(k)
    PROVE  /\ e \in {Absent, Dir} \cup FileType
           /\ e.kind = "file" => e.data \in {Other, Version(0)}
                                 /\ e.key \in {Other, Version(0)}
                                 /\ (e.key = Version(0) => e.data = Version(0))
  <1>1. k \in {"absent", "dir", "other", "same"}
    BY OptionAssumption
  <1>2. /\ Other \in Datas /\ Other \in KeyTags
        /\ Version(0) \in Datas /\ Version(0) \in KeyTags
    BY OptionAssumption DEF Datas, KeyTags
  <1>3. CASE k \in {"absent", "dir"}
    <2>1. k = "absent" => e = Absent
      BY DEF OldEntry
    <2>2. k = "dir" => e = Dir
      BY DEF OldEntry
    <2>3. e \in {Absent, Dir}
      BY <1>3, <2>1, <2>2
    <2> QED BY <2>3, KindFacts
  <1>4. CASE k = "other"
    <2>1. e = FileRec(Other, Other, TRUE, TRUE)
      BY <1>4 DEF OldEntry
    <2>2. Other # Version(0)
      BY DEF Other, Version
    <2> QED BY <1>2, <2>1, <2>2, NewFile
  <1>5. CASE k = "same"
    <2>1. e \in {FileRec(Version(0), Version(0), o, m) : o, m \in BOOLEAN}
      BY <1>5 DEF OldEntry
    <2>2. PICK o, m \in BOOLEAN : e = FileRec(Version(0), Version(0), o, m)
      BY <2>1
    <2> QED BY <1>2, <2>2, NewFile
  <1> QED BY <1>1, <1>3, <1>4, <1>5

LEMMA InitIInv == Init => IInv
  <1> SUFFICES ASSUME Init PROVE IInv
    OBVIOUS
  <1>1. /\ sync \in BOOLEAN
        /\ src \in [Names -> [kind : SrcKinds, ver : {0}, key : {0}]]
        /\ dirpc = "off" /\ pc = [n \in Names |-> "idle"]
        /\ job = [n \in Names |-> NoJob] /\ rm = [p \in Nodes |-> "none"]
        /\ faults = 0 /\ crashes = 0 /\ changes = 0 /\ calm = FALSE
    BY DEF Init
  <1>2. PICK old \in [Names -> UNION {OldEntry(k) : k \in OldKinds}] :
          dst = [p \in Nodes |->
                   IF p \in Names THEN old[p]
                   ELSE IF p \notin Kids THEN Absent
                   ELSE IF \E n \in Names : \/ KidParent[p] = n /\ old[n] = Dir
                                            \/ /\ KidParent[p] \in KidDirs
                                               /\ KidParent[KidParent[p]] = n
                                               /\ old[n] = Dir
                        THEN IF p \in KidDirs THEN Dir
                             ELSE FileRec(Other, Other, TRUE, TRUE)
                        ELSE Absent]
    BY DEF Init
  <1>3. /\ \A n \in Names : dst[n] = old[n] /\ dst[Part(n)] = Absent
        /\ \A k \in Kids :
              dst[k] # Absent =>
                \E n \in Names : \/ KidParent[k] = n /\ old[n] = Dir
                                 \/ /\ KidParent[k] \in KidDirs
                                    /\ KidParent[KidParent[k]] = n
                                    /\ old[n] = Dir
        /\ \A k \in Kids :
              k \in KidDirs /\ (\E n \in Names : KidParent[k] = n /\ old[n] = Dir) =>
                dst[k] = Dir
    BY <1>2, Places
  <1>4. FileRec(Other, Other, TRUE, TRUE) \in FileType
    BY NewFile DEF Datas, KeyTags
  <1>5. \A n \in Names :
          /\ old[n] \in {Absent, Dir} \cup FileType
          /\ old[n].kind = "file" =>
                /\ old[n].data \in {Other, Version(0)}
                /\ old[n].key \in {Other, Version(0)}
                /\ old[n].key = Version(0) => old[n].data = Version(0)
    BY OldEntries
  <1>6. dst \in [Nodes -> {Absent, Dir} \cup FileType]
    <2>1. \A p \in Nodes : dst[p] \in {Absent, Dir} \cup FileType
      BY <1>2, <1>4, <1>5
    <2> QED BY <1>2, <2>1
  <1>7. NoJob \in JobType /\ NoJob.ver = 0 /\ NoJob.key = 0
    BY OptionAssumption DEF NoJob, JobType
  <1>8. TypeOK
    <2>1. src \in [Names -> [kind : SrcKinds, ver : 0 .. MaxChanges,
                             key : 0 .. MaxChanges]]
      BY <1>1, OptionAssumption
    <2>2. calm \in BOOLEAN
      BY <1>1, Zenon
    <2>3. faults \in 0 .. MaxFaults /\ crashes \in 0 .. MaxCrashes
          /\ changes \in 0 .. MaxChanges
      BY <1>1, OptionAssumption
    <2> QED BY <1>1, <1>6, <1>7, <2>1, <2>2, <2>3 DEF TypeOK
  <1>9. Tree
    <2>1. \A k \in Kids : dst[k] # Absent => dst[KidParent[k]] = Dir
      BY <1>3, TreeAssumption
    <2> QED BY <1>1, <1>3, <2>1 DEF Tree
  <1>10. Removals
    BY <1>1, Places DEF Removals
  <1>11. Counted
    BY <1>1 DEF Counted
  <1>12. ASSUME NEW n \in Names PROVE NameInv(n)
    <2>1. /\ src[n].ver = 0 /\ src[n].key = 0 /\ job[n].ver = 0 /\ job[n].key = 0
          /\ pc[n] = "idle" /\ dst[Part(n)] = Absent
      BY <1>1, <1>3, <1>7
    <2>2. Known(n)
      <3>1. ASSUME NEW k \in 0 .. MaxChanges, dst[n].kind = "file",
                   dst[n].key = Version(k)
            PROVE  k = 0 /\ dst[n].data = Version(0)
        <4>1. Version(k) # Other /\ (Version(k) = Version(0) => k = 0)
          BY Tags, OptionAssumption
        <4> QED BY <1>3, <1>5, <3>1, <4>1
      <3> QED BY <2>1, <3>1 DEF Known, Fresh
    <2>3. Whole(n)
      <3>1. Other \notin {Part0, Bad} /\ Version(0) \notin {Part0, Bad}
        BY DEF Other, Version, Part0, Bad
      <3> QED BY <1>3, <1>5, <3>1 DEF Whole
    <2> QED BY <2>1, <2>2, <2>3 DEF NameInv, Retry, JobAt
  <1> QED BY <1>8, <1>9, <1>10, <1>11, <1>12 DEF IInv

LEMMA NameStepIInv ==
    ASSUME IInv, NEW n \in Names, NameStep(n)
    PROVE  IInv'
  BY CrawlDirInv, CrawlDirFailsInv, PrunedInv, StatFailsInv, SendMetadataInv,
     SendFileInv, NoFileInv, CopyInv, CheckInv, CheckFailsInv, RenameInv,
     RenameFailsInv, SetTimesInv, SetOwnerInv, SetModeInv, SetFailsInv, DiscardInv
  DEF NameStep

LEMMA NextIInv == IInv /\ [Next]_vars => IInv'
  <1> SUFFICES ASSUME IInv, [Next]_vars PROVE IInv'
    OBVIOUS
  <1>1. CASE StartRun \/ DirStep \/ Crash
    BY <1>1, StartRunInv, ListExtrasInv, DirFailsInv, CrawlInv, EndRunInv, CrashInv
    DEF DirStep
  <1>2. CASE \E n \in Names : NameStep(n) \/ Change(n)
    BY <1>2, NameStepIInv, ChangeInv
  <1>3. CASE \E p \in Nodes : RemoveStep(p)
    BY <1>3, RemoveInv, RemoveDirInv, RemoveFailsInv DEF RemoveStep
  <1>4. CASE UNCHANGED vars
    <2>1. TypeOK' /\ Removals'
      BY <1>4 DEF IInv, vars, TypeOK, Removals
    <2> QED BY <1>4, <2>1, NamesKept DEF vars
  <1> QED BY <1>1, <1>2, <1>3, <1>4 DEF Next

\* Every reachable state satisfies the invariant above.
THEOREM InductiveInvariant == Spec => []IInv
  BY InitIInv, NextIInv, PTL DEF Spec

\* The variables keep their types, for any tree and any number of runs.
THEOREM TypeCorrect == Spec => []TypeOK
  <1>1. IInv => TypeOK
    BY DEF IInv
  <1> QED BY <1>1, InductiveInvariant, PTL

\* What the decision of processNonDir (copy2.cpp:790) passes over is the
\* source's, but for errors nobody counted and changes that do not show.
THEOREM UpToDateIsEqual == Spec => []FreshMeansEqual
  <1>1. IInv => FreshMeansEqual
    <2> SUFFICES ASSUME IInv, NEW n \in Names, dst[n].kind = "file", ~Wanted(n)
                 PROVE  \/ dst[n].data = Version(src[n].ver)
                        \/ dst[n].data = Lost
                        \/ Hidden(n)
      BY DEF FreshMeansEqual
    <2>1. dst[n].key = Version(src[n].key)
      BY DEF Wanted
    <2>2. src[n].key \in 0 .. MaxChanges
      BY NameTypes DEF IInv
    <2>3. Fresh(n, src[n].key, dst[n].data)
      BY <2>1, <2>2 DEF IInv, NameInv, Known
    <2> QED BY <2>3 DEF Fresh, Hidden
  <1> QED BY <1>1, InductiveInvariant, PTL

\* No name ever shows part of a file, nor one whose transfer counted errors
\* (copy2.cpp:1229, 1254).
THEOREM OnlyWholeFiles == Spec => []NeverHalfWritten
  <1>1. IInv => NeverHalfWritten
    BY DEF IInv, NameInv, Whole, NeverHalfWritten
  <1> QED BY <1>1, InductiveInvariant, PTL

\* Whatever interrupts a run (copy2.cpp:829 opens the partial), the partials it
\* leaves are of names that the next run transfers.
THEOREM LeftoversAreRetried == Spec => []PartialMeansRetry
  <1>1. IInv => PartialMeansRetry
    BY DEF IInv, NameInv, Retry, PartialMeansRetry
  <1> QED BY <1>1, InductiveInvariant, PTL

----------------------------------------------------------------------------
(* What removes a file.                                                    *)

\* A name's steps replace its file, or leave it.
LEMMA NameStepKeepsFile ==
    ASSUME IInv, NEW m \in Names, NameStep(m), NEW n \in Names, dst[n].kind = "file"
    PROVE  dst'[n] # Absent
  <1>1. /\ dst[n] \in FileType /\ dst[n] # Absent /\ n # Part(m)
        /\ n \in Nodes /\ m \in Nodes /\ Part(m) \in Nodes
    BY NameTypes, KindFacts, Places DEF IInv
  <1>2. CASE dst' = dst
    BY <1>1, <1>2
  <1>3. CASE \E f : dst' = [dst EXCEPT ![Part(m)] = f]
    BY <1>1, <1>3 DEF IInv, TypeOK
  <1>4. CASE CrawlDir(m) \/ CrawlDirFails(m)
    <2>1. dst' = dst \/ dst' = [dst EXCEPT ![m] = Dir]
      BY <1>4 DEF CrawlDir, CrawlDirFails
    <2> QED BY <1>1, <2>1, KindFacts DEF IInv, TypeOK
  <1>5. CASE SendFile(m) \/ NoFile(m) \/ Copy(m) \/ Discard(m)
    <2>1. CASE \E d : dst' = [dst EXCEPT ![Part(m)].data = d]
      <3>1. PICK d : dst' = [dst EXCEPT ![Part(m)].data = d]
        BY <2>1
      <3>2. dst'[n] = dst[n]
        BY <1>1, <3>1 DEF IInv, TypeOK
      <3> QED BY <1>1, <3>2
    <2> QED BY <1>2, <1>3, <1>5, <2>1 DEF SendFile, NoFile, Copy, Discard
  <1>6. CASE Rename(m)
    <2>1. CASE dst' = [dst EXCEPT ![m] = dst[Part(m)], ![Part(m)] = Absent]
               /\ dst[Part(m)] # Absent
      BY <1>1, <2>1 DEF IInv, TypeOK
    <2> QED BY <1>2, <1>6, <2>1 DEF Rename
  <1>7. CASE SetTimes(m) \/ SetOwner(m) \/ SetMode(m)
    <2>1. dst'[n].kind = "file"
      BY <1>1, <1>7 DEF SetTimes, SetOwner, SetMode, IInv, TypeOK, FileType
    <2> QED BY <2>1, KindFacts
  <1> QED BY <1>2, <1>4, <1>5, <1>6, <1>7
      DEF NameStep, Pruned, StatFails, SendMetadata, Check, CheckFails,
          RenameFails, SetFails

\* Only an unlink removes a file, and one has a reason.
LEMMA RemovalHasReason ==
    ASSUME IInv, Next, NEW n \in Names, dst[n].kind = "file", dst'[n] = Absent
    PROVE  \/ /\ pc[n] = "clear" /\ ~job[n].errors
              /\ dst[Part(n)].kind = "file" /\ dst[Part(n)].data # Part0
           \/ sync /\ dirpc = "prune"
  <1>1. dst[n] # Absent /\ dst[n] # Dir /\ n \in Nodes
    BY KindFacts, Places
  <1>2. dst' # dst
    BY <1>1
  <1>3. PICK p \in Nodes : RemoveStep(p)
    <2>1. \A m \in Names : ~NameStep(m)
      BY NameStepKeepsFile
    <2> QED BY <1>2, <2>1
        DEF Next, DirStep, StartRun, ListExtras, DirFails, Crawl, EndRun, Crash, Change
  <1>4. p = n /\ rm[p] # "none"
    BY <1>1, <1>3 DEF RemoveStep, Remove, RemoveDir, RemoveFails, IInv, TypeOK
  <1>5. dirpc = "prune" \/ pc[n] = "clear"
    BY <1>4 DEF IInv, Removals
  <1> QED BY <1>5 DEF IInv, Removals, NameInv, JobAt

\* An old file goes only for a whole new one beside it, or because the source
\* has no such name (copy2.cpp:1233 after 1219-1231).
THEOREM NoFileLostForNothing == Spec => RemovedOnlyForNew
  <1>1. IInv /\ [Next]_vars =>
          [\A n \in Names :
              dst[n].kind = "file" /\ dst'[n] = Absent =>
                  \/ /\ pc[n] = "clear" /\ ~job[n].errors
                     /\ dst[Part(n)].kind = "file" /\ dst[Part(n)].data # Part0
                  \/ sync /\ dirpc = "prune"]_vars
    BY RemovalHasReason
  <1> QED BY <1>1, InductiveInvariant, PTL DEF Spec, RemovedOnlyForNew

----------------------------------------------------------------------------
(***************************************************************************)
(* A run in which nothing fails and nothing changes.  What is to be        *)
(* removed is gone or about to go (Going), down to the kids of a directory *)
(* that has been listed; every name has got as far as its task or its job  *)
(* (NameDone), and at the end of the run that is the source's mirror.      *)
(***************************************************************************)
\* The source's contents, but for what nobody counted or what does not show.
RightData(n, data) == data \in {Version(src[n].ver), Lost} \/ Hidden(n)

\* Gone, or with a removal under way.
Going(p) == dst[p] = Absent \/ rm[p] # "none"
KidsGoing == \A k \in Kids : rm[KidParent[k]] = "listed" => Going(k)

GoneDone(n) == pc[n] = "idle" /\ (sync => dst[n] = Absent /\ dst[Part(n)] = Absent)

DirDone(n) ==
    /\ pc[n] \in {"dir", "prune", "idle"}
    /\ pc[n] = "prune" => dst[n] = Dir /\ (sync => \A k \in Children(n) : Going(k))
    /\ pc[n] = "idle" =>
          \/ dst[n].kind = "file"
          \/ dst[n] = Dir /\ (sync => \A k \in Children(n) : dst[k] = Absent)

\* Where the job of a file is, and what the steps before it have made of the name.
FileDone(n) ==
    /\ pc[n] \in {"file", "copy", "check", "clear", "times", "owner", "mode", "idle"}
    /\ pc[n] \in Calls =>
          job[n].ver = src[n].ver /\ job[n].key = src[n].key /\ ~job[n].errors
    /\ pc[n] = "copy" => ~job[n].stale
    /\ pc[n] = "check" =>
          RightData(n, IF job[n].meta THEN dst[n].data ELSE dst[Part(n)].data)
    /\ pc[n] = "clear" =>
          /\ job[n].seen = dst[Part(n)] /\ RightData(n, dst[Part(n)].data)
          /\ Going(n)
    /\ pc[n] \in {"times", "owner", "mode", "idle"} =>
          /\ dst[n].kind = "file" /\ RightData(n, dst[n].data)
          /\ dst[Part(n)] = Absent
    /\ pc[n] = "times" => job[n].seen = dst[n]
    /\ pc[n] \in {"owner", "mode", "idle"} => dst[n].key = Version(src[n].key)
    /\ pc[n] = "owner" => dst[n].owner = job[n].seen.owner /\ dst[n].mode = job[n].seen.mode
    /\ pc[n] \in {"mode", "idle"} => dst[n].owner
    /\ pc[n] = "mode" /\ job[n].seen.mode /\ n \notin SetId => dst[n].mode
    /\ pc[n] = "idle" /\ n \notin SetId => dst[n].mode

NameDone(n) ==
    /\ src[n].kind = "gone" => GoneDone(n)
    /\ src[n].kind = "dir" => DirDone(n)
    /\ src[n].kind = "file" => FileDone(n)

Clean == calm = TRUE =>
    /\ KidsGoing
    /\ dirpc = "crawl" => ~sync
    /\ dirpc = "prune" =>
          \A n \in Names : Going(Part(n)) /\ (src[n].kind = "gone" => Going(n))
    /\ dirpc \in {"done", "off"} => \A n \in Names : NameDone(n)

\* What a step of somebody else leaves of a name.
LEMMA NameDoneFrame ==
    ASSUME NEW n \in Names, NameDone(n),
           UNCHANGED sync, src'[n] = src[n], pc'[n] = pc[n], job'[n] = job[n],
           dst'[Part(n)] = dst[Part(n)],
           dst'[n] = dst[n] \/ pc[n] = "clear", Going(n) => Going(n)',
           \A k \in Kids : dst'[k] \in {dst[k], Absent} /\ (Going(k) => Going(k)')
    PROVE  NameDone(n)'
  <1>1. GoneDone(n) => GoneDone(n)'
    BY DEF GoneDone
  <1>2. DirDone(n) => DirDone(n)'
    <2>1. \A k \in Children(n) : k \in Kids /\ k \in Children(n)'
      BY DEF Children
    <2>2. Children(n)' = Children(n)
      BY DEF Children
    <2> QED BY <2>1, <2>2 DEF DirDone
  <1>3. FileDone(n) => FileDone(n)'
    BY DEF FileDone, RightData, Hidden, Calls
  <1> QED BY <1>1, <1>2, <1>3 DEF NameDone

\* What a step of a name's task or job leaves alone.
Work(n) ==
    /\ pc[n] # "idle"
    /\ UNCHANGED <<sync, src, dirpc>>
    /\ \A m \in Names \ {n} : /\ pc'[m] = pc[m] /\ job'[m] = job[m] /\ rm'[m] = rm[m]
                              /\ dst'[m] = dst[m] /\ dst'[Part(m)] = dst[Part(m)]
    /\ \A k \in Kids : dst'[k] = dst[k] /\ rm'[k] \in {rm[k], "task"}
    /\ \A p \in Nodes : rm'[p] = "listed" => rm[p] = "listed"

LEMMA WorkClean ==
    ASSUME IInv, Clean, NEW n \in Names, Work(n), calm = TRUE, NameDone(n)'
    PROVE  Clean'
  <1>1. dirpc = "done" /\ dirpc' = "done"
    BY DEF Work, IInv, Removals
  <1>2. \A k \in Kids : Going(k) => Going(k)'
    BY DEF Work, Going
  <1>3. KidsGoing'
    BY <1>2, Places DEF Clean, KidsGoing, Work
  <1>4. ASSUME NEW m \in Names, m # n PROVE NameDone(m)'
    BY <1>1, <1>2, <1>4, NameDoneFrame DEF Clean, Work, Going
  <1> QED BY <1>1, <1>3, <1>4 DEF Clean

\* Who is at work has something to do, and does it for the kind that was seen.
LEMMA AtWork ==
    ASSUME IInv, Clean, calm = TRUE, NEW n \in Names, pc[n] # "idle"
    PROVE  /\ pc[n] \in {"dir", "prune"} => src[n].kind = "dir" /\ DirDone(n)
           /\ pc[n] \notin {"dir", "prune"} => src[n].kind = "file" /\ FileDone(n)
  <1>1. dirpc = "done"
    BY DEF IInv, Removals
  <1>2. NameDone(n)
    BY <1>1 DEF Clean
  <1>3. src[n].kind \in {"file", "dir", "gone"}
    BY OptionAssumption DEF IInv, TypeOK
  <1> QED BY <1>2, <1>3 DEF NameDone, GoneDone, DirDone, FileDone

\* A step that sends n to w and makes f of the name and g of its partial.
Puts(n, w, f, g) ==
    /\ pc[n] # "idle" /\ Goto(n, w)
    /\ UNCHANGED <<sync, src, dirpc>>
    /\ \A m \in Names \ {n} : job'[m] = job[m]
    /\ dst' = [dst EXCEPT ![n] = f, ![Part(n)] = g]
    /\ rm' = rm \/ rm' = [rm EXCEPT ![n] = "task"]

LEMMA NameWork ==
    ASSUME IInv, NEW n \in Names, NEW w, NEW f, NEW g, Puts(n, w, f, g)
    PROVE  Work(n) /\ dst'[n] = f /\ dst'[Part(n)] = g /\ pc'[n] = w
  <1> USE DEF Puts
  <1>1. /\ n \in Nodes /\ Part(n) \in Nodes /\ n # Part(n)
        /\ \A m \in Names \ {n} : m \in Nodes /\ Part(m) \in Nodes /\ m # Part(n)
                                  /\ Part(m) # Part(n) /\ Part(m) # n
        /\ \A k \in Kids : k \in Nodes /\ k # n /\ k # Part(n)
    BY Places
  <1>2. dst'[n] = f /\ dst'[Part(n)] = g /\ \A q \in Nodes \ {n, Part(n)} : dst'[q] = dst[q]
    BY <1>1 DEF IInv, TypeOK
  <1>3. pc'[n] = w /\ \A m \in Names \ {n} : pc'[m] = pc[m]
    BY OtherNames DEF IInv
  <1>5. \A q \in Nodes \ {n} : rm'[q] = rm[q]
    BY <1>1 DEF IInv, TypeOK
  <1>6. \A q \in Nodes : rm'[q] = "listed" => rm[q] = "listed"
    BY <1>1 DEF IInv, TypeOK
  <1> QED BY <1>1, <1>2, <1>3, <1>5, <1>6 DEF Work

\* A dst that is not changed at all, in that form.
LEMMA SameEntries ==
    ASSUME IInv, NEW n \in Names
    PROVE  /\ dst = [dst EXCEPT ![n] = dst[n], ![Part(n)] = dst[Part(n)]]
           /\ \A f : [dst EXCEPT ![n] = f] = [dst EXCEPT ![n] = f, ![Part(n)] = dst[Part(n)]]
           /\ \A g : [dst EXCEPT ![Part(n)] = g] = [dst EXCEPT ![n] = dst[n], ![Part(n)] = g]
           /\ n \in Nodes /\ Part(n) \in Nodes /\ n # Part(n)
  <1>1. n \in Nodes /\ Part(n) \in Nodes /\ n # Part(n)
    BY Places
  <1>2. dst \in [Nodes -> {Absent, Dir} \cup FileType]
    BY DEF IInv, TypeOK
  <1> QED BY <1>1, <1>2

LEMMA CrawlDirClean ==
    ASSUME IInv, Clean, calm = TRUE, NEW n \in Names, CrawlDir(n)
    PROVE  Clean'
  <1>1. /\ pc[n] = "dir" /\ src[n].kind = "dir" /\ UNCHANGED <<sync, src, dirpc, job>>
    BY AtWork DEF CrawlDir
  <1>2. CASE dst[n].kind = "file"
    <2>1. Goto(n, "idle") /\ dst' = dst /\ rm' = rm
      BY <1>2 DEF CrawlDir
    <2>2. Work(n) /\ dst'[n] = dst[n] /\ pc'[n] = "idle"
      <3>1. Puts(n, "idle", dst[n], dst[Part(n)])
        BY <1>1, <2>1, SameEntries DEF Puts, IInv, TypeOK
      <3> QED BY <3>1, NameWork
    <2>3. NameDone(n)'
      BY <1>1, <1>2, <2>2 DEF NameDone, DirDone
    <2> QED BY <2>2, <2>3, WorkClean
  <1>3. CASE dst[n].kind # "file"
    <2>1. /\ dst' = [dst EXCEPT ![n] = Dir] /\ Goto(n, "prune")
          /\ rm' = [q \in Nodes |-> IF sync /\ q \in Children(n) /\ dst[q] # Absent
                                    THEN "task" ELSE rm[q]]
      BY <1>1, <1>3 DEF CrawlDir
    <2>2. /\ n \in Nodes
          /\ \A m \in Names : Part(m) \in Nodes /\ m \in Nodes /\ m \notin Children(n)
                              /\ Part(m) # n
          /\ \A k \in Kids : k \in Nodes /\ k # n
      BY Places DEF Children
    <2>3. dst'[n] = Dir /\ \A q \in Nodes \ {n} : dst'[q] = dst[q]
      BY <2>1, <2>2 DEF IInv, TypeOK
    <2>4. pc'[n] = "prune" /\ \A m \in Names \ {n} : pc'[m] = pc[m]
      BY <2>1, OtherNames DEF IInv
    <2>5. Work(n)
      BY <1>1, <2>1, <2>2, <2>3, <2>4 DEF Work
    <2>6. sync => \A k \in Children(n) : Going(k)'
      BY <2>1, <2>2, <2>3 DEF Going, Children
    <2>7. DirDone(n)'
      <3>1. Children(n)' = Children(n)
        BY DEF Children
      <3> QED BY <1>1, <2>3, <2>4, <2>6, <3>1 DEF DirDone
    <2> QED BY <1>1, <2>5, <2>7, WorkClean DEF NameDone
  <1> QED BY <1>2, <1>3

LEMMA PrunedClean ==
    ASSUME IInv, Clean, calm = TRUE, NEW n \in Names, Pruned(n)
    PROVE  Clean'
  <1>1. /\ pc[n] = "prune" /\ Goto(n, "idle") /\ UNCHANGED <<sync, src, dst, dirpc, job, rm>>
        /\ \A k \in Children(n) : rm[k] = "none"
    BY DEF Pruned
  <1>2. src[n].kind = "dir" /\ DirDone(n)
    BY <1>1, AtWork
  <1>3. Work(n) /\ pc'[n] = "idle"
    <2>1. Puts(n, "idle", dst[n], dst[Part(n)])
      BY <1>1, SameEntries DEF Puts, IInv, TypeOK
    <2> QED BY <2>1, NameWork
  <1>4. Children(n)' = Children(n)
    BY DEF Children
  <1>5. DirDone(n)'
    BY <1>1, <1>2, <1>3, <1>4 DEF DirDone, Going
  <1> QED BY <1>1, <1>2, <1>3, <1>5, WorkClean DEF NameDone

LEMMA SendMetadataClean ==
    ASSUME IInv, Clean, calm = TRUE, NEW n \in Names, SendMetadata(n)
    PROVE  Clean'
  <1> DEFINE j == NewJob(n, TRUE, FALSE)
  <1>1. /\ pc[n] = "file" /\ src[n].kind = "file" /\ ~Wanted(n)
        /\ job' = [job EXCEPT ![n] = j] /\ Goto(n, "check")
        /\ UNCHANGED <<sync, src, dst, dirpc, rm>>
    BY DEF SendMetadata
  <1>2. Work(n) /\ pc'[n] = "check"
    <2>1. Puts(n, "check", dst[n], dst[Part(n)])
      BY <1>1, SameEntries DEF Puts, IInv, TypeOK
    <2> QED BY <2>1, NameWork
  <1>3. job'[n].ver = src[n].ver /\ job'[n].key = src[n].key /\ ~job'[n].errors /\ job'[n].meta
    <2>1. job'[n] = j
      BY <1>1 DEF IInv, TypeOK
    <2> QED BY <2>1 DEF NewJob
  <1>4. RightData(n, dst[n].data)
    <2>1. src[n].key \in 0 .. MaxChanges
      BY NameTypes DEF IInv
    <2>2. dst[n].kind = "file" /\ dst[n].key = Version(src[n].key)
      BY <1>1 DEF Wanted
    <2>3. Fresh(n, src[n].key, dst[n].data)
      BY <2>1, <2>2 DEF IInv, NameInv, Known
    <2> QED BY <2>3 DEF Fresh, RightData, Hidden
  <1>5. FileDone(n)'
    BY <1>1, <1>2, <1>3, <1>4 DEF FileDone, RightData, Hidden
  <1> QED BY <1>1, <1>2, <1>5, WorkClean DEF NameDone

LEMMA SendFileClean ==
    ASSUME IInv, Clean, calm = TRUE, calm' = TRUE, NEW n \in Names, SendFile(n)
    PROVE  Clean'
  <1> DEFINE j == NewJob(n, FALSE, FALSE)
  <1>1. /\ pc[n] = "file" /\ src[n].kind = "file"
        /\ \E p \in NewPartials(n) : dst' = [dst EXCEPT ![Part(n)] = p]
        /\ job' = [job EXCEPT ![n] = j] /\ Goto(n, "copy")
        /\ UNCHANGED <<sync, src, dirpc, rm>>
    BY DEF SendFile, Fault
  <1>2. Work(n) /\ pc'[n] = "copy"
    <2>1. PICK p \in NewPartials(n) : dst' = [dst EXCEPT ![Part(n)] = p]
      BY <1>1
    <2>2. Puts(n, "copy", dst[n], p)
      BY <1>1, <2>1, SameEntries DEF Puts, IInv, TypeOK
    <2> QED BY <2>2, NameWork
  <1>3. job'[n].ver = src[n].ver /\ job'[n].key = src[n].key /\ ~job'[n].errors /\ ~job'[n].stale
    <2>1. job'[n] = j
      BY <1>1 DEF IInv, TypeOK
    <2> QED BY <2>1 DEF NewJob
  <1>4. FileDone(n)'
    BY <1>1, <1>2, <1>3 DEF FileDone
  <1> QED BY <1>1, <1>2, <1>4, WorkClean DEF NameDone

LEMMA CopyClean ==
    ASSUME IInv, Clean, calm = TRUE, calm' = TRUE, NEW n \in Names, Copy(n)
    PROVE  Clean'
  <1>1. pc[n] = "copy" /\ Goto(n, "check") /\ UNCHANGED <<sync, src, dirpc, rm>>
    BY DEF Copy
  <1>2. src[n].kind = "file" /\ FileDone(n)
    BY <1>1, AtWork
  <1>3. PICK o \in Outcomes, data \in {Version(job[n].ver), Torn, Bad, Lost} :
          /\ IF o = "good" THEN NoFault ELSE Fault
          /\ o = "errors" <=> data = Bad
          /\ data = Torn => src[n].kind # "file" \/ src[n].ver # job[n].ver
          /\ dst' = [dst EXCEPT ![Part(n)].data = data]
          /\ job' = [job EXCEPT ![n].errors = (o = "errors")]
    BY Zenon DEF Copy
  <1>4. o = "good"
    BY <1>3 DEF Fault
  <1>5. data \in {Version(src[n].ver), Lost}
    BY <1>1, <1>2, <1>3, <1>4 DEF FileDone, Calls
  <1>6. job[n] \in JobType /\ job \in [Names -> JobType]
    BY DEF IInv, TypeOK
  <1>7. job' = [job EXCEPT ![n] = [job[n] EXCEPT !.errors = FALSE]]
    <2>1. (o = "errors") = FALSE
      BY <1>4
    <2>2. job' = [job EXCEPT ![n] = [@ EXCEPT !.errors = (o = "errors")]]
      BY <1>3, Zenon
    <2> QED BY <2>1, <2>2, Zenon
  <1>8. dst' = [dst EXCEPT ![Part(n)] = [dst[Part(n)] EXCEPT !.data = data]]
    BY <1>3, Zenon
  <1>9. /\ Work(n) /\ pc'[n] = "check" /\ dst'[n] = dst[n]
        /\ dst'[Part(n)] = [dst[Part(n)] EXCEPT !.data = data]
    <2>1. Puts(n, "check", dst[n], [dst[Part(n)] EXCEPT !.data = data])
      BY <1>1, <1>7, <1>8, SameEntries DEF Puts, IInv, TypeOK
    <2> QED BY <2>1, NameWork
  <1>10. dst[Part(n)] \in FileType /\ ~job[n].meta
    BY <1>1, NameTypes DEF IInv, NameInv, JobAt
  <1>11. dst'[Part(n)].data = data
    BY <1>9, <1>10 DEF FileType
  <1>12. job'[n].ver = src[n].ver /\ job'[n].key = src[n].key /\ ~job'[n].errors /\ ~job'[n].meta
    <2>1. job'[n] = [job[n] EXCEPT !.errors = FALSE]
      BY <1>6, <1>7
    <2>2. /\ job'[n].ver = job[n].ver /\ job'[n].key = job[n].key /\ job'[n].errors = FALSE
          /\ job'[n].meta = job[n].meta
      BY <1>6, <2>1 DEF JobType
    <2> QED BY <1>1, <1>2, <1>10, <2>2 DEF FileDone, Calls
  <1>13. FileDone(n)'
    BY <1>1, <1>5, <1>9, <1>11, <1>12 DEF FileDone, RightData, Hidden
  <1> QED BY <1>1, <1>2, <1>9, <1>13, WorkClean DEF NameDone

LEMMA CheckClean ==
    ASSUME IInv, Clean, calm = TRUE, NEW n \in Names, Check(n)
    PROVE  Clean'
  <1> DEFINE at == IF job[n].meta THEN n ELSE Part(n)
  <1>1. pc[n] = "check" /\ UNCHANGED <<sync, src, dst, dirpc>>
    BY DEF Check
  <1>2. src[n].kind = "file" /\ FileDone(n)
    BY <1>1, AtWork
  <1>3. dst[at].kind = "file" /\ ~job[n].errors /\ (job[n].meta => dst[Part(n)] = Absent)
    BY <1>1, <1>2 DEF IInv, NameInv, JobAt, FileDone, Calls
  <1>4. /\ job' = [job EXCEPT ![n].seen = dst[at]]
        /\ Goto(n, IF job[n].meta THEN "times" ELSE "clear")
        /\ rm' = IF job[n].meta THEN rm ELSE [rm EXCEPT ![n] = "task"]
    BY <1>3, Zenon DEF Check
  <1>5. job[n] \in JobType /\ job \in [Names -> JobType]
    BY DEF IInv, TypeOK
  <1>6. job' = [job EXCEPT ![n] = [job[n] EXCEPT !.seen = dst[at]]]
    BY <1>4, Zenon
  <1>7. Work(n) /\ pc'[n] = (IF job[n].meta THEN "times" ELSE "clear")
    <2>1. Puts(n, IF job[n].meta THEN "times" ELSE "clear", dst[n], dst[Part(n)])
      BY <1>1, <1>4, <1>6, SameEntries DEF Puts, IInv, TypeOK
    <2> QED BY <2>1, NameWork
  <1>8. job'[n] = [job[n] EXCEPT !.seen = dst[at]]
    BY <1>5, <1>6
  <1>9. /\ job'[n].ver = src[n].ver /\ job'[n].key = src[n].key /\ ~job'[n].errors
        /\ job'[n].seen = dst[at] /\ job'[n].meta = job[n].meta
    BY <1>1, <1>2, <1>5, <1>8 DEF FileDone, Calls, JobType
  <1>10. ~job[n].meta => Going(n)'
    <2>1. ~job[n].meta => rm'[n] = "task"
      BY <1>4, SameEntries DEF IInv, TypeOK
    <2> QED BY <2>1 DEF Going
  <1>11. FileDone(n)'
    <2>1. CASE job[n].meta
      <3>1. pc'[n] = "times" /\ job'[n].seen = dst'[n] /\ RightData(n, dst[n].data)
        BY <1>1, <1>2, <1>7, <1>9, <2>1 DEF FileDone
      <3> QED BY <1>1, <1>3, <1>9, <2>1, <3>1 DEF FileDone, RightData, Hidden
    <2>2. CASE ~job[n].meta
      <3>1. /\ pc'[n] = "clear" /\ job'[n].seen = dst'[Part(n)]
            /\ RightData(n, dst[Part(n)].data)
        BY <1>1, <1>2, <1>7, <1>9, <2>2 DEF FileDone
      <3> QED BY <1>1, <1>9, <1>10, <2>2, <3>1 DEF FileDone, RightData, Hidden
    <2> QED BY <2>1, <2>2
  <1> QED BY <1>1, <1>2, <1>7, <1>11, WorkClean DEF NameDone

LEMMA RenameClean ==
    ASSUME IInv, Clean, calm = TRUE, NEW n \in Names, Rename(n)
    PROVE  Clean'
  <1>1. pc[n] = "clear" /\ rm[n] = "none" /\ UNCHANGED <<sync, src, dirpc, job, rm>>
    BY DEF Rename
  <1>2. src[n].kind = "file" /\ FileDone(n)
    BY <1>1, AtWork
  <1>3. dst[n] = Absent /\ dst[Part(n)].kind = "file"
    BY <1>1, <1>2 DEF FileDone, Going, IInv, NameInv, JobAt
  <1>4. /\ dst' = [dst EXCEPT ![n] = dst[Part(n)], ![Part(n)] = Absent]
        /\ Goto(n, "times")
    BY <1>3, KindFacts DEF Rename
  <1>5. /\ Work(n) /\ pc'[n] = "times" /\ dst'[n] = dst[Part(n)] /\ dst'[Part(n)] = Absent
    <2>1. Puts(n, "times", dst[Part(n)], Absent)
      BY <1>1, <1>4 DEF Puts, IInv, TypeOK
    <2> QED BY <2>1, NameWork
  <1>6. FileDone(n)'
    BY <1>1, <1>2, <1>3, <1>5 DEF FileDone, RightData, Hidden, Calls
  <1> QED BY <1>1, <1>2, <1>5, <1>6, WorkClean DEF NameDone

LEMMA SetTimesClean ==
    ASSUME IInv, Clean, calm = TRUE, NEW n \in Names, SetTimes(n)
    PROVE  Clean'
  <1>1. /\ pc[n] = "times" /\ Goto(n, "owner") /\ UNCHANGED <<sync, src, dirpc, job, rm>>
    BY DEF SetTimes
  <1>2. src[n].kind = "file" /\ FileDone(n)
    BY <1>1, AtWork
  <1> DEFINE key == Version(job[n].key)
  <1>3. dst[n] \in FileType /\ job[n].seen = dst[n] /\ key \in KeyTags
    <2>1. job[n].key \in 0 .. MaxChanges
      BY NameTypes DEF IInv
    <2> QED BY <1>1, <1>2, <2>1, NameTypes DEF FileDone, IInv, KeyTags
  <1>4. PICK f \in FileType : /\ dst' = [dst EXCEPT ![n] = f]
                              /\ f.key = key /\ f.data = dst[n].data
                              /\ f.owner = dst[n].owner /\ f.mode = dst[n].mode
    <2>1. CASE job[n].seen.key = key
      <3>1. dst' = dst
        BY <2>1 DEF SetTimes
      <3>2. dst' = [dst EXCEPT ![n] = dst[n]]
        BY <3>1, SameEntries DEF IInv, TypeOK
      <3> QED BY <1>3, <2>1, <3>2
    <2>2. CASE job[n].seen.key # key
      <3>1. dst' = [dst EXCEPT ![n].key = key]
        BY <2>2 DEF SetTimes
      <3>2. dst' = [dst EXCEPT ![n] = [dst[n] EXCEPT !.key = key]]
        BY <3>1, Zenon
      <3> QED BY <1>3, <3>2, WithKey
    <2> QED BY <2>1, <2>2
  <1>5. Work(n) /\ pc'[n] = "owner" /\ dst'[n] = f /\ dst'[Part(n)] = dst[Part(n)]
    <2>1. Puts(n, "owner", f, dst[Part(n)])
      BY <1>1, <1>4, SameEntries DEF Puts, IInv, TypeOK
    <2> QED BY <2>1, NameWork
  <1>6. f.kind = "file"
    BY DEF FileType
  <1>7. FileDone(n)'
    BY <1>1, <1>2, <1>3, <1>4, <1>5, <1>6 DEF FileDone, RightData, Hidden, Calls
  <1> QED BY <1>1, <1>2, <1>5, <1>7, WorkClean DEF NameDone

LEMMA SetOwnerClean ==
    ASSUME IInv, Clean, calm = TRUE, NEW n \in Names, SetOwner(n)
    PROVE  Clean'
  <1>1. /\ pc[n] = "owner" /\ Goto(n, "mode") /\ UNCHANGED <<sync, src, dirpc, job, rm>>
    BY DEF SetOwner
  <1>2. src[n].kind = "file" /\ FileDone(n)
    BY <1>1, AtWork
  <1>3. /\ dst[n] \in FileType
        /\ dst[n].owner = job[n].seen.owner /\ dst[n].mode = job[n].seen.mode
    BY <1>1, <1>2, NameTypes DEF FileDone, IInv
  <1>4. PICK f \in FileType : /\ dst' = [dst EXCEPT ![n] = f]
                              /\ f.key = dst[n].key /\ f.data = dst[n].data /\ f.owner
                              /\ n \notin SetId => f.mode = dst[n].mode
    <2>1. CASE job[n].seen.owner
      <3>1. dst' = dst
        BY <2>1 DEF SetOwner
      <3>2. dst' = [dst EXCEPT ![n] = dst[n]]
        BY <3>1, SameEntries DEF IInv, TypeOK
      <3> QED BY <1>3, <2>1, <3>2
    <2>2. CASE ~job[n].seen.owner
      <3> DEFINE m == dst[n].mode /\ n \notin SetId
                 g == [dst[n] EXCEPT !.owner = TRUE, !.mode = dst[n].mode /\ n \notin SetId]
      <3>1. dst' = [dst EXCEPT ![n].owner = TRUE, ![n].mode = @ /\ n \notin SetId]
        BY <2>2 DEF SetOwner
      <3>2. m \in BOOLEAN
        OBVIOUS
      <3>3. g \in FileType /\ g.key = dst[n].key /\ g.data = dst[n].data /\ g.owner = TRUE
            /\ g.mode = m
        BY <1>3, <3>2, WithOwner, Zenon
      <3>4. dst' = [dst EXCEPT ![n] = g]
        BY <1>3, <3>1, SameEntries DEF IInv, TypeOK, FileType
      <3>5. n \notin SetId => m = dst[n].mode
        <4>1. dst[n].mode \in BOOLEAN
          BY <1>3 DEF FileType
        <4> QED BY <4>1
      <3> QED BY <3>3, <3>4, <3>5
    <2> QED BY <2>1, <2>2
  <1>5. Work(n) /\ pc'[n] = "mode" /\ dst'[n] = f /\ dst'[Part(n)] = dst[Part(n)]
    <2>1. Puts(n, "mode", f, dst[Part(n)])
      BY <1>1, <1>4, SameEntries DEF Puts, IInv, TypeOK
    <2> QED BY <2>1, NameWork
  <1>6. f.kind = "file"
    BY DEF FileType
  <1>7. FileDone(n)'
    BY <1>1, <1>2, <1>3, <1>4, <1>5, <1>6 DEF FileDone, RightData, Hidden, Calls
  <1> QED BY <1>1, <1>2, <1>5, <1>7, WorkClean DEF NameDone

LEMMA SetModeClean ==
    ASSUME IInv, Clean, calm = TRUE, NEW n \in Names, SetMode(n)
    PROVE  Clean'
  <1>1. /\ pc[n] = "mode" /\ Goto(n, "idle") /\ UNCHANGED <<sync, src, dirpc, job, rm>>
    BY DEF SetMode
  <1>2. src[n].kind = "file" /\ FileDone(n)
    BY <1>1, AtWork
  <1>3. dst[n] \in FileType
    BY <1>1, <1>2, NameTypes DEF FileDone, IInv
  <1>4. PICK f \in FileType : /\ dst' = [dst EXCEPT ![n] = f]
                              /\ f.key = dst[n].key /\ f.data = dst[n].data
                              /\ f.owner = dst[n].owner /\ (n \notin SetId => f.mode)
    <2>1. CASE job[n].seen.mode
      <3>1. dst' = dst
        BY <2>1 DEF SetMode
      <3>2. dst' = [dst EXCEPT ![n] = dst[n]]
        BY <3>1, SameEntries DEF IInv, TypeOK
      <3> QED BY <1>1, <1>2, <1>3, <2>1, <3>2 DEF FileDone
    <2>2. CASE ~job[n].seen.mode
      <3>1. dst' = [dst EXCEPT ![n].mode = TRUE]
        BY <2>2 DEF SetMode
      <3>2. dst' = [dst EXCEPT ![n] = [dst[n] EXCEPT !.mode = TRUE]]
        BY <3>1, Zenon
      <3> QED BY <1>3, <3>2, WithMode
    <2> QED BY <2>1, <2>2
  <1>5. Work(n) /\ pc'[n] = "idle" /\ dst'[n] = f /\ dst'[Part(n)] = dst[Part(n)]
    <2>1. Puts(n, "idle", f, dst[Part(n)])
      BY <1>1, <1>4, SameEntries DEF Puts, IInv, TypeOK
    <2> QED BY <2>1, NameWork
  <1>6. f.kind = "file"
    BY DEF FileType
  <1>7. FileDone(n)'
    BY <1>1, <1>2, <1>4, <1>5, <1>6 DEF FileDone, RightData, Hidden, Calls
  <1> QED BY <1>1, <1>2, <1>5, <1>7, WorkClean DEF NameDone

\* Nothing else is done for a name unless a call fails.
LEMMA NameStepClean ==
    ASSUME IInv, Clean, calm' = TRUE, NEW n \in Names, NameStep(n)
    PROVE  Clean'
  <1>1. calm = TRUE
    BY DEF NameStep, CrawlDir, CrawlDirFails, Pruned, StatFails, SendMetadata, SendFile,
       NoFile, Copy, Check, CheckFails, Rename, RenameFails, SetTimes, SetOwner, SetMode,
       SetFails, Discard, Fault, NoFault
  <1>2. ~CrawlDirFails(n) /\ ~CheckFails(n) /\ ~RenameFails(n) /\ ~SetFails(n)
    BY DEF CrawlDirFails, CheckFails, RenameFails, SetFails, Fault
  <1>3. ~StatFails(n) /\ ~NoFile(n) /\ ~Discard(n)
    BY <1>1, AtWork DEF StatFails, NoFile, Discard, FileDone, Fault
  <1> QED BY <1>1, <1>2, <1>3, CrawlDirClean, PrunedClean, SendMetadataClean, SendFileClean,
      CopyClean, CheckClean, RenameClean, SetTimesClean, SetOwnerClean, SetModeClean
      DEF NameStep

\* A removal that does not fail takes away what it is for.
LEMMA RemoveClean ==
    ASSUME IInv, Clean, calm' = TRUE, NEW p \in Nodes, RemoveStep(p)
    PROVE  Clean'
  <1>1. calm = TRUE /\ ~RemoveFails(p) /\ rm[p] # "none"
        /\ UNCHANGED <<sync, src, dirpc, pc, job>>
    BY DEF RemoveStep, Remove, RemoveDir, RemoveFails, Fault, NoFault
  <1>2. KidsGoing
    BY <1>1 DEF Clean
  <1>3. \A k \in Kids : k \in Nodes /\ KidParent[k] \in Nodes /\ KidParent[k] # k
    BY Places
  <1>4. /\ \A q \in Nodes : dst'[q] = dst[q] \/ (q = p /\ dst'[q] = Absent)
        /\ \A q \in Nodes : Going(q) => Going(q)'
        /\ KidsGoing'
    <2>1. CASE Remove(p) /\ dst[p].kind = "dir"
      <3>1. /\ dst' = dst
            /\ rm' = [q \in Nodes |->
                        IF q = p THEN "listed"
                        ELSE IF q \in Children(p) /\ dst[q] # Absent THEN "task"
                        ELSE rm[q]]
        BY <2>1 DEF Remove
      <3>2. \A q \in Nodes : Going(q) => Going(q)'
        BY <1>1, <3>1 DEF Going
      <3>3. \A k \in Kids : rm'[KidParent[k]] = "listed" => Going(k)'
        <4> SUFFICES ASSUME NEW k \in Kids, rm'[KidParent[k]] = "listed" PROVE Going(k)'
          OBVIOUS
        <4>1. CASE KidParent[k] = p
          BY <1>3, <3>1, <4>1 DEF Going, Children
        <4>2. CASE KidParent[k] # p
          BY <1>2, <1>3, <3>1, <3>2, <4>2 DEF KidsGoing
        <4> QED BY <4>1, <4>2
      <3> QED BY <3>1, <3>2, <3>3 DEF KidsGoing
    <2>2. CASE Remove(p) /\ dst[p].kind # "dir"
      <3>1. dst' = [dst EXCEPT ![p] = Absent] /\ rm' = [rm EXCEPT ![p] = "none"]
        BY <2>2 DEF Remove
      <3>2. \A q \in Nodes : Going(q) => Going(q)'
        BY <3>1 DEF Going, IInv, TypeOK
      <3>3. \A k \in Kids : rm'[KidParent[k]] = "listed" => Going(k)'
        BY <1>2, <1>3, <3>1, <3>2 DEF KidsGoing, IInv, TypeOK
      <3> QED BY <3>1, <3>2, <3>3 DEF KidsGoing, IInv, TypeOK
    <2>3. CASE RemoveDir(p)
      <3>1. \A k \in Children(p) : dst[k] = Absent
        BY <1>2, <2>3 DEF RemoveDir, KidsGoing, Going, Children
      <3>2. dst' = [dst EXCEPT ![p] = Absent] /\ rm' = [rm EXCEPT ![p] = "none"]
        BY <2>3, <3>1 DEF RemoveDir
      <3>3. \A q \in Nodes : Going(q) => Going(q)'
        BY <3>2 DEF Going, IInv, TypeOK
      <3>4. \A k \in Kids : rm'[KidParent[k]] = "listed" => Going(k)'
        BY <1>2, <1>3, <3>2, <3>3 DEF KidsGoing, IInv, TypeOK
      <3> QED BY <3>2, <3>3, <3>4 DEF KidsGoing, IInv, TypeOK
    <2> QED BY <1>1, <2>1, <2>2, <2>3 DEF RemoveStep
  <1>5. dirpc = "prune" =>
          \A n \in Names : Going(Part(n))' /\ (src'[n].kind = "gone" => Going(n)')
    BY <1>1, <1>4, Places DEF Clean
  <1>6. dirpc \in {"done", "off"} => \A n \in Names : NameDone(n)'
    <2> SUFFICES ASSUME dirpc \in {"done", "off"}, NEW n \in Names PROVE NameDone(n)'
      OBVIOUS
    <2>1. dirpc = "done" /\ NameDone(n)
      BY <1>1 DEF Clean, IInv, Removals
    <2>2. p # Part(n) /\ (p = n => pc[n] = "clear")
      BY <1>1, <2>1 DEF IInv, Removals
    <2>3. dst'[Part(n)] = dst[Part(n)] /\ (dst'[n] = dst[n] \/ pc[n] = "clear")
      BY <1>4, <2>2, Places
    <2>4. Going(n) => Going(n)'
      BY <1>4, Places
    <2>5. \A k \in Kids : dst'[k] \in {dst[k], Absent} /\ (Going(k) => Going(k)')
      BY <1>3, <1>4
    <2> QED BY <1>1, <2>1, <2>3, <2>4, <2>5, NameDoneFrame
  <1> QED BY <1>1, <1>4, <1>5, <1>6 DEF Clean

LEMMA DirStepClean ==
    ASSUME IInv, Clean, calm' = TRUE, StartRun \/ DirStep
    PROVE  Clean'
  <1>1. CASE StartRun
    <2>1. /\ dirpc' = (IF sync THEN "sync" ELSE "crawl") /\ UNCHANGED <<sync, rm>>
          /\ \A p \in Nodes : rm[p] = "none"
      BY <1>1 DEF StartRun, IInv, Removals
    <2>2. KidsGoing'
      BY <2>1, Places DEF KidsGoing
    <2> QED BY <2>1, <2>2 DEF Clean
  <1>2. CASE ListExtras
    <2>1. /\ dirpc' = "prune" /\ UNCHANGED <<src, dst>>
          /\ rm' = [p \in Nodes |->
                      IF /\ p \in Entries
                         /\ dst[p] # Absent
                         /\ p \in Names => src[p].kind = "gone"
                      THEN "task" ELSE rm[p]]
          /\ \A p \in Nodes : rm[p] = "none"
      BY <1>2 DEF ListExtras, IInv, Removals
    <2>2. KidsGoing'
      BY <2>1, Places DEF KidsGoing
    <2>3. ASSUME NEW n \in Names
          PROVE  Going(Part(n))' /\ (src'[n].kind = "gone" => Going(n)')
      <3>1. n \in Entries /\ Part(n) \in Entries
        BY DEF Entries
      <3> QED BY <2>1, <3>1, Places DEF Going
    <2> QED BY <2>1, <2>2, <2>3 DEF Clean
  <1>3. CASE DirFails
    BY <1>3 DEF DirFails, Fault
  <1>4. CASE Crawl
    <2>1. /\ dirpc' = "done" /\ UNCHANGED <<sync, src, dst, rm>> /\ calm = TRUE
          /\ pc' = [n \in Names |-> IF src[n].kind = "gone" THEN "idle" ELSE src[n].kind]
          /\ dirpc = "crawl" \/ dirpc = "prune"
          /\ \A p \in Nodes : rm[p] = "none"
      BY <1>4 DEF Crawl, IInv, Removals, NoFault
    <2>2. KidsGoing'
      BY <2>1, Places DEF KidsGoing
    <2>3. ASSUME NEW n \in Names PROVE NameDone(n)'
      <3>1. src[n].kind = "gone" => GoneDone(n)'
        BY <2>1, Places DEF Clean, GoneDone, Going
      <3>2. src[n].kind = "dir" => DirDone(n)'
        BY <2>1 DEF DirDone
      <3>3. src[n].kind = "file" => FileDone(n)'
        BY <2>1 DEF FileDone, Calls
      <3> QED BY <2>1, <3>1, <3>2, <3>3 DEF NameDone
    <2> QED BY <2>1, <2>2, <2>3 DEF Clean
  <1>5. CASE EndRun
    <2>1. /\ dirpc = "done" /\ dirpc' = "off" /\ calm = TRUE
          /\ UNCHANGED <<sync, src, dst, pc, job, rm>>
      BY <1>5 DEF EndRun
    <2>2. KidsGoing'
      BY <2>1 DEF Clean, KidsGoing, Going
    <2>3. ASSUME NEW n \in Names PROVE NameDone(n)'
      BY <2>1, NameDoneFrame DEF Clean, Going
    <2> QED BY <2>1, <2>2, <2>3 DEF Clean
  <1> QED BY <1>1, <1>2, <1>3, <1>4, <1>5 DEF DirStep

LEMMA StepClean == IInv /\ Clean /\ [Next]_vars => Clean'
  <1> SUFFICES ASSUME IInv, Clean, [Next]_vars, calm' = TRUE PROVE Clean'
    BY DEF Clean
  <1>1. CASE StartRun \/ DirStep
    BY <1>1, DirStepClean
  <1>2. CASE Crash
    BY <1>2 DEF Crash
  <1>3. ASSUME NEW n \in Names, NameStep(n) PROVE Clean'
    BY <1>3, NameStepClean
  <1>4. ASSUME NEW n \in Names, Change(n) PROVE Clean'
    BY <1>4 DEF Change
  <1>5. ASSUME NEW p \in Nodes, RemoveStep(p) PROVE Clean'
    BY <1>5, RemoveClean
  <1>6. CASE UNCHANGED vars
    <2>1. UNCHANGED <<sync, src, dst, dirpc, pc, job, rm, calm>>
      BY <1>6 DEF vars
    <2>2. \A n \in Names : NameDone(n) => NameDone(n)'
      BY <2>1, NameDoneFrame DEF Going
    <2> QED BY <2>1, <2>2 DEF Clean, KidsGoing, Going
  <1> QED BY <1>1, <1>2, <1>3, <1>4, <1>5, <1>6 DEF Next

\* A run in which nothing fails and nothing changes makes the destination the
\* source's mirror, whatever the runs before have left (copy2.cpp:604-1312).
THEOREM CleanRunsMirror == Spec => []CleanRunMirrors
  <1>1. IInv /\ Clean => CleanRunMirrors
    <2> SUFFICES ASSUME IInv, Clean, dirpc = "off", calm, NEW n \in Names
                 PROVE  Mirrored(n) /\ (src[n].kind = "file" /\ n \notin SetId => dst[n].mode)
      BY DEF CleanRunMirrors
    <2>0. calm = TRUE
      BY Zenon DEF IInv, TypeOK
    <2>1. NameDone(n) /\ pc[n] = "idle"
      BY <2>0 DEF Clean, IInv, Removals
    <2>2. src[n].kind \in {"file", "dir", "gone"}
      BY OptionAssumption DEF IInv, TypeOK
    <2>3. CASE src[n].kind = "file"
      BY <2>1, <2>3 DEF NameDone, FileDone, Mirrored, Wanted, RightData
    <2>4. CASE src[n].kind = "dir"
      BY <2>1, <2>4 DEF NameDone, DirDone, Mirrored
    <2>5. CASE src[n].kind = "gone"
      BY <2>1, <2>5 DEF NameDone, GoneDone, Mirrored
    <2> QED BY <2>2, <2>3, <2>4, <2>5
  <1>2. Init => Clean
    BY DEF Init, Clean
  <1>3. Spec => []Clean
    <2>1. IInv /\ Clean /\ [Next]_vars => Clean'
      BY StepClean
    <2> QED BY <1>2, <2>1, InductiveInvariant, PTL DEF Spec
  <1> QED BY <1>1, <1>3, InductiveInvariant, PTL
----------------------------------------------------------------------------
(***************************************************************************)
(* A run ends: somebody always goes on, and what is done is done once.     *)
(***************************************************************************)

\* Who can go on without a failure: the removal of p, the task or the job of n,
\* the crawl of the directory.
CanRemove(p) ==
    \/ rm[p] = "task"
    \/ rm[p] = "listed" /\ \A k \in Children(p) : rm[k] = "none"

NameCanGo(n) ==
    /\ pc[n] # "idle"
    /\ pc[n] = "file" => src[n].kind \in {"file", "gone"} \/ Wanted(n)
    /\ pc[n] = "prune" => \A k \in Children(n) : rm[k] = "none"
    /\ pc[n] = "clear" => rm[n] = "none"

DirCanGo ==
    \/ dirpc \in {"off", "sync", "crawl"}
    \/ dirpc = "prune" /\ \A p \in Nodes : rm[p] = "none"
    \/ dirpc = "done" /\ \A n \in Names : pc[n] = "idle"

Below(p) == {p} \cup Children(p) \cup UNION {Children(k) : k \in Children(p)}

RemovalGoesOn(p) == \E q \in Below(p) : CanRemove(q)

\* Every removal goes on, at its root or below; every name does, or what is
\* removed for it; and so does the directory, or one of those it waits for.
NobodyStuck ==
    /\ \A p \in Nodes : rm[p] # "none" => RemovalGoesOn(p)
    /\ \A n \in Names : pc[n] # "idle" => NameCanGo(n) \/ RemovalGoesOn(n)
    /\ \/ DirCanGo
       \/ \E p \in Nodes : rm[p] # "none"
       \/ \E n \in Names : pc[n] # "idle"

\* A name that is no file any more since readdir called it one is not taken for
\* up to date: its key is a new one, and the destination has none of the future.
Found == \A n \in Names : pc[n] = "file" /\ src[n].kind # "file" => Wanted(n)

----------------------------------------------------------------------------
\* What a run has still before it.
DirStage ==
    CASE dirpc = "sync" -> 3
      [] dirpc \in {"prune", "crawl"} -> 2
      [] dirpc = "done" -> 1
      [] dirpc = "off" -> 0

NameStage(n) ==
    CASE pc[n] \in {"file", "dir"} -> 7
      [] pc[n] \in {"copy", "prune"} -> 6
      [] pc[n] = "check" -> 5
      [] pc[n] = "clear" -> 4
      [] pc[n] = "times" -> 3
      [] pc[n] = "owner" -> 2
      [] pc[n] \in {"mode", "discard"} -> 1
      [] pc[n] = "idle" -> 0

RemovalStage(p) == CASE rm[p] = "task" -> 2 [] rm[p] = "listed" -> 1 [] rm[p] = "none" -> 0

\* The levels of the trees that are removed: a listing makes tasks one level on.
Upper == {k \in Kids : KidParent[k] \in Names}
Lower == Kids \ Upper

NamesToDo == {w \in Names \X (1 .. 7) : w[2] <= NameStage(w[1])}
RemovalsToDo(S) == {w \in S \X (1 .. 2) : w[2] <= RemovalStage(w[1])}

Less(S, T) == S \subseteq T /\ S # T

\* The first of these that changes has become less.
Progress ==
    \/ DirStage' < DirStage
    \/ dirpc' = dirpc /\ Less(NamesToDo', NamesToDo)
    \/ /\ UNCHANGED <<dirpc, pc>>
       /\ \/ Less(RemovalsToDo(Entries)', RemovalsToDo(Entries))
          \/ /\ RemovalsToDo(Entries)' = RemovalsToDo(Entries)
             /\ \/ Less(RemovalsToDo(Upper)', RemovalsToDo(Upper))
                \/ /\ RemovalsToDo(Upper)' = RemovalsToDo(Upper)
                   /\ Less(RemovalsToDo(Lower)', RemovalsToDo(Lower))

\* The source changes, and the run does not notice.
SourceChanges == changes' = changes + 1 /\ UNCHANGED <<dirpc, pc, rm>>

NameStages == Names \X (1 .. 7)
RemovalStages == Nodes \X (1 .. 2)

LEMMA StagesFinite == IsFiniteSet(NameStages) /\ IsFiniteSet(RemovalStages)
  <1>1. 1 \in Int /\ 2 \in Int /\ 7 \in Int
    OBVIOUS
  <1>2. IsFiniteSet(1 .. 7) /\ IsFiniteSet(1 .. 2)
    BY <1>1, FS_Interval, Zenon
  <1>3. IsFiniteSet(Nodes)
    <2> DEFINE P == {Part(n) : n \in Names}
               part == [n \in Names |-> Part(n)]
    <2>1. part \in Surjection(Names, P)
      <3>1. part \in [Names -> P] /\ \A q \in P : \E n \in Names : part[n] = q
        OBVIOUS
      <3> HIDE DEF part, P
      <3> QED BY <3>1 DEF Surjection
    <2> HIDE DEF part
    <2>2. IsFiniteSet(P)
      BY <2>1, TreeAssumption, FS_Surjection
    <2> QED BY <2>2, TreeAssumption, FS_Union DEF Nodes, Entries
  <1> QED BY <1>2, <1>3, TreeAssumption, FS_Product DEF NameStages, RemovalStages

\* A step of a name takes it on, and touches no other.
LEMMA NameGoesOn ==
    ASSUME TypeOK, NEW n \in Names, NameStep(n)
    PROVE  /\ UNCHANGED <<dirpc, src>>
           /\ NameStage(n)' < NameStage(n) /\ pc'[n] # "file"
           /\ \A m \in Names \ {n} : pc'[m] = pc[m] /\ dst'[m] = dst[m]
  <1>1. /\ n \in Nodes /\ Part(n) \in Nodes
        /\ \A m \in Names \ {n} : m \in Nodes /\ m # Part(n)
    BY Places
  <1>2. \E w : Goto(n, w)
    BY DEF NameStep, CrawlDir, CrawlDirFails, Pruned, StatFails, SendMetadata, SendFile,
           NoFile, Copy, Check, CheckFails, Rename, RenameFails, SetTimes, SetOwner, SetMode,
           SetFails, Discard
  <1>3. \A m \in Names \ {n} : pc'[m] = pc[m]
    BY <1>2 DEF Goto, TypeOK
  <1>4. UNCHANGED <<dirpc, src>>
    BY DEF NameStep, CrawlDir, CrawlDirFails, Pruned, StatFails, SendMetadata, SendFile,
           NoFile, Copy, Check, CheckFails, Rename, RenameFails, SetTimes, SetOwner, SetMode,
           SetFails, Discard
  <1>5. \A m \in Names \ {n} : dst'[m] = dst[m]
    <2>1. CASE dst' = dst
      BY <2>1
    <2>2. CASE \E f : dst' = [dst EXCEPT ![Part(n)] = f]
      BY <1>1, <2>2 DEF TypeOK
    <2>3. CASE \E f : dst' = [dst EXCEPT ![n] = f]
      BY <1>1, <2>3 DEF TypeOK
    <2>4. CASE SendFile(n) \/ Copy(n)
      <3>1. \/ \E f : dst' = [dst EXCEPT ![Part(n)] = f]
            \/ \E d : dst' = [dst EXCEPT ![Part(n)].data = d]
        BY <2>4 DEF SendFile, Copy
      <3>2. CASE \E d : dst' = [dst EXCEPT ![Part(n)].data = d]
        BY <1>1, <3>2 DEF TypeOK
      <3> QED BY <2>2, <3>1, <3>2
    <2>5. CASE Rename(n)
      <3>1. dst' = dst \/ dst' = [dst EXCEPT ![n] = dst[Part(n)], ![Part(n)] = Absent]
        BY <2>5 DEF Rename
      <3> QED BY <1>1, <3>1 DEF TypeOK
    <2>6. CASE SetTimes(n) \/ SetOwner(n) \/ SetMode(n)
      BY <1>1, <2>6 DEF SetTimes, SetOwner, SetMode, TypeOK
    <2>7. CASE CrawlDir(n) \/ CrawlDirFails(n)
      <3>1. dst' = dst \/ dst' = [dst EXCEPT ![n] = Dir]
        BY <2>7 DEF CrawlDir, CrawlDirFails
      <3> QED BY <1>1, <3>1 DEF TypeOK
    <2> QED BY <2>1, <2>2, <2>4, <2>5, <2>6, <2>7
        DEF NameStep, Pruned, StatFails, SendMetadata, NoFile, Check, CheckFails,
            RenameFails, SetFails, Discard
  <1>6. \/ pc[n] = "dir" /\ pc'[n] \in {"idle", "prune"}
        \/ pc[n] = "prune" /\ pc'[n] = "idle"
        \/ pc[n] = "file" /\ pc'[n] \in {"idle", "check", "copy"}
        \/ pc[n] = "copy" /\ pc'[n] = "check"
        \/ pc[n] = "check" /\ pc'[n] \in {"discard", "times", "clear"}
        \/ pc[n] = "clear" /\ pc'[n] \in {"times", "discard"}
        \/ pc[n] = "times" /\ pc'[n] \in {"owner", "idle"}
        \/ pc[n] = "owner" /\ pc'[n] \in {"mode", "idle"}
        \/ pc[n] \in {"mode", "discard"} /\ pc'[n] = "idle"
    <2>1. CASE CrawlDir(n) \/ CrawlDirFails(n) \/ Pruned(n)
      BY <2>1, OtherNames DEF CrawlDir, CrawlDirFails, Pruned
    <2>2. CASE StatFails(n) \/ SendMetadata(n) \/ SendFile(n) \/ NoFile(n)
      BY <2>2, OtherNames DEF StatFails, SendMetadata, SendFile, NoFile
    <2>3. CASE Copy(n) \/ Check(n) \/ CheckFails(n)
      BY <2>3, OtherNames DEF Copy, Check, CheckFails
    <2>4. CASE Rename(n) \/ RenameFails(n) \/ Discard(n)
      BY <2>4, OtherNames DEF Rename, RenameFails, Discard
    <2>5. CASE SetTimes(n) \/ SetOwner(n) \/ SetMode(n) \/ SetFails(n)
      BY <2>5, OtherNames DEF SetTimes, SetOwner, SetMode, SetFails
    <2> QED BY <2>1, <2>2, <2>3, <2>4, <2>5 DEF NameStep
  <1>7. NameStage(n)' < NameStage(n) /\ pc'[n] # "file"
    BY <1>6 DEF NameStage
  <1> QED BY <1>3, <1>4, <1>5, <1>7

\* A removal goes on, and makes tasks for what is below.
LEMMA RemovalDoes ==
    ASSUME TypeOK, NEW p \in Nodes, RemoveStep(p)
    PROVE  /\ rm[p] # "none"
           /\ UNCHANGED <<dirpc, pc, src>> /\ RemovalStage(p)' < RemovalStage(p)
           /\ \A q \in Nodes \ {p} : dst'[q] = dst[q]
           /\ \A q \in Nodes \ {p} : q \notin Children(p) => rm'[q] = rm[q]
  <1>0. p \notin Children(p)
    BY Places DEF Children
  <1>1. CASE Remove(p)
    <2>1. /\ rm[p] = "task" /\ rm'[p] \in {"listed", "none"}
          /\ UNCHANGED <<dirpc, pc, src>>
          /\ \A q \in Nodes \ {p} : dst'[q] = dst[q]
          /\ \A q \in Nodes \ {p} : q \notin Children(p) => rm'[q] = rm[q]
      BY <1>1 DEF Remove, TypeOK
    <2> QED BY <2>1 DEF RemovalStage
  <1>2. CASE RemoveDir(p) \/ RemoveFails(p)
    <2>1. /\ rm[p] \in {"task", "listed"} /\ rm'[p] = "none"
          /\ UNCHANGED <<dirpc, pc, src>>
          /\ \A q \in Nodes \ {p} : dst'[q] = dst[q] /\ rm'[q] = rm[q]
      BY <1>2 DEF RemoveDir, RemoveFails, TypeOK
    <2> QED BY <2>1 DEF RemovalStage
  <1> QED BY <1>1, <1>2 DEF RemoveStep

LEMMA SameNames == ASSUME UNCHANGED pc PROVE NamesToDo' = NamesToDo
  BY DEF NamesToDo, NameStage

LEMMA LessNames ==
    ASSUME TypeOK, TypeOK', NEW n \in Names, NameStage(n)' < NameStage(n),
           \A m \in Names \ {n} : pc'[m] = pc[m]
    PROVE  Less(NamesToDo', NamesToDo)
  <1>1. \A m \in Names : NameStage(m) \in 0 .. 7 /\ NameStage(m)' \in 0 .. 7
    BY DEF TypeOK, NameStage
  <1>2. \A m \in Names : NameStage(m)' <= NameStage(m)
    <2> SUFFICES ASSUME NEW m \in Names PROVE NameStage(m)' <= NameStage(m)
      OBVIOUS
    <2>1. m # n => NameStage(m)' = NameStage(m)
      BY DEF NameStage
    <2> QED BY <1>1, <2>1
  <1>3. NamesToDo' \subseteq NamesToDo
    <2> SUFFICES ASSUME NEW m \in Names, NEW k \in 1 .. 7, k <= NameStage(m)'
                 PROVE  k <= NameStage(m)
      BY DEF NamesToDo
    <2> QED BY <1>1, <1>2
  <1>4. PICK k \in 1 .. 7 : k = NameStage(n)
    BY <1>1
  <1>5. <<n, k>> \in NamesToDo /\ <<n, k>> \notin NamesToDo'
    <2>1. k <= NameStage(n) /\ ~(k <= NameStage(n)')
      BY <1>1, <1>4
    <2> QED BY <2>1 DEF NamesToDo
  <1> QED BY <1>3, <1>5 DEF Less

LEMMA SameRemovals ==
    ASSUME NEW S, \A q \in S : rm'[q] = rm[q]
    PROVE  RemovalsToDo(S)' = RemovalsToDo(S)
  <1>1. \A q \in S : RemovalStage(q)' = RemovalStage(q)
    BY DEF RemovalStage
  <1> QED BY <1>1 DEF RemovalsToDo

LEMMA LessRemovals ==
    ASSUME TypeOK, TypeOK', NEW S \in SUBSET Nodes, NEW p \in S,
           RemovalStage(p)' < RemovalStage(p), \A q \in S \ {p} : rm'[q] = rm[q]
    PROVE  Less(RemovalsToDo(S)', RemovalsToDo(S))
  <1>1. \A q \in S : RemovalStage(q) \in 0 .. 2 /\ RemovalStage(q)' \in 0 .. 2
    BY DEF TypeOK, RemovalStage
  <1>2. \A q \in S : RemovalStage(q)' <= RemovalStage(q)
    <2> SUFFICES ASSUME NEW q \in S PROVE RemovalStage(q)' <= RemovalStage(q)
      OBVIOUS
    <2>1. q # p => RemovalStage(q)' = RemovalStage(q)
      BY DEF RemovalStage
    <2> QED BY <1>1, <2>1
  <1>3. RemovalsToDo(S)' \subseteq RemovalsToDo(S)
    <2> SUFFICES ASSUME NEW q \in S, NEW k \in 1 .. 2, k <= RemovalStage(q)'
                 PROVE  k <= RemovalStage(q)
      BY DEF RemovalsToDo
    <2> QED BY <1>1, <1>2
  <1>4. PICK k \in 1 .. 2 : k = RemovalStage(p)
    BY <1>1
  <1>5. <<p, k>> \in RemovalsToDo(S) /\ <<p, k>> \notin RemovalsToDo(S)'
    <2>1. k <= RemovalStage(p) /\ ~(k <= RemovalStage(p)')
      BY <1>1, <1>4
    <2> QED BY <2>1 DEF RemovalsToDo
  <1> QED BY <1>3, <1>5 DEF Less

LEMMA Levels ==
    /\ Entries \subseteq Nodes /\ Upper \subseteq Nodes /\ Lower \subseteq Nodes
    /\ Nodes = Entries \cup Upper \cup Lower
    /\ \A p \in Nodes : Children(p) \cap Entries = {}
    /\ \A p \in Upper : Children(p) \cap Upper = {} /\ p \notin Entries
    /\ \A p \in Lower : Children(p) = {} /\ p \notin Entries
  <1>1. \A p \in Entries : p \notin Kids
    BY Places DEF Entries
  <1>2. ASSUME NEW p \in Lower PROVE Children(p) = {}
    <2> SUFFICES ASSUME NEW q \in Children(p) PROVE FALSE
      OBVIOUS
    <2>1. q \in Kids /\ KidParent[q] = p /\ p \in Kids
      BY DEF Children, Lower
    <2>2. KidParent[p] \in Names
      BY <2>1, Places
    <2> QED BY <2>1, <2>2 DEF Lower, Upper
  <1>3. ASSUME NEW p \in Upper PROVE Children(p) \cap Upper = {}
    BY Places DEF Children, Upper
  <1> QED BY <1>1, <1>2, <1>3 DEF Nodes, Upper, Lower, Children

LEMMA RemovalProgress ==
    ASSUME TypeOK, TypeOK', NEW p \in Nodes, RemoveStep(p)
    PROVE  Progress
  <1>1. /\ UNCHANGED <<dirpc, pc>> /\ RemovalStage(p)' < RemovalStage(p)
        /\ \A q \in Nodes \ {p} : q \notin Children(p) => rm'[q] = rm[q]
    BY RemovalDoes
  <1>2. CASE p \in Entries
    <2>1. \A q \in Entries \ {p} : rm'[q] = rm[q]
      BY <1>1, Levels
    <2>2. Less(RemovalsToDo(Entries)', RemovalsToDo(Entries))
      BY <1>1, <1>2, <2>1, Levels, LessRemovals
    <2> QED BY <1>1, <2>2 DEF Progress
  <1>3. CASE p \in Upper
    <2>1. \A q \in Entries : rm'[q] = rm[q]
      BY <1>1, <1>3, Levels
    <2>2. \A q \in Upper \ {p} : rm'[q] = rm[q]
      BY <1>1, <1>3, Levels
    <2>3. RemovalsToDo(Entries)' = RemovalsToDo(Entries)
      BY <2>1, SameRemovals
    <2>4. Less(RemovalsToDo(Upper)', RemovalsToDo(Upper))
      BY <1>1, <1>3, <2>2, Levels, LessRemovals
    <2> QED BY <1>1, <2>3, <2>4 DEF Progress
  <1>4. CASE p \in Lower
    <2>1. \A q \in Nodes \ {p} : rm'[q] = rm[q]
      BY <1>1, <1>4, Levels
    <2>2. /\ \A q \in Entries : rm'[q] = rm[q]
          /\ \A q \in Upper : rm'[q] = rm[q]
          /\ \A q \in Lower \ {p} : rm'[q] = rm[q]
      BY <1>4, <2>1, Levels DEF Lower
    <2>3. /\ RemovalsToDo(Entries)' = RemovalsToDo(Entries)
          /\ RemovalsToDo(Upper)' = RemovalsToDo(Upper)
      BY <2>2, SameRemovals
    <2>4. Less(RemovalsToDo(Lower)', RemovalsToDo(Lower))
      BY <1>1, <1>4, <2>2, Levels, LessRemovals
    <2> QED BY <1>1, <2>3, <2>4 DEF Progress
  <1> QED BY <1>2, <1>3, <1>4, Levels

\* The run of copy2 comes to its end: the crawl of the directory, the tasks and
\* jobs of the names and the removals pass finitely many stages, and a step of a
\* run, be it one that fails or an interruption, leaves fewer of them. A job may
\* make a removal, and the listing of a directory the tasks of its entries, but
\* only at the cost of a stage that comes before. What the source does meanwhile
\* adds nothing: it is looked at once (processDir, processNonDir).
THEOREM RunsEnd ==
    /\ IsFiniteSet(NameStages) /\ IsFiniteSet(RemovalStages)
    /\ Spec => [][dirpc # "off" => Progress \/ SourceChanges]_vars
  <1>1. IInv /\ TypeOK' /\ [Next]_vars => [dirpc # "off" => Progress \/ SourceChanges]_vars
    <2> SUFFICES ASSUME IInv, TypeOK', Next, dirpc # "off" PROVE Progress \/ SourceChanges
      OBVIOUS
    <2>0. TypeOK
      BY DEF IInv
    <2>1. CASE StartRun
      BY <2>1 DEF StartRun
    <2>2. CASE DirStep \/ Crash
      <3>1. \/ dirpc = "sync" /\ dirpc' \in {"prune", "done"}
            \/ dirpc \in {"prune", "crawl"} /\ dirpc' = "done"
            \/ dirpc # "off" /\ dirpc' = "off"
        BY <2>2 DEF DirStep, ListExtras, DirFails, Crawl, EndRun, Crash
      <3>2. DirStage' < DirStage
        BY <2>0, <3>1 DEF DirStage, TypeOK
      <3> QED BY <3>2 DEF Progress
    <2>3. ASSUME NEW n \in Names, NameStep(n) PROVE Progress
      <3>1. dirpc' = dirpc /\ Less(NamesToDo', NamesToDo)
        BY <2>0, <2>3, NameGoesOn, LessNames
      <3> QED BY <3>1 DEF Progress
    <2>4. ASSUME NEW n \in Names, Change(n) PROVE SourceChanges
      BY <2>4 DEF Change, SourceChanges
    <2>5. ASSUME NEW p \in Nodes, RemoveStep(p) PROVE Progress
      BY <2>0, <2>5, RemovalProgress
    <2> QED BY <2>1, <2>2, <2>3, <2>4, <2>5 DEF Next
  <1>2. Spec => [][dirpc # "off" => Progress \/ SourceChanges]_vars
    BY <1>1, InductiveInvariant, TypeCorrect, PTL DEF Spec
  <1> QED BY <1>2, StagesFinite

----------------------------------------------------------------------------
\* A name that is not crawled by the step.
LEMMA FoundFrame ==
    ASSUME Found, NEW n \in Names, pc'[n] = "file" => pc[n] = "file",
           src'[n] = src[n], pc[n] = "file" => dst'[n] = dst[n]
    PROVE  (pc[n] = "file" /\ src[n].kind # "file" => Wanted(n))'
  BY DEF Found, Wanted

LEMMA FoundStep == ASSUME IInv, Found, [Next]_vars PROVE Found'
  <1>0. TypeOK
    BY DEF IInv
  <1>1. CASE StartRun \/ ListExtras \/ DirFails \/ EndRun \/ Crash \/ UNCHANGED vars
    <2>1. UNCHANGED <<src, dst>> /\ \A n \in Names : pc'[n] = "file" => pc[n] = "file"
      BY <1>1 DEF StartRun, ListExtras, DirFails, EndRun, Crash, vars
    <2> QED BY <2>1, FoundFrame DEF Found
  <1>2. CASE Crawl
    <2>1. \A n \in Names : pc'[n] = "file" => src'[n].kind = "file"
      BY <1>2 DEF Crawl
    <2> QED BY <2>1 DEF Found
  <1>3. ASSUME NEW n \in Names, NameStep(n) PROVE Found'
    <2>1. /\ UNCHANGED src /\ pc'[n] # "file"
          /\ \A m \in Names \ {n} : pc'[m] = pc[m] /\ dst'[m] = dst[m]
      BY <1>0, <1>3, NameGoesOn
    <2>2. ASSUME NEW m \in Names
          PROVE  (pc[m] = "file" /\ src[m].kind # "file" => Wanted(m))'
      BY <2>1, FoundFrame
    <2> QED BY <2>2 DEF Found
  <1>4. ASSUME NEW n \in Names, Change(n) PROVE Found'
    <2>1. /\ UNCHANGED <<dst, pc>> /\ changes < MaxChanges
          /\ \A m \in Names \ {n} : src'[m] = src[m]
          /\ src'[n].kind = "file" \/ src'[n].key = src[n].ver + 1
      BY <1>0, <1>4 DEF Change, TypeOK
    <2>2. CASE src'[n].kind # "file"
      <3>1. src[n].ver + 1 \in 0 .. MaxChanges /\ src[n].key <= src[n].ver
            /\ src[n].key \in 0 .. MaxChanges /\ src[n].ver \in 0 .. MaxChanges
        BY <2>1, NameTypes DEF IInv, Counted, NameInv, Known, TypeOK
      <3>2. dst[n].kind = "file" => dst[n].key # Version(src[n].ver + 1)
        <4>1. dst[n].kind = "file" /\ dst[n].key = Version(src[n].ver + 1) =>
                 src[n].ver + 1 <= src[n].key
          BY <3>1 DEF IInv, NameInv, Known
        <4> QED BY <3>1, <4>1
      <3>3. Wanted(n)'
        BY <2>1, <2>2, <3>2 DEF Wanted
      <3> QED BY <2>1, <3>3, FoundFrame DEF Found
    <2> QED BY <2>1, <2>2, FoundFrame DEF Found
  <1>5. ASSUME NEW p \in Nodes, RemoveStep(p) PROVE Found'
    <2>1. /\ rm[p] # "none" /\ UNCHANGED <<dirpc, pc, src>>
          /\ \A q \in Nodes \ {p} : dst'[q] = dst[q]
      BY <1>0, <1>5, RemovalDoes
    <2>2. ASSUME NEW n \in Names, pc[n] = "file" PROVE dst'[n] = dst[n]
      <3>1. dirpc = "done" /\ rm[n] = "none"
        BY <2>2 DEF IInv, Removals
      <3> QED BY <2>1, <3>1, Places
    <2> QED BY <2>1, <2>2, FoundFrame DEF Found
  <1> QED BY <1>1, <1>2, <1>3, <1>4, <1>5 DEF Next, DirStep

\* The lowest of what is being removed goes on.
LEMMA KidGoesOn ==
    ASSUME TypeOK, NEW k \in Kids, rm[k] # "none"
    PROVE  \E q \in {k} \cup Children(k) : CanRemove(q)
  <1>1. k \in Nodes /\ rm[k] \in {"task", "listed"}
    BY Places DEF TypeOK
  <1>2. ASSUME NEW q \in Children(k), rm[q] # "none" PROVE CanRemove(q)
    <2>1. q \in Kids /\ q \in Nodes /\ rm[q] \in {"task", "listed"}
      BY <1>2, Places DEF TypeOK, Children
    <2>2. Children(q) = {}
      BY <2>1, Levels, Places DEF Children, Upper, Lower
    <2> QED BY <2>1, <2>2 DEF CanRemove
  <1> QED BY <1>1, <1>2 DEF CanRemove

LEMMA RemovalsGoOn ==
    ASSUME TypeOK, NEW p \in Nodes, rm[p] # "none" \/ \E k \in Children(p) : rm[k] # "none"
    PROVE  RemovalGoesOn(p)
  <1>1. rm[p] \in {"none", "task", "listed"}
    BY DEF TypeOK
  <1>2. CASE \A k \in Children(p) : rm[k] = "none"
    BY <1>1, <1>2 DEF RemovalGoesOn, Below, CanRemove
  <1>3. ASSUME NEW k \in Children(p), rm[k] # "none" PROVE RemovalGoesOn(p)
    <2>1. k \in Kids
      BY DEF Children
    <2>2. PICK q \in {k} \cup Children(k) : CanRemove(q)
      BY <1>3, <2>1, KidGoesOn
    <2> QED BY <2>2 DEF RemovalGoesOn, Below
  <1> QED BY <1>2, <1>3

\* In a run somebody can always go on, and no call need fail for it: a removal,
\* a name that waits for none, and the directory when all of them are through.
\* Nothing waits for itself: the taskgroups of recursiveRemove and processDir
\* wait for what is below them only.
THEOREM SomebodyGoesOn == Spec => []NobodyStuck
  <1>1. IInv /\ Found => NobodyStuck
    <2> SUFFICES ASSUME IInv, Found PROVE NobodyStuck
      OBVIOUS
    <2>0. TypeOK
      BY DEF IInv
    <2>1. \A p \in Nodes : rm[p] # "none" => RemovalGoesOn(p)
      BY <2>0, RemovalsGoOn
    <2>2. ASSUME NEW n \in Names, pc[n] # "idle" PROVE NameCanGo(n) \/ RemovalGoesOn(n)
      <3>1. n \in Nodes
        BY Places
      <3>2. CASE rm[n] # "none" \/ \E k \in Children(n) : rm[k] # "none"
        BY <2>0, <3>1, <3>2, RemovalsGoOn
      <3>3. CASE rm[n] = "none" /\ \A k \in Children(n) : rm[k] = "none"
        BY <2>2, <3>3 DEF NameCanGo, Found
      <3> QED BY <3>2, <3>3
    <2>3. \/ DirCanGo
          \/ \E p \in Nodes : rm[p] # "none"
          \/ \E n \in Names : pc[n] # "idle"
      BY <2>0 DEF TypeOK, DirCanGo
    <2> QED BY <2>1, <2>2, <2>3 DEF NobodyStuck
  <1>2. Init => Found
    BY DEF Init, Found
  <1>3. Spec => []Found
    <2>1. IInv /\ Found /\ [Next]_vars => Found'
      BY FoundStep
    <2> QED BY <1>2, <2>1, InductiveInvariant, PTL DEF Spec
  <1> QED BY <1>1, <1>3, InductiveInvariant, PTL
=============================================================================
