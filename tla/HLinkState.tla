----------------------------- MODULE HLinkState -----------------------------
(***************************************************************************)
(* Hard links.  Names of the source tree that share an inode are to share  *)
(* one on the destination.  hlinkStateRegisterLinkRoot makes the first     *)
(* name of an inode it sees the root of its group (an HLinkInfo in the     *)
(* forward table, by source inode), which is copied as a file; the other   *)
(* names are linked to it, at once if it has been transferred, else when   *)
(* hlinkStateHandleTransfer is told so.  The rev table (HLinkInfoRev, by   *)
(* destination inode) remembers which source a destination inode was last  *)
(* taken for, to find names that are linked on the destination only.       *)
(*                                                                         *)
(* The tables are guarded by a readers-writer lock, each HLinkInfo and     *)
(* HLinkInfoRev by a spinlock.  "Promoting" the lock is releasing it and   *)
(* waiting for it as a writer: others run in between.                      *)
(*                                                                         *)
(* Regular files, no directories: a name is processed by its crawler task  *)
(* (processNonDir) and, if it becomes a job, by a finish processor later.  *)
(* The tables are maps from inodes: the caches and LMDB under them are not *)
(* told apart.  The memory of an entry is live or freed; behaviours end    *)
(* where freed memory is about to be used, as the code is undefined from   *)
(* there on.  The build is the RelWithDebInfo of the README, without       *)
(* assertions; one with them stops where one fails.                        *)
(***************************************************************************)
EXTENDS Integers, FiniteSets

CONSTANTS
    Names,      \* names of regular files, the same on both sides
    NoName,     \* none of them
    Sources,    \* source trees: records of the inode and the nlink of each name
    OldInodes,  \* inodes the destination may hold at the start
    Extra,      \* [OldInodes -> Nat]: links to them under names the source lacks
    NewInode    \* [Names -> inodes]: the inode of the partial file of a name

NoInode == 0
NewInodes == {NewInode[n] : n \in Names}
Inodes == OldInodes \cup NewInodes

ASSUME NamesAssumption == IsFiniteSet(Names) /\ NoName \notin Names
ASSUME InodesAssumption ==
    /\ OldInodes \subseteq Nat \ {NoInode} /\ Extra \in [OldInodes -> Nat]
    /\ NewInode \in [Names -> Nat \ {NoInode}]
    /\ NewInodes \cap OldInodes = {}
    /\ \A m, n \in Names : m # n => NewInode[m] # NewInode[n]
ASSUME SourcesAssumption ==
    \A s \in Sources : /\ s.ino \in [Names -> Nat \ {NoInode}]
                       /\ s.links \in [Names -> Nat \ {0}]

SourceInodes == {s.ino[n] : s \in Sources, n \in Names}
Keys == Inodes \cup SourceInodes   \* both tables are keyed by inode numbers

VARIABLES
    source,     \* the source tree
    dst,        \* [Names -> Inodes, or NoInode if the destination lacks the name]
    data,       \* the source inodes whose size and mtime an inode has: {} is stale
    pc,         \* what is done next for a name
    reg,        \* the local variables of its registration
    fwd, info,  \* forwardTable, and the HLinkInfo each name may have created
    rev, rinfo, \* revTable, and the HLinkInfoRev each name may have created
    readers, writer,       \* HLinkState.lock
    filesSeen, nFinished,  \* the counters of SharedState
    failed      \* history: a system call on a file has failed

tables == <<fwd, info, rev, rinfo>>
lock == <<readers, writer>>
vars == <<source, dst, data, pc, reg, tables, lock, filesSeen, nFinished, failed>>

SrcIno(n) == source.ino[n]
Exists(n) == reg[n].ino # NoInode
CanWrite == readers = {} /\ writer = NoName

NoReg == [ino |-> NoInode, links |-> 0, orig |-> FALSE, should |-> FALSE, first |-> FALSE,
          pending |-> FALSE, info |-> NoName, rev |-> NoName, newIno |-> NoInode]
NoInfo == [state |-> "none", destInode |-> NoInode, transferred |-> FALSE, nlinkRC |-> 0,
           links |-> {}, lock |-> NoName]
NoRev == [state |-> "none", srcInode |-> NoInode, nlinkRC |-> 0, lock |-> NoName]

\* The destination is what an earlier run, another tool or nobody left there:
\* an inode may pass for the file of any number of sources.
Init ==
    /\ source \in Sources
    /\ dst \in [Names -> OldInodes \cup {NoInode}]
    /\ data \in {d \in [Inodes -> SUBSET {SrcIno(n) : n \in Names}] :
                    \A i \in Inodes : (\A n \in Names : dst[n] # i) => d[i] = {}}
    /\ pc = [n \in Names |-> "stat"]
    /\ reg = [n \in Names |-> NoReg]
    /\ fwd = [i \in Keys |-> NoName] /\ info = [n \in Names |-> NoInfo]
    /\ rev = [i \in Keys |-> NoName] /\ rinfo = [n \in Names |-> NoRev]
    /\ readers = {} /\ writer = NoName
    /\ filesSeen = 0 /\ nFinished = 0
    /\ failed = FALSE

Goto(n, where) == pc' = [pc EXCEPT ![n] = where]
Keep(n, r) == reg' = [reg EXCEPT ![n] = r]

-----------------------------------------------------------------------------
(***************************************************************************)
(* Entries that were freed and are still found.  When the next call of a   *)
(* name is to read or write one, what the code does from there on is       *)
(* undefined, and the behaviours of the model end: no name goes on.  The   *)
(* links of a group, freed when they were made, stay its links: a second   *)
(* transfer goes through them.                                             *)
(***************************************************************************)
InfoFreed(h) == h # NoName /\ info[h].state = "freed"
RevFreed(r) == r # NoName /\ rinfo[r].state = "freed"
LinksFreed(n) == /\ info[reg[n].info].transferred
                 /\ \E m \in Names : SrcIno(m) = SrcIno(n) /\ reg[m].pending

UsesFreed(n) ==
    LET h == fwd[SrcIno(n)]
    IN \/ pc[n] = "lookup" /\ InfoFreed(h)
       \/ pc[n] = "create" /\ h = NoName /\ Exists(n) /\ ~reg[n].orig /\ RevFreed(reg[n].rev)
       \/ pc[n] \in {"link", "transfer", "linking", "dropgroup"} /\ InfoFreed(reg[n].info)
       \/ pc[n] = "dropinfo" /\ h # NoName /\ (InfoFreed(h) \/ InfoFreed(reg[n].info))
       \/ pc[n] = "transfer" /\ LinksFreed(n)
       \/ pc[n] = "dropgroup" /\ InfoFreed(fwd[reg[n].newIno])
       \/ pc[n] \in {"dest", "droprev"} /\ RevFreed(reg[n].rev)

Undefined == \E n \in Names : UsesFreed(n)

At(n, place) == pc[n] = place /\ ~Undefined

-----------------------------------------------------------------------------
(***************************************************************************)
(* processNonDir, up to the registration.                                  *)
(***************************************************************************)
Linked(i) == IF i = NoInode THEN 0
             ELSE Cardinality({n \in Names : dst[n] = i})
                  + (IF i \in OldInodes THEN Extra[i] ELSE 0)

Stat(n) ==
    /\ At(n, "stat")
    /\ LET orig == dst[n] = NoInode \/ SrcIno(n) \notin data[dst[n]]
           registers == source.links[n] > 1 \/ Linked(dst[n]) > 1
       IN /\ Keep(n, [NoReg EXCEPT !.ino = dst[n], !.links = Linked(dst[n]), !.orig = orig,
                                   !.should = orig, !.first = ~registers])
          /\ Goto(n, IF registers THEN "lookup" ELSE "decide")
    /\ filesSeen' = filesSeen + 1
    /\ UNCHANGED <<source, dst, data, tables, lock, nFinished, failed>>

\* statx fails on either side, before the name is counted.
StatFails(n) ==
    /\ At(n, "stat")
    /\ failed' = TRUE
    /\ Goto(n, "done")
    /\ UNCHANGED <<source, dst, data, reg, tables, lock, filesSeen, nFinished>>

(***************************************************************************)
(* hlinkStateRegisterLinkRoot.                                             *)
(***************************************************************************)
\* With the lock held for reading: both tables, and, without the spinlock of the
\* HLinkInfo, the inode its group has on the destination.
WrongInode(n, h) == ~Exists(n) \/ reg[n].ino # info[h].destInode
RevOf(n) == IF Exists(n) THEN rev[reg[n].ino] ELSE NoName

Lookup(n) ==
    /\ At(n, "lookup") /\ writer = NoName
    /\ LET h == fwd[SrcIno(n)]
           r == [reg[n] EXCEPT !.should = reg[n].orig, !.info = h, !.rev = RevOf(n)]
       IN \/ /\ h = NoName
             /\ Keep(n, r) /\ Goto(n, "create") /\ UNCHANGED readers
          \/ /\ h # NoName /\ WrongInode(n, h)
             /\ Keep(n, [r EXCEPT !.should = FALSE]) /\ Goto(n, "link")
             /\ readers' = readers \cup {n}
          \/ /\ h # NoName /\ ~WrongInode(n, h)
             /\ Keep(n, r) /\ Goto(n, "dest")
             /\ readers' = readers \cup {n}
    /\ UNCHANGED <<source, dst, data, tables, writer, filesSeen, nFinished, failed>>

\* No HLinkInfo was found: after the promotion it is looked for again.  The entry
\* of the rev table found under the read lock is used as it is.
FoundBefore(n) == FALSE   \* mutant
Found(n) == fwd[SrcIno(n)] # NoName

Reroll(n) ==
    /\ At(n, "create") /\ CanWrite
    /\ Found(n)
    /\ Goto(n, "lookup")
    /\ UNCHANGED <<source, dst, data, reg, tables, lock, filesSeen, nFinished, failed>>

Mismatch(n) == /\ Exists(n) /\ ~reg[n].orig /\ reg[n].rev # NoName
               /\ rinfo[reg[n].rev].srcInode # SrcIno(n)

NewInfo(n) == [state |-> "live", destInode |-> reg[n].ino, transferred |-> FALSE,
               nlinkRC |-> source.links[n], links |-> {}, lock |-> NoName]

Create(n) ==
    /\ At(n, "create") /\ CanWrite
    /\ ~Found(n)
    /\ writer' = n
    /\ fwd' = [fwd EXCEPT ![SrcIno(n)] = n]
    /\ info' = [info EXCEPT ![n] = NewInfo(n)]
    /\ Keep(n, [reg[n] EXCEPT !.first = TRUE, !.info = n,
                              !.should = reg[n].should \/ Mismatch(n)])
    /\ Goto(n, "dest")
    /\ UNCHANGED <<source, dst, data, rev, rinfo, readers, filesSeen, nFinished, failed>>

\* With the spinlock: link the name to the root, or leave it to the root's transfer.
\* nlinkRC is unsigned: -1 is 2^64 - 1.
Free(h) == info[h].lock = NoName
Known(h) == info[h].state = "live"   \* mutant
Transferred(h) == info[h].transferred

Queue(n) ==
    LET h == reg[n].info
    IN /\ At(n, "link") /\ Free(h) /\ ~Transferred(h)
       /\ info' = [info EXCEPT ![h].links = @ \cup {n}]
       /\ Keep(n, [reg[n] EXCEPT !.pending = TRUE])
       /\ Goto(n, "dest")
       /\ UNCHANGED <<source, dst, data, fwd, rev, rinfo, lock, filesSeen, nFinished,
                      failed>>

Relink(n) ==
    LET h == reg[n].info
    IN /\ At(n, "link") /\ Free(h) /\ Transferred(h)
       /\ \/ dst[h] # NoInode /\ dst' = [dst EXCEPT ![n] = dst[h]] /\ UNCHANGED failed
          \/ failed' = TRUE /\ UNCHANGED dst   \* unlinkat
       /\ info' = [info EXCEPT ![h].nlinkRC = @ - 1]
       /\ IF info[h].nlinkRC = 0
          THEN readers' = readers \ {n} /\ Goto(n, "dropinfo")
          ELSE UNCHANGED readers /\ Goto(n, "dest")
       /\ UNCHANGED <<source, data, reg, fwd, rev, rinfo, writer, filesSeen, nFinished>>

\* linkat fails: the function returns with both locks held.
RelinkFails(n) ==
    LET h == reg[n].info
    IN /\ At(n, "link") /\ Free(h) /\ Transferred(h)
       /\ dst' = [dst EXCEPT ![n] = NoInode]
       /\ info' = [info EXCEPT ![h].lock = n]
       /\ failed' = TRUE
       /\ Goto(n, "decide")
       /\ UNCHANGED <<source, data, reg, fwd, rev, rinfo, lock, filesSeen, nFinished>>

\* The group has been seen more often than its root's nlink said.
DropInfo(n) ==
    LET h == fwd[SrcIno(n)]
    IN /\ At(n, "dropinfo") /\ CanWrite /\ (h = NoName \/ Free(reg[n].info))
       /\ writer' = n
       /\ fwd' = [fwd EXCEPT ![SrcIno(n)] = NoName]
       /\ info' = IF h = NoName THEN info ELSE [info EXCEPT ![h].state = "freed"]
       /\ Goto(n, "dest")
       /\ UNCHANGED <<source, dst, data, reg, rev, rinfo, readers, filesSeen, nFinished,
                      failed>>

-----------------------------------------------------------------------------
(***************************************************************************)
(* The second half of the registration: the destination's inode.  n holds  *)
(* the lock, for writing if it has been promoted.                          *)
(***************************************************************************)
UnlockedWriter(n) ==   \* mutant
    UNCHANGED readers /\ writer' = (IF writer = n THEN NoName ELSE writer)
Unlocked(n) == readers' = readers \ {n} /\ writer' = (IF writer = n THEN NoName ELSE writer)
Unseen(n) == Exists(n) /\ reg[n].rev = NoName /\ reg[n].links > 1
Seen(n) == Exists(n) /\ reg[n].rev # NoName
RevFree(n) == rinfo[reg[n].rev].lock = NoName

LinksLeft(n) == reg[n].links - 1   \* mutant
LinksFound(n) == reg[n].links

NewRev(n) ==
    /\ At(n, "dest") /\ Unseen(n) /\ writer = n
    /\ rinfo' = [rinfo EXCEPT ![n] =
                    [state |-> "live", nlinkRC |-> LinksFound(n), lock |-> NoName,
                     srcInode |-> IF reg[n].should THEN NoInode ELSE SrcIno(n)]]
    /\ rev' = [rev EXCEPT ![reg[n].ino] = n]
    /\ Unlocked(n) /\ Goto(n, "decide")
    /\ UNCHANGED <<source, dst, data, reg, fwd, info, filesSeen, nFinished, failed>>

\* n is a reader: it promotes the lock and looks again, under the source's inode.
Promote(n) ==
    /\ At(n, "dest") /\ Unseen(n) /\ writer # n
    /\ Unlocked(n) /\ Goto(n, "newrev")
    /\ UNCHANGED <<source, dst, data, reg, tables, filesSeen, nFinished, failed>>

LookAgain(n) ==
    /\ At(n, "newrev") /\ CanWrite
    /\ writer' = n
    /\ Keep(n, [reg[n] EXCEPT !.rev = rev[SrcIno(n)]])
    /\ Goto(n, "dest")
    /\ UNCHANGED <<source, dst, data, tables, readers, filesSeen, nFinished, failed>>

Counted(r) == [rinfo[r] EXCEPT !.nlinkRC = @ - 1]

CountRev(n) ==
    LET r == reg[n].rev
    IN /\ At(n, "dest") /\ Seen(n) /\ RevFree(n)
       /\ rinfo' = [rinfo EXCEPT ![r] = Counted(r)]
       /\ rinfo[r].nlinkRC # 1
       /\ Unlocked(n) /\ Goto(n, "decide")
       /\ UNCHANGED <<source, dst, data, reg, fwd, info, rev, filesSeen, nFinished, failed>>

\* The count is down to zero: the entry goes, under a lock promoted if need be.
LastRev(n) ==
    LET r == reg[n].rev
    IN /\ At(n, "dest") /\ Seen(n) /\ RevFree(n) /\ rinfo[r].nlinkRC = 1
       /\ rinfo' = [rinfo EXCEPT ![r] = Counted(r)]
       /\ IF writer = n THEN UNCHANGED lock ELSE Unlocked(n)
       /\ Goto(n, "droprev")
       /\ UNCHANGED <<source, dst, data, reg, fwd, info, rev, filesSeen, nFinished, failed>>

\* The entry that goes is the one of the name's own inode, if there is one now; the
\* spinlock of the entry that was counted is kept if that is another.
DropRev(n) ==
    LET r == rev[reg[n].ino]
    IN /\ At(n, "droprev") /\ (writer = n \/ CanWrite) /\ RevFree(n)
       /\ rev' = [rev EXCEPT ![reg[n].ino] = NoName]
       /\ rinfo' = [m \in Names |->
                       IF m = r THEN [rinfo[m] EXCEPT !.state = "freed"]
                       ELSE IF m = reg[n].rev THEN [rinfo[m] EXCEPT !.lock = n] ELSE rinfo[m]]
       /\ writer' = NoName
       /\ Goto(n, "decide")
       /\ UNCHANGED <<source, dst, data, reg, fwd, info, readers, filesSeen, nFinished,
                      failed>>

\* Nothing to note of the destination.
EndRegister(n) ==
    /\ At(n, "dest") /\ ~Unseen(n) /\ ~Seen(n)
    /\ Unlocked(n) /\ Goto(n, "decide")
    /\ UNCHANGED <<source, dst, data, reg, tables, filesSeen, nFinished, failed>>

-----------------------------------------------------------------------------
(***************************************************************************)
(* processNonDir, after the registration, and the transfer threads.        *)
(***************************************************************************)
Decided(n) == At(n, "decide")
Forget(n) == Keep(n, [NoReg EXCEPT !.should = reg[n].should, !.first = reg[n].first,
                                   !.pending = reg[n].pending])

HasJobUnlessPending(n) == reg[n].should \/ ~reg[n].pending   \* mutant
HasJob(n) == reg[n].should \/ (~reg[n].pending /\ reg[n].first)

\* The file is copied, or only looked at by a finish processor.
SendJob(n) ==
    /\ Decided(n) /\ HasJob(n)
    /\ Forget(n) /\ Goto(n, "job")
    /\ UNCHANGED <<source, dst, data, tables, lock, filesSeen, nFinished, failed>>

\* An openat or the ftruncate fails.
GiveUp(n) ==
    /\ Decided(n) /\ reg[n].should
    /\ failed' = TRUE
    /\ Forget(n) /\ Goto(n, "done")
    /\ UNCHANGED <<source, dst, data, tables, lock, filesSeen, nFinished>>

WaitsNot(n) == FALSE   \* mutant
Waits(n) == reg[n].pending

\* The name is linked already, or its group's root will see to it.
NoJob(n) ==
    /\ Decided(n) /\ ~HasJob(n)
    /\ nFinished' = IF Waits(n) THEN nFinished ELSE nFinished + 1
    /\ Forget(n) /\ Goto(n, "done")
    /\ UNCHANGED <<source, dst, data, tables, lock, filesSeen, failed>>

-----------------------------------------------------------------------------
(***************************************************************************)
(* finishProcessorOne.  A file that was copied replaces the name; destStx  *)
(* is that of the file that is put there.                                  *)
(***************************************************************************)
Final(n) == IF reg[n].should THEN NewInode[n] ELSE dst[n]

Finish(n) ==
    /\ At(n, "job")
    /\ dst' = [dst EXCEPT ![n] = Final(n)]
    /\ data' = IF reg[n].should THEN [data EXCEPT ![NewInode[n]] = {SrcIno(n)}] ELSE data
    /\ IF source.links[n] > 1
       THEN /\ Keep(n, [reg[n] EXCEPT !.newIno = Final(n)]) /\ Goto(n, "handle")
            /\ UNCHANGED nFinished
       ELSE /\ UNCHANGED reg /\ Goto(n, "done")
            /\ nFinished' = nFinished + 1
    /\ UNCHANGED <<source, tables, lock, filesSeen, failed>>

\* Before the name is removed, between that and the rename, or after the rename.
FinishFails(n) ==
    /\ At(n, "job")
    /\ \/ UNCHANGED <<dst, data>>
       \/ reg[n].should /\ dst' = [dst EXCEPT ![n] = NoInode] /\ UNCHANGED data
       \/ /\ reg[n].should /\ dst' = [dst EXCEPT ![n] = NewInode[n]]
          /\ data' = [data EXCEPT ![NewInode[n]] = {SrcIno(n)}]
    /\ failed' = TRUE
    /\ nFinished' = nFinished + 1
    /\ Goto(n, "done")
    /\ UNCHANGED <<source, reg, tables, lock, filesSeen>>

(***************************************************************************)
(* hlinkStateHandleTransfer.                                               *)
(***************************************************************************)
GroupByDest(n) == fwd[reg[n].newIno]   \* mutant
GroupOf(n) == fwd[SrcIno(n)]

Handle(n) ==
    LET h == GroupOf(n)
    IN /\ At(n, "handle") /\ writer = NoName
       /\ IF h = NoName
          THEN /\ nFinished' = nFinished + 1
               /\ Goto(n, "done") /\ UNCHANGED <<reg, readers>>
          ELSE /\ readers' = readers \cup {n}
               /\ Keep(n, [reg[n] EXCEPT !.info = h])
               /\ Goto(n, "transfer") /\ UNCHANGED nFinished
       /\ UNCHANGED <<source, dst, data, tables, writer, filesSeen, failed>>

Transfer(n) ==
    LET h == reg[n].info
    IN /\ At(n, "transfer") /\ Free(h)
       /\ info' = [info EXCEPT ![h].lock = n, ![h].transferred = TRUE,
                               ![h].destInode = reg[n].newIno]
       /\ Goto(n, "linking")
       /\ UNCHANGED <<source, dst, data, reg, fwd, rev, rinfo, lock, filesSeen, nFinished, failed>>

LinkPending(n) ==
    LET h == reg[n].info
    IN /\ At(n, "linking")
       /\ \E m \in info[h].links :
            /\ \/ dst' = [dst EXCEPT ![m] = dst[n]] /\ UNCHANGED failed
               \/ dst' = [dst EXCEPT ![m] = NoInode] /\ failed' = TRUE   \* linkat
               \/ UNCHANGED dst /\ failed' = TRUE                        \* unlinkat
            /\ info' = [info EXCEPT ![h].links = @ \ {m}]
       /\ nFinished' = nFinished + 1
       /\ UNCHANGED <<source, data, pc, reg, fwd, rev, rinfo, lock, filesSeen>>

AllButLastLinked(h) == Cardinality(info[h].links) <= 1   \* mutant
AllLinked(h) == info[h].links = {}

\* nlinkRC counts the root's transfer and the names linked after it, not those that
\* were pending.
EndTransfer(n) ==
    LET h == reg[n].info
    IN /\ At(n, "linking") /\ AllLinked(h)
       /\ info' = [info EXCEPT ![h].lock = NoName, ![h].nlinkRC = @ - 1]
       /\ readers' = readers \ {n}
       /\ IF info[h].nlinkRC = 1
          THEN Goto(n, "dropgroup") /\ UNCHANGED nFinished
          ELSE Goto(n, "done") /\ nFinished' = nFinished + 1
       /\ UNCHANGED <<source, dst, data, reg, fwd, rev, rinfo, writer, filesSeen, failed>>

\* The group is looked for under the destination's inode.  As a rule nothing is there,
\* and it stays in the table; its spinlock, free since EndTransfer, is released again.
DropGroup(n) ==
    /\ At(n, "dropgroup") /\ CanWrite
    /\ fwd[reg[n].newIno] = NoName
    /\ nFinished' = nFinished + 1
    /\ Goto(n, "done")
    /\ UNCHANGED <<source, dst, data, reg, tables, lock, filesSeen, failed>>

\* If another group is there, that one's entry is freed, and the table still leads to
\* it: the pair that goes is the one of the source's inode in the other table.  The
\* spinlock of the name's own group is taken and never released.
DropForeign(n) ==
    LET h == fwd[reg[n].newIno]
    IN /\ At(n, "dropgroup") /\ CanWrite /\ Free(reg[n].info)
       /\ h # NoName
       /\ info' = [info EXCEPT ![reg[n].info].lock = n, ![h].state = "freed"]
       /\ rev' = [rev EXCEPT ![SrcIno(n)] = NoName]
       /\ nFinished' = nFinished + 1
       /\ Goto(n, "done")
       /\ UNCHANGED <<source, dst, data, reg, fwd, rinfo, lock, filesSeen, failed>>

-----------------------------------------------------------------------------
Register(n) ==
    \/ Lookup(n) \/ Reroll(n) \/ Create(n)
    \/ Queue(n) \/ Relink(n) \/ RelinkFails(n) \/ DropInfo(n)
    \/ NewRev(n) \/ Promote(n) \/ LookAgain(n) \/ CountRev(n) \/ LastRev(n) \/ DropRev(n)
    \/ EndRegister(n)

HandleTransfer(n) ==
    \/ Handle(n) \/ Transfer(n) \/ LinkPending(n) \/ EndTransfer(n)
    \/ DropGroup(n) \/ DropForeign(n)

AllDone == \A n \in Names : pc[n] = "done"

\* A name whose linkat failed never releases the locks, and DropRev and DropForeign may
\* keep a spinlock: those that wait for them wait for ever.
LockLost == \/ \E n \in readers : pc[n] \notin {"link", "dest", "transfer", "linking"}
            \/ \E n \in Names : rinfo[n].lock # NoName
            \/ \E n \in Names : info[n].lock # NoName /\ pc[info[n].lock] # "linking"

Stopped == (AllDone \/ LockLost \/ Undefined) /\ UNCHANGED vars

Next ==
    \/ \E n \in Names :
         \/ Stat(n) \/ StatFails(n) \/ Register(n) \/ SendJob(n) \/ GiveUp(n) \/ NoJob(n)
         \/ Finish(n) \/ FinishFails(n) \/ HandleTransfer(n)
    \/ Stopped

Spec == Init /\ [][Next]_vars

-----------------------------------------------------------------------------
(***************************************************************************)
(* Invariants.  They say nothing of what a run does once it has used an    *)
(* entry that was freed; NothingFreedUsed says when it does not.           *)
(***************************************************************************)
\* Every variable keeps the type the code gives it.  The counts of the entries are
\* unsigned and may wrap: EntriesKept says when that of an HLinkInfoRev does not.
TypeOK ==
    /\ source \in Sources
    /\ dst \in [Names -> Inodes \cup {NoInode}] /\ data \in [Inodes -> SUBSET SourceInodes]
    /\ pc \in [Names -> {"stat", "lookup", "create", "link", "dropinfo", "dest", "newrev",
                         "droprev", "decide", "job", "handle", "transfer", "linking",
                         "dropgroup", "done"}]
    /\ reg \in [Names -> [ino : Inodes \cup {NoInode}, links : Nat, orig : BOOLEAN,
                          should : BOOLEAN, first : BOOLEAN, pending : BOOLEAN,
                          info : Names \cup {NoName}, rev : Names \cup {NoName},
                          newIno : Inodes \cup {NoInode}]]
    /\ fwd \in [Keys -> Names \cup {NoName}] /\ rev \in [Keys -> Names \cup {NoName}]
    /\ info \in [Names -> [state : {"none", "live", "freed"}, destInode : Inodes \cup {NoInode},
                           transferred : BOOLEAN, nlinkRC : Int, links : SUBSET Names,
                           lock : Names \cup {NoName}]]
    /\ rinfo \in [Names -> [state : {"none", "live", "freed"},
                            srcInode : SourceInodes \cup {NoInode}, nlinkRC : Int,
                            lock : Names \cup {NoName}]]
    /\ readers \subseteq Names /\ writer \in Names \cup {NoName}
    /\ filesSeen \in Nat /\ nFinished \in Nat
    /\ failed \in BOOLEAN

\* A group has one root: the second look after the promotion keeps two names that
\* both found no HLinkInfo from creating one each, and being copied each.
OneRoot ==
    \A m, n \in Names :
        info[m].state = "live" /\ info[n].state = "live" /\ SrcIno(m) = SrcIno(n) => m = n

\* Nobody waits for a transfer that is over: a name is queued only before the root
\* is transferred, and the handler links all that are queued.
PendingServed ==
    \A h \in Names :
        info[h].transferred /\ info[h].lock = NoName => info[h].links = {}

\* What a name holds is what its source holds.
Holds(n) == dst[n] # NoInode /\ SrcIno(n) \in data[dst[n]]

\* The names of a group were all there when the crawler looked at the first.
Unchanged == \A n \in Names : Cardinality({m \in Names : SrcIno(m) = SrcIno(n)}) <= source.links[n]

Succeeded == AllDone /\ ~failed /\ Unchanged

\* Two names of a group are to be copied: the second was linked to the file that the
\* root's copy replaces, and passed for one that is linked to the root already.
CopiedTwice(i) ==
    \E n \in Names : /\ SrcIno(n) = i /\ reg[n].should /\ ~reg[n].first
                     /\ pc[n] \notin {"stat", "lookup", "create"}

\* With no failures every name of a group that is copied once holds its source's
\* contents in the end, whoever copied or linked it.
NamesCopied == Succeeded => \A n \in Names : Holds(n) \/ CopiedTwice(SrcIno(n))

\* Every name is counted once, by its crawler, its finish processor or its root's.
CountedOnce ==
    /\ nFinished <= filesSeen
    /\ Succeeded => nFinished = filesSeen

\* No number is an inode of both sides: the look under the wrong key finds nothing.
Apart == \A n \in Names : SrcIno(n) \notin Inodes

\* No entry is freed under a name that has looked it up.  An HLinkInfo goes under the
\* lock of a writer, when no reader has it in hand.  What was read of the rev table
\* is used even after a promotion; but an HLinkInfoRev starts at the links of its
\* inode, its creator's among them, who does not count it down: it never gets to zero
\* while others may still count it, nor after.
EntriesKept ==
    Apart => \A n \in Names :
        /\ pc[n] \in {"link", "transfer", "linking"} => info[reg[n].info].state = "live"
        /\ rinfo[n].state # "freed"
        /\ rinfo[n].state = "live" => rinfo[n].nlinkRC > 0

\* Nothing that was freed is used, if moreover no group is copied twice and none gets
\* links while it is: the counts of the entries are those of their users.
NothingFreedUsed ==
    Apart /\ Unchanged /\ (\A n \in Names : ~CopiedTwice(SrcIno(n))) => ~Undefined

\* In the end all locks are released.
LocksReleased ==
    AllDone /\ ~failed /\ Apart => /\ CanWrite
                          /\ \A n \in Names : info[n].lock = NoName /\ rinfo[n].lock = NoName

\* What tests/verify.py asks of the destination: the names of a source file are links
\* to one file, and those of two are not.
LinksPreserved ==
    AllDone /\ ~failed =>
        \A m, n \in Names : SrcIno(m) = SrcIno(n) <=> dst[m] = dst[n]

\* What tests/verify.py asks of the destination: every name has its source's contents.
ContentsCopied == Succeeded => \A n \in Names : Holds(n)

\* A name that holds its source's contents holds them after every step, unless a
\* system call has failed or its group is copied twice: what it is linked to is the
\* root as transferred, never the file the root is about to replace.
NeverSpoiled ==
    [][\A n \in Names : Holds(n) /\ ~failed' /\ ~CopiedTwice(SrcIno(n)) => Holds(n)']_vars
=============================================================================
