-------------------------- MODULE HLinkStateProofs --------------------------
(***************************************************************************)
(* A group of hard links has one root; no name waits for a transfer that   *)
(* is over; entries are not freed under those that use them, locks are     *)
(* released, every name is counted once, and gets the contents of its      *)
(* source and keeps them: for any number of names and inodes, up to the    *)
(* first use of an entry that was freed, where the behaviours of           *)
(* HLinkState end, and which does not come in groups that are copied once. *)
(***************************************************************************)
EXTENDS HLinkState, FiniteSetTheorems, TLAPS

IsInfo(x) ==
    x = [state |-> x.state, destInode |-> x.destInode, transferred |-> x.transferred,
         nlinkRC |-> x.nlinkRC, links |-> x.links, lock |-> x.lock]

\* The forward table and the infos are maps.
Shape == /\ source \in Sources
         /\ fwd \in [Keys -> Names \cup {NoName}]
         /\ info = [n \in Names |-> info[n]]
         /\ \A n \in Names : IsInfo(info[n])

\* An HLinkInfo that has not been freed is in the forward table, under its inode.
InTable == \A n \in Names : info[n].state = "live" => fwd[SrcIno(n)] = n

IInv == Shape /\ InTable /\ PendingServed

\* What setting one field of an HLinkInfo leaves.
LEMMA Set_state ==
    ASSUME NEW x, IsInfo(x), NEW v, NEW y, y = [x EXCEPT !.state = v]
    PROVE  /\ IsInfo(y) /\ y.state = v
           /\ y.destInode = x.destInode /\ y.transferred = x.transferred
           /\ y.nlinkRC = x.nlinkRC /\ y.links = x.links /\ y.lock = x.lock
  BY DEF IsInfo

LEMMA Set_destInode ==
    ASSUME NEW x, IsInfo(x), NEW v, NEW y, y = [x EXCEPT !.destInode = v]
    PROVE  /\ IsInfo(y) /\ y.destInode = v
           /\ y.state = x.state /\ y.transferred = x.transferred
           /\ y.nlinkRC = x.nlinkRC /\ y.links = x.links /\ y.lock = x.lock
  BY DEF IsInfo

LEMMA Set_transferred ==
    ASSUME NEW x, IsInfo(x), NEW v, NEW y, y = [x EXCEPT !.transferred = v]
    PROVE  /\ IsInfo(y) /\ y.transferred = v
           /\ y.state = x.state /\ y.destInode = x.destInode
           /\ y.nlinkRC = x.nlinkRC /\ y.links = x.links /\ y.lock = x.lock
  BY DEF IsInfo

LEMMA Set_nlinkRC ==
    ASSUME NEW x, IsInfo(x), NEW v, NEW y, y = [x EXCEPT !.nlinkRC = v]
    PROVE  /\ IsInfo(y) /\ y.nlinkRC = v
           /\ y.state = x.state /\ y.destInode = x.destInode /\ y.transferred = x.transferred
           /\ y.links = x.links /\ y.lock = x.lock
  BY DEF IsInfo

LEMMA Set_lock ==
    ASSUME NEW x, IsInfo(x), NEW v, NEW y, y = [x EXCEPT !.lock = v]
    PROVE  /\ IsInfo(y) /\ y.lock = v
           /\ y.state = x.state /\ y.destInode = x.destInode /\ y.transferred = x.transferred
           /\ y.nlinkRC = x.nlinkRC /\ y.links = x.links
  BY DEF IsInfo

-----------------------------------------------------------------------------
LEMMA InitInv == Init => IInv
<1> SUFFICES ASSUME Init PROVE IInv
  OBVIOUS
<1>1. info = [n \in Names |-> NoInfo] /\ source \in Sources /\ fwd = [i \in Keys |-> NoName]
  BY DEF Init
<1>2. \A n \in Names : info[n] = NoInfo
  BY <1>1
<1>3. Shape
  BY <1>1, <1>2 DEF Shape, IsInfo, NoInfo
<1>4. InTable
  BY <1>2 DEF InTable, NoInfo
<1>5. PendingServed
  BY <1>2 DEF PendingServed, NoInfo
<1> QED
  BY <1>3, <1>4, <1>5 DEF IInv

\* A source inode is a key of the forward table.
LEMMA SourceKey == ASSUME source \in Sources, NEW n \in Names PROVE SrcIno(n) \in Keys
<1>1. SrcIno(n) \in SourceInodes
  BY DEF SourceInodes, SrcIno
<1> QED
  BY <1>1 DEF Keys

LEMMA Kept ==
    ASSUME IInv, UNCHANGED <<source, fwd, info>>
    PROVE  IInv'
  BY DEF IInv, Shape, IsInfo, InTable, PendingServed, SrcIno

\* A step that changes one HLinkInfo, neither creates nor frees it, and leaves no
\* waiting names when it is free and transferred.
LEMMA OneInfo ==
    ASSUME IInv, UNCHANGED <<source, fwd>>,
           NEW h, NEW x, info' = [info EXCEPT ![h] = x],
           h \in Names => IsInfo(x) /\ x.state = info[h].state,
           h \in Names => (x.transferred /\ x.lock = NoName => x.links = {})
    PROVE  IInv'
<1>1. info = [n \in Names |-> info[n]]
  BY DEF IInv, Shape
<1>2. \A n \in Names : info'[n] = IF n = h THEN x ELSE info[n]
  BY <1>1
<1>3. info' = [n \in Names |-> info'[n]]
  BY <1>1
<1>4. Shape'
  <2>1. \A n \in Names : IsInfo(info[n])
    BY DEF IInv, Shape
  <2>2. \A n \in Names : IsInfo(info'[n])
    BY <1>2, <2>1
  <2> QED
    BY <1>3, <2>2 DEF IInv, Shape, IsInfo
<1>5. InTable'
  BY <1>2 DEF IInv, InTable, SrcIno
<1>6. PendingServed'
  BY <1>2 DEF IInv, PendingServed
<1> QED
  BY <1>4, <1>5, <1>6 DEF IInv

-----------------------------------------------------------------------------
(***************************************************************************)
(* The steps that change an HLinkInfo.                                     *)
(***************************************************************************)
\* Nobody has the group's source inode when its root is made: the second look.
LEMMA CreateInv == ASSUME IInv, NEW n \in Names, Create(n) PROVE IInv'
<1> DEFINE x == NewInfo(n)
           k == SrcIno(n)
<1>1. /\ fwd[k] = NoName
      /\ fwd' = [fwd EXCEPT ![k] = n]
      /\ info' = [info EXCEPT ![n] = x]
      /\ source' = source
  <2>1. fwd[SrcIno(n)] = NoName
    BY Zenon DEF Create, Found, At
  <2>2. fwd' = [fwd EXCEPT ![SrcIno(n)] = n]
    BY Zenon DEF Create, At
  <2>3. info' = [info EXCEPT ![n] = NewInfo(n)]
    BY Zenon DEF Create, At
  <2>4. source' = source
    BY Zenon DEF Create, At
  <2> QED
    BY <2>1, <2>2, <2>3, <2>4
<1>2. k \in Keys
  BY SourceKey, Zenon DEF IInv, Shape
<1>3. IsInfo(x) /\ x.transferred = FALSE
  BY DEF IsInfo, NewInfo
<1>4. /\ info = [m \in Names |-> info[m]] /\ fwd \in [Keys -> Names \cup {NoName}]
      /\ source \in Sources /\ \A m \in Names : IsInfo(info[m])
  BY DEF IInv, Shape
<1> HIDE DEF x
<1>5. \A m \in Names : info'[m] = IF m = n THEN x ELSE info[m]
  BY <1>1, <1>4
<1>6. Shape'
  <2>1. fwd' \in [Keys -> Names \cup {NoName}]
    BY <1>1, <1>4
  <2>2. info' = [m \in Names |-> info'[m]]
    BY <1>1, <1>4
  <2>3. \A m \in Names : IsInfo(info'[m])
    BY <1>3, <1>4, <1>5
  <2> QED
    BY <1>1, <1>4, <2>1, <2>2, <2>3 DEF Shape, IsInfo
<1>7. InTable'
  <2> SUFFICES ASSUME NEW m \in Names, info'[m].state = "live"
               PROVE  fwd'[source.ino[m]] = m
    BY <1>1 DEF InTable, SrcIno
  <2>1. CASE m = n
    BY <2>1, <1>1, <1>2, <1>4 DEF SrcIno
  <2>2. CASE m # n
    <3>1. info[m].state = "live"
      BY <2>2, <1>5
    <3>2. fwd[SrcIno(m)] = m
      BY <3>1 DEF IInv, InTable
    <3>3. SrcIno(m) # k
      BY <3>2, <1>1, NamesAssumption
    <3> QED
      BY <3>2, <3>3, <1>1, <1>2, <1>4 DEF SrcIno
  <2> QED
    BY <2>1, <2>2
<1>8. PendingServed'
  BY <1>3, <1>5 DEF IInv, PendingServed
<1> QED
  BY <1>6, <1>7, <1>8 DEF IInv

\* A name is queued only while the root is not transferred.
LEMMA QueueInv == ASSUME IInv, NEW n \in Names, Queue(n) PROVE IInv'
<1> DEFINE h == reg[n].info
           x == [info[h] EXCEPT !.links = @ \cup {n}]
<1>1. info' = [info EXCEPT ![h] = x] /\ UNCHANGED <<source, fwd>>
  BY Zenon DEF Queue, At
<1>2. ~info[h].transferred
  BY Zenon DEF Queue, Transferred, At
<1>3. ASSUME h \in Names
      PROVE  /\ IsInfo(x) /\ x.state = info[h].state
             /\ x.transferred = info[h].transferred
  <2>1. IsInfo(info[h])
    BY <1>3 DEF IInv, Shape
  <2> QED
    BY <2>1 DEF IsInfo
<1>4. h \in Names => (x.transferred /\ x.lock = NoName => x.links = {})
  BY <1>2, <1>3
<1> QED
  BY <1>1, <1>3, <1>4, OneInfo

LEMMA RelinkInv == ASSUME IInv, NEW n \in Names, Relink(n) PROVE IInv'
<1> DEFINE h == reg[n].info
           x == [info[h] EXCEPT !.nlinkRC = @ - 1]
<1>1. info' = [info EXCEPT ![h] = x] /\ UNCHANGED <<source, fwd>>
  BY Zenon DEF Relink, At
<1>3. ASSUME h \in Names
      PROVE  /\ IsInfo(x) /\ x.state = info[h].state
             /\ x.transferred = info[h].transferred
             /\ x.lock = info[h].lock /\ x.links = info[h].links
  <2>1. IsInfo(info[h])
    BY <1>3 DEF IInv, Shape
  <2> QED
    BY <2>1 DEF IsInfo
<1>4. h \in Names => (x.transferred /\ x.lock = NoName => x.links = {})
  BY <1>3 DEF IInv, PendingServed
<1> QED
  BY <1>1, <1>3, <1>4, OneInfo

LEMMA RelinkFailsInv == ASSUME IInv, NEW n \in Names, RelinkFails(n) PROVE IInv'
<1> DEFINE h == reg[n].info
           x == [info[h] EXCEPT !.lock = n]
<1>1. info' = [info EXCEPT ![h] = x] /\ UNCHANGED <<source, fwd>>
  BY Zenon DEF RelinkFails, At
<1>3. ASSUME h \in Names
      PROVE  /\ IsInfo(x) /\ x.state = info[h].state
             /\ x.lock = n
  <2>1. IsInfo(info[h])
    BY <1>3 DEF IInv, Shape
  <2> QED
    BY <2>1 DEF IsInfo
<1>4. h \in Names => (x.transferred /\ x.lock = NoName => x.links = {})
  BY <1>3, NamesAssumption
<1> QED
  BY <1>1, <1>3, <1>4, OneInfo

\* The handler ends when no link is left.
LEMMA EndTransferInv == ASSUME IInv, NEW n \in Names, EndTransfer(n) PROVE IInv'
<1> DEFINE h == reg[n].info
           x == [info[h] EXCEPT !.lock = NoName, !.nlinkRC = @ - 1]
<1>1. info' = [info EXCEPT ![h] = x] /\ UNCHANGED <<source, fwd>>
  BY Zenon DEF EndTransfer, At
<1>2. info[h].links = {}
  BY Zenon DEF EndTransfer, AllLinked, At
<1>3. ASSUME h \in Names
      PROVE  /\ IsInfo(x) /\ x.state = info[h].state
             /\ x.links = info[h].links
  <2>1. IsInfo(info[h])
    BY <1>3 DEF IInv, Shape
  <2> DEFINE y == [info[h] EXCEPT !.lock = NoName]
  <2>2. IsInfo(y) /\ y.state = info[h].state /\ y.links = info[h].links
    BY <2>1, Set_lock
  <2>3. x = [y EXCEPT !.nlinkRC = info[h].nlinkRC - 1]
    OBVIOUS
  <2> HIDE DEF x, y
  <2> QED
    BY <2>2, <2>3, Set_nlinkRC
<1>4. h \in Names => (x.transferred /\ x.lock = NoName => x.links = {})
  BY <1>2, <1>3
<1> QED
  BY <1>1, <1>3, <1>4, OneInfo

LEMMA LinkPendingInv == ASSUME IInv, NEW n \in Names, LinkPending(n) PROVE IInv'
<1> DEFINE h == reg[n].info
<1>0. PICK m \in info[h].links : info' = [info EXCEPT ![h].links = @ \ {m}]
  BY Zenon DEF LinkPending, At
<1> DEFINE x == [info[h] EXCEPT !.links = @ \ {m}]
<1>1. info' = [info EXCEPT ![h] = x] /\ UNCHANGED <<source, fwd>>
  BY <1>0, Zenon DEF LinkPending, At
<1>3. ASSUME h \in Names
      PROVE  /\ IsInfo(x) /\ x.state = info[h].state
             /\ x.transferred = info[h].transferred /\ x.lock = info[h].lock
             /\ x.links = info[h].links \ {m}
  <2>1. IsInfo(info[h])
    BY <1>3 DEF IInv, Shape
  <2> QED
    BY <2>1 DEF IsInfo
<1>4. h \in Names => (x.transferred /\ x.lock = NoName => x.links = {})
  BY <1>3 DEF IInv, PendingServed
<1> QED
  BY <1>1, <1>3, <1>4, OneInfo

LEMMA TransferInv == ASSUME IInv, NEW n \in Names, Transfer(n) PROVE IInv'
<1> DEFINE h == reg[n].info
           x == [info[h] EXCEPT !.lock = n, !.transferred = TRUE, !.destInode = reg[n].newIno]
<1>1. info' = [info EXCEPT ![h] = x] /\ UNCHANGED <<source, fwd>>
  BY Zenon DEF Transfer, At
<1>2. ASSUME h \in Names
      PROVE  IsInfo(x) /\ x.state = info[h].state /\ x.lock = n
  <2>1. IsInfo(info[h])
    BY <1>2 DEF IInv, Shape
  <2> DEFINE y == [info[h] EXCEPT !.lock = n]
             z == [y EXCEPT !.transferred = TRUE]
  <2>2. x = [z EXCEPT !.destInode = reg[n].newIno]
    OBVIOUS
  <2>3. IsInfo(y) /\ y.state = info[h].state /\ y.lock = n
    BY <2>1, Set_lock
  <2>4. z = [y EXCEPT !.transferred = TRUE]
    OBVIOUS
  <2> HIDE DEF x, y, z
  <2>5. IsInfo(z) /\ z.state = info[h].state /\ z.lock = n
    BY <2>3, <2>4, Set_transferred
  <2> QED
    BY <2>5, <2>2, Set_destInode
<1>3. h \in Names => (x.transferred /\ x.lock = NoName => x.links = {})
  BY <1>2, NamesAssumption
<1> QED
  BY <1>1, <1>2, <1>3, OneInfo

-----------------------------------------------------------------------------
(***************************************************************************)
(* The steps that free an HLinkInfo.                                       *)
(***************************************************************************)
LEMMA Freed ==
    ASSUME IInv, NEW h, UNCHANGED source,
           info' = IF h = NoName THEN info ELSE [info EXCEPT ![h].state = "freed"],
           fwd' \in [Keys -> Names \cup {NoName}],
           \A m \in Names : m # h /\ fwd[SrcIno(m)] = m => fwd'[SrcIno(m)] = m
    PROVE  IInv'
<1>1. /\ info = [m \in Names |-> info[m]] /\ source \in Sources
      /\ \A m \in Names : IsInfo(info[m])
  BY DEF IInv, Shape
<1>2. /\ info' = [m \in Names |-> info'[m]]
      /\ \A m \in Names : info'[m] = IF m = h THEN [info[m] EXCEPT !.state = "freed"]
                                     ELSE info[m]
  <2>1. CASE h = NoName
    BY <2>1, <1>1, NamesAssumption
  <2>2. CASE h # NoName
    <3>1. info' = [info EXCEPT ![h].state = "freed"]
      BY <2>2, <1>1
    <3>2. info' = [m \in Names |-> info'[m]]
      BY <3>1, <1>1
    <3>3. ASSUME NEW m \in Names
          PROVE  info'[m] = IF m = h THEN [info[m] EXCEPT !.state = "freed"] ELSE info[m]
      BY <3>1, <1>1
    <3> QED
      BY <3>2, <3>3
  <2> QED
    BY <2>1, <2>2
<1>3. \A m \in Names : /\ IsInfo(info'[m])
                      /\ info'[m].transferred = info[m].transferred
                      /\ info'[m].lock = info[m].lock /\ info'[m].links = info[m].links
                      /\ info'[m].state = IF m = h THEN "freed" ELSE info[m].state
  <2> TAKE m \in Names
  <2>1. CASE m = h
    <3>1. IsInfo(info[m]) /\ info'[m] = [info[m] EXCEPT !.state = "freed"]
      BY <2>1, <1>1, <1>2
    <3> DEFINE x == info[m]
               y == info'[m]
    <3> HIDE DEF x, y
    <3>2. y = [x EXCEPT !.state = "freed"] /\ IsInfo(x)
      BY <3>1 DEF x, y
    <3>3. /\ IsInfo(y) /\ y.state = "freed" /\ y.transferred = x.transferred
          /\ y.lock = x.lock /\ y.links = x.links
      BY <3>2, Set_state
    <3> QED
      BY <2>1, <3>3 DEF x, y
  <2>2. CASE m # h
    BY <2>2, <1>1, <1>2
  <2> QED
    BY <2>1, <2>2
<1>4. Shape'
  BY <1>1, <1>2, <1>3 DEF Shape, IsInfo
<1>5. InTable'
  <2> SUFFICES ASSUME NEW m \in Names, info'[m].state = "live" PROVE fwd'[SrcIno(m)] = m
    BY DEF InTable, SrcIno
  <2>1. m # h /\ info[m].state = "live"
    BY <1>3
  <2> QED
    BY <2>1 DEF IInv, InTable
<1>6. PendingServed'
  BY <1>3 DEF IInv, PendingServed
<1> QED
  BY <1>4, <1>5, <1>6 DEF IInv

LEMMA DropInfoInv == ASSUME IInv, NEW n \in Names, DropInfo(n) PROVE IInv'
<1> DEFINE k == SrcIno(n)
           h == fwd[k]
<1>1. /\ UNCHANGED source /\ fwd' = [fwd EXCEPT ![k] = NoName]
      /\ info' = IF h = NoName THEN info ELSE [info EXCEPT ![h].state = "freed"]
  BY Zenon DEF DropInfo, At
<1>2. fwd \in [Keys -> Names \cup {NoName}] /\ source \in Sources
  BY DEF IInv, Shape
<1>3. fwd' \in [Keys -> Names \cup {NoName}]
  BY <1>1, <1>2
<1>4. \A m \in Names : m # h /\ fwd[SrcIno(m)] = m => fwd'[SrcIno(m)] = m
  BY <1>1, <1>2, SourceKey
<1> QED
  BY <1>1, <1>3, <1>4, Freed

\* What DropForeign does to the entries: one is locked, one freed, maybe the same.
LockedAndFreed(n, g, h) ==
    /\ info' = [m \in Names |-> info'[m]]
    /\ \A m \in Names :
          /\ IsInfo(info'[m])
          /\ info'[m].destInode = info[m].destInode
          /\ info'[m].transferred = info[m].transferred
          /\ info'[m].nlinkRC = info[m].nlinkRC /\ info'[m].links = info[m].links
          /\ info'[m].state = IF m = h THEN "freed" ELSE info[m].state
          /\ info'[m].lock = IF m = g THEN n ELSE info[m].lock

LEMMA LockedFreed ==
    ASSUME info = [m \in Names |-> info[m]], \A m \in Names : IsInfo(info[m]),
           NEW n, NEW g, NEW h,
           info' = [info EXCEPT ![g].lock = n, ![h].state = "freed"]
    PROVE  LockedAndFreed(n, g, h)
<1> DEFINE f == [info EXCEPT ![g] = [info[g] EXCEPT !.lock = n]]
<1>1. info' = [f EXCEPT ![h] = [f[h] EXCEPT !.state = "freed"]]
  OBVIOUS
<1>2. \A m \in Names : f[m] = IF m = g THEN [info[m] EXCEPT !.lock = n] ELSE info[m]
  OBVIOUS
<1>3. f = [m \in Names |-> f[m]]
  OBVIOUS
<1> HIDE DEF f
<1>4. \A m \in Names : info'[m] = IF m = h THEN [f[m] EXCEPT !.state = "freed"] ELSE f[m]
  BY <1>1, <1>3
<1>5. info' = [m \in Names |-> info'[m]]
  BY <1>1, <1>3
<1>6. ASSUME NEW m \in Names
      PROVE  /\ IsInfo(f[m]) /\ f[m].destInode = info[m].destInode
             /\ f[m].transferred = info[m].transferred /\ f[m].nlinkRC = info[m].nlinkRC
             /\ f[m].links = info[m].links /\ f[m].state = info[m].state
             /\ f[m].lock = IF m = g THEN n ELSE info[m].lock
  <2>1. CASE m = g
    <3>1. f[m] = [info[m] EXCEPT !.lock = n] /\ IsInfo(info[m])
      BY <1>2, <2>1
    <3> QED
      BY <2>1, <3>1, Set_lock
  <2>2. CASE m # g
    BY <1>2, <2>2
  <2> QED
    BY <2>1, <2>2
<1>7. ASSUME NEW m \in Names
      PROVE  /\ IsInfo(info'[m]) /\ info'[m].destInode = f[m].destInode
             /\ info'[m].transferred = f[m].transferred /\ info'[m].nlinkRC = f[m].nlinkRC
             /\ info'[m].links = f[m].links /\ info'[m].lock = f[m].lock
             /\ info'[m].state = IF m = h THEN "freed" ELSE f[m].state
  <2>1. CASE m = h
    <3>1. info'[m] = [f[m] EXCEPT !.state = "freed"] /\ IsInfo(f[m])
      BY <1>4, <1>6, <2>1
    <3> QED
      BY <2>1, <3>1, Set_state
  <2>2. CASE m # h
    BY <1>4, <1>6, <2>2
  <2> QED
    BY <2>1, <2>2
<1>8. ASSUME NEW m \in Names
      PROVE  /\ IsInfo(info'[m]) /\ info'[m].destInode = info[m].destInode
             /\ info'[m].transferred = info[m].transferred
             /\ info'[m].nlinkRC = info[m].nlinkRC /\ info'[m].links = info[m].links
             /\ info'[m].state = IF m = h THEN "freed" ELSE info[m].state
             /\ info'[m].lock = IF m = g THEN n ELSE info[m].lock
  <2> DEFINE x == info[m]
             y == f[m]
             z == info'[m]
  <2>1. /\ IsInfo(z) /\ y.destInode = x.destInode /\ z.destInode = y.destInode
        /\ y.transferred = x.transferred /\ z.transferred = y.transferred
        /\ y.nlinkRC = x.nlinkRC /\ z.nlinkRC = y.nlinkRC
        /\ y.links = x.links /\ z.links = y.links
        /\ y.state = x.state /\ z.state = IF m = h THEN "freed" ELSE y.state
        /\ z.lock = y.lock /\ y.lock = IF m = g THEN n ELSE x.lock
    BY <1>6, <1>7
  <2> HIDE DEF x, y, z
  <2>2. /\ IsInfo(z) /\ z.destInode = x.destInode /\ z.transferred = x.transferred
        /\ z.nlinkRC = x.nlinkRC /\ z.links = x.links
        /\ z.state = IF m = h THEN "freed" ELSE x.state
        /\ z.lock = IF m = g THEN n ELSE x.lock
    BY <2>1
  <2> QED
    BY <2>2 DEF x, z
<1> QED
  BY <1>5, <1>8, Zenon DEF LockedAndFreed

LEMMA DropForeignInv == ASSUME IInv, NEW n \in Names, DropForeign(n) PROVE IInv'
<1> DEFINE g == reg[n].info
           h == fwd[reg[n].newIno]
<1>1. /\ info' = [info EXCEPT ![g].lock = n, ![h].state = "freed"]
      /\ UNCHANGED <<source, fwd>>
  BY Zenon DEF DropForeign
<1> HIDE DEF g, h
<1>2. LockedAndFreed(n, g, h)
  <2>1. info = [m \in Names |-> info[m]] /\ \A m \in Names : IsInfo(info[m])
    BY DEF IInv, Shape
  <2> QED
    BY <1>1, <2>1, LockedFreed
<1>3. Shape'
  BY <1>1, <1>2 DEF IInv, Shape, IsInfo, LockedAndFreed
<1>4. InTable'
  BY <1>1, <1>2 DEF IInv, InTable, SrcIno, LockedAndFreed
<1>5. PendingServed'
  <2> SUFFICES ASSUME NEW m \in Names, info'[m].transferred, info'[m].lock = NoName
               PROVE  info'[m].links = {}
    BY DEF PendingServed
  <2>1. info'[m].lock = IF m = g THEN n ELSE info[m].lock
    BY <1>2 DEF LockedAndFreed
  <2>2. m # g /\ info[m].lock = NoName
    BY <2>1, NamesAssumption
  <2>3. info'[m].transferred = info[m].transferred /\ info'[m].links = info[m].links
    BY <1>2 DEF LockedAndFreed
  <2> QED
    BY <2>2, <2>3 DEF IInv, PendingServed
<1> QED
  BY <1>3, <1>4, <1>5 DEF IInv

-----------------------------------------------------------------------------
LEMMA StepInv == IInv /\ [Next]_vars => IInv'
<1> SUFFICES ASSUME IInv, [Next]_vars PROVE IInv'
  OBVIOUS
<1>1. CASE UNCHANGED vars
  <2>1. UNCHANGED <<source, fwd, info>>
    BY <1>1 DEF vars, tables
  <2> QED
    BY <2>1, Kept
<1>2. CASE Stopped
  <2>1. UNCHANGED <<source, fwd, info>>
    BY <1>2 DEF Stopped, vars, tables
  <2> QED
    BY <2>1, Kept
<1>3. ASSUME NEW n \in Names,
             \/ Stat(n) \/ StatFails(n) \/ SendJob(n) \/ GiveUp(n) \/ NoJob(n)
             \/ Finish(n) \/ FinishFails(n)
             \/ Lookup(n) \/ Reroll(n) \/ NewRev(n) \/ Promote(n) \/ LookAgain(n)
             \/ CountRev(n) \/ LastRev(n) \/ DropRev(n) \/ EndRegister(n) \/ Handle(n)
             \/ DropGroup(n)
      PROVE  IInv'
  <2>1. UNCHANGED <<source, fwd, info>>
    BY <1>3, Zenon DEF Stat, StatFails, SendJob, GiveUp, NoJob, Finish, FinishFails, Lookup, Reroll,
                       NewRev, Promote, LookAgain, CountRev, LastRev, DropRev, EndRegister, Handle,
                       DropGroup, tables, At, HasJob
  <2> QED
    BY <2>1, Kept
<1>4. ASSUME NEW n \in Names,
             \/ Create(n) \/ Queue(n) \/ Relink(n) \/ RelinkFails(n) \/ DropInfo(n)
             \/ Transfer(n) \/ LinkPending(n) \/ EndTransfer(n) \/ DropForeign(n)
      PROVE  IInv'
  BY <1>4, CreateInv, QueueInv, RelinkInv, RelinkFailsInv, DropInfoInv, TransferInv,
     LinkPendingInv, EndTransferInv, DropForeignInv
<1> QED
  BY <1>1, <1>2, <1>3, <1>4, Zenon DEF Next, Register, HandleTransfer

LEMMA SpecInv == Spec => []IInv
  BY InitInv, StepInv, PTL DEF Spec

\* Two names of one inode never both become roots, however their looks at the forward
\* table and the promotions of the lock interleave.
THEOREM OneRootOnly == Spec => []OneRoot
<1>1. IInv => OneRoot
  BY DEF IInv, InTable, OneRoot
<1> QED
  BY <1>1, SpecInv, PTL

\* No name is left queued at a group whose transfer has been handled
\* (hlinkStateHandleTransfer), as long as no freed entry has been used.
THEOREM NobodyLeftQueued == Spec => []PendingServed
<1>1. IInv => PendingServed
  BY DEF IInv
<1> QED
  BY <1>1, SpecInv, PTL

-----------------------------------------------------------------------------
(***************************************************************************)
(* Types, and what each action does in terms of them: the lemmas named after *)
(* an action are what the proofs below use of it.                          *)
(***************************************************************************)
RegType == [ino : Inodes \cup {NoInode}, links : Nat, orig : BOOLEAN,
            should : BOOLEAN, first : BOOLEAN, pending : BOOLEAN,
            info : Names \cup {NoName}, rev : Names \cup {NoName},
            newIno : Inodes \cup {NoInode}]
InfoType == [state : {"none", "live", "freed"}, destInode : Inodes \cup {NoInode},
             transferred : BOOLEAN, nlinkRC : Int, links : SUBSET Names,
             lock : Names \cup {NoName}]
RevType == [state : {"none", "live", "freed"}, srcInode : SourceInodes \cup {NoInode},
            nlinkRC : Int, lock : Names \cup {NoName}]
Places == {"stat", "lookup", "create", "link", "dropinfo", "dest", "newrev",
                         "droprev", "decide", "job", "handle", "transfer", "linking",
                         "dropgroup", "done"}
Types ==
    /\ source \in Sources
    /\ dst \in [Names -> Inodes \cup {NoInode}] /\ data \in [Inodes -> SUBSET SourceInodes]
    /\ pc \in [Names -> Places] /\ reg \in [Names -> RegType]
    /\ fwd \in [Keys -> Names \cup {NoName}] /\ rev \in [Keys -> Names \cup {NoName}]
    /\ info \in [Names -> InfoType] /\ rinfo \in [Names -> RevType]
    /\ readers \subseteq Names /\ writer \in Names \cup {NoName}
    /\ filesSeen \in Nat /\ nFinished \in Nat
    /\ failed \in BOOLEAN

Moves(n) == \A m \in Names \ {n} : pc'[m] = pc[m] /\ reg'[m] = reg[m]

SameFile(n) ==
    reg'[n].ino = reg[n].ino /\ reg'[n].links = reg[n].links /\ reg'[n].orig = reg[n].orig

LEMMA TypesAre == TypeOK = Types
  BY DEF TypeOK, Types, RegType, InfoType, RevType, Places

\* The fields of a registration and of an entry.
LEMMA RegFields ==
    ASSUME NEW r \in RegType
    PROVE  /\ r.ino \in Inodes \cup {NoInode} /\ r.links \in Nat /\ r.orig \in BOOLEAN
           /\ r.should \in BOOLEAN /\ r.first \in BOOLEAN /\ r.pending \in BOOLEAN
           /\ r.info \in Names \cup {NoName} /\ r.rev \in Names \cup {NoName}
           /\ r.newIno \in Inodes \cup {NoInode}
  BY DEF RegType

LEMMA Keeps ==
    ASSUME Types, NEW n \in Names, NEW r \in RegType, Keep(n, r),
           NEW w \in Places, Goto(n, w)
    PROVE  /\ reg' \in [Names -> RegType] /\ pc' \in [Names -> Places] /\ Moves(n)
           /\ reg'[n] = r /\ pc'[n] = w
  BY DEF Types, Keep, Goto, Moves

LEMMA IsKeys == Types => /\ \A n \in Names : SrcIno(n) \in Keys /\ SrcIno(n) \in SourceInodes
                         /\ \A i \in Inodes : i \in Keys
  BY DEF Types, SrcIno, Keys, SourceInodes

LEMMA LookupDoes ==
    ASSUME Types, NEW n \in Names, Lookup(n)
    PROVE  /\ Types' /\ Moves(n) /\ pc[n] = "lookup"
           /\ UNCHANGED <<source, dst, data, fwd, info, rev, rinfo, writer, filesSeen,
                          nFinished, failed>>
           /\ pc'[n] \in {"create", "link", "dest"}
           /\ SameFile(n) /\ reg'[n].first = reg[n].first /\ reg'[n].pending = reg[n].pending
           /\ reg'[n].info = fwd[SrcIno(n)] /\ reg'[n].rev = RevOf(n)
           /\ IF pc'[n] = "link" THEN reg'[n].should = FALSE ELSE reg'[n].should = reg[n].orig
           /\ pc'[n] = "create" => fwd[SrcIno(n)] = NoName /\ readers' = readers
           /\ pc'[n] # "create" => fwd[SrcIno(n)] # NoName /\ readers' = readers \cup {n}
<1> DEFINE h == fwd[SrcIno(n)]
           r == [reg[n] EXCEPT !.should = reg[n].orig, !.info = h, !.rev = RevOf(n)]
           q == [r EXCEPT !.should = FALSE]
<1>1. reg[n] \in RegType /\ h \in Names \cup {NoName}
  BY IsKeys DEF Types
<1>2. RevOf(n) \in Names \cup {NoName}
  BY <1>1, RegFields, IsKeys DEF Types, RevOf, Exists
<1>3. /\ r \in RegType /\ r.ino = reg[n].ino /\ r.links = reg[n].links /\ r.orig = reg[n].orig
      /\ r.first = reg[n].first /\ r.pending = reg[n].pending /\ r.info = h /\ r.rev = RevOf(n)
      /\ r.should = reg[n].orig
  BY <1>1, <1>2 DEF RegType
<1>4. /\ q \in RegType /\ q.ino = reg[n].ino /\ q.links = reg[n].links /\ q.orig = reg[n].orig
      /\ q.first = reg[n].first /\ q.pending = reg[n].pending /\ q.info = h /\ q.rev = RevOf(n)
      /\ q.should = FALSE
  BY <1>1, <1>2 DEF RegType
<1>5. /\ pc[n] = "lookup"
      /\ UNCHANGED <<source, dst, data, tables, writer, filesSeen, nFinished, failed>>
      /\ \/ h = NoName /\ Keep(n, r) /\ Goto(n, "create") /\ UNCHANGED readers
         \/ h # NoName /\ Keep(n, q) /\ Goto(n, "link") /\ readers' = readers \cup {n}
         \/ h # NoName /\ Keep(n, r) /\ Goto(n, "dest") /\ readers' = readers \cup {n}
  BY Zenon DEF Lookup, At
<1> HIDE DEF r, q, h
<1>6. "create" \in Places /\ "link" \in Places /\ "dest" \in Places
  BY DEF Places
<1>7. CASE h = NoName /\ Keep(n, r) /\ Goto(n, "create") /\ UNCHANGED readers
  BY <1>1, <1>3, <1>5, <1>6, <1>7, Keeps DEF Types, tables, h, SameFile
<1>8. CASE h # NoName /\ Keep(n, q) /\ Goto(n, "link") /\ readers' = readers \cup {n}
  BY <1>1, <1>4, <1>5, <1>6, <1>8, Keeps DEF Types, tables, h, SameFile
<1>9. CASE h # NoName /\ Keep(n, r) /\ Goto(n, "dest") /\ readers' = readers \cup {n}
  BY <1>1, <1>3, <1>5, <1>6, <1>9, Keeps DEF Types, tables, h, SameFile
<1> QED
  BY <1>5, <1>7, <1>8, <1>9

LEMMA SamePlace ==
    ASSUME Types, NEW n \in Names, NEW w \in Places, Goto(n, w), UNCHANGED reg
    PROVE  pc' \in [Names -> Places] /\ Moves(n) /\ pc'[n] = w /\ reg'[n] = reg[n]
  BY DEF Types, Goto, Moves

LEMMA StatDoes ==
    ASSUME Types, NEW n \in Names, Stat(n)
    PROVE  /\ Types' /\ Moves(n) /\ pc[n] = "stat" /\ pc'[n] \in {"lookup", "decide"}
           /\ UNCHANGED <<source, dst, data, fwd, info, rev, rinfo, readers, writer,
                          nFinished, failed>>
           /\ reg'[n].ino = dst[n] /\ reg'[n].links = Linked(dst[n])
           /\ (reg'[n].orig = FALSE => dst[n] # NoInode)
           /\ reg'[n].should = reg'[n].orig /\ reg'[n].first = (pc'[n] = "decide")
           /\ reg'[n].pending = FALSE /\ reg'[n].rev = NoName
           /\ filesSeen' = filesSeen + 1
<1> DEFINE i == dst[n]
           orig == dst[n] = NoInode \/ SrcIno(n) \notin data[dst[n]]
           registers == source.links[n] > 1 \/ Linked(dst[n]) > 1
           r == [NoReg EXCEPT !.ino = dst[n], !.links = Linked(dst[n]), !.orig = orig,
                              !.should = orig, !.first = ~registers]
<1>1. Linked(i) \in Nat
  <2>1. IsFiniteSet({m \in Names : dst[m] = i})
    BY NamesAssumption, FS_Subset
  <2>2. Cardinality({m \in Names : dst[m] = i}) \in Nat
    BY <2>1, FS_CardinalityType
  <2>3. (IF i \in OldInodes THEN Extra[i] ELSE 0) \in Nat
    BY InodesAssumption
  <2> QED
    BY <2>2, <2>3 DEF Linked
<1>2. i \in Inodes \cup {NoInode} /\ orig \in BOOLEAN /\ registers \in BOOLEAN
  BY DEF Types
<1>3. (orig = FALSE) => dst[n] # NoInode
  OBVIOUS
<1>4. /\ pc[n] = "stat" /\ Keep(n, r) /\ Goto(n, IF registers THEN "lookup" ELSE "decide")
      /\ filesSeen' = filesSeen + 1
      /\ UNCHANGED <<source, dst, data, tables, lock, nFinished, failed>>
  BY Zenon DEF Stat, At
<1> HIDE DEF orig, registers
<1>5. /\ r \in RegType /\ r.ino = i /\ r.links = Linked(i) /\ r.orig = orig /\ r.should = orig
      /\ r.first = ~registers /\ r.pending = FALSE /\ r.rev = NoName
  BY <1>1, <1>2 DEF RegType, NoReg
<1> HIDE DEF r, i
<1>6. "lookup" \in Places /\ "decide" \in Places
  BY DEF Places
<1>7. /\ reg' \in [Names -> RegType] /\ pc' \in [Names -> Places] /\ Moves(n) /\ reg'[n] = r
      /\ pc'[n] = IF registers THEN "lookup" ELSE "decide"
  BY <1>4, <1>5, <1>6, Keeps
<1>8. Types'
  BY <1>4, <1>7 DEF Types, tables, lock
<1>9. reg'[n].first = (pc'[n] = "decide")
  BY <1>2, <1>5, <1>7
<1> QED
  BY <1>3, <1>4, <1>5, <1>7, <1>8, <1>9 DEF tables, lock, i

LEMMA PlainDoes ==
    ASSUME Types, NEW n \in Names,
           StatFails(n) \/ Reroll(n) \/ Promote(n) \/ EndRegister(n)
    PROVE  /\ Types' /\ Moves(n) /\ reg' = reg
           /\ UNCHANGED <<source, dst, data, fwd, info, rev, rinfo, filesSeen, nFinished>>
           /\ \/ /\ pc[n] = "stat" /\ pc'[n] = "done" /\ failed' = TRUE
                 /\ UNCHANGED <<readers, writer>>
              \/ pc[n] = "create" /\ pc'[n] = "lookup" /\ UNCHANGED <<readers, writer, failed>>
              \/ /\ pc[n] = "dest" /\ Unlocked(n) /\ UNCHANGED failed
                 /\ \/ pc'[n] = "newrev" /\ Unseen(n) /\ writer # n
                    \/ pc'[n] = "decide" /\ ~Unseen(n) /\ ~Seen(n)
<1>1. \A w \in {"done", "lookup", "newrev", "decide"} : w \in Places
  BY DEF Places
<1>2. CASE StatFails(n)
  BY <1>1, <1>2, SamePlace DEF StatFails, Types, tables, lock, At
<1>3. CASE Reroll(n)
  BY <1>1, <1>3, SamePlace DEF Reroll, Types, tables, lock, At
<1>4. CASE Promote(n)
  BY <1>1, <1>4, SamePlace DEF Promote, Types, tables, Unlocked, At
<1>5. CASE EndRegister(n)
  BY <1>1, <1>5, SamePlace DEF EndRegister, Types, tables, Unlocked, At
<1> QED
  BY <1>2, <1>3, <1>4, <1>5

LEMMA InfoValues ==
    ASSUME NEW x \in InfoType
    PROVE  /\ x.links \subseteq Names /\ x.nlinkRC \in Int /\ x.lock \in Names \cup {NoName}
           /\ x.state \in {"none", "live", "freed"} /\ x.transferred \in BOOLEAN
  BY DEF InfoType

\* One HLinkInfo changes.
OneChanges(h, x) == \A m \in Names : info'[m] = IF m = h THEN x ELSE info[m]

LEMMA InfoSet ==
    ASSUME Types, NEW h, NEW x, h \in Names => x \in InfoType, info' = [info EXCEPT ![h] = x]
    PROVE  info' \in [Names -> InfoType] /\ OneChanges(h, x)
  BY DEF Types, OneChanges

LEMMA CreateDoes ==
    ASSUME Types, NEW n \in Names, Create(n)
    PROVE  /\ Types' /\ Moves(n) /\ pc[n] = "create" /\ pc'[n] = "dest"
           /\ UNCHANGED <<source, dst, data, rev, rinfo, readers, filesSeen, nFinished, failed>>
           /\ CanWrite /\ writer' = n
           /\ fwd[SrcIno(n)] = NoName /\ fwd' = [fwd EXCEPT ![SrcIno(n)] = n]
           /\ info'[n].state = "live" /\ info'[n].links = {} /\ info'[n].lock = NoName
           /\ \A m \in Names \ {n} : info'[m] = info[m]
           /\ SameFile(n) /\ reg'[n].first = TRUE /\ reg'[n].pending = reg[n].pending
           /\ reg'[n].rev = reg[n].rev /\ (reg[n].should => reg'[n].should)
<1> DEFINE x == NewInfo(n)
           q == [reg[n] EXCEPT !.first = TRUE, !.info = n, !.should = reg[n].should \/ Mismatch(n)]
<1>1. reg[n] \in RegType /\ reg[n].ino \in Inodes \cup {NoInode}
  BY RegFields DEF Types
<1>2. source.links[n] \in Nat
  BY SourcesAssumption DEF Types
<1>3. x \in InfoType /\ x.state = "live" /\ x.links = {} /\ x.lock = NoName
  BY <1>1, <1>2 DEF InfoType, NewInfo
<1>4. Mismatch(n) \in BOOLEAN
  BY DEF Mismatch
<1> DEFINE b == reg[n].should \/ Mismatch(n)
<1> HIDE DEF b
<1>5. b \in BOOLEAN /\ (reg[n].should => b)
  BY DEF b
<1>6. /\ q \in RegType /\ q.ino = reg[n].ino /\ q.links = reg[n].links /\ q.orig = reg[n].orig
      /\ q.first = TRUE /\ q.pending = reg[n].pending /\ q.rev = reg[n].rev /\ q.should = b
  <2>1. q = [reg[n] EXCEPT !.first = TRUE, !.info = n, !.should = b]
    BY DEF b
  <2> HIDE DEF q
  <2> QED
    BY <1>1, <1>5, <2>1 DEF RegType
<1>7. /\ pc[n] = "create" /\ CanWrite /\ ~Found(n) /\ writer' = n
      /\ fwd' = [fwd EXCEPT ![SrcIno(n)] = n] /\ info' = [info EXCEPT ![n] = x]
      /\ Keep(n, q) /\ Goto(n, "dest")
      /\ UNCHANGED <<source, dst, data, rev, rinfo, readers, filesSeen, nFinished, failed>>
  BY Zenon DEF Create, At
<1> HIDE DEF x, q
<1>8. "dest" \in Places
  BY DEF Places
<1>9. /\ reg' \in [Names -> RegType] /\ pc' \in [Names -> Places] /\ Moves(n) /\ reg'[n] = q
      /\ pc'[n] = "dest"
  BY <1>6, <1>7, <1>8, Keeps
<1>10. info' \in [Names -> InfoType] /\ OneChanges(n, x)
  BY <1>3, <1>7, InfoSet
<1>11. Types'
  BY <1>7, <1>9, <1>10 DEF Types
<1> QED
  BY <1>3, <1>5, <1>6, <1>7, <1>9, <1>10, <1>11 DEF SameFile, Found, OneChanges

LEMMA QueueDoes ==
    ASSUME Types, NEW n \in Names, reg[n].info \in Names, Queue(n)
    PROVE  /\ Types' /\ Moves(n) /\ pc[n] = "link" /\ pc'[n] = "dest"
           /\ UNCHANGED <<source, dst, data, fwd, rev, rinfo, readers, writer, filesSeen,
                          nFinished, failed>>
           /\ \A m \in Names : info'[m].state = info[m].state /\ info'[m].lock = info[m].lock
           /\ \A m \in Names \ {reg[n].info} : info'[m].links = info[m].links
           /\ info'[reg[n].info].links = info[reg[n].info].links \cup {n}
           /\ SameFile(n) /\ reg'[n].first = reg[n].first /\ reg'[n].pending = TRUE
           /\ reg'[n].rev = reg[n].rev /\ reg'[n].should = reg[n].should
<1> DEFINE h == reg[n].info
           x == [info[h] EXCEPT !.links = @ \cup {n}]
           q == [reg[n] EXCEPT !.pending = TRUE]
<1>1. reg[n] \in RegType
  BY DEF Types
<1>2. /\ q \in RegType /\ q.ino = reg[n].ino /\ q.links = reg[n].links /\ q.orig = reg[n].orig
      /\ q.first = reg[n].first /\ q.pending = TRUE /\ q.rev = reg[n].rev
      /\ q.should = reg[n].should
  BY <1>1 DEF RegType
<1>3. ASSUME h \in Names
      PROVE  /\ x \in InfoType /\ x.state = info[h].state /\ x.lock = info[h].lock
             /\ x.links = info[h].links \cup {n}
  <2>1. info[h] \in InfoType
    BY <1>3 DEF Types
  <2>2. info[h].links \cup {n} \in SUBSET Names
    BY <2>1, InfoValues
  <2> QED
    BY <2>1, <2>2 DEF InfoType
<1>4. /\ pc[n] = "link" /\ info' = [info EXCEPT ![h] = x] /\ Keep(n, q) /\ Goto(n, "dest")
      /\ UNCHANGED <<source, dst, data, fwd, rev, rinfo, lock, filesSeen, nFinished, failed>>
  BY Zenon DEF Queue, At
<1> HIDE DEF x, q, h
<1>5. "dest" \in Places
  BY DEF Places
<1>6. /\ reg' \in [Names -> RegType] /\ pc' \in [Names -> Places] /\ Moves(n) /\ reg'[n] = q
      /\ pc'[n] = "dest"
  BY <1>2, <1>4, <1>5, Keeps
<1>7. info' \in [Names -> InfoType] /\ OneChanges(h, x)
  BY <1>3, <1>4, InfoSet
<1>8. Types'
  BY <1>4, <1>6, <1>7 DEF Types, lock
<1> QED
  BY <1>2, <1>3, <1>4, <1>6, <1>7, <1>8 DEF SameFile, OneChanges, lock, h

LEMMA RelinkDoes ==
    ASSUME Types, NEW n \in Names, reg[n].info \in Names, Relink(n)
    PROVE  /\ Types' /\ Moves(n) /\ pc[n] = "link" /\ reg' = reg
           /\ UNCHANGED <<source, data, fwd, rev, rinfo, writer, filesSeen, nFinished>>
           /\ \/ /\ UNCHANGED failed /\ dst[reg[n].info] # NoInode
                 /\ dst' = [dst EXCEPT ![n] = dst[reg[n].info]]
              \/ failed' = TRUE /\ UNCHANGED dst
           /\ \A m \in Names \ {n} : dst'[m] = dst[m]
           /\ \A m \in Names : /\ info'[m].state = info[m].state /\ info'[m].lock = info[m].lock
                               /\ info'[m].links = info[m].links
           /\ \/ pc'[n] = "dropinfo" /\ readers' = readers \ {n}
              \/ pc'[n] = "dest" /\ readers' = readers
<1> DEFINE h == reg[n].info
           x == [info[h] EXCEPT !.nlinkRC = @ - 1]
<1>1. ASSUME h \in Names
      PROVE  /\ x \in InfoType /\ x.state = info[h].state /\ x.lock = info[h].lock
             /\ x.links = info[h].links
  <2>1. info[h] \in InfoType
    BY <1>1 DEF Types
  <2>2. info[h].nlinkRC - 1 \in Int
    BY <2>1, InfoValues
  <2> QED
    BY <2>1, <2>2 DEF InfoType
<1>2. /\ pc[n] = "link" /\ info' = [info EXCEPT ![h] = x]
      /\ \/ dst[h] # NoInode /\ dst' = [dst EXCEPT ![n] = dst[h]] /\ UNCHANGED failed
         \/ failed' = TRUE /\ UNCHANGED dst
      /\ \/ readers' = readers \ {n} /\ Goto(n, "dropinfo")
         \/ UNCHANGED readers /\ Goto(n, "dest")
      /\ UNCHANGED <<source, data, reg, fwd, rev, rinfo, writer, filesSeen, nFinished>>
  BY Zenon DEF Relink, At
<1> HIDE DEF x, h
<1>3. "dest" \in Places /\ "dropinfo" \in Places
  BY DEF Places
<1>4. /\ pc' \in [Names -> Places] /\ Moves(n)
      /\ \/ pc'[n] = "dropinfo" /\ readers' = readers \ {n}
         \/ pc'[n] = "dest" /\ readers' = readers
  BY <1>2, <1>3, SamePlace
<1>5. info' \in [Names -> InfoType] /\ OneChanges(h, x)
  BY <1>1, <1>2, InfoSet
<1>6. dst[h] \in Inodes \cup {NoInode} /\ dst[n] \in Inodes \cup {NoInode}
  BY DEF Types, h
<1>7. /\ dst' \in [Names -> Inodes \cup {NoInode}] /\ failed' \in BOOLEAN
      /\ \A m \in Names \ {n} : dst'[m] = dst[m]
  BY <1>2, <1>6 DEF Types
<1>8. Types'
  BY <1>2, <1>4, <1>5, <1>7 DEF Types
<1> QED
  BY <1>1, <1>2, <1>4, <1>5, <1>7, <1>8 DEF OneChanges, h

LEMMA RelinkFailsDoes ==
    ASSUME Types, NEW n \in Names, reg[n].info \in Names, RelinkFails(n)
    PROVE  /\ Types' /\ Moves(n) /\ pc[n] = "link" /\ pc'[n] = "decide" /\ reg' = reg
           /\ UNCHANGED <<source, data, fwd, rev, rinfo, readers, writer, filesSeen, nFinished>>
           /\ failed' = TRUE /\ dst' = [dst EXCEPT ![n] = NoInode]
           /\ \A m \in Names \ {n} : dst'[m] = dst[m]
           /\ \A m \in Names : info'[m].state = info[m].state /\ info'[m].links = info[m].links
<1> DEFINE h == reg[n].info
           x == [info[h] EXCEPT !.lock = n]
<1>1. x \in InfoType /\ x.state = info[h].state /\ x.links = info[h].links
  <2>1. info[h] \in InfoType
    BY DEF Types
  <2> QED
    BY <2>1 DEF InfoType
<1>2. /\ pc[n] = "link" /\ info' = [info EXCEPT ![h] = x] /\ Goto(n, "decide")
      /\ failed' = TRUE /\ dst' = [dst EXCEPT ![n] = NoInode]
      /\ UNCHANGED <<source, data, reg, fwd, rev, rinfo, lock, filesSeen, nFinished>>
  BY Zenon DEF RelinkFails, At
<1> HIDE DEF x, h
<1>3. "decide" \in Places
  BY DEF Places
<1>4. pc' \in [Names -> Places] /\ Moves(n) /\ pc'[n] = "decide"
  BY <1>2, <1>3, SamePlace
<1>5. info' \in [Names -> InfoType] /\ OneChanges(h, x)
  BY <1>1, <1>2, InfoSet
<1>6. Types'
  BY <1>2, <1>4, <1>5 DEF Types, lock
<1>7. \A m \in Names \ {n} : dst'[m] = dst[m]
  BY <1>2 DEF Types
<1> QED
  BY <1>1, <1>2, <1>4, <1>5, <1>6, <1>7 DEF OneChanges, lock

LEMMA DropInfoDoes ==
    ASSUME Types, NEW n \in Names, DropInfo(n)
    PROVE  /\ Types' /\ Moves(n) /\ pc[n] = "dropinfo" /\ pc'[n] = "dest" /\ reg' = reg
           /\ UNCHANGED <<source, dst, data, rev, rinfo, readers, filesSeen, nFinished, failed>>
           /\ CanWrite /\ writer' = n
           /\ fwd' = [fwd EXCEPT ![SrcIno(n)] = NoName]
           /\ \A m \in Names : info'[m].links = info[m].links /\ info'[m].lock = info[m].lock
           /\ \A m \in Names \ {fwd[SrcIno(n)]} : info'[m].state = info[m].state
<1> DEFINE h == fwd[SrcIno(n)]
           x == [info[h] EXCEPT !.state = "freed"]
<1>1. ASSUME h \in Names
      PROVE  x \in InfoType /\ x.links = info[h].links /\ x.lock = info[h].lock
  <2>1. info[h] \in InfoType
    BY <1>1 DEF Types
  <2> QED
    BY <2>1 DEF InfoType
<1>2. /\ pc[n] = "dropinfo" /\ CanWrite /\ writer' = n
      /\ fwd' = [fwd EXCEPT ![SrcIno(n)] = NoName]
      /\ info' = IF h = NoName THEN info ELSE [info EXCEPT ![h] = x]
      /\ Goto(n, "dest")
      /\ UNCHANGED <<source, dst, data, reg, rev, rinfo, readers, filesSeen, nFinished, failed>>
  BY Zenon DEF DropInfo, At
<1> HIDE DEF x
<1>3. "dest" \in Places
  BY DEF Places
<1>4. pc' \in [Names -> Places] /\ Moves(n) /\ pc'[n] = "dest"
  BY <1>2, <1>3, SamePlace
<1>5. info' \in [Names -> InfoType] /\ OneChanges(h, x)
  <2>1. CASE h = NoName
    BY <2>1, <1>2, NamesAssumption DEF OneChanges, Types
  <2>2. CASE h # NoName
    BY <2>2, <1>1, <1>2, InfoSet
  <2> QED
    BY <2>1, <2>2
<1>6. Types'
  BY <1>2, <1>4, <1>5 DEF Types
<1> QED
  BY <1>1, <1>2, <1>4, <1>5, <1>6 DEF OneChanges

\* One HLinkInfoRev changes.
LEMMA NewRevDoes ==
    ASSUME Types, NEW n \in Names, NewRev(n)
    PROVE  /\ Types' /\ Moves(n) /\ pc[n] = "dest" /\ pc'[n] = "decide" /\ reg' = reg
           /\ UNCHANGED <<source, dst, data, fwd, info, filesSeen, nFinished, failed>>
           /\ Unseen(n) /\ writer = n /\ Unlocked(n)
           /\ rev' = [rev EXCEPT ![reg[n].ino] = n]
           /\ rinfo'[n].state = "live" /\ rinfo'[n].nlinkRC = reg[n].links
           /\ rinfo'[n].lock = NoName
           /\ \A m \in Names \ {n} : rinfo'[m] = rinfo[m]
<1> DEFINE x == [state |-> "live", nlinkRC |-> LinksFound(n), lock |-> NoName,
                 srcInode |-> IF reg[n].should THEN NoInode ELSE SrcIno(n)]
<1>1. reg[n] \in RegType /\ reg[n].links \in Nat
  BY RegFields DEF Types
<1>2. /\ x \in RevType /\ x.state = "live" /\ x.nlinkRC = reg[n].links /\ x.lock = NoName
  BY <1>1, IsKeys DEF RevType, LinksFound
<1>3. /\ pc[n] = "dest" /\ Unseen(n) /\ writer = n /\ Unlocked(n) /\ Goto(n, "decide")
      /\ rinfo' = [rinfo EXCEPT ![n] = x] /\ rev' = [rev EXCEPT ![reg[n].ino] = n]
      /\ UNCHANGED <<source, dst, data, reg, fwd, info, filesSeen, nFinished, failed>>
  BY Zenon DEF NewRev, At
<1> HIDE DEF x
<1>4. "decide" \in Places
  BY DEF Places
<1>5. pc' \in [Names -> Places] /\ Moves(n) /\ pc'[n] = "decide"
  BY <1>3, <1>4, SamePlace
<1>6. Types'
  BY <1>2, <1>3, <1>5 DEF Types, Unlocked
<1> QED
  BY <1>2, <1>3, <1>5, <1>6 DEF Types

LEMMA LookAgainDoes ==
    ASSUME Types, NEW n \in Names, LookAgain(n)
    PROVE  /\ Types' /\ Moves(n) /\ pc[n] = "newrev" /\ pc'[n] = "dest"
           /\ UNCHANGED <<source, dst, data, fwd, info, rev, rinfo, readers, filesSeen,
                          nFinished, failed>>
           /\ CanWrite /\ writer' = n
           /\ SameFile(n) /\ reg'[n].first = reg[n].first /\ reg'[n].pending = reg[n].pending
           /\ reg'[n].rev = rev[SrcIno(n)] /\ reg'[n].should = reg[n].should
<1> DEFINE q == [reg[n] EXCEPT !.rev = rev[SrcIno(n)]]
<1>1. reg[n] \in RegType /\ rev[SrcIno(n)] \in Names \cup {NoName}
  BY IsKeys DEF Types
<1>2. /\ q \in RegType /\ q.ino = reg[n].ino /\ q.links = reg[n].links /\ q.orig = reg[n].orig
      /\ q.first = reg[n].first /\ q.pending = reg[n].pending /\ q.rev = rev[SrcIno(n)]
      /\ q.should = reg[n].should
  BY <1>1 DEF RegType
<1>3. /\ pc[n] = "newrev" /\ CanWrite /\ writer' = n /\ Keep(n, q) /\ Goto(n, "dest")
      /\ UNCHANGED <<source, dst, data, tables, readers, filesSeen, nFinished, failed>>
  BY Zenon DEF LookAgain, At
<1> HIDE DEF q
<1>4. "dest" \in Places
  BY DEF Places
<1>5. /\ reg' \in [Names -> RegType] /\ pc' \in [Names -> Places] /\ Moves(n) /\ reg'[n] = q
      /\ pc'[n] = "dest"
  BY <1>2, <1>3, <1>4, Keeps
<1>6. Types'
  BY <1>3, <1>5 DEF Types, tables
<1> QED
  BY <1>2, <1>3, <1>5, <1>6 DEF SameFile, tables

LEMMA CountDoes ==
    ASSUME Types, NEW n \in Names, CountRev(n) \/ LastRev(n)
    PROVE  /\ Types' /\ Moves(n) /\ pc[n] = "dest" /\ reg' = reg /\ reg[n].rev \in Names
           /\ UNCHANGED <<source, dst, data, fwd, info, rev, filesSeen, nFinished, failed>>
           /\ Seen(n)
           /\ \A m \in Names : rinfo'[m].state = rinfo[m].state /\ rinfo'[m].lock = rinfo[m].lock
           /\ \A m \in Names \ {reg[n].rev} : rinfo'[m].nlinkRC = rinfo[m].nlinkRC
           /\ rinfo'[reg[n].rev].nlinkRC = rinfo[reg[n].rev].nlinkRC - 1
           /\ \/ pc'[n] = "decide" /\ Unlocked(n)
              \/ /\ pc'[n] = "droprev" /\ rinfo[reg[n].rev].nlinkRC = 1
                 /\ Unlocked(n) \/ UNCHANGED lock
<1> DEFINE r == reg[n].rev
           x == [rinfo[r] EXCEPT !.nlinkRC = @ - 1]
<1>1. reg[n] \in RegType /\ r \in Names
  BY RegFields DEF Types, CountRev, LastRev, Seen, At
<1>2. x \in RevType /\ x.state = rinfo[r].state /\ x.lock = rinfo[r].lock
      /\ x.nlinkRC = rinfo[r].nlinkRC - 1
  <2>1. rinfo[r] \in RevType
    BY <1>1 DEF Types
  <2> QED
    BY <2>1 DEF RevType
<1>3. /\ pc[n] = "dest" /\ Seen(n) /\ rinfo' = [rinfo EXCEPT ![r] = x]
      /\ UNCHANGED <<source, dst, data, reg, fwd, info, rev, filesSeen, nFinished, failed>>
      /\ \/ Unlocked(n) /\ Goto(n, "decide")
         \/ /\ Goto(n, "droprev") /\ rinfo[r].nlinkRC = 1
            /\ Unlocked(n) \/ UNCHANGED lock
  <2>1. CASE CountRev(n)
    BY <2>1, Zenon DEF CountRev, Counted, At
  <2>2. CASE LastRev(n)
    BY <2>2, Zenon DEF LastRev, Counted, At
  <2> QED
    BY <2>1, <2>2
<1> HIDE DEF x, r
<1>4. "decide" \in Places /\ "droprev" \in Places
  BY DEF Places
<1>5. pc' \in [Names -> Places] /\ Moves(n)
      /\ \/ pc'[n] = "decide" /\ Unlocked(n)
         \/ /\ pc'[n] = "droprev" /\ rinfo[r].nlinkRC = 1
            /\ Unlocked(n) \/ UNCHANGED lock
  BY <1>3, <1>4, SamePlace
<1>6. rinfo' \in [Names -> RevType] /\ \A m \in Names : rinfo'[m] = IF m = r THEN x ELSE rinfo[m]
  BY <1>1, <1>2, <1>3 DEF Types
<1>7. readers' \subseteq Names /\ writer' \in Names \cup {NoName}
  BY <1>5 DEF Types, Unlocked, lock
<1>8. Types'
  BY <1>3, <1>5, <1>6, <1>7 DEF Types
<1> QED
  BY <1>1, <1>2, <1>3, <1>5, <1>6, <1>8 DEF r

LEMMA DropRevDoes ==
    ASSUME Types, NEW n \in Names, DropRev(n)
    PROVE  /\ Types' /\ Moves(n) /\ pc[n] = "droprev" /\ pc'[n] = "decide" /\ reg' = reg
           /\ UNCHANGED <<source, dst, data, fwd, info, readers, filesSeen, nFinished, failed>>
<1> DEFINE r == rev[reg[n].ino]
           x(m) == IF m = r THEN [rinfo[m] EXCEPT !.state = "freed"]
                   ELSE IF m = reg[n].rev THEN [rinfo[m] EXCEPT !.lock = n] ELSE rinfo[m]
<1>1. ASSUME NEW m \in Names PROVE x(m) \in RevType
  <2>1. rinfo[m] \in RevType
    BY DEF Types
  <2>2. [rinfo[m] EXCEPT !.state = "freed"] \in RevType /\ [rinfo[m] EXCEPT !.lock = n] \in RevType
    BY <2>1 DEF RevType
  <2> QED
    BY <2>1, <2>2
<1>2. /\ pc[n] = "droprev" /\ Goto(n, "decide") /\ rev' = [rev EXCEPT ![reg[n].ino] = NoName]
      /\ rinfo' = [m \in Names |-> x(m)] /\ writer' = NoName
      /\ UNCHANGED <<source, dst, data, reg, fwd, info, readers, filesSeen, nFinished, failed>>
  BY Zenon DEF DropRev, At
<1> HIDE DEF x
<1>3. "decide" \in Places
  BY DEF Places
<1>4. pc' \in [Names -> Places] /\ Moves(n) /\ pc'[n] = "decide"
  BY <1>2, <1>3, SamePlace
<1>5. rinfo' \in [Names -> RevType] /\ rev' \in [Keys -> Names \cup {NoName}]
  BY <1>1, <1>2 DEF Types
<1> QED
  BY <1>2, <1>4, <1>5 DEF Types

LEMMA DecideDoes ==
    ASSUME Types, NEW n \in Names, SendJob(n) \/ GiveUp(n) \/ NoJob(n)
    PROVE  /\ Types' /\ Moves(n) /\ pc[n] = "decide"
           /\ UNCHANGED <<source, dst, data, fwd, info, rev, rinfo, readers, writer, filesSeen>>
           /\ reg'[n].should = reg[n].should /\ reg'[n].first = reg[n].first
           /\ reg'[n].pending = reg[n].pending /\ reg'[n].rev = NoName
           /\ \/ /\ pc'[n] = "job" /\ UNCHANGED <<nFinished, failed>>
                 /\ reg[n].should \/ (~reg[n].pending /\ reg[n].first)
              \/ pc'[n] = "done" /\ failed' = TRUE /\ UNCHANGED nFinished /\ reg[n].should
              \/ /\ pc'[n] = "done" /\ UNCHANGED failed /\ ~reg[n].should
                 /\ reg[n].pending \/ ~reg[n].first
                 /\ nFinished' = IF reg[n].pending THEN nFinished ELSE nFinished + 1
<1> DEFINE q == [NoReg EXCEPT !.should = reg[n].should, !.first = reg[n].first,
                              !.pending = reg[n].pending]
<1>1. /\ reg[n] \in RegType /\ reg[n].should \in BOOLEAN /\ reg[n].first \in BOOLEAN
      /\ reg[n].pending \in BOOLEAN
  BY RegFields DEF Types
<1>2. q \in RegType /\ q.should = reg[n].should /\ q.first = reg[n].first
      /\ q.pending = reg[n].pending /\ q.rev = NoName
  BY <1>1 DEF RegType, NoReg
<1>3. /\ pc[n] = "decide" /\ Keep(n, q)
      /\ UNCHANGED <<source, dst, data, tables, lock, filesSeen>>
      /\ \/ /\ Goto(n, "job") /\ UNCHANGED <<nFinished, failed>>
            /\ reg[n].should \/ (~reg[n].pending /\ reg[n].first)
         \/ Goto(n, "done") /\ failed' = TRUE /\ UNCHANGED nFinished /\ reg[n].should
         \/ /\ Goto(n, "done") /\ UNCHANGED failed /\ ~reg[n].should
            /\ reg[n].pending \/ ~reg[n].first
            /\ nFinished' = IF reg[n].pending THEN nFinished ELSE nFinished + 1
  <2>1. CASE SendJob(n)
    <3>1. /\ pc[n] = "decide" /\ Keep(n, q) /\ Goto(n, "job")
          /\ (reg[n].should \/ (~reg[n].pending /\ reg[n].first))
          /\ UNCHANGED <<source, dst, data, tables, lock, filesSeen, nFinished, failed>>
      BY <2>1, Zenon DEF SendJob, Decided, Forget, At, HasJob
    <3> QED
      BY <3>1, Zenon
  <2>2. CASE GiveUp(n)
    BY <2>2, Zenon DEF GiveUp, Decided, Forget, At
  <2>3. CASE NoJob(n)
    BY <2>3, Zenon DEF NoJob, Decided, Forget, Waits, At, HasJob
  <2> QED
    BY <2>1, <2>2, <2>3
<1> HIDE DEF q
<1>4. "job" \in Places /\ "done" \in Places
  BY DEF Places
<1>5. /\ reg' \in [Names -> RegType] /\ pc' \in [Names -> Places] /\ Moves(n) /\ reg'[n] = q
      /\ (Goto(n, "job") => pc'[n] = "job") /\ (Goto(n, "done") => pc'[n] = "done")
  BY <1>2, <1>3, <1>4, Keeps
<1>6. nFinished' \in Nat /\ failed' \in BOOLEAN
  <2>1. nFinished \in Nat /\ failed \in BOOLEAN
    BY DEF Types
  <2>2. nFinished' = nFinished \/ nFinished' = nFinished + 1
    <3>1. CASE reg[n].pending
      BY <1>3, <3>1, Zenon
    <3>2. CASE ~reg[n].pending
      BY <1>3, <3>2, Zenon
    <3> QED
      BY <3>1, <3>2
  <2>3. failed' = failed \/ failed' = TRUE
    BY <1>3, Zenon
  <2>4. failed' \in BOOLEAN
    BY <2>1, <2>3, Zenon
  <2>5. nFinished' \in Nat
    BY <2>1, <2>2
  <2> QED
    BY <2>4, <2>5
<1>7. Types'
  BY <1>3, <1>5, <1>6 DEF Types, tables, lock
<1> QED
  BY <1>2, <1>3, <1>5, <1>7 DEF tables, lock

LEMMA FinishDoes ==
    ASSUME Types, NEW n \in Names, Finish(n)
    PROVE  /\ Types' /\ Moves(n) /\ pc[n] = "job"
           /\ UNCHANGED <<source, fwd, info, rev, rinfo, readers, writer, filesSeen, failed>>
           /\ dst' = [dst EXCEPT ![n] = Final(n)] /\ Final(n) \in Inodes \cup {NoInode}
           /\ \A m \in Names \ {n} : dst'[m] = dst[m]
           /\ reg'[n].should = reg[n].should /\ reg'[n].first = reg[n].first
           /\ reg'[n].pending = reg[n].pending /\ reg'[n].rev = reg[n].rev
           /\ \/ pc'[n] = "handle" /\ UNCHANGED nFinished /\ reg'[n].newIno = Final(n)
              \/ pc'[n] = "done" /\ nFinished' = nFinished + 1 /\ reg' = reg
<1> DEFINE q == [reg[n] EXCEPT !.newIno = Final(n)]
<1>1. reg[n] \in RegType /\ Final(n) \in Inodes \cup {NoInode} /\ NewInode[n] \in Inodes
  BY DEF Types, Final, Inodes, NewInodes
<1>2. /\ q \in RegType /\ q.should = reg[n].should /\ q.first = reg[n].first
      /\ q.pending = reg[n].pending /\ q.rev = reg[n].rev /\ q.newIno = Final(n)
  BY <1>1 DEF RegType
<1>3. /\ pc[n] = "job" /\ dst' = [dst EXCEPT ![n] = Final(n)]
      /\ data' = IF reg[n].should THEN [data EXCEPT ![NewInode[n]] = {SrcIno(n)}] ELSE data
      /\ UNCHANGED <<source, tables, lock, filesSeen, failed>>
      /\ \/ Goto(n, "handle") /\ UNCHANGED nFinished /\ Keep(n, q)
         \/ Goto(n, "done") /\ nFinished' = nFinished + 1 /\ UNCHANGED reg
  BY Zenon DEF Finish, At
<1> HIDE DEF q
<1>4. "handle" \in Places /\ "done" \in Places
  BY DEF Places
<1>5. /\ reg' \in [Names -> RegType] /\ pc' \in [Names -> Places] /\ Moves(n)
      /\ \/ pc'[n] = "handle" /\ UNCHANGED nFinished /\ reg'[n] = q
         \/ pc'[n] = "done" /\ nFinished' = nFinished + 1 /\ reg' = reg
  <2>1. CASE Goto(n, "handle") /\ UNCHANGED nFinished /\ Keep(n, q)
    BY <1>2, <1>4, <2>1, Keeps
  <2>2. CASE Goto(n, "done") /\ nFinished' = nFinished + 1 /\ UNCHANGED reg
    BY <1>4, <2>2, SamePlace DEF Types
  <2> QED
    BY <1>3, <2>1, <2>2
<1>6. data' \in [Inodes -> SUBSET SourceInodes]
  <2>1. {SrcIno(n)} \in SUBSET SourceInodes
    BY IsKeys
  <2> QED
    BY <2>1, <1>3 DEF Types
<1>7. dst' \in [Names -> Inodes \cup {NoInode}] /\ nFinished' \in Nat
  <2>1. dst' \in [Names -> Inodes \cup {NoInode}]
    BY <1>1, <1>3 DEF Types
  <2>2. nFinished' = nFinished \/ nFinished' = nFinished + 1
    BY <1>5
  <2> QED
    BY <2>1, <2>2 DEF Types
<1>8. UNCHANGED <<source, fwd, info, rev, rinfo, readers, writer, filesSeen, failed>>
  BY <1>3 DEF tables, lock
<1>9. Types'
  BY <1>5, <1>6, <1>7, <1>8 DEF Types
<1>10. \A m \in Names \ {n} : dst'[m] = dst[m]
  BY <1>3 DEF Types
<1> QED
  BY <1>1, <1>2, <1>3, <1>5, <1>8, <1>9, <1>10

LEMMA FinishFailsDoes ==
    ASSUME Types, NEW n \in Names, FinishFails(n)
    PROVE  /\ Types' /\ Moves(n) /\ pc[n] = "job" /\ pc'[n] = "done" /\ reg' = reg
           /\ UNCHANGED <<source, fwd, info, rev, rinfo, readers, writer, filesSeen>>
           /\ failed' = TRUE /\ nFinished' = nFinished + 1
           /\ \A m \in Names \ {n} : dst'[m] = dst[m]
<1>1. NewInode[n] \in Inodes
  BY DEF Inodes, NewInodes
<1>2. "done" \in Places
  BY DEF Places
<1>3. pc' \in [Names -> Places] /\ Moves(n) /\ pc'[n] = "done"
  BY <1>2, SamePlace DEF FinishFails, At
<1>4. /\ pc[n] = "job" /\ failed' = TRUE /\ nFinished' = nFinished + 1
      /\ UNCHANGED <<source, reg, tables, lock, filesSeen>>
      /\ \/ UNCHANGED <<dst, data>>
         \/ dst' = [dst EXCEPT ![n] = NoInode] /\ UNCHANGED data
         \/ /\ dst' = [dst EXCEPT ![n] = NewInode[n]]
            /\ data' = [data EXCEPT ![NewInode[n]] = {SrcIno(n)}]
  BY Zenon DEF FinishFails, At
<1>5. dst' \in [Names -> Inodes \cup {NoInode}] /\ data' \in [Inodes -> SUBSET SourceInodes]
      /\ \A m \in Names \ {n} : dst'[m] = dst[m]
  <2>1. {SrcIno(n)} \in SUBSET SourceInodes
    BY IsKeys
  <2> QED
    BY <2>1, <1>1, <1>4 DEF Types
<1>6. Types'
  BY <1>3, <1>4, <1>5 DEF Types, tables, lock
<1> QED
  BY <1>3, <1>4, <1>5, <1>6 DEF tables, lock

LEMMA HandleDoes ==
    ASSUME Types, NEW n \in Names, Handle(n)
    PROVE  /\ Types' /\ Moves(n) /\ pc[n] = "handle"
           /\ UNCHANGED <<source, dst, data, fwd, info, rev, rinfo, writer, filesSeen, failed>>
           /\ writer = NoName
           /\ \/ /\ pc'[n] = "done" /\ reg' = reg /\ UNCHANGED readers /\ fwd[SrcIno(n)] = NoName
                 /\ nFinished' = nFinished + 1
              \/ /\ pc'[n] = "transfer" /\ readers' = readers \cup {n} /\ UNCHANGED nFinished
                 /\ fwd[SrcIno(n)] # NoName /\ reg'[n].info = fwd[SrcIno(n)]
                 /\ reg'[n].newIno = reg[n].newIno /\ reg'[n].rev = reg[n].rev
                 /\ reg'[n].first = reg[n].first /\ reg'[n].pending = reg[n].pending
                 /\ reg'[n].should = reg[n].should
<1> DEFINE h == fwd[SrcIno(n)]
           q == [reg[n] EXCEPT !.info = h]
<1>1. reg[n] \in RegType /\ h \in Names \cup {NoName}
  BY IsKeys DEF Types
<1>2. /\ q \in RegType /\ q.should = reg[n].should /\ q.first = reg[n].first
      /\ q.pending = reg[n].pending /\ q.rev = reg[n].rev /\ q.newIno = reg[n].newIno
      /\ q.info = h
  BY <1>1 DEF RegType
<1>3. /\ pc[n] = "handle" /\ writer = NoName
      /\ UNCHANGED <<source, dst, data, tables, writer, filesSeen, failed>>
      /\ \/ /\ h = NoName /\ nFinished' = nFinished + 1
            /\ Goto(n, "done") /\ UNCHANGED reg /\ UNCHANGED readers
         \/ /\ h # NoName /\ readers' = readers \cup {n}
            /\ Keep(n, q) /\ Goto(n, "transfer") /\ UNCHANGED nFinished
  <2>1. CASE h = NoName
    BY <2>1, Zenon DEF Handle, GroupOf, At
  <2>2. CASE h # NoName
    BY <2>2, Zenon DEF Handle, GroupOf, At
  <2> QED
    BY <2>1, <2>2
<1> HIDE DEF q, h
<1>4. "transfer" \in Places /\ "done" \in Places
  BY DEF Places
<1>5. /\ reg' \in [Names -> RegType] /\ pc' \in [Names -> Places] /\ Moves(n)
      /\ \/ /\ h = NoName /\ nFinished' = nFinished + 1
            /\ pc'[n] = "done" /\ reg' = reg /\ readers' = readers
         \/ /\ h # NoName /\ readers' = readers \cup {n}
            /\ reg'[n] = q /\ pc'[n] = "transfer" /\ UNCHANGED nFinished
  <2>1. CASE h = NoName
    BY <1>3, <1>4, <2>1, SamePlace DEF Types
  <2>2. CASE h # NoName
    BY <1>2, <1>3, <1>4, <2>2, Keeps
  <2> QED
    BY <2>1, <2>2
<1>6. nFinished' \in Nat /\ readers' \subseteq Names
  BY <1>5 DEF Types
<1>7. Types'
  BY <1>3, <1>5, <1>6 DEF Types, tables
<1> QED
  BY <1>2, <1>3, <1>5, <1>7 DEF tables, h

LEMMA TransferDoes ==
    ASSUME Types, NEW n \in Names, reg[n].info \in Names, Transfer(n)
    PROVE  /\ Types' /\ Moves(n) /\ pc[n] = "transfer" /\ pc'[n] = "linking" /\ reg' = reg
           /\ UNCHANGED <<source, dst, data, fwd, rev, rinfo, readers, writer, filesSeen,
                          nFinished, failed>>
           /\ info[reg[n].info].lock = NoName /\ info'[reg[n].info].lock = n
           /\ \A m \in Names : info'[m].state = info[m].state /\ info'[m].links = info[m].links
           /\ \A m \in Names \ {reg[n].info} : info'[m].lock = info[m].lock
<1> DEFINE h == reg[n].info
           x == [info[h] EXCEPT !.lock = n, !.transferred = TRUE, !.destInode = reg[n].newIno]
<1>1. x \in InfoType /\ x.state = info[h].state /\ x.links = info[h].links /\ x.lock = n
  <2>1. info[h] \in InfoType
    BY DEF Types
  <2>2. reg[n].newIno \in Inodes \cup {NoInode}
    BY RegFields DEF Types
  <2> QED
    BY <2>1, <2>2 DEF InfoType
<1>2. /\ pc[n] = "transfer" /\ Free(h) /\ info' = [info EXCEPT ![h] = x] /\ Goto(n, "linking")
      /\ UNCHANGED <<source, dst, data, reg, fwd, rev, rinfo, lock, filesSeen, nFinished, failed>>
  BY Zenon DEF Transfer, At
<1> HIDE DEF x
<1>3. "linking" \in Places
  BY DEF Places
<1>4. pc' \in [Names -> Places] /\ Moves(n) /\ pc'[n] = "linking"
  BY <1>2, <1>3, SamePlace
<1>5. info' \in [Names -> InfoType] /\ OneChanges(h, x)
  BY <1>1, <1>2, InfoSet
<1>6. Types'
  BY <1>2, <1>4, <1>5 DEF Types, lock
<1> QED
  BY <1>1, <1>2, <1>4, <1>5, <1>6 DEF OneChanges, lock, Free

\* The name m that is linked to the root.
LinksOne(n, m) ==
    /\ m \in info[reg[n].info].links
    /\ \/ dst' = [dst EXCEPT ![m] = dst[n]] /\ UNCHANGED failed
       \/ dst' = [dst EXCEPT ![m] = NoInode] /\ failed' = TRUE
       \/ UNCHANGED dst /\ failed' = TRUE
    /\ info'[reg[n].info].links = info[reg[n].info].links \ {m}

LEMMA LinkPendingDoes ==
    ASSUME Types, NEW n \in Names, reg[n].info \in Names, LinkPending(n)
    PROVE  /\ Types' /\ pc[n] = "linking" /\ pc' = pc /\ reg' = reg
           /\ UNCHANGED <<source, data, fwd, rev, rinfo, readers, writer, filesSeen>>
           /\ nFinished' = nFinished + 1
           /\ \E m \in Names : LinksOne(n, m)
           /\ \A m \in Names : info'[m].state = info[m].state /\ info'[m].lock = info[m].lock
           /\ \A m \in Names \ {reg[n].info} : info'[m].links = info[m].links
<1> DEFINE h == reg[n].info
<1>1. PICK m \in info[h].links :
            /\ \/ dst' = [dst EXCEPT ![m] = dst[n]] /\ UNCHANGED failed
               \/ dst' = [dst EXCEPT ![m] = NoInode] /\ failed' = TRUE
               \/ UNCHANGED dst /\ failed' = TRUE
            /\ info' = [info EXCEPT ![h].links = @ \ {m}]
  BY Zenon DEF LinkPending, At
<1> DEFINE x == [info[h] EXCEPT !.links = @ \ {m}]
<1>2. /\ x \in InfoType /\ x.state = info[h].state /\ x.lock = info[h].lock
      /\ x.links = info[h].links \ {m} /\ m \in Names
  <2>1. info[h] \in InfoType
    BY DEF Types
  <2>2. info[h].links \ {m} \in SUBSET Names /\ m \in Names
    BY <2>1, InfoValues
  <2> QED
    BY <2>1, <2>2 DEF InfoType
<1>3. /\ pc[n] = "linking" /\ info' = [info EXCEPT ![h] = x] /\ nFinished' = nFinished + 1
      /\ UNCHANGED <<source, data, pc, reg, fwd, rev, rinfo, lock, filesSeen>>
  BY <1>1, Zenon DEF LinkPending, At
<1> HIDE DEF x
<1>4. info' \in [Names -> InfoType] /\ OneChanges(h, x)
  BY <1>2, <1>3, InfoSet
<1>5. dst' \in [Names -> Inodes \cup {NoInode}]
  BY <1>1, <1>2 DEF Types
<1>6. failed' \in BOOLEAN
  <2>1. failed \in BOOLEAN
    BY DEF Types
  <2> QED
    BY <1>1, <2>1, Zenon
<1>7. Types'
  BY <1>3, <1>4, <1>5, <1>6 DEF Types, lock
<1>8. LinksOne(n, m)
  BY <1>1, <1>2, <1>4 DEF LinksOne, OneChanges
<1> QED
  BY <1>2, <1>3, <1>4, <1>7, <1>8 DEF OneChanges, lock

LEMMA EndTransferDoes ==
    ASSUME Types, NEW n \in Names, reg[n].info \in Names, EndTransfer(n)
    PROVE  /\ Types' /\ Moves(n) /\ pc[n] = "linking" /\ reg' = reg
           /\ UNCHANGED <<source, dst, data, fwd, rev, rinfo, writer, filesSeen, failed>>
           /\ readers' = readers \ {n}
           /\ info[reg[n].info].links = {} /\ info'[reg[n].info].lock = NoName
           /\ \A m \in Names : info'[m].state = info[m].state /\ info'[m].links = info[m].links
           /\ \A m \in Names \ {reg[n].info} : info'[m].lock = info[m].lock
           /\ \/ pc'[n] = "dropgroup" /\ UNCHANGED nFinished
              \/ pc'[n] = "done" /\ nFinished' = nFinished + 1
<1> DEFINE h == reg[n].info
           x == [info[h] EXCEPT !.lock = NoName, !.nlinkRC = @ - 1]
<1>1. x \in InfoType /\ x.state = info[h].state /\ x.links = info[h].links /\ x.lock = NoName
  <2>1. info[h] \in InfoType
    BY DEF Types
  <2>2. info[h].nlinkRC - 1 \in Int
    BY <2>1, InfoValues
  <2> QED
    BY <2>1, <2>2 DEF InfoType
<1>2. /\ pc[n] = "linking" /\ AllLinked(h) /\ info' = [info EXCEPT ![h] = x]
      /\ readers' = readers \ {n}
      /\ \/ Goto(n, "dropgroup") /\ UNCHANGED nFinished
         \/ Goto(n, "done") /\ nFinished' = nFinished + 1
      /\ UNCHANGED <<source, dst, data, reg, fwd, rev, rinfo, writer, filesSeen, failed>>
  BY Zenon DEF EndTransfer, At
<1> HIDE DEF x
<1>3. "dropgroup" \in Places /\ "done" \in Places
  BY DEF Places
<1>4. /\ pc' \in [Names -> Places] /\ Moves(n)
      /\ \/ pc'[n] = "dropgroup" /\ UNCHANGED nFinished
         \/ pc'[n] = "done" /\ nFinished' = nFinished + 1
  BY <1>2, <1>3, SamePlace
<1>5. info' \in [Names -> InfoType] /\ OneChanges(h, x)
  BY <1>1, <1>2, InfoSet
<1>6. Types'
  BY <1>2, <1>4, <1>5 DEF Types
<1> QED
  BY <1>1, <1>2, <1>4, <1>5, <1>6 DEF OneChanges, AllLinked

LEMMA DropGroupDoes ==
    ASSUME Types, NEW n \in Names, DropGroup(n) \/ DropForeign(n)
    PROVE  /\ Types' /\ Moves(n) /\ pc[n] = "dropgroup" /\ pc'[n] = "done" /\ reg' = reg
           /\ UNCHANGED <<source, dst, data, fwd, rinfo, readers, writer, filesSeen, failed>>
           /\ CanWrite /\ nFinished' = nFinished + 1
           /\ \A m \in Names : /\ info'[m].links = info[m].links
                              /\ info'[m].nlinkRC = info[m].nlinkRC
                              /\ info'[m].transferred = info[m].transferred
           /\ \A m \in Names \ {fwd[reg[n].newIno]} : info'[m].state = info[m].state
           /\ fwd[reg[n].newIno] = NoName => info' = info
           /\ \A k \in Keys : rev'[k] = rev[k] \/ rev'[k] = NoName
<1> DEFINE h == fwd[reg[n].newIno]
           g == reg[n].info
<1>1. /\ pc[n] = "dropgroup" /\ CanWrite /\ nFinished' = nFinished + 1 /\ Goto(n, "done")
      /\ UNCHANGED <<source, dst, data, reg, fwd, rinfo, lock, filesSeen, failed>>
      /\ \/ h = NoName /\ info' = info /\ rev' = rev
         \/ /\ h # NoName
            /\ info' = [info EXCEPT ![g].lock = n, ![h].state = "freed"]
            /\ rev' = [rev EXCEPT ![SrcIno(n)] = NoName]
  BY Zenon DEF DropGroup, DropForeign, At, tables
<1> HIDE DEF h, g
<1>2. "done" \in Places
  BY DEF Places
<1>3. pc' \in [Names -> Places] /\ Moves(n) /\ pc'[n] = "done"
  BY <1>1, <1>2, SamePlace
<1>4. /\ info' \in [Names -> InfoType]
      /\ \A m \in Names : /\ info'[m].links = info[m].links
                         /\ info'[m].nlinkRC = info[m].nlinkRC
                         /\ info'[m].transferred = info[m].transferred
      /\ \A m \in Names \ {h} : info'[m].state = info[m].state
  <2>1. CASE info' = info
    BY <2>1 DEF Types
  <2>2. CASE info' = [info EXCEPT ![g].lock = n, ![h].state = "freed"]
    <3>1. info = [m \in Names |-> info[m]] /\ \A m \in Names : info[m] \in InfoType
      BY DEF Types
    <3>2. \A m \in Names : IsInfo(info[m])
      BY <3>1 DEF InfoType, IsInfo
    <3>3. LockedAndFreed(n, g, h)
      BY <2>2, <3>1, <3>2, LockedFreed
    <3>4. ASSUME NEW m \in Names PROVE info'[m] \in InfoType
      <4> DEFINE x == info[m]
                 y == info'[m]
      <4>1. /\ IsInfo(y) /\ y.destInode = x.destInode /\ y.transferred = x.transferred
            /\ y.nlinkRC = x.nlinkRC /\ y.links = x.links
            /\ y.state = "freed" \/ y.state = x.state
            /\ y.lock = n \/ y.lock = x.lock
        BY <3>3 DEF LockedAndFreed
      <4>2. x \in InfoType
        BY <3>1
      <4> HIDE DEF x, y
      <4>3. y \in InfoType
        BY <4>1, <4>2 DEF InfoType, IsInfo
      <4> QED
        BY <4>3 DEF y
    <3> QED
      BY <3>3, <3>4 DEF LockedAndFreed
  <2> QED
    BY <1>1, <2>1, <2>2
<1>5. /\ rev' \in [Keys -> Names \cup {NoName}]
      /\ \A k \in Keys : rev'[k] = rev[k] \/ rev'[k] = NoName
  BY <1>1 DEF Types
<1>6. Types'
  BY <1>1, <1>3, <1>4, <1>5 DEF Types, lock
<1> QED
  BY <1>1, <1>3, <1>4, <1>5, <1>6 DEF lock, h

\* Who is at a group's entry has found one.
Led == \A n \in Names : pc[n] \in {"link", "dropinfo", "transfer", "linking"} =>
                            reg[n].info \in Names

NameStep(n) ==
    \/ Stat(n) \/ StatFails(n) \/ Register(n) \/ SendJob(n) \/ GiveUp(n) \/ NoJob(n)
    \/ Finish(n) \/ FinishFails(n) \/ HandleTransfer(n)

LEMMA LedStep == ASSUME Types, Led, NEW n \in Names, NameStep(n) PROVE Types' /\ Led'
<1>1. CASE Stat(n)
  BY <1>1, StatDoes DEF Led, Moves
<1>2. CASE StatFails(n) \/ Reroll(n) \/ Promote(n) \/ EndRegister(n)
  BY <1>2, PlainDoes DEF Led, Moves
<1>3. CASE Lookup(n)
  <2>1. fwd[SrcIno(n)] \in Names \cup {NoName}
    BY IsKeys DEF Types
  <2> QED
    BY <1>3, <2>1, LookupDoes DEF Led, Moves
<1>4. CASE Create(n)
  BY <1>4, CreateDoes DEF Led, Moves
<1>5. CASE Queue(n)
  <2>1. reg[n].info \in Names
    BY <1>5 DEF Led, Queue, At
  <2> QED
    BY <1>5, <2>1, QueueDoes DEF Led, Moves
<1>6. CASE Relink(n)
  <2>1. reg[n].info \in Names
    BY <1>6 DEF Led, Relink, At
  <2> QED
    BY <1>6, <2>1, RelinkDoes DEF Led, Moves
<1>7. CASE RelinkFails(n)
  <2>1. reg[n].info \in Names
    BY <1>7 DEF Led, RelinkFails, At
  <2> QED
    BY <1>7, <2>1, RelinkFailsDoes DEF Led, Moves
<1>8. CASE DropInfo(n)
  BY <1>8, DropInfoDoes DEF Led, Moves
<1>9. CASE NewRev(n)
  BY <1>9, NewRevDoes DEF Led, Moves
<1>10. CASE LookAgain(n)
  BY <1>10, LookAgainDoes DEF Led, Moves
<1>11. CASE CountRev(n) \/ LastRev(n)
  BY <1>11, CountDoes DEF Led, Moves
<1>12. CASE DropRev(n)
  BY <1>12, DropRevDoes DEF Led, Moves
<1>13. CASE SendJob(n) \/ GiveUp(n) \/ NoJob(n)
  BY <1>13, DecideDoes DEF Led, Moves
<1>14. CASE Finish(n)
  BY <1>14, FinishDoes DEF Led, Moves
<1>15. CASE FinishFails(n)
  BY <1>15, FinishFailsDoes DEF Led, Moves
<1>16. CASE Handle(n)
  <2>1. fwd[SrcIno(n)] \in Names \cup {NoName}
    BY IsKeys DEF Types
  <2> QED
    BY <1>16, <2>1, HandleDoes DEF Led, Moves
<1>17. CASE Transfer(n)
  <2>1. reg[n].info \in Names
    BY <1>17 DEF Led, Transfer, At
  <2> QED
    BY <1>17, <2>1, TransferDoes DEF Led, Moves
<1>18. CASE LinkPending(n)
  <2>1. reg[n].info \in Names
    BY <1>18 DEF Led, LinkPending, At
  <2> QED
    BY <1>18, <2>1, LinkPendingDoes DEF Led
<1>19. CASE EndTransfer(n)
  <2>1. reg[n].info \in Names
    BY <1>19 DEF Led, EndTransfer, At
  <2> QED
    BY <1>19, <2>1, EndTransferDoes DEF Led, Moves
<1>20. CASE DropGroup(n) \/ DropForeign(n)
  BY <1>20, DropGroupDoes DEF Led, Moves
<1> QED
  BY <1>1, <1>2, <1>3, <1>4, <1>5, <1>6, <1>7, <1>8, <1>9, <1>10, <1>11, <1>12, <1>13, <1>14,
     <1>15, <1>16, <1>17, <1>18, <1>19, <1>20, Zenon DEF NameStep, Register, HandleTransfer

-----------------------------------------------------------------------------
(***************************************************************************)
(* What a name knows of itself while it is registered and copied.          *)
(***************************************************************************)
Early(n) == pc[n] \in {"stat", "lookup", "create"}

\* What a registration and a job know of their name.
Sure(n) ==
    /\ pc[n] \in {"lookup", "create"} =>
          reg[n].ino = dst[n] /\ (reg[n].orig = FALSE => dst[n] # NoInode)
    /\ pc[n] = "create" => reg[n].should = reg[n].orig
    /\ pc[n] \in {"lookup", "create", "link", "dropinfo"} => reg[n].first = FALSE
    /\ /\ pc[n] \in {"dest", "newrev", "droprev", "decide", "job"}
       /\ reg[n].first = TRUE /\ reg[n].should = FALSE
       => dst[n] # NoInode
    /\ pc[n] = "job" /\ reg[n].should = FALSE => reg[n].first = TRUE
    /\ pc[n] \in {"handle", "transfer", "linking", "dropgroup"} => reg[n].newIno \in Inodes

\* Who waits for a transfer is past its look-up and no root.
Waiting == \A h, m \in Names : m \in info[h].links => ~Early(m) /\ reg[m].first = FALSE

Registering == Waiting /\ \A n \in Names : Sure(n)

LEMMA SureKept ==
    ASSUME NEW m \in Names, pc'[m] = pc[m], reg'[m] = reg[m], dst'[m] = dst[m], Sure(m)
    PROVE  Sure(m)'
  BY DEF Sure

LEMMA Booleans ==
    ASSUME Types, NEW n \in Names
    PROVE  /\ reg[n].first \in BOOLEAN /\ reg[n].should \in BOOLEAN
           /\ reg[n].orig \in BOOLEAN /\ reg[n].pending \in BOOLEAN
<1>1. reg[n] \in RegType
  BY DEF Types
<1> QED
  BY <1>1, RegFields

LEMMA WaitingFrom ==
    ASSUME Waiting, NEW n \in Names, Moves(n), Early(n)' => Early(n),
           Early(n) \/ reg'[n].first = reg[n].first,
           NEW h \in Names, NEW m \in info'[h].links, m \in Names,
           m \in info[h].links \/ (m = n /\ ~Early(n)' /\ reg'[n].first = FALSE)
    PROVE  ~Early(m)' /\ reg'[m].first = FALSE
<1>1. CASE m = n
  BY <1>1 DEF Waiting
<1>2. CASE m # n
  BY <1>2 DEF Waiting, Moves, Early
<1> QED
  BY <1>1, <1>2

LEMMA WaitingMoves ==
    ASSUME Types, Led, Registering, NEW n \in Names, NameStep(n), ~LinkPending(n)
    PROVE  /\ Moves(n) /\ (Early(n)' => Early(n)) /\ (Early(n) \/ reg'[n].first = reg[n].first)
           /\ \A h, m \in Names : m \in info'[h].links =>
                 m \in info[h].links \/ (m = n /\ ~Early(n)' /\ reg'[n].first = FALSE)
           /\ \A m \in Names \ {n} : dst'[m] = dst[m]
<1>1. CASE Stat(n)
  BY <1>1, StatDoes DEF Early
<1>2. CASE StatFails(n) \/ Reroll(n) \/ Promote(n) \/ EndRegister(n)
  BY <1>2, PlainDoes DEF Early
<1>3. CASE Lookup(n)
  BY <1>3, LookupDoes DEF Early
<1>4. CASE Create(n)
  BY <1>4, CreateDoes DEF Early
<1>5. CASE Queue(n)
  <2>1. pc[n] = "link"
    BY <1>5 DEF Queue, At
  <2>2. reg[n].info \in Names /\ reg[n].first = FALSE
    BY <2>1 DEF Led, Registering, Sure
  <2>3. /\ Moves(n) /\ dst' = dst /\ pc'[n] = "dest" /\ reg'[n].first = FALSE
        /\ \A h \in Names \ {reg[n].info} : info'[h].links = info[h].links
        /\ info'[reg[n].info].links = info[reg[n].info].links \cup {n}
    BY <1>5, <2>2, QueueDoes
  <2>4. ASSUME NEW h \in Names, NEW m \in Names, m \in info'[h].links
        PROVE  m \in info[h].links \/ m = n
    <3>1. CASE h = reg[n].info
      BY <3>1, <2>3, <2>4
    <3>2. CASE h # reg[n].info
      BY <3>2, <2>3, <2>4
    <3> QED
      BY <3>1, <3>2
  <2>5. (Early(n)' => Early(n)) /\ ~Early(n)'
    BY <2>3 DEF Early
  <2>6. reg'[n].first = reg[n].first
    BY <2>2, <2>3
  <2> QED
    BY <2>2, <2>3, <2>4, <2>5, <2>6
<1>6. CASE Relink(n)
  <2>1. reg[n].info \in Names
    BY <1>6 DEF Led, Relink, At
  <2> QED
    BY <1>6, <2>1, RelinkDoes DEF Early
<1>7. CASE RelinkFails(n)
  <2>1. reg[n].info \in Names
    BY <1>7 DEF Led, RelinkFails, At
  <2> QED
    BY <1>7, <2>1, RelinkFailsDoes DEF Early
<1>8. CASE DropInfo(n)
  BY <1>8, DropInfoDoes DEF Early
<1>9. CASE NewRev(n)
  BY <1>9, NewRevDoes DEF Early
<1>10. CASE LookAgain(n)
  BY <1>10, LookAgainDoes DEF Early
<1>11. CASE CountRev(n) \/ LastRev(n)
  BY <1>11, CountDoes DEF Early
<1>12. CASE DropRev(n)
  BY <1>12, DropRevDoes DEF Early
<1>13. CASE SendJob(n) \/ GiveUp(n) \/ NoJob(n)
  BY <1>13, DecideDoes DEF Early
<1>14. CASE Finish(n)
  BY <1>14, FinishDoes DEF Early
<1>15. CASE FinishFails(n)
  BY <1>15, FinishFailsDoes DEF Early
<1>16. CASE Handle(n)
  BY <1>16, HandleDoes DEF Early
<1>17. CASE Transfer(n)
  <2>1. reg[n].info \in Names
    BY <1>17 DEF Led, Transfer, At
  <2> QED
    BY <1>17, <2>1, TransferDoes DEF Early
<1>18. CASE LinkPending(n)
  <2>1. reg[n].info \in Names
    BY <1>18 DEF Led, LinkPending, At
  <2> QED
    BY <1>18, <2>1, LinkPendingDoes DEF Early
<1>19. CASE EndTransfer(n)
  <2>1. reg[n].info \in Names
    BY <1>19 DEF Led, EndTransfer, At
  <2> QED
    BY <1>19, <2>1, EndTransferDoes DEF Early
<1>20. CASE DropGroup(n) \/ DropForeign(n)
  BY <1>20, DropGroupDoes DEF Early
<1> QED
  BY <1>1, <1>2, <1>3, <1>4, <1>5, <1>6, <1>7, <1>8, <1>9, <1>10, <1>11, <1>12, <1>13,
     <1>14, <1>15, <1>16, <1>17, <1>18, <1>19, <1>20, Zenon
     DEF NameStep, Register, HandleTransfer

LEMMA SureStep ==
    ASSUME Types, Led, Registering, NEW n \in Names, NameStep(n), ~LinkPending(n)
    PROVE  Sure(n)'
<1>1. Sure(n)
  BY DEF Registering
<1>2. CASE Stat(n)
  BY <1>2, <1>1, Booleans, StatDoes DEF Registering, Sure, SameFile
<1>3. CASE StatFails(n) \/ Reroll(n) \/ Promote(n) \/ EndRegister(n)
  BY <1>3, <1>1, Booleans, PlainDoes DEF Registering, Sure, SameFile
<1>4. CASE Lookup(n)
  BY <1>4, <1>1, Booleans, LookupDoes DEF Registering, Sure, SameFile
<1>5. CASE Create(n)
  BY <1>5, <1>1, Booleans, CreateDoes DEF Registering, Sure, SameFile
<1>6. CASE Queue(n)
  <2>1. reg[n].info \in Names
    BY <1>6 DEF Led, Queue, At
  <2> QED
    BY <1>6, <1>1, Booleans, <2>1, QueueDoes DEF Registering, Sure, SameFile
<1>7. CASE Relink(n)
  <2>1. reg[n].info \in Names
    BY <1>7 DEF Led, Relink, At
  <2> QED
    BY <1>7, <1>1, Booleans, <2>1, RelinkDoes DEF Registering, Sure, SameFile
<1>8. CASE RelinkFails(n)
  <2>1. reg[n].info \in Names
    BY <1>8 DEF Led, RelinkFails, At
  <2> QED
    BY <1>8, <1>1, Booleans, <2>1, RelinkFailsDoes DEF Registering, Sure, SameFile
<1>9. CASE DropInfo(n)
  BY <1>9, <1>1, Booleans, DropInfoDoes DEF Registering, Sure, SameFile
<1>10. CASE NewRev(n)
  BY <1>10, <1>1, Booleans, NewRevDoes DEF Registering, Sure, SameFile
<1>11. CASE LookAgain(n)
  BY <1>11, <1>1, Booleans, LookAgainDoes DEF Registering, Sure, SameFile
<1>12. CASE CountRev(n) \/ LastRev(n)
  BY <1>12, <1>1, Booleans, CountDoes DEF Registering, Sure, SameFile
<1>13. CASE DropRev(n)
  BY <1>13, <1>1, Booleans, DropRevDoes DEF Registering, Sure, SameFile
<1>14. CASE SendJob(n) \/ GiveUp(n) \/ NoJob(n)
  BY <1>14, <1>1, Booleans, DecideDoes DEF Registering, Sure, SameFile
<1>15. CASE Finish(n)
  <2>1. pc[n] = "job" /\ pc'[n] \in {"handle", "done"}
    BY <1>15, FinishDoes
  <2>2. Final(n) \in Inodes
    <3>1. CASE reg[n].should
      BY <3>1 DEF Final, Inodes, NewInodes
    <3>2. CASE ~reg[n].should
      <4>1. dst[n] # NoInode
        BY <3>2, <2>1, <1>1, Booleans DEF Sure
      <4> QED
        BY <3>2, <4>1 DEF Final, Types
    <3> QED
      BY <3>1, <3>2
  <2>3. pc'[n] = "handle" => reg'[n].newIno = Final(n)
    BY <1>15, FinishDoes
  <2> QED
    BY <2>1, <2>2, <2>3 DEF Sure
<1>16. CASE FinishFails(n)
  BY <1>16, <1>1, Booleans, FinishFailsDoes DEF Registering, Sure, SameFile
<1>17. CASE Handle(n)
  BY <1>17, <1>1, Booleans, HandleDoes DEF Registering, Sure, SameFile
<1>18. CASE Transfer(n)
  <2>1. reg[n].info \in Names
    BY <1>18 DEF Led, Transfer, At
  <2> QED
    BY <1>18, <1>1, Booleans, <2>1, TransferDoes DEF Registering, Sure, SameFile
<1>19. CASE LinkPending(n)
  <2>1. reg[n].info \in Names
    BY <1>19 DEF Led, LinkPending, At
  <2> QED
    BY <1>19, <1>1, Booleans, <2>1, LinkPendingDoes DEF Registering, Sure, SameFile
<1>20. CASE EndTransfer(n)
  <2>1. reg[n].info \in Names
    BY <1>20 DEF Led, EndTransfer, At
  <2> QED
    BY <1>20, <1>1, Booleans, <2>1, EndTransferDoes DEF Registering, Sure, SameFile
<1>21. CASE DropGroup(n) \/ DropForeign(n)
  BY <1>21, <1>1, Booleans, DropGroupDoes DEF Registering, Sure, SameFile
<1> QED
  BY <1>2, <1>3, <1>4, <1>5, <1>6, <1>7, <1>8, <1>9, <1>10, <1>11, <1>12, <1>13, <1>14,
     <1>15, <1>16, <1>17, <1>18, <1>19, <1>20, <1>21, Zenon
     DEF NameStep, Register, HandleTransfer

LEMMA RegisteringStep ==
    ASSUME Types, Led, Registering, NEW n \in Names, NameStep(n)
    PROVE  Registering'
<1>1. CASE ~LinkPending(n)
  <2>1. /\ Moves(n) /\ (Early(n)' => Early(n)) /\ (Early(n) \/ reg'[n].first = reg[n].first)
        /\ \A h, m \in Names : m \in info'[h].links =>
              m \in info[h].links \/ (m = n /\ ~Early(n)' /\ reg'[n].first = FALSE)
        /\ \A m \in Names \ {n} : dst'[m] = dst[m]
    BY <1>1, WaitingMoves
  <2>2. ASSUME NEW h \in Names, NEW m \in Names, m \in info'[h].links
        PROVE  ~Early(m)' /\ reg'[m].first = FALSE
    <3>1. m \in info[h].links \/ (m = n /\ ~Early(n)' /\ reg'[n].first = FALSE)
      BY <2>1, <2>2
    <3> QED
      BY <2>1, <2>2, <3>1, WaitingFrom DEF Registering
  <2>3. Waiting'
    BY <2>2 DEF Waiting, Early
  <2>4. ASSUME NEW m \in Names PROVE Sure(m)'
    <3>1. CASE m = n
      BY <1>1, <3>1, SureStep
    <3>2. CASE m # n
      BY <2>1, <3>2, SureKept DEF Registering, Moves
    <3> QED
      BY <3>1, <3>2
  <2> QED
    BY <2>3, <2>4 DEF Registering
<1>2. CASE LinkPending(n)
  <2>1. reg[n].info \in Names
    BY <1>2 DEF Led, LinkPending, At
  <2>2. /\ pc' = pc /\ reg' = reg /\ \E m \in Names : LinksOne(n, m)
        /\ \A m \in Names \ {reg[n].info} : info'[m].links = info[m].links
    BY <1>2, <2>1, LinkPendingDoes
  <2>3. PICK m \in Names : LinksOne(n, m)
    BY <2>2
  <2>4. ~Early(m) /\ reg[m].first = FALSE
    BY <2>1, <2>3 DEF Registering, Waiting, LinksOne
  <2>5. \A k \in Names \ {m} : dst'[k] = dst[k]
    BY <2>3 DEF LinksOne, Types
  <2>6. \A h \in Names : info'[h].links \subseteq info[h].links
    BY <2>2, <2>3 DEF LinksOne
  <2>7. Waiting'
    BY <2>2, <2>6 DEF Registering, Waiting, Early
  <2>8. ASSUME NEW k \in Names PROVE Sure(k)'
    <3>1. CASE k # m
      BY <2>2, <2>5, <3>1, SureKept DEF Registering
    <3>2. CASE k = m
      BY <2>2, <2>4, <3>2 DEF Registering, Sure, Early
    <3> QED
      BY <3>1, <3>2
  <2> QED
    BY <2>7, <2>8 DEF Registering
<1> QED
  BY <1>1, <1>2

-----------------------------------------------------------------------------
(***************************************************************************)
(* The entries of the forward table.                                       *)
(***************************************************************************)
\* Who has a group's entry in hand keeps the lock, and its entry is live.
InHand == \A n \in Names : pc[n] \in {"link", "transfer", "linking"} =>
              n \in readers /\ info[reg[n].info].state = "live"

\* What the forward table leads to is live, and has the inode it is found by.
TableLive == \A k \in Keys : fwd[k] # NoName =>
                 info[fwd[k]].state = "live" /\ SrcIno(fwd[k]) = k

LEMMA HandMoves ==
    ASSUME Types, Led,
           NEW n \in Names, NameStep(n)
    PROVE  /\ UNCHANGED source /\ \A m \in Names \ {n} : pc'[m] = pc[m] /\ reg'[m] = reg[m]
           /\ \A m \in Names \ {n} : m \in readers => m \in readers'
           /\ pc'[n] \in {"link", "transfer", "linking"} =>
                 \/ /\ n \in readers' /\ fwd[SrcIno(n)] # NoName /\ info' = info
                    /\ reg'[n].info = fwd[SrcIno(n)]
                 \/ /\ pc[n] \in {"link", "transfer", "linking"} /\ reg'[n].info = reg[n].info
                    /\ readers' = readers
<1>1. CASE Stat(n)
  BY <1>1, StatDoes DEF Moves, Unlocked, lock
<1>2. CASE StatFails(n) \/ Reroll(n) \/ Promote(n) \/ EndRegister(n)
  BY <1>2, PlainDoes DEF Moves, Unlocked, lock
<1>3. CASE Lookup(n)
  BY <1>3, LookupDoes DEF Moves, Unlocked, lock
<1>4. CASE Create(n)
  BY <1>4, CreateDoes DEF Moves, Unlocked, lock
<1>5. CASE Queue(n)
  <2>1. reg[n].info \in Names
    BY <1>5 DEF Led, Queue, At
  <2> QED
    BY <1>5, <2>1, QueueDoes DEF Moves, Unlocked, lock
<1>6. CASE Relink(n)
  <2>1. reg[n].info \in Names
    BY <1>6 DEF Led, Relink, At
  <2> QED
    BY <1>6, <2>1, RelinkDoes DEF Moves, Unlocked, lock
<1>7. CASE RelinkFails(n)
  <2>1. reg[n].info \in Names
    BY <1>7 DEF Led, RelinkFails, At
  <2> QED
    BY <1>7, <2>1, RelinkFailsDoes DEF Moves, Unlocked, lock
<1>8. CASE DropInfo(n)
  BY <1>8, DropInfoDoes DEF Moves, Unlocked, lock
<1>9. CASE NewRev(n)
  BY <1>9, NewRevDoes DEF Moves, Unlocked, lock
<1>10. CASE LookAgain(n)
  BY <1>10, LookAgainDoes DEF Moves, Unlocked, lock
<1>11. CASE CountRev(n) \/ LastRev(n)
  BY <1>11, CountDoes DEF Moves, Unlocked, lock
<1>12. CASE DropRev(n)
  BY <1>12, DropRevDoes DEF Moves, Unlocked, lock
<1>13. CASE SendJob(n) \/ GiveUp(n) \/ NoJob(n)
  BY <1>13, DecideDoes DEF Moves, Unlocked, lock
<1>14. CASE Finish(n)
  BY <1>14, FinishDoes DEF Moves, Unlocked, lock
<1>15. CASE FinishFails(n)
  BY <1>15, FinishFailsDoes DEF Moves, Unlocked, lock
<1>16. CASE Handle(n)
  BY <1>16, HandleDoes DEF Moves, Unlocked, lock
<1>17. CASE Transfer(n)
  <2>1. reg[n].info \in Names
    BY <1>17 DEF Led, Transfer, At
  <2> QED
    BY <1>17, <2>1, TransferDoes DEF Moves, Unlocked, lock
<1>18. CASE LinkPending(n)
  <2>1. reg[n].info \in Names
    BY <1>18 DEF Led, LinkPending, At
  <2> QED
    BY <1>18, <2>1, LinkPendingDoes DEF Moves, Unlocked, lock
<1>19. CASE EndTransfer(n)
  <2>1. reg[n].info \in Names
    BY <1>19 DEF Led, EndTransfer, At
  <2> QED
    BY <1>19, <2>1, EndTransferDoes DEF Moves, Unlocked, lock
<1>20. CASE DropGroup(n) \/ DropForeign(n)
  BY <1>20, DropGroupDoes DEF Moves, Unlocked, lock
<1> QED
  BY <1>1, <1>2, <1>3, <1>4, <1>5, <1>6, <1>7, <1>8, <1>9, <1>10, <1>11, <1>12, <1>13,
     <1>14, <1>15, <1>16, <1>17, <1>18, <1>19, <1>20, Zenon
     DEF NameStep, Register, HandleTransfer

LEMMA FreesBy ==
    ASSUME Types, Led,
           NEW n \in Names, NameStep(n)
    PROVE  \/ Create(n) \/ DropInfo(n) \/ DropGroup(n) \/ DropForeign(n)
           \/ fwd' = fwd /\ \A m \in Names : info'[m].state = info[m].state
<1>1. CASE Stat(n)
  BY <1>1, StatDoes
<1>2. CASE StatFails(n) \/ Reroll(n) \/ Promote(n) \/ EndRegister(n)
  BY <1>2, PlainDoes
<1>3. CASE Lookup(n)
  BY <1>3, LookupDoes
<1>4. CASE Create(n)
  BY <1>4, CreateDoes
<1>5. CASE Queue(n)
  <2>1. reg[n].info \in Names
    BY <1>5 DEF Led, Queue, At
  <2> QED
    BY <1>5, <2>1, QueueDoes
<1>6. CASE Relink(n)
  <2>1. reg[n].info \in Names
    BY <1>6 DEF Led, Relink, At
  <2> QED
    BY <1>6, <2>1, RelinkDoes
<1>7. CASE RelinkFails(n)
  <2>1. reg[n].info \in Names
    BY <1>7 DEF Led, RelinkFails, At
  <2> QED
    BY <1>7, <2>1, RelinkFailsDoes
<1>8. CASE DropInfo(n)
  BY <1>8, DropInfoDoes
<1>9. CASE NewRev(n)
  BY <1>9, NewRevDoes
<1>10. CASE LookAgain(n)
  BY <1>10, LookAgainDoes
<1>11. CASE CountRev(n) \/ LastRev(n)
  BY <1>11, CountDoes
<1>12. CASE DropRev(n)
  BY <1>12, DropRevDoes
<1>13. CASE SendJob(n) \/ GiveUp(n) \/ NoJob(n)
  BY <1>13, DecideDoes
<1>14. CASE Finish(n)
  BY <1>14, FinishDoes
<1>15. CASE FinishFails(n)
  BY <1>15, FinishFailsDoes
<1>16. CASE Handle(n)
  BY <1>16, HandleDoes
<1>17. CASE Transfer(n)
  <2>1. reg[n].info \in Names
    BY <1>17 DEF Led, Transfer, At
  <2> QED
    BY <1>17, <2>1, TransferDoes
<1>18. CASE LinkPending(n)
  <2>1. reg[n].info \in Names
    BY <1>18 DEF Led, LinkPending, At
  <2> QED
    BY <1>18, <2>1, LinkPendingDoes
<1>19. CASE EndTransfer(n)
  <2>1. reg[n].info \in Names
    BY <1>19 DEF Led, EndTransfer, At
  <2> QED
    BY <1>19, <2>1, EndTransferDoes
<1>20. CASE DropGroup(n) \/ DropForeign(n)
  BY <1>20, DropGroupDoes
<1> QED
  BY <1>1, <1>2, <1>3, <1>4, <1>5, <1>6, <1>7, <1>8, <1>9, <1>10, <1>11, <1>12, <1>13,
     <1>14, <1>15, <1>16, <1>17, <1>18, <1>19, <1>20, Zenon
     DEF NameStep, Register, HandleTransfer

\* Only a writer frees an entry, and no name is at an entry then.
LEMMA Frees ==
    ASSUME Types, Led, NEW n \in Names, NameStep(n), ~CanWrite
    PROVE  fwd' = fwd /\ \A m \in Names : info'[m].state = info[m].state
  BY FreesBy, CreateDoes, DropInfoDoes, DropGroupDoes

LEMMA InHandStep ==
    ASSUME Types, Led, InHand, TableLive, NEW n \in Names, NameStep(n)
    PROVE  InHand'
<1> DEFINE H == {"link", "transfer", "linking"}
<1> SUFFICES ASSUME NEW m \in Names, pc'[m] \in H
             PROVE  m \in readers' /\ info'[reg'[m].info].state = "live"
  BY DEF InHand
<1>1. /\ \A k \in Names \ {n} : pc'[k] = pc[k] /\ reg'[k] = reg[k]
      /\ \A k \in Names \ {n} : k \in readers => k \in readers'
      /\ pc'[n] \in H =>
            \/ /\ n \in readers' /\ fwd[SrcIno(n)] # NoName /\ info' = info
               /\ reg'[n].info = fwd[SrcIno(n)]
            \/ /\ pc[n] \in H /\ reg'[n].info = reg[n].info
               /\ readers' = readers
  BY HandMoves
<1>2. CASE /\ m = n /\ fwd[SrcIno(n)] # NoName /\ info' = info
           /\ n \in readers' /\ reg'[n].info = fwd[SrcIno(n)]
  <2>1. info[fwd[SrcIno(n)]].state = "live"
    BY <1>2, IsKeys DEF TableLive
  <2> QED
    BY <1>2, <2>1
<1>3. CASE pc[m] \in H /\ reg'[m].info = reg[m].info /\ (m \in readers => m \in readers')
  <2>1. m \in readers /\ info[reg[m].info].state = "live" /\ reg[m].info \in Names
    BY <1>3 DEF InHand, Led
  <2>2. ~CanWrite
    BY <2>1 DEF CanWrite
  <2>3. info'[reg[m].info].state = info[reg[m].info].state
    BY <2>1, <2>2, Frees
  <2> QED
    BY <1>3, <2>1, <2>3
<1> QED
  BY <1>1, <1>2, <1>3

\* The inode of a name's new file leads to no group: no file of the source has it.
LEMMA NoForeign ==
    ASSUME Types, Registering, Apart, TableLive, NEW n \in Names, pc[n] = "dropgroup"
    PROVE  fwd[reg[n].newIno] = NoName
<1>1. reg[n].newIno \in Inodes
  BY DEF Registering, Sure
<1>2. reg[n].newIno \in Keys
  BY <1>1 DEF Keys
<1>3. fwd[reg[n].newIno] \in Names \cup {NoName}
  BY <1>2 DEF Types
<1> QED
  BY <1>1, <1>2, <1>3 DEF TableLive, Apart

LEMMA TableLiveStep ==
    ASSUME Types, Led, Registering, Apart, TableLive, NEW n \in Names, NameStep(n)
    PROVE  TableLive'
<1>0. UNCHANGED source
  BY HandMoves
<1> SUFFICES ASSUME NEW k \in Keys, fwd'[k] # NoName
             PROVE  info'[fwd'[k]].state = "live" /\ SrcIno(fwd'[k]) = k
  BY <1>0 DEF TableLive, SrcIno
<1>1. fwd[k] \in Names \cup {NoName} /\ SrcIno(n) \in Keys
  BY IsKeys DEF Types
<1>2. CASE Create(n)
  <2>1. /\ fwd' = [fwd EXCEPT ![SrcIno(n)] = n] /\ fwd[SrcIno(n)] = NoName
        /\ info'[n].state = "live" /\ \A m \in Names \ {n} : info'[m] = info[m]
    BY <1>2, CreateDoes
  <2>2. CASE k = SrcIno(n)
    BY <1>1, <2>1, <2>2 DEF Types
  <2>3. CASE k # SrcIno(n)
    <3>1. fwd'[k] = fwd[k]
      BY <2>1, <2>3 DEF Types
    <3>2. info[fwd[k]].state = "live" /\ SrcIno(fwd[k]) = k
      BY <3>1 DEF TableLive
    <3>3. fwd[k] # n
      BY <2>3, <3>2
    <3> QED
      BY <1>1, <2>1, <3>1, <3>2, <3>3
  <2> QED
    BY <2>2, <2>3
<1>3. CASE DropInfo(n)
  <2>1. /\ fwd' = [fwd EXCEPT ![SrcIno(n)] = NoName]
        /\ \A m \in Names \ {fwd[SrcIno(n)]} : info'[m].state = info[m].state
    BY <1>3, DropInfoDoes
  <2>2. k # SrcIno(n) /\ fwd'[k] = fwd[k]
    BY <1>1, <2>1 DEF Types
  <2>3. info[fwd[k]].state = "live" /\ SrcIno(fwd[k]) = k
    BY <2>2 DEF TableLive
  <2>4. fwd[k] # fwd[SrcIno(n)]
    <3>1. CASE fwd[SrcIno(n)] = NoName
      BY <2>2, <3>1
    <3>2. CASE fwd[SrcIno(n)] # NoName
      <4>1. SrcIno(fwd[SrcIno(n)]) = SrcIno(n)
        BY <1>1, <3>2 DEF TableLive
      <4> QED
        BY <2>2, <2>3, <4>1
    <3> QED
      BY <3>1, <3>2
  <2> QED
    BY <1>1, <2>1, <2>2, <2>3, <2>4
<1>4. CASE DropGroup(n) \/ DropForeign(n)
  <2>1. fwd' = fwd /\ info' = info
    BY <1>4, NoForeign, DropGroupDoes
  <2> QED
    BY <1>1, <2>1 DEF TableLive
<1>5. CASE fwd' = fwd /\ \A m \in Names : info'[m].state = info[m].state
  BY <1>1, <1>5 DEF TableLive
<1> QED
  BY <1>2, <1>3, <1>4, <1>5, FreesBy

-----------------------------------------------------------------------------
(***************************************************************************)
(* The entries of the rev table.  Under Apart a name finds one only by its own *)
(* inode on the destination, so those that can count it down are among the *)
(* links its maker counted; the maker does not, so the count stays above zero. *)
(***************************************************************************)
\* The names that may still look an inode up, and those that may still count an
\* HLinkInfoRev down.
EarlyAt(i) == {m \in Names : Early(m) /\ dst[m] = i}

Registers(n) == pc[n] \in {"create", "link", "dropinfo", "dest"}

Left(r) == {m \in Names : \/ Early(m) /\ dst[m] # NoInode /\ rev[dst[m]] = r
                          \/ Registers(m) /\ reg[m].rev = r}

\* What leads to an HLinkInfoRev leads to a live one, that of an inode of the destination.
RevLive ==
    /\ \A k \in Keys : rev[k] # NoName => k \in Inodes /\ rinfo[rev[k]].state = "live"
    /\ \A n \in Names : reg[n].rev # NoName => rinfo[reg[n].rev].state = "live"

\* A name makes its HLinkInfoRev at the end of its registration, and none is freed.
Before(n) == Early(n) \/ Registers(n) \/ pc[n] = "newrev"

RevMade == \A n \in Names : /\ Before(n) => rinfo[n].state = "none"
                            /\ pc[n] # "droprev" /\ rinfo[n].state # "freed"

\* The links that a name found are enough for all who may look its inode up and for
\* itself, and the count of an HLinkInfoRev for all who may count it down and one more.
LinksEnough == \A n \in Names : Before(n) /\ pc[n] # "stat" /\ Exists(n) =>
                   reg[n].links >= Cardinality(EarlyAt(reg[n].ino) \cup {n})

CountEnough == \A r \in Names : rinfo[r].state = "live" => rinfo[r].nlinkRC > Cardinality(Left(r))

Revs == RevLive /\ RevMade /\ LinksEnough /\ CountEnough

LEMMA OwnPlace ==
    ASSUME Types, Led,
           NEW n \in Names, NameStep(n)
    PROVE  Early(n)' => dst'[n] = dst[n]
<1>1. CASE Stat(n)
  BY <1>1, StatDoes DEF Early
<1>2. CASE StatFails(n) \/ Reroll(n) \/ Promote(n) \/ EndRegister(n)
  BY <1>2, PlainDoes DEF Early
<1>3. CASE Lookup(n)
  BY <1>3, LookupDoes DEF Early
<1>4. CASE Create(n)
  BY <1>4, CreateDoes DEF Early
<1>5. CASE Queue(n)
  <2>1. reg[n].info \in Names
    BY <1>5 DEF Led, Queue, At
  <2> QED
    BY <1>5, <2>1, QueueDoes DEF Early
<1>6. CASE Relink(n)
  <2>1. reg[n].info \in Names
    BY <1>6 DEF Led, Relink, At
  <2> QED
    BY <1>6, <2>1, RelinkDoes DEF Early
<1>7. CASE RelinkFails(n)
  <2>1. reg[n].info \in Names
    BY <1>7 DEF Led, RelinkFails, At
  <2> QED
    BY <1>7, <2>1, RelinkFailsDoes DEF Early
<1>8. CASE DropInfo(n)
  BY <1>8, DropInfoDoes DEF Early
<1>9. CASE NewRev(n)
  BY <1>9, NewRevDoes DEF Early
<1>10. CASE LookAgain(n)
  BY <1>10, LookAgainDoes DEF Early
<1>11. CASE CountRev(n) \/ LastRev(n)
  BY <1>11, CountDoes DEF Early
<1>12. CASE DropRev(n)
  BY <1>12, DropRevDoes DEF Early
<1>13. CASE SendJob(n) \/ GiveUp(n) \/ NoJob(n)
  BY <1>13, DecideDoes DEF Early
<1>14. CASE Finish(n)
  BY <1>14, FinishDoes DEF Early
<1>15. CASE FinishFails(n)
  BY <1>15, FinishFailsDoes DEF Early
<1>16. CASE Handle(n)
  BY <1>16, HandleDoes DEF Early
<1>17. CASE Transfer(n)
  <2>1. reg[n].info \in Names
    BY <1>17 DEF Led, Transfer, At
  <2> QED
    BY <1>17, <2>1, TransferDoes DEF Early
<1>18. CASE LinkPending(n)
  <2>1. reg[n].info \in Names
    BY <1>18 DEF Led, LinkPending, At
  <2> QED
    BY <1>18, <2>1, LinkPendingDoes DEF Early
<1>19. CASE EndTransfer(n)
  <2>1. reg[n].info \in Names
    BY <1>19 DEF Led, EndTransfer, At
  <2> QED
    BY <1>19, <2>1, EndTransferDoes DEF Early
<1>20. CASE DropGroup(n) \/ DropForeign(n)
  BY <1>20, DropGroupDoes DEF Early
<1> QED
  BY <1>1, <1>2, <1>3, <1>4, <1>5, <1>6, <1>7, <1>8, <1>9, <1>10, <1>11, <1>12, <1>13,
     <1>14, <1>15, <1>16, <1>17, <1>18, <1>19, <1>20, Zenon
     DEF NameStep, Register, HandleTransfer

LEMMA EarlyKept ==
    ASSUME Types, Led, Registering, NEW n \in Names, NameStep(n)
    PROVE  \A m \in Names : Early(m)' => Early(m) /\ dst'[m] = dst[m]
<1>1. CASE ~LinkPending(n)
  <2>1. /\ Moves(n) /\ (Early(n)' => Early(n)) /\ \A m \in Names \ {n} : dst'[m] = dst[m]
    BY <1>1, WaitingMoves
  <2>2. Early(n)' => dst'[n] = dst[n]
    BY OwnPlace
  <2> QED
    BY <2>1, <2>2 DEF Moves, Early
<1>2. CASE LinkPending(n)
  <2>1. reg[n].info \in Names
    BY <1>2 DEF Led, LinkPending, At
  <2>2. pc' = pc /\ \E m \in Names : LinksOne(n, m)
    BY <1>2, <2>1, LinkPendingDoes
  <2>3. PICK m \in Names : LinksOne(n, m)
    BY <2>2
  <2>4. ~Early(m)
    BY <2>1, <2>3 DEF Registering, Waiting, LinksOne
  <2>5. \A k \in Names \ {m} : dst'[k] = dst[k]
    BY <2>3 DEF LinksOne, Types
  <2> QED
    BY <2>2, <2>4, <2>5 DEF Early
<1> QED
  BY <1>1, <1>2

LEMMA RevMoves ==
    ASSUME Types, Led, Registering, NEW n \in Names, NameStep(n), ~NewRev(n), ~DropRev(n)
    PROVE  /\ \A k \in Keys : rev'[k] = rev[k] \/ rev'[k] = NoName
           /\ UNCHANGED source /\ Moves(n)
           /\ \A m \in Names : rinfo'[m].state = rinfo[m].state
           /\ rinfo' = rinfo \/ CountRev(n) \/ LastRev(n)
           /\ \/ reg'[n].rev \in {reg[n].rev, NoName}
              \/ pc[n] = "lookup" /\ reg'[n].rev = RevOf(n)
              \/ pc[n] = "newrev" /\ reg'[n].rev = rev[SrcIno(n)]
           /\ Registers(n)' =>
                 \/ Registers(n) /\ reg'[n].rev = reg[n].rev
                 \/ pc[n] = "lookup" /\ reg'[n].rev = RevOf(n)
                 \/ pc[n] = "newrev" /\ reg'[n].rev = rev[SrcIno(n)]
           /\ Before(n)' => /\ Before(n)
                            /\ pc[n] # "stat" =>
                                  reg'[n].ino = reg[n].ino /\ reg'[n].links = reg[n].links
           /\ pc[n] = "stat" /\ Before(n)' /\ pc'[n] # "stat" =>
                 reg'[n].ino = dst[n] /\ reg'[n].links = Linked(dst[n])
           /\ pc'[n] = "droprev" =>
                 \/ pc[n] = "droprev"
                 \/ (CountRev(n) \/ LastRev(n)) /\ rinfo[reg[n].rev].nlinkRC = 1
<1>1. CASE Stat(n)
  BY <1>1, StatDoes DEF Moves, SameFile, Early, Registers, Before
<1>2. CASE StatFails(n) \/ Reroll(n) \/ Promote(n) \/ EndRegister(n)
  BY <1>2, PlainDoes DEF Moves, SameFile, Early, Registers, Before
<1>3. CASE Lookup(n)
  BY <1>3, LookupDoes DEF Moves, SameFile, Early, Registers, Before
<1>4. CASE Create(n)
  BY <1>4, CreateDoes DEF Moves, SameFile, Early, Registers, Before
<1>5. CASE Queue(n)
  <2>1. reg[n].info \in Names
    BY <1>5 DEF Led, Queue, At
  <2> QED
    BY <1>5, <2>1, QueueDoes DEF Moves, SameFile, Early, Registers, Before
<1>6. CASE Relink(n)
  <2>1. reg[n].info \in Names
    BY <1>6 DEF Led, Relink, At
  <2> QED
    BY <1>6, <2>1, RelinkDoes DEF Moves, SameFile, Early, Registers, Before
<1>7. CASE RelinkFails(n)
  <2>1. reg[n].info \in Names
    BY <1>7 DEF Led, RelinkFails, At
  <2> QED
    BY <1>7, <2>1, RelinkFailsDoes DEF Moves, SameFile, Early, Registers, Before
<1>8. CASE DropInfo(n)
  BY <1>8, DropInfoDoes DEF Moves, SameFile, Early, Registers, Before
<1>9. CASE NewRev(n)
  BY <1>9, NewRevDoes DEF Moves, SameFile, Early, Registers, Before
<1>10. CASE LookAgain(n)
  BY <1>10, LookAgainDoes DEF Moves, SameFile, Early, Registers, Before
<1>11. CASE CountRev(n) \/ LastRev(n)
  BY <1>11, CountDoes DEF Moves, SameFile, Early, Registers, Before
<1>12. CASE DropRev(n)
  BY <1>12, DropRevDoes DEF Moves, SameFile, Early, Registers, Before
<1>13. CASE SendJob(n) \/ GiveUp(n) \/ NoJob(n)
  BY <1>13, DecideDoes DEF Moves, SameFile, Early, Registers, Before
<1>14. CASE Finish(n)
  BY <1>14, FinishDoes DEF Moves, SameFile, Early, Registers, Before
<1>15. CASE FinishFails(n)
  BY <1>15, FinishFailsDoes DEF Moves, SameFile, Early, Registers, Before
<1>16. CASE Handle(n)
  BY <1>16, HandleDoes DEF Moves, SameFile, Early, Registers, Before
<1>17. CASE Transfer(n)
  <2>1. reg[n].info \in Names
    BY <1>17 DEF Led, Transfer, At
  <2> QED
    BY <1>17, <2>1, TransferDoes DEF Moves, SameFile, Early, Registers, Before
<1>18. CASE LinkPending(n)
  <2>1. reg[n].info \in Names
    BY <1>18 DEF Led, LinkPending, At
  <2> QED
    BY <1>18, <2>1, LinkPendingDoes DEF Moves, SameFile, Early, Registers, Before
<1>19. CASE EndTransfer(n)
  <2>1. reg[n].info \in Names
    BY <1>19 DEF Led, EndTransfer, At
  <2> QED
    BY <1>19, <2>1, EndTransferDoes DEF Moves, SameFile, Early, Registers, Before
<1>20. CASE DropGroup(n) \/ DropForeign(n)
  BY <1>20, DropGroupDoes DEF Moves, SameFile, Early, Registers, Before
<1> QED
  BY <1>1, <1>2, <1>3, <1>4, <1>5, <1>6, <1>7, <1>8, <1>9, <1>10, <1>11, <1>12, <1>13,
     <1>14, <1>15, <1>16, <1>17, <1>18, <1>19, <1>20, Zenon
     DEF NameStep, Register, HandleTransfer

LEMMA SmallerSet ==
    ASSUME NEW S, NEW T, IsFiniteSet(T), S \subseteq T
    PROVE  /\ IsFiniteSet(S) /\ Cardinality(S) \in Nat /\ Cardinality(T) \in Nat
           /\ Cardinality(S) <= Cardinality(T)
<1>1. IsFiniteSet(S) /\ Cardinality(S) <= Cardinality(T)
  BY FS_Subset
<1> QED
  BY <1>1, FS_CardinalityType

LEMMA SetsFinite ==
    /\ \A i : IsFiniteSet(EarlyAt(i))
    /\ \A r : IsFiniteSet(Left(r))
<1>1. ASSUME NEW i PROVE EarlyAt(i) \subseteq Names
  BY DEF EarlyAt
<1>2. ASSUME NEW r PROVE Left(r) \subseteq Names
  BY DEF Left
<1> QED
  BY <1>1, <1>2, NamesAssumption, FS_Subset

\* No count has come down to its last link, so no entry is about to go.
LEMMA CountsLeft ==
    ASSUME Types, Revs, NEW n \in Names, CountRev(n) \/ LastRev(n)
    PROVE  rinfo[reg[n].rev].nlinkRC > 1
<1> DEFINE r == reg[n].rev
<1>1. pc[n] = "dest" /\ r \in Names
  BY CountDoes
<1>2. rinfo[r].state = "live"
  BY <1>1, NamesAssumption DEF Revs, RevLive
<1>3. rinfo[r].nlinkRC > Cardinality(Left(r)) /\ rinfo[r].nlinkRC \in Int
  BY <1>1, <1>2 DEF Revs, CountEnough, Types, RevType
<1>4. {n} \subseteq Left(r)
  BY <1>1 DEF Left, Registers
<1>5. /\ Cardinality({n}) <= Cardinality(Left(r))
      /\ Cardinality({n}) = 1 /\ Cardinality(Left(r)) \in Nat
  BY <1>4, SetsFinite, SmallerSet, FS_Singleton
<1> QED
  BY <1>3, <1>5

LEMMA NoDropRev ==
    ASSUME Types, Revs, NEW n \in Names
    PROVE  ~DropRev(n)
  BY DropRevDoes DEF Revs, RevMade

\* A name that is about to make an entry makes a new one.
LEMMA NewEntry ==
    ASSUME Types, Revs, NEW n \in Names, NewRev(n)
    PROVE  /\ rinfo[n].state = "none" /\ reg[n].ino \in Inodes /\ reg[n].ino \in Keys
           /\ \A k \in Keys : rev[k] # n
           /\ \A m \in Names : reg[m].rev # n
<1>1. pc[n] = "dest" /\ Unseen(n)
  BY NewRevDoes
<1>2. rinfo[n].state = "none"
  BY <1>1 DEF Revs, RevMade, Before, Registers
<1>3. reg[n].ino \in Inodes \cup {NoInode}
  BY RegFields DEF Types
<1>4. reg[n].ino \in Inodes /\ reg[n].ino \in Keys
  BY <1>1, <1>3 DEF Unseen, Exists, Keys
<1> QED
  BY <1>2, <1>4, NamesAssumption DEF Revs, RevLive

LEMMA RevLiveStep ==
    ASSUME Types, Led, Registering, Revs, NEW n \in Names, NameStep(n)
    PROVE  RevLive'
<1>1. CASE NewRev(n)
  <2>1. /\ reg' = reg /\ rev' = [rev EXCEPT ![reg[n].ino] = n] /\ rinfo'[n].state = "live"
        /\ \A m \in Names \ {n} : rinfo'[m] = rinfo[m]
    BY <1>1, NewRevDoes
  <2>2. reg[n].ino \in Inodes
    BY <1>1, NewEntry
  <2>3. ASSUME NEW k \in Keys, rev'[k] # NoName
        PROVE  k \in Inodes /\ rinfo'[rev'[k]].state = "live"
    <3>1. CASE k = reg[n].ino
      BY <2>1, <2>2, <3>1 DEF Types
    <3>2. CASE k # reg[n].ino
      <4>1. rev'[k] = rev[k] /\ rev[k] \in Names
        BY <2>1, <2>3, <3>2 DEF Types
      <4>2. k \in Inodes /\ rinfo[rev[k]].state = "live"
        BY <2>3, <4>1 DEF Revs, RevLive
      <4> QED
        BY <2>1, <4>1, <4>2
    <3> QED
      BY <3>1, <3>2
  <2>4. ASSUME NEW m \in Names, reg'[m].rev # NoName
        PROVE  rinfo'[reg'[m].rev].state = "live"
    <3>1. reg'[m].rev = reg[m].rev /\ reg[m].rev \in Names
      BY <2>1, <2>4, RegFields DEF Types
    <3>2. rinfo[reg[m].rev].state = "live"
      BY <2>4, <3>1 DEF Revs, RevLive
    <3> QED
      BY <2>1, <3>1, <3>2
  <2> QED
    BY <2>3, <2>4 DEF RevLive
<1>2. CASE ~NewRev(n)
  <2>1. /\ \A k \in Keys : rev'[k] = rev[k] \/ rev'[k] = NoName
        /\ Moves(n) /\ \A m \in Names : rinfo'[m].state = rinfo[m].state
        /\ \/ reg'[n].rev \in {reg[n].rev, NoName}
           \/ reg'[n].rev = RevOf(n)
           \/ reg'[n].rev = rev[SrcIno(n)]
    BY <1>2, NoDropRev, RevMoves
  <2>2. \A r \in Names \cup {NoName} : r # NoName => rinfo'[r].state = rinfo[r].state
    BY <2>1
  <2>3. ASSUME NEW k \in Keys, rev'[k] # NoName
        PROVE  k \in Inodes /\ rinfo'[rev'[k]].state = "live"
    <3>1. rev'[k] = rev[k] /\ rev[k] \in Names
      BY <2>1, <2>3 DEF Types
    <3> QED
      BY <2>2, <2>3, <3>1 DEF Revs, RevLive
  <2>4. \A m \in Names : reg[m].rev # NoName =>
            reg[m].rev \in Names /\ rinfo'[reg[m].rev].state = "live"
    <3>1. \A m \in Names : reg[m].rev \in Names \cup {NoName}
      BY RegFields DEF Types
    <3> QED
      BY <2>2, <3>1 DEF Revs, RevLive
  <2>5. ASSUME NEW k \in Keys, rev[k] # NoName PROVE rinfo'[rev[k]].state = "live"
    <3>1. rev[k] \in Names
      BY <2>5 DEF Types
    <3> QED
      BY <2>2, <2>5, <3>1 DEF Revs, RevLive
  <2>6. RevOf(n) # NoName => rinfo'[RevOf(n)].state = "live"
    <3>1. reg[n].ino \in Inodes \cup {NoInode}
      BY RegFields DEF Types
    <3>2. Exists(n) => reg[n].ino \in Keys
      BY <3>1, IsKeys DEF Exists
    <3> QED
      BY <2>5, <3>2 DEF RevOf
  <2>7. rev[SrcIno(n)] # NoName => rinfo'[rev[SrcIno(n)]].state = "live"
    BY <2>5, IsKeys
  <2>8. ASSUME NEW m \in Names, reg'[m].rev # NoName
        PROVE  rinfo'[reg'[m].rev].state = "live"
    <3>1. CASE m = n
      BY <2>1, <2>4, <2>6, <2>7, <2>8, <3>1
    <3>2. CASE m # n
      BY <2>1, <2>4, <2>8, <3>2 DEF Moves
    <3> QED
      BY <3>1, <3>2
  <2> QED
    BY <2>3, <2>8 DEF RevLive
<1> QED
  BY <1>1, <1>2

LEMMA RevMadeStep ==
    ASSUME Types, Led, Registering, Revs, NEW n \in Names, NameStep(n)
    PROVE  RevMade'
<1> SUFFICES ASSUME NEW m \in Names
             PROVE  /\ Before(m)' => rinfo'[m].state = "none"
                    /\ pc'[m] # "droprev" /\ rinfo'[m].state # "freed"
  BY DEF RevMade
<1>1. /\ Before(m) => rinfo[m].state = "none"
      /\ pc[m] # "droprev" /\ rinfo[m].state # "freed"
  BY DEF Revs, RevMade
<1>2. Moves(n) /\ m # n => (Before(m)' => Before(m)) /\ pc'[m] = pc[m]
  BY DEF Moves, Before, Early, Registers
<1>3. CASE NewRev(n)
  <2>1. /\ Moves(n) /\ pc'[n] = "decide" /\ rinfo'[n].state = "live"
        /\ \A k \in Names \ {n} : rinfo'[k] = rinfo[k]
    BY <1>3, NewRevDoes
  <2>2. ~Before(n)'
    BY <2>1 DEF Before, Early, Registers
  <2> QED
    BY <1>1, <1>2, <2>1, <2>2
<1>4. CASE ~NewRev(n)
  <2>1. /\ Moves(n) /\ rinfo'[m].state = rinfo[m].state /\ (Before(n)' => Before(n))
        /\ pc'[n] = "droprev" =>
              \/ pc[n] = "droprev"
              \/ (CountRev(n) \/ LastRev(n)) /\ rinfo[reg[n].rev].nlinkRC = 1
    BY <1>4, NoDropRev, RevMoves
  <2>2. ~((CountRev(n) \/ LastRev(n)) /\ rinfo[reg[n].rev].nlinkRC = 1)
    BY CountsLeft
  <2>3. pc'[n] # "droprev"
    BY <2>1, <2>2 DEF Revs, RevMade
  <2> QED
    BY <1>1, <1>2, <2>1, <2>3
<1> QED
  BY <1>3, <1>4

LEMMA LinksEnoughStep ==
    ASSUME Types, Led, Registering, Revs, NEW n \in Names, NameStep(n)
    PROVE  LinksEnough'
<1> SUFFICES ASSUME NEW m \in Names, Before(m)', pc'[m] # "stat", Exists(m)'
             PROVE  reg'[m].links >= Cardinality(EarlyAt(reg[m].ino)' \cup {m})
  BY DEF LinksEnough
<1> DEFINE i == reg'[m].ino
<1>1. Types'
  BY LedStep
<1>2. reg'[m].links \in Nat /\ i \in Inodes \cup {NoInode} /\ i # NoInode
  BY <1>1, RegFields DEF Types, Exists
<1>3. EarlyAt(reg[m].ino)' = {k \in Names : Early(k)' /\ dst'[k] = i}
  BY DEF EarlyAt
<1>4. EarlyAt(reg[m].ino)' \subseteq EarlyAt(i)
  BY <1>3, EarlyKept DEF EarlyAt
<1>5. CASE m = n /\ pc[n] = "stat"
  <2>1. i = dst[n] /\ reg'[n].links = Linked(dst[n])
    <3>1. ~NewRev(n)
      BY <1>5, NewRevDoes
    <3> QED
      BY <1>5, <3>1, NoDropRev, RevMoves
  <2> DEFINE S == {k \in Names : dst[k] = dst[n]}
  <2>2. EarlyAt(reg[m].ino)' \cup {m} \subseteq S
    BY <1>4, <1>5, <2>1 DEF EarlyAt
  <2>3. IsFiniteSet(S)
    BY NamesAssumption, FS_Subset
  <2>4. /\ Cardinality(EarlyAt(reg[m].ino)' \cup {m}) <= Cardinality(S)
        /\ Cardinality(S) \in Nat /\ Cardinality(EarlyAt(reg[m].ino)' \cup {m}) \in Nat
    BY <2>2, <2>3, SmallerSet
  <2>5. (IF dst[n] \in OldInodes THEN Extra[dst[n]] ELSE 0) \in Nat
    BY InodesAssumption
  <2>6. Linked(dst[n]) = Cardinality(S) + (IF dst[n] \in OldInodes THEN Extra[dst[n]] ELSE 0)
    BY <1>2, <2>1 DEF Linked
  <2> HIDE DEF S, i
  <2> QED
    BY <1>5, <2>1, <2>4, <2>5, <2>6
<1>6. CASE m # n \/ pc[n] # "stat"
  <2>1. /\ Before(m) /\ pc[m] # "stat" /\ Exists(m)
        /\ reg'[m].ino = reg[m].ino /\ reg'[m].links = reg[m].links
    <3>1. CASE m # n
      <4>1. Moves(n)
        BY NewRevDoes, NoDropRev, RevMoves
      <4> QED
        BY <3>1, <4>1 DEF Moves, Before, Early, Registers, Exists
    <3>2. CASE m = n
      <4>1. ~NewRev(n)
        <5>1. NewRev(n) => pc'[n] = "decide"
          BY NewRevDoes
        <5> QED
          BY <3>2, <5>1 DEF Before, Early, Registers
      <4>2. /\ Before(n)
            /\ pc[n] # "stat" => reg'[n].ino = reg[n].ino /\ reg'[n].links = reg[n].links
        BY <3>2, <4>1, NoDropRev, RevMoves
      <4> QED
        BY <1>6, <3>2, <4>2 DEF Exists
    <3> QED
      BY <3>1, <3>2
  <2>2. reg[m].links >= Cardinality(EarlyAt(i) \cup {m})
    BY <2>1 DEF Revs, LinksEnough
  <2>3. IsFiniteSet(EarlyAt(i) \cup {m})
    BY SetsFinite, FS_AddElement
  <2>4. EarlyAt(reg[m].ino)' \cup {m} \subseteq EarlyAt(i) \cup {m}
    BY <1>4
  <2>5. /\ Cardinality(EarlyAt(reg[m].ino)' \cup {m}) <= Cardinality(EarlyAt(i) \cup {m})
        /\ Cardinality(EarlyAt(i) \cup {m}) \in Nat
        /\ Cardinality(EarlyAt(reg[m].ino)' \cup {m}) \in Nat
    BY <2>3, <2>4, SmallerSet
  <2> HIDE DEF i
  <2> QED
    BY <1>2, <2>1, <2>2, <2>5
<1> QED
  BY <1>5, <1>6

LEMMA LeftByMaker ==
    ASSUME Types, Led, Registering, Revs, NEW n \in Names, NewRev(n), NameStep(n)
    PROVE  /\ Left(n)' \subseteq EarlyAt(reg[n].ino)
           /\ \A r \in Names \ {n} : Left(r)' \subseteq Left(r)
<1>1. /\ reg' = reg /\ Moves(n) /\ pc[n] = "dest" /\ pc'[n] = "decide"
      /\ rev' = [rev EXCEPT ![reg[n].ino] = n]
  BY NewRevDoes
<1>2. /\ reg[n].ino \in Keys /\ (\A k \in Keys : rev[k] # n) /\ \A m \in Names : reg[m].rev # n
  BY NewEntry
<1>3. \A m \in Names : Early(m)' => Early(m) /\ dst'[m] = dst[m]
  BY EarlyKept
<1>4. \A m \in Names : dst[m] # NoInode => dst[m] \in Keys
  BY IsKeys DEF Types
<1>5. \A m \in Names : Registers(m)' => Registers(m)
  BY <1>1 DEF Registers, Moves
<1>6. \A k \in Keys : rev'[k] = IF k = reg[n].ino THEN n ELSE rev[k]
  BY <1>1 DEF Types
<1>7. ASSUME NEW r \in Names, NEW m \in Names, Early(m)', dst'[m] # NoInode, rev'[dst'[m]] = r
      PROVE  /\ r = n => m \in EarlyAt(reg[n].ino)
             /\ r # n => m \in Left(r)
  <2>1. Early(m) /\ dst'[m] = dst[m] /\ dst[m] \in Keys /\ dst[m] # NoInode
    BY <1>3, <1>4, <1>7
  <2>2. r = n => dst[m] = reg[n].ino
    BY <1>2, <1>6, <1>7, <2>1
  <2>3. r # n => rev[dst[m]] = r
    BY <1>6, <1>7, <2>1
  <2> QED
    BY <2>1, <2>2, <2>3 DEF EarlyAt, Left
<1>8. ASSUME NEW r \in Names, NEW m \in Names, Registers(m)', reg'[m].rev = r
      PROVE  r # n /\ m \in Left(r)
  BY <1>1, <1>2, <1>5, <1>8 DEF Left
<1>9. ASSUME NEW r \in Names, NEW m \in Left(r)'
      PROVE  /\ r = n => m \in EarlyAt(reg[n].ino)
             /\ r # n => m \in Left(r)
  <2>1. /\ m \in Names
        /\ \/ Early(m)' /\ dst'[m] # NoInode /\ rev'[dst'[m]] = r
           \/ Registers(m)' /\ reg'[m].rev = r
    BY <1>9 DEF Left
  <2> QED
    BY <1>7, <1>8, <2>1
<1> QED
  BY <1>9

LEMMA LeftKept ==
    ASSUME Types, Led, Registering, Apart, Revs, NEW n \in Names, NameStep(n), ~NewRev(n)
    PROVE  \A r \in Names : Left(r)' \subseteq Left(r)
<1> SUFFICES ASSUME NEW r \in Names, NEW m \in Left(r)'
             PROVE  m \in Left(r)
  OBVIOUS
<1>1. /\ m \in Names
      /\ \/ Early(m)' /\ dst'[m] # NoInode /\ rev'[dst'[m]] = r
         \/ Registers(m)' /\ reg'[m].rev = r
  BY DEF Left
<1>2. /\ \A k \in Keys : rev'[k] = rev[k] \/ rev'[k] = NoName
      /\ Moves(n)
      /\ Registers(n)' =>
            \/ Registers(n) /\ reg'[n].rev = reg[n].rev
            \/ pc[n] = "lookup" /\ reg'[n].rev = RevOf(n)
            \/ pc[n] = "newrev" /\ reg'[n].rev = rev[SrcIno(n)]
  BY NoDropRev, RevMoves
<1>3. r # NoName
  BY NamesAssumption
<1>4. CASE Early(m)' /\ dst'[m] # NoInode /\ rev'[dst'[m]] = r
  <2>1. Early(m) /\ dst'[m] = dst[m]
    BY <1>1, <1>4, EarlyKept
  <2>2. dst[m] \in Keys
    BY <1>1, <1>4, <2>1, IsKeys DEF Types
  <2>3. rev[dst[m]] = r
    BY <1>2, <1>3, <1>4, <2>1, <2>2
  <2> QED
    BY <1>1, <1>4, <2>1, <2>3 DEF Left
<1>5. CASE m # n /\ Registers(m)' /\ reg'[m].rev = r
  BY <1>1, <1>2, <1>5 DEF Left, Moves, Registers
<1>6. CASE m = n /\ Registers(n) /\ reg[n].rev = r
  BY <1>6 DEF Left
<1>7. CASE m = n /\ pc[n] = "lookup" /\ RevOf(n) = r
  <2>1. Exists(n) /\ rev[reg[n].ino] = r
    BY <1>3, <1>7 DEF RevOf
  <2>2. reg[n].ino = dst[n]
    BY <1>7 DEF Registering, Sure
  <2> QED
    BY <1>7, <2>1, <2>2 DEF Left, Early, Exists
<1>8. CASE rev[SrcIno(n)] = r
  <2>1. SrcIno(n) \in Inodes
    BY <1>3, <1>8, IsKeys DEF Revs, RevLive
  <2> QED
    BY <2>1 DEF Apart
<1> QED
  BY <1>1, <1>2, <1>4, <1>5, <1>6, <1>7, <1>8

LEMMA CountEnoughStep ==
    ASSUME Types, Led, Registering, Apart, Revs, NEW n \in Names, NameStep(n)
    PROVE  CountEnough'
<1> SUFFICES ASSUME NEW r \in Names, rinfo'[r].state = "live"
             PROVE  rinfo'[r].nlinkRC > Cardinality(Left(r)')
  BY DEF CountEnough
<1>1. rinfo[r].state = "live" => rinfo[r].nlinkRC > Cardinality(Left(r))
  BY DEF Revs, CountEnough
<1>2. rinfo[r].nlinkRC \in Int /\ IsFiniteSet(Left(r))
  BY SetsFinite DEF Types, RevType
<1>3. CASE NewRev(n) /\ r = n
  <2> DEFINE S == EarlyAt(reg[n].ino)
  <2>1. pc[n] = "dest" /\ Unseen(n) /\ rinfo'[n].nlinkRC = reg[n].links
    BY <1>3, NewRevDoes
  <2>2. Left(n)' \subseteq S
    BY <1>3, LeftByMaker
  <2>3. reg[n].links >= Cardinality(S \cup {n}) /\ reg[n].links \in Nat
    BY <2>1, RegFields DEF Revs, LinksEnough, Before, Registers, Unseen, Types
  <2>4. n \notin S
    BY <2>1 DEF EarlyAt, Early
  <2>5. IsFiniteSet(S)
    BY SetsFinite
  <2>6. Cardinality(S \cup {n}) = Cardinality(S) + 1
    BY <2>4, <2>5, FS_AddElement
  <2>7. /\ Cardinality(Left(n)') <= Cardinality(S)
        /\ Cardinality(S) \in Nat /\ Cardinality(Left(n)') \in Nat
    BY <2>2, <2>5, SmallerSet
  <2> HIDE DEF S
  <2> QED
    BY <1>3, <2>1, <2>3, <2>6, <2>7
<1>4. CASE NewRev(n) /\ r # n
  <2>1. rinfo'[r] = rinfo[r]
    BY <1>4, NewRevDoes
  <2>2. Left(r)' \subseteq Left(r)
    BY <1>4, LeftByMaker
  <2>3. /\ Cardinality(Left(r)') <= Cardinality(Left(r))
        /\ Cardinality(Left(r)') \in Nat /\ Cardinality(Left(r)) \in Nat
    BY <1>2, <2>2, SmallerSet
  <2> QED
    BY <1>1, <1>2, <2>1, <2>3
<1>5. CASE ~NewRev(n)
  <2>1. /\ rinfo'[r].state = rinfo[r].state
        /\ rinfo' = rinfo \/ CountRev(n) \/ LastRev(n)
    BY <1>5, NoDropRev, RevMoves
  <2>2. Left(r)' \subseteq Left(r)
    BY <1>5, LeftKept
  <2>3. CASE (CountRev(n) \/ LastRev(n)) /\ r = reg[n].rev
    <3>1. /\ pc[n] = "dest" /\ pc'[n] \in {"decide", "droprev"}
          /\ rinfo'[r].nlinkRC = rinfo[r].nlinkRC - 1
      BY <2>3, CountDoes
    <3>2. n \in Left(r)
      BY <2>3, <3>1 DEF Left, Registers
    <3>3. n \notin Left(r)'
      BY <3>1 DEF Left, Early, Registers
    <3>4. Left(r)' \subseteq Left(r) \ {n}
      BY <2>2, <3>3
    <3>5. IsFiniteSet(Left(r) \ {n}) /\ Cardinality(Left(r) \ {n}) = Cardinality(Left(r)) - 1
      BY <1>2, <3>2, FS_RemoveElement
    <3>6. Cardinality(Left(r)') <= Cardinality(Left(r)) - 1 /\ Cardinality(Left(r)') \in Nat
      BY <3>4, <3>5, SmallerSet
    <3>7. Cardinality(Left(r)) \in Nat
      BY <1>2, FS_CardinalityType
    <3> QED
      BY <1>1, <1>2, <2>1, <3>1, <3>6, <3>7
  <2>4. CASE rinfo'[r].nlinkRC = rinfo[r].nlinkRC
    <3>1. /\ Cardinality(Left(r)') <= Cardinality(Left(r))
          /\ Cardinality(Left(r)') \in Nat /\ Cardinality(Left(r)) \in Nat
      BY <1>2, <2>2, SmallerSet
    <3> QED
      BY <1>1, <1>2, <2>1, <2>4, <3>1
  <2>5. (CountRev(n) \/ LastRev(n)) /\ r # reg[n].rev => rinfo'[r].nlinkRC = rinfo[r].nlinkRC
    BY CountDoes
  <2> QED
    BY <2>1, <2>3, <2>4, <2>5
<1> QED
  BY <1>3, <1>4, <1>5

LEMMA RevsStep ==
    ASSUME Types, Led, Registering, Apart, Revs, NEW n \in Names, NameStep(n)
    PROVE  Revs'
  BY RevLiveStep, RevMadeStep, LinksEnoughStep, CountEnoughStep DEF Revs

-----------------------------------------------------------------------------
(***************************************************************************)
(* Together.                                                               *)
(***************************************************************************)
\* The inductive invariant.
Entries == /\ Types /\ Led /\ Registering
           /\ Apart => InHand /\ TableLive /\ Revs

LEMMA EntriesInit == Init => Entries
<1> SUFFICES ASSUME Init PROVE Entries
  OBVIOUS
<1>1. /\ source \in Sources /\ dst \in [Names -> OldInodes \cup {NoInode}]
      /\ data \in [Inodes -> SUBSET {SrcIno(n) : n \in Names}]
      /\ pc = [n \in Names |-> "stat"] /\ reg = [n \in Names |-> NoReg]
      /\ fwd = [i \in Keys |-> NoName] /\ info = [n \in Names |-> NoInfo]
      /\ rev = [i \in Keys |-> NoName] /\ rinfo = [n \in Names |-> NoRev]
      /\ readers = {} /\ writer = NoName /\ filesSeen = 0 /\ nFinished = 0 /\ failed = FALSE
  BY DEF Init
<1>2. NoReg \in RegType /\ NoInfo \in InfoType /\ NoRev \in RevType /\ "stat" \in Places
  BY DEF NoReg, NoInfo, NoRev, RegType, InfoType, RevType, Places
<1>3. data \in [Inodes -> SUBSET SourceInodes]
  BY <1>1 DEF SrcIno, SourceInodes
<1>4. dst \in [Names -> Inodes \cup {NoInode}]
  BY <1>1 DEF Inodes
<1>5. Types
  BY <1>1, <1>2, <1>3, <1>4 DEF Types
<1>6. /\ \A n \in Names : pc[n] = "stat" /\ reg[n].rev = NoName
      /\ \A n \in Names : info[n].links = {} /\ rinfo[n].state = "none"
      /\ \A k \in Keys : fwd[k] = NoName /\ rev[k] = NoName
  BY <1>1 DEF NoReg, NoInfo, NoRev
<1>7. Led /\ Registering /\ InHand /\ TableLive
  BY <1>6 DEF Led, Registering, Waiting, Sure, InHand, TableLive
<1>8. Revs
  BY <1>6 DEF Revs, RevLive, RevMade, LinksEnough, CountEnough
<1> QED
  BY <1>5, <1>7, <1>8 DEF Entries

LEMMA EntriesStep == Entries /\ [Next]_vars => Entries'
<1> SUFFICES ASSUME Entries, [Next]_vars PROVE Entries'
  OBVIOUS
<1>1. CASE \E n \in Names : NameStep(n)
  <2>1. PICK n \in Names : NameStep(n)
    BY <1>1
  <2>2. Types' /\ Led' /\ Registering'
    BY <2>1, LedStep, RegisteringStep DEF Entries
  <2>3. UNCHANGED source
    BY <2>1, HandMoves DEF Entries
  <2>4. ASSUME Apart' PROVE InHand' /\ TableLive' /\ Revs'
    <3>1. Apart
      BY <2>3, <2>4 DEF Apart, SrcIno
    <3> QED
      BY <2>1, <3>1, InHandStep, TableLiveStep, RevsStep DEF Entries
  <2> QED
    BY <2>2, <2>4 DEF Entries
<1>2. CASE UNCHANGED vars
  <2>1. /\ UNCHANGED <<source, dst, data, pc, reg, fwd, info, rev, rinfo>>
        /\ UNCHANGED <<readers, writer, filesSeen, nFinished, failed>>
    BY <1>2 DEF vars, tables, lock
  <2>2. Types'
    BY <2>1 DEF Entries, Types
  <2>3. Led' /\ Registering'
    BY <2>1 DEF Entries, Led, Registering, Waiting, Sure, Early
  <2>4. Apart' => InHand' /\ TableLive'
    BY <2>1 DEF Entries, Apart, InHand, TableLive, SrcIno
  <2>5. Apart' => Revs'
    <3>1. \A r : Left(r)' = Left(r)
      BY <2>1 DEF Left, Early, Registers
    <3>2. \A i : EarlyAt(i)' = EarlyAt(i)
      BY <2>1 DEF EarlyAt, Early
    <3>3. RevLive => RevLive'
      BY <2>1 DEF RevLive
    <3>4. RevMade => RevMade'
      BY <2>1 DEF RevMade, Before, Early, Registers
    <3>5. LinksEnough => LinksEnough'
      BY <2>1, <3>2 DEF LinksEnough, Before, Early, Registers, Exists
    <3>6. CountEnough => CountEnough'
      BY <2>1, <3>1 DEF CountEnough
    <3>7. Apart' => Apart
      BY <2>1 DEF Apart, SrcIno
    <3> QED
      BY <3>3, <3>4, <3>5, <3>6, <3>7 DEF Revs, Entries
  <2> QED
    BY <2>2, <2>3, <2>4, <2>5 DEF Entries
<1> QED
  BY <1>1, <1>2 DEF Next, Stopped, NameStep

LEMMA SpecEntries == Spec => []Entries
  BY EntriesInit, EntriesStep, PTL DEF Spec

\* Every variable keeps its type: the counters of entries as integers, for they wrap.
THEOREM TypeCorrect == Spec => []TypeOK
<1>1. Entries => TypeOK
  BY TypesAre DEF Entries
<1> QED
  BY <1>1, SpecEntries, PTL

\* No entry is freed under a name that has looked it up, whatever the promotions of
\* the lock let happen in between, if no number is an inode of both sides.
THEOREM EntriesAreKept == Spec => []EntriesKept
<1>1. Entries => EntriesKept
  <2> SUFFICES ASSUME Entries, Apart, NEW n \in Names
               PROVE  /\ pc[n] \in {"link", "transfer", "linking"} =>
                            info[reg[n].info].state = "live"
                      /\ rinfo[n].state # "freed"
                      /\ rinfo[n].state = "live" => rinfo[n].nlinkRC > 0
    BY DEF EntriesKept
  <2>1. InHand /\ Revs
    BY DEF Entries
  <2>2. rinfo[n].state = "live" => rinfo[n].nlinkRC > Cardinality(Left(n))
    BY <2>1 DEF Revs, CountEnough
  <2>3. Cardinality(Left(n)) \in Nat
    BY SetsFinite, FS_CardinalityType
  <2>4. rinfo[n].nlinkRC \in Int
    BY DEF Entries, Types, RevType
  <2> QED
    BY <2>1, <2>2, <2>3, <2>4 DEF InHand, Revs, RevMade
<1> QED
  BY <1>1, SpecEntries, PTL

-----------------------------------------------------------------------------
(***************************************************************************)
(* The locks, while no system call has failed.                             *)
(***************************************************************************)
\* Who has a lock is at a place that releases it.
Reading == \A n \in readers : pc[n] \in {"link", "dest", "transfer", "linking"}
Writing == writer # NoName => pc[writer] = "dest"
Spinning == \A h \in Names : info[h].lock # NoName =>
                pc[info[h].lock] = "linking" /\ reg[info[h].lock].info = h
RevsUnlocked == \A r \in Names : rinfo[r].lock = NoName

Locks == Reading /\ Writing /\ Spinning /\ RevsUnlocked

LEMMA FailedStays ==
    ASSUME Types, Led,
           NEW n \in Names, NameStep(n)
    PROVE  failed => failed'
<1>1. CASE Stat(n)
  BY <1>1, StatDoes DEF LinksOne
<1>2. CASE StatFails(n) \/ Reroll(n) \/ Promote(n) \/ EndRegister(n)
  BY <1>2, PlainDoes DEF LinksOne
<1>3. CASE Lookup(n)
  BY <1>3, LookupDoes DEF LinksOne
<1>4. CASE Create(n)
  BY <1>4, CreateDoes DEF LinksOne
<1>5. CASE Queue(n)
  <2>1. reg[n].info \in Names
    BY <1>5 DEF Led, Queue, At
  <2> QED
    BY <1>5, <2>1, QueueDoes DEF LinksOne
<1>6. CASE Relink(n)
  <2>1. reg[n].info \in Names
    BY <1>6 DEF Led, Relink, At
  <2> QED
    BY <1>6, <2>1, RelinkDoes DEF LinksOne
<1>7. CASE RelinkFails(n)
  <2>1. reg[n].info \in Names
    BY <1>7 DEF Led, RelinkFails, At
  <2> QED
    BY <1>7, <2>1, RelinkFailsDoes DEF LinksOne
<1>8. CASE DropInfo(n)
  BY <1>8, DropInfoDoes DEF LinksOne
<1>9. CASE NewRev(n)
  BY <1>9, NewRevDoes DEF LinksOne
<1>10. CASE LookAgain(n)
  BY <1>10, LookAgainDoes DEF LinksOne
<1>11. CASE CountRev(n) \/ LastRev(n)
  BY <1>11, CountDoes DEF LinksOne
<1>12. CASE DropRev(n)
  BY <1>12, DropRevDoes DEF LinksOne
<1>13. CASE SendJob(n) \/ GiveUp(n) \/ NoJob(n)
  BY <1>13, DecideDoes DEF LinksOne
<1>14. CASE Finish(n)
  BY <1>14, FinishDoes DEF LinksOne
<1>15. CASE FinishFails(n)
  BY <1>15, FinishFailsDoes DEF LinksOne
<1>16. CASE Handle(n)
  BY <1>16, HandleDoes DEF LinksOne
<1>17. CASE Transfer(n)
  <2>1. reg[n].info \in Names
    BY <1>17 DEF Led, Transfer, At
  <2> QED
    BY <1>17, <2>1, TransferDoes DEF LinksOne
<1>18. CASE LinkPending(n)
  <2>1. reg[n].info \in Names
    BY <1>18 DEF Led, LinkPending, At
  <2> QED
    BY <1>18, <2>1, LinkPendingDoes DEF LinksOne
<1>19. CASE EndTransfer(n)
  <2>1. reg[n].info \in Names
    BY <1>19 DEF Led, EndTransfer, At
  <2> QED
    BY <1>19, <2>1, EndTransferDoes DEF LinksOne
<1>20. CASE DropGroup(n) \/ DropForeign(n)
  BY <1>20, DropGroupDoes DEF LinksOne
<1> QED
  BY <1>1, <1>2, <1>3, <1>4, <1>5, <1>6, <1>7, <1>8, <1>9, <1>10, <1>11, <1>12, <1>13,
     <1>14, <1>15, <1>16, <1>17, <1>18, <1>19, <1>20, Zenon
     DEF NameStep, Register, HandleTransfer

LEMMA ReadersMove ==
    ASSUME Types, Led,
           NEW n \in Names, NameStep(n), failed' = FALSE,
           pc[n] # "droprev", pc'[n] # "droprev"
    PROVE  /\ Moves(n) /\ \A m \in Names \ {n} : m \in readers' => m \in readers
           /\ n \in readers' =>
                 \/ pc'[n] \in {"link", "dest", "transfer", "linking"}
                 \/ n \in readers /\ pc[n] \notin {"link", "dest", "transfer", "linking"}
<1>1. CASE Stat(n)
  BY <1>1, StatDoes DEF Moves, Unlocked, lock, CanWrite
<1>2. CASE StatFails(n) \/ Reroll(n) \/ Promote(n) \/ EndRegister(n)
  BY <1>2, PlainDoes DEF Moves, Unlocked, lock, CanWrite
<1>3. CASE Lookup(n)
  BY <1>3, LookupDoes DEF Moves, Unlocked, lock, CanWrite
<1>4. CASE Create(n)
  BY <1>4, CreateDoes DEF Moves, Unlocked, lock, CanWrite
<1>5. CASE Queue(n)
  <2>1. reg[n].info \in Names
    BY <1>5 DEF Led, Queue, At
  <2> QED
    BY <1>5, <2>1, QueueDoes DEF Moves, Unlocked, lock, CanWrite
<1>6. CASE Relink(n)
  <2>1. reg[n].info \in Names
    BY <1>6 DEF Led, Relink, At
  <2> QED
    BY <1>6, <2>1, RelinkDoes DEF Moves, Unlocked, lock, CanWrite
<1>7. CASE RelinkFails(n)
  <2>1. reg[n].info \in Names
    BY <1>7 DEF Led, RelinkFails, At
  <2> QED
    BY <1>7, <2>1, RelinkFailsDoes DEF Moves, Unlocked, lock, CanWrite
<1>8. CASE DropInfo(n)
  BY <1>8, DropInfoDoes DEF Moves, Unlocked, lock, CanWrite
<1>9. CASE NewRev(n)
  BY <1>9, NewRevDoes DEF Moves, Unlocked, lock, CanWrite
<1>10. CASE LookAgain(n)
  BY <1>10, LookAgainDoes DEF Moves, Unlocked, lock, CanWrite
<1>11. CASE CountRev(n) \/ LastRev(n)
  BY <1>11, CountDoes DEF Moves, Unlocked, lock, CanWrite
<1>12. CASE DropRev(n)
  BY <1>12, DropRevDoes DEF Moves, Unlocked, lock, CanWrite
<1>13. CASE SendJob(n) \/ GiveUp(n) \/ NoJob(n)
  BY <1>13, DecideDoes DEF Moves, Unlocked, lock, CanWrite
<1>14. CASE Finish(n)
  BY <1>14, FinishDoes DEF Moves, Unlocked, lock, CanWrite
<1>15. CASE FinishFails(n)
  BY <1>15, FinishFailsDoes DEF Moves, Unlocked, lock, CanWrite
<1>16. CASE Handle(n)
  BY <1>16, HandleDoes DEF Moves, Unlocked, lock, CanWrite
<1>17. CASE Transfer(n)
  <2>1. reg[n].info \in Names
    BY <1>17 DEF Led, Transfer, At
  <2> QED
    BY <1>17, <2>1, TransferDoes DEF Moves, Unlocked, lock, CanWrite
<1>18. CASE LinkPending(n)
  <2>1. reg[n].info \in Names
    BY <1>18 DEF Led, LinkPending, At
  <2> QED
    BY <1>18, <2>1, LinkPendingDoes DEF Moves, Unlocked, lock, CanWrite
<1>19. CASE EndTransfer(n)
  <2>1. reg[n].info \in Names
    BY <1>19 DEF Led, EndTransfer, At
  <2> QED
    BY <1>19, <2>1, EndTransferDoes DEF Moves, Unlocked, lock, CanWrite
<1>20. CASE DropGroup(n) \/ DropForeign(n)
  BY <1>20, DropGroupDoes DEF Moves, Unlocked, lock, CanWrite
<1> QED
  BY <1>1, <1>2, <1>3, <1>4, <1>5, <1>6, <1>7, <1>8, <1>9, <1>10, <1>11, <1>12, <1>13,
     <1>14, <1>15, <1>16, <1>17, <1>18, <1>19, <1>20, Zenon
     DEF NameStep, Register, HandleTransfer

LEMMA WriterMoves ==
    ASSUME Types, Led,
           NEW n \in Names, NameStep(n), failed' = FALSE,
           pc[n] # "droprev", pc'[n] # "droprev"
    PROVE  \/ writer' = n /\ pc'[n] = "dest"
           \/ writer' = writer /\ (writer = n => pc'[n] = pc[n] \/ pc[n] # "dest")
           \/ writer' = NoName
<1>1. CASE Stat(n)
  BY <1>1, StatDoes DEF Unlocked, lock, CanWrite
<1>2. CASE StatFails(n) \/ Reroll(n) \/ Promote(n) \/ EndRegister(n)
  BY <1>2, PlainDoes DEF Unlocked, lock, CanWrite
<1>3. CASE Lookup(n)
  BY <1>3, LookupDoes DEF Unlocked, lock, CanWrite
<1>4. CASE Create(n)
  BY <1>4, CreateDoes DEF Unlocked, lock, CanWrite
<1>5. CASE Queue(n)
  <2>1. reg[n].info \in Names
    BY <1>5 DEF Led, Queue, At
  <2> QED
    BY <1>5, <2>1, QueueDoes DEF Unlocked, lock, CanWrite
<1>6. CASE Relink(n)
  <2>1. reg[n].info \in Names
    BY <1>6 DEF Led, Relink, At
  <2> QED
    BY <1>6, <2>1, RelinkDoes DEF Unlocked, lock, CanWrite
<1>7. CASE RelinkFails(n)
  <2>1. reg[n].info \in Names
    BY <1>7 DEF Led, RelinkFails, At
  <2> QED
    BY <1>7, <2>1, RelinkFailsDoes DEF Unlocked, lock, CanWrite
<1>8. CASE DropInfo(n)
  BY <1>8, DropInfoDoes DEF Unlocked, lock, CanWrite
<1>9. CASE NewRev(n)
  BY <1>9, NewRevDoes DEF Unlocked, lock, CanWrite
<1>10. CASE LookAgain(n)
  BY <1>10, LookAgainDoes DEF Unlocked, lock, CanWrite
<1>11. CASE CountRev(n) \/ LastRev(n)
  BY <1>11, CountDoes DEF Unlocked, lock, CanWrite
<1>12. CASE DropRev(n)
  BY <1>12, DropRevDoes DEF Unlocked, lock, CanWrite
<1>13. CASE SendJob(n) \/ GiveUp(n) \/ NoJob(n)
  BY <1>13, DecideDoes DEF Unlocked, lock, CanWrite
<1>14. CASE Finish(n)
  BY <1>14, FinishDoes DEF Unlocked, lock, CanWrite
<1>15. CASE FinishFails(n)
  BY <1>15, FinishFailsDoes DEF Unlocked, lock, CanWrite
<1>16. CASE Handle(n)
  BY <1>16, HandleDoes DEF Unlocked, lock, CanWrite
<1>17. CASE Transfer(n)
  <2>1. reg[n].info \in Names
    BY <1>17 DEF Led, Transfer, At
  <2> QED
    BY <1>17, <2>1, TransferDoes DEF Unlocked, lock, CanWrite
<1>18. CASE LinkPending(n)
  <2>1. reg[n].info \in Names
    BY <1>18 DEF Led, LinkPending, At
  <2> QED
    BY <1>18, <2>1, LinkPendingDoes DEF Unlocked, lock, CanWrite
<1>19. CASE EndTransfer(n)
  <2>1. reg[n].info \in Names
    BY <1>19 DEF Led, EndTransfer, At
  <2> QED
    BY <1>19, <2>1, EndTransferDoes DEF Unlocked, lock, CanWrite
<1>20. CASE DropGroup(n) \/ DropForeign(n)
  BY <1>20, DropGroupDoes DEF Unlocked, lock, CanWrite
<1> QED
  BY <1>1, <1>2, <1>3, <1>4, <1>5, <1>6, <1>7, <1>8, <1>9, <1>10, <1>11, <1>12, <1>13,
     <1>14, <1>15, <1>16, <1>17, <1>18, <1>19, <1>20, Zenon
     DEF NameStep, Register, HandleTransfer

LEMMA SpinsMove ==
    ASSUME Types, Led,
           NEW n \in Names, NameStep(n), failed' = FALSE,
           pc[n] # "droprev", pc'[n] # "droprev",
           pc[n] = "dropgroup" => fwd[reg[n].newIno] = NoName
    PROVE  \/ /\ \A h \in Names : info'[h].lock \in {info[h].lock, NoName}
              /\ pc[n] # "linking" \/ (pc'[n] = "linking" /\ reg' = reg)
           \/ /\ pc'[n] = "linking" /\ reg' = reg
              /\ info'[reg[n].info].lock = n /\ pc[n] # "linking"
              /\ \A h \in Names \ {reg[n].info} : info'[h].lock = info[h].lock
           \/ /\ pc[n] = "linking" /\ info'[reg[n].info].lock = NoName
              /\ \A h \in Names \ {reg[n].info} : info'[h].lock = info[h].lock
<1>1. CASE Stat(n)
  BY <1>1, StatDoes DEF Free
<1>2. CASE StatFails(n) \/ Reroll(n) \/ Promote(n) \/ EndRegister(n)
  BY <1>2, PlainDoes DEF Free
<1>3. CASE Lookup(n)
  BY <1>3, LookupDoes DEF Free
<1>4. CASE Create(n)
  BY <1>4, CreateDoes DEF Free
<1>5. CASE Queue(n)
  <2>1. reg[n].info \in Names
    BY <1>5 DEF Led, Queue, At
  <2> QED
    BY <1>5, <2>1, QueueDoes DEF Free
<1>6. CASE Relink(n)
  <2>1. reg[n].info \in Names
    BY <1>6 DEF Led, Relink, At
  <2> QED
    BY <1>6, <2>1, RelinkDoes DEF Free
<1>7. CASE RelinkFails(n)
  <2>1. reg[n].info \in Names
    BY <1>7 DEF Led, RelinkFails, At
  <2> QED
    BY <1>7, <2>1, RelinkFailsDoes DEF Free
<1>8. CASE DropInfo(n)
  BY <1>8, DropInfoDoes DEF Free
<1>9. CASE NewRev(n)
  BY <1>9, NewRevDoes DEF Free
<1>10. CASE LookAgain(n)
  BY <1>10, LookAgainDoes DEF Free
<1>11. CASE CountRev(n) \/ LastRev(n)
  BY <1>11, CountDoes DEF Free
<1>12. CASE DropRev(n)
  BY <1>12, DropRevDoes DEF Free
<1>13. CASE SendJob(n) \/ GiveUp(n) \/ NoJob(n)
  BY <1>13, DecideDoes DEF Free
<1>14. CASE Finish(n)
  BY <1>14, FinishDoes DEF Free
<1>15. CASE FinishFails(n)
  BY <1>15, FinishFailsDoes DEF Free
<1>16. CASE Handle(n)
  BY <1>16, HandleDoes DEF Free
<1>17. CASE Transfer(n)
  <2>1. reg[n].info \in Names
    BY <1>17 DEF Led, Transfer, At
  <2> QED
    BY <1>17, <2>1, TransferDoes DEF Free
<1>18. CASE LinkPending(n)
  <2>1. reg[n].info \in Names
    BY <1>18 DEF Led, LinkPending, At
  <2> QED
    BY <1>18, <2>1, LinkPendingDoes DEF Free
<1>19. CASE EndTransfer(n)
  <2>1. reg[n].info \in Names
    BY <1>19 DEF Led, EndTransfer, At
  <2> QED
    BY <1>19, <2>1, EndTransferDoes DEF Free
<1>20. CASE DropGroup(n) \/ DropForeign(n)
  BY <1>20, DropGroupDoes DEF Free
<1> QED
  BY <1>1, <1>2, <1>3, <1>4, <1>5, <1>6, <1>7, <1>8, <1>9, <1>10, <1>11, <1>12, <1>13,
     <1>14, <1>15, <1>16, <1>17, <1>18, <1>19, <1>20, Zenon
     DEF NameStep, Register, HandleTransfer

LEMMA RevLocksMove ==
    ASSUME Types, Led,
           NEW n \in Names, NameStep(n), failed' = FALSE,
           pc[n] # "droprev", pc'[n] # "droprev"
    PROVE  rinfo' = rinfo \/ \A r \in Names : rinfo'[r].lock \in {rinfo[r].lock, NoName}
<1>1. CASE Stat(n)
  BY <1>1, StatDoes DEF RevFree
<1>2. CASE StatFails(n) \/ Reroll(n) \/ Promote(n) \/ EndRegister(n)
  BY <1>2, PlainDoes DEF RevFree
<1>3. CASE Lookup(n)
  BY <1>3, LookupDoes DEF RevFree
<1>4. CASE Create(n)
  BY <1>4, CreateDoes DEF RevFree
<1>5. CASE Queue(n)
  <2>1. reg[n].info \in Names
    BY <1>5 DEF Led, Queue, At
  <2> QED
    BY <1>5, <2>1, QueueDoes DEF RevFree
<1>6. CASE Relink(n)
  <2>1. reg[n].info \in Names
    BY <1>6 DEF Led, Relink, At
  <2> QED
    BY <1>6, <2>1, RelinkDoes DEF RevFree
<1>7. CASE RelinkFails(n)
  <2>1. reg[n].info \in Names
    BY <1>7 DEF Led, RelinkFails, At
  <2> QED
    BY <1>7, <2>1, RelinkFailsDoes DEF RevFree
<1>8. CASE DropInfo(n)
  BY <1>8, DropInfoDoes DEF RevFree
<1>9. CASE NewRev(n)
  BY <1>9, NewRevDoes DEF RevFree
<1>10. CASE LookAgain(n)
  BY <1>10, LookAgainDoes DEF RevFree
<1>11. CASE CountRev(n) \/ LastRev(n)
  BY <1>11, CountDoes DEF RevFree
<1>12. CASE DropRev(n)
  BY <1>12, DropRevDoes DEF RevFree
<1>13. CASE SendJob(n) \/ GiveUp(n) \/ NoJob(n)
  BY <1>13, DecideDoes DEF RevFree
<1>14. CASE Finish(n)
  BY <1>14, FinishDoes DEF RevFree
<1>15. CASE FinishFails(n)
  BY <1>15, FinishFailsDoes DEF RevFree
<1>16. CASE Handle(n)
  BY <1>16, HandleDoes DEF RevFree
<1>17. CASE Transfer(n)
  <2>1. reg[n].info \in Names
    BY <1>17 DEF Led, Transfer, At
  <2> QED
    BY <1>17, <2>1, TransferDoes DEF RevFree
<1>18. CASE LinkPending(n)
  <2>1. reg[n].info \in Names
    BY <1>18 DEF Led, LinkPending, At
  <2> QED
    BY <1>18, <2>1, LinkPendingDoes DEF RevFree
<1>19. CASE EndTransfer(n)
  <2>1. reg[n].info \in Names
    BY <1>19 DEF Led, EndTransfer, At
  <2> QED
    BY <1>19, <2>1, EndTransferDoes DEF RevFree
<1>20. CASE DropGroup(n) \/ DropForeign(n)
  BY <1>20, DropGroupDoes DEF RevFree
<1> QED
  BY <1>1, <1>2, <1>3, <1>4, <1>5, <1>6, <1>7, <1>8, <1>9, <1>10, <1>11, <1>12, <1>13,
     <1>14, <1>15, <1>16, <1>17, <1>18, <1>19, <1>20, Zenon
     DEF NameStep, Register, HandleTransfer

LEMMA LocksStep ==
    ASSUME Types, Led, Locks, NEW n \in Names, NameStep(n), failed' = FALSE,
           pc[n] # "droprev", pc'[n] # "droprev",
           pc[n] = "dropgroup" => fwd[reg[n].newIno] = NoName
    PROVE  Locks'
<1>1. Types' /\ Moves(n)
  BY LedStep, ReadersMove
<1>2. Reading'
  <2> SUFFICES ASSUME NEW m \in readers'
               PROVE  pc'[m] \in {"link", "dest", "transfer", "linking"}
    BY DEF Reading
  <2>1. m \in Names
    BY <1>1 DEF Types
  <2>2. CASE m = n
    <3>1. \/ pc'[n] \in {"link", "dest", "transfer", "linking"}
          \/ n \in readers /\ pc[n] \notin {"link", "dest", "transfer", "linking"}
      BY <2>2, ReadersMove
    <3> QED
      BY <2>2, <3>1 DEF Locks, Reading
  <2>3. CASE m # n
    <3>1. m \in readers /\ pc'[m] = pc[m]
      BY <2>1, <2>3, <1>1, ReadersMove DEF Moves
    <3> QED
      BY <3>1 DEF Locks, Reading
  <2> QED
    BY <2>2, <2>3
<1>3. Writing'
  <2>1. \/ writer' = n /\ pc'[n] = "dest"
        \/ writer' = writer /\ (writer = n => pc'[n] = pc[n] \/ pc[n] # "dest")
        \/ writer' = NoName
    BY WriterMoves
  <2>2. writer # NoName => writer \in Names /\ pc[writer] = "dest"
    BY DEF Locks, Writing, Types
  <2>3. ASSUME writer' = writer, writer # NoName, writer = n => pc'[n] = pc[n] \/ pc[n] # "dest"
        PROVE  pc'[writer] = "dest"
    BY <1>1, <2>2, <2>3 DEF Moves
  <2> QED
    BY <2>1, <2>3 DEF Writing
<1>4. Spinning'
  <2> SUFFICES ASSUME NEW h \in Names, info'[h].lock # NoName
               PROVE  pc'[info'[h].lock] = "linking" /\ reg'[info'[h].lock].info = h
    BY DEF Spinning
  <2> DEFINE w == info[h].lock
  <2>1. w # NoName => w \in Names /\ pc[w] = "linking" /\ reg[w].info = h
    <3>1. info[h] \in InfoType
      BY DEF Types
    <3> QED
      BY <3>1, InfoValues DEF Locks, Spinning
  <2>2. ASSUME info'[h].lock = w, w # n
        PROVE  pc'[w] = "linking" /\ reg'[w].info = h
    BY <1>1, <2>1, <2>2 DEF Moves
  <2>3. \/ /\ \A m \in Names : info'[m].lock \in {info[m].lock, NoName}
           /\ pc[n] # "linking" \/ (pc'[n] = "linking" /\ reg' = reg)
        \/ /\ pc'[n] = "linking" /\ reg' = reg
           /\ info'[reg[n].info].lock = n /\ pc[n] # "linking"
           /\ \A m \in Names \ {reg[n].info} : info'[m].lock = info[m].lock
        \/ /\ pc[n] = "linking" /\ info'[reg[n].info].lock = NoName
           /\ \A m \in Names \ {reg[n].info} : info'[m].lock = info[m].lock
    BY SpinsMove
  <2>4. CASE /\ \A m \in Names : info'[m].lock \in {info[m].lock, NoName}
             /\ pc[n] # "linking" \/ (pc'[n] = "linking" /\ reg' = reg)
    <3>1. info'[h].lock = w
      BY <2>4
    <3>2. CASE w = n
      BY <2>1, <2>4, <3>1, <3>2
    <3> QED
      BY <2>2, <3>1, <3>2
  <2>5. CASE /\ pc'[n] = "linking" /\ reg' = reg /\ info'[reg[n].info].lock = n
             /\ pc[n] # "linking"
             /\ \A m \in Names \ {reg[n].info} : info'[m].lock = info[m].lock
    <3>1. CASE h = reg[n].info
      BY <2>5, <3>1
    <3>2. CASE h # reg[n].info
      <4>1. info'[h].lock = w
        BY <2>5, <3>2
      <4>2. w # n
        BY <2>1, <2>5, <4>1
      <4> QED
        BY <2>2, <4>1, <4>2
    <3> QED
      BY <3>1, <3>2
  <2>6. CASE /\ pc[n] = "linking" /\ info'[reg[n].info].lock = NoName
             /\ \A m \in Names \ {reg[n].info} : info'[m].lock = info[m].lock
    <3>1. h # reg[n].info /\ info'[h].lock = w
      BY <2>6
    <3>2. w # n
      BY <2>1, <3>1
    <3> QED
      BY <2>2, <3>1, <3>2
  <2> QED
    BY <2>3, <2>4, <2>5, <2>6
<1>5. RevsUnlocked'
  BY RevLocksMove DEF Locks, RevsUnlocked
<1> QED
  BY <1>2, <1>3, <1>4, <1>5 DEF Locks

LEMMA LocksInit == Init => Locks
  BY DEF Init, NoInfo, NoRev, Locks, Reading, Writing, Spinning, RevsUnlocked

LEMMA LocksNext ==
    Entries /\ (failed = FALSE /\ Apart => Locks) /\ [Next]_vars
    => (failed = FALSE /\ Apart => Locks)'
<1> SUFFICES ASSUME Entries, failed = FALSE /\ Apart => Locks, [Next]_vars,
                    failed' = FALSE, Apart'
             PROVE  Locks'
  OBVIOUS
<1>1. CASE \E n \in Names : NameStep(n)
  <2>1. PICK n \in Names : NameStep(n)
    BY <1>1
  <2>2. failed = FALSE
    <3>1. failed => failed'
      BY <2>1, FailedStays DEF Entries
    <3>2. failed \in BOOLEAN
      BY DEF Entries, Types
    <3> QED
      BY <3>1, <3>2
  <2>3. UNCHANGED source
    BY <2>1, HandMoves DEF Entries
  <2>4. Apart
    BY <2>3 DEF Apart, SrcIno
  <2>5. Revs /\ Revs'
    BY <2>1, <2>4, RevsStep DEF Entries
  <2>6. pc[n] # "droprev" /\ pc'[n] # "droprev"
    BY <2>5 DEF Revs, RevMade
  <2>7. pc[n] = "dropgroup" => fwd[reg[n].newIno] = NoName
    BY <2>4, NoForeign DEF Entries
  <2> QED
    BY <2>1, <2>2, <2>4, <2>6, <2>7, LocksStep DEF Entries
<1>2. CASE UNCHANGED vars
  <2>1. UNCHANGED <<source, pc, reg, info, rinfo, readers, writer, failed>>
    BY <1>2 DEF vars, tables, lock
  <2>2. failed = FALSE /\ Apart
    BY <2>1 DEF Apart, SrcIno
  <2> QED
    BY <2>1, <2>2 DEF Locks, Reading, Writing, Spinning, RevsUnlocked
<1> QED
  BY <1>1, <1>2 DEF Next, Stopped, NameStep

\* When all names are done all locks are free, if no system call failed and no number
\* is an inode of both sides.
THEOREM LocksAreReleased == Spec => []LocksReleased
<1>1. Entries /\ (failed = FALSE /\ Apart => Locks) => LocksReleased
  <2> SUFFICES ASSUME Entries, failed = FALSE /\ Apart => Locks, AllDone, ~failed, Apart
               PROVE  /\ CanWrite
                      /\ \A n \in Names : info[n].lock = NoName /\ rinfo[n].lock = NoName
    BY DEF LocksReleased
  <2>1. Locks
    BY DEF Entries, Types
  <2>2. \A n \in Names : pc[n] = "done"
    BY DEF AllDone
  <2>3. readers = {}
    BY <2>1, <2>2 DEF Locks, Reading, Entries, Types
  <2>4. writer = NoName
    BY <2>1, <2>2 DEF Locks, Writing, Entries, Types
  <2>5. ASSUME NEW n \in Names PROVE info[n].lock = NoName
    <3>1. info[n].lock \in Names \cup {NoName}
      BY InfoValues DEF Entries, Types
    <3> QED
      BY <2>1, <2>2, <3>1 DEF Locks, Spinning
  <2> QED
    BY <2>1, <2>3, <2>4, <2>5 DEF Locks, RevsUnlocked, CanWrite
<1>2. Init => (failed = FALSE /\ Apart => Locks)
  BY LocksInit, Zenon
<1> QED
  BY <1>1, <1>2, SpecEntries, LocksNext, PTL DEF Spec

-----------------------------------------------------------------------------
(***************************************************************************)
(* Who is counted.  The root of a group is made once; a name is in one     *)
(* queue at most, that of its group, and then has no job of its own.       *)
(***************************************************************************)
Made(h) == ~Early(h) /\ reg[h].first = TRUE
Kin(n, h) == SrcIno(h) = SrcIno(n) /\ Made(h)
Quiet(n) == /\ reg[n].pending = TRUE =>
                   /\ pc[n] \in {"dest", "newrev", "droprev", "decide", "done"}
                   /\ reg[n].should = FALSE /\ reg[n].first = FALSE
            /\ pc[n] = "link" => reg[n].should = FALSE

FoundKin == \A k \in Keys : fwd[k] # NoName => SrcIno(fwd[k]) = k /\ Made(fwd[k])
InfoKin == \A n \in Names : pc[n] \in {"link", "transfer", "linking"} => Kin(n, reg[n].info)
Marked == \A n \in Names : pc[n] = "linking" => info[reg[n].info].transferred = TRUE
QueueKin == \A h, m \in Names : m \in info[h].links => Kin(m, h) /\ reg[m].pending = TRUE
OneQueue == \A h, g, m \in Names : m \in info[h].links /\ m \in info[g].links => h = g
AllQuiet == \A n \in Names : Quiet(n)

Kinship == FoundKin /\ InfoKin /\ Marked /\ QueueKin /\ OneQueue /\ AllQuiet

\* What the actions do to the counts of an HLinkInfo and to its being transferred.
LEMMA QueueCounts ==
    ASSUME Types, NEW n \in Names, reg[n].info \in Names, Queue(n)
    PROVE  /\ info[reg[n].info].transferred = FALSE
           /\ \A m \in Names : /\ info'[m].nlinkRC = info[m].nlinkRC
                               /\ info'[m].transferred = info[m].transferred
<1> DEFINE h == reg[n].info
           x == [info[h] EXCEPT !.links = @ \cup {n}]
<1>1. info[h] \in InfoType
  BY DEF Types
<1>2. x.nlinkRC = info[h].nlinkRC /\ x.transferred = info[h].transferred
  BY <1>1 DEF InfoType
<1>3. info' = [info EXCEPT ![h] = x] /\ ~info[h].transferred
  BY Zenon DEF Queue, Transferred, At
<1>4. info[h].transferred = FALSE
  BY <1>1, <1>3, InfoValues
<1> HIDE DEF x
<1>5. \A m \in Names : info'[m] = IF m = h THEN x ELSE info[m]
  BY <1>3 DEF Types
<1> QED
  BY <1>2, <1>4, <1>5

LEMMA RelinkCounts ==
    ASSUME Types, NEW n \in Names, reg[n].info \in Names, Relink(n)
    PROVE  /\ info[reg[n].info].transferred = TRUE
           /\ info'[reg[n].info].nlinkRC = info[reg[n].info].nlinkRC - 1
           /\ \A m \in Names : info'[m].transferred = info[m].transferred
           /\ \A m \in Names \ {reg[n].info} : info'[m].nlinkRC = info[m].nlinkRC
           /\ pc'[n] = "dropinfo" => info[reg[n].info].nlinkRC = 0
<1> DEFINE h == reg[n].info
           x == [info[h] EXCEPT !.nlinkRC = @ - 1]
<1>1. info[h] \in InfoType
  BY DEF Types
<1>2. x.nlinkRC = info[h].nlinkRC - 1 /\ x.transferred = info[h].transferred
  BY <1>1 DEF InfoType
<1>3. /\ info' = [info EXCEPT ![h] = x] /\ info[h].transferred
      /\ info[h].nlinkRC = 0 \/ Goto(n, "dest")
  BY Zenon DEF Relink, Transferred, At
<1>4. info[h].transferred = TRUE
  BY <1>1, <1>3, InfoValues
<1>5. Goto(n, "dest") => pc'[n] = "dest"
  BY DEF Goto, Types
<1> HIDE DEF x
<1>6. \A m \in Names : info'[m] = IF m = h THEN x ELSE info[m]
  BY <1>3 DEF Types
<1> QED
  BY <1>2, <1>3, <1>4, <1>5, <1>6

LEMMA TransferCounts ==
    ASSUME Types, NEW n \in Names, reg[n].info \in Names, Transfer(n)
    PROVE  /\ info'[reg[n].info].transferred = TRUE
           /\ \A m \in Names : info'[m].nlinkRC = info[m].nlinkRC
           /\ \A m \in Names \ {reg[n].info} : info'[m].transferred = info[m].transferred
<1> DEFINE h == reg[n].info
           x == [info[h] EXCEPT !.lock = n, !.transferred = TRUE, !.destInode = reg[n].newIno]
<1>1. info[h] \in InfoType
  BY DEF Types
<1>2. x.nlinkRC = info[h].nlinkRC /\ x.transferred = TRUE
  BY <1>1 DEF InfoType
<1>3. info' = [info EXCEPT ![h] = x]
  BY Zenon DEF Transfer, At
<1> HIDE DEF x
<1>4. \A m \in Names : info'[m] = IF m = h THEN x ELSE info[m]
  BY <1>3 DEF Types
<1> QED
  BY <1>2, <1>4

LEMMA LinkPendingCounts ==
    ASSUME Types, NEW n \in Names, reg[n].info \in Names, LinkPending(n)
    PROVE  \A m \in Names : /\ info'[m].nlinkRC = info[m].nlinkRC
                            /\ info'[m].transferred = info[m].transferred
<1> DEFINE h == reg[n].info
<1>1. PICK m : info' = [info EXCEPT ![h].links = @ \ {m}]
  BY Zenon DEF LinkPending, At
<1> DEFINE x == [info[h] EXCEPT !.links = @ \ {m}]
<1>2. info[h] \in InfoType
  BY DEF Types
<1>3. x.nlinkRC = info[h].nlinkRC /\ x.transferred = info[h].transferred
  BY <1>2 DEF InfoType
<1>4. info' = [info EXCEPT ![h] = x]
  BY <1>1
<1> HIDE DEF x
<1>5. \A k \in Names : info'[k] = IF k = h THEN x ELSE info[k]
  BY <1>4 DEF Types
<1> QED
  BY <1>3, <1>5

LEMMA EndTransferCounts ==
    ASSUME Types, NEW n \in Names, reg[n].info \in Names, EndTransfer(n)
    PROVE  /\ info'[reg[n].info].nlinkRC = info[reg[n].info].nlinkRC - 1
           /\ \A m \in Names : info'[m].transferred = info[m].transferred
           /\ \A m \in Names \ {reg[n].info} : info'[m].nlinkRC = info[m].nlinkRC
<1> DEFINE h == reg[n].info
           x == [info[h] EXCEPT !.lock = NoName, !.nlinkRC = @ - 1]
<1>1. info[h] \in InfoType
  BY DEF Types
<1>2. x.nlinkRC = info[h].nlinkRC - 1 /\ x.transferred = info[h].transferred
  BY <1>1 DEF InfoType
<1>3. info' = [info EXCEPT ![h] = x]
  BY Zenon DEF EndTransfer, At
<1> HIDE DEF x
<1>4. \A m \in Names : info'[m] = IF m = h THEN x ELSE info[m]
  BY <1>3 DEF Types
<1> QED
  BY <1>2, <1>4

LEMMA RelinkFailsCounts ==
    ASSUME Types, NEW n \in Names, reg[n].info \in Names, RelinkFails(n)
    PROVE  \A m \in Names : info'[m].transferred = info[m].transferred
<1> DEFINE h == reg[n].info
           x == [info[h] EXCEPT !.lock = n]
<1>1. info[h] \in InfoType
  BY DEF Types
<1>2. x.transferred = info[h].transferred
  BY <1>1 DEF InfoType
<1>3. info' = [info EXCEPT ![h] = x]
  BY Zenon DEF RelinkFails, At
<1> HIDE DEF x
<1>4. \A m \in Names : info'[m] = IF m = h THEN x ELSE info[m]
  BY <1>3 DEF Types
<1> QED
  BY <1>2, <1>4

LEMMA FreedCounts ==
    ASSUME Types, NEW n \in Names, DropInfo(n)
    PROVE  \A m \in Names : /\ info'[m].nlinkRC = info[m].nlinkRC
                            /\ info'[m].transferred = info[m].transferred
<1> DEFINE h == fwd[SrcIno(n)]
           x == [info[h] EXCEPT !.state = "freed"]
<1>1. h \in Names \cup {NoName}
  BY IsKeys DEF Types
<1>2. info' = IF h = NoName THEN info ELSE [info EXCEPT ![h] = x]
  BY Zenon DEF DropInfo, At
<1>3. CASE h = NoName
  BY <1>2, <1>3
<1>4. CASE h # NoName
  <2>1. info[h] \in InfoType
    BY <1>1, <1>4 DEF Types
  <2>2. x.nlinkRC = info[h].nlinkRC /\ x.transferred = info[h].transferred
    BY <2>1 DEF InfoType
  <2> HIDE DEF x
  <2>3. \A m \in Names : info'[m] = IF m = h THEN x ELSE info[m]
    BY <1>2, <1>4 DEF Types
  <2> QED
    BY <2>2, <2>3
<1> QED
  BY <1>3, <1>4

\* Who changes the forward table, the queues, the counts, and where a name gets to.
LEMMA StepMoves ==
    ASSUME Types, Led, NEW n \in Names, NameStep(n)
    PROVE  /\ fwd' = fwd \/ Create(n) \/ DropInfo(n)
           /\ \/ \A h \in Names : info'[h].links = info[h].links
              \/ Create(n) \/ Queue(n) \/ LinkPending(n)
           /\ \/ \A h \in Names : info'[h].transferred = info[h].transferred
              \/ Create(n) \/ Transfer(n)
           /\ \/ \A h \in Names : info'[h].nlinkRC = info[h].nlinkRC
              \/ Create(n) \/ Relink(n) \/ EndTransfer(n) \/ failed' = TRUE
           /\ reg'[n].pending = reg[n].pending \/ Early(n) \/ Queue(n)
           /\ pc'[n] = "linking" =>
                 Transfer(n) \/ (pc[n] = "linking" /\ reg'[n].info = reg[n].info)
           /\ pc'[n] = "dropinfo" => Relink(n)
<1>1. CASE Stat(n)
  BY <1>1, StatDoes DEF Early
<1>2. CASE StatFails(n) \/ Reroll(n) \/ Promote(n) \/ EndRegister(n)
  BY <1>2, PlainDoes DEF Early
<1>3. CASE Lookup(n)
  BY <1>3, LookupDoes DEF Early
<1>4. CASE Create(n)
  BY <1>4, CreateDoes DEF Early
<1>5. CASE Queue(n)
  <2>1. reg[n].info \in Names
    BY <1>5 DEF Led, Queue, At
  <2> QED
    BY <1>5, <2>1, QueueDoes, QueueCounts DEF Early
<1>6. CASE Relink(n)
  <2>1. reg[n].info \in Names
    BY <1>6 DEF Led, Relink, At
  <2> QED
    BY <1>6, <2>1, RelinkDoes, RelinkCounts DEF Early
<1>7. CASE RelinkFails(n)
  <2>1. reg[n].info \in Names
    BY <1>7 DEF Led, RelinkFails, At
  <2> QED
    BY <1>7, <2>1, RelinkFailsDoes, RelinkFailsCounts DEF Early
<1>8. CASE DropInfo(n)
  BY <1>8, DropInfoDoes, FreedCounts DEF Early
<1>9. CASE NewRev(n)
  BY <1>9, NewRevDoes DEF Early
<1>10. CASE LookAgain(n)
  BY <1>10, LookAgainDoes DEF Early
<1>11. CASE CountRev(n) \/ LastRev(n)
  BY <1>11, CountDoes DEF Early
<1>12. CASE DropRev(n)
  BY <1>12, DropRevDoes DEF Early
<1>13. CASE SendJob(n) \/ GiveUp(n) \/ NoJob(n)
  BY <1>13, DecideDoes DEF Early
<1>14. CASE Finish(n)
  BY <1>14, FinishDoes DEF Early
<1>15. CASE FinishFails(n)
  BY <1>15, FinishFailsDoes DEF Early
<1>16. CASE Handle(n)
  BY <1>16, HandleDoes DEF Early
<1>17. CASE Transfer(n)
  <2>1. reg[n].info \in Names
    BY <1>17 DEF Led, Transfer, At
  <2> QED
    BY <1>17, <2>1, TransferDoes, TransferCounts DEF Early
<1>18. CASE LinkPending(n)
  <2>1. reg[n].info \in Names
    BY <1>18 DEF Led, LinkPending, At
  <2> QED
    BY <1>18, <2>1, LinkPendingDoes, LinkPendingCounts DEF Early
<1>19. CASE EndTransfer(n)
  <2>1. reg[n].info \in Names
    BY <1>19 DEF Led, EndTransfer, At
  <2> QED
    BY <1>19, <2>1, EndTransferDoes, EndTransferCounts DEF Early
<1>20. CASE DropGroup(n) \/ DropForeign(n)
  BY <1>20, DropGroupDoes DEF Early
<1> QED
  BY <1>1, <1>2, <1>3, <1>4, <1>5, <1>6, <1>7, <1>8, <1>9, <1>10, <1>11, <1>12, <1>13,
     <1>14, <1>15, <1>16, <1>17, <1>18, <1>19, <1>20, Zenon
     DEF NameStep, Register, HandleTransfer

LEMMA QuietStep ==
    ASSUME Types, Led, Registering, Kinship,
           NEW n \in Names, NameStep(n)
    PROVE  Quiet(n)'
<1>1. Quiet(n) /\ Sure(n)
  BY DEF Kinship, AllQuiet, Registering
<1>2. CASE Stat(n)
  BY <1>2, <1>1, Booleans, StatDoes DEF Quiet, SameFile, Sure
<1>3. CASE StatFails(n) \/ Reroll(n) \/ Promote(n) \/ EndRegister(n)
  BY <1>3, <1>1, Booleans, PlainDoes DEF Quiet, SameFile, Sure
<1>4. CASE Lookup(n)
  BY <1>4, <1>1, Booleans, LookupDoes DEF Quiet, SameFile, Sure
<1>5. CASE Create(n)
  BY <1>5, <1>1, Booleans, CreateDoes DEF Quiet, SameFile, Sure
<1>6. CASE Queue(n)
  <2>1. reg[n].info \in Names
    BY <1>6 DEF Led, Queue, At
  <2> QED
    BY <1>6, <1>1, Booleans, <2>1, QueueDoes DEF Quiet, SameFile, Sure
<1>7. CASE Relink(n)
  <2>1. reg[n].info \in Names
    BY <1>7 DEF Led, Relink, At
  <2> QED
    BY <1>7, <1>1, Booleans, <2>1, RelinkDoes DEF Quiet, SameFile, Sure
<1>8. CASE RelinkFails(n)
  <2>1. reg[n].info \in Names
    BY <1>8 DEF Led, RelinkFails, At
  <2> QED
    BY <1>8, <1>1, Booleans, <2>1, RelinkFailsDoes DEF Quiet, SameFile, Sure
<1>9. CASE DropInfo(n)
  BY <1>9, <1>1, Booleans, DropInfoDoes DEF Quiet, SameFile, Sure
<1>10. CASE NewRev(n)
  BY <1>10, <1>1, Booleans, NewRevDoes DEF Quiet, SameFile, Sure
<1>11. CASE LookAgain(n)
  BY <1>11, <1>1, Booleans, LookAgainDoes DEF Quiet, SameFile, Sure
<1>12. CASE CountRev(n) \/ LastRev(n)
  BY <1>12, <1>1, Booleans, CountDoes DEF Quiet, SameFile, Sure
<1>13. CASE DropRev(n)
  BY <1>13, <1>1, Booleans, DropRevDoes DEF Quiet, SameFile, Sure
<1>14. CASE SendJob(n) \/ GiveUp(n) \/ NoJob(n)
  BY <1>14, <1>1, Booleans, DecideDoes DEF Quiet, SameFile, Sure
<1>15. CASE Finish(n)
  BY <1>15, <1>1, Booleans, FinishDoes DEF Quiet, SameFile, Sure
<1>16. CASE FinishFails(n)
  BY <1>16, <1>1, Booleans, FinishFailsDoes DEF Quiet, SameFile, Sure
<1>17. CASE Handle(n)
  BY <1>17, <1>1, Booleans, HandleDoes DEF Quiet, SameFile, Sure
<1>18. CASE Transfer(n)
  <2>1. reg[n].info \in Names
    BY <1>18 DEF Led, Transfer, At
  <2> QED
    BY <1>18, <1>1, Booleans, <2>1, TransferDoes DEF Quiet, SameFile, Sure
<1>19. CASE LinkPending(n)
  <2>1. reg[n].info \in Names
    BY <1>19 DEF Led, LinkPending, At
  <2> QED
    BY <1>19, <1>1, Booleans, <2>1, LinkPendingDoes DEF Quiet, SameFile, Sure
<1>20. CASE EndTransfer(n)
  <2>1. reg[n].info \in Names
    BY <1>20 DEF Led, EndTransfer, At
  <2> QED
    BY <1>20, <1>1, Booleans, <2>1, EndTransferDoes DEF Quiet, SameFile, Sure
<1>21. CASE DropGroup(n) \/ DropForeign(n)
  BY <1>21, <1>1, Booleans, DropGroupDoes DEF Quiet, SameFile, Sure
<1> QED
  BY <1>2, <1>3, <1>4, <1>5, <1>6, <1>7, <1>8, <1>9, <1>10, <1>11, <1>12, <1>13, <1>14,
     <1>15, <1>16, <1>17, <1>18, <1>19, <1>20, <1>21, Zenon
     DEF NameStep, Register, HandleTransfer

LEMMA MadeStays ==
    ASSUME Types, Led, Registering, NEW n \in Names, NameStep(n), NEW h \in Names, Made(h)
    PROVE  Made(h)'
<1>1. CASE LinkPending(n)
  <2>1. pc' = pc /\ reg' = reg
    BY <1>1, LinkPendingDoes DEF Led, LinkPending, At
  <2> QED
    BY <2>1 DEF Made, Early
<1>2. CASE ~LinkPending(n)
  <2>1. Moves(n) /\ (Early(n)' => Early(n)) /\ (Early(n) \/ reg'[n].first = reg[n].first)
    BY <1>2, WaitingMoves
  <2> QED
    BY <2>1 DEF Made, Early, Moves
<1> QED
  BY <1>1, <1>2

LEMMA FoundKinStep ==
    ASSUME Types, Led, Registering, FoundKin, NEW n \in Names, NameStep(n)
    PROVE  FoundKin'
<1>0. UNCHANGED source
  BY HandMoves
<1>1. fwd' \in [Keys -> Names \cup {NoName}]
  BY LedStep DEF Types
<1> SUFFICES ASSUME NEW k \in Keys, NEW h \in Names, fwd'[k] = h
             PROVE  SrcIno(h) = k /\ Made(h)'
  <2>1. ASSUME NEW k \in Keys, fwd'[k] # NoName
        PROVE  SrcIno(fwd[k])' = k /\ Made(fwd[k])'
    <3>1. fwd'[k] \in Names
      BY <1>1, <2>1
    <3>2. \A h \in Names : fwd'[k] = h => SrcIno(h) = k /\ ~Early(h)' /\ reg'[h].first = TRUE
      BY <2>1 DEF Made
    <3> QED
      BY <1>0, <3>1, <3>2 DEF SrcIno, Made, Early
  <2> QED
    BY <2>1 DEF FoundKin, SrcIno, Made, Early
<1>2. ASSUME fwd[k] = h
      PROVE  SrcIno(h) = k /\ Made(h)'
  <2>1. SrcIno(h) = k /\ Made(h)
    BY <1>2, NamesAssumption DEF FoundKin
  <2> QED
    BY <2>1, MadeStays
<1>3. CASE Create(n)
  <2>1. /\ fwd' = [fwd EXCEPT ![SrcIno(n)] = n] /\ pc'[n] = "dest" /\ reg'[n].first = TRUE
    BY <1>3, CreateDoes
  <2>2. CASE k = SrcIno(n)
    <3>1. h = n
      BY <2>1, <2>2 DEF Types
    <3> QED
      BY <2>1, <2>2, <3>1 DEF Made, Early
  <2>3. CASE k # SrcIno(n)
    <3>1. fwd'[k] = fwd[k]
      BY <2>1, <2>3 DEF Types
    <3> QED
      BY <1>2, <3>1
  <2> QED
    BY <2>2, <2>3
<1>4. CASE DropInfo(n)
  <2>1. fwd' = [fwd EXCEPT ![SrcIno(n)] = NoName]
    BY <1>4, DropInfoDoes
  <2>2. fwd'[k] = fwd[k]
    BY <2>1, NamesAssumption DEF Types
  <2> QED
    BY <1>2, <2>2
<1>5. CASE fwd' = fwd
  BY <1>2, <1>5
<1> QED
  BY <1>3, <1>4, <1>5, StepMoves

LEMMA InfoKinStep ==
    ASSUME Types, Led, Registering, FoundKin, InfoKin, NEW n \in Names, NameStep(n)
    PROVE  InfoKin'
<1> SUFFICES ASSUME NEW m \in Names, pc'[m] \in {"link", "transfer", "linking"}
             PROVE  Kin(m, reg[m].info)'
  BY DEF InfoKin, Kin, Made, Early
<1>1. /\ UNCHANGED source /\ \A k \in Names \ {n} : pc'[k] = pc[k] /\ reg'[k] = reg[k]
      /\ pc'[n] \in {"link", "transfer", "linking"} =>
            \/ fwd[SrcIno(n)] # NoName /\ reg'[n].info = fwd[SrcIno(n)]
            \/ pc[n] \in {"link", "transfer", "linking"} /\ reg'[n].info = reg[n].info
  BY HandMoves
<1>2. ASSUME NEW h \in Names, Kin(m, h), reg'[m].info = h
      PROVE  Kin(m, reg[m].info)'
  <2>1. Made(h)'
    BY <1>2, MadeStays DEF Kin
  <2> QED
    BY <1>1, <1>2, <2>1 DEF Kin, SrcIno, Made, Early
<1>3. CASE m = n /\ fwd[SrcIno(n)] # NoName /\ reg'[n].info = fwd[SrcIno(n)]
  <2>1. fwd[SrcIno(n)] \in Names /\ SrcIno(n) \in Keys
    BY <1>3, IsKeys DEF Types
  <2>2. Kin(n, fwd[SrcIno(n)])
    BY <1>3, <2>1 DEF FoundKin, Kin
  <2> QED
    BY <1>2, <1>3, <2>1, <2>2
<1>4. CASE pc[m] \in {"link", "transfer", "linking"} /\ reg'[m].info = reg[m].info
  <2>1. reg[m].info \in Names /\ Kin(m, reg[m].info)
    BY <1>4 DEF Led, InfoKin
  <2> QED
    BY <1>2, <1>4, <2>1
<1> QED
  BY <1>1, <1>3, <1>4

LEMMA TransferredKept ==
    ASSUME Types, Led, NEW n \in Names, NameStep(n),
           NEW h \in Names, Made(h), info[h].transferred = TRUE
    PROVE  info'[h].transferred = TRUE
<1>1. CASE Create(n)
  <2>1. pc[n] = "create" /\ \A m \in Names \ {n} : info'[m] = info[m]
    BY <1>1, CreateDoes
  <2> QED
    BY <2>1 DEF Made, Early
<1>2. CASE Transfer(n)
  <2>1. reg[n].info \in Names
    BY <1>2 DEF Led, Transfer, At
  <2> QED
    BY <1>2, <2>1, TransferCounts
<1>3. CASE \A m \in Names : info'[m].transferred = info[m].transferred
  BY <1>3
<1> QED
  BY <1>1, <1>2, <1>3, StepMoves

LEMMA MarkedStep ==
    ASSUME Types, Led, InfoKin, Marked, NEW n \in Names, NameStep(n)
    PROVE  Marked'
<1> SUFFICES ASSUME NEW m \in Names, pc'[m] = "linking"
             PROVE  info'[reg'[m].info].transferred = TRUE
  BY DEF Marked
<1>1. CASE m = n /\ Transfer(n)
  <2>1. reg[n].info \in Names
    BY <1>1 DEF Led, Transfer, At
  <2> QED
    BY <1>1, <2>1, TransferDoes, TransferCounts
<1>2. CASE pc[m] = "linking" /\ reg'[m].info = reg[m].info
  <2>1. reg[m].info \in Names /\ Made(reg[m].info) /\ info[reg[m].info].transferred = TRUE
    BY <1>2 DEF Led, InfoKin, Kin, Marked
  <2> QED
    BY <1>2, <2>1, TransferredKept
<1>3. CASE m # n
  BY <1>2, <1>3, HandMoves
<1> QED
  BY <1>1, <1>2, <1>3, StepMoves

\* A queue gets one name more, or one less, or stays as it is.
LEMMA QueuesSame ==
    ASSUME Types, Led, QueueKin, NEW n \in Names, NameStep(n), ~Queue(n), ~LinkPending(n)
    PROVE  \A h \in Names : info'[h].links = info[h].links
<1>1. CASE Create(n)
  <2>1. /\ pc[n] = "create" /\ info'[n].links = {}
        /\ \A m \in Names \ {n} : info'[m] = info[m]
    BY <1>1, CreateDoes
  <2>2. info[n].links \subseteq Names
    BY InfoValues DEF Types
  <2>3. info[n].links = {}
    BY <2>1, <2>2 DEF QueueKin, Kin, Made, Early
  <2> QED
    BY <2>1, <2>3
<1> QED
  BY <1>1, StepMoves

LEMMA QueuesGrow ==
    ASSUME Types, Led, QueueKin, NEW n \in Names, NameStep(n),
           NEW h \in Names, NEW m \in Names, m \in info'[h].links
    PROVE  m \in info[h].links \/ (Queue(n) /\ m = n /\ h = reg[n].info)
<1>1. CASE Queue(n)
  <2>1. reg[n].info \in Names
    BY <1>1 DEF Led, Queue, At
  <2>2. /\ \A k \in Names \ {reg[n].info} : info'[k].links = info[k].links
        /\ info'[reg[n].info].links = info[reg[n].info].links \cup {n}
    BY <1>1, <2>1, QueueDoes
  <2> QED
    BY <1>1, <2>2
<1>2. CASE LinkPending(n)
  <2>1. reg[n].info \in Names
    BY <1>2 DEF Led, LinkPending, At
  <2>2. /\ \A k \in Names \ {reg[n].info} : info'[k].links = info[k].links
        /\ \E k \in Names : LinksOne(n, k)
    BY <1>2, <2>1, LinkPendingDoes
  <2> QED
    BY <2>2 DEF LinksOne
<1> QED
  BY <1>1, <1>2, QueuesSame

LEMMA QueueKinStep ==
    ASSUME Types, Led, Registering, Kinship, NEW n \in Names, NameStep(n)
    PROVE  QueueKin'
<1> SUFFICES ASSUME NEW h \in Names, NEW m \in Names, m \in info'[h].links
             PROVE  Kin(m, h)' /\ reg'[m].pending = TRUE
  BY DEF QueueKin, Kin, Made, Early
<1>1. m \in info[h].links \/ (Queue(n) /\ m = n /\ h = reg[n].info)
  BY QueuesGrow DEF Kinship
<1>2. UNCHANGED source /\ \A k \in Names \ {n} : reg'[k] = reg[k]
  BY HandMoves
<1>3. CASE m \in info[h].links
  <2>1. Kin(m, h) /\ reg[m].pending = TRUE /\ ~Early(m)
    BY <1>3 DEF Kinship, QueueKin, Registering, Waiting
  <2>2. Kin(m, h)'
    BY <1>2, <2>1, MadeStays DEF Kin, SrcIno
  <2>3. reg'[m].pending = TRUE
    <3>1. CASE m # n
      BY <1>2, <2>1, <3>1
    <3>2. CASE m = n
      <4>1. ~Queue(n)
        BY <2>1, <3>2 DEF Queue, Kinship, AllQuiet, Quiet, At
      <4> QED
        BY <2>1, <3>2, <4>1, StepMoves
    <3> QED
      BY <3>1, <3>2
  <2> QED
    BY <2>2, <2>3
<1>4. CASE Queue(n) /\ m = n /\ h = reg[n].info
  <2>1. pc[n] = "link"
    BY <1>4 DEF Queue, At
  <2>2. Kin(n, h)
    BY <1>4, <2>1 DEF Kinship, InfoKin
  <2>3. reg'[n].pending = TRUE
    BY <1>4, QueueDoes
  <2>4. Kin(n, h)'
    BY <1>2, <2>2, MadeStays DEF Kin, SrcIno
  <2> QED
    BY <1>4, <2>3, <2>4
<1> QED
  BY <1>1, <1>3, <1>4

LEMMA OneQueueStep ==
    ASSUME Types, Led, Kinship, NEW n \in Names, NameStep(n)
    PROVE  OneQueue'
<1> SUFFICES ASSUME NEW h \in Names, NEW g \in Names, NEW m \in Names,
                    m \in info'[h].links, m \in info'[g].links
             PROVE  h = g
  BY DEF OneQueue
<1>1. m \in info[h].links \/ (Queue(n) /\ m = n /\ h = reg[n].info)
  BY QueuesGrow DEF Kinship
<1>2. m \in info[g].links \/ (Queue(n) /\ m = n /\ g = reg[n].info)
  BY QueuesGrow DEF Kinship
<1>3. Queue(n) => \A k \in Names : n \notin info[k].links
  BY DEF Queue, Kinship, QueueKin, AllQuiet, Quiet, At
<1> QED
  BY <1>1, <1>2, <1>3 DEF Kinship, OneQueue

LEMMA KinshipStep ==
    ASSUME Types, Led, Registering, Kinship, NEW n \in Names, NameStep(n)
    PROVE  Kinship'
<1>1. FoundKin' /\ InfoKin' /\ Marked' /\ QueueKin' /\ OneQueue'
  BY FoundKinStep, InfoKinStep, MarkedStep, QueueKinStep, OneQueueStep DEF Kinship
<1>2. ASSUME NEW m \in Names PROVE Quiet(m)'
  <2>1. CASE m = n
    BY <2>1, QuietStep
  <2>2. CASE m # n
    BY <2>2, HandMoves DEF Kinship, AllQuiet, Quiet
  <2> QED
    BY <2>1, <2>2
<1> QED
  BY <1>1, <1>2 DEF Kinship, AllQuiet

-----------------------------------------------------------------------------
(***************************************************************************)
(* The names that have been seen and not yet counted: those that are at    *)
(* work and not queued, and those in a queue.                              *)
(***************************************************************************)
Busy(n) == pc[n] \notin {"stat", "done"} /\ reg[n].pending = FALSE
Queued(n) == \E h \in Names : n \in info[h].links
Owed == {n \in Names : Busy(n) \/ Queued(n)}

Ledger == /\ nFinished + Cardinality(Owed) <= filesSeen
          /\ failed = FALSE => nFinished + Cardinality(Owed) = filesSeen

LEMMA BusyMoves ==
    ASSUME Types, Led, Kinship, NEW n \in Names, NameStep(n), ~Queue(n), ~LinkPending(n)
    PROVE  \/ pc[n] = "stat" /\ Busy(n)' /\ filesSeen' = filesSeen + 1 /\ nFinished' = nFinished
           \/ Busy(n)' = Busy(n) /\ filesSeen' = filesSeen /\ nFinished' = nFinished
           \/ Busy(n) /\ ~Busy(n)' /\ filesSeen' = filesSeen /\ nFinished' = nFinished + 1
           \/ failed' = TRUE /\ ~Busy(n)' /\ filesSeen' = filesSeen /\ nFinished' = nFinished
<1>1. pc[n] \in {"job", "handle", "transfer", "linking", "dropgroup"} => reg[n].pending = FALSE
  BY Booleans DEF Kinship, AllQuiet, Quiet
<1>2. CASE Stat(n)
  BY <1>2, <1>1, StatDoes DEF Busy
<1>3. CASE StatFails(n) \/ Reroll(n) \/ Promote(n) \/ EndRegister(n)
  BY <1>3, <1>1, PlainDoes DEF Busy
<1>4. CASE Lookup(n)
  BY <1>4, <1>1, LookupDoes DEF Busy
<1>5. CASE Create(n)
  BY <1>5, <1>1, CreateDoes DEF Busy
<1>6. CASE Queue(n)
  <2>1. reg[n].info \in Names
    BY <1>6 DEF Led, Queue, At
  <2> QED
    BY <1>6, <1>1, <2>1, QueueDoes DEF Busy
<1>7. CASE Relink(n)
  <2>1. reg[n].info \in Names
    BY <1>7 DEF Led, Relink, At
  <2> QED
    BY <1>7, <1>1, <2>1, RelinkDoes DEF Busy
<1>8. CASE RelinkFails(n)
  <2>1. reg[n].info \in Names
    BY <1>8 DEF Led, RelinkFails, At
  <2> QED
    BY <1>8, <1>1, <2>1, RelinkFailsDoes DEF Busy
<1>9. CASE DropInfo(n)
  BY <1>9, <1>1, DropInfoDoes DEF Busy
<1>10. CASE NewRev(n)
  BY <1>10, <1>1, NewRevDoes DEF Busy
<1>11. CASE LookAgain(n)
  BY <1>11, <1>1, LookAgainDoes DEF Busy
<1>12. CASE CountRev(n) \/ LastRev(n)
  BY <1>12, <1>1, CountDoes DEF Busy
<1>13. CASE DropRev(n)
  BY <1>13, <1>1, DropRevDoes DEF Busy
<1>14. CASE SendJob(n) \/ GiveUp(n) \/ NoJob(n)
  <2>1. /\ pc[n] = "decide" /\ reg'[n].pending = reg[n].pending /\ UNCHANGED filesSeen
        /\ \/ pc'[n] = "job" /\ UNCHANGED nFinished
           \/ pc'[n] = "done" /\ failed' = TRUE /\ UNCHANGED nFinished
           \/ /\ pc'[n] = "done"
              /\ nFinished' = IF reg[n].pending THEN nFinished ELSE nFinished + 1
    BY <1>14, DecideDoes
  <2>2. reg[n].pending \in BOOLEAN
    BY Booleans
  <2>3. CASE pc'[n] = "job" /\ UNCHANGED nFinished
    BY <2>1, <2>3 DEF Busy
  <2>4. CASE pc'[n] = "done" /\ failed' = TRUE /\ UNCHANGED nFinished
    BY <2>1, <2>4 DEF Busy
  <2>5. CASE /\ pc'[n] = "done"
             /\ nFinished' = IF reg[n].pending THEN nFinished ELSE nFinished + 1
    <3>1. CASE reg[n].pending = TRUE
      BY <2>1, <2>5, <3>1 DEF Busy
    <3>2. CASE reg[n].pending = FALSE
      BY <2>1, <2>5, <3>2 DEF Busy
    <3> QED
      BY <2>2, <3>1, <3>2
  <2> QED
    BY <2>1, <2>3, <2>4, <2>5
<1>15. CASE Finish(n)
  BY <1>15, <1>1, FinishDoes DEF Busy
<1>16. CASE FinishFails(n)
  BY <1>16, <1>1, FinishFailsDoes DEF Busy
<1>17. CASE Handle(n)
  BY <1>17, <1>1, HandleDoes DEF Busy
<1>18. CASE Transfer(n)
  <2>1. reg[n].info \in Names
    BY <1>18 DEF Led, Transfer, At
  <2> QED
    BY <1>18, <1>1, <2>1, TransferDoes DEF Busy
<1>19. CASE LinkPending(n)
  <2>1. reg[n].info \in Names
    BY <1>19 DEF Led, LinkPending, At
  <2> QED
    BY <1>19, <1>1, <2>1, LinkPendingDoes DEF Busy
<1>20. CASE EndTransfer(n)
  <2>1. reg[n].info \in Names
    BY <1>20 DEF Led, EndTransfer, At
  <2> QED
    BY <1>20, <1>1, <2>1, EndTransferDoes DEF Busy
<1>21. CASE DropGroup(n) \/ DropForeign(n)
  BY <1>21, <1>1, DropGroupDoes DEF Busy
<1> QED
  BY <1>2, <1>3, <1>4, <1>5, <1>6, <1>7, <1>8, <1>9, <1>10, <1>11, <1>12, <1>13, <1>14,
     <1>15, <1>16, <1>17, <1>18, <1>19, <1>20, <1>21, Zenon
     DEF NameStep, Register, HandleTransfer

LEMMA OwedFinite == IsFiniteSet(Owed) /\ Cardinality(Owed) \in Nat
<1>1. Owed \subseteq Names
  BY DEF Owed
<1> QED
  BY <1>1, NamesAssumption, FS_Subset, FS_CardinalityType

\* One name more is owed when it is seen, and one less when it is counted.
LEMMA OwedMoves ==
    ASSUME Types, Led, Registering, Kinship, NEW n \in Names, NameStep(n)
    PROVE  \/ /\ n \notin Owed /\ Owed' = Owed \cup {n}
              /\ filesSeen' = filesSeen + 1 /\ nFinished' = nFinished
           \/ Owed' = Owed /\ filesSeen' = filesSeen /\ nFinished' = nFinished
           \/ /\ \E m \in Owed : Owed' = Owed \ {m}
              /\ filesSeen' = filesSeen /\ nFinished' = nFinished + 1
           \/ /\ failed' = TRUE /\ Owed' \subseteq Owed
              /\ filesSeen' = filesSeen /\ nFinished' = nFinished
<1>1. \A m \in Names \ {n} : Busy(m)' = Busy(m)
  BY HandMoves DEF Busy
<1>2. \A m \in Names : Queued(m) => ~Busy(m) /\ pc[m] # "stat"
  BY DEF Kinship, QueueKin, Queued, Busy, Registering, Waiting, Early
<1>3. CASE Queue(n)
  <2>1. reg[n].info \in Names /\ pc[n] = "link"
    BY <1>3 DEF Led, Queue, At
  <2>2. /\ filesSeen' = filesSeen /\ nFinished' = nFinished /\ reg'[n].pending = TRUE
        /\ \A m \in Names \ {reg[n].info} : info'[m].links = info[m].links
        /\ info'[reg[n].info].links = info[reg[n].info].links \cup {n}
    BY <1>3, <2>1, QueueDoes
  <2>3. \A m \in Names \ {n} : Queued(m)' = Queued(m)
    BY <2>1, <2>2 DEF Queued
  <2>4. Queued(n)'
    BY <2>1, <2>2 DEF Queued
  <2>5. Busy(n)
    <3>1. reg[n].pending # TRUE
      BY <2>1 DEF Kinship, AllQuiet, Quiet
    <3> QED
      BY <2>1, <3>1, Booleans DEF Busy
  <2>6. Owed' = Owed
    BY <1>1, <2>3, <2>4, <2>5 DEF Owed
  <2> QED
    BY <2>2, <2>6
<1>4. CASE LinkPending(n)
  <2> DEFINE h == reg[n].info
  <2>1. h \in Names
    BY <1>4 DEF Led, LinkPending, At
  <2>2. /\ pc' = pc /\ reg' = reg /\ filesSeen' = filesSeen /\ nFinished' = nFinished + 1
        /\ \A m \in Names \ {h} : info'[m].links = info[m].links
        /\ \E m \in Names : LinksOne(n, m)
    BY <1>4, <2>1, LinkPendingDoes
  <2>3. PICK m \in Names : LinksOne(n, m)
    BY <2>2
  <2>4. m \in info[h].links /\ info'[h].links = info[h].links \ {m}
    BY <2>3 DEF LinksOne
  <2>5. Queued(m) /\ ~Busy(m)
    BY <1>2, <2>1, <2>4 DEF Queued
  <2>6. ~Queued(m)'
    <3>1. SUFFICES ASSUME NEW g \in Names, m \in info'[g].links PROVE FALSE
      BY DEF Queued
    <3>2. g # h /\ m \in info[g].links
      BY <2>2, <2>4, <3>1
    <3> QED
      BY <2>1, <2>4, <3>2 DEF Kinship, OneQueue
  <2>7. \A k \in Names \ {m} : Queued(k)' = Queued(k)
    BY <2>1, <2>2, <2>4 DEF Queued
  <2>8. \A k \in Names : Busy(k)' = Busy(k)
    BY <2>2 DEF Busy
  <2>9. m \in Owed /\ Owed' = Owed \ {m}
    BY <2>5, <2>6, <2>7, <2>8 DEF Owed
  <2> QED
    BY <2>2, <2>9
<1>5. CASE ~Queue(n) /\ ~LinkPending(n)
  <2>1. \A m \in Names : Queued(m)' = Queued(m)
    BY <1>5, QueuesSame DEF Kinship, Queued
  <2>2. \A m \in Names \ {n} : (m \in Owed') = (m \in Owed)
    BY <1>1, <2>1 DEF Owed
  <2>3. Owed \subseteq Names /\ Owed' \subseteq Names
    BY DEF Owed
  <2>4. CASE pc[n] = "stat" /\ Busy(n)' /\ filesSeen' = filesSeen + 1 /\ nFinished' = nFinished
    <3>1. n \notin Owed /\ n \in Owed'
      BY <1>2, <2>4 DEF Owed, Busy
    <3> QED
      BY <2>2, <2>3, <2>4, <3>1
  <2>5. CASE Busy(n)' = Busy(n) /\ filesSeen' = filesSeen /\ nFinished' = nFinished
    <3>1. (n \in Owed') = (n \in Owed)
      BY <2>1, <2>5 DEF Owed
    <3> QED
      BY <2>2, <2>3, <2>5, <3>1
  <2>6. CASE Busy(n) /\ ~Busy(n)' /\ filesSeen' = filesSeen /\ nFinished' = nFinished + 1
    <3>1. n \in Owed /\ n \notin Owed'
      BY <1>2, <2>1, <2>6 DEF Owed
    <3>2. Owed' = Owed \ {n}
      BY <2>2, <2>3, <3>1
    <3> QED
      BY <2>6, <3>1, <3>2
  <2>7. CASE failed' = TRUE /\ ~Busy(n)' /\ filesSeen' = filesSeen /\ nFinished' = nFinished
    <3>1. n \in Owed' => n \in Owed
      BY <2>1, <2>7 DEF Owed
    <3>2. Owed' \subseteq Owed
      BY <2>2, <2>3, <3>1
    <3> QED
      BY <2>7, <3>2
  <2> QED
    BY <1>5, <2>4, <2>5, <2>6, <2>7, BusyMoves
<1> QED
  BY <1>3, <1>4, <1>5

LEMMA LedgerStep ==
    ASSUME Types, Led, Registering, Kinship, Ledger, NEW n \in Names, NameStep(n)
    PROVE  Ledger'
<1>1. /\ nFinished \in Nat /\ filesSeen \in Nat /\ failed \in BOOLEAN
  BY DEF Types
<1>2. IsFiniteSet(Owed) /\ Cardinality(Owed) \in Nat
  BY OwedFinite
<1>3. failed' = FALSE => failed = FALSE
  BY <1>1, FailedStays
<1>4. CASE /\ n \notin Owed /\ Owed' = Owed \cup {n}
           /\ filesSeen' = filesSeen + 1 /\ nFinished' = nFinished
  <2>1. Cardinality(Owed \cup {n}) = Cardinality(Owed) + 1
    BY <1>2, <1>4, FS_AddElement
  <2>2. Cardinality(Owed') = Cardinality(Owed) + 1
    BY <1>4, <2>1
  <2> QED
    BY <1>1, <1>2, <1>3, <1>4, <2>2 DEF Ledger
<1>5. CASE Owed' = Owed /\ filesSeen' = filesSeen /\ nFinished' = nFinished
  BY <1>1, <1>2, <1>3, <1>5 DEF Ledger
<1>6. CASE /\ \E m \in Owed : Owed' = Owed \ {m}
           /\ filesSeen' = filesSeen /\ nFinished' = nFinished + 1
  <2>1. PICK m \in Owed : Owed' = Owed \ {m}
    BY <1>6
  <2>2. Cardinality(Owed \ {m}) = Cardinality(Owed) - 1
    BY <1>2, <2>1, FS_RemoveElement
  <2>3. Cardinality(Owed') = Cardinality(Owed) - 1
    BY <2>1, <2>2
  <2> QED
    BY <1>1, <1>2, <1>3, <1>6, <2>3 DEF Ledger
<1>7. CASE /\ failed' = TRUE /\ Owed' \subseteq Owed
           /\ filesSeen' = filesSeen /\ nFinished' = nFinished
  <2>1. Cardinality(Owed') <= Cardinality(Owed) /\ Cardinality(Owed') \in Nat
    BY <1>2, <1>7, SmallerSet
  <2> QED
    BY <1>1, <1>2, <1>7, <2>1 DEF Ledger
<1> QED
  BY <1>4, <1>5, <1>6, <1>7, OwedMoves

-----------------------------------------------------------------------------
(***************************************************************************)
(* What holds while no call has failed, of groups that were all there when *)
(* the crawler looked at their first name: a root's entry stays in the     *)
(* table, its count covers all that may count it down, and it has work to  *)
(* do until it has been transferred and its queue is empty.                *)
(***************************************************************************)
MayCount(m) ==
    \/ pc[m] \in {"stat", "lookup", "create", "link", "job", "handle", "transfer", "linking"}
    \/ /\ pc[m] \in {"dest", "newrev", "droprev", "decide"}
       /\ reg[m].should = TRUE \/ reg[m].first = TRUE
May(k) == {m \in Names : SrcIno(m) = k /\ MayCount(m)}
Working == {"dest", "newrev", "droprev", "decide", "job", "handle", "transfer", "linking"}

NoDrops == \A n \in Names : pc[n] # "dropinfo"
AtRoot == \A n \in Names : pc[n] \in {"link", "transfer", "linking"} =>
              fwd[SrcIno(n)] = reg[n].info
QueueAtRoot == \A h \in Names : info[h].links # {} => fwd[SrcIno(h)] = h
CountsSuffice == \A k \in Keys : fwd[k] # NoName => info[fwd[k]].nlinkRC >= Cardinality(May(k))
RootsWork ==
    \A h \in Names :
        /\ fwd[SrcIno(h)] = h /\ source.links[h] > 1
        /\ info[h].transferred = FALSE \/ info[h].links # {}
        => pc[h] \in Working

Whole == NoDrops /\ AtRoot /\ QueueAtRoot /\ CountsSuffice /\ RootsWork

LEMMA FinishGoesOn ==
    ASSUME Types, NEW n \in Names, Finish(n), source.links[n] > 1
    PROVE  pc'[n] = "handle"
<1>1. Goto(n, "handle")
  BY Zenon DEF Finish, At
<1> QED
  BY <1>1 DEF Goto, Types

LEMMA CreateCounts ==
    ASSUME Types, NEW n \in Names, Create(n)
    PROVE  info'[n].nlinkRC = source.links[n]
<1>1. info' = [info EXCEPT ![n] = NewInfo(n)]
  BY Zenon DEF Create, At
<1>2. info'[n] = NewInfo(n)
  BY <1>1 DEF Types
<1> QED
  BY <1>2 DEF NewInfo

LEMMA MayMoves ==
    ASSUME Types, Led, Registering, Kinship, NEW n \in Names, NameStep(n), pc[n] # "dropinfo"
    PROVE  MayCount(n)' => MayCount(n)
<1>1. pc[n] = "link" => reg[n].should = FALSE /\ reg[n].first = FALSE
  BY DEF Kinship, AllQuiet, Quiet, Registering, Sure
<1>2. CASE Stat(n)
  BY <1>2, <1>1, StatDoes DEF MayCount, Early, SameFile
<1>3. CASE StatFails(n) \/ Reroll(n) \/ Promote(n) \/ EndRegister(n)
  BY <1>3, <1>1, PlainDoes DEF MayCount, Early, SameFile
<1>4. CASE Lookup(n)
  BY <1>4, <1>1, LookupDoes DEF MayCount, Early, SameFile
<1>5. CASE Create(n)
  BY <1>5, <1>1, CreateDoes DEF MayCount, Early, SameFile
<1>6. CASE Queue(n)
  <2>1. reg[n].info \in Names
    BY <1>6 DEF Led, Queue, At
  <2> QED
    BY <1>6, <1>1, <2>1, QueueDoes DEF MayCount, Early, SameFile
<1>7. CASE Relink(n)
  <2>1. reg[n].info \in Names
    BY <1>7 DEF Led, Relink, At
  <2> QED
    BY <1>7, <1>1, <2>1, RelinkDoes DEF MayCount, Early, SameFile
<1>8. CASE RelinkFails(n)
  <2>1. reg[n].info \in Names
    BY <1>8 DEF Led, RelinkFails, At
  <2> QED
    BY <1>8, <1>1, <2>1, RelinkFailsDoes DEF MayCount, Early, SameFile
<1>9. CASE DropInfo(n)
  BY <1>9, <1>1, DropInfoDoes DEF MayCount, Early, SameFile
<1>10. CASE NewRev(n)
  BY <1>10, <1>1, NewRevDoes DEF MayCount, Early, SameFile
<1>11. CASE LookAgain(n)
  BY <1>11, <1>1, LookAgainDoes DEF MayCount, Early, SameFile
<1>12. CASE CountRev(n) \/ LastRev(n)
  BY <1>12, <1>1, CountDoes DEF MayCount, Early, SameFile
<1>13. CASE DropRev(n)
  BY <1>13, <1>1, DropRevDoes DEF MayCount, Early, SameFile
<1>14. CASE SendJob(n) \/ GiveUp(n) \/ NoJob(n)
  BY <1>14, <1>1, DecideDoes DEF MayCount, Early, SameFile
<1>15. CASE Finish(n)
  BY <1>15, <1>1, FinishDoes DEF MayCount, Early, SameFile
<1>16. CASE FinishFails(n)
  BY <1>16, <1>1, FinishFailsDoes DEF MayCount, Early, SameFile
<1>17. CASE Handle(n)
  BY <1>17, <1>1, HandleDoes DEF MayCount, Early, SameFile
<1>18. CASE Transfer(n)
  <2>1. reg[n].info \in Names
    BY <1>18 DEF Led, Transfer, At
  <2> QED
    BY <1>18, <1>1, <2>1, TransferDoes DEF MayCount, Early, SameFile
<1>19. CASE LinkPending(n)
  <2>1. reg[n].info \in Names
    BY <1>19 DEF Led, LinkPending, At
  <2> QED
    BY <1>19, <1>1, <2>1, LinkPendingDoes DEF MayCount, Early, SameFile
<1>20. CASE EndTransfer(n)
  <2>1. reg[n].info \in Names
    BY <1>20 DEF Led, EndTransfer, At
  <2> QED
    BY <1>20, <1>1, <2>1, EndTransferDoes DEF MayCount, Early, SameFile
<1>21. CASE DropGroup(n) \/ DropForeign(n)
  BY <1>21, <1>1, DropGroupDoes DEF MayCount, Early, SameFile
<1> QED
  BY <1>2, <1>3, <1>4, <1>5, <1>6, <1>7, <1>8, <1>9, <1>10, <1>11, <1>12, <1>13, <1>14,
     <1>15, <1>16, <1>17, <1>18, <1>19, <1>20, <1>21, Zenon
     DEF NameStep, Register, HandleTransfer

LEMMA WorkMoves ==
    ASSUME Types, Led, Kinship, NEW n \in Names, NameStep(n), failed' = FALSE,
           pc[n] \in Working, reg[n].first = TRUE, fwd[SrcIno(n)] = n, source.links[n] > 1
    PROVE  pc'[n] \in Working \/ EndTransfer(n)
<1>1. reg[n].pending = FALSE /\ source.links[n] > 1 /\ fwd[SrcIno(n)] # NoName
  BY Booleans, NamesAssumption DEF Kinship, AllQuiet, Quiet
<1>2. CASE Stat(n)
  BY <1>2, <1>1, StatDoes DEF Working
<1>3. CASE StatFails(n) \/ Reroll(n) \/ Promote(n) \/ EndRegister(n)
  BY <1>3, <1>1, PlainDoes DEF Working
<1>4. CASE Lookup(n)
  BY <1>4, <1>1, LookupDoes DEF Working
<1>5. CASE Create(n)
  BY <1>5, <1>1, CreateDoes DEF Working
<1>6. CASE Queue(n)
  <2>1. reg[n].info \in Names
    BY <1>6 DEF Led, Queue, At
  <2> QED
    BY <1>6, <1>1, <2>1, QueueDoes DEF Working
<1>7. CASE Relink(n)
  <2>1. reg[n].info \in Names
    BY <1>7 DEF Led, Relink, At
  <2> QED
    BY <1>7, <1>1, <2>1, RelinkDoes DEF Working
<1>8. CASE RelinkFails(n)
  <2>1. reg[n].info \in Names
    BY <1>8 DEF Led, RelinkFails, At
  <2> QED
    BY <1>8, <1>1, <2>1, RelinkFailsDoes DEF Working
<1>9. CASE DropInfo(n)
  BY <1>9, <1>1, DropInfoDoes DEF Working
<1>10. CASE NewRev(n)
  BY <1>10, <1>1, NewRevDoes DEF Working
<1>11. CASE LookAgain(n)
  BY <1>11, <1>1, LookAgainDoes DEF Working
<1>12. CASE CountRev(n) \/ LastRev(n)
  BY <1>12, <1>1, CountDoes DEF Working
<1>13. CASE DropRev(n)
  BY <1>13, <1>1, DropRevDoes DEF Working
<1>14. CASE SendJob(n) \/ GiveUp(n) \/ NoJob(n)
  BY <1>14, <1>1, DecideDoes DEF Working
<1>15. CASE Finish(n)
  BY <1>15, <1>1, FinishGoesOn, FinishDoes DEF Working
<1>16. CASE FinishFails(n)
  BY <1>16, <1>1, FinishFailsDoes DEF Working
<1>17. CASE Handle(n)
  BY <1>17, <1>1, HandleDoes DEF Working
<1>18. CASE Transfer(n)
  <2>1. reg[n].info \in Names
    BY <1>18 DEF Led, Transfer, At
  <2> QED
    BY <1>18, <1>1, <2>1, TransferDoes DEF Working
<1>19. CASE LinkPending(n)
  <2>1. reg[n].info \in Names
    BY <1>19 DEF Led, LinkPending, At
  <2> QED
    BY <1>19, <1>1, <2>1, LinkPendingDoes DEF Working
<1>20. CASE EndTransfer(n)
  <2>1. reg[n].info \in Names
    BY <1>20 DEF Led, EndTransfer, At
  <2> QED
    BY <1>20, <1>1, <2>1, EndTransferDoes DEF Working
<1>21. CASE DropGroup(n) \/ DropForeign(n)
  BY <1>21, <1>1, DropGroupDoes DEF Working
<1> QED
  BY <1>2, <1>3, <1>4, <1>5, <1>6, <1>7, <1>8, <1>9, <1>10, <1>11, <1>12, <1>13, <1>14,
     <1>15, <1>16, <1>17, <1>18, <1>19, <1>20, <1>21, Zenon
     DEF NameStep, Register, HandleTransfer

LEMMA FwdGrows ==
    ASSUME Types, Led, NoDrops, NEW n \in Names, NameStep(n), NEW k \in Keys
    PROVE  /\ fwd[k] # NoName => fwd'[k] = fwd[k]
           /\ fwd'[k] # fwd[k] => Create(n) /\ k = SrcIno(n) /\ fwd'[k] = n
<1>1. CASE Create(n)
  <2>1. fwd' = [fwd EXCEPT ![SrcIno(n)] = n] /\ fwd[SrcIno(n)] = NoName
    BY <1>1, CreateDoes
  <2> QED
    BY <1>1, <2>1 DEF Types
<1>2. ~DropInfo(n)
  BY DropInfoDoes DEF NoDrops
<1> QED
  BY <1>1, <1>2, StepMoves

LEMMA AtRootStep ==
    ASSUME Types, Led, Whole, NEW n \in Names, NameStep(n)
    PROVE  AtRoot'
<1> SUFFICES ASSUME NEW m \in Names, pc'[m] \in {"link", "transfer", "linking"}
             PROVE  fwd'[SrcIno(m)] = reg'[m].info
  BY HandMoves DEF AtRoot, SrcIno
<1>1. /\ \A k \in Names \ {n} : pc'[k] = pc[k] /\ reg'[k] = reg[k]
      /\ pc'[n] \in {"link", "transfer", "linking"} =>
            \/ fwd[SrcIno(n)] # NoName /\ reg'[n].info = fwd[SrcIno(n)]
            \/ pc[n] \in {"link", "transfer", "linking"} /\ reg'[n].info = reg[n].info
  BY HandMoves
<1>2. SrcIno(m) \in Keys
  BY IsKeys
<1>3. CASE m = n /\ fwd[SrcIno(n)] # NoName /\ reg'[n].info = fwd[SrcIno(n)]
  BY <1>2, <1>3, FwdGrows DEF Whole
<1>4. CASE pc[m] \in {"link", "transfer", "linking"} /\ reg'[m].info = reg[m].info
  <2>1. fwd[SrcIno(m)] = reg[m].info /\ reg[m].info \in Names
    BY <1>4 DEF Whole, AtRoot, Led
  <2> QED
    BY <1>2, <1>4, <2>1, FwdGrows, NamesAssumption DEF Whole
<1> QED
  BY <1>1, <1>3, <1>4

LEMMA QueueAtRootStep ==
    ASSUME Types, Led, Kinship, Whole, NEW n \in Names, NameStep(n)
    PROVE  QueueAtRoot'
<1>1. Types' /\ UNCHANGED source
  BY LedStep, HandMoves
<1> SUFFICES ASSUME NEW h \in Names, info'[h].links # {}
             PROVE  fwd'[SrcIno(h)] = h
  BY <1>1 DEF QueueAtRoot, SrcIno
<1>2. info'[h] \in InfoType
  BY <1>1 DEF Types
<1>3. PICK m \in Names : m \in info'[h].links
  BY <1>2, InfoValues
<1>4. m \in info[h].links \/ (Queue(n) /\ m = n /\ h = reg[n].info)
  BY <1>3, QueuesGrow DEF Kinship
<1>5. fwd[SrcIno(h)] = h
  <2>1. CASE m \in info[h].links
    BY <2>1 DEF Whole, QueueAtRoot
  <2>2. CASE Queue(n) /\ h = reg[n].info
    <3>1. pc[n] = "link"
      BY <2>2 DEF Queue, At
    <3> QED
      BY <2>2, <3>1 DEF Whole, AtRoot, Kinship, InfoKin, Kin
  <2> QED
    BY <1>4, <2>1, <2>2
<1> QED
  BY <1>5, IsKeys, FwdGrows, NamesAssumption DEF Whole

LEMMA MayFinite ==
    ASSUME NEW k
    PROVE  IsFiniteSet(May(k)) /\ Cardinality(May(k)) \in Nat
<1>1. May(k) \subseteq Names
  BY DEF May
<1> QED
  BY <1>1, NamesAssumption, FS_Subset, FS_CardinalityType

LEMMA NoDropsStep ==
    ASSUME Types, Led, Whole, NEW n \in Names, NameStep(n)
    PROVE  NoDrops'
<1>1. ASSUME pc'[n] = "dropinfo" PROVE FALSE
  <2> DEFINE h == reg[n].info
             k == SrcIno(n)
  <2>1. Relink(n)
    BY <1>1, StepMoves
  <2>2. pc[n] = "link" /\ h \in Names
    BY <2>1 DEF Relink, Led, At
  <2>3. info[h].nlinkRC = 0
    BY <1>1, <2>1, <2>2, RelinkCounts
  <2>4. fwd[k] = h /\ k \in Keys
    BY <2>2, IsKeys DEF Whole, AtRoot
  <2>5. info[h].nlinkRC >= Cardinality(May(k))
    BY <2>2, <2>4, NamesAssumption DEF Whole, CountsSuffice
  <2>6. {n} \subseteq May(k)
    BY <2>2 DEF May, MayCount
  <2>7. Cardinality({n}) <= Cardinality(May(k)) /\ Cardinality({n}) = 1
    BY <2>6, MayFinite, SmallerSet, FS_Singleton
  <2> HIDE DEF h, k
  <2> QED
    BY <2>3, <2>5, <2>7, MayFinite
<1> QED
  BY <1>1, HandMoves DEF Whole, NoDrops

\* A name that counts its group's entry down is not to count it again.
LEMMA CountedOut ==
    ASSUME Types, Led, Registering, Kinship, Whole, NEW n \in Names,
           Relink(n) \/ EndTransfer(n)
    PROVE  /\ reg[n].info \in Names /\ fwd[SrcIno(n)] = reg[n].info
           /\ SrcIno(reg[n].info) = SrcIno(n)
           /\ n \in May(SrcIno(n)) /\ ~MayCount(n)'
           /\ info'[reg[n].info].nlinkRC = info[reg[n].info].nlinkRC - 1
           /\ \A h \in Names \ {reg[n].info} : info'[h].nlinkRC = info[h].nlinkRC
<1>1. pc[n] \in {"link", "linking"}
  BY DEF Relink, EndTransfer, At
<1>2. /\ reg[n].info \in Names /\ fwd[SrcIno(n)] = reg[n].info
      /\ SrcIno(reg[n].info) = SrcIno(n) /\ n \in May(SrcIno(n))
  BY <1>1 DEF Led, Whole, AtRoot, Kinship, InfoKin, Kin, May, MayCount
<1>3. ~MayCount(n)'
  <2>1. CASE Relink(n)
    <3>1. reg[n].should = FALSE /\ reg[n].first = FALSE
      BY <2>1 DEF Relink, Kinship, AllQuiet, Quiet, Registering, Sure, At
    <3>2. reg' = reg /\ pc'[n] \in {"dest", "dropinfo"}
      BY <1>2, <2>1, RelinkDoes
    <3> QED
      BY <3>1, <3>2 DEF MayCount
  <2>2. CASE EndTransfer(n)
    <3>1. pc'[n] \in {"dropgroup", "done"}
      BY <1>2, <2>2, EndTransferDoes
    <3> QED
      BY <3>1 DEF MayCount
  <2> QED
    BY <2>1, <2>2
<1> QED
  BY <1>2, <1>3, RelinkCounts, EndTransferCounts

LEMMA MayShrinks ==
    ASSUME Types, Led, Registering, Kinship, NoDrops, NEW n \in Names, NameStep(n), NEW k
    PROVE  /\ May(k)' \subseteq May(k)
           /\ Cardinality(May(k)') \in Nat /\ Cardinality(May(k)') <= Cardinality(May(k))
<1>1. /\ UNCHANGED source
      /\ \A m \in Names \ {n} : pc'[m] = pc[m] /\ reg'[m] = reg[m]
  BY HandMoves
<1>2. \A m \in Names : MayCount(m)' => MayCount(m)
  <2>1. MayCount(n)' => MayCount(n)
    BY MayMoves DEF NoDrops
  <2>2. \A m \in Names \ {n} : MayCount(m)' => MayCount(m)
    BY <1>1 DEF MayCount
  <2> QED
    BY <2>1, <2>2
<1>3. May(k)' \subseteq May(k)
  BY <1>1, <1>2 DEF May, SrcIno
<1> QED
  BY <1>3, MayFinite, SmallerSet

LEMMA CountsSufficeStep ==
    ASSUME Types, Led, Registering, Kinship, Whole, Unchanged, failed' = FALSE,
           NEW n \in Names, NameStep(n)
    PROVE  CountsSuffice'
<1>1. Types' /\ UNCHANGED source
  BY LedStep, HandMoves
<1>2. ASSUME NEW k \in Keys, NEW h \in Names, fwd'[k] = h
      PROVE  info'[h].nlinkRC >= Cardinality(May(k)')
  <2>1. /\ May(k)' \subseteq May(k)
        /\ Cardinality(May(k)') \in Nat /\ Cardinality(May(k)') <= Cardinality(May(k))
        /\ IsFiniteSet(May(k)) /\ Cardinality(May(k)) \in Nat
    BY MayShrinks, MayFinite DEF Whole
  <2>2. info'[h].nlinkRC \in Int /\ info[h].nlinkRC \in Int
    BY <1>1, InfoValues DEF Types
  <2>3. CASE Create(n) /\ k = SrcIno(n) /\ h = n
    <3> DEFINE G == {m \in Names : SrcIno(m) = SrcIno(n)}
    <3>1. info'[h].nlinkRC = source.links[n] /\ source.links[n] \in Nat
      BY <2>3, CreateCounts, SourcesAssumption DEF Types
    <3>2. IsFiniteSet(G)
      BY NamesAssumption, FS_Subset
    <3>3. May(k) \subseteq G
      BY <2>3 DEF May
    <3>4. Cardinality(May(k)) <= Cardinality(G) /\ Cardinality(G) \in Nat
      BY <3>2, <3>3, SmallerSet
    <3>5. Cardinality(G) <= source.links[n]
      BY DEF Unchanged
    <3> HIDE DEF G
    <3> QED
      BY <2>1, <3>1, <3>4, <3>5
  <2>4. CASE fwd[k] = h
    <3>1. info[h].nlinkRC >= Cardinality(May(k))
      BY <2>4, NamesAssumption DEF Whole, CountsSuffice
    <3>2. SrcIno(h) = k /\ Made(h)
      BY <2>4, NamesAssumption DEF Kinship, FoundKin
    <3>3. CASE info'[h].nlinkRC = info[h].nlinkRC
      BY <2>1, <2>2, <3>1, <3>3
    <3>4. CASE Create(n)
      <4>1. pc[n] = "create" /\ \A m \in Names \ {n} : info'[m] = info[m]
        BY <3>4, CreateDoes
      <4>2. h # n
        BY <3>2, <4>1 DEF Made, Early
      <4> QED
        BY <3>3, <4>1, <4>2
    <3>5. CASE (Relink(n) \/ EndTransfer(n)) /\ h = reg[n].info
      <4>1. /\ n \in May(k) /\ ~MayCount(n)' /\ info'[h].nlinkRC = info[h].nlinkRC - 1
        BY <3>2, <3>5, CountedOut
      <4>2. May(k)' \subseteq May(k) \ {n}
        BY <2>1, <4>1 DEF May
      <4>3. /\ IsFiniteSet(May(k) \ {n})
            /\ Cardinality(May(k) \ {n}) = Cardinality(May(k)) - 1
        BY <2>1, <4>1, FS_RemoveElement
      <4>4. Cardinality(May(k)') <= Cardinality(May(k) \ {n})
        BY <4>2, <4>3, SmallerSet
      <4> QED
        BY <2>1, <2>2, <3>1, <4>1, <4>3, <4>4
    <3>6. CASE (Relink(n) \/ EndTransfer(n)) /\ h # reg[n].info
      BY <3>3, <3>6, CountedOut
    <3> QED
      BY <3>3, <3>4, <3>5, <3>6, StepMoves
  <2> QED
    BY <1>2, <2>3, <2>4, FwdGrows DEF Whole
<1>3. fwd' \in [Keys -> Names \cup {NoName}]
  BY <1>1 DEF Types
<1>4. ASSUME NEW k \in Keys, fwd'[k] # NoName
      PROVE  info'[fwd'[k]].nlinkRC >= Cardinality(May(k)')
  <2>1. fwd'[k] \in Names
    BY <1>3, <1>4
  <2>2. \A h \in Names : fwd'[k] = h => info'[h].nlinkRC >= Cardinality(May(k)')
    BY <1>2
  <2> QED
    BY <2>1, <2>2
<1> QED
  BY <1>4 DEF CountsSuffice

LEMMA RootsWorkStep ==
    ASSUME Types, Led, Registering, Kinship, Whole, failed' = FALSE,
           NEW n \in Names, NameStep(n)
    PROVE  RootsWork'
<1>1. /\ Types' /\ UNCHANGED source
      /\ \A m \in Names \ {n} : pc'[m] = pc[m] /\ reg'[m] = reg[m]
  BY LedStep, HandMoves
<1> SUFFICES ASSUME NEW h \in Names, fwd'[SrcIno(h)] = h, source.links[h] > 1,
                    info'[h].transferred = FALSE \/ info'[h].links # {}
             PROVE  pc'[h] \in Working
  BY <1>1 DEF RootsWork, SrcIno
<1>2. SrcIno(h) \in Keys
  BY IsKeys
<1>3. CASE Create(n) /\ h = n
  BY <1>3, CreateDoes DEF Working
<1>4. CASE fwd[SrcIno(h)] = h
  <2>1. Made(h)
    BY <1>2, <1>4, NamesAssumption DEF Kinship, FoundKin
  <2>2. info[h].transferred \in BOOLEAN
    BY InfoValues DEF Types
  <2>3. info[h].transferred = FALSE \/ info[h].links # {}
    <3>1. CASE info'[h].transferred = FALSE
      BY <2>1, <2>2, <3>1, TransferredKept
    <3>2. CASE info'[h].links # {}
      <4>1. info'[h] \in InfoType
        BY <1>1 DEF Types
      <4>2. PICK m \in Names : m \in info'[h].links
        BY <3>2, <4>1, InfoValues
      <4>3. m \in info[h].links \/ (Queue(n) /\ h = reg[n].info)
        BY <4>2, QueuesGrow DEF Kinship
      <4> QED
        BY <4>3, QueueCounts
    <3> QED
      BY <3>1, <3>2
  <2>4. pc[h] \in Working
    BY <1>4, <2>3 DEF Whole, RootsWork
  <2>5. CASE h # n
    BY <1>1, <2>4, <2>5
  <2>6. CASE h = n
    <3>1. pc'[n] \in Working \/ EndTransfer(n)
      BY <1>4, <2>1, <2>4, <2>6, WorkMoves DEF Made
    <3>2. ~EndTransfer(n)
      <4> SUFFICES ASSUME EndTransfer(n) PROVE FALSE
        OBVIOUS
      <4>1. pc[n] = "linking"
        BY DEF EndTransfer, At
      <4>2. reg[n].info = n
        BY <1>4, <2>6, <4>1 DEF Whole, AtRoot
      <4>3. info[n].transferred = TRUE
        BY <4>1, <4>2 DEF Kinship, Marked
      <4>4. info'[n].transferred = TRUE
        BY <4>2, <4>3, EndTransferCounts
      <4>5. info'[n].links = {}
        BY <4>2, EndTransferDoes
      <4> QED
        BY <2>6, <4>4, <4>5
    <3> QED
      BY <2>6, <3>1, <3>2
  <2> QED
    BY <2>5, <2>6
<1> QED
  BY <1>2, <1>3, <1>4, FwdGrows DEF Whole

LEMMA WholeStep ==
    ASSUME Types, Led, Registering, Kinship, Whole, Unchanged, failed' = FALSE,
           NEW n \in Names, NameStep(n)
    PROVE  Whole'
<1>1. NoDrops' /\ AtRoot' /\ QueueAtRoot'
  BY NoDropsStep, AtRootStep, QueueAtRootStep
<1> QED
  BY <1>1, CountsSufficeStep, RootsWorkStep DEF Whole

\* The inductive invariant of the counts.
Accounts == /\ Entries /\ Kinship /\ Ledger
            /\ failed = FALSE /\ Unchanged => Whole

LEMMA AccountsInit == Init => Accounts
<1> SUFFICES ASSUME Init PROVE Accounts
  OBVIOUS
<1>1. Entries
  BY EntriesInit
<1>2. /\ pc = [n \in Names |-> "stat"] /\ reg = [n \in Names |-> NoReg]
      /\ fwd = [i \in Keys |-> NoName] /\ info = [n \in Names |-> NoInfo]
      /\ filesSeen = 0 /\ nFinished = 0
  BY DEF Init
<1>3. \A n \in Names : /\ pc[n] = "stat" /\ reg[n].pending = FALSE
                       /\ info[n].links = {} /\ fwd[SrcIno(n)] = NoName
  BY <1>1, <1>2, IsKeys DEF NoReg, NoInfo, Entries
<1>4. Kinship
  BY <1>2, <1>3 DEF Kinship, FoundKin, InfoKin, Marked, QueueKin, OneQueue, AllQuiet, Quiet
<1>5. Ledger
  <2>1. Owed = {}
    BY <1>3 DEF Owed, Busy, Queued
  <2>2. Cardinality(Owed) = 0
    BY <2>1, FS_EmptySet
  <2> QED
    BY <1>2, <2>2 DEF Ledger
<1>6. Whole
  <2>1. NoDrops /\ AtRoot /\ QueueAtRoot
    BY <1>3 DEF NoDrops, AtRoot, QueueAtRoot
  <2>2. CountsSuffice
    BY <1>2 DEF CountsSuffice
  <2>3. RootsWork
    BY <1>3, NamesAssumption DEF RootsWork
  <2> QED
    BY <2>1, <2>2, <2>3 DEF Whole
<1> QED
  BY <1>1, <1>4, <1>5, <1>6 DEF Accounts

LEMMA AccountsStep == Accounts /\ [Next]_vars => Accounts'
<1> SUFFICES ASSUME Accounts, [Next]_vars PROVE Accounts'
  OBVIOUS
<1>1. Entries'
  BY EntriesStep DEF Accounts
<1>2. CASE \E n \in Names : NameStep(n)
  <2>1. PICK n \in Names : NameStep(n)
    BY <1>2
  <2>2. Kinship' /\ Ledger'
    BY <2>1, KinshipStep, LedgerStep DEF Accounts, Entries
  <2>3. ASSUME failed' = FALSE, Unchanged' PROVE Whole'
    <3>1. failed = FALSE
      BY <2>1, <2>3, FailedStays DEF Accounts, Entries, Types
    <3>2. UNCHANGED source
      BY <2>1, HandMoves DEF Accounts, Entries
    <3>3. Unchanged
      BY <2>3, <3>2 DEF Unchanged, SrcIno
    <3> QED
      BY <2>1, <2>3, <3>1, <3>3, WholeStep DEF Accounts, Entries
  <2> QED
    BY <1>1, <2>2, <2>3 DEF Accounts
<1>3. CASE UNCHANGED vars
  <2>1. UNCHANGED <<source, pc, reg, fwd, info, filesSeen, nFinished, failed>>
    BY <1>3 DEF vars, tables
  <2>2. Kinship'
    BY <2>1 DEF Accounts, Kinship, FoundKin, InfoKin, Marked, QueueKin, OneQueue, AllQuiet,
                Quiet, Kin, Made, Early, SrcIno
  <2>3. Ledger'
    BY <2>1 DEF Accounts, Ledger, Owed, Busy, Queued
  <2>4. (failed = FALSE /\ Unchanged => Whole)'
    <3>1. Unchanged' => Unchanged
      BY <2>1 DEF Unchanged, SrcIno
    <3>2. Whole => Whole'
      <4>1. \A k : May(k)' = May(k)
        BY <2>1 DEF May, MayCount, SrcIno
      <4> QED
        BY <2>1, <4>1 DEF Whole, NoDrops, AtRoot, QueueAtRoot, CountsSuffice, RootsWork, SrcIno
    <3> QED
      BY <2>1, <3>1, <3>2 DEF Accounts
  <2> QED
    BY <1>1, <2>2, <2>3, <2>4 DEF Accounts
<1> QED
  BY <1>2, <1>3 DEF Next, Stopped, NameStep

\* In the end nobody is owed: whoever is in a queue has a root at work.
LEMMA NobodyOwed ==
    ASSUME Accounts, Succeeded
    PROVE  Owed = {}
<1>1. failed = FALSE /\ Unchanged /\ \A n \in Names : pc[n] = "done"
  BY DEF Succeeded, AllDone, Accounts, Entries, Types
<1>2. Whole
  BY <1>1 DEF Accounts
<1>3. ASSUME NEW m \in Names, NEW h \in Names, m \in info[h].links PROVE FALSE
  <2>1. Kin(m, h) /\ reg[m].pending = TRUE
    BY <1>3 DEF Accounts, Kinship, QueueKin
  <2>2. m # h
    BY <2>1 DEF Kin, Made, Accounts, Kinship, AllQuiet, Quiet
  <2>3. fwd[SrcIno(h)] = h
    BY <1>2, <1>3 DEF Whole, QueueAtRoot
  <2>4. source.links[h] > 1
    <3> DEFINE G == {n \in Names : SrcIno(n) = SrcIno(h)}
    <3>1. Cardinality({m, h}) = 2
      <4>1. IsFiniteSet({h}) /\ Cardinality({h}) = 1
        BY FS_Singleton
      <4>2. Cardinality({h} \cup {m}) = Cardinality({h}) + 1
        BY <2>2, <4>1, FS_AddElement
      <4>3. {m, h} = {h} \cup {m}
        OBVIOUS
      <4> QED
        BY <4>1, <4>2, <4>3
    <3>2. IsFiniteSet(G)
      BY NamesAssumption, FS_Subset
    <3>3. {m, h} \subseteq G
      BY <2>1 DEF Kin
    <3>4. Cardinality({m, h}) <= Cardinality(G) /\ Cardinality(G) \in Nat
      BY <3>2, <3>3, SmallerSet
    <3>5. Cardinality(G) <= source.links[h]
      BY <1>1 DEF Unchanged
    <3>6. source.links[h] \in Nat
      BY SourcesAssumption DEF Accounts, Entries, Types
    <3> HIDE DEF G
    <3> QED
      BY <3>1, <3>4, <3>5, <3>6
  <2>5. pc[h] \in Working
    BY <1>2, <1>3, <2>3, <2>4 DEF Whole, RootsWork
  <2> QED
    BY <1>1, <2>5 DEF Working
<1> QED
  BY <1>1, <1>3 DEF Owed, Busy, Queued

\* A name that is done is counted once, by its crawler, its finish processor or its
\* root's; all are in the end, if no call failed and no links were made meanwhile.  If an
\* entry that was freed is about to be used, that end does not come.
THEOREM CountedExactly == Spec => []CountedOnce
<1>1. Accounts => CountedOnce
  <2> SUFFICES ASSUME Accounts PROVE CountedOnce
    OBVIOUS
  <2>1. /\ nFinished \in Nat /\ filesSeen \in Nat /\ failed \in BOOLEAN
        /\ Cardinality(Owed) \in Nat
    BY OwedFinite DEF Accounts, Entries, Types
  <2>2. nFinished <= filesSeen
    BY <2>1 DEF Accounts, Ledger
  <2>3. ASSUME Succeeded PROVE nFinished = filesSeen
    <3>1. failed = FALSE
      BY <2>1, <2>3 DEF Succeeded
    <3>2. Cardinality(Owed) = 0
      BY <2>3, NobodyOwed, FS_EmptySet
    <3> QED
      BY <2>1, <3>1, <3>2 DEF Accounts, Ledger
  <2> QED
    BY <2>2, <2>3 DEF CountedOnce
<1> QED
  BY <1>1, AccountsInit, AccountsStep, PTL DEF Spec

-----------------------------------------------------------------------------
(***************************************************************************)
(* The contents, while no call has failed.  A name that is copied, and a   *)
(* root that need not be, holds its source's contents once it is past its  *)
(* job, since nobody else changes it, nor the file that it was copied to.  *)
(* A group whose entry is marked as transferred had its root's transfer,   *)
(* unless two of its names are copied: so what others are linked to is     *)
(* such a name.                                                            *)
(***************************************************************************)
Past == {"handle", "transfer", "linking", "dropgroup", "done"}

Fresh == \A m, n \in Names : dst[m] = NewInode[n] => pc[n] \in Past
Holder(n) == \/ pc[n] \in Past /\ reg[n].should = TRUE
             \/ Made(n) /\ reg[n].should = FALSE
             \/ pc[n] \in {"lookup", "create"} /\ reg[n].orig = FALSE
AllHold == \A n \in Names : Holder(n) => Holds(n)
Handlers == \A n \in Names : pc[n] \in {"handle", "transfer", "linking"} =>
                source.links[n] > 1 /\ (reg[n].should = TRUE \/ reg[n].first = TRUE)
Held == \A n \in Names : pc[n] \in {"link", "transfer", "linking"} =>
            n \in readers /\ fwd[SrcIno(n)] = reg[n].info
RootsServed ==
    \A h \in Names : info[h].transferred = TRUE /\ fwd[SrcIno(h)] = h =>
        pc[h] \in {"linking", "dropgroup", "done"} \/ CopiedTwice(SrcIno(h))
OldRoots ==
    \A m \in Names : Made(m) /\ fwd[SrcIno(m)] # m /\ source.links[m] > 1 =>
        pc[m] \in {"dropgroup", "done"} \/ CopiedTwice(SrcIno(m))
Droppers ==
    \A n \in Names : pc[n] = "dropinfo" =>
        /\ reg[n].info \in Names /\ fwd[SrcIno(n)] = reg[n].info
        /\ info[reg[n].info].transferred = TRUE /\ info[reg[n].info].nlinkRC < 0
OneDropper ==
    \A m, n \in Names : pc[m] = "dropinfo" /\ pc[n] = "dropinfo" /\ SrcIno(m) = SrcIno(n)
                        => m = n

Contents == /\ Fresh /\ AllHold /\ Handlers /\ Held
            /\ RootsServed /\ OldRoots /\ Droppers /\ OneDropper

\* What holds, the jobs and the copies.
LEMMA StatHolds ==
    ASSUME Types, NEW n \in Names, Stat(n)
    PROVE  reg'[n].orig = FALSE => Holds(n)
<1> DEFINE orig == dst[n] = NoInode \/ SrcIno(n) \notin data[dst[n]]
           registers == source.links[n] > 1 \/ Linked(dst[n]) > 1
           r == [NoReg EXCEPT !.ino = dst[n], !.links = Linked(dst[n]), !.orig = orig,
                              !.should = orig, !.first = ~registers]
<1>1. Keep(n, r)
  BY Zenon DEF Stat, At
<1>2. reg'[n] = r
  BY <1>1 DEF Keep, Types
<1>3. r.orig = orig
  BY DEF NoReg
<1> QED
  BY <1>2, <1>3 DEF Holds

LEMMA FinishCopies ==
    ASSUME Types, NEW n \in Names, Finish(n)
    PROVE  /\ reg[n].should = TRUE => /\ dst'[n] = NewInode[n]
                                      /\ data' = [data EXCEPT ![NewInode[n]] = {SrcIno(n)}]
           /\ reg[n].should = FALSE => dst'[n] = dst[n] /\ data' = data
           /\ \A m \in Names \ {n} : dst'[m] = dst[m]
           /\ pc'[n] = "handle" => source.links[n] > 1
<1>1. /\ dst' = [dst EXCEPT ![n] = IF reg[n].should THEN NewInode[n] ELSE dst[n]]
      /\ data' = IF reg[n].should THEN [data EXCEPT ![NewInode[n]] = {SrcIno(n)}] ELSE data
      /\ source.links[n] > 1 \/ Goto(n, "done")
  BY Zenon DEF Finish, Final, At
<1>2. Goto(n, "done") => pc'[n] = "done"
  BY DEF Goto, Types
<1>3. \A m \in Names : dst'[m] = IF m = n THEN (IF reg[n].should THEN NewInode[n] ELSE dst[n])
                                 ELSE dst[m]
  BY <1>1 DEF Types
<1> QED
  BY <1>1, <1>2, <1>3

LEMMA StepCopies ==
    ASSUME Types, Led, NEW n \in Names, NameStep(n), failed' = FALSE
    PROVE  /\ data' = data \/ Finish(n)
           /\ dst' = dst \/ Relink(n) \/ Finish(n) \/ LinkPending(n)
           /\ reg'[n].should = reg[n].should \/ Early(n)
           /\ pc[n] \in Past => pc'[n] \in Past
           /\ pc[n] = "done" => pc'[n] = "done"
           /\ pc[n] = "dropgroup" => pc'[n] = "done"
           /\ pc[n] = "linking" => pc'[n] \in {"linking", "dropgroup", "done"}
           /\ pc'[n] \in Past => pc[n] \in Past \/ Finish(n) \/ reg[n].should = FALSE
           /\ pc'[n] = "create" => reg'[n].orig = reg[n].orig \/ Stat(n)
           /\ pc'[n] = "lookup" => reg'[n].orig = reg[n].orig \/ Stat(n)
           /\ pc'[n] = "handle" => Finish(n)
           /\ pc'[n] \in {"transfer", "linking"} =>
                 /\ pc[n] \in {"handle", "transfer", "linking"}
                 /\ reg'[n].should = reg[n].should /\ reg'[n].first = reg[n].first
<1>0. reg[n].should \in BOOLEAN
  BY Booleans
<1>1. CASE Stat(n)
  BY <1>1, <1>0, StatDoes DEF Early, Past, SameFile
<1>2. CASE StatFails(n) \/ Reroll(n) \/ Promote(n) \/ EndRegister(n)
  BY <1>2, <1>0, PlainDoes DEF Early, Past, SameFile
<1>3. CASE Lookup(n)
  BY <1>3, <1>0, LookupDoes DEF Early, Past, SameFile
<1>4. CASE Create(n)
  BY <1>4, <1>0, CreateDoes DEF Early, Past, SameFile
<1>5. CASE Queue(n)
  <2>1. reg[n].info \in Names
    BY <1>5 DEF Led, Queue, At
  <2> QED
    BY <1>5, <2>1, <1>0, QueueDoes DEF Early, Past, SameFile
<1>6. CASE Relink(n)
  <2>1. reg[n].info \in Names
    BY <1>6 DEF Led, Relink, At
  <2> QED
    BY <1>6, <2>1, <1>0, RelinkDoes DEF Early, Past, SameFile
<1>7. CASE RelinkFails(n)
  <2>1. reg[n].info \in Names
    BY <1>7 DEF Led, RelinkFails, At
  <2> QED
    BY <1>7, <2>1, <1>0, RelinkFailsDoes DEF Early, Past, SameFile
<1>8. CASE DropInfo(n)
  BY <1>8, <1>0, DropInfoDoes DEF Early, Past, SameFile
<1>9. CASE NewRev(n)
  BY <1>9, <1>0, NewRevDoes DEF Early, Past, SameFile
<1>10. CASE LookAgain(n)
  BY <1>10, <1>0, LookAgainDoes DEF Early, Past, SameFile
<1>11. CASE CountRev(n) \/ LastRev(n)
  BY <1>11, <1>0, CountDoes DEF Early, Past, SameFile
<1>12. CASE DropRev(n)
  BY <1>12, <1>0, DropRevDoes DEF Early, Past, SameFile
<1>13. CASE SendJob(n) \/ GiveUp(n) \/ NoJob(n)
  BY <1>13, <1>0, DecideDoes DEF Early, Past, SameFile
<1>14. CASE Finish(n)
  BY <1>14, <1>0, FinishDoes DEF Early, Past, SameFile
<1>15. CASE FinishFails(n)
  BY <1>15, <1>0, FinishFailsDoes DEF Early, Past, SameFile
<1>16. CASE Handle(n)
  BY <1>16, <1>0, HandleDoes DEF Early, Past, SameFile
<1>17. CASE Transfer(n)
  <2>1. reg[n].info \in Names
    BY <1>17 DEF Led, Transfer, At
  <2> QED
    BY <1>17, <2>1, <1>0, TransferDoes DEF Early, Past, SameFile
<1>18. CASE LinkPending(n)
  <2>1. reg[n].info \in Names
    BY <1>18 DEF Led, LinkPending, At
  <2> QED
    BY <1>18, <2>1, <1>0, LinkPendingDoes DEF Early, Past, SameFile
<1>19. CASE EndTransfer(n)
  <2>1. reg[n].info \in Names
    BY <1>19 DEF Led, EndTransfer, At
  <2> QED
    BY <1>19, <2>1, <1>0, EndTransferDoes DEF Early, Past, SameFile
<1>20. CASE DropGroup(n) \/ DropForeign(n)
  BY <1>20, <1>0, DropGroupDoes DEF Early, Past, SameFile
<1> QED
  BY <1>1, <1>2, <1>3, <1>4, <1>5, <1>6, <1>7, <1>8, <1>9, <1>10, <1>11, <1>12, <1>13,
     <1>14, <1>15, <1>16, <1>17, <1>18, <1>19, <1>20, Zenon
     DEF NameStep, Register, HandleTransfer
LEMMA CreateNotYet ==
    ASSUME Types, NEW n \in Names, Create(n)
    PROVE  info'[n].transferred = FALSE
<1>1. info' = [info EXCEPT ![n] = NewInfo(n)]
  BY Zenon DEF Create, At
<1>2. info'[n] = NewInfo(n)
  BY <1>1 DEF Types
<1> QED
  BY <1>2 DEF NewInfo

LEMMA StatAlone ==
    ASSUME Types, NEW n \in Names, Stat(n), pc'[n] = "decide"
    PROVE  ~(source.links[n] > 1)
<1>1. source.links[n] > 1 => Goto(n, "lookup")
  BY Zenon DEF Stat, At
<1>2. Goto(n, "lookup") => pc'[n] = "lookup"
  BY DEF Goto, Types
<1> QED
  BY <1>1, <1>2

LEMMA LateStays ==
    ASSUME Types, Led, Registering, NEW n \in Names, NameStep(n), failed' = FALSE,
           NEW m \in Names, ~Early(m)
    PROVE  /\ ~Early(m)' /\ reg'[m].first = reg[m].first /\ reg'[m].should = reg[m].should
           /\ pc[m] \in Past => pc'[m] \in Past
           /\ pc[m] \in {"dropgroup", "done"} => pc'[m] = "done" \/ pc'[m] = pc[m]
           /\ pc[m] = "linking" => pc'[m] \in {"linking", "dropgroup", "done"}
<1>1. CASE m # n
  BY <1>1, HandMoves DEF Early
<1>2. CASE m = n
  <2>1. CASE LinkPending(n)
    <3>1. reg[n].info \in Names
      BY <2>1 DEF Led, LinkPending, At
    <3>2. pc' = pc /\ reg' = reg
      BY <2>1, <3>1, LinkPendingDoes
    <3> QED
      BY <1>2, <3>2 DEF Early
  <2>2. CASE ~LinkPending(n)
    BY <1>2, <2>2, WaitingMoves, StepCopies
  <2> QED
    BY <2>1, <2>2
<1> QED
  BY <1>1, <1>2

LEMMA TwiceStays ==
    ASSUME Types, Led, Registering, NEW n \in Names, NameStep(n), failed' = FALSE,
           NEW k \in Names, CopiedTwice(SrcIno(k))
    PROVE  CopiedTwice(SrcIno(k))'
<1>1. PICK m \in Names : SrcIno(m) = SrcIno(k) /\ reg[m].should /\ ~reg[m].first /\ ~Early(m)
  BY DEF CopiedTwice, Early
<1>2. /\ ~Early(m)' /\ reg'[m].first = reg[m].first /\ reg'[m].should = reg[m].should
  BY <1>1, LateStays
<1>3. UNCHANGED source
  BY HandMoves
<1>4. reg'[m].should /\ ~reg'[m].first
  BY <1>1, <1>2, Zenon
<1> QED
  BY <1>1, <1>2, <1>3, <1>4 DEF CopiedTwice, Early, SrcIno

LEMMA DstMoves ==
    ASSUME Types, Led, NEW n \in Names, NameStep(n), failed' = FALSE, NEW m \in Names
    PROVE  \/ dst'[m] = dst[m]
           \/ m = n /\ Finish(n)
           \/ /\ m = n /\ Relink(n)
              /\ reg[n].info \in Names /\ dst'[n] = dst[reg[n].info] /\ data' = data
           \/ /\ LinkPending(n) /\ reg[n].info \in Names /\ m \in info[reg[n].info].links
              /\ dst'[m] = dst[n] /\ data' = data
<1>1. CASE Finish(n)
  BY <1>1, FinishCopies
<1>2. CASE Relink(n)
  <2>1. reg[n].info \in Names
    BY <1>2 DEF Led, Relink, At
  <2>2. /\ data' = data /\ \A k \in Names \ {n} : dst'[k] = dst[k]
        /\ dst' = [dst EXCEPT ![n] = dst[reg[n].info]] \/ dst' = dst
    BY <1>2, <2>1, RelinkDoes
  <2> QED
    BY <1>2, <2>1, <2>2 DEF Types
<1>3. CASE LinkPending(n)
  <2>1. reg[n].info \in Names
    BY <1>3 DEF Led, LinkPending, At
  <2>2. data' = data /\ \E k \in Names : LinksOne(n, k)
    BY <1>3, <2>1, LinkPendingDoes
  <2>3. PICK k \in Names : LinksOne(n, k)
    BY <2>2
  <2>4. k \in info[reg[n].info].links /\ dst' = [dst EXCEPT ![k] = dst[n]]
    BY <2>3 DEF LinksOne
  <2> QED
    BY <1>3, <2>1, <2>2, <2>4 DEF Types
<1> QED
  BY <1>1, <1>2, <1>3, StepCopies

LEMMA HoldsKept ==
    ASSUME Types, Led, Fresh, NEW n \in Names, NameStep(n), failed' = FALSE,
           NEW m \in Names, dst'[m] = dst[m], Holds(m)
    PROVE  Holds(m)'
<1>1. UNCHANGED source
  BY HandMoves
<1>2. dst[m] # NoInode /\ SrcIno(m) \in data[dst[m]] /\ dst[m] \in Inodes
  BY DEF Holds, Types
<1>3. data'[dst[m]] = data[dst[m]]
  <2>1. CASE data' = data
    BY <2>1
  <2>2. CASE Finish(n)
    <3>1. pc[n] = "job" /\ reg[n].should \in BOOLEAN
      BY <2>2, FinishDoes, Booleans
    <3>2. dst[m] # NewInode[n]
      BY <3>1 DEF Fresh, Past
    <3>3. data' = data \/ data' = [data EXCEPT ![NewInode[n]] = {SrcIno(n)}]
      BY <2>2, <3>1, FinishCopies
    <3> QED
      BY <1>2, <3>2, <3>3 DEF Types
  <2> QED
    BY <2>1, <2>2, StepCopies
<1> QED
  BY <1>1, <1>2, <1>3 DEF Holds, SrcIno

LEMMA FreshStep ==
    ASSUME Types, Led, Fresh, NEW n \in Names, NameStep(n), failed' = FALSE
    PROVE  Fresh'
<1> SUFFICES ASSUME NEW m \in Names, NEW k \in Names, dst'[m] = NewInode[k]
             PROVE  pc'[k] \in Past
  BY DEF Fresh
<1>1. pc[k] \in Past => pc'[k] \in Past
  BY HandMoves, StepCopies
<1>2. ASSUME NEW x \in Names, dst'[m] = dst[x] PROVE pc'[k] \in Past
  BY <1>1, <1>2 DEF Fresh
<1>3. CASE m = n /\ Finish(n)
  <2>1. reg[n].should \in BOOLEAN /\ pc'[n] \in {"handle", "done"}
    BY <1>3, Booleans, FinishDoes
  <2>2. CASE reg[n].should = TRUE
    <3>1. NewInode[k] = NewInode[n]
      BY <1>3, <2>2, FinishCopies
    <3>2. k = n
      BY <3>1, InodesAssumption
    <3> QED
      BY <2>1, <3>2 DEF Past
  <2>3. CASE reg[n].should = FALSE
    BY <1>2, <1>3, <2>3, FinishCopies
  <2> QED
    BY <2>1, <2>2, <2>3
<1>4. CASE reg[n].info \in Names /\ dst'[m] = dst[reg[n].info]
  BY <1>2, <1>4
<1>5. CASE dst'[m] = dst[m] \/ dst'[m] = dst[n]
  BY <1>2, <1>5
<1> QED
  BY <1>3, <1>4, <1>5, DstMoves

LEMMA HolderMoves ==
    ASSUME Types, Led, Registering, Kinship, NEW n \in Names, NameStep(n), failed' = FALSE,
           ~Stat(n), ~Finish(n)
    PROVE  Holder(n)' => Holder(n)
<1>0. /\ reg[n].should \in BOOLEAN /\ reg[n].orig \in BOOLEAN
      /\ pc[n] = "create" => reg[n].should = reg[n].orig
      /\ pc[n] \in {"link", "dropinfo"} => reg[n].first = FALSE
      /\ pc[n] = "lookup" => reg[n].first = FALSE
  BY Booleans DEF Registering, Sure
<1>1. CASE Stat(n)
  BY <1>1, <1>0, StatDoes DEF Holder, Made, Early, Past, SameFile
<1>2. CASE StatFails(n) \/ Reroll(n) \/ Promote(n) \/ EndRegister(n)
  BY <1>2, <1>0, PlainDoes DEF Holder, Made, Early, Past, SameFile
<1>3. CASE Lookup(n)
  BY <1>3, <1>0, LookupDoes DEF Holder, Made, Early, Past, SameFile
<1>4. CASE Create(n)
  BY <1>4, <1>0, CreateDoes DEF Holder, Made, Early, Past, SameFile
<1>5. CASE Queue(n)
  <2>1. reg[n].info \in Names
    BY <1>5 DEF Led, Queue, At
  <2> QED
    BY <1>5, <2>1, <1>0, QueueDoes DEF Holder, Made, Early, Past, SameFile
<1>6. CASE Relink(n)
  <2>1. reg[n].info \in Names
    BY <1>6 DEF Led, Relink, At
  <2> QED
    BY <1>6, <2>1, <1>0, RelinkDoes DEF Holder, Made, Early, Past, SameFile
<1>7. CASE RelinkFails(n)
  <2>1. reg[n].info \in Names
    BY <1>7 DEF Led, RelinkFails, At
  <2> QED
    BY <1>7, <2>1, <1>0, RelinkFailsDoes DEF Holder, Made, Early, Past, SameFile
<1>8. CASE DropInfo(n)
  BY <1>8, <1>0, DropInfoDoes DEF Holder, Made, Early, Past, SameFile
<1>9. CASE NewRev(n)
  BY <1>9, <1>0, NewRevDoes DEF Holder, Made, Early, Past, SameFile
<1>10. CASE LookAgain(n)
  BY <1>10, <1>0, LookAgainDoes DEF Holder, Made, Early, Past, SameFile
<1>11. CASE CountRev(n) \/ LastRev(n)
  BY <1>11, <1>0, CountDoes DEF Holder, Made, Early, Past, SameFile
<1>12. CASE DropRev(n)
  BY <1>12, <1>0, DropRevDoes DEF Holder, Made, Early, Past, SameFile
<1>13. CASE SendJob(n) \/ GiveUp(n) \/ NoJob(n)
  BY <1>13, <1>0, DecideDoes DEF Holder, Made, Early, Past, SameFile
<1>14. CASE Finish(n)
  BY <1>14, <1>0, FinishDoes DEF Holder, Made, Early, Past, SameFile
<1>15. CASE FinishFails(n)
  BY <1>15, <1>0, FinishFailsDoes DEF Holder, Made, Early, Past, SameFile
<1>16. CASE Handle(n)
  BY <1>16, <1>0, HandleDoes DEF Holder, Made, Early, Past, SameFile
<1>17. CASE Transfer(n)
  <2>1. reg[n].info \in Names
    BY <1>17 DEF Led, Transfer, At
  <2> QED
    BY <1>17, <2>1, <1>0, TransferDoes DEF Holder, Made, Early, Past, SameFile
<1>18. CASE LinkPending(n)
  <2>1. reg[n].info \in Names
    BY <1>18 DEF Led, LinkPending, At
  <2> QED
    BY <1>18, <2>1, <1>0, LinkPendingDoes DEF Holder, Made, Early, Past, SameFile
<1>19. CASE EndTransfer(n)
  <2>1. reg[n].info \in Names
    BY <1>19 DEF Led, EndTransfer, At
  <2> QED
    BY <1>19, <2>1, <1>0, EndTransferDoes DEF Holder, Made, Early, Past, SameFile
<1>20. CASE DropGroup(n) \/ DropForeign(n)
  BY <1>20, <1>0, DropGroupDoes DEF Holder, Made, Early, Past, SameFile
<1> QED
  BY <1>1, <1>2, <1>3, <1>4, <1>5, <1>6, <1>7, <1>8, <1>9, <1>10, <1>11, <1>12, <1>13,
     <1>14, <1>15, <1>16, <1>17, <1>18, <1>19, <1>20, Zenon
     DEF NameStep, Register, HandleTransfer

LEMMA AllHoldStep ==
    ASSUME Types, Led, Registering, Kinship, Fresh, AllHold,
           NEW n \in Names, NameStep(n), failed' = FALSE
    PROVE  AllHold'
<1> SUFFICES ASSUME NEW m \in Names, Holder(m)'
             PROVE  Holds(m)'
  BY DEF AllHold
<1>1. UNCHANGED source /\ \A k \in Names \ {n} : pc'[k] = pc[k] /\ reg'[k] = reg[k]
  BY HandMoves
<1>2. CASE m = n /\ Stat(n)
  <2>1. /\ dst' = dst /\ data' = data /\ reg'[n].should = reg'[n].orig
        /\ pc'[n] \in {"lookup", "decide"}
    BY <1>2, StatDoes
  <2>2. reg'[n].orig = FALSE
    BY <1>2, <2>1 DEF Holder, Past
  <2>3. Holds(n)
    BY <1>2, <2>2, StatHolds
  <2> QED
    BY <1>1, <1>2, <2>1, <2>3 DEF Holds, SrcIno
<1>3. CASE m = n /\ Finish(n) /\ reg[n].should = TRUE
  <2>1. /\ dst'[n] = NewInode[n] /\ data' = [data EXCEPT ![NewInode[n]] = {SrcIno(n)}]
    BY <1>3, FinishCopies
  <2>2. NewInode[n] \in Inodes /\ NewInode[n] # NoInode
    BY InodesAssumption DEF Inodes, NewInodes, NoInode
  <2> QED
    BY <1>1, <1>3, <2>1, <2>2 DEF Holds, SrcIno, Types
<1>4. CASE Holder(m)
  <2>1. Holds(m)
    BY <1>4 DEF AllHold
  <2>2. ~(m = n /\ Relink(n))
    <3>1. ASSUME Relink(n) PROVE ~Holder(n)
      <4>1. /\ pc[n] = "link" /\ reg[n].first = FALSE
        BY <3>1 DEF Relink, Registering, Sure, At
      <4> QED
        BY <4>1 DEF Holder, Past, Made
    <3> QED
      BY <1>4, <3>1
  <2>3. ~\E h \in Names : m \in info[h].links
    <3>1. ASSUME NEW h \in Names, m \in info[h].links PROVE FALSE
      <4>1. reg[m].should = FALSE /\ reg[m].first = FALSE /\ ~Early(m)
        BY <3>1 DEF Kinship, QueueKin, AllQuiet, Quiet, Registering, Waiting
      <4> QED
        BY <1>4, <4>1 DEF Holder, Made, Early
    <3> QED
      BY <3>1
  <2>4. CASE m = n /\ Finish(n)
    <3>1. reg[n].should \in BOOLEAN
      BY Booleans
    <3>2. reg[n].should = FALSE => dst'[n] = dst[n]
      BY <2>4, FinishCopies
    <3> QED
      BY <1>3, <2>1, <2>4, <3>1, <3>2, HoldsKept
  <2>5. CASE dst'[m] = dst[m]
    BY <2>1, <2>5, HoldsKept
  <2> QED
    BY <2>2, <2>3, <2>4, <2>5, DstMoves
<1>5. CASE m # n
  <2>1. Holder(m)
    BY <1>1, <1>5 DEF Holder, Made, Early
  <2> QED
    BY <1>4, <2>1
<1>6. CASE m = n /\ Finish(n) /\ reg[n].should = FALSE
  <2>1. pc[n] = "job" /\ reg[n].first = TRUE
    BY <1>6, FinishDoes DEF Registering, Sure
  <2>2. Holder(n)
    BY <1>6, <2>1 DEF Holder, Made, Early
  <2> QED
    BY <1>4, <1>6, <2>2
<1>7. CASE m = n /\ ~Stat(n) /\ ~Finish(n)
  BY <1>4, <1>7, HolderMoves
<1>8. reg[n].should \in BOOLEAN
  BY Booleans
<1> QED
  BY <1>2, <1>3, <1>5, <1>6, <1>7, <1>8
LEMMA HandlersStep ==
    ASSUME Types, Led, Registering, Handlers, NEW n \in Names, NameStep(n), failed' = FALSE
    PROVE  Handlers'
<1>1. UNCHANGED source /\ \A k \in Names \ {n} : pc'[k] = pc[k] /\ reg'[k] = reg[k]
  BY HandMoves
<1>2. ASSUME pc'[n] \in {"handle", "transfer", "linking"}
      PROVE  source.links[n] > 1 /\ (reg'[n].should = TRUE \/ reg'[n].first = TRUE)
  <2>1. CASE pc'[n] = "handle"
    <3>1. Finish(n)
      BY <2>1, StepCopies
    <3>2. /\ pc[n] = "job" /\ reg[n].should \in BOOLEAN
          /\ reg'[n].should = reg[n].should /\ reg'[n].first = reg[n].first
      BY <3>1, FinishDoes, Booleans
    <3>3. reg[n].should = FALSE => reg[n].first = TRUE
      BY <3>2 DEF Registering, Sure
    <3> QED
      BY <2>1, <3>1, <3>2, <3>3, FinishCopies
  <2>2. CASE pc'[n] \in {"transfer", "linking"}
    BY <2>2, StepCopies DEF Handlers
  <2> QED
    BY <1>2, <2>1, <2>2
<1>3. ASSUME NEW m \in Names, pc'[m] \in {"handle", "transfer", "linking"}
      PROVE  source.links[m] > 1 /\ (reg'[m].should = TRUE \/ reg'[m].first = TRUE)
  BY <1>1, <1>2, <1>3 DEF Handlers
<1> QED
  BY <1>1, <1>3 DEF Handlers

LEMMA HeldStep ==
    ASSUME Types, Led, Held, NEW n \in Names, NameStep(n)
    PROVE  Held'
<1> SUFFICES ASSUME NEW m \in Names, pc'[m] \in {"link", "transfer", "linking"}
             PROVE  m \in readers' /\ fwd'[SrcIno(m)] = reg'[m].info
  BY HandMoves DEF Held, SrcIno
<1>1. /\ \A k \in Names \ {n} : /\ pc'[k] = pc[k] /\ reg'[k] = reg[k]
                                /\ k \in readers => k \in readers'
      /\ pc'[n] \in {"link", "transfer", "linking"} =>
            \/ n \in readers' /\ reg'[n].info = fwd[SrcIno(n)]
            \/ pc[n] \in {"link", "transfer", "linking"} /\ reg'[n].info = reg[n].info
               /\ readers' = readers
  BY HandMoves
<1>2. CASE Create(n) \/ DropInfo(n)
  <2>1. readers = {} /\ pc'[n] = "dest"
    BY <1>2, CreateDoes, DropInfoDoes DEF CanWrite
  <2> QED
    BY <1>1, <2>1 DEF Held
<1>3. CASE fwd' = fwd
  BY <1>1, <1>3 DEF Held
<1> QED
  BY <1>2, <1>3, StepMoves

\* How a look-up in the forward table changes.
LEMMA FwdBack ==
    ASSUME Types, Led, NEW n \in Names, NameStep(n), NEW k \in Keys
    PROVE  \/ fwd'[k] = fwd[k]
           \/ Create(n) /\ k = SrcIno(n) /\ fwd[k] = NoName /\ fwd'[k] = n
           \/ DropInfo(n) /\ k = SrcIno(n) /\ fwd'[k] = NoName
<1>1. CASE Create(n)
  <2>1. fwd' = [fwd EXCEPT ![SrcIno(n)] = n] /\ fwd[SrcIno(n)] = NoName
    BY <1>1, CreateDoes
  <2> QED
    BY <1>1, <2>1 DEF Types
<1>2. CASE DropInfo(n)
  <2>1. fwd' = [fwd EXCEPT ![SrcIno(n)] = NoName]
    BY <1>2, DropInfoDoes
  <2> QED
    BY <1>2, <2>1 DEF Types
<1> QED
  BY <1>1, <1>2, StepMoves

LEMMA DroppersStep ==
    ASSUME Types, Led, Registering, Kinship, Held, Droppers, OneDropper,
           NEW n \in Names, NameStep(n), failed' = FALSE
    PROVE  Droppers'
<1>1. UNCHANGED source /\ \A k \in Names \ {n} : pc'[k] = pc[k] /\ reg'[k] = reg[k]
  BY HandMoves
<1> SUFFICES ASSUME NEW m \in Names, pc'[m] = "dropinfo"
             PROVE  /\ reg'[m].info \in Names /\ fwd'[SrcIno(m)] = reg'[m].info
                    /\ info'[reg'[m].info].transferred = TRUE
                    /\ info'[reg'[m].info].nlinkRC < 0
  BY <1>1 DEF Droppers, SrcIno
<1>2. CASE m = n
  <2>1. Relink(n)
    BY <1>2, StepMoves
  <2>2. pc[n] = "link" /\ reg[n].info \in Names
    BY <2>1 DEF Relink, Led, At
  <2>3. reg' = reg /\ fwd' = fwd
    BY <2>1, <2>2, RelinkDoes
  <2>4. fwd[SrcIno(n)] = reg[n].info
    BY <2>2 DEF Held
  <2>5. /\ info'[reg[n].info].transferred = TRUE
        /\ info'[reg[n].info].nlinkRC = 0 - 1
    BY <1>2, <2>1, <2>2, RelinkCounts
  <2> QED
    BY <1>2, <2>2, <2>3, <2>4, <2>5
<1>3. CASE m # n
  <2> DEFINE h == reg[m].info
  <2>1. /\ pc[m] = "dropinfo" /\ reg'[m].info = h /\ h \in Names /\ fwd[SrcIno(m)] = h
        /\ info[h].transferred = TRUE /\ info[h].nlinkRC < 0
    BY <1>1, <1>3 DEF Droppers
  <2>2. SrcIno(m) \in Keys /\ h # NoName
    BY <2>1, IsKeys, NamesAssumption
  <2>3. Made(h) /\ SrcIno(h) = SrcIno(m)
    BY <2>1, <2>2 DEF Kinship, FoundKin
  <2> HIDE DEF h
  <2>4. fwd'[SrcIno(m)] = h
    <3>1. ~(DropInfo(n) /\ SrcIno(m) = SrcIno(n))
      BY <1>3, <2>1, DropInfoDoes DEF OneDropper
    <3> QED
      BY <2>1, <2>2, <3>1, FwdBack
  <2>5. info'[h].transferred = TRUE
    BY <2>1, <2>3, TransferredKept
  <2>6. info'[h].nlinkRC < 0
    <3>1. info[h].nlinkRC \in Int
      BY <2>1, InfoValues DEF Types
    <3>2. CASE info'[h].nlinkRC = info[h].nlinkRC
      BY <2>1, <3>2
    <3>3. CASE Create(n)
      <4>1. pc[n] = "create" /\ \A k \in Names \ {n} : info'[k] = info[k]
        BY <3>3, CreateDoes
      <4>2. h # n
        BY <2>3, <4>1 DEF Made, Early
      <4> QED
        BY <2>1, <4>1, <4>2
    <3>4. CASE Relink(n) \/ EndTransfer(n)
      <4>1. reg[n].info \in Names
        BY <3>4 DEF Led, Relink, EndTransfer, At
      <4>2. info'[h].nlinkRC = info[h].nlinkRC \/ info'[h].nlinkRC = info[h].nlinkRC - 1
        BY <2>1, <3>4, <4>1, RelinkCounts, EndTransferCounts
      <4> QED
        BY <2>1, <3>1, <4>2
    <3> QED
      BY <2>1, <3>2, <3>3, <3>4, StepMoves
  <2> QED
    BY <2>1, <2>4, <2>5, <2>6
<1> QED
  BY <1>2, <1>3

LEMMA OneDropperStep ==
    ASSUME Types, Led, Held, Droppers, OneDropper,
           NEW n \in Names, NameStep(n)
    PROVE  OneDropper'
<1>1. UNCHANGED source /\ \A k \in Names \ {n} : pc'[k] = pc[k] /\ reg'[k] = reg[k]
  BY HandMoves
<1>2. ASSUME NEW k \in Names \ {n}, pc'[n] = "dropinfo", pc'[k] = "dropinfo",
             SrcIno(k) = SrcIno(n)
      PROVE  FALSE
  <2>1. Relink(n)
    BY <1>2, StepMoves
  <2>2. pc[n] = "link" /\ reg[n].info \in Names
    BY <2>1 DEF Relink, Led, At
  <2>3. fwd[SrcIno(n)] = reg[n].info
    BY <2>2 DEF Held
  <2>4. info[reg[n].info].nlinkRC = 0
    BY <1>2, <2>1, <2>2, RelinkCounts
  <2>5. pc[k] = "dropinfo"
    BY <1>1, <1>2
  <2>6. info[reg[n].info].nlinkRC < 0
    BY <1>2, <2>3, <2>5 DEF Droppers
  <2> QED
    BY <2>4, <2>6
<1>3. ASSUME NEW m \in Names, NEW k \in Names, pc'[m] = "dropinfo", pc'[k] = "dropinfo",
             SrcIno(m) = SrcIno(k)
      PROVE  m = k
  <2>1. CASE m = n /\ k # n
    BY <1>2, <1>3, <2>1
  <2>2. CASE m # n /\ k = n
    BY <1>2, <1>3, <2>2
  <2>3. CASE m # n /\ k # n
    BY <1>1, <1>3, <2>3 DEF OneDropper
  <2> QED
    BY <2>1, <2>2, <2>3
<1> QED
  BY <1>1, <1>3 DEF OneDropper, SrcIno

\* A transfer of a group is that of its root, if no two of its names are copied.
LEMMA RootsTransfer ==
    ASSUME Types, Led, Kinship, Handlers, Held, OldRoots,
           NEW n \in Names, Transfer(n)
    PROVE  reg[n].info = n \/ CopiedTwice(SrcIno(n))
<1>1. pc[n] = "transfer"
  BY DEF Transfer, At
<1>2. source.links[n] > 1 /\ (reg[n].should = TRUE \/ reg[n].first = TRUE)
  BY <1>1 DEF Handlers
<1>3. fwd[SrcIno(n)] = reg[n].info
  BY <1>1 DEF Held
<1>4. CASE reg[n].first = TRUE
  <2>1. Made(n)
    BY <1>1, <1>4 DEF Made, Early
  <2> QED
    BY <1>1, <1>2, <1>3, <2>1 DEF OldRoots
<1>5. CASE reg[n].first # TRUE
  <2>1. reg[n].first = FALSE /\ reg[n].should = TRUE
    BY <1>2, <1>5, Booleans
  <2> QED
    BY <1>1, <2>1 DEF CopiedTwice
<1> QED
  BY <1>4, <1>5

LEMMA RootsServedStep ==
    ASSUME Types, Led, Registering, Kinship, Handlers, Held, OldRoots, RootsServed,
           NEW n \in Names, NameStep(n), failed' = FALSE
    PROVE  RootsServed'
<1>1. UNCHANGED source /\ Types'
  BY HandMoves, LedStep
<1> SUFFICES ASSUME NEW h \in Names, info'[h].transferred = TRUE, fwd'[SrcIno(h)] = h
             PROVE  pc'[h] \in {"linking", "dropgroup", "done"} \/ CopiedTwice(SrcIno(h))'
  BY <1>1 DEF RootsServed, CopiedTwice, SrcIno
<1>2. SrcIno(h) \in Keys /\ h # NoName
  BY IsKeys, NamesAssumption
<1>3. fwd[SrcIno(h)] = h
  <2>1. ~(Create(n) /\ h = n)
    BY CreateNotYet
  <2> QED
    BY <1>2, <2>1, FwdBack
<1>4. Made(h)
  BY <1>2, <1>3 DEF Kinship, FoundKin
<1>5. CASE info[h].transferred = TRUE
  <2>1. pc[h] \in {"linking", "dropgroup", "done"} \/ CopiedTwice(SrcIno(h))
    BY <1>3, <1>5 DEF RootsServed
  <2>2. CASE pc[h] \in {"linking", "dropgroup", "done"}
    BY <1>4, <2>2, LateStays DEF Made
  <2> QED
    BY <2>1, <2>2, TwiceStays
<1>6. CASE info[h].transferred # TRUE
  <2>1. Transfer(n) \/ Create(n)
    BY <1>6, StepMoves
  <2>2. ~Create(n)
    <3>1. Create(n) => pc[n] = "create" /\ \A k \in Names \ {n} : info'[k] = info[k]
      BY CreateDoes
    <3>2. pc[n] = "create" => h # n
      BY <1>4 DEF Made, Early
    <3> QED
      BY <1>6, <3>1, <3>2
  <2>3. reg[n].info \in Names /\ pc[n] = "transfer"
    BY <2>1, <2>2 DEF Led, Transfer, At
  <2>4. h = reg[n].info
    <3>1. \A m \in Names \ {reg[n].info} : info'[m].transferred = info[m].transferred
      BY <2>1, <2>2, <2>3, TransferCounts
    <3> QED
      BY <1>6, <3>1
  <2>5. SrcIno(h) = SrcIno(n)
    BY <2>3, <2>4 DEF Kinship, InfoKin, Kin
  <2>6. h = n \/ CopiedTwice(SrcIno(h))
    BY <2>1, <2>2, <2>4, <2>5, RootsTransfer
  <2>7. pc'[n] = "linking"
    BY <2>1, <2>2, <2>3, TransferDoes
  <2>8. CASE h = n
    BY <2>7, <2>8
  <2> QED
    BY <2>6, <2>8, TwiceStays
<1> QED
  BY <1>5, <1>6

LEMMA MadeFrom ==
    ASSUME Types, Led, Registering, NEW n \in Names, NameStep(n), failed' = FALSE
    PROVE  Made(n)' => Made(n) \/ Create(n) \/ ~(source.links[n] > 1)
<1>1. CASE Stat(n)
  <2>1. pc'[n] \in {"lookup", "decide"}
    BY <1>1, StatDoes
  <2> QED
    BY <1>1, <2>1, StatAlone DEF Made, Early
<1>2. CASE Lookup(n)
  <2>1. reg[n].first = FALSE /\ reg'[n].first = reg[n].first
    BY <1>2, LookupDoes DEF Registering, Sure
  <2> QED
    BY <2>1 DEF Made
<1>3. CASE Reroll(n)
  <2>1. pc'[n] = "lookup"
    BY <1>3, PlainDoes DEF Reroll, At
  <2> QED
    BY <2>1 DEF Made, Early
<1>4. CASE Early(n) /\ ~Stat(n) /\ ~Lookup(n) /\ ~Reroll(n) /\ ~Create(n)
  <2>1. StatFails(n)
    BY <1>4 DEF NameStep, Register, HandleTransfer, Early, Queue, Relink, RelinkFails, DropInfo,
                NewRev, Promote, LookAgain, CountRev, LastRev, DropRev, EndRegister, SendJob,
                GiveUp, NoJob, Decided, Finish, FinishFails, Handle, Transfer, LinkPending,
                EndTransfer, DropGroup, DropForeign, At, HasJob
  <2> QED
    BY <2>1 DEF StatFails, At
<1>5. CASE ~Early(n)
  BY <1>5, LateStays DEF Made
<1> QED
  BY <1>1, <1>2, <1>3, <1>4, <1>5

LEMMA OldRootsStep ==
    ASSUME Types, Led, Registering, Held, RootsServed, OldRoots, Droppers,
           NEW n \in Names, NameStep(n), failed' = FALSE
    PROVE  OldRoots'
<1>1. /\ UNCHANGED source
      /\ \A k \in Names \ {n} : pc'[k] = pc[k] /\ reg'[k] = reg[k]
  BY HandMoves
<1> SUFFICES ASSUME NEW m \in Names, Made(m)', fwd'[SrcIno(m)] # m, source.links[m] > 1
             PROVE  pc'[m] \in {"dropgroup", "done"} \/ CopiedTwice(SrcIno(m))'
  BY <1>1 DEF OldRoots, Made, Early, CopiedTwice, SrcIno
<1>2. SrcIno(m) \in Keys /\ m # NoName
  BY IsKeys, NamesAssumption
<1>3. Made(m)
  <2>1. CASE m = n
    <3>1. Create(n) => fwd'[SrcIno(n)] = n
      BY <1>2, <2>1, CreateDoes DEF Types
    <3> QED
      BY <2>1, <3>1, MadeFrom
  <2>2. CASE m # n
    BY <1>1, <2>2 DEF Made, Early
  <2> QED
    BY <2>1, <2>2
<1>4. pc[m] \in {"dropgroup", "done"} \/ CopiedTwice(SrcIno(m))
  <2>1. CASE fwd[SrcIno(m)] # m
    BY <1>3, <2>1 DEF OldRoots
  <2>2. CASE fwd[SrcIno(m)] = m
    <3>1. DropInfo(n) /\ SrcIno(m) = SrcIno(n)
      BY <1>2, <2>2, FwdBack
    <3>2. pc[n] = "dropinfo" /\ readers = {}
      BY <3>1, DropInfoDoes DEF CanWrite
    <3>3. info[m].transferred = TRUE
      BY <2>2, <3>1, <3>2 DEF Droppers
    <3>4. pc[m] \in {"linking", "dropgroup", "done"} \/ CopiedTwice(SrcIno(m))
      BY <2>2, <3>3 DEF RootsServed
    <3> QED
      BY <3>2, <3>4 DEF Held
  <2> QED
    BY <2>1, <2>2
<1>5. CASE pc[m] \in {"dropgroup", "done"}
  BY <1>3, <1>5, LateStays DEF Made
<1> QED
  BY <1>4, <1>5, TwiceStays

LEMMA ContentsStep ==
    ASSUME Types, Led, Registering, Kinship, Contents,
           NEW n \in Names, NameStep(n), failed' = FALSE
    PROVE  Contents'
<1>1. Fresh' /\ AllHold' /\ Handlers' /\ Held'
  BY FreshStep, AllHoldStep, HandlersStep, HeldStep DEF Contents
<1>2. RootsServed' /\ OldRoots' /\ Droppers' /\ OneDropper'
  BY RootsServedStep, OldRootsStep, DroppersStep, OneDropperStep DEF Contents
<1> QED
  BY <1>1, <1>2 DEF Contents
LEMMA ContentsInit == Init => Contents
<1> SUFFICES ASSUME Init PROVE Contents
  OBVIOUS
<1>1. /\ \A n \in Names : pc[n] = "stat" /\ info[n].transferred = FALSE
      /\ dst \in [Names -> OldInodes \cup {NoInode}]
  BY DEF Init, NoInfo
<1>2. Fresh
  BY <1>1, InodesAssumption DEF Fresh, NewInodes, NoInode
<1>3. AllHold
  BY <1>1 DEF AllHold, Holder, Past, Made, Early
<1>4. Handlers /\ Held /\ Droppers /\ OneDropper
  BY <1>1 DEF Handlers, Held, Droppers, OneDropper
<1>5. RootsServed /\ OldRoots
  BY <1>1 DEF RootsServed, OldRoots, Made, Early
<1> QED
  BY <1>2, <1>3, <1>4, <1>5 DEF Contents

\* What a name is linked to holds the contents of its source.
LEMMA RootHolds ==
    ASSUME Types, Led, Registering, Kinship, Contents, NEW n \in Names, Relink(n)
    PROVE  Holds(reg[n].info) \/ CopiedTwice(SrcIno(n))
<1> DEFINE h == reg[n].info
<1>1. pc[n] = "link" /\ h \in Names
  BY DEF Relink, Led, At
<1>2. SrcIno(h) = SrcIno(n) /\ Made(h) /\ fwd[SrcIno(n)] = h
  BY <1>1 DEF Kinship, InfoKin, Kin, Contents, Held
<1>3. info[h].transferred = TRUE
  BY <1>1, RelinkCounts
<1>4. pc[h] \in {"linking", "dropgroup", "done"} \/ CopiedTwice(SrcIno(n))
  BY <1>1, <1>2, <1>3 DEF Contents, RootsServed
<1>5. ASSUME pc[h] \in {"linking", "dropgroup", "done"} PROVE Holds(h)
  <2>1. reg[h].should \in BOOLEAN
    BY <1>1, Booleans
  <2>2. Holder(h)
    BY <1>2, <1>5, <2>1 DEF Holder, Past
  <2> QED
    BY <1>1, <2>2 DEF Contents, AllHold
<1> QED
  BY <1>4, <1>5

LEMMA HandlerHolds ==
    ASSUME Types, Contents, NEW n \in Names, pc[n] = "linking"
    PROVE  Holds(n)
<1>1. reg[n].should = TRUE \/ (reg[n].should = FALSE /\ reg[n].first = TRUE)
  BY Booleans DEF Contents, Handlers
<1>2. Holder(n)
  BY <1>1 DEF Holder, Past, Made, Early
<1> QED
  BY <1>2 DEF Contents, AllHold

LEMMA LinkedHolds ==
    ASSUME Types, Led, Registering, Kinship, Contents,
           NEW n \in Names, NameStep(n), failed' = FALSE,
           NEW m \in Names, dst'[m] # dst[m]
    PROVE  Holds(m)' \/ CopiedTwice(SrcIno(m))
<1>1. UNCHANGED source
  BY HandMoves
<1>2. CASE m = n /\ Finish(n)
  <2>1. reg[n].should \in BOOLEAN
    BY Booleans
  <2>2. reg[n].should = TRUE
    BY <1>2, <2>1, FinishCopies
  <2>3. /\ dst'[n] = NewInode[n] /\ data' = [data EXCEPT ![NewInode[n]] = {SrcIno(n)}]
    BY <1>2, <2>2, FinishCopies
  <2>4. NewInode[n] \in Inodes /\ NewInode[n] # NoInode
    BY InodesAssumption DEF Inodes, NewInodes, NoInode
  <2> QED
    BY <1>1, <1>2, <2>3, <2>4 DEF Holds, SrcIno, Types
<1>3. CASE /\ m = n /\ Relink(n)
           /\ reg[n].info \in Names /\ dst'[n] = dst[reg[n].info] /\ data' = data
  <2>1. pc[n] = "link"
    BY <1>3 DEF Relink, At
  <2>2. SrcIno(reg[n].info) = SrcIno(n)
    BY <2>1 DEF Kinship, InfoKin, Kin
  <2>3. Holds(reg[n].info) \/ CopiedTwice(SrcIno(n))
    BY <1>3, RootHolds
  <2> QED
    BY <1>1, <1>3, <2>2, <2>3 DEF Holds, SrcIno
<1>4. CASE /\ LinkPending(n) /\ reg[n].info \in Names /\ m \in info[reg[n].info].links
           /\ dst'[m] = dst[n] /\ data' = data
  <2>1. pc[n] = "linking"
    BY <1>4 DEF LinkPending, At
  <2>2. SrcIno(m) = SrcIno(n)
    BY <1>4, <2>1 DEF Kinship, InfoKin, QueueKin, Kin
  <2>3. Holds(n)
    BY <2>1, HandlerHolds
  <2> QED
    BY <1>1, <1>4, <2>2, <2>3 DEF Holds, SrcIno
<1> QED
  BY <1>2, <1>3, <1>4, DstMoves

\* A name that holds its source's contents goes on to.
LEMMA HoldsOn ==
    ASSUME Types, Led, Registering, Kinship, Contents,
           NEW n \in Names, NameStep(n), failed' = FALSE, NEW m \in Names, Holds(m)
    PROVE  Holds(m)' \/ CopiedTwice(SrcIno(m))
<1>1. CASE dst'[m] = dst[m]
  BY <1>1, HoldsKept DEF Contents
<1> QED
  BY <1>1, LinkedHolds

-----------------------------------------------------------------------------
(***************************************************************************)
(* A name that is neither copied nor a root is linked, waits to be, or     *)
(* held its source's contents when it was seen.                            *)
(***************************************************************************)
Settled(n) == ~Early(n) /\ pc[n] # "link" /\ reg[n].should = FALSE /\ reg[n].first = FALSE
AllSettled == \A n \in Names : Settled(n) => Holds(n) \/ Queued(n) \/ CopiedTwice(SrcIno(n))

LEMMA SettledMoves ==
    ASSUME Types, Led, Registering, NEW n \in Names, NameStep(n), failed' = FALSE
    PROVE  Settled(n)' => \/ Settled(n) \/ Relink(n) \/ Queue(n)
                          \/ pc[n] = "lookup" /\ reg[n].orig = FALSE /\ dst' = dst /\ data' = data
<1>0. /\ reg[n].should \in BOOLEAN /\ reg[n].orig \in BOOLEAN
      /\ pc[n] = "lookup" => reg[n].first = FALSE
  BY Booleans DEF Registering, Sure
<1>1. CASE Stat(n)
  BY <1>1, <1>0, StatDoes DEF Settled, Early, SameFile
<1>2. CASE StatFails(n) \/ Reroll(n) \/ Promote(n) \/ EndRegister(n)
  BY <1>2, <1>0, PlainDoes DEF Settled, Early, SameFile
<1>3. CASE Lookup(n)
  BY <1>3, <1>0, LookupDoes DEF Settled, Early, SameFile
<1>4. CASE Create(n)
  BY <1>4, <1>0, CreateDoes DEF Settled, Early, SameFile
<1>5. CASE Queue(n)
  <2>1. reg[n].info \in Names
    BY <1>5 DEF Led, Queue, At
  <2> QED
    BY <1>5, <2>1, <1>0, QueueDoes DEF Settled, Early, SameFile
<1>6. CASE Relink(n)
  <2>1. reg[n].info \in Names
    BY <1>6 DEF Led, Relink, At
  <2> QED
    BY <1>6, <2>1, <1>0, RelinkDoes DEF Settled, Early, SameFile
<1>7. CASE RelinkFails(n)
  <2>1. reg[n].info \in Names
    BY <1>7 DEF Led, RelinkFails, At
  <2> QED
    BY <1>7, <2>1, <1>0, RelinkFailsDoes DEF Settled, Early, SameFile
<1>8. CASE DropInfo(n)
  BY <1>8, <1>0, DropInfoDoes DEF Settled, Early, SameFile
<1>9. CASE NewRev(n)
  BY <1>9, <1>0, NewRevDoes DEF Settled, Early, SameFile
<1>10. CASE LookAgain(n)
  BY <1>10, <1>0, LookAgainDoes DEF Settled, Early, SameFile
<1>11. CASE CountRev(n) \/ LastRev(n)
  BY <1>11, <1>0, CountDoes DEF Settled, Early, SameFile
<1>12. CASE DropRev(n)
  BY <1>12, <1>0, DropRevDoes DEF Settled, Early, SameFile
<1>13. CASE SendJob(n) \/ GiveUp(n) \/ NoJob(n)
  BY <1>13, <1>0, DecideDoes DEF Settled, Early, SameFile
<1>14. CASE Finish(n)
  BY <1>14, <1>0, FinishDoes DEF Settled, Early, SameFile
<1>15. CASE FinishFails(n)
  BY <1>15, <1>0, FinishFailsDoes DEF Settled, Early, SameFile
<1>16. CASE Handle(n)
  BY <1>16, <1>0, HandleDoes DEF Settled, Early, SameFile
<1>17. CASE Transfer(n)
  <2>1. reg[n].info \in Names
    BY <1>17 DEF Led, Transfer, At
  <2> QED
    BY <1>17, <2>1, <1>0, TransferDoes DEF Settled, Early, SameFile
<1>18. CASE LinkPending(n)
  <2>1. reg[n].info \in Names
    BY <1>18 DEF Led, LinkPending, At
  <2> QED
    BY <1>18, <2>1, <1>0, LinkPendingDoes DEF Settled, Early, SameFile
<1>19. CASE EndTransfer(n)
  <2>1. reg[n].info \in Names
    BY <1>19 DEF Led, EndTransfer, At
  <2> QED
    BY <1>19, <2>1, <1>0, EndTransferDoes DEF Settled, Early, SameFile
<1>20. CASE DropGroup(n) \/ DropForeign(n)
  BY <1>20, <1>0, DropGroupDoes DEF Settled, Early, SameFile
<1> QED
  BY <1>1, <1>2, <1>3, <1>4, <1>5, <1>6, <1>7, <1>8, <1>9, <1>10, <1>11, <1>12, <1>13,
     <1>14, <1>15, <1>16, <1>17, <1>18, <1>19, <1>20, Zenon
     DEF NameStep, Register, HandleTransfer

LEMMA QueuedMoves ==
    ASSUME Types, Led, Kinship, NEW n \in Names, NameStep(n), failed' = FALSE,
           NEW m \in Names, Queued(m)
    PROVE  \/ Queued(m)'
           \/ /\ LinkPending(n) /\ reg[n].info \in Names /\ m \in info[reg[n].info].links
              /\ dst'[m] = dst[n] /\ data' = data
<1>1. PICK h \in Names : m \in info[h].links
  BY DEF Queued
<1>2. CASE Queue(n)
  <2>1. reg[n].info \in Names
    BY <1>2 DEF Led, Queue, At
  <2>2. /\ \A k \in Names \ {reg[n].info} : info'[k].links = info[k].links
        /\ info'[reg[n].info].links = info[reg[n].info].links \cup {n}
    BY <1>2, <2>1, QueueDoes
  <2> QED
    BY <1>1, <2>2 DEF Queued
<1>3. CASE LinkPending(n)
  <2>1. reg[n].info \in Names
    BY <1>3 DEF Led, LinkPending, At
  <2>2. /\ data' = data /\ \E k \in Names : LinksOne(n, k)
        /\ \A k \in Names \ {reg[n].info} : info'[k].links = info[k].links
    BY <1>3, <2>1, LinkPendingDoes
  <2>3. PICK k \in Names : LinksOne(n, k)
    BY <2>2
  <2>4. /\ k \in info[reg[n].info].links /\ dst' = [dst EXCEPT ![k] = dst[n]]
        /\ info'[reg[n].info].links = info[reg[n].info].links \ {k}
    BY <2>3 DEF LinksOne
  <2>5. CASE m = k
    BY <1>3, <2>1, <2>2, <2>4, <2>5 DEF Types
  <2>6. CASE m # k
    <3>1. m \in info'[h].links
      BY <1>1, <2>2, <2>4, <2>6
    <3> QED
      BY <3>1 DEF Queued
  <2> QED
    BY <2>5, <2>6
<1>4. CASE ~Queue(n) /\ ~LinkPending(n)
  <2>1. info'[h].links = info[h].links
    BY <1>4, QueuesSame DEF Kinship
  <2> QED
    BY <1>1, <2>1 DEF Queued
<1> QED
  BY <1>2, <1>3, <1>4

LEMMA AllSettledStep ==
    ASSUME Types, Led, Registering, Kinship, Contents, AllSettled,
           NEW n \in Names, NameStep(n), failed' = FALSE
    PROVE  AllSettled'
<1>1. UNCHANGED source /\ \A k \in Names \ {n} : pc'[k] = pc[k] /\ reg'[k] = reg[k]
  BY HandMoves
<1>2. ASSUME NEW m \in Names, Settled(m)'
      PROVE  Holds(m)' \/ Queued(m)' \/ CopiedTwice(SrcIno(m))'
  <2>1. CASE CopiedTwice(SrcIno(m))
    BY <2>1, TwiceStays
  <2>2. CASE Holds(m)
    BY <2>1, <2>2, HoldsOn
  <2>3. CASE Queued(m)
    <3>1. ASSUME LinkPending(n), reg[n].info \in Names, m \in info[reg[n].info].links,
                 dst'[m] = dst[n], data' = data
          PROVE  Holds(m)'
      <4>1. pc[n] = "linking"
        BY <3>1 DEF LinkPending, At
      <4>2. SrcIno(m) = SrcIno(n)
        BY <3>1, <4>1 DEF Kinship, InfoKin, QueueKin, Kin
      <4>3. Holds(n)
        BY <4>1, HandlerHolds
      <4> QED
        BY <1>1, <3>1, <4>2, <4>3 DEF Holds, SrcIno
    <3> QED
      BY <2>3, <3>1, QueuedMoves
  <2>4. CASE Settled(m)
    BY <2>1, <2>2, <2>3, <2>4 DEF AllSettled
  <2>5. CASE m # n
    <3>1. Settled(m)
      BY <1>1, <1>2, <2>5 DEF Settled, Early
    <3> QED
      BY <2>4, <3>1
  <2>6. CASE m = n /\ Relink(n)
    <3>1. CASE dst'[n] # dst[n]
      BY <2>1, <2>6, <3>1, LinkedHolds
    <3>2. CASE dst'[n] = dst[n]
      <4>1. pc[n] = "link" /\ reg[n].info \in Names
        BY <2>6 DEF Relink, Led, At
      <4>2. SrcIno(reg[n].info) = SrcIno(n)
        BY <4>1 DEF Kinship, InfoKin, Kin
      <4>3. /\ dst' = [dst EXCEPT ![n] = dst[reg[n].info]] /\ data' = data
        BY <2>6, <4>1, RelinkDoes
      <4>4. dst'[n] = dst[reg[n].info]
        BY <4>3 DEF Types
      <4>5. Holds(reg[n].info) \/ CopiedTwice(SrcIno(n))
        BY <2>6, RootHolds
      <4>6. CASE Holds(reg[n].info)
        BY <1>1, <2>6, <4>2, <4>3, <4>4, <4>6 DEF Holds, SrcIno
      <4> QED
        BY <2>1, <2>6, <4>5, <4>6
    <3> QED
      BY <3>1, <3>2
  <2>7. CASE m = n /\ Queue(n)
    <3>1. reg[n].info \in Names
      BY <2>7 DEF Led, Queue, At
    <3>2. info'[reg[n].info].links = info[reg[n].info].links \cup {n}
      BY <2>7, <3>1, QueueDoes
    <3> QED
      BY <2>7, <3>1, <3>2 DEF Queued
  <2>8. CASE m = n /\ pc[n] = "lookup" /\ reg[n].orig = FALSE
    <3>1. Holder(n)
      BY <2>8 DEF Holder
    <3>2. Holds(m)
      BY <2>8, <3>1 DEF Contents, AllHold
    <3> QED
      BY <2>2, <3>2
  <2> QED
    BY <1>2, <2>4, <2>5, <2>6, <2>7, <2>8, SettledMoves
<1> QED
  BY <1>2 DEF AllSettled

\* The inductive invariant of the contents.
Copies == Accounts /\ (failed = FALSE => Contents /\ AllSettled)

LEMMA CopiesInit == Init => Copies
<1>1. Init => AllSettled
  BY DEF Init, AllSettled, Settled, Early
<1> QED
  BY <1>1, AccountsInit, ContentsInit DEF Copies

LEMMA CopiesStep == Copies /\ [Next]_vars => Copies'
<1> SUFFICES ASSUME Copies, [Next]_vars, failed' = FALSE PROVE Contents' /\ AllSettled'
  BY AccountsStep DEF Copies
<1>1. CASE \E n \in Names : NameStep(n)
  <2>1. PICK n \in Names : NameStep(n)
    BY <1>1
  <2>2. Types /\ Led /\ Registering /\ Kinship
    BY DEF Copies, Accounts, Entries
  <2>3. failed = FALSE
    BY <2>1, <2>2, FailedStays DEF Types
  <2> QED
    BY <2>1, <2>2, <2>3, ContentsStep, AllSettledStep DEF Copies
<1>2. CASE UNCHANGED vars
  <2>1. UNCHANGED <<source, dst, data, pc, reg, fwd, info, readers, failed>>
    BY <1>2 DEF vars, tables, lock
  <2>2. Contents /\ AllSettled
    BY <2>1 DEF Copies
  <2>3. Fresh' /\ AllHold' /\ Handlers' /\ Held'
    BY <2>1, <2>2 DEF Contents, Fresh, AllHold, Handlers, Held, Holder, Holds, Made, Early, SrcIno
  <2>4. RootsServed' /\ OldRoots' /\ Droppers' /\ OneDropper'
    BY <2>1, <2>2 DEF Contents, RootsServed, OldRoots, Droppers, OneDropper, CopiedTwice, Made,
                      Early, SrcIno
  <2>5. AllSettled'
    BY <2>1, <2>2 DEF AllSettled, Settled, Early, Holds, Queued, CopiedTwice, SrcIno
  <2> QED
    BY <2>3, <2>4, <2>5 DEF Contents
<1> QED
  BY <1>1, <1>2 DEF Next, Stopped, NameStep

LEMMA SpecCopies == Spec => []Copies
  BY CopiesInit, CopiesStep, PTL DEF Spec

\* With no failures every name of a group that is copied once holds its source's
\* contents in the end, whoever copied or linked it.  If an entry that was freed is about
\* to be used, that end does not come.
THEOREM AllCopied == Spec => []NamesCopied
<1>1. Copies => NamesCopied
  <2> SUFFICES ASSUME Copies, Succeeded, NEW n \in Names
               PROVE  Holds(n) \/ CopiedTwice(SrcIno(n))
    BY DEF NamesCopied
  <2>1. Types /\ failed = FALSE /\ pc[n] = "done"
    BY DEF Copies, Accounts, Entries, Types, Succeeded, AllDone
  <2>2. Contents /\ AllSettled /\ Owed = {}
    BY <2>1, NobodyOwed DEF Copies
  <2>3. reg[n].should \in BOOLEAN /\ reg[n].first \in BOOLEAN
    BY <2>1, Booleans
  <2>4. CASE reg[n].should = TRUE \/ reg[n].first = TRUE
    <3>1. Holder(n)
      BY <2>1, <2>3, <2>4 DEF Holder, Past, Made, Early
    <3> QED
      BY <2>2, <3>1 DEF Contents, AllHold
  <2>5. CASE reg[n].should = FALSE /\ reg[n].first = FALSE
    <3>1. Settled(n)
      BY <2>1, <2>5 DEF Settled, Early
    <3>2. ~Queued(n)
      BY <2>2 DEF Owed
    <3> QED
      BY <2>2, <3>1, <3>2 DEF AllSettled
  <2> QED
    BY <2>3, <2>4, <2>5
<1> QED
  BY <1>1, SpecCopies, PTL

\* A name that holds its source's contents holds them after every step, unless a system
\* call has failed or its group is copied twice: what it is linked to is the root as
\* transferred, never the file the root is about to replace.  It speaks of steps before
\* the first use of an entry that was freed.
THEOREM NothingSpoiled == Spec => NeverSpoiled
<1>1. Copies /\ [Next]_vars =>
        [\A n \in Names : Holds(n) /\ ~failed' /\ ~CopiedTwice(SrcIno(n)) => Holds(n)']_vars
  <2> SUFFICES ASSUME Copies, Next, NEW m \in Names, Holds(m), ~failed', ~CopiedTwice(SrcIno(m))
               PROVE  Holds(m)' \/ UNCHANGED vars
    BY Zenon
  <2>1. Types /\ Led /\ Registering /\ Kinship
    BY DEF Copies, Accounts, Entries
  <2>2. CASE \E n \in Names : NameStep(n)
    <3>1. PICK n \in Names : NameStep(n)
      BY <2>2
    <3>2. failed' \in BOOLEAN
      BY <2>1, <3>1, LedStep DEF Types
    <3>3. failed' = FALSE
      BY <3>2
    <3>4. failed = FALSE
      BY <2>1, <3>1, <3>3, FailedStays DEF Types
    <3> QED
      BY <2>1, <3>1, <3>3, <3>4, HoldsOn DEF Copies
  <2> QED
    BY <2>2 DEF Next, Stopped, NameStep
<1> QED
  BY <1>1, SpecCopies, PTL DEF Spec, NeverSpoiled

-----------------------------------------------------------------------------
(***************************************************************************)
(* What was freed is not used.                                             *)
(***************************************************************************)
AllLive == failed = FALSE /\ Apart /\ Unchanged => \A n \in Names : info[n].state # "freed"

LEMMA AllLiveInit == Init => AllLive
  BY DEF Init, NoInfo, AllLive

LEMMA AllLiveStep == Copies /\ AllLive /\ [Next]_vars => AllLive'
<1> SUFFICES ASSUME Copies, AllLive, [Next]_vars, failed' = FALSE, Apart', Unchanged',
                    NEW m \in Names
             PROVE  info'[m].state # "freed"
  BY DEF AllLive
<1>1. CASE \E n \in Names : NameStep(n)
  <2>1. PICK n \in Names : NameStep(n)
    BY <1>1
  <2>2. Types /\ Led /\ Registering
    BY DEF Copies, Accounts, Entries
  <2>3. failed = FALSE
    BY <2>1, <2>2, FailedStays DEF Types
  <2>4. UNCHANGED source
    BY <2>1, <2>2, HandMoves
  <2>5. Apart /\ Unchanged
    BY <2>4 DEF Apart, Unchanged, SrcIno
  <2>6. info[m].state # "freed" /\ Whole /\ TableLive
    BY <2>3, <2>5 DEF AllLive, Copies, Accounts, Entries
  <2>7. CASE Create(n)
    <3>1. info'[n].state = "live" /\ \A k \in Names \ {n} : info'[k] = info[k]
      BY <2>2, <2>7, CreateDoes
    <3> QED
      BY <2>6, <3>1
  <2>8. CASE DropInfo(n)
    BY <2>2, <2>6, <2>8, DropInfoDoes DEF Whole, NoDrops
  <2>9. CASE DropGroup(n) \/ DropForeign(n)
    BY <2>2, <2>5, <2>6, <2>9, NoForeign, DropGroupDoes
  <2> QED
    BY <2>1, <2>2, <2>6, <2>7, <2>8, <2>9, FreesBy
<1>2. CASE UNCHANGED vars
  <2>1. UNCHANGED <<source, info, failed>>
    BY <1>2 DEF vars, tables
  <2> QED
    BY <2>1 DEF AllLive, Apart, Unchanged, SrcIno
<1> QED
  BY <1>1, <1>2 DEF Next, Stopped, NameStep

\* A group that is not copied twice is transferred once, by its root.
LEMMA TransferredOnce ==
    ASSUME Types, Held, Handlers, RootsServed, OldRoots, NEW n \in Names,
           pc[n] = "transfer", ~CopiedTwice(SrcIno(n))
    PROVE  info[reg[n].info].transferred # TRUE
<1>1. /\ source.links[n] > 1 /\ fwd[SrcIno(n)] = reg[n].info
      /\ reg[n].should = TRUE \/ reg[n].first = TRUE
  BY DEF Handlers, Held
<1>2. reg[n].should \in BOOLEAN /\ reg[n].first \in BOOLEAN
  BY RegFields DEF Types
<1>3. reg[n].first = TRUE
  BY <1>1, <1>2 DEF CopiedTwice
<1>4. fwd[SrcIno(n)] = n
  BY <1>1, <1>3 DEF OldRoots, Made, Early
<1> QED
  BY <1>1, <1>4 DEF RootsServed

\* If no system call has failed, nobody reads or writes an entry or a link that
\* hlinkStateRegisterLinkRoot or hlinkStateHandleTransfer has freed: of a group that is
\* copied once and was all there at its first look, with no number on both sides, no
\* HLinkInfo goes, and its links are gone through once.
THEOREM FreedIsLeftAlone == Spec => [](~failed => NothingFreedUsed)
<1>1. Copies /\ AllLive => (~failed => NothingFreedUsed)
  <2> SUFFICES ASSUME Copies, AllLive, ~failed, Apart, Unchanged, NEW n \in Names,
                      \A m \in Names : ~CopiedTwice(SrcIno(m))
               PROVE  ~UsesFreed(n)
    BY DEF NothingFreedUsed, Undefined
  <2>1. /\ Types /\ Led /\ failed = FALSE /\ Contents /\ Whole /\ TableLive /\ Revs
    BY DEF Copies, Accounts, Entries, Types
  <2>2. \A h \in Names : info[h].state # "freed"
    BY <2>1 DEF AllLive
  <2>3. \A r \in Names : rinfo[r].state # "freed"
    BY <2>1 DEF Revs, RevMade
  <2>4. reg[n].rev \in Names \cup {NoName} /\ reg[n].info \in Names \cup {NoName}
    BY <2>1, RegFields DEF Types
  <2>5. ~RevFreed(reg[n].rev) /\ ~InfoFreed(reg[n].info)
    BY <2>2, <2>3, <2>4 DEF RevFreed, InfoFreed
  <2>6. ~InfoFreed(fwd[SrcIno(n)])
    <3>1. fwd[SrcIno(n)] \in Names \cup {NoName}
      BY <2>1, IsKeys DEF Types
    <3> QED
      BY <2>2, <3>1 DEF InfoFreed
  <2>7. pc[n] = "dropgroup" => ~InfoFreed(fwd[reg[n].newIno])
    BY <2>1, NoForeign DEF InfoFreed, Copies, Accounts, Entries
  <2>8. pc[n] = "transfer" => ~LinksFreed(n)
    <3> SUFFICES ASSUME pc[n] = "transfer", LinksFreed(n) PROVE FALSE
      OBVIOUS
    <3>1. reg[n].info \in Names
      BY <2>1 DEF Led
    <3>2. info[reg[n].info].transferred \in BOOLEAN
      BY <2>1, <3>1, InfoValues DEF Types
    <3>3. info[reg[n].info].transferred = TRUE
      BY <3>2 DEF LinksFreed
    <3> QED
      BY <2>1, <3>3, TransferredOnce DEF Contents
  <2>9. pc[n] # "dropinfo"
    BY <2>1 DEF Whole, NoDrops
  <2> QED
    BY <2>5, <2>6, <2>7, <2>8, <2>9 DEF UsesFreed
<1> QED
  BY <1>1, AllLiveInit, AllLiveStep, SpecCopies, PTL DEF Spec

-----------------------------------------------------------------------------
(***************************************************************************)
(* Nobody waits for ever: what a name needs to go on is what the next call *)
(* of its thread waits for, the readers-writer lock or a spinlock.         *)
(***************************************************************************)
CanGo(n) ==
    \/ pc[n] \in {"stat", "decide", "job", "linking"}
    \/ pc[n] \in {"lookup", "handle"} /\ writer = NoName
    \/ pc[n] \in {"create", "newrev"} /\ CanWrite
    \/ pc[n] = "dropinfo" /\ CanWrite /\ (Found(n) => Free(reg[n].info))
    \/ /\ pc[n] = "dropgroup" /\ CanWrite
       /\ fwd[reg[n].newIno] # NoName => Free(reg[n].info)
    \/ pc[n] \in {"link", "transfer"} /\ Free(reg[n].info)
    \/ pc[n] = "dest" /\ (Seen(n) => RevFree(n))
    \/ pc[n] = "droprev" /\ (writer = n \/ CanWrite) /\ RevFree(n)

NobodyStuck == ~failed /\ Apart /\ ~Undefined => AllDone \/ \E n \in Names : CanGo(n)

\* hlinkStateRegisterLinkRoot and hlinkStateHandleTransfer take a spinlock with the
\* readers-writer lock held, promote the one while others have it, and give both back:
\* they never wait for one another in a circle, if no system call failed, no number is
\* an inode of both sides and nobody is about to use what was freed.
THEOREM SomebodyGoesOn == Spec => []NobodyStuck
<1>1. Entries /\ (failed = FALSE /\ Apart => Locks) => NobodyStuck
  <2> SUFFICES ASSUME Entries, Locks, Apart, \A n \in Names : ~CanGo(n), NEW n \in Names
               PROVE  pc[n] = "done"
    BY DEF NobodyStuck, AllDone, Entries, Types
  <2>1. /\ Types /\ Led /\ Reading /\ Writing /\ Spinning /\ RevsUnlocked
        /\ pc[n] # "droprev"
    BY DEF Entries, Locks, Revs, RevMade
  <2>2. \A m \in Names : pc[m] # "dest"
    <3>1. ASSUME NEW m \in Names, pc[m] = "dest", Seen(m) PROVE RevFree(m)
      <4>1. reg[m].rev \in Names \cup {NoName}
        BY <2>1, RegFields DEF Types
      <4> QED
        BY <2>1, <3>1, <4>1 DEF Seen, RevFree, RevsUnlocked
    <3> QED
      BY <3>1 DEF CanGo
  <2>3. writer = NoName
    BY <2>1, <2>2 DEF Types, Writing
  <2>4. \A m \in Names : pc[m] \notin {"link", "transfer", "linking"}
    <3> SUFFICES ASSUME NEW m \in Names, pc[m] \in {"link", "transfer"} PROVE FALSE
      BY DEF CanGo
    <3>1. reg[m].info \in Names
      BY <2>1 DEF Led
    <3>2. info[reg[m].info].lock \in Names \cup {NoName}
      BY <2>1, <3>1, InfoValues DEF Types
    <3>3. info[reg[m].info].lock = NoName
      BY <2>1, <3>1, <3>2 DEF Spinning, CanGo
    <3> QED
      BY <3>3 DEF CanGo, Free
  <2>5. CanWrite
    BY <2>1, <2>2, <2>3, <2>4 DEF Types, Reading, CanWrite
  <2>6. pc[n] \in Places
    BY <2>1 DEF Types
  <2>7. pc[n] # "dropgroup"
    <3>1. pc[n] = "dropgroup" => fwd[reg[n].newIno] = NoName
      BY <2>1, NoForeign DEF Entries
    <3> QED
      BY <2>5, <3>1 DEF CanGo
  <2>8. pc[n] # "dropinfo"
    <3>1. pc[n] = "dropinfo" => reg[n].info \in Names
      BY <2>1 DEF Led
    <3>2. reg[n].info \in Names => info[reg[n].info].lock \in Names \cup {NoName}
      BY <2>1, InfoValues DEF Types
    <3>3. reg[n].info \in Names => info[reg[n].info].lock = NoName
      BY <2>1, <2>4, <3>2 DEF Spinning
    <3> QED
      BY <2>5, <3>1, <3>3 DEF CanGo, Free
  <2> QED
    BY <2>1, <2>2, <2>3, <2>4, <2>5, <2>6, <2>7, <2>8 DEF CanGo, Places
<1>2. Init => (failed = FALSE /\ Apart => Locks)
  BY LocksInit, Zenon
<1> QED
  BY <1>1, <1>2, SpecEntries, LocksNext, PTL DEF Spec

-----------------------------------------------------------------------------
(***************************************************************************)
(* Nor does one go round in circles.  A name comes back to its first look  *)
(* at the forward table (Reroll) and to the places behind a promotion; but *)
(* all the steps together take the names forward, or link one that waits,  *)
(* or follow what has become of an entry in the forward table.             *)
(***************************************************************************)
Rank(n) ==
    CASE pc[n] = "stat" -> 0
      [] pc[n] \in {"lookup", "create"} -> 1
      [] pc[n] = "link" -> 2
      [] pc[n] = "dropinfo" -> 3
      [] pc[n] = "dest" -> IF writer = n THEN 6 ELSE 4
      [] pc[n] = "newrev" -> 5
      [] pc[n] = "droprev" -> 7
      [] pc[n] = "decide" -> 8
      [] pc[n] = "job" -> 9
      [] pc[n] = "handle" -> 10
      [] pc[n] = "transfer" -> 11
      [] pc[n] = "linking" -> 12
      [] pc[n] = "dropgroup" -> 13
      [] OTHER -> 14

\* The places before the names, the names in queues, and those whose last look at the
\* forward table is out of date.
Ahead == {place \in Names \X (1 .. 14) : Rank(place[1]) < place[2]}
ToLink == {pair \in Names \X Names : pair[2] \in info[pair[1]].links}
Outdated == {n \in Names : pc[n] = IF Found(n) THEN "create" ELSE "lookup"}

Nearer ==
    LET a == Cardinality(Ahead)
        l == Cardinality(ToLink)
        o == Cardinality(Outdated)
    IN  /\ a' \in Nat /\ l' \in Nat /\ o' \in Nat
        /\ \/ a' < a
           \/ a' = a /\ l' < l
           \/ a' = a /\ l' = l /\ o' < o

\* What a step of n does to the places of the names.
GoesOn(n) ==
    /\ \A m \in Names \ {n} : pc'[m] = pc[m] /\ (writer' = m <=> writer = m)
    /\ \/ Rank(n)' > Rank(n)
       \/ /\ pc' = pc /\ writer' = writer /\ pc[n] = "linking"
          /\ LinkPending(n)
       \/ /\ writer' = writer /\ UNCHANGED <<source, fwd, info>>
          /\ \/ pc[n] = "lookup" /\ pc'[n] = "create" /\ ~Found(n)
             \/ pc[n] = "create" /\ pc'[n] = "lookup" /\ Found(n)

LEMMA WriterStays ==
    ASSUME Types, NEW n \in Names,
           \/ writer' = writer
           \/ Unlocked(n)
           \/ writer = NoName /\ writer' = n
    PROVE  \A m \in Names \ {n} : writer' = m <=> writer = m
  BY NamesAssumption DEF Types, Unlocked

LEMMA NameGoesOn ==
    ASSUME Types, Led, NEW n \in Names, NameStep(n)
    PROVE  GoesOn(n)
<1> DEFINE W == \A m \in Names \ {n} : writer' = m <=> writer = m
<1> USE DEF GoesOn, Moves
<1>0. reg[n].info \in Names \/ pc[n] \notin {"link", "transfer", "linking"}
  BY DEF Led
<1>1. CASE Stat(n)
  <2>1. Moves(n) /\ pc[n] = "stat" /\ pc'[n] \in {"lookup", "decide"} /\ writer' = writer
    BY <1>1, StatDoes
  <2> QED
    BY <2>1, WriterStays DEF Rank
<1>2. CASE StatFails(n)
  <2>1. Moves(n) /\ pc[n] = "stat" /\ pc'[n] = "done" /\ writer' = writer
    BY <1>2, PlainDoes DEF StatFails, At
  <2> QED
    BY <2>1, WriterStays DEF Rank
<1>3. CASE Reroll(n)
  <2>1. /\ Moves(n) /\ pc[n] = "create" /\ pc'[n] = "lookup"
        /\ UNCHANGED <<source, fwd, info>>
    BY <1>3, PlainDoes DEF Reroll, At
  <2>2. writer' = writer /\ Found(n)
    BY <1>3, Zenon DEF Reroll, lock, At
  <2> QED
    BY <2>1, <2>2, WriterStays
<1>4. CASE Promote(n)
  <2>1. Moves(n) /\ pc[n] = "dest" /\ pc'[n] = "newrev" /\ writer # n /\ Unlocked(n)
    BY <1>4, PlainDoes DEF Promote, At
  <2> QED
    BY <2>1, WriterStays DEF Rank
<1>5. CASE EndRegister(n)
  <2>1. Moves(n) /\ pc[n] = "dest" /\ pc'[n] = "decide" /\ Unlocked(n)
    BY <1>5, PlainDoes DEF EndRegister, At
  <2> QED
    BY <2>1, WriterStays DEF Rank
<1>6. CASE Lookup(n)
  <2>1. /\ Moves(n) /\ pc[n] = "lookup" /\ pc'[n] \in {"create", "link", "dest"}
        /\ UNCHANGED <<source, fwd, info, writer>>
        /\ pc'[n] = "create" => ~Found(n)
    BY <1>6, LookupDoes DEF Found
  <2>2. W
    BY <2>1, WriterStays
  <2>3. CASE pc'[n] = "create"
    BY <2>1, <2>2, <2>3
  <2>4. CASE pc'[n] # "create"
    BY <2>1, <2>2, <2>4 DEF Rank
  <2> QED
    BY <2>3, <2>4
<1>7. CASE Create(n)
  <2>1. /\ Moves(n) /\ pc[n] = "create" /\ pc'[n] = "dest"
        /\ writer = NoName /\ writer' = n
    BY <1>7, CreateDoes DEF CanWrite
  <2> QED
    BY <2>1, WriterStays DEF Rank
<1>8. CASE Queue(n)
  <2>1. Moves(n) /\ pc[n] = "link" /\ pc'[n] = "dest" /\ writer' = writer
    BY <1>0, <1>8, QueueDoes DEF Queue, At
  <2> QED
    BY <2>1, WriterStays DEF Rank
<1>9. CASE Relink(n)
  <2>1. Moves(n) /\ pc[n] = "link" /\ pc'[n] \in {"dropinfo", "dest"} /\ writer' = writer
    BY <1>0, <1>9, RelinkDoes DEF Relink, At
  <2> QED
    BY <2>1, WriterStays DEF Rank
<1>10. CASE RelinkFails(n)
  <2>1. Moves(n) /\ pc[n] = "link" /\ pc'[n] = "decide" /\ writer' = writer
    BY <1>0, <1>10, RelinkFailsDoes DEF RelinkFails, At
  <2> QED
    BY <2>1, WriterStays DEF Rank
<1>11. CASE DropInfo(n)
  <2>1. /\ Moves(n) /\ pc[n] = "dropinfo" /\ pc'[n] = "dest"
        /\ writer = NoName /\ writer' = n
    BY <1>11, DropInfoDoes DEF CanWrite
  <2> QED
    BY <2>1, WriterStays DEF Rank
<1>12. CASE NewRev(n)
  <2>1. Moves(n) /\ pc[n] = "dest" /\ pc'[n] = "decide" /\ Unlocked(n)
    BY <1>12, NewRevDoes
  <2> QED
    BY <2>1, WriterStays DEF Rank
<1>13. CASE LookAgain(n)
  <2>1. /\ Moves(n) /\ pc[n] = "newrev" /\ pc'[n] = "dest"
        /\ writer = NoName /\ writer' = n
    BY <1>13, LookAgainDoes DEF CanWrite
  <2> QED
    BY <2>1, WriterStays DEF Rank
<1>14. CASE CountRev(n) \/ LastRev(n)
  <2>1. /\ Moves(n) /\ pc[n] = "dest" /\ pc'[n] \in {"decide", "droprev"}
        /\ Unlocked(n) \/ writer' = writer
    BY <1>14, CountDoes DEF lock
  <2> QED
    BY <2>1, WriterStays DEF Rank
<1>15. CASE DropRev(n)
  <2>1. Moves(n) /\ pc[n] = "droprev" /\ pc'[n] = "decide"
    BY <1>15, DropRevDoes
  <2>2. writer' = NoName /\ (writer = n \/ writer = NoName)
    BY <1>15, Zenon DEF DropRev, CanWrite, At
  <2>3. W
    BY <2>2, NamesAssumption
  <2> QED
    BY <2>1, <2>3 DEF Rank
<1>16. CASE SendJob(n) \/ GiveUp(n) \/ NoJob(n)
  <2>1. Moves(n) /\ pc[n] = "decide" /\ pc'[n] \in {"job", "done"} /\ writer' = writer
    BY <1>16, DecideDoes
  <2> QED
    BY <2>1, WriterStays DEF Rank
<1>17. CASE Finish(n)
  <2>1. Moves(n) /\ pc[n] = "job" /\ pc'[n] \in {"handle", "done"} /\ writer' = writer
    BY <1>17, FinishDoes
  <2> QED
    BY <2>1, WriterStays DEF Rank
<1>18. CASE FinishFails(n)
  <2>1. Moves(n) /\ pc[n] = "job" /\ pc'[n] = "done" /\ writer' = writer
    BY <1>18, FinishFailsDoes
  <2> QED
    BY <2>1, WriterStays DEF Rank
<1>19. CASE Handle(n)
  <2>1. Moves(n) /\ pc[n] = "handle" /\ pc'[n] \in {"transfer", "done"} /\ writer' = writer
    BY <1>19, HandleDoes
  <2> QED
    BY <2>1, WriterStays DEF Rank
<1>20. CASE Transfer(n)
  <2>1. Moves(n) /\ pc[n] = "transfer" /\ pc'[n] = "linking" /\ writer' = writer
    <3>1. pc[n] = "transfer"
      BY <1>20, Zenon DEF Transfer, At
    <3> QED
      BY <1>0, <1>20, <3>1, TransferDoes
  <2> QED
    BY <2>1, WriterStays DEF Rank
<1>21. CASE LinkPending(n)
  <2>1. pc' = pc /\ pc[n] = "linking" /\ writer' = writer
    BY <1>0, <1>21, LinkPendingDoes DEF LinkPending, At
  <2> QED
    BY <1>21, <2>1
<1>22. CASE EndTransfer(n)
  <2>1. Moves(n) /\ pc[n] = "linking" /\ pc'[n] \in {"dropgroup", "done"} /\ writer' = writer
    BY <1>0, <1>22, EndTransferDoes DEF EndTransfer, At
  <2> QED
    BY <2>1, WriterStays DEF Rank
<1>23. CASE DropGroup(n) \/ DropForeign(n)
  <2>1. Moves(n) /\ pc[n] = "dropgroup" /\ pc'[n] = "done" /\ writer' = writer
    BY <1>23, DropGroupDoes
  <2> QED
    BY <2>1, WriterStays DEF Rank
<1> QED
  BY <1>1, <1>2, <1>3, <1>4, <1>5, <1>6, <1>7, <1>8, <1>9, <1>10, <1>11, <1>12, <1>13, <1>14,
     <1>15, <1>16, <1>17, <1>18, <1>19, <1>20, <1>21, <1>22, <1>23, Zenon
  DEF NameStep, Register, HandleTransfer

LEMMA StepsFinite ==
    ASSUME NEW S, S \in SUBSET (Names \X (1 .. 14)) \/ S \in SUBSET (Names \X Names)
                     \/ S \in SUBSET Names
    PROVE  IsFiniteSet(S) /\ Cardinality(S) \in Nat
<1>1. IsFiniteSet(1 .. 14)
  <2>1. 1 \in Int /\ 14 \in Int
    OBVIOUS
  <2> QED
    BY <2>1, FS_Interval, Zenon
<1>2. IsFiniteSet(Names \X (1 .. 14)) /\ IsFiniteSet(Names \X Names) /\ IsFiniteSet(Names)
  BY <1>1, NamesAssumption, FS_Product
<1>3. IsFiniteSet(S)
  BY <1>2, FS_Subset
<1> QED
  BY <1>3, FS_CardinalityType

\* What is less than a finite set has less members.
LEMMA LessThan ==
    ASSUME NEW S, NEW T, IsFiniteSet(S), T \subseteq S, NEW x \in S, x \notin T
    PROVE  Cardinality(T) < Cardinality(S)
<1>1. IsFiniteSet(T) /\ Cardinality(T) <= Cardinality(S) /\ Cardinality(T) # Cardinality(S)
  BY FS_Subset
<1>2. Cardinality(T) \in Nat /\ Cardinality(S) \in Nat
  BY <1>1, FS_CardinalityType
<1> QED
  BY <1>1, <1>2

LEMMA RankTypes ==
    ASSUME NEW n \in Names
    PROVE  Rank(n) \in 0 .. 14 /\ Rank(n)' \in 0 .. 14
<1> DEFINE Values == {0, 1, 2, 3, 4, 5, 6, 7, 8, 9, 10, 11, 12, 13, 14}
<1>1. Rank(n) \in Values
  BY DEF Rank
<1>2. Rank(n)' \in Values
  BY DEF Rank
<1>3. \A v \in Values : v \in 0 .. 14
  OBVIOUS
<1> QED
  BY <1>1, <1>2, <1>3

LEMMA StepNearer ==
    ASSUME Types, Led, NEW n \in Names, NameStep(n)
    PROVE  Nearer
<1>1. /\ IsFiniteSet(Ahead) /\ IsFiniteSet(ToLink) /\ IsFiniteSet(Outdated)
      /\ Cardinality(Ahead') \in Nat /\ Cardinality(ToLink') \in Nat
      /\ Cardinality(Outdated') \in Nat
  <2>1. /\ Ahead \in SUBSET (Names \X (1 .. 14)) /\ Ahead' \in SUBSET (Names \X (1 .. 14))
        /\ ToLink \in SUBSET (Names \X Names) /\ ToLink' \in SUBSET (Names \X Names)
        /\ Outdated \in SUBSET Names /\ Outdated' \in SUBSET Names
    BY DEF Ahead, ToLink, Outdated
  <2> QED
    BY <2>1, StepsFinite
<1>2. GoesOn(n) /\ Types' /\ Led'
  BY NameGoesOn, LedStep
<1>3. \A m \in Names \ {n} : Rank(m)' = Rank(m)
  BY <1>2 DEF GoesOn, Rank
<1>4. ASSUME Rank(n)' > Rank(n) PROVE Cardinality(Ahead') < Cardinality(Ahead)
  <2>1. Rank(n) \in 0 .. 14 /\ Rank(n)' \in 0 .. 14
    BY RankTypes
  <2>2. Ahead' \subseteq Ahead
    <3> SUFFICES ASSUME NEW m \in Names, NEW k \in 1 .. 14, Rank(m)' < k
                 PROVE  Rank(m) < k
      BY DEF Ahead
    <3>1. CASE m = n
      BY <1>4, <2>1, <3>1
    <3>2. CASE m # n
      BY <1>3, <3>2
    <3> QED
      BY <3>1, <3>2
  <2>3. <<n, Rank(n)'>> \in Ahead /\ <<n, Rank(n)'>> \notin Ahead'
    BY <1>4, <2>1 DEF Ahead
  <2> QED
    BY <1>1, <2>2, <2>3, LessThan
<1>5. ASSUME Rank(n)' = Rank(n) PROVE Ahead' = Ahead
  BY <1>3, <1>5 DEF Ahead
<1>6. CASE pc' = pc /\ writer' = writer /\ pc[n] = "linking" /\ LinkPending(n)
  <2>1. Ahead' = Ahead
    BY <1>5, <1>6 DEF Rank
  <2>2. reg[n].info \in Names
    BY <1>6 DEF Led
  <2>3. PICK m \in Names : LinksOne(n, m)
    BY <1>6, <2>2, LinkPendingDoes
  <2>4. \A h \in Names \ {reg[n].info} : info'[h].links = info[h].links
    BY <1>6, <2>2, LinkPendingDoes
  <2>5. /\ m \in info[reg[n].info].links
        /\ info'[reg[n].info].links = info[reg[n].info].links \ {m}
    BY <2>3 DEF LinksOne
  <2>6. /\ ToLink' \subseteq ToLink
        /\ <<reg[n].info, m>> \in ToLink /\ <<reg[n].info, m>> \notin ToLink'
    BY <2>2, <2>4, <2>5 DEF ToLink
  <2>7. Cardinality(ToLink') < Cardinality(ToLink)
    BY <1>1, <2>6, LessThan
  <2> QED
    BY <1>1, <2>1, <2>7 DEF Nearer
<1>7. CASE /\ writer' = writer /\ UNCHANGED <<source, fwd, info>>
           /\ \/ pc[n] = "lookup" /\ pc'[n] = "create" /\ ~Found(n)
              \/ pc[n] = "create" /\ pc'[n] = "lookup" /\ Found(n)
  <2>1. Ahead' = Ahead
    BY <1>5, <1>7 DEF Rank
  <2>2. ToLink' = ToLink
    BY <1>7 DEF ToLink
  <2>3. \A m \in Names : Found(m)' = Found(m)
    BY <1>7 DEF Found, SrcIno
  <2>4. n \in Outdated /\ n \notin Outdated'
    BY <1>7, <2>3 DEF Outdated
  <2>5. Outdated' \subseteq Outdated
    BY <1>2, <2>3, <2>4 DEF Outdated, GoesOn
  <2>6. Cardinality(Outdated') < Cardinality(Outdated)
    BY <1>1, <2>4, <2>5, LessThan
  <2> QED
    BY <1>1, <2>1, <2>2, <2>6 DEF Nearer
<1> QED
  BY <1>1, <1>2, <1>4, <1>6, <1>7 DEF GoesOn, Nearer

\* A registration that finds after the promotion of the lock what it did not find before
\* starts again (hlinkStateRegisterLinkRoot's reroll), but not for ever: whatever the
\* other threads do, each step is one of finitely many.
THEOREM RerollsRunOut == Spec => [][Nearer]_vars
<1>1. Entries /\ [Next]_vars => [Nearer]_vars
  <2> SUFFICES ASSUME Entries, Next, ~UNCHANGED vars PROVE Nearer
    OBVIOUS
  <2>1. PICK n \in Names : NameStep(n)
    BY DEF Next, Stopped, NameStep
  <2> QED
    BY <2>1, StepNearer DEF Entries
<1> QED
  BY <1>1, SpecEntries, PTL DEF Spec
=============================================================================
