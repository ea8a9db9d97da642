-------------------------- MODULE LinkTablesProofs --------------------------
(***************************************************************************)
(* Theorems about LinkTables: for any tables, inode numbers, values,       *)
(* threads and size of the caches, a pair that was written is found, one   *)
(* that was deleted stays away once every thread has begun, and the tables *)
(* implement PairStore.                                                    *)
(*                                                                         *)
(* The inductive invariant is the conjunction of the three invariants. A   *)
(* new transaction finds what is committed: that this is what was written  *)
(* follows from OnlyDeletesUncommitted.                                    *)
(***************************************************************************)
EXTENDS LinkTables, FiniteSetTheorems, TLAPS

IInv == TypeOK /\ OnlyDeletesUncommitted /\ WrittenFound

\* Of two maps over each other the upper one counts.
LEMMA OverlayType ==
    ASSUME NEW c \in [Keys -> Values \cup {NoValue}],
           NEW s \in [Keys -> Values \cup {NoValue}]
    PROVE  /\ Overlay(c, s) \in [Keys -> Values \cup {NoValue}]
           /\ \A j \in Keys :
                 Overlay(c, s)[j] = IF c[j] # NoValue THEN c[j] ELSE s[j]
  BY DEF Overlay

LEMMA EmptyType ==
    /\ NoPairs \in [Keys -> Values \cup {NoValue}]
    /\ \A j \in Keys : NoPairs[j] = NoValue
    /\ Empty \in Maps
    /\ \A u \in Tables : Empty[u] = NoPairs
  BY DEF NoPairs, Empty, Maps

\* A cache that loses a pair is no fuller.
LEMMA DeletedSize ==
    ASSUME NEW c \in [Keys -> Values \cup {NoValue}], NEW k \in Keys
    PROVE  /\ Size(c) \in Nat
           /\ Size([c EXCEPT ![k] = NoValue]) \in Nat
           /\ Size([c EXCEPT ![k] = NoValue]) <= Size(c)
  <1> DEFINE d == [c EXCEPT ![k] = NoValue]
             C == {j \in Keys : c[j] # NoValue}
             D == {j \in Keys : d[j] # NoValue}
  <1>1. IsFiniteSet(C)
    BY FS_Subset, KeysAssumption, C \subseteq Keys
  <1>2. D \subseteq C
    OBVIOUS
  <1>3. Cardinality(D) <= Cardinality(C) /\ IsFiniteSet(D)
    BY <1>1, <1>2, FS_Subset
  <1>4. Cardinality(C) \in Nat /\ Cardinality(D) \in Nat
    BY <1>1, <1>3, FS_CardinalityType
  <1> QED BY <1>3, <1>4 DEF Size

LEMMA InitIInv == Init => IInv
  <1> SUFFICES ASSUME Init PROVE IInv
    OBVIOUS
  <1>1. TypeOK
    BY EmptyType DEF Init, TypeOK
  <1>2. OnlyDeletesUncommitted
    BY EmptyType DEF Init, OnlyDeletesUncommitted
  <1>3. WrittenFound
    BY EmptyType DEF Init, WrittenFound
  <1> QED BY <1>1, <1>2, <1>3 DEF IInv

\* What a flush does to the three invariants, for a cache c that the pair
\* written has just made too large.
LEMMA FlushKeepsIInv ==
    ASSUME IInv, NEW t \in Tables, NEW k \in Keys, NEW v \in Values,
           FlushCache(t, [cache[t] EXCEPT ![k] = v]),
           book' = SetPair(book, t, k, v), UNCHANGED begun
    PROVE  IInv'
  <1> DEFINE c == [cache[t] EXCEPT ![k] = v]
  <1>1. c \in [Keys -> Values \cup {NoValue}] /\ c[k] = v
        /\ \A j \in Keys \ {k} : c[j] = cache[t][j]
    BY DEF IInv, TypeOK, Maps
  <1>2. /\ cache' = [cache EXCEPT ![t] = NoPairs]
        /\ \/ stored' = [view EXCEPT ![t] = Overlay(c, view[t])] /\ failed' = failed
           \/ failed' = TRUE /\ stored' = stored
        /\ view' = stored'
    BY DEF FlushCache
  <1> HIDE DEF c
  <1>3. cache' \in Maps /\ \A u \in Tables :
           cache'[u] = IF u = t THEN NoPairs ELSE cache[u]
    BY <1>2, EmptyType DEF IInv, TypeOK, Maps
  <1>4. stored' \in Maps /\ view' \in Maps
    <2>1. stored \in Maps /\ view \in Maps /\ view[t] \in [Keys -> Values \cup {NoValue}]
      BY DEF IInv, TypeOK, Maps
    <2>2. Overlay(c, view[t]) \in [Keys -> Values \cup {NoValue}]
      BY <1>1, <2>1, OverlayType
    <2>3. [view EXCEPT ![t] = Overlay(c, view[t])] \in Maps
      BY <2>1, <2>2 DEF Maps
    <2> QED BY <1>2, <2>1, <2>3
  <1>5. book' \in Maps /\ \A u \in Tables, j \in Keys :
           book'[u][j] = IF u = t /\ j = k THEN v ELSE book[u][j]
    <2>1. book \in Maps /\ v \in Values \cup {NoValue}
      BY DEF IInv, TypeOK
    <2>2. /\ SetPair(book, t, k, v) \in Maps
          /\ \A u \in Tables, j \in Keys :
                SetPair(book, t, k, v)[u][j] = IF u = t /\ j = k THEN v ELSE book[u][j]
      BY <2>1 DEF SetPair, Maps
    <2> QED BY <2>2
  <1>6. TypeOK'
    BY <1>2, <1>3, <1>4, <1>5 DEF IInv, TypeOK
  <1>7. OnlyDeletesUncommitted'
    BY <1>2 DEF OnlyDeletesUncommitted
  <1>8. WrittenFound'
    <2> SUFFICES ASSUME ~failed', NEW u \in Tables, NEW j \in Keys,
                        book'[u][j] # NoValue
                 PROVE  Read(u, j)' = book'[u][j]
      BY DEF WrittenFound
    <2>1. view' = [view EXCEPT ![t] = Overlay(c, view[t])] /\ ~failed
      BY <1>2
    <2>2. CASE u = t
      <3>1. cache'[u][j] = NoValue
        BY <1>3, <2>2, EmptyType
      <3>2. view'[u][j] = IF c[j] # NoValue THEN c[j] ELSE view[t][j]
        <4>1. view \in Maps /\ view'[t] = Overlay(c, view[t])
          BY <2>1 DEF IInv, TypeOK, Maps
        <4>2. Overlay(c, view[t])[j] = IF c[j] # NoValue THEN c[j] ELSE view[t][j]
          BY DEF Overlay
        <4> QED BY <4>1, <4>2, <2>2
      <3>3. CASE j = k
        BY <3>1, <3>2, <3>3, <2>2, <1>1, <1>5, NoValueAssumption DEF Read
      <3>4. CASE j # k
        <4>1. book'[u][j] = book[t][j] /\ c[j] = cache[t][j]
          BY <3>4, <2>2, <1>1, <1>5
        <4>2. Read(t, j) = book[t][j]
          BY <4>1, <2>1 DEF IInv, WrittenFound
        <4> QED BY <4>1, <4>2, <3>1, <3>2 DEF Read
      <3> QED BY <3>3, <3>4
    <2>3. CASE u # t
      <3>1. view'[u] = view[u] /\ cache'[u] = cache[u]
        BY <2>1, <2>3, <1>3 DEF IInv, TypeOK, Maps
      <3>2. book'[u][j] = book[u][j]
        BY <2>3, <1>5
      <3>3. Read(u, j) = book[u][j]
        BY <3>2, <2>1 DEF IInv, WrittenFound
      <3> QED BY <3>1, <3>2, <3>3 DEF Read
    <2> QED BY <2>2, <2>3
  <1> QED BY <1>6, <1>7, <1>8 DEF IInv

LEMMA NextIInv == IInv /\ [Next]_vars => IInv'
  <1> SUFFICES ASSUME IInv, [Next]_vars PROVE IInv'
    OBVIOUS
  <1>1. ASSUME NEW th \in Threads, GetRDOnlyTxn(th) PROVE IInv'
    <2>1. TypeOK'
      BY <1>1 DEF IInv, TypeOK, GetRDOnlyTxn
    <2>2. OnlyDeletesUncommitted'
      BY <1>1 DEF GetRDOnlyTxn, OnlyDeletesUncommitted
    <2>3. WrittenFound'
      BY <1>1 DEF IInv, OnlyDeletesUncommitted, WrittenFound, Read, GetRDOnlyTxn
    <2> QED BY <2>1, <2>2, <2>3 DEF IInv
  <1>2. ASSUME NEW t \in Tables, NEW k \in Keys, NEW v \in Values, WritePair(t, k, v)
        PROVE  IInv'
    <2> DEFINE c == [cache[t] EXCEPT ![k] = v]
    <2>1. CASE Size(c) >= MaxCacheSize /\ FlushCache(t, c)
      BY <1>2, <2>1, FlushKeepsIInv DEF WritePair
    <2>2. CASE /\ Size(c) < MaxCacheSize
               /\ cache' = [cache EXCEPT ![t] = c]
               /\ UNCHANGED <<stored, view, failed>>
      <3>1. book' = SetPair(book, t, k, v) /\ begun' = begun
        BY <1>2 DEF WritePair
      <3>2. cache' = SetPair(cache, t, k, v)
        BY <2>2 DEF SetPair
      <3>3. /\ book' \in Maps /\ cache' \in Maps
            /\ cache'[t] = c
            /\ \A u \in Tables \ {t} : cache'[u] = cache[u]
            /\ \A u \in Tables, j \in Keys :
                  /\ book'[u][j] = IF u = t /\ j = k THEN v ELSE book[u][j]
                  /\ cache'[u][j] = IF u = t /\ j = k THEN v ELSE cache[u][j]
        BY <3>1, <3>2 DEF SetPair, Maps, IInv, TypeOK
      <3> HIDE DEF c
      <3>4. TypeOK'
        <4>1. \A u \in Tables : cache'[u] = NoPairs \/ Size(cache'[u]) < MaxCacheSize
          BY <2>2, <3>3 DEF IInv, TypeOK
        <4> QED BY <4>1, <3>3, <3>1, <2>2 DEF IInv, TypeOK, Size, NoPairs
      <3>5. OnlyDeletesUncommitted'
        BY <2>2 DEF IInv, OnlyDeletesUncommitted
      <3>6. WrittenFound'
        BY <2>2, <3>3, NoValueAssumption DEF IInv, WrittenFound, Read
      <3> QED BY <3>4, <3>5, <3>6 DEF IInv
    <2> QED BY <1>2, <2>1, <2>2 DEF WritePair
  <1>3. ASSUME NEW t \in Tables, NEW k \in Keys, DeletePair(t, k) PROVE IInv'
    <2>1. /\ cache' = SetPair(cache, t, k, NoValue)
          /\ view' = SetPair(view, t, k, NoValue)
          /\ book' = SetPair(book, t, k, NoValue)
          /\ stored' = stored /\ begun' = begun /\ failed' = failed
      BY <1>3 DEF DeletePair
    <2>2. /\ book' \in Maps /\ cache' \in Maps /\ view' \in Maps
          /\ cache'[t] = [cache[t] EXCEPT ![k] = NoValue]
          /\ \A u \in Tables \ {t} : cache'[u] = cache[u]
          /\ \A u \in Tables, j \in Keys :
                /\ book'[u][j] = IF u = t /\ j = k THEN NoValue ELSE book[u][j]
                /\ view'[u][j] = IF u = t /\ j = k THEN NoValue ELSE view[u][j]
                /\ cache'[u][j] = IF u = t /\ j = k THEN NoValue ELSE cache[u][j]
      BY <2>1 DEF SetPair, Maps, IInv, TypeOK
    <2>3. TypeOK'
      <3>1. cache'[t] = NoPairs \/ Size(cache'[t]) < MaxCacheSize
        <4>1. CASE cache[t] = NoPairs
          BY <4>1, <2>2 DEF NoPairs
        <4>2. CASE Size(cache[t]) < MaxCacheSize
          <5>1. cache[t] \in [Keys -> Values \cup {NoValue}]
            BY DEF IInv, TypeOK, Maps
          <5> QED BY <4>2, <5>1, <2>2, DeletedSize, CacheAssumption
        <4> QED BY <4>1, <4>2 DEF IInv, TypeOK
      <3>2. \A u \in Tables : cache'[u] = NoPairs \/ Size(cache'[u]) < MaxCacheSize
        BY <3>1, <2>2 DEF IInv, TypeOK
      <3> QED BY <3>2, <2>1, <2>2 DEF IInv, TypeOK, Size, NoPairs
    <2>4. OnlyDeletesUncommitted'
      BY <2>1, <2>2 DEF IInv, OnlyDeletesUncommitted
    <2>5. WrittenFound'
      BY <2>1, <2>2 DEF IInv, WrittenFound, Read
    <2> QED BY <2>3, <2>4, <2>5 DEF IInv
  <1>4. CASE UNCHANGED vars
    BY <1>4 DEF vars, IInv, TypeOK, Size, NoPairs, OnlyDeletesUncommitted, WrittenFound, Read
  <1> QED BY <1>1, <1>2, <1>3, <1>4 DEF Next

THEOREM InductiveInvariant == Spec => []IInv
  <1>1. Init => IInv
    BY InitIInv
  <1>2. IInv /\ [Next]_vars => IInv'
    BY NextIInv
  <1> QED BY <1>1, <1>2, PTL DEF Spec

\* The tables keep their types, and no cache stays at its limit (hlinkstate.cpp:98).
THEOREM TypeCorrect == Spec => []TypeOK
  <1>1. IInv => TypeOK
    BY DEF IInv
  <1> QED BY <1>1, InductiveInvariant, PTL

\* Nothing but deletions waits for a commit (flushCache, hlinkstate.cpp:57-91).
THEOREM NoPutWaits == Spec => []OnlyDeletesUncommitted
  <1>1. IInv => OnlyDeletesUncommitted
    BY DEF IInv
  <1> QED BY <1>1, InductiveInvariant, PTL

\* readPair finds what writePair wrote last (hlinkstate.cpp:20-103), whatever is
\* flushed, deleted elsewhere or begun in between, unless a commit failed.
THEOREM WrittenIsFound == Spec => []WrittenFound
  <1>1. IInv => WrittenFound
    BY DEF IInv
  <1> QED BY <1>1, InductiveInvariant, PTL

-----------------------------------------------------------------------------
LEMMA StepStaysDeleted ==
    ASSUME IInv, Next, begun = Threads, ~failed',
           NEW t \in Tables, NEW k \in Keys,
           book'[t][k] = NoValue, Read(t, k) = NoValue \/ book[t][k] # NoValue
    PROVE  Read(t, k)' = NoValue
  <1>1. /\ cache \in Maps /\ stored \in Maps /\ view \in Maps /\ book \in Maps
        /\ cache[t] \in [Keys -> Values \cup {NoValue}]
        /\ view[t] \in [Keys -> Values \cup {NoValue}]
    BY DEF IInv, TypeOK, Maps
  <1>2. ASSUME NEW th \in Threads, GetRDOnlyTxn(th) PROVE FALSE
    BY <1>2 DEF GetRDOnlyTxn
  <1>3. ASSUME NEW s \in Tables, NEW j \in Keys, NEW v \in Values, WritePair(s, j, v)
        PROVE  Read(t, k)' = NoValue
    <2> DEFINE c == [cache[s] EXCEPT ![j] = v]
    <2>1. book' = SetPair(book, s, j, v)
      BY <1>3 DEF WritePair
    <2>2. ~(s = t /\ j = k)
      BY <1>1, <2>1, NoValueAssumption DEF SetPair, Maps
    <2>3. book'[t][k] = book[t][k]
      BY <1>1, <2>1, <2>2 DEF SetPair, Maps
    <2>4. cache[t][k] = NoValue /\ view[t][k] = NoValue
      BY <2>3 DEF Read
    <2>5. s = t => c[k] = NoValue
      BY <1>1, <2>2, <2>4
    <2>6. CASE cache' = [cache EXCEPT ![s] = c] /\ view' = view
      BY <1>1, <2>4, <2>5, <2>6 DEF Read, Maps
    <2>7. CASE FlushCache(s, c)
      <3>1. /\ cache' = [cache EXCEPT ![s] = NoPairs]
            /\ view' = [view EXCEPT ![s] = Overlay(c, view[s])]
        BY <2>7 DEF FlushCache
      <3>2. s = t => Overlay(c, view[s])[k] = NoValue
        BY <2>4, <2>5 DEF Overlay
      <3>3. cache'[t][k] = NoValue
        BY <1>1, <2>4, <3>1, EmptyType DEF Maps
      <3>4. view'[t][k] = NoValue
        BY <1>1, <2>4, <3>1, <3>2 DEF Maps
      <3> QED BY <3>3, <3>4 DEF Read
    <2> QED BY <1>3, <2>6, <2>7 DEF WritePair
  <1>4. ASSUME NEW s \in Tables, NEW j \in Keys, DeletePair(s, j)
        PROVE  Read(t, k)' = NoValue
    <2>1. /\ cache' = SetPair(cache, s, j, NoValue)
          /\ view' = SetPair(view, s, j, NoValue)
          /\ book' = SetPair(book, s, j, NoValue)
      BY <1>4 DEF DeletePair
    <2>2. CASE s = t /\ j = k
      BY <1>1, <2>1, <2>2 DEF SetPair, Maps, Read
    <2>3. CASE ~(s = t /\ j = k)
      <3>1. book'[t][k] = book[t][k]
        BY <1>1, <2>1, <2>3 DEF SetPair, Maps
      <3>2. cache'[t][k] = cache[t][k] /\ view'[t][k] = view[t][k]
        BY <1>1, <2>1, <2>3 DEF SetPair, Maps
      <3> QED BY <3>1, <3>2 DEF Read
    <2> QED BY <2>2, <2>3
  <1> QED BY <1>2, <1>3, <1>4 DEF Next

\* Once every thread has its transaction, no flush brings a deleted pair back
\* (deletePair, hlinkstate.cpp:105-126).
THEOREM DeletedStaysAway == Spec => StaysDeleted
  <1>1. IInv /\ [Next]_vars =>
           [begun = Threads /\ ~failed' =>
               \A t \in Tables, k \in Keys :
                  book'[t][k] = NoValue /\ (Read(t, k) = NoValue \/ book[t][k] # NoValue)
                     => Read(t, k)' = NoValue]_vars
    BY StepStaysDeleted
  <1> QED BY <1>1, InductiveInvariant, PTL DEF Spec, StaysDeleted

-----------------------------------------------------------------------------
LEMMA PairsType ==
    ASSUME IInv
    PROVE  /\ Pairs \in Maps
           /\ \A t \in Tables, k \in Keys : Pairs[t][k] = Read(t, k)
  BY DEF IInv, TypeOK, Maps, Pairs, Overlay, Read

LEMMA PairsInit == Init => Store!Init
  <1> SUFFICES ASSUME Init PROVE Pairs = Store!Empty /\ stored = Store!Empty
    BY DEF Store!Init
  <1>1. Store!Empty = Empty
    BY DEF Store!Empty, Empty, NoPairs
  <1>2. Pairs = Empty
    BY DEF Init, Pairs, Overlay, Empty, NoPairs
  <1> QED BY <1>1, <1>2 DEF Init

\* Maps are equal if their pairs are.
LEMMA MapsEqual ==
    ASSUME NEW f \in Maps, NEW g \in Maps,
           \A t \in Tables, k \in Keys : f[t][k] = g[t][k]
    PROVE  f = g
  <1>1. \A t \in Tables : f[t] = g[t]
    <2> TAKE t \in Tables
    <2>1. f[t] \in [Keys -> Values \cup {NoValue}] /\ g[t] \in [Keys -> Values \cup {NoValue}]
      BY DEF Maps
    <2> QED BY <2>1
  <1> QED BY <1>1 DEF Maps

\* What the refinement's maps are after a step.
LEMMA PairsAfter ==
    ASSUME TypeOK'
    PROVE  /\ Pairs' \in Maps
           /\ \A t \in Tables, k \in Keys :
                 Pairs'[t][k] = IF cache'[t][k] # NoValue THEN cache'[t][k] ELSE view'[t][k]
  BY DEF TypeOK, Maps, Pairs, Overlay

LEMMA PairsStep == IInv /\ IInv' /\ [Next]_vars => [Store!Next]_(Store!vars)
  <1> SUFFICES ASSUME IInv, IInv', [Next]_vars
               PROVE  Store!Next \/ (Pairs' = Pairs /\ stored' = stored)
    BY DEF Store!vars
  <1>1. /\ cache \in Maps /\ stored \in Maps /\ view \in Maps
        /\ \A t \in Tables : /\ cache[t] \in [Keys -> Values \cup {NoValue}]
                             /\ view[t] \in [Keys -> Values \cup {NoValue}]
                             /\ stored[t] \in [Keys -> Values \cup {NoValue}]
    BY DEF IInv, TypeOK, Maps
  <1>2. /\ Pairs \in Maps
        /\ \A t \in Tables, k \in Keys :
              Pairs[t][k] = IF cache[t][k] # NoValue THEN cache[t][k] ELSE view[t][k]
    BY PairsType DEF Read
  <1>3. /\ Pairs' \in Maps
        /\ \A t \in Tables, k \in Keys :
              Pairs'[t][k] = IF cache'[t][k] # NoValue THEN cache'[t][k] ELSE view'[t][k]
    BY PairsAfter DEF IInv
  <1>4. \A t \in Tables, k \in Keys : view[t][k] \in {stored[t][k], NoValue}
    BY DEF IInv, OnlyDeletesUncommitted
  <1>5. /\ Store!Returned \in Maps
        /\ \A t \in Tables, k \in Keys :
              Store!Returned[t][k] = IF cache[t][k] # NoValue THEN cache[t][k] ELSE stored[t][k]
    <2>1. \A t \in Tables, k \in Keys :
              Store!Returned[t][k] = IF Pairs[t][k] = NoValue THEN stored[t][k] ELSE Pairs[t][k]
      BY DEF Store!Returned
    <2>2. Store!Returned \in Maps
      BY <1>1, <1>2 DEF Store!Returned, Maps
    <2> QED BY <2>1, <2>2, <1>2, <1>4
  <1>6. ASSUME NEW th \in Threads, GetRDOnlyTxn(th) PROVE Store!Next
    <2>1. cache' = cache /\ view' = stored /\ stored' = stored
      BY <1>6 DEF GetRDOnlyTxn
    <2>2. Pairs' = Store!Returned
      BY <1>3, <1>5, <2>1, MapsEqual
    <2> QED BY <2>1, <2>2 DEF Store!Next, Store!Return
  <1>7. ASSUME NEW t \in Tables, NEW k \in Keys, NEW v \in Values, WritePair(t, k, v)
        PROVE  Store!Next
    <2> DEFINE c == [cache[t] EXCEPT ![k] = v]
               new == Store!SetPair(Pairs, t, k, v)
    <2>1. /\ new \in Maps
          /\ \A u \in Tables, j \in Keys :
                new[u][j] = IF u = t /\ j = k THEN v ELSE Pairs[u][j]
      BY <1>2 DEF Store!SetPair, Maps
    <2>2. \A j \in Keys : c[j] = IF j = k THEN v ELSE cache[t][j]
      BY <1>1
    <2> HIDE DEF c, new
    <2>3. CASE cache' = [cache EXCEPT ![t] = c] /\ view' = view /\ stored' = stored
      <3>1. \A u \in Tables, j \in Keys :
               cache'[u][j] = IF u = t THEN c[j] ELSE cache[u][j]
        BY <1>1, <2>3 DEF Maps
      <3>2. \A u \in Tables, j \in Keys : Pairs'[u][j] = new[u][j]
        BY <1>2, <1>3, <2>1, <2>2, <2>3, <3>1, NoValueAssumption
      <3>3. Pairs' = new
        BY <1>3, <2>1, <3>2, MapsEqual
      <3>4. Store!Put(t, k, v)
        BY <3>3, <2>3 DEF Store!Put, new
      <3> QED BY <3>4 DEF Store!Next
    <2>4. CASE FlushCache(t, c)
      <3>1. /\ cache' = [cache EXCEPT ![t] = NoPairs]
            /\ view' = stored'
            /\ \/ stored' = [view EXCEPT ![t] = Overlay(c, view[t])]
               \/ stored' = stored
        BY <2>4 DEF FlushCache
      <3>2. \A u \in Tables, j \in Keys :
               cache'[u][j] = IF u = t THEN NoValue ELSE cache[u][j]
        BY <1>1, <3>1, EmptyType DEF Maps
      <3>3. CASE stored' = [view EXCEPT ![t] = Overlay(c, view[t])]
        <4>1. \A u \in Tables, j \in Keys :
                 stored'[u][j] = IF u = t THEN (IF c[j] # NoValue THEN c[j] ELSE view[t][j])
                                 ELSE view[u][j]
          BY <1>1, <3>3 DEF Maps, Overlay
        <4>2. \A u \in Tables, j \in Keys : Pairs'[u][j] = new[u][j]
          BY <1>2, <1>3, <2>1, <2>2, <3>1, <3>2, <4>1, NoValueAssumption
        <4>3. Pairs' = new
          BY <1>3, <2>1, <4>2, MapsEqual
        <4>4. stored' \in Maps
          BY DEF IInv, TypeOK
        <4>5. stored'[t] = Pairs'[t]
          <5>1. \A j \in Keys : stored'[t][j] = Pairs'[t][j]
            BY <1>3, <3>1, <3>2
          <5>2. /\ stored'[t] \in [Keys -> Values \cup {NoValue}]
                /\ Pairs'[t] \in [Keys -> Values \cup {NoValue}]
            BY <1>3, <4>4 DEF Maps
          <5> QED BY <5>1, <5>2
        <4>6. \A u \in Tables \ {t}, j \in Keys :
                 \/ stored'[u][j] = NoValue
                 \/ stored'[u][j] = stored[u][j] /\ Pairs'[u][j] # NoValue
          BY <1>3, <1>4, <3>1, <3>2, <4>1
        <4>7. Store!Save(t)
          BY <4>4, <4>5, <4>6 DEF Store!Save, Maps
        <4>8. Store!Put(t, k, v)
          BY <4>3, <4>7 DEF Store!Put, new
        <4> QED BY <4>8 DEF Store!Next
      <3>4. CASE stored' = stored
        <4> DEFINE lost == [Store!Returned EXCEPT ![t] = stored[t]]
        <4>1. /\ lost \in Maps
              /\ \A u \in Tables, j \in Keys :
                    lost[u][j] = IF u = t THEN stored[t][j] ELSE Store!Returned[u][j]
          BY <1>1, <1>5 DEF Maps
        <4> HIDE DEF lost
        <4>2. \A u \in Tables, j \in Keys : Pairs'[u][j] = lost[u][j]
          BY <1>3, <1>5, <3>1, <3>2, <3>4, <4>1
        <4>3. Pairs' = lost
          BY <1>3, <4>1, <4>2, MapsEqual
        <4>4. Store!PutLost(t)
          BY <3>4, <4>3 DEF Store!PutLost, lost
        <4> QED BY <4>4 DEF Store!Next
      <3> QED BY <3>1, <3>3, <3>4
    <2> QED BY <1>7, <2>3, <2>4 DEF WritePair, c
  <1>8. ASSUME NEW t \in Tables, NEW k \in Keys, DeletePair(t, k) PROVE Store!Next
    <2> DEFINE new == Store!SetPair(Pairs, t, k, NoValue)
    <2>1. /\ new \in Maps
          /\ \A u \in Tables, j \in Keys :
                new[u][j] = IF u = t /\ j = k THEN NoValue ELSE Pairs[u][j]
      BY <1>2 DEF Store!SetPair, Maps
    <2>2. /\ cache' = SetPair(cache, t, k, NoValue)
          /\ view' = SetPair(view, t, k, NoValue)
          /\ stored' = stored
      BY <1>8 DEF DeletePair
    <2>3. \A u \in Tables, j \in Keys :
             /\ cache'[u][j] = IF u = t /\ j = k THEN NoValue ELSE cache[u][j]
             /\ view'[u][j] = IF u = t /\ j = k THEN NoValue ELSE view[u][j]
      BY <1>1, <2>2 DEF SetPair, Maps
    <2> HIDE DEF new
    <2>4. Pairs' = new
      BY <1>2, <1>3, <2>1, <2>3, MapsEqual
    <2>5. Store!Drop(t, k)
      BY <2>2, <2>4 DEF Store!Drop, new
    <2> QED BY <2>5 DEF Store!Next
  <1>9. CASE UNCHANGED vars
    BY <1>9 DEF vars, Pairs, Overlay
  <1> QED BY <1>6, <1>7, <1>8, <1>9 DEF Next

\* The cache, the transaction and the flushes implement the maps of PairStore
\* (hlinkstate.cpp:20-153).
THEOREM Refinement == Spec => ImplementsPairStore
  <1>1. Init => Store!Init
    BY PairsInit
  <1>2. IInv /\ IInv' /\ [Next]_vars => [Store!Next]_(Store!vars)
    BY PairsStep
  <1> QED BY <1>1, <1>2, InductiveInvariant, PTL DEF Spec, ImplementsPairStore, Store!Spec
=============================================================================
