----------------------------- MODULE LinkTables -----------------------------
(***************************************************************************)
(* The two tables of the hard-link state (hlinkstate.cpp:13-153): a cache  *)
(* of pairs each, flushed into LMDB when it is full, over one transaction. *)
(*                                                                         *)
(* HLinkState uses them as maps: readPair under the read lock, writePair   *)
(* and deletePair under the write lock, one step each.  getRDOnlyTxn runs  *)
(* under the read lock and is meant to give each thread number a           *)
(* transaction to read in.  It begins one without MDB_RDONLY, and without  *)
(* a lock file (MDB_NOLOCK) nothing keeps LMDB from starting its one write *)
(* transaction again: every handle is that transaction, wrTxn too, and     *)
(* what it held that was not committed is gone (mdb_txn_renew0, liblmdb).  *)
(* resetRDOnlyTxns resets and renews the same handle: LMDB refuses both    *)
(* for a write transaction, so it does nothing.                            *)
(*                                                                         *)
(* Not here: two threads inside LMDB at once, which the read lock and this *)
(* sharing let race, and failing calls whose result is looked at: they end *)
(* the program.                                                            *)
(***************************************************************************)
EXTENDS Naturals, FiniteSets

CONSTANTS Tables,         \* forwardTable and revTable
          Keys,           \* inode numbers
          Values,         \* AllocRefs
          NoValue,        \* none of them: no pair
          Threads,        \* OpenMP thread numbers that call getRDOnlyTxn
          MaxCacheSize,   \* maxTableCacheSize
          MayFail         \* whether a commit may fail

ASSUME NoValueAssumption == NoValue \notin Values
ASSUME KeysAssumption == IsFiniteSet(Keys)
ASSUME CacheAssumption == MaxCacheSize \in Nat /\ MayFail \in BOOLEAN

VARIABLES cache,    \* table -> key -> value, or NoValue: the pairmaps
          stored,   \* the same, of what LMDB has committed
          view,     \* the same, of what the transaction sees
          begun,    \* rdTxns: the thread numbers with a transaction
          book,     \* history: what was written and not deleted since
          failed    \* history: a commit has failed
vars == <<cache, stored, view, begun, book, failed>>

NoPairs == [k \in Keys |-> NoValue]
Empty == [t \in Tables |-> NoPairs]
Maps == [Tables -> [Keys -> Values \cup {NoValue}]]

SetPair(f, t, k, v) == [f EXCEPT ![t] = [f[t] EXCEPT ![k] = v]]
Overlay(c, s) == [k \in Keys |-> IF c[k] # NoValue THEN c[k] ELSE s[k]]
Size(c) == Cardinality({k \in Keys : c[k] # NoValue})

\* readPair: the cache first, then the transaction.
Read(t, k) == IF cache[t][k] # NoValue THEN cache[t][k] ELSE view[t][k]

Init ==
    /\ cache = Empty /\ stored = Empty /\ view = Empty
    /\ begun = {}
    /\ book = Empty
    /\ failed = FALSE

----------------------------------------------------------------------------
\* getRDOnlyTxn, for a thread number without a transaction. With one it changes
\* nothing.
GetRDOnlyTxn(th) ==
    /\ th \notin begun
    /\ begun' = begun \cup {th}
    /\ view' = stored
    /\ UNCHANGED <<cache, stored, book, failed>>

\* Mutant: a pair that is in LMDB already is not put again.
FlushInserts(t, c) ==
    /\ cache' = [cache EXCEPT ![t] = NoPairs]
    /\ \/ /\ stored' = [view EXCEPT ![t] = Overlay(view[t], c)]
          /\ UNCHANGED failed
       \/ MayFail /\ failed' = TRUE /\ UNCHANGED stored
    /\ view' = stored'

\* Mutant: only what the cache holds is committed.
FlushPutsOnly(t, c) ==
    /\ cache' = [cache EXCEPT ![t] = NoPairs]
    /\ \/ /\ stored' = [stored EXCEPT ![t] = Overlay(c, stored[t])]
          /\ UNCHANGED failed
       \/ MayFail /\ failed' = TRUE /\ UNCHANGED stored
    /\ view' = stored'

\* Mutant: the next transaction is begun before the commit.
FlushKeepsView(t, c) ==
    /\ cache' = [cache EXCEPT ![t] = NoPairs]
    /\ stored' = [view EXCEPT ![t] = Overlay(c, view[t])]
    /\ UNCHANGED <<view, failed>>

\* flushCache, of c, the cache of t: all of it is put, the transaction of both
\* tables is committed, and begun again on what is committed then. The result
\* of the commit is not looked at.
FlushCache(t, c) ==
    /\ cache' = [cache EXCEPT ![t] = NoPairs]
    /\ \/ /\ stored' = [view EXCEPT ![t] = Overlay(c, view[t])]
          /\ UNCHANGED failed
       \/ MayFail /\ failed' = TRUE /\ UNCHANGED stored
    /\ view' = stored'

WritePair(t, k, v) ==
    /\ LET c == [cache[t] EXCEPT ![k] = v]
       IN \/ /\ Size(c) < MaxCacheSize
             /\ cache' = [cache EXCEPT ![t] = c]
             /\ UNCHANGED <<stored, view, failed>>
          \/ Size(c) >= MaxCacheSize /\ FlushCache(t, c)
    /\ book' = SetPair(book, t, k, v)
    /\ UNCHANGED begun

\* Mutant: the pair goes from the transaction only.
DeletePairBehindCache(t, k) ==
    /\ view' = SetPair(view, t, k, NoValue)
    /\ book' = SetPair(book, t, k, NoValue)
    /\ UNCHANGED <<cache, stored, begun, failed>>

DeletePair(t, k) ==
    /\ cache' = SetPair(cache, t, k, NoValue)
    /\ view' = SetPair(view, t, k, NoValue)
    /\ book' = SetPair(book, t, k, NoValue)
    /\ UNCHANGED <<stored, begun, failed>>

Next ==
    \/ \E th \in Threads : GetRDOnlyTxn(th)
    \/ \E t \in Tables, k \in Keys :
          \/ \E v \in Values : WritePair(t, k, v)
          \/ DeletePair(t, k)

Spec == Init /\ [][Next]_vars

----------------------------------------------------------------------------
(* Properties.                                                             *)

\* The state of the tables has its type, and no cache stays at its limit
\* (hlinkstate.cpp:98).
TypeOK ==
    /\ \A t \in Tables : cache[t] = NoPairs \/ Size(cache[t]) < MaxCacheSize
    /\ cache \in Maps /\ stored \in Maps /\ view \in Maps /\ book \in Maps
    /\ begun \subseteq Threads
    /\ failed \in BOOLEAN

\* The transaction differs from what is committed only by deletions: puts are
\* committed in the step that makes them (flushCache, hlinkstate.cpp:60-91). So
\* there are no puts for a new transaction to lose.
OnlyDeletesUncommitted ==
    \A t \in Tables, k \in Keys : view[t][k] \in {stored[t][k], NoValue}

\* A pair that was written is found (readPair, hlinkstate.cpp:20-55) with the
\* last value written, until it is deleted, through any flushes of either table,
\* deletions in the other one, and transactions begun; unless a commit failed.
WrittenFound ==
    ~failed => \A t \in Tables, k \in Keys :
                  book[t][k] # NoValue => Read(t, k) = book[t][k]

\* Once every thread number has its transaction, and no commit fails, a pair
\* that is deleted (deletePair, hlinkstate.cpp:105-126) stays away until it is
\* written again: no flush of either table brings it back.
StaysDeleted ==
    [][begun = Threads /\ ~failed' =>
          \A t \in Tables, k \in Keys :
             book'[t][k] = NoValue /\ (Read(t, k) = NoValue \/ book[t][k] # NoValue)
                => Read(t, k)' = NoValue]_vars

Pairs == [t \in Tables |-> Overlay(cache[t], view[t])]

\* The tables are the maps of PairStore, saved when a cache is flushed.
Store == INSTANCE PairStore
            WITH pairs <- Pairs, saved <- stored
ImplementsPairStore == Store!Spec
=============================================================================
