----------------------------- MODULE PairStore -----------------------------
(***************************************************************************)
(* What the tables of the hard-link state promise, without a cache and     *)
(* without a transaction: maps that are saved now and then.  A pair that   *)
(* was put is there until it is dropped.  A pair that was dropped, and was *)
(* saved before, may return as it was saved.  Saving one map saves what    *)
(* was dropped from the others too.  A save that fails costs one map all   *)
(* that was put since the last one.                                        *)
(***************************************************************************)
CONSTANTS Tables, Keys, Values, NoValue

VARIABLES pairs,    \* table -> key -> value, or NoValue
          saved     \* the same, of what has been saved
vars == <<pairs, saved>>

Empty == [t \in Tables |-> [k \in Keys |-> NoValue]]

Init == pairs = Empty /\ saved = Empty

SetPair(f, t, k, v) == [f EXCEPT ![t] = [f[t] EXCEPT ![k] = v]]

\* All of map t, and of every other map no more than before and no dropped pair.
Save(t) ==
    /\ saved' \in [Tables -> [Keys -> Values \cup {NoValue}]]
    /\ saved'[t] = pairs'[t]
    /\ \A u \in Tables \ {t}, k \in Keys :
          \/ saved'[u][k] = NoValue
          \/ saved'[u][k] = saved[u][k] /\ pairs'[u][k] # NoValue

Put(t, k, v) ==
    /\ pairs' = SetPair(pairs, t, k, v)
    /\ UNCHANGED saved \/ Save(t)

Drop(t, k) ==
    /\ pairs' = SetPair(pairs, t, k, NoValue)
    /\ UNCHANGED saved

Returned ==
    [t \in Tables |-> [k \in Keys |->
        IF pairs[t][k] = NoValue THEN saved[t][k] ELSE pairs[t][k]]]

Return == pairs' = Returned /\ UNCHANGED saved

PutLost(t) ==
    /\ pairs' = [Returned EXCEPT ![t] = saved[t]]
    /\ UNCHANGED saved

Next ==
    \/ \E t \in Tables :
          \/ PutLost(t)
          \/ \E k \in Keys : Drop(t, k) \/ \E v \in Values : Put(t, k, v)
    \/ Return

Spec == Init /\ [][Next]_vars
============================================================================
