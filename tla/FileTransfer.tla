---------------------------- MODULE FileTransfer ----------------------------
(***************************************************************************)
(* What a transfer thread promises, without slots, buffers, requests or    *)
(* batches: it takes each queued file once, settles each of its blocks     *)
(* once (copied, left as a hole or given up with an error), and hands the  *)
(* file over when and only when all of its blocks are settled.  It stops   *)
(* only with no file in its hands.                                         *)
(***************************************************************************)
EXTENDS Integers

CONSTANTS Files, NBlocks

VARIABLES
    place,     \* [Files -> "crawl", "queued", "copying" or "finished"]
    settled,   \* [Files -> the blocks of the file that are settled]
    errors,    \* the finished files that were reported with errors
    stopped    \* whether the thread has stopped

vars == <<place, settled, errors, stopped>>

Blocks(x) == 0 .. NBlocks[x] - 1

Init ==
    /\ place = [x \in Files |-> "crawl"]
    /\ settled = [x \in Files |-> {}]
    /\ errors = {}
    /\ stopped = FALSE

Enqueue(x) ==
    /\ place[x] = "crawl"
    /\ place' = [place EXCEPT ![x] = "queued"]
    /\ UNCHANGED <<settled, errors, stopped>>

Take(x) ==
    /\ ~stopped
    /\ place[x] = "queued"
    /\ place' = [place EXCEPT ![x] = "copying"]
    /\ UNCHANGED <<settled, errors, stopped>>

\* Further blocks of the files being copied are settled.
Settle ==
    /\ ~stopped
    /\ settled' \in [Files -> SUBSET UNION {Blocks(x) : x \in Files}]
    /\ \A x \in Files :
          /\ settled[x] \subseteq settled'[x]
          /\ settled'[x] \subseteq Blocks(x)
          /\ settled'[x] # settled[x] => place[x] = "copying"
    /\ UNCHANGED <<place, errors, stopped>>

Finish(x) ==
    /\ ~stopped
    /\ place[x] = "copying"
    /\ settled[x] = Blocks(x)
    /\ place' = [place EXCEPT ![x] = "finished"]
    /\ errors' \in {errors, errors \cup {x}}
    /\ UNCHANGED <<settled, stopped>>

Stop ==
    /\ ~stopped
    /\ \A x \in Files : place[x] \notin {"crawl", "copying"}
    /\ stopped' = TRUE
    /\ UNCHANGED <<place, settled, errors>>

Next ==
    \/ \E x \in Files : Enqueue(x) \/ Take(x) \/ Finish(x)
    \/ Settle
    \/ Stop

Spec == Init /\ [][Next]_vars
============================================================================
