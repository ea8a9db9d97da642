----------------------------- MODULE MCPipeline -----------------------------
(***************************************************************************)
(* Instances of Pipeline for TLC: the root holds the files x and z and the *)
(* directory sub, which holds the file y.                                  *)
(***************************************************************************)
EXTENDS Pipeline, TLC

CONSTANTS root, sub, x, y, z

MCParent == [n \in Nodes \ {Root} |-> IF n = y THEN sub ELSE root]

\* The threads of a pool are alike.
Threads == Permutations(Schedulers) \cup Permutations(Finishers)
=============================================================================
