--------------------------- MODULE MCDestination ---------------------------
(***************************************************************************)
(* Instances of Destination for TLC: in the place of the name x there may  *)
(* be a directory with the file k1 and the directory k2, which holds k3.   *)
(***************************************************************************)
EXTENDS Destination

CONSTANTS x, k1, k2, k3

MCKidParent == [k \in Kids |-> IF k = k3 THEN k2 ELSE x]
============================================================================
