--------------------------- MODULE MCDescriptors ---------------------------
(***************************************************************************)
(* An instance of Descriptors for TLC: the root directory r, with two      *)
(* subdirectories d and e and a directory x that only the destination has; *)
(* files f in d, g and k in e, h in r, each a file of its own, or k a link *)
(* to f.                                                                   *)
(***************************************************************************)
EXTENDS Descriptors

CONSTANTS r, d, e, f, g, h, k, x

MCParent == [n \in (Dirs \cup Files) \ {Top} |->
                CASE n = f -> d [] n \in {g, k} -> e [] OTHER -> r]
MCApart == [n \in Files |-> n]
MCLinked == [n \in Files |-> IF n = k THEN f ELSE n]
MCExtraIn == [n \in Extras |-> r]
============================================================================
