---------------------------- MODULE MCLinkTables ----------------------------
(***************************************************************************)
(* Instances of LinkTables for TLC.                                        *)
(***************************************************************************)
EXTENDS LinkTables

CONSTANTS fwd, rev, i1, i2, a, b, t1, t2
=============================================================================
