--------------------------- MODULE MCBlockLayout ---------------------------
(***************************************************************************)
(* Instances of BlockLayout for TLC, with an alignment of four bytes.      *)
(***************************************************************************)
EXTENDS BlockLayout

\* Multiples of the alignment, and an odd minimum, an odd maximum and none.
MCBlockLimits == {<<4, 64>>, <<4, 4>>, <<8, 4>>, <<4, 8>>,
                  <<3, 64>>, <<1, 3>>, <<0, 64>>, <<0, 0>>}
============================================================================
