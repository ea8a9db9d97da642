---------------------------- MODULE MCHLinkState ----------------------------
(***************************************************************************)
(* Instances of HLinkState for TLC.  The inode numbers of the two sides    *)
(* overlap, as those of two file systems do.                               *)
(***************************************************************************)
EXTENDS HLinkState, TLC

CONSTANTS a, b, c, d

Tree(i, k) == [ino |-> [n \in Names |-> i[n]], links |-> [n \in Names |-> k[n]]]
By(x, y, z) == a :> x @@ b :> y @@ c :> z

MCNewInode == By(2, 4, 5)
MCExtra == 1 :> 0 @@ 3 :> 1

\* All three names linked; two linked, and a third whose source has the number of the
\* file that is made for b on the destination; all three linked, but by links made in
\* part after the crawler looked.
MCSources == {Tree(By(7, 7, 7), By(3, 3, 3)), Tree(By(7, 7, 4), By(2, 2, 1)),
              Tree(By(1, 1, 1), By(1, 2, 2))}
MCTriple == {Tree(By(1, 1, 1), By(3, 3, 3))}

\* Two names linked, and a third with a number of its own; and one with b's, which
\* has two more links elsewhere, so that its own transfer finds its entry freed.
MCStranger == {Tree(By(7, 7, 8), By(2, 2, 1))}
MCForeign == {Tree(By(7, 7, 4), By(2, 2, 3))}

\* Four names of one file, the last of them linked when the crawler was at work: the
\* group is met more often than its root was told, and its entry freed meanwhile.
MCFour == {[ino |-> [n \in Names |-> 7], links |-> a :> 2 @@ b :> 3 @@ c :> 4 @@ d :> 4]}
MCNewInodeFour == MCNewInode @@ d :> 6
MCExtraFour == 1 :> 0
NoFailure == ~failed'
MCSingles == {Tree(By(7, 8, 9), By(1, 1, 1))}
=============================================================================
