-------------------------- MODULE MCDocumentReview --------------------------
(***************************************************************************)
(* Two or three overlapping requests, on one API process or on two.        *)
(***************************************************************************)
EXTENDS DocumentReview, TLC

CONSTANTS p1, p2, p3, s1, s2, r1, r2, r3, l1, l2

OneLoop  == [r \in Request |-> l1]
TwoLoops == [r \in Request |-> IF r = r2 THEN l2 ELSE l1]
Symmetry == Permutations(Patch) \cup Permutations(Session)
=============================================================================
