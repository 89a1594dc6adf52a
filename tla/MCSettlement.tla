---------------------------- MODULE MCSettlement ----------------------------
(* Instances of Settlement for TLC.                                        *)
EXTENDS Settlement, TLC

CONSTANTS p1, p2, gold, s1, s2, s3

Gold(p, d) == [player |-> p, asset |-> gold, delta |-> d]

\* A payment and a charge under ids of their own, and one id that stands for a
\* charge of the same player and for a payment to another.
Submissions ==
    {<<s1, Gold(p1, 2)>>, <<s2, Gold(p1, -1)>>, <<s3, Gold(p1, -2)>>, <<s3, Gold(p2, 1)>>}

Deltas == {-2, -1, 1, 2}

RequestSymmetry == Permutations(Request)
=============================================================================
