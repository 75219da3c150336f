------------------------------ MODULE MCFleet ------------------------------
EXTENDS Fleet, TLC

CONSTANTS s1, s2, s3, w1

MCTwo == {s1, s2}
MCThree == {s1, s2, s3}
MCWaiters == {w1}
MCSymmetry == Permutations(MCThree)
=============================================================================
