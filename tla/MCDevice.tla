------------------------------ MODULE MCDevice ------------------------------
EXTENDS Device, TLC

CONSTANTS a1, r1, r2, p1, p2, x, y

MCActors == {a1}
MCReaders == {r1, r2}
MCPackages == {p1, p2}
MCSymmetry == Permutations(MCReaders) \cup Permutations(MCPackages)
MCValues == {x, y}
MCCriteria == {{x}, {x, y}}
MCIndices == {0, 1, Absent}
=============================================================================
