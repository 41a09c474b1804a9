--------------------------- MODULE MCTemporaryBurst ---------------------------
EXTENDS TemporaryBurst
MCBound == [p \in Person |-> IF p = 1 THEN "alice" ELSE "bob"]
MCShare == [p \in Person |-> 2]
MCUsage == {[p \in Person |-> IF p = 1 THEN 0 ELSE 3]}
Symmetry == Permutations(Url)
=============================================================================
