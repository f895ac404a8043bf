------------------------------ MODULE MCShell ------------------------------
EXTENDS Shell, TLC
FullScopes == {Admin, Read, Write}
TwoScopeSets == {FullScopes, {Admin}}
ThreeLimits == [second |-> 2, day |-> 3, month |-> 3]
ThreeSpans == [second |-> 1, day |-> 2, month |-> 4]
Symmetry == Permutations(KeyIds) \cup Permutations(Workers)
=============================================================================
