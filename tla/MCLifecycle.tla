---------------------------- MODULE MCLifecycle ----------------------------
EXTENDS Lifecycle, TLC

CONSTANTS A, B, C, D

\* The identifiers sort as A, B, C, D.
ABC == [r \in Replica |-> CASE r = A -> 1 [] r = B -> 2 [] r = C -> 3 [] r = D -> 4]

\* Note identifiers are random.
NoteSymmetry == Permutations(Note)
=============================================================================
