----------------------------- MODULE MCCommQueue ------------------------------
\* Four handles and three variables, all interchangeable.
EXTENDS CommQueue, TLC

CONSTANTS h1, h2, h3, h4, v1, v2, v3

Symmetry == Permutations(Handle) \cup Permutations(Var)
==============================================================================
