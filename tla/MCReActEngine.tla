--------------------------- MODULE MCReActEngine ---------------------------
EXTENDS ReActEngine, TLC

Symmetry == Permutations(Requests)
=============================================================================
