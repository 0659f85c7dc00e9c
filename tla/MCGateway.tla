----------------------------- MODULE MCGateway -----------------------------
EXTENDS Gateway, TLC

Symmetry == Permutations(Requests)
=============================================================================
