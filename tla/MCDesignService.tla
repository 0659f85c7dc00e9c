-------------------------- MODULE MCDesignService --------------------------
EXTENDS DesignService, TLC

CONSTANTS redwood, webmethods

TwoTools == <<redwood, webmethods>>

Symmetry == Permutations(Designs)
=============================================================================
