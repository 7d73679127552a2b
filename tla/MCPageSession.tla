--------------------------- MODULE MCPageSession ---------------------------
EXTENDS PageSession

MCSpec == PSpec /\ PFairness
=============================================================================
