-------------------------- MODULE MCLatestResults --------------------------
EXTENDS LatestResults, TLC

Symmetric == Permutations(Runs)
=============================================================================
