---------------------------- MODULE MCRoiQueue ----------------------------
EXTENDS RoiQueue, TLC

Symmetry == Permutations(Users)
=============================================================================
