------------------------------- MODULE MCRaft -------------------------------
EXTENDS Raft, TLC

Symmetry == Permutations(Nodes)
=============================================================================
