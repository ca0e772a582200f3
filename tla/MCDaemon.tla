------------------------------ MODULE MCDaemon ------------------------------
EXTENDS Daemon, TLC

Symmetry == Permutations(Cmds)
=============================================================================
