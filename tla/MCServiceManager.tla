-------------------------- MODULE MCServiceManager --------------------------
EXTENDS ServiceManager, TLC

\* Nothing tells applications, process ids or ports apart.
Symmetry == Permutations(Apps) \cup Permutations(Procs) \cup Permutations(Ports)
=============================================================================
