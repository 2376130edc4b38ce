----------------------------- MODULE MCHostBridge ----------------------------
\* HostBridge for TLC: stubs, threads and calls are interchangeable, and no
\* temporal property is checked with them.
EXTENDS HostBridge, TLC

Symmetry == Permutations(Stub) \union Permutations(Thread) \union Permutations(Call)
=============================================================================
