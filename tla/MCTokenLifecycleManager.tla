---------------------- MODULE MCTokenLifecycleManager ----------------------
EXTENDS TokenLifecycleManager, TLC

\* Clients are interchangeable: only equality is ever asked of them.
IdSymmetry == Permutations(Clients)
=============================================================================
