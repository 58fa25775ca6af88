-------------------------- MODULE MCStateGeneration --------------------------
\* Small instances of StateGeneration for TLC.
EXTENDS StateGeneration

Symmetry == Permutations(Label)
==============================================================================
