-------------------- MODULE MCSourceConfigurationRequests --------------------
\* A small instance of SourceConfigurationRequests for TLC.
EXTENDS SourceConfigurationRequests, TLC

Symmetry == Permutations(Replayable) \cup Permutations(Refresh)
==============================================================================
