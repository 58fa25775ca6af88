------------------------ MODULE MCMemberSurfaceCache ------------------------
EXTENDS MemberSurfaceCache, TLC

mcSymmetry == Permutations(Threads) \cup Permutations(Labels)
=============================================================================
