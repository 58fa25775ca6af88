-------------------------- MODULE MCSurfaceDelivery --------------------------
\* Small instances of SurfaceDelivery for TLC.
EXTENDS SurfaceDelivery, TLC

Symmetry == Permutations(Label)
==============================================================================
