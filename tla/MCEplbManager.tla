--------------------------- MODULE MCEplbManager ---------------------------
\* Instances of EplbManager for TLC.
EXTENDS EplbManager, TLC

Symm == Permutations(Devices)
=============================================================================
