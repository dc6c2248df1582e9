----------------------------- MODULE MCDisaggPD -----------------------------
\* Instances of DisaggPD for TLC.
EXTENDS DisaggPD

Chunks21 == <<2, 1>>
=============================================================================
