------------------------------ MODULE MCNetSync ------------------------------
EXTENDS NetSync, TLC
=============================================================================
