---------------------------- MODULE MCWorkManager ----------------------------
(***************************************************************************)
(* Instances of WorkManager for TLC.                                       *)
(***************************************************************************)
EXTENDS WorkManager

CONSTANTS p1, p2
==============================================================================
