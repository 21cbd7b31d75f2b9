---------------------------- MODULE MCConnManager ----------------------------
(* ConnManager for TLC.  MaxPeers leaves room for every connection, so that  *)
(* it is only reached while a closed peer is still listed.                   *)
EXTENDS ConnManager
=============================================================================
