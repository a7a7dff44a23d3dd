--------------------------- MODULE MCZkVerification ---------------------------
(***************************************************************************)
(* Three calls at once, two with the key, one of them with a right proof,  *)
(* for TLC.                                                                *)
(***************************************************************************)
EXTENDS ZkVerification

CONSTANTS v1, v2, v3
=============================================================================
