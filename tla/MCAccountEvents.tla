---------------------------- MODULE MCAccountEvents ----------------------------
(***************************************************************************)
(* A user with two accounts, of which one changes twice, for TLC.          *)
(***************************************************************************)
EXTENDS AccountEvents, TLC

CONSTANTS a1, a2

MCMaxVersion == a1 :> 2 @@ a2 :> 0
=============================================================================
