-------------------------- MODULE MCNonceReservation --------------------------
(***************************************************************************)
(* Two clients, up to four reservations and two drafts, for TLC.           *)
(***************************************************************************)
EXTENDS NonceReservation, TLC

CONSTANTS c1, c2, i1, i2

MCSymmetry == Permutations(Clients) \union Permutations(Items)
=============================================================================
