--------------------------- MODULE MCX402Deposit ---------------------------
(***************************************************************************)
(* One address with an account on Base and one on Horizen, and two buyers  *)
(* whose authorizations are used by two requests each, for TLC.            *)
(***************************************************************************)
EXTENDS X402Deposit

CONSTANTS r1, r2, b1, b2, n1, n2, wallet, base, horizen

Signed(from, nonce, value, signer) ==
    [from |-> from, nonce |-> nonce, to |-> wallet, chain |-> base, value |-> value,
     signer |-> signer]

MCAccounts == {[address |-> wallet, chain |-> base], [address |-> wallet, chain |-> horizen]}
MCAuthorizations ==
    {Signed(b1, n1, 1, b1), Signed(b2, n2, 2, b2)}
=============================================================================
