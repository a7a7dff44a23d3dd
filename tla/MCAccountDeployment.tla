------------------------ MODULE MCAccountDeployment ------------------------
(***************************************************************************)
(* A batch on two chains, an account on one, and orders that are refused   *)
(* at every stage, for TLC.                                                *)
(***************************************************************************)
EXTENDS AccountDeployment

CONSTANTS s1, s2, alice, bob, zero, base, horizen

Ask(signers, threshold, chains) ==
    [signers |-> signers, threshold |-> threshold, chains |-> chains, creator |-> alice]

MCOrders ==
    s1 :> {Ask(<<bob, alice>>, 2, <<base, horizen>>), Ask(<<alice, alice>>, 2, <<base>>),
           Ask(<<alice, zero>>, 1, <<base>>), Ask(<<alice, bob>>, 3, <<base>>)} @@
    s2 :> {Ask(<<alice, bob>>, 1, <<horizen>>)}
=============================================================================
