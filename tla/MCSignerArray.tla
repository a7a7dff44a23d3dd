---------------------------- MODULE MCSignerArray ----------------------------
(***************************************************************************)
(* Arrays of up to four commitments, and every list of up to three that    *)
(* addSigners or removeSigners can be called with, for TLC.                *)
(***************************************************************************)
EXTENDS SignerArray

CONSTANTS c0, c1, c2, c3, c4

MCCommitments == {c0, c1, c2, c3, c4}
MCLists == UNION {[1..n -> MCCommitments] : n \in 0..3}
MCCalls ==
    {[kind |-> kind, items |-> <<>>, list |-> list, required |-> required] :
        kind \in {"addSigners", "removeSigners"}, list \in MCLists, required \in 0..3}
MCInitialArray == <<c1, c2>>
=============================================================================
