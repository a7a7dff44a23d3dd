----------------------------- MODULE SignerArray -----------------------------
(***************************************************************************)
(* The array behind MetaMultiSigWallet.commitments.                        *)
(*                                                                         *)
(* addSigners pushes and removeSigners swaps with the last element and     *)
(* pops, one commitment of the list at a time, on the storage itself; a    *)
(* `require` that fails in the middle of the loop undoes what the          *)
(* iterations before it did.  A step here is an iteration.  The properties *)
(* compare the loops with the set operations, and with the guards on       *)
(* cardinalities, by which MetaMultiSigWallet abstracts them.              *)
(***************************************************************************)
EXTENDS Integers, FiniteSets, Sequences, SequencesExt

CONSTANTS Commitments, ZeroCommitment, Calls, NoCall, InitialArray, InitialRequired

SignerCall == [kind : {"addSigners", "removeSigners"}, items : {<<>>},
               list : Seq(Commitments), required : Nat]

ASSUME CallsAssumption == Calls \subseteq SignerCall /\ NoCall \notin Calls
\* The constructor accepts an array with repetitions; the backend's accounts,
\* whose signers are distinct rows, never ask for one.
ASSUME InitialArrayAssumption ==
    /\ InitialArray \in Seq(Commitments \ {ZeroCommitment})
    /\ IsInjective(InitialArray)
    /\ InitialRequired \in 1..Len(InitialArray)

VARIABLES
    array,              \* the storage that the last transaction left behind
    signaturesRequired,
    call,               \* the running call, or NoCall
    working,            \* the storage as the running call has changed it
    i                   \* its iteration: 0 at the `require`s on the lengths

vars == <<array, signaturesRequired, call, working, i>>

Abstract == INSTANCE MetaMultiSigWallet WITH
    commitments <- Range(array),
    InitialCommitments <- Range(InitialArray),
    Nonces <- {}, Tokens <- {}, InitialBalances <- <<>>, Statements <- {},
    ProofLists <- {}, DepositAmounts <- {}, MaxBalance <- 0,
    usedNonces <- {}, usedNullifiers <- {}, balances <- <<>>, attested <- {},
    executions <- {}

-----------------------------------------------------------------------------
(* The `require`s.                                                         *)

LengthsAllow(commitments) ==
    /\ Len(call.list) > 0
    /\ call.required > 0
    /\ \/ call.kind = "addSigners" /\ call.required <= Len(commitments) + Len(call.list)
       \/ /\ call.kind = "removeSigners"
          /\ Len(commitments) > Len(call.list)
          /\ call.required <= Len(commitments) - Len(call.list)

Looping(kind) == call # NoCall /\ call.kind = kind /\ i \in DOMAIN call.list

\* The first loop of addSigners, over the array that has grown by the
\* commitments before this one; _isCurrentSigner is the same loop.
IsCurrentSigner(c) == \E j \in DOMAIN working : working[j] = c

\* Mutant: a new commitment is compared with those of its list only.
CanAddAgain ==
    /\ call.list[i] # ZeroCommitment
    /\ \A k \in 1..(i - 1) : call.list[k] # call.list[i]

CanAdd ==
    /\ call.list[i] # ZeroCommitment
    /\ ~IsCurrentSigner(call.list[i])
    /\ \A k \in 1..(i - 1) : call.list[k] # call.list[i]

\* The position at which the inner loop of removeSigners breaks.
FoundAt(j) ==
    /\ working[j] = call.list[i]
    /\ \A k \in 1..(j - 1) : working[k] # call.list[i]

RequireFails ==
    \/ call # NoCall /\ i = 0 /\ ~LengthsAllow(working)
    \/ Looping("addSigners") /\ ~CanAdd
    \/ Looping("removeSigners") /\ ~\E j \in DOMAIN working : FoundAt(j)

-----------------------------------------------------------------------------
(* The steps of a call.                                                    *)

\* The wallet calls itself (onlySelf), from execute.
Begin(c) ==
    /\ call = NoCall
    /\ call' = c
    /\ working' = array
    /\ i' = 0
    /\ UNCHANGED <<array, signaturesRequired>>

EnterLoop ==
    /\ call # NoCall
    /\ i = 0
    /\ LengthsAllow(working)
    /\ i' = 1
    /\ UNCHANGED <<array, signaturesRequired, call, working>>

AddOne ==
    /\ Looping("addSigners")
    /\ CanAdd
    /\ working' = Append(working, call.list[i])
    /\ i' = i + 1
    /\ UNCHANGED <<array, signaturesRequired, call>>

\* Mutant: the last commitment is popped without being moved.
PopOnly(commitments, j) == Front(commitments)

\* commitments[j] = commitments[length - 1]; commitments.pop().
SwapPop(commitments, j) == Front([commitments EXCEPT ![j] = Last(commitments)])

\* Mutant: a commitment that is not found is skipped.
RemoveOneIfFound ==
    /\ Looping("removeSigners")
    /\ \/ \E j \in DOMAIN working : FoundAt(j) /\ working' = SwapPop(working, j)
       \/ ~IsCurrentSigner(call.list[i]) /\ working' = working
    /\ i' = i + 1
    /\ UNCHANGED <<array, signaturesRequired, call>>

RemoveOne ==
    /\ Looping("removeSigners")
    /\ \E j \in DOMAIN working : FoundAt(j) /\ working' = SwapPop(working, j)
    /\ i' = i + 1
    /\ UNCHANGED <<array, signaturesRequired, call>>

Finished == call # NoCall /\ i > Len(call.list)

Ended == call' = NoCall /\ working' = <<>> /\ i' = 0

\* signaturesRequired = newSigRequired; what the loop did becomes the storage.
Return ==
    /\ Finished
    /\ array' = working
    /\ signaturesRequired' = call.required
    /\ Ended

\* The storage is what it was before the call.
Revert ==
    /\ RequireFails
    /\ Ended
    /\ UNCHANGED <<array, signaturesRequired>>

Init ==
    /\ array = InitialArray
    /\ signaturesRequired = InitialRequired
    /\ call = NoCall
    /\ working = <<>>
    /\ i = 0

Next ==
    \/ \E c \in Calls : Begin(c)
    \/ EnterLoop \/ AddOne \/ RemoveOne \/ Return \/ Revert

Spec == Init /\ [][Next]_vars

-----------------------------------------------------------------------------
(* Properties.                                                             *)

\* No sequence of calls puts a commitment into the array twice, or the zero
\* commitment, or asks for more signatures than the array has signers: a signer
\* who is there twice survives removeSigners, and counts twice for the threshold.
TypeOK ==
    /\ array \in Seq(Commitments \ {ZeroCommitment})
    /\ IsInjective(array)
    /\ signaturesRequired \in 1..Len(array)
    /\ call \in Calls \union {NoCall}
    /\ working \in Seq(Commitments \ {ZeroCommitment})
    /\ i \in Nat

\* A call reverts, at whatever iteration, only if the conditions on sets that
\* stand for its `require`s in MetaMultiSigWallet are false, and gets through
\* its loop only if they are true; lists with repetitions included.
LoopsRevertAsSets ==
    /\ RequireFails => ~Abstract!CanInnerCall(call)
    /\ Finished => Abstract!CanInnerCall(call)

\* Swapping and popping removes the listed signers, and pushing adds them, and
\* nobody else comes or goes; until a call returns its changes are not there.
LoopsComputeSets ==
    [][IF Return THEN Abstract!InnerCall(call)
       ELSE UNCHANGED <<array, signaturesRequired>>]_vars

=============================================================================
