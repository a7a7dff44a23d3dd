-------------------------- MODULE SignerArrayProofs --------------------------
(***************************************************************************)
(* Proofs about the loops of addSigners and removeSigners, for arrays and  *)
(* lists of every length.                                                  *)
(*                                                                         *)
(* The invariant says what the array is in the middle of a loop: what the  *)
(* set operation makes of the array with the part of the list that is      *)
(* done.  A `require` inside the loop then refuses exactly what the guard  *)
(* on the whole list refuses, and the end of the loop is the end of the    *)
(* list.                                                                   *)
(***************************************************************************)
EXTENDS SignerArray, FiniteSetTheorems, FunctionTheorems, TLAPS

-----------------------------------------------------------------------------
(* What holds between the iterations: the array is what the set operation  *)
(* makes of it with the part of the list that is done.                     *)

Done == {call.list[k] : k \in 1..(i - 1)}

DoneDiffer ==
    \A k, l \in 1..(i - 1) : call.list[k] = call.list[l] => k = l

Added ==
    /\ Range(working) = Range(array) \union Done
    /\ Range(array) \intersect Done = {}
    /\ ZeroCommitment \notin Done

Removed ==
    /\ Range(working) = Range(array) \ Done
    /\ Done \subseteq Range(array)
    /\ Len(working) = Len(array) - (i - 1)

LoopInv ==
    /\ call = NoCall => working = <<>> /\ i = 0
    /\ call # NoCall =>
           /\ i <= Len(call.list) + 1
           /\ IsInjective(working)
           /\ i = 0 => working = array
           /\ i > 0 =>
                  /\ DoneDiffer
                  /\ LengthsAllow(array)
                  /\ call.kind = "addSigners" => Added
                  /\ call.kind = "removeSigners" => Removed

Inv == TypeOK /\ LoopInv

-----------------------------------------------------------------------------
(* Lists.                                                                  *)

\* A list without repetitions has as many elements as its length says.
LEMMA InjectiveLength ==
  ASSUME NEW S, NEW s \in Seq(S), IsInjective(s)
  PROVE  Cardinality(Range(s)) = Len(s)
  <1>1. Len(s) \in Nat /\ s \in [1..Len(s) -> S] /\ DOMAIN s = 1..Len(s)
    OBVIOUS
  <1>2. s \in Injection(1..Len(s), S)
    BY <1>1, Fun_IsInj DEF IsInjective
  <1>3. ExistsBijection(1..Len(s), Range(s))
    BY <1>2, Fun_InjMeansBijImage, Fun_ExistsBij
  <1>4. IsFiniteSet(1..Len(s)) /\ Cardinality(1..Len(s)) = Len(s)
    BY <1>1, FS_Interval
  <1> QED
    BY <1>3, <1>4, FS_Bijection

\* A list names finitely many commitments.
LEMMA ListIsFinite ==
  ASSUME NEW S, NEW s \in Seq(S)
  PROVE  IsFiniteSet(Range(s))
  <1>1. Len(s) \in Nat /\ s \in [1..Len(s) -> S]
    OBVIOUS
  <1>2. s \in Surjection(1..Len(s), Range(s))
    BY <1>1, Fun_RangeProperties
  <1> QED
    BY <1>1, <1>2, FS_Interval, FS_Surjection

\* A push adds one commitment, and repeats none that was not there.
LEMMA PushAdds ==
  ASSUME NEW S, NEW s \in Seq(S), NEW c \in S
  PROVE  /\ Append(s, c) \in Seq(S)
         /\ Range(Append(s, c)) = Range(s) \union {c}
         /\ IsInjective(s) /\ c \notin Range(s) => IsInjective(Append(s, c))
  <1> DEFINE t == Append(s, c)
  <1>1. /\ t \in Seq(S) /\ Len(t) = Len(s) + 1 /\ Len(s) \in Nat
        /\ \A k \in 1..Len(s) : t[k] = s[k]
        /\ t[Len(s) + 1] = c
        /\ DOMAIN s = 1..Len(s) /\ DOMAIN t = 1..(Len(s) + 1)
    OBVIOUS
  <1> HIDE DEF t
  <1>2. Range(t) \subseteq Range(s) \union {c}
    BY <1>1 DEF Range
  <1>3. Range(s) \union {c} \subseteq Range(t)
    <2>1. c \in Range(t)
      BY <1>1 DEF Range
    <2>2. ASSUME NEW k \in 1..Len(s) PROVE s[k] \in Range(t)
      BY <1>1 DEF Range
    <2> QED
      BY <1>1, <2>1, <2>2 DEF Range
  <1>4. ASSUME IsInjective(s), c \notin Range(s) PROVE IsInjective(t)
    <2> SUFFICES ASSUME NEW a \in 1..(Len(s) + 1), NEW b \in 1..(Len(s) + 1), t[a] = t[b]
                 PROVE  a = b
      BY <1>1 DEF IsInjective
    <2>1. \A k \in 1..Len(s) : s[k] # c
      BY <1>1, <1>4 DEF Range
    <2>2. CASE a \in 1..Len(s) /\ b \in 1..Len(s)
      BY <1>1, <1>4, <2>2 DEF IsInjective
    <2>3. CASE a = Len(s) + 1 /\ b = Len(s) + 1
      BY <2>3
    <2>4. CASE a \in 1..Len(s) /\ b = Len(s) + 1
      BY <1>1, <2>1, <2>4
    <2>5. CASE a = Len(s) + 1 /\ b \in 1..Len(s)
      BY <1>1, <2>1, <2>5
    <2> QED
      BY <1>1, <2>2, <2>3, <2>4, <2>5
  <1>5. t \in Seq(S)
    BY <1>1
  <1> QED
    BY <1>2, <1>3, <1>4, <1>5 DEF t

\* Moving the last commitment to the position of another one and popping takes
\* out that one, and no other.
LEMMA SwapPopRemoves ==
  ASSUME NEW S, NEW s \in Seq(S), IsInjective(s), NEW j \in DOMAIN s
  PROVE  /\ SwapPop(s, j) \in Seq(S)
         /\ Len(SwapPop(s, j)) = Len(s) - 1
         /\ IsInjective(SwapPop(s, j))
         /\ Range(SwapPop(s, j)) = Range(s) \ {s[j]}
  <1> DEFINE n == Len(s)
             t == SwapPop(s, j)
             u == [s EXCEPT ![j] = s[n]]
  <1>1. n \in Nat /\ n >= 1 /\ j \in 1..n /\ DOMAIN s = 1..n
    OBVIOUS
  <1>2. u \in Seq(S) /\ Len(u) = n /\ \A k \in 1..n : u[k] = IF k = j THEN s[n] ELSE s[k]
    BY <1>1
  <1>3. t = SubSeq(u, 1, Len(u) - 1)
    BY DEF SwapPop, Front, Last
  <1> HIDE DEF u, n
  <1>4. SubSeq(u, 1, n - 1) \in Seq(S) /\ Len(SubSeq(u, 1, n - 1)) = n - 1
    BY <1>1, <1>2
  <1>4a. \A k \in 1..(n - 1) : SubSeq(u, 1, n - 1)[k] = u[k]
    BY <1>1, <1>2
  <1> HIDE DEF t
  <1>5. t \in Seq(S) /\ Len(t) = n - 1 /\ DOMAIN t = 1..(n - 1)
    BY <1>2, <1>3, <1>4
  <1>6. \A k \in 1..(n - 1) : t[k] = IF k = j THEN s[n] ELSE s[k]
    BY <1>1, <1>2, <1>3, <1>4a
  <1>7. \A a, b \in 1..n : s[a] = s[b] => a = b
    BY <1>1 DEF IsInjective
  <1>8. IsInjective(t)
    <2> SUFFICES ASSUME NEW a \in 1..(n - 1), NEW b \in 1..(n - 1), t[a] = t[b]
                 PROVE  a = b
      BY <1>5 DEF IsInjective
    <2> QED
      BY <1>1, <1>6, <1>7
  <1>9. Range(t) \subseteq Range(s) \ {s[j]}
    <2> SUFFICES ASSUME NEW k \in 1..(n - 1)
                 PROVE  t[k] \in Range(s) /\ t[k] # s[j]
      BY <1>5 DEF Range
    <2>1. \E m \in 1..n : t[k] = s[m] /\ m # j
      <3>1. CASE k = j
        BY <1>1, <1>6, <3>1
      <3>2. CASE k # j
        BY <1>1, <1>6, <3>2
      <3> QED
        BY <3>1, <3>2
    <2> QED
      BY <1>1, <1>7, <2>1 DEF Range
  <1>10. Range(s) \ {s[j]} \subseteq Range(t)
    <2> SUFFICES ASSUME NEW m \in 1..n, m # j
                 PROVE  s[m] \in Range(t)
      BY <1>1 DEF Range
    <2>1. \E k \in 1..(n - 1) : t[k] = s[m]
      <3>1. CASE m = n
        <4>1. j \in 1..(n - 1) /\ t[j] = s[m]
          BY <1>1, <1>6, <3>1
        <4> QED
          BY <4>1
      <3>2. CASE m # n
        <4>1. m \in 1..(n - 1) /\ t[m] = s[m]
          BY <1>1, <1>6, <3>2
        <4> QED
          BY <4>1
      <3> QED
        BY <3>1, <3>2
    <2> QED
      BY <1>5, <2>1 DEF Range
  <1> QED
    BY <1>5, <1>8, <1>9, <1>10 DEF n, t

-----------------------------------------------------------------------------
(* The invariant.                                                          *)

\* The fields of a running call have the types that the loops read them at.
LEMMA CallFields ==
  ASSUME NEW c \in Calls
  PROVE  /\ c.kind \in {"addSigners", "removeSigners"}
         /\ c.list \in Seq(Commitments)
         /\ c.required \in Nat
         /\ Len(c.list) \in Nat
         /\ DOMAIN c.list = 1..Len(c.list)
         /\ c # NoCall
  <1>1. c \in SignerCall
    BY CallsAssumption
  <1>2. c.list \in Seq(Commitments)
    BY <1>1 DEF SignerCall
  <1> QED
    BY <1>1, <1>2, CallsAssumption DEF SignerCall

\* An iteration adds its commitment to what is done.
LEMMA DoneGrows ==
  ASSUME NEW k \in Nat, k >= 1, NEW list
  PROVE  {list[m] : m \in 1..((k + 1) - 1)} = {list[m] : m \in 1..(k - 1)} \union {list[k]}
  <1>1. 1..((k + 1) - 1) = (1..(k - 1)) \union {k}
    OBVIOUS
  <1> QED
    BY <1>1

\* A deployed wallet satisfies the invariant.
LEMMA InitInv == Init => Inv
  BY InitialArrayAssumption DEF Init, Inv, TypeOK, LoopInv

\* addSigners extends the array by the commitment at hand, which is new.
LEMMA AddOneInv ==
  ASSUME Inv, AddOne
  PROVE  Inv'
  <1> DEFINE c == call.list[i]
  <1>1. /\ call \in Calls /\ call.kind = "addSigners"
        /\ call.list \in Seq(Commitments) /\ Len(call.list) \in Nat
        /\ DOMAIN call.list = 1..Len(call.list)
        /\ call # NoCall
    BY CallFields DEF Inv, TypeOK, AddOne, Looping
  <1>2. i \in 1..Len(call.list)
    BY <1>1 DEF AddOne, Looping
  <1>3. c \in Commitments \ {ZeroCommitment}
    BY <1>1, <1>2 DEF AddOne, CanAdd
  <1>4. c \notin Range(working)
    BY DEF AddOne, CanAdd, IsCurrentSigner, Range
  <1>5. \A k \in 1..(i - 1) : call.list[k] # c
    BY DEF AddOne, CanAdd
  <1>6. /\ IsInjective(working) /\ DoneDiffer /\ LengthsAllow(array) /\ Added
    BY <1>1, <1>2 DEF Inv, LoopInv
  <1>7. /\ working' = Append(working, c) /\ i' = i + 1
        /\ array' = array /\ call' = call /\ signaturesRequired' = signaturesRequired
    BY DEF AddOne
  <1>8. /\ working' \in Seq(Commitments \ {ZeroCommitment})
        /\ Range(working') = Range(working) \union {c}
        /\ IsInjective(working')
    <2>1. working \in Seq(Commitments \ {ZeroCommitment})
      BY DEF Inv, TypeOK
    <2> QED
      BY <1>3, <1>4, <1>6, <1>7, <2>1, PushAdds
  <1>9. Done' = Done \union {c}
    BY <1>2, <1>7, DoneGrows DEF Done
  <1>10. TypeOK'
    BY <1>2, <1>7, <1>8 DEF Inv, TypeOK
  <1>11. Added'
    BY <1>3, <1>4, <1>6, <1>7, <1>8, <1>9 DEF Added
  <1>12. DoneDiffer'
    <2> SUFFICES ASSUME NEW k \in 1..i, NEW l \in 1..i, call.list[k] = call.list[l]
                 PROVE  k = l
      BY <1>2, <1>7 DEF DoneDiffer
    <2>1. CASE k \in 1..(i - 1) /\ l \in 1..(i - 1)
      BY <1>6, <2>1 DEF DoneDiffer
    <2>2. CASE k = i \/ l = i
      BY <1>2, <1>5, <2>2
    <2> QED
      BY <1>2, <2>1, <2>2
  <1>13. LengthsAllow(array)'
    BY <1>6, <1>7 DEF LengthsAllow
  <1>14. LoopInv'
    BY <1>1, <1>2, <1>7, <1>8, <1>11, <1>12, <1>13 DEF LoopInv
  <1> QED
    BY <1>10, <1>14 DEF Inv

\* removeSigners takes the commitment at hand out of the array, where it is
\* once.
LEMMA RemoveOneInv ==
  ASSUME Inv, RemoveOne
  PROVE  Inv'
  <1> DEFINE c == call.list[i]
  <1>1. /\ call \in Calls /\ call.kind = "removeSigners"
        /\ call.list \in Seq(Commitments) /\ Len(call.list) \in Nat
        /\ DOMAIN call.list = 1..Len(call.list)
        /\ call # NoCall
    BY CallFields DEF Inv, TypeOK, RemoveOne, Looping
  <1>2. i \in 1..Len(call.list)
    BY <1>1 DEF RemoveOne, Looping
  <1>3. PICK j \in DOMAIN working : working[j] = c /\ working' = SwapPop(working, j)
    BY DEF RemoveOne, FoundAt
  <1>4. /\ IsInjective(working) /\ DoneDiffer /\ LengthsAllow(array) /\ Removed
    BY <1>1, <1>2 DEF Inv, LoopInv
  <1>5. /\ i' = i + 1
        /\ array' = array /\ call' = call /\ signaturesRequired' = signaturesRequired
    BY DEF RemoveOne
  <1>6. c \in Range(working)
    BY <1>3 DEF Range
  <1>7. /\ working' \in Seq(Commitments \ {ZeroCommitment})
        /\ Len(working') = Len(working) - 1
        /\ Range(working') = Range(working) \ {c}
        /\ IsInjective(working')
    <2>1. working \in Seq(Commitments \ {ZeroCommitment})
      BY DEF Inv, TypeOK
    <2> QED
      BY <1>3, <1>4, <2>1, SwapPopRemoves
  <1>8. Done' = Done \union {c}
    BY <1>2, <1>5, DoneGrows DEF Done
  <1>9. TypeOK'
    BY <1>2, <1>5, <1>7 DEF Inv, TypeOK
  <1>10. Removed'
    <2>1. Len(working') = Len(array) - ((i + 1) - 1)
      <3>1. Len(array) \in Nat /\ i \in Nat
        BY DEF Inv, TypeOK
      <3> QED
        BY <1>4, <1>7, <3>1 DEF Removed
    <2> QED
      BY <1>4, <1>5, <1>6, <1>7, <1>8, <2>1 DEF Removed
  <1>11. DoneDiffer'
    <2>1. \A k \in 1..(i - 1) : call.list[k] # c
      BY <1>4, <1>6 DEF Removed, Done
    <2> SUFFICES ASSUME NEW k \in 1..i, NEW l \in 1..i, call.list[k] = call.list[l]
                 PROVE  k = l
      BY <1>2, <1>5 DEF DoneDiffer
    <2>2. CASE k \in 1..(i - 1) /\ l \in 1..(i - 1)
      BY <1>4, <2>2 DEF DoneDiffer
    <2>3. CASE k = i \/ l = i
      BY <1>2, <2>1, <2>3
    <2> QED
      BY <1>2, <2>2, <2>3
  <1>12. LengthsAllow(array)'
    BY <1>4, <1>5 DEF LengthsAllow
  <1>13. LoopInv'
    BY <1>1, <1>2, <1>5, <1>7, <1>10, <1>11, <1>12 DEF LoopInv
  <1> QED
    BY <1>9, <1>13 DEF Inv

-----------------------------------------------------------------------------
(* The `require`s of the loops against the guards on sets.                 *)

\* What the guards on sets say, with the cardinality of the set of signers read
\* as the length of the array.
LEMMA SetGuards ==
  ASSUME TypeOK, call # NoCall
  PROVE  Abstract!CanInnerCall(call) <=>
             /\ LengthsAllow(array)
             /\ IsInjective(call.list)
             /\ call.kind = "addSigners" =>
                    /\ ZeroCommitment \notin Range(call.list)
                    /\ Range(call.list) \intersect Range(array) = {}
             /\ call.kind = "removeSigners" => Range(call.list) \subseteq Range(array)
  <1>1. /\ call.kind \in {"addSigners", "removeSigners"}
        /\ call.list \in Seq(Commitments)
        /\ Len(call.list) \in Nat
    BY CallFields DEF TypeOK
  <1>2. Cardinality(Range(array)) = Len(array)
    BY InjectiveLength DEF TypeOK
  <1>3. call.list # <<>> <=> Len(call.list) > 0
    BY <1>1
  <1>4. /\ \A f : Abstract!Range(f) = Range(f)
        /\ \A f : Abstract!IsInjective(f) <=> IsInjective(f)
        /\ Abstract!Cardinality(Range(array)) = Cardinality(Range(array))
    BY DEF Range, Abstract!Range, IsInjective, Abstract!IsInjective,
           Cardinality, Abstract!Cardinality
  <1>5. CASE call.kind = "addSigners"
    BY <1>1, <1>2, <1>3, <1>4, <1>5
       DEF Abstract!CanInnerCall, Abstract!CanAddSigners, LengthsAllow
  <1>6. CASE call.kind = "removeSigners"
    BY <1>1, <1>2, <1>3, <1>4, <1>6
       DEF Abstract!CanInnerCall, Abstract!CanRemoveSigners, LengthsAllow
  <1> QED
    BY <1>1, <1>5, <1>6

\* Behind the loop the whole list is done.
LEMMA FinishedIsDone ==
  ASSUME Inv, Finished
  PROVE  /\ Done = Range(call.list)
         /\ IsInjective(call.list)
         /\ Abstract!CanInnerCall(call)
  <1>1. /\ call # NoCall
        /\ call.kind \in {"addSigners", "removeSigners"}
        /\ call.list \in Seq(Commitments)
        /\ Len(call.list) \in Nat
        /\ DOMAIN call.list = 1..Len(call.list)
    BY CallFields DEF Inv, TypeOK, Finished
  <1>2. i = Len(call.list) + 1 /\ i > 0
    BY <1>1 DEF Inv, TypeOK, LoopInv, Finished
  <1>3. /\ DoneDiffer /\ LengthsAllow(array)
        /\ call.kind = "addSigners" => Added
        /\ call.kind = "removeSigners" => Removed
    BY <1>1, <1>2 DEF Inv, LoopInv
  <1>4. 1..(i - 1) = DOMAIN call.list
    BY <1>1, <1>2
  <1>5. Done = Range(call.list)
    BY <1>4 DEF Done, Range
  <1>6. IsInjective(call.list)
    BY <1>3, <1>4 DEF DoneDiffer, IsInjective
  <1>7. Abstract!CanInnerCall(call)
    BY <1>1, <1>3, <1>5, <1>6, SetGuards DEF Inv, Added, Removed
  <1> QED
    BY <1>5, <1>6, <1>7

\* A `require` that fails has met something that the guards on sets forbid.
LEMMA FailureIsRefusal ==
  ASSUME Inv, RequireFails
  PROVE  ~Abstract!CanInnerCall(call)
  <1> SUFFICES ASSUME Abstract!CanInnerCall(call)
               PROVE  FALSE
    OBVIOUS
  <1>1. /\ call # NoCall
        /\ call.kind \in {"addSigners", "removeSigners"}
        /\ call.list \in Seq(Commitments)
        /\ Len(call.list) \in Nat
        /\ DOMAIN call.list = 1..Len(call.list)
    BY CallFields DEF Inv, TypeOK, RequireFails, Looping
  <1>2. /\ LengthsAllow(array)
        /\ IsInjective(call.list)
        /\ call.kind = "addSigners" =>
               /\ ZeroCommitment \notin Range(call.list)
               /\ Range(call.list) \intersect Range(array) = {}
        /\ call.kind = "removeSigners" => Range(call.list) \subseteq Range(array)
    BY <1>1, SetGuards DEF Inv
  <1>3. ASSUME i \in DOMAIN call.list
        PROVE  /\ call.list[i] \in Range(call.list)
               /\ \A k \in 1..(i - 1) : call.list[k] # call.list[i]
               /\ call.list[i] \notin Done
    <2>1. i \in 1..Len(call.list) /\ i \in Nat
      BY <1>1, <1>3
    <2>2. \A k \in 1..(i - 1) : call.list[k] # call.list[i]
      BY <1>1, <1>2, <2>1 DEF IsInjective
    <2> QED
      BY <1>3, <2>2 DEF Range, Done
  <1>4. CASE i = 0 /\ ~LengthsAllow(working)
    BY <1>1, <1>2, <1>4 DEF Inv, LoopInv
  <1>5. CASE Looping("addSigners") /\ ~CanAdd
    <2>1. i \in DOMAIN call.list /\ i > 0 /\ call.kind = "addSigners"
      BY <1>1, <1>5 DEF Looping
    <2>2. Added
      BY <1>1, <2>1 DEF Inv, LoopInv
    <2>3. call.list[i] \notin Range(working) /\ call.list[i] # ZeroCommitment
      BY <1>2, <1>3, <2>1, <2>2 DEF Added
    <2> QED
      BY <1>3, <1>5, <2>1, <2>3 DEF CanAdd, IsCurrentSigner, Range
  <1>6. CASE Looping("removeSigners") /\ ~\E j \in DOMAIN working : FoundAt(j)
    <2>1. i \in DOMAIN call.list /\ i > 0 /\ call.kind = "removeSigners"
      BY <1>1, <1>6 DEF Looping
    <2>2. Removed /\ IsInjective(working)
      BY <1>1, <2>1 DEF Inv, LoopInv
    <2>3. call.list[i] \in Range(working)
      BY <1>2, <1>3, <2>1, <2>2 DEF Removed
    <2>4. PICK j \in DOMAIN working : working[j] = call.list[i]
      BY <2>3 DEF Range
    <2>5. FoundAt(j)
      <3>1. working \in Seq(Commitments \ {ZeroCommitment}) /\ DOMAIN working = 1..Len(working)
        BY DEF Inv, TypeOK
      <3> QED
        BY <2>2, <2>4, <3>1 DEF FoundAt, IsInjective
    <2> QED
      BY <1>6, <2>5
  <1> QED
    BY <1>4, <1>5, <1>6 DEF RequireFails

\* What a call leaves behind is what the set operation makes of the signers.
LEMMA ReturnComputesSets ==
  ASSUME Inv, Return
  PROVE  Abstract!InnerCall(call) /\ Inv'
  <1>1. /\ call \in Calls /\ call # NoCall
        /\ call.kind \in {"addSigners", "removeSigners"}
        /\ call.list \in Seq(Commitments)
        /\ Len(call.list) \in Nat /\ call.required \in Nat
    BY CallFields DEF Inv, TypeOK, Return, Finished
  <1>2. /\ Done = Range(call.list) /\ Abstract!CanInnerCall(call)
        /\ IsInjective(call.list)
    BY FinishedIsDone DEF Return
  <1>3. i = Len(call.list) + 1 /\ i > 0
    BY <1>1 DEF Inv, TypeOK, LoopInv, Return, Finished
  <1>4. /\ IsInjective(working) /\ LengthsAllow(array)
        /\ call.kind = "addSigners" => Added
        /\ call.kind = "removeSigners" => Removed
    BY <1>1, <1>3 DEF Inv, LoopInv
  <1>5. array' = working /\ signaturesRequired' = call.required
    BY DEF Return
  <1>6. Abstract!Range(call.list) = Range(call.list)
    BY DEF Range, Abstract!Range
  <1>7. Abstract!InnerCall(call)
    <2>1. CASE call.kind = "addSigners"
      <3>1. Range(array') = Range(array) \union Range(call.list)
        BY <1>2, <1>4, <1>5, <2>1 DEF Added
      <3> QED
        BY <1>2, <1>5, <1>6, <2>1, <3>1
           DEF Abstract!InnerCall, Abstract!CanInnerCall, Abstract!AddSigners
    <2>2. CASE call.kind = "removeSigners"
      <3>1. Range(array') = Range(array) \ Range(call.list)
        BY <1>2, <1>4, <1>5, <2>2 DEF Removed
      <3> QED
        BY <1>2, <1>5, <1>6, <2>2, <3>1
           DEF Abstract!InnerCall, Abstract!CanInnerCall, Abstract!RemoveSigners
    <2> QED
      BY <1>1, <2>1, <2>2
  <1>8. call.required \in 1..Len(working)
    <2>1. CASE call.kind = "addSigners"
      <3>1. Len(working) = Len(array) + Len(call.list)
        <4>1. Cardinality(Range(array)) = Len(array) /\ IsFiniteSet(Range(array))
          BY InjectiveLength, ListIsFinite DEF Inv, TypeOK
        <4>2. Cardinality(Range(call.list)) = Len(call.list) /\ IsFiniteSet(Range(call.list))
          BY <1>1, <1>2, InjectiveLength, ListIsFinite
        <4>3. Cardinality(Range(working)) = Len(working)
          BY <1>4, InjectiveLength DEF Inv, TypeOK
        <4>4. /\ Range(working) = Range(array) \union Range(call.list)
              /\ Range(array) \intersect Range(call.list) = {}
          BY <1>2, <1>4, <2>1 DEF Added
        <4>5. Cardinality(Range(array) \intersect Range(call.list)) = 0
          BY <4>4, FS_EmptySet
        <4>6. Cardinality(Range(array) \union Range(call.list)) =
                  Cardinality(Range(array)) + Cardinality(Range(call.list)) - 0
          BY <4>1, <4>2, <4>5, FS_Union
        <4>7. Len(array) \in Nat
          BY DEF Inv, TypeOK
        <4>8. Len(working) = Cardinality(Range(array) \union Range(call.list))
          BY <4>3, <4>4
        <4> QED
          BY <1>1, <4>1, <4>2, <4>6, <4>7, <4>8
      <3> QED
        BY <1>1, <1>4, <2>1, <3>1 DEF LengthsAllow
    <2>2. CASE call.kind = "removeSigners"
      <3>1. Len(working) = Len(array) - Len(call.list) /\ Len(array) \in Nat
        BY <1>1, <1>3, <1>4, <2>2 DEF Removed, Inv, TypeOK
      <3> QED
        BY <1>1, <1>4, <2>2, <3>1 DEF LengthsAllow
    <2> QED
      BY <1>1, <2>1, <2>2
  <1>9. call' = NoCall /\ working' = <<>> /\ i' = 0
    BY DEF Return, Ended
  <1>10. TypeOK'
    BY <1>4, <1>5, <1>8, <1>9 DEF Inv, TypeOK
  <1>11. LoopInv'
    BY <1>9 DEF LoopInv
  <1> QED
    BY <1>7, <1>10, <1>11 DEF Inv

-----------------------------------------------------------------------------
(* The theorems.                                                           *)

\* No step leaves the invariant.
LEMMA InvStep == Inv /\ [Next]_vars => Inv'
  <1> SUFFICES ASSUME Inv, [Next]_vars PROVE Inv'
    OBVIOUS
  <1>1. ASSUME NEW c \in Calls, Begin(c)
        PROVE  Inv'
    <2>1. /\ array' = array /\ signaturesRequired' = signaturesRequired
          /\ call' = c /\ c # NoCall /\ working' = array /\ i' = 0
      BY <1>1, CallFields DEF Begin
    <2>2. TypeOK'
      BY <2>1 DEF Inv, TypeOK
    <2>3. LoopInv'
      BY <2>1, CallFields DEF LoopInv, Inv, TypeOK
    <2> QED
      BY <2>2, <2>3 DEF Inv
  <1>2. CASE EnterLoop
    <2>1. /\ call # NoCall /\ i = 0 /\ LengthsAllow(working)
          /\ array' = array /\ signaturesRequired' = signaturesRequired
          /\ call' = call /\ working' = working /\ i' = 1
      BY <1>2 DEF EnterLoop
    <2>2. working = array /\ IsInjective(working) /\ Len(array) \in Nat
      BY <2>1 DEF Inv, LoopInv, TypeOK
    <2>3. Len(call.list) \in Nat /\ call.kind \in {"addSigners", "removeSigners"}
      BY <2>1, CallFields DEF Inv, TypeOK
    <2>4. 1..(1 - 1) = {}
      OBVIOUS
    <2>5. Done' = {}
      BY <2>1, <2>4 DEF Done
    <2>6. DoneDiffer'
      BY <2>1, <2>4 DEF DoneDiffer
    <2>7. LengthsAllow(array)'
      BY <2>1, <2>2 DEF LengthsAllow
    <2>8. Added' /\ Removed'
      BY <2>1, <2>2, <2>5 DEF Added, Removed
    <2>9. LoopInv'
      BY <2>1, <2>2, <2>3, <2>6, <2>7, <2>8 DEF LoopInv
    <2>10. TypeOK'
      BY <2>1 DEF Inv, TypeOK
    <2> QED
      BY <2>9, <2>10 DEF Inv
  <1>3. CASE AddOne
    BY <1>3, AddOneInv
  <1>4. CASE RemoveOne
    BY <1>4, RemoveOneInv
  <1>5. CASE Return
    BY <1>5, ReturnComputesSets
  <1>6. CASE Revert
    BY <1>6 DEF Revert, Ended, Inv, TypeOK, LoopInv
  <1>7. CASE UNCHANGED vars
    BY <1>7 DEF vars, Inv, TypeOK, LoopInv, Added, Removed, Done, DoneDiffer, LengthsAllow
  <1> QED
    BY <1>1, <1>2, <1>3, <1>4, <1>5, <1>6, <1>7 DEF Next

\* In every reachable state the invariant holds.
LEMMA Invariance == Spec => []Inv
  <1>1. Init => Inv
    BY InitInv
  <1>2. Inv /\ [Next]_vars => Inv'
    BY InvStep
  <1> QED
    BY <1>1, <1>2, PTL DEF Spec

\* No sequence of calls of addSigners and removeSigners, successful or not, puts
\* a commitment into the array twice or a zero, or raises the threshold above
\* the number of signers.
THEOREM ArrayIsASet == Spec => []TypeOK
  <1>1. Inv => TypeOK
    BY DEF Inv
  <1> QED
    BY <1>1, Invariance, PTL

\* The loops, for every list, revert exactly where the set guards of
\* MetaMultiSigWallet are false.
THEOREM LoopsRefuseAsSets == Spec => []LoopsRevertAsSets
  <1>1. Inv => LoopsRevertAsSets
    BY FinishedIsDone, FailureIsRefusal DEF LoopsRevertAsSets
  <1> QED
    BY <1>1, Invariance, PTL

\* A call that returns has done the set operation of MetaMultiSigWallet, and
\* every other step leaves the signers alone.
THEOREM LoopsImplementSets == Spec => LoopsComputeSets
  <1>1. Inv /\ [Next]_vars =>
            [IF Return THEN Abstract!InnerCall(call)
             ELSE UNCHANGED <<array, signaturesRequired>>]_vars
    <2> SUFFICES ASSUME Inv, Next
                 PROVE  IF Return THEN Abstract!InnerCall(call)
                        ELSE UNCHANGED <<array, signaturesRequired>>
      OBVIOUS
    <2>1. CASE Return
      BY <2>1, ReturnComputesSets
    <2>2. CASE ~Return
      BY <2>2 DEF Next, Begin, EnterLoop, AddOne, RemoveOne, Revert
    <2> QED
      BY <2>1, <2>2
  <1> QED
    BY <1>1, Invariance, PTL DEF Spec, LoopsComputeSets
=============================================================================
