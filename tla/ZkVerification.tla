---------------------------- MODULE ZkVerification ----------------------------
(***************************************************************************)
(* How a proof gets to zkVerify, backend/src/zkverify/zkverify.service.ts: *)
(* submitProofAndWaitFinalized, which a login, a new transaction and an    *)
(* approval wait for, and the file that caches the hash of the             *)
(* verification key.                                                       *)
(*                                                                         *)
(* There is a file for each circuit and proof system; this is one of them. *)
(* The functions of `fs` that are used are synchronous, so nobody comes    *)
(* between a look at the file and its removal.  zkVerify is not in the     *)
(* repository: it answers or not, and its jobs go on by themselves.        *)
(***************************************************************************)
EXTENDS Naturals, Sequences

CONSTANTS
    Verifications,      \* concurrent calls of submitProofAndWaitFinalized
    WithKey,            \* those that bring the verification key
    Genuine,            \* those whose proof is right
    MaxRetries,         \* ZK_API_MAX_RETRIES
    MaxPolls,           \* ZK_FINALIZE_MAX_ATTEMPTS
    MaxFaults           \* bound: restarts, registrations answered without a hash

ASSUME LimitsAssumption ==
    /\ WithKey \subseteq Verifications
    /\ Genuine \subseteq Verifications
    /\ MaxRetries \in Nat \ {0}
    /\ MaxPolls \in Nat \ {0}
    /\ MaxFaults \in Nat

VARIABLES
    cache,          \* the file: absent, invalid, or valid (readVkHash finds a hash)
    registered,     \* does zkVerify know the key?
    calls,          \* Verifications -> [pc, tries, polls, job]
    jobs,           \* of zkVerify: [by, status], known by their position
    faults

vars == <<cache, registered, calls, jobs, faults>>

Steps == {"idle", "registering", "settling", "submitting", "polling", "accepted", "rejected"}
Ended == {"accepted", "rejected"}
Call == [pc : Steps, tries : 1..MaxRetries, polls : 0..MaxPolls, job : Nat]
Statuses == {"Submitted", "IncludedInBlock", "Aggregated", "Failed"}

At(v, pc) == calls[v].pc = pc
Goto(v, pc) == calls' = [calls EXCEPT ![v].pc = pc, ![v].tries = 1]

\* The hash is there, or the file goes and the call throws.
TakeHash(v) ==
    IF cache = "valid"
    THEN Goto(v, "submitting") /\ UNCHANGED cache
    ELSE Goto(v, "rejected") /\ cache' = "absent"

-----------------------------------------------------------------------------
(* loadOrRegisterVk and registerVk.                                        *)

\* Mutant: a call without the key waits for another that has it.
LoadKeyOrWait(v) ==
    /\ At(v, "idle")
    /\ \/ cache = "valid" /\ Goto(v, "submitting") /\ UNCHANGED cache
       \/ cache # "valid" /\ v \in WithKey /\ Goto(v, "registering") /\ cache' = "absent"
    /\ UNCHANGED <<registered, jobs, faults>>

\* Mutant: a file that is there is taken for a hash.
LoadAnyKey(v) ==
    /\ At(v, "idle")
    /\ \/ cache # "absent" /\ Goto(v, "submitting")
       \/ cache = "absent" /\ v \in WithKey /\ Goto(v, "registering")
       \/ cache = "absent" /\ v \notin WithKey /\ Goto(v, "rejected")
    /\ UNCHANGED <<cache, registered, jobs, faults>>

\* A call without the key leaves an invalid file where it is.
LoadKey(v) ==
    /\ At(v, "idle")
    /\ \/ cache = "valid" /\ Goto(v, "submitting") /\ UNCHANGED cache
       \/ cache # "valid" /\ v \in WithKey /\ Goto(v, "registering") /\ cache' = "absent"
       \/ cache # "valid" /\ v \notin WithKey /\ Goto(v, "rejected") /\ UNCHANGED cache
    /\ UNCHANGED <<registered, jobs, faults>>

\* Whatever is answered is written; then five seconds pass.
RegisterKey(v) ==
    /\ At(v, "registering")
    /\ registered' = TRUE
    /\ cache' = "valid"
    /\ Goto(v, "settling")
    /\ UNCHANGED <<jobs, faults>>

RegisterWithoutHash(v) ==
    /\ faults < MaxFaults
    /\ faults' = faults + 1
    /\ At(v, "registering")
    /\ registered' \in {registered, TRUE}
    /\ cache' = "invalid"
    /\ Goto(v, "settling")
    /\ UNCHANGED jobs

\* Mutant: the last failure removes the file without another look at it.
RegisterFailsForAll(v) ==
    /\ At(v, "registering")
    /\ registered' \in {registered, TRUE}
    /\ IF calls[v].tries < MaxRetries
       THEN calls' = [calls EXCEPT ![v].tries = @ + 1] /\ UNCHANGED cache
       ELSE Goto(v, "rejected") /\ cache' = "absent"
    /\ UNCHANGED <<jobs, faults>>

\* An error, though zkVerify may have the key by now.  Only after the last one
\* does the call look for what others have registered.
RegisterFails(v) ==
    /\ At(v, "registering")
    /\ registered' \in {registered, TRUE}
    /\ IF calls[v].tries < MaxRetries
       THEN calls' = [calls EXCEPT ![v].tries = @ + 1] /\ UNCHANGED cache
       ELSE TakeHash(v)
    /\ UNCHANGED <<jobs, faults>>

\* Mutant: the unreadable file stays.
ReadKeyBackOnly(v) ==
    /\ At(v, "settling")
    /\ Goto(v, IF cache = "valid" THEN "submitting" ELSE "rejected")
    /\ UNCHANGED <<cache, registered, jobs, faults>>

ReadKeyBack(v) ==
    /\ At(v, "settling")
    /\ TakeHash(v)
    /\ UNCHANGED <<registered, jobs, faults>>

-----------------------------------------------------------------------------
(* submit-proof in retryRequest, and waitForFinalized.                     *)

\* What may become of zkVerify's jobs when it gets the proof.
Received(v) ==
    {jobs} \union
        {Append(jobs, [by |-> u, status |-> "Submitted"]) : u \in {v} \intersect Genuine}

\* optimisticVerify is "success", with the id of the job.
SubmitProof(v) ==
    /\ At(v, "submitting")
    /\ v \in Genuine
    /\ jobs' = Append(jobs, [by |-> v, status |-> "Submitted"])
    /\ calls' = [calls EXCEPT ![v].pc = "polling", ![v].job = Len(jobs')]
    /\ UNCHANGED <<cache, registered, faults>>

\* Another answer, or an error that is not tried again.
SubmitRefused(v) ==
    /\ At(v, "submitting")
    /\ Goto(v, "rejected")
    /\ UNCHANGED <<cache, registered, jobs, faults>>

\* A time-out, or a lost connection: the proof is sent again, and zkVerify may
\* have two jobs for it.
SubmitUnanswered(v) ==
    /\ At(v, "submitting")
    /\ jobs' \in Received(v)
    /\ IF calls[v].tries < MaxRetries
       THEN calls' = [calls EXCEPT ![v].tries = @ + 1]
       ELSE Goto(v, "rejected")
    /\ UNCHANGED <<cache, registered, faults>>

\* The last attempt is followed by a throw.
Polled(v) ==
    calls' = [calls EXCEPT
        ![v].polls = @ + 1,
        ![v].pc = IF calls[v].polls + 1 = MaxPolls THEN "rejected" ELSE "polling"]

\* Mutant: everything but an error is taken for success.
PollForAnyStatus(v) ==
    /\ At(v, "polling")
    /\ Goto(v, "accepted")
    /\ UNCHANGED <<cache, registered, jobs, faults>>

\* Only IncludedInBlock ends the wait, neither a failure nor what comes after
\* the inclusion.
Poll(v) ==
    /\ At(v, "polling")
    /\ IF jobs[calls[v].job].status = "IncludedInBlock" THEN Goto(v, "accepted") ELSE Polled(v)
    /\ UNCHANGED <<cache, registered, jobs, faults>>

\* An error counts as an attempt, without the pause of five seconds.
PollFails(v) ==
    /\ At(v, "polling")
    /\ Polled(v)
    /\ UNCHANGED <<cache, registered, jobs, faults>>

-----------------------------------------------------------------------------
(* zkVerify, and restarts of the backend.                                  *)

Advance(j) ==
    /\ \/ jobs[j].status = "Submitted" /\ jobs' = [jobs EXCEPT ![j].status = "IncludedInBlock"]
       \/ jobs[j].status = "Submitted" /\ jobs' = [jobs EXCEPT ![j].status = "Failed"]
       \/ jobs[j].status = "IncludedInBlock" /\ jobs' = [jobs EXCEPT ![j].status = "Aggregated"]
    /\ UNCHANGED <<cache, registered, calls, faults>>

\* The file stays.
Crash ==
    /\ faults < MaxFaults
    /\ faults' = faults + 1
    /\ calls' = [v \in Verifications |->
           IF calls[v].pc \in {"idle"} \union Ended THEN calls[v]
           ELSE [calls[v] EXCEPT !.pc = "rejected", !.tries = 1]]
    /\ UNCHANGED <<cache, registered, jobs>>

-----------------------------------------------------------------------------

Init ==
    /\ cache \in {"absent", "invalid", "valid"}
    /\ registered \in BOOLEAN
    /\ cache = "valid" => registered
    /\ calls = [v \in Verifications |-> [pc |-> "idle", tries |-> 1, polls |-> 0, job |-> 0]]
    /\ jobs = <<>>
    /\ faults = 0

\* Steps that wait for nothing, or for submit-proof, which has a timeout.
OwnStep(v) ==
    \/ LoadKey(v)
    \/ ReadKeyBack(v)
    \/ SubmitProof(v) \/ SubmitRefused(v) \/ SubmitUnanswered(v)

\* Steps that wait for register-vk and job-status, whose requests have none.
RegistrationEnds(v) == RegisterKey(v) \/ RegisterWithoutHash(v) \/ RegisterFails(v)
PollEnds(v) == Poll(v) \/ PollFails(v)

Next ==
    \/ \E v \in Verifications : OwnStep(v) \/ RegistrationEnds(v) \/ PollEnds(v)
    \/ \E j \in 1..Len(jobs) : Advance(j)
    \/ Crash

Spec == Init /\ [][Next]_vars

\* Node resumes what does not wait, what waits for a timer, and what waits for
\* a request with a timeout; nothing is assumed of the other requests.
FairSpec == Spec /\ \A v \in Verifications : WF_vars(OwnStep(v))

-----------------------------------------------------------------------------
(* Properties.                                                             *)

\* The shapes of the calls, with the limits of their loops.
TypeOK ==
    /\ cache \in {"absent", "invalid", "valid"}
    /\ registered \in BOOLEAN
    /\ calls \in [Verifications -> Call]
    /\ jobs \in Seq([by : Verifications, status : Statuses])
    /\ faults \in 0..MaxFaults

\* A proof whose submission succeeded (a vote is recorded, a user is logged in)
\* is right, and a job of its own was included in a block, even if other
\* submissions of it were lost or failed.
AcceptedIsIncluded ==
    \A v \in Verifications : At(v, "accepted") =>
        /\ v \in Genuine
        /\ calls[v].job \in 1..Len(jobs)
        /\ jobs[calls[v].job].by = v
        /\ jobs[calls[v].job].status \in {"IncludedInBlock", "Aggregated"}

\* No proof is sent under a key that zkVerify does not know.
KeyIsRegistered ==
    \A v \in Verifications : At(v, "submitting") => registered

\* A hash that was found is not lost to concurrent calls that fail: only a
\* registration that is answered without one (which counts as a fault)
\* overwrites it.
ValidFileIsKept ==
    [][cache = "valid" => cache' = "valid" \/ faults' > faults]_vars

\* "Self-healing: if the cached file is invalid, it re-registers
\* automatically": it does not stay invalid while there are callers with a key,
\* whoever wrote it and however that call ended.
FileHeals ==
    (cache = "invalid" /\ \E v \in WithKey : At(v, "idle")) ~> cache # "invalid"

\* Every request without a timeout ends, in whatever answer or error.
ZkVerifyAnswers ==
    \A v \in Verifications : WF_vars(RegistrationEnds(v)) /\ WF_vars(PollEnds(v))

\* A login, a creation or an approval that waits for zkVerify is answered,
\* whatever zkVerify says, if it ends every request, and whether or not the
\* caller has the key.
EveryCallAnswered ==
    ZkVerifyAnswers =>
        \A v \in Verifications : calls[v].pc = "idle" ~> calls[v].pc \in Ended
=============================================================================
