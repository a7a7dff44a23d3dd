------------------------- MODULE ZkVerificationProofs -------------------------
(***************************************************************************)
(* Proofs about submissions to zkVerify, for every set of concurrent calls *)
(* and any limits of the retries, the polls and the faults.                *)
(*                                                                         *)
(* The argument: zkVerify only appends jobs, and a job keeps its proof, so *)
(* the id that a call remembers is that of a job of its own until the end. *)
(***************************************************************************)
EXTENDS ZkVerification, TLAPS

Job == [by : Verifications, status : Statuses]

\* A call has not polled before it has a job, and then less often than allowed.
PollsLeft ==
    \A v \in Verifications :
        /\ calls[v].pc \in {"idle", "registering", "settling", "submitting"} => calls[v].polls = 0
        /\ calls[v].pc = "polling" => calls[v].polls < MaxPolls

\* A call that waits for a job, or has waited, waits for one of its own.
OwnJob ==
    \A v \in Verifications : calls[v].pc \in {"polling", "accepted"} =>
        /\ v \in Genuine
        /\ calls[v].job \in 1..Len(jobs)
        /\ jobs[calls[v].job].by = v

\* What a call has accepted stays included.
AcceptedStays ==
    \A v \in Verifications : calls[v].pc = "accepted" =>
        jobs[calls[v].job].status \in {"IncludedInBlock", "Aggregated"}

\* A hash in the file is that of a registered key.
HashIsRegistered ==
    /\ cache = "valid" => registered
    /\ KeyIsRegistered

\* What zkVerify may do to its jobs.
JobsKept ==
    /\ jobs' \in Seq(Job)
    /\ Len(jobs') >= Len(jobs)
    /\ \A j \in 1..Len(jobs) :
           /\ jobs'[j].by = jobs[j].by
           /\ jobs[j].status \in {"IncludedInBlock", "Aggregated"} =>
                  jobs'[j].status \in {"IncludedInBlock", "Aggregated"}

Inductive == TypeOK /\ PollsLeft /\ OwnJob /\ AcceptedStays /\ HashIsRegistered

-----------------------------------------------------------------------------

\* At the start no call has begun.
LEMMA InitInductive == Init => Inductive
  BY LimitsAssumption
     DEF Init, Inductive, TypeOK, PollsLeft, OwnJob, AcceptedStays, HashIsRegistered,
         KeyIsRegistered, At, Call, Steps, Statuses

\* Jobs stay, and are appended.
LEMMA SameJobs == TypeOK /\ UNCHANGED jobs => JobsKept
  BY DEF TypeOK, JobsKept, Job

\* A job is appended at the end, and belongs to the call that sent it.
LEMMA AppendedJobs ==
  ASSUME TypeOK, NEW v \in Verifications,
         jobs' = Append(jobs, [by |-> v, status |-> "Submitted"])
  PROVE  JobsKept /\ Len(jobs') = Len(jobs) + 1 /\ jobs'[Len(jobs')].by = v
  <1> DEFINE job == [by |-> v, status |-> "Submitted"]
  <1>1. job \in Job /\ job.by = v
    BY DEF Job, Statuses
  <1>2. jobs \in Seq(Job)
    BY DEF TypeOK, Job
  <1>3. jobs' = Append(jobs, job)
    OBVIOUS
  <1> HIDE DEF job
  <1> QED
    BY <1>1, <1>2, <1>3 DEF JobsKept

\* A step of a call that has no job yet, and gets none.
LEMMA MoveKeepsInductive ==
  ASSUME Inductive, NEW v \in Verifications, NEW q \in Call,
         calls[v].pc \in {"idle", "registering", "settling", "submitting"},
         calls' = [calls EXCEPT ![v] = q],
         q.polls = calls[v].polls,
         q.pc \in {"idle", "registering", "settling", "submitting", "rejected"},
         q.pc = "submitting" => registered',
         registered' \in {registered, TRUE},
         cache' \in {"absent", "invalid", "valid"},
         cache' = "valid" => cache = "valid" \/ registered',
         JobsKept, faults' \in 0..MaxFaults
  PROVE  Inductive'
  <1>1. TypeOK'
    BY DEF Inductive, TypeOK, JobsKept, Job
  <1>2. PollsLeft'
    BY DEF Inductive, TypeOK, PollsLeft
  <1>3. OwnJob' /\ AcceptedStays'
    <2>1. Len(jobs) \in Nat /\ Len(jobs') \in Nat
      BY DEF Inductive, TypeOK, JobsKept
    <2>2. \A u \in Verifications : calls'[u].pc \in {"polling", "accepted"} =>
             calls'[u] = calls[u]
      BY DEF Inductive, TypeOK
    <2> QED
      BY <2>1, <2>2 DEF Inductive, JobsKept, OwnJob, AcceptedStays
  <1>4. HashIsRegistered'
    BY DEF Inductive, TypeOK, HashIsRegistered, KeyIsRegistered, At
  <1> QED
    BY <1>1, <1>2, <1>3, <1>4 DEF Inductive

\* A job more, or a job further, takes nobody's job away.
LEMMA JobsKeepInductive ==
  ASSUME Inductive, JobsKept,
         UNCHANGED <<cache, registered, calls, faults>>
  PROVE  Inductive'
  <1>1. TypeOK' /\ PollsLeft' /\ HashIsRegistered'
    BY DEF Inductive, TypeOK, PollsLeft, HashIsRegistered, KeyIsRegistered, At, Job, JobsKept
  <1>2. Len(jobs) \in Nat /\ Len(jobs') \in Nat
    BY DEF Inductive, TypeOK, JobsKept
  <1>3. OwnJob' /\ AcceptedStays'
    BY <1>2 DEF Inductive, OwnJob, AcceptedStays, JobsKept
  <1> QED
    BY <1>1, <1>3 DEF Inductive

\* A failed look, at the job or for it, uses up an attempt.
LEMMA PolledKeepsInductive ==
  ASSUME Inductive, NEW v \in Verifications, calls[v].pc = "polling", Polled(v),
         UNCHANGED <<cache, registered, jobs, faults>>
  PROVE  Inductive'
  <1> DEFINE pc == IF calls[v].polls + 1 = MaxPolls THEN "rejected" ELSE "polling"
             polls == calls[v].polls + 1
             q == [calls[v] EXCEPT !.polls = polls, !.pc = pc]
  <1>1. calls[v] \in Call /\ calls[v].polls \in Nat /\ calls[v].polls < MaxPolls
    BY DEF Inductive, TypeOK, PollsLeft, Call
  <1>2. calls' = [calls EXCEPT ![v] = q]
    BY DEF Polled, Inductive, TypeOK
  <1>a. /\ polls \in 0..MaxPolls
        /\ pc \in {"polling", "rejected"}
        /\ pc = "polling" => polls < MaxPolls
    BY <1>1, LimitsAssumption
  <1> HIDE DEF pc, polls
  <1>3. /\ q \in Call /\ q.job = calls[v].job
        /\ q.pc = "polling" => q.polls < MaxPolls
        /\ q.pc \in {"polling", "rejected"}
    BY <1>1, <1>a DEF Call, Steps
  <1> HIDE DEF q
  <1>4. TypeOK' /\ PollsLeft'
    BY <1>2, <1>3 DEF Inductive, TypeOK, PollsLeft
  <1>5. OwnJob' /\ AcceptedStays'
    BY <1>2, <1>3 DEF Inductive, TypeOK, OwnJob, AcceptedStays
  <1>6. HashIsRegistered'
    BY <1>2, <1>3 DEF Inductive, TypeOK, HashIsRegistered, KeyIsRegistered, At
  <1> QED
    BY <1>4, <1>5, <1>6 DEF Inductive

\* Every step of a call keeps the invariant.
LEMMA CallStep ==
  ASSUME Inductive, NEW v \in Verifications,
         OwnStep(v) \/ RegistrationEnds(v) \/ PollEnds(v)
  PROVE  Inductive'
  <1> DEFINE To(pc, tries) == [calls[v] EXCEPT !.pc = pc, !.tries = tries]
  <1>0. calls[v] \in Call /\ faults \in 0..MaxFaults /\ MaxFaults \in Nat
    BY LimitsAssumption DEF Inductive, TypeOK
  <1>1. \A pc : Goto(v, pc) => calls' = [calls EXCEPT ![v] = To(pc, 1)]
    BY DEF Goto, Inductive, TypeOK
  <1>2. \A pc \in Steps : /\ To(pc, 1) \in Call /\ To(pc, 1).pc = pc
                          /\ To(pc, 1).polls = calls[v].polls
                          /\ To(pc, 1).job = calls[v].job
    <2>1. 1 \in 1..MaxRetries
      BY LimitsAssumption
    <2> QED
      BY <1>0, <2>1 DEF Call
  <1> HIDE DEF To
  <1>a. UNCHANGED jobs => JobsKept
    BY SameJobs DEF Inductive
  <1> DEFINE again == [calls[v] EXCEPT !.tries = calls[v].tries + 1]
  <1>3. calls[v].tries < MaxRetries =>
          again \in Call /\ again.pc = calls[v].pc /\ again.polls = calls[v].polls
    <2>1. calls[v].tries < MaxRetries => calls[v].tries + 1 \in 1..MaxRetries
      BY <1>0, LimitsAssumption DEF Call
    <2> QED
      BY <1>0, <2>1 DEF Call
  <1>4. /\ cache \in {"absent", "invalid", "valid"}
        /\ registered \in BOOLEAN
        /\ cache = "valid" => registered
        /\ calls[v].pc = "submitting" => registered
    BY DEF Inductive, TypeOK, HashIsRegistered, KeyIsRegistered, At
  <1>5. CASE LoadKey(v)
    BY <1>0, <1>1, <1>2, <1>4, <1>5, <1>a, MoveKeepsInductive DEF LoadKey, At, Steps
  <1>6. CASE RegisterKey(v)
    BY <1>0, <1>1, <1>2, <1>4, <1>6, <1>a, MoveKeepsInductive DEF RegisterKey, At, Steps
  <1>7. CASE RegisterWithoutHash(v)
    <2>1. faults' \in 0..MaxFaults
      BY <1>0, <1>7 DEF RegisterWithoutHash
    <2> QED
      BY <2>1, <1>1, <1>2, <1>4, <1>7, <1>a, MoveKeepsInductive DEF RegisterWithoutHash, At, Steps
  <1>8. CASE RegisterFails(v)
    <2>1. CASE calls[v].tries < MaxRetries
      <3>1. /\ calls' = [calls EXCEPT ![v] = again]
            /\ registered' \in {registered, TRUE}
            /\ UNCHANGED <<cache, jobs, faults>>
            /\ calls[v].pc = "registering"
        BY <1>8, <2>1 DEF RegisterFails, Inductive, TypeOK, At
      <3>2. again \in Call /\ again.pc = "registering" /\ again.polls = calls[v].polls
        BY <1>3, <2>1, <3>1
      <3> HIDE DEF again
      <3> QED
        BY <1>0, <1>4, <1>a, <3>1, <3>2, MoveKeepsInductive
    <2>2. CASE ~(calls[v].tries < MaxRetries)
      <3>1. TakeHash(v) /\ registered' \in {registered, TRUE} /\ UNCHANGED <<jobs, faults>>
            /\ calls[v].pc = "registering"
        BY <1>8, <2>2 DEF RegisterFails, At
      <3>2. CASE cache = "valid"
        <4>1. Goto(v, "submitting") /\ UNCHANGED cache
          BY <3>1, <3>2 DEF TakeHash
        <4> QED
          <5>1. /\ calls' = [calls EXCEPT ![v] = To("submitting", 1)]
                /\ To("submitting", 1) \in Call /\ To("submitting", 1).pc = "submitting"
                /\ To("submitting", 1).polls = calls[v].polls
            BY <1>1, <1>2, <4>1 DEF Steps
          <5>2. registered = TRUE /\ registered' = TRUE
            BY <1>4, <3>1, <3>2
          <5> QED
            BY <1>0, <1>4, <1>a, <3>1, <3>2, <4>1, <5>1, <5>2, MoveKeepsInductive
      <3>3. CASE cache # "valid"
        <4>1. Goto(v, "rejected") /\ cache' = "absent"
          BY <3>1, <3>3 DEF TakeHash
        <4> QED
          BY <1>0, <1>1, <1>2, <1>4, <1>a, <3>1, <4>1, MoveKeepsInductive DEF Steps
      <3> QED
        BY <3>2, <3>3
    <2> QED
      BY <2>1, <2>2
  <1>9. CASE ReadKeyBack(v)
    BY <1>0, <1>1, <1>2, <1>4, <1>9, <1>a, MoveKeepsInductive DEF ReadKeyBack, TakeHash, At, Steps
  <1>10. CASE SubmitRefused(v)
    BY <1>0, <1>1, <1>2, <1>4, <1>10, <1>a, MoveKeepsInductive DEF SubmitRefused, At, Steps
  <1>11. CASE SubmitUnanswered(v)
    <2>1. JobsKept
      <3>1. CASE jobs' = jobs
        BY <3>1, <1>a
      <3>2. CASE jobs' = Append(jobs, [by |-> v, status |-> "Submitted"])
        BY <3>2, AppendedJobs DEF Inductive
      <3> QED
        BY <1>11, <3>1, <3>2 DEF SubmitUnanswered, Received
    <2>2. CASE calls[v].tries < MaxRetries
      <3>1. /\ calls' = [calls EXCEPT ![v] = again]
            /\ UNCHANGED <<cache, registered, faults>>
            /\ calls[v].pc = "submitting"
        BY <1>11, <2>2 DEF SubmitUnanswered, Inductive, TypeOK, At
      <3>2. again \in Call /\ again.pc = "submitting" /\ again.polls = calls[v].polls
        BY <1>3, <2>2, <3>1
      <3> HIDE DEF again
      <3> QED
        BY <1>0, <1>4, <2>1, <3>1, <3>2, MoveKeepsInductive
    <2>3. CASE ~(calls[v].tries < MaxRetries)
      <3>1. /\ Goto(v, "rejected")
            /\ UNCHANGED <<cache, registered, faults>>
            /\ calls[v].pc = "submitting"
        BY <1>11, <2>3 DEF SubmitUnanswered, At
      <3> QED
        BY <1>0, <1>1, <1>2, <1>4, <2>1, <3>1, MoveKeepsInductive DEF Steps
    <2> QED
      BY <2>2, <2>3
  <1>12. CASE SubmitProof(v)
    <2> DEFINE q == [calls[v] EXCEPT !.pc = "polling", !.job = Len(jobs')]
    <2>1. /\ v \in Genuine /\ calls[v].pc = "submitting"
          /\ jobs' = Append(jobs, [by |-> v, status |-> "Submitted"])
          /\ calls' = [calls EXCEPT ![v] = q]
          /\ UNCHANGED <<cache, registered, faults>>
      BY <1>12 DEF SubmitProof, At, Inductive, TypeOK
    <2>2. JobsKept /\ Len(jobs') = Len(jobs) + 1 /\ jobs'[Len(jobs')].by = v
      BY <2>1, AppendedJobs DEF Inductive
    <2>3. Len(jobs) \in Nat /\ Len(jobs') \in Nat
      BY <2>2 DEF Inductive, TypeOK
    <2>4. q \in Call /\ q.pc = "polling" /\ q.job = Len(jobs') /\ q.polls = calls[v].polls
      BY <1>0, <2>3 DEF Call, Steps
    <2>5. calls[v].polls < MaxPolls
      BY <2>1, LimitsAssumption DEF Inductive, PollsLeft
    <2> HIDE DEF q
    <2>6. TypeOK'
      BY <2>1, <2>2, <2>4 DEF Inductive, TypeOK, JobsKept, Job
    <2>7. PollsLeft'
      BY <2>1, <2>4, <2>5 DEF Inductive, TypeOK, PollsLeft
    <2>8. OwnJob'
      <3> SUFFICES ASSUME NEW u \in Verifications, calls'[u].pc \in {"polling", "accepted"}
                   PROVE  /\ u \in Genuine
                          /\ calls'[u].job \in 1..Len(jobs')
                          /\ jobs'[calls'[u].job].by = u
        BY DEF OwnJob
      <3>1. CASE u = v
        BY <3>1, <2>1, <2>2, <2>3, <2>4 DEF Inductive, TypeOK
      <3>2. CASE u # v
        BY <3>2, <2>1, <2>2, <2>3 DEF Inductive, TypeOK, OwnJob, JobsKept
      <3> QED
        BY <3>1, <3>2
    <2>9. AcceptedStays'
      BY <2>1, <2>2, <2>3, <2>4 DEF Inductive, TypeOK, OwnJob, AcceptedStays, JobsKept
    <2>10. HashIsRegistered'
      BY <2>1, <2>4 DEF Inductive, TypeOK, HashIsRegistered, KeyIsRegistered, At
    <2> QED
      BY <2>6, <2>7, <2>8, <2>9, <2>10 DEF Inductive
  <1>13. CASE Poll(v)
    <2>1. CASE jobs[calls[v].job].status = "IncludedInBlock"
      <3>1. /\ calls' = [calls EXCEPT ![v] = To("accepted", 1)]
            /\ UNCHANGED <<cache, registered, jobs, faults>>
            /\ calls[v].pc = "polling"
        BY <1>1, <1>13, <2>1 DEF Poll, At
      <3>2. /\ To("accepted", 1) \in Call
            /\ To("accepted", 1).pc = "accepted"
            /\ To("accepted", 1).job = calls[v].job
        BY <1>2 DEF Steps
      <3>3. TypeOK' /\ PollsLeft'
        BY <3>1, <3>2 DEF Inductive, TypeOK, PollsLeft
      <3>4. OwnJob' /\ AcceptedStays'
        BY <2>1, <3>1, <3>2 DEF Inductive, TypeOK, OwnJob, AcceptedStays
      <3>5. HashIsRegistered'
        BY <3>1, <3>2 DEF Inductive, TypeOK, HashIsRegistered, KeyIsRegistered, At
      <3> QED
        BY <3>3, <3>4, <3>5 DEF Inductive
    <2>2. CASE jobs[calls[v].job].status # "IncludedInBlock"
      BY <1>13, <2>2, PolledKeepsInductive DEF Poll, At
    <2> QED
      BY <2>1, <2>2
  <1>14. CASE PollFails(v)
    BY <1>14, PolledKeepsInductive DEF PollFails, At
  <1> QED
    BY <1>5, <1>6, <1>7, <1>8, <1>9, <1>10, <1>11, <1>12, <1>13, <1>14
       DEF OwnStep, RegistrationEnds, PollEnds

\* And so do zkVerify and restarts.
LEMMA InductiveStep == Inductive /\ [Next]_vars => Inductive'
  <1> SUFFICES ASSUME Inductive, [Next]_vars PROVE Inductive'
    OBVIOUS
  <1>1. ASSUME NEW v \in Verifications, OwnStep(v) \/ RegistrationEnds(v) \/ PollEnds(v)
        PROVE  Inductive'
    BY <1>1, CallStep
  <1>2. ASSUME NEW j \in 1..Len(jobs), Advance(j) PROVE Inductive'
    <2>0. jobs \in Seq(Job)
      BY DEF Inductive, TypeOK, Job
    <2>1. jobs \in Seq(Job) /\ Len(jobs) \in Nat /\ jobs[j] \in Job
      BY <2>0
    <2>2. PICK status \in Statuses :
            /\ jobs' = [jobs EXCEPT ![j] = [jobs[j] EXCEPT !.status = status]]
            /\ jobs[j].status \in {"IncludedInBlock", "Aggregated"} =>
                   status \in {"IncludedInBlock", "Aggregated"}
      BY <1>2, <2>1 DEF Advance, Statuses
    <2> DEFINE job == [jobs[j] EXCEPT !.status = status]
    <2>3. job \in Job /\ job.by = jobs[j].by /\ job.status = status
      BY <2>1 DEF Job
    <2>4. jobs' = [jobs EXCEPT ![j] = job]
      BY <2>2
    <2> HIDE DEF job
    <2>5. JobsKept
      BY <2>1, <2>2, <2>3, <2>4 DEF JobsKept
    <2> QED
      BY <1>2, <2>5, JobsKeepInductive DEF Advance
  <1>3. CASE Crash
    <2>0. faults \in 0..MaxFaults /\ faults < MaxFaults /\ faults' = faults + 1
      BY <1>3 DEF Crash, Inductive, TypeOK
    <2>b. MaxFaults \in Nat
      BY LimitsAssumption
    <2>c. faults' \in 0..MaxFaults
      BY <2>0, <2>b
    <2>1. /\ faults' \in 0..MaxFaults
          /\ UNCHANGED <<cache, registered, jobs>>
      BY <1>3, <2>c DEF Crash
    <2>2. 1 \in 1..MaxRetries
      BY LimitsAssumption
    <2>3. calls' \in [Verifications -> Call]
      BY <1>3, <2>2 DEF Crash, Inductive, TypeOK, Call, Steps
    <2>4. \A u \in Verifications : calls'[u] = calls[u] \/ calls'[u].pc = "rejected"
      BY <1>3 DEF Crash, Inductive, TypeOK, Call
    <2>5. TypeOK'
      BY <2>1, <2>3 DEF Inductive, TypeOK
    <2>6. PollsLeft' /\ OwnJob' /\ AcceptedStays'
      BY <2>1, <2>4 DEF Inductive, PollsLeft, OwnJob, AcceptedStays
    <2>7. HashIsRegistered'
      BY <2>1, <2>4 DEF Inductive, HashIsRegistered, KeyIsRegistered, At
    <2> QED
      BY <2>5, <2>6, <2>7 DEF Inductive
  <1>4. CASE UNCHANGED vars
    BY <1>4 DEF vars, Inductive, TypeOK, PollsLeft, OwnJob, AcceptedStays, HashIsRegistered,
                KeyIsRegistered, At
  <1> QED
    BY <1>1, <1>2, <1>3, <1>4 DEF Next

\* The inductive invariant holds in every reachable state.
LEMMA InductiveHolds == Spec => []Inductive
  BY InitInductive, InductiveStep, PTL DEF Spec

-----------------------------------------------------------------------------

\* TypeOK is an invariant: no call tries or polls more often than its limits.
THEOREM TypeCorrect == Spec => []TypeOK
  <1>1. Inductive => TypeOK
    BY DEF Inductive
  <1> QED
    BY InductiveHolds, <1>1, PTL

\* AcceptedIsIncluded: whoever is let through had a right proof of its own
\* included in a block.
THEOREM AcceptanceIsEarned == Spec => []AcceptedIsIncluded
  <1>1. Inductive => AcceptedIsIncluded
    BY DEF Inductive, OwnJob, AcceptedStays, AcceptedIsIncluded, At
  <1> QED
    BY InductiveHolds, <1>1, PTL

\* KeyIsRegistered: no proof is sent under a key that zkVerify does not know.
THEOREM KeysAreRegistered == Spec => []KeyIsRegistered
  <1>1. Inductive => KeyIsRegistered
    BY DEF Inductive, HashIsRegistered
  <1> QED
    BY InductiveHolds, <1>1, PTL

\* ValidFileIsKept: a hash in the file survives whatever concurrent calls and
\* restarts do, but for a registration that is answered without one.
THEOREM HashIsKept == Spec => ValidFileIsKept
  <1>1. ASSUME Inductive, [Next]_vars, cache = "valid"
        PROVE  cache' = "valid" \/ faults' > faults
    <2>1. faults \in Nat
      BY <1>1, LimitsAssumption DEF Inductive, TypeOK
    <2>2. ASSUME NEW v \in Verifications,
                 OwnStep(v) \/ RegisterKey(v) \/ RegisterFails(v) \/ PollEnds(v)
          PROVE  cache' = "valid"
      BY <1>1, <2>2
         DEF OwnStep, LoadKey, RegisterKey, RegisterFails, ReadKeyBack, TakeHash, SubmitProof,
             SubmitRefused, SubmitUnanswered, PollEnds, Poll, PollFails
    <2>3. ASSUME NEW v \in Verifications, RegisterWithoutHash(v) PROVE faults' > faults
      BY <2>1, <2>3 DEF RegisterWithoutHash
    <2>4. ASSUME UNCHANGED cache PROVE cache' = "valid"
      BY <1>1, <2>4
    <2> QED
      BY <1>1, <2>2, <2>3, <2>4 DEF Next, RegistrationEnds, Advance, Crash, vars
  <1>2. Inductive /\ [Next]_vars =>
          [cache = "valid" => cache' = "valid" \/ faults' > faults]_vars
    BY <1>1
  <1> QED
    BY InductiveHolds, <1>2, PTL DEF Spec, ValidFileIsKept
=============================================================================
