----------------------------- MODULE Verification -----------------------------
(***************************************************************************)
(* The VerificationEngine of crates/intelligence/src/verification.rs:      *)
(* results of jobs are scheduled for verification, verified, challenged    *)
(* and disputed.  The engine has no process of its own; its operations are *)
(* the actions Jobs composes with those of the job executor.               *)
(*                                                                         *)
(* A verification result is abstracted to whether it matches.  A dispute's *)
(* id is the hash of its job, challenger and accused operator.  The        *)
(* metrics counters and timestamps are left out.                           *)
(***************************************************************************)
EXTENDS Integers, Sequences

CONSTANTS
    JobIds, Operators, Challengers, None,
    EscalationThreshold,     \* policy.escalation_threshold
    MaxQueue,                \* bound on the verification queue
    MaxChallenges            \* bound on challenge_counter

ASSUME EngineAssumption ==
    /\ EscalationThreshold \in Nat
    /\ MaxQueue \in Nat /\ MaxChallenges \in Nat
    /\ None \notin Operators

VerificationStatus == {"Pending", "Completed", "Challenged", "Escalated", "Resolved"}
VerificationJobs   == [operator_id : Operators, status : VerificationStatus,
                       result : {"matches", "differs", None}]
DisputeStatus      == {"Pending", "Resolved", "Rejected"}

\* An unknown operator (all zero bytes) is None.
DisputeIds == [job_id : JobIds, challenger_id : Challengers,
               accused : Operators \cup {None}]

ASSUME EngineNoneAssumption ==
    None \notin VerificationJobs /\ None \notin DisputeStatus

VARIABLES
    verifications,          \* the verification stored for each job, or None
    verification_queue,
    challenge_counter,      \* mismatching results per job
    disputes                \* the status of each dispute, or None

engine == <<verifications, verification_queue, challenge_counter, disputes>>

EngineInit ==
    /\ verifications = [j \in JobIds |-> None]
    /\ verification_queue = <<>>
    /\ challenge_counter = [j \in JobIds |-> 0]
    /\ disputes = [d \in DisputeIds |-> None]

\* schedule_verification, also for a job that is scheduled already: the new
\* entry replaces the old one, the queue keeps both and the counter stays.
ScheduleVerification(j, o) ==
    /\ Len(verification_queue) < MaxQueue
    /\ verifications' = [verifications EXCEPT
                           ![j] = [operator_id |-> o, status |-> "Pending",
                                   result |-> None]]
    /\ verification_queue' = Append(verification_queue, j)
    /\ UNCHANGED <<challenge_counter, disputes>>

\* next_verification: the entry keeps its status.
NextVerification ==
    /\ verification_queue # <<>>
    /\ verification_queue' = Tail(verification_queue)
    /\ UNCHANGED <<verifications, challenge_counter, disputes>>

ShouldEscalate(count) == count >= EscalationThreshold

\* complete_verification, in whatever status the entry is.  The counter grows
\* before the entry is looked up, so also when there is none.
CompleteVerification(j, matches) ==
    LET count  == challenge_counter[j] + (IF matches THEN 0 ELSE 1)
        status == IF matches THEN "Completed"
                  ELSE IF ShouldEscalate(count) THEN "Escalated"
                  ELSE "Challenged"
    IN  /\ count <= MaxChallenges
        /\ challenge_counter' = [challenge_counter EXCEPT ![j] = count]
        /\ verifications' =
             [verifications EXCEPT
                ![j] = IF verifications[j] = None THEN None
                       ELSE [operator_id |-> verifications[j].operator_id,
                             status |-> status,
                             result |-> IF matches THEN "matches" ELSE "differs"]]
        /\ UNCHANGED <<verification_queue, disputes>>

\* The verifications with the status of job j's entry, if any, replaced.
WithStatus(j, status) ==
    [verifications EXCEPT
       ![j] = IF verifications[j] = None THEN None
              ELSE [operator_id |-> verifications[j].operator_id,
                    status |-> status, result |-> verifications[j].result]]

\* create_dispute: opens a decided dispute of the same id again.
CreateDispute(j, c, accused) ==
    LET id == [job_id |-> j, challenger_id |-> c, accused |-> accused]
    IN  /\ verifications[j] # None
        /\ disputes' = [disputes EXCEPT ![id] = "Pending"]
        /\ verifications' = WithStatus(j, "Challenged")
        /\ UNCHANGED <<verification_queue, challenge_counter>>

\* resolve_dispute and reject_dispute: a decided dispute is decided again.
DecideDispute(d, decision) ==
    /\ disputes[d] # None
    /\ disputes' = [disputes EXCEPT ![d] = decision]
    /\ verifications' = WithStatus(d.job_id, "Resolved")
    /\ UNCHANGED <<verification_queue, challenge_counter>>

-----------------------------------------------------------------------------

EngineTypeOK ==
    /\ verifications \in [JobIds -> VerificationJobs \cup {None}]
    /\ verification_queue \in Seq(JobIds)
    /\ challenge_counter \in [JobIds -> 0 .. MaxChallenges]
    /\ disputes \in [DisputeIds -> DisputeStatus \cup {None}]

\* An escalated verification has earned it: its last result differs, and at
\* least escalation_threshold differing results were recorded for the job,
\* whatever disputes, decisions and new schedules came in between.
EscalationEarned ==
    \A j \in JobIds :
        verifications[j] # None /\ verifications[j].status = "Escalated" =>
            /\ verifications[j].result = "differs"
            /\ challenge_counter[j] >= EscalationThreshold

\* A verification that counts as resolved has a dispute that was decided and
\* has not been opened again.
ResolvedHasDecision ==
    \A j \in JobIds :
        verifications[j] # None /\ verifications[j].status = "Resolved" =>
            \E d \in DisputeIds : d.job_id = j /\ disputes[d] \in {"Resolved", "Rejected"}

=============================================================================
