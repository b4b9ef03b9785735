--------------------------------- MODULE Jobs ---------------------------------
(***************************************************************************)
(* The JobExecutor of crates/intelligence/src/job.rs with the verification *)
(* engine it owns.  Every operation holds the executor's write lock from   *)
(* start to end and is one action.                                         *)
(*                                                                         *)
(* A job id is the hash of client, kernel, input, budget and deadline, so  *)
(* budget and deadline are functions of the id; retries and cancellation   *)
(* policy are not part of it.  Costs are abstracted to the total fee: the  *)
(* other resources are compared in the same way.  Kernels and receipts     *)
(* decide no step and are left out; the receipt stored by submit is never  *)
(* changed.                                                                *)
(***************************************************************************)
EXTENDS Verification, FiniteSets

CONSTANTS
    MaxFee,          \* budget.max_total_fee of each job
    Deadline,        \* the deadline of each job
    Fees,            \* total fees that operators report
    Retries,         \* max_retries of tickets
    Policies,        \* cancellation policies of tickets
    Capacity,        \* capacity of the executor
    MaxBlock,        \* bound on block heights
    MaxReviews,      \* bound on the number of engine operations
    MaxAttempts      \* bound on the failures counted in attempts

ASSUME JobsAssumption ==
    /\ MaxFee \in [JobIds -> Nat] /\ Deadline \in [JobIds -> Nat]
    /\ Fees \subseteq Nat /\ Retries \subseteq Nat
    /\ Policies \subseteq {"Immediate", "AfterDeadline", "Never"}
    /\ Capacity \in Nat /\ MaxBlock \in Nat
    /\ MaxReviews \in Nat /\ MaxAttempts \in Nat

JobStatus == {"Pending", "Assigned", "Executing", "Completed", "Failed",
              "Expired", "Disputed", "Cancelled"}
JobRecords == [status : JobStatus, assigned_operator : Operators \cup {None},
               fee : Nat \cup {None},         \* of result and execution_cost
               retries_remaining : Nat, max_retries : Retries,
               cancellation_policy : Policies]

ASSUME JobsNoneAssumption == None \notin JobRecords /\ None \notin Nat

VARIABLES
    now,           \* the block height callers pass
    jobs,          \* the job stored under each id, or None
    reviews,       \* number of engine operations, for the bound
    held,          \* history: who was assigned which job
    exhausted,     \* history: jobs that ran out of retries since submission
    attempts       \* history: failed executions since submission

history == <<held, exhausted, attempts>>
vars == <<now, jobs, reviews, held, exhausted, attempts, engine>>

Init ==
    /\ EngineInit
    /\ now = 0
    /\ jobs = [j \in JobIds |-> None]
    /\ reviews = 0
    /\ held = {}
    /\ exhausted = {}
    /\ attempts = [j \in JobIds |-> 0]

\* An operation on the jobs, and one on the verification engine.
JobCall == UNCHANGED <<now, reviews, engine>>
EngineCall ==
    /\ reviews < MaxReviews
    /\ reviews' = reviews + 1
    /\ UNCHANGED <<now, jobs, history>>

Tick ==
    /\ now < MaxBlock
    /\ now' = now + 1
    /\ UNCHANGED <<jobs, reviews, history, engine>>

-----------------------------------------------------------------------------
(* Submission *)

\* Job::from_ticket: the retries come with the assignment.
FromTicket(retries, policy) ==
    [status |-> "Pending", assigned_operator |-> None, fee |-> None,
     retries_remaining |-> 0, max_retries |-> retries,
     cancellation_policy |-> policy]

Stored == {j \in JobIds : jobs[j] # None}

\* A new job under id j starts its history afresh.
Store(j, job) ==
    /\ jobs' = [jobs EXCEPT ![j] = job]
    /\ exhausted' = exhausted \ {j}
    /\ attempts' = [attempts EXCEPT ![j] = 0]
    /\ UNCHANGED held

\* JobExecutor::submit and submit_job: replaces a job with the same id,
\* whatever its status, but never at full capacity.
Submit(j, retries, policy) ==
    /\ JobCall
    /\ Cardinality(Stored) < Capacity
    /\ Store(j, FromTicket(retries, policy))

\* JobExecutorInner::submit_job: rejects duplicates, knows no capacity.
SubmitNew(j, retries, policy) ==
    /\ JobCall
    /\ jobs[j] = None
    /\ Store(j, FromTicket(retries, policy))

-----------------------------------------------------------------------------
(* The life of a job *)

\* The job with a new status.
Become(job, status) ==
    [status |-> status, assigned_operator |-> job.assigned_operator,
     fee |-> job.fee, retries_remaining |-> job.retries_remaining,
     max_retries |-> job.max_retries,
     cancellation_policy |-> job.cancellation_policy]

\* assign_job and Job::assign: every assignment restores all retries.
AssignJob(j, o) ==
    /\ JobCall
    /\ jobs[j] # None
    /\ jobs[j].status = "Pending"
    /\ jobs' = [jobs EXCEPT
                  ![j] = [status |-> "Assigned", assigned_operator |-> o,
                          fee |-> jobs[j].fee,
                          retries_remaining |-> jobs[j].max_retries,
                          max_retries |-> jobs[j].max_retries,
                          cancellation_policy |-> jobs[j].cancellation_policy]]
    /\ held' = held \cup {<<j, o>>}
    /\ UNCHANGED <<exhausted, attempts>>

Running(j) == jobs[j] # None /\ jobs[j].status \in {"Assigned", "Executing"}

\* execute_job when the kernel succeeds; when it fails nothing changes.
ExecuteJob(j) ==
    /\ JobCall
    /\ Running(j)
    /\ jobs' = [jobs EXCEPT ![j] = Become(jobs[j], "Executing")]
    /\ UNCHANGED history

\* Budget::can_cover.
CanCover(j, fee) == fee <= MaxFee[j]

\* complete_job: whoever reports the result, and after the deadline, too.
CompleteJob(j, fee) ==
    /\ JobCall
    /\ Running(j)
    /\ CanCover(j, fee)
    /\ jobs' = [jobs EXCEPT
                  ![j] = [status |-> "Completed",
                          assigned_operator |-> jobs[j].assigned_operator,
                          fee |-> fee,
                          retries_remaining |-> jobs[j].retries_remaining,
                          max_retries |-> jobs[j].max_retries,
                          cancellation_policy |-> jobs[j].cancellation_policy]]
    /\ UNCHANGED history

\* Job::fail on a job with retries left.
Failed(job) ==
    [status |-> IF job.retries_remaining = 1 THEN "Failed" ELSE "Pending",
     assigned_operator |-> None, fee |-> job.fee,
     retries_remaining |-> job.retries_remaining - 1,
     max_retries |-> job.max_retries,
     cancellation_policy |-> job.cancellation_policy]

\* fail_job in any status: a completed, expired or cancelled job with retries
\* left is pending again.  Without retries nothing happens.
FailJob(j) ==
    /\ JobCall
    /\ jobs[j] # None
    /\ jobs[j].retries_remaining > 0
    /\ attempts[j] < MaxAttempts
    /\ jobs' = [jobs EXCEPT ![j] = Failed(jobs[j])]
    /\ exhausted' = IF jobs[j].retries_remaining = 1 THEN exhausted \cup {j}
                    ELSE exhausted
    /\ attempts' = [attempts EXCEPT ![j] = attempts[j] + 1]
    /\ UNCHANGED held

IsExpiredUnlessDone(j) ==
    /\ jobs[j] # None
    /\ now > Deadline[j]
    /\ jobs[j].status # "Completed"

IsExpired(j) ==
    /\ jobs[j] # None
    /\ now > Deadline[j]
    /\ jobs[j].status \in {"Pending", "Assigned", "Executing"}

ExpireJobs ==
    /\ JobCall
    /\ \E j \in JobIds : IsExpired(j)
    /\ jobs' = [j \in JobIds |-> IF IsExpired(j) THEN Become(jobs[j], "Expired")
                                 ELSE jobs[j]]
    /\ UNCHANGED history

\* Job::cancel.
CancelJob(j) ==
    /\ JobCall
    /\ jobs[j] # None
    /\ jobs[j].cancellation_policy = "Immediate"
    /\ jobs[j].status \in {"Pending", "Assigned"}
    /\ jobs' = [jobs EXCEPT ![j] = Become(jobs[j], "Cancelled")]
    /\ UNCHANGED history

\* Job::dispute, in any status.
DisputeJob(j) ==
    /\ JobCall
    /\ jobs[j] # None
    /\ jobs' = [jobs EXCEPT ![j] = Become(jobs[j], "Disputed")]
    /\ UNCHANGED history

-----------------------------------------------------------------------------
(* Verification *)

\* JobExecutorInner::schedule_verification: the operator is the caller's word.
ScheduleJob(j, o) ==
    /\ EngineCall
    /\ jobs[j] # None
    /\ ScheduleVerification(j, o)

TriggerDisputeOnVerified(j, c) ==
    /\ EngineCall
    /\ jobs[j] # None
    /\ verifications[j] # None
    /\ CreateDispute(j, c, verifications[j].operator_id)

\* trigger_dispute: accuses whoever holds the job now, or nobody.
TriggerDispute(j, c) ==
    /\ EngineCall
    /\ jobs[j] # None
    /\ CreateDispute(j, c, jobs[j].assigned_operator)

\* The engine's other operations do not look at the jobs.
EngineStep ==
    /\ EngineCall
    /\ \/ NextVerification
       \/ \E j \in JobIds, matches \in BOOLEAN : CompleteVerification(j, matches)
       \/ \E d \in DisputeIds, decision \in {"Resolved", "Rejected"} :
             DecideDispute(d, decision)

Next ==
    \/ Tick
    \/ ExpireJobs
    \/ EngineStep
    \/ \E j \in JobIds :
          \/ \E retries \in Retries, policy \in Policies :
                \/ Submit(j, retries, policy)
                \/ SubmitNew(j, retries, policy)
          \/ \E o \in Operators : AssignJob(j, o) \/ ScheduleJob(j, o)
          \/ ExecuteJob(j)
          \/ \E fee \in Fees : CompleteJob(j, fee)
          \/ FailJob(j)
          \/ CancelJob(j)
          \/ DisputeJob(j)
          \/ \E c \in Challengers : TriggerDispute(j, c)

Spec == Init /\ [][Next]_vars

-----------------------------------------------------------------------------
(* Properties *)

\* Every field holds a value of its type: in particular retries never
\* underflow, and never exceed what the ticket allows.
TypeOK ==
    /\ EngineTypeOK
    /\ now \in 0 .. MaxBlock
    /\ jobs \in [JobIds -> JobRecords \cup {None}]
    /\ \A j \in JobIds : jobs[j] # None =>
          jobs[j].retries_remaining <= jobs[j].max_retries
    /\ reviews \in 0 .. MaxReviews
    /\ held \subseteq JobIds \X Operators
    /\ exhausted \subseteq JobIds
    /\ attempts \in [JobIds -> Nat]

\* A job that runs or is completed has an operator, one that waits or failed
\* has none, and a completed job's fee is within its budget, so that the refund
\* cannot underflow; also after failures, revivals and resubmissions.
OperatorMatchesStatus ==
    \A j \in Stored :
        /\ jobs[j].status \in {"Pending", "Failed"} => jobs[j].assigned_operator = None
        /\ jobs[j].status \in {"Assigned", "Executing", "Completed"} =>
              jobs[j].assigned_operator # None
        /\ jobs[j].status = "Completed" =>
              jobs[j].fee # None /\ jobs[j].fee <= MaxFee[j]

\* A job that ran out of retries is never handed out, expired, cancelled or
\* completed again, until it is submitted anew; only a dispute can mark it.
ExhaustedStaysFailed ==
    \A j \in exhausted :
        /\ jobs[j] # None
        /\ jobs[j].status \in {"Failed", "Disputed"}
        /\ jobs[j].assigned_operator = None

\* A dispute raised through the executor accuses nobody who never held the
\* job, although the verification may name any operator.
AccusedHeldJob ==
    \A d \in DisputeIds : disputes[d] # None /\ d.accused # None =>
        <<d.job_id, d.accused>> \in held

\* A job fails at most max_retries times before it is Failed for good: the
\* integration test exhausts three retries with three failures.
RetriesBounded ==
    \A j \in Stored : jobs[j].status # "Failed" =>
        attempts[j] <= jobs[j].max_retries
=============================================================================
