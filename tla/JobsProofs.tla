------------------------------ MODULE JobsProofs ------------------------------
(***************************************************************************)
(* Proofs about Jobs.  The invariants of jobs and of verifications are     *)
(* each about one job id; JobGood and ReviewGood strengthen them so that   *)
(* every operation preserves them, and the theorems read them off.         *)
(***************************************************************************)
EXTENDS Jobs, TLAPS

-----------------------------------------------------------------------------
(* Types *)

JobsTypeOK ==
    /\ now \in 0 .. MaxBlock
    /\ jobs \in [JobIds -> JobRecords \cup {None}]
    /\ \A j \in JobIds : jobs[j] # None =>
          jobs[j].retries_remaining <= jobs[j].max_retries
    /\ reviews \in 0 .. MaxReviews
    /\ held \subseteq JobIds \X Operators
    /\ exhausted \subseteq JobIds
    /\ attempts \in [JobIds -> Nat]

\* A record whose retries fit the ticket.
Sound(job) == job \in JobRecords /\ job.retries_remaining <= job.max_retries

\* The fields of a record.
LEMMA Fields ==
    ASSUME NEW job \in JobRecords
    PROVE  /\ job.status \in JobStatus
           /\ job.assigned_operator \in Operators \cup {None}
           /\ job.fee \in Nat \cup {None}
           /\ job.retries_remaining \in Nat
           /\ job.max_retries \in Retries /\ job.max_retries \in Nat
           /\ job.cancellation_policy \in Policies
  BY JobsAssumption DEF JobRecords

\* Storing sound records keeps the types of the executor.
LEMMA StoreSound ==
    ASSUME TypeOK, NEW j \in JobIds, NEW job, Sound(job),
           jobs' = [jobs EXCEPT ![j] = job],
           now' \in 0 .. MaxBlock, reviews' \in 0 .. MaxReviews,
           held' \subseteq JobIds \X Operators, exhausted' \subseteq JobIds,
           attempts' \in [JobIds -> Nat]
    PROVE  JobsTypeOK'
  BY DEF TypeOK, JobsTypeOK, Sound

\* What the operations store is sound.
LEMMA RecordsSound ==
    ASSUME TypeOK
    PROVE  /\ \A r \in Retries, p \in Policies : Sound(FromTicket(r, p))
           /\ \A j \in Stored : \A s \in JobStatus : Sound(Become(jobs[j], s))
           /\ \A j \in Stored : jobs[j].retries_remaining > 0 => Sound(Failed(jobs[j]))
  <1>1. \A j \in Stored : Sound(jobs[j])
    BY DEF TypeOK, Stored, Sound
  <1>2. \A r \in Retries, p \in Policies : Sound(FromTicket(r, p))
    BY JobsAssumption DEF Sound, FromTicket, JobRecords, JobStatus
  <1>3. ASSUME NEW j \in Stored, NEW s \in JobStatus
        PROVE  Sound(Become(jobs[j], s))
    BY <1>1, <1>3 DEF Sound, Become, JobRecords
  <1>4. ASSUME NEW j \in Stored, jobs[j].retries_remaining > 0
        PROVE  Sound(Failed(jobs[j]))
    <2>1. Sound(jobs[j])
      BY <1>1
    <2>2. /\ jobs[j].retries_remaining - 1 \in Nat
          /\ jobs[j].retries_remaining - 1 <= jobs[j].max_retries
      BY <1>4, <2>1, Fields DEF Sound
    <2>3. "Failed" \in JobStatus /\ "Pending" \in JobStatus
      BY DEF JobStatus
    <2>. QED  BY <2>1, <2>2, <2>3, Fields DEF Sound, Failed, JobRecords
  <1>. QED  BY <1>2, <1>3, <1>4

\* Every operation on the jobs keeps their types.
LEMMA NextJobsType == TypeOK /\ [Next]_vars => JobsTypeOK'
  <1>. SUFFICES ASSUME TypeOK, [Next]_vars  PROVE JobsTypeOK'
    OBVIOUS
  <1>0. JobsTypeOK
    BY DEF TypeOK, JobsTypeOK
  <1>1. CASE UNCHANGED vars
    BY <1>0, <1>1 DEF vars, JobsTypeOK
  <1>2. CASE Tick
    BY <1>0, <1>2, JobsAssumption DEF Tick, JobsTypeOK, history
  <1>3. CASE EngineCall
    BY <1>0, <1>3, JobsAssumption DEF EngineCall, JobsTypeOK, history
  <1>4. CASE ExpireJobs
    <2>1. \A j \in JobIds : IsExpired(j) => Sound(Become(jobs[j], "Expired"))
      BY RecordsSound DEF IsExpired, Stored, JobStatus
    <2>. QED
      BY <1>0, <1>4, <2>1 DEF ExpireJobs, JobCall, JobsTypeOK, Sound, history
  <1>5. ASSUME NEW j \in JobIds, NEW r \in Retries, NEW p \in Policies,
               Submit(j, r, p) \/ SubmitNew(j, r, p)
        PROVE  JobsTypeOK'
    <2>1. /\ jobs' = [jobs EXCEPT ![j] = FromTicket(r, p)]
          /\ exhausted' = exhausted \ {j}
          /\ attempts' = [attempts EXCEPT ![j] = 0]
          /\ UNCHANGED <<now, reviews, held>>
      BY <1>5 DEF Submit, SubmitNew, Store, JobCall
    <2>. QED  BY <1>0, <2>1, RecordsSound, StoreSound DEF JobsTypeOK
  <1>6. ASSUME NEW j \in JobIds, NEW o \in Operators, AssignJob(j, o)
        PROVE  JobsTypeOK'
    <2>. DEFINE job == [status |-> "Assigned", assigned_operator |-> o,
                        fee |-> jobs[j].fee,
                        retries_remaining |-> jobs[j].max_retries,
                        max_retries |-> jobs[j].max_retries,
                        cancellation_policy |-> jobs[j].cancellation_policy]
    <2>1. jobs[j] \in JobRecords
      BY <1>0, <1>6 DEF AssignJob, JobsTypeOK
    <2>2. Sound(job)
      BY <2>1, Fields DEF Sound, JobRecords, JobStatus
    <2>3. jobs' = [jobs EXCEPT ![j] = job]
      BY <1>6 DEF AssignJob
    <2>4. /\ held' = held \cup {<<j, o>>}
          /\ UNCHANGED <<now, reviews, exhausted, attempts>>
      BY <1>6 DEF AssignJob, JobCall
    <2>. HIDE DEF job
    <2>5. held' \subseteq JobIds \X Operators
      BY <1>0, <2>4 DEF JobsTypeOK
    <2>. QED  BY <1>0, <2>2, <2>3, <2>4, <2>5, StoreSound DEF JobsTypeOK
  <1>7. ASSUME NEW j \in JobIds, NEW fee \in Fees, CompleteJob(j, fee)
        PROVE  JobsTypeOK'
    <2>. DEFINE job == [status |-> "Completed",
                        assigned_operator |-> jobs[j].assigned_operator,
                        fee |-> fee,
                        retries_remaining |-> jobs[j].retries_remaining,
                        max_retries |-> jobs[j].max_retries,
                        cancellation_policy |-> jobs[j].cancellation_policy]
    <2>1. /\ jobs[j] \in JobRecords
          /\ jobs[j].retries_remaining <= jobs[j].max_retries
      BY <1>0, <1>7 DEF CompleteJob, Running, JobsTypeOK
    <2>2. Sound(job)
      BY <2>1, JobsAssumption DEF Sound, JobRecords, JobStatus
    <2>3. jobs' = [jobs EXCEPT ![j] = job]
      BY <1>7 DEF CompleteJob
    <2>4. UNCHANGED <<now, reviews, held, exhausted, attempts>>
      BY <1>7 DEF CompleteJob, JobCall, history
    <2>. HIDE DEF job
    <2>. QED  BY <1>0, <2>2, <2>3, <2>4, StoreSound DEF JobsTypeOK
  <1>8. ASSUME NEW j \in JobIds, FailJob(j)
        PROVE  JobsTypeOK'
    <2>1. Sound(Failed(jobs[j]))
      BY <1>8, RecordsSound DEF FailJob, Stored
    <2>2. /\ jobs' = [jobs EXCEPT ![j] = Failed(jobs[j])]
          /\ exhausted' \subseteq exhausted \cup {j}
          /\ attempts' = [attempts EXCEPT ![j] = attempts[j] + 1]
          /\ UNCHANGED <<now, reviews, held>>
      BY <1>8 DEF FailJob, JobCall
    <2>3. attempts' \in [JobIds -> Nat]
      BY <1>0, <2>2 DEF JobsTypeOK
    <2>. QED  BY <1>0, <2>1, <2>2, <2>3, StoreSound DEF JobsTypeOK
  <1>9. ASSUME NEW j \in JobIds, ExecuteJob(j) \/ CancelJob(j) \/ DisputeJob(j)
        PROVE  JobsTypeOK'
    <2>1. PICK s \in JobStatus : jobs' = [jobs EXCEPT ![j] = Become(jobs[j], s)]
      BY <1>9 DEF ExecuteJob, CancelJob, DisputeJob, JobStatus
    <2>2. j \in Stored /\ UNCHANGED <<now, reviews, held, exhausted, attempts>>
      BY <1>9 DEF ExecuteJob, CancelJob, DisputeJob, JobCall, Running, history, Stored
    <2>3. Sound(Become(jobs[j], s))
      BY <2>2, RecordsSound
    <2>. QED  BY <1>0, <2>1, <2>2, <2>3, StoreSound DEF JobsTypeOK
  <1>10. ASSUME NEW j \in JobIds, NEW o \in Operators, ScheduleJob(j, o)
         PROVE  EngineCall
    BY <1>10 DEF ScheduleJob
  <1>11. ASSUME NEW j \in JobIds, NEW c \in Challengers, TriggerDispute(j, c)
         PROVE  EngineCall
    BY <1>11 DEF TriggerDispute
  <1>12. ASSUME EngineStep  PROVE EngineCall
    BY <1>12 DEF EngineStep
  <1>. QED
    BY <1>1, <1>2, <1>3, <1>4, <1>5, <1>6, <1>7, <1>8, <1>9, <1>10, <1>11, <1>12
    DEF Next

\* What a step does to the verification engine; nobody is ever taken out of
\* held.
LEMMA EngineSteps ==
    ASSUME [Next]_vars
    PROVE  /\ held \subseteq held'
           /\ \/ UNCHANGED engine
              \/ \E j \in JobIds, o \in Operators : ScheduleVerification(j, o)
              \/ NextVerification
              \/ \E j \in JobIds, m \in BOOLEAN : CompleteVerification(j, m)
              \/ \E j \in JobIds, c \in Challengers :
                    jobs[j] # None /\ CreateDispute(j, c, jobs[j].assigned_operator)
              \/ \E d \in DisputeIds, decision \in {"Resolved", "Rejected"} :
                    DecideDispute(d, decision)
  <1>1. CASE JobCall \/ Tick \/ UNCHANGED vars
    <2>1. UNCHANGED engine
      BY <1>1 DEF JobCall, Tick, vars
    <2>2. held \subseteq held'
      BY <1>1 DEF Next, Tick, ExpireJobs, EngineStep, Submit, SubmitNew, Store,
                  AssignJob, ScheduleJob, ExecuteJob, CompleteJob, FailJob,
                  CancelJob, DisputeJob, TriggerDispute, EngineCall, history, vars
    <2>. QED  BY <2>1, <2>2
  <1>2. CASE EngineStep
    BY <1>2 DEF EngineStep, EngineCall, history
  <1>3. ASSUME NEW j \in JobIds, NEW o \in Operators, ScheduleJob(j, o)
        PROVE  held' = held /\ ScheduleVerification(j, o)
    BY <1>3 DEF ScheduleJob, EngineCall, history
  <1>4. ASSUME NEW j \in JobIds, NEW c \in Challengers, TriggerDispute(j, c)
        PROVE  /\ held' = held
               /\ jobs[j] # None
               /\ CreateDispute(j, c, jobs[j].assigned_operator)
    BY <1>4 DEF TriggerDispute, EngineCall, history
  <1>. QED
    BY <1>1, <1>2, <1>3, <1>4 DEF Next, ExpireJobs, Submit, SubmitNew,
       AssignJob, ExecuteJob, CompleteJob, FailJob, CancelJob, DisputeJob

\* The engine's operations keep its types.
LEMMA NextEngineType == TypeOK /\ [Next]_vars => EngineTypeOK'
  <1>. SUFFICES ASSUME TypeOK, [Next]_vars  PROVE EngineTypeOK'
    OBVIOUS
  <1>0. EngineTypeOK
    BY DEF TypeOK
  <1>1. CASE UNCHANGED engine
    BY <1>0, <1>1 DEF engine, EngineTypeOK
  <1>2. ASSUME NEW j \in JobIds, NEW o \in Operators, ScheduleVerification(j, o)
        PROVE  EngineTypeOK'
    BY <1>0, <1>2 DEF ScheduleVerification, EngineTypeOK, VerificationJobs,
                      VerificationStatus
  <1>3. CASE NextVerification
    BY <1>0, <1>3 DEF NextVerification, EngineTypeOK
  <1>4. ASSUME NEW j \in JobIds, NEW status \in VerificationStatus,
               NEW result \in {"matches", "differs", None},
               verifications[j] # None
        PROVE  [operator_id |-> verifications[j].operator_id,
                status |-> status, result |-> result] \in VerificationJobs
    BY <1>0, <1>4 DEF EngineTypeOK, VerificationJobs
  <1>5. ASSUME NEW j \in JobIds, NEW m \in BOOLEAN, CompleteVerification(j, m)
        PROVE  EngineTypeOK'
    <2>. DEFINE count  == challenge_counter[j] + (IF m THEN 0 ELSE 1)
                status == IF m THEN "Completed"
                          ELSE IF ShouldEscalate(count) THEN "Escalated"
                          ELSE "Challenged"
                result == IF m THEN "matches" ELSE "differs"
    <2>1. count \in 0 .. MaxChallenges
      BY <1>0, <1>5, EngineAssumption DEF CompleteVerification, EngineTypeOK
    <2>2. status \in VerificationStatus /\ result \in {"matches", "differs", None}
      BY DEF VerificationStatus
    <2>3. /\ challenge_counter' = [challenge_counter EXCEPT ![j] = count]
          /\ verifications' =
               [verifications EXCEPT
                  ![j] = IF verifications[j] = None THEN None
                         ELSE [operator_id |-> verifications[j].operator_id,
                               status |-> status, result |-> result]]
          /\ UNCHANGED <<verification_queue, disputes>>
      BY <1>5, Zenon DEF CompleteVerification
    <2>. HIDE DEF count, status, result
    <2>4. verifications' \in [JobIds -> VerificationJobs \cup {None}]
      BY <1>0, <1>4, <2>2, <2>3 DEF EngineTypeOK
    <2>5. challenge_counter' \in [JobIds -> 0 .. MaxChallenges]
      BY <1>0, <2>1, <2>3 DEF EngineTypeOK
    <2>. QED  BY <1>0, <2>3, <2>4, <2>5 DEF EngineTypeOK
  <1>6. ASSUME NEW j \in JobIds, NEW status \in VerificationStatus
        PROVE  WithStatus(j, status) \in [JobIds -> VerificationJobs \cup {None}]
    <2>1. verifications[j] # None =>
            verifications[j].result \in {"matches", "differs", None}
      BY <1>0 DEF EngineTypeOK, VerificationJobs
    <2>. QED  BY <1>0, <1>4, <2>1 DEF EngineTypeOK, WithStatus
  <1>7. ASSUME NEW j \in JobIds, NEW c \in Challengers, jobs[j] # None,
               CreateDispute(j, c, jobs[j].assigned_operator)
        PROVE  EngineTypeOK'
    <2>1. verifications' = WithStatus(j, "Challenged")
      BY <1>7 DEF CreateDispute
    <2>2. disputes' \in [DisputeIds -> DisputeStatus \cup {None}]
      BY <1>0, <1>7 DEF CreateDispute, EngineTypeOK, DisputeStatus
    <2>. QED
      BY <1>0, <1>6, <1>7, <2>1, <2>2
      DEF CreateDispute, EngineTypeOK, VerificationStatus
  <1>8. ASSUME NEW d \in DisputeIds, NEW decision \in {"Resolved", "Rejected"},
               DecideDispute(d, decision)
        PROVE  EngineTypeOK'
    <2>1. d.job_id \in JobIds
      BY DEF DisputeIds
    <2>2. verifications' = WithStatus(d.job_id, "Resolved")
      BY <1>8 DEF DecideDispute
    <2>3. disputes' \in [DisputeIds -> DisputeStatus \cup {None}]
      BY <1>0, <1>8 DEF DecideDispute, EngineTypeOK, DisputeStatus
    <2>. QED
      BY <1>0, <1>6, <1>8, <2>1, <2>2, <2>3
      DEF DecideDispute, EngineTypeOK, VerificationStatus
  <1>. QED  BY <1>1, <1>2, <1>3, <1>5, <1>7, <1>8, EngineSteps

\* The executor is well typed at the start.
LEMMA InitType == Init => TypeOK
  BY JobsAssumption, EngineAssumption
  DEF Init, EngineInit, TypeOK, EngineTypeOK

\* Every field of executor and engine keeps its type; retries never underflow
\* and never exceed the ticket's.
THEOREM TypeCorrect == Spec => []TypeOK
  <1>1. TypeOK /\ [Next]_vars => TypeOK'
    BY NextJobsType, NextEngineType DEF TypeOK, JobsTypeOK
  <1>. QED  BY <1>1, InitType, PTL DEF Spec

-----------------------------------------------------------------------------
(* Jobs *)

\* A record, by itself, as OperatorMatchesStatus wants it, and its operator
\* among those that held the job.
GoodRecord(j, job, h) ==
    /\ job.status \in {"Pending", "Failed"} => job.assigned_operator = None
    /\ job.status \in {"Assigned", "Executing", "Completed"} =>
          job.assigned_operator # None
    /\ job.status = "Completed" => job.fee # None /\ job.fee <= MaxFee[j]
    /\ job.assigned_operator # None => <<j, job.assigned_operator>> \in h

\* A record that has run out of retries.
Spent(job) ==
    /\ job.status \in {"Failed", "Disputed"}
    /\ job.assigned_operator = None
    /\ job.retries_remaining = 0

JobGood(j) ==
    /\ jobs[j] # None => GoodRecord(j, jobs[j], held)
    /\ j \in exhausted => jobs[j] # None /\ Spent(jobs[j])

\* A step that stores one record keeps the other jobs good.
LEMMA StoreGood ==
    ASSUME TypeOK, NEW j \in JobIds, NEW job, NEW k \in JobIds, JobGood(k),
           jobs' = [jobs EXCEPT ![j] = job], held \subseteq held',
           exhausted' \ {j} = exhausted \ {j},
           k = j => GoodRecord(j, job, held'),
           k = j /\ j \in exhausted' => job # None /\ Spent(job)
    PROVE  JobGood(k)'
  <1>1. CASE k = j
    <2>1. jobs'[k] = job
      BY <1>1 DEF TypeOK
    <2>. QED  BY <1>1, <2>1 DEF JobGood
  <1>2. CASE k # j
    <2>1. jobs'[k] = jobs[k] /\ (k \in exhausted' <=> k \in exhausted)
      BY <1>2 DEF TypeOK
    <2>. QED  BY <2>1 DEF JobGood, GoodRecord
  <1>. QED  BY <1>1, <1>2

\* Every operation keeps every job good.
LEMMA NextJobGood ==
    ASSUME TypeOK, [Next]_vars, \A i \in JobIds : JobGood(i), NEW k \in JobIds
    PROVE  JobGood(k)'
  <1>0. JobGood(k)
    OBVIOUS
  <1>1. CASE UNCHANGED <<jobs, held, exhausted>>
    BY <1>0, <1>1 DEF JobGood
  <1>2. ASSUME NEW j \in JobIds, NEW r \in Retries, NEW p \in Policies,
               Submit(j, r, p) \/ SubmitNew(j, r, p)
        PROVE  JobGood(k)'
    <2>1. /\ jobs' = [jobs EXCEPT ![j] = FromTicket(r, p)]
          /\ exhausted' = exhausted \ {j}
          /\ held' = held
      BY <1>2 DEF Submit, SubmitNew, Store
    <2>2. GoodRecord(j, FromTicket(r, p), held')
      BY DEF GoodRecord, FromTicket
    <2>. QED  BY <1>0, <2>1, <2>2, StoreGood
  <1>3. ASSUME NEW j \in JobIds, NEW o \in Operators, AssignJob(j, o)
        PROVE  JobGood(k)'
    <2>. DEFINE job == [status |-> "Assigned", assigned_operator |-> o,
                        fee |-> jobs[j].fee,
                        retries_remaining |-> jobs[j].max_retries,
                        max_retries |-> jobs[j].max_retries,
                        cancellation_policy |-> jobs[j].cancellation_policy]
    <2>1. /\ jobs' = [jobs EXCEPT ![j] = job]
          /\ held' = held \cup {<<j, o>>}
          /\ exhausted' = exhausted
      BY <1>3 DEF AssignJob
    <2>2. GoodRecord(j, job, held')
      BY <2>1, EngineAssumption DEF GoodRecord
    <2>3. j \notin exhausted
      BY <1>3 DEF AssignJob, JobGood, Spent
    <2>. HIDE DEF job
    <2>. QED  BY <1>0, <2>1, <2>2, <2>3, StoreGood
  <1>4. ASSUME NEW j \in JobIds, NEW fee \in Fees, CompleteJob(j, fee)
        PROVE  JobGood(k)'
    <2>. DEFINE job == [status |-> "Completed",
                        assigned_operator |-> jobs[j].assigned_operator,
                        fee |-> fee,
                        retries_remaining |-> jobs[j].retries_remaining,
                        max_retries |-> jobs[j].max_retries,
                        cancellation_policy |-> jobs[j].cancellation_policy]
    <2>1. /\ jobs' = [jobs EXCEPT ![j] = job]
          /\ UNCHANGED <<held, exhausted>>
      BY <1>4 DEF CompleteJob, history
    <2>2. GoodRecord(j, jobs[j], held) /\ Running(j) /\ fee <= MaxFee[j]
      BY <1>4 DEF CompleteJob, CanCover, Running, JobGood
    <2>3. fee # None
      BY JobsAssumption, JobsNoneAssumption
    <2>4. GoodRecord(j, job, held')
      BY <2>1, <2>2, <2>3 DEF GoodRecord, Running
    <2>5. j \notin exhausted
      BY <2>2 DEF Running, JobGood, Spent
    <2>. HIDE DEF job
    <2>. QED  BY <1>0, <2>1, <2>4, <2>5, StoreGood
  <1>5. ASSUME NEW j \in JobIds, FailJob(j)
        PROVE  JobGood(k)'
    <2>1. /\ jobs[j] # None /\ jobs[j].retries_remaining > 0
          /\ jobs' = [jobs EXCEPT ![j] = Failed(jobs[j])]
          /\ exhausted' = IF jobs[j].retries_remaining = 1 THEN exhausted \cup {j}
                          ELSE exhausted
          /\ held' = held
      BY <1>5 DEF FailJob
    <2>2. GoodRecord(j, Failed(jobs[j]), held')
      BY DEF GoodRecord, Failed
    <2>3. j \notin exhausted
      BY <2>1 DEF JobGood, Spent
    <2>4. j \in exhausted' => Spent(Failed(jobs[j]))
      BY <2>1, <2>3 DEF Spent, Failed
    <2>5. Failed(jobs[j]) # None
      BY <2>1, RecordsSound, JobsNoneAssumption DEF Stored, Sound
    <2>. QED  BY <1>0, <2>1, <2>2, <2>4, <2>5, StoreGood
  <1>6. ASSUME NEW j \in Stored, NEW s \in JobStatus,
               GoodRecord(j, Become(jobs[j], s), held),
               j \in exhausted => s = "Disputed"
        PROVE  /\ Become(jobs[j], s) # None
               /\ j \in exhausted => Spent(Become(jobs[j], s))
    <2>1. Become(jobs[j], s) # None
      BY RecordsSound, JobsNoneAssumption DEF Sound
    <2>2. j \in exhausted => Spent(Become(jobs[j], s))
      BY <1>6 DEF JobGood, Spent, Become, Stored
    <2>. QED  BY <2>1, <2>2
  <1>7. ASSUME NEW j \in JobIds, ExecuteJob(j) \/ CancelJob(j) \/ DisputeJob(j)
        PROVE  JobGood(k)'
    <2>1. j \in Stored /\ GoodRecord(j, jobs[j], held)
      BY <1>7 DEF ExecuteJob, CancelJob, DisputeJob, Running, Stored, JobGood
    <2>2. UNCHANGED <<held, exhausted>>
      BY <1>7 DEF ExecuteJob, CancelJob, DisputeJob, history
    <2>3. PICK s \in {"Executing", "Cancelled", "Disputed"} :
             /\ jobs' = [jobs EXCEPT ![j] = Become(jobs[j], s)]
             /\ s = "Executing" => Running(j)
             /\ s = "Cancelled" => jobs[j].status \in {"Pending", "Assigned"}
      BY <1>7 DEF ExecuteJob, CancelJob, DisputeJob
    <2>4. j \in exhausted => s = "Disputed"
      BY <2>3 DEF JobGood, Spent, Running
    <2>5. GoodRecord(j, Become(jobs[j], s), held)
      BY <2>1, <2>3 DEF GoodRecord, Become, Running
    <2>6. s \in JobStatus
      BY DEF JobStatus
    <2>. QED  BY <1>0, <1>6, <2>1, <2>2, <2>3, <2>4, <2>5, <2>6, StoreGood
  <1>8. CASE ExpireJobs
    <2>1. /\ jobs'[k] = IF IsExpired(k) THEN Become(jobs[k], "Expired") ELSE jobs[k]
          /\ UNCHANGED <<held, exhausted>>
      BY <1>8 DEF ExpireJobs, history
    <2>2. CASE IsExpired(k)
      <3>1. k \notin exhausted
        BY <1>0, <2>2 DEF IsExpired, JobGood, Spent
      <3>2. GoodRecord(k, Become(jobs[k], "Expired"), held)
        BY <1>0, <2>2 DEF IsExpired, JobGood, GoodRecord, Become
      <3>. QED  BY <2>1, <2>2, <3>1, <3>2 DEF JobGood
    <2>3. CASE ~IsExpired(k)
      BY <1>0, <2>1, <2>3 DEF JobGood
    <2>. QED  BY <2>2, <2>3
  <1>9. CASE EngineCall \/ Tick \/ UNCHANGED vars
    BY <1>1, <1>9 DEF EngineCall, Tick, vars, history
  <1>. QED
    BY <1>2, <1>3, <1>4, <1>5, <1>7, <1>8, <1>9
    DEF Next, EngineStep, ScheduleJob, TriggerDispute

\* All jobs are good, always.
LEMMA JobsInvariant == Spec => [](TypeOK /\ \A j \in JobIds : JobGood(j))
  <1>1. Init => \A j \in JobIds : JobGood(j)
    BY DEF Init, JobGood
  <1>2. TypeOK /\ (\A j \in JobIds : JobGood(j)) /\ [Next]_vars
          => (\A j \in JobIds : JobGood(j))'
    BY NextJobGood
  <1>. QED  BY <1>1, <1>2, TypeCorrect, PTL DEF Spec

\* Operators and fees match the status of the job through every sequence of
\* failures, revivals and resubmissions.
THEOREM OperatorsMatchStatus == Spec => []OperatorMatchesStatus
  <1>1. (\A j \in JobIds : JobGood(j)) => OperatorMatchesStatus
    BY DEF JobGood, GoodRecord, OperatorMatchesStatus, Stored
  <1>. QED  BY <1>1, JobsInvariant, PTL

\* A job that ran out of retries never runs again unless it is resubmitted.
THEOREM ExhaustedJobsStayFailed == Spec => []ExhaustedStaysFailed
  <1>1. TypeOK /\ (\A j \in JobIds : JobGood(j)) => ExhaustedStaysFailed
    BY DEF JobGood, Spent, ExhaustedStaysFailed, TypeOK
  <1>. QED  BY <1>1, JobsInvariant, PTL

-----------------------------------------------------------------------------
(* Verifications and disputes *)

\* EscalationEarned for one job.
Earned(j) ==
    verifications[j] # None /\ verifications[j].status = "Escalated" =>
        /\ verifications[j].result = "differs"
        /\ challenge_counter[j] >= EscalationThreshold

\* Every operation of the engine keeps escalations earned.
LEMMA NextEarned ==
    ASSUME TypeOK, [Next]_vars, NEW k \in JobIds, Earned(k)
    PROVE  Earned(k)'
  <1>0. EngineTypeOK
    BY DEF TypeOK
  <1>1. CASE UNCHANGED <<verifications, challenge_counter>>
    BY <1>1 DEF Earned
  <1>2. ASSUME NEW j \in JobIds, NEW o \in Operators, ScheduleVerification(j, o)
        PROVE  Earned(k)'
    BY <1>0, <1>2 DEF ScheduleVerification, EngineTypeOK, Earned
  <1>3. ASSUME NEW j \in JobIds, NEW m \in BOOLEAN, CompleteVerification(j, m)
        PROVE  Earned(k)'
    <2>. DEFINE count  == challenge_counter[j] + (IF m THEN 0 ELSE 1)
                status == IF m THEN "Completed"
                          ELSE IF ShouldEscalate(count) THEN "Escalated"
                          ELSE "Challenged"
                result == IF m THEN "matches" ELSE "differs"
    <2>1. status = "Escalated" => result = "differs" /\ count >= EscalationThreshold
      BY DEF ShouldEscalate
    <2>2. /\ challenge_counter' = [challenge_counter EXCEPT ![j] = count]
          /\ verifications' =
               [verifications EXCEPT
                  ![j] = IF verifications[j] = None THEN None
                         ELSE [operator_id |-> verifications[j].operator_id,
                               status |-> status, result |-> result]]
      BY <1>3, Zenon DEF CompleteVerification
    <2>. HIDE DEF count, status, result
    <2>. QED  BY <1>0, <2>1, <2>2 DEF EngineTypeOK, Earned
  <1>4. ASSUME NEW j \in JobIds, NEW status \in {"Challenged", "Resolved"},
               verifications' = WithStatus(j, status),
               challenge_counter' = challenge_counter
        PROVE  Earned(k)'
    BY <1>0, <1>4 DEF EngineTypeOK, WithStatus, Earned
  <1>5. ASSUME NEW j \in JobIds, NEW c \in Challengers, NEW o, CreateDispute(j, c, o)
        PROVE  Earned(k)'
    <2>1. /\ verifications' = WithStatus(j, "Challenged")
          /\ challenge_counter' = challenge_counter
      BY <1>5 DEF CreateDispute
    <2>. QED  BY <1>4, <2>1
  <1>6. ASSUME NEW d \in DisputeIds, NEW decision, DecideDispute(d, decision)
        PROVE  Earned(k)'
    <2>1. /\ verifications' = WithStatus(d.job_id, "Resolved")
          /\ challenge_counter' = challenge_counter
          /\ d.job_id \in JobIds
      BY <1>6 DEF DecideDispute, DisputeIds
    <2>. QED  BY <1>4, <2>1
  <1>. QED
    BY <1>1, <1>2, <1>3, <1>5, <1>6, EngineSteps DEF engine, NextVerification

\* No verification is escalated before escalation_threshold differing results.
THEOREM EscalationsEarned == Spec => []EscalationEarned
  <1>1. Init => EscalationEarned
    BY DEF Init, EngineInit, EscalationEarned
  <1>2. TypeOK /\ EscalationEarned /\ [Next]_vars => EscalationEarned'
    <2>. SUFFICES ASSUME TypeOK, EscalationEarned, [Next]_vars, NEW k \in JobIds
                  PROVE  Earned(k)'
      BY DEF EscalationEarned, Earned
    <2>1. Earned(k)
      BY DEF EscalationEarned, Earned
    <2>. QED  BY <2>1, NextEarned
  <1>. QED  BY <1>1, <1>2, TypeCorrect, PTL DEF Spec

\* ResolvedHasDecision for one job.
Decided(j) ==
    verifications[j] # None /\ verifications[j].status = "Resolved" =>
        \E d \in DisputeIds : d.job_id = j /\ disputes[d] \in {"Resolved", "Rejected"}

\* Every operation of the engine keeps resolved verifications decided.
LEMMA NextDecided ==
    ASSUME TypeOK, [Next]_vars, NEW k \in JobIds, Decided(k)
    PROVE  Decided(k)'
  <1>0. EngineTypeOK
    BY DEF TypeOK
  <1>1. ASSUME disputes' = disputes, verifications'[k] = verifications[k]
        PROVE  Decided(k)'
    BY <1>1 DEF Decided
  <1>2. ASSUME NEW j \in JobIds, NEW o \in Operators, ScheduleVerification(j, o)
        PROVE  Decided(k)'
    BY <1>0, <1>2 DEF ScheduleVerification, EngineTypeOK, Decided
  <1>3. ASSUME NEW j \in JobIds, NEW m \in BOOLEAN, CompleteVerification(j, m)
        PROVE  Decided(k)'
    <2>. DEFINE count  == challenge_counter[j] + (IF m THEN 0 ELSE 1)
                status == IF m THEN "Completed"
                          ELSE IF ShouldEscalate(count) THEN "Escalated"
                          ELSE "Challenged"
                result == IF m THEN "matches" ELSE "differs"
    <2>1. status # "Resolved"
      OBVIOUS
    <2>2. /\ disputes' = disputes
          /\ verifications' =
               [verifications EXCEPT
                  ![j] = IF verifications[j] = None THEN None
                         ELSE [operator_id |-> verifications[j].operator_id,
                               status |-> status, result |-> result]]
      BY <1>3, Zenon DEF CompleteVerification
    <2>. HIDE DEF count, status, result
    <2>. QED  BY <1>0, <2>1, <2>2 DEF EngineTypeOK, Decided
  <1>4. ASSUME NEW j \in JobIds, NEW c \in Challengers, jobs[j] # None,
               CreateDispute(j, c, jobs[j].assigned_operator)
        PROVE  Decided(k)'
    <2>. DEFINE id == [job_id |-> j, challenger_id |-> c,
                       accused |-> jobs[j].assigned_operator]
    <2>1. /\ verifications' = WithStatus(j, "Challenged")
          /\ disputes' = [disputes EXCEPT ![id] = "Pending"]
          /\ id.job_id = j
      BY <1>4 DEF CreateDispute
    <2>. HIDE DEF id
    <2>2. CASE k = j
      BY <1>0, <2>1, <2>2 DEF WithStatus, EngineTypeOK, Decided
    <2>3. CASE k # j
      <3>1. verifications'[k] = verifications[k]
        BY <1>0, <2>1, <2>3 DEF WithStatus, EngineTypeOK
      <3>2. \A d \in DisputeIds : d.job_id = k => disputes'[d] = disputes[d]
        BY <1>0, <2>1, <2>3 DEF EngineTypeOK
      <3>. QED  BY <3>1, <3>2 DEF Decided
    <2>. QED  BY <2>2, <2>3
  <1>5. ASSUME NEW d \in DisputeIds, NEW decision \in {"Resolved", "Rejected"},
               DecideDispute(d, decision)
        PROVE  Decided(k)'
    <2>1. /\ verifications' = WithStatus(d.job_id, "Resolved")
          /\ disputes' = [disputes EXCEPT ![d] = decision]
          /\ d.job_id \in JobIds
      BY <1>5 DEF DecideDispute, DisputeIds
    <2>2. disputes'[d] \in {"Resolved", "Rejected"}
      BY <1>0, <2>1 DEF EngineTypeOK
    <2>3. CASE k = d.job_id
      BY <2>2, <2>3 DEF Decided
    <2>4. CASE k # d.job_id
      <3>1. verifications'[k] = verifications[k]
        BY <1>0, <2>1, <2>4 DEF WithStatus, EngineTypeOK
      <3>2. \A e \in DisputeIds : e.job_id = k => disputes'[e] = disputes[e]
        BY <1>0, <2>1, <2>4 DEF EngineTypeOK
      <3>. QED  BY <3>1, <3>2 DEF Decided
    <2>. QED  BY <2>3, <2>4
  <1>. QED
    BY <1>1, <1>2, <1>3, <1>4, <1>5, EngineSteps DEF engine, NextVerification

\* A resolved verification rests on a dispute that stands decided.
THEOREM ResolvedAreDecided == Spec => []ResolvedHasDecision
  <1>1. Init => ResolvedHasDecision
    BY DEF Init, EngineInit, ResolvedHasDecision
  <1>2. TypeOK /\ ResolvedHasDecision /\ [Next]_vars => ResolvedHasDecision'
    <2>. SUFFICES ASSUME TypeOK, ResolvedHasDecision, [Next]_vars, NEW k \in JobIds
                  PROVE  Decided(k)'
      BY DEF ResolvedHasDecision, Decided
    <2>1. Decided(k)
      BY DEF ResolvedHasDecision, Decided
    <2>. QED  BY <2>1, NextDecided
  <1>. QED  BY <1>1, <1>2, TypeCorrect, PTL DEF Spec

\* The executor only ever accuses operators that held the job.
THEOREM AccusedHeldTheJob == Spec => []AccusedHeldJob
  <1>1. Init => AccusedHeldJob
    BY DEF Init, EngineInit, AccusedHeldJob
  <1>2. TypeOK /\ (\A j \in JobIds : JobGood(j)) /\ AccusedHeldJob /\ [Next]_vars
          => AccusedHeldJob'
    <2>. SUFFICES ASSUME TypeOK, \A j \in JobIds : JobGood(j), AccusedHeldJob,
                         [Next]_vars, NEW d \in DisputeIds,
                         disputes'[d] # None, d.accused # None
                  PROVE  <<d.job_id, d.accused>> \in held'
      BY DEF AccusedHeldJob
    <2>0. EngineTypeOK /\ held \subseteq held'
      BY EngineSteps DEF TypeOK
    <2>1. ASSUME disputes[d] # None
          PROVE  <<d.job_id, d.accused>> \in held'
      BY <2>0, <2>1 DEF AccusedHeldJob
    <2>2. CASE disputes' = disputes
      BY <2>1, <2>2
    <2>3. ASSUME NEW e \in DisputeIds, NEW decision, DecideDispute(e, decision)
          PROVE  <<d.job_id, d.accused>> \in held'
      BY <2>0, <2>1, <2>3 DEF DecideDispute, EngineTypeOK
    <2>4. ASSUME NEW j \in JobIds, NEW c \in Challengers, jobs[j] # None,
                 CreateDispute(j, c, jobs[j].assigned_operator)
          PROVE  <<d.job_id, d.accused>> \in held'
      <3>. DEFINE id == [job_id |-> j, challenger_id |-> c,
                         accused |-> jobs[j].assigned_operator]
      <3>1. /\ disputes' = [disputes EXCEPT ![id] = "Pending"]
            /\ id.job_id = j /\ id.accused = jobs[j].assigned_operator
        BY <2>4 DEF CreateDispute
      <3>. HIDE DEF id
      <3>2. CASE d = id
        BY <2>0, <2>4, <3>1, <3>2 DEF JobGood, GoodRecord
      <3>3. CASE d # id
        BY <2>0, <2>1, <3>1, <3>3 DEF EngineTypeOK
      <3>. QED  BY <3>2, <3>3
    <2>. QED
      BY <2>2, <2>3, <2>4, EngineSteps
      DEF engine, NextVerification, ScheduleVerification, CompleteVerification
  <1>. QED  BY <1>1, <1>2, JobsInvariant, PTL DEF Spec

=============================================================================
