------------------------------- MODULE SdkClient -------------------------------
(***************************************************************************)
(* The client library, crates/sdk/src/client.rs, over a network that loses *)
(* and delays requests and replies.  A call sends one request; whatever    *)
(* keeps its reply from coming (a lost request or reply, an error, the 30  *)
(* second timeout) the caller is given an answer made up by the client.    *)
(* The timeout takes nothing back: a request that the client has given up  *)
(* may still be served.  max_retries is not read, and nothing ever stores  *)
(* a rate limit, so that check_rate_limit refuses no call.                 *)
(*                                                                         *)
(* A job of the network is the number of its place in `jobs`; the id that  *)
(* the client makes up is a hash of the job and the time.  The network     *)
(* and the transport are external.                                         *)
(***************************************************************************)
EXTENDS Integers, Sequences, FiniteSets

CONSTANTS
    LocalId,            \* a job id the client made up
    MaxClientCalls      \* bound: calls made

ASSUME SdkAssumption == MaxClientCalls \in Nat

LocalCalls == {"submit_job", "get_job", "cancel_job", "get_receipt", "apply_rpack_delta",
               "list_jobs", "query_receipts", "get_artifact", "list_artifacts",
               "get_network_status", "get_node_info"}
CallsOfAJob == {"get_job", "cancel_job", "get_receipt"}

VARIABLES
    connected,
    calls,              \* number of calls made
    waiting,            \* requests whose reply the client waits for
    wire,               \* requests on their way to the network
    replies,            \* replies on their way back
    jobs,               \* the network's jobs: the call they came with, status
    told                \* answers given to callers

sdk_vars == <<connected, calls, waiting, wire, replies, jobs, told>>

SdkInit ==
    /\ connected = FALSE
    /\ calls = 0
    /\ waiting = {} /\ wire = {} /\ replies = {}
    /\ jobs = <<>>
    /\ told = {}

\* connect and disconnect borrow the client exclusively: no call is under way.
OpenClient ==
    /\ waiting = {}
    /\ connected' = TRUE
    /\ UNCHANGED <<calls, waiting, wire, replies, jobs, told>>

CloseClient ==
    /\ waiting = {}
    /\ connected' = FALSE
    /\ UNCHANGED <<calls, waiting, wire, replies, jobs, told>>

\* Job ids a caller can ask about.
KnownIds == {a.job : a \in {b \in told : b.op = "submit_job"}}

\* A call on a client that is not connected is refused and changes nothing.
Request(op, job) ==
    /\ connected
    /\ calls < MaxClientCalls
    /\ calls' = calls + 1
    /\ LET r == [call |-> calls + 1, op |-> op, job |-> job, attempt |-> 0]
       IN  waiting' = waiting \cup {r} /\ wire' = wire \cup {r}
    /\ UNCHANGED <<connected, replies, jobs, told>>

SubmitJobAsync == Request("submit_job", LocalId)
GetJobAsync(job) == Request("get_job", job)
VerifyReceiptAsync(job) == Request("verify_receipt", job)
GetNetworkStatusAsync == Request("get_network_status", LocalId)

\* The network serves a request: it makes a job of a submission, and has a
\* job's status or none for the other calls.
Serve(r) ==
    LET made == IF r.op = "submit_job" THEN Append(jobs, [call |-> r.call, status |-> "Pending"])
                ELSE jobs
        job == IF r.op = "submit_job" THEN Len(made) ELSE r.job
        status == IF job \in DOMAIN made THEN made[job].status ELSE "error"
    IN  /\ r \in wire
        /\ wire' = wire \ {r}
        /\ jobs' = made
        /\ replies' = replies \cup {[call |-> r.call, job |-> job, status |-> status]}
        /\ UNCHANGED <<connected, calls, waiting, told>>

JobDone(j) ==
    /\ jobs[j].status = "Pending"
    /\ jobs' = [jobs EXCEPT ![j].status = "Completed"]
    /\ UNCHANGED <<connected, calls, waiting, wire, replies, told>>

LoseRequest(r) ==
    /\ r \in wire
    /\ wire' = wire \ {r}
    /\ UNCHANGED <<connected, calls, waiting, replies, jobs, told>>

LoseReply(p) ==
    /\ p \in replies
    /\ replies' = replies \ {p}
    /\ UNCHANGED <<connected, calls, waiting, wire, jobs, told>>

Answer(r, job, status) ==
    /\ waiting' = waiting \ {r}
    /\ told' = told \cup {[op |-> r.op, job |-> job, status |-> status]}

\* A reply with a result is the call's answer.
Receive(r, p) ==
    /\ r \in waiting /\ p \in replies /\ p.call = r.call /\ p.status # "error"
    /\ replies' = replies \ {p}
    /\ Answer(r, p.job, p.status)
    /\ UNCHANGED <<connected, calls, wire, jobs>>

\* What a call is answered without the network.
MadeUp(op) ==
    CASE op = "submit_job" -> "Pending"
      [] op = "get_job" -> "Completed"
      [] op \in {"verify_receipt", "get_receipt"} -> "Verified"
      [] op = "cancel_job" -> "cancelled"
      [] op = "apply_rpack_delta" -> "applied"
      [] OTHER -> "fixed data"

RetriesOnce(r) == IF r.attempt = 0 THEN {[r EXCEPT !.attempt = 1]} ELSE {}
\* Requests sent again when a call fails.
Retries(r) == {}

\* The call fails, by an error reply or by the timeout, and falls back.
FallBack(r) ==
    /\ r \in waiting
    /\ Answer(r, r.job, MadeUp(r.op))
    /\ replies' = {p \in replies : p.call # r.call}
    /\ wire' = wire \cup Retries(r)
    /\ UNCHANGED <<connected, calls, jobs>>

\* The calls without async send nothing: they are answered as a failed call is.
LocalCall(op, job) ==
    /\ connected
    /\ calls < MaxClientCalls
    /\ op \notin CallsOfAJob => job = LocalId
    /\ calls' = calls + 1
    /\ told' = told \cup {[op |-> op, job |-> job, status |-> MadeUp(op)]}
    /\ UNCHANGED <<connected, waiting, wire, replies, jobs>>

SdkNext ==
    \/ OpenClient
    \/ CloseClient
    \/ SubmitJobAsync
    \/ \E j \in KnownIds : GetJobAsync(j)
    \/ \E j \in KnownIds : VerifyReceiptAsync(j)
    \/ GetNetworkStatusAsync
    \/ \E r \in wire : Serve(r)
    \/ \E j \in DOMAIN jobs : JobDone(j)
    \/ \E r \in wire : LoseRequest(r)
    \/ \E p \in replies : LoseReply(p)
    \/ \E r \in waiting, p \in replies : Receive(r, p)
    \/ \E r \in waiting : FallBack(r)
    \/ \E op \in LocalCalls, j \in KnownIds \cup {LocalId} : LocalCall(op, j)

SdkSpec == SdkInit /\ [][SdkNext]_sdk_vars

-----------------------------------------------------------------------------
(* One call to submit_job_async leads to at most one job, also when its    *)
(* request is served after the client has given it up, and a job that a    *)
(* caller has the network's number of was made for one of the calls.       *)
SubmittedOnce ==
    /\ \A i, j \in DOMAIN jobs : jobs[i].call = jobs[j].call => i = j
    /\ \A a \in told : a.job # LocalId => a.job \in DOMAIN jobs
=============================================================================
