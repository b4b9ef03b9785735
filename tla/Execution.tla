------------------------------- MODULE Execution -------------------------------
(***************************************************************************)
(* Execution of a kernel by redundant operators, and what becomes of it:   *)
(* the executor of crates/intelligence/src/kernel.rs, the receipts and the *)
(* metering of receipts.rs, the verdict over the redundant outputs of      *)
(* verification.rs (RedundancyManager) and the registry of operator.rs.    *)
(*                                                                         *)
(* A hash is the tuple of what is hashed.  The sandbox copies its input to *)
(* its output; how many milliseconds that takes is up to the machine, and  *)
(* the executor hashes them with the output.  Names, schemas, resource     *)
(* usage (always zero where it is stored) and attestations are left out;   *)
(* a receipt's signature, which its hash leaves out, is present or not.    *)
(***************************************************************************)
EXTENDS Integers, Sequences, FiniteSets, Lists

CONSTANTS
    ExecOperators, Kernels, Inputs, Seeds,
    ComputeBound, MemoryBound,      \* of the kernel that is executed
    ExecBudgets, MemoryLimits,      \* what a context may grant
    Elapsed,                        \* milliseconds an execution may take
    MaxRedundancy,
    NoContext, NoSeed,
    InitialReputation, MaxReputation, ReputationDeltas,     \* 1000, 10000
    MaxRegistrations, MaxReceipts, MaxOutcomes      \* bounds

ASSUME ExecutionAssumption ==
    /\ ComputeBound \in Nat /\ MemoryBound \in Nat /\ MaxRedundancy \in Nat
    /\ ExecBudgets \subseteq Nat /\ MemoryLimits \subseteq Nat /\ Elapsed \subseteq Nat
    /\ InitialReputation \in 0..MaxReputation /\ ReputationDeltas \subseteq Int

RedundancyPolicy == {"Parallel", "Sequential", "Majority", "FirstValid"}

VARIABLES
    context,            \* the executor's context: seed, budget, memory limit
    outputs,            \* output hashes of the redundant executions, in order
    metered,            \* the receipts of the metering engine
    usage,              \* counters of each operator that has an entry
    registry,           \* operators registered: kernels, status, reputation
    capability          \* for each kernel the operators registered for it

exec_vars == <<context, outputs, metered, usage, registry, capability>>
engine_vars == <<metered, usage>>
registry_vars == <<registry, capability>>

ExecInit ==
    /\ context = NoContext
    /\ outputs = <<>>
    /\ metered = {}
    /\ usage = [o \in {} |-> 0]
    /\ registry = [o \in {} |-> 0]
    /\ capability = [k \in Kernels |-> <<>>]

-----------------------------------------------------------------------------
(* The executor. *)

Contexts == [seed : Seeds \cup {NoSeed}, budget : ExecBudgets, memory : MemoryLimits]

CanExecute(c) ==
    /\ c.budget >= ComputeBound
    /\ c.memory = 0 \/ c.memory >= MemoryBound

\* The native sandbox copies the input, whatever the code loaded.
Sandboxed(input) == input

\* The milliseconds are part of the hash that redundant outputs are compared by.
OutputHash(input, elapsed, seed) == <<Sandboxed(input), elapsed, seed>>

DetermineRedundancy(base, qos) ==
    LET floor == CASE qos = "LowLatency" -> 1
                   [] qos = "Balanced" -> 2
                   [] OTHER -> 3
        k == IF base < floor THEN floor ELSE base
    IN  IF k < MaxRedundancy THEN k ELSE MaxRedundancy

\* k executions of the job are asked for.
Wanted == DetermineRedundancy(1, "HighAssurance")

WithContext(c) ==
    /\ context' = c
    /\ UNCHANGED <<outputs, engine_vars, registry_vars>>

\* A refused execution changes nothing.
Execute(input, elapsed) ==
    /\ Len(outputs) < Wanted
    /\ context # NoContext
    /\ CanExecute(context)
    /\ outputs' = Append(outputs, OutputHash(input, elapsed, context.seed))
    /\ UNCHANGED <<context, engine_vars, registry_vars>>

\* The seed stays in the context, also when the execution is then refused.
ExecuteDeterministic(input, elapsed, seed) ==
    /\ Len(outputs) < Wanted
    /\ context # NoContext
    /\ context' = [context EXCEPT !.seed = seed]
    /\ outputs' = IF CanExecute(context)
                  THEN Append(outputs, OutputHash(input, elapsed, seed)) ELSE outputs
    /\ UNCHANGED <<engine_vars, registry_vars>>

-----------------------------------------------------------------------------
(* The verdict over the outputs. *)

CountOf(hash, results) == Cardinality({i \in DOMAIN results : results[i] = hash})

MajorityHalf(n) == n \div 2

Majority(n) == n \div 2 + 1

\* The answers evaluate_redundancy may give: the counts are in a hash map, and
\* the order of its iteration decides which large enough count is met first.
EvaluateRedundancy(policy, results) ==
    LET all == {results[i] : i \in DOMAIN results}
        large == {h \in all : CountOf(h, results) >= Majority(Len(results))}
    IN  CASE results = <<>> -> {<<"Inconclusive">>}
          [] results # <<>> /\ policy = "Majority" ->
                IF large = {} THEN {<<"Split", Len(results)>>}
                ELSE {<<"Majority", h, CountOf(h, results)>> : h \in large}
          [] results # <<>> /\ policy = "Parallel" /\ Len(results) > 1 ->
                {<<"AllResults", results>>}
          [] OTHER -> {<<"SingleResult", results[1]>>}

-----------------------------------------------------------------------------
(* Receipts and metering. *)

Receipts ==
    [operator : ExecOperators, nonce : 0..1,
     output_hash : {outputs[i] : i \in DOMAIN outputs}, signed : BOOLEAN]

ReceiptHash(r) == <<r.operator, r.nonce, r.output_hash>>

NoUsage == [total_jobs |-> 0, successful_jobs |-> 0, failed_jobs |-> 0]

SubmitReceipt(r) ==
    /\ Cardinality(metered) < MaxReceipts
    /\ \A s \in metered : ReceiptHash(s) # ReceiptHash(r)
    /\ metered' = metered \cup {r}
    /\ usage' = [o \in DOMAIN usage \cup {r.operator} |->
                    LET u == IF o \in DOMAIN usage THEN usage[o] ELSE NoUsage
                    IN  IF o = r.operator THEN [u EXCEPT !.total_jobs = @ + 1] ELSE u]
    /\ UNCHANGED <<context, outputs, registry_vars>>

\* A missing or malformed signature or key does not verify.
VerifySignature(r) == r.signed

\* verify_receipt: the receipt presented is judged, not the one stored.
VerifyReceipt(r) ==
    (\E s \in metered : ReceiptHash(s) = ReceiptHash(r)) /\ VerifySignature(r)

RecordOutcome(o, outcome) ==
    /\ o \in DOMAIN usage
    /\ usage[o].successful_jobs + usage[o].failed_jobs < MaxOutcomes
    /\ usage' = [usage EXCEPT ![o][outcome] = @ + 1, ![o].total_jobs = @ + 1]
    /\ UNCHANGED <<context, outputs, metered, registry_vars>>

RecordSuccess(o) == RecordOutcome(o, "successful_jobs")
RecordFailure(o) == RecordOutcome(o, "failed_jobs")

-----------------------------------------------------------------------------
(* The registry of operators. *)

GetByCapability(k) == Retain(capability[k], DOMAIN registry)
GetActiveOperators == {o \in DOMAIN registry : registry[o].status = "Active"}

ListedFirst(o, kernels) ==
    IF o \in DOMAIN registry THEN capability
    ELSE [k \in Kernels |-> IF k \in kernels THEN Append(capability[k], o) ELSE capability[k]]

\* An operator that registers again is listed again for each kernel.
Listed(o, kernels) ==
    [k \in Kernels |-> IF k \in kernels THEN Append(capability[k], o) ELSE capability[k]]

RegisterExecutor(o, kernels) ==
    /\ \A k \in Kernels : Len(capability[k]) < MaxRegistrations
    /\ capability' = Listed(o, kernels)
    /\ registry' = [p \in DOMAIN registry \cup {o} |->
                      IF p = o THEN [kernels |-> kernels, status |-> "Registered",
                                     reputation |-> InitialReputation]
                      ELSE registry[p]]
    /\ UNCHANGED <<context, outputs, engine_vars>>

SetOperatorStatus(o, status) ==
    /\ o \in DOMAIN registry
    /\ registry' = [registry EXCEPT ![o].status = status]
    /\ UNCHANGED <<context, outputs, engine_vars, capability>>

ActivateExecutor(o) == SetOperatorStatus(o, "Active")
SuspendExecutor(o) == SetOperatorStatus(o, "Suspended")

Clamped(n) == IF n < 0 THEN 0 ELSE IF n > MaxReputation THEN MaxReputation ELSE n

UpdateOperatorReputation(o, delta) ==
    /\ o \in DOMAIN registry
    /\ registry' = [registry EXCEPT ![o].reputation = Clamped(@ + delta)]
    /\ UNCHANGED <<context, outputs, engine_vars, capability>>

-----------------------------------------------------------------------------
ExecutorNext ==
    \/ \E c \in Contexts : WithContext(c)
    \/ \E i \in Inputs, e \in Elapsed : Execute(i, e)
    \/ \E i \in Inputs, e \in Elapsed, s \in Seeds : ExecuteDeterministic(i, e, s)
    \/ \E r \in Receipts : SubmitReceipt(r)
    \/ \E o \in ExecOperators : RecordSuccess(o)
    \/ \E o \in ExecOperators : RecordFailure(o)

RegistryNext ==
    \/ \E o \in ExecOperators, ks \in SUBSET Kernels : RegisterExecutor(o, ks)
    \/ \E o \in ExecOperators : ActivateExecutor(o)
    \/ \E o \in ExecOperators : SuspendExecutor(o)
    \/ \E o \in ExecOperators, d \in ReputationDeltas : UpdateOperatorReputation(o, d)

ExecSpec == ExecInit /\ [][ExecutorNext \/ RegistryNext]_exec_vars

-----------------------------------------------------------------------------
(* What evaluate_redundancy answers does not depend on the order in which  *)
(* the hash map is iterated, whatever outputs the redundant executions     *)
(* left: a majority of the results is the only one.                        *)
VerdictUnique ==
    \A policy \in RedundancyPolicy : Cardinality(EvaluateRedundancy(policy, outputs)) = 1

(* An operator is found under every kernel it registered for last, however *)
(* often and with whatever kernels it registered before.                   *)
RegisteredIsFound ==
    \A o \in DOMAIN registry : \A k \in registry[o].kernels :
        \E i \in DOMAIN GetByCapability(k) : GetByCapability(k)[i] = o
=============================================================================
