------------------------------- MODULE Ledger -------------------------------
(***************************************************************************)
(* The replicated state of crates/truth/src/state.rs with its settlement   *)
(* layer, crates/truth/src/settlement.rs, and the step that applies a      *)
(* block to it, finalize_block of crates/truth/src/consensus.rs.           *)
(*                                                                         *)
(* finalize_block applies the transactions one after the other and returns *)
(* at the first error: the height and the state root then stay as they     *)
(* were, but what the earlier transactions did stays too.  Each            *)
(* transaction is therefore one action, and `block' says whether a block   *)
(* is being applied.  The operations of the settlement layer that no       *)
(* transaction reaches (freezing, slashing, deactivation, rewards, the     *)
(* review of a receipt) are called directly, between blocks.               *)
(*                                                                         *)
(* Payloads that do not parse and signatures that do not verify stop the   *)
(* block: AbortBlock.  A signature that is left out is not verified, so    *)
(* that in every state every well-formed transaction may be accepted.      *)
(***************************************************************************)
EXTENDS Integers, FiniteSets, Sequences, Functions

CONSTANTS
    Jobs, Operators, Senders,  \* 32-byte ids; the three sets may overlap
    Verifiers,
    Outputs,                   \* output hashes
    Amounts,                   \* escrow budgets, slashed and paid amounts
    Stakes,                    \* the stakes operators register with
    Deltas,                    \* reputation changes
    VerifierLists,             \* argument lists of distribute_verifier_rewards
    None,
    BucketSize,                \* 1000: stakes per bucket of the stake index
    InitialReputation,         \* 1000
    SuspendBelow,              \* 500
    ReinstateAt,               \* 1000
    MaxReputation,             \* 10000
    MaxStake, MaxHeight,       \* bounds on stakes and heights
    MaxCalls                   \* bound on transactions and direct calls

ASSUME SetsAssumption ==
    /\ IsFiniteSet(Jobs) /\ IsFiniteSet(Operators) /\ IsFiniteSet(Senders)
    /\ IsFiniteSet(Outputs) /\ IsFiniteSet(Verifiers)
    /\ Amounts \subseteq Nat
    /\ Stakes \subseteq 0 .. MaxStake
    /\ Deltas \subseteq Int
    /\ VerifierLists \subseteq Seq(Verifiers)

ASSUME NumbersAssumption ==
    /\ MaxStake \in Nat /\ MaxHeight \in Nat /\ MaxCalls \in Nat
    /\ BucketSize \in Nat \ {0}
    /\ SuspendBelow \in Nat /\ ReinstateAt \in Nat
    /\ InitialReputation \in Nat /\ MaxReputation \in Nat
    /\ SuspendBelow <= ReinstateAt
    /\ SuspendBelow <= InitialReputation
    /\ InitialReputation <= MaxReputation

EscrowStatus   == {"Active", "Frozen", "Released", "Refunded"}
OperatorStatus == {"Active", "Suspended", "Slashed", "Deregistered"}
ReceiptStatus  == {"Submitted", "Verified", "Challenged", "Disputed", "Settled"}

Heights    == 0 .. MaxHeight
Bucket(s)  == s \div BucketSize
Buckets    == {Bucket(s) : s \in 0 .. MaxStake}
Escrows    == [client_id : Senders, amount : Amounts, status : EscrowStatus]
OperatorStates == [stake : 0 .. MaxStake, reputation : 0 .. MaxReputation,
                   status : OperatorStatus, slashed_count : Nat]
ReceiptIds == [operator_id : Senders, output_hash : Outputs, block : Heights]
Roots      == [height : Heights, escrow_keys : SUBSET Jobs,
               operator_ids : SUBSET Operators, receipts : Nat]

ASSUME NoneAssumption ==
    /\ None \notin Escrows
    /\ None \notin OperatorStates
    /\ None \notin ReceiptStatus
    /\ None \notin Roots

-----------------------------------------------------------------------------

VARIABLES
    height, state_root,
    job_escrows,
    operators,
    stake_index,            \* how often a bucket's list holds an operator
    receipt_anchors,
    slashing_pool, verifier_rewards,
    intelligence_receipts,  \* the settled flag of each legacy receipt, or None
    block,                  \* "applying" inside finalize_block, else "idle"
    calls,                  \* transactions and direct calls so far
    funded,                 \* history: amounts escrowed for each job,
    paid,                   \*   amounts release and refund returned for it,
    overwritten,            \*   unpaid amounts a later deposit replaced
    slashed_in,             \* history: everything added to the slashing pool,
    undivided               \*   and what left it without reaching a verifier

chain    == <<height, state_root>>
escrow   == <<job_escrows, funded, paid, overwritten>>
registry == <<operators, stake_index>>
receipts == <<receipt_anchors, intelligence_receipts>>
pool     == <<slashing_pool, verifier_rewards, slashed_in, undivided>>
vars     == <<height, state_root, job_escrows, operators, stake_index,
              receipt_anchors, slashing_pool, verifier_rewards,
              intelligence_receipts, block, calls, funded, paid, overwritten,
              slashed_in, undivided>>

Init ==
    /\ height = 0
    /\ state_root = None
    /\ job_escrows = [j \in Jobs |-> None]
    /\ operators = [o \in Operators |-> None]
    /\ stake_index = [b \in Buckets |-> [o \in Operators |-> 0]]
    /\ receipt_anchors = [r \in ReceiptIds |-> None]
    /\ slashing_pool = 0
    /\ verifier_rewards = [v \in Verifiers |-> 0]
    /\ intelligence_receipts = [k \in Senders \X Operators |-> None]
    /\ block = "idle"
    /\ calls = 0
    /\ funded = [j \in Jobs |-> 0]
    /\ paid = [j \in Jobs |-> 0]
    /\ overwritten = [j \in Jobs |-> 0]
    /\ slashed_in = 0
    /\ undivided = 0

-----------------------------------------------------------------------------
(* Blocks *)

Call == calls < MaxCalls /\ calls' = calls + 1

\* One transaction of the block that is being applied.
Transaction == block = "applying" /\ Call /\ UNCHANGED <<chain, block>>

\* A call of the settlement layer from outside finalize_block.
Direct == block = "idle" /\ Call /\ UNCHANGED <<chain, block>>

BeginBlock ==
    /\ block = "idle"
    /\ block' = "applying"
    /\ UNCHANGED <<chain, escrow, registry, receipts, pool, calls>>

Keys(f) == {k \in DOMAIN f : f[k] # None}

\* root_hash: counts and keys only.
RootHash(h) == [height |-> h, escrow_keys |-> Keys(job_escrows),
                operator_ids |-> Keys(operators),
                receipts |-> Cardinality(Keys(receipt_anchors))]

\* finalize_block once every transaction was applied.
FinalizeBlock ==
    /\ block = "applying"
    /\ height < MaxHeight
    /\ height' = height + 1
    /\ state_root' = RootHash(height + 1)
    /\ block' = "idle"
    /\ UNCHANGED <<escrow, registry, receipts, pool, calls>>

\* A transaction is malformed or not authorized, names an unknown escrow,
\* operator or receipt, or an escrow that is not Active: finalize_block
\* returns the error and undoes nothing.
AbortBlock ==
    /\ block = "applying"
    /\ block' = "idle"
    /\ UNCHANGED <<chain, escrow, registry, receipts, pool, calls>>

-----------------------------------------------------------------------------
(* Escrows *)

\* What an escrow still holds for its client.
Held(j) ==
    IF job_escrows[j] # None /\ job_escrows[j].status \in {"Active", "Frozen"}
      THEN job_escrows[j].amount
      ELSE 0

\* create_escrow: an escrow that exists under the same job id is replaced.
CreateEscrow(j, c, a) ==
    /\ Transaction
    /\ job_escrows' = [job_escrows EXCEPT
                         ![j] = [client_id |-> c, amount |-> a,
                                 status |-> "Active"]]
    /\ funded' = [funded EXCEPT ![j] = funded[j] + a]
    /\ overwritten' = [overwritten EXCEPT ![j] = overwritten[j] + Held(j)]
    /\ UNCHANGED <<paid, registry, receipts, pool>>

\* The two transactions that fund an escrow differ in their payloads only.
JobSubmit(j, c, budget) == CreateEscrow(j, c, budget)
EscrowDeposit(j, c, amount) == CreateEscrow(j, c, amount)

SetEscrowStatus(j, status) ==
    job_escrows' = [job_escrows EXCEPT
                      ![j] = [client_id |-> job_escrows[j].client_id,
                              amount |-> job_escrows[j].amount,
                              status |-> status]]

PayableUnlessFrozen(j) ==
    job_escrows[j] # None /\ job_escrows[j].status # "Frozen"

Payable(j) == job_escrows[j] # None /\ job_escrows[j].status = "Active"

PayFrozenToo(j, status) ==
    /\ job_escrows[j] # None
    /\ job_escrows[j].status \in {"Active", "Frozen"}
    /\ SetEscrowStatus(j, status)
    /\ paid' = [paid EXCEPT ![j] = paid[j] + job_escrows[j].amount]
    /\ UNCHANGED <<funded, overwritten>>

\* JobEscrow::release and JobEscrow::refund: the whole amount, the verifier
\* reserve included.
Pay(j, status) ==
    /\ Payable(j)
    /\ SetEscrowStatus(j, status)
    /\ paid' = [paid EXCEPT ![j] = paid[j] + job_escrows[j].amount]
    /\ UNCHANGED <<funded, overwritten>>

EscrowRelease(j) ==
    Transaction /\ Pay(j, "Released") /\ UNCHANGED <<registry, receipts, pool>>

EscrowRefund(j) ==
    Transaction /\ Pay(j, "Refunded") /\ UNCHANGED <<registry, receipts, pool>>

Freeze(j) ==
    /\ Direct
    /\ job_escrows[j] # None
    /\ job_escrows[j].status = "Active"
    /\ SetEscrowStatus(j, "Frozen")
    /\ UNCHANGED <<funded, paid, overwritten, registry, receipts, pool>>

Unfreeze(j) ==
    /\ Direct
    /\ job_escrows[j] # None
    /\ job_escrows[j].status = "Frozen"
    /\ SetEscrowStatus(j, "Active")
    /\ UNCHANGED <<funded, paid, overwritten, registry, receipts, pool>>

-----------------------------------------------------------------------------
(* Receipts *)

\* ReceiptAnchor::new: the id is the hash of job, operator, output and height,
\* and a settling transaction gives its sender as job and as operator.
ReceiptId(s, out) == [operator_id |-> s, output_hash |-> out, block |-> height]

\* apply_job_settle: the escrow stored under the sender's own id is released
\* if it can be, and the receipt is anchored whether it was or not.
JobSettle(s, out) ==
    /\ Transaction
    /\ IF s \in Jobs /\ Payable(s) THEN Pay(s, "Released") ELSE UNCHANGED escrow
    /\ receipt_anchors' = [receipt_anchors EXCEPT
                             ![ReceiptId(s, out)] = "Submitted"]
    /\ UNCHANGED <<intelligence_receipts, registry, pool>>

\* ReceiptAnchor::verify, challenge, escalate and settle: each overwrites the
\* status, whatever it is.
ReviewReceipt(r, status) ==
    /\ Direct
    /\ receipt_anchors[r] # None
    /\ receipt_anchors' = [receipt_anchors EXCEPT ![r] = status]
    /\ UNCHANGED <<intelligence_receipts, escrow, registry, pool>>

\* apply_intelligence_submit: keyed by job (the sender) and operator, so that
\* a second submission replaces a settled receipt by an open one.
IntelligenceSubmit(s, o) ==
    /\ Transaction
    /\ intelligence_receipts' = [intelligence_receipts EXCEPT ![<<s, o>>] = FALSE]
    /\ UNCHANGED <<receipt_anchors, escrow, registry, pool>>

IntelligenceSettle(s, o) ==
    /\ Transaction
    /\ intelligence_receipts[<<s, o>>] # None
    /\ intelligence_receipts' = [intelligence_receipts EXCEPT ![<<s, o>>] = TRUE]
    /\ UNCHANGED <<receipt_anchors, escrow, registry, pool>>

\* ArtifactCommit, GovernanceVote, Transfer and the contract types are accepted
\* and change nothing.
NoEffect ==
    Transaction /\ UNCHANGED <<escrow, registry, receipts, pool>>

-----------------------------------------------------------------------------
(* Operators *)

Larger(x, y) == IF x >= y THEN x ELSE y
Smaller(x, y) == IF x <= y THEN x ELSE y

\* The index with o appended to the list of bucket b, and with every entry of
\* o removed from that list.
Pushed(index, b, o) == [index EXCEPT ![b][o] = index[b][o] + 1]
Retained(index, b, o) == [index EXCEPT ![b][o] = 0]

\* apply_operator_register: also over a record that exists, whose entries in
\* the stake index stay behind.
OperatorRegister(o, fee, stake) ==
    /\ Transaction
    /\ operators' = [operators EXCEPT
                       ![o] = [stake |-> Larger(fee, stake),
                               reputation |-> InitialReputation,
                               status |-> "Active", slashed_count |-> 0]]
    /\ stake_index' = Pushed(stake_index, Bucket(Larger(fee, stake)), o)
    /\ UNCHANGED <<escrow, receipts, pool>>

StatusRaisedFromAny(status, reputation) ==
    IF reputation >= ReinstateAt THEN "Active" ELSE status

\* The status after increase_reputation: only a suspension is lifted.
StatusRaised(status, reputation) ==
    IF status = "Suspended" /\ reputation >= ReinstateAt THEN "Active" ELSE status

\* The status after decrease_reputation.
StatusLowered(status, reputation) ==
    IF status = "Active" /\ reputation < SuspendBelow THEN "Suspended" ELSE status

IncreaseReputation(op, d) ==
    LET r == Smaller(op.reputation + d, MaxReputation)
    IN  [stake |-> op.stake, reputation |-> r,
         status |-> StatusRaised(op.status, r),
         slashed_count |-> op.slashed_count]

DecreaseReputation(op, d) ==
    LET r == Larger(op.reputation - d, 0)
    IN  [stake |-> op.stake, reputation |-> r,
         status |-> StatusLowered(op.status, r),
         slashed_count |-> op.slashed_count]

\* apply_reputation_update: no error when the operator is unknown.
ReputationUpdate(o, delta) ==
    /\ Transaction
    /\ operators' =
         [operators EXCEPT
            ![o] = IF operators[o] = None THEN None
                   ELSE IF delta >= 0
                          THEN IncreaseReputation(operators[o], delta)
                          ELSE DecreaseReputation(operators[o], -delta)]
    /\ UNCHANGED <<stake_index, escrow, receipts, pool>>

\* apply_operator_update: accepted for an Active operator, without effect.
OperatorUpdate(o) ==
    /\ operators[o] # None
    /\ operators[o].status = "Active"
    /\ NoEffect

\* update_stake.
UpdateStake(o, stake) ==
    /\ Direct
    /\ operators[o] # None
    /\ stake_index' = Pushed(Retained(stake_index, Bucket(operators[o].stake), o),
                             Bucket(stake), o)
    /\ operators' = [operators EXCEPT
                       ![o] = [stake |-> stake,
                               reputation |-> operators[o].reputation,
                               status |-> operators[o].status,
                               slashed_count |-> operators[o].slashed_count]]
    /\ UNCHANGED <<escrow, receipts, pool>>

Deactivate(o) ==
    /\ Direct
    /\ operators[o] # None
    /\ operators' = [operators EXCEPT
                       ![o] = [stake |-> operators[o].stake,
                               reputation |-> operators[o].reputation,
                               status |-> "Deregistered",
                               slashed_count |-> operators[o].slashed_count]]
    /\ UNCHANGED <<stake_index, escrow, receipts, pool>>

\* OperatorRegistry::slash: the bucket to clean up is computed from the stake
\* that is left.
Slash(o, a) ==
    /\ Direct
    /\ operators[o] # None
    /\ operators[o].stake >= a
    /\ operators' = [operators EXCEPT
                       ![o] = [stake |-> operators[o].stake - a,
                               reputation |-> operators[o].reputation,
                               status |-> "Slashed",
                               slashed_count |-> operators[o].slashed_count + 1]]
    /\ stake_index' = Retained(stake_index, Bucket(operators[o].stake - a), o)
    /\ UNCHANGED <<escrow, receipts, pool>>

-----------------------------------------------------------------------------
(* The slashing pool *)

AddSlashedToPool(a) ==
    /\ Direct
    /\ slashing_pool' = slashing_pool + a
    /\ slashed_in' = slashed_in + a
    /\ UNCHANGED <<verifier_rewards, undivided, escrow, registry, receipts>>

Occurrences(v, list) == Cardinality({i \in DOMAIN list : list[i] = v})

PerVerifierRoundedUp(a, list) == (a + Len(list) - 1) \div Len(list)

\* Integer division: what does not divide evenly leaves the pool and reaches
\* no verifier.
PerVerifier(a, list) == a \div Len(list)

\* distribute_verifier_rewards.  On an empty list the division panics after
\* the pool was already reduced.
DistributeVerifierRewards(list, a) ==
    /\ Direct
    /\ slashing_pool >= a
    /\ slashing_pool' = slashing_pool - a
    /\ verifier_rewards' =
         IF list = <<>>
           THEN verifier_rewards
           ELSE [v \in Verifiers |-> verifier_rewards[v]
                                     + PerVerifier(a, list) * Occurrences(v, list)]
    /\ undivided' = undivided + (IF list = <<>> THEN a ELSE a % Len(list))
    /\ UNCHANGED <<slashed_in, escrow, registry, receipts>>

-----------------------------------------------------------------------------

Next ==
    \/ BeginBlock
    \/ FinalizeBlock
    \/ AbortBlock
    \/ NoEffect
    \/ \E j \in Jobs :
          \/ \E c \in Senders, a \in Amounts :
                \/ JobSubmit(j, c, a)
                \/ EscrowDeposit(j, c, a)
          \/ EscrowRelease(j)
          \/ EscrowRefund(j)
          \/ Freeze(j)
          \/ Unfreeze(j)
    \/ \E s \in Senders, out \in Outputs : JobSettle(s, out)
    \/ \E r \in ReceiptIds, status \in ReceiptStatus \ {"Submitted"} :
          ReviewReceipt(r, status)
    \/ \E s \in Senders, o \in Operators :
          \/ IntelligenceSubmit(s, o)
          \/ IntelligenceSettle(s, o)
    \/ \E o \in Operators :
          \/ \E fee, stake \in Stakes : OperatorRegister(o, fee, stake)
          \/ OperatorUpdate(o)
          \/ \E delta \in Deltas : ReputationUpdate(o, delta)
          \/ \E stake \in Stakes : UpdateStake(o, stake)
          \/ Deactivate(o)
          \/ \E a \in Amounts : Slash(o, a)
    \/ \E a \in Amounts :
          \/ AddSlashedToPool(a)
          \/ \E list \in VerifierLists : DistributeVerifierRewards(list, a)

Spec == Init /\ [][Next]_vars

-----------------------------------------------------------------------------
(* Properties *)

\* Every field holds a value of its type: stakes are never negative (slash
\* checks the stake first), reputations stay between 0 and MaxReputation, and
\* every stake has a bucket.
TypeOK ==
    /\ height \in Heights
    /\ state_root \in Roots \cup {None}
    /\ job_escrows \in [Jobs -> Escrows \cup {None}]
    /\ operators \in [Operators -> OperatorStates \cup {None}]
    /\ stake_index \in [Buckets -> [Operators -> Nat]]
    /\ receipt_anchors \in [ReceiptIds -> ReceiptStatus \cup {None}]
    /\ slashing_pool \in Nat
    /\ verifier_rewards \in [Verifiers -> Nat]
    /\ intelligence_receipts \in [Senders \X Operators -> BOOLEAN \cup {None}]
    /\ block \in {"idle", "applying"}
    /\ calls \in 0 .. MaxCalls
    /\ funded \in [Jobs -> Nat]
    /\ paid \in [Jobs -> Nat]
    /\ overwritten \in [Jobs -> Nat]
    /\ slashed_in \in Nat
    /\ undivided \in Nat

\* Every amount put into an escrow was paid out once, is still held, or was
\* replaced by a later deposit for the same job: no order of deposits,
\* releases, refunds, settlements, freezes and aborted blocks pays an amount
\* twice or loses one in any other way.
EscrowConserved ==
    \A j \in Jobs : paid[j] + overwritten[j] + Held(j) = funded[j]

\* An escrow that was paid out changes only by being funded anew, and a frozen
\* one is never paid: JobSettle, which ignores what release returns, does not
\* get at the budget of a disputed job.
EscrowLifecycle ==
    [][\A j \in Jobs : job_escrows[j] # None =>
         /\ job_escrows[j].status \in {"Released", "Refunded"} =>
               \/ job_escrows'[j] = job_escrows[j]
               \/ /\ job_escrows'[j].status = "Active"
                  /\ funded'[j] = funded[j] + job_escrows'[j].amount
         /\ job_escrows[j].status = "Frozen" =>
               job_escrows'[j].status \in {"Frozen", "Active"}]_vars

\* An operator that can take jobs, or can again once its suspension is lifted,
\* is listed in the bucket of its present stake, although slash cleans up the
\* wrong bucket and a registration leaves old entries behind.
ActiveIndexed ==
    \A o \in Operators :
        operators[o] # None /\ operators[o].status \in {"Active", "Suspended"} =>
            stake_index[Bucket(operators[o].stake)][o] > 0

\* Status and reputation agree: an Active operator is not below the suspension
\* mark, a Suspended one has not reached the mark that reinstates it.
ReputationStanding ==
    \A o \in Operators : operators[o] # None =>
        /\ operators[o].status = "Active" =>
              operators[o].reputation >= SuspendBelow
        /\ operators[o].status = "Suspended" =>
              operators[o].reputation < ReinstateAt

\* A slashed operator comes back only by registering again: no sequence of
\* reputation changes lifts the penalty, and one that is slashed never sheds
\* its count of slashes otherwise.
PenaltyStands ==
    [][\A o \in Operators :
         operators[o] # None /\ operators[o].slashed_count > 0 =>
            \/ operators'[o].slashed_count >= operators[o].slashed_count
               /\ operators'[o].status \in {"Slashed", "Deregistered"}
            \/ /\ operators'[o].slashed_count = 0
               /\ operators'[o].reputation = InitialReputation]_vars

\* Every unit put into the pool is still there or was credited to a verifier,
\* but for the remainder of each division, which is less than one unit for
\* each place in the list, and for all that was taken for an empty list: a
\* verifier that is listed twice neither gains nor loses anything else.
RewardsBacked ==
    slashing_pool + SumFunctionOnSet(verifier_rewards, Verifiers) + undivided = slashed_in

\* The state root is the root of the last complete block: it names the present
\* height, and everything it commits to is still part of the state, blocks
\* that were aborted half-way included.
RootOfLastBlock ==
    /\ height > 0 => state_root # None
    /\ state_root # None =>
          /\ state_root.height = height
          /\ state_root.escrow_keys \subseteq Keys(job_escrows)
          /\ state_root.operator_ids \subseteq Keys(operators)
          /\ state_root.receipts <= Cardinality(Keys(receipt_anchors))

\* What was decided about a receipt survives later blocks: only a settlement
\* repeated at the height the receipt was anchored at resets it to Submitted.
ReviewSurvives ==
    [][\A r \in ReceiptIds :
         (receipt_anchors[r] \notin {None, "Submitted"}
            /\ receipt_anchors'[r] = "Submitted")
         => r.block = height]_vars

\* A released escrow has a verified receipt: settlement.rs documents JobEscrow
\* as "Holds budget, releases on receipt verification".
ReleasedOnVerification ==
    \A j \in Jobs :
        job_escrows[j] # None /\ job_escrows[j].status = "Released" =>
            \E r \in Keys(receipt_anchors) :
                receipt_anchors[r] \in {"Verified", "Settled"}
=============================================================================
