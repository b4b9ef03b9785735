------------------------------- MODULE Dispute -------------------------------
(***************************************************************************)
(* The DisputeEngine of crates/intelligence/src/dispute.rs: a challenger   *)
(* puts up a bond and disputes a job's receipt, the job's escrow is        *)
(* frozen, the dispute is verified and adjudicated, and the loser's money  *)
(* is slashed and shared out.                                              *)
(*                                                                         *)
(* Block heights are arguments of the engine's operations; `now' is the    *)
(* height its callers pass.  Of a fraud proof only the comparison of the   *)
(* recomputed with the original output hash matters.  A dispute's id is    *)
(* the hash of its job, receipt, challenger and block; a job has one       *)
(* receipt here.                                                           *)
(***************************************************************************)
EXTENDS Integers, FiniteSets

CONSTANTS
    Jobs, Challengers, None,
    Bonds,               \* the bonds challengers offer
    MinBond,             \* min_challenger_bond
    Budgets, Costs,      \* job_budget and verification_cost of resolve_dispute
    MinSlash,            \* governance_min_slash
    AlphaRatio,          \* slash_alpha_ratio, in 1/10000 of the budget
    BetaRatio,           \* slash_beta_ratio, in 1/10000 of the cost
    Windows,             \* verification windows, in blocks
    AppealWindow,        \* 50 blocks
    MaxBlock             \* bound on block heights

ASSUME SetsAssumption ==
    /\ Bonds \subseteq Nat /\ Budgets \subseteq Nat /\ Costs \subseteq Nat
    /\ Windows \subseteq Nat

ASSUME NumbersAssumption ==
    /\ MinBond \in Nat /\ MinSlash \in Nat
    /\ AlphaRatio \in Nat /\ BetaRatio \in Nat
    /\ AppealWindow \in Nat /\ MaxBlock \in Nat

Blocks     == 0 .. MaxBlock
DisputeIds == [job_id : Jobs, challenger_id : Challengers, block : Blocks]
Statuses   == {"ValidationPhase", "VerificationEscalation", "Adjudicating",
               "Resolved", "Appealed"}
Rulings    == [outcome : {"FraudConfirmed", "FraudRejected"},
               slashed_amount : Nat, challenger_share : Nat,
               verifier_share : Nat, treasury_share : Nat,
               resolution_block : Blocks]
Disputes   == [bond : Nat, outputs : {"equal", "different"},
               status : Statuses, resolution : Rulings \cup {None}]
EscrowStatus == {"Active", "Frozen", "Released", "Refunded"}

ASSUME NoneAssumption ==
    /\ None \notin Disputes
    /\ None \notin Rulings
    /\ None \notin EscrowStatus
    /\ None \notin Nat

-----------------------------------------------------------------------------

VARIABLES
    now,
    disputes,          \* the dispute stored under each id, or None
    disputes_by_job,
    job_escrow,        \* the status of each job's escrow, or None
    frozen_bonds,      \* the bond kept for each challenger, or None
    renewed            \* history: jobs whose escrow was set up again since their
                       \*   dispute was opened or ruled

vars == <<now, disputes, disputes_by_job, job_escrow, frozen_bonds, renewed>>

Init ==
    /\ now = 0
    /\ disputes = [d \in DisputeIds |-> None]
    /\ disputes_by_job = [j \in Jobs |-> {}]
    /\ job_escrow = [j \in Jobs |-> None]
    /\ frozen_bonds = [c \in Challengers |-> None]
    /\ renewed = {}

\* The chain grows.
Tick ==
    /\ now < MaxBlock
    /\ now' = now + 1
    /\ UNCHANGED <<disputes, disputes_by_job, job_escrow, frozen_bonds, renewed>>

\* init_escrow: replaces whatever escrow the job had.
InitEscrow(j) ==
    /\ job_escrow' = [job_escrow EXCEPT ![j] = "Active"]
    /\ renewed' = renewed \cup {j}
    /\ UNCHANGED <<now, disputes, disputes_by_job, frozen_bonds>>

\* The check against DisputeAlreadyExists: a resolved dispute counts, too.
NoDispute(j) == disputes_by_job[j] = {}

\* initiate_dispute, for a receipt of block receipt_block.  The bond is stored
\* under the challenger and replaces the bond of its earlier disputes.
InitiateDispute(j, c, bond, outputs, receipt_block, window) ==
    LET id == [job_id |-> j, challenger_id |-> c, block |-> now]
    IN  /\ bond >= MinBond
        /\ now <= receipt_block + window
        /\ NoDispute(j)
        /\ disputes' = [disputes EXCEPT
                          ![id] = [bond |-> bond, outputs |-> outputs,
                                   status |-> "ValidationPhase",
                                   resolution |-> None]]
        /\ disputes_by_job' = [disputes_by_job EXCEPT
                                 ![j] = disputes_by_job[j] \cup {id}]
        /\ job_escrow' = [job_escrow EXCEPT
                            ![j] = IF job_escrow[j] = None THEN None ELSE "Frozen"]
        /\ frozen_bonds' = [frozen_bonds EXCEPT ![c] = bond]
        /\ renewed' = renewed \ {j}
        /\ UNCHANGED now

\* The dispute with a new status and a new resolution.
Moved(d, status, resolution) ==
    [disputes EXCEPT ![d] = [bond |-> disputes[d].bond,
                             outputs |-> disputes[d].outputs,
                             status |-> status,
                             resolution |-> resolution]]

EscalateToVerification(d) ==
    /\ disputes[d] # None
    /\ disputes[d].status = "ValidationPhase"
    /\ disputes' = Moved(d, "VerificationEscalation", disputes[d].resolution)
    /\ UNCHANGED <<now, disputes_by_job, job_escrow, frozen_bonds, renewed>>

\* submit_verification_result: the result itself is not looked at.
SubmitVerificationResult(d) ==
    /\ disputes[d] # None
    /\ disputes[d].status = "VerificationEscalation"
    /\ disputes' = Moved(d, "Adjudicating", disputes[d].resolution)
    /\ UNCHANGED <<now, disputes_by_job, job_escrow, frozen_bonds, renewed>>

-----------------------------------------------------------------------------
(* Resolution *)

Larger(x, y) == IF x >= y THEN x ELSE y
PerMyriad(x, ratio) == (x * ratio) \div 10000

\* slash_amount of resolve_dispute.
SlashAmount(budget, cost) ==
    Larger(Larger(MinSlash, PerMyriad(budget, AlphaRatio)),
           PerMyriad(cost, BetaRatio))

\* One share of SlashDistribution.
Share(x, ratio) == PerMyriad(x, ratio)

\* The resolution record: the operator is slashed when fraud is confirmed, the
\* challenger's bond when it is rejected, and the shares are the same.
Ruling(d, budget, cost) ==
    LET fraud == disputes[d].outputs = "different"
        s     == IF fraud THEN SlashAmount(budget, cost) ELSE disputes[d].bond
    IN  [outcome |-> IF fraud THEN "FraudConfirmed" ELSE "FraudRejected",
         slashed_amount |-> s,
         challenger_share |-> Share(s, 3000),
         verifier_share |-> Share(s, 3000),
         treasury_share |-> Share(s, 4000),
         resolution_block |-> now]

EscrowActionSwapped(outcome) ==
    IF outcome = "FraudConfirmed" THEN "Released" ELSE "Refunded"

\* What happens to the escrow: back to the client, or on to the operator.
EscrowAction(outcome) ==
    IF outcome = "FraudConfirmed" THEN "Refunded" ELSE "Released"

\* saturating_sub.
SaturatingSub(x, y) == IF x >= y THEN x - y ELSE 0

BondAfterKept(bond, ruling) ==
    IF bond = None THEN None ELSE SaturatingSub(bond, ruling.slashed_amount)

\* The challenger's bond is given back in full or loses the slashed amount.
BondAfter(bond, ruling) ==
    IF ruling.outcome = "FraudConfirmed" \/ bond = None
      THEN None
      ELSE SaturatingSub(bond, ruling.slashed_amount)

ResolveAgain(d, budget, cost) ==
    LET ruling == Ruling(d, budget, cost)
    IN  /\ disputes[d] # None
        /\ disputes[d].status \in {"Adjudicating", "Resolved"}
        /\ disputes' = Moved(d, "Resolved", ruling)
        /\ job_escrow' =
             [job_escrow EXCEPT
                ![d.job_id] = IF job_escrow[d.job_id] = None THEN None
                              ELSE EscrowAction(ruling.outcome)]
        /\ frozen_bonds' =
             [frozen_bonds EXCEPT
                ![d.challenger_id] = BondAfter(frozen_bonds[d.challenger_id], ruling)]
        /\ renewed' = renewed \ {d.job_id}
        /\ UNCHANGED <<now, disputes_by_job>>

ResolveDispute(d, budget, cost) ==
    LET ruling == Ruling(d, budget, cost)
    IN  /\ disputes[d] # None
        /\ disputes[d].status = "Adjudicating"
        /\ disputes' = Moved(d, "Resolved", ruling)
        /\ job_escrow' =
             [job_escrow EXCEPT
                ![d.job_id] = IF job_escrow[d.job_id] = None THEN None
                              ELSE EscrowAction(ruling.outcome)]
        /\ frozen_bonds' =
             [frozen_bonds EXCEPT
                ![d.challenger_id] = BondAfter(frozen_bonds[d.challenger_id], ruling)]
        /\ renewed' = renewed \ {d.job_id}
        /\ UNCHANGED <<now, disputes_by_job>>

\* submit_appeal: stored on the dispute; the engine never processes it.
SubmitAppeal(d) ==
    /\ disputes[d] # None
    /\ disputes[d].status = "Resolved"
    /\ now <= disputes[d].resolution.resolution_block + AppealWindow
    /\ disputes' = Moved(d, "Appealed", disputes[d].resolution)
    /\ UNCHANGED <<now, disputes_by_job, job_escrow, frozen_bonds, renewed>>

Next ==
    \/ Tick
    \/ \E j \in Jobs : InitEscrow(j)
    \/ \E j \in Jobs, c \in Challengers, bond \in Bonds,
          outputs \in {"equal", "different"}, rb \in 0 .. now, w \in Windows :
          InitiateDispute(j, c, bond, outputs, rb, w)
    \/ \E d \in DisputeIds :
          \/ EscalateToVerification(d)
          \/ SubmitVerificationResult(d)
          \/ \E budget \in Budgets, cost \in Costs : ResolveDispute(d, budget, cost)
          \/ SubmitAppeal(d)

Spec == Init /\ [][Next]_vars

-----------------------------------------------------------------------------
(* Properties *)

Existing == {d \in DisputeIds : disputes[d] # None}
Closed(d) == disputes[d].status \in {"Resolved", "Appealed"}

\* Some dispute of job j is open, or was closed with the given outcome.
OpenFor(j) == \E d \in Existing : d.job_id = j /\ ~Closed(d)
RuledFor(j, outcome) ==
    \E d \in Existing : /\ d.job_id = j
                        /\ Closed(d)
                        /\ disputes[d].resolution.outcome = outcome

\* Every field holds a value of its type; in particular a frozen bond never
\* underflows, although it may be another dispute's bond.
TypeOK ==
    /\ now \in Blocks
    /\ disputes \in [DisputeIds -> Disputes \cup {None}]
    /\ disputes_by_job \in [Jobs -> SUBSET DisputeIds]
    /\ job_escrow \in [Jobs -> EscrowStatus \cup {None}]
    /\ frozen_bonds \in [Challengers -> Nat \cup {None}]
    /\ renewed \subseteq Jobs

\* A job is disputed at most once, ever, and the index by job lists exactly the
\* disputes that exist.
OneDisputePerJob ==
    /\ \A d \in Existing : disputes_by_job[d.job_id] = {d}
    /\ \A j \in Jobs : disputes_by_job[j] \subseteq {d \in Existing : d.job_id = j}

\* The escrow says what became of the dispute: frozen only while a dispute of
\* the job is open, so that no budget stays locked after the ruling, paid one
\* way or the other only as the ruling orders, and Active only if init_escrow
\* set it up after the dispute was opened or ruled: that is the one way in
\* which a disputed budget is not frozen.
EscrowFollowsDispute ==
    \A j \in Jobs :
        /\ job_escrow[j] = "Frozen" => OpenFor(j)
        /\ job_escrow[j] = "Refunded" => RuledFor(j, "FraudConfirmed")
        /\ job_escrow[j] = "Released" => RuledFor(j, "FraudRejected")
        /\ job_escrow[j] = "Active" => j \in renewed

\* A dispute has a ruling exactly once it is closed, and the ruling follows
\* from the proof it was opened with.
RuledByProof ==
    \A d \in Existing :
        /\ Closed(d) <=> disputes[d].resolution # None
        /\ Closed(d) => (disputes[d].resolution.outcome = "FraudConfirmed"
                            <=> disputes[d].outputs = "different")

\* The three shares of a ruling never add up to more than what was slashed,
\* and rounding keeps back less than one unit per share.
SharesWithinSlash ==
    \A d \in Existing : Closed(d) =>
        LET r == disputes[d].resolution
            total == r.challenger_share + r.verifier_share + r.treasury_share
        IN  total <= r.slashed_amount /\ r.slashed_amount - total <= 2

Mine(c) == {d \in Existing : d.challenger_id = c}
Newest(d) == \A e \in Mine(d.challenger_id) : e.block <= d.block
Found(d, outputs) == Closed(d) /\ disputes[d].outputs = outputs

\* Of all the bonds a challenger put up, that of its newest dispute is kept: it
\* is given back only when fraud is confirmed in one of its disputes, and
\* loses something only when fraud is rejected in one.  With a single dispute
\* that is the dispute's own bond and ruling; with several it may be those of
\* another.
BondHeld ==
    \A c \in Challengers :
        /\ \A d \in Mine(c) : Mine(c) = {d} =>
              frozen_bonds[c] = IF Found(d, "different") THEN None
                                ELSE IF Closed(d) THEN 0 ELSE disputes[d].bond
        /\ frozen_bonds[c] = None =>
              Mine(c) = {} \/ \E d \in Mine(c) : Found(d, "different")
        /\ frozen_bonds[c] # None =>
              \E d \in Mine(c) :
                 /\ Newest(d)
                 /\ \/ frozen_bonds[c] = disputes[d].bond
                    \/ /\ frozen_bonds[c] < disputes[d].bond
                       /\ \E e \in Mine(c) : Found(e, "equal")

\* A ruling is final: it never changes, and after it a dispute can only move to
\* Appealed, and only within the appeal window.
RulingFinal ==
    [][\A d \in DisputeIds :
         disputes[d] # None /\ disputes[d].resolution # None =>
            /\ disputes'[d].resolution = disputes[d].resolution
            /\ disputes'[d].status # disputes[d].status =>
                  /\ disputes'[d].status = "Appealed"
                  /\ now <= disputes[d].resolution.resolution_block + AppealWindow]_vars
=============================================================================
