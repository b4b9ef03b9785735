---------------------------- MODULE DisputeProofs ----------------------------
(***************************************************************************)
(* Proofs about Dispute, for all jobs and challengers, all bonds, budgets  *)
(* and costs, every slashing ratio and every window.                       *)
(***************************************************************************)
EXTENDS Dispute, TLAPS

\* A ten-thousandth part of a product of naturals is a natural number.
LEMMA PerMyriadType ==
    ASSUME NEW x \in Nat, NEW ratio \in Nat
    PROVE  PerMyriad(x, ratio) \in Nat
  <1>. DEFINE p == x * ratio
  <1>1. p \in Nat
    OBVIOUS
  <1>. HIDE DEF p
  <1>2. p \div 10000 \in Nat
    BY <1>1
  <1>. QED  BY <1>2 DEF PerMyriad, p

\* The slash amount is a natural number whatever the ratios are.
LEMMA SlashType ==
    ASSUME NEW budget \in Budgets, NEW cost \in Costs
    PROVE  SlashAmount(budget, cost) \in Nat
  <1>1. /\ PerMyriad(budget, AlphaRatio) \in Nat
        /\ PerMyriad(cost, BetaRatio) \in Nat
    BY PerMyriadType, SetsAssumption, NumbersAssumption
  <1>. QED  BY <1>1, NumbersAssumption DEF SlashAmount, Larger

\* The shares of 3000, 3000 and 4000 ten-thousandths fit into the amount, and
\* at most two units are left over.
LEMMA SharesFit ==
    ASSUME NEW s \in Nat
    PROVE  /\ Share(s, 3000) + Share(s, 3000) + Share(s, 4000) <= s
           /\ s - (Share(s, 3000) + Share(s, 3000) + Share(s, 4000)) <= 2
  BY DEF Share, PerMyriad

GoodRuling(d, r) ==
    /\ r.outcome = "FraudConfirmed" <=> disputes[d].outputs = "different"
    /\ r.challenger_share + r.verifier_share + r.treasury_share
         <= r.slashed_amount
    /\ r.slashed_amount
         - (r.challenger_share + r.verifier_share + r.treasury_share) <= 2
    /\ r.outcome = "FraudRejected" => r.slashed_amount = disputes[d].bond

\* resolve_dispute builds a well-typed ruling that follows from the proof and
\* shares out what was slashed.
LEMMA RulingType ==
    ASSUME TypeOK, NEW d \in DisputeIds, disputes[d] # None,
           NEW budget \in Budgets, NEW cost \in Costs
    PROVE  /\ Ruling(d, budget, cost) \in Rulings
           /\ GoodRuling(d, Ruling(d, budget, cost))
  <1>. DEFINE s == IF disputes[d].outputs = "different"
                     THEN SlashAmount(budget, cost) ELSE disputes[d].bond
  <1>1. s \in Nat
    <2>1. SlashAmount(budget, cost) \in Nat
      BY SlashType
    <2>2. disputes[d].bond \in Nat
      BY DEF TypeOK, Disputes
    <2>. QED  BY <2>1, <2>2
  <1>2. Ruling(d, budget, cost)
          = [outcome |-> IF disputes[d].outputs = "different"
                           THEN "FraudConfirmed" ELSE "FraudRejected",
             slashed_amount |-> s,
             challenger_share |-> Share(s, 3000),
             verifier_share |-> Share(s, 3000),
             treasury_share |-> Share(s, 4000),
             resolution_block |-> now]
    BY ZenonT(30) DEF Ruling
  <1>3. disputes[d].outputs # "different" => s = disputes[d].bond
    OBVIOUS
  <1>. HIDE DEF s
  <1>4. /\ Share(s, 3000) \in Nat
        /\ Share(s, 4000) \in Nat
    BY <1>1 DEF Share, PerMyriad
  <1>5. /\ Share(s, 3000) + Share(s, 3000) + Share(s, 4000) <= s
        /\ s - (Share(s, 3000) + Share(s, 3000) + Share(s, 4000)) <= 2
    BY <1>1, SharesFit
  <1>6. Ruling(d, budget, cost) \in Rulings
    BY <1>1, <1>2, <1>4 DEF Rulings, TypeOK
  <1>7. GoodRuling(d, Ruling(d, budget, cost))
    BY <1>2, <1>3, <1>5 DEF GoodRuling
  <1>. QED  BY <1>6, <1>7

-----------------------------------------------------------------------------
(* Type correctness *)

\* The engine starts empty and well typed.
LEMMA InitType == Init => TypeOK
  BY NumbersAssumption DEF Init, TypeOK, Blocks

\* Moving an existing dispute keeps the map of disputes well typed.
LEMMA MovedType ==
    ASSUME TypeOK, NEW d \in DisputeIds, disputes[d] # None,
           NEW status \in Statuses, NEW r \in Rulings \cup {None}
    PROVE  /\ Moved(d, status, r) \in [DisputeIds -> Disputes \cup {None}]
           /\ \A e \in DisputeIds : e # d => Moved(d, status, r)[e] = disputes[e]
           /\ Moved(d, status, r)[d] = [bond |-> disputes[d].bond,
                                        outputs |-> disputes[d].outputs,
                                        status |-> status, resolution |-> r]
           /\ Moved(d, status, r)[d] # None
  <1>1. [bond |-> disputes[d].bond, outputs |-> disputes[d].outputs,
         status |-> status, resolution |-> r] \in Disputes
    BY DEF TypeOK, Disputes
  <1>. QED  BY <1>1, NoneAssumption DEF TypeOK, Moved

\* Every operation keeps the engine well typed.
LEMMA NextType == TypeOK /\ [Next]_vars => TypeOK'
  <1>. SUFFICES ASSUME TypeOK, [Next]_vars PROVE TypeOK'
    OBVIOUS
  <1>1. ASSUME UNCHANGED vars PROVE TypeOK'
    BY <1>1 DEF vars, TypeOK
  <1>2. ASSUME Tick PROVE TypeOK'
    BY <1>2, NumbersAssumption DEF Tick, TypeOK, Blocks
  <1>3. ASSUME NEW j \in Jobs, InitEscrow(j) PROVE TypeOK'
    BY <1>3 DEF InitEscrow, TypeOK, EscrowStatus
  <1>4. ASSUME NEW j \in Jobs, NEW c \in Challengers, NEW bond \in Bonds,
               NEW outputs \in {"equal", "different"},
               NEW rb \in 0 .. now, NEW w \in Windows,
               InitiateDispute(j, c, bond, outputs, rb, w)
        PROVE  TypeOK'
    <2>. DEFINE id == [job_id |-> j, challenger_id |-> c, block |-> now]
                new == [bond |-> bond, outputs |-> outputs,
                        status |-> "ValidationPhase", resolution |-> None]
    <2>1. id \in DisputeIds
      BY DEF DisputeIds, TypeOK
    <2>2. new \in Disputes
      BY SetsAssumption DEF Disputes, Statuses
    <2>3. disputes' \in [DisputeIds -> Disputes \cup {None}]
      BY <1>4, <2>1, <2>2 DEF InitiateDispute, TypeOK
    <2>4. disputes_by_job' \in [Jobs -> SUBSET DisputeIds]
      BY <1>4, <2>1 DEF InitiateDispute, TypeOK
    <2>5. job_escrow' \in [Jobs -> EscrowStatus \cup {None}]
      BY <1>4 DEF InitiateDispute, TypeOK, EscrowStatus
    <2>6. frozen_bonds' \in [Challengers -> Nat \cup {None}]
      BY <1>4, SetsAssumption DEF InitiateDispute, TypeOK
    <2>. QED  BY <1>4, <2>3, <2>4, <2>5, <2>6 DEF InitiateDispute, TypeOK
  <1>5. ASSUME NEW d \in DisputeIds,
               \/ EscalateToVerification(d)
               \/ SubmitVerificationResult(d)
               \/ SubmitAppeal(d)
        PROVE  TypeOK'
    <2>1. disputes[d] # None /\ disputes[d].resolution \in Rulings \cup {None}
      BY <1>5
         DEF EscalateToVerification, SubmitVerificationResult, SubmitAppeal,
             TypeOK, Disputes
    <2>2. PICK status \in Statuses :
               disputes' = Moved(d, status, disputes[d].resolution)
      BY <1>5
         DEF EscalateToVerification, SubmitVerificationResult, SubmitAppeal,
             Statuses
    <2>3. disputes' \in [DisputeIds -> Disputes \cup {None}]
      BY <2>1, <2>2, MovedType
    <2>. QED
      BY <1>5, <2>3
         DEF EscalateToVerification, SubmitVerificationResult, SubmitAppeal,
             TypeOK
  <1>6. ASSUME NEW d \in DisputeIds, NEW budget \in Budgets, NEW cost \in Costs,
               ResolveDispute(d, budget, cost)
        PROVE  TypeOK'
    <2>. DEFINE ruling == Ruling(d, budget, cost)
    <2>1. ruling \in Rulings
      BY <1>6, RulingType DEF ResolveDispute
    <2>2. /\ disputes[d] # None
          /\ disputes' = Moved(d, "Resolved", ruling)
          /\ job_escrow' =
               [job_escrow EXCEPT
                  ![d.job_id] = IF job_escrow[d.job_id] = None THEN None
                                ELSE EscrowAction(ruling.outcome)]
          /\ frozen_bonds' =
               [frozen_bonds EXCEPT
                  ![d.challenger_id] =
                     BondAfter(frozen_bonds[d.challenger_id], ruling)]
          /\ renewed' = renewed \ {d.job_id}
          /\ UNCHANGED <<now, disputes_by_job>>
      BY <1>6, Zenon DEF ResolveDispute
    <2>. HIDE DEF ruling
    <2>3. disputes' \in [DisputeIds -> Disputes \cup {None}]
      BY <2>1, <2>2, MovedType DEF Statuses
    <2>4. job_escrow' \in [Jobs -> EscrowStatus \cup {None}]
      BY <2>2 DEF TypeOK, EscrowStatus, EscrowAction
    <2>5. BondAfter(frozen_bonds[d.challenger_id], ruling) \in Nat \cup {None}
      BY <2>1 DEF BondAfter, SaturatingSub, Rulings, TypeOK, DisputeIds
    <2>6. frozen_bonds' \in [Challengers -> Nat \cup {None}]
      BY <2>2, <2>5 DEF TypeOK
    <2>. QED  BY <2>2, <2>3, <2>4, <2>6 DEF TypeOK
  <1>. QED
    BY <1>1, <1>2, <1>3, <1>4, <1>5, <1>6 DEF Next

\* The engine is always well typed: no frozen bond underflows, even when it is
\* the bond of another dispute.
THEOREM TypeCorrect == Spec => []TypeOK
  BY InitType, NextType, PTL DEF Spec

-----------------------------------------------------------------------------
(* One dispute per job; rulings *)

\* What a new dispute changes: it is the only one of its job.
Opens(id, j, c, bond, outputs) ==
    /\ id.job_id = j /\ id.challenger_id = c /\ id.block = now
    /\ Existing' = Existing \cup {id}
    /\ \A d \in Existing : d.job_id # j
    /\ \A d \in Existing : disputes'[d] = disputes[d]
    /\ disputes'[id] = [bond |-> bond, outputs |-> outputs,
                        status |-> "ValidationPhase", resolution |-> None]
    /\ disputes_by_job' = [disputes_by_job EXCEPT ![j] = {id}]

\* initiate_dispute opens a dispute under an id of its own.
LEMMA Initiated ==
    ASSUME TypeOK, OneDisputePerJob,
           NEW j \in Jobs, NEW c \in Challengers, NEW bond \in Bonds,
           NEW outputs \in {"equal", "different"},
           NEW rb \in 0 .. now, NEW w \in Windows,
           InitiateDispute(j, c, bond, outputs, rb, w)
    PROVE  \E id \in DisputeIds : Opens(id, j, c, bond, outputs)
  <1>. DEFINE id == [job_id |-> j, challenger_id |-> c, block |-> now]
              new == [bond |-> bond, outputs |-> outputs,
                      status |-> "ValidationPhase", resolution |-> None]
  <1>1. id \in DisputeIds /\ id.job_id = j /\ id.challenger_id = c /\ id.block = now
    BY DEF DisputeIds, TypeOK
  <1>2. new \in Disputes /\ new # None
    BY SetsAssumption, NoneAssumption DEF Disputes, Statuses
  <1>3. /\ disputes' = [disputes EXCEPT ![id] = new]
        /\ disputes_by_job' = [disputes_by_job EXCEPT
                                 ![j] = disputes_by_job[j] \cup {id}]
        /\ disputes_by_job[j] = {}
    BY Zenon DEF InitiateDispute, NoDispute
  <1>4. \A d \in Existing : d.job_id # j
    BY <1>3 DEF OneDisputePerJob, Existing
  <1>. HIDE DEF id, new
  <1>5. Existing' = Existing \cup {id}
    BY <1>1, <1>2, <1>3 DEF Existing, TypeOK
  <1>6. \A d \in Existing : disputes'[d] = disputes[d]
    BY <1>1, <1>3, <1>4 DEF Existing, TypeOK
  <1>7. disputes'[id] = new
    BY <1>1, <1>3 DEF TypeOK
  <1>8. disputes_by_job' = [disputes_by_job EXCEPT ![j] = {id}]
    BY <1>3
  <1>9. Opens(id, j, c, bond, outputs)
    BY <1>1, <1>4, <1>5, <1>6, <1>7, <1>8 DEF new, Opens
  <1>. QED  BY <1>1, <1>9

\* A step that moves one existing dispute.
MovesTo(d, status, r) ==
    /\ d \in Existing
    /\ Existing' = Existing
    /\ \A e \in Existing \ {d} : disputes'[e] = disputes[e]
    /\ disputes'[d] = [bond |-> disputes[d].bond, outputs |-> disputes[d].outputs,
                       status |-> status, resolution |-> r]
    /\ disputes_by_job' = disputes_by_job

\* Moved has the effect MovesTo describes.
LEMMA MovedMoves ==
    ASSUME TypeOK, NEW d \in DisputeIds, disputes[d] # None,
           NEW status \in Statuses, NEW r \in Rulings \cup {None},
           disputes' = Moved(d, status, r), disputes_by_job' = disputes_by_job
    PROVE  MovesTo(d, status, r)
  <1>1. /\ \A e \in DisputeIds : e # d => disputes'[e] = disputes[e]
        /\ disputes'[d] = [bond |-> disputes[d].bond,
                           outputs |-> disputes[d].outputs,
                           status |-> status, resolution |-> r]
        /\ disputes'[d] # None
    BY MovedType
  <1>2. Existing' = Existing
    BY <1>1 DEF Existing
  <1>. QED  BY <1>1, <1>2 DEF MovesTo, Existing

\* What a step that rules on no dispute does to the escrow of one job.
EscrowStays(k) == job_escrow'[k] = job_escrow[k] /\ (k \in renewed => k \in renewed')
EscrowRenewed(k) == job_escrow'[k] = "Active" /\ k \in renewed'

\* The steps of the engine: a new dispute, a dispute that moves on without a
\* ruling, a ruling, an appeal, or no change to the disputes.
LEMMA DisputeSteps ==
    ASSUME TypeOK, [Next]_vars
    PROVE  \/ /\ UNCHANGED <<disputes, disputes_by_job, frozen_bonds>>
              /\ \A k \in Jobs : EscrowStays(k) \/ EscrowRenewed(k)
           \/ \E j \in Jobs, c \in Challengers, bond \in Bonds,
                 outputs \in {"equal", "different"}, rb \in 0 .. now, w \in Windows :
                 InitiateDispute(j, c, bond, outputs, rb, w)
           \/ \E d \in DisputeIds :
                 /\ ~Closed(d)
                 /\ \E status \in Statuses \ {"Resolved", "Appealed"} :
                       MovesTo(d, status, disputes[d].resolution)
                 /\ UNCHANGED <<job_escrow, frozen_bonds, renewed>>
           \/ \E d \in DisputeIds :
                 /\ disputes[d].status = "Resolved"
                 /\ MovesTo(d, "Appealed", disputes[d].resolution)
                 /\ now <= disputes[d].resolution.resolution_block + AppealWindow
                 /\ UNCHANGED <<job_escrow, frozen_bonds, renewed>>
           \/ \E d \in DisputeIds, budget \in Budgets, cost \in Costs :
                 /\ ~Closed(d)
                 /\ MovesTo(d, "Resolved", Ruling(d, budget, cost))
                 /\ ResolveDispute(d, budget, cost)
  <1>1. ASSUME NEW d \in DisputeIds,
               EscalateToVerification(d) \/ SubmitVerificationResult(d)
        PROVE  /\ ~Closed(d)
               /\ \E status \in Statuses \ {"Resolved", "Appealed"} :
                     MovesTo(d, status, disputes[d].resolution)
               /\ UNCHANGED <<job_escrow, frozen_bonds, renewed>>
    <2>1. /\ disputes[d] # None
          /\ disputes[d].resolution \in Rulings \cup {None}
          /\ disputes_by_job' = disputes_by_job
          /\ UNCHANGED <<job_escrow, frozen_bonds, renewed>>
          /\ ~Closed(d)
      BY <1>1 DEF EscalateToVerification, SubmitVerificationResult, TypeOK,
                  Disputes, Closed
    <2>2. PICK status \in Statuses \ {"Resolved", "Appealed"} :
               disputes' = Moved(d, status, disputes[d].resolution)
      BY <1>1 DEF EscalateToVerification, SubmitVerificationResult, Statuses
    <2>3. MovesTo(d, status, disputes[d].resolution)
      BY <2>1, <2>2, MovedMoves
    <2>. QED  BY <2>1, <2>3
  <1>2. ASSUME NEW d \in DisputeIds, SubmitAppeal(d)
        PROVE  /\ disputes[d].status = "Resolved"
               /\ MovesTo(d, "Appealed", disputes[d].resolution)
               /\ now <= disputes[d].resolution.resolution_block + AppealWindow
               /\ UNCHANGED <<job_escrow, frozen_bonds, renewed>>
    <2>1. /\ disputes[d] # None
          /\ disputes[d].resolution \in Rulings \cup {None}
      BY <1>2 DEF SubmitAppeal, TypeOK, Disputes
    <2>. QED  BY <1>2, <2>1, MovedMoves DEF SubmitAppeal, Statuses
  <1>3. ASSUME NEW d \in DisputeIds, NEW budget \in Budgets, NEW cost \in Costs,
               ResolveDispute(d, budget, cost)
        PROVE  ~Closed(d) /\ MovesTo(d, "Resolved", Ruling(d, budget, cost))
    <2>1. /\ disputes[d] # None
          /\ disputes[d].status = "Adjudicating"
          /\ disputes' = Moved(d, "Resolved", Ruling(d, budget, cost))
          /\ disputes_by_job' = disputes_by_job
      BY <1>3, Zenon DEF ResolveDispute
    <2>2. Ruling(d, budget, cost) \in Rulings
      BY <2>1, RulingType
    <2>. QED  BY <2>1, <2>2, MovedMoves DEF Closed, Statuses
  <1>4. ASSUME Tick \/ (\E j \in Jobs : InitEscrow(j)) \/ UNCHANGED vars
        PROVE  /\ UNCHANGED <<disputes, disputes_by_job, frozen_bonds>>
               /\ \A k \in Jobs : EscrowStays(k) \/ EscrowRenewed(k)
    BY <1>4 DEF vars, Tick, InitEscrow, TypeOK, EscrowStays, EscrowRenewed
  <1>. QED
    BY <1>1, <1>2, <1>3, <1>4 DEF Next

\* One dispute by itself: ruled exactly when closed, as its proof says, with
\* shares that fit.
GoodDispute(d) ==
    /\ Closed(d) <=> disputes[d].resolution # None
    /\ Closed(d) => GoodRuling(d, disputes[d].resolution)

\* RuledByProof and SharesWithinSlash, and that a rejected challenger loses
\* the bond it put up.
RulingsGood == \A d \in Existing : GoodDispute(d)

\* Rulings are good in every state that is reached from a good one.
LEMMA NextRulings ==
    TypeOK /\ OneDisputePerJob /\ RulingsGood /\ [Next]_vars => RulingsGood'
  <1>. SUFFICES ASSUME TypeOK, OneDisputePerJob, RulingsGood, [Next]_vars,
                       NEW e \in Existing'
                PROVE  GoodDispute(e)'
    BY DEF RulingsGood
  <1>1. ASSUME e \in Existing, disputes'[e] = disputes[e]
        PROVE  GoodDispute(e)'
    BY <1>1 DEF RulingsGood, GoodDispute, GoodRuling, Closed
  <1>2. CASE UNCHANGED <<disputes, disputes_by_job>>
    BY <1>1, <1>2 DEF Existing
  <1>3. ASSUME NEW j \in Jobs, NEW c \in Challengers, NEW bond \in Bonds,
               NEW outputs \in {"equal", "different"},
               NEW rb \in 0 .. now, NEW w \in Windows,
               InitiateDispute(j, c, bond, outputs, rb, w)
        PROVE  GoodDispute(e)'
    <2>0. PICK id \in DisputeIds : Opens(id, j, c, bond, outputs)
      BY <1>3, Initiated, Zenon
    <2>1. /\ Existing' = Existing \cup {id}
          /\ \A d \in Existing : disputes'[d] = disputes[d]
          /\ disputes'[id] = [bond |-> bond, outputs |-> outputs,
                              status |-> "ValidationPhase", resolution |-> None]
      BY <2>0 DEF Opens
    <2>. QED  BY <1>1, <2>1 DEF GoodDispute, Closed
  <1>4. ASSUME NEW d \in DisputeIds, ~Closed(d),
               NEW status \in Statuses \ {"Resolved", "Appealed"},
               MovesTo(d, status, disputes[d].resolution)
        PROVE  GoodDispute(e)'
    <2>1. CASE e = d
      <3>1. disputes[d].resolution = None /\ d \in Existing
        BY <1>4 DEF MovesTo, RulingsGood, GoodDispute
      <3>2. /\ disputes'[d].resolution = disputes[d].resolution
            /\ disputes'[d].status = status
        BY <1>4 DEF MovesTo
      <3>. QED  BY <2>1, <3>1, <3>2 DEF GoodDispute, Closed
    <2>. QED  BY <1>1, <1>4, <2>1 DEF MovesTo
  <1>5. ASSUME NEW d \in DisputeIds, disputes[d].status = "Resolved",
               MovesTo(d, "Appealed", disputes[d].resolution)
        PROVE  GoodDispute(e)'
    <2>1. CASE e = d
      <3>1. GoodDispute(d)
        BY <1>5 DEF MovesTo, RulingsGood
      <3>2. /\ disputes'[d].resolution = disputes[d].resolution
            /\ disputes'[d].status = "Appealed"
            /\ disputes'[d].outputs = disputes[d].outputs
            /\ disputes'[d].bond = disputes[d].bond
        BY <1>5 DEF MovesTo
      <3>. QED
        BY <1>5, <2>1, <3>1, <3>2 DEF GoodDispute, GoodRuling, Closed
    <2>. QED  BY <1>1, <1>5, <2>1 DEF MovesTo
  <1>6. ASSUME NEW d \in DisputeIds, NEW budget \in Budgets, NEW cost \in Costs,
               MovesTo(d, "Resolved", Ruling(d, budget, cost))
        PROVE  GoodDispute(e)'
    <2>1. CASE e = d
      <3>1. /\ Ruling(d, budget, cost) \in Rulings
            /\ GoodRuling(d, Ruling(d, budget, cost))
        BY <1>6, RulingType DEF MovesTo, Existing
      <3>2. /\ disputes'[d].resolution = Ruling(d, budget, cost)
            /\ disputes'[d].status = "Resolved"
            /\ disputes'[d].outputs = disputes[d].outputs
            /\ disputes'[d].bond = disputes[d].bond
        BY <1>6 DEF MovesTo
      <3>. QED
        BY <2>1, <3>1, <3>2, NoneAssumption DEF GoodDispute, GoodRuling, Closed
    <2>. QED  BY <1>1, <1>6, <2>1 DEF MovesTo
  <1>. QED  BY <1>2, <1>3, <1>4, <1>5, <1>6, DisputeSteps

\* The check in initiate_dispute keeps the index by job exact.
LEMMA NextOneDispute ==
    TypeOK /\ OneDisputePerJob /\ [Next]_vars => OneDisputePerJob'
  <1>. SUFFICES ASSUME TypeOK, OneDisputePerJob, [Next]_vars
                PROVE  OneDisputePerJob'
    OBVIOUS
  <1>1. ASSUME Existing' = Existing, disputes_by_job' = disputes_by_job
        PROVE  OneDisputePerJob'
    BY <1>1 DEF OneDisputePerJob
  <1>2. CASE UNCHANGED <<disputes, disputes_by_job>>
    BY <1>1, <1>2 DEF Existing
  <1>3. ASSUME NEW j \in Jobs, NEW c \in Challengers, NEW bond \in Bonds,
               NEW outputs \in {"equal", "different"},
               NEW rb \in 0 .. now, NEW w \in Windows,
               InitiateDispute(j, c, bond, outputs, rb, w)
        PROVE  OneDisputePerJob'
    <2>0. PICK id \in DisputeIds : Opens(id, j, c, bond, outputs)
      BY <1>3, Initiated, Zenon
    <2>1. /\ id.job_id = j
          /\ Existing' = Existing \cup {id}
          /\ \A d \in Existing : d.job_id # j
          /\ disputes_by_job' = [disputes_by_job EXCEPT ![j] = {id}]
      BY <2>0 DEF Opens
    <2>2. \A d \in Existing : d.job_id \in Jobs
      BY DEF Existing, DisputeIds
    <2>3. \A d \in Existing' : disputes_by_job'[d.job_id] = {d}
      BY <2>1, <2>2 DEF OneDisputePerJob, TypeOK
    <2>4. ASSUME NEW k \in Jobs
          PROVE  disputes_by_job'[k] \subseteq {d \in Existing' : d.job_id = k}
      <3>1. CASE k = j
        <4>1. disputes_by_job'[k] = {id}
          BY <2>1, <3>1 DEF TypeOK
        <4>. QED  BY <2>1, <3>1, <4>1
      <3>2. CASE k # j
        <4>1. disputes_by_job'[k] = disputes_by_job[k]
          BY <2>1, <3>2 DEF TypeOK
        <4>2. disputes_by_job[k] \subseteq {d \in Existing : d.job_id = k}
          BY DEF OneDisputePerJob
        <4>. QED  BY <2>1, <4>1, <4>2
      <3>. QED  BY <3>1, <3>2
    <2>. QED  BY <2>3, <2>4 DEF OneDisputePerJob
  <1>4. ASSUME NEW d \in DisputeIds, NEW status, NEW r, MovesTo(d, status, r)
        PROVE  OneDisputePerJob'
    BY <1>1, <1>4 DEF MovesTo
  <1>. QED  BY <1>2, <1>3, <1>4, DisputeSteps

\* The facts about single disputes hold in every reachable state.
LEMMA RulingsInvariant == Spec => [](TypeOK /\ OneDisputePerJob /\ RulingsGood)
  <1>1. Init => OneDisputePerJob /\ RulingsGood
    BY DEF Init, OneDisputePerJob, RulingsGood, Existing
  <1>. QED
    BY <1>1, InitType, NextType, NextOneDispute, NextRulings, PTL DEF Spec

\* A job is never disputed twice, and the index by job is exact.
THEOREM JobsDisputedOnce == Spec => []OneDisputePerJob
  BY RulingsInvariant, PTL

\* Every closed dispute has the ruling its proof calls for.
THEOREM RulingsFollowProofs == Spec => []RuledByProof
  <1>1. RulingsGood => RuledByProof
    BY DEF RulingsGood, GoodDispute, GoodRuling, RuledByProof
  <1>. QED  BY <1>1, RulingsInvariant, PTL

\* No ruling hands out more than it slashed, and rounding keeps back at most
\* two units, for every slash amount.
THEOREM SharesFitSlash == Spec => []SharesWithinSlash
  <1>1. RulingsGood => SharesWithinSlash
    BY DEF RulingsGood, GoodDispute, GoodRuling, SharesWithinSlash
  <1>. QED  BY <1>1, RulingsInvariant, PTL

-----------------------------------------------------------------------------
(* Escrows and bonds *)

\* What resolve_dispute does to escrow and bond.
LEMMA Resolved ==
    ASSUME TypeOK, NEW d \in DisputeIds, NEW budget \in Budgets, NEW cost \in Costs,
           ResolveDispute(d, budget, cost)
    PROVE  LET ruling == Ruling(d, budget, cost) IN
           /\ \A k \in Jobs \ {d.job_id} : EscrowStays(k)
           /\ job_escrow'[d.job_id] \in {None, EscrowAction(ruling.outcome)}
           /\ \A c \in Challengers \ {d.challenger_id} :
                 frozen_bonds'[c] = frozen_bonds[c]
           /\ frozen_bonds'[d.challenger_id]
                = BondAfter(frozen_bonds[d.challenger_id], ruling)
  <1>. DEFINE ruling == Ruling(d, budget, cost)
  <1>1. /\ job_escrow' =
             [job_escrow EXCEPT
                ![d.job_id] = IF job_escrow[d.job_id] = None THEN None
                              ELSE EscrowAction(ruling.outcome)]
        /\ frozen_bonds' =
             [frozen_bonds EXCEPT
                ![d.challenger_id] =
                   BondAfter(frozen_bonds[d.challenger_id], ruling)]
        /\ renewed' = renewed \ {d.job_id}
    BY Zenon DEF ResolveDispute
  <1>2. d.job_id \in Jobs /\ d.challenger_id \in Challengers
    BY DEF DisputeIds
  <1>. HIDE DEF ruling
  <1>3. /\ \A k \in Jobs \ {d.job_id} : EscrowStays(k)
        /\ job_escrow'[d.job_id] \in {None, EscrowAction(ruling.outcome)}
        /\ \A c \in Challengers \ {d.challenger_id} :
              frozen_bonds'[c] = frozen_bonds[c]
        /\ frozen_bonds'[d.challenger_id]
             = BondAfter(frozen_bonds[d.challenger_id], ruling)
    BY <1>1, <1>2 DEF TypeOK, EscrowStays
  <1>. QED  BY <1>3, Zenon DEF ruling

GoodEscrow(k) ==
    /\ job_escrow[k] = "Frozen" => OpenFor(k)
    /\ job_escrow[k] = "Refunded" => RuledFor(k, "FraudConfirmed")
    /\ job_escrow[k] = "Released" => RuledFor(k, "FraudRejected")
    /\ job_escrow[k] = "Active" => k \in renewed

\* GoodEscrow is EscrowFollowsDispute for one job.
LEMMA EscrowPointwise ==
    EscrowFollowsDispute <=> \A k \in Jobs : GoodEscrow(k)
  BY DEF EscrowFollowsDispute, GoodEscrow

\* Every operation keeps the escrow of every job in step with its dispute.
LEMMA NextEscrow ==
    ASSUME TypeOK, OneDisputePerJob, RulingsGood, [Next]_vars,
           NEW k \in Jobs, GoodEscrow(k)
    PROVE  GoodEscrow(k)'
  <1>1. ASSUME UNCHANGED disputes, EscrowStays(k) \/ EscrowRenewed(k)
        PROVE  GoodEscrow(k)'
    <2>1. /\ OpenFor(k)' <=> OpenFor(k)
          /\ \A outcome : RuledFor(k, outcome)' <=> RuledFor(k, outcome)
      BY <1>1 DEF OpenFor, RuledFor, Existing, Closed
    <2>. QED  BY <1>1, <2>1 DEF GoodEscrow, EscrowStays, EscrowRenewed
  <1>2. ASSUME NEW j \in Jobs, NEW c \in Challengers, NEW bond \in Bonds,
               NEW outputs \in {"equal", "different"},
               NEW rb \in 0 .. now, NEW w \in Windows,
               InitiateDispute(j, c, bond, outputs, rb, w)
        PROVE  GoodEscrow(k)'
    <2>0. PICK id \in DisputeIds : Opens(id, j, c, bond, outputs)
      BY <1>2, Initiated, Zenon
    <2>1. CASE k = j
      <3>1. job_escrow'[k] \in {None, "Frozen"}
        BY <1>2, <2>1 DEF InitiateDispute, TypeOK
      <3>2. id \in Existing' /\ id.job_id = k /\ ~Closed(id)'
        BY <2>0, <2>1 DEF Opens, Closed
      <3>. QED
        BY <3>1, <3>2, NoneAssumption DEF GoodEscrow, OpenFor, EscrowStatus
    <2>2. CASE k # j
      <3>1. job_escrow'[k] = job_escrow[k] /\ (k \in renewed => k \in renewed')
        BY <1>2, <2>2 DEF InitiateDispute, TypeOK
      <3>2. \A d \in Existing : d \in Existing' /\ disputes'[d] = disputes[d]
        BY <2>0 DEF Opens
      <3>. QED  BY <3>1, <3>2 DEF GoodEscrow, OpenFor, RuledFor, Closed
    <2>. QED  BY <2>1, <2>2
  <1>3. ASSUME NEW d \in DisputeIds, ~Closed(d), UNCHANGED <<job_escrow, renewed>>,
               NEW status \in Statuses \ {"Resolved", "Appealed"},
               MovesTo(d, status, disputes[d].resolution)
        PROVE  GoodEscrow(k)'
    <2>1. /\ Existing' = Existing
          /\ \A e \in Existing : Closed(e)' <=> Closed(e)
          /\ \A e \in Existing : Closed(e) =>
                disputes'[e].resolution = disputes[e].resolution
      BY <1>3 DEF MovesTo, Closed
    <2>. QED  BY <1>3, <2>1 DEF GoodEscrow, OpenFor, RuledFor
  <1>4. ASSUME NEW d \in DisputeIds, disputes[d].status = "Resolved",
               UNCHANGED <<job_escrow, renewed>>,
               MovesTo(d, "Appealed", disputes[d].resolution)
        PROVE  GoodEscrow(k)'
    <2>1. /\ Existing' = Existing
          /\ \A e \in Existing : Closed(e)' <=> Closed(e)
          /\ \A e \in Existing : Closed(e) =>
                disputes'[e].resolution = disputes[e].resolution
      BY <1>4 DEF MovesTo, Closed
    <2>. QED  BY <1>4, <2>1 DEF GoodEscrow, OpenFor, RuledFor
  <1>5. ASSUME NEW d \in DisputeIds, NEW budget \in Budgets, NEW cost \in Costs,
               MovesTo(d, "Resolved", Ruling(d, budget, cost)),
               ResolveDispute(d, budget, cost)
        PROVE  GoodEscrow(k)'
    <2>. DEFINE ruling == Ruling(d, budget, cost)
    <2>1. /\ \A i \in Jobs \ {d.job_id} : EscrowStays(i)
          /\ job_escrow'[d.job_id] \in {None, EscrowAction(ruling.outcome)}
      BY <1>5, Resolved
    <2>2. /\ Existing' = Existing /\ d \in Existing
          /\ \A e \in Existing \ {d} : disputes'[e] = disputes[e]
          /\ disputes'[d].status = "Resolved"
          /\ disputes'[d].resolution = ruling
      BY <1>5 DEF MovesTo
    <2>3. ruling \in Rulings
      BY <1>5, RulingType DEF MovesTo, Existing
    <2>. HIDE DEF ruling
    <2>4. CASE k = d.job_id
      <3>1. /\ d \in Existing' /\ d.job_id = k /\ Closed(d)'
            /\ disputes'[d].resolution = ruling
        BY <2>2, <2>4 DEF Closed
      <3>2. job_escrow'[k] \in {None, EscrowAction(ruling.outcome)}
        BY <2>1, <2>4
      <3>3. ruling.outcome \in {"FraudConfirmed", "FraudRejected"}
        BY <2>3 DEF Rulings
      <3>4. None \notin {"Active", "Frozen", "Refunded", "Released"}
        BY NoneAssumption DEF EscrowStatus
      <3>5. CASE ruling.outcome = "FraudConfirmed"
        <4>1. RuledFor(k, "FraudConfirmed")'
          BY <3>1, <3>5 DEF RuledFor
        <4>. QED  BY <4>1, <3>2, <3>4, <3>5 DEF GoodEscrow, EscrowAction
      <3>6. CASE ruling.outcome = "FraudRejected"
        <4>1. RuledFor(k, "FraudRejected")'
          BY <3>1, <3>6 DEF RuledFor
        <4>. QED  BY <4>1, <3>2, <3>4, <3>6 DEF GoodEscrow, EscrowAction
      <3>. QED  BY <3>3, <3>5, <3>6
    <2>5. CASE k # d.job_id
      <3>1. EscrowStays(k)
        BY <2>1, <2>5
      <3>2. \A e \in Existing : e.job_id = k => disputes'[e] = disputes[e]
        BY <2>2, <2>5
      <3>. QED  BY <2>2, <3>1, <3>2 DEF GoodEscrow, OpenFor, RuledFor, Closed, EscrowStays
    <2>. QED  BY <2>4, <2>5
  <1>. QED  BY <1>1, <1>2, <1>3, <1>4, <1>5, DisputeSteps

\* No budget stays frozen after the ruling, and none is paid out against it.
THEOREM EscrowsFollowDisputes == Spec => []EscrowFollowsDispute
  <1>1. Init => EscrowFollowsDispute
    BY NoneAssumption DEF Init, EscrowFollowsDispute, EscrowStatus
  <1>2. TypeOK /\ OneDisputePerJob /\ RulingsGood /\ EscrowFollowsDispute
          /\ [Next]_vars => EscrowFollowsDispute'
    <2>. SUFFICES ASSUME TypeOK, OneDisputePerJob, RulingsGood,
                         EscrowFollowsDispute, [Next]_vars
                  PROVE  \A k \in Jobs : GoodEscrow(k)'
      BY DEF EscrowFollowsDispute, GoodEscrow
    <2>. QED  BY EscrowPointwise, NextEscrow
  <1>. QED
    BY <1>1, <1>2, TypeCorrect, JobsDisputedOnce, RulingsInvariant, PTL DEF Spec

\* A ruling is never rewritten, and an appeal comes within its window.
THEOREM RulingsFinal == Spec => RulingFinal
  <1>1. ASSUME TypeOK, OneDisputePerJob, RulingsGood, [Next]_vars,
               NEW d \in DisputeIds, disputes[d] # None,
               disputes[d].resolution # None
        PROVE  /\ disputes'[d].resolution = disputes[d].resolution
               /\ disputes'[d].status # disputes[d].status =>
                     /\ disputes'[d].status = "Appealed"
                     /\ now <= disputes[d].resolution.resolution_block
                                 + AppealWindow
    <2>1. d \in Existing /\ Closed(d)
      BY <1>1 DEF Existing, RulingsGood, GoodDispute
    <2>2. ASSUME NEW j \in Jobs, NEW c \in Challengers, NEW bond \in Bonds,
                 NEW outputs \in {"equal", "different"},
                 NEW rb \in 0 .. now, NEW w \in Windows,
                 InitiateDispute(j, c, bond, outputs, rb, w)
          PROVE  disputes'[d] = disputes[d]
      <3>1. PICK id \in DisputeIds : Opens(id, j, c, bond, outputs)
        BY <1>1, <2>2, Initiated, Zenon
      <3>. QED  BY <2>1, <3>1 DEF Opens
    <2>3. ASSUME NEW e \in DisputeIds, NEW status, NEW r, MovesTo(e, status, r),
                 d # e
          PROVE  disputes'[d] = disputes[d]
      BY <2>1, <2>3 DEF MovesTo
    <2>4. ASSUME NEW status, MovesTo(d, status, disputes[d].resolution)
          PROVE  /\ disputes'[d].resolution = disputes[d].resolution
                 /\ disputes'[d].status = status
      BY <2>4 DEF MovesTo
    <2>. QED  BY <1>1, <2>1, <2>2, <2>3, <2>4, DisputeSteps
  <1>2. TypeOK /\ OneDisputePerJob /\ RulingsGood /\ [Next]_vars =>
          \A d \in DisputeIds :
             disputes[d] # None /\ disputes[d].resolution # None =>
                /\ disputes'[d].resolution = disputes[d].resolution
                /\ disputes'[d].status # disputes[d].status =>
                      /\ disputes'[d].status = "Appealed"
                      /\ now <= disputes[d].resolution.resolution_block
                                  + AppealWindow
    BY <1>1
  <1>. QED
    BY <1>2, TypeCorrect, JobsDisputedOnce, RulingsInvariant, PTL
    DEF Spec, RulingFinal

-----------------------------------------------------------------------------
(* Bonds *)

\* The challenger of d has no other dispute.
Sole(d) == \A e \in Existing : e.challenger_id = d.challenger_id => e = d

\* What is kept of the bond put up for d.
Due(d) ==
    IF ~Closed(d) THEN disputes[d].bond
    ELSE IF disputes[d].outputs = "different" THEN None ELSE 0

GoodBond(d) == Sole(d) => frozen_bonds[d.challenger_id] = Due(d)

\* Every operation keeps the bond of a challenger's only dispute in step.
LEMMA NextBond ==
    ASSUME TypeOK, OneDisputePerJob, RulingsGood, [Next]_vars,
           \A d \in Existing : GoodBond(d), NEW e \in Existing', Sole(e)'
    PROVE  frozen_bonds'[e.challenger_id] = Due(e)'
  <1>0. ASSUME e \in Existing, Existing \subseteq Existing'
        PROVE  frozen_bonds[e.challenger_id] = Due(e)
    BY <1>0 DEF GoodBond, Sole
  <1>1. ASSUME e \in Existing, Closed(e)' <=> Closed(e),
               disputes'[e].bond = disputes[e].bond,
               disputes'[e].outputs = disputes[e].outputs
        PROVE  Due(e)' = Due(e)
    BY <1>1 DEF Due
  <1>2. ASSUME e \in Existing, Existing \subseteq Existing',
               disputes'[e] = disputes[e],
               frozen_bonds'[e.challenger_id] = frozen_bonds[e.challenger_id]
        PROVE  frozen_bonds'[e.challenger_id] = Due(e)'
    BY <1>0, <1>1, <1>2 DEF Closed
  <1>3. CASE UNCHANGED <<disputes, disputes_by_job, frozen_bonds>>
    BY <1>2, <1>3 DEF Existing
  <1>4. ASSUME NEW j \in Jobs, NEW c \in Challengers, NEW bond \in Bonds,
               NEW outputs \in {"equal", "different"},
               NEW rb \in 0 .. now, NEW w \in Windows,
               InitiateDispute(j, c, bond, outputs, rb, w)
        PROVE  frozen_bonds'[e.challenger_id] = Due(e)'
    <2>1. PICK id \in DisputeIds : Opens(id, j, c, bond, outputs)
      BY <1>4, Initiated, Zenon
    <2>2. frozen_bonds' = [frozen_bonds EXCEPT ![c] = bond]
      BY <1>4, Zenon DEF InitiateDispute
    <2>3. CASE e = id
      <3>1. frozen_bonds'[e.challenger_id] = bond
        BY <2>1, <2>2, <2>3 DEF Opens, TypeOK
      <3>2. ~Closed(e)' /\ disputes'[e].bond = bond
        BY <2>1, <2>3 DEF Opens, Closed
      <3>. QED  BY <3>1, <3>2 DEF Due
    <2>4. CASE e # id
      <3>1. e \in Existing /\ id \in Existing' /\ Existing \subseteq Existing'
            /\ disputes'[e] = disputes[e] /\ id.challenger_id = c
        BY <2>1, <2>4 DEF Opens
      <3>2. e.challenger_id # c
        BY <2>4, <3>1 DEF Sole
      <3>3. e.challenger_id \in Challengers
        BY <3>1 DEF Existing, DisputeIds
      <3>4. frozen_bonds'[e.challenger_id] = frozen_bonds[e.challenger_id]
        BY <2>2, <3>2, <3>3 DEF TypeOK
      <3>. QED  BY <1>2, <3>1, <3>4
    <2>. QED  BY <2>3, <2>4
  <1>5. ASSUME NEW d \in DisputeIds, NEW status,
               MovesTo(d, status, disputes[d].resolution),
               frozen_bonds' = frozen_bonds,
               (status \in {"Resolved", "Appealed"}) <=> Closed(d)
        PROVE  frozen_bonds'[e.challenger_id] = Due(e)'
    <2>1. CASE e = d
      <3>1. /\ e \in Existing /\ Existing \subseteq Existing'
            /\ disputes'[e].bond = disputes[e].bond
            /\ disputes'[e].outputs = disputes[e].outputs
            /\ disputes'[e].status = status
        BY <1>5, <2>1 DEF MovesTo
      <3>2. Closed(e)' <=> Closed(e)
        BY <1>5, <2>1, <3>1 DEF Closed
      <3>. QED  BY <1>0, <1>1, <1>5, <3>1, <3>2
    <2>2. CASE e # d
      BY <1>2, <1>5, <2>2 DEF MovesTo
    <2>. QED  BY <2>1, <2>2
  <1>6. ASSUME NEW d \in DisputeIds, NEW budget \in Budgets, NEW cost \in Costs,
               ~Closed(d), MovesTo(d, "Resolved", Ruling(d, budget, cost)),
               ResolveDispute(d, budget, cost)
        PROVE  frozen_bonds'[e.challenger_id] = Due(e)'
    <2>. DEFINE ruling == Ruling(d, budget, cost)
    <2>1. /\ \A c \in Challengers \ {d.challenger_id} :
               frozen_bonds'[c] = frozen_bonds[c]
          /\ frozen_bonds'[d.challenger_id]
               = BondAfter(frozen_bonds[d.challenger_id], ruling)
      BY <1>6, Resolved
    <2>2. /\ Existing' = Existing /\ d \in Existing
          /\ \A x \in Existing \ {d} : disputes'[x] = disputes[x]
          /\ disputes'[d].status = "Resolved"
          /\ disputes'[d].outputs = disputes[d].outputs
      BY <1>6 DEF MovesTo
    <2>3. ruling \in Rulings /\ GoodRuling(d, ruling)
      BY <1>6, RulingType DEF MovesTo, Existing
    <2>. HIDE DEF ruling
    <2>4. CASE e = d
      <3>1. frozen_bonds[d.challenger_id] = disputes[d].bond
        BY <1>0, <1>6, <2>2, <2>4 DEF Due
      <3>2. disputes[d].bond \in Nat /\ disputes[d].bond # None
        BY <2>2, NoneAssumption DEF Existing, TypeOK, Disputes
      <3>3. Due(d)' = IF disputes[d].outputs = "different" THEN None ELSE 0
        BY <2>2 DEF Due, Closed
      <3>4. ruling.outcome \in {"FraudConfirmed", "FraudRejected"}
        BY <2>3 DEF Rulings
      <3>5. BondAfter(disputes[d].bond, ruling)
              = IF disputes[d].outputs = "different" THEN None ELSE 0
        BY <2>3, <3>2, <3>4 DEF GoodRuling, BondAfter, SaturatingSub
      <3>. QED  BY <2>1, <2>4, <3>1, <3>3, <3>5
    <2>5. CASE e # d
      <3>1. e.challenger_id # d.challenger_id
        BY <2>2, <2>5 DEF Sole
      <3>2. e.challenger_id \in Challengers
        BY <2>2 DEF Existing, DisputeIds
      <3>. QED  BY <1>2, <2>1, <2>2, <2>5, <3>1, <3>2
    <2>. QED  BY <2>4, <2>5
  <1>7. ASSUME NEW d \in DisputeIds, NEW status \in Statuses \ {"Resolved", "Appealed"},
               ~Closed(d), MovesTo(d, status, disputes[d].resolution),
               frozen_bonds' = frozen_bonds
        PROVE  frozen_bonds'[e.challenger_id] = Due(e)'
    BY <1>5, <1>7
  <1>8. ASSUME NEW d \in DisputeIds, disputes[d].status = "Resolved",
               MovesTo(d, "Appealed", disputes[d].resolution),
               frozen_bonds' = frozen_bonds
        PROVE  frozen_bonds'[e.challenger_id] = Due(e)'
    BY <1>5, <1>8 DEF Closed
  <1>. QED  BY <1>3, <1>4, <1>6, <1>7, <1>8, DisputeSteps

\* No dispute is of a later block than the present one.
NotAhead == \A d \in Existing : d.block <= now

LEMMA NotAheadHolds == Spec => []NotAhead
  <1>1. Init => NotAhead
    BY DEF Init, NotAhead, Existing
  <1>2. TypeOK /\ NotAhead /\ [Next]_vars => NotAhead'
    <2>. SUFFICES ASSUME TypeOK, NotAhead, [Next]_vars, NEW e \in Existing'
                  PROVE  e.block <= now'
      BY DEF NotAhead
    <2>1. e \in DisputeIds /\ e.block \in Nat /\ now \in Nat
      BY NumbersAssumption DEF Existing, DisputeIds, Blocks, TypeOK
    <2>2. now' = now \/ now' = now + 1
      <3>1. CASE Tick
        BY <3>1 DEF Tick
      <3>2. CASE UNCHANGED vars
        BY <3>2 DEF vars
      <3>3. CASE Next /\ ~Tick
        BY <3>3, Zenon DEF Next, InitEscrow, InitiateDispute, EscalateToVerification,
                           SubmitVerificationResult, ResolveDispute, SubmitAppeal
      <3>. QED  BY <3>1, <3>2, <3>3
    <2>3. e \in Existing \/ e.block = now
      <3>1. ASSUME NEW d \in DisputeIds, NEW status, NEW r,
                   disputes[d] # None, disputes' = Moved(d, status, r)
            PROVE  e \in Existing
        BY <2>1, <3>1 DEF Existing, Moved, TypeOK
      <3>2. ASSUME NEW j \in Jobs, NEW c \in Challengers, NEW bond \in Bonds,
                   NEW outputs \in {"equal", "different"},
                   NEW rb \in 0 .. now, NEW w \in Windows,
                   InitiateDispute(j, c, bond, outputs, rb, w)
            PROVE  e \in Existing \/ e.block = now
        BY <2>1, <3>2 DEF Existing, InitiateDispute, TypeOK
      <3>3. CASE UNCHANGED disputes
        BY <3>3 DEF Existing
      <3>. QED
        BY <3>1, <3>2, <3>3, Zenon
        DEF Next, vars, Tick, InitEscrow, EscalateToVerification,
            SubmitVerificationResult, ResolveDispute, SubmitAppeal
    <2>. QED  BY <2>1, <2>2, <2>3 DEF NotAhead
  <1>. QED  BY <1>1, <1>2, TypeCorrect, PTL DEF Spec

\* What BondHeld says of a challenger with any number of disputes.
KeptOf(c, d) ==
    \/ frozen_bonds[c] = disputes[d].bond
    \/ /\ frozen_bonds[c] < disputes[d].bond
       /\ \E e \in Mine(c) : Found(e, "equal")
NewestKept(c) ==
    /\ frozen_bonds[c] = None =>
          Mine(c) = {} \/ \E d \in Mine(c) : Found(d, "different")
    /\ frozen_bonds[c] # None => \E d \in Mine(c) : Newest(d) /\ KeptOf(c, d)

LEMMA BondPointwise ==
    BondHeld <=> /\ \A d \in Existing : d.challenger_id \in Challengers => GoodBond(d)
                 /\ \A c \in Challengers : NewestKept(c)
  <1>1. ASSUME NEW c, NEW d \in Existing, d.challenger_id = c
        PROVE  Mine(c) = {d} <=> Sole(d)
    BY <1>1 DEF Mine, Sole
  <1>2. ASSUME NEW d
        PROVE  Due(d) = IF Found(d, "different") THEN None
                        ELSE IF Closed(d) THEN 0 ELSE disputes[d].bond
    BY DEF Due, Found
  <1>3. \A c : \A d \in Mine(c) : d \in Existing /\ d.challenger_id = c
    BY DEF Mine
  <1>. HIDE DEF Due
  <1>. QED  BY <1>1, <1>2, <1>3 DEF BondHeld, GoodBond, NewestKept, KeptOf, Mine

\* The disputes of c are still there, as they were but for their status, and
\* what was ruled stays ruled.
Same(c) ==
    /\ Mine(c)' = Mine(c)
    /\ \A d \in Mine(c) : /\ disputes'[d].bond = disputes[d].bond
                          /\ \A outputs : Found(d, outputs) => Found(d, outputs)'

LEMMA SameKeeps ==
    ASSUME NEW c, NewestKept(c), Same(c), frozen_bonds'[c] = frozen_bonds[c]
    PROVE  NewestKept(c)'
  <1>1. CASE frozen_bonds[c] = None
    BY <1>1 DEF NewestKept, Same
  <1>2. CASE frozen_bonds[c] # None
    <2>1. PICK d \in Mine(c) : Newest(d) /\ KeptOf(c, d)
      BY <1>2 DEF NewestKept
    <2>2. Newest(d)'
      BY <2>1 DEF Newest, Same, Mine
    <2>3. KeptOf(c, d)'
      BY <2>1 DEF KeptOf, Same
    <2>. QED  BY <1>2, <2>1, <2>2, <2>3 DEF NewestKept, Same
  <1>. QED  BY <1>1, <1>2

\* A dispute that moves on is still the same.
LEMMA MovingSame ==
    ASSUME NEW d \in DisputeIds, NEW status, NEW r, MovesTo(d, status, r),
           Closed(d) => status \in {"Resolved", "Appealed"}, NEW c
    PROVE  Same(c)
  <1>1. Mine(c)' = Mine(c)
    BY DEF MovesTo, Mine
  <1>2. ASSUME NEW e \in Existing
        PROVE  /\ disputes'[e].bond = disputes[e].bond
               /\ disputes'[e].outputs = disputes[e].outputs
               /\ Closed(e) => Closed(e)'
    BY DEF MovesTo, Closed
  <1>. QED  BY <1>1, <1>2 DEF Same, Mine, Found

\* Every operation keeps the newest bond of a challenger.
LEMMA NextNewest ==
    ASSUME TypeOK, OneDisputePerJob, RulingsGood, NotAhead, [Next]_vars,
           NEW c \in Challengers, NewestKept(c)
    PROVE  NewestKept(c)'
  <1>1. CASE UNCHANGED <<disputes, disputes_by_job, frozen_bonds>>
    <2>1. Same(c)
      BY <1>1 DEF Same, Mine, Existing, Found, Closed
    <2>. QED  BY <1>1, <2>1, SameKeeps
  <1>2. ASSUME NEW j \in Jobs, NEW b \in Challengers, NEW bond \in Bonds,
               NEW outputs \in {"equal", "different"},
               NEW rb \in 0 .. now, NEW w \in Windows,
               InitiateDispute(j, b, bond, outputs, rb, w)
        PROVE  NewestKept(c)'
    <2>1. PICK id \in DisputeIds : Opens(id, j, b, bond, outputs)
      BY <1>2, Initiated, Zenon
    <2>2. frozen_bonds' = [frozen_bonds EXCEPT ![b] = bond]
      BY <1>2, Zenon DEF InitiateDispute
    <2>3. CASE c = b
      <3>1. frozen_bonds'[c] = bond /\ disputes'[id].bond = bond /\ bond # None
        BY <2>1, <2>2, <2>3, SetsAssumption, NoneAssumption DEF Opens, TypeOK
      <3>2. id \in Mine(c)' /\ Mine(c)' \subseteq Existing \cup {id}
        BY <2>1, <2>3 DEF Opens, Mine
      <3>3. \A e \in Existing \cup {id} : e.block <= id.block
        BY <2>1, NumbersAssumption DEF Opens, NotAhead, TypeOK, Blocks
      <3>4. Newest(id)'
        BY <2>1, <2>3, <3>2, <3>3 DEF Opens, Newest
      <3>. QED  BY <3>1, <3>2, <3>4 DEF NewestKept, KeptOf
    <2>4. CASE c # b
      <3>1. Mine(c)' = Mine(c)
        BY <2>1, <2>4 DEF Opens, Mine
      <3>2. \A d \in Mine(c) : disputes'[d] = disputes[d]
        BY <2>1 DEF Opens, Mine
      <3>3. Same(c)
        BY <3>1, <3>2 DEF Same, Found, Closed
      <3>. QED  BY <2>2, <2>4, <3>3, SameKeeps DEF TypeOK
    <2>. QED  BY <2>3, <2>4
  <1>3. ASSUME NEW d \in DisputeIds, ~Closed(d),
               NEW status \in Statuses \ {"Resolved", "Appealed"},
               MovesTo(d, status, disputes[d].resolution), frozen_bonds' = frozen_bonds
        PROVE  NewestKept(c)'
    BY <1>3, MovingSame, SameKeeps
  <1>4. ASSUME NEW d \in DisputeIds, MovesTo(d, "Appealed", disputes[d].resolution),
               frozen_bonds' = frozen_bonds
        PROVE  NewestKept(c)'
    BY <1>4, MovingSame, SameKeeps
  <1>5. ASSUME NEW d \in DisputeIds, NEW budget \in Budgets, NEW cost \in Costs,
               MovesTo(d, "Resolved", Ruling(d, budget, cost)),
               ResolveDispute(d, budget, cost)
        PROVE  NewestKept(c)'
    <2>. DEFINE ruling == Ruling(d, budget, cost)
    <2>1. /\ \A b \in Challengers \ {d.challenger_id} :
               frozen_bonds'[b] = frozen_bonds[b]
          /\ frozen_bonds'[d.challenger_id]
               = BondAfter(frozen_bonds[d.challenger_id], ruling)
      BY <1>5, Resolved
    <2>2. /\ d \in Existing /\ disputes'[d].status = "Resolved"
          /\ disputes'[d].outputs = disputes[d].outputs
      BY <1>5 DEF MovesTo
    <2>3. ruling \in Rulings /\ GoodRuling(d, ruling)
      BY <1>5, RulingType DEF MovesTo, Existing
    <2>4. Same(c)
      BY <1>5, MovingSame
    <2>. HIDE DEF ruling
    <2>5. CASE c # d.challenger_id
      BY <2>1, <2>4, <2>5, SameKeeps
    <2>6. CASE c = d.challenger_id
      <3>1. d \in Mine(c) /\ d \in Mine(c)'
        BY <2>2, <2>4, <2>6 DEF Mine, Same
      <3>2. /\ ruling.outcome = "FraudConfirmed" => Found(d, "different")'
            /\ ruling.outcome = "FraudRejected" => Found(d, "equal")'
            /\ ruling.outcome \in {"FraudConfirmed", "FraudRejected"}
            /\ ruling.slashed_amount \in Nat
        <4>1. disputes[d].outputs \in {"equal", "different"}
          BY <2>2 DEF Existing, TypeOK, Disputes
        <4>. QED  BY <2>2, <2>3, <4>1 DEF GoodRuling, Rulings, Found, Closed
      <3>3. CASE frozen_bonds[c] = None
        <4>1. frozen_bonds'[c] = None
          BY <2>1, <2>6, <3>3 DEF BondAfter
        <4>. QED  BY <2>4, <3>3, <4>1, SameKeeps
      <3>4. CASE frozen_bonds[c] # None /\ ruling.outcome = "FraudConfirmed"
        <4>1. frozen_bonds'[c] = None
          BY <2>1, <2>6, <3>4 DEF BondAfter
        <4>. QED  BY <3>1, <3>2, <3>4, <4>1 DEF NewestKept
      <3>5. CASE frozen_bonds[c] # None /\ ruling.outcome = "FraudRejected"
        <4>1. PICK e \in Mine(c) : Newest(e) /\ KeptOf(c, e)
          BY <3>5 DEF NewestKept
        <4>2. /\ frozen_bonds[c] \in Nat
              /\ frozen_bonds'[c] = SaturatingSub(frozen_bonds[c], ruling.slashed_amount)
          BY <2>1, <2>6, <3>5 DEF BondAfter, TypeOK
        <4>3. /\ disputes[e].bond \in Nat /\ disputes'[e].bond = disputes[e].bond
              /\ e \in Mine(c)'
          BY <2>4, <4>1 DEF Same, Mine, Existing, TypeOK, Disputes
        <4>4. frozen_bonds'[c] \in Nat /\ frozen_bonds'[c] <= frozen_bonds[c]
          BY <3>2, <4>2 DEF SaturatingSub
        <4>5. frozen_bonds'[c] <= disputes'[e].bond
          BY <4>1, <4>2, <4>3, <4>4 DEF KeptOf
        <4>6. KeptOf(c, e)'
          BY <3>1, <3>2, <3>5, <4>3, <4>4, <4>5 DEF KeptOf
        <4>7. Newest(e)'
          BY <2>4, <4>1 DEF Newest, Same, Mine
        <4>8. frozen_bonds'[c] # None
          BY <4>4, NoneAssumption
        <4>. QED  BY <4>3, <4>6, <4>7, <4>8 DEF NewestKept
      <3>. QED  BY <3>2, <3>3, <3>4, <3>5
    <2>. QED  BY <2>5, <2>6
  <1>. QED  BY <1>1, <1>2, <1>3, <1>4, <1>5, DisputeSteps

\* The bond of a challenger's newest dispute is kept until a ruling in one of
\* the challenger's disputes gives it back or takes from it.
THEOREM BondsHeld == Spec => []BondHeld
  <1>1. Init => BondHeld
    BY DEF Init, BondHeld, Existing, Mine
  <1>2. TypeOK /\ OneDisputePerJob /\ RulingsGood /\ NotAhead /\ BondHeld
          /\ [Next]_vars => BondHeld'
    <2>. SUFFICES ASSUME TypeOK, OneDisputePerJob, RulingsGood, NotAhead,
                         BondHeld, [Next]_vars
                  PROVE  BondHeld'
      OBVIOUS
    <2>1. \A d \in Existing : GoodBond(d)
      BY BondPointwise DEF Existing, DisputeIds
    <2>2. \A c \in Challengers : NewestKept(c)
      BY BondPointwise
    <2>3. \A e \in Existing' : GoodBond(e)'
      BY <2>1, NextBond DEF GoodBond
    <2>4. \A c \in Challengers : NewestKept(c)'
      BY <2>2, NextNewest
    <2>5. (BondHeld <=> /\ \A d \in Existing : d.challenger_id \in Challengers => GoodBond(d)
                        /\ \A c \in Challengers : NewestKept(c))'
      BY BondPointwise, PTL
    <2>. QED  BY <2>3, <2>4, <2>5
  <1>. QED
    BY <1>1, <1>2, TypeCorrect, JobsDisputedOnce, RulingsInvariant, NotAheadHolds, PTL
    DEF Spec

=============================================================================
