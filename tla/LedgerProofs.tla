---------------------------- MODULE LedgerProofs ----------------------------
(***************************************************************************)
(* Proofs about Ledger, for every set of jobs, operators and senders, all  *)
(* amounts, stakes and reputation marks, and any bounds.                   *)
(***************************************************************************)
EXTENDS Ledger, FoldLemmas

\* Every stake an operator can have lies in a bucket of the index.
LEMMA BucketType ==
    ASSUME NEW s \in 0 .. MaxStake
    PROVE  Bucket(s) \in Buckets
  BY DEF Buckets

\* There are finitely many receipt ids.
LEMMA ReceiptIdsFinite == IsFiniteSet(ReceiptIds)
  <1>1. IsFiniteSet(Heights)
    BY FS_Interval, NumbersAssumption DEF Heights
  <1>2. IsFiniteSet((Senders \X Outputs) \X Heights)
    BY <1>1, FS_Product, SetsAssumption
  <1>. DEFINE F == [p \in (Senders \X Outputs) \X Heights |->
                      [operator_id |-> p[1][1], output_hash |-> p[1][2],
                       block |-> p[2]]]
  <1>3. F \in Surjection((Senders \X Outputs) \X Heights, ReceiptIds)
    <2>1. F \in [(Senders \X Outputs) \X Heights -> ReceiptIds]
      BY DEF ReceiptIds
    <2>2. ASSUME NEW r \in ReceiptIds
          PROVE  \E p \in (Senders \X Outputs) \X Heights : F[p] = r
      <3>. DEFINE p == <<<<r.operator_id, r.output_hash>>, r.block>>
      <3>1. p \in (Senders \X Outputs) \X Heights
        BY DEF ReceiptIds
      <3>2. F[p] = r
        BY <3>1 DEF ReceiptIds
      <3>. QED  BY <3>1, <3>2
    <2>. QED  BY <2>1, <2>2 DEF Surjection
  <1>. HIDE DEF F
  <1>. QED  BY <1>2, <1>3, FS_Surjection

\* The root computed from a well-typed state is a root.
LEMMA RootType ==
    ASSUME TypeOK, NEW h \in Heights
    PROVE  RootHash(h) \in Roots
  <1>1. Keys(receipt_anchors) \subseteq ReceiptIds
    BY DEF TypeOK, Keys
  <1>2. Cardinality(Keys(receipt_anchors)) \in Nat
    BY <1>1, ReceiptIdsFinite, FS_Subset, FS_CardinalityType
  <1>3. Keys(job_escrows) \subseteq Jobs /\ Keys(operators) \subseteq Operators
    BY DEF TypeOK, Keys
  <1>. QED  BY <1>2, <1>3 DEF RootHash, Roots

-----------------------------------------------------------------------------
(* Type correctness *)

\* The empty state of State::new and SettlementState::new is well typed.
LEMMA InitType == Init => TypeOK
  BY SetsAssumption, NumbersAssumption
     DEF Init, TypeOK, Heights

\* A reputation change yields an operator record with a reputation in range.
LEMMA ReputationType ==
    ASSUME NEW op \in OperatorStates, NEW d \in Nat
    PROVE  /\ IncreaseReputation(op, d) \in OperatorStates
           /\ DecreaseReputation(op, d) \in OperatorStates
  BY NumbersAssumption
     DEF OperatorStates, OperatorStatus, IncreaseReputation, DecreaseReputation,
         StatusRaised, StatusLowered, Larger, Smaller

\* Paying out or (un)freezing keeps the escrow map well typed.
LEMMA PayType ==
    ASSUME TypeOK, NEW j \in Jobs, NEW status \in EscrowStatus,
           job_escrows[j] # None, SetEscrowStatus(j, status)
    PROVE  job_escrows' \in [Jobs -> Escrows \cup {None}]
  BY DEF TypeOK, SetEscrowStatus, Escrows

\* What is paid is a natural number.
LEMMA PaidType ==
    ASSUME TypeOK, NEW j \in Jobs, NEW status \in EscrowStatus, Pay(j, status)
    PROVE  /\ job_escrows' \in [Jobs -> Escrows \cup {None}]
           /\ paid' \in [Jobs -> Nat]
           /\ UNCHANGED <<funded, overwritten>>
  <1>1. job_escrows' \in [Jobs -> Escrows \cup {None}]
    BY PayType DEF Pay, Payable
  <1>2. job_escrows[j].amount \in Nat
    BY SetsAssumption DEF TypeOK, Pay, Payable, Escrows
  <1>3. paid[j] + job_escrows[j].amount \in Nat
    BY <1>2 DEF TypeOK
  <1>4. paid' \in [Jobs -> Nat]
    BY <1>3 DEF TypeOK, Pay
  <1>. QED  BY <1>1, <1>4 DEF Pay

\* Appending an entry to a bucket's list, and removing an operator from it,
\* yield an index again.
LEMMA IndexType ==
    ASSUME NEW index \in [Buckets -> [Operators -> Nat]],
           NEW b \in Buckets, NEW o \in Operators
    PROVE  /\ Pushed(index, b, o) \in [Buckets -> [Operators -> Nat]]
           /\ Retained(index, b, o) \in [Buckets -> [Operators -> Nat]]
  BY DEF Pushed, Retained

\* Every transaction, direct call and block step keeps the state well typed.
LEMMA NextType == TypeOK /\ [Next]_vars => TypeOK'
  <1>. SUFFICES ASSUME TypeOK, [Next]_vars PROVE TypeOK'
    OBVIOUS
  <1>. USE DEF chain, escrow, registry, receipts, pool
  <1>1. ASSUME UNCHANGED vars PROVE TypeOK'
    BY <1>1 DEF vars, TypeOK
  <1>2. ASSUME BeginBlock \/ AbortBlock \/ NoEffect PROVE TypeOK'
    BY <1>2, NumbersAssumption
       DEF TypeOK, BeginBlock, AbortBlock, NoEffect, Transaction, Call
  <1>3. ASSUME FinalizeBlock PROVE TypeOK'
    <2>1. height + 1 \in Heights
      BY <1>3, NumbersAssumption DEF FinalizeBlock, TypeOK, Heights
    <2>2. RootHash(height + 1) \in Roots
      BY <2>1, RootType
    <2>. QED  BY <1>3, <2>1, <2>2 DEF FinalizeBlock, TypeOK
  <1>4. ASSUME NEW j \in Jobs, NEW c \in Senders, NEW a \in Amounts,
               CreateEscrow(j, c, a)
        PROVE  TypeOK'
    <2>1. Held(j) \in Nat /\ a \in Nat
      BY SetsAssumption DEF TypeOK, Held, Escrows
    <2>2. [client_id |-> c, amount |-> a, status |-> "Active"] \in Escrows
      BY DEF Escrows, EscrowStatus
    <2>3. calls' \in 0 .. MaxCalls
      BY <1>4, NumbersAssumption DEF TypeOK, CreateEscrow, Transaction, Call
    <2>. HIDE DEF Held
    <2>. QED  BY <1>4, <2>1, <2>2, <2>3 DEF TypeOK, CreateEscrow, Transaction
  <1>5. ASSUME NEW j \in Jobs, EscrowRelease(j) \/ EscrowRefund(j)
        PROVE  TypeOK'
    BY <1>5, PaidType, NumbersAssumption
       DEF TypeOK, EscrowRelease, EscrowRefund, EscrowStatus, Transaction, Call
  <1>6. ASSUME NEW j \in Jobs, Freeze(j) \/ Unfreeze(j)
        PROVE  TypeOK'
    BY <1>6, PayType, NumbersAssumption
       DEF TypeOK, Freeze, Unfreeze, EscrowStatus, Direct, Call
  <1>7. ASSUME NEW s \in Senders, NEW out \in Outputs, JobSettle(s, out)
        PROVE  TypeOK'
    <2>1. /\ job_escrows' \in [Jobs -> Escrows \cup {None}]
          /\ paid' \in [Jobs -> Nat]
          /\ UNCHANGED <<funded, overwritten>>
      BY <1>7, PaidType DEF JobSettle, EscrowStatus, TypeOK
    <2>2. receipt_anchors' \in [ReceiptIds -> ReceiptStatus \cup {None}]
      BY <1>7 DEF JobSettle, TypeOK, ReceiptStatus
    <2>3. calls' \in 0 .. MaxCalls
      BY <1>7, NumbersAssumption DEF TypeOK, JobSettle, Transaction, Call
    <2>. QED  BY <1>7, <2>1, <2>2, <2>3 DEF JobSettle, TypeOK, Transaction
  <1>8. ASSUME NEW r \in ReceiptIds, NEW status \in ReceiptStatus \ {"Submitted"},
               ReviewReceipt(r, status)
        PROVE  TypeOK'
    BY <1>8, NumbersAssumption DEF TypeOK, ReviewReceipt, Direct, Call
  <1>9. ASSUME NEW s \in Senders, NEW o \in Operators,
               IntelligenceSubmit(s, o) \/ IntelligenceSettle(s, o)
        PROVE  TypeOK'
    <2>1. <<s, o>> \in Senders \X Operators
      OBVIOUS
    <2>2. intelligence_receipts' \in [Senders \X Operators -> BOOLEAN \cup {None}]
      BY <1>9, <2>1, Zenon DEF TypeOK, IntelligenceSubmit, IntelligenceSettle
    <2>3. calls' \in 0 .. MaxCalls
      BY <1>9, NumbersAssumption
         DEF TypeOK, IntelligenceSubmit, IntelligenceSettle, Transaction, Call
    <2>. QED
      BY <1>9, <2>2, <2>3
         DEF TypeOK, IntelligenceSubmit, IntelligenceSettle, Transaction
  <1>10. ASSUME NEW o \in Operators, NEW fee \in Stakes, NEW stake \in Stakes,
                OperatorRegister(o, fee, stake)
         PROVE  TypeOK'
    <2>1. Larger(fee, stake) \in 0 .. MaxStake
      BY SetsAssumption DEF Larger
    <2>2. operators' \in [Operators -> OperatorStates \cup {None}]
      <3>1. [stake |-> Larger(fee, stake), reputation |-> InitialReputation,
             status |-> "Active", slashed_count |-> 0] \in OperatorStates
        BY <2>1, NumbersAssumption DEF OperatorStates, OperatorStatus
      <3>. QED  BY <1>10, <3>1 DEF OperatorRegister, TypeOK
    <2>3. stake_index' \in [Buckets -> [Operators -> Nat]]
      BY <1>10, <2>1, BucketType, IndexType DEF OperatorRegister, TypeOK
    <2>4. calls' \in 0 .. MaxCalls
      BY <1>10, NumbersAssumption DEF TypeOK, OperatorRegister, Transaction, Call
    <2>. QED  BY <1>10, <2>2, <2>3, <2>4 DEF OperatorRegister, TypeOK, Transaction
  <1>11. ASSUME NEW o \in Operators, NEW delta \in Deltas, ReputationUpdate(o, delta)
         PROVE  TypeOK'
    <2>1. delta >= 0 => delta \in Nat
      BY SetsAssumption
    <2>2. ~(delta >= 0) => -delta \in Nat
      BY SetsAssumption
    <2>3. operators' \in [Operators -> OperatorStates \cup {None}]
      BY <1>11, <2>1, <2>2, ReputationType DEF ReputationUpdate, TypeOK
    <2>4. calls' \in 0 .. MaxCalls
      BY <1>11, NumbersAssumption DEF TypeOK, ReputationUpdate, Transaction, Call
    <2>. QED  BY <1>11, <2>3, <2>4 DEF ReputationUpdate, TypeOK, Transaction
  <1>12. ASSUME NEW o \in Operators, NEW stake \in Stakes, UpdateStake(o, stake)
         PROVE  TypeOK'
    <2>1. stake \in 0 .. MaxStake /\ operators[o] \in OperatorStates
      BY <1>12, SetsAssumption DEF TypeOK, UpdateStake
    <2>2. operators' \in [Operators -> OperatorStates \cup {None}]
      BY <1>12, <2>1 DEF UpdateStake, TypeOK, OperatorStates
    <2>3. /\ Bucket(stake) \in Buckets
          /\ Bucket(operators[o].stake) \in Buckets
      BY <2>1, BucketType DEF OperatorStates
    <2>4. stake_index' \in [Buckets -> [Operators -> Nat]]
      BY <1>12, <2>3, IndexType DEF UpdateStake, TypeOK
    <2>5. calls' \in 0 .. MaxCalls
      BY <1>12, NumbersAssumption DEF TypeOK, UpdateStake, Direct, Call
    <2>. QED  BY <1>12, <2>2, <2>4, <2>5 DEF UpdateStake, TypeOK, Direct
  <1>13. ASSUME NEW o \in Operators, Deactivate(o)
         PROVE  TypeOK'
    <2>1. operators' \in [Operators -> OperatorStates \cup {None}]
      BY <1>13 DEF Deactivate, TypeOK, OperatorStates, OperatorStatus
    <2>2. calls' \in 0 .. MaxCalls
      BY <1>13, NumbersAssumption DEF TypeOK, Deactivate, Direct, Call
    <2>. QED  BY <1>13, <2>1, <2>2 DEF Deactivate, TypeOK, Direct
  <1>14. ASSUME NEW o \in Operators, NEW a \in Amounts, Slash(o, a)
         PROVE  TypeOK'
    <2>1. /\ operators[o] \in OperatorStates
          /\ a \in Nat
          /\ operators[o].stake >= a
      BY <1>14, SetsAssumption DEF TypeOK, Slash
    <2>2. operators[o].stake - a \in 0 .. MaxStake
      BY <2>1, NumbersAssumption DEF OperatorStates
    <2>3. operators' \in [Operators -> OperatorStates \cup {None}]
      BY <1>14, <2>1, <2>2 DEF Slash, TypeOK, OperatorStates, OperatorStatus
    <2>4. stake_index' \in [Buckets -> [Operators -> Nat]]
      BY <1>14, <2>2, BucketType, IndexType DEF Slash, TypeOK
    <2>5. calls' \in 0 .. MaxCalls
      BY <1>14, NumbersAssumption DEF TypeOK, Slash, Direct, Call
    <2>. QED  BY <1>14, <2>3, <2>4, <2>5 DEF Slash, TypeOK, Direct
  <1>15. ASSUME NEW a \in Amounts, AddSlashedToPool(a)
         PROVE  TypeOK'
    BY <1>15, SetsAssumption, NumbersAssumption
       DEF AddSlashedToPool, TypeOK, Direct, Call
  <1>16. ASSUME NEW a \in Amounts, NEW list \in VerifierLists,
                DistributeVerifierRewards(list, a)
         PROVE  TypeOK'
    <2>1. a \in Nat /\ slashing_pool - a \in Nat
      BY <1>16, SetsAssumption DEF DistributeVerifierRewards, TypeOK
    <2>2. verifier_rewards' \in [Verifiers -> Nat]
      <3>1. list \in Seq(Verifiers) /\ Len(list) \in Nat
        BY SetsAssumption
      <3>2. ASSUME list # <<>> PROVE PerVerifier(a, list) \in Nat
        <4>1. Len(list) > 0
          BY <3>1, <3>2
        <4>. QED  BY <2>1, <3>1, <4>1 DEF PerVerifier
      <3>3. ASSUME NEW v \in Verifiers PROVE Occurrences(v, list) \in Nat
        <4>1. DOMAIN list = 1 .. Len(list)
          BY <3>1
        <4>2. IsFiniteSet(1 .. Len(list))
          BY <3>1, FS_Interval
        <4>. QED  BY <4>1, <4>2, FS_Subset, FS_CardinalityType DEF Occurrences
      <3>4. ASSUME list # <<>>, NEW v \in Verifiers
            PROVE  verifier_rewards[v]
                     + PerVerifier(a, list) * Occurrences(v, list) \in Nat
        <4>. DEFINE p == PerVerifier(a, list)
                    n == Occurrences(v, list)
        <4>1. p \in Nat /\ n \in Nat /\ verifier_rewards[v] \in Nat
          BY <3>2, <3>3, <3>4 DEF TypeOK
        <4>. HIDE DEF p, n
        <4>2. verifier_rewards[v] + p * n \in Nat
          BY <4>1
        <4>. QED  BY <4>2 DEF p, n
      <3>. QED  BY <1>16, <3>4 DEF DistributeVerifierRewards, TypeOK
    <2>3. calls' \in 0 .. MaxCalls
      BY <1>16, NumbersAssumption DEF TypeOK, DistributeVerifierRewards, Direct, Call
    <2>4. undivided' \in Nat
      <3>1. list \in Seq(Verifiers) /\ (list # <<>> => a % Len(list) \in Nat)
        BY <2>1, SetsAssumption
      <3>. QED  BY <1>16, <2>1, <3>1 DEF DistributeVerifierRewards, TypeOK
    <2>. QED  BY <1>16, <2>1, <2>2, <2>3, <2>4 DEF DistributeVerifierRewards, TypeOK, Direct
  <1>. QED
    BY <1>1, <1>2, <1>3, <1>4, <1>5, <1>6, <1>7, <1>8, <1>9, <1>10, <1>11,
       <1>12, <1>13, <1>14, <1>15, <1>16
       DEF Next, JobSubmit, EscrowDeposit, OperatorUpdate

\* The ledger is always well typed; in particular no stake goes negative, no
\* reputation leaves its range and every stake has a bucket in the index.
THEOREM TypeCorrect == Spec => []TypeOK
  BY InitType, NextType, PTL DEF Spec

-----------------------------------------------------------------------------
(* Which steps touch the escrows, and which the operators *)

EscrowStep ==
    \/ \E j \in Jobs, c \in Senders, a \in Amounts : CreateEscrow(j, c, a)
    \/ \E j \in Jobs, status \in {"Released", "Refunded"} : Pay(j, status)
    \/ \E j \in Jobs : Freeze(j) \/ Unfreeze(j)

RegistryStep ==
    \/ \E o \in Operators, fee, stake \in Stakes : OperatorRegister(o, fee, stake)
    \/ \E o \in Operators, delta \in Deltas : ReputationUpdate(o, delta)
    \/ \E o \in Operators, stake \in Stakes : UpdateStake(o, stake)
    \/ \E o \in Operators : Deactivate(o)
    \/ \E o \in Operators, a \in Amounts : Slash(o, a)

\* A step of the ledger leaves the escrows alone or is one of the escrow
\* operations; a settling transaction is a payment or leaves them alone.
LEMMA EscrowSteps == [Next]_vars => UNCHANGED escrow \/ EscrowStep
  <1>. SUFFICES ASSUME [Next]_vars, ~ UNCHANGED escrow PROVE EscrowStep
    OBVIOUS
  <1>1. ASSUME NEW j \in Jobs, EscrowRelease(j) \/ EscrowRefund(j)
        PROVE  EscrowStep
    BY <1>1 DEF EscrowRelease, EscrowRefund, EscrowStep
  <1>2. ASSUME NEW s \in Senders, NEW out \in Outputs, JobSettle(s, out)
        PROVE  EscrowStep
    BY <1>2 DEF JobSettle, EscrowStep
  <1>3. ASSUME NEW j \in Jobs, NEW c \in Senders, NEW a \in Amounts,
               CreateEscrow(j, c, a)
        PROVE  EscrowStep
    BY <1>3 DEF EscrowStep
  <1>4. ASSUME NEW j \in Jobs, Freeze(j) \/ Unfreeze(j)
        PROVE  EscrowStep
    BY <1>4 DEF EscrowStep
  <1>. QED
    BY <1>1, <1>2, <1>3, <1>4
       DEF Next, JobSubmit, EscrowDeposit, OperatorUpdate,
           vars, escrow, BeginBlock, FinalizeBlock, AbortBlock, NoEffect,
           ReviewReceipt, IntelligenceSubmit, IntelligenceSettle,
           OperatorRegister, ReputationUpdate, UpdateStake, Deactivate, Slash,
           AddSlashedToPool, DistributeVerifierRewards

\* A step of the ledger leaves the operators and the stake index alone or is
\* one of the registry's operations.
LEMMA RegistrySteps == [Next]_vars => UNCHANGED registry \/ RegistryStep
  <1>. SUFFICES ASSUME [Next]_vars, ~ UNCHANGED registry PROVE RegistryStep
    OBVIOUS
  <1>. QED
    BY DEF Next, JobSubmit, EscrowDeposit, OperatorUpdate,
           RegistryStep, vars, registry, BeginBlock, FinalizeBlock,
           AbortBlock, NoEffect, CreateEscrow, EscrowRelease, EscrowRefund,
           Freeze, Unfreeze, JobSettle, ReviewReceipt, IntelligenceSubmit,
           IntelligenceSettle, AddSlashedToPool, DistributeVerifierRewards

\* Receipts are touched by settling transactions and by reviews only.
LEMMA ReceiptSteps ==
    [Next]_vars =>
        \/ UNCHANGED receipt_anchors
        \/ \E s \in Senders, out \in Outputs : JobSettle(s, out)
        \/ \E r \in ReceiptIds, status \in ReceiptStatus \ {"Submitted"} :
              ReviewReceipt(r, status)
  BY DEF Next, JobSubmit, EscrowDeposit, OperatorUpdate,
         vars, receipts, BeginBlock, FinalizeBlock, AbortBlock, NoEffect,
         CreateEscrow, EscrowRelease, EscrowRefund, Freeze, Unfreeze,
         IntelligenceSubmit, IntelligenceSettle, OperatorRegister,
         ReputationUpdate, UpdateStake, Deactivate, Slash, AddSlashedToPool,
         DistributeVerifierRewards

-----------------------------------------------------------------------------
(* Escrows *)

\* Nothing is escrowed at the start.
LEMMA InitEscrow == Init => EscrowConserved
  BY DEF Init, EscrowConserved, Held

\* Every escrow operation keeps the books of every job balanced.
LEMMA NextEscrow == TypeOK /\ EscrowConserved /\ [Next]_vars => EscrowConserved'
  <1>. SUFFICES ASSUME TypeOK, EscrowConserved, [Next]_vars, NEW k \in Jobs
                PROVE  (paid[k] + overwritten[k] + Held(k) = funded[k])'
    BY DEF EscrowConserved
  <1>0. /\ paid[k] + overwritten[k] + Held(k) = funded[k]
        /\ paid[k] \in Nat /\ overwritten[k] \in Nat /\ funded[k] \in Nat
        /\ Held(k) \in Nat
    BY SetsAssumption DEF EscrowConserved, TypeOK, Held, Escrows
  <1>1. CASE UNCHANGED escrow
    BY <1>0, <1>1 DEF escrow, Held
  <1>2. ASSUME NEW j \in Jobs, NEW c \in Senders, NEW a \in Amounts,
               CreateEscrow(j, c, a)
        PROVE  (paid[k] + overwritten[k] + Held(k) = funded[k])'
    <2>1. CASE k # j
      BY <1>0, <1>2, <2>1 DEF CreateEscrow, TypeOK, Held
    <2>2. CASE k = j
      <3>1. Held(k)' = a
        <4>1. job_escrows'[k] = [client_id |-> c, amount |-> a, status |-> "Active"]
          BY <1>2, <2>2 DEF CreateEscrow, TypeOK
        <4>2. [client_id |-> c, amount |-> a, status |-> "Active"] \in Escrows
          BY DEF Escrows, EscrowStatus
        <4>3. job_escrows'[k] # None
          BY <4>1, <4>2, NoneAssumption
        <4>. QED  BY <4>1, <4>3 DEF Held
      <3>2. /\ funded'[k] = funded[k] + a
            /\ overwritten'[k] = overwritten[k] + Held(k)
            /\ paid'[k] = paid[k]
        BY <1>2, <2>2 DEF CreateEscrow, TypeOK
      <3>3. a \in Nat
        BY SetsAssumption
      <3>. QED  BY <1>0, <3>1, <3>2, <3>3
    <2>. QED  BY <2>1, <2>2
  <1>3. ASSUME NEW j \in Jobs, NEW status \in {"Released", "Refunded"},
               Pay(j, status)
        PROVE  (paid[k] + overwritten[k] + Held(k) = funded[k])'
    <2>1. CASE k # j
      BY <1>0, <1>3, <2>1 DEF Pay, SetEscrowStatus, TypeOK, Held
    <2>2. CASE k = j
      <3>1. Held(k) = job_escrows[k].amount
        BY <1>3, <2>2 DEF Pay, Payable, Held
      <3>2. Held(k)' = 0
        BY <1>3, <2>2 DEF Pay, SetEscrowStatus, TypeOK, Held
      <3>3. /\ paid'[k] = paid[k] + job_escrows[k].amount
            /\ funded'[k] = funded[k]
            /\ overwritten'[k] = overwritten[k]
        BY <1>3, <2>2 DEF Pay, TypeOK
      <3>. QED  BY <1>0, <3>1, <3>2, <3>3
    <2>. QED  BY <2>1, <2>2
  <1>4. ASSUME NEW j \in Jobs, Freeze(j) \/ Unfreeze(j)
        PROVE  (paid[k] + overwritten[k] + Held(k) = funded[k])'
    <2>1. UNCHANGED <<funded, paid, overwritten>>
      BY <1>4 DEF Freeze, Unfreeze
    <2>2. Held(k)' = Held(k)
      <3>1. CASE k # j
        BY <1>4, <3>1 DEF Freeze, Unfreeze, SetEscrowStatus, TypeOK, Held
      <3>2. CASE k = j
        <4>1. PICK status \in {"Active", "Frozen"} : SetEscrowStatus(j, status)
          BY <1>4 DEF Freeze, Unfreeze
        <4>2. job_escrows[j] # None /\ Held(k) = job_escrows[j].amount
          BY <1>4, <3>2 DEF Freeze, Unfreeze, Held
        <4>3. job_escrows'[k] = [client_id |-> job_escrows[j].client_id,
                                 amount |-> job_escrows[j].amount,
                                 status |-> status]
          BY <3>2, <4>1 DEF SetEscrowStatus, TypeOK
        <4>4. job_escrows'[k] \in Escrows
          BY <4>2, <4>3 DEF TypeOK, Escrows, EscrowStatus
        <4>5. job_escrows'[k] # None
          BY <4>4, NoneAssumption
        <4>. QED  BY <4>2, <4>3, <4>5 DEF Held
      <3>. QED  BY <3>1, <3>2
    <2>. QED  BY <1>0, <2>1, <2>2
  <1>. QED
    BY <1>1, <1>2, <1>3, <1>4, EscrowSteps DEF EscrowStep

\* No amount is paid twice, and none disappears except under a later deposit
\* for the same job.
THEOREM EscrowsConserved == Spec => []EscrowConserved
  BY InitType, NextType, InitEscrow, NextEscrow, PTL DEF Spec

\* A paid escrow changes only by being funded anew, and a frozen one is never
\* paid.
THEOREM EscrowsFollowLifecycle == Spec => EscrowLifecycle
  <1>. DEFINE Lifecycle ==
         \A j \in Jobs : job_escrows[j] # None =>
           /\ job_escrows[j].status \in {"Released", "Refunded"} =>
                 \/ job_escrows'[j] = job_escrows[j]
                 \/ /\ job_escrows'[j].status = "Active"
                    /\ funded'[j] = funded[j] + job_escrows'[j].amount
           /\ job_escrows[j].status = "Frozen" =>
                 job_escrows'[j].status \in {"Frozen", "Active"}
  <1>1. ASSUME TypeOK, [Next]_vars PROVE [Lifecycle]_vars
    <2>1. CASE UNCHANGED escrow
      BY <2>1 DEF escrow
    <2>2. ASSUME NEW j \in Jobs, NEW c \in Senders, NEW a \in Amounts,
                 CreateEscrow(j, c, a)
          PROVE  Lifecycle
      BY <1>1, <2>2 DEF CreateEscrow, TypeOK
    <2>3. ASSUME NEW j \in Jobs, NEW status \in {"Released", "Refunded"},
                 Pay(j, status)
          PROVE  Lifecycle
      BY <1>1, <2>3 DEF Pay, Payable, SetEscrowStatus, TypeOK
    <2>4. ASSUME NEW j \in Jobs, Freeze(j) \/ Unfreeze(j)
          PROVE  Lifecycle
      BY <1>1, <2>4 DEF Freeze, Unfreeze, SetEscrowStatus, TypeOK
    <2>. QED  BY <1>1, <2>1, <2>2, <2>3, <2>4, EscrowSteps DEF EscrowStep
  <1>. QED  BY <1>1, TypeCorrect, PTL DEF Spec, EscrowLifecycle

-----------------------------------------------------------------------------
(* Operators *)

\* Slashes are recorded only on operators that are out of the market.
PenaltyRecorded ==
    \A o \in Operators : operators[o] # None /\ operators[o].slashed_count > 0 =>
        operators[o].status \in {"Slashed", "Deregistered"}

RegistryInv == ActiveIndexed /\ ReputationStanding /\ PenaltyRecorded

\* No operator is registered at the start.
LEMMA InitRegistry == Init => RegistryInv
  BY DEF Init, RegistryInv, ActiveIndexed, ReputationStanding, PenaltyRecorded

\* What the three invariants say of one operator.
GoodOperator(o) ==
    operators[o] # None =>
        /\ operators[o].status \in {"Active", "Suspended"} =>
              stake_index[Bucket(operators[o].stake)][o] > 0
        /\ operators[o].status = "Active" =>
              operators[o].reputation >= SuspendBelow
        /\ operators[o].status = "Suspended" =>
              operators[o].reputation < ReinstateAt
        /\ operators[o].slashed_count > 0 =>
              operators[o].status \in {"Slashed", "Deregistered"}

\* Changes to one operator's entries leave those of another as they were.
LEMMA IndexOthers ==
    ASSUME NEW index \in [Buckets -> [Operators -> Nat]],
           NEW b \in Buckets, NEW o \in Operators,
           NEW c \in Buckets, NEW k \in Operators
    PROVE  /\ k # o => /\ Pushed(index, b, o)[c][k] = index[c][k]
                       /\ Retained(index, b, o)[c][k] = index[c][k]
           /\ Pushed(index, b, o)[b][o] > 0
  BY DEF Pushed, Retained

\* Every operation of the registry keeps the standing, the index entries and
\* the penalties of all operators in order.
LEMMA NextRegistry == TypeOK /\ RegistryInv /\ [Next]_vars => RegistryInv'
  <1>. SUFFICES ASSUME TypeOK, RegistryInv, [Next]_vars, NEW k \in Operators
                PROVE  GoodOperator(k)'
    BY DEF RegistryInv, ActiveIndexed, ReputationStanding, PenaltyRecorded,
           GoodOperator
  <1>0. /\ GoodOperator(k)
        /\ stake_index \in [Buckets -> [Operators -> Nat]]
        /\ operators \in [Operators -> OperatorStates \cup {None}]
    BY DEF RegistryInv, ActiveIndexed, ReputationStanding, PenaltyRecorded,
           GoodOperator, TypeOK
  <1>. DEFINE bk == Bucket(operators[k].stake)
  <1>a. operators[k] # None => bk \in Buckets
    BY <1>0, BucketType DEF OperatorStates
  <1>1. CASE UNCHANGED registry
    BY <1>0, <1>1 DEF registry, GoodOperator
  <1>2. ASSUME NEW o \in Operators, NEW fee \in Stakes, NEW stake \in Stakes,
               OperatorRegister(o, fee, stake)
        PROVE  GoodOperator(k)'
    <2>. DEFINE b == Bucket(Larger(fee, stake))
    <2>1. b \in Buckets
      <3>1. Larger(fee, stake) \in 0 .. MaxStake
        BY SetsAssumption DEF Larger
      <3>. QED  BY <3>1, BucketType
    <2>2. stake_index' = Pushed(stake_index, b, o)
      BY <1>2 DEF OperatorRegister
    <2>. HIDE DEF b
    <2>3. CASE k # o
      <3>1. operators'[k] = operators[k]
        BY <1>2, <2>3, <1>0 DEF OperatorRegister
      <3>2. operators[k] # None => stake_index'[bk][k] = stake_index[bk][k]
        BY <1>0, <1>a, <2>1, <2>2, <2>3, IndexOthers
      <3>. QED  BY <1>0, <3>1, <3>2 DEF GoodOperator
    <2>4. CASE k = o
      <3>1. operators'[k] = [stake |-> Larger(fee, stake),
                             reputation |-> InitialReputation,
                             status |-> "Active", slashed_count |-> 0]
        BY <1>0, <1>2, <2>4 DEF OperatorRegister
      <3>2. stake_index'[b][k] > 0
        BY <1>0, <2>1, <2>2, <2>4, IndexOthers
      <3>. QED  BY <3>1, <3>2, NumbersAssumption DEF GoodOperator, b
    <2>. QED  BY <2>3, <2>4
  <1>3. ASSUME NEW o \in Operators, NEW delta \in Deltas, ReputationUpdate(o, delta)
        PROVE  GoodOperator(k)'
    <2>1. stake_index' = stake_index
      BY <1>3 DEF ReputationUpdate
    <2>2. CASE k # o \/ operators[k] = None
      <3>1. operators'[k] = operators[k]
        BY <1>0, <1>3, <2>2 DEF ReputationUpdate
      <3>. QED  BY <1>0, <2>1, <3>1 DEF GoodOperator
    <2>3. CASE k = o /\ operators[k] # None /\ delta >= 0
      <3>1. operators'[k] = IncreaseReputation(operators[k], delta)
        BY <1>0, <1>3, <2>3 DEF ReputationUpdate
      <3>2. operators[k] \in OperatorStates /\ delta \in Nat
        BY <1>0, <2>3, SetsAssumption
      <3>. QED
        BY <1>0, <2>1, <2>3, <3>1, <3>2, NumbersAssumption
           DEF GoodOperator, IncreaseReputation, StatusRaised, Smaller,
               OperatorStates, OperatorStatus
    <2>4. CASE k = o /\ operators[k] # None /\ ~(delta >= 0)
      <3>1. operators'[k] = DecreaseReputation(operators[k], -delta)
        BY <1>0, <1>3, <2>4 DEF ReputationUpdate
      <3>2. operators[k] \in OperatorStates /\ -delta \in Nat
        BY <1>0, <2>4, SetsAssumption
      <3>. QED
        BY <1>0, <2>1, <2>4, <3>1, <3>2, NumbersAssumption
           DEF GoodOperator, DecreaseReputation, StatusLowered, Larger,
               OperatorStates, OperatorStatus
    <2>. QED  BY <2>2, <2>3, <2>4
  <1>4. ASSUME NEW o \in Operators, NEW stake \in Stakes, UpdateStake(o, stake)
        PROVE  GoodOperator(k)'
    <2>. DEFINE b == Bucket(stake)
                old == Bucket(operators[o].stake)
                kept == Retained(stake_index, old, o)
    <2>1. b \in Buckets /\ old \in Buckets
      BY <1>0, <1>4, BucketType, SetsAssumption DEF UpdateStake, OperatorStates
    <2>2. stake_index' = Pushed(kept, b, o)
      BY <1>4 DEF UpdateStake
    <2>3. kept \in [Buckets -> [Operators -> Nat]]
      BY <1>0, <2>1, IndexType
    <2>. HIDE DEF b, old
    <2>4. CASE k # o
      <3>1. operators'[k] = operators[k]
        BY <1>0, <1>4, <2>4 DEF UpdateStake
      <3>2. operators[k] # None => kept[bk][k] = stake_index[bk][k]
        BY <1>0, <1>a, <2>1, <2>4, IndexOthers
      <3>. HIDE DEF kept
      <3>3. operators[k] # None => stake_index'[bk][k] = kept[bk][k]
        BY <1>a, <2>1, <2>2, <2>3, <2>4, IndexOthers
      <3>. QED  BY <1>0, <3>1, <3>2, <3>3 DEF GoodOperator
    <2>5. CASE k = o
      <3>1. operators'[k] = [stake |-> stake,
                             reputation |-> operators[k].reputation,
                             status |-> operators[k].status,
                             slashed_count |-> operators[k].slashed_count]
        BY <1>0, <1>4, <2>5 DEF UpdateStake
      <3>2. operators[k] # None
        BY <1>4, <2>5 DEF UpdateStake
      <3>. HIDE DEF kept
      <3>3. stake_index'[b][k] > 0
        BY <2>1, <2>2, <2>3, <2>5, IndexOthers
      <3>. QED  BY <1>0, <3>1, <3>2, <3>3 DEF GoodOperator, b
    <2>. QED  BY <2>4, <2>5
  <1>5. ASSUME NEW o \in Operators, Deactivate(o)
        PROVE  GoodOperator(k)'
    <2>1. stake_index' = stake_index
      BY <1>5 DEF Deactivate
    <2>2. CASE k # o
      BY <1>0, <1>5, <2>1, <2>2 DEF Deactivate, GoodOperator
    <2>3. CASE k = o
      BY <1>0, <1>5, <2>1, <2>3 DEF Deactivate, GoodOperator
    <2>. QED  BY <2>2, <2>3
  <1>6. ASSUME NEW o \in Operators, NEW a \in Amounts, Slash(o, a)
        PROVE  GoodOperator(k)'
    <2>. DEFINE b == Bucket(operators[o].stake - a)
    <2>1. b \in Buckets
      <3>1. operators[o].stake - a \in 0 .. MaxStake
        BY <1>0, <1>6, SetsAssumption, NumbersAssumption DEF Slash, OperatorStates
      <3>. QED  BY <3>1, BucketType
    <2>2. stake_index' = Retained(stake_index, b, o)
      BY <1>6 DEF Slash
    <2>. HIDE DEF b
    <2>3. CASE k # o
      <3>1. operators'[k] = operators[k]
        BY <1>0, <1>6, <2>3 DEF Slash
      <3>2. operators[k] # None => stake_index'[bk][k] = stake_index[bk][k]
        BY <1>0, <1>a, <2>1, <2>2, <2>3, IndexOthers
      <3>. QED  BY <1>0, <3>1, <3>2 DEF GoodOperator
    <2>4. CASE k = o
      <3>1. operators'[k].status = "Slashed"
        BY <1>0, <1>6, <2>4 DEF Slash
      <3>. QED  BY <3>1 DEF GoodOperator
    <2>. QED  BY <2>3, <2>4
  <1>. QED
    BY <1>1, <1>2, <1>3, <1>4, <1>5, <1>6, RegistrySteps DEF RegistryStep

\* Together they hold in every reachable state.
LEMMA RegistryInvariant == Spec => [](TypeOK /\ RegistryInv)
  BY InitType, NextType, InitRegistry, NextRegistry, PTL DEF Spec

\* Every operator that is in the market, or suspended from it, is listed in the
\* bucket of its present stake, whatever was registered, updated and slashed.
THEOREM ActiveAreIndexed == Spec => []ActiveIndexed
  BY RegistryInvariant, PTL DEF RegistryInv

\* Status and reputation agree in every reachable state.
THEOREM StandingIsConsistent == Spec => []ReputationStanding
  BY RegistryInvariant, PTL DEF RegistryInv

\* No reputation change lifts a slash: only a new registration does.
THEOREM PenaltiesStand == Spec => PenaltyStands
  <1>. DEFINE Stands ==
         \A o \in Operators :
           operators[o] # None /\ operators[o].slashed_count > 0 =>
              \/ operators'[o].slashed_count >= operators[o].slashed_count
                 /\ operators'[o].status \in {"Slashed", "Deregistered"}
              \/ /\ operators'[o].slashed_count = 0
                 /\ operators'[o].reputation = InitialReputation
  <1>1. ASSUME TypeOK, RegistryInv, [Next]_vars PROVE [Stands]_vars
    <2>. SUFFICES ASSUME NEW k \in Operators, operators[k] # None,
                         operators[k].slashed_count > 0
                  PROVE  \/ operators'[k].slashed_count >= operators[k].slashed_count
                            /\ operators'[k].status \in {"Slashed", "Deregistered"}
                         \/ /\ operators'[k].slashed_count = 0
                            /\ operators'[k].reputation = InitialReputation
      OBVIOUS
    <2>0. /\ operators[k] \in OperatorStates
          /\ operators[k].slashed_count \in Nat
          /\ operators[k].status \in {"Slashed", "Deregistered"}
          /\ operators \in [Operators -> OperatorStates \cup {None}]
      BY <1>1 DEF RegistryInv, PenaltyRecorded, TypeOK, OperatorStates
    <2>1. CASE UNCHANGED registry
      BY <2>0, <2>1 DEF registry
    <2>2. ASSUME NEW o \in Operators, NEW fee \in Stakes, NEW stake \in Stakes,
                 OperatorRegister(o, fee, stake)
          PROVE  \/ operators'[k] = operators[k]
                 \/ /\ operators'[k].slashed_count = 0
                    /\ operators'[k].reputation = InitialReputation
      BY <2>0, <2>2 DEF OperatorRegister
    <2>3. ASSUME NEW o \in Operators, NEW delta \in Deltas,
                 ReputationUpdate(o, delta)
          PROVE  /\ operators'[k].slashed_count = operators[k].slashed_count
                 /\ operators'[k].status = operators[k].status
      BY <2>0, <2>3
         DEF ReputationUpdate, IncreaseReputation, DecreaseReputation,
             StatusRaised, StatusLowered
    <2>4. ASSUME NEW o \in Operators, NEW stake \in Stakes, UpdateStake(o, stake)
          PROVE  /\ operators'[k].slashed_count = operators[k].slashed_count
                 /\ operators'[k].status = operators[k].status
      BY <2>0, <2>4 DEF UpdateStake
    <2>5. ASSUME NEW o \in Operators, Deactivate(o)
          PROVE  /\ operators'[k].slashed_count = operators[k].slashed_count
                 /\ operators'[k].status \in {"Slashed", "Deregistered"}
      BY <2>0, <2>5 DEF Deactivate
    <2>6. ASSUME NEW o \in Operators, NEW a \in Amounts, Slash(o, a)
          PROVE  /\ operators'[k].slashed_count >= operators[k].slashed_count
                 /\ operators'[k].status \in {"Slashed", "Deregistered"}
      BY <2>0, <2>6 DEF Slash
    <2>. QED
      BY <1>1, <2>0, <2>1, <2>2, <2>3, <2>4, <2>5, <2>6, RegistrySteps
         DEF RegistryStep
  <1>. QED  BY <1>1, RegistryInvariant, PTL DEF Spec, PenaltyStands

-----------------------------------------------------------------------------
(* The state root *)

\* Escrows, operators and receipts are replaced but never removed.
LEMMA KeysGrow ==
    ASSUME TypeOK, TypeOK', [Next]_vars
    PROVE  /\ Keys(job_escrows) \subseteq Keys(job_escrows)'
           /\ Keys(operators) \subseteq Keys(operators)'
           /\ Keys(receipt_anchors) \subseteq Keys(receipt_anchors)'
  <1>1. ASSUME NEW j \in Jobs, job_escrows[j] # None PROVE job_escrows'[j] # None
    <2>1. CASE UNCHANGED escrow
      BY <1>1, <2>1 DEF escrow
    <2>2. ASSUME NEW k \in Jobs, NEW c \in Senders, NEW a \in Amounts,
                 CreateEscrow(k, c, a)
          PROVE  job_escrows'[j] # None
      <3>1. [client_id |-> c, amount |-> a, status |-> "Active"] \in Escrows
        BY DEF Escrows, EscrowStatus
      <3>. QED  BY <1>1, <2>2, <3>1, NoneAssumption DEF CreateEscrow, TypeOK
    <2>3. ASSUME NEW k \in Jobs, NEW status \in EscrowStatus,
                 job_escrows[k] # None, SetEscrowStatus(k, status)
          PROVE  job_escrows'[j] # None
      <3>1. [client_id |-> job_escrows[k].client_id,
             amount |-> job_escrows[k].amount, status |-> status] \in Escrows
        BY <2>3 DEF TypeOK, Escrows
      <3>. QED  BY <1>1, <2>3, <3>1, NoneAssumption DEF SetEscrowStatus, TypeOK
    <2>. QED
      BY <2>1, <2>2, <2>3, EscrowSteps
         DEF EscrowStep, EscrowStatus, Pay, Payable, Freeze, Unfreeze
  <1>2. ASSUME NEW k \in Operators, operators[k] # None PROVE operators'[k] # None
    <2>. SUFFICES operators'[k] = operators[k] \/ operators'[k] \in OperatorStates
      BY <1>2, NoneAssumption
    <2>0. /\ operators[k] \in OperatorStates
          /\ operators \in [Operators -> OperatorStates \cup {None}]
      BY <1>2 DEF TypeOK
    <2>1. CASE UNCHANGED registry
      BY <2>1 DEF registry
    <2>2. ASSUME NEW o \in Operators, NEW fee \in Stakes, NEW stake \in Stakes,
                 OperatorRegister(o, fee, stake)
          PROVE  operators'[k] = operators[k] \/ operators'[k] \in OperatorStates
      <3>1. [stake |-> Larger(fee, stake), reputation |-> InitialReputation,
             status |-> "Active", slashed_count |-> 0] \in OperatorStates
        BY SetsAssumption, NumbersAssumption
           DEF OperatorStates, OperatorStatus, Larger
      <3>. QED  BY <2>0, <2>2, <3>1 DEF OperatorRegister
    <2>3. ASSUME NEW o \in Operators, NEW delta \in Deltas,
                 ReputationUpdate(o, delta)
          PROVE  operators'[k] = operators[k] \/ operators'[k] \in OperatorStates
      <3>1. delta >= 0 => delta \in Nat
        BY SetsAssumption
      <3>2. ~(delta >= 0) => -delta \in Nat
        BY SetsAssumption
      <3>. QED  BY <2>0, <1>2, <2>3, <3>1, <3>2, ReputationType DEF ReputationUpdate
    <2>4. ASSUME NEW o \in Operators, NEW stake \in Stakes, UpdateStake(o, stake)
          PROVE  operators'[k] = operators[k] \/ operators'[k] \in OperatorStates
      BY <2>0, <2>4, SetsAssumption DEF UpdateStake, OperatorStates
    <2>5. ASSUME NEW o \in Operators, Deactivate(o)
          PROVE  operators'[k] = operators[k] \/ operators'[k] \in OperatorStates
      BY <2>0, <2>5 DEF Deactivate, OperatorStates, OperatorStatus
    <2>6. ASSUME NEW o \in Operators, NEW a \in Amounts, Slash(o, a)
          PROVE  operators'[k] = operators[k] \/ operators'[k] \in OperatorStates
      <3>1. operators[o].stake - a \in 0 .. MaxStake
        BY <2>0, <2>6, SetsAssumption, NumbersAssumption DEF Slash, OperatorStates
      <3>. QED  BY <2>0, <2>6, <3>1 DEF Slash, OperatorStates, OperatorStatus
    <2>. QED
      BY <2>1, <2>2, <2>3, <2>4, <2>5, <2>6, RegistrySteps DEF RegistryStep
  <1>3. ASSUME NEW r \in ReceiptIds, receipt_anchors[r] # None
        PROVE  receipt_anchors'[r] # None
    <2>1. CASE UNCHANGED receipt_anchors
      BY <1>3, <2>1
    <2>2. ASSUME NEW s \in Senders, NEW out \in Outputs, JobSettle(s, out)
          PROVE  receipt_anchors'[r] # None
      BY <1>3, <2>2, NoneAssumption DEF JobSettle, TypeOK, ReceiptStatus
    <2>3. ASSUME NEW q \in ReceiptIds,
                 NEW status \in ReceiptStatus \ {"Submitted"},
                 ReviewReceipt(q, status)
          PROVE  receipt_anchors'[r] # None
      BY <1>3, <2>3, NoneAssumption DEF ReviewReceipt, TypeOK
    <2>. QED  BY <2>1, <2>2, <2>3, ReceiptSteps
  <1>. QED  BY <1>1, <1>2, <1>3 DEF Keys, TypeOK

\* Initially there is no root and the height is 0.
LEMMA InitRoot == Init => RootOfLastBlock
  BY DEF Init, RootOfLastBlock

\* Only a complete block changes height and root, and both together.
LEMMA NextRoot ==
    TypeOK /\ TypeOK' /\ RootOfLastBlock /\ [Next]_vars => RootOfLastBlock'
  <1>. SUFFICES ASSUME TypeOK, TypeOK', RootOfLastBlock, [Next]_vars
                PROVE  RootOfLastBlock'
    OBVIOUS
  <1>1. CASE FinalizeBlock
    <2>1. /\ height' = height + 1
          /\ state_root' = RootHash(height + 1)
          /\ UNCHANGED <<job_escrows, operators, receipt_anchors>>
      BY <1>1 DEF FinalizeBlock, escrow, registry, receipts
    <2>2. Keys(receipt_anchors)' = Keys(receipt_anchors)
      BY <2>1 DEF Keys
    <2>3. Cardinality(Keys(receipt_anchors)) \in Nat
      <3>1. Keys(receipt_anchors) \subseteq ReceiptIds
        BY DEF TypeOK, Keys
      <3>. QED  BY <3>1, ReceiptIdsFinite, FS_Subset, FS_CardinalityType
    <2>4. state_root' # None
      <3>1. height + 1 \in Heights
        BY <2>1 DEF TypeOK
      <3>. QED  BY <2>1, <3>1, RootType, NoneAssumption
    <2>. QED  BY <2>1, <2>2, <2>3, <2>4 DEF RootHash, RootOfLastBlock, Keys
  <1>2. CASE UNCHANGED chain
    <2>1. Cardinality(Keys(receipt_anchors)) <= Cardinality(Keys(receipt_anchors)')
      <3>1. Keys(receipt_anchors)' \subseteq ReceiptIds
        BY DEF TypeOK, Keys
      <3>. QED  BY <3>1, KeysGrow, ReceiptIdsFinite, FS_Subset
    <2>2. /\ Cardinality(Keys(receipt_anchors)) \in Nat
          /\ Cardinality(Keys(receipt_anchors)') \in Nat
      <3>1. /\ Keys(receipt_anchors) \subseteq ReceiptIds
            /\ Keys(receipt_anchors)' \subseteq ReceiptIds
        BY DEF TypeOK, Keys
      <3>. QED  BY <3>1, ReceiptIdsFinite, FS_Subset, FS_CardinalityType
    <2>3. state_root # None => state_root.receipts \in Nat
      BY DEF TypeOK, Roots
    <2>. QED  BY <1>2, <2>1, <2>2, <2>3, KeysGrow DEF RootOfLastBlock, chain
  <1>3. UNCHANGED chain \/ FinalizeBlock
    BY DEF Next, JobSubmit, EscrowDeposit, OperatorUpdate,
           vars, chain, BeginBlock, AbortBlock, NoEffect, Transaction,
           Direct, CreateEscrow, EscrowRelease, EscrowRefund, Freeze, Unfreeze,
           JobSettle, ReviewReceipt, IntelligenceSubmit, IntelligenceSettle,
           OperatorRegister, ReputationUpdate, UpdateStake, Deactivate, Slash,
           AddSlashedToPool, DistributeVerifierRewards
  <1>. QED  BY <1>1, <1>2, <1>3

\* The state root always belongs to the present height, and nothing it commits
\* to is lost again, even when a block is aborted half-way.
THEOREM RootIsOfLastBlock == Spec => []RootOfLastBlock
  BY InitType, NextType, InitRoot, NextRoot, PTL DEF Spec

\* A decision about a receipt outlives the height it was anchored at.
THEOREM ReviewsSurvive == Spec => ReviewSurvives
  <1>. DEFINE Survives ==
         \A r \in ReceiptIds :
           (receipt_anchors[r] \notin {None, "Submitted"}
              /\ receipt_anchors'[r] = "Submitted")
           => r.block = height
  <1>1. ASSUME TypeOK, [Next]_vars PROVE [Survives]_vars
    <2>1. CASE UNCHANGED receipt_anchors
      BY <2>1
    <2>2. ASSUME NEW s \in Senders, NEW out \in Outputs, JobSettle(s, out)
          PROVE  Survives
      BY <1>1, <2>2 DEF JobSettle, TypeOK, ReceiptId
    <2>3. ASSUME NEW q \in ReceiptIds,
                 NEW status \in ReceiptStatus \ {"Submitted"},
                 ReviewReceipt(q, status)
          PROVE  Survives
      BY <1>1, <2>3 DEF ReviewReceipt, TypeOK
    <2>. QED  BY <1>1, <2>1, <2>2, <2>3, ReceiptSteps
  <1>. QED  BY <1>1, TypeCorrect, PTL DEF Spec, ReviewSurvives

-----------------------------------------------------------------------------
(* The slashing pool *)

\* The pool is touched by its two operations only.
LEMMA PoolSteps ==
    [Next]_vars =>
        \/ UNCHANGED pool
        \/ \E a \in Amounts : AddSlashedToPool(a)
        \/ \E a \in Amounts, list \in VerifierLists : DistributeVerifierRewards(list, a)
  BY DEF Next, JobSubmit, EscrowDeposit, OperatorUpdate,
         vars, pool, BeginBlock, FinalizeBlock, AbortBlock, NoEffect,
         CreateEscrow, EscrowRelease, EscrowRefund, Freeze, Unfreeze,
         JobSettle, ReviewReceipt, IntelligenceSubmit, IntelligenceSettle,
         OperatorRegister, ReputationUpdate, UpdateStake, Deactivate, Slash

\* A distribution credits, over all verifiers, what it takes from the pool but
\* for the remainder: the share, once for every place in the list.
LEMMA SharesOfAmount ==
    ASSUME TypeOK, NEW a \in Nat, NEW list \in Seq(Verifiers), list # <<>>
    PROVE  LET after == [v \in Verifiers |-> verifier_rewards[v]
                                              + PerVerifier(a, list) * Occurrences(v, list)]
           IN  /\ SumFunctionOnSet(verifier_rewards, Verifiers) \in Int
               /\ SumFunctionOnSet(after, Verifiers) + (a % Len(list))
                    = SumFunctionOnSet(verifier_rewards, Verifiers) + a
  <1>. DEFINE p == PerVerifier(a, list)
              n == [v \in Verifiers |-> Occurrences(v, list)]
              credit == [v \in Verifiers |-> p * n[v]]
              after == [v \in Verifiers |-> verifier_rewards[v] + credit[v]]
              len == Len(list)
  <1>1. len \in Nat \ {0} /\ DOMAIN list = 1 .. len
    OBVIOUS
  <1>2. IsFiniteSet(DOMAIN list) /\ Cardinality(DOMAIN list) = len
    BY <1>1, FS_Interval
  <1>3. p \in Nat /\ a % len \in Nat /\ len * p + (a % len) = a
    BY <1>1 DEF PerVerifier
  <1>4. \A v \in Verifiers : n[v] \in Nat
    <2>. SUFFICES ASSUME NEW v \in Verifiers PROVE Occurrences(v, list) \in Nat
      OBVIOUS
    <2>. QED  BY <1>2, FS_Subset, FS_CardinalityType DEF Occurrences
  <1>5. SumFunctionOnSet(n, Verifiers) = len
    <2>1. \A v \in Verifiers : n[v] = Cardinality({i \in DOMAIN list : list[i] = v})
      BY DEF Occurrences
    <2>2. \A i \in DOMAIN list : list[i] \in Verifiers
      OBVIOUS
    <2>. HIDE DEF n, len
    <2>. QED  BY <1>2, <2>1, <2>2, SetsAssumption, SumOccurrences
  <1>. HIDE DEF p, n
  <1>6. \A v \in Verifiers : credit[v] \in Int /\ verifier_rewards[v] \in Int
    BY <1>3, <1>4 DEF TypeOK
  <1>7. SumFunctionOnSet(credit, Verifiers) = p * len
    <2>1. \A v \in Verifiers : n[v] \in Int /\ credit[v] = p * n[v]
      BY <1>4
    <2>. HIDE DEF credit, len
    <2>. QED  BY <1>3, <1>5, <2>1, SetsAssumption, SumScale
  <1>8. SumFunctionOnSet(after, Verifiers)
          = SumFunctionOnSet(verifier_rewards, Verifiers) + SumFunctionOnSet(credit, Verifiers)
    <2>1. \A v \in Verifiers : after[v] = verifier_rewards[v] + credit[v]
      OBVIOUS
    <2>. HIDE DEF after, credit
    <2>. QED  BY <1>6, <2>1, SetsAssumption, SumPlus
  <1>9. SumFunctionOnSet(verifier_rewards, Verifiers) \in Int
    BY <1>6, SetsAssumption, SumInt
  <1>10. p * len + (a % len) = a /\ p * len \in Int
    BY <1>1, <1>3
  <1>11. SumFunctionOnSet(after, Verifiers) + (a % len)
           = SumFunctionOnSet(verifier_rewards, Verifiers) + a
    <2>. HIDE DEF after, credit, len
    <2>. QED  BY <1>3, <1>7, <1>8, <1>9, <1>10
  <1>12. after = [v \in Verifiers |-> verifier_rewards[v]
                                      + PerVerifier(a, list) * Occurrences(v, list)]
    BY DEF p, n
  <1>. HIDE DEF after
  <1>. QED  BY <1>9, <1>11, <1>12

\* What verifiers were credited and what is left in the pool is what was put
\* in, remainders and empty lists apart, for lists of any length in which a
\* verifier may occur again.
THEOREM RewardsAreBacked == Spec => []RewardsBacked
  <1>1. Init => RewardsBacked
    <2>. SUFFICES ASSUME Init PROVE RewardsBacked
      OBVIOUS
    <2>1. \A v \in Verifiers : verifier_rewards[v] = 0
      BY DEF Init
    <2>2. SumFunctionOnSet(verifier_rewards, Verifiers) = 0
      BY <2>1, SetsAssumption, SumZero
    <2>. QED  BY <2>2 DEF Init, RewardsBacked
  <1>2. TypeOK /\ RewardsBacked /\ [Next]_vars => RewardsBacked'
    <2>. SUFFICES ASSUME TypeOK, RewardsBacked, [Next]_vars PROVE RewardsBacked'
      OBVIOUS
    <2>1. CASE UNCHANGED pool
      BY <2>1 DEF RewardsBacked, pool
    <2>2. ASSUME NEW a \in Amounts, AddSlashedToPool(a) PROVE RewardsBacked'
      <3>1. a \in Nat /\ SumFunctionOnSet(verifier_rewards, Verifiers) \in Int
        <4>1. \A v \in Verifiers : verifier_rewards[v] \in Int
          BY DEF TypeOK
        <4>. QED  BY <4>1, SetsAssumption, SumInt
      <3>2. /\ slashing_pool' = slashing_pool + a /\ slashed_in' = slashed_in + a
            /\ undivided' = undivided /\ verifier_rewards' = verifier_rewards
        BY <2>2 DEF AddSlashedToPool
      <3>3. slashing_pool \in Nat /\ slashed_in \in Nat /\ undivided \in Nat
        BY DEF TypeOK
      <3>. QED  BY <3>1, <3>2, <3>3 DEF RewardsBacked
    <2>3. ASSUME NEW a \in Amounts, NEW list \in VerifierLists,
                 DistributeVerifierRewards(list, a)
          PROVE  RewardsBacked'
      <3>1. a \in Nat /\ list \in Seq(Verifiers)
        BY SetsAssumption
      <3>2. /\ SumFunctionOnSet(verifier_rewards, Verifiers) \in Int
            /\ SumFunctionOnSet(verifier_rewards', Verifiers) \in Int
        <4>1. TypeOK'
          BY NextType
        <4>2. \A v \in Verifiers : verifier_rewards[v] \in Int /\ verifier_rewards'[v] \in Int
          BY <4>1 DEF TypeOK
        <4>. QED  BY <4>2, SetsAssumption, SumInt
      <3>3. /\ undivided' \in Nat
            /\ SumFunctionOnSet(verifier_rewards', Verifiers) + (undivided' - undivided)
                 = SumFunctionOnSet(verifier_rewards, Verifiers) + a
        <4>1. CASE list = <<>>
          BY <2>3, <3>1, <3>2, <4>1 DEF DistributeVerifierRewards, TypeOK
        <4>2. CASE list # <<>>
          <5>1. SumFunctionOnSet(verifier_rewards', Verifiers) + (a % Len(list))
                  = SumFunctionOnSet(verifier_rewards, Verifiers) + a
            BY <2>3, <3>1, <4>2, SharesOfAmount DEF DistributeVerifierRewards
          <5>2. a % Len(list) \in Nat /\ undivided' = undivided + (a % Len(list))
            BY <2>3, <3>1, <4>2 DEF DistributeVerifierRewards
          <5>. QED  BY <3>2, <5>1, <5>2 DEF TypeOK
        <4>. QED  BY <4>1, <4>2
      <3>4. /\ slashing_pool' = slashing_pool - a /\ slashed_in' = slashed_in
            /\ slashing_pool \in Nat /\ slashed_in \in Nat /\ undivided \in Nat
        BY <2>3 DEF DistributeVerifierRewards, TypeOK
      <3>. DEFINE before == SumFunctionOnSet(verifier_rewards, Verifiers)
                  after == SumFunctionOnSet(verifier_rewards', Verifiers)
      <3>5. slashing_pool + before + undivided = slashed_in
        BY DEF RewardsBacked
      <3>6. before \in Int /\ after \in Int /\ after + (undivided' - undivided) = before + a
        BY <3>2, <3>3
      <3>7. slashing_pool' + after + undivided' = slashed_in'
        <4>1. /\ a \in Int /\ slashing_pool \in Int /\ undivided \in Int
              /\ undivided' \in Int /\ slashed_in \in Int
          BY <3>1, <3>3, <3>4
        <4>. HIDE DEF before, after
        <4>2. before \in Int /\ after \in Int
          BY <3>6
        <4>3. after + (undivided' - undivided) = before + a
          BY <3>6
        <4>4. slashing_pool + before + undivided = slashed_in
          BY <3>5
        <4>5. (slashing_pool - a) + after + undivided' = slashed_in
          <5>1. PICK v \in Int : v = undivided'
            BY <4>1
          <5>2. after + (v - undivided) = before + a
            BY <4>3, <5>1
          <5>3. (slashing_pool - a) + after + v = slashed_in
            BY <4>1, <4>2, <4>4, <5>2
          <5>. QED  BY <5>1, <5>3
        <4>6. slashing_pool' = slashing_pool - a /\ slashed_in' = slashed_in
          BY <3>4
        <4>. QED  BY <4>5, <4>6
      <3>. QED  BY <3>7 DEF RewardsBacked
    <2>. QED  BY <2>1, <2>2, <2>3, PoolSteps
  <1>. QED  BY <1>1, <1>2, TypeCorrect, PTL DEF Spec
=============================================================================
