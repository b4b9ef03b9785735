-------------------------------- MODULE Routing --------------------------------
(***************************************************************************)
(* The router of the intelligence plane, Thalamus of                       *)
(* crates/intelligence/src/routing.rs: from a list of operator snapshots   *)
(* and the metrics it was given, it selects the operators that execute a   *)
(* job, and others in their place when they fail.                          *)
(*                                                                         *)
(* Rates and loads, floating-point numbers between 0 and 1 in the code,    *)
(* are thousandths here.  The tie-break, a hash of the operator's id, is a *)
(* constant: it depends on the operator and on a seed of which the model   *)
(* keeps what goes into it.  A list of snapshots names each operator once, *)
(* in any order: the one that names an operator twice, which no code here  *)
(* passes, could have it selected twice.                                   *)
(***************************************************************************)
EXTENDS Integers, FiniteSets, Lists

CONSTANTS
    Operators,
    Profiles,           \* snapshots that an operator may present
    Metrics,            \* measurements that update_metrics may be given
    Requests,
    Tiebreak(_, _),     \* deterministic_tiebreak(operator, seed)
    PartitionPreference, \* the empty string when the router has none
    NoMetrics, NoDecision, NoConstraint

QoSClass == {"LowLatency", "Balanced", "HighAssurance", "DeterministicCritical"}

\* Seeds that a request is routed under, first and after failures.
RouteSeeds ==
    UNION {{r.seed} \cup {r.height * n : n \in 1..Cardinality(Operators)} : r \in Requests}

\* What is computed with is unsigned.
ASSUME RoutingAssumption ==
    /\ IsFiniteSet(Operators)
    /\ \A p \in Profiles : {p.reputation, p.latency, p.price, p.vram} \subseteq Nat
    /\ \A m \in Metrics : {m.load, m.success, m.fraud, m.uptime, m.latency} \subseteq Nat
    /\ \A r \in Requests : r.qos \in QoSClass /\ {r.redundancy, r.budget} \subseteq Nat
    /\ \A o \in Operators, seed \in RouteSeeds : Tiebreak(o, seed) \in Nat

VARIABLES
    snapshot,           \* what each operator looks like now
    metrics,
    decision,           \* the last RouteDecision
    excluded            \* operators that failed the job of that decision

routing_vars == <<snapshot, metrics, decision, excluded>>

RoutingInit ==
    /\ snapshot \in [Operators -> Profiles]
    /\ metrics = [o \in Operators |-> NoMetrics]
    /\ decision = NoDecision
    /\ excluded = {}

-----------------------------------------------------------------------------
(* Eligibility *)

DefaultK(qos) ==
    CASE qos = "LowLatency" -> 1
      [] qos = "Balanced"   -> 2
      [] OTHER              -> 3

DetermineK(r) == IF r.redundancy > 0 THEN r.redundancy ELSE DefaultK(r.qos)

Asks(constraint) == constraint # NoConstraint

\* A load limit binds only the operators that have metrics.
IsEligible(o, r) ==
    LET s == snapshot[o] IN
    /\ s.active
    /\ s.supports_kernel
    /\ Asks(r.min_stake) => s.stake >= r.min_stake
    /\ Asks(r.region) => s.region = r.region
    /\ Asks(r.max_load) /\ metrics[o] # NoMetrics => metrics[o].load <= r.max_load
    /\ Asks(r.min_reputation) => s.reputation >= r.min_reputation
    /\ s.budget >= r.budget
    /\ s.max_concurrent # 0

-----------------------------------------------------------------------------
(* Scores *)

Least(a, b) == IF a < b THEN a ELSE b
SaturatingSub(a, b) == IF a < b THEN 0 ELSE a - b

Weights(qos) ==
    LET W(sim, rep, lat, price, load) ==
            [sim |-> sim, rep |-> rep, lat |-> lat, price |-> price, load |-> load]
    IN CASE qos = "LowLatency"    -> W(10, 20, 50, 10, 10)
         [] qos = "Balanced"      -> W(20, 25, 20, 25, 10)
         [] qos = "HighAssurance" -> W(20, 40, 10, 20, 10)
         [] OTHER                 -> W(25, 35, 10, 15, 15)

\* OperatorMetrics::reputation_score
MeasuredReputation(m) ==
    SaturatingSub(m.success, Least(m.fraud, 10) * 50) + Least(m.uptime \div 10000, 100)

ReputationScore(o) ==
    IF metrics[o] # NoMetrics THEN MeasuredReputation(metrics[o])
    ELSE Least(snapshot[o].reputation \div 10, 1000)

LatencyScore(o) ==
    LET latency == IF metrics[o] # NoMetrics THEN metrics[o].latency ELSE snapshot[o].latency
    IN IF latency = 0 THEN 100 ELSE Least(1000 \div latency, 100)

PriceScore(o, r) ==
    LET price == snapshot[o].price IN
    IF price = 0 THEN 100
    ELSE IF r.budget > price THEN Least(((r.budget - price) * 100) \div r.budget, 100)
    ELSE 0

\* A load above 1 is cast from a negative number, which gives 0.
LoadScore(o) ==
    IF metrics[o] = NoMetrics THEN 100 ELSE SaturatingSub(1000, metrics[o].load) \div 10

SimilarityScore(o) ==
    (IF snapshot[o].supports_kernel THEN 50 ELSE 0)
      + (IF snapshot[o].region = PartitionPreference THEN 30 ELSE 0)
      + Least((snapshot[o].vram \div 8) * 20, 20)

Score(o, r) ==
    LET w == Weights(r.qos) IN
    (w.sim * SimilarityScore(o) + w.rep * ReputationScore(o) + w.lat * LatencyScore(o)
       + w.price * PriceScore(o, r) + w.load * LoadScore(o)) \div 100

-----------------------------------------------------------------------------
(* Selection *)

Adaptive == [adaptive |-> TRUE, seed |-> 0]
Seeded(seed) == [adaptive |-> FALSE, seed |-> seed]

Rank(o, r, way) == Score(o, r) + (IF way.adaptive THEN 0 ELSE Tiebreak(o, way.seed))

\* The sort is stable: operators of one rank stay in the order of the list.
AheadOf(i, list, r, way) ==
    {j \in DOMAIN list :
        \/ Rank(list[j], r, way) > Rank(list[i], r, way)
        \/ Rank(list[j], r, way) = Rank(list[i], r, way) /\ j < i}

Sorted(list, r, way) ==
    [n \in DOMAIN list |->
        list[CHOOSE i \in DOMAIN list : Cardinality(AheadOf(i, list, r, way)) = n - 1]]

\* deterministic_select and adaptive_select
Select(list, r, way) ==
    LET sorted == Sorted(list, r, way)
    IN SubSeq(sorted, 1, Least(DetermineK(r), Len(sorted)))

IgnoreExcluded(list, r, without) == Retain(list, {o \in Operators : IsEligible(o, r)})

Candidates(list, r, without) ==
    Retain(list, {o \in Operators \ without : IsEligible(o, r)})

Decision(list, r, without, way) ==
    LET candidates == Candidates(list, r, without) IN
    IF candidates = <<>> THEN [request |-> r, selected |-> <<>>, k |-> 0, way |-> way]
    ELSE [request |-> r, selected |-> Select(candidates, r, way),
          k |-> DetermineK(r), way |-> way]

\* generate_seed folds the job id and the block height.
Way(r, seed) == IF r.deterministic THEN Seeded(seed) ELSE Adaptive

-----------------------------------------------------------------------------
Present(o, profile) ==
    /\ snapshot' = [snapshot EXCEPT ![o] = profile]
    /\ UNCHANGED <<metrics, decision, excluded>>

UpdateMetrics(o, m) ==
    /\ metrics' = [metrics EXCEPT ![o] = m]
    /\ UNCHANGED <<snapshot, decision, excluded>>

\* The snapshots come in any order.
Route(list, r) ==
    /\ decision' = Decision(list, r, {}, Way(r, r.seed))
    /\ excluded' = {}
    /\ UNCHANGED <<snapshot, metrics>>

\* Some of the selected operators failed: the job is routed again without
\* them and the ones that failed it before, under a seed of its own.
FallbackRoute(list, failed) ==
    LET r == decision.request
        without == excluded \cup failed
    IN /\ decision # NoDecision
       /\ failed # {}
       /\ failed \subseteq ToSet(decision.selected)
       /\ decision' = Decision(list, r, without, Way(r, r.height * Cardinality(without)))
       /\ excluded' = without
       /\ UNCHANGED <<snapshot, metrics>>

RoutingNext ==
    \/ \E o \in Operators : \/ \E profile \in Profiles : Present(o, profile)
                            \/ \E m \in Metrics : UpdateMetrics(o, m)
    \/ \E list \in SetToSeqs(Operators) :
         \/ \E r \in Requests : Route(list, r)
         \/ \E failed \in SUBSET Operators : FallbackRoute(list, failed)

RoutingSpec == RoutingInit /\ [][RoutingNext]_routing_vars

-----------------------------------------------------------------------------
\* Every field keeps its type.
RoutingTypeOK ==
    /\ snapshot \in [Operators -> Profiles]
    /\ metrics \in [Operators -> Metrics \cup {NoMetrics}]
    /\ excluded \subseteq Operators
    /\ decision # NoDecision => /\ decision.request \in Requests
                                /\ decision.selected \in Seq(Operators)

\* Every decision, a fallback after any number of failures included, names as
\* many different operators as the job asks for or as are left, only ones
\* that can serve it and have not failed it, and none that ranks below one it
\* leaves out: the order of the snapshots decides nothing but equal ranks.
BestOfTheRest ==
    [][decision' # decision =>
         LET r == decision'.request
             chosen == ToSet(decision'.selected)
             rest == {o \in Operators \ excluded' : IsEligible(o, r)}
         IN /\ chosen \subseteq rest
            /\ Cardinality(chosen) = Len(decision'.selected)
            /\ Cardinality(chosen) = Least(DetermineK(r), Cardinality(rest))
            /\ \A o \in chosen, p \in rest \ chosen :
                 Rank(o, r, decision'.way) >= Rank(p, r, decision'.way)]_routing_vars
=============================================================================
