----------------------------- MODULE Observability -----------------------------
(***************************************************************************)
(* Two parts of crates/observability: the health monitor, health.rs, and   *)
(* the audit trail, redaction.rs.                                          *)
(*                                                                         *)
(* Health: each registered component keeps the last status of each of its  *)
(* checks and a status of its own that it recomputes with every check; the *)
(* monitor sums these up in two ways, its report and overall_status.       *)
(* Messages and times are left out.                                        *)
(*                                                                         *)
(* Audit: entries are chained by hashes as long as immutability is on.  A  *)
(* hash of the chain is the sequence of what was hashed into it, a kind of *)
(* event stands for the fields of an entry that are hashed: its time, type *)
(* action and actor.  The details are not hashed and left out.             *)
(***************************************************************************)
EXTENDS Integers, Sequences, FiniteSets

CONSTANTS
    Components, Checks,
    AuditEvents, NoHash,
    MaxEntries          \* bound on the audit trail

ASSUME ObservabilityAssumption == MaxEntries \in Nat /\ NoHash \notin Seq(AuditEvents)

Planes == {"truth", "intelligence", "network", "storage"}
HealthStatus == {"Healthy", "Degraded", "Unhealthy", "Unknown"}

VARIABLES
    checks,             \* last status of each check of a registered component
    health,             \* the status each component keeps
    entries,            \* of the audit trail: the event and its hash or NoHash
    immutability_enabled

health_vars == <<checks, health>>
audit_vars == <<entries, immutability_enabled>>
observability_vars == <<health_vars, audit_vars>>

ObservabilityInit ==
    /\ checks = [c \in {} |-> 0]
    /\ health = [c \in {} |-> 0]
    /\ entries = <<>> /\ immutability_enabled = TRUE

-----------------------------------------------------------------------------
(* Health. *)

ComponentsSeen == DOMAIN checks
StatusesOf(f) == {f[x] : x \in DOMAIN f}

WorstMild(statuses) ==
    IF "Degraded" \in statuses THEN "Degraded"
    ELSE IF "Unhealthy" \in statuses THEN "Unhealthy" ELSE "Healthy"

\* Unknown counts as healthy.
Worst(statuses) ==
    IF "Unhealthy" \in statuses THEN "Unhealthy"
    ELSE IF "Degraded" \in statuses THEN "Degraded" ELSE "Healthy"

ComputeOverallStatus(cs) == IF DOMAIN cs = {} THEN "Unknown" ELSE Worst(StatusesOf(cs))

\* A component that is registered again starts afresh.
RegisterComponent(c) ==
    /\ checks' = [d \in ComponentsSeen \cup {c} |-> IF d = c THEN [n \in {} |-> 0] ELSE checks[d]]
    /\ health' = [d \in ComponentsSeen \cup {c} |-> IF d = c THEN "Unknown" ELSE health[d]]
    /\ UNCHANGED audit_vars

\* HealthCheck::update: the last status of the check replaces the one before.
Checked(cs, n, status) ==
    [m \in DOMAIN cs \cup {n} |-> IF m = n THEN status ELSE cs[m]]

\* An update of a component that is not registered changes nothing.
UpdateHealth(c, n, status) ==
    /\ c \in ComponentsSeen
    /\ checks' = [checks EXCEPT ![c] = Checked(@, n, status)]
    /\ health' = [health EXCEPT ![c] = ComputeOverallStatus(Checked(checks[c], n, status))]
    /\ UNCHANGED audit_vars

\* The report that get_report makes of the four planes, and its overall_status.
PlaneStatus(p) == IF p \in ComponentsSeen THEN health[p] ELSE "Unknown"
ReportStatus == Worst({PlaneStatus(p) : p \in Planes})

OverallStatus == IF ComponentsSeen = {} THEN "Unknown" ELSE Worst(StatusesOf(health))

-----------------------------------------------------------------------------
(* The audit trail. *)

WithImmutability(enabled) ==
    /\ immutability_enabled' = enabled
    /\ UNCHANGED <<entries, health_vars>>

HashLast(es) ==
    LET n    == Len(es)
        prev == IF n > 1 /\ es[n - 1].hash # NoHash THEN es[n - 1].hash ELSE <<>>
    IN  [es EXCEPT ![n].hash = Append(prev, es[n].event)]

\* The whole chain is hashed anew, entries that have a hash included.
RecomputeHashes(es) ==
    [i \in DOMAIN es |-> [event |-> es[i].event, hash |-> [j \in 1..i |-> es[j].event]]]

\* append, for the slashing, fraud, governance and partition events alike.
AppendAudit(e) ==
    LET longer == Append(entries, [event |-> e, hash |-> NoHash])
    IN  /\ Len(entries) < MaxEntries
        /\ entries' = IF immutability_enabled THEN RecomputeHashes(longer) ELSE longer
        /\ UNCHANGED <<immutability_enabled, health_vars>>

\* The hash that entry i is chained to: the last one before it, if any.
PreviousHash(i) ==
    LET hashed == {j \in 1..(i - 1) : entries[j].hash # NoHash}
    IN  IF hashed = {} THEN <<>>
        ELSE entries[CHOOSE j \in hashed : \A k \in hashed : k <= j].hash

\* verify: an entry without a hash is passed over.
VerifyTrail ==
    \A i \in DOMAIN entries :
        entries[i].hash # NoHash => entries[i].hash = Append(PreviousHash(i), entries[i].event)

-----------------------------------------------------------------------------
HealthNext ==
    \/ \E c \in Components : RegisterComponent(c)
    \/ \E c \in Components, n \in Checks, s \in HealthStatus : UpdateHealth(c, n, s)

AuditNext ==
    \/ \E enabled \in BOOLEAN : WithImmutability(enabled)
    \/ \E e \in AuditEvents : AppendAudit(e)

ObservabilitySpec == ObservabilityInit /\ [][HealthNext \/ AuditNext]_observability_vars

-----------------------------------------------------------------------------
(* The two summaries of the monitor agree as long as some plane is         *)
(* registered and nothing but planes is, and a check whose last status was *)
(* unhealthy shows in overall_status, whatever the other checks of its     *)
(* component and the other components reported after it.                   *)
HealthAgrees ==
    /\ (ComponentsSeen # {} /\ ComponentsSeen \subseteq Planes) => ReportStatus = OverallStatus
    /\ (\E c \in ComponentsSeen : "Unhealthy" \in StatusesOf(checks[c])) =>
          OverallStatus = "Unhealthy"

(* The audit trail verifies, also when immutability was off for a while,   *)
(* and no entry before a hashed one is left out of the chain.              *)
AuditVerifies ==
    /\ VerifyTrail
    /\ \A i, j \in DOMAIN entries :
          i < j /\ entries[j].hash # NoHash => entries[i].hash # NoHash
=============================================================================
