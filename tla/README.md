# lite-vision in TLA+

TLA+ models of lite-vision: the truth plane (consensus, state and settlement, two
validator sets, governance, cross-partition messages, RPC, storage,
synchronisation, keys), the intelligence plane (jobs, verification, disputes,
routing, kernels and operators), the storage plane (replicated data, partitions,
artifacts), the network's peer table, the client library, observability and render
packs. Each is model-checked by TLC on small instances, and every safety property
that a passing run checks is proved by TLAPS for every value of the constants.

Run `tlc -config X.cfg MCModule` for a run and `tlapm XProofs.tla` for the
proofs of a module. `PROJECT.json` lists the runs, the properties, the source
lines of every definition, the hazards and the theorems.

## The system

| part | state | operations | hard parts |
| --- | --- | --- | --- |
| `truth/consensus.rs` | height, round, phase, lock, certificates, votes | views, propose, votes, commit | votes out of order; checks and update under different locks |
| `truth/state.rs`, `settlement.rs` | escrows, operators and their stake index, receipts, slashing pool, state root | 15 transaction types, block application, settlement calls | blocks that fail half-way, replayed transactions, re-registration |
| `truth/validator.rs` | validators, total stake, delegations, epoch | add, bond, delegate, unbond, slash, epochs, rewards | payouts repeated, jail against unbonding, derived totals |
| `truth/validator_set.rs` | a second validator set, used by the RPC server | add, activate, unbond, jail, slash, delegate | totals kept beside what they sum up |
| `truth/governance.rs` | proposals, votes | propose, vote, tally | repeated votes, 64-bit product |
| `truth/cross_partition.rs` | partition roots, consumed messages, receipts, nonces | process, commit, prune | replay after pruning |
| `truth/rpc.rs` | transactions, mempool, blocks behind a lock each | submit, add, store, serve | handlers interleave between locks |
| `truth/storage.rs` | state, blocks, snapshots, their files | persist, load, prune, snapshots | crash between two files |
| `truth/sync.rs`, `pruning.rs` | headers, blocks, requests, archive | request, receive, archive, prune | repeated answers, stale lists |
| `truth/cryptography.rs` | a validator's key and its rotations | rotate, key at a height | heights out of order |
| `intelligence/dispute.rs` | disputes, index by job, escrows, bonds | initiate, escalate, verify, resolve, appeal | bonds and escrows shared by disputes, windows, rounding |
| `intelligence/job.rs` | jobs with retries and deadlines | submit, assign, execute, complete, fail, expire, cancel, dispute | revival of finished jobs, retries, late results |
| `intelligence/verification.rs` | verifications, queue, challenge counters, disputes | schedule, complete, dispute, decide | results and decisions in any order |
| `intelligence/routing.rs` | operator metrics, decisions | score, select, fall back | ranking after failures |
| `intelligence/kernel.rs`, `receipts.rs`, `operator.rs` | context, outputs, receipts, registry | execute, meter, register, suspend | budgets, majority over hashes |
| `storage/crdt.rs` | counters, sets, registers, maps, graphs | update, merge, sync | convergence, removed elements |
| `storage/partition_manager.rs` | partitions, global root | create, activate, migrate, freeze, delete | the root lags behind |
| `storage/artifact.rs` | artifacts, hash index, tiers, pins | store, evict, find | overwriting, stale candidates |
| `net/p2p.rs`, `network.rs` | peer table, ban list | connect, ban, broadcast | check, then act |
| `sdk/client.rs` | connection, calls under way | submit, get, verify | timeouts and made-up answers |
| `observability` | health, audit trail | check, append, verify | two summaries, hashing switched off |
| `rpack/scene.rs`, `asset.rs` | scene graph, cache tiers | add, check for cycles, put, evict | counters at zero, limits |
| `cli`, `core`, messaging, compaction, memory model | none that changes | parsing, encoding, types | |

How they interact. Consensus finalizes a block; `finalize_block` applies its
transactions to the state, whose operations call the settlement layer. The
active validators set the consensus threshold when the engine is built and are
not looked at again. The job executor owns a verification engine and calls it
under its own write lock; these two are one model. The dispute engine keeps its
own escrows; nothing in the code connects them with those of the settlement layer.
Votes reach the engine through the network layer, which promises nothing about
delivery. The other parts are libraries: they keep their state to themselves, and
no call of one reaches another. What is composed in them is what runs
concurrently inside: RPC tasks over shared locks, peer-table calls, a persisting
process and its crashes, replicas that merge, a client and a network that
loses and delays.

What makes each part correct, in short: certificates are backed by real votes
and cannot contradict each other (consensus); money is neither paid twice nor
lost, and penalties stick (settlement, validators); one ruling per job, and
money follows the ruling (disputes); a job that is finished stays finished, and
nobody is accused of what they did not run (jobs, verification); a message
id takes effect once (partitions); what a client was told is there (RPC); a restart finds
what was saved (storage); nothing removed comes back and nothing present is lost
(replicas, artifacts, archive); a ban holds (network).

## Modules

| module | models | composed with |
| --- | --- | --- |
| `Consensus` | `ConsensusEngine` | voters as environment |
| `Ledger` | `State`, `SettlementState`, `finalize_block` | |
| `Validators` | `ValidatorSet` of `validator.rs` | |
| `Dispute` | `DisputeEngine` | |
| `Verification` | `VerificationEngine` | extended by `Jobs` |
| `Jobs` | `JobExecutor` with its engine | extends `Verification` |
| `StakingSet` | `ValidatorSet` of `validator_set.rs` | |
| `Governance` | `Governance` | |
| `CrossPartition` | `PartitionManager` of `cross_partition.rs`, its registries | |
| `TxPool` | abstract: what the node promises about transactions | |
| `Rpc` | `NodeState`, `RpcServer` | implements `TxPool` |
| `ChainStore` | `Storage` and its files | crashes as environment |
| `ChainSync` | `StateSync`, `StatePruner` with its archive | peers as environment |
| `Keys` | `KeyManager` | |
| `Replicas` | the CRDTs and `AntiEntropy` | several replicas |
| `PartitionOps` | `PartitionManager` of `partition_manager.rs` | |
| `Network` | `P2PNetwork`, the node's calls into it | concurrent calls |
| `Routing` | `Thalamus` | |
| `Execution` | `KernelExecutor`, metering, `RedundancyManager`, `OperatorRegistry` | |
| `Artifacts` | `ArtifactStore` | |
| `SdkClient` | the client | an unreliable network (external) |
| `Observability` | `HealthMonitor`, `AuditTrail` | |
| `RenderPack` | `SceneIR`, `AssetCache` | |
| `Lists` | `Vec::retain` (external) | used by the models with indexes |
| `MC*` | constants and symmetry for TLC | one per model; `MCServices`, `MCEdge` for the libraries |
| `FoldLemmas` | no code: lemmas about folds, sums, remainders and lists | extended by the proofs |
| `ConsensusProofs`, `LedgerProofs`, `ValidatorsProofs`, `DisputeProofs`, `JobsProofs` | invariants and theorems | one per model of the core |
| `ServicesProofs`, `EdgeProofs` | the same for the libraries | one section per component of `services`, `edge` |

Variables and actions carry the names of fields and functions: `receive_prevote`
is `ReceiveVote`, `CheckRound`, `RecordPrevote`; `resolve_dispute` is
`ResolveDispute`. A definition whose name ends in what it does wrong
(`PayFrozenToo`, `JailOnce`, `StoreUnindexed`, ...) is a mutated form of the
definition after it; no specification uses it, and it exists to show that a
property notices the mistake.

**Consensus.** `ConsensusEngine` keeps everything behind one `RwLock`. Operations
that hold the write lock throughout are single actions. The vote handlers take
the lock three times (height, round, update), and are three actions; `handlers`
holds the calls under way. The engine accepts a vote from any id and verifies
no signature; `Voters` are the ids whose votes arrive, `Active` those that set
the threshold, `Faulty` those that may contradict themselves. `cast` and
`certs` are history variables.

**Ledger.** A block is a sequence of actions between `BeginBlock` and
`FinalizeBlock`; `AbortBlock` ends it at any point and undoes nothing, as the
early return of `finalize_block` does. Settlement operations that no transaction
reaches (`freeze`, `slash`, `update_stake`, ...) are called between blocks.
Transactions are the arguments of the actions; payload encoding and signatures
are not modelled, because a missing signature is always accepted. `funded`,
`paid`, `overwritten`, `slashed_in` and `undivided` (remainders of rewards, and amounts
shared among nobody) are history variables.

**Validators.** A function from ids to records; the order of the vector is left
out. `f64` slashing factors are percentages: for stakes below 3 million the two
were compared and agree. `total_stake` is taken modulo `Word`, as in a release
build; a debug build panics instead. Epochs come from the caller and do not
decrease.

**Dispute.** Block heights are arguments in the code; `now` is the height callers
pass. Of a fraud proof only the comparison of the output hashes matters. `renewed` is
history: jobs whose escrow was set up again since their dispute was opened or ruled.

**Jobs, Verification.** A job id is a hash over budget and deadline, which are
therefore functions of the id. Costs are abstracted to the total fee. A kernel
that fails leaves the job as it is, so `ExecuteJob` is its success. The
engine's disputes are kept by id and status.

**StakingSet.** Every operation of the set; a validator's `total_stake` equals its
own stake plus its delegations after each of them and is computed. `funds` and
`drifted` are history: what a delegator put in and drew, and whether an operation
charged a validator that was already paid out or drew more than it holds.

**Governance.** Proposals, votes appended to them, and the tally with its 64-bit
product (`TallyWord`). Nothing in the code ends a vote.

**CrossPartition.** A partition root is the set of payloads committed under it, so
that a proof exists exactly for a member; the zero root of a new partition has the one
payload of zeros, which an empty proof leads to. A message is its four fields: its id is
one of them, public and compared with nothing, so that the same contents come under
several ids and several contents under one. The registry is keyed by the id. `accepted`
counts, as history, how often each message took effect.

**Rpc, TxPool.** A task is a connection, or a call of `add_transaction` or
`store_block`; each locked section is an action and the sections of different
tasks interleave. `TxPool` has two actions: transactions enter, and a client is
told. `Rpc` implements it with the transactions that are both in the mempool and
findable as the pool.

**ChainStore.** `persist` is a sequence of writes, each of which truncates a file,
leaving it `Torn`, and then fills it. A write may fail, the process may crash at
every step, and `load` reads whatever is there. A file carries the number of the
`persist` that wrote it.

**ChainSync.** Peers answer with any headers and blocks, asked for or not, repeated
and in any order. `prune_list` is what `get_blocks_to_prune` returned and a caller
hands to `prune` later.

**Keys.** Rotations with heights in any order, and the search for the key at a height.

**Replicas.** Each replica holds one value of each type; `AntiEntropy::sync` compares
version vectors and merges or skips. Who counts updates in the version vector is
not in the repository; every local update is taken to.

**PartitionOps.** The global root is the map it is the hash of. `unpublished` is
history: partitions whose root was changed by a migration since it was computed.

**Network.** The peer table and the ban list have a lock each; `add_peer`, `ban_peer`,
discovery and broadcasts are sequences of locked sections of concurrent calls.

**Routing.** Eligibility, five scores, their weights and the tie-break, all as
operators; actions are updates of snapshots and metrics, a decision, and a fallback
after a failure. Floating-point shares are thousandths.

**Execution.** A kernel is executed under a context with budget and memory limit, once
per redundant operator; the milliseconds it took are part of the output hash.
`EvaluateRedundancy` gives the set of verdicts over all iteration orders of the
hash map of counts.

**Artifacts.** The store with everything it keeps by id and by content hash. `get_mut`
hands out an artifact to be written to (`MutateContent`); nothing in the repository
calls it. `overwritten` and `mutated` are history: ids whose content was changed in
place.

**SdkClient, Observability, RenderPack.** As the headers of the modules say. In `SdkClient` the network is external: it serves each request it has got, at any
time, and may lose requests and replies. In `RenderPack`, `is_acyclic` is one action
per node it removes, because the order of its queue is that of a hash map.

## Runs

Passing runs:

| run | states | checks |
| --- | --- | --- |
| `consensus_quorum` | 1.2 M | 4 voters, 1 faulty, 2 blocks, 6 votes in one view: `SubQuorumOnlyOnSplit`, `Agreement`, `FinalizedRobust` |
| `consensus_views` | 430 k | 2 voters, 2 heights, 2 rounds, view changes inside handlers: `LockJustified` |
| `ledger` | 880 k | 5 transactions and calls over 2 blocks: `EscrowConserved`, `RewardsBacked`, `EscrowLifecycle`, `PenaltyStands` |
| `validators` | 164 k | 6 operations over 4 epochs, totals that wrap: `JailServed`, `RewardsWithin`, `TotalStakeExact` |
| `dispute` | 165 k | 2 jobs, 2 challengers, 3 heights: `EscrowFollowsDispute`, `BondHeld`, `RulingFinal` |
| `jobs` | 430 k | 1 job, 2 operators, 4 engine calls: `ExhaustedStaysFailed`, `AccusedHeldJob` |
| `services` | 305 k | the libraries of the truth plane, one at a time (below) |
| `edge` | 400 k | the libraries of the other planes, one at a time (below) |

`services` and `edge` hold several components each. These share no variable and call
none of each other's operations, and each property reads the variables of one
component; an interleaving of several of them is, for such a property, that
component's own behaviour with stuttering. `focus` therefore names the one
component that takes steps in a behaviour.

`services`:

* `SetStakeCovered`: the total of the staking set never exceeds the bonded stake, and
  is exact until an operation charges a validator that was paid out or draws more than
  it holds. `DelegatorClaims`: what a delegator drew and can still draw is what it put
  in plus its first delegation, which the code counts twice.
* `PassedBySupermajority`: a proposal passes or is rejected by the weight cast, up to
  one unit of rounding and as long as the product does not wrap.
* `ConsumedOnce`: of the messages that come under one id, one at most takes effect, also
  after `prune` let an old one in again and whatever their contents.
* `ImplementsPool`: the RPC server implements `TxPool`. `SeenBecomesFindable`: a
  transaction seen in the mempool or in a block becomes findable (liveness).
* `FilesInOrder`: wherever `persist` is cut short, the readable files are no newer than
  the ones written before them. `RestoredAsSaved`: after a `persist` that went through,
  a restart gives exactly the memory that was saved.
* `ReceivedOnce`: no height is received twice, so that counting headers is sound.
  `ArchiveIndexed`: the archive and its order of arrival hold the same heights, each
  once, under stale prune lists.
* `PastKeysStand`: a rotation leaves the keys of lower heights as they were.

`edge`:

* `SkipLosesNothing`: a sync that is skipped would have brought nothing, except for
  elements that were removed somewhere. `NoResurrection`: a removed element comes back
  on a replica only when it is added there.
* `GlobalRootCurrent`: the global root covers the partitions from activation to
  deletion, with their current roots but for migrations since.
* `BanHolds`: a ban stays, and a banned peer that is out of the table gets no message and
  enters again only by a call that was past the check when it was banned, each once.
* `BestOfTheRest`: each decision and fallback names as many operators as asked for or
  left, each once, none failed or ineligible, none ranking below one left out.
* `VerdictUnique`: the verdict does not depend on the order of the hash map.
  `RegisteredIsFound`: an operator is found under each kernel it registered for last.
* `ArtifactFound`: an artifact is found under its content hash unless `get_mut` changed
  that since it was stored, and under another one only if its id was changed in place,
  by storing over it or through `get_mut`.
* `SubmittedOnce`: a submission leads to at most one job, also when it is served after
  its timeout.
* `HealthAgrees`: report and overall status agree on the planes, and an unhealthy check
  is never covered up. `AuditVerifies`: the trail verifies however immutability was
  switched.
* `AcyclicExact`: `is_acyclic` is right, but for edges that start at a node that does
  not exist. `CacheWithin`: a tier stays within its limit and everything in it can be
  evicted.

`RewardsBacked` is an equation: what slashes put into the pool is in the pool, on the
verifiers' accounts or among the counted remainders (`undivided`).
`EscrowFollowsDispute` requires of an Active budget that `init_escrow` set it up since
the dispute was opened or ruled (`renewed`). `BondHeld` follows the newest dispute of a
challenger that has any number of them.

Runs that find a violation, each a disagreement between the code and what the
repository says of it:

* `consensus_split`: precommits are counted whatever their block, so that a
  split view is Finalized without a quorum (`FinalizedByQuorum`).
* `consensus_race`: a view change between the checks and the write lock lets a
  vote of another view be recorded (`VotesOfThisView`).
* `ledger_verification`: escrows are released without a verified receipt, against
  the comment on `JobEscrow` (`ReleasedOnVerification`).
* `job_retries`: each assignment restores all retries (`RetriesBounded`).

Where the code is weaker than one would expect and nothing in the repository
promises more, the property says exactly how far it goes:

* `SubQuorumOnlyOnSplit` and `FinalizedRobust` bound the damage of the first two
  findings; `EscrowConserved` counts what a second deposit overwrites;
  `EscrowFollowsDispute` lets `init_escrow`, and nothing else, make a disputed budget
  Active; `BondHeld` lets a second dispute replace the bond of the first, and a ruling on
  one of them settle the bond of the other; `TotalStakeExact` names the four operations
  that make `total_stake` inexact, and says nothing of the time after them.
* `fail_job` makes a completed, expired, cancelled or disputed job with retries left
  Pending again, although `can_retry` names Failed and Expired jobs; `ExhaustedStaysFailed`
  is about jobs without retries. `trigger_dispute` accuses the present holder of a job;
  `AccusedHeldJob` says that the accused held it, not that the disputed result is theirs.
* The same contents under another message id take effect again (`ConsumedOnce` is about
  ids).
* `create_partition` and `migrate_partition` leave the global root as it was
  (`GlobalRootCurrent` says which partitions it may be out of date for).
* An artifact that is stored over or changed through `get_mut` is still listed for its
  old content (`ArtifactFound`).
* Ids of scene nodes and lists of operators are taken to be free of repetitions:
  `add_node` numbers the nodes, and each operator has one profile. `SceneIR::nodes` and the
  argument of `route` are open to callers that repeat one, of which the repository has
  none: `is_acyclic` would then miscount, and an operator could be chosen twice.
* In `validator_set.rs`, `jail_validator` tests for Active after it has set Jailed, so
  that `active_count` is not reduced: no property relies on that counter.
  The first delegation of a delegator is counted twice (`DelegatorClaims`).
* Governance counts one voter as often as it votes (`PassedBySupermajority` is about
  weight cast), and beyond 2^64 the product of the tally wraps (it is about those below).
  The total of the staking set is only bounded from above once a validator was charged
  twice (`SetStakeCovered`).
* `ORSet::merge` passes over additions on one side only, so that replicas may disagree
  about removed elements for ever (`SkipLosesNothing` leaves them out); of two values
  with one timestamp in a register either may stay.
* A peer whose `add_peer` passed the check before the ban is inserted after it:
  `BanHolds` allows this once for each call that was past the check, and nothing else.
* Elapsed milliseconds are hashed with a kernel's output, so that equal outputs may not
  count as equal; the verdict is still unique.
* A client is told Pending, under an id it made up, of a job the network may or may
  not have; `SubmittedOnce` is about jobs of the network.

### Bounds, and why they are enough

* `consensus_quorum`: four validators are the least that tolerate one faulty;
  six votes are enough for a quorum, a conflicting vote and a prevote after a
  precommit. One handler suffices, because the race needs one handler and a view
  change. `consensus_views`: two views in each direction, so that certificates,
  locks and votes of an older height and an older round exist. The theorems
  cover any number of voters, views and concurrent handlers.
* `ledger`: thresholds are scaled down (buckets of 2, reputations 1, 2, 3), so that
  five operations cross each of them; one id is both job and sender, which
  `JobSettle` requires to reach an escrow. The longest of the sequences the
  properties are about, fund, freeze, settle, unfreeze, settle, has five.
* `validators`: stake 20 with 400 delegated makes a slash exceed the stake, and with a
  word of 256 the total wrap; six operations are enough to pay out, slash and reward a validator.
* `dispute`: each job has one dispute, two jobs with one challenger share a bond;
  bonds are below, at and above the minimum, windows are 0 and 1.
* `jobs`: jobs do not influence each other except through the capacity; one job
  with two retries and two operators shows reassignment, and four engine calls
  reach the escalation threshold of two and decide a dispute.
* `services`: staking, seven calls on two validators and a delegator (add, activate,
  delegate, unbond, complete, slash, remove is the longest sequence), stakes around the
  minimum, slashes of half and of more than all. Governance, three votes with
  weights below, around and above the quorum, two voters, so that one votes again; the
  product wraps at 65536, which the heaviest totals exceed.
  Messages under two ids, of heights on both sides of the prune window, with payloads that
  include the one of zeros. RPC, two
  tasks and two transactions: a race has two sides. Storage, two `persist`s over two
  heights, so that files of an older one exist under a failed newer one. Sync, two
  heights with two contents and four calls. Keys, four rotations over three heights,
  so that heights repeat and fall.
* `edge`: two replicas with three updates (add, remove, concurrent add) and any number of
  merges; two partitions, two epochs; two calls on two peers; three operators of which one
  fails; three redundant outputs, the least with a majority; two artifacts over two
  hashes with lists of two, so that an id is listed twice (a tier other than Hot takes
  an artifact out of the candidates as a pin does, and is not set in the run); three client
  calls; three components, two of them planes, with two checks; five audit entries; scenes of three nodes and three edges, which hold
  loops, parallel edges and cycles of each length; a cache of limit 3 with assets of
  1, 2 and 4, so that an asset fits, fits after eviction or never fits.

Deadlock is not checked where counters are capped or callers may stop calling.

### Fairness

Only `Rpc` states fairness: weak fairness of the steps of a task that has begun
(`TaskStep(t)`), because the runtime polls a ready task again, its locks are granted
in the order they are asked for, and no step of a begun task waits for an answer
from outside. Opening a connection and sending a request are the environment's
and have none. `SeenBecomesFindable` rests on it. Elsewhere no liveness is stated:
nothing in the modelled code runs by itself. Views time out, jobs expire, disputes
advance, archives are pruned and replicas sync only when a caller calls, and the
repository contains no such caller.

## Proofs

In the modules of the libraries a theorem is about the component's own specification
(`StakingSpec`, `NetSpec`, ...), of which the behaviours of `services` and `edge` are
instances.

Assumptions, each evaluated by TLC in the runs. Numeric constants and the numeric
fields of inputs are natural numbers, as unsigned integers are; sets of ids are
finite where something is summed or counted over them; `None`, `NoFile`, `Torn`,
`NoHash` and the like are none of the values they stand beside. Beyond that: in
Consensus, `2 * Threshold > |Voters| + |Faulty|`, which `ByzantineBound` derives from
fewer than a third of the validators being faulty; in Ledger, the order of the
reputation marks; in Routing, a tie-break for each seed that a request can be routed
under.

**FoldLemmas.** A sum over a set or a fold over a list is a recursive function over
subsets. The library's induction theorems cannot be used, so what would be induction
is the choice of a smallest subset for which a claim fails
(`SmallestSubset`, `SubsetInduction`). From it: the recursive function exists
and is unique; what a sum does when one term changes, is
zero, or is bounded; sums of rounded shares; remainders; and that `Retain` keeps of a
list just what is to be kept, nothing twice that was there once (`RetainIs`).

**ConsensusProofs.** Types, `LockJustified`, `PhaseCertified`: a phase rests on a
certificate because all writers of the view also write the phase.
`CertificateSupported`, `SubQuorumOnlyOnSplit`, `Agreement` and `FinalizedRobust` from
`CertInv`: recorded votes and votes of handlers were cast, a voter that is not
faulty cast one vote per type and view, and in Finalized at least a threshold of
voters precommitted. Two quorums of one view share a voter that is not faulty, whose
two votes are one.

**LedgerProofs.** Types and all properties. `EscrowConserved` is inductive with the types;
`ActiveIndexed` and `ReputationStanding` are proved over the steps that touch the
registry; `RootOfLastBlock` needs that keys are never removed and that the number of
receipts is finite. `RewardsBacked`: a verifier that occurs several times in the list is
credited as often, so that the credits sum up to the share times the length of the list,
and the remainder of the division makes up the amount.

**ValidatorsProofs.** `PowerInStep`, `JailServed` and `PaidOutStaysOut` (which allows for a
slash that brings a paid-out validator back through jail) from an invariant that
ties `jailed_until` to the last slash. Types, `RewardsWithin` (a sum of rounded shares is
at most the whole) and `TotalStakeExact` (each operation changes the total and the sum by
the same amount, modulo `Word`).

**DisputeProofs.** Seven properties. A dispute's index entry determines it, which makes
the ruling on a job unique. `EscrowFollowsDispute` is inductive with the history of
`renewed` escrows. `BondHeld` is shown challenger by challenger: heights of disputes do
not run ahead of `now`, so that the one just opened is the newest, and a ruling leaves who
is newest as it was.

**JobsProofs.** Six properties. A job that is exhausted has no retries and is Failed or
Disputed, which no operation but a new submission leaves.

**ServicesProofs.**

* `StakingSet`: types, and `DelegatorClaims` and `SetStakeCovered`, in which the total and
  the sum of what is bonded change together, until `drifted`.
* `CrossPartition`: `ConsumedOnce` from `Registry`, which adds that the id of a message that
  took effect is in the set of consumed ids, whatever was pruned and whatever came under
  it.
* `Keys`: `PastKeysStand` with the types alone, because the search for a height passes
  over rotations above it.
* `Governance`: the division in the tally loses less than a unit.
* `Rpc`: `ImplementsPool`, from `TaskInv`: a task that is about to answer has put its
  transaction into the mempool and where it can be found, and one that has yet to fill the
  mempool has made it findable. Initial states map to initial states, and every locked
  section to a step of `TxPool` or to a stutter. (`TxPool` states no fairness, so that
  this is all of the refinement.)
* `ChainSync`: `SyncInv`: lists of received heights without repetitions, and an archive
  index that lists just what is archived. `HeightsWithout` is a fold
  of removals; that it removes exactly the heights given is proved over its prefixes.
* `ChainStore`: `StoreStages` says, for each file at which `persist` may be, that the
  files before it hold the memory or are `Torn`; `DiskOrder` adds that no file is newer
  than the last `persist` that began; `SavedAs` is what the files hold from the end of a
  `persist` that went through to the next.

**EdgeProofs.**

* `Network`: `NetInv` types the calls under way. `BanHolds` is proved call by call: a step is `Harmless` to a banned peer if it
  neither inserts it nor sends to it nor passes its check, and the one step that inserts
  it takes its call out of those past the check.
* `PartitionOps`: `GlobalRootCurrent` is inductive with the types (`PartitionInv`).
* `Replicas`: whatever a replica knows was born in an update that its version vector
  covers, and that no vector covers whose replica does not know it (`Backed`); nobody has
  counted more updates of a replica than it has itself (`OwnLeads`), so that an
  update is new to all. A vector that covers another's then knows all it knows.
* `Artifacts`: `ArtifactInv`, the index and the artifacts agree but for ids changed in place.
* `Execution`: two majorities among the same results overlap; `RegistryInv`, the
  registry and its index agree.
* `SdkClient`: `SdkInv`: a request on the wire is the only one of its call, and was not
  served.
* `Observability`: `HealthInv`; `AuditInv`, the hashed entries are a prefix of the
  trail and each hash is the chain of what is before it.
* `RenderPack`: `CacheInv`: every asset that takes room has an entry in the queue of its
  tier, so that popping the whole queue empties the tier, and the fewest pops that
  are enough exist. `SceneInv` and `Progress`: each counter is the number of
  edges from nodes not yet visited, and what is visited is closed under sources and holds
  no cycle. If the queue is empty and nodes are left, each of these is led to by another;
  a smallest set with this property leads on from each of its nodes, which is a cycle.
* `Routing`: the place of an operator in the sorted list is one more than the number
  of operators ahead of it, which is a bijection; whoever is beyond the first `k` has a
  rank no higher than any of these.

Proved and not among the runs, because the proof covers every instance: the type
invariants, `CertificateSupported`, `PhaseCertified`, `ActiveIndexed`,
`ReputationStanding`, `RootOfLastBlock`, `ReviewSurvives` (which allows for a settlement
repeated at the same height), `OneDisputePerJob`, `RuledByProof`,
`SharesWithinSlash`, `OperatorMatchesStatus`, `EscalationEarned`,
`ResolvedHasDecision`, `PowerInStep`, `PaidOutStaysOut`.

Only model-checked: `SeenBecomesFindable`, because the prover does not reason about
fairness and ENABLED; and the four violations, whose counterexamples are TLC's.

## Not modelled

* Signatures, hashing, Merkle trees and encodings: ids stand for hashes, a root for the
  set of its leaves. `MerkleTree::proof` and `MigrationProof::verify` are called by
  nothing in the repository.
* 64-bit overflow, except `total_stake` and the governance product: a reputation delta
  of `i64::MIN`, products of budgets beyond 2^64 / 10000 and, in `can_prune`, a
  height below the retention overflow in the code.
* Random sampling and the metrics of the verification engine.
* Artifact commitments in the settlement state: no transaction stores one.
* Constructors, encoding and signatures of transactions: what they yield is the argument
  of an action.
* `cli`: argument parsing and start-up; `cli/src/node.rs` is not part of the build.
* `truth/messaging.rs`: message types without behaviour.
* `storage/compaction.rs`, `storage/memory_model.rs` and `intelligence/memory.rs`: nothing
  calls them.
* Replay bundles, tracing, logging, metrics and redaction of text: records that nothing
  reads back. (`start_child_span` takes a lock it already holds; nothing calls it.)
* Containers and deltas of render packs, canonical encoding and deterministic random
  numbers: pure functions on bytes.
* Start and stop of a network node, its configuration and wire formats.

## Plan

The model is complete as far as the above goes, and every safety property of a
passing run is proved. What is left is to state more:

1. The inductive invariants of the libraries (`SyncInv`, `StoreStages`, `CacheInv`, ...) are
   defined with the proofs. Those that say something of the code beyond the property they
   serve belong in the models, with a run of their own.
2. Properties of two components of the core at once, where the code connects them:
   what `finalize_block` applies against what consensus finalized.
3. Shorter proofs where a step is split more finely than a reader needs.
