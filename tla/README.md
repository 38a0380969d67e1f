# A TLA+ model of Koroner

Koroner is a Kubernetes operator. It watches pods and Jobs, recognises deaths,
files each under an *issue* (workload, container, cause) as an `Obituary`, and
can try to heal a recurring issue. This directory models the part of it that
carries state and decisions, checks the models with TLC on small instances and
proves the central properties with TLAPS for every value of the constants.

## 1. Inventory

| Component | Source | State it keeps | Operations | Hard part |
| --- | --- | --- | --- | --- |
| pod reconciler | `internal/controller/pod_controller.go` | none of its own: work queue and informer cache of controller-runtime | `Reconcile`, `tryHeal` | every `Get` reads a cache that lags; errors requeue, successes do not |
| job reconciler | `internal/controller/job_controller.go` | none | `Reconcile`, heal inline | as the pod reconciler; heals with the policy it read first |
| obituary upsert | `internal/controller/koroner.go` | `Obituary` objects (count, first sighting, last episode, last pod, heal records) | create, status init, bump under `RetryOnConflict` | lost replies, conflicts, `AlreadyExists`, deletion by users, two operators |
| detection, diagnosis | `pod_controller.go`, `internal/forensics/diagnosis.go` | none | `detectPodDeath`, `Diagnose` | one crash shows in several container states in turn; events lag and expire |
| self-heal engine | `internal/selfheal/engine.go` | the shared limiter | `MaybeHeal`, `appendRecord` | gates on stale obituaries; record written after the mutation |
| deciders | `decider.go`, `subject_actions.go`, `llm_decider.go` | none | rule tables, LLM fallback | the LLM may answer anything |
| rate limiter | `ratelimit.go` | granted heals per namespace, in memory | `reserve` | rolling window, changing limits, reset on restart |
| executors | `actions.go` | none: workloads, ReplicaSets and pods in the cluster | delete, restart, bump memory, roll back | users and controllers write the same objects; pods are recreated under old names |
| policy | `koroner.go` `resolveConfig`, `namespaceWatched`, `api/v1alpha1/defaults.go` | `KoronerConfig` objects | resolve, default | fallback on errors, stale reads, two reads in one reconcile |
| seeder | `internal/bootstrap` | the `default` config | `Start` | acts on a cached `Get`; an error ends the manager |
| evidence, narrator, wiring | `internal/forensics/*`, `cmd/main.go` | none | I/O | none that a decision depends on |

Interaction: the API server's watches fill the operator's caches and work queues;
`Reconcile` resolves the policy, takes a pod, detects and diagnoses, looks in the
cache whether the crash is counted, upserts the obituary, and then calls
`tryHeal`, which resolves the policy again, re-reads the obituary from the cache
and calls `MaybeHeal`. The pod and the job reconciler share one engine, and so one
limiter. The seeder runs once per start, concurrently with the reconcilers.

What makes each part correct: no visible death is forgotten and each crash is
counted once (reconcilers, upsert); an update never rests on a stale version
(upsert, executors); a crash has one episode key (detection); the cluster is
touched only where, how often and in the way the operator's users allowed (policy,
engine, deciders, limiter); users' edits survive a heal, which acts on what it was
decided for (executors); seeding changes nobody's policy (seeder). The hazards behind
these are listed one by one, with their source lines, in `PROJECT.json`.

## 2. Modules

| Module | Models |
| --- | --- |
| `ObituaryStatus` | the persisted status and its three rewrites: first status, bump, appended heal record |
| `IssueLedger` | abstract specification: obituaries as an atomic ledger (open, count, note, drop) |
| `Reconciler` | both reconcilers, upsert and engine calls of any number of operators, against a versioned store and through lagging caches |
| `RateLimiter` | `reserve` |
| `HealPolicy` | `MaybeHeal` after the count and confidence gates: namespace gate, rules, LLM, reservation, dry run, execution |
| `PolicyResolution` | `KoronerConfig`s among users, caches and reconciles: `resolveConfig`, `WithDefaults`, `namespaceWatched`, the seeder |
| `PodForensics` | a pod's containers as the kubelet reports them, `detectPodDeath`, `Diagnose` |
| `Executors` | the four executors among users, rollouts and pods that come and go |
| `MCReconciler`, `MCHealPolicy`, `MCPolicyResolution`, `MCExecutors` | constants for TLC |
| `ReconcilerProofs`, `LedgerProofs`, `CountProofs` | theorems about `Reconciler` |
| `RateLimiterProofs`, `HealPolicyProofs`, `PolicyResolutionProofs`, `PodForensicsProofs`, `ExecutorsProofs` | theorems about the module of that name |

`Reconciler` EXTENDS `ObituaryStatus` and INSTANCEs `IssueLedger` with the latest
version of each obituary. `PodForensics` justifies what `Reconciler` assumes of
deaths (`Die` numbers a pod's crashes 0, 1, 2, ...; `Revise` lets the diagnosis of
one crash change); `HealPolicy` and `RateLimiter` refine what `Reconciler`
abstracts to `Decisions` and `spent`; `PolicyResolution` says where the policy comes
from that `Reconciler` and `HealPolicy` take as given; `Executors` refines
`Reconciler`'s `Exec`.

### Reconciler

A *worker* is an operator process: a queue of pods and one of Jobs, each drained by
one goroutine (controller-runtime's default), a cache, a limiter. The goroutines
never write the same obituary, because the cause `JobFailed` is part of its name,
and a Job's reconcile never reaches the limiter, because no action supports a Job:
their steps commute, and one reconcile at a time per worker stands for both. A Job
is a member of `Pods` that dies once (`JobFails`), under an issue of `JobIssues`;
its heal always ends in a `Skipped` record.

`log[i]` lists the versions of issue `i`'s obituary; a version's position is its
`resourceVersion`; a deleted object is a version of phase `Absent`, an object whose
status is still empty one of phase `Created`. A worker's cache is a position in that
list. `op[w].step` is where the reconcile is:

| step | code | actions |
| --- | --- | --- |
| `idle` | `Reconcile` up to the precheck | `Dismiss`, `Examine` |
| `upsert` | `upsertObituary`: `Get`, then create or compare | `Create`, `AlreadyExists`, `Lookup` |
| `init` | status update after `Create` | `InitStatus`, `InitConflict` |
| `bump` | one attempt of `RetryOnConflict` | `Bump`, `BumpCounted`, `BumpConflict`, `BumpNotFound` |
| `heal` | `tryHeal`, gates, decision, reservation | `GateClosed`, `Skip`, `Act` |
| `exec` | executor | `Exec` |
| `note` | one attempt of `appendRecord` | `AppendRecord`, `AppendConflict`, `AppendDropped` |

`ApiError` fails any write, before or after it takes effect. `Restart` loses
queue, cache and limiter and lists everything anew. A `Get` and the write that
follows it are one step: the cache belongs to the worker alone, so a watch event
between the two could as well come after the write. The death a reconcile works
on is fixed at `Examine`, as in the code; the pod may change during all the
steps after it.

Time stamps are represented by the death they were taken for. Evidence that no
decision reads is left out. The namespace selector and the watch flags are in
`PolicyResolution`: for `Reconciler` a death they exclude is none.

### PolicyResolution

`log` lists the versions of the whole collection of configs, as one watch delivers
them, and `seen` is the operator's. A reconcile reads its policy at `Begin` and, if
it is a pod's, again at `Again`; `op.policy` remembers from which config and version,
and whether the `List` failed, so that properties can compare what is done with what
users had written, before any default was filled in. The `List`, the `Get` of the
default and the `Get` of the namespace can fail. The order of a `List` is not
determined by anything, so any of a namespace's own configs may govern it. The
seeder's steps interleave with reconciles; an error other than `AlreadyExists` ends
the process (`SeedError`), and `Restart` fills the cache first.

### The others

`RateLimiter`: the code keeps a grant as a time stamp; the model also keeps, for the
properties, its number (two may fall in one tick), the run of the operator that
granted it and the limit that call was made with. `Limits` are the values
`maxHealsPerHour` takes as policies differ or change. `HealPolicy`: one consult from
call to record; a policy is fixed during a consult, and an LLM exists only if all the parts `resolveSelfHealLLM` and
`NewLLMDecider` ask for are there.

`PodForensics`: the kubelet's steps are external; each of them leaves a container
status a cluster can show, and `Observe` is a reconcile at that moment; listing
events may fail, which loses them. The history follows one *subject* (a container,
or the pod as a whole), chosen at the start: its latest sighting and its latest
crash. Every property is about successive sightings of one subject, so this loses
nothing and keeps two containers within reach.

`Executors`: versions as in `Reconciler`; the three patch functions are one, on
types that differ in nothing the model tells apart; `restarted` is the
`restartedAt` annotation. Containers are scaled one by one, so a template has
one. A memory factor is a ratio; one that does not parse fails like one that is
not above 1. Sizes are natural numbers: the rounding of `float64` and sizes beyond
`int64` are not modelled. `pods` lists the
instances of one replica's pod; they bear one name under a StatefulSet
(`StableNames`) and new ones otherwise. Patches and `DeletePod` read nothing of one
another, so a behaviour follows one `part` of the workload.

## 3. Runs

Passing (distinct states in brackets):

| Run | Properties | Bounds |
| --- | --- | --- |
| `record` (0.5 M) | `NoOrphanDeath`, `CountExact`, `HealsEarned` | 1 operator, 1 pod, 2 crashes, 2 issues, both confidences; real heals from the second occurrence on; one revised diagnosis, failed call and restart |
| `operators` (1.1 M) | `NoOrphanDeath`, `ImplementsLedger` | 2 operators, 1 pod, 2 crashes, 1 issue, one deleted obituary, dry-run heals, 2 attempts per retry loop |
| `live` (0.2 M) | `TypeOK`, `DeathsGetRecorded` | a pod with 2 crashes and a Job, one failed call, heals refused or skipped, fairness |
| `limiter` (2.8 M) | `WindowCap`, `RefusalsJustified` | 2 namespaces, window 2, time 0..3, limits 1 and 2, one restart |
| `policy` (0.5 M) | `TypeOK`, `HealsAuthorised`, `RulesAsDocumented`, `BudgetForChosen` | all kinds and causes, all 16 allowlists, every missing LLM part, every selector and namespace lookup |
| `config` (0.7 M) | `TypeOK`, `HealsOptedIn`, `OwnConfigWins`, `SeedKeepsPolicy`, `DefaultSeeded`, `EditsTakeEffect` | the operator's namespace and another, 2 configs each, 3 specs, 2 edits, one failed read or write, one crash, fairness |
| `detect` (3.1 M) | `TypeOK`, `EpisodePerCrash`, `OomVerdicts`, `EpisodesAscend` | 2 containers, 2 restarts each, threshold 2, all four exits, one failed probe, eviction |
| `executors` (2.0 M) | `TypeOK`, `SpecsValid`, `HealKeepsEdits`, `BumpGrows` | 2 releases, 3 calls, edits up to version 4, 2 attempts, one failed call, MiB of 4 bytes; 3 pod instances with names of their own |

What they show. `WindowCap`: when `reserve` grants a heal, that heal and those
granted to the namespace in the window before it are within the limit of this very
call, whatever limits other calls and other namespaces have. `RulesAsDocumented`: what
the rule decider chooses is what the table of the project's README recommends, and
where no LLM decider exists a consult ends with that or with nothing; it says nothing
of which decider goes first (see the disagreements below). `BudgetForChosen`, in both directions: a
consult comes to execute or dry-run only with a reservation within its limit, and
nothing else reserves. `HealKeepsEdits` is about `RestartWorkload` and `BumpMemory`;
rollbacks are in the run `rollback`. `OomVerdicts` is about deaths that are reported with a
container's end, which evictions and failed image pulls are not. The other
properties are stated, in words, above their definitions.

Why the bounds are enough. Two crashes are the first case in which an update can
be based on the wrong version and one crash can be mistaken for another; with heals
from the second occurrence on, a heal falls before and after a bump. Two issues let
one crash be filed twice. A second operator gives every conflict a writer can meet,
and two attempts reach both the retry and its exhaustion (the code's five differ
only in number). The limiter's clock runs past a full window, so entries are pruned,
and the edge of the window is met exactly. Two restarts reach the threshold from
below; a second container can hide the first. In `policy` the space is the complete
product of the tables. In `config` two edits let a namespace get two configs, or a
config of its own against the default, or have one changed between the two reads of
a reconcile; the specs opt in, opt in up to the dry run, and opt out. Three pod
instances are the recorded one, its replacement and the next; `executors` takes
`DeletePod` through them for `TypeOK` only, what can go wrong with it is in the run
`deletelive`. Deadlock is checked
wherever the environment can always do something (`record`, `live`, `limiter`,
`policy`, `config`); in the others the cluster falls quiet: the last re-sent event is
processed, the pod is evicted, edits and heals are used up.

Fairness in `live`. Weak fairness on the steps of a reconcile in progress: its API
calls have deadlines. Strong fairness on a queued pod being taken: the work queue
is first in, first out, so a pod is not passed over for ever, however often the
worker is busy when it could be its turn. Weak fairness on cache updates (watches
are re-established) and on re-sent events (the shared informer's periodic
resync). None on crashes, users, faults and restarts. Fairness in `config`: weak, on
the steps of a reconcile in progress, of the seeder, of the watch, and on the restart
of a process that has ended (the Deployment's); none on users, faults and crashes,
nor on reconciles being started.

Violations, each of something the repository says of itself:

| Run | Property | What it shows |
| --- | --- | --- |
| `status` | `CountOrTrailKept` | one behaviour that breaks both promises about a status: of two dead pods of one workload the first is counted again, because only the last episode is remembered, and the bump that does it replaces the whole status and with it the audit trail of heals |
| `twocauses` | `OneObituary` | one crash is an application error while the container is Terminated and a repeated crash once it waits in CrashLoopBackOff: two obituaries |
| `rollback` | `RollbackUndoes` | after a restart heal, a rollback copies an identical pod spec and changes nothing |
| `deletelive` | `DeletesRecorded` | the healthy pod that has taken a dead one's name is deleted in its stead: `DeletePod` goes by name and has no UID precondition |

`CountOrTrailKept` is the disjunction of `CountExact` and `TrailKept`, each of which a
comment in `obituary_types.go` states; a state that violates it violates both.
`RollbackUndoes` fails in two ways. The trace found first is the one above; with
`MaxPatches = 1` in `rollback.cfg` TLC shows the other: the rollback takes its target
from the listed ReplicaSets, applies it to whatever version the patch reads, and so
overwrites a release that a user has deployed since.

Disagreements met on the way that no run states:

- The project's README says that an LLM decider "can override" the rule decider, and
  `koronerconfig_types.go` that it decides which action to take. `HealDeciderFactory` chains
  the rule first and the LLM as its fallback: where the rule has an answer that is
  allowed and supported the LLM is never asked (`Rule` of `HealPolicy`).
- The limiter's comment calls its reset on restart "the conservative direction". It
  permits more: a window that spans a restart may hold twice the cap. `WindowCap`
  compares grants of one run of the operator (`g.life`).
- At the restart threshold a running container is reported dead of its previous crash
  under the next restart count, so that crash is counted again, although `lastEpisode`
  is there so that it is not. `EpisodePerCrash` excepts sightings at the threshold.
- `parseFactor`'s comment says an unparseable factor falls back to 1.5; the code fails
  the heal.
- `HealRecord.Action` is said to be empty when skipped, and is set when the limiter
  refuses.
- "Fall through to the bump path on next reconcile" after `AlreadyExists` happens only
  if something else triggers one.
- A failed `List` of a namespace's configs lets the cluster's default govern it, opted
  out or not, which is the exception `OwnConfigWins` makes.

## 4. Proofs

All proofs are for arbitrary constants under the named assumptions of the modules
(`ConfigAssumption`, `BoundsAssumption`, `LimiterAssumption`, `PolicyAssumption`,
`ResolutionAssumption`, ...), which say no more than the types of the configuration
and that `None` is none of the values it stands beside. Every invariant and every
action property that a passing run checks is stated by a theorem. Where a theorem
has a further hypothesis, it is named below. Each inductive invariant was
checked by TLC on the run's instance before it was proved.

### Reconciler

- `TypeCorrect`: `Spec => []TypeOK`. Besides types, `TypeOK` says that a cache never
  runs ahead of the log and that a step in progress finds the version it is based on;
  it is inductive by itself.
- `DeathsNotOrphaned`: `Spec => []NoOrphanDeath`. Not inductive: a worker may end a
  reconcile at `heal`, `exec` or `note` and thereby drop the death from its agenda.
  `OrphanInv` adds that from `heal` on the death in hand is recorded or lost to
  `AlreadyExists` (`HealAccounted`), and that a pod's death carries the pod's own name
  (`OwnDeaths`), so that requeueing it puts the right pod on the agenda. Both hold of
  Jobs as of pods.
- `LedgerImplemented`: `Spec => ImplementsLedger`. Every write rests on the latest
  version, by the version check; what remains is that an obituary has a first sighting
  exactly when its count is positive (`FirstSeenSound`) and that the version a worker
  initialises is its own empty one (`InitBase`).
- `CountsExactly`: `Spec /\ []OwnIssues(owner) => []CountExact`, for one operator
  (`OneOperator`). An obituary remembers only the last episode it has counted, so the
  count is right only if the deaths of an issue arrive in order. `CountInv` says that
  they do: the remembered episode is the latest counted (`LastIsLatest`), what has
  been counted has happened (`CrashesOwned`), a pod shows its latest crash
  (`DeathsCurrent`), and nothing later than the death a reconcile is about to count
  has been counted (`JobsCurrent`). `OwnIssues` says that no two pods share an issue;
  without it the property is false, as the run `status` shows. `OneOperator` is what
  one replica, or leader election, gives, and is needed too: with the constants of
  `operators` TLC finds a second operator that took up the first crash, sees after
  its cache has caught up that the last episode is another one (the first operator
  has counted both crashes meanwhile), and counts the first crash again.
  Both hold in the run `record`. Stale caches, lost replies, retries, restarts,
  revised diagnoses and deleted obituaries are all allowed.
- `HealsAreEarned`: `... => []HealsEarned`, under the same hypotheses, because it
  speaks of distinct crashes. The gates read a cached version, so `EarnedInv` is about
  every version and not the latest only: none has a count above the number of
  crashes the versions of its obituary record (`VersionsEarned`), and an executor
  runs on a version that passed the gates (`ExecGated`, `HealsGated`).

### The limiter, the deciders and the policy

- `LimiterCaps`, `LimiterRefusesOnlyWhenFull`: the list in memory is what the past
  grants of this run in the window are, whenever it is looked at, although it is
  pruned lazily (`Remembered`); so the limit a grant is checked against bounds its
  window. A later grant has a higher number (`Numbered`) and joins no earlier window.
- `OnlyAuthorisedHeals`: by the step a consult has reached, its namespace has been
  admitted and its action is on the menu (`Authorised`).
- `TableFollowed`: the lemma `TablesAgree` says that `RuleDecider`'s two maps with the
  capability table are the table of the project's README, kind by kind and cause by
  cause; `RulesInv` carries through a consult what that table leaves open to it, and
  that only an LLM decider that exists can have chosen something else.
- `BudgetSpentForChosen`: by `RulesInv` there is no outcome before the end of a consult,
  so only the step that reserves leads from deciding to acting. `PolicyTypeCorrect`
  follows from the same invariants.
- `OnlyOptedInHeals`, `OwnConfigsDecide`: a reconcile in progress holds a policy some
  outcome of its `List` and `Get` yields in the version it read (`Resolved`), and what
  it has done that policy asks for (`Asked`). Both are about a version in the past,
  which stays what it was because the log only grows. Neither property is inductive:
  the policy in hand has its defaults filled in, and only its origin tells what the
  user wrote.
- `SeedingKeepsPolicy`: `Create` is refused where the config exists, so it overwrites
  nothing, whatever the seeder's `Get` saw. That nobody's policy changes rests on
  `DefaultsIdempotent`: the spec the seeder writes, with defaults filled in, is the
  policy that was in force without it. `ResolutionTypeCorrect` gives the types.

### Detection and diagnosis

`ForensicsInv` relates what a container shows to what happened to it: its ends are
numbered by the restarts before them (`AllNumbered`), no sighting is ahead of the
status (`ShownBehind`), and the latest crash sighted is not later than the latest end
and has its number (`CrashKept`). From it: `OomVerdictsExact` (an end's reason
survives as long as the status shows the end), `EpisodesNeverReturn`, `OneEpisodePerCrash` and
`ForensicsTypeCorrect`, for any number of containers and restarts and any threshold.
`EpisodesNeverReturn` and `OneEpisodePerCrash` are what `Reconciler` takes for granted
when `Die` numbers a pod's crashes.

### The executors

`ExecInv(L)` says that every version, every ReplicaSet in the cluster and in the cache,
and the target of a rollback in progress is a template with a valid spec whose limit
is in `L`, and that a patch in progress has a factor above 1 and a configured cap.
`L` is a set of limits that bumps do not lead out of (`Closed`): all of them, or, for
`BumpsGrow`, those other than zero.

- `SpecsStayValid`: rollbacks bring old specs back, so validity is needed of them
  all. A bump keeps it because scaling, rounding to a MiB and capping are monotone
  (`DivMonotone`, `RoundUpMonotone`, `ScaledMonotone`).
- `HealsKeepEdits`, for restarts and bumps: the step that ends a patch with a write
  replaces the latest version by what the action makes of it (`HealsWriteLatest`), by the version check.
- `BumpsGrow`: under `BumpsAdd`. No limit and no cap is zero, and the factor adds at
  least a byte to a MiB: between two MiB the rounding makes the limit larger, but a
  whole number of MiB with a smaller factor, which `parseFactor` accepts,
  stays what it is after truncation, and the heal changes nothing. The run `executors`
  satisfies `BumpsAdd`, and so does any factor of practical use.
- `ExecutorsTypeCorrect`: in particular, no patch is tried more than `RetrySteps` times.

### Only model-checked

Liveness: `DeathsGetRecorded`, `DefaultSeeded`, `EditsTakeEffect`. Proofs under
fairness need `ENABLED`, which is out of the prover's reach. The violated properties
of section 3 are false, and hold under the hypotheses just named or not at all.

## 5. Not modelled

The narrator and the collectors' I/O, on whose results nothing but text depends;
deletion of a workload under an executor; Prometheus, log-tail and retention
settings, which no decision reads; flags, TLS and registration in `cmd/main.go`;
generated code, charts, manifests and tests. `PROJECT.json` gives the reason for
each. Three hazards have no property, each with a note there: a heal whose record is
lost for good (`engine.go:234`), a container hidden by the one before it
(`pod_controller.go:196`), and the limiter's reset on restart (`ratelimit.go:35`).

## 6. Plan

1. A bound on the count that holds for several operators and for shared issues.
2. What survives a restart of the limiter: a window that spans `n` restarts holds at
   most `n + 1` times the cap.

To repeat the checks: `tlc -config <run>.cfg <module>` for each run of
`PROJECT.json`, `tlapm <module>.tla` for each `*Proofs` module.
