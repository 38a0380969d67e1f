------------------------------ MODULE Executors ------------------------------
(***************************************************************************)
(* The executors: those that patch a workload's pod template               *)
(* (RestartWorkload, BumpMemory, RollbackDeployment), while users edit the *)
(* workload and the deployment controller rolls it out, and DeletePod,     *)
(* while the pods of the workload die and are replaced.                    *)
(*                                                                         *)
(* `log' lists the versions of the workload, resourceVersion being the     *)
(* position; `seen' is the version the executor's cache holds and setsSeen *)
(* its list of ReplicaSets.  The three patch functions (Deployment,        *)
(* StatefulSet, DaemonSet) are the same code on different types.  A        *)
(* template has one container: containers are patched one by one and alike.*)
(* The workload has one replica; `pods' lists its instances, oldest first. *)
(* Patches touch the template and DeletePod the pods, and neither reads    *)
(* what the other writes: a behaviour follows one of the two parts.        *)
(***************************************************************************)
EXTENDS Integers, Sequences, FiniteSetsExt

CONSTANTS
    Specs,          \* pod specs users deploy
    MiB,            \* bytes per MiB
    Factors,        \* values of selfHeal.memoryFactor
    Caps,           \* values of selfHeal.memoryMaxLimit
    StableNames,    \* a new pod has its predecessor's name (StatefulSet)
    MaxPods,        \* bound: pod instances
    RetrySteps,     \* retry.DefaultRetry.Steps (5)
    MaxVersions,    \* bound: edits stop at this resourceVersion
    MaxPatches,     \* bound: executor calls
    MaxFaults,      \* bound: failed API calls
    None

\* Memory of a container, in bytes; None where it is not set.
Sizes == Nat \cup {None}

\* Pod specs, as far as the executors touch them.
SpecType == [image : {s.image : s \in Specs}, limit : Sizes, request : Sizes]

\* A factor is a ratio, or None where it is not set; one that does not parse
\* fails like one that is not above 1, and is written as 0.
FactorType == (Nat \X (Nat \ {0})) \cup {None}

\* The API server admits no request above its limit.
Valid(spec) == None \notin {spec.limit, spec.request} => spec.request <= spec.limit

ASSUME ExecutorsAssumption ==
    /\ Specs # {}
    /\ Specs \subseteq SpecType /\ \A s \in Specs : Valid(s)
    /\ Factors \subseteq FactorType /\ Caps \subseteq Sizes
    /\ {RetrySteps, MiB} \subseteq Nat \ {0}
    /\ {MaxVersions, MaxPatches, MaxFaults, MaxPods} \subseteq Nat
    /\ StableNames \in BOOLEAN
    /\ None \notin Nat

VARIABLES
    log,        \* versions of the workload
    sets,       \* its ReplicaSets
    seen,       \* the version in the executor's cache
    setsSeen,   \* the ReplicaSets in the executor's cache
    pods,       \* the instances of its pod, by UID
    podsSeen,   \* the same in the executor's cache
    lastPod,    \* the instance whose death the obituary records, or None
    part,       \* the part of the workload followed: "template" or "pods"
    op,         \* the executor call in progress
    calls,      \* executor calls so far
    faults      \* failed API calls so far

workload == <<log, sets, seen, setsSeen>>
replicas == <<pods, podsSeen, lastPod>>
vars == <<workload, replicas, part, op, calls, faults>>

\* A template: the pod spec and the restartedAt annotation (when it was set, as
\* the number of the call that set it).
Template(spec, restarted) == [spec |-> spec, restarted |-> restarted]

Latest == log[Len(log)]
Cached == log[seen]

\* `current' and `target': the templates of the newest and of the previous
\* ReplicaSet when a rollback began.
Idle == [step |-> "idle", action |-> None, tries |-> 0, factor |-> None,
         cap |-> None, current |-> None, target |-> None]

Init ==
    /\ \E s \in Specs : log = <<Template(s, 0)>>
    /\ sets = {[template |-> log[1], rev |-> 1]}
    /\ seen = 1 /\ setsSeen = sets
    /\ pods = <<"Alive">> /\ podsSeen = pods
    /\ lastPod = None
    /\ part \in {"template", "pods"}
    /\ op = Idle
    /\ calls = 0 /\ faults = 0

TypeOK ==
    /\ seen \in DOMAIN log
    /\ DOMAIN podsSeen \subseteq DOMAIN pods
    /\ lastPod \in DOMAIN podsSeen \cup {None}
    /\ op.step \in {"idle", "patch"}
    /\ op.step = "patch" => op.action \in {"RestartWorkload", "BumpMemory", "RollbackDeployment"}
    /\ op.tries \in 0 .. RetrySteps - 1
    /\ calls \in 0 .. MaxPatches /\ faults \in 0 .. MaxFaults

-----------------------------------------------------------------------------
(* The environment.                                                        *)

Write(t) == log' = Append(log, t)

\* A user edits the workload, its template or something else.
Edit ==
    /\ part = "template" /\ Len(log) < MaxVersions
    /\ \E s \in Specs \cup {Latest.spec} : Write(Template(s, Latest.restarted))
    /\ UNCHANGED <<sets, seen, setsSeen, replicas, part, op, calls, faults>>

Newest(S) == CHOOSE s \in S : \A t \in S : t.rev <= s.rev

\* The deployment controller gives the template the next revision, in the
\* ReplicaSet that already has it or in a new one, and notes it on the workload.
Rollout ==
    /\ Newest(sets).template # Latest
    /\ sets' = {s \in sets : s.template # Latest}
                 \cup {[template |-> Latest, rev |-> Newest(sets).rev + 1]}
    /\ Write(Latest)
    /\ UNCHANGED <<seen, setsSeen, replicas, part, op, calls, faults>>

\* Watches bring the caches up to date.
Sync ==
    /\ seen < Len(log)
    /\ seen' = seen + 1
    /\ UNCHANGED <<log, sets, setsSeen, replicas, part, op, calls, faults>>

SyncSets ==
    /\ setsSeen # sets
    /\ setsSeen' = sets
    /\ UNCHANGED <<log, sets, seen, replicas, part, op, calls, faults>>

\* Pod k comes to another state: it dies, runs again, or is deleted by a user, an
\* eviction or its controller.
PodTurns ==
    /\ part = "pods"
    /\ \E k \in DOMAIN pods, s \in {"Alive", "Dead", "Gone"} :
        pods[k] \notin {s, "Gone"} /\ pods' = [pods EXCEPT ![k] = s]
    /\ UNCHANGED <<workload, podsSeen, lastPod, part, op, calls, faults>>

\* The name of instance k.
PodName(k) == IF StableNames THEN 1 ELSE k

\* The workload's controller replaces a pod that is gone, or dead if the name of
\* the new one is free.
Replace ==
    /\ Len(pods) < MaxPods
    /\ pods[Len(pods)] \in IF StableNames THEN {"Gone"} ELSE {"Gone", "Dead"}
    /\ pods' = Append(pods, "Alive")
    /\ UNCHANGED <<workload, podsSeen, lastPod, part, op, calls, faults>>

SyncPods ==
    /\ podsSeen # pods
    /\ podsSeen' = pods
    /\ UNCHANGED <<workload, pods, lastPod, part, op, calls, faults>>

\* A reconcile records the death of a pod its cache shows: status.lastPod.
RecordDeath ==
    /\ op.step = "idle"
    /\ \E k \in DOMAIN podsSeen :
        podsSeen[k] = "Dead" /\ lastPod # k /\ lastPod' = k
    /\ UNCHANGED <<workload, pods, podsSeen, part, op, calls, faults>>

-----------------------------------------------------------------------------
(* BumpMemory's arithmetic.                                                *)

roundUpToMiB(n) == IF n % MiB = 0 THEN n ELSE (n \div MiB + 1) * MiB

\* Mutant of scaledQuantity: rounded down.
scaledQuantityDown(q, factor, cap) ==
    LET out == (((q * factor[1]) \div factor[2]) \div MiB) * MiB
    IN  IF cap # None /\ out > cap THEN cap ELSE out

scaledQuantity(q, factor, cap) ==
    LET out == roundUpToMiB((q * factor[1]) \div factor[2])
    IN  IF cap # None /\ out > cap THEN cap ELSE out

\* Mutant of bumpPodSpecMemory: the cap is for limits only.
bumpPodSpecMemoryLimitCap(spec, factor, cap) ==
    [spec EXCEPT !.limit   = IF @ = None THEN @ ELSE scaledQuantity(@, factor, cap),
                 !.request = IF @ = None THEN @ ELSE scaledQuantity(@, factor, None)]

bumpPodSpecMemory(spec, factor, cap) ==
    [spec EXCEPT !.limit   = IF @ = None THEN @ ELSE scaledQuantity(@, factor, cap),
                 !.request = IF @ = None THEN @ ELSE scaledQuantity(@, factor, cap)]

\* parseFactor: not set means 1.5; the rest is an error if it is not above 1.
parsedFactor(f) == IF f = None THEN <<3, 2>> ELSE f
FactorValid(f) == parsedFactor(f)[1] > parsedFactor(f)[2]

-----------------------------------------------------------------------------
(* The executors.                                                          *)

\* The engine calls an executor.
Called(p) ==
    /\ part = p /\ op.step = "idle" /\ calls < MaxPatches
    /\ calls' = calls + 1
    /\ UNCHANGED <<workload, part, faults>>

ToPatch(action) == [Idle EXCEPT !.step = "patch", !.action = action]

RestartWorkload ==
    /\ Called("template")
    /\ op' = ToPatch("RestartWorkload")
    /\ UNCHANGED replicas

\* An invalid factor (or cap, likewise) fails the heal before anything is touched.
BumpMemory ==
    /\ Called("template")
    /\ \E f \in Factors, c \in Caps :
        op' = IF FactorValid(f)
              THEN [ToPatch("BumpMemory") EXCEPT !.factor = parsedFactor(f), !.cap = c]
              ELSE Idle
    /\ UNCHANGED replicas

\* Too few revisions fail the heal as well.  The predecessor is looked up once,
\* in the cached list, and the patch that follows is retried with it.
RollbackDeployment ==
    LET newest == Newest(setsSeen)
        rest == setsSeen \ {newest}
    IN  /\ Called("template")
        /\ op' = IF rest = {} THEN Idle
                 ELSE [ToPatch("RollbackDeployment") EXCEPT
                           !.current = newest.template,
                           !.target  = Newest(rest).template]
        /\ UNCHANGED replicas

\* The instance that bears a name in a list of pods, if any does.
Bearing(name, list) == {k \in DOMAIN list : PodName(k) = name /\ list[k] # "Gone"}

\* The pod is looked up by name in the cache; not there, the heal is done.  The
\* server deletes whatever has that name now, or reports an error.
DeletePod ==
    /\ Called("pods") /\ lastPod # None
    /\ pods' = IF Bearing(PodName(lastPod), podsSeen) = {} THEN pods
               ELSE [k \in DOMAIN pods |->
                       IF k \in Bearing(PodName(lastPod), pods) THEN "Gone" ELSE pods[k]]
    /\ UNCHANGED <<podsSeen, lastPod, op>>

\* What mutate makes of a template.
Mutated(t) ==
    CASE op.action = "RestartWorkload"    -> [t EXCEPT !.restarted = calls]
      [] op.action = "BumpMemory"         ->
            [t EXCEPT !.spec = bumpPodSpecMemory(@, op.factor, op.cap)]
      [] op.action = "RollbackDeployment" -> [t EXCEPT !.spec = op.target.spec]

\* Mutant of Patch: the version is not checked.
PatchUnchecked ==
    /\ op.step = "patch"
    /\ Write(Mutated(Cached))
    /\ op' = Idle
    /\ UNCHANGED <<sets, seen, setsSeen, replicas, part, calls, faults>>

\* An attempt of the patch the server accepts: the version read is the latest.
Patch ==
    /\ op.step = "patch"
    /\ seen = Len(log)
    /\ Write(Mutated(Cached))
    /\ op' = Idle
    /\ UNCHANGED <<sets, seen, setsSeen, replicas, part, calls, faults>>

\* Mutant of Conflict: one retry too many.
ConflictOneMore ==
    /\ op.step = "patch"
    /\ seen # Len(log)
    /\ op' = IF op.tries < RetrySteps THEN [op EXCEPT !.tries = @ + 1] ELSE Idle
    /\ UNCHANGED <<workload, replicas, part, calls, faults>>

\* One that conflicts; the last one is an error.
Conflict ==
    /\ op.step = "patch"
    /\ seen # Len(log)
    /\ op' = IF op.tries + 1 < RetrySteps THEN [op EXCEPT !.tries = @ + 1] ELSE Idle
    /\ UNCHANGED <<workload, replicas, part, calls, faults>>

\* One that fails, with or without effect, and is not retried.
PatchError ==
    /\ op.step = "patch" /\ seen = Len(log)
    /\ faults < MaxFaults
    /\ faults' = faults + 1
    /\ UNCHANGED log \/ Write(Mutated(Cached))
    /\ op' = Idle
    /\ UNCHANGED <<sets, seen, setsSeen, replicas, part, calls>>

Next ==
    \/ Edit \/ Rollout \/ Sync \/ SyncSets
    \/ PodTurns \/ Replace \/ SyncPods \/ RecordDeath
    \/ RestartWorkload \/ BumpMemory \/ RollbackDeployment \/ DeletePod
    \/ Patch \/ Conflict \/ PatchError

Spec == Init /\ [][Next]_vars

-----------------------------------------------------------------------------
(* Properties.                                                             *)

\* The step is an executor's write.
Heals(action) ==
    op.step = "patch" /\ op.action = action /\ op'.step = "idle" /\ log' # log

\* A restart and a bump change their own part of the version they replace and
\* nothing else: what a user or a rollout wrote in the meantime is still there,
\* although the executor reads a cache and retries.
HealKeepsEdits ==
    [][ /\ Heals("RestartWorkload") => Latest'.spec = Latest.spec
        /\ Heals("BumpMemory") => /\ Latest'.restarted = Latest.restarted
                                  /\ Latest'.spec.image = Latest.spec.image ]_vars

\* No sequence of bumps, whatever the factors, caps and rounding, makes a spec
\* the API server would refuse.
SpecsValid == Valid(Latest.spec)

\* A bump gives the container more memory, unless the cap is in the way, and
\* never more than the cap.
BumpGrows ==
    [][Heals("BumpMemory") /\ Latest.spec.limit # None =>
            \/ Latest'.spec.limit = op.cap
            \/ /\ Latest'.spec.limit > Latest.spec.limit
               /\ op.cap # None => Latest'.spec.limit < op.cap ]_vars

\* DeletePod removes the last recorded dead pod (actions.go), and no other: not
\* the one that has replaced it meanwhile, although it goes by name and cache.
DeletesRecorded ==
    [][calls' # calls => \A k \in DOMAIN pods : pods'[k] # pods[k] => k = lastPod]_vars

\* RollbackDeployment "copies the prior ReplicaSet's pod template back onto the
\* Deployment, undoing a recent rollout", as `kubectl rollout undo' would: the
\* spec it overwrites is the one of the rollout it looked up, never one a user has
\* deployed since, and that rollout is really left.
RollbackUndoes ==
    [][Heals("RollbackDeployment") =>
            /\ Latest.spec \in {op.current.spec, op.target.spec}
            /\ Latest = op.current => Latest' # Latest]_vars
=============================================================================
