-------------------------- MODULE PolicyResolution --------------------------
(***************************************************************************)
(* Which policy a reconcile runs under: the KoronerConfigs of a cluster,   *)
(* edited by users and read through a lagging cache, resolveConfig and the *)
(* defaults it fills in, the points of a reconcile at which the policy is  *)
(* read and used, and the seeder that creates the "default" config when    *)
(* the operator starts.                                                    *)
(*                                                                         *)
(* `log' lists the versions of the whole collection, as one watch delivers *)
(* them, and `seen' is the one in the operator's cache.  Both reconcilers  *)
(* read the policy before they look at the death; the pod reconciler reads *)
(* it again, after the evidence is collected and written, for the heal.    *)
(* What the engine makes of the policy is in HealPolicy, and the gates on  *)
(* count and confidence are in Reconciler: here they are open or not.      *)
(***************************************************************************)
EXTENDS Naturals, Sequences

CONSTANTS
    Namespaces,
    Operator,       \* the operator's namespace
    Names,          \* names of KoronerConfigs
    Specs,          \* what users write into them
    MaxEdits,       \* bound: edits by users
    MaxFaults,      \* bound: failed reads and writes
    MaxRestarts,    \* bound: operator restarts without a cause in this model
    None            \* an unset pointer, an object that does not exist

\* The policy in force where no KoronerConfig is.
BuiltIn == <<None, None>>

Optional(S) == S \cup {None}

\* KoronerConfigSpec: the fields that decide something.
SpecType == [podCrashes       : Optional(BOOLEAN),
             jobFailures      : Optional(BOOLEAN),
             evictions        : Optional(BOOLEAN),
             restartThreshold : Optional(Nat),
             selector         : {"nil", "malformed", "empty", "labels"},
             enabled          : BOOLEAN,
             dryRun           : Optional(BOOLEAN),
             requireHigh      : Optional(BOOLEAN),
             minOccurrences   : Optional(Nat),
             maxHeals         : Optional(Nat)]

ASSUME ResolutionAssumption ==
    /\ Operator \in Namespaces
    /\ "default" \in Names
    /\ Specs \subseteq SpecType
    /\ {MaxEdits, MaxFaults, MaxRestarts} \subseteq Nat
    /\ None \notin BOOLEAN \cup Nat \cup Namespaces
    /\ None \notin SpecType

Configs == Namespaces \X Names

VARIABLES
    home,       \* POD_NAMESPACE: the operator's namespace, or None if not told
    log,        \* versions of the collection: config -> its spec, or None
    seen,       \* version in the operator's cache
    seeder,     \* the seeder: "wait", "done", or "down" with the whole process
    op,         \* the reconcile in progress
    left        \* what remains of the bounded events

vars == <<home, log, seen, seeder, op, left>>

Kinds == {"Pod", "Job"}
Budgets == {"edit", "fault", "restart"}
NamespaceReads == {"match", "mismatch", "error"}

\* What a reconcile has done when it is at the step of that name.
Deeds == {"Recorded", "Applied", "DryRun", "Skipped"}

\* `source' is the config the policy was taken from, `at' the version it was
\* read in, and `failed' says that listing the namespace's own configs failed.
Policies == [source : Configs \cup {BuiltIn}, at : Nat \ {0}, failed : BOOLEAN]

Idle == [step |-> "idle", kind |-> None, ns |-> None, policy |-> None]

TypeOK ==
    /\ home \in {Operator, None}
    /\ log \in Seq([Configs -> SpecType \cup {None}]) \ {<< >>}
    /\ seen \in DOMAIN log
    /\ seeder \in {"wait", "done", "down"}
    /\ \/ op = Idle
       \/ op \in [step : {"watch", "heal"} \cup Deeds, kind : Kinds, ns : Namespaces,
                  policy : Policies]
    /\ left \in [Budgets -> Nat]

Init ==
    /\ home \in {Operator, None}
    /\ log = <<[k \in Configs |-> None]>> /\ seen = 1
    /\ seeder = "wait"
    /\ op = Idle
    /\ left = [b \in Budgets |-> CASE b = "edit"    -> MaxEdits
                                   [] b = "fault"   -> MaxFaults
                                   [] b = "restart" -> MaxRestarts]

Latest == log[Len(log)]
Cached == log[seen]
Spend(b) == left[b] > 0 /\ left' = [left EXCEPT ![b] = @ - 1]

-----------------------------------------------------------------------------
(* Defaults.                                                               *)

orTrue(b) == IF b = None THEN TRUE ELSE b
orFalse(b) == IF b = None THEN FALSE ELSE b
orElse(n, default) == IF n = None THEN default ELSE n

\* Mutant of WithDefaults: an unset dryRun means that heals are real.
WithDefaultsReal(s) ==
    [s EXCEPT !.podCrashes       = orTrue(@),
              !.jobFailures      = orTrue(@),
              !.evictions        = orFalse(@),
              !.restartThreshold = orElse(@, 3),
              !.dryRun           = orFalse(@),
              !.requireHigh      = orTrue(@),
              !.minOccurrences   = orElse(@, 3),
              !.maxHeals         = orElse(@, 5)]

WithDefaults(s) ==
    [s EXCEPT !.podCrashes       = orTrue(@),
              !.jobFailures      = orTrue(@),
              !.evictions        = orFalse(@),
              !.restartThreshold = orElse(@, 3),
              !.dryRun           = orTrue(@),
              !.requireHigh      = orTrue(@),
              !.minOccurrences   = orElse(@, 3),
              !.maxHeals         = orElse(@, 5)]

\* A spec that says nothing.
EmptySpec ==
    [podCrashes |-> None, jobFailures |-> None, evictions |-> None,
     restartThreshold |-> None, selector |-> "nil", enabled |-> FALSE, dryRun |-> None,
     requireHigh |-> None, minOccurrences |-> None, maxHeals |-> None]

DefaultKoronerConfigSpec == WithDefaults(EmptySpec)

-----------------------------------------------------------------------------
(* resolveConfig.                                                          *)

DefaultConfig == <<home, "default">>

\* A namespace's own configs.
Own(cfgs, ns) == {k \in Configs : k[1] = ns /\ cfgs[k] # None}

\* Mutant of Sources: the cluster's default goes first.
SourcesDefaultFirst(cfgs, ns, listed, got) ==
    IF home \notin {None, ns} /\ got /\ cfgs[DefaultConfig] # None THEN {DefaultConfig}
    ELSE IF listed /\ Own(cfgs, ns) # {} THEN Own(cfgs, ns)
    ELSE {BuiltIn}

\* Where the policy may come from, given whether the List and the Get succeed: the
\* first of the namespace's own configs, in an order nothing determines, the
\* default in the operator's namespace, the built-in values.
Sources(cfgs, ns, listed, got) ==
    IF listed /\ Own(cfgs, ns) # {} THEN Own(cfgs, ns)
    ELSE IF home \notin {None, ns} /\ got /\ cfgs[DefaultConfig] # None THEN {DefaultConfig}
    ELSE {BuiltIn}

SpecOf(cfgs, source) ==
    IF source = BuiltIn THEN DefaultKoronerConfigSpec ELSE WithDefaults(cfgs[source])

\* Mutant of ResolveConfig: read once and for all when the operator starts.
ResolveConfigOnce(step, kind, ns) ==
    /\ \E s \in Sources(log[1], ns, TRUE, TRUE) :
        op' = [step |-> step, kind |-> kind, ns |-> ns,
               policy |-> [source |-> s, at |-> 1, failed |-> FALSE]]
    /\ UNCHANGED left

\* The reconcile reads its policy from the cache and goes on to a step.
ResolveConfig(step, kind, ns) ==
    \E listed, got \in BOOLEAN :
        /\ \/ listed /\ got /\ UNCHANGED left
           \/ ~(listed /\ got) /\ Spend("fault")
        /\ \E s \in Sources(Cached, ns, listed, got) :
            op' = [step |-> step, kind |-> kind, ns |-> ns,
                   policy |-> [source |-> s, at |-> seen, failed |-> ~listed]]

-----------------------------------------------------------------------------
(* Reconciles of pods and Jobs that show a death.                          *)

Policy == SpecOf(log[op.policy.at], op.policy.source)

Done == op' = Idle
Goto(step) == op' = [op EXCEPT !.step = step]

Begin(kind, ns) ==
    /\ seeder # "down" /\ op = Idle
    /\ ResolveConfig("watch", kind, ns)
    /\ UNCHANGED <<home, log, seen, seeder>>

\* The class of death is watched, and so is the namespace: a selector that is
\* malformed or empty selects every namespace, one with labels none that cannot
\* be read.
Watched(read) ==
    /\ IF op.kind = "Pod" THEN Policy.podCrashes ELSE Policy.jobFailures
    /\ Policy.selector = "labels" => read = "match"

Ignore ==
    /\ op.step = "watch"
    /\ \E read \in NamespaceReads : ~Watched(read)
    /\ Done
    /\ UNCHANGED <<home, log, seen, seeder, left>>

\* The evidence is collected, narrated and written.
Record ==
    /\ op.step = "watch"
    /\ \E read \in NamespaceReads : Watched(read)
    /\ Goto("Recorded")
    /\ UNCHANGED <<home, log, seen, seeder, left>>

\* tryHeal reads the policy anew; the job reconciler goes on with the first one.
Again ==
    /\ op.step = "Recorded"
    /\ IF op.kind = "Pod" THEN ResolveConfig("heal", op.kind, op.ns)
                          ELSE Goto("heal") /\ UNCHANGED left
    /\ UNCHANGED <<home, log, seen, seeder>>

\* MaybeHeal past its gates.  There is no action for a Job or CronJob.
Attempt ==
    /\ op.step = "heal" /\ Policy.enabled
    /\ Goto(IF op.kind = "Job" THEN "Skipped"
            ELSE IF Policy.dryRun THEN "DryRun" ELSE "Applied")
    /\ UNCHANGED <<home, log, seen, seeder, left>>

\* Return, after a deed or because self-heal is off or a gate closed.
Return ==
    /\ op.step \in {"heal", "Applied", "DryRun", "Skipped"}
    /\ Done
    /\ UNCHANGED <<home, log, seen, seeder, left>>

-----------------------------------------------------------------------------
(* Users and the watch.                                                    *)

Put(k, spec) == log' = Append(log, [Latest EXCEPT ![k] = spec])

\* A user creates, changes or deletes a config.
Edit(k) ==
    /\ Spend("edit")
    /\ \E spec \in Optional(Specs) : spec # Latest[k] /\ Put(k, spec)
    /\ UNCHANGED <<home, seen, seeder, op>>

Sync ==
    /\ seen < Len(log)
    /\ seen' = seen + 1
    /\ UNCHANGED <<home, log, seeder, op, left>>

-----------------------------------------------------------------------------
(* DefaultConfigSeeder.Start.                                              *)

Seeded == seeder' = "done" /\ UNCHANGED <<home, seen, op, left>>

\* There is no namespace to seed, or the cache already has a default config.
SeedFound ==
    /\ seeder = "wait"
    /\ home # None => Cached[DefaultConfig] # None
    /\ Seeded /\ UNCHANGED log

\* The cache has none: Create succeeds, ...
CanCreate == home # None /\ Cached[DefaultConfig] = None /\ Latest[DefaultConfig] = None

\* Mutant of SeedSpec: an example to start from, with everything on.
SeedSpecOn == [DefaultKoronerConfigSpec EXCEPT !.enabled = TRUE]

SeedSpec == DefaultKoronerConfigSpec

SeedCreate ==
    /\ seeder = "wait" /\ CanCreate
    /\ Put(DefaultConfig, SeedSpec)
    /\ Seeded

\* ... or meets AlreadyExists.
SeedExists ==
    /\ seeder = "wait" /\ home # None
    /\ Cached[DefaultConfig] = None /\ Latest[DefaultConfig] # None
    /\ Seeded /\ UNCHANGED log

\* The process ends, and with it the reconcile in progress.
Exit == seeder' = "down" /\ Done

\* Mutant of SeedError: the error is only logged.
SeedErrorSwallowed ==
    /\ seeder = "wait" /\ home # None
    /\ Spend("fault")
    /\ UNCHANGED log
    /\ seeder' = "done" /\ UNCHANGED op
    /\ UNCHANGED <<home, seen>>

\* Another error of the Get or the Create, whose effect may be there all the same,
\* ends the manager.
SeedError ==
    /\ seeder = "wait" /\ home # None
    /\ Spend("fault")
    /\ \/ UNCHANGED log
       \/ CanCreate /\ Put(DefaultConfig, SeedSpec)
    /\ Exit
    /\ UNCHANGED <<home, seen>>

\* The process is killed for another reason.
Crash ==
    /\ seeder # "down"
    /\ Spend("restart")
    /\ Exit
    /\ UNCHANGED <<home, log, seen>>

\* Mutant of Restart: the cache is not waited for.
RestartCold ==
    /\ seeder = "down"
    /\ seeder' = "wait"
    /\ seen' = 0
    /\ UNCHANGED <<home, log, op, left>>

\* The operator starts again and fills its cache before it does anything else.
Restart ==
    /\ seeder = "down"
    /\ seeder' = "wait"
    /\ seen' = Len(log)
    /\ UNCHANGED <<home, log, op, left>>

-----------------------------------------------------------------------------
Reconcile == Ignore \/ Record \/ Again \/ Attempt \/ Return
Seed == SeedFound \/ SeedCreate \/ SeedExists

Next ==
    \/ \E kind \in Kinds, ns \in Namespaces : Begin(kind, ns)
    \/ Reconcile
    \/ \E k \in Configs : Edit(k)
    \/ Sync
    \/ Seed \/ SeedError \/ Crash \/ Restart

(***************************************************************************)
(* Fairness: the seeder and a reconcile in progress go on (their calls     *)
(* have deadlines), watches deliver, and the Deployment restarts a process *)
(* that has ended.  Nothing is assumed of users, faults and crashes.       *)
(***************************************************************************)
Fairness == WF_vars(Reconcile) /\ WF_vars(Seed) /\ WF_vars(Sync) /\ WF_vars(Restart)

FairSpec == Init /\ [][Next]_vars /\ Fairness

-----------------------------------------------------------------------------
(* Properties.                                                             *)

\* What users have written, without any default filled in: heals are on, and real.
OptsIn(spec) == spec.enabled /\ spec.dryRun = FALSE

\* The cluster is touched in a namespace only if somebody has said so in a config
\* that may govern it: no default, seeded config, failed read or stale cache turns
\* self-heal on.
HealsOptedIn ==
    op.step = "Applied" =>
        LET cfgs == log[op.policy.at]
        IN  \E k \in Own(cfgs, op.ns) \cup (Own(cfgs, home) \cap {DefaultConfig}) : OptsIn(cfgs[k])

\* What a spec, as its user wrote it, allows to be done.
Permits(spec, kind, deed) ==
    /\ deed = "Recorded" =>
        FALSE # (IF kind = "Pod" THEN spec.podCrashes ELSE spec.jobFailures)
    /\ deed # "Recorded" => spec.enabled
    /\ deed = "Applied" => OptsIn(spec)
    /\ deed = "DryRun" => spec.dryRun # FALSE

\* A KoronerConfig in the subject's own namespace wins (koroner.go): what is done
\* in a namespace that has configs, one of them permits, whatever the default in
\* the operator's namespace says.  The exception is a reconcile whose List failed,
\* which goes on as if there were none.
OwnConfigWins ==
    op.step \in Deeds /\ ~op.policy.failed =>
        LET cfgs == log[op.policy.at]
            own == Own(cfgs, op.ns)
        IN  own # {} => \E k \in own : Permits(cfgs[k], op.kind, op.step)

\* The policies a namespace may run under while reads succeed.
Effective(cfgs, ns) == {SpecOf(cfgs, s) : s \in Sources(cfgs, ns, TRUE, TRUE)}

\* Seeding is invisible: it overwrites no config, although its Get reads a cache,
\* and leaves every namespace with the policy it had, whatever reconciles run
\* before, during and after it.  The exception is the operator's own namespace
\* where it has other configs, among which the seeded one may now come first.
SeedKeepsPolicy ==
    [][seeder = "wait" /\ seeder' # seeder =>
        /\ \A k \in Configs : Latest[k] # None => Latest'[k] = Latest[k]
        /\ \A ns \in Namespaces : ns # home \/ Own(Latest, home) = {} =>
            Effective(Latest', ns) = Effective(Latest, ns)]_vars

\* A default config comes to exist in the operator's namespace, through failed
\* calls, a user who creates it first, and restarts.
DefaultSeeded ==
    <>(home = None \/ \E v \in DOMAIN log : log[v][DefaultConfig] # None)

\* Once users are done, every reconcile eventually runs under what they have
\* written: a policy read before the narrator's or the LLM's call, or from a cache
\* that lags, is used up in finite time.
EditsTakeEffect == <>[](op # Idle => op.policy.at = Len(log))
=============================================================================
