----------------------------- MODULE Reconciler -----------------------------
(***************************************************************************)
(* The pod and job reconcilers and the self-heal engine they call, against *)
(* an API server with optimistic concurrency and through the informer      *)
(* cache of a controller-runtime client.                                   *)
(*                                                                         *)
(* A worker is one operator process: one cache, one rate limiter, one      *)
(* queue of pods and one of Jobs, each drained by one goroutine            *)
(* (MaxConcurrentReconciles is 1).  The two goroutines never write the     *)
(* same obituary, because the cause JobFailed is part of its name, and a   *)
(* Job's reconcile never reaches the limiter, so their steps commute: one  *)
(* reconcile at a time per worker stands for both.  Several workers are    *)
(* several operators: leader election is a flag, and a deposed leader may  *)
(* still be finishing a reconcile.                                         *)
(*                                                                         *)
(* A Job is a pod that dies once: `Pods' has both, by UID.                 *)
(*                                                                         *)
(* Obituaries live in `log': log[i] lists every version of issue i's       *)
(* obituary the server has held, its resourceVersion being its position.   *)
(* A cache is a position in that list.  All of a worker's Gets read its    *)
(* cache, which nobody else reads, so a watch event that arrives between a *)
(* Get and the write that follows it might as well arrive after the write: *)
(* a Get and the call that uses its result are one step here, and the      *)
(* staleness of the cache accounts for every interleaving in between.      *)
(***************************************************************************)
EXTENDS ObituaryStatus, FiniteSets

CONSTANTS
    Workers,
    Jobs,               \* the Jobs among Pods
    JobIssues,          \* the issues whose cause is JobFailed
    Enabled,            \* selfHeal.enabled
    MinOccurrences,     \* selfHeal.minOccurrences
    RequireHigh,        \* selfHeal.requireHighConfidence
    DryRun,             \* selfHeal.dryRun
    MaxHeals,           \* selfHeal.maxHealsPerHour
    Decisions,          \* what the decider may answer for an obituary
    RetrySteps,         \* retry.DefaultRetry.Steps (5)
    MaxDeaths,          \* bound: crashes of one pod
    MaxVersions,        \* bound: no re-sent events beyond this resourceVersion
    MaxRevisions,       \* bound: deaths diagnosed anew
    MaxForgets,         \* bound: obituaries deleted by users
    MaxFaults,          \* bound: failed API calls
    MaxRestarts         \* bound: operator restarts

ASSUME ConfigAssumption ==
    /\ {Enabled, RequireHigh, DryRun} \subseteq BOOLEAN
    /\ {MinOccurrences, MaxHeals} \subseteq Nat
    /\ Decisions \subseteq {"Act", "Skip"}
    /\ RetrySteps \in Nat \ {0}
    /\ Workers # {}
    /\ Jobs \subseteq Pods
    /\ JobIssues \subseteq Issues

ASSUME BoundsAssumption ==
    {MaxDeaths, MaxVersions, MaxRevisions, MaxForgets, MaxFaults, MaxRestarts}
        \subseteq Nat

ASSUME NoDeathAssumption == None \notin Deaths

VARIABLES
    death,      \* pod -> the death detectPodDeath finds in its status, or None
    crashes,    \* pod -> how often it has crashed
    queue,      \* worker -> pods waiting to be reconciled
    log,        \* issue -> versions of its obituary
    seen,       \* worker -> issue -> version its cache holds
    op,         \* worker -> where its reconcile is
    spent,      \* worker -> heals its limiter counts in the current window
    left,       \* what remains of the bounded environment events
    lost,       \* history: deaths whose Create met AlreadyExists
    heals       \* history: mutations made, in order

vars == <<death, crashes, queue, log, seen, op, spent, left, lost, heals>>

Budgets == {"revise", "forget", "fault", "restart"}
Steps == {"idle", "upsert", "init", "bump", "heal", "exec", "note"}

\* A worker between two reconciles.  `base' is the version of the obituary the
\* step in hand is based on, where it is not simply the cached one.
Idle == [step |-> "idle", job |-> None, tries |-> 0, base |-> 0, outcome |-> None]

Ops == [step    : Steps,
        job     : Deaths \cup {None},
        tries   : Nat,
        base    : Nat,
        outcome : Outcomes \cup {None}]

Heals == [job : Deaths, on : Statuses]

\* A cache holds a version the server has held.
CachesBehind == \A w \in Workers : \A i \in Issues : seen[w][i] <= Len(log[i])

\* What each step finds in its worker's record.
OpSound(w) ==
    /\ IF op[w].step = "idle" THEN op[w].job = None ELSE op[w].job \in Deaths
    /\ op[w].step \in {"init", "exec"} => op[w].base \in 1 .. Len(log[op[w].job.issue])
    /\ op[w].step = "note" => op[w].outcome \in Outcomes

TypeOK ==
    /\ death \in [Pods -> Deaths \cup {None}]
    /\ crashes \in [Pods -> Nat]
    /\ queue \in [Workers -> SUBSET Pods]
    /\ log \in [Issues -> Seq(Statuses) \ {<< >>}]
    /\ seen \in [Workers -> [Issues -> Nat \ {0}]]
    /\ op \in [Workers -> Ops]
    /\ spent \in [Workers -> Nat]
    /\ left \in [Budgets -> Nat]
    /\ lost \in SUBSET Deaths
    /\ heals \in Seq(Heals)
    /\ CachesBehind
    /\ \A w \in Workers : OpSound(w)

Init ==
    /\ death = [p \in Pods |-> None]
    /\ crashes = [p \in Pods |-> 0]
    /\ queue = [w \in Workers |-> {}]
    /\ log = [i \in Issues |-> <<Unset("Absent")>>]
    /\ seen = [w \in Workers |-> [i \in Issues |-> 1]]
    /\ op = [w \in Workers |-> Idle]
    /\ spent = [w \in Workers |-> 0]
    /\ left = [b \in Budgets |->
                 CASE b = "revise"  -> MaxRevisions
                   [] b = "forget"  -> MaxForgets
                   [] b = "fault"   -> MaxFaults
                   [] b = "restart" -> MaxRestarts]
    /\ lost = {}
    /\ heals = << >>

-----------------------------------------------------------------------------
(* Reading and writing obituaries.                                         *)

Latest(i) == log[i][Len(log[i])]
Cached(w, i) == log[i][seen[w][i]]
UpToDate(w, i) == seen[w][i] = Len(log[i])
Write(i, s) == log' = [log EXCEPT ![i] = Append(@, s)]

Spend(b) == left[b] > 0 /\ left' = [left EXCEPT ![b] = @ - 1]

\* The worker's reconcile moves on to another step, or ends.
Move(w, step, tries, base, outcome) ==
    op' = [op EXCEPT ![w] = [step |-> step, job |-> op[w].job, tries |-> tries,
                             base |-> base, outcome |-> outcome]]
Goto(w, step) == Move(w, step, 0, 0, None)
Done(w) == op' = [op EXCEPT ![w] = Idle]

\* Mutant of Requeue: the error is swallowed.
RequeueSwallowed(w) == Done(w) /\ UNCHANGED queue

\* It ends with an error, which puts its pod back on the queue.
Requeue(w) ==
    /\ Done(w)
    /\ queue' = [queue EXCEPT ![w] = @ \cup {op[w].job.pod}]

\* Mutant of Counted: any recorded episode passes for this one.
CountedOnce(s, d) == s.lastEpisode # None

\* An obituary status that already counts death d.
Counted(s, d) == s.lastEpisode = Episode(d)

-----------------------------------------------------------------------------
(* The environment: pods, users, the watch.                                *)

\* A change of the pod is announced to every operator.
Notify(p) == queue' = [w \in Workers |-> queue[w] \cup {p}]

\* Something dies, and is diagnosed as one of these issues with one of these grades.
Dies(p, issues, grades) ==
    /\ crashes' = [crashes EXCEPT ![p] = @ + 1]
    /\ \E i \in issues, g \in grades :
        death' = [death EXCEPT ![p] = [pod   |-> p, restarts |-> crashes[p],
                                       issue |-> i, grade    |-> g]]
    /\ Notify(p)
    /\ UNCHANGED <<log, seen, op, spent, left, lost, heals>>

\* A container of p crashes; the diagnosis may be anything but JobFailed.
Die(p) ==
    /\ p \notin Jobs /\ crashes[p] < MaxDeaths
    /\ Dies(p, Issues \ JobIssues, Grades)

\* Job j gets its Failed condition, once and for good; the verdict is certain.
JobFails(j) ==
    /\ j \in Jobs /\ crashes[j] = 0
    /\ Dies(j, JobIssues, Grades \cap {"High"})

\* The same crash reads differently: a failed container is first Terminated
\* (ApplicationError) and then waiting in CrashLoopBackOff (RepeatedCrash), and
\* events of a failed liveness probe may arrive late.
Revise(p) ==
    /\ p \notin Jobs /\ death[p] # None
    /\ Spend("revise")
    /\ \E i \in Issues \ JobIssues, g \in Grades :
        death' = [death EXCEPT ![p].issue = i, ![p].grade = g]
    /\ Notify(p)
    /\ UNCHANGED <<crashes, log, seen, op, spent, lost, heals>>

\* The pod or Job is deleted, or the pod runs again below the restart threshold.
Clear(p) ==
    /\ death[p] # None
    /\ death' = [death EXCEPT ![p] = None]
    /\ Notify(p)
    /\ UNCHANGED <<crashes, log, seen, op, spent, left, lost, heals>>

\* A pod update that changes nothing about the death, or the periodic resync.
Event(w, p) ==
    /\ \A i \in Issues : Len(log[i]) < MaxVersions
    /\ queue' = [queue EXCEPT ![w] = @ \cup {p}]
    /\ UNCHANGED <<death, crashes, log, seen, op, spent, left, lost, heals>>

\* The watch brings the next version of an obituary to a worker's cache.
Sync(w, i) ==
    /\ ~UpToDate(w, i)
    /\ seen' = [seen EXCEPT ![w][i] = @ + 1]
    /\ UNCHANGED <<death, crashes, queue, log, op, spent, left, lost, heals>>

\* A user deletes an obituary.
Forget(i) ==
    /\ Latest(i).phase # "Absent"
    /\ Spend("forget")
    /\ Write(i, Unset("Absent"))
    /\ UNCHANGED <<death, crashes, queue, seen, op, spent, lost, heals>>

-----------------------------------------------------------------------------
(* Reconcile, up to the gate in front of the expensive evidence.           *)

\* The pod shows a death that its cached obituary has not counted.
NewDeath(w, p) ==
    death[p] # None /\ ~Counted(Cached(w, death[p].issue), death[p])

\* Nothing new: return nil.
Dismiss(w, p) ==
    /\ op[w].step = "idle" /\ p \in queue[w]
    /\ ~NewDeath(w, p)
    /\ queue' = [queue EXCEPT ![w] = @ \ {p}]
    /\ UNCHANGED <<death, crashes, log, seen, op, spent, left, lost, heals>>

\* A death to record: collect the evidence.
Examine(w, p) ==
    /\ op[w].step = "idle" /\ p \in queue[w]
    /\ NewDeath(w, p)
    /\ queue' = [queue EXCEPT ![w] = @ \ {p}]
    /\ op' = [op EXCEPT ![w] = [Idle EXCEPT !.step = "upsert", !.job = death[p]]]
    /\ UNCHANGED <<death, crashes, log, seen, spent, left, lost, heals>>

-----------------------------------------------------------------------------
(* upsertObituary.                                                         *)

\* The cache has no obituary, and neither has the server.
Create(w) ==
    LET i == op[w].job.issue
    IN  /\ op[w].step = "upsert"
        /\ Cached(w, i).phase = "Absent" /\ Latest(i).phase = "Absent"
        /\ Write(i, Unset("Created"))
        /\ Move(w, "init", 0, Len(log[i]) + 1, None)
        /\ UNCHANGED <<death, crashes, queue, seen, spent, left, lost, heals>>

\* The cache has none but the server has: AlreadyExists, reported as success.
AlreadyExists(w) ==
    LET i == op[w].job.issue
    IN  /\ op[w].step = "upsert"
        /\ Cached(w, i).phase = "Absent" /\ Latest(i).phase # "Absent"
        /\ Goto(w, "heal")
        /\ lost' = lost \cup {op[w].job}
        /\ UNCHANGED <<death, crashes, queue, log, seen, spent, left, heals>>

\* Mutant of InitStatus: written whatever the object's version.
InitStatusUnchecked(w) ==
    /\ op[w].step = "init"
    /\ Write(op[w].job.issue, FirstStatus(op[w].job))
    /\ Goto(w, "heal")
    /\ UNCHANGED <<death, crashes, queue, seen, spent, left, lost, heals>>

\* The status of the object just created, under the version Create returned.
InitStatus(w) ==
    LET i == op[w].job.issue
    IN  /\ op[w].step = "init"
        /\ op[w].base = Len(log[i])
        /\ Write(i, FirstStatus(op[w].job))
        /\ Goto(w, "heal")
        /\ UNCHANGED <<death, crashes, queue, seen, spent, left, lost, heals>>

\* Somebody has changed or deleted it meanwhile.
InitConflict(w) ==
    /\ op[w].step = "init"
    /\ op[w].base # Len(log[op[w].job.issue])
    /\ Requeue(w)
    /\ UNCHANGED <<death, crashes, log, seen, spent, left, lost, heals>>

\* An obituary is cached: nothing to do if it has counted this death, else bump.
Lookup(w) ==
    LET s == Cached(w, op[w].job.issue)
    IN  /\ op[w].step = "upsert"
        /\ s.phase # "Absent"
        /\ Goto(w, IF Counted(s, op[w].job) THEN "heal" ELSE "bump")
        /\ UNCHANGED <<death, crashes, queue, log, seen, spent, left, lost, heals>>

\* One attempt of the bump that the server accepts ...
Bump(w) ==
    LET i == op[w].job.issue
    IN  /\ op[w].step = "bump"
        /\ Cached(w, i).phase # "Absent" /\ ~Counted(Cached(w, i), op[w].job)
        /\ UpToDate(w, i)
        /\ Write(i, Bumped(Cached(w, i), op[w].job))
        /\ Goto(w, "heal")
        /\ UNCHANGED <<death, crashes, queue, seen, spent, left, lost, heals>>

\* ... that finds the death counted by a concurrent reconcile ...
BumpCounted(w) ==
    /\ op[w].step = "bump"
    /\ Counted(Cached(w, op[w].job.issue), op[w].job)
    /\ Goto(w, "heal")
    /\ UNCHANGED <<death, crashes, queue, log, seen, spent, left, lost, heals>>

\* ... or that conflicts with a newer version; the last one is an error.
BumpConflict(w) ==
    LET i == op[w].job.issue
    IN  /\ op[w].step = "bump"
        /\ Cached(w, i).phase # "Absent" /\ ~Counted(Cached(w, i), op[w].job)
        /\ ~UpToDate(w, i) /\ Latest(i).phase # "Absent"
        /\ \/ /\ op[w].tries + 1 < RetrySteps
              /\ Move(w, "bump", op[w].tries + 1, 0, None)
              /\ UNCHANGED queue
           \/ /\ op[w].tries + 1 >= RetrySteps
              /\ Requeue(w)
        /\ UNCHANGED <<death, crashes, log, seen, spent, left, lost, heals>>

\* The obituary is gone, from the cache or from the server: NotFound is an
\* error that is not retried here.
BumpNotFound(w) ==
    LET i == op[w].job.issue
    IN  /\ op[w].step = "bump"
        /\ ~Counted(Cached(w, i), op[w].job)
        /\ "Absent" \in {Cached(w, i).phase, Latest(i).phase}
        /\ Requeue(w)
        /\ UNCHANGED <<death, crashes, log, seen, spent, left, lost, heals>>

-----------------------------------------------------------------------------
(* tryHeal and MaybeHeal.                                                  *)

\* Mutant of Gates: off by one.
GatesEarly(s) ==
    /\ Enabled
    /\ s.phase = "Complete"
    /\ s.occurrences + 1 >= MinOccurrences
    /\ RequireHigh => s.confidence = "High"

\* The silent gates, on the obituary the cache returns.
Gates(s) ==
    /\ Enabled
    /\ s.phase = "Complete"
    /\ s.occurrences >= MinOccurrences
    /\ RequireHigh => s.confidence = "High"

GateClosed(w) ==
    /\ op[w].step = "heal"
    /\ ~Gates(Cached(w, op[w].job.issue))
    /\ Done(w)
    /\ UNCHANGED <<death, crashes, queue, log, seen, spent, left, lost, heals>>

\* Mutant of Skip: a record without its outcome.
SkipUnlabelled(w) ==
    /\ op[w].step = "heal"
    /\ Gates(Cached(w, op[w].job.issue))
    /\ Goto(w, "note")
    /\ UNCHANGED <<death, crashes, queue, log, seen, spent, left, lost, heals>>

\* The subject of a JobFailed obituary is a Job or CronJob, for which there is no
\* action at all.
Actionable(d) == "Act" \in Decisions /\ d.issue \notin JobIssues

\* No action to take, or the limiter refuses the one chosen.
Skip(w) ==
    /\ op[w].step = "heal"
    /\ Gates(Cached(w, op[w].job.issue))
    /\ \/ "Skip" \in Decisions
       \/ op[w].job.issue \in JobIssues
       \/ Actionable(op[w].job) /\ spent[w] >= MaxHeals
    /\ Move(w, "note", 0, 0, "Skipped")
    /\ UNCHANGED <<death, crashes, queue, log, seen, spent, left, lost, heals>>

\* An action is chosen and the limiter grants it.  A dry run stops there.
Act(w) ==
    LET i == op[w].job.issue
    IN  /\ op[w].step = "heal"
        /\ Gates(Cached(w, i))
        /\ Actionable(op[w].job)
        /\ spent[w] < MaxHeals
        /\ spent' = [spent EXCEPT ![w] = @ + 1]
        /\ IF DryRun THEN Move(w, "note", 0, 0, "DryRun")
                     ELSE Move(w, "exec", 0, seen[w][i], None)
        /\ UNCHANGED <<death, crashes, queue, log, seen, left, lost, heals>>

Mutate(w) ==
    heals' = Append(heals, [job |-> op[w].job,
                            on  |-> log[op[w].job.issue][op[w].base]])

\* The executor: applied, refused by its own checks, or applied by a call whose
\* reply is lost, which counts as a failure.
Exec(w) ==
    /\ op[w].step = "exec"
    /\ \E o \in {"Applied", "Failed"} :
        /\ Move(w, "note", 0, 0, o)
        /\ \/ o = "Applied" /\ Mutate(w) /\ UNCHANGED left
           \/ o = "Failed" /\ UNCHANGED <<heals, left>>
           \/ o = "Failed" /\ Spend("fault") /\ Mutate(w)
    /\ UNCHANGED <<death, crashes, queue, log, seen, spent, lost>>

\* One attempt of appendRecord that the server accepts ...
AppendRecord(w) ==
    LET i == op[w].job.issue
    IN  /\ op[w].step = "note"
        /\ Cached(w, i).phase # "Absent" /\ UpToDate(w, i)
        /\ Write(i, Noted(Cached(w, i), op[w].outcome))
        /\ Done(w)
        /\ UNCHANGED <<death, crashes, queue, seen, spent, left, lost, heals>>

\* ... or that conflicts.
AppendConflict(w) ==
    LET i == op[w].job.issue
    IN  /\ op[w].step = "note"
        /\ Cached(w, i).phase # "Absent" /\ Latest(i).phase # "Absent"
        /\ ~UpToDate(w, i)
        /\ op[w].tries + 1 < RetrySteps
        /\ Move(w, "note", op[w].tries + 1, 0, op[w].outcome)
        /\ UNCHANGED <<death, crashes, queue, log, seen, spent, left, lost, heals>>

\* Retries used up, or the obituary gone: the error is logged, the record lost.
AppendDropped(w) ==
    LET i == op[w].job.issue
    IN  /\ op[w].step = "note"
        /\ \/ "Absent" \in {Cached(w, i).phase, Latest(i).phase}
           \/ ~UpToDate(w, i) /\ op[w].tries + 1 >= RetrySteps
        /\ Done(w)
        /\ UNCHANGED <<death, crashes, queue, log, seen, spent, left, lost, heals>>

\* A granted heal leaves the limiter's window.
RollOff(w) ==
    /\ spent[w] > 0
    /\ spent' = [spent EXCEPT ![w] = @ - 1]
    /\ UNCHANGED <<death, crashes, queue, log, seen, op, left, lost, heals>>

-----------------------------------------------------------------------------
(* Failures.                                                               *)

\* The status the API call of the step in hand would write.
Attempted(w) ==
    LET d == op[w].job
        s == Cached(w, d.issue)
    IN  CASE op[w].step = "upsert" -> Unset("Created")
          [] op[w].step = "init"   -> FirstStatus(d)
          [] op[w].step = "bump"   -> Bumped(s, d)
          [] op[w].step = "note"   -> Noted(s, op[w].outcome)

\* The call reaches the server, and would succeed there.
Calling(w) ==
    LET i == op[w].job.issue
    IN  \/ op[w].step = "upsert" /\ "Absent" = Cached(w, i).phase
                                 /\ "Absent" = Latest(i).phase
        \/ op[w].step = "init" /\ op[w].base = Len(log[i])
        \/ op[w].step = "bump" /\ UpToDate(w, i) /\ Cached(w, i).phase # "Absent"
                               /\ ~Counted(Cached(w, i), op[w].job)
        \/ op[w].step = "note" /\ UpToDate(w, i) /\ Cached(w, i).phase # "Absent"

\* It fails all the same, before or after taking effect.  An upsert that fails
\* is retried through the queue, a heal record is given up.
ApiError(w) ==
    /\ Calling(w)
    /\ Spend("fault")
    /\ IF op[w].step = "note" THEN Done(w) /\ UNCHANGED queue ELSE Requeue(w)
    /\ UNCHANGED log \/ Write(op[w].job.issue, Attempted(w))
    /\ UNCHANGED <<death, crashes, seen, spent, lost, heals>>

\* The operator restarts: its queue is refilled from the initial list of pods,
\* its cache from the initial list of obituaries, its limiter is empty.
Restart(w) ==
    /\ Spend("restart")
    /\ Done(w)
    /\ queue' = [queue EXCEPT ![w] = Pods]
    /\ seen' = [seen EXCEPT ![w] = [i \in Issues |-> Len(log[i])]]
    /\ spent' = [spent EXCEPT ![w] = 0]
    /\ UNCHANGED <<death, crashes, log, lost, heals>>

-----------------------------------------------------------------------------
UpsertObituary(w) ==
    \/ Create(w) \/ AlreadyExists(w) \/ InitStatus(w) \/ InitConflict(w)
    \/ Lookup(w) \/ Bump(w) \/ BumpCounted(w) \/ BumpConflict(w) \/ BumpNotFound(w)

MaybeHeal(w) ==
    \/ GateClosed(w) \/ Skip(w) \/ Act(w) \/ Exec(w)
    \/ AppendRecord(w) \/ AppendConflict(w) \/ AppendDropped(w)

Next ==
    \/ \E p \in Pods : Die(p) \/ JobFails(p) \/ Revise(p) \/ Clear(p)
    \/ \E i \in Issues : Forget(i)
    \/ \E w \in Workers :
        \/ \E p \in Pods : Event(w, p) \/ Dismiss(w, p) \/ Examine(w, p)
        \/ \E i \in Issues : Sync(w, i)
        \/ UpsertObituary(w) \/ MaybeHeal(w)
        \/ RollOff(w) \/ ApiError(w) \/ Restart(w)

Spec == Init /\ [][Next]_vars

(***************************************************************************)
(* Fairness.  A reconcile in progress goes on (its calls have deadlines);  *)
(* the work queue is first in, first out, so a queued pod has its turn     *)
(* however often the worker is busy with others; watches deliver; and the  *)
(* shared informer re-sends every pod periodically.  Nothing is assumed of *)
(* pods, users, faults and restarts.                                       *)
(***************************************************************************)
Fairness ==
    \A w \in Workers :
        /\ WF_vars(UpsertObituary(w))
        /\ WF_vars(MaybeHeal(w))
        /\ \A p \in Pods : /\ SF_vars(Dismiss(w, p) \/ Examine(w, p))
                          /\ WF_vars(Event(w, p))
        /\ \A i \in Issues : WF_vars(Sync(w, i))

FairSpec == Spec /\ Fairness

-----------------------------------------------------------------------------
(* Properties.                                                             *)

\* Some version of the issue's obituary has counted this death.
Recorded(d) ==
    \E k \in 1 .. Len(log[d.issue]) : log[d.issue][k].lastEpisode = Episode(d)

\* Some worker has the pod queued or its death in hand.
OnAgenda(p) == \E w \in Workers : p \in queue[w] \/ op[w].job = death[p]

\* A death the cluster still shows is recorded, or some operator is about to
\* look at it: no error path, retry limit, conflict or restart lets it drop.
\* The one exception is a Create that met AlreadyExists, which upsertObituary
\* reports as success.
NoOrphanDeath ==
    \A p \in Pods :
        death[p] # None => Recorded(death[p]) \/ death[p] \in lost \/ OnAgenda(p)

\* The versions of issue i's present obituary, and the crashes it has counted.
Present(i) == {k \in 1 .. Len(log[i]) :
                 \A j \in k .. Len(log[i]) : log[i][j].phase # "Absent"}
Crashes(i) == {log[i][k].lastEpisode : k \in Present(i)} \ {None}

\* Occurrences is the number of distinct death episodes (obituary_types.go),
\* whatever caches, lost replies, retries and restarts do.
CountExact == \A i \in Issues : Latest(i).occurrences = Cardinality(Crashes(i))

\* Obituaries behave as the atomic ledger: what a stale reader writes is
\* refused, so no count, first sighting or heal record is overwritten by it.
Ledger == INSTANCE IssueLedger WITH ledger <- [i \in Issues |-> Latest(i)]
ImplementsLedger == Ledger!LedgerSpec

\* A mutation is made only for an issue that has really been seen often enough,
\* on a verdict of the confidence asked for: the gates are read off a cached
\* obituary, and what it counts are distinct crashes.
HealsEarned ==
    \A k \in DOMAIN heals :
        LET i == heals[k].job.issue
        IN  /\ Enabled /\ ~DryRun
            /\ RequireHigh => heals[k].on.confidence = "High"
            /\ Cardinality({log[i][v].lastEpisode : v \in DOMAIN log[i]} \ {None})
                   >= MinOccurrences

\* Whatever dies is eventually counted: the death that a pod or Job shows when
\* its crashes and new diagnoses (finitely many) are over, unless it recovers or
\* is deleted first.
DeathsGetRecorded ==
    \A p \in Pods : death[p] # None ~> (death[p] = None \/ Recorded(death[p]))

\* The audit trail of an obituary only grows, but for trimming.
TrailKept ==
    \A i \in Issues : \A k \in Present(i) :
        k + 1 \in Present(i) =>
            Len(log[i][k + 1].healAttempts) >= Len(log[i][k].healAttempts)

\* At least one of the two documented halves of a status can be relied on: the
\* count of distinct death episodes, or the log of heal attempts.  This is less
\* than either promise, so a behaviour that violates it breaks both.
CountOrTrailKept == CountExact \/ TrailKept
=============================================================================
