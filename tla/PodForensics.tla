---------------------------- MODULE PodForensics ----------------------------
(***************************************************************************)
(* How the deaths that Reconciler starts from come about: the life of one  *)
(* pod's containers as the kubelet reports it, detectPodDeath on that      *)
(* status, and Diagnose on the evidence.  Reconciles look at the pod at    *)
(* any moment between two changes.  Of what they find, the history keeps   *)
(* the latest sighting and the latest crash of one subject, chosen at the  *)
(* start, which is all that properties of successive sightings need.       *)
(***************************************************************************)
EXTENDS Naturals, FiniteSetsExt

CONSTANTS
    NumContainers,      \* containers of the pod, in the order of its status
    Threshold,          \* restartThreshold
    WatchEvictions,     \* watch.evictions
    Exits,              \* the ways containers of this pod end
    MaxRestarts,        \* bound: restarts of one container
    MaxUnhealthy,       \* bound: failed liveness probes
    None

\* A container ends with code 0, another code, 137 or signal 9, or reason
\* OOMKilled.
AllExits == {"ok", "error", "kill", "oom"}

\* One end of a container: its ends are numbered.
Terminations == [id : Nat \ {0}, how : AllExits]

ASSUME ForensicsAssumption ==
    /\ {NumContainers, Threshold, MaxRestarts, MaxUnhealthy} \subseteq Nat
    /\ WatchEvictions \in BOOLEAN
    /\ Exits \subseteq AllExits
    /\ None \notin Terminations

Containers == 1 .. NumContainers

VARIABLES
    status,     \* container -> its ContainerStatus
    evicted,    \* the pod's status reason is Evicted
    unhealthy,  \* liveness probes that have failed so far
    events,     \* the event timeline holds a failed liveness probe
    focus,      \* history: the container (0: the pod) that is followed
    shown,      \* history: its latest sighting, or None
    crash       \* history: its latest crash that was sighted, or None

history == <<focus, shown, crash>>
vars == <<status, evicted, unhealthy, events, history>>

States == {"Creating", "Running", "Terminated", "CrashLoopBackOff", "ImagePullBackOff"}

ContainerStatuses == [state    : States,
                      now      : Terminations \cup {None},
                      last     : Terminations \cup {None},
                      restarts : Nat]

Causes == {"OutOfMemory", "RepeatedCrash", "ProbeFailure", "NodePressure",
           "ImagePullFailure", "ApplicationError", "Unknown"}

\* What detectPodDeath and Diagnose find of a container; 0 stands for the pod
\* itself, which is what an eviction is about.
Subjects == Containers \cup {0}

Sightings == [restarts : Nat, end : Terminations \cup {None}, cause : Causes]

\* A crash that has been sighted: the restart count it was first seen with, the
\* end it rests on and the causes it has been filed under.
Crashes == [restarts : Nat, end : Terminations, causes : SUBSET Causes]

TypeOK ==
    /\ status \in [Containers -> ContainerStatuses]
    /\ unhealthy \in Nat
    /\ evicted \in BOOLEAN /\ events \in BOOLEAN
    /\ focus \in Subjects
    /\ shown \in Sightings \cup {None}
    /\ crash \in Crashes \cup {None}

Init ==
    /\ status = [c \in Containers |-> [state |-> "Creating", now |-> None,
                                       last  |-> None, restarts |-> 0]]
    /\ unhealthy = 0
    /\ evicted = FALSE /\ events = FALSE
    /\ focus \in Subjects
    /\ shown = None /\ crash = None

-----------------------------------------------------------------------------
(* The kubelet.                                                            *)

Set(c, s) == status' = [status EXCEPT ![c] = s]

\* The container's latest end, which becomes lastState once another state shows.
LatestEnd(s) == IF s.now # None THEN s.now ELSE s.last

\* A container starts.  restartCount goes up unless it is its first start.
Started(c) ==
    LET s == status[c]
        again == IF LatestEnd(s) = None THEN 0 ELSE 1
    IN  /\ ~evicted /\ s.state # "Running"
        /\ s.restarts + again <= MaxRestarts
        /\ Set(c, [state |-> "Running", now |-> None, last |-> LatestEnd(s),
                   restarts |-> s.restarts + again])
        /\ UNCHANGED <<evicted, unhealthy, events, history>>

Ended(s, how) ==
    [s EXCEPT !.state = "Terminated",
              !.now = [id |-> IF s.last = None THEN 1 ELSE s.last.id + 1, how |-> how]]

\* It ends by itself.
Exit(c) ==
    /\ ~evicted /\ status[c].state = "Running"
    /\ \E how \in Exits : Set(c, Ended(status[c], how))
    /\ UNCHANGED <<evicted, unhealthy, events, history>>

\* Its liveness probe fails: an Unhealthy event, and after some of them the end.
Unhealthy(c) ==
    /\ ~evicted /\ status[c].state = "Running"
    /\ unhealthy < MaxUnhealthy
    /\ unhealthy' = unhealthy + 1
    /\ events' = TRUE
    /\ \/ UNCHANGED status
       \/ \E how \in Exits \cap {"error", "kill"} : Set(c, Ended(status[c], how))
    /\ UNCHANGED <<evicted, history>>

PutOff(s, state) == [s EXCEPT !.state = state, !.now = None, !.last = LatestEnd(s)]

\* The next start is put off, whatever the exit code, ...
BackOff(c) ==
    /\ ~evicted /\ status[c].state = "Terminated"
    /\ Set(c, PutOff(status[c], "CrashLoopBackOff"))
    /\ UNCHANGED <<evicted, unhealthy, events, history>>

\* ... or its image cannot be pulled.
PullFails(c) ==
    /\ ~evicted /\ status[c].state \in {"Creating", "Terminated", "CrashLoopBackOff"}
    /\ Set(c, PutOff(status[c], "ImagePullBackOff"))
    /\ UNCHANGED <<evicted, unhealthy, events, history>>

\* The pod is evicted; nothing of it starts again.
Evict ==
    /\ ~evicted
    /\ evicted' = TRUE
    /\ UNCHANGED <<status, unhealthy, events, history>>

\* Events expire.
Expire ==
    /\ events
    /\ events' = FALSE
    /\ UNCHANGED <<status, evicted, unhealthy, history>>

-----------------------------------------------------------------------------
(* detectPodDeath.                                                         *)

Failed(s) == s.state = "Terminated" /\ s.now.how # "ok"
Waiting(s) == s.state \in {"CrashLoopBackOff", "ImagePullBackOff"}

\* A container shows a death: it ended badly, it waits in a back-off, or it has
\* restarted too often, even if it is running right now.
Dying(s) == Failed(s) \/ Waiting(s) \/ s.restarts >= Threshold

\* Mutant of Termination: always the previous end.
TerminationLast(s) == s.last

\* The end it takes its evidence from.
Termination(s) ==
    CASE Failed(s) -> s.now
      [] s.state = "ImagePullBackOff" -> None
      [] OTHER -> s.last

Death(c, restarts, end, waiting) ==
    [container |-> c, restarts |-> restarts, end |-> end, waiting |-> waiting]

\* Mutant of ContainerDeath: only a current failure carries the restart count.
ContainerDeathUncounted(c) ==
    LET s == status[c]
    IN  Death(c, IF Failed(s) THEN s.restarts ELSE 0, Termination(s),
              IF Waiting(s) THEN s.state ELSE "")

ContainerDeath(c) ==
    LET s == status[c]
    IN  Death(c, s.restarts, Termination(s), IF Waiting(s) THEN s.state ELSE "")

\* An eviction comes first, and then the first container that shows a death.
PodDeaths ==
    LET dying == {c \in Containers : Dying(status[c])}
    IN  IF evicted /\ WatchEvictions THEN {Death(0, 0, None, "Evicted")}
        ELSE IF dying = {} THEN {} ELSE {ContainerDeath(Min(dying))}

-----------------------------------------------------------------------------
(* Diagnose.                                                               *)

Verdict(cause, confidence) == [cause |-> cause, confidence |-> confidence]

EndedBy(d, hows) == d.end # None /\ d.end.how \in hows

\* Mutant of Diagnose: the probe is looked at before the OOM flag.
DiagnoseProbeFirst(d, liveness) ==
    CASE liveness -> Verdict("ProbeFailure", "High")
      [] ~liveness /\ EndedBy(d, {"oom"}) -> Verdict("OutOfMemory", "High")
      [] OTHER -> Verdict("Unknown", "Low")

\* Mutant of Diagnose: no verdict where there is no evidence.
DiagnoseUndecided(d, liveness) ==
    IF EndedBy(d, {"oom"}) THEN Verdict("OutOfMemory", "High")
    ELSE IF liveness THEN Verdict("ProbeFailure", "High")
    ELSE IF d.waiting = "CrashLoopBackOff" THEN Verdict("RepeatedCrash", "High")
    ELSE Verdict("", "Low")

\* The first case that applies, from the most specific signal down.
Diagnose(d, liveness) ==
    IF EndedBy(d, {"oom"}) THEN Verdict("OutOfMemory", "High")
    ELSE IF liveness THEN Verdict("ProbeFailure", "High")
    ELSE IF d.waiting = "Evicted" THEN Verdict("NodePressure", "High")
    ELSE IF d.waiting = "ImagePullBackOff" THEN Verdict("ImagePullFailure", "High")
    ELSE IF d.waiting = "CrashLoopBackOff" THEN Verdict("RepeatedCrash", "High")
    ELSE IF EndedBy(d, {"kill"}) THEN Verdict("RepeatedCrash", "Medium")
    ELSE IF EndedBy(d, {"error"}) THEN Verdict("ApplicationError", "Medium")
    ELSE Verdict("Unknown", "Low")

\* The sighting of a death, and what it adds to the latest crash of its subject.
Sighting(d, v) == [restarts |-> d.restarts, end |-> d.end, cause |-> v.cause]

CrashAfter(old, s) ==
    IF s.end = None THEN old
    ELSE IF old # None /\ old.end = s.end THEN [old EXCEPT !.causes = @ \cup {s.cause}]
    ELSE [restarts |-> s.restarts, end |-> s.end, causes |-> {s.cause}]

\* A reconcile finds a death and records it.  Events that cannot be listed are
\* taken to be none.
Observe ==
    /\ \E d \in PodDeaths, liveness \in {events, FALSE} :
        LET s == Sighting(d, Diagnose(d, liveness))
        IN  /\ d.container = focus
            /\ shown' = s
            /\ crash' = CrashAfter(crash, s)
    /\ UNCHANGED <<status, evicted, unhealthy, events, focus>>

Next ==
    \/ \E c \in Containers : Started(c) \/ Exit(c) \/ Unhealthy(c) \/ BackOff(c) \/ PullFails(c)
    \/ Evict \/ Expire \/ Observe

Spec == Init /\ [][Next]_vars

-----------------------------------------------------------------------------
(* Properties.                                                             *)

\* A container's episodes never come back after a later one has been reported, so
\* that remembering the last counted one (status.lastEpisode) is enough to count
\* the crashes of one pod.
EpisodesAscend ==
    [][shown # None => shown'.restarts >= shown.restarts]_vars

\* Below the threshold, episodes ("<podUID>/<restartCount>") and crashes
\* correspond: a crash is reported under one restart count however long it shows
\* and however its evidence moves, and the next crash under a later one.
EpisodePerCrash ==
    [][/\ crash # None /\ shown' # shown /\ shown'.end # None
       /\ {crash.restarts, shown'.restarts} \subseteq 0 .. (Threshold - 1)
       => (shown'.end = crash.end <=> shown'.restarts = crash.restarts)]_vars

\* A verdict is OutOfMemory, which is what memory is raised for, exactly when the
\* end it rests on was an OOM kill: no probe event and no crash back-off hides it.
\* (An eviction or a failed image pull is reported without the container's end,
\* so an OOM kill before it does not show; of those this says nothing.)
OomVerdicts ==
    shown # None => (shown.cause = "OutOfMemory" <=> shown.end # None /\ shown.end.how = "oom")

\* The README: "Each death episode is deduplicated to exactly one Obituary via a
\* deterministic name" (also spec.deathEpisodeKey, obituaryName).  The name is made
\* from the workload, the container and the cause, so a crash has one only if it
\* is filed under one cause.
OneObituary ==
    crash # None => Cardinality(crash.causes) = 1
=============================================================================
