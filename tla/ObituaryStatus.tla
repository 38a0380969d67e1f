--------------------------- MODULE ObituaryStatus ---------------------------
(***************************************************************************)
(* The persisted status of an Obituary (api/v1alpha1, ObituaryStatus) and  *)
(* the three ways the operator rewrites it: the status of a new obituary,  *)
(* the bump of a known issue and the appended heal record.  Evidence that  *)
(* no decision reads (log tail, events, metrics, narrative) is left out.   *)
(*                                                                         *)
(* A time stamp is represented by the death it was taken for: FirstSeen is *)
(* the episode whose reconcile set it.                                     *)
(***************************************************************************)
EXTENDS Naturals, Sequences

CONSTANTS
    Pods,           \* pod instances (one model value per pod UID)
    Issues,         \* issue keys: workload, container and cause
    Grades,         \* the confidences a verdict may have
    None,           \* an unset pointer or an empty string
    MaxAttempts     \* length at which HealAttempts is trimmed (20)

ASSUME MaxAttemptsAssumption == MaxAttempts \in Nat

\* "<podUID>/<restartCount>": which crash of which pod instance.
Episodes == Pods \X Nat

ASSUME NoneAssumption == None \notin Episodes

Outcomes == {"Applied", "DryRun", "Skipped", "Failed"}

Statuses == [phase        : {"Absent", "Created", "Complete"},
             occurrences  : Nat,
             firstSeen    : Episodes \cup {None},
             lastEpisode  : Episodes \cup {None},
             confidence   : Grades \cup {None},
             healAttempts : Seq(Outcomes)]

\* "Absent" stands for an object that does not exist, "Created" for one whose
\* Create succeeded and whose status subresource is still empty.
Unset(phase) == [phase        |-> phase,
                 occurrences  |-> 0,
                 firstSeen    |-> None,
                 lastEpisode  |-> None,
                 confidence   |-> None,
                 healAttempts |-> << >>]

\* A death as a reconcile sees it: the crash, the issue it is filed under and
\* the confidence of the verdict.
Deaths == [pod : Pods, restarts : Nat, issue : Issues, grade : Grades]

Episode(d) == <<d.pod, d.restarts>>

\* The status buildStatus assembles for death d, completed with the count and
\* the first sighting.  It is built from scratch: HealAttempts is empty.
BuildStatus(d, count, first) ==
    [phase        |-> "Complete",
     occurrences  |-> count,
     firstSeen    |-> first,
     lastEpisode  |-> Episode(d),
     confidence   |-> d.grade,
     healAttempts |-> << >>]

\* The status written right after Create.
FirstStatus(d) == BuildStatus(d, 1, Episode(d))

\* Mutants of Bumped: FirstSeen always refreshed; the count not carried over.
BumpedForgetsFirstSeen(s, d) == BuildStatus(d, s.occurrences + 1, Episode(d))
BumpedForgetsCount(s, d) == BuildStatus(d, 1, s.firstSeen)

\* The bump of a known issue.  The status is replaced wholesale, so whatever
\* buildStatus does not set, HealAttempts among it, is cleared.
Bumped(s, d) ==
    BuildStatus(d, s.occurrences + 1,
                IF s.firstSeen = None THEN Episode(d) ELSE s.firstSeen)

\* The last n elements of s (all of them when s is shorter).
LastN(s, n) == IF Len(s) <= n THEN s ELSE SubSeq(s, Len(s) - n + 1, Len(s))

\* Append to the audit trail, trimming its oldest entries.
Noted(s, outcome) ==
    [s EXCEPT !.healAttempts =
        IF MaxAttempts > 0 THEN LastN(Append(@, outcome), MaxAttempts)
                           ELSE Append(@, outcome)]
=============================================================================
