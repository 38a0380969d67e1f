---------------------------- MODULE CountProofs ----------------------------
(***************************************************************************)
(* An obituary's count is the number of distinct crashes it has recorded,  *)
(* and no heal is made before that number has been reached.                *)
(*                                                                         *)
(* The code remembers one episode per obituary, the last.  That is enough  *)
(* as long as the deaths of an issue arrive in order, and they do if one   *)
(* operator is at work and no two pods share an issue: these are the       *)
(* hypotheses (OneOperator, OwnIssues).  Without either the property is    *)
(* false: a second operator may still count an earlier crash, and the run  *)
(* `status' shows what two pods do.  Caches, lost replies, retries,        *)
(* restarts, new diagnoses and deleted obituaries are all allowed.         *)
(***************************************************************************)
EXTENDS LedgerProofs, FiniteSetTheorems

OneOperator == \A v, w \in Workers : v = w

\* owner says which pod (or Job) an issue belongs to.
OwnIssues(owner) == \A p \in Pods : death[p] # None => owner[death[p].issue] = p

-----------------------------------------------------------------------------
(* The invariant.                                                          *)

CountSound ==
    \A i \in Issues :
        IsFiniteSet(Crashes(i)) /\ Latest(i).occurrences = Cardinality(Crashes(i))

\* The episode an obituary remembers is the latest of those it has counted.
LastIsLatest ==
    \A i \in Issues : \A e \in Crashes(i) :
        Latest(i).lastEpisode # None /\ e[2] <= Latest(i).lastEpisode[2]

\* Counted crashes are crashes of the owner that have happened.
CrashesOwned(owner) ==
    \A i \in Issues : \A e \in Crashes(i) :
        e[1] = owner[i] /\ e[2] < crashes[owner[i]]

\* What a pod shows is its latest crash.
DeathsCurrent ==
    \A p \in Pods : death[p] # None => death[p].pod = p /\ death[p].restarts + 1 = crashes[p]

UpsertSteps == {"upsert", "init", "bump"}

\* Nothing later than the death about to be counted has been counted.
JobCurrent(owner, w) ==
    /\ op[w].job.pod = owner[op[w].job.issue]
    /\ op[w].job.restarts < crashes[op[w].job.pod]
    /\ \A e \in Crashes(op[w].job.issue) : e[2] <= op[w].job.restarts

JobsCurrent(owner) ==
    \A w \in Workers : op[w].step \in UpsertSteps => JobCurrent(owner, w)

CountInv(owner) ==
    /\ LedgerInv
    /\ CountSound
    /\ LastIsLatest
    /\ CrashesOwned(owner)
    /\ DeathsCurrent
    /\ JobsCurrent(owner)

\* The crashes all versions of an obituary record, deleted ones included.
Logged(i) == {log[i][v].lastEpisode : v \in DOMAIN log[i]} \ {None}

\* No version counts more than these.
VersionsEarned ==
    \A i \in Issues :
        /\ IsFiniteSet(Logged(i))
        /\ \A v \in DOMAIN log[i] : log[i][v].occurrences <= Cardinality(Logged(i))

\* An executor runs, and a mutation was made, on a version that passed the gates.
ExecGated ==
    \A w \in Workers :
        op[w].step = "exec" => ~DryRun /\ Gates(log[op[w].job.issue][op[w].base])

HealsGated ==
    \A k \in DOMAIN heals :
        /\ ~DryRun /\ Gates(heals[k].on)
        /\ \E v \in DOMAIN log[heals[k].job.issue] : heals[k].on = log[heals[k].job.issue][v]

EarnedInv == VersionsEarned /\ ExecGated /\ HealsGated

-----------------------------------------------------------------------------
(* What a write does to the set of counted crashes.                        *)

LEMMA CrashTypes ==
    ASSUME TypeOK, NEW i \in Issues
    PROVE  /\ Crashes(i) \subseteq Episodes
           /\ Latest(i).phase # "Absent" /\ Latest(i).lastEpisode # None =>
                Latest(i).lastEpisode \in Crashes(i)
           /\ Latest(i).phase = "Absent" => Crashes(i) = {}
<1>1. log[i] \in Seq(Statuses) /\ Len(log[i]) \in Nat \ {0}
  BY Reads DEF TypeOK
<1>2. \A k \in 1 .. Len(log[i]) : log[i][k].lastEpisode \in Episodes \cup {None}
  <2>1. \A k \in 1 .. Len(log[i]) : log[i][k] \in Statuses
    BY <1>1
  <2>2. \A s \in Statuses : s.lastEpisode \in Episodes \cup {None}
    BY DEF Statuses
  <2>3. QED
    BY <2>1, <2>2
<1>3. Latest(i).phase # "Absent" => Len(log[i]) \in Present(i)
  BY <1>1 DEF Present, Latest
<1>4. Latest(i).phase = "Absent" => Present(i) = {}
  BY <1>1 DEF Present, Latest
<1>5. Present(i) \subseteq 1 .. Len(log[i])
  BY DEF Present
<1>6. QED
  BY <1>2, <1>3, <1>4, <1>5 DEF Crashes, Latest

LEMMA CrashesAfterWrite ==
    ASSUME TypeOK, NEW i \in Issues, NEW s \in Statuses, Write(i, s)
    PROVE  /\ Latest(i)' = s
           /\ s.phase # "Absent" => Crashes(i)' = (Crashes(i) \cup {s.lastEpisode}) \ {None}
           /\ s.phase = "Absent" => Crashes(i)' = {}
           /\ \A j \in Issues \ {i} : Crashes(j)' = Crashes(j) /\ Latest(j)' = Latest(j)
<1>1. /\ Len(log'[i]) = Len(log[i]) + 1 /\ Len(log[i]) \in Nat \ {0}
      /\ log'[i][Len(log[i]) + 1] = s
      /\ \A j \in Issues \ {i} : log'[j] = log[j]
      /\ \A k \in 1 .. Len(log[i]) : log'[i][k] = log[i][k]
  BY WriteGrows, Reads DEF LogGrows
<1>2. Latest(i)' = s
  BY <1>1 DEF Latest
<1>3. \A j \in Issues \ {i} : Crashes(j)' = Crashes(j) /\ Latest(j)' = Latest(j)
  BY <1>1 DEF Crashes, Present, Latest
<1>4. CASE s.phase = "Absent"
  <2>1. Present(i)' = {}
    BY <1>1, <1>4 DEF Present
  <2>2. QED
    BY <1>2, <1>3, <1>4, <2>1 DEF Crashes
<1>5. CASE s.phase # "Absent"
  <2>1. Present(i)' = Present(i) \cup {Len(log[i]) + 1}
    <3>1. ASSUME NEW k \in 1 .. Len(log[i])
          PROVE  k \in Present(i)' <=> k \in Present(i)
      <4>1. ASSUME k \in Present(i), NEW j \in k .. Len(log'[i])
            PROVE  log'[i][j].phase # "Absent"
        <5>1. CASE j = Len(log[i]) + 1
          BY <1>1, <1>5, <5>1
        <5>2. CASE j # Len(log[i]) + 1
          <6>1. j \in k .. Len(log[i]) /\ j \in 1 .. Len(log[i])
            BY <1>1, <3>1, <4>1, <5>2
          <6>2. QED
            BY <1>1, <4>1, <6>1 DEF Present
        <5>3. QED
          BY <5>1, <5>2
      <4>2. ASSUME k \in Present(i)', NEW j \in k .. Len(log[i])
            PROVE  log[i][j].phase # "Absent"
        <5>1. j \in k .. Len(log'[i]) /\ j \in 1 .. Len(log[i])
          BY <1>1, <3>1, <4>2
        <5>2. log'[i][j].phase # "Absent"
          BY <4>2, <5>1 DEF Present
        <5>3. QED
          BY <1>1, <5>1, <5>2
      <4>3. k \in 1 .. Len(log'[i])
        BY <1>1, <3>1
      <4>4. QED
        BY <3>1, <4>1, <4>2, <4>3 DEF Present
    <3>2. Len(log[i]) + 1 \in Present(i)'
      BY <1>1, <1>5 DEF Present
    <3>3. Present(i) \subseteq 1 .. Len(log[i]) /\ Present(i)' \subseteq 1 .. Len(log[i]) + 1
      BY <1>1 DEF Present
    <3>4. QED
      BY <1>1, <3>1, <3>2, <3>3
  <2>2. \A k \in Present(i) : log'[i][k] = log[i][k]
    BY <1>1 DEF Present
  <2>3. Crashes(i)' = (Crashes(i) \cup {s.lastEpisode}) \ {None}
    BY <1>1, <2>1, <2>2 DEF Crashes
  <2>4. QED
    BY <1>2, <1>3, <1>5, <2>3
<1>6. QED
  BY <1>4, <1>5

-----------------------------------------------------------------------------
(* Counting.                                                               *)

\* A status that counts one crash more than the obituary it replaces.
LEMMA NewCrashCounts ==
    ASSUME TypeOK, CountSound, NEW i \in Issues, NEW s \in Statuses, Write(i, s),
           NEW e \in Episodes \ Crashes(i), s.lastEpisode = e, s.phase = "Complete",
           s.occurrences = Cardinality(Crashes(i)) + 1,
           \A f \in Crashes(i) : f[2] <= e[2]
    PROVE  /\ Crashes(i)' = Crashes(i) \cup {e}
           /\ IsFiniteSet(Crashes(i)')
           /\ Latest(i)'.occurrences = Cardinality(Crashes(i)')
           /\ \A f \in Crashes(i)' : Latest(i)'.lastEpisode # None /\ f[2] <= Latest(i)'.lastEpisode[2]
<1>1. e # None /\ None \notin Crashes(i) /\ e[2] \in Nat
  BY NoneAssumption, CrashTypes DEF Episodes
<1>2. Crashes(i)' = Crashes(i) \cup {e} /\ Latest(i)' = s
  BY <1>1, CrashesAfterWrite
<1>3. IsFiniteSet(Crashes(i)) /\ e \notin Crashes(i)
  BY DEF CountSound
<1>4. /\ IsFiniteSet(Crashes(i) \cup {e})
      /\ Cardinality(Crashes(i) \cup {e}) = Cardinality(Crashes(i)) + 1
  BY <1>3, FS_AddElement
<1>5. QED
  BY <1>1, <1>2, <1>4

\* A status that counts the same crashes.
LEMMA SameCrashesCount ==
    ASSUME TypeOK, CountSound, LastIsLatest, NEW i \in Issues, NEW s \in Statuses, Write(i, s),
           s.phase # "Absent", Latest(i).phase = "Absent" => s.lastEpisode = None,
           s.lastEpisode = Latest(i).lastEpisode, s.occurrences = Latest(i).occurrences
    PROVE  /\ Crashes(i)' = Crashes(i)
           /\ IsFiniteSet(Crashes(i)')
           /\ Latest(i)'.occurrences = Cardinality(Crashes(i)')
           /\ \A f \in Crashes(i)' : Latest(i)'.lastEpisode # None /\ f[2] <= Latest(i)'.lastEpisode[2]
<1>1. None \notin Crashes(i)
  BY NoneAssumption, CrashTypes
<1>2. Latest(i)' = s /\ Crashes(i)' = (Crashes(i) \cup {s.lastEpisode}) \ {None}
  BY CrashesAfterWrite
<1>3. s.lastEpisode # None => s.lastEpisode \in Crashes(i)
  <2>1. CASE Latest(i).phase # "Absent"
    BY <2>1, CrashTypes
  <2>2. CASE Latest(i).phase = "Absent" /\ s.lastEpisode # None
    BY <2>2
  <2>3. QED
    BY <2>1, <2>2
<1>4. Crashes(i)' = Crashes(i)
  BY <1>1, <1>2, <1>3
<1>5. QED
  BY <1>2, <1>4 DEF CountSound, LastIsLatest

\* What is true of issue i once a step has written to it.
Counts(i) ==
    /\ IsFiniteSet(Crashes(i)')
    /\ Latest(i)'.occurrences = Cardinality(Crashes(i)')
    /\ \A e \in Crashes(i)' :
        Latest(i)'.lastEpisode # None /\ e[2] <= Latest(i)'.lastEpisode[2]

\* A call that the server accepts adds the death in hand to the crashes counted,
\* or none.
LEMMA CallCounts ==
    ASSUME NEW owner, CountInv(owner), NEW w \in Workers, Calling(w),
           NEW i \in Issues, i = op[w].job.issue, Write(i, Attempted(w))
    PROVE  /\ Counts(i)
           /\ \/ Crashes(i)' = Crashes(i)
              \/ /\ op[w].step \in UpsertSteps
                 /\ \E e \in Episodes : /\ e = Episode(op[w].job)
                                        /\ Crashes(i)' = Crashes(i) \cup {e}
<1> USE DEF CountInv
<1>1. PICK d \in Deaths : d = op[w].job
  BY AttemptedType, JobTypes DEF LedgerInv
<1>2. i = d.issue
  BY <1>1
<1>3. PICK s \in Statuses : s = Attempted(w)
  BY AttemptedType DEF LedgerInv
<1>4. /\ TypeOK /\ op[w].step \in {"upsert", "init", "bump", "note"}
      /\ Write(i, s) /\ Latest(i) \in Statuses
  BY <1>1, <1>2, <1>3, Reads DEF LedgerInv, Calling
<1>5. Episode(d) \in Episodes /\ Episode(d) = <<d.pod, d.restarts>> /\ d.restarts \in Nat
  BY EpisodeType DEF Episode, Deaths
<1>6. CASE op[w].step = "upsert"
  <2>1. Latest(i).phase = "Absent" /\ s = Unset("Created")
    BY <1>1, <1>2, <1>3, <1>6 DEF Calling, Attempted
  <2>2. Crashes(i) = {} /\ s.phase = "Created" /\ s.lastEpisode = None /\ s.occurrences = 0
    BY <1>4, <2>1, CrashTypes, UnsetFields
  <2>3. Crashes(i)' = {} /\ Latest(i)' = s
    BY <1>4, <2>2, CrashesAfterWrite
  <2>4. IsFiniteSet({}) /\ Cardinality({}) = 0
    BY FS_EmptySet
  <2>5. QED
    BY <1>1, <1>2, <2>2, <2>3, <2>4 DEF Counts
<1>7. CASE op[w].step = "init"
  <2>1. Latest(i) = Unset("Created") /\ s = FirstStatus(d)
    BY <1>1, <1>2, <1>3, <1>7 DEF LedgerInv, InitBase, Calling, Attempted, Latest
  <2>2. Crashes(i) = {}
    BY <2>1, UnsetFields DEF LastIsLatest
  <2>3. s.lastEpisode = Episode(d) /\ s.occurrences = 1 /\ s.phase = "Complete"
    BY <2>1 DEF FirstStatus, BuildStatus
  <2>4. Cardinality(Crashes(i)) = 0
    BY <2>2, FS_EmptySet
  <2>5. /\ Episode(d) \in Episodes \ Crashes(i)
        /\ s.occurrences = Cardinality(Crashes(i)) + 1
        /\ \A f \in Crashes(i) : f[2] <= Episode(d)[2]
    BY <1>5, <2>2, <2>3, <2>4
  <2>6. QED
    BY <1>1, <1>4, <1>7, <2>3, <2>5, NewCrashCounts DEF Counts, UpsertSteps
<1>8. CASE op[w].step = "bump"
  <2>1. /\ s = Bumped(Latest(i), d)
        /\ Latest(i).phase # "Absent" /\ Latest(i).lastEpisode # Episode(d)
    BY <1>1, <1>2, <1>3, <1>8 DEF Calling, Attempted, Latest, Cached, UpToDate, Counted
  <2>2. /\ s.lastEpisode = Episode(d) /\ s.occurrences = Latest(i).occurrences + 1
        /\ s.phase = "Complete"
    BY <2>1 DEF Bumped, BuildStatus
  <2>3. Latest(i).occurrences = Cardinality(Crashes(i))
    BY DEF CountSound
  <2>4. d.pod = owner[i] /\ \A e \in Crashes(i) : e[2] <= d.restarts
    BY <1>1, <1>2, <1>8 DEF JobsCurrent, JobCurrent, UpsertSteps
  <2>5. Episode(d) \notin Crashes(i)
    <3>1. SUFFICES ASSUME Episode(d) \in Crashes(i) PROVE FALSE
      OBVIOUS
    <3>2. PICK e \in Episodes : e = Latest(i).lastEpisode
      BY <1>4, <3>1 DEF LastIsLatest, Statuses
    <3>3. e \in Crashes(i)
      BY <1>4, <2>1, <3>2, CrashTypes, NoneAssumption
    <3>4. e[1] = d.pod /\ e[2] <= d.restarts /\ d.restarts <= e[2]
      BY <1>5, <2>4, <3>1, <3>2, <3>3 DEF LastIsLatest, CrashesOwned
    <3>5. e[1] = d.pod /\ e[2] = d.restarts
      BY <1>5, <3>2, <3>4 DEF Episodes
    <3>6. e = <<e[1], e[2]>>
      BY <3>2 DEF Episodes
    <3>7. QED
      BY <1>5, <2>1, <3>2, <3>5, <3>6
  <2>6. QED
    BY <1>1, <1>4, <1>5, <1>8, <2>2, <2>3, <2>4, <2>5, NewCrashCounts
    DEF Counts, UpsertSteps
<1>9. CASE op[w].step = "note"
  <2>1. s = Noted(Latest(i), op[w].outcome) /\ Latest(i).phase # "Absent"
    BY <1>1, <1>2, <1>3, <1>9 DEF Calling, Attempted, Latest, Cached, UpToDate
  <2>2. /\ s.phase = Latest(i).phase /\ s.lastEpisode = Latest(i).lastEpisode
        /\ s.occurrences = Latest(i).occurrences
    BY <1>4, <2>1 DEF Noted, Statuses
  <2>3. QED
    BY <1>1, <1>2, <1>4, <2>1, <2>2, SameCrashesCount DEF Counts
<1>10. QED
  BY <1>4, <1>6, <1>7, <1>8, <1>9

\* A deleted obituary has counted nothing.
LEMMA ForgetCounts ==
    ASSUME TypeOK, NEW i \in Issues, Write(i, Unset("Absent"))
    PROVE  Counts(i) /\ Crashes(i)' = {}
<1>1. Crashes(i)' = {} /\ Latest(i)' = Unset("Absent")
  BY UnsetType, UnsetFields, CrashesAfterWrite
<1>2. QED
  BY <1>1, UnsetFields, FS_EmptySet DEF Counts

\* Other issues are untouched.
LEMMA WriteCounts ==
    ASSUME TypeOK, CountSound, LastIsLatest, NEW i \in Issues, NEW s \in Statuses, Write(i, s),
           Counts(i)
    PROVE  CountSound' /\ LastIsLatest'
<1>1. ASSUME NEW j \in Issues PROVE Counts(j)
  <2>1. CASE j = i
    BY <2>1
  <2>2. CASE j # i
    BY <2>2, CrashesAfterWrite DEF Counts, CountSound, LastIsLatest
  <2>3. QED
    BY <2>1, <2>2
<1>2. QED
  BY <1>1 DEF Counts, CountSound, LastIsLatest

-----------------------------------------------------------------------------
(* Every step keeps the invariant.                                         *)

\* Only Examine gives a worker a new death to count.
LEMMA OnlyExamineStarts ==
    ASSUME TypeOK, [Next]_vars, NEW v \in Workers, op'[v].step \in UpsertSteps
    PROVE  \/ op[v].step \in UpsertSteps /\ op'[v].job = op[v].job
           \/ \E p \in Pods : Examine(v, p)
<1> DEFINE Kept == op[v].step \in UpsertSteps /\ op'[v].job = op[v].job
<1>1. ASSUME NEW w \in Workers, Done(w) PROVE Kept
  BY <1>1 DEF Done, Idle, TypeOK, UpsertSteps
<1>2. ASSUME NEW w \in Workers, NEW st, NEW n, NEW b, NEW o, Move(w, st, n, b, o),
             st \in UpsertSteps => op[w].step \in UpsertSteps
      PROVE  Kept
  BY <1>2 DEF Move, TypeOK
<1>3. ASSUME NEW w \in Workers, NEW p \in Pods, Examine(w, p)
      PROVE  Kept \/ Examine(v, p)
  BY <1>3 DEF Examine, TypeOK
<1>4. ASSUME NEW w \in Workers, UpsertObituary(w) PROVE Kept
  <2>1. CASE Create(w)
    BY <1>2, <2>1 DEF Create, UpsertSteps
  <2>2. CASE Lookup(w)
    BY <1>2, <2>2 DEF Lookup, Goto, UpsertSteps
  <2>3. CASE AlreadyExists(w) \/ InitStatus(w) \/ Bump(w) \/ BumpCounted(w)
    BY <1>2, <2>3 DEF AlreadyExists, InitStatus, Bump, BumpCounted, Goto, UpsertSteps
  <2>4. CASE InitConflict(w) \/ BumpNotFound(w)
    BY <1>1, <2>4 DEF InitConflict, BumpNotFound, Requeue
  <2>5. CASE BumpConflict(w)
    BY <1>1, <1>2, <2>5 DEF BumpConflict, Requeue, UpsertSteps
  <2>6. QED
    BY <1>4, <2>1, <2>2, <2>3, <2>4, <2>5 DEF UpsertObituary
<1>5. ASSUME NEW w \in Workers, MaybeHeal(w) PROVE Kept
  <2>1. CASE GateClosed(w) \/ AppendRecord(w) \/ AppendDropped(w)
    BY <1>1, <2>1 DEF GateClosed, AppendRecord, AppendDropped
  <2>2. CASE Skip(w) \/ Act(w) \/ Exec(w) \/ AppendConflict(w)
    BY <1>2, <2>2 DEF Skip, Act, Exec, AppendConflict, UpsertSteps
  <2>3. QED
    BY <1>5, <2>1, <2>2 DEF MaybeHeal
<1>6. ASSUME NEW w \in Workers, ApiError(w) \/ Restart(w) PROVE Kept
  BY <1>1, <1>6 DEF ApiError, Requeue, Restart
<1>7. CASE UNCHANGED op
  BY <1>7
<1>8. QED
  BY <1>3, <1>4, <1>5, <1>6, <1>7
  DEF Next, vars, Die, JobFails, Dies, Revise, Clear, Event, Dismiss, Sync, RollOff, Forget

\* Crashes are numbered in the order in which they happen.
LEMMA DeathsStayCurrent ==
    ASSUME TypeOK, DeathsCurrent, [Next]_vars
    PROVE  /\ DeathsCurrent'
           /\ \A p \in Pods : crashes'[p] \in Nat /\ crashes'[p] >= crashes[p]
<1>1. \A p \in Pods : crashes[p] \in Nat
  BY DEF TypeOK
<1>2. ASSUME NEW p \in Pods, NEW I, NEW G, Dies(p, I, G)
      PROVE  /\ DeathsCurrent'
             /\ \A q \in Pods : crashes'[q] \in Nat /\ crashes'[q] >= crashes[q]
  <2>1. PICK i \in I, g \in G :
            death' = [death EXCEPT ![p] = [pod   |-> p, restarts |-> crashes[p],
                                           issue |-> i, grade    |-> g]]
    BY <1>2 DEF Dies
  <2>2. crashes' = [crashes EXCEPT ![p] = crashes[p] + 1]
    BY <1>2 DEF Dies
  <2>3. QED
    BY <1>1, <2>1, <2>2 DEF TypeOK, DeathsCurrent
<1>3. ASSUME NEW p \in Pods, Revise(p) PROVE DeathsCurrent' /\ UNCHANGED crashes
  <2>1. PICK i \in Issues, g \in Grades :
            death' = [death EXCEPT ![p].issue = i, ![p].grade = g]
    BY <1>3 DEF Revise
  <2>2. death[p] \in Deaths /\ death[p] # None /\ UNCHANGED crashes
    BY <1>3 DEF Revise, TypeOK
  <2>3. death'[p].pod = death[p].pod /\ death'[p].restarts = death[p].restarts
    BY <2>1, <2>2 DEF TypeOK, Deaths
  <2>4. \A q \in Pods \ {p} : death'[q] = death[q]
    BY <2>1 DEF TypeOK
  <2>5. QED
    BY <2>2, <2>3, <2>4 DEF DeathsCurrent
<1>4. ASSUME NEW p \in Pods, Clear(p) PROVE DeathsCurrent' /\ UNCHANGED crashes
  BY <1>4 DEF Clear, DeathsCurrent, TypeOK
<1>5. ASSUME NEW p \in Pods, Die(p) \/ JobFails(p) \/ Revise(p) \/ Clear(p)
      PROVE  /\ DeathsCurrent'
             /\ \A q \in Pods : crashes'[q] \in Nat /\ crashes'[q] >= crashes[q]
  <2>1. CASE Die(p)
    BY <1>2, <2>1 DEF Die
  <2>2. CASE JobFails(p)
    BY <1>2, <2>2 DEF JobFails
  <2>3. CASE Revise(p) \/ Clear(p)
    BY <1>1, <1>3, <1>4, <2>3
  <2>4. QED
    BY <1>5, <2>1, <2>2, <2>3
<1>6. CASE UNCHANGED <<death, crashes>>
  BY <1>1, <1>6 DEF DeathsCurrent
<1>7. ASSUME NEW w \in Workers, UpsertObituary(w) \/ MaybeHeal(w)
      PROVE  UNCHANGED <<death, crashes>>
  BY <1>7
  DEF UpsertObituary, Create, AlreadyExists, InitStatus, InitConflict, Lookup, Bump,
      BumpCounted, BumpConflict, BumpNotFound, MaybeHeal, GateClosed, Skip, Act, Exec,
      AppendRecord, AppendConflict, AppendDropped
<1>8. QED
  BY <1>5, <1>6, <1>7
  DEF Next, vars, Event, Dismiss, Examine, Sync, RollOff, Forget, ApiError, Restart

\* A step that leaves the log alone leaves the counts alone.
LEMMA SameLogSameCrashes ==
    ASSUME UNCHANGED log, NEW i \in Issues
    PROVE  Crashes(i)' = Crashes(i) /\ Latest(i)' = Latest(i)
BY DEF Crashes, Present, Latest

\* The crashes counted by issue i after a step were counted before, or are the
\* death some worker had in hand.
LEMMA NextCrashes ==
    ASSUME NEW owner, CountInv(owner), [Next]_vars
    PROVE  /\ CountSound' /\ LastIsLatest'
           /\ \A i \in Issues : \A e \in Crashes(i)' :
                \/ e \in Crashes(i)
                \/ \E w \in Workers : /\ op[w].step \in UpsertSteps
                                      /\ op[w].job.issue = i /\ e = Episode(op[w].job)
<1> USE DEF CountInv
<1>1. TypeOK
  BY DEF LedgerInv
<1>2. CASE UNCHANGED log
  BY <1>2, SameLogSameCrashes DEF CountSound, LastIsLatest
<1>3. ASSUME NEW i \in Issues, Write(i, Unset("Absent"))
      PROVE  /\ CountSound' /\ LastIsLatest'
             /\ \A j \in Issues : Crashes(j)' \subseteq Crashes(j)
  <2>1. Unset("Absent") \in Statuses
    BY UnsetType
  <2>2. Counts(i) /\ Crashes(i)' = {}
    BY <1>1, <1>3, ForgetCounts
  <2>3. \A j \in Issues \ {i} : Crashes(j)' = Crashes(j)
    BY <1>1, <1>3, <2>1, CrashesAfterWrite
  <2>4. CountSound' /\ LastIsLatest'
    BY <1>1, <1>3, <2>1, <2>2, WriteCounts
  <2>5. QED
    BY <2>2, <2>3, <2>4
<1>4. ASSUME NEW w \in Workers, Calling(w), Write(op[w].job.issue, Attempted(w))
      PROVE  /\ CountSound' /\ LastIsLatest'
             /\ \A j \in Issues : \A e \in Crashes(j)' :
                    \/ e \in Crashes(j)
                    \/ /\ op[w].step \in UpsertSteps
                       /\ op[w].job.issue = j /\ e = Episode(op[w].job)
  <2>1. Attempted(w) \in Statuses /\ op[w].job.issue \in Issues
    BY <1>1, <1>4, AttemptedType, JobTypes
  <2>2. PICK i \in Issues : i = op[w].job.issue
    BY <2>1
  <2>3. Write(i, Attempted(w))
    BY <1>4, <2>2
  <2>4. /\ Counts(i)
        /\ \/ Crashes(i)' = Crashes(i)
           \/ /\ op[w].step \in UpsertSteps
              /\ \E e \in Episodes : /\ e = Episode(op[w].job)
                                     /\ Crashes(i)' = Crashes(i) \cup {e}
    BY <1>4, <2>2, <2>3, CallCounts
  <2>5. \A j \in Issues \ {i} : Crashes(j)' = Crashes(j)
    BY <1>1, <2>1, <2>3, CrashesAfterWrite
  <2>6. CountSound' /\ LastIsLatest'
    BY <1>1, <2>1, <2>3, <2>4, WriteCounts
  <2>7. QED
    BY <2>2, <2>4, <2>5, <2>6
<1>5. QED
  BY <1>1, <1>2, <1>3, <1>4, AllWrites DEF Writes

LEMMA NextCrashesOwned ==
    ASSUME NEW owner \in [Issues -> Pods], CountInv(owner), [Next]_vars
    PROVE  CrashesOwned(owner)'
<1> USE DEF CountInv
<1>1. \A p \in Pods : crashes[p] \in Nat /\ crashes'[p] \in Nat /\ crashes'[p] >= crashes[p]
  BY DeathsStayCurrent DEF LedgerInv, TypeOK
<1>2. SUFFICES ASSUME NEW i \in Issues, NEW e \in Crashes(i)'
               PROVE  e[1] = owner[i] /\ e[2] < crashes'[owner[i]]
  BY DEF CrashesOwned
<1>3. owner[i] \in Pods
  OBVIOUS
<1>4. CASE e \in Crashes(i)
  <2>1. e \in Episodes
    BY <1>4, CrashTypes DEF LedgerInv
  <2>2. e[1] = owner[i] /\ e[2] < crashes[owner[i]] /\ e[2] \in Nat
    BY <1>4, <2>1 DEF CrashesOwned, Episodes
  <2>3. QED
    BY <1>1, <1>3, <2>2
<1>5. CASE e \notin Crashes(i)
  <2>1. PICK w \in Workers : /\ op[w].step \in UpsertSteps
                             /\ op[w].job.issue = i /\ e = Episode(op[w].job)
    BY <1>2, <1>5, NextCrashes
  <2>2. op[w].job \in Deaths /\ op[w].job.restarts \in Nat
    BY <2>1, JobTypes DEF LedgerInv, UpsertSteps, Deaths
  <2>3. op[w].job.pod = owner[i] /\ op[w].job.restarts < crashes[owner[i]]
    BY <2>1 DEF JobsCurrent, JobCurrent
  <2>4. e[1] = owner[i] /\ e[2] = op[w].job.restarts
    BY <2>1, <2>3 DEF Episode
  <2>5. QED
    BY <1>1, <1>3, <2>2, <2>3, <2>4
<1>6. QED
  BY <1>4, <1>5

\* Here both hypotheses are used: nobody else counts a later crash of the issue
\* while the worker is on its way, and all the crashes counted are its pod's.
LEMMA NextJobsCurrent ==
    ASSUME NEW owner \in [Issues -> Pods], OneOperator, OwnIssues(owner),
           CountInv(owner), [Next]_vars
    PROVE  JobsCurrent(owner)'
<1> USE DEF CountInv
<1>1. \A p \in Pods : crashes[p] \in Nat /\ crashes'[p] \in Nat /\ crashes'[p] >= crashes[p]
  BY DeathsStayCurrent DEF LedgerInv, TypeOK
<1>2. SUFFICES ASSUME NEW v \in Workers, op'[v].step \in UpsertSteps
               PROVE  JobCurrent(owner, v)'
  BY DEF JobsCurrent
<1>3. TypeOK
  BY DEF LedgerInv
<1>4. CASE op[v].step \in UpsertSteps /\ op'[v].job = op[v].job
  <2>1. PICK d \in Deaths : d = op[v].job
    BY <1>3, <1>4, JobTypes DEF UpsertSteps
  <2>2. PICK i \in Issues : i = d.issue
    BY DEF Deaths
  <2>3. /\ d.pod = owner[i] /\ d.restarts < crashes[d.pod] /\ d.restarts \in Nat
        /\ d.pod \in Pods /\ \A e \in Crashes(i) : e[2] <= d.restarts
    BY <1>4, <2>1, <2>2 DEF JobsCurrent, JobCurrent, Deaths
  <2>4. d.restarts < crashes'[d.pod]
    BY <1>1, <2>3
  <2>5. \A e \in Crashes(i)' : e \in Crashes(i) \/ e = Episode(d)
    BY <2>1, NextCrashes DEF OneOperator
  <2>6. \A e \in Crashes(i)' : e[2] <= d.restarts
    BY <2>3, <2>5 DEF Episode
  <2>7. op'[v].job = d
    BY <1>4, <2>1
  <2>8. QED
    BY <2>2, <2>3, <2>4, <2>6, <2>7 DEF JobCurrent, Crashes, Present
<1>5. ASSUME NEW p \in Pods, Examine(v, p) PROVE JobCurrent(owner, v)'
  <2>1. death[p] # None /\ op'[v].job = death[p] /\ UNCHANGED <<log, crashes>>
    BY <1>3, <1>5 DEF Examine, NewDeath, TypeOK, Idle
  <2>2. PICK d \in Deaths : d = death[p]
    BY <1>3, <2>1 DEF TypeOK
  <2>3. PICK i \in Issues : i = d.issue
    BY DEF Deaths
  <2>4. d.pod = p /\ d.restarts + 1 = crashes[p] /\ owner[i] = p /\ d.restarts \in Nat
    BY <2>1, <2>2, <2>3 DEF DeathsCurrent, OwnIssues, Deaths
  <2>5. \A e \in Crashes(i) : e[2] \in Nat /\ e[2] < crashes[p]
    BY <1>3, <2>4, CrashTypes DEF CrashesOwned, Episodes
  <2>6. \A e \in Crashes(i) : e[2] <= d.restarts
    BY <1>1, <2>4, <2>5
  <2>7. Crashes(i)' = Crashes(i)
    BY <2>1, SameLogSameCrashes
  <2>8. op'[v].job = d /\ d.restarts < crashes'[p]
    BY <1>1, <2>1, <2>2, <2>4
  <2>9. QED
    BY <2>3, <2>4, <2>6, <2>7, <2>8 DEF JobCurrent, Crashes, Present
<1>6. QED
  BY <1>2, <1>3, <1>4, <1>5, OnlyExamineStarts

LEMMA NextCountInv ==
    ASSUME NEW owner \in [Issues -> Pods], OneOperator, OwnIssues(owner),
           CountInv(owner), [Next]_vars
    PROVE  CountInv(owner)'
<1>1. TypeOK /\ DeathsCurrent
  BY DEF CountInv, LedgerInv
<1>2. LedgerInv' /\ DeathsCurrent'
  BY <1>1, NextLedgerInv, DeathsStayCurrent DEF CountInv
<1>3. QED
  BY <1>2, NextCrashes, NextCrashesOwned, NextJobsCurrent DEF CountInv

LEMMA InitCountInv ==
    ASSUME NEW owner \in [Issues -> Pods], Init PROVE CountInv(owner)
<1>1. \A i \in Issues : Latest(i) = Unset("Absent")
  BY DEF Init, Latest
<1>2. LedgerInv /\ TypeOK
  BY InitLedgerInv DEF LedgerInv
<1>3. \A i \in Issues : Crashes(i) = {} /\ Latest(i).occurrences = 0
  BY <1>1, <1>2, CrashTypes, UnsetFields
<1>4. CountSound
  BY <1>3, FS_EmptySet DEF CountSound
<1>5. LastIsLatest /\ CrashesOwned(owner)
  BY <1>3 DEF LastIsLatest, CrashesOwned
<1>6. DeathsCurrent /\ JobsCurrent(owner)
  BY DEF Init, DeathsCurrent, JobsCurrent, Idle, UpsertSteps
<1>7. QED
  BY <1>2, <1>4, <1>5, <1>6 DEF CountInv

\* The number of occurrences is the number of distinct crashes recorded, for one
\* operator and issues that no two pods share: upsertObituary counts no crash
\* twice and loses none of those it counted, through stale caches, lost replies,
\* retries, restarts and deleted obituaries.
THEOREM CountsExactly ==
    ASSUME NEW owner \in [Issues -> Pods], OneOperator
    PROVE  Spec /\ []OwnIssues(owner) => []CountExact
<1>1. Init => CountInv(owner)
  BY InitCountInv
<1>2. OwnIssues(owner) /\ CountInv(owner) /\ [Next]_vars => CountInv(owner)'
  BY NextCountInv
<1>3. CountInv(owner) => CountExact
  BY DEF CountInv, CountSound, CountExact
<1>4. QED
  BY <1>1, <1>2, <1>3, PTL DEF Spec

-----------------------------------------------------------------------------
(* No heal before its time.  What an old version of an obituary counted    *)
(* remains a lower bound on the distinct crashes ever recorded, so a gate  *)
(* passed on a stale version was passed rightly.                           *)

LEMMA LoggedAfterWrite ==
    ASSUME TypeOK, NEW i \in Issues, NEW s \in Statuses, Write(i, s)
    PROVE  /\ Logged(i)' = (Logged(i) \cup {s.lastEpisode}) \ {None}
           /\ \A j \in Issues \ {i} : Logged(j)' = Logged(j)
<1>1. /\ Len(log'[i]) = Len(log[i]) + 1 /\ Len(log[i]) \in Nat \ {0}
      /\ log'[i][Len(log[i]) + 1] = s
      /\ \A j \in Issues \ {i} : log'[j] = log[j]
      /\ \A k \in 1 .. Len(log[i]) : log'[i][k] = log[i][k]
      /\ log' \in [Issues -> Seq(Statuses) \ {<< >>}]
  BY WriteGrows, Reads DEF LogGrows
<1>2. DOMAIN log[i] = 1 .. Len(log[i]) /\ DOMAIN log'[i] = 1 .. Len(log[i]) + 1
  BY <1>1 DEF TypeOK
<1>3. DOMAIN log'[i] = DOMAIN log[i] \cup {Len(log[i]) + 1}
  BY <1>1, <1>2
<1>4. Logged(i)' = (Logged(i) \cup {s.lastEpisode}) \ {None}
  BY <1>1, <1>2, <1>3 DEF Logged
<1>5. QED
  BY <1>1, <1>4 DEF Logged

LEMMA NextVersionsEarned ==
    ASSUME NEW owner, CountInv(owner), VersionsEarned, [Next]_vars
    PROVE  VersionsEarned'
<1>1. TypeOK /\ TypeOK' /\ CountSound'
  BY NextCrashes, NextTypeOK DEF CountInv, LedgerInv
<1>2. CASE UNCHANGED log
  BY <1>2 DEF VersionsEarned, Logged
<1>3. ASSUME NEW i \in Issues, NEW s \in Statuses, Write(i, s) PROVE VersionsEarned'
  <2>1. /\ Len(log'[i]) = Len(log[i]) + 1 /\ Len(log[i]) \in Nat \ {0}
        /\ \A j \in Issues \ {i} : log'[j] = log[j]
        /\ \A k \in 1 .. Len(log[i]) : log'[i][k] = log[i][k]
        /\ log'[i][Len(log[i]) + 1] = s
    BY <1>1, <1>3, WriteGrows, Reads DEF LogGrows
  <2>2. DOMAIN log[i] = 1 .. Len(log[i]) /\ DOMAIN log'[i] = 1 .. Len(log[i]) + 1
    BY <1>1, <2>1 DEF TypeOK
  <2>3. /\ Logged(i)' = (Logged(i) \cup {s.lastEpisode}) \ {None}
        /\ \A j \in Issues \ {i} : Logged(j)' = Logged(j)
    BY <1>1, <1>3, LoggedAfterWrite
  <2>4. IsFiniteSet(Logged(i)) /\ None \notin Logged(i)
    BY DEF VersionsEarned, Logged
  <2>5. IsFiniteSet(Logged(i) \cup {s.lastEpisode})
    BY <2>4, FS_AddElement
  <2>6. IsFiniteSet(Logged(i)')
    <3>1. Logged(i)' \in SUBSET (Logged(i) \cup {s.lastEpisode})
      BY <2>3
    <3>2. QED
      BY <2>5, <3>1, FS_Subset
  <2>7. Cardinality(Logged(i)) <= Cardinality(Logged(i)')
    <3>1. Logged(i) \in SUBSET Logged(i)'
      BY <2>3, <2>4
    <3>2. QED
      BY <2>6, <3>1, FS_Subset
  <2>8. Cardinality(Logged(i)) \in Nat /\ Cardinality(Logged(i)') \in Nat
    BY <2>4, <2>6, FS_CardinalityType
  <2>9. s.occurrences <= Cardinality(Logged(i)')
    <3>1. Crashes(i)' \in SUBSET Logged(i)'
      BY <2>1, <2>2 DEF Crashes, Present, Logged
    <3>2. s = Latest(i)'
      BY <2>1 DEF Latest
    <3>3. s.occurrences = Cardinality(Crashes(i)')
      BY <1>1, <3>2 DEF CountSound
    <3>4. QED
      BY <2>6, <3>1, <3>3, FS_Subset
  <2>10. \A v \in DOMAIN log'[i] : log'[i][v].occurrences <= Cardinality(Logged(i)')
    <3>1. SUFFICES ASSUME NEW v \in 1 .. Len(log[i]) + 1
                   PROVE  log'[i][v].occurrences <= Cardinality(Logged(i)')
      BY <2>2
    <3>2. CASE v = Len(log[i]) + 1
      BY <2>1, <2>9, <3>2
    <3>3. CASE v # Len(log[i]) + 1
      <4>1. v \in DOMAIN log[i] /\ log'[i][v] = log[i][v]
        BY <2>1, <2>2, <3>1, <3>3
      <4>2. log[i][v] \in Statuses
        BY <1>1, <4>1 DEF TypeOK
      <4>3. log[i][v].occurrences \in Nat
        BY <4>2 DEF Statuses
      <4>4. log[i][v].occurrences <= Cardinality(Logged(i))
        BY <4>1 DEF VersionsEarned
      <4>5. QED
        BY <2>7, <2>8, <4>1, <4>3, <4>4
    <3>4. QED
      BY <3>2, <3>3
  <2>11. ASSUME NEW j \in Issues
         PROVE  /\ IsFiniteSet(Logged(j)')
                /\ \A v \in DOMAIN log'[j] : log'[j][v].occurrences <= Cardinality(Logged(j)')
    <3>1. CASE j = i
      BY <2>6, <2>10, <3>1
    <3>2. CASE j # i
      BY <2>1, <2>3, <3>2 DEF VersionsEarned
    <3>3. QED
      BY <3>1, <3>2
  <2>12. QED
    BY <2>11 DEF VersionsEarned
<1>4. CASE Writes
  <2>1. \/ \E i \in Issues : Write(i, Unset("Absent"))
        \/ \E w \in Workers : Calling(w) /\ Write(op[w].job.issue, Attempted(w))
    BY <1>4 DEF Writes
  <2>2. QED
    BY <1>1, <1>3, <2>1, UnsetType, AttemptedType, JobTypes
<1>5. QED
  BY <1>1, <1>2, <1>4, AllWrites

\* Only Act starts an executor.
LEMMA OnlyActExecutes ==
    ASSUME TypeOK, [Next]_vars, NEW v \in Workers, op'[v].step = "exec"
    PROVE  op'[v] = op[v] \/ Act(v)
<1>1. ASSUME NEW w \in Workers, Done(w) PROVE op'[v] = op[v]
  BY <1>1 DEF Done, Idle, TypeOK
<1>2. ASSUME NEW w \in Workers, NEW st, NEW n, NEW b, NEW o, Move(w, st, n, b, o), st # "exec"
      PROVE  op'[v] = op[v]
  BY <1>2 DEF Move, TypeOK
<1>3. ASSUME NEW w \in Workers, NEW p \in Pods, Examine(w, p) PROVE op'[v] = op[v]
  BY <1>3 DEF Examine, TypeOK, Idle
<1>4. ASSUME NEW w \in Workers, UpsertObituary(w) PROVE op'[v] = op[v]
  <2>1. CASE Create(w)
    BY <1>2, <2>1 DEF Create
  <2>2. CASE Lookup(w)
    BY <1>2, <2>2 DEF Lookup, Goto
  <2>3. CASE AlreadyExists(w) \/ InitStatus(w) \/ Bump(w) \/ BumpCounted(w)
    BY <1>2, <2>3 DEF AlreadyExists, InitStatus, Bump, BumpCounted, Goto
  <2>4. CASE InitConflict(w) \/ BumpNotFound(w)
    BY <1>1, <2>4 DEF InitConflict, BumpNotFound, Requeue
  <2>5. CASE BumpConflict(w)
    BY <1>1, <1>2, <2>5 DEF BumpConflict, Requeue
  <2>6. QED
    BY <1>4, <2>1, <2>2, <2>3, <2>4, <2>5 DEF UpsertObituary
<1>5. ASSUME NEW w \in Workers, MaybeHeal(w) PROVE op'[v] = op[v] \/ Act(v)
  <2>1. CASE GateClosed(w) \/ AppendRecord(w) \/ AppendDropped(w)
    BY <1>1, <2>1 DEF GateClosed, AppendRecord, AppendDropped
  <2>2. CASE Skip(w) \/ Exec(w) \/ AppendConflict(w)
    BY <1>2, <2>2 DEF Skip, Exec, AppendConflict
  <2>3. CASE Act(w)
    <3>1. CASE v = w
      BY <2>3, <3>1
    <3>2. CASE v # w
      BY <2>3, <3>2 DEF Act, Move, TypeOK
    <3>3. QED
      BY <3>1, <3>2
  <2>4. QED
    BY <1>5, <2>1, <2>2, <2>3 DEF MaybeHeal
<1>6. ASSUME NEW w \in Workers, ApiError(w) \/ Restart(w) PROVE op'[v] = op[v]
  BY <1>1, <1>6 DEF ApiError, Requeue, Restart
<1>7. CASE UNCHANGED op
  BY <1>7
<1>8. QED
  BY <1>3, <1>4, <1>5, <1>6, <1>7
  DEF Next, vars, Die, JobFails, Dies, Revise, Clear, Event, Dismiss, Sync, RollOff, Forget

LEMMA NextExecGated == ASSUME TypeOK, ExecGated, [Next]_vars PROVE ExecGated'
<1>1. LogGrows
  BY NextLogGrows
<1>2. SUFFICES ASSUME NEW v \in Workers, op'[v].step = "exec"
               PROVE  ~DryRun /\ Gates(log'[op'[v].job.issue][op'[v].base])
  BY DEF ExecGated, Gates
<1>3. CASE op'[v] = op[v]
  <2>1. op[v].job.issue \in Issues /\ op[v].base \in 1 .. Len(log[op[v].job.issue])
    BY <1>2, <1>3, JobTypes DEF TypeOK, OpSound
  <2>2. log'[op[v].job.issue][op[v].base] = log[op[v].job.issue][op[v].base]
    BY <1>1, <2>1 DEF LogGrows
  <2>3. ~DryRun /\ Gates(log[op[v].job.issue][op[v].base])
    BY <1>2, <1>3 DEF ExecGated
  <2>4. QED
    BY <1>3, <2>2, <2>3
<1>4. CASE Act(v)
  <2>1. PICK i \in Issues : i = op[v].job.issue
    BY <1>4, JobTypes DEF Act
  <2>2. Gates(log[i][seen[v][i]]) /\ UNCHANGED log
    BY <1>4, <2>1 DEF Act, Cached
  <2>3. ~DryRun /\ op'[v].job = op[v].job /\ op'[v].base = seen[v][i]
    BY <1>2, <1>4, <2>1 DEF Act, Move, TypeOK
  <2>4. QED
    BY <2>1, <2>2, <2>3
<1>5. QED
  BY <1>2, <1>3, <1>4, OnlyActExecutes

LEMMA HealIssues == ASSUME TypeOK, NEW k \in DOMAIN heals PROVE heals[k].job.issue \in Issues
<1>1. heals[k] \in Heals
  BY DEF TypeOK
<1>2. heals[k].job \in Deaths
  BY <1>1 DEF Heals
<1>3. QED
  BY <1>2 DEF Deaths

\* Only an executor mutates, and what it was decided on was gated.
LEMMA NextHealsGated ==
    ASSUME TypeOK, ExecGated, HealsGated, [Next]_vars PROVE HealsGated'
<1>1. LogGrows /\ TypeOK'
  BY NextLogGrows, NextTypeOK
<1>2. ASSUME NEW j \in Issues, NEW v \in DOMAIN log[j]
      PROVE  v \in DOMAIN log'[j] /\ log'[j][v] = log[j][v]
  <2>1. log[j] \in Seq(Statuses) /\ log'[j] \in Seq(Statuses)
    BY <1>1 DEF TypeOK
  <2>2. DOMAIN log[j] = 1 .. Len(log[j]) /\ DOMAIN log'[j] = 1 .. Len(log'[j])
        /\ Len(log[j]) \in Nat /\ Len(log'[j]) \in Nat
    BY <2>1
  <2>3. Len(log'[j]) >= Len(log[j]) /\ \A k \in 1 .. Len(log[j]) : log'[j][k] = log[j][k]
    BY <1>1 DEF LogGrows
  <2>4. QED
    BY <1>2, <2>2, <2>3
<1>3. \A k \in DOMAIN heals : heals[k].job.issue \in Issues
  BY HealIssues
<1>4. ASSUME NEW k \in DOMAIN heals
      PROVE  /\ ~DryRun /\ Gates(heals[k].on)
             /\ \E v \in DOMAIN log'[heals[k].job.issue] :
                    heals[k].on = log'[heals[k].job.issue][v]
  <2>1. PICK j \in Issues : j = heals[k].job.issue
    BY <1>3
  <2>2. PICK v \in DOMAIN log[j] : heals[k].on = log[j][v]
    BY <2>1 DEF HealsGated
  <2>3. v \in DOMAIN log'[j] /\ heals[k].on = log'[j][v]
    BY <1>2, <2>2
  <2>4. QED
    BY <2>1, <2>3 DEF HealsGated
<1>5. CASE UNCHANGED heals
  BY <1>4, <1>5 DEF HealsGated, Gates
<1>6. ASSUME NEW w \in Workers, Exec(w), Mutate(w) PROVE HealsGated'
  <2>1. PICK j \in Issues : j = op[w].job.issue
    BY <1>6, JobTypes DEF Exec
  <2>2. PICK b \in 1 .. Len(log[j]) : b = op[w].base
    BY <1>6, <2>1 DEF Exec, TypeOK, OpSound
  <2>3. PICK h \in Heals : h = [job |-> op[w].job, on |-> log[j][b]]
    <3>1. op[w].job \in Deaths
      BY <1>6, JobTypes DEF Exec
    <3>2. log[j][b] \in Statuses
      BY DEF TypeOK
    <3>3. QED
      BY <3>1, <3>2 DEF Heals
  <2>4. heals' = Append(heals, h)
    BY <1>6, <2>1, <2>2, <2>3 DEF Mutate
  <2>5. heals \in Seq(Heals) /\ Len(heals) \in Nat
    BY DEF TypeOK
  <2>6. /\ DOMAIN heals' = 1 .. Len(heals) + 1 /\ DOMAIN heals = 1 .. Len(heals)
        /\ heals'[Len(heals) + 1] = h
        /\ \A k \in 1 .. Len(heals) : heals'[k] = heals[k]
    BY <2>4, <2>5
  <2>7. ~DryRun /\ Gates(h.on) /\ h.on = log[j][b] /\ h.job.issue = j
    BY <1>6, <2>1, <2>2, <2>3 DEF Exec, ExecGated
  <2>8. b \in DOMAIN log[j]
    BY DEF TypeOK
  <2>9. b \in DOMAIN log'[j] /\ h.on = log'[j][b]
    BY <1>2, <2>7, <2>8
  <2>10. ASSUME NEW k \in DOMAIN heals'
         PROVE  /\ ~DryRun /\ Gates(heals'[k].on)
                /\ \E v \in DOMAIN log'[heals'[k].job.issue] :
                       heals'[k].on = log'[heals'[k].job.issue][v]
    <3>1. CASE k = Len(heals) + 1
      BY <2>6, <2>7, <2>9, <3>1
    <3>2. CASE k # Len(heals) + 1
      <4>1. k \in DOMAIN heals /\ heals'[k] = heals[k]
        BY <2>5, <2>6, <2>10, <3>2
      <4>2. QED
        BY <1>4, <4>1
    <3>3. QED
      BY <3>1, <3>2
  <2>11. QED
    BY <2>10 DEF HealsGated, Gates
<1>7. ASSUME NEW w \in Workers, MaybeHeal(w) PROVE HealsGated'
  <2>1. CASE Exec(w)
    BY <1>5, <1>6, <2>1 DEF Exec
  <2>2. QED
    BY <1>5, <1>7, <2>1
    DEF MaybeHeal, GateClosed, Skip, Act, AppendRecord, AppendConflict, AppendDropped
<1>8. ASSUME NEW w \in Workers, UpsertObituary(w) PROVE UNCHANGED heals
  BY <1>8
  DEF UpsertObituary, Create, AlreadyExists, InitStatus, InitConflict, Lookup, Bump,
      BumpCounted, BumpConflict, BumpNotFound
<1>9. QED
  BY <1>5, <1>7, <1>8
  DEF Next, vars, Die, JobFails, Dies, Revise, Clear, Event, Dismiss, Examine, Sync,
      RollOff, Forget, ApiError, Restart

LEMMA InitEarnedInv == Init => EarnedInv
<1>1. SUFFICES ASSUME Init PROVE EarnedInv
  OBVIOUS
<1>2. ASSUME NEW i \in Issues
      PROVE  Logged(i) = {} /\ \A v \in DOMAIN log[i] : log[i][v].occurrences = 0
  <2>1. log[i] = <<Unset("Absent")>>
    BY <1>1 DEF Init
  <2>2. \A v \in DOMAIN log[i] : log[i][v] = Unset("Absent")
    BY <2>1
  <2>3. QED
    BY <2>2, UnsetFields DEF Logged
<1>3. IsFiniteSet({}) /\ Cardinality({}) = 0
  BY FS_EmptySet
<1>4. VersionsEarned
  BY <1>2, <1>3 DEF VersionsEarned
<1>5. ExecGated /\ HealsGated
  BY <1>1 DEF Init, Idle, ExecGated, HealsGated
<1>6. QED
  BY <1>4, <1>5 DEF EarnedInv

\* A mutation is made only with self-healing on and dryRun off, on a verdict of
\* the confidence asked for, and after MinOccurrences distinct crashes of its
\* issue: MaybeHeal reads its gates off a cached obituary, however stale, and a
\* stale count is never too high.
THEOREM HealsAreEarned ==
    ASSUME NEW owner \in [Issues -> Pods], OneOperator
    PROVE  Spec /\ []OwnIssues(owner) => []HealsEarned
<1> DEFINE Inv == CountInv(owner) /\ EarnedInv
<1>1. Init => Inv
  BY InitCountInv, InitEarnedInv
<1>2. OwnIssues(owner) /\ Inv /\ [Next]_vars => Inv'
  <2>1. CountInv(owner) => TypeOK
    BY DEF CountInv, LedgerInv
  <2>2. QED
    BY <2>1, NextCountInv, NextVersionsEarned, NextExecGated, NextHealsGated DEF EarnedInv
<1>3. Inv => HealsEarned
  <2>1. SUFFICES ASSUME Inv, NEW k \in DOMAIN heals
                 PROVE  /\ Enabled /\ ~DryRun
                        /\ RequireHigh => heals[k].on.confidence = "High"
                        /\ Cardinality(Logged(heals[k].job.issue)) >= MinOccurrences
    BY DEF HealsEarned, Logged
  <2>2. TypeOK
    BY <2>1 DEF CountInv, LedgerInv
  <2>3. PICK i \in Issues : i = heals[k].job.issue
    BY <2>1, <2>2, HealIssues
  <2>4. ~DryRun /\ Gates(heals[k].on)
    BY <2>1 DEF EarnedInv, HealsGated
  <2>5. PICK v \in DOMAIN log[i] : heals[k].on = log[i][v]
    BY <2>1, <2>3 DEF EarnedInv, HealsGated
  <2>6. log[i][v].occurrences <= Cardinality(Logged(i)) /\ IsFiniteSet(Logged(i))
    BY <2>1 DEF EarnedInv, VersionsEarned
  <2>7. log[i][v].occurrences \in Nat
    <3>1. log[i][v] \in Statuses
      BY <2>2, <2>5 DEF TypeOK
    <3>2. QED
      BY <3>1 DEF Statuses
  <2>8. Cardinality(Logged(i)) \in Nat /\ MinOccurrences \in Nat
    BY <2>6, FS_CardinalityType, ConfigAssumption
  <2>9. heals[k].on.occurrences >= MinOccurrences
    BY <2>4 DEF Gates
  <2>10. QED
    BY <2>3, <2>4, <2>5, <2>6, <2>7, <2>8, <2>9 DEF Gates
<1>4. QED
  BY <1>1, <1>2, <1>3, PTL DEF Spec
=============================================================================
