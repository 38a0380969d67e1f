-------------------------- MODULE ReconcilerProofs --------------------------
(***************************************************************************)
(* Proofs about Reconciler, for any number of operators, pods, issues and  *)
(* versions, and any bound on crashes, faults, restarts and deletions.     *)
(***************************************************************************)
EXTENDS Reconciler, TLAPS

-----------------------------------------------------------------------------
(* Statuses and the log.                                                   *)

LEMMA UnsetType ==
    ASSUME NEW ph \in {"Absent", "Created", "Complete"}
    PROVE  Unset(ph) \in Statuses
BY DEF Unset, Statuses

LEMMA EpisodeType == ASSUME NEW d \in Deaths PROVE Episode(d) \in Episodes
BY DEF Deaths, Episode, Episodes

LEMMA BuildStatusType ==
    ASSUME NEW d \in Deaths, NEW n \in Nat, NEW e \in Episodes \cup {None}
    PROVE  /\ BuildStatus(d, n, e) \in Statuses
           /\ BuildStatus(d, n, e).lastEpisode = Episode(d)
BY EpisodeType DEF BuildStatus, Statuses, Deaths

LEMMA FirstStatusType ==
    ASSUME NEW d \in Deaths
    PROVE  FirstStatus(d) \in Statuses /\ FirstStatus(d).lastEpisode = Episode(d)
BY BuildStatusType, EpisodeType DEF FirstStatus

LEMMA BumpedType ==
    ASSUME NEW s \in Statuses, NEW d \in Deaths
    PROVE  Bumped(s, d) \in Statuses /\ Bumped(s, d).lastEpisode = Episode(d)
<1> DEFINE first == IF s.firstSeen = None THEN Episode(d) ELSE s.firstSeen
<1>1. first \in Episodes \cup {None} /\ s.occurrences + 1 \in Nat
  BY EpisodeType DEF Statuses
<1>2. Bumped(s, d) = BuildStatus(d, s.occurrences + 1, first)
  BY DEF Bumped
<1> HIDE DEF first
<1>3. QED
  BY <1>1, <1>2, BuildStatusType

LEMMA LastNType ==
    ASSUME NEW S, NEW q \in Seq(S), NEW n \in Nat
    PROVE  LastN(q, n) \in Seq(S)
BY DEF LastN

LEMMA NotedType ==
    ASSUME NEW s \in Statuses, NEW o \in Outcomes
    PROVE  Noted(s, o) \in Statuses
<1>1. Append(s.healAttempts, o) \in Seq(Outcomes)
  BY DEF Statuses
<1>2. LastN(Append(s.healAttempts, o), MaxAttempts) \in Seq(Outcomes)
  BY <1>1, LastNType, MaxAttemptsAssumption
<1>3. QED
  BY <1>1, <1>2 DEF Noted, Statuses

\* Every version of every obituary is kept, and some may be added.
LogGrows ==
    /\ log' \in [Issues -> Seq(Statuses) \ {<< >>}]
    /\ \A i \in Issues :
        /\ Len(log'[i]) >= Len(log[i])
        /\ \A k \in 1 .. Len(log[i]) : log'[i][k] = log[i][k]

LEMMA SameLogGrows == ASSUME TypeOK, UNCHANGED log PROVE LogGrows
<1>1. \A i \in Issues : Len(log[i]) \in Nat
  BY DEF TypeOK
<1>2. QED
  BY <1>1 DEF TypeOK, LogGrows

\* A write adds one version to one obituary.
LEMMA WriteGrows ==
    ASSUME TypeOK, NEW i \in Issues, NEW s \in Statuses, Write(i, s)
    PROVE  /\ LogGrows
           /\ Len(log'[i]) = Len(log[i]) + 1
           /\ log'[i][Len(log[i]) + 1] = s
           /\ \A j \in Issues \ {i} : log'[j] = log[j]
<1>1. /\ log' = [log EXCEPT ![i] = Append(log[i], s)]
      /\ log \in [Issues -> Seq(Statuses) \ {<< >>}]
  BY DEF Write, TypeOK
<1>2. /\ log[i] \in Seq(Statuses) /\ Len(log[i]) \in Nat
      /\ log'[i] = Append(log[i], s)
  BY <1>1
<1>3. /\ Append(log[i], s) \in Seq(Statuses)
      /\ Len(Append(log[i], s)) = Len(log[i]) + 1
      /\ Append(log[i], s)[Len(log[i]) + 1] = s
      /\ \A k \in 1 .. Len(log[i]) : Append(log[i], s)[k] = log[i][k]
  BY <1>2
<1>4. Append(log[i], s) # << >>
  BY <1>2, <1>3
<1>5. log' \in [Issues -> Seq(Statuses) \ {<< >>}]
  BY <1>1, <1>3, <1>4
<1>6. \A j \in Issues \ {i} : log'[j] = log[j] /\ Len(log[j]) \in Nat
  BY <1>1
<1>7. LogGrows
  <2>1. ASSUME NEW j \in Issues
        PROVE  /\ Len(log'[j]) >= Len(log[j])
               /\ \A k \in 1 .. Len(log[j]) : log'[j][k] = log[j][k]
    <3>1. CASE j = i
      BY <1>2, <1>3, <3>1
    <3>2. CASE j # i
      BY <1>6, <3>2
    <3>3. QED
      BY <3>1, <3>2
  <2>2. QED
    BY <1>5, <2>1 DEF LogGrows
<1>8. QED
  BY <1>2, <1>3, <1>6, <1>7

\* What a read of the cache or of the server returns.
LEMMA Reads ==
    ASSUME TypeOK, NEW i \in Issues
    PROVE  /\ Len(log[i]) \in Nat \ {0}
           /\ Latest(i) \in Statuses
           /\ \A w \in Workers : /\ seen[w][i] \in 1 .. Len(log[i])
                                 /\ Cached(w, i) \in Statuses
<1>1. log[i] \in Seq(Statuses) /\ log[i] # << >>
  BY DEF TypeOK
<1>2. Len(log[i]) \in Nat \ {0}
  BY <1>1
<1>3. \A w \in Workers : seen[w][i] \in 1 .. Len(log[i])
  BY <1>2 DEF TypeOK, CachesBehind
<1>4. QED
  BY <1>1, <1>2, <1>3 DEF Latest, Cached

-----------------------------------------------------------------------------
(* Type correctness.                                                       *)

\* A step that leaves the caches alone, or brings them up to date, keeps them
\* within the log.
LEMMA CachesStayBehind ==
    ASSUME TypeOK, LogGrows, UNCHANGED seen
    PROVE  CachesBehind'
<1>1. \A i \in Issues : Len(log[i]) \in Nat /\ Len(log'[i]) \in Nat
  BY DEF TypeOK, LogGrows
<1>2. \A w \in Workers, i \in Issues : seen[w][i] \in Nat
  BY DEF TypeOK
<1>3. QED
  BY <1>1, <1>2 DEF TypeOK, CachesBehind, LogGrows

\* A worker's record stays sound while it is untouched.
LEMMA OpStaysSound ==
    ASSUME TypeOK, LogGrows, NEW w \in Workers, op'[w] = op[w]
    PROVE  OpSound(w)'
<1>1. \A i \in Issues : Len(log[i]) \in Nat /\ Len(log'[i]) \in Nat
  BY DEF TypeOK, LogGrows
<1>2. op[w].step # "idle" => op[w].job.issue \in Issues
  BY DEF TypeOK, OpSound, Deaths
<1>3. QED
  BY <1>1, <1>2 DEF TypeOK, OpSound, LogGrows, Ops

LEMMA IdleType == Idle \in Ops
BY DEF Idle, Ops, Steps

LEMMA DoneTypes ==
    ASSUME TypeOK, LogGrows, NEW w \in Workers, Done(w)
    PROVE  /\ op' \in [Workers -> Ops]
           /\ \A v \in Workers : OpSound(v)'
<1>1. op' = [op EXCEPT ![w] = Idle]
  BY DEF Done
<1>2. op' \in [Workers -> Ops]
  BY <1>1, IdleType DEF TypeOK
<1>3. OpSound(w)'
  BY <1>1 DEF TypeOK, OpSound, Idle
<1>4. \A v \in Workers \ {w} : OpSound(v)'
  BY <1>1, OpStaysSound DEF TypeOK
<1>5. QED
  BY <1>2, <1>3, <1>4

LEMMA RequeueTypes ==
    ASSUME TypeOK, LogGrows, NEW w \in Workers, op[w].step # "idle", Requeue(w)
    PROVE  /\ op' \in [Workers -> Ops]
           /\ \A v \in Workers : OpSound(v)'
           /\ queue' \in [Workers -> SUBSET Pods]
<1>1. op[w].job.pod \in Pods
  BY DEF TypeOK, OpSound, Deaths
<1>2. QED
  BY <1>1, DoneTypes DEF Requeue, TypeOK

\* A step that moves worker w on within its reconcile.
LEMMA MoveTypes ==
    ASSUME TypeOK, LogGrows, NEW w \in Workers, op[w].step # "idle",
           NEW st \in Steps \ {"idle"}, NEW n \in Nat, NEW b \in Nat, NEW o \in Outcomes \cup {None},
           Move(w, st, n, b, o),
           st \in {"init", "exec"} => b \in 1 .. Len(log'[op[w].job.issue]),
           st = "note" => o \in Outcomes
    PROVE  /\ op' \in [Workers -> Ops]
           /\ \A v \in Workers : OpSound(v)'
<1> DEFINE r == [step |-> st, job |-> op[w].job, tries |-> n, base |-> b, outcome |-> o]
<1>1. op[w].job \in Deaths
  BY DEF TypeOK, OpSound
<1>2. r \in Ops
  BY <1>1 DEF Ops
<1>3. op' = [op EXCEPT ![w] = r]
  BY DEF Move
<1>4. op' \in [Workers -> Ops] /\ op'[w] = r
  BY <1>2, <1>3 DEF TypeOK
<1>5. OpSound(w)'
  BY <1>1, <1>4 DEF OpSound
<1>6. \A v \in Workers \ {w} : OpSound(v)'
  BY <1>3, OpStaysSound DEF TypeOK
<1>7. QED
  BY <1>4, <1>5, <1>6

\* The worker steps whose record is in use name a death.
LEMMA JobTypes ==
    ASSUME TypeOK, NEW w \in Workers, op[w].step # "idle"
    PROVE  /\ op[w] \in Ops /\ op[w].job \in Deaths
           /\ op[w].job.issue \in Issues /\ op[w].job.pod \in Pods
BY DEF TypeOK, OpSound, Deaths

\* What a call under way would write is a status.
LEMMA AttemptedType ==
    ASSUME TypeOK, NEW w \in Workers, Calling(w)
    PROVE  op[w].step # "idle" /\ Attempted(w) \in Statuses
<1>1. op[w].step \in {"upsert", "init", "bump", "note"}
  BY DEF Calling
<1>2. op[w].job \in Deaths /\ op[w].job.issue \in Issues
  BY <1>1, JobTypes
<1>3. Cached(w, op[w].job.issue) \in Statuses
  BY <1>2, Reads
<1>4. op[w].step = "note" => op[w].outcome \in Outcomes
  BY DEF TypeOK, OpSound
<1>5. CASE op[w].step = "upsert"
  BY <1>5, UnsetType DEF Attempted
<1>6. CASE op[w].step = "init"
  BY <1>2, <1>6, FirstStatusType DEF Attempted
<1>7. CASE op[w].step = "bump"
  BY <1>2, <1>3, <1>7, BumpedType DEF Attempted
<1>8. CASE op[w].step = "note"
  BY <1>3, <1>4, <1>8, NotedType DEF Attempted
<1>9. QED
  BY <1>1, <1>5, <1>6, <1>7, <1>8

LEMMA UpsertLogGrows ==
    ASSUME TypeOK, NEW w \in Workers, UpsertObituary(w)
    PROVE  LogGrows
<1>1. CASE Create(w)
  BY <1>1, JobTypes, UnsetType, WriteGrows DEF Create
<1>2. CASE InitStatus(w)
  BY <1>2, JobTypes, FirstStatusType, WriteGrows DEF InitStatus
<1>3. CASE Bump(w)
  <2>1. op[w].job \in Deaths /\ op[w].job.issue \in Issues
    BY <1>3, JobTypes DEF Bump
  <2>2. Bumped(Cached(w, op[w].job.issue), op[w].job) \in Statuses
    BY <2>1, Reads, BumpedType
  <2>3. QED
    BY <1>3, <2>1, <2>2, WriteGrows DEF Bump
<1>4. CASE UNCHANGED log
  BY <1>4, SameLogGrows
<1>5. QED
  BY <1>1, <1>2, <1>3, <1>4
  DEF UpsertObituary, AlreadyExists, InitConflict, Lookup, BumpCounted,
      BumpConflict, BumpNotFound

LEMMA HealLogGrows ==
    ASSUME TypeOK, NEW w \in Workers, MaybeHeal(w)
    PROVE  LogGrows
<1>1. CASE AppendRecord(w)
  <2>1. op[w].job.issue \in Issues /\ op[w].outcome \in Outcomes
    BY <1>1, JobTypes DEF AppendRecord, TypeOK, OpSound
  <2>2. Noted(Cached(w, op[w].job.issue), op[w].outcome) \in Statuses
    BY <2>1, Reads, NotedType
  <2>3. QED
    BY <1>1, <2>1, <2>2, WriteGrows DEF AppendRecord
<1>2. CASE UNCHANGED log
  BY <1>2, SameLogGrows
<1>3. QED
  BY <1>1, <1>2
  DEF MaybeHeal, GateClosed, Skip, Act, Exec, AppendConflict, AppendDropped

\* No step, of the operators or of anybody else, loses a version.
LEMMA NextLogGrows == ASSUME TypeOK, [Next]_vars PROVE LogGrows
<1>1. ASSUME NEW i \in Issues, Forget(i) PROVE LogGrows
  BY <1>1, UnsetType, WriteGrows DEF Forget
<1>2. ASSUME NEW w \in Workers, ApiError(w) PROVE LogGrows
  <2>1. op[w].job.issue \in Issues /\ Attempted(w) \in Statuses
    BY <1>2, AttemptedType, JobTypes DEF ApiError
  <2>2. CASE Write(op[w].job.issue, Attempted(w))
    BY <2>1, <2>2, WriteGrows
  <2>3. CASE UNCHANGED log
    BY <2>3, SameLogGrows
  <2>4. QED
    BY <1>2, <2>2, <2>3 DEF ApiError
<1>3. CASE UNCHANGED log
  BY <1>3, SameLogGrows
<1>4. QED
  BY <1>1, <1>2, <1>3, UpsertLogGrows, HealLogGrows
  DEF Next, vars, Die, JobFails, Dies, Revise, Clear, Event, Dismiss, Examine, Sync, RollOff, Restart

LEMMA InitTypeOK == Init => TypeOK
<1>1. SUFFICES ASSUME Init PROVE TypeOK
  OBVIOUS
<1>2. log \in [Issues -> Seq(Statuses) \ {<< >>}] /\ CachesBehind
  BY <1>1, UnsetType DEF Init, CachesBehind
<1>3. op \in [Workers -> Ops] /\ \A w \in Workers : OpSound(w)
  BY <1>1, IdleType DEF Init, OpSound, Idle
<1>4. left \in [Budgets -> Nat]
  <2>1. ASSUME NEW b \in Budgets PROVE left[b] \in Nat
    BY <1>1, <2>1, BoundsAssumption DEF Init, Budgets
  <2>2. QED
    BY <1>1, <2>1 DEF Init
<1>5. /\ death \in [Pods -> Deaths \cup {None}]
      /\ crashes \in [Pods -> Nat]
      /\ queue \in [Workers -> SUBSET Pods]
      /\ spent \in [Workers -> Nat]
      /\ lost \in SUBSET Deaths
      /\ heals \in Seq(Heals)
  BY <1>1 DEF Init
<1>6. seen \in [Workers -> [Issues -> Nat \ {0}]]
  BY <1>1 DEF Init
<1>7. QED
  BY <1>2, <1>3, <1>4, <1>5, <1>6 DEF TypeOK

\* Steps of pods, users and watches.
LEMMA EnvironmentTypeOK ==
    ASSUME TypeOK, LogGrows,
           \/ \E p \in Pods : Die(p) \/ JobFails(p) \/ Revise(p) \/ Clear(p)
           \/ \E i \in Issues : Forget(i)
           \/ \E w \in Workers, p \in Pods : Event(w, p)
           \/ \E w \in Workers, i \in Issues : Sync(w, i)
    PROVE  TypeOK'
<1>1. ASSUME UNCHANGED op PROVE \A w \in Workers : OpSound(w)'
  BY <1>1, OpStaysSound
<1>2. ASSUME NEW p \in Pods, Die(p) \/ JobFails(p) PROVE TypeOK'
  <2>0. Dies(p, Issues, Grades)
    BY <1>2, ConfigAssumption DEF Die, JobFails, Dies
  <2>1. death' \in [Pods -> Deaths \cup {None}]
    BY <2>0 DEF TypeOK, Dies, Deaths
  <2>2. CachesBehind' /\ \A w \in Workers : OpSound(w)'
    BY <1>1, <2>0, CachesStayBehind DEF Dies
  <2>3. QED
    BY <2>0, <2>1, <2>2 DEF TypeOK, Dies, Notify
<1>3. ASSUME NEW p \in Pods, Revise(p) PROVE TypeOK'
  <2>1. death[p] \in Deaths
    BY <1>3 DEF TypeOK, Revise
  <2>2. death' \in [Pods -> Deaths \cup {None}]
    <3>1. PICK i \in Issues, g \in Grades :
             death' = [death EXCEPT ![p] = [death[p] EXCEPT !.issue = i, !.grade = g]]
      BY <1>3 DEF Revise
    <3>2. [death[p] EXCEPT !.issue = i, !.grade = g] \in Deaths
      BY <2>1 DEF Deaths
    <3>3. QED
      BY <3>1, <3>2 DEF TypeOK
  <2>3. CachesBehind' /\ \A w \in Workers : OpSound(w)'
    BY <1>1, <1>3, CachesStayBehind DEF Revise
  <2>4. left' \in [Budgets -> Nat]
    BY <1>3 DEF Revise, Spend, TypeOK, Budgets
  <2>5. QED
    BY <1>3, <2>2, <2>3, <2>4 DEF TypeOK, Revise, Notify
<1>4. ASSUME NEW p \in Pods, Clear(p) PROVE TypeOK'
  <2>1. CachesBehind' /\ \A w \in Workers : OpSound(w)'
    BY <1>1, <1>4, CachesStayBehind DEF Clear
  <2>2. QED
    BY <1>4, <2>1 DEF TypeOK, Clear, Notify
<1>5. ASSUME NEW i \in Issues, Forget(i) PROVE TypeOK'
  <2>1. CachesBehind' /\ \A w \in Workers : OpSound(w)'
    BY <1>1, <1>5, CachesStayBehind DEF Forget
  <2>2. left' \in [Budgets -> Nat]
    BY <1>5 DEF Forget, Spend, TypeOK, Budgets
  <2>3. QED
    BY <1>5, <2>1, <2>2 DEF TypeOK, Forget, LogGrows
<1>6. ASSUME NEW w \in Workers, NEW p \in Pods, Event(w, p) PROVE TypeOK'
  <2>1. CachesBehind' /\ \A v \in Workers : OpSound(v)'
    BY <1>1, <1>6, CachesStayBehind DEF Event
  <2>2. QED
    BY <1>6, <2>1 DEF TypeOK, Event
<1>7. ASSUME NEW w \in Workers, NEW i \in Issues, Sync(w, i) PROVE TypeOK'
  <2>1. seen[w][i] \in 1 .. Len(log[i]) /\ seen[w][i] # Len(log[i])
    BY <1>7, Reads DEF Sync, UpToDate
  <2>2. seen' = [seen EXCEPT ![w][i] = seen[w][i] + 1] /\ log' = log
    BY <1>7 DEF Sync
  <2>3. seen' \in [Workers -> [Issues -> Nat \ {0}]]
    BY <2>1, <2>2, Reads DEF TypeOK
  <2>4. CachesBehind'
    BY <2>1, <2>2, Reads DEF TypeOK, CachesBehind
  <2>5. \A v \in Workers : OpSound(v)'
    BY <1>1, <1>7 DEF Sync
  <2>6. QED
    BY <1>7, <2>3, <2>4, <2>5 DEF TypeOK, Sync
<1>8. QED
  BY <1>2, <1>3, <1>4, <1>5, <1>6, <1>7

\* Steps of upsertObituary.
LEMMA UpsertTypeOK ==
    ASSUME TypeOK, LogGrows, NEW w \in Workers, UpsertObituary(w)
    PROVE  TypeOK'
<1>1. /\ op[w].step # "idle"
      /\ UNCHANGED <<death, crashes, seen, spent, left, heals>>
      /\ lost' = lost \/ lost' = lost \cup {op[w].job}
  BY DEF UpsertObituary, Create, AlreadyExists, InitStatus, InitConflict, Lookup,
         Bump, BumpCounted, BumpConflict, BumpNotFound
<1>2. /\ op[w] \in Ops /\ op[w].job \in Deaths /\ op[w].job.issue \in Issues
  BY <1>1, JobTypes
<1>3. CachesBehind'
  BY <1>1, CachesStayBehind
<1>4. /\ op' \in [Workers -> Ops]
      /\ \A v \in Workers : OpSound(v)'
      /\ queue' \in [Workers -> SUBSET Pods]
  <2>1. CASE Requeue(w)
    BY <1>1, <2>1, RequeueTypes
  <2>2. CASE Create(w)
    <3>1. /\ Write(op[w].job.issue, Unset("Created"))
          /\ Move(w, "init", 0, Len(log[op[w].job.issue]) + 1, None)
          /\ UNCHANGED queue
      BY <2>2 DEF Create
    <3>2. Len(log'[op[w].job.issue]) = Len(log[op[w].job.issue]) + 1
      BY <1>2, <3>1, UnsetType, WriteGrows
    <3>3. Len(log[op[w].job.issue]) \in Nat
      BY <1>2, Reads
    <3>4. QED
      BY <1>1, <3>1, <3>2, <3>3, MoveTypes DEF Steps, TypeOK
  <2>3. CASE Goto(w, "heal") /\ UNCHANGED queue
    BY <1>1, <2>3, MoveTypes DEF Goto, Steps, TypeOK
  <2>4. CASE Lookup(w)
    BY <1>1, <2>4, MoveTypes DEF Lookup, Goto, Steps, TypeOK
  <2>5. CASE Move(w, "bump", op[w].tries + 1, 0, None) /\ UNCHANGED queue
    <3>1. op[w].tries + 1 \in Nat
      BY <1>2 DEF Ops
    <3>2. QED
      BY <1>1, <2>5, <3>1, MoveTypes DEF Steps, TypeOK
  <2>6. QED
    BY <2>1, <2>2, <2>3, <2>4, <2>5
    DEF UpsertObituary, AlreadyExists, InitStatus, InitConflict,
        Bump, BumpCounted, BumpConflict, BumpNotFound
<1>5. QED
  BY <1>1, <1>2, <1>3, <1>4 DEF TypeOK, LogGrows

\* Steps of MaybeHeal.
LEMMA HealTypeOK ==
    ASSUME TypeOK, LogGrows, NEW w \in Workers, MaybeHeal(w)
    PROVE  TypeOK'
<1>1. /\ op[w].step # "idle"
      /\ UNCHANGED <<death, crashes, seen, queue, lost>>
  BY DEF MaybeHeal, GateClosed, Skip, Act, Exec, AppendRecord, AppendConflict,
         AppendDropped
<1>2. /\ op[w] \in Ops /\ op[w].job \in Deaths /\ op[w].job.issue \in Issues
  BY <1>1, JobTypes
<1>3. CachesBehind'
  BY <1>1, CachesStayBehind
<1>4. CASE Done(w) /\ UNCHANGED <<spent, left, heals>>
  BY <1>1, <1>3, <1>4, DoneTypes DEF TypeOK, LogGrows
<1>5. CASE Skip(w)
  <2>1. op' \in [Workers -> Ops] /\ \A v \in Workers : OpSound(v)'
    BY <1>1, <1>5, MoveTypes DEF Skip, Steps, Outcomes
  <2>2. QED
    BY <1>1, <1>3, <1>5, <2>1 DEF Skip, TypeOK
<1>6. CASE Act(w)
  <2>1. /\ spent' = [spent EXCEPT ![w] = spent[w] + 1]
        /\ UNCHANGED <<log, left, heals>>
        /\ \/ Move(w, "note", 0, 0, "DryRun")
           \/ Move(w, "exec", 0, seen[w][op[w].job.issue], None)
    BY <1>6 DEF Act
  <2>2. seen[w][op[w].job.issue] \in 1 .. Len(log[op[w].job.issue])
    BY <1>2, Reads
  <2>3. op' \in [Workers -> Ops] /\ \A v \in Workers : OpSound(v)'
    <3>1. CASE Move(w, "note", 0, 0, "DryRun")
      BY <1>1, <3>1, MoveTypes DEF Steps, Outcomes
    <3>2. CASE Move(w, "exec", 0, seen[w][op[w].job.issue], None)
      BY <1>1, <2>1, <2>2, <3>2, MoveTypes DEF Steps
    <3>3. QED
      BY <2>1, <3>1, <3>2
  <2>4. spent' \in [Workers -> Nat]
    BY <2>1 DEF TypeOK
  <2>5. QED
    BY <1>1, <1>3, <2>1, <2>3, <2>4 DEF TypeOK
<1>7. CASE Exec(w)
  <2>1. PICK o \in {"Applied", "Failed"} : Move(w, "note", 0, 0, o)
    BY <1>7 DEF Exec
  <2>2. op' \in [Workers -> Ops] /\ \A v \in Workers : OpSound(v)'
    BY <1>1, <2>1, MoveTypes DEF Steps, Outcomes
  <2>3. heals' \in Seq(Heals)
    <3>1. op[w].base \in 1 .. Len(log[op[w].job.issue])
      BY <1>7 DEF Exec, TypeOK, OpSound
    <3>2. log[op[w].job.issue][op[w].base] \in Statuses
      BY <1>2, <3>1 DEF TypeOK
    <3> DEFINE h == [job |-> op[w].job, on |-> log[op[w].job.issue][op[w].base]]
    <3>3. h \in Heals
      BY <1>2, <3>2 DEF Heals
    <3>4. heals' = heals \/ heals' = Append(heals, h)
      BY <1>7 DEF Exec, Mutate
    <3>5. heals \in Seq(Heals)
      BY DEF TypeOK
    <3> HIDE DEF h
    <3>6. QED
      BY <3>3, <3>4, <3>5
  <2>4. left' \in [Budgets -> Nat]
    BY <1>7 DEF Exec, Spend, TypeOK, Budgets
  <2>5. QED
    BY <1>1, <1>3, <1>7, <2>2, <2>3, <2>4 DEF Exec, TypeOK
<1>8. CASE AppendConflict(w)
  <2>1. op[w].tries + 1 \in Nat /\ op[w].outcome \in Outcomes
    <3>1. op[w].step = "note"
      BY <1>8 DEF AppendConflict
    <3>2. op[w].outcome \in Outcomes
      BY <3>1 DEF TypeOK, OpSound
    <3>3. op[w].tries \in Nat
      BY <1>2 DEF Ops
    <3>4. QED
      BY <3>2, <3>3
  <2>2. op' \in [Workers -> Ops] /\ \A v \in Workers : OpSound(v)'
    BY <1>1, <1>8, <2>1, MoveTypes DEF AppendConflict, Steps
  <2>3. QED
    BY <1>1, <1>3, <1>8, <2>2 DEF AppendConflict, TypeOK
<1>9. QED
  BY <1>4, <1>5, <1>6, <1>7, <1>8
  DEF MaybeHeal, GateClosed, AppendRecord, AppendDropped

LEMMA NextTypeOK == ASSUME TypeOK, [Next]_vars PROVE TypeOK'
<1>1. LogGrows
  BY NextLogGrows
<1>2. ASSUME NEW w \in Workers, NEW p \in Pods, Dismiss(w, p) PROVE TypeOK'
  <2>1. CachesBehind' /\ \A v \in Workers : OpSound(v)'
    BY <1>1, <1>2, CachesStayBehind, OpStaysSound DEF Dismiss
  <2>2. QED
    BY <1>2, <2>1 DEF Dismiss, TypeOK
<1>3. ASSUME NEW w \in Workers, NEW p \in Pods, Examine(w, p) PROVE TypeOK'
  <2>1. CachesBehind' /\ \A v \in Workers \ {w} : OpSound(v)'
    BY <1>1, <1>3, CachesStayBehind, OpStaysSound DEF Examine, TypeOK
  <2>2. death[p] \in Deaths
    BY <1>3 DEF Examine, NewDeath, TypeOK
  <2>3. [Idle EXCEPT !.step = "upsert", !.job = death[p]] \in Ops
    BY <2>2, IdleType DEF Ops, Steps
  <2>4. op' \in [Workers -> Ops] /\ OpSound(w)'
    BY <1>3, <2>2, <2>3 DEF Examine, TypeOK, OpSound, Idle
  <2>5. QED
    BY <1>3, <2>1, <2>4 DEF Examine, TypeOK
<1>4. ASSUME NEW w \in Workers, RollOff(w) PROVE TypeOK'
  <2>1. CachesBehind' /\ \A v \in Workers : OpSound(v)'
    BY <1>1, <1>4, CachesStayBehind, OpStaysSound DEF RollOff
  <2>2. spent' \in [Workers -> Nat]
    BY <1>4 DEF RollOff, TypeOK
  <2>3. QED
    BY <1>4, <2>1, <2>2 DEF RollOff, TypeOK
<1>5. ASSUME NEW w \in Workers, ApiError(w) PROVE TypeOK'
  <2>1. op[w].step # "idle"
    BY <1>5, AttemptedType DEF ApiError
  <2>2. /\ op' \in [Workers -> Ops]
        /\ \A v \in Workers : OpSound(v)'
        /\ queue' \in [Workers -> SUBSET Pods]
    BY <1>1, <1>5, <2>1, DoneTypes, RequeueTypes DEF ApiError, TypeOK
  <2>3. CachesBehind' /\ left' \in [Budgets -> Nat]
    BY <1>1, <1>5, CachesStayBehind DEF ApiError, Spend, TypeOK, Budgets
  <2>4. QED
    BY <1>1, <1>5, <2>2, <2>3 DEF ApiError, TypeOK, LogGrows
<1>6. ASSUME NEW w \in Workers, Restart(w) PROVE TypeOK'
  <2>1. op' \in [Workers -> Ops] /\ \A v \in Workers : OpSound(v)'
    BY <1>1, <1>6, DoneTypes DEF Restart
  <2>2. \A i \in Issues : Len(log[i]) \in Nat \ {0}
    BY Reads
  <2>3. seen' \in [Workers -> [Issues -> Nat \ {0}]] /\ CachesBehind'
    BY <1>6, <2>2 DEF Restart, TypeOK, CachesBehind
  <2>4. left' \in [Budgets -> Nat]
    BY <1>6 DEF Restart, Spend, TypeOK, Budgets
  <2>5. QED
    BY <1>6, <2>1, <2>3, <2>4 DEF Restart, TypeOK
<1>7. CASE UNCHANGED vars
  <2>1. CachesBehind' /\ \A v \in Workers : OpSound(v)'
    BY <1>1, <1>7, CachesStayBehind, OpStaysSound DEF vars
  <2>2. QED
    BY <1>7, <2>1 DEF vars, TypeOK
<1>8. QED
  BY <1>1, <1>2, <1>3, <1>4, <1>5, <1>6, <1>7,
     EnvironmentTypeOK, UpsertTypeOK, HealTypeOK
  DEF Next

\* Every variable keeps its type, every cache holds a version that exists, and
\* every step of a reconcile finds the death, version or outcome it works on.
THEOREM TypeCorrect == Spec => []TypeOK
BY InitTypeOK, NextTypeOK, PTL DEF Spec

-----------------------------------------------------------------------------
(***************************************************************************)
(* No death is orphaned.  NoOrphanDeath is not inductive: when a reconcile *)
(* ends after its heal phase, the death it held leaves the agenda, so the  *)
(* invariant must say that a reconcile reaches that phase only with its    *)
(* death recorded or lost to AlreadyExists (HealAccounted); and when it    *)
(* ends with an error, that the pod it puts back is the pod of that death  *)
(* (OwnDeaths).                                                            *)
(***************************************************************************)

\* Recorded, of a given log.
RecordedIn(lg, d) ==
    \E k \in 1 .. Len(lg[d.issue]) : lg[d.issue][k].lastEpisode = Episode(d)

HealSteps == {"heal", "exec", "note"}

HealAccounted ==
    \A w \in Workers :
        op[w].step \in HealSteps => RecordedIn(log, op[w].job) \/ op[w].job \in lost

OwnDeaths == \A p \in Pods : death[p] # None => death[p].pod = p

OrphanInv == TypeOK /\ NoOrphanDeath /\ HealAccounted /\ OwnDeaths

LEMMA RecordsStay ==
    ASSUME TypeOK, LogGrows, NEW d \in Deaths, RecordedIn(log, d)
    PROVE  RecordedIn(log', d)
<1>1. d.issue \in Issues
  BY DEF Deaths
<1>2. Len(log[d.issue]) \in Nat /\ Len(log'[d.issue]) \in Nat
  BY <1>1 DEF TypeOK, LogGrows
<1>3. QED
  BY <1>1, <1>2 DEF RecordedIn, LogGrows

\* An obituary read from the cache with this episode is a record of the death,
\* and so is one just written with it.
LEMMA CountedIsRecorded ==
    ASSUME TypeOK, NEW w \in Workers, NEW d \in Deaths, Counted(Cached(w, d.issue), d)
    PROVE  RecordedIn(log, d)
BY Reads DEF Counted, Cached, RecordedIn, Deaths

LEMMA WrittenIsRecorded ==
    ASSUME TypeOK, NEW d \in Deaths, NEW s \in Statuses,
           s.lastEpisode = Episode(d), Write(d.issue, s)
    PROVE  RecordedIn(log', d)
<1>1. d.issue \in Issues
  BY DEF Deaths
<1>2. /\ Len(log[d.issue]) \in Nat
      /\ Len(log'[d.issue]) = Len(log[d.issue]) + 1
      /\ log'[d.issue][Len(log[d.issue]) + 1] = s
  BY <1>1, Reads, WriteGrows
<1>3. QED
  BY <1>2 DEF RecordedIn

LEMMA NoOrphanRestated ==
    NoOrphanDeath <=>
        \A p \in Pods : death[p] # None =>
            \/ RecordedIn(log, death[p])
            \/ death[p] \in lost
            \/ \E w \in Workers : p \in queue[w] \/ op[w].job = death[p]
BY DEF NoOrphanDeath, Recorded, RecordedIn, OnAgenda

\* A step of worker w accounts for a death it takes into its heal phase.
LEMMA KeepsAccount ==
    ASSUME TypeOK, LogGrows, HealAccounted, lost \subseteq lost',
           NEW w \in Workers,
           \A v \in Workers \ {w} : op'[v] = op[v],
           op'[w].step \in HealSteps =>
               RecordedIn(log', op'[w].job) \/ op'[w].job \in lost'
    PROVE  HealAccounted'
<1>1. ASSUME NEW v \in Workers \ {w}, op'[v].step \in HealSteps
      PROVE  RecordedIn(log', op'[v].job) \/ op'[v].job \in lost'
  <2>1. op'[v] = op[v] /\ op[v].step # "idle"
    BY <1>1 DEF HealSteps
  <2>2. op[v].job \in Deaths
    BY <2>1, JobTypes
  <2>3. RecordedIn(log, op[v].job) \/ op[v].job \in lost
    BY <1>1, <2>1 DEF HealAccounted
  <2>4. RecordedIn(log, op[v].job) => RecordedIn(log', op[v].job)
    BY <2>2, RecordsStay
  <2>5. QED
    BY <2>1, <2>3, <2>4
<1>2. QED
  BY <1>1 DEF HealAccounted

\* A step of worker w that ends or goes on with the death it has in hand leaves
\* that death in hand, on its queue, recorded or lost.
LEMMA KeepsAgenda ==
    ASSUME TypeOK, LogGrows, NoOrphanDeath, lost \subseteq lost', death' = death,
           NEW w \in Workers,
           \A v \in Workers : queue[v] \subseteq queue'[v],
           \A v \in Workers \ {w} : op'[v] = op[v],
           \A p \in Pods : death[p] # None /\ op[w].job = death[p] =>
               \/ op'[w].job = op[w].job
               \/ p \in queue'[w]
               \/ RecordedIn(log', op[w].job)
               \/ op[w].job \in lost'
    PROVE  NoOrphanDeath'
<1>1. SUFFICES ASSUME NEW p \in Pods, death[p] # None
               PROVE  \/ RecordedIn(log', death[p])
                      \/ death[p] \in lost'
                      \/ \E v \in Workers : p \in queue'[v] \/ op'[v].job = death[p]
  BY DEF NoOrphanDeath, Recorded, RecordedIn, OnAgenda
<1>2. death[p] \in Deaths
  BY <1>1 DEF TypeOK
<1>3. CASE RecordedIn(log, death[p])
  BY <1>2, <1>3, RecordsStay
<1>4. CASE death[p] \in lost
  BY <1>4
<1>5. ASSUME NEW v \in Workers, p \in queue[v] \/ op[v].job = death[p]
      PROVE  \/ RecordedIn(log', death[p])
             \/ death[p] \in lost'
             \/ p \in queue'[v]
             \/ op'[v].job = death[p]
  BY <1>1, <1>5
<1>6. QED
  BY <1>1, <1>3, <1>4, <1>5, NoOrphanRestated

\* Pods that die, change or recover are put on every queue, and there is one.
LEMMA PodStepKeeps ==
    ASSUME OrphanInv, TypeOK', NEW p \in Pods, Die(p) \/ JobFails(p) \/ Revise(p) \/ Clear(p)
    PROVE  OrphanInv'
<1>1. /\ queue' = [w \in Workers |-> queue[w] \cup {p}]
      /\ UNCHANGED <<log, op, lost>>
      /\ \A q \in Pods \ {p} : death'[q] = death[q]
  BY DEF Die, JobFails, Dies, Revise, Clear, Notify, OrphanInv, TypeOK
<1>2. NoOrphanDeath'
  <2>1. SUFFICES ASSUME NEW q \in Pods, death'[q] # None
                 PROVE  \/ RecordedIn(log, death'[q])
                        \/ death'[q] \in lost
                        \/ \E w \in Workers : q \in queue'[w] \/ op[w].job = death'[q]
    BY <1>1 DEF NoOrphanDeath, Recorded, RecordedIn, OnAgenda
  <2>2. CASE q = p
    BY <1>1, <2>2, ConfigAssumption
  <2>3. CASE q # p
    <3>1. death'[q] = death[q]
      BY <1>1, <2>3
    <3>2. \A w \in Workers : queue[w] \subseteq queue'[w]
      BY <1>1 DEF OrphanInv, TypeOK
    <3>3. QED
      BY <2>1, <3>1, <3>2, NoOrphanRestated DEF OrphanInv
  <2>4. QED
    BY <2>2, <2>3
<1>3. HealAccounted'
  BY <1>1 DEF OrphanInv, HealAccounted
<1>4. OwnDeaths'
  <2>1. death'[p] # None => death'[p].pod = p
    <3>1. CASE Die(p) \/ JobFails(p)
      BY <3>1 DEF Die, JobFails, Dies, OrphanInv, TypeOK
    <3>2. CASE Revise(p)
      <4>1. death[p] \in Deaths /\ death[p].pod = p
        BY <3>2 DEF Revise, OrphanInv, OwnDeaths, TypeOK
      <4>2. PICK i \in Issues, g \in Grades :
               death' = [death EXCEPT ![p] = [death[p] EXCEPT !.issue = i, !.grade = g]]
        BY <3>2 DEF Revise
      <4>3. death'[p] = [death[p] EXCEPT !.issue = i, !.grade = g]
        BY <4>2 DEF OrphanInv, TypeOK
      <4>4. QED
        BY <4>1, <4>3 DEF Deaths
    <3>3. CASE Clear(p)
      BY <3>3 DEF Clear, OrphanInv, TypeOK
    <3>4. QED
      BY <3>1, <3>2, <3>3
  <2>2. QED
    BY <1>1, <2>1 DEF OrphanInv, OwnDeaths
<1>5. QED
  BY <1>2, <1>3, <1>4 DEF OrphanInv

\* Steps that take nothing off a queue and out of nobody's hands.
LEMMA QuietStepKeeps ==
    ASSUME OrphanInv, TypeOK', LogGrows, UNCHANGED <<death, op, lost>>,
           \A w \in Workers : queue[w] \subseteq queue'[w]
    PROVE  OrphanInv'
<1>1. PICK w \in Workers : TRUE
  BY ConfigAssumption
<1>2. NoOrphanDeath'
  BY <1>1, KeepsAgenda DEF OrphanInv
<1>3. HealAccounted'
  <2>1. op[w].step \in HealSteps =>
            RecordedIn(log', op[w].job) \/ op[w].job \in lost
    BY JobTypes, RecordsStay DEF OrphanInv, HealAccounted, HealSteps
  <2>2. QED
    BY <2>1, KeepsAccount DEF OrphanInv
<1>4. QED
  BY <1>2, <1>3 DEF OrphanInv, OwnDeaths

\* Reconcile drops a pod without a new death, and takes up one with.
LEMMA DismissKeeps ==
    ASSUME OrphanInv, TypeOK', NEW w \in Workers, NEW p \in Pods, Dismiss(w, p)
    PROVE  OrphanInv'
<1>1. /\ queue' = [queue EXCEPT ![w] = queue[w] \ {p}]
      /\ UNCHANGED <<death, log, op, lost>>
      /\ ~NewDeath(w, p)
  BY DEF Dismiss
<1>2. NoOrphanDeath'
  <2>1. SUFFICES ASSUME NEW q \in Pods, death[q] # None
                 PROVE  \/ RecordedIn(log, death[q])
                        \/ death[q] \in lost
                        \/ \E v \in Workers : q \in queue'[v] \/ op[v].job = death[q]
    BY <1>1 DEF NoOrphanDeath, Recorded, RecordedIn, OnAgenda
  <2>2. CASE q = p
    <3>1. death[p] \in Deaths /\ Counted(Cached(w, death[p].issue), death[p])
      BY <1>1, <2>1, <2>2 DEF NewDeath, OrphanInv, TypeOK
    <3>2. QED
      BY <2>2, <3>1, CountedIsRecorded DEF OrphanInv
  <2>3. CASE q # p
    <3>1. \A v \in Workers : q \in queue[v] => q \in queue'[v]
      BY <1>1, <2>3 DEF OrphanInv, TypeOK
    <3>2. QED
      BY <2>1, <3>1, NoOrphanRestated DEF OrphanInv
  <2>4. QED
    BY <2>2, <2>3
<1>3. QED
  BY <1>1, <1>2 DEF OrphanInv, HealAccounted, OwnDeaths

LEMMA ExamineKeeps ==
    ASSUME OrphanInv, TypeOK', NEW w \in Workers, NEW p \in Pods, Examine(w, p)
    PROVE  OrphanInv'
<1>1. /\ queue' = [queue EXCEPT ![w] = queue[w] \ {p}]
      /\ op[w].step = "idle"
      /\ op' = [op EXCEPT ![w] = [Idle EXCEPT !.step = "upsert", !.job = death[p]]]
      /\ UNCHANGED <<death, log, lost>>
  BY DEF Examine
<1>2. /\ op[w].job = None
      /\ op'[w].step = "upsert" /\ op'[w].job = death[p]
      /\ \A v \in Workers \ {w} : op'[v] = op[v]
  BY <1>1 DEF OrphanInv, TypeOK, OpSound, Idle
<1>3. NoOrphanDeath'
  <2>1. SUFFICES ASSUME NEW q \in Pods, death[q] # None
                 PROVE  \/ RecordedIn(log, death[q])
                        \/ death[q] \in lost
                        \/ \E v \in Workers : q \in queue'[v] \/ op'[v].job = death[q]
    BY <1>1 DEF NoOrphanDeath, Recorded, RecordedIn, OnAgenda
  <2>2. CASE q = p
    BY <1>2, <2>2
  <2>3. CASE q # p
    <3>1. \A v \in Workers : q \in queue[v] => q \in queue'[v]
      BY <1>1, <2>3 DEF OrphanInv, TypeOK
    <3>2. \A v \in Workers : op[v].job = death[q] => op'[v].job = death[q]
      BY <1>2, <2>1
    <3>3. QED
      BY <2>1, <3>1, <3>2, NoOrphanRestated DEF OrphanInv
  <2>4. QED
    BY <2>2, <2>3
<1>4. HealAccounted'
  BY <1>1, <1>2 DEF OrphanInv, HealAccounted, HealSteps
<1>5. QED
  BY <1>1, <1>3, <1>4 DEF OrphanInv, OwnDeaths

\* upsertObituary ends with the death counted, with AlreadyExists, or with an
\* error that puts the pod back.
LEMMA UpsertKeeps ==
    ASSUME OrphanInv, TypeOK', LogGrows, NEW w \in Workers, UpsertObituary(w)
    PROVE  OrphanInv'
<1>1. /\ op[w].step # "idle" /\ op[w].step \notin HealSteps
      /\ UNCHANGED death
      /\ lost \subseteq lost'
  BY DEF UpsertObituary, Create, AlreadyExists, InitStatus, InitConflict, Lookup,
         Bump, BumpCounted, BumpConflict, BumpNotFound, HealSteps
<1>2. /\ TypeOK /\ op[w].job \in Deaths /\ op[w].job.issue \in Issues
  BY <1>1, JobTypes DEF OrphanInv
<1>3. CASE Requeue(w)
  <2>1. /\ \A v \in Workers : queue[v] \subseteq queue'[v]
        /\ op[w].job.pod \in queue'[w]
        /\ \A v \in Workers \ {w} : op'[v] = op[v]
        /\ op'[w].step = "idle"
    BY <1>2, <1>3 DEF Requeue, Done, Idle, TypeOK
  <2>2. NoOrphanDeath'
    BY <1>1, <1>2, <2>1, KeepsAgenda DEF OrphanInv, OwnDeaths
  <2>3. HealAccounted'
    BY <1>1, <1>2, <2>1, KeepsAccount DEF OrphanInv, HealSteps
  <2>4. QED
    BY <1>1, <2>2, <2>3 DEF OrphanInv, OwnDeaths
<1>4. ASSUME NEW st \in Steps, NEW n, NEW b, NEW o, Move(w, st, n, b, o), UNCHANGED queue,
             st \in HealSteps => RecordedIn(log', op[w].job) \/ op[w].job \in lost'
      PROVE  OrphanInv'
  <2>1. /\ op'[w].job = op[w].job /\ op'[w].step = st
        /\ \A v \in Workers \ {w} : op'[v] = op[v]
    BY <1>2, <1>4 DEF Move, TypeOK
  <2>2. NoOrphanDeath'
    BY <1>1, <1>2, <1>4, <2>1, KeepsAgenda DEF OrphanInv
  <2>3. HealAccounted'
    BY <1>1, <1>2, <1>4, <2>1, KeepsAccount DEF OrphanInv
  <2>4. QED
    BY <1>1, <2>2, <2>3 DEF OrphanInv, OwnDeaths
<1>5. CASE Create(w)
  BY <1>4, <1>5 DEF Create, Steps, HealSteps
<1>6. CASE AlreadyExists(w)
  BY <1>4, <1>6 DEF AlreadyExists, Goto, Steps
<1>7. CASE InitStatus(w)
  <2>1. RecordedIn(log', op[w].job)
    BY <1>2, <1>7, FirstStatusType, WrittenIsRecorded DEF InitStatus
  <2>2. QED
    BY <1>4, <1>7, <2>1 DEF InitStatus, Goto, Steps
<1>8. CASE Lookup(w)
  <2>1. CASE Counted(Cached(w, op[w].job.issue), op[w].job)
    <3>1. RecordedIn(log', op[w].job)
      BY <1>2, <1>8, <2>1, CountedIsRecorded DEF Lookup
    <3>2. QED
      BY <1>4, <1>8, <2>1, <3>1 DEF Lookup, Goto, Steps
  <2>2. CASE ~Counted(Cached(w, op[w].job.issue), op[w].job)
    BY <1>4, <1>8, <2>2 DEF Lookup, Goto, Steps, HealSteps
  <2>3. QED
    BY <2>1, <2>2
<1>9. CASE Bump(w)
  <2> DEFINE s == Bumped(Cached(w, op[w].job.issue), op[w].job)
  <2>1. s \in Statuses /\ s.lastEpisode = Episode(op[w].job)
    BY <1>2, Reads, BumpedType
  <2>2. Write(op[w].job.issue, s) /\ Goto(w, "heal") /\ UNCHANGED queue
    BY <1>9 DEF Bump
  <2> HIDE DEF s
  <2>3. RecordedIn(log', op[w].job)
    BY <1>2, <2>1, <2>2, WrittenIsRecorded
  <2>4. QED
    BY <1>4, <2>2, <2>3 DEF Goto, Steps
<1>10. CASE BumpCounted(w)
  <2>1. RecordedIn(log', op[w].job)
    BY <1>2, <1>10, CountedIsRecorded DEF BumpCounted
  <2>2. QED
    BY <1>4, <1>10, <2>1 DEF BumpCounted, Goto, Steps
<1>11. CASE BumpConflict(w)
  BY <1>3, <1>4, <1>11 DEF BumpConflict, Steps, HealSteps
<1>12. QED
  BY <1>3, <1>5, <1>6, <1>7, <1>8, <1>9, <1>10, <1>11
  DEF UpsertObituary, InitConflict, BumpNotFound

\* A worker that is done with a death it has accounted for, or that goes on with
\* it within the heal phase.
LEMMA HealPhaseKeeps ==
    ASSUME OrphanInv, TypeOK', LogGrows, NEW w \in Workers,
           op[w].step \in HealSteps, UNCHANGED <<death, queue, lost>>,
           \/ Done(w)
           \/ \E st, n, b, o : Move(w, st, n, b, o)
    PROVE  OrphanInv'
<1>1. TypeOK /\ op[w].job \in Deaths
  BY JobTypes DEF OrphanInv, HealSteps
<1>2. RecordedIn(log', op[w].job) \/ op[w].job \in lost'
  BY <1>1, RecordsStay DEF OrphanInv, HealAccounted
<1>3. /\ op'[w].job = op[w].job \/ op'[w].step = "idle"
      /\ \A v \in Workers \ {w} : op'[v] = op[v]
  BY <1>1 DEF Done, Move, Idle, TypeOK
<1>4. NoOrphanDeath'
  BY <1>1, <1>2, <1>3, KeepsAgenda DEF OrphanInv
<1>5. HealAccounted'
  BY <1>1, <1>2, <1>3, KeepsAccount DEF OrphanInv, HealSteps
<1>6. QED
  BY <1>4, <1>5 DEF OrphanInv, OwnDeaths

LEMMA HealKeeps ==
    ASSUME OrphanInv, TypeOK', LogGrows, NEW w \in Workers, MaybeHeal(w)
    PROVE  OrphanInv'
<1>1. op[w].step \in HealSteps /\ UNCHANGED <<death, queue, lost>>
  BY DEF MaybeHeal, GateClosed, Skip, Act, Exec, AppendRecord, AppendConflict,
         AppendDropped, HealSteps
<1>2. Done(w) \/ \E st, n, b, o : Move(w, st, n, b, o)
  BY DEF MaybeHeal, GateClosed, Skip, Act, Exec, AppendRecord, AppendConflict,
         AppendDropped
<1>3. QED
  BY <1>1, <1>2, HealPhaseKeeps

\* A failed call puts the pod back, unless all that failed was the heal record.
LEMMA ApiErrorKeeps ==
    ASSUME OrphanInv, TypeOK', LogGrows, NEW w \in Workers, ApiError(w)
    PROVE  OrphanInv'
<1>1. /\ TypeOK /\ op[w].step # "idle" /\ op[w].job \in Deaths
      /\ UNCHANGED <<death, lost>>
  BY AttemptedType, JobTypes DEF ApiError, OrphanInv
<1>2. CASE op[w].step = "note"
  BY <1>1, <1>2, HealPhaseKeeps DEF ApiError, HealSteps
<1>3. CASE op[w].step # "note"
  <2>1. Requeue(w)
    BY <1>3 DEF ApiError
  <2>2. /\ \A v \in Workers : queue[v] \subseteq queue'[v]
        /\ op[w].job.pod \in queue'[w]
        /\ \A v \in Workers \ {w} : op'[v] = op[v]
        /\ op'[w].step = "idle"
    BY <1>1, <2>1 DEF Requeue, Done, Idle, TypeOK
  <2>3. NoOrphanDeath'
    BY <1>1, <2>2, KeepsAgenda DEF OrphanInv, OwnDeaths
  <2>4. HealAccounted'
    BY <1>1, <2>2, KeepsAccount DEF OrphanInv, HealSteps
  <2>5. QED
    BY <1>1, <2>3, <2>4 DEF OrphanInv, OwnDeaths
<1>4. QED
  BY <1>2, <1>3

\* A restarted operator lists every pod again.
LEMMA RestartKeeps ==
    ASSUME OrphanInv, TypeOK', LogGrows, NEW w \in Workers, Restart(w)
    PROVE  OrphanInv'
<1>1. /\ TypeOK /\ UNCHANGED <<death, lost>>
      /\ queue'[w] = Pods
      /\ \A v \in Workers : queue[v] \subseteq queue'[v]
      /\ \A v \in Workers \ {w} : op'[v] = op[v]
      /\ op'[w].step = "idle"
  BY DEF Restart, Done, Idle, OrphanInv, TypeOK
<1>2. NoOrphanDeath'
  BY <1>1, KeepsAgenda DEF OrphanInv
<1>3. HealAccounted'
  BY <1>1, KeepsAccount DEF OrphanInv, HealSteps
<1>4. QED
  BY <1>1, <1>2, <1>3 DEF OrphanInv, OwnDeaths

LEMMA InitOrphanInv == Init => OrphanInv
BY InitTypeOK
DEF Init, OrphanInv, NoOrphanDeath, HealAccounted, HealSteps, OwnDeaths, Idle

LEMMA NextOrphanInv == ASSUME OrphanInv, [Next]_vars PROVE OrphanInv'
<1>1. TypeOK' /\ LogGrows
  BY NextTypeOK, NextLogGrows DEF OrphanInv
<1>2. \/ \E p \in Pods : Die(p) \/ JobFails(p) \/ Revise(p) \/ Clear(p)
      \/ UNCHANGED <<death, op, lost>> /\ \A w \in Workers : queue[w] \subseteq queue'[w]
      \/ \E w \in Workers :
            \/ \E p \in Pods : Dismiss(w, p) \/ Examine(w, p)
            \/ UpsertObituary(w) \/ MaybeHeal(w) \/ ApiError(w) \/ Restart(w)
  <2>1. ASSUME NEW w \in Workers, NEW p \in Pods, Event(w, p)
        PROVE  UNCHANGED <<death, op, lost>> /\ \A v \in Workers : queue[v] \subseteq queue'[v]
    BY <2>1 DEF Event, OrphanInv, TypeOK
  <2>2. QED
    BY <2>1 DEF Next, vars, Forget, Sync, RollOff
<1>3. QED
  BY <1>1, <1>2, PodStepKeeps, QuietStepKeeps, DismissKeeps, ExamineKeeps,
     UpsertKeeps, HealKeeps, ApiErrorKeeps, RestartKeeps

\* No death is orphaned: whatever fails, conflicts, restarts or is deleted, a
\* death the cluster shows is recorded, is on some operator's agenda, or is one
\* that a Create lost to AlreadyExists.
THEOREM DeathsNotOrphaned == Spec => []NoOrphanDeath
<1>1. OrphanInv => NoOrphanDeath
  BY DEF OrphanInv
<1>2. QED
  BY <1>1, InitOrphanInv, NextOrphanInv, PTL DEF Spec
=============================================================================
