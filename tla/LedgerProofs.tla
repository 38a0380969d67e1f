---------------------------- MODULE LedgerProofs ----------------------------
(***************************************************************************)
(* The reconcilers implement the atomic ledger: each of their steps either *)
(* leaves the server's obituaries alone or is one step of IssueLedger.     *)
(*                                                                         *)
(* The argument needs two facts beyond types.  InitStatus writes a status  *)
(* without having read one, so it counts correctly only because the        *)
(* version it was given is the empty one Create made (InitBase).  And the  *)
(* bump asks whether FirstSeen is set where the ledger asks whether        *)
(* anything was counted (FirstSeenSound).                                  *)
(***************************************************************************)
EXTENDS ReconcilerProofs

Sighted(s) == s.occurrences = 0 <=> s.firstSeen = None

FirstSeenSound ==
    \A i \in Issues : \A k \in 1 .. Len(log[i]) : Sighted(log[i][k])

InitBase ==
    \A w \in Workers :
        op[w].step = "init" => log[op[w].job.issue][op[w].base] = Unset("Created")

LedgerInv == TypeOK /\ FirstSeenSound /\ InitBase

\* The refinement mapping.
Mapped == [i \in Issues |-> Latest(i)]

LEMMA EpisodeSet == ASSUME NEW d \in Deaths PROVE Episode(d) # None
BY EpisodeType, NoneAssumption

\* The fields of the statuses written.
LEMMA UnsetFields ==
    ASSUME NEW ph
    PROVE  /\ Unset(ph).phase = ph
           /\ Unset(ph).occurrences = 0 /\ Unset(ph).firstSeen = None
           /\ Unset(ph).lastEpisode = None
BY DEF Unset

LEMMA AttemptedSighted ==
    ASSUME LedgerInv, NEW w \in Workers, Calling(w)
    PROVE  Sighted(Attempted(w))
<1> DEFINE d == op[w].job
           s == Cached(w, d.issue)
<1>1. /\ TypeOK /\ op[w].step \in {"upsert", "init", "bump", "note"}
  BY DEF LedgerInv, Calling
<1>2. d \in Deaths /\ d.issue \in Issues /\ Episode(d) # None
  BY <1>1, JobTypes, EpisodeSet
<1>3. s \in Statuses /\ Sighted(s)
  BY <1>1, <1>2, Reads DEF LedgerInv, FirstSeenSound, Cached
<1>4. CASE op[w].step = "upsert"
  BY <1>4, UnsetFields DEF Attempted, Sighted
<1>5. CASE op[w].step = "init"
  BY <1>2, <1>5 DEF Attempted, Sighted, FirstStatus, BuildStatus
<1>6. CASE op[w].step = "bump"
  <2>1. Attempted(w) = Bumped(s, d)
    BY <1>6 DEF Attempted
  <2>2. /\ Bumped(s, d).occurrences = s.occurrences + 1
        /\ Bumped(s, d).firstSeen = IF s.firstSeen = None THEN Episode(d) ELSE s.firstSeen
    BY DEF Bumped, BuildStatus
  <2>3. s.occurrences \in Nat
    BY <1>3 DEF Statuses
  <2>4. QED
    BY <1>2, <2>1, <2>2, <2>3 DEF Sighted
<1>7. CASE op[w].step = "note"
  <2>1. Attempted(w) = Noted(s, op[w].outcome)
    BY <1>7 DEF Attempted
  <2>2. /\ Noted(s, op[w].outcome).occurrences = s.occurrences
        /\ Noted(s, op[w].outcome).firstSeen = s.firstSeen
    BY <1>3 DEF Noted, Statuses
  <2>3. QED
    BY <1>3, <2>1, <2>2 DEF Sighted
<1>8. QED
  BY <1>1, <1>4, <1>5, <1>6, <1>7

\* A write to issue i is an update of its ledger entry.
LEMMA WriteMaps ==
    ASSUME TypeOK, NEW i \in Issues, NEW s \in Statuses, Write(i, s)
    PROVE  Ledger!Becomes(i, s)
<1>1. /\ Len(log'[i]) = Len(log[i]) + 1
      /\ log'[i][Len(log[i]) + 1] = s
      /\ \A j \in Issues \ {i} : log'[j] = log[j]
  BY WriteGrows
<1>2. Latest(i)' = s /\ \A j \in Issues \ {i} : Latest(j)' = Latest(j)
  BY <1>1 DEF Latest
<1>3. QED
  BY <1>2 DEF Ledger!Becomes

\* A write that adds one to the count of the newest version is a ledger count.
LEMMA CountMaps ==
    ASSUME TypeOK, NEW i \in Issues, NEW d \in Deaths,
           Latest(i).phase # "Absent", Latest(i).lastEpisode # Episode(d),
           NEW first \in Episodes \cup {None},
           first = IF Latest(i).occurrences = 0 THEN Episode(d) ELSE Latest(i).firstSeen,
           Write(i, BuildStatus(d, Latest(i).occurrences + 1, first))
    PROVE  Ledger!Count(i)
<1> DEFINE s == BuildStatus(d, Latest(i).occurrences + 1, first)
           old == Mapped[i]
           new == Mapped'[i]
<1>1. Latest(i).occurrences + 1 \in Nat
  BY Reads DEF Statuses
<1>2. s \in Statuses /\ s.lastEpisode = Episode(d) /\ s.confidence = d.grade
  BY <1>1, BuildStatusType DEF BuildStatus
<1>3. /\ Len(log'[i]) = Len(log[i]) + 1
      /\ log'[i][Len(log[i]) + 1] = s
  BY <1>2, WriteGrows
<1>4. old = Latest(i) /\ new = s
  BY <1>3 DEF Mapped, Latest
<1>5. Ledger!Becomes(i, s)
  BY <1>2, WriteMaps
<1>6. /\ old.phase # "Absent"
      /\ new.lastEpisode \in Episodes \ {old.lastEpisode}
      /\ new.confidence \in Grades
  BY <1>2, <1>4, EpisodeType DEF Deaths
<1>7. s = [phase        |-> "Complete",
           occurrences  |-> old.occurrences + 1,
           firstSeen    |-> IF old.occurrences = 0 THEN new.lastEpisode ELSE old.firstSeen,
           lastEpisode  |-> new.lastEpisode,
           confidence   |-> new.confidence,
           healAttempts |-> << >>]
  <2>1. first = IF old.occurrences = 0 THEN new.lastEpisode ELSE old.firstSeen
    BY <1>2, <1>4
  <2>2. QED
    BY <1>2, <1>4, <2>1 DEF BuildStatus
<1> HIDE DEF s
<1>8. QED
  BY <1>5, <1>6, <1>7 DEF Ledger!Count, Ledger!Episodes, Episodes, Mapped

\* What a call writes, the ledger can do in one step: its version check stands
\* in for the lock the operators do not have.
LEMMA CallMaps ==
    ASSUME LedgerInv, NEW w \in Workers, Calling(w),
           Write(op[w].job.issue, Attempted(w))
    PROVE  Ledger!LedgerNext
<1>1. PICK d \in Deaths : d = op[w].job
  BY AttemptedType, JobTypes DEF LedgerInv
<1>2. PICK i \in Issues : i = d.issue
  BY DEF Deaths
<1>3. PICK s \in Statuses : s = Cached(w, i)
  BY Reads DEF LedgerInv
<1>4. /\ TypeOK /\ op[w].step \in {"upsert", "init", "bump", "note"}
      /\ Attempted(w) \in Statuses
      /\ Write(i, Attempted(w))
  BY <1>1, <1>2, AttemptedType DEF LedgerInv, Calling
<1>5. Latest(i) \in Statuses /\ Sighted(Latest(i))
  BY <1>4, Reads DEF LedgerInv, FirstSeenSound, Latest
<1>6. Episode(d) # None /\ Episode(d) \in Episodes
  BY EpisodeSet, EpisodeType
<1>7. CASE op[w].step = "upsert"
  <2>1. Latest(i).phase = "Absent" /\ Attempted(w) = Unset("Created")
    BY <1>1, <1>2, <1>7 DEF Calling, Attempted
  <2>2. Ledger!Becomes(i, Unset("Created"))
    BY <1>4, <2>1, WriteMaps
  <2>3. Ledger!Open(i)
    BY <2>1, <2>2 DEF Ledger!Open, Ledger!Unset, Unset
  <2>4. QED
    BY <2>3 DEF Ledger!LedgerNext
<1>8. CASE op[w].step = "init"
  <2>1. Latest(i) = Unset("Created") /\ Attempted(w) = FirstStatus(d)
    BY <1>1, <1>2, <1>8 DEF LedgerInv, InitBase, Calling, Attempted, Latest
  <2>2. /\ Latest(i).phase = "Created" /\ Latest(i).occurrences = 0
        /\ Latest(i).lastEpisode = None
    BY <2>1, UnsetFields
  <2>3. Write(i, BuildStatus(d, Latest(i).occurrences + 1, Episode(d)))
    BY <1>4, <2>1, <2>2 DEF FirstStatus
  <2>4. Ledger!Count(i)
    BY <1>4, <1>6, <2>2, <2>3, CountMaps
  <2>5. QED
    BY <2>4 DEF Ledger!LedgerNext
<1>9. CASE op[w].step = "bump"
  <2>1. /\ Latest(i) = s /\ Attempted(w) = Bumped(s, d)
        /\ s.phase # "Absent" /\ s.lastEpisode # Episode(d)
    BY <1>1, <1>2, <1>3, <1>9 DEF Calling, Attempted, Latest, Cached, UpToDate, Counted
  <2> DEFINE first == IF s.firstSeen = None THEN Episode(d) ELSE s.firstSeen
  <2>2. /\ first \in Episodes \cup {None}
        /\ first = IF Latest(i).occurrences = 0 THEN Episode(d) ELSE Latest(i).firstSeen
    BY <1>5, <1>6, <2>1 DEF Sighted, Statuses
  <2>3. Write(i, BuildStatus(d, Latest(i).occurrences + 1, first))
    BY <1>4, <2>1 DEF Bumped
  <2> HIDE DEF first
  <2>4. Ledger!Count(i)
    BY <1>4, <2>1, <2>2, <2>3, CountMaps
  <2>5. QED
    BY <2>4 DEF Ledger!LedgerNext
<1>10. CASE op[w].step = "note"
  <2>1. PICK o \in Outcomes : o = op[w].outcome
    BY <1>4, <1>10 DEF TypeOK, OpSound
  <2>2. /\ Latest(i) = s /\ Attempted(w) = Noted(s, o)
        /\ s.phase # "Absent"
    BY <1>1, <1>2, <1>3, <1>10, <2>1 DEF Calling, Attempted, Latest, Cached, UpToDate
  <2>3. Ledger!Becomes(i, Noted(Latest(i), o))
    BY <1>4, <2>2, WriteMaps
  <2>4. Ledger!Note(i)
    BY <2>2, <2>3
    DEF Ledger!Note, Ledger!Noted, Noted, Ledger!Outcomes, Outcomes, Ledger!LastN, LastN
  <2>5. QED
    BY <2>4 DEF Ledger!LedgerNext
<1>11. QED
  BY <1>4, <1>7, <1>8, <1>9, <1>10

\* A user's deletion, or a call of some worker that its step's guard admits.
Writes ==
    \/ \E i \in Issues : Latest(i).phase # "Absent" /\ Write(i, Unset("Absent"))
    \/ \E w \in Workers : Calling(w) /\ Write(op[w].job.issue, Attempted(w))

LEMMA AllWrites == ASSUME TypeOK, [Next]_vars PROVE UNCHANGED log \/ Writes
<1>1. ASSUME NEW i \in Issues, Forget(i) PROVE Writes
  BY <1>1 DEF Forget, Writes
<1>2. ASSUME NEW w \in Workers, UpsertObituary(w) PROVE UNCHANGED log \/ Writes
  <2>1. CASE Create(w)
    BY <2>1 DEF Create, Calling, Attempted, Writes
  <2>2. CASE InitStatus(w)
    BY <2>2 DEF InitStatus, Calling, Attempted, Writes
  <2>3. CASE Bump(w)
    BY <2>3 DEF Bump, Calling, Attempted, Writes
  <2>4. QED
    BY <1>2, <2>1, <2>2, <2>3
    DEF UpsertObituary, AlreadyExists, InitConflict, Lookup, BumpCounted,
        BumpConflict, BumpNotFound
<1>3. ASSUME NEW w \in Workers, MaybeHeal(w) PROVE UNCHANGED log \/ Writes
  <2>1. CASE AppendRecord(w)
    BY <2>1 DEF AppendRecord, Calling, Attempted, Writes
  <2>2. QED
    BY <1>3, <2>1
    DEF MaybeHeal, GateClosed, Skip, Act, Exec, AppendConflict, AppendDropped
<1>4. ASSUME NEW w \in Workers, ApiError(w) PROVE UNCHANGED log \/ Writes
  BY <1>4 DEF ApiError, Writes
<1>5. QED
  BY <1>1, <1>2, <1>3, <1>4
  DEF Next, vars, Die, JobFails, Dies, Revise, Clear, Event, Dismiss, Examine, Sync, RollOff, Restart

LEMMA WriteSighted ==
    ASSUME TypeOK, FirstSeenSound, NEW i \in Issues, NEW s \in Statuses, Sighted(s),
           Write(i, s)
    PROVE  FirstSeenSound'
<1>1. /\ Len(log'[i]) = Len(log[i]) + 1 /\ Len(log[i]) \in Nat
      /\ log'[i][Len(log[i]) + 1] = s
      /\ \A j \in Issues \ {i} : log'[j] = log[j]
      /\ \A k \in 1 .. Len(log[i]) : log'[i][k] = log[i][k]
  BY WriteGrows, Reads DEF LogGrows
<1>2. \A k \in 1 .. Len(log'[i]) : Sighted(log'[i][k])
  BY <1>1 DEF FirstSeenSound
<1>3. \A j \in Issues \ {i} : \A k \in 1 .. Len(log'[j]) : Sighted(log'[j][k])
  BY <1>1 DEF FirstSeenSound
<1>4. QED
  BY <1>2, <1>3 DEF FirstSeenSound, Sighted

LEMMA NextSighted ==
    ASSUME LedgerInv, [Next]_vars PROVE FirstSeenSound'
<1>1. TypeOK /\ FirstSeenSound
  BY DEF LedgerInv
<1>2. CASE UNCHANGED log
  BY <1>1, <1>2 DEF FirstSeenSound, Sighted
<1>3. ASSUME NEW i \in Issues, Write(i, Unset("Absent")) PROVE FirstSeenSound'
  <2>1. Unset("Absent") \in Statuses /\ Sighted(Unset("Absent"))
    BY UnsetType, UnsetFields DEF Sighted
  <2>2. QED
    BY <1>1, <1>3, <2>1, WriteSighted
<1>4. ASSUME NEW w \in Workers, Calling(w), Write(op[w].job.issue, Attempted(w))
      PROVE  FirstSeenSound'
  <2>1. op[w].job.issue \in Issues /\ Attempted(w) \in Statuses /\ Sighted(Attempted(w))
    BY <1>1, <1>4, AttemptedType, AttemptedSighted, JobTypes
  <2>2. QED
    BY <1>1, <1>4, <2>1, WriteSighted
<1>5. QED
  BY <1>1, <1>2, <1>3, <1>4, AllWrites DEF Writes

\* Only Create leads a worker to InitStatus.
LEMMA OnlyCreateInits ==
    ASSUME TypeOK, [Next]_vars, NEW v \in Workers, op'[v].step = "init"
    PROVE  op'[v] = op[v] \/ Create(v)
<1>1. ASSUME NEW w \in Workers, Done(w) PROVE op'[v] = op[v]
  BY <1>1 DEF Done, Idle, TypeOK
<1>2. ASSUME NEW w \in Workers, NEW st, st # "init", NEW n, NEW b, NEW o, Move(w, st, n, b, o)
      PROVE  op'[v] = op[v]
  BY <1>2 DEF Move, TypeOK
<1>3. ASSUME NEW w \in Workers, NEW p \in Pods, Examine(w, p) PROVE op'[v] = op[v]
  BY <1>3 DEF Examine, Idle, TypeOK
<1>4. ASSUME NEW w \in Workers, Create(w) PROVE op'[v] = op[v] \/ Create(v)
  BY <1>4 DEF Create, Move, TypeOK
<1>5. ASSUME NEW w \in Workers, UpsertObituary(w) PROVE op'[v] = op[v] \/ Create(v)
  <2>1. CASE Lookup(w)
    BY <1>2, <2>1 DEF Lookup, Goto
  <2>2. CASE ~Lookup(w) /\ ~Create(w)
    BY <1>1, <1>2, <1>5, <2>2
    DEF UpsertObituary, AlreadyExists, InitStatus, InitConflict, Bump, BumpCounted,
        BumpConflict, BumpNotFound, Goto, Requeue
  <2>3. QED
    BY <1>4, <2>1, <2>2
<1>6. ASSUME NEW w \in Workers, MaybeHeal(w) PROVE op'[v] = op[v]
  BY <1>1, <1>2, <1>6
  DEF MaybeHeal, GateClosed, Skip, Act, Exec, AppendRecord, AppendConflict, AppendDropped
<1>7. ASSUME NEW w \in Workers, ApiError(w) \/ Restart(w) PROVE op'[v] = op[v]
  BY <1>1, <1>7 DEF ApiError, Requeue, Restart
<1>8. QED
  BY <1>3, <1>5, <1>6, <1>7
  DEF Next, vars, Die, JobFails, Dies, Revise, Clear, Event, Dismiss, Sync, RollOff, Forget

LEMMA NextInitBase == ASSUME LedgerInv, [Next]_vars PROVE InitBase'
<1>1. TypeOK /\ LogGrows
  BY NextLogGrows DEF LedgerInv
<1>2. SUFFICES ASSUME NEW v \in Workers, op'[v].step = "init"
               PROVE  log'[op'[v].job.issue][op'[v].base] = Unset("Created")
  BY DEF InitBase, Unset
<1>3. CASE op'[v] = op[v]
  <2>1. /\ op[v].job.issue \in Issues
        /\ op[v].base \in 1 .. Len(log[op[v].job.issue])
    BY <1>1, <1>2, <1>3, JobTypes DEF TypeOK, OpSound
  <2>2. QED
    BY <1>1, <1>2, <1>3, <2>1 DEF LedgerInv, InitBase, LogGrows
<1>4. CASE Create(v)
  <2>1. op[v].job.issue \in Issues
    BY <1>1, <1>4, JobTypes DEF Create
  <2>2. /\ op'[v].job = op[v].job
        /\ op'[v].base = Len(log[op[v].job.issue]) + 1
    BY <1>1, <1>4 DEF Create, Move, TypeOK
  <2>3. log'[op[v].job.issue][Len(log[op[v].job.issue]) + 1] = Unset("Created")
    BY <1>1, <1>4, <2>1, UnsetType, WriteGrows DEF Create
  <2>4. QED
    BY <2>2, <2>3
<1>5. QED
  BY <1>1, <1>2, <1>3, <1>4, OnlyCreateInits

LEMMA InitLedgerInv == Init => LedgerInv
<1>1. SUFFICES ASSUME Init PROVE LedgerInv
  OBVIOUS
<1>2. FirstSeenSound
  BY <1>1, UnsetFields DEF Init, FirstSeenSound, Sighted
<1>3. QED
  BY <1>1, <1>2, InitTypeOK DEF Init, LedgerInv, InitBase, Idle

LEMMA NextLedgerInv == ASSUME LedgerInv, [Next]_vars PROVE LedgerInv'
BY NextTypeOK, NextSighted, NextInitBase DEF LedgerInv

LEMMA InitMaps == Init => Ledger!LedgerInit
BY DEF Init, Ledger!LedgerInit, Latest, Ledger!Unset, Unset

LEMMA StepMaps ==
    ASSUME LedgerInv, [Next]_vars
    PROVE  [Ledger!LedgerNext]_Mapped
<1>1. TypeOK
  BY DEF LedgerInv
<1>2. CASE UNCHANGED log
  BY <1>2 DEF Mapped, Latest
<1>3. ASSUME NEW i \in Issues, Latest(i).phase # "Absent", Write(i, Unset("Absent"))
      PROVE  Ledger!LedgerNext
  <2>1. Ledger!Becomes(i, Unset("Absent"))
    BY <1>1, <1>3, UnsetType, WriteMaps
  <2>2. Ledger!Drop(i)
    BY <1>3, <2>1 DEF Ledger!Drop, Ledger!Unset, Unset
  <2>3. QED
    BY <2>2 DEF Ledger!LedgerNext
<1>4. QED
  BY <1>1, <1>2, <1>3, AllWrites, CallMaps DEF Writes

\* The obituaries on the server go through the steps of the atomic ledger and no
\* others, however many operators write them through however stale caches.
THEOREM LedgerImplemented == Spec => ImplementsLedger
<1>1. Spec => []LedgerInv
  BY InitLedgerInv, NextLedgerInv, PTL DEF Spec
<1>2. Spec => Ledger!LedgerInit
  BY InitMaps DEF Spec
<1>3. LedgerInv /\ [Next]_vars => [Ledger!LedgerNext]_Mapped
  BY StepMaps
<1>4. QED
  BY <1>1, <1>2, <1>3, PTL DEF Spec, ImplementsLedger, Ledger!LedgerSpec, Mapped
=============================================================================
