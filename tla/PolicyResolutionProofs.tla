----------------------- MODULE PolicyResolutionProofs -----------------------
(***************************************************************************)
(* Proofs about PolicyResolution: what a reconcile does is permitted by    *)
(* the configs of the version it read, for any configs, namespaces and     *)
(* numbers of edits, faults and restarts; and seeding the default config   *)
(* changes nobody's policy.                                                *)
(***************************************************************************)
EXTENDS PolicyResolution, SequenceTheorems, TLAPS

\* Versions of the collection, as TypeOK has them.
Collections == [Configs -> SpecType \cup {None}]

\* A reconcile in progress holds a policy that some outcome of its List and Get
\* yields in the version it has read.
Resolved ==
    op # Idle =>
        /\ op.policy.at \in DOMAIN log
        /\ \E listed, got \in BOOLEAN :
            /\ op.policy.source \in Sources(log[op.policy.at], op.ns, listed, got)
            /\ op.policy.failed = ~listed

\* What it has done, the policy in hand asks for.
Asked ==
    /\ op.step = "Recorded" =>
        (IF op.kind = "Pod" THEN Policy.podCrashes ELSE Policy.jobFailures) = TRUE
    /\ op.step \in {"Applied", "DryRun", "Skipped"} => Policy.enabled = TRUE
    /\ op.step = "Applied" => Policy.dryRun = FALSE
    /\ op.step = "DryRun" => Policy.dryRun = TRUE

ResolutionInv == TypeOK /\ Resolved /\ Asked

-----------------------------------------------------------------------------
(* Specs and their defaults.                                               *)

LEMMA NoneIsNoSpec == None \notin BOOLEAN /\ None \notin Nat /\ None \notin Namespaces
  BY ResolutionAssumption

\* Filling in defaults keeps what is set and leaves no flag unset.
LEMMA DefaultsKeep ==
    ASSUME NEW s \in SpecType
    PROVE  /\ WithDefaults(s) \in SpecType
           /\ WithDefaults(s).podCrashes = orTrue(s.podCrashes)
           /\ WithDefaults(s).jobFailures = orTrue(s.jobFailures)
           /\ WithDefaults(s).dryRun = orTrue(s.dryRun)
           /\ WithDefaults(s).enabled = s.enabled
  <1>1. /\ orTrue(s.podCrashes) \in Optional(BOOLEAN)
        /\ orTrue(s.jobFailures) \in Optional(BOOLEAN)
        /\ orFalse(s.evictions) \in Optional(BOOLEAN)
        /\ orElse(s.restartThreshold, 3) \in Optional(Nat)
        /\ orTrue(s.dryRun) \in Optional(BOOLEAN)
        /\ orTrue(s.requireHigh) \in Optional(BOOLEAN)
        /\ orElse(s.minOccurrences, 3) \in Optional(Nat)
        /\ orElse(s.maxHeals, 5) \in Optional(Nat)
    BY DEF SpecType, Optional, orTrue, orFalse, orElse
  <1> QED  BY <1>1 DEF SpecType, WithDefaults

LEMMA DefaultsDecide ==
    ASSUME NEW b \in Optional(BOOLEAN)
    PROVE  /\ orTrue(b) \in BOOLEAN
           /\ orTrue(b) = TRUE <=> b # FALSE
           /\ orTrue(b) = FALSE <=> b = FALSE
  BY NoneIsNoSpec DEF Optional, orTrue

LEMMA EmptySpecType == EmptySpec \in SpecType
  BY DEF EmptySpec, SpecType, Optional

\* The built-in policy watches and does not heal.
LEMMA BuiltInPolicy ==
    /\ DefaultKoronerConfigSpec \in SpecType
    /\ DefaultKoronerConfigSpec.enabled = FALSE
  BY EmptySpecType, DefaultsKeep DEF DefaultKoronerConfigSpec, EmptySpec

-----------------------------------------------------------------------------
(* The policy in hand.                                                     *)

\* A policy is an existing config's spec with its defaults, or the built-in one.
LEMMA PolicyForm ==
    ASSUME NEW cfgs \in Collections, NEW ns \in Namespaces, NEW listed, NEW got,
           NEW s \in Sources(cfgs, ns, listed, got), home \in {Operator, None}
    PROVE  /\ s \in Configs \cup {BuiltIn}
           /\ s # BuiltIn => cfgs[s] \in SpecType
           /\ SpecOf(cfgs, s) \in SpecType
           /\ s # BuiltIn => s \in Own(cfgs, ns) \cup (Own(cfgs, home) \cap {DefaultConfig})
           /\ listed /\ Own(cfgs, ns) # {} => s \in Own(cfgs, ns)
  <1>1. CASE listed /\ Own(cfgs, ns) # {}
    <2>1. s \in Own(cfgs, ns)
      BY <1>1 DEF Sources
    <2>2. s \in Configs /\ cfgs[s] \in SpecType
      BY <2>1 DEF Own, Collections
    <2>3. SpecOf(cfgs, s) \in SpecType
      BY <2>2, DefaultsKeep, BuiltInPolicy DEF SpecOf
    <2> QED  BY <2>1, <2>2, <2>3
  <1>2. CASE /\ ~(listed /\ Own(cfgs, ns) # {})
             /\ home \notin {None, ns} /\ got /\ cfgs[DefaultConfig] # None
    <2>1. s = DefaultConfig
      BY <1>2 DEF Sources
    <2>2. s \in Configs
      BY <1>2, <2>1, ResolutionAssumption DEF DefaultConfig, Configs
    <2>3. s \in Own(cfgs, home)
      BY <1>2, <2>1, <2>2 DEF DefaultConfig, Own
    <2>4. cfgs[s] \in SpecType
      BY <1>2, <2>1, <2>2 DEF Collections
    <2>5. SpecOf(cfgs, s) \in SpecType
      BY <2>4, DefaultsKeep, BuiltInPolicy DEF SpecOf
    <2> QED  BY <1>2, <2>1, <2>2, <2>3, <2>4, <2>5
  <1>3. CASE /\ ~(listed /\ Own(cfgs, ns) # {})
             /\ ~(home \notin {None, ns} /\ got /\ cfgs[DefaultConfig] # None)
    <2>1. s = BuiltIn
      BY <1>3 DEF Sources
    <2> QED  BY <1>3, <2>1, BuiltInPolicy DEF SpecOf
  <1> QED  BY <1>1, <1>2, <1>3

\* ResolveConfig leaves a reconcile that holds the policy it has read.
LEMMA ResolveResolves ==
    ASSUME TypeOK, NEW step \in {"watch", "heal"}, NEW kind \in Kinds, NEW ns \in Namespaces,
           ResolveConfig(step, kind, ns), UNCHANGED <<home, log, seen, seeder>>
    PROVE  ResolutionInv'
  <1>1. PICK listed \in BOOLEAN, got \in BOOLEAN :
            /\ \/ listed /\ got /\ UNCHANGED left
               \/ ~(listed /\ got) /\ Spend("fault")
            /\ \E s \in Sources(Cached, ns, listed, got) :
                op' = [step |-> step, kind |-> kind, ns |-> ns,
                       policy |-> [source |-> s, at |-> seen, failed |-> ~listed]]
    BY DEF ResolveConfig
  <1>2. PICK s \in Sources(Cached, ns, listed, got) :
            op' = [step |-> step, kind |-> kind, ns |-> ns,
                   policy |-> [source |-> s, at |-> seen, failed |-> ~listed]]
    BY <1>1
  <1>3. seen \in DOMAIN log /\ seen \in Nat \ {0} /\ Cached \in Collections
    BY DEF TypeOK, Cached, Collections
  <1>4. s \in Configs \cup {BuiltIn}
    BY <1>3, PolicyForm DEF TypeOK
  <1>5. op' \in [step : {"watch", "heal"} \cup Deeds, kind : Kinds, ns : Namespaces,
                 policy : Policies]
    BY <1>2, <1>3, <1>4 DEF Policies
  <1>6. left' \in [Budgets -> Nat]
    BY <1>1 DEF TypeOK, Spend, Budgets
  <1>7. TypeOK'
    BY <1>5, <1>6 DEF TypeOK
  <1>8. Resolved'
    <2>1. /\ op'.policy.at = seen /\ op'.policy.source = s
          /\ op'.policy.failed = ~listed /\ op'.ns = ns
      BY <1>2
    <2>2. s \in Sources(log[seen], ns, listed, got)'
      BY <1>2 DEF Sources, Cached, Own, DefaultConfig
    <2> QED  BY <1>3, <2>1, <2>2 DEF Resolved
  <1>9. Asked'
    BY <1>2 DEF Asked
  <1> QED  BY <1>7, <1>8, <1>9 DEF ResolutionInv

\* The policy of a reconcile in progress is a spec all of whose flags are set.
LEMMA PolicyTyped ==
    ASSUME TypeOK, Resolved, op # Idle
    PROVE  /\ Policy \in SpecType
           /\ op.policy.source # BuiltIn =>
                log[op.policy.at][op.policy.source] \in SpecType
           /\ Policy.podCrashes \in BOOLEAN /\ Policy.jobFailures \in BOOLEAN
           /\ Policy.dryRun \in BOOLEAN /\ Policy.enabled \in BOOLEAN
  <1> DEFINE cfgs == log[op.policy.at]
             src == op.policy.source
  <1>1. cfgs \in Collections /\ op.ns \in Namespaces
    BY DEF TypeOK, Resolved, Collections
  <1>2. PICK listed \in BOOLEAN, got \in BOOLEAN : src \in Sources(cfgs, op.ns, listed, got)
    BY DEF Resolved
  <1>3. Policy \in SpecType /\ (src # BuiltIn => cfgs[src] \in SpecType)
    BY <1>1, <1>2, PolicyForm DEF TypeOK, Policy
  <1>4. PICK t \in SpecType : Policy = WithDefaults(t)
    BY <1>3, EmptySpecType DEF Policy, SpecOf, DefaultKoronerConfigSpec
  <1>5. /\ t.podCrashes \in Optional(BOOLEAN) /\ t.jobFailures \in Optional(BOOLEAN)
        /\ t.dryRun \in Optional(BOOLEAN) /\ t.enabled \in BOOLEAN
    BY DEF SpecType
  <1> QED  BY <1>3, <1>4, <1>5, DefaultsKeep, DefaultsDecide

\* A step that leaves the reconcile alone and only appends versions keeps what
\* is said of it.
LEMMA ReconcileUntouched ==
    ASSUME ResolutionInv, TypeOK', UNCHANGED <<home, op>>,
           log' = log \/ \E c \in Collections : log' = Append(log, c)
    PROVE  ResolutionInv'
  <1>1. CASE op = Idle
    BY <1>1 DEF ResolutionInv, Resolved, Asked, Idle
  <1>2. CASE op # Idle
    <2>1. op.policy.at \in DOMAIN log /\ log \in Seq(Collections)
      BY <1>2 DEF ResolutionInv, Resolved, TypeOK, Collections
    <2>2. op.policy.at \in DOMAIN log' /\ log'[op.policy.at] = log[op.policy.at]
      BY <2>1
    <2>3. Resolved'
      BY <1>2, <2>2 DEF ResolutionInv, Resolved, Sources, Own, DefaultConfig
    <2>4. Policy' = Policy
      BY <2>2 DEF Policy, SpecOf, DefaultKoronerConfigSpec
    <2> QED  BY <2>3, <2>4 DEF ResolutionInv, Asked
  <1> QED  BY <1>1, <1>2

\* A step that ends the reconcile leaves nothing to say of it.
LEMMA ReconcileEnds ==
    ASSUME TypeOK', op' = Idle
    PROVE  ResolutionInv'
  BY DEF ResolutionInv, Resolved, Asked, Idle

\* A step of the reconcile that keeps its policy.
LEMMA ReconcileGoes ==
    ASSUME ResolutionInv, op # Idle, NEW step \in {"heal"} \cup Deeds, Goto(step), Asked',
           UNCHANGED <<home, log, seen, seeder, left>>
    PROVE  ResolutionInv'
  <1>1. /\ op'.policy = op.policy /\ op'.ns = op.ns /\ op' # Idle
        /\ op' \in [step : {"watch", "heal"} \cup Deeds, kind : Kinds, ns : Namespaces,
                    policy : Policies]
    BY DEF Goto, ResolutionInv, TypeOK, Idle, Deeds
  <1>2. TypeOK'
    BY <1>1 DEF ResolutionInv, TypeOK
  <1>3. Resolved'
    BY <1>1 DEF ResolutionInv, Resolved, Sources, Own, DefaultConfig
  <1> QED  BY <1>2, <1>3 DEF ResolutionInv

-----------------------------------------------------------------------------
(* The invariant is inductive.                                             *)

LEMMA InitEstablishesResolution == Init => ResolutionInv
  <1> SUFFICES ASSUME Init PROVE ResolutionInv
    OBVIOUS
  <1>1. [k \in Configs |-> None] \in Collections
    BY DEF Collections
  <1>2. log \in Seq(Collections) \ {<< >>} /\ seen \in DOMAIN log
    BY <1>1 DEF Init
  <1>3. left \in [Budgets -> Nat]
    BY ResolutionAssumption DEF Init, Budgets
  <1>4. TypeOK
    BY <1>2, <1>3 DEF Init, TypeOK, Collections
  <1>5. Resolved /\ Asked
    BY DEF Init, Resolved, Asked, Idle
  <1> QED  BY <1>4, <1>5 DEF ResolutionInv

LEMMA SpendTyped ==
    ASSUME TypeOK, NEW b \in Budgets, Spend(b)
    PROVE  left' \in [Budgets -> Nat]
  BY DEF TypeOK, Spend

\* A write appends a version, which the cache does not have yet.
LEMMA PutAppends ==
    ASSUME TypeOK, NEW k \in Configs, NEW spec \in SpecType \cup {None}, Put(k, spec)
    PROVE  /\ \E c \in Collections : log' = Append(log, c)
           /\ log' \in Seq(Collections) \ {<< >>}
           /\ seen \in DOMAIN log'
           /\ Len(log') \in DOMAIN log'
  <1> DEFINE c == [Latest EXCEPT ![k] = spec]
  <1>1. log \in Seq(Collections) /\ Len(log) \in DOMAIN log /\ seen \in DOMAIN log
    BY DEF TypeOK, Collections
  <1>2. Latest \in Collections
    BY <1>1 DEF Latest
  <1>3. c \in Collections
    BY <1>2 DEF Collections
  <1>4. log' = Append(log, c)
    BY DEF Put
  <1>5. log' \in Seq(Collections) /\ Len(log') = Len(log) + 1
    BY <1>1, <1>3, <1>4
  <1>6. log' # << >> /\ seen \in DOMAIN log' /\ Len(log') \in DOMAIN log'
    BY <1>1, <1>5
  <1> QED  BY <1>3, <1>4, <1>5, <1>6

LEMMA DefaultConfigExists ==
    ASSUME TypeOK, home # None
    PROVE  DefaultConfig \in Configs
  BY ResolutionAssumption DEF TypeOK, DefaultConfig, Configs

LEMMA StepKeepsResolution == ResolutionInv /\ [Next]_vars => ResolutionInv'
  <1> SUFFICES ASSUME ResolutionInv, [Next]_vars PROVE ResolutionInv'
    OBVIOUS
  <1>t. TypeOK /\ Resolved /\ Asked
    BY DEF ResolutionInv
  <1>1. ASSUME NEW kind \in Kinds, NEW ns \in Namespaces, Begin(kind, ns)
        PROVE  ResolutionInv'
    BY <1>1, <1>t, ResolveResolves DEF Begin
  <1>2. CASE Ignore
    <2>1. op' = Idle /\ TypeOK'
      BY <1>2, <1>t DEF Ignore, Done, TypeOK
    <2> QED  BY <2>1, ReconcileEnds
  <1>3. CASE Record
    <2>1. op # Idle /\ Goto("Recorded") /\ UNCHANGED <<home, log, seen, seeder, left>>
      BY <1>3 DEF Record, Idle
    <2>2. (IF op.kind = "Pod" THEN Policy.podCrashes ELSE Policy.jobFailures) = TRUE
      BY <1>3, <1>t, <2>1, PolicyTyped DEF Record, Watched
    <2>3. op'.step = "Recorded" /\ op'.kind = op.kind /\ Policy' = Policy
      BY <2>1, <1>t DEF Goto, TypeOK, Policy, SpecOf, DefaultKoronerConfigSpec
    <2>4. Asked'
      BY <2>2, <2>3 DEF Asked
    <2> QED  BY <2>1, <2>4, ReconcileGoes DEF Deeds
  <1>4. CASE Again
    <2>1. op # Idle /\ op.kind \in Kinds /\ op.ns \in Namespaces
      BY <1>4, <1>t DEF Again, TypeOK, Idle
    <2>2. CASE op.kind = "Pod"
      BY <1>4, <1>t, <2>1, <2>2, ResolveResolves DEF Again
    <2>3. CASE op.kind # "Pod"
      <3>1. Goto("heal") /\ UNCHANGED <<home, log, seen, seeder, left>>
        BY <1>4, <2>3 DEF Again
      <3>2. op'.step = "heal"
        BY <3>1, <1>t, <2>1 DEF Goto, TypeOK
      <3>3. Asked'
        BY <3>2 DEF Asked
      <3> QED  BY <2>1, <3>1, <3>3, ReconcileGoes
    <2> QED  BY <2>2, <2>3
  <1>5. CASE Attempt
    <2> DEFINE deed == IF op.kind = "Job" THEN "Skipped"
                       ELSE IF Policy.dryRun THEN "DryRun" ELSE "Applied"
    <2>1. op # Idle /\ Goto(deed) /\ UNCHANGED <<home, log, seen, seeder, left>>
      BY <1>5 DEF Attempt, Idle
    <2>2. Policy.enabled = TRUE /\ Policy.dryRun \in BOOLEAN
      BY <1>5, <1>t, <2>1, PolicyTyped DEF Attempt
    <2>3. op'.step = deed /\ Policy' = Policy
      BY <2>1, <1>t DEF Goto, TypeOK, Policy, SpecOf, DefaultKoronerConfigSpec
    <2>4. /\ deed \in {"Applied", "DryRun", "Skipped"}
          /\ deed = "Applied" => Policy.dryRun = FALSE
          /\ deed = "DryRun" => Policy.dryRun = TRUE
      BY <2>2
    <2> HIDE DEF deed
    <2>5. Asked'
      BY <2>2, <2>3, <2>4 DEF Asked
    <2> QED  BY <2>1, <2>4, <2>5, ReconcileGoes DEF Deeds
  <1>6. CASE Return
    <2>1. op' = Idle /\ TypeOK'
      BY <1>6, <1>t DEF Return, Done, TypeOK
    <2> QED  BY <2>1, ReconcileEnds
  <1>7. ASSUME NEW k \in Configs, Edit(k) PROVE ResolutionInv'
    <2>1. PICK spec \in Optional(Specs) : Put(k, spec)
      BY <1>7 DEF Edit
    <2>2. spec \in SpecType \cup {None}
      BY ResolutionAssumption DEF Optional
    <2>3. left' \in [Budgets -> Nat] /\ UNCHANGED <<home, seen, seeder, op>>
      BY <1>7, <1>t, SpendTyped DEF Edit, Budgets
    <2>4. TypeOK'
      BY <1>t, <2>1, <2>2, <2>3, PutAppends DEF TypeOK, Collections
    <2> QED  BY <1>t, <2>1, <2>2, <2>3, <2>4, PutAppends, ReconcileUntouched
  <1>8. CASE Sync
    <2>1. TypeOK'
      BY <1>8, <1>t DEF Sync, TypeOK
    <2> QED  BY <1>8, <2>1, ReconcileUntouched DEF Sync
  <1>9. CASE SeedFound \/ SeedExists
    <2>1. TypeOK'
      BY <1>9, <1>t DEF SeedFound, SeedExists, Seeded, TypeOK
    <2> QED  BY <1>9, <2>1, ReconcileUntouched DEF SeedFound, SeedExists, Seeded
  <1>10. CASE SeedCreate
    <2>1. DefaultConfig \in Configs /\ SeedSpec \in SpecType /\ Put(DefaultConfig, SeedSpec)
      BY <1>10, <1>t, DefaultConfigExists, BuiltInPolicy DEF SeedCreate, CanCreate, SeedSpec
    <2>2. seeder' = "done" /\ UNCHANGED <<home, seen, op, left>>
      BY <1>10 DEF SeedCreate, Seeded
    <2>3. TypeOK'
      BY <1>t, <2>1, <2>2, PutAppends DEF TypeOK, Collections
    <2> QED  BY <1>t, <2>1, <2>2, <2>3, PutAppends, ReconcileUntouched
  <1>11. CASE SeedError
    <2>1. log' = log \/ Put(DefaultConfig, SeedSpec)
      BY <1>11 DEF SeedError
    <2>2. DefaultConfig \in Configs /\ SeedSpec \in SpecType
      BY <1>11, <1>t, DefaultConfigExists, BuiltInPolicy DEF SeedError, SeedSpec
    <2>3. /\ left' \in [Budgets -> Nat] /\ seeder' = "down" /\ op' = Idle
          /\ UNCHANGED <<home, seen>>
      BY <1>11, <1>t, SpendTyped DEF SeedError, Exit, Done, Budgets
    <2>4. log' \in Seq(Collections) \ {<< >>} /\ seen \in DOMAIN log'
      BY <1>t, <2>1, <2>2, PutAppends DEF TypeOK, Collections
    <2>5. TypeOK'
      BY <1>t, <2>3, <2>4 DEF TypeOK, Collections
    <2> QED  BY <2>3, <2>5, ReconcileEnds
  <1>12. CASE Crash
    <2>1. left' \in [Budgets -> Nat] /\ op' = Idle
      BY <1>12, <1>t, SpendTyped DEF Crash, Exit, Done, Budgets
    <2>2. TypeOK'
      BY <1>12, <1>t, <2>1 DEF Crash, Exit, TypeOK
    <2> QED  BY <2>1, <2>2, ReconcileEnds
  <1>13. CASE Restart
    <2>1. Len(log) \in DOMAIN log
      BY <1>t DEF TypeOK
    <2>2. TypeOK'
      BY <1>13, <1>t, <2>1 DEF Restart, TypeOK
    <2> QED  BY <1>13, <2>2, ReconcileUntouched DEF Restart
  <1>14. CASE UNCHANGED vars
    <2>1. TypeOK'
      BY <1>14, <1>t DEF vars, TypeOK
    <2> QED  BY <1>14, <2>1, ReconcileUntouched DEF vars
  <1> QED  BY <1>1, <1>2, <1>3, <1>4, <1>5, <1>6, <1>7, <1>8, <1>9, <1>10, <1>11, <1>12,
              <1>13, <1>14 DEF Next, Reconcile, Seed

LEMMA ResolutionHolds == FairSpec => []ResolutionInv
  BY InitEstablishesResolution, StepKeepsResolution, PTL DEF FairSpec

-----------------------------------------------------------------------------
(* Theorems.                                                               *)

\* A heal is applied only under a config a user has opted in with, whatever the
\* caches, failed reads, defaults and the seeder do (resolveConfig, WithDefaults,
\* tryHeal).
THEOREM OnlyOptedInHeals == FairSpec => []HealsOptedIn
  <1>1. ResolutionInv => HealsOptedIn
    <2> SUFFICES ASSUME ResolutionInv, op.step = "Applied" PROVE HealsOptedIn
      BY DEF HealsOptedIn
    <2> DEFINE cfgs == log[op.policy.at]
               src == op.policy.source
    <2>1. TypeOK /\ Resolved /\ Asked /\ op # Idle
      BY DEF ResolutionInv, Idle
    <2>2. cfgs \in Collections /\ op.ns \in Namespaces
      BY <2>1 DEF TypeOK, Resolved, Collections
    <2>3. PICK listed \in BOOLEAN, got \in BOOLEAN : src \in Sources(cfgs, op.ns, listed, got)
      BY <2>1 DEF Resolved
    <2>4. Policy.enabled = TRUE /\ Policy.dryRun = FALSE
      BY <2>1 DEF Asked
    <2>5. src # BuiltIn
      BY <2>4, BuiltInPolicy DEF Policy, SpecOf
    <2>6. /\ src \in Own(cfgs, op.ns) \cup (Own(cfgs, home) \cap {DefaultConfig})
          /\ cfgs[src] \in SpecType
      BY <2>1, <2>2, <2>3, <2>5, PolicyForm DEF TypeOK
    <2>7. Policy = WithDefaults(cfgs[src])
      BY <2>5 DEF Policy, SpecOf
    <2>8. cfgs[src].dryRun \in Optional(BOOLEAN)
      BY <2>6 DEF SpecType
    <2>9. OptsIn(cfgs[src])
      BY <2>4, <2>6, <2>7, <2>8, DefaultsKeep, DefaultsDecide DEF OptsIn
    <2> QED  BY <2>6, <2>9 DEF HealsOptedIn
  <1> QED  BY <1>1, ResolutionHolds, PTL

\* What is recorded, healed, simulated or skipped in a namespace that has configs
\* of its own, one of them permits, unless the List of them failed (resolveConfig).
THEOREM OwnConfigsDecide == FairSpec => []OwnConfigWins
  <1>1. ResolutionInv => OwnConfigWins
    <2> DEFINE cfgs == log[op.policy.at]
               src == op.policy.source
    <2> SUFFICES ASSUME ResolutionInv, op.step \in Deeds, op.policy.failed # TRUE,
                        Own(cfgs, op.ns) # {}
                 PROVE  \E k \in Own(cfgs, op.ns) : Permits(cfgs[k], op.kind, op.step)
      BY DEF OwnConfigWins
    <2>1. TypeOK /\ Resolved /\ Asked /\ op # Idle
      BY DEF ResolutionInv, Idle, Deeds
    <2>2. cfgs \in Collections /\ op.ns \in Namespaces
      BY <2>1 DEF TypeOK, Resolved, Collections
    <2>3. PICK listed \in BOOLEAN, got \in BOOLEAN :
              src \in Sources(cfgs, op.ns, listed, got) /\ op.policy.failed = ~listed
      BY <2>1 DEF Resolved
    <2>4. src \in Own(cfgs, op.ns)
      BY <2>1, <2>2, <2>3, PolicyForm DEF TypeOK
    <2>5. src # BuiltIn
      <3>1. BuiltIn \notin Configs
        BY NoneIsNoSpec DEF BuiltIn, Configs
      <3> QED  BY <3>1, <2>4 DEF Own
    <2>6. cfgs[src] \in SpecType /\ Policy = WithDefaults(cfgs[src])
      BY <2>1, <2>2, <2>3, <2>5, PolicyForm DEF TypeOK, Policy, SpecOf
    <2>7. /\ cfgs[src].dryRun \in Optional(BOOLEAN)
          /\ cfgs[src].podCrashes \in Optional(BOOLEAN)
          /\ cfgs[src].jobFailures \in Optional(BOOLEAN)
          /\ cfgs[src].enabled \in BOOLEAN
      BY <2>6 DEF SpecType
    <2>8. /\ Policy.enabled = cfgs[src].enabled
          /\ Policy.dryRun = TRUE <=> cfgs[src].dryRun # FALSE
          /\ Policy.dryRun = FALSE <=> cfgs[src].dryRun = FALSE
          /\ Policy.podCrashes = TRUE <=> cfgs[src].podCrashes # FALSE
          /\ Policy.jobFailures = TRUE <=> cfgs[src].jobFailures # FALSE
      BY <2>6, <2>7, DefaultsKeep, DefaultsDecide
    <2>9. op.step = "Recorded" =>
              FALSE # (IF op.kind = "Pod" THEN cfgs[src].podCrashes ELSE cfgs[src].jobFailures)
      BY <2>1, <2>8 DEF Asked
    <2>10. op.step # "Recorded" => cfgs[src].enabled = TRUE
      BY <2>1, <2>8 DEF Asked, Deeds
    <2>11. /\ op.step = "Applied" => cfgs[src].dryRun = FALSE
           /\ op.step = "DryRun" => cfgs[src].dryRun # FALSE
      BY <2>1, <2>8 DEF Asked
    <2>12. Permits(cfgs[src], op.kind, op.step)
      BY <2>9, <2>10, <2>11 DEF Permits, OptsIn
    <2> QED  BY <2>4, <2>12
  <1> QED  BY <1>1, ResolutionHolds, PTL

-----------------------------------------------------------------------------
(* The seeder.                                                             *)

\* The collection, the cached version, the policy in hand and the bounds keep
\* their types: the cache never holds a version the server has not had.
THEOREM ResolutionTypeCorrect == FairSpec => []TypeOK
  <1>1. ResolutionInv => TypeOK
    BY DEF ResolutionInv
  <1> QED  BY <1>1, ResolutionHolds, PTL

\* The defaults, field by field.
LEMMA DefaultsFields ==
    ASSUME NEW s \in SpecType
    PROVE  /\ WithDefaults(s).podCrashes = orTrue(s.podCrashes)
           /\ WithDefaults(s).jobFailures = orTrue(s.jobFailures)
           /\ WithDefaults(s).evictions = orFalse(s.evictions)
           /\ WithDefaults(s).restartThreshold = orElse(s.restartThreshold, 3)
           /\ WithDefaults(s).selector = s.selector
           /\ WithDefaults(s).enabled = s.enabled
           /\ WithDefaults(s).dryRun = orTrue(s.dryRun)
           /\ WithDefaults(s).requireHigh = orTrue(s.requireHigh)
           /\ WithDefaults(s).minOccurrences = orElse(s.minOccurrences, 3)
           /\ WithDefaults(s).maxHeals = orElse(s.maxHeals, 5)
  BY DEF WithDefaults, SpecType

LEMMA SpecsExtensional ==
    ASSUME NEW s \in SpecType, NEW t \in SpecType,
           s.podCrashes = t.podCrashes, s.jobFailures = t.jobFailures,
           s.evictions = t.evictions, s.restartThreshold = t.restartThreshold,
           s.selector = t.selector, s.enabled = t.enabled, s.dryRun = t.dryRun,
           s.requireHigh = t.requireHigh, s.minOccurrences = t.minOccurrences,
           s.maxHeals = t.maxHeals
    PROVE  s = t
  BY DEF SpecType

\* Defaults are filled in once.
LEMMA DefaultsIdempotent ==
    ASSUME NEW s \in SpecType PROVE WithDefaults(WithDefaults(s)) = WithDefaults(s)
  <1>1. \A b : orTrue(orTrue(b)) = orTrue(b) /\ orFalse(orFalse(b)) = orFalse(b)
    BY DEF orTrue, orFalse
  <1>2. \A n, default : orElse(orElse(n, default), default) = orElse(n, default)
    BY DEF orElse
  <1>3. PICK t \in SpecType : t = WithDefaults(s)
    BY DefaultsKeep
  <1>4. PICK u \in SpecType : u = WithDefaults(t)
    BY DefaultsKeep
  <1>5. /\ u.podCrashes = t.podCrashes /\ u.jobFailures = t.jobFailures
        /\ u.evictions = t.evictions /\ u.restartThreshold = t.restartThreshold
        /\ u.selector = t.selector /\ u.enabled = t.enabled /\ u.dryRun = t.dryRun
        /\ u.requireHigh = t.requireHigh /\ u.minOccurrences = t.minOccurrences
        /\ u.maxHeals = t.maxHeals
    BY <1>1, <1>2, <1>3, <1>4, DefaultsFields
  <1> QED  BY <1>3, <1>4, <1>5, SpecsExtensional

\* The seeded config stands for itself.
LEMMA SeedSpecStands == SeedSpec \in SpecType /\ WithDefaults(SeedSpec) = DefaultKoronerConfigSpec
  BY BuiltInPolicy, EmptySpecType, DefaultsIdempotent DEF SeedSpec, DefaultKoronerConfigSpec

\* Adding the default config where there was none changes no namespace's policy,
\* but perhaps the operator's own.
LEMMA SeedingKeepsEffective ==
    ASSUME TypeOK, home # None, NEW cfgs \in Collections, cfgs[DefaultConfig] = None,
           NEW new, new = [cfgs EXCEPT ![DefaultConfig] = SeedSpec],
           NEW ns \in Namespaces, ns # home \/ Own(cfgs, home) = {}
    PROVE  Effective(new, ns) = Effective(cfgs, ns)
  <1>1. DefaultConfig \in Configs /\ DefaultConfig # BuiltIn /\ DefaultConfig[1] = home
    BY DefaultConfigExists, NoneIsNoSpec DEF DefaultConfig, BuiltIn
  <1>2. SeedSpec # None
    BY SeedSpecStands, ResolutionAssumption
  <1>3. /\ new[DefaultConfig] = SeedSpec
        /\ \A k \in Configs \ {DefaultConfig} : new[k] = cfgs[k]
    BY <1>1 DEF Collections
  <1>4. SpecOf(new, DefaultConfig) = DefaultKoronerConfigSpec
    BY <1>1, <1>3, SeedSpecStands DEF SpecOf
  <1>5. CASE ns # home
    <2>1. Own(new, ns) = Own(cfgs, ns) /\ DefaultConfig \notin Own(cfgs, ns)
      BY <1>1, <1>3, <1>5 DEF Own
    <2>2. CASE Own(cfgs, ns) # {}
      <3>1. /\ Sources(new, ns, TRUE, TRUE) = Own(cfgs, ns)
            /\ Sources(cfgs, ns, TRUE, TRUE) = Own(cfgs, ns)
        BY <2>1, <2>2 DEF Sources
      <3>2. \A k \in Own(cfgs, ns) : SpecOf(new, k) = SpecOf(cfgs, k)
        BY <1>3, <2>1 DEF SpecOf, Own
      <3> QED  BY <3>1, <3>2 DEF Effective
    <2>3. CASE Own(cfgs, ns) = {}
      <3>1. /\ Sources(new, ns, TRUE, TRUE) = {DefaultConfig}
            /\ Sources(cfgs, ns, TRUE, TRUE) = {BuiltIn}
        BY <1>2, <1>3, <1>5, <2>1, <2>3 DEF Sources
      <3>2. SpecOf(cfgs, BuiltIn) = DefaultKoronerConfigSpec
        BY DEF SpecOf
      <3> QED  BY <1>4, <3>1, <3>2 DEF Effective
    <2> QED  BY <2>2, <2>3
  <1>6. CASE ns = home
    <2>1. Own(cfgs, ns) = {}
      BY <1>6
    <2>2. Own(new, ns) = {DefaultConfig}
      BY <1>1, <1>2, <1>3, <1>6, <2>1 DEF Own
    <2>3. /\ Sources(new, ns, TRUE, TRUE) = {DefaultConfig}
          /\ Sources(cfgs, ns, TRUE, TRUE) = {BuiltIn}
      BY <1>6, <2>1, <2>2 DEF Sources
    <2>4. SpecOf(cfgs, BuiltIn) = DefaultKoronerConfigSpec
      BY DEF SpecOf
    <2> QED  BY <1>4, <2>3, <2>4 DEF Effective
  <1> QED  BY <1>5, <1>6

\* The seeder's Create, which its server-side check guards although its Get reads
\* a cache, overwrites no config and leaves every namespace with the policy it
\* had, whether its reply arrives or not (DefaultConfigSeeder.Start).
THEOREM SeedingKeepsPolicy == FairSpec => SeedKeepsPolicy
  <1> DEFINE Kept == seeder = "wait" /\ seeder' # seeder =>
                /\ \A k \in Configs : Latest[k] # None => Latest'[k] = Latest[k]
                /\ \A ns \in Namespaces : ns # home \/ Own(Latest, home) = {} =>
                    Effective(Latest', ns) = Effective(Latest, ns)
  <1>1. ResolutionInv /\ [Next]_vars => [Kept]_vars
    <2> SUFFICES ASSUME ResolutionInv, Next, seeder = "wait", seeder' # seeder
                 PROVE  Kept
      BY DEF vars
    <2>1. TypeOK /\ log \in Seq(Collections) /\ Latest \in Collections /\ Len(log) \in Nat
      BY DEF ResolutionInv, TypeOK, Collections, Latest
    <2>2. CASE UNCHANGED log
      BY <2>2 DEF Latest
    <2>3. CASE CanCreate /\ Put(DefaultConfig, SeedSpec)
      <3>1. PICK cfgs \in Collections : cfgs = Latest
        BY <2>1
      <3>2. PICK new \in Collections : new = [cfgs EXCEPT ![DefaultConfig] = SeedSpec]
        BY SeedSpecStands DEF Collections
      <3>3. home # None /\ cfgs[DefaultConfig] = None
        BY <2>3, <3>1 DEF CanCreate
      <3>4. log' = Append(log, new)
        BY <2>3, <3>1, <3>2 DEF Put
      <3>5. Latest' = new
        BY <2>1, <3>2, <3>4 DEF Latest
      <3>6. \A k \in Configs : cfgs[k] # None => new[k] = cfgs[k]
        BY <3>2, <3>3 DEF Collections
      <3>7. \A ns \in Namespaces : ns # home \/ Own(cfgs, home) = {} =>
                Effective(new, ns) = Effective(cfgs, ns)
        BY <2>1, <3>2, <3>3, SeedingKeepsEffective
      <3> QED  BY <3>1, <3>5, <3>6, <3>7
    <2>4. \/ UNCHANGED log
          \/ CanCreate /\ Put(DefaultConfig, SeedSpec)
      BY DEF Next, Begin, Reconcile, Ignore, Record, Again, Attempt, Return, Edit, Sync, Seed,
             SeedFound, SeedCreate, SeedExists, SeedError, Crash, Restart
    <2> QED  BY <2>2, <2>3, <2>4
  <1>2. FairSpec => [][Next]_vars
    BY DEF FairSpec
  <1> QED  BY <1>1, <1>2, ResolutionHolds, PTL DEF SeedKeepsPolicy
=============================================================================
