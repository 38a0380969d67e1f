-------------------------- MODULE ExecutorsProofs --------------------------
(***************************************************************************)
(* Proofs about the executors.  BumpMemory's arithmetic comes first: that  *)
(* scaling, rounding and capping are monotone (a request stays below its   *)
(* limit) and that they add memory.  Then the invariant ExecInv: every     *)
(* version, ReplicaSet and rollback target holds a valid spec, and a patch *)
(* in progress has the parameters it needs.  The theorems come last.       *)
(***************************************************************************)
EXTENDS Executors, WellFoundedInduction, TLAPS

-----------------------------------------------------------------------------
(* BumpMemory's arithmetic.                                                *)

LEMMA DivMod ==
    ASSUME NEW n \in Nat, NEW d \in Nat \ {0}
    PROVE  /\ n \div d \in Nat /\ n % d \in 0 .. d - 1
           /\ n = d * (n \div d) + (n % d)
<1>1. n \div d \in Int /\ n % d \in 0 .. d - 1
  OBVIOUS
<1>2. n = d * (n \div d) + (n % d)
  OBVIOUS
<1>3. n \div d >= 0
  OBVIOUS
<1>4. QED
  BY <1>1, <1>2, <1>3

\* A multiple of d does not pass a larger one.
LEMMA MultipleMonotone ==
    ASSUME NEW d \in Nat, NEW j \in Nat, NEW k \in Nat, j <= k
    PROVE  d * j <= d * k
OBVIOUS

LEMMA DivMonotone ==
    ASSUME NEW a \in Nat, NEW b \in Nat, a <= b, NEW d \in Nat \ {0}
    PROVE  a \div d <= b \div d
<1>1. PICK j \in Nat, r \in 0 .. d - 1 : j = a \div d /\ a = d * j + r
  BY DivMod
<1>2. PICK k \in Nat, t \in 0 .. d - 1 : k = b \div d /\ b = d * k + t
  BY DivMod
<1>3. SUFFICES ASSUME k + 1 <= j PROVE FALSE
  BY <1>1, <1>2
<1>4. d * (k + 1) <= d * j
  BY <1>3, MultipleMonotone
<1>5. d * (k + 1) = d * k + d
  OBVIOUS
<1>6. d * j \in Nat /\ d * k \in Nat
  OBVIOUS
<1>7. QED
  BY <1>1, <1>2, <1>4, <1>5, <1>6

LEMMA RoundUpSound ==
    ASSUME NEW n \in Nat
    PROVE  /\ roundUpToMiB(n) \in Nat /\ roundUpToMiB(n) >= n
           /\ n % MiB # 0 => roundUpToMiB(n) > n
<1>1. MiB \in Nat \ {0}
  BY ExecutorsAssumption
<1>2. PICK k \in Nat, r \in 0 .. MiB - 1 : k = n \div MiB /\ r = n % MiB /\ n = MiB * k + r
  BY <1>1, DivMod
<1>3. (k + 1) * MiB = MiB * k + MiB /\ MiB * k \in Nat
  BY <1>1
<1>4. QED
  BY <1>1, <1>2, <1>3 DEF roundUpToMiB

LEMMA RoundUpMonotone ==
    ASSUME NEW a \in Nat, NEW b \in Nat, a <= b
    PROVE  roundUpToMiB(a) <= roundUpToMiB(b)
<1>1. MiB \in Nat \ {0}
  BY ExecutorsAssumption
<1>2. PICK j \in Nat, r \in 0 .. MiB - 1 : j = a \div MiB /\ r = a % MiB /\ a = MiB * j + r
  BY <1>1, DivMod
<1>3. PICK k \in Nat, t \in 0 .. MiB - 1 : k = b \div MiB /\ t = b % MiB /\ b = MiB * k + t
  BY <1>1, DivMod
<1>4. /\ (j + 1) * MiB = MiB * j + MiB /\ MiB * j \in Nat
      /\ (k + 1) * MiB = MiB * k + MiB /\ MiB * k \in Nat
  BY <1>1
<1>5. j <= k
  BY <1>1, <1>2, <1>3, DivMonotone
<1>6. CASE r = 0
  <2>1. roundUpToMiB(a) = a
    BY <1>2, <1>6 DEF roundUpToMiB
  <2>2. QED
    BY <2>1, RoundUpSound
<1>7. CASE r # 0 /\ j = k
  <2>1. t # 0
    BY <1>2, <1>3, <1>4, <1>7
  <2>2. roundUpToMiB(a) = (j + 1) * MiB
    BY <1>2, <1>7 DEF roundUpToMiB
  <2>3. roundUpToMiB(b) = (j + 1) * MiB
    BY <1>3, <1>7, <2>1 DEF roundUpToMiB
  <2>4. (j + 1) * MiB \in Nat
    BY <1>1
  <2>5. QED
    BY <2>2, <2>3, <2>4
<1>8. CASE r # 0 /\ j + 1 <= k
  <2>1. MiB * (j + 1) <= MiB * k
    BY <1>1, <1>8, MultipleMonotone
  <2>2. roundUpToMiB(a) = (j + 1) * MiB
    BY <1>2, <1>8 DEF roundUpToMiB
  <2>3. (j + 1) * MiB <= b /\ (j + 1) * MiB \in Nat
    BY <1>1, <1>3, <1>4, <2>1
  <2>4. QED
    BY <2>2, <2>3, RoundUpSound
<1>9. QED
  BY <1>5, <1>6, <1>7, <1>8

LEMMA FactorRatio ==
    ASSUME NEW f \in Factors
    PROVE  \E m \in Nat, d \in Nat \ {0} : parsedFactor(f) = <<m, d>>
<1>1. CASE f = None
  BY <1>1 DEF parsedFactor
<1>2. CASE f # None
  <2>1. f \in Nat \X (Nat \ {0})
    BY <1>2, ExecutorsAssumption DEF FactorType
  <2>2. QED
    BY <1>2, <2>1 DEF parsedFactor
<1>3. QED
  BY <1>1, <1>2

\* More memory to start from is never less memory after the bump.
LEMMA ScaledMonotone ==
    ASSUME NEW p \in Nat, NEW q \in Nat, p <= q,
           NEW m \in Nat, NEW d \in Nat \ {0}, NEW c \in Sizes
    PROVE  /\ scaledQuantity(p, <<m, d>>, c) \in Nat
           /\ scaledQuantity(q, <<m, d>>, c) \in Nat
           /\ scaledQuantity(p, <<m, d>>, c) <= scaledQuantity(q, <<m, d>>, c)
<1>1. p * m \in Nat /\ q * m \in Nat /\ p * m <= q * m
  <2>1. m * p <= m * q
    BY MultipleMonotone
  <2>2. m * p = p * m /\ m * q = q * m /\ m * p \in Nat /\ m * q \in Nat
    OBVIOUS
  <2>3. QED
    BY <2>1, <2>2
<1>2. PICK x \in Nat, y \in Nat :
        x = (p * m) \div d /\ y = (q * m) \div d /\ x <= y
  <2>1. (p * m) \div d \in Nat /\ (q * m) \div d \in Nat
    BY <1>1, DivMod
  <2>2. (p * m) \div d <= (q * m) \div d
    BY <1>1, DivMonotone
  <2>3. QED
    BY <2>1, <2>2
<1>3. PICK u \in Nat, v \in Nat : u = roundUpToMiB(x) /\ v = roundUpToMiB(y) /\ u <= v
  BY RoundUpSound, RoundUpMonotone, <1>2
<1>4. /\ scaledQuantity(p, <<m, d>>, c) = IF c # None /\ u > c THEN c ELSE u
      /\ scaledQuantity(q, <<m, d>>, c) = IF c # None /\ v > c THEN c ELSE v
  BY <1>2, <1>3 DEF scaledQuantity
<1>5. CASE c = None
  BY <1>3, <1>4, <1>5
<1>6. CASE c \in Nat
  BY <1>3, <1>4, <1>6
<1>7. QED
  BY <1>5, <1>6 DEF Sizes

\* A factor that adds at least a byte to a MiB makes any size larger, up to the
\* cap: rounding to a whole MiB does the rest for sizes in between.
LEMMA ScaledGrows ==
    ASSUME NEW q \in Nat \ {0}, NEW m \in Nat, NEW d \in Nat \ {0}, m > d,
           MiB * (m - d) >= d, NEW c \in Sizes
    PROVE  LET r == scaledQuantity(q, <<m, d>>, c)
           IN  r = c \/ (r > q /\ (c # None => r < c))
<1>0. MiB \in Nat \ {0}
  BY ExecutorsAssumption
<1>1. PICK n \in Nat : n = q * m
  OBVIOUS
<1>2. PICK k \in Nat, r \in 0 .. d - 1 : k = n \div d /\ n = d * k + r
  BY DivMod
<1>3. PICK out \in Nat : out = roundUpToMiB(k)
  BY RoundUpSound
<1>4. k >= q
  <2>1. SUFFICES ASSUME k + 1 <= q PROVE FALSE
    OBVIOUS
  <2>2. d * (k + 1) <= d * q
    BY <2>1, MultipleMonotone
  <2>3. d * (k + 1) = d * k + d /\ d * k \in Nat
    OBVIOUS
  <2>4. q * d <= q * m
    BY MultipleMonotone
  <2>5. q * d = d * q /\ d * q \in Nat
    OBVIOUS
  <2>6. QED
    BY <1>1, <1>2, <2>2, <2>3, <2>4, <2>5
<1>5. out > q
  <2>1. CASE q % MiB # 0
    <3>1. roundUpToMiB(q) \in Nat /\ roundUpToMiB(q) > q
      BY <2>1, RoundUpSound
    <3>2. roundUpToMiB(q) <= out
      BY <1>3, <1>4, RoundUpMonotone
    <3>3. QED
      BY <3>1, <3>2
  <2>2. CASE q % MiB = 0
    <3>1. PICK j \in Nat : q = MiB * j
      <4>1. q \div MiB \in Nat /\ q = MiB * (q \div MiB) + (q % MiB)
        BY <1>0, DivMod
      <4>2. MiB * (q \div MiB) \in Nat
        BY <1>0, <4>1
      <4>3. QED
        BY <2>2, <4>1, <4>2
    <3>2. q >= MiB
      <4>1. j # 0
        BY <1>0, <3>1
      <4>2. MiB * 1 <= MiB * j
        BY <1>0, <4>1, MultipleMonotone
      <4>3. QED
        BY <1>0, <3>1, <4>2
    <3>3. PICK e \in Nat : e = m - d
      OBVIOUS
    <3>4. e * MiB <= e * q /\ e * MiB = MiB * e /\ MiB * e \in Nat
      BY <1>0, <3>2, MultipleMonotone
    <3>5. e * q >= d /\ e * q \in Nat
      BY <3>3, <3>4
    <3>6. n = d * q + e * q
      <4>1. m = d + e
        BY <3>3
      <4>2. QED
        BY <1>1, <4>1
    <3>7. k >= q + 1
      <4>1. SUFFICES ASSUME k <= q PROVE FALSE
        OBVIOUS
      <4>2. d * k <= d * q /\ d * k \in Nat /\ d * q \in Nat
        BY <4>1, MultipleMonotone
      <4>3. QED
        BY <1>2, <3>5, <3>6, <4>2
    <3>8. out >= k
      BY <1>3, RoundUpSound
    <3>9. QED
      BY <3>7, <3>8
  <2>3. QED
    BY <2>1, <2>2
<1>6. scaledQuantity(q, <<m, d>>, c) = IF c # None /\ out > c THEN c ELSE out
  BY <1>1, <1>2, <1>3 DEF scaledQuantity
<1>7. CASE c = None
  BY <1>5, <1>6, <1>7
<1>8. CASE c \in Nat
  BY <1>5, <1>6, <1>8
<1>9. QED
  BY <1>7, <1>8 DEF Sizes

-----------------------------------------------------------------------------
(* The newest ReplicaSet.                                                  *)

LEMMA MinIsMember == ASSUME NEW S \in SUBSET Nat, S # {}
    PROVE  Min(S) \in S /\ \A y \in S : Min(S) <= y
<1> DEFINE R == OpToRel(<, Nat)
<1>1. PICK x \in S : \A y \in S : ~(<<y, x>> \in R)
  BY NatLessThanWellFounded, WFMin
<1>2. \A y \in Nat : <<y, x>> \in R <=> y < x
  BY DEF OpToRel
<1>3. ASSUME NEW y \in S PROVE x =< y
  <2>1. ~(y < x)
    <3> HIDE DEF R
    <3>1. QED
      BY <1>1, <1>2
  <2>2. QED
    BY <2>1
<1>4. QED
  BY <1>3 DEF Min

\* The templates whose limit is in L.
Templates(L) ==
    [spec : {s \in SpecType : Valid(s) /\ s.limit \in L}, restarted : Nat]

\* Lists of ReplicaSets: not empty, and with a highest revision.
Histories(L) ==
    {S \in SUBSET [template : Templates(L), rev : Nat] :
        S # {} /\ \E n \in Nat : \A s \in S : s.rev <= n}

LEMMA NewestIsMember ==
    ASSUME NEW L, NEW S \in Histories(L)
    PROVE  Newest(S) \in S
<1>1. PICK n \in Nat : \A s \in S : s.rev <= n
  BY DEF Histories
<1>2. \A s \in S : s.rev \in Nat
  BY DEF Histories
<1> DEFINE gaps == {n - s.rev : s \in S}
<1>3. gaps \in SUBSET Nat /\ gaps # {}
  BY <1>1, <1>2 DEF Histories
<1>4. Min(gaps) \in gaps /\ \A g \in gaps : Min(gaps) <= g
  BY <1>3, MinIsMember
<1>5. PICK s \in S : \A t \in S : n - s.rev <= n - t.rev
  BY <1>4
<1>6. \A t \in S : t.rev <= s.rev
  BY <1>2, <1>5
<1>7. QED
  BY <1>6 DEF Newest

-----------------------------------------------------------------------------
(* The invariant.  L is a set of limits the executors do not lead out of:  *)
(* all sizes, and for BumpGrows the sizes other than zero.                 *)

ValidFactors == {parsedFactor(f) : f \in {g \in Factors : FactorValid(g)}}

Closed(L) ==
    /\ L \subseteq Sizes
    /\ \A s \in Specs : s.limit \in L
    /\ \A q \in L \ {None}, f \in ValidFactors, c \in Caps : scaledQuantity(q, f, c) \in L \ {None}

PatchActions == {"RestartWorkload", "BumpMemory", "RollbackDeployment"}

Ops(L) ==
    [step : {"idle", "patch"}, action : PatchActions \cup {None},
     tries : 0 .. RetrySteps - 1, factor : ValidFactors \cup {None},
     cap : Caps \cup {None}, current : Templates(L) \cup {None},
     target : Templates(L) \cup {None}]

\* A patch in progress has what its action needs.
OpReady(L) ==
    op.step = "patch" =>
        /\ op.action \in PatchActions
        /\ op.action = "BumpMemory" => op.factor \in ValidFactors /\ op.cap \in Caps
        /\ op.action = "RollbackDeployment" => op.target \in Templates(L)

PodStates == {"Alive", "Dead", "Gone"}

TemplateInv(L) ==
    /\ log \in Seq(Templates(L)) /\ seen \in 1 .. Len(log)
    /\ sets \in Histories(L) /\ setsSeen \in Histories(L)

PodsInv ==
    /\ pods \in Seq(PodStates) /\ podsSeen \in Seq(PodStates)
    /\ Len(podsSeen) <= Len(pods)
    /\ lastPod \in DOMAIN podsSeen \cup {None}

ExecInv(L) ==
    /\ TemplateInv(L) /\ PodsInv
    /\ op \in Ops(L) /\ OpReady(L)
    /\ calls \in 0 .. MaxPatches /\ faults \in 0 .. MaxFaults

-----------------------------------------------------------------------------
(* What a patch makes of a template.                                       *)

\* A bump keeps the image, and a limit that covers its request still does.
LEMMA BumpSound ==
    ASSUME NEW L, Closed(L), NEW s \in SpecType, Valid(s), s.limit \in L,
           NEW f \in ValidFactors, NEW c \in Caps, NEW b, b = bumpPodSpecMemory(s, f, c)
    PROVE  /\ b \in SpecType /\ Valid(b) /\ b.limit \in L /\ b.image = s.image
           /\ b.limit = IF s.limit = None THEN None ELSE scaledQuantity(s.limit, f, c)
<1>1. PICK m \in Nat, d \in Nat \ {0} : f = <<m, d>>
  BY FactorRatio DEF ValidFactors
<1>2. c \in Sizes /\ None \notin Nat
  BY ExecutorsAssumption
<1>0. ASSUME NEW q \in Nat PROVE scaledQuantity(q, f, c) \in Nat
  <2>1. q <= q
    OBVIOUS
  <2>2. QED
    BY <1>1, <1>2, <2>1, ScaledMonotone
<1> DEFINE limit == IF s.limit = None THEN None ELSE scaledQuantity(s.limit, f, c)
           request == IF s.request = None THEN None ELSE scaledQuantity(s.request, f, c)
<1>3. b = [image |-> s.image, limit |-> limit, request |-> request]
  BY DEF bumpPodSpecMemory, SpecType
<1>4. s.limit \in Sizes /\ s.request \in Sizes /\ s.image \in {t.image : t \in Specs}
  BY DEF SpecType
<1>5. limit \in Sizes /\ (s.limit # None => limit \in Nat)
  BY <1>0, <1>4 DEF Sizes
<1>6. request \in Sizes /\ (s.request # None => request \in Nat)
  BY <1>0, <1>4 DEF Sizes
<1>7. limit # None /\ request # None => request <= limit
  <2>1. SUFFICES ASSUME limit # None, request # None PROVE request <= limit
    OBVIOUS
  <2>2. s.limit # None /\ s.request # None
    BY <2>1
  <2>3. s.limit \in Nat /\ s.request \in Nat /\ s.request <= s.limit
    BY <1>4, <2>2 DEF Sizes, Valid
  <2>4. scaledQuantity(s.request, f, c) <= scaledQuantity(s.limit, f, c)
    BY <1>1, <1>2, <2>3, ScaledMonotone
  <2>5. QED
    BY <2>2, <2>4
<1>8. limit \in L
  BY DEF Closed
<1> HIDE DEF limit, request
<1>9. b \in SpecType
  BY <1>3, <1>4, <1>5, <1>6 DEF SpecType
<1>10. Valid(b)
  BY <1>3, <1>7 DEF Valid
<1>11. QED
  BY <1>3, <1>8, <1>9, <1>10 DEF limit

LEMMA MutatedSound ==
    ASSUME NEW L, Closed(L), OpReady(L), op.step = "patch", calls \in Nat,
           NEW t \in Templates(L)
    PROVE  /\ Mutated(t) \in Templates(L)
           /\ op.action = "RestartWorkload" => Mutated(t).spec = t.spec
           /\ op.action # "RestartWorkload" => Mutated(t).restarted = t.restarted
           /\ op.action = "BumpMemory" =>
                /\ Mutated(t).spec.image = t.spec.image
                /\ Mutated(t).spec.limit =
                     IF t.spec.limit = None THEN None
                     ELSE scaledQuantity(t.spec.limit, op.factor, op.cap)
<1>1. /\ t.spec \in SpecType /\ Valid(t.spec) /\ t.spec.limit \in L
      /\ t.restarted \in Nat /\ t = [spec |-> t.spec, restarted |-> t.restarted]
  BY DEF Templates
<1>2. CASE op.action = "RestartWorkload"
  <2>1. Mutated(t) = [spec |-> t.spec, restarted |-> calls]
    BY <1>1, <1>2 DEF Mutated
  <2>2. QED
    BY <1>1, <1>2, <2>1 DEF Templates
<1>3. CASE op.action = "BumpMemory"
  <2>1. op.factor \in ValidFactors /\ op.cap \in Caps
    BY <1>3 DEF OpReady
  <2>2. PICK b : b = bumpPodSpecMemory(t.spec, op.factor, op.cap)
    OBVIOUS
  <2>3. /\ b \in SpecType /\ Valid(b) /\ b.limit \in L /\ b.image = t.spec.image
        /\ b.limit = IF t.spec.limit = None THEN None
                     ELSE scaledQuantity(t.spec.limit, op.factor, op.cap)
    BY <1>1, <2>1, <2>2, BumpSound
  <2>4. Mutated(t) = [spec |-> b, restarted |-> t.restarted]
    BY <1>1, <1>3, <2>2 DEF Mutated
  <2>5. QED
    BY <1>1, <1>3, <2>3, <2>4 DEF Templates
<1>4. CASE op.action = "RollbackDeployment"
  <2>1. op.target.spec \in SpecType /\ Valid(op.target.spec) /\ op.target.spec.limit \in L
    BY <1>4 DEF OpReady, Templates
  <2>2. Mutated(t) = [spec |-> op.target.spec, restarted |-> t.restarted]
    BY <1>1, <1>4 DEF Mutated
  <2>3. QED
    BY <1>1, <1>4, <2>1, <2>2 DEF Templates
<1>5. QED
  BY <1>2, <1>3, <1>4 DEF OpReady, PatchActions

-----------------------------------------------------------------------------
(* Every step keeps the invariant.                                         *)

LEMMA AppendSound ==
    ASSUME NEW L, TemplateInv(L), NEW t \in Templates(L), Write(t)
    PROVE  /\ log' \in Seq(Templates(L)) /\ Len(log') = Len(log) + 1
           /\ Latest' = t /\ seen \in 1 .. Len(log') /\ log' # log
<1>1. log \in Seq(Templates(L)) /\ log' = Append(log, t) /\ seen \in 1 .. Len(log)
  BY DEF TemplateInv, Write
<1>2. log' \in Seq(Templates(L)) /\ Len(log') = Len(log) + 1 /\ Len(log) \in Nat
  BY <1>1
<1>3. log'[Len(log')] = t
  BY <1>1, <1>2
<1>4. QED
  BY <1>1, <1>2, <1>3 DEF Latest

LEMMA VersionsTyped ==
    ASSUME NEW L, TemplateInv(L)
    PROVE  Latest \in Templates(L) /\ Cached \in Templates(L)
BY DEF TemplateInv, Latest, Cached

LEMMA RolloutSound ==
    ASSUME NEW L, TemplateInv(L), Rollout
    PROVE  TemplateInv(L)'
<1>1. Latest \in Templates(L) /\ sets \in Histories(L)
  BY VersionsTyped DEF TemplateInv
<1>2. PICK n \in Nat : \A s \in sets : s.rev <= n
  BY <1>1 DEF Histories
<1>3. Newest(sets) \in sets
  BY <1>1, NewestIsMember
<1>4. PICK r \in Nat : r = Newest(sets).rev /\ r <= n
  BY <1>1, <1>2, <1>3 DEF Histories
<1> DEFINE new == [template |-> Latest, rev |-> r + 1]
<1>5. sets' = {s \in sets : s.template # Latest} \cup {new}
  BY <1>4 DEF Rollout
<1>6. sets' \in SUBSET [template : Templates(L), rev : Nat] /\ sets' # {}
  <2>1. new \in [template : Templates(L), rev : Nat]
    BY <1>1
  <2>2. sets \in SUBSET [template : Templates(L), rev : Nat]
    BY <1>1 DEF Histories
  <2>3. QED
    BY <1>5, <2>1, <2>2
<1>7. \A s \in sets' : s.rev <= n + 1
  <2>1. SUFFICES ASSUME NEW s \in sets' PROVE s.rev <= n + 1
    OBVIOUS
  <2>2. CASE s = new
    BY <1>4, <2>2
  <2>3. CASE s \in sets
    <3>1. s.rev \in Nat /\ s.rev <= n
      BY <1>1, <1>2, <2>3 DEF Histories
    <3>2. QED
      BY <3>1
  <2>4. QED
    BY <1>5, <2>2, <2>3
<1>8. sets' \in Histories(L)
  <2>1. n + 1 \in Nat
    OBVIOUS
  <2>2. QED
    BY <1>6, <1>7, <2>1 DEF Histories
<1>9. log' \in Seq(Templates(L)) /\ seen \in 1 .. Len(log')
  BY <1>1, AppendSound DEF Rollout
<1>10. QED
  BY <1>8, <1>9 DEF Rollout, TemplateInv

LEMMA IdleTyped == ASSUME NEW L PROVE Idle \in Ops(L)
BY ExecutorsAssumption DEF Idle, Ops

\* A call that goes on to patch, or fails before that.
LEMMA RollbackSound ==
    ASSUME NEW L, TemplateInv(L), RollbackDeployment
    PROVE  op' \in Ops(L) /\ OpReady(L)'
<1> DEFINE newest == Newest(setsSeen)
           rest == setsSeen \ {newest}
<1>1. CASE rest = {}
  <2>1. op' = Idle
    BY <1>1 DEF RollbackDeployment
  <2>2. QED
    BY <2>1, IdleTyped DEF OpReady, Idle
<1>2. CASE rest # {}
  <2>1. setsSeen \in Histories(L)
    BY DEF TemplateInv
  <2>2. rest \in Histories(L)
    BY <1>2, <2>1 DEF Histories
  <2>3. newest \in setsSeen /\ Newest(rest) \in rest
    BY <2>1, <2>2, NewestIsMember
  <2>4. newest.template \in Templates(L) /\ Newest(rest).template \in Templates(L)
    BY <2>1, <2>2, <2>3 DEF Histories
  <2>5. PICK c \in Templates(L), t \in Templates(L) :
          c = newest.template /\ t = Newest(rest).template
    BY <2>4
  <2>6. op' = [step |-> "patch", action |-> "RollbackDeployment", tries |-> 0,
               factor |-> None, cap |-> None, current |-> c, target |-> t]
    BY <1>2, <2>5 DEF RollbackDeployment, ToPatch, Idle
  <2>7. QED
    BY <2>6, ExecutorsAssumption DEF Ops, OpReady, PatchActions
<1>3. QED
  BY <1>1, <1>2

LEMMA BumpCallSound ==
    ASSUME NEW L, BumpMemory
    PROVE  op' \in Ops(L) /\ OpReady(L)'
<1>1. PICK f \in Factors, c \in Caps :
        op' = IF FactorValid(f)
              THEN [ToPatch("BumpMemory") EXCEPT !.factor = parsedFactor(f), !.cap = c]
              ELSE Idle
  BY DEF BumpMemory
<1>2. CASE ~FactorValid(f)
  BY <1>1, <1>2, IdleTyped DEF OpReady, Idle
<1>3. CASE FactorValid(f)
  <2>1. PICK g \in ValidFactors : g = parsedFactor(f)
    BY <1>3 DEF ValidFactors
  <2>2. op' = [step |-> "patch", action |-> "BumpMemory", tries |-> 0, factor |-> g,
               cap |-> c, current |-> None, target |-> None]
    BY <1>1, <1>3, <2>1 DEF ToPatch, Idle
  <2>3. QED
    BY <2>2, ExecutorsAssumption DEF Ops, OpReady, PatchActions
<1>4. QED
  BY <1>2, <1>3

LEMMA RestartCallSound ==
    ASSUME NEW L, RestartWorkload
    PROVE  op' \in Ops(L) /\ OpReady(L)'
<1>1. op' = [step |-> "patch", action |-> "RestartWorkload", tries |-> 0, factor |-> None,
             cap |-> None, current |-> None, target |-> None]
  BY DEF RestartWorkload, ToPatch, Idle
<1>2. QED
  BY <1>1, ExecutorsAssumption DEF Ops, OpReady, PatchActions

LEMMA InitSound == ASSUME NEW L, Closed(L), Init PROVE ExecInv(L)
<1>1. PICK s \in Specs : log = <<Template(s, 0)>>
  BY DEF Init
<1>2. s \in SpecType /\ Valid(s) /\ s.limit \in L
  BY ExecutorsAssumption DEF Closed
<1>3. PICK t \in Templates(L) : t = Template(s, 0)
  BY <1>2 DEF Template, Templates
<1>4. log = <<t>> /\ log[1] = t /\ log \in Seq(Templates(L)) /\ Len(log) = 1
  BY <1>1, <1>3
<1>5. sets = {[template |-> t, rev |-> 1]} /\ setsSeen = sets
  BY <1>4 DEF Init
<1>6. sets \in Histories(L)
  <2>1. \A r \in sets : r.rev <= 1
    BY <1>5
  <2>2. [template |-> t, rev |-> 1] \in [template : Templates(L), rev : Nat]
    OBVIOUS
  <2>3. sets \in SUBSET [template : Templates(L), rev : Nat] /\ sets # {}
    BY <1>5, <2>2
  <2>4. 1 \in Nat
    OBVIOUS
  <2>5. QED
    BY <2>1, <2>3, <2>4 DEF Histories
<1>7. TemplateInv(L)
  BY <1>4, <1>5, <1>6 DEF TemplateInv, Init
<1>8. PodsInv
  BY DEF Init, PodsInv, PodStates
<1>9. op \in Ops(L) /\ OpReady(L)
  BY IdleTyped DEF Init, OpReady, Idle
<1>10. QED
  BY <1>7, <1>8, <1>9, ExecutorsAssumption DEF Init, ExecInv

\* An attempt of the patch: what it writes is a template like the others.
LEMMA WriteSound ==
    ASSUME NEW L, Closed(L), ExecInv(L), op.step = "patch", Write(Mutated(Cached)),
           UNCHANGED <<sets, seen, setsSeen>>
    PROVE  TemplateInv(L)'
<1>1. TemplateInv(L) /\ OpReady(L) /\ calls \in Nat
  BY ExecutorsAssumption DEF ExecInv
<1>2. Mutated(Cached) \in Templates(L)
  BY <1>1, MutatedSound, VersionsTyped
<1>3. QED
  BY <1>1, <1>2, AppendSound DEF TemplateInv

LEMMA StepSound ==
    ASSUME NEW L, Closed(L), ExecInv(L), [Next]_vars
    PROVE  ExecInv(L)'
<1> USE DEF ExecInv
<1>0. /\ MaxPatches \in Nat /\ MaxFaults \in Nat /\ RetrySteps \in Nat \ {0}
      /\ None \notin Nat
  BY ExecutorsAssumption
<1>a. ASSUME UNCHANGED <<log, sets, seen, setsSeen>> PROVE TemplateInv(L)'
  BY <1>a DEF TemplateInv
<1>b. ASSUME UNCHANGED replicas PROVE PodsInv'
  BY <1>b DEF PodsInv, replicas
<1>c. ASSUME UNCHANGED op PROVE op' \in Ops(L) /\ OpReady(L)'
  BY <1>c DEF OpReady
<1>d. ASSUME op' = Idle PROVE op' \in Ops(L) /\ OpReady(L)'
  BY <1>d, IdleTyped DEF OpReady, Idle
<1>1. CASE Edit
  <2>1. PICK s \in Specs \cup {Latest.spec} : Write(Template(s, Latest.restarted))
    BY <1>1 DEF Edit
  <2>2. Latest.spec \in SpecType /\ Valid(Latest.spec) /\ Latest.spec.limit \in L
        /\ Latest.restarted \in Nat
    BY VersionsTyped DEF Templates
  <2>3. s \in SpecType /\ Valid(s) /\ s.limit \in L
    BY <2>2, ExecutorsAssumption DEF Closed
  <2>4. Template(s, Latest.restarted) \in Templates(L)
    BY <2>2, <2>3 DEF Template, Templates
  <2>5. TemplateInv(L)'
    BY <1>1, <2>1, <2>4, AppendSound DEF Edit, TemplateInv
  <2>6. QED
    BY <1>1, <1>b, <1>c, <2>5 DEF Edit
<1>2. CASE Rollout
  <2>1. TemplateInv(L)'
    BY <1>2, RolloutSound
  <2>2. QED
    BY <1>2, <1>b, <1>c, <2>1 DEF Rollout
<1>3. CASE Sync
  <2>1. TemplateInv(L)'
    BY <1>3 DEF Sync, TemplateInv
  <2>2. QED
    BY <1>3, <1>b, <1>c, <2>1 DEF Sync
<1>4. CASE SyncSets
  <2>1. TemplateInv(L)'
    BY <1>4 DEF SyncSets, TemplateInv
  <2>2. QED
    BY <1>4, <1>b, <1>c, <2>1 DEF SyncSets
<1>5. CASE PodTurns
  <2>1. PICK k \in DOMAIN pods, s \in PodStates : pods' = [pods EXCEPT ![k] = s]
    BY <1>5 DEF PodTurns, PodStates
  <2>2. pods' \in Seq(PodStates) /\ Len(pods') = Len(pods)
    BY <2>1 DEF PodsInv
  <2>3. PodsInv'
    BY <1>5, <2>2 DEF PodTurns, PodsInv
  <2>4. QED
    BY <1>5, <1>a, <1>c, <2>3 DEF PodTurns, workload
<1>6. CASE Replace
  <2>1. pods' \in Seq(PodStates) /\ Len(pods') = Len(pods) + 1 /\ Len(pods) \in Nat
    BY <1>6 DEF Replace, PodsInv, PodStates
  <2>2. Len(podsSeen) <= Len(pods')
    BY <2>1 DEF PodsInv
  <2>3. PodsInv'
    BY <1>6, <2>1, <2>2 DEF Replace, PodsInv
  <2>4. QED
    BY <1>6, <1>a, <1>c, <2>3 DEF Replace, workload
<1>7. CASE SyncPods
  <2>1. DOMAIN podsSeen \subseteq DOMAIN pods
    BY DEF PodsInv
  <2>2. PodsInv'
    BY <1>7, <2>1 DEF SyncPods, PodsInv
  <2>3. QED
    BY <1>7, <1>a, <1>c, <2>2 DEF SyncPods, workload
<1>8. CASE RecordDeath
  <2>1. PodsInv'
    BY <1>8 DEF RecordDeath, PodsInv
  <2>2. QED
    BY <1>8, <1>a, <1>c, <2>1 DEF RecordDeath, workload
<1>9. ASSUME NEW p, Called(p)
      PROVE  TemplateInv(L)' /\ calls' \in 0 .. MaxPatches /\ faults' \in 0 .. MaxFaults
  BY <1>0, <1>9, <1>a DEF Called, workload
<1>10. CASE RestartWorkload
  BY <1>10, <1>9, <1>b, RestartCallSound DEF RestartWorkload
<1>11. CASE BumpMemory
  BY <1>11, <1>9, <1>b, BumpCallSound DEF BumpMemory
<1>12. CASE RollbackDeployment
  BY <1>12, <1>9, <1>b, RollbackSound DEF RollbackDeployment
<1>13. CASE DeletePod
  <2>1. pods' \in Seq(PodStates) /\ Len(pods') = Len(pods)
    <3>1. pods \in Seq(PodStates)
      BY DEF PodsInv
    <3>2. CASE pods' = pods
      BY <3>1, <3>2
    <3>3. CASE pods' = [k \in DOMAIN pods |->
                 IF k \in Bearing(PodName(lastPod), pods) THEN "Gone" ELSE pods[k]]
      BY <3>1, <3>3 DEF PodStates
    <3>4. QED
      BY <1>13, <3>2, <3>3 DEF DeletePod
  <2>2. PodsInv'
    BY <1>13, <2>1 DEF DeletePod, PodsInv
  <2>3. QED
    BY <1>13, <1>9, <1>c, <2>2 DEF DeletePod
<1>14. CASE Patch
  <2>1. TemplateInv(L)'
    BY <1>14, WriteSound DEF Patch
  <2>2. QED
    BY <1>14, <1>b, <1>d, <2>1 DEF Patch
<1>15. CASE Conflict
  <2>1. CASE op.tries + 1 < RetrySteps
    <3>1. op' = [op EXCEPT !.tries = op.tries + 1]
      BY <1>15, <2>1 DEF Conflict
    <3>2. op.tries + 1 \in 0 .. RetrySteps - 1
      BY <1>0, <2>1 DEF Ops
    <3>3. op' \in Ops(L)
      BY <3>1, <3>2 DEF Ops
    <3>4. OpReady(L)'
      BY <3>1 DEF Ops, OpReady
    <3>5. QED
      BY <1>15, <1>a, <1>b, <3>3, <3>4 DEF Conflict, workload
  <2>2. CASE ~(op.tries + 1 < RetrySteps)
    BY <1>15, <1>a, <1>b, <1>d, <2>2 DEF Conflict, workload
  <2>3. QED
    BY <2>1, <2>2
<1>16. CASE PatchError
  <2>1. TemplateInv(L)'
    BY <1>16, <1>a, WriteSound DEF PatchError
  <2>2. QED
    BY <1>16, <1>0, <1>b, <1>d, <2>1 DEF PatchError
<1>17. CASE UNCHANGED vars
  BY <1>17, <1>a, <1>b, <1>c DEF vars, workload
<1>18. QED
  BY <1>1, <1>2, <1>3, <1>4, <1>5, <1>6, <1>7, <1>8, <1>10, <1>11, <1>12, <1>13,
     <1>14, <1>15, <1>16, <1>17 DEF Next

-----------------------------------------------------------------------------
(* The theorems.                                                           *)

\* All sizes are closed under bumps.
LEMMA SizesClosed == Closed(Sizes)
<1>1. \A s \in Specs : s.limit \in Sizes
  BY ExecutorsAssumption DEF SpecType
<1>2. ASSUME NEW q \in Sizes \ {None}, NEW f \in ValidFactors, NEW c \in Caps
      PROVE  scaledQuantity(q, f, c) \in Sizes \ {None}
  <2>1. PICK m \in Nat, d \in Nat \ {0} : f = <<m, d>>
    BY FactorRatio DEF ValidFactors
  <2>2. q \in Nat /\ q <= q /\ c \in Sizes /\ None \notin Nat
    BY ExecutorsAssumption DEF Sizes
  <2>3. scaledQuantity(q, f, c) \in Nat
    BY <2>1, <2>2, ScaledMonotone
  <2>4. QED
    BY <2>2, <2>3 DEF Sizes
<1>3. QED
  BY <1>1, <1>2 DEF Closed

LEMMA SizesInvariant == Spec => []ExecInv(Sizes)
<1>1. Init => ExecInv(Sizes)
  BY SizesClosed, InitSound
<1>2. ExecInv(Sizes) /\ [Next]_vars => ExecInv(Sizes)'
  BY SizesClosed, StepSound
<1>3. QED
  BY <1>1, <1>2, PTL DEF Spec

\* The cached version, the pods and the retries of an executor stay in range: a
\* patch is tried at most RetrySteps times (actions.go, retry.RetryOnConflict),
\* and it reads a version that exists.
THEOREM ExecutorsTypeCorrect == Spec => []TypeOK
<1>1. ExecInv(Sizes) => TypeOK
  BY DEF ExecInv, TemplateInv, PodsInv, Ops, OpReady, PatchActions, TypeOK
<1>2. QED
  BY <1>1, SizesInvariant, PTL

\* No sequence of edits, bumps, restarts and rollbacks, with any factors, caps and
\* failed or retried patches, leaves a template whose request is above its limit:
\* scaledQuantity is monotone, and its cap applies to both (bumpPodSpecMemory).
THEOREM SpecsStayValid == Spec => []SpecsValid
<1>1. ExecInv(Sizes) => SpecsValid
  BY VersionsTyped DEF ExecInv, Templates, SpecsValid
<1>2. QED
  BY <1>1, SizesInvariant, PTL

\* The step that ends a patch with a write replaces the latest version by what
\* the action makes of it.
LEMMA HealsWriteLatest ==
    ASSUME NEW L, Closed(L), ExecInv(L), [Next]_vars, NEW a, Heals(a)
    PROVE  /\ op.action = a /\ Latest' = Mutated(Latest)
           /\ Latest \in Templates(L) /\ OpReady(L) /\ op.step = "patch" /\ calls \in Nat
<1>1. op.step = "patch" /\ op.action = a /\ op' # op /\ log' # log
  BY DEF Heals
<1>2. TemplateInv(L) /\ OpReady(L) /\ calls \in Nat /\ Latest \in Templates(L)
  BY VersionsTyped, ExecutorsAssumption DEF ExecInv
<1>3. Patch \/ PatchError
  BY <1>1 DEF Next, vars, workload, Edit, Rollout, Sync, SyncSets, PodTurns, Replace,
        SyncPods, RecordDeath, RestartWorkload, BumpMemory, RollbackDeployment, DeletePod,
        Called, Conflict
<1>4. seen = Len(log) /\ Write(Mutated(Cached))
  BY <1>1, <1>3 DEF Patch, PatchError
<1>5. Cached = Latest
  BY <1>4 DEF Cached, Latest
<1>6. Mutated(Latest) \in Templates(L)
  BY <1>1, <1>2, MutatedSound
<1>7. Latest' = Mutated(Latest)
  BY <1>2, <1>4, <1>5, <1>6, AppendSound
<1>8. QED
  BY <1>1, <1>2, <1>7

\* A restart and a bump keep what edits and rollouts wrote to the version they replace:
\* the update carries the resourceVersion of the cached read (actions.go), so a
\* patch computed from a stale version is never stored.
THEOREM HealsKeepEdits == Spec => HealKeepsEdits
<1>1. ASSUME ExecInv(Sizes), [Next]_vars
      PROVE  /\ Heals("RestartWorkload") => Latest'.spec = Latest.spec
             /\ Heals("BumpMemory") => /\ Latest'.restarted = Latest.restarted
                                       /\ Latest'.spec.image = Latest.spec.image
  <2>1. CASE Heals("RestartWorkload")
    <3>1. Latest'.spec = Latest.spec
      BY <1>1, <2>1, SizesClosed, HealsWriteLatest, MutatedSound
    <3>2. QED
      BY <2>1, <3>1 DEF Heals
  <2>2. CASE Heals("BumpMemory")
    <3>1. Latest'.restarted = Latest.restarted /\ Latest'.spec.image = Latest.spec.image
      BY <1>1, <2>2, SizesClosed, HealsWriteLatest, MutatedSound
    <3>2. QED
      BY <2>2, <3>1 DEF Heals
  <2>3. QED
    BY <2>1, <2>2
<1>2. QED
  BY <1>1, SizesInvariant, PTL DEF Spec, HealKeepsEdits

\* What a deployment needs for its bumps to grow: containers have memory to scale,
\* the cap leaves them some, and the factor adds at least a byte to a MiB (one
\* closer to 1 is lost when the product is truncated to whole bytes).
BumpsAdd ==
    /\ \A s \in Specs : s.limit # 0
    /\ 0 \notin Caps
    /\ \A f \in ValidFactors : MiB * (f[1] - f[2]) >= f[2]

\* What scaledQuantity makes of a limit that is not zero.
LEMMA LimitGrows ==
    ASSUME BumpsAdd, NEW q \in Sizes \ {0, None}, NEW f \in ValidFactors, NEW c \in Caps
    PROVE  LET r == scaledQuantity(q, f, c)
           IN  /\ r \in Nat \ {0}
               /\ r = c \/ (r > q /\ (c # None => r < c))
<1>1. PICK g \in Factors : f = parsedFactor(g) /\ FactorValid(g)
  BY DEF ValidFactors
<1>2. PICK m \in Nat, d \in Nat \ {0} : f = <<m, d>>
  BY <1>1, FactorRatio
<1>3. f[1] = m /\ f[2] = d
  BY <1>2
<1>4. m > d /\ MiB * (m - d) >= d
  BY <1>1, <1>3 DEF FactorValid, BumpsAdd
<1>5. q \in Nat \ {0} /\ q <= q /\ c \in Sizes /\ None \notin Nat /\ c # 0
  BY ExecutorsAssumption DEF Sizes, BumpsAdd
<1>6. PICK r : r = scaledQuantity(q, f, c)
  OBVIOUS
<1>7. r = c \/ (r > q /\ (c # None => r < c))
  BY <1>2, <1>4, <1>5, <1>6, ScaledGrows
<1>8. r \in Nat
  BY <1>2, <1>5, <1>6, ScaledMonotone
<1>9. r # 0
  BY <1>5, <1>7, <1>8
<1>10. QED
  BY <1>6, <1>7, <1>8, <1>9

LEMMA PositiveClosed == ASSUME BumpsAdd PROVE Closed(Sizes \ {0})
<1>1. \A s \in Specs : s.limit \in Sizes \ {0}
  BY ExecutorsAssumption DEF SpecType, BumpsAdd
<1>2. ASSUME NEW q \in Sizes \ {0, None}, NEW f \in ValidFactors, NEW c \in Caps
      PROVE  scaledQuantity(q, f, c) \in Sizes \ {0, None}
  <2>1. scaledQuantity(q, f, c) \in Nat \ {0}
    BY <1>2, LimitGrows
  <2>2. QED
    BY <2>1, ExecutorsAssumption DEF Sizes
<1>3. QED
  BY <1>1, <1>2 DEF Closed

\* Every bump that is written gives the container more memory, up to the cap and
\* never above it, after any history of edits, bumps and rollbacks, provided the
\* configuration lets a bump add anything (BumpsAdd).
THEOREM BumpsGrow == ASSUME BumpsAdd PROVE Spec => BumpGrows
<1> DEFINE L == Sizes \ {0}
<1>1. ASSUME ExecInv(L), [Next]_vars
      PROVE  Heals("BumpMemory") /\ Latest.spec.limit # None =>
                \/ Latest'.spec.limit = op.cap
                \/ /\ Latest'.spec.limit > Latest.spec.limit
                   /\ op.cap # None => Latest'.spec.limit < op.cap
  <2>1. SUFFICES ASSUME Heals("BumpMemory"), Latest.spec.limit # None
                 PROVE  \/ Latest'.spec.limit = op.cap
                        \/ /\ Latest'.spec.limit > Latest.spec.limit
                           /\ op.cap # None => Latest'.spec.limit < op.cap
    OBVIOUS
  <2>2. /\ op.action = "BumpMemory" /\ Latest' = Mutated(Latest)
        /\ Latest \in Templates(L) /\ OpReady(L) /\ op.step = "patch" /\ calls \in Nat
    BY <1>1, <2>1, PositiveClosed, HealsWriteLatest
  <2>3. op.factor \in ValidFactors /\ op.cap \in Caps
    BY <2>2 DEF OpReady
  <2>4. Latest.spec.limit \in Sizes \ {0, None}
    BY <2>1, <2>2 DEF Templates
  <2>5. Latest'.spec.limit = scaledQuantity(Latest.spec.limit, op.factor, op.cap)
    BY <2>1, <2>2, PositiveClosed, MutatedSound
  <2>6. QED
    BY <2>3, <2>4, <2>5, LimitGrows
<1>2. Closed(L)
  BY PositiveClosed
<1>3. Init => ExecInv(L)
  BY <1>2, InitSound
<1>4. ExecInv(L) /\ [Next]_vars => ExecInv(L)'
  BY <1>2, StepSound
<1> HIDE DEF L
<1>5. QED
  BY <1>1, <1>3, <1>4, PTL DEF Spec, BumpGrows
=============================================================================
