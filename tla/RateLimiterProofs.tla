-------------------------- MODULE RateLimiterProofs --------------------------
(***************************************************************************)
(* The rolling cap, for every window length, every set of limits and any   *)
(* number of namespaces, calls and restarts.                               *)
(*                                                                         *)
(* Neither property is inductive alone: the cap is enforced on the pruned  *)
(* list, so the invariant has to say that the list still holds every grant *)
(* of this run that a window ending now could contain (Remembered), that   *)
(* nothing lies in the future (Past), and that a namespace's grants are    *)
(* numbered in order, so that a new one joins no earlier window (Numbered).*)
(***************************************************************************)
EXTENDS RateLimiter, FiniteSetTheorems, TLAPS

Past ==
    /\ \A g \in granted : g.at <= now /\ g.life <= life
    /\ \A r \in refused : r.at <= now /\ r.life <= life

Remembered ==
    \A n \in Namespaces :
        /\ history[n] \subseteq {g \in granted : g.ns = n /\ g.life = life}
        /\ \A g \in granted :
              g.ns = n /\ g.life = life /\ g.at > now - Window => g \in history[n]

Numbered == \A g \in granted : g.id < Cardinality(GrantsOf(g.ns))

IInv == TypeOK /\ Past /\ Remembered /\ Numbered /\ WindowCap /\ RefusalsJustified

\* Windows hold finitely many grants, and a part of one no more than the whole.
LEMMA WindowsFinite ==
    ASSUME TypeOK, NEW n, NEW l, NEW t
    PROVE  /\ IsFiniteSet(InWindow(n, l, t))
           /\ Cardinality(InWindow(n, l, t)) \in Nat
           /\ \A S \in SUBSET InWindow(n, l, t) :
                 /\ IsFiniteSet(S)
                 /\ Cardinality(S) \in Nat
                 /\ Cardinality(S) <= Cardinality(InWindow(n, l, t))
<1>1. IsFiniteSet(granted)
  BY DEF TypeOK
<1>2. InWindow(n, l, t) \in SUBSET granted
  BY DEF InWindow
<1>3. IsFiniteSet(InWindow(n, l, t))
  BY <1>1, <1>2, FS_Subset
<1>4. QED
  BY <1>3, FS_Subset, FS_CardinalityType

\* What the list keeps is exactly the window that ends now.
LEMMA KeptIsWindow ==
    ASSUME TypeOK, Past, Remembered, NEW n \in Namespaces
    PROVE  Kept(n) = InWindow(n, life, now)
BY DEF TypeOK, Past, Remembered, Kept, InWindow, Grants

\* How many grants a namespace has had is a number.
LEMMA GrantsFinite ==
    ASSUME TypeOK, NEW n
    PROVE  IsFiniteSet(GrantsOf(n)) /\ Cardinality(GrantsOf(n)) \in Nat
<1>1. IsFiniteSet(GrantsOf(n))
  BY FS_Subset DEF TypeOK, GrantsOf
<1>2. QED
  BY <1>1, FS_CardinalityType

LEMMA InitIInv == Init => IInv
BY FS_EmptySet, LimiterAssumption
DEF Init, IInv, TypeOK, Past, Remembered, Numbered, WindowCap, RefusalsJustified

\* A grant adds one heal to the window that ends with it and to no earlier one.
LEMMA GrantStep ==
    ASSUME IInv, NEW n \in Namespaces, NEW max \in Limits, Grant(n, max)
    PROVE  IInv'
<1> DEFINE new == [ns |-> n, at |-> now, life |-> life,
                   id |-> Cardinality(GrantsOf(n)), max |-> max]
           Last(g) == {h \in Upto(g) : h.life = g.life}
<1>1. /\ Cardinality(Kept(n)) < max
      /\ history' = [history EXCEPT ![n] = Kept(n) \cup {new}]
      /\ granted' = granted \cup {new}
      /\ now' = now /\ life' = life /\ refused' = {}
  BY DEF Grant
<1>2. TypeOK /\ Past /\ Remembered /\ Numbered /\ WindowCap
  BY DEF IInv
<1>3. new \in Grants
  BY <1>2, GrantsFinite DEF TypeOK, Grants
<1> HIDE DEF new
<1>4. /\ new.ns = n /\ new.at = now /\ new.life = life
      /\ new.id = Cardinality(GrantsOf(n)) /\ new.max = max
  BY DEF new
<1>5. TypeOK'
  <2>1. IsFiniteSet(granted')
    BY <1>1, <1>2, FS_AddElement DEF TypeOK
  <2>2. Kept(n) \subseteq Grants
    BY <1>2 DEF TypeOK, Kept
  <2>3. QED
    BY <1>1, <1>2, <1>3, <2>1, <2>2 DEF TypeOK
<1>6. Past'
  BY <1>1, <1>2, <1>4 DEF Past, TypeOK
<1>7. Remembered'
  BY <1>1, <1>2, <1>4, LimiterAssumption DEF Remembered, TypeOK, Kept, Grants
<1>8. Numbered'
  <2>1. SUFFICES ASSUME NEW g \in granted' PROVE g.id < Cardinality(GrantsOf(g.ns)')
    BY DEF Numbered
  <2>2. CASE g.ns = n
    <3>1. GrantsOf(n)' = GrantsOf(n) \cup {new} /\ new \notin GrantsOf(n)
      <4>1. GrantsOf(n)' = GrantsOf(n) \cup {new}
        BY <1>1, <1>4 DEF GrantsOf
      <4>2. \A h \in GrantsOf(n) : h.id < Cardinality(GrantsOf(n))
        BY <1>2 DEF GrantsOf, Numbered
      <4>3. new \notin GrantsOf(n)
        BY <1>2, <1>4, <4>2, GrantsFinite
      <4>4. QED
        BY <4>1, <4>3
    <3>2. Cardinality(GrantsOf(n)') = Cardinality(GrantsOf(n)) + 1
      BY <1>2, <3>1, GrantsFinite, FS_AddElement
    <3>3. g.id \in Nat /\ g.id <= Cardinality(GrantsOf(n))
      BY <1>1, <1>2, <1>3, <1>4, <2>2, GrantsFinite DEF Numbered, TypeOK, Grants
    <3>4. QED
      BY <1>2, <2>2, <3>2, <3>3, GrantsFinite
  <2>3. CASE g.ns # n
    <3>1. GrantsOf(g.ns)' = GrantsOf(g.ns) /\ g \in granted
      BY <1>1, <1>4, <2>3 DEF GrantsOf
    <3>2. QED
      BY <1>2, <3>1 DEF Numbered
  <2>4. QED
    BY <2>2, <2>3
<1>9. WindowCap'
  <2>1. SUFFICES ASSUME NEW g \in granted' PROVE Cardinality(Last(g)') <= g.max
    BY DEF WindowCap
  <2>2. CASE g = new
    <3>1. Last(g)' \in SUBSET (Kept(n) \cup {new})
      BY <1>1, <1>2, <1>4, <2>2 DEF Upto, Kept, Remembered, TypeOK
    <3>2. IsFiniteSet(Kept(n)) /\ Cardinality(Kept(n)) \in Nat
      BY <1>2, KeptIsWindow, WindowsFinite
    <3>3. /\ IsFiniteSet(Kept(n) \cup {new})
          /\ Cardinality(Kept(n) \cup {new}) \in Nat
          /\ Cardinality(Kept(n) \cup {new}) <= Cardinality(Kept(n)) + 1
      <4>1. /\ IsFiniteSet(Kept(n) \cup {new})
            /\ \/ Cardinality(Kept(n) \cup {new}) = Cardinality(Kept(n))
               \/ Cardinality(Kept(n) \cup {new}) = Cardinality(Kept(n)) + 1
        BY <3>2, FS_AddElement
      <4>2. QED
        BY <3>2, <4>1
    <3>4. /\ Cardinality(Last(g)') \in Nat
          /\ Cardinality(Last(g)') <= Cardinality(Kept(n) \cup {new})
      BY <3>1, <3>3, FS_Subset, FS_CardinalityType
    <3>5. QED
      BY <1>1, <1>4, <2>2, <3>2, <3>3, <3>4, LimiterAssumption
  <2>3. CASE g # new
    <3>1. g \in granted /\ g.id \in Nat /\ g.id < Cardinality(GrantsOf(g.ns))
      BY <1>1, <1>2, <2>3 DEF Numbered, TypeOK, Grants
    <3>2. ~(new.ns = g.ns /\ new.id <= g.id)
      BY <1>2, <1>4, <3>1, GrantsFinite
    <3>3. Last(g)' = Last(g)
      BY <1>1, <3>2 DEF Upto
    <3>4. QED
      BY <1>2, <3>1, <3>3 DEF WindowCap
  <2>4. QED
    BY <2>2, <2>3
<1>10. RefusalsJustified'
  BY <1>1 DEF RefusalsJustified
<1>11. QED
  BY <1>5, <1>6, <1>7, <1>8, <1>9, <1>10 DEF IInv

\* A refusal records that the window was full; it changes no window.
LEMMA RefuseStep ==
    ASSUME IInv, NEW n \in Namespaces, NEW max \in Limits, Refuse(n, max)
    PROVE  IInv'
<1> DEFINE r == [ns |-> n, at |-> now, life |-> life, limit |-> max]
<1>1. /\ Cardinality(Kept(n)) >= max
      /\ history' = [history EXCEPT ![n] = Kept(n)]
      /\ refused' = {r}
      /\ now' = now /\ life' = life /\ granted' = granted
  BY DEF Refuse
<1>2. TypeOK /\ Past /\ Remembered /\ Numbered /\ WindowCap
  BY DEF IInv
<1>3. r \in Refusals
  BY <1>2 DEF TypeOK, Refusals
<1>4. TypeOK'
  <2>1. Kept(n) \subseteq Grants
    BY <1>2 DEF TypeOK, Kept
  <2>2. QED
    BY <1>1, <1>2, <1>3, <2>1 DEF TypeOK
<1>5. Past'
  BY <1>1, <1>2 DEF Past, TypeOK
<1>6. Remembered'
  BY <1>1, <1>2, LimiterAssumption DEF Remembered, TypeOK, Kept, Grants
<1>7. WindowCap' /\ Numbered'
  BY <1>1, <1>2 DEF WindowCap, Upto, Numbered, GrantsOf
<1>8. RefusalsJustified'
  <2>1. Cardinality(InWindow(n, life, now)) >= max
    BY <1>1, <1>2, KeptIsWindow
  <2>2. InWindow(n, life, now)' = InWindow(n, life, now)
    BY <1>1 DEF InWindow
  <2>3. Cardinality(InWindow(r.ns, r.life, r.at)') >= r.limit
    BY <1>1, <2>1, <2>2
  <2>4. QED
    BY <1>1, <2>3 DEF RefusalsJustified
<1>9. QED
  BY <1>4, <1>5, <1>6, <1>7, <1>8 DEF IInv

\* As time passes, the list may hold more than the window, never less.
LEMMA TickStep == ASSUME IInv, Tick PROVE IInv'
<1>1. now' = now + 1 /\ refused' = {} /\ UNCHANGED <<life, history, granted>>
  BY DEF Tick
<1>2. TypeOK /\ Past /\ Remembered /\ Numbered /\ WindowCap
  BY DEF IInv
<1>3. TypeOK' /\ Past' /\ Remembered' /\ RefusalsJustified'
  BY <1>1, <1>2, LimiterAssumption
  DEF TypeOK, Past, Remembered, RefusalsJustified, Grants
<1>4. WindowCap' /\ Numbered'
  BY <1>1, <1>2 DEF WindowCap, Upto, Numbered, GrantsOf
<1>5. QED
  BY <1>3, <1>4 DEF IInv

\* A restart begins a run that has granted nothing.
LEMMA RestartStep == ASSUME IInv, Restart PROVE IInv'
<1>1. /\ life' = life + 1 /\ refused' = {}
      /\ history' = [n \in Namespaces |-> {}]
      /\ UNCHANGED <<now, granted>>
  BY DEF Restart
<1>2. TypeOK /\ Past /\ Remembered /\ Numbered /\ WindowCap
  BY DEF IInv
<1>3. TypeOK' /\ Past' /\ Remembered' /\ RefusalsJustified'
  BY <1>1, <1>2
  DEF TypeOK, Past, Remembered, RefusalsJustified, Grants
<1>4. WindowCap' /\ Numbered'
  BY <1>1, <1>2 DEF WindowCap, Upto, Numbered, GrantsOf
<1>5. QED
  BY <1>3, <1>4 DEF IInv

LEMMA NextIInv == IInv /\ [Next]_vars => IInv'
<1>1. SUFFICES ASSUME IInv, [Next]_vars PROVE IInv'
  OBVIOUS
<1>2. CASE Next
  BY <1>1, <1>2, GrantStep, RefuseStep, TickStep, RestartStep DEF Next
<1>3. CASE UNCHANGED vars
  <2>1. /\ now' = now /\ life' = life /\ history' = history
        /\ granted' = granted /\ refused' = refused
    BY <1>3 DEF vars
  <2>2. TypeOK' /\ Past' /\ Remembered'
    BY <1>1, <2>1 DEF IInv, TypeOK, Past, Remembered
  <2>3. WindowCap' /\ Numbered'
    BY <1>1, <2>1 DEF IInv, WindowCap, Upto, Numbered, GrantsOf
  <2>4. \A n, l, t : InWindow(n, l, t)' = InWindow(n, l, t)
    BY <2>1 DEF InWindow
  <2>5. RefusalsJustified'
    BY <1>1, <2>1, <2>4 DEF IInv, RefusalsJustified
  <2>6. QED
    BY <2>2, <2>3, <2>5 DEF IInv
<1>4. QED
  BY <1>1, <1>2, <1>3

LEMMA Invariance == Spec => []IInv
BY InitIInv, NextIInv, PTL DEF Spec

\* reserve keeps to the rolling cap: whenever it grants a heal, the heals that
\* run of the operator granted the namespace in the window up to and including it
\* are no more than the limit the call passed.
THEOREM LimiterCaps == Spec => []WindowCap
<1>1. IInv => WindowCap
  BY DEF IInv
<1>2. QED
  BY <1>1, Invariance, PTL

\* reserve refuses only when the window is full.
THEOREM LimiterRefusesOnlyWhenFull == Spec => []RefusalsJustified
<1>1. IInv => RefusalsJustified
  BY DEF IInv
<1>2. QED
  BY <1>1, Invariance, PTL
=============================================================================
