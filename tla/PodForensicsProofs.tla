------------------------- MODULE PodForensicsProofs -------------------------
(***************************************************************************)
(* Proofs about PodForensics, for any number of containers, any threshold  *)
(* and any number of restarts.                                             *)
(*                                                                         *)
(* The argument numbers the ends of a container.  The restart count that   *)
(* detectPodDeath reports is one less than the number of the container's   *)
(* latest end until the container starts again (Numbered), ends are never  *)
(* renumbered or forgotten while they can be reported (Advances), and so a *)
(* restart count below the threshold names the crash (CrashSound).         *)
(***************************************************************************)
EXTENDS PodForensics, WellFoundedInduction, TLAPS

Id(e) == IF e = None THEN 0 ELSE e.id

\* The restart count and the ends a ContainerStatus shows agree.
Numbered(s) ==
    /\ s.state = "Terminated" <=> s.now # None
    /\ s.now # None => s.now.id = Id(s.last) + 1
    /\ s.state = "Running" => s.restarts = Id(s.last)
    /\ s.state # "Running" /\ LatestEnd(s) # None => s.restarts + 1 = LatestEnd(s).id
    /\ LatestEnd(s) = None => s.restarts = 0

\* A container whose status goes from s to t: the latest end is the same or a
\* later one.
Advances(s, t) ==
    /\ t.restarts >= s.restarts
    /\ LatestEnd(s) # None =>
        /\ LatestEnd(t) # None
        /\ LatestEnd(t) = LatestEnd(s) \/ LatestEnd(t).id > LatestEnd(s).id

\* The latest crash sighted, k, of a container with status s: it is not later
\* than the latest end, and below the threshold its restart count gives its number.
CrashSound(s, k) ==
    /\ LatestEnd(s) # None /\ k.end.id <= LatestEnd(s).id
    /\ k.end.id = LatestEnd(s).id => k.end = LatestEnd(s)
    /\ k.restarts < Threshold => k.end.id = k.restarts + 1

AllNumbered == \A c \in Containers : Numbered(status[c])

ShownBehind ==
    shown # None => IF focus = 0 THEN shown.restarts = 0
                                 ELSE shown.restarts <= status[focus].restarts

CrashKept == crash # None => focus \in Containers /\ CrashSound(status[focus], crash)

ForensicsInv == TypeOK /\ AllNumbered /\ ShownBehind /\ CrashKept /\ OomVerdicts

-----------------------------------------------------------------------------
(* The kubelet.                                                            *)

LEMMA EndTypes ==
    ASSUME NEW s \in ContainerStatuses
    PROVE  /\ s.now \in Terminations \cup {None} /\ s.last \in Terminations \cup {None}
           /\ LatestEnd(s) \in Terminations \cup {None}
           /\ s.restarts \in Nat /\ s.state \in States
BY DEF ContainerStatuses, LatestEnd

LEMMA TerminationTypes ==
    ASSUME NEW e \in Terminations
    PROVE  e # None /\ e.id \in Nat \ {0} /\ e.how \in AllExits /\ Id(e) = e.id
BY ForensicsAssumption DEF Terminations, Id

LEMMA StartAdvances ==
    ASSUME NEW s \in ContainerStatuses, Numbered(s), s.state # "Running",
           NEW n, n = s.restarts + (IF LatestEnd(s) = None THEN 0 ELSE 1),
           NEW t, t = [state |-> "Running", now |-> None, last |-> LatestEnd(s), restarts |-> n]
    PROVE  t \in ContainerStatuses /\ Numbered(t) /\ Advances(s, t)
<1>1. /\ s.restarts \in Nat /\ LatestEnd(s) \in Terminations \cup {None}
      /\ t.state = "Running" /\ t.now = None /\ t.last = LatestEnd(s) /\ t.restarts = n
  BY EndTypes
<1>2. LatestEnd(t) = LatestEnd(s)
  BY <1>1 DEF LatestEnd
<1>3. CASE LatestEnd(s) = None
  <2>1. n = 0 /\ s.restarts = 0
    BY <1>1, <1>3 DEF Numbered
  <2>2. t \in ContainerStatuses
    BY <1>3, <2>1 DEF ContainerStatuses, States
  <2>3. QED
    BY <1>1, <1>2, <1>3, <2>1, <2>2 DEF Numbered, Advances, Id
<1>4. CASE LatestEnd(s) # None
  <2>1. LatestEnd(s).id \in Nat \ {0} /\ Id(LatestEnd(s)) = LatestEnd(s).id
    BY <1>1, <1>4, TerminationTypes
  <2>2. n = LatestEnd(s).id /\ n \in Nat /\ n >= s.restarts
    BY <1>1, <1>4, <2>1 DEF Numbered
  <2>3. t \in ContainerStatuses
    BY <1>1, <2>2 DEF ContainerStatuses, States
  <2>4. QED
    BY <1>1, <1>2, <1>4, <2>1, <2>2, <2>3 DEF Numbered, Advances
<1>5. QED
  BY <1>3, <1>4

LEMMA EndAdvances ==
    ASSUME NEW s \in ContainerStatuses, Numbered(s), s.state = "Running",
           NEW how \in AllExits
    PROVE  /\ Ended(s, how) \in ContainerStatuses
           /\ Numbered(Ended(s, how)) /\ Advances(s, Ended(s, how))
<1>1. /\ s.now = None /\ LatestEnd(s) = s.last /\ s.restarts = Id(s.last)
      /\ s.restarts \in Nat /\ s.last \in Terminations \cup {None}
  BY EndTypes DEF Numbered, LatestEnd
<1>2. Id(s.last) \in Nat /\ Id(s.last) + 1 \in Nat \ {0} /\ (s.last # None => Id(s.last) = s.last.id)
  BY <1>1, TerminationTypes DEF Id
<1>3. PICK e \in Terminations : e = [id |-> Id(s.last) + 1, how |-> how]
  BY <1>2 DEF Terminations
<1>4. e.id = Id(s.last) + 1 /\ e # None
  BY <1>3, TerminationTypes
<1>5. PICK t : t = Ended(s, how)
  OBVIOUS
<1>6. t = [s EXCEPT !.state = "Terminated", !.now = e]
  BY <1>3, <1>5 DEF Ended, Id
<1>7. /\ t \in ContainerStatuses
      /\ t.state = "Terminated" /\ t.now = e /\ t.last = s.last /\ t.restarts = s.restarts
  BY <1>6 DEF ContainerStatuses, States
<1>8. LatestEnd(t) = e
  BY <1>4, <1>7 DEF LatestEnd
<1>9. Numbered(t)
  BY <1>1, <1>2, <1>4, <1>7, <1>8 DEF Numbered
<1>10. Advances(s, t)
  BY <1>1, <1>2, <1>4, <1>7, <1>8 DEF Advances
<1>11. QED
  BY <1>5, <1>7, <1>9, <1>10

LEMMA PutOffAdvances ==
    ASSUME NEW s \in ContainerStatuses, Numbered(s), s.state # "Running",
           NEW st \in {"CrashLoopBackOff", "ImagePullBackOff"}
    PROVE  /\ PutOff(s, st) \in ContainerStatuses
           /\ Numbered(PutOff(s, st)) /\ Advances(s, PutOff(s, st))
<1>1. PICK t : t = PutOff(s, st)
  OBVIOUS
<1>2. /\ s.restarts \in Nat /\ LatestEnd(s) \in Terminations \cup {None}
  BY EndTypes
<1>3. /\ t \in ContainerStatuses
      /\ t.state = st /\ t.now = None /\ t.last = LatestEnd(s) /\ t.restarts = s.restarts
  BY <1>1, <1>2 DEF ContainerStatuses, States, PutOff
<1>4. LatestEnd(t) = LatestEnd(s)
  BY <1>3 DEF LatestEnd
<1>5. Numbered(t)
  BY <1>3, <1>4 DEF Numbered
<1>6. Advances(s, t)
  BY <1>2, <1>3, <1>4 DEF Advances
<1>7. QED
  BY <1>1, <1>3, <1>5, <1>6

\* A step of the kubelet moves one container on, and no container back.
LEMMA StatusAdvances ==
    ASSUME TypeOK, AllNumbered, [Next]_vars
    PROVE  /\ status' \in [Containers -> ContainerStatuses]
           /\ \A c \in Containers : Numbered(status'[c]) /\ Advances(status[c], status'[c])
<1>1. \A c \in Containers : status[c] \in ContainerStatuses /\ Numbered(status[c])
  BY DEF TypeOK, AllNumbered
<1>2. \A s \in ContainerStatuses : Advances(s, s)
  BY EndTypes DEF Advances, LatestEnd
<1>3. CASE UNCHANGED status
  BY <1>1, <1>2, <1>3 DEF TypeOK
<1>4. ASSUME NEW c \in Containers, NEW t \in ContainerStatuses, Set(c, t),
             Numbered(t), Advances(status[c], t)
      PROVE  /\ status' \in [Containers -> ContainerStatuses]
             /\ \A b \in Containers : Numbered(status'[b]) /\ Advances(status[b], status'[b])
  BY <1>1, <1>2, <1>4 DEF Set, TypeOK
<1>5. ASSUME NEW c \in Containers, Started(c)
      PROVE  /\ status' \in [Containers -> ContainerStatuses]
             /\ \A b \in Containers : Numbered(status'[b]) /\ Advances(status[b], status'[b])
  <2>1. PICK s \in ContainerStatuses : s = status[c]
    BY <1>1
  <2>2. PICK n : n = s.restarts + (IF LatestEnd(s) = None THEN 0 ELSE 1)
    OBVIOUS
  <2>3. PICK t : t = [state |-> "Running", now |-> None, last |-> LatestEnd(s), restarts |-> n]
    OBVIOUS
  <2>4. s.state # "Running" /\ Set(c, t)
    BY <1>5, <2>1, <2>2, <2>3 DEF Started
  <2>5. t \in ContainerStatuses /\ Numbered(t) /\ Advances(s, t)
    BY <1>1, <2>1, <2>2, <2>3, <2>4, StartAdvances
  <2>6. QED
    BY <1>4, <2>1, <2>4, <2>5
<1>6. ASSUME NEW c \in Containers, NEW how \in AllExits, status[c].state = "Running",
             Set(c, Ended(status[c], how))
      PROVE  /\ status' \in [Containers -> ContainerStatuses]
             /\ \A b \in Containers : Numbered(status'[b]) /\ Advances(status[b], status'[b])
  BY <1>1, <1>4, <1>6, EndAdvances
<1>7. ASSUME NEW c \in Containers, NEW st \in {"CrashLoopBackOff", "ImagePullBackOff"},
             status[c].state # "Running", Set(c, PutOff(status[c], st))
      PROVE  /\ status' \in [Containers -> ContainerStatuses]
             /\ \A b \in Containers : Numbered(status'[b]) /\ Advances(status[b], status'[b])
  BY <1>1, <1>4, <1>7, PutOffAdvances
<1>8. ASSUME NEW c \in Containers, Exit(c) \/ Unhealthy(c)
      PROVE  \/ UNCHANGED status
             \/ /\ status[c].state = "Running"
                /\ \E how \in AllExits : Set(c, Ended(status[c], how))
  BY <1>8, ForensicsAssumption DEF Exit, Unhealthy
<1>9. ASSUME NEW c \in Containers, BackOff(c) \/ PullFails(c)
      PROVE  /\ status[c].state # "Running"
             /\ \E st \in {"CrashLoopBackOff", "ImagePullBackOff"} :
                    Set(c, PutOff(status[c], st))
  BY <1>9 DEF BackOff, PullFails
<1>10. QED
  BY <1>3, <1>5, <1>6, <1>7, <1>8, <1>9 DEF Next, vars, Evict, Expire, Observe

\* What is known of the crash survives.
LEMMA CrashStaysSound ==
    ASSUME NEW s \in ContainerStatuses, NEW t \in ContainerStatuses, Advances(s, t),
           NEW k \in Crashes, CrashSound(s, k)
    PROVE  CrashSound(t, k)
<1>1. /\ LatestEnd(s) \in Terminations /\ LatestEnd(t) \in Terminations
      /\ k.end \in Terminations
  BY EndTypes DEF CrashSound, Advances, Crashes
<1>2. /\ LatestEnd(s).id \in Nat /\ LatestEnd(t).id \in Nat /\ k.end.id \in Nat
  BY <1>1, TerminationTypes
<1>3. /\ LatestEnd(t) # None /\ k.end.id <= LatestEnd(t).id
      /\ k.end.id = LatestEnd(t).id => k.end = LatestEnd(t)
  BY <1>1, <1>2 DEF Advances, CrashSound
<1>4. QED
  BY <1>3 DEF CrashSound

-----------------------------------------------------------------------------
(* detectPodDeath and Diagnose.                                            *)

LEMMA MinIsMember == ASSUME NEW S \in SUBSET Nat, S # {} PROVE Min(S) \in S
<1> DEFINE R == OpToRel(<, Nat)
<1>1. PICK x \in S : \A y \in S : ~(<<y, x>> \in R)
  BY NatLessThanWellFounded, WFMin
<1>2. \A y \in Nat : <<y, x>> \in R <=> y < x
  BY DEF OpToRel
<1>3. ASSUME NEW y \in S PROVE x =< y
  <2>1. ~(y < x)
    <3> HIDE DEF R
    <3>1. QED
      BY <1>1, <1>2
  <2>2. QED
    BY <2>1
<1>4. QED
  BY <1>3 DEF Min

\* A death is an eviction, or that of a container that shows one.
LEMMA DeathForms ==
    ASSUME NEW d \in PodDeaths
    PROVE  \/ d = Death(0, 0, None, "Evicted")
           \/ \E c \in Containers : Dying(status[c]) /\ d = ContainerDeath(c)
<1> DEFINE dying == {c \in Containers : Dying(status[c])}
<1>1. CASE evicted /\ WatchEvictions
  BY <1>1 DEF PodDeaths
<1>2. CASE ~(evicted /\ WatchEvictions)
  <2>1. dying # {} /\ d = ContainerDeath(Min(dying))
    BY <1>2 DEF PodDeaths
  <2>2. dying \in SUBSET Nat
    BY ForensicsAssumption DEF Containers
  <2>3. Min(dying) \in dying
    BY <2>1, <2>2, MinIsMember
  <2>4. QED
    BY <2>1, <2>3
<1>3. QED
  BY <1>1, <1>2

\* The end a death rests on is the container's latest, or the one before it where
\* the restart threshold alone makes it a death; below the threshold its number
\* is the restart count plus one.
LEMMA TerminationSound ==
    ASSUME NEW s \in ContainerStatuses, Numbered(s), Dying(s),
           NEW e, e = Termination(s), e # None
    PROVE  /\ e \in Terminations /\ LatestEnd(s) \in Terminations
           /\ e = LatestEnd(s) \/ e.id < LatestEnd(s).id
           /\ s.restarts < Threshold => e = LatestEnd(s) /\ e.id = s.restarts + 1
<1>1. /\ s.now \in Terminations \cup {None} /\ s.last \in Terminations \cup {None}
      /\ s.restarts \in Nat /\ Threshold \in Nat
  BY EndTypes, ForensicsAssumption
<1>2. CASE Failed(s)
  <2>1. e = s.now /\ s.now # None /\ s.state = "Terminated" /\ s.now.how # "ok"
    BY <1>2 DEF Failed, Termination, Numbered
  <2>2. LatestEnd(s) = s.now
    BY <2>1 DEF LatestEnd
  <2>3. QED
    BY <1>1, <1>2, <2>1, <2>2 DEF Numbered
<1>3. CASE ~Failed(s)
  <2>1. s.state # "ImagePullBackOff" /\ e = s.last
    BY <1>3 DEF Termination
  <2>2. e \in Terminations /\ e.id \in Nat /\ Id(s.last) = e.id
    BY <1>1, <2>1, TerminationTypes
  <2>3. CASE s.now = None
    <3>1. LatestEnd(s) = e
      BY <2>1, <2>3 DEF LatestEnd
    <3>2. s.restarts < Threshold => s.state = "CrashLoopBackOff"
      BY <1>1, <1>3, <2>1 DEF Dying, Waiting
    <3>3. QED
      BY <2>2, <3>1, <3>2 DEF Numbered
  <2>4. CASE s.now # None
    <3>1. LatestEnd(s) = s.now /\ s.now \in Terminations
      BY <1>1, <2>4 DEF LatestEnd
    <3>2. s.now.id = e.id + 1 /\ s.state = "Terminated"
      BY <2>2, <2>4 DEF Numbered
    <3>3. ~(s.restarts < Threshold)
      BY <1>1, <1>3, <3>2 DEF Dying, Waiting
    <3>4. QED
      BY <2>2, <3>1, <3>2, <3>3
  <2>5. QED
    BY <2>3, <2>4
<1>4. QED
  BY <1>2, <1>3

\* What the verdict on a death that rests on the end e says.
VerdictSound(e, cause) ==
    /\ cause \in Causes
    /\ cause = "OutOfMemory" <=> e # None /\ e.how = "oom"

LEMMA DiagnoseSound ==
    ASSUME NEW d, NEW liveness \in BOOLEAN, NEW cause, cause = Diagnose(d, liveness).cause
    PROVE  VerdictSound(d.end, cause)
BY DEF Diagnose, Verdict, Causes, EndedBy, VerdictSound

\* A reconcile's sighting is about the pod, or about a container that is dying.
LEMMA ObserveForms ==
    ASSUME TypeOK, Observe
    PROVE  \E cause \in Causes :
           \/ /\ focus = 0 /\ cause # "OutOfMemory"
              /\ shown' = [restarts |-> 0, end |-> None, cause |-> cause]
              /\ crash' = crash
           \/ /\ focus \in Containers /\ Dying(status[focus])
              /\ VerdictSound(Termination(status[focus]), cause)
              /\ shown' = [restarts |-> status[focus].restarts,
                           end |-> Termination(status[focus]), cause |-> cause]
              /\ crash' = CrashAfter(crash, shown')
<1>1. PICK d \in PodDeaths, liveness \in {events, FALSE} :
          LET s == Sighting(d, Diagnose(d, liveness))
          IN  /\ d.container = focus
              /\ shown' = s
              /\ crash' = CrashAfter(crash, s)
  BY DEF Observe
<1>2. PICK cause : cause = Diagnose(d, liveness).cause
  OBVIOUS
<1>3. /\ shown' = [restarts |-> d.restarts, end |-> d.end, cause |-> cause]
      /\ crash' = CrashAfter(crash, shown')
  BY <1>1, <1>2 DEF Sighting
<1>4. CASE d = Death(0, 0, None, "Evicted")
  <2>1. d.container = 0 /\ d.restarts = 0 /\ d.end = None
    BY <1>4 DEF Death
  <2>2. focus = 0 /\ cause # "OutOfMemory" /\ cause \in Causes
    BY <1>1, <1>2, <2>1 DEF Diagnose, Verdict, Causes, EndedBy
  <2>3. crash' = crash
    BY <1>3, <2>1 DEF CrashAfter
  <2>4. QED
    BY <1>3, <2>1, <2>2, <2>3
<1>5. ASSUME NEW c \in Containers, Dying(status[c]), d = ContainerDeath(c)
      PROVE  /\ cause \in Causes /\ focus \in Containers /\ Dying(status[focus])
             /\ VerdictSound(Termination(status[focus]), cause)
             /\ shown' = [restarts |-> status[focus].restarts,
                          end |-> Termination(status[focus]), cause |-> cause]
  <2>1. /\ d.container = c /\ d.restarts = status[c].restarts
        /\ d.end = Termination(status[c])
    BY <1>5 DEF ContainerDeath, Death
  <2>2. liveness \in BOOLEAN
    BY DEF TypeOK
  <2>3. VerdictSound(d.end, cause)
    BY <1>2, <2>2, DiagnoseSound
  <2>4. QED
    BY <1>1, <1>3, <1>5, <2>1, <2>3 DEF VerdictSound
<1>6. QED
  BY <1>3, <1>4, <1>5, DeathForms

-----------------------------------------------------------------------------
(* The history.                                                            *)

\* The crash a sighting of a dying container leaves.
LEMMA CrashAfterSound ==
    ASSUME NEW s \in ContainerStatuses, Numbered(s), Dying(s),
           NEW e, e = Termination(s), NEW cause, VerdictSound(e, cause),
           NEW old \in Crashes \cup {None}, old # None => CrashSound(s, old),
           NEW new, new = CrashAfter(old, [restarts |-> s.restarts, end |-> e, cause |-> cause])
    PROVE  new \in Crashes \cup {None} /\ (new # None => CrashSound(s, new))
<1>1. CASE e = None
  BY <1>1 DEF CrashAfter
<1>2. CASE e # None
  <2>1. /\ e \in Terminations /\ LatestEnd(s) \in Terminations
        /\ e = LatestEnd(s) \/ e.id < LatestEnd(s).id
        /\ s.restarts < Threshold => e.id = s.restarts + 1
    BY <1>2, TerminationSound
  <2>2. /\ e # None /\ LatestEnd(s) # None /\ e.id \in Nat /\ LatestEnd(s).id \in Nat
        /\ s.restarts \in Nat /\ cause \in Causes
    BY <2>1, TerminationTypes, EndTypes DEF VerdictSound
  <2>4. CASE old # None /\ old.end = e
    <3>1. PICK k \in Crashes : k = old
      BY <2>4
    <3>2. new = [k EXCEPT !.causes = k.causes \cup {cause}]
      BY <1>2, <2>4, <3>1 DEF CrashAfter
    <3>3. /\ new \in Crashes /\ new.end = e /\ new.restarts = k.restarts
          /\ new.causes = k.causes \cup {cause}
      BY <2>2, <2>4, <3>1, <3>2 DEF Crashes
    <3>4. CrashSound(s, k) /\ k.end = e
      BY <2>4, <3>1
    <3>5. QED
      BY <3>3, <3>4 DEF CrashSound
  <2>5. CASE ~(old # None /\ old.end = e)
    <3>1. new = [restarts |-> s.restarts, end |-> e, causes |-> {cause}]
      BY <1>2, <2>5 DEF CrashAfter
    <3>2. new \in Crashes /\ new.end = e /\ new.restarts = s.restarts /\ new.causes = {cause}
      BY <2>1, <2>2, <3>1 DEF Crashes
    <3>3. QED
      BY <2>1, <2>2, <3>2 DEF CrashSound
  <2>6. QED
    BY <2>4, <2>5
<1>3. QED
  BY <1>1, <1>2

LEMMA InitForensicsInv == Init => ForensicsInv
<1>1. SUFFICES ASSUME Init PROVE ForensicsInv
  OBVIOUS
<1>2. PICK s : s = [state |-> "Creating", now |-> None, last  |-> None, restarts |-> 0]
  OBVIOUS
<1>3. s \in ContainerStatuses /\ Numbered(s)
  BY <1>2 DEF ContainerStatuses, States, Numbered, LatestEnd
<1>4. \A c \in Containers : status[c] = s
  BY <1>1, <1>2 DEF Init
<1>5. TypeOK
  BY <1>1, <1>2, <1>3 DEF Init, TypeOK
<1>6. AllNumbered
  BY <1>3, <1>4 DEF AllNumbered
<1>7. ShownBehind /\ CrashKept /\ OomVerdicts
  BY <1>1 DEF Init, ShownBehind, CrashKept, OomVerdicts
<1>8. QED
  BY <1>5, <1>6, <1>7 DEF ForensicsInv

LEMMA NextForensicsInv == ForensicsInv /\ [Next]_vars => ForensicsInv'
<1> SUFFICES ASSUME ForensicsInv, [Next]_vars PROVE ForensicsInv'
  OBVIOUS
<1> USE DEF ForensicsInv
<1>1. /\ status' \in [Containers -> ContainerStatuses]
      /\ \A c \in Containers : Numbered(status'[c]) /\ Advances(status[c], status'[c])
  BY StatusAdvances
<1>2. AllNumbered'
  BY <1>1 DEF AllNumbered, Numbered, LatestEnd, Id
<1>3. CASE UNCHANGED history /\ unhealthy' \in Nat /\ evicted' \in BOOLEAN /\ events' \in BOOLEAN
  <2>1. TypeOK' /\ OomVerdicts'
    BY <1>1, <1>3 DEF TypeOK, OomVerdicts, history
  <2>2. ShownBehind'
    <3>1. CASE shown # None /\ focus # 0
      <4>1. focus \in Containers /\ shown.restarts \in Nat
        BY <3>1 DEF TypeOK, Subjects, Sightings
      <4>2. status[focus].restarts \in Nat /\ status'[focus].restarts \in Nat
        BY <1>1, <4>1, EndTypes DEF TypeOK
      <4>3. status'[focus].restarts >= status[focus].restarts
        BY <1>1, <4>1 DEF Advances
      <4>4. QED
        BY <1>3, <3>1, <4>1, <4>2, <4>3 DEF ShownBehind, history
    <3>2. QED
      BY <1>3, <3>1 DEF ShownBehind, history
  <2>3. CrashKept'
    <3>1. CASE crash # None
      <4>1. focus \in Containers /\ CrashSound(status[focus], crash) /\ crash \in Crashes
        BY <3>1 DEF CrashKept, TypeOK
      <4>2. status[focus] \in ContainerStatuses /\ status'[focus] \in ContainerStatuses
        BY <1>1, <4>1 DEF TypeOK
      <4>3. CrashSound(status'[focus], crash)
        BY <1>1, <4>1, <4>2, CrashStaysSound
      <4>4. focus' = focus /\ crash' = crash
        BY <1>3 DEF history
      <4>5. QED
        BY <4>1, <4>3, <4>4 DEF CrashKept, CrashSound, LatestEnd
    <3>2. QED
      BY <1>3, <3>1 DEF CrashKept, history
  <2>4. QED
    BY <1>2, <2>1, <2>2, <2>3
<1>4. CASE Observe
  <2>1. PICK cause \in Causes :
           \/ /\ focus = 0 /\ cause # "OutOfMemory"
              /\ shown' = [restarts |-> 0, end |-> None, cause |-> cause]
              /\ crash' = crash
           \/ /\ focus \in Containers /\ Dying(status[focus])
              /\ VerdictSound(Termination(status[focus]), cause)
              /\ shown' = [restarts |-> status[focus].restarts,
                           end |-> Termination(status[focus]), cause |-> cause]
              /\ crash' = CrashAfter(crash, shown')
    BY <1>4, ObserveForms
  <2>2. UNCHANGED <<status, evicted, unhealthy, events, focus>>
    BY <1>4 DEF Observe
  <2>3. CASE /\ focus = 0 /\ cause # "OutOfMemory"
             /\ shown' = [restarts |-> 0, end |-> None, cause |-> cause]
             /\ crash' = crash
    <3>1. shown' \in Sightings /\ shown'.restarts = 0 /\ shown'.end = None /\ shown'.cause = cause
      BY <2>3 DEF Sightings
    <3>2. crash = None
      BY <2>3 DEF CrashKept, Containers
    <3>3. QED
      BY <1>2, <2>2, <2>3, <3>1, <3>2 DEF TypeOK, ShownBehind, CrashKept, OomVerdicts
  <2>4. CASE /\ focus \in Containers /\ Dying(status[focus])
             /\ VerdictSound(Termination(status[focus]), cause)
             /\ shown' = [restarts |-> status[focus].restarts,
                          end |-> Termination(status[focus]), cause |-> cause]
             /\ crash' = CrashAfter(crash, shown')
    <3>1. PICK s \in ContainerStatuses : s = status[focus]
      BY <2>4 DEF TypeOK
    <3>2. PICK e : e = Termination(s)
      OBVIOUS
    <3>3. Numbered(s) /\ Dying(s) /\ VerdictSound(e, cause) /\ s.restarts \in Nat
      BY <2>4, <3>1, <3>2, EndTypes DEF AllNumbered
    <3>4. e \in Terminations \cup {None}
      BY <3>2, <3>3, TerminationSound
    <3>5. shown' = [restarts |-> s.restarts, end |-> e, cause |-> cause]
      BY <2>4, <3>1, <3>2
    <3>6. /\ shown' \in Sightings /\ shown'.restarts = s.restarts /\ shown'.end = e
          /\ shown'.cause = cause
      BY <3>3, <3>4, <3>5 DEF Sightings
    <3>7. crash \in Crashes \cup {None} /\ (crash # None => CrashSound(s, crash))
      BY <3>1 DEF TypeOK, CrashKept
    <3>8. crash' \in Crashes \cup {None} /\ (crash' # None => CrashSound(s, crash'))
      BY <2>4, <3>2, <3>3, <3>5, <3>7, CrashAfterSound
    <3>9. TypeOK'
      BY <2>2, <3>6, <3>8 DEF TypeOK
    <3>10. ShownBehind'
      <4>1. focus # 0
        BY <2>4 DEF Containers
      <4>2. QED
        BY <2>2, <3>1, <3>3, <3>6, <4>1 DEF ShownBehind
    <3>11. CrashKept'
      <4>1. status'[focus'] = s /\ focus' \in Containers
        BY <2>2, <2>4, <3>1
      <4>2. QED
        BY <3>8, <4>1 DEF CrashKept, CrashSound, LatestEnd
    <3>12. OomVerdicts'
      BY <3>3, <3>6 DEF OomVerdicts, VerdictSound
    <3>13. QED
      BY <1>2, <3>9, <3>10, <3>11, <3>12
  <2>5. QED
    BY <2>1, <2>3, <2>4
<1>5. unhealthy \in Nat /\ evicted \in BOOLEAN /\ events \in BOOLEAN
  BY DEF TypeOK
<1>6. ASSUME NEW c \in Containers, Unhealthy(c)
      PROVE  UNCHANGED history /\ unhealthy' \in Nat /\ evicted' \in BOOLEAN /\ events' \in BOOLEAN
  BY <1>5, <1>6 DEF Unhealthy
<1>7. ASSUME NEW c \in Containers, Started(c) \/ Exit(c) \/ BackOff(c) \/ PullFails(c)
      PROVE  UNCHANGED <<evicted, unhealthy, events, history>>
  BY <1>7 DEF Started, Exit, BackOff, PullFails
<1>8. CASE Evict \/ Expire
  BY <1>3, <1>5, <1>8 DEF Evict, Expire
<1>9. CASE UNCHANGED vars
  BY <1>3, <1>5, <1>9 DEF vars
<1>10. QED
  BY <1>3, <1>4, <1>5, <1>6, <1>7, <1>8, <1>9 DEF Next

-----------------------------------------------------------------------------
(* Theorems.                                                               *)

LEMMA ForensicsHolds == Spec => []ForensicsInv
BY InitForensicsInv, NextForensicsInv, PTL DEF Spec

\* Statuses, sightings and crashes keep their types: detectPodDeath finds an end
\* wherever it says the container ended badly, and every death gets a verdict.
THEOREM ForensicsTypeCorrect == Spec => []TypeOK
<1>1. ForensicsInv => TypeOK
  BY DEF ForensicsInv
<1>2. QED
  BY <1>1, ForensicsHolds, PTL

\* Diagnose says OutOfMemory exactly of the crashes that were OOM kills, whatever
\* events, back-offs and evictions show besides.
THEOREM OomVerdictsExact == Spec => []OomVerdicts
<1>1. ForensicsInv => OomVerdicts
  BY DEF ForensicsInv
<1>2. QED
  BY <1>1, ForensicsHolds, PTL

\* What a step does to the latest sighting and the latest crash.
LEMMA HistoryStep ==
    ASSUME ForensicsInv, [Next]_vars
    PROVE  \/ UNCHANGED <<shown, crash>>
           \/ focus = 0 /\ shown'.restarts = 0 /\ shown'.end = None /\ crash' = crash
           \/ /\ focus \in Containers
              /\ \E s \in ContainerStatuses, e \in Terminations \cup {None}, cause \in Causes :
                    /\ s = status[focus] /\ Numbered(s) /\ Dying(s)
                    /\ e = Termination(s) /\ VerdictSound(e, cause)
                    /\ shown'.restarts = s.restarts /\ shown'.end = e
                    /\ crash' = CrashAfter(crash, [restarts |-> s.restarts, end |-> e, cause |-> cause])
<1>1. CASE Observe
  <2>1. PICK cause \in Causes :
           \/ /\ focus = 0 /\ cause # "OutOfMemory"
              /\ shown' = [restarts |-> 0, end |-> None, cause |-> cause]
              /\ crash' = crash
           \/ /\ focus \in Containers /\ Dying(status[focus])
              /\ VerdictSound(Termination(status[focus]), cause)
              /\ shown' = [restarts |-> status[focus].restarts,
                           end |-> Termination(status[focus]), cause |-> cause]
              /\ crash' = CrashAfter(crash, shown')
    BY <1>1, ObserveForms DEF ForensicsInv
  <2>2. CASE focus = 0 /\ shown' = [restarts |-> 0, end |-> None, cause |-> cause] /\ crash' = crash
    BY <2>2
  <2>3. CASE /\ focus \in Containers /\ Dying(status[focus])
             /\ VerdictSound(Termination(status[focus]), cause)
             /\ shown' = [restarts |-> status[focus].restarts,
                          end |-> Termination(status[focus]), cause |-> cause]
             /\ crash' = CrashAfter(crash, shown')
    <3>1. PICK s \in ContainerStatuses : s = status[focus]
      BY <2>3 DEF ForensicsInv, TypeOK
    <3>2. PICK e : e = Termination(s)
      OBVIOUS
    <3>3. Numbered(s) /\ Dying(s) /\ VerdictSound(e, cause)
      BY <2>3, <3>1, <3>2 DEF ForensicsInv, AllNumbered
    <3>4. e \in Terminations \cup {None}
      BY <3>2, <3>3, TerminationSound
    <3>5. shown' = [restarts |-> s.restarts, end |-> e, cause |-> cause]
      BY <2>3, <3>1, <3>2
    <3>6. shown'.restarts = s.restarts /\ shown'.end = e
      BY <3>5
    <3>7. QED
      BY <2>3, <3>1, <3>2, <3>3, <3>4, <3>5, <3>6
  <2>4. QED
    BY <2>1, <2>2, <2>3
<1>2. CASE UNCHANGED history
  BY <1>2 DEF history
<1>3. QED
  BY <1>1, <1>2
  DEF Next, vars, Started, Exit, Unhealthy, BackOff, PullFails, Evict, Expire

\* The restart counts reported of a container, or of the pod, never go down, which
\* is why one remembered episode per obituary (status.lastEpisode) is enough to
\* count the crashes of one pod.
THEOREM EpisodesNeverReturn == Spec => EpisodesAscend
<1>1. ForensicsInv /\ [Next]_vars => [shown # None => shown'.restarts >= shown.restarts]_vars
  <2>1. SUFFICES ASSUME ForensicsInv, [Next]_vars, shown # None
                 PROVE  shown'.restarts >= shown.restarts
    OBVIOUS
  <2>2. shown.restarts \in Nat
    BY <2>1 DEF ForensicsInv, TypeOK, Sightings
  <2>3. CASE UNCHANGED <<shown, crash>>
    BY <2>2, <2>3
  <2>4. CASE focus = 0 /\ shown'.restarts = 0
    BY <2>1, <2>4 DEF ForensicsInv, ShownBehind
  <2>5. CASE focus \in Containers /\ shown'.restarts = status[focus].restarts
    <3>1. focus # 0
      BY <2>5 DEF Containers
    <3>2. shown.restarts <= status[focus].restarts /\ status[focus] \in ContainerStatuses
      BY <2>1, <2>5, <3>1 DEF ForensicsInv, ShownBehind, TypeOK
    <3>3. QED
      BY <2>2, <2>5, <3>2, EndTypes
  <2>6. QED
    BY <2>1, <2>3, <2>4, <2>5, HistoryStep
<1>2. QED
  BY <1>1, ForensicsHolds, PTL DEF Spec, EpisodesAscend

\* Below the threshold a crash and its episode ("<podUID>/<restartCount>") name
\* each other: it is reported under one restart count while the container is
\* Terminated and while it waits, and no other crash is reported under it.
THEOREM OneEpisodePerCrash == Spec => EpisodePerCrash
<1> DEFINE P == /\ crash # None /\ shown' # shown /\ shown'.end # None
               /\ {crash.restarts, shown'.restarts} \subseteq 0 .. (Threshold - 1)
               => (shown'.end = crash.end <=> shown'.restarts = crash.restarts)
<1>1. ForensicsInv /\ [Next]_vars => [P]_vars
  <2>1. SUFFICES ASSUME ForensicsInv, [Next]_vars, crash # None, shown' # shown,
                        shown'.end # None,
                        {crash.restarts, shown'.restarts} \subseteq 0 .. (Threshold - 1)
                 PROVE  shown'.end = crash.end <=> shown'.restarts = crash.restarts
    OBVIOUS
  <2>2. PICK k \in Crashes : k = crash
    BY <2>1 DEF ForensicsInv, TypeOK
  <2>3. PICK s \in ContainerStatuses :
            /\ s = status[focus] /\ Numbered(s) /\ Dying(s)
            /\ shown'.restarts = s.restarts /\ shown'.end = Termination(s)
    BY <2>1, HistoryStep
  <2>4. PICK e : e = Termination(s)
    OBVIOUS
  <2>5. Threshold \in Nat /\ s.restarts < Threshold /\ k.restarts < Threshold
    BY <2>1, <2>2, <2>3, ForensicsAssumption
  <2>6. e \in Terminations /\ e = LatestEnd(s) /\ e.id = s.restarts + 1
    BY <2>1, <2>3, <2>4, <2>5, TerminationSound
  <2>7. CrashSound(s, k)
    BY <2>1, <2>2, <2>3 DEF ForensicsInv, CrashKept
  <2>8. /\ k.end.id = k.restarts + 1
        /\ k.end.id = e.id => k.end = e
    BY <2>5, <2>6, <2>7 DEF CrashSound
  <2>9. k.restarts \in Nat /\ s.restarts \in Nat
    BY EndTypes DEF Crashes
  <2>10. QED
    BY <2>2, <2>3, <2>4, <2>6, <2>8, <2>9
<1>2. QED
  BY <1>1, ForensicsHolds, PTL DEF Spec, EpisodePerCrash
=============================================================================
