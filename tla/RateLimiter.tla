----------------------------- MODULE RateLimiter -----------------------------
(***************************************************************************)
(* The engine's rate limiter (internal/selfheal/ratelimit.go): a rolling   *)
(* window of granted heals per namespace, kept in memory.  reserve runs    *)
(* under a mutex, so the pod and the job reconciler that share the engine  *)
(* call it one at a time.                                                  *)
(***************************************************************************)
EXTENDS Integers, FiniteSets

CONSTANTS
    Namespaces,
    Window,         \* the window's length, in ticks of the clock
    Limits,         \* values maxHealsPerHour takes, as configs come and go
    MaxTime,        \* bound: the clock
    MaxRestarts     \* bound: operator restarts

ASSUME LimiterAssumption ==
    /\ Window \in Nat \ {0}
    /\ Limits \subseteq Nat /\ Limits # {}
    /\ MaxTime \in Nat /\ MaxRestarts \in Nat

VARIABLES
    now,        \* the clock
    life,       \* which run of the operator this is
    history,    \* namespace -> the heals it remembers
    granted,    \* history variable: every heal granted
    refused     \* history variable: the refusal just made, if any

vars == <<now, life, history, granted, refused>>

\* The code keeps a grant as its time stamp.  The rest is history for the
\* properties: the run that granted it, its number among the namespace's grants
\* and the limit its caller passed.
Grants == [ns : Namespaces, at : Nat, life : Nat, id : Nat, max : Limits]
Refusals == [ns : Namespaces, at : Nat, life : Nat, limit : Limits]

TypeOK ==
    /\ now \in Nat /\ life \in Nat
    /\ history \in [Namespaces -> SUBSET Grants]
    /\ granted \subseteq Grants /\ IsFiniteSet(granted)
    /\ refused \subseteq Refusals

Init ==
    /\ now = 0 /\ life = 0
    /\ history = [n \in Namespaces |-> {}]
    /\ granted = {} /\ refused = {}

GrantsOf(n) == {g \in granted : g.ns = n}

\* Mutants of Kept: the cutoff itself falls out a tick early; the list is never
\* pruned.
KeptShort(n) == {g \in history[n] : g.at > now - Window + 1}
KeptAll(n) == history[n]

\* The entries after the cutoff.
Kept(n) == {g \in history[n] : g.at > now - Window}

\* The namespace has had fewer than max heals in the window.
Grant(n, max) ==
    LET g == [ns |-> n, at |-> now, life |-> life,
              id |-> Cardinality(GrantsOf(n)), max |-> max]
    IN  /\ Cardinality(Kept(n)) < max
        /\ history' = [history EXCEPT ![n] = Kept(n) \cup {g}]
        /\ granted' = granted \cup {g}
        /\ refused' = {}
        /\ UNCHANGED <<now, life>>

Refuse(n, max) ==
    /\ Cardinality(Kept(n)) >= max
    /\ history' = [history EXCEPT ![n] = Kept(n)]
    /\ refused' = {[ns |-> n, at |-> now, life |-> life, limit |-> max]}
    /\ UNCHANGED <<now, life, granted>>

Tick ==
    /\ now < MaxTime
    /\ now' = now + 1
    /\ refused' = {}
    /\ UNCHANGED <<life, history, granted>>

Restart ==
    /\ life < MaxRestarts
    /\ life' = life + 1
    /\ history' = [n \in Namespaces |-> {}]
    /\ refused' = {}
    /\ UNCHANGED <<now, granted>>

Next ==
    \/ \E n \in Namespaces, max \in Limits : Grant(n, max) \/ Refuse(n, max)
    \/ Tick
    \/ Restart

Spec == Init /\ [][Next]_vars

-----------------------------------------------------------------------------
\* The heals a run of the operator granted in the window that ends at t.
InWindow(n, l, t) ==
    {g \in granted : g.ns = n /\ g.life = l /\ t - Window < g.at /\ g.at <= t}

\* The heals of g's namespace in the window that ends with g, g the last of them.
Upto(g) == {h \in granted : h.ns = g.ns /\ h.id <= g.id /\ g.at - Window < h.at}

\* Every heal that reserve grants is, together with the heals the same run
\* granted that namespace in the window before it, within the limit its caller
\* passed (maxHealsPerHour, a "rolling cap"): the list may have been pruned under
\* other limits, and other namespaces' limits do not count.
WindowCap ==
    \A g \in granted : Cardinality({h \in Upto(g) : h.life = g.life}) <= g.max

\* A heal is refused only when the window really holds that many: refusals and
\* heals of other namespaces use up no budget, and old heals give theirs back.
RefusalsJustified ==
    \A r \in refused : Cardinality(InWindow(r.ns, r.life, r.at)) >= r.limit
=============================================================================
