-------------------------- MODULE HealPolicyProofs --------------------------
(***************************************************************************)
(* HealPolicy for every set of policies and kinds.                         *)
(*                                                                         *)
(* HealsAuthorised: no reply of the LLM and no entry of the rule tables    *)
(* makes the engine leave the operator's allowlist, the kind's             *)
(* capabilities or the namespace selector.  The tables are not expanded    *)
(* for it: the argument holds for any.  RulesAsDocumented then says what   *)
(* these tables do, and BudgetForChosen what the limiter is asked for.     *)
(***************************************************************************)
EXTENDS HealPolicy, TLAPS

\* The allowlist is the operator's own unless it is empty.
LEMMA AllowlistSound ==
    ASSUME NEW p \in Policies
    PROVE  /\ Allowlist(p) \subseteq Actions
           /\ p.actions # {} => Allowlist(p) = p.actions
BY PolicyAssumption DEF Allowlist, PolicyType

\* What the rule decider chooses is on the menu.
LEMMA RuleOnMenu ==
    ASSUME NEW c \in Calls
    PROVE  RuleDecide(c) # None => RuleDecide(c) \in Menu(c)
BY DEF RuleDecide, Menu, applicableActions

LEMMA MenuSound ==
    ASSUME NEW c \in Calls
    PROVE  Menu(c) \subseteq Actions
BY AllowlistSound DEF Menu, applicableActions, Calls

\* A consult past the gate is in an admitted namespace; one past its decision
\* has chosen from the menu; one that executes, or has mutated, is not a dry run.
Authorised(c) ==
    /\ c.step \notin {"gates", "done"} => namespaceAllowed(c)
    /\ c.step \in {"reserve", "exec"} => c.action \in Menu(c)
    /\ c.step = "exec" => ~c.policy.dryRun
    /\ c.mutated => /\ namespaceAllowed(c)
                    /\ c.action \in Menu(c)
                    /\ ~c.policy.dryRun
    /\ c.step # "done" => ~c.mutated

PolicyInv == TypeOK /\ (call # None => Authorised(call))

\* The menu and the namespace gate depend on the consult's inputs only.
SameInputs(c, d) == d.kind = c.kind /\ d.policy = c.policy /\ d.nsRead = c.nsRead

LEMMA InputsDecide ==
    ASSUME NEW c, NEW d, SameInputs(c, d)
    PROVE  Menu(d) = Menu(c) /\ namespaceAllowed(d) = namespaceAllowed(c)
BY DEF SameInputs, Menu, namespaceAllowed

\* Choosing an action of the menu, by whichever decider.
LEMMA ChooseSound ==
    ASSUME NEW c \in Calls, NEW d, Authorised(c), c.step \in {"decide", "ask"},
           NEW a \in Menu(c), NEW b \in {"rule", "llm"},
           d = [c EXCEPT !.step = "reserve", !.action = a, !.by = b]
    PROVE  d \in Calls /\ Authorised(d)
<1>1. a \in Actions
    BY MenuSound
<1>2. d \in Calls /\ SameInputs(c, d)
    BY <1>1 DEF Calls, SameInputs
<1>3. d.step = "reserve" /\ d.action = a /\ d.mutated = c.mutated
    BY DEF Calls
<1>4. namespaceAllowed(c) /\ ~c.mutated
    BY DEF Authorised
<1> QED BY <1>2, <1>3, <1>4, InputsDecide DEF Authorised

\* Skipping.
LEMMA SkipSound ==
    ASSUME NEW c \in Calls, NEW d, Authorised(c), c.step # "done",
           NEW b \in {"rule", "llm", "engine"},
           d = [c EXCEPT !.step = "done", !.outcome = "Skipped", !.by = b]
    PROVE  d \in Calls /\ Authorised(d)
<1>1. d \in Calls
    BY DEF Calls, Outcomes
<1>2. d.step = "done" /\ d.mutated = c.mutated
    BY DEF Calls
<1>3. ~c.mutated
    BY DEF Authorised
<1> QED BY <1>1, <1>2, <1>3 DEF Authorised

\* The initial state.
LEMMA PolicyInvInit == Init => PolicyInv
BY DEF Init, PolicyInv, TypeOK

\* Every step keeps the invariant.
LEMMA PolicyInvStep == PolicyInv /\ [Next]_vars => PolicyInv'
<1> SUFFICES ASSUME PolicyInv, [Next]_vars
             PROVE  PolicyInv'
    OBVIOUS
<1> USE DEF PolicyInv
<1>1. CASE Consult
    <2>1. PICK k \in Kinds, c \in Causes, p \in Policies, r \in NamespaceReads :
            call' = [step    |-> "gates", kind    |-> k, cause  |-> c, policy |-> p,
                     nsRead  |-> r,       action  |-> None, by  |-> None,
                     outcome |-> None,    mutated |-> FALSE]
        BY <1>1 DEF Consult
    <2>2. call' \in Calls /\ spent' \in Nat
        BY <1>1, <2>1 DEF Consult, Calls, TypeOK
    <2>3. Authorised(call')
        BY <2>1 DEF Authorised
    <2> QED BY <2>2, <2>3 DEF TypeOK, Authorised, namespaceAllowed, Menu,
                applicableActions, Allowlist
<1>2. CASE TurnedAway
    BY <1>2 DEF TurnedAway, Finish, At, TypeOK, Calls, Authorised, Outcomes,
        namespaceAllowed, Menu, applicableActions, Allowlist
<1>3. CASE Admit
    BY <1>3 DEF Admit, At, TypeOK, Calls, Authorised,
        namespaceAllowed, Menu, applicableActions, Allowlist
<1>4. CASE NothingApplicable
    <2>1. call \in Calls /\ call.step = "decide" /\ spent' \in Nat
        BY <1>4 DEF NothingApplicable, At, TypeOK
    <2>2. call' \in Calls /\ Authorised(call')
        BY <1>4, <2>1, SkipSound DEF NothingApplicable, At, SkipBy
    <2> QED BY <2>1, <2>2 DEF TypeOK, Authorised, Menu, namespaceAllowed
<1>5. CASE Rule
    <2>1. /\ call # None /\ call \in Calls /\ call.step = "decide"
          /\ Authorised(call) /\ spent' \in Nat
        BY <1>5 DEF Rule, At, TypeOK
    <2>2. call' \in Calls /\ Authorised(call')
        <3>1. CASE RuleDecide(call) # None /\ Choose(RuleDecide(call), "rule")
            <4>1. RuleDecide(call) \in Menu(call)
                BY <2>1, <3>1, RuleOnMenu
            <4> QED BY <2>1, <3>1, <4>1, ChooseSound DEF Choose
        <3>2. CASE SkipBy("rule")
            BY <2>1, <3>2, SkipSound DEF SkipBy
        <3>3. CASE call' = [call EXCEPT !.step = "ask"]
            <4>1. call' \in Calls /\ SameInputs(call, call')
                BY <2>1, <3>3 DEF Calls, SameInputs
            <4>2. call'.step = "ask" /\ call'.mutated = call.mutated
                BY <2>1, <3>3 DEF Calls
            <4> QED BY <2>1, <4>1, <4>2, InputsDecide DEF Authorised
        <3> QED BY <1>5, <3>1, <3>2, <3>3 DEF Rule
    <2> QED BY <2>1, <2>2 DEF TypeOK, Authorised, Menu, namespaceAllowed
<1>6. CASE Answer
    <2>1. /\ call # None /\ call \in Calls /\ call.step = "ask"
          /\ Authorised(call) /\ spent' \in Nat
        BY <1>6 DEF Answer, At, TypeOK
    <2>2. PICK reply \in Replies :
            IF reply \in Menu(call) THEN Choose(reply, "llm") ELSE SkipBy("llm")
        BY <1>6 DEF Answer
    <2>3. call' \in Calls /\ Authorised(call')
        <3>1. CASE reply \in Menu(call)
            BY <2>1, <2>2, <3>1, ChooseSound DEF Choose
        <3>2. CASE reply \notin Menu(call)
            BY <2>1, <2>2, <3>2, SkipSound DEF SkipBy
        <3> QED BY <3>1, <3>2
    <2> QED BY <2>1, <2>3 DEF TypeOK, Authorised, Menu, namespaceAllowed
<1>7. CASE Refused
    BY <1>7 DEF Refused, Finish, At, TypeOK, Calls, Authorised, Outcomes,
        namespaceAllowed, Menu, applicableActions, Allowlist
<1>8. CASE Granted
    <2>1. /\ call # None /\ call \in Calls /\ call.step = "reserve"
          /\ Authorised(call) /\ spent' \in Nat
        BY <1>8 DEF Granted, At, TypeOK
    <2>2. CASE call.policy.dryRun
        <3>1. Finish("DryRun", FALSE)
            BY <1>8, <2>2 DEF Granted
        <3>2. call' \in Calls /\ call'.step = "done" /\ ~call'.mutated
            BY <2>1, <3>1 DEF Finish, Calls, Outcomes
        <3> QED BY <2>1, <3>2 DEF TypeOK, Authorised
    <2>3. CASE ~call.policy.dryRun
        <3>1. call' = [call EXCEPT !.step = "exec"]
            BY <1>8, <2>3 DEF Granted
        <3>2. call' \in Calls /\ SameInputs(call, call')
            BY <2>1, <3>1 DEF Calls, SameInputs
        <3>3. call'.step = "exec" /\ call'.action = call.action /\ call'.mutated = call.mutated
            BY <2>1, <3>1 DEF Calls
        <3>4. Authorised(call')
            BY <2>1, <2>3, <3>2, <3>3, InputsDecide DEF Authorised, SameInputs
        <3> QED BY <2>1, <3>2, <3>4 DEF TypeOK, Authorised, Menu, namespaceAllowed
    <2> QED BY <2>2, <2>3
<1>9. CASE Execute
    <2>1. /\ call # None /\ call \in Calls /\ call.step = "exec"
          /\ Authorised(call) /\ spent' \in Nat
        BY <1>9 DEF Execute, At, TypeOK
    <2>2. PICK o \in {"Applied", "Failed"}, m \in BOOLEAN : Finish(o, m)
        BY <1>9 DEF Execute
    <2>3. call' \in Calls /\ SameInputs(call, call')
        BY <2>1, <2>2 DEF Finish, Calls, Outcomes, SameInputs
    <2>4. call'.step = "done" /\ call'.action = call.action /\ call'.mutated \in BOOLEAN
        BY <2>1, <2>2, <2>3 DEF Finish, Calls
    <2>5. Authorised(call')
        BY <2>1, <2>3, <2>4, InputsDecide DEF Authorised, SameInputs
    <2> QED BY <2>1, <2>3, <2>5 DEF TypeOK, Authorised, Menu, namespaceAllowed
<1>10. CASE Return
    BY <1>10 DEF Return, TypeOK
<1>11. CASE RollOff
    BY <1>11 DEF RollOff, TypeOK, Authorised,
        namespaceAllowed, Menu, applicableActions, Allowlist
<1>12. CASE UNCHANGED vars
    BY <1>12 DEF vars, TypeOK, Authorised,
        namespaceAllowed, Menu, applicableActions, Allowlist
<1> QED
    BY <1>1, <1>2, <1>3, <1>4, <1>5, <1>6, <1>7, <1>8, <1>9, <1>10, <1>11, <1>12
    DEF Next

\* Whatever the LLM replies and whatever the rule tables hold, MaybeHeal touches
\* the cluster only within the operator's policy.
THEOREM OnlyAuthorisedHeals == Spec => []HealsAuthorised
<1>1. PolicyInv => HealsAuthorised
    <2> SUFFICES ASSUME PolicyInv, call # None, call.mutated
                 PROVE  /\ ~call.policy.dryRun
                        /\ call.action \in supportedActionsForKind(call.kind)
                        /\ call.policy.actions # {} => call.action \in call.policy.actions
                        /\ call.policy.selector = "labels" => call.nsRead = "match"
        BY DEF HealsAuthorised
    <2>1. call \in Calls /\ Authorised(call)
        BY DEF PolicyInv, TypeOK
    <2>2. call.policy \in Policies
        BY <2>1 DEF Calls
    <2> QED BY <2>1, <2>2, AllowlistSound
            DEF Authorised, Menu, applicableActions, namespaceAllowed
<1> QED BY <1>1, PolicyInvInit, PolicyInvStep, PTL DEF Spec

-----------------------------------------------------------------------------
(* The tables: what the two rule maps and the capability table amount to   *)
(* is the README's table of recommendations, row by row.                   *)

LEMMA TablesAgree ==
    ASSUME NEW c \in Calls
    PROVE  RuleDecide(c) = Due(c)
<1> USE PolicyAssumption
    DEF RuleDecide, Due, Recommended, ruleFor, ruleMap, kindRuleMap,
        supportedActionsForKind, Actions, Causes
<1>1. c.cause \in Causes
    BY DEF Calls
<1>2. CASE c.kind = "Deployment"
    BY <1>1, <1>2
<1>3. CASE c.kind = "StatefulSet"
    BY <1>1, <1>3
<1>4. CASE c.kind = "DaemonSet"
    BY <1>1, <1>4
<1>5. CASE c.kind = "Pod"
    BY <1>1, <1>5
<1>6. CASE c.kind \notin {"Deployment", "StatefulSet", "DaemonSet", "Pod"}
    BY <1>1, <1>6
<1> QED BY <1>2, <1>3, <1>4, <1>5, <1>6

\* The consult ends as the table says.
Settled(c) ==
    IF Due(c) # None THEN c.action = Due(c)
                     ELSE c.action # None => c.by = "llm" /\ HasLLM(c.policy)

\* Nothing is chosen before the decision, the LLM is asked only where the table
\* has no answer, what is chosen then stands, and there is no outcome till the end.
Ruled(c) ==
    /\ c.step # "done" => c.outcome = None
    /\ c.step \in {"gates", "decide", "ask"} => c.action = None
    /\ c.step = "ask" => Due(c) = None /\ HasLLM(c.policy)
    /\ c.step \in {"reserve", "exec"} => Settled(c)
    /\ c.step = "done" /\ namespaceAllowed(c) => Settled(c)

RulesInv == PolicyInv /\ (call # None => Ruled(call))

\* Settled depends on the inputs and on the choice, not on how it turns out.
LEMMA SettledStays ==
    ASSUME NEW c, NEW d, SameInputs(c, d), d.cause = c.cause, d.action = c.action,
           d.by = c.by, Settled(c)
    PROVE  Settled(d)
BY DEF Settled, Due, SameInputs

LEMMA RulesInvInit == Init => RulesInv
BY PolicyInvInit DEF Init, RulesInv

\* A step of the consult in hand leaves its inputs alone.
LEMMA RulesInvStep == RulesInv /\ [Next]_vars => RulesInv'
<1> SUFFICES ASSUME RulesInv, [Next]_vars, call' # None
             PROVE  Ruled(call')
    BY PolicyInvStep DEF RulesInv, Ruled, Settled, Due, namespaceAllowed
<1>1. CASE call = None
    <2>1. CASE Consult
        BY <2>1 DEF Consult, Ruled
    <2> QED BY <1>1, <2>1
        DEF Next, vars, TurnedAway, Admit, NothingApplicable, Rule, Answer, Refused,
            Granted, Execute, Return, RollOff, At
<1>2. CASE call # None
    <2>1. PICK c \in Calls : c = call
        BY <1>2 DEF RulesInv, PolicyInv, TypeOK
    <2>2. Ruled(c) /\ Authorised(c)
        BY <1>2, <2>1 DEF RulesInv, PolicyInv
    <2>3. ASSUME NEW st \in {"decide", "ask", "exec"}, call' = [c EXCEPT !.step = st]
          PROVE  /\ SameInputs(c, call') /\ call'.cause = c.cause
                 /\ call'.step = st /\ call'.action = c.action /\ call'.by = c.by
                 /\ call'.outcome = c.outcome
        BY <2>3 DEF Calls, SameInputs
    <2>4. ASSUME NEW o, NEW m, call' = [c EXCEPT !.step = "done", !.outcome = o, !.mutated = m]
          PROVE  /\ SameInputs(c, call') /\ call'.cause = c.cause
                 /\ call'.step = "done" /\ call'.action = c.action /\ call'.by = c.by
        BY <2>4 DEF Calls, SameInputs
    <2>5. ASSUME NEW b, call' = [c EXCEPT !.step = "done", !.outcome = "Skipped", !.by = b],
                 Due(c) = None, c.action = None
          PROVE  Ruled(call')
        <3>1. call'.step = "done" /\ call'.action = None
            BY <2>5 DEF Calls
        <3>2. Due(call') = None
            BY <2>5 DEF Calls, Due
        <3> QED BY <3>1, <3>2 DEF Ruled, Settled
    <2>6. ASSUME NEW a, NEW b,
                 call' = [c EXCEPT !.step = "reserve", !.action = a, !.by = b],
                 c.outcome = None,
                 \/ Due(c) # None /\ a = Due(c)
                 \/ Due(c) = None /\ b = "llm" /\ HasLLM(c.policy)
          PROVE  Ruled(call')
        <3>1. call'.step = "reserve" /\ call'.action = a /\ call'.by = b /\ call'.outcome = None
            BY <2>6 DEF Calls
        <3>2. Due(call') = Due(c) /\ HasLLM(call'.policy) = HasLLM(c.policy)
            BY <2>6 DEF Calls, Due, HasLLM
        <3> QED BY <2>6, <3>1, <3>2 DEF Ruled, Settled
    <2>7. CASE TurnedAway
        <3>1. ~namespaceAllowed(c) /\ Finish(None, FALSE)
            BY <2>1, <2>7 DEF TurnedAway
        <3>2. SameInputs(c, call') /\ call'.step = "done"
            BY <2>1, <2>4, <3>1 DEF Finish
        <3> QED BY <3>1, <3>2, InputsDecide DEF Ruled
    <2>8. CASE Admit
        BY <2>1, <2>2, <2>3, <2>8 DEF Admit, At, Ruled
    <2>9. CASE NothingApplicable
        <3>1. Due(c) = None
            BY <2>1, <2>9, RuleOnMenu, TablesAgree DEF NothingApplicable
        <3> QED BY <2>1, <2>2, <2>5, <2>9, <3>1 DEF NothingApplicable, At, SkipBy, Ruled
    <2>10. CASE Rule
        <3>1. RuleDecide(c) = Due(c) /\ c.action = None /\ c.outcome = None
            BY <2>1, <2>2, <2>10, TablesAgree DEF Rule, At, Ruled
        <3>2. CASE RuleDecide(call) # None /\ Choose(RuleDecide(call), "rule")
            BY <2>1, <2>6, <3>1, <3>2 DEF Choose
        <3>3. CASE RuleDecide(call) = None /\ SkipBy("rule")
            BY <2>1, <2>5, <3>1, <3>3 DEF SkipBy
        <3>4. CASE /\ RuleDecide(call) = None /\ HasLLM(call.policy)
                   /\ call' = [call EXCEPT !.step = "ask"]
            <4>1. call'.step = "ask" /\ call'.action = None /\ call'.outcome = None
                BY <2>1, <2>3, <3>1, <3>4
            <4>2. Due(call') = Due(c) /\ HasLLM(call'.policy)
                BY <2>1, <3>4 DEF Calls, Due, HasLLM
            <4> QED BY <2>1, <3>1, <3>4, <4>1, <4>2 DEF Ruled
        <3> QED BY <2>10, <3>2, <3>3, <3>4 DEF Rule
    <2>11. CASE Answer
        <3>1. Due(c) = None /\ HasLLM(c.policy) /\ c.action = None /\ c.outcome = None
            BY <2>1, <2>2, <2>11 DEF Answer, At, Ruled
        <3>2. PICK reply \in Replies :
                IF reply \in Menu(call) THEN Choose(reply, "llm") ELSE SkipBy("llm")
            BY <2>11 DEF Answer
        <3>3. CASE Choose(reply, "llm")
            BY <2>1, <2>6, <3>1, <3>3 DEF Choose
        <3>4. CASE SkipBy("llm")
            BY <2>1, <2>5, <3>1, <3>4 DEF SkipBy
        <3> QED BY <3>2, <3>3, <3>4
    <2>12. CASE Refused \/ Granted \/ Execute
        <3>1. c.step \in {"reserve", "exec"} /\ Settled(c) /\ c.outcome = None
            BY <2>1, <2>2, <2>12 DEF Refused, Granted, Execute, At, Ruled
        <3>2. CASE \E o \in Outcomes, m \in BOOLEAN : Finish(o, m)
            <4>1. /\ SameInputs(c, call') /\ call'.cause = c.cause
                  /\ call'.step = "done" /\ call'.action = c.action /\ call'.by = c.by
                BY <2>1, <2>4, <3>2 DEF Finish
            <4> QED BY <3>1, <4>1, SettledStays DEF Ruled
        <3>3. CASE call' = [call EXCEPT !.step = "exec"]
            <4>1. /\ SameInputs(c, call') /\ call'.cause = c.cause
                  /\ call'.step = "exec" /\ call'.action = c.action /\ call'.by = c.by
                  /\ call'.outcome = c.outcome
                BY <2>1, <2>3, <3>3
            <4> QED BY <3>1, <4>1, SettledStays DEF Ruled
        <3>4. CASE Refused
            BY <3>2, <3>4 DEF Refused, Outcomes
        <3>5. CASE Granted
            BY <3>2, <3>3, <3>5 DEF Granted, Outcomes
        <3>6. CASE Execute
            BY <3>2, <3>6 DEF Execute, Outcomes
        <3> QED BY <2>12, <3>4, <3>5, <3>6
    <2>13. CASE UNCHANGED call
        BY <2>1, <2>2, <2>13
    <2> QED BY <1>2, <2>7, <2>8, <2>9, <2>10, <2>11, <2>12, <2>13
        DEF Next, vars, Consult, Return, RollOff
<1> QED BY <1>1, <1>2

\* The two rule maps, the capability table and the order in which RuleDecider, the
\* menu and the LLM are asked come to the README's table: what the rule decider
\* chooses is what the table recommends, and without an LLM decider every consult
\* of an admitted namespace ends with the recommended action if the operator
\* allows it, and with none otherwise.
THEOREM TableFollowed == Spec => []RulesAsDocumented
<1>1. RulesInv => RulesAsDocumented
    BY DEF RulesInv, Ruled, Settled, RulesAsDocumented, At
<1> QED BY <1>1, RulesInvInit, RulesInvStep, PTL DEF Spec

\* The consult's record stays within its types, whatever the LLM replies: an
\* unlisted action never becomes its choice.
THEOREM PolicyTypeCorrect == Spec => []TypeOK
<1>1. PolicyInv => TypeOK
    BY DEF PolicyInv
<1> QED BY <1>1, PolicyInvInit, PolicyInvStep, PTL DEF Spec

\* A consult acts, for real or in a dry run, only with a chosen action and a fresh
\* reservation within its policy's limit, and nothing else takes from the budget.
THEOREM BudgetSpentForChosen == Spec => BudgetForChosen
<1> DEFINE Pays == IF ~Acting(call) /\ Acting(call')
                   THEN /\ call'.action # None
                        /\ spent' = spent + 1 /\ spent' <= call'.policy.maxHeals
                   ELSE spent' <= spent
<1>1. RulesInv /\ [Next]_vars => [Pays]_vars
    <2> SUFFICES ASSUME RulesInv, Next PROVE Pays
        OBVIOUS
    <2>1. spent \in Nat /\ PolicyInv /\ None \notin Outcomes
        BY PolicyAssumption DEF RulesInv, PolicyInv, TypeOK
    <2>2. CASE Consult
        BY <2>1, <2>2 DEF Consult, Acting
    <2>3. CASE Return
        BY <2>1, <2>3 DEF Return, Acting
    <2>4. CASE RollOff
        BY <2>1, <2>4 DEF RollOff
    <2>5. CASE call # None /\ ~Consult /\ ~Return /\ ~RollOff
        <3>1. PICK c \in Calls : c = call
            BY <2>1, <2>5 DEF PolicyInv, TypeOK
        <3>2. Ruled(c) /\ Authorised(c)
            BY <2>1, <2>5, <3>1 DEF RulesInv, PolicyInv
        <3>3. CASE TurnedAway \/ NothingApplicable \/ Refused
            <4>1. PICK o \in {None, "Skipped"} : call'.step = "done" /\ call'.outcome = o
                BY <3>1, <3>3
                DEF TurnedAway, NothingApplicable, Refused, Finish, SkipBy, Calls
            <4>2. ~Acting(call') /\ spent' = spent
                BY <2>1, <3>3, <4>1 DEF Acting, TurnedAway, NothingApplicable, Refused
            <4> QED BY <2>1, <4>2
        <3>4. CASE Admit \/ Rule \/ Answer
            <4>1. /\ call'.step \in {"decide", "ask", "reserve", "done"}
                  /\ call'.outcome \in {None, "Skipped"} /\ spent' = spent
                <5>1. c.outcome = None /\ spent' = spent
                    BY <3>1, <3>2, <3>4 DEF Admit, Rule, Answer, At, Ruled
                <5>2. \/ \E a, b : Choose(a, b)
                      \/ \E b : SkipBy(b)
                      \/ \E st \in {"decide", "ask"} : call' = [call EXCEPT !.step = st]
                    BY <3>4 DEF Admit, Rule, Answer
                <5> QED BY <3>1, <5>1, <5>2 DEF Choose, SkipBy, Calls
            <4>2. ~Acting(call')
                BY <2>1, <4>1 DEF Acting
            <4> QED BY <2>1, <4>1, <4>2
        <3>5. CASE Granted
            <4>1. c.step = "reserve" /\ spent' = spent + 1 /\ spent < c.policy.maxHeals
                BY <3>1, <3>5 DEF Granted, At
            <4>2. c.action \in Actions /\ c.outcome = None
                BY <3>2, <4>1, MenuSound DEF Authorised, Ruled
            <4>3. /\ call'.action = c.action /\ call'.policy = c.policy
                  /\ call' \in Calls
                  /\ call'.step = "exec" \/ call'.outcome = "DryRun"
                <5>1. CASE Finish("DryRun", FALSE)
                    BY <3>1, <5>1 DEF Finish, Calls, Outcomes
                <5>2. CASE call' = [call EXCEPT !.step = "exec"]
                    BY <3>1, <5>2 DEF Calls
                <5> QED BY <3>5, <5>1, <5>2 DEF Granted
            <4>4. ~Acting(call)
                BY <2>1, <3>1, <4>1, <4>2 DEF Acting
            <4>5. c.policy.maxHeals \in Nat
                BY PolicyAssumption DEF Calls, PolicyType
            <4>6. Acting(call')
                BY <4>3, NoCallAssumption DEF Acting, Outcomes
            <4> QED BY <2>1, <4>1, <4>2, <4>3, <4>4, <4>5, <4>6, PolicyAssumption
        <3>6. CASE Execute
            BY <2>1, <2>5, <3>6 DEF Execute, At, Acting
        <3> QED BY <2>5, <3>3, <3>4, <3>5, <3>6 DEF Next
    <2> QED
        BY <2>2, <2>3, <2>4, <2>5
        DEF Next, TurnedAway, Admit, NothingApplicable, Rule, Answer, Refused, Granted,
            Execute, At
<1> QED BY <1>1, RulesInvInit, RulesInvStep, PTL DEF Spec, BudgetForChosen
=============================================================================
