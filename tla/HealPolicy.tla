----------------------------- MODULE HealPolicy -----------------------------
(***************************************************************************)
(* What the self-heal engine does with one obituary that has passed the    *)
(* gates on its count and confidence: the namespace gate, the choice of an *)
(* action by rule and by LLM, the rate limit, the dry run, the executor    *)
(* and the heal record.  (When the engine is consulted, and how the record *)
(* is persisted, is in Reconciler; the limiter's window in RateLimiter.)   *)
(*                                                                         *)
(* A consult works on the policy it was called with: resolveConfig reads   *)
(* it once, so an edit of the KoronerConfig during the LLM call changes    *)
(* nothing.  The LLM may answer anything at all.                           *)
(***************************************************************************)
EXTENDS Naturals, FiniteSets

CONSTANTS
    Kinds,          \* kinds a subject may have
    Policies,       \* selfHeal policies that consults meet
    None            \* the empty string

Actions == {"DeletePod", "RestartWorkload", "BumpMemory", "RollbackDeployment"}

Outcomes == {"Applied", "DryRun", "Skipped", "Failed"}

Causes == {"OutOfMemory", "RepeatedCrash", "ProbeFailure", "NodePressure",
           "ImagePullFailure", "ApplicationError", "JobFailed", "Unknown"}

\* What it takes for an LLM decider to exist.
LlmParts == {"enabled", "provider", "secretRef", "keyName", "secret", "apiKey", "model"}

\* What may come back from it: an action, known or made up, or None for a failed
\* call, a reply without JSON and a refusal.
Replies == Actions \cup {"Unlisted", None}

Selectors == {"nil", "malformed", "empty", "labels"}

\* What the lookup of the subject's Namespace object gives.
NamespaceReads == {"match", "mismatch", "error"}

PolicyType == [actions  : SUBSET Actions,
               selector : Selectors,
               llm      : SUBSET LlmParts,
               dryRun   : BOOLEAN,
               maxHeals : Nat]

ASSUME PolicyAssumption ==
    /\ Policies \subseteq PolicyType
    /\ None \notin Actions \cup Outcomes

VARIABLES
    call,       \* the consult in progress, or None
    spent       \* heals the limiter counts in the window

vars == <<call, spent>>

Calls == [step    : {"gates", "decide", "ask", "reserve", "exec", "done"},
          kind    : Kinds,
          cause   : Causes,
          policy  : Policies,
          nsRead  : NamespaceReads,
          action  : Actions \cup {None},
          by      : {"rule", "llm", "engine", None},
          outcome : Outcomes \cup {None},
          mutated : BOOLEAN]

ASSUME NoCallAssumption == None \notin Calls

TypeOK == call \in Calls \cup {None} /\ spent \in Nat

Init == call = None /\ spent = 0

-----------------------------------------------------------------------------
(* The tables of internal/selfheal.                                        *)

supportedActionsForKind(kind) ==
    CASE kind = "Deployment" -> Actions
      [] kind \in {"StatefulSet", "DaemonSet"} -> Actions \ {"RollbackDeployment"}
      [] kind = "Pod" -> {"DeletePod"}
      [] OTHER -> {}

\* An empty allowlist means all four actions.
Allowlist(p) == IF p.actions = {} THEN Actions ELSE p.actions

applicableActions(kind, allowed) == allowed \cap supportedActionsForKind(kind)

ruleMap(cause) ==
    CASE cause = "OutOfMemory" -> "BumpMemory"
      [] cause \in {"RepeatedCrash", "ImagePullFailure"} -> "RollbackDeployment"
      [] cause = "ProbeFailure" -> "RestartWorkload"
      [] cause \in {"ApplicationError", "NodePressure"} -> "DeletePod"
      [] OTHER -> None

kindRuleMap(kind, cause) ==
    CASE kind = "Pod" /\ cause \in {"RepeatedCrash", "ApplicationError",
                                    "ProbeFailure", "NodePressure"} -> "DeletePod"
      [] kind \in {"StatefulSet", "DaemonSet"}
            /\ cause \in {"RepeatedCrash", "ImagePullFailure"} -> "RestartWorkload"
      [] OTHER -> None

\* Mutant of ruleFor: the kind's own table is not consulted.
ruleForAnyKind(kind, cause) == ruleMap(cause)

ruleFor(kind, cause) ==
    IF kindRuleMap(kind, cause) # None THEN kindRuleMap(kind, cause) ELSE ruleMap(cause)

\* RuleDecider: the rule's action if the kind supports and the operator allows it.
RuleDecide(c) ==
    LET a == ruleFor(c.kind, c.cause)
    IN  IF a \in supportedActionsForKind(c.kind) /\ a \in Allowlist(c.policy)
        THEN a ELSE None

\* Mutant of Menu: the kind's capabilities are not looked at.
MenuUnfiltered(c) == Allowlist(c.policy)

\* The actions the LLM may choose from.
Menu(c) == applicableActions(c.kind, Allowlist(c.policy))

\* resolveSelfHealLLM and NewLLMDecider: any missing piece, and there is none.
HasLLM(p) == p.llm = LlmParts

\* Mutant of namespaceAllowed: a Namespace that cannot be read passes.
namespaceAllowedOnError(c) ==
    c.policy.selector # "labels" \/ c.nsRead \in {"match", "error"}

\* A missing, malformed or empty selector matches everything.
namespaceAllowed(c) == c.policy.selector # "labels" \/ c.nsRead = "match"

-----------------------------------------------------------------------------
(* MaybeHeal.                                                              *)

At(step) == call # None /\ call.step = step

Choose(action, by) ==
    call' = [call EXCEPT !.step = "reserve", !.action = action, !.by = by]

Finish(outcome, mutated) ==
    call' = [call EXCEPT !.step = "done", !.outcome = outcome, !.mutated = mutated]

SkipBy(by) ==
    call' = [call EXCEPT !.step = "done", !.outcome = "Skipped", !.by = by]

Consult ==
    /\ call = None
    /\ \E k \in Kinds, c \in Causes, p \in Policies, r \in NamespaceReads :
        call' = [step    |-> "gates", kind    |-> k, cause  |-> c, policy |-> p,
                 nsRead  |-> r,       action  |-> None, by  |-> None,
                 outcome |-> None,    mutated |-> FALSE]
    /\ UNCHANGED spent

\* Silent: no record.
TurnedAway ==
    /\ At("gates") /\ ~namespaceAllowed(call)
    /\ Finish(None, FALSE)
    /\ UNCHANGED spent

Admit ==
    /\ At("gates") /\ namespaceAllowed(call)
    /\ call' = [call EXCEPT !.step = "decide"]
    /\ UNCHANGED spent

\* Nothing in the allowlist can be done to this kind: the decider is not asked.
NothingApplicable ==
    /\ At("decide") /\ Menu(call) = {}
    /\ SkipBy("engine")
    /\ UNCHANGED spent

\* The rule has an answer, or none and there is nobody else to ask.
Rule ==
    /\ At("decide") /\ Menu(call) # {}
    /\ \/ RuleDecide(call) # None /\ Choose(RuleDecide(call), "rule")
       \/ RuleDecide(call) = None /\ ~HasLLM(call.policy) /\ SkipBy("rule")
       \/ /\ RuleDecide(call) = None /\ HasLLM(call.policy)
          /\ call' = [call EXCEPT !.step = "ask"]
    /\ UNCHANGED spent

\* Mutant of Answer: the reply is not held against the menu.
AnswerUnchecked ==
    /\ At("ask")
    /\ \E reply \in Replies : IF reply # None THEN Choose(reply, "llm") ELSE SkipBy("llm")
    /\ UNCHANGED spent

\* The LLM's reply: an action of the menu, or anything else (no action, or
\* one that is not on the menu), which is a skip.
Answer ==
    /\ At("ask")
    /\ \E reply \in Replies :
        IF reply \in Menu(call) THEN Choose(reply, "llm") ELSE SkipBy("llm")
    /\ UNCHANGED spent

Refused ==
    /\ At("reserve") /\ spent >= call.policy.maxHeals
    /\ Finish("Skipped", FALSE)
    /\ UNCHANGED spent

\* Mutant of Granted: a dry run reserves nothing.
GrantedDryFree ==
    /\ At("reserve") /\ spent < call.policy.maxHeals
    /\ spent' = IF call.policy.dryRun THEN spent ELSE spent + 1
    /\ IF call.policy.dryRun THEN Finish("DryRun", FALSE)
                             ELSE call' = [call EXCEPT !.step = "exec"]

Granted ==
    /\ At("reserve") /\ spent < call.policy.maxHeals
    /\ spent' = spent + 1
    /\ IF call.policy.dryRun THEN Finish("DryRun", FALSE)
                             ELSE call' = [call EXCEPT !.step = "exec"]

\* A failed executor may have taken effect.
Execute ==
    /\ At("exec")
    /\ \/ Finish("Applied", TRUE)
       \/ \E m \in BOOLEAN : Finish("Failed", m)
    /\ UNCHANGED spent

\* The consult returns to its reconciler.
Return == At("done") /\ call' = None /\ UNCHANGED spent

\* Heals leave the limiter's window.
RollOff == spent > 0 /\ spent' = spent - 1 /\ UNCHANGED call

Next ==
    \/ Consult \/ TurnedAway \/ Admit \/ NothingApplicable \/ Rule \/ Answer
    \/ Refused \/ Granted \/ Execute \/ Return \/ RollOff

Spec == Init /\ [][Next]_vars

-----------------------------------------------------------------------------
(* Properties.                                                             *)

\* Whatever the rules, the LLM and the Namespace lookup say, the cluster is
\* touched only by an action that the operator allows and the subject's kind
\* supports, in a namespace its selector admits, and never in a dry run.
HealsAuthorised ==
    call # None /\ call.mutated =>
        /\ ~call.policy.dryRun
        /\ call.action \in supportedActionsForKind(call.kind)
        /\ call.policy.actions # {} => call.action \in call.policy.actions
        /\ call.policy.selector = "labels" => call.nsRead = "match"

\* The README's table of recommendations, and the rest left blank.
Recommended(kind, cause) ==
    CASE kind = "Deployment" /\ cause = "RepeatedCrash"     -> "RollbackDeployment"
      [] kind = "Deployment" /\ cause = "ImagePullFailure"  -> "RollbackDeployment"
      [] kind \in {"StatefulSet", "DaemonSet"} /\ cause = "RepeatedCrash"
                                                            -> "RestartWorkload"
      [] kind \in {"StatefulSet", "DaemonSet"} /\ cause = "ImagePullFailure"
                                                            -> "RestartWorkload"
      [] kind \in {"Deployment", "StatefulSet", "DaemonSet"} /\ cause = "OutOfMemory"
                                                            -> "BumpMemory"
      [] kind \in {"Deployment", "StatefulSet", "DaemonSet"} /\ cause = "ProbeFailure"
                                                            -> "RestartWorkload"
      [] kind \in {"Deployment", "StatefulSet", "DaemonSet", "Pod"}
            /\ cause \in {"ApplicationError", "NodePressure"} -> "DeletePod"
      [] kind = "Pod" /\ cause \in {"RepeatedCrash", "ProbeFailure"} -> "DeletePod"
      [] OTHER -> None

\* The action the table recommends, if the operator allows it.
Due(c) ==
    LET a == Recommended(c.kind, c.cause)
    IN  IF a # None /\ a \in Allowlist(c.policy) THEN a ELSE None

\* Both rule maps, the capability table and the order of the checks come to the
\* README's table: what the rule decider chooses is what the table recommends,
\* and without an LLM decider, also one that cannot be built, a consult ends with
\* the recommended action if the operator allows it and with none otherwise.
RulesAsDocumented ==
    (At("done") /\ namespaceAllowed(call)) =>
        /\ (call.by = "rule" /\ call.action # None) => call.action = Due(call)
        /\ ~HasLLM(call.policy) => call.action = Due(call)

\* A consult that executes its action, or has acted or dry-run.
Acting(c) == c # None /\ (c.step = "exec" \/ c.outcome \in Outcomes \ {"Skipped"})

\* A consult comes to act, for real or in a dry run, only with a chosen action
\* and a reservation within its policy's limit, and nothing else reserves: no
\* action escapes the limiter, and skipped and refused consults burn no budget.
BudgetForChosen ==
    [][IF ~Acting(call) /\ Acting(call')
       THEN /\ call'.action # None
            /\ spent' = spent + 1 /\ spent' <= call'.policy.maxHeals
       ELSE spent' <= spent]_vars
=============================================================================
