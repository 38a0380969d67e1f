---------------------------- MODULE MCHealPolicy ----------------------------
(***************************************************************************)
(* HealPolicy for TLC: every allowlist with every kind and cause, a policy *)
(* whose LLM is complete or lacks one piece, with and without a selector.  *)
(***************************************************************************)
EXTENDS HealPolicy

AllKinds == {"Deployment", "StatefulSet", "DaemonSet", "Pod", "Job"}

\* Every allowlist, LLM in place or missing one part.
Allowlists ==
    [actions  : SUBSET Actions,
     selector : {"nil", "labels"},
     llm      : {LlmParts, LlmParts \ {"apiKey"}},
     dryRun   : {FALSE},
     maxHeals : {1}]

\* The other fields.
Settings ==
    [actions  : {{}, {"DeletePod"}},
     selector : Selectors,
     llm      : {LlmParts} \cup {LlmParts \ {x} : x \in LlmParts},
     dryRun   : BOOLEAN,
     maxHeals : {1, 2}]

AllPolicies == Allowlists \cup Settings
=============================================================================
