------------------------- MODULE MCPolicyResolution -------------------------
(***************************************************************************)
(* PolicyResolution for TLC.  Users write three specs: one that turns real *)
(* heals on, one that turns them on and leaves the dry run to the default, *)
(* and one that opts out of everything.                                    *)
(***************************************************************************)
EXTENDS PolicyResolution

SomeSpecs ==
    {[EmptySpec EXCEPT !.enabled = TRUE, !.dryRun = FALSE, !.minOccurrences = 1],
     [EmptySpec EXCEPT !.enabled = TRUE, !.selector = "labels"],
     [EmptySpec EXCEPT !.podCrashes = FALSE, !.jobFailures = FALSE]}
=============================================================================
