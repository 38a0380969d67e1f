---------------------------- MODULE MCReconciler ----------------------------
(***************************************************************************)
(* Reconciler for TLC.  Issues of pods are interchangeable, and so are the *)
(* issues of Jobs, pods, Jobs and workers: no definition names one of      *)
(* them.  Symmetry is used for safety only.                                *)
(***************************************************************************)
EXTENDS Reconciler, TLC

Symmetry ==
    UNION {Permutations(S) : S \in {Pods \ Jobs, Jobs, Issues \ JobIssues, JobIssues, Workers}}
=============================================================================
