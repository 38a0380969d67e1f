---------------------------- MODULE MCExecutors ----------------------------
(***************************************************************************)
(* Executors for TLC: two releases whose memory is not a whole number of   *)
(* MiB (of four bytes), and a third; factors above and not above 1, a cap  *)
(* that is reached and one that is not.                                    *)
(***************************************************************************)
EXTENDS Executors

TwoReleases == {[image |-> "v1", limit |-> 5, request |-> None],
                [image |-> "v2", limit |-> 9, request |-> 7]}

ThreeReleases == TwoReleases \cup {[image |-> "v3", limit |-> 8, request |-> None]}

SomeFactors == {None, <<2, 1>>, <<1, 1>>}

SomeCaps == {None, 10}
=============================================================================
