---------------------------- MODULE MCPoolControl ----------------------------
(***************************************************************************)
(* Instances of PoolControl for TLC.                                       *)
(***************************************************************************)
EXTENDS PoolControl

CONSTANTS w1, w2, r1, a1

OneWorker  == {w1}
TwoWorkers == {w1, w2}
OneReader  == {r1}
OneAdmin   == {a1}

=============================================================================
