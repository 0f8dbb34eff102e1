---------------------------- MODULE MCQueueStats -----------------------------
(***************************************************************************)
(* Instances of QueueStats for TLC.                                        *)
(***************************************************************************)
EXTENDS QueueStats, TLC

CONSTANTS t1, t2, p1

TwoTasks == {t1, t2}
OnePool  == {p1}

OwnPool == [w \in Workers |-> w]

TwoStreams   == t1 :> 2 @@ t2 :> 1
MCMaxRetries == t1 :> 1 @@ t2 :> 2

=============================================================================
