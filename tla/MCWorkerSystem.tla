--------------------------- MODULE MCWorkerSystem ---------------------------
(***************************************************************************)
(* Instances of WorkerSystem for TLC: two tasks and two worker processes   *)
(* of one goroutine each, which goes by the name of its process.           *)
(***************************************************************************)
EXTENDS WorkerSystem, TLC

CONSTANTS t1, t2, p1, p2

MCTasks  == {t1, t2}
MCPools  == {p1, p2}
MCPoolOf == [w \in MCPools |-> w]

\* One process of one goroutine, for the runs that need no competitor.
MCOnePool   == {p1}
MCOnePoolOf == [w \in MCOnePool |-> w]

\* A worker process is as good as the other.
MCSymmetry == Permutations(MCPools)

\* Two streams: an entry of the lower one is delivered along with the other.
PriorityMixed == t1 :> 2 @@ t2 :> 1

\* One attempt for the first task, two for the second.
RetriesMixed == t1 :> 1 @@ t2 :> 2

=============================================================================
