---------------------------- MODULE MCRedisFaults -----------------------------
(***************************************************************************)
(* Instances of RedisFaults for TLC.  Workers go by the name of their        *)
(* process, as in MCWorkerSystem.                                          *)
(***************************************************************************)
EXTENDS RedisFaults, TLC

CONSTANTS t1, t2, p1, p2, s1, s2

OneTask   == {t1}
TwoTasks  == {t1, t2}
OnePool   == {p1}
TwoPools  == {p1, p2}
OneServer == {s1}
TwoServers == {s1, s2}

OwnPool == [w \in Workers |-> w]

\* The first task is on a higher stream and has one retry; the second has none.
MCPriority   == [t \in Tasks |-> IF t = t1 THEN 2 ELSE 1]
MCMaxRetries == [t \in Tasks |-> IF t = t1 THEN 2 ELSE 1]

=============================================================================
