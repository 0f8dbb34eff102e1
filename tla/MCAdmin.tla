------------------------------ MODULE MCAdmin ------------------------------
(***************************************************************************)
(* Instances of Admin for TLC.                                             *)
(***************************************************************************)
EXTENDS Admin, TLC

CONSTANTS t1, p1, s1, o1

OneTask      == {t1}
OnePool      == {p1}
OneServer    == {s1}
OneOperator  == {o1}

OwnPool == [w \in Workers |-> w]

MCPriority   == [t \in Tasks |-> 1]
MCMaxRetries == [t \in Tasks |-> 2]

AllRequests == RequestKinds

=============================================================================
