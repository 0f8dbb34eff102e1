---------------------------- MODULE MCEventClient ----------------------------
(***************************************************************************)
(* Instances of EventClient for TLC.                                       *)
(***************************************************************************)
EXTENDS EventClient

CONSTANT c1

OneClient == {c1}

=============================================================================
