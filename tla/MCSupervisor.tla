---------------------------- MODULE MCSupervisor ----------------------------
(***************************************************************************)
(* Two teams, of which the second has one session, and their quotas.       *)
(***************************************************************************)
EXTENDS Supervisor

CONSTANTS lone, large, small

Alone == [s \in Sessions |-> IF s = lone THEN small ELSE large]
OneEach == [t \in Teams |-> 1]
Ample == [t \in Teams |-> 2]
=============================================================================
