---------------------------- MODULE MCFleetDeploy ----------------------------
(***************************************************************************)
(* Two workflows, two foundation hosts and one system.                     *)
(***************************************************************************)
EXTENDS FleetDeploy

CONSTANTS dc, vault, prod

MCOrder == <<dc, vault, prod>>
\* Every commit changes the control node but the last.
MCControlOf == [c \in 0 .. MaxCommit |-> IF c = MaxCommit THEN c - 1 ELSE c]
=============================================================================
