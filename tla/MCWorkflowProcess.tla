------------------------- MODULE MCWorkflowProcess -------------------------
(***************************************************************************)
(* Small instances of WorkflowProcess for TLC.                             *)
(***************************************************************************)
EXTENDS WorkflowProcess, TLC

CONSTANTS u1, u2, u3, n1, n2

(* Two updates of one name and one of another.                             *)
MCNameOf == [u \in UpdateIDs |-> IF u = u3 THEN n2 ELSE n1]
=============================================================================
