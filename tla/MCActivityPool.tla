--------------------------- MODULE MCActivityPool ---------------------------
(***************************************************************************)
(* A small instance of ActivityPool for TLC.                               *)
(***************************************************************************)
EXTENDS ActivityPool, TLC

CONSTANTS a1, l1, r1, r2
=============================================================================
