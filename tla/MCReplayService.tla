-------------------------- MODULE MCReplayService --------------------------
(***************************************************************************)
(* A small instance of ReplayService for TLC.                              *)
(***************************************************************************)
EXTENDS ReplayService, TLC

CONSTANTS c1, c2
=============================================================================
