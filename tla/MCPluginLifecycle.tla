------------------------- MODULE MCPluginLifecycle -------------------------
(***************************************************************************)
(* Small instances of PluginLifecycle for TLC.                             *)
(***************************************************************************)
EXTENDS PluginLifecycle, TLC

CONSTANT r1
=============================================================================
