------------------------------- MODULE MCWire -------------------------------
(***************************************************************************)
(* A small instance of Wire for TLC: float64s with three bits of mantissa. *)
(***************************************************************************)
EXTENDS Wire, TLC

CONSTANTS k1, k2
=============================================================================
