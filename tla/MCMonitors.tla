----------------------------- MODULE MCMonitors -----------------------------
(***************************************************************************)
(* A small instance of a condition monitor: three names, of which any two  *)
(* may be exchanged.                                                       *)
(***************************************************************************)
EXTENDS Conditions, TLC

NameSymmetry == Permutations(Names)
=============================================================================
