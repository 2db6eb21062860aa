----------------------------- MODULE MCSysconfig -----------------------------
(***************************************************************************)
(* Sysconfig for TLC: the goroutines that serve calls are interchangeable. *)
(***************************************************************************)
EXTENDS Sysconfig, TLC

Symmetry == Permutations(Calls)
================================================================================
