------------------------------- MODULE MCTimers -------------------------------
(***************************************************************************)
(* The instance of the native timers for TLC.                              *)
(***************************************************************************)
EXTENDS NativeTimers, TLC

WorkerSymmetry == Permutations(Workers)
================================================================================
