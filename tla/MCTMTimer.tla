----------------------------- MODULE MCTMTimer -----------------------------
(***************************************************************************)
(* Model checking of TMTimer: the timers are interchangeable, and so are   *)
(* the threads other than EMT.                                             *)
(***************************************************************************)
EXTENDS TMTimer, TLC

Symmetry == Permutations(Timers) \union Permutations(Others)
=============================================================================
