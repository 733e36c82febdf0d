------------------------------ MODULE MCVMReq ------------------------------
(***************************************************************************)
(* Model checking of VMReq: packets are interchangeable, and requesters.   *)
(***************************************************************************)
EXTENDS VMReq

Symmetry == Permutations(Packets) \union Permutations(Requesters)
=============================================================================
