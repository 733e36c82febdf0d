-------------------------- MODULE MCVirtualBoxBase --------------------------
(***************************************************************************)
(* Model checking of VirtualBoxBase: threads for its constants.            *)
(***************************************************************************)
EXTENDS VirtualBoxBase

CONSTANTS c1, c2, c3, u1, u2
=============================================================================
