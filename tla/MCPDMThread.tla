---------------------------- MODULE MCPDMThread ----------------------------
(***************************************************************************)
(* Model checking of PDMThread.                                            *)
(***************************************************************************)
EXTENDS PDMThread
=============================================================================
