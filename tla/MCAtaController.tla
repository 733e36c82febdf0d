-------------------------- MODULE MCAtaController --------------------------
(***************************************************************************)
(* Model checking of AtaController: commands of each kind, with one piece  *)
(* or two where data is moved.                                             *)
(***************************************************************************)
EXTENDS AtaController

AllCommands == [dir : {"read", "write"}, n : 1..2, dma : BOOLEAN]
               \union {[dir |-> "none", n |-> 0, dma |-> FALSE]}
=============================================================================
