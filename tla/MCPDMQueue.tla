----------------------------- MODULE MCPDMQueue -----------------------------
(***************************************************************************)
(* Model checking of PDMQueue: the queue of a network card, used by EMT in *)
(* any context, and that of a keyboard, whose consumer may refuse an item. *)
(***************************************************************************)
EXTENDS PDMQueue

CONSTANTS net, kbd, T1

NetKbd == <<net, kbd>>
OneAndTwo == [q \in {net, kbd} |-> IF q = net THEN 1 ELSE 2]
Users == [q \in {net, kbd} |-> IF q = net THEN Threads ELSE Others]
=============================================================================
