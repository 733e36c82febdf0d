----------------------------- MODULE MCCritSect -----------------------------
(***************************************************************************)
(* Model checking of CritSect: two sections, which                         *)
(* RTCritSectEnterMultiple is given in both orders.                        *)
(***************************************************************************)
EXTENDS CritSect

BothOrders == {<<1, 2>>, <<2, 1>>}

Symmetry == Permutations(Others)
=============================================================================
