---------------------------- MODULE MCCommandBus ----------------------------
(* CommandBus with two requests at a time, which may carry the same key.   *)
EXTENDS CommandBus, TLC

CONSTANTS r1, r2

TwoRequests == {r1, r2}

(* A request is named only as the holder of its own state. *)
Symmetry == Permutations(TwoRequests)
=============================================================================
