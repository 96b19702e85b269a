----------------------------- MODULE MCPoolFill -----------------------------
(* PoolFill on three places.  The circles overlap, so moving the scope both *)
(* keeps and drops places, and together they hold more than the cap of the  *)
(* runs that bind it.                                                       *)
EXTENDS PoolFill

CONSTANTS p1, p2, p3

ThreePlaces == {p1, p2, p3}
PairAndOther == {{p1, p2}, {p3}}
Overlapping == {{p1, p2}, {p2, p3}, {p1, p2, p3}}
=============================================================================
