---------------------------- MODULE MCScreening ----------------------------
(* Two places, judged one at a time. *)
EXTENDS Screening

CONSTANTS inn, bar

TwoPlaces == {inn, bar}

=============================================================================
