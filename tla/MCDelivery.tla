----------------------------- MODULE MCDelivery -----------------------------
(* A room of a few events. *)
EXTENDS Delivery

=============================================================================
