--------------------------- MODULE MCClientDelivery ---------------------------
(* Small instances of ClientDelivery. *)
EXTENDS ClientDelivery

CONSTANTS p1, api
=============================================================================
