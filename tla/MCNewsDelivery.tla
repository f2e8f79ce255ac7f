--------------------------- MODULE MCNewsDelivery ---------------------------
(* NewsDelivery with small sets for TLC, without symmetry for liveness.    *)
EXTENDS NewsDelivery
=============================================================================
