--------------------------- MODULE MCLogDelivery ---------------------------
(* LogDelivery for TLC: see the cfg files for the sizes.                   *)
EXTENDS LogDelivery
=============================================================================
