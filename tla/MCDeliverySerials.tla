------------------------- MODULE MCDeliverySerials -------------------------
(* Small instances of DeliverySerials.                                     *)
EXTENDS DeliverySerials
=============================================================================
