------------------------- MODULE MCSupplierMessaging -------------------------
(* A small instance of SupplierMessaging for TLC. *)
EXTENDS SupplierMessaging

CONSTANTS email, sms
=============================================================================
