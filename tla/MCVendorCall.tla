---------------------------- MODULE MCVendorCall ----------------------------
(* Small instances of VendorCall. *)
EXTENDS VendorCall, TLC
=============================================================================
