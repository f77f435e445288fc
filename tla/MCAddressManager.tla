-------------------------- MODULE MCAddressManager ---------------------------
(* TLC instance of AddressManager: pages of two units and segments of three *)
(* pages, so that a segment fills up and the strict size limit is met.      *)
EXTENDS AddressManager
=============================================================================
