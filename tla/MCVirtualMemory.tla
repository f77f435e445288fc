--------------------------- MODULE MCVirtualMemory ---------------------------
(* TLC instance of VirtualMemory: two words per page make a virtual space   *)
(* of eight pages under three levels of tables.                             *)
EXTENDS VirtualMemory
=============================================================================
