-------------------------- MODULE MCPhysicalMemory --------------------------
(* TLC instance of PhysicalMemory: six pages of RAM behind one reserved     *)
(* page, blocks of one to three pages, one word per page.                   *)
EXTENDS PhysicalMemory
=============================================================================
