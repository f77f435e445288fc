------------------------------- MODULE MCDriver ------------------------------
(* TLC instance of Driver: pages of two words, segments of two pages in a   *)
(* virtual space of eight, two contexts.                                    *)
EXTENDS Driver
=============================================================================
