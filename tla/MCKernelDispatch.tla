-------------------------- MODULE MCKernelDispatch ---------------------------
(* TLC instance of KernelDispatch: two contexts, two kernel ids, starts of  *)
(* up to two work groups on a device that holds two.                        *)
EXTENDS KernelDispatch
=============================================================================
