--------------------------- MODULE MCSharedMemory ----------------------------
(* TLC instance of SharedMemory: pages of two words, segments of two pages  *)
(* in a virtual space of eight, two contexts.  No step looks at the answer  *)
(* of the last call, and view repeats the rest: states that differ in these *)
(* two only are taken as one.                                               *)
EXTENDS SharedMemory

Machine == <<pm, mng, granted, root, mroot, running, latch, program>>
=============================================================================
