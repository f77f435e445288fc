--------------------------- MODULE MCMemController ---------------------------
(* TLC instance of MemController: a device that reads and writes two        *)
(* addresses, pipelines requests, lowers d_ready and uses one opcode the    *)
(* controller does not know.                                                *)
EXTENDS MemController
=============================================================================
