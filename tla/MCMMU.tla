------------------------------- MODULE MCMMU ---------------------------------
(* The MMU over tables of two entries a page.  Two blocks share the root    *)
(* table only; or, for the run that looks at the queues alone, a memory     *)
(* where every look-up leads to a page of its own.                          *)
EXTENDS DriverTables

TwoBlocks == << <<1, 1>>, <<6, 2>> >>

TreeMemory == [a \in 0 .. PageElem^4 * 2 |-> 2 * (a + 1) + 1]

(* Some of the behaviours of MMUSpec, few enough to search with as many    *)
(* requests open as the RTL allows: the host always asks when it may, the  *)
(* memory takes every request and answers one of them in every cycle.      *)
BusyNext ==
  LET OrNothing(s) == IF s = {} THEN {<< >>} ELSE {<<x>> : x \in s}
  IN  \E offer \in OrNothing(Requests), reply \in OrNothing(waiting), ready \in Readies :
        Edge(offer, TRUE, reply, ready)
BusySpec == MMUInit /\ [][BusyNext]_mmuVars
=============================================================================
