----------------------------- MODULE Translation -----------------------------
(***************************************************************************)
(* What an MMU promises its host: every request is answered once, with the *)
(* page table entry of its page, in any order and one answer at a time.    *)
(* In a clock edge the host may ask and, at the same time, be shown an     *)
(* answer or take the one it is shown.  The MMU of MMU.tla implements it   *)
(* over any memory (MMUProofs.tla) and over the tables the driver builds   *)
(* (DriverTables.tla).                                                     *)
(***************************************************************************)
EXTENDS Naturals, Sequences

CONSTANTS
  Sources,   \* ids of requests
  Pages,     \* requests: a virtual page under a root
  Target     \* the entry of each of them

VARIABLES
  open,      \* the request open for each source that has one
  answer     \* << >>, or the answer the host is shown

TInit == open = [s \in {} |-> 0] /\ answer = << >>

Keeping(S) == [s \in S |-> open[s]]

AskOrNot(S) ==
  \/ open' = Keeping(S)
  \/ \E s \in Sources \ DOMAIN open, p \in Pages :
       open' = [t \in S \cup {s} |-> IF t = s THEN p ELSE open[t]]

Wait == answer' = answer /\ AskOrNot(DOMAIN open)

Show ==
  /\ answer = << >>
  /\ \E s \in DOMAIN open : answer' = <<[source |-> s, word |-> Target[open[s]]]>>
  /\ AskOrNot(DOMAIN open)

Take ==
  /\ answer # << >> /\ answer' = << >>
  /\ AskOrNot(DOMAIN open \ {answer[1].source})

TNext == Wait \/ Show \/ Take

TSpec == TInit /\ [][TNext]_<<open, answer>>
=============================================================================
