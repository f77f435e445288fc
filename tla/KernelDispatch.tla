---------------------------- MODULE KernelDispatch ---------------------------
(***************************************************************************)
(* The kernel half of class Driver (src/driver.h: start, wait,             *)
(* get_finished_kernel, execute_all_kernel) over class Processor           *)
(* (src/device/processor.h: run, tick, wait): work groups are handed to    *)
(* the device one by one through a valid/ready port, and their ids come    *)
(* back on a response port.  What run() does to m_root_ is in              *)
(* SharedMemory.tla.                                                       *)
(*                                                                         *)
(* The driver is one thread; what is concurrent is the device, which moves *)
(* once per tick.  It is not part of the repository (GPGPU_top is built    *)
(* elsewhere): DeviceTick lets it raise and drop ready and finish resident *)
(* work groups in any order.  Each run() has a serial number by which the  *)
(* model, not the code, tells work groups apart.                           *)
(***************************************************************************)
EXTENDS Naturals, Sequences, FiniteSets, SequencesExt

CONSTANTS
  Tasks,        \* contexts that exist, below MAX_CONTEXT
  Kernels,      \* kernel ids used, below MAX_KERNEL
  MaxBlocks,    \* bound: work groups of one start
  MaxRuns,      \* bound: run() calls
  MaxCycles,    \* bound: cycles of one wait
  RUN_DELAY,    \* cycles of the waits of execute_all_kernel
  MaxRounds,    \* waits after which execute_all_kernel gives up, 31
  Capacity,     \* work groups resident on the device
  EagerReady    \* the device may be ready before a request is there

ASSUME DispatchAssumption ==
  /\ Tasks \subseteq 0 .. 3 /\ Kernels \subseteq 0 .. 3
  /\ MaxBlocks \in 1 .. 8          \* ids then stay below 2^31
  /\ MaxRuns \in Nat /\ MaxCycles \in Nat /\ Capacity \in Nat \ {0}
  /\ RUN_DELAY \in Nat /\ MaxRounds \in Nat \ {0} /\ 0 \in Tasks
  /\ EagerReady \in BOOLEAN

VARIABLES
  pc,        \* what the thread does: "idle", "run", "last", "wait", "exec", "spin"
  call,      \* the start or wait under way
  batch,     \* the execute_all_kernel under way: waits made, reports held
  ret,       \* result of the last call
  serial,    \* run() calls made so far
  owner,     \* whose work group each of them carried
  valid,     \* io_host_req_valid
  queue,     \* m_finished_block_queue_
  krlList,   \* krl_list of every context
  reported,  \* m_finished_kernel_lst_
  ready,     \* device: io_host_req_ready
  resident,  \* device: work groups accepted and not finished
  accepted,  \* how often each run() was accepted
  finished,  \* work groups the device has finished
  handled,   \* ids wait has dealt with or thrown away
  given      \* reports handed to the caller

device == <<ready, resident, accepted, finished, queue>>
books == <<krlList, reported, handled, given, ret>>
kdVars == <<pc, call, batch, serial, owner, valid, device, books>>

-----------------------------------------------------------------------------
(* The work group id of start() (driver.h:539), with its | where + was     *)
(* meant, and the fields wait() takes it apart into (driver.h:586), with   *)
(* 1 << n where (1 << n) - 1 was meant.                                    *)
Or2(x) == x - (x % 4) + 2 + (x % 2)                 \* 2 | x
Or6(x) == x - (x % 8) + 6 + (x % 2)                 \* 6 | x
WgId(t, k, i) == (4 * k + t) * 2^Or2(k) * 2^Or6(i) * 2

Masked(x, bit) == IF (x \div bit) % 2 = 1 THEN bit ELSE 0
BlockOf(id) == Masked(id \div 2, 64)
KernelOf(id) == Masked(id \div 128, 4)
ContextOf(id) == Masked(id \div 512, 4)

-----------------------------------------------------------------------------
(* One tick of the device: it takes the request if both sides agree at the *)
(* clock edge, may finish one work group that was there before, and shows  *)
(* whether it is ready for the next edge.                                  *)
DeviceTick ==
  LET taken == IF valid /\ ready THEN {<<serial, accepted[serial] + 1>>} ELSE {}
      ids(b) == LET o == owner[b[1]] IN WgId(o.task, o.kernel, o.block)
  IN  \E done \in {{}} \cup {{b} : b \in resident} :
        /\ resident' = (resident \ done) \cup taken
        /\ finished' = finished \cup done
        /\ queue' = IF done = {} THEN queue ELSE Append(queue, ids(CHOOSE b \in done : TRUE))
        /\ accepted' = IF taken = {} THEN accepted ELSE [accepted EXCEPT ![serial] = @ + 1]
        /\ ready' \in IF Cardinality(resident') < Capacity /\ (EagerReady \/ (valid /\ ~ready))
                      THEN BOOLEAN ELSE {FALSE}

-----------------------------------------------------------------------------
KDInit ==
  /\ pc = "idle" /\ call = [task |-> 0, kernel |-> 0, block |-> 0, left |-> 0]
  /\ batch = << >> /\ ret = "ok" /\ serial = 0 /\ owner = << >> /\ valid = FALSE
  /\ queue = << >> /\ reported = << >> /\ handled = 0 /\ given = 0
  /\ krlList = [t \in Tasks |-> [k \in {} |-> [blocks |-> {}, done |-> {}, state |-> "UNFINISH"]]]
  /\ ready \in IF EagerReady THEN BOOLEAN ELSE {FALSE}
  /\ resident = {} /\ accepted = [s \in 1 .. MaxRuns |-> 0] /\ finished = {}

(* Seeded bug: the request is not shown.                                    *)
BeginRunUnseen(c) ==
  /\ pc' = "run" /\ call' = c
  /\ serial' = serial + 1
  /\ owner' = Append(owner, [task |-> c.task, kernel |-> c.kernel, block |-> c.block])
  /\ valid' = FALSE

(* Processor::run up to its loop: request and valid.                       *)
BeginRun(c) ==
  /\ pc' = "run" /\ call' = c
  /\ serial' = serial + 1
  /\ owner' = Append(owner, [task |-> c.task, kernel |-> c.kernel, block |-> c.block])
  /\ valid' = TRUE

(* Driver::start: a run() for each of n work groups; none is a no-op.  Left *)
(* out: a start in a context that was not created throws and does nothing. *)
Start(t, k, n) ==
  /\ pc = "idle" /\ serial + n <= MaxRuns
  /\ BeginRun([task |-> t, kernel |-> k, block |-> 0, left |-> n - 1])
  /\ UNCHANGED <<batch, device, books>>

(* Seeded bug: the loop does not wait for ready.                           *)
RunTickOnce ==
  /\ pc = "run"
  /\ DeviceTick
  /\ pc' = "last"
  /\ UNCHANGED <<call, batch, serial, owner, valid, books>>

(* The loop of run(): tick until the device shows ready, without a limit.  *)
RunTick ==
  /\ pc = "run"
  /\ DeviceTick
  /\ pc' = IF ready' THEN "last" ELSE "run"
  /\ UNCHANGED <<call, batch, serial, owner, valid, books>>

(* Seeded bug: an entry the kernel id already has is replaced.             *)
BookedOver(t, k, id) ==
  [krlList EXCEPT ![t] = [j \in DOMAIN @ \cup {k} |->
     IF j = k THEN [blocks |-> {id}, done |-> {}, state |-> "UNFINISH"] ELSE @[j]]]

(* After it: one more tick with valid still up, then start() books the     *)
(* work group and turns to the next one.  emplace keeps an entry that a    *)
(* kernel id already has, so only the first id is ever booked.             *)
Booked(t, k, id) ==
  IF k \in DOMAIN krlList[t] THEN krlList
  ELSE [krlList EXCEPT ![t] = [j \in DOMAIN @ \cup {k} |->
          IF j = k THEN [blocks |-> {id}, done |-> {}, state |-> "UNFINISH"] ELSE @[j]]]

(* Seeded bug: valid stays up when the last work group was taken.          *)
LastTickKeepingValid ==
  /\ pc = "last"
  /\ DeviceTick
  /\ krlList' = Booked(call.task, call.kernel, WgId(call.task, call.kernel, call.block))
  /\ IF call.left > 0
     THEN BeginRun([call EXCEPT !.block = @ + 1, !.left = @ - 1]) /\ ret' = ret
     ELSE /\ pc' = "idle" /\ ret' = "ok"
          /\ UNCHANGED <<call, serial, owner, valid>>
  /\ UNCHANGED <<batch, reported, handled, given>>

LastTick ==
  /\ pc = "last"
  /\ DeviceTick
  /\ krlList' = Booked(call.task, call.kernel, WgId(call.task, call.kernel, call.block))
  /\ IF call.left > 0
     THEN BeginRun([call EXCEPT !.block = @ + 1, !.left = @ - 1]) /\ ret' = ret
     ELSE /\ pc' = "idle" /\ valid' = FALSE /\ ret' = "ok"
          /\ UNCHANGED <<call, serial, owner>>
  /\ UNCHANGED <<batch, reported, handled, given>>

(* Driver::wait.  m_last_task_ is never assigned, so its first part never  *)
(* runs; then the processor ticks for the time given.                      *)
BeginWait(cycles) == pc' = "wait" /\ call' = [call EXCEPT !.left = cycles]

Wait(cycles) ==
  /\ pc = "idle"
  /\ BeginWait(cycles)
  /\ UNCHANGED <<batch, serial, owner, valid, device, books>>

WaitTick ==
  /\ pc = "wait" /\ call.left > 0
  /\ DeviceTick
  /\ call' = [call EXCEPT !.left = @ - 1]
  /\ UNCHANGED <<pc, batch, serial, owner, valid, books>>

(* One id: its block is marked, and a kernel whose booked blocks are all   *)
(* marked is reported, also when it was before.  An id no entry matches    *)
(* throws.                                                                 *)
Legal(l, id) ==
  /\ ContextOf(id) \in Tasks
  /\ KernelOf(id) \in DOMAIN l[ContextOf(id)]
  /\ BlockOf(id) \in l[ContextOf(id)][KernelOf(id)].blocks

Handle(s, id) ==
  LET c == ContextOf(id)  k == KernelOf(id)
      entry == s.list[c][k]
      marked == [entry EXCEPT !.done = @ \cup {BlockOf(id)}]
  IN  IF s.ret = "throw" \/ ~Legal(s.list, id) THEN [s EXCEPT !.ret = "throw"]
      ELSE IF marked.done = entry.blocks
      THEN [s EXCEPT !.list[c][k] = [marked EXCEPT !.state = "FINISH"],
                     !.reported = Append(@, 4 * c + k)]
      ELSE [s EXCEPT !.list[c][k] = marked]

(* finished_block() empties the processor's queue and the ids are handled  *)
(* in order; a throw loses the ones behind it.                             *)
HandleIds ==
  LET s == FoldLeft(Handle, [list |-> krlList, reported |-> reported, ret |-> "ok"], queue)
  IN  krlList' = s.list /\ reported' = s.reported /\ ret' = s.ret

HandleQueue == HandleIds /\ handled' = handled + Len(queue)

(* Seeded bug: the ids stay in the processor's queue.                      *)
WaitReturnKeepingQueue ==
  /\ pc = "wait" /\ call.left = 0 /\ batch = << >>
  /\ HandleQueue
  /\ pc' = "idle"
  /\ UNCHANGED <<queue, call, batch, serial, owner, valid, given,
                 ready, resident, accepted, finished>>

WaitReturn ==
  /\ pc = "wait" /\ call.left = 0 /\ batch = << >>
  /\ HandleQueue /\ queue' = << >>
  /\ pc' = "idle"
  /\ UNCHANGED <<call, batch, serial, owner, valid, given, ready, resident, accepted, finished>>

(* get_finished_kernel hands out the reports and forgets them.             *)
GetFinishedKernel ==
  /\ pc = "idle" /\ reported # << >>
  /\ given' = given + Len(reported) /\ reported' = << >>
  /\ UNCHANGED <<pc, call, batch, serial, owner, valid, device, krlList, handled, ret>>

-----------------------------------------------------------------------------
(* execute_all_kernel.  all_context_finished looks at the first context    *)
(* only, context 0: the loop over the contexts leaves with FALSE while it  *)
(* has an unfinished kernel, and never advances otherwise.                 *)
ContextFinished(t) == \A k \in DOMAIN krlList[t] : krlList[t][k].state # "UNFINISH"

ExecuteAll ==
  /\ pc = "idle"
  /\ pc' = "exec" /\ batch' = <<[waits |-> 0, held |-> 0]>>
  /\ UNCHANGED <<call, serial, owner, valid, device, books>>

(* One round: take over the reports there are, then wait.                  *)
Round ==
  /\ pc = "exec" /\ ~ContextFinished(0)
  /\ batch' = [batch EXCEPT ![1].held = @ + Len(reported)]
  /\ reported' = << >>
  /\ BeginWait(RUN_DELAY)
  /\ UNCHANGED <<serial, owner, valid, device, krlList, handled, given, ret>>

AllFinished ==
  /\ pc = "exec" /\ ContextFinished(0)
  /\ pc' = "spin"
  /\ UNCHANGED <<call, batch, serial, owner, valid, device, books>>

Spin == pc = "spin" /\ UNCHANGED kdVars

(* Seeded bugs: the waits are not counted; the reports held are dropped.   *)
RoundReturnUncounted ==
  /\ pc = "wait" /\ call.left = 0 /\ batch # << >>
  /\ HandleQueue /\ queue' = << >>
  /\ IF ret' = "throw" THEN pc' = "idle" /\ batch' = << >> ELSE pc' = "exec" /\ batch' = batch
  /\ UNCHANGED <<call, serial, owner, valid, given, ready, resident, accepted, finished>>

RoundReturnDropping ==
  LET waits == batch[1].waits + 1
      over == ret' = "throw" \/ waits = MaxRounds
  IN  /\ pc = "wait" /\ call.left = 0 /\ batch # << >>
      /\ HandleQueue /\ queue' = << >>
      /\ pc' = IF over THEN "idle" ELSE "exec"
      /\ batch' = IF over THEN << >> ELSE [batch EXCEPT ![1].waits = waits]
      /\ given' = given
      /\ UNCHANGED <<call, serial, owner, valid, ready, resident, accepted, finished>>

(* The wait of a round is over: a throw leaves execute_all_kernel too, and *)
(* the reports it held are gone; after the last round it returns them.     *)
RoundReturn ==
  LET waits == batch[1].waits + 1
      over == ret' = "throw" \/ waits = MaxRounds
  IN  /\ pc = "wait" /\ call.left = 0 /\ batch # << >>
      /\ HandleQueue /\ queue' = << >>
      /\ pc' = IF over THEN "idle" ELSE "exec"
      /\ batch' = IF over THEN << >> ELSE [batch EXCEPT ![1].waits = waits]
      /\ given' = IF over /\ ret' = "ok" THEN given + batch[1].held ELSE given
      /\ UNCHANGED <<call, serial, owner, valid, ready, resident, accepted, finished>>

-----------------------------------------------------------------------------
(* vt_start and vt_ready_wait pass on to start and wait and answer 0       *)
(* whatever they answer; an error throws through them.                     *)
HostCalls ==
  \/ \E t \in Tasks, k \in Kernels, n \in 1 .. MaxBlocks : Start(t, k, n)
  \/ \E cycles \in 0 .. MaxCycles : Wait(cycles)

KDNext ==
  \/ HostCalls
  \/ RunTick \/ LastTick
  \/ WaitTick \/ WaitReturn
  \/ GetFinishedKernel
  \/ ExecuteAll \/ Round \/ AllFinished \/ Spin \/ RoundReturn

KDSpec == KDInit /\ [][KDNext]_kdVars

(* The loops of run and wait go on ticking; of the device it is assumed    *)
(* that it goes on finishing what is resident and, while it has room, does *)
(* not refuse a request for ever.                                          *)
KDFairness ==
  /\ WF_kdVars(RunTick) /\ WF_kdVars(LastTick)
  /\ WF_kdVars(WaitTick) /\ WF_kdVars(WaitReturn)
  /\ WF_kdVars(Round) /\ WF_kdVars(AllFinished) /\ WF_kdVars(RoundReturn)
  /\ SF_kdVars(RunTick /\ ready') /\ SF_kdVars(RunTick /\ finished' # finished)

KDFairSpec == KDSpec /\ KDFairness

-----------------------------------------------------------------------------
(* The dispatcher's state is well typed, and its parts name each other: an *)
(* entry of krl_list has booked the id of one run of its kernel and is     *)
(* finished once that is marked, an id queued is that of a run, and what   *)
(* is reported is a finished kernel.                                       *)
OwnedId(s) == WgId(owner[s].task, owner[s].kernel, owner[s].block)
EntryOK(t, k) ==
  LET e == krlList[t][k]
  IN  /\ \E s \in 1 .. serial :
            owner[s].task = t /\ owner[s].kernel = k /\ e.blocks = {OwnedId(s)}
      /\ e.done \subseteq e.blocks
      /\ e.state = IF e.done = e.blocks THEN "FINISH" ELSE "UNFINISH"
KDTypeOK ==
  /\ pc \in {"idle", "run", "last", "wait", "exec", "spin"}
  /\ pc \in {"exec", "spin"} => batch # << >>
  /\ batch # << >> => /\ pc \in {"wait", "exec", "spin"}
                      /\ batch[1].waits < MaxRounds /\ batch[1].held \in Nat
  /\ serial \in 0 .. MaxRuns /\ Len(owner) = serial
  /\ valid = (pc \in {"run", "last"})
  /\ ret \in {"ok", "throw"}
  /\ \A b \in resident \cup finished : b[1] \in 1 .. serial
  /\ Cardinality(resident) <= Capacity
  /\ \A i \in 1 .. Len(queue) : \E s \in 1 .. serial : queue[i] = OwnedId(s)
  /\ DOMAIN krlList = Tasks
  /\ \A t \in Tasks : \A k \in DOMAIN krlList[t] : k \in Kernels /\ EntryOK(t, k)
  /\ \A i \in 1 .. Len(reported) : \E t \in Tasks : \E k \in DOMAIN krlList[t] :
        reported[i] = 4 * t + k /\ krlList[t][k].state = "FINISH"
  /\ handled \in Nat /\ given \in Nat

(* processor.h:87 "call rtl SM to run a single block": one run() makes the *)
(* device run at most one work group.                                      *)
SingleBlock == \A s \in 1 .. serial : accepted[s] <= 1

(* A run() that has returned was accepted: the extra tick after the loop   *)
(* always carries the request over, whenever ready rose.                   *)
ReturnedMeansAccepted ==
  \A s \in 1 .. serial : (s < serial \/ pc \notin {"run", "last"}) => accepted[s] >= 1

(* Every completion the device shows is queued once and handed to one      *)
(* wait, across starts and waits in any order; none is seen twice.         *)
CompletionsCounted == Cardinality(finished) = Len(queue) + handled

(* Ids of different work groups collide: with kernel 0 of context 0 booked *)
(* first, every completion whose id decodes to its block 0 makes one       *)
(* report of that kernel, whichever kernel it came from.  While all do, no *)
(* call throws and no report is lost on its way through wait,              *)
(* get_finished_kernel and execute_all_kernel in any order.                *)
TakenForFirst(o) ==
  LET id == WgId(o.task, o.kernel, o.block)
  IN  ContextOf(id) = 0 /\ KernelOf(id) = 0 /\ BlockOf(id) = 0
OnlyFirst ==
  /\ serial > 0 => owner[1].task = 0 /\ owner[1].kernel = 0
  /\ \A s \in 1 .. serial : TakenForFirst(owner[s])
Reports == given + Len(reported) + (IF batch = << >> THEN 0 ELSE batch[1].held)
ReportsMatch == OnlyFirst => ret = "ok" /\ Reports = handled

(* A start returns, although run() has no limit, and so does a plain wait. *)
CallsReturn ==
  (pc \in {"run", "last"} \/ (pc = "wait" /\ batch = << >>)) ~> pc = "idle"

(* execute_all_kernel comes back, with the reports or by a throw, unless   *)
(* it finds the first context without an unfinished kernel: then its loop  *)
(* over the contexts never ends (driver.h:659).                            *)
ExecuteReturns == pc = "exec" ~> (pc = "idle" \/ (pc = "spin" /\ ContextFinished(0)))
=============================================================================
