------------------------- MODULE KernelDispatchProofs ------------------------
(***************************************************************************)
(* Theorems about KernelDispatch, for any contexts and kernel ids below 4, *)
(* any number of starts of up to 8 work groups, any room on the device and *)
(* any delays.  start() itself checks neither bound (driver.h:536): beyond *)
(* them its ids may not fit, and nothing is claimed.                       *)
(*                                                                         *)
(* The argument is one inductive invariant (Accounts): a work group is     *)
(* known by its run and the number of the acceptance, numbers up to        *)
(* accepted[s] are taken, and what is resident has not finished.  For the  *)
(* single block, ready is up exactly when the thread stands before the     *)
(* last tick of run() (ReadyTells), so that this tick and no other one     *)
(* carries the request over.  For the reports, the loop of wait() over the *)
(* ids is unrolled (HandleUnrolls) into its states between two ids, and    *)
(* induction along them shows what each id adds.                           *)
(***************************************************************************)
EXTENDS KernelDispatch, ListFacts, FiniteSetTheorems, SequenceTheorems, TLAPS

CallType == [task : 0 .. 3, kernel : 0 .. 3, block : Nat, left : Nat]
RunType == {c \in CallType : c.task \in Tasks /\ c.kernel \in Kernels}
OwnerType == [task : Tasks, kernel : Kernels, block : Nat]
Ids == {WgId(t, k, i) : t \in Tasks, k \in Kernels, i \in Nat}

(* Runs, requests and the queue are well typed.                            *)
Typing ==
  /\ pc \in {"idle", "run", "last", "wait", "exec", "spin"}
  /\ call \in CallType
  /\ pc \in {"run", "last"} => call \in RunType
  /\ serial \in 0 .. MaxRuns
  /\ owner \in Seq(OwnerType) /\ Len(owner) = serial
  /\ valid \in BOOLEAN /\ (valid <=> pc \in {"run", "last"})
  /\ valid => serial >= 1
  /\ pc \in {"run", "last"} => serial + call.left <= MaxRuns
  /\ ready \in BOOLEAN
  /\ accepted \in [1 .. MaxRuns -> Nat]
  /\ queue \in Seq(Ids) /\ handled \in Nat

(* What was accepted is resident or finished, never both, and was accepted *)
(* for a run that was made.                                                *)
Accounts ==
  /\ Typing
  /\ IsFiniteSet(finished)
  /\ resident \cap finished = {}
  /\ \A b \in resident \cup finished :
       /\ b = <<b[1], b[2]>>
       /\ b[1] \in 1 .. serial /\ b[2] \in 1 .. accepted[b[1]]
  /\ CompletionsCounted

ReadyTells ==
  /\ EagerReady = FALSE
  /\ ready <=> pc = "last"
  /\ \A s \in 1 .. MaxRuns : accepted[s] <= 1
  /\ \A s \in 1 .. MaxRuns : (s > serial \/ (s = serial /\ valid)) => accepted[s] = 0

LEMMA LeftSet ==
  ASSUME NEW c \in CallType, NEW n \in Nat
  PROVE  [c EXCEPT !.left = n] \in CallType
BY DEF CallType

LEMMA NextBlock ==
  ASSUME NEW c \in RunType, c.left > 0
  PROVE  /\ [c EXCEPT !.block = @ + 1, !.left = @ - 1] \in RunType
         /\ [c EXCEPT !.block = @ + 1, !.left = @ - 1].left = c.left - 1
<1>1. c \in CallType /\ c.task \in Tasks /\ c.kernel \in Kernels
  BY DEF RunType
<1> DEFINE d == [c EXCEPT !.block = @ + 1, !.left = @ - 1]
<1>2. d \in CallType /\ d.left = c.left - 1 /\ d.task = c.task /\ d.kernel = c.kernel
  <2>1. c.block + 1 \in Nat /\ c.left - 1 \in Nat
    BY <1>1 DEF CallType
  <2>2. [[c EXCEPT !.block = c.block + 1] EXCEPT !.left = c.left - 1] \in CallType
    BY <1>1, <2>1 DEF CallType
  <2>3. d = [[c EXCEPT !.block = c.block + 1] EXCEPT !.left = c.left - 1]
    BY <1>1 DEF CallType
  <2> QED
    BY <1>1, <2>2, <2>3 DEF CallType
<1> HIDE DEF d
<1>3. d \in RunType
  BY <1>1, <1>2 DEF RunType
<1> QED
  BY <1>2, <1>3 DEF d

(* A step of the thread that leaves the device alone keeps its accounts.   *)
LEMMA DeviceLeftAlone ==
  ASSUME Accounts, Typing', UNCHANGED <<resident, accepted, finished>>, serial <= serial',
         Len(queue') + handled' = Len(queue) + handled
  PROVE  Accounts'
<1>1. serial \in Nat /\ serial' \in Nat
  BY DEF Accounts, Typing
<1>2. ASSUME NEW b \in resident' \cup finished'
      PROVE  /\ b = <<b[1], b[2]>>
             /\ b[1] \in 1 .. serial' /\ b[2] \in 1 .. accepted'[b[1]]
  <2>1. b \in resident \cup finished
    OBVIOUS
  <2>2. b = <<b[1], b[2]>> /\ b[1] \in 1 .. serial /\ b[2] \in 1 .. accepted[b[1]]
    BY <2>1 DEF Accounts
  <2> QED
    BY <2>2, <1>1
<1>3. CompletionsCounted'
  BY DEF Accounts, CompletionsCounted
<1> QED
  BY <1>2, <1>3 DEF Accounts

(* One tick of the device keeps the accounts and says what it accepts.     *)
Ticked ==
  /\ queue' \in Seq(Ids)
  /\ accepted' = IF valid /\ ready THEN [accepted EXCEPT ![serial] = @ + 1] ELSE accepted
  /\ accepted' \in [1 .. MaxRuns -> Nat]
  /\ ready' \in BOOLEAN
  /\ ready' => EagerReady \/ (valid /\ ~ready)
  /\ IsFiniteSet(finished')
  /\ resident' \cap finished' = {}
  /\ \A b \in resident' \cup finished' :
       /\ b = <<b[1], b[2]>>
       /\ b[1] \in 1 .. serial /\ b[2] \in 1 .. accepted'[b[1]]
  /\ Cardinality(finished') = Len(queue') + handled

LEMMA TickKeeps ==
  ASSUME Accounts, DeviceTick
  PROVE  Ticked
<1> DEFINE taken == IF valid /\ ready THEN {<<serial, accepted[serial] + 1>>} ELSE {}
           ids(b) == LET o == owner[b[1]] IN WgId(o.task, o.kernel, o.block)
<1>1. PICK done \in {{}} \cup {{b} : b \in resident} :
        /\ resident' = (resident \ done) \cup taken
        /\ finished' = finished \cup done
        /\ queue' = IF done = {} THEN queue ELSE Append(queue, ids(CHOOSE b \in done : TRUE))
        /\ accepted' = IF taken = {} THEN accepted ELSE [accepted EXCEPT ![serial] = @ + 1]
        /\ ready' \in IF Cardinality(resident') < Capacity /\ (EagerReady \/ (valid /\ ~ready))
                      THEN BOOLEAN ELSE {FALSE}
  BY DEF DeviceTick
<1>2. /\ MaxRuns \in Nat /\ serial \in 0 .. MaxRuns /\ valid \in BOOLEAN
      /\ valid => serial \in 1 .. MaxRuns
      /\ accepted \in [1 .. MaxRuns -> Nat] /\ handled \in Nat
      /\ owner \in Seq(OwnerType) /\ Len(owner) = serial /\ queue \in Seq(Ids)
  BY DispatchAssumption DEF Accounts, Typing
<1>3. accepted' = IF valid /\ ready THEN [accepted EXCEPT ![serial] = @ + 1] ELSE accepted
  BY <1>1
<1>4. accepted' \in [1 .. MaxRuns -> Nat] /\ \A s \in 1 .. MaxRuns : accepted[s] <= accepted'[s]
  BY <1>2, <1>3
<1>5. \A b \in resident \cup finished :
        /\ b = <<b[1], b[2]>>
        /\ b[1] \in 1 .. serial /\ b[2] \in 1 .. accepted[b[1]]
  BY DEF Accounts
<1>6. ASSUME NEW b \in resident \cup finished
      PROVE  b = <<b[1], b[2]>> /\ b[1] \in 1 .. serial /\ b[2] \in 1 .. accepted'[b[1]]
  BY <1>2, <1>4, <1>5
<1>7. ASSUME NEW b \in taken
      PROVE  /\ b = <<b[1], b[2]>> /\ b[1] \in 1 .. serial /\ b[2] \in 1 .. accepted'[b[1]]
             /\ b \notin resident \cup finished
  <2>1. valid /\ ready /\ b = <<serial, accepted[serial] + 1>>
    OBVIOUS
  <2>2. accepted'[serial] = accepted[serial] + 1
    BY <1>2, <1>3, <2>1
  <2>3. b[1] = serial /\ b[2] = accepted[serial] + 1
    BY <2>1
  <2>4. ASSUME b \in resident \cup finished PROVE FALSE
    <3>1. b[2] \in 1 .. accepted[serial]
      BY <1>5, <2>3, <2>4
    <3> QED
      BY <3>1, <2>1, <2>3, <1>2
  <2> QED
    BY <2>1, <2>2, <2>3, <2>4, <1>2
<1>8. done \subseteq resident /\ done \cap finished = {}
  BY <1>1 DEF Accounts
<1>9. resident' \cap finished' = {}
  BY <1>1, <1>7, <1>8 DEF Accounts
<1>10. \A b \in resident' \cup finished' :
        /\ b = <<b[1], b[2]>>
        /\ b[1] \in 1 .. serial /\ b[2] \in 1 .. accepted'[b[1]]
  BY <1>1, <1>6, <1>7, <1>8
<1>11. /\ IsFiniteSet(finished') /\ queue' \in Seq(Ids)
       /\ Cardinality(finished') = Len(queue') + handled
  <2>1. CASE done = {}
    BY <1>1, <1>2, <2>1 DEF Accounts, CompletionsCounted
  <2>2. CASE done # {}
    <3>1. PICK b \in resident : done = {b}
      BY <1>1, <2>2
    <3>2. (CHOOSE x \in done : TRUE) = b
      BY <3>1
    <3>3. owner[b[1]] \in OwnerType
      BY <1>2, <1>5, ElementOfSeq
    <3>4. ids(b) \in Ids
      BY <3>3 DEF OwnerType, Ids
    <3>5. queue' = Append(queue, ids(b))
      BY <1>1, <2>2, <3>2
    <3>6. queue' \in Seq(Ids) /\ Len(queue') = Len(queue) + 1
      <4> HIDE DEF ids
      <4> QED
        BY <1>2, <3>4, <3>5, AppendProperties
    <3>7. b \notin finished
      BY <3>1, <1>8
    <3>8. IsFiniteSet(finished') /\ Cardinality(finished') = Cardinality(finished) + 1
      BY <1>1, <3>1, <3>7, FS_AddElement DEF Accounts
    <3> QED
      BY <3>6, <3>8, <1>2, LenProperties DEF Accounts, CompletionsCounted
  <2> QED
    BY <2>1, <2>2
<1>12. ready' \in BOOLEAN /\ (ready' => EagerReady \/ (valid /\ ~ready))
  BY <1>1
<1> QED
  BY <1>3, <1>4, <1>9, <1>10, <1>11, <1>12 DEF Ticked

LEMMA AfterTick ==
  ASSUME Accounts, DeviceTick, Typing', serial <= serial', handled' = handled
  PROVE  Accounts'
<1>1. Ticked
  BY TickKeeps
<1>2. serial \in Nat /\ serial' \in Nat
  BY DEF Accounts, Typing
<1>3. ASSUME NEW b \in resident' \cup finished'
      PROVE  /\ b = <<b[1], b[2]>>
             /\ b[1] \in 1 .. serial' /\ b[2] \in 1 .. accepted'[b[1]]
  <2>1. b = <<b[1], b[2]>> /\ b[1] \in 1 .. serial /\ b[2] \in 1 .. accepted'[b[1]]
    BY <1>1 DEF Ticked
  <2> QED
    BY <2>1, <1>2
<1>4. CompletionsCounted'
  BY <1>1 DEF Ticked, CompletionsCounted
<1> QED
  BY <1>1, <1>3, <1>4 DEF Accounts, Ticked

(* A run() is entered with its request shown and a number of its own.      *)
LEMMA BegunTyped ==
  ASSUME Accounts, NEW c \in RunType, serial + 1 + c.left <= MaxRuns, BeginRun(c),
         accepted' \in [1 .. MaxRuns -> Nat], ready' \in BOOLEAN,
         queue' \in Seq(Ids), handled' = handled
  PROVE  Typing' /\ serial' = serial + 1
<1>1. MaxRuns \in Nat /\ serial \in 0 .. MaxRuns /\ c.left \in Nat /\ c.block \in Nat
  BY DispatchAssumption DEF Accounts, Typing, RunType, CallType
<1>2. pc' = "run" /\ call' = c /\ serial' = serial + 1 /\ valid' = TRUE
  BY DEF BeginRun
<1>3. owner' \in Seq(OwnerType) /\ Len(owner') = Len(owner) + 1
  <2>1. [task |-> c.task, kernel |-> c.kernel, block |-> c.block] \in OwnerType
    BY DEF RunType, CallType, OwnerType
  <2> QED
    BY <2>1, AppendProperties DEF BeginRun, Accounts, Typing
<1>4. call' \in CallType /\ call' \in RunType
  BY <1>2, DispatchAssumption DEF CallType, RunType
<1> QED
  BY <1>1, <1>2, <1>3, <1>4 DEF Typing, Accounts

LEMMA AccountsInit == KDInit => Accounts
<1> SUFFICES ASSUME KDInit PROVE Accounts
  OBVIOUS
<1>1. Typing
  <2>1. /\ pc = "idle" /\ call = [task |-> 0, kernel |-> 0, block |-> 0, left |-> 0]
        /\ serial = 0 /\ owner = << >> /\ valid = FALSE /\ queue = << >> /\ handled = 0
        /\ ready \in BOOLEAN /\ accepted = [s \in 1 .. MaxRuns |-> 0]
    BY DEF KDInit
  <2>2. call \in CallType
    BY <2>1 DEF CallType
  <2>3. owner \in Seq(OwnerType) /\ Len(owner) = 0 /\ queue \in Seq(Ids)
    BY <2>1, EmptySeq
  <2>4. MaxRuns \in Nat /\ accepted \in [1 .. MaxRuns -> Nat]
    BY <2>1, DispatchAssumption
  <2>5. ready \in BOOLEAN /\ valid = FALSE /\ pc = "idle" /\ serial = 0 /\ handled = 0
    BY <2>1
  <2>6. serial \in 0 .. MaxRuns /\ handled \in Nat
    BY <2>4, <2>5
  <2>7. /\ pc \notin {"run", "last"}
        /\ pc \in {"idle", "run", "last", "wait", "exec", "spin"}
    BY <2>5
  <2>8. Len(owner) = serial
    BY <2>3, <2>5
  <2> QED
    BY <2>2, <2>3, <2>4, <2>5, <2>6, <2>7, <2>8, Zenon DEF Typing
<1>2. IsFiniteSet(finished) /\ Cardinality(finished) = 0
  BY FS_EmptySet DEF KDInit
<1> QED
  BY <1>1, <1>2 DEF KDInit, Accounts, CompletionsCounted

(* Every action keeps the accounts.                                        *)
LEMMA AccountsStep == Accounts /\ [KDNext]_kdVars => Accounts'
<1> SUFFICES ASSUME Accounts, [KDNext]_kdVars PROVE Accounts'
  OBVIOUS
<1> USE DEF Accounts, Typing
<1>0. MaxRuns \in Nat /\ MaxBlocks \in Nat /\ serial \in Nat /\ RUN_DELAY \in Nat
  BY DispatchAssumption
<1>1. ASSUME NEW t \in Tasks, NEW k \in Kernels, NEW n \in 1 .. MaxBlocks, Start(t, k, n)
      PROVE  Accounts'
  <2> DEFINE c == [task |-> t, kernel |-> k, block |-> 0, left |-> n - 1]
  <2>1. c \in RunType /\ serial + 1 + c.left <= MaxRuns /\ BeginRun(c)
    <3>1. t \in 0 .. 3 /\ k \in 0 .. 3 /\ n - 1 \in Nat
      BY <1>0, DispatchAssumption
    <3>2. c \in RunType
      BY <3>1 DEF RunType, CallType
    <3>3. serial + n <= MaxRuns /\ c.left = n - 1 /\ n \in Nat
      BY <1>0, <1>1 DEF Start
    <3>4. BeginRun(c)
      BY <1>1 DEF Start
    <3> HIDE DEF c, Accounts, Typing
    <3> QED
      BY <1>0, <3>2, <3>3, <3>4
  <2>2. UNCHANGED <<accepted, ready, queue, handled, resident, finished>>
    BY <1>1 DEF Start, device, books
  <2> HIDE DEF c, Accounts, Typing
  <2>3. Typing' /\ serial' = serial + 1
    BY <2>1, <2>2, BegunTyped DEF Accounts, Typing
  <2> QED
    BY <2>2, <2>3, <1>0, DeviceLeftAlone
<1>2. ASSUME NEW cycles \in 0 .. MaxCycles, Wait(cycles) PROVE Accounts'
  <2>1. /\ UNCHANGED <<owner, valid, ready, resident, accepted, finished, serial, queue, handled>>
        /\ pc = "idle" /\ pc' = "wait" /\ call' = [call EXCEPT !.left = cycles]
    BY <1>2 DEF Wait, BeginWait, device, books
  <2>2. call' \in CallType
    BY <2>1, LeftSet, DispatchAssumption
  <2>3. Typing'
    BY <2>1, <2>2
  <2> HIDE DEF Accounts, Typing
  <2> QED
    BY <2>1, <2>3, <1>0, DeviceLeftAlone
<1>3. CASE RunTick
  <2>1. Ticked /\ DeviceTick /\ UNCHANGED <<serial, handled>>
    BY <1>3, TickKeeps DEF RunTick, books
  <2>2. Typing'
    BY <1>3, <2>1 DEF RunTick, Ticked, books
  <2> HIDE DEF Accounts, Typing
  <2> QED
    BY <2>1, <2>2, <1>0, AfterTick
<1>4. CASE LastTick
  <2>1. Ticked /\ DeviceTick /\ handled' = handled
    BY <1>4, TickKeeps DEF LastTick
  <2>2. CASE call.left > 0
    <3> DEFINE c == [call EXCEPT !.block = @ + 1, !.left = @ - 1]
    <3> HIDE DEF Accounts, Typing
    <3>1. BeginRun(c)
      BY <1>4, <2>2 DEF LastTick
    <3>3. call \in RunType /\ serial + call.left <= MaxRuns
      BY <1>4 DEF LastTick, Accounts, Typing
    <3>4. c \in RunType /\ c.left = call.left - 1
      BY <3>3, <2>2, NextBlock
    <3> HIDE DEF c
    <3>5. serial + 1 + c.left <= MaxRuns
      BY <3>3, <3>4, <1>0 DEF RunType, CallType
    <3>2. Typing' /\ serial' = serial + 1
      BY <2>1, <3>1, <3>4, <3>5, BegunTyped DEF Ticked
    <3> QED
      BY <2>1, <3>2, <1>0, AfterTick
  <2>3. CASE ~(call.left > 0)
    <3>1. Typing' /\ serial' = serial
      BY <1>4, <2>1, <2>3 DEF LastTick, Ticked
    <3> HIDE DEF Accounts, Typing
    <3> QED
      BY <2>1, <3>1, <1>0, AfterTick
  <2> QED
    BY <2>2, <2>3
<1>5. CASE WaitTick
  <2>1. Ticked /\ DeviceTick /\ UNCHANGED <<serial, handled>>
    BY <1>5, TickKeeps DEF WaitTick, books
  <2>2. /\ UNCHANGED <<pc, owner, valid>> /\ pc = "wait"
        /\ call.left > 0 /\ call' = [call EXCEPT !.left = call.left - 1]
    BY <1>5 DEF WaitTick, books
  <2>3. call' \in CallType
    BY <2>2, LeftSet DEF CallType
  <2>4. Typing'
    BY <2>1, <2>2, <2>3 DEF Ticked
  <2> HIDE DEF Accounts, Typing
  <2> QED
    BY <2>1, <2>4, <1>0, AfterTick
<1>6. CASE WaitReturn
  <2>1. /\ Typing' /\ UNCHANGED <<resident, accepted, finished, serial>>
        /\ Len(queue') = 0 /\ handled' = handled + Len(queue)
    BY <1>6, LenProperties, EmptySeq DEF WaitReturn, HandleQueue
  <2>2. Len(queue) \in Nat
    BY LenProperties
  <2> HIDE DEF Accounts, Typing
  <2> QED
    BY <2>1, <2>2, <1>0, DeviceLeftAlone DEF Accounts, Typing
<1>7. CASE GetFinishedKernel
  <2>1. Typing' /\ UNCHANGED <<resident, accepted, finished, serial, queue, handled>>
    BY <1>7 DEF GetFinishedKernel, device
  <2> HIDE DEF Accounts, Typing
  <2> QED
    BY <2>1, <1>0, DeviceLeftAlone
<1>8. CASE ExecuteAll \/ Round \/ AllFinished
  <2>0. /\ UNCHANGED <<owner, valid, ready, resident, accepted, finished, serial, queue, handled>>
        /\ pc \in {"idle", "exec"} /\ pc' \in {"exec", "wait", "spin"}
        /\ call' = call \/ call' = [call EXCEPT !.left = RUN_DELAY]
    BY <1>8 DEF ExecuteAll, Round, AllFinished, BeginWait, device, books
  <2>2. call' \in CallType
    BY <1>0, <2>0, LeftSet
  <2>1. Typing' /\ UNCHANGED <<resident, accepted, finished, serial, queue, handled>>
    BY <2>0, <2>2
  <2> HIDE DEF Accounts, Typing
  <2> QED
    BY <2>1, <1>0, DeviceLeftAlone
<1>9. CASE RoundReturn
  <2>1. /\ Typing' /\ UNCHANGED <<resident, accepted, finished, serial>>
        /\ Len(queue') = 0 /\ handled' = handled + Len(queue)
    BY <1>9, LenProperties, EmptySeq DEF RoundReturn, HandleQueue
  <2>2. Len(queue) \in Nat
    BY LenProperties
  <2> HIDE DEF Accounts, Typing
  <2> QED
    BY <2>1, <2>2, <1>0, DeviceLeftAlone DEF Accounts, Typing
<1>10. CASE Spin \/ UNCHANGED kdVars
  <2>1. UNCHANGED <<pc, call, serial, owner, valid, ready, resident, accepted, finished, queue, handled>>
    BY <1>10 DEF Spin, kdVars, device, books
  <2>2. Typing'
    BY <2>1
  <2> HIDE DEF Accounts, Typing
  <2> QED
    BY <2>1, <2>2, <1>0, DeviceLeftAlone
<1> HIDE DEF Accounts, Typing
<1> QED
  BY <1>1, <1>2, <1>3, <1>4, <1>5, <1>6, <1>7, <1>8, <1>9, <1>10 DEF KDNext, HostCalls

-----------------------------------------------------------------------------
(* processor.h:136-138, driver.h:582: every work group the device finished *)
(* is in the processor's queue or was taken out by exactly one wait        *)
(* (CompletionsCounted).                                                   *)
THEOREM CompletionsAccounted == KDSpec => []CompletionsCounted
<1>1. Accounts => CompletionsCounted
  BY DEF Accounts
<1> QED
  BY <1>1, AccountsInit, AccountsStep, PTL DEF KDSpec

-----------------------------------------------------------------------------
(* What a tick does to accepted, whichever action makes it.                *)
LEMMA AcceptedAfterTick ==
  ASSUME Accounts, DeviceTick
  PROVE  /\ \A s \in 1 .. MaxRuns : accepted'[s] >= accepted[s]
         /\ \A s \in 1 .. MaxRuns :
              accepted'[s] = IF valid /\ ready /\ s = serial THEN accepted[s] + 1 ELSE accepted[s]
<1>1. /\ accepted' = IF valid /\ ready THEN [accepted EXCEPT ![serial] = @ + 1] ELSE accepted
      /\ accepted \in [1 .. MaxRuns -> Nat]
  BY TickKeeps DEF Ticked, Accounts, Typing
<1> QED
  BY <1>1

(* The last tick of run() is made while ready is up, so it carries over.   *)
Delivered ==
  /\ ReturnedMeansAccepted
  /\ pc = "last" => ready

LEMMA DeliveredStep == Accounts /\ Accounts' /\ Delivered /\ [KDNext]_kdVars => Delivered'
<1> SUFFICES ASSUME Accounts, Accounts', Delivered, [KDNext]_kdVars PROVE Delivered'
  OBVIOUS
<1>1. /\ MaxRuns \in Nat /\ serial \in 0 .. MaxRuns /\ serial' \in 0 .. MaxRuns
      /\ accepted \in [1 .. MaxRuns -> Nat] /\ accepted' \in [1 .. MaxRuns -> Nat]
      /\ valid <=> pc \in {"run", "last"}
      /\ valid' <=> pc' \in {"run", "last"}
  BY DispatchAssumption DEF Accounts, Typing
<1>2. CASE \E t \in Tasks, k \in Kernels, n \in 1 .. MaxBlocks : Start(t, k, n)
  <2>1. /\ pc = "idle" /\ pc' = "run" /\ serial' = serial + 1 /\ accepted' = accepted
    BY <1>2 DEF Start, BeginRun, device
  <2> QED
    BY <1>1, <2>1 DEF Delivered, ReturnedMeansAccepted
<1>3. CASE RunTick
  <2>1. /\ pc = "run" /\ serial' = serial /\ DeviceTick
        /\ pc' = "run" \/ (pc' = "last" /\ ready')
    BY <1>3, Zenon DEF RunTick
  <2>2. \A s \in 1 .. MaxRuns : accepted'[s] >= accepted[s]
    BY <2>1, AcceptedAfterTick
  <2> QED
    BY <1>1, <2>1, <2>2 DEF Delivered, ReturnedMeansAccepted
<1>4. CASE LastTick
  <2>1. /\ pc = "last" /\ DeviceTick /\ ready /\ valid
        /\ (pc' = "run" /\ serial' = serial + 1) \/ (pc' = "idle" /\ serial' = serial)
    BY <1>4, <1>1 DEF LastTick, BeginRun, Delivered
  <2>2. \A s \in 1 .. MaxRuns :
          accepted'[s] = IF s = serial THEN accepted[s] + 1 ELSE accepted[s]
    BY <2>1, AcceptedAfterTick
  <2>3. \A s \in 1 .. serial : accepted'[s] >= 1
    BY <1>1, <2>1, <2>2 DEF Delivered, ReturnedMeansAccepted
  <2>4. pc' # "last"
    BY <2>1
  <2>5. ASSUME NEW s \in 1 .. serial', s < serial' \/ pc' \notin {"run", "last"}
        PROVE  accepted'[s] >= 1
    BY <1>1, <2>1, <2>3, <2>5
  <2> QED
    BY <2>4, <2>5 DEF Delivered, ReturnedMeansAccepted
<1>5. CASE WaitTick
  <2>1. pc = "wait" /\ pc' = "wait" /\ serial' = serial /\ DeviceTick
    BY <1>5 DEF WaitTick
  <2>2. \A s \in 1 .. MaxRuns : accepted'[s] >= accepted[s]
    BY <2>1, AcceptedAfterTick
  <2> QED
    BY <1>1, <2>1, <2>2 DEF Delivered, ReturnedMeansAccepted
<1>6. CASE \/ \E cycles \in 0 .. MaxCycles : Wait(cycles)
           \/ WaitReturn \/ GetFinishedKernel \/ ExecuteAll \/ Round
           \/ AllFinished \/ Spin \/ RoundReturn
  <2>1. /\ pc \notin {"run", "last"} /\ pc' \notin {"run", "last"}
        /\ serial' = serial /\ accepted' = accepted
    BY <1>6 DEF Wait, BeginWait, WaitReturn, GetFinishedKernel, ExecuteAll, Round,
                AllFinished, Spin, RoundReturn, kdVars, device, books
  <2> QED
    BY <2>1 DEF Delivered, ReturnedMeansAccepted
<1>7. CASE UNCHANGED kdVars
  BY <1>7 DEF kdVars, device, Delivered, ReturnedMeansAccepted
<1> QED
  BY <1>2, <1>3, <1>4, <1>5, <1>6, <1>7 DEF KDNext, HostCalls

(* processor.h:122-131: a run() that returned was accepted by the device,  *)
(* also by one that may be ready before it is asked (ReturnedMeansAccepted)*)
THEOREM RunDelivers == KDSpec => []ReturnedMeansAccepted
<1>1. KDInit => Delivered
  BY DEF KDInit, Delivered, ReturnedMeansAccepted
<1>2. Delivered => ReturnedMeansAccepted
  BY DEF Delivered
<1> QED
  BY <1>1, <1>2, DeliveredStep, AccountsInit, AccountsStep, PTL DEF KDSpec

-----------------------------------------------------------------------------
LEMMA ReadyTellsStep ==
  ASSUME EagerReady = FALSE
  PROVE  Accounts /\ Accounts' /\ ReadyTells /\ [KDNext]_kdVars => ReadyTells'
<1> SUFFICES ASSUME Accounts, Accounts', ReadyTells, [KDNext]_kdVars PROVE ReadyTells'
  OBVIOUS
<1>1. /\ MaxRuns \in Nat /\ serial \in 0 .. MaxRuns /\ serial' \in 0 .. MaxRuns
      /\ accepted \in [1 .. MaxRuns -> Nat] /\ accepted' \in [1 .. MaxRuns -> Nat]
      /\ valid <=> pc \in {"run", "last"}
      /\ valid' <=> pc' \in {"run", "last"}
      /\ ready \in BOOLEAN /\ ready' \in BOOLEAN
  BY DispatchAssumption DEF Accounts, Typing
<1>2. ASSUME DeviceTick
      PROVE  /\ ready' => valid /\ ~ready
             /\ \A s \in 1 .. MaxRuns :
                  accepted'[s] = IF valid /\ ready /\ s = serial THEN accepted[s] + 1
                                 ELSE accepted[s]
  BY <1>2, TickKeeps, AcceptedAfterTick DEF Ticked
<1>3. CASE \E t \in Tasks, k \in Kernels, n \in 1 .. MaxBlocks : Start(t, k, n)
  <2>1. /\ pc = "idle" /\ pc' = "run" /\ serial' = serial + 1 /\ accepted' = accepted
        /\ ready' = ready
    BY <1>3 DEF Start, BeginRun, device
  <2> QED
    BY <1>1, <2>1 DEF ReadyTells
<1>4. CASE RunTick
  <2>1. /\ pc = "run" /\ serial' = serial /\ valid' = valid /\ ~ready /\ valid
        /\ (pc' = "run" /\ ~ready') \/ (pc' = "last" /\ ready')
    <3>1. pc = "run" /\ serial' = serial /\ valid' = valid /\ valid
      BY <1>4, <1>1 DEF RunTick
    <3>2. ~ready
      BY <3>1 DEF ReadyTells
    <3>3. (pc' = "run" /\ ~ready') \/ (pc' = "last" /\ ready')
      BY <1>4, Zenon DEF RunTick
    <3> QED
      BY <3>1, <3>2, <3>3
  <2>2. \A s \in 1 .. MaxRuns : accepted'[s] = accepted[s]
    BY <1>2, <1>4, <2>1 DEF RunTick
  <2> QED
    BY <1>1, <2>1, <2>2 DEF ReadyTells
<1>5. CASE LastTick
  <2>1. /\ pc = "last" /\ ready /\ valid
        /\ (pc' = "run" /\ serial' = serial + 1) \/ (pc' = "idle" /\ serial' = serial)
    BY <1>5, <1>1 DEF LastTick, BeginRun, ReadyTells
  <2>2. /\ ~ready'
        /\ \A s \in 1 .. MaxRuns :
             accepted'[s] = IF s = serial THEN accepted[s] + 1 ELSE accepted[s]
    BY <1>2, <1>5, <2>1 DEF LastTick
  <2>3. \A s \in 1 .. MaxRuns : accepted'[s] <= 1
    BY <1>1, <2>1, <2>2 DEF ReadyTells
  <2>4. ASSUME NEW s \in 1 .. MaxRuns, s > serial' \/ (s = serial' /\ valid')
        PROVE  accepted'[s] = 0
    <3>1. s > serial
      BY <1>1, <2>1, <2>4
    <3> QED
      BY <1>1, <2>2, <3>1 DEF ReadyTells
  <2> QED
    BY <2>1, <2>2, <2>3, <2>4 DEF ReadyTells
<1>6. CASE WaitTick
  <2>1. /\ pc = "wait" /\ pc' = "wait" /\ serial' = serial /\ valid' = valid /\ ~valid
    BY <1>6, <1>1 DEF WaitTick
  <2>2. ~ready' /\ \A s \in 1 .. MaxRuns : accepted'[s] = accepted[s]
    BY <1>2, <1>6, <2>1 DEF WaitTick
  <2> QED
    BY <1>1, <2>1, <2>2 DEF ReadyTells
<1>7. CASE \/ \E cycles \in 0 .. MaxCycles : Wait(cycles)
           \/ WaitReturn \/ GetFinishedKernel \/ ExecuteAll \/ Round
           \/ AllFinished \/ Spin \/ RoundReturn
  <2>1. /\ pc # "last" /\ pc' # "last"
        /\ serial' = serial /\ accepted' = accepted /\ ready' = ready /\ valid' = valid
    BY <1>7 DEF Wait, BeginWait, WaitReturn, GetFinishedKernel, ExecuteAll, Round,
                AllFinished, Spin, RoundReturn, kdVars, device, books
  <2> QED
    BY <2>1 DEF ReadyTells
<1>8. CASE UNCHANGED kdVars
  BY <1>8 DEF kdVars, device, ReadyTells
<1> QED
  BY <1>3, <1>4, <1>5, <1>6, <1>7, <1>8 DEF KDNext, HostCalls

(* processor.h:87 "call rtl SM to run a single block": with a device that  *)
(* shows ready only for a request it has seen, and then for one cycle, one *)
(* run() is accepted at most once (SingleBlock).  MCSingleBlock.cfg        *)
(* refutes it for the other devices.                                       *)
THEOREM RunsSingleBlock ==
  ASSUME EagerReady = FALSE
  PROVE  KDSpec => []SingleBlock
<1>1. KDInit => ReadyTells
  BY DEF KDInit, ReadyTells
<1>2. Accounts /\ ReadyTells => SingleBlock
  BY DispatchAssumption DEF Accounts, Typing, ReadyTells, SingleBlock
<1> QED
  BY <1>1, <1>2, ReadyTellsStep, AccountsInit, AccountsStep, PTL DEF KDSpec

-----------------------------------------------------------------------------
(* The state of wait()'s loop over the ids: the kernels of the contexts,   *)
(* the reports so far and whether an id has thrown.                        *)
Marks == Nat \cup Ids
EntryType == [blocks : SUBSET Marks, done : SUBSET Marks, state : {"UNFINISH", "FINISH"}]
Krls == UNION {[D -> EntryType] : D \in SUBSET Kernels}
Lists == [Tasks -> Krls]
LoopType == [list : Lists, reported : Seq(Nat), ret : {"ok", "throw"}]

LEMMA IdParts ==
  ASSUME NEW id
  PROVE  ContextOf(id) \in Nat /\ KernelOf(id) \in Nat /\ BlockOf(id) \in Nat
BY DEF ContextOf, KernelOf, BlockOf, Masked

(* One id: what Handle makes of the loop's state.                          *)
Put(l, c, k, e) == [l EXCEPT ![c] = [l[c] EXCEPT ![k] = e]]

LEMMA PutTyped ==
  ASSUME NEW l \in Lists, NEW c \in Tasks, NEW k \in DOMAIN l[c], NEW e \in EntryType
  PROVE  /\ Put(l, c, k, e) \in Lists
         /\ DOMAIN Put(l, c, k, e)[c] = DOMAIN l[c]
         /\ Put(l, c, k, e)[c][k] = e
<1>1. PICK D \in SUBSET Kernels : l[c] \in [D -> EntryType]
  BY DEF Lists, Krls
<1>2. [l[c] EXCEPT ![k] = e] \in [D -> EntryType]
  BY <1>1
<1>3. [l[c] EXCEPT ![k] = e] \in Krls
  BY <1>2 DEF Krls
<1> QED
  BY <1>1, <1>3 DEF Put, Lists

LEMMA HandleTyped ==
  ASSUME NEW s \in LoopType, NEW id
  PROVE  /\ Handle(s, id) \in LoopType
         /\ s.ret = "ok" /\ Legal(s.list, id) =>
              /\ Handle(s, id).ret = "ok"
              /\ LET c == ContextOf(id)  k == KernelOf(id)
                     e == s.list[c][k]
                     done == e.done \cup {BlockOf(id)}
                     l == Handle(s, id).list
                 IN  /\ DOMAIN l[c] = DOMAIN s.list[c]
                     /\ l[c][k].blocks = e.blocks /\ l[c][k].done = done
                     /\ Len(Handle(s, id).reported)
                          = Len(s.reported) + (IF done = e.blocks THEN 1 ELSE 0)
<1> DEFINE c == ContextOf(id)
           k == KernelOf(id)
           entry == s.list[c][k]
           marked == [entry EXCEPT !.done = @ \cup {BlockOf(id)}]
           full == [marked EXCEPT !.state = "FINISH"]
<1>1. CASE s.ret = "throw" \/ ~Legal(s.list, id)
  <2>1. Handle(s, id) = [s EXCEPT !.ret = "throw"]
    BY <1>1 DEF Handle
  <2> QED
    BY <1>1, <2>1 DEF LoopType
<1>2. CASE ~(s.ret = "throw" \/ ~Legal(s.list, id))
  <2>1. c \in Tasks /\ k \in DOMAIN s.list[c] /\ s.list \in Lists /\ s.ret = "ok"
    BY <1>2 DEF Legal, LoopType
  <2>2. entry \in EntryType
    <3>2. s.list[c] \in Krls
      BY <2>1 DEF Lists
    <3>1. PICK D \in SUBSET Kernels : s.list[c] \in [D -> EntryType]
      BY <3>2 DEF Krls
    <3> QED
      BY <2>1, <3>1
  <2>3. /\ marked \in EntryType /\ full \in EntryType
        /\ marked.blocks = entry.blocks /\ full.blocks = entry.blocks
        /\ marked.done = entry.done \cup {BlockOf(id)} /\ full.done = marked.done
    <3>1. BlockOf(id) \in Marks
      BY IdParts DEF Marks
    <3> HIDE DEF entry
    <3> QED
      BY <2>2, <3>1 DEF EntryType
  <2>4. 4 * c + k \in Nat
    BY IdParts
  <2> HIDE DEF marked, full, entry
  <2>5. CASE marked.done = entry.blocks
    <3> DEFINE l == Put(s.list, c, k, full)
    <3>1. /\ Handle(s, id).list = l /\ Handle(s, id).ret = s.ret
          /\ Handle(s, id).reported = Append(s.reported, 4 * c + k)
          /\ Handle(s, id) = [list |-> l, reported |-> Append(s.reported, 4 * c + k), ret |-> s.ret]
      BY <1>2, <2>5 DEF Handle, LoopType, Put, marked, full, entry
    <3>2. l \in Lists /\ DOMAIN l[c] = DOMAIN s.list[c] /\ l[c][k] = full
      BY <2>1, <2>3, PutTyped
    <3>3. /\ Append(s.reported, 4 * c + k) \in Seq(Nat)
          /\ Len(Append(s.reported, 4 * c + k)) = Len(s.reported) + 1
      BY <2>4, AppendProperties DEF LoopType
    <3> HIDE DEF l, c, k
    <3>4. Handle(s, id) \in LoopType
      BY <3>1, <3>2, <3>3, <2>1 DEF LoopType
    <3> QED
      BY <2>1, <2>3, <2>5, <3>1, <3>2, <3>3, <3>4 DEF c, k, entry
  <2>6. CASE marked.done # entry.blocks
    <3> DEFINE l == Put(s.list, c, k, marked)
    <3>1. /\ Handle(s, id).list = l /\ Handle(s, id).ret = s.ret
          /\ Handle(s, id).reported = s.reported
          /\ Handle(s, id) = [list |-> l, reported |-> s.reported, ret |-> s.ret]
      BY <1>2, <2>6 DEF Handle, LoopType, Put, marked, full, entry
    <3>2. l \in Lists /\ DOMAIN l[c] = DOMAIN s.list[c] /\ l[c][k] = marked
      BY <2>1, <2>3, PutTyped
    <3>3. Len(s.reported) \in Nat /\ s.reported \in Seq(Nat)
      BY LenProperties DEF LoopType
    <3> HIDE DEF l, c, k
    <3>4. Handle(s, id) \in LoopType
      BY <3>1, <3>2, <3>3, <2>1 DEF LoopType
    <3> QED
      BY <2>1, <2>3, <2>6, <3>1, <3>2, <3>3, <3>4 DEF c, k, entry
  <2> QED
    BY <2>5, <2>6
<1> QED
  BY <1>1, <1>2

(* HandleIds unrolled: the state of the loop before and after each id.     *)
Handled(start, seq) == FoldLeft(Handle, start, seq)

LEMMA HandleUnrolls ==
  ASSUME NEW n \in Nat, NEW start \in LoopType, NEW seq, DOMAIN seq = 1 .. n
  PROVE  \E h : /\ h[0] = start
                /\ \A k \in 1 .. n : h[k] = Handle(h[k - 1], seq[k])
                /\ \A k \in 0 .. n : h[k] \in LoopType
                /\ Handled(start, seq) = h[n]
<1> DEFINE step == [x \in LoopType \X (1 .. n) |-> Handle(x[1], seq[x[2]])]
<1>0. \A x \in LoopType, k \in 1 .. n : Handle(x, seq[k]) \in LoopType
  BY HandleTyped
<1>1. step \in [LoopType \X (1 .. n) -> LoopType]
  BY <1>0
<1>2. PICK f \in [SUBSET (1 .. n) -> LoopType] : Iterates(f, step, start, n)
  <2> HIDE DEF step
  <2> QED
    BY <1>1, FoldExists
<1>3. f = [s \in SUBSET (1 .. n) |->
             IF s = {} THEN start ELSE Handle(f[s \ {Max(s)}], seq[Max(s)])]
  <2>1. ASSUME NEW s \in SUBSET (1 .. n), s # {}
        PROVE step[<<f[s \ {Max(s)}], Max(s)>>] = Handle(f[s \ {Max(s)}], seq[Max(s)])
    <3>1. Max(s) \in 1 .. n /\ s \ {Max(s)} \in SUBSET (1 .. n)
      BY <2>1, TopOfSet
    <3> QED
      BY <3>1
  <2> HIDE DEF step
  <2>2. \A s \in SUBSET (1 .. n) :
          f[s] = IF s = {} THEN start ELSE Handle(f[s \ {Max(s)}], seq[Max(s)])
    BY <1>2, <2>1 DEF Iterates
  <2> QED
    BY <1>2, <2>2
<1>4. PICK g :
        /\ g = [s \in SUBSET (1 .. n) |->
                  IF s = {} THEN start ELSE Handle(g[s \ {Max(s)}], seq[Max(s)])]
        /\ Handled(start, seq) = g[1 .. n]
  BY <1>3 DEF Handled, FoldLeft, MapThenFoldSet
<1> DEFINE h == [k \in 0 .. n |-> g[1 .. k]]
<1>5. h[0] = start
  <2>1. 1 .. 0 = {} /\ {} \in SUBSET (1 .. n) /\ h[0] = g[1 .. 0]
    OBVIOUS
  <2> QED
    BY <1>4, <2>1
<1>6. ASSUME NEW k \in 1 .. n PROVE h[k] = Handle(h[k - 1], seq[k])
  <2>1. Max(1 .. k) = k /\ (1 .. k) \ {Max(1 .. k)} = 1 .. k - 1 /\ 1 .. k # {}
    <3>1. k \in Nat /\ k > 0
      OBVIOUS
    <3> QED
      BY <3>1, TopOfInterval
  <2>2. h[k] = g[1 .. k] /\ h[k - 1] = g[1 .. k - 1] /\ 1 .. k \in SUBSET (1 .. n)
    OBVIOUS
  <2> QED
    BY <1>4, <2>1, <2>2
<1>7. \A k \in 0 .. n : h[k] \in LoopType
  <2> DEFINE T == {k \in 0 .. n : h[k] \in LoopType}
  <2> HIDE DEF h
  <2>1. 0 \in T /\ \A k \in 1 .. n : k - 1 \in T => k \in T
    BY <1>0, <1>5, <1>6
  <2>2. \A k \in 0 .. n : k \in T
    <3> HIDE DEF T
    <3> QED
      BY <2>1, StepInduction
  <2> QED
    BY <2>2
<1>8. Handled(start, seq) = h[n]
  BY <1>4
<1> HIDE DEF h
<1> QED
  BY <1>5, <1>6, <1>7, <1>8

-----------------------------------------------------------------------------
(* What the books hold is well typed, and the device never holds more than *)
(* it has room for: it shows ready only while there is room for one more.  *)
BatchType == {<< >>} \cup {<<[waits |-> w, held |-> d]>> : w \in Nat, d \in Nat}
Booking ==
  /\ krlList \in Lists /\ reported \in Seq(Nat) /\ ret \in {"ok", "throw"}
  /\ given \in Nat /\ batch \in BatchType
  /\ pc \in {"exec", "spin"} => batch # << >>
  /\ batch # << >> => pc \in {"wait", "exec", "spin"} /\ batch[1].waits < MaxRounds

LEMMA BatchMade ==
  ASSUME NEW w \in Nat, NEW d \in Nat
  PROVE  LET b == <<[waits |-> w, held |-> d]>>
         IN  b \in BatchType /\ b # << >> /\ b[1].waits = w /\ b[1].held = d
BY DEF BatchType

Room ==
  /\ IsFiniteSet(resident) /\ Cardinality(resident) <= Capacity
  /\ ready => Cardinality(resident) < Capacity

LEMMA RoomAfterTick ==
  ASSUME Accounts, Room, DeviceTick
  PROVE  Room'
<1> DEFINE taken == IF valid /\ ready THEN {<<serial, accepted[serial] + 1>>} ELSE {}
<1>1. PICK done \in {{}} \cup {{b} : b \in resident} :
        /\ resident' = (resident \ done) \cup taken
        /\ ready' \in IF Cardinality(resident') < Capacity /\ (EagerReady \/ (valid /\ ~ready))
                      THEN BOOLEAN ELSE {FALSE}
  BY DEF DeviceTick
<1>2. ready' => Cardinality(resident') < Capacity
  BY <1>1
<1>3. /\ IsFiniteSet(resident \ done) /\ Cardinality(resident \ done) \in Nat
      /\ Cardinality(resident \ done) <= Cardinality(resident)
      /\ Cardinality(resident) \in Nat
  <2>1. resident \ done \subseteq resident
    OBVIOUS
  <2> QED
    BY <2>1, FS_Subset, FS_CardinalityType DEF Room
<1>4. Capacity \in Nat
  BY DispatchAssumption
<1>5. CASE taken = {}
  <2>1. resident' = resident \ done
    BY <1>1, <1>5
  <2> QED
    BY <2>1, <1>2, <1>3, <1>4 DEF Room
<1>6. CASE taken # {}
  <2>1. PICK b : taken = {b}
    BY <1>6
  <2>2. ready
    BY <1>6
  <2> DEFINE R == resident \ done
  <2>3. /\ IsFiniteSet((resident \ done) \cup {b})
        /\ Cardinality((resident \ done) \cup {b}) <= Cardinality(resident \ done) + 1
    <3> HIDE DEF R
    <3>1. /\ IsFiniteSet(R \cup {b})
          /\ Cardinality(R \cup {b}) = Cardinality(R) \/ Cardinality(R \cup {b}) = Cardinality(R) + 1
      BY <1>3, FS_AddElement DEF R
    <3> QED
      BY <1>3, <3>1 DEF R
  <2>4. Cardinality((resident \ done) \cup {b}) \in Nat
    BY <2>3, FS_CardinalityType
  <2>5. resident' = (resident \ done) \cup {b}
    BY <1>1, <2>1
  <2> HIDE DEF taken
  <2> QED
    BY <2>2, <2>3, <2>4, <2>5, <1>2, <1>3, <1>4 DEF Room
<1> QED
  BY <1>5, <1>6

LEMMA BookedTyped ==
  ASSUME krlList \in Lists, NEW t \in Tasks, NEW k \in Kernels, NEW id \in Marks
  PROVE  Booked(t, k, id) \in Lists
<1>1. krlList[t] \in Krls
  BY DEF Lists
<1>2. PICK D \in SUBSET Kernels : krlList[t] \in [D -> EntryType]
  BY <1>1 DEF Krls
<1> DEFINE e == [blocks |-> {id}, done |-> {}, state |-> "UNFINISH"]
           f == [j \in DOMAIN krlList[t] \cup {k} |-> IF j = k THEN e ELSE krlList[t][j]]
<1>3. e \in EntryType
  BY DEF EntryType
<1>5. f \in Krls
  <2> HIDE DEF e
  <2>1. f \in [D \cup {k} -> EntryType] /\ D \cup {k} \in SUBSET Kernels
    BY <1>2, <1>3
  <2> HIDE DEF f
  <2> QED
    BY <2>1 DEF Krls
<1>6. Booked(t, k, id) = IF k \in DOMAIN krlList[t] THEN krlList ELSE [krlList EXCEPT ![t] = f]
  BY DEF Booked
<1> HIDE DEF f
<1> QED
  BY <1>5, <1>6 DEF Lists

LEMMA HandledTyped ==
  ASSUME Accounts, Booking, HandleIds
  PROVE  krlList' \in Lists /\ reported' \in Seq(Nat) /\ ret' \in {"ok", "throw"}
<1> DEFINE start == [list |-> krlList, reported |-> reported, ret |-> "ok"]
           n == Len(queue)
<1>1. start \in LoopType
  BY DEF Booking, LoopType
<1>2. n \in Nat /\ DOMAIN queue = 1 .. n
  BY LenProperties DEF Accounts, Typing
<1> HIDE DEF start, n
<1>3. Handled(start, queue) \in LoopType
  <2>1. PICK h : (\A k \in 0 .. n : h[k] \in LoopType) /\ Handled(start, queue) = h[n]
    BY <1>1, <1>2, HandleUnrolls
  <2> QED
    BY <1>2, <2>1
<1> DEFINE s == Handled(start, queue)
<1>4. krlList' = s.list /\ reported' = s.reported /\ ret' = s.ret
  BY DEF HandleIds, start, Handled
<1> HIDE DEF s
<1> QED
  BY <1>3, <1>4 DEF LoopType, s

LEMMA BookingInit == KDInit => Booking /\ Room
<1> SUFFICES ASSUME KDInit PROVE Booking /\ Room
  OBVIOUS
<1>1. krlList \in Lists
  <2>1. krlList = [t \in Tasks |-> [k \in {} |-> [blocks |-> {}, done |-> {}, state |-> "UNFINISH"]]]
    BY DEF KDInit
  <2> DEFINE f == [k \in {} |-> [blocks |-> {}, done |-> {}, state |-> "UNFINISH"]]
  <2>2. f \in [{} -> EntryType] /\ {} \in SUBSET Kernels
    OBVIOUS
  <2>3. f \in Krls
    <3> HIDE DEF f
    <3> QED
      BY <2>2 DEF Krls
  <2> QED
    BY <2>1, <2>3 DEF Lists
<1>2. /\ reported \in Seq(Nat) /\ ret = "ok" /\ given = 0 /\ batch = << >> /\ pc = "idle"
      /\ resident = {}
  BY EmptySeq DEF KDInit
<1>3. ready => EagerReady
  BY DispatchAssumption DEF KDInit
<1>4. IsFiniteSet(resident) /\ Cardinality(resident) = 0 /\ Capacity \in Nat /\ Capacity > 0
  BY <1>2, FS_EmptySet, DispatchAssumption
<1> QED
  BY <1>1, <1>2, <1>4 DEF Booking, Room, BatchType

LEMMA BookingStep == Accounts /\ Accounts' /\ Booking /\ [KDNext]_kdVars => Booking'
<1> SUFFICES ASSUME Accounts, Accounts', Booking, [KDNext]_kdVars PROVE Booking'
  OBVIOUS
<1>0. MaxRounds \in Nat /\ MaxRounds > 0 /\ Len(reported) \in Nat /\ given \in Nat
  BY DispatchAssumption, LenProperties DEF Booking
<1>b. \/ batch = << >>
      \/ /\ batch = <<batch[1]>> /\ batch[1] = [waits |-> batch[1].waits, held |-> batch[1].held]
         /\ batch[1].waits \in Nat /\ batch[1].held \in Nat /\ Len(batch) = 1
  BY DEF Booking, BatchType
<1>1. CASE HostCalls
  <2>1. /\ pc = "idle" /\ pc' \in {"run", "wait"}
        /\ UNCHANGED <<krlList, reported, ret, given, batch>>
    BY <1>1 DEF HostCalls, Start, Wait, BeginRun, BeginWait, books
  <2> QED
    BY <2>1 DEF Booking
<1>2. CASE RunTick
  BY <1>2 DEF RunTick, books, Booking
<1>3. CASE LastTick
  <2> DEFINE id == WgId(call.task, call.kernel, call.block)
  <2>1. /\ pc = "last" /\ krlList' = Booked(call.task, call.kernel, id)
        /\ ret' \in {ret, "ok"} /\ pc' \in {"run", "idle"}
        /\ UNCHANGED <<batch, reported, given>>
    BY <1>3 DEF LastTick, BeginRun
  <2>2. call \in CallType /\ call.task \in Tasks /\ call.kernel \in Kernels
    BY <2>1 DEF Accounts, Typing, RunType
  <2>3. id \in Marks
    BY <2>2 DEF Marks, Ids, CallType
  <2> HIDE DEF id
  <2>4. krlList' \in Lists
    BY <2>1, <2>2, <2>3, BookedTyped DEF Booking
  <2> QED
    BY <2>1, <2>4 DEF Booking
<1>4. CASE WaitTick
  BY <1>4 DEF WaitTick, books, Booking
<1>5. CASE WaitReturn
  <2>1. HandleIds /\ pc = "wait" /\ pc' = "idle" /\ batch = << >> /\ UNCHANGED <<batch, given>>
    BY <1>5 DEF WaitReturn, HandleQueue
  <2> QED
    BY <2>1, HandledTyped DEF Booking
<1>6. CASE GetFinishedKernel
  <2>1. /\ pc = "idle" /\ given' = given + Len(reported) /\ reported' = << >>
        /\ UNCHANGED <<pc, krlList, batch, ret>>
    BY <1>6 DEF GetFinishedKernel
  <2> QED
    BY <2>1, <1>0, EmptySeq DEF Booking
<1>7. CASE ExecuteAll
  <2>1. /\ pc = "idle" /\ pc' = "exec" /\ batch' = <<[waits |-> 0, held |-> 0]>>
        /\ UNCHANGED <<krlList, reported, ret, given>>
    BY <1>7 DEF ExecuteAll, books
  <2> QED
    BY <2>1, <1>0 DEF Booking, BatchType
<1>8. CASE Round
  <2>1. /\ pc = "exec" /\ pc' = "wait" /\ reported' = << >>
        /\ batch' = [batch EXCEPT ![1].held = @ + Len(reported)]
        /\ UNCHANGED <<krlList, ret, given>>
    BY <1>8 DEF Round, BeginWait
  <2>2. batch' = <<[waits |-> batch[1].waits, held |-> batch[1].held + Len(reported)]>>
    <3>1. batch # << >>
      BY <2>1 DEF Booking
    <3> QED
      BY <1>b, <2>1, <3>1
  <2>3. batch' \in BatchType /\ batch'[1].waits = batch[1].waits
    <3>1. batch # << >>
      BY <2>1 DEF Booking
    <3>2. batch[1].waits \in Nat /\ batch[1].held + Len(reported) \in Nat
      BY <1>b, <1>0, <3>1
    <3> QED
      BY <2>2, <3>2, BatchMade
  <2> QED
    BY <2>1, <2>3, EmptySeq DEF Booking
<1>9. CASE AllFinished
  <2>1. /\ pc = "exec" /\ pc' = "spin" /\ UNCHANGED <<krlList, reported, ret, given, batch>>
    BY <1>9 DEF AllFinished, books
  <2> QED
    BY <2>1 DEF Booking
<1>10. CASE RoundReturn
  <2> DEFINE waits == batch[1].waits + 1
             over == ret' = "throw" \/ waits = MaxRounds
  <2>1. /\ HandleIds /\ pc = "wait" /\ batch # << >>
        /\ pc' = IF over THEN "idle" ELSE "exec"
        /\ batch' = IF over THEN << >> ELSE [batch EXCEPT ![1].waits = waits]
        /\ given' = IF over /\ ret' = "ok" THEN given + batch[1].held ELSE given
    BY <1>10 DEF RoundReturn, HandleQueue
  <2>2. given' \in Nat
    BY <2>1, <1>0, <1>b
  <2>3. CASE over
    BY <2>1, <2>2, <2>3, HandledTyped DEF Booking, BatchType
  <2>4. CASE ~over
    <3>1. batch' = <<[waits |-> waits, held |-> batch[1].held]>>
      BY <1>b, <2>1, <2>4
    <3>3. waits \in Nat /\ waits < MaxRounds /\ batch[1].held \in Nat
      BY <1>b, <1>0, <2>1, <2>4 DEF Booking
    <3> HIDE DEF waits
    <3>2. batch' \in BatchType /\ batch'[1].waits < MaxRounds
      BY <3>1, <3>3, BatchMade
    <3> QED
      BY <2>1, <2>2, <2>4, <3>2, HandledTyped DEF Booking
  <2> QED
    BY <2>3, <2>4
<1>11. CASE Spin \/ UNCHANGED kdVars
  BY <1>11 DEF Spin, kdVars, books, Booking
<1> QED
  BY <1>1, <1>2, <1>3, <1>4, <1>5, <1>6, <1>7, <1>8, <1>9, <1>10, <1>11 DEF KDNext

LEMMA RoomStep == Accounts /\ Room /\ [KDNext]_kdVars => Room'
<1> SUFFICES ASSUME Accounts, Room, [KDNext]_kdVars PROVE Room'
  OBVIOUS
<1>1. CASE RunTick \/ LastTick \/ WaitTick
  BY <1>1, RoomAfterTick DEF RunTick, LastTick, WaitTick
<1>2. CASE ~(RunTick \/ LastTick \/ WaitTick)
  <2>1. resident' = resident /\ ready' = ready
    BY <1>2 DEF KDNext, HostCalls, Start, Wait, WaitReturn, GetFinishedKernel, ExecuteAll,
                Round, AllFinished, Spin, RoundReturn, kdVars, device
  <2> QED
    BY <2>1 DEF Room
<1> QED
  BY <1>1, <1>2

-----------------------------------------------------------------------------
(* Every id in the queue is that of a run() that was made; the first work  *)
(* group of all has block 0; and the run() under way is the last one.      *)
IdOf(o) == WgId(o.task, o.kernel, o.block)
QueueKnown == \A i \in 1 .. Len(queue) : \E s \in 1 .. serial : queue[i] = IdOf(owner[s])
FirstBlock == serial > 0 => owner[1].block = 0
CallOwned ==
  pc \in {"run", "last"} =>
    /\ owner[serial].task = call.task /\ owner[serial].kernel = call.kernel
    /\ owner[serial].block = call.block
Known == QueueKnown /\ FirstBlock /\ CallOwned

(* What the thread does to the runs: none changes, and a new one is its    *)
(* call's.                                                                 *)
LEMMA OwnersKept ==
  ASSUME Accounts, [KDNext]_kdVars
  PROVE  /\ serial' >= serial /\ \A s \in 1 .. serial : owner'[s] = owner[s]
         /\ \/ serial' = serial /\ owner' = owner /\ (pc' \in {"run", "last"} => call' = call /\ pc \in {"run", "last"})
            \/ /\ serial' = serial + 1 /\ pc' = "run"
               /\ owner'[serial'].task = call'.task /\ owner'[serial'].kernel = call'.kernel
               /\ owner'[serial'].block = call'.block
               /\ pc = "idle" => call'.block = 0
               /\ pc \in {"idle", "last"}
<1>0. serial \in Nat /\ owner \in Seq(OwnerType) /\ Len(owner) = serial
  BY DEF Accounts, Typing
<1>1. ASSUME NEW c, BeginRun(c), pc = "idle" => c.block = 0, pc \in {"idle", "last"}
      PROVE  /\ serial' >= serial /\ \A s \in 1 .. serial : owner'[s] = owner[s]
             /\ serial' = serial + 1 /\ pc' = "run"
             /\ owner'[serial'].task = call'.task /\ owner'[serial'].kernel = call'.kernel
             /\ owner'[serial'].block = call'.block
             /\ pc = "idle" => call'.block = 0
             /\ pc \in {"idle", "last"}
  <2> DEFINE o == [task |-> c.task, kernel |-> c.kernel, block |-> c.block]
  <2>1. serial' = serial + 1 /\ pc' = "run" /\ call' = c /\ owner' = Append(owner, o)
    BY <1>1 DEF BeginRun
  <2>2. o.task = c.task /\ o.kernel = c.kernel /\ o.block = c.block
    OBVIOUS
  <2> HIDE DEF o
  <2>3. \A s \in 1 .. serial : owner'[s] = owner[s]
    BY <1>0, <2>1
  <2>4. owner'[serial'] = o
    BY <1>0, <2>1
  <2> QED
    BY <1>0, <1>1, <2>1, <2>2, <2>3, <2>4
<1>2. CASE \E t \in Tasks, k \in Kernels, n \in 1 .. MaxBlocks : Start(t, k, n)
  <2>1. PICK t \in Tasks, k \in Kernels, n \in 1 .. MaxBlocks : Start(t, k, n)
    BY <1>2
  <2> DEFINE c == [task |-> t, kernel |-> k, block |-> 0, left |-> n - 1]
  <2>2. BeginRun(c) /\ pc = "idle" /\ c.block = 0
    BY <2>1 DEF Start
  <2> HIDE DEF c
  <2> QED
    BY <2>2, <1>1
<1>3. CASE LastTick
  <2>1. pc = "last"
    BY <1>3 DEF LastTick
  <2>2. CASE call.left > 0
    <3> DEFINE c == [call EXCEPT !.block = @ + 1, !.left = @ - 1]
    <3>1. BeginRun(c)
      BY <1>3, <2>2 DEF LastTick
    <3> HIDE DEF c
    <3> QED
      BY <2>1, <3>1, <1>1
  <2>3. CASE ~(call.left > 0)
    <3>1. pc' = "idle" /\ serial' = serial /\ owner' = owner
      BY <1>3, <2>3 DEF LastTick
    <3> QED
      BY <3>1, <1>0
  <2> QED
    BY <2>2, <2>3
<1>4. CASE RunTick
  <2>1. /\ pc = "run" /\ pc' \in {"run", "last"} /\ call' = call
        /\ serial' = serial /\ owner' = owner
    BY <1>4 DEF RunTick
  <2> QED
    BY <2>1, <1>0
<1>5. CASE \/ \E cycles \in 0 .. MaxCycles : Wait(cycles)
           \/ WaitTick \/ WaitReturn \/ GetFinishedKernel \/ ExecuteAll \/ Round
           \/ AllFinished \/ Spin \/ RoundReturn
  <2>1. pc' \notin {"run", "last"} /\ serial' = serial /\ owner' = owner
    BY <1>5 DEF Wait, WaitTick, WaitReturn, GetFinishedKernel, ExecuteAll, Round, BeginWait,
                AllFinished, Spin, RoundReturn, kdVars
  <2> QED
    BY <2>1, <1>0
<1>6. CASE UNCHANGED kdVars
  BY <1>6, <1>0 DEF kdVars
<1> QED
  BY <1>2, <1>3, <1>4, <1>5, <1>6 DEF KDNext, HostCalls

LEMMA KnownAfterTick ==
  ASSUME Accounts, QueueKnown, DeviceTick, serial' \in Nat, serial' >= serial,
         \A s \in 1 .. serial : owner'[s] = owner[s]
  PROVE  QueueKnown'
<1> DEFINE ids(b) == LET o == owner[b[1]] IN WgId(o.task, o.kernel, o.block)
<1>1. PICK done \in {{}} \cup {{b} : b \in resident} :
        queue' = IF done = {} THEN queue ELSE Append(queue, ids(CHOOSE b \in done : TRUE))
  BY DEF DeviceTick
<1>2. serial \in Nat /\ queue \in Seq(Ids) /\ Len(queue) \in Nat
  BY LenProperties DEF Accounts, Typing
<1>k. ASSUME NEW i \in 1 .. Len(queue)
      PROVE  \E s \in 1 .. serial' : queue[i] = IdOf(owner'[s])
  <2>1. PICK s \in 1 .. serial : queue[i] = IdOf(owner[s])
    BY DEF QueueKnown
  <2>2. s \in 1 .. serial' /\ owner'[s] = owner[s]
    BY <1>2
  <2> QED
    BY <2>1, <2>2
<1>3. CASE done = {}
  BY <1>1, <1>3, <1>k DEF QueueKnown
<1>4. CASE done # {}
  <2>1. PICK b \in resident : done = {b}
    BY <1>4
  <2>2. (CHOOSE x \in done : TRUE) = b
    BY <2>1
  <2>3. b[1] \in 1 .. serial
    BY DEF Accounts
  <2>4. ids(b) = IdOf(owner[b[1]])
    BY DEF IdOf
  <2> HIDE DEF ids
  <2>5. queue' = Append(queue, ids(b))
    BY <1>1, <1>4, <2>2
  <2>6. /\ Len(queue') = Len(queue) + 1
        /\ \A i \in 1 .. Len(queue) : queue'[i] = queue[i]
        /\ queue'[Len(queue) + 1] = ids(b)
    BY <1>2, <2>5
  <2>7. b[1] \in 1 .. serial' /\ owner'[b[1]] = owner[b[1]]
    BY <1>2, <2>3
  <2>8. ASSUME NEW i \in 1 .. Len(queue') PROVE \E s \in 1 .. serial' : queue'[i] = IdOf(owner'[s])
    <3>1. CASE i \in 1 .. Len(queue)
      BY <3>1, <1>k, <2>6
    <3>2. CASE i = Len(queue) + 1
      BY <3>2, <2>4, <2>6, <2>7
    <3> QED
      BY <3>1, <3>2, <2>6, <1>2
  <2> QED
    BY <2>8 DEF QueueKnown
<1> QED
  BY <1>3, <1>4

LEMMA KnownStep == Accounts /\ Accounts' /\ Known /\ [KDNext]_kdVars => Known'
<1> SUFFICES ASSUME Accounts, Accounts', Known, [KDNext]_kdVars PROVE Known'
  OBVIOUS
<1>0. serial \in Nat /\ serial' \in Nat
  BY DEF Accounts, Typing
<1>1. /\ serial' >= serial /\ \A s \in 1 .. serial : owner'[s] = owner[s]
      /\ \/ serial' = serial /\ owner' = owner /\ (pc' \in {"run", "last"} => call' = call /\ pc \in {"run", "last"})
         \/ /\ serial' = serial + 1 /\ pc' = "run"
            /\ owner'[serial'].task = call'.task /\ owner'[serial'].kernel = call'.kernel
            /\ owner'[serial'].block = call'.block
            /\ pc = "idle" => call'.block = 0
            /\ pc \in {"idle", "last"}
  BY OwnersKept
<1>2. CallOwned'
  BY <1>1 DEF Known, CallOwned
<1>3. FirstBlock'
  <2>1. CASE serial > 0
    <3>1. owner'[1] = owner[1]
      BY <1>0, <1>1, <2>1
    <3> QED
      BY <2>1, <3>1 DEF Known, FirstBlock
  <2>2. CASE serial = 0
    <3>1. pc # "last"
      BY <2>2 DEF Accounts, Typing
    <3> QED
      BY <1>1, <2>2, <3>1 DEF FirstBlock
  <2> QED
    BY <2>1, <2>2, <1>0
<1>4. QueueKnown'
  <2>1. CASE RunTick \/ LastTick \/ WaitTick
    <3>1. DeviceTick
      BY <2>1 DEF RunTick, LastTick, WaitTick
    <3> QED
      BY <1>0, <1>1, <3>1, KnownAfterTick DEF Known
  <2>2. CASE WaitReturn \/ RoundReturn
    <3>1. queue' = << >>
      BY <2>2 DEF WaitReturn, RoundReturn
    <3>2. Len(queue') = 0
      BY <3>1
    <3> QED
      BY <3>2 DEF QueueKnown
  <2>3. CASE ~(RunTick \/ LastTick \/ WaitTick \/ WaitReturn \/ RoundReturn)
    <3>1. queue' = queue
      BY <2>3 DEF KDNext, HostCalls, Start, Wait, GetFinishedKernel, ExecuteAll,
                  Round, AllFinished, Spin, kdVars, device
    <3>2. ASSUME NEW i \in 1 .. Len(queue)
          PROVE  \E s \in 1 .. serial' : queue[i] = IdOf(owner'[s])
      <4>1. PICK s \in 1 .. serial : queue[i] = IdOf(owner[s])
        BY DEF QueueKnown, Known
      <4>2. s \in 1 .. serial' /\ owner'[s] = owner[s]
        BY <1>0, <1>1
      <4> QED
        BY <4>1, <4>2
    <3> QED
      BY <3>1, <3>2 DEF QueueKnown
  <2> QED
    BY <2>1, <2>2, <2>3
<1> QED
  BY <1>2, <1>3, <1>4 DEF Known

-----------------------------------------------------------------------------
(* An entry is finished exactly when the blocks it booked are marked, and  *)
(* a report names a finished kernel: of the books, and between two ids.    *)
SaneEntry(e) ==
  e.done \subseteq e.blocks /\ e.state = IF e.done = e.blocks THEN "FINISH" ELSE "UNFINISH"
Names(l, r) == \E t \in Tasks : \E k \in DOMAIN l[t] : r = 4 * t + k /\ l[t][k].state = "FINISH"
Sane(l, reports) ==
  /\ \A t \in Tasks : \A k \in DOMAIN l[t] : SaneEntry(l[t][k])
  /\ \A i \in 1 .. Len(reports) : Names(l, reports[i])
SameBlocks(l, m) ==
  \A t \in Tasks : /\ DOMAIN m[t] = DOMAIN l[t]
                   /\ \A k \in DOMAIN l[t] : m[t][k].blocks = l[t][k].blocks

LEMMA PutElsewhere ==
  ASSUME NEW l \in Lists, NEW c \in Tasks, NEW k \in DOMAIN l[c], NEW e,
         NEW t \in Tasks
  PROVE  /\ DOMAIN Put(l, c, k, e)[t] = DOMAIN l[t]
         /\ \A j \in DOMAIN l[t] :
              Put(l, c, k, e)[t][j] = IF t = c /\ j = k THEN e ELSE l[t][j]
<1>1. PICK D \in SUBSET Kernels : l[c] \in [D -> EntryType]
  BY DEF Lists, Krls
<1>2. DOMAIN l = Tasks
  BY DEF Lists
<1> QED
  BY <1>1, <1>2 DEF Put

(* A sane entry put in place of one with the same blocks keeps the books   *)
(* sane, if a finished one stays finished.                                 *)
LEMMA PutSane ==
  ASSUME NEW l \in Lists, NEW reports \in Seq(Nat), Sane(l, reports),
         NEW c \in Tasks, NEW k \in DOMAIN l[c], NEW e, SaneEntry(e),
         e.blocks = l[c][k].blocks, l[c][k].state = "FINISH" => e.state = "FINISH"
  PROVE  Sane(Put(l, c, k, e), reports) /\ SameBlocks(l, Put(l, c, k, e))
<1> DEFINE m == Put(l, c, k, e)
<1>1. \A t \in Tasks : /\ DOMAIN m[t] = DOMAIN l[t]
                       /\ \A j \in DOMAIN l[t] : m[t][j] = IF t = c /\ j = k THEN e ELSE l[t][j]
  BY PutElsewhere
<1> HIDE DEF m
<1>2. SameBlocks(l, m)
  BY <1>1 DEF SameBlocks
<1>3. \A t \in Tasks : \A j \in DOMAIN m[t] : SaneEntry(m[t][j])
  BY <1>1 DEF Sane
<1>4. ASSUME NEW i \in 1 .. Len(reports) PROVE Names(m, reports[i])
  <2>1. PICK t \in Tasks : \E j \in DOMAIN l[t] :
          reports[i] = 4 * t + j /\ l[t][j].state = "FINISH"
    BY DEF Sane, Names
  <2>2. PICK j \in DOMAIN l[t] : reports[i] = 4 * t + j /\ l[t][j].state = "FINISH"
    BY <2>1
  <2>3. j \in DOMAIN m[t] /\ m[t][j].state = "FINISH"
    BY <1>1, <2>2
  <2> QED
    BY <2>2, <2>3 DEF Names
<1> QED
  BY <1>2, <1>3, <1>4 DEF Sane, m

LEMMA HandleSane ==
  ASSUME NEW s \in LoopType, NEW id, Sane(s.list, s.reported)
  PROVE  /\ Sane(Handle(s, id).list, Handle(s, id).reported)
         /\ SameBlocks(s.list, Handle(s, id).list)
<1> DEFINE c == ContextOf(id)
           k == KernelOf(id)
           entry == s.list[c][k]
           marked == [entry EXCEPT !.done = @ \cup {BlockOf(id)}]
           full == [marked EXCEPT !.state = "FINISH"]
<1>1. CASE s.ret = "throw" \/ ~Legal(s.list, id)
  <2>1. Handle(s, id) = [s EXCEPT !.ret = "throw"]
    BY <1>1 DEF Handle
  <2>2. Handle(s, id).list = s.list /\ Handle(s, id).reported = s.reported
    BY <2>1 DEF LoopType
  <2> QED
    BY <2>2 DEF SameBlocks
<1>2. CASE ~(s.ret = "throw" \/ ~Legal(s.list, id))
  <2>1. /\ c \in Tasks /\ k \in DOMAIN s.list[c] /\ s.list \in Lists
        /\ BlockOf(id) \in entry.blocks /\ s.reported \in Seq(Nat)
    BY <1>2 DEF Legal, LoopType
  <2>2. entry \in EntryType
    <3>1. s.list[c] \in Krls
      BY <2>1 DEF Lists
    <3>2. PICK D \in SUBSET Kernels : s.list[c] \in [D -> EntryType]
      BY <3>1 DEF Krls
    <3> QED
      BY <2>1, <3>2
  <2>3. SaneEntry(entry)
    BY <2>1 DEF Sane
  <2>4. /\ marked.blocks = entry.blocks /\ marked.done = entry.done \cup {BlockOf(id)}
        /\ marked.state = entry.state
        /\ full.blocks = entry.blocks /\ full.done = marked.done /\ full.state = "FINISH"
    <3> HIDE DEF entry
    <3> QED
      BY <2>2 DEF EntryType
  <2>5. 4 * c + k \in Nat
    BY IdParts
  <2> HIDE DEF marked, full, entry
  <2>6. CASE marked.done = entry.blocks
    <3> DEFINE l == Put(s.list, c, k, full)
    <3>1. /\ Handle(s, id).list = l
          /\ Handle(s, id).reported = Append(s.reported, 4 * c + k)
      BY <1>2, <2>6 DEF Handle, LoopType, Put, marked, full, entry
    <3>2. SaneEntry(full) /\ full.blocks = s.list[c][k].blocks
      BY <2>4, <2>6 DEF SaneEntry, entry
    <3>3. Sane(l, s.reported) /\ SameBlocks(s.list, l)
      BY <2>1, <2>4, <3>2, PutSane
    <3>4. DOMAIN l[c] = DOMAIN s.list[c] /\ l[c][k] = full
      BY <2>1, PutElsewhere
    <3> HIDE DEF l, c, k
    <3>5. Names(l, 4 * c + k)
      BY <2>1, <2>4, <3>4 DEF Names
    <3> DEFINE reports == Append(s.reported, 4 * c + k)
    <3>6. /\ Len(reports) = Len(s.reported) + 1
          /\ \A i \in 1 .. Len(s.reported) : reports[i] = s.reported[i]
          /\ reports[Len(s.reported) + 1] = 4 * c + k
      BY <2>1, <2>5, AppendProperties
    <3>7. Len(s.reported) \in Nat
      BY <2>1, LenProperties
    <3> HIDE DEF reports
    <3>8. \A i \in 1 .. Len(reports) : Names(l, reports[i])
      BY <3>3, <3>5, <3>6, <3>7 DEF Sane
    <3>9. Sane(l, reports)
      BY <3>3, <3>8 DEF Sane
    <3> QED
      BY <3>1, <3>3, <3>9 DEF reports
  <2>7. CASE marked.done # entry.blocks
    <3> DEFINE l == Put(s.list, c, k, marked)
    <3>1. Handle(s, id).list = l /\ Handle(s, id).reported = s.reported
      BY <1>2, <2>7 DEF Handle, LoopType, Put, marked, full, entry
    <3>2. /\ entry.state = "UNFINISH" /\ marked.done \subseteq marked.blocks
          /\ marked.done # marked.blocks
      BY <2>1, <2>3, <2>4, <2>7 DEF SaneEntry
    <3>3. /\ SaneEntry(marked) /\ marked.blocks = s.list[c][k].blocks
          /\ s.list[c][k].state # "FINISH"
      BY <2>4, <3>2 DEF SaneEntry, entry
    <3>4. Sane(l, s.reported) /\ SameBlocks(s.list, l)
      BY <2>1, <3>3, PutSane
    <3> QED
      BY <3>1, <3>4
  <2> QED
    BY <2>6, <2>7
<1> QED
  BY <1>1, <1>2

(* The whole of wait()'s loop: the books stay sane, the blocks the same.   *)
LEMMA HandledSane ==
  ASSUME Accounts, Booking, HandleIds, Sane(krlList, reported)
  PROVE  Sane(krlList', reported') /\ SameBlocks(krlList, krlList')
<1> DEFINE start == [list |-> krlList, reported |-> reported, ret |-> "ok"]
           n == Len(queue)
<1>1. start \in LoopType /\ start.list = krlList /\ start.reported = reported
  BY DEF Booking, LoopType
<1>2. n \in Nat /\ DOMAIN queue = 1 .. n
  BY LenProperties DEF Accounts, Typing
<1> HIDE DEF start, n
<1>3. PICK h : /\ h[0] = start
               /\ \A k \in 1 .. n : h[k] = Handle(h[k - 1], queue[k])
               /\ \A k \in 0 .. n : h[k] \in LoopType
               /\ Handled(start, queue) = h[n]
  BY <1>1, <1>2, HandleUnrolls
<1> DEFINE T == {k \in 0 .. n : Sane(h[k].list, h[k].reported) /\ SameBlocks(krlList, h[k].list)}
<1>4. 0 \in T
  BY <1>1, <1>2, <1>3 DEF SameBlocks
<1>5. ASSUME NEW k \in 1 .. n, k - 1 \in T PROVE k \in T
  <2>1. k - 1 \in 0 .. n /\ h[k - 1] \in LoopType /\ h[k] = Handle(h[k - 1], queue[k])
    BY <1>2, <1>3
  <2>2. Sane(h[k].list, h[k].reported) /\ SameBlocks(h[k - 1].list, h[k].list)
    BY <1>5, <2>1, HandleSane
  <2>3. SameBlocks(krlList, h[k].list)
    BY <1>5, <2>2 DEF SameBlocks
  <2> QED
    BY <2>2, <2>3
<1>6. n \in T
  <2> HIDE DEF T
  <2> QED
    BY <1>2, <1>4, <1>5, StepInduction
<1> DEFINE s == Handled(start, queue)
<1>7. krlList' = s.list /\ reported' = s.reported
  BY DEF HandleIds, start, Handled
<1> QED
  BY <1>3, <1>6, <1>7 DEF n

(* Every entry has booked the id of one run of its kernel.                 *)
BlocksOwned(l) ==
  \A t \in Tasks : \A k \in DOMAIN l[t] : \E s \in 1 .. serial :
    owner[s].task = t /\ owner[s].kernel = k /\ l[t][k].blocks = {IdOf(owner[s])}
Entries == Sane(krlList, reported) /\ BlocksOwned(krlList)

(* Booking a work group of the run under way.                              *)
LEMMA BookedSane ==
  ASSUME Accounts, Booking, Entries, CallOwned, pc = "last"
  PROVE  LET l == Booked(call.task, call.kernel, WgId(call.task, call.kernel, call.block))
         IN  Sane(l, reported) /\ BlocksOwned(l)
<1> DEFINE t == call.task
           k == call.kernel
           id == WgId(call.task, call.kernel, call.block)
           e == [blocks |-> {id}, done |-> {}, state |-> "UNFINISH"]
           l == Booked(t, k, id)
<1>1. /\ t \in Tasks /\ k \in Kernels /\ serial \in 1 .. serial
      /\ owner[serial].task = t /\ owner[serial].kernel = k /\ id = IdOf(owner[serial])
  BY DEF Accounts, Typing, RunType, CallOwned, IdOf
<1>2. CASE k \in DOMAIN krlList[t]
  BY <1>2 DEF Booked, Entries
<1>3. CASE k \notin DOMAIN krlList[t]
  <2>1. e.blocks = {id} /\ e.done = {} /\ e.state = "UNFINISH"
    OBVIOUS
  <2>2. SaneEntry(e)
    <3>1. e.done \subseteq e.blocks /\ e.done # e.blocks
      BY <2>1
    <3> HIDE DEF e
    <3> QED
      BY <2>1, <3>1 DEF SaneEntry
  <2> HIDE DEF id, e
  <2>3. l = [krlList EXCEPT ![t] = [j \in DOMAIN krlList[t] \cup {k} |->
                                      IF j = k THEN e ELSE krlList[t][j]]]
    BY <1>3 DEF Booked, e
  <2>4. DOMAIN krlList = Tasks
    BY DEF Booking, Lists
  <2>5. \A u \in Tasks :
          /\ DOMAIN l[u] = IF u = t THEN DOMAIN krlList[u] \cup {k} ELSE DOMAIN krlList[u]
          /\ \A j \in DOMAIN l[u] : l[u][j] = IF u = t /\ j = k THEN e ELSE krlList[u][j]
    BY <1>1, <2>3, <2>4
  <2> HIDE DEF l, t, k
  <2>6. ASSUME NEW u \in Tasks, NEW j \in DOMAIN l[u] PROVE SaneEntry(l[u][j])
    <3>1. CASE u = t /\ j = k
      BY <2>2, <2>5, <3>1
    <3>2. CASE ~(u = t /\ j = k)
      <4>1. j \in DOMAIN krlList[u] /\ l[u][j] = krlList[u][j]
        BY <2>5, <3>2
      <4> QED
        BY <4>1 DEF Entries, Sane
    <3> QED
      BY <3>1, <3>2
  <2>7. ASSUME NEW i \in 1 .. Len(reported) PROVE Names(l, reported[i])
    <3>1. PICK u \in Tasks : \E j \in DOMAIN krlList[u] :
            reported[i] = 4 * u + j /\ krlList[u][j].state = "FINISH"
      BY DEF Entries, Sane, Names
    <3>2. PICK j \in DOMAIN krlList[u] : reported[i] = 4 * u + j /\ krlList[u][j].state = "FINISH"
      BY <3>1
    <3>3. j \in DOMAIN l[u] /\ l[u][j] = krlList[u][j]
      BY <1>3, <2>5, <3>2
    <3> QED
      BY <3>2, <3>3 DEF Names
  <2>8. BlocksOwned(l)
    <3> SUFFICES ASSUME NEW u \in Tasks, NEW j \in DOMAIN l[u]
                 PROVE  \E s \in 1 .. serial :
                          owner[s].task = u /\ owner[s].kernel = j /\ l[u][j].blocks = {IdOf(owner[s])}
      BY DEF BlocksOwned
    <3>1. CASE u = t /\ j = k
      BY <1>1, <2>1, <2>5, <3>1
    <3>2. CASE ~(u = t /\ j = k)
      <4>1. j \in DOMAIN krlList[u] /\ l[u][j] = krlList[u][j]
        BY <2>5, <3>2
      <4> QED
        BY <4>1 DEF Entries, BlocksOwned
    <3> QED
      BY <3>1, <3>2
  <2> QED
    BY <2>6, <2>7, <2>8 DEF Sane, l, t, k, id
<1> QED
  BY <1>2, <1>3

(* Entries that own runs go on owning them, whatever runs are added.       *)
LEMMA OwnedStill ==
  ASSUME Accounts, Accounts', NEW l, BlocksOwned(l), NEW m, SameBlocks(l, m),
         serial' >= serial, \A s \in 1 .. serial : owner'[s] = owner[s]
  PROVE  \A t \in Tasks : \A k \in DOMAIN m[t] : \E s \in 1 .. serial' :
           owner'[s].task = t /\ owner'[s].kernel = k /\ m[t][k].blocks = {IdOf(owner'[s])}
<1> TAKE t \in Tasks
<1> TAKE k \in DOMAIN m[t]
<1>1. serial \in Nat /\ serial' \in Nat
  BY DEF Accounts, Typing
<1>2. k \in DOMAIN l[t] /\ m[t][k].blocks = l[t][k].blocks
  BY DEF SameBlocks
<1>3. PICK s \in 1 .. serial :
        owner[s].task = t /\ owner[s].kernel = k /\ l[t][k].blocks = {IdOf(owner[s])}
  BY <1>2 DEF BlocksOwned
<1>4. s \in 1 .. serial' /\ owner'[s] = owner[s]
  BY <1>1
<1> QED
  BY <1>2, <1>3, <1>4

LEMMA EntriesInit == KDInit => Entries
<1> SUFFICES ASSUME KDInit PROVE Entries
  OBVIOUS
<1>1. \A t \in Tasks : DOMAIN krlList[t] = {}
  BY DEF KDInit
<1>2. Len(reported) = 0
  BY DEF KDInit
<1> QED
  BY <1>1, <1>2 DEF Entries, Sane, BlocksOwned

LEMMA EntriesStep ==
  Accounts /\ Accounts' /\ Booking /\ Known /\ Entries /\ [KDNext]_kdVars => Entries'
<1> SUFFICES ASSUME Accounts, Accounts', Booking, Known, Entries, [KDNext]_kdVars
             PROVE  Entries'
  OBVIOUS
<1>1. serial' >= serial /\ \A s \in 1 .. serial : owner'[s] = owner[s]
  BY OwnersKept
<1>2. CASE LastTick
  <2> DEFINE l == Booked(call.task, call.kernel, WgId(call.task, call.kernel, call.block))
  <2>1. pc = "last" /\ krlList' = l /\ reported' = reported
    BY <1>2 DEF LastTick
  <2>2. Sane(l, reported) /\ BlocksOwned(l)
    BY <2>1, BookedSane DEF Known
  <2> HIDE DEF l
  <2>3. SameBlocks(l, l)
    BY DEF SameBlocks
  <2> QED
    BY <1>1, <2>1, <2>2, <2>3, OwnedStill DEF Entries, BlocksOwned
<1>3. CASE WaitReturn \/ RoundReturn
  <2>1. HandleIds
    BY <1>3 DEF WaitReturn, RoundReturn, HandleQueue
  <2>2. Sane(krlList', reported') /\ SameBlocks(krlList, krlList')
    BY <2>1, HandledSane DEF Entries
  <2> QED
    BY <1>1, <2>2, OwnedStill DEF Entries, BlocksOwned
<1>4. CASE ~(LastTick \/ WaitReturn \/ RoundReturn)
  <2>1. krlList' = krlList /\ (reported' = reported \/ reported' = << >>)
    BY <1>4 DEF KDNext, HostCalls, Start, RunTick, Wait, WaitTick, GetFinishedKernel, ExecuteAll,
                Round, AllFinished, Spin, kdVars, books
  <2>2. SameBlocks(krlList, krlList)
    BY DEF SameBlocks
  <2>3. BlocksOwned(krlList)'
    BY <1>1, <2>1, <2>2, OwnedStill DEF Entries, BlocksOwned
  <2>4. Sane(krlList, reported)'
    <3>1. CASE reported' = << >>
      <4>1. Len(reported') = 0
        BY <3>1
      <4> QED
        BY <2>1, <4>1 DEF Entries, Sane
    <3>2. CASE reported' = reported
      BY <2>1, <3>2 DEF Entries
    <3> QED
      BY <2>1, <3>1, <3>2
  <2> QED
    BY <2>3, <2>4 DEF Entries
<1> QED
  BY <1>2, <1>3, <1>4

(* processor.h, driver.h: the ids queued are those of runs that were made, *)
(* every entry of a krl_list has booked one run of its kernel and is       *)
(* finished exactly when that is marked, what is reported is a finished    *)
(* kernel, an execute_all_kernel under way never waits more than its       *)
(* rounds, and the device holds no more than it has room for (KDTypeOK).   *)
THEOREM DispatchTyped == KDSpec => []KDTypeOK
<1>1. Accounts /\ Booking /\ Room /\ Known /\ Entries => KDTypeOK
  <2> SUFFICES ASSUME Accounts, Booking, Room, Known, Entries PROVE KDTypeOK
    OBVIOUS
  <2>1. \A i \in 1 .. Len(queue) : \E s \in 1 .. serial : queue[i] = OwnedId(s)
    BY DEF Known, QueueKnown, IdOf, OwnedId
  <2>2. /\ DOMAIN krlList = Tasks
        /\ \A t \in Tasks : \A k \in DOMAIN krlList[t] : k \in Kernels
    BY DEF Booking, Lists, Krls
  <2>3. ASSUME NEW t \in Tasks, NEW k \in DOMAIN krlList[t] PROVE EntryOK(t, k)
    <3>1. SaneEntry(krlList[t][k])
      BY DEF Entries, Sane
    <3>2. \E s \in 1 .. serial : /\ owner[s].task = t /\ owner[s].kernel = k
                                 /\ krlList[t][k].blocks = {OwnedId(s)}
      BY DEF Entries, BlocksOwned, IdOf, OwnedId
    <3> QED
      BY <3>1, <3>2 DEF EntryOK, SaneEntry
  <2>4. \A i \in 1 .. Len(reported) : \E t \in Tasks : \E k \in DOMAIN krlList[t] :
          reported[i] = 4 * t + k /\ krlList[t][k].state = "FINISH"
    BY DEF Entries, Sane, Names
  <2>5. batch # << >> => batch[1].held \in Nat
    BY DEF Booking, BatchType
  <2> QED
    BY <2>1, <2>2, <2>3, <2>4, <2>5 DEF Accounts, Typing, Booking, Room, KDTypeOK
<1>2. KDInit => Known
  <2> SUFFICES ASSUME KDInit PROVE Known
    OBVIOUS
  <2>1. Len(queue) = 0 /\ serial = 0 /\ pc = "idle"
    BY DEF KDInit
  <2> QED
    BY <2>1 DEF Known, QueueKnown, FirstBlock, CallOwned
<1> QED
  BY <1>1, <1>2, AccountsInit, AccountsStep, BookingInit, BookingStep, RoomStep, KnownStep,
     EntriesInit, EntriesStep, PTL DEF KDSpec

-----------------------------------------------------------------------------
(* The first kernel of context 0 is booked, with block 0, from the end of  *)
(* the first run() on; and until then it is not.                           *)
FirstDone == serial > 1 \/ (serial = 1 /\ pc \notin {"run", "last"})
FirstEntry(l) == 0 \in DOMAIN l[0] /\ l[0][0].blocks = {0} /\ l[0][0].done \subseteq {0}
FirstBooked ==
  OnlyFirst => /\ ReportsMatch
               /\ FirstDone => FirstEntry(krlList)
               /\ ~FirstDone => 0 \notin DOMAIN krlList[0]

(* While every id decodes to the first block, each makes one report.       *)
LEMMA HandledAllFirst ==
  ASSUME Accounts, Booking, Known, OnlyFirst, FirstDone \/ serial = 0,
         FirstDone => FirstEntry(krlList), HandleIds
  PROVE  /\ ret' = "ok" /\ Len(reported') = Len(reported) + Len(queue)
         /\ FirstDone => FirstEntry(krlList')
         /\ serial = 0 => krlList' = krlList
<1> DEFINE start == [list |-> krlList, reported |-> reported, ret |-> "ok"]
           n == Len(queue)
<1>1. start \in LoopType /\ start.list = krlList /\ start.reported = reported /\ start.ret = "ok"
  BY DEF Booking, LoopType
<1>2. n \in Nat /\ DOMAIN queue = 1 .. n /\ Len(reported) \in Nat
  BY LenProperties DEF Accounts, Typing, Booking
<1>i. \A i \in 1 .. n : /\ FirstDone
                        /\ ContextOf(queue[i]) = 0 /\ KernelOf(queue[i]) = 0 /\ BlockOf(queue[i]) = 0
  <2> TAKE i \in 1 .. n
  <2>1. PICK s \in 1 .. serial : queue[i] = IdOf(owner[s])
    BY DEF Known, QueueKnown
  <2>2. serial # 0
    BY <2>1 DEF Accounts, Typing
  <2>3. TakenForFirst(owner[s])
    BY DEF OnlyFirst
  <2> QED
    BY <2>1, <2>2, <2>3 DEF TakenForFirst, IdOf
<1> HIDE DEF start, n
<1>3. PICK h : /\ h[0] = start
               /\ \A k \in 1 .. n : h[k] = Handle(h[k - 1], queue[k])
               /\ \A k \in 0 .. n : h[k] \in LoopType
               /\ Handled(start, queue) = h[n]
  BY <1>1, <1>2, HandleUnrolls
<1> DEFINE T == {k \in 0 .. n : /\ h[k].ret = "ok" /\ Len(h[k].reported) = Len(reported) + k
                                /\ FirstDone => FirstEntry(h[k].list)
                                /\ serial = 0 => h[k].list = krlList}
<1>4. 0 \in T
  BY <1>1, <1>2, <1>3
<1>5. ASSUME NEW k \in 1 .. n, k - 1 \in T PROVE k \in T
  <2> DEFINE s == h[k - 1]
             id == queue[k]
             e == s.list[ContextOf(id)][KernelOf(id)]
             done == e.done \cup {BlockOf(id)}
  <2>1. s \in LoopType /\ h[k] = Handle(s, id)
    <3>1. k \in 1 .. n /\ k - 1 \in 0 .. n
      BY <1>2
    <3> QED
      BY <1>3, <3>1
  <2>2. /\ s.ret = "ok" /\ Len(s.reported) = Len(reported) + (k - 1)
        /\ FirstEntry(s.list) /\ FirstDone
    BY <1>5, <1>i
  <2>3. ContextOf(id) = 0 /\ KernelOf(id) = 0 /\ BlockOf(id) = 0
    BY <1>i
  <2>4. Legal(s.list, id)
    BY <2>2, <2>3, DispatchAssumption DEF Legal, FirstEntry
  <2>5. done = {0} /\ e.blocks = {0} /\ e = s.list[0][0]
    BY <2>2, <2>3 DEF FirstEntry
  <2> HIDE DEF s, id, T
  <2>6. /\ Handle(s, id).ret = "ok"
        /\ DOMAIN Handle(s, id).list[0] = DOMAIN s.list[0]
        /\ Handle(s, id).list[0][0].blocks = e.blocks /\ Handle(s, id).list[0][0].done = done
        /\ Len(Handle(s, id).reported) = Len(s.reported) + (IF done = e.blocks THEN 1 ELSE 0)
    BY <2>1, <2>2, <2>3, <2>4, HandleTyped
  <2>7. FirstEntry(Handle(s, id).list)
    BY <2>2, <2>5, <2>6 DEF FirstEntry
  <2>8. Len(Handle(s, id).reported) = Len(reported) + k
    BY <1>2, <2>2, <2>5, <2>6
  <2>9. serial # 0
    BY <2>2 DEF FirstDone
  <2> QED
    BY <2>1, <2>6, <2>7, <2>8, <2>9 DEF T
<1>6. n \in T
  <2> HIDE DEF T
  <2> QED
    BY <1>2, <1>4, <1>5, StepInduction
<1> DEFINE s == Handled(start, queue)
<1>7. krlList' = s.list /\ reported' = s.reported /\ ret' = s.ret
  BY DEF HandleIds, start, Handled
<1> QED
  BY <1>3, <1>6, <1>7 DEF n

LEMMA FirstBookedStep ==
  ASSUME Accounts, Accounts', Booking, Known, FirstBooked, [KDNext]_kdVars
  PROVE  FirstBooked'
<1> SUFFICES ASSUME OnlyFirst' PROVE /\ ReportsMatch'
                                     /\ FirstDone' => FirstEntry(krlList')
                                     /\ ~FirstDone' => 0 \notin DOMAIN krlList'[0]
  BY DEF FirstBooked
<1>0. /\ serial \in Nat /\ serial' \in Nat /\ Len(reported) \in Nat /\ Len(queue) \in Nat
      /\ given \in Nat /\ handled \in Nat
  BY LenProperties DEF Accounts, Typing, Booking
<1>b. \/ batch = << >>
      \/ /\ batch = <<batch[1]>> /\ batch[1] = [waits |-> batch[1].waits, held |-> batch[1].held]
         /\ batch[1].waits \in Nat /\ batch[1].held \in Nat /\ Len(batch) = 1
  BY DEF Booking, BatchType
<1>1. /\ serial' >= serial /\ \A s \in 1 .. serial : owner'[s] = owner[s]
      /\ \/ serial' = serial /\ owner' = owner /\ (pc' \in {"run", "last"} => call' = call /\ pc \in {"run", "last"})
         \/ /\ serial' = serial + 1 /\ pc' = "run"
            /\ owner'[serial'].task = call'.task /\ owner'[serial'].kernel = call'.kernel
            /\ owner'[serial'].block = call'.block
            /\ pc = "idle" => call'.block = 0
            /\ pc \in {"idle", "last"}
  BY OwnersKept
<1>2. OnlyFirst
  <2>1. serial > 0 => owner[1].task = 0 /\ owner[1].kernel = 0
    BY <1>0, <1>1 DEF OnlyFirst
  <2>2. \A s \in 1 .. serial : TakenForFirst(owner[s])
    <3>1. ASSUME NEW s \in 1 .. serial PROVE TakenForFirst(owner[s])
      <4>1. s \in 1 .. serial' /\ owner'[s] = owner[s]
        BY <1>0, <1>1
      <4> QED
        BY <4>1 DEF OnlyFirst
    <3> QED
      BY <3>1
  <2> QED
    BY <2>1, <2>2 DEF OnlyFirst
<1>3. /\ ret = "ok" /\ Reports = handled
      /\ FirstDone => FirstEntry(krlList)
      /\ ~FirstDone => 0 \notin DOMAIN krlList[0]
  BY <1>2 DEF FirstBooked, ReportsMatch
<1> HIDE DEF OnlyFirst
<1>4. CASE /\ HostCalls \/ RunTick \/ WaitTick \/ ExecuteAll \/ AllFinished \/ Spin \/ UNCHANGED kdVars
  <2>1. /\ UNCHANGED <<krlList, reported, ret, given, handled>>
        /\ batch' = batch \/ (batch = << >> /\ batch' = <<[waits |-> 0, held |-> 0]>>)
        /\ \/ serial' = serial + 1 /\ pc' = "run" /\ pc = "idle"
           \/ serial' = serial /\ (pc' \in {"run", "last"} <=> pc \in {"run", "last"})
    <3>1. CASE HostCalls
      BY <3>1 DEF HostCalls, Start, Wait, BeginRun, BeginWait, books
    <3>2. CASE ExecuteAll
      BY <3>2, <1>b DEF ExecuteAll, books, Booking
    <3>3. CASE RunTick \/ WaitTick
      BY <3>3 DEF RunTick, WaitTick, books
    <3>4. CASE AllFinished \/ Spin \/ UNCHANGED kdVars
      BY <3>4 DEF AllFinished, Spin, kdVars, books
    <3> QED
      BY <3>1, <3>2, <3>3, <3>4, <1>4
  <2>2. FirstDone' <=> FirstDone
    BY <2>1, <1>0 DEF FirstDone
  <2>3. Reports' = Reports
    BY <2>1, <1>0 DEF Reports
  <2> QED
    BY <2>1, <2>2, <2>3, <1>3 DEF ReportsMatch
<1>5. CASE LastTick
  <2> DEFINE id == WgId(call.task, call.kernel, call.block)
  <2>1. /\ pc = "last" /\ krlList' = Booked(call.task, call.kernel, id)
        /\ ret' \in {ret, "ok"} /\ pc' \in {"run", "idle"}
        /\ UNCHANGED <<batch, reported, given, handled>>
        /\ serial >= 1
    BY <1>5 DEF LastTick, BeginRun, Accounts, Typing
  <2>2. Reports' = Reports
    BY <2>1 DEF Reports
  <2>3. FirstDone'
    BY <2>1, <1>0, <1>1, <1>5 DEF FirstDone, LastTick, BeginRun
  <2>4. FirstEntry(krlList')
    <3>0. krlList \in Lists /\ call.task \in Tasks /\ 0 \in Tasks /\ DOMAIN krlList = Tasks
      BY <2>1, DispatchAssumption DEF Booking, Accounts, Typing, RunType, Lists
    <3>1. CASE FirstDone
      <4>1. FirstEntry(krlList)
        BY <1>3, <3>1
      <4> HIDE DEF id
      <4> QED
        BY <2>1, <3>0, <4>1 DEF Booked, FirstEntry
    <3>2. CASE ~FirstDone
      <4>1. serial = 1
        BY <3>2, <2>1, <1>0 DEF FirstDone
      <4>2. call.task = 0 /\ call.kernel = 0 /\ call.block = 0
        BY <1>2, <2>1, <4>1 DEF Known, CallOwned, FirstBlock, OnlyFirst
      <4>3. id = 0
        <5>1. id = WgId(0, 0, 0)
          BY <4>2
        <5>2. WgId(0, 0, 0) = 0
          BY DEF WgId, Or2, Or6
        <5> QED
          BY <5>1, <5>2
      <4> HIDE DEF id
      <4>4. 0 \notin DOMAIN krlList[0]
        BY <1>3, <3>2
      <4> QED
        BY <2>1, <3>0, <4>2, <4>3, <4>4 DEF Booked, FirstEntry
    <3> QED
      BY <3>1, <3>2
  <2> QED
    BY <2>1, <2>2, <2>3, <2>4, <1>3 DEF ReportsMatch
<1>6. CASE WaitReturn \/ RoundReturn
  <2>1. /\ HandleIds /\ pc = "wait" /\ pc' \in {"idle", "exec"} /\ serial' = serial
        /\ handled' = handled + Len(queue)
    BY <1>6 DEF WaitReturn, RoundReturn, HandleQueue
  <2>2. FirstDone \/ serial = 0
    BY <2>1, <1>0 DEF FirstDone
  <2>3. FirstDone' <=> FirstDone
    BY <2>1 DEF FirstDone
  <2>4. /\ ret' = "ok" /\ Len(reported') = Len(reported) + Len(queue)
        /\ FirstDone => FirstEntry(krlList')
        /\ serial = 0 => krlList' = krlList
    BY <1>2, <1>3, <2>1, <2>2, HandledAllFirst
  <2>5. Reports' = Reports + Len(queue)
    <3>1. CASE WaitReturn
      <4>1. batch = << >> /\ batch' = batch /\ given' = given
        BY <3>1 DEF WaitReturn
      <4> QED
        BY <4>1, <2>4, <1>0 DEF Reports
    <3>2. CASE RoundReturn
      <4>1. batch # << >>
        BY <3>2 DEF RoundReturn
      <4>2. \/ batch' = << >> /\ given' = given + batch[1].held
            \/ batch' = [batch EXCEPT ![1].waits = batch[1].waits + 1] /\ given' = given
        BY <3>2, <2>4 DEF RoundReturn
      <4>3. \/ batch' = << >> /\ given' = given + batch[1].held
            \/ batch' # << >> /\ batch'[1].held = batch[1].held /\ given' = given
        BY <4>1, <4>2, <1>b
      <4> QED
        BY <4>1, <4>3, <2>4, <1>0, <1>b DEF Reports
    <3> QED
      BY <3>1, <3>2, <1>6
  <2>6. FirstDone' => FirstEntry(krlList')
    BY <2>3, <2>4
  <2>7. ~FirstDone' => 0 \notin DOMAIN krlList'[0]
    BY <2>2, <2>3, <2>4, <1>3
  <2> QED
    BY <2>1, <2>4, <2>5, <2>6, <2>7, <1>3 DEF ReportsMatch
<1>7. CASE GetFinishedKernel
  <2>1. /\ pc = "idle" /\ given' = given + Len(reported) /\ reported' = << >>
        /\ UNCHANGED <<pc, krlList, batch, ret, serial, handled>>
    BY <1>7 DEF GetFinishedKernel
  <2>2. Reports' = Reports
    BY <2>1, <1>0, <1>b DEF Reports
  <2>3. FirstDone' <=> FirstDone
    BY <2>1 DEF FirstDone
  <2> QED
    BY <2>1, <2>2, <2>3, <1>3 DEF ReportsMatch
<1>8. CASE Round
  <2>1. /\ pc = "exec" /\ pc' = "wait" /\ reported' = << >>
        /\ batch' = [batch EXCEPT ![1].held = @ + Len(reported)]
        /\ UNCHANGED <<krlList, ret, given, serial, handled>>
    BY <1>8 DEF Round, BeginWait
  <2>2. batch # << >>
    BY <2>1 DEF Booking
  <2>3. batch' # << >> /\ batch'[1].held = batch[1].held + Len(reported)
    BY <2>1, <2>2, <1>b
  <2>4. Reports' = Reports
    BY <2>1, <2>2, <2>3, <1>0, <1>b DEF Reports
  <2>5. FirstDone' <=> FirstDone
    BY <2>1 DEF FirstDone
  <2> QED
    BY <2>1, <2>4, <2>5, <1>3 DEF ReportsMatch
<1> QED
  BY <1>4, <1>5, <1>6, <1>7, <1>8 DEF KDNext

(* driver.h:539, 586: while every work group id decodes to the first       *)
(* kernel's block, each completion makes exactly one report and none is    *)
(* lost on its way to the caller (ReportsMatch).                           *)
THEOREM ReportsReachCaller == KDSpec => []ReportsMatch
<1>1. KDInit => Known /\ FirstBooked
  <2> SUFFICES ASSUME KDInit PROVE Known /\ FirstBooked
    OBVIOUS
  <2>1. /\ serial = 0 /\ queue = << >> /\ pc = "idle" /\ ret = "ok" /\ given = 0
        /\ reported = << >> /\ batch = << >> /\ handled = 0
    BY DEF KDInit
  <2>2. Len(queue) = 0 /\ Len(reported) = 0
    BY <2>1
  <2>3. krlList[0] = [k \in {} |-> [blocks |-> {}, done |-> {}, state |-> "UNFINISH"]]
    BY DispatchAssumption DEF KDInit
  <2>4. 0 \notin DOMAIN krlList[0]
    BY <2>3
  <2> QED
    BY <2>1, <2>2, <2>4 DEF Known, QueueKnown, FirstBlock, CallOwned, FirstBooked, FirstDone,
                            ReportsMatch, Reports
<1>2. /\ Known /\ FirstBooked /\ Accounts /\ Booking => ReportsMatch
  BY DEF FirstBooked, ReportsMatch
<1> QED
  BY <1>1, <1>2, KnownStep, FirstBookedStep, BookingInit, BookingStep, AccountsInit,
     AccountsStep, PTL DEF KDSpec
=============================================================================
