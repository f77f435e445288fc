# Ventus driver: a TLA+ verification project

The driver in `src/` lets a host program use a simulated Ventus GPGPU: it keeps
the simulated RAM and its Sv39 page tables, hands out virtual buffers, copies
data, dispatches the work groups of a kernel to the verilated device one by one
and collects their completions. `src/rtl` adds the MMU that the hardware side
uses. This directory holds TLA+ models of these parts, TLC configurations that
check them on small instances, and theorems about the RAM, the page tables, the
address manager, the dispatcher, the memory controller and the MMU for every
value of the constants that their modules allow.

Contents: [1 Inventory](#1-inventory), [2 Modules](#2-modules-and-the-code-they-model),
[3 Runs](#3-runs-what-each-checks), [4 Proofs](#4-proofs),
[5 Disagreements found](#5-where-code-and-its-comments-disagree),
[6 Not modelled](#6-what-is-not-modelled), [7 Plan](#7-plan).

## 1 Inventory

| Part | Source | State it keeps | Operations |
| --- | --- | --- | --- |
| RAM | `src/src/device/page.h` | a sorted `std::list` of blocks, the insertion cursor `m_current_block_`, page contents | `usable`, `insert`, `remove`, `length`, `read_value`, `write_value`, `write_data` |
| Page tables | `device/memory.h` (class `Memory`), `device/sv39.h` | everything lives in RAM words; only the RAM is a member | `create_root_pt`, `allocate`, `convert`, `read_virt`, `write_virt`, `release`, `clean_pt`, `clean_task` |
| Address manager | `driver.h`, `addr::Manager` | per context a linked list of buffers (`Item`) | `createNewContext`, `allocMemory`, `releaseMemory`, `attachPaddr` |
| Driver, memory half | `driver.h`, `ventus.cc` | `m_ctx_lst_` (root of each context) and the two parts above | `create_device_mem`, `delete_device_mem`, `alloc_local_mem`, `free_local_mem`, `upload`, `download`; `vt_memcopy`, `vt_upload_kernel_bytes` over them |
| Driver, kernel half | `driver.h`, `device/processor.h` | kernel lists per context, reported kernels, queue of finished ids, `m_root_`, the request port | `start`, `wait`, `get_finished_kernel`, `execute_all_kernel`; `run`, `tick`, `wait`, `finished_block` |
| Memory controller | `device/memory.h` (class `MemController`), `processor.h` | response stage registers, sampled handshakes, the port copy | `eval` in both halves of a clock cycle |
| MMU | `src/rtl/MMUTests.v` | queues and four walk entries in each of two walker stages | request, walk, response, one clock edge at a time |
| GPGPU_top | not in the repository | the device | external; appears as a nondeterministic environment |
| Text and errors | `src/basic/*` | none | formatting, logging, `VT_ERROR` throws |

How they interact. `vt_malloc` goes to `alloc_local_mem`, which asks the address
manager for a virtual address, the page tables for memory behind it, and the
address manager again to record the physical address. `allocate` asks the RAM
twice per table and once per block: `usable` for a gap, `insert` to fill it; it
ignores what `insert` answers for tables. Copies go through `act_virt`, page by
page. `start` hands each work group to `Processor::run`, whose ticks drive the
device clock and, in the same loop, the memory controller, which translates the
device's requests with `m_root_`: one root for the whole device, set by the last
start. Completions appear in `tick` and wait in a queue until `Driver::wait`
takes them. So the words of device memory have two users, the copies of the
host and the loads and stores of kernels, which meet in the page tables and in
the RAM. The MMU of `src/rtl` would translate in hardware, over the tables
`allocate` builds, what the driver translates in software today.

What is hard here.

* The driver is one thread, but a call is many steps, and every error throws out
  of the middle of one: what was done stays done. Calls of several contexts
  interleave over one RAM.
* The list cursor survives calls and removals; its position decides where the
  next walk begins, and it can dangle.
* Page tables are shared between blocks that straddle them; the clean-up
  functions decide what is still in use by reading them.
* The dispatcher and the memory controller talk to a clocked device through
  valid/ready pairs that are copied half a cycle late; completions come in any
  order; registers start uninitialised.
* A kernel's access is translated at one clock edge and performed at a later
  one. The clock only runs inside `start` and `wait`, so any number of calls may
  lie between the two.
* `release` leaves its page table entries valid. Nothing guards against meeting
  one again but that a context's list of buffers is lost with the first free.
* The walkers of the MMU hold several translations at once, matched to memory
  responses by source id, and choose among finished ones with two pointers.

What makes each part correct: the block list stays sorted and disjoint and holds
exactly the pages with content; `usable` finds the first fit and `insert` agrees
with it; a handed-out block translates to its own physical pages until it is
freed; tables never overlap data; nothing is lost before a failure and a failure
hurts nobody else; buffers lie in their segment on pages of their own; the
memory interface behaves as independent zeroed arrays, for the host and for
kernels at once; a kernel finds the first uploaded program where it starts; a
work group is accepted exactly once and its completion is handed out exactly
once; every memory request gets one right answer; hardware and software find the
same page. `PROJECT.json` lists the hazards, each at its line.

## 2 Modules and the code they model

| Module | Models | State | One action per |
| --- | --- | --- | --- |
| `PhysicalMemory` | `page.h` | `pm`: blocks, cursor, pages, crashed | take (usable + insert), remove, word write |
| `PageTables` | `Memory` and `SV39` as operators over `pm` | none of its own | (operators, each one whole call) |
| `VirtualMemory` | `Memory` with a client | `pm` and what the client knows: roots, live blocks, pages ever asked for | public function of `Memory` |
| `AddressManager` | `addr::Manager` | `mng`, and `granted`, what callers were told | public function of `Manager` |
| `Driver` | driver and C interface, memory half; EXTENDS `PageTables` and `AddressManager` | `pm`, `mng`, `granted`, `root`, `ret`, `view` (repeats what the others say, for the refinement) | C call |
| `SharedMemory` | `Driver` together with the kernels that run on the device; EXTENDS `Driver` | also `mroot` (`m_root_`), `running`, `latch` (the access the memory controller holds), `program` (what the client uploaded) | C call; start and finish of a kernel; translation and performance of an access |
| `DeviceBuffers` | abstract: independent arrays per context, and one access under way | `arrays`, `access` | new context, new array, upload, free, load kernel, begin and complete an access |
| `KernelDispatch` | `start`, `wait`, `get_finished_kernel`, `execute_all_kernel` over `run`, `tick` | thread position, the batch of `execute_all_kernel`, books, queue, device | tick, call, round, return |
| `MemController` | `MemController::eval`, `get_ram_bits_port` | registers, port copies, memory, device | clock half |
| `MMU` | `MMUTests.v`: MMU under MMUtest | `fl`, `ll` (walker entries), `lastGrant`, `q` (eight one-element queues; the handshakes and what passes at them are operators), and outside: `waiting` (memory), `open` (host) | clock edge |
| `Translation` | abstract: requests answered once, in any order | `open`, `answer` | ask, show, take |
| `DriverTables` | `MMU` over tables that `PageTables` built | none of its own | (EXTENDS `MMU`, INSTANCEs `PageTables` and `Translation`) |
| `MemoryProofs` | theorems about `PhysicalMemory`, and lemmas: what each call of `memory.h` does to well-formed tables (`PageTables`) | | |
| `VirtualMemoryProofs`, `AddressManagerProofs`, `SharedMemoryProofs`, `KernelDispatchProofs`, `MemControllerProofs`, `MMUProofs` | theorems about the module each is named after | | |
| `ListFacts` | lemmas: sequences, recursive functions, the least of a set | | |
| `MC*` | the instances TLC checks; they add constants and a view, `MCMMU` also a busy subset of the MMU's behaviours | | |

Conventions.

* The RAM counts pages (every caller rounds sizes up to pages) and words of a
  page; the address manager counts 64-byte units, its rounding grain. In
  `Driver` one unit is one word of a page, so that both agree with
  `PAGESIZE = PageElem`. The RWX bits of a page table entry are never read back,
  so an entry is its page number and its V bit.
* A call that changes several things is one operator from state to state, and
  the action applies it: a loop is a fold that threads the state, an early
  return or a throw leaves the state as it is at that point. `ret = "throw"` is
  a call that threw.
* Undefined behaviour is a choice. Inserting with the cursor on an erased list
  node either finds an address conflict in the freed node or kills the process
  (`ub`); walking past the end of the list kills it. Uninitialised registers of
  the memory controller start with any value.
* `granted`, `used`, `live`, `tidy`, `serial`, `accepted`, `issued`, `answers`,
  `clean`, `polite` and the like are what clients and device know or did. The code has no such variable;
  they only observe, and no guard of code steps reads them other than to say
  which calls a client makes.
* Definitions under the comment "Seeded bug" are not part of any specification.
  Each is a plausible mistake in the definition below it; replacing that
  definition by it makes a run fail. They document what each property is
  sensitive to; `PROJECT.json` ("mutants") pairs them with the properties.

## 3 Runs: what each checks

Passing runs.

| Run | Question | Bounds, and why they are enough |
| --- | --- | --- |
| `physical_memory` | Does the list survive any history of takes, removes and stores? | 6 pages of RAM, one reserved, requests up to 3 pages, any address removed. Gaps of each size appear between, before and behind blocks, exact fits occur, the cursor stands on every block and dangles, the reserved block and the end marker can be removed. |
| `virtual_memory` | Do two roots keep apart and translate right through allocate, write, release, clean and drop? | 9 pages: two roots with three-level tables and two blocks of up to 2 pages exhaust it, so failures half way occur. Writes start inside a page and straddle two. |
| `shared_tables` | Is anything leaked or disturbed when blocks share tables? | One root, starts 2, 3, 5 with two entries a table: blocks lie inside one leaf table, straddle two leaf tables and straddle two middle tables. |
| `address_manager` | Does every order of requests and frees place buffers right? | Segments of 3 pages of 2 units, sizes up to a whole segment, up to 6 buffers; each segment is filled exactly and refused beyond. |
| `system` | Does device memory behave as independent zeroed arrays for the host and for kernels at once, and do kernels find their program? | 9 pages (two contexts with a one-page image each just fit, or one with two buffers), contexts 0 and 1, kernel ids 0 and 1, two buffers a context, images of one chunk and of two with two different words, kernels that load and store two words of any buffer; memory and segments run out inside calls, an access is held over calls of both contexts. |
| `dispatch` | Are work groups accepted and completions delivered exactly once, do a start and a wait return, and what becomes of `execute_all_kernel`? | 2 contexts, 2 kernels, up to 2 work groups a start, 3 in all, capacity 2: the device fills up, completions reorder and arrive during a later start. Two rounds stand for the 31 waits of `execute_all_kernel`: a first one, whose reports the second takes over, and a last one. |
| `mem_controller` | Are answers right and in order, and when is none lost? | 2 addresses, 2 values, 3 requests, reads, whole-word writes and one opcode the controller does not know; requests before the last was answered, d_ready lowered at any edge, every content of the registers at power-up. Three requests let two be lost before the third. |
| `mmu` | Does every translation get one answer, the page `Memory::convert` finds? | 2 walks a walker, 2 requests open; 9 pages of RAM in which `allocate` built the tables of two blocks, of one page and of two, that share the root table only; all three mapped pages; any power-up value of the grant registers, memory that answers in any order, a host that refuses answers for a while. Walks overtake each other in both walkers and the two walkers compete for the port. With four requests open the answers go wrong (run `mmu_full`). |

The violation runs, `segments`, `paddr`, `single_block` and `mmu_full`, are in
section 5.

The run `system` uses the view `Machine`, which leaves out `ret` and `view`. No
step reads `ret`, and `view` always equals `Arrays`, a function of the variables
kept, so two states with one view have the same successors; the two variables
are functions of the step and of its new state where a property reads them.

Client assumptions of passing runs, each stated in its module.

* `VirtualMemory` and `Driver` stop following a behaviour once the cursor
  dangles (`pm.cur = 0`); `PhysicalMemory` follows it on. `VirtualMemory` also
  stops after an untidy call: releasing a block the client does not hold,
  re-using virtual pages, or dropping a root after a release in it. These are
  hazards of `release`, which clears no page table entry.
* `KernelLastSpec` and `Driver`: kernel memory is asked for last in a context.
  The run `segments` drops this.
* `Driver`: the client copies nothing over the place kernels start at.
* `SharedMemory`: a kernel is started only while no other context has one
  running, no buffer of a context is freed while it has one, and kernels do not
  store into kernel memory. The code prevents none of this: with two running
  contexts the accesses of one are translated with the root of the other, and a
  store held back over a free lands in somebody else's page.
* `KernelDispatch` with `EagerReady = FALSE`: the device raises ready only for a
  request it sees. The run `single_block` drops this.
* `KernelDispatch`: a context is created before a kernel is started in it (a
  start elsewhere throws at `driver.h:529` and does nothing), kernel ids are
  below 4 and a start has at most 8 work groups, which `driver.h:536` does not
  check.
* `MMU`: the host has one request open per source id and names a new one by the
  lowest id that is free. The RTL only compares ids, so another choice is a
  renaming; two open requests with one id could not be told apart by anybody.

Fairness. In `KernelDispatch`, weak fairness of the ticks and of the return of
`wait`: the loops of `run` and `wait` do nothing else. Two strong fairness
conditions are assumptions about the device: while it has room it does not
refuse a request for ever, and it goes on finishing what is resident. Nothing
else makes `run` return, since its loop has no limit. Weak fairness of the steps
of `execute_all_kernel`: the thread does nothing else between its waits. In `MemController`, weak
fairness of the clock edges: `Processor::tick` always evaluates both halves. In
`MMU`, weak fairness of the clock, and of the environment what a translation
needs: memory does not refuse requests for ever, answers each in the end (strong,
because the queue the answer goes to may fill and drain meanwhile), and the host
does not refuse answers for ever. No other module states fairness or liveness.

Deadlock. `CHECK_DEADLOCK FALSE` appears where a bound (out of memory) or the
end of a followed behaviour stops the model; the runs of the address manager,
the dispatcher, the memory controller and the MMU check it.

What the main properties say:

* `BlocksOrdered`, `PagesBacked`, `UsableInsertable`, `UsableIsFirstFit`,
  `FreshOrKept`: the list is sorted; pages and blocks match; `usable` answers
  the lowest fitting gap and `insert` takes exactly it, from any cursor; no call
  disturbs another page.
* `TablesPrivate`, `LiveBlocksMapped`, `OnlyUsedMapped`, `FrameKept`,
  `NothingLeaks`, `AllocateContained`: see section 1.
* `GrantsInSegment`, `GrantsOnOwnPages`, `ListHoldsGrants`,
  `RefusedOnlyWhenFull`: placement, no shared page, list and grants agree,
  refusal only without room.
* `ImplementsBuffers`: with `arrays <- view` and `access <- PendingAccess` every
  step of the system is a step of `DeviceBuffers` or leaves it unchanged.
  `BuffersReachable` adds that no two buffers reach one physical page,
  `LatchRight` that the physical address the controller holds is still the
  address's own when the access is performed, `NoStaleLeaf` that no entry left
  behind by `release` is ever met, `ProgramAtPc` that the word at the fixed
  start address is that of the first program uploaded to the context.
* `SingleBlock`, `ReturnedMeansAccepted`, `CompletionsCounted`: a work group is
  accepted exactly once, its completion reaches exactly one `wait`.
* `ReportsMatch`: ids collide, so completions of other kernels count for the
  first one; as long as all of them do, there is one report for each and none is
  lost between `wait`, `get_finished_kernel` and `execute_all_kernel`.
* `CallsReturn`, `ExecuteReturns`: `start` and `wait` return;
  `execute_all_kernel` does unless it finds context 0 without an unfinished kernel, and then it never does.
* `TranslatesLikeDriver`: the MMU implements `Translation` with the target of a
  page being the entry for what `Memory::convert` answers. `OneWalkEach`: each
  open request is in exactly one place. `MemoryMatched`: a walk waits exactly
  when its memory request or answer is under way. `RequestsTranslated`: every
  request is answered although the last-level walker always goes first at the
  memory port. `AnswersRight` (run `mmu_full`): an answer is for an open request
  and names the word its tables lead to (`Walk`, a definition of its own over
  the contents of memory).
* `KDTypeOK`, beside types: an id in the queue is that of a run that was made,
  each entry of a `krl_list` has booked one run of its kernel and is finished
  exactly when that is marked, and what is reported is a finished kernel.
* `AnswersMatch`: whatever the device does and the registers held, answers come
  in the order of the requests, each of the kind of its request, and no read or
  write is answered twice. An opcode the controller does not know may be
  answered again (`memory.h:381`), and so may what power-up left behind. The
  controller does lose requests (a second one taken while `ready` is still up)
  and answers (`d_ready` lowered half a cycle late), so that the n-th answer is
  for the n-th request is said of a device that keeps one request open and
  `d_ready` up (`polite`), from `clean` registers.
* `ReadsSeeWrites`: with requests and answers lost, too, a read answers an
  earlier write to its address, or 0, and no answered write lies in between.
  It says nothing of an address an unknown opcode touched.
* `RequestsAnswered`: a polite device is answered in the end, as long as it stays
  polite.

## 4 Proofs

Each theorem holds for every value of the constants that satisfies the
assumption of its module; the run named beside it checks the same property on
one instance.

| Module | Theorem | Statement | Run |
| --- | --- | --- | --- |
| `MemoryProofs` | `TypeCorrect` | `PMSpec => []PMTypeOK` | `physical_memory` |
| | `ListSorted` | `PMSpec => []BlocksOrdered` | |
| | `InsertNeverFails` | `PMSpec => []UsableInsertable` | |
| | `PagesStayBacked` | `PMSpec => []PagesBacked` | |
| | `ContentKept` | `PMSpec => FreshOrKept` | |
| | `UsableFirstFit` | `PMSpec => []UsableIsFirstFit` | |
| `VirtualMemoryProofs` | `BooksTyped` | `VMSpec => []VMTypeOK` | `virtual_memory`, `shared_tables` |
| | `TablesStayPrivate` | `VMSpec => []TablesPrivate` | |
| | `BlocksMapped` | `VMSpec => []LiveBlocksMapped` | |
| | `UsedMapped` | `VMSpec => []OnlyUsedMapped` | |
| | `FrameStays` | `VMSpec => []FrameKept` | |
| | `NoBlockLost` | `VMSpec => []NothingLeaks` | |
| | `AllocateHurtsNobody` | `VMSpec => AllocateContained` | |
| `AddressManagerProofs` | `ManagerTypeCorrect` | `KernelLastSpec => []AMTypeOK` | `address_manager` |
| | `BuffersInSegment` | `KernelLastSpec => []GrantsInSegment` | |
| | `BuffersOnOwnPages` | `KernelLastSpec => []GrantsOnOwnPages` | |
| | `ListsHoldGrants` | `KernelLastSpec => []ListHoldsGrants` | |
| | `RefusalsJustified` | `KernelLastSpec => []RefusedOnlyWhenFull` | |
| `SharedMemoryProofs` | `SharedTyped` | `SMSpec => []SMTypeOK` | `system` |
| | `BuffersApart` | `SMSpec => []BuffersReachable` | |
| | `LatchStaysRight` | `SMSpec => []LatchRight` | |
| | `NoStaleEntries` | `SMSpec => []NoStaleLeaf` | |
| | `ProgramStaysAtPc` | `SMSpec => []ProgramAtPc` | |
| | `BuffersAreArrays` | `SMSpec => ImplementsBuffers`, the refinement of `DeviceBuffers` | |
| `KernelDispatchProofs` | `CompletionsAccounted` | `KDSpec => []CompletionsCounted` | `dispatch` |
| | `RunDelivers` | `KDSpec => []ReturnedMeansAccepted` | |
| | `RunsSingleBlock` | `EagerReady = FALSE`: `KDSpec => []SingleBlock` | |
| | `DispatchTyped` | `KDSpec => []KDTypeOK` | |
| | `ReportsReachCaller` | `KDSpec => []ReportsMatch` | |
| `MemControllerProofs` | `ControllerTypeCorrect` | `MCSpec => []MCTypeOK` | `mem_controller` |
| | `EachAnswered` | `MCSpec => []AnswersMatch` | |
| | `ReadsInOrder` | `MCSpec => []ReadsSeeWrites` | |
| `MMUProofs` | `MMUTypeCorrect` | three requests open at most: `MMUSpec => []MMUTypeOK` | `mmu` |
| | `EveryWalkOnce` | the same: `MMUSpec => []OneWalkEach` | |
| | `AnswersFindWalks` | the same: `MMUSpec => []MemoryMatched` | |
| | `AnswersAreRight` | the same: `MMUSpec => []AnswersRight` | `mmu_full`, with four |
| | `TranslatesRight` | the same: `MMUSpec => Promise!TSpec`, `Translation` with the entry `Walk` finds in memory | |

### The RAM

`PhysicalAssumption` says no more than the code: the reserved range is not empty
and inside the RAM, a page has a word, 0 is a possible word.

The inductive invariant is `Sorted`: the record is typed, the list is sorted and
disjoint, and a dead process has a dangling cursor. `BlocksOrdered` alone is not
inductive, because whether an insert keeps the order depends on the range of the
cursor and on the answer of `usable`. The argument:

1. `ReachedIsEnd`: in a sorted list the running maximum of `usable` is the end
   of the last block passed.
2. `GapSplits`, `UsableSplits`: a gap splits the list into blocks before the new
   one and blocks behind it; what `usable` answers is such a gap, and the new
   block ends inside the RAM.
3. `InsertAtSplit`: from any live cursor, upwards or downwards, the walk of
   `insert` stops exactly at that split.
4. `PlaceFacts`, `RemoveFacts`, `WriteFacts`, `CrashFacts`: each change of the
   record keeps type and order. `ListFacts` has what they need about
   `InsertAt` and `RemoveAt`.
5. `SortedInit`, `SortedStep`, and `SortedInsertable` for `InsertNeverFails`.

For the last three theorems the invariant is `SortedBacked`, `Sorted` with
`Backed` (`PlaceBacked`, `RemoveBacked`): removing a block takes away just its
own pages because no other block shares them, and a new block takes no page that
is there (`NewPagesFree`). First fit goes both ways: the pages behind a gap's
block are free (`GapIsFree`), and a free run lies behind some gap's block, the
last one that ends before it (`FreeHasGap`); so the least of the one is the
first of the other. Both need that the end marker, while it stands, is the last
block (`MarkerLast`).

The lemmas hold for RAM whose words are of any set (`TypedIn`): page tables keep
entries in it, which are no words of a program.

### The page tables and virtual memory

`VirtualAssumption` asks that every page of a block asked for lies in the address
space. The code does not test it, but the segments of `driver.h` end far below
2^39; an address above would be cut to its indices and meet the tables of
another.

`Tables(m, R, A, B, F)` says that the RAM is well formed: `R` are the roots, `A`
the middle and `B` the last-level tables, each with the table and the entry that
leads to it (`Leads`); every one lies in a block of one page of its own, a valid
entry of a last-level table leads into a block of `F` (`Ends`), and `F` are all
the blocks that are no tables. It is what makes three look-ups meaningful
(`WayFacts`), and different pages take different entries (`DigitsOf`,
`NextIndexes`).

The calls of `memory.h` are loops, folds in the model. A recursive function's
value for every argument is an induction over data, so each fold is turned into
a chain of states, one for each turn (`UnfoldExists`, and `MapAllChain`,
`PutAllChain`, `CleanMiddlesChain`, `CleanPtChain`, `DropLeavesChain`,
`DropMiddleChain`, `CleanTaskChain`); what a turn keeps holds at the end of the
chain (`StepInduction`). So each whole call gets one lemma, for any size of page
and table: `NewRootStep`, `AllocateStep`, `WriteVirtStep`, `ReleaseStep`,
`CleanPtStep`, `CleanTaskStep`. `AllocateStep` is the one with the most behind
it: `WalkAims` is what a turn knows of the indices remembered on each level
(`idx`), without which skipping the look at a table would not be justified.

None of the properties is inductive alone. Whether `release` takes the right
block depends on every translation, translations depend on the tables, and the
tables stay intact because `allocate` takes its pages from outside every block,
which needs an account of all blocks. `VMInv` has it: besides well-formed tables
(`HasTables`), each live block is a block of `F` of its own and is found under
the pages it was asked for, nothing else is found than what was asked for, `F`
holds the reserved block and the end marker (`Owned`), and until an `allocate`
fails `F` holds nothing else (`Accounted`). The pages asked for have to be part
of it: `release` leaves its entries valid, so a page asked for a second time
would keep the address of the block that is gone.

### The address manager

`SegmentAssumption` has what the constants of `driver.h` satisfy: three segments
in order, their bases and the end on page boundaries, the read-only segment no
longer than the read-write one. `KernelLastSpec` is the client that asks for
kernel memory last; the run `segments` refutes `GrantsInSegment` for the others.

Four layers. Arithmetic of pages: `PageUp` is the least boundary at or behind an
address (`PageUpFacts`), ranges with a boundary between them share no page
(`PagesApart`). Lists: `Listing` says what every list is (it starts at the base
of a segment, no buffer crosses the end of a segment, a segment in use is used
from its base on, each buffer starts on a page behind the last page of the one
before), `Good` what `allocVaddr` must answer for one; `AllocVaddrGood` shows
that it does, segment by segment, `InsertNewItemFacts` that the list stays one.
Grants: `Granting` is what the client was promised, `Matches` how its grants go
with the list. The inductive invariant `Placed` puts these together for every
context; a context whose list was lost keeps its promise and gets nothing more.
`GrantsInSegment` alone is not inductive: where a new buffer goes depends on the
whole list, the "used from its base on" of the segments before it included. For
`RefusalsJustified`, `RoomIsGap` and `FoundWhenRoom` show that room anywhere in
a segment is a gap that the search of its branch meets.

### The system: driver, page tables and kernels over one memory

`DriverAssumption` and `SharedAssumption` ask for what the constants of the code
satisfy: a unit of the address manager is a word of a page, chunks are whole
pages, the RAM has a page behind the reserved ones (`driver.h` makes context 0's
root there), and the segments end inside what a root translates
(`BUF_PARA_END` is far below 2^39). Image words are not 0, so that a loaded
program can be told from an empty buffer. Requests are bounded by `MaxSize`, images
by twice that, for `DeviceBuffers` has the same bounds. The theorems are about
the clients listed in section 3: one running context at a time, no free under a
running kernel, no stores into kernel memory, kernel memory asked for last.

Every property needs the whole of what the driver keeps. That a copy meets its
own pages depends on the tables; that the tables stay intact, on `allocate`
being asked for pages the context has not mapped; that it is, on where the
address manager places a buffer; and `release` leaves its entries valid, so it
also depends on what becomes of the list of the context. The inductive
invariant `SMInv` has four parts.

* `RecordsOk`: `Intact` relates lists, grants, roots and the RAM. `Registers`:
  each context that got a root has grants and, until its first free, a list that
  holds them (`Listing`, `Granting`, `Holding` of `AddressManagerProofs`); no
  two share a root. `Housed`: each buffer lies in
  a block of its own and is found page by page where it lies (`Lodged`), over
  tables that are well formed (`HasTables` of `MemoryProofs`). `OnlyListed`: a
  context that has a list translates no page outside it. A context that freed a
  buffer has no list any more and no claim is made of its other entries, which
  is why the stale ones do no harm: it is granted nothing again.
* `DeviceOk`: at most one context runs, and then `m_root_` is its root.
* `LatchOk`: the held access is for a word of a buffer of the running context,
  and its physical address is that word's. `LatchRight` alone is not kept by a
  call that moves the buffer.
* `ProgramsStand`: in each context that loaded a program, the buffer where
  kernels start is there and holds the program's words, until it is freed.

Each call gets one lemma that says what it did, in terms of what it kept:
`KeepsAll` (nothing a client can tell, also for a call that threw half way),
`AddsContext`, `AddsBuffer`, `FreesBuffer`, `StoresWords`, `LoadsImage`. All but
the last come from one whole call of `Memory` and one of `addr::Manager`
(`CreateDone`, `MallocDone`, `BufferFreed`, `CopyDone`).
`vt_upload_kernel_bytes` is a chain of chunks, any of which may throw;
`Uploading` says what stands after each. The parts of `SMInv` then need no more
than the outcome: a call that frees nothing moves no buffer (`Extended`,
`Outlasts`), so what kernels and the controller rely on stays (`LatchStays`,
`StandsStill`).

The refinement uses the same outcomes once more. `Arrays`, what a client would
read, is a function of RAM, grants and roots (`ArraysOf`); `KeepsArrays`,
`OneContext`, `BufferArrays`, `FreeArrays`, `StoreArrays` and `ImageAdded` say
what each outcome makes of it, which are the steps of `DeviceBuffers`
(`HostMaps`, `LoadMaps`, `BeginMaps`, `CompleteMaps`). While an access is held,
`AccessStays` keeps its abstract counterpart: a running context frees nothing, so
its grants are only added behind the others and the buffer keeps its number.

### The dispatcher

`Accounts`: a work group is known by its run and the number of its acceptance,
what is resident has not finished, and the books of `CompletionsCounted` hold.
`Delivered` adds that from the moment ready was seen the request is carried over
by the tick that follows. `ReadyTells`, for a device that shows ready only for a
request it has seen: ready is up exactly when the thread stands before the last
tick of `run`, so this tick and no other carries the request over.

`wait` folds over the ids it took, so what it leaves behind is the last value of
a recursive function. `HandleUnrolls` turns the fold into a chain of states, one
for each id (`FoldExists` in `ListFacts` says that the recursive function the
fold takes exists, `StepInduction` that what holds along the chain holds at its
end). `Booking` and `Room` are the types of the books. `Known` says where ids
come from: what is queued is the id of a run, and the run under way is the last
one. `Entries` says of the books that every entry has booked such an id
(`BlocksOwned`), is finished exactly when it is marked, and that reports name
finished kernels (`Sane`); the loop of `wait` keeps this id by id (`HandleSane`,
`HandledSane`), and `DispatchTyped` follows. For `ReportsMatch` the invariant
also says that the first kernel stands in the books under the id its completions
decode to (`FirstBooked`): the equality of counts alone is not kept by a `wait`
that meets an id nobody booked.

### The memory controller

No theorem assumes anything of the device or of the registers at power-up. The
handshakes of two edges are counted at the falling one, which decides them
(`seen`, `coming`), so that a rising edge changes nothing (`RisingSeen`). The
inductive invariant, `Protocol`, then has three parts beside types. `Order`: along
the chain of answers taken, answer shown, response stage, request waiting, the
numbers of the requests never fall, and where one repeats it may be answered
twice (`Chain`, `Stage`). `Content`: each read answer, and each word in memory,
is a write that no answered write overtook (`Saw`, `Read`). `Manners`: with a
polite device from clean registers the chain holds one request at most, so none is
passed over. `AnswersMatch` alone is not inductive: it says nothing of a request
on its way.

### The MMU

`MMUAssumption` says that the tables of every root and page asked for are in
memory; how many entries a walker or a page has and what memory holds is free.
The theorems add `FewOpen`: walkers of two entries or more, and at most three
ids, so at most three requests open. The bound is the best possible, since
`mmu_full` refutes `AnswersRight` with four.

The inductive invariant `Inv` has five parts. `OnePlace`: an open request is in
one queue or entry on its way through TLB, L2TLB and the two walkers, and
nothing else is anywhere (`FLPlaces`, `LLPlaces`, `QueuePlaces` follow it over an
edge, `OnePlaceKept` puts them together). `OneFinished`: a walker has at most one
finished walk, so the entry that `deq_ptr` frees is the one its arbiter sent
(`FLNames`, `LLNames`). This is where `FewOpen` is needed: a second finished walk
in the first walker means a first one that could not leave, so two more in the
last-level walker, and in that one it means that both queues back to the host
are full, four requests either way (`FourPlaces`). The queues to and from memory
hold one element and take none in the edge one leaves, which is why no answer
stands behind a finished walk that waits; the invariant has to say so. `Right`: a
walk is at a table that its request's root leads to, and an answer holds the
word. `AllMatched`: a waiting walk and its traffic belong together, with its
address (`TrafficMoves`, once for both walkers). `AnswersRight` alone says
nothing of a walk before its answer, and `OneWalkEach` is not kept by an edge
that frees another entry than it sends.

`TranslatesRight` follows from `Right`: an edge shows, takes or keeps the answer,
and beside that at most opens a request, which are the steps of `Translation`.

### Only model-checked

Liveness (fairness is out of the prover's reach): `CallsReturn`,
`ExecuteReturns`, `RequestsAnswered`, `RequestsTranslated`.
`TranslatesLikeDriver`: `TranslatesRight` proves the refinement for the word
three look-ups find in any memory, the run shows that in the tables `allocate`
builds this word is what `Memory::convert` answers.

## 5 Where code and its comments disagree

Each is a run that ends in a violation.

* `segments`: `driver.h:274` says addresses are allocated to segments. A
  read-write buffer asked for after kernel memory and a read-only buffer is
  placed behind the kernel buffer, in the kernel segment (`driver.h:319`).
* `paddr`: `driver.h:225` says the physical address is assigned to the item.
  `alloc_local_mem` (`driver.h:444`) passes (task, kernel) where (kernel,
  context) is taken, so another context's item gets it or the call throws late.
* `single_block`: `processor.h:87` says `run` runs a single block. With a device
  whose ready is up beforehand, the request is taken in two clock edges.
* `mmu_full`: `MMUTests.v:2435` reports a complete translation for every answer
  the host takes. LastLevelPTW frees the first finished entry (`deq_ptr`, line
  1478), not the one its round-robin arbiter sent. With three requests open this
  never matters (`AnswersAreRight`); with four and
  answers refused until two entries are finished, one is answered twice and
  another never; the second answer then meets a new request with the same id.
  The run searches `BusySpec`, some of the behaviours of `MMUSpec`, with the
  four entries and ids of the RTL.

Three more need no model to be seen and have no run. Both copies of `vt_memcopy`
leave their switch and run into the `unreachable()` at `ventus.cc:149`, so every
successful copy throws after it moved the data (`ret = "unreachable"`).
`delete_device_mem` tests the wrong way round (`driver.h:413`): it throws for a
context that exists. `release` clears no page table entry (`memory.h:210`), so
`clean_pt` frees only what a failed `allocate` left behind.

Two more are part of a model as they are in the code. `all_context_finished`
never advances its iterator (`driver.h:659`): `execute_all_kernel` looks at the
first context only and spins once that has no unfinished kernel (`Spin`,
`ExecuteReturns`). `vt_upload_kernel_bytes` advances by words where bytes are
meant (`ventus.cc:194`): behind the first chunk's program everything it copies
comes from elsewhere (`JunkWord`, `ProgramAtPc`).

## 6 What is not modelled

* `src/basic`, logging, build files: no behaviour beyond throwing.
* `vt_release` deletes the address of the handle as if it were the driver, which
  is undefined and after which nothing follows; `vt_dev_caps` answers constants.
  The tests for null handles and sizes of 0 in `ventus.cc` only throw.
* The copy constructor of `PhysicalMemory`, `findVaByPa` and `findKernelID`:
  no caller, or no change of state.
* What kernels store at the fixed pds and csr bases that `start` hands them
  (`driver.h:555`), inside the kernel segment: it depends on the kernel.
* Of the memory controller: the size of a request, which is copied from its
  opcode (`processor.h:148`), and the words beyond the first. The bundles have
  room for two (`memory.h:322`) while eight are copied (`processor.h:152`): an
  overrun the model does not see. The number a request left over from power-up
  has is 0, which no other has.
* A start in a context that was not created (`driver.h:529`): it throws before
  it does anything.
* Of the MMU: the width of addresses (at the port a table address is cut to 32
  bits, line 2421), the permission bits, and the dispatch fields MMUtest ignores.
* `GPGPU_top` is external: a nondeterministic device under stated assumptions.

## 7 Plan

1. Done: RAM, page tables, address manager, driver, driver and kernels over one
   memory, dispatch with `execute_all_kernel`, memory controller, MMU, and the
   MMU over the driver's tables, with their runs; theorems about the RAM, the
   page tables, the address manager, the driver with its kernels, the
   dispatcher, the memory controller and the MMU.
2. A theorem for `TranslatesLikeDriver`, from `TranslatesRight` and the lemmas
   about what three look-ups find in tables that `allocate` built.
3. Perhaps: `Driver` with tables of more than two entries, if TLC allows.
