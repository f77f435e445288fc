---------------------------- MODULE SharedMemory -----------------------------
(***************************************************************************)
(* The two users of device memory at once: the calls of the driver         *)
(* (Driver.tla), which translate with the root of their context, and the   *)
(* kernels running on the device, whose accesses Processor                 *)
(* (src/device/processor.h) translates with one root for the whole device, *)
(* m_root_, set by the last start.                                         *)
(*                                                                         *)
(* An access takes two steps: get_ram_bits_port converts its address and   *)
(* MemController keeps the physical address (m_addr_); a later edge        *)
(* performs it.  The clock runs only inside start and wait, so any number  *)
(* of calls may be made between the two steps.  The controller's own       *)
(* protocol is in MemController.tla, work groups are in                    *)
(* KernelDispatch.tla; here a context runs a kernel or it does not.        *)
(***************************************************************************)
EXTENDS Driver

CONSTANT AccessAt   \* bound: kernels load and store these words of a buffer

(* MaxSize bounds what is asked for, as in AddressManager.tla; images reach *)
(* twice as far, so that they take more than one buffer.                   *)
ASSUME SharedAssumption ==
  /\ Sizes \subseteq 0 .. MaxSize /\ CHUNK <= MaxSize
  /\ ImageSizes \subseteq 1 .. 2 * MaxSize

VARIABLES
  mroot,     \* m_root_
  running,   \* contexts with resident work groups
  latch,     \* the access the controller holds
  program    \* contexts with a program where kernels start: its word, length

smVars == <<dVars, mroot, running, latch, program>>
deviceVars == <<mroot, running, latch>>

-----------------------------------------------------------------------------
(* m_root_ starts as 0x20000000, the first page behind the reserved ones.  *)
SMInit ==
  /\ DInit
  /\ mroot = Reserved
  /\ running = {} /\ latch = << >>
  /\ program = [c \in {} |-> <<0, 0>>]

(* Seeded bug: run() leaves the root of the kernel before.                 *)
StartKernelWithOldRoot(c) ==
  /\ running \subseteq {c} /\ running' = {c}
  /\ UNCHANGED <<dVars, mroot, latch, program>>

(* Driver::start and Processor::run: the root of the context becomes that  *)
(* of the device.  The client starts a kernel only while no other context  *)
(* has one running: the code does not prevent it, and m_root_ is one.      *)
StartKernel(c) ==
  /\ running \subseteq {c} /\ running' = {c}
  /\ mroot' = root[c]
  /\ UNCHANGED <<dVars, latch, program>>

FinishKernel(c) ==
  /\ c \in running /\ latch = << >>
  /\ running' = {}
  /\ UNCHANGED <<dVars, mroot, latch, program>>

(* A load (w = 0) or store of word i of a buffer of the kernel's context;  *)
(* kernels do not write kernel memory.                                     *)
Access(c, g, i, w) ==
  /\ c \in running /\ latch = << >>
  /\ w # 0 => g.type # "KERNEL_MEM"
  /\ latch' = <<[ctx |-> c, word |-> g.vaddr + i, w |-> w,
                 page |-> Convert(pm, mroot, (g.vaddr + i) \div PAGESIZE)]>>
  /\ UNCHANGED <<dVars, mroot, running, program>>

(* The response stage of the controller.                                   *)
Perform ==
  /\ latch # << >>
  /\ LET l == latch[1]
     IN  pm' = IF l.w = 0 THEN pm ELSE WriteData(pm, l.page, {l.word % PAGESIZE}, l.w)
  /\ latch' = << >>
  /\ UNCHANGED <<mng, granted, root, ret, mroot, running, program>>
  /\ view' = Arrays'

(* Calls of the client, also between the steps of a kernel: it frees no    *)
(* buffer of a context that has one running.                               *)
HostCalls ==
  /\ Live /\ Calls /\ view' = Arrays'
  /\ \A c \in running : Len(granted'[c]) >= Len(granted[c])
  /\ UNCHANGED <<deviceVars, program>>

UploadProgram(c, size, image) ==
  /\ Live /\ UploadKernel(c, size, image) /\ view' = Arrays'
  /\ program' = IF ret' = "ok" /\ ~KernelAsked(c)
                THEN [d \in DOMAIN program \cup {c} |->
                        IF d = c THEN <<image, ProgramWords(size)>> ELSE program[d]]
                ELSE program
  /\ UNCHANGED deviceVars

SMNext ==
  \/ HostCalls
  \/ \E c \in DOMAIN granted :
       \/ \E size \in ImageSizes, image \in ImageWords : UploadProgram(c, size, image)
       \/ StartKernel(c) \/ FinishKernel(c)
       \/ \E g \in ToSet(granted[c]) :
            \E i \in AccessAt \cap 0 .. g.size - 1, w \in Words \ ({JunkWord} \cup ImageWords) :
              Access(c, g, i, w)
  \/ Perform

SMSpec == SMInit /\ [][SMNext]_smVars

-----------------------------------------------------------------------------
(* Contexts, roots and results are well typed, and the device runs kernels *)
(* of one context with its root.                                           *)
SMTypeOK ==
  /\ DTypeOK
  /\ running \subseteq DOMAIN granted /\ Cardinality(running) <= 1
  /\ mroot \in {root[c] : c \in DOMAIN root}
  /\ \A c \in running : mroot = root[c]
  /\ latch # << >> => latch[1].ctx \in running

(* Every granted buffer is an array of its own, for the client that reads  *)
(* it through the page tables of its context as for the kernels that reach *)
(* it through m_root_: what was written last is what is read, no call of   *)
(* any context, also one that throws half way, changes another array, and  *)
(* a kernel's store, held back over any number of calls, changes the word  *)
(* it was made for.                                                        *)
PendingAccess ==
  LET Within(l, k) == LET g == granted[l.ctx][k]
                      IN  g.vaddr <= l.word /\ l.word < g.vaddr + g.size
      Of(l, k) == [ctx |-> l.ctx, array |-> k,
                   at |-> l.word - granted[l.ctx][k].vaddr + 1, w |-> l.w]
  IN  [i \in DOMAIN latch |->
         Of(latch[i], CHOOSE k \in DOMAIN granted[latch[i].ctx] : Within(latch[i], k))]

Buffers == INSTANCE DeviceBuffers WITH
             arrays <- view, access <- PendingAccess, Ctxs <- Contexts,
             Values <- Words \ ({0, JunkWord} \cup ImageWords),
             MaxLen <- MaxSize, MaxArrays <- MaxItems, MaxImage <- 2 * MaxSize,
             Images <- ImageWords, Junk <- JunkWord
ImplementsBuffers == Buffers!DBSpec

(* The physical address the controller holds is what the address still     *)
(* means when the access is performed, loads included.                     *)
LatchRight ==
  \A i \in DOMAIN latch :
    LET l == latch[i]
    IN  l.page \in DOMAIN pm.pages /\ l.page = Convert(pm, root[l.ctx], l.word \div PAGESIZE)

(* release leaves the page table entries of a freed buffer valid           *)
(* (memory.h:210).  They are never met again: as long as buffers can be    *)
(* asked for in a context, its tables map pages of listed buffers only.    *)
NoStaleLeaf ==
  \A c \in DOMAIN mng : \A v \in VPages :
    Convert(pm, root[c], v) # 0 =>
      \E item \in ToSet(mng[c]) :
        item.vaddr \div PAGESIZE <= v /\ v <= (item.vaddr + item.size - 1) \div PAGESIZE

(* Kernels start at the fixed pc 0x80000000, BUF_PARA_BASE.  What they     *)
(* find there through m_root_ is the first program uploaded to their       *)
(* context, whatever was uploaded after it and in other contexts.          *)
ProgramAtPc ==
  \A c \in running \cap DOMAIN program :
    (\E g \in ToSet(granted[c]) : g.vaddr = BUF_PARA_BASE) =>
      \A i \in 0 .. program[c][2] - 1 : ReadVirt(pm, mroot, BUF_PARA_BASE + i) = program[c][1]
=============================================================================
