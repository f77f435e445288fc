------------------------------- MODULE Driver --------------------------------
(***************************************************************************)
(* The memory half of class Driver (src/driver.h) and of the C interface   *)
(* over it (src/ventus.cc): contexts, buffers, copies and kernel images.   *)
(* It composes addr::Manager (AddressManager.tla) with the page tables and *)
(* the RAM (PageTables.tla, PhysicalMemory.tla).                           *)
(*                                                                         *)
(* One unit of the address manager is one word of a page.  VT_ERROR throws *)
(* and no caller catches, so a call that meets an error ends there and     *)
(* keeps what it has changed: ret = "throw".  ret = "unreachable" is the   *)
(* throw of the unreachable() macro at the end of vt_memcopy.              *)
(*   root   m_ctx_lst_: the page table root of every registered context    *)
(*   view   what downloads of all granted buffers would find now; it only  *)
(*          repeats Arrays below, for the refinement to look at            *)
(***************************************************************************)
EXTENDS PageTables, AddressManager

CONSTANTS
  CHUNK,       \* buffer_transfer_size of vt_upload_kernel_bytes, in words
  ImageWords,  \* kernel images, each one word over and over
  JunkWord,    \* what an upload reads outside the part of the image it means
  Types,       \* types of the buffers asked for
  Sizes,       \* sizes asked for, in words
  ImageSizes,  \* sizes of kernel images, in words of their text
  UploadFrom   \* bound: copies start at these words and run to the end

ASSUME DriverAssumption ==
  /\ PAGESIZE = PageElem
  /\ Contexts \subseteq Nat /\ 0 \in Contexts
  /\ CHUNK \in Nat \ {0} /\ CHUNK % PAGESIZE = 0
  /\ ImageWords \subseteq Words \ {0} /\ JunkWord \in Words \ (ImageWords \cup {0})
  /\ Types \subseteq BufferType
  /\ Sizes \subseteq Nat /\ ImageSizes \subseteq Nat \ {0}
  /\ Reserved < MaxRange
  /\ BUF_PARA_END \div PAGESIZE <= PageElem * PageElem * PageElem

VARIABLES root, ret, view

dVars == <<pm, mng, granted, root, ret, view>>

(* A granted buffer word by word, read through the page tables.            *)
ArrayOf(c, g) == [i \in 1 .. g.size |-> ReadVirt(pm, root[c], g.vaddr + i - 1)]
Arrays == [c \in DOMAIN granted |-> [k \in 1 .. Len(granted[c]) |-> ArrayOf(c, granted[c][k])]]

(* Seeded bug: sizes are rounded down to pages.                            *)
NumFullPages(n) == n \div PAGESIZE

NumPages(n) == (n + PAGESIZE - 1) \div PAGESIZE

(* The state a call threads through its steps.                             *)
Now == [pm |-> pm, mng |-> mng, granted |-> granted, ret |-> "ok"]
Becomes(s) == /\ pm' = s.pm /\ mng' = s.mng /\ granted' = s.granted /\ ret' = s.ret
Throws(s) == [s EXCEPT !.ret = "throw"]

-----------------------------------------------------------------------------
(* alloc_local_mem behind vt_malloc.  attachPaddr takes (kernelID,         *)
(* contextID) and is called with (taskID, kernelID): the list it searches  *)
(* is that of the context whose ID is the kernel's.                        *)
AllocLocalMem(s, c, k, n, type) ==
  LET v == GrantedVaddr(s.mng, c, n, type)
      listed == [s EXCEPT !.mng = AllocMemory(@, c, n, type)]
      Built(x, r) ==
        IF r.pa = 0 \/ ItemsAt(x.mng, k, v) = {} THEN Throws([x EXCEPT !.pm = r.m])
        ELSE [x EXCEPT
                !.pm = r.m,
                !.mng = AttachPaddr(@, k, v, r.pa),
                !.granted[c] = Append(@, [type |-> type, vaddr |-> v, size |-> n])]
  IN  IF v = 0 THEN Throws(s)
      ELSE Built(listed, Allocate(s.pm, root[c], v \div PAGESIZE, NumPages(n), "crash"))

(* free_local_mem behind vt_free.                                          *)
FreeLocalMem(s, c, v) ==
  LET page == v \div PAGESIZE
      dropped == [s EXCEPT !.mng = ReleaseMemory(@, c, v)]
  IN  IF ItemsAt(s.mng, c, v) = {} THEN Throws(s)
      ELSE IF ~ReleaseOk(s.pm, root[c], page) THEN Throws(dropped)
      ELSE [dropped EXCEPT
              !.pm = Release(@, root[c], page),
              !.granted[c] = RemoveAt(@, CHOOSE k \in 1 .. Len(@) : @[k].vaddr = v)]

(* upload, the words a .. a + len - 1 of a context becoming w.             *)
UploadWords(s, c, a, len, w) ==
  LET Result(r) == IF r.ok THEN [s EXCEPT !.pm = r.m] ELSE Throws([s EXCEPT !.pm = r.m])
  IN  Result(WriteVirt(s.pm, root[c], a, len, w))

(* vt_upload_kernel_bytes: chunk after chunk, each into a kernel memory    *)
(* buffer of its own, for kernel 0.  The size counts the text, of which a  *)
(* word of program takes two.  The copy takes words where it means bytes   *)
(* (ventus.cc:194), so only the first chunk is filled from its place in    *)
(* the program, as far as that goes; the rest of it and all later chunks   *)
(* come from elsewhere.                                                    *)
ProgramWords(size) == IF size \div 2 < CHUNK THEN size \div 2 ELSE CHUNK

(* Seeded bug: every image goes where the message of the code says, to the *)
(* base of the segment.                                                    *)
UploadChunkAtBase(s, c, size, image, i) ==
  LET v == BUF_PARA_BASE
      left == size - (i - 1) * CHUNK
      Fill(x) ==
        IF x.ret = "throw" THEN x
        ELSE UploadWords(x, c, v, IF left < CHUNK THEN left ELSE CHUNK, JunkWord)
      Program(x) ==
        IF x.ret = "throw" \/ i # 1 THEN x
        ELSE UploadWords(x, c, v, ProgramWords(size), image)
  IN  IF s.ret = "throw" THEN s
      ELSE Program(Fill(AllocLocalMem(s, c, 0, CHUNK, "KERNEL_MEM")))

UploadChunk(s, c, size, image, i) ==
  LET v == GrantedVaddr(s.mng, c, CHUNK, "KERNEL_MEM")
      left == size - (i - 1) * CHUNK
      Fill(x) ==
        IF x.ret = "throw" THEN x
        ELSE UploadWords(x, c, v, IF left < CHUNK THEN left ELSE CHUNK, JunkWord)
      Program(x) ==
        IF x.ret = "throw" \/ i # 1 THEN x
        ELSE UploadWords(x, c, v, ProgramWords(size), image)
  IN  IF s.ret = "throw" THEN s
      ELSE Program(Fill(AllocLocalMem(s, c, 0, CHUNK, "KERNEL_MEM")))

UploadImage(s, c, size, image) ==
  LET chunks == (size + CHUNK - 1) \div CHUNK
      After[i \in 0 .. chunks] ==
        IF i = 0 THEN s ELSE UploadChunk(After[i - 1], c, size, image, i)
  IN  After[chunks]

-----------------------------------------------------------------------------
(* vt_set_device builds the driver and asks for context 0, whose root it   *)
(* does not check.                                                         *)
DInit ==
  /\ pm = InsertBlock(InitialMemory, Usable(InitialMemory, 1), 1, "crash")
  /\ mng = [c \in {0} |-> << >>]
  /\ granted = [c \in {0} |-> << >>]
  /\ root = [c \in {0} |-> Usable(InitialMemory, 1)]
  /\ ret = "ok"
  /\ view = Arrays

(* create_device_mem: without a page for the root it answers 1, but the    *)
(* context stays registered, with root 0.                                  *)
CreateDeviceMem(c) ==
  IF c \in DOMAIN root
  THEN ret' = "throw" /\ UNCHANGED <<pm, mng, granted, root>>
  ELSE /\ pm' = CreateRootPt(pm, "crash")
       /\ mng' = CreateNewContext(mng, c)
       /\ root' = [d \in DOMAIN root \cup {c} |-> IF d = c THEN Usable(pm, 1) ELSE root[d]]
       /\ ret' = IF Usable(pm, 1) = 0 THEN "fail" ELSE "ok"
       /\ granted' = IF Usable(pm, 1) = 0 THEN granted ELSE CreateNewContext(granted, c)

(* Seeded bug: the context goes, its list of buffers stays.                *)
DeleteDeviceMemOnly(c) ==
  /\ ret' = IF c \in DOMAIN root THEN "ok" ELSE "throw"
  /\ root' = [d \in DOMAIN root \ {c} |-> root[d]]
  /\ UNCHANGED <<pm, mng, granted>>

(* delete_device_mem: the test is inverted, so a context that exists makes *)
(* it throw and one that does not is erased to no effect.                  *)
DeleteDeviceMem(c) ==
  /\ ret' = IF c \in DOMAIN root THEN "throw" ELSE "ok"
  /\ UNCHANGED <<pm, mng, granted, root>>

Malloc(c, k, n, type) ==
  /\ Len(granted[c]) < MaxItems
  /\ Becomes(AllocLocalMem(Now, c, k, n, type))
  /\ UNCHANGED root

FreeBuffer(c, v) == Becomes(FreeLocalMem(Now, c, v)) /\ UNCHANGED root

UploadKernel(c, size, image) ==
  /\ Len(granted[c]) < MaxItems
  /\ Becomes(UploadImage(Now, c, size, image))
  /\ UNCHANGED root

(* vt_memcopy: both copies leave the switch and run into unreachable().    *)
CopyToDevice(c, a, len, w) ==
  LET s == UploadWords(Now, c, a, len, w)
  IN  Becomes([s EXCEPT !.ret = IF @ = "ok" THEN "unreachable" ELSE @]) /\ UNCHANGED root

CopyFromDevice(c, a, len) ==
  /\ ret' = IF ReadVirtOk(pm, root[c], a, len) THEN "unreachable" ELSE "throw"
  /\ UNCHANGED <<pm, mng, granted, root>>

(* The client uses contexts it was told exist, stays inside its buffers,   *)
(* frees only what it holds, asks for kernel memory last in a context (see *)
(* AddressManager.tla) and copies nothing over the place kernels start at. *)
(* Behaviours end when the insertion cursor dangles: what happens then is  *)
(* in PhysicalMemory.tla.                                                  *)
Live == ~pm.crashed /\ pm.cur # 0

KernelAsked(c) ==
  c \in DOMAIN mng /\ \E item \in ToSet(mng[c]) : item.vaddr >= BUF_PARA_BASE

Copies(c, g) ==
  \E i \in UploadFrom \cap 0 .. g.size - 1 :
    \/ \E w \in Words \ ({0, JunkWord} \cup ImageWords) :
         CopyToDevice(c, g.vaddr + i, g.size - i, w)
    \/ CopyFromDevice(c, g.vaddr + i, g.size - i)

Calls ==
  \/ \E c \in Contexts : CreateDeviceMem(c) \/ DeleteDeviceMem(c)
  \/ \E c \in DOMAIN granted :
       \/ \E k \in Contexts, n \in Sizes, type \in Types :
            (KernelAsked(c) => type = "KERNEL_MEM") /\ Malloc(c, k, n, type)
       \/ \E g \in ToSet(granted[c]) : 
            \/ FreeBuffer(c, g.vaddr)
            \/ g.vaddr # BUF_PARA_BASE /\ Copies(c, g)

Uploads == \E c \in DOMAIN granted, size \in ImageSizes, image \in ImageWords :
             UploadKernel(c, size, image)

DNext == Live /\ (Calls \/ Uploads) /\ view' = Arrays'

DSpec == DInit /\ [][DNext]_dVars

-----------------------------------------------------------------------------
(* Contexts, roots and results are well typed.                             *)
DTypeOK ==
  /\ DOMAIN mng \subseteq DOMAIN root /\ DOMAIN granted \subseteq DOMAIN root
  /\ DOMAIN root \subseteq Contexts
  /\ \A c \in DOMAIN root : root[c] \in 0 .. MaxRange
  /\ ret \in {"ok", "fail", "throw", "unreachable"}

(* A copy inside a granted buffer never meets an unmapped page, and two    *)
(* contexts never reach one physical page through their buffers.           *)
BufferPages(c, g) ==
  {Convert(pm, root[c], v) : v \in g.vaddr \div PAGESIZE .. (g.vaddr + g.size - 1) \div PAGESIZE}
BuffersReachable ==
  \A c, d \in DOMAIN granted : \A i \in 1 .. Len(granted[c]), j \in 1 .. Len(granted[d]) :
    LET g == granted[c][i]  h == granted[d][j]
    IN  /\ BufferPages(c, g) \subseteq DOMAIN pm.pages
        /\ Cardinality(BufferPages(c, g)) = NumPages(g.size)
        /\ <<c, i>> # <<d, j>> => BufferPages(c, g) \cap BufferPages(d, h) = {}

(* driver.h:225 "assign physical address to item": the item of a granted   *)
(* buffer carries the physical address the buffer was given.               *)
PaddrAssigned ==
  \A c \in DOMAIN granted \cap DOMAIN mng : \A g \in ToSet(granted[c]) :
    \E item \in ToSet(mng[c]) :
      /\ item.vaddr = g.vaddr
      /\ item.paddr = Convert(pm, root[c], g.vaddr \div PAGESIZE)
=============================================================================
