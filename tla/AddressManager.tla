---------------------------- MODULE AddressManager ---------------------------
(***************************************************************************)
(* class addr::Manager of src/driver.h: for every context a list of the    *)
(* virtual buffers it holds, and the choice of a virtual address in one of *)
(* three segments for the next one.                                        *)
(*                                                                         *)
(* Addresses and sizes count units of BLOCK_SIZE (64 bytes), the grain     *)
(* allocMemory rounds a size up to.  A list of Items doubly linked by      *)
(* pointers is a sequence.  mng maps the contexts in m_cxt_mem_ to their   *)
(* lists; granted is what the callers were told, in order, and belongs to  *)
(* them: the code keeps no such record.                                    *)
(***************************************************************************)
EXTENDS Naturals, Sequences, FiniteSets, SequencesExt

CONSTANTS
  Contexts,
  PAGESIZE,                                        \* units of a page
  RODATA_BASE, RWDATA_BASE, BUF_PARA_BASE,         \* segment bases
  BUF_PARA_END,                                    \* + GLOBALMEM_SIZE / 2
  MaxSize,     \* bound: largest size asked for
  MaxItems     \* bound: buffers granted to a context

OnPage(a) == a % PAGESIZE = 0

ASSUME SegmentAssumption ==
  /\ PAGESIZE \in Nat \ {0}
  /\ RODATA_BASE \in Nat /\ RWDATA_BASE \in Nat
  /\ BUF_PARA_BASE \in Nat /\ BUF_PARA_END \in Nat
  /\ 0 < RODATA_BASE /\ RODATA_BASE < RWDATA_BASE
  /\ RWDATA_BASE < BUF_PARA_BASE /\ BUF_PARA_BASE < BUF_PARA_END
  /\ RWDATA_BASE - RODATA_BASE <= BUF_PARA_BASE - RWDATA_BASE
  /\ OnPage(RODATA_BASE) /\ OnPage(RWDATA_BASE) /\ OnPage(BUF_PARA_BASE) /\ OnPage(BUF_PARA_END)
  /\ MaxSize \in Nat /\ MaxItems \in Nat

VARIABLES mng, granted

amVars == <<mng, granted>>

-----------------------------------------------------------------------------
BufferType == {"READ_WRITE", "READ_ONLY", "KERNEL_MEM"}

SegmentBase(type) ==
  CASE type = "READ_ONLY"  -> RODATA_BASE
    [] type = "READ_WRITE" -> RWDATA_BASE
    [] type = "KERNEL_MEM" -> BUF_PARA_BASE

SegmentEnd(type) ==
  CASE type = "READ_ONLY"  -> RWDATA_BASE
    [] type = "READ_WRITE" -> BUF_PARA_BASE
    [] type = "KERNEL_MEM" -> BUF_PARA_END

(* The largest size is one less than this.                                 *)
SizeLimit(type) ==
  IF type = "KERNEL_MEM" THEN BUF_PARA_END - BUF_PARA_BASE ELSE RWDATA_BASE - RODATA_BASE

(* aligned_size(x, PAGESIZE) of processor.h.                               *)
PageUp(x) == (x + PAGESIZE - 1) - ((x + PAGESIZE - 1) % PAGESIZE)

(* paddr is not initialised by the constructor: 0 stands for "no page".    *)
Item(v, n) == [vaddr |-> v, size |-> n, paddr |-> 0]
(* Seeded bug: the next buffer starts right behind, inside the same page.  *)
BehindInPage(item) == item.vaddr + item.size

Behind(item) == PageUp(item.vaddr + item.size)

-----------------------------------------------------------------------------
(* allocVaddr.  The answer is the position whose item the new one follows  *)
(* and the address; vaddr 0 is the thrown "No enough space!".              *)
Spot(k, v) == [pos |-> k, vaddr |-> v]
NoSpot == Spot(0, 0)

(* The gap search of all three segments: on from an item until one starts  *)
(* at the limit, is the last, or leaves enough room behind it.             *)
GapFrom(l, from, limit, n) ==
  Min({k \in from .. Len(l) : \/ k = Len(l)
                              \/ l[k].vaddr >= limit
                              \/ Behind(l[k]) + n <= l[k + 1].vaddr})

(* Seeded bug: a buffer may not end with its segment.                      *)
ReadOnlySpotShort(l, n) ==
  LET k == GapFrom(l, 1, RWDATA_BASE, n)
      v == Behind(l[k])
  IN  IF l[1].vaddr # RODATA_BASE THEN Spot(1, RODATA_BASE)
      ELSE IF /\ k = Len(l) \/ l[k + 1].vaddr >= RWDATA_BASE
              /\ v + n >= RWDATA_BASE
      THEN NoSpot ELSE Spot(k, v)

ReadOnlySpot(l, n) ==
  LET k == GapFrom(l, 1, RWDATA_BASE, n)
      v == Behind(l[k])
  IN  IF l[1].vaddr # RODATA_BASE THEN Spot(1, RODATA_BASE)
      ELSE IF /\ k = Len(l) \/ l[k + 1].vaddr >= RWDATA_BASE
              /\ v + n > RWDATA_BASE
      THEN NoSpot ELSE Spot(k, v)

(* Seeded bug: the end of the segment is not looked at.                    *)
LaterSpotUnlimited(l, earlier, base, limit, n) ==
  LET above == {k \in 1 .. Len(l) : l[k].vaddr >= base}
      from == IF l[1].vaddr \in earlier THEN Min(above) ELSE 1
      k == GapFrom(l, from, limit, n)
  IN  IF l[1].vaddr \in earlier /\ above = {} THEN Spot(Len(l), base)
      ELSE Spot(k, Behind(l[k]))

(* READ_WRITE and KERNEL_MEM: when the list starts in an earlier segment,  *)
(* go to the first item at or above the base first.                        *)
LaterSpot(l, earlier, base, limit, n) ==
  LET above == {k \in 1 .. Len(l) : l[k].vaddr >= base}
      from == IF l[1].vaddr \in earlier THEN Min(above) ELSE 1
      k == GapFrom(l, from, limit, n)
      v == Behind(l[k])
  IN  IF l[1].vaddr \in earlier /\ above = {} THEN Spot(Len(l), base)
      ELSE IF k = Len(l) /\ v + n > limit THEN NoSpot
      ELSE Spot(k, v)

AllocVaddr(l, n, type) ==
  CASE type = "READ_ONLY"  -> ReadOnlySpot(l, n)
    [] type = "READ_WRITE" ->
         LaterSpot(l, {RODATA_BASE}, RWDATA_BASE, BUF_PARA_BASE, n)
    [] type = "KERNEL_MEM" ->
         LaterSpot(l, {RODATA_BASE, RWDATA_BASE}, BUF_PARA_BASE, BUF_PARA_END, n)

(* Seeded bug: the new item always follows the one it was placed by.       *)
InsertNewItemBehind(l, k, item) == InsertAt(l, k + 1, item)

InsertNewItem(l, k, item) ==
  IF item.vaddr = RODATA_BASE /\ l[k].vaddr = RWDATA_BASE
  THEN <<item>> \o l
  ELSE InsertAt(l, k + 1, item)

(* Seeded bug: a size of 0 is not refused.                                 *)
GrantedVaddrOfNothing(m, c, n, type) ==
  IF c \notin DOMAIN m \/ n >= SizeLimit(type) THEN 0
  ELSE IF m[c] = << >> THEN SegmentBase(type)
  ELSE AllocVaddr(m[c], n, type).vaddr

(* allocMemory: the address granted (0 for a throw) and the map after it.  *)
GrantedVaddr(m, c, n, type) ==
  IF n = 0 \/ c \notin DOMAIN m \/ n >= SizeLimit(type) THEN 0
  ELSE IF m[c] = << >> THEN SegmentBase(type)
  ELSE AllocVaddr(m[c], n, type).vaddr

AllocMemory(m, c, n, type) ==
  LET Listed(v) ==
        IF v = 0 THEN m
        ELSE IF m[c] = << >> THEN [m EXCEPT ![c] = << Item(v, n) >>]
        ELSE [m EXCEPT ![c] = InsertNewItem(@, AllocVaddr(@, n, type).pos, Item(v, n))]
  IN  Listed(GrantedVaddr(m, c, n, type))

(* The first item of a context at an address, as all list walks find it.   *)
ItemsAt(m, c, v) ==
  IF c \in DOMAIN m THEN {k \in 1 .. Len(m[c]) : m[c][k].vaddr = v} ELSE {}

(* Seeded bug: only the item is unlinked.                                  *)
ReleaseMemoryUnlinking(m, c, v) ==
  IF ItemsAt(m, c, v) = {} THEN m ELSE [m EXCEPT ![c] = RemoveAt(@, Min(ItemsAt(m, c, v)))]

(* releaseMemory unlinks the item and then erases the whole context; the   *)
(* links of its other items are lost with it.                              *)
ReleaseMemory(m, c, v) ==
  IF ItemsAt(m, c, v) = {} THEN m ELSE [d \in DOMAIN m \ {c} |-> m[d]]

AttachPaddr(m, c, v, pa) ==
  IF ItemsAt(m, c, v) = {} THEN m ELSE [m EXCEPT ![c][Min(ItemsAt(m, c, v))].paddr = pa]

CreateNewContext(m, c) == [d \in DOMAIN m \cup {c} |-> IF d = c THEN << >> ELSE m[d]]

-----------------------------------------------------------------------------
AMInit ==
  /\ mng = [c \in {} |-> << >>]
  /\ granted = [c \in {} |-> << >>]

(* Driver::create_device_mem never asks twice for one context.             *)
Create(c) ==
  /\ c \notin DOMAIN granted
  /\ mng' = CreateNewContext(mng, c)
  /\ granted' = CreateNewContext(granted, c)

Alloc(c, n, type) ==
  /\ Len(granted[c]) < MaxItems
  /\ mng' = AllocMemory(mng, c, n, type)
  /\ LET v == GrantedVaddr(mng, c, n, type)
         grant == [type |-> type, vaddr |-> v, size |-> n]
     IN  granted' = IF v = 0 THEN granted ELSE [granted EXCEPT ![c] = Append(@, grant)]

Free(c, v) ==
  /\ ItemsAt(mng, c, v) # {}
  /\ mng' = ReleaseMemory(mng, c, v)
  /\ granted' = [granted EXCEPT ![c] = RemoveAt(@, CHOOSE k \in 1 .. Len(@) : @[k].vaddr = v)]

AMNext ==
  \/ \E c \in Contexts : Create(c)
  \/ \E c \in DOMAIN granted :
       \/ \E n \in 0 .. MaxSize, type \in BufferType : Alloc(c, n, type)
       \/ \E g \in ToSet(granted[c]) : Free(c, g.vaddr)

AMSpec == AMInit /\ [][AMNext]_amVars

(* A client that asks for kernel memory last in every context: once it has *)
(* some, it asks for no other type there.                                  *)
HasKernelMem(c) == \E k \in 1 .. Len(granted[c]) : granted[c][k].type = "KERNEL_MEM"

KernelLastNext ==
  \/ \E c \in Contexts : Create(c)
  \/ \E c \in DOMAIN granted :
       \/ \E n \in 0 .. MaxSize, type \in BufferType :
            (HasKernelMem(c) => type = "KERNEL_MEM") /\ Alloc(c, n, type)
       \/ \E g \in ToSet(granted[c]) : Free(c, g.vaddr)

KernelLastSpec == AMInit /\ [][KernelLastNext]_amVars

-----------------------------------------------------------------------------
(* Lists and grants are well typed, and no context is listed that was not  *)
(* created.                                                                *)
AMTypeOK ==
  /\ DOMAIN granted \subseteq Contexts
  /\ DOMAIN mng \subseteq DOMAIN granted
  /\ \A c \in DOMAIN mng : mng[c] \in Seq([vaddr : Nat, size : Nat \ {0}, paddr : Nat])
  /\ \A c \in DOMAIN granted :
       granted[c] \in Seq([type : BufferType, vaddr : Nat, size : Nat \ {0}])

(* What allocVaddr is for (driver.h:274): a buffer lies in the segment of  *)
(* its type, whatever the context holds already.                           *)
InSegment(g) ==
  SegmentBase(g.type) <= g.vaddr /\ g.vaddr + g.size <= SegmentEnd(g.type)
GrantsInSegment ==
  \A c \in DOMAIN granted : \A k \in 1 .. Len(granted[c]) : InSegment(granted[c][k])

(* No two buffers of a context share a virtual page: the page tables give  *)
(* a page to one physical page only.                                       *)
PagesOfGrant(g) == g.vaddr \div PAGESIZE .. (g.vaddr + g.size - 1) \div PAGESIZE
GrantsOnOwnPages ==
  \A c \in DOMAIN granted : \A i, j \in 1 .. Len(granted[c]) :
    i # j => PagesOfGrant(granted[c][i]) \cap PagesOfGrant(granted[c][j]) = {}

(* As long as a context is listed, its list is sorted and holds exactly    *)
(* the buffers its client was granted, each once.                          *)
ListHoldsGrants ==
  \A c \in DOMAIN mng :
    /\ \A i, j \in 1 .. Len(mng[c]) : i < j => mng[c][i].vaddr < mng[c][j].vaddr
    /\ Len(mng[c]) = Len(granted[c])
    /\ {<<i.vaddr, i.size>> : i \in ToSet(mng[c])}
         = {<<g.vaddr, g.size>> : g \in ToSet(granted[c])}

(* "No enough space!" is thrown only when no page-aligned address of the   *)
(* segment has room for the buffer.                                        *)
Room(c, n, type) ==
  \E a \in SegmentBase(type) .. SegmentEnd(type) - n :
    /\ OnPage(a)
    /\ \A g \in ToSet(granted[c]) :
         PagesOfGrant(g) \cap PagesOfGrant([vaddr |-> a, size |-> n]) = {}
RefusedOnlyWhenFull ==
  \A c \in DOMAIN mng : \A type \in BufferType : \A n \in 1 .. SizeLimit(type) - 1 :
    /\ HasKernelMem(c) => type = "KERNEL_MEM"
    /\ Room(c, n, type)
    => GrantedVaddr(mng, c, n, type) # 0
=============================================================================
