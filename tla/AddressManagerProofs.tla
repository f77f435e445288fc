------------------------ MODULE AddressManagerProofs -------------------------
(***************************************************************************)
(* What addr::Manager promises a client that asks for kernel memory last,  *)
(* for every number of contexts and buffers, every layout of the three     *)
(* segments and every page size the assumption allows.                     *)
(*                                                                         *)
(* The argument has four layers: the arithmetic of aligned_size and of     *)
(* page numbers; what allocVaddr answers for a list (Good) and what        *)
(* insertNewItem makes of it (Listing); what the client's grants look like *)
(* (Granting) and how they go with the list (Matches); and the inductive   *)
(* invariant Placed, from which the properties follow.                     *)
(***************************************************************************)
EXTENDS AddressManager, ListFacts

(* An address on a page boundary.                                          *)
Aligned(v) == \E q \in Nat : v = q * PAGESIZE

-----------------------------------------------------------------------------
(* Multiples of the page size are ordered as their factors are.            *)
LEMMA PageSteps ==
  ASSUME NEW a \in Int, NEW b \in Int, NEW P \in Nat \ {0}, a * P < (b + 1) * P
  PROVE  a <= b
<1> SUFFICES ASSUME b + 1 <= a PROVE FALSE
  OBVIOUS
<1>1. (b + 1) * P <= a * P
  OBVIOUS
<1> QED
  BY <1>1

(* A number is its page's start and a rest.                                *)
LEMMA PageOf ==
  ASSUME NEW x \in Nat, NEW P \in Nat \ {0}
  PROVE  /\ x \div P \in Nat /\ x % P \in 0 .. P - 1
         /\ x = (x \div P) * P + (x % P)
  OBVIOUS

(* aligned_size: the least page boundary at or behind an address.          *)
LEMMA PageUpFacts ==
  ASSUME NEW x \in Nat
  PROVE  /\ PageUp(x) \in Nat /\ x <= PageUp(x) /\ Aligned(PageUp(x))
         /\ \A y \in Nat : Aligned(y) /\ x <= y => PageUp(x) <= y
<1> DEFINE z == x + PAGESIZE - 1
           r == z \div PAGESIZE
<1>1. PAGESIZE \in Nat \ {0} /\ z \in Nat
  BY SegmentAssumption
<1> HIDE DEF z
<1>2. r \in Nat /\ z % PAGESIZE \in 0 .. PAGESIZE - 1 /\ z = r * PAGESIZE + (z % PAGESIZE)
  BY <1>1, PageOf
<1> HIDE DEF r
<1>3. PageUp(x) = z - (z % PAGESIZE)
  BY DEF PageUp, z
<1>4. r * PAGESIZE \in Nat
  BY <1>1, <1>2
<1>5. PageUp(x) = r * PAGESIZE
  BY <1>1, <1>2, <1>3, <1>4
<1>6. x <= PageUp(x)
  BY <1>1, <1>2, <1>3 DEF z
<1>7. ASSUME NEW y \in Nat, Aligned(y), x <= y
      PROVE  PageUp(x) <= y
  <2>1. PICK q \in Nat : y = q * PAGESIZE
    BY <1>7 DEF Aligned
  <2>2. r * PAGESIZE <= x + PAGESIZE - 1
    BY <1>1, <1>2, <1>4 DEF z
  <2>3. (q + 1) * PAGESIZE = q * PAGESIZE + PAGESIZE
    BY <1>1
  <2>4. r * PAGESIZE < (q + 1) * PAGESIZE
    BY <1>1, <1>4, <1>7, <2>1, <2>2, <2>3
  <2>5. r <= q
    BY <1>1, <1>2, <2>4, PageSteps
  <2> QED
    BY <1>1, <1>2, <1>5, <2>1, <2>5
<1> QED
  BY <1>2, <1>4, <1>5, <1>6, <1>7 DEF Aligned

(* The last of n units from v on.                                          *)
LEMMA LastUnit ==
  ASSUME NEW v \in Nat, NEW n \in Nat \ {0}
  PROVE  /\ v + n \in Nat /\ v + n - 1 \in Nat /\ v <= v + n - 1
         /\ \A b \in Nat : v + n <= b => v < b /\ v + n - 1 < b
         /\ \A b \in Nat : b <= v + n - 1 \/ v + n <= b
OBVIOUS

(* What lies before a page boundary is on an earlier page.                 *)
LEMMA PagesApart ==
  ASSUME NEW x \in Nat, NEW b \in Nat, x < b, Aligned(b)
  PROVE  x \div PAGESIZE < b \div PAGESIZE
<1>1. PAGESIZE \in Nat \ {0}
  BY SegmentAssumption
<1>2. PICK q \in Nat : b = q * PAGESIZE
  BY DEF Aligned
<1> DEFINE r == x \div PAGESIZE
           t == b \div PAGESIZE
<1>3. r \in Nat /\ x % PAGESIZE \in 0 .. PAGESIZE - 1 /\ x = r * PAGESIZE + (x % PAGESIZE)
  BY <1>1, PageOf
<1>4. t \in Nat /\ b % PAGESIZE \in 0 .. PAGESIZE - 1 /\ b = t * PAGESIZE + (b % PAGESIZE)
  BY <1>1, PageOf
<1> HIDE DEF r, t
<1>5. r * PAGESIZE \in Nat /\ t * PAGESIZE \in Nat /\ q * PAGESIZE \in Nat
  BY <1>1, <1>2, <1>3, <1>4
<1>6. (t + 1) * PAGESIZE = t * PAGESIZE + PAGESIZE
  BY <1>1, <1>4
<1>7. q <= t
  <2>1. q * PAGESIZE < (t + 1) * PAGESIZE
    BY <1>1, <1>2, <1>4, <1>5, <1>6
  <2> QED
    BY <1>1, <1>2, <1>4, <2>1, PageSteps
<1>8. r <= q - 1
  <2>1. r * PAGESIZE < (q - 1 + 1) * PAGESIZE
    BY <1>1, <1>2, <1>3, <1>5
  <2> QED
    BY <1>1, <1>2, <1>3, <2>1, PageSteps
<1> QED
  BY <1>2, <1>3, <1>4, <1>7, <1>8 DEF r, t

-----------------------------------------------------------------------------
(* The shapes of a list item and of a grant, and the segment bases.        *)
ItemType == [vaddr : Nat, size : Nat \ {0}, paddr : Nat]
GrantType == [type : BufferType, vaddr : Nat, size : Nat \ {0}]
Bases == {RODATA_BASE, RWDATA_BASE, BUF_PARA_BASE}

(* A buffer lies in the segment of a type; a segment is used from its base.*)
Within(x, type) == SegmentBase(type) <= x.vaddr /\ x.vaddr + x.size <= SegmentEnd(type)

Headed(l, type) == \E j \in 1 .. Len(l) : l[j].vaddr = SegmentBase(type)

(* What every list of buffers is: it starts at the base of a segment, no   *)
(* buffer crosses the end of a segment, a segment in use is used from its  *)
(* base on, and each buffer starts on a page behind the last page of the   *)
(* one before.                                                             *)
Listing(l) ==
  /\ l \in Seq(ItemType)
  /\ l # << >> => l[1].vaddr \in Bases
  /\ \A i \in 1 .. Len(l) : Aligned(l[i].vaddr) /\ \E type \in BufferType : Within(l[i], type)
  /\ \A i \in 1 .. Len(l), type \in BufferType : Within(l[i], type) => Headed(l, type)
  /\ \A i, j \in 1 .. Len(l) : i < j => Behind(l[i]) <= l[j].vaddr

(* A buffer of n units at v belongs at position p.                         *)
Slot(l, p, v, n) ==
  /\ p \in 1 .. Len(l) + 1
  /\ \A i \in 1 .. p - 1 : Behind(l[i]) <= v
  /\ \A i \in p .. Len(l) : PageUp(v + n) <= l[i].vaddr

(* Aligned without a quantifier, as the specification says it.             *)
LEMMA AlignedByRest ==
  ASSUME NEW b \in Nat, OnPage(b)
  PROVE  Aligned(b)
<1>1. b \div PAGESIZE \in Nat /\ b = (b \div PAGESIZE) * PAGESIZE + (b % PAGESIZE)
  BY SegmentAssumption, PageOf
<1>2. (b \div PAGESIZE) * PAGESIZE \in Nat
  BY <1>1, SegmentAssumption
<1>3. b = (b \div PAGESIZE) * PAGESIZE
  BY <1>1, <1>2 DEF OnPage
<1> QED
  BY <1>1, <1>3 DEF Aligned

(* The three segments, one behind the other.                               *)
LEMMA SegmentFacts ==
  /\ RODATA_BASE \in Nat /\ RWDATA_BASE \in Nat /\ BUF_PARA_BASE \in Nat /\ BUF_PARA_END \in Nat
  /\ 0 < RODATA_BASE /\ RODATA_BASE < RWDATA_BASE
  /\ RWDATA_BASE < BUF_PARA_BASE /\ BUF_PARA_BASE < BUF_PARA_END
  /\ RWDATA_BASE - RODATA_BASE <= BUF_PARA_BASE - RWDATA_BASE
  /\ Aligned(RODATA_BASE) /\ Aligned(RWDATA_BASE) /\ Aligned(BUF_PARA_BASE) /\ Aligned(BUF_PARA_END)
BY SegmentAssumption, AlignedByRest

(* The segment of each type, read off.                                     *)
LEMMA SegmentValues ==
  /\ SegmentBase("READ_ONLY") = RODATA_BASE /\ SegmentEnd("READ_ONLY") = RWDATA_BASE
  /\ SegmentBase("READ_WRITE") = RWDATA_BASE /\ SegmentEnd("READ_WRITE") = BUF_PARA_BASE
  /\ SegmentBase("KERNEL_MEM") = BUF_PARA_BASE /\ SegmentEnd("KERNEL_MEM") = BUF_PARA_END
  /\ SizeLimit("READ_ONLY") = RWDATA_BASE - RODATA_BASE
  /\ SizeLimit("READ_WRITE") = RWDATA_BASE - RODATA_BASE
  /\ SizeLimit("KERNEL_MEM") = BUF_PARA_END - BUF_PARA_BASE
BY DEF SegmentBase, SegmentEnd, SizeLimit

(* What is listed lies on this side of a base or behind it.                *)
LEMMA ItemFacts ==
  ASSUME NEW l, Listing(l), NEW i \in 1 .. Len(l)
  PROVE  /\ l[i].vaddr \in Nat /\ l[i].size \in Nat \ {0} /\ Aligned(l[i].vaddr)
         /\ Behind(l[i]) \in Nat /\ Aligned(Behind(l[i]))
         /\ l[i].vaddr + l[i].size <= Behind(l[i])
         /\ RODATA_BASE <= l[i].vaddr /\ l[i].vaddr < BUF_PARA_END
         /\ \A b \in {RWDATA_BASE, BUF_PARA_BASE} : l[i].vaddr < b => Behind(l[i]) <= b
<1>1. l[i] \in ItemType
  BY ElementOfSeq DEF Listing
<1>2. l[i].vaddr \in Nat /\ l[i].size \in Nat \ {0}
  BY <1>1 DEF ItemType
<1>3. Aligned(l[i].vaddr) /\ \E type \in BufferType : Within(l[i], type)
  BY DEF Listing
<1>4. \/ RODATA_BASE <= l[i].vaddr /\ l[i].vaddr + l[i].size <= RWDATA_BASE
      \/ RWDATA_BASE <= l[i].vaddr /\ l[i].vaddr + l[i].size <= BUF_PARA_BASE
      \/ BUF_PARA_BASE <= l[i].vaddr /\ l[i].vaddr + l[i].size <= BUF_PARA_END
  BY <1>3, SegmentValues DEF Within, BufferType
<1>5. /\ Behind(l[i]) \in Nat /\ Aligned(Behind(l[i]))
      /\ l[i].vaddr + l[i].size <= Behind(l[i])
      /\ \A y \in Nat : Aligned(y) /\ l[i].vaddr + l[i].size <= y => Behind(l[i]) <= y
  <2>1. l[i].vaddr + l[i].size \in Nat
    BY <1>2
  <2> QED
    BY <2>1, PageUpFacts DEF Behind
<1>6. RODATA_BASE <= l[i].vaddr /\ l[i].vaddr < BUF_PARA_END
  BY <1>2, <1>4, SegmentFacts
<1>7. ASSUME NEW b \in {RWDATA_BASE, BUF_PARA_BASE}, l[i].vaddr < b PROVE Behind(l[i]) <= b
  <2>1. l[i].vaddr + l[i].size <= b
    BY <1>2, <1>4, <1>7, SegmentFacts
  <2> QED
    BY <1>5, <1>7, <2>1, SegmentFacts
<1> QED
  BY <1>2, <1>3, <1>5, <1>6, <1>7

(* The items of a list are sorted by address.                              *)
LEMMA ItemsSorted ==
  ASSUME NEW l, Listing(l), NEW i \in 1 .. Len(l), NEW j \in 1 .. Len(l), i <= j
  PROVE  l[i].vaddr <= l[j].vaddr
<1>1. l[i].vaddr \in Nat /\ l[i].size \in Nat \ {0} /\ l[j].vaddr \in Nat
  BY ItemFacts
<1>2. CASE i = j
  BY <1>1, <1>2
<1>3. CASE i # j
  <2>1. Behind(l[i]) <= l[j].vaddr /\ Behind(l[i]) \in Nat
    BY <1>3, ItemFacts DEF Listing
  <2>2. l[i].vaddr < Behind(l[i])
    BY <1>1, <2>1, ItemFacts, LastUnit
  <2> QED
    BY <1>1, <2>1, <2>2
<1> QED
  BY <1>2, <1>3

(* An item that starts in a segment lies in it.                            *)
LEMMA SegmentUsed ==
  ASSUME NEW l, Listing(l), NEW i \in 1 .. Len(l), NEW type \in BufferType,
         SegmentBase(type) <= l[i].vaddr, l[i].vaddr < SegmentEnd(type)
  PROVE  Headed(l, type)
<1>1. l[i].vaddr \in Nat /\ l[i].size \in Nat \ {0}
  BY ItemFacts
<1>2. PICK u \in BufferType : Within(l[i], u)
  BY DEF Listing
<1>3. u = type
  BY <1>1, <1>2, SegmentFacts, SegmentValues DEF Within, BufferType
<1> QED
  BY <1>2, <1>3 DEF Listing

(* Room behind item k is a slot.                                           *)
LEMMA SlotBehind ==
  ASSUME NEW l, Listing(l), NEW k \in 1 .. Len(l), NEW n \in Nat \ {0},
         k = Len(l) \/ Behind(l[k]) + n <= l[k + 1].vaddr
  PROVE  Slot(l, k + 1, Behind(l[k]), n)
<1>0. Len(l) \in Nat
  BY LenProperties DEF Listing
<1>1. ASSUME NEW i \in 1 .. Len(l)
      PROVE  /\ l[i].vaddr \in Nat /\ Behind(l[i]) \in Nat
             /\ l[i].vaddr <= Behind(l[i]) /\ Aligned(l[i].vaddr)
  <2>1. /\ l[i].vaddr \in Nat /\ l[i].size \in Nat \ {0} /\ Aligned(l[i].vaddr)
        /\ Behind(l[i]) \in Nat /\ l[i].vaddr + l[i].size <= Behind(l[i])
    BY ItemFacts
  <2> QED
    BY <2>1
<1>2. ASSUME NEW i \in 1 .. k PROVE Behind(l[i]) <= Behind(l[k])
  <2>1. i = k \/ Behind(l[i]) <= l[k].vaddr
    BY <1>0 DEF Listing
  <2>2. i \in 1 .. Len(l)
    BY <1>0
  <2> QED
    BY <1>1, <2>1, <2>2
<1>3. ASSUME NEW i \in k + 1 .. Len(l) PROVE PageUp(Behind(l[k]) + n) <= l[i].vaddr
  <2>1. k + 1 \in 1 .. Len(l) /\ i \in 1 .. Len(l) /\ k # Len(l)
    BY <1>0
  <2>2. l[k + 1].vaddr <= l[i].vaddr
    <3>1. i = k + 1 \/ Behind(l[k + 1]) <= l[i].vaddr
      BY <2>1 DEF Listing
    <3> QED
      BY <1>1, <2>1, <3>1
  <2>3. /\ PageUp(Behind(l[k]) + n) \in Nat
        /\ PageUp(Behind(l[k]) + n) <= l[k + 1].vaddr
    <3>1. Behind(l[k]) + n \in Nat /\ Behind(l[k]) + n <= l[k + 1].vaddr
      BY <1>1, <2>1
    <3>2. l[k + 1].vaddr \in Nat /\ Aligned(l[k + 1].vaddr)
      BY <1>1, <2>1
    <3> QED
      BY <3>1, <3>2, PageUpFacts
  <2> QED
    BY <1>1, <2>1, <2>2, <2>3
<1> QED
  BY <1>0, <1>2, <1>3 DEF Slot

(* The gap search stops at the last item, at the limit or at a gap, and no *)
(* gap comes before the place where it stops.                              *)
LEMMA GapFound ==
  ASSUME NEW l, Listing(l), NEW from \in 1 .. Len(l), NEW limit \in Nat, NEW n \in Nat
  PROVE  LET k == GapFrom(l, from, limit, n)
         IN  /\ k \in from .. Len(l)
             /\ \/ k = Len(l)
                \/ l[k].vaddr >= limit
                \/ Behind(l[k]) + n <= l[k + 1].vaddr
             /\ \A j \in from .. Len(l) :
                  j # Len(l) /\ Behind(l[j]) + n <= l[j + 1].vaddr => k <= j
<1> DEFINE S == {k \in from .. Len(l) : \/ k = Len(l)
                                        \/ l[k].vaddr >= limit
                                        \/ Behind(l[k]) + n <= l[k + 1].vaddr}
<1>1. Len(l) \in Nat
  BY LenProperties DEF Listing
<1>2. Len(l) \in S
  BY <1>1
<1>3. S \subseteq 1 .. Len(l) /\ S # {}
  BY <1>1, <1>2
<1>4. Min(S) \in S /\ \A j \in S : Min(S) <= j
  <2>1. 1 \in Int /\ Len(l) \in Int
    BY <1>1
  <2> HIDE DEF S
  <2> QED
    BY <1>3, <2>1, MinFacts
<1>5. GapFrom(l, from, limit, n) = Min(S)
  BY DEF GapFrom
<1> HIDE DEF GapFrom
<1> QED
  BY <1>4, <1>5

-----------------------------------------------------------------------------
(* What allocVaddr must answer for n units of a type: a place in the       *)
(* segment and a slot of the list.  Only the base of the read-only segment *)
(* comes before an item, which is then the first one.                      *)
Good(l, s, n, type) ==
  /\ s.pos \in 1 .. Len(l) /\ s.vaddr \in Nat /\ Aligned(s.vaddr)
  /\ SegmentBase(type) <= s.vaddr /\ s.vaddr + n <= SegmentEnd(type)
  /\ s.vaddr = SegmentBase(type) \/ Headed(l, type)
  /\ \/ s.vaddr = RODATA_BASE /\ l[1].vaddr = RWDATA_BASE /\ s.pos = 1 /\ Slot(l, 1, s.vaddr, n)
     \/ s.vaddr # RODATA_BASE /\ Slot(l, s.pos + 1, s.vaddr, n)

(* driver.h:279-307, the read-only segment.                                *)
LEMMA ReadOnlyGood ==
  ASSUME NEW l, Listing(l), l # << >>, NEW n \in Nat \ {0}, n < SizeLimit("READ_ONLY"),
         \A i \in 1 .. Len(l) : l[i].vaddr < BUF_PARA_BASE,
         ReadOnlySpot(l, n).vaddr # 0
  PROVE  Good(l, ReadOnlySpot(l, n), n, "READ_ONLY")
<1> DEFINE k == GapFrom(l, 1, RWDATA_BASE, n)
           v == Behind(l[k])
           s == ReadOnlySpot(l, n)
<1>0. Len(l) \in Nat /\ 1 \in 1 .. Len(l)
  BY LenProperties, EmptySeq DEF Listing
<1>1. \A i \in 1 .. Len(l) :
        /\ l[i].vaddr \in Nat /\ l[i].size \in Nat \ {0}
        /\ Behind(l[i]) \in Nat /\ Aligned(Behind(l[i]))
        /\ l[i].vaddr + l[i].size <= Behind(l[i]) /\ RODATA_BASE <= l[i].vaddr
  BY ItemFacts
<1>2. RODATA_BASE + n <= RWDATA_BASE /\ n \in Nat
  BY SegmentFacts, SegmentValues
<1>3. CASE l[1].vaddr # RODATA_BASE
  <2>1. s = Spot(1, RODATA_BASE)
    BY <1>3 DEF ReadOnlySpot
  <2>2. s.pos = 1 /\ s.vaddr = RODATA_BASE
    BY <2>1 DEF Spot
  <2>3. l[1].vaddr = RWDATA_BASE
    BY <1>0, <1>3, SegmentFacts DEF Listing, Bases
  <2>4. ASSUME NEW i \in 1 .. Len(l) PROVE PageUp(RODATA_BASE + n) <= l[i].vaddr
    <3>1. RWDATA_BASE <= l[i].vaddr
      <4>1. l[1].vaddr <= l[i].vaddr
        BY <1>0, ItemsSorted
      <4> QED
        BY <2>3, <4>1
    <3>2. RODATA_BASE + n \in Nat
      BY <1>2, SegmentFacts
    <3>3. PageUp(RODATA_BASE + n) \in Nat /\ PageUp(RODATA_BASE + n) <= RWDATA_BASE
      BY <1>2, <3>2, SegmentFacts, PageUpFacts
    <3> QED
      BY <1>1, <3>1, <3>3, SegmentFacts
  <2>5. Slot(l, 1, RODATA_BASE, n)
    BY <1>0, <2>4 DEF Slot
  <2> HIDE DEF s
  <2> QED
    BY <1>0, <1>2, <2>2, <2>3, <2>5, SegmentFacts, SegmentValues DEF Good, s
<1>4. CASE l[1].vaddr = RODATA_BASE
  <2>1. /\ k \in 1 .. Len(l)
        /\ \/ k = Len(l)
           \/ l[k].vaddr >= RWDATA_BASE
           \/ Behind(l[k]) + n <= l[k + 1].vaddr
    BY <1>0, SegmentFacts, GapFound
  <2>2. /\ s = Spot(k, v)
        /\ ~(/\ k = Len(l) \/ l[k + 1].vaddr >= RWDATA_BASE
             /\ v + n > RWDATA_BASE)
    <3>1. NoSpot.vaddr = 0
      BY DEF NoSpot, Spot
    <3> HIDE DEF GapFrom
    <3> QED
      BY <1>4, <3>1 DEF ReadOnlySpot
  <2> HIDE DEF k, s
  <2>3. s.pos = k /\ s.vaddr = v
    BY <2>2 DEF Spot
  <2>4. v \in Nat /\ Aligned(v) /\ RODATA_BASE < v /\ l[k].vaddr < v
    <3>1. /\ l[k].vaddr \in Nat /\ l[k].size \in Nat \ {0} /\ v \in Nat /\ Aligned(v)
          /\ l[k].vaddr + l[k].size <= v /\ RODATA_BASE <= l[k].vaddr
      BY <1>1, <2>1
    <3> HIDE DEF v
    <3> QED
      BY <3>1, SegmentFacts
  <2>5. k = Len(l) \/ (k + 1 \in 1 .. Len(l) /\ l[k + 1].vaddr \in Nat /\ v <= l[k + 1].vaddr)
    BY <1>0, <1>1, <2>1 DEF Listing
  <2>6. k = Len(l) \/ v + n <= l[k + 1].vaddr
    <3>1. CASE l[k].vaddr >= RWDATA_BASE /\ k # Len(l)
      <4>1. l[k + 1].vaddr \in Nat /\ v <= l[k + 1].vaddr /\ l[k].vaddr \in Nat
        BY <1>1, <2>1, <2>5, <3>1
      <4>2. l[k + 1].vaddr >= RWDATA_BASE
        BY <2>4, <3>1, <4>1, SegmentFacts
      <4>3. v + n <= RWDATA_BASE
        BY <1>2, <2>2, <2>4, <4>2, SegmentFacts
      <4> HIDE DEF v
      <4> QED
        BY <1>2, <2>4, <4>1, <4>2, <4>3, SegmentFacts
    <3> QED
      BY <2>1, <3>1
  <2>7. v + n <= RWDATA_BASE
    BY <1>2, <2>2, <2>4, <2>5, <2>6, SegmentFacts
  <2>8. Slot(l, k + 1, v, n)
    BY <2>1, <2>6, SlotBehind
  <2>9. Headed(l, "READ_ONLY")
    BY <1>0, <1>4, SegmentValues DEF Headed
  <2> HIDE DEF v
  <2> QED
    BY <2>1, <2>3, <2>4, <2>7, <2>8, <2>9, SegmentFacts, SegmentValues DEF Good, s
<1> QED
  BY <1>3, <1>4

(* driver.h:309-365, the two segments behind it.                           *)
LEMMA LaterGood ==
  ASSUME NEW l, Listing(l), l # << >>, NEW type \in {"READ_WRITE", "KERNEL_MEM"},
         NEW n \in Nat \ {0}, n < SizeLimit(type),
         \A i \in 1 .. Len(l) : l[i].vaddr < SegmentEnd(type),
         NEW earlier, earlier = {b \in Bases : b < SegmentBase(type)},
         LaterSpot(l, earlier, SegmentBase(type), SegmentEnd(type), n).vaddr # 0
  PROVE  Good(l, LaterSpot(l, earlier, SegmentBase(type), SegmentEnd(type), n), n, type)
<1> DEFINE base == SegmentBase(type)
           limit == SegmentEnd(type)
           above == {i \in 1 .. Len(l) : l[i].vaddr >= base}
           from == IF l[1].vaddr \in earlier THEN Min(above) ELSE 1
           k == GapFrom(l, from, limit, n)
           v == Behind(l[k])
           s == LaterSpot(l, earlier, base, limit, n)
<1>0. Len(l) \in Nat /\ 1 \in 1 .. Len(l)
  BY LenProperties, EmptySeq DEF Listing
<1>1. \A i \in 1 .. Len(l) :
        /\ l[i].vaddr \in Nat /\ l[i].size \in Nat \ {0}
        /\ Behind(l[i]) \in Nat /\ Aligned(Behind(l[i]))
        /\ l[i].vaddr + l[i].size <= Behind(l[i]) /\ RODATA_BASE <= l[i].vaddr
  BY ItemFacts
<1>2. /\ base \in Nat /\ limit \in Nat /\ base + n <= limit /\ RODATA_BASE < base
      /\ Aligned(base) /\ base \in {RWDATA_BASE, BUF_PARA_BASE}
  BY SegmentFacts, SegmentValues
<1>3. CASE l[1].vaddr \in earlier /\ above = {}
  <2>1. s = Spot(Len(l), base)
    BY <1>3 DEF LaterSpot
  <2>2. s.pos = Len(l) /\ s.vaddr = base
    BY <2>1 DEF Spot
  <2>3. ASSUME NEW i \in 1 .. Len(l) PROVE Behind(l[i]) <= base
    <3>1. l[i].vaddr < base
      BY <1>1, <1>2, <1>3
    <3> QED
      BY <1>2, <3>1, ItemFacts
  <2>4. Slot(l, Len(l) + 1, base, n)
    BY <1>0, <2>3 DEF Slot
  <2> HIDE DEF s
  <2> QED
    BY <1>0, <1>2, <2>2, <2>4, SegmentFacts DEF Good, s
<1>4. CASE ~(l[1].vaddr \in earlier /\ above = {})
  <2>1. from \in 1 .. Len(l) /\ l[from].vaddr >= base
    <3>1. CASE l[1].vaddr \in earlier
      <4>1. above \subseteq 1 .. Len(l) /\ above # {} /\ 1 \in Int /\ Len(l) \in Int
        BY <1>0, <1>4, <3>1
      <4> HIDE DEF above
      <4>2. Min(above) \in above
        BY <4>1, MinFacts
      <4> QED
        BY <3>1, <4>2 DEF above
    <3>2. CASE l[1].vaddr \notin earlier
      <4>1. l[1].vaddr \in Bases
        BY <1>0 DEF Listing
      <4> QED
        BY <1>0, <1>1, <1>2, <3>2, <4>1
    <3> QED
      BY <3>1, <3>2
  <2> HIDE DEF from
  <2>2. /\ k \in from .. Len(l)
        /\ \/ k = Len(l)
           \/ l[k].vaddr >= limit
           \/ Behind(l[k]) + n <= l[k + 1].vaddr
    BY <1>2, <2>1, GapFound
  <2>3. s = Spot(k, v) /\ ~(k = Len(l) /\ v + n > limit)
    <3>1. NoSpot.vaddr = 0
      BY DEF NoSpot, Spot
    <3> HIDE DEF GapFrom
    <3> QED
      BY <1>4, <3>1 DEF LaterSpot, from
  <2> HIDE DEF k, s
  <2>4. s.pos = k /\ s.vaddr = v
    BY <2>3 DEF Spot
  <2>5. k \in 1 .. Len(l) /\ base <= l[k].vaddr
    <3>1. k \in 1 .. Len(l) /\ (k = from \/ from < k)
      BY <1>0, <2>1, <2>2
    <3>2. from \in Nat /\ from <= k
      BY <2>1, <3>1
    <3>3. l[from].vaddr <= l[k].vaddr
      BY <2>1, <3>1, <3>2, ItemsSorted
    <3>4. l[from].vaddr \in Nat /\ l[k].vaddr \in Nat /\ base \in Nat /\ base <= l[from].vaddr
      BY <1>1, <1>2, <2>1, <3>1
    <3> HIDE DEF base
    <3> QED
      BY <3>1, <3>3, <3>4
  <2>6. v \in Nat /\ Aligned(v) /\ base < v /\ l[k].vaddr < limit
    <3>1. /\ l[k].vaddr \in Nat /\ l[k].size \in Nat \ {0} /\ v \in Nat /\ Aligned(v)
          /\ l[k].vaddr + l[k].size <= v /\ base \in Nat /\ base <= l[k].vaddr
      BY <1>1, <1>2, <2>5
    <3>2. l[k].vaddr < limit
      BY <2>5
    <3> HIDE DEF base, v
    <3>3. l[k].vaddr < v
      BY <3>1, LastUnit
    <3> QED
      BY <3>1, <3>2, <3>3
  <2>7. k = Len(l) \/ (v + n <= l[k + 1].vaddr /\ l[k + 1].vaddr < limit /\ l[k + 1].vaddr \in Nat)
    <3>1. k = Len(l) \/ k + 1 \in 1 .. Len(l)
      BY <1>0, <2>5
    <3> QED
      BY <1>1, <1>2, <2>2, <2>5, <2>6, <3>1
  <2>8. v + n <= limit
    BY <1>2, <2>3, <2>6, <2>7
  <2>9. Slot(l, k + 1, v, n)
    BY <2>5, <2>7, SlotBehind
  <2>10. Headed(l, type)
    <3>1. type \in BufferType
      BY DEF BufferType
    <3>2. k \in 1 .. Len(l) /\ SegmentBase(type) <= l[k].vaddr /\ l[k].vaddr < SegmentEnd(type)
      BY <2>5, <2>6
    <3> QED
      BY <3>1, <3>2, SegmentUsed
  <2> HIDE DEF v, base, limit
  <2> QED
    <3>1. /\ s.pos \in 1 .. Len(l) /\ s.vaddr \in Nat /\ Aligned(s.vaddr)
          /\ base <= s.vaddr /\ s.vaddr + n <= limit
          /\ s.vaddr # RODATA_BASE /\ Slot(l, s.pos + 1, s.vaddr, n)
      BY <1>2, <2>4, <2>5, <2>6, <2>8, <2>9, SegmentFacts
    <3> QED
      BY <2>10, <3>1 DEF Good, s, base, limit
<1> QED
  BY <1>3, <1>4

(* An answer of allocVaddr is good, as long as nothing but kernel memory   *)
(* is asked for once there is some.                                        *)
LEMMA AllocVaddrGood ==
  ASSUME NEW l, Listing(l), l # << >>, NEW type \in BufferType,
         NEW n \in Nat \ {0}, n < SizeLimit(type),
         type # "KERNEL_MEM" => \A i \in 1 .. Len(l) : l[i].vaddr < BUF_PARA_BASE,
         AllocVaddr(l, n, type).vaddr # 0
  PROVE  Good(l, AllocVaddr(l, n, type), n, type)
<1>1. CASE type = "READ_ONLY"
  <2>1. AllocVaddr(l, n, type) = ReadOnlySpot(l, n)
    BY <1>1 DEF AllocVaddr
  <2> QED
    BY <1>1, <2>1, ReadOnlyGood
<1>2. CASE type = "READ_WRITE"
  <2>1. AllocVaddr(l, n, type)
          = LaterSpot(l, {RODATA_BASE}, SegmentBase(type), SegmentEnd(type), n)
    BY <1>2, SegmentValues DEF AllocVaddr
  <2>2. {RODATA_BASE} = {b \in Bases : b < SegmentBase(type)}
    BY <1>2, SegmentFacts, SegmentValues DEF Bases
  <2>3. \A i \in 1 .. Len(l) : l[i].vaddr < SegmentEnd(type)
    BY <1>2, SegmentValues
  <2> QED
    BY <1>2, <2>1, <2>2, <2>3, LaterGood
<1>3. CASE type = "KERNEL_MEM"
  <2>1. AllocVaddr(l, n, type)
          = LaterSpot(l, {RODATA_BASE, RWDATA_BASE}, SegmentBase(type), SegmentEnd(type), n)
    BY <1>3, SegmentValues DEF AllocVaddr
  <2>2. {RODATA_BASE, RWDATA_BASE} = {b \in Bases : b < SegmentBase(type)}
    BY <1>3, SegmentFacts, SegmentValues DEF Bases
  <2>3. \A i \in 1 .. Len(l) : l[i].vaddr < SegmentEnd(type)
    BY <1>3, SegmentValues, ItemFacts
  <2> QED
    BY <1>3, <2>1, <2>2, <2>3, LaterGood
<1> QED
  BY <1>1, <1>2, <1>3 DEF BufferType

-----------------------------------------------------------------------------
(* A new item in its slot leaves the buffers one behind the other.         *)
LEMMA OrderInserted ==
  ASSUME NEW l, Len(l) \in Nat, \A i, j \in 1 .. Len(l) : i < j => Behind(l[i]) <= l[j].vaddr,
         NEW v \in Nat, NEW n \in Nat \ {0}, NEW p, Slot(l, p, v, n),
         NEW t, Len(t) = Len(l) + 1, HasInserted(t, l, p, Item(v, n))
  PROVE  \A i, j \in 1 .. Len(t) : i < j => Behind(t[i]) <= t[j].vaddr
<1>0. p \in 1 .. Len(l) + 1
  BY DEF Slot
<1>1. \A i \in 1 .. Len(t) : \/ i < p /\ i \in 1 .. Len(l) /\ t[i] = l[i]
                             \/ i = p /\ t[i] = Item(v, n)
                             \/ i > p /\ i - 1 \in 1 .. Len(l) /\ t[i] = l[i - 1]
  BY <1>0 DEF HasInserted
<1>2. /\ Item(v, n).vaddr = v /\ Item(v, n).size = n
      /\ Behind(Item(v, n)) = PageUp(v + n)
  BY DEF Item, Behind
<1>5. ASSUME NEW i \in 1 .. Len(t), NEW j \in 1 .. Len(t), i < j
      PROVE  Behind(t[i]) <= t[j].vaddr
  <2>1. CASE j < p
    BY <1>0, <1>1, <1>5, <2>1
  <2>2. CASE j = p
    <3>1. i \in 1 .. p - 1 /\ t[i] = l[i] /\ t[j].vaddr = v
      BY <1>0, <1>1, <1>2, <1>5, <2>2
    <3> QED
      BY <3>1 DEF Slot
  <2>3. CASE i = p
    <3>1. j - 1 \in p .. Len(l) /\ t[j] = l[j - 1] /\ t[i] = Item(v, n)
      BY <1>0, <1>1, <1>5, <2>3
    <3> QED
      BY <1>2, <3>1 DEF Slot
  <2>4. CASE i < p /\ p < j
    <3>1. i \in 1 .. Len(l) /\ j - 1 \in 1 .. Len(l) /\ i < j - 1 /\ t[i] = l[i] /\ t[j] = l[j - 1]
      BY <1>0, <1>1, <2>4
    <3> QED
      BY <3>1
  <2>5. CASE p < i
    <3>1. /\ i - 1 \in 1 .. Len(l) /\ j - 1 \in 1 .. Len(l) /\ i - 1 < j - 1
          /\ t[i] = l[i - 1] /\ t[j] = l[j - 1]
      BY <1>0, <1>1, <1>5, <2>5
    <3> QED
      BY <3>1
  <2> QED
    BY <1>0, <1>5, <2>1, <2>2, <2>3, <2>4, <2>5
<1> QED
  BY <1>5

(* A new item in its slot leaves a list as lists are.                      *)
LEMMA ListingInserted ==
  ASSUME NEW l, Listing(l), NEW v \in Nat, NEW n \in Nat \ {0}, NEW p, Slot(l, p, v, n),
         NEW type \in BufferType, Within(Item(v, n), type), Aligned(v),
         p = 1 => v \in Bases, v = SegmentBase(type) \/ Headed(l, type),
         NEW t \in Seq(ItemType), HasInserted(t, l, p, Item(v, n))
  PROVE  Listing(t)
<1>0. Len(l) \in Nat /\ Len(t) = Len(l) + 1 /\ p \in 1 .. Len(l) + 1
  BY LenProperties DEF Listing, Slot, HasInserted
<1>1. \A i \in 1 .. Len(t) : \/ i < p /\ i \in 1 .. Len(l) /\ t[i] = l[i]
                             \/ i = p /\ t[i] = Item(v, n)
                             \/ i > p /\ i - 1 \in 1 .. Len(l) /\ t[i] = l[i - 1]
  BY <1>0 DEF HasInserted
<1>2. /\ Item(v, n).vaddr = v /\ Item(v, n).size = n
      /\ Behind(Item(v, n)) = PageUp(v + n)
  BY DEF Item, Behind
<1>3. t[1].vaddr \in Bases
  <2>1. CASE p = 1
    BY <1>0, <1>1, <1>2, <2>1
  <2>2. CASE p # 1
    <3>1. 1 \in 1 .. Len(l) /\ t[1] = l[1]
      BY <1>0, <1>1, <2>2
    <3> QED
      BY <3>1, EmptySeq DEF Listing
  <2> QED
    BY <2>1, <2>2
<1>4. ASSUME NEW i \in 1 .. Len(t)
      PROVE  Aligned(t[i].vaddr) /\ \E u \in BufferType : Within(t[i], u)
  BY <1>1, <1>2 DEF Listing
<1>5. \A i, j \in 1 .. Len(t) : i < j => Behind(t[i]) <= t[j].vaddr
  <2>1. \A i, j \in 1 .. Len(l) : i < j => Behind(l[i]) <= l[j].vaddr
    BY DEF Listing
  <2> QED
    BY <1>0, <2>1, OrderInserted
<1>6. ASSUME NEW i \in 1 .. Len(t), NEW u \in BufferType, Within(t[i], u)
      PROVE  Headed(t, u)
  <2>1. \A j \in 1 .. Len(l) : \E k \in 1 .. Len(t) : t[k] = l[j]
    <3>1. ASSUME NEW j \in 1 .. Len(l), j < p PROVE j \in 1 .. Len(t) /\ t[j] = l[j]
      BY <1>0, <3>1 DEF HasInserted
    <3>2. ASSUME NEW j \in 1 .. Len(l), j >= p PROVE j + 1 \in 1 .. Len(t) /\ t[j + 1] = l[j]
      BY <1>0, <3>2 DEF HasInserted
    <3>3. ASSUME NEW j \in 1 .. Len(l) PROVE \E k \in 1 .. Len(t) : t[k] = l[j]
      <4>1. CASE j < p
        BY <3>1, <4>1
      <4>2. CASE j >= p
        BY <3>2, <4>2
      <4> QED
        BY <1>0, <4>1, <4>2
    <3> QED
      BY <3>3
  <2>2. Headed(l, u) => Headed(t, u)
    BY <2>1 DEF Headed
  <2>3. CASE i # p
    <3>1. PICK j \in 1 .. Len(l) : t[i] = l[j]
      BY <1>1, <2>3
    <3> QED
      BY <1>6, <2>2, <3>1 DEF Listing
  <2>4. CASE i = p
    <3>1. Within(Item(v, n), u)
      BY <1>0, <1>1, <1>6, <2>4
    <3>2. u = type
      BY <1>2, <3>1, SegmentFacts, SegmentValues DEF Within, BufferType
    <3>3. t[i].vaddr = v
      BY <1>0, <1>1, <1>2, <2>4
    <3> QED
      BY <2>2, <3>2, <3>3 DEF Headed
  <2> QED
    BY <2>3, <2>4
<1> QED
  BY <1>3, <1>4, <1>5, <1>6 DEF Listing

(* insertNewItem puts the item in its slot.                                *)
LEMMA InsertNewItemFacts ==
  ASSUME NEW l, Listing(l), NEW n \in Nat \ {0}, NEW type \in BufferType,
         NEW s, Good(l, s, n, type)
  PROVE  LET t == InsertNewItem(l, s.pos, Item(s.vaddr, n))
         IN  /\ Listing(t)
             /\ \E p : Slot(l, p, s.vaddr, n) /\ HasInserted(t, l, p, Item(s.vaddr, n))
<1> DEFINE item == Item(s.vaddr, n)
           t == InsertNewItem(l, s.pos, item)
<1>0. /\ Len(l) \in Nat /\ s.pos \in 1 .. Len(l) /\ s.vaddr \in Nat /\ Aligned(s.vaddr)
      /\ l \in Seq(ItemType)
  BY LenProperties DEF Listing, Good
<1>1. /\ item \in ItemType /\ item.vaddr = s.vaddr /\ item.size = n /\ Within(item, type)
      /\ s.vaddr = SegmentBase(type) \/ Headed(l, type)
  BY <1>0 DEF Item, ItemType, Good, Within
<1> HIDE DEF item
<1>2. CASE s.vaddr = RODATA_BASE
  <2>1. l[1].vaddr = RWDATA_BASE /\ s.pos = 1 /\ Slot(l, 1, s.vaddr, n)
    BY <1>2 DEF Good
  <2>2. t = <<item>> \o l
    BY <1>1, <1>2, <2>1 DEF InsertNewItem
  <2>3. <<item>> \in Seq(ItemType) /\ Len(<<item>>) = 1 /\ <<item>>[1] = item
    BY <1>1
  <2>4. t \in Seq(ItemType) /\ HasInserted(t, l, 1, item)
    BY <1>0, <2>2, <2>3, ConcatProperties DEF HasInserted
  <2>5. s.vaddr \in Bases
    BY <1>2 DEF Bases
  <2> HIDE DEF t
  <2>6. Listing(t)
    BY <1>0, <1>1, <2>1, <2>4, <2>5, ListingInserted DEF item
  <2> QED
    BY <2>1, <2>4, <2>6 DEF t, item
<1>3. CASE s.vaddr # RODATA_BASE
  <2>1. Slot(l, s.pos + 1, s.vaddr, n)
    BY <1>3 DEF Good
  <2>2. t = InsertAt(l, s.pos + 1, item)
    BY <1>1, <1>3 DEF InsertNewItem
  <2>3. s.pos + 1 \in 1 .. Len(l) + 1 /\ s.pos + 1 # 1
    BY <1>0
  <2>4. t \in Seq(ItemType) /\ HasInserted(t, l, s.pos + 1, item)
    BY <1>0, <1>1, <2>2, <2>3, InsertAtFacts
  <2> HIDE DEF t
  <2>5. Listing(t)
    BY <1>0, <1>1, <2>1, <2>3, <2>4, ListingInserted DEF item
  <2> QED
    BY <2>1, <2>4, <2>5 DEF t, item
<1> QED
  BY <1>2, <1>3

-----------------------------------------------------------------------------
(* The grants of a context, and the list that goes with them.              *)
Granting(gr) ==
  /\ gr \in Seq(GrantType)
  /\ \A k \in 1 .. Len(gr) : InSegment(gr[k])
  /\ \A i, j \in 1 .. Len(gr) : i # j => PagesOfGrant(gr[i]) \cap PagesOfGrant(gr[j]) = {}

Holding(l, gr) ==
  \A k \in 1 .. Len(gr) : \E i \in 1 .. Len(l) :
    l[i].vaddr = gr[k].vaddr /\ l[i].size = gr[k].size

Matches(l, gr) ==
  /\ Len(l) = Len(gr)
  /\ \A i \in 1 .. Len(l) : \E k \in 1 .. Len(gr) :
       l[i].vaddr = gr[k].vaddr /\ l[i].size = gr[k].size
  /\ Holding(l, gr)

(* The new item goes with the new grant, the others as before.             *)
LEMMA MatchesInserted ==
  ASSUME NEW l, Listing(l), NEW gr \in Seq(GrantType), Matches(l, gr),
         NEW g \in GrantType, NEW p \in 1 .. Len(l) + 1,
         NEW t \in Seq(ItemType), HasInserted(t, l, p, Item(g.vaddr, g.size))
  PROVE  Matches(t, Append(gr, g))
<1> DEFINE h == Append(gr, g)
<1>0. /\ Len(l) \in Nat /\ Len(gr) = Len(l) /\ Len(t) = Len(l) + 1
      /\ Len(h) = Len(l) + 1 /\ h[Len(l) + 1] = g
      /\ \A k \in 1 .. Len(l) : h[k] = gr[k]
  BY LenProperties, AppendProperties DEF Listing, Matches, HasInserted
<1>1. Item(g.vaddr, g.size).vaddr = g.vaddr /\ Item(g.vaddr, g.size).size = g.size
  BY DEF Item
<1> HIDE DEF h
<1>2. ASSUME NEW i \in 1 .. Len(t)
      PROVE  \E k \in 1 .. Len(h) : t[i].vaddr = h[k].vaddr /\ t[i].size = h[k].size
  <2>1. CASE i = p
    <3>1. t[i] = Item(g.vaddr, g.size) /\ Len(l) + 1 \in 1 .. Len(h)
      BY <1>0, <2>1 DEF HasInserted
    <3> QED
      BY <1>0, <1>1, <3>1
  <2>2. CASE i # p
    <3>1. PICK j \in 1 .. Len(l) : t[i] = l[j]
      <4>1. i < p => i \in 1 .. Len(l) /\ t[i] = l[i]
        BY <1>0 DEF HasInserted
      <4>2. i > p => i - 1 \in 1 .. Len(l) /\ t[i] = l[i - 1]
        BY <1>0 DEF HasInserted
      <4> QED
        BY <1>0, <2>2, <4>1, <4>2
    <3>2. PICK k \in 1 .. Len(gr) : l[j].vaddr = gr[k].vaddr /\ l[j].size = gr[k].size
      BY DEF Matches
    <3> QED
      BY <1>0, <3>1, <3>2
  <2> QED
    BY <2>1, <2>2
<1>3. ASSUME NEW k \in 1 .. Len(h)
      PROVE  \E i \in 1 .. Len(t) : t[i].vaddr = h[k].vaddr /\ t[i].size = h[k].size
  <2>1. CASE k = Len(l) + 1
    <3>1. p \in 1 .. Len(t) /\ t[p] = Item(g.vaddr, g.size)
      BY <1>0 DEF HasInserted
    <3> QED
      BY <1>0, <1>1, <2>1, <3>1
  <2>2. CASE k # Len(l) + 1
    <3>1. k \in 1 .. Len(gr) /\ h[k] = gr[k]
      BY <1>0, <2>2
    <3>2. PICK i \in 1 .. Len(l) : l[i].vaddr = gr[k].vaddr /\ l[i].size = gr[k].size
      BY <3>1 DEF Matches, Holding
    <3>3. PICK j \in 1 .. Len(t) : t[j] = l[i]
      <4>1. i < p => i \in 1 .. Len(t) /\ t[i] = l[i]
        BY <1>0 DEF HasInserted
      <4>2. i >= p => i + 1 \in 1 .. Len(t) /\ t[i + 1] = l[i]
        <5>1. i + 1 \in 1 .. Len(l) + 1 /\ (i >= p => ~(i + 1 < p) /\ i + 1 # p /\ i + 1 - 1 = i)
          BY <1>0
        <5> QED
          BY <1>0, <5>1 DEF HasInserted
      <4> QED
        BY <1>0, <4>1, <4>2
    <3> QED
      BY <3>1, <3>2, <3>3
  <2> QED
    BY <2>1, <2>2
<1> QED
  BY <1>0, <1>2, <1>3 DEF Matches, Holding, h

(* What lies in a slot shares no page with what is listed.                 *)
LEMMA SlotApart ==
  ASSUME NEW l, Listing(l), NEW g, g.vaddr \in Nat, g.size \in Nat \ {0}, Aligned(g.vaddr),
         NEW p, Slot(l, p, g.vaddr, g.size), NEW i \in 1 .. Len(l)
  PROVE  PagesOfGrant(l[i]) \cap PagesOfGrant(g) = {}
<1>0. PAGESIZE \in Nat \ {0}
  BY SegmentAssumption
<1>1. /\ l[i].vaddr \in Nat /\ l[i].size \in Nat \ {0} /\ Aligned(l[i].vaddr)
      /\ Behind(l[i]) \in Nat /\ l[i].vaddr + l[i].size <= Behind(l[i])
  BY ItemFacts
<1>2. Behind(l[i]) <= g.vaddr \/ PageUp(g.vaddr + g.size) <= l[i].vaddr
  BY LenProperties DEF Slot, Listing
<1>3. CASE Behind(l[i]) <= g.vaddr
  <2>1. l[i].vaddr + l[i].size \in Nat /\ l[i].vaddr + l[i].size <= g.vaddr
    BY <1>1, <1>3, LastUnit
  <2>2. l[i].vaddr + l[i].size - 1 \in Nat /\ l[i].vaddr + l[i].size - 1 < g.vaddr
    BY <1>1, <2>1, LastUnit
  <2>3. (l[i].vaddr + l[i].size - 1) \div PAGESIZE < g.vaddr \div PAGESIZE
    BY <2>2, PagesApart
  <2>4. (l[i].vaddr + l[i].size - 1) \div PAGESIZE \in Nat /\ g.vaddr \div PAGESIZE \in Nat
    BY <1>0, <2>2, PageOf
  <2> QED
    BY <2>3, <2>4 DEF PagesOfGrant
<1>4. CASE PageUp(g.vaddr + g.size) <= l[i].vaddr
  <2>1. g.vaddr + g.size \in Nat
    OBVIOUS
  <2>2. g.vaddr + g.size <= PageUp(g.vaddr + g.size) /\ PageUp(g.vaddr + g.size) \in Nat
    BY <2>1, PageUpFacts
  <2>3. g.vaddr + g.size <= l[i].vaddr
    BY <1>1, <1>4, <2>1, <2>2
  <2>4. g.vaddr + g.size - 1 \in Nat /\ g.vaddr + g.size - 1 < l[i].vaddr
    BY <1>1, <2>3, LastUnit
  <2>5. (g.vaddr + g.size - 1) \div PAGESIZE < l[i].vaddr \div PAGESIZE
    BY <1>1, <2>4, PagesApart
  <2>6. (g.vaddr + g.size - 1) \div PAGESIZE \in Nat /\ l[i].vaddr \div PAGESIZE \in Nat
    BY <1>0, <1>1, <2>4, PageOf
  <2> QED
    BY <2>5, <2>6 DEF PagesOfGrant
<1> QED
  BY <1>2, <1>3, <1>4

(* A new grant in a slot of the list shares no page with the others.       *)
LEMMA NewGrantFits ==
  ASSUME NEW l, Listing(l), NEW gr, Granting(gr), Holding(l, gr),
         NEW g \in GrantType, InSegment(g), Aligned(g.vaddr),
         NEW p, Slot(l, p, g.vaddr, g.size)
  PROVE  Granting(Append(gr, g))
<1> DEFINE h == Append(gr, g)
<1>0. /\ gr \in Seq(GrantType) /\ Len(gr) \in Nat /\ h \in Seq(GrantType)
      /\ Len(h) = Len(gr) + 1 /\ h[Len(gr) + 1] = g
      /\ \A k \in 1 .. Len(gr) : h[k] = gr[k]
  BY LenProperties, AppendProperties DEF Granting
<1> HIDE DEF h
<1>1. g.vaddr \in Nat /\ g.size \in Nat \ {0}
  BY DEF GrantType
<1>2. ASSUME NEW k \in 1 .. Len(gr)
      PROVE  PagesOfGrant(gr[k]) \cap PagesOfGrant(g) = {}
  <2>1. PICK i \in 1 .. Len(l) : l[i].vaddr = gr[k].vaddr /\ l[i].size = gr[k].size
    BY DEF Holding
  <2>2. PagesOfGrant(l[i]) \cap PagesOfGrant(g) = {}
    BY <1>1, SlotApart
  <2> QED
    BY <2>1, <2>2 DEF PagesOfGrant
<1>3. \A k \in 1 .. Len(h) : InSegment(h[k])
  BY <1>0 DEF Granting
<1>4. ASSUME NEW i \in 1 .. Len(h), NEW j \in 1 .. Len(h), i # j
      PROVE  PagesOfGrant(h[i]) \cap PagesOfGrant(h[j]) = {}
  <2>1. CASE i = Len(gr) + 1
    <3>1. j \in 1 .. Len(gr) /\ h[j] = gr[j] /\ h[i] = g
      BY <1>0, <1>4, <2>1
    <3> QED
      BY <1>2, <3>1
  <2>2. CASE j = Len(gr) + 1
    <3>1. i \in 1 .. Len(gr) /\ h[i] = gr[i] /\ h[j] = g
      BY <1>0, <1>4, <2>2
    <3> QED
      BY <1>2, <3>1
  <2>3. CASE i \in 1 .. Len(gr) /\ j \in 1 .. Len(gr)
    BY <1>0, <1>4, <2>3 DEF Granting
  <2> QED
    BY <1>0, <2>1, <2>2, <2>3
<1> QED
  BY <1>0, <1>3, <1>4 DEF Granting, h

(* One grant less keeps the rest.                                          *)
LEMMA GrantRemoved ==
  ASSUME NEW gr, Granting(gr), NEW k \in 1 .. Len(gr)
  PROVE  Granting(RemoveAt(gr, k))
<1> DEFINE h == RemoveAt(gr, k)
<1>1. gr \in Seq(GrantType) /\ Len(gr) \in Nat /\ h \in Seq(GrantType) /\ HasRemoved(h, gr, k)
  BY LenProperties, RemoveAtFacts DEF Granting
<1> HIDE DEF h
<1> DEFINE old(i) == IF i < k THEN i ELSE i + 1
<1>2. /\ Len(h) = Len(gr) - 1
      /\ \A i \in 1 .. Len(h) : old(i) \in 1 .. Len(gr) /\ h[i] = gr[old(i)]
      /\ \A i, j \in 1 .. Len(h) : i # j => old(i) # old(j)
  BY <1>1 DEF HasRemoved
<1> HIDE DEF old
<1> QED
  BY <1>1, <1>2 DEF Granting, h

-----------------------------------------------------------------------------
(* The inductive invariant: grants as promised in every context, and, as   *)
(* long as a context is listed, a list that goes with them.                *)
Placed ==
  /\ DOMAIN granted \subseteq Contexts /\ DOMAIN mng \subseteq DOMAIN granted
  /\ \A c \in DOMAIN granted : Granting(granted[c])
  /\ \A c \in DOMAIN mng : Listing(mng[c]) /\ Matches(mng[c], granted[c])

(* A context that holds nothing.                                          *)
LEMMA NothingListed ==
  /\ Listing(<< >>) /\ Granting(<< >>) /\ Matches(<< >>, << >>)
<1>1. << >> \in Seq(ItemType) /\ << >> \in Seq(GrantType) /\ Len(<< >>) = 0
  BY EmptySeq
<1> QED
  BY <1>1 DEF Listing, Granting, Matches, Holding

(* createNewContext: one more empty list.                                  *)
LEMMA CreateKeeps ==
  ASSUME Placed, NEW c \in Contexts, Create(c)
  PROVE  Placed'
<1>1. /\ DOMAIN mng' = DOMAIN mng \cup {c} /\ DOMAIN granted' = DOMAIN granted \cup {c}
      /\ \A d \in DOMAIN mng' : mng'[d] = IF d = c THEN << >> ELSE mng[d]
      /\ \A d \in DOMAIN granted' : granted'[d] = IF d = c THEN << >> ELSE granted[d]
  BY DEF Create, CreateNewContext
<1> HIDE DEF Listing, Granting, Matches
<1> QED
  BY <1>1, NothingListed DEF Placed

(* releaseMemory: the context is listed no more, the other grants stay.    *)
LEMMA FreeKeeps ==
  ASSUME Placed, NEW c \in DOMAIN granted, NEW v, Free(c, v)
  PROVE  Placed'
<1> DEFINE k == CHOOSE i \in 1 .. Len(granted[c]) : granted[c][i].vaddr = v
<1>1. /\ c \in DOMAIN mng
      /\ \E i \in 1 .. Len(mng[c]) : mng[c][i].vaddr = v
  BY DEF Free, ItemsAt
<1>2. k \in 1 .. Len(granted[c])
  <2>1. PICK i \in 1 .. Len(mng[c]) : mng[c][i].vaddr = v
    BY <1>1
  <2>2. \E j \in 1 .. Len(granted[c]) : mng[c][i].vaddr = granted[c][j].vaddr
    BY <1>1 DEF Placed, Matches, Holding
  <2> QED
    BY <2>1, <2>2
<1>3. /\ DOMAIN mng' = DOMAIN mng \ {c} /\ DOMAIN granted' = DOMAIN granted
      /\ \A d \in DOMAIN mng' : mng'[d] = mng[d]
      /\ \A d \in DOMAIN granted' :
           granted'[d] = IF d = c THEN RemoveAt(granted[c], k) ELSE granted[d]
  BY DEF Free, ReleaseMemory
<1> HIDE DEF k, Listing, Granting, Matches
<1>4. Granting(RemoveAt(granted[c], k))
  BY <1>2, GrantRemoved DEF Placed
<1> QED
  BY <1>3, <1>4 DEF Placed

(* With no kernel memory granted, nothing is listed in its segment.        *)
LEMMA NoKernelMem ==
  ASSUME Placed, NEW c \in DOMAIN mng, ~HasKernelMem(c), NEW i \in 1 .. Len(mng[c])
  PROVE  mng[c][i].vaddr < BUF_PARA_BASE
<1>1. Listing(mng[c]) /\ Granting(granted[c]) /\ Matches(mng[c], granted[c])
  BY DEF Placed
<1>2. PICK k \in 1 .. Len(granted[c]) : mng[c][i].vaddr = granted[c][k].vaddr
  BY <1>1 DEF Matches
<1>3. granted[c][k] \in GrantType /\ InSegment(granted[c][k])
  BY <1>1, ElementOfSeq DEF Granting
<1>4. granted[c][k].type \in {"READ_WRITE", "READ_ONLY"}
  BY <1>3 DEF HasKernelMem, GrantType, BufferType
<1>5. granted[c][k].vaddr \in Nat /\ granted[c][k].size \in Nat \ {0}
  BY <1>3 DEF GrantType
<1>6. granted[c][k].vaddr + granted[c][k].size <= BUF_PARA_BASE
  <2>1. CASE granted[c][k].type = "READ_WRITE"
    BY <1>3, <1>5, <2>1, SegmentFacts, SegmentValues DEF InSegment
  <2>2. CASE granted[c][k].type = "READ_ONLY"
    <3>1. granted[c][k].vaddr + granted[c][k].size <= RWDATA_BASE
      BY <1>3, <2>2, SegmentValues DEF InSegment
    <3>2. granted[c][k].vaddr + granted[c][k].size \in Nat
      BY <1>5, LastUnit
    <3> QED
      BY <3>1, <3>2, SegmentFacts
  <2> QED
    BY <1>4, <2>1, <2>2
<1>7. granted[c][k].vaddr < BUF_PARA_BASE
  BY <1>5, <1>6, SegmentFacts, LastUnit
<1> QED
  BY <1>2, <1>7

(* allocMemory: the first buffer of a list, or one in a gap.               *)
LEMMA AllocPlaces ==
  ASSUME NEW m, NEW c \in DOMAIN m, Listing(m[c]), NEW n \in Nat, NEW type \in BufferType,
         type # "KERNEL_MEM" => \A i \in 1 .. Len(m[c]) : m[c][i].vaddr < BUF_PARA_BASE,
         NEW v, v = GrantedVaddr(m, c, n, type), v # 0
  PROVE  /\ n \in Nat \ {0} /\ v \in Nat /\ Aligned(v)
         /\ InSegment([type |-> type, vaddr |-> v, size |-> n])
         /\ \E t, p : /\ AllocMemory(m, c, n, type) = [m EXCEPT ![c] = t]
                      /\ t \in Seq(ItemType) /\ Listing(t)
                      /\ Slot(m[c], p, v, n) /\ HasInserted(t, m[c], p, Item(v, n))
<1> DEFINE g == [type |-> type, vaddr |-> v, size |-> n]
           l == m[c]
           a == AllocMemory(m, c, n, type)
<1>1. n \in Nat \ {0} /\ n < SizeLimit(type)
  <2>1. SizeLimit(type) \in Nat
    BY SegmentFacts, SegmentValues DEF BufferType
  <2>2. ~(n = 0 \/ n >= SizeLimit(type))
    BY DEF GrantedVaddr
  <2> QED
    BY <2>1, <2>2
<1>2. CASE l = << >>
  <2>1. v = SegmentBase(type) /\ a = [m EXCEPT ![c] = << Item(v, n) >>]
    BY <1>1, <1>2 DEF GrantedVaddr, AllocMemory
  <2>2. /\ v \in Nat /\ Aligned(v) /\ v \in Bases
        /\ SegmentBase(type) <= v /\ v + n <= SegmentEnd(type)
    BY <1>1, <2>1, SegmentFacts, SegmentValues DEF BufferType, Bases
  <2>3. Item(v, n) \in ItemType /\ Within(Item(v, n), type) /\ InSegment(g)
    BY <1>1, <2>2 DEF Item, ItemType, Within, InSegment
  <2>4. Len(l) = 0 /\ << Item(v, n) >> \in Seq(ItemType)
    BY <1>2, <2>3
  <2>5. Slot(l, 1, v, n) /\ HasInserted(<< Item(v, n) >>, l, 1, Item(v, n))
    BY <2>4 DEF Slot, HasInserted
  <2>6. Listing(<< Item(v, n) >>)
    BY <1>1, <2>1, <2>2, <2>3, <2>4, <2>5, ListingInserted
  <2> QED
    BY <1>1, <2>1, <2>2, <2>3, <2>4, <2>5, <2>6
<1>3. CASE l # << >>
  <2> DEFINE s == AllocVaddr(l, n, type)
             t == InsertNewItem(l, s.pos, Item(s.vaddr, n))
  <2>1. v = s.vaddr /\ a = [m EXCEPT ![c] = t]
    BY <1>1, <1>3 DEF GrantedVaddr, AllocMemory
  <2> HIDE DEF l
  <2>2. Good(l, s, n, type)
    BY <1>1, <1>3, <2>1, AllocVaddrGood DEF l
  <2> HIDE DEF s
  <2>3. /\ Listing(t)
        /\ \E p : Slot(l, p, s.vaddr, n) /\ HasInserted(t, l, p, Item(s.vaddr, n))
    BY <1>1, <2>2, InsertNewItemFacts DEF l
  <2>4. v \in Nat /\ Aligned(v) /\ InSegment(g)
    BY <2>1, <2>2 DEF Good, InSegment
  <2> HIDE DEF t
  <2>5. t \in Seq(ItemType)
    BY <2>3 DEF Listing
  <2> QED
    BY <1>1, <2>1, <2>3, <2>4, <2>5 DEF l
<1> QED
  BY <1>2, <1>3

(* allocMemory: refused, the first buffer of a list, or one in a gap.      *)
LEMMA AllocKeeps ==
  ASSUME Placed, NEW c \in DOMAIN granted, NEW n \in 0 .. MaxSize, NEW type \in BufferType,
         HasKernelMem(c) => type = "KERNEL_MEM", Alloc(c, n, type)
  PROVE  Placed'
<1> DEFINE v == GrantedVaddr(mng, c, n, type)
           g == [type |-> type, vaddr |-> v, size |-> n]
           l == mng[c]
<1>1. CASE v = 0
  <2>1. mng' = mng /\ granted' = granted
    BY <1>1 DEF Alloc, AllocMemory
  <2> HIDE DEF Listing, Granting, Matches
  <2> QED
    BY <2>1 DEF Placed
<1>2. CASE v # 0
  <2>1. c \in DOMAIN mng /\ n \in Nat \ {0} /\ n < SizeLimit(type)
    <3>1. SizeLimit(type) \in Nat
      BY SegmentFacts, SegmentValues DEF BufferType
    <3>2. ~(n = 0 \/ c \notin DOMAIN mng \/ n >= SizeLimit(type))
      BY <1>2 DEF GrantedVaddr
    <3>3. n \in Nat
      BY SegmentAssumption
    <3> QED
      BY <3>1, <3>2, <3>3
  <2>2. /\ Listing(l) /\ Granting(granted[c]) /\ Matches(l, granted[c])
        /\ Len(l) \in Nat
    BY <2>1, LenProperties DEF Placed, Listing
  <2>3. \E t, p :
          /\ mng' = [mng EXCEPT ![c] = t] /\ t \in Seq(ItemType) /\ Listing(t)
          /\ Slot(l, p, v, n) /\ HasInserted(t, l, p, Item(v, n))
          /\ v \in Nat /\ Aligned(v) /\ InSegment(g)
    <3>1. type # "KERNEL_MEM" => \A i \in 1 .. Len(l) : l[i].vaddr < BUF_PARA_BASE
      BY <2>1, NoKernelMem
    <3>2. mng' = AllocMemory(mng, c, n, type)
      BY DEF Alloc
    <3> QED
      BY <1>2, <2>1, <2>2, <3>1, <3>2, AllocPlaces
  <2>4. granted' = [granted EXCEPT ![c] = Append(granted[c], g)]
    BY <1>2 DEF Alloc
  <2> HIDE DEF v
  <2>5. PICK t, p :
          /\ mng' = [mng EXCEPT ![c] = t] /\ t \in Seq(ItemType) /\ Listing(t)
          /\ Slot(l, p, v, n) /\ HasInserted(t, l, p, Item(v, n))
          /\ v \in Nat /\ Aligned(v) /\ InSegment(g)
    BY <2>3
  <2>6. g \in GrantType /\ g.vaddr = v /\ g.size = n
    BY <2>1, <2>5 DEF GrantType
  <2> HIDE DEF g, l
  <2>7. Granting(Append(granted[c], g))
    BY <2>2, <2>5, <2>6, NewGrantFits DEF Matches
  <2>8. Matches(t, Append(granted[c], g))
    <3>1. p \in 1 .. Len(l) + 1 /\ granted[c] \in Seq(GrantType)
      BY <2>2, <2>5 DEF Slot, Granting
    <3> QED
      BY <2>2, <2>5, <2>6, <3>1, MatchesInserted
  <2> HIDE DEF Listing, Granting, Matches
  <2>9. /\ DOMAIN mng' = DOMAIN mng /\ DOMAIN granted' = DOMAIN granted
        /\ \A d \in DOMAIN mng : mng'[d] = IF d = c THEN t ELSE mng[d]
        /\ \A d \in DOMAIN granted :
             granted'[d] = IF d = c THEN Append(granted[c], g) ELSE granted[d]
    BY <2>4, <2>5
  <2> QED
    BY <2>5, <2>7, <2>8, <2>9 DEF Placed
<1> QED
  BY <1>1, <1>2

(* The invariant is inductive.                                             *)
LEMMA PlacedInit == AMInit => Placed
BY DEF AMInit, Placed

LEMMA PlacedStep == Placed /\ [KernelLastNext]_amVars => Placed'
<1> SUFFICES ASSUME Placed, [KernelLastNext]_amVars PROVE Placed'
  OBVIOUS
<1>1. CASE \E c \in Contexts : Create(c)
  BY <1>1, CreateKeeps
<1>2. CASE \E c \in DOMAIN granted : \E n \in 0 .. MaxSize, type \in BufferType :
             (HasKernelMem(c) => type = "KERNEL_MEM") /\ Alloc(c, n, type)
  BY <1>2, AllocKeeps
<1>3. CASE \E c \in DOMAIN granted : \E g \in ToSet(granted[c]) : Free(c, g.vaddr)
  BY <1>3, FreeKeeps
<1>4. CASE UNCHANGED amVars
  BY <1>4 DEF amVars, Placed
<1> QED
  BY <1>1, <1>2, <1>3, <1>4 DEF KernelLastNext

-----------------------------------------------------------------------------
(* Lists and grants keep their types (AMTypeOK).                           *)
THEOREM ManagerTypeCorrect == KernelLastSpec => []AMTypeOK
<1>1. Placed => AMTypeOK
  BY DEF Placed, Listing, Granting, AMTypeOK, ItemType, GrantType
<1> QED
  BY <1>1, PlacedInit, PlacedStep, PTL DEF KernelLastSpec

(* driver.h:274 "alloc vaddr to segments(RO, RW, PARA)": whatever the      *)
(* context holds, as long as kernel memory is asked for last               *)
(* (GrantsInSegment).  MCSegments.cfg refutes it for the other orders.     *)
THEOREM BuffersInSegment == KernelLastSpec => []GrantsInSegment
<1>1. Placed => GrantsInSegment
  BY DEF Placed, Granting, GrantsInSegment
<1> QED
  BY <1>1, PlacedInit, PlacedStep, PTL DEF KernelLastSpec

(* driver.h:281-282: no two buffers of a context share a virtual page, for *)
(* any page size and any sizes (GrantsOnOwnPages).                         *)
THEOREM BuffersOnOwnPages == KernelLastSpec => []GrantsOnOwnPages
<1>1. Placed => GrantsOnOwnPages
  BY DEF Placed, Granting, GrantsOnOwnPages
<1> QED
  BY <1>1, PlacedInit, PlacedStep, PTL DEF KernelLastSpec

(* driver.h:371-385: the list stays sorted and holds what the callers were *)
(* granted (ListHoldsGrants).                                              *)
THEOREM ListsHoldGrants == KernelLastSpec => []ListHoldsGrants
<1>1. ASSUME Placed, NEW c \in DOMAIN mng
      PROVE  /\ \A i, j \in 1 .. Len(mng[c]) : i < j => mng[c][i].vaddr < mng[c][j].vaddr
             /\ Len(mng[c]) = Len(granted[c])
             /\ {<<i.vaddr, i.size>> : i \in ToSet(mng[c])}
                  = {<<g.vaddr, g.size>> : g \in ToSet(granted[c])}
  <2>1. /\ Listing(mng[c]) /\ Matches(mng[c], granted[c])
        /\ mng[c] \in Seq(ItemType) /\ granted[c] \in Seq(GrantType)
    BY <1>1 DEF Placed, Listing, Granting
  <2>2. ASSUME NEW i \in 1 .. Len(mng[c]), NEW j \in 1 .. Len(mng[c]), i < j
        PROVE  mng[c][i].vaddr < mng[c][j].vaddr
    <3>1. Behind(mng[c][i]) <= mng[c][j].vaddr
      BY <2>1, <2>2 DEF Listing
    <3>2. /\ mng[c][i].vaddr \in Nat /\ mng[c][i].size \in Nat \ {0} /\ mng[c][j].vaddr \in Nat
          /\ Behind(mng[c][i]) \in Nat
          /\ mng[c][i].vaddr + mng[c][i].size <= Behind(mng[c][i])
      BY <2>1, ItemFacts
    <3> QED
      BY <3>1, <3>2
  <2>3. /\ ToSet(mng[c]) = {mng[c][i] : i \in 1 .. Len(mng[c])}
        /\ ToSet(granted[c]) = {granted[c][k] : k \in 1 .. Len(granted[c])}
    BY <2>1, LenProperties DEF ToSet
  <2>4. {<<i.vaddr, i.size>> : i \in ToSet(mng[c])}
          = {<<g.vaddr, g.size>> : g \in ToSet(granted[c])}
    <3>1. ASSUME NEW i \in 1 .. Len(mng[c])
          PROVE  \E g \in ToSet(granted[c]) :
                   <<mng[c][i].vaddr, mng[c][i].size>> = <<g.vaddr, g.size>>
      BY <2>1, <2>3 DEF Matches
    <3>2. ASSUME NEW k \in 1 .. Len(granted[c])
          PROVE  \E i \in ToSet(mng[c]) :
                   <<granted[c][k].vaddr, granted[c][k].size>> = <<i.vaddr, i.size>>
      <4>1. PICK i \in 1 .. Len(mng[c]) :
              mng[c][i].vaddr = granted[c][k].vaddr /\ mng[c][i].size = granted[c][k].size
        BY <2>1 DEF Matches, Holding
      <4> QED
        BY <2>3, <4>1
    <3>3. \A i \in ToSet(mng[c]) : \E g \in ToSet(granted[c]) :
            <<i.vaddr, i.size>> = <<g.vaddr, g.size>>
      BY <2>3, <3>1
    <3>4. \A g \in ToSet(granted[c]) : \E i \in ToSet(mng[c]) :
            <<g.vaddr, g.size>> = <<i.vaddr, i.size>>
      BY <2>3, <3>2
    <3> HIDE <2>3
    <3> QED
      BY <3>3, <3>4
  <2> QED
    BY <2>1, <2>2, <2>4 DEF Matches, Holding
<1>2. Placed => ListHoldsGrants
  BY <1>1 DEF ListHoldsGrants
<1> QED
  BY <1>2, PlacedInit, PlacedStep, PTL DEF KernelLastSpec

-----------------------------------------------------------------------------
(* A later address is not on an earlier page.                              *)
LEMMA PageOrder ==
  ASSUME NEW x \in Nat, NEW y \in Nat, x <= y
  PROVE  /\ x \div PAGESIZE \in Nat /\ y \div PAGESIZE \in Nat
         /\ x \div PAGESIZE <= y \div PAGESIZE
<1> DEFINE r == x \div PAGESIZE
           t == y \div PAGESIZE
<1>1. PAGESIZE \in Nat \ {0}
  BY SegmentAssumption
<1>2. r \in Nat /\ x % PAGESIZE \in 0 .. PAGESIZE - 1 /\ x = r * PAGESIZE + (x % PAGESIZE)
  BY <1>1, PageOf
<1>3. t \in Nat /\ y % PAGESIZE \in 0 .. PAGESIZE - 1 /\ y = t * PAGESIZE + (y % PAGESIZE)
  BY <1>1, PageOf
<1> HIDE DEF r, t
<1>4. r * PAGESIZE \in Nat /\ t * PAGESIZE \in Nat /\ (t + 1) * PAGESIZE = t * PAGESIZE + PAGESIZE
  BY <1>1, <1>2, <1>3
<1>5. r * PAGESIZE < (t + 1) * PAGESIZE
  BY <1>1, <1>2, <1>3, <1>4
<1>6. r <= t
  BY <1>1, <1>2, <1>3, <1>5, PageSteps
<1> QED
  BY <1>2, <1>3, <1>6 DEF r, t

(* Room that no page of a listed buffer touches is behind some item, from  *)
(* any item on that lies below it.                                         *)
LEMMA RoomIsGap ==
  ASSUME NEW l, Listing(l), NEW n \in Nat \ {0}, NEW a \in Nat, Aligned(a),
         NEW f \in 1 .. Len(l), l[f].vaddr <= a,
         \A i \in 1 .. Len(l) :
           PagesOfGrant(l[i]) \cap PagesOfGrant([vaddr |-> a, size |-> n]) = {}
  PROVE  \E j \in f .. Len(l) :
           Behind(l[j]) <= a /\ (j = Len(l) \/ Behind(l[j]) + n <= l[j + 1].vaddr)
<1> DEFINE below == {i \in f .. Len(l) : l[i].vaddr <= a}
           j == Max(below)
           last == (a + n - 1) \div PAGESIZE
<1>0. Len(l) \in Nat /\ f \in Nat
  BY LenProperties DEF Listing
<1>1. j \in below /\ \A i \in below : j >= i
  <2>1. below \subseteq f .. Len(l) /\ f \in below /\ f \in Int /\ Len(l) \in Int
    BY <1>0
  <2> HIDE DEF below
  <2> QED
    BY <2>1, MaxFacts
<1>2. j \in 1 .. Len(l) /\ j \in f .. Len(l) /\ l[j].vaddr <= a
  BY <1>0, <1>1
<1>3. j # Len(l) => j + 1 \in 1 .. Len(l) /\ ~(l[j + 1].vaddr <= a)
  <2>1. j # Len(l) => j + 1 \in f .. Len(l) /\ j + 1 \in 1 .. Len(l) /\ ~(j >= j + 1)
    BY <1>0, <1>2
  <2>2. j + 1 \in f .. Len(l) /\ l[j + 1].vaddr <= a => j + 1 \in below
    OBVIOUS
  <2> HIDE DEF j, below
  <2> QED
    BY <1>1, <2>1, <2>2
<1> HIDE DEF j, below
<1>4. \A i \in 1 .. Len(l) :
        /\ l[i].vaddr \in Nat /\ l[i].size \in Nat \ {0} /\ Behind(l[i]) \in Nat
        /\ l[i].vaddr + l[i].size - 1 \in Nat
        /\ PagesOfGrant(l[i])
             = l[i].vaddr \div PAGESIZE .. (l[i].vaddr + l[i].size - 1) \div PAGESIZE
  BY ItemFacts DEF PagesOfGrant
<1>5. PagesOfGrant([vaddr |-> a, size |-> n]) = a \div PAGESIZE .. last /\ a + n - 1 \in Nat
      /\ a <= a + n - 1
  BY DEF PagesOfGrant
<1>6. a \div PAGESIZE \in Nat /\ last \in Nat /\ a \div PAGESIZE <= last
  BY <1>5, PageOrder
<1> HIDE DEF last
<1>7. Behind(l[j]) <= a
  <2>1. /\ l[j].vaddr \in Nat /\ l[j].size \in Nat \ {0} /\ l[j].vaddr + l[j].size - 1 \in Nat
        /\ l[j].vaddr + l[j].size \in Nat
    BY <1>2, <1>4, LastUnit
  <2>2. ASSUME a <= l[j].vaddr + l[j].size - 1 PROVE FALSE
    <3>1. /\ l[j].vaddr \div PAGESIZE \in Nat
          /\ l[j].vaddr \div PAGESIZE <= a \div PAGESIZE
      BY <1>2, <2>1, PageOrder
    <3>2. /\ (l[j].vaddr + l[j].size - 1) \div PAGESIZE \in Nat
          /\ a \div PAGESIZE <= (l[j].vaddr + l[j].size - 1) \div PAGESIZE
      BY <2>1, <2>2, PageOrder
    <3>3. a \div PAGESIZE \in PagesOfGrant(l[j])
      <4> DEFINE lo == l[j].vaddr \div PAGESIZE
                 hi == (l[j].vaddr + l[j].size - 1) \div PAGESIZE
                 page == a \div PAGESIZE
      <4>1. PagesOfGrant(l[j]) = lo .. hi
        BY <1>2, <1>4
      <4>2. /\ lo \in Nat /\ hi \in Nat /\ page \in Nat
            /\ lo <= page /\ page <= hi
        BY <1>6, <3>1, <3>2
      <4> HIDE DEF lo, hi, page
      <4>3. page \in PagesOfGrant(l[j])
        BY <4>1, <4>2
      <4> QED
        BY <4>3 DEF page
    <3>4. a \div PAGESIZE \in PagesOfGrant([vaddr |-> a, size |-> n])
      BY <1>5, <1>6
    <3> QED
      BY <1>2, <3>3, <3>4
  <2>3. l[j].vaddr + l[j].size <= a
    BY <2>1, <2>2, LastUnit
  <2>4. PageUp(l[j].vaddr + l[j].size) <= a
    BY <2>1, <2>3, PageUpFacts
  <2> QED
    BY <2>4 DEF Behind
<1>8. ASSUME j # Len(l) PROVE a + n <= l[j + 1].vaddr
  <2>1. /\ j + 1 \in 1 .. Len(l) /\ l[j + 1].vaddr \in Nat /\ a <= l[j + 1].vaddr
        /\ l[j + 1].size \in Nat \ {0} /\ l[j + 1].vaddr + l[j + 1].size - 1 \in Nat
        /\ l[j + 1].vaddr <= l[j + 1].vaddr + l[j + 1].size - 1
    <3>1. j + 1 \in 1 .. Len(l) /\ ~(l[j + 1].vaddr <= a)
      BY <1>3, <1>8
    <3>2. l[j + 1].vaddr \in Nat /\ l[j + 1].size \in Nat \ {0}
      BY <1>4, <3>1
    <3> QED
      BY <3>1, <3>2, LastUnit
  <2>2. ASSUME l[j + 1].vaddr <= a + n - 1 PROVE FALSE
    <3>1. /\ l[j + 1].vaddr \div PAGESIZE \in Nat
          /\ a \div PAGESIZE <= l[j + 1].vaddr \div PAGESIZE
      BY <2>1, PageOrder
    <3>2. l[j + 1].vaddr \div PAGESIZE <= last
      BY <1>5, <2>1, <2>2, PageOrder DEF last
    <3>3. l[j + 1].vaddr \div PAGESIZE \in PagesOfGrant([vaddr |-> a, size |-> n])
      BY <1>5, <1>6, <3>1, <3>2
    <3>4. /\ (l[j + 1].vaddr + l[j + 1].size - 1) \div PAGESIZE \in Nat
          /\ l[j + 1].vaddr \div PAGESIZE <= (l[j + 1].vaddr + l[j + 1].size - 1) \div PAGESIZE
      BY <2>1, PageOrder
    <3>5. l[j + 1].vaddr \div PAGESIZE \in PagesOfGrant(l[j + 1])
      <4> DEFINE lo == l[j + 1].vaddr \div PAGESIZE
                 hi == (l[j + 1].vaddr + l[j + 1].size - 1) \div PAGESIZE
      <4>1. PagesOfGrant(l[j + 1]) = lo .. hi
        BY <1>4, <2>1
      <4>2. lo \in Nat /\ hi \in Nat /\ lo <= hi
        BY <3>1, <3>4
      <4> HIDE DEF lo, hi
      <4>3. lo \in PagesOfGrant(l[j + 1])
        BY <4>1, <4>2
      <4> QED
        BY <4>3 DEF lo
    <3> QED
      BY <2>1, <3>3, <3>5
  <2> QED
    BY <2>1, <2>2
<1>9. j # Len(l) => Behind(l[j]) + n <= l[j + 1].vaddr
  <2>1. j # Len(l) => l[j + 1].vaddr \in Nat
    BY <1>3, <1>4
  <2>2. Behind(l[j]) \in Nat
    BY <1>2, <1>4
  <2> QED
    BY <1>7, <1>8, <2>1, <2>2
<1> QED
  BY <1>2, <1>7, <1>9

(* The segment's first gap of this size is not behind the room there is.   *)
LEMMA GapBeforeRoom ==
  ASSUME NEW l, Listing(l), NEW n \in Nat \ {0}, NEW a \in Nat, Aligned(a),
         NEW from \in 1 .. Len(l), l[from].vaddr <= a, NEW limit \in Nat,
         \A i \in 1 .. Len(l) :
           PagesOfGrant(l[i]) \cap PagesOfGrant([vaddr |-> a, size |-> n]) = {}
  PROVE  Behind(l[GapFrom(l, from, limit, n)]) <= a
<1> DEFINE k == GapFrom(l, from, limit, n)
<1>0. Len(l) \in Nat
  BY LenProperties DEF Listing
<1>1. PICK j \in from .. Len(l) :
        Behind(l[j]) <= a /\ (j = Len(l) \/ Behind(l[j]) + n <= l[j + 1].vaddr)
  BY RoomIsGap
<1>2. /\ k \in from .. Len(l)
      /\ \A i \in from .. Len(l) : i # Len(l) /\ Behind(l[i]) + n <= l[i + 1].vaddr => k <= i
  BY GapFound
<1> HIDE DEF k
<1>3. k <= j /\ k \in 1 .. Len(l) /\ j \in 1 .. Len(l)
  <2>1. k \in 1 .. Len(l) /\ j \in 1 .. Len(l) /\ k <= Len(l)
    BY <1>0, <1>1, <1>2
  <2>2. CASE j = Len(l)
    BY <2>1, <2>2
  <2>3. CASE j # Len(l)
    BY <1>1, <1>2, <2>1, <2>3
  <2> QED
    BY <2>1, <2>2, <2>3
<1>4. k = j \/ Behind(l[k]) <= l[j].vaddr
  BY <1>0, <1>3 DEF Listing
<1>5. /\ l[j].vaddr \in Nat /\ l[j].size \in Nat \ {0} /\ Behind(l[j]) \in Nat
      /\ Behind(l[k]) \in Nat /\ l[j].vaddr + l[j].size <= Behind(l[j])
  BY <1>3, ItemFacts
<1> QED
  BY <1>1, <1>4, <1>5 DEF k

(* allocVaddr finds a place whenever the segment has room.                 *)
LEMMA FoundWhenRoom ==
  ASSUME NEW l, Listing(l), l # << >>, NEW type \in BufferType, NEW n \in Nat \ {0},
         type # "KERNEL_MEM" => \A i \in 1 .. Len(l) : l[i].vaddr < BUF_PARA_BASE,
         NEW a \in Nat, Aligned(a), SegmentBase(type) <= a, a + n <= SegmentEnd(type),
         \A i \in 1 .. Len(l) :
           PagesOfGrant(l[i]) \cap PagesOfGrant([vaddr |-> a, size |-> n]) = {}
  PROVE  AllocVaddr(l, n, type).vaddr # 0
<1>0. Len(l) \in Nat /\ 1 \in 1 .. Len(l) /\ l \in Seq(ItemType)
  BY LenProperties, EmptySeq DEF Listing
<1>1. \A i \in 1 .. Len(l) :
        /\ l[i].vaddr \in Nat /\ l[i].size \in Nat \ {0} /\ Behind(l[i]) \in Nat
        /\ l[i].vaddr + l[i].size <= Behind(l[i])
  BY ItemFacts
<1>2. CASE type = "READ_ONLY"
  <2> DEFINE k == GapFrom(l, 1, RWDATA_BASE, n)
             v == Behind(l[k])
  <2>1. CASE l[1].vaddr # RODATA_BASE
    <3>1. ReadOnlySpot(l, n).vaddr = RODATA_BASE
      BY <2>1 DEF ReadOnlySpot, Spot
    <3> QED
      BY <1>2, <3>1, SegmentFacts DEF AllocVaddr
  <2>2. CASE l[1].vaddr = RODATA_BASE
    <3>1. l[1].vaddr <= a /\ a + n <= RWDATA_BASE
      BY <1>2, <2>2, SegmentValues
    <3>2. k \in 1 .. Len(l)
      BY <1>0, SegmentFacts, GapFound
    <3>3. v <= a
      BY <1>0, <3>1, SegmentFacts, GapBeforeRoom
    <3>4. v \in Nat /\ v # 0
      BY <1>1, <3>2
    <3> HIDE DEF k
    <3>5. ~(v + n > RWDATA_BASE)
      BY <3>1, <3>3, <3>4, SegmentFacts
    <3>6. ReadOnlySpot(l, n) = Spot(k, v)
      BY <2>2, <3>5 DEF ReadOnlySpot, k
    <3> QED
      BY <1>2, <3>4, <3>6 DEF AllocVaddr, Spot
  <2> QED
    BY <2>1, <2>2
<1>3. ASSUME type # "READ_ONLY", NEW earlier, earlier = {b \in Bases : b < SegmentBase(type)}
      PROVE  LaterSpot(l, earlier, SegmentBase(type), SegmentEnd(type), n).vaddr # 0
  <2> DEFINE base == SegmentBase(type)
             limit == SegmentEnd(type)
             above == {i \in 1 .. Len(l) : l[i].vaddr >= base}
             from == IF l[1].vaddr \in earlier THEN Min(above) ELSE 1
             k == GapFrom(l, from, limit, n)
             v == Behind(l[k])
  <2>1. base \in Nat /\ limit \in Nat /\ base # 0
    BY <1>3, SegmentFacts, SegmentValues DEF BufferType
  <2>2. CASE l[1].vaddr \in earlier /\ above = {}
    BY <2>1, <2>2 DEF LaterSpot, Spot
  <2>3. CASE ~(l[1].vaddr \in earlier /\ above = {})
    <3>1. from \in 1 .. Len(l) /\ l[from].vaddr >= base /\ \A i \in above : from <= i
      <4>1. CASE l[1].vaddr \in earlier
        <5>1. above \subseteq 1 .. Len(l) /\ above # {} /\ 1 \in Int /\ Len(l) \in Int
          BY <1>0, <2>3, <4>1
        <5> HIDE DEF above
        <5>2. Min(above) \in above /\ \A i \in above : Min(above) <= i
          BY <5>1, MinFacts
        <5>3. from = Min(above)
          BY <4>1
        <5> HIDE DEF from
        <5> QED
          BY <5>2, <5>3 DEF above
      <4>2. CASE l[1].vaddr \notin earlier
        <5>1. l[1].vaddr \in Bases
          BY <1>0 DEF Listing
        <5> QED
          BY <1>0, <1>1, <1>3, <2>1, <4>2, <5>1
      <4> QED
        BY <4>1, <4>2
    <3> HIDE DEF from
    <3>2. l[from].vaddr < limit
      <4>1. CASE type = "READ_WRITE"
        BY <3>1, <4>1, SegmentValues
      <4>2. CASE type = "KERNEL_MEM"
        BY <3>1, <4>2, SegmentValues, ItemFacts
      <4> QED
        BY <1>3, <4>1, <4>2 DEF BufferType
    <3>3. Headed(l, type)
      BY <3>1, <3>2, SegmentUsed
    <3>4. PICK i \in 1 .. Len(l) : l[i].vaddr = base
      BY <3>3 DEF Headed
    <3>5. l[from].vaddr <= a
      <4>1. i \in above /\ from <= i
        BY <2>1, <3>1, <3>4
      <4>2. from = i \/ Behind(l[from]) <= l[i].vaddr
        BY <1>0, <3>1, <4>1 DEF Listing
      <4>3. /\ l[from].vaddr \in Nat /\ l[from].size \in Nat /\ Behind(l[from]) \in Nat
            /\ l[from].vaddr + l[from].size <= Behind(l[from])
        BY <1>1, <3>1
      <4> HIDE DEF base
      <4>4. l[from].vaddr <= base
        BY <2>1, <3>4, <4>2, <4>3
      <4> QED
        BY <2>1, <4>3, <4>4 DEF base
    <3>6. k \in from .. Len(l)
      BY <2>1, <3>1, GapFound
    <3>7. v <= a
      BY <2>1, <3>1, <3>5, GapBeforeRoom
    <3> HIDE DEF k
    <3>8. v \in Nat /\ v # 0
      <4>1. k \in 1 .. Len(l)
        BY <1>0, <3>1, <3>6
      <4> QED
        BY <1>1, <4>1
    <3>9. ~(v + n > limit)
      BY <2>1, <3>7, <3>8
    <3>10. LaterSpot(l, earlier, base, limit, n) = Spot(k, v)
      BY <2>3, <3>9 DEF LaterSpot, k, from
    <3> QED
      BY <3>8, <3>10 DEF Spot
  <2> QED
    BY <2>2, <2>3
<1>4. CASE type = "READ_WRITE"
  <2>1. AllocVaddr(l, n, type)
          = LaterSpot(l, {RODATA_BASE}, SegmentBase(type), SegmentEnd(type), n)
    BY <1>4, SegmentValues DEF AllocVaddr
  <2>2. {RODATA_BASE} = {b \in Bases : b < SegmentBase(type)}
    BY <1>4, SegmentFacts, SegmentValues DEF Bases
  <2> QED
    BY <1>3, <1>4, <2>1, <2>2
<1>5. CASE type = "KERNEL_MEM"
  <2>1. AllocVaddr(l, n, type)
          = LaterSpot(l, {RODATA_BASE, RWDATA_BASE}, SegmentBase(type), SegmentEnd(type), n)
    BY <1>5, SegmentValues DEF AllocVaddr
  <2>2. {RODATA_BASE, RWDATA_BASE} = {b \in Bases : b < SegmentBase(type)}
    BY <1>5, SegmentFacts, SegmentValues DEF Bases
  <2> QED
    BY <1>3, <1>5, <2>1, <2>2
<1> QED
  BY <1>2, <1>4, <1>5 DEF BufferType

(* driver.h:295-365: a request is refused only when no page-aligned place  *)
(* of its segment has room (RefusedOnlyWhenFull): the gap search, which    *)
(* looks at one list for three segments, misses none.                      *)
THEOREM RefusalsJustified == KernelLastSpec => []RefusedOnlyWhenFull
<1>1. ASSUME Placed, NEW c \in DOMAIN mng, NEW type \in BufferType,
             NEW n \in 1 .. SizeLimit(type) - 1,
             HasKernelMem(c) => type = "KERNEL_MEM", Room(c, n, type)
      PROVE  GrantedVaddr(mng, c, n, type) # 0
  <2> DEFINE l == mng[c]
  <2>1. Listing(l) /\ Matches(l, granted[c]) /\ granted[c] \in Seq(GrantType)
    BY <1>1 DEF Placed, Granting
  <2>2. SizeLimit(type) \in Nat /\ SegmentBase(type) \in Nat \ {0} /\ SegmentEnd(type) \in Nat
    BY SegmentFacts, SegmentValues DEF BufferType
  <2>3. n \in Nat \ {0} /\ ~(n >= SizeLimit(type))
    BY <2>2
  <2>4. CASE l = << >>
    BY <2>2, <2>3, <2>4 DEF GrantedVaddr
  <2>5. CASE l # << >>
    <3>1. PICK a \in SegmentBase(type) .. SegmentEnd(type) - n :
            /\ OnPage(a)
            /\ \A g \in ToSet(granted[c]) :
                 PagesOfGrant(g) \cap PagesOfGrant([vaddr |-> a, size |-> n]) = {}
      BY <1>1 DEF Room
    <3>2. a \in Nat /\ SegmentBase(type) <= a /\ a + n <= SegmentEnd(type)
      BY <2>2, <2>3
    <3>3. Aligned(a)
      BY <3>1, <3>2, AlignedByRest
    <3>4. ASSUME NEW i \in 1 .. Len(l)
          PROVE  PagesOfGrant(l[i]) \cap PagesOfGrant([vaddr |-> a, size |-> n]) = {}
      <4>1. PICK k \in 1 .. Len(granted[c]) :
              l[i].vaddr = granted[c][k].vaddr /\ l[i].size = granted[c][k].size
        BY <2>1 DEF Matches
      <4>2. granted[c][k] \in ToSet(granted[c])
        BY <2>1, LenProperties DEF ToSet
      <4>3. PagesOfGrant(l[i]) = PagesOfGrant(granted[c][k])
        BY <4>1 DEF PagesOfGrant
      <4> QED
        BY <3>1, <4>2, <4>3
    <3>5. type # "KERNEL_MEM" => \A i \in 1 .. Len(l) : l[i].vaddr < BUF_PARA_BASE
      BY <1>1, NoKernelMem
    <3> HIDE DEF l
    <3>6. AllocVaddr(l, n, type).vaddr # 0
      BY <2>1, <2>3, <2>5, <3>2, <3>3, <3>4, <3>5, FoundWhenRoom
    <3> QED
      BY <2>3, <2>5, <3>6 DEF GrantedVaddr, l
  <2> QED
    BY <2>4, <2>5
<1>2. Placed => RefusedOnlyWhenFull
  BY <1>1 DEF RefusedOnlyWhenFull
<1> QED
  BY <1>2, PlacedInit, PlacedStep, PTL DEF KernelLastSpec
=============================================================================
