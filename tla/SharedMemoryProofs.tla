------------------------ MODULE SharedMemoryProofs ---------------------------
(***************************************************************************)
(* Theorems about SharedMemory: whatever the sizes, layouts, contexts,     *)
(* images and bounds, a granted buffer is an array of its own, for the     *)
(* client that copies as for the kernels that run.                         *)
(*                                                                         *)
(* The inductive invariant SMInv has three layers.  Intact relates the     *)
(* driver's records to the RAM: the tables of a context map its granted    *)
(* buffers and nothing else, and no page is reached twice.  DeviceOk and   *)
(* LatchOk tie m_root_ and the held access to a context whose buffers stay *)
(* where they are while it runs.  ProgramsStand keeps the first program of *)
(* a context where kernels start.                                          *)
(*                                                                         *)
(* Each of the driver's calls is first described by what it leaves alone   *)
(* (Kept, KeepsAll) and by the one thing it adds, removes or overwrites    *)
(* (AddsContext, AddsBuffer, StoresWords, ...).  Every part of SMInv, and  *)
(* the refinement of DeviceBuffers, follows from these descriptions.       *)
(***************************************************************************)
EXTENDS SharedMemory, MemoryProofs, AddressManagerProofs, FiniteSetTheorems

-----------------------------------------------------------------------------
(* The numbers the driver counts with.                                     *)
LEMMA Units ==
  /\ PAGESIZE \in Nat \ {0} /\ PageElem = PAGESIZE /\ Offsets = 0 .. PAGESIZE - 1
  /\ CHUNK \in Nat \ {0} /\ MaxRange \in Nat /\ Reserved \in Nat \ {0}
BY PhysicalAssumption, SegmentAssumption, DriverAssumption DEF Offsets

LEMMA DivOf ==
  ASSUME NEW q \in Nat, NEW t \in 0 .. PAGESIZE - 1, NEW x \in Nat, x = q * PAGESIZE + t
  PROVE  x \div PAGESIZE = q /\ x % PAGESIZE = t
<1>1. x = PAGESIZE * q + t  BY Units
<1> QED  BY <1>1, Units, DivUnique

LEMMA DivMono ==
  ASSUME NEW x \in Nat, NEW y \in Nat, x <= y
  PROVE  x \div PAGESIZE <= y \div PAGESIZE
<1> DEFINE a == x \div PAGESIZE
           b == y \div PAGESIZE
<1>1. a \in Nat /\ x % PAGESIZE \in 0 .. PAGESIZE - 1 /\ x = a * PAGESIZE + (x % PAGESIZE)
  BY Units, PageOf
<1>2. b \in Nat /\ y % PAGESIZE \in 0 .. PAGESIZE - 1 /\ y = b * PAGESIZE + (y % PAGESIZE)
  BY Units, PageOf
<1> HIDE DEF a, b
<1>3. a * PAGESIZE \in Nat /\ b * PAGESIZE \in Nat /\ (b + 1) * PAGESIZE = b * PAGESIZE + PAGESIZE
  BY <1>1, <1>2, Units
<1>4. a * PAGESIZE < (b + 1) * PAGESIZE  BY <1>1, <1>2, <1>3, Units
<1>5. a <= b  BY <1>1, <1>2, <1>4, Units, PageSteps
<1> QED  BY <1>5 DEF a, b

(* A buffer as the address manager grants it.                              *)
Buffer(g) == g \in GrantType /\ InSegment(g) /\ Aligned(g.vaddr)
FirstPage(g) == g.vaddr \div PAGESIZE

(* It takes whole pages of the address space.                              *)
LEMMA BufferPlace ==
  ASSUME NEW g, Buffer(g)
  PROVE  /\ g.vaddr \in Nat \ {0} /\ g.size \in Nat \ {0}
         /\ FirstPage(g) \in Nat /\ NumPages(g.size) \in Nat \ {0}
         /\ g.vaddr = FirstPage(g) * PAGESIZE
         /\ PagesOfGrant(g) = FirstPage(g) .. FirstPage(g) + NumPages(g.size) - 1
         /\ PagesOfGrant(g) \subseteq VPages
         /\ \A x \in Nat : g.vaddr <= x /\ x < g.vaddr + g.size =>
              x \div PAGESIZE \in PagesOfGrant(g) /\ x % PAGESIZE \in Offsets
<1>1. g.vaddr \in Nat /\ g.size \in Nat \ {0} /\ g.type \in BufferType
  BY DEF Buffer, GrantType
<1>2. PICK q \in Nat : g.vaddr = q * PAGESIZE  BY DEF Buffer, Aligned
<1>3. RODATA_BASE <= g.vaddr /\ g.vaddr + g.size <= BUF_PARA_END
  BY <1>1, SegmentFacts, SegmentValues DEF Buffer, InSegment, BufferType
<1>4. FirstPage(g) = q
  <2>1. g.vaddr = q * PAGESIZE + 0 /\ 0 \in 0 .. PAGESIZE - 1  BY <1>1, <1>2, Units
  <2> QED  BY <1>1, <2>1, DivOf DEF FirstPage
<1> DEFINE e == g.size - 1
           f == e \div PAGESIZE
<1>5. e \in Nat /\ f \in Nat /\ e % PAGESIZE \in 0 .. PAGESIZE - 1
      /\ e = f * PAGESIZE + (e % PAGESIZE)
  <2>1. e \in Nat  BY <1>1
  <2> HIDE DEF e
  <2> QED  BY <2>1, Units, PageOf
<1>6. g.size = e + 1  BY <1>1
<1> HIDE DEF e, f
<1>7. (q + f) * PAGESIZE = q * PAGESIZE + f * PAGESIZE /\ (f + 1) * PAGESIZE = f * PAGESIZE + PAGESIZE
      /\ q * PAGESIZE \in Nat /\ f * PAGESIZE \in Nat
  BY <1>2, <1>5, Units
<1>8. (g.vaddr + g.size - 1) \div PAGESIZE = q + f
  <2> DEFINE x == g.vaddr + g.size - 1
             t == q + f
  <2>1. x = t * PAGESIZE + (e % PAGESIZE) /\ x \in Nat /\ t \in Nat
    BY <1>1, <1>2, <1>5, <1>6, <1>7
  <2> HIDE DEF x, t
  <2>2. x \div PAGESIZE = t  BY <2>1, <1>5, DivOf
  <2> QED  BY <2>2 DEF x, t
<1>9. NumPages(g.size) = f + 1
  <2> DEFINE x == g.size + PAGESIZE - 1
             t == f + 1
  <2>1. x = t * PAGESIZE + (e % PAGESIZE) /\ x \in Nat /\ t \in Nat
    BY <1>5, <1>6, <1>7, Units
  <2> HIDE DEF x, t
  <2>2. x \div PAGESIZE = t  BY <2>1, <1>5, DivOf
  <2> QED  BY <2>2 DEF x, t, NumPages
<1>10. PagesOfGrant(g) = FirstPage(g) .. FirstPage(g) + NumPages(g.size) - 1
  <2>1. q + NumPages(g.size) - 1 = q + f  BY <1>5, <1>9
  <2> QED  BY <1>4, <1>8, <2>1 DEF PagesOfGrant, FirstPage
<1>11. PagesOfGrant(g) \subseteq VPages
  <2>1. g.vaddr + g.size - 1 \in Nat /\ g.vaddr + g.size - 1 < BUF_PARA_END
    BY <1>1, <1>3, SegmentFacts
  <2>2. (g.vaddr + g.size - 1) \div PAGESIZE < BUF_PARA_END \div PAGESIZE
    BY <2>1, SegmentFacts, PagesApart
  <2> DEFINE top == PageElem * PageElem * PageElem
  <2>3. top \in Nat /\ VPages = 0 .. top - 1  BY Units DEF VPages
  <2>4. BUF_PARA_END \div PAGESIZE <= top /\ BUF_PARA_END \div PAGESIZE \in Nat
    BY DriverAssumption, SegmentFacts, Units, PageOf
  <2> HIDE DEF top
  <2>5. q + f < top  BY <1>5, <1>8, <2>2, <2>3, <2>4
  <2> QED  BY <1>4, <1>5, <1>9, <1>10, <2>3, <2>5
<1>12. ASSUME NEW x \in Nat, g.vaddr <= x, x < g.vaddr + g.size
       PROVE  x \div PAGESIZE \in PagesOfGrant(g) /\ x % PAGESIZE \in Offsets
  <2>1. g.vaddr + g.size - 1 \in Nat /\ x <= g.vaddr + g.size - 1  BY <1>1, <1>12
  <2>2. x \div PAGESIZE \in Nat /\ x % PAGESIZE \in 0 .. PAGESIZE - 1  BY Units, PageOf
  <2>3. g.vaddr \div PAGESIZE <= x \div PAGESIZE
        /\ x \div PAGESIZE <= (g.vaddr + g.size - 1) \div PAGESIZE
    BY <1>1, <1>12, <2>1, DivMono
  <2> QED  BY <1>4, <1>8, <1>5, <2>2, <2>3, Units DEF PagesOfGrant, FirstPage
<1> QED
  BY <1>1, <1>2, <1>3, <1>4, <1>5, <1>9, <1>10, <1>11, <1>12, SegmentFacts

LEMMA FirstInside ==
  ASSUME NEW g, Buffer(g)
  PROVE  FirstPage(g) \in PagesOfGrant(g)
<1> DEFINE p == FirstPage(g)
           n == NumPages(g.size)
<1>1. p \in Nat /\ n \in Nat \ {0} /\ PagesOfGrant(g) = p .. p + n - 1  BY BufferPlace
<1> HIDE DEF p, n
<1>2. p \in PagesOfGrant(g)  BY <1>1
<1> QED  BY <1>2 DEF p

-----------------------------------------------------------------------------
(* Sequences as the sets of their elements.                                *)
LEMMA Elements ==
  ASSUME NEW S, NEW s \in Seq(S)
  PROVE  /\ Len(s) \in Nat /\ ToSet(s) = {s[k] : k \in 1 .. Len(s)} /\ ToSet(s) \subseteq S
         /\ \A e \in S : ToSet(Append(s, e)) = ToSet(s) \cup {e}
         /\ \A k \in 1 .. Len(s) : ToSet(RemoveAt(s, k)) \subseteq ToSet(s)
<1>1. Len(s) \in Nat /\ DOMAIN s = 1 .. Len(s) /\ \A k \in 1 .. Len(s) : s[k] \in S
  BY LenProperties, ElementOfSeq
<1>2. ToSet(s) = {s[k] : k \in 1 .. Len(s)}  BY <1>1 DEF ToSet
<1>3. ASSUME NEW e \in S PROVE ToSet(Append(s, e)) = ToSet(s) \cup {e}
  <2> DEFINE t == Append(s, e)
  <2>1. /\ t \in Seq(S) /\ Len(t) = Len(s) + 1 /\ t[Len(s) + 1] = e
        /\ \A k \in 1 .. Len(s) : t[k] = s[k]
    BY AppendProperties
  <2> HIDE DEF t
  <2>2. DOMAIN t = 1 .. Len(s) + 1  BY <2>1, LenProperties
  <2>3. ToSet(t) = {t[k] : k \in 1 .. Len(s) + 1}  BY <2>2 DEF ToSet
  <2>4. \A k \in 1 .. Len(s) + 1 : k \in 1 .. Len(s) \/ k = Len(s) + 1  BY <1>1
  <2>5. ToSet(t) \subseteq ToSet(s) \cup {e}  BY <1>2, <2>1, <2>3, <2>4
  <2>6. ToSet(s) \cup {e} \subseteq ToSet(t)
    <3>1. Len(s) + 1 \in 1 .. Len(s) + 1 /\ \A k \in 1 .. Len(s) : k \in 1 .. Len(s) + 1
      BY <1>1
    <3> QED  BY <1>2, <2>1, <2>3, <3>1
  <2> QED  BY <2>5, <2>6 DEF t
<1>4. ASSUME NEW k \in 1 .. Len(s) PROVE ToSet(RemoveAt(s, k)) \subseteq ToSet(s)
  <2> DEFINE t == RemoveAt(s, k)
  <2>1. t \in Seq(S) /\ HasRemoved(t, s, k)  BY RemoveAtFacts
  <2> HIDE DEF t
  <2>2. DOMAIN t = 1 .. Len(s) - 1 /\ Len(t) = Len(s) - 1  BY <2>1, LenProperties DEF HasRemoved
  <2>3. ASSUME NEW i \in 1 .. Len(s) - 1 PROVE t[i] \in ToSet(s)
    <3>1. i \in 1 .. Len(s) /\ i + 1 \in 1 .. Len(s)  BY <1>1
    <3> QED  BY <1>2, <2>1, <3>1 DEF HasRemoved
  <2>4. ToSet(t) \subseteq ToSet(s)  BY <2>2, <2>3 DEF ToSet
  <2> QED  BY <2>4 DEF t
<1>5. ToSet(s) \subseteq S  BY <1>1, <1>2
<1> QED  BY <1>1, <1>2, <1>3, <1>4, <1>5

-----------------------------------------------------------------------------
(* The driver's records agree: what the lists, the client and the table of *)
(* roots say of the contexts.                                              *)
Registers(M, G, rt) ==
  /\ DOMAIN M \subseteq DOMAIN rt /\ DOMAIN G \subseteq DOMAIN rt /\ DOMAIN rt \subseteq Contexts
  /\ \A c \in DOMAIN rt : rt[c] \in 0 .. MaxRange
  /\ \A c \in DOMAIN M : Listing(M[c]) /\ (c \notin DOMAIN G => rt[c] = 0)
  /\ \A c \in DOMAIN G : /\ Granting(G[c]) /\ rt[c] # 0
                         /\ \A g \in ToSet(G[c]) : Aligned(g.vaddr)
                         /\ c \in DOMAIN M => Holding(M[c], G[c])
  /\ \A c, d \in DOMAIN G : rt[c] = rt[d] => c = d

(* The blocks of the RAM that are no tables hold every buffer under its    *)
(* own pages, each in a block of its own.                                  *)
Roots(G, rt) == {rt[c] : c \in DOMAIN G}
HomeOf(m, r, g) == Block(Convert(m, r, FirstPage(g)), NumPages(g.size))

Lodged(m, r, g, F) ==
  /\ Convert(m, r, FirstPage(g)) \in Nat
  /\ HomeOf(m, r, g) \in F \ FrameBlocks
  /\ \A j \in 0 .. NumPages(g.size) - 1 :
       Convert(m, r, FirstPage(g) + j) = Convert(m, r, FirstPage(g)) + j

Housed(m, G, rt, F) ==
  /\ HasTables(m, Roots(G, rt), F) /\ FrameBlocks \subseteq F
  /\ \A c \in DOMAIN G : \A g \in ToSet(G[c]) : Lodged(m, rt[c], g, F)
  /\ \A c, d \in DOMAIN G : \A g \in ToSet(G[c]), h \in ToSet(G[d]) :
       HomeOf(m, rt[c], g) = HomeOf(m, rt[d], h) => c = d /\ g = h

(* The tables of a listed context map pages of what it lists only.         *)
OnlyListed(m, M, G, rt) ==
  \A c \in DOMAIN G \cap DOMAIN M : \A v \in VPages :
    Convert(m, rt[c], v) # 0 => \E i \in 1 .. Len(M[c]) : v \in PagesOfGrant(M[c][i])

Intact(m, M, G, rt) ==
  /\ Registers(M, G, rt) /\ OnlyListed(m, M, G, rt)
  /\ \E F : Housed(m, G, rt, F)

HoldsBuffers(G) == \A c \in DOMAIN G : \A g \in ToSet(G[c]) : Buffer(g)
SamePages(m, x, r, g) == \A u \in PagesOfGrant(g) : Convert(x, r, u) = Convert(m, r, u)

(* What a client holds are buffers, on pages of their own.                 *)
LEMMA HeldBuffers ==
  ASSUME NEW gr, Granting(gr), \A g \in ToSet(gr) : Aligned(g.vaddr)
  PROVE  /\ gr \in Seq(GrantType) /\ Len(gr) \in Nat /\ ToSet(gr) = {gr[k] : k \in 1 .. Len(gr)}
         /\ \A g \in ToSet(gr) : Buffer(g)
         /\ \A g, h \in ToSet(gr) : g # h => PagesOfGrant(g) \cap PagesOfGrant(h) = {}
<1>1. /\ gr \in Seq(GrantType) /\ Len(gr) \in Nat /\ ToSet(gr) = {gr[k] : k \in 1 .. Len(gr)}
      /\ ToSet(gr) \subseteq GrantType
  BY Elements DEF Granting
<1>2. ASSUME NEW g \in ToSet(gr) PROVE Buffer(g)
  BY <1>1, <1>2 DEF Granting, Buffer
<1>3. ASSUME NEW g \in ToSet(gr), NEW h \in ToSet(gr), g # h
      PROVE  PagesOfGrant(g) \cap PagesOfGrant(h) = {}
  BY <1>1, <1>3 DEF Granting
<1> QED  BY <1>1, <1>2, <1>3

LEMMA AllBuffers ==
  ASSUME NEW M, NEW G, NEW rt, Registers(M, G, rt)
  PROVE  HoldsBuffers(G)
BY HeldBuffers DEF Registers, HoldsBuffers

(* A page of a buffer is a page of its block.                              *)
LEMMA PageHome ==
  ASSUME NEW m, NEW R, NEW F, HasTables(m, R, F), NEW r, NEW g, Buffer(g), Lodged(m, r, g, F),
         NEW u \in PagesOfGrant(g)
  PROVE  /\ Convert(m, r, u) \in PagesOf(HomeOf(m, r, g))
         /\ Convert(m, r, u) \in DOMAIN m.pages
         /\ Convert(m, r, u) \in Nat /\ Convert(m, r, u) # 0
         /\ u \in Nat
         /\ Convert(m, r, u) = Convert(m, r, FirstPage(g)) + (u - FirstPage(g))
<1> DEFINE a == Convert(m, r, FirstPage(g))
           n == NumPages(g.size)
           j == u - FirstPage(g)
<1>1. n \in Nat \ {0} /\ FirstPage(g) \in Nat /\ u \in FirstPage(g) .. FirstPage(g) + n - 1
  BY BufferPlace
<1>2. a \in Nat  BY DEF Lodged
<1>3. j \in 0 .. n - 1 /\ FirstPage(g) + j = u  BY <1>1
<1> HIDE DEF a, n, j
<1>4. Convert(m, r, u) = a + j
  BY <1>3 DEF Lodged, a, n
<1>5. PagesOf(Block(a, n)) = a .. a + n - 1  BY <1>1, <1>2, PagesOfBlock
<1>6. Convert(m, r, u) \in PagesOf(HomeOf(m, r, g))
  BY <1>1, <1>2, <1>3, <1>4, <1>5 DEF HomeOf, a, n
<1>7. HomeOf(m, r, g) \in BlocksOf(m) /\ MemOK(m)  BY DEF Lodged, HasTables, Tables
<1>8. HomeOf(m, r, g) # Block(0, Reserved) /\ HomeOf(m, r, g) # Block(MaxRange, 1)
  BY DEF Lodged, FrameBlocks
<1>9. Convert(m, r, u) \in DOMAIN m.pages /\ Convert(m, r, u) \in Nat /\ Convert(m, r, u) # 0
  BY <1>6, <1>7, <1>8, BlockPages
<1> QED  BY <1>1, <1>4, <1>6, <1>9 DEF a, j

(* No two pages of buffers are kept in one physical page.                  *)
LEMMA PageOwner ==
  ASSUME NEW m, NEW G, NEW rt, NEW F, HoldsBuffers(G), Housed(m, G, rt, F),
         NEW c \in DOMAIN G, NEW d \in DOMAIN G, NEW g \in ToSet(G[c]), NEW h \in ToSet(G[d]),
         NEW u \in PagesOfGrant(g), NEW v \in PagesOfGrant(h),
         Convert(m, rt[c], u) = Convert(m, rt[d], v)
  PROVE  c = d /\ g = h /\ u = v
<1>1. HasTables(m, Roots(G, rt), F) /\ Lodged(m, rt[c], g, F) /\ Lodged(m, rt[d], h, F)
      /\ Buffer(g) /\ Buffer(h)
  BY DEF Housed, HoldsBuffers
<1>2. /\ Convert(m, rt[c], u) \in PagesOf(HomeOf(m, rt[c], g))
      /\ Convert(m, rt[c], u) = Convert(m, rt[c], FirstPage(g)) + (u - FirstPage(g)) /\ u \in Nat
  BY <1>1, PageHome
<1>3. /\ Convert(m, rt[d], v) \in PagesOf(HomeOf(m, rt[d], h))
      /\ Convert(m, rt[d], v) = Convert(m, rt[d], FirstPage(h)) + (v - FirstPage(h)) /\ v \in Nat
  BY <1>1, PageHome
<1>4. HomeOf(m, rt[c], g) = HomeOf(m, rt[d], h)
  <2>1. MemOK(m) /\ HomeOf(m, rt[c], g) \in BlocksOf(m) /\ HomeOf(m, rt[d], h) \in BlocksOf(m)
    BY <1>1 DEF Lodged, HasTables, Tables
  <2> QED  BY <1>2, <1>3, <2>1, BlocksApart
<1>5. c = d /\ g = h  BY <1>4 DEF Housed
<1>6. FirstPage(g) \in Nat /\ Convert(m, rt[c], FirstPage(g)) \in Nat
  BY <1>1, BufferPlace DEF Lodged
<1> DEFINE a == Convert(m, rt[c], FirstPage(g))
           p == FirstPage(g)
<1>7. Convert(m, rt[c], u) = a + (u - p) /\ Convert(m, rt[c], u) = a + (v - p)
  BY <1>2, <1>3, <1>5
<1>8. a \in Nat /\ p \in Nat /\ u \in Nat /\ v \in Nat  BY <1>2, <1>3, <1>6
<1> HIDE DEF a, p
<1>9. u = v  BY <1>7, <1>8
<1> QED  BY <1>5, <1>9

(* A buffer whose pages stay where they are stays in its block.            *)
LEMMA LodgedSame ==
  ASSUME NEW m, NEW r, NEW g, Buffer(g), NEW F, Lodged(m, r, g, F),
         NEW x, SamePages(m, x, r, g), NEW E, HomeOf(m, r, g) \in E
  PROVE  Lodged(x, r, g, E) /\ HomeOf(x, r, g) = HomeOf(m, r, g)
<1>1. /\ FirstPage(g) \in Nat /\ NumPages(g.size) \in Nat \ {0}
      /\ PagesOfGrant(g) = FirstPage(g) .. FirstPage(g) + NumPages(g.size) - 1
  BY BufferPlace
<1>2. \A j \in 0 .. NumPages(g.size) - 1 : FirstPage(g) + j \in PagesOfGrant(g)  BY <1>1
<1>3. FirstPage(g) \in PagesOfGrant(g)  BY <1>1
<1> QED  BY <1>2, <1>3 DEF Lodged, SamePages, HomeOf

LEMMA HousedSame ==
  ASSUME NEW m, NEW G, NEW rt, NEW F, HoldsBuffers(G), Housed(m, G, rt, F),
         NEW x, NEW E, HasTables(x, Roots(G, rt), E), FrameBlocks \subseteq E,
         NEW H, DOMAIN H = DOMAIN G,
         \A c \in DOMAIN G : ToSet(H[c]) \subseteq ToSet(G[c]),
         \A c \in DOMAIN G : \A g \in ToSet(H[c]) :
           SamePages(m, x, rt[c], g) /\ HomeOf(m, rt[c], g) \in E
  PROVE  Housed(x, H, rt, E)
<1>1. ASSUME NEW c \in DOMAIN H, NEW g \in ToSet(H[c])
      PROVE  Lodged(x, rt[c], g, E) /\ HomeOf(x, rt[c], g) = HomeOf(m, rt[c], g)
  <2>1. g \in ToSet(G[c]) /\ Buffer(g) /\ Lodged(m, rt[c], g, F)  BY DEF Housed, HoldsBuffers
  <2> QED  BY <2>1, LodgedSame
<1>2. Roots(H, rt) = Roots(G, rt)  BY DEF Roots
<1> QED  BY <1>1, <1>2 DEF Housed

(* One buffer more, in a new block.                                        *)
OneMore(G, H, c, g) ==
  /\ DOMAIN H = DOMAIN G /\ ToSet(H[c]) = ToSet(G[c]) \cup {g}
  /\ \A d \in DOMAIN G : d # c => H[d] = G[d]

LEMMA HousedMore ==
  ASSUME NEW x, NEW G, NEW rt, NEW E, Housed(x, G, rt, E), NEW c \in DOMAIN G, NEW g,
         NEW H, OneMore(G, H, c, g), Lodged(x, rt[c], g, E),
         \A d \in DOMAIN G : \A h \in ToSet(G[d]) : HomeOf(x, rt[d], h) # HomeOf(x, rt[c], g)
  PROVE  Housed(x, H, rt, E)
<1>1. Roots(H, rt) = Roots(G, rt) /\ DOMAIN H = DOMAIN G  BY DEF Roots, OneMore
<1>2. ASSUME NEW d \in DOMAIN H, NEW h \in ToSet(H[d])
      PROVE  h \in ToSet(G[d]) \/ (d = c /\ h = g)
  BY <1>2 DEF OneMore
<1>3. ASSUME NEW d \in DOMAIN H, NEW h \in ToSet(H[d])
      PROVE  Lodged(x, rt[d], h, E)
  BY <1>1, <1>2, <1>3 DEF Housed
<1>4. ASSUME NEW d \in DOMAIN H, NEW e \in DOMAIN H, NEW h \in ToSet(H[d]), NEW k \in ToSet(H[e]),
             HomeOf(x, rt[d], h) = HomeOf(x, rt[e], k)
      PROVE  d = e /\ h = k
  BY <1>1, <1>2, <1>4 DEF Housed
<1> QED  BY <1>1, <1>3, <1>4 DEF Housed

-----------------------------------------------------------------------------
(* What a call leaves of a buffer: its pages and its words.                *)
InBuffer(g, a) == g.vaddr <= a /\ a < g.vaddr + g.size
SameWords(m, x, r, g) == \A a \in Nat : InBuffer(g, a) => ReadVirt(x, r, a) = ReadVirt(m, r, a)
Kept(m, x, G, rt) ==
  \A c \in DOMAIN G : \A g \in ToSet(G[c]) :
    SamePages(m, x, rt[c], g) /\ SameWords(m, x, rt[c], g)

(* The word of a buffer at an address: its page and place.                 *)
LEMMA WordPlace ==
  ASSUME NEW g, Buffer(g), NEW a \in Nat, InBuffer(g, a)
  PROVE  /\ a \div PAGESIZE \in PagesOfGrant(g) /\ a % PAGESIZE \in Offsets
         /\ a \div PAGESIZE \in VPages
         /\ \A m, r : ReadVirt(m, r, a) = ReadWord(m, Convert(m, r, a \div PAGESIZE), a % PAGESIZE)
<1>1. \A x \in Nat : g.vaddr <= x /\ x < g.vaddr + g.size =>
        x \div PAGESIZE \in PagesOfGrant(g) /\ x % PAGESIZE \in Offsets
  BY BufferPlace
<1>2. PagesOfGrant(g) \subseteq VPages  BY BufferPlace
<1> QED  BY <1>1, <1>2, Units DEF InBuffer, ReadVirt

LEMMA WordsKept ==
  ASSUME NEW m, NEW R, NEW F, HasTables(m, R, F), NEW r, NEW g, Buffer(g), Lodged(m, r, g, F),
         NEW x, SamePages(m, x, r, g), NEW E, KeepsWords(m, x, E), HomeOf(m, r, g) \in E
  PROVE  SameWords(m, x, r, g)
<1> SUFFICES ASSUME NEW a \in Nat, InBuffer(g, a) PROVE ReadVirt(x, r, a) = ReadVirt(m, r, a)
  BY DEF SameWords
<1> DEFINE u == a \div PAGESIZE
           p == Convert(m, r, u)
<1>1. /\ u \in PagesOfGrant(g)
      /\ \A y : ReadVirt(y, r, a) = ReadWord(y, Convert(y, r, u), a % PAGESIZE)
  BY WordPlace
<1> HIDE DEF u
<1>2. p \in PagesOf(HomeOf(m, r, g)) /\ p \in DOMAIN m.pages  BY <1>1, PageHome
<1>3. p \in DOMAIN x.pages /\ x.pages[p] = m.pages[p]  BY <1>2 DEF KeepsWords
<1>4. Convert(x, r, u) = p  BY <1>1 DEF SamePages
<1> QED  BY <1>1, <1>2, <1>3, <1>4 DEF ReadWord

LEMMA ListedSame ==
  ASSUME NEW m, NEW M, NEW G, NEW rt, OnlyListed(m, M, G, rt),
         NEW x, SameWays(m, x, Roots(G, rt))
  PROVE  OnlyListed(x, M, G, rt)
<1>1. \A c \in DOMAIN G : rt[c] \in Roots(G, rt)  BY DEF Roots
<1> QED  BY <1>1 DEF OnlyListed, SameWays

(* Every way kept is every page of every buffer kept.                      *)
LEMMA PagesSame ==
  ASSUME NEW G, HoldsBuffers(G), NEW rt, NEW m, NEW x, SameWays(m, x, Roots(G, rt))
  PROVE  \A c \in DOMAIN G : \A g \in ToSet(G[c]) : SamePages(m, x, rt[c], g)
<1> SUFFICES ASSUME NEW c \in DOMAIN G, NEW g \in ToSet(G[c]) PROVE SamePages(m, x, rt[c], g)
  OBVIOUS
<1>1. rt[c] \in Roots(G, rt) /\ Buffer(g)  BY DEF Roots, HoldsBuffers
<1>2. PagesOfGrant(g) \subseteq VPages  BY <1>1, BufferPlace
<1> QED  BY <1>1, <1>2 DEF SamePages, SameWays

-----------------------------------------------------------------------------
(* upload and the device's stores: words a .. a + len - 1 of one buffer    *)
(* change, nothing else does.                                              *)
Stored(m, x, G, rt, c, a, len, w) ==
  \A d \in DOMAIN G : \A h \in ToSet(G[d]) :
    /\ SamePages(m, x, rt[d], h)
    /\ \A b \in Nat : InBuffer(h, b) =>
         ReadVirt(x, rt[d], b) = IF d = c /\ a <= b /\ b < a + len THEN w
                                 ELSE ReadVirt(m, rt[d], b)

LEMMA RangePages ==
  ASSUME NEW g, Buffer(g), NEW a \in Nat, NEW len \in Nat \ {0},
         g.vaddr <= a, a + len <= g.vaddr + g.size
  PROVE  \A u \in a \div PAGESIZE .. (a + len - 1) \div PAGESIZE : u \in PagesOfGrant(g)
<1> DEFINE z == a + len - 1
<1>1. g.vaddr \in Nat /\ g.size \in Nat \ {0}  BY BufferPlace
<1>2. z \in Nat /\ InBuffer(g, a) /\ InBuffer(g, z)  BY <1>1 DEF InBuffer
<1> HIDE DEF z
<1>3. a \div PAGESIZE \in PagesOfGrant(g) /\ z \div PAGESIZE \in PagesOfGrant(g)
  BY <1>2, WordPlace
<1>4. /\ FirstPage(g) \in Nat /\ NumPages(g.size) \in Nat
      /\ PagesOfGrant(g) = FirstPage(g) .. FirstPage(g) + NumPages(g.size) - 1
  BY BufferPlace
<1>5. \A u \in a \div PAGESIZE .. z \div PAGESIZE : u \in PagesOfGrant(g)
  <2> DEFINE p == a \div PAGESIZE
             q == z \div PAGESIZE
  <2> HIDE DEF p, q
  <2>1. \A u \in p .. q : u \in PagesOfGrant(g)  BY <1>3, <1>4 DEF p, q
  <2> QED  BY <2>1 DEF p, q
<1> QED  BY <1>5 DEF z

Inside(g, a, len) == a \in Nat /\ len \in Nat /\ g.vaddr <= a /\ a + len <= g.vaddr + g.size
StoreDone(m, y, M, G, rt, c, a, len, w) ==
  /\ y.ok = TRUE /\ Intact(y.m, M, G, rt) /\ Stored(m, y.m, G, rt, c, a, len, w)
  /\ y.m.cur = m.cur /\ y.m.crashed = m.crashed

LEMMA StoreCall ==
  ASSUME NEW m, NEW M, NEW G, NEW rt, Intact(m, M, G, rt),
         NEW c \in DOMAIN G, NEW g \in ToSet(G[c]), NEW a, NEW len, len # 0, Inside(g, a, len),
         NEW w \in Nat, NEW y, y = WriteVirt(m, rt[c], a, len, w)
  PROVE  StoreDone(m, y, M, G, rt, c, a, len, w)
<1>0. /\ a \in Nat /\ len \in Nat \ {0} /\ g.vaddr <= a /\ a + len <= g.vaddr + g.size
  BY DEF Inside
<1> DEFINE U == a \div PAGESIZE .. (a + len - 1) \div PAGESIZE
           r == rt[c]
<1>1. PICK F : Housed(m, G, rt, F)  BY DEF Intact
<1>2. Registers(M, G, rt) /\ OnlyListed(m, M, G, rt) /\ HoldsBuffers(G)
  BY AllBuffers DEF Intact
<1>3. HasTables(m, Roots(G, rt), F) /\ Lodged(m, r, g, F) /\ Buffer(g) /\ FrameBlocks \subseteq F
      /\ r \in Roots(G, rt) /\ HomeOf(m, r, g) \in F
  BY <1>1, <1>2 DEF Housed, HoldsBuffers, Roots, Lodged
<1>4. U = a \div PageElem .. (a + len - 1) \div PageElem  BY Units
<1>5. \A u \in U : u \in PagesOfGrant(g)  BY <1>0, <1>3, RangePages
<1>6. PagesOfGrant(g) \subseteq VPages  BY <1>3, BufferPlace
<1> HIDE DEF U, r
<1>7. \A u \in U : /\ u \in VPages /\ \E b \in F : Convert(m, r, u) \in PagesOf(b)
                   /\ Convert(m, r, u) \in DOMAIN m.pages
  BY <1>3, <1>5, <1>6, PageHome
<1>8. /\ HasTables(y.m, Roots(G, rt), F) /\ SameWays(m, y.m, Roots(G, rt))
      /\ y.m.cur = m.cur /\ y.m.crashed = m.crashed
      /\ PutDone(y, m, r, a, len, w, U)
  <2> DEFINE x == y.m
  <2>1. y = WriteVirt(m, r, a, len, w) /\ x = WriteVirt(m, r, a, len, w).m  BY DEF r
  <2>2. \A u \in a \div PageElem .. (a + len - 1) \div PageElem :
          u \in VPages /\ \E b \in F : Convert(m, r, u) \in PagesOf(b)
    BY <1>4, <1>7
  <2>3. \A u \in a \div PageElem .. (a + len - 1) \div PageElem :
          Convert(m, r, u) \in DOMAIN m.pages
    BY <1>4, <1>7
  <2> HIDE DEF x
  <2>4. /\ HasTables(x, Roots(G, rt), F) /\ SameWays(m, x, Roots(G, rt))
        /\ x.cur = m.cur /\ x.crashed = m.crashed
        /\ PutDone(WriteVirt(m, r, a, len, w), m, r, a, len, w,
                   a \div PageElem .. (a + len - 1) \div PageElem)
    BY <1>0, <1>3, <2>1, <2>2, <2>3, WriteVirtStep
  <2> QED  BY <1>4, <2>1, <2>4 DEF x
<1>9. \A d \in DOMAIN G : \A h \in ToSet(G[d]) : SamePages(m, y.m, rt[d], h)
  BY <1>2, <1>8, PagesSame
<1>10. Housed(y.m, G, rt, F)
  <2>1. \A d \in DOMAIN G : \A h \in ToSet(G[d]) : HomeOf(m, rt[d], h) \in F
    BY <1>1 DEF Housed, Lodged
  <2> QED  BY <1>1, <1>2, <1>3, <1>8, <1>9, <2>1, HousedSame
<1>11. Intact(y.m, M, G, rt)
  BY <1>2, <1>8, <1>10, ListedSame DEF Intact
<1>12. ASSUME NEW d \in DOMAIN G, NEW h \in ToSet(G[d]), NEW b \in Nat, InBuffer(h, b)
       PROVE  ReadVirt(y.m, rt[d], b) = IF d = c /\ a <= b /\ b < a + len THEN w
                                        ELSE ReadVirt(m, rt[d], b)
  <2> DEFINE u == b \div PAGESIZE
             i == b % PAGESIZE
             p == Convert(m, rt[d], u)
  <2>1. Buffer(h)  BY <1>2 DEF HoldsBuffers
  <2>2. /\ u \in PagesOfGrant(h) /\ i \in Offsets
        /\ ReadVirt(m, rt[d], b) = ReadWord(m, p, i)
        /\ ReadVirt(y.m, rt[d], b) = ReadWord(y.m, Convert(y.m, rt[d], u), i)
    <3>1. u \in PagesOfGrant(h) /\ i \in Offsets  BY <2>1, <1>12, WordPlace
    <3>2. \A z, q : ReadVirt(z, q, b) = ReadWord(z, Convert(z, q, b \div PAGESIZE), b % PAGESIZE)
      BY <2>1, <1>12, WordPlace
    <3>3. ReadVirt(m, rt[d], b) = ReadWord(m, p, i)  BY <3>2
    <3>4. ReadVirt(y.m, rt[d], b) = ReadWord(y.m, Convert(y.m, rt[d], u), i)  BY <3>2
    <3> QED  BY <3>1, <3>3, <3>4
  <2>3. u \in Nat /\ i \in Nat /\ b = u * PAGESIZE + i
    <3>1. u \in Nat /\ i \in 0 .. PAGESIZE - 1 /\ b = u * PAGESIZE + i  BY Units, PageOf
    <3> HIDE DEF u, i
    <3> QED  BY <3>1, Units
  <2>4. d = c /\ a <= b /\ b < a + len => u \in U
    <3> SUFFICES ASSUME a <= b, b < a + len PROVE u \in U  OBVIOUS
    <3>1. a + len - 1 \in Nat /\ b <= a + len - 1  BY <1>0
    <3>2. a \div PAGESIZE <= u /\ u <= (a + len - 1) \div PAGESIZE  BY <1>0, <3>1, DivMono
    <3>3. a \div PAGESIZE \in Nat /\ (a + len - 1) \div PAGESIZE \in Nat  BY <1>0, <3>1, Units, PageOf
    <3> QED  BY <2>3, <3>2, <3>3 DEF U
  <2> HIDE DEF u, i
  <2>5. Convert(y.m, rt[d], u) = p  BY <1>9, <2>2 DEF SamePages
  <2>6. ReadWord(y.m, p, i) = IF \E t \in U : p = Convert(m, r, t) /\ InRange(t, i, a, len)
                              THEN w ELSE ReadWord(m, p, i)
    BY <1>8, <2>2 DEF PutDone, WordsPut
  <2>7. InRange(u, i, a, len) <=> a <= b /\ b < a + len  BY <1>0, <2>3, Units DEF InRange
  <2>8. ASSUME NEW t \in U, p = Convert(m, r, t) PROVE d = c /\ t = u
    <3>1. t \in PagesOfGrant(g)  BY <1>5
    <3> QED  BY <1>1, <1>2, <2>2, <2>8, <3>1, PageOwner DEF r
  <2>9. (\E t \in U : p = Convert(m, r, t) /\ InRange(t, i, a, len))
          <=> d = c /\ a <= b /\ b < a + len
    BY <2>4, <2>7, <2>8 DEF r
  <2> QED  BY <2>2, <2>5, <2>6, <2>9
<1> QED
  BY <1>8, <1>9, <1>11, <1>12 DEF PutDone, Stored, StoreDone

(* upload of nothing to the start of a buffer.                             *)
LEMMA StoreNothing ==
  ASSUME NEW m, NEW r, NEW a \in Nat \ {0}, Aligned(a), NEW w
  PROVE  WriteVirt(m, r, a, 0, w) = [m |-> m, ok |-> TRUE]
<1> DEFINE n == (a + 0 - 1) \div PageElem - a \div PageElem + 1
           first == a \div PageElem
           start == [m |-> m, ok |-> TRUE]
<1>1. first \in Nat /\ n = 0
  <2>1. a - 1 \in Nat /\ a - 1 < a /\ a + 0 - 1 = a - 1  OBVIOUS
  <2>2. PICK q \in Nat : a = q * PAGESIZE  BY DEF Aligned
  <2>3. q # 0  BY <2>2, Units
  <2>4. a \div PAGESIZE = q
    <3>1. a = q * PAGESIZE + 0 /\ 0 \in 0 .. PAGESIZE - 1  BY <2>2, Units
    <3> QED  BY <3>1, DivOf
  <2>5. (a - 1) \div PAGESIZE = q - 1
    <3> DEFINE x == a - 1
               k == q - 1
               t == PAGESIZE - 1
    <3>1. k * PAGESIZE = q * PAGESIZE - PAGESIZE  BY <2>2, Units
    <3>2. x = k * PAGESIZE + t /\ k \in Nat /\ t \in 0 .. PAGESIZE - 1 /\ x \in Nat
      BY <2>1, <2>2, <2>3, <3>1, Units
    <3> HIDE DEF x, k, t
    <3>3. x \div PAGESIZE = k  BY <3>2, DivOf
    <3> QED  BY <3>3 DEF x, k
  <2> QED  BY <2>1, <2>2, <2>4, <2>5, Units
<1>2. WriteVirt(m, r, a, 0, w) = PutAll(start, r, a, 0, w, first, n)
  BY DEF WriteVirt, PutAll, PutPage
<1> HIDE DEF first, n, start
<1>3. PICK h : /\ PutAll(start, r, a, 0, w, first, n) = h[n]
               /\ Puts(h, start, r, a, 0, w, first, n)
  <2>1. n \in Nat  BY <1>1
  <2> QED  BY <1>1, <2>1, PutAllChain
<1> QED  BY <1>1, <1>2, <1>3 DEF Puts, start

-----------------------------------------------------------------------------
(* create_device_mem for a context that is not registered.                 *)
WithRoot(rt, c, a) == [d \in DOMAIN rt \cup {c} |-> IF d = c THEN a ELSE rt[d]]

LEMMA NewContextCall ==
  ASSUME NEW m, NEW M, NEW G, NEW rt, Intact(m, M, G, rt), m.cur # 0,
         NEW c \in Contexts \ DOMAIN rt, NEW a, a = Usable(m, 1),
         NEW x, x = CreateRootPt(m, "crash"),
         NEW N, N = CreateNewContext(M, c),
         NEW H, H = IF a = 0 THEN G ELSE CreateNewContext(G, c),
         NEW q, q = WithRoot(rt, c, a)
  PROVE  Intact(x, N, H, q) /\ Kept(m, x, G, rt) /\ x.cur # 0
<1>1. PICK F : Housed(m, G, rt, F)  BY DEF Intact
<1>2. Registers(M, G, rt) /\ OnlyListed(m, M, G, rt) /\ HoldsBuffers(G)
  BY AllBuffers DEF Intact
<1>3. HasTables(m, Roots(G, rt), F) /\ FrameBlocks \subseteq F  BY <1>1 DEF Housed
<1>4. c \notin DOMAIN G /\ c \notin DOMAIN M  BY <1>2 DEF Registers
<1>5. /\ DOMAIN N = DOMAIN M \cup {c} /\ N[c] = << >> /\ \A d \in DOMAIN M : N[d] = M[d]
      /\ DOMAIN q = DOMAIN rt \cup {c} /\ q[c] = a /\ \A d \in DOMAIN rt : q[d] = rt[d]
  BY <1>4 DEF CreateNewContext, WithRoot
<1>6. \A d \in DOMAIN G : d \in DOMAIN rt  BY <1>2 DEF Registers
<1>7. Len(<< >>) = 0 /\ ToSet(<< >>) = {} /\ Listing(<< >>) /\ Granting(<< >>) /\ Holding(<< >>, << >>)
  BY NothingListed DEF ToSet, Matches
<1>8. CASE a = 0
  <2>1. x = m /\ H = G  BY <1>8 DEF CreateRootPt
  <2>2. Registers(N, G, q)
    BY <1>2, <1>4, <1>5, <1>6, <1>7, <1>8, Units DEF Registers
  <2>3. OnlyListed(m, N, G, q)  BY <1>2, <1>4, <1>5, <1>6 DEF OnlyListed
  <2>4. Roots(G, q) = Roots(G, rt)  BY <1>5, <1>6 DEF Roots
  <2>5. Housed(m, G, q, F)  BY <1>1, <1>5, <1>6, <2>4 DEF Housed
  <2>6. Kept(m, m, G, rt)  BY DEF Kept, SamePages, SameWords
  <2> QED  BY <2>1, <2>2, <2>3, <2>5, <2>6 DEF Intact
<1>9. CASE a # 0
  <2>1. /\ a \in Nat /\ Reserved <= a /\ a + 1 <= MaxRange /\ a \notin Roots(G, rt)
        /\ HasTables(x, Roots(G, rt) \cup {a}, F) /\ SameWays(m, x, Roots(G, rt))
        /\ \A w \in VPages : Convert(x, a, w) = 0
        /\ x.cur # 0 /\ KeepsWords(m, x, F)
    <3> DEFINE R == Roots(G, rt)
    <3>1. HasTables(m, R, F)  BY <1>3
    <3> HIDE DEF R
    <3> DEFINE Q == R \cup {a}
    <3>2. Q = R \cup {a}  OBVIOUS
    <3> HIDE DEF Q
    <3>3. RootMade(m, x, a, R, Q, F)  BY <1>9, <3>1, <3>2, NewRootStep
    <3> QED  BY <3>3 DEF R, Q, RootMade
  <2>2. /\ DOMAIN H = DOMAIN G \cup {c} /\ H[c] = << >> /\ \A d \in DOMAIN G : H[d] = G[d]
    BY <1>4, <1>9 DEF CreateNewContext
  <2>3. a \in 0 .. MaxRange  BY <2>1, Units
  <2>4. Registers(N, H, q)
    <3>1. DOMAIN N \subseteq DOMAIN q /\ DOMAIN H \subseteq DOMAIN q /\ DOMAIN q \subseteq Contexts
      BY <1>2, <1>5, <2>2 DEF Registers
    <3>2. \A d \in DOMAIN q : q[d] \in 0 .. MaxRange  BY <1>2, <1>5, <2>3 DEF Registers
    <3>3. \A d \in DOMAIN N : Listing(N[d]) /\ (d \notin DOMAIN H => q[d] = 0)
      BY <1>2, <1>5, <1>7, <2>2 DEF Registers
    <3>4. ASSUME NEW d \in DOMAIN H
          PROVE  /\ Granting(H[d]) /\ q[d] # 0
                 /\ \A g \in ToSet(H[d]) : Aligned(g.vaddr)
                 /\ d \in DOMAIN N => Holding(N[d], H[d])
      <4>1. CASE d = c  BY <1>5, <1>7, <1>9, <2>2, <4>1
      <4>2. CASE d # c
        <5>1. d \in DOMAIN G /\ d \in DOMAIN rt /\ H[d] = G[d] /\ q[d] = rt[d]
              /\ (d \in DOMAIN N => d \in DOMAIN M /\ N[d] = M[d])
          BY <1>5, <1>6, <2>2, <4>2
        <5> QED  BY <1>2, <5>1 DEF Registers
      <4> QED  BY <4>1, <4>2
    <3>5. ASSUME NEW d \in DOMAIN H, NEW e \in DOMAIN H, q[d] = q[e] PROVE d = e
      <4>1. \A f \in DOMAIN G : rt[f] # a  BY <2>1 DEF Roots
      <4> QED  BY <1>2, <1>5, <1>6, <2>2, <3>5, <4>1 DEF Registers
    <3> QED  BY <3>1, <3>2, <3>3, <3>4, <3>5 DEF Registers
  <2>5. OnlyListed(x, N, H, q)
    <3>1. OnlyListed(x, M, G, rt)  BY <1>2, <2>1, ListedSame
    <3> QED  BY <1>4, <1>5, <1>6, <2>1, <2>2, <3>1 DEF OnlyListed
  <2>6. \A d \in DOMAIN G : \A g \in ToSet(G[d]) : SamePages(m, x, rt[d], g)
    BY <1>2, <2>1, PagesSame
  <2>7. Roots(H, q) = Roots(G, rt) \cup {a}  BY <1>5, <1>6, <2>2 DEF Roots
  <2>8. ASSUME NEW d \in DOMAIN H, NEW g \in ToSet(H[d])
        PROVE  /\ d \in DOMAIN G /\ g \in ToSet(G[d]) /\ Lodged(x, q[d], g, F)
               /\ q[d] = rt[d] /\ HomeOf(x, q[d], g) = HomeOf(m, rt[d], g)
    <3>1. d \in DOMAIN G /\ g \in ToSet(G[d]) /\ q[d] = rt[d]
      BY <1>5, <1>6, <1>7, <2>2
    <3>2. Lodged(m, rt[d], g, F) /\ Buffer(g) /\ HomeOf(m, rt[d], g) \in F
      BY <1>1, <1>2, <3>1 DEF Housed, HoldsBuffers, Lodged
    <3> QED  BY <2>6, <3>1, <3>2, LodgedSame
  <2>9. Housed(x, H, q, F)
    <3>1. HasTables(x, Roots(H, q), F)  BY <2>1, <2>7
    <3>2. ASSUME NEW d \in DOMAIN H, NEW e \in DOMAIN H, NEW g \in ToSet(H[d]), NEW h \in ToSet(H[e]),
                 HomeOf(x, q[d], g) = HomeOf(x, q[e], h)
          PROVE  d = e /\ g = h
      <4>1. /\ d \in DOMAIN G /\ g \in ToSet(G[d]) /\ e \in DOMAIN G /\ h \in ToSet(G[e])
            /\ HomeOf(m, rt[d], g) = HomeOf(m, rt[e], h)
        BY <2>8, <3>2
      <4> QED  BY <1>1, <4>1 DEF Housed
    <3> QED  BY <1>3, <2>8, <3>1, <3>2 DEF Housed
  <2>10. Kept(m, x, G, rt)
    <3> SUFFICES ASSUME NEW d \in DOMAIN G, NEW g \in ToSet(G[d])
                 PROVE  SamePages(m, x, rt[d], g) /\ SameWords(m, x, rt[d], g)
      BY DEF Kept
    <3>1. Lodged(m, rt[d], g, F) /\ Buffer(g) /\ HomeOf(m, rt[d], g) \in F
      BY <1>1, <1>2 DEF Housed, HoldsBuffers, Lodged
    <3>2. SamePages(m, x, rt[d], g)  BY <2>6
    <3> QED  BY <1>3, <2>1, <3>1, <3>2, WordsKept
  <2> QED  BY <2>1, <2>4, <2>5, <2>9, <2>10 DEF Intact
<1> QED  BY <1>8, <1>9

-----------------------------------------------------------------------------
(* attachPaddr writes nothing the rest of the driver looks at.             *)
SameItems(l, t) ==
  /\ t \in Seq(ItemType) /\ Len(t) = Len(l)
  /\ \A i \in 1 .. Len(l) : t[i].vaddr = l[i].vaddr /\ t[i].size = l[i].size

LEMMA ListingSame ==
  ASSUME NEW l, Listing(l), NEW t, SameItems(l, t)
  PROVE  Listing(t) /\ \A gr : Holding(l, gr) => Holding(t, gr)
<1>1. Len(t) = Len(l) /\ Len(l) \in Nat  BY LenProperties DEF Listing, SameItems
<1>2. t # << >> => l # << >> /\ t[1].vaddr = l[1].vaddr
  <2> SUFFICES ASSUME t # << >> PROVE l # << >> /\ t[1].vaddr = l[1].vaddr  OBVIOUS
  <2>1. Len(t) # 0  BY EmptySeq DEF SameItems
  <2>2. 1 \in 1 .. Len(l) /\ l # << >>  BY <1>1, <2>1
  <2> QED  BY <2>2 DEF SameItems
<1>3. \A i \in 1 .. Len(l) : Behind(t[i]) = Behind(l[i])  BY DEF SameItems, Behind
<1>4. \A i \in 1 .. Len(l), type \in BufferType : Within(t[i], type) <=> Within(l[i], type)
  BY DEF SameItems, Within
<1>5. \A type \in BufferType : Headed(l, type) => Headed(t, type)
  BY <1>1 DEF SameItems, Headed
<1>6. Listing(t)
  <2>1. t \in Seq(ItemType) /\ \A i \in 1 .. Len(l) : t[i].vaddr = l[i].vaddr  BY DEF SameItems
  <2> QED  BY <1>1, <1>2, <1>3, <1>4, <1>5, <2>1 DEF Listing
<1>7. \A gr : Holding(l, gr) => Holding(t, gr)  BY <1>1 DEF Holding, SameItems
<1> QED  BY <1>6, <1>7

LEMMA AttachSame ==
  ASSUME NEW M, \A c \in DOMAIN M : Listing(M[c]), NEW k, NEW v, NEW pa \in Nat,
         NEW N, N = AttachPaddr(M, k, v, pa)
  PROVE  DOMAIN N = DOMAIN M /\ \A c \in DOMAIN M : SameItems(M[c], N[c])
<1>1. \A c \in DOMAIN M : SameItems(M[c], M[c])  BY DEF SameItems, Listing
<1>2. CASE ItemsAt(M, k, v) = {}  BY <1>1, <1>2 DEF AttachPaddr
<1>3. CASE ItemsAt(M, k, v) # {}
  <2> DEFINE i == Min(ItemsAt(M, k, v))
             l == M[k]
             t == [l EXCEPT ![i] = [l[i] EXCEPT !.paddr = pa]]
  <2>1. k \in DOMAIN M /\ ItemsAt(M, k, v) \subseteq 1 .. Len(l)  BY <1>3 DEF ItemsAt
  <2>2. l \in Seq(ItemType) /\ Len(l) \in Nat  BY <2>1, LenProperties DEF Listing
  <2>3. i \in 1 .. Len(l)
    <3> DEFINE S == ItemsAt(M, k, v)
    <3>1. S \subseteq 1 .. Len(l) /\ S # {} /\ 1 \in Int /\ Len(l) \in Int  BY <1>3, <2>1, <2>2
    <3> HIDE DEF S, l
    <3>2. Min(S) \in S  BY <3>1, MinFacts
    <3> QED  BY <3>1, <3>2 DEF S
  <2>4. N = [M EXCEPT ![k] = t]  BY <1>3 DEF AttachPaddr
  <2> HIDE DEF i, l
  <2>5. l[i] \in ItemType  BY <2>2, <2>3, ElementOfSeq
  <2>6. /\ [l[i] EXCEPT !.paddr = pa] \in ItemType
        /\ [l[i] EXCEPT !.paddr = pa].vaddr = l[i].vaddr
        /\ [l[i] EXCEPT !.paddr = pa].size = l[i].size
    BY <2>5 DEF ItemType
  <2>7. t \in Seq(ItemType) /\ Len(t) = Len(l)
    BY <2>2, <2>3, <2>6, ExceptSeq
  <2>8. \A j \in 1 .. Len(l) : t[j] = IF j = i THEN [l[i] EXCEPT !.paddr = pa] ELSE l[j]
    <3>1. DOMAIN l = 1 .. Len(l)  BY <2>2, LenProperties
    <3> QED  BY <3>1
  <2> HIDE DEF t
  <2>9. SameItems(l, t)  BY <2>6, <2>7, <2>8 DEF SameItems
  <2> QED  BY <1>1, <2>1, <2>4, <2>9 DEF l
<1> QED  BY <1>2, <1>3

LEMMA ItemsStay ==
  ASSUME NEW l, Len(l) \in Nat, NEW p \in 1 .. Len(l) + 1, NEW e, NEW t, HasInserted(t, l, p, e)
  PROVE  /\ \E i \in 1 .. Len(t) : t[i] = e
         /\ \A j \in 1 .. Len(l) : \E i \in 1 .. Len(t) : t[i] = l[j]
<1>1. Len(t) = Len(l) + 1 /\ p \in 1 .. Len(t) /\ t[p] = e  BY DEF HasInserted
<1>2. ASSUME NEW j \in 1 .. Len(l) PROVE \E i \in 1 .. Len(t) : t[i] = l[j]
  <2>1. CASE j < p
    <3>1. j \in 1 .. Len(t) /\ t[j] = l[j]  BY <1>1, <2>1 DEF HasInserted
    <3> QED  BY <3>1
  <2>2. CASE j >= p
    <3>1. j + 1 \in 1 .. Len(l) + 1 /\ ~(j + 1 < p) /\ j + 1 # p /\ j + 1 - 1 = j  BY <2>2
    <3>2. j + 1 \in 1 .. Len(t) /\ t[j + 1] = l[j]  BY <1>1, <3>1 DEF HasInserted
    <3> QED  BY <3>2
  <2> QED  BY <2>1, <2>2
<1> QED  BY <1>1, <1>2

-----------------------------------------------------------------------------
(* What the list and the grants of a context become when a buffer finds    *)
(* its place.                                                              *)
Taking(l, t, gr, g) ==
  /\ Listing(t) /\ Granting(Append(gr, g)) /\ Holding(t, gr) /\ Holding(t, Append(gr, g))
  /\ \A i \in 1 .. Len(l) : PagesOfGrant(l[i]) \cap PagesOfGrant(g) = {}
  /\ \A i \in 1 .. Len(l) : \E j \in 1 .. Len(t) : PagesOfGrant(t[j]) = PagesOfGrant(l[i])
  /\ \E j \in 1 .. Len(t) : PagesOfGrant(t[j]) = PagesOfGrant(g)

LEMMA TakingPlace ==
  ASSUME NEW l, Listing(l), NEW gr, Granting(gr), Holding(l, gr), NEW g, Buffer(g),
         NEW p, Slot(l, p, g.vaddr, g.size),
         NEW t, Listing(t), HasInserted(t, l, p, Item(g.vaddr, g.size))
  PROVE  Taking(l, t, gr, g)
<1>1. /\ g \in GrantType /\ InSegment(g) /\ Aligned(g.vaddr)
      /\ g.vaddr \in Nat /\ g.size \in Nat \ {0}
  BY BufferPlace DEF Buffer
<1>2. Len(l) \in Nat /\ p \in 1 .. Len(l) + 1  BY LenProperties DEF Listing, Slot
<1>3. /\ \E i \in 1 .. Len(t) : t[i] = Item(g.vaddr, g.size)
      /\ \A j \in 1 .. Len(l) : \E i \in 1 .. Len(t) : t[i] = l[j]
  BY <1>2, ItemsStay
<1>4. Granting(Append(gr, g))  BY <1>1, NewGrantFits
<1>5. Holding(t, gr)
  <2>1. ASSUME NEW k \in 1 .. Len(gr)
        PROVE  \E i \in 1 .. Len(t) : t[i].vaddr = gr[k].vaddr /\ t[i].size = gr[k].size
    <3>1. PICK j \in 1 .. Len(l) : l[j].vaddr = gr[k].vaddr /\ l[j].size = gr[k].size
      BY <2>1 DEF Holding
    <3>2. PICK i \in 1 .. Len(t) : t[i] = l[j]  BY <1>3
    <3> QED  BY <3>1, <3>2
  <2> QED  BY <2>1 DEF Holding
<1>6. Item(g.vaddr, g.size).vaddr = g.vaddr /\ Item(g.vaddr, g.size).size = g.size  BY DEF Item
<1>7. Holding(t, Append(gr, g))
  <2> DEFINE ap == Append(gr, g)
  <2>1. /\ Len(ap) = Len(gr) + 1 /\ Len(gr) \in Nat /\ ap[Len(gr) + 1] = g
        /\ \A k \in 1 .. Len(gr) : ap[k] = gr[k]
    BY <1>1, AppendProperties, LenProperties DEF Granting
  <2> HIDE DEF ap
  <2>2. ASSUME NEW k \in 1 .. Len(ap)
        PROVE  \E i \in 1 .. Len(t) : t[i].vaddr = ap[k].vaddr /\ t[i].size = ap[k].size
    <3>1. CASE k \in 1 .. Len(gr)  BY <1>5, <2>1, <3>1 DEF Holding
    <3>2. CASE k = Len(gr) + 1  BY <1>3, <1>6, <2>1, <3>2
    <3> QED  BY <2>1, <3>1, <3>2
  <2> QED  BY <2>2 DEF Holding, ap
<1>8. \A i \in 1 .. Len(l) : PagesOfGrant(l[i]) \cap PagesOfGrant(g) = {}
  BY <1>1, SlotApart
<1>9. \E j \in 1 .. Len(t) : PagesOfGrant(t[j]) = PagesOfGrant(g)
  BY <1>3, <1>6 DEF PagesOfGrant
<1>10. \A i \in 1 .. Len(l) : \E j \in 1 .. Len(t) : PagesOfGrant(t[j]) = PagesOfGrant(l[i])
  BY <1>3
<1> QED  BY <1>4, <1>5, <1>7, <1>8, <1>9, <1>10 DEF Taking

(* A buffer shares no page with what its context holds.                    *)
LEMMA HeldApart ==
  ASSUME NEW l, NEW t, NEW gr, NEW g, Granting(gr), Holding(l, gr), Taking(l, t, gr, g),
         NEW h \in ToSet(gr)
  PROVE  PagesOfGrant(h) \cap PagesOfGrant(g) = {}
<1>1. PICK k \in 1 .. Len(gr) : gr[k] = h  BY Elements DEF Granting
<1>2. PICK i \in 1 .. Len(l) : l[i].vaddr = h.vaddr /\ l[i].size = h.size
  BY <1>1 DEF Holding
<1>3. PagesOfGrant(l[i]) = PagesOfGrant(h)  BY <1>2 DEF PagesOfGrant
<1> QED  BY <1>3 DEF Taking

(* The driver's records after allocMemory: with the buffer granted, and    *)
(* with it listed only.                                                    *)
WithGrant(G, c, g) == [G EXCEPT ![c] = Append(@, g)]
WithList(M, c, t) == [M EXCEPT ![c] = t]

LEMMA SameListing ==
  ASSUME NEW M, NEW G, NEW rt, Registers(M, G, rt), NEW N, DOMAIN N = DOMAIN M,
         \A d \in DOMAIN M : SameItems(M[d], N[d])
  PROVE  Registers(N, G, rt)
<1>1. \A d \in DOMAIN M : Listing(N[d]) /\ \A gr : Holding(M[d], gr) => Holding(N[d], gr)
  BY ListingSame DEF Registers
<1> QED  BY <1>1 DEF Registers

LEMMA ListedRegisters ==
  ASSUME NEW M, NEW G, NEW rt, Registers(M, G, rt), NEW c \in DOMAIN G, c \in DOMAIN M,
         NEW g, Buffer(g), NEW t, Taking(M[c], t, G[c], g),
         NEW N, N = WithList(M, c, t)
  PROVE  Registers(N, G, rt) /\ Registers(N, WithGrant(G, c, g), rt)
<1>1. DOMAIN N = DOMAIN M /\ N[c] = t /\ \A d \in DOMAIN M : d # c => N[d] = M[d]
  BY DEF WithList
<1>2. Registers(N, G, rt)
  BY <1>1 DEF Registers, Taking
<1> DEFINE H == WithGrant(G, c, g)
<1>3. DOMAIN H = DOMAIN G /\ H[c] = Append(G[c], g) /\ \A d \in DOMAIN G : d # c => H[d] = G[d]
  BY DEF WithGrant
<1> HIDE DEF H
<1>4. \A h \in ToSet(H[c]) : Aligned(h.vaddr)
  <2>1. G[c] \in Seq(GrantType) /\ g \in GrantType /\ Aligned(g.vaddr)
    BY DEF Registers, Granting, Buffer
  <2>2. ToSet(H[c]) = ToSet(G[c]) \cup {g}  BY <1>3, <2>1, Elements
  <2> QED  BY <2>1, <2>2 DEF Registers
<1>5. Granting(H[c]) /\ Holding(N[c], H[c])  BY <1>1, <1>3 DEF Taking
<1>6. Registers(N, H, rt)
  <2>1. DOMAIN N \subseteq DOMAIN rt /\ DOMAIN H \subseteq DOMAIN rt /\ DOMAIN rt \subseteq Contexts
        /\ \A d \in DOMAIN rt : rt[d] \in 0 .. MaxRange
    BY <1>1, <1>3 DEF Registers
  <2>2. \A d \in DOMAIN N : Listing(N[d]) /\ (d \notin DOMAIN H => rt[d] = 0)
    BY <1>1, <1>3 DEF Registers, Taking
  <2>3. ASSUME NEW d \in DOMAIN H
        PROVE  /\ Granting(H[d]) /\ rt[d] # 0
               /\ \A h \in ToSet(H[d]) : Aligned(h.vaddr)
               /\ d \in DOMAIN N => Holding(N[d], H[d])
    <3>1. CASE d = c  BY <1>4, <1>5, <3>1 DEF Registers
    <3>2. CASE d # c  BY <1>1, <1>3, <3>2 DEF Registers
    <3> QED  BY <3>1, <3>2
  <2>4. \A d, e \in DOMAIN H : rt[d] = rt[e] => d = e  BY <1>3 DEF Registers
  <2> QED  BY <2>1, <2>2, <2>3, <2>4 DEF Registers
<1> QED  BY <1>2, <1>6 DEF H

(* allocate for a buffer that found its place.                             *)
LEMMA PagesFree ==
  ASSUME NEW m, NEW M, NEW G, NEW rt, OnlyListed(m, M, G, rt), NEW c \in DOMAIN G, c \in DOMAIN M,
         NEW g, Buffer(g), NEW t, Taking(M[c], t, G[c], g)
  PROVE  \A j \in 0 .. NumPages(g.size) - 1 :
           FirstPage(g) + j \in VPages /\ Convert(m, rt[c], FirstPage(g) + j) = 0
<1> SUFFICES ASSUME NEW j \in 0 .. NumPages(g.size) - 1
             PROVE  FirstPage(g) + j \in VPages /\ Convert(m, rt[c], FirstPage(g) + j) = 0
  OBVIOUS
<1> DEFINE u == FirstPage(g) + j
<1>1. u \in PagesOfGrant(g) /\ u \in VPages
  <2>1. /\ FirstPage(g) \in Nat /\ NumPages(g.size) \in Nat
        /\ PagesOfGrant(g) = FirstPage(g) .. FirstPage(g) + NumPages(g.size) - 1
        /\ PagesOfGrant(g) \subseteq VPages
    BY BufferPlace
  <2> QED  BY <2>1
<1> HIDE DEF u
<1>2. \A i \in 1 .. Len(M[c]) : u \notin PagesOfGrant(M[c][i])  BY <1>1 DEF Taking
<1>3. Convert(m, rt[c], u) = 0  BY <1>1, <1>2 DEF OnlyListed
<1> QED  BY <1>1, <1>3 DEF u

LEMMA OthersStay ==
  ASSUME NEW m, NEW M, NEW G, NEW rt, Registers(M, G, rt), NEW c \in DOMAIN G, c \in DOMAIN M,
         NEW g, Buffer(g), NEW t, Taking(M[c], t, G[c], g),
         NEW x, NEW pa, NEW F,
         Allocated(m, x, pa, Roots(G, rt), F, rt[c], FirstPage(g), NumPages(g.size))
  PROVE  /\ \A d \in DOMAIN G, w \in VPages :
              d # c \/ w \notin PagesOfGrant(g) => Convert(x, rt[d], w) = Convert(m, rt[d], w)
         /\ \A d \in DOMAIN G : \A h \in ToSet(G[d]) : SamePages(m, x, rt[d], h)
<1>1. ASSUME NEW d \in DOMAIN G, NEW w \in VPages, d # c \/ w \notin PagesOfGrant(g)
      PROVE  Convert(x, rt[d], w) = Convert(m, rt[d], w)
  <2>1. rt[d] \in Roots(G, rt)  BY DEF Roots
  <2>2. rt[d] # rt[c] \/ w \notin PagesOfGrant(g)  BY <1>1 DEF Registers
  <2>3. PagesOfGrant(g) = FirstPage(g) .. FirstPage(g) + NumPages(g.size) - 1  BY BufferPlace
  <2> QED  BY <2>1, <2>2, <2>3 DEF Allocated
<1>2. ASSUME NEW d \in DOMAIN G, NEW h \in ToSet(G[d]) PROVE SamePages(m, x, rt[d], h)
  <2>1. Buffer(h)
    <3>1. HoldsBuffers(G)  BY AllBuffers
    <3> QED  BY <3>1 DEF HoldsBuffers
  <2>2. PagesOfGrant(h) \subseteq VPages  BY <2>1, BufferPlace
  <2>3. d = c => PagesOfGrant(h) \cap PagesOfGrant(g) = {}
    <3> SUFFICES ASSUME d = c PROVE PagesOfGrant(h) \cap PagesOfGrant(g) = {}  OBVIOUS
    <3>1. Granting(G[c]) /\ Holding(M[c], G[c]) /\ h \in ToSet(G[c])  BY DEF Registers
    <3> QED  BY <3>1, HeldApart
  <2> QED  BY <1>1, <2>2, <2>3 DEF SamePages
<1> QED  BY <1>1, <1>2

(* What it leaves: the other buffers, tables that map what is listed, and, *)
(* if it got its pages, the buffer, zero everywhere.                       *)
Given(m, x, pa, N, G, rt, c, g) ==
  /\ x.cur # 0 /\ Kept(m, x, G, rt) /\ OnlyListed(x, N, G, rt)
  /\ \E E : Housed(x, G, rt, E)
  /\ pa # 0 => /\ pa \in Nat /\ \E E : Housed(x, WithGrant(G, c, g), rt, E)
               /\ \A b \in Nat : InBuffer(g, b) => ReadVirt(x, rt[c], b) = 0

LEMMA GivenLists ==
  ASSUME NEW m, NEW M, NEW G, NEW rt, OnlyListed(m, M, G, rt),
         NEW c \in DOMAIN G, c \in DOMAIN M, NEW g, NEW t, Taking(M[c], t, G[c], g),
         NEW N, N = WithList(M, c, t), NEW x,
         \A d \in DOMAIN G, w \in VPages :
           d # c \/ w \notin PagesOfGrant(g) => Convert(x, rt[d], w) = Convert(m, rt[d], w)
  PROVE  OnlyListed(x, N, G, rt)
<1>1. DOMAIN N = DOMAIN M /\ N[c] = t /\ \A d \in DOMAIN M : d # c => N[d] = M[d]
  BY DEF WithList
<1> SUFFICES ASSUME NEW d \in DOMAIN G \cap DOMAIN N, NEW w \in VPages, Convert(x, rt[d], w) # 0
             PROVE  \E i \in 1 .. Len(N[d]) : w \in PagesOfGrant(N[d][i])
  BY DEF OnlyListed
<1>2. CASE d = c /\ w \in PagesOfGrant(g)  BY <1>1, <1>2 DEF Taking
<1>3. CASE ~(d = c /\ w \in PagesOfGrant(g))
  <2>1. d \in DOMAIN M /\ Convert(m, rt[d], w) # 0  BY <1>1, <1>3
  <2>2. PICK i \in 1 .. Len(M[d]) : w \in PagesOfGrant(M[d][i])  BY <2>1 DEF OnlyListed
  <2>3. CASE d # c  BY <1>1, <2>1, <2>2, <2>3
  <2>4. CASE d = c  BY <1>1, <2>2, <2>4 DEF Taking
  <2> QED  BY <2>3, <2>4
<1> QED  BY <1>2, <1>3

LEMMA AllocGiven ==
  ASSUME NEW m, NEW M, NEW G, NEW rt, Intact(m, M, G, rt), m.cur # 0,
         NEW c \in DOMAIN G, c \in DOMAIN M,
         NEW g, Buffer(g), NEW t, Taking(M[c], t, G[c], g),
         NEW N, N = WithList(M, c, t),
         NEW a, a = Allocate(m, rt[c], FirstPage(g), NumPages(g.size), "crash")
  PROVE  Given(m, a.m, a.pa, N, G, rt, c, g)
<1> DEFINE R == Roots(G, rt)
           r == rt[c]
           n == NumPages(g.size)
           v == FirstPage(g)
           x == a.m
           pa == a.pa
<1>1. PICK F : Housed(m, G, rt, F)  BY DEF Intact
<1>2. Registers(M, G, rt) /\ OnlyListed(m, M, G, rt) /\ HoldsBuffers(G)
  BY AllBuffers DEF Intact
<1>3. HasTables(m, R, F) /\ FrameBlocks \subseteq F /\ r \in R  BY <1>1 DEF Housed, Roots
<1>4. v \in Nat /\ n \in Nat \ {0}  BY BufferPlace
<1>5. Allocated(m, x, pa, R, F, r, v, n)
  <2>1. \A j \in 0 .. n - 1 : v + j \in VPages /\ Convert(m, r, v + j) = 0  BY <1>2, PagesFree
  <2>2. x = Allocate(m, r, v, n, "crash").m /\ pa = Allocate(m, r, v, n, "crash").pa  OBVIOUS
  <2> HIDE DEF R, r, n, v, x, pa
  <2> QED  BY <1>3, <1>4, <2>1, <2>2, AllocateStep
<1>6. /\ \A d \in DOMAIN G, w \in VPages :
           d # c \/ w \notin PagesOfGrant(g) => Convert(x, rt[d], w) = Convert(m, rt[d], w)
      /\ \A d \in DOMAIN G : \A h \in ToSet(G[d]) : SamePages(m, x, rt[d], h)
  BY <1>2, <1>5, OthersStay
<1> HIDE DEF x, pa
<1>7. \A d \in DOMAIN G : \A h \in ToSet(G[d]) :
        Lodged(m, rt[d], h, F) /\ Buffer(h) /\ HomeOf(m, rt[d], h) \in F
  BY <1>1, <1>2 DEF Housed, HoldsBuffers, Lodged
<1>8. Kept(m, x, G, rt)
  <2> SUFFICES ASSUME NEW d \in DOMAIN G, NEW h \in ToSet(G[d])
               PROVE  SamePages(m, x, rt[d], h) /\ SameWords(m, x, rt[d], h)
    BY DEF Kept
  <2>1. KeepsWords(m, x, F)  BY <1>5 DEF Allocated
  <2>2. SamePages(m, x, rt[d], h)  BY <1>6
  <2>3. HasTables(m, R, F) /\ Lodged(m, rt[d], h, F) /\ Buffer(h) /\ HomeOf(m, rt[d], h) \in F
    BY <1>3, <1>7
  <2> HIDE DEF R
  <2> QED  BY <2>1, <2>2, <2>3, WordsKept
<1>9. OnlyListed(x, N, G, rt)  BY <1>2, <1>6, GivenLists
<1>10. ASSUME NEW E, HasTables(x, R, E), F \subseteq E PROVE Housed(x, G, rt, E)
  <2>1. \A d \in DOMAIN G : ToSet(G[d]) \subseteq ToSet(G[d])  OBVIOUS
  <2>2. \A d \in DOMAIN G : \A h \in ToSet(G[d]) :
          SamePages(m, x, rt[d], h) /\ HomeOf(m, rt[d], h) \in E
    BY <1>6, <1>7, <1>10
  <2>3. FrameBlocks \subseteq E  BY <1>3, <1>10
  <2> QED  BY <1>1, <1>2, <1>10, <2>1, <2>2, <2>3, HousedSame
<1>11. CASE pa = 0
  <2>1. PICK E : F \subseteq E /\ HasTables(x, R, E)  BY <1>5, <1>11 DEF Allocated
  <2>2. Housed(x, G, rt, E)  BY <1>10, <2>1
  <2> QED  BY <1>5, <1>8, <1>9, <1>11, <2>2 DEF Given, Allocated, x, pa
<1>12. CASE pa # 0
  <2> DEFINE B == Block(pa, n)
             E == F \cup {B}
             H == WithGrant(G, c, g)
  <2>1. /\ pa \in Nat /\ Reserved <= pa /\ pa + n <= MaxRange /\ HasTables(x, R, E)
        /\ \A b \in BlocksOf(m) : \A p \in pa .. pa + n - 1 : p \notin PagesOf(b)
        /\ \A j \in 0 .. n - 1 : Convert(x, r, v + j) = pa + j
        /\ \A p \in pa .. pa + n - 1, i \in Offsets : ReadWord(x, p, i) = 0
    BY <1>5, <1>12 DEF Allocated
  <2>2. F \subseteq E /\ B \in E  OBVIOUS
  <2> HIDE DEF E
  <2>3. Housed(x, G, rt, E)  BY <1>10, <2>1, <2>2
  <2>4. Convert(x, r, v) = pa
    <3>1. 0 \in 0 .. n - 1 /\ v + 0 = v /\ pa + 0 = pa  BY <1>4, <2>1
    <3> QED  BY <2>1, <3>1
  <2>5. B \notin FrameBlocks /\ B \notin BlocksOf(m)
    <3>1. B # Block(0, Reserved) /\ B # Block(MaxRange, 1)
      BY <1>4, <2>1, Units DEF Block
    <3>2. pa \in PagesOf(B) /\ pa \in pa .. pa + n - 1
      BY <1>4, <2>1 DEF PagesOf, Block, BlockEnd
    <3> QED  BY <2>1, <3>1, <3>2 DEF FrameBlocks
  <2>6. Lodged(x, r, g, E) /\ HomeOf(x, r, g) = B
    BY <2>1, <2>2, <2>4, <2>5 DEF Lodged, HomeOf
  <2>7. ASSUME NEW d \in DOMAIN G, NEW h \in ToSet(G[d])
        PROVE  HomeOf(x, rt[d], h) # HomeOf(x, r, g)
    <3>1. Lodged(m, rt[d], h, F) /\ Buffer(h) /\ HomeOf(m, rt[d], h) \in F
          /\ SamePages(m, x, rt[d], h)
      BY <1>6, <1>7
    <3>2. HomeOf(x, rt[d], h) = HomeOf(m, rt[d], h)  BY <3>1, LodgedSame
    <3>3. F \subseteq BlocksOf(m)  BY <1>3 DEF HasTables, Tables
    <3> QED  BY <2>5, <2>6, <3>1, <3>2, <3>3
  <2>8. Housed(x, H, rt, E)
    <3>1. DOMAIN H = DOMAIN G /\ H[c] = Append(G[c], g) /\ \A d \in DOMAIN G : d # c => H[d] = G[d]
      BY DEF WithGrant
    <3>2. G[c] \in Seq(GrantType) /\ g \in GrantType  BY <1>2 DEF Registers, Granting, Buffer
    <3>3. ToSet(H[c]) = ToSet(G[c]) \cup {g}  BY <3>1, <3>2, Elements
    <3>4. Lodged(x, rt[c], g, E) /\ OneMore(G, H, c, g)  BY <2>6, <3>1, <3>3 DEF OneMore
    <3>5. \A d \in DOMAIN G : \A h \in ToSet(G[d]) : HomeOf(x, rt[d], h) # HomeOf(x, rt[c], g)
      BY <2>7
    <3> HIDE DEF H, B, R, r, n, v
    <3> QED  BY <2>3, <3>4, <3>5, HousedMore
  <2>9. ASSUME NEW b \in Nat, InBuffer(g, b) PROVE ReadVirt(x, r, b) = 0
    <3> DEFINE u == b \div PAGESIZE
               i == b % PAGESIZE
    <3>1. u \in PagesOfGrant(g) /\ i \in Offsets /\ ReadVirt(x, r, b) = ReadWord(x, Convert(x, r, u), i)
      BY <2>9, WordPlace
    <3> HIDE DEF u, i
    <3>2. PagesOfGrant(g) = v .. v + n - 1  BY BufferPlace
    <3> HIDE DEF r, n, v
    <3>3. u - v \in 0 .. n - 1 /\ v + (u - v) = u /\ pa + (u - v) \in pa .. pa + n - 1
      BY <1>4, <2>1, <3>1, <3>2
    <3>4. Convert(x, r, u) = pa + (u - v)  BY <2>1, <3>3
    <3> QED  BY <2>1, <3>1, <3>3, <3>4
  <2> QED
    BY <1>5, <1>8, <1>9, <2>1, <2>3, <2>8, <2>9 DEF Given, Allocated, x, pa
<1> QED  BY <1>11, <1>12

-----------------------------------------------------------------------------
(* alloc_local_mem as a whole.                                             *)
Threaded(s) == s = [pm |-> s.pm, mng |-> s.mng, granted |-> s.granted, ret |-> s.ret]
Sound(s) == Threaded(s) /\ Intact(s.pm, s.mng, s.granted, root) /\ s.pm.cur # 0
Grant(type, v, n) == [type |-> type, vaddr |-> v, size |-> n]

Refused(s, y) == y.ret = "throw" /\ y.granted = s.granted
GivenTo(s, y, c, g) ==
  /\ y.ret = s.ret /\ c \in DOMAIN s.mng /\ Buffer(g)
  /\ y.granted = WithGrant(s.granted, c, g)
  /\ \A b \in Nat : InBuffer(g, b) => ReadVirt(y.pm, root[c], b) = 0
AllocDone(s, y, c, g) ==
  /\ Sound(y) /\ Kept(s.pm, y.pm, s.granted, root) /\ DOMAIN y.mng = DOMAIN s.mng
  /\ Refused(s, y) \/ GivenTo(s, y, c, g)

Thread(p, q, h, o) == [pm |-> p, mng |-> q, granted |-> h, ret |-> o]

LEMMA Fields ==
  ASSUME NEW p, NEW q, NEW h, NEW o, NEW y, y = Thread(p, q, h, o)
  PROVE  Threaded(y) /\ y.pm = p /\ y.mng = q /\ y.granted = h /\ y.ret = o
BY DEF Threaded, Thread

LEMMA KeptSelf ==
  ASSUME NEW m, NEW G, NEW rt
  PROVE  Kept(m, m, G, rt)
BY DEF Kept, SamePages, SameWords

AllocResult(s, c, k, v, N, a, g) ==
  IF v = 0 THEN [pm |-> s.pm, mng |-> s.mng, granted |-> s.granted, ret |-> "throw"]
  ELSE IF a.pa = 0 \/ ItemsAt(N, k, v) = {}
  THEN [pm |-> a.m, mng |-> N, granted |-> s.granted, ret |-> "throw"]
  ELSE [pm |-> a.m, mng |-> AttachPaddr(N, k, v, a.pa),
        granted |-> WithGrant(s.granted, c, g), ret |-> s.ret]

LEMMA AllocIs ==
  ASSUME NEW s, Threaded(s), NEW c, NEW k, NEW n, NEW type,
         NEW v, v = GrantedVaddr(s.mng, c, n, type)
  PROVE  AllocLocalMem(s, c, k, n, type) =
           AllocResult(s, c, k, v, AllocMemory(s.mng, c, n, type),
                       Allocate(s.pm, root[c], v \div PAGESIZE, NumPages(n), "crash"),
                       Grant(type, v, n))
<1> DEFINE N == AllocMemory(s.mng, c, n, type)
           a == Allocate(s.pm, root[c], v \div PAGESIZE, NumPages(n), "crash")
           g == Grant(type, v, n)
           x == [s EXCEPT !.mng = AllocMemory(@, c, n, type)]
           y == [x EXCEPT !.pm = a.m]
           z == [x EXCEPT !.pm = a.m, !.mng = AttachPaddr(@, k, v, a.pa),
                          !.granted[c] = Append(@, g)]
<1>1. AllocLocalMem(s, c, k, n, type) =
        IF v = 0 THEN Throws(s)
        ELSE IF a.pa = 0 \/ ItemsAt(x.mng, k, v) = {} THEN Throws(y) ELSE z
  BY DEF AllocLocalMem, Grant
<1> HIDE DEF g, a
<1>2. x = [pm |-> s.pm, mng |-> N, granted |-> s.granted, ret |-> s.ret]  BY DEF Threaded
<1> HIDE DEF x, N
<1>3. y = [pm |-> a.m, mng |-> N, granted |-> s.granted, ret |-> s.ret]  BY <1>2
<1>4. z = [pm |-> a.m, mng |-> AttachPaddr(N, k, v, a.pa),
           granted |-> WithGrant(s.granted, c, g), ret |-> s.ret]
  <2> DEFINE p == a.m
             q == AttachPaddr(N, k, v, a.pa)
             h == Append(s.granted[c], g)
             l == s.granted
             o == s.ret
  <2>1. AttachPaddr(x.mng, k, v, a.pa) = q /\ Append(x.granted[c], g) = h  BY <1>2
  <2>2. z = [x EXCEPT !.pm = p, !.mng = q, !.granted[c] = h]  BY <2>1
  <2>3. WithGrant(l, c, g) = [l EXCEPT ![c] = h]  BY DEF WithGrant
  <2> HIDE DEF p, q, h, l, o, z
  <2>4. x = [pm |-> s.pm, mng |-> N, granted |-> l, ret |-> o]  BY <1>2 DEF l, o
  <2>5. z = [[[x EXCEPT !.pm = p] EXCEPT !.mng = q] EXCEPT !.granted = [@ EXCEPT ![c] = h]]
    BY <2>2, Zenon
  <2>6. [x EXCEPT !.pm = p] = [pm |-> p, mng |-> N, granted |-> l, ret |-> o]  BY <2>4
  <2>7. z = [pm |-> p, mng |-> q, granted |-> [l EXCEPT ![c] = h], ret |-> o]  BY <2>5, <2>6
  <2> QED  BY <2>3, <2>7 DEF p, q, l, o
<1> HIDE DEF y, z
<1>5. Throws(y) = [pm |-> a.m, mng |-> N, granted |-> s.granted, ret |-> "throw"]
  BY <1>3 DEF Throws
<1>6. Throws(s) = [pm |-> s.pm, mng |-> s.mng, granted |-> s.granted, ret |-> "throw"]
  BY DEF Throws, Threaded
<1>7. x.mng = N  BY <1>2
<1>8. AllocLocalMem(s, c, k, n, type) = AllocResult(s, c, k, v, N, a, g)
  BY <1>1, <1>4, <1>5, <1>6, <1>7 DEF AllocResult
<1> QED  BY <1>8 DEF N, a, g

LEMMA AllocCall ==
  ASSUME NEW s, Sound(s), NEW c \in DOMAIN s.granted, NEW k, NEW n \in Nat,
         NEW type \in BufferType,
         c \in DOMAIN s.mng /\ type # "KERNEL_MEM" =>
           \A i \in 1 .. Len(s.mng[c]) : s.mng[c][i].vaddr < BUF_PARA_BASE,
         NEW v, v = GrantedVaddr(s.mng, c, n, type),
         NEW y, y = AllocLocalMem(s, c, k, n, type)
  PROVE  AllocDone(s, y, c, Grant(type, v, n))
<1> DEFINE m == s.pm
           M == s.mng
           G == s.granted
           N == AllocMemory(M, c, n, type)
           g == Grant(type, v, n)
           a == Allocate(m, root[c], v \div PAGESIZE, NumPages(n), "crash")
<1>1. /\ Threaded(s) /\ Intact(m, M, G, root) /\ m.cur # 0
      /\ Registers(M, G, root) /\ OnlyListed(m, M, G, root)
  BY DEF Sound, Intact
<1>0. y = AllocResult(s, c, k, v, N, a, g)  BY <1>1, AllocIs
<1>2. CASE v = 0
  <2>1. y = [pm |-> m, mng |-> M, granted |-> G, ret |-> "throw"]
    BY <1>0, <1>2 DEF AllocResult
  <2>2. Threaded(y) /\ y.pm = m /\ y.mng = M /\ y.granted = G /\ y.ret = "throw"
    BY <2>1 DEF Threaded
  <2>3. Kept(m, m, G, root)  BY KeptSelf
  <2> QED  BY <1>1, <2>2, <2>3 DEF AllocDone, Sound, Refused
<1>3. CASE v # 0
  <2>1. c \in DOMAIN M  BY <1>3 DEF GrantedVaddr
  <2>2. Listing(M[c]) /\ Granting(G[c]) /\ Holding(M[c], G[c])  BY <1>1, <2>1 DEF Registers
  <2>3. /\ n \in Nat \ {0} /\ v \in Nat /\ Aligned(v)
        /\ InSegment([type |-> type, vaddr |-> v, size |-> n])
        /\ \E t, p : /\ AllocMemory(M, c, n, type) = [M EXCEPT ![c] = t]
                     /\ t \in Seq(ItemType) /\ Listing(t)
                     /\ Slot(M[c], p, v, n) /\ HasInserted(t, M[c], p, Item(v, n))
    BY <1>3, <2>1, <2>2, AllocPlaces
  <2>4. PICK t, p : /\ N = [M EXCEPT ![c] = t] /\ Listing(t)
                    /\ Slot(M[c], p, v, n) /\ HasInserted(t, M[c], p, Item(v, n))
    BY <2>3
  <2>5. Buffer(g) /\ g.vaddr = v /\ g.size = n /\ g.type = type
    BY <2>3 DEF Buffer, Grant, GrantType
  <2> HIDE DEF N, g
  <2>6. Taking(M[c], t, G[c], g)  BY <2>2, <2>4, <2>5, TakingPlace
  <2>7. N = WithList(M, c, t)  BY <2>4 DEF WithList
  <2>8. Registers(N, G, root) /\ Registers(N, WithGrant(G, c, g), root)
    BY <1>1, <2>1, <2>5, <2>6, <2>7, ListedRegisters
  <2>9. Given(m, a.m, a.pa, N, G, root, c, g)
    <3>1. a = Allocate(m, root[c], FirstPage(g), NumPages(g.size), "crash")
      BY <2>5 DEF FirstPage
    <3> HIDE DEF a, m, M, G
    <3> QED  BY <1>1, <2>1, <2>5, <2>6, <2>7, <3>1, AllocGiven DEF G
  <2> HIDE DEF a
  <2>10. /\ a.m.cur # 0 /\ Kept(m, a.m, G, root) /\ OnlyListed(a.m, N, G, root)
         /\ \E E : Housed(a.m, G, root, E)
    BY <2>9 DEF Given
  <2>11. DOMAIN N = DOMAIN M  BY <2>7 DEF WithList
  <2>12. CASE a.pa = 0 \/ ItemsAt(N, k, v) = {}
    <3>1. y = [pm |-> a.m, mng |-> N, granted |-> G, ret |-> "throw"]
      BY <1>0, <1>3, <2>12 DEF AllocResult
    <3>2. Threaded(y) /\ y.pm = a.m /\ y.mng = N /\ y.granted = G /\ y.ret = "throw"
      BY <3>1 DEF Threaded
    <3>3. Intact(a.m, N, G, root)  BY <2>8, <2>10 DEF Intact
    <3> QED  BY <2>10, <2>11, <3>2, <3>3 DEF AllocDone, Sound, Refused
  <2>13. CASE ~(a.pa = 0 \/ ItemsAt(N, k, v) = {})
    <3> DEFINE L == AttachPaddr(N, k, v, a.pa)
               H == WithGrant(G, c, g)
    <3>1. y = [pm |-> a.m, mng |-> L, granted |-> H, ret |-> s.ret]
      BY <1>0, <1>3, <2>13 DEF AllocResult
    <3>2. /\ a.pa \in Nat /\ \E E : Housed(a.m, H, root, E)
          /\ \A b \in Nat : InBuffer(g, b) => ReadVirt(a.m, root[c], b) = 0
      BY <2>9, <2>13 DEF Given
    <3>3. DOMAIN L = DOMAIN N /\ \A d \in DOMAIN N : SameItems(N[d], L[d])
      <4>1. \A d \in DOMAIN N : Listing(N[d])  BY <2>8 DEF Registers
      <4> QED  BY <3>2, <4>1, AttachSame
    <3> HIDE DEF L, H
    <3>4. Registers(L, H, root)  BY <2>8, <3>3, SameListing DEF H
    <3>5. OnlyListed(a.m, L, H, root)
      <4>1. DOMAIN H = DOMAIN G  BY DEF H, WithGrant
      <4>2. \A d \in DOMAIN N : /\ Len(L[d]) = Len(N[d])
                                /\ \A i \in 1 .. Len(N[d]) : PagesOfGrant(L[d][i]) = PagesOfGrant(N[d][i])
        BY <3>3 DEF SameItems, PagesOfGrant
      <4> QED  BY <2>10, <3>3, <4>1, <4>2 DEF OnlyListed
    <3>6. Threaded(y) /\ y.pm = a.m /\ y.mng = L /\ y.granted = H /\ y.ret = s.ret
      BY <3>1 DEF Threaded
    <3>7. Intact(a.m, L, H, root)  BY <3>2, <3>4, <3>5 DEF Intact
    <3>8. GivenTo(s, y, c, g)  BY <2>1, <2>5, <3>2, <3>6 DEF GivenTo, H
    <3> QED  BY <2>10, <2>11, <3>3, <3>6, <3>7, <3>8 DEF AllocDone, Sound, g
  <2> QED  BY <2>12, <2>13
<1> QED  BY <1>2, <1>3

-----------------------------------------------------------------------------
(* free_local_mem as a whole: the buffer goes with its block, and its      *)
(* context is listed no more.                                              *)
LessGrant(G, c, k) == [G EXCEPT ![c] = RemoveAt(@, k)]
Unlisted(M, c) == [d \in DOMAIN M \ {c} |-> M[d]]
GrantAt(gr, v) == CHOOSE k \in 1 .. Len(gr) : gr[k].vaddr = v

LEMMA OthersHeld ==
  ASSUME NEW gr, Granting(gr), \A g \in ToSet(gr) : Aligned(g.vaddr), NEW k \in 1 .. Len(gr)
  PROVE  /\ Granting(RemoveAt(gr, k))
         /\ \A h \in ToSet(RemoveAt(gr, k)) : h \in ToSet(gr) /\ h # gr[k]
<1>1. /\ gr \in Seq(GrantType) /\ Len(gr) \in Nat
      /\ ToSet(gr) = {gr[i] : i \in 1 .. Len(gr)} /\ \A g \in ToSet(gr) : Buffer(g)
  BY HeldBuffers
<1> DEFINE t == RemoveAt(gr, k)
<1>2. t \in Seq(GrantType) /\ HasRemoved(t, gr, k)  BY <1>1, RemoveAtFacts
<1>3. Granting(t)  BY GrantRemoved
<1> HIDE DEF t
<1>4. ASSUME NEW h \in ToSet(t) PROVE h \in ToSet(gr) /\ h # gr[k]
  <2>1. PICK j \in 1 .. Len(t) : h = t[j]  BY <1>2, Elements
  <2>2. PICK i \in 1 .. Len(gr) : i # k /\ h = gr[i]
    <3>1. Len(t) = Len(gr) - 1 /\ j \in 1 .. Len(gr) - 1  BY <1>2, <2>1 DEF HasRemoved
    <3>2. CASE j < k
      <4>1. j \in 1 .. Len(gr) /\ j # k /\ h = gr[j]  BY <1>1, <1>2, <2>1, <3>1, <3>2 DEF HasRemoved
      <4> QED  BY <4>1
    <3>3. CASE ~(j < k)
      <4>1. j + 1 \in 1 .. Len(gr) /\ j + 1 # k /\ h = gr[j + 1]
        BY <1>1, <1>2, <2>1, <3>1, <3>3 DEF HasRemoved
      <4> QED  BY <4>1
    <3> QED  BY <3>2, <3>3
  <2>3. h \in ToSet(gr) /\ Buffer(h)  BY <1>1, <2>2
  <2>4. PagesOfGrant(h) # {}  BY <2>3, FirstInside
  <2>5. PagesOfGrant(gr[i]) \cap PagesOfGrant(gr[k]) = {}  BY <2>2 DEF Granting
  <2> QED  BY <2>2, <2>3, <2>4, <2>5
<1> QED  BY <1>3, <1>4 DEF t

FreeDone(s, y, c, k) ==
  /\ Threaded(y) /\ Intact(y.pm, y.mng, y.granted, root)
  /\ Kept(s.pm, y.pm, y.granted, root)
  /\ \/ y.pm = s.pm /\ y.mng = s.mng /\ Refused(s, y)
     \/ /\ y.ret = s.ret /\ y.granted = LessGrant(s.granted, c, k)
        /\ y.mng = Unlisted(s.mng, c)

LEMMA FreeIs ==
  ASSUME NEW s, Threaded(s), NEW c, NEW v, ReleaseOk(s.pm, root[c], v \div PAGESIZE)
  PROVE  FreeLocalMem(s, c, v) =
           IF ItemsAt(s.mng, c, v) = {}
           THEN [pm |-> s.pm, mng |-> s.mng, granted |-> s.granted, ret |-> "throw"]
           ELSE [pm |-> Release(s.pm, root[c], v \div PAGESIZE), mng |-> Unlisted(s.mng, c),
                 granted |-> LessGrant(s.granted, c, GrantAt(s.granted[c], v)), ret |-> s.ret]
<1> DEFINE N == ReleaseMemory(s.mng, c, v)
           m == Release(s.pm, root[c], v \div PAGESIZE)
           h == RemoveAt(s.granted[c], GrantAt(s.granted[c], v))
           l == s.granted
           o == s.ret
           x == [s EXCEPT !.mng = ReleaseMemory(@, c, v)]
           z == [x EXCEPT !.pm = Release(@, root[c], v \div PAGESIZE),
                          !.granted[c] = RemoveAt(@, CHOOSE k \in 1 .. Len(@) : @[k].vaddr = v)]
<1>1. FreeLocalMem(s, c, v) = IF ItemsAt(s.mng, c, v) = {} THEN Throws(s) ELSE z
  BY DEF FreeLocalMem
<1>2. x = [pm |-> s.pm, mng |-> N, granted |-> l, ret |-> o]  BY DEF Threaded
<1> HIDE DEF x, N
<1>3. Release(x.pm, root[c], v \div PAGESIZE) = m
      /\ RemoveAt(x.granted[c], CHOOSE k \in 1 .. Len(x.granted[c]) : x.granted[c][k].vaddr = v) = h
  BY <1>2 DEF GrantAt
<1>4. z = [x EXCEPT !.pm = m, !.granted[c] = h]  BY <1>3
<1>5. LessGrant(l, c, GrantAt(l[c], v)) = [l EXCEPT ![c] = h]  BY DEF LessGrant
<1> HIDE DEF m, h, l, o, z
<1>6. z = [[x EXCEPT !.pm = m] EXCEPT !.granted = [@ EXCEPT ![c] = h]]  BY <1>4, Zenon
<1>7. [x EXCEPT !.pm = m] = [pm |-> m, mng |-> N, granted |-> l, ret |-> o]  BY <1>2
<1>8. z = [pm |-> m, mng |-> N, granted |-> [l EXCEPT ![c] = h], ret |-> o]  BY <1>6, <1>7
<1>9. Throws(s) = [pm |-> s.pm, mng |-> s.mng, granted |-> s.granted, ret |-> "throw"]
  BY DEF Throws, Threaded
<1>10. ItemsAt(s.mng, c, v) # {} => N = Unlisted(s.mng, c)  BY DEF N, ReleaseMemory, Unlisted
<1> QED  BY <1>1, <1>5, <1>8, <1>9, <1>10 DEF m, l, o

LEMMA FreeLeaves ==
  ASSUME NEW m, NEW M, NEW G, NEW rt, Intact(m, M, G, rt),
         NEW c \in DOMAIN G, NEW k \in 1 .. Len(G[c]), NEW g, g = G[c][k],
         NEW x, x = Release(m, rt[c], FirstPage(g)),
         NEW H, H = LessGrant(G, c, k), NEW N, N = Unlisted(M, c)
  PROVE  /\ ReleaseOk(m, rt[c], FirstPage(g)) /\ Intact(x, N, H, rt) /\ Kept(m, x, H, rt)
<1>1. Registers(M, G, rt) /\ OnlyListed(m, M, G, rt) /\ HoldsBuffers(G)
  BY AllBuffers DEF Intact
<1>2. PICK F : Housed(m, G, rt, F)  BY DEF Intact
<1>3. g \in ToSet(G[c])
  <2>1. G[c] \in Seq(GrantType)  BY <1>1 DEF Registers, Granting
  <2>2. ToSet(G[c]) = {G[c][i] : i \in 1 .. Len(G[c])}  BY <2>1, Elements
  <2> QED  BY <2>2
<1> DEFINE r == rt[c]
           b == HomeOf(m, r, g)
           E == F \ {b}
<1>4. /\ HasTables(m, Roots(G, rt), F) /\ FrameBlocks \subseteq F /\ r \in Roots(G, rt)
      /\ Lodged(m, r, g, F) /\ Buffer(g) /\ b \in F /\ b \notin FrameBlocks
  BY <1>1, <1>2, <1>3 DEF Housed, HoldsBuffers, Roots, Lodged
<1>5. Convert(m, r, FirstPage(g)) \in PagesOf(b)
  <2>1. FirstPage(g) \in PagesOfGrant(g)  BY <1>4, FirstInside
  <2> QED  BY <1>4, <2>1, PageHome
<1>6. /\ HasTables(x, Roots(G, rt), E) /\ SameWays(m, x, Roots(G, rt))
      /\ ReleaseOk(m, r, FirstPage(g)) /\ KeepsWords(m, x, E)
  <2> DEFINE R == Roots(G, rt)
             u == FirstPage(g)
  <2>1. HasTables(m, R, F) /\ r \in R /\ b \in F /\ Convert(m, r, u) \in PagesOf(b)
        /\ x = Release(m, r, u)
    BY <1>4, <1>5
  <2> HIDE DEF R, u, r, b
  <2>2. /\ HasTables(x, R, F \ {b}) /\ SameWays(m, x, R)
        /\ ReleaseOk(m, r, u) /\ KeepsWords(m, x, F \ {b})
    BY ONLY <2>1, ReleaseStep
  <2> QED  BY <2>2 DEF R, u
<1>7. DOMAIN H = DOMAIN G /\ H[c] = RemoveAt(G[c], k) /\ \A d \in DOMAIN G : d # c => H[d] = G[d]
  BY DEF LessGrant
<1>8. /\ Granting(H[c]) /\ \A h \in ToSet(H[c]) : h \in ToSet(G[c]) /\ h # g
  <2>1. Granting(G[c]) /\ \A h \in ToSet(G[c]) : Aligned(h.vaddr)  BY <1>1 DEF Registers
  <2>2. /\ Granting(RemoveAt(G[c], k))
        /\ \A h \in ToSet(RemoveAt(G[c], k)) : h \in ToSet(G[c]) /\ h # G[c][k]
    BY <2>1, OthersHeld
  <2> QED  BY <1>7, <2>2
<1>9. ASSUME NEW d \in DOMAIN G, NEW h \in ToSet(H[d])
      PROVE  /\ h \in ToSet(G[d]) /\ Lodged(m, rt[d], h, F) /\ Buffer(h)
             /\ HomeOf(m, rt[d], h) \in E /\ SamePages(m, x, rt[d], h)
             /\ SameWords(m, x, rt[d], h)
  <2>1. h \in ToSet(G[d]) /\ ~(d = c /\ h = g)
    <3>1. CASE d = c  BY <1>8, <3>1
    <3>2. CASE d # c  BY <1>7, <3>2
    <3> QED  BY <3>1, <3>2
  <2>2. Lodged(m, rt[d], h, F) /\ Buffer(h) /\ HomeOf(m, rt[d], h) \in F
    BY <1>1, <1>2, <2>1 DEF Housed, HoldsBuffers, Lodged
  <2>3. HomeOf(m, rt[d], h) # b  BY <1>2, <1>3, <2>1 DEF Housed
  <2>4. SamePages(m, x, rt[d], h)  BY <1>1, <1>6, <2>1, PagesSame
  <2>5. HomeOf(m, rt[d], h) \in E  BY <2>2, <2>3
  <2> HIDE DEF E
  <2>6. SameWords(m, x, rt[d], h)  BY <1>4, <1>6, <2>2, <2>4, <2>5, WordsKept
  <2> QED  BY <2>1, <2>2, <2>4, <2>5, <2>6
<1>10. Kept(m, x, H, rt)  BY <1>7, <1>9 DEF Kept
<1>11. Housed(x, H, rt, E)
  <2>1. FrameBlocks \subseteq E  BY <1>4
  <2>2. \A d \in DOMAIN G : ToSet(H[d]) \subseteq ToSet(G[d])  BY <1>9
  <2>3. \A d \in DOMAIN G : \A h \in ToSet(H[d]) :
          SamePages(m, x, rt[d], h) /\ HomeOf(m, rt[d], h) \in E
    BY <1>9
  <2>4. DOMAIN H = DOMAIN G  BY <1>7
  <2> HIDE DEF E
  <2> QED  BY <1>1, <1>2, <1>6, <2>1, <2>2, <2>3, <2>4, HousedSame
<1>12. DOMAIN N = DOMAIN M \ {c} /\ \A d \in DOMAIN N : N[d] = M[d]  BY DEF Unlisted
<1>13. Registers(N, H, rt)
  <2>1. ASSUME NEW d \in DOMAIN H
        PROVE  /\ Granting(H[d]) /\ rt[d] # 0
               /\ \A h \in ToSet(H[d]) : Aligned(h.vaddr)
               /\ d \in DOMAIN N => Holding(N[d], H[d])
    <3>1. d \in DOMAIN G /\ \A h \in ToSet(H[d]) : h \in ToSet(G[d])  BY <1>7, <1>9
    <3>2. d # c => H[d] = G[d]  BY <1>7, <3>1
    <3> QED  BY <1>1, <1>8, <1>12, <3>1, <3>2 DEF Registers
  <2> QED  BY <1>1, <1>7, <1>12, <2>1 DEF Registers
<1>14. OnlyListed(x, N, H, rt)
  <2>1. OnlyListed(x, M, G, rt)  BY <1>1, <1>6, ListedSame
  <2> QED  BY <1>7, <1>12, <2>1 DEF OnlyListed
<1> QED  BY <1>6, <1>10, <1>11, <1>13, <1>14 DEF Intact

FreeCalled(s, y, c, k, v) ==
  /\ v = s.granted[c][k].vaddr /\ k = GrantAt(s.granted[c], v)
  /\ y = FreeLocalMem(s, c, v)

LEMMA FreeCall ==
  ASSUME NEW s, Sound(s), NEW c \in DOMAIN s.granted, NEW k \in 1 .. Len(s.granted[c]),
         NEW v, NEW y, FreeCalled(s, y, c, k, v)
  PROVE  FreeDone(s, y, c, k)
<1> DEFINE g == s.granted[c][k]
           x == Release(s.pm, root[c], FirstPage(g))
           H == LessGrant(s.granted, c, k)
           N == Unlisted(s.mng, c)
<1>1. Threaded(s) /\ Intact(s.pm, s.mng, s.granted, root)  BY DEF Sound
<1>2. /\ ReleaseOk(s.pm, root[c], FirstPage(g)) /\ Intact(x, N, H, root)
      /\ Kept(s.pm, x, H, root)
  BY <1>1, FreeLeaves
<1>3. v \div PAGESIZE = FirstPage(g)  BY DEF FirstPage, FreeCalled
<1>4. y = IF ItemsAt(s.mng, c, v) = {}
          THEN [pm |-> s.pm, mng |-> s.mng, granted |-> s.granted, ret |-> "throw"]
          ELSE [pm |-> x, mng |-> N, granted |-> H, ret |-> s.ret]
  <2> HIDE DEF g
  <2>1. ReleaseOk(s.pm, root[c], v \div PAGESIZE)  BY <1>2, <1>3
  <2>2. FreeLocalMem(s, c, v) =
          IF ItemsAt(s.mng, c, v) = {}
          THEN [pm |-> s.pm, mng |-> s.mng, granted |-> s.granted, ret |-> "throw"]
          ELSE [pm |-> Release(s.pm, root[c], v \div PAGESIZE), mng |-> Unlisted(s.mng, c),
                granted |-> LessGrant(s.granted, c, GrantAt(s.granted[c], v)), ret |-> s.ret]
    BY <1>1, <2>1, FreeIs
  <2>3. y = FreeLocalMem(s, c, v) /\ k = GrantAt(s.granted[c], v)  BY DEF FreeCalled
  <2>4. Release(s.pm, root[c], v \div PAGESIZE) = x  BY <1>3
  <2>5. LessGrant(s.granted, c, GrantAt(s.granted[c], v)) = H  BY <2>3
  <2> QED  BY <2>2, <2>3, <2>4, <2>5
<1> HIDE DEF x, H, N
<1>5. CASE ItemsAt(s.mng, c, v) = {}
  <2>0. y = Thread(s.pm, s.mng, s.granted, "throw")  BY <1>4, <1>5 DEF Thread
  <2>1. Threaded(y) /\ y.pm = s.pm /\ y.mng = s.mng /\ y.granted = s.granted /\ y.ret = "throw"
    BY <2>0, Fields
  <2>2. Kept(s.pm, s.pm, s.granted, root)  BY KeptSelf
  <2> QED  BY <1>1, <2>1, <2>2 DEF FreeDone, Refused
<1>6. CASE ItemsAt(s.mng, c, v) # {}
  <2>0. y = Thread(x, N, H, s.ret)  BY <1>4, <1>6 DEF Thread
  <2>1. Threaded(y) /\ y.pm = x /\ y.mng = N /\ y.granted = H /\ y.ret = s.ret
    BY <2>0, Fields
  <2> QED  BY <1>2, <2>1 DEF FreeDone, H, N
<1> QED  BY <1>5, <1>6

-----------------------------------------------------------------------------
(* What a store inside one buffer leaves of the others.                    *)
LEMMA StoredApart ==
  ASSUME NEW m, NEW x, NEW G, NEW rt, NEW c, NEW a, NEW len, NEW w,
         Stored(m, x, G, rt, c, a, len, w), NEW g, Buffer(g), Inside(g, a, len),
         NEW d \in DOMAIN G, NEW h \in ToSet(G[d]), Buffer(h),
         d # c \/ PagesOfGrant(h) \cap PagesOfGrant(g) = {}
  PROVE  SamePages(m, x, rt[d], h) /\ SameWords(m, x, rt[d], h)
<1>1. SamePages(m, x, rt[d], h)  BY DEF Stored
<1>2. ASSUME NEW b \in Nat, InBuffer(h, b) PROVE ReadVirt(x, rt[d], b) = ReadVirt(m, rt[d], b)
  <2>1. ~(d = c /\ a <= b /\ b < a + len)
    <3> SUFFICES ASSUME d = c, a <= b, b < a + len PROVE FALSE  OBVIOUS
    <3>1. g.vaddr \in Nat /\ g.size \in Nat  BY BufferPlace
    <3>2. InBuffer(g, b)  BY <3>1 DEF InBuffer, Inside
    <3>3. b \div PAGESIZE \in PagesOfGrant(g)  BY <3>2, WordPlace
    <3>4. b \div PAGESIZE \in PagesOfGrant(h)  BY <1>2, WordPlace
    <3> QED  BY <3>3, <3>4
  <2> QED  BY <1>2, <2>1 DEF Stored
<1> QED  BY <1>1, <1>2 DEF SameWords

LEMMA KeptOn ==
  ASSUME NEW m, NEW x, NEW y, NEW G, NEW rt, Kept(m, x, G, rt), Kept(x, y, G, rt)
  PROVE  Kept(m, y, G, rt)
BY DEF Kept, SamePages, SameWords

(* A buffer that was granted shares nothing with the ones before it.       *)
LEMMA NewApart ==
  ASSUME NEW gr, NEW g, gr \in Seq(GrantType), g \in GrantType, Granting(Append(gr, g)),
         NEW h \in ToSet(gr)
  PROVE  PagesOfGrant(h) \cap PagesOfGrant(g) = {}
<1> DEFINE t == Append(gr, g)
           n == Len(gr)
<1>1. /\ n \in Nat /\ Len(t) = n + 1 /\ t[n + 1] = g /\ \A k \in 1 .. n : t[k] = gr[k]
      /\ ToSet(gr) = {gr[k] : k \in 1 .. n}
  BY Elements, AppendProperties
<1>2. PICK k \in 1 .. n : gr[k] = h  BY <1>1
<1> HIDE DEF t, n
<1>3. k \in 1 .. Len(t) /\ n + 1 \in 1 .. Len(t) /\ k # n + 1  BY <1>1
<1>4. PagesOfGrant(t[k]) \cap PagesOfGrant(t[n + 1]) = {}  BY <1>3 DEF Granting, t
<1> QED  BY <1>1, <1>2, <1>4

(* upload inside a buffer as a step of a call.                             *)
Filled(s, y, c, a, len, w) ==
  /\ Sound(y) /\ y.mng = s.mng /\ y.granted = s.granted /\ y.ret = s.ret
  /\ Stored(s.pm, y.pm, s.granted, root, c, a, len, w)

LEMMA FillCall ==
  ASSUME NEW s, Sound(s), NEW c \in DOMAIN s.granted, NEW g \in ToSet(s.granted[c]),
         NEW a, NEW len, Inside(g, a, len), len = 0 => a = g.vaddr, NEW w \in Nat,
         NEW y, y = UploadWords(s, c, a, len, w)
  PROVE  Filled(s, y, c, a, len, w)
<1> DEFINE m == s.pm
           G == s.granted
           r == WriteVirt(m, root[c], a, len, w)
<1>1. Threaded(s) /\ Intact(m, s.mng, G, root) /\ m.cur # 0 /\ HoldsBuffers(G)
  BY AllBuffers DEF Sound, Intact
<1>2. StoreDone(m, r, s.mng, G, root, c, a, len, w)
  <2>1. CASE len = 0
    <3>1. Buffer(g)  BY <1>1 DEF HoldsBuffers
    <3>2. a \in Nat \ {0} /\ Aligned(a)  BY <2>1, <3>1, BufferPlace DEF Buffer, Inside
    <3>3. r = [m |-> m, ok |-> TRUE]  BY <2>1, <3>2, StoreNothing
    <3> HIDE DEF r
    <3>4. Stored(m, m, G, root, c, a, len, w)  BY <2>1, <3>2 DEF Stored, SamePages
    <3>5. r.m = m /\ r.ok = TRUE  BY <3>3
    <3> QED  BY <1>1, <3>4, <3>5 DEF StoreDone
  <2>2. CASE len # 0
    <3> DEFINE M == s.mng
    <3>1. /\ Intact(m, M, G, root) /\ c \in DOMAIN G /\ g \in ToSet(G[c])
          /\ r = WriteVirt(m, root[c], a, len, w)
      BY <1>1
    <3> HIDE DEF m, G, M, r
    <3>2. StoreDone(m, r, M, G, root, c, a, len, w)
      BY <2>2, <3>1, StoreCall
    <3> QED  BY <3>2 DEF M
  <2> QED  BY <2>1, <2>2
<1> HIDE DEF r
<1>3. y = [s EXCEPT !.pm = r.m]  BY <1>2 DEF UploadWords, r, StoreDone
<1>4. y = Thread(r.m, s.mng, s.granted, s.ret)  BY <1>1, <1>3 DEF Threaded, Thread
<1>5. Threaded(y) /\ y.pm = r.m /\ y.mng = s.mng /\ y.granted = s.granted /\ y.ret = s.ret
  BY <1>4, Fields
<1> QED  BY <1>1, <1>2, <1>5 DEF Filled, Sound, StoreDone

(* upload into the buffer that was granted last.                           *)
FilledNew(s, x, y, c, g, a, len, w) ==
  /\ Sound(y) /\ y.mng = x.mng /\ y.granted = x.granted /\ y.ret = x.ret
  /\ Kept(x.pm, y.pm, s.granted, root)
  /\ \A b \in Nat : InBuffer(g, b) =>
       ReadVirt(y.pm, root[c], b) = IF a <= b /\ b < a + len THEN w
                                    ELSE ReadVirt(x.pm, root[c], b)

LEMMA GrantAdded ==
  ASSUME NEW G, NEW c \in DOMAIN G, NEW g, NEW H, H = WithGrant(G, c, g)
  PROVE  /\ DOMAIN H = DOMAIN G /\ H[c] = Append(G[c], g)
         /\ \A d \in DOMAIN G : d # c => H[d] = G[d]
BY DEF WithGrant

LEMMA FillNew ==
  ASSUME NEW s, HoldsBuffers(s.granted), NEW c \in DOMAIN s.granted, Granting(s.granted[c]),
         NEW g, Buffer(g),
         NEW x, Sound(x), x.granted = WithGrant(s.granted, c, g),
         NEW a, NEW len, Inside(g, a, len), len = 0 => a = g.vaddr, NEW w \in Nat,
         NEW y, y = UploadWords(x, c, a, len, w)
  PROVE  FilledNew(s, x, y, c, g, a, len, w)
<1> DEFINE G == s.granted
           H == x.granted
           gr == G[c]
           m == x.pm
<1>1. DOMAIN H = DOMAIN G /\ H[c] = Append(gr, g) /\ \A d \in DOMAIN G : d # c => H[d] = G[d]
  BY GrantAdded
<1>2. Intact(m, x.mng, H, root) /\ Granting(H[c])
  <2>1. Intact(m, x.mng, H, root)  BY DEF Sound
  <2> QED  BY <1>1, <2>1 DEF Intact, Registers
<1>3. gr \in Seq(GrantType) /\ g \in GrantType  BY DEF Granting, Buffer
<1> HIDE DEF gr, G, H
<1>4. ToSet(H[c]) = ToSet(gr) \cup {g}  BY <1>1, <1>3, Elements
<1>5. c \in DOMAIN H /\ g \in ToSet(H[c])  BY <1>1, <1>4 DEF G
<1>6. Filled(x, y, c, a, len, w)  BY <1>5, FillCall DEF H
<1>7. Stored(m, y.pm, H, root, c, a, len, w)  BY <1>6 DEF Filled, H
<1>8. ASSUME NEW d \in DOMAIN G, NEW h \in ToSet(G[d])
      PROVE  SamePages(m, y.pm, root[d], h) /\ SameWords(m, y.pm, root[d], h)
  <2>1. Buffer(h)  BY DEF HoldsBuffers, G
  <2>2. d \in DOMAIN H /\ h \in ToSet(H[d])  BY <1>1, <1>4 DEF gr
  <2>3. d = c => PagesOfGrant(h) \cap PagesOfGrant(g) = {}
    <3>1. d = c => h \in ToSet(gr)  BY DEF gr
    <3>2. Granting(Append(gr, g))  BY <1>1, <1>2
    <3> QED  BY <1>3, <3>1, <3>2, NewApart
  <2> DEFINE r == y.pm
  <2> HIDE DEF m, r
  <2>4. Stored(m, r, H, root, c, a, len, w)  BY <1>7 DEF r
  <2>5. SamePages(m, r, root[d], h) /\ SameWords(m, r, root[d], h)
    BY <2>1, <2>2, <2>3, <2>4, StoredApart
  <2> QED  BY <2>5 DEF r
<1>9. Kept(m, y.pm, G, root)  BY <1>8 DEF Kept
<1>10. \A b \in Nat : InBuffer(g, b) =>
         ReadVirt(y.pm, root[c], b) = IF a <= b /\ b < a + len THEN w
                                      ELSE ReadVirt(m, root[c], b)
  BY <1>5, <1>7 DEF Stored
<1> QED  BY <1>6, <1>9, <1>10 DEF Filled, FilledNew, G, H

-----------------------------------------------------------------------------
(* vt_upload_kernel_bytes: one chunk, in a buffer of its own.              *)
Chunks(size) == (size + CHUNK - 1) \div CHUNK
Filling(size, i) == IF size - (i - 1) * CHUNK < CHUNK THEN size - (i - 1) * CHUNK ELSE CHUNK
Laid(size, image, i, j) == IF i = 1 /\ j <= size \div 2 THEN image
                           ELSE IF (i - 1) * CHUNK + j <= size THEN JunkWord ELSE 0
ChunkAt(M, c) == Grant("KERNEL_MEM", GrantedVaddr(M, c, CHUNK, "KERNEL_MEM"), CHUNK)

LEMMA ChunkNumbers ==
  ASSUME NEW size \in Nat \ {0}
  PROVE  /\ Chunks(size) \in Nat \ {0}
         /\ \A i \in 1 .. Chunks(size) :
              /\ (i - 1) * CHUNK \in Nat /\ (i - 1) * CHUNK < size
              /\ Filling(size, i) \in 1 .. CHUNK
              /\ \A j \in 1 .. CHUNK : j <= Filling(size, i) <=> (i - 1) * CHUNK + j <= size
<1> DEFINE x == size + CHUNK - 1
           q == x \div CHUNK
           r == x % CHUNK
<1>1. CHUNK \in Nat \ {0}  BY Units
<1>2. x \in Nat  BY <1>1
<1>3. q \in Nat /\ r \in 0 .. CHUNK - 1 /\ x = q * CHUNK + r  BY <1>1, <1>2, PageOf
<1>4. Chunks(size) = q  BY DEF Chunks
<1> HIDE DEF q, r
<1>5. q # 0  BY <1>1, <1>3
<1>6. ASSUME NEW i \in 1 .. q
      PROVE  /\ (i - 1) * CHUNK \in Nat /\ (i - 1) * CHUNK < size
             /\ Filling(size, i) \in 1 .. CHUNK
             /\ \A j \in 1 .. CHUNK : j <= Filling(size, i) <=> (i - 1) * CHUNK + j <= size
  <2> DEFINE t == (i - 1) * CHUNK
  <2>1. i \in Nat /\ i - 1 \in Nat /\ i - 1 <= q - 1  BY <1>3
  <2>2. t \in Nat /\ t <= (q - 1) * CHUNK  BY <1>1, <1>3, <2>1
  <2>3. (q - 1) * CHUNK = q * CHUNK - CHUNK  BY <1>1, <1>3
  <2>4. q * CHUNK \in Nat  BY <1>1, <1>3
  <2>5. Filling(size, i) = IF size - t < CHUNK THEN size - t ELSE CHUNK  BY DEF Filling
  <2> HIDE DEF t
  <2>6. t < size
    <3> DEFINE z == q * CHUNK
    <3> HIDE DEF z
    <3>1. z \in Nat /\ t <= z - CHUNK /\ size + CHUNK - 1 = z + r  BY <1>3, <2>2, <2>3, <2>4 DEF z
    <3> QED  BY <1>1, <1>3, <2>2, <3>1
  <2>7. Filling(size, i) \in 1 .. CHUNK  BY <1>1, <2>2, <2>5, <2>6
  <2>8. \A j \in 1 .. CHUNK : j <= Filling(size, i) <=> t + j <= size
    BY <1>1, <2>2, <2>5, <2>6
  <2> QED  BY <2>2, <2>6, <2>7, <2>8 DEF t
<1> QED  BY <1>3, <1>4, <1>5, <1>6

LEMMA ChunkIs ==
  ASSUME NEW s, s.ret # "throw", NEW c, NEW size, NEW image, NEW i,
         NEW v, v = GrantedVaddr(s.mng, c, CHUNK, "KERNEL_MEM"),
         NEW x, x = AllocLocalMem(s, c, 0, CHUNK, "KERNEL_MEM"),
         NEW z, z = UploadWords(x, c, v, Filling(size, i), JunkWord),
         NEW u, u = UploadWords(z, c, v, ProgramWords(size), image)
  PROVE  UploadChunk(s, c, size, image, i) =
           IF x.ret = "throw" THEN x ELSE IF z.ret = "throw" \/ i # 1 THEN z ELSE u
<1>1. CASE x.ret = "throw"  BY <1>1 DEF UploadChunk
<1>2. CASE x.ret # "throw"
  <2>1. UploadChunk(s, c, size, image, i) = IF z.ret = "throw" \/ i # 1 THEN z ELSE u
    BY <1>2 DEF UploadChunk, Filling
  <2> QED  BY <1>2, <2>1
<1> QED  BY <1>1, <1>2

ChunkDone(s, y, c, g, size, image, i) ==
  /\ Sound(y) /\ Kept(s.pm, y.pm, s.granted, root) /\ DOMAIN y.mng = DOMAIN s.mng
  /\ \/ Refused(s, y)
     \/ /\ y.ret = s.ret /\ c \in DOMAIN s.mng /\ Buffer(g)
        /\ y.granted = WithGrant(s.granted, c, g)
        /\ \A b \in Nat : InBuffer(g, b) =>
             ReadVirt(y.pm, root[c], b) = Laid(size, image, i, b - g.vaddr + 1)

LEMMA ChunkCall ==
  ASSUME NEW s, Sound(s), s.ret # "throw", NEW c \in DOMAIN s.granted,
         NEW size \in Nat \ {0}, NEW image \in Nat, NEW i \in 1 .. Chunks(size),
         NEW g, g = ChunkAt(s.mng, c),
         NEW y, y = UploadChunk(s, c, size, image, i)
  PROVE  ChunkDone(s, y, c, g, size, image, i)
<1> DEFINE v == GrantedVaddr(s.mng, c, CHUNK, "KERNEL_MEM")
           x == AllocLocalMem(s, c, 0, CHUNK, "KERNEL_MEM")
           n == Filling(size, i)
           z == UploadWords(x, c, v, n, JunkWord)
           p == ProgramWords(size)
           u == UploadWords(z, c, v, p, image)
<1>1. AllocDone(s, x, c, g)
  <2>1. CHUNK \in Nat /\ "KERNEL_MEM" \in BufferType  BY Units DEF BufferType
  <2>2. g = Grant("KERNEL_MEM", v, CHUNK)  BY DEF ChunkAt
  <2>3. v = GrantedVaddr(s.mng, c, CHUNK, "KERNEL_MEM")
        /\ x = AllocLocalMem(s, c, 0, CHUNK, "KERNEL_MEM")
    OBVIOUS
  <2> HIDE DEF v, x
  <2>4. AllocDone(s, x, c, Grant("KERNEL_MEM", v, CHUNK))  BY <2>1, <2>3, AllocCall
  <2> QED  BY <2>2, <2>4
<1>2. y = IF x.ret = "throw" THEN x ELSE IF z.ret = "throw" \/ i # 1 THEN z ELSE u
  BY ChunkIs
<1>3. g.vaddr = v /\ g.size = CHUNK  BY DEF ChunkAt, Grant
<1>4. z = UploadWords(x, c, v, n, JunkWord) /\ u = UploadWords(z, c, v, p, image)  OBVIOUS
<1>5. /\ n \in 1 .. CHUNK /\ CHUNK \in Nat \ {0}
      /\ \A j \in 1 .. CHUNK : j <= n <=> (i - 1) * CHUNK + j <= size
  BY ChunkNumbers, Units
<1>6. p \in 0 .. CHUNK /\ \A j \in 1 .. CHUNK : j <= p <=> j <= size \div 2
  <2>1. size \div 2 \in Nat  OBVIOUS
  <2> QED  BY <1>5, <2>1 DEF ProgramWords
<1>7. JunkWord \in Nat  BY PhysicalAssumption, DriverAssumption
<1> HIDE DEF v, x, n, z, p, u
<1>8. CASE Refused(s, x)
  <2>1. y = x  BY <1>2, <1>8 DEF Refused
  <2> QED  BY <1>1, <1>8, <2>1 DEF AllocDone, ChunkDone
<1>9. CASE GivenTo(s, x, c, g)
  <2>1. /\ x.ret = s.ret /\ c \in DOMAIN s.mng /\ Buffer(g) /\ x.granted = WithGrant(s.granted, c, g)
        /\ \A b \in Nat : InBuffer(g, b) => ReadVirt(x.pm, root[c], b) = 0
        /\ Sound(x) /\ Kept(s.pm, x.pm, s.granted, root) /\ DOMAIN x.mng = DOMAIN s.mng
    BY <1>1, <1>9 DEF GivenTo, AllocDone
  <2>2. HoldsBuffers(s.granted) /\ Granting(s.granted[c])
    BY AllBuffers DEF Sound, Intact, Registers
  <2>3. g.vaddr \in Nat /\ v \in Nat  BY <1>3, <2>1, BufferPlace
  <2>4. Inside(g, v, n) /\ n # 0 /\ Inside(g, v, p)  BY <1>3, <1>5, <1>6, <2>3 DEF Inside
  <2>5. FilledNew(s, x, z, c, g, v, n, JunkWord)
    BY <1>4, <1>7, <2>1, <2>2, <2>4, FillNew
  <2>6. z.ret # "throw" /\ Sound(z) /\ z.granted = WithGrant(s.granted, c, g)
    BY <2>1, <2>5 DEF FilledNew
  <2>7. FilledNew(s, z, u, c, g, v, p, image)
    BY <1>3, <1>4, <2>1, <2>2, <2>4, <2>6, FillNew
  <2>8. Kept(s.pm, z.pm, s.granted, root) /\ Kept(s.pm, u.pm, s.granted, root)
    BY <2>1, <2>5, <2>7, KeptOn DEF FilledNew
  <2>9. ASSUME NEW b \in Nat, InBuffer(g, b)
        PROVE  /\ ReadVirt(z.pm, root[c], b) = IF (i - 1) * CHUNK + (b - g.vaddr + 1) <= size
                                               THEN JunkWord ELSE 0
               /\ ReadVirt(u.pm, root[c], b) = IF b - g.vaddr + 1 <= size \div 2 THEN image
                                               ELSE ReadVirt(z.pm, root[c], b)
    <3> DEFINE j == b - g.vaddr + 1
    <3>1. v <= b /\ b < v + CHUNK  BY <1>3, <2>9 DEF InBuffer
    <3>2. j \in 1 .. CHUNK /\ b - v + 1 = j  BY <1>3, <1>5, <2>3, <3>1
    <3>3. (v <= b /\ b < v + n <=> j <= n) /\ (v <= b /\ b < v + p <=> j <= p)
      BY <1>5, <1>6, <2>3, <3>1, <3>2
    <3> HIDE DEF j
    <3>4. (v <= b /\ b < v + n) <=> (i - 1) * CHUNK + j <= size  BY <1>5, <3>2, <3>3
    <3>5. (v <= b /\ b < v + p) <=> j <= size \div 2  BY <1>6, <3>2, <3>3
    <3>6. ReadVirt(x.pm, root[c], b) = 0  BY <2>1, <2>9
    <3>7. ReadVirt(z.pm, root[c], b) = IF v <= b /\ b < v + n THEN JunkWord
                                       ELSE ReadVirt(x.pm, root[c], b)
      BY <2>5, <2>9 DEF FilledNew
    <3>8. ReadVirt(u.pm, root[c], b) = IF v <= b /\ b < v + p THEN image
                                       ELSE ReadVirt(z.pm, root[c], b)
      BY <2>7, <2>9 DEF FilledNew
    <3>9. ReadVirt(z.pm, root[c], b) = IF (i - 1) * CHUNK + j <= size THEN JunkWord ELSE 0
      BY <3>4, <3>6, <3>7
    <3>10. ReadVirt(u.pm, root[c], b) = IF j <= size \div 2 THEN image
                                        ELSE ReadVirt(z.pm, root[c], b)
      BY <3>5, <3>8
    <3> QED  BY <3>9, <3>10 DEF j
  <2>10. CASE i = 1
    <3>1. y = u  BY <1>2, <2>1, <2>6, <2>10
    <3>2. \A b \in Nat : InBuffer(g, b) =>
            ReadVirt(u.pm, root[c], b) = Laid(size, image, i, b - g.vaddr + 1)
      BY <2>9, <2>10 DEF Laid
    <3>3. u.ret = s.ret /\ u.granted = WithGrant(s.granted, c, g) /\ u.mng = x.mng /\ Sound(u)
      BY <2>1, <2>5, <2>7 DEF FilledNew
    <3> QED  BY <2>1, <2>8, <3>1, <3>2, <3>3 DEF ChunkDone
  <2>11. CASE i # 1
    <3>1. y = z  BY <1>2, <2>1, <2>11
    <3>2. \A b \in Nat : InBuffer(g, b) =>
            ReadVirt(z.pm, root[c], b) = Laid(size, image, i, b - g.vaddr + 1)
      BY <2>9, <2>11 DEF Laid
    <3>3. z.ret = s.ret /\ z.granted = WithGrant(s.granted, c, g) /\ z.mng = x.mng /\ Sound(z)
      BY <2>1, <2>5 DEF FilledNew
    <3> QED  BY <2>1, <2>8, <3>1, <3>2, <3>3 DEF ChunkDone
  <2> QED  BY <2>10, <2>11
<1> QED  BY <1>1, <1>8, <1>9 DEF AllocDone

-----------------------------------------------------------------------------
(* vt_upload_kernel_bytes as a whole: the states between its chunks.       *)
Uploading(f, s, c, size, image, n) ==
  f = [i \in 0 .. n |-> IF i = 0 THEN s ELSE UploadChunk(f[i - 1], c, size, image, i)]

LEMMA UploadingExists ==
  ASSUME NEW s, NEW c, NEW size, NEW image, NEW n \in Nat
  PROVE  \E f : Uploading(f, s, c, size, image, n)
<1> DEFINE T == {k \in 0 .. n : \E f : Uploading(f, s, c, size, image, k)}
<1>1. 0 \in T
  <2> DEFINE f == [i \in 0 .. 0 |-> s]
  <2>1. Uploading(f, s, c, size, image, 0)
    <3>1. f = [i \in 0 .. 0 |-> IF i = 0 THEN s ELSE UploadChunk(f[i - 1], c, size, image, i)]
      OBVIOUS
    <3> QED  BY <3>1 DEF Uploading
  <2> QED  BY <2>1
<1>2. ASSUME NEW k \in 1 .. n, k - 1 \in T PROVE k \in T
  <2>1. PICK f : Uploading(f, s, c, size, image, k - 1)  BY <1>2
  <2> DEFINE Chunk(x, i) == UploadChunk(x, c, size, image, i)
             h == [i \in 0 .. k |-> IF i = k THEN Chunk(f[k - 1], k) ELSE f[i]]
  <2> HIDE DEF Chunk
  <2>2. f = [i \in 0 .. k - 1 |-> IF i = 0 THEN s ELSE Chunk(f[i - 1], i)]
    BY <2>1 DEF Uploading, Chunk
  <2>3. ASSUME NEW i \in 0 .. k PROVE h[i] = IF i = 0 THEN s ELSE Chunk(h[i - 1], i)
    <3>1. CASE i = k
      <4>1. k - 1 \in 0 .. k /\ k - 1 # k /\ k # 0  OBVIOUS
      <4>2. h[k - 1] = f[k - 1]  BY <4>1
      <4>3. h[k] = Chunk(f[k - 1], k)  OBVIOUS
      <4> QED  BY <3>1, <4>1, <4>2, <4>3
    <3>2. CASE i # k
      <4>1. i \in 0 .. k - 1  BY <3>2
      <4>2. h[i] = f[i]  BY <3>2
      <4>3. f[i] = IF i = 0 THEN s ELSE Chunk(f[i - 1], i)  BY <2>2, <4>1
      <4>4. i # 0 => i - 1 \in 0 .. k /\ i - 1 # k  BY <4>1
      <4>5. i # 0 => h[i - 1] = f[i - 1]  BY <4>4
      <4> QED  BY <4>2, <4>3, <4>5
    <3> QED  BY <3>1, <3>2
  <2>4. h = [i \in 0 .. k |-> IF i = 0 THEN s ELSE Chunk(h[i - 1], i)]
    <3>1. h = [i \in 0 .. k |-> h[i]]  OBVIOUS
    <3> HIDE DEF h
    <3> QED  BY <2>3, <3>1
  <2>5. Uploading(h, s, c, size, image, k)  BY <2>4 DEF Uploading, Chunk
  <2> QED  BY <2>5
<1> HIDE DEF T
<1>3. \A k \in 0 .. n : k \in T  BY <1>1, <1>2, StepInduction
<1>4. n \in T  BY <1>3
<1> QED  BY <1>4 DEF T

LEMMA UploadIs ==
  ASSUME NEW s, NEW c, NEW size \in Nat \ {0}, NEW image
  PROVE  \E f : /\ UploadImage(s, c, size, image) = f[Chunks(size)] /\ f[0] = s
                /\ \A i \in 1 .. Chunks(size) : f[i] = UploadChunk(f[i - 1], c, size, image, i)
<1> DEFINE n == Chunks(size)
           f == CHOOSE h : Uploading(h, s, c, size, image, n)
<1>1. UploadImage(s, c, size, image) = f[n]  BY DEF UploadImage, Uploading, Chunks
<1>2. n \in Nat \ {0}  BY ChunkNumbers
<1>3. \E h : Uploading(h, s, c, size, image, n)  BY <1>2, UploadingExists
<1>4. Uploading(f, s, c, size, image, n)  BY <1>3
<1> HIDE DEF f, n
<1>5. f[0] = s
  <2>1. 0 \in 0 .. n  BY <1>2
  <2> QED  BY <1>4, <2>1 DEF Uploading
<1>6. ASSUME NEW i \in 1 .. n PROVE f[i] = UploadChunk(f[i - 1], c, size, image, i)
  <2>1. i \in 0 .. n /\ i # 0  BY <1>2
  <2> QED  BY <1>4, <2>1 DEF Uploading
<1> QED  BY <1>1, <1>5, <1>6 DEF n

(* What q chunks have made of the records and the RAM.                     *)
ChunkThere(m, r, g, size, image, k) ==
  /\ Buffer(g) /\ g.size = CHUNK
  /\ \A b \in Nat : InBuffer(g, b) => ReadVirt(m, r, b) = Laid(size, image, k, b - g.vaddr + 1)
Longer(gr, hr, q) ==
  /\ gr \in Seq(GrantType) /\ hr \in Seq(GrantType) /\ Len(hr) = Len(gr) + q
  /\ \A k \in 1 .. Len(gr) : hr[k] = gr[k]
AlikeElsewhere(G, H, c) == DOMAIN H = DOMAIN G /\ \A d \in DOMAIN G : d # c => H[d] = G[d]
ChunksThere(m, r, gr, hr, size, image, q) ==
  \A k \in 1 .. q : ChunkThere(m, r, hr[Len(gr) + k], size, image, k)
FirstChunk(M, c, gr, hr) == c \in DOMAIN M /\ hr[Len(gr) + 1] = ChunkAt(M, c)

Loaded(s, y, c, size, image, q) ==
  /\ Sound(y) /\ Kept(s.pm, y.pm, s.granted, root) /\ DOMAIN y.mng = DOMAIN s.mng
  /\ AlikeElsewhere(s.granted, y.granted, c) /\ Longer(s.granted[c], y.granted[c], q)
  /\ ChunksThere(y.pm, root[c], s.granted[c], y.granted[c], size, image, q)
  /\ q > 0 => FirstChunk(s.mng, c, s.granted[c], y.granted[c])
  /\ y.ret # "throw" => y.ret = s.ret /\ (q = 0 => y = s)

GrownBy(gr, hr, t, q, j, g) ==
  /\ Longer(gr, t, j) /\ t[Len(gr) + j] = g
  /\ \A k \in 1 .. q : t[Len(gr) + k] = hr[Len(gr) + k]

LEMMA LongerMore ==
  ASSUME NEW gr, NEW hr, NEW q \in Nat, Longer(gr, hr, q), NEW g \in GrantType,
         NEW t, t = Append(hr, g), NEW j, j = q + 1
  PROVE  GrownBy(gr, hr, t, q, j, g)
<1>1. /\ gr \in Seq(GrantType) /\ hr \in Seq(GrantType) /\ Len(gr) \in Nat
      /\ Len(hr) = Len(gr) + q /\ \A k \in 1 .. Len(gr) : hr[k] = gr[k]
  BY DEF Longer
<1>2. /\ t \in Seq(GrantType) /\ Len(t) = Len(hr) + 1 /\ t[Len(hr) + 1] = g
      /\ \A k \in 1 .. Len(hr) : t[k] = hr[k]
  <2>1. hr \in Seq(GrantType) /\ g \in GrantType  BY <1>1
  <2> QED  BY <2>1, AppendProperties
<1>4. \A k \in 1 .. q : Len(gr) + k \in 1 .. Len(hr)  BY <1>1
<1>5. Longer(gr, t, j)
  <2>1. Len(t) = Len(gr) + j /\ \A k \in 1 .. Len(gr) : k \in 1 .. Len(hr)  BY <1>1, <1>2
  <2> QED  BY <1>1, <1>2, <2>1 DEF Longer
<1>6. t[Len(gr) + j] = g
  <2>1. Len(gr) + j = Len(hr) + 1  BY <1>1
  <2> QED  BY <1>2, <2>1
<1> QED  BY <1>2, <1>4, <1>5, <1>6 DEF GrownBy

LEMMA ChunkStays ==
  ASSUME NEW m, NEW x, NEW r, NEW g, SameWords(m, x, r, g),
         NEW size, NEW image, NEW k, ChunkThere(m, r, g, size, image, k)
  PROVE  ChunkThere(x, r, g, size, image, k)
BY DEF ChunkThere, SameWords

LEMMA LoadedMore ==
  ASSUME NEW s, NEW x, NEW c \in DOMAIN s.granted, NEW size \in Nat \ {0}, NEW image \in Nat,
         NEW q \in Nat, q + 1 \in 1 .. Chunks(size), Loaded(s, x, c, size, image, q),
         x.ret # "throw",
         NEW y, y = UploadChunk(x, c, size, image, q + 1)
  PROVE  \/ y.ret = "throw" /\ Loaded(s, y, c, size, image, q)
         \/ y.ret # "throw" /\ Loaded(s, y, c, size, image, q + 1)
<1> DEFINE G == s.granted
           H == x.granted
           g == ChunkAt(x.mng, c)
           j == q + 1
<1>1. /\ Sound(x) /\ Kept(s.pm, x.pm, G, root) /\ DOMAIN x.mng = DOMAIN s.mng
      /\ AlikeElsewhere(G, H, c) /\ Longer(G[c], H[c], q)
      /\ ChunksThere(x.pm, root[c], G[c], H[c], size, image, q)
      /\ q > 0 => FirstChunk(s.mng, c, G[c], H[c])
      /\ x.ret = s.ret /\ (q = 0 => x = s)
  BY DEF Loaded
<1>2. c \in DOMAIN H /\ \A d \in DOMAIN G : d \in DOMAIN H  BY <1>1 DEF AlikeElsewhere
<1>3. ChunkDone(x, y, c, g, size, image, j)
  <2>1. g = ChunkAt(x.mng, c) /\ y = UploadChunk(x, c, size, image, j) /\ j \in 1 .. Chunks(size)
    OBVIOUS
  <2> HIDE DEF g, j
  <2> QED  BY <1>1, <1>2, <2>1, ChunkCall DEF H
<1>4. /\ Sound(y) /\ Kept(x.pm, y.pm, H, root) /\ DOMAIN y.mng = DOMAIN x.mng
  BY <1>3 DEF ChunkDone, H
<1>5. \A d \in DOMAIN G : \A h \in ToSet(G[d]) : h \in ToSet(H[d])
  <2> SUFFICES ASSUME NEW d \in DOMAIN G, NEW h \in ToSet(G[d]) PROVE h \in ToSet(H[d])
    OBVIOUS
  <2>1. CASE d # c  BY <1>1, <2>1 DEF AlikeElsewhere
  <2>2. CASE d = c
    <3>1. /\ Len(G[c]) \in Nat /\ Len(H[c]) = Len(G[c]) + q /\ H[c] \in Seq(GrantType)
          /\ \A k \in 1 .. Len(G[c]) : H[c][k] = G[c][k]
          /\ ToSet(G[c]) = {G[c][k] : k \in 1 .. Len(G[c])}
      BY <1>1, Elements DEF Longer
    <3>2. ToSet(H[c]) = {H[c][k] : k \in 1 .. Len(H[c])}  BY <3>1, Elements
    <3>3. PICK k \in 1 .. Len(G[c]) : h = G[c][k]  BY <2>2, <3>1
    <3>4. k \in 1 .. Len(H[c])  BY <3>1
    <3> QED  BY <2>2, <3>1, <3>2, <3>3, <3>4
  <2> QED  BY <2>1, <2>2
<1>6. Kept(s.pm, y.pm, G, root)
  <2>1. Kept(x.pm, y.pm, G, root)  BY <1>2, <1>4, <1>5 DEF Kept
  <2> QED  BY <1>1, <2>1, KeptOn
<1>7. \A k \in 1 .. q : ChunkThere(y.pm, root[c], H[c][Len(G[c]) + k], size, image, k)
  <2> TAKE k \in 1 .. q
  <2> DEFINE h == H[c][Len(G[c]) + k]
  <2>1. h \in ToSet(H[c])
    <3>1. /\ Len(G[c]) \in Nat /\ Len(H[c]) = Len(G[c]) + q
          /\ ToSet(H[c]) = {H[c][i] : i \in 1 .. Len(H[c])}
      BY <1>1, Elements DEF Longer
    <3>2. Len(G[c]) + k \in 1 .. Len(H[c])  BY <3>1
    <3> QED  BY <3>1, <3>2
  <2>2. ChunkThere(x.pm, root[c], h, size, image, k)  BY <1>1 DEF ChunksThere
  <2>3. SameWords(x.pm, y.pm, root[c], h)  BY <1>2, <1>4, <2>1 DEF Kept
  <2> HIDE DEF h
  <2>4. ChunkThere(y.pm, root[c], h, size, image, k)  BY <2>2, <2>3, ChunkStays
  <2> QED  BY <2>4 DEF h
<1>8. CASE Refused(x, y)
  <2>1. ChunksThere(y.pm, root[c], G[c], H[c], size, image, q)  BY <1>7 DEF ChunksThere
  <2>2. y.granted = H /\ y.ret = "throw"  BY <1>8 DEF Refused
  <2> HIDE DEF g, j
  <2>3. Loaded(s, y, c, size, image, q)  BY <1>1, <1>4, <1>6, <2>1, <2>2 DEF Loaded
  <2> QED  BY <2>2, <2>3
<1>9. CASE ~Refused(x, y)
  <2> DEFINE K == y.granted
             hr == H[c]
             t == K[c]
  <2>1. /\ y.ret = x.ret /\ c \in DOMAIN x.mng /\ Buffer(g) /\ K = WithGrant(H, c, g)
        /\ \A b \in Nat : InBuffer(g, b) =>
             ReadVirt(y.pm, root[c], b) = Laid(size, image, j, b - g.vaddr + 1)
    BY <1>3, <1>9 DEF ChunkDone
  <2>2. g.size = CHUNK  BY DEF ChunkAt, Grant
  <2>3. DOMAIN K = DOMAIN H /\ t = Append(hr, g) /\ \A d \in DOMAIN H : d # c => K[d] = H[d]
    BY <1>2, <2>1, GrantAdded
  <2>4. g \in GrantType /\ Longer(G[c], hr, q)  BY <1>1, <2>1 DEF Buffer
  <2> HIDE DEF g, hr, t
  <2>5. GrownBy(G[c], hr, t, q, j, g)  BY <2>3, <2>4, LongerMore
  <2>6. ChunkThere(y.pm, root[c], g, size, image, j)  BY <2>1, <2>2 DEF ChunkThere
  <2>7. ChunksThere(y.pm, root[c], G[c], t, size, image, j)
    <3>1. ASSUME NEW k \in 1 .. j
          PROVE  ChunkThere(y.pm, root[c], t[Len(G[c]) + k], size, image, k)
      <4>1. CASE k = j  BY <2>5, <2>6, <4>1 DEF GrownBy
      <4>2. CASE k # j
        <5>1. k \in 1 .. q  BY <4>2
        <5>2. t[Len(G[c]) + k] = H[c][Len(G[c]) + k]  BY <2>5, <5>1 DEF hr, GrownBy
        <5> QED  BY <1>7, <5>1, <5>2
      <4> QED  BY <4>1, <4>2
    <3> QED  BY <3>1 DEF ChunksThere
  <2>8. AlikeElsewhere(G, K, c)  BY <1>1, <2>3 DEF AlikeElsewhere
  <2>9. FirstChunk(s.mng, c, G[c], t)
    <3>1. CASE q = 0
      <4>1. g = ChunkAt(s.mng, c) /\ c \in DOMAIN s.mng /\ j = 1  BY <1>1, <2>1, <3>1 DEF g
      <4> QED  BY <2>5, <4>1 DEF FirstChunk, GrownBy
    <3>2. CASE q # 0
      <4>1. FirstChunk(s.mng, c, G[c], hr)  BY <1>1, <3>2 DEF hr
      <4>2. t[Len(G[c]) + 1] = hr[Len(G[c]) + 1]
        <5>1. 1 \in 1 .. q  BY <3>2
        <5> QED  BY <2>5, <5>1 DEF GrownBy
      <4> QED  BY <4>1, <4>2 DEF FirstChunk
    <3> QED  BY <3>1, <3>2
  <2>10. y.ret # "throw" /\ y.ret = s.ret /\ j # 0 /\ DOMAIN y.mng = DOMAIN s.mng
    BY <1>1, <1>4, <2>1
  <2> HIDE DEF j
  <2>11. Loaded(s, y, c, size, image, j)
    BY <1>4, <1>6, <2>5, <2>7, <2>8, <2>9, <2>10 DEF Loaded, t, GrownBy
  <2> QED  BY <2>10, <2>11 DEF j
<1> QED  BY <1>8, <1>9

UploadDone(s, y, c, size, image, j) ==
  \E q \in 0 .. j : /\ Loaded(s, y, c, size, image, q)
                    /\ y.ret # "throw" => q = j

LEMMA LoadedNothing ==
  ASSUME NEW s, Sound(s), s.ret # "throw", NEW c \in DOMAIN s.granted, NEW size, NEW image
  PROVE  Loaded(s, s, c, size, image, 0)
<1> DEFINE gr == s.granted[c]
<1>1. Granting(gr)  BY DEF Sound, Intact, Registers
<1> HIDE DEF gr
<1>2. gr \in Seq(GrantType) /\ Len(gr) \in Nat  BY <1>1, Elements DEF Granting
<1>3. Longer(gr, gr, 0)  BY <1>2 DEF Longer
<1>4. AlikeElsewhere(s.granted, s.granted, c)  BY DEF AlikeElsewhere
<1>5. Kept(s.pm, s.pm, s.granted, root)  BY KeptSelf
<1>6. ChunksThere(s.pm, root[c], gr, gr, size, image, 0)  BY DEF ChunksThere
<1> QED  BY <1>3, <1>4, <1>5, <1>6 DEF Loaded, gr

LEMMA UploadCall ==
  ASSUME NEW s, Sound(s), s.ret # "throw", NEW c \in DOMAIN s.granted,
         NEW size \in Nat \ {0}, NEW image \in Nat,
         NEW y, y = UploadImage(s, c, size, image)
  PROVE  UploadDone(s, y, c, size, image, Chunks(size))
<1> DEFINE n == Chunks(size)
<1>1. PICK f : /\ y = f[n] /\ f[0] = s
               /\ \A i \in 1 .. n : f[i] = UploadChunk(f[i - 1], c, size, image, i)
  BY UploadIs
<1>2. n \in Nat  BY ChunkNumbers
<1> DEFINE T == {j \in 0 .. n : UploadDone(s, f[j], c, size, image, j)}
<1>3. 0 \in T
  <2>1. UploadDone(s, s, c, size, image, 0)  BY LoadedNothing DEF UploadDone
  <2> QED  BY <1>1, <1>2, <2>1
<1>4. ASSUME NEW j \in 1 .. n, j - 1 \in T PROVE j \in T
  <2> DEFINE x == f[j - 1]
             z == f[j]
  <2>1. PICK q \in 0 .. j - 1 : Loaded(s, x, c, size, image, q) /\ (x.ret # "throw" => q = j - 1)
    BY <1>4 DEF UploadDone
  <2>2. z = UploadChunk(x, c, size, image, j)  BY <1>1
  <2> HIDE DEF x, z
  <2>3. CASE x.ret = "throw"
    <3>1. z = x  BY <2>2, <2>3 DEF UploadChunk
    <3>2. q \in 0 .. j  BY <1>2
    <3>3. UploadDone(s, z, c, size, image, j)  BY <2>1, <2>3, <3>1, <3>2 DEF UploadDone
    <3> QED  BY <3>3 DEF z
  <2>4. CASE x.ret # "throw"
    <3>1. q = j - 1 /\ q \in Nat /\ j = q + 1 /\ j \in 1 .. n /\ q \in 0 .. j  BY <1>2, <2>1, <2>4
    <3>2. z = UploadChunk(x, c, size, image, q + 1) /\ q + 1 \in 1 .. Chunks(size)
      BY <2>2, <3>1
    <3> HIDE DEF n
    <3>3. \/ z.ret = "throw" /\ Loaded(s, z, c, size, image, q)
          \/ z.ret # "throw" /\ Loaded(s, z, c, size, image, q + 1)
      BY <2>1, <2>4, <3>1, <3>2, LoadedMore
    <3>4. j \in 0 .. j  BY <3>1
    <3>5. UploadDone(s, z, c, size, image, j)  BY <3>1, <3>3, <3>4 DEF UploadDone
    <3> QED  BY <3>5 DEF z
  <2> QED  BY <2>3, <2>4
<1> HIDE DEF T
<1>5. \A j \in 0 .. n : j \in T  BY <1>2, <1>3, <1>4, StepInduction
<1>6. n \in T  BY <1>2, <1>5
<1> QED  BY <1>1, <1>6 DEF T

-----------------------------------------------------------------------------
(* The device's store of one word: upload of that word.                    *)
LEMMA StoreOne ==
  ASSUME NEW m, NEW r, NEW a \in Nat, NEW w, NEW page, page = Convert(m, r, a \div PAGESIZE),
         page # 0
  PROVE  WriteVirt(m, r, a, 1, w).m = WriteData(m, page, {a % PAGESIZE}, w)
<1> DEFINE first == a \div PageElem
           n == (a + 1 - 1) \div PageElem - a \div PageElem + 1
           start == [m |-> m, ok |-> TRUE]
           In(u) == {i \in Offsets : a <= u * PageElem + i /\ u * PageElem + i < a + 1}
           here == {a % PAGESIZE}
<1>1. first = a \div PAGESIZE /\ first \in Nat /\ n = 1
  <2>1. a + 1 - 1 = a  OBVIOUS
  <2>2. first = a \div PAGESIZE /\ first \in Nat  BY Units, PageOf
  <2> QED  BY <2>1, <2>2
<1>2. In(first) = here
  <2> DEFINE i == a % PAGESIZE
  <2>1. a = first * PAGESIZE + i /\ i \in 0 .. PAGESIZE - 1 /\ first \in Nat  BY <1>1, Units, PageOf
  <2> HIDE DEF first, i
  <2>2. first * PAGESIZE \in Nat  BY <2>1, Units
  <2>3. ASSUME NEW j \in Offsets
        PROVE  a <= first * PageElem + j /\ first * PageElem + j < a + 1 <=> j = i
    <3> DEFINE z == first * PAGESIZE
    <3>1. z \in Nat /\ a = z + i /\ i \in Nat /\ j \in Nat  BY <2>1, <2>2, Units
    <3>2. first * PageElem = z  BY Units
    <3> HIDE DEF z
    <3> QED  BY <3>1, <3>2
  <2>4. i \in Offsets  BY <2>1, Units
  <2> QED  BY <2>3, <2>4 DEF i
<1>3. WriteVirt(m, r, a, 1, w) = PutAll(start, r, a, 1, w, first, n)
  BY DEF WriteVirt, PutAll, PutPage
<1>4. PutPage(start, r, a, 1, w, first).m = WriteData(m, page, here, w)
  <2>1. start.ok = TRUE /\ start.m = m  OBVIOUS
  <2>2. Convert(start.m, r, first) = page  BY <1>1, <2>1
  <2> DEFINE Made(z) == [start EXCEPT !.m = z]
  <2>3. PutPage(start, r, a, 1, w, first) = Made(WriteData(start.m, page, In(first), w))
    BY <2>1, <2>2 DEF PutPage
  <2> DEFINE x == WriteData(m, page, here, w)
  <2>4. WriteData(start.m, page, In(first), w) = x  BY <1>2, <2>1
  <2> HIDE DEF x, In, start, first, Made
  <2>5. PutPage(start, r, a, 1, w, first) = Made(x)  BY <2>3, <2>4
  <2>6. Made(x).m = x  BY DEF start, Made
  <2> QED  BY <2>5, <2>6 DEF x
<1> HIDE DEF first, n, start, here, In
<1>5. PICK h : /\ PutAll(start, r, a, 1, w, first, n) = h[n]
               /\ Puts(h, start, r, a, 1, w, first, n)
  <2>1. n \in Nat  BY <1>1
  <2> QED  BY <1>1, <2>1, PutAllChain
<1>6. h[0] = start /\ h[1] = PutPage(h[0], r, a, 1, w, first)
  <2>1. 1 \in 1 .. n /\ 1 - 1 = 0 /\ first + 1 - 1 = first  BY <1>1
  <2>2. h[1] = PutPage(h[1 - 1], r, a, 1, w, first + 1 - 1)  BY <1>5, <2>1 DEF Puts
  <2> QED  BY <1>5, <2>1, <2>2 DEF Puts
<1> QED  BY <1>1, <1>3, <1>4, <1>5, <1>6 DEF here

-----------------------------------------------------------------------------
(* What a call may have done, from the records and the RAM before it       *)
(* (m, M, G, rt) to those after it (x, N, H, q).                           *)
KeepsAll(m, M, G, rt, x, N, H, q) ==
  H = G /\ q = rt /\ DOMAIN N = DOMAIN M /\ Kept(m, x, G, rt)
AddsContext(m, M, G, rt, x, N, H, q, c, a) ==
  /\ c \notin DOMAIN rt /\ q = WithRoot(rt, c, a) /\ N = CreateNewContext(M, c)
  /\ H = IF a = 0 THEN G ELSE CreateNewContext(G, c)
  /\ Kept(m, x, G, rt)
AddsBuffer(m, M, G, rt, x, N, H, q, c, g) ==
  /\ c \in DOMAIN G /\ c \in DOMAIN M /\ Buffer(g)
  /\ H = WithGrant(G, c, g) /\ q = rt /\ DOMAIN N = DOMAIN M
  /\ Kept(m, x, G, rt) /\ \A b \in Nat : InBuffer(g, b) => ReadVirt(x, rt[c], b) = 0
FreesBuffer(m, M, G, rt, x, N, H, q, c, k) ==
  /\ c \in DOMAIN G /\ k \in 1 .. Len(G[c])
  /\ H = LessGrant(G, c, k) /\ q = rt /\ N = Unlisted(M, c)
  /\ Kept(m, x, H, rt)
StoresWords(m, M, G, rt, x, N, H, q, c, k, a, len, w) ==
  /\ c \in DOMAIN G /\ k \in 1 .. Len(G[c]) /\ Inside(G[c][k], a, len) /\ len # 0
  /\ H = G /\ q = rt /\ N = M
  /\ Stored(m, x, G, rt, c, a, len, w)
LoadsImage(m, M, G, rt, x, N, H, q, c, size, image, j) ==
  /\ c \in DOMAIN G /\ j \in Nat
  /\ q = rt /\ DOMAIN N = DOMAIN M /\ Kept(m, x, G, rt)
  /\ AlikeElsewhere(G, H, c) /\ Longer(G[c], H[c], j)
  /\ ChunksThere(x, rt[c], G[c], H[c], size, image, j)
  /\ j > 0 => FirstChunk(M, c, G[c], H[c])

-----------------------------------------------------------------------------
(* Buffers of running contexts stay in their places.                       *)
StaysFor(S, m, x, G, H, rt, q) ==
  \A c \in S : /\ c \in DOMAIN H /\ q[c] = rt[c]
               /\ \A k \in 1 .. Len(G[c]) : /\ k \in 1 .. Len(H[c]) /\ H[c][k] = G[c][k]
                                            /\ SamePages(m, x, rt[c], G[c][k])

(* The access the controller holds is to a word of a buffer, and its       *)
(* physical address is the one that word has.                              *)
Meant(m, G, rt, l, k) ==
  /\ k \in 1 .. Len(G[l.ctx]) /\ l.word \in Nat /\ l.w \in Nat /\ InBuffer(G[l.ctx][k], l.word)
  /\ l.w # 0 => G[l.ctx][k].type # "KERNEL_MEM"
  /\ l.page = Convert(m, rt[l.ctx], l.word \div PAGESIZE)
LatchOk(m, G, rt, S, la) ==
  la = << >> \/ \E l : la = <<l>> /\ l.ctx \in S /\ \E k : Meant(m, G, rt, l, k)

LEMMA LatchStays ==
  ASSUME NEW m, NEW x, NEW G, NEW H, NEW rt, NEW q, NEW S, S \subseteq DOMAIN G,
         HoldsBuffers(G), \A c \in DOMAIN G : G[c] \in Seq(GrantType),
         StaysFor(S, m, x, G, H, rt, q), NEW la, LatchOk(m, G, rt, S, la)
  PROVE  LatchOk(x, H, q, S, la)
<1>1. CASE la = << >>  BY <1>1 DEF LatchOk
<1>2. CASE la # << >>
  <2>1. PICK l, k : la = <<l>> /\ l.ctx \in S /\ Meant(m, G, rt, l, k)  BY <1>2 DEF LatchOk
  <2> DEFINE c == l.ctx
             g == G[c][k]
             v == l.word \div PAGESIZE
  <2>2. /\ c \in DOMAIN H /\ c \in DOMAIN G /\ q[c] = rt[c] /\ k \in 1 .. Len(G[c])
        /\ k \in 1 .. Len(H[c]) /\ H[c][k] = g /\ SamePages(m, x, rt[c], g)
    BY <2>1 DEF StaysFor, Meant
  <2>3. Buffer(g) /\ l.word \in Nat /\ InBuffer(g, l.word)
    <3>1. g \in ToSet(G[c])  BY <2>2, Elements
    <3> QED  BY <2>1, <2>2, <3>1 DEF HoldsBuffers, Meant
  <2>4. v \in PagesOfGrant(g)
    <3> HIDE DEF g
    <3> QED  BY <2>3, WordPlace
  <2>5. Convert(x, q[c], v) = Convert(m, rt[c], v)  BY <2>2, <2>4 DEF SamePages
  <2>6. Meant(x, H, q, l, k)
    <3> HIDE DEF v
    <3>1. Meant(m, G, rt, l, k) /\ l.page = Convert(m, rt[c], v)  BY <2>1 DEF Meant, v
    <3>2. l.page = Convert(x, q[c], v)  BY <2>5, <3>1
    <3> QED  BY <2>2, <3>1, <3>2 DEF Meant, v
  <2> QED  BY <2>1, <2>6 DEF LatchOk
<1> QED  BY <1>1, <1>2

-----------------------------------------------------------------------------
(* The programs where kernels start.                                       *)
AtBase(gr) == {g \in ToSet(gr) : g.vaddr = BUF_PARA_BASE}
HoldsProgram(m, r, g, p) ==
  \A i \in 0 .. p[2] - 1 : /\ InBuffer(g, BUF_PARA_BASE + i)
                           /\ ReadVirt(m, r, BUF_PARA_BASE + i) = p[1]
Standing(m, M, G, rt, pr, c) ==
  /\ c \in DOMAIN M => AtBase(G[c]) # {}
  /\ \A g \in AtBase(G[c]) : HoldsProgram(m, rt[c], g, pr[c])
ProgramsStand(m, M, G, rt, pr) ==
  DOMAIN pr \subseteq DOMAIN G /\ \A c \in DOMAIN pr : Standing(m, M, G, rt, pr, c)

(* They stand as long as what is at the base is what was there.            *)
BaseKept(m, M, G, rt, x, N, H, q, c) ==
  /\ c \in DOMAIN H /\ q[c] = rt[c]
  /\ c \in DOMAIN N => c \in DOMAIN M /\ AtBase(G[c]) \subseteq AtBase(H[c])
  /\ \A g \in AtBase(H[c]) : g \in AtBase(G[c]) /\ SameWords(m, x, rt[c], g)

LEMMA StandsStill ==
  ASSUME NEW m, NEW M, NEW G, NEW rt, NEW x, NEW N, NEW H, NEW q, NEW pr, NEW c,
         Standing(m, M, G, rt, pr, c), BaseKept(m, M, G, rt, x, N, H, q, c)
  PROVE  Standing(x, N, H, q, pr, c)
<1>1. c \in DOMAIN N => AtBase(H[c]) # {}  BY DEF Standing, BaseKept
<1>2. ASSUME NEW g \in AtBase(H[c]) PROVE HoldsProgram(x, q[c], g, pr[c])
  <2>1. q[c] = rt[c] /\ HoldsProgram(m, rt[c], g, pr[c]) /\ SameWords(m, x, rt[c], g)
    BY DEF Standing, BaseKept
  <2>2. ASSUME NEW i \in 0 .. pr[c][2] - 1
        PROVE  /\ InBuffer(g, BUF_PARA_BASE + i)
               /\ ReadVirt(x, rt[c], BUF_PARA_BASE + i) = pr[c][1]
    <3>1. BUF_PARA_BASE + i \in Nat  BY SegmentAssumption
    <3> QED  BY <2>1, <2>2, <3>1 DEF HoldsProgram, SameWords
  <2> QED  BY <2>1, <2>2 DEF HoldsProgram
<1> QED  BY <1>1, <1>2 DEF Standing

-----------------------------------------------------------------------------
(* Calls that only add to what contexts hold.                              *)
Prefixed(gr, hr) == \A k \in 1 .. Len(gr) : k \in 1 .. Len(hr) /\ hr[k] = gr[k]
Extended(m, M, G, rt, x, N, H, q) ==
  /\ Kept(m, x, G, rt)
  /\ \A d \in DOMAIN G : /\ d \in DOMAIN H /\ q[d] = rt[d] /\ Prefixed(G[d], H[d])
                         /\ d \in DOMAIN N => d \in DOMAIN M
                         /\ d \notin DOMAIN M => H[d] = G[d]
Outlasts(m, M, G, rt, x, N, H, q, S, pr) ==
  StaysFor(S, m, x, G, H, rt, q) /\ \A d \in DOMAIN pr : BaseKept(m, M, G, rt, x, N, H, q, d)

LEMMA ContextHolds ==
  ASSUME NEW m, NEW M, NEW G, NEW rt, Intact(m, M, G, rt), NEW d \in DOMAIN G
  PROVE  /\ Granting(G[d]) /\ G[d] \in Seq(GrantType) /\ Len(G[d]) \in Nat
         /\ ToSet(G[d]) = {G[d][k] : k \in 1 .. Len(G[d])}
         /\ \A g \in ToSet(G[d]) : Buffer(g) /\ Aligned(g.vaddr)
         /\ \A g, h \in ToSet(G[d]) : g # h => PagesOfGrant(g) \cap PagesOfGrant(h) = {}
<1>1. Granting(G[d]) /\ \A g \in ToSet(G[d]) : Aligned(g.vaddr)  BY DEF Intact, Registers
<1> DEFINE gr == G[d]
<1>2. Granting(gr) /\ \A g \in ToSet(gr) : Aligned(g.vaddr)  BY <1>1
<1> HIDE DEF gr
<1>3. /\ gr \in Seq(GrantType) /\ Len(gr) \in Nat /\ ToSet(gr) = {gr[k] : k \in 1 .. Len(gr)}
      /\ \A g \in ToSet(gr) : Buffer(g)
      /\ \A g, h \in ToSet(gr) : g # h => PagesOfGrant(g) \cap PagesOfGrant(h) = {}
  BY <1>2, HeldBuffers
<1> QED  BY <1>2, <1>3 DEF gr

(* A context holds one buffer at an address.                               *)
LEMMA OneAtAddress ==
  ASSUME NEW m, NEW M, NEW G, NEW rt, Intact(m, M, G, rt), NEW d \in DOMAIN G,
         NEW g \in ToSet(G[d]), NEW h \in ToSet(G[d]), g.vaddr = h.vaddr
  PROVE  g = h
<1>1. Buffer(g) /\ Buffer(h) /\ (g # h => PagesOfGrant(g) \cap PagesOfGrant(h) = {})
  BY ContextHolds
<1>2. FirstPage(g) \in PagesOfGrant(g) /\ FirstPage(h) \in PagesOfGrant(h)  BY <1>1, FirstInside
<1>3. FirstPage(g) = FirstPage(h)  BY DEF FirstPage
<1> QED  BY <1>1, <1>2, <1>3

LEMMA ExtendsOutlasts ==
  ASSUME NEW m, NEW M, NEW G, NEW rt, NEW x, NEW N, NEW H, NEW q,
         Intact(m, M, G, rt), Intact(x, N, H, q), Extended(m, M, G, rt, x, N, H, q),
         NEW S, S \subseteq DOMAIN G, NEW pr, ProgramsStand(m, M, G, rt, pr)
  PROVE  Outlasts(m, M, G, rt, x, N, H, q, S, pr)
<1>1. \A d \in DOMAIN G : \A g \in ToSet(G[d]) :
        SamePages(m, x, rt[d], g) /\ SameWords(m, x, rt[d], g)
  BY DEF Extended, Kept
<1>2. StaysFor(S, m, x, G, H, rt, q)
  <2> SUFFICES ASSUME NEW c \in S, NEW k \in 1 .. Len(G[c])
               PROVE  SamePages(m, x, rt[c], G[c][k])
    BY DEF StaysFor, Extended, Prefixed
  <2>1. c \in DOMAIN G /\ G[c][k] \in ToSet(G[c])  BY ContextHolds
  <2> QED  BY <1>1, <2>1
<1>3. ASSUME NEW d \in DOMAIN pr PROVE BaseKept(m, M, G, rt, x, N, H, q, d)
  <2>1. d \in DOMAIN G /\ Standing(m, M, G, rt, pr, d)  BY DEF ProgramsStand
  <2>2. /\ d \in DOMAIN H /\ q[d] = rt[d] /\ Prefixed(G[d], H[d])
        /\ d \in DOMAIN N => d \in DOMAIN M
        /\ d \notin DOMAIN M => H[d] = G[d]
    BY <2>1 DEF Extended
  <2>3. ToSet(G[d]) \subseteq ToSet(H[d])
    <3>1. /\ ToSet(G[d]) = {G[d][k] : k \in 1 .. Len(G[d])}
          /\ ToSet(H[d]) = {H[d][k] : k \in 1 .. Len(H[d])}
      BY <2>1, <2>2, ContextHolds
    <3> QED  BY <2>2, <3>1 DEF Prefixed
  <2>4. \A g \in AtBase(H[d]) : g \in AtBase(G[d])
    <3>1. CASE d \notin DOMAIN M  BY <2>2, <3>1
    <3>2. CASE d \in DOMAIN M
      <4> TAKE g \in AtBase(H[d])
      <4>1. PICK h \in AtBase(G[d]) : TRUE  BY <2>1, <3>2 DEF Standing
      <4>2. g \in ToSet(H[d]) /\ h \in ToSet(H[d]) /\ g.vaddr = h.vaddr
        BY <2>3, <4>1 DEF AtBase
      <4>3. g = h  BY <2>2, <4>2, OneAtAddress
      <4> QED  BY <4>1, <4>3
    <3> QED  BY <3>1, <3>2
  <2>5. AtBase(G[d]) \subseteq AtBase(H[d])  BY <2>3 DEF AtBase
  <2>6. \A g \in AtBase(G[d]) : SameWords(m, x, rt[d], g)  BY <1>1, <2>1 DEF AtBase
  <2> QED  BY <2>2, <2>4, <2>5, <2>6 DEF BaseKept
<1> QED  BY <1>2, <1>3 DEF Outlasts

LEMMA KeepsOutlasts ==
  ASSUME NEW m, NEW M, NEW G, NEW rt, NEW x, NEW N, NEW H, NEW q,
         Intact(m, M, G, rt), KeepsAll(m, M, G, rt, x, N, H, q)
  PROVE  Extended(m, M, G, rt, x, N, H, q)
BY DEF KeepsAll, Extended, Prefixed

LEMMA ContextOutlasts ==
  ASSUME NEW m, NEW M, NEW G, NEW rt, NEW x, NEW N, NEW H, NEW q, NEW c, NEW a,
         Intact(m, M, G, rt), AddsContext(m, M, G, rt, x, N, H, q, c, a)
  PROVE  Extended(m, M, G, rt, x, N, H, q)
<1>1. DOMAIN G \subseteq DOMAIN rt /\ DOMAIN M \subseteq DOMAIN rt  BY DEF Intact, Registers
<1>2. ASSUME NEW d \in DOMAIN G
      PROVE  /\ d \in DOMAIN H /\ q[d] = rt[d] /\ H[d] = G[d]
             /\ d \in DOMAIN N => d \in DOMAIN M
  <2>1. d # c /\ d \in DOMAIN rt  BY <1>1, <1>2 DEF AddsContext
  <2>2. q[d] = rt[d]  BY <2>1 DEF AddsContext, WithRoot
  <2>3. d \in DOMAIN H /\ H[d] = G[d]  BY <2>1 DEF AddsContext, CreateNewContext
  <2>4. d \in DOMAIN N => d \in DOMAIN M  BY <2>1 DEF AddsContext, CreateNewContext
  <2> QED  BY <2>2, <2>3, <2>4
<1>3. Kept(m, x, G, rt)  BY DEF AddsContext
<1> QED  BY <1>2, <1>3 DEF Extended, Prefixed

LEMMA BufferOutlasts ==
  ASSUME NEW m, NEW M, NEW G, NEW rt, NEW x, NEW N, NEW H, NEW q, NEW c, NEW g,
         Intact(m, M, G, rt), AddsBuffer(m, M, G, rt, x, N, H, q, c, g)
  PROVE  Extended(m, M, G, rt, x, N, H, q)
<1>1. /\ c \in DOMAIN G /\ c \in DOMAIN M /\ H = WithGrant(G, c, g) /\ q = rt
      /\ DOMAIN N = DOMAIN M /\ Kept(m, x, G, rt) /\ g \in GrantType
  BY DEF AddsBuffer, Buffer
<1>2. DOMAIN H = DOMAIN G /\ H[c] = Append(G[c], g) /\ \A d \in DOMAIN G : d # c => H[d] = G[d]
  BY <1>1, GrantAdded
<1>3. Prefixed(G[c], H[c])
  <2> DEFINE gr == G[c]
  <2>1. gr \in Seq(GrantType) /\ Len(gr) \in Nat /\ H[c] = Append(gr, g)
    BY <1>1, <1>2, ContextHolds
  <2> HIDE DEF gr
  <2>2. /\ Len(Append(gr, g)) = Len(gr) + 1
        /\ \A k \in 1 .. Len(gr) : Append(gr, g)[k] = gr[k]
    BY <1>1, <2>1, AppendProperties
  <2>3. Prefixed(gr, Append(gr, g))  BY <2>1, <2>2 DEF Prefixed
  <2> QED  BY <2>1, <2>3 DEF gr
<1>4. ASSUME NEW d \in DOMAIN G PROVE Prefixed(G[d], H[d])
  BY <1>2, <1>3 DEF Prefixed
<1> QED  BY <1>1, <1>2, <1>4 DEF Extended

LEMMA ImageOutlasts ==
  ASSUME NEW m, NEW M, NEW G, NEW rt, NEW x, NEW N, NEW H, NEW q,
         NEW c, NEW size, NEW image, NEW j,
         Intact(m, M, G, rt), LoadsImage(m, M, G, rt, x, N, H, q, c, size, image, j)
  PROVE  Extended(m, M, G, rt, x, N, H, q)
<1>1. /\ c \in DOMAIN G /\ j \in Nat /\ q = rt /\ DOMAIN N = DOMAIN M /\ Kept(m, x, G, rt)
      /\ DOMAIN H = DOMAIN G /\ \A d \in DOMAIN G : d # c => H[d] = G[d]
      /\ Longer(G[c], H[c], j) /\ (j > 0 => c \in DOMAIN M)
  BY DEF LoadsImage, AlikeElsewhere, FirstChunk
<1> DEFINE gr == G[c]
           hr == H[c]
<1>2. /\ gr \in Seq(GrantType) /\ hr \in Seq(GrantType) /\ Len(gr) \in Nat /\ Len(hr) = Len(gr) + j
      /\ \A k \in 1 .. Len(gr) : hr[k] = gr[k]
  BY <1>1 DEF Longer
<1> HIDE DEF gr, hr
<1>3. Prefixed(gr, hr)  BY <1>1, <1>2 DEF Prefixed
<1>4. j = 0 => hr = gr  BY <1>2
<1>5. ASSUME NEW d \in DOMAIN G PROVE Prefixed(G[d], H[d]) /\ (d \notin DOMAIN M => H[d] = G[d])
  <2>1. CASE d = c  BY <1>1, <1>3, <1>4, <2>1 DEF gr, hr
  <2>2. CASE d # c  BY <1>1, <2>2 DEF Prefixed
  <2> QED  BY <2>1, <2>2
<1> QED  BY <1>1, <1>5 DEF Extended

LEMMA FreesOutlasts ==
  ASSUME NEW m, NEW M, NEW G, NEW rt, NEW x, NEW N, NEW H, NEW q, NEW c, NEW k,
         Intact(m, M, G, rt), Intact(x, N, H, q), FreesBuffer(m, M, G, rt, x, N, H, q, c, k),
         NEW S, S \subseteq DOMAIN G, c \notin S, NEW pr, ProgramsStand(m, M, G, rt, pr)
  PROVE  Outlasts(m, M, G, rt, x, N, H, q, S, pr)
<1>1. /\ c \in DOMAIN G /\ k \in 1 .. Len(G[c]) /\ H = LessGrant(G, c, k) /\ q = rt
      /\ N = Unlisted(M, c) /\ Kept(m, x, H, rt)
  BY DEF FreesBuffer
<1>2. /\ DOMAIN H = DOMAIN G /\ H[c] = RemoveAt(G[c], k)
      /\ \A d \in DOMAIN G : d # c => H[d] = G[d]
  BY <1>1 DEF LessGrant
<1>3. DOMAIN N = DOMAIN M \ {c}  BY <1>1 DEF Unlisted
<1>4. ToSet(H[c]) \subseteq ToSet(G[c])
  <2> DEFINE gr == G[c]
  <2>1. gr \in Seq(GrantType)  BY <1>1, ContextHolds
  <2> HIDE DEF gr
  <2>2. \A i \in 1 .. Len(gr) : ToSet(RemoveAt(gr, i)) \subseteq ToSet(gr)  BY <2>1, Elements
  <2> QED  BY <1>1, <1>2, <2>2 DEF gr
<1>5. StaysFor(S, m, x, G, H, rt, q)
  <2> SUFFICES ASSUME NEW d \in S, NEW i \in 1 .. Len(G[d])
               PROVE  SamePages(m, x, rt[d], G[d][i])
    BY <1>1, <1>2 DEF StaysFor
  <2>1. d \in DOMAIN G /\ d # c /\ H[d] = G[d] /\ G[d][i] \in ToSet(G[d])
    BY <1>2, ContextHolds
  <2> QED  BY <1>1, <1>2, <2>1 DEF Kept
<1>6. ASSUME NEW d \in DOMAIN pr PROVE BaseKept(m, M, G, rt, x, N, H, q, d)
  <2>1. d \in DOMAIN G  BY DEF ProgramsStand
  <2>2. ToSet(H[d]) \subseteq ToSet(G[d])  BY <1>2, <1>4, <2>1
  <2>3. \A g \in ToSet(H[d]) : SameWords(m, x, rt[d], g)  BY <1>1, <1>2, <2>1 DEF Kept
  <2>4. d \in DOMAIN N => d \in DOMAIN M /\ AtBase(G[d]) \subseteq AtBase(H[d])
    BY <1>2, <1>3, <2>1 DEF AtBase
  <2> QED  BY <1>1, <1>2, <2>1, <2>2, <2>3, <2>4 DEF BaseKept, AtBase
<1> QED  BY <1>5, <1>6 DEF Outlasts

LEMMA StoresOutlasts ==
  ASSUME NEW m, NEW M, NEW G, NEW rt, NEW x, NEW N, NEW H, NEW q,
         NEW c, NEW k, NEW a, NEW len, NEW w,
         Intact(m, M, G, rt), StoresWords(m, M, G, rt, x, N, H, q, c, k, a, len, w),
         G[c][k].vaddr # BUF_PARA_BASE,
         NEW S, S \subseteq DOMAIN G, NEW pr, ProgramsStand(m, M, G, rt, pr)
  PROVE  Outlasts(m, M, G, rt, x, N, H, q, S, pr)
<1> DEFINE g == G[c][k]
<1>1. /\ c \in DOMAIN G /\ k \in 1 .. Len(G[c]) /\ Inside(g, a, len) /\ H = G /\ q = rt /\ N = M
      /\ Stored(m, x, G, rt, c, a, len, w)
  BY DEF StoresWords
<1>2. g \in ToSet(G[c]) /\ Buffer(g)  BY <1>1, ContextHolds
<1>3. StaysFor(S, m, x, G, H, rt, q)
  <2> SUFFICES ASSUME NEW d \in S, NEW i \in 1 .. Len(G[d])
               PROVE  SamePages(m, x, rt[d], G[d][i])
    BY <1>1 DEF StaysFor
  <2>1. d \in DOMAIN G /\ G[d][i] \in ToSet(G[d])  BY ContextHolds
  <2> QED  BY <1>1, <2>1 DEF Stored
<1>4. ASSUME NEW d \in DOMAIN pr PROVE BaseKept(m, M, G, rt, x, N, H, q, d)
  <2>1. d \in DOMAIN G  BY DEF ProgramsStand
  <2>2. ASSUME NEW h \in AtBase(G[d]) PROVE SameWords(m, x, rt[d], h)
    <3>1. h \in ToSet(G[d]) /\ h # g  BY DEF AtBase
    <3>2. Buffer(h)  BY <2>1, <3>1, ContextHolds
    <3>3. d = c => PagesOfGrant(h) \cap PagesOfGrant(g) = {}  BY <1>2, <2>1, <3>1, ContextHolds
    <3> HIDE DEF g
    <3> QED  BY <1>1, <1>2, <2>1, <3>1, <3>2, <3>3, StoredApart
  <2> QED  BY <1>1, <2>1, <2>2 DEF BaseKept
<1> QED  BY <1>3, <1>4 DEF Outlasts

LEMMA OutlastsKeeps ==
  ASSUME NEW m, NEW M, NEW G, NEW rt, NEW x, NEW N, NEW H, NEW q, NEW S, NEW pr, NEW la,
         Intact(m, M, G, rt), S \subseteq DOMAIN G, Outlasts(m, M, G, rt, x, N, H, q, S, pr),
         LatchOk(m, G, rt, S, la), ProgramsStand(m, M, G, rt, pr)
  PROVE  S \subseteq DOMAIN H /\ LatchOk(x, H, q, S, la) /\ ProgramsStand(x, N, H, q, pr)
<1>1. StaysFor(S, m, x, G, H, rt, q) /\ \A d \in DOMAIN pr : BaseKept(m, M, G, rt, x, N, H, q, d)
  BY DEF Outlasts
<1>2. HoldsBuffers(G) /\ \A c \in DOMAIN G : G[c] \in Seq(GrantType)
  BY ContextHolds DEF HoldsBuffers
<1>3. S \subseteq DOMAIN H  BY <1>1 DEF StaysFor
<1>4. LatchOk(x, H, q, S, la)  BY <1>1, <1>2, LatchStays
<1>5. ASSUME NEW d \in DOMAIN pr PROVE d \in DOMAIN H /\ Standing(x, N, H, q, pr, d)
  <2>1. Standing(m, M, G, rt, pr, d) /\ BaseKept(m, M, G, rt, x, N, H, q, d)
    BY <1>1 DEF ProgramsStand
  <2>2. d \in DOMAIN H  BY <2>1 DEF BaseKept
  <2> QED  BY <2>1, <2>2, StandsStill
<1> QED  BY <1>3, <1>4, <1>5 DEF ProgramsStand

-----------------------------------------------------------------------------
(* The calls of a client, each as one of these.                            *)
HostWords == Words \ ({0, JunkWord} \cup ImageWords)

Allocates(m, M, G, rt, x, N, H, q) ==
  \E c, g : AddsBuffer(m, M, G, rt, x, N, H, q, c, g) /\ g.size \in Sizes
Copied(m, M, G, rt, x, N, H, q) ==
  \E c, k, a, len, w : /\ StoresWords(m, M, G, rt, x, N, H, q, c, k, a, len, w)
                       /\ G[c][k].vaddr # BUF_PARA_BASE /\ w \in HostWords
HostOutcome(m, M, G, rt, x, N, H, q) ==
  \/ KeepsAll(m, M, G, rt, x, N, H, q)
  \/ \E c \in Contexts : \E a : AddsContext(m, M, G, rt, x, N, H, q, c, a)
  \/ Allocates(m, M, G, rt, x, N, H, q)
  \/ \E c, k : FreesBuffer(m, M, G, rt, x, N, H, q, c, k)
  \/ Copied(m, M, G, rt, x, N, H, q)
ImageOutcome(m, M, G, rt, x, N, H, q, c, size, image, done) ==
  \E j \in 0 .. Chunks(size) :
    LoadsImage(m, M, G, rt, x, N, H, q, c, size, image, j) /\ (done => j = Chunks(size))

(* The client's words are words.                                           *)
LEMMA ClientWords ==
  /\ HostWords \subseteq Nat \ {0} /\ ImageWords \subseteq Nat /\ Sizes \subseteq 0 .. MaxSize
  /\ Types \subseteq BufferType /\ ImageSizes \subseteq 1 .. 2 * MaxSize /\ MaxSize \in Nat
BY PhysicalAssumption, DriverAssumption, SharedAssumption, SegmentAssumption DEF HostWords

AllocOutcome(m, M, G, y, n) ==
  /\ Intact(y.pm, y.mng, y.granted, root) /\ y.ret \in {"ok", "throw"}
  /\ \/ KeepsAll(m, M, G, root, y.pm, y.mng, y.granted, root)
     \/ \E c, g : AddsBuffer(m, M, G, root, y.pm, y.mng, y.granted, root, c, g) /\ g.size = n

LEMMA MallocOutcome ==
  ASSUME NEW s, Sound(s), s.ret = "ok", NEW c \in DOMAIN s.granted, NEW k, NEW n \in Nat,
         NEW type \in BufferType,
         c \in DOMAIN s.mng /\ type # "KERNEL_MEM" =>
           \A i \in 1 .. Len(s.mng[c]) : s.mng[c][i].vaddr < BUF_PARA_BASE,
         NEW y, y = AllocLocalMem(s, c, k, n, type)
  PROVE  AllocOutcome(s.pm, s.mng, s.granted, y, n)
<1> DEFINE v == GrantedVaddr(s.mng, c, n, type)
           g == Grant(type, v, n)
<1>1. AllocDone(s, y, c, g)
  <2>1. v = GrantedVaddr(s.mng, c, n, type)  OBVIOUS
  <2> HIDE DEF v
  <2> QED  BY <2>1, AllocCall
<1>2. g.size = n  BY DEF Grant
<1> HIDE DEF g
<1>3. CASE Refused(s, y)
  <2>1. KeepsAll(s.pm, s.mng, s.granted, root, y.pm, y.mng, y.granted, root)
    BY <1>1, <1>3 DEF AllocDone, Refused, KeepsAll
  <2> QED  BY <1>1, <1>3, <2>1 DEF AllocDone, Sound, AllocOutcome, Refused
<1>4. CASE GivenTo(s, y, c, g)
  <2>1. AddsBuffer(s.pm, s.mng, s.granted, root, y.pm, y.mng, y.granted, root, c, g)
    BY <1>1, <1>4 DEF AllocDone, GivenTo, AddsBuffer
  <2> QED  BY <1>1, <1>2, <1>4, <2>1 DEF AllocDone, Sound, AllocOutcome, GivenTo
<1> QED  BY <1>1, <1>3, <1>4 DEF AllocDone

FreeOutcome(m, M, G, y) ==
  /\ Intact(y.pm, y.mng, y.granted, root) /\ y.ret \in {"ok", "throw"}
  /\ \/ KeepsAll(m, M, G, root, y.pm, y.mng, y.granted, root)
     \/ \E c, k : FreesBuffer(m, M, G, root, y.pm, y.mng, y.granted, root, c, k)

LEMMA FreesOutcome ==
  ASSUME NEW s, Sound(s), s.ret = "ok", NEW c \in DOMAIN s.granted, NEW g \in ToSet(s.granted[c]),
         NEW y, y = FreeLocalMem(s, c, g.vaddr)
  PROVE  FreeOutcome(s.pm, s.mng, s.granted, y)
<1> DEFINE gr == s.granted[c]
           v == g.vaddr
           k == GrantAt(gr, v)
<1>1. k \in 1 .. Len(gr) /\ gr[k].vaddr = v
  <2>1. \E i \in 1 .. Len(gr) : gr[i].vaddr = v  BY ContextHolds DEF Sound
  <2> QED  BY <2>1 DEF GrantAt
<1>2. k \in 1 .. Len(s.granted[c]) /\ FreeCalled(s, y, c, k, v)  BY <1>1 DEF FreeCalled
<1> HIDE DEF k, v
<1>3. FreeDone(s, y, c, k)  BY <1>2, FreeCall
<1>4. Intact(y.pm, y.mng, y.granted, root) /\ Kept(s.pm, y.pm, y.granted, root)
  BY <1>3 DEF FreeDone
<1>7. y.ret \in {"ok", "throw"}  BY <1>3 DEF FreeDone, Refused
<1>5. CASE y.pm = s.pm /\ y.mng = s.mng /\ Refused(s, y)
  <2>1. KeepsAll(s.pm, s.mng, s.granted, root, y.pm, y.mng, y.granted, root)
    BY <1>4, <1>5 DEF Refused, KeepsAll
  <2> QED  BY <1>4, <1>7, <2>1 DEF FreeOutcome
<1>6. CASE y.granted = LessGrant(s.granted, c, k) /\ y.mng = Unlisted(s.mng, c)
  <2>1. FreesBuffer(s.pm, s.mng, s.granted, root, y.pm, y.mng, y.granted, root, c, k)
    BY <1>2, <1>4, <1>6 DEF FreesBuffer
  <2> QED  BY <1>4, <1>7, <2>1 DEF FreeOutcome
<1> QED  BY <1>3, <1>5, <1>6 DEF FreeDone

StoreOutcome(m, M, G, y, c, k, a, len, w) ==
  /\ Intact(y.pm, y.mng, y.granted, root)
  /\ StoresWords(m, M, G, root, y.pm, y.mng, y.granted, root, c, k, a, len, w)

LEMMA CopyOutcome ==
  ASSUME NEW s, Sound(s), NEW c \in DOMAIN s.granted, NEW k \in 1 .. Len(s.granted[c]),
         NEW a, NEW len, Inside(s.granted[c][k], a, len), len # 0, NEW w \in Nat,
         NEW y, y = UploadWords(s, c, a, len, w)
  PROVE  StoreOutcome(s.pm, s.mng, s.granted, y, c, k, a, len, w) /\ y.ret = s.ret
<1> DEFINE g == s.granted[c][k]
<1>1. g \in ToSet(s.granted[c]) /\ Inside(g, a, len)  BY ContextHolds DEF Sound
<1> HIDE DEF g
<1>2. Filled(s, y, c, a, len, w)  BY <1>1, FillCall
<1>3. /\ Intact(y.pm, y.mng, y.granted, root) /\ y.mng = s.mng /\ y.granted = s.granted
      /\ y.ret = s.ret /\ Stored(s.pm, y.pm, s.granted, root, c, a, len, w)
  BY <1>2 DEF Filled, Sound
<1> QED  BY <1>1, <1>3 DEF StoreOutcome, StoresWords, g

-----------------------------------------------------------------------------
(* The state as a call finds it.                                           *)
Results == {"ok", "fail", "throw", "unreachable"}

LEMMA NowSound ==
  ASSUME Intact(pm, mng, granted, root), Live
  PROVE  /\ Sound(Now) /\ Now.pm = pm /\ Now.mng = mng /\ Now.granted = granted /\ Now.ret = "ok"
BY DEF Now, Sound, Threaded, Live

HostDone ==
  /\ HostOutcome(pm, mng, granted, root, pm', mng', granted', root')
  /\ Intact(pm', mng', granted', root') /\ ret' \in Results

LEMMA NothingDone ==
  ASSUME Intact(pm, mng, granted, root), UNCHANGED <<pm, mng, granted, root>>, ret' \in Results
  PROVE  HostDone
<1>1. KeepsAll(pm, mng, granted, root, pm, mng, granted, root)  BY KeptSelf DEF KeepsAll
<1> QED  BY <1>1 DEF HostDone, HostOutcome

LEMMA CreateDone ==
  ASSUME Intact(pm, mng, granted, root), Live, NEW c \in Contexts, CreateDeviceMem(c)
  PROVE  HostDone
<1>1. CASE c \in DOMAIN root
  <2>1. ret' \in Results /\ UNCHANGED <<pm, mng, granted, root>>
    BY <1>1 DEF CreateDeviceMem, Results
  <2> QED  BY <2>1, NothingDone
<1>2. CASE c \notin DOMAIN root
  <2> DEFINE a == Usable(pm, 1)
             x == pm'
             N == mng'
             H == granted'
             q == root'
  <2>1. /\ x = CreateRootPt(pm, "crash") /\ N = CreateNewContext(mng, c)
        /\ q = WithRoot(root, c, a) /\ H = IF a = 0 THEN granted ELSE CreateNewContext(granted, c)
        /\ ret' \in Results
    BY <1>2 DEF CreateDeviceMem, WithRoot, Results
  <2>2. pm.cur # 0 /\ c \in Contexts \ DOMAIN root /\ a = Usable(pm, 1)  BY <1>2 DEF Live
  <2> HIDE DEF a, x, N, H, q
  <2>3. Intact(x, N, H, q) /\ Kept(pm, x, granted, root)
    BY <2>1, <2>2, NewContextCall
  <2>4. AddsContext(pm, mng, granted, root, x, N, H, q, c, a)
    BY <1>2, <2>1, <2>3 DEF AddsContext
  <2>5. HostOutcome(pm, mng, granted, root, x, N, H, q)  BY <2>4 DEF HostOutcome
  <2> QED  BY <2>1, <2>3, <2>5 DEF HostDone, x, N, H, q
<1> QED  BY <1>1, <1>2

LEMMA MallocDone ==
  ASSUME Intact(pm, mng, granted, root), Live, NEW c \in DOMAIN granted, NEW k \in Contexts,
         NEW n \in Sizes, NEW type \in Types, KernelAsked(c) => type = "KERNEL_MEM",
         Malloc(c, k, n, type)
  PROVE  HostDone
<1> DEFINE s == Now
           y == AllocLocalMem(s, c, k, n, type)
<1>1. /\ Sound(s) /\ s.pm = pm /\ s.mng = mng /\ s.granted = granted /\ s.ret = "ok"
  BY NowSound
<1>2. /\ pm' = y.pm /\ mng' = y.mng /\ granted' = y.granted /\ ret' = y.ret /\ root' = root
  BY DEF Malloc, Becomes
<1>3. n \in Nat /\ type \in BufferType  BY ClientWords
<1>4. c \in DOMAIN s.mng /\ type # "KERNEL_MEM" =>
        \A i \in 1 .. Len(s.mng[c]) : s.mng[c][i].vaddr < BUF_PARA_BASE
  <2> SUFFICES ASSUME c \in DOMAIN mng, type # "KERNEL_MEM", NEW i \in 1 .. Len(mng[c])
               PROVE  mng[c][i].vaddr < BUF_PARA_BASE
    BY <1>1
  <2>1. mng[c] \in Seq(ItemType)  BY DEF Intact, Registers, Listing
  <2>2. mng[c][i] \in ToSet(mng[c]) /\ mng[c][i].vaddr \in Nat
    <3> DEFINE l == mng[c]
    <3>1. l \in Seq(ItemType) /\ i \in 1 .. Len(l)  BY <2>1
    <3> HIDE DEF l
    <3>2. l[i] \in ToSet(l) /\ l[i] \in ItemType  BY <3>1, Elements
    <3> QED  BY <3>2 DEF l, ItemType
  <2>3. ~(mng[c][i].vaddr >= BUF_PARA_BASE)  BY <2>2 DEF KernelAsked
  <2> QED  BY <2>2, <2>3, SegmentAssumption
<1>5. y = AllocLocalMem(s, c, k, n, type) /\ c \in DOMAIN s.granted  BY <1>1
<1> HIDE DEF s, y
<1>6. AllocOutcome(s.pm, s.mng, s.granted, y, n)  BY <1>1, <1>3, <1>4, <1>5, MallocOutcome
<1>7. HostOutcome(pm, mng, granted, root, y.pm, y.mng, y.granted, root)
  BY <1>1, <1>6 DEF AllocOutcome, HostOutcome, Allocates
<1> QED  BY <1>2, <1>6, <1>7 DEF AllocOutcome, HostDone, Results

LEMMA BufferFreed ==
  ASSUME Intact(pm, mng, granted, root), Live, NEW c \in DOMAIN granted,
         NEW g \in ToSet(granted[c]), FreeBuffer(c, g.vaddr)
  PROVE  HostDone
<1> DEFINE s == Now
           y == FreeLocalMem(s, c, g.vaddr)
<1>1. /\ Sound(s) /\ s.pm = pm /\ s.mng = mng /\ s.granted = granted /\ s.ret = "ok"
  BY NowSound
<1>2. /\ pm' = y.pm /\ mng' = y.mng /\ granted' = y.granted /\ ret' = y.ret /\ root' = root
  BY DEF FreeBuffer, Becomes
<1>3. y = FreeLocalMem(s, c, g.vaddr) /\ c \in DOMAIN s.granted /\ g \in ToSet(s.granted[c])
  BY <1>1
<1> HIDE DEF s, y
<1>4. FreeOutcome(s.pm, s.mng, s.granted, y)  BY <1>1, <1>3, FreesOutcome
<1>5. HostOutcome(pm, mng, granted, root, y.pm, y.mng, y.granted, root)
  BY <1>1, <1>4 DEF FreeOutcome, HostOutcome
<1> QED  BY <1>2, <1>4, <1>5 DEF FreeOutcome, HostDone, Results

LEMMA CopyDone ==
  ASSUME Intact(pm, mng, granted, root), Live, NEW c \in DOMAIN granted,
         NEW g \in ToSet(granted[c]), g.vaddr # BUF_PARA_BASE, NEW i \in 0 .. g.size - 1,
         NEW w \in HostWords, CopyToDevice(c, g.vaddr + i, g.size - i, w)
  PROVE  HostDone
<1> DEFINE s == Now
           a == g.vaddr + i
           len == g.size - i
           y == UploadWords(s, c, a, len, w)
<1>1. /\ Sound(s) /\ s.pm = pm /\ s.mng = mng /\ s.granted = granted /\ s.ret = "ok"
  BY NowSound
<1>2. PICK k \in 1 .. Len(granted[c]) : g = granted[c][k]  BY ContextHolds
<1>3. Inside(granted[c][k], a, len) /\ len # 0
  <2> DEFINE from == g.vaddr
             n == g.size
  <2>1. from \in Nat /\ n \in Nat /\ i \in 0 .. n - 1  BY ContextHolds, BufferPlace
  <2> HIDE DEF from, n
  <2>2. /\ from + i \in Nat /\ n - i \in Nat /\ from <= from + i
        /\ (from + i) + (n - i) <= from + n /\ n - i # 0
    BY <2>1
  <2> QED  BY <1>2, <2>2 DEF Inside, from, n
<1>4. w \in Nat  BY ClientWords
<1>5. y = UploadWords(s, c, a, len, w) /\ c \in DOMAIN s.granted
      /\ k \in 1 .. Len(s.granted[c]) /\ Inside(s.granted[c][k], a, len)
  BY <1>1, <1>3
<1>6. CopyToDevice(c, a, len, w)  OBVIOUS
<1> HIDE DEF a, len
<1>7. /\ pm' = y.pm /\ mng' = y.mng /\ granted' = y.granted /\ root' = root
      /\ ret' = IF y.ret = "ok" THEN "unreachable" ELSE y.ret
  <2> DEFINE z == [y EXCEPT !.ret = IF @ = "ok" THEN "unreachable" ELSE @]
  <2>1. pm' = z.pm /\ mng' = z.mng /\ granted' = z.granted /\ ret' = z.ret /\ root' = root
    BY <1>6 DEF CopyToDevice, Becomes
  <2>2. Threaded(y)
    <3> HIDE DEF s, y
    <3>1. Filled(s, y, c, a, len, w)
      BY <1>1, <1>2, <1>3, <1>4, <1>5, ContextHolds, FillCall DEF Sound
    <3> QED  BY <3>1 DEF Filled, Sound
  <2> HIDE DEF y
  <2>3. z.pm = y.pm /\ z.mng = y.mng /\ z.granted = y.granted
        /\ z.ret = IF y.ret = "ok" THEN "unreachable" ELSE y.ret
    BY <2>2 DEF Threaded
  <2> QED  BY <2>1, <2>3
<1> HIDE DEF s, y
<1>8. StoreOutcome(s.pm, s.mng, s.granted, y, c, k, a, len, w) /\ y.ret = s.ret
  BY <1>1, <1>3, <1>4, <1>5, CopyOutcome
<1>9. Copied(pm, mng, granted, root, y.pm, y.mng, y.granted, root)
  BY <1>1, <1>2, <1>8 DEF StoreOutcome, Copied
<1> QED  BY <1>1, <1>7, <1>8, <1>9 DEF StoreOutcome, HostOutcome, HostDone, Results

LEMMA CallsDone ==
  ASSUME Intact(pm, mng, granted, root), Live, Calls
  PROVE  HostDone
<1>1. ASSUME NEW c \in Contexts, CreateDeviceMem(c) PROVE HostDone  BY <1>1, CreateDone
<1>2. ASSUME NEW c \in Contexts, DeleteDeviceMem(c) PROVE HostDone
  BY <1>2, NothingDone DEF DeleteDeviceMem, Results
<1>3. ASSUME NEW c \in DOMAIN granted, NEW k \in Contexts, NEW n \in Sizes, NEW type \in Types,
             KernelAsked(c) => type = "KERNEL_MEM", Malloc(c, k, n, type)
      PROVE  HostDone
  BY <1>3, MallocDone
<1>4. ASSUME NEW c \in DOMAIN granted, NEW g \in ToSet(granted[c]), FreeBuffer(c, g.vaddr)
      PROVE  HostDone
  BY <1>4, BufferFreed
<1>5. ASSUME NEW c \in DOMAIN granted, NEW g \in ToSet(granted[c]), g.vaddr # BUF_PARA_BASE,
             Copies(c, g)
      PROVE  HostDone
  <2>1. PICK i \in UploadFrom \cap 0 .. g.size - 1 :
          \/ \E w \in HostWords : CopyToDevice(c, g.vaddr + i, g.size - i, w)
          \/ CopyFromDevice(c, g.vaddr + i, g.size - i)
    BY <1>5 DEF Copies, HostWords
  <2>2. CASE \E w \in HostWords : CopyToDevice(c, g.vaddr + i, g.size - i, w)
    BY <1>5, <2>2, CopyDone
  <2>3. CASE CopyFromDevice(c, g.vaddr + i, g.size - i)
    BY <2>3, NothingDone DEF CopyFromDevice, Results
  <2> QED  BY <2>1, <2>2, <2>3
<1> QED  BY <1>1, <1>2, <1>3, <1>4, <1>5 DEF Calls

-----------------------------------------------------------------------------
(* vt_upload_kernel_bytes as a step, and the program it leaves.            *)
ImageDone(c, size, image) ==
  /\ ImageOutcome(pm, mng, granted, root, pm', mng', granted', root', c, size, image, ret' = "ok")
  /\ Intact(pm', mng', granted', root') /\ ret' \in Results

LEMMA UploadOutcome ==
  ASSUME Intact(pm, mng, granted, root), Live, NEW c \in DOMAIN granted,
         NEW size \in ImageSizes, NEW image \in ImageWords, UploadKernel(c, size, image)
  PROVE  ImageDone(c, size, image)
<1> DEFINE s == Now
           y == UploadImage(s, c, size, image)
<1>1. /\ Sound(s) /\ s.pm = pm /\ s.mng = mng /\ s.granted = granted /\ s.ret = "ok"
  BY NowSound
<1>2. /\ pm' = y.pm /\ mng' = y.mng /\ granted' = y.granted /\ ret' = y.ret /\ root' = root
  BY DEF UploadKernel, Becomes
<1>3. size \in Nat \ {0} /\ image \in Nat  BY ClientWords
<1>4. y = UploadImage(s, c, size, image) /\ c \in DOMAIN s.granted /\ s.ret # "throw"  BY <1>1
<1> HIDE DEF s, y
<1>5. UploadDone(s, y, c, size, image, Chunks(size))  BY <1>1, <1>3, <1>4, UploadCall
<1>6. PICK j \in 0 .. Chunks(size) : Loaded(s, y, c, size, image, j)
                                     /\ (y.ret # "throw" => j = Chunks(size))
  BY <1>5 DEF UploadDone
<1>7. LoadsImage(pm, mng, granted, root, y.pm, y.mng, y.granted, root, c, size, image, j)
  <2>1. j \in Nat  BY <1>3, <1>6, ChunkNumbers
  <2> QED  BY <1>1, <1>6, <2>1 DEF Loaded, LoadsImage
<1>8. ImageOutcome(pm, mng, granted, root, y.pm, y.mng, y.granted, root, c, size, image, y.ret = "ok")
  <2>1. y.ret = "ok" => j = Chunks(size)  BY <1>6
  <2> QED  BY <1>6, <1>7, <2>1 DEF ImageOutcome
<1>9. Intact(y.pm, y.mng, y.granted, root) /\ y.ret \in Results
  BY <1>1, <1>6 DEF Loaded, Sound, Results
<1> QED  BY <1>2, <1>8, <1>9 DEF ImageDone

(* The first kernel memory of a context lies at the base of its segment.   *)
LEMMA FirstAtBase ==
  ASSUME NEW M, NEW c \in DOMAIN M, Listing(M[c]),
         \A i \in 1 .. Len(M[c]) : M[c][i].vaddr < BUF_PARA_BASE,
         GrantedVaddr(M, c, CHUNK, "KERNEL_MEM") # 0
  PROVE  GrantedVaddr(M, c, CHUNK, "KERNEL_MEM") = BUF_PARA_BASE
<1> DEFINE l == M[c]
<1>1. CASE l = << >>  BY <1>1 DEF GrantedVaddr, SegmentBase
<1>2. CASE l # << >>
  <2>1. GrantedVaddr(M, c, CHUNK, "KERNEL_MEM") = AllocVaddr(l, CHUNK, "KERNEL_MEM").vaddr
    BY <1>2 DEF GrantedVaddr
  <2>2. /\ l \in Seq(ItemType) /\ l[1].vaddr \in Bases
        /\ \A i \in 1 .. Len(l) : l[i].vaddr < BUF_PARA_BASE
    BY <1>2 DEF Listing
  <2> HIDE DEF l
  <2>3. Len(l) \in Nat /\ Len(l) # 0 /\ \A i \in 1 .. Len(l) : l[i].vaddr \in Nat
    <3>1. l \in Seq(ItemType)  BY <2>2
    <3>2. Len(l) \in Nat /\ (Len(l) = 0 => l = << >>) /\ \A i \in 1 .. Len(l) : l[i] \in ItemType
      BY <3>1
    <3> QED  BY <1>2, <3>2 DEF ItemType
  <2>4. l[1].vaddr \in {RODATA_BASE, RWDATA_BASE}
    <3>1. 1 \in 1 .. Len(l)  BY <2>3
    <3> QED  BY <2>2, <2>3, <3>1, SegmentAssumption DEF Bases
  <2>5. {k \in 1 .. Len(l) : l[k].vaddr >= BUF_PARA_BASE} = {}
    BY <2>2, <2>3, SegmentAssumption
  <2>6. AllocVaddr(l, CHUNK, "KERNEL_MEM")
          = LaterSpot(l, {RODATA_BASE, RWDATA_BASE}, BUF_PARA_BASE, BUF_PARA_END, CHUNK)
    BY DEF AllocVaddr
  <2>7. LaterSpot(l, {RODATA_BASE, RWDATA_BASE}, BUF_PARA_BASE, BUF_PARA_END, CHUNK)
          = Spot(Len(l), BUF_PARA_BASE)
    BY <2>4, <2>5 DEF LaterSpot
  <2> QED  BY <2>1, <2>6, <2>7 DEF Spot
<1> QED  BY <1>1, <1>2

LEMMA ProgramLoaded ==
  ASSUME NEW m, NEW M, NEW G, NEW rt, NEW x, NEW N, NEW H, NEW q,
         Intact(m, M, G, rt), Intact(x, N, H, q),
         NEW c \in DOMAIN G, NEW size \in Nat \ {0}, NEW image,
         NEW j \in Nat \ {0}, LoadsImage(m, M, G, rt, x, N, H, q, c, size, image, j),
         c \in DOMAIN M => \A i \in 1 .. Len(M[c]) : M[c][i].vaddr < BUF_PARA_BASE,
         NEW pr, pr[c] = <<image, ProgramWords(size)>>
  PROVE  c \in DOMAIN H /\ Standing(x, N, H, q, pr, c)
<1> DEFINE gr == G[c]
           hr == H[c]
           g == hr[Len(gr) + 1]
<1>1. /\ c \in DOMAIN H /\ q = rt /\ Longer(gr, hr, j) /\ ChunksThere(x, rt[c], gr, hr, size, image, j)
      /\ c \in DOMAIN M /\ g = ChunkAt(M, c)
  BY DEF LoadsImage, FirstChunk, AlikeElsewhere
<1>2. g \in ToSet(hr)
  <2>1. Len(hr) = Len(gr) + j /\ Len(gr) \in Nat  BY <1>1, ContextHolds DEF Longer
  <2>2. Len(gr) + 1 \in 1 .. Len(hr)  BY <2>1
  <2> QED  BY <1>1, <2>2, ContextHolds
<1>3. ChunkThere(x, rt[c], g, size, image, 1)
  <2>1. 1 \in 1 .. j  OBVIOUS
  <2> QED  BY <1>1, <2>1 DEF ChunksThere
<1> HIDE DEF gr, g
<1>4. Buffer(g) /\ g.size = CHUNK /\ g.vaddr = GrantedVaddr(M, c, CHUNK, "KERNEL_MEM")
  BY <1>1, <1>3 DEF ChunkThere, ChunkAt, Grant
<1>5. g.vaddr = BUF_PARA_BASE
  <2>1. g.vaddr # 0  BY <1>4, BufferPlace
  <2>2. Listing(M[c]) /\ \A i \in 1 .. Len(M[c]) : M[c][i].vaddr < BUF_PARA_BASE
    BY <1>1 DEF Intact, Registers
  <2> QED  BY <1>1, <1>4, <2>1, <2>2, FirstAtBase
<1>6. g \in AtBase(H[c]) /\ \A h \in AtBase(H[c]) : h = g
  <2>1. g \in ToSet(H[c])  BY <1>2
  <2>2. ASSUME NEW h \in AtBase(H[c]) PROVE h = g
    <3>1. h \in ToSet(H[c]) /\ h.vaddr = g.vaddr  BY <1>5 DEF AtBase
    <3> QED  BY <1>1, <2>1, <3>1, OneAtAddress
  <2> QED  BY <1>5, <2>1, <2>2 DEF AtBase
<1>7. HoldsProgram(x, rt[c], g, pr[c])
  <2> DEFINE p == ProgramWords(size)
  <2>1. p \in Nat /\ p <= CHUNK /\ p <= size \div 2 /\ CHUNK \in Nat /\ size \div 2 \in Nat
    <3>1. size \div 2 \in Nat  OBVIOUS
    <3> QED  BY <3>1, Units DEF ProgramWords
  <2>2. pr[c][1] = image /\ pr[c][2] = p  OBVIOUS
  <2> HIDE DEF p
  <2>3. ASSUME NEW i \in 0 .. p - 1
        PROVE  InBuffer(g, BUF_PARA_BASE + i) /\ ReadVirt(x, rt[c], BUF_PARA_BASE + i) = image
    <3> DEFINE b == BUF_PARA_BASE + i
    <3>1. b \in Nat /\ i \in Nat /\ i + 1 <= p /\ b - g.vaddr + 1 = i + 1
      BY <1>5, <2>1, SegmentAssumption
    <3>2. InBuffer(g, b)
      <4>1. BUF_PARA_BASE \in Nat  BY SegmentAssumption
      <4> QED  BY <1>4, <1>5, <2>1, <4>1 DEF InBuffer
    <3>3. i + 1 <= size \div 2  BY <2>1, <3>1
    <3> HIDE DEF b
    <3>4. ReadVirt(x, rt[c], b) = Laid(size, image, 1, b - g.vaddr + 1)
      BY <1>3, <3>1, <3>2 DEF ChunkThere
    <3>5. ReadVirt(x, rt[c], b) = image  BY <3>1, <3>3, <3>4 DEF Laid
    <3> QED  BY <3>2, <3>5 DEF b
  <2> QED  BY <2>2, <2>3 DEF HoldsProgram
<1> QED  BY <1>1, <1>6, <1>7 DEF Standing

-----------------------------------------------------------------------------
(* The inductive invariant.                                                *)
RecordsOk == Intact(pm, mng, granted, root) /\ ret \in Results /\ view = Arrays
DeviceOk ==
  /\ running \subseteq DOMAIN granted /\ \E c : running \subseteq {c}
  /\ \E c \in DOMAIN root : mroot = root[c]
  /\ \A c \in running : mroot = root[c]
SMInv ==
  /\ RecordsOk /\ DeviceOk
  /\ LatchOk(pm, granted, root, running, latch)
  /\ ProgramsStand(pm, mng, granted, root, program)

LEMMA HostOutlasts ==
  ASSUME NEW m, NEW M, NEW G, NEW rt, NEW x, NEW N, NEW H, NEW q,
         Intact(m, M, G, rt), Intact(x, N, H, q), HostOutcome(m, M, G, rt, x, N, H, q),
         NEW S, S \subseteq DOMAIN G, \A c \in S : Len(H[c]) >= Len(G[c]),
         NEW pr, ProgramsStand(m, M, G, rt, pr)
  PROVE  /\ Outlasts(m, M, G, rt, x, N, H, q, S, pr)
         /\ \A d \in DOMAIN rt : d \in DOMAIN q /\ q[d] = rt[d]
<1>1. CASE KeepsAll(m, M, G, rt, x, N, H, q)
  <2>1. Outlasts(m, M, G, rt, x, N, H, q, S, pr)
    BY <1>1, KeepsOutlasts, ExtendsOutlasts
  <2> QED  BY <1>1, <2>1 DEF KeepsAll
<1>2. ASSUME NEW c, NEW a, AddsContext(m, M, G, rt, x, N, H, q, c, a)
      PROVE  /\ Outlasts(m, M, G, rt, x, N, H, q, S, pr)
             /\ \A d \in DOMAIN rt : d \in DOMAIN q /\ q[d] = rt[d]
  <2>1. Outlasts(m, M, G, rt, x, N, H, q, S, pr)
    BY <1>2, ContextOutlasts, ExtendsOutlasts
  <2>2. c \notin DOMAIN rt /\ q = WithRoot(rt, c, a)  BY <1>2 DEF AddsContext
  <2> QED  BY <2>1, <2>2 DEF WithRoot
<1>3. ASSUME NEW c, NEW g, AddsBuffer(m, M, G, rt, x, N, H, q, c, g)
      PROVE  /\ Outlasts(m, M, G, rt, x, N, H, q, S, pr)
             /\ \A d \in DOMAIN rt : d \in DOMAIN q /\ q[d] = rt[d]
  <2>1. Outlasts(m, M, G, rt, x, N, H, q, S, pr)
    BY <1>3, BufferOutlasts, ExtendsOutlasts
  <2> QED  BY <1>3, <2>1 DEF AddsBuffer
<1>4. ASSUME NEW c, NEW k, FreesBuffer(m, M, G, rt, x, N, H, q, c, k)
      PROVE  /\ Outlasts(m, M, G, rt, x, N, H, q, S, pr)
             /\ \A d \in DOMAIN rt : d \in DOMAIN q /\ q[d] = rt[d]
  <2>1. c \in DOMAIN G /\ k \in 1 .. Len(G[c]) /\ H = LessGrant(G, c, k) /\ q = rt
    BY <1>4 DEF FreesBuffer
  <2>2. Len(H[c]) = Len(G[c]) - 1
    <3> DEFINE gr == G[c]
    <3>1. H[c] = RemoveAt(gr, k) /\ gr \in Seq(GrantType) /\ k \in 1 .. Len(gr)
      BY <2>1, ContextHolds DEF LessGrant
    <3> HIDE DEF gr
    <3>2. Len(RemoveAt(gr, k)) = Len(gr) - 1  BY <3>1, RemoveAtFacts DEF HasRemoved
    <3> QED  BY <3>1, <3>2 DEF gr
  <2>3. Len(G[c]) \in Nat  BY <2>1, ContextHolds
  <2>4. c \notin S  BY <2>2, <2>3
  <2>5. Outlasts(m, M, G, rt, x, N, H, q, S, pr)  BY <1>4, <2>4, FreesOutlasts
  <2> QED  BY <2>1, <2>5
<1>5. ASSUME NEW c, NEW k, NEW a, NEW len, NEW w,
             StoresWords(m, M, G, rt, x, N, H, q, c, k, a, len, w), G[c][k].vaddr # BUF_PARA_BASE
      PROVE  /\ Outlasts(m, M, G, rt, x, N, H, q, S, pr)
             /\ \A d \in DOMAIN rt : d \in DOMAIN q /\ q[d] = rt[d]
  <2>1. Outlasts(m, M, G, rt, x, N, H, q, S, pr)  BY <1>5, StoresOutlasts
  <2> QED  BY <1>5, <2>1 DEF StoresWords
<1> QED  BY <1>1, <1>2, <1>3, <1>4, <1>5 DEF HostOutcome, Allocates, Copied

LEMMA DeviceStays ==
  ASSUME NEW x, NEW N, NEW H, NEW q, NEW la, NEW pr,
         SMInv, \A d \in DOMAIN root : d \in DOMAIN q /\ q[d] = root[d],
         Outlasts(pm, mng, granted, root, x, N, H, q, running, program)
  PROVE  /\ running \subseteq DOMAIN H /\ \E c \in DOMAIN q : mroot = q[c]
         /\ \A c \in running : mroot = q[c]
         /\ LatchOk(x, H, q, running, latch) /\ ProgramsStand(x, N, H, q, program)
<1>1. /\ Intact(pm, mng, granted, root) /\ running \subseteq DOMAIN granted
      /\ LatchOk(pm, granted, root, running, latch)
      /\ ProgramsStand(pm, mng, granted, root, program)
  BY DEF SMInv, RecordsOk, DeviceOk
<1>2. /\ running \subseteq DOMAIN H /\ LatchOk(x, H, q, running, latch)
      /\ ProgramsStand(x, N, H, q, program)
  <2> DEFINE S == running
             m == pm
             M == mng
             G == granted
             rt == root
             l == latch
             p == program
  <2>1. /\ Intact(m, M, G, rt) /\ S \subseteq DOMAIN G /\ Outlasts(m, M, G, rt, x, N, H, q, S, p)
        /\ LatchOk(m, G, rt, S, l) /\ ProgramsStand(m, M, G, rt, p)
    BY <1>1
  <2> HIDE DEF S, m, M, G, rt, l, p
  <2>2. S \subseteq DOMAIN H /\ LatchOk(x, H, q, S, l) /\ ProgramsStand(x, N, H, q, p)
    BY <2>1, OutlastsKeeps
  <2> QED  BY <2>2 DEF S, l, p
<1>3. \E c \in DOMAIN q : mroot = q[c]  BY DEF SMInv, DeviceOk
<1>4. \A c \in running : mroot = q[c]
  <2>1. \A c \in running : c \in DOMAIN root /\ mroot = root[c]
    BY <1>1 DEF SMInv, DeviceOk, Intact, Registers
  <2> QED  BY <2>1
<1> QED  BY <1>2, <1>3, <1>4

LEMMA HostCallsStep ==
  ASSUME SMInv, HostCalls
  PROVE  SMInv'
<1>1. HostDone  BY CallsDone DEF HostCalls, SMInv, RecordsOk
<1> DEFINE x == pm'
           N == mng'
           H == granted'
           q == root'
<1>2. /\ Intact(x, N, H, q) /\ HostOutcome(pm, mng, granted, root, x, N, H, q) /\ ret' \in Results
      /\ \A c \in running : Len(H[c]) >= Len(granted[c])
      /\ view' = Arrays' /\ UNCHANGED <<mroot, running, latch, program>>
  BY <1>1 DEF HostDone, HostCalls, deviceVars
<1> HIDE DEF x, N, H, q
<1>3. Intact(pm, mng, granted, root) /\ running \subseteq DOMAIN granted
      /\ ProgramsStand(pm, mng, granted, root, program) /\ \E c : running \subseteq {c}
  BY DEF SMInv, RecordsOk, DeviceOk
<1>4. /\ Outlasts(pm, mng, granted, root, x, N, H, q, running, program)
      /\ \A d \in DOMAIN root : d \in DOMAIN q /\ q[d] = root[d]
  BY <1>2, <1>3, HostOutlasts
<1>5. /\ running \subseteq DOMAIN H /\ \E c \in DOMAIN q : mroot = q[c]
      /\ \A c \in running : mroot = q[c]
      /\ LatchOk(x, H, q, running, latch) /\ ProgramsStand(x, N, H, q, program)
  BY <1>4, DeviceStays
<1>6. RecordsOk'  BY <1>2 DEF RecordsOk, x, N, H, q
<1>7. DeviceOk'  BY <1>2, <1>3, <1>5 DEF DeviceOk, x, N, H, q
<1>8. LatchOk(pm, granted, root, running, latch)'  BY <1>2, <1>5 DEF x, H, q
<1>9. ProgramsStand(pm, mng, granted, root, program)'  BY <1>2, <1>5 DEF x, N, H, q
<1> QED  BY <1>6, <1>7, <1>8, <1>9 DEF SMInv

LEMMA KernelAsksAbove ==
  ASSUME Intact(pm, mng, granted, root), NEW c \in DOMAIN mng, ~KernelAsked(c)
  PROVE  \A i \in 1 .. Len(mng[c]) : mng[c][i].vaddr < BUF_PARA_BASE
<1> TAKE i \in 1 .. Len(mng[c])
<1> DEFINE l == mng[c]
<1>1. l \in Seq(ItemType) /\ i \in 1 .. Len(l)  BY DEF Intact, Registers, Listing
<1> HIDE DEF l
<1>2. l[i] \in ToSet(l) /\ l[i] \in ItemType  BY <1>1, Elements
<1>3. ~(l[i].vaddr >= BUF_PARA_BASE)  BY <1>2 DEF KernelAsked, l
<1> QED  BY <1>2, <1>3, SegmentAssumption DEF l, ItemType

LEMMA UploadProgramStep ==
  ASSUME SMInv, NEW c \in DOMAIN granted, NEW size \in ImageSizes, NEW image \in ImageWords,
         UploadProgram(c, size, image)
  PROVE  SMInv'
<1> DEFINE x == pm'
           N == mng'
           H == granted'
           q == root'
           pr == program'
<1>1. Intact(pm, mng, granted, root) /\ running \subseteq DOMAIN granted
      /\ ProgramsStand(pm, mng, granted, root, program) /\ \E d : running \subseteq {d}
  BY DEF SMInv, RecordsOk, DeviceOk
<1>2. ImageDone(c, size, image)  BY <1>1, UploadOutcome DEF UploadProgram
<1>3. PICK j \in 0 .. Chunks(size) :
        /\ LoadsImage(pm, mng, granted, root, x, N, H, q, c, size, image, j)
        /\ ret' = "ok" => j = Chunks(size)
  BY <1>2 DEF ImageDone, ImageOutcome
<1>4. /\ Intact(x, N, H, q) /\ ret' \in Results /\ view' = Arrays'
      /\ UNCHANGED <<mroot, running, latch>>
      /\ pr = IF ret' = "ok" /\ ~KernelAsked(c)
              THEN [d \in DOMAIN program \cup {c} |->
                      IF d = c THEN <<image, ProgramWords(size)>> ELSE program[d]]
              ELSE program
  BY <1>2 DEF ImageDone, UploadProgram, deviceVars
<1>5. size \in Nat \ {0} /\ Chunks(size) \in Nat \ {0}  BY ClientWords, ChunkNumbers
<1> HIDE DEF x, N, H, q, pr
<1>6. Extended(pm, mng, granted, root, x, N, H, q)  BY <1>1, <1>3, ImageOutlasts
<1>7. Outlasts(pm, mng, granted, root, x, N, H, q, running, program)
  BY <1>1, <1>4, <1>6, ExtendsOutlasts
<1>8. q = root  BY <1>3 DEF LoadsImage
<1>9. /\ running \subseteq DOMAIN H /\ \E d \in DOMAIN q : mroot = q[d]
      /\ \A d \in running : mroot = q[d]
      /\ LatchOk(x, H, q, running, latch) /\ ProgramsStand(x, N, H, q, program)
  BY <1>7, <1>8, DeviceStays
<1>10. ProgramsStand(x, N, H, q, pr)
  <2>1. CASE ret' = "ok" /\ ~KernelAsked(c)
    <3>1. /\ DOMAIN pr = DOMAIN program \cup {c} /\ pr[c] = <<image, ProgramWords(size)>>
          /\ \A d \in DOMAIN program : d # c => pr[d] = program[d]
      BY <1>4, <2>1
    <3>2. j \in Nat \ {0}  BY <1>3, <1>5, <2>1
    <3>3. c \in DOMAIN mng => \A i \in 1 .. Len(mng[c]) : mng[c][i].vaddr < BUF_PARA_BASE
      BY <1>1, <2>1, KernelAsksAbove
    <3>4. c \in DOMAIN H /\ Standing(x, N, H, q, pr, c)
      BY <1>1, <1>3, <1>4, <1>5, <3>1, <3>2, <3>3, ProgramLoaded
    <3>5. \A d \in DOMAIN program : d # c => d \in DOMAIN H /\ Standing(x, N, H, q, pr, d)
      BY <1>9, <3>1 DEF ProgramsStand, Standing
    <3> QED  BY <3>1, <3>4, <3>5 DEF ProgramsStand
  <2>2. CASE ~(ret' = "ok" /\ ~KernelAsked(c))
    <3>1. pr = program  BY <1>4, <2>2
    <3> QED  BY <1>9, <3>1
  <2> QED  BY <2>1, <2>2
<1>11. RecordsOk'  BY <1>4 DEF RecordsOk, x, N, H, q
<1>12. DeviceOk'  BY <1>1, <1>4, <1>9 DEF DeviceOk, x, N, H, q
<1>13. LatchOk(pm, granted, root, running, latch)'  BY <1>4, <1>9 DEF x, H, q
<1>14. ProgramsStand(pm, mng, granted, root, program)'  BY <1>10 DEF x, N, H, q, pr
<1> QED  BY <1>11, <1>12, <1>13, <1>14 DEF SMInv

(* The response stage of the controller stores in the buffer it was asked  *)
(* to store in, whatever the client did meanwhile.                         *)
PerformDone(l, k) ==
  /\ latch = <<l>> /\ l.ctx \in running /\ Meant(pm, granted, root, l, k)
  /\ Intact(pm', mng', granted', root')
  /\ l.w = 0 => KeepsAll(pm, mng, granted, root, pm', mng', granted', root')
  /\ l.w # 0 => /\ StoresWords(pm, mng, granted, root, pm', mng', granted', root',
                               l.ctx, k, l.word, 1, l.w)
                /\ granted[l.ctx][k].vaddr # BUF_PARA_BASE

LEMMA PerformOutcome ==
  ASSUME SMInv, Perform
  PROVE  \E l, k : PerformDone(l, k)
<1>1. /\ Intact(pm, mng, granted, root) /\ running \subseteq DOMAIN granted /\ latch # << >>
  BY DEF SMInv, RecordsOk, DeviceOk, Perform
<1>2. PICK l, k : latch = <<l>> /\ l.ctx \in running /\ Meant(pm, granted, root, l, k)
  BY <1>1 DEF SMInv, LatchOk
<1> DEFINE c == l.ctx
           a == l.word
           w == l.w
           G == granted
           g == G[c][k]
           page == l.page
<1>3. /\ pm' = IF w = 0 THEN pm ELSE WriteData(pm, page, {a % PAGESIZE}, w)
      /\ UNCHANGED <<mng, granted, root>>
  <2>1. latch[1] = l  BY <1>2
  <2> QED  BY <2>1 DEF Perform
<1>4. /\ c \in DOMAIN G /\ k \in 1 .. Len(G[c]) /\ a \in Nat /\ w \in Nat /\ InBuffer(g, a)
      /\ (w # 0 => g.type # "KERNEL_MEM") /\ page = Convert(pm, root[c], a \div PAGESIZE)
  BY <1>1, <1>2 DEF Meant
<1>5. g \in ToSet(G[c]) /\ Buffer(g)  BY <1>1, <1>4, ContextHolds
<1>6. CASE w = 0
  <2>1. KeepsAll(pm, mng, G, root, pm, mng, G, root)  BY KeptSelf DEF KeepsAll
  <2>2. pm' = pm  BY <1>3, <1>6
  <2> QED  BY <1>1, <1>2, <1>3, <1>6, <2>1, <2>2 DEF PerformDone
<1>7. CASE w # 0
  <2> HIDE DEF c, a, w, page, g
  <2>1. page # 0
    <3>1. a \div PAGESIZE \in PagesOfGrant(g)  BY <1>4, <1>5, WordPlace
    <3>2. PICK F : Housed(pm, G, root, F)  BY <1>1 DEF Intact
    <3>3. HasTables(pm, Roots(G, root), F) /\ Lodged(pm, root[c], g, F)
      BY <1>4, <1>5, <3>2 DEF Housed
    <3> QED  BY <1>4, <1>5, <3>1, <3>3, PageHome
  <2> DEFINE y == WriteVirt(pm, root[c], a, 1, w)
  <2>2. y.m = WriteData(pm, page, {a % PAGESIZE}, w)  BY <1>4, <2>1, StoreOne
  <2>3. Inside(g, a, 1)
    <3>1. g.vaddr \in Nat /\ g.size \in Nat  BY <1>5, BufferPlace
    <3> QED  BY <1>4, <3>1 DEF Inside, InBuffer
  <2>4. y = WriteVirt(pm, root[c], a, 1, w) /\ 1 # 0  OBVIOUS
  <2> HIDE DEF y, G
  <2>5. StoreDone(pm, y, mng, G, root, c, a, 1, w)
    <3>1. Intact(pm, mng, G, root)  BY <1>1 DEF G
    <3> QED  BY <1>4, <1>5, <2>3, <2>4, <3>1, StoreCall
  <2>6. pm' = y.m  BY <1>3, <1>7, <2>2
  <2>7. StoresWords(pm, mng, G, root, y.m, mng, G, root, c, k, a, 1, w)
    BY <1>4, <2>3, <2>4, <2>5 DEF StoreDone, StoresWords, g
  <2>8. g.vaddr # BUF_PARA_BASE
    <3>1. g.type \in BufferType /\ g.type # "KERNEL_MEM" /\ g.vaddr \in Nat /\ g.size \in Nat \ {0}
          /\ g.vaddr + g.size <= SegmentEnd(g.type)
      BY <1>4, <1>5, <1>7, BufferPlace DEF Buffer, GrantType, InSegment
    <3>2. SegmentEnd(g.type) = RWDATA_BASE \/ SegmentEnd(g.type) = BUF_PARA_BASE
      BY <3>1 DEF BufferType, SegmentEnd
    <3> QED  BY <3>1, <3>2, SegmentAssumption
  <2> QED
    BY <1>1, <1>2, <1>3, <1>7, <2>5, <2>6, <2>7, <2>8 DEF PerformDone, StoreDone, c, a, w, G, g
<1> QED  BY <1>6, <1>7

LEMMA PerformStep ==
  ASSUME SMInv, Perform
  PROVE  SMInv'
<1>1. PICK l, k : PerformDone(l, k)  BY PerformOutcome
<1> DEFINE x == pm'
           N == mng'
           H == granted'
           q == root'
<1>2. /\ Intact(x, N, H, q) /\ latch' = << >> /\ view' = Arrays'
      /\ UNCHANGED <<root, ret, mroot, running, program>>
  BY <1>1 DEF PerformDone, Perform
<1>3. /\ Intact(pm, mng, granted, root) /\ running \subseteq DOMAIN granted /\ ret \in Results
      /\ ProgramsStand(pm, mng, granted, root, program) /\ \E c : running \subseteq {c}
  BY DEF SMInv, RecordsOk, DeviceOk
<1>4. l.w = 0 => KeepsAll(pm, mng, granted, root, x, N, H, q)  BY <1>1 DEF PerformDone
<1>5. l.w # 0 => /\ StoresWords(pm, mng, granted, root, x, N, H, q, l.ctx, k, l.word, 1, l.w)
                 /\ granted[l.ctx][k].vaddr # BUF_PARA_BASE
  BY <1>1 DEF PerformDone
<1> HIDE DEF x, N, H, q
<1>6. Outlasts(pm, mng, granted, root, x, N, H, q, running, program)
  <2>1. CASE l.w = 0
    <3>1. Extended(pm, mng, granted, root, x, N, H, q)  BY <1>3, <1>4, <2>1, KeepsOutlasts
    <3> QED  BY <1>2, <1>3, <3>1, ExtendsOutlasts
  <2>2. CASE l.w # 0  BY <1>3, <1>5, <2>2, StoresOutlasts
  <2> QED  BY <2>1, <2>2
<1>7. q = root  BY <1>2 DEF q
<1>8. /\ running \subseteq DOMAIN H /\ \E c \in DOMAIN q : mroot = q[c]
      /\ \A c \in running : mroot = q[c]
      /\ LatchOk(x, H, q, running, latch) /\ ProgramsStand(x, N, H, q, program)
  BY <1>6, <1>7, DeviceStays
<1>9. RecordsOk'  BY <1>2, <1>3 DEF RecordsOk, x, N, H, q
<1>10. DeviceOk'  BY <1>2, <1>3, <1>8 DEF DeviceOk, x, N, H, q
<1>11. LatchOk(pm, granted, root, running, latch)'  BY <1>2 DEF LatchOk
<1>12. ProgramsStand(pm, mng, granted, root, program)'  BY <1>2, <1>8 DEF x, N, H, q
<1> QED  BY <1>9, <1>10, <1>11, <1>12 DEF SMInv

LEMMA StillTheSame ==
  ASSUME SMInv, UNCHANGED <<dVars, program>>
  PROVE  RecordsOk' /\ ProgramsStand(pm, mng, granted, root, program)'
<1>1. /\ pm' = pm /\ mng' = mng /\ granted' = granted /\ root' = root /\ ret' = ret
      /\ view' = view /\ program' = program
  BY DEF dVars
<1>2. Arrays' = Arrays  BY <1>1 DEF Arrays, ArrayOf
<1>3. RecordsOk /\ ProgramsStand(pm, mng, granted, root, program)  BY DEF SMInv
<1> QED  BY <1>1, <1>2, <1>3 DEF RecordsOk

LEMMA AccessStep ==
  ASSUME SMInv, NEW c \in DOMAIN granted, NEW g \in ToSet(granted[c]), NEW i \in 0 .. g.size - 1,
         NEW w \in Nat, Access(c, g, i, w)
  PROVE  SMInv'
<1>1. /\ pm' = pm /\ mng' = mng /\ granted' = granted /\ root' = root /\ UNCHANGED <<dVars, program>>
      /\ mroot' = mroot /\ running' = running
  BY DEF Access, dVars
<1>2. RecordsOk' /\ ProgramsStand(pm, mng, granted, root, program)'  BY <1>1, StillTheSame
<1>3. Intact(pm, mng, granted, root) /\ DeviceOk  BY DEF SMInv, RecordsOk
<1>4. DeviceOk'  BY <1>1, <1>3 DEF DeviceOk
<1> DEFINE a == g.vaddr + i
           l == [ctx |-> c, word |-> a, w |-> w, page |-> Convert(pm, mroot, a \div PAGESIZE)]
<1>5. latch' = <<l>> /\ c \in running /\ (w # 0 => g.type # "KERNEL_MEM") /\ mroot = root[c]
  BY <1>3 DEF Access, DeviceOk
<1>6. PICK k \in 1 .. Len(granted[c]) : granted[c][k] = g  BY <1>3, ContextHolds
<1>7. a \in Nat /\ InBuffer(g, a)
  <2>1. g.vaddr \in Nat /\ g.size \in Nat  BY <1>3, ContextHolds, BufferPlace
  <2> QED  BY <2>1 DEF InBuffer
<1>8. l.ctx = c /\ l.word = a /\ l.w = w /\ l.page = Convert(pm, root[c], a \div PAGESIZE)
  BY <1>5
<1> HIDE DEF l, a
<1>9. Meant(pm, granted, root, l, k)  BY <1>5, <1>6, <1>7, <1>8 DEF Meant
<1>10. LatchOk(pm, granted, root, running, latch')  BY <1>5, <1>8, <1>9 DEF LatchOk
<1>11. LatchOk(pm, granted, root, running, latch)'  BY <1>1, <1>10
<1> QED  BY <1>2, <1>4, <1>11 DEF SMInv

LEMMA StartStep ==
  ASSUME SMInv, NEW c \in DOMAIN granted, StartKernel(c)
  PROVE  SMInv'
<1>1. /\ pm' = pm /\ mng' = mng /\ granted' = granted /\ root' = root /\ UNCHANGED <<dVars, program>>
      /\ mroot' = root[c] /\ running' = {c} /\ running \subseteq {c} /\ latch' = latch
  BY DEF StartKernel, dVars
<1>2. RecordsOk' /\ ProgramsStand(pm, mng, granted, root, program)'  BY <1>1, StillTheSame
<1>3. c \in DOMAIN root  BY DEF SMInv, RecordsOk, Intact, Registers
<1>4. DeviceOk'  BY <1>1, <1>3 DEF DeviceOk
<1>5. LatchOk(pm, granted, root, running, latch)  BY DEF SMInv
<1>6. LatchOk(pm, granted, root, running, latch)'  BY <1>1, <1>5 DEF LatchOk
<1> QED  BY <1>2, <1>4, <1>6 DEF SMInv

LEMMA FinishStep ==
  ASSUME SMInv, NEW c \in DOMAIN granted, FinishKernel(c)
  PROVE  SMInv'
<1>1. /\ pm' = pm /\ mng' = mng /\ granted' = granted /\ root' = root /\ UNCHANGED <<dVars, program>>
      /\ mroot' = mroot /\ running' = {} /\ latch' = << >>
  BY DEF FinishKernel, dVars
<1>2. RecordsOk' /\ ProgramsStand(pm, mng, granted, root, program)'  BY <1>1, StillTheSame
<1>3. DeviceOk'  BY <1>1 DEF DeviceOk, SMInv
<1>4. LatchOk(pm, granted, root, running, latch)'  BY <1>1 DEF LatchOk
<1> QED  BY <1>2, <1>3, <1>4 DEF SMInv

LEMMA SMStep ==
  ASSUME SMInv, [SMNext]_smVars
  PROVE  SMInv'
<1>1. CASE HostCalls  BY <1>1, HostCallsStep
<1>2. ASSUME NEW c \in DOMAIN granted, NEW size \in ImageSizes, NEW image \in ImageWords,
             UploadProgram(c, size, image)
      PROVE  SMInv'
  BY <1>2, UploadProgramStep
<1>3. ASSUME NEW c \in DOMAIN granted, StartKernel(c) PROVE SMInv'  BY <1>3, StartStep
<1>4. ASSUME NEW c \in DOMAIN granted, FinishKernel(c) PROVE SMInv'  BY <1>4, FinishStep
<1>5. ASSUME NEW c \in DOMAIN granted, NEW g \in ToSet(granted[c]),
             NEW i \in AccessAt \cap 0 .. g.size - 1, NEW w \in Words \ ({JunkWord} \cup ImageWords),
             Access(c, g, i, w)
      PROVE  SMInv'
  <2>1. i \in 0 .. g.size - 1 /\ w \in Nat  BY PhysicalAssumption
  <2> QED  BY <1>5, <2>1, AccessStep
<1>6. CASE Perform  BY <1>6, PerformStep
<1>7. CASE UNCHANGED smVars
  <2>1. UNCHANGED <<dVars, program>> /\ UNCHANGED <<pm, mng, granted, root, mroot, running, latch>>
    BY <1>7 DEF smVars, dVars
  <2>2. RecordsOk' /\ ProgramsStand(pm, mng, granted, root, program)'  BY <2>1, StillTheSame
  <2>3. DeviceOk' /\ LatchOk(pm, granted, root, running, latch)'  BY <2>1 DEF SMInv, DeviceOk
  <2> QED  BY <2>2, <2>3 DEF SMInv
<1> QED  BY <1>1, <1>2, <1>3, <1>4, <1>5, <1>6, <1>7 DEF SMNext

-----------------------------------------------------------------------------
(* vt_set_device asks for context 0: the page behind the reserved ones is  *)
(* its root.                                                               *)
LEMMA FirstRoot == Usable(InitialMemory, 1) = Reserved
<1> DEFINE m == InitialMemory
           b == Block(0, Reserved)
           e == Block(MaxRange, 1)
<1>1. m.blocks = <<b, e>>  BY DEF InitialMemory
<1>2. SafeMemory(m)  BY InitialSafe
<1>3. BlockEnd(b) = Reserved /\ e.addr = MaxRange
  BY PhysicalAssumption DEF Block, BlockEnd
<1>4. Reserved \in Nat /\ MaxRange \in Nat /\ 0 < Reserved /\ Reserved + 1 <= MaxRange
  BY PhysicalAssumption, DriverAssumption
<1> HIDE DEF m, b, e
<1>5. Len(m.blocks) = 2 /\ m.blocks[1] = b /\ m.blocks[2] = e  BY <1>1
<1>6. TypedIn(m, Words) /\ Ordered(m)  BY <1>2 DEF SafeMemory
<1>7. Reached(m, 1) = Reserved
  <2>1. 1 \in 1 .. Len(m.blocks)  BY <1>5
  <2> QED  BY <1>3, <1>5, <1>6, <2>1, ReachedIsEnd
<1> DEFINE G == Gaps(m, 1)
<1>8. G = {1}
  <2>1. 1 .. Len(m.blocks) - 1 = {1}  BY <1>5
  <2>2. m.blocks[1 + 1].addr = MaxRange  BY <1>3, <1>5
  <2>3. MaxRange > Reached(m, 1) + 1 - 1  BY <1>4, <1>7
  <2> QED  BY <2>1, <2>2, <2>3 DEF Gaps
<1>9. Min(G) = 1  BY <1>8 DEF Min
<1>10. Usable(m, 1) = Reserved  BY <1>4, <1>7, <1>8, <1>9 DEF Usable
<1> QED  BY <1>10 DEF m

LEMMA SMInitial == SMInit => SMInv
<1> SUFFICES ASSUME SMInit PROVE SMInv  OBVIOUS
<1> DEFINE m == InitialMemory
           M == [c \in {} |-> << >>]
           W == [c \in {} |-> 0]
           a == Reserved
<1>1. /\ pm = InsertBlock(m, Usable(m, 1), 1, "crash") /\ mng = [c \in {0} |-> << >>]
      /\ granted = [c \in {0} |-> << >>] /\ root = [c \in {0} |-> Usable(m, 1)]
      /\ ret = "ok" /\ view = Arrays
      /\ mroot = Reserved /\ running = {} /\ latch = << >> /\ program = [c \in {} |-> <<0, 0>>]
  BY DEF SMInit, DInit
<1>2. a = Usable(m, 1) /\ a # 0 /\ a \in Nat /\ 0 \in Contexts
  BY FirstRoot, PhysicalAssumption, DriverAssumption
<1>3. pm = CreateRootPt(m, "crash")  BY <1>1, <1>2 DEF CreateRootPt
<1>4. DOMAIN M = {} /\ DOMAIN W = {}  OBVIOUS
<1>5. mng = CreateNewContext(M, 0) /\ granted = CreateNewContext(M, 0)
  BY <1>1 DEF CreateNewContext
<1>6. root = WithRoot(W, 0, a)  BY <1>1, <1>2 DEF WithRoot
<1>7. m.cur # 0  BY DEF InitialMemory
<1>8. HasTables(m, {}, FrameBlocks)  BY InitialTables
<1> HIDE DEF m, M, W, a
<1>9. Intact(m, M, M, W)
  <2>1. Registers(M, M, W)  BY <1>4 DEF Registers
  <2>2. OnlyListed(m, M, M, W)  BY <1>4 DEF OnlyListed
  <2>3. Roots(M, W) = {}  BY <1>4 DEF Roots
  <2>4. Housed(m, M, W, FrameBlocks)  BY <1>4, <1>8, <2>3 DEF Housed
  <2> QED  BY <2>1, <2>2, <2>4 DEF Intact
<1>10. 0 \in Contexts \ DOMAIN W  BY <1>2, <1>4
<1>11. granted = IF a = 0 THEN M ELSE CreateNewContext(M, 0)  BY <1>2, <1>5
<1>12. Intact(pm, mng, granted, root)
  BY <1>2, <1>3, <1>5, <1>6, <1>7, <1>9, <1>10, <1>11, NewContextCall
<1>13. RecordsOk  BY <1>1, <1>12 DEF RecordsOk, Results
<1>14. DeviceOk
  <2>1. 0 \in DOMAIN root /\ mroot = root[0]  BY <1>1, <1>2 DEF m, a
  <2> QED  BY <1>1, <2>1 DEF DeviceOk
<1>15. LatchOk(pm, granted, root, running, latch)  BY <1>1 DEF LatchOk
<1>16. ProgramsStand(pm, mng, granted, root, program)  BY <1>1 DEF ProgramsStand
<1> QED  BY <1>13, <1>14, <1>15, <1>16 DEF SMInv

-----------------------------------------------------------------------------
(* What the invariant says of the properties the runs check.               *)
LEMMA InvWellTyped == SMInv => SMTypeOK
<1> SUFFICES ASSUME SMInv PROVE SMTypeOK  OBVIOUS
<1>1. Registers(mng, granted, root) /\ ret \in Results /\ DeviceOk
  BY DEF SMInv, RecordsOk, Intact
<1>2. DTypeOK  BY <1>1 DEF DTypeOK, Registers, Results
<1>3. Cardinality(running) <= 1
  <2>1. PICK c : running \subseteq {c}  BY <1>1 DEF DeviceOk
  <2>2. running = {} \/ running = {c}  BY <2>1
  <2>3. CASE running = {}
    <3>1. Cardinality(running) = 0  BY <2>3, FS_EmptySet
    <3> QED  BY <3>1
  <2>4. CASE running = {c}
    <3>1. Cardinality(running) = 1  BY <2>4, FS_Singleton
    <3> QED  BY <3>1
  <2> QED  BY <2>2, <2>3, <2>4
<1>4. mroot \in {root[c] : c \in DOMAIN root}  BY <1>1 DEF DeviceOk
<1>5. latch # << >> => latch[1].ctx \in running
  <2>1. ASSUME NEW l, latch = <<l>>, l.ctx \in running PROVE latch[1].ctx \in running  BY <2>1
  <2> QED  BY <2>1 DEF SMInv, LatchOk
<1> QED  BY <1>1, <1>2, <1>3, <1>4, <1>5 DEF SMTypeOK, DeviceOk

LEMMA IntervalSize ==
  ASSUME NEW a \in Nat, NEW n \in Nat \ {0}
  PROVE  IsFiniteSet(a .. a + n - 1) /\ Cardinality(a .. a + n - 1) = n
<1> DEFINE b == a + n - 1
<1>1. b \in Nat /\ a <= b /\ b - a + 1 = n  OBVIOUS
<1> HIDE DEF b
<1>2. IsFiniteSet(a .. b) /\ Cardinality(a .. b) = b - a + 1  BY <1>1, FS_Interval
<1>3. IsFiniteSet(a .. b) /\ Cardinality(a .. b) = n  BY <1>1, <1>2
<1> QED  BY <1>3 DEF b

(* The pages of a buffer: a run of pages with content.                     *)
LEMMA PagesReached ==
  ASSUME NEW R, NEW F, HasTables(pm, R, F), NEW c, NEW g, Buffer(g), Lodged(pm, root[c], g, F)
  PROVE  /\ BufferPages(c, g) = {Convert(pm, root[c], u) : u \in PagesOfGrant(g)}
         /\ BufferPages(c, g) \subseteq DOMAIN pm.pages
         /\ Cardinality(BufferPages(c, g)) = NumPages(g.size)
<1> DEFINE r == root[c]
           P == {Convert(pm, r, u) : u \in PagesOfGrant(g)}
           h == Convert(pm, r, FirstPage(g))
           f == FirstPage(g)
           n == NumPages(g.size)
<1>1. BufferPages(c, g) = P  BY DEF BufferPages, PagesOfGrant
<1>2. P \subseteq DOMAIN pm.pages  BY PageHome
<1>3. f \in Nat /\ n \in Nat \ {0} /\ PagesOfGrant(g) = f .. f + n - 1  BY BufferPlace
<1>4. h \in Nat  BY DEF Lodged
<1>5. \A u \in PagesOfGrant(g) : Convert(pm, r, u) = h + (u - f)  BY PageHome
<1>6. P = {h + (u - f) : u \in f .. f + n - 1}  BY <1>3, <1>5
<1> HIDE DEF P, h, f, n
<1>7. P = h .. h + n - 1
  <2>1. ASSUME NEW p \in h .. h + n - 1 PROVE p \in {h + (u - f) : u \in f .. f + n - 1}
    <3>1. f + (p - h) \in f .. f + n - 1 /\ p = h + ((f + (p - h)) - f)  BY <1>3, <1>4
    <3> QED  BY <3>1
  <2>2. ASSUME NEW u \in f .. f + n - 1 PROVE h + (u - f) \in h .. h + n - 1
    BY <1>3, <1>4
  <2> QED  BY <1>6, <2>1, <2>2
<1>8. Cardinality(P) = n  BY <1>3, <1>4, <1>7, IntervalSize
<1>9. BufferPages(c, g) = P /\ P \subseteq DOMAIN pm.pages /\ Cardinality(P) = NumPages(g.size)
  BY <1>1, <1>2, <1>8 DEF n
<1> QED  BY <1>9 DEF P

ReachedApart(c, i, d, j, g, h) ==
  /\ BufferPages(c, g) \subseteq DOMAIN pm.pages
  /\ Cardinality(BufferPages(c, g)) = NumPages(g.size)
  /\ <<c, i>> # <<d, j>> => BufferPages(c, g) \cap BufferPages(d, h) = {}

LEMMA ReachableApart ==
  ASSUME SMInv, NEW c \in DOMAIN granted, NEW d \in DOMAIN granted,
         NEW i \in 1 .. Len(granted[c]), NEW j \in 1 .. Len(granted[d]),
         NEW g, g = granted[c][i], NEW h, h = granted[d][j]
  PROVE  ReachedApart(c, i, d, j, g, h)
<1>1. Intact(pm, mng, granted, root)  BY DEF SMInv, RecordsOk
<1>2. PICK F : Housed(pm, granted, root, F)  BY <1>1 DEF Intact
<1>3. /\ g \in ToSet(granted[c]) /\ h \in ToSet(granted[d]) /\ Buffer(g) /\ Buffer(h)
      /\ Granting(granted[c])
  BY <1>1, ContextHolds
<1>4. /\ HasTables(pm, Roots(granted, root), F)
      /\ Lodged(pm, root[c], g, F) /\ Lodged(pm, root[d], h, F)
  BY <1>2, <1>3 DEF Housed
<1>5. /\ BufferPages(c, g) = {Convert(pm, root[c], u) : u \in PagesOfGrant(g)}
      /\ BufferPages(c, g) \subseteq DOMAIN pm.pages
      /\ Cardinality(BufferPages(c, g)) = NumPages(g.size)
  BY <1>3, <1>4, PagesReached
<1>6. BufferPages(d, h) = {Convert(pm, root[d], u) : u \in PagesOfGrant(h)}
  BY <1>3, <1>4, PagesReached
<1>7. HoldsBuffers(granted)  BY <1>1, AllBuffers DEF Intact
<1>8. ASSUME NEW p, p \in BufferPages(c, g), p \in BufferPages(d, h)
      PROVE  c = d /\ i = j
  <2>1. PICK u \in PagesOfGrant(g) : p = Convert(pm, root[c], u)  BY <1>5, <1>8
  <2>2. PICK v \in PagesOfGrant(h) : p = Convert(pm, root[d], v)  BY <1>6, <1>8
  <2>3. Convert(pm, root[c], u) = Convert(pm, root[d], v)  BY <2>1, <2>2
  <2>4. c = d /\ g = h /\ u = v  BY <1>2, <1>3, <1>7, <2>3, PageOwner
  <2>5. i # j => PagesOfGrant(g) \cap PagesOfGrant(h) = {}  BY <1>3, <2>4 DEF Granting
  <2> QED  BY <2>4, <2>5
<1> QED  BY <1>5, <1>8 DEF ReachedApart

LEMMA InvReachable == SMInv => BuffersReachable
<1> SUFFICES ASSUME SMInv PROVE BuffersReachable  OBVIOUS
<1>1. ASSUME NEW c \in DOMAIN granted, NEW d \in DOMAIN granted,
             NEW i \in 1 .. Len(granted[c]), NEW j \in 1 .. Len(granted[d])
      PROVE  ReachedApart(c, i, d, j, granted[c][i], granted[d][j])
  BY ReachableApart
<1> QED  BY <1>1 DEF BuffersReachable, ReachedApart

LEMMA InvLatch == SMInv => LatchRight
<1> SUFFICES ASSUME SMInv, NEW i \in DOMAIN latch
             PROVE  /\ latch[i].page \in DOMAIN pm.pages
                    /\ latch[i].page = Convert(pm, root[latch[i].ctx], latch[i].word \div PAGESIZE)
  BY DEF LatchRight
<1>1. Intact(pm, mng, granted, root)  BY DEF SMInv, RecordsOk
<1>2. PICK l : latch = <<l>> /\ l.ctx \in running /\ \E k : Meant(pm, granted, root, l, k)
  BY DEF SMInv, LatchOk
<1>3. latch[i] = l  BY <1>2
<1>4. PICK k : Meant(pm, granted, root, l, k)  BY <1>2
<1> DEFINE c == l.ctx
           u == l.word \div PAGESIZE
<1>5. c \in DOMAIN granted  BY <1>2 DEF SMInv, DeviceOk
<1>6. PICK F : Housed(pm, granted, root, F)  BY <1>1 DEF Intact
<1>7. PICK g \in ToSet(granted[c]) : g = granted[c][k]  BY <1>1, <1>4, <1>5, ContextHolds DEF Meant
<1>8. Buffer(g) /\ u \in PagesOfGrant(g) /\ l.page = Convert(pm, root[c], u)
  BY <1>1, <1>4, <1>5, <1>7, ContextHolds, WordPlace DEF Meant
<1>9. HasTables(pm, Roots(granted, root), F) /\ Lodged(pm, root[c], g, F)
  BY <1>5, <1>6 DEF Housed
<1> HIDE DEF c, u
<1>10. Convert(pm, root[c], u) \in DOMAIN pm.pages  BY <1>8, <1>9, PageHome
<1> QED  BY <1>3, <1>8, <1>10 DEF c, u

(* A context whose root page was refused has no tables.                    *)
LEMMA NoRootNoWay ==
  ASSUME NEW m, Backed(m), NEW v
  PROVE  Convert(m, 0, v) = 0
<1>1. 0 \notin DOMAIN m.pages  BY PhysicalAssumption DEF Backed
<1>2. NextTable(m, 0, VAextract(v, 0)) = 0  BY <1>1 DEF NextTable, Entry, ReadWord, PTE2PA
<1> QED  BY <1>2 DEF Convert

LEMMA InvNoStale == SMInv => NoStaleLeaf
<1> SUFFICES ASSUME SMInv, NEW c \in DOMAIN mng, NEW v \in VPages,
                    Convert(pm, root[c], v) # 0
             PROVE  \E item \in ToSet(mng[c]) : v \in PagesOfGrant(item)
  BY DEF NoStaleLeaf, PagesOfGrant
<1>1. Registers(mng, granted, root) /\ OnlyListed(pm, mng, granted, root)
      /\ \E F : Housed(pm, granted, root, F)
  BY DEF SMInv, RecordsOk, Intact
<1>2. CASE c \in DOMAIN granted
  <2>1. PICK i \in 1 .. Len(mng[c]) : v \in PagesOfGrant(mng[c][i])
    BY <1>1, <1>2 DEF OnlyListed
  <2>2. mng[c] \in Seq(ItemType)  BY <1>1 DEF Registers, Listing
  <2>3. mng[c][i] \in ToSet(mng[c])  BY <2>2, Elements
  <2> QED  BY <2>1, <2>3
<1>3. CASE c \notin DOMAIN granted
  <2>1. root[c] = 0  BY <1>1, <1>3 DEF Registers
  <2>2. Backed(pm)  BY <1>1 DEF Housed, HasTables, Tables, MemOK
  <2> QED  BY <2>1, <2>2, NoRootNoWay
<1> QED  BY <1>2, <1>3

LEMMA InvProgram == SMInv => ProgramAtPc
<1> SUFFICES ASSUME SMInv, NEW c \in running \cap DOMAIN program, NEW g \in ToSet(granted[c]),
                    g.vaddr = BUF_PARA_BASE, NEW i \in 0 .. program[c][2] - 1
             PROVE  ReadVirt(pm, mroot, BUF_PARA_BASE + i) = program[c][1]
  BY DEF ProgramAtPc
<1>1. mroot = root[c]  BY DEF SMInv, DeviceOk
<1>2. Standing(pm, mng, granted, root, program, c)  BY DEF SMInv, ProgramsStand
<1>3. g \in AtBase(granted[c])  BY DEF AtBase
<1>4. HoldsProgram(pm, root[c], g, program[c])  BY <1>2, <1>3 DEF Standing
<1> QED  BY <1>1, <1>4 DEF HoldsProgram

-----------------------------------------------------------------------------
(* driver.h, memory.h, page.h and addr::Manager together: contexts, roots  *)
(* and results are well typed, and the device runs kernels of one context  *)
(* with its root (SMTypeOK).                                               *)
THEOREM SharedTyped == SMSpec => []SMTypeOK
BY SMInitial, SMStep, InvWellTyped, PTL DEF SMSpec

(* vt_malloc, vt_memcopy: a copy inside a granted buffer never meets an    *)
(* unmapped page, and no physical page is reached through two buffers, of  *)
(* whatever contexts (BuffersReachable).                                   *)
THEOREM BuffersApart == SMSpec => []BuffersReachable
BY SMInitial, SMStep, InvReachable, PTL DEF SMSpec

(* processor.h get_ram_bits_port: the physical address a kernel's access   *)
(* was given is the right one when the controller performs it, whatever    *)
(* was called in between (LatchRight).                                     *)
THEOREM LatchStaysRight == SMSpec => []LatchRight
BY SMInitial, SMStep, InvLatch, PTL DEF SMSpec

(* memory.h release leaves entries valid; the tables of a context in which *)
(* buffers can be asked for map listed buffers only (NoStaleLeaf).         *)
THEOREM NoStaleEntries == SMSpec => []NoStaleLeaf
BY SMInitial, SMStep, InvNoStale, PTL DEF SMSpec

(* ventus.cc vt_upload_kernel_bytes: where kernels start, the device finds *)
(* the first program uploaded to the running context (ProgramAtPc).        *)
THEOREM ProgramStaysAtPc == SMSpec => []ProgramAtPc
BY SMInitial, SMStep, InvProgram, PTL DEF SMSpec

-----------------------------------------------------------------------------
(* The refinement: what the client's buffers are as arrays.                *)
ArrayAt(m, r, g) == [i \in 1 .. g.size |-> ReadVirt(m, r, g.vaddr + i - 1)]
ArraysOf(m, G, rt) == [c \in DOMAIN G |-> [k \in 1 .. Len(G[c]) |-> ArrayAt(m, rt[c], G[c][k])]]

LEMMA ArraysAre == Arrays = ArraysOf(pm, granted, root)
BY DEF Arrays, ArrayOf, ArraysOf, ArrayAt

Arrayed(A, m, G, rt) ==
  /\ DOMAIN A = DOMAIN G /\ A = [c \in DOMAIN G |-> A[c]]
  /\ \A c \in DOMAIN G :
       /\ Len(G[c]) \in Nat /\ Len(A[c]) = Len(G[c])
       /\ A[c] \in Seq({A[c][k] : k \in 1 .. Len(G[c])})
       /\ \A k \in 1 .. Len(G[c]) : A[c][k] = ArrayAt(m, rt[c], G[c][k])

LEMMA ArraysFrom ==
  ASSUME NEW m, NEW M, NEW G, NEW rt, Intact(m, M, G, rt), NEW A, A = ArraysOf(m, G, rt)
  PROVE  Arrayed(A, m, G, rt)
<1>1. DOMAIN A = DOMAIN G /\ A = [c \in DOMAIN G |-> A[c]]  BY DEF ArraysOf
<1>2. ASSUME NEW c \in DOMAIN G
      PROVE  /\ Len(G[c]) \in Nat /\ Len(A[c]) = Len(G[c])
             /\ A[c] \in Seq({A[c][k] : k \in 1 .. Len(G[c])})
             /\ \A k \in 1 .. Len(G[c]) : A[c][k] = ArrayAt(m, rt[c], G[c][k])
  <2> DEFINE n == Len(G[c])
             s == A[c]
             S == {s[k] : k \in 1 .. n}
  <2>1. n \in Nat  BY ContextHolds
  <2>2. s = [k \in 1 .. n |-> ArrayAt(m, rt[c], G[c][k])]  BY DEF ArraysOf
  <2> HIDE DEF n, s
  <2>3. s \in [1 .. n -> S]  BY <2>2
  <2> HIDE DEF S
  <2>4. s \in Seq(S) /\ Len(s) = n  BY <2>1, <2>3
  <2>5. \A k \in 1 .. n : s[k] = ArrayAt(m, rt[c], G[c][k])  BY <2>2
  <2> QED  BY <2>1, <2>4, <2>5 DEF n, s, S
<1> QED  BY <1>1, <1>2 DEF Arrayed

LEMMA SeqSame ==
  ASSUME NEW S, NEW s \in Seq(S), NEW T, NEW t \in Seq(T), Len(s) = Len(t),
         \A i \in 1 .. Len(s) : s[i] = t[i]
  PROVE  s = t
<1>1. /\ s \in [1 .. Len(s) -> S] /\ t \in [1 .. Len(t) -> T]  BY LenProperties
<1> QED  BY <1>1

(* Words that are read as before are an array as before.                   *)
LEMMA SameArray ==
  ASSUME NEW g, Buffer(g), NEW m, NEW x, NEW r, SameWords(m, x, r, g)
  PROVE  ArrayAt(x, r, g) = ArrayAt(m, r, g)
<1>1. g.vaddr \in Nat /\ g.size \in Nat  BY BufferPlace
<1>2. ASSUME NEW i \in 1 .. g.size
      PROVE  ReadVirt(x, r, g.vaddr + i - 1) = ReadVirt(m, r, g.vaddr + i - 1)
  <2> DEFINE a == g.vaddr + i - 1
  <2>1. a \in Nat /\ InBuffer(g, a)  BY <1>1 DEF InBuffer
  <2> HIDE DEF a
  <2>2. ReadVirt(x, r, a) = ReadVirt(m, r, a)  BY <2>1 DEF SameWords
  <2> QED  BY <2>2 DEF a
<1> QED  BY <1>2 DEF ArrayAt

(* One entry of a table of arrays changes.                                 *)
LEMMA OneEntry ==
  ASSUME NEW D, NEW A, A = [d \in D |-> A[d]], NEW B, B = [d \in D |-> B[d]],
         NEW c \in D, \A d \in D : d # c => B[d] = A[d]
  PROVE  B = [A EXCEPT ![c] = B[c]]
OBVIOUS

(* A buffer that is kept is the array it was, wherever it is listed.       *)
LEMMA SameElement ==
  ASSUME NEW m, NEW M, NEW G, NEW rt, Intact(m, M, G, rt), NEW A, Arrayed(A, m, G, rt),
         NEW x, NEW H, NEW q, NEW B, Arrayed(B, x, H, q),
         NEW c \in DOMAIN G, c \in DOMAIN H, q[c] = rt[c],
         NEW k \in 1 .. Len(G[c]), NEW j \in 1 .. Len(H[c]), H[c][j] = G[c][k],
         SameWords(m, x, rt[c], G[c][k])
  PROVE  B[c][j] = A[c][k]
<1>1. Buffer(G[c][k])  BY ContextHolds
<1>2. ArrayAt(x, rt[c], G[c][k]) = ArrayAt(m, rt[c], G[c][k])  BY <1>1, SameArray
<1>3. A[c][k] = ArrayAt(m, rt[c], G[c][k])  BY DEF Arrayed
<1>4. B[c][j] = ArrayAt(x, q[c], H[c][j])  BY DEF Arrayed
<1> QED  BY <1>2, <1>3, <1>4

(* A context whose buffers are kept holds the arrays it held.              *)
LEMMA ContextSame ==
  ASSUME NEW m, NEW M, NEW G, NEW rt, Intact(m, M, G, rt), NEW A, Arrayed(A, m, G, rt),
         NEW x, NEW H, NEW q, NEW B, Arrayed(B, x, H, q),
         NEW c \in DOMAIN G, c \in DOMAIN H, H[c] = G[c], q[c] = rt[c],
         \A g \in ToSet(G[c]) : SameWords(m, x, rt[c], g)
  PROVE  B[c] = A[c]
<1>1. ASSUME NEW k \in 1 .. Len(G[c]) PROVE B[c][k] = A[c][k]
  <2>1. SameWords(m, x, rt[c], G[c][k])  BY ContextHolds
  <2>2. k \in 1 .. Len(H[c]) /\ H[c][k] = G[c][k]  OBVIOUS
  <2> QED  BY <2>1, <2>2, SameElement
<1>2. Len(A[c]) = Len(G[c]) /\ Len(B[c]) = Len(G[c])  BY DEF Arrayed
<1>3. A[c] \in Seq({A[c][k] : k \in 1 .. Len(G[c])})  BY DEF Arrayed
<1>4. B[c] \in Seq({B[c][k] : k \in 1 .. Len(H[c])})  BY DEF Arrayed
<1> QED  BY <1>1, <1>2, <1>3, <1>4, SeqSame

LEMMA KeepsArrays ==
  ASSUME NEW m, NEW M, NEW G, NEW rt, Intact(m, M, G, rt), NEW A, Arrayed(A, m, G, rt),
         NEW x, NEW N, NEW H, NEW q, NEW B, Arrayed(B, x, H, q),
         KeepsAll(m, M, G, rt, x, N, H, q)
  PROVE  B = A
<1>1. H = G /\ q = rt /\ Kept(m, x, G, rt)  BY DEF KeepsAll
<1>2. ASSUME NEW c \in DOMAIN G PROVE B[c] = A[c]
  <2>1. \A g \in ToSet(G[c]) : SameWords(m, x, rt[c], g)  BY <1>1 DEF Kept
  <2> QED  BY <1>1, <2>1, ContextSame
<1> QED  BY <1>1, <1>2 DEF Arrayed

(* A context more, with no array, or, without a page for its root, nothing *)
(* the client sees.                                                        *)
MoreContexts(A, B, c) ==
  c \notin DOMAIN A /\ B = [d \in DOMAIN A \cup {c} |-> IF d = c THEN << >> ELSE A[d]]

LEMMA ContextArrays ==
  ASSUME NEW m, NEW M, NEW G, NEW rt, Intact(m, M, G, rt), NEW A, Arrayed(A, m, G, rt),
         NEW x, NEW N, NEW H, NEW q, Intact(x, N, H, q), NEW B, Arrayed(B, x, H, q),
         NEW c, NEW a, AddsContext(m, M, G, rt, x, N, H, q, c, a)
  PROVE  B = A \/ MoreContexts(A, B, c)
<1>1. /\ c \notin DOMAIN rt /\ q = WithRoot(rt, c, a) /\ Kept(m, x, G, rt)
      /\ H = IF a = 0 THEN G ELSE CreateNewContext(G, c)
      /\ DOMAIN G \subseteq DOMAIN rt
  BY DEF AddsContext, Intact, Registers
<1>2. ASSUME NEW d \in DOMAIN G PROVE d # c /\ d \in DOMAIN H /\ B[d] = A[d]
  <2>1. d # c /\ q[d] = rt[d]  BY <1>1 DEF WithRoot
  <2>2. d \in DOMAIN H /\ H[d] = G[d]  BY <1>1, <2>1 DEF CreateNewContext
  <2>3. \A g \in ToSet(G[d]) : SameWords(m, x, rt[d], g)  BY <1>1 DEF Kept
  <2> QED  BY <2>1, <2>2, <2>3, ContextSame
<1>3. CASE a = 0
  <2>1. H = G  BY <1>1, <1>3
  <2> QED  BY <1>2, <2>1 DEF Arrayed
<1>4. CASE a # 0
  <2>1. DOMAIN H = DOMAIN G \cup {c} /\ H[c] = << >>  BY <1>1, <1>4 DEF CreateNewContext
  <2>2. B[c] = << >>
    <3>1. Len(B[c]) = 0 /\ B[c] \in Seq({B[c][k] : k \in 1 .. Len(H[c])})
      BY <2>1 DEF Arrayed
    <3> QED  BY <3>1
  <2>3. /\ DOMAIN A = DOMAIN G /\ DOMAIN B = DOMAIN A \cup {c}
        /\ B = [d \in DOMAIN A \cup {c} |-> B[d]]
    BY <2>1 DEF Arrayed
  <2>4. \A d \in DOMAIN A \cup {c} : B[d] = IF d = c THEN << >> ELSE A[d]
    BY <1>2, <2>2, <2>3
  <2>5. c \notin DOMAIN A  BY <1>1, <2>3
  <2> QED  BY <2>3, <2>4, <2>5 DEF MoreContexts
<1> QED  BY <1>3, <1>4

(* A call in one context leaves the arrays of the others.                  *)
LEMMA OneContext ==
  ASSUME NEW m, NEW M, NEW G, NEW rt, Intact(m, M, G, rt), NEW A, Arrayed(A, m, G, rt),
         NEW x, NEW H, NEW q, q = rt, NEW B, Arrayed(B, x, H, q),
         NEW c \in DOMAIN G, AlikeElsewhere(G, H, c),
         \A d \in DOMAIN G : d # c => \A g \in ToSet(G[d]) : SameWords(m, x, rt[d], g)
  PROVE  B = [A EXCEPT ![c] = B[c]]
<1>1. DOMAIN H = DOMAIN G /\ \A d \in DOMAIN G : d # c => H[d] = G[d]  BY DEF AlikeElsewhere
<1>2. ASSUME NEW d \in DOMAIN G, d # c PROVE B[d] = A[d]
  <2>1. d \in DOMAIN H /\ H[d] = G[d] /\ q[d] = rt[d]  BY <1>1, <1>2
  <2>2. \A g \in ToSet(G[d]) : SameWords(m, x, rt[d], g)  BY <1>2
  <2> QED  BY <2>1, <2>2, ContextSame
<1>3. A = [d \in DOMAIN G |-> A[d]]  BY DEF Arrayed
<1>4. B = [d \in DOMAIN G |-> B[d]]  BY <1>1 DEF Arrayed
<1> QED  BY <1>2, <1>3, <1>4, OneEntry

-----------------------------------------------------------------------------
(* vt_malloc: an array of zeros behind the others.                         *)
NoWords(n) == [i \in 1 .. n |-> 0]

ArrayMore(A, B, c, n) == c \in DOMAIN A /\ B = [A EXCEPT ![c] = Append(@, NoWords(n))]

LEMMA BufferArrays ==
  ASSUME NEW m, NEW M, NEW G, NEW rt, Intact(m, M, G, rt), NEW A, Arrayed(A, m, G, rt),
         NEW x, NEW N, NEW H, NEW q, NEW B, Arrayed(B, x, H, q),
         NEW c, NEW g, AddsBuffer(m, M, G, rt, x, N, H, q, c, g)
  PROVE  ArrayMore(A, B, c, g.size)
<1>1. /\ c \in DOMAIN G /\ Buffer(g) /\ H = WithGrant(G, c, g) /\ q = rt /\ Kept(m, x, G, rt)
      /\ \A b \in Nat : InBuffer(g, b) => ReadVirt(x, rt[c], b) = 0
  BY DEF AddsBuffer
<1>2. /\ DOMAIN H = DOMAIN G /\ H[c] = Append(G[c], g)
      /\ \A d \in DOMAIN G : d # c => H[d] = G[d]
  BY <1>1, GrantAdded
<1> DEFINE n == Len(G[c])
           Z == NoWords(g.size)
           S == {B[c][k] : k \in 1 .. Len(H[c])}
<1>3. G[c] \in Seq(GrantType) /\ g \in GrantType /\ n \in Nat
  BY <1>1, ContextHolds DEF Buffer
<1>4. Len(H[c]) = n + 1 /\ H[c][n + 1] = g /\ \A k \in 1 .. n : H[c][k] = G[c][k]
  BY <1>2, <1>3, AppendProperties
<1>5. ASSUME NEW k \in 1 .. n PROVE B[c][k] = A[c][k]
  <2>1. SameWords(m, x, rt[c], G[c][k])  BY <1>1, ContextHolds DEF Kept
  <2>2. k \in 1 .. Len(H[c]) /\ H[c][k] = G[c][k]  BY <1>3, <1>4
  <2> QED  BY <1>1, <1>2, <2>1, <2>2, SameElement
<1>6. B[c][n + 1] = Z
  <2>1. n + 1 \in 1 .. Len(H[c]) /\ c \in DOMAIN H  BY <1>1, <1>2, <1>3, <1>4
  <2>2. B[c][n + 1] = ArrayAt(x, rt[c], g)
    <3> DEFINE k == n + 1
    <3>1. k \in 1 .. Len(H[c]) /\ H[c][k] = g  BY <1>4, <2>1
    <3> HIDE DEF k
    <3>2. B[c][k] = ArrayAt(x, q[c], H[c][k])  BY <2>1, <3>1 DEF Arrayed
    <3>3. B[c][k] = ArrayAt(x, rt[c], g)  BY <1>1, <3>1, <3>2
    <3> QED  BY <3>3 DEF k
  <2>3. g.vaddr \in Nat /\ g.size \in Nat  BY <1>1, BufferPlace
  <2>4. ASSUME NEW i \in 1 .. g.size PROVE ReadVirt(x, rt[c], g.vaddr + i - 1) = 0
    <3> DEFINE b == g.vaddr + i - 1
    <3>1. b \in Nat /\ InBuffer(g, b)  BY <2>3 DEF InBuffer
    <3> HIDE DEF b
    <3>2. ReadVirt(x, rt[c], b) = 0  BY <1>1, <3>1
    <3> QED  BY <3>2 DEF b
  <2> QED  BY <2>2, <2>4 DEF ArrayAt, NoWords
<1> HIDE DEF Z
<1>7. B[c] = Append(A[c], Z)
  <2>1. Len(A[c]) = n /\ A[c] \in Seq({A[c][k] : k \in 1 .. n})  BY <1>1 DEF Arrayed
  <2>2. Len(B[c]) = n + 1 /\ B[c] \in Seq(S)  BY <1>1, <1>2, <1>4 DEF Arrayed
  <2>3. {A[c][k] : k \in 1 .. n} \subseteq S /\ Z \in S
    BY <1>3, <1>4, <1>5, <1>6
  <2> HIDE DEF n, S
  <2>4. A[c] \in Seq(S)  BY <2>1, <2>3
  <2>5. /\ Append(A[c], Z) \in Seq(S) /\ Len(Append(A[c], Z)) = n + 1
        /\ Append(A[c], Z)[n + 1] = Z /\ \A i \in 1 .. n : Append(A[c], Z)[i] = A[c][i]
    BY <2>1, <2>3, <2>4, AppendProperties
  <2>6. ASSUME NEW i \in 1 .. n + 1 PROVE B[c][i] = Append(A[c], Z)[i]
    BY <1>3, <1>5, <1>6, <2>5 DEF n
  <2> QED  BY <2>2, <2>5, <2>6, SeqSame
<1>8. B = [A EXCEPT ![c] = B[c]]
  <2>1. AlikeElsewhere(G, H, c)  BY <1>2 DEF AlikeElsewhere
  <2>2. \A d \in DOMAIN G : d # c => \A h \in ToSet(G[d]) : SameWords(m, x, rt[d], h)
    BY <1>1 DEF Kept
  <2> QED  BY <1>1, <2>1, <2>2, OneContext
<1>9. c \in DOMAIN A  BY <1>1 DEF Arrayed
<1> QED  BY <1>7, <1>8, <1>9 DEF Z, ArrayMore

(* vt_free: one array goes.                                                *)
ArrayGone(A, B, c, k) ==
  c \in DOMAIN A /\ k \in 1 .. Len(A[c]) /\ B = [A EXCEPT ![c] = RemoveAt(@, k)]

LEMMA FreeArrays ==
  ASSUME NEW m, NEW M, NEW G, NEW rt, Intact(m, M, G, rt), NEW A, Arrayed(A, m, G, rt),
         NEW x, NEW N, NEW H, NEW q, NEW B, Arrayed(B, x, H, q),
         NEW c, NEW k, FreesBuffer(m, M, G, rt, x, N, H, q, c, k)
  PROVE  ArrayGone(A, B, c, k)
<1>1. /\ c \in DOMAIN G /\ k \in 1 .. Len(G[c]) /\ H = LessGrant(G, c, k) /\ q = rt
      /\ Kept(m, x, H, rt)
  BY DEF FreesBuffer
<1> DEFINE gr == G[c]
           hr == RemoveAt(gr, k)
           n == Len(gr)
<1>2. gr \in Seq(GrantType) /\ n \in Nat  BY <1>1, ContextHolds
<1>3. DOMAIN H = DOMAIN G /\ H[c] = hr /\ \A d \in DOMAIN G : d # c => H[d] = G[d]
  BY <1>1 DEF LessGrant
<1>4. HasRemoved(hr, gr, k)  BY <1>1, <1>2, RemoveAtFacts
<1>5. c \in DOMAIN A /\ Len(A[c]) = n /\ A[c] \in Seq({A[c][i] : i \in 1 .. n})
  BY <1>1 DEF Arrayed
<1> DEFINE T == {A[c][i] : i \in 1 .. n}
           s == RemoveAt(A[c], k)
<1>6. s \in Seq(T) /\ HasRemoved(s, A[c], k)
  <2> HIDE DEF T
  <2>1. k \in 1 .. Len(A[c]) /\ A[c] \in Seq(T)  BY <1>1, <1>5 DEF T
  <2> QED  BY <2>1, RemoveAtFacts
<1>7. Len(B[c]) = Len(hr) /\ B[c] \in Seq({B[c][i] : i \in 1 .. Len(H[c])})
  BY <1>1, <1>3 DEF Arrayed
<1>8. Len(hr) = n - 1 /\ Len(s) = n - 1  BY <1>4, <1>5, <1>6 DEF HasRemoved
<1> HIDE DEF gr, hr, n, s, T
<1>9. ASSUME NEW i \in 1 .. n - 1 PROVE B[c][i] = s[i]
  <2> DEFINE j == IF i < k THEN i ELSE i + 1
  <2>1. j \in 1 .. n /\ k \in 1 .. n  BY <1>1, <1>2 DEF n, gr
  <2>2. hr[i] = gr[j] /\ s[i] = A[c][j]
    BY <1>1, <1>2, <1>4, <1>5, <1>6, <1>8, <2>1 DEF HasRemoved, n
  <2> HIDE DEF j
  <2>3. j \in 1 .. Len(G[c]) /\ i \in 1 .. Len(H[c]) /\ H[c][i] = G[c][j]
    BY <1>3, <1>8, <2>1, <2>2 DEF gr, n
  <2>4. H[c][i] \in ToSet(H[c])
    <3>1. H[c] \in Seq(GrantType)  BY <1>1, <1>2, <1>3, RemoveAtFacts DEF gr, hr
    <3> QED  BY <2>3, <3>1, Elements
  <2>5. SameWords(m, x, rt[c], G[c][j])  BY <1>1, <1>3, <2>3, <2>4 DEF Kept
  <2>6. B[c][i] = A[c][j]  BY <1>1, <1>3, <2>3, <2>5, SameElement
  <2> QED  BY <2>2, <2>6
<1>10. B[c] = s
  <2> DEFINE S == {B[c][i] : i \in 1 .. Len(H[c])}
  <2>1. B[c] \in Seq(S) /\ s \in Seq(T)  BY <1>6, <1>7
  <2>2. Len(B[c]) = n - 1 /\ Len(s) = n - 1  BY <1>7, <1>8
  <2> HIDE DEF S
  <2>3. \A i \in 1 .. Len(B[c]) : B[c][i] = s[i]  BY <1>9, <2>2
  <2> QED  BY <2>1, <2>2, <2>3, SeqSame
<1>11. B = [A EXCEPT ![c] = B[c]]
  <2>1. AlikeElsewhere(G, H, c)  BY <1>3 DEF AlikeElsewhere
  <2>2. \A d \in DOMAIN G : d # c => \A h \in ToSet(G[d]) : SameWords(m, x, rt[d], h)
    BY <1>1, <1>3 DEF Kept
  <2> QED  BY <1>1, <2>1, <2>2, OneContext
<1>12. k \in 1 .. Len(A[c])  BY <1>1, <1>5 DEF n, gr
<1> QED  BY <1>5, <1>10, <1>11, <1>12 DEF s, ArrayGone

-----------------------------------------------------------------------------
(* upload and the stores of kernels: words of one array change.            *)
Overwritten(s, from, to, w) == [i \in DOMAIN s |-> IF i \in from .. to THEN w ELSE s[i]]

StoredHere(m, x, r, g, a, len, w) ==
  \A b \in Nat : InBuffer(g, b) =>
    ReadVirt(x, r, b) = IF a <= b /\ b < a + len THEN w ELSE ReadVirt(m, r, b)
Between(g, a, len, from, to) == from = a - g.vaddr + 1 /\ to = a - g.vaddr + len
StoredFrom(m, x, r, g, len, from, to, w) ==
  /\ from \in 1 .. g.size /\ to \in 1 .. g.size /\ (len = 1 => to = from)
  /\ ArrayAt(x, r, g) = Overwritten(ArrayAt(m, r, g), from, to, w)

LEMMA StoredArray ==
  ASSUME NEW m, NEW x, NEW r, NEW g, Buffer(g), NEW a, NEW len, Inside(g, a, len), len # 0, NEW w,
         StoredHere(m, x, r, g, a, len, w), NEW from, NEW to, Between(g, a, len, from, to)
  PROVE  StoredFrom(m, x, r, g, len, from, to, w)
<1>1. /\ g.vaddr \in Nat /\ g.size \in Nat /\ a \in Nat /\ len \in Nat
      /\ g.vaddr <= a /\ a + len <= g.vaddr + g.size
      /\ from = a - g.vaddr + 1 /\ to = a - g.vaddr + len
  BY BufferPlace DEF Inside, Between
<1>2. from \in 1 .. g.size /\ to \in 1 .. g.size /\ (len = 1 => to = from)  BY <1>1
<1> DEFINE s == ArrayAt(m, r, g)
<1>3. DOMAIN s = 1 .. g.size /\ \A i \in 1 .. g.size : s[i] = ReadVirt(m, r, g.vaddr + i - 1)
  BY DEF ArrayAt
<1> HIDE DEF s
<1>4. ASSUME NEW i \in 1 .. g.size
      PROVE  ReadVirt(x, r, g.vaddr + i - 1) = IF i \in from .. to THEN w ELSE s[i]
  <2> DEFINE b == g.vaddr + i - 1
  <2>1. b \in Nat /\ InBuffer(g, b)  BY <1>1 DEF InBuffer
  <2>2. i \in from .. to <=> a <= b /\ b < a + len  BY <1>1, <1>2
  <2>3. s[i] = ReadVirt(m, r, b)  BY <1>3
  <2> HIDE DEF b
  <2>4. ReadVirt(x, r, b) = IF i \in from .. to THEN w ELSE s[i]
    BY <2>1, <2>2, <2>3 DEF StoredHere
  <2> QED  BY <2>4 DEF b
<1>5. ArrayAt(x, r, g) = [i \in 1 .. g.size |-> IF i \in from .. to THEN w ELSE s[i]]
  BY <1>4 DEF ArrayAt
<1>6. ArrayAt(x, r, g) = Overwritten(s, from, to, w)  BY <1>3, <1>5 DEF Overwritten
<1> QED  BY <1>2, <1>6 DEF s, StoredFrom

WordsStored(A, B, c, k, from, to, w) ==
  /\ c \in DOMAIN A /\ k \in 1 .. Len(A[c])
  /\ from \in 1 .. Len(A[c][k]) /\ to \in 1 .. Len(A[c][k])
  /\ B = [A EXCEPT ![c][k] = Overwritten(@, from, to, w)]

LEMMA StoreArrays ==
  ASSUME NEW m, NEW M, NEW G, NEW rt, Intact(m, M, G, rt), NEW A, Arrayed(A, m, G, rt),
         NEW x, NEW N, NEW H, NEW q, NEW B, Arrayed(B, x, H, q),
         NEW c, NEW k, NEW a, NEW len, NEW w,
         StoresWords(m, M, G, rt, x, N, H, q, c, k, a, len, w),
         NEW from, from = a - G[c][k].vaddr + 1, NEW to, to = a - G[c][k].vaddr + len
  PROVE  WordsStored(A, B, c, k, from, to, w) /\ (len = 1 => to = from)
<1>1. /\ c \in DOMAIN G /\ k \in 1 .. Len(G[c]) /\ Inside(G[c][k], a, len) /\ len # 0
      /\ H = G /\ q = rt /\ Stored(m, x, G, rt, c, a, len, w)
  BY DEF StoresWords
<1>2. PICK g \in ToSet(G[c]) : g = G[c][k]  BY <1>1, ContextHolds
<1>3. Buffer(g)  BY <1>1, ContextHolds
<1>4. /\ from \in 1 .. g.size /\ to \in 1 .. g.size /\ (len = 1 => to = from)
      /\ ArrayAt(x, rt[c], g) = Overwritten(ArrayAt(m, rt[c], g), from, to, w)
  <2>1. Inside(g, a, len) /\ Between(g, a, len, from, to)  BY <1>1, <1>2 DEF Between
  <2>2. StoredHere(m, x, rt[c], g, a, len, w)  BY <1>1 DEF Stored, StoredHere
  <2>3. StoredFrom(m, x, rt[c], g, len, from, to, w)
    BY <1>1, <1>3, <2>1, <2>2, StoredArray
  <2> QED  BY <2>3 DEF StoredFrom
<1>5. ASSUME NEW d \in DOMAIN G, NEW h \in ToSet(G[d]), d # c \/ h # g
      PROVE  SameWords(m, x, rt[d], h)
  <2>1. Buffer(h)  BY ContextHolds
  <2>2. d # c \/ PagesOfGrant(h) \cap PagesOfGrant(g) = {}  BY <1>1, <1>5, ContextHolds
  <2>3. Inside(g, a, len)  BY <1>1, <1>2
  <2> QED  BY <1>1, <1>3, <2>1, <2>2, <2>3, StoredApart
<1> DEFINE n == Len(G[c])
           P == Overwritten(A[c][k], from, to, w)
<1>6. /\ n \in Nat /\ Len(A[c]) = n /\ Len(B[c]) = n
      /\ A[c] \in Seq({A[c][i] : i \in 1 .. n}) /\ B[c] \in Seq({B[c][i] : i \in 1 .. n})
  BY <1>1 DEF Arrayed
<1>7. A[c][k] = ArrayAt(m, rt[c], g) /\ B[c][k] = P
  <2>1. A[c][k] = ArrayAt(m, rt[c], G[c][k])  BY <1>1 DEF Arrayed
  <2>2. B[c][k] = ArrayAt(x, rt[c], G[c][k])  BY <1>1 DEF Arrayed
  <2> QED  BY <1>2, <1>4, <2>1, <2>2
<1>8. ASSUME NEW i \in 1 .. n, i # k PROVE B[c][i] = A[c][i]
  <2>1. G[c][i] \in ToSet(G[c])  BY <1>1, ContextHolds
  <2>2. G[c][i] # g
    <3>1. Granting(G[c]) /\ Buffer(g)  BY <1>1, <1>3, ContextHolds
    <3>2. PagesOfGrant(G[c][i]) \cap PagesOfGrant(G[c][k]) = {}  BY <1>1, <1>8, <3>1 DEF Granting
    <3>3. FirstPage(g) \in PagesOfGrant(g)  BY <3>1, FirstInside
    <3> QED  BY <1>2, <3>2, <3>3
  <2>3. SameWords(m, x, rt[c], G[c][i])  BY <1>1, <1>5, <2>1, <2>2
  <2> QED  BY <1>1, <2>3, SameElement
<1> HIDE DEF n, P
<1>9. B[c] = [A[c] EXCEPT ![k] = P]
  <2>1. DOMAIN A[c] = 1 .. n /\ DOMAIN B[c] = 1 .. n /\ k \in 1 .. n
    BY <1>1, <1>6, LenProperties DEF n
  <2>2. A[c] = [i \in 1 .. n |-> A[c][i]] /\ B[c] = [i \in 1 .. n |-> B[c][i]]  BY <1>6
  <2> QED  BY <1>7, <1>8, <2>1, <2>2
<1>10. B = [A EXCEPT ![c] = B[c]]
  <2>1. AlikeElsewhere(G, H, c)  BY <1>1 DEF AlikeElsewhere
  <2>2. \A d \in DOMAIN G : d # c => \A h \in ToSet(G[d]) : SameWords(m, x, rt[d], h)
    BY <1>5
  <2> QED  BY <1>1, <2>1, <2>2, OneContext
<1>11. c \in DOMAIN A /\ k \in 1 .. Len(A[c])  BY <1>1, <1>6 DEF Arrayed, n
<1>12. B = [A EXCEPT ![c][k] = P]  BY <1>9, <1>10
<1>13. Len(A[c][k]) = g.size
  <2>1. g.size \in Nat  BY <1>3, BufferPlace
  <2> QED  BY <1>7, <2>1 DEF ArrayAt
<1> QED  BY <1>4, <1>11, <1>12, <1>13 DEF WordsStored, P

-----------------------------------------------------------------------------
(* vt_upload_kernel_bytes: the arrays of an image behind the others.       *)
ChunkArray(size, image, k) == [i \in 1 .. CHUNK |-> Laid(size, image, k, i)]
ImageArrays(size, image, j) == [k \in 1 .. j |-> ChunkArray(size, image, k)]

LEMMA ChunkIsArray ==
  ASSUME NEW m, NEW r, NEW g, NEW size, NEW image, NEW k, ChunkThere(m, r, g, size, image, k)
  PROVE  ArrayAt(m, r, g) = ChunkArray(size, image, k)
<1>1. /\ Buffer(g) /\ g.size = CHUNK
      /\ \A b \in Nat : InBuffer(g, b) => ReadVirt(m, r, b) = Laid(size, image, k, b - g.vaddr + 1)
  BY DEF ChunkThere
<1>2. g.vaddr \in Nat  BY <1>1, BufferPlace
<1>3. ASSUME NEW i \in 1 .. CHUNK
      PROVE  ReadVirt(m, r, g.vaddr + i - 1) = Laid(size, image, k, i)
  <2> DEFINE b == g.vaddr + i - 1
  <2>1. b \in Nat /\ InBuffer(g, b) /\ b - g.vaddr + 1 = i  BY <1>1, <1>2, Units DEF InBuffer
  <2> HIDE DEF b
  <2>2. ReadVirt(m, r, b) = Laid(size, image, k, i)  BY <1>1, <2>1
  <2> QED  BY <2>2 DEF b
<1> QED  BY <1>1, <1>3 DEF ArrayAt, ChunkArray

ImageMore(A, B, c, size, image, j) ==
  /\ c \in DOMAIN A /\ Len(A[c]) \in Nat /\ Len(B[c]) = Len(A[c]) + j
  /\ B = [A EXCEPT ![c] = @ \o ImageArrays(size, image, j)]

LEMMA ImageAdded ==
  ASSUME NEW m, NEW M, NEW G, NEW rt, Intact(m, M, G, rt), NEW A, Arrayed(A, m, G, rt),
         NEW x, NEW N, NEW H, NEW q, NEW B, Arrayed(B, x, H, q),
         NEW c, NEW size, NEW image, NEW j, LoadsImage(m, M, G, rt, x, N, H, q, c, size, image, j)
  PROVE  ImageMore(A, B, c, size, image, j)
<1>1. /\ c \in DOMAIN G /\ j \in Nat /\ q = rt /\ Kept(m, x, G, rt)
      /\ AlikeElsewhere(G, H, c) /\ Longer(G[c], H[c], j)
      /\ ChunksThere(x, rt[c], G[c], H[c], size, image, j)
  BY DEF LoadsImage
<1>2. c \in DOMAIN H /\ q[c] = rt[c]  BY <1>1 DEF AlikeElsewhere
<1> DEFINE n == Len(G[c])
           I == ImageArrays(size, image, j)
           S == {B[c][k] : k \in 1 .. Len(H[c])}
<1>3. n \in Nat /\ Len(H[c]) = n + j /\ \A k \in 1 .. n : H[c][k] = G[c][k]
  BY <1>1, ContextHolds DEF Longer
<1>4. Len(A[c]) = n /\ A[c] \in Seq({A[c][k] : k \in 1 .. n})  BY <1>1 DEF Arrayed
<1>5. Len(B[c]) = n + j /\ B[c] \in Seq(S)  BY <1>2, <1>3 DEF Arrayed
<1>6. DOMAIN I = 1 .. j /\ \A k \in 1 .. j : I[k] = ChunkArray(size, image, k)
  BY DEF ImageArrays
<1>7. I = [k \in 1 .. j |-> I[k]]  BY DEF ImageArrays
<1> HIDE DEF n, I
<1>8. ASSUME NEW k \in 1 .. n PROVE B[c][k] = A[c][k]
  <2>1. SameWords(m, x, rt[c], G[c][k])  BY <1>1, ContextHolds DEF Kept, n
  <2>2. k \in 1 .. Len(H[c]) /\ H[c][k] = G[c][k] /\ k \in 1 .. Len(G[c])  BY <1>1, <1>3 DEF n
  <2> QED  BY <1>1, <1>2, <2>1, <2>2, SameElement
<1>9. ASSUME NEW k \in 1 .. j PROVE B[c][n + k] = I[k]
  <2> DEFINE i == n + k
  <2>1. i \in 1 .. Len(H[c])  BY <1>1, <1>3
  <2>2. ChunkThere(x, rt[c], H[c][i], size, image, k)  BY <1>1 DEF ChunksThere, n
  <2> HIDE DEF i
  <2>3. B[c][i] = ArrayAt(x, q[c], H[c][i])  BY <1>2, <2>1 DEF Arrayed
  <2>4. ArrayAt(x, rt[c], H[c][i]) = ChunkArray(size, image, k)  BY <2>2, ChunkIsArray
  <2>5. B[c][i] = I[k]  BY <1>2, <1>6, <2>3, <2>4
  <2> QED  BY <2>5 DEF i
<1>10. B[c] = A[c] \o I
  <2>1. ASSUME NEW k \in 1 .. n PROVE A[c][k] \in S
    <3>1. k \in 1 .. Len(H[c])  BY <1>1, <1>3
    <3>2. B[c][k] \in S  BY <3>1
    <3> QED  BY <1>8, <3>2
  <2>2. ASSUME NEW k \in 1 .. j PROVE I[k] \in S
    <3> DEFINE i == n + k
    <3>1. i \in 1 .. Len(H[c]) /\ B[c][i] = I[k]  BY <1>1, <1>3, <1>9
    <3> HIDE DEF i
    <3> QED  BY <3>1
  <2> HIDE DEF S
  <2>3. {A[c][k] : k \in 1 .. n} \subseteq S  BY <2>1
  <2>4. A[c] \in Seq(S)  BY <1>4, <2>3
  <2>5. I \in [1 .. j -> S]  BY <1>7, <2>2
  <2>6. I \in Seq(S) /\ Len(I) = j  BY <1>1, <2>5
  <2> DEFINE t == A[c] \o I
  <2>7. /\ t \in Seq(S) /\ Len(t) = n + j
        /\ \A i \in 1 .. n + j : t[i] = IF i <= n THEN A[c][i] ELSE I[i - n]
    BY <1>4, <2>4, <2>6, ConcatProperties
  <2> HIDE DEF t
  <2>8. ASSUME NEW i \in 1 .. n + j PROVE B[c][i] = t[i]
    <3>1. CASE i <= n
      <4>1. i \in 1 .. n  BY <1>3, <3>1
      <4> QED  BY <1>8, <2>7, <3>1, <4>1
    <3>2. CASE ~(i <= n)
      <4> DEFINE k == i - n
      <4>1. k \in 1 .. j /\ n + k = i  BY <1>1, <1>3, <3>2
      <4>2. t[i] = I[k]  BY <2>7, <3>2
      <4> HIDE DEF k
      <4> QED  BY <1>9, <4>1, <4>2
    <3> QED  BY <3>1, <3>2
  <2>9. B[c] = t  BY <1>5, <2>7, <2>8, SeqSame
  <2> QED  BY <2>9 DEF t
<1>11. B = [A EXCEPT ![c] = B[c]]
  <2>1. \A d \in DOMAIN G : d # c => \A h \in ToSet(G[d]) : SameWords(m, x, rt[d], h)
    BY <1>1 DEF Kept
  <2> QED  BY <1>1, <2>1, OneContext
<1>12. c \in DOMAIN A  BY <1>1 DEF Arrayed
<1> QED  BY <1>3, <1>4, <1>5, <1>10, <1>11, <1>12 DEF I, ImageMore

-----------------------------------------------------------------------------
(* The access under way, in terms of arrays.                               *)
WordOf(l, gr, k) == [ctx |-> l.ctx, array |-> k, at |-> l.word - gr[k].vaddr + 1, w |-> l.w]

Chosen(gr, l) == CHOOSE k \in DOMAIN gr : gr[k].vaddr <= l.word /\ l.word < gr[k].vaddr + gr[k].size
AccessOf(G, la) == [i \in DOMAIN la |-> WordOf(la[i], G[la[i].ctx], Chosen(G[la[i].ctx], la[i]))]

LEMMA PendingIs ==
  /\ PendingAccess = AccessOf(granted, latch)
  /\ PendingAccess' = AccessOf(granted', latch')
BY DEF PendingAccess, AccessOf, Chosen, WordOf

(* The buffer the refinement mapping chooses is the one that was meant.    *)
LEMMA AccessIs ==
  ASSUME NEW m, NEW M, NEW G, NEW rt, Intact(m, M, G, rt), NEW l, l.ctx \in DOMAIN G,
         NEW k, Meant(m, G, rt, l, k), NEW la, la = <<l>>
  PROVE  AccessOf(G, la) = <<WordOf(l, G[l.ctx], k)>>
<1> DEFINE c == l.ctx
           gr == G[c]
           In(i) == gr[i].vaddr <= l.word /\ l.word < gr[i].vaddr + gr[i].size
<1>1. /\ gr \in Seq(GrantType) /\ DOMAIN gr = 1 .. Len(gr) /\ Granting(gr)
      /\ \A i \in 1 .. Len(gr) : Buffer(gr[i])
  BY ContextHolds
<1>2. k \in 1 .. Len(gr) /\ l.word \in Nat /\ In(k)  BY DEF Meant, InBuffer
<1>3. ASSUME NEW i \in DOMAIN gr, In(i) PROVE i = k
  <2>1. l.word \div PAGESIZE \in PagesOfGrant(gr[i])  BY <1>1, <1>2, <1>3, BufferPlace
  <2>2. l.word \div PAGESIZE \in PagesOfGrant(gr[k])  BY <1>1, <1>2, BufferPlace
  <2> QED  BY <1>1, <1>2, <2>1, <2>2 DEF Granting
<1>4. Chosen(gr, l) = k  BY <1>1, <1>2, <1>3 DEF Chosen
<1>5. la[1] = l /\ DOMAIN la = {1}  OBVIOUS
<1> HIDE DEF gr
<1>6. AccessOf(G, la) = [i \in DOMAIN la |-> WordOf(l, gr, k)]
  BY <1>4, <1>5 DEF AccessOf, gr
<1> QED  BY <1>5, <1>6 DEF gr

LEMMA NoAccess ==
  ASSUME NEW G, NEW la, la = << >>
  PROVE  AccessOf(G, la) = << >>
BY DEF AccessOf

(* Calls leave the access under way what it was.                           *)
LEMMA AccessStays ==
  ASSUME NEW m, NEW M, NEW G, NEW rt, Intact(m, M, G, rt),
         NEW x, NEW N, NEW H, NEW q, Intact(x, N, H, q),
         NEW S, S \subseteq DOMAIN G, S \subseteq DOMAIN H,
         StaysFor(S, m, x, G, H, rt, q), NEW la, LatchOk(m, G, rt, S, la)
  PROVE  AccessOf(H, la) = AccessOf(G, la)
<1>1. CASE la = << >>  BY <1>1, NoAccess
<1>2. CASE la # << >>
  <2>1. PICK l : la = <<l>> /\ l.ctx \in S /\ \E k : Meant(m, G, rt, l, k)
    BY <1>2 DEF LatchOk
  <2>2. PICK k : Meant(m, G, rt, l, k)  BY <2>1
  <2> DEFINE c == l.ctx
  <2>3. /\ c \in DOMAIN G /\ c \in DOMAIN H /\ q[c] = rt[c] /\ k \in 1 .. Len(G[c])
        /\ k \in 1 .. Len(H[c]) /\ H[c][k] = G[c][k] /\ SamePages(m, x, rt[c], G[c][k])
    BY <2>1, <2>2 DEF StaysFor, Meant
  <2>4. Meant(x, H, q, l, k)
    <3>1. Buffer(G[c][k])  BY <2>3, ContextHolds
    <3>2. l.word \div PAGESIZE \in PagesOfGrant(G[c][k])
      BY <2>2, <3>1, WordPlace DEF Meant
    <3>3. Convert(x, rt[c], l.word \div PAGESIZE) = Convert(m, rt[c], l.word \div PAGESIZE)
      BY <2>3, <3>2 DEF SamePages
    <3> QED  BY <2>2, <2>3, <3>3 DEF Meant
  <2>5. AccessOf(G, la) = <<WordOf(l, G[l.ctx], k)>>  BY <2>1, <2>2, <2>3, AccessIs
  <2>6. AccessOf(H, la) = <<WordOf(l, H[l.ctx], k)>>  BY <2>1, <2>3, <2>4, AccessIs
  <2> QED  BY <2>3, <2>5, <2>6 DEF WordOf
<1> QED  BY <1>1, <1>2

-----------------------------------------------------------------------------
(* Each step of the system as a step of DeviceBuffers.                     *)
LEMMA BuffersInit == SMInit => Buffers!DBInit
<1> SUFFICES ASSUME SMInit PROVE Buffers!DBInit  OBVIOUS
<1>1. granted = [c \in {0} |-> << >>] /\ view = Arrays /\ latch = << >>
  BY DEF SMInit, DInit
<1>2. PendingAccess = << >>  BY <1>1, PendingIs, NoAccess
<1>3. view = [d \in {0} |-> << >>]
  <2>1. DOMAIN granted = {0} /\ \A c \in {0} : Len(granted[c]) = 0  BY <1>1
  <2>2. view = [c \in {0} |-> [k \in 1 .. 0 |-> ArrayOf(c, granted[c][k])]]
    BY <1>1, <2>1 DEF Arrays
  <2>3. \A c \in {0} : [k \in 1 .. 0 |-> ArrayOf(c, granted[c][k])] = << >>  OBVIOUS
  <2> QED  BY <2>2, <2>3
<1>4. 0 \in Contexts  BY DriverAssumption
<1> QED  BY <1>2, <1>3, <1>4 DEF Buffers!DBInit

(* Before and after a step the view is the buffers, read as arrays.        *)
LEMMA ViewArrayed ==
  ASSUME SMInv, SMInv'
  PROVE  /\ Intact(pm, mng, granted, root) /\ Intact(pm', mng', granted', root')
         /\ Arrayed(view, pm, granted, root) /\ Arrayed(view', pm', granted', root')
<1>1. /\ Intact(pm, mng, granted, root) /\ view = Arrays
      /\ Intact(pm', mng', granted', root') /\ view' = Arrays'
  BY DEF SMInv, RecordsOk
<1>2. view = ArraysOf(pm, granted, root)  BY <1>1, ArraysAre
<1>3. view' = ArraysOf(pm', granted', root')
  BY <1>1 DEF Arrays, ArrayOf, ArraysOf, ArrayAt
<1> DEFINE B == view'
           x == pm'
           N == mng'
           H == granted'
           q == root'
<1> HIDE DEF B, x, N, H, q
<1>4. Intact(x, N, H, q) /\ B = ArraysOf(x, H, q)  BY <1>1, <1>3 DEF B, x, N, H, q
<1>5. Arrayed(B, x, H, q)  BY <1>4, ArraysFrom
<1>6. Arrayed(view, pm, granted, root)  BY <1>1, <1>2, ArraysFrom
<1> QED  BY <1>1, <1>5, <1>6 DEF B, x, N, H, q

(* A client's call is a call there, or nothing there changes.              *)
LEMMA HostMaps ==
  ASSUME SMInv, SMInv', HostOutcome(pm, mng, granted, root, pm', mng', granted', root'),
         PendingAccess' = PendingAccess
  PROVE  Buffers!HostCall \/ UNCHANGED <<view, PendingAccess>>
<1> DEFINE A == view
           B == view'
           x == pm'
           N == mng'
           H == granted'
           q == root'
<1>1. /\ Intact(pm, mng, granted, root) /\ Intact(x, N, H, q)
      /\ Arrayed(A, pm, granted, root) /\ Arrayed(B, x, H, q)
  BY ViewArrayed
<1>2. HostOutcome(pm, mng, granted, root, x, N, H, q)  OBVIOUS
<1> HIDE DEF A, B, x, N, H, q
<1>3. B = A => UNCHANGED <<view, PendingAccess>>  BY DEF A, B
<1>4. CASE KeepsAll(pm, mng, granted, root, x, N, H, q)
  BY <1>1, <1>3, <1>4, KeepsArrays
<1>5. ASSUME NEW c \in Contexts, NEW a, AddsContext(pm, mng, granted, root, x, N, H, q, c, a)
      PROVE  Buffers!HostCall \/ UNCHANGED <<view, PendingAccess>>
  <2>1. B = A \/ MoreContexts(A, B, c)  BY <1>1, <1>5, ContextArrays
  <2>2. CASE B # A /\ MoreContexts(A, B, c)
    <3>1. Buffers!NewContext(c)  BY <2>2 DEF MoreContexts, Buffers!NewContext, A, B
    <3> QED  BY <2>2, <3>1 DEF Buffers!HostCall, A, B
  <2> QED  BY <1>3, <2>1, <2>2
<1>6. ASSUME NEW c, NEW g, AddsBuffer(pm, mng, granted, root, x, N, H, q, c, g), g.size \in Sizes
      PROVE  Buffers!HostCall \/ UNCHANGED <<view, PendingAccess>>
  <2>1. c \in DOMAIN A /\ B = [A EXCEPT ![c] = Append(@, NoWords(g.size))]
    <3>1. ArrayMore(A, B, c, g.size)  BY <1>1, <1>6, BufferArrays
    <3> QED  BY <3>1 DEF ArrayMore
  <2>2. g.size \in 1 .. MaxSize
    <3>1. Buffer(g)  BY <1>6 DEF AddsBuffer
    <3> QED  BY <1>6, <3>1, BufferPlace, ClientWords
  <2>3. Buffers!NewArray(c)
    BY <2>1, <2>2 DEF NoWords, Buffers!NewArray, Buffers!Zeros, A, B
  <2> QED  BY <1>3, <2>1, <2>3 DEF Buffers!HostCall, A, B
<1>7. ASSUME NEW c, NEW k, FreesBuffer(pm, mng, granted, root, x, N, H, q, c, k)
      PROVE  Buffers!HostCall \/ UNCHANGED <<view, PendingAccess>>
  <2>1. c \in DOMAIN A /\ k \in 1 .. Len(A[c]) /\ B = [A EXCEPT ![c] = RemoveAt(@, k)]
    <3>1. ArrayGone(A, B, c, k)  BY <1>1, <1>7, FreeArrays
    <3> QED  BY <3>1 DEF ArrayGone
  <2>2. Buffers!FreeArray(c, k)  BY <2>1 DEF RemoveAt, Buffers!RemoveAt, Buffers!FreeArray, A, B
  <2> QED  BY <1>3, <2>1, <2>2 DEF Buffers!HostCall, A, B
<1>8. ASSUME NEW c, NEW k, NEW a, NEW len, NEW w, w \in HostWords,
             StoresWords(pm, mng, granted, root, x, N, H, q, c, k, a, len, w)
      PROVE  Buffers!HostCall \/ UNCHANGED <<view, PendingAccess>>
  <2> DEFINE from == a - granted[c][k].vaddr + 1
             to == a - granted[c][k].vaddr + len
  <2>1. WordsStored(A, B, c, k, from, to, w)
    <3> HIDE DEF from, to
    <3>1. from = a - granted[c][k].vaddr + 1 /\ to = a - granted[c][k].vaddr + len
      BY DEF from, to
    <3> QED  BY <1>1, <1>8, <3>1, StoreArrays
  <2> HIDE DEF from, to
  <2>2. /\ c \in DOMAIN A /\ k \in 1 .. Len(A[c])
        /\ from \in 1 .. Len(A[c][k]) /\ to \in 1 .. Len(A[c][k])
        /\ B = [A EXCEPT ![c][k] = Overwritten(@, from, to, w)]
    BY <2>1 DEF WordsStored
  <2>3. Buffers!Upload(c, k)
    BY <1>8, <2>2 DEF Buffers!Upload, Buffers!Painted, Overwritten, HostWords, A, B
  <2> QED  BY <1>3, <2>2, <2>3 DEF Buffers!HostCall, A, B
<1> QED  BY <1>2, <1>4, <1>5, <1>6, <1>7, <1>8 DEF HostOutcome, Allocates, Copied

(* An image loaded, whole or not, is a load there, or nothing is.          *)
LEMMA LoadMaps ==
  ASSUME SMInv, SMInv', NEW c, NEW size \in ImageSizes, NEW image \in ImageWords, NEW done,
         ImageOutcome(pm, mng, granted, root, pm', mng', granted', root', c, size, image, done),
         PendingAccess' = PendingAccess
  PROVE  Buffers!HostCall \/ UNCHANGED <<view, PendingAccess>>
<1> DEFINE A == view
           B == view'
           x == pm'
           N == mng'
           H == granted'
           q == root'
<1>1. /\ Intact(pm, mng, granted, root) /\ Intact(x, N, H, q)
      /\ Arrayed(A, pm, granted, root) /\ Arrayed(B, x, H, q)
  BY ViewArrayed
<1>2. PICK j \in 0 .. Chunks(size) :
        LoadsImage(pm, mng, granted, root, x, N, H, q, c, size, image, j)
  BY DEF ImageOutcome
<1> HIDE DEF A, B, x, N, H, q
<1>3. /\ c \in DOMAIN A /\ Len(A[c]) \in Nat /\ Len(B[c]) = Len(A[c]) + j
      /\ B = [A EXCEPT ![c] = @ \o ImageArrays(size, image, j)]
  <2>1. ImageMore(A, B, c, size, image, j)  BY <1>1, <1>2, ImageAdded
  <2> QED  BY <2>1 DEF ImageMore
<1>4. size \in 1 .. 2 * MaxSize /\ CHUNK \in 1 .. MaxSize
  BY ClientWords, SharedAssumption, Units
<1>5. CASE j = 0
  <2>1. ImageArrays(size, image, j) = << >>  BY <1>5 DEF ImageArrays
  <2>2. A[c] \o << >> = A[c]
    <3>1. c \in DOMAIN granted  BY <1>1, <1>3 DEF Arrayed
    <3> DEFINE S == {A[c][k] : k \in 1 .. Len(granted[c])}
    <3>2. A[c] \in Seq(S)  BY <1>1, <3>1 DEF Arrayed
    <3> HIDE DEF S
    <3> QED  BY <3>2, ConcatEmptySeq
  <2>3. B = A
    <3>1. A = [d \in DOMAIN A |-> A[d]]  BY <1>1 DEF Arrayed
    <3> QED  BY <1>3, <2>1, <2>2, <3>1
  <2> QED  BY <2>3 DEF A, B
<1>6. CASE j # 0
  <2>1. j \in 1 .. Chunks(size) /\ Len(B[c]) > Len(A[c])
    <3>1. Chunks(size) \in Nat  BY <1>4, ChunkNumbers
    <3> QED  BY <1>3, <1>6, <3>1
  <2>2. j \in 1 .. (size + CHUNK - 1) \div CHUNK  BY <2>1 DEF Chunks
  <2>3. Buffers!Image(CHUNK, size, image, j) = ImageArrays(size, image, j)
    BY DEF Buffers!Image, ImageArrays, ChunkArray, Laid
  <2>4. Buffers!LoadKernel(c)
    BY <1>3, <1>4, <2>1, <2>2, <2>3 DEF Buffers!LoadKernel, A, B
  <2>5. CASE B = A  BY <2>5 DEF A, B
  <2>6. CASE B # A  BY <1>3, <2>4, <2>6 DEF Buffers!HostCall, A, B
  <2> QED  BY <2>5, <2>6
<1> QED  BY <1>5, <1>6

(* The two steps of a kernel's access are the two steps there.             *)
LEMMA BeginMaps ==
  ASSUME SMInv, SMInv', NEW c \in DOMAIN granted, NEW g, NEW i,
         NEW w \in Words \ ({JunkWord} \cup ImageWords), Access(c, g, i, w)
  PROVE  Buffers!DBNext
<1> DEFINE l == [ctx |-> c, word |-> g.vaddr + i, w |-> w,
                 page |-> Convert(pm, mroot, (g.vaddr + i) \div PAGESIZE)]
<1>1. /\ latch = << >> /\ latch' = <<l>> /\ l.ctx = c /\ l.w = w
      /\ pm' = pm /\ mng' = mng /\ granted' = granted /\ root' = root /\ view' = view
  BY DEF Access, dVars
<1> HIDE DEF l
<1>2. LatchOk(pm', granted', root', running', latch')  BY DEF SMInv
<1>3. \E e : latch' = <<e>> /\ \E k : Meant(pm, granted, root, e, k)
  BY <1>1, <1>2 DEF LatchOk
<1>4. PICK k : Meant(pm, granted, root, l, k)  BY <1>1, <1>3
<1>5. Intact(pm, mng, granted, root) /\ Arrayed(view, pm, granted, root)  BY ViewArrayed
<1> DEFINE at == l.word - granted[c][k].vaddr + 1
<1>6. PendingAccess' = <<WordOf(l, granted[c], k)>>
  <2> DEFINE la == latch'
  <2>1. la = <<l>>  BY <1>1
  <2> HIDE DEF la
  <2>2. AccessOf(granted, la) = <<WordOf(l, granted[l.ctx], k)>>
    BY <1>1, <1>4, <1>5, <2>1, AccessIs
  <2>3. PendingAccess' = AccessOf(granted, la)  BY <1>1, PendingIs DEF la
  <2> QED  BY <1>1, <2>2, <2>3
<1>7. PendingAccess = << >>  BY <1>1, PendingIs, NoAccess
<1>8. WordOf(l, granted[c], k) = [ctx |-> c, array |-> k, at |-> at, w |-> w]
  BY <1>1 DEF WordOf
<1>9. k \in 1 .. Len(granted[c]) /\ at \in 1 .. granted[c][k].size
  <2>1. k \in 1 .. Len(granted[c]) /\ l.word \in Nat /\ InBuffer(granted[c][k], l.word)
    BY <1>1, <1>4 DEF Meant
  <2>2. Buffer(granted[c][k])  BY <1>5, <2>1, ContextHolds
  <2>3. granted[c][k].vaddr \in Nat /\ granted[c][k].size \in Nat  BY <2>2, BufferPlace
  <2> QED  BY <2>1, <2>3 DEF InBuffer
<1> HIDE DEF at
<1>10. c \in DOMAIN view /\ k \in 1 .. Len(view[c]) /\ at \in 1 .. Len(view[c][k])
  <2>1. /\ DOMAIN view = DOMAIN granted /\ Len(view[c]) = Len(granted[c])
        /\ view[c][k] = ArrayAt(pm, root[c], granted[c][k])
    BY <1>5, <1>9 DEF Arrayed
  <2>2. granted[c][k].size \in Nat
    <3>1. Buffer(granted[c][k])  BY <1>5, <1>9, ContextHolds
    <3> QED  BY <3>1, BufferPlace
  <2>3. Len(view[c][k]) = granted[c][k].size  BY <2>1, <2>2 DEF ArrayAt
  <2> QED  BY <1>9, <2>1, <2>3
<1>11. w \in (Words \ ({0, JunkWord} \cup ImageWords)) \cup {0}  OBVIOUS
<1>12. Buffers!Begin(c, k, at, w)  BY <1>1, <1>6, <1>8 DEF Buffers!Begin
<1>13. PendingAccess' # << >>  BY <1>6
<1> QED  BY <1>7, <1>10, <1>11, <1>12, <1>13 DEF Buffers!DBNext

LEMMA OneOverwritten ==
  ASSUME NEW A, NEW B, NEW c, NEW k, NEW i, NEW w, WordsStored(A, B, c, k, i, i, w),
         NEW n \in Nat, NEW s, s = A[c][k], s = [j \in 1 .. n |-> s[j]], i \in 1 .. n
  PROVE  B = [A EXCEPT ![c][k][i] = w]
<1>1. B = [A EXCEPT ![c][k] = Overwritten(A[c][k], i, i, w)]  BY DEF WordsStored
<1>2. DOMAIN s = 1 .. n  OBVIOUS
<1>3. \A j \in 1 .. n : j \in i .. i <=> j = i  OBVIOUS
<1>4. Overwritten(s, i, i, w) = [j \in 1 .. n |-> IF j = i THEN w ELSE s[j]]
  BY <1>2, <1>3 DEF Overwritten
<1>5. [s EXCEPT ![i] = w] = [j \in 1 .. n |-> IF j = i THEN w ELSE s[j]]  BY <1>2
<1>6. Overwritten(A[c][k], i, i, w) = [A[c][k] EXCEPT ![i] = w]  BY <1>4, <1>5
<1> QED  BY <1>1, <1>6, Zenon

LEMMA CompleteMaps ==
  ASSUME SMInv, SMInv', Perform
  PROVE  Buffers!Complete
<1>1. PICK l, k : PerformDone(l, k)  BY PerformOutcome
<1>2. latch = <<l>> /\ l.ctx \in running /\ Meant(pm, granted, root, l, k)
  BY <1>1 DEF PerformDone
<1> DEFINE A == view
           B == view'
           x == pm'
           N == mng'
           H == granted'
           q == root'
           c == l.ctx
           at == l.word - granted[c][k].vaddr + 1
<1>3. /\ Intact(pm, mng, granted, root) /\ Intact(x, N, H, q)
      /\ Arrayed(A, pm, granted, root) /\ Arrayed(B, x, H, q)
  BY ViewArrayed
<1>4. /\ l.w = 0 => KeepsAll(pm, mng, granted, root, x, N, H, q)
      /\ l.w # 0 => StoresWords(pm, mng, granted, root, x, N, H, q, c, k, l.word, 1, l.w)
  BY <1>1 DEF PerformDone
<1>5. c \in DOMAIN granted  BY <1>2 DEF SMInv, DeviceOk
<1>6. PendingAccess = <<WordOf(l, granted[c], k)>>
  <2>1. AccessOf(granted, latch) = <<WordOf(l, granted[l.ctx], k)>>
    BY <1>2, <1>3, <1>5, AccessIs
  <2> QED  BY <2>1, PendingIs
<1>7. PendingAccess' = << >>
  <2>1. latch' = << >>  BY DEF Perform
  <2> QED  BY <2>1, PendingIs, NoAccess
<1>8. WordOf(l, granted[c], k) = [ctx |-> c, array |-> k, at |-> at, w |-> l.w]
  BY DEF WordOf
<1> HIDE DEF A, B, x, N, H, q
<1>9. l.w = 0 => B = A  BY <1>3, <1>4, KeepsArrays
<1>10. ASSUME l.w # 0 PROVE B = [A EXCEPT ![c][k][at] = l.w]
  <2>1. StoresWords(pm, mng, granted, root, x, N, H, q, c, k, l.word, 1, l.w)  BY <1>4, <1>10
  <2> DEFINE w == l.w
             a == l.word
             to == a - granted[c][k].vaddr + 1
  <2> HIDE DEF w, a, to, at, c
  <2>2. at = a - granted[c][k].vaddr + 1 /\ to = a - granted[c][k].vaddr + 1
    BY DEF a, to, at, c
  <2>3. StoresWords(pm, mng, granted, root, x, N, H, q, c, k, a, 1, w)
    BY <2>1 DEF a, w, c
  <2>4. WordsStored(A, B, c, k, at, to, w)  BY <1>3, <2>2, <2>3, StoreArrays
  <2>5. WordsStored(A, B, c, k, at, at, w)  BY <2>2, <2>4
  <2> DEFINE s == A[c][k]
             n == granted[c][k].size
  <2>6. /\ n \in Nat /\ s = [j \in 1 .. n |-> s[j]] /\ at \in 1 .. n
    <3>1. k \in 1 .. Len(granted[c]) /\ c \in DOMAIN granted /\ a \in Nat
          /\ InBuffer(granted[c][k], a)
      BY <1>2, <1>5 DEF Meant, c, a
    <3>2. A[c][k] = ArrayAt(pm, root[c], granted[c][k])  BY <1>3, <3>1 DEF Arrayed
    <3>3. Buffer(granted[c][k])  BY <1>3, <3>1, ContextHolds
    <3>4. granted[c][k].vaddr \in Nat /\ n \in Nat  BY <3>3, BufferPlace
    <3>5. at \in 1 .. n  BY <2>2, <3>1, <3>4 DEF InBuffer
    <3> QED  BY <3>2, <3>4, <3>5 DEF ArrayAt
  <2> HIDE DEF s, n
  <2>7. s = A[c][k]  BY DEF s
  <2>8. B = [A EXCEPT ![c][k][at] = w]  BY <2>5, <2>6, <2>7, OneOverwritten
  <2> QED  BY <2>8 DEF w
<1> HIDE DEF c, at
<1> QED  BY <1>6, <1>7, <1>8, <1>9, <1>10 DEF Buffers!Complete, A, B

-----------------------------------------------------------------------------
(* Calls between the steps of an access.                                   *)
LEMMA CallsMap ==
  ASSUME SMInv, SMInv', HostCalls
  PROVE  Buffers!HostCall \/ UNCHANGED <<view, PendingAccess>>
<1> DEFINE x == pm'
           N == mng'
           H == granted'
           q == root'
<1>1. /\ Live /\ Calls /\ latch' = latch /\ running' = running
      /\ \A c \in running : Len(H[c]) >= Len(granted[c])
  BY DEF HostCalls, deviceVars
<1>2. /\ Intact(pm, mng, granted, root) /\ Intact(x, N, H, q)
      /\ running \subseteq DOMAIN granted /\ running \subseteq DOMAIN H
      /\ LatchOk(pm, granted, root, running, latch)
      /\ ProgramsStand(pm, mng, granted, root, program)
  BY <1>1 DEF SMInv, RecordsOk, DeviceOk
<1>3. HostOutcome(pm, mng, granted, root, x, N, H, q)  BY <1>1, <1>2, CallsDone DEF HostDone
<1>4. PendingAccess = AccessOf(granted, latch) /\ PendingAccess' = AccessOf(H, latch)
  BY <1>1, PendingIs
<1> HIDE DEF x, N, H, q
<1>5. Outlasts(pm, mng, granted, root, x, N, H, q, running, program)
  BY <1>1, <1>2, <1>3, HostOutlasts
<1>6. StaysFor(running, pm, x, granted, H, root, q)  BY <1>5 DEF Outlasts
<1>7. AccessOf(H, latch) = AccessOf(granted, latch)  BY <1>2, <1>6, AccessStays
<1>8. PendingAccess' = PendingAccess  BY <1>4, <1>7
<1>9. HostOutcome(pm, mng, granted, root, pm', mng', granted', root')
  BY <1>3 DEF x, N, H, q
<1> QED  BY <1>8, <1>9, HostMaps

LEMMA UploadMaps ==
  ASSUME SMInv, SMInv', NEW c \in DOMAIN granted, NEW size \in ImageSizes, NEW image \in ImageWords,
         UploadProgram(c, size, image)
  PROVE  Buffers!HostCall \/ UNCHANGED <<view, PendingAccess>>
<1> DEFINE x == pm'
           N == mng'
           H == granted'
           q == root'
           done == ret' = "ok"
<1>1. Live /\ UploadKernel(c, size, image) /\ latch' = latch /\ running' = running
  BY DEF UploadProgram, deviceVars
<1>2. /\ Intact(pm, mng, granted, root) /\ Intact(x, N, H, q)
      /\ running \subseteq DOMAIN granted /\ running \subseteq DOMAIN H
      /\ LatchOk(pm, granted, root, running, latch)
      /\ ProgramsStand(pm, mng, granted, root, program)
  BY <1>1 DEF SMInv, RecordsOk, DeviceOk
<1>3. ImageOutcome(pm, mng, granted, root, x, N, H, q, c, size, image, done)
  BY <1>1, <1>2, UploadOutcome DEF ImageDone
<1>4. PendingAccess = AccessOf(granted, latch) /\ PendingAccess' = AccessOf(H, latch)
  BY <1>1, PendingIs
<1> HIDE DEF x, N, H, q, done
<1>5. PICK j \in 0 .. Chunks(size) :
        LoadsImage(pm, mng, granted, root, x, N, H, q, c, size, image, j)
  BY <1>3 DEF ImageOutcome
<1>6. Extended(pm, mng, granted, root, x, N, H, q)  BY <1>2, <1>5, ImageOutlasts
<1>7. Outlasts(pm, mng, granted, root, x, N, H, q, running, program)
  BY <1>2, <1>6, ExtendsOutlasts
<1>8. StaysFor(running, pm, x, granted, H, root, q)  BY <1>7 DEF Outlasts
<1>9. AccessOf(H, latch) = AccessOf(granted, latch)  BY <1>2, <1>8, AccessStays
<1>10. PendingAccess' = PendingAccess  BY <1>4, <1>9
<1>11. ImageOutcome(pm, mng, granted, root, pm', mng', granted', root', c, size, image, done)
  BY <1>3 DEF x, N, H, q
<1> QED  BY <1>10, <1>11, LoadMaps

LEMMA BuffersStep == SMInv /\ SMInv' /\ [SMNext]_smVars => [Buffers!DBNext]_<<view, PendingAccess>>
<1> SUFFICES ASSUME SMInv, SMInv', [SMNext]_smVars
             PROVE  Buffers!DBNext \/ UNCHANGED <<view, PendingAccess>>
  OBVIOUS
<1>0. Buffers!HostCall \/ Buffers!Complete => Buffers!DBNext  BY DEF Buffers!DBNext
<1>1. CASE HostCalls  BY <1>0, <1>1, CallsMap
<1>2. ASSUME NEW c \in DOMAIN granted, NEW size \in ImageSizes, NEW image \in ImageWords,
             UploadProgram(c, size, image)
      PROVE  Buffers!DBNext \/ UNCHANGED <<view, PendingAccess>>
  BY <1>0, <1>2, UploadMaps
<1>3. ASSUME UNCHANGED <<granted, latch, view>>
      PROVE  Buffers!DBNext \/ UNCHANGED <<view, PendingAccess>>
  <2>1. granted' = granted /\ latch' = latch /\ view' = view  BY <1>3
  <2>2. PendingAccess' = PendingAccess  BY <2>1, PendingIs
  <2> QED  BY <2>1, <2>2
<1>4. ASSUME NEW c \in DOMAIN granted, StartKernel(c)
      PROVE  Buffers!DBNext \/ UNCHANGED <<view, PendingAccess>>
  BY <1>3, <1>4 DEF StartKernel, dVars
<1>5. ASSUME NEW c \in DOMAIN granted, FinishKernel(c)
      PROVE  Buffers!DBNext \/ UNCHANGED <<view, PendingAccess>>
  BY <1>3, <1>5 DEF FinishKernel, dVars
<1>6. ASSUME NEW c \in DOMAIN granted, NEW g \in ToSet(granted[c]),
             NEW i \in AccessAt \cap 0 .. g.size - 1, NEW w \in Words \ ({JunkWord} \cup ImageWords),
             Access(c, g, i, w)
      PROVE  Buffers!DBNext \/ UNCHANGED <<view, PendingAccess>>
  BY <1>6, BeginMaps
<1>7. CASE Perform  BY <1>0, <1>7, CompleteMaps
<1>8. CASE UNCHANGED smVars  BY <1>3, <1>8 DEF smVars, dVars
<1> QED  BY <1>1, <1>2, <1>4, <1>5, <1>6, <1>7, <1>8 DEF SMNext

(* driver.h, ventus.cc and processor.h implement the arrays that the calls *)
(* of include/ventus.h give their callers (ImplementsBuffers): a buffer is *)
(* read as it was last written, by the client or by a kernel whose store   *)
(* was held back over other calls.                                         *)
THEOREM BuffersAreArrays == SMSpec => ImplementsBuffers
BY SMInitial, SMStep, BuffersInit, BuffersStep, PTL DEF SMSpec, ImplementsBuffers, Buffers!DBSpec
=============================================================================
