----------------------------- MODULE MemoryProofs -----------------------------
(***************************************************************************)
(* Theorems about PhysicalMemory, and lemmas about each call of class      *)
(* Memory over it (PageTables), for a RAM, a reserved range, page tables   *)
(* and requests of any size.                                               *)
(*                                                                         *)
(* First the RAM: the block list stays sorted and disjoint whatever order  *)
(* blocks are taken and erased in, and usable and insert agree with each   *)
(* other.  In a sorted list the gap usable finds splits the list (Splits)  *)
(* into blocks before the new one and blocks behind it; wherever the       *)
(* cursor stands, insert's walk then stops exactly at that gap             *)
(* (InsertAtSplit), and putting the block there keeps the list sorted.     *)
(*                                                                         *)
(* Then the page tables: what each call does to the blocks of the RAM, to  *)
(* the tables and to the translation of every page (from MemOK on).        *)
(***************************************************************************)
EXTENDS PageTables, ListFacts

(* The block b fits behind the i-th block of the list.                     *)
Splits(m, i, b) ==
  /\ i \in 1 .. Len(m.blocks) - 1
  /\ \A k \in 1 .. i : Before(m.blocks[k], b)
  /\ \A k \in i + 1 .. Len(m.blocks) : Before(b, m.blocks[k])

LEMMA BlockTyped ==
  ASSUME NEW a \in Nat, NEW n \in Nat \ {0}
  PROVE  /\ Block(a, n) \in BlockType
         /\ Block(a, n).addr = a /\ Block(a, n).size = n
         /\ BlockEnd(Block(a, n)) = a + n
BY DEF Block, BlockType, BlockEnd

(* Typed for words of any set: page table entries are not among the words  *)
(* a program writes.                                                       *)
TypedIn(m, Ws) ==
  /\ m = [blocks |-> m.blocks, cur |-> m.cur, pages |-> m.pages, crashed |-> m.crashed]
  /\ m.blocks \in Seq(BlockType)
  /\ m.cur \in 0 .. Len(m.blocks)
  /\ m.crashed \in BOOLEAN
  /\ m.pages \in [DOMAIN m.pages -> [Offsets -> Ws]]

LEMMA ListTyped ==
  ASSUME NEW m, NEW Ws, TypedIn(m, Ws)
  PROVE  /\ Len(m.blocks) \in Nat
         /\ \A k \in 1 .. Len(m.blocks) :
              /\ m.blocks[k] \in BlockType
              /\ m.blocks[k].addr \in Nat /\ m.blocks[k].size \in Nat \ {0}
              /\ BlockEnd(m.blocks[k]) \in Nat
              /\ m.blocks[k].addr < BlockEnd(m.blocks[k])
<1>1. Len(m.blocks) \in Nat
  BY LenProperties DEF TypedIn
<1>2. ASSUME NEW k \in 1 .. Len(m.blocks) PROVE m.blocks[k] \in BlockType
  BY ElementOfSeq DEF TypedIn
<1> QED
  BY <1>1, <1>2 DEF BlockType, BlockEnd

(* usable's running maximum is the end of the last block it has passed.    *)
LEMMA ReachedIsEnd ==
  ASSUME NEW m, NEW Ws, TypedIn(m, Ws), Ordered(m), NEW i \in 1 .. Len(m.blocks)
  PROVE  Reached(m, i) = BlockEnd(m.blocks[i])
<1> DEFINE E == {BlockEnd(m.blocks[k]) : k \in 1 .. i}
           e == BlockEnd(m.blocks[i])
<1>1. e \in E
  BY ListTyped
<1>2. ASSUME NEW x \in E PROVE x \in Nat /\ x <= e
  <2>1. PICK k \in 1 .. i : x = BlockEnd(m.blocks[k])
    OBVIOUS
  <2>2. k \in 1 .. Len(m.blocks)
    BY ListTyped
  <2>3. CASE k = i
    BY <2>1, <2>3, ListTyped
  <2>4. CASE k < i
    <3>1. BlockEnd(m.blocks[k]) <= m.blocks[i].addr
      BY <2>2, <2>4 DEF Ordered, Before
    <3> QED
      BY <2>1, <2>2, <3>1, ListTyped
  <2> QED
    BY <2>2, <2>3, <2>4
<1> HIDE DEF E, e
<1>3. \A x \in E : e >= x
  BY <1>1, <1>2
<1>4. \A y \in E : (\A x \in E : y >= x) => y = e
  BY <1>1, <1>2
<1>5. Max(E) = e
  BY <1>1, <1>3, <1>4 DEF Max
<1> QED
  BY <1>5 DEF Reached, E, e

(* The n pages behind a gap's block split the list.                        *)
LEMMA GapSplits ==
  ASSUME NEW m, NEW Ws, TypedIn(m, Ws), Ordered(m), NEW n \in Nat \ {0}, NEW i \in Gaps(m, n)
  PROVE  LET e == BlockEnd(m.blocks[i])
         IN  /\ i \in 1 .. Len(m.blocks) - 1
             /\ e \in Nat /\ Reached(m, i) = e
             /\ Splits(m, i, Block(e, n))
<1> DEFINE u == BlockEnd(m.blocks[i])
           b == Block(u, n)
<1>1. i \in 1 .. Len(m.blocks) - 1 /\ Len(m.blocks) \in Nat
  BY ListTyped DEF Gaps
<1>2. i \in 1 .. Len(m.blocks) /\ i + 1 \in 1 .. Len(m.blocks)
  BY <1>1
<1>3. u = Reached(m, i) /\ u \in Nat
  BY <1>2, ReachedIsEnd, ListTyped
<1>4. m.blocks[i + 1].addr \in Nat /\ m.blocks[i + 1].addr >= u + n
  <2>1. m.blocks[i + 1].addr > Reached(m, i) + n - 1
    BY DEF Gaps
  <2>2. m.blocks[i + 1].addr \in Nat
    BY <1>2, ListTyped
  <2> HIDE DEF u
  <2> QED
    BY <1>3, <2>1, <2>2
<1>5. b.addr = u /\ BlockEnd(b) = u + n
  BY <1>3, BlockTyped
<1> HIDE DEF u, b
<1>6. ASSUME NEW k \in 1 .. i PROVE Before(m.blocks[k], b)
  <2>1. k \in 1 .. Len(m.blocks) /\ i \in Nat
    BY <1>1
  <2>2. CASE k = i
    BY <1>3, <1>5, <2>2 DEF Before, u
  <2>3. CASE k < i
    <3>1. BlockEnd(m.blocks[k]) <= m.blocks[i].addr
      BY <1>2, <2>1, <2>3 DEF Ordered, Before
    <3>2. /\ BlockEnd(m.blocks[k]) \in Nat /\ m.blocks[i].addr \in Nat
          /\ m.blocks[i].addr < u
      BY <1>2, <2>1, ListTyped DEF u
    <3>3. BlockEnd(m.blocks[k]) <= u
      BY <1>3, <3>1, <3>2
    <3> QED
      BY <1>5, <3>3 DEF Before
  <2> QED
    BY <2>1, <2>2, <2>3
<1>7. ASSUME NEW k \in i + 1 .. Len(m.blocks) PROVE Before(b, m.blocks[k])
  <2>1. k \in 1 .. Len(m.blocks) /\ i + 1 \in Nat
    BY <1>1
  <2>2. CASE k = i + 1
    BY <1>4, <1>5, <2>2 DEF Before
  <2>3. CASE k > i + 1
    <3>1. BlockEnd(m.blocks[i + 1]) <= m.blocks[k].addr
      BY <1>2, <2>1, <2>3 DEF Ordered, Before
    <3>2. /\ BlockEnd(m.blocks[i + 1]) \in Nat
          /\ m.blocks[i + 1].addr < BlockEnd(m.blocks[i + 1])
          /\ m.blocks[k].addr \in Nat
      BY <1>2, <2>1, ListTyped
    <3>3. u + n <= m.blocks[k].addr
      <4> DEFINE x == m.blocks[i + 1].addr
                 y == BlockEnd(m.blocks[i + 1])
                 z == m.blocks[k].addr
      <4>1. x \in Nat /\ y \in Nat /\ z \in Nat /\ x < y /\ y <= z /\ x >= u + n
        BY <1>4, <3>1, <3>2
      <4> HIDE DEF x, y
      <4> QED
        BY <1>3, <4>1
    <3> QED
      BY <1>5, <3>3 DEF Before
  <2> QED
    BY <2>1, <2>2, <2>3
<1>8. Splits(m, i, b)
  BY <1>1, <1>6, <1>7 DEF Splits
<1> QED
  BY <1>1, <1>3, <1>8 DEF u, b

(* What usable answers is the end of a block, and the run of n pages there *)
(* splits the list and ends inside the RAM.                                *)
LEMMA UsableSplits ==
  ASSUME NEW m, NEW Ws, TypedIn(m, Ws), Ordered(m), NEW n \in Nat \ {0}, Usable(m, n) # 0
  PROVE  /\ Usable(m, n) \in Nat /\ Usable(m, n) + n <= MaxRange
         /\ \E i \in 1 .. Len(m.blocks) - 1 :
              /\ Usable(m, n) = BlockEnd(m.blocks[i])
              /\ Splits(m, i, Block(Usable(m, n), n))
<1> DEFINE G == Gaps(m, n)
           i == Min(G)
<1>1. G # {} /\ Reached(m, i) + n <= MaxRange /\ Usable(m, n) = Reached(m, i)
  BY DEF Usable
<1>2. G \subseteq 1 .. Len(m.blocks) - 1 /\ 1 \in Int /\ Len(m.blocks) - 1 \in Int
  BY ListTyped DEF Gaps
<1>3. i \in G
  <2> HIDE DEF G
  <2> QED
    BY <1>1, <1>2, MinFacts
<1> HIDE DEF i
<1>4. /\ i \in 1 .. Len(m.blocks) - 1
      /\ BlockEnd(m.blocks[i]) \in Nat /\ Reached(m, i) = BlockEnd(m.blocks[i])
      /\ Splits(m, i, Block(BlockEnd(m.blocks[i]), n))
  BY <1>3, GapSplits
<1> QED
  BY <1>1, <1>4

-----------------------------------------------------------------------------
(* Wherever the cursor stands, the walk of insert stops at the split.      *)
LEMMA InsertAtSplit ==
  ASSUME NEW m, NEW Ws, TypedIn(m, Ws), m.cur # 0, NEW a \in Nat, NEW n \in Nat \ {0},
         NEW i, Splits(m, i, Block(a, n)), NEW ub
  PROVE  \E c \in 1 .. Len(m.blocks) + 1 :
           InsertBlock(m, a, n, ub) = Place(m, i + 1, Block(a, n), c)
<1> DEFINE b == Block(a, n)
           L == Len(m.blocks)
<1>1. /\ L \in Nat /\ m.cur \in 1 .. L
      /\ i \in 1 .. L - 1
      /\ \A k \in 1 .. i : Before(m.blocks[k], b)
      /\ \A k \in i + 1 .. L : Before(b, m.blocks[k])
  BY ListTyped DEF TypedIn, Splits
<1>2. b.addr = a /\ BlockEnd(b) = a + n
  BY BlockTyped
<1> HIDE DEF b
<1>3. /\ \A k \in 1 .. i : ~Before(b, m.blocks[k])
      /\ \A k \in i + 1 .. L : ~Before(m.blocks[k], b)
  <2>1. ASSUME NEW k \in 1 .. i PROVE ~Before(b, m.blocks[k])
    <3>1. k \in 1 .. L /\ BlockEnd(m.blocks[k]) <= a
      BY <1>1, <1>2, <2>1 DEF Before
    <3>2. m.blocks[k].addr \in Nat /\ m.blocks[k].addr < a
      BY <3>1, ListTyped
    <3> QED
      BY <1>2, <3>2 DEF Before
  <2>2. ASSUME NEW k \in i + 1 .. L PROVE ~Before(m.blocks[k], b)
    <3>1. k \in 1 .. L /\ a + n <= m.blocks[k].addr
      BY <1>1, <1>2, <2>2 DEF Before
    <3>2. BlockEnd(m.blocks[k]) \in Nat /\ a < BlockEnd(m.blocks[k])
      BY <3>1, ListTyped
    <3> QED
      BY <1>2, <3>2 DEF Before
  <2> QED
    BY <2>1, <2>2
<1>4. CASE m.cur > i
  <2> DEFINE lower == {k \in 1 .. m.cur - 1 : Before(m.blocks[k], b)}
  <2>1. lower = 1 .. i
    <3>1. \A k \in 1 .. m.cur - 1 : k \in 1 .. L /\ (k \in 1 .. i \/ k \in i + 1 .. L)
      BY <1>1
    <3>2. \A k \in 1 .. i : k \in 1 .. m.cur - 1
      BY <1>1, <1>4
    <3> QED
      BY <1>1, <1>3, <3>1, <3>2
  <2>2. lower # {} /\ Max(lower) = i
    <3>1. 1 \in Int /\ i \in Int /\ i \in 1 .. i
      BY <1>1
    <3>2. Max(1 .. i) \in 1 .. i /\ \A y \in 1 .. i : Max(1 .. i) >= y
      BY <3>1, MaxFacts
    <3>3. Max(1 .. i) = i
      BY <3>1, <3>2
    <3> HIDE DEF lower
    <3> QED
      BY <2>1, <3>1, <3>3
  <2>3. Before(b, m.blocks[m.cur]) /\ ~Before(m.blocks[m.cur], b)
    BY <1>1, <1>3, <1>4
  <2>4. InsertBlock(m, a, n, ub) = InsertBelow(m, b)
    BY <2>3, <1>1 DEF InsertBlock, b
  <2>5. InsertBelow(m, b) = Place(m, i + 1, b, i)
    BY <2>2 DEF InsertBelow
  <2> QED
    BY <1>1, <2>4, <2>5 DEF b
<1>5. CASE m.cur <= i
  <2> DEFINE upper == {k \in m.cur + 1 .. L : Before(b, m.blocks[k])}
  <2>1. upper = i + 1 .. L
    BY <1>1, <1>3, <1>5
  <2>2. upper # {} /\ Min(upper) = i + 1
    <3>1. i + 1 \in Int /\ L \in Int /\ i + 1 \in i + 1 .. L
      BY <1>1
    <3>2. Min(i + 1 .. L) \in i + 1 .. L /\ \A y \in i + 1 .. L : Min(i + 1 .. L) <= y
      BY <3>1, MinFacts
    <3>3. Min(i + 1 .. L) = i + 1
      BY <3>1, <3>2
    <3> HIDE DEF upper
    <3> QED
      BY <2>1, <3>1, <3>3
  <2>3. Before(m.blocks[m.cur], b) /\ ~Before(b, m.blocks[m.cur])
    BY <1>1, <1>3, <1>5
  <2>4. InsertBlock(m, a, n, ub) = InsertAbove(m, b)
    BY <2>3, <1>1 DEF InsertBlock, b
  <2>5. InsertAbove(m, b) = Place(m, i + 1, b, (i + 1) + 1)
    BY <2>2 DEF InsertAbove, L
  <2>6. (i + 1) + 1 \in 1 .. L + 1
    BY <1>1
  <2> QED
    BY <2>4, <2>5, <2>6 DEF b
<1> QED
  BY <1>1, <1>4, <1>5

(* Putting a block at its split keeps the memory typed and sorted.         *)
LEMMA PlaceFacts ==
  ASSUME NEW m, NEW Ws, 0 \in Ws, TypedIn(m, Ws), Ordered(m), NEW b \in BlockType,
         NEW i, Splits(m, i, b), NEW c \in 1 .. Len(m.blocks) + 1
  PROVE  LET p == Place(m, i + 1, b, c)
         IN  TypedIn(p, Ws) /\ Ordered(p) /\ HasInserted(p.blocks, m.blocks, i + 1, b)
<1> DEFINE L == Len(m.blocks)
           p == Place(m, i + 1, b, c)
           s == InsertAt(m.blocks, i + 1, b)
           g == [q \in DOMAIN m.pages \cup PagesOf(b) |->
                   IF q \in PagesOf(b) THEN ZeroPage ELSE m.pages[q]]
<1>1. L \in Nat /\ i \in 1 .. L - 1 /\ i + 1 \in 1 .. L + 1
  BY ListTyped DEF Splits
<1>2. /\ s \in Seq(BlockType) /\ Len(s) = L + 1
      /\ HasInserted(s, m.blocks, i + 1, b)
      /\ \A k \in 1 .. L + 1 :
           s[k] = IF k <= i THEN m.blocks[k] ELSE IF k = i + 1 THEN b ELSE m.blocks[k - 1]
  <2>1. m.blocks \in Seq(BlockType)
    BY DEF TypedIn
  <2>2. /\ s \in Seq(BlockType) /\ Len(s) = L + 1
        /\ HasInserted(s, m.blocks, i + 1, b)
        /\ \A k \in 1 .. L + 1 :
             s[k] = IF k < i + 1 THEN m.blocks[k]
                    ELSE IF k = i + 1 THEN b ELSE m.blocks[k - 1]
    <3> DEFINE t == m.blocks
               j == i + 1
    <3>1. t \in Seq(BlockType) /\ j \in 1 .. Len(t) + 1 /\ L = Len(t)
      BY <1>1, <2>1
    <3> HIDE DEF t, j, L
    <3>2. InsertAt(t, j, b) \in Seq(BlockType) /\ HasInserted(InsertAt(t, j, b), t, j, b)
      BY <3>1, InsertAtFacts
    <3> QED
      BY <3>1, <3>2 DEF t, j, HasInserted
  <2> QED
    BY <1>1, <2>2
<1>3. p = [blocks |-> s, cur |-> c, pages |-> g, crashed |-> m.crashed]
  BY DEF Place
<1>4. ZeroPage \in [Offsets -> Ws]
  BY DEF ZeroPage
<1>5. g \in [DOMAIN g -> [Offsets -> Ws]]
  BY <1>4 DEF TypedIn
<1> HIDE DEF p, s, g
<1>6. TypedIn(p, Ws)
  BY <1>2, <1>3, <1>5, <1>1 DEF TypedIn
<1>7. Ordered(p)
  <2> SUFFICES ASSUME NEW j \in 1 .. L + 1, NEW k \in 1 .. L + 1, j < k
               PROVE  Before(s[j], s[k])
    BY <1>2, <1>3 DEF Ordered
  <2>1. CASE k <= i
    <3>1. s[j] = m.blocks[j] /\ s[k] = m.blocks[k] /\ j \in 1 .. L /\ k \in 1 .. L
      BY <1>1, <1>2, <2>1
    <3> QED
      BY <3>1 DEF Ordered
  <2>2. CASE k = i + 1
    <3>1. j \in 1 .. i /\ j <= i /\ ~(k <= i)
      BY <1>1, <2>2
    <3>2. s[j] = m.blocks[j]
      BY <1>2, <3>1
    <3>3. s[k] = b
      BY <1>2, <2>2, <3>1
    <3> QED
      BY <3>1, <3>2, <3>3 DEF Splits
  <2>3. CASE k > i + 1
    <3>1. s[k] = m.blocks[k - 1] /\ k - 1 \in i + 1 .. L
      BY <1>1, <1>2, <2>3
    <3>2. CASE j <= i
      <4>1. s[j] = m.blocks[j] /\ j \in 1 .. L /\ k - 1 \in 1 .. L /\ j < k - 1
        BY <1>1, <1>2, <2>3, <3>2
      <4> QED
        BY <3>1, <4>1 DEF Ordered
    <3>3. CASE j = i + 1
      BY <1>1, <1>2, <3>1, <3>3 DEF Splits
    <3>4. CASE j > i + 1
      <4>1. /\ s[j] = m.blocks[j - 1] /\ j - 1 \in 1 .. L
            /\ k - 1 \in 1 .. L /\ j - 1 < k - 1
        BY <1>1, <1>2, <2>3, <3>4
      <4> QED
        BY <3>1, <4>1 DEF Ordered
    <3> QED
      BY <1>1, <3>2, <3>3, <3>4
  <2> QED
    BY <1>1, <2>1, <2>2, <2>3
<1>8. /\ p.cur = c /\ p.crashed = m.crashed /\ p.blocks = s /\ p.pages = g
  BY <1>3
<1> QED
  BY <1>2, <1>6, <1>7, <1>8 DEF p, g

-----------------------------------------------------------------------------
(* Erasing a block keeps the memory typed and sorted.                      *)
LEMMA RemoveFacts ==
  ASSUME NEW m, NEW Ws, TypedIn(m, Ws), Ordered(m), NEW p, BlockAt(m, p) # {}
  PROVE  LET k == Min(BlockAt(m, p))
             r == RemoveBlock(m, p)
         IN  /\ k \in 1 .. Len(m.blocks)
             /\ Holds(m.blocks[k], p)
             /\ TypedIn(r, Ws) /\ Ordered(r)
             /\ HasRemoved(r.blocks, m.blocks, k)
             /\ r.pages = [q \in DOMAIN m.pages \ PagesOf(m.blocks[k]) |-> m.pages[q]]
             /\ r.crashed = m.crashed
<1> DEFINE L == Len(m.blocks)
           k == Min(BlockAt(m, p))
           r == RemoveBlock(m, p)
           s == RemoveAt(m.blocks, k)
           c == IF m.cur = k THEN 0 ELSE IF m.cur > k THEN m.cur - 1 ELSE m.cur
           g == [q \in DOMAIN m.pages \ PagesOf(m.blocks[k]) |-> m.pages[q]]
<1>1. L \in Nat /\ m.cur \in 0 .. L /\ m.blocks \in Seq(BlockType)
  BY ListTyped DEF TypedIn
<1>2. k \in 1 .. L /\ Holds(m.blocks[k], p)
  <2>1. BlockAt(m, p) \subseteq 1 .. L /\ 1 \in Int /\ L \in Int
    BY <1>1 DEF BlockAt
  <2>2. k \in BlockAt(m, p)
    BY <2>1, MinFacts
  <2> QED
    BY <2>2 DEF BlockAt
<1>3. r = [blocks |-> s, cur |-> c, pages |-> g, crashed |-> m.crashed]
  BY DEF RemoveBlock
<1> HIDE DEF k
<1>4. s \in Seq(BlockType) /\ HasRemoved(s, m.blocks, k)
  BY <1>1, <1>2, RemoveAtFacts
<1>5. c \in 0 .. Len(s)
  <2>1. Len(s) = L - 1
    BY <1>4 DEF HasRemoved
  <2> QED
    BY <1>1, <1>2, <2>1
<1>6. g \in [DOMAIN g -> [Offsets -> Ws]]
  BY DEF TypedIn
<1> HIDE DEF r, s, c, g
<1>7. TypedIn(r, Ws)
  BY <1>3, <1>4, <1>5, <1>6 DEF TypedIn
<1>8. Ordered(r)
  <2> SUFFICES ASSUME NEW i \in 1 .. L - 1, NEW j \in 1 .. L - 1, i < j
               PROVE  Before(s[i], s[j])
    BY <1>3, <1>4 DEF Ordered, HasRemoved
  <2>1. PICK x \in 1 .. L, y \in 1 .. L : x < y /\ s[i] = m.blocks[x] /\ s[j] = m.blocks[y]
    <3>1. /\ s[i] = IF i < k THEN m.blocks[i] ELSE m.blocks[i + 1]
          /\ s[j] = IF j < k THEN m.blocks[j] ELSE m.blocks[j + 1]
      BY <1>4 DEF HasRemoved
    <3> DEFINE x == IF i < k THEN i ELSE i + 1
               y == IF j < k THEN j ELSE j + 1
    <3>2. x \in 1 .. L /\ y \in 1 .. L /\ x < y
      BY <1>1, <1>2
    <3>3. s[i] = m.blocks[x] /\ s[j] = m.blocks[y]
      BY <3>1
    <3> HIDE DEF x, y
    <3> QED
      BY <3>2, <3>3
  <2> QED
    BY <2>1 DEF Ordered
<1>9. r.blocks = s /\ r.pages = g /\ r.crashed = m.crashed
  BY <1>3
<1> QED
  BY <1>2, <1>4, <1>7, <1>8, <1>9 DEF r, s, g, k

(* Writing words and dying touch neither the list nor the cursor.          *)
LEMMA WriteFacts ==
  ASSUME NEW m, NEW Ws, TypedIn(m, Ws), NEW p, NEW is, NEW w \in Ws
  PROVE  LET r == WriteData(m, p, is, w)
         IN  /\ TypedIn(r, Ws) /\ r.blocks = m.blocks /\ r.cur = m.cur
             /\ r.crashed = m.crashed
             /\ DOMAIN r.pages = DOMAIN m.pages
<1> DEFINE r == WriteData(m, p, is, w)
           page == [i \in Offsets |-> IF i \in is THEN w ELSE m.pages[p][i]]
           g == [m.pages EXCEPT ![p] = page]
<1>1. CASE p \notin DOMAIN m.pages
  BY <1>1 DEF WriteData
<1>2. CASE p \in DOMAIN m.pages
  <2>1. r = [m EXCEPT !.pages = g]
    BY <1>2 DEF WriteData
  <2>2. page \in [Offsets -> Ws]
    <3>1. m.pages[p] \in [Offsets -> Ws]
      BY <1>2 DEF TypedIn
    <3> QED
      BY <3>1
  <2>3. DOMAIN g = DOMAIN m.pages /\ g \in [DOMAIN g -> [Offsets -> Ws]]
    <3> HIDE DEF page
    <3> QED
      BY <1>2, <2>2 DEF TypedIn
  <2> HIDE DEF g, r
  <2>4. r = [blocks |-> m.blocks, cur |-> m.cur, pages |-> g, crashed |-> m.crashed]
    BY <2>1 DEF TypedIn
  <2>5. r.blocks = m.blocks /\ r.cur = m.cur /\ r.pages = g /\ r.crashed = m.crashed
    BY <2>4
  <2>6. TypedIn(r, Ws)
    BY <2>3, <2>4, <2>5 DEF TypedIn
  <2> QED
    BY <2>3, <2>5, <2>6 DEF r
<1> QED
  BY <1>1, <1>2

LEMMA CrashFacts ==
  ASSUME NEW m, NEW Ws, TypedIn(m, Ws), NEW x \in BOOLEAN
  PROVE  LET r == [m EXCEPT !.crashed = x]
         IN  /\ TypedIn(r, Ws) /\ r.blocks = m.blocks /\ r.cur = m.cur
             /\ r.pages = m.pages /\ r.crashed = x
<1> DEFINE r == [m EXCEPT !.crashed = x]
<1>1. r = [blocks |-> m.blocks, cur |-> m.cur, pages |-> m.pages, crashed |-> x]
  BY DEF TypedIn
<1> HIDE DEF r
<1>2. r.blocks = m.blocks /\ r.cur = m.cur /\ r.pages = m.pages /\ r.crashed = x
  BY <1>1
<1>3. TypedIn(r, Ws)
  BY <1>1, <1>2 DEF TypedIn
<1> QED
  BY <1>2, <1>3 DEF r

-----------------------------------------------------------------------------
(* The inductive invariant: a typed, sorted list, and a process that only  *)
(* dies over a dangling cursor.                                            *)
SafeMemory(m) == TypedIn(m, Words) /\ Ordered(m) /\ (m.crashed => m.cur = 0)
Sorted == SafeMemory(pm)

LEMMA InitialSafe == SafeMemory(InitialMemory)
<1> DEFINE b == Block(0, Reserved)
           e == Block(MaxRange, 1)
<1>1. b \in BlockType /\ e \in BlockType /\ BlockEnd(b) = Reserved /\ e.addr = MaxRange
  <2>1. /\ 0 \in Nat /\ Reserved \in Nat \ {0} /\ MaxRange \in Nat /\ 1 \in Nat \ {0}
        /\ 0 + Reserved = Reserved
    BY PhysicalAssumption
  <2>2. b \in BlockType /\ BlockEnd(b) = 0 + Reserved
    BY <2>1, BlockTyped
  <2>3. e \in BlockType /\ e.addr = MaxRange
    BY <2>1, BlockTyped
  <2> QED
    BY <2>1, <2>2, <2>3
<1> HIDE DEF b, e
<1>2. <<b, e>> \in Seq(BlockType) /\ Len(<<b, e>>) = 2 /\ <<b, e>>[1] = b /\ <<b, e>>[2] = e
  BY <1>1
<1> DEFINE m == InitialMemory
<1>3. m = [blocks |-> <<b, e>>, cur |-> 1, pages |-> [p \in {} |-> ZeroPage], crashed |-> FALSE]
  BY DEF InitialMemory, b, e
<1>4. /\ m.blocks = <<b, e>> /\ m.cur = 1 /\ m.crashed = FALSE
      /\ m.pages = [p \in {} |-> ZeroPage]
  BY <1>3
<1>5. TypedIn(m, Words)
  <2>1. m.cur \in 0 .. Len(m.blocks)
    BY <1>2, <1>4
  <2>2. m.pages \in [DOMAIN m.pages -> [Offsets -> Words]]
    BY <1>4
  <2>3. m = [blocks |-> m.blocks, cur |-> m.cur, pages |-> m.pages, crashed |-> m.crashed]
    BY <1>3
  <2> HIDE DEF m
  <2> QED
    BY <1>2, <1>4, <2>1, <2>2, <2>3 DEF TypedIn
<1>6. Ordered(m)
  <2>1. Before(b, e)
    BY <1>1, PhysicalAssumption DEF Before
  <2> HIDE DEF m
  <2> QED
    BY <1>2, <1>4, <2>1 DEF Ordered
<1> QED
  BY <1>4, <1>5, <1>6 DEF SafeMemory

LEMMA SortedInit == PMInit => Sorted
BY InitialSafe DEF PMInit, Sorted

(* What Take does to a sorted memory: it dies, changes nothing but that,   *)
(* or puts the block at the split usable found.                            *)
LEMMA TakeFacts ==
  ASSUME NEW m, NEW Ws, TypedIn(m, Ws), Ordered(m), NEW n \in Nat \ {0}, Usable(m, n) # 0,
         m.cur # 0, NEW ub
  PROVE  LET b == Block(Usable(m, n), n)
         IN  /\ b \in BlockType /\ BlockEnd(b) <= MaxRange
             /\ \E i \in 1 .. Len(m.blocks) - 1, c \in 1 .. Len(m.blocks) + 1 :
                  /\ b.addr = BlockEnd(m.blocks[i])
                  /\ Splits(m, i, b)
                  /\ InsertBlock(m, Usable(m, n), n, ub) = Place(m, i + 1, b, c)
<1> DEFINE u == Usable(m, n)
           b == Block(u, n)
<1>1. /\ u \in Nat /\ u + n <= MaxRange
      /\ \E i \in 1 .. Len(m.blocks) - 1 :
           u = BlockEnd(m.blocks[i]) /\ Splits(m, i, b)
  BY UsableSplits
<1> HIDE DEF u
<1>2. PICK i \in 1 .. Len(m.blocks) - 1 : u = BlockEnd(m.blocks[i]) /\ Splits(m, i, b)
  BY <1>1
<1>3. b \in BlockType /\ b.addr = u /\ BlockEnd(b) = u + n
  BY <1>1, BlockTyped
<1>4. PICK c \in 1 .. Len(m.blocks) + 1 :
        InsertBlock(m, u, n, ub) = Place(m, i + 1, b, c)
  BY <1>1, <1>2, InsertAtSplit
<1> QED
  BY <1>1, <1>2, <1>3, <1>4 DEF u

LEMMA DanglingInsert ==
  ASSUME NEW m, m.cur = 0, NEW a, NEW n, NEW ub
  PROVE  InsertBlock(m, a, n, ub) = [m EXCEPT !.crashed = (ub = "crash")]
BY DEF InsertBlock

LEMMA SortedStep == Sorted /\ [PMNext]_pm => Sorted'
<1> SUFFICES ASSUME SafeMemory(pm), [PMNext]_pm PROVE SafeMemory(pm')
  BY DEF Sorted
<1>0. TypedIn(pm, Words) /\ Ordered(pm) /\ (pm.crashed => pm.cur = 0)
  BY DEF SafeMemory
<1>1. ASSUME NEW n \in 1 .. MaxTake, Take(n) PROVE SafeMemory(pm')
  <2>1. PICK ub \in {"conflict", "crash"} : pm' = InsertBlock(pm, Usable(pm, n), n, ub)
    BY <1>1 DEF Take
  <2>2. Usable(pm, n) # 0 /\ n \in Nat \ {0}
    BY <1>1, PhysicalAssumption DEF Take
  <2>3. CASE pm.cur = 0
    <3>1. pm' = [pm EXCEPT !.crashed = (ub = "crash")]
      BY <2>1, <2>3, DanglingInsert
    <3>2. (ub = "crash") \in BOOLEAN
      OBVIOUS
    <3> QED
      <4>1. TypedIn(pm', Words) /\ pm'.blocks = pm.blocks /\ pm'.cur = pm.cur
        BY <1>0, <3>1, <3>2, CrashFacts
      <4>2. Ordered(pm')
        BY <1>0, <4>1 DEF Ordered
      <4> QED
        BY <2>3, <4>1, <4>2 DEF SafeMemory
  <2>4. CASE pm.cur # 0
    <3> DEFINE b == Block(Usable(pm, n), n)
    <3>1. b \in BlockType
      BY <1>0, <2>2, <2>4, TakeFacts
    <3>2. PICK i \in 1 .. Len(pm.blocks) - 1, c \in 1 .. Len(pm.blocks) + 1 :
            Splits(pm, i, b) /\ pm' = Place(pm, i + 1, b, c)
      BY <1>0, <2>1, <2>2, <2>4, TakeFacts
    <3> HIDE DEF b
    <3> QED
      <4>1. TypedIn(pm', Words) /\ Ordered(pm')
        BY <1>0, <3>1, <3>2, PlaceFacts, PhysicalAssumption
      <4>2. pm'.crashed = pm.crashed
        BY <3>2 DEF Place
      <4> QED
        BY <1>0, <2>4, <4>1, <4>2 DEF SafeMemory
  <2> QED
    BY <2>3, <2>4
<1>2. ASSUME ~pm.crashed, NEW p \in 0 .. MaxRange, Erase(p) PROVE SafeMemory(pm')
  <2>1. pm' = RemoveBlock(pm, p)
    BY <1>2 DEF Erase
  <2>2. CASE BlockAt(pm, p) = {}
    BY <2>1, <2>2 DEF RemoveBlock
  <2>3. CASE BlockAt(pm, p) # {}
    <3>1. TypedIn(pm', Words) /\ Ordered(pm') /\ pm'.crashed = pm.crashed
      BY <1>0, <2>1, <2>3, RemoveFacts
    <3> QED
      BY <1>2, <3>1 DEF SafeMemory
  <2> QED
    BY <2>2, <2>3
<1>3. ASSUME ~pm.crashed, NEW p \in 0 .. MaxRange, NEW i \in Offsets, NEW w \in Words, Store(p, i, w)
      PROVE  SafeMemory(pm')
  BY <1>0, <1>3, WriteFacts DEF SafeMemory, Store, Ordered
<1>4. CASE UNCHANGED pm
  BY <1>4
<1> QED
  BY <1>1, <1>2, <1>3, <1>4 DEF PMNext

(* Every reachable memory is well typed (PMTypeOK).                        *)
THEOREM TypeCorrect == PMSpec => []PMTypeOK
<1>1. Sorted => PMTypeOK
  BY DEF Sorted, SafeMemory, PMTypeOK, Typed, TypedIn
<1> QED
  BY <1>1, SortedInit, SortedStep, PTL DEF PMSpec

(* page.h: the list is sorted and no two blocks share a page, whatever     *)
(* order blocks were inserted and removed in (BlocksOrdered).              *)
THEOREM ListSorted == PMSpec => []BlocksOrdered
<1>1. Sorted => BlocksOrdered
  BY DEF Sorted, SafeMemory, BlocksOrdered
<1> QED
  BY <1>1, SortedInit, SortedStep, PTL DEF PMSpec

-----------------------------------------------------------------------------
(* With a live cursor, what usable answered is what insert inserts, for    *)
(* every sorted memory (UsableInsertable).                                 *)
LEMMA SortedInsertable == Sorted => UsableInsertable
<1> SUFFICES ASSUME SafeMemory(pm), pm.cur # 0,
                    NEW n \in 1 .. MaxTake, Usable(pm, n) # 0
             PROVE  LET m == InsertBlock(pm, Usable(pm, n), n, "crash")
                    IN  /\ ~m.crashed /\ Len(m.blocks) = Len(pm.blocks) + 1
                        /\ m.cur # 0
                        /\ ToSet(m.blocks) = ToSet(pm.blocks) \cup {Block(Usable(pm, n), n)}
  <2> DEFINE Q(n) == LET m == InsertBlock(pm, Usable(pm, n), n, "crash")
                     IN  /\ ~m.crashed /\ Len(m.blocks) = Len(pm.blocks) + 1
                         /\ m.cur # 0
                         /\ ToSet(m.blocks) = ToSet(pm.blocks) \cup {Block(Usable(pm, n), n)}
  <2>1. UsableInsertable <=> (pm.cur # 0 => \A n \in 1 .. MaxTake : Usable(pm, n) # 0 => Q(n))
    BY DEF UsableInsertable
  <2> HIDE DEF Q
  <2>2. (pm.cur # 0 => \A n \in 1 .. MaxTake : Usable(pm, n) # 0 => Q(n)) => UsableInsertable
    BY <2>1
  <2> QED
    BY <2>2 DEF Sorted, Q
<1> DEFINE b == Block(Usable(pm, n), n)
           m == InsertBlock(pm, Usable(pm, n), n, "crash")
           L == Len(pm.blocks)
<1>1. TypedIn(pm, Words) /\ Ordered(pm) /\ ~pm.crashed /\ n \in Nat \ {0} /\ L \in Nat
  BY PhysicalAssumption, ListTyped DEF SafeMemory, TypedIn
<1>2. b \in BlockType
  BY <1>1, TakeFacts
<1>3. PICK i \in 1 .. L - 1, c \in 1 .. L + 1 :
        Splits(pm, i, b) /\ m = Place(pm, i + 1, b, c)
  BY <1>1, TakeFacts
<1> HIDE DEF b, m
<1>4. /\ m.cur = c /\ m.crashed = pm.crashed /\ TypedIn(m, Words)
      /\ Len(m.blocks) = L + 1
      /\ \A k \in 1 .. L + 1 :
           m.blocks[k] = IF k <= i THEN pm.blocks[k]
                         ELSE IF k = i + 1 THEN b ELSE pm.blocks[k - 1]
  <2>1. TypedIn(m, Words) /\ HasInserted(m.blocks, pm.blocks, i + 1, b)
    BY <1>1, <1>2, <1>3, PlaceFacts, PhysicalAssumption
  <2>3. m.cur = c /\ m.crashed = pm.crashed
    BY <1>3 DEF Place
  <2>2. \A k \in 1 .. L + 1 : k < i + 1 <=> k <= i
    BY <1>1
  <2> QED
    BY <2>1, <2>2, <2>3 DEF HasInserted
<1>5. DOMAIN m.blocks = 1 .. L + 1 /\ DOMAIN pm.blocks = 1 .. L
  BY <1>1, <1>4, LenProperties DEF TypedIn
<1>6. ToSet(m.blocks) \subseteq ToSet(pm.blocks) \cup {b}
  <2> SUFFICES ASSUME NEW k \in 1 .. L + 1
               PROVE  m.blocks[k] = b \/ \E j \in 1 .. L : m.blocks[k] = pm.blocks[j]
    BY <1>5 DEF ToSet
  <2>1. k <= i => k \in 1 .. L
    BY <1>1
  <2>2. k > i + 1 => k - 1 \in 1 .. L
    BY <1>1
  <2> QED
    BY <1>1, <1>4, <2>1, <2>2
<1>7. ToSet(pm.blocks) \cup {b} \subseteq ToSet(m.blocks)
  <2>1. ASSUME NEW k \in 1 .. L PROVE \E j \in 1 .. L + 1 : m.blocks[j] = pm.blocks[k]
    <3>1. CASE k <= i
      <4>1. k \in 1 .. L + 1
        BY <1>1
      <4> QED
        BY <1>4, <3>1, <4>1
    <3>2. CASE k > i
      <4>1. k + 1 \in 1 .. L + 1 /\ ~(k + 1 <= i) /\ k + 1 # i + 1 /\ (k + 1) - 1 = k
        BY <1>1, <3>2
      <4> QED
        BY <1>4, <4>1
    <3> QED
      BY <1>1, <3>1, <3>2
  <2>2. \E j \in 1 .. L + 1 : m.blocks[j] = b
    <3>1. i + 1 \in 1 .. L + 1 /\ ~(i + 1 <= i)
      BY <1>1
    <3> QED
      BY <1>4, <3>1
  <2>3. b \in ToSet(m.blocks)
    BY <1>5, <2>2 DEF ToSet
  <2>4. ToSet(pm.blocks) \subseteq ToSet(m.blocks)
    BY <1>5, <2>1 DEF ToSet
  <2> QED
    BY <2>3, <2>4
<1>8. m.cur # 0
  BY <1>1, <1>4
<1> QED
  BY <1>1, <1>4, <1>6, <1>7, <1>8 DEF b, m

(* memory.h relies on it without looking at insert's answer: an insert at  *)
(* the address usable gave succeeds while the cursor is live, and the      *)
(* process never dies before it dangles (UsableInsertable).                *)
THEOREM InsertNeverFails == PMSpec => []UsableInsertable
  BY SortedInit, SortedStep, SortedInsertable, PTL DEF PMSpec

-----------------------------------------------------------------------------
(* Every page has its block (Backed), as an invariant beside the order.    *)
LEMMA PlaceBacked ==
  ASSUME NEW m, NEW Ws, 0 \in Ws, TypedIn(m, Ws), Ordered(m), Backed(m),
         NEW b \in BlockType, Reserved <= b.addr, BlockEnd(b) <= MaxRange,
         NEW i, Splits(m, i, b), NEW c \in 1 .. Len(m.blocks) + 1
  PROVE  Backed(Place(m, i + 1, b, c))
<1> DEFINE p == Place(m, i + 1, b, c)
           L == Len(m.blocks)
<1>1. TypedIn(p, Ws) /\ Ordered(p) /\ HasInserted(p.blocks, m.blocks, i + 1, b)
  BY PlaceFacts
<1>2. /\ DOMAIN p.pages = DOMAIN m.pages \cup PagesOf(b)
  BY DEF Place
<1>3. /\ L \in Nat /\ i \in 1 .. L - 1 /\ Len(p.blocks) = L + 1
      /\ b.addr \in Nat /\ b.size \in Nat \ {0} /\ BlockEnd(b) \in Nat
      /\ MaxRange \in Nat /\ Reserved \in Nat
  BY <1>1, ListTyped, PhysicalAssumption DEF Splits, HasInserted, BlockType, BlockEnd
<1> HIDE DEF p
<1>4. p.blocks[i + 1] = b /\ i + 1 \in 1 .. L + 1
  <2>1. i + 1 \in 1 .. L + 1 /\ ~(i + 1 < i + 1)
    BY <1>3
  <2> QED
    BY <1>1, <2>1 DEF HasInserted
<1>5. ASSUME NEW k \in 1 .. L PROVE \E j \in 1 .. L + 1 : p.blocks[j] = m.blocks[k]
  <2>1. CASE k < i + 1
    <3>1. k \in 1 .. L + 1
      BY <1>3
    <3> QED
      BY <1>1, <2>1, <3>1 DEF HasInserted
  <2>2. CASE ~(k < i + 1)
    <3>1. k + 1 \in 1 .. L + 1 /\ ~(k + 1 < i + 1) /\ k + 1 # i + 1 /\ (k + 1) - 1 = k
      BY <1>3, <2>2
    <3> QED
      BY <1>1, <3>1 DEF HasInserted
  <2> QED
    BY <2>1, <2>2
<1>6. ASSUME NEW j \in 1 .. L + 1 PROVE p.blocks[j] = b \/ \E k \in 1 .. L : p.blocks[j] = m.blocks[k]
  <2>1. j < i + 1 => j \in 1 .. L
    BY <1>3
  <2>2. ~(j < i + 1) /\ j # i + 1 => j - 1 \in 1 .. L
    BY <1>3
  <2> QED
    BY <1>1, <2>1, <2>2 DEF HasInserted
<1>7. ASSUME NEW q \in DOMAIN p.pages
      PROVE  Reserved <= q /\ q < MaxRange /\ BlockAt(p, q) # {}
  <2>1. CASE q \in PagesOf(b)
    <3>1. q \in Nat /\ b.addr <= q /\ q < BlockEnd(b)
      BY <1>3, <2>1 DEF PagesOf
    <3>2. BlockAt(p, q) # {}
      BY <1>3, <1>4, <2>1 DEF BlockAt, Holds
    <3> QED
      BY <1>3, <3>1, <3>2
  <2>2. CASE q \in DOMAIN m.pages
    <3>1. Reserved <= q /\ q < MaxRange /\ BlockAt(m, q) # {}
      BY <2>2 DEF Backed
    <3>2. PICK k \in 1 .. L : Holds(m.blocks[k], q)
      BY <3>1 DEF BlockAt
    <3>3. BlockAt(p, q) # {}
      BY <1>3, <1>5, <3>2 DEF BlockAt
    <3> QED
      BY <3>1, <3>3
  <2> QED
    BY <1>2, <2>1, <2>2
<1>8. ASSUME NEW j \in 1 .. L + 1
      PROVE  \/ p.blocks[j] \in {Block(0, Reserved), Block(MaxRange, 1)}
             \/ PagesOf(p.blocks[j]) \subseteq DOMAIN p.pages
  BY <1>2, <1>6 DEF Backed
<1> QED
  BY <1>3, <1>7, <1>8 DEF Backed, p

LEMMA RemoveBacked ==
  ASSUME NEW m, NEW Ws, TypedIn(m, Ws), Ordered(m), Backed(m), NEW p, BlockAt(m, p) # {}
  PROVE  Backed(RemoveBlock(m, p))
<1> DEFINE r == RemoveBlock(m, p)
           x == Min(BlockAt(m, p))
           L == Len(m.blocks)
<1>1. x \in 1 .. L /\ TypedIn(r, Ws) /\ HasRemoved(r.blocks, m.blocks, x)
  BY RemoveFacts
<1>2. DOMAIN r.pages = DOMAIN m.pages \ PagesOf(m.blocks[x])
  BY DEF RemoveBlock
<1>3. L \in Nat /\ Len(r.blocks) = L - 1
  BY <1>1, ListTyped DEF HasRemoved
<1> HIDE DEF r, x
<1>4. ASSUME NEW k \in 1 .. L, k # x PROVE \E j \in 1 .. L - 1 : r.blocks[j] = m.blocks[k]
  <2>1. CASE k < x
    <3>1. k \in 1 .. L - 1
      BY <1>1, <1>3, <2>1
    <3> QED
      BY <1>1, <2>1, <3>1 DEF HasRemoved
  <2>2. CASE k > x
    <3>1. k - 1 \in 1 .. L - 1 /\ ~(k - 1 < x) /\ (k - 1) + 1 = k
      BY <1>1, <1>3, <2>2
    <3> QED
      BY <1>1, <3>1 DEF HasRemoved
  <2> QED
    BY <1>1, <1>3, <1>4, <2>1, <2>2
<1>5. ASSUME NEW j \in 1 .. L - 1 PROVE \E k \in 1 .. L : k # x /\ r.blocks[j] = m.blocks[k]
  <2>1. CASE j < x
    <3>1. j \in 1 .. L /\ j # x
      BY <1>1, <1>3, <2>1
    <3> QED
      BY <1>1, <2>1, <3>1 DEF HasRemoved
  <2>2. CASE ~(j < x)
    <3>1. j + 1 \in 1 .. L /\ j + 1 # x
      BY <1>1, <1>3, <2>2
    <3> QED
      BY <1>1, <2>2, <3>1 DEF HasRemoved
  <2> QED
    BY <2>1, <2>2
<1>6. ASSUME NEW k \in 1 .. L, k # x PROVE PagesOf(m.blocks[k]) \cap PagesOf(m.blocks[x]) = {}
  <2>1. /\ m.blocks[k].addr \in Nat /\ BlockEnd(m.blocks[k]) \in Nat
        /\ m.blocks[x].addr \in Nat /\ BlockEnd(m.blocks[x]) \in Nat
    BY <1>1, ListTyped
  <2>2. Before(m.blocks[k], m.blocks[x]) \/ Before(m.blocks[x], m.blocks[k])
    BY <1>1, <1>3, <1>6 DEF Ordered
  <2> QED
    BY <2>1, <2>2 DEF Before, PagesOf
<1>7. ASSUME NEW q \in DOMAIN r.pages
      PROVE  Reserved <= q /\ q < MaxRange /\ BlockAt(r, q) # {}
  <2>1. q \in DOMAIN m.pages /\ q \notin PagesOf(m.blocks[x])
    BY <1>2
  <2>2. Reserved <= q /\ q < MaxRange /\ BlockAt(m, q) # {}
    BY <2>1 DEF Backed
  <2>3. PICK k \in 1 .. L : Holds(m.blocks[k], q)
    BY <2>2 DEF BlockAt
  <2>4. k # x
    BY <2>1, <2>3 DEF Holds
  <2>5. BlockAt(r, q) # {}
    BY <1>3, <1>4, <2>3, <2>4 DEF BlockAt
  <2> QED
    BY <2>2, <2>5
<1>8. ASSUME NEW j \in 1 .. L - 1
      PROVE  \/ r.blocks[j] \in {Block(0, Reserved), Block(MaxRange, 1)}
             \/ PagesOf(r.blocks[j]) \subseteq DOMAIN r.pages
  <2>1. PICK k \in 1 .. L : k # x /\ r.blocks[j] = m.blocks[k]
    BY <1>5
  <2>2. \/ m.blocks[k] \in {Block(0, Reserved), Block(MaxRange, 1)}
        \/ PagesOf(m.blocks[k]) \subseteq DOMAIN m.pages
    BY DEF Backed
  <2>3. PagesOf(m.blocks[k]) \cap PagesOf(m.blocks[x]) = {}
    BY <1>6, <2>1
  <2> QED
    BY <1>2, <2>1, <2>2, <2>3
<1> QED
  BY <1>3, <1>7, <1>8 DEF Backed, r

(* The first block that is not the reserved one starts behind it.          *)
LEMMA EndsBehindReserved ==
  ASSUME NEW m, NEW Ws, TypedIn(m, Ws), Backed(m), NEW i \in 1 .. Len(m.blocks)
  PROVE  Reserved <= BlockEnd(m.blocks[i])
<1> DEFINE b == m.blocks[i]
<1>1. /\ b.addr \in Nat /\ BlockEnd(b) \in Nat /\ b.addr < BlockEnd(b)
      /\ Reserved \in Nat /\ MaxRange \in Nat /\ Reserved <= MaxRange
  BY ListTyped, PhysicalAssumption
<1>2. CASE b = Block(0, Reserved)
  BY <1>2, PhysicalAssumption DEF Block, BlockEnd
<1>3. CASE b = Block(MaxRange, 1)
  BY <1>3, PhysicalAssumption DEF Block, BlockEnd
<1>4. CASE PagesOf(b) \subseteq DOMAIN m.pages
  <2>1. b.addr \in PagesOf(b)
    BY <1>1 DEF PagesOf
  <2>2. Reserved <= b.addr
    BY <1>4, <2>1 DEF Backed
  <2> QED
    BY <1>1, <2>2
<1> QED
  BY <1>2, <1>3, <1>4 DEF Backed

SortedBacked == Sorted /\ Backed(pm)

LEMMA InitialBacked == Backed(InitialMemory)
<1> DEFINE b == Block(0, Reserved)
           e == Block(MaxRange, 1)
           m == InitialMemory
<1>1. m.blocks = <<b, e>> /\ DOMAIN m.pages = {}
  BY DEF InitialMemory
<1> HIDE DEF b, e, m
<1>2. \A k \in 1 .. Len(m.blocks) : m.blocks[k] \in {b, e}
  BY <1>1
<1>3. Backed(m)
  BY <1>1, <1>2 DEF Backed, b, e
<1> QED
  BY <1>3 DEF m

LEMMA BackedInit == PMInit => Backed(pm)
BY InitialBacked DEF PMInit

LEMMA BackedStep == SortedBacked /\ [PMNext]_pm => Backed(pm')
<1> SUFFICES ASSUME SafeMemory(pm), Backed(pm), [PMNext]_pm PROVE Backed(pm')
  BY DEF SortedBacked, Sorted
<1>0. TypedIn(pm, Words) /\ Ordered(pm)
  BY DEF SafeMemory
<1>1. ASSUME NEW n \in 1 .. MaxTake, Take(n) PROVE Backed(pm')
  <2>1. PICK ub \in {"conflict", "crash"} : pm' = InsertBlock(pm, Usable(pm, n), n, ub)
    BY <1>1 DEF Take
  <2>2. Usable(pm, n) # 0 /\ n \in Nat \ {0}
    BY <1>1, PhysicalAssumption DEF Take
  <2>3. CASE pm.cur = 0
    <3>1. pm' = [pm EXCEPT !.crashed = (ub = "crash")]
      BY <2>1, <2>3, DanglingInsert
    <3>2. (ub = "crash") \in BOOLEAN
      OBVIOUS
    <3>3. pm'.blocks = pm.blocks /\ pm'.pages = pm.pages
      BY <1>0, <3>1, <3>2, CrashFacts
    <3> QED
      BY <3>3 DEF Backed, BlockAt
  <2>4. CASE pm.cur # 0
    <3> DEFINE b == Block(Usable(pm, n), n)
    <3>1. b \in BlockType /\ BlockEnd(b) <= MaxRange
      BY <1>0, <2>2, <2>4, TakeFacts
    <3>2. PICK i \in 1 .. Len(pm.blocks) - 1, c \in 1 .. Len(pm.blocks) + 1 :
            /\ b.addr = BlockEnd(pm.blocks[i])
            /\ Splits(pm, i, b) /\ pm' = Place(pm, i + 1, b, c)
      BY <1>0, <2>1, <2>2, <2>4, TakeFacts
    <3> HIDE DEF b
    <3>3. Reserved <= b.addr
      <4>1. i \in 1 .. Len(pm.blocks)
        BY <1>0, ListTyped
      <4> QED
        BY <1>0, <3>2, <4>1, EndsBehindReserved
    <3> QED
      BY <1>0, <3>1, <3>2, <3>3, PlaceBacked, PhysicalAssumption
  <2> QED
    BY <2>3, <2>4
<1>2. ASSUME NEW p \in 0 .. MaxRange, Erase(p) PROVE Backed(pm')
  <2>1. pm' = RemoveBlock(pm, p)
    BY <1>2 DEF Erase
  <2>2. CASE BlockAt(pm, p) = {}
    BY <2>1, <2>2 DEF RemoveBlock
  <2>3. CASE BlockAt(pm, p) # {}
    BY <1>0, <2>1, <2>3, RemoveBacked
  <2> QED
    BY <2>2, <2>3
<1>3. ASSUME NEW p \in 0 .. MaxRange, NEW i \in Offsets, NEW w \in Words, Store(p, i, w)
      PROVE  Backed(pm')
  <2>1. pm'.blocks = pm.blocks /\ DOMAIN pm'.pages = DOMAIN pm.pages
    BY <1>0, <1>3, WriteFacts DEF Store
  <2> QED
    BY <2>1 DEF Backed, BlockAt
<1>4. CASE UNCHANGED pm
  BY <1>4
<1> QED
  BY <1>1, <1>2, <1>3, <1>4 DEF PMNext

(* page.h: a page has content exactly while its block is in the list, and  *)
(* never in the reserved range or beyond the RAM (PagesBacked).            *)
THEOREM PagesStayBacked == PMSpec => []PagesBacked
<1>1. PMInit => SortedBacked
  BY SortedInit, BackedInit DEF SortedBacked
<1>2. SortedBacked /\ [PMNext]_pm => SortedBacked'
  BY SortedStep, BackedStep DEF SortedBacked
<1>3. SortedBacked => PagesBacked
  BY DEF SortedBacked, PagesBacked
<1> QED
  BY <1>1, <1>2, <1>3, PTL DEF PMSpec

-----------------------------------------------------------------------------
(* A set with no other member than q counts as at most one.                *)
LEMMA AtMostOne ==
  ASSUME NEW q, NEW S, S \subseteq {q}
  PROVE  Cardinality(S) <= 1
<1>1. CASE S = {}
  <2>1. Cardinality(S) = 0
    BY <1>1, FS_EmptySet, Zenon
  <2> QED
    BY <2>1
<1>2. CASE S = {q}
  <2>1. Cardinality({q}) = 1
    BY FS_Singleton, Zenon
  <2>2. Cardinality(S) = 1
    BY <1>2, <2>1
  <2> QED
    BY <2>2
<1>3. S = {} \/ S = {q}
  OBVIOUS
<1> QED
  BY <1>1, <1>2, <1>3

(* A new block takes no page that is there already.                        *)
LEMMA NewPagesFree ==
  ASSUME NEW m, NEW Ws, TypedIn(m, Ws), Backed(m), NEW b \in BlockType, NEW i, Splits(m, i, b),
         NEW p \in DOMAIN m.pages
  PROVE  p \notin PagesOf(b)
<1>1. PICK k \in 1 .. Len(m.blocks) : Holds(m.blocks[k], p)
  BY DEF Backed, BlockAt
<1>2. /\ m.blocks[k].addr \in Nat /\ BlockEnd(m.blocks[k]) \in Nat
      /\ b.addr \in Nat /\ BlockEnd(b) \in Nat
  BY ListTyped DEF BlockType, BlockEnd
<1>3. Before(m.blocks[k], b) \/ Before(b, m.blocks[k])
  <2>1. k \in 1 .. i \/ k \in i + 1 .. Len(m.blocks)
    BY ListTyped DEF Splits
  <2> QED
    BY <2>1 DEF Splits
<1> QED
  BY <1>1, <1>2, <1>3 DEF Before, Holds, PagesOf

LEMMA SortedBackedFresh == SortedBacked /\ [PMNext]_pm => [FreshStep]_pm
<1> SUFFICES ASSUME SafeMemory(pm), Backed(pm), PMNext PROVE FreshStep
  BY DEF SortedBacked, Sorted
<1>0. TypedIn(pm, Words) /\ Ordered(pm)
  BY DEF SafeMemory
<1>1. ASSUME pm'.pages = pm.pages PROVE FreshStep
  <2>1. Changed \subseteq {0}
    BY <1>1 DEF Changed
  <2> QED
    BY <1>1, <2>1, AtMostOne DEF FreshStep
<1>2. ASSUME NEW n \in 1 .. MaxTake, Take(n) PROVE FreshStep
  <2>1. PICK ub \in {"conflict", "crash"} : pm' = InsertBlock(pm, Usable(pm, n), n, ub)
    BY <1>2 DEF Take
  <2>2. Usable(pm, n) # 0 /\ n \in Nat \ {0}
    BY <1>2, PhysicalAssumption DEF Take
  <2>3. CASE pm.cur = 0
    <3>1. pm' = [pm EXCEPT !.crashed = (ub = "crash")]
      BY <2>1, <2>3, DanglingInsert
    <3>2. (ub = "crash") \in BOOLEAN
      OBVIOUS
    <3>3. pm'.pages = pm.pages
      BY <1>0, <3>1, <3>2, CrashFacts
    <3> QED
      BY <1>1, <3>3
  <2>4. CASE pm.cur # 0
    <3> DEFINE b == Block(Usable(pm, n), n)
    <3>1. b \in BlockType
      BY <1>0, <2>2, <2>4, TakeFacts
    <3>2. PICK i \in 1 .. Len(pm.blocks) - 1, c \in 1 .. Len(pm.blocks) + 1 :
            Splits(pm, i, b) /\ pm' = Place(pm, i + 1, b, c)
      BY <1>0, <2>1, <2>2, <2>4, TakeFacts
    <3> HIDE DEF b
    <3>3. /\ DOMAIN pm'.pages = DOMAIN pm.pages \cup PagesOf(b)
          /\ \A p \in DOMAIN pm'.pages :
               pm'.pages[p] = IF p \in PagesOf(b) THEN ZeroPage ELSE pm.pages[p]
      BY <3>2 DEF Place
    <3>4. \A p \in DOMAIN pm.pages : p \notin PagesOf(b)
      BY <1>0, <3>1, <3>2, NewPagesFree
    <3>5. Changed \subseteq {0}
      BY <3>3, <3>4 DEF Changed
    <3> QED
      BY <3>3, <3>5, AtMostOne DEF FreshStep
  <2> QED
    BY <2>3, <2>4
<1>3. ASSUME NEW p \in 0 .. MaxRange, Erase(p) PROVE FreshStep
  <2>1. pm' = RemoveBlock(pm, p)
    BY <1>3 DEF Erase
  <2>2. CASE BlockAt(pm, p) = {}
    BY <1>1, <2>1, <2>2 DEF RemoveBlock
  <2>3. CASE BlockAt(pm, p) # {}
    <3> DEFINE gone == PagesOf(pm.blocks[Min(BlockAt(pm, p))])
    <3>1. pm'.pages = [q \in DOMAIN pm.pages \ gone |-> pm.pages[q]]
      BY <1>0, <2>1, <2>3, RemoveFacts
    <3> HIDE DEF gone
    <3>2. Changed \subseteq {0}
      BY <3>1 DEF Changed
    <3> QED
      BY <3>1, <3>2, AtMostOne DEF FreshStep
  <2> QED
    BY <2>2, <2>3
<1>4. ASSUME NEW p \in 0 .. MaxRange, NEW i \in Offsets, NEW w \in Words, Store(p, i, w)
      PROVE  FreshStep
  <2>1. pm' = WriteData(pm, p, {i}, w)
    BY <1>4 DEF Store
  <2>2. DOMAIN pm'.pages = DOMAIN pm.pages
    BY <1>0, <2>1, WriteFacts
  <2>3. \A q \in DOMAIN pm.pages : q # p => pm'.pages[q] = pm.pages[q]
    <3>1. CASE p \in DOMAIN pm.pages
      <4>1. pm'.pages = [pm.pages EXCEPT ![p] = [j \in Offsets |-> IF j \in {i} THEN w ELSE @[j]]]
        BY <1>0, <2>1, <3>1 DEF WriteData, TypedIn
      <4> QED
        BY <4>1
    <3>2. CASE p \notin DOMAIN pm.pages
      BY <2>1, <3>2 DEF WriteData
    <3> QED
      BY <3>1, <3>2
  <2>4. Changed \subseteq {p}
    BY <2>2, <2>3 DEF Changed
  <2> QED
    BY <2>2, <2>4, AtMostOne DEF FreshStep
<1> QED
  BY <1>2, <1>3, <1>4 DEF PMNext

(* page.h: a page comes zeroed with its block, and no insert or remove     *)
(* disturbs the content of another one (FreshOrKept).                      *)
THEOREM ContentKept == PMSpec => FreshOrKept
<1>1. SortedBacked /\ [PMNext]_pm => SortedBacked'
  BY SortedStep, BackedStep DEF SortedBacked
<1>2. PMInit => SortedBacked
  BY SortedInit, BackedInit DEF SortedBacked
<1> QED
  BY <1>1, <1>2, SortedBackedFresh, PTL DEF PMSpec, FreshOrKept

-----------------------------------------------------------------------------
(* While some block holds the page behind the RAM, that block is the end   *)
(* marker and the last of the list.                                        *)
LEMMA MarkerLast ==
  ASSUME NEW m, NEW Ws, TypedIn(m, Ws), Ordered(m), Backed(m), BlockAt(m, MaxRange) # {}
  PROVE  /\ Len(m.blocks) \in Nat \ {0}
         /\ m.blocks[Len(m.blocks)].addr = MaxRange
<1> DEFINE L == Len(m.blocks)
<1>1. MaxRange \in Nat /\ Reserved \in Nat /\ Reserved <= MaxRange
  BY PhysicalAssumption
<1>2. PICK k \in 1 .. L : Holds(m.blocks[k], MaxRange)
  BY DEF BlockAt
<1>3. L \in Nat /\ L \in 1 .. L /\ k \in 1 .. L
  BY <1>2, ListTyped
<1>4. ASSUME NEW j \in 1 .. L, MaxRange <= m.blocks[j].addr
      PROVE  m.blocks[j] = Block(MaxRange, 1)
  <2> DEFINE a == m.blocks[j].addr
  <2>1. a \in Nat /\ a \in PagesOf(m.blocks[j])
    BY ListTyped DEF PagesOf
  <2>2. a \notin DOMAIN m.pages
    BY <1>1, <1>4, <2>1 DEF Backed
  <2>3. m.blocks[j] \in {Block(0, Reserved), Block(MaxRange, 1)}
    BY <2>1, <2>2 DEF Backed
  <2>4. m.blocks[j] # Block(0, Reserved)
    <3>1. a # 0
      BY <1>1, <1>4, PhysicalAssumption
    <3> QED
      BY <3>1 DEF Block
  <2> QED
    BY <2>3, <2>4
<1>5. m.blocks[k] = Block(MaxRange, 1)
  <2>1. MaxRange \notin DOMAIN m.pages
    BY <1>1 DEF Backed
  <2>2. m.blocks[k] \in {Block(0, Reserved), Block(MaxRange, 1)}
    BY <1>2, <2>1 DEF Backed, Holds
  <2>3. m.blocks[k] # Block(0, Reserved)
    <3>1. ~Holds(Block(0, Reserved), MaxRange)
      BY <1>1 DEF Holds, PagesOf, BlockEnd, Block
    <3> QED
      BY <1>2, <3>1
  <2> QED
    BY <2>2, <2>3
<1>6. CASE k = L
  BY <1>3, <1>5, <1>6 DEF Block
<1>7. CASE k < L
  <2>1. BlockEnd(m.blocks[k]) <= m.blocks[L].addr
    BY <1>3, <1>7 DEF Ordered, Before
  <2>2. BlockEnd(m.blocks[k]) = MaxRange + 1 /\ m.blocks[L].addr \in Nat
    <3>1. BlockEnd(Block(MaxRange, 1)) = MaxRange + 1
      BY <1>1, BlockTyped
    <3> QED
      BY <1>3, <1>5, <3>1, ListTyped
  <2>3. MaxRange < m.blocks[L].addr
    BY <1>1, <2>1, <2>2
  <2>4. m.blocks[L] = Block(MaxRange, 1)
    BY <1>1, <1>3, <1>4, <2>2, <2>3
  <2> QED
    BY <1>1, <2>3, <2>4 DEF Block
<1> QED
  BY <1>3, <1>6, <1>7

(* The pages behind a gap's block are a free run.                          *)
LEMMA GapIsFree ==
  ASSUME NEW m, NEW Ws, TypedIn(m, Ws), Ordered(m), Len(m.blocks) \in Nat \ {0},
         m.blocks[Len(m.blocks)].addr = MaxRange,
         NEW n \in Nat \ {0}, NEW i \in Gaps(m, n)
  PROVE  BlockEnd(m.blocks[i]) \in FreeRuns(m, n)
<1> DEFINE L == Len(m.blocks)
           e == BlockEnd(m.blocks[i])
           b == Block(e, n)
<1>1. i \in 1 .. L - 1 /\ L \in Nat /\ e \in Nat /\ Splits(m, i, b)
  BY GapSplits, ListTyped
<1>2. b.addr = e /\ BlockEnd(b) = e + n
  BY <1>1, BlockTyped
<1> HIDE DEF b
<1>3. /\ 1 \in 1 .. i /\ L \in i + 1 .. L /\ 1 \in 1 .. L
      /\ \A k \in 1 .. L : k \in 1 .. i \/ k \in i + 1 .. L
  BY <1>1
<1>4. BlockEnd(m.blocks[1]) \in Nat /\ BlockEnd(m.blocks[1]) <= e
  BY <1>1, <1>2, <1>3, ListTyped DEF Splits, Before
<1>5. e + n <= MaxRange
  BY <1>1, <1>2, <1>3 DEF Splits, Before
<1>6. ASSUME NEW p \in e .. e + n - 1, NEW k \in 1 .. L PROVE ~Holds(m.blocks[k], p)
  <2>0. p \in Nat /\ e <= p /\ p < e + n
    BY <1>1
  <2>1. m.blocks[k].addr \in Nat /\ BlockEnd(m.blocks[k]) \in Nat
    BY ListTyped
  <2>2. CASE k \in 1 .. i
    <3>1. BlockEnd(m.blocks[k]) <= e
      BY <1>1, <1>2, <2>2 DEF Splits, Before
    <3>2. ~(p <= BlockEnd(m.blocks[k]) - 1)
      BY <1>1, <2>0, <2>1, <3>1
    <3> QED
      BY <3>2 DEF Holds, PagesOf
  <2>3. CASE k \in i + 1 .. L
    <3>1. e + n <= m.blocks[k].addr
      BY <1>1, <1>2, <2>3 DEF Splits, Before
    <3>2. ~(m.blocks[k].addr <= p)
      BY <1>1, <2>0, <2>1, <3>1
    <3> QED
      BY <3>2 DEF Holds, PagesOf
  <2> QED
    BY <1>3, <2>2, <2>3
<1> HIDE DEF e
<1>7. e \in BlockEnd(m.blocks[1]) .. MaxRange - n
  BY <1>1, <1>4, <1>5, PhysicalAssumption
<1> QED
  BY <1>6, <1>7 DEF FreeRuns, BlockAt, e

(* A free run lies behind some gap's block.                                *)
LEMMA FreeHasGap ==
  ASSUME NEW m, NEW Ws, TypedIn(m, Ws), Ordered(m), Len(m.blocks) \in Nat \ {0},
         m.blocks[Len(m.blocks)].addr = MaxRange,
         NEW n \in Nat \ {0}, NEW a \in FreeRuns(m, n)
  PROVE  \E i \in Gaps(m, n) : BlockEnd(m.blocks[i]) <= a
<1> DEFINE L == Len(m.blocks)
           S == {k \in 1 .. L : BlockEnd(m.blocks[k]) <= a}
           i == Max(S)
<1>1. /\ 1 \in 1 .. L /\ L \in 1 .. L /\ L \in Int
      /\ BlockEnd(m.blocks[1]) \in Nat
  BY ListTyped
<1>2. a \in Nat /\ BlockEnd(m.blocks[1]) <= a /\ a + n <= MaxRange /\ MaxRange \in Nat
  BY <1>1, PhysicalAssumption DEF FreeRuns
<1>3. i \in S /\ \A k \in S : i >= k
  <2>1. S \subseteq 1 .. L /\ 1 \in S /\ 1 \in Int
    BY <1>1, <1>2
  <2> HIDE DEF S
  <2> QED
    BY <1>1, <2>1, MaxFacts
<1> HIDE DEF i
<1>4. i \in 1 .. L - 1
  <2>1. BlockEnd(m.blocks[L]) \in Nat /\ MaxRange < BlockEnd(m.blocks[L])
    BY <1>1, ListTyped
  <2>2. L \notin S
    BY <1>2, <2>1
  <2> QED
    BY <1>1, <1>3, <2>2
<1>5. i + 1 \in 1 .. L /\ i + 1 \notin S
  BY <1>1, <1>3, <1>4
<1> DEFINE x == m.blocks[i + 1].addr
           y == BlockEnd(m.blocks[i + 1])
<1>6. x \in Nat /\ y \in Nat /\ a < y
  BY <1>2, <1>5, ListTyped
<1>7. \A p \in a .. a + n - 1 : ~(x <= p /\ p <= y - 1)
  <2>1. \A p \in a .. a + n - 1 : ~Holds(m.blocks[i + 1], p)
    BY <1>5 DEF FreeRuns, BlockAt
  <2> QED
    BY <1>2, <1>6, <2>1 DEF Holds, PagesOf
<1> HIDE DEF x, y
<1>8. a + n <= x
  <2>1. CASE x <= a
    <3>1. a \in a .. a + n - 1
      BY <1>2
    <3> QED
      BY <1>2, <1>6, <1>7, <2>1, <3>1
  <2>2. CASE a < x /\ x < a + n
    <3>1. x \in a .. a + n - 1
      BY <1>2, <1>6, <2>2
    <3>2. CASE x <= y - 1
      BY <1>6, <1>7, <3>1, <3>2
    <3>3. x < y
      BY <1>5, ListTyped DEF x, y
    <3> QED
      BY <1>6, <3>2, <3>3
  <2> QED
    BY <1>2, <1>6, <2>1, <2>2
<1>9. Reached(m, i) = BlockEnd(m.blocks[i]) /\ BlockEnd(m.blocks[i]) \in Nat
  <2>1. i \in 1 .. L
    BY <1>1, <1>4
  <2> QED
    BY <2>1, ReachedIsEnd, ListTyped
<1>10. BlockEnd(m.blocks[i]) <= a
  BY <1>3
<1>11. x > Reached(m, i) + n - 1
  <2> DEFINE e == BlockEnd(m.blocks[i])
  <2>1. e \in Nat /\ e <= a /\ Reached(m, i) = e
    BY <1>9, <1>10
  <2> HIDE DEF e
  <2> QED
    BY <1>2, <1>6, <1>8, <2>1
<1>12. i \in Gaps(m, n)
  BY <1>4, <1>11 DEF Gaps, x
<1> QED
  BY <1>10, <1>12

(* usable is first fit in every sorted, backed memory with its end marker. *)
LEMMA FirstFit ==
  ASSUME NEW m, NEW Ws, TypedIn(m, Ws), Ordered(m), Backed(m), BlockAt(m, MaxRange) # {},
         NEW n \in Nat \ {0}
  PROVE  Usable(m, n) = IF FreeRuns(m, n) = {} THEN 0 ELSE Min(FreeRuns(m, n))
<1> DEFINE G == Gaps(m, n)
           F == FreeRuns(m, n)
<1>1. Len(m.blocks) \in Nat \ {0} /\ m.blocks[Len(m.blocks)].addr = MaxRange
  BY MarkerLast
<1>2. \A i \in G : BlockEnd(m.blocks[i]) \in F
  BY <1>1, GapIsFree
<1>3. \A a \in F : \E i \in G : BlockEnd(m.blocks[i]) <= a
  BY <1>1, FreeHasGap
<1>4. /\ G \subseteq 1 .. Len(m.blocks) - 1 /\ 1 \in Int /\ Len(m.blocks) - 1 \in Int
      /\ F \subseteq BlockEnd(m.blocks[1]) .. MaxRange - n
      /\ BlockEnd(m.blocks[1]) \in Int /\ MaxRange - n \in Int /\ MaxRange \in Nat
  BY <1>1, ListTyped, PhysicalAssumption DEF Gaps, FreeRuns
<1> HIDE DEF G, F
<1>5. CASE F = {}
  <2>1. G = {}
    BY <1>2, <1>5
  <2> QED
    BY <1>5, <2>1 DEF Usable, G, F
<1>6. CASE F # {}
  <2> DEFINE a == Min(F)
             i == Min(G)
             e == BlockEnd(m.blocks[i])
  <2>1. a \in F /\ \A y \in F : a <= y
    BY <1>4, <1>6, MinFacts
  <2>2. G # {}
    BY <1>3, <1>6
  <2>3. i \in G /\ \A j \in G : i <= j
    BY <1>4, <2>2, MinFacts
  <2> HIDE DEF a, i
  <2>4. Reached(m, i) = e /\ e \in Nat /\ e \in F
    BY <1>2, <2>3, GapSplits DEF G
  <2>5. PICK j \in G : BlockEnd(m.blocks[j]) <= a
    BY <1>3, <2>1
  <2>6. e <= BlockEnd(m.blocks[j]) /\ BlockEnd(m.blocks[j]) \in Nat
    <3>1. i \in 1 .. Len(m.blocks) /\ j \in 1 .. Len(m.blocks) /\ i <= j
      BY <1>4, <2>3
    <3>2. CASE i = j
      BY <2>4, <3>2
    <3>3. CASE i < j
      <4>1. e <= m.blocks[j].addr
        BY <3>1, <3>3 DEF Ordered, Before
      <4>2. /\ m.blocks[j].addr \in Nat /\ BlockEnd(m.blocks[j]) \in Nat
            /\ m.blocks[j].addr < BlockEnd(m.blocks[j])
        BY <3>1, ListTyped
      <4> HIDE DEF e
      <4> QED
        BY <2>4, <4>1, <4>2
    <3> QED
      BY <3>1, <3>2, <3>3
  <2> HIDE DEF e
  <2>7. a = e /\ e + n <= MaxRange
    <3>1. a \in Int /\ a <= e /\ e \in Int /\ e <= MaxRange - n
      BY <1>4, <2>1, <2>4
    <3>2. e <= a
      BY <2>4, <2>5, <2>6, <3>1
    <3> QED
      BY <1>4, <3>1, <3>2
  <2>8. Usable(m, n) = e
    BY <2>2, <2>4, <2>7 DEF Usable, G, i
  <2> QED
    BY <1>6, <2>7, <2>8 DEF a, F
<1> QED
  BY <1>5, <1>6

(* usable answers the lowest run of free pages (UsableIsFirstFit), for any *)
(* list the inserts and removes of page.h can leave.                       *)
THEOREM UsableFirstFit == PMSpec => []UsableIsFirstFit
<1>1. PMInit => SortedBacked
  BY SortedInit, BackedInit DEF SortedBacked
<1>2. SortedBacked /\ [PMNext]_pm => SortedBacked'
  BY SortedStep, BackedStep DEF SortedBacked
<1>3. SortedBacked => UsableIsFirstFit
  <2> SUFFICES ASSUME SafeMemory(pm), Backed(pm), BlockAt(pm, MaxRange) # {},
                      NEW n \in 1 .. MaxTake
               PROVE  Usable(pm, n) = IF FreeRuns(pm, n) = {} THEN 0
                                      ELSE Min(FreeRuns(pm, n))
    BY DEF SortedBacked, Sorted, UsableIsFirstFit
  <2>1. n \in Nat \ {0}
    BY PhysicalAssumption
  <2> QED
    BY <2>1, FirstFit DEF SafeMemory
<1> QED
  BY <1>1, <1>2, <1>3, PTL DEF PMSpec

-----------------------------------------------------------------------------

(* A sound RAM, whatever words it holds, and its blocks as a set.          *)
MemOK(m) == TypedIn(m, Nat) /\ Ordered(m) /\ Backed(m)
BlocksOf(m) == ToSet(m.blocks)

LEMMA InsertedMembers ==
  ASSUME NEW S, NEW s \in Seq(S), NEW t \in Seq(S), NEW e,
         NEW i \in 1 .. Len(s) + 1, HasInserted(t, s, i, e)
  PROVE  ToSet(t) = ToSet(s) \cup {e}
<1>1. /\ Len(s) \in Nat /\ Len(t) = Len(s) + 1
      /\ DOMAIN s = 1 .. Len(s) /\ DOMAIN t = 1 .. Len(s) + 1
  BY LenProperties DEF HasInserted
<1>2. ASSUME NEW k \in 1 .. Len(s) PROVE \E j \in 1 .. Len(s) + 1 : t[j] = s[k]
  <2>1. CASE k < i
    <3>1. k \in 1 .. Len(s) + 1
      BY <1>1
    <3> QED
      BY <2>1, <3>1 DEF HasInserted
  <2>2. CASE ~(k < i)
    <3>1. k + 1 \in 1 .. Len(s) + 1 /\ ~(k + 1 < i) /\ k + 1 # i /\ (k + 1) - 1 = k
      BY <1>1, <2>2
    <3> QED
      BY <3>1 DEF HasInserted
  <2> QED
    BY <2>1, <2>2
<1>3. ASSUME NEW j \in 1 .. Len(s) + 1 PROVE t[j] = e \/ \E k \in 1 .. Len(s) : t[j] = s[k]
  <2>1. j < i => j \in 1 .. Len(s)
    BY <1>1
  <2>2. ~(j < i) /\ j # i => j - 1 \in 1 .. Len(s)
    BY <1>1
  <2> QED
    BY <2>1, <2>2 DEF HasInserted
<1>4. t[i] = e /\ i \in 1 .. Len(s) + 1
  <2>1. ~(i < i)
    BY <1>1
  <2> QED
    BY <2>1 DEF HasInserted
<1>5. ToSet(t) = {t[j] : j \in 1 .. Len(s) + 1} /\ ToSet(s) = {s[k] : k \in 1 .. Len(s)}
  BY <1>1 DEF ToSet
<1>6. ToSet(t) \subseteq ToSet(s) \cup {e}
  BY <1>3, <1>5
<1>7. ToSet(s) \subseteq ToSet(t) /\ e \in ToSet(t)
  BY <1>2, <1>4, <1>5
<1> QED
  BY <1>6, <1>7

LEMMA RemovedMembers ==
  ASSUME NEW S, NEW s \in Seq(S), NEW t \in Seq(S),
         NEW i \in 1 .. Len(s), HasRemoved(t, s, i)
  PROVE  ToSet(t) = {s[k] : k \in (1 .. Len(s)) \ {i}}
<1>1. /\ Len(s) \in Nat /\ Len(t) = Len(s) - 1
      /\ DOMAIN s = 1 .. Len(s) /\ DOMAIN t = 1 .. Len(s) - 1
  BY LenProperties DEF HasRemoved
<1>2. ASSUME NEW k \in 1 .. Len(s), k # i PROVE \E j \in 1 .. Len(s) - 1 : t[j] = s[k]
  <2>1. CASE k < i
    <3>1. k \in 1 .. Len(s) - 1
      BY <1>1, <2>1
    <3> QED
      BY <2>1, <3>1 DEF HasRemoved
  <2>2. CASE k > i
    <3>1. k - 1 \in 1 .. Len(s) - 1 /\ ~(k - 1 < i) /\ (k - 1) + 1 = k
      BY <1>1, <2>2
    <3> QED
      BY <3>1 DEF HasRemoved
  <2> QED
    BY <1>1, <1>2, <2>1, <2>2
<1>3. ASSUME NEW j \in 1 .. Len(s) - 1 PROVE \E k \in 1 .. Len(s) : k # i /\ t[j] = s[k]
  <2>1. CASE j < i
    <3>1. j \in 1 .. Len(s) /\ j # i
      BY <1>1, <2>1
    <3> QED
      BY <2>1, <3>1 DEF HasRemoved
  <2>2. CASE ~(j < i)
    <3>1. j + 1 \in 1 .. Len(s) /\ j + 1 # i
      BY <1>1, <2>2
    <3> QED
      BY <2>2, <3>1 DEF HasRemoved
  <2> QED
    BY <2>1, <2>2
<1>5. ToSet(t) = {t[j] : j \in 1 .. Len(s) - 1}
  BY <1>1 DEF ToSet
<1>6. ToSet(t) \subseteq {s[k] : k \in (1 .. Len(s)) \ {i}}
  BY <1>3, <1>5
<1>7. {s[k] : k \in (1 .. Len(s)) \ {i}} \subseteq ToSet(t)
  BY <1>2, <1>5
<1> QED
  BY <1>6, <1>7

-----------------------------------------------------------------------------
(* The blocks of a sound RAM: typed, and no page lies in two of them.      *)
LEMMA BlocksListed ==
  ASSUME NEW m, MemOK(m)
  PROVE  /\ Len(m.blocks) \in Nat
         /\ BlocksOf(m) = {m.blocks[k] : k \in 1 .. Len(m.blocks)}
         /\ \A b \in BlocksOf(m) : /\ b \in BlockType
                                   /\ b.addr \in Nat /\ b.size \in Nat \ {0}
                                   /\ PagesOf(b) = b.addr .. b.addr + b.size - 1
                                   /\ b.addr \in PagesOf(b)
<1>1. Len(m.blocks) \in Nat /\ \A k \in 1 .. Len(m.blocks) : m.blocks[k] \in BlockType
  BY ListTyped DEF MemOK
<1>2. BlocksOf(m) = {m.blocks[k] : k \in 1 .. Len(m.blocks)}
  BY LenProperties DEF BlocksOf, ToSet, MemOK, TypedIn
<1>3. \A b \in BlockType : /\ b.addr \in Nat /\ b.size \in Nat \ {0}
                           /\ PagesOf(b) = b.addr .. b.addr + b.size - 1
                           /\ b.addr \in PagesOf(b)
  BY DEF BlockType, PagesOf, BlockEnd
<1> QED
  BY <1>1, <1>2, <1>3

LEMMA PositionsApart ==
  ASSUME NEW m, MemOK(m), NEW j \in 1 .. Len(m.blocks), NEW k \in 1 .. Len(m.blocks),
         NEW p, Holds(m.blocks[j], p), Holds(m.blocks[k], p)
  PROVE  j = k
<1>1. /\ m.blocks[k].addr \in Nat /\ BlockEnd(m.blocks[k]) \in Nat
      /\ m.blocks[j].addr \in Nat /\ BlockEnd(m.blocks[j]) \in Nat
      /\ Len(m.blocks) \in Nat
  BY ListTyped DEF MemOK
<1>2. ASSUME j # k PROVE FALSE
  <2>1. Before(m.blocks[k], m.blocks[j]) \/ Before(m.blocks[j], m.blocks[k])
    BY <1>1, <1>2 DEF Ordered, MemOK
  <2>2. /\ m.blocks[j].addr <= p /\ p < BlockEnd(m.blocks[j])
        /\ m.blocks[k].addr <= p /\ p < BlockEnd(m.blocks[k]) /\ p \in Int
    BY <1>1 DEF PagesOf, Holds
  <2> QED
    BY <1>1, <2>1, <2>2 DEF Before
<1> QED
  BY <1>2

LEMMA BlocksApart ==
  ASSUME NEW m, MemOK(m), NEW b \in BlocksOf(m), NEW c \in BlocksOf(m),
         NEW p, p \in PagesOf(b), p \in PagesOf(c)
  PROVE  b = c
<1>3. BlocksOf(m) = {m.blocks[k] : k \in 1 .. Len(m.blocks)}
  BY BlocksListed
<1>0. PICK j \in 1 .. Len(m.blocks) : b = m.blocks[j]
  BY <1>3
<1>1. PICK k \in 1 .. Len(m.blocks) : c = m.blocks[k]
  BY BlocksListed
<1>2. j = k
  BY <1>0, <1>1, PositionsApart DEF Holds
<1> QED
  BY <1>0, <1>1, <1>2

LEMMA OnePage ==
  ASSUME NEW p \in Nat
  PROVE  /\ Block(p, 1) \in BlockType /\ PagesOf(Block(p, 1)) = {p}
         /\ Block(p, 1).addr = p
BY DEF Block, BlockType, PagesOf, BlockEnd

LEMMA PagesOfBlock ==
  ASSUME NEW a \in Nat, NEW n \in Nat \ {0}
  PROVE  PagesOf(Block(a, n)) = a .. a + n - 1 /\ a \in PagesOf(Block(a, n))
BY DEF Block, PagesOf, BlockEnd

(* A word is a number wherever it is read.                                 *)
LEMMA WordTyped ==
  ASSUME NEW m, MemOK(m), NEW p, NEW i \in Offsets
  PROVE  ReadWord(m, p, i) \in Nat
BY DEF MemOK, TypedIn, ReadWord

(* memory.h obtains memory with usable, then insert.  With a live cursor   *)
(* the block is new, inside the RAM and empty, and no other word changes.  *)
Taken(m, x, a, n) ==
  /\ MemOK(x) /\ x.cur # 0 /\ x.crashed = m.crashed
  /\ BlocksOf(x) = BlocksOf(m) \cup {Block(a, n)}
  /\ \A b \in BlocksOf(m) : \A p \in a .. a + n - 1 : p \notin PagesOf(b)
  /\ DOMAIN x.pages = DOMAIN m.pages \cup (a .. a + n - 1)
  /\ \A p \in DOMAIN m.pages : p \notin a .. a + n - 1 /\ x.pages[p] = m.pages[p]
  /\ \A p, i : i \in Offsets => ReadWord(x, p, i) = ReadWord(m, p, i)
  /\ Inserted(m, x)

LEMMA TakeMem ==
  ASSUME NEW m, MemOK(m), m.cur # 0, NEW n \in Nat \ {0}, Usable(m, n) # 0, NEW ub
  PROVE  LET a == Usable(m, n)
         IN  /\ a \in Nat /\ Reserved <= a /\ a + n <= MaxRange
             /\ Taken(m, InsertBlock(m, a, n, ub), a, n)
<1> DEFINE a == Usable(m, n)
           b == Block(a, n)
           x == InsertBlock(m, a, n, ub)
           L == Len(m.blocks)
<1>0. TypedIn(m, Nat) /\ Ordered(m) /\ Backed(m) /\ 0 \in Nat
  BY DEF MemOK
<1>1. a \in Nat /\ a + n <= MaxRange
  BY <1>0, UsableSplits
<1>2. b \in BlockType /\ BlockEnd(b) <= MaxRange
  BY <1>0, TakeFacts
<1>3. PICK i \in 1 .. L - 1, c \in 1 .. L + 1 :
        /\ b.addr = BlockEnd(m.blocks[i])
        /\ Splits(m, i, b) /\ x = Place(m, i + 1, b, c)
  BY <1>0, TakeFacts, SMTT(40)
<1> HIDE DEF x, a
<1>4. b.addr = a /\ PagesOf(b) = a .. a + n - 1
  BY <1>1 DEF Block, PagesOf, BlockEnd
<1>5. L \in Nat /\ i \in 1 .. L /\ i + 1 \in 1 .. L + 1
  BY <1>0, <1>3, ListTyped
<1> HIDE DEF b
<1>6. Reserved <= a
  BY <1>0, <1>3, <1>4, <1>5, EndsBehindReserved
<1>7. Backed(x)
  BY <1>0, <1>2, <1>3, <1>4, <1>6, PlaceBacked
<1>8. TypedIn(x, Nat) /\ Ordered(x) /\ HasInserted(x.blocks, m.blocks, i + 1, b)
  BY <1>0, <1>2, <1>3, PlaceFacts
<1>9. /\ x.cur = c /\ x.crashed = m.crashed
      /\ x.pages = [p \in DOMAIN m.pages \cup PagesOf(b) |->
                      IF p \in PagesOf(b) THEN ZeroPage ELSE m.pages[p]]
  BY <1>3 DEF Place
<1>10. BlocksOf(x) = BlocksOf(m) \cup {b}
  <2>1. m.blocks \in Seq(BlockType) /\ x.blocks \in Seq(BlockType)
    BY <1>0, <1>8 DEF TypedIn
  <2> QED
    BY <1>5, <1>8, <2>1, InsertedMembers DEF BlocksOf
<1>11. ASSUME NEW d \in BlocksOf(m), NEW p \in PagesOf(b) PROVE p \notin PagesOf(d)
  <2>1. PICK k \in 1 .. L : d = m.blocks[k]
    BY BlocksListed
  <2>2. /\ m.blocks[k].addr \in Nat /\ BlockEnd(m.blocks[k]) \in Nat
        /\ b.addr \in Nat /\ BlockEnd(b) \in Nat
    BY <1>0, <1>2, ListTyped DEF BlockType, BlockEnd
  <2>3. Before(m.blocks[k], b) \/ Before(b, m.blocks[k])
    <3>1. k \in 1 .. i \/ k \in i + 1 .. L
      BY <1>5
    <3> QED
      BY <1>3, <3>1 DEF Splits
  <2>4. p \in Int /\ b.addr <= p /\ p < BlockEnd(b)
    BY <2>2 DEF PagesOf
  <2>5. p \in PagesOf(d) => d.addr <= p /\ p < BlockEnd(d)
    BY <2>1, <2>2 DEF PagesOf
  <2>6. BlockEnd(d) <= b.addr \/ BlockEnd(b) <= d.addr
    BY <2>1, <2>3 DEF Before
  <2>7. d.addr \in Nat /\ BlockEnd(d) \in Nat
    BY <2>1, <2>2
  <2> QED
    BY <2>2, <2>4, <2>5, <2>6, <2>7
<1>12. \A p \in DOMAIN m.pages : p \notin PagesOf(b)
  BY <1>0, <1>2, <1>3, NewPagesFree
<1>13. ASSUME NEW p, NEW j \in Offsets PROVE ReadWord(x, p, j) = ReadWord(m, p, j)
  BY <1>9, <1>12 DEF ReadWord, ZeroPage
<1>14. Inserted(m, x)
  BY <1>5, <1>8 DEF Inserted, HasInserted
<1>15. x.cur # 0
  BY <1>5, <1>9
<1>16. Taken(m, x, a, n)
  <2>1. /\ DOMAIN x.pages = DOMAIN m.pages \cup (a .. a + n - 1)
        /\ \A p \in DOMAIN m.pages : p \notin a .. a + n - 1 /\ x.pages[p] = m.pages[p]
    BY <1>4, <1>9, <1>12
  <2>2. BlocksOf(x) = BlocksOf(m) \cup {Block(a, n)}
    BY <1>10 DEF b
  <2>3. MemOK(x)
    BY <1>7, <1>8 DEF MemOK
  <2>4. \A d \in BlocksOf(m) : \A p \in a .. a + n - 1 : p \notin PagesOf(d)
    BY <1>4, <1>11
  <2> QED
    BY <1>9, <1>13, <1>14, <1>15, <2>1, <2>2, <2>3, <2>4 DEF Taken
<1> QED
  BY <1>1, <1>6, <1>16 DEF a, x

(* remove takes the block that holds the page, with its words.             *)
Dropped(m, x, b) ==
  /\ MemOK(x) /\ x.crashed = m.crashed
  /\ BlocksOf(x) = BlocksOf(m) \ {b}
  /\ DOMAIN x.pages = DOMAIN m.pages \ PagesOf(b)
  /\ \A p \in DOMAIN x.pages : x.pages[p] = m.pages[p]
  /\ \A p, i : ReadWord(x, p, i) = IF p \in PagesOf(b) THEN 0 ELSE ReadWord(m, p, i)

LEMMA DropMem ==
  ASSUME NEW m, MemOK(m), NEW b \in BlocksOf(m), NEW p \in PagesOf(b)
  PROVE  /\ Dropped(m, RemoveBlock(m, p), b)
         /\ BlockLength(m, p) = b.size
<1> DEFINE x == RemoveBlock(m, p)
           k == Min(BlockAt(m, p))
           L == Len(m.blocks)
<1>0. TypedIn(m, Nat) /\ Ordered(m) /\ Backed(m)
  BY DEF MemOK
<1>1. PICK j \in 1 .. L : b = m.blocks[j]
  BY BlocksListed
<1>2. BlockAt(m, p) # {}
  BY <1>1 DEF BlockAt, Holds
<1>3. /\ k \in 1 .. L /\ Holds(m.blocks[k], p)
      /\ TypedIn(x, Nat) /\ Ordered(x)
      /\ HasRemoved(x.blocks, m.blocks, k)
      /\ x.pages = [q \in DOMAIN m.pages \ PagesOf(m.blocks[k]) |-> m.pages[q]]
      /\ x.crashed = m.crashed
  BY <1>0, <1>2, RemoveFacts
<1>4. Backed(x)
  BY <1>0, <1>2, RemoveBacked
<1>5. BlockLength(m, p) = m.blocks[k].size
  BY <1>2 DEF BlockLength
<1> HIDE DEF x, k
<1>6. k = j
  BY <1>1, <1>3, PositionsApart DEF Holds
<1>7. BlocksOf(x) = BlocksOf(m) \ {b}
  <2>1. m.blocks \in Seq(BlockType) /\ x.blocks \in Seq(BlockType)
    BY <1>0, <1>3 DEF TypedIn
  <2>2. BlocksOf(x) = {m.blocks[l] : l \in (1 .. L) \ {j}}
    BY <1>3, <1>6, <2>1, RemovedMembers DEF BlocksOf
  <2>3. ASSUME NEW l \in 1 .. L, m.blocks[l] = b PROVE l = j
    BY <1>1, <2>3, PositionsApart DEF Holds
  <2>4. BlocksOf(m) = {m.blocks[l] : l \in 1 .. L}
    BY BlocksListed
  <2> QED
    BY <1>1, <2>2, <2>3, <2>4
<1>8. ASSUME NEW q, NEW i
      PROVE  ReadWord(x, q, i) = IF q \in PagesOf(b) THEN 0 ELSE ReadWord(m, q, i)
  BY <1>1, <1>3, <1>6 DEF ReadWord
<1>9. Dropped(m, x, b)
  <2>1. /\ DOMAIN x.pages = DOMAIN m.pages \ PagesOf(b)
        /\ \A q \in DOMAIN x.pages : x.pages[q] = m.pages[q]
    BY <1>1, <1>3, <1>6
  <2> QED
    BY <1>3, <1>4, <1>7, <1>8, <2>1 DEF Dropped, MemOK
<1> QED
  BY <1>1, <1>5, <1>6, <1>9 DEF x

LEMMA DropNothing ==
  ASSUME NEW m, MemOK(m), NEW p, \A b \in BlocksOf(m) : p \notin PagesOf(b)
  PROVE  RemoveBlock(m, p) = m /\ BlockLength(m, p) = 0
<1>1. BlockAt(m, p) = {}
  BY BlocksListed DEF BlockAt, Holds
<1> QED
  BY <1>1 DEF RemoveBlock, BlockLength

(* Writing some words of a page that is there.                             *)
Written(m, x, p, is, w) ==
  /\ MemOK(x) /\ x.cur = m.cur /\ x.crashed = m.crashed
  /\ BlocksOf(x) = BlocksOf(m) /\ DOMAIN x.pages = DOMAIN m.pages
  /\ \A q \in DOMAIN m.pages : q # p => x.pages[q] = m.pages[q]
  /\ \A q, i : i \in Offsets =>
       ReadWord(x, q, i) = IF q = p /\ i \in is THEN w ELSE ReadWord(m, q, i)

LEMMA WriteMem ==
  ASSUME NEW m, MemOK(m), NEW p \in DOMAIN m.pages, NEW is, NEW w \in Nat
  PROVE  Written(m, WriteData(m, p, is, w), p, is, w)
<1> DEFINE x == WriteData(m, p, is, w)
<1>1. /\ TypedIn(x, Nat) /\ x.blocks = m.blocks /\ x.cur = m.cur
      /\ x.crashed = m.crashed /\ DOMAIN x.pages = DOMAIN m.pages
  BY WriteFacts DEF MemOK
<1>2. x.pages = [m.pages EXCEPT ![p] = [i \in Offsets |-> IF i \in is THEN w ELSE m.pages[p][i]]]
  BY DEF WriteData, MemOK, TypedIn
<1> HIDE DEF x
<1>3. Ordered(x) /\ Backed(x)
  BY <1>1 DEF MemOK, Ordered, Backed, BlockAt
<1>4. ASSUME NEW q, NEW i \in Offsets
      PROVE  ReadWord(x, q, i) = IF q = p /\ i \in is THEN w ELSE ReadWord(m, q, i)
  BY <1>1, <1>2 DEF ReadWord
<1> QED
  BY <1>1, <1>2, <1>3, <1>4 DEF Written, MemOK, BlocksOf, x

(* The pages of a block that usable found are there.                       *)
LEMMA BlockPages ==
  ASSUME NEW m, MemOK(m), NEW b \in BlocksOf(m),
         b # Block(0, Reserved), b # Block(MaxRange, 1)
  PROVE  /\ PagesOf(b) \subseteq DOMAIN m.pages
         /\ \A p \in PagesOf(b) : p \in Nat /\ p # 0 /\ Reserved <= p /\ p < MaxRange
<1>0. PICK k \in 1 .. Len(m.blocks) : b = m.blocks[k]
  BY BlocksListed
<1>1. PagesOf(b) \subseteq DOMAIN m.pages
  BY <1>0 DEF MemOK, Backed
<1>2. \A p \in PagesOf(b) : p \in Nat /\ Reserved <= p /\ p < MaxRange
  <2>1. \A p \in PagesOf(b) : p \in Nat
    <3>1. PagesOf(b) = b.addr .. b.addr + b.size - 1 /\ b.addr \in Nat /\ b.size \in Nat
      BY BlocksListed
    <3> QED
      BY <3>1
  <2> QED
    BY <1>1, <2>1 DEF MemOK, Backed
<1> QED
  BY <1>1, <1>2, PhysicalAssumption

-----------------------------------------------------------------------------
(* The loops of memory.h, each as one step from a state and an index to    *)
(* the next state; c says which loop it is and what it was called with.    *)
PutPage(s, root, a, len, w, v) ==
  LET In(u) == {i \in Offsets : a <= u * PageElem + i /\ u * PageElem + i < a + len}
      page == Convert(s.m, root, v)
  IN  IF ~s.ok \/ page = 0 THEN [s EXCEPT !.ok = FALSE]
      ELSE [s EXCEPT !.m = WriteData(s.m, page, In(v), w)]

DropLeaf(x, t2, k) == IF IsValid(Entry(x, t2, k)) THEN RemoveBlock(x, NextTable(x, t2, k)) ELSE x

DropTable(x, t1, j) ==
  LET t2 == NextTable(x, t1, j)
  IN  IF IsValid(Entry(x, t1, j)) THEN RemoveBlock(DropLeaves(x, t2), t2) ELSE x

DropBranch(x, root, i) ==
  LET t1 == NextTable(x, root, i)
  IN  IF IsValid(Entry(x, root, i)) THEN RemoveBlock(DropMiddle(x, t1), t1) ELSE x

LoopStep(c, x, i) ==
  CASE c.loop = "map"    -> MapPage(x, c.root, c.v + i, c.pa + i, c.ub)
    [] c.loop = "put"    -> PutPage(x, c.root, c.a, c.len, c.w, i)
    [] c.loop = "middle" -> CleanMiddle(x, c.t, i)
    [] c.loop = "entry"  -> CleanEntry(x, c.t, i)
    [] c.loop = "leaf"   -> DropLeaf(x, c.t, i)
    [] c.loop = "table"  -> DropTable(x, c.t, i)
    [] c.loop = "branch" -> DropBranch(x, c.t, i)

(* g is the recursive function a fold takes; h the states between steps.   *)
Unfolds(g, c, start, seq, n) ==
  g = [s \in SUBSET (1 .. n) |->
         IF s = {} THEN start ELSE LoopStep(c, g[s \ {Max(s)}], seq[Max(s)])]

Chain(h, c, start, seq, n) ==
  h[0] = start /\ \A k \in 1 .. n : h[k] = LoopStep(c, h[k - 1], seq[k])

LEMMA UnfoldExists ==
  ASSUME NEW n \in Nat, NEW c, NEW start, NEW seq
  PROVE  \E g : Unfolds(g, c, start, seq, n)
<1> DEFINE T == {k \in 0 .. n : \E g : Unfolds(g, c, start, seq, k)}
<1>1. 0 \in T
  <2> DEFINE g == [s \in SUBSET (1 .. 0) |-> start]
  <2>1. \A s \in SUBSET (1 .. 0) : s = {}
    OBVIOUS
  <2>2. Unfolds(g, c, start, seq, 0)
    BY <2>1 DEF Unfolds
  <2> HIDE DEF g
  <2> QED
    BY <2>2
<1>2. ASSUME NEW k \in 1 .. n, k - 1 \in T PROVE k \in T
  <2>1. PICK g : Unfolds(g, c, start, seq, k - 1)
    BY <1>2
  <2> DEFINE h == [s \in SUBSET (1 .. k) |->
                     IF k \in s THEN LoopStep(c, g[s \ {k}], seq[k]) ELSE g[s]]
  <2>2. ASSUME NEW s \in SUBSET (1 .. k), k \in s
        PROVE  /\ s # {} /\ Max(s) = k
               /\ s \ {k} \in SUBSET (1 .. k - 1) /\ s \ {k} \in SUBSET (1 .. k)
               /\ k \notin s \ {k}
    <3>1. s \subseteq 1 .. k /\ s # {} /\ k \in Nat
      BY <2>2
    <3>3. Max(s) = k
      BY <2>2, <3>1, TopOfSet
    <3> QED
      BY <2>2, <3>3
  <2>3. ASSUME NEW s \in SUBSET (1 .. k), k \notin s
        PROVE  /\ s \in SUBSET (1 .. k - 1)
               /\ s # {} => Max(s) \in 1 .. k - 1 /\ s \ {Max(s)} \in SUBSET (1 .. k)
                            /\ k \notin s \ {Max(s)}
    <3>1. s \in SUBSET (1 .. k - 1)
      BY <2>3
    <3>4. s \subseteq 1 .. k /\ k \in Nat
      OBVIOUS
    <3>2. s # {} => Max(s) \in s
      BY <3>4, TopOfSet
    <3> QED
      BY <2>3, <3>1, <3>2
  <2>5. ASSUME NEW s \in SUBSET (1 .. k)
        PROVE  h[s] = IF s = {} THEN start ELSE LoopStep(c, h[s \ {Max(s)}], seq[Max(s)])
    <3>1. CASE k \in s
      <4>1. h[s] = LoopStep(c, g[s \ {k}], seq[k]) /\ h[s \ {k}] = g[s \ {k}]
        BY <2>2, <3>1
      <4> QED
        BY <2>2, <3>1, <4>1
    <3>2. CASE k \notin s
      <4>1. h[s] = g[s]
        BY <3>2
      <4>2. s # {} => h[s \ {Max(s)}] = g[s \ {Max(s)}]
        BY <2>3, <3>2
      <4>3. g[s] = IF s = {} THEN start ELSE LoopStep(c, g[s \ {Max(s)}], seq[Max(s)])
        BY <2>1, <2>3, <3>2 DEF Unfolds
      <4> HIDE DEF h
      <4> QED
        BY <4>1, <4>2, <4>3
    <3> QED
      BY <3>1, <3>2
  <2>6. Unfolds(h, c, start, seq, k)
    <3>1. h = [s \in SUBSET (1 .. k) |-> h[s]]
      OBVIOUS
    <3> HIDE DEF h
    <3>2. h = [s \in SUBSET (1 .. k) |->
                 IF s = {} THEN start ELSE LoopStep(c, h[s \ {Max(s)}], seq[Max(s)])]
      BY <2>5, <3>1
    <3> QED
      BY <3>2 DEF Unfolds
  <2> HIDE DEF h
  <2> QED
    BY <2>6
<1>3. n \in T
  <2> HIDE DEF T
  <2> QED
    BY <1>1, <1>2, StepInduction
<1> QED
  BY <1>3

LEMMA UnfoldChain ==
  ASSUME NEW n \in Nat, NEW c, NEW start, NEW seq, NEW g, Unfolds(g, c, start, seq, n)
  PROVE  \E h : Chain(h, c, start, seq, n) /\ h[n] = g[1 .. n]
<1> DEFINE h == [k \in 0 .. n |-> g[1 .. k]]
<1>5. h[0] = start
  <2>1. 1 .. 0 = {} /\ {} \in SUBSET (1 .. n) /\ h[0] = g[1 .. 0]
    OBVIOUS
  <2> QED
    BY <2>1 DEF Unfolds
<1>6. ASSUME NEW k \in 1 .. n PROVE h[k] = LoopStep(c, h[k - 1], seq[k])
  <2>1. Max(1 .. k) = k /\ (1 .. k) \ {Max(1 .. k)} = 1 .. k - 1 /\ 1 .. k # {}
    <3>1. k \in Nat /\ k > 0
      OBVIOUS
    <3> QED
      BY <3>1, TopOfInterval
  <2>2. h[k] = g[1 .. k] /\ h[k - 1] = g[1 .. k - 1] /\ 1 .. k \in SUBSET (1 .. n)
    OBVIOUS
  <2>3. g[1 .. k] = IF 1 .. k = {} THEN start
                    ELSE LoopStep(c, g[(1 .. k) \ {Max(1 .. k)}], seq[Max(1 .. k)])
    BY <2>2 DEF Unfolds
  <2> HIDE DEF h
  <2> QED
    BY <2>1, <2>2, <2>3
<1>7. h[n] = g[1 .. n]
  OBVIOUS
<1> HIDE DEF h
<1> QED
  BY <1>5, <1>6, <1>7 DEF Chain

(* The loop of allocate over the pages of a block.                         *)
MapAll(start, root, v, pa, n, ub) ==
  FoldLeft(LAMBDA s, i : MapPage(s, root, v + i, pa + i, ub), start, [i \in 1 .. n |-> i - 1])

LEMMA MapAllChain ==
  ASSUME NEW start, NEW root, NEW v, NEW pa, NEW n \in Nat, NEW ub
  PROVE  \E h : /\ h[0] = start /\ MapAll(start, root, v, pa, n, ub) = h[n]
                /\ \A k \in 1 .. n : h[k] = MapPage(h[k - 1], root, v + (k - 1), pa + (k - 1), ub)
<1> DEFINE c == [loop |-> "map", root |-> root, v |-> v, pa |-> pa, ub |-> ub]
           q == [i \in 1 .. n |-> i - 1]
<1>1. \A x, i : MapPage(x, root, v + (i), pa + (i), ub) = LoopStep(c, x, i)
  BY DEF LoopStep
<1>2. n \in Nat
  BY PhysicalAssumption
<1>3. PICK f : Unfolds(f, c, start, q, n)
  BY <1>2, UnfoldExists
<1>4. f = [s \in SUBSET (1 .. n) |->
             IF s = {} THEN start
             ELSE MapPage(f[s \ {Max(s)}], root, v + (q[Max(s)]), pa + (q[Max(s)]), ub)]
  <2> HIDE DEF c, q
  <2> QED
    BY <1>1, <1>3 DEF Unfolds
<1>5. PICK g :
        /\ g = [s \in SUBSET (1 .. n) |->
                  IF s = {} THEN start
                  ELSE MapPage(g[s \ {Max(s)}], root, v + (q[Max(s)]), pa + (q[Max(s)]), ub)]
        /\ MapAll(start, root, v, pa, n, ub) = g[1 .. n]
  BY <1>4 DEF MapAll, FoldLeft, MapThenFoldSet
<1>6. Unfolds(g, c, start, q, n)
  <2> HIDE DEF c, q
  <2>1. g = [s \in SUBSET (1 .. n) |->
               IF s = {} THEN start ELSE LoopStep(c, g[s \ {Max(s)}], q[Max(s)])]
    BY <1>1, <1>5
  <2> QED
    BY <2>1 DEF Unfolds
<1>7. PICK h : Chain(h, c, start, q, n) /\ h[n] = g[1 .. n]
  <2> HIDE DEF c, q
  <2> QED
    BY <1>2, <1>6, UnfoldChain
<1>8. \A k \in 1 .. n : q[k] = k - 1
  OBVIOUS
<1> HIDE DEF q, c
<1>9. \A k \in 1 .. n : h[k] = LoopStep(c, h[k - 1], k - 1)
  BY <1>7, <1>8 DEF Chain
<1>10. \A k \in 1 .. n : h[k] = MapPage(h[k - 1], root, v + (k - 1), pa + (k - 1), ub)
  BY <1>1, <1>9
<1>11. h[0] = start /\ MapAll(start, root, v, pa, n, ub) = h[n]
  BY <1>5, <1>7 DEF Chain
<1> QED
  BY <1>10, <1>11

(* The loop of act_virt over the pages of a range.                         *)
PutAll(start, root, a, len, w, first, n) ==
  FoldLeft(LAMBDA s, v : PutPage(s, root, a, len, w, v), start, [i \in 1 .. n |-> first + i - 1])

Puts(h, start, root, a, len, w, first, n) ==
  h[0] = start /\ \A k \in 1 .. n : h[k] = PutPage(h[k - 1], root, a, len, w, first + k - 1)

LEMMA PutAllChain ==
  ASSUME NEW start, NEW root, NEW a, NEW len, NEW w, NEW first \in Nat, NEW n \in Nat
  PROVE  \E h : /\ PutAll(start, root, a, len, w, first, n) = h[n]
                /\ Puts(h, start, root, a, len, w, first, n)
<1> DEFINE c == [loop |-> "put", root |-> root, a |-> a, len |-> len, w |-> w]
           q == [i \in 1 .. n |-> first + i - 1]
<1>1. \A x, i : PutPage(x, root, a, len, w, i) = LoopStep(c, x, i)
  BY DEF LoopStep
<1>2. n \in Nat
  BY PhysicalAssumption
<1>3. PICK f : Unfolds(f, c, start, q, n)
  BY <1>2, UnfoldExists
<1>4. f = [s \in SUBSET (1 .. n) |->
             IF s = {} THEN start
             ELSE PutPage(f[s \ {Max(s)}], root, a, len, w, q[Max(s)])]
  <2> HIDE DEF c, q
  <2> QED
    BY <1>1, <1>3 DEF Unfolds
<1>5. PICK g :
        /\ g = [s \in SUBSET (1 .. n) |->
                  IF s = {} THEN start
                  ELSE PutPage(g[s \ {Max(s)}], root, a, len, w, q[Max(s)])]
        /\ PutAll(start, root, a, len, w, first, n) = g[1 .. n]
  BY <1>4 DEF PutAll, FoldLeft, MapThenFoldSet
<1>6. Unfolds(g, c, start, q, n)
  <2> HIDE DEF c, q
  <2>1. g = [s \in SUBSET (1 .. n) |->
               IF s = {} THEN start ELSE LoopStep(c, g[s \ {Max(s)}], q[Max(s)])]
    BY <1>1, <1>5
  <2> QED
    BY <2>1 DEF Unfolds
<1>7. PICK h : Chain(h, c, start, q, n) /\ h[n] = g[1 .. n]
  <2> HIDE DEF c, q
  <2> QED
    BY <1>2, <1>6, UnfoldChain
<1>8. \A k \in 1 .. n : q[k] = first + k - 1
  OBVIOUS
<1> HIDE DEF q, c
<1>9. \A k \in 1 .. n : h[k] = LoopStep(c, h[k - 1], first + k - 1)
  BY <1>7, <1>8 DEF Chain
<1>10. h[0] = start
  BY <1>7 DEF Chain
<1>11. \A k \in 1 .. n : h[k] = PutPage(h[k - 1], root, a, len, w, first + k - 1)
  BY <1>1, <1>9
<1> QED
  BY <1>5, <1>7, <1>10, <1>11 DEF Puts

(* The loops of clean_pt over the entries of a middle table and a root.    *)
CleanMiddles(start, t1) == FoldLeft(LAMBDA x, j : CleanMiddle(x, t1, j), start, Indices)

LEMMA CleanMiddlesChain ==
  ASSUME NEW start, NEW t1
  PROVE  \E h : /\ h[0] = start /\ CleanMiddles(start, t1) = h[PageElem]
                /\ \A k \in 1 .. PageElem : h[k] = CleanMiddle(h[k - 1], t1, k - 1)
<1> DEFINE c == [loop |-> "middle", t |-> t1]
           q == [i \in 1 .. PageElem |-> i - 1]
<1>1. \A x, i : CleanMiddle(x, t1, i) = LoopStep(c, x, i)
  BY DEF LoopStep
<1>2. PageElem \in Nat
  BY PhysicalAssumption
<1>3. PICK f : Unfolds(f, c, start, q, PageElem)
  BY <1>2, UnfoldExists
<1>4. f = [s \in SUBSET (1 .. PageElem) |->
             IF s = {} THEN start
             ELSE CleanMiddle(f[s \ {Max(s)}], t1, q[Max(s)])]
  <2> HIDE DEF c, q
  <2> QED
    BY <1>1, <1>3 DEF Unfolds
<1>5. PICK g :
        /\ g = [s \in SUBSET (1 .. PageElem) |->
                  IF s = {} THEN start
                  ELSE CleanMiddle(g[s \ {Max(s)}], t1, q[Max(s)])]
        /\ CleanMiddles(start, t1) = g[1 .. PageElem]
  BY <1>4 DEF CleanMiddles, Indices, FoldLeft, MapThenFoldSet
<1>6. Unfolds(g, c, start, q, PageElem)
  <2> HIDE DEF c, q
  <2>1. g = [s \in SUBSET (1 .. PageElem) |->
               IF s = {} THEN start ELSE LoopStep(c, g[s \ {Max(s)}], q[Max(s)])]
    BY <1>1, <1>5
  <2> QED
    BY <2>1 DEF Unfolds
<1>7. PICK h : Chain(h, c, start, q, PageElem) /\ h[PageElem] = g[1 .. PageElem]
  <2> HIDE DEF c, q
  <2> QED
    BY <1>2, <1>6, UnfoldChain
<1>8. \A k \in 1 .. PageElem : q[k] = k - 1
  OBVIOUS
<1> HIDE DEF q, c
<1>9. \A k \in 1 .. PageElem : h[k] = LoopStep(c, h[k - 1], k - 1)
  BY <1>7, <1>8 DEF Chain
<1> QED
  BY <1>1, <1>5, <1>7, <1>9 DEF Chain

LEMMA CleanPtChain ==
  ASSUME NEW m, NEW root
  PROVE  \E h : /\ h[0] = m /\ CleanPt(m, root) = h[PageElem]
                /\ \A k \in 1 .. PageElem : h[k] = CleanEntry(h[k - 1], root, k - 1)
<1> DEFINE c == [loop |-> "entry", t |-> root]
           q == [i \in 1 .. PageElem |-> i - 1]
<1>1. \A x, i : CleanEntry(x, root, i) = LoopStep(c, x, i)
  BY DEF LoopStep
<1>2. PageElem \in Nat
  BY PhysicalAssumption
<1>3. PICK f : Unfolds(f, c, m, q, PageElem)
  BY <1>2, UnfoldExists
<1>4. f = [s \in SUBSET (1 .. PageElem) |->
             IF s = {} THEN m
             ELSE CleanEntry(f[s \ {Max(s)}], root, q[Max(s)])]
  <2> HIDE DEF c, q
  <2> QED
    BY <1>1, <1>3 DEF Unfolds
<1>5. PICK g :
        /\ g = [s \in SUBSET (1 .. PageElem) |->
                  IF s = {} THEN m
                  ELSE CleanEntry(g[s \ {Max(s)}], root, q[Max(s)])]
        /\ CleanPt(m, root) = g[1 .. PageElem]
  BY <1>4 DEF CleanPt, Indices, FoldLeft, MapThenFoldSet
<1>6. Unfolds(g, c, m, q, PageElem)
  <2> HIDE DEF c, q
  <2>1. g = [s \in SUBSET (1 .. PageElem) |->
               IF s = {} THEN m ELSE LoopStep(c, g[s \ {Max(s)}], q[Max(s)])]
    BY <1>1, <1>5
  <2> QED
    BY <2>1 DEF Unfolds
<1>7. PICK h : Chain(h, c, m, q, PageElem) /\ h[PageElem] = g[1 .. PageElem]
  <2> HIDE DEF c, q
  <2> QED
    BY <1>2, <1>6, UnfoldChain
<1>8. \A k \in 1 .. PageElem : q[k] = k - 1
  OBVIOUS
<1> HIDE DEF q, c
<1>9. \A k \in 1 .. PageElem : h[k] = LoopStep(c, h[k - 1], k - 1)
  BY <1>7, <1>8 DEF Chain
<1> QED
  BY <1>1, <1>5, <1>7, <1>9 DEF Chain

(* The loops of clean_task, from the last level up.                        *)
LEMMA DropLeavesChain ==
  ASSUME NEW m, NEW t2
  PROVE  \E h : /\ h[0] = m /\ DropLeaves(m, t2) = h[PageElem]
                /\ \A k \in 1 .. PageElem : h[k] = DropLeaf(h[k - 1], t2, k - 1)
<1> DEFINE c == [loop |-> "leaf", t |-> t2]
           q == [i \in 1 .. PageElem |-> i - 1]
<1>1. \A x, i : DropLeaf(x, t2, i) = LoopStep(c, x, i)
  BY DEF LoopStep
<1>2. PageElem \in Nat
  BY PhysicalAssumption
<1>3. PICK f : Unfolds(f, c, m, q, PageElem)
  BY <1>2, UnfoldExists
<1>4. f = [s \in SUBSET (1 .. PageElem) |->
             IF s = {} THEN m
             ELSE DropLeaf(f[s \ {Max(s)}], t2, q[Max(s)])]
  <2> HIDE DEF c, q
  <2> QED
    BY <1>1, <1>3 DEF Unfolds
<1>5. PICK g :
        /\ g = [s \in SUBSET (1 .. PageElem) |->
                  IF s = {} THEN m
                  ELSE DropLeaf(g[s \ {Max(s)}], t2, q[Max(s)])]
        /\ DropLeaves(m, t2) = g[1 .. PageElem]
  BY <1>4 DEF DropLeaves, DropLeaf, Indices, FoldLeft, MapThenFoldSet
<1>6. Unfolds(g, c, m, q, PageElem)
  <2> HIDE DEF c, q
  <2>1. g = [s \in SUBSET (1 .. PageElem) |->
               IF s = {} THEN m ELSE LoopStep(c, g[s \ {Max(s)}], q[Max(s)])]
    BY <1>1, <1>5
  <2> QED
    BY <2>1 DEF Unfolds
<1>7. PICK h : Chain(h, c, m, q, PageElem) /\ h[PageElem] = g[1 .. PageElem]
  <2> HIDE DEF c, q
  <2> QED
    BY <1>2, <1>6, UnfoldChain
<1>8. \A k \in 1 .. PageElem : q[k] = k - 1
  OBVIOUS
<1> HIDE DEF q, c
<1>9. \A k \in 1 .. PageElem : h[k] = LoopStep(c, h[k - 1], k - 1)
  BY <1>7, <1>8 DEF Chain
<1> QED
  BY <1>1, <1>5, <1>7, <1>9 DEF Chain

LEMMA DropMiddleChain ==
  ASSUME NEW m, NEW t1
  PROVE  \E h : /\ h[0] = m /\ DropMiddle(m, t1) = h[PageElem]
                /\ \A k \in 1 .. PageElem : h[k] = DropTable(h[k - 1], t1, k - 1)
<1> DEFINE c == [loop |-> "table", t |-> t1]
           q == [i \in 1 .. PageElem |-> i - 1]
<1>1. \A x, i : DropTable(x, t1, i) = LoopStep(c, x, i)
  BY DEF LoopStep
<1>2. PageElem \in Nat
  BY PhysicalAssumption
<1>3. PICK f : Unfolds(f, c, m, q, PageElem)
  BY <1>2, UnfoldExists
<1>4. f = [s \in SUBSET (1 .. PageElem) |->
             IF s = {} THEN m
             ELSE DropTable(f[s \ {Max(s)}], t1, q[Max(s)])]
  <2> HIDE DEF c, q
  <2> QED
    BY <1>1, <1>3 DEF Unfolds
<1>5. PICK g :
        /\ g = [s \in SUBSET (1 .. PageElem) |->
                  IF s = {} THEN m
                  ELSE DropTable(g[s \ {Max(s)}], t1, q[Max(s)])]
        /\ DropMiddle(m, t1) = g[1 .. PageElem]
  BY <1>4 DEF DropMiddle, DropTable, Indices, FoldLeft, MapThenFoldSet
<1>6. Unfolds(g, c, m, q, PageElem)
  <2> HIDE DEF c, q
  <2>1. g = [s \in SUBSET (1 .. PageElem) |->
               IF s = {} THEN m ELSE LoopStep(c, g[s \ {Max(s)}], q[Max(s)])]
    BY <1>1, <1>5
  <2> QED
    BY <2>1 DEF Unfolds
<1>7. PICK h : Chain(h, c, m, q, PageElem) /\ h[PageElem] = g[1 .. PageElem]
  <2> HIDE DEF c, q
  <2> QED
    BY <1>2, <1>6, UnfoldChain
<1>8. \A k \in 1 .. PageElem : q[k] = k - 1
  OBVIOUS
<1> HIDE DEF q, c
<1>9. \A k \in 1 .. PageElem : h[k] = LoopStep(c, h[k - 1], k - 1)
  BY <1>7, <1>8 DEF Chain
<1> QED
  BY <1>1, <1>5, <1>7, <1>9 DEF Chain

DropBranches(m, root) == FoldLeft(LAMBDA x, i : DropBranch(x, root, i), m, Indices)

LEMMA CleanTaskChain ==
  ASSUME NEW m, NEW root
  PROVE  \E h : /\ h[0] = m /\ DropBranches(m, root) = h[PageElem]
                /\ \A k \in 1 .. PageElem : h[k] = DropBranch(h[k - 1], root, k - 1)
<1> DEFINE c == [loop |-> "branch", t |-> root]
           q == [i \in 1 .. PageElem |-> i - 1]
<1>1. \A x, i : DropBranch(x, root, i) = LoopStep(c, x, i)
  BY DEF LoopStep
<1>2. PageElem \in Nat
  BY PhysicalAssumption
<1>3. PICK f : Unfolds(f, c, m, q, PageElem)
  BY <1>2, UnfoldExists
<1>4. f = [s \in SUBSET (1 .. PageElem) |->
             IF s = {} THEN m
             ELSE DropBranch(f[s \ {Max(s)}], root, q[Max(s)])]
  <2> HIDE DEF c, q
  <2> QED
    BY <1>1, <1>3 DEF Unfolds
<1>5. PICK g :
        /\ g = [s \in SUBSET (1 .. PageElem) |->
                  IF s = {} THEN m
                  ELSE DropBranch(g[s \ {Max(s)}], root, q[Max(s)])]
        /\ DropBranches(m, root) = g[1 .. PageElem]
  BY <1>4 DEF DropBranches, Indices, FoldLeft, MapThenFoldSet
<1>6. Unfolds(g, c, m, q, PageElem)
  <2> HIDE DEF c, q
  <2>1. g = [s \in SUBSET (1 .. PageElem) |->
               IF s = {} THEN m ELSE LoopStep(c, g[s \ {Max(s)}], q[Max(s)])]
    BY <1>1, <1>5
  <2> QED
    BY <2>1 DEF Unfolds
<1>7. PICK h : Chain(h, c, m, q, PageElem) /\ h[PageElem] = g[1 .. PageElem]
  <2> HIDE DEF c, q
  <2> QED
    BY <1>2, <1>6, UnfoldChain
<1>8. \A k \in 1 .. PageElem : q[k] = k - 1
  OBVIOUS
<1> HIDE DEF q, c
<1>9. \A k \in 1 .. PageElem : h[k] = LoopStep(c, h[k - 1], k - 1)
  BY <1>7, <1>8 DEF Chain
<1> QED
  BY <1>1, <1>5, <1>7, <1>9 DEF Chain

-----------------------------------------------------------------------------
(* Division and remainder, and the three digits VAextract takes apart.     *)
Digit0(P, v) == (v \div (P * P)) % P
Digit1(P, v) == (v \div P) % P
Digit2(P, v) == v % P

LEMMA DivMod ==
  ASSUME NEW x \in Nat, NEW d \in Nat \ {0}
  PROVE /\ x \div d \in Nat /\ x % d \in 0 .. d - 1
        /\ x = d * (x \div d) + (x % d)
OBVIOUS

LEMMA DivUnique ==
  ASSUME NEW d \in Nat \ {0}, NEW q \in Nat, NEW r \in 0 .. d - 1
  PROVE  (d * q + r) \div d = q /\ (d * q + r) % d = r
<1> DEFINE x == d * q + r
           a == x \div d
           s == x % d
<1>0. x \in Nat
  OBVIOUS
<1>1. a \in Nat /\ s \in 0 .. d - 1 /\ x = d * a + s
  BY <1>0, DivMod
<1>2. d * a + s = d * q + r
  BY <1>1
<1> HIDE DEF a, s
<1>3. a = q
  <2>1. CASE a < q
    <3>1. a + 1 <= q
      BY <1>1, <2>1
    <3>2. d * (a + 1) <= d * q
      BY <1>1, <3>1
    <3>3. d * (a + 1) = d * a + d
      BY <1>1
    <3> QED
      BY <1>1, <1>2, <3>2, <3>3
  <2>2. CASE q < a
    <3>1. d * (q + 1) <= d * a
      BY <1>1, <2>2
    <3>3. d * (q + 1) = d * q + d
      OBVIOUS
    <3> QED
      BY <1>1, <1>2, <3>1, <3>3
  <2> QED
    BY <1>1, <2>1, <2>2
<1> QED
  BY <1>1, <1>2, <1>3 DEF a, s

LEMMA Digits ==
  ASSUME NEW P \in Nat \ {0}, NEW v \in Nat, v < P * P * P
  PROVE /\ Digit0(P, v) \in 0 .. P - 1 /\ Digit1(P, v) \in 0 .. P - 1 /\ Digit2(P, v) \in 0 .. P - 1
        /\ v = P * (P * Digit0(P, v) + Digit1(P, v)) + Digit2(P, v)
<1> DEFINE y == v \div P
           z == y \div P
<1>1. y \in Nat /\ Digit2(P, v) \in 0 .. P - 1 /\ v = P * y + Digit2(P, v)
  BY DivMod DEF Digit2
<1>2. z \in Nat /\ Digit1(P, v) \in 0 .. P - 1 /\ y = P * z + Digit1(P, v)
  BY <1>1, DivMod DEF Digit1
<1> HIDE DEF y, z
<1>3. v = (P * P) * z + (P * Digit1(P, v) + Digit2(P, v))
  <2>1. P * y = P * (P * z) + P * Digit1(P, v)
    BY <1>2
  <2> QED
   BY <1>1, <1>2, <2>1
<1>4. P * Digit1(P, v) + Digit2(P, v) \in 0 .. P * P - 1
  <2>1. P * (Digit1(P, v) + 1) <= P * P
    BY <1>2
  <2>2. P * (Digit1(P, v) + 1) = P * Digit1(P, v) + P /\ P * Digit1(P, v) \in Nat
    BY <1>2
  <2> QED
   BY <1>1, <1>2, <2>1, <2>2
<1>5. P * P \in Nat \ {0}
  OBVIOUS
<1>6. v \div (P * P) = z
  <2> DEFINE d == P * P
             r == P * Digit1(P, v) + Digit2(P, v)
  <2>1. d \in Nat \ {0} /\ r \in 0 .. d - 1 /\ v = d * z + r
    BY <1>3, <1>4, <1>5
  <2> HIDE DEF d, r
  <2>2. v \div d = z
    BY <1>2, <2>1, DivUnique
  <2> QED
    BY <2>2 DEF d
<1>7. z < P
  <2>1. CASE P <= z
    <3>1. (P * P) * P <= (P * P) * z
      BY <2>1, <1>2, <1>5
    <3>2. (P * P) * P \in Nat /\ (P * P) * z \in Nat /\ P * P * P = (P * P) * P
      BY <1>2
    <3> QED
      BY <3>1, <3>2, <1>3, <1>4
  <2> QED
    BY <2>1, <1>2
<1>8. z % P = z
  <2>1. z \in 0 .. P - 1 /\ 0 \in Nat /\ P * 0 + z = z
    BY <1>7, <1>2
  <2> QED
    BY <2>1, DivUnique
<1>9. Digit0(P, v) = z
  BY <1>6, <1>8 DEF Digit0
<1> QED
  BY <1>1, <1>2, <1>7, <1>9

LEMMA SameDigits ==
  ASSUME NEW P \in Nat \ {0}, NEW u \in Nat, u < P * P * P, NEW v \in Nat, v < P * P * P,
         Digit0(P, u) = Digit0(P, v), Digit1(P, u) = Digit1(P, v), Digit2(P, u) = Digit2(P, v)
  PROVE  u = v
BY Digits

LEMMA NextDigits ==
  ASSUME NEW P \in Nat \ {0}, NEW v \in Nat, v + 1 < P * P * P
  PROVE  /\ Digit2(P, v + 1) # Digit2(P, v)
         /\ Digit1(P, v + 1) = Digit1(P, v) => Digit0(P, v + 1) = Digit0(P, v)
<1> DEFINE y == v \div P
           c == v % P
           z == y \div P
           b == y % P
<1>1. y \in Nat /\ c \in 0 .. P - 1 /\ v = P * y + c /\ Digit2(P, v) = c /\ Digit1(P, v) = b
  BY DivMod DEF Digit2, Digit1
<1>2. z \in Nat /\ b \in 0 .. P - 1 /\ y = P * z + b
  BY <1>1, DivMod
<1>3. P # 1
  <2>1. CASE P = 1
    <3>1. P * P * P = 1
      BY <2>1
    <3> QED
      BY <3>1
  <2> QED
    BY <2>1
<1>9. \A x \in Nat : x \div (P * P) = (x \div P) \div P
  <2> SUFFICES ASSUME NEW x \in Nat PROVE x \div (P * P) = (x \div P) \div P
    OBVIOUS
  <2> DEFINE e == x \div P
             f == e \div P
             g == e % P
             h == x % P
  <2>1. e \in Nat /\ h \in 0 .. P - 1 /\ x = P * e + h
    BY DivMod
  <2>2. f \in Nat /\ g \in 0 .. P - 1 /\ e = P * f + g
    BY <2>1, DivMod
  <2> HIDE DEF e, f, g, h
  <2>3. x = (P * P) * f + (P * g + h)
    <3>1. P * e = P * (P * f) + P * g
      BY <2>2
    <3> QED
      BY <2>1, <2>2, <3>1
  <2>4. P * g + h \in 0 .. P * P - 1
    <3>1. P * (g + 1) <= P * P
      BY <2>2
    <3>2. P * (g + 1) = P * g + P /\ P * g \in Nat
      BY <2>2
    <3> QED
      BY <2>1, <2>2, <3>1, <3>2
  <2>5. P * P \in Nat \ {0}
    OBVIOUS
  <2>6. x \div (P * P) = f
    BY <2>2, <2>3, <2>4, <2>5, DivUnique
  <2> QED
    BY <2>6 DEF e, f
<1>4. CASE c < P - 1
  <2>1. v + 1 = P * y + (c + 1) /\ c + 1 \in 0 .. P - 1
    BY <1>1, <1>4
  <2>2. (v + 1) \div P = y /\ (v + 1) % P = c + 1
    <3> DEFINE r == c + 1
               x == v + 1
    <3> HIDE DEF y, c, r, x
    <3>1. r \in 0 .. P - 1 /\ x = P * y + r
      BY <2>1 DEF r, x
    <3>2. x \div P = y /\ x % P = r
      BY <1>1, <3>1, DivUnique
    <3> QED
      BY <3>2 DEF r, x
  <2>3. Digit0(P, v + 1) = z % P /\ Digit0(P, v) = z % P
    <3> v + 1 \in Nat
      OBVIOUS
    <3> QED
      BY <1>9, <2>2 DEF Digit0
  <2> QED
    BY <1>1, <2>2, <2>3 DEF Digit2
<1>5. CASE c = P - 1
  <2>1. v + 1 = P * (y + 1) + 0 /\ 0 \in 0 .. P - 1 /\ y + 1 \in Nat
    <3> HIDE DEF y, c
    <3>1. P * (y + 1) = P * y + P
      BY <1>1
    <3> QED
      BY <1>1, <1>5, <3>1
  <2>2. (v + 1) \div P = y + 1 /\ (v + 1) % P = 0
    <3> DEFINE r == y + 1
               x == v + 1
    <3> HIDE DEF y, c, r, x
    <3>1. r \in Nat /\ x = P * r + 0
      BY <2>1 DEF r, x
    <3>2. x \div P = r /\ x % P = 0
      BY <2>1, <3>1, DivUnique
    <3> QED
      BY <3>2 DEF r, x
  <2>3. Digit1(P, v + 1) # Digit1(P, v)
    <3>1. CASE b < P - 1
      <4>1. y + 1 = P * z + (b + 1) /\ b + 1 \in 0 .. P - 1
        BY <1>1, <1>2, <3>1
      <4>2. (y + 1) % P = b + 1
        <5> DEFINE r == b + 1
                   x == y + 1
        <5> HIDE DEF y, c, z, b, r, x
        <5>1. r \in 0 .. P - 1 /\ x = P * z + r
          BY <4>1 DEF r, x
        <5>2. x % P = r
          BY <1>2, <5>1, DivUnique
        <5> QED
          BY <5>2 DEF r, x
      <4> QED
        BY <1>1, <1>2, <2>2, <4>2 DEF Digit1
    <3>2. CASE b = P - 1
      <4>1. y + 1 = P * (z + 1) + 0 /\ 0 \in 0 .. P - 1 /\ z + 1 \in Nat
        <5> HIDE DEF y, c, z, b
        <5>1. P * (z + 1) = P * z + P
          BY <1>2
        <5> QED
          BY <1>1, <1>2, <3>2, <5>1
      <4>2. (y + 1) % P = 0
        <5> HIDE DEF y, c, z, b
        <5> QED
          BY <1>1, <1>2, <4>1, DivUnique
      <4> QED
        BY <1>1, <1>2, <1>3, <2>2, <3>2, <4>2 DEF Digit1
    <3> QED
      BY <1>2, <3>1, <3>2
  <2>4. Digit2(P, v + 1) # Digit2(P, v)
    BY <1>1, <1>3, <1>5, <2>2 DEF Digit2
  <2> QED
    BY <2>3, <2>4
<1> QED
  BY <1>1, <1>4, <1>5

LEMMA Indexes ==
  ASSUME NEW v \in VPages
  PROVE  /\ v \in Nat
         /\ VAextract(v, 0) \in Offsets /\ VAextract(v, 1) \in Offsets
         /\ VAextract(v, 2) \in Offsets
<1>1. /\ VAextract(v, 0) = Digit0(PageElem, v) /\ VAextract(v, 1) = Digit1(PageElem, v)
      /\ VAextract(v, 2) = Digit2(PageElem, v)
  BY DEF VAextract, Digit0, Digit1, Digit2
<1>2. v \in Nat /\ v < PageElem * PageElem * PageElem
  BY PhysicalAssumption DEF VPages
<1>3. PageElem \in Nat \ {0}
  BY PhysicalAssumption
<1> QED
  BY <1>1, <1>2, <1>3, Digits DEF Offsets

LEMMA SameIndexes ==
  ASSUME NEW u \in VPages, NEW v \in VPages, VAextract(u, 0) = VAextract(v, 0),
         VAextract(u, 1) = VAextract(v, 1), VAextract(u, 2) = VAextract(v, 2)
  PROVE  u = v
<1>1. \A x : /\ VAextract(x, 0) = Digit0(PageElem, x) /\ VAextract(x, 1) = Digit1(PageElem, x)
             /\ VAextract(x, 2) = Digit2(PageElem, x)
  BY DEF VAextract, Digit0, Digit1, Digit2
<1>2. /\ u \in Nat /\ u < PageElem * PageElem * PageElem
      /\ v \in Nat /\ v < PageElem * PageElem * PageElem
  BY PhysicalAssumption DEF VPages
<1>3. PageElem \in Nat \ {0}
  BY PhysicalAssumption
<1> QED
  BY <1>1, <1>2, <1>3, SameDigits

LEMMA NextIndexes ==
  ASSUME NEW v \in Nat, v + 1 \in VPages
  PROVE  /\ VAextract(v + 1, 2) # VAextract(v, 2)
         /\ VAextract(v + 1, 1) = VAextract(v, 1) => VAextract(v + 1, 0) = VAextract(v, 0)
<1>1. \A x : /\ VAextract(x, 0) = Digit0(PageElem, x) /\ VAextract(x, 1) = Digit1(PageElem, x)
             /\ VAextract(x, 2) = Digit2(PageElem, x)
  BY DEF VAextract, Digit0, Digit1, Digit2
<1>2. v + 1 < PageElem * PageElem * PageElem
  BY PhysicalAssumption DEF VPages
<1>3. PageElem \in Nat \ {0}
  BY PhysicalAssumption
<1> QED
  BY <1>1, <1>2, <1>3, NextDigits

-----------------------------------------------------------------------------
(* Entries: a cleared one leads nowhere, one that is set to its table.     *)
LEMMA EntryFacts ==
  /\ ~IsValid(0) /\ PTE2PA(0) = 0
  /\ \A p \in Nat : /\ SetPTE(p) \in Nat \ {0} /\ IsValid(SetPTE(p))
                    /\ PTE2PA(SetPTE(p)) = p
  /\ \A w \in Nat : PTE2PA(w) \in Nat
BY DEF IsValid, PTE2PA, SetPTE

(* The tables of X lead to those of Y: an entry is cleared or valid, no    *)
(* two lead to one table, and every table of Y is reached.                 *)
Leads(m, X, Y) ==
  /\ \A p \in X, i \in Offsets :
       Entry(m, p, i) # 0 => IsValid(Entry(m, p, i)) /\ NextTable(m, p, i) \in Y
  /\ \A p, q \in X : \A i, j \in Offsets :
       Entry(m, p, i) # 0 /\ Entry(m, q, j) # 0 /\ NextTable(m, p, i) = NextTable(m, q, j)
         => p = q /\ i = j
  /\ \A y \in Y : \E p \in X, i \in Offsets : Entry(m, p, i) # 0 /\ NextTable(m, p, i) = y

(* The entries of last-level tables are cleared or lead to some page.      *)
Ends(m, Z) ==
  \A p \in Z, i \in Offsets :
    Entry(m, p, i) # 0 => IsValid(Entry(m, p, i)) /\ NextTable(m, p, i) # 0

SameEntries(m, x, X) == \A p \in X, i \in Offsets : Entry(x, p, i) = Entry(m, p, i)
NoEntries(m, p) == \A i \in Offsets : Entry(m, p, i) = 0

(* A table takes in one more table at a cleared entry, or loses one.       *)
LEMMA LeadsAdd ==
  ASSUME NEW m, NEW x, NEW X, NEW Y, Leads(m, X, Y), NEW a \in Nat, a \notin Y,
         NEW p \in X, NEW i \in Offsets, Entry(m, p, i) = 0,
         \A q \in X, j \in Offsets :
           Entry(x, q, j) = IF q = p /\ j = i THEN SetPTE(a) ELSE Entry(m, q, j)
  PROVE  Leads(x, X, Y \cup {a})
<1>1. /\ Entry(x, p, i) # 0 /\ IsValid(Entry(x, p, i)) /\ NextTable(x, p, i) = a
  BY EntryFacts DEF NextTable
<1>2. \A q \in X, j \in Offsets : ~(q = p /\ j = i) =>
        Entry(x, q, j) = Entry(m, q, j) /\ NextTable(x, q, j) = NextTable(m, q, j)
  BY DEF NextTable
<1>3. \A q \in X, j \in Offsets :
        Entry(x, q, j) # 0 => IsValid(Entry(x, q, j)) /\ NextTable(x, q, j) \in Y \cup {a}
  BY <1>1, <1>2 DEF Leads
<1>4. ASSUME NEW q \in X, NEW r \in X, NEW j \in Offsets, NEW k \in Offsets,
             Entry(x, q, j) # 0, Entry(x, r, k) # 0,
             NextTable(x, q, j) = NextTable(x, r, k)
      PROVE  q = r /\ j = k
  BY <1>1, <1>2, <1>4 DEF Leads
<1>5. \A y \in Y \cup {a} :
        \E q \in X, j \in Offsets : Entry(x, q, j) # 0 /\ NextTable(x, q, j) = y
  <2> SUFFICES ASSUME NEW y \in Y
               PROVE \E q \in X, j \in Offsets : Entry(x, q, j) # 0 /\ NextTable(x, q, j) = y
    BY <1>1
  <2>1. PICK q \in X, j \in Offsets : Entry(m, q, j) # 0 /\ NextTable(m, q, j) = y
    BY DEF Leads
  <2> QED
    BY <1>2, <2>1
<1> QED
  BY <1>3, <1>4, <1>5 DEF Leads

LEMMA LeadsCut ==
  ASSUME NEW m, NEW x, NEW X, NEW Y, Leads(m, X, Y),
         NEW p \in X, NEW i \in Offsets, Entry(m, p, i) # 0,
         \A q \in X, j \in Offsets :
           Entry(x, q, j) = IF q = p /\ j = i THEN 0 ELSE Entry(m, q, j)
  PROVE  Leads(x, X, Y \ {NextTable(m, p, i)})
<1> DEFINE a == NextTable(m, p, i)
<1>1. Entry(x, p, i) = 0
  OBVIOUS
<1>2. \A q \in X, j \in Offsets : ~(q = p /\ j = i) =>
        Entry(x, q, j) = Entry(m, q, j) /\ NextTable(x, q, j) = NextTable(m, q, j)
  BY DEF NextTable
<1>3. ASSUME NEW q \in X, NEW j \in Offsets, Entry(x, q, j) # 0
      PROVE  IsValid(Entry(x, q, j)) /\ NextTable(x, q, j) \in Y \ {a}
  BY <1>1, <1>2, <1>3 DEF Leads
<1>4. ASSUME NEW q \in X, NEW r \in X, NEW j \in Offsets, NEW k \in Offsets,
             Entry(x, q, j) # 0, Entry(x, r, k) # 0,
             NextTable(x, q, j) = NextTable(x, r, k)
      PROVE  q = r /\ j = k
  BY <1>1, <1>2, <1>4 DEF Leads
<1>5. ASSUME NEW y \in Y \ {a}
      PROVE \E q \in X, j \in Offsets : Entry(x, q, j) # 0 /\ NextTable(x, q, j) = y
  <2>1. PICK q \in X, j \in Offsets : Entry(m, q, j) # 0 /\ NextTable(m, q, j) = y
    BY DEF Leads
  <2> QED
    BY <1>2, <2>1
<1> QED
  BY <1>3, <1>4, <1>5 DEF Leads

(* Empty tables come and go without changing where the others lead.        *)
LEMMA LeadsGrow ==
  ASSUME NEW m, NEW x, NEW X, NEW Y, Leads(m, X, Y), NEW Z,
         \A p \in Z \cap X : \A i \in Offsets : Entry(x, p, i) = Entry(m, p, i),
         \A p \in Z \ X : NoEntries(x, p), \A p \in X \ Z : NoEntries(m, p)
  PROVE  Leads(x, Z, Y)
<1>1. \A q \in Z, j \in Offsets : Entry(x, q, j) # 0 =>
        /\ q \in X /\ Entry(x, q, j) = Entry(m, q, j) /\ NextTable(x, q, j) = NextTable(m, q, j)
  BY DEF NextTable, NoEntries
<1>2. \A q \in Z, j \in Offsets :
        Entry(x, q, j) # 0 => IsValid(Entry(x, q, j)) /\ NextTable(x, q, j) \in Y
  BY <1>1 DEF Leads
<1>3. ASSUME NEW q \in Z, NEW r \in Z, NEW j \in Offsets, NEW k \in Offsets,
             Entry(x, q, j) # 0, Entry(x, r, k) # 0,
             NextTable(x, q, j) = NextTable(x, r, k)
      PROVE  q = r /\ j = k
  BY <1>1, <1>3 DEF Leads
<1>4. ASSUME NEW y \in Y
      PROVE \E q \in Z, j \in Offsets : Entry(x, q, j) # 0 /\ NextTable(x, q, j) = y
  <2>1. PICK q \in X, j \in Offsets : Entry(m, q, j) # 0 /\ NextTable(m, q, j) = y
    BY DEF Leads
  <2>2. q \in Z
    BY <2>1 DEF NoEntries
  <2> QED
    BY <2>1, <2>2 DEF NextTable
<1> QED
  BY <1>2, <1>3, <1>4 DEF Leads

LEMMA LeadsSame ==
  ASSUME NEW m, NEW x, NEW X, NEW Y, Leads(m, X, Y), SameEntries(m, x, X)
  PROVE  Leads(x, X, Y)
<1>1. /\ \A p \in X \cap X : \A i \in Offsets : Entry(x, p, i) = Entry(m, p, i)
      /\ \A p \in X \ X : NoEntries(x, p) /\ NoEntries(m, p)
  BY DEF SameEntries
<1> QED
  BY <1>1, LeadsGrow

(* Some tables go, with those that only they led to.                       *)
LEMMA LeadsLess ==
  ASSUME NEW m, NEW x, NEW X, NEW Y, Leads(m, X, Y), NEW U, NEW V,
         SameEntries(m, x, X \ U), V \subseteq Y,
         \A p \in X, i \in Offsets : Entry(m, p, i) # 0 =>
           (p \in U <=> NextTable(m, p, i) \in V)
  PROVE  Leads(x, X \ U, Y \ V)
<1>1. \A q \in X \ U, j \in Offsets :
        Entry(x, q, j) = Entry(m, q, j) /\ NextTable(x, q, j) = NextTable(m, q, j)
  BY DEF NextTable, SameEntries
<1>2. \A q \in X \ U, j \in Offsets :
        Entry(x, q, j) # 0 => IsValid(Entry(x, q, j)) /\ NextTable(x, q, j) \in Y \ V
  BY <1>1 DEF Leads
<1>3. ASSUME NEW q \in X \ U, NEW r \in X \ U, NEW j \in Offsets, NEW k \in Offsets,
             Entry(x, q, j) # 0, Entry(x, r, k) # 0,
             NextTable(x, q, j) = NextTable(x, r, k)
      PROVE  q = r /\ j = k
  BY <1>1, <1>3 DEF Leads
<1>4. ASSUME NEW y \in Y \ V
      PROVE \E q \in X \ U, j \in Offsets : Entry(x, q, j) # 0 /\ NextTable(x, q, j) = y
  <2>1. PICK q \in X, j \in Offsets : Entry(m, q, j) # 0 /\ NextTable(m, q, j) = y
    BY DEF Leads
  <2> QED
    BY <1>1, <2>1
<1> QED
  BY <1>2, <1>3, <1>4 DEF Leads

-----------------------------------------------------------------------------
(* The page tables in a RAM: R the roots, A the tables they lead to, B the *)
(* last-level tables, each a block of one page; F are all other blocks.    *)
TableBlocks(S) == {Block(p, 1) : p \in S}
FrameBlocks == {Block(0, Reserved), Block(MaxRange, 1)}

Tables(m, R, A, B, F) ==
  /\ MemOK(m)
  /\ R \cap A = {} /\ R \cap B = {} /\ A \cap B = {}
  /\ \A p \in R \cup A \cup B : p \in Nat /\ p # 0 /\ p \in DOMAIN m.pages
  /\ BlocksOf(m) = F \cup TableBlocks(R \cup A \cup B)
  /\ \A p \in R \cup A \cup B : Block(p, 1) \notin F
  /\ Leads(m, R, A) /\ Leads(m, A, B) /\ Ends(m, B)

(* The way of a page through the tables of its root.                       *)
MidOf(m, r, v) == NextTable(m, r, VAextract(v, 0))
LeafOf(m, r, v) == NextTable(m, MidOf(m, r, v), VAextract(v, 1))
HasMid(m, r, v) == Entry(m, r, VAextract(v, 0)) # 0
HasLeaf(m, r, v) == HasMid(m, r, v) /\ Entry(m, MidOf(m, r, v), VAextract(v, 1)) # 0
Mapped(m, r, v) == HasLeaf(m, r, v) /\ Entry(m, LeafOf(m, r, v), VAextract(v, 2)) # 0

LEMMA WayFacts ==
  ASSUME NEW m, NEW R, NEW A, NEW B, NEW F, Tables(m, R, A, B, F),
         NEW r \in R, NEW v \in VPages
  PROVE  /\ HasMid(m, r, v) => /\ MidOf(m, r, v) \in A
                               /\ IsValid(Entry(m, r, VAextract(v, 0)))
         /\ HasLeaf(m, r, v) => /\ LeafOf(m, r, v) \in B
                                /\ IsValid(Entry(m, MidOf(m, r, v), VAextract(v, 1)))
         /\ Mapped(m, r, v) => /\ IsValid(Entry(m, LeafOf(m, r, v), VAextract(v, 2)))
                               /\ Convert(m, r, v) # 0
                               /\ Convert(m, r, v) =
                                    NextTable(m, LeafOf(m, r, v), VAextract(v, 2))
         /\ ~Mapped(m, r, v) => Convert(m, r, v) = 0
<1>0. VAextract(v, 0) \in Offsets /\ VAextract(v, 1) \in Offsets /\ VAextract(v, 2) \in Offsets
  BY Indexes
<1> DEFINE t1 == MidOf(m, r, v)
           t2 == LeafOf(m, r, v)
<1>1. HasMid(m, r, v) => t1 \in A /\ t1 # 0 /\ IsValid(Entry(m, r, VAextract(v, 0)))
  BY <1>0 DEF Tables, Leads, HasMid, MidOf
<1>2. HasLeaf(m, r, v) => t2 \in B /\ t2 # 0 /\ IsValid(Entry(m, t1, VAextract(v, 1)))
  BY <1>0, <1>1 DEF Tables, Leads, HasLeaf, LeafOf
<1>3. Mapped(m, r, v) => /\ IsValid(Entry(m, t2, VAextract(v, 2)))
                         /\ NextTable(m, t2, VAextract(v, 2)) # 0
  BY <1>0, <1>2 DEF Tables, Ends, Mapped
<1>4. Convert(m, r, v) = IF t1 = 0 \/ t2 = 0 THEN 0 ELSE NextTable(m, t2, VAextract(v, 2))
  BY DEF Convert, MidOf, LeafOf
<1>5. ~HasMid(m, r, v) => t1 = 0
  BY EntryFacts DEF HasMid, MidOf, NextTable
<1>6. HasMid(m, r, v) /\ ~HasLeaf(m, r, v) => t2 = 0
  BY EntryFacts DEF HasLeaf, LeafOf, NextTable
<1>7. HasLeaf(m, r, v) /\ ~Mapped(m, r, v) => NextTable(m, t2, VAextract(v, 2)) = 0
  BY EntryFacts DEF Mapped, NextTable
<1> HIDE DEF t1, t2
<1>8. Mapped(m, r, v) => HasLeaf(m, r, v)
  BY DEF Mapped
<1>9. HasLeaf(m, r, v) => HasMid(m, r, v)
  BY DEF HasLeaf
<1>10. Mapped(m, r, v) => t1 # 0 /\ t2 # 0
  BY <1>1, <1>2, <1>8, <1>9
<1>11. ~Mapped(m, r, v) => Convert(m, r, v) = 0
  BY <1>4, <1>5, <1>6, <1>7
<1>12. Mapped(m, r, v) => Convert(m, r, v) = NextTable(m, t2, VAextract(v, 2))
  BY <1>4, <1>10
<1> QED
  BY <1>1, <1>2, <1>3, <1>11, <1>12 DEF t1, t2

(* What a page is translated to depends on the words of its tables only.   *)
LEMMA ConvertSame ==
  ASSUME NEW m, NEW R, NEW A, NEW B, NEW F, Tables(m, R, A, B, F), NEW x,
         SameEntries(m, x, R \cup A \cup B), NEW r \in R, NEW v \in VPages
  PROVE  /\ Convert(x, r, v) = Convert(m, r, v)
         /\ HasMid(x, r, v) <=> HasMid(m, r, v)
         /\ HasLeaf(x, r, v) <=> HasLeaf(m, r, v)
<1>0. VAextract(v, 0) \in Offsets /\ VAextract(v, 1) \in Offsets /\ VAextract(v, 2) \in Offsets
  BY Indexes
<1>1. \A p \in R \cup A \cup B, i \in Offsets :
        Entry(x, p, i) = Entry(m, p, i) /\ NextTable(x, p, i) = NextTable(m, p, i)
  BY DEF SameEntries, NextTable
<1>2. MidOf(x, r, v) = MidOf(m, r, v) /\ (HasMid(x, r, v) <=> HasMid(m, r, v))
  BY <1>0, <1>1 DEF MidOf, HasMid
<1>3. CASE ~HasMid(m, r, v)
  <2>1. MidOf(m, r, v) = 0
    BY <1>3, EntryFacts DEF HasMid, MidOf, NextTable
  <2> QED
    BY <1>2, <1>3, <2>1 DEF Convert, MidOf, HasLeaf
<1>4. CASE HasMid(m, r, v)
  <2>1. MidOf(m, r, v) \in A
    BY <1>4, WayFacts
  <2>2. LeafOf(x, r, v) = LeafOf(m, r, v) /\ (HasLeaf(x, r, v) <=> HasLeaf(m, r, v))
    BY <1>0, <1>1, <1>2, <2>1 DEF LeafOf, HasLeaf
  <2>3. CASE ~HasLeaf(m, r, v)
    <3>1. LeafOf(m, r, v) = 0
      BY <1>4, <2>3, EntryFacts DEF HasLeaf, LeafOf, NextTable
    <3> QED
      BY <1>2, <2>2, <3>1 DEF Convert, MidOf, LeafOf
  <2>4. CASE HasLeaf(m, r, v)
    <3>1. LeafOf(m, r, v) \in B
      BY <2>4, WayFacts
    <3> QED
      BY <1>0, <1>1, <1>2, <2>2, <3>1 DEF Convert, MidOf, LeafOf
  <2> QED
    BY <2>2, <2>3, <2>4
<1> QED
  BY <1>2, <1>3, <1>4

(* Changes outside the tables, or of the other blocks, leave the tables.   *)
LEMMA KeepTables ==
  ASSUME NEW m, NEW R, NEW A, NEW B, NEW F, Tables(m, R, A, B, F),
         NEW x, MemOK(x), SameEntries(m, x, R \cup A \cup B),
         NEW G, BlocksOf(x) = G \cup TableBlocks(R \cup A \cup B),
         \A p \in R \cup A \cup B : Block(p, 1) \notin G /\ p \in DOMAIN x.pages
  PROVE  Tables(x, R, A, B, G)
<1>1. SameEntries(m, x, R) /\ SameEntries(m, x, A) /\ SameEntries(m, x, B)
  BY DEF SameEntries
<1>2. Leads(x, R, A) /\ Leads(x, A, B)
  BY <1>1, LeadsSame DEF Tables
<1>3. Ends(x, B)
  BY <1>1 DEF Tables, Ends, SameEntries, NextTable
<1> QED
  BY <1>2, <1>3 DEF Tables

LEMMA TableBlockIs ==
  ASSUME NEW p, NEW q, Block(p, 1) = Block(q, 1)
  PROVE  p = q
BY DEF Block

(* A new page that no table has lies in no table.                          *)
Fresh(m, x, a, n, S) ==
  /\ \A p \in a .. a + n - 1 : p \notin S /\ p \notin DOMAIN m.pages
  /\ Block(a, n) \notin BlocksOf(m)
  /\ \A p \in a .. a + n - 1, i \in Offsets : Entry(x, p, i) = 0
  /\ SameEntries(m, x, S)
  /\ \A p \in a .. a + n - 1 : p \in DOMAIN x.pages
  /\ \A p \in S : p \in DOMAIN x.pages

LEMMA FreshTable ==
  ASSUME NEW m, NEW R, NEW A, NEW B, NEW F, Tables(m, R, A, B, F),
         NEW x, NEW a \in Nat, NEW n \in Nat \ {0}, Taken(m, x, a, n)
  PROVE  Fresh(m, x, a, n, R \cup A \cup B)
<1>1. \A p \in a .. a + n - 1 : p \notin DOMAIN m.pages
  BY DEF Taken
<1>2. \A p \in a .. a + n - 1 : p \notin R \cup A \cup B
  BY <1>1 DEF Tables
<1>3. Block(a, n) \notin BlocksOf(m)
  <2>1. a \in PagesOf(Block(a, n)) /\ a \in a .. a + n - 1
    BY PagesOfBlock
  <2> QED
    BY <2>1 DEF Taken
<1>4. \A p, i : i \in Offsets => ReadWord(x, p, i) = ReadWord(m, p, i)
  BY DEF Taken
<1>5. \A p \in a .. a + n - 1, i \in Offsets : Entry(x, p, i) = 0
  BY <1>1, <1>4 DEF Entry, ReadWord
<1>6. SameEntries(m, x, R \cup A \cup B)
  BY <1>4 DEF SameEntries, Entry
<1>7. DOMAIN x.pages = DOMAIN m.pages \cup (a .. a + n - 1)
  BY DEF Taken
<1> QED
  BY <1>1, <1>2, <1>3, <1>5, <1>6, <1>7 DEF Tables, Fresh

-----------------------------------------------------------------------------
(* create_root_pt: a new root is an empty table.                           *)
LEMMA NewRootTable ==
  ASSUME NEW m, NEW R, NEW A, NEW B, NEW F, Tables(m, R, A, B, F),
         NEW x, NEW a \in Nat \ {0}, Taken(m, x, a, 1), NEW Q, Q = R \cup {a}
  PROVE  /\ Tables(x, Q, A, B, F) /\ a \notin R \cup A \cup B
         /\ NoEntries(x, a)
<1>1. a \in a .. a + 1 - 1
  OBVIOUS
<1>2. /\ a \notin R \cup A \cup B /\ Block(a, 1) \notin BlocksOf(m)
      /\ NoEntries(x, a) /\ SameEntries(m, x, R \cup A \cup B) /\ a \in DOMAIN x.pages
      /\ \A p \in R \cup A \cup B : p \in DOMAIN x.pages
  <2>1. /\ \A p \in a .. a + 1 - 1 : p \notin R \cup A \cup B /\ p \notin DOMAIN m.pages
        /\ Block(a, 1) \notin BlocksOf(m)
        /\ \A p \in a .. a + 1 - 1, i \in Offsets : Entry(x, p, i) = 0
        /\ SameEntries(m, x, R \cup A \cup B)
        /\ \A p \in a .. a + 1 - 1 : p \in DOMAIN x.pages
        /\ \A p \in R \cup A \cup B : p \in DOMAIN x.pages
    <3>1. 1 \in Nat \ {0}
      OBVIOUS
    <3>2. Fresh(m, x, a, 1, R \cup A \cup B)
      BY <3>1, FreshTable
    <3> QED
      BY <3>2 DEF Fresh
  <2>2. NoEntries(x, a)
    BY <1>1, <2>1 DEF NoEntries
  <2> QED
    BY <1>1, <2>1, <2>2
<1>3. Leads(x, Q, A)
  <2>1. \A p \in Q \cap R : \A i \in Offsets : Entry(x, p, i) = Entry(m, p, i)
    BY <1>2 DEF SameEntries
  <2>2. (\A p \in Q \ R : NoEntries(x, p)) /\ (\A p \in R \ Q : NoEntries(m, p))
    BY <1>2
  <2> QED
    BY <2>1, <2>2, LeadsGrow DEF Tables
<1>4. Leads(x, A, B) /\ Ends(x, B)
  <2>1. SameEntries(m, x, A) /\ SameEntries(m, x, B)
    BY <1>2 DEF SameEntries
  <2>2. Leads(x, A, B)
    BY <2>1, LeadsSame DEF Tables
  <2> QED
    BY <2>1, <2>2 DEF Tables, Ends, SameEntries, NextTable
<1>5. BlocksOf(x) = F \cup TableBlocks(Q \cup A \cup B)
  <2>1. BlocksOf(x) = BlocksOf(m) \cup {Block(a, 1)}
    BY DEF Taken
  <2> QED
    BY <2>1 DEF Tables, TableBlocks
<1>6. MemOK(x)
  BY DEF Taken
<1>7. Block(a, 1) \notin F
  BY <1>2 DEF Tables
<1> QED
  BY <1>2, <1>3, <1>4, <1>5, <1>6, <1>7 DEF Tables

(* The page of a new table is linked into an entry of another one.         *)
Linked(m, x, p, i, a) ==
  /\ MemOK(x) /\ x.cur # 0 /\ x.crashed = m.crashed
  /\ BlocksOf(x) = BlocksOf(m) \cup {Block(a, 1)}
  /\ Block(a, 1) \notin BlocksOf(m) /\ a \notin DOMAIN m.pages
  /\ DOMAIN x.pages = DOMAIN m.pages \cup {a}
  /\ \A q \in DOMAIN m.pages : q # p => x.pages[q] = m.pages[q]
  /\ \A q, j : j \in Offsets =>
       Entry(x, q, j) = IF q = p /\ j = i THEN SetPTE(a) ELSE Entry(m, q, j)

LEMMA LinkTable ==
  ASSUME NEW m, MemOK(m), NEW y, NEW a \in Nat, Taken(m, y, a, 1),
         NEW p \in DOMAIN m.pages, NEW i \in Offsets
  PROVE  Linked(m, WriteData(y, p, {i}, SetPTE(a)), p, i, a)
<1> DEFINE x == WriteData(y, p, {i}, SetPTE(a))
<1>1. a .. a + 1 - 1 = {a}
  OBVIOUS
<1>2. /\ MemOK(y) /\ y.cur # 0 /\ y.crashed = m.crashed
      /\ BlocksOf(y) = BlocksOf(m) \cup {Block(a, 1)}
      /\ DOMAIN y.pages = DOMAIN m.pages \cup {a}
      /\ a \notin DOMAIN m.pages
      /\ \A q \in DOMAIN m.pages : y.pages[q] = m.pages[q]
      /\ \A q, j : j \in Offsets => ReadWord(y, q, j) = ReadWord(m, q, j)
      /\ \A b \in BlocksOf(m) : a \notin PagesOf(b)
  BY <1>1 DEF Taken
<1>3. Written(y, x, p, {i}, SetPTE(a))
  BY <1>2, EntryFacts, WriteMem
<1> HIDE DEF x
<1>4. Block(a, 1) \notin BlocksOf(m)
  BY <1>2, OnePage
<1>5. /\ MemOK(x) /\ x.cur = y.cur /\ x.crashed = y.crashed
      /\ BlocksOf(x) = BlocksOf(y) /\ DOMAIN x.pages = DOMAIN y.pages
      /\ \A q \in DOMAIN y.pages : q # p => x.pages[q] = y.pages[q]
  BY <1>3 DEF Written
<1>6. ASSUME NEW q, NEW j \in Offsets
      PROVE  Entry(x, q, j) = IF q = p /\ j = i THEN SetPTE(a) ELSE Entry(m, q, j)
  <2>1. ReadWord(x, q, j) = IF q = p /\ j \in {i} THEN SetPTE(a) ELSE ReadWord(y, q, j)
    BY <1>3 DEF Written
  <2> QED
    BY <1>2, <2>1 DEF Entry
<1> QED
  BY <1>2, <1>4, <1>5, <1>6 DEF Linked, x

LEMMA NewMiddleTable ==
  ASSUME NEW m, NEW R, NEW A, NEW B, NEW F, Tables(m, R, A, B, F),
         NEW x, NEW a \in Nat \ {0}, NEW p \in R, NEW i \in Offsets,
         Entry(m, p, i) = 0, Linked(m, x, p, i, a)
  PROVE  /\ Tables(x, R, A \cup {a}, B, F) /\ a \notin R \cup A \cup B
         /\ NoEntries(x, a)
<1>1. a \notin R \cup A \cup B /\ Block(a, 1) \notin F
  BY DEF Tables, Linked
<1>2. \A q \in R \cup A \cup B, j \in Offsets :
        Entry(x, q, j) = IF q = p /\ j = i THEN SetPTE(a) ELSE Entry(m, q, j)
  BY DEF Linked
<1>3. NoEntries(x, a)
  <2>1. \A j \in Offsets : Entry(x, a, j) = Entry(m, a, j)
    BY <1>1 DEF Linked
  <2>2. \A j \in Offsets : Entry(m, a, j) = 0
    BY DEF Linked, Entry, ReadWord
  <2> QED
    BY <2>1, <2>2 DEF NoEntries
<1>4. Leads(x, R, A \cup {a})
  <2>1. Leads(m, R, A) /\ a \notin A
    BY <1>1 DEF Tables
  <2>2. \A q \in R, j \in Offsets :
          Entry(x, q, j) = IF q = p /\ j = i THEN SetPTE(a) ELSE Entry(m, q, j)
    BY <1>2
  <2> QED
    BY <2>1, <2>2, LeadsAdd
<1>5. \A q \in A \cup B, j \in Offsets : Entry(x, q, j) = Entry(m, q, j)
  <2>1. \A q \in A \cup B : q # p
    BY DEF Tables
  <2> QED
    BY <1>2, <2>1
<1>6. Leads(x, A \cup {a}, B)
  <2> DEFINE Z == A \cup {a}
  <2>1. /\ \A q \in Z \cap A : \A j \in Offsets : Entry(x, q, j) = Entry(m, q, j)
        /\ \A q \in Z \ A : NoEntries(x, q)
        /\ \A q \in A \ Z : NoEntries(m, q)
        /\ Leads(m, A, B)
    BY <1>3, <1>5 DEF Tables
  <2> HIDE DEF Z
  <2>2. Leads(x, Z, B)
    BY <2>1, LeadsGrow
  <2> QED
    BY <2>2 DEF Z
<1>7. Ends(x, B)
  BY <1>5 DEF Tables, Ends, NextTable
<1>8. BlocksOf(x) = F \cup TableBlocks(R \cup (A \cup {a}) \cup B)
  <2>1. BlocksOf(x) = BlocksOf(m) \cup {Block(a, 1)}
    BY DEF Linked
  <2> QED
    BY <2>1 DEF Tables, TableBlocks
<1>9. MemOK(x) /\ DOMAIN x.pages = DOMAIN m.pages \cup {a}
  BY DEF Linked
<1> QED
  BY <1>1, <1>3, <1>4, <1>6, <1>7, <1>8, <1>9 DEF Tables

LEMMA NewLeafTable ==
  ASSUME NEW m, NEW R, NEW A, NEW B, NEW F, Tables(m, R, A, B, F),
         NEW x, NEW a \in Nat \ {0}, NEW p \in A, NEW i \in Offsets,
         Entry(m, p, i) = 0, Linked(m, x, p, i, a)
  PROVE  /\ Tables(x, R, A, B \cup {a}, F) /\ a \notin R \cup A \cup B
         /\ NoEntries(x, a)
<1>1. a \notin R \cup A \cup B /\ Block(a, 1) \notin F
  BY DEF Tables, Linked
<1>2. \A q \in R \cup A \cup B, j \in Offsets :
        Entry(x, q, j) = IF q = p /\ j = i THEN SetPTE(a) ELSE Entry(m, q, j)
  BY DEF Linked
<1>3. NoEntries(x, a)
  <2>1. \A j \in Offsets : Entry(x, a, j) = Entry(m, a, j)
    BY <1>1 DEF Linked
  <2>2. \A j \in Offsets : Entry(m, a, j) = 0
    BY DEF Linked, Entry, ReadWord
  <2> QED
    BY <2>1, <2>2 DEF NoEntries
<1>4. Leads(x, A, B \cup {a})
  <2>1. Leads(m, A, B) /\ a \notin B
    BY <1>1 DEF Tables
  <2>2. \A q \in A, j \in Offsets :
          Entry(x, q, j) = IF q = p /\ j = i THEN SetPTE(a) ELSE Entry(m, q, j)
    BY <1>2
  <2> QED
    BY <2>1, <2>2, LeadsAdd
<1>5. \A q \in R \cup B, j \in Offsets : Entry(x, q, j) = Entry(m, q, j)
  <2>1. \A q \in R \cup B : q # p
    BY DEF Tables
  <2> QED
    BY <1>2, <2>1
<1>6. Leads(x, R, A)
  <2>1. SameEntries(m, x, R)
    BY <1>5 DEF SameEntries
  <2> QED
    BY <2>1, LeadsSame DEF Tables
<1>7. Ends(x, B \cup {a})
  BY <1>3, <1>5 DEF Tables, Ends, NextTable, NoEntries
<1>8. BlocksOf(x) = F \cup TableBlocks(R \cup A \cup (B \cup {a}))
  <2>1. BlocksOf(x) = BlocksOf(m) \cup {Block(a, 1)}
    BY DEF Linked
  <2> QED
    BY <2>1 DEF Tables, TableBlocks
<1>9. MemOK(x) /\ DOMAIN x.pages = DOMAIN m.pages \cup {a}
  BY DEF Linked
<1> QED
  BY <1>1, <1>3, <1>4, <1>6, <1>7, <1>8, <1>9 DEF Tables

-----------------------------------------------------------------------------
(* Allocation: the tables grow, the pages of all other blocks keep their   *)
(* words.                                                                  *)
HasTables(m, R, F) == \E A, B : Tables(m, R, A, B, F)
KeepsWords(m, x, F) ==
  \A b \in F : \A p \in PagesOf(b) :
    p \in DOMAIN m.pages => p \in DOMAIN x.pages /\ x.pages[p] = m.pages[p]
SameWays(m, x, R) == \A r \in R, w \in VPages : Convert(x, r, w) = Convert(m, r, w)
Grown(m, x, R, F) ==
  HasTables(x, R, F) /\ x.cur # 0 /\ x.crashed = m.crashed /\ KeepsWords(m, x, F)

(* The RAM the driver is built with holds its frame and no table.          *)
LEMMA InitialTables == HasTables(InitialMemory, {}, FrameBlocks)
<1> DEFINE m == InitialMemory
           a == Block(0, Reserved)
           b == Block(MaxRange, 1)
<1>1. m.blocks = <<a, b>> /\ m.pages = [p \in {} |-> ZeroPage]  BY DEF InitialMemory
<1>2. SafeMemory(m) /\ Backed(m)  BY InitialSafe, InitialBacked
<1> HIDE DEF m, a, b
<1>3. MemOK(m)
  <2>1. TypedIn(m, Words) /\ Ordered(m)  BY <1>2 DEF SafeMemory
  <2>2. m.pages \in [DOMAIN m.pages -> [Offsets -> Nat]]  BY <1>1
  <2>3. TypedIn(m, Nat)  BY <2>1, <2>2 DEF TypedIn
  <2> QED  BY <1>2, <2>1, <2>3 DEF MemOK
<1>4. BlocksOf(m) = FrameBlocks
  <2>1. /\ Len(m.blocks) = 2 /\ m.blocks[1] = a /\ m.blocks[2] = b
        /\ BlocksOf(m) = {m.blocks[k] : k \in 1 .. Len(m.blocks)}
    BY <1>1, <1>3, BlocksListed
  <2>2. 1 .. 2 = {1, 2}  OBVIOUS
  <2>3. BlocksOf(m) = {a, b}  BY <2>1, <2>2
  <2> QED  BY <2>3 DEF FrameBlocks, a, b
<1>5. Tables(m, {}, {}, {}, FrameBlocks)
  BY <1>3, <1>4 DEF Tables, TableBlocks, Leads, Ends
<1>6. HasTables(m, {}, FrameBlocks)  BY <1>5 DEF HasTables
<1> QED  BY <1>6 DEF m

LEMMA TableInNoOther ==
  ASSUME NEW m, NEW R, NEW A, NEW B, NEW F, Tables(m, R, A, B, F),
         NEW p \in R \cup A \cup B, NEW b \in F
  PROVE  p \notin PagesOf(b)
<1>1. MemOK(m) /\ p \in Nat /\ Block(p, 1) \in BlocksOf(m) /\ b \in BlocksOf(m)
      /\ Block(p, 1) # b
  BY DEF Tables, TableBlocks
<1>2. p \in PagesOf(Block(p, 1))
  BY <1>1, OnePage
<1> QED
  BY <1>1, <1>2, BlocksApart

LEMMA LinkKeepsWords ==
  ASSUME NEW m, NEW R, NEW A, NEW B, NEW F, Tables(m, R, A, B, F),
         NEW p \in R \cup A \cup B, NEW x, NEW i, NEW a, Linked(m, x, p, i, a)
  PROVE  KeepsWords(m, x, F)
<1> SUFFICES ASSUME NEW b \in F, NEW q \in PagesOf(b), q \in DOMAIN m.pages
             PROVE  q \in DOMAIN x.pages /\ x.pages[q] = m.pages[q]
  BY DEF KeepsWords
<1>1. q # p
  BY TableInNoOther
<1> QED
  BY <1>1 DEF Linked

(* Entries that are cleared or lead to an empty table translate nothing:   *)
(* such tables come and go and every page keeps its translation.           *)
Bare(m, p, i) == Entry(m, p, i) = 0 \/ NoEntries(m, NextTable(m, p, i))
SameBut(m, x, X) ==
  \A p \in X, i \in Offsets : \/ Entry(x, p, i) = Entry(m, p, i)
                              \/ Bare(m, p, i) /\ Bare(x, p, i)

LEMMA SameWaysBut ==
  ASSUME NEW m, NEW R, NEW A, NEW B, NEW F, Tables(m, R, A, B, F),
         NEW x, NEW Q, NEW C, NEW D, NEW G, Tables(x, Q, C, D, G), Q \subseteq R,
         SameBut(m, x, Q), SameBut(m, x, A \cap C), SameEntries(m, x, B \cap D)
  PROVE  SameWays(m, x, Q)
<1> SUFFICES ASSUME NEW r \in Q, NEW w \in VPages
             PROVE  Convert(x, r, w) = Convert(m, r, w)
  BY DEF SameWays
<1>0. r \in R
  OBVIOUS
<1>1. VAextract(w, 0) \in Offsets /\ VAextract(w, 1) \in Offsets /\ VAextract(w, 2) \in Offsets
  BY Indexes
<1>2. ASSUME ~Mapped(m, r, w), ~Mapped(x, r, w)
      PROVE  Convert(x, r, w) = Convert(m, r, w)
  <2>1. Convert(m, r, w) = 0
    BY <1>2, <1>0, WayFacts
  <2>2. Convert(x, r, w) = 0
    BY <1>2, <1>0, WayFacts
  <2> QED
    BY <2>1, <2>2
<1>3. CASE Bare(m, r, VAextract(w, 0)) /\ Bare(x, r, VAextract(w, 0))
  <2>1. ~HasLeaf(m, r, w) /\ ~HasLeaf(x, r, w)
    BY <1>1, <1>3 DEF HasLeaf, HasMid, MidOf, Bare, NoEntries
  <2> QED
    BY <2>1, <1>2 DEF Mapped
<1>4. CASE Entry(x, r, VAextract(w, 0)) = Entry(m, r, VAextract(w, 0))
  <2>1. (HasMid(x, r, w) <=> HasMid(m, r, w)) /\ MidOf(x, r, w) = MidOf(m, r, w)
    BY <1>4 DEF HasMid, MidOf, NextTable
  <2>2. CASE ~HasMid(m, r, w)
    BY <2>1, <2>2, <1>2 DEF Mapped, HasLeaf
  <2>3. CASE HasMid(m, r, w)
    <3>1. MidOf(m, r, w) \in A
      BY <2>3, <1>0, WayFacts
    <3>2. MidOf(m, r, w) \in C
      BY <2>1, <2>3, <1>0, WayFacts
    <3>3. CASE /\ Bare(m, MidOf(m, r, w), VAextract(w, 1))
               /\ Bare(x, MidOf(m, r, w), VAextract(w, 1))
      <4>1. ~Mapped(m, r, w) /\ ~Mapped(x, r, w)
        BY <1>1, <2>1, <3>3 DEF Mapped, HasLeaf, LeafOf, Bare, NoEntries
      <4> QED
        BY <4>1, <1>2
    <3>4. CASE Entry(x, MidOf(m, r, w), VAextract(w, 1))
                 = Entry(m, MidOf(m, r, w), VAextract(w, 1))
      <4>1. (HasLeaf(x, r, w) <=> HasLeaf(m, r, w)) /\ LeafOf(x, r, w) = LeafOf(m, r, w)
        BY <2>1, <3>4 DEF HasLeaf, LeafOf, NextTable
      <4>2. CASE ~HasLeaf(m, r, w)
        BY <4>1, <4>2, <1>2 DEF Mapped
      <4>3. CASE HasLeaf(m, r, w)
        <5>1. LeafOf(m, r, w) \in B
          BY <4>3, <1>0, WayFacts
        <5>2. LeafOf(m, r, w) \in D
          BY <4>1, <4>3, <1>0, WayFacts
        <5>3. Entry(x, LeafOf(m, r, w), VAextract(w, 2))
                = Entry(m, LeafOf(m, r, w), VAextract(w, 2))
          BY <1>1, <5>1, <5>2 DEF SameEntries
        <5> QED
          BY <2>1, <4>1, <5>3 DEF Convert, MidOf, LeafOf, NextTable
      <4> QED
        BY <4>2, <4>3
    <3> QED
      BY <3>1, <3>2, <3>3, <3>4, <1>1 DEF SameBut
  <2> QED
    BY <2>2, <2>3
<1> QED
  BY <1>1, <1>3, <1>4 DEF SameBut

(* A new empty table behind a cleared entry.                               *)
LEMMA LinkSameBut ==
  ASSUME NEW m, NEW x, NEW p, NEW i \in Offsets, NEW a \in Nat,
         Entry(m, p, i) = 0, Linked(m, x, p, i, a), NoEntries(x, a), NEW X
  PROVE  SameBut(m, x, X) /\ (p \notin X => SameEntries(m, x, X))
<1>1. NextTable(x, p, i) = a
  BY EntryFacts DEF Linked, NextTable
<1>2. \A q, j : j \in Offsets /\ (q # p \/ j # i) => Entry(x, q, j) = Entry(m, q, j)
  BY DEF Linked
<1>3. Bare(m, p, i) /\ Bare(x, p, i)
  BY <1>1 DEF Bare
<1> QED
  BY <1>2, <1>3 DEF SameBut, SameEntries

LEMMA MiddleGrown ==
  ASSUME NEW m, NEW R, NEW A, NEW B, NEW F, Tables(m, R, A, B, F),
         NEW x, NEW a \in Nat \ {0}, NEW p \in R, NEW i \in Offsets,
         Entry(m, p, i) = 0, Linked(m, x, p, i, a)
  PROVE  Grown(m, x, R, F) /\ SameWays(m, x, R)
<1>1. Tables(x, R, A \cup {a}, B, F) /\ a \notin R \cup A \cup B /\ NoEntries(x, a)
  BY NewMiddleTable, ZenonT(60)
<1>2. p \notin B
  BY DEF Tables
<1>3. SameBut(m, x, R) /\ SameBut(m, x, A \cap (A \cup {a})) /\ SameEntries(m, x, B \cap B)
  <2>1. \A X : SameBut(m, x, X) /\ (p \notin X => SameEntries(m, x, X))
    BY <1>1, LinkSameBut, a \in Nat
  <2>2. p \notin B \cap B
    BY <1>2
  <2> QED
    BY <2>1, <2>2
<1>4. SameWays(m, x, R)
  BY <1>1, <1>3, SameWaysBut, R \subseteq R
<1>5. KeepsWords(m, x, F)
  BY LinkKeepsWords
<1> QED
  BY <1>1, <1>4, <1>5 DEF Grown, HasTables, Linked

LEMMA LeafGrown ==
  ASSUME NEW m, NEW R, NEW A, NEW B, NEW F, Tables(m, R, A, B, F),
         NEW x, NEW a \in Nat \ {0}, NEW p \in A, NEW i \in Offsets,
         Entry(m, p, i) = 0, Linked(m, x, p, i, a)
  PROVE  Grown(m, x, R, F) /\ SameWays(m, x, R)
<1>1. Tables(x, R, A, B \cup {a}, F) /\ a \notin R \cup A \cup B /\ NoEntries(x, a)
  BY NewLeafTable, ZenonT(60)
<1>2. p \notin B
  BY DEF Tables
<1>3. SameBut(m, x, R) /\ SameBut(m, x, A \cap A) /\ SameEntries(m, x, B \cap (B \cup {a}))
  <2>1. \A X : SameBut(m, x, X) /\ (p \notin X => SameEntries(m, x, X))
    BY <1>1, LinkSameBut, a \in Nat
  <2>2. p \notin B \cap (B \cup {a})
    BY <1>2
  <2> QED
    BY <2>1, <2>2
<1>4. SameWays(m, x, R)
  BY <1>1, <1>3, SameWaysBut, R \subseteq R
<1>5. KeepsWords(m, x, F)
  BY LinkKeepsWords
<1> QED
  BY <1>1, <1>4, <1>5 DEF Grown, HasTables, Linked

(* The state of the loop of allocate: memory, indices and outcome.         *)
Walk(s) ==
  /\ s = [m |-> s.m, idx |-> s.idx, ok |-> s.ok]
  /\ s.idx \in [0 .. 2 -> Nat] /\ s.ok \in BOOLEAN

LEMMA GrownSelf ==
  ASSUME NEW m, NEW R, NEW A, NEW B, NEW F, Tables(m, R, A, B, F), m.cur # 0
  PROVE  Grown(m, m, R, F) /\ SameWays(m, m, R)
BY DEF Grown, HasTables, KeepsWords, SameWays

LEMMA GrownOn ==
  ASSUME NEW m, NEW x, NEW y, NEW R, NEW F, Grown(m, x, R, F), Grown(x, y, R, F)
  PROVE  /\ Grown(m, y, R, F)
         /\ SameWays(m, x, R) /\ SameWays(x, y, R) => SameWays(m, y, R)
BY DEF Grown, KeepsWords, SameWays

LEMMA TakeAndLink ==
  ASSUME NEW m, NEW R, NEW A, NEW B, NEW F, Tables(m, R, A, B, F), m.cur # 0,
         NEW p \in R \cup A \cup B, NEW i \in Offsets, NEW ub, Usable(m, 1) # 0
  PROVE  /\ Usable(m, 1) \in Nat \ {0}
         /\ Linked(m, WriteData(InsertBlock(m, Usable(m, 1), 1, ub), p, {i}, SetPTE(Usable(m, 1))),
                   p, i, Usable(m, 1))
<1> DEFINE a == Usable(m, 1)
           y == InsertBlock(m, a, 1, ub)
<1>1. MemOK(m) /\ p \in DOMAIN m.pages
  BY DEF Tables
<1>2. a \in Nat /\ Taken(m, y, a, 1)
  <2> DEFINE n == 1
  <2>1. n \in Nat \ {0} /\ Usable(m, n) # 0
    OBVIOUS
  <2> HIDE DEF n
  <2>2. Usable(m, n) \in Nat /\ Taken(m, InsertBlock(m, Usable(m, n), n, ub), Usable(m, n), n)
    BY <1>1, <2>1, TakeMem
  <2> QED
    BY <2>2 DEF n
<1> HIDE DEF a, y
<1>3. Linked(m, WriteData(y, p, {i}, SetPTE(a)), p, i, a)
  BY <1>1, <1>2, LinkTable
<1> QED
  BY <1>2, <1>3 DEF a, y

(* One level: the table is there, or is built, or no page is left.         *)
Ensured(s, x, p, level, i, pt, ub) ==
  /\ Walk(x) /\ x.idx = [s.idx EXCEPT ![level] = i]
  /\ IF i = s.idx[level] \/ IsValid(Entry(s.m, p, i)) THEN x.m = s.m /\ x.ok
     ELSE IF pt = 0 THEN x.m = s.m /\ ~x.ok
     ELSE /\ x.m = WriteData(InsertBlock(s.m, pt, 1, ub), p, {i}, SetPTE(pt))
          /\ x.ok

LEMMA EnsureCases ==
  ASSUME NEW s, Walk(s), s.ok, NEW p, NEW level \in 0 .. 2, NEW u, NEW ub,
         NEW i \in Nat, i = VAextract(u, level),
         NEW x, x = EnsureTable(s, p, level, u, ub), NEW pt, pt = Usable(s.m, 1)
  PROVE  Ensured(s, x, p, level, i, pt, ub)
<1> DEFINE skip == i = s.idx[level] \/ IsValid(Entry(s.m, p, i))
           new == WriteData(InsertBlock(s.m, pt, 1, ub), p, {i}, SetPTE(pt))
           seen == [s EXCEPT !.idx[level] = i]
<1>1. seen = [m |-> s.m, idx |-> [s.idx EXCEPT ![level] = i], ok |-> s.ok]
  <2> DEFINE sm == s.m
             si == s.idx
             so == s.ok
             y == [m |-> sm, idx |-> si, ok |-> so]
  <2>1. s = y
    BY DEF Walk
  <2> HIDE DEF sm, si, so
  <2>2. [y EXCEPT !.idx[level] = i] = [m |-> sm, idx |-> [si EXCEPT ![level] = i], ok |-> so]
    OBVIOUS
  <2> HIDE DEF y
  <2>3. seen = [y EXCEPT !.idx[level] = i]
    BY <2>1
  <2>4. seen = [m |-> sm, idx |-> [si EXCEPT ![level] = i], ok |-> so]
    BY <2>2, <2>3
  <2> QED
    BY <2>4 DEF sm, si, so
<1>2. [s.idx EXCEPT ![level] = i] \in [0 .. 2 -> Nat]
  BY DEF Walk
<1>3. x = IF skip THEN seen
          ELSE IF pt = 0 THEN [seen EXCEPT !.ok = FALSE] ELSE [seen EXCEPT !.m = new]
  BY DEF EnsureTable
<1> HIDE DEF new, seen, skip
<1>4. CASE skip
  <2>1. x = [m |-> s.m, idx |-> [s.idx EXCEPT ![level] = i], ok |-> s.ok]
    BY <1>1, <1>3, <1>4
  <2> QED
    BY <1>2, <1>4, <2>1 DEF Walk, skip, Ensured
<1>5. CASE ~skip /\ pt = 0
  <2>1. x = [m |-> s.m, idx |-> [s.idx EXCEPT ![level] = i], ok |-> FALSE]
    BY <1>1, <1>3, <1>5
  <2> QED
    BY <1>2, <1>5, <2>1 DEF Walk, skip, Ensured
<1>6. CASE ~skip /\ pt # 0
  <2>1. x = [m |-> new, idx |-> [s.idx EXCEPT ![level] = i], ok |-> s.ok]
    BY <1>1, <1>3, <1>6
  <2> QED
    BY <1>2, <1>6, <2>1 DEF Walk, new, skip, Ensured
<1> QED
  BY <1>4, <1>5, <1>6

MiddleEnsured(s, x, R, F, r, u) ==
  /\ Walk(x) /\ x.idx = [s.idx EXCEPT ![0] = VAextract(u, 0)]
  /\ Grown(s.m, x.m, R, F) /\ SameWays(s.m, x.m, R)
  /\ HasMid(s.m, r, u) => x.m = s.m
  /\ x.ok => HasMid(x.m, r, u)

LEMMA EnsureMiddle ==
  ASSUME NEW s, NEW R, NEW A, NEW B, NEW F, Tables(s.m, R, A, B, F), Walk(s), s.ok,
         s.m.cur # 0, NEW r \in R, NEW u \in VPages, NEW ub,
         s.idx[0] = VAextract(u, 0) => HasMid(s.m, r, u),
         NEW x, x = EnsureTable(s, r, 0, u, ub)
  PROVE  MiddleEnsured(s, x, R, F, r, u)
<1> DEFINE i == VAextract(u, 0)
           pt == Usable(s.m, 1)
           skip == i = s.idx[0] \/ IsValid(Entry(s.m, r, i))
<1>1. i \in Offsets /\ i \in Nat
  BY Indexes DEF Offsets
<1>2. /\ Walk(x) /\ x.idx = [s.idx EXCEPT ![0] = i]
      /\ skip => x.m = s.m /\ x.ok
      /\ ~skip /\ pt = 0 => x.m = s.m /\ ~x.ok
      /\ ~skip /\ pt # 0 =>
           /\ x.m = WriteData(InsertBlock(s.m, pt, 1, ub), r, {i}, SetPTE(pt))
           /\ x.ok
  <2> HIDE DEF i, pt
  <2>1. i = VAextract(u, 0) /\ pt = Usable(s.m, 1)
    BY DEF i, pt
  <2>2. /\ Walk(x) /\ x.idx = [s.idx EXCEPT ![0] = i]
        /\ IF i = s.idx[0] \/ IsValid(Entry(s.m, r, i)) THEN x.m = s.m /\ x.ok
           ELSE IF pt = 0 THEN x.m = s.m /\ ~x.ok
           ELSE /\ x.m = WriteData(InsertBlock(s.m, pt, 1, ub), r, {i}, SetPTE(pt))
                /\ x.ok
    <3>1. 0 \in 0 .. 2 /\ i \in Nat /\ x = EnsureTable(s, r, 0, u, ub)
      BY <1>1
    <3> HIDE DEF i, pt
    <3>2. Ensured(s, x, r, 0, i, pt, ub)
      BY <2>1, <3>1, EnsureCases
    <3> QED
      BY <3>2 DEF Ensured
  <2> QED
    BY <2>2
<1>3. skip <=> HasMid(s.m, r, u)
  <2>1. HasMid(s.m, r, u) => IsValid(Entry(s.m, r, i))
    BY WayFacts
  <2>2. IsValid(Entry(s.m, r, i)) => HasMid(s.m, r, u)
    BY EntryFacts DEF HasMid
  <2> QED
    BY <2>1, <2>2
<1>4. CASE x.m = s.m /\ (x.ok => skip)
  <2>1. Grown(s.m, x.m, R, F) /\ SameWays(s.m, x.m, R)
    BY <1>4, GrownSelf
  <2> QED
    BY <1>2, <1>3, <1>4, <2>1 DEF MiddleEnsured
<1>5. CASE ~skip /\ pt # 0
  <2>1. pt \in Nat \ {0} /\ Linked(s.m, x.m, r, i, pt)
    BY <1>1, <1>2, <1>5, TakeAndLink
  <2>2. Entry(s.m, r, i) = 0
    BY <1>3, <1>5 DEF HasMid
  <2> HIDE DEF i, pt
  <2>3. Grown(s.m, x.m, R, F) /\ SameWays(s.m, x.m, R)
    BY <1>1, <2>1, <2>2, MiddleGrown
  <2>4. Entry(x.m, r, i) # 0
    BY <1>1, <2>1, EntryFacts DEF Linked
  <2> QED
    BY <1>2, <1>3, <1>5, <2>3, <2>4 DEF HasMid, i, MiddleEnsured
<1> QED
  BY <1>2, <1>4, <1>5

LeafEnsured(s, x, R, F, r, u) ==
  /\ Walk(x) /\ x.idx = [s.idx EXCEPT ![1] = VAextract(u, 1)]
  /\ Grown(s.m, x.m, R, F) /\ SameWays(s.m, x.m, R)
  /\ x.ok => HasLeaf(x.m, r, u) /\ MidOf(x.m, r, u) = MidOf(s.m, r, u)

LEMMA EnsureLeaf ==
  ASSUME NEW s, NEW R, NEW A, NEW B, NEW F, Tables(s.m, R, A, B, F), Walk(s), s.ok,
         s.m.cur # 0, NEW r \in R, NEW u \in VPages, NEW ub, HasMid(s.m, r, u),
         s.idx[1] = VAextract(u, 1) => HasLeaf(s.m, r, u),
         NEW x, x = EnsureTable(s, MidOf(s.m, r, u), 1, u, ub)
  PROVE  LeafEnsured(s, x, R, F, r, u)
<1> DEFINE i == VAextract(u, 1)
           pt == Usable(s.m, 1)
           t == MidOf(s.m, r, u)
           skip == i = s.idx[1] \/ IsValid(Entry(s.m, t, i))
<1>1. i \in Offsets /\ i \in Nat /\ VAextract(u, 0) \in Offsets
  BY Indexes DEF Offsets
<1>2. /\ Walk(x) /\ x.idx = [s.idx EXCEPT ![1] = i]
      /\ skip => x.m = s.m /\ x.ok
      /\ ~skip /\ pt = 0 => x.m = s.m /\ ~x.ok
      /\ ~skip /\ pt # 0 =>
           /\ x.m = WriteData(InsertBlock(s.m, pt, 1, ub), t, {i}, SetPTE(pt))
           /\ x.ok
  <2> HIDE DEF i, pt, t
  <2>1. i = VAextract(u, 1) /\ pt = Usable(s.m, 1)
    BY DEF i, pt
  <2>2. /\ Walk(x) /\ x.idx = [s.idx EXCEPT ![1] = i]
        /\ IF i = s.idx[1] \/ IsValid(Entry(s.m, t, i)) THEN x.m = s.m /\ x.ok
           ELSE IF pt = 0 THEN x.m = s.m /\ ~x.ok
           ELSE /\ x.m = WriteData(InsertBlock(s.m, pt, 1, ub), t, {i}, SetPTE(pt))
                /\ x.ok
    <3>1. 1 \in 0 .. 2 /\ i \in Nat
      BY <1>1
    <3>2. x = EnsureTable(s, t, 1, u, ub)
      BY DEF t
    <3> HIDE DEF i, pt, t
    <3>3. Ensured(s, x, t, 1, i, pt, ub)
      BY <2>1, <3>1, <3>2, EnsureCases
    <3> QED
      BY <3>3 DEF Ensured
  <2> QED
    BY <2>2
<1>3. skip <=> HasLeaf(s.m, r, u)
  <2>1. HasLeaf(s.m, r, u) => IsValid(Entry(s.m, t, i))
    BY WayFacts
  <2>2. IsValid(Entry(s.m, t, i)) => HasLeaf(s.m, r, u)
    BY EntryFacts DEF HasLeaf
  <2> QED
    BY <2>1, <2>2
<1>4. CASE x.m = s.m /\ (x.ok => skip)
  <2>1. Grown(s.m, x.m, R, F) /\ SameWays(s.m, x.m, R)
    BY <1>4, GrownSelf
  <2> QED
    BY <1>2, <1>3, <1>4, <2>1 DEF LeafEnsured
<1>5. CASE ~skip /\ pt # 0
  <2>1. t \in A
    BY WayFacts
  <2>2. pt \in Nat \ {0} /\ Linked(s.m, x.m, t, i, pt)
    BY <1>1, <1>2, <1>5, <2>1, TakeAndLink
  <2>3. Entry(s.m, t, i) = 0
    BY <1>3, <1>5 DEF HasLeaf
  <2> HIDE DEF i, pt, t
  <2>4. Grown(s.m, x.m, R, F) /\ SameWays(s.m, x.m, R)
    BY <1>1, <2>1, <2>2, <2>3, LeafGrown
  <2>5. Entry(x.m, t, i) # 0
    BY <1>1, <2>2, EntryFacts DEF Linked
  <2>6. Entry(x.m, r, VAextract(u, 0)) = Entry(s.m, r, VAextract(u, 0))
    <3>1. r # t
      BY <2>1 DEF Tables
    <3> QED
      BY <1>1, <2>2, <3>1 DEF Linked
  <2>7. HasMid(x.m, r, u) /\ MidOf(x.m, r, u) = t
    BY <2>6 DEF HasMid, MidOf, NextTable, t
  <2> QED
    BY <1>2, <2>4, <2>5, <2>7 DEF HasLeaf, i, t, LeafEnsured
<1> QED
  BY <1>2, <1>4, <1>5

(* Two pages that share an entry of a last-level table are one page.       *)
LEMMA WaysApart ==
  ASSUME NEW m, NEW R, NEW A, NEW B, NEW F, Tables(m, R, A, B, F),
         NEW r \in R, NEW u \in VPages, HasLeaf(m, r, u),
         NEW q \in R, NEW w \in VPages, HasLeaf(m, q, w),
         LeafOf(m, q, w) = LeafOf(m, r, u), VAextract(w, 2) = VAextract(u, 2)
  PROVE  q = r /\ w = u
<1>1. /\ VAextract(w, 0) \in Offsets /\ VAextract(w, 1) \in Offsets
      /\ VAextract(u, 0) \in Offsets /\ VAextract(u, 1) \in Offsets
  BY Indexes
<1>2. MidOf(m, r, u) \in A /\ MidOf(m, q, w) \in A
  BY WayFacts DEF HasLeaf
<1>3. MidOf(m, q, w) = MidOf(m, r, u) /\ VAextract(w, 1) = VAextract(u, 1)
  <2>1. Leads(m, A, B)
    BY DEF Tables
  <2> QED
    BY <1>1, <1>2, <2>1 DEF Leads, LeafOf, HasLeaf
<1>4. q = r /\ VAextract(w, 0) = VAextract(u, 0)
  <2>1. Leads(m, R, A)
    BY DEF Tables
  <2> QED
    BY <1>1, <1>3, <2>1 DEF Leads, MidOf, HasLeaf, HasMid
<1> QED
  BY <1>3, <1>4, SameIndexes

(* A cleared entry of a last-level table is set: one page is mapped.       *)
LEMMA SetLeaf ==
  ASSUME NEW m, NEW R, NEW A, NEW B, NEW F, Tables(m, R, A, B, F), m.cur # 0,
         NEW r \in R, NEW u \in VPages, HasLeaf(m, r, u), NEW page \in Nat \ {0},
         NEW x, Written(m, x, LeafOf(m, r, u), {VAextract(u, 2)}, SetPTE(page))
  PROVE  /\ Grown(m, x, R, F) /\ HasLeaf(x, r, u) /\ Convert(x, r, u) = page
         /\ \A q \in R, w \in VPages : q # r \/ w # u => Convert(x, q, w) = Convert(m, q, w)
<1> DEFINE t == LeafOf(m, r, u)
           i == VAextract(u, 2)
<1>1. t \in B /\ i \in Offsets
  BY WayFacts, Indexes
<1> HIDE DEF t, i
<1>2. Written(m, x, t, {i}, SetPTE(page))
  BY DEF t, i
<1>3. \A q, j : j \in Offsets =>
        Entry(x, q, j) = IF q = t /\ j = i THEN SetPTE(page) ELSE Entry(m, q, j)
  BY <1>2 DEF Written, Entry
<1>4. t \notin R /\ t \notin A
  BY <1>1 DEF Tables
<1>5. SameEntries(m, x, R) /\ SameEntries(m, x, A)
  BY <1>3, <1>4 DEF SameEntries
<1>6. Tables(x, R, A, B, F)
  <2>1. Leads(x, R, A) /\ Leads(x, A, B)
    BY <1>5, LeadsSame DEF Tables
  <2>2. Ends(x, B)
    <3> SUFFICES ASSUME NEW p \in B, NEW j \in Offsets, Entry(x, p, j) # 0
                 PROVE  IsValid(Entry(x, p, j)) /\ NextTable(x, p, j) # 0
      BY DEF Ends
    <3>1. CASE p = t /\ j = i
      BY <1>3, <3>1, EntryFacts DEF NextTable
    <3>2. CASE p # t \/ j # i
      <4>1. Entry(x, p, j) = Entry(m, p, j)
        BY <1>3, <3>2
      <4> QED
        BY <4>1 DEF Tables, Ends, NextTable
    <3> QED
      BY <3>1, <3>2
  <2>3. MemOK(x) /\ BlocksOf(x) = BlocksOf(m) /\ DOMAIN x.pages = DOMAIN m.pages
    BY <1>2 DEF Written
  <2> QED
    BY <2>1, <2>2, <2>3 DEF Tables
<1>7. \A q \in R, w \in VPages : /\ HasMid(x, q, w) <=> HasMid(m, q, w)
                                 /\ MidOf(x, q, w) = MidOf(m, q, w)
                                 /\ HasLeaf(x, q, w) <=> HasLeaf(m, q, w)
                                 /\ HasLeaf(m, q, w) => LeafOf(x, q, w) = LeafOf(m, q, w)
  <2> SUFFICES ASSUME NEW q \in R, NEW w \in VPages
               PROVE  /\ HasMid(x, q, w) <=> HasMid(m, q, w)
                      /\ MidOf(x, q, w) = MidOf(m, q, w)
                      /\ HasLeaf(x, q, w) <=> HasLeaf(m, q, w)
                      /\ HasLeaf(m, q, w) => LeafOf(x, q, w) = LeafOf(m, q, w)
    OBVIOUS
  <2>1. VAextract(w, 0) \in Offsets /\ VAextract(w, 1) \in Offsets
    BY Indexes
  <2>2. (HasMid(x, q, w) <=> HasMid(m, q, w)) /\ MidOf(x, q, w) = MidOf(m, q, w)
    BY <1>5, <2>1 DEF SameEntries, HasMid, MidOf, NextTable
  <2>3. CASE HasMid(m, q, w)
    <3>1. MidOf(m, q, w) \in A
      BY <2>3, WayFacts
    <3>2. Entry(x, MidOf(m, q, w), VAextract(w, 1)) = Entry(m, MidOf(m, q, w), VAextract(w, 1))
      BY <1>5, <2>1, <3>1 DEF SameEntries
    <3> QED
      BY <2>2, <3>2 DEF HasLeaf, LeafOf, NextTable
  <2>4. CASE ~HasMid(m, q, w)
    BY <2>2, <2>4 DEF HasLeaf
  <2> QED
    BY <2>2, <2>3, <2>4
<1>8. Convert(x, r, u) = page
  <2>1. HasLeaf(x, r, u) /\ LeafOf(x, r, u) = t
    BY <1>7 DEF t
  <2>2. Entry(x, t, i) = SetPTE(page)
    BY <1>1, <1>3
  <2>3. Mapped(x, r, u)
    BY <2>1, <2>2, EntryFacts DEF Mapped, i
  <2>4. Convert(x, r, u) = NextTable(x, LeafOf(x, r, u), VAextract(u, 2))
    BY <1>6, <2>3, WayFacts
  <2> QED
    BY <2>1, <2>2, <2>4, EntryFacts DEF NextTable, i
<1>9. ASSUME NEW q \in R, NEW w \in VPages, q # r \/ w # u
      PROVE  Convert(x, q, w) = Convert(m, q, w)
  <2>1. CASE ~HasLeaf(m, q, w)
    <3>1. ~Mapped(m, q, w) /\ ~Mapped(x, q, w)
      BY <1>7, <2>1 DEF Mapped
    <3>2. Convert(m, q, w) = 0
      BY <3>1, WayFacts
    <3>3. Convert(x, q, w) = 0
      BY <3>1, <1>6, WayFacts
    <3> QED
      BY <3>2, <3>3
  <2>2. CASE HasLeaf(m, q, w)
    <3>1. LeafOf(m, q, w) # t \/ VAextract(w, 2) # i
      BY <1>9, <2>2, WaysApart DEF t, i
    <3>2. VAextract(w, 2) \in Offsets
      BY Indexes
    <3>3. Entry(x, LeafOf(m, q, w), VAextract(w, 2)) = Entry(m, LeafOf(m, q, w), VAextract(w, 2))
      BY <1>3, <3>1, <3>2
    <3>4. MidOf(x, q, w) = MidOf(m, q, w) /\ LeafOf(x, q, w) = LeafOf(m, q, w)
      BY <1>7, <2>2
    <3> QED
      BY <3>3, <3>4 DEF Convert, MidOf, LeafOf, NextTable
  <2> QED
    BY <2>1, <2>2
<1>10. KeepsWords(m, x, F)
  <2> SUFFICES ASSUME NEW b \in F, NEW q \in PagesOf(b), q \in DOMAIN m.pages
               PROVE  q \in DOMAIN x.pages /\ x.pages[q] = m.pages[q]
    BY DEF KeepsWords
  <2>1. q # t
    BY <1>1, TableInNoOther
  <2> QED
    BY <1>2, <2>1 DEF Written
<1>11. x.cur # 0 /\ x.crashed = m.crashed /\ HasLeaf(x, r, u)
  BY <1>2, <1>7 DEF Written
<1> QED
  BY <1>6, <1>8, <1>9, <1>10, <1>11 DEF Grown, HasTables

LeafMapped(s, x, R, F, r, u, page) ==
  /\ Walk(x) /\ x.ok /\ x.idx = [s.idx EXCEPT ![2] = VAextract(u, 2)]
  /\ Grown(s.m, x.m, R, F) /\ HasLeaf(x.m, r, u) /\ Convert(x.m, r, u) = page
  /\ \A q \in R, w \in VPages : q # r \/ w # u => Convert(x.m, q, w) = Convert(s.m, q, w)

LEMMA MapLeafStep ==
  ASSUME NEW s, NEW R, NEW A, NEW B, NEW F, Tables(s.m, R, A, B, F), Walk(s), s.ok,
         s.m.cur # 0, NEW r \in R, NEW u \in VPages, HasLeaf(s.m, r, u),
         ~Mapped(s.m, r, u), s.idx[2] # VAextract(u, 2), NEW page \in Nat \ {0},
         NEW x, x = MapLeaf(s, LeafOf(s.m, r, u), u, page)
  PROVE  LeafMapped(s, x, R, F, r, u, page)
<1> DEFINE t == LeafOf(s.m, r, u)
           i == VAextract(u, 2)
           new == WriteData(s.m, t, {i}, SetPTE(page))
           sm == s.m
           si == s.idx
           so == s.ok
           y == [m |-> sm, idx |-> si, ok |-> so]
<1>1. t \in B /\ i \in Offsets /\ i \in Nat /\ t \in DOMAIN s.m.pages
  <2>1. t \in B
    BY WayFacts
  <2>2. t \in DOMAIN s.m.pages
    BY <2>1 DEF Tables
  <2>3. i \in Offsets
    BY Indexes
  <2> QED
    BY <2>1, <2>2, <2>3 DEF Offsets
<1>2. ~(i = s.idx[2] \/ IsValid(Entry(s.m, t, i)))
  BY EntryFacts DEF Mapped
<1>3. x = [[s EXCEPT !.idx[2] = i] EXCEPT !.m = new]
  BY <1>2 DEF MapLeaf
<1>4. x = [m |-> new, idx |-> [s.idx EXCEPT ![2] = i], ok |-> s.ok]
  <2>1. s = y
    BY DEF Walk
  <2> HIDE DEF sm, si, so, new, i
  <2> DEFINE sj == [si EXCEPT ![2] = i]
             z == [m |-> sm, idx |-> sj, ok |-> so]
  <2>2. [y EXCEPT !.idx[2] = i] = z
    OBVIOUS
  <2> HIDE DEF y
  <2>3. [s EXCEPT !.idx[2] = i] = z
    BY <2>1, <2>2
  <2> HIDE DEF sj
  <2>4. [z EXCEPT !.m = new] = [m |-> new, idx |-> sj, ok |-> so]
    OBVIOUS
  <2> HIDE DEF z
  <2>5. x = [m |-> new, idx |-> sj, ok |-> so]
    BY <1>3, <2>3, <2>4
  <2> QED
    BY <2>5 DEF si, so, sj
<1>5. Walk(x) /\ x.ok /\ x.idx = [s.idx EXCEPT ![2] = i] /\ x.m = new
  <2> HIDE DEF new, i
  <2> QED
    BY <1>1, <1>4 DEF Walk
<1>6. Written(s.m, new, t, {i}, SetPTE(page))
  <2>1. MemOK(s.m) /\ SetPTE(page) \in Nat
    BY EntryFacts DEF Tables
  <2> HIDE DEF i, t
  <2> QED
    BY <1>1, <2>1, WriteMem
<1> HIDE DEF new
<1>7. /\ Grown(s.m, new, R, F) /\ HasLeaf(new, r, u) /\ Convert(new, r, u) = page
      /\ \A q \in R, w \in VPages : q # r \/ w # u => Convert(new, q, w) = Convert(s.m, q, w)
  BY <1>6, SetLeaf
<1> QED
  BY <1>5, <1>7 DEF LeafMapped

(* What mapping one page of a block does: the walk remembers its indices   *)
(* rightly, and no other page changes its translation.                     *)
Aims(s, r, u) ==
  /\ s.idx[0] = VAextract(u, 0) => HasMid(s.m, r, u)
  /\ s.idx[1] = VAextract(u, 1) => HasLeaf(s.m, r, u)
  /\ s.idx[2] # VAextract(u, 2)
Arrived(x, r, u, page) ==
  /\ x.idx[0] = VAextract(u, 0) /\ x.idx[1] = VAextract(u, 1) /\ x.idx[2] = VAextract(u, 2)
  /\ HasLeaf(x.m, r, u) /\ Convert(x.m, r, u) = page
OthersSame(m, x, R, r, u) ==
  \A q \in R, w \in VPages : q # r \/ w # u => Convert(x, q, w) = Convert(m, q, w)
PageMapped(s, x, R, F, r, u, page) ==
  /\ Walk(x) /\ Grown(s.m, x.m, R, F) /\ OthersSame(s.m, x.m, R, r, u)
  /\ x.ok => s.ok /\ Arrived(x, r, u, page)

LEMMA MapPageStep ==
  ASSUME NEW s, NEW R, NEW F, HasTables(s.m, R, F), Walk(s), s.m.cur # 0,
         NEW r \in R, NEW u \in VPages, Convert(s.m, r, u) = 0, s.ok => Aims(s, r, u),
         NEW page \in Nat \ {0}, NEW ub, NEW x, x = MapPage(s, r, u, page, ub)
  PROVE  PageMapped(s, x, R, F, r, u, page)
<1> DEFINE x0 == EnsureTable(s, r, 0, u, ub)
           t1 == NextTable(x0.m, r, x0.idx[0])
           x1 == EnsureTable(x0, t1, 1, u, ub)
<1>1. x = IF x1.ok THEN MapLeaf(x1, NextTable(x1.m, t1, x1.idx[1]), u, page) ELSE x1
  BY DEF MapPage
<1> HIDE DEF x0, t1, x1
<1>2. /\ 0 \in DOMAIN s.idx /\ 1 \in DOMAIN s.idx /\ 2 \in DOMAIN s.idx
  BY DEF Walk
<1>3. ASSUME NEW y, SameWays(s.m, y, R)
      PROVE  OthersSame(s.m, y, R, r, u)
  BY <1>3 DEF SameWays, OthersSame
<1>4. CASE ~s.ok
  <2>1. x0 = s
    BY <1>4 DEF x0, EnsureTable
  <2>2. x1 = s
    BY <1>4, <2>1 DEF x1, EnsureTable
  <2>3. x = s
    BY <1>1, <1>4, <2>2
  <2>4. Grown(s.m, s.m, R, F) /\ SameWays(s.m, s.m, R)
    BY GrownSelf DEF HasTables
  <2> QED
    BY <1>3, <1>4, <2>3, <2>4 DEF PageMapped
<1>5. CASE s.ok
  <2>1. /\ Walk(x0) /\ x0.idx = [s.idx EXCEPT ![0] = VAextract(u, 0)]
        /\ Grown(s.m, x0.m, R, F) /\ SameWays(s.m, x0.m, R)
        /\ HasMid(s.m, r, u) => x0.m = s.m
        /\ x0.ok => HasMid(x0.m, r, u)
    <3>1. PICK A, B : Tables(s.m, R, A, B, F)
      BY DEF HasTables
    <3>2. s.idx[0] = VAextract(u, 0) => HasMid(s.m, r, u)
      BY <1>5 DEF Aims
    <3>3. x0 = EnsureTable(s, r, 0, u, ub)
      BY DEF x0
    <3>4. MiddleEnsured(s, x0, R, F, r, u)
      BY <1>5, <3>1, <3>2, <3>3, EnsureMiddle
    <3> QED
      BY <3>4 DEF MiddleEnsured
  <2>2. x0.idx[0] = VAextract(u, 0) /\ x0.idx[1] = s.idx[1] /\ x0.idx[2] = s.idx[2]
    BY <1>2, <2>1
  <2>3. CASE ~x0.ok
    <3>1. x1 = x0
      BY <2>3 DEF x1, EnsureTable
    <3>2. x = x0
      BY <1>1, <2>3, <3>1
    <3> QED
      BY <1>3, <2>1, <2>3, <3>2 DEF PageMapped
  <2>4. CASE x0.ok
    <3>1. PICK A, B : Tables(x0.m, R, A, B, F)
      BY <2>1 DEF Grown, HasTables
    <3>2. t1 = MidOf(x0.m, r, u) /\ HasMid(x0.m, r, u)
      BY <2>1, <2>2, <2>4 DEF t1, MidOf
    <3>3. x0.idx[1] = VAextract(u, 1) => HasLeaf(x0.m, r, u)
      <4>1. x0.idx[1] = VAextract(u, 1) => HasLeaf(s.m, r, u)
        BY <1>5, <2>2 DEF Aims
      <4>2. HasLeaf(s.m, r, u) => x0.m = s.m
        BY <2>1 DEF HasLeaf
      <4> QED
        BY <4>1, <4>2
    <3>4. x1 = EnsureTable(x0, MidOf(x0.m, r, u), 1, u, ub) /\ x0.m.cur # 0
      BY <2>1, <3>2 DEF x1, Grown
    <3>5. /\ Walk(x1) /\ x1.idx = [x0.idx EXCEPT ![1] = VAextract(u, 1)]
          /\ Grown(x0.m, x1.m, R, F) /\ SameWays(x0.m, x1.m, R)
          /\ x1.ok => HasLeaf(x1.m, r, u) /\ MidOf(x1.m, r, u) = MidOf(x0.m, r, u)
      <4>1. LeafEnsured(x0, x1, R, F, r, u)
        BY <2>1, <2>4, <3>1, <3>2, <3>3, <3>4, EnsureLeaf
      <4> QED
        BY <4>1 DEF LeafEnsured
    <3>6. Grown(s.m, x1.m, R, F) /\ SameWays(s.m, x1.m, R)
      BY <2>1, <3>5, GrownOn
    <3>7. 0 \in DOMAIN x0.idx /\ 1 \in DOMAIN x0.idx /\ 2 \in DOMAIN x0.idx
      BY <2>1 DEF Walk
    <3>8. /\ x1.idx[0] = VAextract(u, 0) /\ x1.idx[1] = VAextract(u, 1)
          /\ x1.idx[2] = s.idx[2]
      BY <2>2, <3>5, <3>7
    <3>9. CASE ~x1.ok
      <4>1. x = x1
        BY <1>1, <3>9
      <4> QED
        BY <1>3, <3>5, <3>6, <3>9, <4>1 DEF PageMapped
    <3>10. CASE x1.ok
      <4>1. PICK C, D : Tables(x1.m, R, C, D, F)
        BY <3>5 DEF Grown, HasTables
      <4>2. NextTable(x1.m, t1, x1.idx[1]) = LeafOf(x1.m, r, u)
        BY <3>2, <3>5, <3>8, <3>10 DEF LeafOf
      <4>3. x = MapLeaf(x1, LeafOf(x1.m, r, u), u, page)
        BY <1>1, <3>10, <4>2
      <4>4. Convert(x1.m, r, u) = 0
        BY <3>6 DEF SameWays
      <4>5. ~Mapped(x1.m, r, u)
        BY <4>1, <4>4, WayFacts
      <4>6. x1.idx[2] # VAextract(u, 2) /\ x1.m.cur # 0 /\ HasLeaf(x1.m, r, u)
        BY <1>5, <3>5, <3>8, <3>10 DEF Aims, Grown
      <4>7. /\ Walk(x) /\ x.ok /\ x.idx = [x1.idx EXCEPT ![2] = VAextract(u, 2)]
            /\ Grown(x1.m, x.m, R, F) /\ HasLeaf(x.m, r, u) /\ Convert(x.m, r, u) = page
            /\ \A q \in R, w \in VPages : q # r \/ w # u => Convert(x.m, q, w) = Convert(x1.m, q, w)
        <5>1. LeafMapped(x1, x, R, F, r, u, page)
          BY <3>5, <3>10, <4>1, <4>3, <4>5, <4>6, MapLeafStep
        <5> QED
          BY <5>1 DEF LeafMapped
      <4>8. Grown(s.m, x.m, R, F)
        BY <3>6, <4>7, GrownOn
      <4>9. OthersSame(s.m, x.m, R, r, u)
        BY <3>6, <4>7 DEF OthersSame, SameWays
      <4>10. 0 \in DOMAIN x1.idx /\ 1 \in DOMAIN x1.idx /\ 2 \in DOMAIN x1.idx
        BY <3>5 DEF Walk
      <4>11. /\ x.idx[0] = VAextract(u, 0) /\ x.idx[1] = VAextract(u, 1)
             /\ x.idx[2] = VAextract(u, 2)
        BY <3>8, <4>7, <4>10
      <4> QED
        BY <1>5, <4>7, <4>8, <4>9, <4>11 DEF Arrived, PageMapped
    <3> QED
      BY <3>9, <3>10
  <2> QED
    BY <2>3, <2>4
<1>6. s.ok \in BOOLEAN
  BY DEF Walk
<1> QED
  BY <1>4, <1>5, <1>6

-----------------------------------------------------------------------------
LEMMA VPagesBelow ==
  ASSUME NEW w \in VPages, NEW u \in Nat, u <= w
  PROVE  u \in VPages
<1> DEFINE top == PageElem * PageElem * PageElem - 1
<1>1. top \in Int /\ VPages = 0 .. top
  BY PhysicalAssumption DEF VPages
<1> HIDE DEF top
<1> QED
  BY <1>1

(* The loop of allocate over the pages of a block; h are its states.       *)
StartWalk(m) == [m |-> m, idx |-> [l \in 0 .. 2 |-> PageElem], ok |-> TRUE]
Walks(h, m, root, v, pa, n, ub) ==
  /\ h[0] = StartWalk(m)
  /\ \A k \in 1 .. n : h[k] = MapPage(h[k - 1], root, v + (k - 1), pa + (k - 1), ub)

LEMMA AllocateIs ==
  ASSUME NEW m, NEW root, NEW v, NEW n \in Nat, NEW ub
  PROVE  LET pa == Usable(m, n)
             got == InsertBlock(m, pa, n, ub)
         IN  IF pa = 0 \/ ~Inserted(m, got)
             THEN /\ Allocate(m, root, v, n, ub).pa = 0
                  /\ Allocate(m, root, v, n, ub).m = IF pa = 0 THEN m ELSE got
             ELSE \E h : /\ Walks(h, got, root, v, pa, n, ub)
                         /\ Allocate(m, root, v, n, ub).m = h[n].m
                         /\ Allocate(m, root, v, n, ub).pa = IF h[n].ok THEN pa ELSE 0
<1> DEFINE pa == Usable(m, n)
           got == InsertBlock(m, pa, n, ub)
           s == MapAll(StartWalk(got), root, v, pa, n, ub)
<1>1. Allocate(m, root, v, n, ub)
        = IF pa = 0 THEN [m |-> m, pa |-> 0]
          ELSE IF ~Inserted(m, got) THEN [m |-> got, pa |-> 0]
          ELSE [m |-> s.m, pa |-> IF s.ok THEN pa ELSE 0]
  BY DEF Allocate, MapAll, StartWalk
<1>2. PICK h : h[0] = StartWalk(got) /\ s = h[n]
               /\ \A k \in 1 .. n : h[k] = MapPage(h[k - 1], root, v + (k - 1), pa + (k - 1), ub)
  <2> HIDE DEF pa, got
  <2> QED
    BY MapAllChain
<1> HIDE DEF pa, got, s
<1>3. Walks(h, got, root, v, pa, n, ub)
  BY <1>2 DEF Walks
<1>4. CASE pa = 0
  BY <1>1, <1>4 DEF pa
<1>5. CASE pa # 0 /\ ~Inserted(m, got)
  BY <1>1, <1>5 DEF pa, got
<1>6. CASE pa # 0 /\ Inserted(m, got)
  <2>1. Allocate(m, root, v, n, ub) = [m |-> h[n].m, pa |-> IF h[n].ok THEN pa ELSE 0]
    BY <1>1, <1>2, <1>6
  <2>2. /\ Walks(h, got, root, v, pa, n, ub)
        /\ Allocate(m, root, v, n, ub).m = h[n].m
        /\ Allocate(m, root, v, n, ub).pa = IF h[n].ok THEN pa ELSE 0
    BY <1>3, <2>1
  <2> QED
    BY <1>6, <2>2 DEF pa, got
<1> QED
  BY <1>4, <1>5, <1>6

(* After k pages: what is mapped, and what the walk remembers.             *)
WalkInv(s, k, m, R, F, root, v, pa) ==
  /\ Walk(s) /\ Grown(m, s.m, R, F)
  /\ \A q \in R, w \in VPages :
       q # root \/ w \notin v .. v + k - 1 => Convert(s.m, q, w) = Convert(m, q, w)
  /\ s.ok => \A j \in 0 .. k - 1 : Convert(s.m, root, v + j) = pa + j
  /\ s.ok => IF k = 0 THEN \A l \in 0 .. 2 : s.idx[l] = PageElem
             ELSE /\ \A l \in 0 .. 2 : s.idx[l] = VAextract(v + k - 1, l)
                  /\ HasLeaf(s.m, root, v + k - 1)

LEMMA WalkAims ==
  ASSUME NEW s, NEW k \in Nat, NEW m, NEW R, NEW F, NEW root, NEW v \in Nat, NEW pa,
         WalkInv(s, k, m, R, F, root, v, pa), s.ok, v + k \in VPages
  PROVE  Aims(s, root, v + k)
<1>1. /\ VAextract(v + k, 0) \in Offsets /\ VAextract(v + k, 1) \in Offsets
      /\ VAextract(v + k, 2) \in Offsets
  BY Indexes
<1>2. 0 \in 0 .. 2 /\ 1 \in 0 .. 2 /\ 2 \in 0 .. 2
  OBVIOUS
<1>3. CASE k = 0
  <2>1. s.idx[0] = PageElem /\ s.idx[1] = PageElem /\ s.idx[2] = PageElem
    BY <1>2, <1>3 DEF WalkInv
  <2>2. PageElem \notin Offsets
    BY PhysicalAssumption DEF Offsets
  <2> QED
    BY <1>1, <2>1, <2>2 DEF Aims
<1>4. CASE k # 0
  <2> DEFINE u == v + k - 1
  <2>1. u \in Nat /\ u + 1 = v + k
    BY <1>4
  <2>2. /\ s.idx[0] = VAextract(u, 0) /\ s.idx[1] = VAextract(u, 1)
        /\ s.idx[2] = VAextract(u, 2) /\ HasLeaf(s.m, root, u)
    BY <1>2, <1>4 DEF WalkInv
  <2> HIDE DEF u
  <2>3. /\ VAextract(u + 1, 2) # VAextract(u, 2)
        /\ VAextract(u + 1, 1) = VAextract(u, 1) => VAextract(u + 1, 0) = VAextract(u, 0)
    BY <2>1, NextIndexes
  <2>4. VAextract(u + 1, 0) = VAextract(u, 0) => HasMid(s.m, root, u + 1)
    BY <2>2 DEF HasLeaf, HasMid
  <2>5. VAextract(u + 1, 1) = VAextract(u, 1) => HasLeaf(s.m, root, u + 1)
    BY <2>2, <2>3 DEF HasLeaf, HasMid, MidOf
  <2> QED
    BY <2>1, <2>2, <2>3, <2>4, <2>5 DEF Aims
<1> QED
  BY <1>3, <1>4

LEMMA WalkStep ==
  ASSUME NEW s, NEW k \in Nat, NEW m, NEW R, NEW F, NEW root \in R, NEW v \in Nat,
         NEW pa \in Nat \ {0}, WalkInv(s, k, m, R, F, root, v, pa),
         v + k \in VPages, Convert(m, root, v + k) = 0, NEW ub,
         NEW x, x = MapPage(s, root, v + k, pa + k, ub)
  PROVE  WalkInv(x, k + 1, m, R, F, root, v, pa)
<1> DEFINE u == v + k
           page == pa + k
<1>1. /\ HasTables(s.m, R, F) /\ Walk(s) /\ s.m.cur # 0 /\ Grown(m, s.m, R, F)
  BY DEF WalkInv, Grown
<1>2. u \in VPages /\ page \in Nat \ {0} /\ x = MapPage(s, root, u, page, ub)
      /\ u \in Nat /\ v + (k + 1) - 1 = u
  OBVIOUS
<1>3. Convert(s.m, root, u) = 0
  <2>1. v + k \notin v .. v + k - 1
    OBVIOUS
  <2> QED
    BY <2>1 DEF WalkInv
<1>4. s.ok => Aims(s, root, u)
  BY WalkAims
<1> HIDE DEF u, page
<1>5. /\ Walk(x) /\ Grown(s.m, x.m, R, F) /\ OthersSame(s.m, x.m, R, root, u)
      /\ x.ok => s.ok /\ Arrived(x, root, u, page)
  <2>1. PageMapped(s, x, R, F, root, u, page)
    BY <1>1, <1>2, <1>3, <1>4, MapPageStep
  <2> QED
    BY <2>1 DEF PageMapped
<1>6. Grown(m, x.m, R, F)
  BY <1>1, <1>5, GrownOn
<1>7. ASSUME NEW q \in R, NEW w \in VPages, q # root \/ w \notin v .. v + (k + 1) - 1
      PROVE  Convert(x.m, q, w) = Convert(m, q, w)
  <2>1. (q # root \/ w # u) /\ (q # root \/ w \notin v .. v + k - 1)
    BY <1>7 DEF u
  <2>2. Convert(x.m, q, w) = Convert(s.m, q, w)
    BY <1>5, <2>1 DEF OthersSame
  <2>3. Convert(s.m, q, w) = Convert(m, q, w)
    BY <2>1 DEF WalkInv
  <2> QED
    BY <2>2, <2>3
<1>8. ASSUME x.ok, NEW j \in 0 .. (k + 1) - 1
      PROVE  Convert(x.m, root, v + j) = pa + j
  <2>1. CASE j = k
    BY <1>5, <1>8, <2>1 DEF Arrived, u, page
  <2>2. CASE j # k
    <3>1. j \in 0 .. k - 1 /\ v + j # u
      BY <2>2 DEF u
    <3>2. Convert(s.m, root, v + j) = pa + j
      BY <1>5, <1>8, <3>1 DEF WalkInv
    <3>3. v + j \in VPages
      BY <3>1, VPagesBelow
    <3> QED
      BY <1>5, <3>1, <3>2, <3>3 DEF OthersSame
  <2> QED
    BY <2>1, <2>2
<1>9. ASSUME x.ok
      PROVE  /\ \A l \in 0 .. 2 : x.idx[l] = VAextract(v + (k + 1) - 1, l)
             /\ HasLeaf(x.m, root, v + (k + 1) - 1)
  <2>1. Arrived(x, root, u, page)
    BY <1>5, <1>9
  <2>2. \A l \in 0 .. 2 : l = 0 \/ l = 1 \/ l = 2
    OBVIOUS
  <2> QED
    BY <1>2, <2>1, <2>2 DEF Arrived
<1>10. k + 1 # 0
  OBVIOUS
<1> QED
  BY <1>5, <1>6, <1>7, <1>8, <1>9, <1>10 DEF WalkInv

LEMMA WalkAll ==
  ASSUME NEW m, NEW R, NEW F, HasTables(m, R, F), m.cur # 0, NEW root \in R, NEW v \in Nat,
         NEW pa \in Nat \ {0}, NEW n \in Nat,
         \A j \in 0 .. n - 1 : v + j \in VPages /\ Convert(m, root, v + j) = 0, NEW ub,
         NEW h, Walks(h, m, root, v, pa, n, ub)
  PROVE  WalkInv(h[n], n, m, R, F, root, v, pa)
<1> DEFINE T == {k \in 0 .. n : WalkInv(h[k], k, m, R, F, root, v, pa)}
<1>1. 0 \in T
  <2>1. h[0] = [m |-> m, idx |-> [l \in 0 .. 2 |-> PageElem], ok |-> TRUE]
    BY DEF Walks, StartWalk
  <2>2. Walk(h[0]) /\ h[0].m = m /\ \A l \in 0 .. 2 : h[0].idx[l] = PageElem
    BY <2>1, PhysicalAssumption DEF Walk
  <2>3. Grown(m, m, R, F)
    BY GrownSelf DEF HasTables
  <2> QED
    BY <2>2, <2>3 DEF WalkInv
<1>2. ASSUME NEW k \in 1 .. n, k - 1 \in T PROVE k \in T
  <2> DEFINE j == k - 1
  <2>1. j \in Nat /\ j \in 0 .. n - 1 /\ j + 1 = k
    OBVIOUS
  <2>2. WalkInv(h[j], j, m, R, F, root, v, pa)
    BY <1>2
  <2>3. h[k] = MapPage(h[j], root, v + j, pa + j, ub)
    BY DEF Walks
  <2> HIDE DEF j, T
  <2>4. v + j \in VPages /\ Convert(m, root, v + j) = 0
    BY <2>1
  <2>5. WalkInv(h[k], j + 1, m, R, F, root, v, pa)
    BY <2>1, <2>2, <2>3, <2>4, WalkStep
  <2> QED
    BY <2>1, <2>5 DEF T
<1> HIDE DEF T
<1>3. n \in T
  <2>1. \A k \in 0 .. n : k \in T
    BY <1>1, <1>2, StepInduction
  <2> QED
    BY <2>1
<1> QED
  BY <1>3 DEF T

(* allocate as a whole.                                                    *)
Allocated(m, x, pa, R, F, root, v, n) ==
  /\ x.cur # 0 /\ x.crashed = m.crashed /\ KeepsWords(m, x, F)
  /\ \A q \in R, w \in VPages :
       q # root \/ w \notin v .. v + n - 1 => Convert(x, q, w) = Convert(m, q, w)
  /\ pa = 0 => \E G : F \subseteq G /\ HasTables(x, R, G)
  /\ pa # 0 => /\ pa \in Nat /\ Reserved <= pa /\ pa + n <= MaxRange
               /\ HasTables(x, R, F \cup {Block(pa, n)})
               /\ \A b \in BlocksOf(m) : \A p \in pa .. pa + n - 1 : p \notin PagesOf(b)
               /\ \A j \in 0 .. n - 1 : Convert(x, root, v + j) = pa + j
               /\ \A p \in pa .. pa + n - 1, i \in Offsets : ReadWord(x, p, i) = 0

LEMMA TakeForData ==
  ASSUME NEW m, NEW R, NEW F, HasTables(m, R, F), NEW a \in Nat, NEW n \in Nat \ {0},
         NEW x, Taken(m, x, a, n)
  PROVE  /\ HasTables(x, R, F \cup {Block(a, n)}) /\ SameWays(m, x, R)
         /\ KeepsWords(m, x, F) /\ x.cur # 0 /\ x.crashed = m.crashed
<1>1. PICK A, B : Tables(m, R, A, B, F)
  BY DEF HasTables
<1>2. /\ Block(a, n) \notin BlocksOf(m)
      /\ SameEntries(m, x, R \cup A \cup B)
      /\ \A p \in R \cup A \cup B : p \in DOMAIN x.pages
  <2>1. Fresh(m, x, a, n, R \cup A \cup B)
    BY <1>1, FreshTable
  <2> QED
    BY <2>1 DEF Fresh
<1>3. Tables(x, R, A, B, F \cup {Block(a, n)})
  <2> DEFINE G == F \cup {Block(a, n)}
  <2>1. BlocksOf(x) = G \cup TableBlocks(R \cup A \cup B)
    BY <1>1 DEF Taken, Tables
  <2>2. \A p \in R \cup A \cup B : Block(p, 1) \notin G /\ p \in DOMAIN x.pages
    BY <1>1, <1>2 DEF Tables, TableBlocks
  <2>3. MemOK(x)
    BY DEF Taken
  <2> HIDE DEF G
  <2>4. Tables(x, R, A, B, G)
    BY <1>1, <1>2, <2>1, <2>2, <2>3, KeepTables
  <2> QED
    BY <2>4 DEF G
<1>4. SameWays(m, x, R)
  BY <1>1, <1>2, ConvertSame DEF SameWays
<1>5. KeepsWords(m, x, F) /\ x.cur # 0 /\ x.crashed = m.crashed
  BY DEF Taken, KeepsWords
<1> QED
  BY <1>3, <1>4, <1>5 DEF HasTables

LEMMA AllocateStep ==
  ASSUME NEW m, NEW R, NEW F, HasTables(m, R, F), m.cur # 0, NEW root \in R, NEW v \in Nat,
         NEW n \in Nat \ {0},
         \A j \in 0 .. n - 1 : v + j \in VPages /\ Convert(m, root, v + j) = 0, NEW ub
  PROVE  Allocated(m, Allocate(m, root, v, n, ub).m, Allocate(m, root, v, n, ub).pa,
                   R, F, root, v, n)
<1> DEFINE pa == Usable(m, n)
           got == InsertBlock(m, pa, n, ub)
           r == Allocate(m, root, v, n, ub)
<1>1. IF pa = 0 \/ ~Inserted(m, got)
      THEN r.pa = 0 /\ r.m = IF pa = 0 THEN m ELSE got
      ELSE \E h : /\ Walks(h, got, root, v, pa, n, ub)
                  /\ r.m = h[n].m /\ r.pa = IF h[n].ok THEN pa ELSE 0
  BY AllocateIs
<1>2. MemOK(m)
  BY DEF HasTables, Tables
<1>3. CASE pa = 0
  <2>1. r.pa = 0 /\ r.m = m
    BY <1>1, <1>3
  <2>2. KeepsWords(m, m, F)
    BY DEF KeepsWords
  <2> HIDE DEF r
  <2>3. Allocated(m, r.m, r.pa, R, F, root, v, n)
    BY <2>1, <2>2 DEF Allocated
  <2> QED
    BY <2>3 DEF r
<1>4. CASE pa # 0
  <2>1. pa \in Nat /\ Reserved <= pa /\ pa + n <= MaxRange /\ Taken(m, got, pa, n)
    BY <1>2, <1>4, TakeMem
  <2>2. Inserted(m, got)
    BY <2>1 DEF Taken
  <2>3. PICK h : /\ Walks(h, got, root, v, pa, n, ub)
                 /\ r.m = h[n].m /\ r.pa = IF h[n].ok THEN pa ELSE 0
    <3> HIDE DEF pa, got, r
    <3> QED
      BY <1>1, <1>4, <2>2
  <2> HIDE DEF pa, got, r
  <2> DEFINE G == F \cup {Block(pa, n)}
  <2>4. /\ HasTables(got, R, G) /\ SameWays(m, got, R)
        /\ KeepsWords(m, got, F) /\ got.cur # 0 /\ got.crashed = m.crashed
    BY <2>1, TakeForData
  <2> HIDE DEF G
  <2>5. \A j \in 0 .. n - 1 : v + j \in VPages /\ Convert(got, root, v + j) = 0
    BY <2>4 DEF SameWays
  <2>6. WalkInv(h[n], n, got, R, G, root, v, pa)
    BY <1>4, <2>1, <2>3, <2>4, <2>5, WalkAll
  <2>7. Grown(got, r.m, R, G)
    BY <2>3, <2>6 DEF WalkInv
  <2>8. KeepsWords(m, r.m, F)
    BY <2>4, <2>7 DEF KeepsWords, Grown, G
  <2>9. ASSUME NEW q \in R, NEW w \in VPages, q # root \/ w \notin v .. v + n - 1
        PROVE  Convert(r.m, q, w) = Convert(m, q, w)
    BY <2>3, <2>4, <2>6, <2>9 DEF WalkInv, SameWays
  <2>10. r.m.cur # 0 /\ r.m.crashed = m.crashed /\ HasTables(r.m, R, G)
    BY <2>4, <2>7 DEF Grown
  <2>11. r.pa = 0 => \E H : F \subseteq H /\ HasTables(r.m, R, H)
    BY <2>10 DEF G
  <2>12. ASSUME r.pa # 0
         PROVE  /\ r.pa = pa
                /\ \A b \in BlocksOf(m) : \A p \in pa .. pa + n - 1 : p \notin PagesOf(b)
                /\ \A j \in 0 .. n - 1 : Convert(r.m, root, v + j) = pa + j
    <3>1. h[n].ok /\ r.pa = pa
      BY <2>3, <2>12
    <3> QED
      BY <2>1, <2>3, <2>6, <3>1 DEF WalkInv, Taken
  <2>14. ASSUME NEW p \in pa .. pa + n - 1, NEW i \in Offsets PROVE ReadWord(r.m, p, i) = 0
    <3>1. p \in DOMAIN got.pages /\ p \notin DOMAIN m.pages /\ ReadWord(got, p, i) = ReadWord(m, p, i)
      BY <2>1 DEF Taken
    <3>2. Block(pa, n) \in G /\ p \in PagesOf(Block(pa, n))
      BY <2>1, PagesOfBlock DEF G
    <3>3. p \in DOMAIN r.m.pages /\ r.m.pages[p] = got.pages[p]
      BY <2>7, <3>1, <3>2 DEF Grown, KeepsWords
    <3> QED
      BY <3>1, <3>3 DEF ReadWord
  <2>13. Allocated(m, r.m, r.pa, R, F, root, v, n)
    BY <2>1, <2>8, <2>9, <2>10, <2>11, <2>12, <2>14 DEF Allocated, G
  <2> QED
    BY <2>13 DEF r
<1> QED
  BY <1>3, <1>4

-----------------------------------------------------------------------------
(* act_virt with write_data: pages of other blocks are written, no table   *)
(* is.                                                                     *)
PutInv(s, m, R, A, B, F) ==
  /\ s = [m |-> s.m, ok |-> s.ok]
  /\ Tables(s.m, R, A, B, F) /\ SameEntries(m, s.m, R \cup A \cup B)
  /\ s.m.cur = m.cur /\ s.m.crashed = m.crashed
  /\ DOMAIN s.m.pages = DOMAIN m.pages

(* The words of the range that lie in the pages U have become w.           *)
InRange(u, i, a, len) == a <= u * PageElem + i /\ u * PageElem + i < a + len
WordsPut(m, x, r, a, len, w, U) ==
  \A p, i : i \in Offsets =>
    ReadWord(x, p, i) = IF \E u \in U : p = Convert(m, r, u) /\ InRange(u, i, a, len)
                        THEN w ELSE ReadWord(m, p, i)
PutDone(s, m, r, a, len, w, U) == s.ok = TRUE /\ WordsPut(m, s.m, r, a, len, w, U)

LEMMA PutStep ==
  ASSUME NEW s, NEW m, NEW R, NEW A, NEW B, NEW F, PutInv(s, m, R, A, B, F),
         Tables(m, R, A, B, F), NEW r \in R, NEW u \in VPages,
         Convert(m, r, u) \notin R \cup A \cup B,
         NEW a, NEW len, NEW w \in Nat, NEW x, x = PutPage(s, r, a, len, w, u)
  PROVE  /\ PutInv(x, m, R, A, B, F)
         /\ \A U : Convert(m, r, u) \in DOMAIN m.pages /\ PutDone(s, m, r, a, len, w, U)
                  => PutDone(x, m, r, a, len, w, U \cup {u})
<1> DEFINE In == {i \in Offsets : a <= u * PageElem + i /\ u * PageElem + i < a + len}
           page == Convert(s.m, r, u)
           new == WriteData(s.m, page, In, w)
<1>1. x = IF ~s.ok \/ page = 0 THEN [s EXCEPT !.ok = FALSE] ELSE [s EXCEPT !.m = new]
  BY DEF PutPage
<1>2. page \notin R \cup A \cup B /\ page = Convert(m, r, u)
  BY ConvertSame DEF PutInv
<1>6. \A i \in Offsets : i \in In <=> InRange(u, i, a, len)
  BY DEF InRange
<1> HIDE DEF In, page, new
<1>3. Tables(s.m, R, A, B, F) /\ SameEntries(m, s.m, R \cup A \cup B)
      /\ s.m.cur = m.cur /\ s.m.crashed = m.crashed /\ DOMAIN s.m.pages = DOMAIN m.pages
  BY DEF PutInv
<1>4. CASE ~s.ok \/ page = 0
  <2>1. x = [m |-> s.m, ok |-> FALSE]
    BY <1>1, <1>4 DEF PutInv
  <2>2. page # 0 \/ page \notin DOMAIN m.pages
    BY PhysicalAssumption DEF Tables, MemOK, Backed
  <2> QED
    BY <1>2, <1>3, <1>4, <2>1, <2>2 DEF PutInv, PutDone
<1>5. CASE ~(~s.ok \/ page = 0)
  <2>1. x = [m |-> new, ok |-> s.ok]
    BY <1>1, <1>5 DEF PutInv
  <2>2. CASE page \notin DOMAIN s.m.pages
    <3>1. new = s.m
      BY <2>2 DEF new, WriteData
    <3> QED
      BY <1>2, <1>3, <2>1, <2>2, <3>1 DEF PutInv
  <2>3. CASE page \in DOMAIN s.m.pages
    <3>1. Written(s.m, new, page, In, w)
      BY <1>3, <2>3, WriteMem DEF new, Tables
    <3>2. SameEntries(s.m, new, R \cup A \cup B)
      BY <1>2, <3>1 DEF Written, SameEntries, Entry
    <3>3. Tables(new, R, A, B, F)
      <4>1. /\ MemOK(new) /\ BlocksOf(new) = F \cup TableBlocks(R \cup A \cup B)
            /\ \A p \in R \cup A \cup B : Block(p, 1) \notin F /\ p \in DOMAIN new.pages
        BY <1>3, <3>1 DEF Written, Tables
      <4> QED
        BY <1>3, <3>2, <4>1, KeepTables
    <3>4. SameEntries(m, new, R \cup A \cup B) /\ new.cur = m.cur /\ new.crashed = m.crashed
          /\ DOMAIN new.pages = DOMAIN m.pages
      BY <1>3, <3>1, <3>2 DEF SameEntries, Written
    <3>5. ASSUME NEW U, PutDone(s, m, r, a, len, w, U) PROVE PutDone(x, m, r, a, len, w, U \cup {u})
      <4>1. ASSUME NEW p, NEW i \in Offsets
            PROVE  ReadWord(new, p, i)
                     = IF \E t \in U \cup {u} : p = Convert(m, r, t) /\ InRange(t, i, a, len)
                       THEN w ELSE ReadWord(m, p, i)
        <5>1. ReadWord(new, p, i) = IF p = page /\ i \in In THEN w ELSE ReadWord(s.m, p, i)
          BY <3>1 DEF Written
        <5>2. ReadWord(s.m, p, i) = IF \E t \in U : p = Convert(m, r, t) /\ InRange(t, i, a, len)
                                    THEN w ELSE ReadWord(m, p, i)
          BY <3>5 DEF PutDone, WordsPut
        <5>3. i \in In <=> InRange(u, i, a, len)
          BY <1>6
        <5> QED
          BY <1>2, <5>1, <5>2, <5>3
      <4> QED
        BY <2>1, <3>5, <4>1 DEF PutDone, WordsPut
    <3> QED
      BY <2>1, <3>3, <3>4, <3>5 DEF PutInv
  <2> QED
    BY <2>2, <2>3
<1> QED
  BY <1>4, <1>5

LEMMA WriteVirtStep ==
  ASSUME NEW m, NEW R, NEW F, HasTables(m, R, F), NEW r \in R, NEW a \in Nat,
         NEW len \in Nat \ {0}, NEW w \in Nat,
         \A u \in a \div PageElem .. (a + len - 1) \div PageElem :
           u \in VPages /\ \E b \in F : Convert(m, r, u) \in PagesOf(b),
         NEW x, x = WriteVirt(m, r, a, len, w).m
  PROVE  /\ HasTables(x, R, F) /\ SameWays(m, x, R)
         /\ x.cur = m.cur /\ x.crashed = m.crashed /\ DOMAIN x.pages = DOMAIN m.pages
         /\ (\A u \in a \div PageElem .. (a + len - 1) \div PageElem :
               Convert(m, r, u) \in DOMAIN m.pages)
            => PutDone(WriteVirt(m, r, a, len, w), m, r, a, len, w,
                       a \div PageElem .. (a + len - 1) \div PageElem)
<1> DEFINE first == a \div PageElem
           last == (a + len - 1) \div PageElem
           n == last - first + 1
           start == [m |-> m, ok |-> TRUE]
<1>1. first \in Nat /\ last \in Nat /\ n \in Nat /\ \A k \in 1 .. n : first + k - 1 \in first .. last
  <2>1. PageElem \in Nat \ {0} /\ a + len - 1 \in Nat /\ a <= a + len - 1
    BY PhysicalAssumption
  <2>2. first \in Nat /\ a = PageElem * first + (a % PageElem) /\ a % PageElem \in 0 .. PageElem - 1
    BY <2>1, DivMod
  <2> DEFINE z == a + len - 1
  <2>3. z \div PageElem \in Nat /\ z = PageElem * (z \div PageElem) + (z % PageElem)
        /\ z % PageElem \in 0 .. PageElem - 1
    <3> HIDE DEF z
    <3> QED
      BY <2>1, DivMod DEF z
  <2>4. first <= last
    <3> DEFINE f == first
               l == last
               ra == a % PageElem
               rz == z % PageElem
    <3>1. f \in Nat /\ l \in Nat /\ PageElem \in Nat \ {0} /\ ra \in 0 .. PageElem - 1
          /\ rz \in 0 .. PageElem - 1 /\ PageElem * f + ra <= PageElem * l + rz
      BY <2>1, <2>2, <2>3
    <3> HIDE DEF f, l, ra, rz, first, last
    <3>2. ASSUME l < f PROVE FALSE
      <4>1. PICK d \in Nat : f = l + 1 + d
        <5>1. f - l - 1 \in Nat /\ f = l + 1 + (f - l - 1)
          BY <3>1, <3>2
        <5> QED
          BY <5>1
      <4>2. PageElem * f = PageElem * l + PageElem + PageElem * d /\ PageElem * d \in Nat
            /\ PageElem * l \in Nat
        BY <3>1, <4>1
      <4> QED
        BY <3>1, <4>2
    <3>3. f <= l
      BY <3>1, <3>2
    <3> QED
      BY <3>3 DEF f, l
  <2> HIDE DEF first, last
  <2> QED
    BY <2>2, <2>3, <2>4 DEF last
<1>2. WriteVirt(m, r, a, len, w) = PutAll(start, r, a, len, w, first, n)
  BY DEF WriteVirt, PutAll, PutPage
<1> HIDE DEF first, last, n, start
<1>3. PICK h : /\ h[0] = start /\ PutAll(start, r, a, len, w, first, n) = h[n]
               /\ \A k \in 1 .. n : h[k] = PutPage(h[k - 1], r, a, len, w, first + k - 1)
  <2>1. first \in Nat /\ n \in Nat
    BY <1>1
  <2>2. PICK h : /\ PutAll(start, r, a, len, w, first, n) = h[n]
                 /\ Puts(h, start, r, a, len, w, first, n)
    BY <2>1, PutAllChain
  <2> QED
    BY <2>2 DEF Puts
<1>4. PICK A, B : Tables(m, R, A, B, F)
  BY DEF HasTables
<1>5. \A u \in first .. last : u \in VPages /\ Convert(m, r, u) \notin R \cup A \cup B
  BY <1>4, TableInNoOther DEF first, last
<1> DEFINE T == {k \in 0 .. n : PutInv(h[k], m, R, A, B, F)}
<1>6. 0 \in T
  <2>1. h[0] = [m |-> m, ok |-> TRUE]
    BY <1>3 DEF start
  <2> QED
    BY <1>1, <1>4, <2>1 DEF PutInv, SameEntries
<1>7. ASSUME NEW k \in 1 .. n, k - 1 \in T PROVE k \in T
  <2>1. first + k - 1 \in VPages /\ Convert(m, r, first + k - 1) \notin R \cup A \cup B
    BY <1>1, <1>5
  <2>2. PutInv(h[k - 1], m, R, A, B, F) /\ h[k] = PutPage(h[k - 1], r, a, len, w, first + k - 1)
    BY <1>3, <1>7
  <2>3. PutInv(h[k], m, R, A, B, F)
    BY <1>4, <2>1, <2>2, PutStep
  <2> QED
    BY <2>3
<1> HIDE DEF T
<1>8. n \in T
  <2>1. \A k \in 0 .. n : k \in T
    BY <1>1, <1>6, <1>7, StepInduction
  <2> QED
    BY <1>1, <2>1
<1>9. PutInv(h[n], m, R, A, B, F) /\ x = h[n].m
  BY <1>2, <1>3, <1>8 DEF T
<1>10. SameWays(m, x, R)
  BY <1>4, <1>9, ConvertSame DEF SameWays, PutInv
<1>11. ASSUME \A u \in first .. last : Convert(m, r, u) \in DOMAIN m.pages
       PROVE  PutDone(h[n], m, r, a, len, w, first .. last)
  <2> DEFINE S == {k \in 0 .. n : PutDone(h[k], m, r, a, len, w, first .. first + k - 1)}
  <2>1. 0 \in S
    <3>1. first .. first + 0 - 1 = {} /\ h[0] = [m |-> m, ok |-> TRUE]
      BY <1>1, <1>3 DEF start
    <3> QED
      BY <1>1, <3>1 DEF PutDone, WordsPut
  <2>2. ASSUME NEW k \in 1 .. n, k - 1 \in S PROVE k \in S
    <3>1. /\ first + k - 1 \in VPages /\ Convert(m, r, first + k - 1) \notin R \cup A \cup B
          /\ Convert(m, r, first + k - 1) \in DOMAIN m.pages
      BY <1>1, <1>5, <1>11
    <3>2. PutInv(h[k - 1], m, R, A, B, F) /\ h[k] = PutPage(h[k - 1], r, a, len, w, first + k - 1)
      <4>1. k - 1 \in 0 .. n
        BY <1>1
      <4>2. \A j \in 0 .. n : j \in T
        BY <1>1, <1>6, <1>7, StepInduction
      <4> QED
        BY <1>3, <4>1, <4>2 DEF T
    <3>3. PutDone(h[k - 1], m, r, a, len, w, first .. first + (k - 1) - 1)
      BY <2>2
    <3>4. first .. first + k - 1 = (first .. first + (k - 1) - 1) \cup {first + k - 1}
      BY <1>1
    <3>5. PutDone(h[k], m, r, a, len, w, first .. first + k - 1)
      <4> DEFINE U == first .. first + (k - 1) - 1
                 u == first + k - 1
      <4> HIDE DEF U, u
      <4>1. PutDone(h[k], m, r, a, len, w, U \cup {u})
        <5>1. u \in VPages /\ Convert(m, r, u) \notin R \cup A \cup B
              /\ Convert(m, r, u) \in DOMAIN m.pages
          BY <3>1 DEF u
        <5>2. PutInv(h[k - 1], m, R, A, B, F) /\ h[k] = PutPage(h[k - 1], r, a, len, w, u)
          BY <3>2 DEF u
        <5>3. PutDone(h[k - 1], m, r, a, len, w, U)
          BY <3>3 DEF U
        <5> QED
          BY <1>4, <5>1, <5>2, <5>3, PutStep
      <4> QED
        BY <3>4, <4>1 DEF U, u
    <3> QED
      BY <3>5, <1>1
  <2> HIDE DEF S
  <2>3. \A k \in 0 .. n : k \in S
    BY <1>1, <2>1, <2>2, StepInduction
  <2>4. n \in 0 .. n /\ first + n - 1 = last
    BY <1>1 DEF n
  <2> QED
    BY <2>3, <2>4 DEF S
<1>12. WriteVirt(m, r, a, len, w) = h[n]
  BY <1>2, <1>3
<1>13. PutInv(h[n], m, R, A, B, F) => DOMAIN h[n].m.pages = DOMAIN m.pages
  BY DEF PutInv
<1> QED
  BY <1>9, <1>10, <1>11, <1>12, <1>13 DEF PutInv, HasTables, first, last

(* release: the block under the address goes, with its words.              *)
LEMMA ReleaseStep ==
  ASSUME NEW m, NEW R, NEW F, HasTables(m, R, F), NEW r \in R, NEW v,
         NEW b \in F, Convert(m, r, v) \in PagesOf(b),
         NEW x, x = Release(m, r, v)
  PROVE  /\ HasTables(x, R, F \ {b}) /\ SameWays(m, x, R) /\ x.crashed = m.crashed
         /\ ReleaseOk(m, r, v) /\ KeepsWords(m, x, F \ {b})
<1>1. PICK A, B : Tables(m, R, A, B, F)
  BY DEF HasTables
<1>2. MemOK(m) /\ b \in BlocksOf(m) /\ b.size \in Nat \ {0}
  BY <1>1, BlocksListed DEF Tables
<1>3. Dropped(m, RemoveBlock(m, Convert(m, r, v)), b) /\ BlockLength(m, Convert(m, r, v)) = b.size
  BY <1>2, DropMem
<1>4. x = RemoveBlock(m, Convert(m, r, v)) /\ Dropped(m, x, b)
  BY <1>2, <1>3 DEF Release, ReleaseOk
<1>5. \A p \in R \cup A \cup B : p \notin PagesOf(b)
  BY <1>1, TableInNoOther
<1>6. SameEntries(m, x, R \cup A \cup B)
  BY <1>4, <1>5 DEF Dropped, SameEntries, Entry
<1>7. Tables(x, R, A, B, F \ {b})
  <2>1. BlocksOf(x) = (F \ {b}) \cup TableBlocks(R \cup A \cup B)
    BY <1>1, <1>4 DEF Tables, Dropped, TableBlocks
  <2>2. \A p \in R \cup A \cup B : Block(p, 1) \notin F \ {b} /\ p \in DOMAIN x.pages
    BY <1>1, <1>4, <1>5 DEF Tables, Dropped
  <2> DEFINE G == F \ {b}
  <2> HIDE DEF G
  <2>3. Tables(x, R, A, B, G)
    BY <1>1, <1>4, <1>6, <2>1, <2>2, KeepTables DEF Dropped, G
  <2> QED
    BY <2>3 DEF G
<1>8. SameWays(m, x, R)
  BY <1>1, <1>6, ConvertSame DEF SameWays
<1>9. KeepsWords(m, x, F \ {b})
  <2>1. ASSUME NEW d \in F \ {b}, NEW p \in PagesOf(d) PROVE p \notin PagesOf(b)
    BY <1>1, <1>2, BlocksApart DEF Tables
  <2> QED
    BY <1>4, <2>1 DEF KeepsWords, Dropped
<1>10. ReleaseOk(m, r, v)
  BY <1>2, <1>3 DEF ReleaseOk
<1> QED
  BY <1>4, <1>7, <1>8, <1>9, <1>10 DEF HasTables, Dropped

(* create_root_pt as a whole.                                              *)
RootMade(m, x, a, R, Q, F) ==
  /\ a \in Nat /\ Reserved <= a /\ a + 1 <= MaxRange /\ a \notin R
  /\ HasTables(x, Q, F) /\ SameWays(m, x, R)
  /\ \A w \in VPages : Convert(x, a, w) = 0
  /\ x.cur # 0 /\ x.crashed = m.crashed /\ KeepsWords(m, x, F)

LEMMA NewRootStep ==
  ASSUME NEW m, NEW R, NEW F, HasTables(m, R, F), m.cur # 0, NEW ub,
         NEW a, a = Usable(m, 1), a # 0, NEW x, x = CreateRootPt(m, ub),
         NEW Q, Q = R \cup {a}
  PROVE  RootMade(m, x, a, R, Q, F)
<1>1. PICK A, B : Tables(m, R, A, B, F)
  BY DEF HasTables
<1>2. a \in Nat \ {0} /\ Reserved <= a /\ a + 1 <= MaxRange /\ Taken(m, x, a, 1)
  <2> DEFINE n == 1
  <2>1. n \in Nat \ {0} /\ Usable(m, n) # 0 /\ a = Usable(m, n) /\ MemOK(m)
        /\ x = InsertBlock(m, a, n, ub)
    BY <1>1 DEF Tables, CreateRootPt
  <2> HIDE DEF n
  <2>2. a \in Nat /\ Reserved <= a /\ a + n <= MaxRange /\ Taken(m, x, a, n)
    BY <2>1, TakeMem
  <2> QED
    BY <2>2 DEF n
<1>3. Tables(x, Q, A, B, F) /\ a \notin R \cup A \cup B /\ NoEntries(x, a) /\ a \in Q
  BY <1>1, <1>2, NewRootTable
<1>4. SameWays(m, x, R)
  <2>1. Fresh(m, x, a, 1, R \cup A \cup B)
    <3>1. 1 \in Nat \ {0} /\ a \in Nat
      BY <1>2
    <3> QED
      BY <1>1, <1>2, <3>1, FreshTable
  <2>2. SameEntries(m, x, R \cup A \cup B)
    BY <2>1 DEF Fresh
  <2> QED
    BY ONLY <1>1, <2>2, ConvertSame DEF SameWays
<1>5. ASSUME NEW w \in VPages PROVE Convert(x, a, w) = 0
  <2>1. VAextract(w, 0) \in Offsets
    BY Indexes
  <2>2. ~Mapped(x, a, w)
    BY <1>3, <2>1 DEF Mapped, HasLeaf, HasMid, NoEntries
  <2> QED
    BY <1>3, <2>2, WayFacts
<1> QED
  BY <1>2, <1>3, <1>4, <1>5 DEF HasTables, Taken, KeepsWords, RootMade

-----------------------------------------------------------------------------
(* Cleaning: a table without an entry goes, and the entry that leads to it *)
(* is cleared.                                                             *)
Unlinked(m, x, p, i, t) ==
  /\ MemOK(x) /\ x.crashed = m.crashed
  /\ BlocksOf(x) = BlocksOf(m) \ {Block(t, 1)}
  /\ DOMAIN x.pages = DOMAIN m.pages \ {t}
  /\ \A q \in DOMAIN x.pages : q # p => x.pages[q] = m.pages[q]
  /\ \A q, j : j \in Offsets =>
       Entry(x, q, j) = IF q = p /\ j = i THEN 0 ELSE Entry(m, q, j)

LEMMA UnlinkTable ==
  ASSUME NEW m, MemOK(m), NEW t \in Nat, Block(t, 1) \in BlocksOf(m), NoEntries(m, t),
         NEW p \in DOMAIN m.pages, p # t, NEW i \in Offsets
  PROVE  Unlinked(m, WriteData(RemoveBlock(m, t), p, {i}, 0), p, i, t)
<1> DEFINE y == RemoveBlock(m, t)
           x == WriteData(y, p, {i}, 0)
<1>1. PagesOf(Block(t, 1)) = {t} /\ t \in PagesOf(Block(t, 1))
  BY OnePage
<1>2. Dropped(m, y, Block(t, 1))
  BY <1>1, DropMem
<1> HIDE DEF y
<1>3. p \in DOMAIN y.pages /\ MemOK(y)
  BY <1>1, <1>2 DEF Dropped
<1>4. Written(y, x, p, {i}, 0)
  <2>1. 0 \in Nat
    OBVIOUS
  <2> QED
    BY <1>3, <2>1, WriteMem
<1> HIDE DEF x
<1>5. \A q, j : j \in Offsets => Entry(y, q, j) = Entry(m, q, j)
  <2> SUFFICES ASSUME NEW q, NEW j \in Offsets PROVE Entry(y, q, j) = Entry(m, q, j)
    OBVIOUS
  <2>1. Entry(y, q, j) = IF q \in PagesOf(Block(t, 1)) THEN 0 ELSE Entry(m, q, j)
    BY <1>2 DEF Dropped, Entry
  <2>2. q \in PagesOf(Block(t, 1)) => Entry(m, q, j) = 0
    BY <1>1 DEF NoEntries
  <2> QED
    BY <2>1, <2>2
<1>6. \A q, j : j \in Offsets =>
        Entry(x, q, j) = IF q = p /\ j = i THEN 0 ELSE Entry(y, q, j)
  BY <1>4 DEF Written, Entry
<1>7. \A q \in DOMAIN x.pages : q # p => x.pages[q] = m.pages[q]
  BY <1>2, <1>4 DEF Written, Dropped
<1>8. BlocksOf(x) = BlocksOf(m) \ {Block(t, 1)} /\ DOMAIN x.pages = DOMAIN m.pages \ {t}
      /\ MemOK(x) /\ x.crashed = m.crashed
  BY <1>1, <1>2, <1>4 DEF Written, Dropped
<1>9. Unlinked(m, x, p, i, t)
  BY <1>5, <1>6, <1>7, <1>8 DEF Unlinked
<1> QED
  BY <1>9 DEF x, y

Shrunk(m, x, R, F) ==
  HasTables(x, R, F) /\ x.crashed = m.crashed /\ SameWays(m, x, R)

LEMMA ShrunkOn ==
  ASSUME NEW m, NEW x, NEW y, NEW R, NEW F, Shrunk(m, x, R, F), Shrunk(x, y, R, F)
  PROVE  Shrunk(m, y, R, F)
BY DEF Shrunk, SameWays

(* What both cases share: which entries differ, and what else is left.     *)
LEMMA UnlinkSameBut ==
  ASSUME NEW m, NEW x, NEW p, NEW i \in Offsets, NEW t,
         NextTable(m, p, i) = t, NoEntries(m, t), Unlinked(m, x, p, i, t), NEW X
  PROVE  SameBut(m, x, X) /\ (p \notin X => SameEntries(m, x, X))
<1>1. \A q, j : j \in Offsets /\ (q # p \/ j # i) => Entry(x, q, j) = Entry(m, q, j)
  BY DEF Unlinked
<1>2. Bare(m, p, i) /\ Bare(x, p, i)
  BY DEF Bare, Unlinked
<1> QED
  BY <1>1, <1>2 DEF SameBut, SameEntries

LostTable(x, S, t, F) ==
  /\ BlocksOf(x) = F \cup TableBlocks(S \ {t})
  /\ \A q \in S \ {t} : q \in DOMAIN x.pages

LEMMA UnlinkBlocks ==
  ASSUME NEW m, NEW R, NEW A, NEW B, NEW F, Tables(m, R, A, B, F),
         NEW t \in R \cup A \cup B, NEW x, NEW p, NEW i, Unlinked(m, x, p, i, t)
  PROVE  LostTable(x, R \cup A \cup B, t, F)
<1>1. BlocksOf(x) = (F \cup TableBlocks(R \cup A \cup B)) \ {Block(t, 1)}
  BY DEF Tables, Unlinked
<1>2. Block(t, 1) \notin F
  BY DEF Tables
<1>3. \A q : Block(q, 1) = Block(t, 1) => q = t
  BY TableBlockIs
<1>4. BlocksOf(x) = F \cup TableBlocks((R \cup A \cup B) \ {t})
  BY <1>1, <1>2, <1>3 DEF TableBlocks
<1> QED
  BY <1>4 DEF Tables, Unlinked, LostTable

LEMMA UnlinkLeaf ==
  ASSUME NEW m, NEW R, NEW A, NEW B, NEW F, Tables(m, R, A, B, F),
         NEW p \in A, NEW i \in Offsets, Entry(m, p, i) # 0, NEW t, NextTable(m, p, i) = t,
         NoEntries(m, t), NEW x, Unlinked(m, x, p, i, t)
  PROVE  Tables(x, R, A, B \ {t}, F) /\ SameWays(m, x, R)
<1>1. t \in B
  BY DEF Tables, Leads
<1>2. p \notin R /\ p \notin B
  BY DEF Tables
<1>3. \A X : SameBut(m, x, X) /\ (p \notin X => SameEntries(m, x, X))
  BY UnlinkSameBut
<1>4. Leads(x, R, A)
  BY <1>2, <1>3, LeadsSame DEF Tables
<1>5. Leads(x, A, B \ {t})
  <2>1. Leads(m, A, B)
    BY DEF Tables
  <2>2. \A q \in A, j \in Offsets :
          Entry(x, q, j) = IF q = p /\ j = i THEN 0 ELSE Entry(m, q, j)
    BY DEF Unlinked
  <2>3. Leads(x, A, B \ {NextTable(m, p, i)})
    BY <2>1, <2>2, LeadsCut
  <2> QED
    BY <2>3
<1>6. Ends(x, B \ {t})
  <2>1. SameEntries(m, x, B)
    BY <1>2, <1>3
  <2> QED
    BY <2>1 DEF Tables, Ends, SameEntries, NextTable
<1>7. /\ BlocksOf(x) = F \cup TableBlocks((R \cup A \cup B) \ {t})
      /\ \A q \in (R \cup A \cup B) \ {t} : q \in DOMAIN x.pages
  <2>1. t \in R \cup A \cup B
    BY <1>1
  <2>2. LostTable(x, R \cup A \cup B, t, F)
    BY <2>1, UnlinkBlocks
  <2> QED
    BY <2>2 DEF LostTable
<1>8. (R \cup A \cup B) \ {t} = R \cup A \cup (B \ {t})
  BY <1>1 DEF Tables
<1>9. Tables(x, R, A, B \ {t}, F)
  BY <1>4, <1>5, <1>6, <1>7, <1>8 DEF Tables, Unlinked
<1>10. SameWays(m, x, R)
  <2>1. SameBut(m, x, R) /\ SameBut(m, x, A \cap A) /\ SameEntries(m, x, B \cap (B \ {t}))
    <3>1. p \notin B \cap (B \ {t})
      BY <1>2
    <3> QED
      BY <1>3, <3>1
  <2> QED
    BY <1>9, <2>1, SameWaysBut, R \subseteq R
<1> QED
  BY <1>9, <1>10

LEMMA UnlinkMiddle ==
  ASSUME NEW m, NEW R, NEW A, NEW B, NEW F, Tables(m, R, A, B, F),
         NEW p \in R, NEW i \in Offsets, Entry(m, p, i) # 0, NEW t, NextTable(m, p, i) = t,
         NoEntries(m, t), NEW x, Unlinked(m, x, p, i, t)
  PROVE  Tables(x, R, A \ {t}, B, F) /\ SameWays(m, x, R)
<1>1. t \in A
  BY DEF Tables, Leads
<1>2. p \notin A /\ p \notin B
  BY DEF Tables
<1>3. \A X : SameBut(m, x, X) /\ (p \notin X => SameEntries(m, x, X))
  BY UnlinkSameBut
<1>4. Leads(x, R, A \ {t})
  <2>1. Leads(m, R, A)
    BY DEF Tables
  <2>2. \A q \in R, j \in Offsets :
          Entry(x, q, j) = IF q = p /\ j = i THEN 0 ELSE Entry(m, q, j)
    BY DEF Unlinked
  <2>3. Leads(x, R, A \ {NextTable(m, p, i)})
    BY <2>1, <2>2, LeadsCut
  <2> QED
    BY <2>3
<1>5. Leads(x, A \ {t}, B)
  <2>1. SameEntries(m, x, A)
    BY <1>2, <1>3
  <2> DEFINE Z == A \ {t}
  <2>2. /\ \A q \in Z \cap A : \A j \in Offsets : Entry(x, q, j) = Entry(m, q, j)
        /\ \A q \in Z \ A : NoEntries(x, q)
        /\ \A q \in A \ Z : NoEntries(m, q)
    BY <2>1 DEF SameEntries
  <2> HIDE DEF Z
  <2>3. Leads(x, Z, B)
    BY <2>2, LeadsGrow DEF Tables
  <2> QED
    BY <2>3 DEF Z
<1>6. Ends(x, B)
  <2>1. SameEntries(m, x, B)
    BY <1>2, <1>3
  <2> QED
    BY <2>1 DEF Tables, Ends, SameEntries, NextTable
<1>7. /\ BlocksOf(x) = F \cup TableBlocks((R \cup A \cup B) \ {t})
      /\ \A q \in (R \cup A \cup B) \ {t} : q \in DOMAIN x.pages
  <2>1. t \in R \cup A \cup B
    BY <1>1
  <2>2. LostTable(x, R \cup A \cup B, t, F)
    BY <2>1, UnlinkBlocks
  <2> QED
    BY <2>2 DEF LostTable
<1>8. (R \cup A \cup B) \ {t} = R \cup (A \ {t}) \cup B
  BY <1>1 DEF Tables
<1>9. Tables(x, R, A \ {t}, B, F)
  BY <1>4, <1>5, <1>6, <1>7, <1>8 DEF Tables, Unlinked
<1>10. SameWays(m, x, R)
  <2>1. SameBut(m, x, R) /\ SameBut(m, x, A \cap (A \ {t})) /\ SameEntries(m, x, B \cap B)
    <3>1. p \notin B \cap B
      BY <1>2
    <3> QED
      BY <1>3, <3>1
  <2> QED
    BY <1>9, <2>1, SameWaysBut, R \subseteq R
<1> QED
  BY <1>9, <1>10

(* clean_pt, one middle table: which of its entries are left after k.      *)
MiddleInv(s, k, m, R, A, F, t1) ==
  /\ s = [m |-> s.m, empty |-> s.empty]
  /\ \E B : Tables(s.m, R, A, B, F)
  /\ s.m.crashed = m.crashed /\ SameWays(m, s.m, R) /\ SameEntries(m, s.m, R)
  /\ s.empty => \A j \in 0 .. k - 1 : Entry(s.m, t1, j) = 0

LEMMA CleanMiddleStep ==
  ASSUME NEW s, NEW k \in Offsets, NEW m, NEW R, NEW A, NEW F, NEW t1 \in A,
         MiddleInv(s, k, m, R, A, F, t1), NEW x, x = CleanMiddle(s, t1, k)
  PROVE  MiddleInv(x, k + 1, m, R, A, F, t1)
<1> DEFINE t2 == NextTable(s.m, t1, k)
           new == WriteData(RemoveBlock(s.m, t2), t1, {k}, 0)
<1>1. PICK B : Tables(s.m, R, A, B, F)
  BY DEF MiddleInv
<1>2. x = IF ~IsValid(Entry(s.m, t1, k)) THEN s
          ELSE IF \E j \in Offsets : IsValid(Entry(s.m, t2, j)) THEN [s EXCEPT !.empty = FALSE]
          ELSE [s EXCEPT !.m = new]
  BY DEF CleanMiddle
<1>3. k \in Nat /\ \A j \in 0 .. (k + 1) - 1 : j = k \/ j \in 0 .. k - 1
  BY DEF Offsets
<1> HIDE DEF t2, new
<1>4. CASE ~IsValid(Entry(s.m, t1, k))
  <2>1. Entry(s.m, t1, k) = 0
    BY <1>1, <1>4 DEF Tables, Leads
  <2>2. x = s
    BY <1>2, <1>4
  <2>3. s.empty => \A j \in 0 .. (k + 1) - 1 : Entry(s.m, t1, j) = 0
    BY <1>3, <2>1 DEF MiddleInv
  <2> QED
    BY <2>2, <2>3 DEF MiddleInv
<1>5. CASE IsValid(Entry(s.m, t1, k)) /\ \E j \in Offsets : IsValid(Entry(s.m, t2, j))
  <2>1. x = [m |-> s.m, empty |-> FALSE]
    BY <1>2, <1>5 DEF MiddleInv
  <2> QED
    BY <2>1 DEF MiddleInv
<1>6. CASE IsValid(Entry(s.m, t1, k)) /\ ~\E j \in Offsets : IsValid(Entry(s.m, t2, j))
  <2>1. x = [m |-> new, empty |-> s.empty]
    BY <1>2, <1>6 DEF MiddleInv
  <2>2. Entry(s.m, t1, k) # 0
    BY <1>6, EntryFacts
  <2>3. t2 \in B /\ NextTable(s.m, t1, k) = t2
    BY <1>1, <2>2 DEF t2, Tables, Leads
  <2>4. NoEntries(s.m, t2)
    BY <1>1, <1>6, <2>3 DEF NoEntries, Tables, Ends
  <2>5. Unlinked(s.m, new, t1, k, t2)
    <3>1. MemOK(s.m) /\ t2 \in Nat /\ Block(t2, 1) \in BlocksOf(s.m)
          /\ t1 \in DOMAIN s.m.pages /\ t1 # t2
      BY <1>1, <2>3 DEF Tables, TableBlocks
    <3> QED
      BY <2>4, <3>1, UnlinkTable DEF new
  <2>6. Tables(new, R, A, B \ {t2}, F) /\ SameWays(s.m, new, R)
    BY <1>1, <2>2, <2>3, <2>4, <2>5, UnlinkLeaf
  <2>7. new.crashed = m.crashed
    BY <2>5 DEF Unlinked, MiddleInv
  <2>8. SameWays(m, new, R)
    BY <2>6 DEF SameWays, MiddleInv
  <2>9. SameEntries(m, new, R)
    <3>1. t1 \notin R
      BY <1>1 DEF Tables
    <3> QED
      BY <2>5, <3>1 DEF SameEntries, Unlinked, MiddleInv
  <2>10. s.empty => \A j \in 0 .. (k + 1) - 1 : Entry(new, t1, j) = 0
    <3>1. \A j \in Offsets : Entry(new, t1, j) = IF j = k THEN 0 ELSE Entry(s.m, t1, j)
      BY <2>5 DEF Unlinked
    <3>2. \A j \in 0 .. (k + 1) - 1 : j \in Offsets
      BY PhysicalAssumption DEF Offsets
    <3> QED
      BY <1>3, <3>1, <3>2 DEF MiddleInv
  <2> QED
    BY <2>1, <2>6, <2>7, <2>8, <2>9, <2>10 DEF MiddleInv
<1> QED
  BY <1>4, <1>5, <1>6

LEMMA CleanMiddlesInv ==
  ASSUME NEW m, NEW R, NEW A, NEW B, NEW F, Tables(m, R, A, B, F), NEW t1 \in A,
         NEW s, s = CleanMiddles([m |-> m, empty |-> TRUE], t1)
  PROVE  MiddleInv(s, PageElem, m, R, A, F, t1)
<1> DEFINE start == [m |-> m, empty |-> TRUE]
<1>1. PICK h : /\ h[0] = start /\ CleanMiddles(start, t1) = h[PageElem]
               /\ \A k \in 1 .. PageElem : h[k] = CleanMiddle(h[k - 1], t1, k - 1)
  <2> HIDE DEF start
  <2> QED
    BY CleanMiddlesChain
<1> DEFINE T == {k \in 0 .. PageElem : MiddleInv(h[k], k, m, R, A, F, t1)}
<1>2. 0 \in T
  <2>1. h[0].m = m /\ h[0] = [m |-> h[0].m, empty |-> h[0].empty]
    BY <1>1
  <2> QED
    BY <2>1, PhysicalAssumption DEF MiddleInv, SameWays, SameEntries
<1>3. ASSUME NEW k \in 1 .. PageElem, k - 1 \in T PROVE k \in T
  <2> DEFINE j == k - 1
  <2>1. j \in Offsets /\ j + 1 = k
    BY PhysicalAssumption DEF Offsets
  <2>2. MiddleInv(h[j], j, m, R, A, F, t1) /\ h[k] = CleanMiddle(h[j], t1, j)
    BY <1>1, <1>3
  <2> HIDE DEF j, T
  <2>3. MiddleInv(h[k], j + 1, m, R, A, F, t1)
    BY <2>1, <2>2, CleanMiddleStep
  <2> QED
    BY <2>1, <2>3, PhysicalAssumption DEF T
<1> HIDE DEF T
<1>4. PageElem \in T
  <2>1. PageElem \in Nat
    BY PhysicalAssumption
  <2>2. \A k \in 0 .. PageElem : k \in T
    BY <1>2, <1>3, <2>1, StepInduction
  <2> QED
    BY <2>1, <2>2
<1> QED
  BY <1>1, <1>4 DEF T

LEMMA CleanEntryStep ==
  ASSUME NEW m, NEW R, NEW F, HasTables(m, R, F), NEW r \in R, NEW i \in Offsets,
         NEW x, x = CleanEntry(m, r, i)
  PROVE  Shrunk(m, x, R, F)
<1> DEFINE t1 == NextTable(m, r, i)
           s == CleanMiddles([m |-> m, empty |-> TRUE], t1)
           new == WriteData(RemoveBlock(s.m, t1), r, {i}, 0)
<1>1. PICK A, B : Tables(m, R, A, B, F)
  BY DEF HasTables
<1>2. x = IF ~IsValid(Entry(m, r, i)) THEN m ELSE IF s.empty THEN new ELSE s.m
  BY DEF CleanEntry, CleanMiddles
<1> HIDE DEF t1, s, new
<1>3. CASE ~IsValid(Entry(m, r, i))
  BY <1>2, <1>3 DEF Shrunk, SameWays
<1>4. CASE IsValid(Entry(m, r, i))
  <2>1. Entry(m, r, i) # 0
    BY <1>4, EntryFacts
  <2>2. t1 \in A
    BY <1>1, <2>1 DEF t1, Tables, Leads
  <2>3. MiddleInv(s, PageElem, m, R, A, F, t1)
    BY <1>1, <2>2, CleanMiddlesInv DEF s
  <2>4. PICK C : Tables(s.m, R, A, C, F)
    BY <2>3 DEF MiddleInv
  <2>5. CASE ~s.empty
    <3>1. x = s.m
      BY <1>2, <1>4, <2>5
    <3> QED
      BY <2>3, <2>4, <3>1 DEF Shrunk, HasTables, MiddleInv
  <2>6. CASE s.empty
    <3>1. x = new
      BY <1>2, <1>4, <2>6
    <3>2. NoEntries(s.m, t1)
      BY <2>3, <2>6 DEF MiddleInv, NoEntries, Offsets
    <3>3. Entry(s.m, r, i) # 0 /\ NextTable(s.m, r, i) = t1
      BY <2>1, <2>3 DEF MiddleInv, SameEntries, NextTable, t1
    <3>4. Unlinked(s.m, new, r, i, t1)
      <4>1. MemOK(s.m) /\ t1 \in Nat /\ Block(t1, 1) \in BlocksOf(s.m)
            /\ r \in DOMAIN s.m.pages /\ r # t1
        BY <2>2, <2>4 DEF Tables, TableBlocks
      <4> QED
        BY <3>2, <4>1, UnlinkTable DEF new
    <3>5. Tables(new, R, A \ {t1}, C, F) /\ SameWays(s.m, new, R)
      BY <2>4, <3>2, <3>3, <3>4, UnlinkMiddle
    <3>6. new.crashed = m.crashed
      BY <2>3, <3>4 DEF Unlinked, MiddleInv
    <3>7. SameWays(m, new, R)
      BY <2>3, <3>5 DEF SameWays, MiddleInv
    <3> QED
      BY <3>1, <3>5, <3>6, <3>7 DEF Shrunk, HasTables
  <2> QED
    BY <2>5, <2>6
<1> QED
  BY <1>3, <1>4

(* clean_pt as a whole.                                                    *)
LEMMA CleanPtStep ==
  ASSUME NEW m, NEW R, NEW F, HasTables(m, R, F), NEW r \in R, NEW x, x = CleanPt(m, r)
  PROVE  Shrunk(m, x, R, F)
<1>1. PICK h : /\ h[0] = m /\ CleanPt(m, r) = h[PageElem]
               /\ \A k \in 1 .. PageElem : h[k] = CleanEntry(h[k - 1], r, k - 1)
  BY CleanPtChain
<1> DEFINE T == {k \in 0 .. PageElem : Shrunk(m, h[k], R, F)}
<1>2. 0 \in T
  BY <1>1, PhysicalAssumption DEF Shrunk, SameWays
<1>3. ASSUME NEW k \in 1 .. PageElem, k - 1 \in T PROVE k \in T
  <2> DEFINE j == k - 1
  <2>1. j \in Offsets /\ h[k] = CleanEntry(h[j], r, j) /\ Shrunk(m, h[j], R, F)
    BY <1>1, <1>3, PhysicalAssumption DEF Offsets
  <2> HIDE DEF j, T
  <2>2. HasTables(h[j], R, F)
    BY <2>1 DEF Shrunk
  <2>3. Shrunk(h[j], h[k], R, F)
    BY <2>1, <2>2, CleanEntryStep
  <2>4. Shrunk(m, h[k], R, F)
    BY <2>1, <2>3, ShrunkOn
  <2> QED
    BY <2>4, PhysicalAssumption DEF T
<1> HIDE DEF T
<1>4. PageElem \in T
  <2>1. PageElem \in Nat
    BY PhysicalAssumption
  <2>2. \A k \in 0 .. PageElem : k \in T
    BY <1>2, <1>3, <2>1, StepInduction
  <2> QED
    BY <2>1, <2>2
<1> QED
  BY <1>1, <1>4 DEF T

-----------------------------------------------------------------------------
(* clean_task: blocks go one after the other; Z are the pages under which  *)
(* a block was removed so far.                                             *)
Held(m, Z) == {b \in BlocksOf(m) : \E p \in Z : p \in PagesOf(b)}
Gone(m, Z, p) == \E b \in Held(m, Z) : p \in PagesOf(b)
Erased(m, x, Z) ==
  /\ MemOK(x) /\ x.crashed = m.crashed
  /\ BlocksOf(x) = BlocksOf(m) \ Held(m, Z)
  /\ \A p : p \in DOMAIN x.pages <=> p \in DOMAIN m.pages /\ ~Gone(m, Z, p)
  /\ \A p, i : ReadWord(x, p, i) = IF Gone(m, Z, p) THEN 0 ELSE ReadWord(m, p, i)

LEMMA EraseNothing ==
  ASSUME NEW m, MemOK(m)
  PROVE  Erased(m, m, {})
BY DEF Erased, Held, Gone

LEMMA EraseOne ==
  ASSUME NEW m, MemOK(m), NEW Z, NEW x, Erased(m, x, Z), NEW p
  PROVE  Erased(m, RemoveBlock(x, p), Z \cup {p})
<1> DEFINE y == RemoveBlock(x, p)
<1>1. CASE \A b \in BlocksOf(x) : p \notin PagesOf(b)
  <2>1. y = x
    BY <1>1, DropNothing DEF Erased
  <2>2. Held(m, Z \cup {p}) = Held(m, Z)
    BY <1>1 DEF Held, Erased
  <2>3. \A q : Gone(m, Z \cup {p}, q) <=> Gone(m, Z, q)
    BY <2>2 DEF Gone
  <2> QED
    BY <2>1, <2>2, <2>3 DEF Erased
<1>2. ASSUME NEW b \in BlocksOf(x), p \in PagesOf(b)
      PROVE  Erased(m, y, Z \cup {p})
  <2>1. Dropped(x, y, b)
    BY <1>2, DropMem DEF Erased
  <2>2. b \in BlocksOf(m) /\ b \notin Held(m, Z)
    BY DEF Erased
  <2>3. Held(m, Z \cup {p}) = Held(m, Z) \cup {b}
    <3>1. ASSUME NEW c \in BlocksOf(m), p \in PagesOf(c) PROVE c = b
      BY <1>2, <2>2, <3>1, BlocksApart
    <3> QED
      BY <1>2, <2>2, <3>1 DEF Held
  <2>4. \A q : Gone(m, Z \cup {p}, q) <=> Gone(m, Z, q) \/ q \in PagesOf(b)
    BY <2>3 DEF Gone
  <2> HIDE DEF y
  <2>5. BlocksOf(y) = BlocksOf(m) \ Held(m, Z \cup {p})
    BY <2>1, <2>3 DEF Dropped, Erased
  <2>6. \A q : q \in DOMAIN y.pages <=> q \in DOMAIN m.pages /\ ~Gone(m, Z \cup {p}, q)
    BY <2>1, <2>4 DEF Dropped, Erased
  <2>7. \A q, i : ReadWord(y, q, i) = IF Gone(m, Z \cup {p}, q) THEN 0 ELSE ReadWord(m, q, i)
    BY <2>1, <2>4 DEF Dropped, Erased
  <2>8. MemOK(y) /\ y.crashed = m.crashed
    BY <2>1 DEF Dropped, Erased
  <2> QED
    BY <2>5, <2>6, <2>7, <2>8 DEF Erased
<1> QED
  BY <1>1, <1>2

(* A table stays, with its entries, until its own page is named.           *)
LEMMA TableStays ==
  ASSUME NEW m, NEW R, NEW A, NEW B, NEW F, Tables(m, R, A, B, F), NEW Z, NEW x,
         Erased(m, x, Z), NEW t \in R \cup A \cup B, t \notin Z
  PROVE  /\ ~Gone(m, Z, t)
         /\ \A i : Entry(x, t, i) = Entry(m, t, i) /\ NextTable(x, t, i) = NextTable(m, t, i)
<1>1. MemOK(m) /\ t \in Nat /\ Block(t, 1) \in BlocksOf(m)
  BY DEF Tables, TableBlocks
<1>2. PagesOf(Block(t, 1)) = {t} /\ t \in PagesOf(Block(t, 1))
  BY <1>1, OnePage
<1>3. ~Gone(m, Z, t)
  <2> SUFFICES ASSUME NEW b \in Held(m, Z), t \in PagesOf(b) PROVE FALSE
    BY DEF Gone
  <2>1. b = Block(t, 1)
    BY <1>1, <1>2, BlocksApart DEF Held
  <2> QED
    BY <1>2, <2>1 DEF Held
<1> QED
  BY <1>3 DEF Erased, Entry, NextTable

(* The pages the valid entries of a table lead to, and those of its first  *)
(* k entries; a table with all that is reached through it.                 *)
NextUpTo(m, t, k) == {NextTable(m, t, i) : i \in {j \in 0 .. k - 1 : Entry(m, t, j) # 0}}
NextOf(m, t) == NextUpTo(m, t, PageElem)
Leaf(m, t2) == {t2} \cup NextOf(m, t2)
LeavesUpTo(m, t1, k) == UNION {Leaf(m, t) : t \in NextUpTo(m, t1, k)}
Branch(m, t1) == {t1} \cup LeavesUpTo(m, t1, PageElem)
BranchesUpTo(m, r, k) == UNION {Branch(m, t) : t \in NextUpTo(m, r, k)}
Tree(m, r) == {r} \cup BranchesUpTo(m, r, PageElem)

LEMMA UpToNext ==
  ASSUME NEW m, NEW t, NEW k \in Nat
  PROVE  /\ NextUpTo(m, t, 0) = {}
         /\ Entry(m, t, k) = 0 => NextUpTo(m, t, k + 1) = NextUpTo(m, t, k)
         /\ Entry(m, t, k) # 0 =>
              NextUpTo(m, t, k + 1) = NextUpTo(m, t, k) \cup {NextTable(m, t, k)}
<1>1. \A j : j \in 0 .. (k + 1) - 1 <=> j \in 0 .. k - 1 \/ j = k
  OBVIOUS
<1>2. 0 .. 0 - 1 = {}
  OBVIOUS
<1>3. NextUpTo(m, t, 0) = {}
  BY <1>2 DEF NextUpTo
<1> QED
  BY <1>1, <1>3 DEF NextUpTo

LEMMA UpToWhole ==
  ASSUME NEW m, NEW t, NEW p
  PROVE  p \in NextOf(m, t) <=> \E i \in Offsets : Entry(m, t, i) # 0 /\ p = NextTable(m, t, i)
BY DEF NextOf, NextUpTo, Offsets

LEMMA UpToPart ==
  ASSUME NEW m, NEW t, NEW k \in Offsets
  PROVE  /\ NextUpTo(m, t, k) \subseteq NextOf(m, t)
         /\ \A p \in NextUpTo(m, t, k) :
              \E i \in Offsets : i # k /\ Entry(m, t, i) # 0 /\ p = NextTable(m, t, i)
         /\ Entry(m, t, k) # 0 => NextTable(m, t, k) \in NextOf(m, t)
<1>1. \A i \in 0 .. k - 1 : i \in 0 .. PageElem - 1 /\ i # k
  BY PhysicalAssumption DEF Offsets
<1> QED
  BY <1>1 DEF NextOf, NextUpTo, Offsets

(* The last level.                                                         *)
LEMMA DropLeavesErase ==
  ASSUME NEW m, NEW R, NEW A, NEW B, NEW F, Tables(m, R, A, B, F), NEW t \in B,
         t \notin NextOf(m, t), NEW Z, t \notin Z, NEW x, Erased(m, x, Z)
  PROVE  Erased(m, DropLeaves(x, t), Z \cup NextOf(m, t))
<1>1. PICK h : /\ h[0] = x /\ DropLeaves(x, t) = h[PageElem]
               /\ \A k \in 1 .. PageElem : h[k] = DropLeaf(h[k - 1], t, k - 1)
  BY DropLeavesChain
<1> DEFINE T == {k \in 0 .. PageElem : Erased(m, h[k], Z \cup NextUpTo(m, t, k))}
<1>2. 0 \in T
  <2>1. Z \cup NextUpTo(m, t, 0) = Z
    BY UpToNext, 0 \in Nat
  <2> QED
    BY <1>1, <2>1, PhysicalAssumption
<1>3. ASSUME NEW k \in 1 .. PageElem, k - 1 \in T PROVE k \in T
  <2> DEFINE j == k - 1
             Y == Z \cup NextUpTo(m, t, j)
             y == h[j]
  <2>1. j \in Offsets /\ j \in Nat /\ j + 1 = k /\ h[k] = DropLeaf(y, t, j) /\ Erased(m, y, Y)
        /\ k \in 0 .. PageElem
    BY <1>1, <1>3, PhysicalAssumption DEF Offsets
  <2> HIDE DEF j, y
  <2>2. t \notin Y /\ t \in R \cup A \cup B /\ MemOK(m)
    BY <2>1, UpToPart DEF Tables
  <2>3. Z \cup NextUpTo(m, t, k) = IF Entry(m, t, j) # 0 THEN Y \cup {NextTable(m, t, j)} ELSE Y
    BY <2>1, UpToNext
  <2> HIDE DEF Y, T
  <2>4. Entry(y, t, j) = Entry(m, t, j) /\ NextTable(y, t, j) = NextTable(m, t, j)
    BY <2>1, <2>2, TableStays
  <2>5. IsValid(Entry(m, t, j)) <=> Entry(m, t, j) # 0
    BY <2>1, EntryFacts DEF Tables, Ends
  <2>6. h[k] = IF Entry(m, t, j) # 0 THEN RemoveBlock(y, NextTable(m, t, j)) ELSE y
    BY <2>1, <2>4, <2>5 DEF DropLeaf
  <2>7. Erased(m, h[k], Z \cup NextUpTo(m, t, k))
    BY <2>1, <2>2, <2>3, <2>6, EraseOne
  <2> QED
    BY <2>1, <2>7 DEF T
<1> HIDE DEF T
<1>4. PageElem \in T
  <2>1. PageElem \in Nat
    BY PhysicalAssumption
  <2>2. \A k \in 0 .. PageElem : k \in T
    BY <1>2, <1>3, <2>1, StepInduction
  <2> QED
    BY <2>1, <2>2
<1> QED
  BY <1>1, <1>4 DEF T, NextOf

LEMMA LeadsApart ==
  ASSUME NEW m, NEW X, NEW Y, Leads(m, X, Y), NEW p \in X, NEW q \in X,
         NEW i \in Offsets, NEW j \in Offsets, Entry(m, p, i) # 0, Entry(m, q, j) # 0,
         NextTable(m, p, i) = NextTable(m, q, j)
  PROVE  p = q /\ i = j
BY DEF Leads

(* The pages that last-level tables lead to are no tables.                 *)
LeavesOut(m, R, A, B, t1) ==
  \A t \in NextOf(m, t1) : \A p \in NextOf(m, t) : p \notin R \cup A \cup B

(* The middle level.                                                       *)
LEMMA DropMiddleErase ==
  ASSUME NEW m, NEW R, NEW A, NEW B, NEW F, Tables(m, R, A, B, F), NEW t1 \in A,
         LeavesOut(m, R, A, B, t1),
         NEW Z, t1 \notin Z, \A t \in NextOf(m, t1) : t \notin Z, NEW x, Erased(m, x, Z)
  PROVE  Erased(m, DropMiddle(x, t1), Z \cup LeavesUpTo(m, t1, PageElem))
<1>1. PICK h : /\ h[0] = x /\ DropMiddle(x, t1) = h[PageElem]
               /\ \A k \in 1 .. PageElem : h[k] = DropTable(h[k - 1], t1, k - 1)
  BY DropMiddleChain
<1>2. \A t \in NextOf(m, t1) : t \in B
  BY UpToWhole DEF Tables, Leads
<1> DEFINE T == {k \in 0 .. PageElem : Erased(m, h[k], Z \cup LeavesUpTo(m, t1, k))}
<1>3. 0 \in T
  <2>1. LeavesUpTo(m, t1, 0) = {}
    BY UpToNext, 0 \in Nat DEF LeavesUpTo
  <2>2. Z \cup LeavesUpTo(m, t1, 0) = Z
    BY <2>1
  <2> QED
    BY <1>1, <2>2, PhysicalAssumption
<1>4. ASSUME NEW k \in 1 .. PageElem, k - 1 \in T PROVE k \in T
  <2> DEFINE j == k - 1
             Y == Z \cup LeavesUpTo(m, t1, j)
             y == h[j]
             t2 == NextTable(m, t1, j)
  <2>1. j \in Offsets /\ j \in Nat /\ j + 1 = k /\ h[k] = DropTable(y, t1, j) /\ Erased(m, y, Y)
        /\ k \in 0 .. PageElem
    BY <1>1, <1>4, PhysicalAssumption DEF Offsets
  <2> HIDE DEF j, y, T, t2
  <2>2. \A t \in NextUpTo(m, t1, j) : t \in NextOf(m, t1)
    BY <2>1, UpToPart
  <2>3. t1 \in R \cup A \cup B /\ MemOK(m) /\ t1 \notin B
    BY DEF Tables
  <2>4. t1 \notin Y
    BY <1>2, <2>2, <2>3 DEF LeavesUpTo, Leaf, LeavesOut
  <2>5. Z \cup LeavesUpTo(m, t1, k) = IF Entry(m, t1, j) # 0 THEN Y \cup Leaf(m, t2) ELSE Y
    BY <2>1, UpToNext DEF LeavesUpTo, t2
  <2> HIDE DEF Y
  <2>6. Entry(y, t1, j) = Entry(m, t1, j) /\ NextTable(y, t1, j) = t2
    BY <2>1, <2>3, <2>4, TableStays DEF t2
  <2>7. IsValid(Entry(m, t1, j)) <=> Entry(m, t1, j) # 0
    BY <2>1, EntryFacts DEF Tables, Leads
  <2>8. h[k] = IF Entry(m, t1, j) # 0 THEN RemoveBlock(DropLeaves(y, t2), t2) ELSE y
    BY <2>1, <2>6, <2>7 DEF DropTable
  <2>9. ASSUME Entry(m, t1, j) # 0
        PROVE  Erased(m, h[k], Y \cup Leaf(m, t2))
    <3>1. t2 \in NextOf(m, t1) /\ t2 \in B
      BY <1>2, <2>1, <2>9, UpToPart DEF t2
    <3>2. t2 \notin NextOf(m, t2)
      BY <3>1 DEF LeavesOut
    <3>3. t2 \notin Y
      <4> SUFFICES ASSUME NEW t \in NextUpTo(m, t1, j), t2 \in Leaf(m, t) PROVE FALSE
        BY <3>1 DEF Y, LeavesUpTo
      <4>1. PICK i \in Offsets : i # j /\ Entry(m, t1, i) # 0 /\ t = NextTable(m, t1, i)
        BY <2>1, UpToPart
      <4>2. t # t2
        BY <2>1, <2>9, <4>1 DEF t2, Tables, Leads
      <4>3. t2 \in NextOf(m, t) /\ t \in NextOf(m, t1)
        BY <2>2, <4>2 DEF Leaf
      <4> QED
        BY <3>1, <4>3 DEF LeavesOut
    <3>4. Erased(m, DropLeaves(y, t2), Y \cup NextOf(m, t2))
      BY <2>1, <3>1, <3>2, <3>3, DropLeavesErase
    <3>5. Erased(m, RemoveBlock(DropLeaves(y, t2), t2), (Y \cup NextOf(m, t2)) \cup {t2})
      BY <2>3, <3>4, EraseOne
    <3>6. (Y \cup NextOf(m, t2)) \cup {t2} = Y \cup Leaf(m, t2)
      BY DEF Leaf
    <3> QED
      BY <2>8, <2>9, <3>5, <3>6
  <2>10. Erased(m, h[k], Z \cup LeavesUpTo(m, t1, k))
    BY <2>1, <2>5, <2>8, <2>9
  <2> QED
    BY <2>1, <2>10 DEF T
<1> HIDE DEF T
<1>5. PageElem \in T
  <2>1. PageElem \in Nat
    BY PhysicalAssumption
  <2>2. \A k \in 0 .. PageElem : k \in T
    BY <1>3, <1>4, <2>1, StepInduction
  <2> QED
    BY <2>1, <2>2
<1> QED
  BY <1>1, <1>5 DEF T

(* The root, and the call as a whole.                                      *)
LEMMA CleanTaskErase ==
  ASSUME NEW m, NEW R, NEW A, NEW B, NEW F, Tables(m, R, A, B, F), NEW r \in R,
         \A t \in NextOf(m, r) : LeavesOut(m, R, A, B, t)
  PROVE  Erased(m, CleanTask(m, r), Tree(m, r))
<1>1. PICK h : /\ h[0] = m /\ DropBranches(m, r) = h[PageElem]
               /\ \A k \in 1 .. PageElem : h[k] = DropBranch(h[k - 1], r, k - 1)
  BY CleanTaskChain
<1>2. \A t \in NextOf(m, r) : t \in A
  BY UpToWhole DEF Tables, Leads
<1>3. \A t \in NextOf(m, r) : \A u \in NextOf(m, t) : u \in B
  BY <1>2, UpToWhole DEF Tables, Leads
<1>4. MemOK(m)
  BY DEF Tables
<1>5. \A t \in NextOf(m, r) : \A p \in Branch(m, t) :
        \/ p = t
        \/ p \in NextOf(m, t)
        \/ p \notin R \cup A \cup B
  BY DEF Branch, LeavesUpTo, Leaf, NextOf, LeavesOut
<1> DEFINE T == {k \in 0 .. PageElem : Erased(m, h[k], BranchesUpTo(m, r, k))}
<1>6. 0 \in T
  <2>1. BranchesUpTo(m, r, 0) = {}
    BY UpToNext, 0 \in Nat DEF BranchesUpTo
  <2> QED
    BY <1>1, <1>4, <2>1, EraseNothing, PhysicalAssumption
<1>7. ASSUME NEW k \in 1 .. PageElem, k - 1 \in T PROVE k \in T
  <2> DEFINE j == k - 1
             Y == BranchesUpTo(m, r, j)
             y == h[j]
             t1 == NextTable(m, r, j)
  <2>1. j \in Offsets /\ j \in Nat /\ j + 1 = k /\ h[k] = DropBranch(y, r, j) /\ Erased(m, y, Y)
        /\ k \in 0 .. PageElem
    BY <1>1, <1>7, PhysicalAssumption DEF Offsets
  <2> HIDE DEF j, y, T, t1
  <2>2. \A t \in NextUpTo(m, r, j) : t \in NextOf(m, r)
    BY <2>1, UpToPart
  <2>3. r \in R \cup A \cup B /\ r \notin A /\ r \notin B
    BY DEF Tables
  <2>4. r \notin Y
    BY <1>2, <1>3, <1>5, <2>2, <2>3 DEF BranchesUpTo
  <2>5. BranchesUpTo(m, r, k) = IF Entry(m, r, j) # 0 THEN Y \cup Branch(m, t1) ELSE Y
    BY <2>1, UpToNext DEF BranchesUpTo, t1
  <2> HIDE DEF Y
  <2>6. Entry(y, r, j) = Entry(m, r, j) /\ NextTable(y, r, j) = t1
    BY <2>1, <2>3, <2>4, TableStays DEF t1
  <2>7. IsValid(Entry(m, r, j)) <=> Entry(m, r, j) # 0
    BY <2>1, EntryFacts DEF Tables, Leads
  <2>8. h[k] = IF Entry(m, r, j) # 0 THEN RemoveBlock(DropMiddle(y, t1), t1) ELSE y
    BY <2>1, <2>6, <2>7 DEF DropBranch
  <2>9. ASSUME Entry(m, r, j) # 0
        PROVE  Erased(m, h[k], Y \cup Branch(m, t1))
    <3>1. t1 \in NextOf(m, r) /\ t1 \in A /\ LeavesOut(m, R, A, B, t1)
      <4>1. t1 \in NextOf(m, r)
        BY <2>1, <2>9, UpToPart DEF t1
      <4> QED
        BY <1>2, <4>1
    <3>2. ASSUME NEW t \in NextUpTo(m, r, j) PROVE t # t1 /\ t \in A /\ t \in NextOf(m, r)
      <4>1. PICK i \in Offsets : i # j /\ Entry(m, r, i) # 0 /\ t = NextTable(m, r, i)
        BY <2>1, UpToPart
      <4>2. t # t1
        BY <2>1, <2>9, <4>1 DEF t1, Tables, Leads
      <4> QED
        BY <1>2, <2>2, <4>2
    <3>3. t1 \notin Y
      <4> SUFFICES ASSUME NEW t \in NextUpTo(m, r, j), t1 \in Branch(m, t) PROVE FALSE
        BY DEF Y, BranchesUpTo
      <4>1. t1 \in NextOf(m, t)
        BY <1>5, <3>1, <3>2
      <4>2. t1 \in B
        BY <1>3, <3>2, <4>1
      <4> QED
        BY <3>1, <4>2 DEF Tables
    <3>4. ASSUME NEW u \in NextOf(m, t1) PROVE u \notin Y
      <4> SUFFICES ASSUME NEW t \in NextUpTo(m, r, j), u \in Branch(m, t) PROVE FALSE
        BY DEF Y, BranchesUpTo
      <4>1. u \in B
        BY <1>3, <3>1
      <4>2. u \notin A
        BY <4>1 DEF Tables
      <4>3. u \in NextOf(m, t)
        BY <1>5, <3>2, <4>1, <4>2
      <4>4. PICK i \in Offsets : Entry(m, t1, i) # 0 /\ u = NextTable(m, t1, i)
        BY UpToWhole
      <4>5. PICK l \in Offsets : Entry(m, t, l) # 0 /\ u = NextTable(m, t, l)
        BY <4>3, UpToWhole
      <4>6. Leads(m, A, B)
        BY DEF Tables
      <4>7. t1 \in A /\ t \in A /\ t # t1
        BY <3>1, <3>2
      <4>8. NextTable(m, t1, i) = NextTable(m, t, l)
        BY <4>4, <4>5
      <4>9. t1 = t
        BY <4>4, <4>5, <4>6, <4>7, <4>8, LeadsApart
      <4> QED
        BY <4>7, <4>9
    <3>5. Erased(m, DropMiddle(y, t1), Y \cup LeavesUpTo(m, t1, PageElem))
      BY <2>1, <3>1, <3>3, <3>4, DropMiddleErase
    <3>6. Erased(m, RemoveBlock(DropMiddle(y, t1), t1),
                 (Y \cup LeavesUpTo(m, t1, PageElem)) \cup {t1})
      BY <1>4, <3>5, EraseOne
    <3>7. (Y \cup LeavesUpTo(m, t1, PageElem)) \cup {t1} = Y \cup Branch(m, t1)
      BY DEF Branch
    <3> QED
      BY <2>8, <2>9, <3>6, <3>7
  <2>10. Erased(m, h[k], BranchesUpTo(m, r, k))
    BY <2>1, <2>5, <2>8, <2>9
  <2> QED
    BY <2>1, <2>10 DEF T
<1> HIDE DEF T
<1>8. Erased(m, DropBranches(m, r), BranchesUpTo(m, r, PageElem))
  <2>1. PageElem \in Nat
    BY PhysicalAssumption
  <2>2. \A k \in 0 .. PageElem : k \in T
    BY <1>6, <1>7, <2>1, StepInduction
  <2>3. PageElem \in T
    BY <2>1, <2>2
  <2> QED
    BY <1>1, <2>3 DEF T
<1>9. CleanTask(m, r) = RemoveBlock(DropBranches(m, r), r)
  BY DEF CleanTask, DropBranches, DropBranch
<1>10. Erased(m, RemoveBlock(DropBranches(m, r), r), BranchesUpTo(m, r, PageElem) \cup {r})
  BY <1>4, <1>8, EraseOne
<1>11. BranchesUpTo(m, r, PageElem) \cup {r} = Tree(m, r)
  BY DEF Tree
<1> QED
  BY <1>9, <1>10, <1>11

(* Every three indices are those of a page.                                *)
LEMMA DigitsOf ==
  ASSUME NEW P \in Nat \ {0}, NEW i \in 0 .. P - 1, NEW j \in 0 .. P - 1, NEW k \in 0 .. P - 1,
         NEW v, v = P * (P * i + j) + k
  PROVE  /\ v \in Nat /\ v < P * P * P
         /\ Digit0(P, v) = i /\ Digit1(P, v) = j /\ Digit2(P, v) = k
<1> DEFINE q == P * i + j
           s == P * j + k
           w == P * P
<1>1. q \in Nat /\ v = P * q + k
  OBVIOUS
<1>2. v \div P = q /\ v % P = k
  <2> HIDE DEF q
  <2> QED
    BY <1>1, DivUnique
<1>3. q % P = j
  <2>1. i \in Nat
    OBVIOUS
  <2> QED
    BY <2>1, DivUnique
<1>4. w \in Nat \ {0} /\ s \in 0 .. w - 1
  <2>1. P * j <= P * (P - 1) /\ P * (P - 1) = P * P - P /\ P * j \in Nat
    OBVIOUS
  <2> QED
    BY <2>1
<1>5. v = w * i + s
  <2>1. P * (P * i + j) = P * (P * i) + P * j /\ P * (P * i) = P * P * i
    OBVIOUS
  <2> QED
    BY <2>1
<1>6. v \div w = i
  <2>1. i \in Nat
    OBVIOUS
  <2> HIDE DEF w, s
  <2> QED
    BY <1>4, <1>5, <2>1, DivUnique
<1>7. i % P = i
  <2>1. i = P * 0 + i /\ 0 \in Nat
    OBVIOUS
  <2> QED
    BY <2>1, DivUnique
<1>8. v \in Nat /\ v < P * P * P
  <2>1. w * i <= w * (P - 1) /\ w * (P - 1) = w * P - w /\ w * i \in Nat
    <3>1. w \in Nat
      BY <1>4
    <3> HIDE DEF w
    <3> QED
      BY <3>1
  <2>2. s \in Nat /\ s < w /\ w \in Nat
    BY <1>4
  <2>3. w * P = P * P * P
    OBVIOUS
  <2> HIDE DEF w, s
  <2> QED
    BY <1>5, <2>1, <2>2, <2>3
<1> QED
  BY <1>2, <1>3, <1>6, <1>7, <1>8 DEF Digit0, Digit1, Digit2

LEMMA PageAt ==
  ASSUME NEW i \in Offsets, NEW j \in Offsets, NEW k \in Offsets
  PROVE  \E v \in VPages : VAextract(v, 0) = i /\ VAextract(v, 1) = j /\ VAextract(v, 2) = k
<1> DEFINE v == PageElem * (PageElem * i + j) + k
<1>1. /\ v \in Nat /\ v < PageElem * PageElem * PageElem
      /\ Digit0(PageElem, v) = i /\ Digit1(PageElem, v) = j /\ Digit2(PageElem, v) = k
  <2>1. /\ PageElem \in Nat \ {0} /\ i \in 0 .. PageElem - 1
        /\ j \in 0 .. PageElem - 1 /\ k \in 0 .. PageElem - 1
    BY PhysicalAssumption DEF Offsets
  <2>2. v = PageElem * (PageElem * i + j) + k
    OBVIOUS
  <2> HIDE DEF v
  <2> QED
    BY <2>1, <2>2, DigitsOf
<1> HIDE DEF v
<1> DEFINE top == PageElem * PageElem * PageElem
<1>2. top \in Nat
  BY PhysicalAssumption
<1>3. v \in VPages
  <2>1. v < top /\ VPages = 0 .. top - 1
    BY <1>1 DEF VPages
  <2> HIDE DEF top
  <2> QED
    BY <1>1, <1>2, <2>1
<1>4. VAextract(v, 0) = i /\ VAextract(v, 1) = j /\ VAextract(v, 2) = k
  BY <1>1 DEF VAextract, Digit0, Digit1, Digit2
<1> QED
  BY <1>3, <1>4

(* The pages a root reaches through its tables are those it translates to. *)
LEMMA ReachedIsMapped ==
  ASSUME NEW m, NEW R, NEW A, NEW B, NEW F, Tables(m, R, A, B, F), NEW r \in R, NEW p
  PROVE  (\E t \in NextOf(m, r) : \E u \in NextOf(m, t) : p \in NextOf(m, u))
           <=> (p # 0 /\ \E v \in VPages : Convert(m, r, v) = p)
<1>1. ASSUME NEW t \in NextOf(m, r), NEW u \in NextOf(m, t), p \in NextOf(m, u)
      PROVE  p # 0 /\ \E v \in VPages : Convert(m, r, v) = p
  <2>1. PICK i \in Offsets : Entry(m, r, i) # 0 /\ t = NextTable(m, r, i)
    BY UpToWhole
  <2>2. PICK j \in Offsets : Entry(m, t, j) # 0 /\ u = NextTable(m, t, j)
    BY UpToWhole
  <2>3. PICK k \in Offsets : Entry(m, u, k) # 0 /\ p = NextTable(m, u, k)
    BY <1>1, UpToWhole
  <2>4. PICK v \in VPages : VAextract(v, 0) = i /\ VAextract(v, 1) = j /\ VAextract(v, 2) = k
    BY PageAt
  <2>5. MidOf(m, r, v) = t /\ HasMid(m, r, v)
    BY <2>1, <2>4 DEF MidOf, HasMid
  <2>6. LeafOf(m, r, v) = u /\ HasLeaf(m, r, v)
    BY <2>2, <2>4, <2>5 DEF LeafOf, HasLeaf
  <2>7. Mapped(m, r, v)
    BY <2>3, <2>4, <2>6 DEF Mapped
  <2>8. Convert(m, r, v) # 0 /\ Convert(m, r, v) = NextTable(m, LeafOf(m, r, v), VAextract(v, 2))
    BY <2>7, WayFacts
  <2> QED
    BY <2>3, <2>4, <2>6, <2>8
<1>2. ASSUME p # 0, NEW v \in VPages, Convert(m, r, v) = p
      PROVE  \E t \in NextOf(m, r) : \E u \in NextOf(m, t) : p \in NextOf(m, u)
  <2>1. VAextract(v, 0) \in Offsets /\ VAextract(v, 1) \in Offsets /\ VAextract(v, 2) \in Offsets
    BY Indexes
  <2>2. Mapped(m, r, v)
    BY <1>2, WayFacts
  <2>3. Convert(m, r, v) = NextTable(m, LeafOf(m, r, v), VAextract(v, 2))
    BY <2>2, WayFacts
  <2>4. MidOf(m, r, v) \in NextOf(m, r)
    BY <2>1, <2>2, UpToWhole DEF Mapped, HasLeaf, HasMid, MidOf
  <2>5. LeafOf(m, r, v) \in NextOf(m, MidOf(m, r, v))
    BY <2>1, <2>2, UpToWhole DEF Mapped, HasLeaf, LeafOf
  <2>6. p \in NextOf(m, LeafOf(m, r, v))
    BY <1>2, <2>1, <2>2, <2>3, UpToWhole DEF Mapped
  <2> QED
    BY <2>4, <2>5, <2>6
<1> QED
  BY <1>1, <1>2

(* clean_task takes the tree of the root and the blocks D that its pages   *)
(* lie in, and nothing else.                                               *)
LEMMA CleanTaskStep ==
  ASSUME NEW m, NEW R, NEW F, HasTables(m, R, F), NEW r \in R, NEW D, D \subseteq F,
         \A v \in VPages : Convert(m, r, v) # 0 => \E b \in D : Convert(m, r, v) \in PagesOf(b),
         \A b \in D : \E v \in VPages : Convert(m, r, v) # 0 /\ Convert(m, r, v) \in PagesOf(b),
         NEW x, x = CleanTask(m, r)
  PROVE  HasTables(x, R \ {r}, F \ D) /\ SameWays(m, x, R \ {r}) /\ x.crashed = m.crashed
<1>1. PICK A, B : Tables(m, R, A, B, F)
  BY DEF HasTables
<1> DEFINE U == NextOf(m, r)
           V == UNION {NextOf(m, t) : t \in U}
           L == UNION {NextOf(m, u) : u \in V}
           S == (R \ {r}) \cup (A \ U) \cup (B \ V)
<1>2. \A p \in L : p # 0 /\ \E v \in VPages : Convert(m, r, v) = p
  BY <1>1, ReachedIsMapped
<1>3. \A v \in VPages : Convert(m, r, v) # 0 => Convert(m, r, v) \in L
  BY <1>1, ReachedIsMapped
<1>4. U \subseteq A
  BY <1>1, UpToWhole DEF Tables, Leads
<1>5. V \subseteq B
  BY <1>1, <1>4, UpToWhole DEF Tables, Leads
<1>6. Tree(m, r) = {r} \cup U \cup V \cup L
  BY DEF Tree, BranchesUpTo, Branch, LeavesUpTo, Leaf, NextOf
<1>7. \A p \in L : p \notin R \cup A \cup B /\ \E b \in D : p \in PagesOf(b)
  BY <1>1, <1>2, TableInNoOther
<1>8. \A t \in U : LeavesOut(m, R, A, B, t)
  BY <1>7 DEF LeavesOut
<1>9. Erased(m, x, {r} \cup U \cup V \cup L)
  <2>1. \A t \in NextOf(m, r) : LeavesOut(m, R, A, B, t)
    BY <1>8
  <2>2. Erased(m, CleanTask(m, r), Tree(m, r))
    BY <1>1, <2>1, CleanTaskErase
  <2> HIDE DEF U, V, L
  <2> QED
    BY <1>6, <2>2
<1>10. \A p \in U : \E i \in Offsets : Entry(m, r, i) # 0 /\ p = NextTable(m, r, i)
  BY UpToWhole
<1>11. \A p \in V : \E t \in U, i \in Offsets : Entry(m, t, i) # 0 /\ p = NextTable(m, t, i)
  BY UpToWhole
<1>12. \A i \in Offsets : Entry(m, r, i) # 0 => NextTable(m, r, i) \in U
  BY UpToWhole
<1>13. \A t \in U, i \in Offsets : Entry(m, t, i) # 0 => NextTable(m, t, i) \in V
  BY UpToWhole
<1> HIDE DEF U, V, L, S
<1>14. /\ MemOK(m) /\ R \cap A = {} /\ R \cap B = {} /\ A \cap B = {}
       /\ \A p \in R \cup A \cup B : p \in Nat /\ Block(p, 1) \in BlocksOf(m)
                                     /\ Block(p, 1) \notin F
       /\ BlocksOf(m) = F \cup TableBlocks(R \cup A \cup B)
  BY <1>1 DEF Tables, TableBlocks
<1>15. \A p \in R \cup A \cup B : PagesOf(Block(p, 1)) = {p} /\ p \in PagesOf(Block(p, 1))
  BY <1>14, OnePage
<1>16. Held(m, {r} \cup U \cup V \cup L) = D \cup TableBlocks({r} \cup U \cup V)
  <2>1. ASSUME NEW b \in BlocksOf(m), NEW p \in {r} \cup U \cup V, p \in PagesOf(b)
        PROVE  b \in TableBlocks({r} \cup U \cup V)
    <3>1. p \in R \cup A \cup B
      BY <1>4, <1>5
    <3>2. b = Block(p, 1)
      BY <1>14, <1>15, <2>1, <3>1, BlocksApart
    <3> QED
      BY <3>2 DEF TableBlocks
  <2>2. ASSUME NEW b \in BlocksOf(m), NEW p \in L, p \in PagesOf(b)
        PROVE  b \in D
    <3>1. PICK c \in D : p \in PagesOf(c)
      BY <1>7
    <3>2. c \in BlocksOf(m)
      BY <1>14
    <3> QED
      BY <1>14, <2>2, <3>1, <3>2, BlocksApart
  <2>3. ASSUME NEW b \in D PROVE b \in Held(m, {r} \cup U \cup V \cup L)
    <3>1. PICK v \in VPages : Convert(m, r, v) # 0 /\ Convert(m, r, v) \in PagesOf(b)
      OBVIOUS
    <3>2. Convert(m, r, v) \in L
      BY <1>3, <3>1
    <3> QED
      BY <1>14, <3>1, <3>2 DEF Held
  <2>4. ASSUME NEW p \in {r} \cup U \cup V PROVE Block(p, 1) \in Held(m, {r} \cup U \cup V \cup L)
    <3>1. p \in R \cup A \cup B
      BY <1>4, <1>5
    <3> QED
      BY <1>14, <1>15, <3>1 DEF Held
  <2> QED
    BY <2>1, <2>2, <2>3, <2>4 DEF Held, TableBlocks
<1>17. S = (R \cup A \cup B) \ ({r} \cup U \cup V)
  BY <1>4, <1>5, <1>14 DEF S
<1>18. BlocksOf(x) = (F \ D) \cup TableBlocks(S)
  <2>1. BlocksOf(x) = (F \cup TableBlocks(R \cup A \cup B)) \ (D \cup TableBlocks({r} \cup U \cup V))
    BY <1>9, <1>14, <1>16 DEF Erased
  <2>2. \A p, q : Block(p, 1) = Block(q, 1) => p = q
    BY TableBlockIs
  <2>3. \A p \in {r} \cup U \cup V : Block(p, 1) \notin F
    BY <1>4, <1>5, <1>14
  <2>4. \A p \in R \cup A \cup B : Block(p, 1) \notin D
    BY <1>14
  <2>5. TableBlocks(S) = TableBlocks(R \cup A \cup B) \ TableBlocks({r} \cup U \cup V)
    BY <1>17, <2>2 DEF TableBlocks
  <2>6. TableBlocks(R \cup A \cup B) \cap D = {}
    BY <2>4 DEF TableBlocks
  <2>7. TableBlocks({r} \cup U \cup V) \cap F = {}
    BY <2>3 DEF TableBlocks
  <2> QED
    BY <2>1, <2>5, <2>6, <2>7
<1>19. ASSUME NEW t \in S
       PROVE  /\ t \in DOMAIN x.pages
              /\ \A i : Entry(x, t, i) = Entry(m, t, i) /\ NextTable(x, t, i) = NextTable(m, t, i)
  <2>1. t \in R \cup A \cup B /\ t \notin {r} \cup U \cup V \cup L
    BY <1>7, <1>17
  <2>2. /\ ~Gone(m, {r} \cup U \cup V \cup L, t)
        /\ \A i : Entry(x, t, i) = Entry(m, t, i) /\ NextTable(x, t, i) = NextTable(m, t, i)
    BY <1>1, <1>9, <2>1, TableStays
  <2>3. t \in DOMAIN m.pages
    BY <1>1, <2>1 DEF Tables
  <2> QED
    BY <1>9, <2>2, <2>3 DEF Erased
<1>20. SameEntries(m, x, R \ {r}) /\ SameEntries(m, x, A \ U) /\ SameEntries(m, x, B \ V)
  BY <1>19 DEF SameEntries, S
<1>21. Leads(x, R \ {r}, A \ U)
  <2>1. Leads(m, R, A)
    BY <1>1 DEF Tables
  <2>2. \A p \in R, i \in Offsets : Entry(m, p, i) # 0 => (p \in {r} <=> NextTable(m, p, i) \in U)
    <3> SUFFICES ASSUME NEW p \in R, NEW i \in Offsets, Entry(m, p, i) # 0
                 PROVE  p = r <=> NextTable(m, p, i) \in U
      OBVIOUS
    <3>1. p = r => NextTable(m, p, i) \in U
      BY <1>12
    <3>2. ASSUME NextTable(m, p, i) \in U PROVE p = r
      <4>1. PICK j \in Offsets : Entry(m, r, j) # 0 /\ NextTable(m, p, i) = NextTable(m, r, j)
        BY <1>10, <3>2
      <4> QED
        BY <2>1, <4>1, LeadsApart
    <3> QED
      BY <3>1, <3>2
  <2> DEFINE Z == {r}
  <2>3. \A p \in R, i \in Offsets : Entry(m, p, i) # 0 => (p \in Z <=> NextTable(m, p, i) \in U)
    BY <2>2
  <2>4. SameEntries(m, x, R \ Z)
    BY <1>20
  <2> HIDE DEF Z
  <2>5. Leads(x, R \ Z, A \ U)
    BY <1>4, <2>1, <2>3, <2>4, LeadsLess
  <2> QED
    BY <2>5 DEF Z
<1>22. Leads(x, A \ U, B \ V)
  <2>1. Leads(m, A, B)
    BY <1>1 DEF Tables
  <2>2. \A p \in A, i \in Offsets : Entry(m, p, i) # 0 => (p \in U <=> NextTable(m, p, i) \in V)
    <3> SUFFICES ASSUME NEW p \in A, NEW i \in Offsets, Entry(m, p, i) # 0
                 PROVE  p \in U <=> NextTable(m, p, i) \in V
      OBVIOUS
    <3>1. p \in U => NextTable(m, p, i) \in V
      BY <1>13
    <3>2. ASSUME NextTable(m, p, i) \in V PROVE p \in U
      <4>1. PICK t \in U, j \in Offsets : Entry(m, t, j) # 0 /\ NextTable(m, p, i) = NextTable(m, t, j)
        BY <1>11, <3>2
      <4>2. t \in A
        BY <1>4
      <4>3. p = t
        BY <2>1, <4>1, <4>2, LeadsApart
      <4> QED
        BY <4>3
    <3> QED
      BY <3>1, <3>2
  <2> QED
    BY <1>5, <1>20, <2>1, <2>2, LeadsLess
<1>23. Ends(x, B \ V)
  BY <1>1, <1>20 DEF Tables, Ends, SameEntries, NextTable
<1>24. Tables(x, R \ {r}, A \ U, B \ V, F \ D)
  <2>1. \A p \in S : p \in Nat /\ p # 0 /\ p \in DOMAIN x.pages /\ Block(p, 1) \notin F \ D
    BY <1>1, <1>14, <1>17, <1>19 DEF Tables
  <2> QED
    BY <1>9, <1>14, <1>18, <1>21, <1>22, <1>23, <2>1 DEF Tables, Erased, S
<1>25. SameWays(m, x, R \ {r})
  <2>1. SameBut(m, x, R \ {r}) /\ SameBut(m, x, A \cap (A \ U)) /\ SameEntries(m, x, B \cap (B \ V))
    BY <1>20 DEF SameBut, SameEntries
  <2>2. R \ {r} \subseteq R
    OBVIOUS
  <2> QED
    BY <1>1, <1>24, <2>1, <2>2, SameWaysBut
<1> QED
  BY <1>9, <1>24, <1>25 DEF HasTables, Erased
=============================================================================
