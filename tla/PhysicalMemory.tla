--------------------------- MODULE PhysicalMemory ---------------------------
(***************************************************************************)
(* class PhysicalMemory of src/device/page.h: the simulated RAM as a       *)
(* std::list of blocks, ordered by address, with an insertion cursor       *)
(* (m_current_block_) that survives from one insert to the next.           *)
(*                                                                         *)
(* Addresses and sizes count pages (every caller in memory.h rounds sizes  *)
(* up to SV39::PageSize first).  The state is one record, so that the page *)
(* table code of PageTables.tla can thread it through a whole call:        *)
(*   blocks   the list, each element [addr, size]                          *)
(*   cur      position of m_current_block_ in the list; 0 once the block   *)
(*            it designated was erased (a dangling std::list iterator)     *)
(*   pages    the content of every page of every block built with pages;   *)
(*            the reserved block and the end marker have none              *)
(*   crashed  the process died in undefined behaviour                      *)
(***************************************************************************)
EXTENDS Naturals, Sequences, FiniteSets, SequencesExt

CONSTANTS
  MaxRange,    \* m_max_range_: pages of RAM
  Reserved,    \* pages of the block [0, 0x20000000) that is never handed out
  PageElem,    \* words (64 bits) of a page, SV39::PageElem
  MaxTake,     \* bound: the longest block asked for
  Words        \* values a word of memory may hold; 0 is a fresh word

ASSUME PhysicalAssumption ==
  /\ MaxRange \in Nat /\ Reserved \in Nat
  /\ 0 < Reserved /\ Reserved <= MaxRange
  /\ PageElem \in Nat \ {0}
  /\ MaxTake \in Nat
  /\ Words \subseteq Nat /\ 0 \in Words

VARIABLE pm

-----------------------------------------------------------------------------
Block(a, n) == [addr |-> a, size |-> n]
BlockEnd(b) == b.addr + b.size
Before(b, c) == BlockEnd(b) <= c.addr
PagesOf(b) == b.addr .. BlockEnd(b) - 1
Holds(b, p) == p \in PagesOf(b)

Offsets == 0 .. PageElem - 1
ZeroPage == [i \in Offsets |-> 0]

InitialMemory ==
  [blocks  |-> << Block(0, Reserved), Block(MaxRange, 1) >>,
   cur     |-> 1,
   pages   |-> [p \in {} |-> ZeroPage],
   crashed |-> FALSE]

-----------------------------------------------------------------------------
(* usable: the first gap behind the first block that takes n pages.  The   *)
(* code keeps a running maximum of the block ends it has passed; 0 is its  *)
(* answer for "no space".                                                  *)
Reached(m, i) == Max({BlockEnd(m.blocks[k]) : k \in 1 .. i})

(* Seeded bug: a gap may be one page short.                                *)
GapsOneShort(m, n) ==
  {i \in 1 .. Len(m.blocks) - 1 : m.blocks[i + 1].addr + 1 > Reached(m, i) + n - 1}

Gaps(m, n) ==
  {i \in 1 .. Len(m.blocks) - 1 : m.blocks[i + 1].addr > Reached(m, i) + n - 1}

(* Seeded bug: a block may not end with the RAM.                           *)
UsableShortOfEnd(m, n) ==
  IF /\ Gaps(m, n) # {}
     /\ Reached(m, Min(Gaps(m, n))) + n < MaxRange
  THEN Reached(m, Min(Gaps(m, n)))
  ELSE 0

Usable(m, n) ==
  IF /\ Gaps(m, n) # {}
     /\ Reached(m, Min(Gaps(m, n))) + n <= MaxRange
  THEN Reached(m, Min(Gaps(m, n)))
  ELSE 0

(* Seeded bug: building a block's pages clears every page.                 *)
PlaceClearing(m, k, b, cursor) ==
  [blocks  |-> InsertAt(m.blocks, k, b),
   cur     |-> cursor,
   pages   |-> [p \in DOMAIN m.pages \cup PagesOf(b) |-> ZeroPage],
   crashed |-> m.crashed]

(* insert: walk from the cursor towards the new block and put it there.    *)
(* With a dangling cursor the comparison reads a freed list node: if the   *)
(* node still holds an overlapping range the call reports a conflict and   *)
(* changes nothing, otherwise the walk follows a wild pointer; ub is that  *)
(* choice.  Walking up past the last element dereferences end().           *)
Place(m, k, b, cursor) ==
  [blocks  |-> InsertAt(m.blocks, k, b),
   cur     |-> cursor,
   pages   |-> [p \in DOMAIN m.pages \cup PagesOf(b) |->
                  IF p \in PagesOf(b) THEN ZeroPage ELSE m.pages[p]],
   crashed |-> m.crashed]

InsertBelow(m, b) ==
  LET lower == {k \in 1 .. m.cur - 1 : Before(m.blocks[k], b)}
  IN  IF lower = {} THEN [m EXCEPT !.cur = 1]
                    ELSE Place(m, Max(lower) + 1, b, Max(lower))

(* Seeded bug: the block goes right behind the cursor, without a walk.     *)
InsertBehindCursor(m, b) ==
  IF m.cur = Len(m.blocks) THEN [m EXCEPT !.crashed = TRUE]
                           ELSE Place(m, m.cur + 1, b, m.cur + 2)

InsertAbove(m, b) ==
  LET upper == {k \in m.cur + 1 .. Len(m.blocks) : Before(b, m.blocks[k])}
  IN  IF upper = {} THEN [m EXCEPT !.crashed = TRUE]
                    ELSE Place(m, Min(upper), b, Min(upper) + 1)

InsertBlock(m, a, n, ub) ==
  LET b == Block(a, n)
  IN  CASE m.cur = 0 -> [m EXCEPT !.crashed = (ub = "crash")]
        [] m.cur # 0 /\ Before(b, m.blocks[m.cur]) -> InsertBelow(m, b)
        [] m.cur # 0 /\ Before(m.blocks[m.cur], b) -> InsertAbove(m, b)
        [] OTHER -> m                                     \* address conflict

Inserted(old, new) == Len(new.blocks) > Len(old.blocks)

(* remove: erase the block that holds the address, whichever it is.  The   *)
(* cursor is not looked at: erasing its block leaves it dangling.          *)
BlockAt(m, p) == {k \in 1 .. Len(m.blocks) : Holds(m.blocks[k], p)}

(* Seeded bugs: the cursor stays a position that no longer exists; the     *)
(* pages stay behind.                                                      *)
RemoveUnderCursor(m, p) ==
  IF BlockAt(m, p) = {} THEN m
  ELSE [blocks  |-> RemoveAt(m.blocks, Min(BlockAt(m, p))),
        cur     |-> m.cur,
        pages   |-> [q \in DOMAIN m.pages \ PagesOf(m.blocks[Min(BlockAt(m, p))]) |-> m.pages[q]],
        crashed |-> m.crashed]

RemoveKeepingPages(m, p) ==
  LET k == Min(BlockAt(m, p))
  IN  IF BlockAt(m, p) = {} THEN m
      ELSE [m EXCEPT !.blocks = RemoveAt(@, k),
                     !.cur = IF @ = k THEN 0 ELSE IF @ > k THEN @ - 1 ELSE @]

RemoveBlock(m, p) ==
  LET k == Min(BlockAt(m, p))
      rest == DOMAIN m.pages \ PagesOf(m.blocks[k])
  IN  IF BlockAt(m, p) = {} THEN m
      ELSE [blocks  |-> RemoveAt(m.blocks, k),
            cur     |-> IF m.cur = k THEN 0
                        ELSE IF m.cur > k THEN m.cur - 1 ELSE m.cur,
            pages   |-> [q \in rest |-> m.pages[q]],
            crashed |-> m.crashed]

(* length: size of the block that holds the address, 0 if none does.       *)
BlockLength(m, p) ==
  IF BlockAt(m, p) = {} THEN 0 ELSE m.blocks[Min(BlockAt(m, p))].size

(* read_value answers 0 for an address without a page; write_data then     *)
(* changes nothing and its error code is not looked at.                    *)
ReadWord(m, p, i) == IF p \in DOMAIN m.pages THEN m.pages[p][i] ELSE 0

WriteData(m, p, is, w) ==
  IF p \in DOMAIN m.pages
  THEN [m EXCEPT !.pages[p] = [i \in Offsets |-> IF i \in is THEN w ELSE @[i]]]
  ELSE m

-----------------------------------------------------------------------------
PMInit == pm = InitialMemory

(* The way memory.h obtains memory everywhere: usable, then insert.        *)
Take(n) ==
  /\ Usable(pm, n) # 0
  /\ \E ub \in {"conflict", "crash"} : pm' = InsertBlock(pm, Usable(pm, n), n, ub)

Erase(p) == pm' = RemoveBlock(pm, p)

Store(p, i, w) == pm' = WriteData(pm, p, {i}, w)

PMNext ==
  /\ ~pm.crashed
  /\ \/ \E n \in 1 .. MaxTake : Take(n)
     \/ \E p \in 0 .. MaxRange : Erase(p)
     \/ \E p \in 0 .. MaxRange, i \in Offsets, w \in Words : Store(p, i, w)

PMSpec == PMInit /\ [][PMNext]_pm

-----------------------------------------------------------------------------
(* The memory record is well typed; a cursor of 0 is a dangling one.       *)
BlockType == [addr : Nat, size : Nat \ {0}]
Typed(m) ==
  /\ m = [blocks |-> m.blocks, cur |-> m.cur, pages |-> m.pages, crashed |-> m.crashed]
  /\ m.blocks \in Seq(BlockType)
  /\ m.cur \in 0 .. Len(m.blocks)
  /\ m.crashed \in BOOLEAN
  /\ m.pages \in [DOMAIN m.pages -> [Offsets -> Words]]
PMTypeOK == Typed(pm)

(* The list stays sorted and no two blocks share a page, although every    *)
(* insert starts its walk wherever the last one stopped (page.h insert).   *)
Ordered(m) ==
  \A i, j \in 1 .. Len(m.blocks) : i < j => Before(m.blocks[i], m.blocks[j])
BlocksOrdered == Ordered(pm)

(* Every page with content belongs to a block inside the RAM, and it is    *)
(* never a page of the reserved range: what insert built, remove took away *)
(* with its block and nothing else.                                        *)
Backed(m) ==
  /\ \A p \in DOMAIN m.pages :
       /\ Reserved <= p /\ p < MaxRange
       /\ BlockAt(m, p) # {}
  /\ \A k \in 1 .. Len(m.blocks) :
       \/ m.blocks[k] \in {Block(0, Reserved), Block(MaxRange, 1)}
       \/ PagesOf(m.blocks[k]) \subseteq DOMAIN m.pages
PagesBacked == Backed(pm)

(* As long as the cursor is live, what usable answered can be inserted:    *)
(* insert never reports a conflict, never walks off the list, and the new  *)
(* block is the one that was asked for (memory.h ignores insert's error    *)
(* code for page tables).                                                  *)
UsableInsertable ==
  pm.cur # 0 =>
    \A n \in 1 .. MaxTake : Usable(pm, n) # 0 =>
      LET m == InsertBlock(pm, Usable(pm, n), n, "crash")
      IN  /\ ~m.crashed /\ Len(m.blocks) = Len(pm.blocks) + 1
          /\ m.cur # 0
          /\ ToSet(m.blocks) = ToSet(pm.blocks) \cup {Block(Usable(pm, n), n)}

(* Reference for usable: with the end marker in place it answers the       *)
(* lowest run of n free pages behind the first block, and 0 only when      *)
(* there is none.                                                          *)
FreeRuns(m, n) ==
  {a \in BlockEnd(m.blocks[1]) .. MaxRange - n :
     \A p \in a .. a + n - 1 : BlockAt(m, p) = {}}
UsableIsFirstFit ==
  BlockAt(pm, MaxRange) # {} =>
    \A n \in 1 .. MaxTake :
      Usable(pm, n) = IF FreeRuns(pm, n) = {} THEN 0 ELSE Min(FreeRuns(pm, n))

(* A page a block brings in is zero, and a step changes the content of at  *)
(* most one page that was there before: no insert or remove disturbs data. *)
Changed == {p \in DOMAIN pm.pages \cap DOMAIN pm'.pages : pm'.pages[p] # pm.pages[p]}
FreshStep ==
  /\ \A p \in DOMAIN pm'.pages \ DOMAIN pm.pages : pm'.pages[p] = ZeroPage
  /\ Cardinality(Changed) <= 1
FreshOrKept == [][FreshStep]_pm
=============================================================================
