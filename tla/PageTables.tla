------------------------------ MODULE PageTables -----------------------------
(***************************************************************************)
(* The page table code of class Memory (src/device/memory.h) over the      *)
(* blocks of PhysicalMemory, with the Sv39 helpers of src/device/sv39.h.   *)
(* A virtual address is a page number v and a word offset; a page table    *)
(* entry is a word 2 * page + V (the R, W and X bits are never read back). *)
(* Each operator is one whole call and answers the new memory record.      *)
(***************************************************************************)
EXTENDS PhysicalMemory

VPages == 0 .. PageElem * PageElem * PageElem - 1

(* sv39.h: index of v in the table of a level; entries and their parts.    *)
VAextract(v, level) ==
  CASE level = 0 -> (v \div (PageElem * PageElem)) % PageElem
    [] level = 1 -> (v \div PageElem) % PageElem
    [] level = 2 -> v % PageElem

SetPTE(page) == 2 * page + 1
PTE2PA(word) == word \div 2
IsValid(word) == word % 2 = 1

Entry(m, table, i) == ReadWord(m, table, i)
NextTable(m, table, i) == PTE2PA(Entry(m, table, i))

-----------------------------------------------------------------------------
CreateRootPt(m, ub) ==
  IF Usable(m, 1) = 0 THEN m ELSE InsertBlock(m, Usable(m, 1), 1, ub)

(* convert: three entries are followed; an address of 0 stops the walk.    *)
(* The V bit is not looked at.                                             *)
Convert(m, root, v) ==
  LET t1 == NextTable(m, root, VAextract(v, 0))
      t2 == NextTable(m, t1, VAextract(v, 1))
  IN  IF t1 = 0 \/ t2 = 0 THEN 0 ELSE NextTable(m, t2, VAextract(v, 2))

(* Seeded bug: a table is built also behind an entry that has one.         *)
EnsureNewTable(s, table, level, v, ub) ==
  LET i == VAextract(v, level)
      seen == [s EXCEPT !.idx[level] = i]
      pt == Usable(s.m, 1)
  IN  CASE ~s.ok -> s
        [] s.ok /\ i = s.idx[level] -> seen
        [] OTHER ->
             IF pt = 0 THEN [seen EXCEPT !.ok = FALSE]
             ELSE [seen EXCEPT !.m = WriteData(InsertBlock(s.m, pt, 1, ub),
                                               table, {i}, SetPTE(pt))]

(* allocate, one level of one page: s.idx remembers the index looked at    *)
(* last on each level, and a table is built only behind an entry whose V   *)
(* bit is clear.  s.ok turns FALSE when no page is left for it; the call   *)
(* then returns 0 and leaves everything it has built so far.               *)
EnsureTable(s, table, level, v, ub) ==
  LET i == VAextract(v, level)
      seen == [s EXCEPT !.idx[level] = i]
      pt == Usable(s.m, 1)
  IN  CASE ~s.ok -> s
        [] s.ok /\ (i = s.idx[level] \/ IsValid(Entry(s.m, table, i))) -> seen
        [] OTHER ->
             IF pt = 0 THEN [seen EXCEPT !.ok = FALSE]
             ELSE [seen EXCEPT !.m = WriteData(InsertBlock(s.m, pt, 1, ub),
                                               table, {i}, SetPTE(pt))]

(* The last level keeps an entry that is already valid, wherever it leads. *)
MapLeaf(s, table, v, page) ==
  LET i == VAextract(v, 2)
      seen == [s EXCEPT !.idx[2] = i]
  IN  IF i = s.idx[2] \/ IsValid(Entry(s.m, table, i)) THEN seen
      ELSE [seen EXCEPT !.m = WriteData(s.m, table, {i}, SetPTE(page))]

MapPage(s, root, v, page, ub) ==
  LET Leaf(x, t1) ==
        IF x.ok THEN MapLeaf(x, NextTable(x.m, t1, x.idx[1]), v, page) ELSE x
      Middle(x, t1) == Leaf(EnsureTable(x, t1, 1, v, ub), t1)
      Below(x) == Middle(x, NextTable(x.m, root, x.idx[0]))
  IN  Below(EnsureTable(s, root, 0, v, ub))

(* Seeded bug: one page more is mapped than was asked for.                 *)
AllocateOneMore(m, root, v, n, ub) ==
  LET pa == Usable(m, n)
      got == InsertBlock(m, pa, n, ub)
      start == [m |-> got, idx |-> [l \in 0 .. 2 |-> PageElem], ok |-> TRUE]
      Result(s) == [m |-> s.m, pa |-> IF s.ok THEN pa ELSE 0]
  IN  IF pa = 0 THEN [m |-> m, pa |-> 0]
      ELSE IF ~Inserted(m, got) THEN [m |-> got, pa |-> 0]
      ELSE Result(FoldLeft(LAMBDA s, i : MapPage(s, root, v + i, pa + i, ub),
                           start, [i \in 1 .. n + 1 |-> i - 1]))

(* allocate: [m, pa], the physical page of the new block or 0 for failure. *)
Allocate(m, root, v, n, ub) ==
  LET pa == Usable(m, n)
      got == InsertBlock(m, pa, n, ub)
      start == [m |-> got, idx |-> [l \in 0 .. 2 |-> PageElem], ok |-> TRUE]
      Result(s) == [m |-> s.m, pa |-> IF s.ok THEN pa ELSE 0]
  IN  IF pa = 0 THEN [m |-> m, pa |-> 0]
      ELSE IF ~Inserted(m, got) THEN [m |-> got, pa |-> 0]
      ELSE Result(FoldLeft(LAMBDA s, i : MapPage(s, root, v + i, pa + i, ub),
                           start, [i \in 1 .. n |-> i - 1]))

(* act_virt with write_data: page by page, each page translated after the  *)
(* one before it was written; an unmapped page ends the call with -1 and   *)
(* leaves the pages before it written.  The range is len words from a.     *)
WriteVirt(m, root, a, len, w) ==
  LET In(v) == {i \in Offsets : a <= v * PageElem + i /\ v * PageElem + i < a + len}
      first == a \div PageElem
      last == (a + len - 1) \div PageElem
      Put(s, v) ==
        LET page == Convert(s.m, root, v)
        IN  IF ~s.ok \/ page = 0 THEN [s EXCEPT !.ok = FALSE]
            ELSE [s EXCEPT !.m = WriteData(s.m, page, In(v), w)]
  IN  FoldLeft(Put, [m |-> m, ok |-> TRUE], [i \in 1 .. last - first + 1 |-> first + i - 1])

(* act_virt with read_data succeeds when every page is mapped.             *)
ReadVirtOk(m, root, a, len) ==
  \A v \in a \div PageElem .. (a + len - 1) \div PageElem : Convert(m, root, v) # 0

ReadVirt(m, root, a) ==
  ReadWord(m, Convert(m, root, a \div PageElem), a % PageElem)

(* release: the block under the address goes; length stays 0, so the loop  *)
(* that would clear the page table entries never runs.  An unmapped        *)
(* address converts to 0, which lies in the reserved block.                *)
ReleaseOk(m, root, v) == BlockLength(m, Convert(m, root, v)) # 0

Release(m, root, v) ==
  IF ReleaseOk(m, root, v) THEN RemoveBlock(m, Convert(m, root, v)) ELSE m

-----------------------------------------------------------------------------
Indices == [i \in 1 .. PageElem |-> i - 1]

(* Seeded bug: a table counts as empty when its first entry is.            *)
CleanMiddleByFirstEntry(s, t1, j) ==
  LET t2 == NextTable(s.m, t1, j)
  IN  IF ~IsValid(Entry(s.m, t1, j)) THEN s
      ELSE IF IsValid(Entry(s.m, t2, 0)) THEN [s EXCEPT !.empty = FALSE]
      ELSE [s EXCEPT !.m = WriteData(RemoveBlock(s.m, t2), t1, {j}, 0)]

(* clean_pt: a last-level table without a valid entry goes, then a middle  *)
(* table that has lost all of its tables.                                  *)
CleanMiddle(s, t1, j) ==
  LET t2 == NextTable(s.m, t1, j)
  IN  IF ~IsValid(Entry(s.m, t1, j)) THEN s
      ELSE IF \E k \in Offsets : IsValid(Entry(s.m, t2, k)) THEN [s EXCEPT !.empty = FALSE]
      ELSE [s EXCEPT !.m = WriteData(RemoveBlock(s.m, t2), t1, {j}, 0)]

(* Seeded bug: a middle table is removed but stays linked.                 *)
CleanEntryKeepingEntry(m, root, i) ==
  LET t1 == NextTable(m, root, i)
      s == FoldLeft(LAMBDA x, j : CleanMiddle(x, t1, j), [m |-> m, empty |-> TRUE], Indices)
  IN  IF IsValid(Entry(m, root, i)) /\ s.empty THEN RemoveBlock(s.m, t1) ELSE s.m

CleanEntry(m, root, i) ==
  LET t1 == NextTable(m, root, i)
      s == FoldLeft(LAMBDA x, j : CleanMiddle(x, t1, j), [m |-> m, empty |-> TRUE], Indices)
  IN  IF ~IsValid(Entry(m, root, i)) THEN m
      ELSE IF s.empty THEN WriteData(RemoveBlock(s.m, t1), root, {i}, 0)
      ELSE s.m

CleanPt(m, root) == FoldLeft(LAMBDA x, i : CleanEntry(x, root, i), m, Indices)

(* Seeded bug: the V bit is not looked at.                                 *)
DropAllLeaves(m, t2) ==
  FoldLeft(LAMBDA x, k : RemoveBlock(x, NextTable(x, t2, k)), m, Indices)

(* clean_task: every block a valid last-level entry leads into, then the   *)
(* tables bottom up, then the root; no entry is cleared.                   *)
DropLeaves(m, t2) ==
  FoldLeft(LAMBDA x, k : IF IsValid(Entry(x, t2, k))
                         THEN RemoveBlock(x, NextTable(x, t2, k)) ELSE x, m, Indices)

(* Seeded bug: the last-level tables are not removed.                      *)
DropMiddleLeaking(m, t1) ==
  FoldLeft(LAMBDA x, j :
             IF IsValid(Entry(x, t1, j)) THEN DropLeaves(x, NextTable(x, t1, j)) ELSE x,
           m, Indices)

DropMiddle(m, t1) ==
  FoldLeft(LAMBDA x, j :
             LET t2 == NextTable(x, t1, j)
             IN  IF IsValid(Entry(x, t1, j)) THEN RemoveBlock(DropLeaves(x, t2), t2) ELSE x,
           m, Indices)

CleanTask(m, root) ==
  LET dropped == FoldLeft(LAMBDA x, i :
                            LET t1 == NextTable(x, root, i)
                            IN  IF IsValid(Entry(x, root, i))
                                THEN RemoveBlock(DropMiddle(x, t1), t1) ELSE x,
                          m, Indices)
  IN  RemoveBlock(dropped, root)
=============================================================================
