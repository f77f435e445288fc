---------------------------- MODULE VirtualMemory ----------------------------
(***************************************************************************)
(* class Memory of src/device/memory.h as the driver sees it: page table   *)
(* roots, virtual blocks, virtual reads and writes.  The memory itself is  *)
(* pm; the other variables are what the caller knows and the code does not *)
(* keep:                                                                   *)
(*   roots   the roots create_root_pt handed out                           *)
(*   live    the blocks allocate handed out and release has not taken back *)
(*   used    every <<root, virtual page>> an allocate was ever asked for   *)
(*   tidy    the caller has kept to its own blocks so far                  *)
(*   failed  an allocate has returned 0                                    *)
(***************************************************************************)
EXTENDS PageTables

CONSTANTS
  Starts,      \* virtual pages blocks may start at
  WriteFrom,   \* bound: word offsets writes of one page length start at
  MaxRoots,    \* bound: roots alive at a time
  MaxLive      \* bound: blocks alive at a time

ASSUME VirtualAssumption ==
  /\ Starts \subseteq VPages
  /\ \A v \in Starts, i \in 0 .. MaxTake - 1 : v + i \in VPages
  /\ WriteFrom \subseteq Offsets
  /\ MaxRoots \in Nat /\ MaxLive \in Nat

VARIABLES roots, live, used, tidy, failed

vmVars == <<pm, roots, live, used, tidy, failed>>

Run(v, n) == v .. v + n - 1
PagesUsed(root) == {u[2] : u \in {x \in used : x[1] = root}}
LivePages(root) == UNION {Run(b.v, b.n) : b \in {x \in live : x.root = root}}
Ubs == {"conflict", "crash"}

-----------------------------------------------------------------------------
VMInit ==
  /\ PMInit
  /\ roots = {} /\ live = {} /\ used = {} /\ tidy = TRUE /\ failed = FALSE

(* create_root_pt; a root of 0 (no space) is no root.                      *)
NewRoot ==
  /\ Cardinality(roots) < MaxRoots
  /\ \E ub \in Ubs : pm' = CreateRootPt(pm, ub)
  /\ roots' = (roots \cup {Usable(pm, 1)}) \ {0}
  /\ UNCHANGED <<live, used, tidy, failed>>

(* Seeded bug: the answer 0 is taken for an address.                       *)
AllocateBlockUnchecked(root, v, n) ==
  /\ Cardinality(live) < MaxLive
  /\ \E ub \in Ubs :
       LET r == Allocate(pm, root, v, n, ub)
       IN  /\ pm' = r.m
           /\ live' = live \cup {[root |-> root, v |-> v, n |-> n, pa |-> r.pa]}
           /\ failed' = (failed \/ r.pa = 0)
  /\ used' = used \cup ({root} \X Run(v, n))
  /\ tidy' = (tidy /\ Run(v, n) \cap PagesUsed(root) = {})
  /\ UNCHANGED roots

AllocateBlock(root, v, n) ==
  /\ Cardinality(live) < MaxLive
  /\ \E ub \in Ubs :
       LET r == Allocate(pm, root, v, n, ub)
       IN  /\ pm' = r.m
           /\ live' = IF r.pa = 0 THEN live
                      ELSE live \cup {[root |-> root, v |-> v, n |-> n, pa |-> r.pa]}
           /\ failed' = (failed \/ r.pa = 0)
  /\ used' = used \cup ({root} \X Run(v, n))
  /\ tidy' = (tidy /\ Run(v, n) \cap PagesUsed(root) = {})
  /\ UNCHANGED roots

WriteBlock(root, a, len, w) ==
  /\ pm' = WriteVirt(pm, root, a, len, w).m
  /\ tidy' = (tidy /\ a \div PageElem .. (a + len - 1) \div PageElem \subseteq LivePages(root))
  /\ UNCHANGED <<roots, live, used, failed>>

ReleaseBlock(root, v) ==
  /\ pm' = Release(pm, root, v)
  /\ live' = {b \in live : ~(b.root = root /\ b.v = v)}
  /\ tidy' = (tidy /\ live' # live)
  /\ UNCHANGED <<roots, used, failed>>

(* Neither clean function has a caller in src/.                            *)
CleanTables(root) ==
  /\ pm' = CleanPt(pm, root)
  /\ UNCHANGED <<roots, live, used, tidy, failed>>

DropRoot(root) ==
  /\ pm' = CleanTask(pm, root)
  /\ roots' = roots \ {root}
  /\ live' = {b \in live : b.root # root}
  /\ used' = {u \in used : u[1] # root}
  /\ tidy' = (tidy /\ PagesUsed(root) = LivePages(root))
  /\ UNCHANGED failed

(* Bound: the properties claim nothing after an untidy step or once the    *)
(* insertion cursor dangles, so behaviours end there.                      *)
Sound == tidy /\ pm.cur # 0

VMNext ==
  /\ ~pm.crashed
  /\ Sound
  /\ \/ NewRoot
     \/ \E root \in roots :
          \/ \E v \in Starts, n \in 1 .. MaxTake : AllocateBlock(root, v, n)
          \/ \E v \in Starts, i \in WriteFrom, w \in Words \ {0} :
               WriteBlock(root, v * PageElem + i, PageElem, w)
          \/ \E v \in Starts : ReleaseBlock(root, v)
          \/ CleanTables(root)
          \/ DropRoot(root)

VMSpec == VMInit /\ [][VMNext]_vmVars

-----------------------------------------------------------------------------
(* The caller's bookkeeping is well typed.                                 *)
VMTypeOK ==
  /\ roots \subseteq 1 .. MaxRange
  /\ live \subseteq [root : roots, v : Starts, n : 1 .. MaxTake, pa : 1 .. MaxRange]
  /\ used \subseteq roots \X Nat
  /\ tidy \in BOOLEAN /\ failed \in BOOLEAN

(* The page tables of a root: first the pages of valid root entries, then  *)
(* those of valid middle entries, with one element for each entry.         *)
MiddleTables == {x \in roots \X Offsets : IsValid(Entry(pm, x[1], x[2]))}
MiddlePage(x) == NextTable(pm, x[1], x[2])
LeafTables == {x \in roots \X Offsets \X Offsets :
                 /\ <<x[1], x[2]>> \in MiddleTables
                 /\ IsValid(Entry(pm, MiddlePage(<<x[1], x[2]>>), x[3]))}
LeafPage(x) == NextTable(pm, MiddlePage(<<x[1], x[2]>>), x[3])
TablePages == roots \cup {MiddlePage(x) : x \in MiddleTables} \cup {LeafPage(x) : x \in LeafTables}
DataPages == UNION {Run(b.pa, b.n) : b \in live}

(* No page serves two purposes: every valid entry leads to a table of its  *)
(* own, in a block of one page, and no table lies in a live block, however *)
(* allocations, releases and clean-ups of several contexts interleave.     *)
TablesPrivate ==
  Sound =>
    /\ Cardinality(TablePages)
         = Cardinality(roots) + Cardinality(MiddleTables) + Cardinality(LeafTables)
    /\ TablePages \cap DataPages = {}
    /\ \A p \in TablePages : Block(p, 1) \in ToSet(pm.blocks)

(* A block handed out translates, page by page, to the physical block that *)
(* was inserted for it, that block is still there, and no other live block *)
(* of any context lies on its pages.                                       *)
LiveBlocksMapped ==
  Sound =>
    \A b \in live :
      /\ \A i \in 0 .. b.n - 1 : Convert(pm, b.root, b.v + i) = b.pa + i
      /\ Block(b.pa, b.n) \in ToSet(pm.blocks)
      /\ \A c \in live \ {b} : Run(b.pa, b.n) \cap Run(c.pa, c.n) = {}

(* A context reaches physical memory only through pages it once asked for. *)
OnlyUsedMapped ==
  Sound => \A r \in roots : \A v \in VPages :
             Convert(pm, r, v) # 0 => <<r, v>> \in used

(* release takes no block but the one it was given: the reserved block and *)
(* the end marker, which usable relies on, survive every tidy history.     *)
FrameKept ==
  Sound => /\ pm.blocks[1] = Block(0, Reserved)
           /\ Last(pm.blocks) = Block(MaxRange, 1)

(* Until an allocation fails, every block is a root, a table or live data: *)
(* nothing is lost, whatever was released or cleaned in between.           *)
NothingLeaks ==
  Sound /\ ~failed =>
    ToSet(pm.blocks) = {Block(0, Reserved), Block(MaxRange, 1)}
                         \cup {Block(p, 1) : p \in TablePages}
                         \cup {Block(b.pa, b.n) : b \in live}

(* An allocate, whether it succeeds or gives up half way with its tables   *)
(* and blocks left behind, moves no page of a live block and changes no    *)
(* content of one: the caller's other buffers never notice.                *)
AllocateContained ==
  [][ (Sound /\ used' # used /\ roots' = roots /\ tidy') =>
        \A b \in live : \A i \in 0 .. b.n - 1 :
          /\ Convert(pm', b.root, b.v + i) = b.pa + i
          /\ pm'.pages[b.pa + i] = pm.pages[b.pa + i] ]_vmVars
=============================================================================
