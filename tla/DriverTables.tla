---------------------------- MODULE DriverTables -----------------------------
(***************************************************************************)
(* The MMU of the GPU (MMU.tla) over page tables as the driver builds them *)
(* (PageTables.tla).  The two number the levels from opposite ends, give   *)
(* the root as a page number and as an address, and take an entry apart at *)
(* different bits: what the hardware answers must be the entry whose page  *)
(* Memory::convert finds in software, the way every access is translated   *)
(* today (processor.h:144).                                                *)
(*                                                                         *)
(* The tables are built before the MMU is used and stay: Blocks are the    *)
(* allocations of one context, in order.  The promise is about pages that  *)
(* are mapped: neither walk looks at the V bit, the software one stops at  *)
(* an address of 0, the hardware one reads on in page 0.                   *)
(***************************************************************************)
EXTENDS MMU, SequencesExt

CONSTANTS
  RamPages,  \* pages of RAM, the reserved page 0 included
  Blocks     \* what is allocated: <<first virtual page, pages>>

(* The operators of PageTables; its variable pm plays no part here.        *)
Tables == INSTANCE PageTables WITH
            MaxRange <- RamPages, Reserved <- 1, MaxTake <- RamPages, Words <- {0}, pm <- fl

Root == Tables!Usable(Tables!InitialMemory, 1)

BuiltTables ==
  FoldLeft(LAMBDA m, b : Tables!Allocate(m, Root, b[1], b[2], "crash").m,
           Tables!CreateRootPt(Tables!InitialMemory, "crash"), Blocks)

(* The words of the RAM as the memory port of the MMU sees them.           *)
TablesMemory ==
  [a \in 0 .. RamPages * PageElem - 1 |->
     Tables!ReadWord(BuiltTables, a \div PageElem, a % PageElem)]

MappedPages ==
  {v \in Tables!VPages : \E i \in 1 .. Len(Blocks) :
     Blocks[i][1] <= v /\ v < Blocks[i][1] + Blocks[i][2]}

ASSUME TablesAssumption == Memory = TablesMemory => Vpns \subseteq MappedPages /\ Roots = {Root}

(* The MMU answers every request for a mapped page once, with the entry    *)
(* that leads where Memory::convert leads, however walks overtake each     *)
(* other.                                                                  *)
SoftwareEntry == [p \in [vpn : Vpns, root : Roots] |->
                    Tables!SetPTE(Tables!Convert(BuiltTables, p.root, p.vpn))]

Promise == INSTANCE Translation WITH
             Pages <- [vpn : Vpns, root : Roots], Target <- SoftwareEntry,
             answer <- q.tlbRsp
TranslatesLikeDriver == Promise!TSpec
=============================================================================
