------------------------- MODULE VirtualMemoryProofs -------------------------
(***************************************************************************)
(* Theorems about VirtualMemory: for tables, a RAM and requests of any     *)
(* size and any number of contexts, the tables of every root stay private, *)
(* every live block stays where its context finds it, and until a request  *)
(* fails no block is lost.                                                 *)
(*                                                                         *)
(* The argument: all blocks of the RAM are tables or belong to a set F     *)
(* (Tables); F holds the reserved block, the end marker and each live      *)
(* block under its own pages (Owned), and nothing else until an allocate   *)
(* fails.  That is inductive: each call of memory.h keeps the tables well  *)
(* formed and says what becomes of F and of every translation.             *)
(***************************************************************************)
EXTENDS VirtualMemory, MemoryProofs, FiniteSetTheorems

(* What the caller knows, typed.                                           *)
Books(R, L, W) ==
  /\ R \subseteq 1 .. MaxRange
  /\ L \subseteq [root : R, v : Starts, n : 1 .. MaxTake, pa : 1 .. MaxRange]
  /\ W \subseteq R \X VPages

LiveBlock(b) == Block(b.pa, b.n)

(* F are the blocks that are no tables: a live block is one of them, apart *)
(* from the frame and from any other live block, and its context finds it  *)
(* under pages it asked for, as everything else it finds.                  *)
Owned(m, R, L, W, F) ==
  /\ HasTables(m, R, F) /\ FrameBlocks \subseteq F
  /\ \A b \in L : LiveBlock(b) \in F \ FrameBlocks
  /\ \A b \in L, i \in Nat : i < b.n =>
       Convert(m, b.root, b.v + i) = b.pa + i /\ <<b.root, b.v + i>> \in W
  /\ \A b, c \in L : LiveBlock(b) = LiveBlock(c) => b = c
  /\ \A r \in R, v \in VPages : Convert(m, r, v) # 0 => <<r, v>> \in W

Accounted(m, R, L, W, f) ==
  \E F : /\ Owned(m, R, L, W, F)
         /\ ~f => F = FrameBlocks \cup {LiveBlock(b) : b \in L}

VMInv ==
  /\ Books(roots, live, used) /\ tidy \in BOOLEAN /\ failed \in BOOLEAN
  /\ Sound => Accounted(pm, roots, live, used, failed)

(* A block of the books: its pages lie in the address space.               *)
LEMMA BookTyped ==
  ASSUME NEW R, NEW L, NEW W, Books(R, L, W), NEW b \in L
  PROVE  /\ b = [root |-> b.root, v |-> b.v, n |-> b.n, pa |-> b.pa]
         /\ b.root \in R /\ b.v \in Nat /\ b.v \in Starts
         /\ b.n \in Nat \ {0} /\ b.pa \in Nat \ {0}
         /\ \A i \in Nat : i < b.n => b.v + i \in VPages
<1>1. b \in [root : R, v : Starts, n : 1 .. MaxTake, pa : 1 .. MaxRange]  BY DEF Books
<1>2. /\ b = [root |-> b.root, v |-> b.v, n |-> b.n, pa |-> b.pa]
      /\ b.root \in R /\ b.v \in Starts /\ b.n \in 1 .. MaxTake /\ b.pa \in 1 .. MaxRange
  BY <1>1
<1>3. MaxTake \in Nat /\ MaxRange \in Nat  BY PhysicalAssumption
<1>4. b.n \in Nat \ {0} /\ b.pa \in Nat \ {0} /\ b.n <= MaxTake  BY <1>2, <1>3
<1>5. b.v \in VPages  BY <1>2, VirtualAssumption
<1>6. b.v \in Nat  BY <1>5, Indexes
<1>7. ASSUME NEW i \in Nat, i < b.n PROVE b.v + i \in VPages
  <2>1. i \in 0 .. MaxTake - 1  BY <1>7, <1>4, <1>3
  <2> QED  BY <2>1, <1>2, VirtualAssumption
<1> QED  BY <1>2, <1>4, <1>6, <1>7

LEMMA RunTyped ==
  ASSUME NEW v \in Starts, NEW n \in 1 .. MaxTake
  PROVE  /\ v \in Nat /\ n \in Nat \ {0}
         /\ Run(v, n) \subseteq VPages
         /\ \A j \in 0 .. n - 1 : v + j \in VPages /\ v + j \in Run(v, n)
<1>1. MaxTake \in Nat  BY PhysicalAssumption
<1>2. n \in Nat \ {0} /\ n <= MaxTake  BY <1>1
<1>3. v \in Nat  BY VirtualAssumption, Indexes
<1>4. ASSUME NEW j \in 0 .. n - 1 PROVE v + j \in VPages /\ v + j \in Run(v, n)
  <2>1. j \in 0 .. MaxTake - 1  BY <1>2, <1>1
  <2>2. v + j \in VPages  BY <2>1, VirtualAssumption
  <2>3. v + j \in v .. v + n - 1  BY <1>2, <1>3
  <2> QED  BY <2>2, <2>3 DEF Run
<1>5. ASSUME NEW u \in Run(v, n) PROVE u \in VPages
  <2>1. u \in v .. v + n - 1  BY <1>5 DEF Run
  <2>2. u - v \in 0 .. n - 1 /\ v + (u - v) = u  BY <2>1, <1>2, <1>3
  <2> QED  BY <2>2, <1>4
<1> QED  BY <1>2, <1>3, <1>4, <1>5

(* Every call but create_root_pt and allocate: contexts, blocks and tables *)
(* go, but no translation that is left changes.                            *)
LEMMA OwnedLess ==
  ASSUME NEW m, NEW R, NEW L, NEW W, NEW F, Owned(m, R, L, W, F),
         NEW x, NEW Q, NEW K, NEW V, NEW G, Books(Q, K, V), Q \subseteq R, K \subseteq L,
         HasTables(x, Q, G), SameWays(m, x, Q), FrameBlocks \subseteq G,
         \A b \in K : LiveBlock(b) \in G,
         \A r \in Q, v \in VPages : <<r, v>> \in W => <<r, v>> \in V
  PROVE  Owned(x, Q, K, V, G)
<1>1. ASSUME NEW b \in K PROVE LiveBlock(b) \in G \ FrameBlocks  BY <1>1 DEF Owned
<1>2. ASSUME NEW b \in K, NEW i \in Nat, i < b.n
      PROVE  Convert(x, b.root, b.v + i) = b.pa + i /\ <<b.root, b.v + i>> \in V
  <2>1. b.root \in Q /\ b.v + i \in VPages  BY <1>2, BookTyped
  <2>2. Convert(m, b.root, b.v + i) = b.pa + i /\ <<b.root, b.v + i>> \in W
    BY <1>2 DEF Owned
  <2> QED  BY <2>1, <2>2 DEF SameWays
<1>3. ASSUME NEW b \in K, NEW c \in K, LiveBlock(b) = LiveBlock(c) PROVE b = c
  BY <1>3 DEF Owned
<1>4. ASSUME NEW r \in Q, NEW v \in VPages, Convert(x, r, v) # 0 PROVE <<r, v>> \in V
  BY <1>4 DEF Owned, SameWays
<1> QED  BY <1>1, <1>2, <1>3, <1>4 DEF Owned

(* A new root translates nothing yet.                                      *)
LEMMA OwnedRoot ==
  ASSUME NEW m, NEW R, NEW L, NEW W, NEW F, Books(R, L, W), Owned(m, R, L, W, F),
         NEW x, NEW a, HasTables(x, R \cup {a}, F), SameWays(m, x, R),
         \A w \in VPages : Convert(x, a, w) = 0
  PROVE  Owned(x, R \cup {a}, L, W, F)
<1>1. ASSUME NEW b \in L, NEW i \in Nat, i < b.n
      PROVE  Convert(x, b.root, b.v + i) = b.pa + i /\ <<b.root, b.v + i>> \in W
  <2>1. b.root \in R /\ b.v + i \in VPages  BY <1>1, BookTyped
  <2>2. Convert(m, b.root, b.v + i) = b.pa + i /\ <<b.root, b.v + i>> \in W
    BY <1>1 DEF Owned
  <2> QED  BY <2>1, <2>2 DEF SameWays
<1>2. ASSUME NEW r \in R \cup {a}, NEW v \in VPages, Convert(x, r, v) # 0
      PROVE  <<r, v>> \in W
  BY <1>2 DEF Owned, SameWays
<1> QED  BY <1>1, <1>2 DEF Owned

LEMMA OwnedBlocks ==
  ASSUME NEW m, NEW R, NEW L, NEW W, NEW F, Owned(m, R, L, W, F)
  PROVE  MemOK(m) /\ F \subseteq BlocksOf(m) /\ \A b \in L : LiveBlock(b) \in BlocksOf(m)
<1>1. PICK A, B : Tables(m, R, A, B, F)  BY DEF Owned, HasTables
<1>2. MemOK(m) /\ F \subseteq BlocksOf(m)  BY <1>1 DEF Tables
<1> QED  BY <1>2 DEF Owned

(* allocate, for pages its context has not asked for yet: the blocks that  *)
(* are live stay where they are, with every word, whether it succeeds or   *)
(* runs out of pages half way.                                             *)
StaysPut(m, x, L) ==
  \A b \in L, i \in Nat : i < b.n =>
    /\ Convert(x, b.root, b.v + i) = b.pa + i
    /\ x.pages[b.pa + i] = m.pages[b.pa + i]

AllocateDone(m, L, x, R, K, V, f, pa) ==
  Accounted(x, R, K, V, f \/ pa = 0) /\ StaysPut(m, x, L)

LEMMA AllocateAccount ==
  ASSUME NEW m, NEW R, NEW L, NEW W, NEW f, Books(R, L, W), Accounted(m, R, L, W, f),
         m.cur # 0, NEW root \in R, NEW v \in Starts, NEW n \in 1 .. MaxTake, NEW ub,
         \A u \in Run(v, n) : <<root, u>> \notin W,
         NEW x, x = Allocate(m, root, v, n, ub).m,
         NEW pa, pa = Allocate(m, root, v, n, ub).pa,
         NEW K, K = IF pa = 0 THEN L
                    ELSE L \cup {[root |-> root, v |-> v, n |-> n, pa |-> pa]},
         NEW V, V = W \cup ({root} \X Run(v, n))
  PROVE  AllocateDone(m, L, x, R, K, V, f, pa)
<1>1. PICK F : Owned(m, R, L, W, F) /\ (~f => F = FrameBlocks \cup {LiveBlock(b) : b \in L})
  BY DEF Accounted
<1>2. /\ v \in Nat /\ n \in Nat \ {0}
      /\ \A j \in 0 .. n - 1 : v + j \in VPages /\ v + j \in Run(v, n)
  BY RunTyped
<1>3. \A j \in 0 .. n - 1 : v + j \in VPages /\ Convert(m, root, v + j) = 0
  BY <1>1, <1>2 DEF Owned
<1>4. HasTables(m, R, F)  BY <1>1 DEF Owned
<1>5. Allocated(m, x, pa, R, F, root, v, n)  BY <1>2, <1>3, <1>4, AllocateStep
<1>6. MemOK(m) /\ F \subseteq BlocksOf(m)  BY <1>1, OwnedBlocks
<1>7. \A q \in R, w \in VPages : q # root \/ w \notin Run(v, n) =>
        Convert(x, q, w) = Convert(m, q, w)
  BY <1>5 DEF Allocated, Run
<1>8. ASSUME NEW b \in L, NEW i \in Nat, i < b.n
      PROVE  Convert(x, b.root, b.v + i) = b.pa + i /\ <<b.root, b.v + i>> \in V
  <2>1. b.root \in R /\ b.v + i \in VPages  BY <1>8, BookTyped
  <2>2. Convert(m, b.root, b.v + i) = b.pa + i /\ <<b.root, b.v + i>> \in W
    BY <1>1, <1>8 DEF Owned
  <2> QED  BY <2>1, <2>2, <1>7
<1>9. ASSUME NEW q \in R, NEW w \in VPages, Convert(x, q, w) # 0 PROVE <<q, w>> \in V
  <2>1. CASE q # root \/ w \notin Run(v, n)
    BY <2>1, <1>9, <1>7, <1>1 DEF Owned
  <2>2. CASE q = root /\ w \in Run(v, n)  BY <2>2
  <2> QED  BY <2>1, <2>2
<1>10. ASSUME NEW b \in L, NEW i \in Nat, i < b.n PROVE x.pages[b.pa + i] = m.pages[b.pa + i]
  <2>1. LiveBlock(b) \in F /\ LiveBlock(b) \notin FrameBlocks  BY <1>1 DEF Owned
  <2>2. b.pa \in Nat \ {0} /\ b.n \in Nat \ {0}  BY BookTyped
  <2>3. b.pa + i \in PagesOf(LiveBlock(b))
    <3>1. b.pa + i \in b.pa .. b.pa + b.n - 1  BY <2>2, <1>10
    <3>2. PagesOf(Block(b.pa, b.n)) = b.pa .. b.pa + b.n - 1  BY <2>2, PagesOfBlock
    <3> QED  BY <3>1, <3>2 DEF LiveBlock
  <2>4. b.pa + i \in DOMAIN m.pages  BY <2>1, <2>3, <1>6, BlockPages DEF FrameBlocks
  <2>5. KeepsWords(m, x, F)  BY <1>5 DEF Allocated
  <2> QED  BY <2>1, <2>3, <2>4, <2>5 DEF KeepsWords
<1>11. StaysPut(m, x, L)  BY <1>8, <1>10 DEF StaysPut
<1>12. CASE pa = 0
  <2>1. PICK G : F \subseteq G /\ HasTables(x, R, G)  BY <1>5, <1>12 DEF Allocated
  <2>2. K = L  BY <1>12
  <2>3. Owned(x, R, K, V, G)  BY <2>1, <2>2, <1>1, <1>8, <1>9 DEF Owned
  <2> QED  BY <2>3, <1>11, <1>12 DEF Accounted, AllocateDone
<1>13. CASE pa # 0
  <2> DEFINE new == [root |-> root, v |-> v, n |-> n, pa |-> pa]
             G == F \cup {Block(pa, n)}
  <2>1. /\ pa \in Nat /\ HasTables(x, R, G)
        /\ \A b \in BlocksOf(m) : \A p \in pa .. pa + n - 1 : p \notin PagesOf(b)
        /\ \A j \in 0 .. n - 1 : Convert(x, root, v + j) = pa + j
    BY <1>5, <1>13 DEF Allocated
  <2>2. K = L \cup {new}  BY <1>13
  <2>3. LiveBlock(new) = Block(pa, n)  BY DEF LiveBlock
  <2>4. Block(pa, n) \notin BlocksOf(m)
    <3>1. pa \in pa .. pa + n - 1  BY <2>1, <1>2
    <3>2. PagesOf(Block(pa, n)) = pa .. pa + n - 1  BY <2>1, <1>2, PagesOfBlock
    <3> QED  BY <3>1, <3>2, <2>1
  <2>5. Block(pa, n) \notin F /\ Block(pa, n) \notin FrameBlocks
    BY <2>4, <1>6, <1>1 DEF Owned
  <2>6. new.root = root /\ new.v = v /\ new.n = n /\ new.pa = pa  OBVIOUS
  <2> HIDE DEF new
  <2>7. FrameBlocks \subseteq G  BY <1>1 DEF Owned
  <2>8. ASSUME NEW b \in K PROVE LiveBlock(b) \in G \ FrameBlocks
    BY <2>2, <2>3, <2>5, <1>1 DEF Owned
  <2>9. ASSUME NEW b \in K, NEW i \in Nat, i < b.n
        PROVE  Convert(x, b.root, b.v + i) = b.pa + i /\ <<b.root, b.v + i>> \in V
    <3>1. CASE b \in L  BY <3>1, <2>9, <1>8
    <3>2. CASE b = new
      <4>1. i \in 0 .. n - 1  BY <3>2, <2>9, <2>6, <1>2
      <4>2. Convert(x, root, v + i) = pa + i  BY <4>1, <2>1
      <4>3. <<root, v + i>> \in V  BY <4>1, <1>2
      <4> QED  BY <4>2, <4>3, <3>2, <2>6
    <3> QED  BY <3>1, <3>2, <2>2, <2>9
  <2>10. ASSUME NEW b \in K, NEW c \in K, LiveBlock(b) = LiveBlock(c) PROVE b = c
    <3>1. \A y \in L : LiveBlock(y) \in F  BY <1>1 DEF Owned
    <3>2. CASE b \in L /\ c \in L  BY <3>2, <2>10, <1>1 DEF Owned
    <3> QED  BY <3>1, <3>2, <2>2, <2>3, <2>5, <2>10
  <2>11. Owned(x, R, K, V, G)  BY <2>1, <2>7, <2>8, <2>9, <2>10, <1>9 DEF Owned
  <2>12. ~f => G = FrameBlocks \cup {LiveBlock(b) : b \in K}
    <3>1. {LiveBlock(b) : b \in K} = {LiveBlock(b) : b \in L} \cup {LiveBlock(new)}
      BY <2>2
    <3> QED  BY <3>1, <2>3, <1>1
  <2> HIDE DEF G
  <2> QED  BY <2>11, <2>12, <1>11, <1>13 DEF Accounted, AllocateDone
<1> QED  BY <1>12, <1>13

(* The address allocate answers, whoever asks for it.                      *)
LEMMA AllocateAddress ==
  ASSUME NEW m, MemOK(m), m.cur # 0, NEW root, NEW v, NEW n \in Nat \ {0}, NEW ub,
         NEW pa, pa = Allocate(m, root, v, n, ub).pa, pa # 0
  PROVE  pa \in 1 .. MaxRange
<1> DEFINE a == Usable(m, n)
<1>1. pa = a
  <2>1. CASE a = 0 \/ ~Inserted(m, InsertBlock(m, a, n, ub))  BY <2>1, AllocateIs
  <2>2. CASE ~(a = 0 \/ ~Inserted(m, InsertBlock(m, a, n, ub)))
    <3>1. PICK h : Allocate(m, root, v, n, ub).pa = IF h[n].ok THEN a ELSE 0
      BY <2>2, AllocateIs
    <3> QED  BY <3>1
  <2> QED  BY <2>1, <2>2
<1>2. a \in Nat /\ Reserved <= a /\ a + n <= MaxRange  BY <1>1, TakeMem
<1> HIDE DEF a
<1> QED  BY <1>1, <1>2, PhysicalAssumption

(* A page of a live block is translated into that block.                   *)
LEMMA LiveFound ==
  ASSUME NEW m, NEW R, NEW L, NEW W, NEW F, Books(R, L, W), Owned(m, R, L, W, F),
         NEW b \in L, NEW u \in Run(b.v, b.n)
  PROVE  /\ u \in VPages /\ LiveBlock(b) \in F
         /\ Convert(m, b.root, u) \in PagesOf(LiveBlock(b))
         /\ Convert(m, b.root, u) # 0
         /\ Convert(m, b.root, u) = b.pa + (u - b.v)
<1>1. b.v \in Nat /\ b.n \in Nat \ {0} /\ b.pa \in Nat \ {0}  BY BookTyped
<1>2. u \in b.v .. b.v + b.n - 1  BY DEF Run
<1> DEFINE i == u - b.v
<1>3. i \in Nat /\ i < b.n /\ b.v + i = u  BY <1>1, <1>2
<1> HIDE DEF i
<1>4. u \in VPages  BY <1>3, BookTyped
<1>5. Convert(m, b.root, u) = b.pa + i
  <2>1. Convert(m, b.root, b.v + i) = b.pa + i  BY <1>3 DEF Owned
  <2> QED  BY <2>1, <1>3
<1>6. b.pa + i \in PagesOf(LiveBlock(b))
  <2>1. b.pa + i \in b.pa .. b.pa + b.n - 1  BY <1>1, <1>3
  <2>2. PagesOf(Block(b.pa, b.n)) = b.pa .. b.pa + b.n - 1  BY <1>1, PagesOfBlock
  <2> QED  BY <2>1, <2>2 DEF LiveBlock
<1>7. b.pa + i # 0  BY <1>1, <1>3
<1>8. LiveBlock(b) \in F  BY DEF Owned
<1> QED  BY <1>4, <1>5, <1>6, <1>7, <1>8 DEF i

LEMMA RunStarts ==
  ASSUME NEW v \in Nat, NEW n \in Nat \ {0}
  PROVE  v \in Run(v, n)
BY DEF Run

(* create_root_pt.                                                         *)
LEMMA RootAccount ==
  ASSUME NEW m, NEW R, NEW L, NEW W, NEW f, Books(R, L, W), Accounted(m, R, L, W, f),
         m.cur # 0, NEW ub, NEW x, x = CreateRootPt(m, ub),
         NEW Q, Q = (R \cup {Usable(m, 1)}) \ {0}
  PROVE  Accounted(x, Q, L, W, f)
<1>1. PICK F : Owned(m, R, L, W, F) /\ (~f => F = FrameBlocks \cup {LiveBlock(b) : b \in L})
  BY DEF Accounted
<1> DEFINE a == Usable(m, 1)
<1>2. 0 \notin R  BY DEF Books
<1>3. CASE a = 0
  <2>1. x = m /\ Q = R  BY <1>2, <1>3 DEF CreateRootPt
  <2> QED  BY <2>1
<1>4. CASE a # 0
  <2>1. Q = R \cup {a}  BY <1>2, <1>4
  <2>2. HasTables(m, R, F)  BY <1>1 DEF Owned
  <2>3. RootMade(m, x, a, R, Q, F)  BY <2>1, <2>2, <1>4, NewRootStep
  <2> HIDE DEF a
  <2>4. Owned(x, Q, L, W, F)  BY <1>1, <2>1, <2>3, OwnedRoot DEF RootMade
  <2> QED  BY <2>1, <2>4, <1>1 DEF Accounted
<1> QED  BY <1>3, <1>4

LEMMA RootBooks ==
  ASSUME NEW m, NEW R, NEW L, NEW W, Books(R, L, W), MemOK(m), m.cur # 0,
         NEW Q, Q = (R \cup {Usable(m, 1)}) \ {0}
  PROVE  Books(Q, L, W)
<1> DEFINE a == Usable(m, 1)
<1>1. a # 0 => a \in Nat /\ Reserved <= a /\ a + 1 <= MaxRange  BY TakeMem
<1> HIDE DEF a
<1>2. Q = (R \cup {a}) \ {0}  BY DEF a
<1>3. MaxRange \in Nat /\ Reserved \in Nat /\ 0 < Reserved  BY PhysicalAssumption
<1>4. a # 0 => a \in 1 .. MaxRange  BY <1>1, <1>3
<1>5. 0 \notin R /\ R \subseteq 1 .. MaxRange  BY DEF Books
<1>6. R \subseteq Q /\ Q \subseteq 1 .. MaxRange  BY <1>2, <1>4, <1>5
<1>7. L \subseteq [root : Q, v : Starts, n : 1 .. MaxTake, pa : 1 .. MaxRange]
  <2>1. SUFFICES ASSUME NEW b \in L
                 PROVE  b \in [root : Q, v : Starts, n : 1 .. MaxTake, pa : 1 .. MaxRange]
    OBVIOUS
  <2>2. b \in [root : R, v : Starts, n : 1 .. MaxTake, pa : 1 .. MaxRange]  BY DEF Books
  <2> QED  BY <2>2, <1>6
<1>8. W \subseteq Q \X VPages  BY <1>6 DEF Books
<1> QED  BY <1>6, <1>7, <1>8 DEF Books

(* act_virt with write_data, within live blocks.                           *)
LEMMA WriteAccount ==
  ASSUME NEW m, NEW R, NEW L, NEW W, NEW f, Books(R, L, W), Accounted(m, R, L, W, f),
         NEW r \in R, NEW a \in Nat, NEW len \in Nat \ {0}, NEW w \in Nat,
         \A u \in a \div PageElem .. (a + len - 1) \div PageElem :
           \E b \in L : b.root = r /\ u \in Run(b.v, b.n),
         NEW x, x = WriteVirt(m, r, a, len, w).m
  PROVE  Accounted(x, R, L, W, f)
<1>1. PICK F : Owned(m, R, L, W, F) /\ (~f => F = FrameBlocks \cup {LiveBlock(b) : b \in L})
  BY DEF Accounted
<1>2. ASSUME NEW u \in a \div PageElem .. (a + len - 1) \div PageElem
      PROVE  u \in VPages /\ \E b \in F : Convert(m, r, u) \in PagesOf(b)
  <2>1. PICK b \in L : b.root = r /\ u \in Run(b.v, b.n)  OBVIOUS
  <2>2. /\ u \in VPages /\ LiveBlock(b) \in F
        /\ Convert(m, b.root, u) \in PagesOf(LiveBlock(b))
    BY <2>1, <1>1, LiveFound
  <2> QED  BY <2>1, <2>2
<1>3. HasTables(m, R, F)  BY <1>1 DEF Owned
<1>4. HasTables(x, R, F) /\ SameWays(m, x, R)  BY <1>2, <1>3, WriteVirtStep
<1>5. Owned(x, R, L, W, F)
  <2>1. FrameBlocks \subseteq F /\ \A b \in L : LiveBlock(b) \in F  BY <1>1 DEF Owned
  <2> QED  BY <1>1, <1>4, <2>1, OwnedLess
<1> QED  BY <1>1, <1>5 DEF Accounted

(* clean_pt.                                                               *)
LEMMA CleanAccount ==
  ASSUME NEW m, NEW R, NEW L, NEW W, NEW f, Books(R, L, W), Accounted(m, R, L, W, f),
         NEW r \in R, NEW x, x = CleanPt(m, r)
  PROVE  Accounted(x, R, L, W, f)
<1>1. PICK F : Owned(m, R, L, W, F) /\ (~f => F = FrameBlocks \cup {LiveBlock(b) : b \in L})
  BY DEF Accounted
<1>2. HasTables(m, R, F)  BY <1>1 DEF Owned
<1>3. Shrunk(m, x, R, F)  BY <1>2, CleanPtStep
<1>4. HasTables(x, R, F) /\ SameWays(m, x, R)  BY <1>3 DEF Shrunk
<1>5. Owned(x, R, L, W, F)
  <2>1. FrameBlocks \subseteq F /\ \A b \in L : LiveBlock(b) \in F  BY <1>1 DEF Owned
  <2> QED  BY <1>1, <1>4, <2>1, OwnedLess
<1> QED  BY <1>1, <1>5 DEF Accounted

(* Two live blocks that share a page of the RAM are one.                   *)
LEMMA LiveApart ==
  ASSUME NEW m, NEW R, NEW L, NEW W, NEW F, Owned(m, R, L, W, F),
         NEW b \in L, NEW c \in L,
         NEW p, p \in PagesOf(LiveBlock(b)), p \in PagesOf(LiveBlock(c))
  PROVE  b = c
<1>1. MemOK(m) /\ LiveBlock(b) \in BlocksOf(m) /\ LiveBlock(c) \in BlocksOf(m)
  BY OwnedBlocks
<1>2. LiveBlock(b) = LiveBlock(c)  BY <1>1, BlocksApart
<1> QED  BY <1>2 DEF Owned

LEMMA FewerBooks ==
  ASSUME NEW R, NEW L, NEW W, Books(R, L, W), NEW Q, NEW K, NEW V,
         Q \subseteq R, K \subseteq L, V \subseteq W,
         \A b \in K : b.root \in Q, \A u \in V : u[1] \in Q
  PROVE  Books(Q, K, V)
<1>1. Q \subseteq 1 .. MaxRange  BY DEF Books
<1>2. ASSUME NEW b \in K
      PROVE  b \in [root : Q, v : Starts, n : 1 .. MaxTake, pa : 1 .. MaxRange]
  <2>1. b \in [root : R, v : Starts, n : 1 .. MaxTake, pa : 1 .. MaxRange]  BY DEF Books
  <2> QED  BY <2>1
<1>3. ASSUME NEW u \in V PROVE u \in Q \X VPages
  <2>1. u \in R \X VPages  BY DEF Books
  <2> QED  BY <2>1
<1> QED  BY <1>1, <1>2, <1>3 DEF Books

(* release: exactly the block the caller names goes.                       *)
LEMMA ReleaseAccount ==
  ASSUME NEW m, NEW R, NEW L, NEW W, NEW f, Books(R, L, W), Accounted(m, R, L, W, f),
         NEW r \in R, NEW v, NEW K, K = {b \in L : ~(b.root = r /\ b.v = v)}, K # L,
         NEW x, x = Release(m, r, v)
  PROVE  Accounted(x, R, K, W, f)
<1>1. PICK F : Owned(m, R, L, W, F) /\ (~f => F = FrameBlocks \cup {LiveBlock(b) : b \in L})
  BY DEF Accounted
<1>2. PICK d \in L : d.root = r /\ d.v = v  OBVIOUS
<1>3. ASSUME NEW c \in L, c.root = r, c.v = v
      PROVE  Convert(m, r, v) \in PagesOf(LiveBlock(c))
  <2>1. c.v \in Run(c.v, c.n)  BY BookTyped, RunStarts
  <2>2. Convert(m, c.root, c.v) \in PagesOf(LiveBlock(c))  BY <2>1, <1>1, LiveFound
  <2> QED  BY <2>2, <1>3
<1>4. Convert(m, r, v) \in PagesOf(LiveBlock(d))  BY <1>2, <1>3
<1>5. K = L \ {d}
  <2>1. ASSUME NEW c \in L, c.root = r, c.v = v PROVE c = d
    <3>1. Convert(m, r, v) \in PagesOf(LiveBlock(c))  BY <2>1, <1>3
    <3> QED  BY <3>1, <1>4, <1>1, LiveApart
  <2> QED  BY <2>1, <1>2
<1>6. HasTables(m, R, F) /\ LiveBlock(d) \in F /\ LiveBlock(d) \notin FrameBlocks
  BY <1>1 DEF Owned
<1>7. HasTables(x, R, F \ {LiveBlock(d)}) /\ SameWays(m, x, R)
  BY <1>4, <1>6, ReleaseStep
<1> DEFINE G == F \ {LiveBlock(d)}
<1>8. ASSUME NEW b \in K PROVE LiveBlock(b) \in G
  BY <1>1, <1>5 DEF Owned
<1>9. FrameBlocks \subseteq G  BY <1>1, <1>6 DEF Owned
<1>10. Books(R, K, W)
  <2>1. \A b \in K : b.root \in R  BY BookTyped
  <2>2. \A u \in W : u[1] \in R  BY DEF Books
  <2> QED  BY <2>1, <2>2, FewerBooks
<1>11. ~f => G = FrameBlocks \cup {LiveBlock(b) : b \in K}
  <2>1. {LiveBlock(b) : b \in K} = {LiveBlock(b) : b \in L} \ {LiveBlock(d)}
    BY <1>1, <1>5 DEF Owned
  <2> QED  BY <2>1, <1>1, <1>6
<1>12. HasTables(x, R, G)  BY <1>7
<1> HIDE DEF G
<1>13. Owned(x, R, K, W, G)  BY <1>1, <1>5, <1>7, <1>8, <1>9, <1>10, <1>12, OwnedLess
<1> QED  BY <1>11, <1>13 DEF Accounted

(* clean_task: the blocks of the context go, those of the others stay.     *)
LEMMA DropAccount ==
  ASSUME NEW m, NEW R, NEW L, NEW W, NEW f, Books(R, L, W), Accounted(m, R, L, W, f),
         NEW r \in R, \A u : <<r, u>> \in W => \E b \in L : b.root = r /\ u \in Run(b.v, b.n),
         NEW K, K = {b \in L : b.root # r}, NEW V, V = {u \in W : u[1] # r},
         NEW x, x = CleanTask(m, r)
  PROVE  Accounted(x, R \ {r}, K, V, f)
<1>1. PICK F : Owned(m, R, L, W, F) /\ (~f => F = FrameBlocks \cup {LiveBlock(b) : b \in L})
  BY DEF Accounted
<1> DEFINE D == {LiveBlock(b) : b \in {c \in L : c.root = r}}
           Q == R \ {r}
           G == F \ D
<1>2. D \subseteq F /\ D \cap FrameBlocks = {}  BY <1>1 DEF Owned
<1>3. ASSUME NEW v \in VPages, Convert(m, r, v) # 0
      PROVE  \E b \in D : Convert(m, r, v) \in PagesOf(b)
  <2>1. <<r, v>> \in W  BY <1>1, <1>3 DEF Owned
  <2>2. PICK b \in L : b.root = r /\ v \in Run(b.v, b.n)  BY <2>1
  <2>3. Convert(m, b.root, v) \in PagesOf(LiveBlock(b))  BY <2>2, <1>1, LiveFound
  <2> QED  BY <2>2, <2>3
<1>4. ASSUME NEW b \in D
      PROVE  \E v \in VPages : Convert(m, r, v) # 0 /\ Convert(m, r, v) \in PagesOf(b)
  <2>1. PICK c \in L : c.root = r /\ b = LiveBlock(c)  OBVIOUS
  <2>2. c.v \in Run(c.v, c.n)  BY BookTyped, RunStarts
  <2>3. /\ c.v \in VPages /\ Convert(m, c.root, c.v) # 0
        /\ Convert(m, c.root, c.v) \in PagesOf(LiveBlock(c))
    BY <2>2, <1>1, LiveFound
  <2> QED  BY <2>1, <2>3
<1>5. HasTables(m, R, F)  BY <1>1 DEF Owned
<1>6. FrameBlocks \subseteq G  BY <1>1, <1>2 DEF Owned
<1>7. ASSUME NEW b \in K PROVE LiveBlock(b) \in G
  <2>1. b \in L /\ b.root # r  OBVIOUS
  <2>2. LiveBlock(b) \in F  BY <2>1, <1>1 DEF Owned
  <2>3. LiveBlock(b) \notin D
    <3>1. ASSUME NEW c \in L, c.root = r, LiveBlock(b) = LiveBlock(c) PROVE FALSE
      <4>1. b = c  BY <2>1, <3>1, <1>1 DEF Owned
      <4> QED  BY <4>1, <2>1, <3>1
    <3> QED  BY <3>1
  <2> QED  BY <2>2, <2>3
<1>8. ~f => G = FrameBlocks \cup {LiveBlock(b) : b \in K}
  <2>1. D \cup {LiveBlock(b) : b \in K} = {LiveBlock(b) : b \in L}  OBVIOUS
  <2>2. D \cap {LiveBlock(b) : b \in K} = {}  BY <1>7
  <2> HIDE DEF D
  <2> QED  BY <2>1, <2>2, <1>1, <1>2
<1>9. Books(Q, K, V)
  <2>1. \A b \in K : b.root \in Q  BY BookTyped
  <2>2. \A u \in V : u[1] \in Q  BY DEF Books
  <2> HIDE DEF Q
  <2> QED  BY <2>1, <2>2, FewerBooks DEF Q
<1> HIDE DEF D
<1>10. HasTables(x, R \ {r}, F \ D) /\ SameWays(m, x, R \ {r})
  BY <1>2, <1>3, <1>4, <1>5, CleanTaskStep
<1>11. HasTables(x, Q, G) /\ SameWays(m, x, Q) /\ Q \subseteq R  BY <1>10
<1>12. \A q \in Q, v \in VPages : <<q, v>> \in W => <<q, v>> \in V  OBVIOUS
<1>13. K \subseteq L  OBVIOUS
<1> HIDE DEF G, Q
<1>14. Owned(x, Q, K, V, G)
  BY <1>1, <1>6, <1>7, <1>9, <1>11, <1>12, <1>13, OwnedLess
<1>15. Accounted(x, Q, K, V, f)  BY <1>8, <1>14 DEF Accounted
<1> QED  BY <1>15 DEF Q

(* The RAM as it starts: nothing but the frame.                            *)
LEMMA VMInvInit == VMInit => VMInv
<1> SUFFICES ASSUME VMInit PROVE VMInv  OBVIOUS
<1>1. pm = InitialMemory /\ roots = {} /\ live = {} /\ used = {}
  BY DEF VMInit, PMInit
<1>2. tidy \in BOOLEAN /\ failed \in BOOLEAN  BY DEF VMInit
<1>3. Owned(pm, roots, live, used, FrameBlocks)  BY <1>1, InitialTables DEF Owned
<1>4. {LiveBlock(b) : b \in live} = {}  BY <1>1
<1>5. Accounted(pm, roots, live, used, failed)  BY <1>3, <1>4 DEF Accounted
<1>6. Books(roots, live, used)  BY <1>1 DEF Books
<1> QED  BY <1>2, <1>5, <1>6 DEF VMInv

LEMMA AccountedRAM ==
  ASSUME NEW m, NEW R, NEW L, NEW W, NEW f, Accounted(m, R, L, W, f)
  PROVE  MemOK(m)
BY OwnedBlocks DEF Accounted

LEMMA NewRootInv == VMInv /\ Sound /\ NewRoot => VMInv'
<1> SUFFICES ASSUME VMInv, Sound, NewRoot PROVE VMInv'  OBVIOUS
<1>1. /\ Books(roots, live, used) /\ Accounted(pm, roots, live, used, failed)
      /\ pm.cur # 0 /\ tidy \in BOOLEAN /\ failed \in BOOLEAN
  BY DEF VMInv, Sound
<1>2. PICK ub : pm' = CreateRootPt(pm, ub)  BY DEF NewRoot
<1>3. /\ roots' = (roots \cup {Usable(pm, 1)}) \ {0}
      /\ live' = live /\ used' = used /\ tidy' = tidy /\ failed' = failed
  BY DEF NewRoot
<1>4. Books(roots', live, used)  BY <1>1, <1>3, AccountedRAM, RootBooks
<1>5. Accounted(pm', roots', live, used, failed)  BY <1>1, <1>2, <1>3, RootAccount
<1> QED  BY <1>1, <1>3, <1>4, <1>5 DEF VMInv

(* What one allocate adds to the books, kept to unused pages or not.       *)
LEMMA AllocateBooks ==
  ASSUME NEW m, NEW R, NEW L, NEW W, Books(R, L, W), MemOK(m), m.cur # 0,
         NEW root \in R, NEW v \in Starts, NEW n \in 1 .. MaxTake, NEW ub,
         NEW pa, pa = Allocate(m, root, v, n, ub).pa,
         NEW K, K = IF pa = 0 THEN L
                    ELSE L \cup {[root |-> root, v |-> v, n |-> n, pa |-> pa]},
         NEW V, V = W \cup ({root} \X Run(v, n))
  PROVE  Books(R, K, V)
<1>1. n \in Nat \ {0} /\ Run(v, n) \subseteq VPages  BY RunTyped
<1>2. pa # 0 => pa \in 1 .. MaxRange  BY <1>1, AllocateAddress
<1>3. V \subseteq R \X VPages  BY <1>1 DEF Books
<1>4. K \subseteq [root : R, v : Starts, n : 1 .. MaxTake, pa : 1 .. MaxRange]
  BY <1>2 DEF Books
<1> QED  BY <1>3, <1>4 DEF Books

LEMMA AllocateInv ==
  ASSUME VMInv, Sound, NEW root \in roots, NEW v \in Starts, NEW n \in 1 .. MaxTake,
         AllocateBlock(root, v, n)
  PROVE  VMInv' /\ (tidy' => StaysPut(pm, pm', live))
<1>1. /\ Books(roots, live, used) /\ Accounted(pm, roots, live, used, failed)
      /\ pm.cur # 0 /\ tidy \in BOOLEAN /\ failed \in BOOLEAN /\ MemOK(pm)
  BY AccountedRAM DEF VMInv, Sound
<1>2. PICK ub : LET r == Allocate(pm, root, v, n, ub)
                IN  /\ pm' = r.m
                    /\ live' = IF r.pa = 0 THEN live
                               ELSE live \cup {[root |-> root, v |-> v, n |-> n, pa |-> r.pa]}
                    /\ failed' = (failed \/ r.pa = 0)
  BY DEF AllocateBlock
<1> DEFINE pa == Allocate(pm, root, v, n, ub).pa
<1>3. /\ pm' = Allocate(pm, root, v, n, ub).m
      /\ live' = IF pa = 0 THEN live
                 ELSE live \cup {[root |-> root, v |-> v, n |-> n, pa |-> pa]}
      /\ failed' = (failed \/ pa = 0)
  BY <1>2
<1>4. /\ used' = used \cup ({root} \X Run(v, n)) /\ roots' = roots
      /\ tidy' = (tidy /\ Run(v, n) \cap PagesUsed(root) = {})
  BY DEF AllocateBlock
<1>5. pa = Allocate(pm, root, v, n, ub).pa  OBVIOUS
<1> HIDE DEF pa
<1>6. Books(roots, live', used')  BY <1>1, <1>3, <1>4, <1>5, AllocateBooks
<1>7. tidy' \in BOOLEAN /\ failed' \in BOOLEAN  BY <1>3, <1>4
<1>8. ASSUME tidy'
      PROVE  Accounted(pm', roots, live', used', failed') /\ StaysPut(pm, pm', live)
  <2>1. \A u \in Run(v, n) : <<root, u>> \notin used
    <3>1. SUFFICES ASSUME NEW u \in Run(v, n), <<root, u>> \in used PROVE FALSE  OBVIOUS
    <3>2. u \in PagesUsed(root)
      <4>1. <<root, u>>[1] = root /\ <<root, u>>[2] = u  OBVIOUS
      <4> QED  BY <3>1, <4>1 DEF PagesUsed
    <3> QED  BY <3>1, <3>2, <1>4, <1>8
  <2> DEFINE x == pm'
             K == live'
             V == used'
  <2>2. /\ x = Allocate(pm, root, v, n, ub).m
        /\ K = IF pa = 0 THEN live
               ELSE live \cup {[root |-> root, v |-> v, n |-> n, pa |-> pa]}
        /\ V = used \cup ({root} \X Run(v, n))
    BY <1>3, <1>4
  <2> HIDE DEF x, K, V
  <2>3. AllocateDone(pm, live, x, roots, K, V, failed, pa)
    BY <1>1, <1>5, <2>1, <2>2, AllocateAccount
  <2> QED  BY <2>3, <1>3 DEF x, K, V, AllocateDone
<1>9. Sound' => tidy'  BY DEF Sound
<1> QED  BY <1>4, <1>6, <1>7, <1>8, <1>9 DEF VMInv

LEMMA InLivePages ==
  ASSUME NEW root, NEW u \in LivePages(root)
  PROVE  \E b \in live : b.root = root /\ u \in Run(b.v, b.n)
BY DEF LivePages

LEMMA WriteInv ==
  ASSUME VMInv, Sound, NEW root \in roots, NEW v \in Starts, NEW i \in WriteFrom,
         NEW w \in Words, WriteBlock(root, v * PageElem + i, PageElem, w)
  PROVE  VMInv'
<1>1. /\ Books(roots, live, used) /\ Accounted(pm, roots, live, used, failed)
      /\ pm.cur # 0 /\ tidy \in BOOLEAN /\ failed \in BOOLEAN
  BY DEF VMInv, Sound
<1> DEFINE a == v * PageElem + i
<1>2. /\ pm' = WriteVirt(pm, root, a, PageElem, w).m
      /\ tidy' = (tidy /\ a \div PageElem .. (a + PageElem - 1) \div PageElem
                            \subseteq LivePages(root))
      /\ roots' = roots /\ live' = live /\ used' = used /\ failed' = failed
  BY DEF WriteBlock
<1>3. PageElem \in Nat \ {0} /\ w \in Nat  BY PhysicalAssumption
<1>4. v \in Nat /\ i \in Nat
  <2>1. v \in VPages /\ i \in Offsets  BY VirtualAssumption
  <2> QED  BY <2>1, <1>3, Indexes DEF Offsets
<1>5. a \in Nat  BY <1>3, <1>4
<1> HIDE DEF a
<1>6. ASSUME tidy' PROVE Accounted(pm', roots, live, used, failed)
  <2>1. \A u \in a \div PageElem .. (a + PageElem - 1) \div PageElem :
          \E b \in live : b.root = root /\ u \in Run(b.v, b.n)
    BY <1>2, <1>6, InLivePages
  <2> DEFINE x == pm'
  <2>2. x = WriteVirt(pm, root, a, PageElem, w).m  BY <1>2
  <2> HIDE DEF x
  <2>3. Accounted(x, roots, live, used, failed)
    BY <1>1, <1>3, <1>5, <2>1, <2>2, WriteAccount
  <2> QED  BY <2>3 DEF x
<1>7. tidy' \in BOOLEAN  BY <1>2
<1>8. Sound' => tidy'  BY DEF Sound
<1> QED  BY <1>1, <1>2, <1>6, <1>7, <1>8 DEF VMInv

LEMMA ReleaseInv ==
  ASSUME VMInv, Sound, NEW root \in roots, NEW v \in Starts, ReleaseBlock(root, v)
  PROVE  VMInv'
<1>1. /\ Books(roots, live, used) /\ Accounted(pm, roots, live, used, failed)
      /\ pm.cur # 0 /\ tidy \in BOOLEAN /\ failed \in BOOLEAN
  BY DEF VMInv, Sound
<1>2. /\ pm' = Release(pm, root, v)
      /\ live' = {b \in live : ~(b.root = root /\ b.v = v)}
      /\ tidy' = (tidy /\ live' # live)
      /\ roots' = roots /\ used' = used /\ failed' = failed
  BY DEF ReleaseBlock
<1>3. Books(roots, live', used)
  <2>1. \A b \in live' : b.root \in roots  BY <1>1, <1>2, BookTyped
  <2>2. \A u \in used : u[1] \in roots  BY <1>1 DEF Books
  <2> QED  BY <2>1, <2>2, <1>1, <1>2, FewerBooks
<1>4. tidy' => Accounted(pm', roots, live', used, failed)
  BY <1>1, <1>2, ReleaseAccount
<1>5. tidy' \in BOOLEAN  BY <1>2
<1>6. Sound' => tidy'  BY DEF Sound
<1> QED  BY <1>1, <1>2, <1>3, <1>4, <1>5, <1>6 DEF VMInv

LEMMA CleanInv ==
  ASSUME VMInv, Sound, NEW root \in roots, CleanTables(root)
  PROVE  VMInv'
<1>1. /\ Books(roots, live, used) /\ Accounted(pm, roots, live, used, failed)
      /\ tidy \in BOOLEAN /\ failed \in BOOLEAN
  BY DEF VMInv, Sound
<1>2. /\ pm' = CleanPt(pm, root) /\ tidy' = tidy
      /\ roots' = roots /\ live' = live /\ used' = used /\ failed' = failed
  BY DEF CleanTables
<1>3. Accounted(pm', roots, live, used, failed)  BY <1>1, <1>2, CleanAccount
<1> QED  BY <1>1, <1>2, <1>3 DEF VMInv

LEMMA DropInv ==
  ASSUME VMInv, Sound, NEW root \in roots, DropRoot(root)
  PROVE  VMInv'
<1>1. /\ Books(roots, live, used) /\ Accounted(pm, roots, live, used, failed)
      /\ tidy \in BOOLEAN /\ failed \in BOOLEAN
  BY DEF VMInv, Sound
<1>2. /\ pm' = CleanTask(pm, root)
      /\ roots' = roots \ {root}
      /\ live' = {b \in live : b.root # root}
      /\ used' = {u \in used : u[1] # root}
      /\ tidy' = (tidy /\ PagesUsed(root) = LivePages(root))
      /\ failed' = failed
  BY DEF DropRoot
<1>3. Books(roots', live', used')
  <2>1. \A b \in live' : b.root \in roots'  BY <1>1, <1>2, BookTyped
  <2>2. \A u \in used' : u[1] \in roots'  BY <1>1, <1>2 DEF Books
  <2>3. roots' \subseteq roots /\ live' \subseteq live /\ used' \subseteq used  BY <1>2
  <2> QED  BY <2>1, <2>2, <2>3, <1>1, FewerBooks
<1>4. ASSUME tidy' PROVE Accounted(pm', roots', live', used', failed)
  <2>1. ASSUME NEW u, <<root, u>> \in used
        PROVE  \E b \in live : b.root = root /\ u \in Run(b.v, b.n)
    <3>1. <<root, u>>[1] = root /\ <<root, u>>[2] = u  OBVIOUS
    <3>2. u \in PagesUsed(root)  BY <2>1, <3>1 DEF PagesUsed
    <3>3. u \in LivePages(root)  BY <3>2, <1>2, <1>4
    <3> QED  BY <3>3, InLivePages
  <2> DEFINE x == pm'
             K == live'
             V == used'
  <2>2. /\ x = CleanTask(pm, root) /\ K = {b \in live : b.root # root}
        /\ V = {u \in used : u[1] # root}
    BY <1>2
  <2> HIDE DEF x, K, V
  <2>3. Accounted(x, roots \ {root}, K, V, failed)
    BY <1>1, <2>1, <2>2, DropAccount
  <2> QED  BY <2>3, <1>2 DEF x, K, V
<1>5. tidy' \in BOOLEAN  BY <1>2
<1>6. Sound' => tidy'  BY DEF Sound
<1> QED  BY <1>1, <1>2, <1>3, <1>4, <1>5, <1>6 DEF VMInv

LEMMA VMInvStep == VMInv /\ [VMNext]_vmVars => VMInv'
<1> SUFFICES ASSUME VMInv, [VMNext]_vmVars PROVE VMInv'  OBVIOUS
<1>1. CASE VMNext
  <2>1. Sound  BY <1>1 DEF VMNext
  <2>2. CASE NewRoot  BY <2>1, <2>2, NewRootInv
  <2>3. ASSUME NEW root \in roots, NEW v \in Starts, NEW n \in 1 .. MaxTake,
               AllocateBlock(root, v, n)
        PROVE  VMInv'
    BY <2>1, <2>3, AllocateInv
  <2>4. ASSUME NEW root \in roots, NEW v \in Starts, NEW i \in WriteFrom,
               NEW w \in Words \ {0}, WriteBlock(root, v * PageElem + i, PageElem, w)
        PROVE  VMInv'
    BY <2>1, <2>4, WriteInv
  <2>5. ASSUME NEW root \in roots, NEW v \in Starts, ReleaseBlock(root, v) PROVE VMInv'
    BY <2>1, <2>5, ReleaseInv
  <2>6. ASSUME NEW root \in roots, CleanTables(root) PROVE VMInv'
    BY <2>1, <2>6, CleanInv
  <2>7. ASSUME NEW root \in roots, DropRoot(root) PROVE VMInv'
    BY <2>1, <2>7, DropInv
  <2> QED  BY <1>1, <2>2, <2>3, <2>4, <2>5, <2>6, <2>7 DEF VMNext
<1>2. CASE UNCHANGED vmVars
  BY <1>2 DEF vmVars, VMInv, Sound, Accounted, Owned, HasTables
<1> QED  BY <1>1, <1>2

(* The books are typed whatever the caller does (VMTypeOK).                *)
LEMMA InvTyped == VMInv => VMTypeOK
<1> SUFFICES ASSUME VMInv PROVE VMTypeOK  OBVIOUS
<1>1. Books(roots, live, used) /\ tidy \in BOOLEAN /\ failed \in BOOLEAN  BY DEF VMInv
<1>2. used \subseteq roots \X Nat  BY <1>1, Indexes DEF Books
<1> QED  BY <1>1, <1>2 DEF VMTypeOK, Books

(* memory.h: every root, block and page handed out is one (VMTypeOK).      *)
THEOREM BooksTyped == VMSpec => []VMTypeOK
BY VMInvInit, VMInvStep, InvTyped, PTL DEF VMSpec

(* What a live block's place in Owned says of it.                          *)
LEMMA InvMapped == VMInv => LiveBlocksMapped
<1> SUFFICES ASSUME VMInv, Sound, NEW b \in live
             PROVE  /\ \A i \in 0 .. b.n - 1 : Convert(pm, b.root, b.v + i) = b.pa + i
                    /\ Block(b.pa, b.n) \in ToSet(pm.blocks)
                    /\ \A c \in live \ {b} : Run(b.pa, b.n) \cap Run(c.pa, c.n) = {}
  BY DEF LiveBlocksMapped
<1>1. Books(roots, live, used)  BY DEF VMInv
<1>2. PICK F : Owned(pm, roots, live, used, F)  BY DEF VMInv, Accounted
<1>3. ASSUME NEW i \in 0 .. b.n - 1 PROVE Convert(pm, b.root, b.v + i) = b.pa + i
  <2>1. i \in Nat /\ i < b.n  BY <1>1, BookTyped
  <2> QED  BY <2>1, <1>2 DEF Owned
<1>4. Block(b.pa, b.n) \in ToSet(pm.blocks)
  BY <1>2, OwnedBlocks DEF BlocksOf, LiveBlock
<1>5. ASSUME NEW c \in live, NEW p, p \in Run(b.pa, b.n), p \in Run(c.pa, c.n)
      PROVE  c = b
  <2>1. /\ PagesOf(LiveBlock(b)) = Run(b.pa, b.n)
        /\ PagesOf(LiveBlock(c)) = Run(c.pa, c.n)
    BY <1>1, BookTyped, PagesOfBlock DEF LiveBlock, Run
  <2> QED  BY <1>2, <1>5, <2>1, LiveApart
<1> QED  BY <1>3, <1>4, <1>5

(* memory.h allocate, convert: a live block is found under the pages it    *)
(* was asked for, lies in the RAM's list, and shares no page with another  *)
(* context's or its own context's blocks (LiveBlocksMapped).               *)
THEOREM BlocksMapped == VMSpec => []LiveBlocksMapped
BY VMInvInit, VMInvStep, InvMapped, PTL DEF VMSpec

LEMMA InvUsed == VMInv => OnlyUsedMapped
BY DEF VMInv, OnlyUsedMapped, Accounted, Owned

(* memory.h convert: no context reaches the RAM through a page it did not  *)
(* ask allocate for (OnlyUsedMapped).                                      *)
THEOREM UsedMapped == VMSpec => []OnlyUsedMapped
BY VMInvInit, VMInvStep, InvUsed, PTL DEF VMSpec

(* The frame is first and last in the list.                                *)
LEMMA InvFrame == VMInv => FrameKept
<1> SUFFICES ASSUME VMInv, Sound
             PROVE  pm.blocks[1] = Block(0, Reserved) /\ Last(pm.blocks) = Block(MaxRange, 1)
  BY DEF FrameKept
<1>1. PICK F : Owned(pm, roots, live, used, F)  BY DEF VMInv, Accounted
<1>2. MemOK(pm) /\ FrameBlocks \subseteq BlocksOf(pm)  BY <1>1, OwnedBlocks DEF Owned
<1> DEFINE n == Len(pm.blocks)
<1>3. /\ n \in Nat /\ BlocksOf(pm) = {pm.blocks[k] : k \in 1 .. n}
      /\ \A k \in 1 .. n : pm.blocks[k].addr \in Nat /\ BlockEnd(pm.blocks[k]) \in Nat
                           /\ pm.blocks[k].addr < BlockEnd(pm.blocks[k])
  BY <1>2, BlocksListed, ListTyped DEF MemOK
<1>4. \A i, j \in 1 .. n : i < j => BlockEnd(pm.blocks[i]) <= pm.blocks[j].addr
  BY <1>2 DEF MemOK, Ordered, Before
<1>5. MaxRange \in Nat /\ Reserved \in Nat  BY PhysicalAssumption
<1>6. pm.blocks[1] = Block(0, Reserved)
  <2>1. PICK k \in 1 .. n : pm.blocks[k] = Block(0, Reserved)
    BY <1>2, <1>3 DEF FrameBlocks
  <2>2. pm.blocks[k].addr = 0  BY <2>1 DEF Block
  <2>3. 1 \in 1 .. n  BY <1>3
  <2>4. ASSUME 1 < k PROVE FALSE
    <3>1. BlockEnd(pm.blocks[1]) <= 0  BY <2>2, <2>3, <2>4, <1>4
    <3>2. /\ pm.blocks[1].addr \in Nat /\ BlockEnd(pm.blocks[1]) \in Nat
          /\ pm.blocks[1].addr < BlockEnd(pm.blocks[1])
      BY <2>3, <1>3
    <3> QED  BY <3>1, <3>2
  <2>5. k = 1  BY <2>4, <1>3
  <2> QED  BY <2>1, <2>5
<1>7. pm.blocks[n] = Block(MaxRange, 1)
  <2>1. PICK k \in 1 .. n : pm.blocks[k] = Block(MaxRange, 1)
    BY <1>2, <1>3 DEF FrameBlocks
  <2>2. BlockEnd(pm.blocks[k]) = MaxRange + 1  BY <2>1, <1>5, BlockTyped
  <2>3. n \in 1 .. n  BY <1>3
  <2>4. pm.blocks[n].addr \in Nat /\ pm.blocks[n].addr <= MaxRange
    <3>1. pm.blocks[n] \in BlocksOf(pm)  BY <2>3, <1>3
    <3>2. CASE pm.blocks[n] = Block(0, Reserved) \/ pm.blocks[n] = Block(MaxRange, 1)
      BY <3>2, <1>5 DEF Block
    <3>3. CASE pm.blocks[n] # Block(0, Reserved) /\ pm.blocks[n] # Block(MaxRange, 1)
      <4>1. pm.blocks[n].addr \in PagesOf(pm.blocks[n])  BY <3>1, <1>2, BlocksListed
      <4>2. pm.blocks[n].addr \in Nat /\ pm.blocks[n].addr < MaxRange
        BY <4>1, <3>1, <3>3, <1>2, BlockPages
      <4> QED  BY <4>2, <1>5
    <3> QED  BY <3>2, <3>3
  <2>5. ASSUME k < n PROVE FALSE
    <3>1. BlockEnd(pm.blocks[k]) <= pm.blocks[n].addr  BY <2>3, <2>5, <1>4
    <3> QED  BY <3>1, <2>2, <2>4, <1>5
  <2>6. k = n  BY <2>5, <1>3
  <2> QED  BY <2>1, <2>6
<1> QED  BY <1>6, <1>7 DEF Last

(* memory.h release: the reserved block and the end marker, which usable   *)
(* relies on, stay first and last (FrameKept).                             *)
THEOREM FrameStays == VMSpec => []FrameKept
BY VMInvInit, VMInvStep, InvFrame, PTL DEF VMSpec

(* The tables that TablePages names are those of Tables.                   *)
LEMMA TablesNamed ==
  ASSUME NEW A, NEW B, NEW F, Tables(pm, roots, A, B, F)
  PROVE  /\ {MiddlePage(x) : x \in MiddleTables} = A
         /\ \A x, y \in MiddleTables : MiddlePage(x) = MiddlePage(y) => x = y
         /\ {LeafPage(x) : x \in LeafTables} = B
         /\ \A x, y \in LeafTables : LeafPage(x) = LeafPage(y) => x = y
<1>1. Leads(pm, roots, A) /\ Leads(pm, A, B) /\ MemOK(pm)  BY DEF Tables
<1>2. \A p, i : IsValid(Entry(pm, p, i)) => Entry(pm, p, i) # 0
  BY EntryFacts
<1>3. ASSUME NEW x \in MiddleTables
      PROVE  /\ x[1] \in roots /\ x[2] \in Offsets /\ x = <<x[1], x[2]>>
             /\ Entry(pm, x[1], x[2]) # 0 /\ MiddlePage(x) \in A
  <2>1. x[1] \in roots /\ x[2] \in Offsets /\ x = <<x[1], x[2]>>
        /\ IsValid(Entry(pm, x[1], x[2]))
    BY DEF MiddleTables
  <2> QED  BY <2>1, <1>1, <1>2 DEF Leads, MiddlePage
<1>4. ASSUME NEW p \in A PROVE \E x \in MiddleTables : MiddlePage(x) = p
  <2>1. PICK r \in roots, i \in Offsets : Entry(pm, r, i) # 0 /\ NextTable(pm, r, i) = p
    BY <1>1 DEF Leads
  <2>2. IsValid(Entry(pm, r, i))  BY <2>1, <1>1 DEF Leads
  <2>3. <<r, i>> \in MiddleTables  BY <2>2 DEF MiddleTables
  <2>4. MiddlePage(<<r, i>>) = p  BY <2>1 DEF MiddlePage
  <2> QED  BY <2>3, <2>4
<1>5. {MiddlePage(x) : x \in MiddleTables} = A  BY <1>3, <1>4
<1>6. ASSUME NEW x \in MiddleTables, NEW y \in MiddleTables, MiddlePage(x) = MiddlePage(y)
      PROVE  x = y
  <2>1. x[1] = y[1] /\ x[2] = y[2]
    BY <1>3, <1>6, <1>1, LeadsApart DEF MiddlePage
  <2> QED  BY <2>1, <1>3
<1>7. ASSUME NEW x \in LeafTables
      PROVE  /\ x[1] \in roots /\ x[2] \in Offsets /\ x[3] \in Offsets
             /\ x = <<x[1], x[2], x[3]>> /\ <<x[1], x[2]>> \in MiddleTables
             /\ Entry(pm, MiddlePage(<<x[1], x[2]>>), x[3]) # 0
             /\ MiddlePage(<<x[1], x[2]>>) \in A /\ LeafPage(x) \in B
  <2>1. x \in roots \X Offsets \X Offsets  BY DEF LeafTables
  <2>2. x[1] \in roots /\ x[2] \in Offsets /\ x[3] \in Offsets /\ x = <<x[1], x[2], x[3]>>
    BY <2>1
  <2>3. /\ <<x[1], x[2]>> \in MiddleTables
        /\ IsValid(Entry(pm, MiddlePage(<<x[1], x[2]>>), x[3]))
    BY DEF LeafTables
  <2>4. MiddlePage(<<x[1], x[2]>>) \in A  BY <2>3, <1>3
  <2> QED  BY <2>2, <2>3, <2>4, <1>1, <1>2 DEF Leads, LeafPage
<1>8. ASSUME NEW p \in B PROVE \E x \in LeafTables : LeafPage(x) = p
  <2>1. PICK t \in A, j \in Offsets : Entry(pm, t, j) # 0 /\ NextTable(pm, t, j) = p
    BY <1>1 DEF Leads
  <2>2. IsValid(Entry(pm, t, j))  BY <2>1, <1>1 DEF Leads
  <2>3. PICK y \in MiddleTables : MiddlePage(y) = t  BY <1>4
  <2>4. y[1] \in roots /\ y[2] \in Offsets /\ y = <<y[1], y[2]>>  BY <1>3
  <2> DEFINE x == <<y[1], y[2], j>>
  <2>5. x \in roots \X Offsets \X Offsets  BY <2>4
  <2>6. x[1] = y[1] /\ x[2] = y[2] /\ x[3] = j  OBVIOUS
  <2> HIDE DEF x
  <2>7. <<x[1], x[2]>> = y  BY <2>4, <2>6
  <2>8. x \in LeafTables  BY <2>2, <2>3, <2>5, <2>6, <2>7 DEF LeafTables
  <2>9. LeafPage(x) = p  BY <2>1, <2>3, <2>6, <2>7 DEF LeafPage
  <2> QED  BY <2>8, <2>9
<1>9. {LeafPage(x) : x \in LeafTables} = B  BY <1>7, <1>8
<1>10. ASSUME NEW x \in LeafTables, NEW y \in LeafTables, LeafPage(x) = LeafPage(y)
       PROVE  x = y
  <2> DEFINE s == <<x[1], x[2]>>
             t == <<y[1], y[2]>>
  <2>1. /\ s \in MiddleTables /\ MiddlePage(s) \in A /\ Entry(pm, MiddlePage(s), x[3]) # 0
        /\ t \in MiddleTables /\ MiddlePage(t) \in A /\ Entry(pm, MiddlePage(t), y[3]) # 0
        /\ x[3] \in Offsets /\ y[3] \in Offsets
    BY <1>7
  <2>2. NextTable(pm, MiddlePage(s), x[3]) = NextTable(pm, MiddlePage(t), y[3])
    BY <1>10 DEF LeafPage
  <2>3. s[1] = x[1] /\ s[2] = x[2] /\ t[1] = y[1] /\ t[2] = y[2]  OBVIOUS
  <2> HIDE DEF s, t
  <2>4. MiddlePage(s) = MiddlePage(t) /\ x[3] = y[3]
    BY <2>1, <2>2, <1>1, LeadsApart
  <2>5. s = t  BY <2>1, <2>4, <1>6
  <2>6. x[1] = y[1] /\ x[2] = y[2]  BY <2>3, <2>5
  <2> QED  BY <2>4, <2>6, <1>7
<1> QED  BY <1>5, <1>6, <1>9, <1>10

LEMMA TablePagesAre ==
  ASSUME NEW A, NEW B, NEW F, Tables(pm, roots, A, B, F)
  PROVE  TablePages = roots \cup A \cup B
BY TablesNamed DEF TablePages

(* Until a request fails, every block is accounted for.                    *)
LEMMA InvNoLeak == VMInv => NothingLeaks
<1> SUFFICES ASSUME VMInv, Sound, ~failed
             PROVE  ToSet(pm.blocks) = {Block(0, Reserved), Block(MaxRange, 1)}
                                         \cup {Block(p, 1) : p \in TablePages}
                                         \cup {Block(b.pa, b.n) : b \in live}
  BY DEF NothingLeaks
<1>1. PICK F : /\ Owned(pm, roots, live, used, F)
               /\ F = FrameBlocks \cup {LiveBlock(b) : b \in live}
  BY DEF VMInv, Accounted
<1>2. PICK A, B : Tables(pm, roots, A, B, F)  BY <1>1 DEF Owned, HasTables
<1>3. BlocksOf(pm) = F \cup TableBlocks(roots \cup A \cup B)  BY <1>2 DEF Tables
<1>4. TableBlocks(roots \cup A \cup B) = {Block(p, 1) : p \in TablePages}
  BY <1>2, TablePagesAre DEF TableBlocks
<1>5. {LiveBlock(b) : b \in live} = {Block(b.pa, b.n) : b \in live}  BY DEF LiveBlock
<1> QED  BY <1>1, <1>3, <1>4, <1>5 DEF BlocksOf, FrameBlocks

(* memory.h: as long as no allocate has failed, each block of the RAM is   *)
(* the frame, a table some root reaches, or live data (NothingLeaks).      *)
THEOREM NoBlockLost == VMSpec => []NothingLeaks
BY VMInvInit, VMInvStep, InvNoLeak, PTL DEF VMSpec

(* Sets with a one-to-one function between them are of one size.           *)
LEMMA SameSize ==
  ASSUME NEW S, NEW T, IsFiniteSet(T), NEW f \in [S -> T],
         \A x, y \in S : f[x] = f[y] => x = y, \A t \in T : \E x \in S : f[x] = t
  PROVE  Cardinality(S) = Cardinality(T)
<1>1. f \in Injection(S, T)  BY DEF Injection, IsInjective
<1>2. f \in Surjection(S, T)  BY DEF Surjection
<1> QED  BY <1>1, <1>2, FS_Injection

LEMMA PagesFinite ==
  ASSUME NEW m, NEW R, NEW A, NEW B, NEW F, Tables(m, R, A, B, F)
  PROVE  /\ IsFiniteSet(R) /\ IsFiniteSet(A) /\ IsFiniteSet(B)
         /\ Cardinality(R \cup A \cup B) = Cardinality(R) + Cardinality(A) + Cardinality(B)
<1>1. MaxRange \in Nat  BY PhysicalAssumption
<1>2. IsFiniteSet(0 .. MaxRange)  BY <1>1, FS_Interval
<1>3. ASSUME NEW p \in R \cup A \cup B PROVE p \in 0 .. MaxRange
  <2>1. p \in Nat /\ p \in DOMAIN m.pages  BY DEF Tables
  <2>2. p < MaxRange  BY <2>1 DEF Tables, MemOK, Backed
  <2> QED  BY <2>1, <2>2, <1>1
<1>4. IsFiniteSet(R) /\ IsFiniteSet(A) /\ IsFiniteSet(B)
  <2>1. R \in SUBSET (0 .. MaxRange) /\ A \in SUBSET (0 .. MaxRange)
        /\ B \in SUBSET (0 .. MaxRange)
    BY <1>3
  <2> QED  BY <2>1, <1>2, FS_Subset
<1>5. /\ Cardinality(R) \in Nat /\ Cardinality(A) \in Nat /\ Cardinality(B) \in Nat
      /\ Cardinality({}) = 0
  BY <1>4, FS_CardinalityType, FS_EmptySet
<1>6. IsFiniteSet(R \cup A) /\ Cardinality(R \cup A) = Cardinality(R) + Cardinality(A)
  <2>1. Cardinality(R \cap A) = 0
    <3>1. R \cap A = {}  BY DEF Tables
    <3> QED  BY <3>1, FS_EmptySet
  <2>2. /\ IsFiniteSet(R \cup A)
        /\ Cardinality(R \cup A) = Cardinality(R) + Cardinality(A) - Cardinality(R \cap A)
    BY <1>4, FS_Union
  <2> QED  BY <2>1, <2>2, <1>5
<1>7. Cardinality((R \cup A) \cup B) = Cardinality(R \cup A) + Cardinality(B)
  <2>1. Cardinality((R \cup A) \cap B) = 0
    <3>1. (R \cup A) \cap B = {}  BY DEF Tables
    <3> QED  BY <3>1, FS_EmptySet
  <2>2. Cardinality((R \cup A) \cup B)
          = Cardinality(R \cup A) + Cardinality(B) - Cardinality((R \cup A) \cap B)
    BY <1>4, <1>6, FS_Union
  <2>3. Cardinality(R \cup A) \in Nat  BY <1>5, <1>6
  <2> QED  BY <2>1, <2>2, <2>3, <1>5
<1> QED  BY <1>4, <1>6, <1>7

(* Each valid entry has a table of its own, a block of one page that no    *)
(* live block touches.                                                     *)
LEMMA InvPrivate == VMInv => TablesPrivate
<1> SUFFICES ASSUME VMInv, Sound
             PROVE  /\ Cardinality(TablePages)
                         = Cardinality(roots) + Cardinality(MiddleTables)
                             + Cardinality(LeafTables)
                    /\ TablePages \cap DataPages = {}
                    /\ \A p \in TablePages : Block(p, 1) \in ToSet(pm.blocks)
  BY DEF TablesPrivate
<1>1. Books(roots, live, used)  BY DEF VMInv
<1>2. PICK F : Owned(pm, roots, live, used, F)  BY DEF VMInv, Accounted
<1>3. PICK A, B : Tables(pm, roots, A, B, F)  BY <1>2 DEF Owned, HasTables
<1>4. TablePages = roots \cup A \cup B  BY <1>3, TablePagesAre
<1>5. Cardinality(MiddleTables) = Cardinality(A)
  <2> DEFINE f == [x \in MiddleTables |-> MiddlePage(x)]
  <2>1. /\ {MiddlePage(x) : x \in MiddleTables} = A
        /\ \A x, y \in MiddleTables : MiddlePage(x) = MiddlePage(y) => x = y
    BY <1>3, TablesNamed
  <2>2. /\ f \in [MiddleTables -> A]
        /\ \A x, y \in MiddleTables : f[x] = f[y] => x = y
        /\ \A t \in A : \E x \in MiddleTables : f[x] = t
    BY <2>1
  <2> HIDE DEF f
  <2> QED  BY <2>2, <1>3, PagesFinite, SameSize
<1>6. Cardinality(LeafTables) = Cardinality(B)
  <2> DEFINE f == [x \in LeafTables |-> LeafPage(x)]
  <2>1. /\ {LeafPage(x) : x \in LeafTables} = B
        /\ \A x, y \in LeafTables : LeafPage(x) = LeafPage(y) => x = y
    BY <1>3, TablesNamed
  <2>2. /\ f \in [LeafTables -> B]
        /\ \A x, y \in LeafTables : f[x] = f[y] => x = y
        /\ \A t \in B : \E x \in LeafTables : f[x] = t
    BY <2>1
  <2> HIDE DEF f
  <2> QED  BY <2>2, <1>3, PagesFinite, SameSize
<1>7. ASSUME NEW p \in TablePages, p \in DataPages PROVE FALSE
  <2>1. PICK b \in live : p \in Run(b.pa, b.n)  BY <1>7 DEF DataPages
  <2>2. p \in PagesOf(LiveBlock(b))
    BY <2>1, <1>1, BookTyped, PagesOfBlock DEF LiveBlock, Run
  <2>3. LiveBlock(b) \in F  BY <1>2 DEF Owned
  <2> QED  BY <2>2, <2>3, <1>3, <1>4, TableInNoOther
<1>8. ASSUME NEW p \in TablePages PROVE Block(p, 1) \in ToSet(pm.blocks)
  BY <1>3, <1>4 DEF Tables, TableBlocks, BlocksOf
<1> QED  BY <1>3, <1>4, <1>5, <1>6, <1>7, <1>8, PagesFinite

(* memory.h: no page serves two purposes, however the calls of several     *)
(* contexts interleave (TablesPrivate).                                    *)
THEOREM TablesStayPrivate == VMSpec => []TablesPrivate
BY VMInvInit, VMInvStep, InvPrivate, PTL DEF VMSpec

(* An allocate, successful or not, moves nobody's pages.                   *)
LEMMA AllocateContains ==
  ASSUME VMInv, [VMNext]_vmVars, Sound, used' # used, roots' = roots, tidy'
  PROVE  \A b \in live : \A i \in 0 .. b.n - 1 :
           /\ Convert(pm', b.root, b.v + i) = b.pa + i
           /\ pm'.pages[b.pa + i] = pm.pages[b.pa + i]
<1>1. VMNext  BY DEF vmVars
<1>2. Books(roots, live, used)  BY DEF VMInv
<1>3. PICK root \in roots, v \in Starts, n \in 1 .. MaxTake : AllocateBlock(root, v, n)
  <2>1. ~NewRoot  BY DEF NewRoot
  <2>2. \A r \in roots : /\ ~DropRoot(r) /\ ~CleanTables(r)
                         /\ \A u : ~ReleaseBlock(r, u)
                         /\ \A a, len, w : ~WriteBlock(r, a, len, w)
    BY DEF DropRoot, CleanTables, ReleaseBlock, WriteBlock
  <2> QED  BY <1>1, <2>1, <2>2 DEF VMNext
<1>4. StaysPut(pm, pm', live)  BY <1>3, AllocateInv
<1> SUFFICES ASSUME NEW b \in live, NEW i \in 0 .. b.n - 1
             PROVE  /\ Convert(pm', b.root, b.v + i) = b.pa + i
                    /\ pm'.pages[b.pa + i] = pm.pages[b.pa + i]
  OBVIOUS
<1>5. i \in Nat /\ i < b.n  BY <1>2, BookTyped
<1> QED  BY <1>4, <1>5 DEF StaysPut

(* memory.h allocate: whether it succeeds or gives up half way, the blocks *)
(* that are live keep their pages and every word (AllocateContained).      *)
THEOREM AllocateHurtsNobody == VMSpec => AllocateContained
<1>1. VMInv /\ [VMNext]_vmVars =>
        [ (Sound /\ used' # used /\ roots' = roots /\ tidy') =>
            \A b \in live : \A i \in 0 .. b.n - 1 :
              /\ Convert(pm', b.root, b.v + i) = b.pa + i
              /\ pm'.pages[b.pa + i] = pm.pages[b.pa + i] ]_vmVars
  BY AllocateContains
<1> QED  BY <1>1, VMInvInit, VMInvStep, PTL DEF VMSpec, AllocateContained
=============================================================================
