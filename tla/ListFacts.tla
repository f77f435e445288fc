------------------------------ MODULE ListFacts ------------------------------
(***************************************************************************)
(* Facts about the library operators the models are built from: inserting  *)
(* into and removing from a sequence, and the least and greatest member of *)
(* a bounded set of integers.                                              *)
(***************************************************************************)
EXTENDS Integers, Sequences, FiniteSets, SequencesExt, SequenceTheorems,
        FiniteSetTheorems, WellFoundedInduction, TLAPS

(* What a sequence t is that has e put at position i of s; and what t is   *)
(* when position i of s was taken out.                                     *)
HasInserted(t, s, i, e) ==
  /\ Len(t) = Len(s) + 1
  /\ \A k \in 1 .. Len(s) + 1 :
       t[k] = IF k < i THEN s[k] ELSE IF k = i THEN e ELSE s[k - 1]

HasRemoved(t, s, i) ==
  /\ Len(t) = Len(s) - 1
  /\ \A k \in 1 .. Len(s) - 1 : t[k] = IF k < i THEN s[k] ELSE s[k + 1]

(* InsertAt adds one element at the position named and shifts the rest up. *)
LEMMA InsertAtFacts ==
  ASSUME NEW S, NEW s \in Seq(S), NEW i \in 1 .. Len(s) + 1, NEW e \in S
  PROVE  /\ InsertAt(s, i, e) \in Seq(S)
         /\ HasInserted(InsertAt(s, i, e), s, i, e)
<1>0. Len(s) \in Nat /\ \A k \in 1 .. Len(s) : s[k] \in S
  BY LenProperties, ElementOfSeq
<1> DEFINE l == SubSeq(s, 1, i - 1)
           r == SubSeq(s, i, Len(s))
<1>1. /\ l \in Seq(S)
      /\ Len(l) = i - 1
      /\ \A k \in 1 .. i - 1 : l[k] = s[k]
  <2>1. \A k \in 1 .. i - 1 : s[k] \in S
    BY <1>0
  <2> QED
    BY <1>0, <2>1, SubSeqProperties
<1>2. /\ r \in Seq(S)
      /\ Len(r) = Len(s) - i + 1
      /\ \A k \in 1 .. Len(s) - i + 1 : r[k] = s[i + k - 1]
  <2>1. \A k \in i .. Len(s) : s[k] \in S
    BY <1>0
  <2> QED
    BY <1>0, <2>1, SubSeqProperties
<1>3. <<e>> \in Seq(S) /\ Len(<<e>>) = 1 /\ <<e>>[1] = e
  OBVIOUS
<1> HIDE DEF l, r
<1>4. /\ l \o <<e>> \in Seq(S)
      /\ Len(l \o <<e>>) = i
      /\ \A k \in 1 .. i : (l \o <<e>>)[k] = IF k < i THEN s[k] ELSE e
  BY <1>0, <1>1, <1>3, ConcatProperties
<1>5. /\ (l \o <<e>>) \o r \in Seq(S)
      /\ Len((l \o <<e>>) \o r) = Len(s) + 1
      /\ \A k \in 1 .. Len(s) + 1 :
           ((l \o <<e>>) \o r)[k] = IF k <= i THEN (l \o <<e>>)[k] ELSE r[k - i]
  <2> DEFINE h == l \o <<e>>
  <2>1. h \in Seq(S) /\ Len(h) = i
    BY <1>4
  <2> HIDE DEF h
  <2>2. /\ h \o r \in Seq(S)
        /\ Len(h \o r) = Len(h) + Len(r)
        /\ \A k \in 1 .. Len(h) + Len(r) :
             (h \o r)[k] = IF k <= Len(h) THEN h[k] ELSE r[k - Len(h)]
    BY <2>1, <1>2, ConcatProperties
  <2>3. Len(h) + Len(r) = Len(s) + 1
    BY <1>0, <1>2, <2>1
  <2> QED
    BY <2>1, <2>2, <2>3 DEF h
<1>6. InsertAt(s, i, e) = (l \o <<e>>) \o r
  BY DEF InsertAt, l, r
<1> QED
  BY <1>0, <1>2, <1>4, <1>5, <1>6 DEF HasInserted

(* RemoveAt takes one element out and closes the gap.                      *)
LEMMA RemoveAtFacts ==
  ASSUME NEW S, NEW s \in Seq(S), NEW i \in 1 .. Len(s)
  PROVE  /\ RemoveAt(s, i) \in Seq(S)
         /\ HasRemoved(RemoveAt(s, i), s, i)
<1>0. Len(s) \in Nat /\ \A k \in 1 .. Len(s) : s[k] \in S
  BY LenProperties, ElementOfSeq
<1> DEFINE l == SubSeq(s, 1, i - 1)
           r == SubSeq(s, i + 1, Len(s))
<1>1. /\ l \in Seq(S)
      /\ Len(l) = i - 1
      /\ \A k \in 1 .. i - 1 : l[k] = s[k]
  <2>1. \A k \in 1 .. i - 1 : s[k] \in S
    BY <1>0
  <2> QED
    BY <1>0, <2>1, SubSeqProperties
<1>2. /\ r \in Seq(S)
      /\ Len(r) = Len(s) - i
      /\ \A k \in 1 .. Len(s) - i : r[k] = s[i + k]
  <2>1. \A k \in i + 1 .. Len(s) : s[k] \in S
    BY <1>0
  <2> QED
    BY <1>0, <2>1, SubSeqProperties
<1> HIDE DEF l, r
<1>3. /\ l \o r \in Seq(S)
      /\ Len(l \o r) = Len(s) - 1
      /\ \A k \in 1 .. Len(s) - 1 : (l \o r)[k] = IF k <= i - 1 THEN l[k] ELSE r[k - (i - 1)]
  <2>1. /\ l \o r \in Seq(S)
        /\ Len(l \o r) = Len(l) + Len(r)
        /\ \A k \in 1 .. Len(l) + Len(r) :
             (l \o r)[k] = IF k <= Len(l) THEN l[k] ELSE r[k - Len(l)]
    BY <1>1, <1>2, ConcatProperties
  <2>2. Len(l) + Len(r) = Len(s) - 1
    BY <1>0, <1>1, <1>2
  <2> QED
    BY <1>1, <2>1, <2>2
<1>4. RemoveAt(s, i) = l \o r
  BY DEF RemoveAt, l, r
<1> QED
  <2>1. \A k \in 1 .. Len(s) - 1 :
          (l \o r)[k] = IF k < i THEN s[k] ELSE s[k + 1]
    <3> SUFFICES ASSUME NEW k \in 1 .. Len(s) - 1
                 PROVE (l \o r)[k] = IF k < i THEN s[k] ELSE s[k + 1]
      OBVIOUS
    <3>1. CASE k < i
      BY <1>0, <1>1, <1>3, <3>1
    <3>2. CASE ~(k < i)
      <4>1. ~(k <= i - 1) /\ k - (i - 1) \in 1 .. Len(s) - i
        BY <1>0, <3>2
      <4>4. (l \o r)[k] = r[k - (i - 1)]
        BY <1>3, <4>1
      <4>2. r[k - (i - 1)] = s[i + (k - (i - 1))]
        BY <1>2, <4>1
      <4>3. i + (k - (i - 1)) = k + 1
        BY <1>0
      <4> QED
        BY <3>2, <4>2, <4>3, <4>4
    <3> QED
      BY <3>1, <3>2
  <2> QED
    BY <1>3, <1>4, <2>1 DEF HasRemoved

-----------------------------------------------------------------------------
(* A non-empty set of integers between two bounds has a least member.      *)
LEMMA LeastExists ==
  ASSUME NEW a \in Int, NEW b \in Int, NEW S, S \subseteq a .. b, S # {}
  PROVE  \E x \in S : \A y \in S : x <= y
<1> DEFINE R == StrictSubsetOrdering(a .. b)
           T == {a .. n : n \in S}
<1>1. IsWellFoundedOn(R, SUBSET (a .. b))
  BY FS_Interval, FS_FiniteSubsetsOfFinite, FS_StrictSubsetOrderingWellFounded
<1>2. T \subseteq SUBSET (a .. b) /\ T # {}
  <2>1. \A n \in S : a .. n \subseteq a .. b
    OBVIOUS
  <2>2. PICK n \in S : TRUE
    OBVIOUS
  <2> QED
    BY <2>1, <2>2
<1> HIDE DEF R
<1>3. PICK t \in T : \A u \in T : <<u, t>> \notin R
  BY <1>1, <1>2, WFMin
<1>4. PICK x \in S : t = a .. x
  OBVIOUS
<1>5. ASSUME NEW y \in S, ~(x <= y) PROVE FALSE
  <2>1. a .. y \in T /\ a .. y \subseteq a .. x /\ a .. y # a .. x
    <3>1. x \in a .. x /\ x \notin a .. y
      BY <1>5
    <3> QED
      BY <1>5, <3>1
  <2>2. <<a .. y, t>> \in R
    BY <1>2, <1>4, <2>1 DEF R, StrictSubsetOrdering
  <2> QED
    BY <1>3, <2>1, <2>2
<1> QED
  BY <1>5

(* And a greatest one.                                                     *)
LEMMA GreatestExists ==
  ASSUME NEW a \in Int, NEW b \in Int, NEW S, S \subseteq a .. b, S # {}
  PROVE  \E x \in S : \A y \in S : x >= y
<1> DEFINE N == {-n : n \in S}
<1>1. N \subseteq (-b) .. (-a) /\ N # {}
  <2>1. \A n \in S : -n \in (-b) .. (-a)
    OBVIOUS
  <2>2. PICK n \in S : TRUE
    OBVIOUS
  <2>3. -n \in N
    BY <2>2
  <2> QED
    BY <2>1, <2>3
<1>2. PICK m \in N : \A k \in N : m <= k
  <2> HIDE DEF N
  <2>1. -b \in Int /\ -a \in Int
    OBVIOUS
  <2> QED
    BY <1>1, <2>1, LeastExists
<1>3. PICK x \in S : m = -x
  BY <1>2
<1>4. ASSUME NEW y \in S PROVE x >= y
  <2>1. m <= -y
    BY <1>2
  <2> QED
    BY <1>3, <2>1
<1> QED
  BY <1>4

(* Min and Max of such a set are what their names say.                     *)
LEMMA MinFacts ==
  ASSUME NEW a \in Int, NEW b \in Int, NEW S, S \subseteq a .. b, S # {}
  PROVE  Min(S) \in S /\ \A y \in S : Min(S) <= y
BY LeastExists DEF Min

LEMMA MaxFacts ==
  ASSUME NEW a \in Int, NEW b \in Int, NEW S, S \subseteq a .. b, S # {}
  PROVE  Max(S) \in S /\ \A y \in S : Max(S) >= y
BY GreatestExists DEF Max

-----------------------------------------------------------------------------
(* Induction up to n, for the members of a set.                             *)
LEMMA StepInduction ==
  ASSUME NEW n \in Nat, NEW T, 0 \in T, \A k \in 1 .. n : k - 1 \in T => k \in T
  PROVE  \A k \in 0 .. n : k \in T
<1> DEFINE S == {k \in 0 .. n : k \notin T}
<1>1. ASSUME S # {} PROVE FALSE
  <2>1. PICK x \in S : \A y \in S : x <= y
    <3> HIDE DEF S
    <3>1. S \subseteq 0 .. n /\ 0 \in Int /\ n \in Int
      BY DEF S
    <3> QED
      BY <1>1, <3>1, LeastExists
  <2>2. x \in 1 .. n /\ x - 1 \in 0 .. n /\ x - 1 \notin S
    BY <2>1
  <2> QED
    BY <2>1, <2>2
<1> QED
  BY <1>1

(* The greatest member of a set of positions, and of all up to k.          *)
LEMMA TopOfSet ==
  ASSUME NEW k \in Nat, NEW s, s \subseteq 1 .. k, s # {}
  PROVE  /\ Max(s) \in s /\ Max(s) \in 1 .. k
         /\ \A y \in s : Max(s) >= y
         /\ k \in s => Max(s) = k
<1>1. 1 \in Int /\ k \in Int
  OBVIOUS
<1>2. Max(s) \in s /\ \A y \in s : Max(s) >= y
  BY <1>1, MaxFacts
<1>3. Max(s) \in 1 .. k
  BY <1>2
<1>4. ASSUME k \in s PROVE Max(s) = k
  <2>1. Max(s) >= k /\ Max(s) <= k
    BY <1>2, <1>3, <1>4
  <2> QED
    BY <1>3, <2>1
<1> QED
  BY <1>2, <1>3, <1>4

LEMMA TopOfInterval ==
  ASSUME NEW k \in Nat, k > 0
  PROVE  Max(1 .. k) = k /\ (1 .. k) \ {Max(1 .. k)} = 1 .. k - 1 /\ 1 .. k # {}
<1>1. k \in 1 .. k /\ 1 .. k \subseteq 1 .. k /\ 1 .. k # {}
  OBVIOUS
<1>2. Max(1 .. k) = k
  BY <1>1, TopOfSet
<1> QED
  BY <1>1, <1>2

(* FoldLeft takes a value of the recursive function that is indexed by the *)
(* sets of positions left to fold; for a step that keeps to X there is     *)
(* one.  (The step is a function here, not an operator.)                   *)
Iterates(g, step, base, n) ==
  \A s \in SUBSET (1 .. n) :
    g[s] = IF s = {} THEN base ELSE step[<<g[s \ {Max(s)}], Max(s)>>]

LEMMA FoldExists ==
  ASSUME NEW n \in Nat, NEW X, NEW base \in X, NEW step \in [X \X (1 .. n) -> X]
  PROVE  \E g \in [SUBSET (1 .. n) -> X] : Iterates(g, step, base, n)
<1> DEFINE Solves(g, k) ==
             \A s \in SUBSET (1 .. k) :
               g[s] = IF s = {} THEN base ELSE step[<<g[s \ {Max(s)}], Max(s)>>]
           T == {k \in 0 .. n : \E g \in [SUBSET (1 .. k) -> X] : Solves(g, k)}
<1>1. 0 \in T
  <2> DEFINE g == [s \in SUBSET (1 .. 0) |-> base]
  <2>1. g \in [SUBSET (1 .. 0) -> X]
    OBVIOUS
  <2>2. \A s \in SUBSET (1 .. 0) : s = {}
    OBVIOUS
  <2>3. Solves(g, 0)
    BY <2>2
  <2> HIDE DEF Solves, g
  <2>4. \E f \in [SUBSET (1 .. 0) -> X] : Solves(f, 0)
    BY <2>1, <2>3
  <2>5. 0 \in 0 .. n
    OBVIOUS
  <2> QED
    BY <2>4, <2>5
<1>2. ASSUME NEW k \in 1 .. n, k - 1 \in T PROVE k \in T
  <2>1. PICK g \in [SUBSET (1 .. k - 1) -> X] : Solves(g, k - 1)
    BY <1>2
  <2> DEFINE h == [s \in SUBSET (1 .. k) |->
                     IF k \in s THEN step[<<g[s \ {k}], k>>] ELSE g[s]]
  <2>2. ASSUME NEW s \in SUBSET (1 .. k), k \in s
        PROVE  /\ s # {} /\ Max(s) = k
               /\ s \ {k} \in SUBSET (1 .. k - 1) /\ s \ {k} \in SUBSET (1 .. k)
               /\ k \notin s \ {k}
    <3>1. s \subseteq 1 .. k /\ s # {} /\ k \in Nat
      BY <2>2
    <3>3. Max(s) = k
      BY <2>2, <3>1, TopOfSet
    <3> QED
      BY <2>2, <3>3
  <2>3. ASSUME NEW s \in SUBSET (1 .. k), k \notin s
        PROVE  /\ s \in SUBSET (1 .. k - 1)
               /\ s # {} => Max(s) \in 1 .. k - 1 /\ s \ {Max(s)} \in SUBSET (1 .. k - 1)
                            /\ k \notin s \ {Max(s)}
    <3>1. s \in SUBSET (1 .. k - 1)
      BY <2>3
    <3>4. s \subseteq 1 .. k /\ k \in Nat
      OBVIOUS
    <3>2. s # {} => Max(s) \in s
      BY <3>4, TopOfSet
    <3> QED
      BY <2>3, <3>1, <3>2
  <2>4. h \in [SUBSET (1 .. k) -> X]
    <3>1. ASSUME NEW s \in SUBSET (1 .. k)
          PROVE  (IF k \in s THEN step[<<g[s \ {k}], k>>] ELSE g[s]) \in X
      BY <2>2, <2>3
    <3> QED
      BY <3>1
  <2>5. ASSUME NEW s \in SUBSET (1 .. k)
        PROVE  h[s] = IF s = {} THEN base ELSE step[<<h[s \ {Max(s)}], Max(s)>>]
    <3>1. CASE k \in s
      <4>1. h[s] = step[<<g[s \ {k}], k>>] /\ h[s \ {k}] = g[s \ {k}]
        BY <2>2, <3>1
      <4> QED
        BY <2>2, <3>1, <4>1
    <3>2. CASE k \notin s
      <4>1. h[s] = g[s]
        BY <3>2
      <4>2. s # {} => h[s \ {Max(s)}] = g[s \ {Max(s)}]
        BY <2>3, <3>2
      <4> QED
        BY <2>1, <2>3, <3>2, <4>1, <4>2
    <3> QED
      BY <3>1, <3>2
  <2>6. Solves(h, k)
    BY <2>5
  <2> HIDE DEF Solves, h
  <2> QED
    BY <2>4, <2>6
<1>3. n \in T
  <2> HIDE DEF T
  <2> QED
    BY <1>1, <1>2, StepInduction
<1>4. PICK g \in [SUBSET (1 .. n) -> X] : Solves(g, n)
  BY <1>3
<1> QED
  BY <1>4 DEF Iterates
=============================================================================
