---------------------------- MODULE DeviceBuffers ----------------------------
(***************************************************************************)
(* What include/ventus.h promises of device memory, without addresses: a   *)
(* context holds a sequence of independent arrays.  A new array is zero,   *)
(* an upload changes words of one array, a free takes one array away, a    *)
(* kernel upload adds arrays, and a running kernel loads or stores one     *)
(* word of one array in two steps, between which anything else may happen. *)
(* Nothing else ever changes.  SharedMemory.tla is shown to implement it.  *)
(***************************************************************************)
EXTENDS Naturals, Sequences, SequencesExt

CONSTANTS
  Ctxs,
  Values,           \* words uploaded, or stored by a kernel
  MaxLen,           \* length of arrays
  MaxArrays,        \* arrays a context may hold
  MaxImage,         \* length of the text of a kernel image
  Images, Junk      \* words of kernel images, and what else lands there

VARIABLES
  arrays,           \* context -> sequence of arrays of words
  access            \* << >>, or the access under way: its place and word

Zeros(n) == [i \in 1 .. n |-> 0]
Painted(array, from, to, w) == [i \in DOMAIN array |-> IF i \in from .. to THEN w ELSE array[i]]

-----------------------------------------------------------------------------
DBInit == access = << >> /\ \E c \in Ctxs : arrays = [d \in {c} |-> << >>]

NewContext(c) ==
  /\ c \notin DOMAIN arrays
  /\ arrays' = [d \in DOMAIN arrays \cup {c} |-> IF d = c THEN << >> ELSE arrays[d]]

NewArray(c) ==
  \E n \in 1 .. MaxLen : arrays' = [arrays EXCEPT ![c] = Append(@, Zeros(n))]

Upload(c, k) ==
  \E from, to \in 1 .. Len(arrays[c][k]), w \in Values :
    arrays' = [arrays EXCEPT ![c][k] = Painted(@, from, to, w)]

FreeArray(c, k) == arrays' = [arrays EXCEPT ![c] = RemoveAt(@, k)]

(* An image is loaded in arrays of n words, all of them or, when memory    *)
(* runs out, the first ones.  A word of program takes two words of text:   *)
(* the program stands at the start of the first array.                     *)
Image(n, size, w, chunks) ==
  LET Word(k, j) == IF k = 1 /\ j <= size \div 2 THEN w
                    ELSE IF (k - 1) * n + j <= size THEN Junk ELSE 0
  IN  [k \in 1 .. chunks |-> [j \in 1 .. n |-> Word(k, j)]]

LoadKernel(c) ==
  /\ Len(arrays'[c]) > Len(arrays[c])
  /\ \E n \in 1 .. MaxLen, size \in 1 .. MaxImage, w \in Images :
       \E chunks \in 1 .. (size + n - 1) \div n :
         arrays' = [arrays EXCEPT ![c] = @ \o Image(n, size, w, chunks)]

HostCall ==
  /\ UNCHANGED access /\ arrays' # arrays
  /\ \/ \E c \in Ctxs : NewContext(c)
     \/ \E c \in DOMAIN arrays :
          \/ NewArray(c)
          \/ \E k \in 1 .. Len(arrays[c]) : Upload(c, k) \/ FreeArray(c, k)
          \/ LoadKernel(c)

(* A word of 0 stands for a load.                                          *)
Begin(c, k, i, w) ==
  /\ access' = <<[ctx |-> c, array |-> k, at |-> i, w |-> w]>>
  /\ UNCHANGED arrays

Complete ==
  /\ access # << >> /\ access' = << >>
  /\ LET a == access[1]
     IN  arrays' = IF a.w = 0 THEN arrays ELSE [arrays EXCEPT ![a.ctx][a.array][a.at] = a.w]

DBNext ==
  \/ HostCall
  \/ Complete
  \/ /\ access = << >> /\ access' # << >>
     /\ \E c \in DOMAIN arrays : \E k \in 1 .. Len(arrays[c]) :
          \E i \in 1 .. Len(arrays[c][k]), w \in Values \cup {0} : Begin(c, k, i, w)

DBSpec == DBInit /\ [][DBNext]_<<arrays, access>>
=============================================================================
