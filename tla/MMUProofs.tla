------------------------------ MODULE MMUProofs ------------------------------
(***************************************************************************)
(* Proofs about the MMU of src/rtl/MMUTests.v, for any number of entries a *)
(* walker has, any memory and any requests, while at most three requests   *)
(* are open.  With four, a walker may have two finished walks, send the    *)
(* one its arbiter chose and free the other: the run mmu_full shows it.    *)
(*                                                                         *)
(* The inductive invariant Inv has five parts.  Typing gives each entry    *)
(* and queue its type.  OnePlace: an open request is in one place on its   *)
(* way, and only open ones are anywhere.  OneFinished: a walker has one    *)
(* finished walk at most, so the entry it frees is the one it sends.       *)
(* Right: what is held for a request fits it: its root, the tables its     *)
(* walk has reached, the word at the end.  AllMatched: a walk that waits   *)
(* for memory has one request or answer under way there, for the address   *)
(* it asked for, and nothing else is under way.                            *)
(***************************************************************************)
EXTENDS MMU, ListFacts

(* At most three requests open, and walkers of two entries or more.        *)
FewOpen ==
  /\ Slots >= 2
  /\ \A a, b, c, d \in Sources : a = b \/ a = c \/ a = d \/ b = c \/ b = d \/ c = d

(* What a host asks for, and the tables its walk passes: the page of the   *)
(* second and of the third table, the address of the entry in the third.   *)
Pages == [vpn : Vpns, root : Roots]
Table1(p) == Ppn(Memory[Address(p.root, p.vpn, 2)])
Table0(p) == Ppn(Memory[Address(Table1(p), p.vpn, 1)])
Entry(p) == Address(Table0(p), p.vpn, 0)

(* The types of what the queues and the walkers hold.                      *)
HostRequest == [source : Sources, vpn : Vpns, root : Roots]
Fetch == [source : Sources, addr : DOMAIN Memory]
Fetched == [source : Sources, word : Nat]
MemRequest == [walker : {"fl", "ll"}, source : Sources, addr : DOMAIN Memory]
UpToOne(S) == {<< >>} \cup {<<x>> : x \in S}

FLType == [state : {"idle", "memreq", "memwait", "llreq"},
           ppn : Nat, vpn : Nat, level : 0 .. 2, source : Sources \cup {0}]
LLType == [state : {"idle", "memreq", "memwait", "ptwrsp"},
           addr : Nat, source : Sources \cup {0}]
QueueType ==
  [tlbReq : UpToOne(HostRequest), l2Req : UpToOne(HostRequest),
   l2Rsp : UpToOne(Fetched), tlbRsp : UpToOne(Fetched),
   flReq : UpToOne(Fetch), flRsp : UpToOne(Fetched),
   llReq : UpToOne(Fetch), llRsp : UpToOne(Fetched)]

Typing ==
  /\ fl \in [0 .. Slots - 1 -> FLType]
  /\ ll \in [0 .. Slots - 1 -> LLType]
  /\ q \in QueueType
  /\ waiting \subseteq MemRequest
  /\ open \in [DOMAIN open -> Pages] /\ DOMAIN open \subseteq Sources

(* Where the request of a source can be.                                   *)
InQ(x, s) == x # << >> /\ x[1].source = s
InFL(i, s) == i \in 0 .. Slots - 1 /\ fl[i].state # "idle" /\ fl[i].source = s
InLL(i, s) == i \in 0 .. Slots - 1 /\ ll[i].state # "idle" /\ ll[i].source = s

(* The request of s is at p, one of its Places.                            *)
At(p, s) ==
  \/ p = <<"tlbReq", 0>> /\ InQ(q.tlbReq, s)
  \/ p = <<"l2Req", 0>> /\ InQ(q.l2Req, s)
  \/ \E i : p = <<"fl", i>> /\ InFL(i, s)
  \/ \E i : p = <<"ll", i>> /\ InLL(i, s)
  \/ p = <<"l2Rsp", 0>> /\ InQ(q.l2Rsp, s)
  \/ p = <<"tlbRsp", 0>> /\ InQ(q.tlbRsp, s)

(* An open request is in one place, and only open ones are anywhere.       *)
OnePlace ==
  \A s \in Sources :
    /\ \A p1, p2 : At(p1, s) /\ At(p2, s) => p1 = p2
    /\ s \in DOMAIN open <=> \E p : At(p, s)

(* A walker has at most one finished walk; the last-level one gets no      *)
(* other answer while it cannot pass a walk on.                            *)
OneFinished ==
  /\ \A i, j \in In(fl, "llreq") : i = j
  /\ \A i, j \in In(ll, "ptwrsp") : i = j
  /\ q.l2Rsp # << >> /\ In(ll, "ptwrsp") # {} => q.llRsp = << >>

FLAddr(e) == Address(e.ppn, e.vpn, e.level)

(* What is at a place fits the request.                                    *)
ReqRight(x) ==
  x # << >> => /\ x[1].source \in DOMAIN open
               /\ open[x[1].source] = [vpn |-> x[1].vpn, root |-> x[1].root]
RspRight(x) ==
  x # << >> => /\ x[1].source \in DOMAIN open
               /\ x[1].word = Memory[Entry(open[x[1].source])]
FLRight(e) ==
  e.state # "idle" =>
    /\ e.source \in DOMAIN open /\ e.vpn = open[e.source].vpn
    /\ \/ e.state # "llreq" /\ e.level = 2 /\ e.ppn = open[e.source].root
       \/ e.state # "llreq" /\ e.level = 1 /\ e.ppn = Table1(open[e.source])
       \/ e.state = "llreq" /\ e.level = 0 /\ e.ppn = Table0(open[e.source])
LLRight(e) ==
  e.state # "idle" =>
    /\ e.source \in DOMAIN open
    /\ e.addr = IF e.state = "ptwrsp" THEN Memory[Entry(open[e.source])]
                                      ELSE Entry(open[e.source])
Right ==
  /\ ReqRight(q.tlbReq) /\ ReqRight(q.l2Req)
  /\ \A i \in 0 .. Slots - 1 : FLRight(fl[i]) /\ LLRight(ll[i])
  /\ RspRight(q.l2Rsp) /\ RspRight(q.tlbRsp)

(* The walks of a walker that wait, with the address they wait for, and    *)
(* what is under way for them.                                             *)
FLWaits == {<<fl[i].source, FLAddr(fl[i])>> : i \in In(fl, "memwait")}
LLWaits == {<<ll[i].source, ll[i].addr>> : i \in In(ll, "memwait")}
OfWalker(mem, w) == {y \in mem : y.walker = w}

InMem(mem, s) == \E y \in mem : y.source = s

(* A walker's traffic with memory: a request that is queued, requests in   *)
(* memory, an answer that is queued.  Each is for a walk that waits and    *)
(* its address, no two are for one walk, and no walk waits for nothing.    *)
Matched(waits, toMem, mem, fromMem) ==
  /\ toMem # << >> => <<toMem[1].source, toMem[1].addr>> \in waits
  /\ \A y \in mem : <<y.source, y.addr>> \in waits
  /\ fromMem # << >> => \E a : /\ <<fromMem[1].source, a>> \in waits
                               /\ fromMem[1].word = Memory[a]
  /\ \A s :
       /\ ~(InQ(toMem, s) /\ InMem(mem, s))
       /\ ~(InQ(toMem, s) /\ InQ(fromMem, s))
       /\ ~(InMem(mem, s) /\ InQ(fromMem, s))
  /\ \A y, z \in mem : y.source = z.source => y = z
  /\ \A w \in waits : InQ(toMem, w[1]) \/ InMem(mem, w[1]) \/ InQ(fromMem, w[1])

AllMatched ==
  /\ Matched(FLWaits, q.flReq, OfWalker(waiting, "fl"), q.flRsp)
  /\ Matched(LLWaits, q.llReq, OfWalker(waiting, "ll"), q.llRsp)

Inv == Typing /\ OnePlace /\ OneFinished /\ Right /\ AllMatched

(* An edge with inputs that the host and the memory may give.              *)
Stepping(offer, taken, reply, ready) ==
  /\ offer \in UpToOne(Requests) /\ reply \in UpToOne(waiting)
  /\ taken \in BOOLEAN /\ ready \in BOOLEAN
  /\ Edge(offer, taken, reply, ready)

-----------------------------------------------------------------------------
(* An arbiter and a free-entry pointer name a member of the set they       *)
(* choose from.                                                            *)
LEMMA ChosenIn ==
  ASSUME NEW S, S \subseteq 0 .. Slots - 1, S # {}, NEW last
  PROVE  Chosen(S, last) \in S /\ Min(S) \in S
<1>1. Slots - 1 \in Int /\ 0 \in Int
  BY MMUAssumption
<1> DEFINE B == {i \in S : i > last}
<1>2. B \subseteq 0 .. Slots - 1 /\ B \subseteq S
  OBVIOUS
<1>3. Min(S) \in S
  BY <1>1, MinFacts
<1>4. B # {} => Min(B) \in B
  BY <1>1, <1>2, MinFacts
<1> HIDE DEF B
<1>5. Chosen(S, last) = IF B # {} THEN Min(B) ELSE Min(S)
  BY DEF Chosen, B
<1> QED
  BY <1>2, <1>3, <1>4, <1>5

(* The addresses a walk of an open request asks for hold words.            *)
LEMMA AddressesHold ==
  ASSUME NEW p \in Pages
  PROVE  /\ Address(p.root, p.vpn, 2) \in DOMAIN Memory
         /\ Address(Table1(p), p.vpn, 1) \in DOMAIN Memory
         /\ Entry(p) \in DOMAIN Memory
         /\ p.root \in Nat /\ p.vpn \in Nat
         /\ Table1(p) \in Nat /\ Table0(p) \in Nat /\ Memory[Entry(p)] \in Nat
         /\ Memory[Entry(p)] = Walk(p.vpn, p.root)
<1>1. p.vpn \in Vpns /\ p.root \in Roots
  BY DEF Pages
<1>2. /\ Address(p.root, p.vpn, 2) \in DOMAIN Memory
      /\ Address(Table1(p), p.vpn, 1) \in DOMAIN Memory
      /\ Entry(p) \in DOMAIN Memory
      /\ p.root \in Nat /\ p.vpn \in Nat
  BY <1>1, MMUAssumption DEF Table1, Table0, Entry
<1>3. \A w \in Nat : Ppn(w) \in Nat
  BY DEF Ppn
<1>4. \A a \in DOMAIN Memory : Memory[a] \in Nat
  BY MMUAssumption
<1>5. Table1(p) \in Nat /\ Table0(p) \in Nat
  BY <1>2, <1>3, <1>4 DEF Table1, Table0
<1>6. Memory[Entry(p)] = Walk(p.vpn, p.root)
  BY DEF Entry, Table0, Table1, Walk
<1> QED
  BY <1>2, <1>4, <1>5, <1>6

(* The word an address a walk waits for holds, and that it is one.         *)
LEMMA FetchTyped ==
  ASSUME Typing, Right, NEW i \in 0 .. Slots - 1
  PROVE  /\ fl[i].state \in {"memreq", "memwait"} => FLAddr(fl[i]) \in DOMAIN Memory
         /\ ll[i].state \in {"memreq", "memwait"} => ll[i].addr \in DOMAIN Memory
<1>1. FLRight(fl[i]) /\ LLRight(ll[i])
  BY DEF Right
<1>2. \A s \in DOMAIN open : open[s] \in Pages
  BY DEF Typing
<1>3. ASSUME fl[i].state \in {"memreq", "memwait"} PROVE FLAddr(fl[i]) \in DOMAIN Memory
  <2> DEFINE p == open[fl[i].source]
  <2>1. p \in Pages /\ fl[i].vpn = p.vpn
    BY <1>1, <1>2, <1>3 DEF FLRight
  <2>2. \/ fl[i].level = 2 /\ fl[i].ppn = p.root
        \/ fl[i].level = 1 /\ fl[i].ppn = Table1(p)
    BY <1>1, <1>3 DEF FLRight
  <2> HIDE DEF p
  <2> QED
    BY <2>1, <2>2, AddressesHold DEF FLAddr
<1>4. ASSUME ll[i].state \in {"memreq", "memwait"} PROVE ll[i].addr \in DOMAIN Memory
  <2>1. ll[i].source \in DOMAIN open /\ ll[i].addr = Entry(open[ll[i].source])
    BY <1>1, <1>4 DEF LLRight
  <2> QED
    BY <1>2, <2>1, AddressesHold
<1> QED
  BY <1>3, <1>4
-----------------------------------------------------------------------------
(* What the walkers' pointers and arbiters name.  With one finished walk   *)
(* the entry that is freed is the one the arbiter sent; an answer that     *)
(* comes back is taken at once, because its walk waits for it.             *)
FLAsk == Chosen(In(fl, "memreq"), lastGrant.flMem)
LLAsk == Chosen(In(ll, "memreq"), lastGrant.llMem)
FLFree == Min(In(fl, "llreq"))
LLFree == Min(In(ll, "ptwrsp"))

(* The entries of a state, as the indices the proofs quantify over.        *)
LEMMA InIs ==
  ASSUME Typing, NEW state
  PROVE  /\ In(fl, state) = {i \in 0 .. Slots - 1 : fl[i].state = state}
         /\ In(ll, state) = {i \in 0 .. Slots - 1 : ll[i].state = state}
BY DEF Typing, In

(* The first walker's arbiters and pointers.                               *)
LEMMA FLNames ==
  ASSUME Inv
  PROVE  /\ FLAsks => /\ FLAsk \in 0 .. Slots - 1 /\ fl[FLAsk].state = "memreq"
                      /\ FLAsking = fl[FLAsk] /\ q.flReq = << >>
         /\ FLOut => /\ FLFree \in 0 .. Slots - 1 /\ FLDone = fl[FLFree]
                     /\ \A i \in 0 .. Slots - 1 : fl[i].state = "llreq" <=> i = FLFree
                     /\ EnqPtr(ll) \in 0 .. Slots - 1 /\ ll[EnqPtr(ll)].state = "idle"
         /\ ToFL => /\ EnqPtr(fl) \in 0 .. Slots - 1 /\ fl[EnqPtr(fl)].state = "idle"
                    /\ q.l2Req # << >>
         /\ FLIn <=> q.flRsp # << >>
<1> USE DEF Inv
<1>1. \A st : In(fl, st) = {i \in 0 .. Slots - 1 : fl[i].state = st}
  BY InIs
<1>2. \A st : In(ll, st) = {i \in 0 .. Slots - 1 : ll[i].state = st}
  BY InIs
<1>3. \A st, last : In(fl, st) # {} => Chosen(In(fl, st), last) \in In(fl, st) /\ Min(In(fl, st)) \in In(fl, st)
  BY <1>1, ChosenIn
<1>4. \A st : In(ll, st) # {} => Min(In(ll, st)) \in In(ll, st)
  BY <1>2, ChosenIn
<1>5. FLAsks => /\ FLAsk \in 0 .. Slots - 1 /\ fl[FLAsk].state = "memreq"
                /\ FLAsking = fl[FLAsk] /\ q.flReq = << >>
  BY <1>1, <1>3 DEF FLAsks, FLAsk, FLAsking
<1>6. ASSUME FLOut
      PROVE /\ FLFree \in 0 .. Slots - 1 /\ FLDone = fl[FLFree]
            /\ \A i \in 0 .. Slots - 1 : fl[i].state = "llreq" <=> i = FLFree
            /\ EnqPtr(ll) \in 0 .. Slots - 1 /\ ll[EnqPtr(ll)].state = "idle"
  <2>1. In(fl, "llreq") # {} /\ In(ll, "idle") # {}
    BY <1>6 DEF FLOut
  <2>2. FLFree \in In(fl, "llreq") /\ Chosen(In(fl, "llreq"), lastGrant.flOut) \in In(fl, "llreq")
    BY <1>3, <2>1 DEF FLFree
  <2>3. Chosen(In(fl, "llreq"), lastGrant.flOut) = FLFree
    BY <2>2 DEF OneFinished
  <2>4. \A i \in In(fl, "llreq") : i = FLFree
    BY <2>2 DEF OneFinished
  <2>5. EnqPtr(ll) \in In(ll, "idle")
    BY <1>4, <2>1 DEF EnqPtr
  <2>6. EnqPtr(ll) \in 0 .. Slots - 1 /\ ll[EnqPtr(ll)].state = "idle"
    BY <1>2, <2>5
  <2>7. FLDone = fl[FLFree]
    BY <2>3 DEF FLDone
  <2>8. /\ FLFree \in 0 .. Slots - 1
        /\ \A i \in 0 .. Slots - 1 : fl[i].state = "llreq" <=> i = FLFree
    BY <1>1, <2>2, <2>4
  <2> QED
    BY <2>6, <2>7, <2>8
<1>7. ToFL => /\ EnqPtr(fl) \in 0 .. Slots - 1 /\ fl[EnqPtr(fl)].state = "idle"
              /\ q.l2Req # << >>
  <2> SUFFICES ASSUME ToFL
               PROVE  /\ EnqPtr(fl) \in 0 .. Slots - 1 /\ fl[EnqPtr(fl)].state = "idle"
                      /\ q.l2Req # << >>
    OBVIOUS
  <2>1. In(fl, "idle") # {} /\ q.l2Req # << >>
    BY DEF ToFL
  <2>2. EnqPtr(fl) \in In(fl, "idle")
    BY <1>3, <2>1 DEF EnqPtr
  <2> QED
    BY <1>1, <2>1, <2>2
<1>8. ASSUME q.flRsp # << >> PROVE Awaiting(fl)
  <2>1. \E w : w \in FLWaits
    BY <1>8 DEF AllMatched, Matched
  <2> QED
    BY <2>1 DEF FLWaits, Awaiting
<1> QED
  BY <1>5, <1>6, <1>7, <1>8 DEF FLIn

(* The last-level walker's arbiters and pointers.                          *)
LEMMA LLNames ==
  ASSUME Inv
  PROVE  /\ LLAsks => /\ LLAsk \in 0 .. Slots - 1 /\ ll[LLAsk].state = "memreq"
                      /\ LLAsking = ll[LLAsk] /\ q.llReq = << >>
         /\ LLOut => /\ LLFree \in 0 .. Slots - 1 /\ LLFound = ll[LLFree]
                     /\ \A i \in 0 .. Slots - 1 : ll[i].state = "ptwrsp" <=> i = LLFree
                     /\ q.l2Rsp = << >>
         /\ LLIn <=> q.llRsp # << >>
<1> USE DEF Inv
<1>1. \A st : In(ll, st) = {i \in 0 .. Slots - 1 : ll[i].state = st}
  BY InIs
<1>2. \A st, last : In(ll, st) # {} => Chosen(In(ll, st), last) \in In(ll, st) /\ Min(In(ll, st)) \in In(ll, st)
  BY <1>1, ChosenIn
<1>3. LLAsks => /\ LLAsk \in 0 .. Slots - 1 /\ ll[LLAsk].state = "memreq"
                /\ LLAsking = ll[LLAsk] /\ q.llReq = << >>
  BY <1>1, <1>2 DEF LLAsks, LLAsk, LLAsking
<1>4. ASSUME LLOut
      PROVE /\ LLFree \in 0 .. Slots - 1 /\ LLFound = ll[LLFree]
            /\ \A i \in 0 .. Slots - 1 : ll[i].state = "ptwrsp" <=> i = LLFree
            /\ q.l2Rsp = << >>
  <2>1. In(ll, "ptwrsp") # {} /\ q.l2Rsp = << >>
    BY <1>4 DEF LLOut
  <2>2. LLFree \in In(ll, "ptwrsp") /\ Chosen(In(ll, "ptwrsp"), lastGrant.llOut) \in In(ll, "ptwrsp")
    BY <1>2, <2>1 DEF LLFree
  <2>3. Chosen(In(ll, "ptwrsp"), lastGrant.llOut) = LLFree
    BY <2>2 DEF OneFinished
  <2>4. \A i \in In(ll, "ptwrsp") : i = LLFree
    BY <2>2 DEF OneFinished
  <2> QED
    BY <1>1, <2>1, <2>2, <2>3, <2>4 DEF LLFound
<1>5. ASSUME q.llRsp # << >> PROVE Awaiting(ll)
  <2>1. \E w : w \in LLWaits
    BY <1>5 DEF AllMatched, Matched
  <2> QED
    BY <2>1 DEF LLWaits, Awaiting
<1> QED
  BY <1>3, <1>4, <1>5 DEF LLIn

-----------------------------------------------------------------------------
(* The first walker's entries after an edge, by the state they were in.    *)
LEMMA FLMoves ==
  ASSUME Inv, NEW offer, NEW taken, NEW reply, NEW ready,
         Stepping(offer, taken, reply, ready),
         NEW i \in 0 .. Slots - 1
  PROVE  /\ FLOut /\ fl[i].state = "llreq" => fl'[i] = NoWalk
         /\ fl[i].state = "llreq" /\ ~FLOut => fl'[i] = fl[i]
         /\ fl[i].state = "memwait" =>
              fl'[i] = IF InQ(q.flRsp, fl[i].source) THEN WalkStep(fl[i], q.flRsp) ELSE fl[i]
         /\ fl[i].state = "memreq" =>
              fl'[i] = IF FLAsks /\ i = FLAsk THEN [fl[i] EXCEPT !.state = "memwait"] ELSE fl[i]
         /\ fl[i].state = "idle" =>
              fl'[i] = IF ToFL /\ i = EnqPtr(fl) THEN Started(q.l2Req[1]) ELSE fl[i]
<1>1. fl'[i] = FLNext(i, If(ToFL, q.l2Req), FLAsks, If(FLIn, q.flRsp), FLOut)
  BY DEF Stepping, Edge, Inv, Typing
<1>2. FLOut => \A j \in 0 .. Slots - 1 : fl[j].state = "llreq" <=> j = FLFree
  BY FLNames
<1>3. If(FLIn, q.flRsp) = q.flRsp
  BY FLNames DEF If
<1>4. If(ToFL, q.l2Req) # << >> <=> ToFL
  BY FLNames DEF If
<1>5. ToFL => If(ToFL, q.l2Req)[1] = q.l2Req[1]
  BY DEF If
<1>6. FLAsks => fl[FLAsk].state = "memreq"
  BY FLNames
<1>7. fl'[i] = CASE FLOut /\ i = FLFree -> NoWalk
                 [] Answered(fl[i], q.flRsp) -> WalkStep(fl[i], q.flRsp)
                 [] FLAsks /\ i = FLAsk -> [fl[i] EXCEPT !.state = "memwait"]
                 [] ToFL /\ fl[i].state = "idle" /\ i = EnqPtr(fl) -> Started(If(ToFL, q.l2Req)[1])
                 [] OTHER -> fl[i]
  BY <1>1, <1>3, <1>4 DEF FLNext, FLFree, FLAsk
<1> QED
  BY <1>2, <1>5, <1>6, <1>7 DEF Answered, InQ

(* The same of the last-level walker.                                      *)
LEMMA LLMoves ==
  ASSUME Inv, NEW offer, NEW taken, NEW reply, NEW ready,
         Stepping(offer, taken, reply, ready),
         NEW i \in 0 .. Slots - 1
  PROVE  /\ LLOut /\ ll[i].state = "ptwrsp" => ll'[i] = NoLast
         /\ ll[i].state = "ptwrsp" /\ ~LLOut => ll'[i] = ll[i]
         /\ ll[i].state = "memwait" =>
              ll'[i] = IF InQ(q.llRsp, ll[i].source)
                       THEN [ll[i] EXCEPT !.state = "ptwrsp", !.addr = q.llRsp[1].word]
                       ELSE ll[i]
         /\ ll[i].state = "memreq" =>
              ll'[i] = IF LLAsks /\ i = LLAsk THEN [ll[i] EXCEPT !.state = "memwait"] ELSE ll[i]
         /\ ll[i].state = "idle" =>
              ll'[i] = IF FLOut /\ i = EnqPtr(ll)
                       THEN [state |-> "memreq", addr |-> FLAddr(fl[FLFree]),
                             source |-> fl[FLFree].source]
                       ELSE ll[i]
<1>1. ll'[i] = LLNext(i, If(FLOut, AskedBy(FLDone)), LLAsks, If(LLIn, q.llRsp), LLOut)
  BY DEF Stepping, Edge, Inv, Typing
<1>2. LLOut => \A j \in 0 .. Slots - 1 : ll[j].state = "ptwrsp" <=> j = LLFree
  BY LLNames
<1>3. If(LLIn, q.llRsp) = q.llRsp
  BY LLNames DEF If
<1> DEFINE in == If(FLOut, AskedBy(FLDone))
<1>4. in # << >> <=> FLOut
  BY DEF If, AskedBy
<1>5. FLOut => in[1].source = fl[FLFree].source /\ in[1].addr = FLAddr(fl[FLFree])
  BY FLNames DEF If, AskedBy, FLAddr
<1>6. LLAsks => ll[LLAsk].state = "memreq"
  BY LLNames
<1>7. ll'[i] = CASE LLOut /\ i = LLFree -> NoLast
                 [] Answered(ll[i], q.llRsp) ->
                      [ll[i] EXCEPT !.state = "ptwrsp", !.addr = q.llRsp[1].word]
                 [] LLAsks /\ i = LLAsk -> [ll[i] EXCEPT !.state = "memwait"]
                 [] in # << >> /\ ll[i].state = "idle" /\ i = EnqPtr(ll) ->
                      [state |-> "memreq", addr |-> in[1].addr, source |-> in[1].source]
                 [] OTHER -> ll[i]
  BY <1>1, <1>3 DEF LLNext, LLFree, LLAsk
<1> HIDE DEF in
<1> QED
  BY <1>2, <1>4, <1>5, <1>6, <1>7 DEF Answered, InQ

(* The queues after an edge.                                               *)
LEMMA QueueMoves ==
  ASSUME Inv, NEW offer, NEW taken, NEW reply, NEW ready,
         Stepping(offer, taken, reply, ready)
  PROVE  /\ q'.tlbReq = IF HostAsks(offer) THEN offer ELSE IF ToL2 THEN << >> ELSE q.tlbReq
         /\ q'.l2Req = IF ToL2 THEN q.tlbReq ELSE IF ToFL THEN << >> ELSE q.l2Req
         /\ q'.l2Rsp = IF LLOut THEN <<[source |-> ll[LLFree].source, word |-> ll[LLFree].addr]>>
                       ELSE IF ToTLB THEN << >> ELSE q.l2Rsp
         /\ q'.tlbRsp = IF ToTLB THEN q.l2Rsp ELSE IF Delivered(ready) THEN << >> ELSE q.tlbRsp
         /\ q'.flReq = IF FLAsks THEN <<[source |-> fl[FLAsk].source,
                                         addr |-> FLAddr(fl[FLAsk])]>>
                       ELSE IF FLTaken(taken) THEN << >> ELSE q.flReq
         /\ q'.llReq = IF LLAsks THEN <<[source |-> ll[LLAsk].source, addr |-> ll[LLAsk].addr]>>
                       ELSE IF LLTaken(taken) THEN << >> ELSE q.llReq
         /\ q'.flRsp = IF FLReplied(reply) THEN Word(reply[1]) ELSE << >>
         /\ q'.llRsp = IF LLReplied(reply) THEN Word(reply[1]) ELSE << >>
<1> DEFINE asks == <<[source |-> fl[FLAsk].source, addr |-> FLAddr(fl[FLAsk])]>>
           last == <<[source |-> ll[LLAsk].source, addr |-> ll[LLAsk].addr]>>
           found == <<[source |-> ll[LLFree].source, word |-> ll[LLFree].addr]>>
<1>1. /\ q'.tlbReq = Queue(q.tlbReq, If(HostAsks(offer), offer), ToL2)
      /\ q'.l2Req = Queue(q.l2Req, If(ToL2, q.tlbReq), ToFL)
      /\ q'.l2Rsp = Queue(q.l2Rsp, If(LLOut, <<[source |-> LLFound.source,
                                                word |-> LLFound.addr]>>), ToTLB)
      /\ q'.tlbRsp = Queue(q.tlbRsp, If(ToTLB, q.l2Rsp), Delivered(ready))
      /\ q'.flReq = Queue(q.flReq, If(FLAsks, AskedBy(FLAsking)), FLTaken(taken))
      /\ q'.llReq = Queue(q.llReq, If(LLAsks, <<[source |-> LLAsking.source,
                                                 addr |-> LLAsking.addr]>>), LLTaken(taken))
      /\ q'.flRsp = Queue(q.flRsp, If(FLReplied(reply), Word(reply[1])), FLIn)
      /\ q'.llRsp = Queue(q.llRsp, If(LLReplied(reply), Word(reply[1])), LLIn)
  BY DEF Stepping, Edge
<1>2. \A old, x, out : Queue(old, If(FALSE, x), out) = IF out THEN << >> ELSE old
  BY DEF Queue, If
<1>3. \A old, x, out : x # << >> => Queue(old, If(TRUE, x), out) = x
  BY DEF Queue, If
<1>4. /\ HostAsks(offer) \in BOOLEAN /\ (HostAsks(offer) => offer # << >>)
      /\ ToL2 \in BOOLEAN /\ (ToL2 => q.tlbReq # << >>)
      /\ ToTLB \in BOOLEAN /\ (ToTLB => q.l2Rsp # << >>)
  BY DEF HostAsks, ToL2, ToTLB
<1>5. /\ FLAsks \in BOOLEAN /\ LLAsks \in BOOLEAN /\ LLOut \in BOOLEAN
      /\ FLReplied(reply) \in BOOLEAN /\ LLReplied(reply) \in BOOLEAN
  BY DEF FLAsks, LLAsks, LLOut, FLReplied, LLReplied
<1>6. /\ \A x : Word(x) # << >>
      /\ asks # << >> /\ last # << >> /\ found # << >>
  BY DEF Word
<1>7. /\ FLAsks => AskedBy(FLAsking) = asks
      /\ LLAsks => <<[source |-> LLAsking.source, addr |-> LLAsking.addr]>> = last
      /\ LLOut => <<[source |-> LLFound.source, word |-> LLFound.addr]>> = found
      /\ FLIn <=> q.flRsp # << >>
      /\ LLIn <=> q.llRsp # << >>
  BY FLNames, LLNames DEF AskedBy, FLAddr
<1> HIDE DEF asks, last, found
<1>8. /\ q'.tlbReq = IF HostAsks(offer) THEN offer ELSE IF ToL2 THEN << >> ELSE q.tlbReq
      /\ q'.l2Req = IF ToL2 THEN q.tlbReq ELSE IF ToFL THEN << >> ELSE q.l2Req
      /\ q'.tlbRsp = IF ToTLB THEN q.l2Rsp ELSE IF Delivered(ready) THEN << >> ELSE q.tlbRsp
  BY <1>1, <1>2, <1>3, <1>4 DEF Queue, If
<1>9. /\ q'.l2Rsp = IF LLOut THEN found ELSE IF ToTLB THEN << >> ELSE q.l2Rsp
      /\ q'.flReq = IF FLAsks THEN asks ELSE IF FLTaken(taken) THEN << >> ELSE q.flReq
      /\ q'.llReq = IF LLAsks THEN last ELSE IF LLTaken(taken) THEN << >> ELSE q.llReq
  BY <1>1, <1>6, <1>7 DEF Queue, If
<1>10. /\ q'.flRsp = IF FLReplied(reply) THEN Word(reply[1]) ELSE << >>
       /\ q'.llRsp = IF LLReplied(reply) THEN Word(reply[1]) ELSE << >>
  BY <1>1, <1>6, <1>7 DEF Queue, If
<1> QED
  BY <1>8, <1>9, <1>10 DEF asks, last, found

(* The open requests after an edge.  A source that asks has none open.     *)
LEMMA OpenMoves ==
  ASSUME Inv, NEW offer, NEW taken, NEW reply, NEW ready,
         Stepping(offer, taken, reply, ready)
  PROVE  /\ HostAsks(offer) => /\ offer[1] \in HostRequest
                               /\ offer[1].source \notin DOMAIN open
         /\ \A s : s \in DOMAIN open' <=>
                     \/ s \in DOMAIN open /\ ~(Delivered(ready) /\ s = q.tlbRsp[1].source)
                     \/ HostAsks(offer) /\ s = offer[1].source
         /\ \A s \in DOMAIN open' :
              open'[s] = IF s \in DOMAIN open THEN open[s]
                         ELSE [vpn |-> offer[1].vpn, root |-> offer[1].root]
<1>1. HostAsks(offer) => /\ offer[1] \in HostRequest /\ offer[1].source \notin DOMAIN open
  BY DEF HostAsks, Stepping, UpToOne, Requests, HostRequest
<1> DEFINE kept == DOMAIN open \ OnlyIf(Delivered(ready), q.tlbRsp[1].source)
           new == OnlyIf(HostAsks(offer), offer[1].source)
<1>2. open' = [s \in kept \cup new |->
                 IF s \in kept THEN open[s] ELSE [vpn |-> offer[1].vpn, root |-> offer[1].root]]
  BY DEF Stepping, Edge
<1>3. \A s : /\ s \in kept <=> s \in DOMAIN open /\ ~(Delivered(ready) /\ s = q.tlbRsp[1].source)
             /\ s \in new <=> HostAsks(offer) /\ s = offer[1].source
  BY DEF OnlyIf
<1> HIDE DEF kept, new
<1> QED
  BY <1>1, <1>2, <1>3
-----------------------------------------------------------------------------
(* The answer a waiting walk takes is the word at the address it asked for.*)
LEMMA AnswerFits ==
  ASSUME Inv, NEW i \in 0 .. Slots - 1
  PROVE  /\ fl[i].state = "memwait" /\ InQ(q.flRsp, fl[i].source) =>
              q.flRsp[1].word = Memory[FLAddr(fl[i])]
         /\ ll[i].state = "memwait" /\ InQ(q.llRsp, ll[i].source) =>
              q.llRsp[1].word = Memory[ll[i].addr]
<1>0. \A st : /\ In(fl, st) = {j \in 0 .. Slots - 1 : fl[j].state = st}
              /\ In(ll, st) = {j \in 0 .. Slots - 1 : ll[j].state = st}
  BY InIs DEF Inv
<1>1. ASSUME NEW j \in 0 .. Slots - 1, fl[i].source = fl[j].source,
             fl[i].state # "idle", fl[j].state # "idle"
      PROVE  i = j
  <2> DEFINE s == fl[i].source
  <2>1. FLRight(fl[i]) /\ DOMAIN open \subseteq Sources
    BY DEF Inv, Right, Typing
  <2>2. s \in Sources
    BY <1>1, <2>1 DEF FLRight
  <2>3. At(<<"fl", i>>, s) /\ At(<<"fl", j>>, s)
    BY <1>1 DEF At, InFL
  <2>4. <<"fl", i>> = <<"fl", j>>
    BY <2>2, <2>3 DEF Inv, OnePlace
  <2> QED
    BY <2>4
<1>2. ASSUME NEW j \in 0 .. Slots - 1, ll[i].source = ll[j].source,
             ll[i].state # "idle", ll[j].state # "idle"
      PROVE  i = j
  <2> DEFINE s == ll[i].source
  <2>1. LLRight(ll[i]) /\ DOMAIN open \subseteq Sources
    BY DEF Inv, Right, Typing
  <2>2. s \in Sources
    BY <1>2, <2>1 DEF LLRight
  <2>3. At(<<"ll", i>>, s) /\ At(<<"ll", j>>, s)
    BY <1>2 DEF At, InLL
  <2>4. <<"ll", i>> = <<"ll", j>>
    BY <2>2, <2>3 DEF Inv, OnePlace
  <2> QED
    BY <2>4
<1>3. ASSUME fl[i].state = "memwait", InQ(q.flRsp, fl[i].source)
      PROVE  q.flRsp[1].word = Memory[FLAddr(fl[i])]
  <2>1. PICK a : <<q.flRsp[1].source, a>> \in FLWaits /\ q.flRsp[1].word = Memory[a]
    BY <1>3 DEF Inv, AllMatched, Matched, InQ
  <2>2. PICK j \in In(fl, "memwait") :
          <<q.flRsp[1].source, a>> = <<fl[j].source, FLAddr(fl[j])>>
    BY <2>1 DEF FLWaits
  <2>3. j \in 0 .. Slots - 1 /\ fl[j].state = "memwait" /\ fl[j].source = fl[i].source
        /\ a = FLAddr(fl[j])
    BY <1>0, <1>3, <2>2 DEF InQ
  <2>4. i = j
    BY <1>1, <1>3, <2>3
  <2> QED
    BY <2>1, <2>3, <2>4
<1>4. ASSUME ll[i].state = "memwait", InQ(q.llRsp, ll[i].source)
      PROVE  q.llRsp[1].word = Memory[ll[i].addr]
  <2>1. PICK a : <<q.llRsp[1].source, a>> \in LLWaits /\ q.llRsp[1].word = Memory[a]
    BY <1>4 DEF Inv, AllMatched, Matched, InQ
  <2>2. PICK j \in In(ll, "memwait") :
          <<q.llRsp[1].source, a>> = <<ll[j].source, ll[j].addr>>
    BY <2>1 DEF LLWaits
  <2>3. j \in 0 .. Slots - 1 /\ ll[j].state = "memwait" /\ ll[j].source = ll[i].source
        /\ a = ll[j].addr
    BY <1>0, <1>4, <2>2 DEF InQ
  <2>4. i = j
    BY <1>2, <1>4, <2>3
  <2> QED
    BY <2>1, <2>3, <2>4
<1> QED
  BY <1>3, <1>4

(* A request in the MMU, other than one that is delivered, stays open and  *)
(* the same.                                                               *)
LEMMA StaysOpen ==
  ASSUME Inv, NEW offer, NEW taken, NEW reply, NEW ready,
         Stepping(offer, taken, reply, ready),
         NEW s \in DOMAIN open, ~(Delivered(ready) /\ q.tlbRsp[1].source = s)
  PROVE  s \in DOMAIN open' /\ open'[s] = open[s] /\ open[s] \in Pages /\ s \in Sources
BY OpenMoves DEF Inv, Typing

(* So does a request anywhere but in the last queue, the TLB's.            *)
LEMMA OthersStayOpen ==
  ASSUME Inv, NEW offer, NEW taken, NEW reply, NEW ready,
         Stepping(offer, taken, reply, ready), NEW s, s \in DOMAIN open,
         NEW p, At(p, s), p # <<"tlbRsp", 0>>
  PROVE  s \in DOMAIN open' /\ open'[s] = open[s] /\ open[s] \in Pages /\ s \in Sources
<1>1. s \in Sources
  BY DEF Inv, Typing
<1>2. ~(Delivered(ready) /\ q.tlbRsp[1].source = s)
  <2> SUFFICES ASSUME Delivered(ready), q.tlbRsp[1].source = s PROVE FALSE
    OBVIOUS
  <2>1. At(<<"tlbRsp", 0>>, s)
    BY DEF Delivered, At, InQ
  <2> QED
    BY <1>1, <2>1 DEF Inv, OnePlace
<1> QED
  BY <1>2, StaysOpen

(* A walk after an answer.                                                 *)
LEMMA WalkStepIs ==
  ASSUME NEW e \in FLType, NEW rsp, NEW t \in Nat, Ppn(rsp[1].word) = t, e.level \in {1, 2}
  PROVE  LET f == WalkStep(e, rsp)
         IN  /\ f \in FLType /\ f.ppn = t /\ f.source = e.source /\ f.vpn = e.vpn
             /\ f.level = e.level - 1
             /\ f.state = IF e.level = 2 THEN "memreq" ELSE "llreq"
<1> DEFINE f == WalkStep(e, rsp)
<1>1. CASE e.level = 2
  <2>1. f = [e EXCEPT !.state = "memreq", !.level = 1, !.ppn = t]
    BY <1>1 DEF WalkStep, FLType
  <2>2. f = [state |-> "memreq", ppn |-> t, vpn |-> e.vpn, level |-> 1, source |-> e.source]
    BY <2>1 DEF FLType
  <2> HIDE DEF f
  <2>3. f \in FLType
    BY <2>2 DEF FLType
  <2> QED
    BY <1>1, <2>2, <2>3 DEF f
<1>2. CASE e.level = 1
  <2>1. f = [e EXCEPT !.state = "llreq", !.level = 0, !.ppn = t]
    BY <1>2 DEF WalkStep, FLType
  <2>2. f = [state |-> "llreq", ppn |-> t, vpn |-> e.vpn, level |-> 0, source |-> e.source]
    BY <2>1 DEF FLType
  <2> HIDE DEF f
  <2>3. f \in FLType
    BY <2>2 DEF FLType
  <2> QED
    BY <1>2, <2>2, <2>3 DEF f
<1> QED
  BY <1>1, <1>2

(* A walk of the first walker goes on over the tables of its request.      *)
LEMMA FLRightKept ==
  ASSUME Inv, NEW offer, NEW taken, NEW reply, NEW ready,
         Stepping(offer, taken, reply, ready), NEW i \in 0 .. Slots - 1
  PROVE  fl'[i] \in FLType /\ FLRight(fl[i])'
<1> DEFINE e == fl[i]
<1>1. e \in FLType /\ FLRight(e)
  BY DEF Inv, Typing, Right
<1>2. ASSUME e.state # "idle"
      PROVE  LET s == e.source
             IN  s \in DOMAIN open' /\ open'[s] = open[s] /\ open[s] \in Pages /\ s \in DOMAIN open
  <2>1. At(<<"fl", i>>, e.source)
    BY <1>2 DEF At, InFL
  <2>2. e.source \in DOMAIN open /\ <<"fl", i>> # <<"tlbRsp", 0>>
    BY <1>1, <1>2 DEF FLRight
  <2> HIDE DEF e
  <2> QED
    BY <2>1, <2>2, OthersStayOpen
<1>3. CASE e.state = "llreq"
  <2>1. fl'[i] = NoWalk \/ fl'[i] = e
    BY <1>3, FLMoves
  <2>2. NoWalk \in FLType /\ NoWalk.state = "idle"
    BY DEF NoWalk, FLType
  <2> QED
    BY <1>1, <1>2, <1>3, <2>1, <2>2 DEF FLRight
<1>4. CASE e.state = "memwait"
  <2>1. fl'[i] = IF InQ(q.flRsp, e.source) THEN WalkStep(e, q.flRsp) ELSE e
    BY <1>4, FLMoves
  <2>2. CASE ~InQ(q.flRsp, e.source)
    BY <1>1, <1>2, <1>4, <2>1, <2>2 DEF FLRight
  <2>3. CASE InQ(q.flRsp, e.source)
    <3> DEFINE p == open[e.source]
               f == WalkStep(e, q.flRsp)
    <3>1. q.flRsp[1].word = Memory[FLAddr(e)]
      BY <1>4, <2>3, AnswerFits
    <3>2. p \in Pages /\ e.vpn = p.vpn
      BY <1>1, <1>2, <1>4 DEF FLRight
    <3>3. \/ e.level = 2 /\ e.ppn = p.root
          \/ e.level = 1 /\ e.ppn = Table1(p)
      BY <1>1, <1>4 DEF FLRight
    <3> HIDE DEF p
    <3>4. CASE e.level = 2 /\ e.ppn = p.root
      <4>1. Ppn(q.flRsp[1].word) = Table1(p)
        BY <3>1, <3>2, <3>4 DEF FLAddr, Table1
      <4>2. Table1(p) \in Nat
        BY <3>2, AddressesHold
      <4> HIDE DEF e, f
      <4>3. f \in FLType /\ f.state = "memreq" /\ f.level = 1 /\ f.ppn = Table1(p)
            /\ f.source = e.source /\ f.vpn = e.vpn
        BY <1>1, <3>4, <4>1, <4>2, WalkStepIs DEF f
      <4>4. fl'[i] = f
        BY <2>1, <2>3 DEF f
      <4> QED
        BY <1>2, <1>4, <3>2, <4>3, <4>4 DEF FLRight, p
    <3>5. CASE e.level = 1 /\ e.ppn = Table1(p)
      <4>1. Ppn(q.flRsp[1].word) = Table0(p)
        BY <3>1, <3>2, <3>5 DEF FLAddr, Table0
      <4>2. Table0(p) \in Nat
        BY <3>2, AddressesHold
      <4> HIDE DEF e, f
      <4>3. f \in FLType /\ f.state = "llreq" /\ f.level = 0 /\ f.ppn = Table0(p)
            /\ f.source = e.source /\ f.vpn = e.vpn
        BY <1>1, <3>5, <4>1, <4>2, WalkStepIs DEF f
      <4>4. fl'[i] = f
        BY <2>1, <2>3 DEF f
      <4> QED
        BY <1>2, <1>4, <3>2, <4>3, <4>4 DEF FLRight, p
    <3> QED
      BY <3>3, <3>4, <3>5
  <2> QED
    BY <2>2, <2>3
<1>5. CASE e.state = "memreq"
  <2>1. fl'[i] = e \/ fl'[i] = [e EXCEPT !.state = "memwait"]
    BY <1>5, FLMoves
  <2>2. \/ fl'[i] = e
        \/ /\ fl'[i] \in FLType /\ fl'[i].state = "memwait" /\ fl'[i].level = e.level
           /\ fl'[i].ppn = e.ppn /\ fl'[i].source = e.source /\ fl'[i].vpn = e.vpn
    BY <1>1, <2>1 DEF FLType
  <2> QED
    BY <1>1, <1>2, <1>5, <2>2 DEF FLRight
<1>6. CASE e.state = "idle"
  <2>1. fl'[i] = IF ToFL /\ i = EnqPtr(fl) THEN Started(q.l2Req[1]) ELSE e
    BY <1>6, FLMoves
  <2>2. CASE ~(ToFL /\ i = EnqPtr(fl))
    BY <1>1, <1>6, <2>1, <2>2 DEF FLRight
  <2>3. CASE ToFL /\ i = EnqPtr(fl)
    <3> DEFINE r == q.l2Req[1]
               f == Started(r)
    <3>1. q.l2Req # << >> /\ ReqRight(q.l2Req) /\ q.l2Req \in UpToOne(HostRequest)
      BY <2>3 DEF ToFL, Inv, Right, Typing, QueueType
    <3>2. r \in HostRequest /\ r.source \in DOMAIN open
          /\ open[r.source] = [vpn |-> r.vpn, root |-> r.root]
      BY <3>1 DEF UpToOne, ReqRight
    <3>3. r.source \in DOMAIN open' /\ open'[r.source] = open[r.source]
          /\ open[r.source] \in Pages
      <4>1. At(<<"l2Req", 0>>, r.source) /\ <<"l2Req", 0>> # <<"tlbRsp", 0>>
        BY <3>1 DEF At, InQ
      <4> HIDE DEF r
      <4> QED
        BY <3>2, <4>1, OthersStayOpen
    <3>4. f = [state |-> "memreq", ppn |-> r.root, vpn |-> r.vpn, level |-> 2, source |-> r.source]
      BY DEF Started
    <3>5. r.root \in Nat /\ r.vpn \in Nat /\ r.source \in Sources
      BY <3>2, MMUAssumption DEF HostRequest
    <3> HIDE DEF r
    <3>6. f \in FLType
      BY <3>4, <3>5 DEF FLType
    <3>7. fl'[i] = f
      BY <2>1, <2>3 DEF r
    <3> QED
      BY <3>2, <3>3, <3>4, <3>6, <3>7 DEF FLRight
  <2> QED
    BY <2>2, <2>3
<1> QED
  BY <1>1, <1>3, <1>4, <1>5, <1>6 DEF FLType

(* A walk of the last-level walker waits for the entry of its request, and *)
(* then holds it.                                                          *)
LEMMA LLRightKept ==
  ASSUME Inv, NEW offer, NEW taken, NEW reply, NEW ready,
         Stepping(offer, taken, reply, ready), NEW i \in 0 .. Slots - 1
  PROVE  ll'[i] \in LLType /\ LLRight(ll[i])'
<1> DEFINE e == ll[i]
<1>1. e \in LLType /\ LLRight(e)
  BY DEF Inv, Typing, Right
<1>2. ASSUME e.state # "idle"
      PROVE  LET s == e.source
             IN  s \in DOMAIN open' /\ open'[s] = open[s] /\ open[s] \in Pages /\ s \in DOMAIN open
  <2>1. At(<<"ll", i>>, e.source)
    BY <1>2 DEF At, InLL
  <2>2. e.source \in DOMAIN open /\ <<"ll", i>> # <<"tlbRsp", 0>>
    BY <1>1, <1>2 DEF LLRight
  <2> HIDE DEF e
  <2> QED
    BY <2>1, <2>2, OthersStayOpen
<1>3. CASE e.state = "ptwrsp"
  <2>1. ll'[i] = NoLast \/ ll'[i] = e
    BY <1>3, LLMoves
  <2>2. NoLast \in LLType /\ NoLast.state = "idle"
    BY DEF NoLast, LLType
  <2> QED
    BY <1>1, <1>2, <1>3, <2>1, <2>2 DEF LLRight
<1>4. CASE e.state = "memwait"
  <2> DEFINE w == q.llRsp[1].word
  <2>1. ll'[i] = IF InQ(q.llRsp, e.source)
                 THEN [e EXCEPT !.state = "ptwrsp", !.addr = w] ELSE e
    BY <1>4, LLMoves
  <2>2. CASE ~InQ(q.llRsp, e.source)
    BY <1>1, <1>2, <1>4, <2>1, <2>2 DEF LLRight
  <2>3. CASE InQ(q.llRsp, e.source)
    <3>1. w = Memory[Entry(open[e.source])] /\ e.source \in DOMAIN open
      BY <1>1, <1>4, <2>3, AnswerFits DEF LLRight
    <3>2. open[e.source] \in Pages
      BY <1>2, <1>4
    <3>3. w \in Nat
      BY <3>1, <3>2, AddressesHold
    <3> HIDE DEF w
    <3>4. ll'[i] = [state |-> "ptwrsp", addr |-> w, source |-> e.source]
      BY <1>1, <2>1, <2>3 DEF LLType
    <3>5. ll'[i] \in LLType
      BY <1>1, <3>3, <3>4 DEF LLType
    <3> QED
      BY <1>2, <1>4, <3>1, <3>4, <3>5 DEF LLRight
  <2> QED
    BY <2>2, <2>3
<1>5. CASE e.state = "memreq"
  <2>1. ll'[i] = e \/ ll'[i] = [e EXCEPT !.state = "memwait"]
    BY <1>5, LLMoves
  <2>2. \/ ll'[i] = e
        \/ /\ ll'[i] \in LLType /\ ll'[i].state = "memwait"
           /\ ll'[i].addr = e.addr /\ ll'[i].source = e.source
    BY <1>1, <2>1 DEF LLType
  <2> QED
    BY <1>1, <1>2, <1>5, <2>2 DEF LLRight
<1>6. CASE e.state = "idle"
  <2> DEFINE d == fl[FLFree]
  <2>1. ll'[i] = IF FLOut /\ i = EnqPtr(ll)
                 THEN [state |-> "memreq", addr |-> FLAddr(d), source |-> d.source] ELSE e
    BY <1>6, LLMoves
  <2>2. CASE ~(FLOut /\ i = EnqPtr(ll))
    BY <1>1, <1>6, <2>1, <2>2 DEF LLRight
  <2>3. CASE FLOut /\ i = EnqPtr(ll)
    <3>1. FLFree \in 0 .. Slots - 1 /\ d.state = "llreq"
      BY <2>3, FLNames
    <3>2. d \in FLType /\ FLRight(d)
      BY <3>1 DEF Inv, Typing, Right
    <3>3. d.source \in DOMAIN open /\ d.vpn = open[d.source].vpn /\ d.level = 0
          /\ d.ppn = Table0(open[d.source])
      BY <3>1, <3>2 DEF FLRight
    <3>4. d.source \in DOMAIN open' /\ open'[d.source] = open[d.source]
          /\ open[d.source] \in Pages /\ d.source \in Sources
      <4>1. At(<<"fl", FLFree>>, d.source) /\ <<"fl", FLFree>> # <<"tlbRsp", 0>>
        BY <3>1 DEF At, InFL
      <4> HIDE DEF d
      <4> QED
        BY <3>3, <4>1, OthersStayOpen
    <3> HIDE DEF d
    <3>5. FLAddr(d) = Entry(open[d.source])
      BY <3>3 DEF FLAddr, Entry
    <3>6. FLAddr(d) \in Nat
      <4>1. FLAddr(d) \in DOMAIN Memory
        BY <3>4, <3>5, AddressesHold
      <4> QED
        BY <4>1, MMUAssumption
    <3>7. ll'[i] = [state |-> "memreq", addr |-> FLAddr(d), source |-> d.source]
      BY <2>1, <2>3
    <3>8. ll'[i] \in LLType
      BY <3>4, <3>6, <3>7 DEF LLType
    <3> QED
      BY <3>4, <3>5, <3>7, <3>8 DEF LLRight
  <2> QED
    BY <2>2, <2>3
<1> QED
  BY <1>1, <1>3, <1>4, <1>5, <1>6 DEF LLType

(* The queues of the host's requests and of their answers.                 *)
LEMMA ReqRightKept ==
  ASSUME Inv, NEW offer, NEW taken, NEW reply, NEW ready,
         Stepping(offer, taken, reply, ready)
  PROVE  /\ q'.tlbReq \in UpToOne(HostRequest) /\ ReqRight(q.tlbReq)'
         /\ q'.l2Req \in UpToOne(HostRequest) /\ ReqRight(q.l2Req)'
<1>1. /\ q.tlbReq \in UpToOne(HostRequest) /\ ReqRight(q.tlbReq)
      /\ q.l2Req \in UpToOne(HostRequest) /\ ReqRight(q.l2Req)
  BY DEF Inv, Typing, QueueType, Right
<1> DEFINE Stay(x) == /\ x[1].source \in DOMAIN open'
                      /\ open'[x[1].source] = open[x[1].source]
<1>2. q.tlbReq # << >> => Stay(q.tlbReq)
  <2> SUFFICES ASSUME q.tlbReq # << >> PROVE Stay(q.tlbReq)
    OBVIOUS
  <2>1. At(<<"tlbReq", 0>>, q.tlbReq[1].source) /\ <<"tlbReq", 0>> # <<"tlbRsp", 0>>
    BY DEF At, InQ
  <2>2. q.tlbReq[1].source \in DOMAIN open
    BY <1>1 DEF ReqRight
  <2> QED
    BY <2>1, <2>2, OthersStayOpen
<1>3. q.l2Req # << >> => Stay(q.l2Req)
  <2> SUFFICES ASSUME q.l2Req # << >> PROVE Stay(q.l2Req)
    OBVIOUS
  <2>1. At(<<"l2Req", 0>>, q.l2Req[1].source) /\ <<"l2Req", 0>> # <<"tlbRsp", 0>>
    BY DEF At, InQ
  <2>2. q.l2Req[1].source \in DOMAIN open
    BY <1>1 DEF ReqRight
  <2> QED
    BY <2>1, <2>2, OthersStayOpen
<1>4. q'.l2Req \in UpToOne(HostRequest) /\ ReqRight(q.l2Req)'
  <2>1. q'.l2Req = q.tlbReq \/ q'.l2Req = << >> \/ q'.l2Req = q.l2Req
    BY QueueMoves
  <2>2. << >> \in UpToOne(HostRequest)
    BY DEF UpToOne
  <2> QED
    BY <1>1, <1>2, <1>3, <2>1, <2>2 DEF ReqRight
<1>5. q'.tlbReq \in UpToOne(HostRequest) /\ ReqRight(q.tlbReq)'
  <2>1. CASE HostAsks(offer)
    <3>1. q'.tlbReq = offer
      BY <2>1, QueueMoves
    <3>2. offer[1] \in HostRequest /\ offer[1].source \notin DOMAIN open
      BY <2>1, OpenMoves
    <3>3. /\ offer[1].source \in DOMAIN open'
          /\ open'[offer[1].source] = [vpn |-> offer[1].vpn, root |-> offer[1].root]
      BY <2>1, <3>2, OpenMoves
    <3>4. offer = <<offer[1]>>
      BY <2>1 DEF Stepping, UpToOne, HostAsks
    <3>5. offer \in UpToOne(HostRequest)
      BY <3>2, <3>4 DEF UpToOne
    <3> QED
      BY <3>1, <3>3, <3>5 DEF ReqRight
  <2>2. CASE ~HostAsks(offer)
    <3>1. q'.tlbReq = << >> \/ q'.tlbReq = q.tlbReq
      BY <2>2, QueueMoves
    <3>2. << >> \in UpToOne(HostRequest)
      BY DEF UpToOne
    <3> QED
      BY <1>1, <1>2, <3>1, <3>2 DEF ReqRight
  <2> QED
    BY <2>1, <2>2
<1> QED
  BY <1>4, <1>5

(* The queues of answers hold the words of the requests they are for.      *)
LEMMA RspRightKept ==
  ASSUME Inv, NEW offer, NEW taken, NEW reply, NEW ready,
         Stepping(offer, taken, reply, ready)
  PROVE  /\ q'.l2Rsp \in UpToOne(Fetched) /\ RspRight(q.l2Rsp)'
         /\ q'.tlbRsp \in UpToOne(Fetched) /\ RspRight(q.tlbRsp)'
<1>1. /\ q.l2Rsp \in UpToOne(Fetched) /\ RspRight(q.l2Rsp)
      /\ q.tlbRsp \in UpToOne(Fetched) /\ RspRight(q.tlbRsp)
      /\ << >> \in UpToOne(Fetched)
  BY DEF Inv, Typing, QueueType, Right, UpToOne
<1> DEFINE Stay(x) == /\ x[1].source \in DOMAIN open'
                      /\ open'[x[1].source] = open[x[1].source]
<1>2. q.l2Rsp # << >> => Stay(q.l2Rsp)
  <2> SUFFICES ASSUME q.l2Rsp # << >> PROVE Stay(q.l2Rsp)
    OBVIOUS
  <2>1. At(<<"l2Rsp", 0>>, q.l2Rsp[1].source) /\ <<"l2Rsp", 0>> # <<"tlbRsp", 0>>
    BY DEF At, InQ
  <2>2. q.l2Rsp[1].source \in DOMAIN open
    BY <1>1 DEF RspRight
  <2> QED
    BY <2>1, <2>2, OthersStayOpen
<1>3. q.tlbRsp # << >> /\ ~Delivered(ready) => Stay(q.tlbRsp)
  BY <1>1, StaysOpen DEF RspRight
<1>4. q'.tlbRsp \in UpToOne(Fetched) /\ RspRight(q.tlbRsp)'
  <2>1. \/ q'.tlbRsp = q.l2Rsp \/ q'.tlbRsp = << >>
        \/ q'.tlbRsp = q.tlbRsp /\ ~Delivered(ready)
    BY QueueMoves
  <2> QED
    BY <1>1, <1>2, <1>3, <2>1 DEF RspRight
<1>5. q'.l2Rsp \in UpToOne(Fetched) /\ RspRight(q.l2Rsp)'
  <2>1. CASE LLOut
    <3> DEFINE d == ll[LLFree]
    <3>1. /\ LLFree \in 0 .. Slots - 1 /\ d.state = "ptwrsp"
          /\ q'.l2Rsp = <<[source |-> d.source, word |-> d.addr]>>
      BY <2>1, LLNames, QueueMoves
    <3>2. LLRight(d)
      BY <3>1 DEF Inv, Right
    <3>3. d.source \in DOMAIN open /\ d.addr = Memory[Entry(open[d.source])]
      BY <3>1, <3>2 DEF LLRight
    <3>4. d.source \in DOMAIN open' /\ open'[d.source] = open[d.source]
          /\ open[d.source] \in Pages /\ d.source \in Sources
      <4>1. At(<<"ll", LLFree>>, d.source) /\ <<"ll", LLFree>> # <<"tlbRsp", 0>>
        BY <3>1 DEF At, InLL
      <4> HIDE DEF d
      <4> QED
        BY <3>3, <4>1, OthersStayOpen
    <3>5. d.addr \in Nat
      BY <3>3, <3>4, AddressesHold
    <3> HIDE DEF d
    <3>6. [source |-> d.source, word |-> d.addr] \in Fetched
      BY <3>4, <3>5 DEF Fetched
    <3> QED
      BY <3>1, <3>3, <3>4, <3>6 DEF RspRight, UpToOne
  <2>2. CASE ~LLOut
    <3>1. q'.l2Rsp = << >> \/ q'.l2Rsp = q.l2Rsp
      BY <2>2, QueueMoves
    <3> QED
      BY <1>1, <1>2, <3>1 DEF RspRight
  <2> QED
    BY <2>1, <2>2
<1> QED
  BY <1>4, <1>5

(* The queues to and from memory keep their types, and so does memory.     *)
LEMMA TrafficTyped ==
  ASSUME Inv, NEW offer, NEW taken, NEW reply, NEW ready,
         Stepping(offer, taken, reply, ready)
  PROVE  /\ q'.flReq \in UpToOne(Fetch) /\ q'.llReq \in UpToOne(Fetch)
         /\ q'.flRsp \in UpToOne(Fetched) /\ q'.llRsp \in UpToOne(Fetched)
         /\ waiting' \subseteq MemRequest
<1>1. /\ q.flReq \in UpToOne(Fetch) /\ q.llReq \in UpToOne(Fetch)
      /\ << >> \in UpToOne(Fetch) /\ << >> \in UpToOne(Fetched)
      /\ waiting \subseteq MemRequest
  BY DEF Inv, Typing, QueueType, UpToOne
<1>2. FLAsks => [source |-> fl[FLAsk].source, addr |-> FLAddr(fl[FLAsk])] \in Fetch
  <2> SUFFICES ASSUME FLAsks PROVE [source |-> fl[FLAsk].source, addr |-> FLAddr(fl[FLAsk])] \in Fetch
    OBVIOUS
  <2>1. FLAsk \in 0 .. Slots - 1 /\ fl[FLAsk].state = "memreq"
    BY FLNames
  <2>2. FLAddr(fl[FLAsk]) \in DOMAIN Memory
    BY <2>1, FetchTyped DEF Inv
  <2>3. fl[FLAsk].source \in Sources
    BY <2>1 DEF Inv, Right, FLRight, Typing
  <2> QED
    BY <2>2, <2>3 DEF Fetch
<1>3. LLAsks => [source |-> ll[LLAsk].source, addr |-> ll[LLAsk].addr] \in Fetch
  <2> SUFFICES ASSUME LLAsks PROVE [source |-> ll[LLAsk].source, addr |-> ll[LLAsk].addr] \in Fetch
    OBVIOUS
  <2>1. LLAsk \in 0 .. Slots - 1 /\ ll[LLAsk].state = "memreq"
    BY LLNames
  <2>2. ll[LLAsk].addr \in DOMAIN Memory
    BY <2>1, FetchTyped DEF Inv
  <2>3. ll[LLAsk].source \in Sources
    BY <2>1 DEF Inv, Right, LLRight, Typing
  <2> QED
    BY <2>2, <2>3 DEF Fetch
<1>4. q'.flReq \in UpToOne(Fetch)
  BY <1>1, <1>2, QueueMoves DEF UpToOne
<1>5. q'.llReq \in UpToOne(Fetch)
  BY <1>1, <1>3, QueueMoves DEF UpToOne
<1>6. reply # << >> => reply[1] \in waiting /\ Word(reply[1]) \in UpToOne(Fetched)
  <2> SUFFICES ASSUME reply # << >> PROVE reply[1] \in waiting /\ Word(reply[1]) \in UpToOne(Fetched)
    OBVIOUS
  <2>1. reply[1] \in waiting
    BY DEF Stepping, UpToOne
  <2>2. reply[1].source \in Sources /\ Memory[reply[1].addr] \in Nat
    BY <1>1, <2>1, MMUAssumption DEF MemRequest
  <2> QED
    BY <2>1, <2>2 DEF Word, UpToOne, Fetched
<1>7. q'.flRsp \in UpToOne(Fetched) /\ q'.llRsp \in UpToOne(Fetched)
  BY <1>1, <1>6, QueueMoves DEF FLReplied, LLReplied
<1>8. \A x \in Fetch : Sent("fl", x) \in MemRequest /\ Sent("ll", x) \in MemRequest
  BY DEF Fetch, Sent, MemRequest
<1>9. /\ FLTaken(taken) => q.flReq[1] \in Fetch
      /\ LLTaken(taken) => q.llReq[1] \in Fetch
  BY <1>1 DEF FLTaken, LLTaken, UpToOne
<1>10. waiting' \subseteq MemRequest
  BY <1>1, <1>8, <1>9 DEF Stepping, Edge, OnlyIf
<1> QED
  BY <1>4, <1>5, <1>7, <1>10
-----------------------------------------------------------------------------
(* The places of a source after an edge, each with the place it came from. *)
LEMMA FLPlaces ==
  ASSUME Inv, NEW offer, NEW taken, NEW reply, NEW ready,
         Stepping(offer, taken, reply, ready), NEW s, NEW i
  PROVE  InFL(i, s)' <=> \/ ToFL /\ i = EnqPtr(fl) /\ InQ(q.l2Req, s)
                         \/ InFL(i, s) /\ ~(FLOut /\ fl[i].state = "llreq")
<1>1. ToFL => EnqPtr(fl) \in 0 .. Slots - 1 /\ fl[EnqPtr(fl)].state = "idle" /\ q.l2Req # << >>
  BY FLNames
<1>2. CASE i \notin 0 .. Slots - 1
  BY <1>1, <1>2 DEF InFL
<1>3. CASE i \in 0 .. Slots - 1
  <2> DEFINE e == fl[i]
             f == fl'[i]
  <2>1. e \in FLType
    BY <1>3 DEF Inv, Typing
  <2>2. InFL(i, s)' <=> f.state # "idle" /\ f.source = s
    BY <1>3 DEF InFL
  <2>3. CASE e.state = "llreq"
    <3>1. f = IF FLOut THEN NoWalk ELSE e
      BY <1>3, <2>3, FLMoves
    <3> QED
      BY <1>1, <1>3, <2>2, <2>3, <3>1 DEF InFL, NoWalk
  <2>4. CASE e.state = "memwait"
    <3>1. f = e \/ f = WalkStep(e, q.flRsp)
      BY <1>3, <2>4, FLMoves
    <3>2. WalkStep(e, q.flRsp).state # "idle" /\ WalkStep(e, q.flRsp).source = e.source
      BY <2>1 DEF WalkStep, FLType
    <3> HIDE DEF e, f
    <3>3. f.state # "idle" /\ f.source = e.source
      BY <2>4, <3>1, <3>2
    <3> QED
      BY <1>1, <1>3, <2>2, <2>4, <3>3 DEF InFL, e
  <2>5. CASE e.state = "memreq"
    <3>1. f = e \/ f = [e EXCEPT !.state = "memwait"]
      BY <1>3, <2>5, FLMoves
    <3>2. f.state # "idle" /\ f.source = e.source
      BY <2>1, <2>5, <3>1 DEF FLType
    <3> QED
      BY <1>1, <1>3, <2>2, <2>5, <3>2 DEF InFL
  <2>6. CASE e.state = "idle"
    <3>1. f = IF ToFL /\ i = EnqPtr(fl) THEN Started(q.l2Req[1]) ELSE e
      BY <1>3, <2>6, FLMoves
    <3>2. Started(q.l2Req[1]).state # "idle" /\ Started(q.l2Req[1]).source = q.l2Req[1].source
      BY DEF Started
    <3> QED
      BY <1>1, <2>2, <2>6, <3>1, <3>2 DEF InFL, InQ
  <2> QED
    BY <2>1, <2>3, <2>4, <2>5, <2>6 DEF FLType
<1> QED
  BY <1>2, <1>3

(* The same of the last-level walker.                                      *)
LEMMA LLPlaces ==
  ASSUME Inv, NEW offer, NEW taken, NEW reply, NEW ready,
         Stepping(offer, taken, reply, ready), NEW s, NEW i
  PROVE  InLL(i, s)' <=> \/ FLOut /\ i = EnqPtr(ll) /\ InFL(FLFree, s)
                         \/ InLL(i, s) /\ ~(LLOut /\ ll[i].state = "ptwrsp")
<1>1. FLOut => /\ EnqPtr(ll) \in 0 .. Slots - 1 /\ ll[EnqPtr(ll)].state = "idle"
               /\ (InFL(FLFree, s) <=> fl[FLFree].source = s)
  BY FLNames DEF InFL
<1>2. CASE i \notin 0 .. Slots - 1
  BY <1>1, <1>2 DEF InLL
<1>3. CASE i \in 0 .. Slots - 1
  <2> DEFINE e == ll[i]
             f == ll'[i]
  <2>1. e \in LLType
    BY <1>3 DEF Inv, Typing
  <2>2. InLL(i, s)' <=> f.state # "idle" /\ f.source = s
    BY <1>3 DEF InLL
  <2>3. CASE e.state = "ptwrsp"
    <3>1. f = IF LLOut THEN NoLast ELSE e
      BY <1>3, <2>3, LLMoves
    <3> QED
      BY <1>1, <1>3, <2>2, <2>3, <3>1 DEF InLL, NoLast
  <2>4. CASE e.state = "memwait"
    <3>1. f = e \/ f = [e EXCEPT !.state = "ptwrsp", !.addr = q.llRsp[1].word]
      BY <1>3, <2>4, LLMoves
    <3>2. f.state # "idle" /\ f.source = e.source
      BY <2>1, <2>4, <3>1 DEF LLType
    <3> QED
      BY <1>1, <1>3, <2>2, <2>4, <3>2 DEF InLL
  <2>5. CASE e.state = "memreq"
    <3>1. f = e \/ f = [e EXCEPT !.state = "memwait"]
      BY <1>3, <2>5, LLMoves
    <3>2. f.state # "idle" /\ f.source = e.source
      BY <2>1, <2>5, <3>1 DEF LLType
    <3> QED
      BY <1>1, <1>3, <2>2, <2>5, <3>2 DEF InLL
  <2>6. CASE e.state = "idle"
    <3>1. f = IF FLOut /\ i = EnqPtr(ll)
              THEN [state |-> "memreq", addr |-> FLAddr(fl[FLFree]), source |-> fl[FLFree].source]
              ELSE e
      BY <1>3, <2>6, LLMoves
    <3> QED
      BY <1>1, <2>2, <2>6, <3>1 DEF InLL
  <2> QED
    BY <2>1, <2>3, <2>4, <2>5, <2>6 DEF LLType
<1> QED
  BY <1>2, <1>3

(* And of the queues.                                                      *)
LEMMA QueuePlaces ==
  ASSUME Inv, NEW offer, NEW taken, NEW reply, NEW ready,
         Stepping(offer, taken, reply, ready), NEW s
  PROVE  /\ InQ(q.tlbReq, s)' <=> \/ HostAsks(offer) /\ offer[1].source = s
                                  \/ InQ(q.tlbReq, s) /\ ~ToL2
         /\ InQ(q.l2Req, s)' <=> \/ ToL2 /\ InQ(q.tlbReq, s)
                                 \/ InQ(q.l2Req, s) /\ ~ToFL
         /\ InQ(q.l2Rsp, s)' <=> \/ LLOut /\ InLL(LLFree, s)
                                 \/ InQ(q.l2Rsp, s) /\ ~ToTLB
         /\ InQ(q.tlbRsp, s)' <=> \/ ToTLB /\ InQ(q.l2Rsp, s)
                                  \/ InQ(q.tlbRsp, s) /\ ~Delivered(ready)
<1>1. /\ HostAsks(offer) => offer # << >> /\ q.tlbReq = << >>
      /\ ToL2 => q.tlbReq # << >> /\ q.l2Req = << >>
      /\ ToTLB => q.l2Rsp # << >> /\ q.tlbRsp = << >>
      /\ Delivered(ready) => q.tlbRsp # << >>
      /\ LLOut => q.l2Rsp = << >>
  BY DEF HostAsks, ToL2, ToTLB, Delivered, LLOut
<1>2. LLOut => (InLL(LLFree, s) <=> ll[LLFree].source = s)
  BY LLNames DEF InLL
<1>3. InQ(q.tlbReq, s)' <=> \/ HostAsks(offer) /\ offer[1].source = s
                            \/ InQ(q.tlbReq, s) /\ ~ToL2
  BY <1>1, QueueMoves DEF InQ
<1>4. InQ(q.l2Req, s)' <=> (ToL2 /\ InQ(q.tlbReq, s)) \/ (InQ(q.l2Req, s) /\ ~ToFL)
  <2>1. q'.l2Req = IF ToL2 THEN q.tlbReq ELSE IF ToFL THEN << >> ELSE q.l2Req
    BY QueueMoves
  <2> QED
    BY <1>1, <2>1 DEF InQ
<1>5. InQ(q.l2Rsp, s)' <=> (LLOut /\ InLL(LLFree, s)) \/ (InQ(q.l2Rsp, s) /\ ~ToTLB)
  BY <1>1, <1>2, QueueMoves DEF InQ
<1>6. InQ(q.tlbRsp, s)' <=> (ToTLB /\ InQ(q.l2Rsp, s)) \/ (InQ(q.tlbRsp, s) /\ ~Delivered(ready))
  <2>1. q'.tlbRsp = IF ToTLB THEN q.l2Rsp ELSE IF Delivered(ready) THEN << >> ELSE q.tlbRsp
    BY QueueMoves
  <2> QED
    BY <1>1, <2>1 DEF InQ
<1> QED
  BY <1>3, <1>4, <1>5, <1>6

(* A place a source is at after an edge goes with one it was at before, or *)
(* with the host's asking; different places with different ones.           *)
LEMMA OnePlaceKept ==
  ASSUME Inv, NEW offer, NEW taken, NEW reply, NEW ready,
         Stepping(offer, taken, reply, ready)
  PROVE  OnePlace'
<1> SUFFICES ASSUME NEW s \in Sources
             PROVE  /\ \A p1, p2 : At(p1, s)' /\ At(p2, s)' => p1 = p2
                    /\ s \in DOMAIN open' <=> \E p : At(p, s)'
  BY DEF OnePlace
<1> DEFINE Asks == HostAsks(offer) /\ offer[1].source = s
           Off(p) == p = <<"tlbRsp", 0>> /\ Delivered(ready)
           Goes(p, p2) ==
             \/ p = <<"tlbReq", 0>> /\ p2 = IF ToL2 THEN <<"l2Req", 0>> ELSE p
             \/ p = <<"l2Req", 0>> /\ p2 = IF ToFL THEN <<"fl", EnqPtr(fl)>> ELSE p
             \/ \E i : /\ p = <<"fl", i>>
                       /\ p2 = IF FLOut /\ fl[i].state = "llreq" THEN <<"ll", EnqPtr(ll)>> ELSE p
             \/ \E i : /\ p = <<"ll", i>>
                       /\ p2 = IF LLOut /\ ll[i].state = "ptwrsp" THEN <<"l2Rsp", 0>> ELSE p
             \/ p = <<"l2Rsp", 0>> /\ p2 = IF ToTLB THEN <<"tlbRsp", 0>> ELSE p
             \/ p = <<"tlbRsp", 0>> /\ ~Delivered(ready) /\ p2 = p
<1>1. /\ \A p1, p2 : At(p1, s) /\ At(p2, s) => p1 = p2
      /\ s \in DOMAIN open <=> \E p : At(p, s)
  BY DEF Inv, OnePlace
<1>2. FLOut => \A i \in 0 .. Slots - 1 : fl[i].state = "llreq" <=> i = FLFree
  BY FLNames
<1>3. LLOut => \A i \in 0 .. Slots - 1 : ll[i].state = "ptwrsp" <=> i = LLFree
  BY LLNames
<1>queues.
  /\ InQ(q.tlbReq, s)' <=> Asks \/ (InQ(q.tlbReq, s) /\ ~ToL2)
  /\ InQ(q.l2Req, s)' <=> (ToL2 /\ InQ(q.tlbReq, s)) \/ (InQ(q.l2Req, s) /\ ~ToFL)
  /\ InQ(q.l2Rsp, s)' <=> (LLOut /\ InLL(LLFree, s)) \/ (InQ(q.l2Rsp, s) /\ ~ToTLB)
  /\ InQ(q.tlbRsp, s)' <=>
       (ToTLB /\ InQ(q.l2Rsp, s)) \/ (InQ(q.tlbRsp, s) /\ ~Delivered(ready))
  BY QueuePlaces
<1>first.
  \A i : InFL(i, s)' <=> (ToFL /\ i = EnqPtr(fl) /\ InQ(q.l2Req, s))
                         \/ (InFL(i, s) /\ ~(FLOut /\ fl[i].state = "llreq"))
  BY FLPlaces
<1>last.
  \A i : InLL(i, s)' <=> (FLOut /\ i = EnqPtr(ll) /\ InFL(FLFree, s))
                         \/ (InLL(i, s) /\ ~(LLOut /\ ll[i].state = "ptwrsp"))
  BY LLPlaces
<1>4. \A p2 : At(p2, s)' => \/ Asks /\ p2 = <<"tlbReq", 0>>
                            \/ \E p : At(p, s) /\ Goes(p, p2)
  <2> SUFFICES ASSUME NEW p2, At(p2, s)'
               PROVE  (Asks /\ p2 = <<"tlbReq", 0>>) \/ \E p : At(p, s) /\ Goes(p, p2)
    OBVIOUS
  <2>1. CASE p2 = <<"tlbReq", 0>> /\ InQ(q.tlbReq, s)'
    <3>1. Asks \/ (InQ(q.tlbReq, s) /\ ~ToL2)
      BY <2>1, <1>queues
    <3>2. InQ(q.tlbReq, s) => At(p2, s)
      BY <2>1 DEF At
    <3> QED
      BY <2>1, <3>1, <3>2
  <2>2. CASE p2 = <<"l2Req", 0>> /\ InQ(q.l2Req, s)'
    <3>1. (ToL2 /\ InQ(q.tlbReq, s)) \/ (InQ(q.l2Req, s) /\ ~ToFL)
      BY <2>2, <1>queues
    <3>2. /\ InQ(q.tlbReq, s) => At(<<"tlbReq", 0>>, s)
          /\ InQ(q.l2Req, s) => At(p2, s)
      BY <2>2 DEF At
    <3> QED
      BY <2>2, <3>1, <3>2
  <2>3. CASE \E i : p2 = <<"fl", i>> /\ InFL(i, s)'
    <3>1. PICK i : p2 = <<"fl", i>> /\ InFL(i, s)'
      BY <2>3
    <3>2. \/ ToFL /\ i = EnqPtr(fl) /\ InQ(q.l2Req, s)
          \/ InFL(i, s) /\ ~(FLOut /\ fl[i].state = "llreq")
      BY <3>1, <1>first
    <3>3. /\ InQ(q.l2Req, s) => At(<<"l2Req", 0>>, s)
          /\ InFL(i, s) => At(p2, s)
      BY <3>1 DEF At
    <3> QED
      BY <3>1, <3>2, <3>3
  <2>4. CASE \E i : p2 = <<"ll", i>> /\ InLL(i, s)'
    <3>1. PICK i : p2 = <<"ll", i>> /\ InLL(i, s)'
      BY <2>4
    <3>2. \/ FLOut /\ i = EnqPtr(ll) /\ InFL(FLFree, s)
          \/ InLL(i, s) /\ ~(LLOut /\ ll[i].state = "ptwrsp")
      BY <3>1, <1>last
    <3>3. /\ InFL(FLFree, s) => At(<<"fl", FLFree>>, s) /\ FLFree \in 0 .. Slots - 1
          /\ InLL(i, s) => At(p2, s)
      BY <3>1 DEF At, InFL
    <3> QED
      BY <1>2, <3>1, <3>2, <3>3
  <2>5. CASE p2 = <<"l2Rsp", 0>> /\ InQ(q.l2Rsp, s)'
    <3>1. (LLOut /\ InLL(LLFree, s)) \/ (InQ(q.l2Rsp, s) /\ ~ToTLB)
      BY <2>5, <1>queues
    <3>2. /\ InLL(LLFree, s) => At(<<"ll", LLFree>>, s) /\ LLFree \in 0 .. Slots - 1
          /\ InQ(q.l2Rsp, s) => At(p2, s)
      BY <2>5 DEF At, InLL
    <3> QED
      BY <1>3, <2>5, <3>1, <3>2
  <2>6. CASE p2 = <<"tlbRsp", 0>> /\ InQ(q.tlbRsp, s)'
    <3>1. (ToTLB /\ InQ(q.l2Rsp, s)) \/ (InQ(q.tlbRsp, s) /\ ~Delivered(ready))
      BY <2>6, <1>queues
    <3>2. /\ InQ(q.l2Rsp, s) => At(<<"l2Rsp", 0>>, s)
          /\ InQ(q.tlbRsp, s) => At(p2, s)
      BY <2>6 DEF At
    <3> QED
      BY <2>6, <3>1, <3>2
  <2> QED
    BY <2>1, <2>2, <2>3, <2>4, <2>5, <2>6 DEF At
<1>5. \A p : At(p, s) => Off(p) \/ \E p2 : At(p2, s)'
  <2> SUFFICES ASSUME NEW p, At(p, s) PROVE Off(p) \/ \E p2 : At(p2, s)'
    OBVIOUS
  <2>0. /\ InQ(q.tlbReq, s)' => At(<<"tlbReq", 0>>, s)'
        /\ InQ(q.l2Req, s)' => At(<<"l2Req", 0>>, s)'
        /\ \A i : InFL(i, s)' => At(<<"fl", i>>, s)'
        /\ \A i : InLL(i, s)' => At(<<"ll", i>>, s)'
        /\ InQ(q.l2Rsp, s)' => At(<<"l2Rsp", 0>>, s)'
        /\ InQ(q.tlbRsp, s)' => At(<<"tlbRsp", 0>>, s)'
    BY DEF At
  <2>1. CASE p = <<"tlbReq", 0>> /\ InQ(q.tlbReq, s)
    BY <2>0, <2>1, <1>queues
  <2>2. CASE p = <<"l2Req", 0>> /\ InQ(q.l2Req, s)
    BY <2>0, <2>2, <1>queues, <1>first
  <2>3. CASE \E i : p = <<"fl", i>> /\ InFL(i, s)
    <3>1. PICK i : p = <<"fl", i>> /\ InFL(i, s)
      BY <2>3
    <3>2. InFL(i, s)' \/ (FLOut /\ i = FLFree)
      BY <1>2, <3>1, <1>first DEF InFL
    <3>3. FLOut /\ i = FLFree => \E j : InLL(j, s)'
      BY <3>1, <1>last
    <3> QED
      BY <2>0, <3>2, <3>3
  <2>4. CASE \E i : p = <<"ll", i>> /\ InLL(i, s)
    <3>1. PICK i : p = <<"ll", i>> /\ InLL(i, s)
      BY <2>4
    <3>2. InLL(i, s)' \/ (LLOut /\ i = LLFree)
      BY <1>3, <3>1, <1>last DEF InLL
    <3>3. LLOut /\ i = LLFree => InQ(q.l2Rsp, s)'
      BY <3>1, <1>queues
    <3> QED
      BY <2>0, <3>2, <3>3
  <2>5. CASE p = <<"l2Rsp", 0>> /\ InQ(q.l2Rsp, s)
    BY <2>0, <2>5, <1>queues
  <2>6. CASE p = <<"tlbRsp", 0>> /\ InQ(q.tlbRsp, s)
    BY <2>0, <2>6, <1>queues
  <2> QED
    BY <2>1, <2>2, <2>3, <2>4, <2>5, <2>6 DEF At
<1>6. \A p, p1, p2 : Goes(p, p1) /\ Goes(p, p2) => p1 = p2
  OBVIOUS
<1>7. \A p, p2 : Goes(p, p2) => ~Off(p)
  OBVIOUS
<1>8. Asks => s \notin DOMAIN open
  BY OpenMoves
<1>9. s \in DOMAIN open' <=> (s \in DOMAIN open /\ ~(Delivered(ready) /\ s = q.tlbRsp[1].source)) \/ Asks
  BY OpenMoves
<1>10. Delivered(ready) /\ s = q.tlbRsp[1].source <=> At(<<"tlbRsp", 0>>, s) /\ Delivered(ready)
  BY DEF Delivered, At, InQ
<1>11. Asks => At(<<"tlbReq", 0>>, s)'
  BY <1>queues DEF At
<1> HIDE DEF Goes, Asks
<1>12. \A p1, p2 : At(p1, s)' /\ At(p2, s)' => p1 = p2
  BY <1>1, <1>4, <1>6, <1>8
<1>13. s \in DOMAIN open' => \E p : At(p, s)'
  BY <1>1, <1>5, <1>9, <1>10, <1>11
<1>14. (\E p : At(p, s)') => s \in DOMAIN open'
  BY <1>1, <1>4, <1>7, <1>9, <1>10
<1> QED
  BY <1>12, <1>13, <1>14

-----------------------------------------------------------------------------
(* With three requests open at most there is never a queue of finished     *)
(* walks, for which the walkers would free another entry than they send.   *)
LEMMA FourPlaces ==
  ASSUME FewOpen, Inv, NEW a \in Sources, NEW b \in Sources, NEW c \in Sources,
         NEW d \in Sources, NEW p1, NEW p2, NEW p3, NEW p4,
         At(p1, a), At(p2, b), At(p3, c), At(p4, d),
         p1 # p2, p1 # p3, p1 # p4, p2 # p3, p2 # p4, p3 # p4
  PROVE  FALSE
BY DEF FewOpen, Inv, OnePlace

(* What a walker or an answer queue holds is the request of a source.      *)
LEMMA SourcesAt ==
  ASSUME Inv
  PROVE  /\ \A i \in 0 .. Slots - 1 : fl[i].state # "idle" =>
              fl[i].source \in Sources /\ At(<<"fl", i>>, fl[i].source)
         /\ \A i \in 0 .. Slots - 1 : ll[i].state # "idle" =>
              ll[i].source \in Sources /\ At(<<"ll", i>>, ll[i].source)
         /\ q.l2Rsp # << >> => /\ q.l2Rsp[1].source \in Sources
                               /\ At(<<"l2Rsp", 0>>, q.l2Rsp[1].source)
         /\ q.tlbRsp # << >> => /\ q.tlbRsp[1].source \in Sources
                                /\ At(<<"tlbRsp", 0>>, q.tlbRsp[1].source)
<1>1. DOMAIN open \subseteq Sources
  BY DEF Inv, Typing
<1>2. \A i \in 0 .. Slots - 1 : FLRight(fl[i]) /\ LLRight(ll[i])
  BY DEF Inv, Right
<1>3. RspRight(q.l2Rsp) /\ RspRight(q.tlbRsp)
  BY DEF Inv, Right
<1>4. \A i \in 0 .. Slots - 1 : fl[i].state # "idle" =>
        fl[i].source \in Sources /\ At(<<"fl", i>>, fl[i].source)
  BY <1>1, <1>2 DEF FLRight, At, InFL
<1>5. \A i \in 0 .. Slots - 1 : ll[i].state # "idle" =>
        ll[i].source \in Sources /\ At(<<"ll", i>>, ll[i].source)
  BY <1>1, <1>2 DEF LLRight, At, InLL
<1>6. q.l2Rsp # << >> => q.l2Rsp[1].source \in Sources /\ At(<<"l2Rsp", 0>>, q.l2Rsp[1].source)
  BY <1>1, <1>3 DEF RspRight, At, InQ
<1>7. q.tlbRsp # << >> =>
        q.tlbRsp[1].source \in Sources /\ At(<<"tlbRsp", 0>>, q.tlbRsp[1].source)
  BY <1>1, <1>3 DEF RspRight, At, InQ
<1> QED
  BY <1>4, <1>5, <1>6, <1>7

(* A source has one entry in a walker.                                     *)
LEMMA SameSlot ==
  ASSUME Inv, NEW i \in 0 .. Slots - 1, NEW j \in 0 .. Slots - 1
  PROVE  /\ fl[i].state # "idle" /\ fl[j].state # "idle" /\ fl[i].source = fl[j].source => i = j
         /\ ll[i].state # "idle" /\ ll[j].state # "idle" /\ ll[i].source = ll[j].source => i = j
<1>1. ASSUME fl[i].state # "idle", fl[j].state # "idle", fl[i].source = fl[j].source
      PROVE  i = j
  <2>1. <<"fl", i>> = <<"fl", j>>
    BY <1>1, SourcesAt DEF Inv, OnePlace
  <2> QED
    BY <2>1
<1>2. ASSUME ll[i].state # "idle", ll[j].state # "idle", ll[i].source = ll[j].source
      PROVE  i = j
  <2>1. <<"ll", i>> = <<"ll", j>>
    BY <1>2, SourcesAt DEF Inv, OnePlace
  <2> QED
    BY <2>1
<1> QED
  BY <1>1, <1>2

(* OneFinished is kept.  Two finished walks of the first walker need one   *)
(* that could not leave, so two walks in the second walker: four requests. *)
(* In the second walker, one that could not leave finds the answer queue   *)
(* to the L2TLB full, and then no answer came behind it.                   *)
LEMMA OneFinishedKept ==
  ASSUME FewOpen, Inv, NEW offer, NEW taken, NEW reply, NEW ready,
         Stepping(offer, taken, reply, ready)
  PROVE  OneFinished'
<1>0. \A st : /\ In(fl, st) = {i \in 0 .. Slots - 1 : fl[i].state = st}
              /\ In(ll, st) = {i \in 0 .. Slots - 1 : ll[i].state = st}
  BY InIs DEF Inv
<1>1. ASSUME NEW i \in 0 .. Slots - 1, fl[i].state = "llreq",
             NEW j \in 0 .. Slots - 1, fl[j].state = "memwait"
      PROVE  FLOut
  <2>1. 0 \in 0 .. Slots - 1 /\ 1 \in 0 .. Slots - 1
    BY MMUAssumption DEF FewOpen
  <2>2. ASSUME ll[0].state # "idle", ll[1].state # "idle" PROVE FALSE
    <3>1. /\ <<"fl", i>> # <<"ll", 0>> /\ <<"fl", i>> # <<"ll", 1>>
          /\ <<"fl", j>> # <<"ll", 0>> /\ <<"fl", j>> # <<"ll", 1>>
          /\ <<"ll", 0>> # <<"ll", 1>>
      OBVIOUS
    <3>2. <<"fl", i>> # <<"fl", j>>
      BY <1>1
    <3>3. /\ fl[i].source \in Sources /\ At(<<"fl", i>>, fl[i].source)
          /\ fl[j].source \in Sources /\ At(<<"fl", j>>, fl[j].source)
          /\ ll[0].source \in Sources /\ At(<<"ll", 0>>, ll[0].source)
          /\ ll[1].source \in Sources /\ At(<<"ll", 1>>, ll[1].source)
      BY <1>1, <2>1, <2>2, SourcesAt
    <3> QED
      BY <3>1, <3>2, <3>3, FourPlaces
  <2>3. In(ll, "idle") # {}
    <3>1. In(ll, "idle") = {k \in 0 .. Slots - 1 : ll[k].state = "idle"}
      BY <1>0
    <3> QED
      BY <2>1, <2>2, <3>1
  <2>4. In(fl, "llreq") # {}
    BY <1>0, <1>1
  <2> QED
    BY <2>3, <2>4 DEF FLOut
<1>2. ASSUME NEW i \in 0 .. Slots - 1, ll[i].state = "ptwrsp", q.llRsp # << >>
      PROVE  LLOut
  <2>1. In(ll, "ptwrsp") # {}
    BY <1>0, <1>2
  <2> QED
    BY <1>2, <2>1 DEF LLOut, Inv, OneFinished
<1>3. ASSUME NEW i \in 0 .. Slots - 1, fl'[i].state = "llreq"
      PROVE  \/ fl[i].state = "llreq" /\ ~FLOut
             \/ fl[i].state = "memwait" /\ InQ(q.flRsp, fl[i].source)
  <2> DEFINE e == fl[i]
  <2>1. e \in FLType
    BY DEF Inv, Typing
  <2>2. CASE e.state = "llreq"
    <3>1. FLOut => fl'[i] = NoWalk
      BY <2>2, FLMoves
    <3> QED
      BY <1>3, <2>2, <3>1 DEF NoWalk
  <2>3. CASE e.state = "memwait"
    BY <1>3, <2>3, FLMoves
  <2>4. CASE e.state = "memreq"
    <3>1. fl'[i] = e \/ fl'[i] = [e EXCEPT !.state = "memwait"]
      BY <2>4, FLMoves
    <3> QED
      BY <1>3, <2>1, <2>4, <3>1 DEF FLType
  <2>5. CASE e.state = "idle"
    <3>1. fl'[i] = e \/ fl'[i] = Started(q.l2Req[1])
      BY <2>5, FLMoves
    <3> QED
      BY <1>3, <2>5, <3>1 DEF Started
  <2> QED
    BY <2>1, <2>2, <2>3, <2>4, <2>5 DEF FLType
<1>4. ASSUME NEW i \in 0 .. Slots - 1, ll'[i].state = "ptwrsp"
      PROVE  \/ ll[i].state = "ptwrsp" /\ ~LLOut
             \/ ll[i].state = "memwait" /\ InQ(q.llRsp, ll[i].source)
  <2> DEFINE e == ll[i]
  <2>1. e \in LLType
    BY DEF Inv, Typing
  <2>2. CASE e.state = "ptwrsp"
    <3>1. LLOut => ll'[i] = NoLast
      BY <2>2, LLMoves
    <3> QED
      BY <1>4, <2>2, <3>1 DEF NoLast
  <2>3. CASE e.state = "memwait"
    BY <1>4, <2>3, LLMoves
  <2>4. CASE e.state = "memreq"
    <3>1. ll'[i] = e \/ ll'[i] = [e EXCEPT !.state = "memwait"]
      BY <2>4, LLMoves
    <3> QED
      BY <1>4, <2>1, <2>4, <3>1 DEF LLType
  <2>5. CASE e.state = "idle"
    <3> DEFINE r == [state |-> "memreq", addr |-> FLAddr(fl[FLFree]),
                     source |-> fl[FLFree].source]
    <3>1. ll'[i] = e \/ ll'[i] = r
      BY <2>5, LLMoves
    <3> QED
      BY <1>4, <2>5, <3>1
  <2> QED
    BY <2>1, <2>2, <2>3, <2>4, <2>5 DEF LLType
<1>5. DOMAIN fl' = 0 .. Slots - 1 /\ DOMAIN ll' = 0 .. Slots - 1
  BY DEF Stepping, Edge, Inv, Typing
<1>6. ASSUME NEW i \in In(fl, "llreq")', NEW j \in In(fl, "llreq")' PROVE i = j
  <2>1. /\ i \in 0 .. Slots - 1 /\ fl'[i].state = "llreq"
        /\ j \in 0 .. Slots - 1 /\ fl'[j].state = "llreq"
    BY <1>5, <1>6 DEF In
  <2>2. CASE fl[i].state = "llreq" /\ fl[j].state = "llreq"
    BY <1>0, <2>1, <2>2 DEF Inv, OneFinished
  <2>3. CASE fl[i].state = "memwait" /\ fl[j].state = "memwait"
    BY <1>3, <2>1, <2>3, SameSlot DEF InQ
  <2>4. ~(fl[i].state = "llreq" /\ fl[j].state = "memwait")
    BY <1>1, <1>3, <2>1
  <2>5. ~(fl[i].state = "memwait" /\ fl[j].state = "llreq")
    BY <1>1, <1>3, <2>1
  <2> QED
    BY <1>3, <2>1, <2>2, <2>3, <2>4, <2>5
<1>7. ASSUME NEW i \in In(ll, "ptwrsp")', NEW j \in In(ll, "ptwrsp")' PROVE i = j
  <2>1. /\ i \in 0 .. Slots - 1 /\ ll'[i].state = "ptwrsp"
        /\ j \in 0 .. Slots - 1 /\ ll'[j].state = "ptwrsp"
    BY <1>5, <1>7 DEF In
  <2>2. CASE ll[i].state = "ptwrsp" /\ ll[j].state = "ptwrsp"
    BY <1>0, <2>1, <2>2 DEF Inv, OneFinished
  <2>3. CASE ll[i].state = "memwait" /\ ll[j].state = "memwait"
    BY <1>4, <2>1, <2>3, SameSlot DEF InQ
  <2>4. ~(ll[i].state = "ptwrsp" /\ ll[j].state = "memwait")
    BY <1>2, <1>4, <2>1 DEF InQ
  <2>5. ~(ll[i].state = "memwait" /\ ll[j].state = "ptwrsp")
    BY <1>2, <1>4, <2>1 DEF InQ
  <2> QED
    BY <1>4, <2>1, <2>2, <2>3, <2>4, <2>5
<1>8. ASSUME q'.l2Rsp # << >>, NEW i \in In(ll, "ptwrsp")', q'.llRsp # << >> PROVE FALSE
  <2>1. i \in 0 .. Slots - 1 /\ ll'[i].state = "ptwrsp"
    BY <1>5, <1>8 DEF In
  <2>2. LLReplied(reply) /\ q.llRsp = << >>
    BY <1>8, QueueMoves DEF LLReplied
  <2>3. ll[i].state = "ptwrsp" /\ ~LLOut
    BY <1>4, <2>1, <2>2 DEF InQ
  <2>4. q.l2Rsp # << >>
    BY <1>0, <2>1, <2>3 DEF LLOut
  <2>5. q.tlbRsp # << >>
    BY <1>8, <2>3, <2>4, QueueMoves DEF ToTLB
  <2>6. PICK j \in 0 .. Slots - 1 : ll[j].state = "memwait"
    <3>1. reply[1] \in OfWalker(waiting, "ll")
      BY <2>2 DEF LLReplied, Stepping, UpToOne, OfWalker
    <3>2. \E w : w \in LLWaits
      BY <3>1 DEF Inv, AllMatched, Matched
    <3> QED
      BY <1>0, <3>2 DEF LLWaits
  <2>7. <<"ll", i>> # <<"ll", j>>
    BY <2>3, <2>6
  <2>8. /\ <<"ll", i>> # <<"l2Rsp", 0>> /\ <<"ll", i>> # <<"tlbRsp", 0>>
        /\ <<"ll", j>> # <<"l2Rsp", 0>> /\ <<"ll", j>> # <<"tlbRsp", 0>>
        /\ <<"l2Rsp", 0>> # <<"tlbRsp", 0>>
    OBVIOUS
  <2>9. /\ ll[i].source \in Sources /\ At(<<"ll", i>>, ll[i].source)
        /\ ll[j].source \in Sources /\ At(<<"ll", j>>, ll[j].source)
        /\ q.l2Rsp[1].source \in Sources /\ At(<<"l2Rsp", 0>>, q.l2Rsp[1].source)
        /\ q.tlbRsp[1].source \in Sources /\ At(<<"tlbRsp", 0>>, q.tlbRsp[1].source)
    BY <2>1, <2>3, <2>4, <2>5, <2>6, SourcesAt
  <2> QED
    BY <2>7, <2>8, <2>9, FourPlaces
<1> QED
  BY <1>6, <1>7, <1>8 DEF OneFinished

-----------------------------------------------------------------------------
(* One walker's traffic with memory at an edge: a walk asks for x, memory  *)
(* takes the request that is queued and files it as z, memory answers y,   *)
(* and the walk whose answer was queued has it.                            *)
TrafficStep(waits, toMem, mem, fromMem, waits2, toMem2, mem2, fromMem2) ==
  \E asks, takes, replies, x, y, z :
    /\ asks \in BOOLEAN /\ takes \in BOOLEAN /\ replies \in BOOLEAN
    /\ asks => toMem = << >> /\ \A w \in waits : w[1] # x.source
    /\ takes => toMem # << >>
    /\ z.source = toMem[1].source /\ z.addr = toMem[1].addr
    /\ replies => y \in mem /\ fromMem = << >>
    /\ \A w : w \in waits2 <=> \/ asks /\ w = <<x.source, x.addr>>
                               \/ w \in waits /\ ~InQ(fromMem, w[1])
    /\ toMem2 = IF asks THEN <<x>> ELSE IF takes THEN << >> ELSE toMem
    /\ mem2 = (mem \ OnlyIf(replies, y)) \cup OnlyIf(takes, z)
    /\ fromMem2 = IF replies THEN Word(y) ELSE << >>

(* Such a step keeps a walker's traffic matched.                           *)
LEMMA TrafficMoves ==
  ASSUME NEW waits, NEW toMem, NEW mem, NEW fromMem,
         NEW waits2, NEW toMem2, NEW mem2, NEW fromMem2,
         Matched(waits, toMem, mem, fromMem),
         TrafficStep(waits, toMem, mem, fromMem, waits2, toMem2, mem2, fromMem2)
  PROVE  Matched(waits2, toMem2, mem2, fromMem2)
<1>0. PICK asks, takes, replies, x, y, z :
        /\ asks \in BOOLEAN /\ takes \in BOOLEAN /\ replies \in BOOLEAN
        /\ asks => toMem = << >> /\ \A w \in waits : w[1] # x.source
        /\ takes => toMem # << >>
        /\ z.source = toMem[1].source /\ z.addr = toMem[1].addr
        /\ replies => y \in mem /\ fromMem = << >>
        /\ \A w : w \in waits2 <=> \/ asks /\ w = <<x.source, x.addr>>
                                   \/ w \in waits /\ ~InQ(fromMem, w[1])
        /\ toMem2 = IF asks THEN <<x>> ELSE IF takes THEN << >> ELSE toMem
        /\ mem2 = (mem \ OnlyIf(replies, y)) \cup OnlyIf(takes, z)
        /\ fromMem2 = IF replies THEN Word(y) ELSE << >>
  BY DEF TrafficStep
<1>1. /\ toMem # << >> => <<toMem[1].source, toMem[1].addr>> \in waits
      /\ \A v \in mem : <<v.source, v.addr>> \in waits
      /\ \A s : /\ ~(InQ(toMem, s) /\ InMem(mem, s))
                /\ ~(InQ(toMem, s) /\ InQ(fromMem, s))
                /\ ~(InMem(mem, s) /\ InQ(fromMem, s))
      /\ \A u, v \in mem : u.source = v.source => u = v
      /\ \A w \in waits : InQ(toMem, w[1]) \/ InMem(mem, w[1]) \/ InQ(fromMem, w[1])
  BY DEF Matched
<1>2. \A v : v \in mem2 <=> \/ v \in mem /\ ~(replies /\ v = y)
                            \/ takes /\ v = z
  BY <1>0 DEF OnlyIf
<1>3. \A s : InQ(toMem2, s) <=> \/ asks /\ x.source = s
                                \/ InQ(toMem, s) /\ ~takes
  BY <1>0 DEF InQ
<1>4. \A s : InQ(fromMem2, s) <=> replies /\ y.source = s
  BY <1>0 DEF InQ, Word
<1>5. \A s : InMem(mem2, s) <=> \/ InMem(mem, s) /\ ~(replies /\ y.source = s)
                                \/ takes /\ InQ(toMem, s)
  <2> SUFFICES ASSUME NEW s
               PROVE  InMem(mem2, s) <=> \/ InMem(mem, s) /\ ~(replies /\ y.source = s)
                                         \/ takes /\ InQ(toMem, s)
    OBVIOUS
  <2>1. ASSUME InMem(mem2, s)
        PROVE  \/ InMem(mem, s) /\ ~(replies /\ y.source = s)
               \/ takes /\ InQ(toMem, s)
    <3>1. PICK v \in mem2 : v.source = s
      BY <1>0, <2>1 DEF InMem
    <3>2. CASE v \in mem /\ ~(replies /\ v = y)
      BY <1>0, <1>1, <3>1, <3>2 DEF InMem
    <3>3. CASE takes /\ v = z
      BY <1>0, <3>1, <3>3 DEF InQ
    <3> QED
      BY <1>0, <1>2, <3>1, <3>2, <3>3
  <2>2. ASSUME InMem(mem, s), ~(replies /\ y.source = s) PROVE InMem(mem2, s)
    BY <1>0, <1>2, <2>2 DEF InMem
  <2>3. ASSUME takes, InQ(toMem, s) PROVE InMem(mem2, s)
    BY <1>0, <1>2, <2>3 DEF InMem, InQ
  <2> QED
    BY <1>0, <2>1, <2>2, <2>3
<1>6. \A s : InMem(mem, s) <=> \E v \in mem : v.source = s
  BY <1>0 DEF InMem
<1>7. \A s : InQ(toMem, s) => toMem[1].source = s /\ toMem # << >>
  BY <1>0 DEF InQ
<1>8. toMem2 # << >> => <<toMem2[1].source, toMem2[1].addr>> \in waits2
  <2>1. toMem # << >> => ~InQ(fromMem, toMem[1].source)
    BY <1>0, <1>1 DEF InQ
  <2> QED
    BY <1>0, <1>1, <2>1
<1>9. \A v \in mem2 : <<v.source, v.addr>> \in waits2
  <2> SUFFICES ASSUME NEW v \in mem2 PROVE <<v.source, v.addr>> \in waits2
    OBVIOUS
  <2>1. CASE v \in mem
    <3>1. <<v.source, v.addr>> \in waits /\ ~InQ(fromMem, v.source)
      BY <1>0, <1>1, <1>6, <2>1
    <3> QED
      BY <1>0, <3>1
  <2>2. CASE takes /\ v = z
    <3>1. <<v.source, v.addr>> \in waits /\ ~InQ(fromMem, v.source)
      BY <1>0, <1>1, <2>2 DEF InQ
    <3> QED
      BY <1>0, <3>1
  <2> QED
    BY <1>0, <1>2, <2>1, <2>2
<1>10. fromMem2 # << >> => \E a : /\ <<fromMem2[1].source, a>> \in waits2
                                  /\ fromMem2[1].word = Memory[a]
  <2> SUFFICES ASSUME fromMem2 # << >>
               PROVE  \E a : /\ <<fromMem2[1].source, a>> \in waits2
                             /\ fromMem2[1].word = Memory[a]
    OBVIOUS
  <2>1. replies /\ fromMem2[1].source = y.source /\ fromMem2[1].word = Memory[y.addr]
    BY <1>0 DEF Word
  <2>2. <<y.source, y.addr>> \in waits /\ ~InQ(fromMem, y.source)
    BY <1>0, <1>1, <1>6, <2>1
  <2> QED
    BY <1>0, <2>1, <2>2
<1>11. \A s : asks /\ x.source = s => ~InMem(mem, s) /\ ~InQ(toMem, s)
  <2> SUFFICES ASSUME asks PROVE ~InMem(mem, x.source) /\ ~InQ(toMem, x.source)
    OBVIOUS
  <2>1. ASSUME NEW v \in mem, v.source = x.source PROVE FALSE
    <3>1. <<v.source, v.addr>> \in waits /\ <<v.source, v.addr>>[1] = v.source
      BY <1>0, <1>1
    <3> QED
      BY <1>0, <2>1, <3>1
  <2> QED
    BY <1>0, <1>6, <1>7, <2>1
<1>12. replies => InMem(mem, y.source)
  BY <1>0, <1>6
<1>13. \A s : /\ ~(InQ(toMem2, s) /\ InMem(mem2, s))
              /\ ~(InQ(toMem2, s) /\ InQ(fromMem2, s))
              /\ ~(InMem(mem2, s) /\ InQ(fromMem2, s))
  <2> SUFFICES ASSUME NEW s
               PROVE  /\ ~(InQ(toMem2, s) /\ InMem(mem2, s))
                      /\ ~(InQ(toMem2, s) /\ InQ(fromMem2, s))
                      /\ ~(InMem(mem2, s) /\ InQ(fromMem2, s))
    OBVIOUS
  <2>1. asks => ~takes
    BY <1>0
  <2> QED
    BY <1>0, <1>1, <1>3, <1>4, <1>5, <1>11, <1>12, <2>1
<1>14. \A u, v \in mem2 : u.source = v.source => u = v
  <2> SUFFICES ASSUME NEW u \in mem2, NEW v \in mem2, u.source = v.source PROVE u = v
    OBVIOUS
  <2>1. takes => InQ(toMem, z.source)
    BY <1>0 DEF InQ
  <2> QED
    BY <1>0, <1>1, <1>2, <1>6, <2>1
<1>15. \A w \in waits2 : InQ(toMem2, w[1]) \/ InMem(mem2, w[1]) \/ InQ(fromMem2, w[1])
  <2> SUFFICES ASSUME NEW w \in waits2
               PROVE  InQ(toMem2, w[1]) \/ InMem(mem2, w[1]) \/ InQ(fromMem2, w[1])
    OBVIOUS
  <2>1. CASE asks /\ w = <<x.source, x.addr>>
    BY <1>0, <1>3, <2>1
  <2>2. CASE w \in waits /\ ~InQ(fromMem, w[1])
    BY <1>0, <1>1, <1>3, <1>4, <1>5, <2>2
  <2> QED
    BY <1>0, <2>1, <2>2
<1> QED
  BY <1>0, <1>8, <1>9, <1>10, <1>13, <1>14, <1>15 DEF Matched

(* An edge is such a step for the first walker,                            *)
LEMMA FLMatchedKept ==
  ASSUME Inv, NEW offer, NEW taken, NEW reply, NEW ready,
         Stepping(offer, taken, reply, ready)
  PROVE  Matched(FLWaits, q.flReq, OfWalker(waiting, "fl"), q.flRsp)'
<1>0. \A st : In(fl, st) = {i \in 0 .. Slots - 1 : fl[i].state = st}
  BY InIs DEF Inv
<1>1. DOMAIN fl' = 0 .. Slots - 1
  BY DEF Stepping, Edge, Inv, Typing
<1> DEFINE x == [source |-> fl[FLAsk].source, addr |-> FLAddr(fl[FLAsk])]
           y == reply[1]
           z == Sent("fl", q.flReq[1])
           mem == OfWalker(waiting, "fl")
           mem2 == OfWalker(waiting', "fl")
           asks == FLAsks
           takes == FLTaken(taken)
           replies == FLReplied(reply)
<1>2. FLAsks => /\ FLAsk \in 0 .. Slots - 1 /\ fl[FLAsk].state = "memreq" /\ q.flReq = << >>
  BY FLNames
<1>3. \A w : w \in FLWaits <=>
        \E i \in 0 .. Slots - 1 : fl[i].state = "memwait" /\ w = <<fl[i].source, FLAddr(fl[i])>>
  BY <1>0 DEF FLWaits
<1>4. \A w : w \in FLWaits' <=>
        \E i \in 0 .. Slots - 1 : fl'[i].state = "memwait" /\ w = <<fl'[i].source, FLAddr(fl'[i])>>
  BY <1>1 DEF FLWaits, In
<1>5. \A i \in 0 .. Slots - 1 :
        /\ fl'[i].state = "memwait" <=>
             \/ FLAsks /\ i = FLAsk
             \/ fl[i].state = "memwait" /\ ~InQ(q.flRsp, fl[i].source)
        /\ fl'[i].state = "memwait" =>
             fl'[i].source = fl[i].source /\ FLAddr(fl'[i]) = FLAddr(fl[i])
  <2> SUFFICES ASSUME NEW i \in 0 .. Slots - 1
               PROVE  /\ fl'[i].state = "memwait" <=>
                           \/ FLAsks /\ i = FLAsk
                           \/ fl[i].state = "memwait" /\ ~InQ(q.flRsp, fl[i].source)
                      /\ fl'[i].state = "memwait" =>
                           fl'[i].source = fl[i].source /\ FLAddr(fl'[i]) = FLAddr(fl[i])
    OBVIOUS
  <2> DEFINE e == fl[i]
             f == fl'[i]
  <2>1. e \in FLType
    BY DEF Inv, Typing
  <2>2. CASE e.state = "llreq"
    <3>1. f = e \/ f = NoWalk
      BY <2>2, FLMoves
    <3> QED
      BY <1>2, <2>2, <3>1 DEF NoWalk
  <2>3. CASE e.state = "memwait"
    <3>1. f = IF InQ(q.flRsp, e.source) THEN WalkStep(e, q.flRsp) ELSE e
      BY <2>3, FLMoves
    <3>2. WalkStep(e, q.flRsp).state # "memwait"
      BY <2>1 DEF WalkStep, FLType
    <3> QED
      BY <1>2, <2>3, <3>1, <3>2
  <2>4. CASE e.state = "memreq"
    <3>1. f = IF FLAsks /\ i = FLAsk THEN [e EXCEPT !.state = "memwait"] ELSE e
      BY <2>4, FLMoves
    <3> QED
      BY <2>1, <2>4, <3>1 DEF FLType, FLAddr
  <2>5. CASE e.state = "idle"
    <3>1. f = e \/ f = Started(q.l2Req[1])
      BY <2>5, FLMoves
    <3> QED
      BY <1>2, <2>5, <3>1 DEF Started
  <2> QED
    BY <2>1, <2>2, <2>3, <2>4, <2>5 DEF FLType
<1>6. \A w : w \in FLWaits' <=> \/ asks /\ w = <<x.source, x.addr>>
                                \/ w \in FLWaits /\ ~InQ(q.flRsp, w[1])
  <2> SUFFICES ASSUME NEW w
               PROVE  w \in FLWaits' <=> \/ asks /\ w = <<x.source, x.addr>>
                                         \/ w \in FLWaits /\ ~InQ(q.flRsp, w[1])
    OBVIOUS
  <2>1. ASSUME w \in FLWaits'
        PROVE  \/ asks /\ w = <<x.source, x.addr>>
               \/ w \in FLWaits /\ ~InQ(q.flRsp, w[1])
    <3>1. PICK i \in 0 .. Slots - 1 :
            fl'[i].state = "memwait" /\ w = <<fl'[i].source, FLAddr(fl'[i])>>
      BY <1>4, <2>1
    <3>2. w = <<fl[i].source, FLAddr(fl[i])>> /\ w[1] = fl[i].source
      BY <1>5, <3>1
    <3>3. \/ FLAsks /\ i = FLAsk
          \/ fl[i].state = "memwait" /\ ~InQ(q.flRsp, fl[i].source)
      BY <1>5, <3>1
    <3> QED
      BY <1>3, <3>2, <3>3
  <2>2. ASSUME asks, w = <<x.source, x.addr>> PROVE w \in FLWaits'
    <3>1. fl'[FLAsk].state = "memwait" /\ w = <<fl'[FLAsk].source, FLAddr(fl'[FLAsk])>>
      BY <1>2, <1>5, <2>2
    <3> QED
      BY <1>2, <1>4, <2>2, <3>1
  <2>3. ASSUME w \in FLWaits, ~InQ(q.flRsp, w[1]) PROVE w \in FLWaits'
    <3>1. PICK i \in 0 .. Slots - 1 : fl[i].state = "memwait" /\ w = <<fl[i].source, FLAddr(fl[i])>>
      BY <1>3, <2>3
    <3>2. w[1] = fl[i].source
      BY <3>1
    <3>3. fl'[i].state = "memwait" /\ w = <<fl'[i].source, FLAddr(fl'[i])>>
      BY <1>5, <2>3, <3>1, <3>2
    <3> QED
      BY <1>4, <3>3
  <2> QED
    BY <2>1, <2>2, <2>3
<1>7. asks => q.flReq = << >> /\ \A w \in FLWaits : w[1] # x.source
  <2> SUFFICES ASSUME asks, NEW w \in FLWaits, w[1] = x.source PROVE FALSE
    BY <1>2
  <2>1. PICK i \in 0 .. Slots - 1 : fl[i].state = "memwait" /\ w = <<fl[i].source, FLAddr(fl[i])>>
    BY <1>3
  <2>2. fl[i].source = fl[FLAsk].source
    BY <2>1
  <2>3. i = FLAsk
    BY <1>2, <2>1, <2>2, SameSlot
  <2> QED
    BY <1>2, <2>1, <2>3
<1>8. /\ asks \in BOOLEAN /\ takes \in BOOLEAN /\ replies \in BOOLEAN
      /\ takes => q.flReq # << >>
      /\ z.source = q.flReq[1].source /\ z.addr = q.flReq[1].addr
      /\ replies => y \in mem /\ q.flRsp = << >>
  BY DEF FLAsks, FLTaken, FLReplied, Stepping, UpToOne, OfWalker, Sent
<1>9. /\ q'.flReq = IF asks THEN <<x>> ELSE IF takes THEN << >> ELSE q.flReq
      /\ q'.flRsp = IF replies THEN Word(y) ELSE << >>
  BY QueueMoves
<1>10. mem2 = (mem \ OnlyIf(replies, y)) \cup OnlyIf(takes, z)
  <2>1. waiting' = (waiting \ OnlyIf(FLReplied(reply) \/ LLReplied(reply), y))
                     \cup OnlyIf(takes, z) \cup OnlyIf(LLTaken(taken), Sent("ll", q.llReq[1]))
    BY DEF Stepping, Edge
  <2>2. z.walker = "fl" /\ Sent("ll", q.llReq[1]).walker # "fl"
    BY DEF Sent
  <2>3. LLReplied(reply) => y.walker # "fl"
    BY DEF LLReplied
  <2> HIDE DEF y, z, takes
  <2> QED
    BY <2>1, <2>2, <2>3 DEF OfWalker, OnlyIf
<1>11. Matched(FLWaits, q.flReq, mem, q.flRsp)
  BY DEF Inv, AllMatched
<1> HIDE DEF asks, takes, replies, x, y, z, mem, mem2
<1>12. TrafficStep(FLWaits, q.flReq, mem, q.flRsp, FLWaits', q'.flReq, mem2, q'.flRsp)
  <2> USE DEF TrafficStep
  <2> WITNESS asks, takes, replies, x, y, z
  <2> QED
    BY <1>6, <1>7, <1>8, <1>9, <1>10
<1>13. Matched(FLWaits', q'.flReq, mem2, q'.flRsp)
  BY <1>11, <1>12, TrafficMoves
<1> QED
  BY <1>13 DEF mem2

(* and for the last-level walker.                                          *)
LEMMA LLMatchedKept ==
  ASSUME Inv, NEW offer, NEW taken, NEW reply, NEW ready,
         Stepping(offer, taken, reply, ready)
  PROVE  Matched(LLWaits, q.llReq, OfWalker(waiting, "ll"), q.llRsp)'
<1>0. \A st : In(ll, st) = {i \in 0 .. Slots - 1 : ll[i].state = st}
  BY InIs DEF Inv
<1>1. DOMAIN ll' = 0 .. Slots - 1
  BY DEF Stepping, Edge, Inv, Typing
<1> DEFINE x == [source |-> ll[LLAsk].source, addr |-> ll[LLAsk].addr]
           y == reply[1]
           z == Sent("ll", q.llReq[1])
           mem == OfWalker(waiting, "ll")
           mem2 == OfWalker(waiting', "ll")
           asks == LLAsks
           takes == LLTaken(taken)
           replies == LLReplied(reply)
<1>2. LLAsks => /\ LLAsk \in 0 .. Slots - 1 /\ ll[LLAsk].state = "memreq" /\ q.llReq = << >>
  BY LLNames
<1>3. \A w : w \in LLWaits <=>
        \E i \in 0 .. Slots - 1 : ll[i].state = "memwait" /\ w = <<ll[i].source, ll[i].addr>>
  BY <1>0 DEF LLWaits
<1>4. \A w : w \in LLWaits' <=>
        \E i \in 0 .. Slots - 1 : ll'[i].state = "memwait" /\ w = <<ll'[i].source, ll'[i].addr>>
  BY <1>1 DEF LLWaits, In
<1>5. \A i \in 0 .. Slots - 1 :
        /\ ll'[i].state = "memwait" <=>
             \/ LLAsks /\ i = LLAsk
             \/ ll[i].state = "memwait" /\ ~InQ(q.llRsp, ll[i].source)
        /\ ll'[i].state = "memwait" =>
             ll'[i].source = ll[i].source /\ ll'[i].addr = ll[i].addr
  <2> SUFFICES ASSUME NEW i \in 0 .. Slots - 1
               PROVE  /\ ll'[i].state = "memwait" <=>
                           \/ LLAsks /\ i = LLAsk
                           \/ ll[i].state = "memwait" /\ ~InQ(q.llRsp, ll[i].source)
                      /\ ll'[i].state = "memwait" =>
                           ll'[i].source = ll[i].source /\ ll'[i].addr = ll[i].addr
    OBVIOUS
  <2> DEFINE e == ll[i]
             f == ll'[i]
  <2>1. e \in LLType
    BY DEF Inv, Typing
  <2>2. CASE e.state = "ptwrsp"
    <3>1. f = e \/ f = NoLast
      BY <2>2, LLMoves
    <3> QED
      BY <1>2, <2>2, <3>1 DEF NoLast
  <2>3. CASE e.state = "memwait"
    <3> DEFINE g == [e EXCEPT !.state = "ptwrsp", !.addr = q.llRsp[1].word]
    <3>1. f = IF InQ(q.llRsp, e.source) THEN g ELSE e
      BY <2>3, LLMoves
    <3>2. g.state # "memwait"
      BY <2>1 DEF LLType
    <3> HIDE DEF g
    <3> QED
      BY <1>2, <2>3, <3>1, <3>2
  <2>4. CASE e.state = "memreq"
    <3>1. f = IF LLAsks /\ i = LLAsk THEN [e EXCEPT !.state = "memwait"] ELSE e
      BY <2>4, LLMoves
    <3> QED
      BY <2>1, <2>4, <3>1 DEF LLType
  <2>5. CASE e.state = "idle"
    <3> DEFINE r == [state |-> "memreq", addr |-> FLAddr(fl[FLFree]),
                     source |-> fl[FLFree].source]
    <3>1. f = e \/ f = r
      BY <2>5, LLMoves
    <3> QED
      BY <1>2, <2>5, <3>1
  <2> QED
    BY <2>1, <2>2, <2>3, <2>4, <2>5 DEF LLType
<1>6. \A w : w \in LLWaits' <=> \/ asks /\ w = <<x.source, x.addr>>
                                \/ w \in LLWaits /\ ~InQ(q.llRsp, w[1])
  <2> SUFFICES ASSUME NEW w
               PROVE  w \in LLWaits' <=> \/ asks /\ w = <<x.source, x.addr>>
                                         \/ w \in LLWaits /\ ~InQ(q.llRsp, w[1])
    OBVIOUS
  <2>1. ASSUME w \in LLWaits'
        PROVE  \/ asks /\ w = <<x.source, x.addr>>
               \/ w \in LLWaits /\ ~InQ(q.llRsp, w[1])
    <3>1. PICK i \in 0 .. Slots - 1 :
            ll'[i].state = "memwait" /\ w = <<ll'[i].source, ll'[i].addr>>
      BY <1>4, <2>1
    <3>2. w = <<ll[i].source, ll[i].addr>> /\ w[1] = ll[i].source
      BY <1>5, <3>1
    <3>3. \/ LLAsks /\ i = LLAsk
          \/ ll[i].state = "memwait" /\ ~InQ(q.llRsp, ll[i].source)
      BY <1>5, <3>1
    <3> QED
      BY <1>3, <3>2, <3>3
  <2>2. ASSUME asks, w = <<x.source, x.addr>> PROVE w \in LLWaits'
    <3>1. ll'[LLAsk].state = "memwait" /\ w = <<ll'[LLAsk].source, ll'[LLAsk].addr>>
      BY <1>2, <1>5, <2>2
    <3> QED
      BY <1>2, <1>4, <2>2, <3>1
  <2>3. ASSUME w \in LLWaits, ~InQ(q.llRsp, w[1]) PROVE w \in LLWaits'
    <3>1. PICK i \in 0 .. Slots - 1 : ll[i].state = "memwait" /\ w = <<ll[i].source, ll[i].addr>>
      BY <1>3, <2>3
    <3>2. w[1] = ll[i].source
      BY <3>1
    <3>3. ll'[i].state = "memwait" /\ w = <<ll'[i].source, ll'[i].addr>>
      BY <1>5, <2>3, <3>1, <3>2
    <3> QED
      BY <1>4, <3>3
  <2> QED
    BY <2>1, <2>2, <2>3
<1>7. asks => q.llReq = << >> /\ \A w \in LLWaits : w[1] # x.source
  <2> SUFFICES ASSUME asks, NEW w \in LLWaits, w[1] = x.source PROVE FALSE
    BY <1>2
  <2>1. PICK i \in 0 .. Slots - 1 : ll[i].state = "memwait" /\ w = <<ll[i].source, ll[i].addr>>
    BY <1>3
  <2>2. ll[i].source = ll[LLAsk].source
    BY <2>1
  <2>3. i = LLAsk
    BY <1>2, <2>1, <2>2, SameSlot
  <2> QED
    BY <1>2, <2>1, <2>3
<1>8. /\ asks \in BOOLEAN /\ takes \in BOOLEAN /\ replies \in BOOLEAN
      /\ takes => q.llReq # << >>
      /\ z.source = q.llReq[1].source /\ z.addr = q.llReq[1].addr
      /\ replies => y \in mem /\ q.llRsp = << >>
  BY DEF LLAsks, LLTaken, LLReplied, Stepping, UpToOne, OfWalker, Sent
<1>9. /\ q'.llReq = IF asks THEN <<x>> ELSE IF takes THEN << >> ELSE q.llReq
      /\ q'.llRsp = IF replies THEN Word(y) ELSE << >>
  BY QueueMoves
<1>10. mem2 = (mem \ OnlyIf(replies, y)) \cup OnlyIf(takes, z)
  <2>1. waiting' = (waiting \ OnlyIf(FLReplied(reply) \/ LLReplied(reply), y))
                     \cup OnlyIf(FLTaken(taken), Sent("fl", q.flReq[1])) \cup OnlyIf(takes, z)
    BY DEF Stepping, Edge
  <2>2. z.walker = "ll" /\ Sent("fl", q.flReq[1]).walker # "ll"
    BY DEF Sent
  <2>3. FLReplied(reply) => y.walker # "ll"
    BY DEF FLReplied
  <2> HIDE DEF y, z, takes
  <2> QED
    BY <2>1, <2>2, <2>3 DEF OfWalker, OnlyIf
<1>11. Matched(LLWaits, q.llReq, mem, q.llRsp)
  BY DEF Inv, AllMatched
<1> HIDE DEF asks, takes, replies, x, y, z, mem, mem2
<1>12. TrafficStep(LLWaits, q.llReq, mem, q.llRsp, LLWaits', q'.llReq, mem2, q'.llRsp)
  <2> USE DEF TrafficStep
  <2> WITNESS asks, takes, replies, x, y, z
  <2> QED
    BY <1>6, <1>7, <1>8, <1>9, <1>10
<1>13. Matched(LLWaits', q'.llReq, mem2, q'.llRsp)
  BY <1>11, <1>12, TrafficMoves
<1> QED
  BY <1>13 DEF mem2

-----------------------------------------------------------------------------
(* The invariant holds at the start, and every edge keeps it.              *)
LEMMA InvInit == MMUInit => Inv
<1> SUFFICES ASSUME MMUInit PROVE Inv
  OBVIOUS
<1>1. /\ fl = [i \in 0 .. Slots - 1 |-> NoWalk]
      /\ ll = [i \in 0 .. Slots - 1 |-> NoLast]
      /\ q = [tlbReq |-> << >>, l2Req |-> << >>, l2Rsp |-> << >>, tlbRsp |-> << >>,
              flReq |-> << >>, flRsp |-> << >>, llReq |-> << >>, llRsp |-> << >>]
      /\ waiting = {} /\ open = [s \in {} |-> 0] /\ DOMAIN open = {}
  BY DEF MMUInit
<1>2. /\ \A i \in 0 .. Slots - 1 : fl[i] = NoWalk /\ ll[i] = NoLast
      /\ NoWalk \in FLType /\ NoLast \in LLType
      /\ NoWalk.state = "idle" /\ NoLast.state = "idle"
  BY <1>1 DEF NoWalk, NoLast, FLType, LLType
<1>3. Typing
  <2>1. q \in QueueType
    BY <1>1 DEF QueueType, UpToOne
  <2>2. fl \in [0 .. Slots - 1 -> FLType] /\ ll \in [0 .. Slots - 1 -> LLType]
    BY <1>1, <1>2
  <2>3. open \in [DOMAIN open -> Pages]
    BY <1>1
  <2> QED
    BY <1>1, <2>1, <2>2, <2>3 DEF Typing
<1>4. OnePlace
  <2>1. \A p, s : ~At(p, s)
    BY <1>1, <1>2 DEF At, InQ, InFL, InLL
  <2> QED
    BY <1>1, <2>1 DEF OnePlace
<1>5. /\ In(fl, "llreq") = {} /\ In(ll, "ptwrsp") = {}
      /\ In(fl, "memwait") = {} /\ In(ll, "memwait") = {}
  BY <1>1, <1>2 DEF In
<1>6. OneFinished
  BY <1>1, <1>5 DEF OneFinished
<1>7. Right
  BY <1>1, <1>2 DEF Right, ReqRight, RspRight, FLRight, LLRight
<1>8. AllMatched
  <2>1. FLWaits = {} /\ LLWaits = {}
    BY <1>5 DEF FLWaits, LLWaits
  <2> QED
    BY <1>1, <2>1 DEF AllMatched, Matched, OfWalker, InQ, InMem
<1> QED
  BY <1>3, <1>4, <1>6, <1>7, <1>8 DEF Inv

(* An edge keeps the invariant, part by part.                              *)
LEMMA InvEdge ==
  ASSUME FewOpen, Inv, NEW offer, NEW taken, NEW reply, NEW ready,
         Stepping(offer, taken, reply, ready)
  PROVE  Inv'
<1>1. Typing'
  <2>1. /\ fl' = [i \in 0 .. Slots - 1 |-> fl'[i]]
        /\ ll' = [i \in 0 .. Slots - 1 |-> ll'[i]]
    BY DEF Stepping, Edge, Inv, Typing
  <2>2. fl' \in [0 .. Slots - 1 -> FLType] /\ ll' \in [0 .. Slots - 1 -> LLType]
    BY <2>1, FLRightKept, LLRightKept
  <2>3. q' = [tlbReq |-> q'.tlbReq, l2Req |-> q'.l2Req, l2Rsp |-> q'.l2Rsp,
              tlbRsp |-> q'.tlbRsp, flReq |-> q'.flReq, flRsp |-> q'.flRsp,
              llReq |-> q'.llReq, llRsp |-> q'.llRsp]
    BY DEF Stepping, Edge
  <2>4. /\ q'.tlbReq \in UpToOne(HostRequest) /\ q'.l2Req \in UpToOne(HostRequest)
        /\ q'.l2Rsp \in UpToOne(Fetched) /\ q'.tlbRsp \in UpToOne(Fetched)
        /\ q'.flReq \in UpToOne(Fetch) /\ q'.llReq \in UpToOne(Fetch)
        /\ q'.flRsp \in UpToOne(Fetched) /\ q'.llRsp \in UpToOne(Fetched)
    BY ReqRightKept, RspRightKept, TrafficTyped
  <2>5. q' \in QueueType
    BY <2>3, <2>4 DEF QueueType
  <2>6. waiting' \subseteq MemRequest
    BY TrafficTyped
  <2>7. DOMAIN open' \subseteq Sources /\ \A s \in DOMAIN open' : open'[s] \in Pages
    <3>1. DOMAIN open \subseteq Sources /\ \A s \in DOMAIN open : open[s] \in Pages
      BY DEF Inv, Typing
    <3>2. HostAsks(offer) => /\ offer[1].source \in Sources
                             /\ [vpn |-> offer[1].vpn, root |-> offer[1].root] \in Pages
      BY OpenMoves DEF HostRequest, Pages
    <3>3. \A s \in DOMAIN open' : s \in DOMAIN open \/ (HostAsks(offer) /\ s = offer[1].source)
      BY OpenMoves
    <3>4. \A s \in DOMAIN open' : open'[s] = IF s \in DOMAIN open THEN open[s]
                                             ELSE [vpn |-> offer[1].vpn, root |-> offer[1].root]
      BY OpenMoves
    <3> QED
      BY <3>1, <3>2, <3>3, <3>4
  <2>8. open' = [s \in DOMAIN open' |-> open'[s]]
    BY DEF Stepping, Edge
  <2> QED
    BY <2>2, <2>5, <2>6, <2>7, <2>8 DEF Typing
<1>2. OnePlace'
  BY OnePlaceKept
<1>3. OneFinished'
  BY OneFinishedKept
<1>4. Right'
  BY ReqRightKept, RspRightKept, FLRightKept, LLRightKept DEF Right
<1>5. AllMatched'
  BY FLMatchedKept, LLMatchedKept DEF AllMatched
<1> QED
  BY <1>1, <1>2, <1>3, <1>4, <1>5 DEF Inv

(* A step of the MMU is an edge with such inputs.                          *)
LEMMA StepIsEdge ==
  ASSUME MMUNext
  PROVE  \E offer, taken, reply, ready : Stepping(offer, taken, reply, ready)
<1>1. PICK offer \in {<< >>} \cup {<<r>> : r \in Requests}, taken \in BOOLEAN,
           reply \in Replies, ready \in Readies : Edge(offer, taken, reply, ready)
  BY DEF MMUNext, EdgeWith
<1>2. ready \in BOOLEAN /\ reply \in UpToOne(waiting) /\ offer \in UpToOne(Requests)
  BY DEF Readies, Replies, UpToOne
<1>3. Stepping(offer, taken, reply, ready)
  BY <1>1, <1>2 DEF Stepping
<1> QED
  BY <1>3

(* Every step, and every stutter, keeps the invariant.                     *)
LEMMA InvStep == FewOpen /\ Inv /\ [MMUNext]_mmuVars => Inv'
<1> SUFFICES ASSUME FewOpen, Inv, [MMUNext]_mmuVars PROVE Inv'
  OBVIOUS
<1>1. CASE MMUNext
  BY <1>1, StepIsEdge, InvEdge
<1>2. CASE UNCHANGED mmuVars
  <2> USE <1>2 DEF mmuVars
  <2>1. Typing'
    BY DEF Inv, Typing
  <2>2. OnePlace'
    <3>1. \A p, s : At(p, s)' <=> At(p, s)
      BY DEF At, InFL, InLL
    <3> QED
      BY <3>1 DEF Inv, OnePlace
  <2>3. OneFinished'
    BY DEF Inv, OneFinished
  <2>4. Right'
    BY DEF Inv, Right, FLRight, LLRight, ReqRight, RspRight
  <2>5. AllMatched'
    BY DEF Inv, AllMatched, FLWaits, LLWaits
  <2> QED
    BY <2>1, <2>2, <2>3, <2>4, <2>5 DEF Inv
<1> QED
  BY <1>1, <1>2

(* So it holds in every state that is reached.                             *)
LEMMA Always ==
  ASSUME FewOpen
  PROVE  MMUSpec => []Inv
<1>1. MMUInit => Inv
  BY InvInit
<1>2. Inv /\ [MMUNext]_mmuVars => Inv'
  BY InvStep
<1> QED
  BY <1>1, <1>2, PTL DEF MMUSpec

-----------------------------------------------------------------------------
(* Entries and queues of the walkers, TLB and L2TLB keep their types, and  *)
(* no walk goes below its last level (FistLevelPTW, LastLevelPTW).         *)
THEOREM MMUTypeCorrect ==
  ASSUME FewOpen
  PROVE  MMUSpec => []MMUTypeOK
<1>1. Inv => MMUTypeOK
  <2> SUFFICES ASSUME Inv PROVE MMUTypeOK
    OBVIOUS
  <2>1. Typing
    BY DEF Inv
  <2>2. \A n \in DOMAIN q : Len(q[n]) <= 1
    <3>1. \A S, x : x \in UpToOne(S) => Len(x) <= 1
      BY DEF UpToOne
    <3>2. /\ DOMAIN q = {"tlbReq", "l2Req", "l2Rsp", "tlbRsp", "flReq", "flRsp", "llReq", "llRsp"}
          /\ \A n \in DOMAIN q : \E S : q[n] \in UpToOne(S)
      BY <2>1 DEF Typing, QueueType
    <3> QED
      BY <3>1, <3>2
  <2> QED
    BY <2>1, <2>2 DEF Typing, FLType, LLType, Pages, MMUTypeOK
<1> QED
  BY <1>1, Always, PTL

(* Places is the set of what At tells.                                     *)
LEMMA PlacesAre ==
  ASSUME Inv, NEW s, NEW p
  PROVE  p \in Places(s) <=> At(p, s)
<1>1. DOMAIN fl = 0 .. Slots - 1 /\ DOMAIN ll = 0 .. Slots - 1
  BY DEF Inv, Typing
<1> DEFINE Qs == {<<n, 0>> : n \in {m \in {"tlbReq", "l2Req", "l2Rsp", "tlbRsp"} :
                                       q[m] # << >> /\ q[m][1].source = s}}
           Fs == {<<"fl", i>> : i \in {j \in DOMAIN fl : fl[j].state # "idle" /\ fl[j].source = s}}
           Ls == {<<"ll", i>> : i \in {j \in DOMAIN ll : ll[j].state # "idle" /\ ll[j].source = s}}
<1>2. Places(s) = Qs \cup Fs \cup Ls
  BY DEF Places
<1>3. p \in Qs <=> \/ p = <<"tlbReq", 0>> /\ InQ(q.tlbReq, s)
                   \/ p = <<"l2Req", 0>> /\ InQ(q.l2Req, s)
                   \/ p = <<"l2Rsp", 0>> /\ InQ(q.l2Rsp, s)
                   \/ p = <<"tlbRsp", 0>> /\ InQ(q.tlbRsp, s)
  BY DEF InQ
<1>4. p \in Fs <=> \E i : p = <<"fl", i>> /\ InFL(i, s)
  BY <1>1 DEF InFL
<1>5. p \in Ls <=> \E i : p = <<"ll", i>> /\ InLL(i, s)
  BY <1>1 DEF InLL
<1> HIDE DEF Qs, Fs, Ls
<1> QED
  BY <1>2, <1>3, <1>4, <1>5 DEF At

(* A set with at most one member, and whether it has one.                  *)
LEMMA OneOrNone ==
  ASSUME NEW S, \A x, y \in S : x = y
  PROVE  Cardinality(S) = IF S = {} THEN 0 ELSE 1
<1>1. CASE S = {}
  BY <1>1, FS_EmptySet
<1>2. CASE S # {}
  <2>1. PICK x : x \in S
    BY <1>2
  <2>2. S = {x}
    BY <2>1
  <2> QED
    BY <1>2, <2>2, FS_Singleton
<1> QED
  BY <1>1, <1>2

(* Every open request is in exactly one queue or entry of the MMU, and     *)
(* every entry is of an open request: the walkers lose, double and leave   *)
(* over no walk while at most three are open.                              *)
THEOREM EveryWalkOnce ==
  ASSUME FewOpen
  PROVE  MMUSpec => []OneWalkEach
<1>1. Inv => OneWalkEach
  <2> SUFFICES ASSUME Inv, NEW s \in Sources
               PROVE  Cardinality(Places(s)) = IF s \in DOMAIN open THEN 1 ELSE 0
    BY DEF OneWalkEach
  <2>1. \A x, y \in Places(s) : x = y
    BY PlacesAre DEF Inv, OnePlace
  <2>2. s \in DOMAIN open <=> Places(s) # {}
    <3>1. s \in DOMAIN open <=> \E p : At(p, s)
      BY DEF Inv, OnePlace
    <3>2. Places(s) # {} <=> \E p : p \in Places(s)
      OBVIOUS
    <3> QED
      BY <3>1, <3>2, PlacesAre
  <2>3. Cardinality(Places(s)) = IF Places(s) = {} THEN 0 ELSE 1
    BY <2>1, OneOrNone
  <2> QED
    BY <2>2, <2>3
<1> QED
  BY <1>1, Always, PTL

(* One walker's part of MemoryMatched.                                     *)
LEMMA TrafficCounted ==
  ASSUME NEW waits, NEW toMem, NEW fromMem, NEW w, NEW s, NEW ids, NEW A, NEW B,
         toMem \in UpToOne(A), fromMem \in UpToOne(B),
         Matched(waits, toMem, OfWalker(waiting, w), fromMem),
         \A i, j \in ids : i = j,
         ids # {} <=> \E v \in waits : v[1] = s
  PROVE  Cardinality(Mine(Traffic(w, toMem, fromMem), s)) = Cardinality(ids)
<1> DEFINE mem == OfWalker(waiting, w)
           T == Mine(Traffic(w, toMem, fromMem), s)
<1>1. /\ toMem # << >> => <<toMem[1].source, toMem[1].addr>> \in waits
      /\ \A v \in mem : <<v.source, v.addr>> \in waits
      /\ fromMem # << >> => \E a : <<fromMem[1].source, a>> \in waits
      /\ ~(InQ(toMem, s) /\ InMem(mem, s))
      /\ ~(InQ(toMem, s) /\ InQ(fromMem, s))
      /\ ~(InMem(mem, s) /\ InQ(fromMem, s))
      /\ \A u, v \in mem : u.source = v.source => u = v
      /\ \A v \in waits : InQ(toMem, v[1]) \/ InMem(mem, v[1]) \/ InQ(fromMem, v[1])
  BY DEF Matched
<1>2. \A x : x \in UpToOne(A) \/ x \in UpToOne(B) =>
        {x[k] : k \in DOMAIN x} = IF x = << >> THEN {} ELSE {x[1]}
  BY DEF UpToOne
<1>3. {y \in waiting : y.walker = w} = mem
  BY DEF OfWalker
<1>4. \A t : t \in T <=> \/ t = <<"req", toMem[1]>> /\ InQ(toMem, s)
                         \/ \E y \in mem : t = <<"mem", y>> /\ y.source = s
                         \/ t = <<"rsp", fromMem[1]>> /\ InQ(fromMem, s)
  BY <1>2, <1>3 DEF Mine, Traffic, InQ
<1>5. \A t, u \in T : t = u
  BY <1>1, <1>4 DEF InMem
<1>6. T # {} <=> ids # {}
  <2>1. T # {} <=> InQ(toMem, s) \/ InMem(mem, s) \/ InQ(fromMem, s)
    BY <1>4 DEF InMem
  <2>2. InQ(toMem, s) \/ InMem(mem, s) \/ InQ(fromMem, s) => \E v \in waits : v[1] = s
    <3>1. \A a, b : <<a, b>>[1] = a
      OBVIOUS
    <3> QED
      BY <1>1, <3>1 DEF InQ, InMem
  <2> QED
    BY <1>1, <2>1, <2>2
<1> HIDE DEF T
<1>7. Cardinality(T) = IF T = {} THEN 0 ELSE 1
  BY <1>5, OneOrNone
<1>8. Cardinality(ids) = IF ids = {} THEN 0 ELSE 1
  BY OneOrNone
<1> QED
  BY <1>6, <1>7, <1>8 DEF T

(* A walk that waits for memory has exactly one request or answer under    *)
(* way, and no other walk has one, so an answer of memory reaches the walk *)
(* it is for (the source ids the walkers compare, MMUTests.v:769).         *)
THEOREM AnswersFindWalks ==
  ASSUME FewOpen
  PROVE  MMUSpec => []MemoryMatched
<1>1. Inv => MemoryMatched
  <2> SUFFICES ASSUME Inv, NEW s \in Sources
               PROVE  /\ Cardinality(Mine(Traffic("fl", q.flReq, q.flRsp), s))
                           = Cardinality(Waits(fl, s))
                      /\ Cardinality(Mine(Traffic("ll", q.llReq, q.llRsp), s))
                           = Cardinality(Waits(ll, s))
    BY DEF MemoryMatched
  <2>0. \A st : /\ In(fl, st) = {i \in 0 .. Slots - 1 : fl[i].state = st}
                /\ In(ll, st) = {i \in 0 .. Slots - 1 : ll[i].state = st}
    BY InIs DEF Inv
  <2>1. /\ q.flReq \in UpToOne(Fetch) /\ q.flRsp \in UpToOne(Fetched)
        /\ q.llReq \in UpToOne(Fetch) /\ q.llRsp \in UpToOne(Fetched)
    BY DEF Inv, Typing, QueueType
  <2>2. \A i, j \in Waits(fl, s) : i = j
    BY <2>0, SameSlot DEF Waits
  <2>3. \A i, j \in Waits(ll, s) : i = j
    BY <2>0, SameSlot DEF Waits
  <2>4. Waits(fl, s) # {} <=> \E v \in FLWaits : v[1] = s
    <3>1. Waits(fl, s) # {} <=> \E i \in In(fl, "memwait") : fl[i].source = s
      BY DEF Waits
    <3>2. ASSUME NEW v \in FLWaits, v[1] = s
          PROVE  \E i \in In(fl, "memwait") : fl[i].source = s
      <4>1. PICK i \in In(fl, "memwait") : v = <<fl[i].source, FLAddr(fl[i])>>
        BY DEF FLWaits
      <4>2. fl[i].source = s
        BY <3>2, <4>1
      <4> QED
        BY <4>2
    <3>3. ASSUME NEW i \in In(fl, "memwait"), fl[i].source = s
          PROVE  \E v \in FLWaits : v[1] = s
      <4>1. <<fl[i].source, FLAddr(fl[i])>> \in FLWaits
        BY DEF FLWaits
      <4> QED
        BY <3>3, <4>1
    <3> QED
      BY <3>1, <3>2, <3>3
  <2>5. Waits(ll, s) # {} <=> \E v \in LLWaits : v[1] = s
    <3>1. Waits(ll, s) # {} <=> \E i \in In(ll, "memwait") : ll[i].source = s
      BY DEF Waits
    <3>2. ASSUME NEW v \in LLWaits, v[1] = s
          PROVE  \E i \in In(ll, "memwait") : ll[i].source = s
      <4>1. PICK i \in In(ll, "memwait") : v = <<ll[i].source, ll[i].addr>>
        BY DEF LLWaits
      <4>2. ll[i].source = s
        BY <3>2, <4>1
      <4> QED
        BY <4>2
    <3>3. ASSUME NEW i \in In(ll, "memwait"), ll[i].source = s
          PROVE  \E v \in LLWaits : v[1] = s
      <4>1. <<ll[i].source, ll[i].addr>> \in LLWaits
        BY DEF LLWaits
      <4> QED
        BY <3>3, <4>1
    <3> QED
      BY <3>1, <3>2, <3>3
  <2>6. /\ Matched(FLWaits, q.flReq, OfWalker(waiting, "fl"), q.flRsp)
        /\ Matched(LLWaits, q.llReq, OfWalker(waiting, "ll"), q.llRsp)
    BY DEF Inv, AllMatched
  <2>7. Cardinality(Mine(Traffic("fl", q.flReq, q.flRsp), s)) = Cardinality(Waits(fl, s))
    BY <2>1, <2>2, <2>4, <2>6, TrafficCounted
  <2>8. Cardinality(Mine(Traffic("ll", q.llReq, q.llRsp), s)) = Cardinality(Waits(ll, s))
    BY <2>1, <2>3, <2>5, <2>6, TrafficCounted
  <2> QED
    BY <2>7, <2>8
<1> QED
  BY <1>1, Always, PTL

(* An answer at the MMU's port is for an open request and is the word      *)
(* three table look-ups from its root lead to.  With four requests open    *)
(* the run mmu_full refutes this, so the bound in FewOpen is the best.     *)
THEOREM AnswersAreRight ==
  ASSUME FewOpen
  PROVE  MMUSpec => []AnswersRight
<1>1. Inv => AnswersRight
  <2> SUFFICES ASSUME Inv PROVE AnswersRight
    OBVIOUS
  <2>1. RspRight(q.tlbRsp) /\ q.tlbRsp \in UpToOne(Fetched)
    BY DEF Inv, Right, Typing, QueueType
  <2>2. \A k \in DOMAIN q.tlbRsp : k = 1 /\ q.tlbRsp # << >>
    BY <2>1 DEF UpToOne
  <2>3. \A s \in DOMAIN open : Memory[Entry(open[s])] = Walk(open[s].vpn, open[s].root)
    BY AddressesHold DEF Inv, Typing
  <2> QED
    BY <2>1, <2>2, <2>3 DEF AnswersRight, RspRight
<1> QED
  BY <1>1, Always, PTL

-----------------------------------------------------------------------------
(* What the MMU promises its host: requests, each answered once with the   *)
(* word a walk of the tables finds, in any order.                          *)
Promise == INSTANCE Translation WITH
             Pages <- Pages, Target <- [p \in Pages |-> Walk(p.vpn, p.root)],
             answer <- q.tlbRsp

(* The open requests change as the promise allows beside what happens to   *)
(* the answer.                                                             *)
LEMMA OpenFollows ==
  ASSUME Inv, NEW offer, NEW taken, NEW reply, NEW ready,
         Stepping(offer, taken, reply, ready)
  PROVE  Promise!AskOrNot(IF Delivered(ready) THEN DOMAIN open \ {q.tlbRsp[1].source}
                                              ELSE DOMAIN open)
<1> DEFINE S == IF Delivered(ready) THEN DOMAIN open \ {q.tlbRsp[1].source} ELSE DOMAIN open
           n == offer[1].source
           p == [vpn |-> offer[1].vpn, root |-> offer[1].root]
<1>1. /\ HostAsks(offer) => n \in Sources \ DOMAIN open /\ p \in Pages
      /\ \A s : s \in DOMAIN open' <=> s \in S \/ (HostAsks(offer) /\ s = n)
      /\ \A s \in DOMAIN open' : open'[s] = IF s \in DOMAIN open THEN open[s] ELSE p
      /\ open' = [s \in DOMAIN open' |-> open'[s]]
  <2>1. HostAsks(offer) => n \in Sources \ DOMAIN open /\ p \in Pages
    BY OpenMoves DEF HostRequest, Pages
  <2>2. open' = [s \in DOMAIN open' |-> open'[s]]
    BY DEF Stepping, Edge
  <2> QED
    BY <2>1, <2>2, OpenMoves
<1>2. S \subseteq DOMAIN open
  OBVIOUS
<1> HIDE DEF S, n, p
<1>3. CASE HostAsks(offer)
  <2>1. DOMAIN open' = S \cup {n}
    BY <1>1, <1>3
  <2>2. open' = [t \in S \cup {n} |-> IF t = n THEN p ELSE open[t]]
    BY <1>1, <1>2, <1>3, <2>1
  <2>3. Promise!AskOrNot(S)
    BY <1>1, <1>3, <2>2 DEF Promise!AskOrNot
  <2> QED
    BY <2>3 DEF S
<1>4. CASE ~HostAsks(offer)
  <2>1. DOMAIN open' = S
    BY <1>1, <1>4
  <2>2. open' = [t \in S |-> open[t]]
    BY <1>1, <1>2, <2>1
  <2>3. Promise!AskOrNot(S)
    BY <2>2 DEF Promise!AskOrNot, Promise!Keeping
  <2> QED
    BY <2>3 DEF S
<1> QED
  BY <1>3, <1>4

(* The MMU, with its queues, walkers, arbiters and memory port, implements *)
(* the translation it promises, over any memory: only an answer that is    *)
(* shown, taken or withheld and a new request can be seen of an edge.      *)
THEOREM TranslatesRight ==
  ASSUME FewOpen
  PROVE  MMUSpec => Promise!TSpec
<1>1. MMUInit => Promise!TInit
  BY DEF MMUInit, Promise!TInit
<1>2. Inv /\ [MMUNext]_mmuVars => [Promise!TNext]_<<open, q.tlbRsp>>
  <2> SUFFICES ASSUME Inv, [MMUNext]_mmuVars PROVE [Promise!TNext]_<<open, q.tlbRsp>>
    OBVIOUS
  <2>1. CASE UNCHANGED mmuVars
    BY <2>1 DEF mmuVars
  <2>2. CASE MMUNext
    <3>1. PICK offer, taken, reply, ready : Stepping(offer, taken, reply, ready)
      BY <2>2, StepIsEdge
    <3>2. q'.tlbRsp = IF ToTLB THEN q.l2Rsp ELSE IF Delivered(ready) THEN << >> ELSE q.tlbRsp
      BY <3>1, QueueMoves
    <3>3. CASE Delivered(ready)
      <4>1. q.tlbRsp # << >> /\ q'.tlbRsp = << >>
        BY <3>2, <3>3 DEF Delivered, ToTLB
      <4>2. Promise!AskOrNot(DOMAIN open \ {q.tlbRsp[1].source})
        BY <3>1, <3>3, OpenFollows
      <4> QED
        BY <4>1, <4>2 DEF Promise!TNext, Promise!Take
    <3>4. CASE ToTLB
      <4>1. q.tlbRsp = << >> /\ q.l2Rsp # << >> /\ q'.tlbRsp = q.l2Rsp /\ ~Delivered(ready)
        BY <3>2, <3>4 DEF ToTLB, Delivered
      <4>2. Promise!AskOrNot(DOMAIN open)
        BY <3>1, <4>1, OpenFollows
      <4> DEFINE s == q.l2Rsp[1].source
      <4>3. /\ s \in DOMAIN open /\ q.l2Rsp[1].word = Memory[Entry(open[s])]
            /\ q.l2Rsp \in UpToOne(Fetched) /\ open[s] \in Pages
        BY <4>1 DEF Inv, Right, RspRight, Typing, QueueType
      <4>4. q.l2Rsp[1].word = Walk(open[s].vpn, open[s].root)
        BY <4>3, AddressesHold
      <4>5. q.l2Rsp = <<[source |-> s, word |-> Walk(open[s].vpn, open[s].root)]>>
        BY <4>1, <4>3, <4>4 DEF UpToOne, Fetched
      <4> HIDE DEF s
      <4>6. q'.tlbRsp = <<[source |-> s,
                           word |-> [p \in Pages |-> Walk(p.vpn, p.root)][open[s]]]>>
        BY <4>1, <4>3, <4>5
      <4> QED
        BY <4>1, <4>2, <4>3, <4>6 DEF Promise!TNext, Promise!Show
    <3>5. CASE ~ToTLB /\ ~Delivered(ready)
      <4>1. q'.tlbRsp = q.tlbRsp
        BY <3>2, <3>5
      <4>2. Promise!AskOrNot(DOMAIN open)
        BY <3>1, <3>5, OpenFollows
      <4> QED
        BY <4>1, <4>2 DEF Promise!TNext, Promise!Wait
    <3> QED
      BY <3>3, <3>4, <3>5
  <2> QED
    BY <2>1, <2>2
<1> QED
  BY <1>1, <1>2, Always, PTL DEF MMUSpec, Promise!TSpec
=============================================================================
