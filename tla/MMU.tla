--------------------------------- MODULE MMU ---------------------------------
(***************************************************************************)
(* module MMU of src/rtl/MMUTests.v under its test top MMUtest, one clock  *)
(* edge per step.  A translation request passes the TLB and the L2TLB      *)
(* (queues of one element, they cache nothing), walks two levels in        *)
(* FistLevelPTW, the last in LastLevelPTW, and its answer passes the two   *)
(* queues back.  Each walker holds several walks and reaches memory        *)
(* through a PageCache, again two queues; the last-level one goes first.   *)
(* Answers of memory are matched to walks by the source id of the request. *)
(*                                                                         *)
(* A page has PageElem words, an address is a number of a word, a memory   *)
(* word is 2 * page + V.  Host and memory are external: the host has one   *)
(* request open per source id, memory answers in any order.                *)
(***************************************************************************)
EXTENDS Naturals, Sequences, FiniteSets, FiniteSetsExt

CONSTANTS
  Slots,     \* walks a walker holds, 4 in the RTL: 0 .. Slots - 1
  Sources,   \* ids of requests, 2 bits wide
  PageElem,  \* words of a page
  Memory,    \* the words of memory, a function from addresses
  Vpns,      \* virtual pages asked for
  Roots,     \* PTBR: page numbers of root tables
  PowerUp,   \* values the grant registers, which are not reset, may start with
  Refusing   \* the host may refuse answers

Index == 0 .. PageElem - 1

(* Seeded bug: levels count from the root, as in VAextract of sv39.h.      *)
VpnIdxFromRoot(vpn, level) == (vpn \div PageElem^(2 - level)) % PageElem

VpnIdx(vpn, level) == (vpn \div PageElem^level) % PageElem
Address(ppn, vpn, level) == ppn * PageElem + VpnIdx(vpn, level)
Ppn(word) == word \div 2

(* Reference: the word three table look-ups lead to.                       *)
Walk(vpn, root) ==
  LET table1 == Ppn(Memory[Address(root, vpn, 2)])
      table0 == Ppn(Memory[Address(table1, vpn, 1)])
  IN  Memory[Address(table0, vpn, 0)]

ASSUME MMUAssumption ==
  /\ Slots \in Nat \ {0} /\ PowerUp \subseteq 0 .. Slots - 1 /\ PageElem \in Nat \ {0}
  /\ Cardinality(Sources) <= Slots
  /\ Vpns \subseteq Nat /\ Roots \subseteq Nat
  /\ \A a \in DOMAIN Memory : a \in Nat /\ Memory[a] \in Nat
  /\ \A v \in Vpns, r \in Roots :
       LET table1 == Ppn(Memory[Address(r, v, 2)])
       IN  /\ Address(r, v, 2) \in DOMAIN Memory
           /\ Address(table1, v, 1) \in DOMAIN Memory
           /\ Address(Ppn(Memory[Address(table1, v, 1)]), v, 0) \in DOMAIN Memory
  /\ Refusing \in BOOLEAN

VARIABLES
  fl,         \* entries of FistLevelPTW
  ll,         \* entries of LastLevelPTW
  lastGrant,  \* of the four round-robin arbiters
  q,          \* the queues of TLB, L2TLB and the two PageCaches
  waiting,    \* memory: requests taken and not answered
  open        \* host: the request open for each source that has one

mmuVars == <<fl, ll, lastGrant, q, waiting, open>>

-----------------------------------------------------------------------------
(* Queue and Queue_1: one element, offered from the edge after it came in; *)
(* an edge that takes it out cannot put another one in.                    *)
Queue(old, in, out) == IF in # << >> THEN in ELSE IF out THEN << >> ELSE old

In(entries, state) == {i \in DOMAIN entries : entries[i].state = state}

(* RRArbiter: the first valid input behind the last one granted, else the  *)
(* first valid one.                                                        *)
Chosen(valid, last) ==
  LET behind == {i \in valid : i > last}
  IN  IF behind # {} THEN Min(behind) ELSE Min(valid)

NoWalk == [state |-> "idle", ppn |-> 0, vpn |-> 0, level |-> 0, source |-> 0]
NoLast == [state |-> "idle", addr |-> 0, source |-> 0]

(* Seeded bugs of the walkers: the walk starts a level too high; the source *)
(* of an answer is not looked at; a new walk always takes entry 0; answers  *)
(* wait until every entry awaits one; a walk does not ask for its second    *)
(* table.                                                                   *)
StartedTooHigh(r) ==
  [state |-> "memreq", ppn |-> r.root, vpn |-> r.vpn, level |-> 3, source |-> r.source]
AnyAnswer(e, rsp) == e.state = "memwait" /\ rsp # << >>
FirstSlot(entries) == 0
AllAwait(entries) == In(entries, "memwait") = DOMAIN entries
NeverAsksAgain(e, rsp) ==
  [e EXCEPT !.state = IF e.level > 1 THEN "memwait" ELSE "llreq",
            !.level = (@ + 3) % 4, !.ppn = Ppn(rsp[1].word)]

Started(r) ==
  [state |-> "memreq", ppn |-> r.root, vpn |-> r.vpn, level |-> 2, source |-> r.source]
Answered(e, rsp) == e.state = "memwait" /\ rsp # << >> /\ e.source = rsp[1].source
EnqPtr(entries) == Min(In(entries, "idle"))
Awaiting(entries) == In(entries, "memwait") # {}

WalkStep(e, rsp) ==
  [e EXCEPT !.state = IF e.level > 1 THEN "memreq" ELSE "llreq",
            !.level = (@ + 3) % 4, !.ppn = Ppn(rsp[1].word)]

(* A walker's entries after an edge.  enq is the request that comes in,    *)
(* asked whether the chosen memory request is taken, rsp the answer that   *)
(* comes in, freed whether an entry leaves.  deq_ptr, the entry that is    *)
(* freed, is the first that is finished, not the one its arbiter chose.    *)
FLNext(i, enq, asked, rsp, freed) ==
  CASE freed /\ i = Min(In(fl, "llreq")) -> NoWalk
    [] Answered(fl[i], rsp) -> WalkStep(fl[i], rsp)
    [] asked /\ i = Chosen(In(fl, "memreq"), lastGrant.flMem) ->
         [fl[i] EXCEPT !.state = "memwait"]
    [] enq # << >> /\ fl[i].state = "idle" /\ i = EnqPtr(fl) -> Started(enq[1])
    [] OTHER -> fl[i]

LLNext(i, enq, asked, rsp, freed) ==
  CASE freed /\ i = Min(In(ll, "ptwrsp")) -> NoLast
    [] Answered(ll[i], rsp) -> [ll[i] EXCEPT !.state = "ptwrsp", !.addr = rsp[1].word]
    [] asked /\ i = Chosen(In(ll, "memreq"), lastGrant.llMem) ->
         [ll[i] EXCEPT !.state = "memwait"]
    [] enq # << >> /\ ll[i].state = "idle" /\ i = EnqPtr(ll) ->
         [state |-> "memreq", addr |-> enq[1].addr, source |-> enq[1].source]
    [] OTHER -> ll[i]

-----------------------------------------------------------------------------
MMUInit ==
  /\ fl = [i \in 0 .. Slots - 1 |-> NoWalk]
  /\ ll = [i \in 0 .. Slots - 1 |-> NoLast]
  /\ lastGrant \in [flMem : PowerUp, flOut : PowerUp, llMem : PowerUp, llOut : PowerUp]
  /\ q = [tlbReq |-> << >>, l2Req |-> << >>, l2Rsp |-> << >>, tlbRsp |-> << >>,
          flReq |-> << >>, flRsp |-> << >>, llReq |-> << >>, llRsp |-> << >>]
  /\ waiting = {}
  /\ open = [s \in {} |-> 0]

(* The handshakes of the queues, walkers and ports: what passes an edge.    *)
(* What happens outside during the cycle: offer is what the host asks (or  *)
(* nothing), taken and ready whether memory takes a request and the host   *)
(* an answer, reply what memory answers (or nothing).                      *)
HostAsks(offer) == offer # << >> /\ q.tlbReq = << >>
ToL2 == q.tlbReq # << >> /\ q.l2Req = << >>
ToFL == q.l2Req # << >> /\ In(fl, "idle") # {}
FLAsks == In(fl, "memreq") # {} /\ q.flReq = << >>
FLOut == In(fl, "llreq") # {} /\ In(ll, "idle") # {}
LLAsks == In(ll, "memreq") # {} /\ q.llReq = << >>
LLOut == In(ll, "ptwrsp") # {} /\ q.l2Rsp = << >>
ToTLB == q.l2Rsp # << >> /\ q.tlbRsp = << >>
Delivered(ready) == q.tlbRsp # << >> /\ ready
LLTaken(taken) == q.llReq # << >> /\ taken
FLTaken(taken) == q.flReq # << >> /\ q.llReq = << >> /\ taken
FLReplied(reply) == reply # << >> /\ reply[1].walker = "fl" /\ q.flRsp = << >>
LLReplied(reply) == reply # << >> /\ reply[1].walker = "ll" /\ q.llRsp = << >>
FLIn == q.flRsp # << >> /\ Awaiting(fl)
LLIn == q.llRsp # << >> /\ Awaiting(ll)

(* The entries the four arbiters choose, and what they send.               *)
AskedBy(e) == <<[source |-> e.source, addr |-> Address(e.ppn, e.vpn, e.level)]>>
FLAsking == fl[Chosen(In(fl, "memreq"), lastGrant.flMem)]
FLDone == fl[Chosen(In(fl, "llreq"), lastGrant.flOut)]
LLAsking == ll[Chosen(In(ll, "memreq"), lastGrant.llMem)]
LLFound == ll[Chosen(In(ll, "ptwrsp"), lastGrant.llOut)]

Sent(w, x) == [walker |-> w, source |-> x.source, addr |-> x.addr]
Word(x) == <<[source |-> x.source, word |-> Memory[x.addr]]>>
If(fires, x) == IF fires THEN x ELSE << >>
OnlyIf(fires, x) == IF fires THEN {x} ELSE {}
Grant(fires, entries, state, old) ==
  IF fires THEN Chosen(In(entries, state), old) ELSE old

(* One rising edge.                                                        *)
Edge(offer, taken, reply, ready) ==
  /\ fl' = [i \in DOMAIN fl |->
              FLNext(i, If(ToFL, q.l2Req), FLAsks, If(FLIn, q.flRsp), FLOut)]
  /\ ll' = [i \in DOMAIN ll |->
              LLNext(i, If(FLOut, AskedBy(FLDone)), LLAsks, If(LLIn, q.llRsp), LLOut)]
  /\ lastGrant' =
       [flMem |-> Grant(FLAsks, fl, "memreq", lastGrant.flMem),
        flOut |-> Grant(FLOut, fl, "llreq", lastGrant.flOut),
        llMem |-> Grant(LLAsks, ll, "memreq", lastGrant.llMem),
        llOut |-> Grant(LLOut, ll, "ptwrsp", lastGrant.llOut)]
  /\ q' = [tlbReq |-> Queue(q.tlbReq, If(HostAsks(offer), offer), ToL2),
           l2Req |-> Queue(q.l2Req, If(ToL2, q.tlbReq), ToFL),
           flReq |-> Queue(q.flReq, If(FLAsks, AskedBy(FLAsking)), FLTaken(taken)),
           flRsp |-> Queue(q.flRsp, If(FLReplied(reply), Word(reply[1])), FLIn),
           llReq |-> Queue(q.llReq, If(LLAsks, <<[source |-> LLAsking.source,
                                                  addr |-> LLAsking.addr]>>),
                           LLTaken(taken)),
           llRsp |-> Queue(q.llRsp, If(LLReplied(reply), Word(reply[1])), LLIn),
           l2Rsp |-> Queue(q.l2Rsp, If(LLOut, <<[source |-> LLFound.source,
                                                 word |-> LLFound.addr]>>), ToTLB),
           tlbRsp |-> Queue(q.tlbRsp, If(ToTLB, q.l2Rsp), Delivered(ready))]
  /\ waiting' =
       (waiting \ OnlyIf(FLReplied(reply) \/ LLReplied(reply), reply[1]))
         \cup OnlyIf(FLTaken(taken), Sent("fl", q.flReq[1]))
         \cup OnlyIf(LLTaken(taken), Sent("ll", q.llReq[1]))
  /\ LET kept == DOMAIN open \ OnlyIf(Delivered(ready), q.tlbRsp[1].source)
         new == OnlyIf(HostAsks(offer), offer[1].source)
     IN  open' = [s \in kept \cup new |->
                    IF s \in kept THEN open[s] ELSE [vpn |-> offer[1].vpn, root |-> offer[1].root]]

(* The host names a request by the lowest id that is free: the MMU only    *)
(* compares ids, so other choices differ by a renaming.                    *)
Requests ==
  LET free == Sources \ DOMAIN open
  IN  [source : {s \in free : \A t \in free : s <= t}, vpn : Vpns, root : Roots]

Replies == {<< >>} \cup {<<w>> : w \in waiting}
Readies == IF Refusing THEN BOOLEAN ELSE {TRUE}

EdgeWith(takens, replies, readies) ==
  \E offer \in {<< >>} \cup {<<r>> : r \in Requests}, taken \in takens, reply \in replies,
     ready \in readies : Edge(offer, taken, reply, ready)

MMUNext == EdgeWith(BOOLEAN, Replies, Readies)

MMUSpec == MMUInit /\ [][MMUNext]_mmuVars

(* The clock goes on; memory does not refuse requests for ever and answers *)
(* each in the end; the host does not refuse answers for ever.             *)
MemoryTakes ==
  (q.flReq # << >> \/ q.llReq # << >>) /\ EdgeWith({TRUE}, Replies, Readies)
HostTakes == q.tlbRsp # << >> /\ EdgeWith(BOOLEAN, Replies, {TRUE})
FLAnswered(s) ==
  /\ q.flRsp = << >>
  /\ EdgeWith(BOOLEAN, {<<x>> : x \in {y \in waiting : y.walker = "fl" /\ y.source = s}}, Readies)
LLAnswered(s) ==
  /\ q.llRsp = << >>
  /\ EdgeWith(BOOLEAN, {<<x>> : x \in {y \in waiting : y.walker = "ll" /\ y.source = s}}, Readies)
MMUFairSpec ==
  /\ MMUSpec /\ WF_mmuVars(MMUNext) /\ WF_mmuVars(MemoryTakes) /\ WF_mmuVars(HostTakes)
  /\ \A s \in Sources : SF_mmuVars(FLAnswered(s)) /\ SF_mmuVars(LLAnswered(s))

-----------------------------------------------------------------------------
(* Entries and queues are well typed; a walk never leaves its levels.      *)
MMUTypeOK ==
  /\ fl \in [0 .. Slots - 1 -> [state : {"idle", "memreq", "memwait", "llreq"},
                                ppn : Nat, vpn : Nat, level : 0 .. 2, source : Sources \cup {0}]]
  /\ ll \in [0 .. Slots - 1 -> [state : {"idle", "memreq", "memwait", "ptwrsp"},
                                addr : Nat, source : Sources \cup {0}]]
  /\ \A n \in DOMAIN q : Len(q[n]) <= 1
  /\ open \in [DOMAIN open -> [vpn : Vpns, root : Roots]] /\ DOMAIN open \subseteq Sources

(* An answer shown to the host is for a request it has open and names the  *)
(* word the page tables of that request lead to (MMUTests.v:2435), however *)
(* walks overtake each other.                                              *)
AnswersRight ==
  \A r \in {q.tlbRsp[k] : k \in DOMAIN q.tlbRsp} :
    /\ r.source \in DOMAIN open
    /\ r.word = Walk(open[r.source].vpn, open[r.source].root)

(* Every open request is in exactly one place on its way, and nothing else *)
(* is: no walk is lost, doubled or left over in a walker or a queue.       *)
Places(s) ==
  {<<n, 0>> : n \in {m \in {"tlbReq", "l2Req", "l2Rsp", "tlbRsp"} :
                       q[m] # << >> /\ q[m][1].source = s}}
    \cup {<<"fl", i>> : i \in {j \in DOMAIN fl : fl[j].state # "idle" /\ fl[j].source = s}}
    \cup {<<"ll", i>> : i \in {j \in DOMAIN ll : ll[j].state # "idle" /\ ll[j].source = s}}
OneWalkEach ==
  \A s \in Sources : Cardinality(Places(s)) = IF s \in DOMAIN open THEN 1 ELSE 0

(* A walk that waits for memory has exactly one request or answer there,   *)
(* and no other walk has one: no answer can reach a walk it is not for.    *)
Traffic(w, toMem, fromMem) ==
  {<<"req", x>> : x \in {toMem[k] : k \in DOMAIN toMem}}
    \cup {<<"mem", x>> : x \in {y \in waiting : y.walker = w}}
    \cup {<<"rsp", x>> : x \in {fromMem[k] : k \in DOMAIN fromMem}}
Mine(traffic, s) == {t \in traffic : t[2].source = s}
Waits(entries, s) == {i \in In(entries, "memwait") : entries[i].source = s}
MemoryMatched ==
  \A s \in Sources :
    /\ Cardinality(Mine(Traffic("fl", q.flReq, q.flRsp), s)) = Cardinality(Waits(fl, s))
    /\ Cardinality(Mine(Traffic("ll", q.llReq, q.llRsp), s)) = Cardinality(Waits(ll, s))

(* Every request is answered, although the last-level walks always go      *)
(* first at the memory port.                                               *)
RequestsTranslated == \A s \in Sources : s \in DOMAIN open ~> s \notin DOMAIN open
=============================================================================
