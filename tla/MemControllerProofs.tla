------------------------- MODULE MemControllerProofs -------------------------
(***************************************************************************)
(* Theorems about MemController, for any addresses, words and number of    *)
(* requests, whatever the registers hold at power-up and whatever the      *)
(* device does: registers keep their types; answers come in order, each    *)
(* for a request the device saw taken; reads are answered with what was    *)
(* written; and a device with one request open that keeps d_ready up loses *)
(* nothing.                                                                *)
(*                                                                         *)
(* The argument counts a request as seen, and an answer as coming, from    *)
(* the falling edge that decides it (seen, coming), so that rising edges   *)
(* change nothing.  Order: along the chain answers, standing answer,       *)
(* response stage, waiting request, sources never fall.  Content: memory   *)
(* and every standing answer hold a write no answered write overtook.      *)
(* Manners: with a polite device at most one request is in the chain.      *)
(***************************************************************************)
EXTENDS MemController, ListFacts

RequestType ==
  [valid : BOOLEAN, op : Opcodes \cup {0}, addr : Addrs, val : Data, source : Nat]
AnswerType == [valid : BOOLEAN, op : {0, 1}, val : Data, source : Nat]
RegisterType ==
  [inRsp : BOOLEAN, rw : Opcodes \cup {0, 1, 4}, time : 0 .. MaxGarbage, ready : BOOLEAN,
   sRspValid : BOOLEAN, sReqReady : BOOLEAN, addr : Addrs, val : Data, source : Nat]
DeviceType == [a : RequestType, dReady : BOOLEAN, aReady : BOOLEAN, d : AnswerType]

Typing ==
  /\ clock \in {0, 1} /\ clean \in BOOLEAN /\ polite \in BOOLEAN
  /\ req \in RequestType /\ rsp \in AnswerType
  /\ ctl \in RegisterType /\ gpu \in DeviceType
  /\ mem \in [Addrs -> Data]
  /\ issued \in Seq(RequestType) /\ answers \in Seq(AnswerType)

LEMMA NothingTyped == NoRequest \in RequestType /\ NoAnswer \in AnswerType
<1>1. (CHOOSE a \in Addrs : TRUE) \in Addrs
  BY ControllerAssumption
<1> QED
  BY <1>1, ControllerAssumption DEF NoRequest, NoAnswer, RequestType, AnswerType

LEMMA TypingInit == MCInit => Typing
<1> SUFFICES ASSUME MCInit PROVE Typing
  OBVIOUS
<1>1. /\ clock = 0 /\ req = NoRequest /\ polite = TRUE
      /\ mem = [a \in Addrs |-> 0] /\ issued = << >> /\ answers = << >>
      /\ gpu = [a |-> NoRequest, dReady |-> TRUE, aReady |-> FALSE, d |-> NoAnswer]
  BY DEF MCInit
<1>2. NoRequest.addr \in Addrs
  BY NothingTyped DEF RequestType
<1>3. ctl \in RegisterType /\ rsp \in AnswerType /\ clean \in BOOLEAN
  <2>1. PICK inRsp, ready, valid, sReqReady, sRspValid \in BOOLEAN,
             rw \in {0, 4, 1}, time \in 0 .. MaxGarbage :
          /\ ctl = [inRsp |-> inRsp, rw |-> rw, time |-> time, ready |-> ready,
                    sRspValid |-> sRspValid, sReqReady |-> sReqReady,
                    addr |-> NoRequest.addr, val |-> 0, source |-> 0]
          /\ rsp = [NoAnswer EXCEPT !.valid = valid]
          /\ clean = (~inRsp /\ ~valid /\ (time = 0 \/ ~ready))
    BY DEF MCInit
  <2>2. clean \in BOOLEAN
    BY <2>1
  <2>3. ctl \in RegisterType
    BY <1>2, <2>1, ControllerAssumption DEF RegisterType
  <2>4. rsp \in AnswerType
    BY <2>1, NothingTyped DEF AnswerType
  <2> QED
    BY <2>2, <2>3, <2>4
<1>4. gpu \in DeviceType
  BY <1>1, NothingTyped, ControllerAssumption DEF DeviceType
<1>5. mem \in [Addrs -> Data]
  BY <1>1, ControllerAssumption
<1> QED
  BY <1>1, <1>3, <1>4, <1>5, NothingTyped DEF Typing

-----------------------------------------------------------------------------
(* What a falling edge does to the controller: it counts down, holds its   *)
(* answer back, answers, or takes a request if there is one.               *)
SameRequest ==
  ctl'.addr = ctl.addr /\ ctl'.val = ctl.val /\ ctl'.source = ctl.source
Counts ==
  /\ ctl.time # 0
  /\ ~rsp'.valid /\ ~ctl'.ready /\ mem' = mem
  /\ ctl'.inRsp = ctl.inRsp /\ ctl'.rw = ctl.rw /\ SameRequest
Holds ==
  /\ ctl.time = 0 /\ ctl.inRsp /\ ~gpu.dReady
  /\ rsp'.valid = ctl.sRspValid /\ mem' = mem
  /\ rsp'.source = rsp.source /\ rsp'.op = rsp.op /\ rsp'.val = rsp.val
  /\ ctl'.time = 0 /\ ctl'.inRsp /\ ctl'.rw = ctl.rw /\ SameRequest
Responds ==
  /\ ctl.time = 0 /\ ctl.inRsp /\ gpu.dReady
  /\ rsp'.valid /\ rsp'.source = ctl.source
  /\ rsp'.op = IF ctl.rw = 4 THEN 1 ELSE 0
  /\ ctl.rw = 4 => rsp'.val = mem[ctl.addr]
  /\ mem' = IF ctl.rw = 0 THEN [mem EXCEPT ![ctl.addr] = ctl.val] ELSE mem
  /\ ctl'.time = 0 /\ (ctl'.inRsp <=> ctl.rw \notin {0, 4}) /\ ctl'.rw = 0 /\ SameRequest
Takes ==
  /\ ctl.time = 0 /\ ~ctl.inRsp
  /\ ~rsp'.valid /\ mem' = mem /\ ctl'.time = 0
  /\ ctl'.inRsp <=> gpu.a.valid /\ ctl.ready
  /\ ctl'.inRsp => /\ ctl'.rw = gpu.a.op /\ ctl'.addr = gpu.a.addr
                   /\ ctl'.source = gpu.a.source
                   /\ gpu.a.op = 0 => ctl'.val = gpu.a.val

Registers == ctl' \in RegisterType /\ rsp' \in AnswerType /\ mem' \in [Addrs -> Data]

LEMMA Counting ==
  ASSUME Typing, ctl.time # 0, <<ctl', rsp', mem'>> = CountDown(ctl, rsp)
  PROVE  Registers /\ Counts
<1>1. ctl.time - 1 \in 0 .. MaxGarbage
  BY ControllerAssumption DEF Typing, RegisterType
<1>2. ctl' = [ctl EXCEPT !.time = @ - 1, !.ready = FALSE] /\ rsp' = [rsp EXCEPT !.valid = FALSE]
      /\ mem' = mem
  BY DEF CountDown
<1>3. ctl' \in RegisterType /\ ctl'.ready = FALSE /\ ctl'.inRsp = ctl.inRsp /\ ctl'.rw = ctl.rw
      /\ SameRequest
  BY <1>1, <1>2 DEF Typing, RegisterType, SameRequest
<1>4. rsp' \in AnswerType /\ rsp'.valid = FALSE
  BY <1>2 DEF Typing, AnswerType
<1> QED
  BY <1>2, <1>3, <1>4 DEF Registers, Counts, Typing

LEMMA Responding ==
  ASSUME Typing, ctl.time = 0, ctl.inRsp, <<ctl', rsp', mem'>> = Respond(ctl, rsp, gpu.dReady)
  PROVE  Registers /\ (Holds \/ Responds)
<1>1. CASE ~gpu.dReady
  <2>1. /\ ctl' = [ctl EXCEPT !.ready = ctl.sReqReady]
        /\ rsp' = [rsp EXCEPT !.valid = ctl.sRspValid] /\ mem' = mem
    BY <1>1 DEF Respond
  <2>2. ctl' \in RegisterType /\ ctl'.time = 0 /\ ctl'.inRsp = ctl.inRsp /\ ctl'.rw = ctl.rw
        /\ SameRequest
    BY <2>1 DEF Typing, RegisterType, SameRequest
  <2>3. /\ rsp' \in AnswerType /\ rsp'.valid = ctl.sRspValid
        /\ rsp'.source = rsp.source /\ rsp'.op = rsp.op /\ rsp'.val = rsp.val
    BY <2>1 DEF Typing, RegisterType, AnswerType
  <2> QED
    BY <1>1, <2>1, <2>2, <2>3 DEF Registers, Holds, Typing
<1>2. CASE gpu.dReady
  <2>1. /\ ctl' = [ctl EXCEPT !.inRsp = ctl.rw \notin {0, 4}, !.rw = 0, !.ready = TRUE,
                              !.sRspValid = TRUE, !.sReqReady = TRUE]
        /\ rsp' = [valid |-> TRUE, source |-> ctl.source, op |-> IF ctl.rw = 4 THEN 1 ELSE 0,
                   val |-> IF ctl.rw = 4 THEN mem[ctl.addr] ELSE rsp.val]
        /\ mem' = IF ctl.rw = 0 THEN [mem EXCEPT ![ctl.addr] = ctl.val] ELSE mem
    BY <1>2 DEF Respond
  <2>2. /\ ctl' \in RegisterType /\ ctl'.time = 0 /\ (ctl'.inRsp <=> ctl.rw \notin {0, 4})
        /\ ctl'.rw = 0 /\ SameRequest
    BY <2>1 DEF Typing, RegisterType, SameRequest
  <2>3. mem[ctl.addr] \in Data /\ rsp.val \in Data /\ ctl.source \in Nat /\ ctl.val \in Data
    BY DEF Typing, RegisterType, AnswerType
  <2>4. rsp' \in AnswerType
    BY <2>1, <2>3 DEF AnswerType
  <2>5. /\ rsp'.valid /\ rsp'.source = ctl.source
        /\ rsp'.op = IF ctl.rw = 4 THEN 1 ELSE 0
        /\ ctl.rw = 4 => rsp'.val = mem[ctl.addr]
    BY <2>1
  <2>6. mem' \in [Addrs -> Data]
    BY <2>1, <2>3 DEF Typing
  <2> QED
    BY <1>2, <2>1, <2>2, <2>4, <2>5, <2>6 DEF Registers, Responds
<1> QED
  BY <1>1, <1>2

LEMMA Taking ==
  ASSUME Typing, ctl.time = 0, ~ctl.inRsp, <<ctl', rsp', mem'>> = Accept(ctl, rsp, gpu.a)
  PROVE  Registers /\ Takes
<1> DEFINE idle == [ctl EXCEPT !.ready = TRUE, !.sReqReady = TRUE, !.sRspValid = FALSE]
<1>1. rsp' = [rsp EXCEPT !.valid = FALSE] /\ mem' = mem
  BY DEF Accept
<1>2. rsp' \in AnswerType /\ rsp'.valid = FALSE /\ mem' \in [Addrs -> Data]
  BY <1>1 DEF Typing, AnswerType
<1>3. idle \in RegisterType /\ idle.time = 0 /\ ~idle.inRsp
  BY DEF Typing, RegisterType
<1>4. /\ gpu.a.valid \in BOOLEAN /\ gpu.a.op \in Opcodes \cup {0} /\ gpu.a.addr \in Addrs
      /\ gpu.a.val \in Data /\ gpu.a.source \in Nat /\ ctl.ready \in BOOLEAN
  BY DEF Typing, DeviceType, RequestType, RegisterType
<1>5. CASE gpu.a.valid /\ ctl.ready
  <2>1. ctl' = [idle EXCEPT !.inRsp = TRUE, !.rw = gpu.a.op, !.addr = gpu.a.addr,
                            !.source = gpu.a.source,
                            !.val = IF gpu.a.op = 0 THEN gpu.a.val ELSE @]
    BY <1>5 DEF Accept
  <2> HIDE DEF idle
  <2>2. /\ ctl' \in RegisterType /\ ctl'.time = 0 /\ ctl'.inRsp
        /\ ctl'.rw = gpu.a.op /\ ctl'.addr = gpu.a.addr /\ ctl'.source = gpu.a.source
        /\ gpu.a.op = 0 => ctl'.val = gpu.a.val
    BY <1>3, <1>4, <2>1 DEF RegisterType
  <2> QED
    BY <1>1, <1>2, <1>5, <2>2 DEF Registers, Takes
<1>6. CASE ~(gpu.a.valid /\ ctl.ready)
  <2>1. ctl' = idle
    BY <1>6 DEF Accept
  <2> HIDE DEF idle
  <2> QED
    BY <1>1, <1>2, <1>3, <1>6, <2>1 DEF Registers, Takes
<1> QED
  BY <1>5, <1>6

LEMMA FallingCases ==
  ASSUME Typing, FallingEdge
  PROVE  Registers /\ (Counts \/ Holds \/ Responds \/ Takes)
<1>1. CASE ctl.time # 0
  <2>1. <<ctl', rsp', mem'>> = CountDown(ctl, rsp)
    BY <1>1 DEF FallingEdge, CountDown
  <2> QED
    BY <1>1, <2>1, Counting
<1>2. CASE ctl.time = 0 /\ ctl.inRsp
  <2>1. <<ctl', rsp', mem'>> = Respond(ctl, rsp, gpu.dReady)
    BY <1>2 DEF FallingEdge, Respond
  <2> QED
    BY <1>2, <2>1, Responding
<1>3. CASE ctl.time = 0 /\ ~ctl.inRsp
  <2>1. <<ctl', rsp', mem'>> = Accept(ctl, rsp, gpu.a)
    BY <1>3 DEF FallingEdge, Accept
  <2> QED
    BY <1>3, <2>1, Taking
<1> QED
  BY <1>1, <1>2, <1>3

-----------------------------------------------------------------------------
(* What an edge of the clock does to everything else.                      *)
LEMMA FallingFacts ==
  ASSUME Typing, FallingEdge
  PROVE  /\ clock = 1 /\ clock' = 0
         /\ gpu' \in DeviceType
         /\ gpu'.a = gpu.a /\ gpu'.dReady = gpu.dReady
         /\ gpu'.aReady = ctl.ready /\ gpu'.d = rsp
         /\ issued' = issued /\ answers' = answers
         /\ clean' = clean /\ polite' = polite
<1>1. gpu' = [gpu EXCEPT !.aReady = ctl.ready, !.d = rsp]
  BY DEF FallingEdge
<1>2. ctl.ready \in BOOLEAN /\ rsp \in AnswerType /\ gpu \in DeviceType
  BY DEF Typing, RegisterType
<1>3. /\ gpu' \in DeviceType
      /\ gpu'.a = gpu.a /\ gpu'.dReady = gpu.dReady
      /\ gpu'.aReady = ctl.ready /\ gpu'.d = rsp
  BY <1>1, <1>2 DEF DeviceType
<1> QED
  BY <1>3 DEF FallingEdge

LEMMA FallingTyped ==
  ASSUME Typing, FallingEdge
  PROVE  Typing'
<1>1. req' \in RequestType
  BY DEF FallingEdge, Typing, DeviceType
<1> QED
  BY <1>1, FallingCases, FallingFacts DEF Typing, Registers

(* A request the device makes; sent and got say what it saw at the edge.   *)
Sent == gpu.a.valid /\ gpu.aReady
Got == gpu.d.valid /\ gpu.dReady

LEMMA RisingFacts ==
  ASSUME Typing, RisingEdge
  PROVE  /\ clock = 0 /\ clock' = 1
         /\ ctl' = [ctl EXCEPT !.sRspValid = rsp.valid, !.sReqReady = ctl.ready]
         /\ rsp' = rsp /\ req' = req /\ mem' = mem /\ clean' = clean
         /\ issued' = IF Sent THEN Append(issued, gpu.a) ELSE issued
         /\ answers' = IF Got THEN Append(answers, gpu.d) ELSE answers
         /\ issued' \in Seq(RequestType) /\ answers' \in Seq(AnswerType)
         /\ gpu' \in DeviceType /\ polite' \in BOOLEAN
         /\ polite' => polite /\ gpu'.dReady
         /\ gpu.a.valid /\ ~Sent => gpu'.a = gpu.a
         /\ ~gpu.a.valid \/ Sent =>
              \/ gpu'.a = NoRequest
              \/ /\ gpu'.a.source = Len(issued') + 1
                 /\ polite' => Len(answers') = Len(issued') /\ gpu'.a.op \in {0, 4}
<1>1. gpu \in DeviceType /\ gpu.a \in RequestType /\ gpu.d \in AnswerType
  BY DEF Typing, DeviceType
<1>2. /\ issued' = IF Sent THEN Append(issued, gpu.a) ELSE issued
      /\ answers' = IF Got THEN Append(answers, gpu.d) ELSE answers
  BY DEF RisingEdge, Sent, Got
<1>3. issued' \in Seq(RequestType) /\ answers' \in Seq(AnswerType)
  <2>1. issued \in Seq(RequestType) /\ answers \in Seq(AnswerType)
    BY DEF Typing
  <2>2. Append(issued, gpu.a) \in Seq(RequestType) /\ Append(answers, gpu.d) \in Seq(AnswerType)
    BY <1>1, <2>1, AppendProperties
  <2> QED
    BY <1>2, <2>1, <2>2
<1>4. PICK a \in IF gpu.a.valid /\ ~Sent THEN {gpu.a}
                 ELSE {NoRequest} \cup NextRequests(Len(issued'), Len(answers') < Len(issued')),
           ready \in IF DropsReady THEN BOOLEAN ELSE {TRUE} :
        /\ gpu' = [gpu EXCEPT !.a = a, !.dReady = ready]
        /\ polite' = /\ polite /\ ready
                     /\ a.valid /\ ~(gpu.a.valid /\ ~Sent) => /\ Len(answers') = Len(issued')
                                                              /\ a.op \in {0, 4}
  BY DEF RisingEdge, Sent
<1>5. Len(issued') \in Nat
  BY <1>3, LenProperties
<1>6. NextRequests(Len(issued'), Len(answers') < Len(issued')) \subseteq
        {r \in RequestType : r.valid /\ r.source = Len(issued') + 1}
  <2>1. Len(issued') + 1 \in Nat
    BY <1>5
  <2> QED
    BY <2>1 DEF NextRequests, RequestType
<1>7. a \in RequestType
  BY <1>1, <1>4, <1>6, NothingTyped
<1>8. gpu' \in DeviceType /\ gpu'.a = a /\ gpu'.dReady = ready
  <2>1. ready \in BOOLEAN
    BY <1>4
  <2> QED
    BY <1>1, <1>4, <1>7, <2>1 DEF DeviceType
<1>9. gpu.a.valid /\ ~Sent => a = gpu.a
  BY <1>4
<1>10. ~gpu.a.valid \/ Sent => a = NoRequest \/ (a.valid /\ a.source = Len(issued') + 1)
  BY <1>4, <1>6
<1>11. polite' \in BOOLEAN
  BY <1>4
<1>12. polite' => polite /\ ready
  BY <1>4
<1>13. polite' /\ a.valid /\ (~gpu.a.valid \/ Sent) => Len(answers') = Len(issued') /\ a.op \in {0, 4}
  BY <1>4
<1> QED
  BY <1>2, <1>3, <1>8, <1>9, <1>10, <1>11, <1>12, <1>13 DEF RisingEdge

LEMMA RisingTyped ==
  ASSUME Typing, RisingEdge
  PROVE  Typing'
<1>1. ctl' \in RegisterType
  <2>1. rsp.valid \in BOOLEAN /\ ctl.ready \in BOOLEAN /\ ctl \in RegisterType
    BY DEF Typing, RegisterType, AnswerType
  <2>2. ctl' = [ctl EXCEPT !.sRspValid = rsp.valid, !.sReqReady = ctl.ready]
    BY RisingFacts
  <2> QED
    BY <2>1, <2>2 DEF RegisterType
<1> QED
  BY <1>1, RisingFacts DEF Typing

LEMMA TypingStep == Typing /\ [MCNext]_mcVars => Typing'
<1>1. ASSUME Typing, MCNext PROVE Typing'
  BY <1>1, FallingTyped, RisingTyped DEF MCNext
<1>2. ASSUME Typing, UNCHANGED mcVars PROVE Typing'
  BY <1>2 DEF Typing, mcVars
<1> QED
  BY <1>1, <1>2

(* memory.h:413: nothing initialises the registers of the controller, yet  *)
(* they, the ports and the memory keep their types (MCTypeOK).             *)
THEOREM ControllerTypeCorrect == MCSpec => []MCTypeOK
<1>1. Typing => MCTypeOK
  BY DEF Typing, MCTypeOK, RequestType, RegisterType
<1> QED
  BY <1>1, TypingInit, TypingStep, PTL DEF MCSpec

-----------------------------------------------------------------------------
(* The requests and answers as they will stand after the next rising edge. *)
(* So counted, nothing changes at a rising edge.                           *)
seen == IF clock = 0 /\ Sent THEN Append(issued, gpu.a) ELSE issued
coming == IF clock = 0 /\ Got THEN Append(answers, gpu.d) ELSE answers

(* A request that is up and not yet among the seen.                        *)
Waiting == gpu.a.valid /\ ~(clock = 0 /\ Sent)

Extends(S, T) == Len(S) <= Len(T) /\ \A k \in 1 .. Len(S) : T[k] = S[k]

LEMMA AppendExtends ==
  ASSUME NEW T, NEW S \in Seq(T), NEW x \in T
  PROVE  /\ Append(S, x) \in Seq(T) /\ Len(Append(S, x)) = Len(S) + 1
         /\ Append(S, x)[Len(S) + 1] = x /\ Extends(S, Append(S, x)) /\ Len(S) \in Nat
BY AppendProperties, LenProperties DEF Extends

LEMMA SeenTyped ==
  ASSUME Typing
  PROVE  /\ seen \in Seq(RequestType) /\ coming \in Seq(AnswerType)
         /\ Len(seen) \in Nat /\ Len(coming) \in Nat
<1>1. /\ issued \in Seq(RequestType) /\ gpu.a \in RequestType
      /\ answers \in Seq(AnswerType) /\ gpu.d \in AnswerType
  BY DEF Typing, DeviceType
<1>2. seen \in Seq(RequestType) /\ coming \in Seq(AnswerType)
  BY <1>1, AppendExtends DEF seen, coming
<1> QED
  BY <1>2, LenProperties

(* A falling edge decides whether the request that is up counts as taken   *)
(* and whether the answer that stands will be.                             *)
LEMMA FallingSeen ==
  ASSUME Typing, FallingEdge
  PROVE  /\ Extends(seen, seen') /\ Extends(coming, coming')
         /\ Waiting <=> gpu.a.valid
         /\ gpu.a.valid /\ ctl.ready => /\ Len(seen') = Len(seen) + 1
                                        /\ seen'[Len(seen')] = gpu.a /\ ~Waiting'
         /\ ~(gpu.a.valid /\ ctl.ready) => seen' = seen
         /\ Waiting' => Waiting
         /\ rsp.valid /\ gpu.dReady => /\ Len(coming') = Len(coming) + 1
                                       /\ coming'[Len(coming')] = rsp
         /\ ~(rsp.valid /\ gpu.dReady) => coming' = coming
         /\ seen' \in Seq(RequestType) /\ coming' \in Seq(AnswerType)
<1>1. /\ clock = 1 /\ clock' = 0 /\ gpu'.a = gpu.a /\ gpu'.dReady = gpu.dReady
      /\ gpu'.aReady = ctl.ready /\ gpu'.d = rsp /\ issued' = issued /\ answers' = answers
  BY FallingFacts
<1>2. /\ issued \in Seq(RequestType) /\ gpu.a \in RequestType
      /\ answers \in Seq(AnswerType) /\ rsp \in AnswerType
  BY DEF Typing, DeviceType
<1>3. seen = issued /\ coming = answers
  BY <1>1 DEF seen, coming
<1>4. /\ Sent' <=> gpu.a.valid /\ ctl.ready
      /\ Got' <=> rsp.valid /\ gpu.dReady
  BY <1>1 DEF Sent, Got
<1>5. /\ seen' = IF gpu.a.valid /\ ctl.ready THEN Append(issued, gpu.a) ELSE issued
      /\ coming' = IF rsp.valid /\ gpu.dReady THEN Append(answers, rsp) ELSE answers
  BY <1>1, <1>4 DEF seen, coming
<1>6. /\ Extends(seen, seen') /\ Extends(coming, coming')
      /\ gpu.a.valid /\ ctl.ready => Len(seen') = Len(seen) + 1 /\ seen'[Len(seen')] = gpu.a
      /\ rsp.valid /\ gpu.dReady => Len(coming') = Len(coming) + 1 /\ coming'[Len(coming')] = rsp
      /\ seen' \in Seq(RequestType) /\ coming' \in Seq(AnswerType)
  <2>1. Extends(issued, issued) /\ Extends(answers, answers)
    BY <1>2, LenProperties DEF Extends
  <2> QED
    BY <1>2, <1>3, <1>5, <2>1, AppendExtends
<1>7. Waiting <=> gpu.a.valid
  BY <1>1 DEF Waiting
<1>8. Waiting' <=> gpu.a.valid /\ ~ctl.ready
  BY <1>1, <1>4 DEF Waiting
<1> QED
  BY <1>3, <1>5, <1>6, <1>7, <1>8

LEMMA RisingSeen ==
  ASSUME Typing, RisingEdge
  PROVE  /\ seen' = seen /\ coming' = coming
         /\ seen' = issued' /\ coming' = answers'
         /\ rsp' = rsp /\ mem' = mem /\ clean' = clean /\ SameRequest
         /\ ctl'.inRsp = ctl.inRsp /\ ctl'.rw = ctl.rw
         /\ ctl'.time = ctl.time /\ ctl'.ready = ctl.ready /\ ctl'.sRspValid = rsp.valid
         /\ Waiting' => \/ Waiting /\ gpu'.a = gpu.a
                        \/ /\ gpu'.a.source = Len(seen) + 1
                           /\ polite' => Len(coming) = Len(seen) /\ gpu'.a.op \in {0, 4}
<1>1. /\ clock = 0 /\ clock' = 1 /\ rsp' = rsp /\ mem' = mem /\ clean' = clean
      /\ ctl' = [ctl EXCEPT !.sRspValid = rsp.valid, !.sReqReady = ctl.ready]
      /\ issued' = IF Sent THEN Append(issued, gpu.a) ELSE issued
      /\ answers' = IF Got THEN Append(answers, gpu.d) ELSE answers
  BY RisingFacts
<1>2. seen' = issued' /\ coming' = answers' /\ seen = issued' /\ coming = answers'
  BY <1>1 DEF seen, coming
<1>3. /\ SameRequest /\ ctl'.inRsp = ctl.inRsp /\ ctl'.rw = ctl.rw
      /\ ctl'.time = ctl.time /\ ctl'.ready = ctl.ready /\ ctl'.sRspValid = rsp.valid
  BY <1>1 DEF Typing, RegisterType, SameRequest
<1>4. ASSUME Waiting'
      PROVE  \/ Waiting /\ gpu'.a = gpu.a
             \/ /\ gpu'.a.source = Len(seen) + 1
                /\ polite' => Len(coming) = Len(seen) /\ gpu'.a.op \in {0, 4}
  <2>1. gpu'.a.valid
    BY <1>4 DEF Waiting
  <2>2. gpu'.a # NoRequest
    BY <2>1 DEF NoRequest
  <2>3. CASE gpu.a.valid /\ ~Sent
    BY <2>3, RisingFacts DEF Waiting
  <2>4. CASE ~(gpu.a.valid /\ ~Sent)
    BY <1>2, <2>2, <2>4, RisingFacts
  <2> QED
    BY <2>3, <2>4
<1> QED
  BY <1>1, <1>2, <1>3, <1>4

-----------------------------------------------------------------------------
(* The chain a request goes through: answers, the answer that stands, the  *)
(* response stage, the request that waits.  Along it sources never fall,   *)
(* and stand still only where a request is answered twice.                 *)
Twice(S, s) == s = 0 \/ S[s].op \notin {0, 4}
Before(S, s, t) == s < t \/ (s = t /\ Twice(S, t))
Right(S, c, x) ==
  IF x.source = 0 THEN ~c
  ELSE x.source <= Len(S) /\ x.op = IF S[x.source].op = 4 THEN 1 ELSE 0

Chain ==
  /\ \A i \in 1 .. Len(coming) :
       /\ Right(seen, clean, coming[i])
       /\ \A j \in 1 .. i - 1 : Before(seen, coming[j].source, coming[i].source)
  /\ rsp.valid =>
       /\ Right(seen, clean, rsp)
       /\ \A i \in 1 .. Len(coming) : Before(seen, coming[i].source, rsp.source)
Stage ==
  ctl.inRsp =>
    /\ IF ctl.source = 0 THEN ~clean
       ELSE /\ ctl.source <= Len(seen)
            /\ ctl.addr = seen[ctl.source].addr
            /\ \/ /\ ctl.rw = seen[ctl.source].op
                  /\ ctl.rw = 0 => ctl.val = seen[ctl.source].val
               \/ ctl.rw = 0 /\ Twice(seen, ctl.source)
    /\ \A i \in 1 .. Len(coming) : Before(seen, coming[i].source, ctl.source)
    /\ rsp.valid => Before(seen, rsp.source, ctl.source)
Order ==
  /\ clock = 1 => ctl.sRspValid = rsp.valid
  /\ \A k \in 1 .. Len(seen) : seen[k].source = k
  /\ Waiting => gpu.a.source = Len(seen) + 1
  /\ Chain /\ Stage

LEMMA OrderInit == MCInit => Order
<1> SUFFICES ASSUME MCInit PROVE Order
  OBVIOUS
<1>1. Typing
  BY TypingInit
<1>2. /\ clock = 0 /\ issued = << >> /\ answers = << >>
      /\ gpu = [a |-> NoRequest, dReady |-> TRUE, aReady |-> FALSE, d |-> NoAnswer]
  BY DEF MCInit
<1>3. seen = << >> /\ coming = << >> /\ ~Waiting
  BY <1>2 DEF seen, coming, Waiting, Sent, Got, NoRequest, NoAnswer
<1>4. Len(seen) = 0 /\ Len(coming) = 0
  BY <1>3
<1>5. PICK inRsp, ready, valid, sReqReady, sRspValid \in BOOLEAN,
           rw \in {0, 4, 1}, time \in 0 .. MaxGarbage :
        /\ ctl = [inRsp |-> inRsp, rw |-> rw, time |-> time, ready |-> ready,
                  sRspValid |-> sRspValid, sReqReady |-> sReqReady,
                  addr |-> NoRequest.addr, val |-> 0, source |-> 0]
        /\ rsp = [NoAnswer EXCEPT !.valid = valid]
        /\ clean = (~inRsp /\ ~valid /\ (time = 0 \/ ~ready))
  BY DEF MCInit
<1>6. /\ ctl.source = 0 /\ rsp.source = 0
      /\ ctl.inRsp \/ rsp.valid => ~clean
  BY <1>5 DEF NoAnswer
<1> QED
  BY <1>2, <1>3, <1>4, <1>6 DEF Order, Chain, Stage, Right, Before, Twice

(* What holds of the seen requests holds of more of them.                  *)
LEMMA RightLater ==
  ASSUME NEW S \in Seq(RequestType), NEW T \in Seq(RequestType), Extends(S, T),
         NEW c, NEW x \in AnswerType, Right(S, c, x)
  PROVE  Right(T, c, x) /\ x.source <= Len(S)
<1>1. x.source \in Nat /\ Len(S) \in Nat /\ Len(T) \in Nat
  BY LenProperties DEF AnswerType
<1>2. x.source # 0 => T[x.source] = S[x.source]
  BY <1>1 DEF Extends, Right
<1> QED
  BY <1>1, <1>2 DEF Right, Extends

LEMMA BeforeLater ==
  ASSUME NEW S \in Seq(RequestType), NEW T \in Seq(RequestType), Extends(S, T),
         NEW s \in Nat, NEW t \in Nat, t <= Len(S)
  PROVE  Before(T, s, t) <=> Before(S, s, t)
<1>1. Len(S) \in Nat
  BY LenProperties
<1>2. t # 0 => T[t] = S[t]
  BY <1>1 DEF Extends
<1> QED
  BY <1>2 DEF Before, Twice

LEMMA OrderRises == Typing /\ Order /\ RisingEdge => Order'
<1> SUFFICES ASSUME Typing, Order, RisingEdge PROVE Order'
  OBVIOUS
<1>1. /\ seen' = seen /\ coming' = coming /\ rsp' = rsp /\ clean' = clean /\ SameRequest
      /\ ctl'.inRsp = ctl.inRsp /\ ctl'.rw = ctl.rw /\ ctl'.sRspValid = rsp.valid
  BY RisingSeen
<1>2. Chain' /\ Stage'
  BY <1>1 DEF Order, Chain, Stage, Right, SameRequest
<1>3. (Waiting => gpu.a.source = Len(seen) + 1)'
  BY <1>1, RisingSeen DEF Order
<1> QED
  BY <1>1, <1>2, <1>3 DEF Order

(* The answers of the next rising edge: those there, and the one that      *)
(* stands if the device is ready.                                          *)
LEMMA ChainFalls ==
  ASSUME Typing, Order, FallingEdge
  PROVE  \A i \in 1 .. Len(coming') :
           /\ \/ i \in 1 .. Len(coming) /\ coming'[i] = coming[i]
              \/ i = Len(coming) + 1 /\ coming'[i] = rsp /\ rsp.valid
           /\ Right(seen, clean, coming'[i])
           /\ \A j \in 1 .. i - 1 : Before(seen, coming'[j].source, coming'[i].source)
<1>1. /\ Len(coming) \in Nat /\ Extends(coming, coming')
      /\ rsp.valid /\ gpu.dReady => Len(coming') = Len(coming) + 1 /\ coming'[Len(coming')] = rsp
      /\ ~(rsp.valid /\ gpu.dReady) => coming' = coming
  BY SeenTyped, FallingSeen
<1> SUFFICES ASSUME NEW i \in 1 .. Len(coming')
             PROVE  /\ \/ i \in 1 .. Len(coming) /\ coming'[i] = coming[i]
                       \/ i = Len(coming) + 1 /\ coming'[i] = rsp /\ rsp.valid
                    /\ Right(seen, clean, coming'[i])
                    /\ \A j \in 1 .. i - 1 : Before(seen, coming'[j].source, coming'[i].source)
  OBVIOUS
<1>2. \A k \in 1 .. Len(coming) : coming'[k] = coming[k]
  BY <1>1 DEF Extends
<1>3. CASE i \in 1 .. Len(coming)
  <2>1. \A j \in 1 .. i - 1 : j \in 1 .. Len(coming)
    BY <1>1, <1>3
  <2> QED
    BY <1>2, <1>3, <2>1 DEF Order, Chain
<1>4. CASE i \notin 1 .. Len(coming)
  <2>1. rsp.valid /\ i = Len(coming) + 1 /\ coming'[i] = rsp
    BY <1>1, <1>4
  <2>2. \A j \in 1 .. i - 1 : j \in 1 .. Len(coming)
    BY <1>1, <2>1
  <2> QED
    BY <1>2, <2>1, <2>2 DEF Order, Chain
<1> QED
  BY <1>3, <1>4

LEMMA OrderFalls == Typing /\ Order /\ FallingEdge => Order'
<1> SUFFICES ASSUME Typing, Order, FallingEdge PROVE Order'
  OBVIOUS
<1> DEFINE N == Len(seen)
<1>1. /\ clock = 1 /\ clock' = 0 /\ gpu'.a = gpu.a /\ clean' = clean /\ issued' = issued
  BY FallingFacts
<1>2. /\ seen \in Seq(RequestType) /\ seen' \in Seq(RequestType) /\ N \in Nat /\ Len(seen') \in Nat
      /\ coming \in Seq(AnswerType) /\ coming' \in Seq(AnswerType)
      /\ Len(coming) \in Nat /\ Len(coming') \in Nat
  BY SeenTyped, FallingSeen, LenProperties
<1>3. /\ rsp \in AnswerType /\ rsp' \in AnswerType /\ ctl \in RegisterType /\ ctl' \in RegisterType
  BY FallingTyped DEF Typing
<1>4. /\ Extends(seen, seen') /\ (Waiting <=> gpu.a.valid) /\ (Waiting' => Waiting)
      /\ gpu.a.valid /\ ctl.ready => Len(seen') = N + 1 /\ seen'[Len(seen')] = gpu.a /\ ~Waiting'
      /\ ~(gpu.a.valid /\ ctl.ready) => seen' = seen
  BY FallingSeen
<1>5. (\A k \in 1 .. Len(seen) : seen[k].source = k)'
  <2> SUFFICES ASSUME NEW k \in 1 .. Len(seen') PROVE seen'[k].source = k
    OBVIOUS
  <2>1. CASE k \in 1 .. N
    BY <1>4, <2>1 DEF Extends, Order
  <2>2. CASE k \notin 1 .. N
    <3>1. gpu.a.valid /\ ctl.ready /\ k = N + 1
      BY <1>2, <1>4, <2>2
    <3> QED
      BY <1>2, <1>4, <3>1 DEF Order
  <2> QED
    BY <2>1, <2>2
<1>6. (Waiting => gpu.a.source = Len(seen) + 1)'
  BY <1>1, <1>4 DEF Order
<1>7. \A i \in 1 .. Len(coming') : coming'[i] \in AnswerType /\ coming'[i].source \in Nat
  <2>1. \A i \in 1 .. Len(coming') : coming'[i] \in AnswerType
    BY <1>2, ElementOfSeq
  <2> QED
    BY <2>1 DEF AnswerType
<1>8. \A i \in 1 .. Len(coming') :
        /\ Right(seen', clean', coming'[i]) /\ coming'[i].source <= N
        /\ \A j \in 1 .. i - 1 : Before(seen', coming'[j].source, coming'[i].source)
  <2> SUFFICES ASSUME NEW i \in 1 .. Len(coming')
               PROVE  /\ Right(seen', clean', coming'[i]) /\ coming'[i].source <= N
                      /\ \A j \in 1 .. i - 1 : Before(seen', coming'[j].source, coming'[i].source)
    OBVIOUS
  <2> DEFINE x == coming'[i]
  <2>1. Right(seen, clean, x) /\ \A j \in 1 .. i - 1 : Before(seen, coming'[j].source, x.source)
    BY ChainFalls
  <2>2. x \in AnswerType
    BY <1>7
  <2>3. Right(seen', clean', x) /\ x.source <= N
    <3> HIDE DEF x
    <3> QED
      BY <1>1, <1>2, <1>4, <2>1, <2>2, RightLater
  <2>4. \A j \in 1 .. i - 1 : j \in 1 .. Len(coming')
    BY <1>2
  <2>5. \A j \in 1 .. i - 1 : Before(seen', coming'[j].source, x.source)
    <3>1. x.source \in Nat /\ \A j \in 1 .. i - 1 : coming'[j].source \in Nat
      BY <1>7, <2>4
    <3> HIDE DEF x
    <3> QED
      BY <1>2, <1>4, <2>1, <2>3, <3>1, BeforeLater
  <2> QED
    BY <2>3, <2>5
(* In each case: the answer that stands comes after those on their way,    *)
(* and the response stage after both.                                      *)
<1>9. ASSUME NEW s \in Nat, s <= N,
             \A i \in 1 .. Len(coming) : Before(seen, coming[i].source, s),
             rsp.valid => Before(seen, rsp.source, s)
      PROVE  \A i \in 1 .. Len(coming') : Before(seen', coming'[i].source, s)
  <2>1. \A i \in 1 .. Len(coming') : Before(seen, coming'[i].source, s)
    BY <1>9, ChainFalls
  <2> QED
    BY <1>2, <1>4, <1>7, <1>9, <2>1, BeforeLater
<1>10. ASSUME ctl.inRsp
       PROVE  /\ ctl.source \in Nat /\ ctl.source <= N
              /\ ctl.source # 0 => seen'[ctl.source] = seen[ctl.source]
              /\ \A i \in 1 .. Len(coming') : Before(seen', coming'[i].source, ctl.source)
  <2>1. ctl.source \in Nat /\ ctl.source <= N
    BY <1>2, <1>3, <1>10 DEF Order, Stage, RegisterType
  <2>2. ctl.source # 0 => seen'[ctl.source] = seen[ctl.source]
    BY <1>4, <2>1 DEF Extends
  <2> QED
    BY <1>9, <1>10, <2>1, <2>2 DEF Order, Stage
<1>11. CASE Counts
  <2>1. Chain'
    BY <1>8, <1>11 DEF Chain, Counts
  <2>2. Stage'
    BY <1>1, <1>2, <1>4, <1>10, <1>11
       DEF Order, Stage, Counts, SameRequest, Twice, Extends
  <2> QED
    BY <1>1, <1>5, <1>6, <2>1, <2>2 DEF Order
<1>12. CASE Holds
  <2>1. coming' = coming /\ (rsp'.valid => rsp.valid)
    BY <1>1, <1>12, FallingSeen DEF Holds, Order
  <2>2. ASSUME rsp'.valid
        PROVE  /\ Right(seen', clean', rsp')
               /\ \A i \in 1 .. Len(coming') : Before(seen', coming'[i].source, rsp'.source)
               /\ Before(seen', rsp'.source, ctl.source)
    <3>1. Right(seen, clean, rsp) /\ Before(seen, rsp.source, ctl.source)
      BY <1>12, <2>1, <2>2 DEF Order, Chain, Stage, Holds
    <3>2. Right(seen', clean', rsp) /\ rsp.source <= N
      BY <1>1, <1>2, <1>3, <1>4, <3>1, RightLater
    <3>3. Right(seen', clean', rsp')
      BY <1>12, <3>2 DEF Holds, Right
    <3>4. rsp.source \in Nat /\ rsp'.source = rsp.source
      BY <1>3, <1>12 DEF AnswerType, Holds
    <3>5. Before(seen', rsp'.source, ctl.source)
      BY <1>2, <1>4, <1>10, <1>12, <3>1, <3>4, BeforeLater DEF Holds
    <3>6. \A i \in 1 .. Len(coming) : Before(seen, coming[i].source, rsp.source)
      BY <2>1, <2>2 DEF Order, Chain
    <3>7. \A i \in 1 .. Len(coming') : Before(seen', coming'[i].source, rsp'.source)
      BY <1>2, <1>4, <1>7, <2>1, <3>2, <3>4, <3>6, BeforeLater
    <3> QED
      BY <3>3, <3>5, <3>7
  <2>3. Chain'
    BY <1>8, <2>2 DEF Chain
  <2>4. Stage'
    BY <1>1, <1>2, <1>4, <1>10, <1>12, <2>2
       DEF Order, Stage, Holds, SameRequest, Twice, Extends
  <2> QED
    BY <1>1, <1>5, <1>6, <2>3, <2>4 DEF Order
<1>13. CASE Responds
  <2>1. rsp'.source = ctl.source /\ ctl.inRsp
    BY <1>13 DEF Responds
  <2>2. Right(seen', clean', rsp')
    BY <1>1, <1>2, <1>4, <1>10, <1>13 DEF Responds, Right, Order, Stage, Extends, Twice
  <2>3. Chain'
    BY <1>8, <1>10, <2>1, <2>2 DEF Chain
  <2>4. ASSUME ctl'.inRsp PROVE Twice(seen', ctl.source)
    BY <1>10, <1>13, <2>4 DEF Responds, Order, Stage, Twice
  <2>5. Stage'
    BY <1>1, <1>2, <1>4, <1>10, <1>13, <2>1, <2>4
       DEF Order, Stage, Responds, SameRequest, Before, Extends
  <2> QED
    BY <1>1, <1>5, <1>6, <2>3, <2>5 DEF Order
<1>14. CASE Takes
  <2>1. Chain'
    BY <1>8, <1>14 DEF Chain, Takes
  <2>2. Stage'
    <3> SUFFICES ASSUME ctl'.inRsp PROVE Stage'
      BY DEF Stage
    <3>1. /\ gpu.a.valid /\ ctl.ready /\ ctl'.rw = gpu.a.op /\ ctl'.addr = gpu.a.addr
          /\ ctl'.source = gpu.a.source /\ (gpu.a.op = 0 => ctl'.val = gpu.a.val)
      BY <1>14 DEF Takes
    <3>2. gpu.a.source = N + 1 /\ Len(seen') = N + 1 /\ seen'[N + 1] = gpu.a
      BY <1>4, <3>1 DEF Order
    <3>3. \A i \in 1 .. Len(coming') : Before(seen', coming'[i].source, N + 1)
      BY <1>2, <1>7, <1>8 DEF Before
    <3> QED
      BY <1>2, <1>14, <3>1, <3>2, <3>3 DEF Stage, Takes
  <2> QED
    BY <1>1, <1>5, <1>6, <2>1, <2>2 DEF Order
<1> QED
  BY <1>11, <1>12, <1>13, <1>14, FallingCases

LEMMA OrderStep == Typing /\ Order /\ [MCNext]_mcVars => Order'
<1>1. ASSUME Typing, Order, UNCHANGED mcVars PROVE Order'
  BY <1>1 DEF mcVars, Order, Chain, Stage, seen, coming, Waiting, Sent, Got
<1> QED
  BY <1>1, OrderRises, OrderFalls DEF MCNext

-----------------------------------------------------------------------------
(* The answers on their way, with the one that stands.                     *)
standing == IF rsp.valid THEN Append(coming, rsp) ELSE coming

(* A read of a behind the first n requests of S that gives v, when the     *)
(* first m answers of A were given before.                                 *)
Touching(S, n, a) == {k \in 1 .. n : S[k].op # 4 /\ S[k].addr = a}
Saw(S, A, m, n, a, v) ==
  (\A k \in Touching(S, n, a) : S[k].op = 0) =>
    \E w \in Touching(S, n, a) \cup {0} :
      /\ v = IF w = 0 THEN 0 ELSE S[w].val
      /\ \A j \in 1 .. m : A[j].source \in Touching(S, n, a) => A[j].source <= w
Read(S, A, i) ==
  S[A[i].source].op = 4 =>
    Saw(S, A, i - 1, A[i].source - 1, S[A[i].source].addr, A[i].val)

(* The requests whose writes may be in memory.                             *)
Reach == IF ctl.inRsp THEN ctl.source - 1 ELSE Len(seen)
Content ==
  clean => /\ \A i \in 1 .. Len(standing) : Read(seen, standing, i)
           /\ \A a \in Addrs : Saw(seen, standing, Len(standing), Reach, a, mem[a])

(* More requests, and answers that do not touch the address, make no       *)
(* difference.                                                             *)
LEMMA SawLater ==
  ASSUME NEW S, NEW T, Extends(S, T), NEW A, NEW B, NEW a, NEW v,
         NEW m1 \in Nat, NEW m2 \in Nat, NEW n1 \in Nat, NEW n2 \in Nat,
         n1 <= Len(S), n1 <= n2, Len(S) \in Nat,
         Saw(S, A, m1, n1, a, v),
         \A j \in 1 .. m2 : B[j].source \in Touching(T, n2, a) =>
            B[j].source \in 1 .. n1 /\ \E i \in 1 .. m1 : A[i].source = B[j].source
  PROVE  Saw(T, B, m2, n2, a, v)
<1>1. \A k \in 1 .. n1 : T[k] = S[k]
  BY DEF Extends
<1>2. \A k : k \in Touching(S, n1, a) <=> k \in 1 .. n1 /\ k \in Touching(T, n2, a)
  BY <1>1 DEF Touching
<1> SUFFICES ASSUME \A k \in Touching(T, n2, a) : T[k].op = 0
             PROVE  \E w \in Touching(T, n2, a) \cup {0} :
                      /\ v = IF w = 0 THEN 0 ELSE T[w].val
                      /\ \A j \in 1 .. m2 : B[j].source \in Touching(T, n2, a) => B[j].source <= w
  BY DEF Saw
<1>3. \A k \in Touching(S, n1, a) : S[k].op = 0
  BY <1>1, <1>2
<1>4. PICK w \in Touching(S, n1, a) \cup {0} :
         /\ v = IF w = 0 THEN 0 ELSE S[w].val
         /\ \A j \in 1 .. m1 : A[j].source \in Touching(S, n1, a) => A[j].source <= w
  BY <1>3 DEF Saw
<1>5. w \in Touching(T, n2, a) \cup {0} /\ (w # 0 => T[w] = S[w])
  BY <1>1, <1>2, <1>4
<1>6. \A j \in 1 .. m2 : B[j].source \in Touching(T, n2, a) => B[j].source <= w
  BY <1>2, <1>4
<1> QED
  BY <1>4, <1>5, <1>6

LEMMA ReadLater ==
  ASSUME NEW S, NEW T, Extends(S, T), NEW A, NEW B, NEW i \in Nat \ {0},
         Len(S) \in Nat, A[i].source \in 1 .. Len(S), Read(S, A, i),
         \A j \in 1 .. i : B[j].source = A[j].source,
         B[i].val = A[i].val
  PROVE  Read(T, B, i)
<1> DEFINE s == A[i].source
<1>1. B[i].source = s /\ T[s] = S[s]
  BY DEF Extends
<1> SUFFICES ASSUME S[s].op = 4
             PROVE  Saw(T, B, i - 1, s - 1, S[s].addr, A[i].val)
  BY <1>1 DEF Read
<1>2. Saw(S, A, i - 1, s - 1, S[s].addr, A[i].val)
  BY DEF Read
<1>3. /\ s - 1 \in Nat /\ s - 1 <= Len(S) /\ i - 1 \in Nat /\ s - 1 <= s - 1
      /\ \A j \in 1 .. i - 1 : B[j].source = A[j].source
  OBVIOUS
<1>4. \A j \in 1 .. i - 1 : B[j].source \in Touching(T, s - 1, S[s].addr) =>
        B[j].source \in 1 .. s - 1 /\ \E k \in 1 .. i - 1 : A[k].source = B[j].source
  BY <1>3 DEF Touching
<1> DEFINE n == s - 1
           m == i - 1
           a == S[s].addr
           v == A[i].val
<1>5. /\ Saw(S, A, m, n, a, v) /\ n \in Nat /\ n <= Len(S) /\ n <= n /\ m \in Nat
      /\ \A j \in 1 .. m : B[j].source \in Touching(T, n, a) =>
           B[j].source \in 1 .. n /\ \E k \in 1 .. m : A[k].source = B[j].source
  BY <1>2, <1>3, <1>4
<1> HIDE DEF n, m, a, v
<1>6. Saw(T, B, m, n, a, v)
  BY <1>5, SawLater
<1> QED
  BY <1>6 DEF n, m, a, v

LEMMA StandingFacts ==
  ASSUME Typing, Order
  PROVE  /\ standing \in Seq(AnswerType) /\ Len(standing) \in Nat
         /\ Extends(coming, standing)
         /\ \A i \in 1 .. Len(standing) :
              /\ clean => standing[i].source \in 1 .. Len(seen)
              /\ ctl.inRsp => Before(seen, standing[i].source, ctl.source)
<1>1. /\ coming \in Seq(AnswerType) /\ rsp \in AnswerType /\ Len(coming) \in Nat /\ Len(seen) \in Nat
  BY SeenTyped DEF Typing
<1>2. /\ standing \in Seq(AnswerType) /\ Len(standing) \in Nat /\ Extends(coming, standing)
      /\ rsp.valid => Len(standing) = Len(coming) + 1 /\ standing[Len(standing)] = rsp
      /\ ~rsp.valid => standing = coming
  <2>1. CASE rsp.valid
    BY <1>1, <2>1, AppendExtends DEF standing
  <2>2. CASE ~rsp.valid
    BY <1>1, <2>2 DEF standing, Extends
  <2> QED
    BY <2>1, <2>2
<1>3. ASSUME NEW i \in 1 .. Len(standing)
      PROVE  \/ i \in 1 .. Len(coming) /\ standing[i] = coming[i]
             \/ rsp.valid /\ standing[i] = rsp
  BY <1>1, <1>2 DEF Extends
<1>4. ASSUME NEW i \in 1 .. Len(standing)
      PROVE  /\ Right(seen, clean, standing[i])
             /\ ctl.inRsp => Before(seen, standing[i].source, ctl.source)
  BY <1>3 DEF Order, Chain, Stage
<1>5. \A i \in 1 .. Len(standing) : standing[i].source \in Nat
  <2>1. \A i \in 1 .. Len(standing) : standing[i] \in AnswerType
    BY <1>2, ElementOfSeq
  <2> QED
    BY <2>1 DEF AnswerType
<1> QED
  BY <1>1, <1>2, <1>4, <1>5 DEF Right

LEMMA ContentInit == MCInit => Content
<1> SUFFICES ASSUME MCInit, clean PROVE Content
  BY DEF Content
<1>1. /\ clock = 0 /\ issued = << >> /\ answers = << >> /\ mem = [a \in Addrs |-> 0]
      /\ gpu = [a |-> NoRequest, dReady |-> TRUE, aReady |-> FALSE, d |-> NoAnswer]
  BY DEF MCInit
<1>2. PICK inRsp, ready, valid, sReqReady, sRspValid \in BOOLEAN,
           rw \in {0, 4, 1}, time \in 0 .. MaxGarbage :
        /\ ctl = [inRsp |-> inRsp, rw |-> rw, time |-> time, ready |-> ready,
                  sRspValid |-> sRspValid, sReqReady |-> sReqReady,
                  addr |-> NoRequest.addr, val |-> 0, source |-> 0]
        /\ rsp = [NoAnswer EXCEPT !.valid = valid]
        /\ clean = (~inRsp /\ ~valid /\ (time = 0 \/ ~ready))
  BY DEF MCInit
<1>3. ~ctl.inRsp /\ ~rsp.valid
  BY <1>2 DEF NoAnswer
<1>4. seen = << >> /\ coming = << >>
  BY <1>1 DEF seen, coming, Sent, Got, NoRequest, NoAnswer
<1>5. standing = << >> /\ Len(standing) = 0 /\ Reach = 0
  BY <1>3, <1>4 DEF standing, Reach
<1>6. \A a \in Addrs : Saw(seen, standing, 0, 0, a, mem[a])
  BY <1>1 DEF Saw, Touching
<1> QED
  BY <1>5, <1>6 DEF Content

LEMMA ContentRises == Typing /\ Content /\ RisingEdge => Content'
<1> SUFFICES ASSUME Typing, Content, RisingEdge PROVE Content'
  OBVIOUS
<1>1. /\ seen' = seen /\ coming' = coming /\ rsp' = rsp /\ mem' = mem /\ clean' = clean
      /\ ctl'.inRsp = ctl.inRsp /\ SameRequest
  BY RisingSeen
<1>2. standing' = standing /\ Reach' = Reach
  BY <1>1 DEF standing, Reach, SameRequest
<1> QED
  BY <1>1, <1>2 DEF Content

(* The answers that stand after a falling edge: those that stood before,   *)
(* and a new one when the response stage answers.                          *)
LEMMA StandingFalls ==
  ASSUME Typing, Order, FallingEdge
  PROVE  /\ Len(standing') \in Nat
         /\ Responds => Len(standing') = Len(standing) + 1 /\ standing'[Len(standing')] = rsp'
         /\ \A i \in 1 .. Len(standing') :
              \/ /\ i \in 1 .. Len(standing)
                 /\ standing'[i].source = standing[i].source /\ standing'[i].val = standing[i].val
              \/ Responds /\ i = Len(standing')
<1> DEFINE L == Len(standing)
<1>1. /\ coming \in Seq(AnswerType) /\ rsp \in AnswerType /\ rsp' \in AnswerType
      /\ Len(coming) \in Nat /\ L \in Nat
      /\ rsp.valid => L = Len(coming) + 1 /\ standing[L] = rsp
      /\ ~rsp.valid => standing = coming
      /\ \A i \in 1 .. Len(coming) : standing[i] = coming[i]
  <2>1. rsp.valid => L = Len(coming) + 1 /\ standing[L] = rsp
    BY SeenTyped, AppendExtends DEF Typing, standing
  <2> QED
    BY <2>1, SeenTyped, FallingTyped, StandingFacts DEF Typing, standing, Extends
<1>2. /\ coming' \in Seq(AnswerType) /\ Len(coming') \in Nat
      /\ rsp.valid /\ gpu.dReady => coming' = standing
      /\ ~(rsp.valid /\ gpu.dReady) => coming' = coming
  <2>1. coming' \in Seq(AnswerType) /\ Len(coming') \in Nat
    BY FallingSeen, LenProperties
  <2>2. clock = 1 /\ clock' = 0 /\ gpu'.d = rsp /\ gpu'.dReady = gpu.dReady /\ answers' = answers
    BY FallingFacts
  <2>3. coming' = IF rsp.valid /\ gpu.dReady THEN Append(answers, rsp) ELSE answers
    BY <2>2 DEF coming, Got
  <2>4. coming = answers
    BY <2>2 DEF coming
  <2> QED
    BY <2>1, <2>3, <2>4 DEF standing
<1>3. /\ ~rsp'.valid => standing' = coming'
      /\ rsp'.valid => /\ Len(standing') = Len(coming') + 1 /\ standing'[Len(standing')] = rsp'
                       /\ \A i \in 1 .. Len(coming') : standing'[i] = coming'[i]
  BY <1>1, <1>2, AppendExtends DEF standing, Extends
<1>4. Len(standing') \in Nat
  BY <1>2, <1>3
<1>5. ASSUME NEW i \in 1 .. Len(coming') PROVE i \in 1 .. L /\ coming'[i] = standing[i]
  BY <1>1, <1>2
<1>6. CASE Counts \/ Takes
  <2>1. ~rsp'.valid /\ ~Responds
    BY <1>6 DEF Counts, Takes, Responds
  <2> QED
    BY <1>3, <1>4, <1>5, <2>1
<1>7. CASE Holds
  <2>1. /\ coming' = coming /\ ~Responds /\ (rsp'.valid => rsp.valid)
        /\ rsp'.source = rsp.source /\ rsp'.val = rsp.val
    BY <1>2, <1>7, FallingFacts DEF Holds, Responds, Order
  <2> QED
    BY <1>1, <1>3, <1>4, <1>5, <2>1
<1>8. CASE Responds
  <2>1. coming' = standing
    BY <1>1, <1>2, <1>8 DEF Responds
  <2>2. rsp'.valid
    BY <1>8 DEF Responds
  <2> QED
    BY <1>1, <1>3, <1>4, <1>5, <1>8, <2>1, <2>2
<1> QED
  BY <1>6, <1>7, <1>8, FallingCases

LEMMA ContentFalls == Typing /\ Order /\ Content /\ FallingEdge => Content'
<1> SUFFICES ASSUME Typing, Order, Content, FallingEdge, clean' PROVE Content'
  BY DEF Content
<1> DEFINE N == Len(seen)
           L == Len(standing)
           s == ctl.source
<1>1. clean
  BY FallingFacts
<1>2. /\ Extends(seen, seen') /\ N \in Nat /\ Len(seen') \in Nat /\ N <= Len(seen')
  BY SeenTyped, FallingSeen, LenProperties DEF Extends
<1>3. /\ \A i \in 1 .. L : Read(seen, standing, i) /\ standing[i].source \in 1 .. N
      /\ \A a \in Addrs : Saw(seen, standing, L, Reach, a, mem[a])
      /\ L \in Nat
  BY <1>1, StandingFacts DEF Content
<1>4. /\ Len(standing') \in Nat
      /\ Responds => Len(standing') = L + 1 /\ standing'[Len(standing')] = rsp'
      /\ \A i \in 1 .. Len(standing') :
           \/ /\ i \in 1 .. L
              /\ standing'[i].source = standing[i].source /\ standing'[i].val = standing[i].val
           \/ Responds /\ i = Len(standing')
  BY StandingFalls
<1>5. ASSUME ctl.inRsp
      PROVE  /\ s \in 1 .. N /\ Reach = s - 1 /\ seen'[s] = seen[s] /\ ctl.addr = seen[s].addr
             /\ \/ ctl.rw = seen[s].op /\ (ctl.rw = 0 => ctl.val = seen[s].val)
                \/ ctl.rw = 0 /\ Twice(seen, s)
             /\ \A i \in 1 .. L : \/ standing[i].source \in 1 .. s - 1
                                  \/ standing[i].source = s /\ Twice(seen, s)
  <2>1. ctl.source \in Nat
    BY DEF Typing, RegisterType
  <2>2. s \in 1 .. N
    BY <1>1, <1>2, <1>5, <2>1 DEF Order, Stage
  <2>3. Reach = s - 1 /\ seen'[s] = seen[s]
    BY <1>2, <1>5, <2>2 DEF Reach, Extends
  <2>4. \A i \in 1 .. L : Before(seen, standing[i].source, s)
    BY <1>5, StandingFacts
  <2>5. \A i \in 1 .. L : \/ standing[i].source \in 1 .. s - 1
                          \/ standing[i].source = s /\ Twice(seen, s)
    BY <1>2, <1>3, <2>2, <2>4 DEF Before
  <2> QED
    BY <1>5, <2>2, <2>3, <2>5 DEF Order, Stage
<1>6. ASSUME NEW i \in 1 .. Len(standing'), i \in 1 .. L,
             \A j \in 1 .. i : j \in 1 .. L /\ standing'[j].source = standing[j].source,
             standing'[i].val = standing[i].val
      PROVE  Read(seen', standing', i)
  BY <1>2, <1>3, <1>6, ReadLater
<1>7. ASSUME NEW i \in 1 .. Len(standing'), ~(Responds /\ i = Len(standing'))
      PROVE  Read(seen', standing', i)
  <2>1. i \in 1 .. L /\ standing'[i].val = standing[i].val
    BY <1>4, <1>7
  <2>2. \A j \in 1 .. i : j \in 1 .. L /\ standing'[j].source = standing[j].source
    BY <1>3, <1>4, <1>7, <2>1
  <2> QED
    BY <1>6, <2>1, <2>2
<1>8. CASE ~Responds
  <2>1. mem' = mem
    BY <1>8, FallingCases DEF Counts, Holds, Takes
  <2>2. /\ Reach \in Nat /\ Reach' \in Nat /\ Reach <= N /\ Reach <= Reach'
        /\ \A i \in 1 .. L : standing[i].source \in 1 .. Reach' => standing[i].source \in 1 .. Reach
    <3>1. CASE ctl.inRsp
      <4>1. Reach' = Reach /\ Reach = s - 1
        BY <1>5, <1>8, <3>1, FallingCases DEF Counts, Holds, Takes, Reach, SameRequest
      <4> QED
        BY <1>2, <1>5, <3>1, <4>1
    <3>2. CASE ~ctl.inRsp
      <4>1. Reach = N
        BY <3>2 DEF Reach
      <4>2. Reach' \in Nat /\ N <= Reach'
        <5>1. CASE ~ctl'.inRsp
          BY <1>2, <5>1 DEF Reach
        <5>2. CASE ctl'.inRsp
          <6>1. Takes
            BY <3>2, <5>2, FallingCases DEF Counts, Holds, Responds
          <6>2. gpu.a.valid /\ ctl'.source = gpu.a.source
            BY <5>2, <6>1 DEF Takes
          <6>3. ctl'.source = N + 1
            BY <6>2, FallingSeen DEF Order
          <6> QED
            BY <1>2, <5>2, <6>3 DEF Reach
        <5> QED
          BY <5>1, <5>2
      <4> QED
        BY <1>2, <1>3, <4>1, <4>2
    <3> QED
      BY <3>1, <3>2
  <2>3. ASSUME NEW a \in Addrs
        PROVE  Saw(seen', standing', Len(standing'), Reach', a, mem'[a])
    <3> SUFFICES ASSUME NEW n2, n2 = Reach', NEW m2, m2 = Len(standing')
                 PROVE  Saw(seen', standing', m2, n2, a, mem'[a])
      OBVIOUS
    <3> DEFINE v == mem[a]
               n1 == Reach
    <3>1. Saw(seen, standing, L, n1, a, v) /\ n1 \in Nat /\ n1 <= N
      BY <1>3, <2>2, <2>3
    <3>2. \A j \in 1 .. m2 : standing'[j].source \in Touching(seen', n2, a) =>
            /\ standing'[j].source \in 1 .. n1
            /\ \E i \in 1 .. L : standing[i].source = standing'[j].source
      BY <1>4, <1>8, <2>2 DEF Touching
    <3>3. n2 \in Nat /\ m2 \in Nat /\ n1 <= n2
      BY <1>4, <2>2
    <3> HIDE DEF v, n1
    <3>4. Saw(seen', standing', m2, n2, a, v)
      BY <1>2, <1>3, <3>1, <3>2, <3>3, SawLater
    <3> QED
      BY <2>1, <3>4 DEF v
  <2> QED
    BY <1>7, <1>8, <2>3 DEF Content
<1>9. CASE Responds
  <2> DEFINE x == seen[s]
             M == Len(standing')
  <2>1. /\ ctl.inRsp /\ M = L + 1 /\ standing'[M] = rsp' /\ rsp'.source = s
        /\ ctl.rw = 4 => rsp'.val = mem[ctl.addr]
        /\ mem' = IF ctl.rw = 0 THEN [mem EXCEPT ![ctl.addr] = ctl.val] ELSE mem
        /\ ctl'.inRsp <=> ctl.rw \notin {0, 4}
        /\ ctl'.source = s
    BY <1>4, <1>9 DEF Responds, SameRequest
  <2>2. /\ s \in 1 .. N /\ Reach = s - 1 /\ seen'[s] = x /\ ctl.addr = x.addr
        /\ \/ ctl.rw = x.op /\ (ctl.rw = 0 => ctl.val = x.val)
           \/ ctl.rw = 0 /\ Twice(seen, s)
        /\ \A i \in 1 .. L : \/ standing[i].source \in 1 .. s - 1
                             \/ standing[i].source = s /\ Twice(seen, s)
    BY <1>5, <2>1
  <2>3. ctl.addr \in Addrs /\ mem \in [Addrs -> Data]
    BY DEF Typing, RegisterType
  <2>4. \A j \in 1 .. L : standing'[j].source = standing[j].source
    BY <1>3, <1>4, <2>1
  <2>5. Read(seen', standing', M)
    <3> SUFFICES ASSUME x.op = 4 PROVE Saw(seen', standing', L, s - 1, x.addr, rsp'.val)
      BY <1>3, <2>1, <2>2 DEF Read
    <3>1. rsp'.val = mem[x.addr] /\ x.addr \in Addrs
      BY <2>1, <2>2, <2>3 DEF Twice
    <3> DEFINE v == mem[x.addr]
               n == s - 1
               a == x.addr
    <3>2. Saw(seen, standing, L, n, a, v) /\ n \in Nat /\ n <= N /\ n <= n
      BY <1>2, <1>3, <2>2, <3>1
    <3>3. \A j \in 1 .. L : standing'[j].source \in Touching(seen', n, a) =>
            standing'[j].source \in 1 .. n /\ \E i \in 1 .. L : standing[i].source = standing'[j].source
      BY <2>4 DEF Touching
    <3> HIDE DEF v, n, a
    <3>4. Saw(seen', standing', L, n, a, v)
      BY <1>2, <1>3, <3>2, <3>3, SawLater
    <3> QED
      BY <3>1, <3>4 DEF v, n, a
  <2>6. ASSUME NEW a \in Addrs
        PROVE  Saw(seen', standing', M, Reach', a, mem'[a])
    <3> SUFFICES ASSUME NEW n2, n2 = Reach' PROVE Saw(seen', standing', M, n2, a, mem'[a])
      OBVIOUS
    <3> DEFINE n == s - 1
    <3>1. /\ n \in Nat /\ n <= N /\ n2 \in Nat /\ n <= n2
          /\ ctl'.inRsp => n2 = n
          /\ ~ctl'.inRsp => s \in 1 .. n2
      BY <1>2, <2>1, <2>2 DEF Reach
    <3>2. M \in Nat /\ \A j \in 1 .. M : j \in 1 .. L \/ j = L + 1
      BY <1>3, <2>1
    <3>3. standing'[M].source = s
      BY <2>1
    (* The address the request writes or may have written.                 *)
    <3>4. CASE ctl.rw = 0 /\ a = x.addr
      <4>1. mem'[a] = ctl.val /\ ~ctl'.inRsp
        BY <2>1, <2>2, <2>3, <3>4
      <4>2. CASE x.op \notin {0, 4}
        <5>1. s \in Touching(seen', n2, a) /\ seen'[s].op # 0
          BY <2>2, <3>1, <3>4, <4>1, <4>2 DEF Touching
        <5> QED
          BY <5>1 DEF Saw
      <4>3. CASE x.op \in {0, 4}
        <5>1. x.op = 0 /\ ctl.val = x.val
          BY <2>2, <3>1, <3>4, <4>3 DEF Twice
        <5>2. s \in Touching(seen', n2, a) /\ s # 0
          BY <2>2, <3>1, <3>4, <4>1, <5>1 DEF Touching
        <5>3. \A j \in 1 .. M : standing'[j].source <= s
          BY <2>2, <2>4, <3>2, <3>3
        <5> QED
          BY <2>2, <4>1, <5>1, <5>2, <5>3 DEF Saw
      <4> QED
        BY <4>2, <4>3
    (* Any other address, or a pass that does not write.                   *)
    <3>5. CASE ~(ctl.rw = 0 /\ a = x.addr)
      <4> DEFINE v == mem[a]
      <4>1. mem'[a] = v
        BY <2>1, <2>2, <2>3, <3>5
      <4>2. Saw(seen, standing, L, n, a, v)
        BY <1>3, <2>2
      <4>3. s \notin Touching(seen', n2, a)
        <5>1. CASE ctl'.inRsp
          BY <2>2, <3>1, <5>1 DEF Touching
        <5>2. CASE ~ctl'.inRsp /\ ctl.rw = 4
          BY <2>2, <5>2 DEF Touching
        <5>3. CASE ~ctl'.inRsp /\ ctl.rw = 0
          BY <2>2, <3>5, <5>3 DEF Touching
        <5> QED
          BY <2>1, <5>1, <5>2, <5>3
      <4>4. \A j \in 1 .. M : standing'[j].source \in Touching(seen', n2, a) =>
              /\ standing'[j].source \in 1 .. n
              /\ \E i \in 1 .. L : standing[i].source = standing'[j].source
        BY <2>2, <2>4, <3>2, <3>3, <2>1, <4>3
      <4> HIDE DEF v, n
      <4>5. Saw(seen', standing', M, n2, a, v)
        BY <1>2, <1>3, <3>1, <3>2, <4>2, <4>4, SawLater
      <4> QED
        BY <4>1, <4>5 DEF v
    <3> QED
      BY <3>4, <3>5
  <2> QED
    BY <1>7, <2>5, <2>6 DEF Content
<1> QED
  BY <1>8, <1>9

LEMMA ContentStep == Typing /\ Order /\ Content /\ [MCNext]_mcVars => Content'
<1>1. ASSUME Content, UNCHANGED mcVars PROVE Content'
  BY <1>1 DEF mcVars, Content, standing, Reach, seen, coming, Sent, Got
<1> QED
  BY <1>1, ContentRises, ContentFalls DEF MCNext

-----------------------------------------------------------------------------
(* What was taken was issued before.                                       *)
Taken == \A i \in 1 .. Len(answers) : answers[i].source <= Len(issued)

LEMMA TakenStep == Typing /\ Order /\ Taken /\ [MCNext]_mcVars => Taken'
<1>1. ASSUME Typing, Order, RisingEdge PROVE Taken'
  <2>1. seen = issued' /\ coming = answers' /\ Len(seen) \in Nat
    BY <1>1, RisingSeen, SeenTyped
  <2>2. \A i \in 1 .. Len(coming) : coming[i].source <= Len(seen)
    BY <1>1, <2>1 DEF Order, Chain, Right
  <2> QED
    BY <2>1, <2>2 DEF Taken
<1>2. ASSUME Typing, Taken, FallingEdge PROVE Taken'
  BY <1>2, FallingFacts DEF Taken
<1>3. ASSUME Taken, UNCHANGED mcVars PROVE Taken'
  BY <1>3 DEF Taken, mcVars
<1> QED
  BY <1>1, <1>2, <1>3 DEF MCNext

LEMMA IssuedSeen ==
  ASSUME Typing
  PROVE  Extends(issued, seen) /\ Extends(answers, coming) /\ Len(issued) \in Nat /\ Len(answers) \in Nat
<1>1. /\ issued \in Seq(RequestType) /\ gpu.a \in RequestType
      /\ answers \in Seq(AnswerType) /\ gpu.d \in AnswerType
  BY DEF Typing, DeviceType
<1>2. Extends(issued, issued) /\ Extends(answers, answers) /\ Len(issued) \in Nat /\ Len(answers) \in Nat
  BY <1>1, LenProperties DEF Extends
<1>3. Extends(issued, Append(issued, gpu.a)) /\ Extends(answers, Append(answers, gpu.d))
  BY <1>1, AppendExtends
<1> QED
  BY <1>2, <1>3 DEF seen, coming

-----------------------------------------------------------------------------
(* With a polite device and a clean start nothing is lost: what was seen   *)
(* was answered, but for one request that stands in the response stage or  *)
(* behind it.                                                              *)
Manners ==
  clean /\ polite =>
    /\ gpu.dReady /\ (ctl.time # 0 => ~ctl.ready)
    /\ \A i \in 1 .. Len(coming) : coming[i].source = i
    /\ rsp.valid => rsp.source = Len(coming) + 1 /\ ~ctl.inRsp
    /\ ctl.inRsp => ctl.source = Len(coming) + 1 /\ ctl.rw \in {0, 4}
    /\ Len(seen) = IF rsp.valid \/ ctl.inRsp THEN Len(coming) + 1 ELSE Len(coming)
    /\ Waiting => Len(coming) = Len(seen) /\ gpu.a.op \in {0, 4}

LEMMA MannersInit == MCInit => Manners
<1> SUFFICES ASSUME MCInit, clean PROVE Manners
  BY DEF Manners
<1>1. /\ clock = 0 /\ issued = << >> /\ answers = << >>
      /\ gpu = [a |-> NoRequest, dReady |-> TRUE, aReady |-> FALSE, d |-> NoAnswer]
  BY DEF MCInit
<1>2. PICK inRsp, ready, valid, sReqReady, sRspValid \in BOOLEAN,
           rw \in {0, 4, 1}, time \in 0 .. MaxGarbage :
        /\ ctl = [inRsp |-> inRsp, rw |-> rw, time |-> time, ready |-> ready,
                  sRspValid |-> sRspValid, sReqReady |-> sReqReady,
                  addr |-> NoRequest.addr, val |-> 0, source |-> 0]
        /\ rsp = [NoAnswer EXCEPT !.valid = valid]
        /\ clean = (~inRsp /\ ~valid /\ (time = 0 \/ ~ready))
  BY DEF MCInit
<1>3. ~ctl.inRsp /\ ~rsp.valid /\ (ctl.time # 0 => ~ctl.ready)
  BY <1>2 DEF NoAnswer
<1>4. seen = << >> /\ coming = << >> /\ ~Waiting
  BY <1>1 DEF seen, coming, Waiting, Sent, Got, NoRequest, NoAnswer
<1>5. Len(seen) = 0 /\ Len(coming) = 0
  BY <1>4
<1> QED
  BY <1>1, <1>3, <1>4, <1>5 DEF Manners

LEMMA MannersRises == Typing /\ Manners /\ RisingEdge => Manners'
<1> SUFFICES ASSUME Typing, Manners, RisingEdge, clean', polite' PROVE Manners'
  BY DEF Manners
<1>1. /\ seen' = seen /\ coming' = coming /\ rsp' = rsp /\ clean' = clean /\ SameRequest
      /\ ctl'.inRsp = ctl.inRsp /\ ctl'.rw = ctl.rw
      /\ ctl'.time = ctl.time /\ ctl'.ready = ctl.ready
      /\ Waiting' => \/ Waiting /\ gpu'.a = gpu.a
                     \/ Len(coming) = Len(seen) /\ gpu'.a.op \in {0, 4}
  BY RisingSeen
<1>2. clean /\ polite /\ gpu'.dReady
  BY <1>1, RisingFacts
<1> QED
  BY <1>1, <1>2 DEF Manners, SameRequest

LEMMA MannersFalls == Typing /\ Order /\ Manners /\ FallingEdge => Manners'
<1> SUFFICES ASSUME Typing, Order, Manners, FallingEdge, clean', polite' PROVE Manners'
  BY DEF Manners
<1> DEFINE N == Len(seen)
           C == Len(coming)
<1>1. clean /\ polite /\ gpu'.a = gpu.a /\ gpu'.dReady = gpu.dReady
  BY FallingFacts
<1>2. /\ gpu.dReady /\ (ctl.time # 0 => ~ctl.ready)
      /\ \A i \in 1 .. C : coming[i].source = i
      /\ rsp.valid => rsp.source = C + 1 /\ ~ctl.inRsp
      /\ ctl.inRsp => ctl.source = C + 1 /\ ctl.rw \in {0, 4}
      /\ N = IF rsp.valid \/ ctl.inRsp THEN C + 1 ELSE C
      /\ gpu.a.valid => C = N /\ gpu.a.op \in {0, 4}
  BY <1>1, FallingSeen DEF Manners
<1>3. N \in Nat /\ C \in Nat
  BY SeenTyped
<1>4. /\ gpu.a.valid => ~rsp.valid /\ ~ctl.inRsp
  BY <1>2, <1>3
<1>5. /\ gpu.a.valid /\ ctl.ready => Len(seen') = N + 1 /\ ~Waiting'
      /\ ~(gpu.a.valid /\ ctl.ready) => seen' = seen
      /\ Waiting' => gpu.a.valid
      /\ gpu.a.valid => gpu.a.source = N + 1
      /\ rsp.valid => Len(coming') = C + 1 /\ coming'[C + 1] = rsp
      /\ ~rsp.valid => coming' = coming
      /\ \A i \in 1 .. C : coming'[i] = coming[i]
  BY <1>2, <1>3, FallingSeen DEF Order, Extends
<1>6. \A i \in 1 .. Len(coming') : coming'[i].source = i
  BY <1>2, <1>3, <1>5
<1>7. CASE Counts
  <2>1. ~rsp'.valid /\ ~ctl'.ready /\ ctl'.inRsp = ctl.inRsp /\ ctl'.rw = ctl.rw
        /\ ctl'.source = ctl.source /\ ~ctl.ready
    BY <1>2, <1>7 DEF Counts, SameRequest
  <2> QED
    BY <1>1, <1>2, <1>3, <1>4, <1>5, <1>6, <2>1 DEF Manners
<1>8. CASE Responds
  <2>1. /\ rsp'.valid /\ ~ctl'.inRsp /\ ctl.inRsp /\ ctl'.time = 0 /\ rsp'.source = ctl.source
    BY <1>2, <1>8 DEF Responds
  <2> QED
    BY <1>1, <1>2, <1>3, <1>4, <1>5, <1>6, <2>1 DEF Manners
<1>9. CASE Takes
  <2>1. /\ ~rsp'.valid /\ ~ctl.inRsp /\ ctl'.time = 0
        /\ ctl'.inRsp <=> gpu.a.valid /\ ctl.ready
        /\ ctl'.inRsp => ctl'.source = gpu.a.source /\ ctl'.rw = gpu.a.op
    BY <1>9 DEF Takes
  <2> QED
    BY <1>1, <1>2, <1>3, <1>4, <1>5, <1>6, <2>1 DEF Manners
<1>10. ~Holds
  BY <1>2 DEF Holds
<1> QED
  BY <1>7, <1>8, <1>9, <1>10, FallingCases

LEMMA MannersStep == Typing /\ Order /\ Manners /\ [MCNext]_mcVars => Manners'
<1>1. ASSUME Manners, UNCHANGED mcVars PROVE Manners'
  BY <1>1 DEF mcVars, Manners, seen, coming, Waiting, Sent, Got
<1> QED
  BY <1>1, MannersRises, MannersFalls DEF MCNext

Protocol == Typing /\ Order /\ Content /\ Taken /\ Manners

LEMMA ProtocolHolds == MCSpec => []Protocol
<1>1. MCInit => Taken
  BY DEF MCInit, Taken
<1>2. MCInit => Protocol
  BY <1>1, TypingInit, OrderInit, ContentInit, MannersInit DEF Protocol
<1>3. Protocol /\ [MCNext]_mcVars => Protocol'
  BY TypingStep, OrderStep, ContentStep, TakenStep, MannersStep DEF Protocol
<1> QED
  BY <1>2, <1>3, PTL DEF MCSpec

(* memory.h:364-411 with processor.h:133-166: whatever the device does and *)
(* the registers hold at power-up, an answer is for a request the device   *)
(* saw taken, of its kind and in order, and no read or write is answered   *)
(* twice; a device with one request open that reads or writes whole words  *)
(* and keeps d_ready up loses nothing (AnswersMatch).                      *)
THEOREM EachAnswered == MCSpec => []AnswersMatch
<1>1. Protocol => AnswersMatch
  <2> SUFFICES ASSUME Protocol, NEW i \in 1 .. Len(answers)
               PROVE  LET s == answers[i].source
                      IN  /\ IF s = 0 THEN ~clean
                             ELSE /\ s <= Len(issued)
                                  /\ answers[i].op = IF issued[s].op = 4 THEN 1 ELSE 0
                          /\ \A j \in 1 .. i - 1 :
                               \/ answers[j].source < s
                               \/ answers[j].source = s /\ AnsweredTwice(s)
                          /\ clean /\ polite => s = i
    BY DEF AnswersMatch
  <2> DEFINE s == answers[i].source
  <2>1. /\ Extends(issued, seen) /\ Len(issued) \in Nat /\ Len(answers) \in Nat
        /\ i \in 1 .. Len(coming)
        /\ \A j \in 1 .. i : j \in 1 .. Len(answers) /\ coming[j] = answers[j]
    BY SeenTyped, IssuedSeen DEF Protocol, Extends
  <2>2. answers[i] \in AnswerType
    BY <2>1, ElementOfSeq DEF Protocol, Typing
  <2>3. s \in Nat /\ s <= Len(issued)
    BY <2>2 DEF Protocol, Taken, AnswerType
  <2>4. s # 0 => seen[s] = issued[s]
    BY <2>1, <2>3 DEF Extends
  <2>5. /\ Right(seen, clean, answers[i])
        /\ \A j \in 1 .. i - 1 : Before(seen, answers[j].source, s)
    BY <2>1 DEF Protocol, Order, Chain
  <2>6. clean /\ polite => s = i
    BY <2>1 DEF Protocol, Manners
  <2> QED
    BY <2>3, <2>4, <2>5, <2>6 DEF Right, Before, Twice, AnsweredTwice
<1> QED
  BY <1>1, ProtocolHolds, PTL

(* memory.h:378: a write reaches memory only in its response stage, and    *)
(* requests and answers may be lost; still a read is answered with an      *)
(* earlier write to its address, or 0, and no answered write lies between  *)
(* the two (ReadsSeeWrites).                                               *)
THEOREM ReadsInOrder == MCSpec => []ReadsSeeWrites
<1>1. Protocol => ReadsSeeWrites
  <2> SUFFICES ASSUME Protocol, clean, NEW i \in 1 .. Len(answers),
                      issued[answers[i].source].op = 4
               PROVE  Saw(issued, answers, i - 1, answers[i].source - 1,
                          issued[answers[i].source].addr, answers[i].val)
    BY DEF ReadsSeeWrites, Saw, Touching
  <2> DEFINE s == answers[i].source
  <2>1. /\ Extends(issued, seen) /\ Len(issued) \in Nat /\ Len(answers) \in Nat
        /\ i \in 1 .. Len(standing)
        /\ \A j \in 1 .. i : j \in 1 .. Len(answers) /\ standing[j] = answers[j]
    BY SeenTyped, IssuedSeen, StandingFacts DEF Protocol, Extends
  <2>2. s \in 1 .. Len(seen) /\ s <= Len(issued)
    BY <2>1, StandingFacts DEF Protocol, Taken
  <2>3. s \in 1 .. Len(issued) /\ \A k \in 1 .. s : seen[k] = issued[k]
    BY <2>1, <2>2 DEF Extends
  <2>4. Saw(seen, standing, i - 1, s - 1, issued[s].addr, answers[i].val)
    BY <2>1, <2>3 DEF Protocol, Content, Read
  <2>5. Touching(seen, s - 1, issued[s].addr) = Touching(issued, s - 1, issued[s].addr)
    BY <2>3 DEF Touching
  <2>6. \A k \in Touching(issued, s - 1, issued[s].addr) : seen[k] = issued[k]
    BY <2>3 DEF Touching
  <2>7. \A j \in 1 .. i - 1 : standing[j] = answers[j]
    BY <2>1
  <2> HIDE DEF s
  <2> QED
    BY <2>4, <2>5, <2>6, <2>7 DEF Saw, s
<1> QED
  BY <1>1, ProtocolHolds, PTL
=============================================================================
