----------------------------- MODULE MemController ---------------------------
(***************************************************************************)
(* class MemController of src/device/memory.h and the port it sits behind, *)
(* Processor::get_ram_bits_port and eval of src/device/processor.h: the    *)
(* device's TileLink requests (channel A) and their answers (channel D),   *)
(* half a clock cycle per action.                                          *)
(*                                                                         *)
(* The device is external: it keeps a request up until it is taken, and    *)
(* may issue another before the answer (Pipelined), lower d_ready at any   *)
(* time (DropsReady) and use the opcodes given.  An address is translated  *)
(* when the port is copied, so the addresses here are physical.            *)
(*                                                                         *)
(* A request moves one word.  Left out with that: size, copied from the    *)
(* opcode (processor.h:148), and the overrun of the bundles, which have    *)
(* room for two words (memory.h:322) while eight are copied                *)
(* (processor.h:152).                                                      *)
(***************************************************************************)
EXTENDS Naturals, Sequences, FiniteSets

CONSTANTS
  Addrs, Data,   \* physical addresses and words; 0 \in Data
  Opcodes,       \* 4 is a read (Get), 0 a full write (PutFullData)
  Pipelined, DropsReady,
  MaxRequests,   \* bound: requests the device makes
  MaxGarbage     \* bound: value found in m_time_remain_

ASSUME ControllerAssumption ==
  /\ 0 \in Data /\ Addrs # {}
  /\ Opcodes \subseteq 0 .. 7
  /\ Pipelined \in BOOLEAN /\ DropsReady \in BOOLEAN
  /\ MaxRequests \in Nat /\ MaxGarbage \in Nat

VARIABLES
  clock,   \* the device clock, 0 or 1
  req,     \* m_req_ as last copied: valid, op, addr, val and source
  rsp,     \* m_rsp_: ready as last copied; valid, op, val and source
  ctl,     \* the registers of the controller
  mem,     \* the words behind write_phy and read_phy
  gpu,     \* device: its request and d_ready, the a_ready and D it was given
  issued,  \* requests the device saw taken, in order
  answers, \* answers the device took, in order
  clean,   \* history: the uninitialised registers held nothing that matters
  polite   \* history: the device so far had one request open, read or
           \* wrote whole words and kept d_ready up

mcVars == <<clock, req, rsp, ctl, mem, gpu, issued, answers, clean, polite>>

NoRequest == [valid |-> FALSE, op |-> 0, addr |-> CHOOSE a \in Addrs : TRUE,
              val |-> 0, source |-> 0]
NoAnswer == [valid |-> FALSE, op |-> 0, val |-> 0, source |-> 0]

-----------------------------------------------------------------------------
(* Nothing calls reset(), and the constructor sets none of the registers.  *)
(* Source 0 stands for whatever the source registers hold: no request has  *)
(* it.                                                                     *)
MCInit ==
  /\ clock = 0
  /\ req = NoRequest
  /\ \E inRsp, ready, valid, sReqReady, sRspValid \in BOOLEAN,
        rw \in {0, 4, 1}, time \in 0 .. MaxGarbage :
       /\ ctl = [inRsp |-> inRsp, rw |-> rw, time |-> time, ready |-> ready,
                 sRspValid |-> sRspValid, sReqReady |-> sReqReady,
                 addr |-> NoRequest.addr, val |-> 0, source |-> 0]
       /\ rsp = [NoAnswer EXCEPT !.valid = valid]
       /\ clean = (~inRsp /\ ~valid /\ (time = 0 \/ ~ready))
  /\ mem = [a \in Addrs |-> 0]
  /\ gpu = [a |-> NoRequest, dReady |-> TRUE, aReady |-> FALSE, d |-> NoAnswer]
  /\ issued = << >> /\ answers = << >>
  /\ polite = TRUE

(* eval with clk = 0.  c, q, r are the registers, the request as copied    *)
(* and the answer as it stands; every case answers <<ctl, rsp, mem>>.      *)
(* Waiting out m_time_remain_: neither side is offered anything.           *)
CountDown(c, r) ==
  << [c EXCEPT !.time = @ - 1, !.ready = FALSE], [r EXCEPT !.valid = FALSE], mem >>

(* Seeded bugs: the source is written instead of the value; the response   *)
(* stage is not left; the answer is not shown.                             *)
RespondStoringSource(c, r, dReady) ==
  << [c EXCEPT !.inRsp = FALSE, !.rw = 0, !.ready = TRUE, !.sRspValid = TRUE, !.sReqReady = TRUE],
     [valid |-> TRUE, source |-> c.source, op |-> IF c.rw = 4 THEN 1 ELSE 0,
      val |-> IF c.rw = 4 THEN mem[c.addr] ELSE r.val],
     IF c.rw = 0 THEN [mem EXCEPT ![c.addr] = c.source] ELSE mem >>

RespondForEver(c, r, dReady) ==
  << [c EXCEPT !.ready = TRUE, !.sRspValid = TRUE, !.sReqReady = TRUE],
     [valid |-> TRUE, source |-> c.source, op |-> IF c.rw = 4 THEN 1 ELSE 0,
      val |-> IF c.rw = 4 THEN mem[c.addr] ELSE r.val],
     IF c.rw = 0 THEN [mem EXCEPT ![c.addr] = c.val] ELSE mem >>

RespondUnseen(c, r, dReady) ==
  << [c EXCEPT !.inRsp = FALSE, !.rw = 0, !.ready = TRUE, !.sReqReady = TRUE],
     [r EXCEPT !.valid = FALSE],
     IF c.rw = 0 THEN [mem EXCEPT ![c.addr] = c.val] ELSE mem >>

(* Answer, if the device was ready when the port was copied.  An opcode    *)
(* that is neither leaves m_in_rsp_ set; m_rw_ is 0 from then on.          *)
Respond(c, r, dReady) ==
  IF ~dReady
  THEN << [c EXCEPT !.ready = c.sReqReady], [r EXCEPT !.valid = c.sRspValid], mem >>
  ELSE << [c EXCEPT !.inRsp = c.rw \notin {0, 4}, !.rw = 0, !.ready = TRUE,
                    !.sRspValid = TRUE, !.sReqReady = TRUE],
          [valid |-> TRUE, source |-> c.source,
           op |-> IF c.rw = 4 THEN 1 ELSE 0,
           val |-> IF c.rw = 4 THEN mem[c.addr] ELSE r.val],
          IF c.rw = 0 THEN [mem EXCEPT ![c.addr] = c.val] ELSE mem >>

(* Seeded bug: the value is not latched.                                   *)
AcceptWithoutValue(c, r, q) ==
  LET idle == [c EXCEPT !.ready = TRUE, !.sReqReady = TRUE, !.sRspValid = FALSE]
  IN  << IF q.valid /\ c.ready
         THEN [idle EXCEPT !.inRsp = TRUE, !.rw = q.op, !.addr = q.addr, !.source = q.source]
         ELSE idle,
         [r EXCEPT !.valid = FALSE], mem >>

(* Take a request if there is one and ready was up; ready stays up.        *)
Accept(c, r, q) ==
  LET idle == [c EXCEPT !.ready = TRUE, !.sReqReady = TRUE, !.sRspValid = FALSE]
  IN  << IF q.valid /\ c.ready
         THEN [idle EXCEPT !.inRsp = TRUE, !.rw = q.op, !.addr = q.addr, !.source = q.source,
                           !.val = IF q.op = 0 THEN q.val ELSE @]
         ELSE idle,
         [r EXCEPT !.valid = FALSE], mem >>

(* Processor::eval while the clock is high: copy the ports both ways, let  *)
(* the clock fall, then the controller.                                    *)
FallingEdge ==
  /\ clock = 1
  /\ clock' = 0
  /\ req' = gpu.a
  /\ gpu' = [gpu EXCEPT !.aReady = ctl.ready, !.d = rsp]
  /\ LET next == IF ctl.time # 0 THEN CountDown(ctl, rsp)
                 ELSE IF ctl.inRsp THEN Respond(ctl, rsp, gpu.dReady)
                 ELSE Accept(ctl, rsp, gpu.a)
     IN  ctl' = next[1] /\ rsp' = next[2] /\ mem' = next[3]
  /\ UNCHANGED <<issued, answers, clean, polite>>

(* The clock rises: the device closes its handshakes with what it was      *)
(* given and sets its outputs; the controller samples its own outputs.     *)
NextRequests(asked, open) ==
  IF asked < MaxRequests /\ (Pipelined \/ ~open)
  THEN {r \in [valid : {TRUE}, op : Opcodes, addr : Addrs, val : Data, source : {asked + 1}] :
          r.op = 0 \/ r.val = 0}
  ELSE {}

RisingEdge ==
  LET sent == gpu.a.valid /\ gpu.aReady
      got == gpu.d.valid /\ gpu.dReady
      held == gpu.a.valid /\ ~sent
  IN  /\ clock = 0
      /\ clock' = 1
      /\ issued' = IF sent THEN Append(issued, gpu.a) ELSE issued
      /\ answers' = IF got THEN Append(answers, gpu.d) ELSE answers
      /\ \E a \in IF held THEN {gpu.a}
                  ELSE {NoRequest} \cup NextRequests(Len(issued'), Len(answers') < Len(issued')),
            dReady \in IF DropsReady THEN BOOLEAN ELSE {TRUE} :
           /\ gpu' = [gpu EXCEPT !.a = a, !.dReady = dReady]
           /\ polite' = /\ polite /\ dReady
                        /\ a.valid /\ ~held => /\ Len(answers') = Len(issued')
                                              /\ a.op \in {0, 4}
      /\ ctl' = [ctl EXCEPT !.sRspValid = rsp.valid, !.sReqReady = ctl.ready]
      /\ UNCHANGED <<req, rsp, mem, clean>>

MCNext == FallingEdge \/ RisingEdge

MCSpec == MCInit /\ [][MCNext]_mcVars
MCFairSpec == MCSpec /\ WF_mcVars(FallingEdge) /\ WF_mcVars(RisingEdge)

-----------------------------------------------------------------------------
(* Registers and ports are well typed.                                     *)
MCTypeOK ==
  /\ clock \in {0, 1} /\ clean \in BOOLEAN /\ polite \in BOOLEAN
  /\ req.addr \in Addrs /\ ctl.addr \in Addrs /\ ctl.time \in 0 .. MaxGarbage
  /\ ctl.rw \in Opcodes \cup {0, 1, 4}
  /\ mem \in [Addrs -> Data]

(* An opcode the response stage does not know is answered in two passes    *)
(* (memory.h:371-382); what the registers held at power-up, source 0, may  *)
(* be answered more than once, too.                                        *)
AnsweredTwice(s) == s = 0 \/ issued[s].op \notin {0, 4}

(* Whatever the device does and the registers held (memory.h:364-411 with  *)
(* processor.h:133-166), an answer is for a request the device saw taken   *)
(* and of its kind, unless it is left over from power-up; answers come in  *)
(* the order of the requests, and no read or write is answered twice.  A   *)
(* device with one request open that keeps d_ready up gets the n-th answer *)
(* for its n-th request: nothing is lost.                                  *)
AnswersMatch ==
  \A i \in 1 .. Len(answers) :
    LET s == answers[i].source
    IN  /\ IF s = 0 THEN ~clean
           ELSE s <= Len(issued) /\ answers[i].op = IF issued[s].op = 4 THEN 1 ELSE 0
        /\ \A j \in 1 .. i - 1 :
             answers[j].source < s \/ (answers[j].source = s /\ AnsweredTwice(s))
        /\ clean /\ polite => s = i

(* A write reaches memory in its response stage only (memory.h:378), and a *)
(* request may go unseen or an answer be missed; still a read is answered  *)
(* with the value of an earlier write to its address, or 0, and no write   *)
(* that was answered lies between the two.                                 *)
ReadsSeeWrites ==
  clean => \A i \in 1 .. Len(answers) :
    LET s == answers[i].source
        touching == {k \in 1 .. s - 1 : issued[k].op # 4 /\ issued[k].addr = issued[s].addr}
    IN  issued[s].op = 4 /\ (\A k \in touching : issued[k].op = 0) =>
          \E w \in touching \cup {0} :
            /\ answers[i].val = IF w = 0 THEN 0 ELSE issued[w].val
            /\ \A j \in 1 .. i - 1 :
                 answers[j].source \in touching => answers[j].source <= w

(* A device with one request open that keeps d_ready up is answered in the *)
(* end, however often.                                                     *)
RequestsAnswered ==
  (clean /\ polite /\ Len(answers) < Len(issued)) ~> (Len(answers) = Len(issued) \/ ~polite)
=============================================================================
