------------------------------- MODULE CommLink -------------------------------
(***************************************************************************)
(* CommLink and MultLink, the link between the device tree and the         *)
(* hardware.  A caller queues a register access, a command, a transfer or  *)
(* the run command in the one slot there is for each kind and counts a     *)
(* request; the transmit thread (ioHandler) notices that the count is not  *)
(* the one it saw last and sends what the slot holds; the caller waits for *)
(* the count of answers to move.  A register behind mapped memory          *)
(* (MultDestMapped) is accessed by the transmit thread itself, one behind  *)
(* a DMA channel (MultDestAxis) by the firmware, whose answer the receive  *)
(* thread (rxHandler) matches with the request by its count.               *)
(*                                                                         *)
(* The slots and the counts are shared without a lock.  reqMutex_ admits   *)
(* one caller at a time, so the calls are one sequence.  The sizes of the  *)
(* registers, which queueRegister compares with maxRxTx_, the counters     *)
(* that are only displayed, and a map that could not be opened, to which   *)
(* every access is a success that does nothing, are left out.              *)
(***************************************************************************)
EXTENDS Integers, Sequences

CONSTANTS
  Mapped,     (* the registers behind mapped memory                        *)
  Remote,     (* the registers behind a DMA channel                        *)
  Values,     (* what a register may hold                                  *)
  Zero,       (* what the program has of a register at first               *)
  Ones,       (* the 0xFF that a failed read leaves behind                 *)
  Tries,      (* how often queueRegister tries: six times                  *)
  MaxCalls,   (* bound on the calls                                        *)
  Offered,    (* the kinds of requests that are made                       *)
  Faults      (* what may go wrong: "loss", "status"                       *)

ASSUME LinkAssumption ==
  /\ Mapped \intersect Remote = {} /\ Mapped \union Remote # {}
  /\ Zero \in Values /\ Ones \notin Values
  /\ Tries \in Nat \ {0} /\ MaxCalls \in Nat

VARIABLES
  (* the caller *)
  pc,        (* "idle", "set", "count", "wait", or how the last call ended *)
  call,      (* the call                                                   *)
  currResp,  (* the count of answers as read before the request is counted *)
  tries,     (* tryCount                                                   *)
  (* what the threads share *)
  entry,     (* regReqEntry_ and regReqWrite_, cmdReqEntry_, ...           *)
  reqCnt,    (* regReqCnt_, cmdReqCnt_, dataReqCnt_, runReqCnt_            *)
  respCnt,   (* regRespCnt_, cmdRespCnt_, dataRespCnt_                     *)
  (* the registers as the program has them *)
  value,     (* value_                                                     *)
  status,    (* whether status_ is zero                                    *)
  stale,     (* stale_                                                     *)
  (* the threads *)
  io,        (* the transmit thread: where it is, and the kind it sends    *)
  last,      (* lastReqCnt, lastCmdCnt, lastDataCnt, lastRunCnt            *)
  rx,        (* the receive thread: where it is, and the answer it has     *)
  (* the hardware *)
  wire,      (* the requests on their way                                  *)
  answers,   (* the answers on their way                                   *)
  device,    (* the registers                                              *)
  (* history *)
  filled,    (* for each register, the call whose access it shows          *)
  sent,      (* for commands and transfers, the call last transmitted      *)
  refused,   (* the call whose transmission failed last                    *)
  midway,    (* whether an earlier answer may count for the last request   *)
  unsure,    (* the registers the program may be wrong about               *)
  hurt       (* whether a try was lost, refused or given up too early      *)

callVars   == <<pc, call, currResp, tries>>
regVars    == <<value, status, stale>>
wireVars   == <<wire, answers, device>>
ghosts     == <<filled, sent, refused, midway, unsure, hurt>>
vars == <<callVars, entry, reqCnt, respCnt, regVars, io, last, rx, wireVars, ghosts>>

-----------------------------------------------------------------------------
Registers == Mapped \union Remote

(* In the order in which the transmit thread looks at them. *)
Kinds == {"run", "reg", "cmd", "data"}
Simple == {"cmd", "data"}

NoCall == [id |-> 0, kind |-> "run", reg |-> CHOOSE r \in Registers : TRUE,
           write |-> FALSE, wait |-> FALSE, good |-> TRUE]

Calls == [id : 0 .. MaxCalls, kind : Kinds, reg : Registers, write : BOOLEAN,
          wait : BOOLEAN, good : BOOLEAN]

(* A thread is amid a request of this kind: what it does next it does for  *)
(* the request that is counted then.                                       *)
Midway(k) ==
  \/ io.kind = k /\ io.pc \in (IF k \in Simple THEN {"send", "match", "count"} ELSE {"send", "count"})
  \/ k = "reg" /\ rx.pc # "idle"

(* No request of this kind is under way. *)
Quiet(k) ==
  /\ ~Midway(k)
  /\ last[k] = reqCnt[k] \/ (io.kind = k /\ io.pc = "match")
  /\ k = "reg" => wire = << >> /\ answers = << >>

Init ==
  /\ pc = "idle" /\ call = NoCall /\ currResp = 0 /\ tries = 0
  /\ entry = [k \in Kinds |-> NoCall]
  /\ reqCnt = [k \in Kinds |-> 0]
  /\ respCnt = [k \in Kinds |-> 0]
  /\ value = [r \in Registers |-> Zero] /\ device \in [Registers -> Values]
  /\ status = [r \in Registers |-> TRUE]
  /\ stale = [r \in Registers |-> FALSE]
  /\ io = [pc |-> "look", kind |-> "run", write |-> FALSE]
  /\ last = [k \in Kinds |-> 0]
  /\ rx = [pc |-> "idle"]
  /\ wire = << >> /\ answers = << >>
  /\ filled = [r \in Registers |-> 0]
  /\ sent = [k \in Simple |-> 0] /\ refused = [k \in Simple |-> 0]
  /\ midway = FALSE /\ unsure = Registers /\ hurt = FALSE

-----------------------------------------------------------------------------
(* The caller                                                              *)

Free == pc \in {"idle", "ok", "failed"} /\ call.id < MaxCalls

(* The slot of the request is filled. *)
Begin(c) ==
  /\ Free /\ c.kind \in Offered
  /\ call' = c
  /\ entry' = [entry EXCEPT ![c.kind] = c]
  /\ pc' = "set"
  /\ tries' = 0
  /\ hurt' = ~Quiet(c.kind)
  /\ UNCHANGED <<currResp, reqCnt, respCnt, status, io, last, rx, wireVars,
                 filled, sent, refused, midway, unsure>>

NewCall(k) == [NoCall EXCEPT !.id = call.id + 1, !.kind = k]

(* Device::writeRegister: a register that is not stale is not written.     *)
(* The value was set, and made the register stale if it is a new one, just *)
(* before.                                                                 *)
WriteRegister(r, v, force, wait) ==
  /\ force \/ stale[r] \/ v # value[r]
  /\ value' = [value EXCEPT ![r] = v]
  /\ stale' = [stale EXCEPT ![r] = TRUE]
  /\ Begin([NewCall("reg") EXCEPT !.reg = r, !.write = TRUE, !.wait = wait])

(* Device::readRegister.                                                   *)
ReadRegister(r) ==
  /\ Begin([NewCall("reg") EXCEPT !.reg = r, !.wait = TRUE])
  /\ UNCHANGED <<value, stale>>

QueueCommand ==
  /\ Begin([NewCall("cmd") EXCEPT !.wait = TRUE])
  /\ UNCHANGED <<value, stale>>

(* good: exactly one lane and one virtual channel, and the size allowed.   *)
QueueDataTx(good) ==
  /\ Begin([NewCall("data") EXCEPT !.wait = TRUE, !.good = good])
  /\ UNCHANGED <<value, stale>>

QueueRunCommand ==
  /\ Begin(NewCall("run"))
  /\ UNCHANGED <<value, stale>>

(* The count of answers is read; nothing keeps the other threads from      *)
(* counting one more before the request is counted.                        *)
ReadCount ==
  /\ pc = "set"
  /\ currResp' = respCnt[call.kind]
  /\ pc' = "count"
  /\ UNCHANGED <<call, tries, entry, reqCnt, respCnt, regVars, io, last, rx, wireVars, ghosts>>

(* An earlier answer counts for the request that is counted now: a thread  *)
(* is amid it, or has counted it since the count of answers was read.      *)
Mistakable(k) == Midway(k) \/ respCnt[k] # currResp

(* The request is counted.  A call that does not wait is over, and its     *)
(* register no longer stale; a transfer that queueDataTx refuses it        *)
(* refuses now.                                                            *)
Try ==
  /\ pc = "count"
  /\ reqCnt' = [reqCnt EXCEPT ![call.kind] = @ + 1]
  /\ tries' = tries + 1
  /\ midway' = Mistakable(call.kind)
  /\ IF call.good /\ call.wait
     THEN pc' = "wait" /\ UNCHANGED <<stale, unsure>>
     ELSE /\ pc' = IF call.good THEN "ok" ELSE "failed"
          /\ IF call.kind = "reg"
             THEN /\ stale' = [stale EXCEPT ![call.reg] = FALSE]
                  /\ unsure' = unsure \union {call.reg}
             ELSE UNCHANGED <<stale, unsure>>
  /\ UNCHANGED <<call, currResp, entry, respCnt, value, status, io, last, rx, wireVars,
                 filled, sent, refused, hurt>>

(* Mutant: one try too few. *)
Again_OneLess ==
  IF call.kind = "reg" /\ tries < Tries - 1
  THEN pc' = "set" /\ UNCHANGED unsure
  ELSE /\ pc' = "failed"
       /\ unsure' = IF call.kind = "reg" /\ ~call.write THEN unsure \union {call.reg} ELSE unsure

(* A try failed: queueRegister tries again or gives up, the others give up *)
(* at once.  A read that failed may have left Ones in the register.        *)
Again ==
  IF call.kind = "reg" /\ tries < Tries
  THEN pc' = "set" /\ UNCHANGED unsure
  ELSE /\ pc' = "failed"
       /\ unsure' = IF call.kind = "reg" /\ ~call.write THEN unsure \union {call.reg} ELSE unsure

(* Mutant: a register is no longer stale whatever came of the call. *)
Answered_AlwaysClears ==
  /\ pc = "wait" /\ respCnt[call.kind] # currResp
  /\ IF call.kind = "reg" /\ ~status[call.reg] THEN Again ELSE
       /\ pc' = "ok"
       /\ unsure' = IF midway \/ call.kind # "reg" THEN unsure ELSE unsure \ {call.reg}
  /\ stale' = IF call.kind = "reg" THEN [stale EXCEPT ![call.reg] = FALSE] ELSE stale
  /\ UNCHANGED <<call, currResp, tries, entry, reqCnt, respCnt, value, status, io, last, rx,
                 wireVars, filled, sent, refused, midway, hurt>>

(* The count of answers has moved. *)
Answered ==
  /\ pc = "wait" /\ respCnt[call.kind] # currResp
  /\ IF call.kind = "reg" /\ ~status[call.reg]
     THEN Again /\ UNCHANGED stale
     ELSE /\ pc' = "ok"
          /\ IF call.kind = "reg"
             THEN /\ stale' = [stale EXCEPT ![call.reg] = FALSE]
                  /\ unsure' = IF midway THEN unsure \union {call.reg}
                                                  ELSE unsure \ {call.reg}
             ELSE UNCHANGED <<stale, unsure>>
  /\ UNCHANGED <<call, currResp, tries, entry, reqCnt, respCnt, value, status, io, last, rx,
                 wireVars, filled, sent, refused, midway, hurt>>

(* Mutant: the timeout is disabled (toDisable_). *)
TimedOut_Disabled == pc = "wait" /\ call.id = 0 /\ UNCHANGED vars

(* 250 ms have passed. *)
TimedOut ==
  /\ pc = "wait" /\ respCnt[call.kind] = currResp
  /\ Again
  /\ hurt' = (hurt \/ ~Quiet(call.kind) \/ last[call.kind] # reqCnt[call.kind])
  /\ UNCHANGED <<call, currResp, tries, entry, reqCnt, respCnt, regVars, io, last, rx, wireVars,
                 filled, sent, refused, midway>>

-----------------------------------------------------------------------------
(* The transmit thread                                                     *)

Pending(k) == last[k] # reqCnt[k]

(* The run command goes before registers, these before commands, and these *)
(* before transfers.                                                       *)
Look(k) ==
  /\ io.pc = "look"
  /\ Pending(k)
  /\ k # "run" => ~Pending("run")
  /\ k \in Simple => ~Pending("reg")
  /\ k = "data" => ~Pending("cmd")
  /\ io' = [pc |-> "send", kind |-> k, write |-> entry["reg"].write]
  /\ UNCHANGED <<callVars, entry, reqCnt, respCnt, regVars, last, rx, wireVars, ghosts>>

(* MultDestMapped::transmit: the access itself, of the register that the   *)
(* slot holds now; at an address that no map has, nothing is written and   *)
(* zero read, with an error for the status.                                *)
Access(ok) ==
  LET e == entry["reg"] IN
  /\ io.pc = "send" /\ io.kind = "reg" /\ e.reg \in Mapped
  /\ ok \/ "status" \in Faults
  /\ device' = IF ok /\ io.write THEN [device EXCEPT ![e.reg] = value[e.reg]] ELSE device
  /\ value' = IF io.write THEN value
              ELSE [value EXCEPT ![e.reg] = IF ok THEN device[e.reg] ELSE Zero]
  /\ status' = [status EXCEPT ![e.reg] = ok]
  /\ hurt' = (hurt \/ ~ok)
  /\ filled' = [filled EXCEPT ![e.reg] = e.id]
  /\ io' = [io EXCEPT !.pc = "count"]
  /\ UNCHANGED <<callVars, entry, reqCnt, respCnt, stale, last, rx, wire, answers,
                 sent, refused, midway, unsure>>

(* MultDestAxis::transmit: a frame with the count as its context.          *)
SendFrame ==
  LET e == entry["reg"] IN
  /\ io.pc = "send" /\ io.kind = "reg" /\ e.reg \in Remote
  /\ wire' = Append(wire, [context |-> reqCnt["reg"], id |-> e.id, reg |-> e.reg,
                           write |-> io.write, data |-> value[e.reg]])
  /\ io' = [io EXCEPT !.pc = "match"]
  /\ UNCHANGED <<callVars, entry, reqCnt, respCnt, regVars, last, rx, answers, device, ghosts>>

(* A command, a transfer or the run command goes out, or does not: there   *)
(* is no such destination, mapped memory takes no transfers, dmaWrite      *)
(* finds no buffer.  What transmit returns is not looked at.               *)
SendOther(ok) ==
  LET noted(f) == [k \in Simple |-> IF k = io.kind THEN entry[k].id ELSE f[k]] IN
  /\ io.pc = "send" /\ io.kind # "reg"
  /\ ok \/ "loss" \in Faults
  /\ sent' = IF ok THEN noted(sent) ELSE sent
  /\ refused' = IF ok THEN refused ELSE noted(refused)
  /\ io' = [io EXCEPT !.pc = "match"]
  /\ UNCHANGED <<callVars, entry, reqCnt, respCnt, regVars, last, rx, wireVars,
                 filled, midway, unsure, hurt>>

(* The count is read again: a request counted since is not seen. *)
Match ==
  /\ io.pc = "match"
  /\ last' = [last EXCEPT ![io.kind] = reqCnt[io.kind]]
  /\ io' = [io EXCEPT !.pc = IF io.kind \in Simple THEN "count" ELSE "look"]
  /\ UNCHANGED <<callVars, entry, reqCnt, respCnt, regVars, rx, wireVars, ghosts>>

(* Mutant: commands and transfers have one count of answers.               *)
Count_OneCounter ==
  /\ io.pc = "count"
  /\ respCnt' = [k \in Kinds |-> IF k = io.kind \/ {k, io.kind} = Simple THEN respCnt[k] + 1
                                  ELSE respCnt[k]]
  /\ io' = [io EXCEPT !.pc = IF io.kind \in Simple THEN "look" ELSE "match"]
  /\ UNCHANGED <<callVars, entry, reqCnt, regVars, last, rx, wireVars, ghosts>>

(* The answer of a command or a transfer is counted after the request is   *)
(* matched, the one of a mapped register before.                           *)
Count ==
  /\ io.pc = "count"
  /\ respCnt' = [respCnt EXCEPT ![io.kind] = @ + 1]
  /\ io' = [io EXCEPT !.pc = IF io.kind \in Simple THEN "look" ELSE "match"]
  /\ UNCHANGED <<callVars, entry, reqCnt, regVars, last, rx, wireVars, ghosts>>

-----------------------------------------------------------------------------
(* The hardware                                                            *)

(* The firmware does what the frame asks, or refuses it. *)
Perform(ok) ==
  LET f == Head(wire)
      d == IF ok /\ f.write THEN [device EXCEPT ![f.reg] = f.data] ELSE device
  IN
  /\ wire # << >>
  /\ ok \/ "status" \in Faults
  /\ device' = d
  /\ wire' = Tail(wire)
  /\ answers' = Append(answers, [context |-> f.context, id |-> f.id, reg |-> f.reg,
                                 status |-> ok, data |-> d[f.reg]])
  /\ hurt' = (hurt \/ ~ok)
  /\ UNCHANGED <<callVars, entry, reqCnt, respCnt, regVars, io, last, rx,
                 filled, sent, refused, midway, unsure>>

(* dmaWrite found no buffer, or the frame was broken. *)
LoseFrame ==
  /\ "loss" \in Faults /\ wire # << >>
  /\ wire' = Tail(wire)
  /\ hurt' = TRUE
  /\ UNCHANGED <<callVars, entry, reqCnt, respCnt, regVars, io, last, rx, answers, device,
                 filled, sent, refused, midway, unsure>>

(* MultDestAxis::receive finds a bad size or an error flag. *)
LoseAnswer ==
  /\ "loss" \in Faults /\ answers # << >> /\ rx.pc = "idle"
  /\ answers' = Tail(answers)
  /\ hurt' = TRUE
  /\ UNCHANGED <<callVars, entry, reqCnt, respCnt, regVars, io, last, rx, wire, device,
                 filled, sent, refused, midway, unsure>>

-----------------------------------------------------------------------------
(* The receive thread                                                      *)

(* Mutant: an answer to an earlier try is taken. *)
Expected_AnyCount(a) == a.reg = entry["reg"].reg

(* Matches outstanding register request. *)
Expected(a) == reqCnt["reg"] = a.context /\ a.reg = entry["reg"].reg

RxCheck ==
  /\ rx.pc = "idle" /\ answers # << >>
  /\ answers' = Tail(answers)
  /\ rx' = IF Expected(Head(answers)) THEN [pc |-> "copy", answer |-> Head(answers)] ELSE rx
  /\ UNCHANGED <<callVars, entry, reqCnt, respCnt, regVars, io, last, wire, device, ghosts>>

(* The answer is stored in the register of the slot, which is looked up    *)
(* again.                                                                  *)
RxCopy ==
  LET e == entry["reg"]  a == rx.answer IN
  /\ rx.pc = "copy"
  /\ value' = IF e.write THEN value
              ELSE [value EXCEPT ![e.reg] = IF a.status THEN a.data ELSE Ones]
  /\ status' = [status EXCEPT ![e.reg] = a.status]
  /\ filled' = [filled EXCEPT ![e.reg] = a.id]
  /\ rx' = [pc |-> "count"]
  /\ UNCHANGED <<callVars, entry, reqCnt, respCnt, stale, io, last, wireVars,
                 sent, refused, midway, unsure, hurt>>

RxCount ==
  /\ rx.pc = "count"
  /\ respCnt' = [respCnt EXCEPT !["reg"] = @ + 1]
  /\ rx' = [pc |-> "idle"]
  /\ UNCHANGED <<callVars, entry, reqCnt, regVars, io, last, wireVars, ghosts>>

-----------------------------------------------------------------------------
Caller == ReadCount \/ Try \/ Answered \/ TimedOut

Requests ==
  \/ \E r \in Registers, v \in Values, force, wait \in BOOLEAN : WriteRegister(r, v, force, wait)
  \/ \E r \in Registers : ReadRegister(r)
  \/ QueueCommand
  \/ \E good \in BOOLEAN : QueueDataTx(good)
  \/ QueueRunCommand

Transmit ==
  \/ \E k \in Kinds : Look(k)
  \/ \E ok \in BOOLEAN : Access(ok) \/ SendOther(ok)
  \/ SendFrame \/ Match \/ Count

Receive == RxCheck \/ RxCopy \/ RxCount

Hardware == (\E ok \in BOOLEAN : Perform(ok)) \/ LoseFrame \/ LoseAnswer

Next == Requests \/ Caller \/ Transmit \/ Receive \/ Hardware

Spec == Init /\ [][Next]_vars

(* The threads run, and time passes. *)
FairSpec == Spec /\ WF_vars(Caller) /\ WF_vars(Transmit) /\ WF_vars(Receive) /\ WF_vars(Hardware)

-----------------------------------------------------------------------------
(* Properties                                                              *)

Frames == [context : Nat, id : 0 .. MaxCalls, reg : Remote, write : BOOLEAN,
           data : Values \union {Ones}]
Answers == [context : Nat, id : 0 .. MaxCalls, reg : Remote, status : BOOLEAN,
            data : Values \union {Ones}]

(* The types of the variables. *)
TypeOK ==
  /\ pc \in {"idle", "set", "count", "wait", "ok", "failed"}
  /\ call \in Calls /\ currResp \in Nat /\ tries \in 0 .. Tries
  /\ entry \in [Kinds -> Calls]
  /\ reqCnt \in [Kinds -> Nat] /\ respCnt \in [Kinds -> Nat] /\ last \in [Kinds -> Nat]
  /\ value \in [Registers -> Values \union {Ones}]
  /\ device \in [Registers -> Values \union {Ones}]
  /\ status \in [Registers -> BOOLEAN] /\ stale \in [Registers -> BOOLEAN]
  /\ io \in [pc : {"look", "send", "match", "count"}, kind : Kinds, write : BOOLEAN]
  /\ rx \in [pc : {"idle", "count"}] \union [pc : {"copy"}, answer : Answers]
  /\ wire \in Seq(Frames) /\ answers \in Seq(Answers)
  /\ filled \in [Registers -> 0 .. MaxCalls]
  /\ sent \in [Simple -> 0 .. MaxCalls] /\ refused \in [Simple -> 0 .. MaxCalls]
  /\ midway \in BOOLEAN /\ unsure \subseteq Registers /\ hurt \in BOOLEAN

(* A register access that succeeds after waiting was answered for this     *)
(* very call: what the register shows is neither the answer to an earlier  *)
(* request nor the one of another register, however late the answers to    *)
(* earlier tries and calls come in.  The exception is an earlier answer    *)
(* that a thread was amid when the request was counted, or had counted     *)
(* since the caller read the count of answers: it ends the wait for the    *)
(* new request.                                                            *)
OwnAnswer ==
  pc = "ok" /\ call.kind = "reg" /\ call.wait /\ ~midway => filled[call.reg] = call.id

(* Its transmission was tried for the call. *)
Tried(k) == call.id \in {sent[k], refused[k]}

(* A command or a transfer that is reported as done has been tried for     *)
(* this very call, and not only the one before it that was given up or     *)
(* refused, with the same exception: it was sent, or its transmission      *)
(* failed, which the transmit thread does not look at.                     *)
ReallySent ==
  pc = "ok" /\ call.kind \in Simple /\ ~midway => Tried(call.kind)

(* What the program believes of a register that is not stale is true of    *)
(* the hardware, whatever was lost, refused or tried again, once one       *)
(* access was waited for; a read that failed withdraws that.               *)
Coherent ==
  pc \notin {"set", "count", "wait"} =>
    \A r \in Registers \ unsure : stale[r] \/ value[r] = device[r]

(* When nothing is lost or refused, and no try is given up that would      *)
(* still be answered, one retry is enough: the transmit thread may miss a  *)
(* request, by reading the count again, but not two in a row.              *)
OneRetry ==
  pc \in {"wait", "ok", "failed"} /\ call.kind = "reg" /\ ~hurt => tries <= 2 /\ pc # "failed"

(* A call returns, whatever happens to its request. *)
CallEnds == pc = "wait" ~> pc \in {"ok", "failed"}

=============================================================================
