---------------------------- MODULE CommLinkProofs ----------------------------
(***************************************************************************)
(* A call of CommLink that succeeds was answered for its own request,      *)
(* however late the answers to earlier ones come in, unless such an answer *)
(* could be mistaken for its own when the request was counted; what the    *)
(* program then believes of the register is true of the hardware; and an   *)
(* access to which nothing happens succeeds with at most one retry.        *)
(***************************************************************************)
EXTENDS CommLink, TLAPS

-----------------------------------------------------------------------------
(* What the proof needs of the frames and of the threads                   *)

(* The call that is waiting or has succeeded counted its last request when *)
(* no other answer of the kind could be mistaken for its own.              *)
Ours(k) == pc \in {"wait", "ok"} /\ call.kind = k /\ ~midway

(* Contexts do not run ahead of the count, and the frames with the last    *)
(* count belong to the call.                                               *)
Owned(S) == {f \in S : /\ f.context <= reqCnt["reg"]
                       /\ Ours("reg") /\ f.context = reqCnt["reg"] => f.id = call.id}

FramesOwned == wire \in Seq(Owned(Frames)) /\ answers \in Seq(Owned(Answers))

(* The slot of the kind of the call holds the call. *)
SlotIsCall == pc # "idle" => entry[call.kind] = call

(* There is a try left when a request is about to be counted. *)
TryLeft == pc \in {"set", "count"} => tries < Tries

(* What is taken in, or done, for a register is for the call. *)
AccessOwned ==
  Ours("reg") =>
    /\ rx.pc = "copy" => rx.answer.id = call.id
    /\ rx.pc = "count" => filled[call.reg] = call.id
    /\ io.kind = "reg" /\ io.pc = "count" => filled[call.reg] = call.id
    /\ respCnt["reg"] # currResp => filled[call.reg] = call.id
    /\ pc = "ok" /\ call.wait => filled[call.reg] = call.id

(* What is transmitted is the call. *)
OtherOwned ==
  \A k \in Simple : Ours(k) =>
    /\ io.kind = k /\ io.pc \in {"match", "count"} => Tried(k)
    /\ respCnt[k] # currResp => Tried(k)
    /\ pc = "ok" => Tried(k)

(* Commands and transfers are always waited for. *)
SimpleWaits == call.kind \in Simple => call.wait

LInv == /\ TypeOK /\ FramesOwned /\ SlotIsCall /\ TryLeft
        /\ AccessOwned /\ OtherOwned /\ SimpleWaits

-----------------------------------------------------------------------------
(* A sequence over a set is one over a larger set.                         *)
LEMMA SeqOver ==
  ASSUME NEW S, NEW T, S \subseteq T, NEW s \in Seq(S)
  PROVE  s \in Seq(T)
OBVIOUS

LEMMA NoCallType == NoCall \in Calls
<1>1. (CHOOSE r \in Registers : TRUE) \in Registers
  BY LinkAssumption DEF Registers
<1>. QED  BY <1>1, LinkAssumption DEF NoCall, Calls, Kinds

(* The fields of a call, and calls that differ in some of them.            *)
LEMMA CallFields ==
  ASSUME NEW c \in Calls
  PROVE  /\ c.id \in 0 .. MaxCalls /\ c.kind \in Kinds /\ c.reg \in Registers
         /\ c.write \in BOOLEAN /\ c.wait \in BOOLEAN /\ c.good \in BOOLEAN
BY DEF Calls

(* A new call is a call. *)
LEMMA NewCallType ==
  ASSUME call \in Calls, call.id < MaxCalls, NEW k \in Kinds
  PROVE  /\ NewCall(k) \in Calls
         /\ NewCall(k).kind = k /\ NewCall(k).id = call.id + 1
<1>1. call.id + 1 \in 0 .. MaxCalls
  BY CallFields, LinkAssumption
<1>. QED  BY <1>1, NoCallType DEF NewCall, Calls

LEMMA LInvInit == Init => LInv
<1> SUFFICES ASSUME Init PROVE LInv
  OBVIOUS
<1>1. TypeOK
  <2>1. /\ call \in Calls /\ entry \in [Kinds -> Calls]
    BY NoCallType DEF Init
  <2>2. /\ reqCnt \in [Kinds -> Nat] /\ respCnt \in [Kinds -> Nat] /\ last \in [Kinds -> Nat]
    BY DEF Init
  <2>3. /\ value \in [Registers -> Values \union {Ones}]
        /\ device \in [Registers -> Values \union {Ones}]
        /\ status \in [Registers -> BOOLEAN] /\ stale \in [Registers -> BOOLEAN]
    BY LinkAssumption DEF Init
  <2>4. /\ io \in [pc : {"look", "send", "match", "count"}, kind : Kinds, write : BOOLEAN]
        /\ rx \in [pc : {"idle", "count"}]
    BY DEF Init, Kinds
  <2>5. /\ filled \in [Registers -> 0 .. MaxCalls] /\ sent \in [Simple -> 0 .. MaxCalls]
        /\ refused \in [Simple -> 0 .. MaxCalls]
        /\ tries \in 0 .. Tries /\ currResp \in Nat
    BY LinkAssumption DEF Init
  <2>6. wire \in Seq(Frames) /\ answers \in Seq(Answers)
    BY DEF Init
  <2>7. /\ pc \in {"idle", "set", "count", "wait", "ok", "failed"}
        /\ midway \in BOOLEAN /\ unsure \subseteq Registers /\ hurt \in BOOLEAN
    BY DEF Init
  <2>. QED  BY <2>1, <2>2, <2>3, <2>4, <2>5, <2>6, <2>7 DEF TypeOK
<1>2. FramesOwned /\ SlotIsCall /\ TryLeft /\ AccessOwned /\ OtherOwned
  BY DEF Init, FramesOwned, SlotIsCall, TryLeft, AccessOwned, OtherOwned, Ours
<1>3. SimpleWaits
  BY DEF Init, SimpleWaits, NoCall, Simple
<1>. QED  BY <1>1, <1>2, <1>3 DEF LInv

-----------------------------------------------------------------------------
(* A request is begun: what is under way is under way for nobody.          *)
LEMMA BeginStep ==
  ASSUME LInv, NEW c \in Calls, Begin(c), c.kind \in Simple => c.wait,
         value' \in [Registers -> Values \union {Ones}], stale' \in [Registers -> BOOLEAN]
  PROVE  LInv'
<1>. USE DEF LInv
<1>. /\ c.kind \in Kinds
     /\ c.id \in 0 .. MaxCalls
  BY CallFields
<1>1. TypeOK'
  <2>1. call' \in Calls /\ entry' \in [Kinds -> Calls]
    BY DEF Begin, TypeOK
  <2>2. pc' = "set" /\ tries' \in 0 .. Tries /\ hurt' \in BOOLEAN
    BY LinkAssumption DEF Begin
  <2>. QED  BY <2>1, <2>2 DEF Begin, TypeOK, wireVars
<1>2. (\A k \in Kinds : ~Ours(k)') /\ reqCnt' = reqCnt /\ wire' = wire /\ answers' = answers
  BY DEF Begin, Ours, wireVars
<1>3. FramesOwned'
  <2>1. Owned(Frames) \subseteq Owned(Frames)' /\ Owned(Answers) \subseteq Owned(Answers)'
    BY <1>2 DEF Owned, Begin, Ours
  <2>. QED  BY <1>2, <2>1, SeqOver DEF FramesOwned
<1>4. SlotIsCall' /\ TryLeft' /\ SimpleWaits'
  BY LinkAssumption DEF Begin, SlotIsCall, TryLeft, SimpleWaits, TypeOK
<1>5. AccessOwned' /\ OtherOwned'
  BY DEF Begin, AccessOwned, OtherOwned, Ours
<1>. QED  BY <1>1, <1>3, <1>4, <1>5

LEMMA RequestStep == LInv /\ Requests => LInv'
<1> SUFFICES ASSUME LInv, Requests PROVE LInv'
  OBVIOUS
<1>1. /\ call \in Calls
      /\ value \in [Registers -> Values \union {Ones}] /\ stale \in [Registers -> BOOLEAN]
  BY DEF LInv, TypeOK
<1>2. ASSUME NEW r \in Registers, NEW v \in Values, NEW force \in BOOLEAN,
             NEW wait \in BOOLEAN, WriteRegister(r, v, force, wait)
      PROVE  LInv'
  <2> DEFINE c == [NewCall("reg") EXCEPT !.reg = r, !.write = TRUE, !.wait = wait]
  <2>1. NewCall("reg") \in Calls /\ NewCall("reg").kind = "reg"
    BY <1>1, <1>2, NewCallType DEF WriteRegister, Begin, Free, Kinds
  <2>2. c \in Calls /\ c.kind = "reg"
    BY <2>1 DEF Calls
  <2>3. value' \in [Registers -> Values \union {Ones}] /\ stale' \in [Registers -> BOOLEAN]
    BY <1>1, <1>2 DEF WriteRegister
  <2>4. Begin(c)
    BY <1>2 DEF WriteRegister
  <2>. HIDE DEF c
  <2>. QED  BY <2>2, <2>3, <2>4, BeginStep DEF Simple
<1>3. ASSUME NEW r \in Registers, ReadRegister(r)
      PROVE  LInv'
  <2> DEFINE c == [NewCall("reg") EXCEPT !.reg = r, !.wait = TRUE]
  <2>1. NewCall("reg") \in Calls /\ NewCall("reg").kind = "reg"
    BY <1>1, <1>3, NewCallType DEF ReadRegister, Begin, Free, Kinds
  <2>2. c \in Calls /\ c.kind = "reg"
    BY <2>1 DEF Calls
  <2>3. Begin(c) /\ value' = value /\ stale' = stale
    BY <1>3 DEF ReadRegister
  <2>. HIDE DEF c
  <2>. QED  BY <1>1, <2>2, <2>3, BeginStep DEF Simple
<1>4. ASSUME QueueCommand
      PROVE  LInv'
  <2> DEFINE c == [NewCall("cmd") EXCEPT !.wait = TRUE]
  <2>1. NewCall("cmd") \in Calls
    BY <1>1, <1>4, NewCallType DEF QueueCommand, Begin, Free, Kinds
  <2>2. c \in Calls /\ c.wait
    BY <2>1 DEF Calls
  <2>3. Begin(c) /\ value' = value /\ stale' = stale
    BY <1>4 DEF QueueCommand
  <2>. HIDE DEF c
  <2>. QED  BY <1>1, <2>2, <2>3, BeginStep
<1>5. ASSUME NEW good \in BOOLEAN, QueueDataTx(good)
      PROVE  LInv'
  <2> DEFINE c == [NewCall("data") EXCEPT !.wait = TRUE, !.good = good]
  <2>1. NewCall("data") \in Calls
    BY <1>1, <1>5, NewCallType DEF QueueDataTx, Begin, Free, Kinds
  <2>2. c \in Calls /\ c.wait
    BY <2>1 DEF Calls
  <2>3. Begin(c) /\ value' = value /\ stale' = stale
    BY <1>5 DEF QueueDataTx
  <2>. HIDE DEF c
  <2>. QED  BY <1>1, <2>2, <2>3, BeginStep
<1>6. ASSUME QueueRunCommand
      PROVE  LInv'
  <2>1. NewCall("run") \in Calls /\ NewCall("run").kind = "run"
    BY <1>1, <1>6, NewCallType DEF QueueRunCommand, Begin, Free, Kinds
  <2>2. Begin(NewCall("run")) /\ value' = value /\ stale' = stale
    BY <1>6 DEF QueueRunCommand
  <2>. QED  BY <1>1, <2>1, <2>2, BeginStep DEF Simple
<1>. QED  BY <1>2, <1>3, <1>4, <1>5, <1>6 DEF Requests

-----------------------------------------------------------------------------
(* The caller                                                              *)

(* The count of answers is read: the call has no request yet. *)
LEMMA ReadStep == LInv /\ ReadCount => LInv'
<1> SUFFICES ASSUME LInv, ReadCount PROVE LInv'
  OBVIOUS
<1>. USE DEF LInv
<1>1. /\ pc = "set" /\ pc' = "count" /\ currResp' = respCnt[call.kind]
      /\ UNCHANGED <<call, tries, entry, reqCnt, respCnt, regVars, io, last, rx, wireVars, ghosts>>
  BY DEF ReadCount
<1>2. TypeOK'
  <2>1. currResp' \in Nat
    BY <1>1, CallFields DEF TypeOK
  <2>. QED  BY <1>1, <2>1 DEF TypeOK, regVars, wireVars, ghosts
<1>3. FramesOwned'
  <2>1. Owned(Frames) \subseteq Owned(Frames)' /\ Owned(Answers) \subseteq Owned(Answers)'
    BY <1>1 DEF Owned, Ours
  <2>. QED  BY <1>1, <2>1, SeqOver DEF FramesOwned, wireVars
<1>4. SlotIsCall' /\ TryLeft' /\ SimpleWaits' /\ AccessOwned' /\ OtherOwned'
  BY <1>1 DEF SlotIsCall, TryLeft, SimpleWaits, AccessOwned, OtherOwned, Ours
<1>. QED  BY <1>2, <1>3, <1>4

LEMMA TryStep == LInv /\ Try => LInv'
<1> SUFFICES ASSUME LInv, Try PROVE LInv'
  OBVIOUS
<1>. USE DEF LInv
<1>1. /\ call.kind \in Kinds /\ call' = call /\ wire' = wire /\ answers' = answers
      /\ entry' = entry /\ io' = io /\ rx' = rx /\ respCnt' = respCnt
      /\ filled' = filled /\ sent' = sent /\ refused' = refused /\ currResp' = currResp
  BY CallFields DEF TypeOK, Try, wireVars
<1>2. TypeOK'
  <2>1. /\ reqCnt' \in [Kinds -> Nat]
        /\ pc' \in {"idle", "set", "count", "wait", "ok", "failed"}
        /\ midway' \in BOOLEAN
    <3>1. reqCnt' = [reqCnt EXCEPT ![call.kind] = @ + 1] /\ reqCnt \in [Kinds -> Nat]
      BY DEF Try, TypeOK
    <3>2. pc' \in {"idle", "set", "count", "wait", "ok", "failed"}
      BY DEF Try
    <3>3. midway' \in BOOLEAN
      <4>1. midway' = Mistakable(call.kind)  BY DEF Try
      <4>2. Mistakable(call.kind) \in BOOLEAN  BY Zenon DEF Mistakable, Midway
      <4>. QED  BY <4>1, <4>2
    <3>. HIDE DEF LInv
    <3>. QED  BY <3>1, <3>2, <3>3, <1>1
  <2>2. tries' \in 0 .. Tries
    BY LinkAssumption DEF Try, TypeOK, TryLeft
  <2>3. stale' \in [Registers -> BOOLEAN] /\ unsure' \subseteq Registers
    BY CallFields DEF Try, TypeOK
  <2>. QED  BY <2>1, <2>2, <2>3, <1>1 DEF Try, TypeOK, wireVars
<1>3. FramesOwned'
  <2>1. /\ reqCnt'["reg"] >= reqCnt["reg"] /\ reqCnt["reg"] \in Nat
        /\ Ours("reg")' => reqCnt'["reg"] > reqCnt["reg"]
    <3>1. reqCnt' = [reqCnt EXCEPT ![call.kind] = @ + 1] /\ reqCnt \in [Kinds -> Nat]
      BY DEF Try, TypeOK
    <3>2. Ours("reg")' => call.kind = "reg"  BY <1>1 DEF Ours
    <3>. HIDE DEF LInv
    <3>. QED  BY <3>1, <3>2, <1>1 DEF Kinds
  <2>2. reqCnt'["reg"] \in Nat
    BY <1>2 DEF TypeOK, Kinds
  <2>3. \A f \in Frames \union Answers : f.context \in Nat
    BY DEF Frames, Answers
  <2>4. Owned(Frames) \subseteq Owned(Frames)' /\ Owned(Answers) \subseteq Owned(Answers)'
    BY <1>1, <2>1, <2>2, <2>3 DEF Owned
  <2>. QED  BY <1>1, <2>4, SeqOver DEF FramesOwned
<1>4. SlotIsCall' /\ TryLeft' /\ SimpleWaits'
  BY <1>1 DEF Try, SlotIsCall, TryLeft, SimpleWaits
<1>5. AccessOwned'
  BY <1>1 DEF AccessOwned, Ours, Mistakable, Midway, Try, Simple
<1>6. OtherOwned'
  <2> SUFFICES ASSUME NEW k \in Simple, Ours(k)'
               PROVE  /\ (io.kind = k /\ io.pc \in {"match", "count"} => Tried(k))'
                      /\ (respCnt[k] # currResp => Tried(k))'
                      /\ (pc = "ok" => Tried(k))'
    BY DEF OtherOwned
  <2>1. call.kind = k /\ call.wait /\ ~Midway(k) /\ respCnt[k] = currResp
    BY <1>1 DEF Ours, SimpleWaits, Try, Mistakable
  <2>. QED  BY <1>1, <2>1 DEF Midway, Try
<1>. QED  BY <1>2, <1>3, <1>4, <1>5, <1>6

(* The call ends, or fails a try: nothing under way changes hands. *)
LEMMA WaitOverStep == LInv /\ (Answered \/ TimedOut) => LInv'
<1> SUFFICES ASSUME LInv, Answered \/ TimedOut PROVE LInv'
  OBVIOUS
<1>. USE DEF LInv
<1>1. /\ pc = "wait" /\ call' = call /\ wire' = wire /\ answers' = answers /\ entry' = entry
      /\ io' = io /\ rx' = rx /\ respCnt' = respCnt /\ reqCnt' = reqCnt /\ tries' = tries
      /\ currResp' = currResp /\ midway' = midway /\ filled' = filled /\ sent' = sent /\ refused' = refused
      /\ pc' = "set" => tries < Tries
      /\ pc' \in {"set", "ok", "failed"}
      /\ pc' = "ok" => respCnt[call.kind] # currResp
  BY DEF Answered, TimedOut, Again, wireVars
<1>2. TypeOK'
  <2>1. stale' \in [Registers -> BOOLEAN] /\ unsure' \subseteq Registers /\ hurt' \in BOOLEAN
    <3>0. call.reg \in Registers /\ unsure \subseteq Registers /\ stale \in [Registers -> BOOLEAN]
          /\ hurt \in BOOLEAN
      BY CallFields DEF TypeOK
    <3>1. unsure' \in {unsure, unsure \union {call.reg}, unsure \ {call.reg}}
      BY DEF Answered, TimedOut, Again
    <3>2. stale' = stale \/ stale' = [stale EXCEPT ![call.reg] = FALSE]
      BY DEF Answered, TimedOut, regVars
    <3>3. hurt' \in BOOLEAN
      BY <3>0 DEF Answered, TimedOut
    <3>4. stale' \in [Registers -> BOOLEAN]
      BY <3>0, <3>2
    <3>5. unsure' \subseteq Registers
      BY <3>0, <3>1
    <3>. QED  BY <3>3, <3>4, <3>5
  <2>2. UNCHANGED <<value, status, last, device>>
    BY DEF Answered, TimedOut, wireVars, regVars
  <2>. QED  BY <1>1, <2>1, <2>2 DEF TypeOK
<1>3. Owned(Frames) \subseteq Owned(Frames)' /\ Owned(Answers) \subseteq Owned(Answers)'
  BY <1>1 DEF Owned, Ours
<1>4. FramesOwned'
  BY <1>1, <1>3, SeqOver DEF FramesOwned
<1>5. SlotIsCall' /\ TryLeft' /\ SimpleWaits'
  BY <1>1 DEF SlotIsCall, TryLeft, SimpleWaits
<1>6. AccessOwned' /\ OtherOwned'
  BY <1>1 DEF AccessOwned, OtherOwned, Tried, Ours
<1>. QED  BY <1>2, <1>4, <1>5, <1>6

-----------------------------------------------------------------------------
(* The transmit thread                                                     *)

(* Steps that leave the caller and the frames alone keep the parts of the  *)
(* invariant that are about nothing else.                                  *)
LEMMA ThreadStep ==
  ASSUME LInv, UNCHANGED <<callVars, entry, reqCnt, midway, wire, answers>>
  PROVE  FramesOwned' /\ SlotIsCall' /\ TryLeft' /\ SimpleWaits'
<1>. USE DEF LInv, callVars
<1>1. Owned(Frames) \subseteq Owned(Frames)' /\ Owned(Answers) \subseteq Owned(Answers)'
  BY DEF Owned, Ours
<1>2. FramesOwned'
  BY <1>1, SeqOver DEF FramesOwned
<1>. QED  BY <1>2 DEF SlotIsCall, TryLeft, SimpleWaits

LEMMA TransmitStep == LInv /\ Transmit => LInv'
<1> SUFFICES ASSUME LInv, Transmit PROVE LInv'
  OBVIOUS
<1>. USE DEF LInv
<1>1. /\ io \in [pc : {"look", "send", "match", "count"}, kind : Kinds, write : BOOLEAN]
      /\ \A k \in Kinds : /\ entry[k].id \in 0 .. MaxCalls /\ entry[k].reg \in Registers
                          /\ entry[k].write \in BOOLEAN
      /\ call.kind \in Kinds /\ call.reg \in Registers
      /\ "reg" \in Kinds /\ Simple \subseteq Kinds /\ "reg" \notin Simple
  BY CallFields DEF TypeOK, Kinds, Simple
<1>2. ASSUME NEW k \in Kinds, Look(k)
      PROVE  LInv'
  <2>1. io' \in [pc : {"send"}, kind : Kinds, write : BOOLEAN]
    BY <1>1, <1>2 DEF Look
  <2>2. TypeOK'
    BY <1>2, <2>1 DEF Look, TypeOK, callVars, regVars, wireVars, ghosts
  <2>3. AccessOwned' /\ OtherOwned'
    BY <1>2, <2>1 DEF Look, AccessOwned, OtherOwned, Tried, Ours, callVars, regVars, wireVars, ghosts
  <2>. QED  BY <1>2, <2>2, <2>3, ThreadStep DEF Look, wireVars, ghosts
<1>3. ASSUME NEW ok \in BOOLEAN, Access(ok)
      PROVE  LInv'
  <2>1. io' = [io EXCEPT !.pc = "count"] /\ io.kind = "reg"
    BY <1>3 DEF Access
  <2>2. /\ value' \in [Registers -> Values \union {Ones}]
        /\ device' \in [Registers -> Values \union {Ones}]
        /\ status' \in [Registers -> BOOLEAN]
        /\ filled' \in [Registers -> 0 .. MaxCalls]
    <3> DEFINE r == entry["reg"].reg
    <3>1. /\ \/ value' = value
             \/ value' = [value EXCEPT ![r] = device[r]]
             \/ value' = [value EXCEPT ![r] = Zero]
          /\ device' = device \/ device' = [device EXCEPT ![r] = value[r]]
          /\ status' = [status EXCEPT ![r] = ok]
          /\ filled' = [filled EXCEPT ![r] = entry["reg"].id]
      BY <1>3 DEF Access
    <3>2. r \in Registers /\ entry["reg"].id \in 0 .. MaxCalls /\ Zero \in Values
      BY <1>1, LinkAssumption
    <3>3. /\ value \in [Registers -> Values \union {Ones}]
          /\ device \in [Registers -> Values \union {Ones}]
          /\ status \in [Registers -> BOOLEAN] /\ filled \in [Registers -> 0 .. MaxCalls]
      BY DEF TypeOK
    <3>. HIDE DEF LInv, r
    <3>. QED  BY <3>1, <3>2, <3>3
  <2>3. TypeOK'
    <3>1. /\ UNCHANGED <<callVars, entry, reqCnt, respCnt, stale, last, rx, wire, answers,
                         sent, refused, midway, unsure>>
          /\ hurt' = (hurt \/ ~ok)
      BY <1>3 DEF Access
    <3>2. io' \in [pc : {"look", "send", "match", "count"}, kind : Kinds, write : BOOLEAN]
      BY <1>1, <2>1
    <3>3. TypeOK  OBVIOUS
    <3>. HIDE DEF LInv
    <3>. QED  BY <3>1, <3>2, <3>3, <2>2 DEF TypeOK, callVars
  <2>4. AccessOwned'
    BY <1>1, <1>3, <2>1 DEF Access, AccessOwned, Ours, SlotIsCall, TypeOK, callVars
  <2>5. OtherOwned'
    BY <1>1, <1>3, <2>1 DEF Access, OtherOwned, Tried, Ours, callVars
  <2>. QED  BY <1>3, <2>3, <2>4, <2>5, ThreadStep DEF Access
<1>4. ASSUME SendFrame
      PROVE  LInv'
  <2> DEFINE f == [context |-> reqCnt["reg"], id |-> entry["reg"].id, reg |-> entry["reg"].reg,
                   write |-> io.write, data |-> value[entry["reg"].reg]]
  <2>1. /\ io' = [io EXCEPT !.pc = "match"] /\ io.kind = "reg" /\ wire' = Append(wire, f)
        /\ UNCHANGED <<callVars, entry, reqCnt, midway, answers>>
    BY <1>4 DEF SendFrame, ghosts
  <2>2. f \in Owned(Frames)
    <3>1. f \in Frames
      BY <1>1, <1>4 DEF SendFrame, Frames, TypeOK
    <3>2. Ours("reg") => entry["reg"] = call
      BY DEF Ours, SlotIsCall
    <3>3. f.context = reqCnt["reg"] /\ f.id = entry["reg"].id /\ reqCnt["reg"] \in Nat
      BY <1>1 DEF TypeOK
    <3>. HIDE DEF f
    <3>. QED  BY <3>1, <3>2, <3>3 DEF Owned
  <2>3. Owned(Frames)' = Owned(Frames) /\ Owned(Answers)' = Owned(Answers)
    BY <2>1 DEF Owned, Ours, callVars
  <2>4. FramesOwned'
    BY <2>1, <2>2, <2>3 DEF FramesOwned
  <2>5. TypeOK'
    <3>1. f \in Frames
      BY <2>2 DEF Owned
    <3>. HIDE DEF f
    <3>2. wire' \in Seq(Frames)
      BY <2>1, <3>1 DEF TypeOK
    <3>3. io' \in [pc : {"look", "send", "match", "count"}, kind : Kinds, write : BOOLEAN]
      BY <1>1, <2>1
    <3>. QED  BY <1>4, <2>1, <3>2, <3>3 DEF SendFrame, TypeOK, callVars, regVars, ghosts
  <2>6. AccessOwned' /\ OtherOwned'
    BY <1>1, <1>4, <2>1 DEF SendFrame, AccessOwned, OtherOwned, Tried, Ours, callVars, ghosts
  <2>. QED  BY <2>1, <2>4, <2>5, <2>6 DEF SlotIsCall, TryLeft, SimpleWaits, callVars
<1>5. ASSUME NEW ok \in BOOLEAN, SendOther(ok)
      PROVE  LInv'
  <2>1. io' = [io EXCEPT !.pc = "match"] /\ io.kind # "reg"
    BY <1>5 DEF SendOther
  <2>2. /\ sent' \in [Simple -> 0 .. MaxCalls] /\ refused' \in [Simple -> 0 .. MaxCalls]
        /\ \A k \in Simple : IF k = io.kind
             THEN entry[k].id \in {sent'[k], refused'[k]}
             ELSE sent'[k] = sent[k] /\ refused'[k] = refused[k]
    BY <1>1, <1>5 DEF SendOther, TypeOK
  <2>3. TypeOK'
    BY <1>1, <1>5, <2>1, <2>2 DEF SendOther, TypeOK, callVars, regVars, wireVars
  <2>4. AccessOwned'
    BY <1>1, <1>5, <2>1 DEF SendOther, AccessOwned, Ours, callVars
  <2>5. OtherOwned'
    BY <1>1, <1>5, <2>1, <2>2 DEF SendOther, OtherOwned, Tried, Ours, SlotIsCall, callVars
  <2>. QED  BY <1>5, <2>3, <2>4, <2>5, ThreadStep DEF SendOther, wireVars
<1>6. ASSUME Match
      PROVE  LInv'
  <2>1. io' = [io EXCEPT !.pc = IF io.kind \in Simple THEN "count" ELSE "look"] /\ io.pc = "match"
    BY <1>6 DEF Match
  <2>2. last' \in [Kinds -> Nat]
    BY <1>1, <1>6 DEF Match, TypeOK
  <2>3. TypeOK'
    BY <1>1, <1>6, <2>1, <2>2 DEF Match, TypeOK, callVars, regVars, wireVars, ghosts
  <2>4. AccessOwned' /\ OtherOwned'
    BY <1>1, <1>6, <2>1 DEF Match, AccessOwned, OtherOwned, Tried, Ours, callVars, ghosts
  <2>. QED  BY <1>6, <2>3, <2>4, ThreadStep DEF Match, wireVars, ghosts
<1>7. ASSUME Count
      PROVE  LInv'
  <2>1. /\ io' = [io EXCEPT !.pc = IF io.kind \in Simple THEN "look" ELSE "match"] /\ io.pc = "count"
        /\ respCnt' = [respCnt EXCEPT ![io.kind] = @ + 1]
    BY <1>7 DEF Count
  <2>2. respCnt' \in [Kinds -> Nat]
    <3>1. respCnt \in [Kinds -> Nat] /\ respCnt[io.kind] + 1 \in Nat
      BY <1>1 DEF TypeOK
    <3>. QED  BY <2>1, <3>1
  <2>3. TypeOK'
    <3>1. UNCHANGED <<callVars, entry, reqCnt, regVars, last, rx, wireVars, ghosts>>
      BY <1>7 DEF Count
    <3>2. io' \in [pc : {"look", "send", "match", "count"}, kind : Kinds, write : BOOLEAN]
      BY <1>1, <2>1
    <3>. QED  BY <2>2, <3>1, <3>2 DEF TypeOK, callVars, regVars, wireVars, ghosts
  <2>4. AccessOwned'
    BY <1>1, <1>7, <2>1 DEF Count, AccessOwned, Ours, TypeOK, callVars, ghosts
  <2>5. OtherOwned'
    <3>1. \A k \in Kinds \ {io.kind} : respCnt'[k] = respCnt[k]
      BY <2>1 DEF TypeOK
    <3>2. ASSUME NEW k \in Simple, Ours(k)'
          PROVE  /\ io'.kind = k /\ io'.pc \in {"match", "count"} => Tried(k)'
                 /\ respCnt'[k] # currResp' => Tried(k)'
                 /\ pc' = "ok" => Tried(k)'
      <4>1. Ours(k) /\ Tried(k)' = Tried(k) /\ call' = call /\ pc' = pc /\ currResp' = currResp /\ k \in Kinds
        BY <1>1, <1>7, <3>2 DEF Count, Ours, Tried, callVars, ghosts
      <4>2. io'.pc # "count" /\ io'.kind = io.kind /\ (io'.pc = "match" => io.kind \notin Simple)
        BY <1>1, <2>1
      <4>. QED  BY <2>1, <3>1, <4>1, <4>2 DEF OtherOwned
    <3>. QED  BY <3>2 DEF OtherOwned
  <2>. QED  BY <1>7, <2>3, <2>4, <2>5, ThreadStep DEF Count, wireVars, ghosts
<1>. QED  BY <1>2, <1>3, <1>4, <1>5, <1>6, <1>7 DEF Transmit

-----------------------------------------------------------------------------
(* The hardware and the receive thread                                     *)

(* Frames that are taken off a channel leave those that are there.         *)
LEMMA TailOver ==
  ASSUME NEW S, NEW s \in Seq(S), s # << >>
  PROVE  Tail(s) \in Seq(S) /\ Head(s) \in S
OBVIOUS

LEMMA OwnedUnchanged ==
  ASSUME UNCHANGED <<callVars, reqCnt, midway>>
  PROVE  Owned(Frames)' = Owned(Frames) /\ Owned(Answers)' = Owned(Answers)
BY DEF Owned, Ours, callVars

(* The answer to a frame is owned as the frame was. *)
LEMMA PerformStep ==
  ASSUME LInv, NEW ok \in BOOLEAN, Perform(ok)
  PROVE  LInv'
<1>. USE DEF LInv
<1> DEFINE f == Head(wire)
           d == IF ok /\ f.write THEN [device EXCEPT ![f.reg] = f.data] ELSE device
           a == [context |-> f.context, id |-> f.id, reg |-> f.reg,
                 status |-> ok, data |-> d[f.reg]]
<1>1. /\ wire # << >> /\ device' = d /\ wire' = Tail(wire) /\ answers' = Append(answers, a)
      /\ hurt' = (hurt \/ ~ok)
      /\ UNCHANGED <<callVars, entry, reqCnt, respCnt, regVars, io, last, rx,
                     filled, sent, refused, midway, unsure>>
  BY DEF Perform
<1>2. f \in Owned(Frames) /\ Tail(wire) \in Seq(Owned(Frames))
  BY <1>1, TailOver DEF FramesOwned
<1>3. f \in Frames /\ Tail(wire) \in Seq(Frames)
  BY <1>1, TailOver DEF TypeOK
<1>4. d \in [Registers -> Values \union {Ones}]
  BY <1>3 DEF TypeOK, Frames
<1>5. a \in Answers
  BY <1>3, <1>4 DEF Frames, Answers, Registers
<1>6. a \in Owned(Answers)
  <2>1. /\ f.context <= reqCnt["reg"]
        /\ Ours("reg") /\ f.context = reqCnt["reg"] => f.id = call.id
    BY <1>2 DEF Owned
  <2>2. a.context = f.context /\ a.id = f.id
    OBVIOUS
  <2>. HIDE DEF a, f
  <2>. QED  BY <1>5, <2>1, <2>2 DEF Owned
<1>. HIDE DEF a, d, f
<1>7. FramesOwned'
  BY <1>1, <1>2, <1>6, OwnedUnchanged DEF FramesOwned
<1>8. TypeOK'
  <2>1. wire' \in Seq(Frames) /\ answers' \in Seq(Answers) /\ hurt' \in BOOLEAN
    BY <1>1, <1>3, <1>5 DEF TypeOK
  <2>. QED  BY <1>1, <1>4, <2>1 DEF TypeOK, callVars, regVars
<1>9. AccessOwned' /\ OtherOwned' /\ SlotIsCall' /\ TryLeft' /\ SimpleWaits'
  BY <1>1 DEF AccessOwned, OtherOwned, Tried, Ours, SlotIsCall, TryLeft, SimpleWaits, callVars
<1>. QED  BY <1>7, <1>8, <1>9

LEMMA LossStep == LInv /\ (LoseFrame \/ LoseAnswer) => LInv'
<1> SUFFICES ASSUME LInv, LoseFrame \/ LoseAnswer PROVE LInv'
  OBVIOUS
<1>. USE DEF LInv
<1>1. /\ wire' \in Seq(Frames) /\ answers' \in Seq(Answers)
      /\ wire' \in Seq(Owned(Frames)) /\ answers' \in Seq(Owned(Answers))
  <2>1. /\ wire' = wire \/ (wire # << >> /\ wire' = Tail(wire))
        /\ answers' = answers \/ (answers # << >> /\ answers' = Tail(answers))
    BY DEF LoseFrame, LoseAnswer
  <2>2. /\ wire \in Seq(Frames) /\ answers \in Seq(Answers)
        /\ wire \in Seq(Owned(Frames)) /\ answers \in Seq(Owned(Answers))
    BY DEF TypeOK, FramesOwned
  <2>3. wire' \in Seq(Frames) /\ wire' \in Seq(Owned(Frames))
    BY <2>1, <2>2, TailOver
  <2>4. answers' \in Seq(Answers) /\ answers' \in Seq(Owned(Answers))
    BY <2>1, <2>2, TailOver
  <2>. QED  BY <2>3, <2>4
<1>2. /\ hurt' = TRUE
      /\ UNCHANGED <<callVars, entry, reqCnt, respCnt, regVars, io, last, rx, device,
                     filled, sent, refused, midway, unsure>>
  BY DEF LoseFrame, LoseAnswer
<1>3. FramesOwned'
  BY <1>1, <1>2, OwnedUnchanged DEF FramesOwned
<1>4. TypeOK'
  BY <1>1, <1>2 DEF TypeOK, callVars, regVars
<1>5. AccessOwned' /\ OtherOwned' /\ SlotIsCall' /\ TryLeft' /\ SimpleWaits'
  BY <1>2 DEF AccessOwned, OtherOwned, Tried, Ours, SlotIsCall, TryLeft, SimpleWaits, callVars
<1>. QED  BY <1>3, <1>4, <1>5

LEMMA ReceiveStep == LInv /\ Receive => LInv'
<1> SUFFICES ASSUME LInv, Receive PROVE LInv'
  OBVIOUS
<1>. USE DEF LInv
<1>1. /\ rx \in [pc : {"idle", "count"}] \union [pc : {"copy"}, answer : Answers]
      /\ entry["reg"].reg \in Registers /\ "reg" \in Kinds /\ "reg" \notin Simple
  BY CallFields DEF TypeOK, Kinds, Simple
<1>2. ASSUME RxCheck
      PROVE  LInv'
  <2> DEFINE a == Head(answers)
  <2>1. /\ rx.pc = "idle" /\ answers # << >> /\ answers' = Tail(answers)
        /\ rx' = IF Expected(a) THEN [pc |-> "copy", answer |-> a] ELSE rx
        /\ UNCHANGED <<callVars, entry, reqCnt, respCnt, regVars, io, last, wire, device, ghosts>>
    BY <1>2 DEF RxCheck
  <2>2. a \in Owned(Answers) /\ Tail(answers) \in Seq(Owned(Answers))
    BY <2>1, TailOver DEF FramesOwned
  <2>3. a \in Answers /\ Tail(answers) \in Seq(Answers)
    BY <2>1, TailOver DEF TypeOK
  <2>. HIDE DEF a
  <2>4. rx' \in [pc : {"idle", "count"}] \union [pc : {"copy"}, answer : Answers]
    BY <1>1, <2>1, <2>3
  <2>5. TypeOK'
    BY <2>1, <2>3, <2>4 DEF TypeOK, callVars, regVars, ghosts
  <2>6. FramesOwned'
    BY <2>1, <2>2, OwnedUnchanged DEF FramesOwned, ghosts
  <2>7. AccessOwned'
    BY <2>1, <2>2 DEF AccessOwned, Ours, Owned, Expected, callVars, ghosts
  <2>8. OtherOwned' /\ SlotIsCall' /\ TryLeft' /\ SimpleWaits'
    BY <2>1 DEF OtherOwned, Tried, Ours, SlotIsCall, TryLeft, SimpleWaits, callVars, ghosts
  <2>. QED  BY <2>5, <2>6, <2>7, <2>8
<1>3. ASSUME RxCopy
      PROVE  LInv'
  <2>1. /\ rx.pc = "copy" /\ rx' = [pc |-> "count"]
        /\ filled' = [filled EXCEPT ![entry["reg"].reg] = rx.answer.id]
        /\ UNCHANGED <<callVars, entry, reqCnt, respCnt, stale, io, last, wireVars,
                       sent, refused, midway, unsure, hurt>>
    BY <1>3 DEF RxCopy
  <2>2. rx.answer \in Answers
    BY <1>1, <2>1
  <2>3. /\ value' \in [Registers -> Values \union {Ones}]
        /\ status' \in [Registers -> BOOLEAN]
        /\ filled' \in [Registers -> 0 .. MaxCalls]
    BY <1>1, <1>3, <2>2 DEF RxCopy, TypeOK, Answers
  <2>4. TypeOK'
    BY <2>1, <2>3 DEF TypeOK, callVars, wireVars
  <2>5. AccessOwned'
    BY <1>1, <2>1 DEF AccessOwned, Ours, SlotIsCall, TypeOK, callVars
  <2>6. OtherOwned'
    BY <2>1 DEF OtherOwned, Tried, Ours, callVars
  <2>. QED  BY <2>1, <2>4, <2>5, <2>6, ThreadStep DEF wireVars
<1>4. ASSUME RxCount
      PROVE  LInv'
  <2>1. /\ rx.pc = "count" /\ rx' = [pc |-> "idle"]
        /\ respCnt' = [respCnt EXCEPT !["reg"] = @ + 1]
        /\ UNCHANGED <<callVars, entry, reqCnt, regVars, io, last, wireVars, ghosts>>
    BY <1>4 DEF RxCount
  <2>2. TypeOK'
    <3>1. respCnt \in [Kinds -> Nat] /\ respCnt["reg"] + 1 \in Nat
      BY <1>1 DEF TypeOK
    <3>2. respCnt' \in [Kinds -> Nat]
      BY <2>1, <3>1
    <3>. QED  BY <2>1, <3>2 DEF TypeOK, callVars, regVars, wireVars, ghosts
  <2>3. AccessOwned' /\ OtherOwned'
    BY <1>1, <2>1 DEF AccessOwned, OtherOwned, Tried, Ours, TypeOK, callVars, ghosts
  <2>. QED  BY <2>1, <2>2, <2>3, ThreadStep DEF wireVars, ghosts
<1>. QED  BY <1>2, <1>3, <1>4 DEF Receive

-----------------------------------------------------------------------------
LEMMA LInvNext == LInv /\ [Next]_vars => LInv'
<1> SUFFICES ASSUME LInv, [Next]_vars PROVE LInv'
  OBVIOUS
<1>1. CASE Requests
  BY <1>1, RequestStep
<1>2. CASE Caller
  BY <1>2, ReadStep, TryStep, WaitOverStep DEF Caller
<1>3. CASE Transmit
  BY <1>3, TransmitStep
<1>4. CASE Receive
  BY <1>4, ReceiveStep
<1>5. CASE Hardware
  BY <1>5, PerformStep, LossStep DEF Hardware
<1>6. CASE UNCHANGED vars
  <2>1. UNCHANGED <<callVars, entry, reqCnt, midway, wire, answers>>
    BY <1>6 DEF vars, wireVars, ghosts
  <2>2. TypeOK'
    BY <1>6 DEF LInv, TypeOK, vars, callVars, regVars, wireVars, ghosts
  <2>3. AccessOwned' /\ OtherOwned'
    BY <1>6 DEF LInv, AccessOwned, OtherOwned, Tried, Ours, vars, callVars, ghosts
  <2>. QED  BY <2>1, <2>2, <2>3, ThreadStep DEF LInv
<1>. QED  BY <1>1, <1>2, <1>3, <1>4, <1>5, <1>6 DEF Next

(* The variables keep their types, for any number of registers, calls and  *)
(* tries.                                                                  *)
THEOREM LinkTypes == Spec => []TypeOK
<1>1. LInv => TypeOK
  BY DEF LInv
<1>. QED  BY LInvInit, LInvNext, <1>1, PTL DEF Spec

(* A waited access that succeeds was answered for this very call, unless a *)
(* thread was amid an answer when the request was counted or had counted   *)
(* one since the count was read: for any number of tries, of calls that do *)
(* not wait or are given up, and of answers that are lost or late.         *)
THEOREM LinkOwnAnswer == Spec => []OwnAnswer
<1>1. LInv => OwnAnswer
  BY DEF LInv, AccessOwned, OwnAnswer, Ours
<1>. QED  BY LInvInit, LInvNext, <1>1, PTL DEF Spec

(* A command or a transfer that is reported as done has been sent, or its  *)
(* own transmission failed unseen, with the same exception.                *)
THEOREM LinkReallySent == Spec => []ReallySent
<1>1. LInv => ReallySent
  BY DEF LInv, OtherOwned, ReallySent, Ours
<1>. QED  BY LInvInit, LInvNext, <1>1, PTL DEF Spec

-----------------------------------------------------------------------------
(* What the program has of a register is what the hardware has             *)

Elems(s) == {s[i] : i \in DOMAIN s}

(* The frames with the last count. *)
Now(S) == {f \in S : f.context = reqCnt["reg"]}

(* The counts on the two channels rise, and the answers are before the     *)
(* requests.                                                               *)
Rising(s) == \A i, j \in DOMAIN s : i < j => s[i].context < s[j].context

InTurn ==
  /\ Rising(wire) /\ Rising(answers)
  /\ \A a \in Elems(answers), f \in Elems(wire) : a.context < f.context

(* The transmit thread will not send a frame before the next request.      *)
IoDone ==
  /\ ~(io.kind = "reg" /\ io.pc = "send")
  /\ last["reg"] = reqCnt["reg"] \/ (io.kind = "reg" /\ io.pc = "match")

(* It sends no two with one count. *)
OneFrame == Now(Elems(wire) \union Elems(answers)) # {} => IoDone

Emptied == wire = << >> /\ answers = << >> /\ IoDone

(* The register is what a call in progress is about. *)
Amid(r) == pc \in {"set", "count", "wait"} /\ call.kind = "reg" /\ call.reg = r

(* The program is right about a register, and nothing is under way that    *)
(* could change that.                                                      *)
Settled(r) ==
  /\ value[r] = device[r]
  /\ \A f \in Elems(wire) : ~(f.reg = r /\ f.write)
  /\ entry["reg"].reg = r => rx.pc # "copy" /\ IoDone /\ (r \in Remote => Emptied)

AllSettled == \A r \in Registers \ unsure : stale[r] \/ Amid(r) \/ Settled(r)

(* A register that is being written is stale until it has been. *)
WriteIsStale ==
  call.kind = "reg" /\ call.write /\ pc \in {"set", "count", "wait"} => stale[call.reg]

(* What an answer says of the register of the call is so. *)
Right(a) ==
  a.status => device[call.reg] = IF call.write THEN value[call.reg] ELSE a.data

(* The call waits, and no other answer could be mistaken for its own.      *)
Waits == pc = "wait" /\ Ours("reg")

(* How the answer for a mapped register comes about, ... *)
ByAccess ==
  Waits /\ call.reg \in Mapped =>
    /\ rx.pc = "idle"
    /\ (io.kind = "reg" /\ io.pc = "count") \/ respCnt["reg"] # currResp
         => (status[call.reg] => value[call.reg] = device[call.reg])
    /\ respCnt["reg"] # currResp => IoDone

(* ... and that for a remote one. *)
ByFrame ==
  Waits /\ call.reg \in Remote =>
    /\ io.kind = "reg" => /\ io.pc # "count"
                          /\ io.pc = "send" => io.write = call.write
    /\ \A f \in Now(Elems(wire)) :
         /\ f.reg = call.reg /\ f.write = call.write
         /\ f.write => f.data = value[call.reg]
    /\ \A a \in Now(Elems(answers)) : Right(a)
    /\ rx.pc = "copy" => Emptied /\ Right(rx.answer)
    /\ rx.pc = "count" \/ respCnt["reg"] # currResp =>
         Emptied /\ (status[call.reg] => value[call.reg] = device[call.reg])
    /\ respCnt["reg"] # currResp => rx.pc = "idle"

CInv == InTurn /\ OneFrame /\ AllSettled /\ WriteIsStale /\ ByAccess /\ ByFrame

-----------------------------------------------------------------------------
(* One retry is enough                                                     *)

(* A register access that is in progress, to which nothing has happened. *)
Unhurt == call.kind = "reg" /\ ~hurt

(* The transmit thread is amid a register request only when there is one   *)
(* it has not matched.                                                     *)
IoPending ==
  /\ last["reg"] <= reqCnt["reg"]
  /\ io.kind = "reg" /\ io.pc # "look" => last["reg"] # reqCnt["reg"]

(* Something of the request is under way, or it has been answered.         *)
UnderWay ==
  wire # << >> \/ answers # << >> \/ rx.pc # "idle" \/ respCnt["reg"] # currResp

(* Before it is counted. *)
Ready ==
  pc \in {"set", "count"} /\ Unhurt =>
    /\ Quiet("reg") /\ tries <= 1
    /\ tries = 1 => last["reg"] = reqCnt["reg"]
    /\ pc = "count" => currResp = respCnt["reg"]

(* While it waits. *)
Served ==
  pc = "wait" /\ Unhurt =>
    /\ tries \in {1, 2}
    /\ \A f \in Elems(wire) \union Elems(answers) :
         f.context = reqCnt["reg"] /\ f.reg = call.reg
    /\ \A a \in Elems(answers) : a.status
    /\ rx.pc = "copy" => rx.answer.status
    /\ \/ rx.pc = "count"
       \/ io.kind = "reg" /\ io.pc = "count"
       \/ respCnt["reg"] # currResp
       => status[call.reg]
    /\ tries = 2 /\ IoDone => UnderWay

CountedUp == pc \in {"count", "wait"} => currResp <= respCnt[call.kind]

RegGood == call.kind = "reg" => call.good

RInv == IoPending /\ Ready /\ Served /\ CountedUp /\ RegGood /\ OneRetry
-----------------------------------------------------------------------------
(* The first of the two                                                    *)

LEMMA ElemsTail ==
  ASSUME NEW S, NEW s \in Seq(S), s # << >>
  PROVE  /\ Head(s) \in Elems(s) /\ Elems(Tail(s)) \subseteq Elems(s)
         /\ Rising(s) => /\ Rising(Tail(s))
                         /\ \A f \in Elems(Tail(s)) : Head(s).context < f.context
<1>. DEFINE n == Len(s)  t == Tail(s)
<1>1. /\ n \in Nat \ {0} /\ DOMAIN s = 1 .. n /\ DOMAIN t = 1 .. n - 1
      /\ Head(s) = s[1] /\ \A i \in 1 .. n - 1 : t[i] = s[i + 1]
  OBVIOUS
<1>. HIDE DEF n, t
<1>2. /\ 1 \in 1 .. n
      /\ \A i \in 1 .. n - 1 : i + 1 \in 1 .. n /\ 1 < i + 1
      /\ \A i, j \in 1 .. n - 1 : i < j => i + 1 < j + 1
  BY <1>1
<1>3. Head(s) \in Elems(s) /\ Elems(t) \subseteq Elems(s)
  BY <1>1, <1>2 DEF Elems
<1>4. ASSUME Rising(s) PROVE Rising(t) /\ \A f \in Elems(t) : s[1].context < f.context
  <2>1. Rising(t)
    BY <1>1, <1>2, <1>4 DEF Rising
  <2>2. \A i \in 1 .. n - 1 : s[1].context < s[i + 1].context
    BY <1>1, <1>2, <1>4 DEF Rising
  <2>. QED  BY <1>1, <2>1, <2>2 DEF Elems
<1>. QED  BY <1>1, <1>3, <1>4 DEF t

LEMMA ElemsAppend ==
  ASSUME NEW S, NEW s \in Seq(S), NEW x \in S
  PROVE  /\ Elems(Append(s, x)) = Elems(s) \union {x}
         /\ Rising(s) /\ (\A f \in Elems(s) : f.context < x.context)
              => Rising(Append(s, x))
<1>. DEFINE n == Len(s)  t == Append(s, x)
<1>1. /\ n \in Nat /\ DOMAIN s = 1 .. n /\ DOMAIN t = 1 .. n + 1
      /\ t[n + 1] = x /\ \A i \in 1 .. n : t[i] = s[i]
  OBVIOUS
<1>. HIDE DEF n, t
<1>2. /\ \A i \in 1 .. n + 1 : i \in 1 .. n \/ i = n + 1
      /\ \A i \in 1 .. n : i \in 1 .. n + 1
      /\ n + 1 \in 1 .. n + 1
      /\ \A i, j \in 1 .. n + 1 : i < j => i \in 1 .. n
  BY <1>1
<1>3. Elems(t) = Elems(s) \union {x}
  BY <1>1, <1>2 DEF Elems
<1>4. ASSUME Rising(s), \A f \in Elems(s) : f.context < x.context PROVE Rising(t)
  <2>1. \A i \in 1 .. n : s[i].context < x.context
    BY <1>1, <1>4 DEF Elems
  <2>2. ASSUME NEW i \in 1 .. n + 1, NEW j \in 1 .. n + 1, i < j
        PROVE  t[i].context < t[j].context
    <3>1. i \in 1 .. n
      BY <1>2, <2>2
    <3>2. CASE j \in 1 .. n
      BY <1>1, <1>4, <2>2, <3>1, <3>2 DEF Rising
    <3>3. CASE j = n + 1
      BY <1>1, <2>1, <3>1, <3>3
    <3>. QED  BY <1>2, <3>2, <3>3
  <2>. QED  BY <1>1, <2>2 DEF Rising
<1>. QED  BY <1>3, <1>4 DEF t

LEMMA ElemsEmpty ==
  ASSUME NEW S, NEW s \in Seq(S), Elems(s) = {}
  PROVE  s = << >>
<1>1. s # << >> => Head(s) \in Elems(s)
  BY ElemsTail
<1>. QED  BY <1>1

(* What is on the channels. *)
LEMMA OnChannels ==
  ASSUME LInv
  PROVE  /\ reqCnt["reg"] \in Nat
         /\ wire \in Seq(Frames) /\ answers \in Seq(Answers)
         /\ \A f \in Elems(wire) :
              f \in Frames /\ f.context \in Nat /\ f.context <= reqCnt["reg"]
         /\ \A a \in Elems(answers) :
              a \in Answers /\ a.context \in Nat /\ a.context <= reqCnt["reg"]
<1>1. /\ wire \in Seq(Frames) /\ answers \in Seq(Answers)
      /\ wire \in Seq(Owned(Frames)) /\ answers \in Seq(Owned(Answers))
      /\ reqCnt["reg"] \in Nat
  BY DEF LInv, TypeOK, FramesOwned, Kinds
<1>2. \A f \in Elems(wire) : f \in Owned(Frames)
  BY <1>1 DEF Elems
<1>3. \A a \in Elems(answers) : a \in Owned(Answers)
  BY <1>1 DEF Elems
<1>4. \A f \in Frames \union Answers : f.context \in Nat
  BY DEF Frames, Answers
<1>. QED  BY <1>1, <1>2, <1>3, <1>4 DEF Owned

(* The call in the slot and where the transmit thread is.                  *)
LEMMA LinkNow ==
  ASSUME LInv
  PROVE  /\ call.reg \in Registers /\ call.kind \in Kinds /\ entry["reg"].reg \in Registers
         /\ pc # "idle" /\ call.kind = "reg" => entry["reg"] = call
         /\ io.kind \in Kinds /\ io.pc \in {"look", "send", "match", "count"}
         /\ "reg" \in Kinds /\ "reg" \notin Simple /\ Simple \subseteq Kinds
         /\ Mapped \intersect Remote = {} /\ Registers = Mapped \union Remote
BY CallFields, LinkAssumption DEF LInv, TypeOK, SlotIsCall, Kinds, Simple, Registers

LEMMA CInvInit == Init => CInv
<1>. SUFFICES ASSUME Init PROVE CInv
  OBVIOUS
<1>1. wire = << >> /\ answers = << >> /\ unsure = Registers /\ pc = "idle"
  BY DEF Init
<1>2. Elems(wire) = {} /\ Elems(answers) = {} /\ Rising(wire) /\ Rising(answers)
  BY <1>1 DEF Elems, Rising
<1>. QED  BY <1>1, <1>2 DEF CInv, InTurn, OneFrame, Now, AllSettled, WriteIsStale, ByAccess,
               ByFrame, Waits

(* A request is begun: the register of an access is then in progress.      *)
LEMMA BeginKeeps ==
  ASSUME LInv, CInv, NEW c \in Calls, Begin(c),
         \A r \in Registers : c.kind # "reg" \/ r # c.reg =>
                                value'[r] = value[r] /\ stale'[r] = stale[r],
         c.kind = "reg" /\ c.write => stale'[c.reg]
  PROVE  CInv'
<1>1. /\ pc' = "set" /\ call' = c /\ entry' = [entry EXCEPT ![c.kind] = c]
      /\ pc \notin {"set", "count", "wait"}
      /\ UNCHANGED <<reqCnt, io, last, rx, wire, answers, device, unsure>>
  BY DEF Begin, Free, wireVars
<1>2. InTurn' /\ OneFrame'
  BY <1>1 DEF CInv, InTurn, OneFrame, Now, IoDone
<1>3. AllSettled'
  <2>. SUFFICES ASSUME NEW r \in Registers, r \notin unsure
                PROVE  stale'[r] \/ Amid(r)' \/ Settled(r)'
    BY <1>1 DEF AllSettled
  <2>1. CASE c.kind = "reg" /\ r = c.reg
    BY <1>1, <2>1 DEF Amid
  <2>2. CASE ~(c.kind = "reg" /\ r = c.reg)
    <3>1. value'[r] = value[r] /\ stale'[r] = stale[r]
      BY <2>2
    <3>2. stale[r] \/ Settled(r)
      BY <1>1 DEF CInv, AllSettled, Amid
    <3>3. entry'["reg"].reg = r => entry["reg"].reg = r
      <4>1. entry \in [Kinds -> Calls] /\ c.kind \in Kinds /\ "reg" \in Kinds
        BY CallFields, LinkNow DEF LInv, TypeOK
      <4>. QED  BY <1>1, <2>2, <4>1
    <3>4. IoDone' = IoDone
      BY <1>1 DEF IoDone
    <3>. QED  BY <1>1, <3>1, <3>2, <3>3, <3>4 DEF Settled, Emptied
  <2>. QED  BY <2>1, <2>2
<1>4. WriteIsStale'
  BY <1>1 DEF WriteIsStale
<1>5. ByAccess' /\ ByFrame'
  BY <1>1 DEF ByAccess, ByFrame, Waits
<1>. QED  BY <1>2, <1>3, <1>4, <1>5 DEF CInv

LEMMA RequestKeeps == LInv /\ CInv /\ Requests => CInv'
<1>. SUFFICES ASSUME LInv, CInv, Requests PROVE CInv'
  OBVIOUS
<1>1. /\ call \in Calls
      /\ value \in [Registers -> Values \union {Ones}] /\ stale \in [Registers -> BOOLEAN]
  BY DEF LInv, TypeOK
<1>2. ASSUME NEW r \in Registers, NEW v \in Values, NEW force \in BOOLEAN,
             NEW wait \in BOOLEAN, WriteRegister(r, v, force, wait)
      PROVE  CInv'
  <2>. DEFINE c == [NewCall("reg") EXCEPT !.reg = r, !.write = TRUE, !.wait = wait]
  <2>1. NewCall("reg") \in Calls /\ NewCall("reg").kind = "reg"
    BY <1>1, <1>2, NewCallType DEF WriteRegister, Begin, Free, Kinds
  <2>2. c \in Calls /\ c.kind = "reg" /\ c.reg = r
    BY <2>1 DEF Calls
  <2>3. /\ Begin(c)
        /\ value' = [value EXCEPT ![r] = v] /\ stale' = [stale EXCEPT ![r] = TRUE]
    BY <1>2 DEF WriteRegister
  <2>. HIDE DEF c
  <2>4. /\ \A s \in Registers : c.kind # "reg" \/ s # c.reg =>
                                  value'[s] = value[s] /\ stale'[s] = stale[s]
        /\ stale'[c.reg]
    BY <1>1, <2>2, <2>3
  <2>. QED  BY <2>2, <2>3, <2>4, BeginKeeps
<1>3. ASSUME NEW r \in Registers, ReadRegister(r)
      PROVE  CInv'
  <2>. DEFINE c == [NewCall("reg") EXCEPT !.reg = r, !.wait = TRUE]
  <2>1. NewCall("reg") \in Calls /\ NewCall("reg").kind = "reg" /\ ~NewCall("reg").write
    BY <1>1, <1>3, NewCallType DEF ReadRegister, Begin, Free, Kinds, NewCall, NoCall
  <2>2. c \in Calls /\ ~c.write
    BY <2>1 DEF Calls
  <2>3. Begin(c) /\ value' = value /\ stale' = stale
    BY <1>3 DEF ReadRegister
  <2>. HIDE DEF c
  <2>. QED  BY <2>2, <2>3, BeginKeeps
<1>4. ASSUME NEW k \in Kinds, k # "reg", NEW c \in Calls, c.kind = k,
             Begin(c), value' = value, stale' = stale
      PROVE  CInv'
  BY <1>4, BeginKeeps
<1>5. CASE QueueCommand
  <2>. DEFINE c == [NewCall("cmd") EXCEPT !.wait = TRUE]
  <2>1. NewCall("cmd") \in Calls /\ NewCall("cmd").kind = "cmd"
    BY <1>1, <1>5, NewCallType DEF QueueCommand, Begin, Free, Kinds
  <2>2. c \in Calls /\ c.kind = "cmd" /\ Begin(c) /\ value' = value /\ stale' = stale
    BY <1>5, <2>1 DEF QueueCommand, Calls
  <2>. HIDE DEF c
  <2>. QED  BY <1>4, <2>2 DEF Kinds
<1>6. ASSUME NEW good \in BOOLEAN, QueueDataTx(good)
      PROVE  CInv'
  <2>. DEFINE c == [NewCall("data") EXCEPT !.wait = TRUE, !.good = good]
  <2>1. NewCall("data") \in Calls /\ NewCall("data").kind = "data"
    BY <1>1, <1>6, NewCallType DEF QueueDataTx, Begin, Free, Kinds
  <2>2. c \in Calls /\ c.kind = "data" /\ Begin(c) /\ value' = value /\ stale' = stale
    BY <1>6, <2>1 DEF QueueDataTx, Calls
  <2>. HIDE DEF c
  <2>. QED  BY <1>4, <2>2 DEF Kinds
<1>7. CASE QueueRunCommand
  <2>1. NewCall("run") \in Calls /\ NewCall("run").kind = "run"
    BY <1>1, <1>7, NewCallType DEF QueueRunCommand, Begin, Free, Kinds
  <2>2. Begin(NewCall("run")) /\ value' = value /\ stale' = stale
    BY <1>7 DEF QueueRunCommand
  <2>. QED  BY <1>4, <2>1, <2>2 DEF Kinds
<1>. QED  BY <1>2, <1>3, <1>5, <1>6, <1>7 DEF Requests

(* The count of answers is read: the call is in progress, and waits for    *)
(* nothing yet.                                                            *)
LEMMA ReadKeeps ==
  ASSUME LInv, CInv, ReadCount
  PROVE  CInv'
<1>1. /\ pc = "set" /\ pc' = "count"
      /\ UNCHANGED <<call, entry, reqCnt, value, stale, io, last, rx, wire, answers, device, unsure>>
  BY DEF ReadCount, regVars, wireVars, ghosts
<1>2. InTurn' /\ OneFrame' /\ WriteIsStale'
  BY <1>1 DEF CInv, InTurn, OneFrame, Now, IoDone, WriteIsStale
<1>3. \A r \in Registers : Settled(r)' = Settled(r) /\ Amid(r)' = Amid(r)
  BY <1>1 DEF Settled, Emptied, IoDone, Amid
<1>4. AllSettled'
  BY <1>1, <1>3 DEF CInv, AllSettled
<1>5. ByAccess' /\ ByFrame'
  BY <1>1 DEF ByAccess, ByFrame, Waits
<1>. QED  BY <1>2, <1>4, <1>5 DEF CInv

(* A request is counted: no frame has the new count, and unless the caller *)
(* waits the program is unsure.                                            *)
LEMMA TryKeeps ==
  ASSUME LInv, CInv, Try
  PROVE  CInv'
<1>1. /\ pc = "count" /\ midway' = Mistakable(call.kind)
      /\ reqCnt' = [reqCnt EXCEPT ![call.kind] = @ + 1]
      /\ UNCHANGED <<call, currResp, entry, respCnt, value, status, io, last, rx, wire, answers, device>>
      /\ pc' \in {"wait", "ok", "failed"}
      /\ pc' = "wait" => UNCHANGED <<stale, unsure>>
      /\ pc' # "wait" /\ call.kind = "reg" =>
           /\ stale' = [stale EXCEPT ![call.reg] = FALSE]
           /\ unsure' = unsure \union {call.reg}
      /\ call.kind # "reg" => UNCHANGED <<stale, unsure>>
  BY DEF Try, wireVars
<1>2. reqCnt \in [Kinds -> Nat] /\ stale \in [Registers -> BOOLEAN]
  BY DEF LInv, TypeOK
<1>3. InTurn'
  BY <1>1 DEF CInv, InTurn
<1>4. CASE call.kind # "reg"
  <2>1. reqCnt'["reg"] = reqCnt["reg"] /\ unsure' = unsure /\ stale' = stale
    BY <1>1, <1>2, <1>4, LinkNow
  <2>2. IoDone' = IoDone /\ OneFrame'
    BY <1>1, <2>1 DEF CInv, OneFrame, Now, IoDone
  <2>3. \A r \in Registers : Settled(r)' = Settled(r) /\ ~Amid(r)
    BY <1>1, <1>4, <2>2 DEF Settled, Emptied, Amid
  <2>4. AllSettled'
    BY <2>1, <2>3 DEF CInv, AllSettled
  <2>5. WriteIsStale' /\ ByAccess' /\ ByFrame'
    BY <1>1, <1>4 DEF WriteIsStale, ByAccess, ByFrame, Waits, Ours
  <2>. QED  BY <1>3, <2>2, <2>4, <2>5 DEF CInv
<1>5. CASE call.kind = "reg"
  <2>1. reqCnt'["reg"] = reqCnt["reg"] + 1
    BY <1>1, <1>2, <1>5, LinkNow
  <2>2. Now(Elems(wire))' = {} /\ Now(Elems(answers))' = {}
        /\ Now(Elems(wire) \union Elems(answers))' = {}
    <3>1. \A f \in Elems(wire) \union Elems(answers) : f.context # reqCnt["reg"] + 1
      BY OnChannels
    <3>2. Elems(wire)' = Elems(wire) /\ Elems(answers)' = Elems(answers)
      BY <1>1 DEF Elems
    <3>. QED  BY <2>1, <3>1, <3>2 DEF Now
  <2>3. OneFrame'
    BY <2>2 DEF OneFrame
  <2>4. entry["reg"] = call
    BY <1>1, <1>5, LinkNow
  <2>5. ASSUME NEW r \in Registers, r \notin unsure'
        PROVE  stale'[r] \/ Amid(r)' \/ Settled(r)'
    <3>1. CASE r = call.reg
      BY <1>1, <1>5, <2>5, <3>1 DEF Amid
    <3>2. CASE r # call.reg
      <4>1. r \notin unsure /\ stale'[r] = stale[r] /\ ~Amid(r)
        BY <1>1, <1>2, <1>5, <2>5, <3>2 DEF Amid
      <4>2. stale[r] \/ Settled(r)
        BY <4>1 DEF CInv, AllSettled
      <4>3. Settled(r) => Settled(r)'
        BY <1>1, <2>4, <3>2 DEF Settled
      <4>. QED  BY <4>1, <4>2, <4>3
    <3>. QED  BY <3>1, <3>2
  <2>6. AllSettled'
    BY <2>5 DEF AllSettled
  <2>7. WriteIsStale'
    BY <1>1 DEF CInv, WriteIsStale
  <2>8. ByAccess' /\ ByFrame'
    <3>1. Waits' => /\ rx.pc = "idle" /\ respCnt'["reg"] = currResp'
                    /\ ~(io.kind = "reg" /\ io.pc \in {"send", "count"})
      BY <1>1, <1>5, LinkNow DEF Waits, Ours, Mistakable, Midway
    <3>2. ByAccess'
      BY <1>1, <3>1 DEF ByAccess
    <3>3. ByFrame'
      BY <1>1, <2>2, <3>1 DEF ByFrame
    <3>. QED  BY <3>2, <3>3
  <2>. QED  BY <1>3, <2>3, <2>6, <2>7, <2>8 DEF CInv
<1>. QED  BY <1>4, <1>5

(* A wait is over.                                                         *)
LEMMA WaitOverKeeps ==
  ASSUME LInv, CInv, pc = "wait", pc' \in {"set", "ok", "failed"},
         UNCHANGED <<call, entry, reqCnt, value, device, io, last, rx, wire, answers>>,
         unsure \ {call.reg} \subseteq unsure',
         \A r \in Registers : r # call.reg => stale'[r] = stale[r],
         pc' = "set" => stale' = stale,
         call.kind # "reg" => stale' = stale /\ unsure' = unsure,
         call.kind = "reg" /\ pc' # "set" =>
           stale'[call.reg] \/ call.reg \in unsure' \/ Settled(call.reg)
  PROVE  CInv'
<1>1. InTurn' /\ OneFrame' /\ IoDone' = IoDone
  BY DEF CInv, InTurn, OneFrame, Now, IoDone
<1>2. WriteIsStale'
  BY DEF CInv, WriteIsStale
<1>3. ByAccess' /\ ByFrame'
  BY DEF ByAccess, ByFrame, Waits
<1>4. \A r \in Registers : Settled(r)' = Settled(r)
  BY <1>1 DEF Settled, Emptied
<1>5. ASSUME NEW r \in Registers, r \notin unsure'
      PROVE  stale'[r] \/ Amid(r)' \/ Settled(r)'
  <2>1. CASE call.kind = "reg" /\ r = call.reg
    BY <1>4, <1>5, <2>1 DEF Amid
  <2>2. CASE ~(call.kind = "reg" /\ r = call.reg)
    <3>1. r \notin unsure /\ stale'[r] = stale[r] /\ ~Amid(r)
      BY <1>5, <2>2 DEF Amid
    <3>. QED  BY <1>4, <3>1 DEF CInv, AllSettled
  <2>. QED  BY <2>1, <2>2
<1>6. AllSettled'
  BY <1>5 DEF AllSettled
<1>. QED  BY <1>1, <1>2, <1>3, <1>6 DEF CInv

(* A try fails. *)
LEMMA AgainLeaves ==
  ASSUME CInv, pc = "wait", Again
  PROVE  /\ pc' \in {"set", "failed"} /\ unsure \subseteq unsure'
         /\ call.kind # "reg" => unsure' = unsure
         /\ call.kind = "reg" /\ pc' # "set" => stale[call.reg] \/ call.reg \in unsure'
BY DEF Again, CInv, WriteIsStale

LEMMA AnsweredKeeps ==
  ASSUME LInv, CInv, Answered
  PROVE  CInv'
<1>1. /\ pc = "wait" /\ respCnt[call.kind] # currResp
      /\ UNCHANGED <<call, entry, reqCnt, value, device, io, last, rx, wire, answers>>
  BY DEF Answered, wireVars
<1>2. stale \in [Registers -> BOOLEAN]
  BY DEF LInv, TypeOK
<1>3. CASE call.kind = "reg" /\ ~status[call.reg]
  <2>1. Again /\ stale' = stale
    BY <1>3 DEF Answered
  <2>. QED  BY <1>1, <2>1, AgainLeaves, WaitOverKeeps
<1>4. CASE call.kind # "reg"
  <2>1. pc' = "ok" /\ UNCHANGED <<stale, unsure>>
    BY <1>4 DEF Answered
  <2>. QED  BY <1>1, <1>4, <2>1, WaitOverKeeps
<1>5. CASE call.kind = "reg" /\ status[call.reg]
  <2>1. /\ pc' = "ok" /\ stale' = [stale EXCEPT ![call.reg] = FALSE]
        /\ unsure' = IF midway THEN unsure \union {call.reg} ELSE unsure \ {call.reg}
    BY <1>5 DEF Answered
  <2>2. ~midway => Settled(call.reg)
    <3>. SUFFICES ASSUME ~midway PROVE Settled(call.reg)
      OBVIOUS
    <3>1. Waits
      BY <1>1, <1>5 DEF Waits, Ours
    <3>2. CASE call.reg \in Mapped
      <4>1. rx.pc = "idle" /\ IoDone /\ value[call.reg] = device[call.reg]
        BY <1>1, <1>5, <3>1, <3>2 DEF CInv, ByAccess
      <4>2. \A f \in Elems(wire) : f.reg # call.reg
        BY <3>2, OnChannels, LinkNow DEF Frames
      <4>. QED  BY <3>2, <4>1, <4>2, LinkNow DEF Settled
    <3>3. CASE call.reg \in Remote
      <4>1. rx.pc = "idle" /\ value[call.reg] = device[call.reg] /\ Emptied
        BY <1>1, <1>5, <3>1, <3>3 DEF CInv, ByFrame
      <4>2. Elems(wire) = {}
        BY <4>1 DEF Emptied, Elems
      <4>. QED  BY <4>1, <4>2 DEF Settled, Emptied
    <3>. QED  BY <3>2, <3>3, LinkNow
  <2>3. \A r \in Registers : r # call.reg => stale'[r] = stale[r]
    BY <1>2, <2>1
  <2>4. unsure \ {call.reg} \subseteq unsure' /\ (midway => call.reg \in unsure')
    BY <2>1
  <2>. QED  BY <1>1, <1>5, <2>1, <2>2, <2>3, <2>4, WaitOverKeeps
<1>. QED  BY <1>3, <1>4, <1>5

LEMMA TimedOutKeeps ==
  ASSUME LInv, CInv, TimedOut
  PROVE  CInv'
<1>1. /\ pc = "wait" /\ Again /\ stale' = stale
      /\ UNCHANGED <<call, entry, reqCnt, value, device, io, last, rx, wire, answers>>
  BY DEF TimedOut, wireVars, regVars
<1>. QED  BY <1>1, AgainLeaves, WaitOverKeeps

(* Steps of the transmit thread that touch no register and send no frame.  *)
LEMMA IoKeeps ==
  ASSUME CInv, UNCHANGED <<pc, call, entry, reqCnt, value, stale, wire, answers, device, unsure>>,
         IoDone => IoDone', rx' = rx \/ rx'.pc = "idle"
  PROVE  InTurn' /\ OneFrame' /\ AllSettled' /\ WriteIsStale'
<1>1. InTurn' /\ OneFrame' /\ WriteIsStale'
  BY DEF CInv, InTurn, OneFrame, Now, WriteIsStale
<1>2. \A r \in Registers : /\ Settled(r) => Settled(r)'
                           /\ Amid(r)' = Amid(r)
  BY DEF Settled, Emptied, Amid
<1>3. AllSettled'
  BY <1>2 DEF CInv, AllSettled
<1>. QED  BY <1>1, <1>3

LEMMA LookKeeps ==
  ASSUME LInv, CInv, NEW k \in Kinds, Look(k)
  PROVE  CInv'
<1>1. /\ io.pc = "look" /\ last[k] # reqCnt[k]
      /\ io' = [pc |-> "send", kind |-> k, write |-> entry["reg"].write]
      /\ UNCHANGED <<pc, call, currResp, entry, reqCnt, respCnt, value, status, stale, last, rx,
                     wire, answers, device, midway, unsure>>
  BY DEF Look, Pending, callVars, regVars, wireVars, ghosts
<1>2. IoDone => IoDone' /\ k # "reg"
  BY <1>1 DEF IoDone
<1>3. InTurn' /\ OneFrame' /\ AllSettled' /\ WriteIsStale'
  BY <1>1, <1>2, IoKeeps
<1>4. ByAccess'
  BY <1>1, <1>2 DEF CInv, ByAccess, Waits, Ours
<1>5. ByFrame'
  <2>. SUFFICES ASSUME Waits', (call.reg \in Remote)' PROVE ByFrame'
    BY DEF ByFrame
  <2>1. Waits /\ call.reg \in Remote /\ entry["reg"] = call
    BY <1>1, LinkNow DEF Waits, Ours
  <2>2. ByFrame
    BY DEF CInv
  <2>3. Emptied => Emptied'
    BY <1>1, <1>2 DEF Emptied
  <2>4. Now(Elems(wire))' = Now(Elems(wire)) /\ Now(Elems(answers))' = Now(Elems(answers))
        /\ \A a : Right(a)' = Right(a)
    BY <1>1 DEF Now, Elems, Right
  <2>. QED  BY <1>1, <2>1, <2>2, <2>3, <2>4 DEF ByFrame
<1>. QED  BY <1>3, <1>4, <1>5 DEF CInv

(* The access itself leaves the register as the program has it, or the     *)
(* program with what the register has, or an error for the status.         *)
LEMMA AccessKeeps ==
  ASSUME LInv, CInv, NEW ok \in BOOLEAN, Access(ok)
  PROVE  CInv'
<1>. DEFINE g == entry["reg"].reg
<1>1. /\ io.pc = "send" /\ io.kind = "reg" /\ g \in Mapped /\ io' = [io EXCEPT !.pc = "count"]
      /\ UNCHANGED <<pc, call, currResp, entry, reqCnt, respCnt, stale, last, rx, wire, answers,
                     midway, unsure>>
      /\ status' = [status EXCEPT ![g] = ok]
      /\ device' = IF ok /\ io.write THEN [device EXCEPT ![g] = value[g]] ELSE device
      /\ value' = IF io.write THEN value
                  ELSE [value EXCEPT ![g] = IF ok THEN device[g] ELSE Zero]
  BY DEF Access, callVars
<1>2. /\ status'[g] => value'[g] = device'[g]
      /\ \A r \in Registers : r # g => value'[r] = value[r] /\ device'[r] = device[r]
  <2>1. /\ value \in [Registers -> Values \union {Ones}] /\ status \in [Registers -> BOOLEAN]
        /\ device \in [Registers -> Values \union {Ones}] /\ g \in Registers
    BY LinkNow DEF LInv, TypeOK
  <2>. HIDE DEF g
  <2>. QED  BY <1>1, <2>1
<1>3. ~IoDone
  BY <1>1 DEF IoDone
<1>4. InTurn' /\ OneFrame' /\ WriteIsStale'
  BY <1>1, <1>3 DEF CInv, InTurn, OneFrame, Now, WriteIsStale
<1>5. g \notin Remote /\ (\A r \in Remote : entry["reg"].reg # r)
  BY <1>1, LinkNow
<1>6. \A r \in Registers : /\ Settled(r) => Settled(r)'
                           /\ Amid(r)' = Amid(r)
  <2>. SUFFICES ASSUME NEW r \in Registers PROVE /\ Settled(r) => Settled(r)'
                                                /\ Amid(r)' = Amid(r)
    OBVIOUS
  <2>1. Amid(r)' = Amid(r)
    BY <1>1 DEF Amid
  <2>2. Settled(r) => r # g /\ value'[r] = device'[r]
    BY <1>2, <1>3 DEF Settled
  <2>3. Settled(r) => Settled(r)'
    BY <1>1, <2>2 DEF Settled
  <2>. QED  BY <2>1, <2>3
<1>7. AllSettled'
  BY <1>1, <1>6 DEF CInv, AllSettled
<1>8. Waits' => Waits /\ call.reg = g
  BY <1>1, LinkNow DEF Waits, Ours
<1>9. ByAccess' /\ ByFrame'
  BY <1>1, <1>2, <1>3, <1>5, <1>8 DEF CInv, ByAccess, ByFrame
<1>. QED  BY <1>4, <1>7, <1>9 DEF CInv

(* A frame is sent, the first with its count. *)
LEMMA SendKeeps ==
  ASSUME LInv, CInv, SendFrame
  PROVE  CInv'
<1>. DEFINE e == entry["reg"]
            f == [context |-> reqCnt["reg"], id |-> e.id, reg |-> e.reg,
                  write |-> io.write, data |-> value[e.reg]]
<1>1. /\ io.pc = "send" /\ io.kind = "reg" /\ e.reg \in Remote
      /\ wire' = Append(wire, f) /\ io' = [io EXCEPT !.pc = "match"]
      /\ UNCHANGED <<pc, call, currResp, entry, reqCnt, respCnt, value, status, stale, last, rx,
                     answers, device, midway, unsure>>
  BY DEF SendFrame, callVars, regVars, ghosts
<1>2. /\ f.context = reqCnt["reg"] /\ f.reg = e.reg /\ f.write = io.write
      /\ f.data = value[e.reg] /\ f \in Frames
  <2>1. /\ reqCnt["reg"] \in Nat /\ e.id \in 0 .. MaxCalls /\ io.write \in BOOLEAN
        /\ value[e.reg] \in Values \union {Ones}
    BY CallFields, LinkNow DEF LInv, TypeOK
  <2>. QED  BY <1>1, <2>1 DEF Frames
<1>3. ~IoDone /\ ~Emptied
  BY <1>1 DEF IoDone, Emptied
<1>4. \A h \in Elems(wire) \union Elems(answers) :
        h.context \in Nat /\ h.context < reqCnt["reg"]
  <2>1. \A h \in Elems(wire) \union Elems(answers) : h.context # reqCnt["reg"]
    BY <1>3 DEF CInv, OneFrame, Now
  <2>. QED  BY <2>1, OnChannels
<1>. HIDE DEF f
<1>5. /\ Elems(wire') = Elems(wire) \union {f} /\ Rising(wire')
      /\ Elems(answers') = Elems(answers) /\ answers' = answers
  <2>1. Rising(wire) /\ wire \in Seq(Frames)
    BY OnChannels DEF CInv, InTurn
  <2>. QED  BY <1>1, <1>2, <1>4, <2>1, ElemsAppend
<1>6. InTurn'
  BY <1>2, <1>4, <1>5 DEF CInv, InTurn
<1>7. IoDone'
  <2>1. io'.kind = "reg" /\ io'.pc = "match"
    BY <1>1 DEF LInv, TypeOK
  <2>. QED  BY <2>1 DEF IoDone
<1>8. OneFrame' /\ WriteIsStale'
  BY <1>1, <1>7 DEF CInv, OneFrame, WriteIsStale
<1>9. \A r \in Registers : /\ Settled(r) => Settled(r)'
                           /\ Amid(r)' = Amid(r)
  <2>. SUFFICES ASSUME NEW r \in Registers PROVE /\ Settled(r) => Settled(r)'
                                                /\ Amid(r)' = Amid(r)
    OBVIOUS
  <2>1. Amid(r)' = Amid(r)
    BY <1>1 DEF Amid
  <2>2. Settled(r) => e.reg # r
    BY <1>1, <1>3 DEF Settled
  <2>3. Settled(r) => Settled(r)'
    BY <1>1, <1>2, <1>5, <2>2 DEF Settled
  <2>. QED  BY <2>1, <2>3
<1>10. AllSettled'
  BY <1>1, <1>9 DEF CInv, AllSettled
<1>11. Waits' => Waits /\ e = call
  BY <1>1, LinkNow DEF Waits, Ours
<1>12. ByAccess'
  BY <1>1, <1>11, LinkNow DEF ByAccess
<1>13. ByFrame'
  <2>. SUFFICES ASSUME Waits', (call.reg \in Remote)' PROVE ByFrame'
    BY DEF ByFrame
  <2>1. Waits /\ call.reg \in Remote /\ e = call
    BY <1>1, <1>11
  <2>2. /\ io.write = call.write /\ rx.pc # "copy" /\ rx.pc # "count"
        /\ respCnt["reg"] = currResp
    BY <1>1, <1>3, <2>1 DEF CInv, ByFrame
  <2>3. Now(Elems(wire))' = {f} /\ Now(Elems(answers))' = {}
    <3>1. reqCnt' = reqCnt /\ Elems(wire)' = Elems(wire) \union {f}
          /\ Elems(answers)' = Elems(answers)
      BY <1>1, <1>5
    <3>2. \A h \in Elems(wire) \union Elems(answers) : h.context # reqCnt["reg"]
      BY <1>4
    <3>. QED  BY <1>2, <3>1, <3>2 DEF Now
  <2>4. io'.pc = "match"
    BY <1>1 DEF LInv, TypeOK
  <2>. QED  BY <1>1, <1>2, <2>1, <2>2, <2>3, <2>4 DEF ByFrame
<1>. QED  BY <1>6, <1>8, <1>10, <1>12, <1>13 DEF CInv

(* What leaves the counts of register accesses alone, and counts or        *)
(* matches a request.                                                      *)
LEMMA MatchKeeps ==
  ASSUME LInv, CInv, (\E ok \in BOOLEAN : SendOther(ok)) \/ Match
  PROVE  CInv'
<1>1. /\ io' = [io EXCEPT !.pc = io'.pc] /\ io.pc # "count"
      /\ io.kind = "reg" => io'.pc = "look"
      /\ io'.pc # "send"
      /\ UNCHANGED <<pc, call, currResp, entry, reqCnt, respCnt, value, status, stale, rx,
                     wire, answers, device, midway, unsure>>
  <2>1. CASE \E ok \in BOOLEAN : SendOther(ok)
    <3>1. io' = [io EXCEPT !.pc = "match"]
      BY <2>1 DEF SendOther
    <3>2. io'.pc = "match"
      BY <3>1 DEF LInv, TypeOK
    <3>. QED  BY <2>1, <3>1, <3>2 DEF SendOther, callVars, regVars, wireVars
  <2>2. CASE Match
    <3>1. io' = [io EXCEPT !.pc = IF io.kind \in Simple THEN "count" ELSE "look"]
      BY <2>2 DEF Match
    <3>2. io'.pc = IF io.kind \in Simple THEN "count" ELSE "look"
      BY <3>1 DEF LInv, TypeOK
    <3>. QED  BY <2>2, <3>1, <3>2, LinkNow DEF Match, callVars, regVars, wireVars, ghosts
  <2>. QED  BY <2>1, <2>2
<1>2. io'.kind = io.kind
  BY <1>1 DEF LInv, TypeOK
<1>3. IoDone => IoDone'
  <2>1. /\ last'["reg"] = last["reg"] \/ last'["reg"] = reqCnt["reg"]
        /\ io.kind = "reg" => last'["reg"] = reqCnt["reg"]
    <3>1. last \in [Kinds -> Nat]
      BY DEF LInv, TypeOK
    <3>. QED  BY <3>1, LinkNow DEF SendOther, Match
  <2>. QED  BY <1>1, <1>2, <2>1 DEF IoDone
<1>4. InTurn' /\ OneFrame' /\ AllSettled' /\ WriteIsStale'
  BY <1>1, <1>3, IoKeeps
<1>5. ByAccess'
  BY <1>1, <1>2, <1>3 DEF CInv, ByAccess, Waits, Ours
<1>6. ByFrame'
  <2>. SUFFICES ASSUME Waits', (call.reg \in Remote)' PROVE ByFrame'
    BY DEF ByFrame
  <2>1. Waits /\ call.reg \in Remote /\ ByFrame
    BY <1>1 DEF Waits, Ours, CInv
  <2>2. Emptied => Emptied'
    BY <1>1, <1>3 DEF Emptied
  <2>3. Now(Elems(wire))' = Now(Elems(wire)) /\ Now(Elems(answers))' = Now(Elems(answers))
        /\ \A a : Right(a)' = Right(a)
    BY <1>1 DEF Now, Elems, Right
  <2>. QED  BY <1>1, <1>2, <2>1, <2>2, <2>3 DEF ByFrame
<1>. QED  BY <1>4, <1>5, <1>6 DEF CInv

LEMMA CountKeeps ==
  ASSUME LInv, CInv, Count
  PROVE  CInv'
<1>1. /\ io.pc = "count"
      /\ io' = [io EXCEPT !.pc = IF io.kind \in Simple THEN "look" ELSE "match"]
      /\ respCnt' = [respCnt EXCEPT ![io.kind] = @ + 1]
      /\ UNCHANGED <<pc, call, currResp, entry, reqCnt, value, status, stale, last, rx,
                     wire, answers, device, midway, unsure>>
  BY DEF Count, callVars, regVars, wireVars, ghosts
<1>2. /\ io'.kind = io.kind /\ io'.pc \in {"look", "match"}
      /\ io.kind = "reg" => io'.pc = "match"
      /\ io.kind # "reg" => respCnt'["reg"] = respCnt["reg"]
  <2>1. respCnt \in [Kinds -> Nat]
    BY DEF LInv, TypeOK
  <2>. QED  BY <1>1, <2>1, LinkNow DEF LInv, TypeOK
<1>3. IoDone => IoDone'
  BY <1>1, <1>2 DEF IoDone
<1>4. InTurn' /\ OneFrame' /\ AllSettled' /\ WriteIsStale'
  BY <1>1, <1>3, IoKeeps
<1>5. ByAccess'
  BY <1>1, <1>2, <1>3 DEF CInv, IoDone, ByAccess, Waits, Ours
<1>6. ByFrame'
  <2>. SUFFICES ASSUME Waits', (call.reg \in Remote)' PROVE ByFrame'
    BY DEF ByFrame
  <2>1. Waits /\ call.reg \in Remote /\ ByFrame
    BY <1>1 DEF Waits, Ours, CInv
  <2>2. Emptied => Emptied'
    BY <1>1, <1>3 DEF Emptied
  <2>3. Now(Elems(wire))' = Now(Elems(wire)) /\ Now(Elems(answers))' = Now(Elems(answers))
        /\ \A a : Right(a)' = Right(a)
    BY <1>1 DEF Now, Elems, Right
  <2>4. io.kind # "reg" /\ respCnt'["reg"] = respCnt["reg"]
    BY <1>1, <1>2, <2>1 DEF ByFrame
  <2>. QED  BY <1>1, <1>2, <2>1, <2>2, <2>3, <2>4 DEF ByFrame
<1>. QED  BY <1>4, <1>5, <1>6 DEF CInv

(* The firmware does what the oldest frame says: the answers before it are *)
(* to earlier requests.                                                    *)
LEMMA PerformKeeps ==
  ASSUME LInv, CInv, NEW ok \in BOOLEAN, Perform(ok)
  PROVE  CInv'
<1>. DEFINE f == Head(wire)
            d == IF ok /\ f.write THEN [device EXCEPT ![f.reg] = f.data] ELSE device
            a == [context |-> f.context, id |-> f.id, reg |-> f.reg,
                  status |-> ok, data |-> d[f.reg]]
<1>1. /\ wire # << >> /\ device' = d /\ wire' = Tail(wire) /\ answers' = Append(answers, a)
      /\ UNCHANGED <<pc, call, currResp, entry, reqCnt, respCnt, value, status, stale, io, last,
                     rx, midway, unsure>>
  BY DEF Perform, callVars, regVars
<1>2. /\ f \in Elems(wire) /\ Elems(Tail(wire)) \subseteq Elems(wire) /\ Rising(Tail(wire))
      /\ \A h \in Elems(Tail(wire)) : f.context < h.context
  BY <1>1, OnChannels, ElemsTail DEF CInv, InTurn
<1>3. f \in Frames /\ f.context \in Nat /\ f.context <= reqCnt["reg"] /\ reqCnt["reg"] \in Nat
  BY <1>2, OnChannels
<1>4. /\ f.reg \in Remote /\ f.reg \in Registers
      /\ d \in [Registers -> Values \union {Ones}]
      /\ \A r \in Registers : r # f.reg \/ ~f.write => d[r] = device[r]
      /\ ok /\ f.write => d[f.reg] = f.data
  <2>1. f.reg \in Remote /\ f.data \in Values \union {Ones}
    BY <1>3 DEF Frames
  <2>2. device \in [Registers -> Values \union {Ones}] /\ f.reg \in Registers
    BY <2>1, LinkNow DEF LInv, TypeOK
  <2>. HIDE DEF f
  <2>. QED  BY <2>1, <2>2
<1>. HIDE DEF d
<1>5. /\ a \in Answers /\ a.context = f.context /\ a.reg = f.reg /\ a.status = ok
      /\ a.data = d[f.reg]
  <2>1. d[f.reg] \in Values \union {Ones}
    BY <1>4
  <2>. QED  BY <1>3, <2>1 DEF Frames, Answers
<1>. HIDE DEF a, f
<1>6. \A b \in Elems(answers) : b.context \in Nat /\ b.context < f.context
  BY <1>2, OnChannels DEF CInv, InTurn
<1>7. /\ Elems(answers') = Elems(answers) \union {a} /\ Rising(answers')
      /\ Elems(wire') \subseteq Elems(wire)
  <2>1. answers \in Seq(Answers) /\ Rising(answers)
    BY OnChannels DEF CInv, InTurn
  <2>. QED  BY <1>1, <1>2, <1>5, <1>6, <2>1, ElemsAppend
<1>8. InTurn'
  <2>1. \A b \in Elems(answers'), h \in Elems(wire') : b.context < h.context
    <3>. SUFFICES ASSUME NEW b \in Elems(answers'), NEW h \in Elems(wire')
                  PROVE  b.context < h.context
      OBVIOUS
    <3>1. CASE b \in Elems(answers)
      BY <1>7, <3>1 DEF CInv, InTurn
    <3>2. CASE b = a
      BY <1>1, <1>2, <1>5, <3>2
    <3>. QED  BY <1>7, <3>1, <3>2
  <2>. QED  BY <1>1, <1>2, <1>7, <2>1 DEF InTurn, Elems
<1>9. IoDone' = IoDone
  BY <1>1 DEF IoDone
<1>10. OneFrame'
  <2>. SUFFICES ASSUME NEW h \in Elems(wire') \union Elems(answers'),
                       h.context = reqCnt["reg"]
                PROVE  IoDone
    BY <1>1, <1>9 DEF OneFrame, Now, Elems
  <2>1. h \in Elems(wire) \union Elems(answers) \/ (h = a /\ f.context = reqCnt["reg"])
    BY <1>5, <1>7
  <2>. QED  BY <1>2, <2>1 DEF CInv, OneFrame, Now
<1>11. \A r \in Registers : /\ Settled(r) => Settled(r)'
                            /\ Amid(r)' = Amid(r)
  <2>. SUFFICES ASSUME NEW r \in Registers PROVE /\ Settled(r) => Settled(r)'
                                                /\ Amid(r)' = Amid(r)
    OBVIOUS
  <2>1. Amid(r)' = Amid(r)
    BY <1>1 DEF Amid
  <2>2. ASSUME Settled(r) PROVE Settled(r)'
    <3>1. ~(f.reg = r /\ f.write)
      BY <1>2, <2>2 DEF Settled
    <3>2. value'[r] = device'[r]
      BY <1>1, <1>4, <2>2, <3>1 DEF Settled
    <3>3. \A h \in Elems(wire)' : ~(h.reg = r /\ h.write)
      <4>1. Elems(wire)' \subseteq Elems(wire)
        BY <1>7 DEF Elems
      <4>. QED  BY <2>2, <4>1 DEF Settled
    <3>4. entry["reg"].reg = r => rx.pc # "copy" /\ IoDone /\ r \notin Remote
      BY <1>1, <2>2 DEF Settled, Emptied
    <3>. QED  BY <1>1, <1>9, <3>2, <3>3, <3>4 DEF Settled
  <2>. QED  BY <2>1, <2>2
<1>12. AllSettled' /\ WriteIsStale'
  BY <1>1, <1>11 DEF CInv, AllSettled, WriteIsStale
<1>13. ByAccess'
  <2>. SUFFICES ASSUME Waits', (call.reg \in Mapped)' PROVE ByAccess'
    BY DEF ByAccess
  <2>1. Waits /\ call.reg \in Mapped /\ ByAccess
    BY <1>1 DEF Waits, Ours, CInv
  <2>2. device'[call.reg] = device[call.reg]
    BY <1>1, <1>4, <2>1, LinkNow
  <2>. QED  BY <1>1, <1>9, <2>1, <2>2 DEF ByAccess
<1>14. ByFrame'
  <2>. SUFFICES ASSUME Waits', (call.reg \in Remote)' PROVE ByFrame'
    BY DEF ByFrame
  <2>1. Waits /\ call.reg \in Remote /\ ByFrame
    BY <1>1 DEF Waits, Ours, CInv
  <2>2. ~Emptied
    BY <1>1 DEF Emptied
  <2>3. rx.pc # "copy" /\ rx.pc # "count" /\ respCnt["reg"] = currResp
    BY <2>1, <2>2 DEF ByFrame
  <2>4. \A h \in Now(Elems(wire))' : h \in Now(Elems(wire))
    BY <1>1, <1>7 DEF Now, Elems
  <2>5. ASSUME NEW b \in Now(Elems(answers))' PROVE Right(b)'
    <3>1. b.context = reqCnt["reg"] /\ b \in Elems(answers')
      BY <1>1 DEF Now, Elems
    <3>2. b = a
      BY <1>3, <1>6, <1>7, <3>1
    <3>3. f \in Now(Elems(wire))
      BY <1>2, <1>5, <3>1, <3>2 DEF Now
    <3>4. f.reg = call.reg /\ f.write = call.write /\ (f.write => f.data = value[call.reg])
      BY <2>1, <3>3 DEF ByFrame
    <3>5. ok => d[call.reg] = IF call.write THEN value[call.reg] ELSE a.data
      BY <1>4, <1>5, <3>4
    <3>. QED  BY <1>1, <1>5, <3>2, <3>5 DEF Right
  <2>. QED  BY <1>1, <2>1, <2>3, <2>4, <2>5 DEF ByFrame
<1>. QED  BY <1>8, <1>10, <1>12, <1>13, <1>14 DEF CInv

(* A frame or an answer goes, and nothing comes of it.                     *)
LEMMA GoneKeeps ==
  ASSUME LInv, CInv,
         UNCHANGED <<pc, call, currResp, entry, reqCnt, respCnt, value, status, stale, io, last,
                     device, rx, midway, unsure>>,
         \/ wire # << >> /\ wire' = Tail(wire) /\ answers' = answers
         \/ answers # << >> /\ answers' = Tail(answers) /\ wire' = wire
  PROVE  CInv'
<1>1. /\ Elems(wire)' \subseteq Elems(wire) /\ Elems(answers)' \subseteq Elems(answers)
      /\ Rising(wire)' /\ Rising(answers)'
  <2>1. /\ wire \in Seq(Frames) /\ answers \in Seq(Answers) /\ Rising(wire) /\ Rising(answers)
    BY OnChannels DEF CInv, InTurn
  <2>2. /\ Elems(wire') \subseteq Elems(wire) /\ Elems(answers') \subseteq Elems(answers)
        /\ Rising(wire') /\ Rising(answers')
    BY <2>1, ElemsTail
  <2>. QED  BY <2>2 DEF Elems, Rising
<1>2. ~Emptied /\ IoDone' = IoDone
  BY DEF Emptied, IoDone
<1>3. InTurn'
  BY <1>1 DEF CInv, InTurn
<1>4. OneFrame' /\ WriteIsStale'
  BY <1>1, <1>2 DEF CInv, OneFrame, Now, WriteIsStale
<1>5. \A r \in Registers : /\ Settled(r) => Settled(r)'
                           /\ Amid(r)' = Amid(r)
  BY <1>1, <1>2 DEF Settled, Amid
<1>6. AllSettled'
  BY <1>5 DEF CInv, AllSettled
<1>7. ByAccess'
  BY <1>2 DEF CInv, ByAccess, Waits, Ours
<1>8. ByFrame'
  <2>. SUFFICES ASSUME Waits', (call.reg \in Remote)' PROVE ByFrame'
    BY DEF ByFrame
  <2>1. Waits /\ call.reg \in Remote /\ ByFrame
    BY DEF Waits, Ours, CInv
  <2>2. /\ Now(Elems(wire))' \subseteq Now(Elems(wire))
        /\ Now(Elems(answers))' \subseteq Now(Elems(answers))
        /\ \A a : Right(a)' = Right(a)
    BY <1>1 DEF Now, Right
  <2>. QED  BY <1>2, <2>1, <2>2 DEF ByFrame
<1>. QED  BY <1>3, <1>4, <1>6, <1>7, <1>8 DEF CInv

LEMMA LossKeeps == LInv /\ CInv /\ (LoseFrame \/ LoseAnswer) => CInv'
<1>1. ASSUME LInv, CInv, LoseFrame PROVE CInv'
  BY <1>1, GoneKeeps DEF LoseFrame, callVars, regVars
<1>2. ASSUME LInv, CInv, LoseAnswer PROVE CInv'
  BY <1>2, GoneKeeps DEF LoseAnswer, callVars, regVars
<1>. QED  BY <1>1, <1>2

(* The answer that is expected is the last thing on the channels.          *)
LEMMA LastOfAll ==
  ASSUME LInv, CInv, answers # << >>, Expected(Head(answers))
  PROVE  /\ wire = << >> /\ Tail(answers) = << >> /\ IoDone
         /\ Head(answers) \in Now(Elems(answers))
         /\ Head(answers).reg \in Remote
<1>. DEFINE a == Head(answers)
<1>1. /\ a \in Elems(answers) /\ Elems(Tail(answers)) \subseteq Elems(answers)
      /\ \A b \in Elems(Tail(answers)) : a.context < b.context
  BY OnChannels, ElemsTail DEF CInv, InTurn
<1>2. \A f \in Elems(wire) : a.context < f.context
  BY <1>1 DEF CInv, InTurn
<1>3. a.context = reqCnt["reg"] /\ a \in Answers
  BY <1>1, OnChannels DEF Expected
<1>. HIDE DEF a
<1>4. Elems(wire) = {} /\ Elems(Tail(answers)) = {}
  BY <1>1, <1>2, <1>3, OnChannels
<1>5. Tail(answers) \in Seq(Answers)
  BY OnChannels
<1>6. wire = << >> /\ Tail(answers) = << >>
  BY <1>4, <1>5, OnChannels, ElemsEmpty
<1>7. a \in Now(Elems(answers)) /\ a.reg \in Remote
  BY <1>1, <1>3 DEF Now, Answers
<1>8. IoDone
  BY <1>7 DEF CInv, OneFrame, Now
<1>. QED  BY <1>6, <1>7, <1>8 DEF a

LEMMA CheckKeeps ==
  ASSUME LInv, CInv, RxCheck
  PROVE  CInv'
<1>. DEFINE a == Head(answers)
<1>1. /\ rx.pc = "idle" /\ answers # << >> /\ answers' = Tail(answers)
      /\ rx' = IF Expected(a) THEN [pc |-> "copy", answer |-> a] ELSE rx
      /\ UNCHANGED <<pc, call, currResp, entry, reqCnt, respCnt, value, status, stale, io, last,
                     wire, device, midway, unsure>>
  BY DEF RxCheck, callVars, regVars, ghosts
<1>2. CASE ~Expected(a)
  BY <1>1, <1>2, GoneKeeps
<1>3. CASE Expected(a)
  <2>1. /\ wire = << >> /\ answers' = << >> /\ IoDone /\ a \in Now(Elems(answers))
        /\ a.reg \in Remote /\ a.reg = entry["reg"].reg
    BY <1>1, <1>3, LastOfAll DEF Expected
  <2>2. rx' = [pc |-> "copy", answer |-> a]
    BY <1>1, <1>3
  <2>. HIDE DEF a
  <2>3. rx'.pc = "copy" /\ rx'.answer = a
    BY <2>2
  <2>4. IoDone' /\ Emptied' /\ ~Emptied
    BY <1>1, <2>1 DEF IoDone, Emptied
  <2>5. Elems(answers') = {} /\ Elems(wire') = {}
    BY <1>1, <2>1 DEF Elems
  <2>6. InTurn' /\ OneFrame' /\ WriteIsStale'
    <3>1. Rising(answers')
      BY <2>1 DEF Rising
    <3>. QED  BY <1>1, <2>4, <2>5, <3>1 DEF CInv, InTurn, OneFrame, WriteIsStale, Elems, Rising
  <2>7. \A r \in Registers : /\ Settled(r) => Settled(r)'
                             /\ Amid(r)' = Amid(r)
    BY <1>1, <2>1, <2>4 DEF Settled, Amid
  <2>8. AllSettled'
    BY <1>1, <2>7 DEF CInv, AllSettled
  <2>9. Waits' => Waits /\ entry["reg"] = call
    BY <1>1, LinkNow DEF Waits, Ours
  <2>10. ByAccess'
    BY <1>1, <2>1, <2>9, LinkNow DEF ByAccess
  <2>11. ByFrame'
    <3>. SUFFICES ASSUME Waits', (call.reg \in Remote)' PROVE ByFrame'
      BY DEF ByFrame
    <3>1. Waits /\ call.reg \in Remote /\ ByFrame
      BY <1>1, <2>9 DEF CInv
    <3>2. respCnt["reg"] = currResp /\ Right(a)
      BY <2>1, <2>4, <3>1 DEF ByFrame
    <3>3. Right(rx.answer)' /\ Now(Elems(wire))' = {} /\ Now(Elems(answers))' = {}
      BY <1>1, <2>3, <2>5, <3>2 DEF Right, Now, Elems
    <3>. QED  BY <1>1, <2>3, <2>4, <3>1, <3>2, <3>3 DEF ByFrame
  <2>. QED  BY <2>6, <2>8, <2>10, <2>11 DEF CInv
<1>. QED  BY <1>2, <1>3

LEMMA CopyKeeps ==
  ASSUME LInv, CInv, RxCopy
  PROVE  CInv'
<1>. DEFINE g == entry["reg"].reg  w == entry["reg"].write
            a == rx.answer
<1>1. /\ rx.pc = "copy" /\ rx' = [pc |-> "count"]
      /\ value' = IF w THEN value
                  ELSE [value EXCEPT ![g] = IF a.status THEN a.data ELSE Ones]
      /\ status' = [status EXCEPT ![g] = a.status]
      /\ UNCHANGED <<pc, call, currResp, entry, reqCnt, respCnt, stale, io, last, wire, answers,
                     device, midway, unsure>>
  BY DEF RxCopy, callVars, wireVars
<1>2. /\ g \in Registers /\ status'[g] = a.status
      /\ \A r \in Registers : r # g => value'[r] = value[r]
      /\ ~w /\ a.status => value'[g] = a.data
      /\ w => value' = value
  <2>1. /\ value \in [Registers -> Values \union {Ones}]
        /\ status \in [Registers -> BOOLEAN] /\ g \in Registers
    BY LinkNow DEF LInv, TypeOK
  <2>. HIDE DEF a, g, w
  <2>. QED  BY <1>1, <2>1
<1>. HIDE DEF a
<1>3. rx'.pc = "count" /\ IoDone' = IoDone
  BY <1>1 DEF IoDone
<1>4. InTurn' /\ OneFrame' /\ WriteIsStale'
  BY <1>1, <1>3 DEF CInv, InTurn, OneFrame, Now, WriteIsStale, Elems
<1>5. \A r \in Registers : /\ Settled(r) => Settled(r)'
                           /\ Amid(r)' = Amid(r)
  BY <1>1, <1>2 DEF Settled, Amid, Elems
<1>6. AllSettled'
  BY <1>1, <1>5 DEF CInv, AllSettled
<1>7. Waits' => Waits /\ entry["reg"] = call /\ g = call.reg /\ w = call.write
  BY <1>1, LinkNow DEF Waits, Ours
<1>8. ByAccess'
  BY <1>1, <1>7 DEF CInv, ByAccess
<1>9. ByFrame'
  <2>. SUFFICES ASSUME Waits', (call.reg \in Remote)' PROVE ByFrame'
    BY DEF ByFrame
  <2>1. Waits /\ call.reg \in Remote /\ ByFrame /\ g = call.reg /\ w = call.write
    BY <1>1, <1>7 DEF CInv
  <2>2. Emptied /\ Right(a) /\ respCnt["reg"] = currResp
    BY <1>1, <2>1 DEF ByFrame, a
  <2>3. Emptied'
    BY <1>1, <1>3, <2>2 DEF Emptied
  <2>4. Now(Elems(wire))' = {} /\ Now(Elems(answers))' = {}
    BY <1>1, <2>2 DEF Emptied, Now, Elems
  <2>5. status'[call.reg] => value'[call.reg] = device[call.reg]
    BY <1>2, <2>1, <2>2 DEF Right
  <2>. QED  BY <1>1, <1>3, <2>1, <2>2, <2>3, <2>4, <2>5 DEF ByFrame
<1>. QED  BY <1>4, <1>6, <1>8, <1>9 DEF CInv

LEMMA RxCountKeeps ==
  ASSUME LInv, CInv, RxCount
  PROVE  CInv'
<1>1. /\ rx.pc = "count" /\ rx' = [pc |-> "idle"] /\ rx'.pc = "idle"
      /\ UNCHANGED <<pc, call, currResp, entry, reqCnt, value, status, stale, io, last, wire,
                     answers, device, midway, unsure>>
  BY DEF RxCount, callVars, regVars, wireVars, ghosts
<1>2. IoDone' = IoDone
  BY <1>1 DEF IoDone
<1>3. InTurn' /\ OneFrame' /\ AllSettled' /\ WriteIsStale'
  BY <1>1, <1>2, IoKeeps
<1>4. ByAccess'
  BY <1>1 DEF CInv, ByAccess, Waits, Ours
<1>5. ByFrame'
  <2>. SUFFICES ASSUME Waits', (call.reg \in Remote)' PROVE ByFrame'
    BY DEF ByFrame
  <2>1. Waits /\ call.reg \in Remote /\ ByFrame
    BY <1>1 DEF Waits, Ours, CInv
  <2>2. Emptied /\ (status[call.reg] => value[call.reg] = device[call.reg])
    BY <1>1, <2>1 DEF ByFrame
  <2>3. Emptied'
    BY <1>1, <1>2, <2>2 DEF Emptied
  <2>4. Now(Elems(wire))' = {} /\ Now(Elems(answers))' = {}
    BY <1>1, <2>2 DEF Emptied, Now, Elems
  <2>. QED  BY <1>1, <2>1, <2>2, <2>3, <2>4 DEF ByFrame
<1>. QED  BY <1>3, <1>4, <1>5 DEF CInv

LEMMA CInvNext == LInv /\ CInv /\ [Next]_vars => CInv'
<1>. SUFFICES ASSUME LInv, CInv, [Next]_vars PROVE CInv'
  OBVIOUS
<1>1. CASE UNCHANGED vars
  BY <1>1 DEF vars, callVars, regVars, wireVars, ghosts, CInv, InTurn, Rising, Elems, OneFrame, Now,
              IoDone, AllSettled, Amid, Settled, Emptied, WriteIsStale, ByAccess, ByFrame, Waits,
              Ours, Right
<1>2. CASE Requests
  BY <1>2, RequestKeeps
<1>3. CASE Caller
  BY <1>3, ReadKeeps, TryKeeps, AnsweredKeeps, TimedOutKeeps DEF Caller
<1>4. CASE Transmit
  BY <1>4, LookKeeps, AccessKeeps, SendKeeps, MatchKeeps, CountKeeps DEF Transmit
<1>5. CASE Receive
  BY <1>5, CheckKeeps, CopyKeeps, RxCountKeeps DEF Receive
<1>6. CASE Hardware
  BY <1>6, PerformKeeps, LossKeeps DEF Hardware
<1>. QED  BY <1>1, <1>2, <1>3, <1>4, <1>5, <1>6 DEF Next

(* What the program believes of a register that is not stale, between the  *)
(* calls, is true of the hardware: for any number of registers and calls,  *)
(* and whatever was lost, refused, late or tried again.  The exception is  *)
(* a register of which no access was waited for yet, or the last was not,  *)
(* or a read failed, or an earlier answer could be mistaken for its own.   *)
THEOREM LinkCoherent == Spec => []Coherent
<1>1. CInv => Coherent
  BY DEF CInv, AllSettled, Amid, Settled, Coherent
<1>. QED  BY LInvInit, LInvNext, CInvInit, CInvNext, <1>1, PTL DEF Spec

-----------------------------------------------------------------------------
(* The second of the two                                                   *)

(* No register request is under way. *)
LEMMA QuietReg ==
  Quiet("reg") =
    (/\ rx.pc = "idle" /\ wire = << >> /\ answers = << >>
     /\ ~(io.kind = "reg" /\ io.pc \in {"send", "count"})
     /\ last["reg"] = reqCnt["reg"] \/ (io.kind = "reg" /\ io.pc = "match"))
BY DEF Quiet, Midway, Simple

(* A count goes up by one. *)
LEMMA OneMore ==
  ASSUME NEW f \in [Kinds -> Nat], NEW k \in Kinds,
         NEW g, g = [f EXCEPT ![k] = @ + 1]
  PROVE  /\ g[k] = f[k] + 1
         /\ \A j \in Kinds : /\ j # k => g[j] = f[j]
                            /\ f[j] \in Nat /\ g[j] \in Nat /\ f[j] <= g[j]
OBVIOUS

LEMMA RInvInit == Init => RInv
<1>. SUFFICES ASSUME Init PROVE RInv
  OBVIOUS
<1>1. /\ pc = "idle" /\ call.kind = "run" /\ io.kind = "run"
      /\ last["reg"] = 0 /\ reqCnt["reg"] = 0
  BY DEF Init, NoCall, Kinds
<1>. QED  BY <1>1 DEF RInv, IoPending, Ready, Served, CountedUp, RegGood, OneRetry

LEMMA BeginServes ==
  ASSUME LInv, RInv, NEW c, Begin(c), c.kind = "reg" => c.good
  PROVE  RInv'
<1>1. /\ pc' = "set" /\ call' = c /\ tries' = 0 /\ hurt' = ~Quiet(c.kind)
      /\ UNCHANGED <<reqCnt, io, last, rx, wire, answers>>
  BY DEF Begin, wireVars
<1>2. IoPending'
  BY <1>1 DEF RInv, IoPending
<1>3. Ready'
  <2>. SUFFICES ASSUME Unhurt' PROVE Quiet("reg")' /\ tries' = 0
    BY <1>1 DEF Ready
  <2>1. c.kind = "reg"
    BY <1>1 DEF Unhurt
  <2>2. Quiet("reg")
    BY <1>1, <2>1 DEF Unhurt
  <2>. QED  BY <1>1, <2>2 DEF Quiet, Midway
<1>. QED  BY <1>1, <1>2, <1>3 DEF RInv, Served, CountedUp, RegGood, OneRetry

LEMMA ReadServes ==
  ASSUME LInv, RInv, ReadCount
  PROVE  RInv'
<1>1. /\ pc = "set" /\ pc' = "count" /\ currResp' = respCnt[call.kind]
      /\ UNCHANGED <<call, tries, reqCnt, respCnt, io, last, rx, wire, answers, hurt>>
  BY DEF ReadCount, wireVars, ghosts
<1>2. respCnt[call.kind] \in Nat
  BY LinkNow DEF LInv, TypeOK
<1>3. IoPending' /\ CountedUp' /\ RegGood' /\ Served' /\ OneRetry'
  BY <1>1, <1>2 DEF RInv, IoPending, CountedUp, RegGood, Served, OneRetry
<1>4. Ready'
  BY <1>1 DEF RInv, Ready, Unhurt, Quiet, Midway
<1>. QED  BY <1>3, <1>4 DEF RInv

LEMMA TryServes ==
  ASSUME LInv, RInv, Try
  PROVE  RInv'
<1>1. /\ pc = "count" /\ tries' = tries + 1
      /\ reqCnt' = [reqCnt EXCEPT ![call.kind] = @ + 1]
      /\ UNCHANGED <<call, currResp, respCnt, io, last, rx, wire, answers, hurt>>
      /\ pc' \in {"wait", "ok", "failed"} /\ (pc' = "failed" => ~call.good)
  BY DEF Try, wireVars
<1>2. /\ reqCnt["reg"] \in Nat /\ last["reg"] \in Nat /\ tries \in Nat
      /\ call.kind \in Kinds /\ respCnt[call.kind] \in Nat
      /\ reqCnt'["reg"] = IF call.kind = "reg" THEN reqCnt["reg"] + 1 ELSE reqCnt["reg"]
  <2>1. /\ reqCnt \in [Kinds -> Nat] /\ respCnt \in [Kinds -> Nat] /\ last \in [Kinds -> Nat]
        /\ tries \in 0 .. Tries
    BY DEF LInv, TypeOK
  <2>2. call.kind \in Kinds /\ "reg" \in Kinds /\ tries \in Nat
    BY <2>1, LinkNow, LinkAssumption
  <2>3. reqCnt'["reg"] = IF call.kind = "reg" THEN reqCnt["reg"] + 1 ELSE reqCnt["reg"]
    BY <1>1, <2>1, <2>2, OneMore
  <2>. QED  BY <2>1, <2>2, <2>3
<1>3. IoPending'
  BY <1>1, <1>2 DEF RInv, IoPending
<1>4. CountedUp' /\ RegGood' /\ Ready'
  BY <1>1, <1>2 DEF RInv, CountedUp, RegGood, Ready
<1>5. Served' /\ OneRetry'
  <2>1. CASE ~Unhurt
    BY <1>1, <2>1 DEF Served, OneRetry, Unhurt
  <2>2. CASE Unhurt
    <3>1. /\ rx.pc = "idle" /\ wire = << >> /\ answers = << >> /\ respCnt["reg"] = currResp
          /\ ~(io.kind = "reg" /\ io.pc \in {"send", "count"})
          /\ tries \in {0, 1} /\ (tries = 1 => last["reg"] = reqCnt["reg"])
      <4>1. /\ Quiet("reg") /\ tries <= 1 /\ (tries = 1 => last["reg"] = reqCnt["reg"])
            /\ respCnt["reg"] = currResp
        BY <1>1, <2>2 DEF RInv, Ready
      <4>2. tries \in {0, 1}
        BY <1>2, <4>1
      <4>. QED  BY <4>1, <4>2, QuietReg
    <3>2. call.kind = "reg" /\ reqCnt'["reg"] = reqCnt["reg"] + 1 /\ call.good
      BY <1>2, <2>2 DEF Unhurt, RInv, RegGood
    <3>3. tries' \in {1, 2} /\ pc' # "failed"
      BY <1>1, <3>1, <3>2
    <3>4. tries' = 2 => ~IoDone'
      <4>. SUFFICES ASSUME tries' = 2 PROVE ~IoDone'
        OBVIOUS
      <4>1. tries = 1 /\ last["reg"] = reqCnt["reg"]
        BY <1>1, <3>1
      <4>2. ~(io.kind = "reg" /\ io.pc = "match")
        BY <4>1 DEF RInv, IoPending
      <4>. QED  BY <1>1, <1>2, <3>2, <4>1, <4>2 DEF IoDone
    <3>5. Elems(wire)' = {} /\ Elems(answers)' = {} /\ respCnt'["reg"] = currResp'
      BY <1>1, <3>1, <3>2 DEF Elems
    <3>. QED  BY <1>1, <3>1, <3>3, <3>4, <3>5 DEF Served, OneRetry
  <2>. QED  BY <2>1, <2>2
<1>. QED  BY <1>3, <1>4, <1>5 DEF RInv

LEMMA AnsweredServes ==
  ASSUME LInv, RInv, Answered
  PROVE  RInv'
<1>1. /\ pc = "wait" /\ respCnt[call.kind] # currResp
      /\ pc' \in {"set", "ok", "failed"}
      /\ call.kind = "reg" /\ status[call.reg] => pc' = "ok"
      /\ UNCHANGED <<call, tries, reqCnt, io, last, hurt>>
  BY DEF Answered, Again
<1>2. IoPending' /\ CountedUp' /\ RegGood' /\ Served'
  BY <1>1 DEF RInv, IoPending, CountedUp, RegGood, Served
<1>3. Unhurt => pc' = "ok" /\ tries <= 2
  BY <1>1 DEF RInv, Served, Unhurt
<1>. QED  BY <1>1, <1>2, <1>3 DEF RInv, Ready, OneRetry, Unhurt

(* A try that is given up for good reason has been missed, and only the    *)
(* first of two can be.                                                    *)
LEMMA TimedOutServes ==
  ASSUME Tries >= 2, LInv, RInv, TimedOut
  PROVE  RInv'
<1>1. /\ pc = "wait" /\ respCnt[call.kind] = currResp /\ Again
      /\ hurt' = (hurt \/ ~Quiet(call.kind) \/ last[call.kind] # reqCnt[call.kind])
      /\ UNCHANGED <<call, currResp, tries, reqCnt, respCnt, io, last, rx, wire, answers>>
  BY DEF TimedOut, wireVars
<1>2. pc' \in {"set", "failed"} /\ (call.kind = "reg" /\ tries < Tries => pc' = "set")
  BY <1>1 DEF Again
<1>3. IoPending' /\ CountedUp' /\ RegGood' /\ Served'
  BY <1>1, <1>2 DEF RInv, IoPending, CountedUp, RegGood, Served
<1>4. ASSUME Unhurt'
      PROVE  pc' = "set" /\ tries = 1 /\ Quiet("reg")' /\ last["reg"] = reqCnt["reg"]
  <2>1. Unhurt /\ call.kind = "reg" /\ Quiet("reg") /\ last["reg"] = reqCnt["reg"]
    BY <1>1, <1>4 DEF Unhurt
  <2>2. IoDone /\ ~UnderWay
    BY <1>1, <2>1, QuietReg DEF IoDone, UnderWay
  <2>3. tries = 1
    BY <1>1, <2>1, <2>2 DEF RInv, Served
  <2>4. Quiet("reg")'
    BY <1>1, <2>1 DEF Quiet, Midway
  <2>5. Tries \in Nat /\ tries < Tries
    BY <2>3, LinkAssumption
  <2>. QED  BY <1>2, <2>1, <2>3, <2>4, <2>5
<1>5. Ready' /\ OneRetry'
  BY <1>1, <1>4 DEF Ready, OneRetry, Unhurt
<1>. QED  BY <1>3, <1>5 DEF RInv

(* What the threads and the hardware leave alone.                          *)
LEMMA OthersServe ==
  ASSUME RInv, UNCHANGED <<pc, call, currResp, tries, reqCnt>>, hurt' \/ hurt' = hurt,
         IoPending', CountedUp',
         Unhurt' /\ Unhurt => (Ready => Ready') /\ (Served => Served')
  PROVE  RInv'
<1>1. Unhurt' => Unhurt
  BY DEF Unhurt
<1>2. Ready' /\ Served'
  BY <1>1 DEF RInv, Ready, Served
<1>3. RegGood' /\ OneRetry'
  BY <1>1 DEF RInv, RegGood, OneRetry, Unhurt
<1>. QED  BY <1>2, <1>3 DEF RInv

LEMMA LookServes ==
  ASSUME LInv, RInv, NEW k \in Kinds, Look(k)
  PROVE  RInv'
<1>1. /\ io.pc = "look" /\ last[k] # reqCnt[k]
      /\ io' = [pc |-> "send", kind |-> k, write |-> entry["reg"].write]
      /\ UNCHANGED <<pc, call, currResp, tries, reqCnt, respCnt, status, last, rx, wire, answers,
                     hurt>>
  BY DEF Look, Pending, callVars, regVars, wireVars, ghosts
<1>2. io'.pc = "send" /\ io'.kind = k
  BY <1>1
<1>3. IoPending' /\ CountedUp'
  BY <1>1, <1>2 DEF RInv, IoPending, CountedUp
<1>4. IoDone' => IoDone
  BY <1>1, <1>2 DEF IoDone
<1>5. UnderWay' = UnderWay
  BY <1>1 DEF UnderWay
<1>6. Quiet("reg") => Quiet("reg")'
  BY <1>1, <1>2, QuietReg DEF Quiet, Midway, Simple
<1>7. Ready => Ready'
  BY <1>1, <1>6 DEF Ready, Unhurt
<1>8. Served => Served'
  BY <1>1, <1>2, <1>4, <1>5 DEF Served, Unhurt, Elems
<1>. QED  BY <1>1, <1>3, <1>7, <1>8, OthersServe

(* What the transmit thread does for a register request it does for the    *)
(* call that waits, since nothing is under way before it is counted.       *)
LEMMA AmidRequest ==
  ASSUME LInv, RInv
  PROVE  /\ Unhurt /\ pc \in {"set", "count"} =>
              /\ ~(io.kind = "reg" /\ io.pc \in {"send", "count"})
              /\ rx.pc = "idle" /\ wire = << >> /\ answers = << >>
         /\ Unhurt /\ pc = "wait" => entry["reg"] = call
BY QuietReg, LinkNow DEF RInv, Ready, Unhurt

LEMMA AccessServes ==
  ASSUME LInv, RInv, NEW ok \in BOOLEAN, Access(ok)
  PROVE  RInv'
<1>. DEFINE g == entry["reg"].reg
<1>1. /\ io.pc = "send" /\ io.kind = "reg" /\ io' = [io EXCEPT !.pc = "count"]
      /\ status' = [status EXCEPT ![g] = ok] /\ hurt' = (hurt \/ ~ok)
      /\ UNCHANGED <<pc, call, currResp, tries, entry, reqCnt, respCnt, last, rx, wire, answers>>
  BY DEF Access, callVars
<1>2. io'.pc = "count" /\ io'.kind = "reg" /\ status'[g] = ok
  BY <1>1, LinkNow DEF LInv, TypeOK
<1>3. IoPending' /\ CountedUp' /\ ~IoDone' /\ (hurt' \/ hurt' = hurt)
  BY <1>1, <1>2 DEF RInv, IoPending, CountedUp, IoDone, LInv, TypeOK
<1>4. Unhurt => Ready'
  BY <1>1, AmidRequest DEF Ready, Unhurt
<1>5. Unhurt /\ Unhurt' /\ Served => Served'
  <2>. SUFFICES ASSUME Unhurt, Unhurt', Served, pc = "wait" PROVE Served'
    BY <1>1 DEF Served
  <2>1. status'[call.reg]
    BY <1>1, <1>2, AmidRequest DEF Unhurt
  <2>. QED  BY <1>1, <1>3, <2>1 DEF Served, Unhurt, Elems
<1>. QED  BY <1>1, <1>3, <1>4, <1>5, OthersServe

LEMMA SendServes ==
  ASSUME LInv, RInv, SendFrame
  PROVE  RInv'
<1>. DEFINE e == entry["reg"]
            f == [context |-> reqCnt["reg"], id |-> e.id, reg |-> e.reg,
                  write |-> io.write, data |-> value[e.reg]]
<1>1. /\ io.pc = "send" /\ io.kind = "reg" /\ e.reg \in Remote
      /\ wire' = Append(wire, f) /\ io' = [io EXCEPT !.pc = "match"]
      /\ UNCHANGED <<pc, call, currResp, tries, entry, reqCnt, respCnt, status, last, rx, answers,
                     hurt>>
  BY DEF SendFrame, callVars, regVars, ghosts
<1>2. f.context = reqCnt["reg"] /\ f.reg = e.reg /\ f \in Frames
  <2>1. /\ reqCnt["reg"] \in Nat /\ e.id \in 0 .. MaxCalls /\ io.write \in BOOLEAN
        /\ value[e.reg] \in Values \union {Ones}
    BY CallFields, LinkNow DEF LInv, TypeOK
  <2>. QED  BY <1>1, <2>1 DEF Frames
<1>. HIDE DEF f
<1>3. Elems(wire') = Elems(wire) \union {f} /\ wire' # << >>
  BY <1>1, <1>2, OnChannels, ElemsAppend
<1>4. io'.pc = "match" /\ io'.kind = "reg"
  BY <1>1 DEF LInv, TypeOK
<1>5. IoPending' /\ CountedUp'
  BY <1>1, <1>4 DEF RInv, IoPending, CountedUp
<1>6. Unhurt => Ready'
  BY <1>1, AmidRequest DEF Ready, Unhurt
<1>7. Unhurt /\ Served => Served'
  <2>. SUFFICES ASSUME Unhurt, Served, pc = "wait" PROVE Served'
    BY <1>1 DEF Served
  <2>1. f.context = reqCnt["reg"] /\ f.reg = call.reg
    BY <1>2, AmidRequest
  <2>2. UnderWay'
    BY <1>3 DEF UnderWay
  <2>3. /\ Elems(wire)' = Elems(wire) \union {f} /\ Elems(answers)' = Elems(answers)
    BY <1>1, <1>3 DEF Elems
  <2>. QED  BY <1>1, <1>4, <2>1, <2>2, <2>3 DEF Served, Unhurt
<1>. QED  BY <1>1, <1>5, <1>6, <1>7, OthersServe

LEMMA MatchServes ==
  ASSUME LInv, RInv, (\E ok \in BOOLEAN : SendOther(ok)) \/ Match
  PROVE  RInv'
<1>1. /\ io' = [io EXCEPT !.pc = io'.pc] /\ io'.pc \notin {"send"}
      /\ io.kind = "reg" => io.pc = "match" /\ io'.pc = "look"
      /\ UNCHANGED <<pc, call, currResp, tries, reqCnt, respCnt, status, rx, wire, answers, hurt>>
  <2>1. CASE \E ok \in BOOLEAN : SendOther(ok)
    <3>1. io' = [io EXCEPT !.pc = "match"]
      BY <2>1 DEF SendOther
    <3>2. io'.pc = "match"
      BY <3>1 DEF LInv, TypeOK
    <3>. QED  BY <2>1, <3>1, <3>2 DEF SendOther, callVars, regVars, wireVars
  <2>2. CASE Match
    <3>1. io' = [io EXCEPT !.pc = IF io.kind \in Simple THEN "count" ELSE "look"]
      BY <2>2 DEF Match
    <3>2. io'.pc = IF io.kind \in Simple THEN "count" ELSE "look"
      BY <3>1 DEF LInv, TypeOK
    <3>. QED  BY <2>2, <3>1, <3>2, LinkNow DEF Match, callVars, regVars, wireVars, ghosts
  <2>. QED  BY <2>1, <2>2
<1>2. io'.kind = io.kind
  BY <1>1 DEF LInv, TypeOK
<1>3. /\ io.kind = "reg" => last'["reg"] = reqCnt["reg"]
      /\ io.kind # "reg" => last'["reg"] = last["reg"]
      /\ last["reg"] \in Nat /\ reqCnt["reg"] \in Nat
  <2>1. last \in [Kinds -> Nat] /\ reqCnt \in [Kinds -> Nat]
    BY DEF LInv, TypeOK
  <2>. QED  BY <2>1, LinkNow DEF SendOther, Match
<1>4. IoPending' /\ CountedUp'
  BY <1>1, <1>2, <1>3 DEF RInv, IoPending, CountedUp
<1>5. (IoDone' => IoDone) /\ UnderWay' = UnderWay
  BY <1>1, <1>2, <1>3 DEF IoDone, UnderWay
<1>6. Quiet("reg") => Quiet("reg")'
  BY <1>1, <1>2, <1>3, QuietReg DEF Quiet, Midway, Simple
<1>7. Ready => Ready'
  <2>1. last["reg"] = reqCnt["reg"] => last'["reg"] = reqCnt["reg"]
    BY <1>3
  <2>. QED  BY <1>1, <1>6, <2>1 DEF Ready, Unhurt
<1>8. Served => Served'
  BY <1>1, <1>2, <1>5 DEF Served, Unhurt, Elems
<1>. QED  BY <1>1, <1>4, <1>7, <1>8, OthersServe

LEMMA CountServes ==
  ASSUME LInv, RInv, Count
  PROVE  RInv'
<1>1. /\ io.pc = "count"
      /\ io' = [io EXCEPT !.pc = IF io.kind \in Simple THEN "look" ELSE "match"]
      /\ respCnt' = [respCnt EXCEPT ![io.kind] = @ + 1]
      /\ UNCHANGED <<pc, call, currResp, tries, reqCnt, status, last, rx, wire, answers, hurt>>
  BY DEF Count, callVars, regVars, wireVars, ghosts
<1>2. /\ io'.kind = io.kind /\ io'.pc \in {"look", "match"}
      /\ io.kind # "reg" => respCnt'["reg"] = respCnt["reg"]
      /\ io.kind = "reg" => respCnt'["reg"] = respCnt["reg"] + 1
      /\ \A k \in Kinds : respCnt[k] \in Nat /\ respCnt'[k] \in Nat /\ respCnt[k] <= respCnt'[k]
  <2>1. respCnt \in [Kinds -> Nat] /\ io.kind \in Kinds /\ "reg" \in Kinds
    BY LinkNow DEF LInv, TypeOK
  <2>2. /\ respCnt'[io.kind] = respCnt[io.kind] + 1
        /\ \A k \in Kinds : /\ k # io.kind => respCnt'[k] = respCnt[k]
                           /\ respCnt[k] \in Nat /\ respCnt'[k] \in Nat
                           /\ respCnt[k] <= respCnt'[k]
    BY <1>1, <2>1, OneMore
  <2>3. io'.kind = io.kind /\ io'.pc = IF io.kind \in Simple THEN "look" ELSE "match"
    BY <1>1 DEF LInv, TypeOK
  <2>. QED  BY <2>1, <2>2, <2>3, LinkNow
<1>3. IoPending' /\ CountedUp'
  <2>1. call.kind \in Kinds /\ currResp \in Nat
    BY LinkNow DEF LInv, TypeOK
  <2>. QED  BY <1>1, <1>2, <2>1 DEF RInv, IoPending, CountedUp
<1>4. Unhurt /\ Ready => Ready'
  <2>. SUFFICES ASSUME Unhurt, Ready, pc \in {"set", "count"} PROVE Ready'
    BY <1>1 DEF Ready
  <2>1. io.kind # "reg"
    BY <1>1, AmidRequest
  <2>2. Quiet("reg") => Quiet("reg")'
    BY <1>1, <1>2, <2>1, QuietReg DEF Quiet, Midway, Simple
  <2>. QED  BY <1>1, <1>2, <2>1, <2>2 DEF Ready, Unhurt
<1>5. Unhurt /\ Served => Served'
  <2>. SUFFICES ASSUME Unhurt, Served, pc = "wait" PROVE Served'
    BY <1>1 DEF Served
  <2>1. currResp \in Nat /\ currResp <= respCnt["reg"]
    BY DEF LInv, TypeOK, RInv, CountedUp, Unhurt
  <2>2. CASE io.kind = "reg"
    <3>1. UnderWay' /\ status[call.reg]
      BY <1>1, <1>2, <2>1, <2>2, LinkNow DEF UnderWay, Served
    <3>. QED  BY <1>1, <3>1 DEF Served, Unhurt, Elems
  <2>3. CASE io.kind # "reg"
    <3>1. IoDone' = IoDone /\ UnderWay' = UnderWay
      BY <1>1, <1>2, <2>3 DEF IoDone, UnderWay
    <3>. QED  BY <1>1, <1>2, <2>3, <3>1 DEF Served, Unhurt, Elems
  <2>. QED  BY <2>2, <2>3
<1>. QED  BY <1>1, <1>3, <1>4, <1>5, OthersServe

(* A frame that is not refused brings an answer that says so.              *)
LEMMA PerformServes ==
  ASSUME LInv, RInv, NEW ok \in BOOLEAN, Perform(ok)
  PROVE  RInv'
<1>. DEFINE f == Head(wire)
            d == IF ok /\ f.write THEN [device EXCEPT ![f.reg] = f.data] ELSE device
            a == [context |-> f.context, id |-> f.id, reg |-> f.reg,
                  status |-> ok, data |-> d[f.reg]]
<1>1. /\ wire # << >> /\ wire' = Tail(wire) /\ answers' = Append(answers, a)
      /\ hurt' = (hurt \/ ~ok)
      /\ UNCHANGED <<pc, call, currResp, tries, reqCnt, respCnt, status, io, last, rx>>
  BY DEF Perform, callVars, regVars
<1>2. f \in Elems(wire) /\ Elems(Tail(wire)) \subseteq Elems(wire) /\ f \in Frames
  BY <1>1, OnChannels, ElemsTail
<1>3. d[f.reg] \in Values \union {Ones}
  <2>1. f.reg \in Registers /\ f.data \in Values \union {Ones}
    BY <1>2, LinkNow DEF Frames
  <2>2. device \in [Registers -> Values \union {Ones}]
    BY DEF LInv, TypeOK
  <2>. HIDE DEF f
  <2>. QED  BY <2>1, <2>2
<1>. HIDE DEF d
<1>4. a \in Answers /\ a.context = f.context /\ a.reg = f.reg /\ a.status = ok
  BY <1>2, <1>3 DEF Frames, Answers
<1>. HIDE DEF a, f
<1>5. /\ Elems(answers') = Elems(answers) \union {a} /\ answers' # << >>
      /\ Elems(wire') \subseteq Elems(wire)
  BY <1>1, <1>2, <1>4, OnChannels, ElemsAppend
<1>6. IoPending' /\ CountedUp' /\ (hurt' \/ hurt' = hurt)
  BY <1>1 DEF RInv, IoPending, CountedUp, LInv, TypeOK
<1>7. Unhurt => Ready'
  BY <1>1, AmidRequest DEF Ready, Unhurt
<1>8. Unhurt /\ Unhurt' /\ Served => Served'
  <2>. SUFFICES ASSUME Unhurt, Unhurt', Served, pc = "wait" PROVE Served'
    BY <1>1 DEF Served
  <2>1. ok /\ f.context = reqCnt["reg"] /\ f.reg = call.reg
    BY <1>1, <1>2 DEF Served, Unhurt
  <2>2. UnderWay'
    BY <1>5 DEF UnderWay
  <2>3. \A b \in Elems(answers') : b \in Elems(answers) \/ b = a
    BY <1>5
  <2>4. Elems(answers)' = Elems(answers') /\ Elems(wire)' = Elems(wire')
    BY DEF Elems
  <2>. QED  BY <1>1, <1>4, <1>5, <2>1, <2>2, <2>3, <2>4 DEF Served, Unhurt
<1>. QED  BY <1>1, <1>6, <1>7, <1>8, OthersServe

LEMMA LossServes == LInv /\ RInv /\ (LoseFrame \/ LoseAnswer) => RInv'
<1>. SUFFICES ASSUME RInv, LoseFrame \/ LoseAnswer PROVE RInv'
  OBVIOUS
<1>1. /\ hurt'
      /\ UNCHANGED <<pc, call, currResp, tries, reqCnt, respCnt, io, last>>
  BY DEF LoseFrame, LoseAnswer, callVars
<1>2. IoPending' /\ CountedUp' /\ ~Unhurt'
  BY <1>1 DEF RInv, IoPending, CountedUp, Unhurt
<1>. QED  BY <1>1, <1>2, OthersServe

LEMMA CheckServes ==
  ASSUME LInv, RInv, RxCheck
  PROVE  RInv'
<1>. DEFINE a == Head(answers)
<1>1. /\ answers # << >> /\ answers' = Tail(answers)
      /\ rx' = IF Expected(a) THEN [pc |-> "copy", answer |-> a] ELSE rx
      /\ UNCHANGED <<pc, call, currResp, tries, entry, reqCnt, respCnt, status, io, last, wire,
                     hurt>>
  BY DEF RxCheck, callVars, regVars, ghosts
<1>2. a \in Elems(answers) /\ Elems(Tail(answers)) \subseteq Elems(answers)
  BY <1>1, OnChannels, ElemsTail
<1>. HIDE DEF a
<1>3. IoPending' /\ CountedUp'
  BY <1>1 DEF RInv, IoPending, CountedUp
<1>4. Unhurt => Ready'
  BY <1>1, AmidRequest DEF Ready, Unhurt
<1>5. Unhurt /\ Served => Served'
  <2>. SUFFICES ASSUME Unhurt, Served, pc = "wait" PROVE Served'
    BY <1>1 DEF Served
  <2>1. Expected(a) /\ a.status
    BY <1>2, AmidRequest DEF Served, Expected
  <2>2. rx'.pc = "copy" /\ rx'.answer = a
    BY <1>1, <2>1
  <2>3. UnderWay'
    BY <2>2 DEF UnderWay
  <2>4. Elems(answers)' \subseteq Elems(answers) /\ Elems(wire)' = Elems(wire)
    BY <1>1, <1>2 DEF Elems
  <2>. QED  BY <1>1, <2>1, <2>2, <2>3, <2>4 DEF Served, Unhurt
<1>. QED  BY <1>1, <1>3, <1>4, <1>5, OthersServe

LEMMA CopyServes ==
  ASSUME LInv, RInv, RxCopy
  PROVE  RInv'
<1>. DEFINE g == entry["reg"].reg
<1>1. /\ rx.pc = "copy" /\ rx' = [pc |-> "count"]
      /\ status' = [status EXCEPT ![g] = rx.answer.status]
      /\ UNCHANGED <<pc, call, currResp, tries, reqCnt, respCnt, io, last, wire, answers, hurt>>
  BY DEF RxCopy, callVars, wireVars
<1>2. rx'.pc = "count" /\ status'[g] = rx.answer.status
  BY <1>1, LinkNow DEF LInv, TypeOK
<1>3. IoPending' /\ CountedUp'
  BY <1>1 DEF RInv, IoPending, CountedUp
<1>4. Unhurt => Ready'
  BY <1>1, AmidRequest DEF Ready, Unhurt
<1>5. Unhurt /\ Served => Served'
  <2>. SUFFICES ASSUME Unhurt, Served, pc = "wait" PROVE Served'
    BY <1>1 DEF Served
  <2>1. status'[call.reg] /\ UnderWay'
    BY <1>1, <1>2, AmidRequest DEF Served, UnderWay
  <2>. QED  BY <1>1, <1>2, <2>1 DEF Served, Unhurt, Elems
<1>. QED  BY <1>1, <1>3, <1>4, <1>5, OthersServe

LEMMA RxCountServes ==
  ASSUME LInv, RInv, RxCount
  PROVE  RInv'
<1>1. /\ rx.pc = "count" /\ rx' = [pc |-> "idle"] /\ rx'.pc = "idle"
      /\ respCnt' = [respCnt EXCEPT !["reg"] = @ + 1]
      /\ UNCHANGED <<pc, call, currResp, tries, reqCnt, status, io, last, wire, answers, hurt>>
  BY DEF RxCount, callVars, regVars, wireVars, ghosts
<1>2. /\ respCnt'["reg"] = respCnt["reg"] + 1
      /\ \A k \in Kinds : respCnt[k] \in Nat /\ respCnt'[k] \in Nat /\ respCnt[k] <= respCnt'[k]
  <2>1. respCnt \in [Kinds -> Nat] /\ "reg" \in Kinds
    BY LinkNow DEF LInv, TypeOK
  <2>. QED  BY <1>1, <2>1, OneMore
<1>3. IoPending' /\ CountedUp'
  <2>1. call.kind \in Kinds /\ currResp \in Nat
    BY LinkNow DEF LInv, TypeOK
  <2>. QED  BY <1>1, <1>2, <2>1 DEF RInv, IoPending, CountedUp
<1>4. Unhurt => Ready'
  BY <1>1, AmidRequest DEF Ready, Unhurt
<1>5. Unhurt /\ Served => Served'
  <2>. SUFFICES ASSUME Unhurt, Served, pc = "wait" PROVE Served'
    BY <1>1 DEF Served
  <2>1. currResp \in Nat /\ currResp <= respCnt["reg"]
    BY DEF LInv, TypeOK, RInv, CountedUp, Unhurt
  <2>2. UnderWay' /\ status[call.reg]
    BY <1>1, <1>2, <2>1, LinkNow DEF UnderWay, Served
  <2>. QED  BY <1>1, <2>2 DEF Served, Unhurt, Elems
<1>. QED  BY <1>1, <1>3, <1>4, <1>5, OthersServe

LEMMA RequestServes == LInv /\ RInv /\ Requests => RInv'
<1>. SUFFICES ASSUME LInv, RInv, Requests PROVE RInv'
  OBVIOUS
<1>1. ASSUME NEW r \in Registers, NEW v \in Values, NEW force \in BOOLEAN,
             NEW wait \in BOOLEAN, WriteRegister(r, v, force, wait)
      PROVE  RInv'
  <2>. DEFINE c == [NewCall("reg") EXCEPT !.reg = r, !.write = TRUE, !.wait = wait]
  <2>1. c.good
    BY DEF NewCall, NoCall
  <2>. QED  BY <1>1, <2>1, BeginServes DEF WriteRegister
<1>2. ASSUME NEW r \in Registers, ReadRegister(r)
      PROVE  RInv'
  <2>. DEFINE c == [NewCall("reg") EXCEPT !.reg = r, !.wait = TRUE]
  <2>1. c.good
    BY DEF NewCall, NoCall
  <2>. QED  BY <1>2, <2>1, BeginServes DEF ReadRegister
<1>3. CASE QueueCommand
  <2>. DEFINE c == [NewCall("cmd") EXCEPT !.wait = TRUE]
  <2>1. c.kind = "cmd"
    BY DEF NewCall, NoCall
  <2>. QED  BY <1>3, <2>1, BeginServes DEF QueueCommand
<1>4. ASSUME NEW good \in BOOLEAN, QueueDataTx(good)
      PROVE  RInv'
  <2>. DEFINE c == [NewCall("data") EXCEPT !.wait = TRUE, !.good = good]
  <2>1. c.kind = "data"
    BY DEF NewCall, NoCall
  <2>. QED  BY <1>4, <2>1, BeginServes DEF QueueDataTx
<1>5. CASE QueueRunCommand
  <2>1. NewCall("run").kind = "run"
    BY DEF NewCall, NoCall
  <2>. QED  BY <1>5, <2>1, BeginServes DEF QueueRunCommand
<1>. QED  BY <1>1, <1>2, <1>3, <1>4, <1>5 DEF Requests

LEMMA RInvNext == Tries >= 2 /\ LInv /\ RInv /\ [Next]_vars => RInv'
<1>. SUFFICES ASSUME Tries >= 2, LInv, RInv, [Next]_vars PROVE RInv'
  OBVIOUS
<1>1. CASE UNCHANGED vars
  BY <1>1 DEF vars, callVars, regVars, wireVars, ghosts, RInv, IoPending, Ready, Served, Unhurt,
              Elems, IoDone, UnderWay, CountedUp, RegGood, OneRetry, Quiet, Midway
<1>2. CASE Requests
  BY <1>2, RequestServes
<1>3. CASE Caller
  BY <1>3, ReadServes, TryServes, AnsweredServes, TimedOutServes DEF Caller
<1>4. CASE Transmit
  BY <1>4, LookServes, AccessServes, SendServes, MatchServes, CountServes DEF Transmit
<1>5. CASE Receive
  BY <1>5, CheckServes, CopyServes, RxCountServes DEF Receive
<1>6. CASE Hardware
  BY <1>6, PerformServes, LossServes DEF Hardware
<1>. QED  BY <1>1, <1>2, <1>3, <1>4, <1>5, <1>6 DEF Next

(* A register access to which nothing happened, that is of which nothing   *)
(* was lost or refused, that was begun when nothing of an earlier one was  *)
(* under way and of which no try was given up too early, succeeds, with at *)
(* most one retry: queueRegister only has to try twice, and tries six      *)
(* times.                                                                  *)
THEOREM LinkOneRetry == Tries >= 2 => (Spec => []OneRetry)
<1>. SUFFICES ASSUME Tries >= 2 PROVE Spec => []OneRetry
  OBVIOUS
<1>1. RInv => OneRetry
  BY DEF RInv
<1>2. LInv /\ RInv /\ [Next]_vars => RInv'
  BY RInvNext
<1>. QED  BY LInvInit, LInvNext, RInvInit, <1>1, <1>2, PTL DEF Spec

=============================================================================
