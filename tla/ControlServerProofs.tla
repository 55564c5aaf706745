-------------------------- MODULE ControlServerProofs -------------------------
(***************************************************************************)
(* What the program on the shared memory may rely on, for every number of  *)
(* clients, messages and commands and every modulus of the counters.       *)
(***************************************************************************)
EXTENDS ControlServer, TLAPS

(* Of the types they need little more than that the memory is a record.    *)
Fields == {"rdy", "ack", "type", "arg", "result", "error", "config"}

MemOK == DOMAIN mem = Fields /\ mem.rdy \in 0 .. CountMod - 1

IInv == MemOK /\ CommandInv

USE ServerAssumption

(* One more command is never as many, in a counter of more than one value. *)
LEMMA NextCount ==
  ASSUME NEW n \in 0 .. CountMod - 1
  PROVE  (n + 1) % CountMod \in 0 .. CountMod - 1 /\ (n + 1) % CountMod # n
<1>1. CASE n + 1 < CountMod
  <2>1. (n + 1) % CountMod = n + 1  BY <1>1, SMT
  <2> QED  BY <1>1, <2>1
<1>2. CASE n + 1 = CountMod
  <2>1. (n + 1) % CountMod = 0  BY <1>2, SMT
  <2> QED  BY <1>2, <2>1
<1> QED  BY <1>1, <1>2

LEMMA InitInv == Init => IInv
<1> SUFFICES ASSUME Init PROVE IInv  OBVIOUS
<1>1. MemOK
  BY DEF Init, MemOK, Fields
<1>2. CommandInv
  BY DEF Init, NoCall, CommandInv, CleanCall
<1> QED  BY <1>1, <1>2 DEF IInv

(* The steps of the program on the shared memory.                          *)
LEMMA ProgramTypes == MemOK /\ Program => MemOK'
<1> SUFFICES ASSUME MemOK, Program PROVE MemOK'  OBVIOUS
<1>1. (mem.rdy + 1) % CountMod \in 0 .. CountMod - 1  BY NextCount DEF MemOK
<1> QED
  BY <1>1 DEF MemOK, Fields, Program, SetArgs, ClearError, SetType, CountReady, GetResult,
              Return, GiveUp

LEMMA ProgramSteps == IInv /\ Program => CommandInv'
<1> SUFFICES ASSUME IInv, Program PROVE CommandInv'  OBVIOUS
<1> USE DEF IInv, MemOK, Fields
<1>f. mem.rdy \in 0 .. CountMod - 1  OBVIOUS
<1>0. UNCHANGED <<at, shmPend, err>>
  BY DEF Program, SetArgs, ClearError, SetType, CountReady, GetResult, Return, GiveUp,
         passVars, sysVars
<1>1. ASSUME NEW t \in ShmAsks, NEW v \in ValuesOf(t), SetArgs(t, v) PROVE CleanCall'
  <2>1. /\ mem'.rdy = mem.rdy /\ mem'.ack = mem.ack
        /\ mem'.arg.no = call.no + 1
    BY <1>1 DEF SetArgs
  <2>2. /\ call'.no = call.no + 1 /\ call'.clean = (mem.rdy = mem.ack /\ ~InCommand)
        /\ prog' = "error" /\ runs' = 0 /\ ~bad'
    BY <1>1 DEF SetArgs
  <2> QED  BY <1>0, <2>1, <2>2 DEF CleanCall, Waiting, InCommand, NotBegun, Executing
<1>2. CASE ClearError
  <2>1. mem'.rdy = mem.rdy /\ mem'.ack = mem.ack /\ mem'.arg = mem.arg
    BY <1>2 DEF ClearError
  <2> QED
    BY <1>2, <1>0, <2>1 DEF ClearError, runVars, CommandInv, CleanCall, Waiting, InCommand, NotBegun
<1>3. CASE SetType
  <2>1. mem'.rdy = mem.rdy /\ mem'.ack = mem.ack /\ mem'.arg = mem.arg
    BY <1>3 DEF SetType
  <2> QED
    BY <1>3, <1>0, <2>1 DEF SetType, runVars, CommandInv, CleanCall, Waiting, InCommand, NotBegun
<1>4. CASE CountReady
  <2>1. /\ mem'.rdy = (mem.rdy + 1) % CountMod
        /\ mem'.ack = mem.ack /\ mem'.arg = mem.arg
    BY <1>4 DEF CountReady
  <2>2. (mem.rdy + 1) % CountMod # mem.rdy  BY <1>f, NextCount
  <2>3. prog = "count" /\ prog' = "wait" /\ UNCHANGED <<call, runs, bad>>
    BY <1>4 DEF CountReady, runVars
  <2> QED
    BY <1>0, <2>1, <2>2, <2>3 DEF CommandInv, CleanCall, Waiting, InCommand, NotBegun
<1>5. CASE GetResult
  BY <1>5, <1>0 DEF GetResult, runVars, CommandInv, CleanCall, Waiting, InCommand, Executing
<1>6. CASE Return
  <2>1. call'.clean = FALSE  BY <1>6 DEF Return, NoCall
  <2> QED  BY <1>0, <2>1 DEF CommandInv, CleanCall
<1>7. CASE GiveUp
  <2>1. call'.clean = FALSE  BY <1>7 DEF GiveUp, NoCall
  <2> QED  BY <1>0, <2>1 DEF CommandInv, CleanCall
<1>8. CleanCall'
  BY <1>1, <1>2, <1>3, <1>4, <1>5, <1>6, <1>7 DEF Program, CommandInv
<1> QED  BY <1>0, <1>8 DEF CommandInv

(* The steps of the server.                                                *)
LEMMA PassTypes == MemOK /\ Pass => MemOK'
<1> SUFFICES ASSUME MemOK, Pass PROVE MemOK'  OBVIOUS
<1> USE DEF MemOK, Fields
<1>1. CASE Select \/ GetCommand \/ NoPoll \/ Broadcast
  BY <1>1 DEF Select, GetCommand, NoPoll, Broadcast
<1>2. ASSUME NEW c \in Clients, Accept(c) \/ Read(c) PROVE MemOK'
  BY <1>2 DEF Accept, Read
<1>3. CASE Execute
  <2>1. mem' = [mem EXCEPT !.result = mem.arg.no]  BY <1>3 DEF Execute, Executed
  <2> QED  BY <2>1
<1>4. CASE Poll \/ PollDue  BY <1>4 DEF Poll, PollDue
<1>5. CASE Ack  BY <1>5 DEF Ack
<1> QED  BY <1>1, <1>2, <1>3, <1>4, <1>5 DEF Pass

LEMMA PassSteps == IInv /\ Pass => CommandInv'
<1> SUFFICES ASSUME IInv, Pass PROVE CommandInv'  OBVIOUS
<1> USE DEF IInv, MemOK, Fields
<1>1. CASE Select
  <2>1. UNCHANGED <<mem, prog, call, runs, bad>> /\ ~shmPend' /\ ~InCommand /\ ~InCommand'
        /\ at' \in {"accept", "read"} /\ at = "select"
    BY <1>1 DEF Select, progVars, runVars, InCommand
  <2> QED  BY <2>1 DEF CommandInv, CleanCall, Waiting, NotBegun, Executing
<1>2. ASSUME NEW c \in Clients, Accept(c) \/ Read(c) PROVE CommandInv'
  <2>1. UNCHANGED <<mem, prog, call, runs, bad, shmPend>> /\ at' = "read" /\ ~shmPend
    BY <1>2 DEF Accept, Read, passVars, progVars, runVars, CommandInv
  <2> QED
    BY <2>1, <1>2 DEF CommandInv, CleanCall, Waiting, InCommand, NotBegun, Executing
<1>3. CASE GetCommand
  <2>1. UNCHANGED <<mem, prog, call, runs, bad>> /\ at = "read" /\ ~shmPend
    BY <1>3 DEF GetCommand, progVars, runVars, CommandInv
  <2>2. \/ ~Waiting /\ at' = "poll" /\ ~shmPend'
        \/ Waiting /\ at' = "command" /\ shmPend'
    BY <1>3, <2>1 DEF GetCommand, Waiting
  <2> QED
    BY <2>1, <2>2 DEF CommandInv, CleanCall, Waiting, InCommand, NotBegun, Executing
<1>4. CASE Execute
  <2>1. /\ mem' = [mem EXCEPT !.result = mem.arg.no] /\ runs' = Counted(mem.arg.no)
        /\ at = "command" /\ at' = "poll" /\ UNCHANGED <<shmPend, prog, call>>
        /\ bad' = bad \/ (bad' = Failed(mem.arg.no) /\ err' = TRUE)
    BY <1>4 DEF Execute, Executed, ParseFailed, passVars, progVars
  <2>2. mem'.rdy = mem.rdy /\ mem'.ack = mem.ack /\ mem'.result = mem.arg.no
    BY <2>1
  <2>3. ASSUME call.clean, prog = "wait", Waiting
        PROVE  Executing' /\ (bad' => err')
    BY <2>1, <2>2, <2>3 DEF CommandInv, CleanCall, NotBegun, Executing, Counted
  <2> QED
    BY <2>1, <2>2, <2>3 DEF CommandInv, CleanCall, Waiting, InCommand
<1>5. CASE Poll \/ PollDue
  <2>1. /\ at = "poll" /\ at' = "ack" /\ UNCHANGED <<shmPend, prog, call, runs, bad>>
        /\ mem' = [mem EXCEPT !.error = @ \/ err', !.config = IF allConfig THEN config ELSE @]
        /\ err => err'
    BY <1>5 DEF Poll, PollDue, passVars, progVars, runVars
  <2>2. /\ mem'.rdy = mem.rdy /\ mem'.ack = mem.ack /\ mem'.result = mem.result
        /\ mem'.arg = mem.arg /\ mem'.error = (mem.error \/ err')
    BY <2>1
  <2> QED
    BY <2>1, <2>2 DEF CommandInv, CleanCall, Waiting, InCommand, NotBegun, Executing
<1>6. CASE NoPoll
  <2>1. at = "poll" /\ at' = "select" /\ ~shmPend
        /\ UNCHANGED <<mem, shmPend, prog, call, runs, bad>>
    BY <1>6 DEF NoPoll, passVars, progVars, runVars
  <2> QED
    BY <2>1 DEF CommandInv, CleanCall, Waiting, InCommand, NotBegun, Executing
<1>7. CASE Ack
  <2>1. at = "ack" /\ at' = "send" /\ UNCHANGED <<shmPend, prog, call, runs, bad>>
    BY <1>7 DEF Ack, passVars, progVars, runVars
  <2>2. /\ mem'.rdy = mem.rdy /\ mem'.ack = IF shmPend THEN mem.rdy ELSE mem.ack
        /\ mem'.result = mem.result /\ mem'.arg = mem.arg /\ mem'.error = mem.error
    BY <1>7 DEF Ack
  <2> QED
    BY <2>1, <2>2 DEF CommandInv, CleanCall, Waiting, InCommand, NotBegun, Executing
<1>8. CASE Broadcast
  <2>1. at = "send" /\ at' = "select" /\ UNCHANGED <<mem, shmPend, prog, call, runs, bad>>
    BY <1>8 DEF Broadcast, passVars, progVars, runVars
  <2> QED
    BY <2>1 DEF CommandInv, CleanCall, Waiting, InCommand, NotBegun, Executing
<1> QED  BY <1>1, <1>2, <1>3, <1>4, <1>5, <1>6, <1>7, <1>8 DEF Pass

(* What the clients do concerns none of it.                                *)
LEMMA OtherSteps ==
  IInv /\ (UNCHANGED vars \/ \E c \in Clients : AskIn(c) \/ Send(c) \/ HangUp(c)) => IInv'
<1> SUFFICES ASSUME IInv, UNCHANGED <<at, passVars, sysVars, mem, progVars, runVars>>
             PROVE  IInv'
  BY DEF AskIn, Send, HangUp, vars
<1> QED
  BY DEF IInv, MemOK, CommandInv, CleanCall, Waiting, InCommand, NotBegun, Executing,
         passVars, sysVars, progVars, runVars

LEMMA InvHolds == Spec => []IInv
<1>1. IInv /\ [Next]_vars => IInv'
  BY ProgramTypes, ProgramSteps, PassTypes, PassSteps, OtherSteps DEF Next, IInv
<1> QED  BY InitInv, <1>1, PTL DEF Spec

(* A program that begins its command when no other is pending or in work   *)
(* and sees it acknowledged: it was executed once and the result is its    *)
(* own, however often others timed out before it.                          *)
THEOREM ServerDoneOnce == Spec => []DoneOnce
<1>1. IInv => DoneOnce  BY DEF IInv, CommandInv, CleanCall, Executing, DoneOnce
<1> QED  BY InvHolds, <1>1, PTL

(* Such a program finds an error in the memory if its command has failed.  *)
THEOREM ServerFailureTold == Spec => []FailureTold
<1>1. IInv => FailureTold  BY DEF IInv, CommandInv, CleanCall, FailureTold
<1> QED  BY InvHolds, <1>1, PTL

-----------------------------------------------------------------------------
(* What the clients may rely on.                                           *)

ConnOK ==
  /\ DOMAIN mem = Fields
  /\ conn \in [Clients -> {"out", "asking", "in"}] /\ quiet \in [Clients -> BOOLEAN]
  /\ DOMAIN view = Clients /\ owed \subseteq Clients /\ ready \subseteq Clients

VInv == ConnOK /\ CommandInv /\ PassInv

(* The shape of the state is kept by every step.                           *)
LEMMA ConnKept == ConnOK /\ [Next]_vars => ConnOK'
<1> SUFFICES ASSUME ConnOK, [Next]_vars PROVE ConnOK'  OBVIOUS
<1> USE DEF ConnOK, Fields
<1>1. CASE Program
  BY <1>1 DEF Program, SetArgs, ClearError, SetType, CountReady, GetResult, Return, GiveUp,
              tcpVars, passVars
<1>2. ASSUME NEW c \in Clients, AskIn(c) \/ Send(c) \/ HangUp(c) PROVE ConnOK'
  BY <1>2 DEF AskIn, Send, HangUp, passVars
<1>3. CASE Select \/ GetCommand \/ NoPoll \/ Ack
  BY <1>3 DEF Select, GetCommand, NoPoll, Ack, tcpVars, passVars
<1>4. ASSUME NEW c \in Clients, Accept(c) PROVE ConnOK'
  BY <1>4 DEF Accept, Closed, passVars
<1>5. ASSUME NEW c \in Clients, Read(c) PROVE ConnOK'
  BY <1>5 DEF Read, Closed
<1>6. CASE Execute
  <2>1. mem' = [mem EXCEPT !.result = mem.arg.no]  BY <1>6 DEF Execute, Executed
  <2> QED  BY <1>6, <2>1 DEF Execute, tcpVars, passVars
<1>7. CASE Poll \/ PollDue  BY <1>7 DEF Poll, PollDue, tcpVars, passVars
<1>8. CASE Broadcast  BY <1>8 DEF Broadcast, passVars
<1>9. CASE UNCHANGED vars  BY <1>9 DEF vars, tcpVars, passVars
<1> QED  BY <1>1, <1>2, <1>3, <1>4, <1>5, <1>6, <1>7, <1>8, <1>9 DEF Next, Pass

(* Steps that leave the server, the connections and what they were told    *)
(* alone, and the configuration in the memory.                             *)
LEMMA OutsideSteps ==
  ASSUME VInv, UNCHANGED <<at, passVars, sysVars, quiet, view, owed>>,
         mem'.config = mem.config, \A c \in Clients : conn'[c] = "in" <=> conn[c] = "in"
  PROVE  PassInv'
BY DEF VInv, ConnOK, PassInv, WillPoll, Current, passVars, sysVars

LEMMA ProgramPass == VInv /\ Program => PassInv'
<1> SUFFICES ASSUME VInv, Program PROVE PassInv'  OBVIOUS
<1>1. mem'.config = mem.config
  BY DEF Program, SetArgs, ClearError, SetType, CountReady, GetResult, Return, GiveUp, VInv,
         ConnOK, Fields
<1>2. UNCHANGED <<at, passVars, sysVars, tcpVars>>
  BY DEF Program, SetArgs, ClearError, SetType, CountReady, GetResult, Return, GiveUp
<1> QED  BY <1>1, <1>2, OutsideSteps DEF tcpVars

LEMMA ClientPass ==
  VInv /\ (\E c \in Clients : AskIn(c) \/ Send(c) \/ HangUp(c)) => PassInv'
<1> SUFFICES ASSUME VInv, NEW c \in Clients, AskIn(c) \/ Send(c) \/ HangUp(c) PROVE PassInv'
  OBVIOUS
<1>1. UNCHANGED <<at, passVars, sysVars, quiet, view, owed, mem>>
  BY DEF AskIn, Send, HangUp
<1>2. \A d \in Clients : conn'[d] = "in" <=> conn[d] = "in"
  BY DEF AskIn, Send, HangUp, VInv, ConnOK
<1> QED  BY <1>1, <1>2, OutsideSteps

(* What parsing does to the configuration and to what is announced of it.  *)
LEMMA ParseSteps ==
  ASSUME NEW ask, NEW v, Parsed(ask, v) \/ ParseFailed(ask, v)
  PROVE  /\ silent => silent'
         /\ allConfig => allConfig'
         /\ ~silent' => config' = config \/ allConfig'
<1>1. CASE Parsed(ask, v)
  <2>1. ask \in {"set", "read"} => allConfig'  BY <1>1 DEF Parsed
  <2>2. ask \notin {"set", "read", "reset"} => config' = config  BY <1>1 DEF Parsed
  <2>3. ask = "reset" => silent' \/ config' = config  BY <1>1 DEF Parsed
  <2>4. (silent => silent') /\ (allConfig => allConfig')  BY <1>1 DEF Parsed
  <2> QED  BY <2>1, <2>2, <2>3, <2>4
<1>2. CASE ParseFailed(ask, v)
  <2>1. silent' = (silent \/ config' # config) /\ UNCHANGED allConfig
    BY <1>2 DEF ParseFailed
  <2> QED  BY <2>1
<1> QED  BY <1>1, <1>2

LEMMA PassPass == VInv /\ Pass => PassInv'
<1> SUFFICES ASSUME VInv, Pass PROVE PassInv'  OBVIOUS
<1> USE DEF VInv
<1>1. CASE Select
  <2>1. UNCHANGED <<sysVars, conn, quiet, view, owed, mem>> /\ at = "select"
        /\ at' \in {"accept", "read"} /\ \A c \in ready' : conn[c] = "in"
    BY <1>1 DEF Select, tcpVars
  <2> QED  BY <2>1 DEF PassInv, WillPoll, Current, sysVars
<1>2. ASSUME NEW c \in Clients, Accept(c) PROVE PassInv'
  <2>1. UNCHANGED <<sysVars, passVars, mem>> /\ at = "accept" /\ at' = "read"
        /\ conn[c] = "asking"
    BY <1>2 DEF Accept
  <2>2. c \notin ready /\ owed = {}  BY <2>1 DEF PassInv
  <2>3. owed' = {} /\ \A d \in Clients \ {c} : conn'[d] = conn[d] /\ view'[d] = view[d]
                                               /\ quiet'[d] = quiet[d]
    BY <1>2, <2>2 DEF Accept, Closed, ConnOK
  <2>4. conn'[c] = "in" => view'[c] = config  BY <1>2 DEF Accept, Closed, ConnOK
  <2> QED
    BY <2>1, <2>2, <2>3, <2>4 DEF PassInv, WillPoll, Current, sysVars, passVars, ConnOK
<1>3. ASSUME NEW c \in Clients, Read(c) PROVE PassInv'
  <2>1. UNCHANGED <<at, view, mem>> /\ at = "read" /\ c \in ready /\ conn[c] = "in"
    BY <1>3 DEF Read, PassInv
  <2>2. CASE Head(inbox[c]) = End
    <3>1. UNCHANGED <<quiet, sysVars, indPend>> /\ ready' = ready \ {c} /\ owed' = owed \ {c}
          /\ conn' = [conn EXCEPT ![c] = "out"]
      BY <1>3, <2>2 DEF Read, Closed
    <3> QED  BY <2>1, <3>1 DEF PassInv, WillPoll, Current, sysVars, ConnOK
  <2>3. CASE Head(inbox[c]) # End
    <3>1. conn' = conn /\ ready' \subseteq ready  BY <1>3, <2>3 DEF Read
    <3>2. CASE Head(inbox[c]) = Quiet
      <4>1. UNCHANGED <<sysVars, indPend, owed>> /\ quiet' = [quiet EXCEPT ![c] = TRUE]
        BY <1>3, <2>3, <3>2 DEF Read
      <4> QED  BY <2>1, <3>1, <4>1 DEF PassInv, WillPoll, Current, sysVars, ConnOK
    <3>3. CASE Head(inbox[c]) # Quiet
      <4>1. /\ Parse(Head(inbox[c]).ask, Head(inbox[c]).value) /\ quiet' = quiet
            /\ indPend' = indPend \union {c} /\ owed' = owed \union {c}
        BY <1>3, <2>3, <3>3 DEF Read
      <4>2. /\ status' /\ (silent => silent') /\ (allConfig => allConfig')
            /\ ~silent' => config' = config \/ allConfig'
        BY <4>1, ParseSteps DEF Parse
      <4> QED  BY <2>1, <3>1, <4>1, <4>2 DEF PassInv, WillPoll, Current, ConnOK
    <3> QED  BY <3>2, <3>3
  <2> QED  BY <2>2, <2>3
<1>4. CASE GetCommand
  <2>1. UNCHANGED <<sysVars, conn, quiet, view, owed, mem, indPend>> /\ at = "read"
        /\ at' \in {"command", "poll"}
    BY <1>4 DEF GetCommand, tcpVars
  <2> QED  BY <2>1 DEF PassInv, WillPoll, Current, sysVars, ConnOK
<1>5. CASE Execute
  <2>1. mem' = [mem EXCEPT !.result = mem.arg.no] /\ at = "command" /\ at' = "poll"
        /\ UNCHANGED <<indPend, shmPend, ready, conn, quiet, view, owed>> /\ shmPend
    BY <1>5 DEF Execute, Executed, passVars, tcpVars, CommandInv
  <2>2. /\ (silent => silent') /\ (allConfig => allConfig')
        /\ ~silent' => config' = config \/ allConfig'
        /\ status => status'
    BY <1>5, ParseSteps DEF Execute, sysVars
  <2>3. mem'.config = mem.config  BY <2>1 DEF ConnOK, Fields
  <2> QED  BY <2>1, <2>2, <2>3 DEF PassInv, WillPoll, Current, ConnOK
<1>6. CASE Poll \/ PollDue
  <2>1. /\ at = "poll" /\ at' = "ack" /\ UNCHANGED <<config, allConfig, silent>>
        /\ UNCHANGED <<indPend, shmPend, ready, conn, quiet, view, owed>>
        /\ mem' = [mem EXCEPT !.error = @ \/ err', !.config = IF allConfig THEN config ELSE @]
    BY <1>6 DEF Poll, PollDue, passVars, tcpVars
  <2>2. mem'.config = IF allConfig THEN config ELSE mem.config
    BY <2>1 DEF ConnOK, Fields
  <2>3. owed # {} => status'  BY <1>6 DEF Poll, PollDue, PassInv
  <2> QED  BY <2>1, <2>2, <2>3 DEF PassInv, WillPoll, Current, ConnOK
<1>7. CASE NoPoll
  <2>1. UNCHANGED <<sysVars, conn, quiet, view, owed, mem, indPend, shmPend>>
        /\ at = "poll" /\ at' = "select" /\ ~shmPend /\ indPend = {}
    BY <1>7 DEF NoPoll, tcpVars, passVars
  <2> QED  BY <2>1 DEF PassInv, WillPoll, Current, sysVars, ConnOK
<1>8. CASE Ack
  <2>1. UNCHANGED <<sysVars, conn, quiet, view, owed, indPend, shmPend>>
        /\ at = "ack" /\ at' = "send"
    BY <1>8 DEF Ack, tcpVars, passVars
  <2>2. mem'.config = mem.config  BY <1>8 DEF Ack, ConnOK, Fields
  <2> QED  BY <2>1, <2>2 DEF PassInv, WillPoll, Current, sysVars, ConnOK
<1>9. CASE Broadcast
  <2>1. at = "send" /\ at' = "select" /\ UNCHANGED <<config, quiet, mem, indPend>>
        /\ ~allConfig' /\ silent' = (silent /\ ~allConfig)
    BY <1>9 DEF Broadcast, passVars
  <2>2. \A c \in owed : Hears(c)  BY DEF PassInv, Hears, ConnOK
  <2>3. owed' = {}  BY <1>9, <2>2 DEF Broadcast, PassInv
  <2>4. \A c \in Clients : conn'[c] = "in" => conn[c] = "in"
    BY <1>9 DEF Broadcast, ConnOK
  <2>5. allConfig => \A c \in Clients : conn[c] = "in" /\ ~quiet[c] => view'[c] = config
    BY <1>9 DEF Broadcast, Hears
  <2>6. ~allConfig => \A c \in Clients : view'[c] = view[c]
    BY <1>9 DEF Broadcast, ConnOK
  <2>7. ~silent' => Current'
    BY <2>1, <2>4, <2>5, <2>6 DEF PassInv, Current
  <2> QED  BY <2>1, <2>3, <2>7 DEF PassInv
<1> QED  BY <1>1, <1>2, <1>3, <1>4, <1>5, <1>6, <1>7, <1>8, <1>9 DEF Pass

LEMMA VInvHolds == Spec => []VInv
<1>1. Init => VInv
  <2> SUFFICES ASSUME Init PROVE VInv  OBVIOUS
  <2>1. ConnOK  BY DEF Init, ConnOK, Fields
  <2>2. PassInv  BY DEF Init, PassInv, Current
  <2> QED  BY <2>1, <2>2, InitInv DEF VInv, IInv
<1>2. VInv /\ UNCHANGED vars => PassInv'
  <2> SUFFICES ASSUME VInv, UNCHANGED vars PROVE PassInv'  OBVIOUS
  <2> QED  BY OutsideSteps DEF vars, tcpVars
<1>3. VInv /\ CommandInv' /\ [Next]_vars => VInv'
  BY <1>2, ConnKept, ProgramPass, ClientPass, PassPass DEF Next, VInv
<1>4. IInv => CommandInv  BY DEF IInv
<1> QED  BY <1>1, <1>3, <1>4, InvHolds, PTL DEF Spec

(* Whatever fails, a client that listens and the memory have the           *)
(* configuration that holds after every pass, if each change of it was     *)
(* announced.                                                              *)
THEOREM ServerViewsCurrent == Spec => []ViewsCurrent
<1>1. VInv => ViewsCurrent  BY DEF VInv, PassInv, WillPoll, ViewsCurrent
<1> QED  BY VInvHolds, <1>1, PTL

(* No message is forgotten: its sender hears of it at the end of the pass. *)
THEOREM ServerAnswers == Spec => []AnsweredInPass
<1>1. VInv => AnsweredInPass  BY DEF VInv, PassInv, AnsweredInPass
<1> QED  BY VInvHolds, <1>1, PTL

===============================================================================
