----------------------------- MODULE ControlServer ----------------------------
(***************************************************************************)
(* The control server: one thread that serves the clients connected over   *)
(* TCP and the commands of a program that shares memory with it, parses    *)
(* what they send, polls the system, and tells all of them what has become *)
(* of the configuration.                                                   *)
(*                                                                         *)
(* The configuration is one value.  Status is told whenever anything is    *)
(* and has no value here.                                                  *)
(***************************************************************************)
EXTENDS Naturals, Sequences, FiniteSets

CONSTANTS
  Clients,      (* connections that may be made                            *)
  MaxClients,   (* the slots for connected clients                         *)
  Values,       (* the values of the configuration                         *)
  Default,      (* the one a hard reset sets                               *)
  None,         (* no value: a buffer that was never written               *)
  TcpAsks,      (* what the clients ask for                                *)
  ShmAsks,      (* what the commands over the shared memory ask for        *)
  Faults,       (* what may fail: "write" (a configuration or a command),  *)
                (* "status" (the reading of it), "send" (to a client)      *)
  CountMod,     (* the counters of the shared memory are modulo 256        *)
  MaxMessages,  (* bound on the messages of all clients                    *)
  MaxCommands   (* bound on the commands over the shared memory            *)

(* What an XML text asks for, as far as the configuration can tell: to set *)
(* it, to read it back, a hard reset, or a command that leaves it alone.   *)
(* A text that is no XML is let pass, as such a command is.                *)
Asks == {"set", "read", "reset", "exec"}

(* Over the shared memory also the last value told may be asked for.       *)
Types == Asks \union {"get"}

ASSUME ServerAssumption ==
  /\ Default \in Values /\ None \notin Values
  /\ TcpAsks \subseteq Asks /\ ShmAsks \subseteq Types
  /\ MaxClients \in Nat /\ MaxMessages \in Nat /\ MaxCommands \in Nat
  /\ CountMod \in Nat /\ CountMod > 1

(* Only to set the configuration takes a value. *)
ValuesOf(ask) == IF ask = "set" THEN Values ELSE {Default}

Requests == UNION {[ask : {a}, value : ValuesOf(a)] : a \in TcpAsks}

(* What else comes over a connection: the character that asks for quiet,   *)
(* and the end of it.                                                      *)
Quiet == [ask |-> "quiet", value |-> Default]
End   == [ask |-> "end", value |-> Default]

VARIABLES
  (* the server *)
  at,        (* where in its pass it is                                    *)
  ready,     (* the clients whose descriptors were ready in this pass      *)
  indPend,   (* the clients a message of whom was handled in this pass     *)
  shmPend,   (* a shared memory command was handled in this pass           *)
  type,      (* the type of it, as read                                    *)
  (* the system *)
  config,    (* the variables                                              *)
  err,       (* errorBuffer_ is not empty                                  *)
  allConfig, (* allConfigReq_                                              *)
  status,    (* topStatusReq_ or allStatusReq_                             *)
  (* the TCP clients *)
  conn,      (* "out", "asking" to be connected, "in"                      *)
  inbox,     (* what they have sent and the server has not read            *)
  sent,      (* how many messages they have sent                           *)
  quiet,     (* quietMode_                                                 *)
  view,      (* the configuration last sent to a client                    *)
  (* the shared memory *)
  mem,       (* the record of ControlCmdMemory                             *)
  (* the program on the other side of it *)
  prog,      (* where it is                                                *)
  call,      (* its command: the number, the type, and whether it is clean:*)
             (* no other was pending or in work when it began              *)
  (* history *)
  runs,      (* how often the command of this number was executed          *)
  bad,       (* it has failed                                              *)
  silent,    (* the configuration has changed without being announced      *)
  owed       (* clients with a message handled and no answer yet           *)

passVars == <<ready, indPend, shmPend, type>>
sysVars  == <<config, err, allConfig, status, silent>>
tcpVars  == <<conn, inbox, sent, quiet, view, owed>>
progVars == <<prog, call>>
runVars  == <<runs, bad>>
vars == <<at, passVars, sysVars, tcpVars, mem, progVars, runVars>>

NoCall(n) == [no |-> n, type |-> "get", clean |-> FALSE]

Init ==
  /\ at = "select" /\ ready = {} /\ indPend = {} /\ shmPend = FALSE
  /\ type = "get"
  /\ config = Default /\ err = FALSE /\ status = FALSE
  /\ allConfig \in BOOLEAN      (* the constructor does not set it         *)
  /\ silent = FALSE
  /\ conn = [c \in Clients |-> "out"] /\ inbox = [c \in Clients |-> <<>>]
  /\ sent = 0 /\ quiet = [c \in Clients |-> FALSE]
  /\ view = [c \in Clients |-> None] /\ owed = {}
  /\ mem = [rdy |-> 0, ack |-> 0, type |-> "get", arg |-> [no |-> 0, value |-> Default],
            result |-> 0, error |-> FALSE, config |-> None]
  /\ prog = "idle" /\ call = NoCall(0) /\ runs = 0 /\ bad = FALSE

-----------------------------------------------------------------------------
(* TCP clients                                                             *)

AskIn(c) ==
  /\ conn[c] = "out" /\ sent < MaxMessages
  /\ conn' = [conn EXCEPT ![c] = "asking"]
  /\ UNCHANGED <<at, passVars, sysVars, inbox, sent, quiet, view, owed, mem, progVars, runVars>>

(* A message, or the character that asks for quiet. *)
Send(c) ==
  /\ conn[c] = "in" /\ sent < MaxMessages
  /\ \E r \in Requests \union {Quiet} : inbox' = [inbox EXCEPT ![c] = Append(@, r)]
  /\ sent' = sent + 1
  /\ UNCHANGED <<at, passVars, sysVars, conn, quiet, view, owed, mem, progVars, runVars>>

HangUp(c) ==
  /\ conn[c] = "in" /\ sent < MaxMessages
  /\ inbox' = [inbox EXCEPT ![c] = Append(@, End)]
  /\ sent' = sent + 1
  /\ UNCHANGED <<at, passVars, sysVars, conn, quiet, view, owed, mem, progVars, runVars>>

-----------------------------------------------------------------------------
(* The program on the shared memory: controlCmdSetCommand field by field,  *)
(* and the waiting for the result.                                         *)

InCommand == shmPend /\ at \in {"command", "poll", "ack"}

SetArgs(t, v) ==
  /\ prog = "idle" /\ call.no < MaxCommands
  /\ call' = [no |-> call.no + 1, type |-> t, clean |-> mem.rdy = mem.ack /\ ~InCommand]
  /\ mem' = [mem EXCEPT !.arg = [no |-> call.no + 1, value |-> v]]
  /\ runs' = 0 /\ bad' = FALSE
  /\ prog' = "error"
  /\ UNCHANGED <<at, passVars, sysVars, tcpVars>>

ClearError ==
  /\ prog = "error"
  /\ mem' = [mem EXCEPT !.error = FALSE]
  /\ prog' = "type"
  /\ UNCHANGED <<at, passVars, sysVars, tcpVars, call, runVars>>

SetType ==
  /\ prog = "type"
  /\ mem' = [mem EXCEPT !.type = call.type]
  /\ prog' = "count"
  /\ UNCHANGED <<at, passVars, sysVars, tcpVars, call, runVars>>

CountReady ==
  /\ prog = "count"
  /\ mem' = [mem EXCEPT !.rdy = (@ + 1) % CountMod]
  /\ prog' = "wait"
  /\ UNCHANGED <<at, passVars, sysVars, tcpVars, call, runVars>>

GetResult ==
  /\ prog = "wait"
  /\ mem.rdy = mem.ack
  /\ prog' = "acked"
  /\ UNCHANGED <<at, passVars, sysVars, tcpVars, mem, call, runVars>>

(* It takes the error and the result. *)
Return ==
  /\ prog = "acked"
  /\ prog' = "idle" /\ call' = NoCall(call.no)
  /\ UNCHANGED <<at, passVars, sysVars, tcpVars, mem, runVars>>

(* After ten seconds it gives up, and the command stays. *)
GiveUp ==
  /\ prog = "wait"
  /\ mem.rdy # mem.ack
  /\ prog' = "idle" /\ call' = NoCall(call.no)
  /\ UNCHANGED <<at, passVars, sysVars, tcpVars, mem, runVars>>

-----------------------------------------------------------------------------
(* System                                                                  *)

(* parseXmlString succeeds.  A hard reset sets variables and asks for a    *)
(* status update only; a text that is no XML is let pass.                  *)
Parsed(ask, v) ==
  /\ CASE ask = "set"   -> config' = v
       [] ask = "read"  -> config' \in Values
       [] ask = "reset" -> config' = Default
       [] OTHER         -> config' = config
  /\ allConfig' = (allConfig \/ ask \in {"set", "read"})
  /\ silent' = (silent \/ (ask = "reset" /\ config' # config))
  /\ err' = err

(* An exception may come before, amid or after the change of the           *)
(* variables; no configuration update is asked for then.                   *)
ParseFailed(ask, v) ==
  /\ "write" \in Faults
  /\ config' \in CASE ask = "set"   -> {config, v}
                   [] ask = "read"  -> Values
                   [] ask = "reset" -> {config, Default}
                   [] OTHER         -> {config}
  /\ silent' = (silent \/ config' # config)
  /\ err' = TRUE
  /\ UNCHANGED allConfig

Parse(ask, v) == (Parsed(ask, v) \/ ParseFailed(ask, v)) /\ status' = TRUE

-----------------------------------------------------------------------------
(* The pass of the server                                                  *)

Closed(c) ==
  /\ conn' = [conn EXCEPT ![c] = "out"]
  /\ inbox' = [inbox EXCEPT ![c] = <<>>]
  /\ owed' = owed \ {c}

Select ==
  /\ at = "select"
  /\ ready' = {c \in Clients : conn[c] = "in" /\ inbox[c] # <<>>}
  /\ at' = IF \E c \in Clients : conn[c] = "asking" THEN "accept" ELSE "read"
  /\ indPend' = {} /\ shmPend' = FALSE
  /\ UNCHANGED <<type, sysVars, tcpVars, mem, progVars, runVars>>

(* One connection is accepted in a pass, and told everything.  There may   *)
(* be no slot for it, or the sending may fail.                             *)
Accept(c) ==
  /\ at = "accept" /\ conn[c] = "asking"
  /\ \/ /\ Cardinality({d \in Clients : conn[d] = "in"}) < MaxClients
        /\ conn' = [conn EXCEPT ![c] = "in"]
        /\ quiet' = [quiet EXCEPT ![c] = FALSE]
        /\ view' = [view EXCEPT ![c] = config]
        /\ UNCHANGED <<inbox, owed>>
     \/ /\ \/ Cardinality({d \in Clients : conn[d] = "in"}) = MaxClients
           \/ "send" \in Faults
        /\ Closed(c)
        /\ UNCHANGED <<quiet, view>>
  /\ at' = "read"
  /\ UNCHANGED <<passVars, sysVars, sent, mem, progVars, runVars>>

(* One read may bring several messages, or leave some for the next pass.   *)
Read(c) ==
  /\ at = "read" /\ c \in ready
  /\ LET r == Head(inbox[c])
         rest == Tail(inbox[c]) IN
       /\ IF r = End
          THEN /\ Closed(c)
               /\ ready' = ready \ {c}
               /\ UNCHANGED <<quiet, sysVars, indPend>>
          ELSE /\ inbox' = [inbox EXCEPT ![c] = rest]
               /\ ready' \in {ready \ {c}} \union (IF rest # <<>> /\ Head(rest) # End THEN {ready} ELSE {})
               /\ conn' = conn
               /\ IF r = Quiet
                  THEN /\ quiet' = [quiet EXCEPT ![c] = TRUE]
                       /\ UNCHANGED <<sysVars, indPend, owed>>
                  ELSE /\ Parse(r.ask, r.value)
                       /\ indPend' = indPend \union {c}
                       /\ owed' = owed \union {c}
                       /\ quiet' = quiet
  /\ UNCHANGED <<at, shmPend, type, sent, view, mem, progVars, runVars>>

(* controlCmdGetCommand: the type is copied, the arguments stay where they *)
(* are.                                                                    *)
GetCommand ==
  /\ at = "read" /\ ready = {}
  /\ IF mem.rdy = mem.ack
     THEN at' = "poll" /\ UNCHANGED <<type, shmPend>>
     ELSE at' = "command" /\ type' = mem.type /\ shmPend' = TRUE
  /\ UNCHANGED <<ready, indPend, sysVars, tcpVars, mem, progVars, runVars>>

Counted(no) == IF no = call.no THEN runs + 1 ELSE runs

Failed(no) == bad \/ no = call.no

(* The result carries the number of the command it is of. *)
Executed(no) == runs' = Counted(no) /\ mem' = [mem EXCEPT !.result = no]

(* Mutant: a command without a result sets none. *)
Execute_NoResult ==
  /\ at = "command"
  /\ LET arg == mem.arg IN
       \/ /\ type = "get"
          /\ Executed(arg.no)
          /\ UNCHANGED <<sysVars, bad>>
       \/ /\ type # "get" /\ Parsed(type, arg.value) /\ status' = TRUE
          /\ runs' = Counted(arg.no)
          /\ UNCHANGED <<mem, bad>>
  /\ at' = "poll"
  /\ UNCHANGED <<passVars, tcpVars, progVars>>

(* Mutant: a command is acknowledged when it has been executed, and the    *)
(* error follows with the poll.                                            *)
Execute_AtOnce ==
  /\ at = "command"
  /\ LET arg == mem.arg IN
       /\ type # "get" /\ ParseFailed(type, arg.value) /\ status' = TRUE
       /\ runs' = Counted(arg.no)
       /\ mem' = [mem EXCEPT !.result = arg.no, !.ack = mem.rdy]
       /\ bad' = Failed(arg.no)
  /\ at' = "poll"
  /\ UNCHANGED <<passVars, tcpVars, progVars>>

(* The command is executed with the arguments of this moment. *)
Execute ==
  /\ at = "command"
  /\ LET arg == mem.arg IN
       \/ /\ type = "get"
          /\ Executed(arg.no)
          /\ UNCHANGED <<sysVars, bad>>
       \/ /\ type # "get" /\ Parsed(type, arg.value) /\ status' = TRUE
          /\ Executed(arg.no)
          /\ bad' = bad
       \/ /\ type # "get" /\ ParseFailed(type, arg.value) /\ status' = TRUE
          /\ Executed(arg.no)
          /\ bad' = Failed(arg.no)
  /\ at' = "poll"
  /\ UNCHANGED <<passVars, tcpVars, progVars>>

(* Mutant: only a shared memory command is followed by a poll at once.     *)
Poll_Shm ==
  /\ at = "poll"
  /\ IF shmPend
     THEN /\ mem' = [mem EXCEPT !.error = @ \/ err, !.config = IF allConfig THEN config ELSE @]
          /\ at' = "ack"
     ELSE mem' = mem /\ at' = "select"
  /\ UNCHANGED <<passVars, sysVars, tcpVars, progVars, runVars>>

(* System::poll is called after a message or command, or once a period.    *)
(* Reading the status may fail.  The error, the status and the             *)
(* configuration go to the shared memory.                                  *)
Poll ==
  /\ at = "poll" /\ (shmPend \/ indPend # {})
  /\ err' \in {err} \union (IF "status" \in Faults THEN {TRUE} ELSE {})
  /\ mem' = [mem EXCEPT !.error = @ \/ err', !.config = IF allConfig THEN config ELSE @]
  /\ at' = "ack"
  /\ UNCHANGED <<passVars, config, allConfig, status, silent, tcpVars, progVars, runVars>>

PollDue ==
  /\ at = "poll" /\ ~shmPend /\ indPend = {}
  /\ status' \in BOOLEAN
  /\ err' \in {err} \union (IF "status" \in Faults THEN {TRUE} ELSE {})
  /\ mem' = [mem EXCEPT !.error = @ \/ err', !.config = IF allConfig THEN config ELSE @]
  /\ at' = "ack"
  /\ UNCHANGED <<passVars, config, allConfig, silent, tcpVars, progVars, runVars>>

NoPoll ==
  /\ at = "poll" /\ ~shmPend /\ indPend = {}
  /\ at' = "select"
  /\ UNCHANGED <<passVars, sysVars, tcpVars, mem, progVars, runVars>>

(* controlCmdAckCommand. *)
Ack ==
  /\ at = "ack"
  /\ mem' = IF shmPend THEN [mem EXCEPT !.ack = mem.rdy] ELSE mem
  /\ at' = "send"
  /\ UNCHANGED <<passVars, sysVars, tcpVars, progVars, runVars>>

(* The message goes to every client that is not quiet or has asked.  A     *)
(* client it cannot be sent to is closed.                                  *)
(* Mutant: a quiet client does not hear the answer to its own message.     *)
Hears_NotQuiet(c) == conn[c] = "in" /\ ~quiet[c]

Hears(c) == conn[c] = "in" /\ (~quiet[c] \/ c \in indPend)

Broadcast ==
  /\ at = "send"
  /\ IF err \/ status \/ allConfig
     THEN \E lost \in SUBSET (IF "send" \in Faults THEN {c \in Clients : Hears(c)} ELSE {}) :
            /\ conn' = [c \in Clients |-> IF c \in lost THEN "out" ELSE conn[c]]
            /\ inbox' = [c \in Clients |-> IF c \in lost THEN <<>> ELSE inbox[c]]
            /\ view' = [c \in Clients |-> IF allConfig /\ Hears(c) THEN config ELSE view[c]]
            /\ owed' = {c \in owed : ~Hears(c)}
     ELSE UNCHANGED <<conn, inbox, view, owed>>
  /\ err' = FALSE /\ status' = FALSE /\ allConfig' = FALSE
  /\ silent' = (silent /\ ~allConfig)
  /\ at' = "select"
  /\ UNCHANGED <<passVars, config, sent, quiet, mem, progVars, runVars>>

-----------------------------------------------------------------------------
Pass ==
  \/ Select \/ \E c \in Clients : Accept(c) \/ Read(c)
  \/ GetCommand \/ Execute \/ Poll \/ PollDue \/ NoPoll \/ Ack \/ Broadcast

Program ==
  \/ \E t \in ShmAsks : \E v \in ValuesOf(t) : SetArgs(t, v)
  \/ ClearError \/ SetType \/ CountReady \/ GetResult \/ Return \/ GiveUp

Next == Pass \/ Program \/ \E c \in Clients : AskIn(c) \/ Send(c) \/ HangUp(c)

Spec == Init /\ [][Next]_vars

-----------------------------------------------------------------------------
(* Properties                                                              *)

(* A program that begins its command when no other is pending, gives up    *)
(* only by timeout and then sees the acknowledgement: the command has been *)
(* executed, once, and the result is that of this command.                 *)
DoneOnce == prog = "acked" /\ call.clean => runs = 1 /\ mem.result = call.no

(* Such a program is told of every failure of its command.                 *)
FailureTold == prog = "acked" /\ call.clean /\ bad => mem.error

(* Everybody who listens has the configuration that holds, the shared      *)
(* memory too once it has been told any.                                   *)
Current ==
  /\ \A c \in Clients : conn[c] = "in" /\ ~quiet[c] => view[c] = config
  /\ mem.config \in {None, config}

(* That is so between two passes, unless the configuration has changed     *)
(* without an announcement: by a hard reset or amid a failure.             *)
ViewsCurrent == at = "select" /\ ~silent => Current

(* A client whose message was handled in a pass is answered in that pass,  *)
(* also if it is quiet, or its connection is closed.                       *)
AnsweredInPass == at = "select" => owed = {}

(* Why the first two hold: what a clean command has come to, by where the  *)
(* program and the server are.                                             *)
Waiting == mem.rdy # mem.ack

NotBegun == runs = 0 /\ ~bad /\ mem.arg.no = call.no

Executing == runs = 1 /\ mem.result = call.no

CleanCall ==
  call.clean =>
    /\ prog \in {"error", "type", "count"} => ~Waiting /\ ~InCommand /\ NotBegun
    /\ prog = "wait" /\ Waiting =>
         /\ ~(shmPend /\ at \in {"poll", "ack"}) => NotBegun
         /\ shmPend /\ at = "poll" => Executing /\ (bad => err)
         /\ shmPend /\ at = "ack" => Executing /\ (bad => mem.error)
    /\ prog = "acked" \/ (prog = "wait" /\ ~Waiting) =>
         ~Waiting /\ ~InCommand /\ Executing /\ (bad => mem.error)

CommandInv ==
  /\ at \in {"accept", "read"} => ~shmPend
  /\ at = "command" => shmPend
  /\ CleanCall

(* Why the other two hold: a client with a message handled is connected    *)
(* and will hear, the status is asked for, and the pass will poll; who     *)
(* listens has the configuration, or it is announced and the pass will     *)
(* tell it.                                                                *)
WillPoll ==
  /\ at \notin {"select", "accept"}
  /\ at \in {"read", "poll"} => indPend # {} \/ (at = "poll" /\ shmPend)

PassInv ==
  /\ at \in {"accept", "read"} => \A c \in ready : conn[c] = "in"
  /\ \A c \in owed : c \in indPend /\ conn[c] = "in"
  /\ owed # {} => status /\ at \notin {"select", "accept"}
  /\ ~silent => Current \/ (allConfig /\ WillPoll)
  /\ at \in {"ack", "send"} /\ allConfig => mem.config = config

=============================================================================
