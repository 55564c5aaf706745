------------------------------- MODULE DaqLife --------------------------------
(***************************************************************************)
(* The life cycle of DaqBuffer: open and close with the three threads they *)
(* start and join, the DMA devices and queues the threads use, and the     *)
(* connection to the receiver, which the command thread opens and closes   *)
(* while the transmit thread sends on it.  open, close, enableRun and the  *)
(* resets are called by one thread, the one of the control server.         *)
(*                                                                         *)
(* rxRun and txRun are reduced to when they look at their flags and what   *)
(* they use; RxRun and TxRun model what they do with it.  Two faults of    *)
(* memory are taken to pass unnoticed: the first close tests _workQueue,   *)
(* which nothing has set, and every later one deletes the elements of an   *)
(* array one by one.                                                       *)
(***************************************************************************)
EXTENDS Naturals, FiniteSets

CONSTANTS
  Fds,        (* the numbers of descriptors                                *)
  NoFd,       (* -1                                                        *)
  Slots,      (* what _txReqQueue holds                                    *)
  MaxOpens,   (* bound on the calls of open                                *)
  Faults      (* what may fail: "open", "map", "enable", "enable_timing",  *)
              (* pthread_create ("rx", "work", "tx"), "socket", "connect", *)
              (* "send"                                                    *)

ASSUME LifeAssumption ==
  /\ NoFd \notin Fds
  /\ Slots \in Nat \ {0} /\ MaxOpens \in Nat

Threads == {"rx", "work", "tx"}
Devices == {"data", "timing"}

VARIABLES
  (* the command thread *)
  pc,        (* "idle", or where in open, close or enableRun it is         *)
  then,      (* what follows close: "open", "idle"                         *)
  opens,     (* the calls of open so far                                   *)
  (* DaqBuffer *)
  en,        (* _rxThreadEn, _workThreadEn, _txThreadEn                    *)
  fd,        (* whether _fd of a device is open                            *)
  map,       (* whether _map of a device is set                            *)
  queues,    (* whether the queues exist (_workQueue begins as garbage)    *)
  pending,   (* events on _txReqQueue                                      *)
  runMode,   (* _config._runMode: "IDLE" or "RUN"                          *)
  blowOff,   (* _config._blowOffTxEth                                      *)
  rssi,      (* _config._enableRssi                                        *)
  txFd,      (* _txFd                                                      *)
  (* the threads *)
  at,        (* where a thread is; "none" before it is created             *)
  event,     (* whether rxRun has an event in progress                     *)
  sendFd,    (* the number that txRun gave to sendmsg                      *)
  failed,    (* whether that failed                                        *)
  (* the kernel *)
  table,     (* what a number stands for: "free", "socket" (not connected),*)
             (* "receiver" or "other"                                      *)
  (* history *)
  sentTo,    (* where the last event went                                  *)
  moved      (* whether disableTx was called since txRun read _txFd        *)

mainVars == <<pc, then, opens>>
resVars  == <<en, fd, map, queues>>
cfgVars  == <<runMode, blowOff, rssi>>
connVars == <<txFd, table, moved>>
sendVars == <<sendFd, failed, sentTo>>
vars == <<mainVars, resVars, pending, cfgVars, connVars, sendVars, at, event>>

Init ==
  /\ pc = "idle" /\ then = "idle" /\ opens = 0
  /\ en = [t \in Threads |-> FALSE]
  /\ fd = [d \in Devices |-> FALSE] /\ map = [d \in Devices |-> FALSE]
  /\ queues = FALSE /\ pending = 0
  /\ runMode = "IDLE" /\ blowOff = FALSE /\ rssi = FALSE
  /\ txFd = NoFd
  /\ at = [t \in Threads |-> "none"] /\ event = FALSE
  /\ sendFd = NoFd /\ failed = FALSE
  /\ table = [n \in Fds |-> "free"]
  /\ sentTo = "nowhere" /\ moved = FALSE

-----------------------------------------------------------------------------
(* Connecting                                                              *)

(* Mutant: the number is kept. *)
Disconnected_Kept ==
  IF txFd # NoFd
  THEN /\ table' = [table EXCEPT ![txFd] = "free"]
       /\ txFd' = txFd
       /\ moved' = TRUE
  ELSE UNCHANGED connVars

(* disableTx.  txRun may read _txFd between the close and the assignment:  *)
(* it then has the same number as before the close.                        *)
Disconnected ==
  IF txFd # NoFd
  THEN /\ table' = [table EXCEPT ![txFd] = "free"]
       /\ txFd' = NoFd
       /\ moved' = TRUE
  ELSE UNCHANGED connVars

(* DataBuffer::enableRun without a port, or the beginning of enableTx.     *)
EnableRun(port) ==
  /\ pc = "idle"
  /\ Disconnected
  /\ pc' = IF port THEN "socket" ELSE "setmode"
  /\ UNCHANGED <<then, opens, resVars, pending, cfgVars, sendVars, at, event>>

Socket ==
  /\ pc = "socket"
  /\ \/ \E n \in Fds :
          /\ table[n] = "free"
          /\ table' = [table EXCEPT ![n] = "socket"]
          /\ txFd' = n
          /\ pc' = "connect"
     \/ /\ "socket" \in Faults
        /\ pc' = "setmode"
        /\ UNCHANGED <<table, txFd>>
  /\ UNCHANGED <<then, opens, resVars, pending, cfgVars, moved, sendVars, at, event>>

(* A connection that fails is closed again; the run mode is set all the    *)
(* same.                                                                   *)
Connect ==
  /\ pc = "connect"
  /\ \/ /\ table' = [table EXCEPT ![txFd] = "receiver"]
        /\ UNCHANGED <<txFd, moved>>
     \/ /\ "connect" \in Faults
        /\ Disconnected
  /\ pc' = "setmode"
  /\ UNCHANGED <<then, opens, resVars, pending, cfgVars, sendVars, at, event>>

SetRunMode ==
  /\ pc = "setmode"
  /\ runMode' \in {"IDLE", "RUN"}
  /\ pc' = "idle"
  /\ UNCHANGED <<then, opens, resVars, pending, blowOff, rssi, connVars, sendVars, at, event>>

DisableRun ==
  /\ pc = "idle"
  /\ runMode' = "IDLE"
  /\ UNCHANGED <<mainVars, resVars, pending, blowOff, rssi, connVars, sendVars, at, event>>

(* DataBuffer::hardReset. *)
HardReset ==
  /\ pc = "idle"
  /\ runMode' = "IDLE" /\ blowOff' = FALSE /\ rssi' = FALSE
  /\ Disconnected
  /\ UNCHANGED <<mainVars, resVars, pending, sendVars, at, event>>

SetConfig ==
  /\ pc = "idle"
  /\ blowOff' \in BOOLEAN /\ rssi' \in BOOLEAN
  /\ UNCHANGED <<mainVars, resVars, pending, runMode, connVars, sendVars, at, event>>

(* The other descriptors of the program come and go: the clients of the    *)
(* control server, files.  The same thread opens them.                     *)
OtherOpens(n) ==
  /\ pc = "idle"
  /\ table[n] = "free"
  /\ table' = [table EXCEPT ![n] = "other"]
  /\ UNCHANGED <<mainVars, resVars, pending, cfgVars, txFd, moved, sendVars, at, event>>

OtherCloses(n) ==
  /\ pc = "idle"
  /\ table[n] = "other"
  /\ table' = [table EXCEPT ![n] = "free"]
  /\ UNCHANGED <<mainVars, resVars, pending, cfgVars, txFd, moved, sendVars, at, event>>

-----------------------------------------------------------------------------
(* Opening                                                                 *)

Go(next, after) == pc' = next /\ then' = after

(* open closes first what an earlier open has left. *)
Open ==
  /\ pc = "idle" /\ opens < MaxOpens
  /\ opens' = opens + 1
  /\ Go("close", "open")
  /\ UNCHANGED <<resVars, pending, cfgVars, connVars, sendVars, at, event>>

(* Mutant: what is open already stays open. *)
Fail_Left == Go("idle", "idle")

(* Whatever fails, open closes what it has opened so far. *)
Fail == Go("close", "idle")

(* construct: a device is opened and mapped; map closes it when it fails.  *)
Construct(d, next) ==
  /\ pc = d
  /\ \/ /\ fd' = [fd EXCEPT ![d] = TRUE]
        /\ map' = [map EXCEPT ![d] = TRUE]
        /\ Go(next, then)
     \/ /\ {"open", "map"} \intersect Faults # {}
        /\ Fail
        /\ UNCHANGED <<fd, map>>
  /\ UNCHANGED <<opens, en, queues, pending, cfgVars, connVars, sendVars, at, event>>

CreateQueues ==
  /\ pc = "queues"
  /\ queues' = TRUE
  /\ Go("rx", then)
  /\ UNCHANGED <<opens, en, fd, map, pending, cfgVars, connVars, sendVars, at, event>>

(* The flag of a thread is set before it is created, and reset if it       *)
(* cannot be.                                                              *)
Create(t, next) ==
  /\ pc = t
  /\ \/ /\ en' = [en EXCEPT ![t] = TRUE]
        /\ at' = [at EXCEPT ![t] = "start"]
        /\ Go(next, then)
     \/ /\ t \in Faults
        /\ en' = [en EXCEPT ![t] = FALSE]
        /\ Fail
        /\ UNCHANGED at
  /\ UNCHANGED <<opens, fd, map, queues, pending, cfgVars, connVars, sendVars, event>>

-----------------------------------------------------------------------------
(* Closing                                                                 *)

(* The destructor. *)
Destroy ==
  /\ pc = "idle"
  /\ Go("close", "idle")
  /\ UNCHANGED <<opens, resVars, pending, cfgVars, connVars, sendVars, at, event>>

Close ==
  /\ pc = "close"
  /\ Disconnected
  /\ Go("stop_tx", then)
  /\ UNCHANGED <<opens, resVars, pending, cfgVars, sendVars, at, event>>

(* The transmit thread is stopped first, then the work thread, then the    *)
(* receive thread.                                                         *)
Stop(t, here, join, next) ==
  /\ pc = here
  /\ en' = [en EXCEPT ![t] = FALSE]
  /\ Go(IF en[t] THEN join ELSE next, then)
  /\ UNCHANGED <<opens, fd, map, queues, pending, cfgVars, connVars, sendVars, at, event>>

Join(t, here, next) ==
  /\ pc = here
  /\ at[t] = "ended"
  /\ at' = [at EXCEPT ![t] = "none"]
  /\ Go(next, then)
  /\ UNCHANGED <<opens, resVars, pending, cfgVars, connVars, sendVars, event>>

(* The buffers are unmapped, the devices closed and the queues deleted,    *)
(* with what is still on them (_rxQueue with elements of one array, each   *)
(* by a delete of its own).                                                *)
Release ==
  /\ pc = "release"
  /\ map' = [d \in Devices |-> FALSE]
  /\ fd' = [d \in Devices |-> FALSE]
  /\ queues' = FALSE
  /\ pending' = 0
  /\ Go(IF then = "open" THEN "data" ELSE "idle", then)
  /\ UNCHANGED <<opens, en, cfgVars, connVars, sendVars, at, event>>

-----------------------------------------------------------------------------
(* The receive thread                                                      *)

Moves(t, to) == at' = [at EXCEPT ![t] = to]

(* rxRun begins with enabling the data channel; a device that cannot be    *)
(* enabled is closed, and the thread ends.  It enables the timing channel, *)
(* then, without a look at the result.                                     *)
RxStart ==
  /\ at["rx"] = "start"
  /\ \/ Moves("rx", "loop") /\ UNCHANGED fd
     \/ /\ "enable" \in Faults
        /\ fd' = [fd EXCEPT !["data"] = FALSE]
        /\ Moves("rx", "ended")
     \/ /\ "enable_timing" \in Faults
        /\ fd' = [fd EXCEPT !["timing"] = FALSE]
        /\ Moves("rx", "loop")
  /\ UNCHANGED <<mainVars, en, map, queues, pending, cfgVars, connVars, sendVars, event>>

(* Mutant: the flag is not looked at any more. *)
RxLoop_Blind ==
  /\ at["rx"] = "loop"
  /\ Moves("rx", "select")
  /\ UNCHANGED <<mainVars, resVars, pending, cfgVars, connVars, sendVars, event>>

(* An event in progress is lost when the thread ends. *)
RxLoop ==
  /\ at["rx"] = "loop"
  /\ Moves("rx", IF en["rx"] THEN "select" ELSE "ended")
  /\ event' = (event /\ en["rx"])
  /\ UNCHANGED <<mainVars, resVars, pending, cfgVars, connVars, sendVars>>

(* A frame or a timing message has come: it may begin an event, unless the *)
(* run mode is idle, or complete the one in progress.                      *)
RxTurn ==
  /\ at["rx"] = "select"
  /\ Moves("rx", "loop")
  /\ \/ UNCHANGED <<event, pending>>
     \/ ~event /\ runMode = "RUN" /\ event' = TRUE /\ UNCHANGED pending
     \/ event /\ pending < Slots /\ event' = FALSE /\ pending' = pending + 1
  /\ UNCHANGED <<mainVars, resVars, cfgVars, connVars, sendVars>>

-----------------------------------------------------------------------------
(* The work thread, which waits on a queue that nothing fills              *)

WorkLoop ==
  /\ at["work"] \in {"start", "loop"}
  /\ Moves("work", IF en["work"] THEN "loop" ELSE "ended")
  /\ UNCHANGED <<mainVars, resVars, pending, cfgVars, connVars, sendVars, event>>

-----------------------------------------------------------------------------
(* The transmit thread                                                     *)

TxLoop ==
  /\ at["tx"] \in {"start", "loop"}
  /\ Moves("tx", IF en["tx"] THEN "pop" ELSE "ended")
  /\ UNCHANGED <<mainVars, resVars, pending, cfgVars, connVars, sendVars, event>>

(* The pop ends after 100 s if there is no event. *)
TxPop ==
  /\ at["tx"] = "pop"
  /\ IF pending > 0
     THEN Moves("tx", "build") /\ pending' = pending - 1
     ELSE Moves("tx", "loop") /\ UNCHANGED pending
  /\ UNCHANGED <<mainVars, resVars, cfgVars, connVars, sendVars, event>>

(* The event is freed, handed to the firmware, or to be sent on the        *)
(* connection of this moment.                                              *)
TxBuild ==
  /\ at["tx"] = "build"
  /\ failed' = FALSE
  /\ sentTo' = "nowhere"
  /\ moved' = FALSE
  /\ IF blowOff \/ rssi
     THEN Moves("tx", "free") /\ UNCHANGED sendFd
     ELSE Moves("tx", "send") /\ sendFd' = txFd
  /\ UNCHANGED <<mainVars, resVars, pending, cfgVars, txFd, table, event>>

TxSend ==
  /\ at["tx"] = "send"
  /\ LET open == sendFd # NoFd /\ table[sendFd] \in {"receiver", "other"} IN
       /\ sentTo' = IF open THEN table[sendFd] ELSE "nowhere"
       /\ failed' \in (IF ~open THEN {TRUE}
                        ELSE IF "send" \in Faults \/ sentTo' = "other" THEN BOOLEAN ELSE {FALSE})
  /\ Moves("tx", "free")
  /\ UNCHANGED <<mainVars, resVars, pending, cfgVars, connVars, sendFd, event>>

(* After a failed send the transmission is inhibited, whatever the         *)
(* configuration has become meanwhile.                                     *)
TxFree ==
  /\ at["tx"] = "free"
  /\ blowOff' = (blowOff \/ failed)
  /\ Moves("tx", "loop")
  /\ UNCHANGED <<mainVars, resVars, pending, runMode, rssi, connVars, sendVars, event>>

-----------------------------------------------------------------------------
RunControl ==
  \/ \E port \in BOOLEAN : EnableRun(port)
  \/ DisableRun \/ HardReset \/ SetConfig

Others == \E n \in Fds : OtherOpens(n) \/ OtherCloses(n)

(* Mutant: the receive thread is stopped before the transmit thread. *)
Command_RxFirst ==
  \/ Socket \/ Connect \/ SetRunMode
  \/ Construct("data", "timing") \/ Construct("timing", "queues") \/ CreateQueues
  \/ Create("rx", "work") \/ Create("work", "tx") \/ Create("tx", "idle")
  \/ Close
  \/ Stop("rx", "stop_tx", "join_rx", "stop_work") \/ Join("rx", "join_rx", "stop_work")
  \/ Stop("work", "stop_work", "join_work", "stop_rx") \/ Join("work", "join_work", "stop_rx")
  \/ Stop("tx", "stop_rx", "join_tx", "release") \/ Join("tx", "join_tx", "release")
  \/ Release

(* What the command thread does once it has begun. *)
Command ==
  \/ Socket \/ Connect \/ SetRunMode
  \/ Construct("data", "timing") \/ Construct("timing", "queues") \/ CreateQueues
  \/ Create("rx", "work") \/ Create("work", "tx") \/ Create("tx", "idle")
  \/ Close
  \/ Stop("tx", "stop_tx", "join_tx", "stop_work") \/ Join("tx", "join_tx", "stop_work")
  \/ Stop("work", "stop_work", "join_work", "stop_rx") \/ Join("work", "join_work", "stop_rx")
  \/ Stop("rx", "stop_rx", "join_rx", "release") \/ Join("rx", "join_rx", "release")
  \/ Release

Receive == RxStart \/ RxLoop \/ RxTurn

Transmit == TxLoop \/ TxPop \/ TxBuild \/ TxSend \/ TxFree

Next == RunControl \/ Others \/ Open \/ Destroy \/ Command \/ Receive \/ WorkLoop \/ Transmit

Spec == Init /\ [][Next]_vars

(* The threads are scheduled, and the pop of txRun times out.  Nothing     *)
(* makes select return, for it has no timeout and closing does not wake    *)
(* it, nor allocateWait or sendmsg, which wait for the firmware and for    *)
(* the receiver.                                                           *)
FairSpec ==
  /\ Spec
  /\ WF_vars(Command)
  /\ WF_vars(RxStart \/ RxLoop)
  /\ WF_vars(WorkLoop)
  /\ WF_vars(TxLoop \/ TxPop \/ TxFree)

-----------------------------------------------------------------------------
(* Properties                                                              *)

MainPcs == {"idle", "socket", "connect", "setmode", "data", "timing", "queues", "rx", "work", "tx",
            "close", "stop_tx", "join_tx", "stop_work", "join_work", "stop_rx", "join_rx", "release"}

Places == {"none", "start", "loop", "select", "pop", "build", "send", "free", "ended"}

(* The types of the variables. *)
TypeOK ==
  /\ pc \in MainPcs /\ then \in {"open", "idle"} /\ opens \in 0 .. MaxOpens
  /\ en \in [Threads -> BOOLEAN]
  /\ fd \in [Devices -> BOOLEAN] /\ map \in [Devices -> BOOLEAN]
  /\ queues \in BOOLEAN /\ pending \in 0 .. Slots
  /\ runMode \in {"IDLE", "RUN"} /\ blowOff \in BOOLEAN /\ rssi \in BOOLEAN
  /\ txFd \in Fds \union {NoFd} /\ sendFd \in Fds \union {NoFd}
  /\ at \in [Threads -> Places]
  /\ event \in BOOLEAN /\ failed \in BOOLEAN /\ moved \in BOOLEAN
  /\ table \in [Fds -> {"free", "socket", "receiver", "other"}]
  /\ sentTo \in {"nowhere", "receiver", "other"}

Running(t) == at[t] \notin {"none", "ended"}

(* A thread that runs has what it uses, across failed opens, closes and    *)
(* further opens: the queues while it looks at them, the devices while     *)
(* rxRun selects on them or txRun has an event in their buffers, rxRun,    *)
(* whose pool the event came from, while txRun has the event.  A flag is   *)
(* set exactly for the threads that are to be joined.                      *)
UsesWhatIsThere ==
  /\ \A t \in Threads : Running(t) => queues
  /\ at["rx"] \in {"loop", "select"} => \A d \in Devices : fd[d] /\ map[d]
  /\ at["tx"] \in {"build", "send", "free"} => Running("rx") /\ fd["data"] /\ map["data"]
  /\ \A t \in Threads : at[t] = "none" => ~en[t]

(* Between two calls either everything is open and all threads are there,  *)
(* or nothing is left of it: no thread, no device, no buffer mapped.  And  *)
(* the connections that are open are the one _txFd names.                  *)
NothingLeft ==
  /\ pc = "idle" =>
       IF queues THEN \A t \in Threads : at[t] # "none" /\ en[t]
       ELSE /\ \A t \in Threads : at[t] = "none"
            /\ \A d \in Devices : ~fd[d] /\ ~map[d]
  /\ \A n \in Fds : table[n] \in {"socket", "receiver"} <=> n = txFd

(* An event is sent to the receiver and not to somebody else who has got   *)
(* the number since, unless the connection is closed between txRun's       *)
(* reading of _txFd and its sendmsg.                                       *)
SentToReceiver == sentTo = "other" => moved

StaysFor(t, place) == [](at[t] = place)

(* Closing ends, or waits for ever because a thread does in one of three   *)
(* calls: rxRun in a select that no frame ends, txRun in an allocateWait   *)
(* or a sendmsg.  Nothing else keeps it: not the order of the joins, the   *)
(* queues that have filled up or the steps of an open that failed.         *)
CloseEnds ==
  pc = "close" ~>
    \/ pc \in {"idle", "data"}
    \/ StaysFor("rx", "select")
    \/ StaysFor("tx", "build") \/ StaysFor("tx", "send")

=============================================================================
