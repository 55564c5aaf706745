---------------------------- MODULE DaqLifeProofs -----------------------------
(***************************************************************************)
(* Proofs about DaqLife.  The inductive invariant says, for every place of *)
(* the command thread, which threads and resources there are.              *)
(***************************************************************************)
EXTENDS DaqLife, TLAPS

(* Threads are created in the order rx, work, tx and joined in the         *)
(* opposite order.                                                         *)
ThreadsByPlace ==
  /\ pc \in {"data", "timing", "queues", "rx", "release"} => at["rx"] = "none"
  /\ pc \in {"data", "timing", "queues", "rx", "work", "release", "stop_rx", "join_rx"}
       => at["work"] = "none"
  /\ at["work"] = "none" \/ pc \in {"stop_work", "join_work"} => at["tx"] = "none"
  /\ at["rx"] = "none" => at["work"] = "none"
  /\ pc = "tx" => at["tx"] = "none"
  /\ pc = "work" => at["rx"] # "none"
  /\ pc = "tx" => at["work"] # "none"
  /\ pc \in {"idle", "socket", "connect", "setmode"} =>
       (queues <=> at["tx"] # "none")
  /\ at["rx"] \in {"none", "start", "loop", "select", "ended"}
  /\ at["work"] \in {"none", "start", "loop", "ended"}
  /\ at["tx"] \in {"none", "start", "loop", "pop", "build", "send", "free", "ended"}

(* A flag is set for the threads that have not been stopped. *)
FlagsOfThreads ==
  \A t \in Threads :
    /\ at[t] = "none" => ~en[t]
    /\ at[t] # "none" /\ ~en[t] =>
         \/ t = "tx" /\ pc = "join_tx"
         \/ t = "work" /\ pc = "join_work"
         \/ t = "rx" /\ pc = "join_rx"

FlagsByPlace ==
  /\ pc = "join_tx" => ~en["tx"]
  /\ pc = "join_work" => ~en["work"]
  /\ pc = "join_rx" => ~en["rx"]
  /\ FlagsOfThreads

(* Queues, devices and maps are there from their creation to the release.  *)
ResourcesByPlace ==
  /\ pc \in {"data", "timing", "queues"} => ~queues
  /\ pc \in {"rx", "work", "tx"} => queues
  /\ at["rx"] # "none" => queues
  /\ at["rx"] # "none" => \A d \in Devices : map[d]
  /\ at["rx"] \in {"start", "loop", "select"} => \A d \in Devices : fd[d]
  /\ pc = "data" => \A d \in Devices : ~fd[d] /\ ~map[d]
  /\ pc = "timing" => fd["data"] /\ map["data"] /\ ~fd["timing"] /\ ~map["timing"]
  /\ pc \in {"queues", "rx"} => \A d \in Devices : fd[d] /\ map[d]
  /\ pc \in {"idle", "socket", "connect", "setmode"} /\ ~queues =>
       \A d \in Devices : ~fd[d] /\ ~map[d]

(* While txRun has an event, or there is one for it, rxRun has come beyond *)
(* its start and has not been stopped.                                     *)
EventsHaveRx ==
  /\ at["tx"] \in {"build", "send", "free"} => at["rx"] \in {"loop", "select"}
  /\ at["tx"] # "none" /\ pending > 0 => at["rx"] \in {"loop", "select"}
  /\ event => at["rx"] \in {"loop", "select"}
  /\ pc \in {"data", "timing", "queues", "rx"} => pending = 0
  /\ at["rx"] = "start" => pending = 0
  /\ at["rx"] = "ended" /\ en["rx"] => pending = 0
  /\ pc \in {"work", "tx"} /\ at["rx"] = "ended" => pending = 0
  /\ ~queues => pending = 0

(* The connections that are open are the one _txFd names. *)
OneConnection ==
  /\ \A n \in Fds : table[n] \in {"socket", "receiver"} <=> n = txFd
  /\ pc = "socket" => txFd = NoFd
  /\ pc = "connect" => txFd \in Fds

(* The number txRun has is that of _txFd until disableTx is called. *)
NumberFresh ==
  /\ at["tx"] = "send" /\ ~moved => sendFd \in {NoFd, txFd}
  /\ SentToReceiver

ByPlace == ThreadsByPlace /\ FlagsByPlace /\ ResourcesByPlace /\ EventsHaveRx

Connected == OneConnection /\ NumberFresh

LifeInv == TypeOK /\ ByPlace /\ Connected

(* At the beginning there is nothing. *)
LEMMA LifeInit == Init => LifeInv
<1>1. Init => TypeOK
  <2>1. 0 \in 0 .. Slots /\ 0 \in 0 .. MaxOpens
    BY LifeAssumption
  <2>2. Init => at \in [Threads -> Places] /\ en \in [Threads -> BOOLEAN]
    BY DEF Init, Places
  <2>3. Init => /\ fd \in [Devices -> BOOLEAN] /\ map \in [Devices -> BOOLEAN]
                /\ table \in [Fds -> {"free", "socket", "receiver", "other"}]
    BY DEF Init
  <2>. QED  BY <2>1, <2>2, <2>3 DEF Init, TypeOK, MainPcs
<1>2. Init => ByPlace
  BY DEF Init, ByPlace, ThreadsByPlace, FlagsByPlace, FlagsOfThreads, ResourcesByPlace, EventsHaveRx, Threads, Devices
<1>3. Init => Connected
  BY LifeAssumption DEF Init, Connected, OneConnection, NumberFresh, SentToReceiver
<1>. QED  BY <1>1, <1>2, <1>3 DEF LifeInv

-----------------------------------------------------------------------------
(* What a step leaves alone stays true.                                    *)
LEMMA LifeUntouched ==
  ASSUME ByPlace, UNCHANGED <<pc, resVars, pending, at, event>>
  PROVE  ByPlace'
  BY DEF ByPlace, ThreadsByPlace, FlagsByPlace, FlagsOfThreads, ResourcesByPlace, EventsHaveRx, resVars

LEMMA ConnUntouched ==
  ASSUME Connected, UNCHANGED <<connVars, sendVars>>, pc' \in {"socket", "connect"} => pc' = pc,
         at'["tx"] = "send" => at["tx"] = "send"
  PROVE  Connected'
  BY DEF Connected, OneConnection, NumberFresh, SentToReceiver, connVars, sendVars

LEMMA MovesType ==
  ASSUME NEW t \in Threads, NEW p \in Places, at \in [Threads -> Places], Moves(t, p)
  PROVE  at' \in [Threads -> Places]
  BY DEF Moves

(* Opening a device, creating a thread.                                    *)
LEMMA ConstructTypes ==
  ASSUME TypeOK, NEW d \in Devices, NEW next, Construct(d, next)
  PROVE  fd' \in [Devices -> BOOLEAN] /\ map' \in [Devices -> BOOLEAN]
<1>1. fd \in [Devices -> BOOLEAN] /\ map \in [Devices -> BOOLEAN]
  BY DEF TypeOK
<1>2. \/ fd' = [fd EXCEPT ![d] = TRUE] /\ map' = [map EXCEPT ![d] = TRUE]
      \/ fd' = fd /\ map' = map
  BY DEF Construct
<1>. QED  BY <1>1, <1>2

LEMMA CreateTypes ==
  ASSUME TypeOK, NEW t \in Threads, NEW next, Create(t, next)
  PROVE  at' \in [Threads -> Places] /\ en' \in [Threads -> BOOLEAN]
<1>1. at \in [Threads -> Places] /\ en \in [Threads -> BOOLEAN] /\ "start" \in Places
  BY DEF TypeOK, Places
<1>2. /\ en' = [en EXCEPT ![t] = TRUE] \/ en' = [en EXCEPT ![t] = FALSE]
      /\ at' = [at EXCEPT ![t] = "start"] \/ at' = at
  BY DEF Create
<1>. QED  BY <1>1, <1>2

(* Types are kept.                                                         *)
LEMMA LifeTypeNext ==
  ASSUME TypeOK, Next
  PROVE  TypeOK'
<1>1. CASE \E port \in BOOLEAN : EnableRun(port)
  <2>0. PICK port \in BOOLEAN : EnableRun(port)
    BY <1>1
  <2>1. table' \in [Fds -> {"free", "socket", "receiver", "other"}]
    BY <2>0 DEF TypeOK, EnableRun, Disconnected, connVars
  <2>2. txFd' \in Fds \union {NoFd} /\ moved' \in BOOLEAN
    BY <2>0 DEF TypeOK, EnableRun, Disconnected, connVars
  <2>3. pc' \in MainPcs
    BY <2>0 DEF EnableRun, MainPcs
  <2>4. UNCHANGED <<then, opens, resVars, pending, cfgVars, sendVars, at, event>>
    BY <2>0 DEF EnableRun
  <2>. QED
    BY <2>1, <2>2, <2>3, <2>4 DEF TypeOK, resVars, cfgVars, sendVars
<1>2. CASE DisableRun
  BY <1>2, LifeAssumption DEF TypeOK, MainPcs, Places, Threads, Devices, DisableRun, mainVars, resVars, cfgVars, connVars, sendVars
<1>3. CASE HardReset
  BY <1>3, LifeAssumption DEF TypeOK, MainPcs, Places, Threads, Devices, HardReset, Disconnected, mainVars, resVars, cfgVars, connVars, sendVars
<1>4. CASE SetConfig
  BY <1>4, LifeAssumption DEF TypeOK, MainPcs, Places, Threads, Devices, SetConfig, mainVars, resVars, cfgVars, connVars, sendVars
<1>5. CASE Others
  BY <1>5, LifeAssumption DEF TypeOK, MainPcs, Others, OtherOpens, OtherCloses, mainVars, resVars, cfgVars, connVars, sendVars
<1>6. CASE Socket
  BY <1>6, LifeAssumption DEF TypeOK, MainPcs, Places, Threads, Devices, Socket, mainVars, resVars, cfgVars, connVars, sendVars
<1>7. CASE Connect
  <2>1. table' \in [Fds -> {"free", "socket", "receiver", "other"}]
    BY <1>7 DEF TypeOK, Connect, Disconnected, connVars
  <2>2. txFd' \in Fds \union {NoFd} /\ moved' \in BOOLEAN /\ pc' \in MainPcs
    BY <1>7 DEF TypeOK, MainPcs, Connect, Disconnected, connVars
  <2>. QED
    BY <1>7, <2>1, <2>2 DEF TypeOK, Connect, resVars, cfgVars, sendVars
<1>8. CASE SetRunMode
  BY <1>8, LifeAssumption DEF TypeOK, MainPcs, Places, Threads, Devices, SetRunMode, mainVars, resVars, cfgVars, connVars, sendVars
<1>9. CASE Open
  BY <1>9, LifeAssumption DEF TypeOK, MainPcs, Places, Threads, Devices, Open, Go, mainVars, resVars, cfgVars, connVars, sendVars
<1>10. CASE Construct("data", "timing")
  <2>1. fd' \in [Devices -> BOOLEAN] /\ map' \in [Devices -> BOOLEAN]
    BY <1>10, ConstructTypes DEF Devices
  <2>3. pc' \in MainPcs /\ then' \in {"open", "idle"}
    BY <1>10 DEF TypeOK, MainPcs, Construct, Fail, Go
  <2>4. UNCHANGED <<opens, en, queues, pending, cfgVars, connVars, sendVars, at, event>>
    BY <1>10 DEF Construct
  <2>. QED
    BY <2>1, <2>3, <2>4 DEF TypeOK, cfgVars, connVars, sendVars
<1>11. CASE Construct("timing", "queues")
  <2>1. fd' \in [Devices -> BOOLEAN] /\ map' \in [Devices -> BOOLEAN]
    BY <1>11, ConstructTypes DEF Devices
  <2>3. pc' \in MainPcs /\ then' \in {"open", "idle"}
    BY <1>11 DEF TypeOK, MainPcs, Construct, Fail, Go
  <2>4. UNCHANGED <<opens, en, queues, pending, cfgVars, connVars, sendVars, at, event>>
    BY <1>11 DEF Construct
  <2>. QED
    BY <2>1, <2>3, <2>4 DEF TypeOK, cfgVars, connVars, sendVars
<1>12. CASE CreateQueues
  BY <1>12, LifeAssumption DEF TypeOK, MainPcs, Places, Threads, Devices, CreateQueues, Go, mainVars, resVars, cfgVars, connVars, sendVars
<1>13. CASE Create("rx", "work")
  <2>1. at' \in [Threads -> Places] /\ en' \in [Threads -> BOOLEAN]
    BY <1>13, CreateTypes DEF Threads
  <2>3. pc' \in MainPcs /\ then' \in {"open", "idle"}
    BY <1>13 DEF TypeOK, MainPcs, Create, Fail, Go
  <2>4. UNCHANGED <<opens, fd, map, queues, pending, cfgVars, connVars, sendVars, event>>
    BY <1>13 DEF Create
  <2>. QED
    BY <2>1, <2>3, <2>4 DEF TypeOK, cfgVars, connVars, sendVars
<1>14. CASE Create("work", "tx")
  <2>1. at' \in [Threads -> Places] /\ en' \in [Threads -> BOOLEAN]
    BY <1>14, CreateTypes DEF Threads
  <2>3. pc' \in MainPcs /\ then' \in {"open", "idle"}
    BY <1>14 DEF TypeOK, MainPcs, Create, Fail, Go
  <2>4. UNCHANGED <<opens, fd, map, queues, pending, cfgVars, connVars, sendVars, event>>
    BY <1>14 DEF Create
  <2>. QED
    BY <2>1, <2>3, <2>4 DEF TypeOK, cfgVars, connVars, sendVars
<1>15. CASE Create("tx", "idle")
  <2>1. at' \in [Threads -> Places] /\ en' \in [Threads -> BOOLEAN]
    BY <1>15, CreateTypes DEF Threads
  <2>3. pc' \in MainPcs /\ then' \in {"open", "idle"}
    BY <1>15 DEF TypeOK, MainPcs, Create, Fail, Go
  <2>4. UNCHANGED <<opens, fd, map, queues, pending, cfgVars, connVars, sendVars, event>>
    BY <1>15 DEF Create
  <2>. QED
    BY <2>1, <2>3, <2>4 DEF TypeOK, cfgVars, connVars, sendVars
<1>16. CASE Destroy
  <2>1. pc' \in MainPcs /\ then' \in {"open", "idle"}
    BY <1>16 DEF MainPcs, Destroy, Go
  <2>2. UNCHANGED <<opens, resVars, pending, cfgVars, connVars, sendVars, at, event>>
    BY <1>16 DEF Destroy
  <2>. QED
    BY <2>1, <2>2 DEF TypeOK, resVars, cfgVars, connVars, sendVars
<1>17. CASE Close
  <2>1. table' \in [Fds -> {"free", "socket", "receiver", "other"}]
    BY <1>17 DEF TypeOK, Close, Disconnected, connVars
  <2>2. txFd' \in Fds \union {NoFd} /\ moved' \in BOOLEAN
    BY <1>17 DEF TypeOK, Close, Disconnected, connVars
  <2>3. pc' \in MainPcs /\ then' \in {"open", "idle"}
    BY <1>17 DEF TypeOK, MainPcs, Close, Go
  <2>4. UNCHANGED <<opens, resVars, pending, cfgVars, sendVars, at, event>>
    BY <1>17 DEF Close
  <2>. QED
    BY <2>1, <2>2, <2>3, <2>4 DEF TypeOK, resVars, cfgVars, sendVars
<1>18. CASE Stop("tx", "stop_tx", "join_tx", "stop_work")
  BY <1>18, LifeAssumption DEF TypeOK, MainPcs, Places, Threads, Devices, Stop, Go, mainVars, resVars, cfgVars, connVars, sendVars
<1>19. CASE Join("tx", "join_tx", "stop_work")
  BY <1>19, LifeAssumption DEF TypeOK, MainPcs, Places, Threads, Devices, Join, Go, mainVars, resVars, cfgVars, connVars, sendVars
<1>20. CASE Stop("work", "stop_work", "join_work", "stop_rx")
  BY <1>20, LifeAssumption DEF TypeOK, MainPcs, Places, Threads, Devices, Stop, Go, mainVars, resVars, cfgVars, connVars, sendVars
<1>21. CASE Join("work", "join_work", "stop_rx")
  BY <1>21, LifeAssumption DEF TypeOK, MainPcs, Places, Threads, Devices, Join, Go, mainVars, resVars, cfgVars, connVars, sendVars
<1>22. CASE Stop("rx", "stop_rx", "join_rx", "release")
  BY <1>22, LifeAssumption DEF TypeOK, MainPcs, Places, Threads, Devices, Stop, Go, mainVars, resVars, cfgVars, connVars, sendVars
<1>23. CASE Join("rx", "join_rx", "release")
  BY <1>23, LifeAssumption DEF TypeOK, MainPcs, Places, Threads, Devices, Join, Go, mainVars, resVars, cfgVars, connVars, sendVars
<1>24. CASE Release
  <2>1. fd' \in [Devices -> BOOLEAN]
    BY <1>24, LifeAssumption DEF TypeOK, Places, Threads, Devices, Release, Go, mainVars, resVars, cfgVars, connVars, sendVars
  <2>2. map' \in [Devices -> BOOLEAN]
    BY <1>24, LifeAssumption DEF TypeOK, Places, Threads, Devices, Release, Go, mainVars, resVars, cfgVars, connVars, sendVars
  <2>3. pending' \in 0 .. Slots
    BY <1>24, LifeAssumption DEF TypeOK, Places, Threads, Devices, Release, Go, mainVars, resVars, cfgVars, connVars, sendVars
  <2>4. pc' \in MainPcs /\ then' \in {"open", "idle"} /\ queues' \in BOOLEAN
    BY <1>24 DEF TypeOK, MainPcs, Release, Go
  <2>5. UNCHANGED <<opens, en, cfgVars, connVars, sendVars, at, event>>
    BY <1>24 DEF Release
  <2>. QED
    BY <2>1, <2>2, <2>3, <2>4, <2>5 DEF TypeOK, cfgVars, connVars, sendVars
<1>25. CASE RxStart
  <2>1. at' \in [Threads -> Places]
    BY <1>25, LifeAssumption, MovesType DEF TypeOK, Places, Threads, Devices, RxStart, mainVars, resVars, cfgVars, connVars, sendVars
  <2>2. fd' \in [Devices -> BOOLEAN]
    BY <1>25, LifeAssumption DEF TypeOK, Places, Threads, Devices, RxStart, Moves, mainVars, resVars, cfgVars, connVars, sendVars
  <2>3. UNCHANGED <<mainVars, en, map, queues, pending, cfgVars, connVars, sendVars, event>>
    BY <1>25 DEF RxStart
  <2>. QED
    BY <2>1, <2>2, <2>3 DEF TypeOK, mainVars, resVars, cfgVars, connVars, sendVars
<1>26. CASE RxLoop
  BY <1>26, LifeAssumption, MovesType DEF TypeOK, MainPcs, Places, Threads, Devices, RxLoop, mainVars, resVars, cfgVars, connVars, sendVars
<1>27. CASE RxTurn
  <2>1. at' \in [Threads -> Places]
    BY <1>27, LifeAssumption, MovesType DEF TypeOK, Places, Threads, Devices, RxTurn, mainVars, resVars, cfgVars, connVars, sendVars
  <2>2. pending' \in 0 .. Slots
    BY <1>27, LifeAssumption DEF TypeOK, Places, Threads, Devices, RxTurn, Moves, mainVars, resVars, cfgVars, connVars, sendVars
  <2>3. event' \in BOOLEAN
    BY <1>27, LifeAssumption DEF TypeOK, Places, Threads, Devices, RxTurn, Moves, mainVars, resVars, cfgVars, connVars, sendVars
  <2>. QED
    BY <1>27, <2>1, <2>2, <2>3 DEF TypeOK, MainPcs, RxTurn, Moves, mainVars, resVars, cfgVars, connVars, sendVars
<1>28. CASE WorkLoop
  BY <1>28, LifeAssumption, MovesType DEF TypeOK, MainPcs, Places, Threads, Devices, WorkLoop, mainVars, resVars, cfgVars, connVars, sendVars
<1>29. CASE TxLoop
  BY <1>29, LifeAssumption, MovesType DEF TypeOK, MainPcs, Places, Threads, Devices, TxLoop, mainVars, resVars, cfgVars, connVars, sendVars
<1>30. CASE TxPop
  BY <1>30, LifeAssumption, MovesType DEF TypeOK, MainPcs, Places, Threads, Devices, TxPop, mainVars, resVars, cfgVars, connVars, sendVars
<1>31. CASE TxBuild
  <2>1. at' \in [Threads -> Places]
    BY <1>31, MovesType DEF TypeOK, Places, Threads, TxBuild
  <2>2. /\ failed' \in BOOLEAN /\ moved' \in BOOLEAN
        /\ sentTo' \in {"nowhere", "receiver", "other"}
    BY <1>31 DEF TxBuild
  <2>3. sendFd' \in Fds \union {NoFd}
    BY <1>31 DEF TypeOK, TxBuild
  <2>. QED
    BY <1>31, <2>1, <2>2, <2>3 DEF TypeOK, TxBuild, mainVars, resVars, cfgVars
<1>32. CASE TxSend
  <2>1. at' \in [Threads -> Places]
    BY <1>32, LifeAssumption, MovesType DEF TypeOK, Places, Threads, Devices, TxSend, mainVars, resVars, cfgVars, connVars, sendVars
  <2>2. failed' \in BOOLEAN
    BY <1>32, LifeAssumption DEF TypeOK, Places, Threads, Devices, TxSend, Moves, mainVars, resVars, cfgVars, connVars, sendVars
  <2>3. sentTo' \in {"nowhere", "receiver", "other"}
    BY <1>32, LifeAssumption DEF TypeOK, Places, Threads, Devices, TxSend, Moves, mainVars, resVars, cfgVars, connVars, sendVars
  <2>. QED
    BY <1>32, <2>1, <2>2, <2>3 DEF TypeOK, MainPcs, TxSend, Moves, mainVars, resVars, cfgVars, connVars, sendVars
<1>33. CASE TxFree
  BY <1>33, LifeAssumption, MovesType DEF TypeOK, MainPcs, Places, Threads, Devices, TxFree, mainVars, resVars, cfgVars, connVars, sendVars
<1>. QED
  BY <1>1, <1>2, <1>3, <1>4, <1>5, <1>6, <1>7, <1>8, <1>9, <1>10, <1>11, <1>12, <1>13, <1>14, <1>15, <1>16, <1>17, <1>18, <1>19, <1>20, <1>21, <1>22, <1>23, <1>24, <1>25, <1>26, <1>27, <1>28, <1>29, <1>30, <1>31, <1>32, <1>33 DEF Next, RunControl, Command, Receive, Transmit

-----------------------------------------------------------------------------
LEMMA NonePending ==
  ASSUME pending = 0
  PROVE  ~(pending > 0)
  OBVIOUS

(* Every step keeps what each place of the command thread stands for.      *)
LEMMA LifeNext ==
  ASSUME LifeInv, Next, "enable_timing" \notin Faults
  PROVE  LifeInv'
<1>. USE DEF LifeInv
<1>0. TypeOK'
  BY LifeTypeNext
<1>1. CASE \E port \in BOOLEAN : EnableRun(port)
  <2>0. PICK port \in BOOLEAN : EnableRun(port)
    BY <1>1
  <2>1. ByPlace'
    BY <2>0, <1>0 DEF TypeOK, Places, Threads, Devices, ByPlace, ThreadsByPlace, FlagsByPlace, FlagsOfThreads, ResourcesByPlace, EventsHaveRx,
       EnableRun, Disconnected, mainVars, resVars, cfgVars, connVars, sendVars
  <2>2. Connected'
    BY <2>0, <1>0, LifeAssumption DEF TypeOK, Threads, Devices, Connected, OneConnection, NumberFresh, SentToReceiver,
       EnableRun, Disconnected, mainVars, resVars, cfgVars, connVars, sendVars
  <2>. QED  BY <1>0, <2>1, <2>2
<1>2. CASE DisableRun
  <2>1. ByPlace'
    BY <1>2, LifeUntouched DEF DisableRun, mainVars, resVars, cfgVars, connVars, sendVars
  <2>2. Connected'
    BY <1>2, ConnUntouched DEF TypeOK, Threads, DisableRun, mainVars, resVars, cfgVars, connVars, sendVars
  <2>. QED  BY <1>0, <2>1, <2>2
<1>3. CASE HardReset
  <2>1. ByPlace'
    BY <1>3, LifeUntouched DEF HardReset, Disconnected, mainVars, resVars, cfgVars, connVars, sendVars
  <2>2. Connected'
    BY <1>3, <1>0, LifeAssumption DEF TypeOK, Threads, Devices, Connected, OneConnection, NumberFresh, SentToReceiver,
       HardReset, Disconnected, mainVars, resVars, cfgVars, connVars, sendVars
  <2>. QED  BY <1>0, <2>1, <2>2
<1>4. CASE SetConfig
  <2>1. ByPlace'
    BY <1>4, LifeUntouched DEF SetConfig, mainVars, resVars, cfgVars, connVars, sendVars
  <2>2. Connected'
    BY <1>4, ConnUntouched DEF TypeOK, Threads, SetConfig, mainVars, resVars, cfgVars, connVars, sendVars
  <2>. QED  BY <1>0, <2>1, <2>2
<1>5. CASE Others
  <2>0. PICK n \in Fds : OtherOpens(n) \/ OtherCloses(n)
    BY <1>5 DEF Others
  <2>1. ByPlace'
    BY <2>0, LifeUntouched DEF OtherOpens, OtherCloses, mainVars, resVars, cfgVars, connVars, sendVars
  <2>2. Connected'
    BY <2>0, <1>0, LifeAssumption DEF TypeOK, Threads, Devices, Connected, OneConnection, NumberFresh, SentToReceiver,
       OtherOpens, OtherCloses, mainVars, resVars, cfgVars, connVars, sendVars
  <2>. QED  BY <1>0, <2>1, <2>2
<1>6. CASE Socket
  <2>1. ByPlace'
    BY <1>6, <1>0 DEF TypeOK, Places, Threads, Devices, ByPlace, ThreadsByPlace, FlagsByPlace, FlagsOfThreads, ResourcesByPlace, EventsHaveRx,
       Socket, mainVars, resVars, cfgVars, connVars, sendVars
  <2>2. Connected'
    BY <1>6, <1>0, LifeAssumption DEF TypeOK, Threads, Devices, Connected, OneConnection, NumberFresh, SentToReceiver,
       Socket, mainVars, resVars, cfgVars, connVars, sendVars
  <2>. QED  BY <1>0, <2>1, <2>2
<1>7. CASE Connect
  <2>1. ByPlace'
    BY <1>7, <1>0 DEF TypeOK, Places, Threads, Devices, ByPlace, ThreadsByPlace, FlagsByPlace, FlagsOfThreads, ResourcesByPlace, EventsHaveRx,
       Connect, Disconnected, mainVars, resVars, cfgVars, connVars, sendVars
  <2>2. Connected'
    BY <1>7, <1>0, LifeAssumption DEF TypeOK, Threads, Devices, Connected, OneConnection, NumberFresh, SentToReceiver,
       Connect, Disconnected, mainVars, resVars, cfgVars, connVars, sendVars
  <2>. QED  BY <1>0, <2>1, <2>2
<1>8. CASE SetRunMode
  <2>1. ByPlace'
    BY <1>8, <1>0 DEF TypeOK, Places, Threads, Devices, ByPlace, ThreadsByPlace, FlagsByPlace, FlagsOfThreads, ResourcesByPlace, EventsHaveRx,
       SetRunMode, mainVars, resVars, cfgVars, connVars, sendVars
  <2>2. Connected'
    BY <1>8, ConnUntouched DEF TypeOK, Threads, SetRunMode, mainVars, resVars, cfgVars, connVars, sendVars
  <2>. QED  BY <1>0, <2>1, <2>2
<1>9. CASE Open
  <2>1. ByPlace'
    BY <1>9, <1>0 DEF TypeOK, Places, Threads, Devices, ByPlace, ThreadsByPlace, FlagsByPlace, FlagsOfThreads, ResourcesByPlace, EventsHaveRx,
       Open, Go, mainVars, resVars, cfgVars, connVars, sendVars
  <2>2. Connected'
    BY <1>9, ConnUntouched DEF TypeOK, Threads, Open, Go, mainVars, resVars, cfgVars, connVars, sendVars
  <2>. QED  BY <1>0, <2>1, <2>2
<1>10. CASE Construct("data", "timing")
  <2>1. ByPlace'
    BY <1>10, <1>0 DEF TypeOK, Places, Threads, Devices, ByPlace, ThreadsByPlace, FlagsByPlace, FlagsOfThreads, ResourcesByPlace, EventsHaveRx,
       Construct, Fail, Go, mainVars, resVars, cfgVars, connVars, sendVars
  <2>2. Connected'
    BY <1>10, ConnUntouched DEF TypeOK, Threads, Construct, Fail, Go, mainVars, resVars, cfgVars, connVars, sendVars
  <2>. QED  BY <1>0, <2>1, <2>2
<1>11. CASE Construct("timing", "queues")
  <2>1. ByPlace'
    BY <1>11, <1>0 DEF TypeOK, Places, Threads, Devices, ByPlace, ThreadsByPlace, FlagsByPlace, FlagsOfThreads, ResourcesByPlace, EventsHaveRx,
       Construct, Fail, Go, mainVars, resVars, cfgVars, connVars, sendVars
  <2>2. Connected'
    BY <1>11, ConnUntouched DEF TypeOK, Threads, Construct, Fail, Go, mainVars, resVars, cfgVars, connVars, sendVars
  <2>. QED  BY <1>0, <2>1, <2>2
<1>12. CASE CreateQueues
  <2>1. ByPlace'
    BY <1>12, <1>0 DEF TypeOK, Places, Threads, Devices, ByPlace, ThreadsByPlace, FlagsByPlace, FlagsOfThreads, ResourcesByPlace, EventsHaveRx,
       CreateQueues, Go, mainVars, resVars, cfgVars, connVars, sendVars
  <2>2. Connected'
    BY <1>12, ConnUntouched DEF TypeOK, Threads, CreateQueues, Go, mainVars, resVars, cfgVars, connVars, sendVars
  <2>. QED  BY <1>0, <2>1, <2>2
<1>13. CASE Create("rx", "work")
  <2>1. ByPlace'
    BY <1>13, <1>0 DEF TypeOK, Places, Threads, Devices, ByPlace, ThreadsByPlace, FlagsByPlace, FlagsOfThreads, ResourcesByPlace, EventsHaveRx,
       Create, Fail, Go, mainVars, resVars, cfgVars, connVars, sendVars
  <2>2. Connected'
    BY <1>13, ConnUntouched DEF TypeOK, Threads, Create, Fail, Go, mainVars, resVars, cfgVars, connVars, sendVars
  <2>. QED  BY <1>0, <2>1, <2>2
<1>14. CASE Create("work", "tx")
  <2>1. ByPlace'
    BY <1>14, <1>0 DEF TypeOK, Places, Threads, Devices, ByPlace, ThreadsByPlace, FlagsByPlace, FlagsOfThreads, ResourcesByPlace, EventsHaveRx,
       Create, Fail, Go, mainVars, resVars, cfgVars, connVars, sendVars
  <2>2. Connected'
    BY <1>14, ConnUntouched DEF TypeOK, Threads, Create, Fail, Go, mainVars, resVars, cfgVars, connVars, sendVars
  <2>. QED  BY <1>0, <2>1, <2>2
<1>15. CASE Create("tx", "idle")
  <2>1. ByPlace'
    <3>5. at'["rx"] = at["rx"] /\ en'["rx"] = en["rx"] /\ at'["tx"] \in {at["tx"], "start"}
      BY <1>15 DEF Create, TypeOK, Threads
    <3>6. UNCHANGED <<queues, pending, event>> /\ pc = "tx" /\ pc' \in {"idle", "close"}
      BY <1>15 DEF Create, Go, Fail
    <3>7. at["rx"] \in {"loop", "select"} \/ pending = 0
      BY <3>6 DEF ByPlace, ThreadsByPlace, EventsHaveRx
    <3>8. pending = 0 => ~(pending > 0)
      BY NonePending
    <3>9. EventsHaveRx'
      BY <3>5, <3>6, <3>7, <3>8 DEF ByPlace, EventsHaveRx
    <3>1. ThreadsByPlace'
      BY <1>15, <1>0 DEF TypeOK, Places, Threads, Devices, ByPlace, ThreadsByPlace, FlagsByPlace, FlagsOfThreads, ResourcesByPlace, EventsHaveRx,
         Create, Fail, Go, mainVars, resVars, cfgVars, connVars, sendVars
    <3>2. FlagsByPlace'
      BY <1>15, <1>0 DEF TypeOK, Places, Threads, Devices, ByPlace, ThreadsByPlace, FlagsByPlace, FlagsOfThreads, ResourcesByPlace, EventsHaveRx,
         Create, Fail, Go, mainVars, resVars, cfgVars, connVars, sendVars
    <3>3. ResourcesByPlace'
      BY <1>15, <1>0 DEF TypeOK, Places, Threads, Devices, ByPlace, ThreadsByPlace, FlagsByPlace, FlagsOfThreads, ResourcesByPlace, EventsHaveRx,
         Create, Fail, Go, mainVars, resVars, cfgVars, connVars, sendVars
    <3>. QED  BY <3>1, <3>2, <3>3, <3>9 DEF ByPlace
  <2>2. Connected'
    BY <1>15, ConnUntouched DEF TypeOK, Threads, Create, Fail, Go, mainVars, resVars, cfgVars, connVars, sendVars
  <2>. QED  BY <1>0, <2>1, <2>2
<1>16. CASE Destroy
  <2>1. ByPlace'
    BY <1>16, <1>0 DEF TypeOK, Places, Threads, Devices, ByPlace, ThreadsByPlace, FlagsByPlace, FlagsOfThreads, ResourcesByPlace, EventsHaveRx,
       Destroy, Go, mainVars, resVars, cfgVars, connVars, sendVars
  <2>2. Connected'
    BY <1>16, ConnUntouched DEF TypeOK, Threads, Destroy, Go, mainVars, resVars, cfgVars, connVars, sendVars
  <2>. QED  BY <1>0, <2>1, <2>2
<1>17. CASE Close
  <2>1. ByPlace'
    BY <1>17, <1>0 DEF TypeOK, Places, Threads, Devices, ByPlace, ThreadsByPlace, FlagsByPlace, FlagsOfThreads, ResourcesByPlace, EventsHaveRx,
       Close, Go, Disconnected, mainVars, resVars, cfgVars, connVars, sendVars
  <2>2. Connected'
    BY <1>17, <1>0, LifeAssumption DEF TypeOK, Threads, Devices, Connected, OneConnection, NumberFresh, SentToReceiver,
       Close, Go, Disconnected, mainVars, resVars, cfgVars, connVars, sendVars
  <2>. QED  BY <1>0, <2>1, <2>2
<1>18. CASE Stop("tx", "stop_tx", "join_tx", "stop_work")
  <2>1. ByPlace'
    BY <1>18, <1>0 DEF TypeOK, Places, Threads, Devices, ByPlace, ThreadsByPlace, FlagsByPlace, FlagsOfThreads, ResourcesByPlace, EventsHaveRx,
       Stop, Go, mainVars, resVars, cfgVars, connVars, sendVars
  <2>2. Connected'
    BY <1>18, ConnUntouched DEF TypeOK, Threads, Stop, Go, mainVars, resVars, cfgVars, connVars, sendVars
  <2>. QED  BY <1>0, <2>1, <2>2
<1>19. CASE Join("tx", "join_tx", "stop_work")
  <2>1. ByPlace'
    BY <1>19, <1>0 DEF TypeOK, Places, Threads, Devices, ByPlace, ThreadsByPlace, FlagsByPlace, FlagsOfThreads, ResourcesByPlace, EventsHaveRx,
       Join, Go, mainVars, resVars, cfgVars, connVars, sendVars
  <2>2. Connected'
    BY <1>19, ConnUntouched DEF TypeOK, Threads, Join, Go, mainVars, resVars, cfgVars, connVars, sendVars
  <2>. QED  BY <1>0, <2>1, <2>2
<1>20. CASE Stop("work", "stop_work", "join_work", "stop_rx")
  <2>1. ByPlace'
    BY <1>20, <1>0 DEF TypeOK, Places, Threads, Devices, ByPlace, ThreadsByPlace, FlagsByPlace, FlagsOfThreads, ResourcesByPlace, EventsHaveRx,
       Stop, Go, mainVars, resVars, cfgVars, connVars, sendVars
  <2>2. Connected'
    BY <1>20, ConnUntouched DEF TypeOK, Threads, Stop, Go, mainVars, resVars, cfgVars, connVars, sendVars
  <2>. QED  BY <1>0, <2>1, <2>2
<1>21. CASE Join("work", "join_work", "stop_rx")
  <2>1. ByPlace'
    BY <1>21, <1>0 DEF TypeOK, Places, Threads, Devices, ByPlace, ThreadsByPlace, FlagsByPlace, FlagsOfThreads, ResourcesByPlace, EventsHaveRx,
       Join, Go, mainVars, resVars, cfgVars, connVars, sendVars
  <2>2. Connected'
    BY <1>21, ConnUntouched DEF TypeOK, Threads, Join, Go, mainVars, resVars, cfgVars, connVars, sendVars
  <2>. QED  BY <1>0, <2>1, <2>2
<1>22. CASE Stop("rx", "stop_rx", "join_rx", "release")
  <2>1. ByPlace'
    BY <1>22, <1>0 DEF TypeOK, Places, Threads, Devices, ByPlace, ThreadsByPlace, FlagsByPlace, FlagsOfThreads, ResourcesByPlace, EventsHaveRx,
       Stop, Go, mainVars, resVars, cfgVars, connVars, sendVars
  <2>2. Connected'
    BY <1>22, ConnUntouched DEF TypeOK, Threads, Stop, Go, mainVars, resVars, cfgVars, connVars, sendVars
  <2>. QED  BY <1>0, <2>1, <2>2
<1>23. CASE Join("rx", "join_rx", "release")
  <2>1. ByPlace'
    BY <1>23, <1>0 DEF TypeOK, Places, Threads, Devices, ByPlace, ThreadsByPlace, FlagsByPlace, FlagsOfThreads, ResourcesByPlace, EventsHaveRx,
       Join, Go, mainVars, resVars, cfgVars, connVars, sendVars
  <2>2. Connected'
    BY <1>23, ConnUntouched DEF TypeOK, Threads, Join, Go, mainVars, resVars, cfgVars, connVars, sendVars
  <2>. QED  BY <1>0, <2>1, <2>2
<1>24. CASE Release
  <2>1. ByPlace'
    BY <1>24, <1>0 DEF TypeOK, Places, Threads, Devices, ByPlace, ThreadsByPlace, FlagsByPlace, FlagsOfThreads, ResourcesByPlace, EventsHaveRx,
       Release, Go, mainVars, resVars, cfgVars, connVars, sendVars
  <2>2. Connected'
    BY <1>24, ConnUntouched DEF TypeOK, Threads, Release, Go, mainVars, resVars, cfgVars, connVars, sendVars
  <2>. QED  BY <1>0, <2>1, <2>2
<1>25. CASE RxStart
  <2>1. ByPlace'
    <3>1. ThreadsByPlace'
      BY <1>25, <1>0 DEF TypeOK, Places, Threads, Devices, ByPlace, ThreadsByPlace, FlagsByPlace, FlagsOfThreads, ResourcesByPlace, EventsHaveRx,
         RxStart, Moves, mainVars, resVars, cfgVars, connVars, sendVars
    <3>2. FlagsByPlace'
      BY <1>25, <1>0 DEF TypeOK, Places, Threads, Devices, ByPlace, ThreadsByPlace, FlagsByPlace, FlagsOfThreads, ResourcesByPlace, EventsHaveRx,
         RxStart, Moves, mainVars, resVars, cfgVars, connVars, sendVars
    <3>3. ResourcesByPlace'
      BY <1>25, <1>0 DEF TypeOK, Places, Threads, Devices, ByPlace, ThreadsByPlace, FlagsByPlace, FlagsOfThreads, ResourcesByPlace, EventsHaveRx,
         RxStart, Moves, mainVars, resVars, cfgVars, connVars, sendVars
    <3>4. EventsHaveRx'
      BY <1>25, <1>0 DEF TypeOK, Places, Threads, Devices, ByPlace, ThreadsByPlace, FlagsByPlace, FlagsOfThreads, ResourcesByPlace, EventsHaveRx,
         RxStart, Moves, mainVars, resVars, cfgVars, connVars, sendVars
    <3>. QED  BY <3>1, <3>2, <3>3, <3>4 DEF ByPlace
  <2>2. Connected'
    BY <1>25, ConnUntouched DEF TypeOK, Threads, RxStart, Moves, mainVars, resVars, cfgVars, connVars, sendVars
  <2>. QED  BY <1>0, <2>1, <2>2
<1>26. CASE RxLoop
  <2>1. ByPlace'
    BY <1>26, <1>0 DEF TypeOK, Places, Threads, Devices, ByPlace, ThreadsByPlace, FlagsByPlace, FlagsOfThreads, ResourcesByPlace, EventsHaveRx,
       RxLoop, Moves, mainVars, resVars, cfgVars, connVars, sendVars
  <2>2. Connected'
    BY <1>26, ConnUntouched DEF TypeOK, Threads, RxLoop, Moves, mainVars, resVars, cfgVars, connVars, sendVars
  <2>. QED  BY <1>0, <2>1, <2>2
<1>27. CASE RxTurn
  <2>1. ByPlace'
    BY <1>27, <1>0 DEF TypeOK, Places, Threads, Devices, ByPlace, ThreadsByPlace, FlagsByPlace, FlagsOfThreads, ResourcesByPlace, EventsHaveRx,
       RxTurn, Moves, mainVars, resVars, cfgVars, connVars, sendVars
  <2>2. Connected'
    BY <1>27, ConnUntouched DEF TypeOK, Threads, RxTurn, Moves, mainVars, resVars, cfgVars, connVars, sendVars
  <2>. QED  BY <1>0, <2>1, <2>2
<1>28. CASE WorkLoop
  <2>1. ByPlace'
    BY <1>28, <1>0 DEF TypeOK, Places, Threads, Devices, ByPlace, ThreadsByPlace, FlagsByPlace, FlagsOfThreads, ResourcesByPlace, EventsHaveRx,
       WorkLoop, Moves, mainVars, resVars, cfgVars, connVars, sendVars
  <2>2. Connected'
    BY <1>28, ConnUntouched DEF TypeOK, Threads, WorkLoop, Moves, mainVars, resVars, cfgVars, connVars, sendVars
  <2>. QED  BY <1>0, <2>1, <2>2
<1>29. CASE TxLoop
  <2>1. ByPlace'
    BY <1>29, <1>0 DEF TypeOK, Places, Threads, Devices, ByPlace, ThreadsByPlace, FlagsByPlace, FlagsOfThreads, ResourcesByPlace, EventsHaveRx,
       TxLoop, Moves, mainVars, resVars, cfgVars, connVars, sendVars
  <2>2. Connected'
    BY <1>29, ConnUntouched DEF TypeOK, Threads, TxLoop, Moves, mainVars, resVars, cfgVars, connVars, sendVars
  <2>. QED  BY <1>0, <2>1, <2>2
<1>30. CASE TxPop
  <2>1. ByPlace'
    BY <1>30, <1>0 DEF TypeOK, Places, Threads, Devices, ByPlace, ThreadsByPlace, FlagsByPlace, FlagsOfThreads, ResourcesByPlace, EventsHaveRx,
       TxPop, Moves, mainVars, resVars, cfgVars, connVars, sendVars
  <2>2. Connected'
    BY <1>30, ConnUntouched DEF TypeOK, Threads, TxPop, Moves, mainVars, resVars, cfgVars, connVars, sendVars
  <2>. QED  BY <1>0, <2>1, <2>2
<1>31. CASE TxBuild
  <2>1. ByPlace'
    BY <1>31, <1>0 DEF TypeOK, Places, Threads, Devices, ByPlace, ThreadsByPlace, FlagsByPlace, FlagsOfThreads, ResourcesByPlace, EventsHaveRx,
       TxBuild, Moves, mainVars, resVars, cfgVars, connVars, sendVars
  <2>2. Connected'
    BY <1>31, <1>0, LifeAssumption DEF TypeOK, Threads, Devices, Connected, OneConnection, NumberFresh, SentToReceiver,
       TxBuild, Moves, mainVars, resVars, cfgVars, connVars, sendVars
  <2>. QED  BY <1>0, <2>1, <2>2
<1>32. CASE TxSend
  <2>1. ByPlace'
    BY <1>32, <1>0 DEF TypeOK, Places, Threads, Devices, ByPlace, ThreadsByPlace, FlagsByPlace, FlagsOfThreads, ResourcesByPlace, EventsHaveRx,
       TxSend, Moves, mainVars, resVars, cfgVars, connVars, sendVars
  <2>2. Connected'
    BY <1>32, <1>0, LifeAssumption DEF TypeOK, Threads, Devices, Connected, OneConnection, NumberFresh, SentToReceiver,
       TxSend, Moves, mainVars, resVars, cfgVars, connVars, sendVars
  <2>. QED  BY <1>0, <2>1, <2>2
<1>33. CASE TxFree
  <2>1. ByPlace'
    BY <1>33, <1>0 DEF TypeOK, Places, Threads, Devices, ByPlace, ThreadsByPlace, FlagsByPlace, FlagsOfThreads, ResourcesByPlace, EventsHaveRx,
       TxFree, Moves, mainVars, resVars, cfgVars, connVars, sendVars
  <2>2. Connected'
    BY <1>33, ConnUntouched DEF TypeOK, Threads, TxFree, Moves, mainVars, resVars, cfgVars, connVars, sendVars
  <2>. QED  BY <1>0, <2>1, <2>2
<1>. QED
  BY <1>1, <1>2, <1>3, <1>4, <1>5, <1>6, <1>7, <1>8, <1>9, <1>10, <1>11, <1>12, <1>13, <1>14, <1>15, <1>16, <1>17, <1>18, <1>19, <1>20, <1>21, <1>22, <1>23, <1>24, <1>25, <1>26, <1>27, <1>28, <1>29, <1>30, <1>31, <1>32, <1>33 DEF Next, RunControl, Command, Receive, Transmit

-----------------------------------------------------------------------------
(* From here on the assumption that the timing channel can be enabled is   *)
(* needed: rxRun does not look whether it could.                           *)
LEMMA LifeAlways == "enable_timing" \notin Faults => (Spec => []LifeInv)
<1>. SUFFICES ASSUME "enable_timing" \notin Faults PROVE Spec => []LifeInv
  OBVIOUS
<1>1. LifeInv /\ [Next]_vars => LifeInv'
  <2>. SUFFICES ASSUME LifeInv, [Next]_vars PROVE LifeInv'
    OBVIOUS
  <2>1. CASE Next
    BY <2>1, LifeNext
  <2>2. CASE UNCHANGED vars
    <3>1. TypeOK'
      BY <2>2 DEF LifeInv, TypeOK, vars, mainVars, resVars, cfgVars, connVars, sendVars
    <3>2. ByPlace'
      BY <2>2, LifeUntouched DEF LifeInv, vars, mainVars, resVars
    <3>3. Connected'
      BY <2>2, ConnUntouched DEF LifeInv, vars, mainVars, connVars, sendVars
    <3>. QED  BY <3>1, <3>2, <3>3 DEF LifeInv
  <2>. QED  BY <2>1, <2>2
<1>. QED  BY <1>1, LifeInit, PTL DEF Spec

(* Whatever open and the threads fail at, a thread that runs has the       *)
(* queues, devices and buffers it uses, and txRun the rxRun its event came *)
(* from, provided that the timing channel can be enabled.                  *)
THEOREM LifeUses == "enable_timing" \notin Faults => (Spec => []UsesWhatIsThere)
<1>1. LifeInv => UsesWhatIsThere
  BY DEF LifeInv, ByPlace, ThreadsByPlace, FlagsByPlace, FlagsOfThreads, ResourcesByPlace, EventsHaveRx,
         UsesWhatIsThere, Running, Threads, Devices
<1>. QED  BY <1>1, LifeAlways, PTL

(* open leaves everything or nothing, and close leaves nothing; the only   *)
(* open connection is the one DaqBuffer knows of.                          *)
THEOREM LifeNothingLeft == "enable_timing" \notin Faults => (Spec => []NothingLeft)
<1>1. LifeInv => NothingLeft
  BY DEF LifeInv, ByPlace, ThreadsByPlace, FlagsByPlace, FlagsOfThreads, ResourcesByPlace,
         Connected, OneConnection, NothingLeft, Threads, Devices
<1>. QED  BY <1>1, LifeAlways, PTL

(* An event goes to somebody else only if disableTx closed the connection  *)
(* after txRun had read its number.                                        *)
THEOREM LifeSent == "enable_timing" \notin Faults => (Spec => []SentToReceiver)
<1>1. LifeInv => SentToReceiver
  BY DEF LifeInv, Connected, NumberFresh
<1>. QED  BY <1>1, LifeAlways, PTL

=============================================================================
