------------------------------- MODULE DmaDriver ------------------------------
(***************************************************************************)
(* The AXI stream DMA driver (driverV3_4.00): receive and transmit buffers *)
(* that go round between the firmware, the FIFOs of the driver's registers *)
(* and a program whose threads read, give back and write through one file. *)
(*                                                                         *)
(* A register read takes a word off its FIFO.  A received frame is three   *)
(* words there: the handle of the buffer, the size, the status.            *)
(* Commands that only answer a number, or are refused, take the semaphore  *)
(* and give it back: "ask" of a read, "txask" of a write.                  *)
(***************************************************************************)
EXTENDS Naturals, Sequences, FiniteSets

CONSTANTS
  Threads,     (* of the program that has the file open                    *)
  Buffers,     (* receive buffers                                          *)
  TxBuffers,   (* transmit buffers                                         *)
  None,        (* no thread, no buffer                                     *)
  Gone,        (* the holder of a semaphore that nobody will release       *)
  Modes,       (* how a file may be opened: "block", "nonblock"            *)
  Faults       (* "signal" interrupts a sleep, "marker" spoils a word or a *)
               (* handle, "small" is a buffer a frame does not fit in      *)

ASSUME DriverAssumption ==
  /\ None \notin Threads /\ Gone \notin Threads /\ Gone # None
  /\ None \notin Buffers /\ None \notin TxBuffers
  /\ Buffers \intersect TxBuffers = {}
  /\ IsFiniteSet(Buffers) /\ IsFiniteSet(TxBuffers)

VARIABLES
  mode,       (* how the file is open, or "closed"                         *)
  call,       (* of each thread: where it is, its command, its buffer, and *)
              (* whether the handle it took is a good one                  *)
  readSem,    (* who holds it                                              *)
  writeSem,
  rxFree,     (* FIFO to the firmware of buffers to receive into           *)
  filling,    (* the buffer the firmware receives into or tells of, and    *)
              (* the word it tells next                                    *)
  rxPend,     (* FIFO from the firmware of words on received frames        *)
  userHas,    (* the buffers marked as the program's                       *)
  held,       (* those the program was given and has not posted            *)
  dropped,    (* those nobody will give back any more                      *)
  wasted,     (* history: whether a wait threw a word away, or the         *)
              (* firmware spoiled one                                      *)
  txFree,     (* FIFO from the firmware of buffers to fill                 *)
  txPost,     (* the three FIFOs to the firmware: A handles, B sizes and   *)
              (* C controls, each with the thread that wrote it            *)
  txDropped,
  txWasted

rxVars == <<readSem, rxFree, filling, rxPend, userHas, held, dropped, wasted>>
txVars == <<writeSem, txFree, txPost, txDropped, txWasted>>
vars == <<mode, call, rxVars, txVars>>

Idle == [at |-> "idle", op |-> "ask", buf |-> None, good |-> TRUE]

(* The sequences of the members of a finite set. *)
Orders(S) == {q \in [1 .. Cardinality(S) -> S] : \A i, j \in DOMAIN q : q[i] = q[j] => i = j}

(* The order of their index. *)
IndexOrder(S) == CHOOSE q \in Orders(S) : TRUE

Init ==
  /\ mode = "closed" /\ call = [t \in Threads |-> Idle]
  /\ readSem = None /\ writeSem = None
  /\ rxFree = IndexOrder(Buffers) /\ filling = [buf |-> None, next |-> "handle"] /\ rxPend = <<>>
  /\ userHas = {} /\ held = {} /\ dropped = {} /\ wasted = FALSE
  /\ txFree = IndexOrder(TxBuffers) /\ txPost = [f \in {"A", "B", "C"} |-> <<>>]
  /\ txDropped = {} /\ txWasted = FALSE

To(t, place) == call' = [call EXCEPT ![t].at = place]

Return(t) == call' = [call EXCEPT ![t] = Idle]

-----------------------------------------------------------------------------
(* The firmware                                                            *)

HwStart ==
  /\ filling.buf = None /\ rxFree # <<>>
  /\ filling' = [buf |-> Head(rxFree), next |-> "handle"]
  /\ rxFree' = Tail(rxFree)
  /\ UNCHANGED <<mode, call, readSem, rxPend, userHas, held, dropped, wasted, txVars>>

HwWord ==
  /\ filling.buf # None
  /\ \E good \in IF "marker" \in Faults THEN BOOLEAN ELSE {TRUE} :
       /\ rxPend' = Append(rxPend, [kind |-> filling.next, buf |-> filling.buf, good |-> good])
       /\ wasted' = (wasted \/ ~good)
  /\ filling' = CASE filling.next = "handle" -> [filling EXCEPT !.next = "size"]
                  [] filling.next = "size"   -> [filling EXCEPT !.next = "status"]
                  [] OTHER                   -> [buf |-> None, next |-> "handle"]
  /\ UNCHANGED <<mode, call, readSem, rxFree, userHas, held, dropped, txVars>>

(* A handle that is no buffer's is None. *)
HwSend ==
  /\ \A f \in DOMAIN txPost : txPost[f] # <<>>
  /\ LET b == Head(txPost["A"]).buf IN
       \/ /\ txFree' = Append(txFree, b)
          /\ UNCHANGED <<txDropped, txWasted>>
       \/ /\ "marker" \in Faults
          /\ txFree' = Append(txFree, None)
          /\ txDropped' = txDropped \union {b} /\ txWasted' = TRUE
  /\ txPost' = [f \in DOMAIN txPost |-> Tail(txPost[f])]
  /\ UNCHANGED <<mode, call, rxVars, writeSem>>

-----------------------------------------------------------------------------
(* Open, close and the calls of the program                                *)

Open ==
  /\ mode = "closed"
  /\ mode' \in Modes
  /\ UNCHANGED <<call, rxVars, txVars>>

(* Closing gives back what the program has kept, unless it is interrupted  *)
(* before it has the semaphore.                                            *)
Close ==
  /\ mode # "closed" /\ \A t \in Threads : call[t] = Idle
  /\ \/ /\ readSem = None
        /\ \E q \in Orders(userHas) : rxFree' = rxFree \o q
        /\ userHas' = {}
     \/ /\ "signal" \in Faults
        /\ UNCHANGED <<rxFree, userHas>>
  /\ mode' = "closed" /\ held' = {}
  /\ UNCHANGED <<call, readSem, filling, rxPend, dropped, wasted, txVars>>

WriteCommands == {"write", "txask"}

Commands == {"copy", "user", "post", "ask"} \union WriteCommands

Call(t, op, b) ==
  /\ mode # "closed" /\ call[t] = Idle
  /\ IF op = "post" THEN b \in held /\ held' = held \ {b} ELSE b = None /\ held' = held
  /\ call' = [call EXCEPT ![t] = [at |-> "down", op |-> op, buf |-> b, good |-> TRUE]]
  /\ UNCHANGED <<mode, readSem, rxFree, filling, rxPend, userHas, dropped, wasted, txVars>>

(* A signal ends the wait for a semaphore, and the call. *)
Interrupted(t) ==
  /\ "signal" \in Faults
  /\ call[t].at = "down"
  /\ Return(t)
  /\ held' = IF call[t].op = "post" THEN held \union {call[t].buf} ELSE held
  /\ UNCHANGED <<mode, readSem, rxFree, filling, rxPend, userHas, dropped, wasted, txVars>>

-----------------------------------------------------------------------------
(* AxiStreamDmaRead                                                        *)

(* Mutant: the semaphore is not waited for. *)
DownRead_Free(t) ==
  /\ call[t].at = "down" /\ call[t].op \notin WriteCommands
  /\ readSem' = t
  /\ To(t, CASE call[t].op = "post" -> "post" [] call[t].op = "ask" -> "up" [] OTHER -> "handle")
  /\ UNCHANGED <<mode, rxFree, filling, rxPend, userHas, held, dropped, wasted, txVars>>

DownRead(t) ==
  /\ call[t].at = "down" /\ call[t].op \notin WriteCommands /\ readSem = None
  /\ readSem' = t
  /\ To(t, CASE call[t].op = "post" -> "post" [] call[t].op = "ask" -> "up" [] OTHER -> "handle")
  /\ UNCHANGED <<mode, rxFree, filling, rxPend, userHas, held, dropped, wasted, txVars>>

UpRead(t) ==
  /\ call[t].at = "up"
  /\ readSem' = None /\ Return(t)
  /\ UNCHANGED <<mode, rxFree, filling, rxPend, userHas, held, dropped, wasted, txVars>>

(* Mutant: a read that finds nothing keeps the semaphore.                  *)
PopHandle_Locked(t) ==
  /\ call[t].at = "handle"
  /\ IF rxPend = <<>>
     THEN /\ IF mode = "nonblock" THEN Return(t) ELSE To(t, "wait")
          /\ rxPend' = rxPend
     ELSE /\ call' = [call EXCEPT ![t] = [@ EXCEPT !.at = "size", !.buf = Head(rxPend).buf,
                                         !.good = Head(rxPend).kind = "handle" /\ Head(rxPend).good]]
          /\ rxPend' = Tail(rxPend)
  /\ UNCHANGED <<mode, readSem, rxFree, filling, userHas, held, dropped, wasted, txVars>>

(* Whatever word is there is taken for a handle. *)
PopHandle(t) ==
  /\ call[t].at = "handle"
  /\ IF rxPend = <<>>
     THEN /\ To(t, IF mode = "nonblock" THEN "up" ELSE "wait")
          /\ rxPend' = rxPend
     ELSE /\ call' = [call EXCEPT ![t] = [@ EXCEPT !.at = "size", !.buf = Head(rxPend).buf,
                                         !.good = Head(rxPend).kind = "handle" /\ Head(rxPend).good]]
          /\ rxPend' = Tail(rxPend)
  /\ UNCHANGED <<mode, readSem, rxFree, filling, userHas, held, dropped, wasted, txVars>>

(* The buffer of a word that is thrown away is lost with it, once: with    *)
(* the handle.                                                             *)
LostWith(w) == IF w.kind = "handle" THEN {w.buf} ELSE {}

(* The condition of the wait reads the register too: the word that ends    *)
(* the wait is thrown away.  A signal ends it as well, and the loop goes   *)
(* on.                                                                     *)
WaitRead(t) ==
  /\ call[t].at = "wait"
  /\ \/ /\ rxPend # <<>>
        /\ dropped' = dropped \union LostWith(Head(rxPend))
        /\ rxPend' = Tail(rxPend) /\ wasted' = TRUE
     \/ /\ "signal" \in Faults /\ rxPend = <<>>
        /\ UNCHANGED <<rxPend, dropped, wasted>>
  /\ To(t, "handle")
  /\ UNCHANGED <<mode, readSem, rxFree, filling, userHas, held, txVars>>

(* The buffer of the handle the call has taken, if it was one. *)
Taken(t) == IF call[t].buf \in dropped THEN {} ELSE {call[t].buf}

(* The next word is waited for in a loop.  If it is not what it should be  *)
(* the call returns with the semaphore.                                    *)
PopNext(t, kind, place) ==
  /\ call[t].at = kind /\ rxPend # <<>>
  /\ LET w == Head(rxPend) IN
       IF w.kind = kind /\ w.good
       THEN To(t, place) /\ UNCHANGED <<readSem, dropped>>
       ELSE /\ Return(t) /\ readSem' = Gone
            /\ dropped' = dropped \union Taken(t) \union LostWith(w)
  /\ rxPend' = Tail(rxPend)
  /\ UNCHANGED <<mode, rxFree, filling, userHas, held, wasted, txVars>>

PopSize(t) == PopNext(t, "size", "status")

PopStatus(t) == PopNext(t, "status", "found")

(* Mutant: the buffer is given back in both cases.                         *)
Finish_Returned(t) ==
  /\ call[t].at = "found" /\ call[t].good
  /\ rxFree' = Append(rxFree, call[t].buf)
  /\ IF call[t].op = "user"
     THEN userHas' = userHas \union {call[t].buf} /\ held' = held \union {call[t].buf}
     ELSE UNCHANGED <<userHas, held>>
  /\ To(t, "up")
  /\ UNCHANGED <<mode, readSem, filling, rxPend, dropped, wasted, txVars>>

(* A handle that is no buffer's is an error; the data of a READ_COPY that  *)
(* fits is copied and its buffer given back; the buffer of a READ_USER is  *)
(* the program's.                                                          *)
Finish(t) ==
  /\ call[t].at = "found"
  /\ LET b == call[t].buf IN
       \/ /\ call[t].good /\ call[t].op = "user"
          /\ userHas' = userHas \union {b} /\ held' = held \union {b}
          /\ UNCHANGED <<rxFree, dropped>>
       \/ /\ call[t].good /\ call[t].op = "copy"
          /\ rxFree' = Append(rxFree, b)
          /\ UNCHANGED <<userHas, held, dropped>>
       \/ /\ \/ ~call[t].good
             \/ call[t].op = "copy" /\ "small" \in Faults
          /\ dropped' = dropped \union Taken(t)
          /\ UNCHANGED <<rxFree, userHas, held>>
  /\ To(t, "up")
  /\ UNCHANGED <<mode, readSem, filling, rxPend, wasted, txVars>>

PostUser(t) ==
  /\ call[t].at = "post"
  /\ rxFree' = IF call[t].buf \in userHas THEN Append(rxFree, call[t].buf) ELSE rxFree
  /\ userHas' = userHas \ {call[t].buf}
  /\ To(t, "up")
  /\ UNCHANGED <<mode, readSem, filling, rxPend, held, dropped, wasted, txVars>>

-----------------------------------------------------------------------------
(* AxiStreamDmaWrite                                                       *)

(* Mutant: the semaphore of the readers is enough. *)
DownWrite_Free(t) ==
  /\ call[t].at = "down" /\ call[t].op \in WriteCommands
  /\ writeSem' = t /\ To(t, IF call[t].op = "write" THEN "txhandle" ELSE "txup")
  /\ UNCHANGED <<mode, rxVars, txFree, txPost, txDropped, txWasted>>

DownWrite(t) ==
  /\ call[t].at = "down" /\ call[t].op \in WriteCommands /\ writeSem = None
  /\ writeSem' = t /\ To(t, IF call[t].op = "write" THEN "txhandle" ELSE "txup")
  /\ UNCHANGED <<mode, rxVars, txFree, txPost, txDropped, txWasted>>

UpWrite(t) == writeSem' = None /\ Return(t)

UpTx(t) ==
  /\ call[t].at = "txup"
  /\ UpWrite(t)
  /\ UNCHANGED <<mode, rxVars, txFree, txPost, txDropped, txWasted>>

(* A handle that is no buffer's is an error. *)
PopTx(t) ==
  /\ call[t].at = "txhandle"
  /\ \/ /\ txFree # <<>> /\ Head(txFree) # None
        /\ call' = [call EXCEPT ![t] = [@ EXCEPT !.at = "postA", !.buf = Head(txFree)]]
        /\ txFree' = Tail(txFree) /\ writeSem' = writeSem
     \/ txFree # <<>> /\ Head(txFree) = None /\ txFree' = Tail(txFree) /\ UpWrite(t)
     \/ txFree = <<>> /\ mode = "nonblock" /\ UNCHANGED txFree /\ UpWrite(t)
     \/ txFree = <<>> /\ mode # "nonblock" /\ UNCHANGED <<txFree, writeSem>> /\ To(t, "txwait")
  /\ UNCHANGED <<mode, rxVars, txPost, txDropped, txWasted>>

(* Here too the condition of the wait takes a buffer and throws it away. *)
WaitTx(t) ==
  /\ call[t].at = "txwait"
  /\ \/ /\ txFree # <<>>
        /\ txDropped' = txDropped \union ({Head(txFree)} \ {None})
        /\ txFree' = Tail(txFree) /\ txWasted' = TRUE
     \/ /\ "signal" \in Faults /\ txFree = <<>>
        /\ UNCHANGED <<txFree, txDropped, txWasted>>
  /\ To(t, "txhandle")
  /\ UNCHANGED <<mode, rxVars, writeSem, txPost>>

Posted(t, f) == [txPost EXCEPT ![f] = Append(@, [buf |-> call[t].buf, by |-> t])]

Post(t) ==
  /\ \/ call[t].at = "postA" /\ txPost' = Posted(t, "A") /\ To(t, "postB") /\ writeSem' = writeSem
     \/ call[t].at = "postB" /\ txPost' = Posted(t, "B") /\ To(t, "postC") /\ writeSem' = writeSem
     \/ call[t].at = "postC" /\ txPost' = Posted(t, "C") /\ UpWrite(t)
  /\ UNCHANGED <<mode, rxVars, txFree, txDropped, txWasted>>

-----------------------------------------------------------------------------
Step(t) ==
  \/ UpRead(t) \/ PopHandle(t) \/ WaitRead(t) \/ PopSize(t) \/ PopStatus(t) \/ Finish(t)
  \/ PostUser(t) \/ PopTx(t) \/ WaitTx(t) \/ Post(t) \/ UpTx(t)

Next ==
  \/ HwStart \/ HwWord \/ HwSend \/ Open \/ Close
  \/ \E t \in Threads :
       \/ Step(t) \/ DownRead(t) \/ DownWrite(t) \/ Interrupted(t)
       \/ \E op \in Commands, b \in held \union {None} : Call(t, op, b)

Spec == Init /\ [][Next]_vars

(* The firmware tells all of a frame, threads run, and a semaphore goes to *)
(* the first who waits.                                                    *)
Fairness ==
  /\ WF_vars(HwWord)
  /\ \A t \in Threads : WF_vars(Step(t)) /\ SF_vars(DownRead(t) \/ DownWrite(t))

FairSpec == Spec /\ Fairness

-----------------------------------------------------------------------------
(* Properties                                                              *)

In(b, q) == {i \in DOMAIN q : q[i] = b}

(* In how many places a buffer is. *)
Places(b) ==
  LET one(p) == IF p THEN 1 ELSE 0 IN
    Cardinality(In(b, rxFree)) + one(filling = [buf |-> b, next |-> "handle"])
      + Cardinality({i \in DOMAIN rxPend : rxPend[i].kind = "handle" /\ rxPend[i].buf = b})
      + Cardinality({t \in Threads : call[t].at \in {"size", "status", "found"} /\ b \in Taken(t)})
      + one(b \in userHas) + one(b \in dropped)

TxPlaces(b) ==
  LET one(p) == IF p THEN 1 ELSE 0 IN
    Cardinality(In(b, txFree)) + Cardinality({i \in DOMAIN txPost["A"] : txPost["A"][i].buf = b})
      + Cardinality({t \in Threads : call[t].at = "postA" /\ call[t].buf = b})
      + one(b \in txDropped)

(* No buffer is in two places, and none is lost, nor the semaphore of the  *)
(* readers, unless a wait of a blocking call has thrown a word away or the *)
(* firmware spoiled one.  So the two threads never take each other's       *)
(* words, and every way out of a call on good words gives back what it     *)
(* took.  A READ_COPY of a frame that does not fit ("small") does not: it  *)
(* keeps the buffer.                                                       *)
OnePlace ==
  /\ \A b \in Buffers : Places(b) = 1
  /\ \A b \in TxBuffers : TxPlaces(b) = 1
  /\ dropped # {} \/ readSem = Gone => wasted
  /\ txDropped # {} => txWasted

(* What the program reads in a buffer it was given stays as it is until it *)
(* posts it: the buffer is marked and the firmware does not have it.       *)
HeldIsStable ==
  \A b \in held : b \in userHas /\ In(b, rxFree) = {} /\ filling.buf # b

(* The firmware takes the handle, the size and the control of one write.   *)
WritesWhole ==
  \A i \in DOMAIN txPost["C"] :
    i \in DOMAIN txPost["A"] /\ txPost["A"][i] = txPost["B"][i] /\ txPost["B"][i] = txPost["C"][i]

(* On a file that does not block every call returns, unless a bad word has *)
(* made an earlier one return with the semaphore.                          *)
CallsEnd ==
  \A t \in Threads :
    mode = "nonblock" /\ call[t].at # "idle" ~> call[t].at = "idle" \/ readSem = Gone

===============================================================================
