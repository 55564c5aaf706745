------------------------------- MODULE TxRun --------------------------------
(***************************************************************************)
(* DaqBuffer::txRun, the transmit thread: it takes the posted events off   *)
(* the transmit request queue, assembles the message of each (TxMessage),  *)
(* sends it over TCP or hands its buffers to the RSSI firmware, and frees  *)
(* the event.                                                              *)
(*                                                                         *)
(* The frames of an event are nodes of singly linked lists, one node for   *)
(* each receive buffer.  A buffer that has been given back to the DMA may  *)
(* be received into again at once, and its node be put on another list by  *)
(* rxRun, while the transmit thread is still busy with the event; so the   *)
(* lists are kept here as their links.  rxRun itself is reduced to what it *)
(* does to these lists and descriptors: RxRun has the rest of it.          *)
(***************************************************************************)
EXTENDS Integers, Sequences, FiniteSets

SequencesX == INSTANCE SequencesExt

CONSTANTS
  Buffers,    (* the receive buffers and their nodes                       *)
  Events,     (* the event descriptors                                     *)
  NoEvent,    (* the null pointer, for an event                            *)
  Header,     (* a transmit buffer, as the place of the message's header   *)
  Global,     (* the global HeaderOrigin                                   *)
  NDests,     (* MAX_DEST                                                  *)
  Headers,    (* transmit buffers there are                                *)
  Depth,      (* LatencyList::Depth                                        *)
  Configs,    (* the <<_blowOffTxEth, _enableRssi>> that setConfig writes  *)
  Faults,     (* what may go wrong: "tcp", "rssi"                          *)
  Empties     (* the destinations an event may have no frames of           *)

ASSUME TxAssumption ==
  /\ IsFiniteSet(Buffers) /\ IsFiniteSet(Events)
  /\ NoEvent \notin Events /\ "latency" \notin Events
  /\ Header \notin Buffers /\ Global \notin Buffers \union {Header}
  /\ NDests \in Nat \ {0} /\ Headers \in Nat \ {0} /\ Depth \in Nat \ {0}
  /\ Configs \subseteq BOOLEAN \X BOOLEAN /\ Configs # {}
  /\ Empties \subseteq 1 .. NDests

VARIABLES
  links,        (* f, m_flnk of the nodes and lists; b, m_blnk of the lists*)
  dma,          (* receive buffers that are with the DMA                   *)
  wire,         (* receive buffers the RSSI firmware holds                 *)
  headers,      (* transmit buffers that are free                          *)
  wireHeaders,  (* transmit buffers the RSSI firmware holds                *)
  lost,         (* receive buffers that nobody will give back              *)
  lostHeaders,  (* transmit buffers that nobody will give back             *)
  pool,         (* the free event descriptors                              *)
  rxEvent,      (* the event rxRun is building                             *)
  txReqQueue,   (* the posted events                                       *)
  blowOffTxEth, (* _config._blowOffTxEth                                   *)
  enableRssi,   (* _config._enableRssi                                     *)
  pc,           (* where txRun is                                          *)
  event,        (* the event it holds                                      *)
  msg,          (* its message                                             *)
  path,         (* how it is sent: "tcp", "rssi", or not: "none"           *)
  sent,         (* whether all of it was sent                              *)
  place,        (* the piece being handed over, or the list being freed    *)
  node          (* the node being freed                                    *)

rxVars   == <<rxEvent>>
cfgVars  == <<blowOffTxEth, enableRssi>>
hwVars   == <<headers, wireHeaders, wire, lost, lostHeaders>>
txVars   == <<pc, event, msg, path, sent, place, node>>
vars     == <<links, dma, hwVars, pool, rxVars, txReqQueue, cfgVars, txVars>>

-----------------------------------------------------------------------------
(* The lists                                                               *)

Dests == 1 .. NDests

(* The list of a destination in an event, and its latency list. *)
ListOf(e, d) == <<e, d>>
Latency(d) == <<"latency", d>>

Lists == (Events \X Dests) \union ({"latency"} \X Dests)

ASSUME NodesAssumption == Buffers \cap Lists = {}

(* insert_tail, remove_head and init. *)
InsertTail(k, l, n) ==
  [f |-> [k.f EXCEPT ![n] = l, ![k.b[l]] = n], b |-> [k.b EXCEPT ![l] = n]]

RemoveHead(k, l) ==
  LET second == k.f[k.f[l]]
  IN  [f |-> [k.f EXCEPT ![l] = second],
       b |-> IF second = l THEN [k.b EXCEPT ![l] = l] ELSE k.b]

Emptied(k, ls) ==
  [f |-> [x \in DOMAIN k.f |-> IF x \in ls THEN x ELSE k.f[x]],
   b |-> [x \in DOMAIN k.b |-> IF x \in ls THEN x ELSE k.b[x]]]

(* The nodes from x to the end of its list, or as many as there are when   *)
(* the chain does not end.                                                 *)
From(k, x) ==
  LET N == Cardinality(Buffers)
      at[i \in 1 .. N + 1] ==
        IF i = 1 THEN x ELSE IF at[i - 1] \in Buffers THEN k.f[at[i - 1]] ELSE at[i - 1]
  IN  [i \in 1 .. Cardinality({j \in 1 .. N : at[j] \in Buffers}) |-> at[i]]

Scan(k, l) == From(k, k.f[l])

Init ==
  /\ links = [f |-> [x \in Buffers \union Lists |-> x], b |-> [l \in Lists |-> l]]
  /\ dma = Buffers
  /\ wire = {}
  /\ headers = Headers
  /\ wireHeaders = 0
  /\ lost = {}
  /\ lostHeaders = 0
  /\ pool = SequencesX!SetToSeq(Events)
  /\ rxEvent = NoEvent
  /\ txReqQueue = << >>
  /\ \E c \in Configs : blowOffTxEth = c[1] /\ enableRssi = c[2]
  /\ pc = "pop"
  /\ event = NoEvent
  /\ msg = << >>
  /\ path = "none"
  /\ sent = FALSE
  /\ place = 1
  /\ node = Latency(1)

-----------------------------------------------------------------------------
(* What rxRun does                                                         *)

(* A frame without an event, or of a destination that has all it gets,     *)
(* goes to the latency list, whose oldest frame makes room for it.         *)
FrameToLatency(n, d) ==
  LET l == Latency(d)
      k == InsertTail(links, l, n)
  IN  /\ n \in dma
      /\ IF Len(Scan(links, l)) < Depth
         THEN links' = k /\ dma' = dma \ {n}
         ELSE links' = RemoveHead(k, l) /\ dma' = (dma \ {n}) \union {k.f[l]}
      /\ UNCHANGED <<hwVars, pool, rxVars, txReqQueue, cfgVars, txVars>>

(* A frame is added to the event. *)
FrameToEvent(n, d) ==
  /\ n \in dma
  /\ rxEvent # NoEvent
  /\ links' = InsertTail(links, ListOf(rxEvent, d), n)
  /\ dma' = dma \ {n}
  /\ UNCHANGED <<hwVars, pool, rxVars, txReqQueue, cfgVars, txVars>>

(* seedAndDrain moves the frames of a latency list to the event. *)
Moved(k, from, to) ==
  LET frames == Scan(k, from)
      upTo[i \in 0 .. Len(frames)] ==
        IF i = 0 THEN k ELSE InsertTail(RemoveHead(upTo[i - 1], from), to, frames[i])
  IN  upTo[Len(frames)]

(* It does so for some destinations. *)
Seeded(k, e, from) ==
  LET upTo[d \in 0 .. NDests] ==
        IF d = 0 THEN k
        ELSE IF d \in from THEN Moved(upTo[d - 1], Latency(d), ListOf(e, d)) ELSE upTo[d - 1]
  IN  upTo[NDests]

(* Mutant: the lists of the descriptor are not prepared. *)
TakeTriggerStale(from) ==
  /\ rxEvent = NoEvent
  /\ pool # << >>
  /\ rxEvent' = Head(pool)
  /\ pool' = Tail(pool)
  /\ links' = Seeded(links, rxEvent', from)
  /\ UNCHANGED <<dma, hwVars, txReqQueue, cfgVars, txVars>>

(* A trigger: a descriptor is taken, its lists are prepared, and those of  *)
(* some destinations seeded with what is within the window.                *)
TakeTrigger(from) ==
  /\ rxEvent = NoEvent
  /\ pool # << >>
  /\ rxEvent' = Head(pool)
  /\ pool' = Tail(pool)
  /\ links' = Seeded(Emptied(links, {rxEvent'} \X Dests), rxEvent', from)
  /\ UNCHANGED <<dma, hwVars, txReqQueue, cfgVars, txVars>>

(* The event is complete and posted. *)
PostEvent ==
  /\ rxEvent # NoEvent
  /\ \A d \in Dests \ Empties : Scan(links, ListOf(rxEvent, d)) # << >>
  /\ txReqQueue' = Append(txReqQueue, rxEvent)
  /\ rxEvent' = NoEvent
  /\ UNCHANGED <<links, dma, hwVars, pool, cfgVars, txVars>>

(* setConfig, from the command thread. *)
SetConfig(c) ==
  /\ blowOffTxEth' = c[1]
  /\ enableRssi' = c[2]
  /\ UNCHANGED <<links, dma, hwVars, pool, rxVars, txReqQueue, txVars>>

(* The firmware has sent a buffer and gives it back. *)
Transmitted ==
  /\ \/ \E n \in wire : /\ wire' = wire \ {n}
                        /\ dma' = dma \union {n}
                        /\ UNCHANGED <<headers, wireHeaders>>
     \/ /\ wireHeaders > 0
        /\ wireHeaders' = wireHeaders - 1
        /\ headers' = headers + 1
        /\ UNCHANGED <<wire, dma>>
  /\ UNCHANGED <<links, lost, lostHeaders, pool, rxVars, txReqQueue, cfgVars, txVars>>

-----------------------------------------------------------------------------
(* The message.  Its pieces all have the length 1 here: the header, the    *)
(* local part of a stream record (with its ranges and its table of         *)
(* contents), the data of a frame and the trailer.  An address is the      *)
(* buffer it is in: what is written there follows what the buffer holds.   *)

Iov(base) == [base |-> base, len |-> 1]

Increase(iov, i) == [iov EXCEPT ![i].len = @ + 1]

(* The header is the first piece; the trailer's address starts out in the  *)
(* global HeaderOrigin, that of the first stream record in the buffer.     *)
HeaderOrigin ==
  [iov |-> <<Iov(Header)>>, written |-> << >>,
   stream |-> Header, next |-> Global, size |-> 1]

(* Mutant: the stream record is counted to the piece after the last. *)
AddTpcDataRecordNext(m, frames) ==
  LET iov == m.iov \o [i \in DOMAIN frames |-> Iov(frames[i])]
  IN  [iov |-> Increase(iov, Len(m.iov) + 1),
       written |-> Append(m.written, m.stream),
       stream |-> m.stream,
       next |-> frames[Len(frames)],
       size |-> m.size + 1 + Len(frames)]

(* The stream record of a contributor and its frames.  The record is       *)
(* counted to the piece before them; what comes next follows the last one. *)
AddTpcDataRecord(m, frames) ==
  LET iov == m.iov \o [i \in DOMAIN frames |-> Iov(frames[i])]
  IN  [iov |-> Increase(iov, Len(m.iov)),
       written |-> Append(m.written, m.stream),
       stream |-> m.stream,
       next |-> frames[Len(frames)],
       size |-> m.size + 1 + Len(frames)]

(* One turn of addContributors: after it the next stream record goes to    *)
(* the next address, also when the contributor was empty.                  *)
AddContributor(m, frames) ==
  LET added == IF frames = << >> THEN m ELSE AddTpcDataRecord(m, frames)
  IN  [added EXCEPT !.stream = added.next]

AddContributors(e) ==
  LET upTo[d \in 0 .. NDests] ==
        IF d = 0 THEN HeaderOrigin
        ELSE AddContributor(upTo[d - 1], Scan(links, ListOf(e, d)))
  IN  upTo[NDests]

(* Mutant: the length of the trailer is left out of the last piece. *)
MessageUnincreased(e) ==
  LET m == AddContributors(e)
  IN  [m EXCEPT !.written = Append(@, m.next), !.size = @ + 1]

(* The trailer is written at the next address and counted to the last      *)
(* piece.                                                                  *)
Message(e) ==
  LET m == AddContributors(e)
  IN  [m EXCEPT !.written = Append(@, m.next),
                !.iov = Increase(@, Len(@)),
                !.size = @ + 1]

-----------------------------------------------------------------------------
(* txRun                                                                   *)

TxPop ==
  /\ pc = "pop"
  /\ txReqQueue # << >>
  /\ event' = Head(txReqQueue)
  /\ txReqQueue' = Tail(txReqQueue)
  /\ pc' = "build"
  /\ UNCHANGED <<links, dma, hwVars, pool, rxVars, cfgVars, msg, path, sent, place, node>>

(* Freeing the event starts at the first node of its first list. *)
StartFree ==
  /\ pc' = "walk"
  /\ place' = 1
  /\ node' = links.f[ListOf(event, 1)]

(* Mutant: the transmit buffer is kept when the transmission is inhibited. *)
BlowOffKept ==
  /\ pc = "build"
  /\ blowOffTxEth
  /\ headers > 0
  /\ msg' = Message(event)
  /\ path' = "none"
  /\ StartFree
  /\ headers' = headers - 1
  /\ UNCHANGED <<links, dma, wireHeaders, wire, lost, lostHeaders, pool, rxVars, txReqQueue, cfgVars,
                 event, sent>>

(* The message is built and, the transmission being inhibited, dropped:    *)
(* the transmit buffer, waited for, is free again at once.                 *)
BlowOff ==
  /\ pc = "build"
  /\ blowOffTxEth
  /\ headers > 0
  /\ msg' = Message(event)
  /\ path' = "none"
  /\ StartFree
  /\ UNCHANGED <<links, dma, hwVars, pool, rxVars, txReqQueue, cfgVars, event, sent>>

(* The message is built in a transmit buffer, waited for; how it is sent   *)
(* is settled here, for _enableRssi may change at any time.                *)
Build ==
  /\ pc = "build"
  /\ ~ blowOffTxEth
  /\ headers > 0
  /\ headers' = headers - 1
  /\ path' = IF enableRssi THEN "rssi" ELSE "tcp"
  /\ msg' = Message(event)
  /\ sent' = TRUE
  /\ place' = 1
  /\ pc' = "send"
  /\ UNCHANGED <<links, dma, wireHeaders, wire, lost, lostHeaders, pool, rxVars, txReqQueue, cfgVars,
                 event, node>>

(* sendTcp, and the transmit buffer is freed. *)
SendTcp ==
  /\ pc = "send" /\ path = "tcp"
  /\ sent' \in {TRUE} \union {x \in {FALSE} : "tcp" \in Faults}
  /\ headers' = headers + 1
  /\ StartFree
  /\ UNCHANGED <<links, dma, wireHeaders, wire, lost, lostHeaders, pool, rxVars, txReqQueue, cfgVars,
                 event, msg, path>>

(* RssiIovec::send of a piece.  One that fails is not tried again, and     *)
(* nothing frees its buffer: RssiHdr::send goes on to the next one.        *)
HandOver ==
  /\ pc = "send" /\ path = "rssi"
  /\ LET base == msg.iov[place].base
     IN  \/ /\ base = Header
            /\ wireHeaders' = wireHeaders + 1
            /\ UNCHANGED <<wire, lost, lostHeaders, sent>>
         \/ /\ base # Header
            /\ wire' = wire \union {base}
            /\ UNCHANGED <<wireHeaders, lost, lostHeaders, sent>>
         \/ /\ "rssi" \in Faults
            /\ IF base = Header
               THEN lostHeaders' = lostHeaders + 1 /\ UNCHANGED lost
               ELSE lost' = lost \union {base} /\ UNCHANGED lostHeaders
            /\ sent' = FALSE
            /\ UNCHANGED <<wire, wireHeaders>>
  /\ IF place < Len(msg.iov)
     THEN place' = place + 1 /\ UNCHANGED pc
     ELSE pc' = "descriptor" /\ UNCHANGED place
  /\ UNCHANGED <<links, dma, headers, pool, rxVars, txReqQueue, cfgVars,
                 event, msg, path, node>>

(* Event::free (fd): the buffer of a node is given back ...                *)
FreeNode ==
  /\ pc = "walk"
  /\ node \in Buffers
  /\ dma' = dma \union {node}
  /\ pc' = "step"
  /\ UNCHANGED <<links, hwVars, pool, rxVars, txReqQueue, cfgVars,
                 event, msg, path, sent, place, node>>

(* ... and only then is its link read. *)
NextNode ==
  /\ pc = "step"
  /\ node' = links.f[node]
  /\ pc' = "walk"
  /\ UNCHANGED <<links, dma, hwVars, pool, rxVars, txReqQueue, cfgVars,
                 event, msg, path, sent, place>>

(* The end of a list of the event, which is prepared for the next one. *)
NextList ==
  /\ pc = "walk"
  /\ node = ListOf(event, place)
  /\ links' = Emptied(links, {node})
  /\ IF place < NDests
     THEN /\ place' = place + 1
          /\ node' = links.f[ListOf(event, place + 1)]
          /\ UNCHANGED pc
     ELSE pc' = "descriptor" /\ UNCHANGED <<place, node>>
  /\ UNCHANGED <<dma, hwVars, pool, rxVars, txReqQueue, cfgVars, event, msg, path, sent>>

(* The head of another list: what is read there is no buffer's index, and  *)
(* what happens from here on is undefined; the code exits when it notices. *)
GoneAstray ==
  /\ pc = "walk"
  /\ node \in Lists \ {ListOf(event, place)}
  /\ pc' = "exit"
  /\ UNCHANGED <<links, dma, hwVars, pool, rxVars, txReqQueue, cfgVars,
                 event, msg, path, sent, place, node>>

(* Mutant: sendRssi is taken to free the descriptor as well. *)
FreeDescriptorTcp ==
  /\ pc = "descriptor"
  /\ pool' = IF path = "rssi" THEN pool ELSE Append(pool, event)
  /\ pc' = IF path = "none" THEN "pop" ELSE "record"
  /\ event' = IF path = "none" THEN NoEvent ELSE event
  /\ UNCHANGED <<links, dma, hwVars, rxVars, txReqQueue, cfgVars,
                 msg, path, sent, place, node>>

(* Event::free (): the descriptor goes back to the pool.  When the message *)
(* was sent over RSSI its lists still hold the nodes.                      *)
FreeDescriptor ==
  /\ pc = "descriptor"
  /\ pool' = Append(pool, event)
  /\ pc' = IF path = "none" THEN "pop" ELSE "record"
  /\ event' = IF path = "none" THEN NoEvent ELSE event
  /\ UNCHANGED <<links, dma, hwVars, rxVars, txReqQueue, cfgVars,
                 msg, path, sent, place, node>>

(* The statistics: a TCP transmission that failed is the last one. *)
Record ==
  /\ pc = "record"
  /\ blowOffTxEth' = (blowOffTxEth \/ (~ sent /\ path = "tcp"))
  /\ pc' = "pop"
  /\ event' = NoEvent
  /\ UNCHANGED <<links, dma, hwVars, pool, rxVars, txReqQueue, enableRssi,
                 msg, path, sent, place, node>>

TxStep ==
  \/ TxPop \/ BlowOff \/ Build \/ SendTcp \/ HandOver
  \/ FreeNode \/ NextNode \/ NextList \/ GoneAstray
  \/ FreeDescriptor \/ Record

RxStep ==
  \/ \E n \in Buffers, d \in Dests : FrameToLatency(n, d) \/ FrameToEvent(n, d)
  \/ \E from \in SUBSET Dests : TakeTrigger(from)
  \/ PostEvent

Next == RxStep \/ TxStep \/ Transmitted \/ \E c \in Configs : SetConfig(c)

Spec == Init /\ [][Next]_vars

(* The transmit thread runs, and the firmware sends what it was given.     *)
(* Nothing is asked of rxRun, of the triggers or of the commands.          *)
FairSpec == Spec /\ WF_vars(TxStep) /\ WF_vars(Transmitted)

-----------------------------------------------------------------------------
(* Properties                                                              *)

TypeOK ==
  /\ links.f \in [Buffers \union Lists -> Buffers \union Lists]
  /\ links.b \in [Lists -> Buffers \union Lists]
  /\ dma \subseteq Buffers /\ wire \subseteq Buffers
  /\ lost \subseteq Buffers
  /\ headers \in 0 .. Headers /\ wireHeaders \in 0 .. Headers
  /\ lostHeaders \in 0 .. Headers
  /\ pool \in Seq(Events) /\ txReqQueue \in Seq(Events)
  /\ rxEvent \in Events \union {NoEvent} /\ event \in Events \union {NoEvent}
  /\ blowOffTxEth \in BOOLEAN /\ enableRssi \in BOOLEAN /\ sent \in BOOLEAN
  /\ pc \in {"pop", "build", "send", "walk", "step", "descriptor", "record", "exit"}
  /\ path \in {"none", "tcp", "rssi"}
  /\ place \in 1 .. 1 + NDests + Cardinality(Buffers)
  /\ node \in Buffers \union Lists

Times(x, s) == Cardinality({i \in DOMAIN s : s[i] = x})
One(b) == IF b THEN 1 ELSE 0

(* How often a buffer is met: with the DMA, with the RSSI firmware, lost,  *)
(* on the lists that are in use, and in what txRun has still to hand over. *)
Holdings(n) ==
  LET busy == {Latency(d) : d \in Dests}
              \union ({rxEvent} \X Dests) \union ({e \in Events : Times(e, txReqQueue) > 0} \X Dests)
              \union (IF pc = "build" THEN {event} \X Dests ELSE {})
      left == IF pc = "send" THEN {i \in place .. Len(msg.iov) : msg.iov[i].base = n} ELSE {}
  IN  One(n \in dma) + One(n \in wire) + One(n \in lost) + Cardinality(left)
      + Cardinality({l \in busy \cap Lists : Times(n, Scan(links, l)) > 0})

(* Every receive buffer is in one place: the buffers of an event that is   *)
(* sent over RSSI are on its lists when they come back to the DMA and are  *)
(* received into again, its descriptor is back in the pool before that,    *)
(* and nothing may come of it (Event::free () leaves the lists alone,      *)
(* seedAndDrain prepares them).  A piece that could not be handed over is  *)
(* lost, and only such a piece is.                                         *)
BuffersOwnedOnce == \A n \in Buffers : Holdings(n) = 1

(* Every descriptor is in one place: free, being filled, posted or being   *)
(* sent.  TCP, RSSI and inhibited events free it on three ways.            *)
DescriptorsOwnedOnce ==
  \A e \in Events : Times(e, pool) + Times(e, txReqQueue) + One(rxEvent = e)
                    + One(event = e /\ pc # "record") = 1

(* Every transmit buffer is free, with the firmware, lost by a hand-over   *)
(* that failed, or in txRun's hands: RSSI's transfer frees it, TCP and an  *)
(* inhibited event do themselves.                                          *)
HeadersOwned ==
  headers + wireHeaders + lostHeaders
  + One(pc = "send" /\ (path = "tcp" \/ place = 1)) = Headers

(* What sendmsg is asked to send. *)
Total(iov) ==
  LET upTo[i \in 0 .. Len(iov)] == IF i = 0 THEN 0 ELSE upTo[i - 1] + iov[i].len
  IN  upTo[Len(iov)]

(* The pieces add up to the size that was computed alongside: a TCP event  *)
(* of which sendmsg took another number of bytes than txSize disables the  *)
(* transmission.                                                           *)
SizeAgrees == pc \in {"send", "walk"} => Total(msg.iov) = msg.size

(* Each piece of a message is as long as what was written to its buffer,   *)
(* and the trailer is in the last piece, also when a contributor is empty: *)
(* the lengths and the addresses of the stream records and of the trailer  *)
(* are kept in step by two pieces of code.  An event with no frame at all  *)
(* is another matter: its trailer goes to the global HeaderOrigin, which   *)
(* is not sent.                                                            *)
PiecesFilled ==
  /\ pc \in {"send", "walk"} =>
       \A i \in DOMAIN msg.iov : msg.iov[i].len = 1 + Times(msg.iov[i].base, msg.written)
  /\ pc = "send" => msg.written[Len(msg.written)] = msg.iov[Len(msg.iov)].base

(* Event::free (fd) frees the nodes associated with the event: the walk    *)
(* is at one of them or at the end of its list.                            *)
FreesItsNodes ==
  pc = "walk" => \/ node = ListOf(event, place)
                 \/ \E i \in DOMAIN msg.iov : msg.iov[i].base = node

(* A posted event gets its descriptor back to the pool, however long the   *)
(* firmware holds on to buffers (rxRun exits when it finds the pool        *)
(* empty); only transmit buffers that were lost can stop txRun for good.   *)
PostedIsFreed ==
  \A e \in Events : Times(e, txReqQueue) > 0
                      ~> Times(e, pool) > 0 \/ lostHeaders = Headers
=============================================================================
