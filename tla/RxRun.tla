------------------------------- MODULE RxRun --------------------------------
(***************************************************************************)
(* DaqBuffer::rxRun, the event builder: the thread that reads the data     *)
(* frames of the front end and the timing messages of the trigger from     *)
(* their DMA channels, keeps the latest frames of every destination on a   *)
(* latency list, and on a trigger gathers the frames of the window around  *)
(* it into an event, which it posts to the transmit thread.                *)
(*                                                                         *)
(* Around it stand the two DMA channels, the thread that writes the        *)
(* configuration, one field after the other and with no lock, and the      *)
(* transmit thread, seen here as what takes a posted event and later gives *)
(* back its frames and its descriptor.                                     *)
(*                                                                         *)
(* A frame is named by its destination and its place in the stream; frame  *)
(* n spans FrameTicks clock ticks.  A frame that is in use holds one DMA   *)
(* buffer.  An iteration of rxRun is a step of select, a step for the      *)
(* timing message and a step for the data frame, as the descriptors that   *)
(* select found ready require.                                             *)
(***************************************************************************)
EXTENDS Integers, Sequences, FiniteSets, SingleList

CONSTANTS
  Dests,        (* the destinations (contributors) of the data channel     *)
  Stray,        (* the destination of a loopback frame                     *)
  Unknown,      (* a destination that is none of these                     *)
  NoEvent,      (* the null pointer, for an event                          *)
  FrameTicks,   (* clock ticks a frame spans, TimingClockTicks::PER_FRAME  *)
  Depth,        (* LatencyList::Depth                                      *)
  Buffers,      (* _rxCount, the receive buffers of the data channel       *)
  Events,       (* event descriptors the pool hands out, _bCount - 1       *)
  TxSlots,      (* what the transmit request queue holds, _rxCount - 1     *)
  Configs,      (* configurations that setConfig writes                    *)
  Modes,        (* run modes that setRunMode writes                        *)
  FirstConfigs, (* the configurations with which the thread may start      *)
  Skew,         (* bound: frames one destination may be ahead of another   *)
  Frames,       (* bound: frames that each destination sends               *)
  Strays,       (* bound: frames of another destination                    *)
  TriggerGap,   (* ticks from one trigger to the next, at least            *)
  TriggerLag,   (* ticks a trigger may be older than the newest frame      *)
  TimingSlots,  (* bound: timing messages waiting in their channel         *)
  Faults        (* what may happen to a frame: "lost", "error"             *)

ASSUME RxAssumption ==
  /\ FrameTicks \in Nat \ {0}
  /\ Depth \in Nat \ {0}
  /\ Events \in Nat \ {0}
  /\ TxSlots \in Nat \ {0}
  /\ Frames \in Nat /\ TriggerGap \in Nat
  /\ Stray \notin Dests
  /\ Unknown \notin Dests \union {Stray}
  /\ IsFiniteSet(Dests)
  /\ Dests # {}

RunModes == {"IDLE", "EXTERNAL", "SOFTWARE"}

(* What setConfig writes, in clock ticks, and with it the run mode.        *)
Settings ==
  [blowOff : BOOLEAN, pre : Nat, post : Nat, period : Nat \ {0}]

Config ==
  [blowOff : BOOLEAN, pre : Nat, post : Nat, period : Nat \ {0},
   runMode : RunModes]

(* The period is not zero: setConfig does not look, and check divides.     *)
ASSUME ConfigAssumption ==
  FirstConfigs \subseteq Config /\ Configs \subseteq Settings /\ Modes \subseteq RunModes

VARIABLES
  sent,         (* frames each destination has sent                        *)
  dataQ,        (* frames received by the data channel and not read        *)
  timingQ,      (* messages received by the timing channel and not read    *)
  lastStamp,    (* time stamp of the last timing message                   *)
  config,       (* _config                                                 *)
  target,       (* what setConfig is writing to _config                    *)
  todo,         (* how many fields of it are still to be written           *)
  pc,           (* where rxRun is                                          *)
  fds,          (* the descriptors in its fd_set                           *)
  runMode,      (* its copy of the run mode                                *)
  blowOff,      (* its copy of _blowOffDmaData                             *)
  trgActive,    (* trgActive                                               *)
  event,        (* event                                                   *)
  latency,      (* latency[dest], the list                                 *)
  remaining,    (* latency[dest].m_remaining                               *)
  disTrgCnt,    (* _counters._disTrgCnt                                    *)
  pool,         (* event descriptors in the pool                           *)
  txReqQueue,   (* the posted events                                       *)
  sending,      (* the event the transmit thread holds                     *)
  held,         (* frames whose buffer is not with the DMA                 *)
  exited        (* whether rxRun called exit                               *)

envVars == <<sent, dataQ, timingQ, lastStamp>>
cfgVars == <<config, target, todo>>
rxVars  == <<pc, fds, runMode, blowOff, trgActive, event, latency, remaining,
             disTrgCnt, exited>>
txVars  == <<pool, txReqQueue, sending, held>>
vars    == <<envVars, cfgVars, rxVars, txVars>>

-----------------------------------------------------------------------------
(* Frames and windows                                                      *)

Sources == Dests \union {Stray, Unknown}

Frame == [dest : Sources, seq : Nat, good : BOOLEAN]

(* _ts_range: the end of a frame is the beginning of the next. *)
Beg(f) == f.seq * FrameTicks
End(f) == (f.seq + 1) * FrameTicks

Event ==
  [trg : Int, beg : Int, end : Int, ctbs : SUBSET Dests, nctbs : Nat,
   list : [Dests -> Seq(Frame)]]

ASSUME NoEventAssumption == NoEvent \notin Event

ToSet(s) == {s[i] : i \in DOMAIN s}

Max2(m, n) == IF m >= n THEN m ELSE n

(* Event::init, prepare and setWindow, and m_trigger. *)
NewEvent(trg, pre, post) ==
  [trg |-> trg, beg |-> trg - pre, end |-> trg + post,
   ctbs |-> Dests, nctbs |-> 0, list |-> [d \in Dests |-> << >>]]

(* Mutant: the end of the window is not looked at. *)
InsideOpen(e, f) == End(f) >= e.beg

(* Where evaluate finds a frame of a destination that is still pending. *)
Early(e, f)  == End(f) < e.beg
Inside(e, f) == End(f) >= e.beg /\ Beg(f) <= e.end
Late(e, f)   == End(f) >= e.beg /\ Beg(f) > e.end

(* Mutant: a contributor is complete one tick too early. *)
CompletesSoon(e, f) == Late(e, f) \/ (Inside(e, f) /\ End(f) >= e.end - 1)

(* A frame after which its destination has no more to add to the event. *)
Completes(e, f) == Late(e, f) \/ (Inside(e, f) /\ End(f) >= e.end)

Complete(e) == e.ctbs = {}

-----------------------------------------------------------------------------
(* Event::evaluate: the event after a frame, and what becomes of the frame *)

Pending(e, f) == f.dest \in e.ctbs

(* Mutant: insert_head for insert_tail. *)
AddedAtHead(e, f) == [e EXCEPT !.list[f.dest] = <<f>> \o @]

Added(e, f) == [e EXCEPT !.list[f.dest] = Append(@, f)]

(* Mutant: the count is forgotten. *)
ClosedUncounted(e, d) == [e EXCEPT !.ctbs = @ \ {d}]

Closed(e, d) == [e EXCEPT !.ctbs = @ \ {d}, !.nctbs = @ + 1]

Evaluated(e, f) ==
  LET e2 == IF Inside(e, f) THEN Added(e, f) ELSE e
  IN  IF ~Pending(e, f) THEN e
      ELSE IF Completes(e, f) THEN Closed(e2, f.dest) ELSE e2

ToFree(e, f) == Pending(e, f) /\ Early(e, f)

ToLatency(e, f) == ~Pending(e, f) \/ Late(e, f)

-----------------------------------------------------------------------------
(* LatencyList                                                             *)

(* Mutant: the frame that makes room is not returned. *)
ReplacedUnfreed(l, rem, f) ==
  LET l2 == InsertTail(l, f)
  IN  IF rem <= 0
      THEN [list |-> RemoveHead(l2), rem |-> rem, free |-> {}]
      ELSE [list |-> l2, rem |-> rem - 1, free |-> {}]

(* replace: the list, the spots left and the frames freed once f is on it. *)
Replaced(l, rem, f) ==
  LET l2 == InsertTail(l, f)
  IN  IF rem <= 0
      THEN [list |-> RemoveHead(l2), rem |-> rem, free |-> {Head(l2.nodes)}]
      ELSE [list |-> l2, rem |-> rem - 1, free |-> {}]

(* Mutant: the frames taken before the scan ended are not counted back. *)
SpotsLeftKept(rem, n, done) == IF ~done THEN Depth ELSE rem

(* The spots left on a list from which n frames were taken; a list that    *)
(* was scanned to its end has its spots counted afresh.                    *)
SpotsLeft(rem, n, done) == IF ~done THEN Depth ELSE rem + n

(* The list from which n frames were taken, and if back is true one more,  *)
(* which went back to the head.                                            *)
Rest(l, n) ==
  [nodes |-> SubSeq(l.nodes, n + 1, Len(l.nodes)),
   loose |-> l.loose /\ n < Len(l.nodes)]

(* Mutant: it went back to the tail. *)
LeftBackAtTail(l, n, back) ==
  IF back THEN InsertTail(Rest(l, n + 1), l.nodes[n + 1]) ELSE Rest(l, n)

Left(l, n, back) ==
  IF back THEN InsertHead(Rest(l, n + 1), l.nodes[n + 1]) ELSE Rest(l, n)

(* seedAndDrain, for one destination: what it makes of the list l with rem *)
(* spots left, the frames it adds to the event e and those it returns to   *)
(* the DMA, and whether the destination is done.  The list is in time      *)
(* order: first come the frames that are early, then those inside that     *)
(* leave the destination pending, and the scan ends at the next one.       *)
Seeded(e, l, rem) ==
  LET early == Cardinality({i \in DOMAIN l.nodes : Early(e, l.nodes[i])})
      open  == Cardinality({i \in DOMAIN l.nodes : ~Completes(e, l.nodes[i])})
      done  == open < Len(l.nodes)
      back  == done /\ Late(e, l.nodes[open + 1])
      n     == IF done /\ ~back THEN open + 1 ELSE open
  IN  [list |-> Left(l, n, back),
       rem  |-> SpotsLeft(rem, n, done),
       add  |-> SubSeq(l.nodes, early + 1, n),
       free |-> {l.nodes[i] : i \in 1 .. early},
       done |-> done]

(* seedAndDrain: the new event e takes the frames of its window from the   *)
(* latency lists.                                                          *)
Seed(e) ==
  LET s(d) == Seeded(e, latency[d], remaining[d])
      done == {d \in Dests : s(d).done}
  IN  [event     |-> [e EXCEPT !.ctbs = Dests \ done,
                               !.nctbs = Cardinality(done),
                               !.list = [d \in Dests |-> s(d).add]],
       latency   |-> [d \in Dests |-> s(d).list],
       remaining |-> [d \in Dests |-> s(d).rem],
       free      |-> UNION {s(d).free : d \in Dests}]

-----------------------------------------------------------------------------
(* Mutant: a multiple at the very beginning counts too. *)
SoftTriggersTwice(f, period) ==
  Beg(f) % period = 0 \/ End(f) % period < Beg(f) % period

(* SoftTrigger::check: whether a multiple of the period lies in the frame. *)
SoftTriggers(f, period) == End(f) % period < Beg(f) % period

SoftTime(f, period) == End(f) - (End(f) % period)

-----------------------------------------------------------------------------

Init ==
  /\ sent = [d \in Sources |-> 0]
  /\ dataQ = << >>
  /\ timingQ = << >>
  /\ lastStamp = 0
  /\ config \in FirstConfigs
  /\ target = [blowOff |-> FALSE, pre |-> 0, post |-> 0, period |-> 1]
  /\ todo = 0
  /\ pc = "select"
  /\ fds = {"timing"}
  /\ runMode = config.runMode
  /\ blowOff = config.blowOff
  /\ trgActive = FALSE
  /\ event = NoEvent
  /\ latency = [d \in Dests |-> EmptyList]
  /\ remaining = [d \in Dests |-> Depth]
  /\ disTrgCnt = 0
  /\ pool = Events
  /\ txReqQueue = << >>
  /\ sending = NoEvent
  /\ held = {}
  /\ exited = FALSE

-----------------------------------------------------------------------------
(* The DMA channels                                                        *)

(* The next frame of a destination comes into a free buffer; it may carry  *)
(* the end-of-frame error flag, or a size that does not match its trailer. *)
FrameArrives(d) ==
  \E ok \in {TRUE} \union (IF "error" \in Faults THEN {FALSE} ELSE {}) :
    LET f == [dest |-> d, seq |-> sent[d], good |-> ok]
    IN  /\ sent[d] < IF d \in Dests THEN Frames ELSE Strays
        /\ d \in Dests => \A d2 \in Dests : sent[d] < sent[d2] + Skew
        /\ Cardinality(held) < Buffers
        /\ dataQ' = Append(dataQ, f)
        /\ held' = held \union {f}
        /\ sent' = [sent EXCEPT ![d] = @ + 1]
        /\ UNCHANGED <<timingQ, lastStamp, cfgVars, rxVars, pool, txReqQueue, sending>>

(* A frame that never gets here. *)
FrameLost(d) ==
  /\ "lost" \in Faults
  /\ sent[d] < Frames
  /\ \A d2 \in Dests : sent[d] < sent[d2] + Skew
  /\ sent' = [sent EXCEPT ![d] = @ + 1]
  /\ UNCHANGED <<dataQ, timingQ, lastStamp, cfgVars, rxVars, txVars>>

(* A timing message, of a trigger or of another command.  The timing and   *)
(* the data stream are not synchronous: the frames of the trigger's window *)
(* may be long here, or long from being here.                              *)
TimingArrives(trigger) ==
  /\ Len(timingQ) < TimingSlots
  /\ \E ts \in lastStamp + TriggerGap .. Frames * FrameTicks :
       /\ \A d \in Dests : ts + TriggerLag >= sent[d] * FrameTicks
       /\ timingQ' = Append(timingQ, [stamp |-> ts, trigger |-> trigger])
       /\ lastStamp' = ts
  /\ UNCHANGED <<sent, dataQ, cfgVars, rxVars, txVars>>

-----------------------------------------------------------------------------
(* The configuration thread                                                *)

(* setConfig, called ... *)
SetConfig(c) ==
  /\ todo = 0
  /\ target' = c
  /\ todo' = 4
  /\ UNCHANGED <<envVars, config, rxVars, txVars>>

(* ... and each of its assignments. *)
WriteField ==
  /\ \/ todo = 4 /\ config' = [config EXCEPT !.blowOff = target.blowOff]
     \/ todo = 3 /\ config' = [config EXCEPT !.pre = target.pre]
     \/ todo = 2 /\ config' = [config EXCEPT !.post = target.post]
     \/ todo = 1 /\ config' = [config EXCEPT !.period = target.period]
  /\ todo' = todo - 1
  /\ UNCHANGED <<envVars, target, rxVars, txVars>>

SetRunMode(mode) ==
  /\ todo = 0
  /\ config.runMode # mode
  /\ config' = [config EXCEPT !.runMode = mode]
  /\ UNCHANGED <<envVars, target, todo, rxVars, txVars>>

-----------------------------------------------------------------------------
(* The transmit thread                                                     *)

TxTake ==
  /\ sending = NoEvent
  /\ txReqQueue # << >>
  /\ sending' = Head(txReqQueue)
  /\ txReqQueue' = Tail(txReqQueue)
  /\ UNCHANGED <<envVars, cfgVars, rxVars, pool, held>>

EventFrames(e) == UNION {ToSet(e.list[d]) : d \in Dests}

(* Mutant: the descriptor does not get back to the pool. *)
TxReleaseKept ==
  /\ sending # NoEvent
  /\ held' = held \ EventFrames(sending)
  /\ sending' = NoEvent
  /\ UNCHANGED <<envVars, cfgVars, rxVars, txReqQueue, pool>>

(* The event has been sent, or not: its frames go back to the DMA and its  *)
(* descriptor to the pool.                                                 *)
TxRelease ==
  /\ sending # NoEvent
  /\ held' = held \ EventFrames(sending)
  /\ pool' = pool + 1
  /\ sending' = NoEvent
  /\ UNCHANGED <<envVars, cfgVars, rxVars, txReqQueue>>

-----------------------------------------------------------------------------
(* rxRun                                                                   *)

(* Mutant: the data channel is not enabled on every pass. *)
SelectOnce ==
  LET ready == {c \in fds : \/ c = "timing" /\ timingQ # << >>
                            \/ c = "data" /\ dataQ # << >>}
  IN  /\ pc = "select" /\ ~exited
      /\ ready # {}
      /\ fds' = ready
      /\ pc' = IF "timing" \in ready THEN "timing" ELSE "data"
      /\ IF event = NoEvent
         THEN runMode' = config.runMode /\ blowOff' = config.blowOff
         ELSE UNCHANGED <<runMode, blowOff>>
      /\ UNCHANGED <<envVars, cfgVars, txVars, trgActive, event, latency,
                     remaining, disTrgCnt, exited>>

(* select: wait for a descriptor, and while no event is in progress take   *)
(* the run mode of the configuration.                                      *)
Select ==
  LET armed == fds \union {"data"}
      ready == {c \in armed : \/ c = "timing" /\ timingQ # << >>
                              \/ c = "data" /\ dataQ # << >>}
  IN  /\ pc = "select" /\ ~exited
      /\ ready # {}
      /\ fds' = ready
      /\ pc' = IF "timing" \in ready THEN "timing" ELSE "data"
      /\ IF event = NoEvent
         THEN runMode' = config.runMode /\ blowOff' = config.blowOff
         ELSE UNCHANGED <<runMode, blowOff>>
      /\ UNCHANGED <<envVars, cfgVars, txVars, trgActive, event, latency,
                     remaining, disTrgCnt, exited>>

(* evaluate and postEventAndReset check the count of the contributors that *)
(* are complete, and end the program when it is wrong.                     *)
Miscounted(e) ==
  \/ e.nctbs > Cardinality(Dests)
  \/ Complete(e) /\ e.nctbs # Cardinality(Dests \ e.ctbs)

(* postEventAndReset: the event goes to the transmit thread; the result of *)
(* the push is not looked at.                                              *)
Post(e) ==
  LET posted == [e EXCEPT !.ctbs = Dests \ @]
  IN  /\ txReqQueue' = IF Len(txReqQueue) < TxSlots
                       THEN Append(txReqQueue, posted) ELSE txReqQueue
      /\ event' = NoEvent
      /\ trgActive' = FALSE

(* What becomes of the event in progress, e, once a frame or the latency   *)
(* lists have been looked at; enabled is what the timing channel is set to *)
(* when e is not posted.                                                   *)
Settle(e, enabled) ==
  /\ exited' = Miscounted(e)
  /\ IF Complete(e)
     THEN /\ Post(e)
          /\ fds' = fds \union {"timing"}
     ELSE /\ event' = e
          /\ trgActive' = TRUE
          /\ fds' = enabled
          /\ UNCHANGED txReqQueue

(* allocate found no event descriptor: the program ends. *)
NoDescriptor ==
  /\ pool = 0
  /\ exited' = TRUE
  /\ UNCHANGED <<fds, trgActive, event, latency, remaining, pool, txReqQueue, held>>

(* readTimingMsg *)
IsTrigger(m) == ~blowOff /\ runMode = "EXTERNAL" /\ m.trigger

AfterTiming == pc' = IF "data" \in fds THEN "data" ELSE "select"

(* The message is not for rxRun, or an event is in progress. *)
DropTiming ==
  LET m == Head(timingQ)
  IN  /\ pc = "timing" /\ ~exited
      /\ ~IsTrigger(m) \/ trgActive
      /\ disTrgCnt' = IF IsTrigger(m) THEN disTrgCnt + 1 ELSE disTrgCnt
      /\ timingQ' = Tail(timingQ)
      /\ AfterTiming
      /\ UNCHANGED <<sent, dataQ, lastStamp, cfgVars, txVars, fds, runMode,
                     blowOff, trgActive, event, latency, remaining, exited>>

(* What rxRun may find in _pretrigger once it has looked at the period,    *)
(* and in _posttrigger once it has looked at _pretrigger: setConfig may    *)
(* have gone on in between.                                                *)
Pres == {config.pre} \union (IF todo >= 3 THEN {target.pre} ELSE {})
Posts == {config.post} \union (IF todo >= 2 THEN {target.post} ELSE {})

(* A trigger starts an event. *)
TakeTriggerWith(post) ==
  LET m == Head(timingQ)
  IN  /\ pc = "timing" /\ ~exited
      /\ IsTrigger(m) /\ ~trgActive
      /\ timingQ' = Tail(timingQ)
      /\ AfterTiming
      /\ \/ NoDescriptor
         \/ /\ pool > 0
            /\ pool' = pool - 1
            /\ \E s \in {Seed(NewEvent(m.stamp, config.pre, post))} :
                 /\ latency' = s.latency
                 /\ remaining' = s.remaining
                 /\ held' = held \ s.free
                 /\ Settle(s.event, fds \ {"timing"})
      /\ UNCHANGED <<sent, dataQ, lastStamp, cfgVars, runMode, blowOff,
                     disTrgCnt, sending>>

TakeTrigger == \E post \in Posts : TakeTriggerWith(post)

(* A loopback frame is returned, and the loop started over before the      *)
(* timing channel is enabled again.                                        *)
ReturnStray ==
  LET f == Head(dataQ)
  IN  /\ pc = "data" /\ ~exited
      /\ f.dest = Stray
      /\ dataQ' = Tail(dataQ)
      /\ held' = held \ {f}
      /\ pc' = "select"
      /\ UNCHANGED <<sent, timingQ, lastStamp, cfgVars, fds, runMode, blowOff,
                     trgActive, event, latency, remaining, disTrgCnt, exited,
                     pool, txReqQueue, sending>>

(* Mutant: it enables the timing channel always. *)
RearmedAlways == fds \union {"timing"}

(* Any other frame enables the timing channel, unless an event is active.  *)
Rearmed == IF trgActive THEN fds ELSE fds \union {"timing"}

(* A frame of an unknown destination or in error, or any frame when the    *)
(* data is to be dumped, is returned.                                      *)
Unwanted(f) == f.dest \notin Dests \/ blowOff \/ ~f.good

ReturnFrame ==
  LET f == Head(dataQ)
  IN  /\ pc = "data" /\ ~exited
      /\ f.dest # Stray /\ Unwanted(f)
      /\ dataQ' = Tail(dataQ)
      /\ held' = held \ {f}
      /\ fds' = Rearmed
      /\ pc' = "select"
      /\ UNCHANGED <<sent, timingQ, lastStamp, cfgVars, runMode, blowOff,
                     trgActive, event, latency, remaining, disTrgCnt, exited,
                     pool, txReqQueue, sending>>

(* A frame is put on a latency list lat[f.dest]; gone are frames that were *)
(* returned before.                                                        *)
PutOnLatency(f, lat, rem, gone) ==
  LET r == Replaced(lat[f.dest], rem[f.dest], f)
  IN  /\ latency' = [lat EXCEPT ![f.dest] = r.list]
      /\ remaining' = [rem EXCEPT ![f.dest] = r.rem]
      /\ held' = held \ (gone \union r.free)

(* The active event e is offered a frame. *)
Offer(e, f, lat, rem, gone) ==
  /\ Settle(Evaluated(e, f), Rearmed)
  /\ IF ToLatency(e, f) THEN PutOnLatency(f, lat, rem, gone)
     ELSE /\ latency' = lat
          /\ remaining' = rem
          /\ held' = held \ (gone \union (IF ToFree(e, f) THEN {f} ELSE {}))

(* Whether the frame starts an event of its own. *)
StartsEvent(f) ==
  /\ runMode = "SOFTWARE"
  /\ ~trgActive
  /\ SoftTriggers(f, config.period)

Accept(f) ==
  /\ pc = "data" /\ ~exited
  /\ f.dest \in Dests /\ ~Unwanted(f)
  /\ dataQ' = Tail(dataQ)
  /\ pc' = "select"
  /\ UNCHANGED <<sent, timingQ, lastStamp, cfgVars, sending>>

(* Without an event, the frame goes to its latency list. *)
KeepFrame ==
  LET f == Head(dataQ)
  IN  /\ Accept(f)
      /\ ~trgActive /\ ~StartsEvent(f)
      /\ PutOnLatency(f, latency, remaining, {})
      /\ fds' = Rearmed
      /\ UNCHANGED <<runMode, blowOff, trgActive, event, disTrgCnt, exited,
                     pool, txReqQueue>>

(* With one, it is offered to it. *)
AddFrame ==
  LET f == Head(dataQ)
  IN  /\ Accept(f)
      /\ trgActive
      /\ Offer(event, f, latency, remaining, {})
      /\ UNCHANGED <<runMode, blowOff, disTrgCnt, pool>>

(* A software trigger: the event is seeded from the latency lists, and     *)
(* unless that completes it the frame is offered to it.  (When it does the *)
(* loop is started over, and the frame is put nowhere.)                    *)
SoftTriggerWith(pre, post) ==
  LET f == Head(dataQ)
  IN  /\ Accept(f)
      /\ StartsEvent(f)
      /\ \/ NoDescriptor
         \/ /\ pool > 0
            /\ pool' = pool - 1
            /\ \E s \in {Seed(NewEvent(SoftTime(f, config.period), pre, post))} :
                 IF Complete(s.event)
                 THEN /\ Settle(s.event, Rearmed)
                      /\ latency' = s.latency
                      /\ remaining' = s.remaining
                      /\ held' = held \ s.free
                 ELSE Offer(s.event, f, s.latency, s.remaining, s.free)
      /\ UNCHANGED <<runMode, blowOff, disTrgCnt>>

SoftTrigger == \E pre \in Pres, post \in Posts : SoftTriggerWith(pre, post)

Environment ==
  \/ \E d \in Sources : FrameArrives(d)
  \/ \E d \in Dests : FrameLost(d)
  \/ \E trigger \in BOOLEAN : TimingArrives(trigger)
  \/ \E c \in Configs : SetConfig(c)
  \/ \E mode \in Modes : SetRunMode(mode)
  \/ WriteField

Receiver ==
  \/ Select \/ DropTiming \/ TakeTrigger
  \/ ReturnStray \/ ReturnFrame \/ KeepFrame \/ AddFrame \/ SoftTrigger

Transmitter == TxTake \/ TxRelease

Next == Environment \/ Receiver \/ Transmitter

Spec == Init /\ [][Next]_vars

-----------------------------------------------------------------------------
(* Properties                                                              *)

TypeOK ==
  /\ sent \in [Sources -> Nat]
  /\ dataQ \in Seq(Frame)
  /\ timingQ \in Seq([stamp : Nat, trigger : BOOLEAN])
  /\ lastStamp \in Nat
  /\ config \in Config
  /\ target \in Settings
  /\ todo \in 0 .. 4
  /\ pc \in {"select", "timing", "data"}
  /\ fds \subseteq {"timing", "data"}
  /\ runMode \in RunModes
  /\ blowOff \in BOOLEAN
  /\ trgActive \in BOOLEAN
  /\ event \in Event \union {NoEvent}
  /\ latency \in [Dests -> [nodes : Seq(Frame), loose : BOOLEAN]]
  /\ remaining \in [Dests -> 0 .. Depth]
  /\ disTrgCnt \in Nat
  /\ pool \in 0 .. Events
  /\ txReqQueue \in Seq(Event)
  /\ sending \in Event \union {NoEvent}
  /\ held \subseteq Frame
  /\ exited \in BOOLEAN

(* trgActive says exactly that an event is in progress. *)
ActiveMatchesEvent == trgActive <=> event # NoEvent

(* No trigger is thrown away because an event is in progress: the timing   *)
(* channel is not read then, except in a run mode that ignores it.         *)
NeverDiscards == disTrgCnt = 0

(* The count of the contributors that are complete agrees with the mask of *)
(* those that are not, and an event all of whose contributors are complete *)
(* is not kept: the checks of postEventAndReset and evaluate, which end    *)
(* the program, cannot fail.                                               *)
CountsAgree ==
  event # NoEvent =>
    event.ctbs # {} /\ event.nctbs = Cardinality(Dests \ event.ctbs)

(* The events of which frames are still held, oldest first. *)
Ev(e) == IF e = NoEvent THEN << >> ELSE <<e>>
Posted == Ev(sending) \o txReqQueue
AllEvents == Posted \o Ev(event)

(* The places at which a frame is: in the data channel, on a latency list, *)
(* in an event.                                                            *)
In(s, f) == {k \in DOMAIN s : s[k] = f}

Places(f) ==
  {<<k>> : k \in In(dataQ, f)}
  \union (UNION {{<<d, k>> : k \in In(latency[d].nodes, f)} : d \in Dests})
  \union (UNION {{<<i, d, k>> : k \in In(AllEvents[i].list[d], f)} :
                  i \in DOMAIN AllEvents, d \in Dests})

OnHand ==
  ToSet(dataQ) \union (UNION {ToSet(latency[d].nodes) : d \in Dests})
               \union (UNION {EventFrames(AllEvents[i]) : i \in DOMAIN AllEvents})

(* A frame is on one list at a time, and its buffer is not with the DMA    *)
(* while it is: no buffer is returned twice, none is overwritten while an  *)
(* event refers to it.                                                     *)
OwnedOnce == OnHand \subseteq held /\ \A f \in OnHand : Cardinality(Places(f)) = 1

(* Every buffer that is not with the DMA is on a list from which it will   *)
(* be returned, and every event descriptor is in the pool, in use by rxRun,*)
(* on the transmit request queue or in the hands of the transmit thread:   *)
(* the front end does not run out of buffers, rxRun not of descriptors,    *)
(* and no push of a finished event fails.                                  *)
NothingLeaked ==
  /\ held \subseteq OnHand
  /\ ~exited => pool + Len(AllEvents) = Events

(* nnodes: the spots taken on a latency list are the nodes on it.          *)
SpotsExact == \A d \in Dests : Len(latency[d].nodes) = Depth - remaining[d]

(* While an event waits for a destination, no frame of it is on its        *)
(* latency list: all it gets goes to the event.                            *)
PendingDrained ==
  event # NoEvent => \A d \in event.ctbs : latency[d].nodes = << >>

(* What rxRun notes of the event in progress in four places - trgActive    *)
(* and event, the mask and the count of contributors, the latency lists -  *)
(* agrees whatever path completed, seeded or posted the event.             *)
Bookkeeping == ActiveMatchesEvent /\ CountsAgree /\ PendingDrained

Increasing(l) == \A i, j \in DOMAIN l : i < j => l[i].seq < l[j].seq

(* The frames of a latency list are in time order. *)
LatencyInOrder == \A d \in Dests : Increasing(latency[d].nodes)

(* Whether e has all it will get from d. *)
Closes(e, d) == e # event \/ d \notin e.ctbs

(* Once a destination has been closed for an event, no frame that overlaps *)
(* the window of the event is left on the latency list or still to be read.*)
NoneLeftBehind ==
  \A i \in DOMAIN AllEvents : LET e == AllEvents[i] IN
    \A d \in Dests : Closes(e, d) =>
      \A f \in ToSet(latency[d].nodes) \union ToSet(dataQ) :
        f.dest = d => ~(Beg(f) < e.end /\ End(f) > e.beg)

(* The frames of a destination are in the event in the order of their time *)
(* stamps, with none missing between two of them that was received and is  *)
(* not in error.                                                           *)
NoHoles ==
  \A i \in DOMAIN AllEvents, d \in Dests :
    LET l == AllEvents[i].list[d]
    IN  /\ Increasing(l)
        /\ \A f \in held :
             /\ f.dest = d /\ f.good
             /\ l # << >> /\ l[1].seq < f.seq /\ f.seq < l[Len(l)].seq
             => f \in ToSet(l)

(* An event has every frame that overlaps its window, for as long as the   *)
(* trigger was not too late.                                               *)
Covered(l, e) ==
  /\ l # << >>
  /\ Beg(l[1]) <= Max2(0, e.beg)
  /\ End(l[Len(l)]) >= e.end
  /\ \A j \in 1 .. Len(l) - 1 : l[j + 1].seq = l[j].seq + 1

WindowCovered == \A i \in DOMAIN Posted, d \in Dests :
                   Covered(Posted[i].list[d], Posted[i])

(* Mutant: the end of the frame is not looked at. *)
TrgNodeOpen(l, trg) ==
  IF l # << >> /\ Beg(l[1]) <= trg THEN 1 ELSE 0

(* m_trgNode: the place of the trigger node, 0 when there is none.  It is  *)
(* set when a frame is added that spans the trigger time, or that begins   *)
(* after it while a frame is on the list that does not.                    *)
TrgNode(l, trg) ==
  LET hit(n)  == trg >= Beg(l[n]) /\ trg <= End(l[n])
      scan(n) == trg < Beg(l[n]) /\ \E i \in 1 .. n : Beg(l[i]) <= trg
      set     == {n \in DOMAIN l : hit(n) \/ scan(n)}
      first   == CHOOSE n \in set : \A m \in set : n <= m
  IN  IF set = {} THEN 0
      ELSE IF hit(first) THEN first
      ELSE CHOOSE i \in 1 .. first :
             Beg(l[i]) <= trg /\ \A j \in 1 .. i - 1 : Beg(l[j]) > trg

(* The trigger time is within the trigger node. *)
TriggerInNode ==
  \A i \in DOMAIN Posted, d \in Dests :
    LET e == Posted[i]
        n == TrgNode(e.list[d], e.trg)
    IN  n # 0 => Beg(e.list[d][n]) <= e.trg /\ e.trg <= End(e.list[d][n])

(* Events leave in the order of their trigger times, and no trigger makes  *)
(* two events.                                                             *)
TimeOrdered ==
  \A i, j \in DOMAIN AllEvents : i < j => AllEvents[i].trg < AllEvents[j].trg

(* rxRun never ends the program. *)
NeverExits == ~exited

-----------------------------------------------------------------------------
(* The invariant that is inductive                                         *)

(* A channel is read only when select found it ready.                      *)
Reading ==
  /\ pc = "timing" => timingQ # << >> /\ "timing" \in fds
  /\ pc = "data" => "data" \in fds
  /\ pc # "select" /\ "data" \in fds => dataQ # << >>

(* While an event waits in external trigger mode the timing channel is     *)
(* disabled.                                                               *)
Disarmed == trgActive /\ runMode = "EXTERNAL" => "timing" \notin fds

(* A latency list has no more nodes than it has spots taken.               *)
WithinSpots ==
  \A d \in Dests : Len(latency[d].nodes) <= Depth - remaining[d]

(* No more event descriptors are about than the pool was built with.       *)
Busy(e) == IF e = NoEvent THEN 0 ELSE 1

WithinPool == pool + Len(txReqQueue) + Busy(sending) + Busy(event) <= Events

(* All of these together hold at the start and are kept by every step.     *)
IInv ==
  /\ TypeOK
  /\ Reading
  /\ Disarmed
  /\ WithinSpots
  /\ WithinPool
  /\ ActiveMatchesEvent
  /\ NeverDiscards
  /\ CountsAgree
  /\ PendingDrained

-----------------------------------------------------------------------------
(* The stream of a destination, which is inductive with IInv               *)

Older(F, G) == \A f \in F, g \in G : f.seq < g.seq

Of(F, d) == {f \in F : f.dest = d}

(* All frames of H that are good and between two frames of l are on it.    *)
Whole(l, H) ==
  \A f \in H, a, b \in ToSet(l) :
    f.good /\ a.seq < f.seq /\ f.seq < b.seq => f \in ToSet(l)

(* No frame of H has been passed over: each is still to be read, on the    *)
(* list l or older than all on it.                                         *)
CaughtUp(l, U, H) ==
  \A f \in H : f.good => \/ f \in U \union ToSet(l)
                         \/ Older({f}, ToSet(l))

(* The frames of the destination d, from the oldest event to the channel:  *)
(* A are the events, the last of which waits for those in W; lat is what   *)
(* is on its latency list, U what is still to be read, H what is held; n   *)
(* frames were sent, and x says that rxRun has ended.                      *)
Listed(A, lat, U, H) ==
  /\ Increasing(lat) /\ ToSet(lat) \subseteq H /\ Older(ToSet(lat), U)
  /\ \A l \in A : /\ Increasing(l) /\ ToSet(l) \subseteq H /\ Whole(l, H)
                  /\ Older(ToSet(l), U \union ToSet(lat))

Beyond(e, lat, U, n) ==
  /\ e.end <= n * FrameTicks
  /\ \A f \in U \union ToSet(lat) : e.end <= Beg(f)

Stream(d, A, W, lat, U, H, n, x) ==
  /\ U \subseteq H /\ \A f \in H : f.dest = d /\ f.seq < n
  /\ Older(H \ U, U)
  /\ Listed({A[i].list[d] : i \in DOMAIN A}, lat, U, H)
  /\ \A i, j \in DOMAIN A :
       i < j => Older(ToSet(A[i].list[d]), ToSet(A[j].list[d]))
  /\ \A i \in DOMAIN A : i < Len(A) \/ d \notin W => Beyond(A[i], lat, U, n)
  /\ d \in W => A # << >> /\ lat = << >>
  /\ ~x => CaughtUp(lat, U, H)
  /\ ~x /\ d \in W => CaughtUp(A[Len(A)].list[d], U, H)

Waiting == IF event = NoEvent THEN {} ELSE event.ctbs

(* The channel hands over the frames of a destination in order.            *)
QueueInOrder(q) ==
  \A i, j \in DOMAIN q : i < j /\ q[i].dest = q[j].dest => q[i].seq < q[j].seq

StreamInv ==
  /\ QueueInOrder(dataQ)
  /\ ToSet(dataQ) \subseteq held
  /\ \A f \in held : f.seq < sent[f.dest]
  /\ \A d \in Dests :
       Stream(d, AllEvents, Waiting, latency[d].nodes, Of(ToSet(dataQ), d),
              Of(held, d), sent[d], exited)

-----------------------------------------------------------------------------
(* The conditions under which events are complete and nothing is lost: the *)
(* configuration stays as it was at the start, no frame is lost or damaged,*)
(* and there are no strays; the buffers are fewer than it takes to fill    *)
(* every event that can be about.  An event frees its window before the    *)
(* next one begins: external triggers, or the multiples of the period, are *)
(* as far apart as a window and a frame less a tick.  And the latency list *)
(* reaches back to the beginning of a window: of the oldest trigger that   *)
(* may come, and, as software triggers come with the frame of whichever    *)
(* destination is first, of the destination that is furthest ahead.        *)
Steady ==
  /\ Configs = {} /\ Modes = {} /\ Faults = {} /\ Strays = 0
  /\ Skew \in Nat /\ TriggerLag \in Nat /\ Buffers \in Nat
  /\ Buffers < Events * Cardinality(Dests)
  /\ Buffers < TxSlots * Cardinality(Dests)
  /\ \A c \in FirstConfigs :
       /\ ~c.blowOff
       /\ c.pre + c.post > 0
       /\ c.runMode = "EXTERNAL" =>
            /\ c.pre + c.post + FrameTicks <= TriggerGap + 1
            /\ c.pre + TriggerLag <= Depth * FrameTicks
            /\ Skew <= Depth + 1
       /\ c.runMode = "SOFTWARE" =>
            /\ c.pre + c.post + FrameTicks <= c.period + 1
            /\ c.pre + Skew * FrameTicks
                 <= Depth * FrameTicks
                    + (IF c.period % FrameTicks = 0 THEN FrameTicks ELSE 1)

-----------------------------------------------------------------------------
(* Fairness: the threads run, and the front end sends.                     *)

FairSpec ==
  /\ Spec
  /\ WF_vars(Receiver)
  /\ WF_vars(Transmitter)
  /\ \A d \in Dests : WF_vars(FrameArrives(d))

(* An event whose window ends before the front end stops is posted.        *)
EventCompletes ==
  (event # NoEvent /\ event.end <= (Frames - 1) * FrameTicks)
    ~> (event = NoEvent \/ exited)

=============================================================================
