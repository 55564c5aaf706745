---------------------------- MODULE RxRunProofs -----------------------------
(***************************************************************************)
(* What holds of the event builder, RxRun, for every number of             *)
(* destinations, buffers and event descriptors, every depth of the latency *)
(* lists and every configuration.                                          *)
(*                                                                         *)
(* The first part is about its bookkeeping: the inductive invariant IInv   *)
(* and the properties that follow from it.  The second part is about the   *)
(* frames of a destination on their way through rxRun: the events that are *)
(* about, oldest first, then the latency list, then the data channel hold  *)
(* them in the order in which they were sent, each once, and none that an  *)
(* event should have is passed over.  Its first lemmas are about Stream,   *)
(* one destination seen by itself: one for each thing that rxRun does with *)
(* a frame or an event.  Those that follow put them together into the      *)
(* steps.                                                                  *)
(*                                                                         *)
(* The third part is about the events being complete, under Steady: every  *)
(* event that is posted has all frames of its window, the trigger time is  *)
(* in the node that was noted for it, the count of the spots left on a     *)
(* latency list is right, no buffer and no descriptor is lost, and rxRun   *)
(* does not end.                                                           *)
(***************************************************************************)
EXTENDS RxRun, FiniteSetTheorems, SequenceTheorems, FunctionTheorems, TLAPS

Node == [nodes : Seq(Frame), loose : BOOLEAN]

-----------------------------------------------------------------------------
(* Frames and events                                                       *)

(* The clock ticks of a frame are integers.                                *)
LEMMA FrameTimes ==
  ASSUME NEW f \in Frame
  PROVE  Beg(f) \in Nat /\ End(f) \in Nat
<1>1. f.seq \in Nat /\ FrameTicks \in Nat
  BY RxAssumption DEF Frame
<1>2. \A m, n \in Nat : m * n \in Nat
  OBVIOUS
<1>. QED  BY <1>1, <1>2 DEF Beg, End

(* NewEvent is an event, and not the null pointer.                         *)
LEMMA NewEventType ==
  ASSUME NEW trg \in Int, NEW pre \in Nat, NEW post \in Nat
  PROVE  NewEvent(trg, pre, post) \in Event
<1>1. << >> \in Seq(Frame)
  OBVIOUS
<1>2. [d \in Dests |-> << >>] \in [Dests -> Seq(Frame)]
  BY <1>1
<1>. QED  BY <1>2 DEF NewEvent, Event

(* Adding a frame and closing a destination keep an event an event.        *)
LEMMA AddedType ==
  ASSUME NEW e \in Event, NEW f \in Frame, f.dest \in Dests
  PROVE  /\ Added(e, f) \in Event
         /\ Added(e, f).ctbs = e.ctbs
         /\ Added(e, f).nctbs = e.nctbs
<1>1. e.list[f.dest] \in Seq(Frame)
  BY DEF Event
<1>2. Append(e.list[f.dest], f) \in Seq(Frame)
  BY <1>1
<1>3. [e.list EXCEPT ![f.dest] = Append(e.list[f.dest], f)] \in [Dests -> Seq(Frame)]
  BY <1>2 DEF Event
<1>4. Added(e, f) = [e EXCEPT !.list = [e.list EXCEPT ![f.dest] = Append(e.list[f.dest], f)]]
  BY DEF Added, Event
<1>. QED  BY <1>3, <1>4 DEF Event

(* evaluate's removal of a contributor from m_ctbs and its count in        *)
(* m_nctbs give an event again.                                            *)
LEMMA ClosedType ==
  ASSUME NEW e \in Event, NEW d \in Dests
  PROVE  /\ Closed(e, d) \in Event
         /\ Closed(e, d).ctbs = e.ctbs \ {d}
         /\ Closed(e, d).nctbs = e.nctbs + 1
<1>1. e.ctbs \ {d} \in SUBSET Dests /\ e.nctbs + 1 \in Nat
  BY DEF Event
<1>. DEFINE c == e.ctbs \ {d}
            n == e.nctbs + 1
<1>2. Closed(e, d) = [e EXCEPT !.ctbs = c, !.nctbs = n]
  BY DEF Closed
<1>3. c \in SUBSET Dests /\ n \in Nat
  BY <1>1
<1>. HIDE DEF c, n
<1>4. /\ Closed(e, d) \in Event
      /\ Closed(e, d).ctbs = c
      /\ Closed(e, d).nctbs = n
  BY <1>2, <1>3 DEF Event
<1>. QED  BY <1>4 DEF c, n

(* Every destination that is not pending is counted.                       *)
Counted(e) == e.nctbs = Cardinality(Dests \ e.ctbs)

(* Closing a pending destination keeps the count.                          *)
LEMMA ClosedCounted ==
  ASSUME NEW e \in Event, NEW d \in e.ctbs, Counted(e)
  PROVE  Counted(Closed(e, d))
<1>1. d \in Dests /\ e.ctbs \subseteq Dests
  BY DEF Event
<1>2. Dests \ (e.ctbs \ {d}) = (Dests \ e.ctbs) \union {d}
  BY <1>1
<1>3. IsFiniteSet(Dests \ e.ctbs)
  BY RxAssumption, FS_Difference
<1>4. Cardinality((Dests \ e.ctbs) \union {d}) = Cardinality(Dests \ e.ctbs) + 1
  BY <1>3, FS_AddElement
<1>. QED  BY <1>1, <1>2, <1>4, ClosedType DEF Counted

(* evaluate: the event stays one, keeps its count, and the frame that goes *)
(* to the latency list is of a destination that is not pending any more.   *)
LEMMA EvaluatedFacts ==
  ASSUME NEW e \in Event, NEW f \in Frame, f.dest \in Dests, Counted(e)
  PROVE  /\ Evaluated(e, f) \in Event
         /\ Counted(Evaluated(e, f))
         /\ Evaluated(e, f).ctbs \subseteq e.ctbs
         /\ ToLatency(e, f) => f.dest \notin Evaluated(e, f).ctbs
<1>. DEFINE e2 == IF Inside(e, f) THEN Added(e, f) ELSE e
<1>1. e2 \in Event /\ e2.ctbs = e.ctbs /\ e2.nctbs = e.nctbs
  BY AddedType
<1>2. Counted(e2)
  BY <1>1 DEF Counted
<1>3. CASE ~Pending(e, f)
  BY <1>3 DEF Evaluated, Pending, ToLatency
<1>4. CASE Pending(e, f) /\ Completes(e, f)
  <2>1. Evaluated(e, f) = Closed(e2, f.dest)
    BY <1>4 DEF Evaluated
  <2>2. f.dest \in e2.ctbs
    BY <1>1, <1>4 DEF Pending
  <2>. HIDE DEF e2
  <2>. QED  BY <1>1, <1>2, <2>1, <2>2, ClosedType, ClosedCounted
<1>5. CASE Pending(e, f) /\ ~Completes(e, f)
  <2>1. Evaluated(e, f) = e2
    BY <1>5 DEF Evaluated
  <2>2. ~ToLatency(e, f)
    BY <1>5 DEF ToLatency, Completes
  <2>. HIDE DEF e2
  <2>. QED  BY <1>1, <1>2, <2>1, <2>2
<1>. QED  BY <1>3, <1>4, <1>5

-----------------------------------------------------------------------------
(* The latency lists                                                       *)

(* A list after InsertTail, and after RemoveHead.                          *)
LEMMA InsertTailFacts ==
  ASSUME NEW l \in Node, NEW f \in Frame
  PROVE  /\ InsertTail(l, f) \in Node
         /\ Len(InsertTail(l, f).nodes) \in 1 .. Len(l.nodes) + 1
<1>. DEFINE s == IF l.loose THEN << >> ELSE l.nodes
<1>1. s \in Seq(Frame) /\ Len(s) <= Len(l.nodes) /\ Len(s) \in Nat
  BY DEF Node
<1>2. InsertTail(l, f) = [nodes |-> Append(s, f), loose |-> FALSE]
  BY DEF InsertTail
<1>. HIDE DEF s
<1>3. Append(s, f) \in Seq(Frame) /\ Len(Append(s, f)) = Len(s) + 1
  BY <1>1
<1>4. Len(l.nodes) \in Nat
  BY DEF Node
<1>. QED  BY <1>1, <1>2, <1>3, <1>4 DEF Node

(* remove_head, on a list that holds a node, leaves one node less.         *)
LEMMA RemoveHeadFacts ==
  ASSUME NEW l \in Node, l.nodes # << >>
  PROVE  /\ RemoveHead(l) \in Node
         /\ Len(RemoveHead(l).nodes) = Len(l.nodes) - 1
<1>1. Tail(l.nodes) \in Seq(Frame) /\ Len(Tail(l.nodes)) = Len(l.nodes) - 1
  BY HeadTailProperties DEF Node
<1>2. (l.loose /\ Len(l.nodes) > 1) \in BOOLEAN
  OBVIOUS
<1>. QED  BY <1>1, <1>2 DEF RemoveHead, Node

(* replace keeps a list within its spots.                                  *)
LEMMA ReplacedFacts ==
  ASSUME NEW l \in Node, NEW rem \in 0 .. Depth, NEW f \in Frame,
         Len(l.nodes) <= Depth - rem
  PROVE  /\ Replaced(l, rem, f).list \in Node
         /\ Replaced(l, rem, f).rem \in 0 .. Depth
         /\ Len(Replaced(l, rem, f).list.nodes) <= Depth - Replaced(l, rem, f).rem
<1>. DEFINE l2 == InsertTail(l, f)
<1>1. l2 \in Node /\ Len(l2.nodes) \in 1 .. Len(l.nodes) + 1
  BY InsertTailFacts
<1>2. Depth \in Nat /\ rem \in Nat /\ rem <= Depth /\ Len(l.nodes) \in Nat
  BY RxAssumption DEF Node
<1>. HIDE DEF l2
<1>3. CASE rem <= 0
  <2>1. Replaced(l, rem, f) = [list |-> RemoveHead(l2), rem |-> rem, free |-> {Head(l2.nodes)}]
    BY <1>3 DEF Replaced, l2
  <2>2. l2.nodes # << >>
    BY <1>1, EmptySeq DEF Node
  <2>3. RemoveHead(l2) \in Node /\ Len(RemoveHead(l2).nodes) = Len(l2.nodes) - 1
    BY <1>1, <2>2, RemoveHeadFacts
  <2>4. Len(l2.nodes) - 1 <= Depth - rem
    BY <1>1, <1>2
  <2>. QED  BY <2>1, <2>3, <2>4
<1>4. CASE ~(rem <= 0)
  <2>1. Replaced(l, rem, f) = [list |-> l2, rem |-> rem - 1, free |-> {}]
    BY <1>4 DEF Replaced, l2
  <2>2. rem - 1 \in 0 .. Depth /\ Len(l2.nodes) <= Depth - (rem - 1)
    BY <1>1, <1>2, <1>4
  <2>. QED  BY <1>1, <2>1, <2>2
<1>. QED  BY <1>3, <1>4

(* What is left of a list from which n frames were taken, one of which may *)
(* have been put back.                                                     *)
LEMMA LeftFacts ==
  ASSUME NEW l \in Node, NEW n \in 0 .. Len(l.nodes), NEW back \in BOOLEAN,
         back => n < Len(l.nodes)
  PROVE  /\ Left(l, n, back) \in Node
         /\ Len(Left(l, n, back).nodes) = Len(l.nodes) - n
<1>0. l.nodes \in Seq(Frame) /\ Len(l.nodes) \in Nat /\ l.loose \in BOOLEAN
  BY DEF Node
<1>1. \A m \in 0 .. Len(l.nodes) :
        Rest(l, m) \in Node /\ Len(Rest(l, m).nodes) = Len(l.nodes) - m
  <2>. TAKE m \in 0 .. Len(l.nodes)
  <2>. DEFINE s == SubSeq(l.nodes, m + 1, Len(l.nodes))
  <2>1. s \in Seq(Frame) /\ Len(s) = Len(l.nodes) - m
    BY <1>0, SubSeqProperties
  <2>2. Rest(l, m) = [nodes |-> s, loose |-> l.loose /\ m < Len(l.nodes)]
    BY DEF Rest
  <2>3. (l.loose /\ m < Len(l.nodes)) \in BOOLEAN
    OBVIOUS
  <2>. HIDE DEF s
  <2>. QED  BY <2>1, <2>2, <2>3 DEF Node
<1>2. CASE ~back
  BY <1>1, <1>2 DEF Left
<1>3. CASE back
  <2>. DEFINE r == Rest(l, n + 1)
              x == l.nodes[n + 1]
              s == <<x>> \o r.nodes
  <2>1. n + 1 \in 0 .. Len(l.nodes) /\ n + 1 \in 1 .. Len(l.nodes)
    BY <1>0, <1>3
  <2>2. x \in Frame
    BY <1>0, <2>1
  <2>3. r \in Node /\ Len(r.nodes) = Len(l.nodes) - (n + 1)
    BY <1>1, <2>1
  <2>. HIDE DEF r, x
  <2>4. <<x>> \in Seq(Frame) /\ Len(<<x>>) = 1
    BY <2>2
  <2>5. r.nodes \in Seq(Frame) /\ r.loose \in BOOLEAN
    BY <2>3 DEF Node
  <2>6. s \in Seq(Frame) /\ Len(s) = 1 + Len(r.nodes)
    BY <2>4, <2>5, ConcatProperties
  <2>7. Left(l, n, back) = [nodes |-> s, loose |-> r.loose \/ r.nodes = << >>]
    BY <1>3 DEF Left, InsertHead, r, x
  <2>8. (r.loose \/ r.nodes = << >>) \in BOOLEAN
    OBVIOUS
  <2>9. Len(s) = Len(l.nodes) - n
    BY <1>0, <2>3, <2>6
  <2>. HIDE DEF s
  <2>. QED  BY <2>6, <2>7, <2>8, <2>9 DEF Node
<1>. QED  BY <1>2, <1>3

(* The number of places of a list at which something holds.                *)
LEMMA PlacesCount ==
  ASSUME NEW s \in Seq(Frame), NEW P, P \subseteq DOMAIN s
  PROVE  Cardinality(P) \in 0 .. Len(s)
<1>1. DOMAIN s = 1 .. Len(s) /\ Len(s) \in Nat
  OBVIOUS
<1>2. IsFiniteSet(1 .. Len(s)) /\ Cardinality(1 .. Len(s)) = Len(s)
  <2>1. 1 \in Int /\ Len(s) \in Int
    BY <1>1
  <2>2. /\ IsFiniteSet(1 .. Len(s))
        /\ Cardinality(1 .. Len(s)) = IF 1 > Len(s) THEN 0 ELSE Len(s) - 1 + 1
    BY <2>1, FS_Interval
  <2>. QED  BY <1>1, <2>2
<1>3. IsFiniteSet(P) /\ Cardinality(P) <= Len(s)
  BY <1>1, <1>2, FS_Subset
<1>4. Cardinality(P) \in Nat
  BY <1>3, FS_CardinalityType
<1>. QED  BY <1>1, <1>3, <1>4

(* seedAndDrain, for one destination: what it leaves is a list within its  *)
(* spots, empty if the destination is still pending.                       *)
LEMMA SeededFacts ==
  ASSUME NEW e \in Event, NEW l \in Node, NEW rem \in 0 .. Depth,
         Len(l.nodes) <= Depth - rem
  PROVE  /\ Seeded(e, l, rem).list \in Node
         /\ Seeded(e, l, rem).rem \in 0 .. Depth
         /\ Len(Seeded(e, l, rem).list.nodes) <= Depth - Seeded(e, l, rem).rem
         /\ Seeded(e, l, rem).add \in Seq(Frame)
         /\ Seeded(e, l, rem).done \in BOOLEAN
         /\ ~Seeded(e, l, rem).done => Seeded(e, l, rem).list.nodes = << >>
<1>. DEFINE early == Cardinality({i \in DOMAIN l.nodes : Early(e, l.nodes[i])})
            open  == Cardinality({i \in DOMAIN l.nodes : ~Completes(e, l.nodes[i])})
            done  == open < Len(l.nodes)
            back  == done /\ Late(e, l.nodes[open + 1])
            n     == IF done /\ ~back THEN open + 1 ELSE open
            left  == Left(l, n, back)
            spots == SpotsLeft(rem, n, done)
            add   == SubSeq(l.nodes, early + 1, n)
<1>0. l.nodes \in Seq(Frame) /\ Len(l.nodes) \in Nat
  BY DEF Node
<1>1. early \in 0 .. Len(l.nodes) /\ open \in 0 .. Len(l.nodes)
  BY <1>0, PlacesCount
<1>2. /\ Seeded(e, l, rem).list = left
      /\ Seeded(e, l, rem).rem = spots
      /\ Seeded(e, l, rem).add = add
      /\ Seeded(e, l, rem).done = done
  BY DEF Seeded
<1>. HIDE DEF early, open
<1>3. n \in 0 .. Len(l.nodes) /\ done \in BOOLEAN /\ back \in BOOLEAN
  BY <1>0, <1>1
<1>4. back => n < Len(l.nodes)
  OBVIOUS
<1>5. ~done => n = Len(l.nodes)
  BY <1>0, <1>1
<1>. HIDE DEF done, back, n
<1>6. left \in Node /\ Len(left.nodes) = Len(l.nodes) - n
  BY <1>3, <1>4, LeftFacts
<1>7. spots \in 0 .. Depth /\ Len(left.nodes) <= Depth - spots
  <2>1. Depth \in Nat /\ rem \in Nat /\ rem <= Depth
    BY RxAssumption
  <2>2. CASE done
    <3>1. spots = rem + n
      BY <2>2 DEF SpotsLeft
    <3>. QED  BY <1>0, <1>3, <1>6, <2>1, <3>1
  <2>3. CASE ~done
    <3>1. spots = Depth
      BY <2>3 DEF SpotsLeft
    <3>2. Len(left.nodes) = 0
      BY <1>0, <1>5, <1>6, <2>3
    <3>. HIDE DEF spots, left
    <3>. QED  BY <2>1, <3>1, <3>2
  <2>. QED  BY <2>2, <2>3
<1>8. add \in Seq(Frame)
  <2>1. early + 1 \in 1 .. Len(l.nodes) + 1 /\ (n \in early .. Len(l.nodes) \/ n < early + 1)
    BY <1>0, <1>1, <1>3
  <2>. QED  BY <1>0, <1>1, <1>3, SubSeqProperties
<1>9. ~done => left.nodes = << >>
  <2>1. ~done => Len(left.nodes) = 0
    BY <1>0, <1>5, <1>6
  <2>. QED  BY <1>6, <2>1, EmptySeq DEF Node
<1>. HIDE DEF left, spots, add
<1>. QED  BY <1>2, <1>3, <1>6, <1>7, <1>8, <1>9

(* What seedAndDrain makes of the latency lists and of a new event.        *)
LEMMA SeedFacts ==
  ASSUME TypeOK, WithinSpots, NEW e \in Event
  PROVE  /\ Seed(e).event \in Event
         /\ Counted(Seed(e).event)
         /\ Seed(e).latency \in [Dests -> Node]
         /\ Seed(e).remaining \in [Dests -> 0 .. Depth]
         /\ \A d \in Dests :
              Len(Seed(e).latency[d].nodes) <= Depth - Seed(e).remaining[d]
         /\ \A d \in Seed(e).event.ctbs : Seed(e).latency[d].nodes = << >>
<1>. DEFINE s(d) == Seeded(e, latency[d], remaining[d])
            done == {d \in Dests : s(d).done}
            lists == [d \in Dests |-> s(d).add]
            ev == [e EXCEPT !.ctbs = Dests \ done,
                            !.nctbs = Cardinality(done),
                            !.list = lists]
            lat == [d \in Dests |-> s(d).list]
            rem == [d \in Dests |-> s(d).rem]
<1>1. Seed(e).event = ev /\ Seed(e).latency = lat /\ Seed(e).remaining = rem
  BY DEF Seed
<1>2. \A d \in Dests :
        /\ s(d).list \in Node
        /\ s(d).rem \in 0 .. Depth
        /\ Len(s(d).list.nodes) <= Depth - s(d).rem
        /\ s(d).add \in Seq(Frame)
        /\ ~s(d).done => s(d).list.nodes = << >>
  <2>. TAKE d \in Dests
  <2>1. latency[d] \in Node /\ remaining[d] \in 0 .. Depth
    BY DEF TypeOK, Node
  <2>2. Len(latency[d].nodes) <= Depth - remaining[d]
    BY DEF WithinSpots
  <2>. QED  BY <2>1, <2>2, SeededFacts
<1>. HIDE DEF s
<1>3. lists \in [Dests -> Seq(Frame)] /\ lat \in [Dests -> Node] /\ rem \in [Dests -> 0 .. Depth]
  BY <1>2
<1>4. Dests \ done \in SUBSET Dests /\ Dests \ (Dests \ done) = done
  OBVIOUS
<1>5. Cardinality(done) \in Nat
  BY RxAssumption, FS_Subset, FS_CardinalityType
<1>6. \A d \in Dests : Len(lat[d].nodes) <= Depth - rem[d]
  BY <1>2
<1>7. \A d \in Dests \ done : lat[d].nodes = << >>
  BY <1>2
<1>. HIDE DEF done, lists, lat, rem
<1>8. ev \in Event /\ ev.ctbs = Dests \ done /\ ev.nctbs = Cardinality(done)
  BY <1>3, <1>4, <1>5 DEF Event
<1>9. Counted(ev)
  BY <1>4, <1>8 DEF Counted
<1>. HIDE DEF ev
<1>. QED  BY <1>1, <1>3, <1>6, <1>7, <1>8, <1>9

-----------------------------------------------------------------------------
(* The invariant holds at the start                                        *)

(* rxRun starts with empty lists, a full pool and no event.                *)
LEMMA InvInit == Init => IInv
<1>. SUFFICES ASSUME Init PROVE IInv
  OBVIOUS
<1>. USE DEF Init
<1>1. << >> \in Seq(Frame) /\ << >> \in Seq(Event) /\ Len(<< >>) = 0
      /\ << >> \in Seq([stamp : Nat, trigger : BOOLEAN])
  OBVIOUS
<1>2. /\ Depth \in Nat /\ Events \in Nat
      /\ config \in Config /\ config.runMode \in RunModes
      /\ config.blowOff \in BOOLEAN
      /\ [blowOff |-> FALSE, pre |-> 0, post |-> 0, period |-> 1] \in Settings
  BY RxAssumption, ConfigAssumption DEF Config, Settings
<1>3. EmptyList \in Node /\ EmptyList.nodes = << >>
  BY <1>1 DEF EmptyList, Node
<1>4. TypeOK
  <2>1. /\ sent \in [Sources -> Nat] /\ dataQ \in Seq(Frame)
        /\ timingQ \in Seq([stamp : Nat, trigger : BOOLEAN]) /\ lastStamp \in Nat
        /\ config \in Config /\ target \in Settings /\ todo \in 0 .. 4
    BY <1>1, <1>2
  <2>2. /\ pc \in {"select", "timing", "data"} /\ fds \subseteq {"timing", "data"}
        /\ runMode \in RunModes /\ blowOff \in BOOLEAN
        /\ trgActive \in BOOLEAN /\ event \in Event \union {NoEvent}
        /\ disTrgCnt \in Nat /\ exited \in BOOLEAN
    BY <1>2
  <2>3. /\ latency \in [Dests -> Node] /\ remaining \in [Dests -> 0 .. Depth]
    BY <1>2, <1>3
  <2>4. /\ pool \in 0 .. Events /\ txReqQueue \in Seq(Event)
        /\ sending \in Event \union {NoEvent} /\ held \subseteq Frame
    BY <1>1, <1>2
  <2>. QED  BY <2>1, <2>2, <2>3, <2>4 DEF TypeOK, Node
<1>5. Reading /\ Disarmed /\ ActiveMatchesEvent /\ NeverDiscards
  BY DEF Reading, Disarmed, ActiveMatchesEvent, NeverDiscards
<1>6. WithinSpots
  BY <1>1, <1>2, <1>3 DEF WithinSpots
<1>7. WithinPool
  BY <1>1, <1>2 DEF WithinPool, Busy
<1>8. CountsAgree /\ PendingDrained
  BY DEF CountsAgree, PendingDrained
<1>. QED  BY <1>4, <1>5, <1>6, <1>7, <1>8 DEF IInv

-----------------------------------------------------------------------------
(* The environment and the transmit thread                                 *)

(* The steps around rxRun leave its variables alone, ...                   *)
LEMMA RxUntouched ==
  ASSUME IInv, UNCHANGED rxVars, TypeOK',
         Len(dataQ) <= Len(dataQ'), Len(timingQ) <= Len(timingQ'),
         pool' + Len(txReqQueue') + Busy(sending')
           <= pool + Len(txReqQueue) + Busy(sending)
  PROVE  IInv'
<1>1. /\ pc' = pc /\ fds' = fds /\ runMode' = runMode /\ trgActive' = trgActive
      /\ event' = event /\ latency' = latency /\ remaining' = remaining
      /\ disTrgCnt' = disTrgCnt
  BY DEF rxVars
<1>2. (dataQ # << >> => dataQ' # << >>) /\ (timingQ # << >> => timingQ' # << >>)
  BY EmptySeq DEF IInv, TypeOK
<1>3. Reading' /\ Disarmed' /\ ActiveMatchesEvent' /\ NeverDiscards'
  BY <1>1, <1>2 DEF IInv, Reading, Disarmed, ActiveMatchesEvent, NeverDiscards
<1>4. WithinSpots' /\ PendingDrained' /\ CountsAgree'
  BY <1>1 DEF IInv, WithinSpots, PendingDrained, CountsAgree
<1>5. WithinPool'
  <2>1. /\ pool \in Int /\ pool' \in Int /\ Events \in Int
        /\ Len(txReqQueue) \in Int /\ Len(txReqQueue') \in Int
    BY RxAssumption DEF IInv, TypeOK
  <2>2. Busy(sending) \in Int /\ Busy(sending') \in Int /\ Busy(event) \in Int
        /\ Busy(event') = Busy(event)
    BY <1>1 DEF Busy
  <2>3. pool + Len(txReqQueue) + Busy(sending) + Busy(event) <= Events
    BY DEF IInv, WithinPool
  <2>. HIDE DEF Busy
  <2>4. pool' + Len(txReqQueue') + Busy(sending') + Busy(event') <= Events
    <3> DEFINE p == pool        l == Len(txReqQueue)    s == Busy(sending)   e == Busy(event)
               q == pool'       m == Len(txReqQueue')   t == Busy(sending')  n == Busy(event')
    <3>1. /\ p \in Int /\ l \in Int /\ s \in Int /\ e \in Int /\ p + l + s + e <= Events
          /\ q \in Int /\ m \in Int /\ t \in Int /\ n = e /\ q + m + t <= p + l + s
          /\ Events \in Int
      BY <2>1, <2>2, <2>3, Zenon
    <3>. HIDE DEF p, l, s, e, q, m, t, n
    <3>2. q + m + t + n <= Events
      BY <3>1
    <3>. QED  BY <3>2 DEF q, m, t, n
  <2>. QED  BY <2>4 DEF WithinPool
<1>. QED  BY <1>3, <1>4, <1>5 DEF IInv

(* ... the channels, ...                                                   *)
LEMMA ArrivalKeeps ==
  ASSUME IInv,
         \/ \E d \in Sources : FrameArrives(d)
         \/ \E d \in Dests : FrameLost(d)
         \/ \E trigger \in BOOLEAN : TimingArrives(trigger)
  PROVE  IInv'
<1>1. CASE \E d \in Sources : FrameArrives(d)
  <2>1. PICK d \in Sources, ok \in BOOLEAN :
          /\ dataQ' = Append(dataQ, [dest |-> d, seq |-> sent[d], good |-> ok])
          /\ held' = held \union {[dest |-> d, seq |-> sent[d], good |-> ok]}
          /\ sent' = [sent EXCEPT ![d] = @ + 1]
          /\ UNCHANGED <<timingQ, lastStamp, cfgVars, rxVars, pool, txReqQueue, sending>>
    BY <1>1 DEF FrameArrives
  <2>2. /\ timingQ' = timingQ /\ lastStamp' = lastStamp /\ config' = config
        /\ target' = target /\ todo' = todo /\ UNCHANGED rxVars
        /\ pool' = pool /\ txReqQueue' = txReqQueue /\ sending' = sending
    BY <2>1 DEF cfgVars
  <2>. DEFINE f == [dest |-> d, seq |-> sent[d], good |-> ok]
  <2>3. f \in Frame /\ sent' \in [Sources -> Nat]
    BY <2>1 DEF IInv, TypeOK, Frame
  <2>. HIDE DEF f
  <2>4. dataQ' \in Seq(Frame) /\ Len(dataQ') = Len(dataQ) + 1 /\ held' \subseteq Frame
    BY <2>1, <2>3 DEF IInv, TypeOK, f
  <2>5. TypeOK'
    BY <2>2, <2>3, <2>4 DEF IInv, TypeOK, rxVars
  <2>6. Len(dataQ) <= Len(dataQ') /\ Len(timingQ) <= Len(timingQ')
        /\ pool' + Len(txReqQueue') + Busy(sending')
             <= pool + Len(txReqQueue) + Busy(sending)
    BY <2>2, <2>4 DEF IInv, TypeOK, Busy
  <2>. QED  BY <2>2, <2>5, <2>6, RxUntouched
<1>2. CASE \E d \in Dests : FrameLost(d)
  <2>1. PICK d \in Dests : FrameLost(d)
    BY <1>2
  <2>2. /\ dataQ' = dataQ /\ timingQ' = timingQ /\ lastStamp' = lastStamp
        /\ config' = config /\ target' = target /\ todo' = todo /\ UNCHANGED rxVars
        /\ pool' = pool /\ txReqQueue' = txReqQueue /\ sending' = sending
        /\ held' = held
    BY <2>1 DEF FrameLost, cfgVars, txVars
  <2>3. sent' \in [Sources -> Nat]
    BY <2>1 DEF FrameLost, IInv, TypeOK, Sources
  <2>4. TypeOK'
    BY <2>2, <2>3 DEF IInv, TypeOK, rxVars
  <2>5. Len(dataQ) <= Len(dataQ') /\ Len(timingQ) <= Len(timingQ')
        /\ pool' + Len(txReqQueue') + Busy(sending')
             <= pool + Len(txReqQueue) + Busy(sending)
    BY <2>2 DEF IInv, TypeOK, Busy
  <2>. QED  BY <2>2, <2>4, <2>5, RxUntouched
<1>3. CASE \E trigger \in BOOLEAN : TimingArrives(trigger)
  <2>1. PICK trigger \in BOOLEAN, ts \in lastStamp + TriggerGap .. Frames * FrameTicks :
          /\ timingQ' = Append(timingQ, [stamp |-> ts, trigger |-> trigger])
          /\ lastStamp' = ts
          /\ UNCHANGED <<sent, dataQ, cfgVars, rxVars, txVars>>
    BY <1>3 DEF TimingArrives
  <2>2. /\ sent' = sent /\ dataQ' = dataQ /\ config' = config
        /\ target' = target /\ todo' = todo /\ UNCHANGED rxVars
        /\ pool' = pool /\ txReqQueue' = txReqQueue /\ sending' = sending
        /\ held' = held
    BY <2>1 DEF cfgVars, txVars
  <2>3. ts \in Nat
    <3>1. lastStamp + TriggerGap \in Nat
      BY RxAssumption DEF IInv, TypeOK
    <3>. QED  BY <2>1, <3>1
  <2>. DEFINE m == [stamp |-> ts, trigger |-> trigger]
  <2>4. m \in [stamp : Nat, trigger : BOOLEAN]
    BY <2>3
  <2>. HIDE DEF m
  <2>5. timingQ' \in Seq([stamp : Nat, trigger : BOOLEAN])
        /\ Len(timingQ') = Len(timingQ) + 1
    BY <2>1, <2>4 DEF IInv, TypeOK, m
  <2>6. TypeOK'
    BY <2>1, <2>2, <2>3, <2>5 DEF IInv, TypeOK, rxVars
  <2>7. Len(dataQ) <= Len(dataQ') /\ Len(timingQ) <= Len(timingQ')
        /\ pool' + Len(txReqQueue') + Busy(sending')
             <= pool + Len(txReqQueue) + Busy(sending)
    BY <2>2, <2>5 DEF IInv, TypeOK, Busy
  <2>. QED  BY <2>2, <2>6, <2>7, RxUntouched
<1>. QED  BY <1>1, <1>2, <1>3

(* ... the configuration ...                                               *)
LEMMA ConfigKeeps ==
  ASSUME IInv,
         \/ \E c \in Configs : SetConfig(c)
         \/ \E mode \in Modes : SetRunMode(mode)
         \/ WriteField
  PROVE  IInv'
<1>1. /\ sent' = sent /\ dataQ' = dataQ /\ timingQ' = timingQ
      /\ lastStamp' = lastStamp /\ UNCHANGED rxVars
      /\ pool' = pool /\ txReqQueue' = txReqQueue /\ sending' = sending
      /\ held' = held
  BY DEF SetConfig, SetRunMode, WriteField, envVars, txVars
<1>2. config' \in Config /\ target' \in Settings /\ todo' \in 0 .. 4
  <2>1. CASE \E c \in Configs : SetConfig(c)
    BY <2>1, ConfigAssumption DEF SetConfig, IInv, TypeOK
  <2>2. CASE \E mode \in Modes : SetRunMode(mode)
    BY <2>2, ConfigAssumption DEF SetRunMode, IInv, TypeOK, Config
  <2>3. CASE WriteField
    <3>1. /\ config \in Config /\ target \in Settings /\ todo \in 0 .. 4
          /\ target' = target /\ todo' = todo - 1
      BY <2>3 DEF WriteField, IInv, TypeOK
    <3>2. todo # 0
      BY <2>3 DEF WriteField
    <3>3. todo' \in 0 .. 4
      BY <3>1, <3>2
    <3>4. config' \in Config
      <4>1. CASE config' = [config EXCEPT !.blowOff = target.blowOff]
        BY <3>1, <4>1 DEF Config, Settings
      <4>2. CASE config' = [config EXCEPT !.pre = target.pre]
        BY <3>1, <4>2 DEF Config, Settings
      <4>3. CASE config' = [config EXCEPT !.post = target.post]
        BY <3>1, <4>3 DEF Config, Settings
      <4>4. CASE config' = [config EXCEPT !.period = target.period]
        BY <3>1, <4>4 DEF Config, Settings
      <4>. QED  BY <2>3, <4>1, <4>2, <4>3, <4>4 DEF WriteField
    <3>. QED  BY <3>1, <3>3, <3>4
  <2>. QED  BY <2>1, <2>2, <2>3
<1>3. TypeOK'
  BY <1>1, <1>2 DEF IInv, TypeOK, rxVars
<1>4. Len(dataQ) <= Len(dataQ') /\ Len(timingQ) <= Len(timingQ')
      /\ pool' + Len(txReqQueue') + Busy(sending')
           <= pool + Len(txReqQueue) + Busy(sending)
  BY <1>1 DEF IInv, TypeOK, Busy
<1>. QED  BY <1>1, <1>3, <1>4, RxUntouched

(* ... and the transmit thread.                                            *)
LEMMA TransmitterKeeps ==
  ASSUME IInv, Transmitter
  PROVE  IInv'
<1>1. /\ sent' = sent /\ dataQ' = dataQ /\ timingQ' = timingQ
      /\ lastStamp' = lastStamp /\ UNCHANGED rxVars
      /\ config' = config /\ target' = target /\ todo' = todo
  BY DEF Transmitter, TxTake, TxRelease, envVars, cfgVars
<1>2. Len(dataQ) <= Len(dataQ') /\ Len(timingQ) <= Len(timingQ')
  BY <1>1 DEF IInv, TypeOK
<1>3. CASE TxTake
  <2>1. /\ pool' = pool /\ held' = held /\ sending = NoEvent /\ txReqQueue # << >>
        /\ sending' = Head(txReqQueue) /\ txReqQueue' = Tail(txReqQueue)
    BY <1>3 DEF TxTake
  <2>2. /\ Head(txReqQueue) \in Event /\ Tail(txReqQueue) \in Seq(Event)
        /\ Len(Tail(txReqQueue)) = Len(txReqQueue) - 1
    BY <2>1, HeadTailProperties DEF IInv, TypeOK
  <2>3. TypeOK'
    BY <1>1, <2>1, <2>2 DEF IInv, TypeOK, rxVars
  <2>4. pool' + Len(txReqQueue') + Busy(sending')
          <= pool + Len(txReqQueue) + Busy(sending)
    <3>1. Busy(sending) = 0 /\ Busy(sending') = 1
      BY <2>1, <2>2, NoEventAssumption DEF Busy
    <3>. QED  BY <2>1, <2>2, <3>1 DEF IInv, TypeOK
  <2>. QED  BY <1>1, <1>2, <2>3, <2>4, RxUntouched
<1>4. CASE TxRelease
  <2>1. /\ pool' = pool + 1 /\ held' \subseteq held /\ sending # NoEvent
        /\ sending' = NoEvent /\ txReqQueue' = txReqQueue
    BY <1>4 DEF TxRelease
  <2>2. Busy(sending) = 1 /\ Busy(sending') = 0 /\ Busy(event) \in 0 .. 1
    BY <2>1 DEF Busy
  <2>3. pool' \in 0 .. Events
    <3>1. /\ pool \in Nat /\ Len(txReqQueue) \in Nat /\ Events \in Nat
          /\ pool + Len(txReqQueue) + 1 + Busy(event) <= Events
      BY <2>2, RxAssumption DEF IInv, TypeOK, WithinPool
    <3>. QED  BY <2>1, <2>2, <3>1
  <2>4. TypeOK'
    BY <1>1, <2>1, <2>3 DEF IInv, TypeOK, rxVars
  <2>5. pool' + Len(txReqQueue') + Busy(sending')
          <= pool + Len(txReqQueue) + Busy(sending)
    BY <2>1, <2>2 DEF IInv, TypeOK
  <2>. QED  BY <1>1, <1>2, <2>4, <2>5, RxUntouched
<1>. QED  BY <1>3, <1>4 DEF Transmitter

-----------------------------------------------------------------------------
(* The pieces of a step of rxRun                                           *)

(* Lists lat with rem spots left, of their types and within their spots.   *)
Lists(lat, rem) ==
  /\ lat \in [Dests -> Node]
  /\ rem \in [Dests -> 0 .. Depth]
  /\ \A d \in Dests : Len(lat[d].nodes) <= Depth - rem[d]

(* Putting a frame on its latency list leaves the others alone.            *)
LEMMA PutFacts ==
  ASSUME IInv, NEW f \in Frame, f.dest \in Dests,
         NEW lat, NEW rem, Lists(lat, rem), NEW gone,
         PutOnLatency(f, lat, rem, gone)
  PROVE  /\ Lists(latency', remaining')
         /\ held' \subseteq held
         /\ \A d \in Dests : d # f.dest => latency'[d] = lat[d]
<1>. DEFINE r == Replaced(lat[f.dest], rem[f.dest], f)
<1>1. lat[f.dest] \in Node /\ rem[f.dest] \in 0 .. Depth
      /\ Len(lat[f.dest].nodes) <= Depth - rem[f.dest]
  BY DEF Lists
<1>2. r.list \in Node /\ r.rem \in 0 .. Depth /\ Len(r.list.nodes) <= Depth - r.rem
  BY <1>1, ReplacedFacts
<1>3. /\ latency' = [lat EXCEPT ![f.dest] = r.list]
      /\ remaining' = [rem EXCEPT ![f.dest] = r.rem]
      /\ held' \subseteq held
  BY DEF PutOnLatency
<1>. HIDE DEF r
<1>4. /\ latency' \in [Dests -> Node] /\ remaining' \in [Dests -> 0 .. Depth]
      /\ latency'[f.dest] = r.list /\ remaining'[f.dest] = r.rem
      /\ \A d \in Dests : d # f.dest => latency'[d] = lat[d] /\ remaining'[d] = rem[d]
  BY <1>2, <1>3 DEF Lists
<1>5. \A d \in Dests : Len(latency'[d].nodes) <= Depth - remaining'[d]
  BY <1>2, <1>4 DEF Lists
<1>. QED  BY <1>3, <1>4, <1>5 DEF Lists

(* Settle: the event is posted when it is complete and else stays; the     *)
(* check of its count never ends the program.                              *)
LEMMA SettleFacts ==
  ASSUME IInv, NEW e \in Event, Counted(e),
         NEW enabled, enabled \subseteq {"timing", "data"}, Settle(e, enabled)
  PROVE  /\ event' \in Event \union {NoEvent} /\ event' \in {e, NoEvent}
         /\ trgActive' \in BOOLEAN
         /\ fds' \subseteq {"timing", "data"}
         /\ trgActive' => fds' = enabled
         /\ exited' = FALSE
         /\ txReqQueue' \in Seq(Event)
         /\ Len(txReqQueue') + Busy(event') <= Len(txReqQueue) + 1
         /\ ActiveMatchesEvent' /\ CountsAgree'
<1>1. e # NoEvent
  BY NoEventAssumption
<1>2. exited' = FALSE
  <2>1. e.ctbs \subseteq Dests /\ IsFiniteSet(Dests \ e.ctbs)
    BY RxAssumption, FS_Difference DEF Event
  <2>2. Cardinality(Dests \ e.ctbs) <= Cardinality(Dests)
    BY RxAssumption, FS_Subset
  <2>3. Cardinality(Dests \ e.ctbs) \in Nat /\ Cardinality(Dests) \in Nat
    BY <2>1, RxAssumption, FS_CardinalityType
  <2>4. ~Miscounted(e)
    BY <2>2, <2>3 DEF Miscounted, Counted
  <2>. QED  BY <2>4 DEF Settle
<1>3. txReqQueue \in Seq(Event) /\ Len(txReqQueue) \in Nat
      /\ fds \subseteq {"timing", "data"}
  BY DEF IInv, TypeOK
<1>4. CASE Complete(e)
  <2>. DEFINE posted == [e EXCEPT !.ctbs = Dests \ @]
  <2>1. posted \in Event
    BY DEF Event
  <2>2. /\ txReqQueue' = IF Len(txReqQueue) < TxSlots
                         THEN Append(txReqQueue, posted) ELSE txReqQueue
        /\ event' = NoEvent /\ trgActive' = FALSE /\ fds' = fds \union {"timing"}
    BY <1>4 DEF Settle, Post
  <2>. HIDE DEF posted
  <2>3. txReqQueue' \in Seq(Event) /\ Len(txReqQueue') <= Len(txReqQueue) + 1
        /\ Len(txReqQueue') \in Nat
    BY <1>3, <2>1, <2>2
  <2>4. Busy(event') = 0
    BY <2>2 DEF Busy
  <2>5. Len(txReqQueue') + Busy(event') <= Len(txReqQueue) + 1
    BY <1>3, <2>3, <2>4
  <2>6. ActiveMatchesEvent' /\ CountsAgree'
    BY <2>2 DEF ActiveMatchesEvent, CountsAgree
  <2>. QED  BY <1>2, <1>3, <2>2, <2>3, <2>5, <2>6
<1>5. CASE ~Complete(e)
  <2>1. /\ event' = e /\ trgActive' = TRUE /\ fds' = enabled
        /\ txReqQueue' = txReqQueue
    BY <1>5 DEF Settle
  <2>2. Busy(event') = 1
    BY <1>1, <2>1 DEF Busy
  <2>3. ActiveMatchesEvent' /\ CountsAgree'
    BY <1>1, <1>5, <2>1 DEF ActiveMatchesEvent, CountsAgree, Complete, Counted
  <2>. QED  BY <1>2, <1>3, <2>1, <2>2, <2>3
<1>. QED  BY <1>4, <1>5

(* Offering a frame to an event none of whose pending destinations has a   *)
(* frame on its latency list leaves it so.                                 *)
LEMMA OfferFacts ==
  ASSUME IInv, NEW e \in Event, Counted(e), NEW f \in Frame, f.dest \in Dests,
         NEW lat, NEW rem, Lists(lat, rem),
         \A d \in e.ctbs : lat[d].nodes = << >>,
         NEW gone, Offer(e, f, lat, rem, gone)
  PROVE  /\ Lists(latency', remaining')
         /\ held' \subseteq held
         /\ PendingDrained'
         /\ Settle(Evaluated(e, f), Rearmed)
         /\ Evaluated(e, f) \in Event /\ Counted(Evaluated(e, f))
<1>1. Settle(Evaluated(e, f), Rearmed)
  BY DEF Offer
<1>2. /\ Evaluated(e, f) \in Event /\ Counted(Evaluated(e, f))
      /\ Evaluated(e, f).ctbs \subseteq e.ctbs
      /\ ToLatency(e, f) => f.dest \notin Evaluated(e, f).ctbs
  BY EvaluatedFacts
<1>3. Rearmed \subseteq {"timing", "data"}
  BY DEF Rearmed, IInv, TypeOK
<1>4. event' \in {Evaluated(e, f), NoEvent}
  BY <1>1, <1>2, <1>3, SettleFacts
<1>5. CASE ToLatency(e, f)
  <2>1. PutOnLatency(f, lat, rem, gone)
    BY <1>5 DEF Offer
  <2>2. /\ Lists(latency', remaining') /\ held' \subseteq held
        /\ \A d \in Dests : d # f.dest => latency'[d] = lat[d]
    BY <2>1, PutFacts
  <2>3. \A d \in Evaluated(e, f).ctbs : d \in Dests /\ d # f.dest /\ d \in e.ctbs
    BY <1>2, <1>5 DEF Event
  <2>4. PendingDrained'
    BY <1>4, <2>2, <2>3 DEF PendingDrained
  <2>. QED  BY <1>1, <1>2, <2>2, <2>4
<1>6. CASE ~ToLatency(e, f)
  <2>1. latency' = lat /\ remaining' = rem /\ held' \subseteq held
    BY <1>6 DEF Offer
  <2>2. PendingDrained'
    BY <1>2, <1>4, <2>1 DEF PendingDrained
  <2>. QED  BY <1>1, <1>2, <2>1, <2>2
<1>. QED  BY <1>5, <1>6

-----------------------------------------------------------------------------
(* The steps of rxRun                                                      *)

(* select takes a new run mode only while there is no event.               *)
LEMMA SelectKeeps ==
  ASSUME IInv, Select
  PROVE  IInv'
<1>. DEFINE armed == fds \union {"data"}
            ready == {c \in armed : \/ c = "timing" /\ timingQ # << >>
                                    \/ c = "data" /\ dataQ # << >>}
<1>1. /\ sent' = sent /\ dataQ' = dataQ /\ timingQ' = timingQ /\ lastStamp' = lastStamp
      /\ config' = config /\ target' = target /\ todo' = todo
      /\ pool' = pool /\ txReqQueue' = txReqQueue /\ sending' = sending /\ held' = held
      /\ trgActive' = trgActive /\ event' = event /\ latency' = latency
      /\ remaining' = remaining /\ disTrgCnt' = disTrgCnt /\ exited' = exited
  BY DEF Select, envVars, cfgVars, txVars
<1>2. /\ fds' = ready /\ ready # {}
      /\ pc' = IF "timing" \in ready THEN "timing" ELSE "data"
  BY DEF Select
<1>3. /\ "timing" \in ready => timingQ # << >> /\ "timing" \in fds
      /\ "data" \in ready => dataQ # << >>
      /\ ready \subseteq {"timing", "data"}
  BY DEF IInv, TypeOK
<1>. HIDE DEF ready
<1>4. /\ runMode' \in RunModes /\ blowOff' \in BOOLEAN
      /\ event # NoEvent => runMode' = runMode
  BY DEF Select, IInv, TypeOK, Config
<1>5. TypeOK'
  BY <1>1, <1>2, <1>3, <1>4 DEF IInv, TypeOK
<1>6. Reading'
  BY <1>1, <1>2, <1>3 DEF Reading
<1>7. Disarmed'
  BY <1>1, <1>2, <1>3, <1>4 DEF IInv, Disarmed, ActiveMatchesEvent
<1>8. WithinSpots' /\ WithinPool' /\ ActiveMatchesEvent' /\ NeverDiscards'
      /\ CountsAgree' /\ PendingDrained'
  BY <1>1 DEF IInv, WithinSpots, WithinPool, Busy, ActiveMatchesEvent,
              NeverDiscards, CountsAgree, PendingDrained
<1>. QED  BY <1>5, <1>6, <1>7, <1>8 DEF IInv

(* A timing message that is dropped was no trigger: with an event in       *)
(* progress the channel of the triggers is not read.                       *)
LEMMA DropTimingKeeps ==
  ASSUME IInv, DropTiming
  PROVE  IInv'
<1>1. /\ sent' = sent /\ dataQ' = dataQ /\ lastStamp' = lastStamp
      /\ config' = config /\ target' = target /\ todo' = todo
      /\ pool' = pool /\ txReqQueue' = txReqQueue /\ sending' = sending /\ held' = held
      /\ fds' = fds /\ runMode' = runMode /\ blowOff' = blowOff
      /\ trgActive' = trgActive /\ event' = event /\ latency' = latency
      /\ remaining' = remaining /\ exited' = exited
      /\ pc = "timing" /\ timingQ' = Tail(timingQ) /\ AfterTiming
  BY DEF DropTiming, cfgVars, txVars
<1>2. disTrgCnt' = disTrgCnt
  <2>1. trgActive /\ runMode = "EXTERNAL" => FALSE
    BY <1>1 DEF IInv, Reading, Disarmed
  <2>2. ~IsTrigger(Head(timingQ))
    BY <2>1 DEF DropTiming, IsTrigger
  <2>. QED  BY <2>2 DEF DropTiming
<1>3. timingQ' \in Seq([stamp : Nat, trigger : BOOLEAN])
  <2>1. timingQ # << >>
    BY <1>1 DEF IInv, Reading
  <2>. QED  BY <1>1, <2>1, HeadTailProperties DEF IInv, TypeOK
<1>4. pc' = IF "data" \in fds THEN "data" ELSE "select"
  BY <1>1 DEF AfterTiming
<1>5. TypeOK'
  BY <1>1, <1>2, <1>3, <1>4 DEF IInv, TypeOK
<1>6. Reading'
  BY <1>1, <1>4 DEF IInv, Reading
<1>7. Disarmed' /\ WithinSpots' /\ WithinPool' /\ ActiveMatchesEvent' /\ NeverDiscards'
      /\ CountsAgree' /\ PendingDrained'
  BY <1>1, <1>2 DEF IInv, Disarmed, WithinSpots, WithinPool, Busy, ActiveMatchesEvent,
                    NeverDiscards, CountsAgree, PendingDrained
<1>. QED  BY <1>5, <1>6, <1>7 DEF IInv

(* What Lists says of the latency lists is what the invariant says.        *)
LEMMA ListsInv ==
  ASSUME IInv
  PROVE  Lists(latency, remaining)
BY DEF IInv, TypeOK, WithinSpots, Lists, Node

(* What is proved of the latency lists is their part of the invariant.     *)
LEMMA ListsStep ==
  ASSUME Lists(latency', remaining')
  PROVE  /\ latency' \in [Dests -> [nodes : Seq(Frame), loose : BOOLEAN]]
         /\ remaining' \in [Dests -> 0 .. Depth]
         /\ WithinSpots'
BY DEF WithinSpots, Lists, Node

(* What is read of the window, setConfig in progress or not, is a number.  *)
LEMMA ReadType ==
  ASSUME IInv
  PROVE  Pres \subseteq Nat /\ Posts \subseteq Nat
BY DEF IInv, TypeOK, Config, Settings, Pres, Posts

(* A trigger starts an event that has drained the lists of the             *)
(* destinations it waits for, and disables the timing channel.             *)
LEMMA TakeTriggerKeeps ==
  ASSUME IInv, NEW post \in Posts, TakeTriggerWith(post)
  PROVE  IInv'
<1>. DEFINE m == Head(timingQ)
            e == NewEvent(m.stamp, config.pre, post)
            s == Seed(e)
<1>1. /\ sent' = sent /\ dataQ' = dataQ /\ lastStamp' = lastStamp
      /\ config' = config /\ target' = target /\ todo' = todo
      /\ sending' = sending /\ runMode' = runMode /\ blowOff' = blowOff
      /\ disTrgCnt' = disTrgCnt
      /\ pc = "timing" /\ timingQ' = Tail(timingQ) /\ ~trgActive
  BY DEF TakeTriggerWith, cfgVars
<1>2. pc' = IF "data" \in fds THEN "data" ELSE "select"
  BY DEF TakeTriggerWith, AfterTiming
<1>3. m \in [stamp : Nat, trigger : BOOLEAN] /\ timingQ' \in Seq([stamp : Nat, trigger : BOOLEAN])
  <2>1. timingQ # << >>
    BY <1>1 DEF IInv, Reading
  <2>. QED  BY <1>1, <2>1, HeadTailProperties DEF IInv, TypeOK
<1>4. e \in Event
  <2>1. m.stamp \in Int /\ config.pre \in Nat /\ post \in Nat
    BY <1>3, ReadType DEF IInv, TypeOK, Config
  <2>. QED  BY <2>1, NewEventType
<1>5. event = NoEvent
  BY <1>1 DEF IInv, ActiveMatchesEvent
<1>. HIDE DEF m, e
<1>6. CASE NoDescriptor
  <2>1. /\ fds' = fds /\ trgActive' = trgActive /\ event' = event /\ latency' = latency
        /\ remaining' = remaining /\ pool' = pool /\ txReqQueue' = txReqQueue
        /\ held' = held /\ exited' = TRUE
    BY <1>6 DEF NoDescriptor
  <2>2. TypeOK'
    BY <1>1, <1>2, <1>3, <2>1 DEF IInv, TypeOK
  <2>3. Reading'
    BY <1>1, <1>2, <2>1 DEF IInv, Reading
  <2>4. Disarmed' /\ WithinSpots' /\ WithinPool' /\ ActiveMatchesEvent' /\ NeverDiscards'
        /\ CountsAgree' /\ PendingDrained'
    BY <1>1, <2>1 DEF IInv, Disarmed, WithinSpots, WithinPool, Busy, ActiveMatchesEvent,
                      NeverDiscards, CountsAgree, PendingDrained
  <2>. QED  BY <2>2, <2>3, <2>4 DEF IInv
<1>7. CASE ~NoDescriptor
  <2>1. /\ pool > 0 /\ pool' = pool - 1 /\ latency' = s.latency
        /\ remaining' = s.remaining /\ held' \subseteq held
        /\ Settle(s.event, fds \ {"timing"})
    BY <1>7 DEF TakeTriggerWith, m, e
  <2>2. /\ s.event \in Event /\ Counted(s.event)
        /\ Lists(latency', remaining')
        /\ \A d \in s.event.ctbs : latency'[d].nodes = << >>
    BY <1>4, <2>1, SeedFacts DEF IInv, Lists
  <2>. HIDE DEF s
  <2>3. fds \ {"timing"} \subseteq {"timing", "data"}
    BY DEF IInv, TypeOK
  <2>4. /\ event' \in Event \union {NoEvent} /\ event' \in {s.event, NoEvent}
        /\ trgActive' \in BOOLEAN
        /\ fds' \subseteq {"timing", "data"}
        /\ trgActive' => fds' = fds \ {"timing"}
        /\ exited' = FALSE
        /\ txReqQueue' \in Seq(Event)
        /\ Len(txReqQueue') + Busy(event') <= Len(txReqQueue) + 1
        /\ ActiveMatchesEvent' /\ CountsAgree'
    BY <2>1, <2>2, <2>3, SettleFacts
  <2>5. /\ pool' \in 0 .. Events
        /\ WithinPool'
    <3>1. pool \in 0 .. Events /\ Events \in Nat /\ Len(txReqQueue) \in Nat
          /\ Len(txReqQueue') \in Nat
      BY <2>4, RxAssumption DEF IInv, TypeOK
    <3>2. Busy(event) = 0 /\ Busy(event') \in 0 .. 1 /\ Busy(sending) \in 0 .. 1
          /\ Busy(sending') = Busy(sending)
      BY <1>1, <1>5 DEF Busy
    <3>. QED  BY <2>1, <2>4, <3>1, <3>2 DEF IInv, WithinPool
  <2>6. PendingDrained'
    BY <2>2, <2>4 DEF PendingDrained
  <2>7. TypeOK'
    BY <1>1, <1>2, <1>3, <2>1, <2>2, <2>4, <2>5, ListsStep DEF IInv, TypeOK
  <2>8. Reading'
    BY <1>1, <1>2, <2>1, <2>2, <2>4 DEF IInv, Reading, Settle
  <2>9. Disarmed' /\ NeverDiscards'
    BY <1>1, <2>4 DEF IInv, Disarmed, NeverDiscards
  <2>. QED  BY <2>2, <2>4, <2>5, <2>6, <2>7, <2>8, <2>9, ListsStep DEF IInv
<1>. QED  BY <1>6, <1>7

(* The frame to be handled is there.                                       *)
LEMMA HeadFrame ==
  ASSUME IInv, pc = "data"
  PROVE  Head(dataQ) \in Frame /\ Tail(dataQ) \in Seq(Frame)
<1>1. dataQ # << >> /\ dataQ \in Seq(Frame)
  BY DEF IInv, TypeOK, Reading
<1>. QED  BY <1>1, HeadTailProperties

(* A frame that is returned at once leaves the event alone.                *)
LEMMA ReturnKeeps ==
  ASSUME IInv, ReturnStray \/ ReturnFrame
  PROVE  IInv'
<1>1. /\ sent' = sent /\ timingQ' = timingQ /\ lastStamp' = lastStamp
      /\ config' = config /\ target' = target /\ todo' = todo
      /\ pool' = pool /\ txReqQueue' = txReqQueue /\ sending' = sending
      /\ runMode' = runMode /\ blowOff' = blowOff
      /\ trgActive' = trgActive /\ event' = event /\ latency' = latency
      /\ remaining' = remaining /\ exited' = exited /\ disTrgCnt' = disTrgCnt
      /\ pc = "data" /\ pc' = "select" /\ dataQ' = Tail(dataQ) /\ held' \subseteq held
  BY DEF ReturnStray, ReturnFrame, cfgVars
<1>2. fds' \in {fds, Rearmed}
  BY DEF ReturnStray, ReturnFrame
<1>3. fds' \subseteq {"timing", "data"} /\ (trgActive => fds' = fds)
  BY <1>2 DEF Rearmed, IInv, TypeOK
<1>4. TypeOK'
  BY <1>1, <1>3, HeadFrame DEF IInv, TypeOK
<1>5. Reading'
  BY <1>1 DEF Reading
<1>6. Disarmed' /\ WithinSpots' /\ WithinPool' /\ ActiveMatchesEvent' /\ NeverDiscards'
      /\ CountsAgree' /\ PendingDrained'
  BY <1>1, <1>3 DEF IInv, Disarmed, WithinSpots, WithinPool, Busy, ActiveMatchesEvent,
                    NeverDiscards, CountsAgree, PendingDrained
<1>. QED  BY <1>4, <1>5, <1>6 DEF IInv

(* Without an event, a frame goes to its latency list.                     *)
LEMMA KeepFrameKeeps ==
  ASSUME IInv, KeepFrame
  PROVE  IInv'
<1>. DEFINE f == Head(dataQ)
<1>1. /\ sent' = sent /\ timingQ' = timingQ /\ lastStamp' = lastStamp
      /\ config' = config /\ target' = target /\ todo' = todo
      /\ pool' = pool /\ txReqQueue' = txReqQueue /\ sending' = sending
      /\ runMode' = runMode /\ blowOff' = blowOff
      /\ trgActive' = trgActive /\ event' = event
      /\ exited' = exited /\ disTrgCnt' = disTrgCnt /\ fds' = Rearmed
      /\ pc = "data" /\ pc' = "select" /\ dataQ' = Tail(dataQ)
      /\ f.dest \in Dests /\ ~trgActive
      /\ PutOnLatency(f, latency, remaining, {})
  BY DEF KeepFrame, Accept, cfgVars
<1>2. f \in Frame /\ dataQ' \in Seq(Frame)
  BY <1>1, HeadFrame
<1>3. Lists(latency', remaining') /\ held' \subseteq held
  BY <1>1, <1>2, ListsInv, PutFacts
<1>. HIDE DEF f
<1>4. fds' \subseteq {"timing", "data"}
  BY <1>1 DEF Rearmed, IInv, TypeOK
<1>5. event = NoEvent
  BY <1>1 DEF IInv, ActiveMatchesEvent
<1>6. TypeOK'
  BY <1>1, <1>2, <1>3, <1>4, ListsStep DEF IInv, TypeOK
<1>7. Reading' /\ Disarmed' /\ ActiveMatchesEvent' /\ NeverDiscards'
      /\ CountsAgree' /\ PendingDrained' /\ WithinPool'
  BY <1>1, <1>5 DEF IInv, Reading, Disarmed, WithinPool, Busy, ActiveMatchesEvent,
                    NeverDiscards, CountsAgree, PendingDrained
<1>. QED  BY <1>3, <1>6, <1>7, ListsStep DEF IInv

(* With one, it is offered to it.                                          *)
LEMMA AddFrameKeeps ==
  ASSUME IInv, AddFrame
  PROVE  IInv'
<1>. DEFINE f == Head(dataQ)
<1>1. /\ sent' = sent /\ timingQ' = timingQ /\ lastStamp' = lastStamp
      /\ config' = config /\ target' = target /\ todo' = todo
      /\ pool' = pool /\ sending' = sending
      /\ runMode' = runMode /\ blowOff' = blowOff /\ disTrgCnt' = disTrgCnt
      /\ pc = "data" /\ pc' = "select" /\ dataQ' = Tail(dataQ)
      /\ f.dest \in Dests /\ trgActive
      /\ Offer(event, f, latency, remaining, {})
  BY DEF AddFrame, Accept, cfgVars
<1>2. f \in Frame /\ dataQ' \in Seq(Frame)
  BY <1>1, HeadFrame
<1>. HIDE DEF f
<1>3. event \in Event /\ event # NoEvent
  BY <1>1 DEF IInv, ActiveMatchesEvent, TypeOK
<1>4. Counted(event) /\ \A d \in event.ctbs : latency[d].nodes = << >>
  BY <1>3 DEF IInv, CountsAgree, PendingDrained, Counted
<1>. DEFINE e == Evaluated(event, f)
<1>5. /\ Lists(latency', remaining') /\ held' \subseteq held /\ PendingDrained'
      /\ Settle(e, Rearmed) /\ e \in Event /\ Counted(e)
  BY <1>1, <1>2, <1>3, <1>4, ListsInv, OfferFacts
<1>. HIDE DEF e
<1>6. Rearmed = fds /\ fds \subseteq {"timing", "data"}
  BY <1>1 DEF Rearmed, IInv, TypeOK
<1>7. /\ event' \in Event \union {NoEvent} /\ event' \in {e, NoEvent}
      /\ trgActive' \in BOOLEAN
      /\ fds' \subseteq {"timing", "data"}
      /\ trgActive' => fds' = fds
      /\ exited' = FALSE
      /\ txReqQueue' \in Seq(Event)
      /\ Len(txReqQueue') + Busy(event') <= Len(txReqQueue) + 1
      /\ ActiveMatchesEvent' /\ CountsAgree'
  BY <1>5, <1>6, SettleFacts
<1>8. WithinPool'
  <2>1. pool \in Nat /\ Events \in Nat /\ Len(txReqQueue) \in Nat
        /\ Len(txReqQueue') \in Nat /\ pool' = pool
    BY <1>1, <1>7, RxAssumption DEF IInv, TypeOK
  <2>2. Busy(event) = 1 /\ Busy(event') \in 0 .. 1 /\ Busy(sending) \in 0 .. 1
        /\ Busy(sending') = Busy(sending)
    BY <1>1, <1>3 DEF Busy
  <2>. QED  BY <1>7, <2>1, <2>2 DEF IInv, WithinPool
<1>9. TypeOK'
  BY <1>1, <1>2, <1>5, <1>7, ListsStep DEF IInv, TypeOK
<1>10. Reading' /\ Disarmed' /\ NeverDiscards'
  BY <1>1, <1>7 DEF IInv, Reading, Disarmed, NeverDiscards
<1>. QED  BY <1>5, <1>7, <1>8, <1>9, <1>10, ListsStep DEF IInv

(* A software trigger starts an event in software trigger mode.            *)
LEMMA SoftTriggerKeeps ==
  ASSUME IInv, NEW pre \in Pres, NEW post \in Posts, SoftTriggerWith(pre, post)
  PROVE  IInv'
<1>. DEFINE f == Head(dataQ)
            e0 == NewEvent(SoftTime(f, config.period), pre, post)
            s == Seed(e0)
<1>1. /\ sent' = sent /\ timingQ' = timingQ /\ lastStamp' = lastStamp
      /\ config' = config /\ target' = target /\ todo' = todo
      /\ sending' = sending
      /\ runMode' = runMode /\ blowOff' = blowOff /\ disTrgCnt' = disTrgCnt
      /\ pc = "data" /\ pc' = "select" /\ dataQ' = Tail(dataQ)
      /\ f.dest \in Dests /\ ~trgActive /\ runMode = "SOFTWARE"
  BY DEF SoftTriggerWith, StartsEvent, Accept, cfgVars
<1>2. f \in Frame /\ dataQ' \in Seq(Frame)
  BY <1>1, HeadFrame
<1>3. event = NoEvent
  BY <1>1 DEF IInv, ActiveMatchesEvent
<1>4. e0 \in Event
  <2>1. config.period \in Nat \ {0} /\ pre \in Nat /\ post \in Nat
    BY ReadType DEF IInv, TypeOK, Config
  <2>2. End(f) \in Nat
    BY <1>2, FrameTimes
  <2>3. End(f) % config.period \in Int
    BY <2>1, <2>2
  <2>4. SoftTime(f, config.period) \in Int
    BY <2>2, <2>3 DEF SoftTime
  <2>. QED  BY <2>1, <2>4, NewEventType
<1>5. Rearmed \subseteq {"timing", "data"}
  BY DEF Rearmed, IInv, TypeOK
<1>6. CASE NoDescriptor
  <2>1. /\ fds' = fds /\ trgActive' = trgActive /\ event' = event /\ latency' = latency
        /\ remaining' = remaining /\ pool' = pool /\ txReqQueue' = txReqQueue
        /\ held' = held /\ exited' = TRUE
    BY <1>6 DEF NoDescriptor
  <2>2. TypeOK'
    BY <1>1, <1>2, <2>1 DEF IInv, TypeOK
  <2>3. Reading' /\ Disarmed' /\ WithinSpots' /\ WithinPool' /\ ActiveMatchesEvent'
        /\ NeverDiscards' /\ CountsAgree' /\ PendingDrained'
    BY <1>1, <2>1 DEF IInv, Reading, Disarmed, WithinSpots, WithinPool, Busy,
                      ActiveMatchesEvent, NeverDiscards, CountsAgree, PendingDrained
  <2>. QED  BY <2>2, <2>3 DEF IInv
<1>7. CASE ~NoDescriptor
  <2>1. /\ pool > 0 /\ pool' = pool - 1
        /\ IF Complete(s.event)
           THEN /\ Settle(s.event, Rearmed)
                /\ latency' = s.latency
                /\ remaining' = s.remaining
                /\ held' = held \ s.free
           ELSE Offer(s.event, f, s.latency, s.remaining, s.free)
    BY <1>7 DEF SoftTriggerWith
  <2>2. /\ s.event \in Event /\ Counted(s.event)
        /\ Lists(s.latency, s.remaining)
        /\ \A d \in s.event.ctbs : s.latency[d].nodes = << >>
    BY <1>4, SeedFacts DEF IInv, Lists
  <2>. HIDE DEF s, f
  <2>3. PICK e \in Event :
          /\ Counted(e) /\ Settle(e, Rearmed)
          /\ Lists(latency', remaining') /\ held' \subseteq held
          /\ PendingDrained'
    <3>1. CASE Complete(s.event)
      <4>1. Settle(s.event, Rearmed) /\ latency' = s.latency
            /\ remaining' = s.remaining /\ held' \subseteq held
        BY <2>1, <3>1
      <4>2. event' \in {s.event, NoEvent}
        BY <1>5, <2>2, <4>1, SettleFacts
      <4>3. PendingDrained'
        BY <2>2, <4>1, <4>2 DEF PendingDrained
      <4>. QED  BY <2>2, <4>1, <4>3
    <3>2. CASE ~Complete(s.event)
      <4>1. Offer(s.event, f, s.latency, s.remaining, s.free)
        BY <2>1, <3>2
      <4>2. /\ Lists(latency', remaining') /\ held' \subseteq held /\ PendingDrained'
            /\ Settle(Evaluated(s.event, f), Rearmed)
            /\ Evaluated(s.event, f) \in Event /\ Counted(Evaluated(s.event, f))
        BY <1>1, <1>2, <2>2, <4>1, OfferFacts
      <4>. QED  BY <4>2
    <3>. QED  BY <3>1, <3>2
  <2>4. /\ event' \in Event \union {NoEvent}
        /\ trgActive' \in BOOLEAN
        /\ fds' \subseteq {"timing", "data"}
        /\ exited' = FALSE
        /\ txReqQueue' \in Seq(Event)
        /\ Len(txReqQueue') + Busy(event') <= Len(txReqQueue) + 1
        /\ ActiveMatchesEvent' /\ CountsAgree'
    BY <1>5, <2>3, SettleFacts
  <2>5. pool' \in 0 .. Events /\ WithinPool'
    <3>1. pool \in 0 .. Events /\ Events \in Nat /\ Len(txReqQueue) \in Nat
          /\ Len(txReqQueue') \in Nat
      BY <2>4, RxAssumption DEF IInv, TypeOK
    <3>2. Busy(event) = 0 /\ Busy(event') \in 0 .. 1 /\ Busy(sending) \in 0 .. 1
          /\ Busy(sending') = Busy(sending)
      BY <1>1, <1>3 DEF Busy
    <3>. QED  BY <2>1, <2>4, <3>1, <3>2 DEF IInv, WithinPool
  <2>6. TypeOK'
    BY <1>1, <1>2, <2>3, <2>4, <2>5, ListsStep DEF IInv, TypeOK
  <2>7. Reading' /\ Disarmed' /\ NeverDiscards'
    BY <1>1 DEF IInv, Reading, Disarmed, NeverDiscards
  <2>. QED  BY <2>3, <2>4, <2>5, <2>6, <2>7, ListsStep DEF IInv
<1>. QED  BY <1>6, <1>7

-----------------------------------------------------------------------------
(* The theorems                                                            *)

(* Every step keeps the invariant.                                         *)
LEMMA InvStep ==
  ASSUME IInv, [Next]_vars
  PROVE  IInv'
<1>1. CASE Environment
  BY <1>1, ArrivalKeeps, ConfigKeeps DEF Environment
<1>2. CASE Receiver
  <2>1. CASE TakeTrigger
    BY <2>1, TakeTriggerKeeps DEF TakeTrigger
  <2>2. CASE SoftTrigger
    BY <2>2, SoftTriggerKeeps DEF SoftTrigger
  <2>. QED  BY <1>2, <2>1, <2>2, SelectKeeps, DropTimingKeeps, ReturnKeeps,
               KeepFrameKeeps, AddFrameKeeps DEF Receiver
<1>3. CASE Transmitter
  BY <1>3, TransmitterKeeps
<1>4. CASE UNCHANGED vars
  <2>1. /\ UNCHANGED rxVars /\ dataQ' = dataQ /\ timingQ' = timingQ
        /\ pool' = pool /\ txReqQueue' = txReqQueue /\ sending' = sending
        /\ sent' = sent /\ lastStamp' = lastStamp /\ held' = held
        /\ config' = config /\ target' = target /\ todo' = todo
    BY <1>4 DEF vars, envVars, cfgVars, txVars
  <2>2. TypeOK'
    BY <2>1 DEF IInv, TypeOK, rxVars
  <2>3. Len(dataQ) <= Len(dataQ') /\ Len(timingQ) <= Len(timingQ')
        /\ pool' + Len(txReqQueue') + Busy(sending')
             <= pool + Len(txReqQueue) + Busy(sending)
    BY <2>1 DEF IInv, TypeOK, Busy
  <2>. QED  BY <2>1, <2>2, <2>3, RxUntouched
<1>. QED  BY <1>1, <1>2, <1>3, <1>4 DEF Next

(* IInv holds in every state of rxRun and what is around it.               *)
LEMMA Invariant == Spec => []IInv
<1>1. IInv /\ [Next]_vars => IInv'
  BY InvStep
<1>. QED  BY InvInit, <1>1, PTL DEF Spec

(* Type correctness; with it, that no latency list ever has more spots     *)
(* left than it has, or fewer than none, and that no more descriptors come *)
(* back to the pool than it handed out.                                    *)
THEOREM RxTypes == Spec => []TypeOK
<1>1. IInv => TypeOK
  BY DEF IInv
<1>. QED  BY Invariant, <1>1, PTL

(* trgActive and event agree whenever rxRun looks at either.               *)
THEOREM RxActive == Spec => []ActiveMatchesEvent
<1>1. IInv => ActiveMatchesEvent
  BY DEF IInv
<1>. QED  BY Invariant, <1>1, PTL

(* rxRun never reads a trigger that it has to throw away: the timing       *)
(* channel is disabled while an event waits, whatever the configuration    *)
(* thread does to the run mode meanwhile.                                  *)
THEOREM RxNoDiscard == Spec => []NeverDiscards
<1>1. IInv => NeverDiscards
  BY DEF IInv
<1>. QED  BY Invariant, <1>1, PTL

(* The checks by which evaluate and postEventAndReset end the program      *)
(* cannot fail.                                                            *)
THEOREM RxCounts == Spec => []CountsAgree
<1>1. IInv => CountsAgree
  BY DEF IInv
<1>. QED  BY Invariant, <1>1, PTL

(* No frame of a destination an event waits for is on its latency list.    *)
THEOREM RxDrained == Spec => []PendingDrained
<1>1. IInv => PendingDrained
  BY DEF IInv
<1>. QED  BY Invariant, <1>1, PTL

(* The event in progress is described consistently in all four places.     *)
THEOREM RxBookkeeping == Spec => []Bookkeeping
<1>1. IInv => Bookkeeping
  BY DEF IInv, Bookkeeping
<1>. QED  BY Invariant, <1>1, PTL

-----------------------------------------------------------------------------
(***************************************************************************)
(* The second part: the frames of a destination on their way               *)
(***************************************************************************)

-----------------------------------------------------------------------------
(* Time stamps                                                             *)

LEMMA Multiples ==
  ASSUME NEW m \in Nat, NEW n \in Nat, m < n
  PROVE  /\ (m + 1) * FrameTicks \in Nat /\ n * FrameTicks \in Nat
         /\ (m + 1) * FrameTicks <= n * FrameTicks
         /\ m * FrameTicks < (m + 1) * FrameTicks
<1>1. FrameTicks \in Nat \ {0}
  BY RxAssumption
<1>. DEFINE k == n - (m + 1)
<1>2. k \in Nat /\ n = (m + 1) + k
  OBVIOUS
<1>. HIDE DEF k
<1>3. \A i, j \in Nat : i * j \in Nat
  OBVIOUS
<1>4. n * FrameTicks = (m + 1) * FrameTicks + k * FrameTicks
  BY <1>1, <1>2
<1>5. (m + 1) * FrameTicks = m * FrameTicks + FrameTicks
  BY <1>1
<1>6. (m + 1) * FrameTicks \in Nat /\ k * FrameTicks \in Nat /\ m * FrameTicks \in Nat
  BY <1>1, <1>2, <1>3
<1>. QED  BY <1>1, <1>4, <1>5, <1>6

LEMMA NextTime ==
  ASSUME NEW n \in Nat
  PROVE  /\ n * FrameTicks \in Nat /\ (n + 1) * FrameTicks \in Nat
         /\ n * FrameTicks <= (n + 1) * FrameTicks
<1>1. FrameTicks \in Nat
  BY RxAssumption
<1>2. (n + 1) * FrameTicks = n * FrameTicks + FrameTicks
  BY <1>1
<1>3. \A i, j \in Nat : i * j \in Nat
  OBVIOUS
<1>4. n * FrameTicks \in Nat
  BY <1>1, <1>3
<1>. QED  BY <1>1, <1>2, <1>4

(* The end of the window of an event on a list.                            *)
LEMMA EventEnds ==
  ASSUME NEW A \in Seq(Event), NEW i \in DOMAIN A
  PROVE  A[i] \in Event /\ A[i].end \in Int
<1>1. A[i] \in Event
  OBVIOUS
<1>. QED  BY <1>1 DEF Event

(* A frame ends when the next one begins, or before.                       *)
LEMMA LaterBegins ==
  ASSUME NEW f \in Frame, NEW g \in Frame, f.seq < g.seq
  PROVE  End(f) <= Beg(g)
<1>1. f.seq \in Nat /\ g.seq \in Nat
  BY DEF Frame
<1>. QED  BY <1>1, Multiples DEF Beg, End

LEMMA SentEnds ==
  ASSUME NEW f \in Frame, NEW n \in Nat, f.seq < n
  PROVE  End(f) <= n * FrameTicks /\ n * FrameTicks \in Nat
<1>1. f.seq \in Nat
  BY DEF Frame
<1>. QED  BY <1>1, Multiples DEF End

(* After a frame that ends with a window or later, all is beyond it, ...   *)
LEMMA BeyondAfter ==
  ASSUME NEW e \in Event, NEW g \in Frame, e.end <= End(g), NEW n \in Nat, g.seq < n,
         NEW F, \A f \in F : f \in Frame /\ g.seq < f.seq
  PROVE  e.end <= n * FrameTicks /\ \A f \in F : e.end <= Beg(f)
<1>1. e.end \in Int /\ End(g) \in Nat
  BY FrameTimes DEF Event
<1>2. End(g) <= n * FrameTicks /\ n * FrameTicks \in Nat
  BY SentEnds
<1>3. ASSUME NEW f \in F PROVE e.end <= Beg(f)
  <2>1. f \in Frame /\ g.seq < f.seq
    OBVIOUS
  <2>2. End(g) <= Beg(f) /\ Beg(f) \in Nat
    BY <2>1, LaterBegins, FrameTimes
  <2>. QED  BY <1>1, <2>2
<1>. QED  BY <1>1, <1>2, <1>3

LEMMA FrameSpans ==
  ASSUME NEW f \in Frame
  PROVE  Beg(f) < End(f)
<1>1. f.seq \in Nat /\ f.seq + 1 \in Nat /\ f.seq < f.seq + 1
  BY DEF Frame
<1>. QED  BY <1>1, Multiples DEF Beg, End

(* ... and from the first frame on that begins after it.                   *)
LEMMA BeyondFrom ==
  ASSUME NEW e \in Event, NEW g \in Frame, e.end <= Beg(g), NEW n \in Nat, g.seq < n,
         NEW F, \A f \in F : f \in Frame /\ (f = g \/ g.seq < f.seq)
  PROVE  e.end <= n * FrameTicks /\ \A f \in F : e.end <= Beg(f)
<1>1. e.end \in Int /\ Beg(g) \in Nat /\ End(g) \in Nat /\ Beg(g) < End(g)
  BY FrameTimes, FrameSpans DEF Event
<1>2. e.end <= End(g)
  BY <1>1
<1>. DEFINE G == F \ {g}
<1>3. \A f \in G : f \in Frame /\ g.seq < f.seq
  OBVIOUS
<1>4. \A f \in F : f \in G \/ f = g
  OBVIOUS
<1>. HIDE DEF G
<1>5. e.end <= n * FrameTicks /\ \A f \in G : e.end <= Beg(f)
  BY <1>2, <1>3, BeyondAfter
<1>. QED  BY <1>4, <1>5

-----------------------------------------------------------------------------
(* Sequences                                                               *)

LEMMA ToSetSeq ==
  ASSUME NEW S, NEW s \in Seq(S)
  PROVE  ToSet(s) \subseteq S
BY DEF ToSet

LEMMA ToSetAppend ==
  ASSUME NEW S, NEW s \in Seq(S), NEW e
  PROVE  ToSet(Append(s, e)) = ToSet(s) \union {e}
<1>1. DOMAIN Append(s, e) = 1 .. Len(s) + 1 /\ DOMAIN s = 1 .. Len(s) /\ Len(s) \in Nat
  OBVIOUS
<1>2. Append(s, e)[Len(s) + 1] = e /\ \A i \in 1 .. Len(s) : Append(s, e)[i] = s[i]
  OBVIOUS
<1>3. \A i \in 1 .. Len(s) + 1 : i \in 1 .. Len(s) \/ i = Len(s) + 1
  BY <1>1
<1>4. Len(s) + 1 \in 1 .. Len(s) + 1 /\ \A i \in 1 .. Len(s) : i \in 1 .. Len(s) + 1
  BY <1>1
<1>. QED  BY <1>1, <1>2, <1>3, <1>4 DEF ToSet

LEMMA ToSetTail ==
  ASSUME NEW S, NEW s \in Seq(S), s # << >>
  PROVE  /\ ToSet(Tail(s)) \subseteq ToSet(s)
         /\ ToSet(s) = {Head(s)} \union ToSet(Tail(s))
<1>1. Len(s) \in Nat \ {0} /\ Len(Tail(s)) = Len(s) - 1
      /\ DOMAIN s = 1 .. Len(s) /\ DOMAIN Tail(s) = 1 .. Len(s) - 1
      /\ Head(s) = s[1]
  BY EmptySeq
<1>2. \A i \in 1 .. Len(s) - 1 : Tail(s)[i] = s[i + 1] /\ i + 1 \in 1 .. Len(s)
  BY <1>1
<1>3. \A i \in 1 .. Len(s) : i = 1 \/ (i - 1 \in 1 .. Len(s) - 1 /\ Tail(s)[i - 1] = s[i])
  BY <1>1
<1>4. s[1] \in ToSet(s)
  BY <1>1 DEF ToSet
<1>5. ToSet(Tail(s)) \subseteq ToSet(s)
  BY <1>1, <1>2 DEF ToSet
<1>6. \A i \in 1 .. Len(s) : s[i] = s[1] \/ s[i] \in ToSet(Tail(s))
  BY <1>1, <1>3 DEF ToSet
<1>7. ToSet(s) \subseteq {s[1]} \union ToSet(Tail(s))
  BY <1>1, <1>6 DEF ToSet
<1>. QED  BY <1>1, <1>4, <1>5, <1>7

(* A list in order stays so when its head is removed or a frame that is    *)
(* younger than all on it is added.                                        *)
LEMMA IncreasingAppend ==
  ASSUME NEW l \in Seq(Frame), NEW f \in Frame, Increasing(l), Older(ToSet(l), {f})
  PROVE  Increasing(Append(l, f))
<1>. SUFFICES ASSUME NEW i \in DOMAIN Append(l, f), NEW j \in DOMAIN Append(l, f), i < j
     PROVE  Append(l, f)[i].seq < Append(l, f)[j].seq
  BY DEF Increasing
<1>1. DOMAIN l = 1 .. Len(l) /\ Len(l) \in Nat /\ i \in 1 .. Len(l) /\ j \in 1 .. Len(l) + 1
  OBVIOUS
<1>2. Append(l, f)[i] = l[i] /\ l[i] \in ToSet(l)
  BY <1>1 DEF ToSet
<1>3. CASE j = Len(l) + 1
  BY <1>2, <1>3 DEF Older
<1>4. CASE j # Len(l) + 1
  BY <1>1, <1>2, <1>4 DEF Increasing
<1>. QED  BY <1>3, <1>4

LEMMA IncreasingTail ==
  ASSUME NEW l \in Seq(Frame), l # << >>, Increasing(l)
  PROVE  Increasing(Tail(l)) /\ Older({Head(l)}, ToSet(Tail(l)))
<1>1. Len(l) \in Nat \ {0} /\ DOMAIN l = 1 .. Len(l) /\ DOMAIN Tail(l) = 1 .. Len(l) - 1
      /\ Head(l) = l[1]
  BY EmptySeq
<1>2. \A i \in 1 .. Len(l) - 1 : Tail(l)[i] = l[i + 1] /\ i + 1 \in 1 .. Len(l)
                                 /\ 1 < i + 1 /\ 1 \in 1 .. Len(l)
  BY <1>1
<1>3. Increasing(Tail(l))
  BY <1>1, <1>2 DEF Increasing
<1>4. Older({Head(l)}, ToSet(Tail(l)))
  BY <1>1, <1>2 DEF Increasing, Older, ToSet
<1>. QED  BY <1>3, <1>4

-----------------------------------------------------------------------------
(* One destination: the channel                                            *)

(* A frame arrives: it is younger than all that were sent.                 *)
LEMMA StreamArrive ==
  ASSUME NEW d, NEW A \in Seq(Event), NEW W, NEW lat \in Seq(Frame),
         NEW U, NEW H \in SUBSET Frame, NEW n \in Nat, NEW x,
         Stream(d, A, W, lat, U, H, n, x), d \in Dests,
         NEW f \in Frame, f.dest = d, f.seq = n
  PROVE  Stream(d, A, W, lat, U \union {f}, H \union {f}, n + 1, x)
<1>. DEFINE V == U \union {f}
            G == H \union {f}
            Ls == {A[i].list[d] : i \in DOMAIN A}
<1>1. U \subseteq H /\ \A g \in H : g \in Frame /\ g.seq \in Nat /\ g.dest = d /\ g.seq < n
  BY DEF Stream, Frame
<1>2. V \subseteq G /\ \A g \in G : g.dest = d /\ g.seq < n + 1
  BY <1>1
<1>3. (\A l : ToSet(l) \subseteq H => Older(ToSet(l), {f})) /\ Older(G \ V, V)
  BY <1>1 DEF Older, Stream
<1>4. Listed(Ls, lat, U, H)
  BY DEF Stream
<1>5. \A l : ToSet(l) \subseteq H /\ Whole(l, H) => Whole(l, G)
  BY <1>1 DEF Whole
<1>6. Listed(Ls, lat, V, G)
  BY <1>3, <1>4, <1>5 DEF Listed, Older
<1>7. \A i, j \in DOMAIN A :
        i < j => Older(ToSet(A[i].list[d]), ToSet(A[j].list[d]))
  BY DEF Stream
<1>8. n * FrameTicks \in Nat /\ (n + 1) * FrameTicks \in Nat
      /\ n * FrameTicks <= (n + 1) * FrameTicks /\ Beg(f) = n * FrameTicks
  BY NextTime DEF Beg
<1>9. \A i \in DOMAIN A : i < Len(A) \/ d \notin W => Beyond(A[i], lat, V, n + 1)
  <2>. SUFFICES ASSUME NEW i \in DOMAIN A, i < Len(A) \/ d \notin W
       PROVE  Beyond(A[i], lat, V, n + 1)
    OBVIOUS
  <2>1. Beyond(A[i], lat, U, n)
    BY DEF Stream
  <2>2. A[i].end \in Int
    BY EventEnds
  <2>. HIDE DEF G, Ls
  <2>. QED  BY <1>8, <2>1, <2>2 DEF Beyond
<1>10. \A l : CaughtUp(l, U, H) => CaughtUp(l, V, G)
  BY DEF CaughtUp
<1>11. d \in W => A # << >> /\ lat = << >>
  BY DEF Stream
<1>12. (~x => CaughtUp(lat, V, G)) /\ (~x /\ d \in W => CaughtUp(A[Len(A)].list[d], V, G))
  BY <1>10 DEF Stream
<1>. HIDE DEF V, G
<1>13. Stream(d, A, W, lat, V, G, n + 1, x)
  BY <1>2, <1>3, <1>6, <1>7, <1>9, <1>11, <1>12 DEF Stream
<1>. QED  BY <1>13 DEF V, G

(* A frame is lost.                                                        *)
LEMMA StreamLost ==
  ASSUME NEW d, NEW A \in Seq(Event), NEW W, NEW lat \in Seq(Frame),
         NEW U, NEW H \in SUBSET Frame, NEW n \in Nat, NEW x,
         Stream(d, A, W, lat, U, H, n, x), d \in Dests
  PROVE  Stream(d, A, W, lat, U, H, n + 1, x)
<1>1. \A g \in H : g.seq \in Nat
  BY DEF Frame
<1>2. U \subseteq H /\ \A g \in H : g.dest = d /\ g.seq < n + 1
  BY <1>1 DEF Stream
<1>3. n * FrameTicks \in Nat /\ (n + 1) * FrameTicks \in Nat
      /\ n * FrameTicks <= (n + 1) * FrameTicks
  BY NextTime
<1>4. \A i \in DOMAIN A : A[i].end \in Int
  BY EventEnds
<1>5. \A i \in DOMAIN A : i < Len(A) \/ d \notin W => Beyond(A[i], lat, U, n + 1)
  BY <1>3, <1>4 DEF Stream, Beyond
<1>. QED  BY <1>2, <1>5 DEF Stream

(* Frames G that are on no list of d are no longer to be read, and those   *)
(* that were are not missed: all frames of G are returned.                 *)
LEMMA StreamReturn ==
  ASSUME NEW d, NEW A \in Seq(Event), NEW W, NEW lat \in Seq(Frame),
         NEW U, NEW H \in SUBSET Frame, NEW n \in Nat, NEW x,
         Stream(d, A, W, lat, U, H, n, x), NEW f \in U
  PROVE  Stream(d, A, W, lat, U \ {f}, H \ {f}, n, x)
<1>. DEFINE V == U \ {f}
            G == H \ {f}
            Ls == {A[i].list[d] : i \in DOMAIN A}
<1>1. U \subseteq H /\ f \in Frame /\ f.seq \in Nat
  BY DEF Stream, Frame
<1>2. V \subseteq G /\ G \subseteq H /\ Older(G \ V, V)
  BY <1>1 DEF Stream, Older
<1>3. \A l : ToSet(l) \subseteq H /\ Older(ToSet(l), U) => ToSet(l) \subseteq G
  BY <1>1 DEF Older
<1>4. Listed(Ls, lat, U, H)
  BY DEF Stream
<1>5. \A l : Whole(l, H) => Whole(l, G)
  BY <1>2 DEF Whole
<1>6. Listed(Ls, lat, V, G)
  <2>1. Increasing(lat) /\ ToSet(lat) \subseteq G /\ Older(ToSet(lat), V)
    BY <1>3, <1>4 DEF Listed, Older
  <2>2. \A l \in Ls : Older(ToSet(l), U) /\ Older(ToSet(l), V \union ToSet(lat))
    BY <1>4 DEF Listed, Older
  <2>. HIDE DEF V, G, Ls
  <2>3. \A l \in Ls : Increasing(l) /\ ToSet(l) \subseteq G /\ Whole(l, G)
    BY <1>3, <1>4, <1>5, <2>2 DEF Listed
  <2>. QED  BY <2>1, <2>2, <2>3 DEF Listed
<1>7. \A e : Beyond(e, lat, U, n) => Beyond(e, lat, V, n)
  BY DEF Beyond
<1>8. \A l : CaughtUp(l, U, H) => CaughtUp(l, V, G)
  BY DEF CaughtUp
<1>. HIDE DEF V, G
<1>9. Stream(d, A, W, lat, V, G, n, x)
  BY <1>2, <1>6, <1>7, <1>8 DEF Stream
<1>. QED  BY <1>9 DEF V, G

(* A frame is read when rxRun ends for want of a descriptor.               *)
LEMMA StreamExit ==
  ASSUME NEW d, NEW A \in Seq(Event), NEW W, NEW lat \in Seq(Frame),
         NEW U, NEW H, NEW n, NEW x,
         NEW y, y,
         Stream(d, A, W, lat, U, H, n, x), NEW f \in U, Older({f}, U \ {f})
  PROVE  Stream(d, A, W, lat, U \ {f}, H, n, y)
<1>. DEFINE V == U \ {f}
<1>0. V \subseteq U /\ V \subseteq H /\ Older(H \ V, V)
  BY DEF Stream, Older
<1>. HIDE DEF V
<1>1. \A F : Older(F, U) => Older(F, V)
  BY <1>0 DEF Older
<1>2. \A F, L : Older(F, U \union L) => Older(F, V \union L)
  BY <1>0 DEF Older
<1>3. \A e : Beyond(e, lat, U, n) => Beyond(e, lat, V, n)
  BY <1>0 DEF Beyond
<1>4. Listed({A[i].list[d] : i \in DOMAIN A}, lat, V, H)
  BY <1>1, <1>2 DEF Stream, Listed
<1>5. Stream(d, A, W, lat, V, H, n, y)
  BY <1>0, <1>3, <1>4 DEF Stream
<1>. QED  BY <1>5 DEF V

-----------------------------------------------------------------------------
(* One destination: its latency list                                       *)

(* A frame is put at the tail of what insert_tail makes of the list.       *)
LEMMA StreamPut ==
  ASSUME NEW d, NEW A \in Seq(Event), NEW W, NEW lat \in Seq(Frame),
         NEW U, NEW H \in SUBSET Frame, NEW n \in Nat, NEW x,
         Stream(d, A, W, lat, U, H, n, x), d \notin W,
         NEW f \in U, Older({f}, U \ {f}), NEW base \in Seq(Frame),
         base = lat \/ base = << >>
  PROVE  Stream(d, A, W, Append(base, f), U \ {f}, H, n, x)
<1>. DEFINE V == U \ {f}
            Ls == {A[i].list[d] : i \in DOMAIN A}
            new == Append(base, f)
<1>1. U \subseteq H /\ f \in Frame /\ f.seq \in Nat
      /\ \A g \in H : g.seq \in Nat
  BY DEF Stream, Frame
<1>2. V \subseteq H /\ Older(H \ V, V) /\ V \union {f} = U
  BY <1>1 DEF Stream, Older
<1>3. Listed(Ls, lat, U, H)
  BY DEF Stream
<1>4. ToSet(base) \subseteq ToSet(lat) /\ Increasing(base)
  <2>1. ToSet(<< >>) = {} /\ Increasing(<< >>)
    BY DEF ToSet, Increasing
  <2>. QED  BY <1>3, <2>1 DEF Listed
<1>. HIDE DEF V
<1>5. ToSet(new) = ToSet(base) \union {f}
  BY <1>4, ToSetAppend
<1>6. Increasing(new)
  <2>1. Older(ToSet(base), {f})
    BY <1>3, <1>4 DEF Listed, Older
  <2>. QED  BY <1>1, <1>4, <2>1, IncreasingAppend
<1>. HIDE DEF new, Ls
<1>7. ToSet(new) \subseteq H /\ Older(ToSet(new), V)
  BY <1>1, <1>2, <1>3, <1>4, <1>5 DEF Listed, Older, V
<1>8. V \union ToSet(new) \subseteq U \union ToSet(lat)
  BY <1>2, <1>4, <1>5
<1>9. Listed(Ls, new, V, H)
  BY <1>3, <1>6, <1>7, <1>8 DEF Listed, Older
<1>10. \A e : Beyond(e, lat, U, n) => Beyond(e, new, V, n)
  BY <1>8 DEF Beyond
<1>11. ~x => CaughtUp(new, V, H)
  <2>. SUFFICES ASSUME ~x, NEW g \in H, g.good, g \notin V \union ToSet(new)
       PROVE  Older({g}, ToSet(new))
    BY DEF CaughtUp
  <2>1. g \notin U
    BY <1>2, <1>5
  <2>2. g.seq < f.seq
    BY <2>1 DEF Stream, Older
  <2>3. CASE base = << >>
    <3>1. ToSet(base) = {}
      BY <2>3 DEF ToSet
    <3>. QED  BY <1>5, <2>2, <3>1 DEF Older
  <2>4. CASE base = lat
    <3>1. Older({g}, ToSet(lat))
      BY <1>5, <2>1, <2>4 DEF Stream, CaughtUp
    <3>. QED  BY <1>5, <2>2, <2>4, <3>1 DEF Older
  <2>. QED  BY <2>3, <2>4
<1>12. Stream(d, A, W, new, V, H, n, x)
  BY <1>2, <1>9, <1>10, <1>11 DEF Stream, Ls
<1>. QED  BY <1>12 DEF V, new

(* The head of the list is returned to make room.                          *)
LEMMA StreamEvict ==
  ASSUME NEW d, NEW A \in Seq(Event), NEW W, NEW lat \in Seq(Frame), lat # << >>,
         NEW U, NEW H \in SUBSET Frame, NEW n \in Nat, NEW x, d \notin W,
         Stream(d, A, W, lat, U, H, n, x)
  PROVE  Stream(d, A, W, Tail(lat), U, H \ {Head(lat)}, n, x)
<1>. DEFINE new == Tail(lat)
            h == Head(lat)
            G == H \ {h}
            Ls == {A[i].list[d] : i \in DOMAIN A}
<1>1. Listed(Ls, lat, U, H)
  BY DEF Stream
<1>2. /\ Increasing(new) /\ Older({h}, ToSet(new))
      /\ ToSet(new) \subseteq ToSet(lat) /\ ToSet(lat) = {h} \union ToSet(new)
  BY <1>1, IncreasingTail, ToSetTail DEF Listed
<1>. HIDE DEF new, h, Ls
<1>3. h \in H /\ h \in Frame /\ h.seq \in Nat /\ h \in ToSet(lat)
  BY <1>1, <1>2 DEF Listed, Frame
<1>4. h \notin U /\ h \notin ToSet(new)
  BY <1>1, <1>2, <1>3 DEF Listed, Older
<1>5. U \subseteq G /\ G \subseteq H /\ Older(G \ U, U)
  BY <1>4 DEF Stream, Older
<1>6. Listed(Ls, new, U, G)
  <2>1. ToSet(new) \subseteq G /\ Older(ToSet(new), U)
    BY <1>1, <1>2, <1>4 DEF Listed, Older
  <2>2. \A l \in Ls : h \notin ToSet(l)
    BY <1>1, <1>3 DEF Listed, Older
  <2>3. \A l \in Ls : ToSet(l) \subseteq G
    BY <1>1, <2>2 DEF Listed
  <2>4. \A l \in Ls : Older(ToSet(l), U \union ToSet(new))
    BY <1>1, <1>2 DEF Listed, Older
  <2>5. \A l \in Ls : Whole(l, G)
    BY <1>1, <1>5 DEF Listed, Whole
  <2>. QED  BY <1>1, <1>2, <2>1, <2>3, <2>4, <2>5 DEF Listed
<1>7. \A e : Beyond(e, lat, U, n) => Beyond(e, new, U, n)
  BY <1>2 DEF Beyond
<1>8. ~x => CaughtUp(new, U, G)
  BY <1>2 DEF Stream, CaughtUp, Older
<1>9. Stream(d, A, W, new, U, G, n, x)
  BY <1>5, <1>6, <1>7, <1>8 DEF Stream, Ls
<1>. QED  BY <1>9 DEF new, h

(* replace.                                                                *)
LEMMA StreamKeep ==
  ASSUME NEW d, NEW A \in Seq(Event), NEW W, NEW l \in Node, NEW rem \in 0 .. Depth,
         NEW U, NEW H \in SUBSET Frame, NEW n \in Nat, NEW x,
         Stream(d, A, W, l.nodes, U, H, n, x), d \notin W,
         NEW f \in U, Older({f}, U \ {f})
  PROVE  LET r == Replaced(l, rem, f)
         IN  Stream(d, A, W, r.list.nodes, U \ {f}, H \ r.free, n, x)
<1>. DEFINE base == IF l.loose THEN << >> ELSE l.nodes
            l2 == InsertTail(l, f)
<1>1. l.nodes \in Seq(Frame) /\ f \in Frame
  BY DEF Node, Stream
<1>2. (base = l.nodes \/ base = << >>) /\ base \in Seq(Frame) /\ l2.nodes = Append(base, f)
  BY <1>1 DEF InsertTail
<1>3. Stream(d, A, W, l2.nodes, U \ {f}, H, n, x)
  <2>. HIDE DEF base, l2
  <2>1. Stream(d, A, W, Append(base, f), U \ {f}, H, n, x)
    BY <1>1, <1>2, StreamPut
  <2>. QED  BY <1>2, <2>1
<1>4. l2.nodes \in Seq(Frame) /\ l2.nodes # << >>
  <2>1. base \in Seq(Frame)
    BY <1>1
  <2>. QED  BY <1>1, <1>2, <2>1
<1>. HIDE DEF base, l2
<1>5. CASE rem <= 0
  <2>1. Replaced(l, rem, f) = [list |-> RemoveHead(l2), rem |-> rem, free |-> {Head(l2.nodes)}]
    BY <1>5 DEF Replaced, l2
  <2>2. RemoveHead(l2).nodes = Tail(l2.nodes)
    BY DEF RemoveHead
  <2>3. Stream(d, A, W, Tail(l2.nodes), U \ {f}, H \ {Head(l2.nodes)}, n, x)
    BY <1>3, <1>4, StreamEvict
  <2>. QED  BY <2>1, <2>2, <2>3
<1>6. CASE ~(rem <= 0)
  <2>1. Replaced(l, rem, f) = [list |-> l2, rem |-> rem - 1, free |-> {}]
    BY <1>6 DEF Replaced, l2
  <2>2. H \ {} = H
    OBVIOUS
  <2>. QED  BY <1>3, <2>1, <2>2
<1>. QED  BY <1>5, <1>6

-----------------------------------------------------------------------------
(* One destination: the events                                             *)

(* Two lists of events with the same windows and the same frames of d.     *)
Alike(A, B, d) ==
  /\ Len(A) = Len(B)
  /\ \A i \in DOMAIN A : A[i].list[d] = B[i].list[d] /\ A[i].end = B[i].end

LEMMA StreamAlike ==
  ASSUME NEW d, NEW A \in Seq(Event), NEW B \in Seq(Event), Alike(A, B, d),
         NEW W, NEW W2, d \in W <=> d \in W2,
         NEW lat, NEW U, NEW H, NEW n, NEW x, Stream(d, A, W, lat, U, H, n, x)
  PROVE  Stream(d, B, W2, lat, U, H, n, x)
<1>1. DOMAIN A = DOMAIN B /\ Len(A) = Len(B) /\ DOMAIN A = 1 .. Len(A) /\ Len(A) \in Nat
  BY DEF Alike
<1>2. \A i \in DOMAIN A : A[i].list[d] = B[i].list[d]
  BY DEF Alike
<1>3. {A[i].list[d] : i \in DOMAIN A} = {B[i].list[d] : i \in DOMAIN B}
  BY <1>1, <1>2
<1>4. \A i \in DOMAIN A : Beyond(A[i], lat, U, n) => Beyond(B[i], lat, U, n)
  BY DEF Alike, Beyond
<1>5. A # << >> => B # << >>
  BY <1>1
<1>6. A # << >> => Len(A) \in DOMAIN A
  BY <1>1
<1>7. d \in W2 => A[Len(A)].list[d] = B[Len(B)].list[d]
  BY <1>1, <1>2, <1>6 DEF Stream
<1>. QED  BY <1>1, <1>2, <1>3, <1>4, <1>5, <1>7 DEF Stream

(* The event that waits for d gets its next frame.                         *)
LEMMA StreamAdd ==
  ASSUME NEW d \in Dests, NEW A \in Seq(Event), NEW W, NEW lat \in Seq(Frame),
         NEW U, NEW H \in SUBSET Frame, NEW n \in Nat, NEW x, ~x, d \in W,
         Stream(d, A, W, lat, U, H, n, x),
         NEW f \in U, Older({f}, U \ {f}),
         NEW B \in Seq(Event), NEW m \in Nat, m = Len(A), m = Len(B),
         \A i \in 1 .. m : i # m => A[i].list[d] = B[i].list[d] /\ A[i].end = B[i].end,
         B[m].list[d] = Append(A[m].list[d], f)
  PROVE  Stream(d, B, W, lat, U \ {f}, H, n, x)
<1>. DEFINE V == U \ {f}
            old == A[m].list[d]
            new == B[m].list[d]
            Ls == {A[i].list[d] : i \in DOMAIN A}
            Ms == {B[i].list[d] : i \in DOMAIN B}
<1>1. lat = << >> /\ ToSet(lat) = {} /\ Increasing(lat)
  BY DEF Stream, ToSet, Increasing
<1>2. /\ m \in Nat \ {0} /\ DOMAIN A = 1 .. m /\ DOMAIN B = 1 .. m
      /\ B # << >> /\ m \in DOMAIN A
  <2>1. A # << >>
    BY DEF Stream
  <2>2. m \in Nat \ {0}
    BY <2>1, EmptySeq
  <2>3. DOMAIN A = 1 .. m /\ DOMAIN B = 1 .. m
    BY LenProperties
  <2>4. B # << >>
    BY <2>2, EmptySeq
  <2>. QED  BY <2>2, <2>3, <2>4
<1>3. old \in Seq(Frame) /\ old \in Ls
  <2>1. A[m] \in Event
    BY <1>2, EventEnds
  <2>. QED  BY <1>2, <2>1 DEF Event
<1>4. new = Append(old, f) /\ \A i \in 1 .. m : i # m => A[i].list[d] = B[i].list[d]
  OBVIOUS
<1>5. f \in Frame /\ f.seq \in Nat /\ f \in H /\ \A g \in H : g.seq \in Nat
  BY DEF Stream, Frame
<1>6. ToSet(new) = ToSet(old) \union {f}
  BY <1>3, <1>4, ToSetAppend
<1>7. Listed(Ls, lat, U, H)
  BY DEF Stream
<1>8. ToSet(old) \subseteq H /\ Older(ToSet(old), U) /\ Increasing(old) /\ Whole(old, H)
  BY <1>3, <1>7 DEF Listed, Older
<1>9. Increasing(new)
  <2>1. Older(ToSet(old), {f})
    BY <1>8 DEF Older
  <2>. QED  BY <1>3, <1>4, <1>5, <1>8, <2>1, IncreasingAppend
<1>10. CaughtUp(old, U, H)
  BY DEF Stream
<1>11. V \subseteq H /\ Older(H \ V, V) /\ V \union {f} = U /\ V \subseteq U
  BY <1>5 DEF Stream, Older
<1>12. \A i \in 1 .. m : A[i].list[d] \in Ls
  BY <1>2
<1>13. Ms \subseteq Ls \union {new}
  <2>. SUFFICES ASSUME NEW i \in 1 .. m PROVE B[i].list[d] \in Ls \union {new}
    BY <1>2
  <2>1. CASE i = m
    BY <2>1
  <2>2. CASE i # m
    <3>1. B[i].list[d] = A[i].list[d]
      BY <1>4, <2>2
    <3>. QED  BY <1>12, <3>1
  <2>. QED  BY <2>1, <2>2
<1>. HIDE DEF V, Ls, Ms, old, new
<1>14. Whole(new, H)
  <2>. SUFFICES ASSUME NEW g \in H, NEW a \in ToSet(new), NEW b \in ToSet(new),
                       g.good, a.seq < g.seq, g.seq < b.seq
       PROVE  g \in ToSet(new)
    BY DEF Whole
  <2>1. b.seq <= f.seq /\ a.seq \in Nat /\ b.seq \in Nat /\ g.seq \in Nat
    BY <1>5, <1>6, <1>8 DEF Older
  <2>2. g.seq < f.seq /\ a # f
    BY <1>5, <2>1
  <2>3. g \notin U
    BY <1>5, <1>11, <2>2 DEF Older, V
  <2>4. a \in ToSet(old)
    BY <1>6, <2>2
  <2>5. ~Older({g}, ToSet(old))
    BY <2>1, <2>4 DEF Older
  <2>. QED  BY <1>6, <1>10, <2>3, <2>5 DEF CaughtUp
<1>15. ToSet(new) \subseteq H /\ Older(ToSet(new), V)
  BY <1>5, <1>6, <1>8, <1>11 DEF Older, V
<1>16. Listed(Ms, lat, V, H)
  <2>1. Listed(Ls, lat, V, H)
    BY <1>7, <1>11 DEF Listed, Older
  <2>2. V \union ToSet(lat) = V
    BY <1>1
  <2>. QED  BY <1>9, <1>13, <1>14, <1>15, <2>1, <2>2 DEF Listed
<1>17. \A i, j \in 1 .. m : i < j => Older(ToSet(B[i].list[d]), ToSet(B[j].list[d]))
  <2>. SUFFICES ASSUME NEW i \in 1 .. m, NEW j \in 1 .. m, i < j
       PROVE  Older(ToSet(B[i].list[d]), ToSet(B[j].list[d]))
    OBVIOUS
  <2>0. i # m
    OBVIOUS
  <2>1. B[i].list[d] = A[i].list[d] /\ A[i].list[d] \in Ls
    BY <1>4, <1>12, <2>0
  <2>2. Older(ToSet(A[i].list[d]), ToSet(A[j].list[d]))
    BY <1>2 DEF Stream
  <2>3. CASE j = m
    <3>1. Older(ToSet(A[i].list[d]), U)
      BY <1>7, <2>1 DEF Listed, Older
    <3>2. B[j].list[d] = new /\ A[j].list[d] = old
      BY <2>3 DEF new, old
    <3>. QED  BY <1>6, <2>1, <2>2, <3>1, <3>2 DEF Older
  <2>4. CASE j # m
    <3>1. B[j].list[d] = A[j].list[d]
      BY <1>4, <2>4
    <3>. QED  BY <2>1, <2>2, <3>1
  <2>. QED  BY <2>3, <2>4
<1>18. \A i \in 1 .. m : i < m => Beyond(B[i], lat, V, n)
  <2>. SUFFICES ASSUME NEW i \in 1 .. m, i < m PROVE Beyond(B[i], lat, V, n)
    OBVIOUS
  <2>1. Beyond(A[i], lat, U, n)
    BY <1>2 DEF Stream
  <2>2. B[i].end = A[i].end
    OBVIOUS
  <2>. QED  BY <1>11, <2>1, <2>2 DEF Beyond
<1>19. CaughtUp(lat, V, H) /\ CaughtUp(new, V, H)
  <2>1. CaughtUp(lat, V, H)
    BY <1>1 DEF CaughtUp, Older
  <2>. SUFFICES ASSUME NEW g \in H, g.good, g \notin V \union ToSet(new)
       PROVE  Older({g}, ToSet(new))
    BY <2>1 DEF CaughtUp
  <2>2. g \notin U \union ToSet(old)
    BY <1>6, <1>11
  <2>3. Older({g}, ToSet(old)) /\ g.seq < f.seq
    BY <1>10, <2>2 DEF CaughtUp, Stream, Older
  <2>. QED  BY <1>6, <2>3 DEF Older
<1>20. Stream(d, B, W, lat, V, H, n, x)
  BY <1>1, <1>2, <1>11, <1>16, <1>17, <1>18, <1>19 DEF Stream, Ms, new
<1>. QED  BY <1>20 DEF V

(* d has no more to add to the event.                                      *)
LEMMA StreamClose ==
  ASSUME NEW d, NEW A \in Seq(Event), NEW W, NEW W2, NEW lat,
         NEW U, NEW H, NEW n, NEW x, d \notin W2,
         Stream(d, A, W, lat, U, H, n, x), A # << >>, Beyond(A[Len(A)], lat, U, n)
  PROVE  Stream(d, A, W2, lat, U, H, n, x)
<1>1. \A i \in DOMAIN A : i < Len(A) \/ i = Len(A)
  OBVIOUS
<1>2. \A i \in DOMAIN A : Beyond(A[i], lat, U, n)
  BY <1>1 DEF Stream
<1>. QED  BY <1>2 DEF Stream

(* The transmit request queue has no room for the event: its frames stay   *)
(* held, and are on no list any more.                                      *)
LEMMA StreamDrop ==
  ASSUME NEW d, NEW A \in Seq(Event), NEW e \in Event, NEW W, d \notin W, NEW lat,
         NEW U, NEW H, NEW n, NEW x, Stream(d, Append(A, e), W, lat, U, H, n, x)
  PROVE  Stream(d, A, W, lat, U, H, n, x)
<1>. DEFINE B == Append(A, e)
            Ls == {A[i].list[d] : i \in DOMAIN A}
            Ms == {B[i].list[d] : i \in DOMAIN B}
<1>1. \A i \in DOMAIN A : i \in DOMAIN B /\ B[i] = A[i]
  OBVIOUS
<1>. HIDE DEF B
<1>2. Ls \subseteq Ms
  BY <1>1
<1>3. Listed(Ms, lat, U, H)
  BY DEF Stream, B
<1>. HIDE DEF Ls, Ms
<1>4. Listed(Ls, lat, U, H)
  BY <1>2, <1>3 DEF Listed
<1>5. \A i, j \in DOMAIN A :
        i < j => Older(ToSet(A[i].list[d]), ToSet(A[j].list[d]))
  BY <1>1 DEF Stream, B
<1>6. \A i \in DOMAIN A : Beyond(A[i], lat, U, n)
  BY <1>1 DEF Stream, B
<1>. QED  BY <1>4, <1>5, <1>6 DEF Stream, Ls

(* The oldest event has been sent: its frames are returned.                *)
LEMMA StreamRelease ==
  ASSUME NEW d \in Dests, NEW A \in Seq(Event), A # << >>, NEW W, NEW lat,
         NEW U, NEW H \in SUBSET Frame, NEW n, NEW x,
         Len(A) > 1 \/ d \notin W, Stream(d, A, W, lat, U, H, n, x)
  PROVE  Stream(d, Tail(A), W, lat, U, H \ ToSet(A[1].list[d]), n, x)
<1>. DEFINE B == Tail(A)
            F == ToSet(A[1].list[d])
            G == H \ F
            Ls == {A[i].list[d] : i \in DOMAIN A}
            Ms == {B[i].list[d] : i \in DOMAIN B}
<1>1. /\ Len(A) \in Nat \ {0} /\ DOMAIN A = 1 .. Len(A) /\ 1 \in DOMAIN A
      /\ Len(B) = Len(A) - 1 /\ DOMAIN B = 1 .. Len(A) - 1
      /\ \A i \in DOMAIN B : B[i] = A[i + 1]
  BY EmptySeq
<1>2. \A i \in DOMAIN B : i + 1 \in DOMAIN A /\ 1 < i + 1
  BY <1>1
<1>. HIDE DEF B
<1>3. A[1].list[d] \in Ls /\ Ms \subseteq Ls
  BY <1>1, <1>2
<1>4. \A l \in Ms : Older(F, ToSet(l))
  <2>. SUFFICES ASSUME NEW i \in DOMAIN B PROVE Older(F, ToSet(B[i].list[d]))
    OBVIOUS
  <2>. QED  BY <1>1, <1>2 DEF Stream
<1>5. Listed(Ls, lat, U, H)
  BY DEF Stream
<1>. HIDE DEF Ls, Ms, F
<1>6. F \subseteq H /\ Older(F, U \union ToSet(lat)) /\ \A g \in F : g.seq \in Nat
  BY <1>3, <1>5 DEF Listed, F, Frame
<1>7. U \subseteq G /\ G \subseteq H /\ Older(G \ U, U) /\ ToSet(lat) \subseteq G
  BY <1>5, <1>6 DEF Stream, Listed, Older
<1>8. \A l \in Ms : ToSet(l) \subseteq G
  <2>1. \A l \in Ms : ToSet(l) \subseteq H
    BY <1>3, <1>5 DEF Listed
  <2>. QED  BY <1>4, <1>6, <2>1 DEF Older
<1>. HIDE DEF G
<1>9. Listed(Ms, lat, U, G)
  <2>1. \A l \in Ms : Whole(l, G)
    BY <1>3, <1>5, <1>7 DEF Listed, Whole
  <2>. QED  BY <1>3, <1>5, <1>7, <1>8, <2>1 DEF Listed
<1>10. \A i, j \in DOMAIN B :
         i < j => Older(ToSet(B[i].list[d]), ToSet(B[j].list[d]))
  <2>. SUFFICES ASSUME NEW i \in DOMAIN B, NEW j \in DOMAIN B, i < j
       PROVE  Older(ToSet(B[i].list[d]), ToSet(B[j].list[d]))
    OBVIOUS
  <2>1. i + 1 < j + 1 /\ i + 1 \in DOMAIN A /\ j + 1 \in DOMAIN A
    BY <1>1, <1>2
  <2>2. Older(ToSet(A[i + 1].list[d]), ToSet(A[j + 1].list[d]))
    BY <2>1 DEF Stream
  <2>. QED  BY <1>1, <2>2
<1>11. \A i \in DOMAIN B : i < Len(B) \/ d \notin W => Beyond(B[i], lat, U, n)
  <2>. SUFFICES ASSUME NEW i \in DOMAIN B, i < Len(B) \/ d \notin W
       PROVE  Beyond(B[i], lat, U, n)
    OBVIOUS
  <2>1. i + 1 \in DOMAIN A /\ (i + 1 < Len(A) \/ d \notin W)
    BY <1>1, <1>2
  <2>2. Beyond(A[i + 1], lat, U, n)
    BY <2>1 DEF Stream
  <2>. QED  BY <1>1, <2>2
<1>12. d \in W => B # << >> /\ lat = << >> /\ B[Len(B)] = A[Len(A)]
  <2>1. d \in W => Len(B) \in DOMAIN B /\ Len(B) + 1 = Len(A)
    BY <1>1
  <2>2. d \in W => B[Len(B)] = A[Len(A)]
    BY <1>1, <2>1
  <2>3. d \in W => B # << >>
    BY <2>1
  <2>. QED  BY <2>2, <2>3 DEF Stream
<1>13. \A l : CaughtUp(l, U, H) => CaughtUp(l, U, G)
  BY <1>7 DEF CaughtUp
<1>14. \A f \in G : f.dest = d /\ f.seq < n
  BY <1>7 DEF Stream
<1>15. ~x => CaughtUp(lat, U, G)
  BY <1>13 DEF Stream
<1>16. ~x /\ d \in W => CaughtUp(B[Len(B)].list[d], U, G)
  BY <1>12, <1>13 DEF Stream
<1>17. Stream(d, B, W, lat, U, G, n, x)
  BY <1>7, <1>9, <1>10, <1>11, <1>12, <1>14, <1>15, <1>16 DEF Stream, Ms
<1>. QED  BY <1>17 DEF B, G, F

(* A new event takes the frames of its list from the latency list, of      *)
(* which F are returned and rest are left.                                 *)
LEMMA StreamSplit ==
  ASSUME NEW d \in Dests, NEW A \in Seq(Event), NEW W, d \notin W, NEW lat,
         NEW U, NEW H \in SUBSET Frame, NEW n, NEW x, ~x,
         Stream(d, A, W, lat, U, H, n, x),
         NEW e \in Event, NEW F, NEW rest,
         Increasing(e.list[d]), Increasing(rest),
         ToSet(lat) = F \union ToSet(e.list[d]) \union ToSet(rest),
         Older(F, ToSet(e.list[d]) \union ToSet(rest)),
         Older(ToSet(e.list[d]), ToSet(rest)),
         NEW W2, d \in W2 => rest = << >>, d \notin W2 => Beyond(e, rest, U, n)
  PROVE  Stream(d, Append(A, e), W2, rest, U, H \ F, n, x)
<1>. DEFINE B == Append(A, e)
            G == H \ F
            add == e.list[d]
            Ls == {A[i].list[d] : i \in DOMAIN A}
            Ms == {B[i].list[d] : i \in DOMAIN B}
            m == Len(A) + 1
<1>1. /\ DOMAIN A = 1 .. Len(A) /\ DOMAIN B = 1 .. m /\ m \in Nat /\ Len(A) \in Nat
      /\ Len(B) = m /\ B[m] = e /\ m \in DOMAIN B /\ B # << >>
      /\ \A i \in DOMAIN A : i \in DOMAIN B /\ B[i] = A[i] /\ i < m
      /\ \A i \in DOMAIN B : i \in DOMAIN A \/ i = m
  OBVIOUS
<1>. HIDE DEF B, m
<1>2. Ms \subseteq Ls \union {add}
  BY <1>1
<1>3. Listed(Ls, lat, U, H)
  BY DEF Stream
<1>4. \A i \in DOMAIN A : A[i].list[d] \in Ls
  OBVIOUS
<1>. HIDE DEF Ls, Ms, add
<1>5. /\ Increasing(add) /\ ToSet(lat) = F \union ToSet(add) \union ToSet(rest)
      /\ Older(F, ToSet(add) \union ToSet(rest)) /\ Older(ToSet(add), ToSet(rest))
  BY DEF add
<1>6. ToSet(lat) \subseteq H /\ Older(ToSet(lat), U)
  BY <1>3 DEF Listed
<1>7. \A g \in ToSet(lat) : g.seq \in Nat
  BY <1>6 DEF Frame
<1>8. /\ U \subseteq G /\ G \subseteq H /\ Older(G \ U, U)
      /\ ToSet(add) \subseteq G /\ ToSet(rest) \subseteq G
  BY <1>5, <1>6, <1>7 DEF Stream, Older
<1>9. \A l \in Ls : ToSet(l) \subseteq G
  BY <1>3, <1>5, <1>7 DEF Listed, Older
<1>10. Older(ToSet(add), U) /\ Older(ToSet(rest), U)
  BY <1>5, <1>6 DEF Older
<1>11. CaughtUp(lat, U, H)
  BY DEF Stream
<1>12. Whole(add, G)
  <2>. SUFFICES ASSUME NEW g \in G, NEW a \in ToSet(add), NEW b \in ToSet(add),
                       g.good, a.seq < g.seq, g.seq < b.seq
       PROVE  g \in ToSet(add)
    BY DEF Whole
  <2>1. g.seq \in Nat /\ a.seq \in Nat /\ b.seq \in Nat /\ g \in H
    BY <1>8 DEF Frame
  <2>2. g \notin U /\ g \notin ToSet(rest)
    BY <1>5, <1>10, <2>1 DEF Older
  <2>3. ~Older({g}, ToSet(lat))
    BY <1>5, <2>1 DEF Older
  <2>. QED  BY <1>5, <1>11, <2>1, <2>2, <2>3 DEF CaughtUp, G
<1>13. Listed(Ms, rest, U, G)
  <2>1. \A l \in Ls : Whole(l, G) /\ Increasing(l)
    BY <1>3, <1>8 DEF Listed, Whole
  <2>2. \A l \in Ls : Older(ToSet(l), U \union ToSet(rest))
    BY <1>3, <1>5 DEF Listed, Older
  <2>3. Older(ToSet(add), U \union ToSet(rest))
    BY <1>5, <1>10 DEF Older
  <2>. QED  BY <1>2, <1>5, <1>8, <1>9, <1>10, <1>12, <2>1, <2>2, <2>3 DEF Listed
<1>14. \A i, j \in DOMAIN B :
         i < j => Older(ToSet(B[i].list[d]), ToSet(B[j].list[d]))
  <2>. SUFFICES ASSUME NEW i \in DOMAIN B, NEW j \in DOMAIN B, i < j
       PROVE  Older(ToSet(B[i].list[d]), ToSet(B[j].list[d]))
    OBVIOUS
  <2>1. i \in DOMAIN A /\ B[i] = A[i]
    BY <1>1
  <2>2. CASE j \in DOMAIN A
    <3>1. B[j] = A[j]
      BY <1>1, <2>2
    <3>. QED  BY <2>1, <2>2, <3>1 DEF Stream
  <2>3. CASE j = m
    <3>1. B[j].list[d] = add
      BY <1>1, <2>3 DEF add
    <3>. QED  BY <1>3, <1>4, <1>5, <2>1, <3>1 DEF Listed, Older
  <2>. QED  BY <1>1, <2>2, <2>3
<1>15. \A i \in DOMAIN B : i < m \/ d \notin W2 => Beyond(B[i], rest, U, n)
  <2>. SUFFICES ASSUME NEW i \in DOMAIN B, i < m \/ d \notin W2
       PROVE  Beyond(B[i], rest, U, n)
    OBVIOUS
  <2>1. CASE i \in DOMAIN A
    <3>1. Beyond(A[i], lat, U, n) /\ B[i] = A[i]
      BY <1>1, <2>1 DEF Stream
    <3>. QED  BY <1>5, <3>1 DEF Beyond
  <2>2. CASE i = m
    BY <1>1, <2>2
  <2>. QED  BY <1>1, <2>1, <2>2
<1>16. CaughtUp(rest, U, G)
  BY <1>5, <1>8, <1>11 DEF CaughtUp, Older, G
<1>17. d \in W2 => CaughtUp(add, U, G)
  <2>1. d \in W2 => ToSet(rest) = {}
    BY DEF ToSet
  <2>. QED  BY <1>5, <1>8, <1>11, <2>1 DEF CaughtUp, Older, G
<1>18. \A f \in G : f.dest = d /\ f.seq < n
  BY <1>8 DEF Stream
<1>. HIDE DEF G
<1>19. Stream(d, B, W2, rest, U, G, n, x)
  BY <1>1, <1>8, <1>13, <1>14, <1>15, <1>16, <1>17, <1>18 DEF Stream, Ms, add
<1>. QED  BY <1>19 DEF B, G

-----------------------------------------------------------------------------
(* seedAndDrain                                                            *)

(* A set of places that reaches down to the first is as many first places  *)
(* as it has members.                                                      *)
LEMMA Prefix ==
  ASSUME NEW n \in Nat, NEW P \in SUBSET (1 .. n),
         \A i \in P, j \in 1 .. n : j < i => j \in P
  PROVE  Cardinality(P) \in 0 .. n /\ P = 1 .. Cardinality(P)
<1>. DEFINE k == Cardinality(P)
<1>1. \A m \in Nat : IsFiniteSet(1 .. m) /\ Cardinality(1 .. m) = m
  <2>. TAKE m \in Nat
  <2>1. /\ IsFiniteSet(1 .. m)
        /\ Cardinality(1 .. m) = IF 1 > m THEN 0 ELSE m - 1 + 1
    BY FS_Interval
  <2>. QED  BY <2>1
<1>2. IsFiniteSet(P) /\ k <= n
  <2>1. IsFiniteSet(1 .. n) /\ Cardinality(1 .. n) = n
    BY <1>1
  <2>. QED  BY <2>1, FS_Subset
<1>3. k \in Nat
  BY <1>2, FS_CardinalityType
<1>. HIDE DEF k
<1>4. \A i \in P : i <= k
  <2>. TAKE i \in P
  <2>1. i \in Nat /\ \A j \in 1 .. i : j \in 1 .. n /\ (j < i \/ j = i)
    OBVIOUS
  <2>2. 1 .. i \subseteq P
    BY <2>1
  <2>3. Cardinality(1 .. i) <= Cardinality(P)
    BY <1>2, <2>2, FS_Subset
  <2>. QED  BY <1>1, <2>1, <2>3 DEF k
<1>5. P \subseteq 1 .. k
  BY <1>3, <1>4
<1>6. Cardinality(1 .. k) = Cardinality(P) => 1 .. k = P
  BY <1>1, <1>3, <1>5, FS_Subset
<1>7. P = 1 .. k
  BY <1>1, <1>3, <1>6 DEF k
<1>. QED  BY <1>2, <1>3, <1>7 DEF k

(* Later frames of a list that is in order are no earlier, and complete    *)
(* the event if an earlier one does.                                       *)
LEMMA ScanOrder ==
  ASSUME NEW e \in Event, NEW f \in Frame, NEW g \in Frame, f.seq < g.seq
  PROVE  /\ Early(e, g) => Early(e, f)
         /\ Completes(e, f) => Completes(e, g)
<1>1. e.beg \in Int /\ e.end \in Int
  BY DEF Event
<1>2. Beg(f) \in Nat /\ End(f) \in Nat /\ Beg(g) \in Nat /\ End(g) \in Nat
      /\ Beg(f) < End(f) /\ Beg(g) < End(g) /\ End(f) <= Beg(g)
  BY FrameTimes, FrameSpans, LaterBegins
<1>. QED  BY <1>1, <1>2 DEF Early, Completes, Late, Inside

(* A scan of a list that is in order returns the frames of the first k     *)
(* places and takes those up to place n; if it ends before the end of the  *)
(* list, that is at a frame that is the last of the event, or at the first *)
(* after it.                                                               *)
LEMMA SeededShape ==
  ASSUME NEW e \in Event, NEW l \in Node, NEW rem, Increasing(l.nodes)
  PROVE  LET s == Seeded(e, l, rem)
             q == l.nodes
         IN  \E k, n \in 0 .. Len(q) :
               /\ k <= n
               /\ s.free = {q[i] : i \in 1 .. k}
               /\ s.add = SubSeq(q, k + 1, n)
               /\ s.list.nodes = SubSeq(q, n + 1, Len(q))
               /\ s.done \in BOOLEAN
               /\ ~s.done => n = Len(q)
               /\ s.done => \/ n > 0 /\ e.end <= End(q[n])
                            \/ n < Len(q) /\ e.end <= Beg(q[n + 1])
<1>. DEFINE q     == l.nodes
            m     == Len(q)
            E     == {i \in DOMAIN q : Early(e, q[i])}
            O     == {i \in DOMAIN q : ~Completes(e, q[i])}
            early == Cardinality(E)
            open  == Cardinality(O)
            done  == open < m
            back  == done /\ Late(e, q[open + 1])
            n     == IF done /\ ~back THEN open + 1 ELSE open
<1>1. q \in Seq(Frame) /\ m \in Nat /\ DOMAIN q = 1 .. m
      /\ \A i \in 1 .. m : q[i] \in Frame
  BY DEF Node
<1>2. /\ Seeded(e, l, rem).list = Left(l, n, back)
      /\ Seeded(e, l, rem).add = SubSeq(q, early + 1, n)
      /\ Seeded(e, l, rem).free = {q[i] : i \in 1 .. early}
      /\ Seeded(e, l, rem).done = done
  BY DEF Seeded
<1>3. \A i, j \in 1 .. m : j < i => q[j].seq < q[i].seq
  BY <1>1 DEF Increasing
<1>. HIDE DEF q, m
<1>4. ASSUME NEW i \in 1 .. m, NEW j \in 1 .. m, j < i
      PROVE  /\ Early(e, q[i]) => Early(e, q[j])
             /\ ~Completes(e, q[i]) => ~Completes(e, q[j])
  <2>1. q[i] \in Frame /\ q[j] \in Frame
    BY <1>1
  <2>2. q[j].seq < q[i].seq
    BY <1>3, <1>4
  <2>. QED  BY <2>1, <2>2, ScanOrder
<1>5. early \in 0 .. m /\ E = 1 .. early
  <2>1. \A i : i \in E <=> i \in 1 .. m /\ Early(e, q[i])
    BY <1>1
  <2>. HIDE DEF E
  <2>2. E \in SUBSET (1 .. m)
    BY <2>1
  <2>3. \A i \in E, j \in 1 .. m : j < i => j \in E
    <3>. SUFFICES ASSUME NEW i \in E, NEW j \in 1 .. m, j < i PROVE j \in E
      OBVIOUS
    <3>1. i \in 1 .. m /\ Early(e, q[i])
      BY <2>1
    <3>2. Early(e, q[j])
      BY <1>4, <3>1
    <3>. QED  BY <2>1, <3>2
  <2>. QED  BY <1>1, <2>2, <2>3, Prefix
<1>6. open \in 0 .. m /\ O = 1 .. open
  <2>1. \A i : i \in O <=> i \in 1 .. m /\ ~Completes(e, q[i])
    BY <1>1
  <2>. HIDE DEF O
  <2>2. O \in SUBSET (1 .. m)
    BY <2>1
  <2>3. \A i \in O, j \in 1 .. m : j < i => j \in O
    <3>. SUFFICES ASSUME NEW i \in O, NEW j \in 1 .. m, j < i PROVE j \in O
      OBVIOUS
    <3>1. i \in 1 .. m /\ ~Completes(e, q[i])
      BY <2>1
    <3>2. ~Completes(e, q[j])
      BY <1>4, <3>1
    <3>. QED  BY <2>1, <3>2
  <2>. QED  BY <1>1, <2>2, <2>3, Prefix
<1>7. E \subseteq O
  <2>. SUFFICES ASSUME NEW i \in 1 .. m, Early(e, q[i]) PROVE ~Completes(e, q[i])
    BY <1>1
  <2>1. e.beg \in Int /\ End(q[i]) \in Nat
    BY <1>1, FrameTimes DEF Event
  <2>. QED  BY <2>1 DEF Early, Completes, Late, Inside
<1>8. done => open + 1 \in 1 .. m /\ Completes(e, q[open + 1])
  <2>1. done => open + 1 \in 1 .. m /\ open + 1 \notin 1 .. open
    BY <1>1, <1>6
  <2>2. done => open + 1 \in 1 .. m /\ open + 1 \notin O
    BY <1>6, <2>1
  <2>. QED  BY <1>1, <2>2
<1>9. early <= open
  <2>1. 1 .. early \subseteq 1 .. open
    BY <1>5, <1>6, <1>7
  <2>2. early = 0 \/ early \in 1 .. early
    BY <1>5
  <2>3. early = 0 \/ early \in 1 .. open
    BY <2>1, <2>2
  <2>. QED  BY <1>6, <2>3
<1>. HIDE DEF E, O, early, open
<1>10. n \in 0 .. m /\ early <= n /\ (~done => n = m)
  BY <1>1, <1>5, <1>6, <1>8, <1>9
<1>11. done => \/ n > 0 /\ e.end <= End(q[n])
               \/ n < m /\ e.end <= Beg(q[n + 1])
  <2>. SUFFICES ASSUME done
       PROVE  \/ n > 0 /\ e.end <= End(q[n])
              \/ n < m /\ e.end <= Beg(q[n + 1])
    OBVIOUS
  <2>1. e.end \in Int /\ Beg(q[open + 1]) \in Nat /\ End(q[open + 1]) \in Nat
    BY <1>1, <1>8, FrameTimes DEF Event
  <2>2. CASE back
    <3>1. n = open /\ e.end < Beg(q[open + 1])
      BY <2>1, <2>2 DEF Late
    <3>. QED  BY <1>1, <1>6, <2>1, <3>1
  <2>3. CASE ~back
    <3>1. n = open + 1 /\ e.end <= End(q[open + 1])
      BY <1>8, <2>1, <2>3 DEF Completes
    <3>. QED  BY <1>6, <3>1
  <2>. QED  BY <2>2, <2>3
<1>12. Left(l, n, back).nodes = SubSeq(q, n + 1, m)
  <2>1. CASE ~back
    BY <2>1 DEF Left, Rest, q, m
  <2>2. CASE back
    <3>1. n + 1 \in 1 .. m
      BY <1>8, <2>2
    <3>2. Left(l, n, back).nodes = <<q[n + 1]>> \o SubSeq(q, (n + 1) + 1, m)
      BY <2>2 DEF Left, Rest, InsertHead, q, m
    <3>3. m \in n + 1 .. m
      BY <1>1, <3>1
    <3>4. SubSeq(q, n + 1, m) = <<q[n + 1]>> \o SubSeq(q, (n + 1) + 1, m)
      BY <1>1, <3>1, <3>3, SubSeqRecursiveFirst DEF m
    <3>. QED  BY <3>2, <3>4
  <2>. QED  BY <2>1, <2>2
<1>. HIDE DEF n, done, back
<1>13. done \in BOOLEAN
  BY DEF done
<1>14. early \in 0 .. Len(q) /\ n \in 0 .. Len(q)
  BY <1>5, <1>10 DEF m
<1>. DEFINE s == Seeded(e, l, rem)
<1>15. /\ early <= n
       /\ s.free = {q[i] : i \in 1 .. early}
       /\ s.add = SubSeq(q, early + 1, n)
       /\ s.list.nodes = SubSeq(q, n + 1, Len(q))
       /\ s.done \in BOOLEAN
       /\ ~s.done => n = Len(q)
       /\ s.done => \/ n > 0 /\ e.end <= End(q[n])
                    \/ n < Len(q) /\ e.end <= Beg(q[n + 1])
  <2>1. s.list = Left(l, n, back) /\ s.add = SubSeq(q, early + 1, n)
        /\ s.free = {q[i] : i \in 1 .. early} /\ s.done = done
    BY <1>2
  <2>2. m = Len(q)
    BY DEF m
  <2>. HIDE DEF s
  <2>3. s.list.nodes = SubSeq(q, n + 1, Len(q))
    BY <1>12, <2>1, <2>2
  <2>4. (~s.done => n = Len(q)) /\ s.done \in BOOLEAN
    BY <1>10, <1>13, <2>1, <2>2
  <2>5. s.done => \/ n > 0 /\ e.end <= End(q[n])
                  \/ n < Len(q) /\ e.end <= Beg(q[n + 1])
    BY <1>11, <2>1, <2>2
  <2>6. early <= n
    BY <1>10
  <2>. QED  BY <2>1, <2>3, <2>4, <2>5, <2>6
<1>. HIDE DEF s
<1>16. \E k, o \in 0 .. Len(q) :
         /\ k <= o
         /\ s.free = {q[i] : i \in 1 .. k}
         /\ s.add = SubSeq(q, k + 1, o)
         /\ s.list.nodes = SubSeq(q, o + 1, Len(q))
         /\ s.done \in BOOLEAN
         /\ ~s.done => o = Len(q)
         /\ s.done => \/ o > 0 /\ e.end <= End(q[o])
                      \/ o < Len(q) /\ e.end <= Beg(q[o + 1])
  BY <1>14, <1>15
<1>. QED  BY <1>16 DEF s, q

LEMMA SeededFree ==
  ASSUME NEW e \in Event, NEW l \in Node, NEW rem, Increasing(l.nodes)
  PROVE  Seeded(e, l, rem).free \subseteq ToSet(l.nodes)
<1>. DEFINE q == l.nodes
            s == Seeded(e, l, rem)
            N == Len(q)
<1>1. N \in Nat /\ DOMAIN q = 1 .. N
  BY DEF Node
<1>2. PICK k \in 0 .. N, m \in 0 .. N :
        /\ k <= m
        /\ s.free = {q[i] : i \in 1 .. k}
        /\ s.add = SubSeq(q, k + 1, m)
        /\ s.list.nodes = SubSeq(q, m + 1, N)
        /\ s.done \in BOOLEAN
        /\ ~s.done => m = N
        /\ s.done => \/ m > 0 /\ e.end <= End(q[m])
                     \/ m < N /\ e.end <= Beg(q[m + 1])
  BY SeededShape
<1>. HIDE DEF q, s, N
<1>3. \A i \in 1 .. k : i \in DOMAIN q
  BY <1>1
<1>4. s.free \subseteq ToSet(q)
  BY <1>2, <1>3 DEF ToSet
<1>. QED  BY <1>4 DEF s, q

(* The frames of a part of a list.                                         *)
LEMMA Part ==
  ASSUME NEW q \in Seq(Frame), NEW a \in 0 .. Len(q), NEW b \in 0 .. Len(q), a <= b,
         Increasing(q)
  PROVE  LET s == SubSeq(q, a + 1, b)
         IN  /\ s \in Seq(Frame) /\ Increasing(s)
             /\ Len(s) = b - a
             /\ ToSet(s) = {q[i] : i \in a + 1 .. b}
<1>. DEFINE s == SubSeq(q, a + 1, b)
<1>1. a \in Nat /\ b \in Nat /\ Len(q) \in Nat /\ DOMAIN q = 1 .. Len(q) /\ b <= Len(q)
  OBVIOUS
<1>2. \A i \in a + 1 .. b : i \in 1 .. Len(q) /\ q[i] \in Frame
  BY <1>1
<1>3. /\ s \in Seq(Frame)
      /\ Len(s) = IF a + 1 <= b THEN b - (a + 1) + 1 ELSE 0
      /\ \A i \in 1 .. b - (a + 1) + 1 : s[i] = q[(a + 1) + i - 1]
  BY <1>1, <1>2, SubSeqProperties
<1>4. Len(s) = b - a /\ DOMAIN s = 1 .. b - a
      /\ \A i \in 1 .. b - a : s[i] = q[a + i]
  BY <1>1, <1>3
<1>. HIDE DEF s
<1>5. Increasing(s)
  <2>. SUFFICES ASSUME NEW i \in 1 .. b - a, NEW j \in 1 .. b - a, i < j
       PROVE  s[i].seq < s[j].seq
    BY <1>4 DEF Increasing
  <2>1. a + i \in 1 .. Len(q) /\ a + j \in 1 .. Len(q) /\ a + i < a + j
    BY <1>1
  <2>. QED  BY <1>1, <1>4, <2>1 DEF Increasing
<1>6. ToSet(s) = {q[i] : i \in a + 1 .. b}
  <2>1. \A i \in 1 .. b - a : a + i \in a + 1 .. b
    BY <1>1
  <2>2. \A i \in a + 1 .. b : i - a \in 1 .. b - a /\ a + (i - a) = i
    BY <1>1
  <2>3. ToSet(s) = {s[i] : i \in 1 .. b - a}
    BY <1>4 DEF ToSet
  <2>4. \A i \in 1 .. b - a : s[i] \in {q[j] : j \in a + 1 .. b}
    BY <1>4, <2>1
  <2>5. \A i \in a + 1 .. b : q[i] = s[i - a]
    BY <1>4, <2>2
  <2>6. \A i \in a + 1 .. b : q[i] \in ToSet(s)
    BY <2>2, <2>3, <2>5
  <2>. QED  BY <2>3, <2>4, <2>6
<1>. QED  BY <1>3, <1>4, <1>5, <1>6 DEF s

LEMMA StreamSeed ==
  ASSUME NEW d \in Dests, NEW A \in Seq(Event), NEW W, d \notin W, NEW l \in Node,
         NEW rem, NEW U, NEW H \in SUBSET Frame, NEW n \in Nat, NEW x, ~x,
         Stream(d, A, W, l.nodes, U, H, n, x),
         NEW e \in Event, NEW e2 \in Event, e2.end = e.end,
         e2.list[d] = Seeded(e, l, rem).add,
         NEW W2, d \in W2 <=> ~Seeded(e, l, rem).done
  PROVE  Stream(d, Append(A, e2), W2, Seeded(e, l, rem).list.nodes, U,
                H \ Seeded(e, l, rem).free, n, x)
<1>. DEFINE q == l.nodes
            s == Seeded(e, l, rem)
            rest == s.list.nodes
            add == s.add
            F == s.free
            N == Len(q)
<1>1. q \in Seq(Frame) /\ N \in Nat /\ DOMAIN q = 1 .. N
  BY DEF Node
<1>2. Increasing(q) /\ ToSet(q) \subseteq H /\ Older(ToSet(q), U)
  BY DEF Stream, Listed
<1>3. PICK k \in 0 .. N, m \in 0 .. N :
        /\ k <= m
        /\ F = {q[i] : i \in 1 .. k}
        /\ add = SubSeq(q, k + 1, m)
        /\ rest = SubSeq(q, m + 1, N)
        /\ s.done \in BOOLEAN
        /\ ~s.done => m = N
        /\ s.done => \/ m > 0 /\ e.end <= End(q[m])
                     \/ m < N /\ e.end <= Beg(q[m + 1])
  BY <1>2, SeededShape
<1>4. \A i \in 1 .. N : q[i] \in Frame /\ q[i] \in ToSet(q)
  BY <1>1 DEF ToSet
<1>5. \A i, j \in 1 .. N : i < j => q[i].seq < q[j].seq
  BY <1>1, <1>2 DEF Increasing
<1>6. e2.list[d] = add /\ (d \in W2 <=> ~s.done)
  OBVIOUS
<1>7. ToSet(q) = {q[i] : i \in 1 .. N}
  BY <1>1 DEF ToSet
<1>. HIDE DEF q, s, rest, add, F, N
<1>i. k \in Nat /\ m \in Nat /\ k <= m /\ m <= N
  BY <1>1, <1>3
<1>ii. /\ \A i \in 1 .. k, j \in k + 1 .. N : i \in 1 .. N /\ j \in 1 .. N /\ i < j
       /\ \A i \in k + 1 .. m, j \in m + 1 .. N : i \in 1 .. N /\ j \in 1 .. N /\ i < j
       /\ \A i \in m + 1 .. N : i \in 1 .. N /\ m < i /\ (i = m + 1 \/ m + 1 < i)
       /\ (m > 0 => m \in 1 .. N) /\ (m < N => m + 1 \in 1 .. N)
  <2>1. N \in Nat /\ k \in Nat /\ m \in Nat /\ k <= m /\ m <= N
    BY <1>1, <1>i
  <2>2. \A i \in 1 .. k, j \in k + 1 .. N : i \in 1 .. N /\ j \in 1 .. N /\ i < j
    BY <2>1
  <2>3. \A i \in k + 1 .. m, j \in m + 1 .. N : i \in 1 .. N /\ j \in 1 .. N /\ i < j
    BY <2>1
  <2>4. \A i \in m + 1 .. N : i \in 1 .. N /\ m < i /\ (i = m + 1 \/ m + 1 < i)
    BY <2>1
  <2>. QED  BY <2>1, <2>2, <2>3, <2>4
<1>8. /\ Increasing(add) /\ ToSet(add) = {q[i] : i \in k + 1 .. m}
      /\ Increasing(rest) /\ ToSet(rest) = {q[i] : i \in m + 1 .. N}
      /\ rest \in Seq(Frame) /\ Len(rest) = N - m
  <2>1. q \in Seq(Frame) /\ Increasing(q) /\ add = SubSeq(q, k + 1, m)
        /\ rest = SubSeq(q, m + 1, N)
    BY <1>1, <1>2, <1>3
  <2>2. k \in 0 .. Len(q) /\ m \in 0 .. Len(q) /\ N \in 0 .. Len(q)
    BY <1>1 DEF N
  <2>3. /\ Increasing(SubSeq(q, k + 1, m))
        /\ ToSet(SubSeq(q, k + 1, m)) = {q[i] : i \in k + 1 .. m}
    BY <1>i, <2>1, <2>2, Part
  <2>4. LET t == SubSeq(q, m + 1, N)
        IN  /\ Increasing(t) /\ ToSet(t) = {q[i] : i \in m + 1 .. N}
            /\ t \in Seq(Frame) /\ Len(t) = N - m
    BY <1>i, <2>1, <2>2, Part
  <2>. QED  BY <2>1, <2>3, <2>4
<1>9. ToSet(q) = F \union ToSet(add) \union ToSet(rest)
  <2>. DEFINE I == 1 .. k
              J == k + 1 .. m
              K == m + 1 .. N
  <2>1. 1 .. N = I \union J \union K
    BY <1>1, <1>i
  <2>2. F = {q[i] : i \in I} /\ ToSet(add) = {q[i] : i \in J}
        /\ ToSet(rest) = {q[i] : i \in K}
    BY <1>3, <1>8
  <2>. HIDE DEF I, J, K
  <2>3. ToSet(q) = {q[i] : i \in I \union J \union K}
    BY <1>7, <2>1
  <2>. QED  BY <2>2, <2>3
<1>10. \A i \in 1 .. k, j \in k + 1 .. N : q[i].seq < q[j].seq
  BY <1>5, <1>ii
<1>11. \A i \in k + 1 .. m, j \in m + 1 .. N : q[i].seq < q[j].seq
  BY <1>5, <1>ii
<1>12. Older(F, ToSet(add) \union ToSet(rest))
  <2>1. \A j : j \in k + 1 .. m \/ j \in m + 1 .. N => j \in k + 1 .. N
    BY <1>1, <1>i
  <2>2. \A f \in F : \E i \in 1 .. k : f = q[i]
    BY <1>3
  <2>3. \A g \in ToSet(add) \union ToSet(rest) : \E j \in k + 1 .. N : g = q[j]
    BY <1>8, <2>1
  <2>. QED  BY <1>10, <2>2, <2>3 DEF Older
<1>13. Older(ToSet(add), ToSet(rest))
  BY <1>8, <1>11 DEF Older
<1>14. d \in W2 => rest = << >>
  <2>1. d \in W2 => Len(rest) = 0
    BY <1>1, <1>3, <1>6, <1>8
  <2>. QED  BY <1>8, <2>1, EmptySeq
<1>15. d \notin W2 => Beyond(e2, rest, U, n)
  <2>. SUFFICES ASSUME d \notin W2
       PROVE  /\ e.end <= n * FrameTicks
              /\ \A f \in U \union ToSet(rest) : e.end <= Beg(f)
    BY DEF Beyond
  <2>1. \A f \in ToSet(q) : f \in Frame /\ f.seq < n
    BY <1>2 DEF Stream
  <2>2. \A f \in U : f \in Frame
    BY DEF Stream
  <2>3. \A f \in ToSet(rest) : \E i \in m + 1 .. N : f = q[i]
    BY <1>8
  <2>4. CASE m > 0 /\ e.end <= End(q[m])
    <3>1. m \in 1 .. N
      BY <1>ii, <2>4
    <3>2. q[m] \in Frame /\ q[m].seq < n /\ q[m] \in ToSet(q)
      BY <1>4, <2>1, <3>1
    <3>3. \A f \in U : q[m].seq < f.seq
      BY <1>2, <3>2 DEF Older
    <3>4. \A i \in m + 1 .. N : q[m].seq < q[i].seq /\ q[i] \in Frame
      BY <1>4, <1>5, <1>ii, <3>1
    <3>5. \A f \in U \union ToSet(rest) : f \in Frame /\ q[m].seq < f.seq
      BY <2>2, <2>3, <3>3, <3>4
    <3>. QED  BY <2>4, <3>2, <3>5, BeyondAfter
  <2>5. CASE m < N /\ e.end <= Beg(q[m + 1])
    <3>1. m + 1 \in 1 .. N
      BY <1>ii, <2>5
    <3>2. q[m + 1] \in Frame /\ q[m + 1].seq < n /\ q[m + 1] \in ToSet(q)
      BY <1>4, <2>1, <3>1
    <3>3. \A f \in U : q[m + 1].seq < f.seq
      BY <1>2, <3>2 DEF Older
    <3>4. \A i \in m + 1 .. N :
            (q[i] = q[m + 1] \/ q[m + 1].seq < q[i].seq) /\ q[i] \in Frame
      BY <1>4, <1>5, <1>ii, <3>1
    <3>5. \A f \in U \union ToSet(rest) :
            f \in Frame /\ (f = q[m + 1] \/ q[m + 1].seq < f.seq)
      BY <2>2, <2>3, <3>3, <3>4
    <3>. QED  BY <2>5, <3>2, <3>5, BeyondFrom
  <2>. QED  BY <1>3, <1>6, <2>4, <2>5
<1>. QED
  <2>1. Stream(d, A, W, q, U, H, n, x)
    BY DEF q
  <2>2. Stream(d, Append(A, e2), W2, rest, U, H \ F, n, x)
    BY <1>6, <1>8, <1>9, <1>12, <1>13, <1>14, <1>15, <2>1, StreamSplit
  <2>. QED  BY <2>2 DEF rest, F, s

-----------------------------------------------------------------------------
(* A software trigger                                                      *)

(* The multiple of the period that check finds lies behind the beginning   *)
(* of the frame.                                                           *)
LEMMA SoftTimeAfter ==
  ASSUME NEW f \in Frame, NEW period \in Nat \ {0}, SoftTriggers(f, period)
  PROVE  SoftTime(f, period) \in Int /\ Beg(f) < SoftTime(f, period)
<1>. DEFINE a == Beg(f)
            b == End(f)
            i == a \div period
            j == b \div period
<1>1. a \in Nat /\ b \in Nat /\ a < b
  BY FrameTimes, FrameSpans
<1>2. b % period < a % period
  BY DEF SoftTriggers
<1>3. SoftTime(f, period) = b - (b % period)
  BY DEF SoftTime
<1>. HIDE DEF a, b
<1>4. /\ i \in Nat /\ j \in Nat
      /\ a = period * i + (a % period) /\ a % period \in 0 .. period - 1
      /\ b = period * j + (b % period) /\ b % period \in 0 .. period - 1
  BY <1>1
<1>. HIDE DEF i, j
<1>5. \A m, n \in Nat : m * n \in Nat
  OBVIOUS
<1>6. period * i \in Nat /\ period * j \in Nat
  BY <1>4, <1>5
<1>7. i < j
  <2>. SUFFICES ASSUME j <= i PROVE FALSE
    BY <1>4
  <2>1. i - j \in Nat /\ i = j + (i - j)
    BY <1>4
  <2>2. period * i = period * j + period * (i - j)
    BY <1>4, <2>1
  <2>3. period * (i - j) \in Nat
    BY <1>5, <2>1
  <2>. QED  BY <1>1, <1>2, <1>4, <1>6, <2>2, <2>3
<1>8. period * j = period * i + period + period * (j - (i + 1))
  BY <1>4
<1>9. period * (j - (i + 1)) \in Nat
  <2>1. j - (i + 1) \in Nat
    BY <1>4, <1>7
  <2>. QED  BY <1>5, <2>1
<1>10. a < period * j
  BY <1>4, <1>6, <1>8, <1>9
<1>. QED  BY <1>3, <1>4, <1>6, <1>10 DEF a

(* So the latency list of the destination, which ends before the frame     *)
(* that fired the trigger, cannot complete the event for it.               *)
LEMMA SeedLeaves ==
  ASSUME NEW d \in Dests, NEW A \in Seq(Event), NEW W, d \notin W, NEW l \in Node,
         NEW rem, NEW U, NEW H \in SUBSET Frame, NEW n \in Nat, NEW x, ~x,
         Stream(d, A, W, l.nodes, U, H, n, x),
         NEW e \in Event, NEW e2 \in Event, e2.end = e.end,
         e2.list[d] = Seeded(e, l, rem).add,
         NEW f \in U, Beg(f) < e.end
  PROVE  ~Seeded(e, l, rem).done
<1>. SUFFICES ASSUME Seeded(e, l, rem).done PROVE FALSE
  OBVIOUS
<1>. DEFINE rest == Seeded(e, l, rem).list.nodes
            B    == Append(A, e2)
            G    == H \ Seeded(e, l, rem).free
<1>1. d \in {} <=> ~Seeded(e, l, rem).done
  OBVIOUS
<1>2. Stream(d, B, {}, rest, U, G, n, x)
  BY <1>1, StreamSeed
<1>3. Len(A) + 1 \in DOMAIN B /\ B[Len(A) + 1] = e2
  OBVIOUS
<1>. HIDE DEF B, rest, G
<1>4. Beyond(e2, rest, U, n)
  BY <1>2, <1>3 DEF Stream
<1>5. e2.end \in Int /\ Beg(f) \in Nat
  <2>1. f \in Frame
    BY DEF Stream
  <2>. QED  BY <2>1, FrameTimes DEF Event
<1>. QED  BY <1>4, <1>5 DEF Beyond

-----------------------------------------------------------------------------
(* One destination and the event in progress                               *)

(* The frame that a latency list gives up is one of its own, or the frame  *)
(* put there.                                                              *)
LEMMA ReplacedFree ==
  ASSUME NEW l \in Node, NEW rem, NEW f \in Frame
  PROVE  Replaced(l, rem, f).free \subseteq ToSet(l.nodes) \union {f}
<1>. DEFINE base == IF l.loose THEN << >> ELSE l.nodes
            l2 == InsertTail(l, f)
<1>1. base \in Seq(Frame) /\ ToSet(base) \subseteq ToSet(l.nodes)
  <2>1. l.nodes \in Seq(Frame)
    BY DEF Node
  <2>. QED  BY <2>1 DEF ToSet
<1>2. l2.nodes = Append(base, f)
  BY DEF InsertTail
<1>3. Replaced(l, rem, f).free \subseteq {Head(l2.nodes)}
  BY DEF Replaced
<1>. HIDE DEF base, l2
<1>4. l2.nodes \in Seq(Frame) /\ l2.nodes # << >>
  BY <1>1, <1>2
<1>5. Head(l2.nodes) \in ToSet(l2.nodes)
  BY <1>4, ToSetTail
<1>6. ToSet(l2.nodes) = ToSet(base) \union {f}
  BY <1>1, <1>2, ToSetAppend
<1>. QED  BY <1>1, <1>3, <1>5, <1>6

(* The event in progress, e, is offered the next frame of d.               *)
LEMMA StreamOffer ==
  ASSUME NEW d \in Dests, NEW P \in Seq(Event), NEW e \in Event,
         NEW l \in Node, NEW rem \in 0 .. Depth,
         NEW U, NEW H \in SUBSET Frame, NEW n \in Nat, NEW x, ~x,
         Stream(d, Append(P, e), e.ctbs, l.nodes, U, H, n, x),
         NEW f \in U, Older({f}, U \ {f})
  PROVE  LET e2 == Evaluated(e, f)
             r  == Replaced(l, rem, f)
             B  == Append(P, e2)
         IN  /\ ToLatency(e, f) =>
                  Stream(d, B, e2.ctbs, r.list.nodes, U \ {f}, H \ r.free, n, x)
             /\ ToFree(e, f) /\ ~ToLatency(e, f) =>
                  Stream(d, B, e2.ctbs, l.nodes, U \ {f}, H \ {f}, n, x)
             /\ ~ToFree(e, f) /\ ~ToLatency(e, f) =>
                  Stream(d, B, e2.ctbs, l.nodes, U \ {f}, H, n, x)
<1>. DEFINE e2 == Evaluated(e, f)
            A  == Append(P, e)
            B  == Append(P, e2)
            g  == Added(e, f)
            C  == Append(P, g)
            m  == Len(P) + 1
            V  == U \ {f}
<1>1. /\ f \in Frame /\ f.dest = d /\ f.seq < n
      /\ \A h \in U : h \in Frame
      /\ d \in e.ctbs => l.nodes = << >>
  BY DEF Stream
<1>2. \A h \in V : h \in Frame /\ f.seq < h.seq
  BY <1>1 DEF Older
<1>3. Early(e, f) \/ Inside(e, f) \/ Late(e, f)
  <2>1. Beg(f) \in Nat /\ End(f) \in Nat /\ e.beg \in Int /\ e.end \in Int
    BY <1>1, FrameTimes DEF Event
  <2>. QED  BY <2>1 DEF Early, Inside, Late
<1>4. ~(Early(e, f) /\ Inside(e, f)) /\ ~(Early(e, f) /\ Late(e, f))
      /\ ~(Inside(e, f) /\ Late(e, f))
  <2>1. Beg(f) \in Nat /\ End(f) \in Nat /\ e.beg \in Int /\ e.end \in Int
    BY <1>1, FrameTimes DEF Event
  <2>. QED  BY <2>1 DEF Early, Inside, Late
<1>5. /\ g \in Event /\ g.ctbs = e.ctbs /\ g.end = e.end
      /\ g.list[d] = Append(e.list[d], f)
  <2>1. g \in Event /\ g.ctbs = e.ctbs
    BY <1>1, AddedType
  <2>2. g.end = e.end /\ g.list[d] = Append(e.list[d], f)
    BY <1>1 DEF Added, Event
  <2>. QED  BY <2>1, <2>2
<1>6. \A h \in Event : /\ Closed(h, d) \in Event /\ Closed(h, d).ctbs = h.ctbs \ {d}
                       /\ Closed(h, d).end = h.end /\ Closed(h, d).list = h.list
  <2>. SUFFICES ASSUME NEW h \in Event
       PROVE  /\ Closed(h, d) \in Event /\ Closed(h, d).ctbs = h.ctbs \ {d}
              /\ Closed(h, d).end = h.end /\ Closed(h, d).list = h.list
    OBVIOUS
  <2>1. Closed(h, d).end = h.end /\ Closed(h, d).list = h.list
    BY DEF Closed, Event
  <2>. QED  BY <2>1, ClosedType
<1>7. /\ A \in Seq(Event) /\ C \in Seq(Event) /\ m \in Nat /\ A # << >> /\ C # << >>
      /\ Len(A) = m /\ Len(C) = m /\ A[m] = e /\ C[m] = g
      /\ \A i \in 1 .. m : i # m => A[i] = C[i]
  BY <1>5
<1>8. \A h, h2 \in Event : h.list[d] = h2.list[d] /\ h.end = h2.end
                           => Alike(Append(P, h), Append(P, h2), d)
  BY DEF Alike
<1>. HIDE DEF A, C, B, g, m, V
<1>9. Stream(d, A, e.ctbs, l.nodes, U, H, n, x)
  BY DEF A
<1>10. CASE ~Pending(e, f)
  <2>1. e2 = e /\ B = A /\ d \notin e.ctbs /\ ToLatency(e, f)
    BY <1>1, <1>10 DEF Evaluated, Pending, ToLatency, A, B
  <2>2. Stream(d, A, e.ctbs, Replaced(l, rem, f).list.nodes, V,
               H \ Replaced(l, rem, f).free, n, x)
    BY <1>7, <1>9, <2>1, StreamKeep DEF V
  <2>. QED  BY <2>1, <2>2 DEF B, V
<1>11. CASE Pending(e, f) /\ Early(e, f)
  <2>1. e2 = e /\ B = A
    BY <1>4, <1>11 DEF Evaluated, Completes, B, A
  <2>2. ToFree(e, f) /\ ~ToLatency(e, f)
    BY <1>4, <1>11 DEF ToFree, ToLatency
  <2>3. l.nodes \in Seq(Frame)
    BY DEF Node
  <2>4. Stream(d, A, e.ctbs, l.nodes, V, H \ {f}, n, x)
    BY <1>7, <1>9, <2>3, StreamReturn DEF V
  <2>. QED  BY <2>1, <2>2, <2>4 DEF B, V
<1>12. CASE Pending(e, f) /\ Inside(e, f)
  <2>1. ~ToFree(e, f) /\ ~ToLatency(e, f) /\ d \in e.ctbs
    BY <1>1, <1>4, <1>12 DEF ToFree, ToLatency, Pending
  <2>2. l.nodes \in Seq(Frame) /\ l.nodes = << >>
    BY <1>1, <2>1 DEF Node
  <2>3. \A i \in 1 .. m : i # m => A[i].list[d] = C[i].list[d] /\ A[i].end = C[i].end
    BY <1>7
  <2>4. C[m].list[d] = Append(A[m].list[d], f)
    BY <1>5, <1>7
  <2>5. Stream(d, C, e.ctbs, l.nodes, V, H, n, x)
    <3>1. A \in Seq(Event) /\ C \in Seq(Event) /\ m \in Nat /\ m = Len(A) /\ m = Len(C)
      BY <1>7
    <3>2. l.nodes \in Seq(Frame) /\ d \in e.ctbs
      BY <2>1, <2>2
    <3>3. Stream(d, C, e.ctbs, l.nodes, U \ {f}, H, n, x)
      BY <1>9, <2>3, <2>4, <3>1, <3>2, StreamAdd
    <3>. QED  BY <3>3 DEF V
  <2>6. CASE ~Completes(e, f)
    <3>1. e2 = g /\ B = C
      BY <1>12, <2>6 DEF Evaluated, g, B, C
    <3>. QED  BY <1>5, <2>1, <2>5, <3>1 DEF B, V
  <2>7. CASE Completes(e, f)
    <3>1. e2 = Closed(g, d)
      BY <1>1, <1>12, <2>7 DEF Evaluated, g
    <3>2. e2 \in Event /\ e2.ctbs = e.ctbs \ {d} /\ e2.end = g.end /\ e2.list = g.list
      BY <1>5, <1>6, <3>1
    <3>3. e.end <= End(f)
      BY <1>4, <1>12, <2>7 DEF Completes
    <3>4. Beyond(g, l.nodes, V, n)
      <4>1. V \union ToSet(l.nodes) = V
        BY <2>2 DEF ToSet
      <4>2. g.end <= n * FrameTicks /\ \A h \in V : g.end <= Beg(h)
        BY <1>1, <1>2, <1>5, <3>3, BeyondAfter DEF V
      <4>. QED  BY <4>1, <4>2 DEF Beyond
    <3>5. Stream(d, C, e2.ctbs, l.nodes, V, H, n, x)
      BY <1>7, <2>5, <3>2, <3>4, StreamClose
    <3>6. Alike(C, B, d) /\ B \in Seq(Event)
      BY <1>5, <1>8, <3>2 DEF B, C
    <3>7. Stream(d, B, e2.ctbs, l.nodes, V, H, n, x)
      BY <1>7, <3>5, <3>6, StreamAlike
    <3>. QED  BY <2>1, <3>7 DEF B, V
  <2>. QED  BY <2>6, <2>7
<1>13. CASE Pending(e, f) /\ Late(e, f)
  <2>1. ToLatency(e, f) /\ d \in e.ctbs /\ ~ToFree(e, f)
    BY <1>1, <1>4, <1>13 DEF ToFree, ToLatency, Pending
  <2>2. e2 = Closed(e, d)
    BY <1>1, <1>4, <1>13 DEF Evaluated, Completes
  <2>3. e2 \in Event /\ e2.ctbs = e.ctbs \ {d} /\ e2.end = e.end /\ e2.list = e.list
    BY <1>6, <2>2
  <2>4. Beyond(e, l.nodes, U, n)
    <3>1. U \union ToSet(l.nodes) = U
      BY <1>1, <2>1 DEF ToSet
    <3>2. e.end <= Beg(f)
      <4>1. e.end \in Int /\ Beg(f) \in Nat
        BY <1>1, FrameTimes DEF Event
      <4>. QED  BY <1>13, <4>1 DEF Late
    <3>3. \A h \in U : h \in Frame /\ (h = f \/ f.seq < h.seq)
      BY <1>1, <1>2 DEF V
    <3>4. e.end <= n * FrameTicks /\ \A h \in U : e.end <= Beg(h)
      BY <1>1, <3>2, <3>3, BeyondFrom
    <3>. QED  BY <3>1, <3>4 DEF Beyond
  <2>5. Stream(d, A, e2.ctbs, l.nodes, U, H, n, x)
    BY <1>7, <1>9, <2>3, <2>4, StreamClose
  <2>6. Alike(A, B, d) /\ B \in Seq(Event)
    BY <1>8, <2>3 DEF A, B
  <2>7. Stream(d, B, e2.ctbs, l.nodes, U, H, n, x)
    BY <1>7, <2>5, <2>6, StreamAlike
  <2>8. Stream(d, B, e2.ctbs, Replaced(l, rem, f).list.nodes, V,
               H \ Replaced(l, rem, f).free, n, x)
    BY <2>3, <2>6, <2>7, StreamKeep DEF V
  <2>. QED  BY <2>1, <2>8 DEF B, V
<1>. QED  BY <1>3, <1>10, <1>11, <1>12, <1>13

-----------------------------------------------------------------------------
(* The data channel                                                        *)

LEMMA QueueAppend ==
  ASSUME NEW q \in Seq(Frame), QueueInOrder(q), NEW f \in Frame,
         \A g \in ToSet(q) : g.dest = f.dest => g.seq < f.seq
  PROVE  QueueInOrder(Append(q, f))
<1>. DEFINE s == Append(q, f)
            m == Len(q)
<1>1. m \in Nat /\ DOMAIN s = 1 .. m + 1 /\ DOMAIN q = 1 .. m
      /\ s[m + 1] = f /\ \A i \in 1 .. m : s[i] = q[i] /\ q[i] \in ToSet(q)
  BY DEF ToSet
<1>. HIDE DEF s, m
<1>. SUFFICES ASSUME NEW i \in 1 .. m + 1, NEW j \in 1 .. m + 1, i < j, s[i].dest = s[j].dest
     PROVE  s[i].seq < s[j].seq
  BY <1>1 DEF QueueInOrder, s
<1>2. i \in 1 .. m /\ (j \in 1 .. m \/ j = m + 1)
  BY <1>1
<1>. QED  BY <1>1, <1>2 DEF QueueInOrder

(* The frame at the head of the channel is the next one of its destination *)
(* to be read.                                                             *)
LEMMA QueueHead ==
  ASSUME NEW q \in Seq(Frame), q # << >>, QueueInOrder(q)
  PROVE  LET f == Head(q)
             F == Of(ToSet(q), f.dest)
         IN  /\ QueueInOrder(Tail(q)) /\ ToSet(Tail(q)) \subseteq ToSet(q) \ {f}
             /\ f \in F /\ Older({f}, F \ {f})
             /\ Of(ToSet(Tail(q)), f.dest) = F \ {f}
             /\ \A d : d # f.dest => Of(ToSet(Tail(q)), d) = Of(ToSet(q), d)
<1>. DEFINE f == Head(q)
            t == Tail(q)
            m == Len(q)
<1>1. m \in Nat /\ DOMAIN q = 1 .. m /\ m > 0 /\ f = q[1]
      /\ \A i \in 1 .. m : q[i] \in Frame
  OBVIOUS
<1>2. DOMAIN t = 1 .. m - 1 /\ \A i \in 1 .. m - 1 : t[i] = q[i + 1]
  OBVIOUS
<1>3. ToSet(q) = {f} \union ToSet(t)
  BY ToSetTail
<1>. HIDE DEF f, t, m
<1>4. QueueInOrder(t)
  <2>. SUFFICES ASSUME NEW i \in 1 .. m - 1, NEW j \in 1 .. m - 1, i < j, t[i].dest = t[j].dest
       PROVE  t[i].seq < t[j].seq
    BY <1>2 DEF QueueInOrder
  <2>1. i + 1 \in 1 .. m /\ j + 1 \in 1 .. m /\ i + 1 < j + 1
    BY <1>1
  <2>. QED  BY <1>1, <1>2, <2>1 DEF QueueInOrder
<1>5. \A g \in ToSet(t) : g.dest = f.dest => f.seq < g.seq
  <2>. SUFFICES ASSUME NEW i \in 1 .. m - 1, t[i].dest = f.dest PROVE f.seq < t[i].seq
    BY <1>2 DEF ToSet
  <2>1. i + 1 \in 1 .. m /\ 1 \in 1 .. m /\ 1 < i + 1
    BY <1>1
  <2>. QED  BY <1>1, <1>2, <2>1 DEF QueueInOrder
<1>6. f \notin ToSet(t)
  <2>1. f.seq \in Nat
    BY <1>1 DEF Frame
  <2>. QED  BY <1>5, <2>1
<1>7. Of(ToSet(t), f.dest) = Of(ToSet(q), f.dest) \ {f} /\ f \in Of(ToSet(q), f.dest)
  BY <1>3, <1>6 DEF Of
<1>8. Older({f}, Of(ToSet(t), f.dest))
  BY <1>5 DEF Older, Of
<1>9. \A d : d # f.dest => Of(ToSet(t), d) = Of(ToSet(q), d)
  BY <1>3 DEF Of
<1>. QED  BY <1>3, <1>4, <1>6, <1>7, <1>8, <1>9 DEF f, t

-----------------------------------------------------------------------------
(* All destinations                                                        *)

Streams(A, W, lat, q, h, snt, x) ==
  \A d \in Dests :
    Stream(d, A, W, lat[d].nodes, Of(ToSet(q), d), Of(h, d), snt[d], x)

(* Only frames of the destinations are on the lists, ...                   *)
LEMMA StreamOwns ==
  ASSUME NEW A, NEW W, NEW lat, NEW q, NEW h, NEW snt, NEW x,
         Streams(A, W, lat, q, h, snt, x), NEW d \in Dests
  PROVE  /\ ToSet(lat[d].nodes) \subseteq Of(h, d)
         /\ \A i \in DOMAIN A : ToSet(A[i].list[d]) \subseteq Of(h, d)
<1>. DEFINE L == {A[i].list[d] : i \in DOMAIN A}
<1>1. Listed(L, lat[d].nodes, Of(ToSet(q), d), Of(h, d))
  BY DEF Streams, Stream
<1>2. \A i \in DOMAIN A : A[i].list[d] \in L
  OBVIOUS
<1>. HIDE DEF L
<1>. QED  BY <1>1, <1>2 DEF Listed

(* ... and a thread that ends keeps them where they are.                   *)
LEMMA StreamsStop ==
  ASSUME NEW A, NEW W, NEW lat, NEW q, NEW h, NEW snt, NEW x,
         Streams(A, W, lat, q, h, snt, x), NEW y, y
  PROVE  Streams(A, W, lat, q, h, snt, y)
BY DEF Streams, Stream

(* What StreamInv says of a state with the same channel, or one frame less *)
(* in it.                                                                  *)
LEMMA StreamInvStep ==
  ASSUME StreamInv, QueueInOrder(dataQ'), ToSet(dataQ') \subseteq ToSet(dataQ),
         held' \subseteq held, UNCHANGED sent,
         \A f \in held : f \in ToSet(dataQ') /\ f.dest \notin Dests => f \in held',
         Streams(AllEvents', Waiting', latency', dataQ', held', sent', exited')
  PROVE  StreamInv'
<1>1. \A f \in ToSet(dataQ') : f \in held'
  <2>. SUFFICES ASSUME NEW f \in ToSet(dataQ') PROVE f \in held'
    OBVIOUS
  <2>1. CASE f.dest \in Dests
    <3>1. Of(ToSet(dataQ'), f.dest) \subseteq Of(held', f.dest)
      BY <2>1 DEF Streams, Stream
    <3>. QED  BY <3>1 DEF Of
  <2>2. CASE f.dest \notin Dests
    BY <2>2 DEF StreamInv
  <2>. QED  BY <2>1, <2>2
<1>2. \A f \in held' : f.seq < sent'[f.dest]
  BY DEF StreamInv
<1>3. \A d \in Dests :
        Stream(d, AllEvents', Waiting', latency'[d].nodes, Of(ToSet(dataQ'), d),
               Of(held', d), sent'[d], exited')
  BY DEF Streams
<1>. QED  BY <1>1, <1>2, <1>3 DEF StreamInv

LEMMA StreamsInv ==
  ASSUME StreamInv
  PROVE  Streams(AllEvents, Waiting, latency, dataQ, held, sent, exited)
BY DEF StreamInv, Streams

-----------------------------------------------------------------------------
(* The events that are about                                               *)

LEMMA ChainIdle ==
  ASSUME NEW s \in Event \union {NoEvent}, NEW q \in Seq(Event)
  PROVE  /\ Ev(s) \o q \in Seq(Event)
         /\ (Ev(s) \o q) \o Ev(NoEvent) = Ev(s) \o q
<1>1. Ev(s) \in Seq(Event) /\ Ev(NoEvent) = << >>
  BY DEF Ev
<1>2. Ev(s) \o q \in Seq(Event)
  BY <1>1
<1>. QED  BY <1>1, <1>2, ConcatEmptySeq

LEMMA ChainActive ==
  ASSUME NEW P \in Seq(Event), NEW e \in Event
  PROVE  P \o Ev(e) = Append(P, e) /\ Append(P, e) \in Seq(Event)
<1>1. Ev(e) = <<e>>
  BY NoEventAssumption DEF Ev
<1>2. Append(P, e) = P \o <<e>>
  BY AppendIsConcat
<1>. QED  BY <1>1, <1>2

LEMMA ChainPost ==
  ASSUME NEW s \in Event \union {NoEvent}, NEW q \in Seq(Event), NEW p \in Event
  PROVE  Ev(s) \o Append(q, p) = Append(Ev(s) \o q, p)
<1>1. Ev(s) \in Seq(Event) /\ <<p>> \in Seq(Event) /\ Ev(s) \o q \in Seq(Event)
  BY DEF Ev
<1>2. Append(q, p) = q \o <<p>>
  BY AppendIsConcat
<1>3. Append(Ev(s) \o q, p) = (Ev(s) \o q) \o <<p>>
  BY <1>1, AppendIsConcat
<1>4. Ev(s) \o (q \o <<p>>) = (Ev(s) \o q) \o <<p>>
  BY <1>1, ConcatAssociative
<1>. QED  BY <1>2, <1>3, <1>4

LEMMA EventsNow ==
  ASSUME TypeOK
  PROVE  /\ Posted \in Seq(Event) /\ AllEvents \in Seq(Event)
         /\ event = NoEvent => AllEvents = Posted
         /\ event # NoEvent => event \in Event /\ AllEvents = Append(Posted, event)
<1>1. Posted \in Seq(Event) /\ Posted \o Ev(NoEvent) = Posted
  BY ChainIdle DEF TypeOK, Posted
<1>2. event \in Event => AllEvents = Append(Posted, event) /\ AllEvents \in Seq(Event)
  BY <1>1, ChainActive DEF AllEvents
<1>3. event = NoEvent => AllEvents = Posted
  BY <1>1 DEF AllEvents
<1>4. event \in Event \union {NoEvent}
  BY DEF TypeOK
<1>. QED  BY <1>1, <1>2, <1>3, <1>4

(* What becomes of the event in progress once it has been looked at.       *)
LEMMA StreamsSettle ==
  ASSUME IInv, NEW e \in Event, Counted(e),
         NEW enabled, enabled \subseteq {"timing", "data"}, Settle(e, enabled),
         UNCHANGED sending, NEW lat, NEW q, NEW h, NEW snt,
         Streams(Append(Posted, e), e.ctbs, lat, q, h, snt, FALSE)
  PROVE  Streams(AllEvents', Waiting', lat, q, h, snt, exited')
<1>1. exited' = FALSE
  BY SettleFacts
<1>2. /\ sending \in Event \union {NoEvent} /\ txReqQueue \in Seq(Event)
      /\ e # NoEvent /\ NoEvent \in Event \union {NoEvent} /\ e \in Event \union {NoEvent}
  BY NoEventAssumption DEF IInv, TypeOK
<1>3. Posted \in Seq(Event)
  BY EventsNow DEF IInv
<1>4. CASE ~Complete(e)
  <2>1. event' = e /\ txReqQueue' = txReqQueue
    BY <1>4 DEF Settle
  <2>2. Waiting' = e.ctbs
    BY <1>2, <2>1 DEF Waiting
  <2>3. AllEvents' = Posted \o Ev(e)
    BY <2>1 DEF AllEvents, Posted
  <2>4. AllEvents' = Append(Posted, e)
    BY <1>3, <2>3, ChainActive
  <2>. QED  BY <1>1, <2>2, <2>4
<1>5. CASE Complete(e)
  <2>. DEFINE posted == [e EXCEPT !.ctbs = Dests \ @]
  <2>1. /\ event' = NoEvent /\ e.ctbs = {}
        /\ txReqQueue' = IF Len(txReqQueue) < TxSlots
                         THEN Append(txReqQueue, posted) ELSE txReqQueue
    BY <1>5 DEF Settle, Post, Complete
  <2>2. posted \in Event /\ posted.list = e.list /\ posted.end = e.end
    BY DEF Event
  <2>. HIDE DEF posted
  <2>3. Waiting' = {}
    BY <2>1 DEF Waiting
  <2>4. txReqQueue' \in Seq(Event)
    BY <1>2, <2>1, <2>2
  <2>5. AllEvents' = Ev(sending) \o txReqQueue'
    <3>1. AllEvents' = (Ev(sending) \o txReqQueue') \o Ev(NoEvent)
      BY <2>1 DEF AllEvents, Posted
    <3>2. (Ev(sending) \o txReqQueue') \o Ev(NoEvent) = Ev(sending) \o txReqQueue'
      BY <1>2, <2>4, ChainIdle
    <3>. QED  BY <3>1, <3>2
  <2>6. CASE Len(txReqQueue) < TxSlots
    <3>1. AllEvents' = Append(Posted, posted)
      <4>1. AllEvents' = Ev(sending) \o Append(txReqQueue, posted)
        BY <2>1, <2>5, <2>6
      <4>. QED  BY <1>2, <2>2, <4>1, ChainPost DEF Posted
    <3>2. Append(Posted, e) \in Seq(Event) /\ Append(Posted, posted) \in Seq(Event)
      BY <1>3, <2>2
    <3>3. ASSUME NEW d \in Dests
          PROVE  Alike(Append(Posted, e), Append(Posted, posted), d)
      BY <1>3, <2>2 DEF Alike
    <3>4. ASSUME NEW d \in Dests
          PROVE  Stream(d, Append(Posted, posted), {}, lat[d].nodes, Of(ToSet(q), d),
                        Of(h, d), snt[d], FALSE)
      <4>1. Stream(d, Append(Posted, e), {}, lat[d].nodes, Of(ToSet(q), d),
                   Of(h, d), snt[d], FALSE)
        BY <2>1 DEF Streams
      <4>. QED  BY <3>2, <3>3, <4>1, StreamAlike
    <3>. QED  BY <1>1, <2>3, <3>1, <3>4 DEF Streams
  <2>7. CASE ~(Len(txReqQueue) < TxSlots)
    <3>1. AllEvents' = Posted
      BY <2>1, <2>5, <2>7 DEF Posted
    <3>2. ASSUME NEW d \in Dests
          PROVE  Stream(d, Posted, {}, lat[d].nodes, Of(ToSet(q), d),
                        Of(h, d), snt[d], FALSE)
      <4>1. Stream(d, Append(Posted, e), {}, lat[d].nodes, Of(ToSet(q), d),
                   Of(h, d), snt[d], FALSE)
        BY <2>1 DEF Streams
      <4>. QED  BY <1>3, <4>1, StreamDrop
    <3>. QED  BY <1>1, <2>3, <3>1, <3>2 DEF Streams
  <2>. QED  BY <2>6, <2>7
<1>. QED  BY <1>4, <1>5

-----------------------------------------------------------------------------
(* The event in progress and the next frame                                *)

(* Evaluation leaves the event as it was for the other destinations.       *)
LEMMA EvaluatedOthers ==
  ASSUME NEW P \in Seq(Event), NEW e \in Event, NEW f \in Frame, f.dest \in Dests,
         Evaluated(e, f) \in Event, NEW d \in Dests, d # f.dest
  PROVE  /\ d \in e.ctbs <=> d \in Evaluated(e, f).ctbs
         /\ Alike(Append(P, e), Append(P, Evaluated(e, f)), d)
<1>. DEFINE e2 == Evaluated(e, f)
            g  == IF Inside(e, f) THEN Added(e, f) ELSE e
<1>1. g \in Event /\ g.ctbs = e.ctbs
  BY AddedType
<1>2. g.list[d] = e.list[d] /\ g.end = e.end
  BY DEF Added, Event
<1>3. e2 = e \/ e2 = g \/ e2 = Closed(g, f.dest)
  BY DEF Evaluated
<1>. HIDE DEF g, e2
<1>4. Closed(g, f.dest).ctbs = e.ctbs \ {f.dest}
  BY <1>1, ClosedType
<1>5. Closed(g, f.dest).list[d] = e.list[d] /\ Closed(g, f.dest).end = e.end
  BY <1>1, <1>2 DEF Closed, Event
<1>6. /\ d \in e.ctbs <=> d \in e2.ctbs
      /\ e2.list[d] = e.list[d] /\ e2.end = e.end
  BY <1>1, <1>2, <1>3, <1>4, <1>5
<1>7. e2 \in Event
  BY DEF e2
<1>8. Alike(Append(P, e), Append(P, e2), d)
  BY <1>6, <1>7 DEF Alike
<1>. QED  BY <1>6, <1>8 DEF e2

(* What a frame that an event was offered does to the lists, and what is   *)
(* returned of the frames.                                                 *)
Offered(e, f, lat, rem, h, lat2, h2) ==
  LET r == Replaced(lat[f.dest], rem[f.dest], f)
  IN  \/ /\ ToLatency(e, f)
         /\ lat2 = [lat EXCEPT ![f.dest] = r.list]
         /\ h2 = h \ r.free
      \/ /\ ~ToLatency(e, f) /\ ToFree(e, f)
         /\ lat2 = lat
         /\ h2 = h \ {f}
      \/ /\ ~ToLatency(e, f) /\ ~ToFree(e, f)
         /\ lat2 = lat
         /\ h2 = h

LEMMA StreamsOffer ==
  ASSUME NEW P \in Seq(Event), NEW e \in Event, NEW q \in Seq(Frame), q # << >>,
         QueueInOrder(q), NEW f \in Frame, f = Head(q), f.dest \in Dests,
         NEW e2 \in Event, e2 = Evaluated(e, f),
         NEW lat \in [Dests -> Node], NEW rem \in [Dests -> 0 .. Depth],
         NEW h \in SUBSET Frame, NEW snt \in [Sources -> Nat], NEW x, ~x,
         Streams(Append(P, e), e.ctbs, lat, q, h, snt, x),
         NEW lat2, NEW h2, Offered(e, f, lat, rem, h, lat2, h2)
  PROVE  Streams(Append(P, e2), e2.ctbs, lat2, Tail(q), h2, snt, x)
<1>. DEFINE c  == f.dest
            r  == Replaced(lat[c], rem[c], f)
            U  == Of(ToSet(q), c)
            H  == Of(h, c)
            A  == Append(P, e)
            B  == Append(P, e2)
<1>1. /\ f \in U /\ Older({f}, U \ {f}) /\ Of(ToSet(Tail(q)), c) = U \ {f}
      /\ \A d : d # c => Of(ToSet(Tail(q)), d) = Of(ToSet(q), d)
  BY QueueHead
<1>2. /\ c \in Dests /\ e2 \in Event /\ H \in SUBSET Frame /\ f \in Frame
      /\ lat[c] \in Node /\ rem[c] \in 0 .. Depth /\ snt[c] \in Nat
  BY DEF Of, Sources
<1>3. A \in Seq(Event) /\ B \in Seq(Event)
  BY <1>2
<1>. HIDE DEF c, A, B
<1>5. Stream(c, A, e.ctbs, lat[c].nodes, U, H, snt[c], x)
  BY <1>2 DEF Streams, A
<1>6. /\ ToLatency(e, f) =>
           Stream(c, B, e2.ctbs, r.list.nodes, U \ {f}, H \ r.free, snt[c], x)
      /\ ToFree(e, f) /\ ~ToLatency(e, f) =>
           Stream(c, B, e2.ctbs, lat[c].nodes, U \ {f}, H \ {f}, snt[c], x)
      /\ ~ToFree(e, f) /\ ~ToLatency(e, f) =>
           Stream(c, B, e2.ctbs, lat[c].nodes, U \ {f}, H, snt[c], x)
  <2>. HIDE DEF U, H
  <2>. QED  BY <1>1, <1>2, <1>5, StreamOffer DEF A, B
<1>7. r.free \subseteq H /\ f \in H
  <2>1. r.free \subseteq ToSet(lat[c].nodes) \union {f}
    BY <1>2, ReplacedFree
  <2>2. ToSet(lat[c].nodes) \subseteq H
    BY <1>2, StreamOwns
  <2>3. f \in H
    BY <1>1, <1>5 DEF Stream
  <2>. QED  BY <2>1, <2>2, <2>3
<1>. DEFINE X == h \ h2
<1>8. /\ X \subseteq H /\ h2 = h \ X
      /\ \A d \in Dests : d # c => lat2[d] = lat[d]
      /\ Stream(c, B, e2.ctbs, lat2[c].nodes, U \ {f}, Of(h2, c), snt[c], x)
  <2>. HIDE DEF U, r
  <2>1. CASE /\ ToLatency(e, f)
             /\ lat2 = [lat EXCEPT ![c] = r.list]
             /\ h2 = h \ r.free
    <3>1. Of(h2, c) = H \ r.free
      BY <2>1 DEF Of
    <3>2. lat2[c] = r.list /\ \A d \in Dests : d # c => lat2[d] = lat[d]
      BY <1>2, <2>1
    <3>. QED  BY <1>6, <1>7, <2>1, <3>1, <3>2
  <2>2. CASE ~ToLatency(e, f) /\ ToFree(e, f) /\ lat2 = lat /\ h2 = h \ {f}
    <3>1. Of(h2, c) = H \ {f}
      BY <2>2 DEF Of
    <3>. QED  BY <1>6, <1>7, <2>2, <3>1
  <2>3. CASE ~ToLatency(e, f) /\ ~ToFree(e, f) /\ lat2 = lat /\ h2 = h
    BY <1>6, <1>7, <2>3
  <2>. QED  BY <2>1, <2>2, <2>3 DEF Offered, r, c
<1>9. \A g \in X : g.dest = c
  BY <1>8 DEF Of
<1>10. ASSUME NEW d \in Dests, d # c
       PROVE  Stream(d, B, e2.ctbs, lat2[d].nodes, Of(ToSet(Tail(q)), d), Of(h2, d),
                     snt[d], x)
  <2>1. Of(h2, d) = Of(h, d)
    <3>1. \A g \in X : g.dest # d
      BY <1>9, <1>10
    <3>2. h2 = h \ X
      BY <1>8
    <3>. HIDE DEF X
    <3>. QED  BY <3>1, <3>2 DEF Of
  <2>2. Stream(d, A, e.ctbs, lat[d].nodes, Of(ToSet(q), d), Of(h, d), snt[d], x)
    BY DEF Streams, A
  <2>3. (d \in e.ctbs <=> d \in e2.ctbs) /\ Alike(A, B, d)
    BY <1>2, <1>10, EvaluatedOthers DEF A, B, c
  <2>4. Stream(d, B, e2.ctbs, lat[d].nodes, Of(ToSet(q), d), Of(h, d), snt[d], x)
    BY <1>3, <2>2, <2>3, StreamAlike
  <2>5. lat2[d] = lat[d] /\ Of(ToSet(Tail(q)), d) = Of(ToSet(q), d)
    BY <1>1, <1>8, <1>10
  <2>. QED  BY <2>1, <2>4, <2>5
<1>11. Streams(B, e2.ctbs, lat2, Tail(q), h2, snt, x)
  <2>. SUFFICES ASSUME NEW d \in Dests
       PROVE  Stream(d, B, e2.ctbs, lat2[d].nodes, Of(ToSet(Tail(q)), d), Of(h2, d),
                     snt[d], x)
    BY DEF Streams
  <2>1. CASE d = c
    BY <1>1, <1>8, <2>1
  <2>. QED  BY <1>10, <2>1
<1>. QED  BY <1>11 DEF B

-----------------------------------------------------------------------------
(* A new event                                                             *)

(* The event that the latency lists have seeded is the last one.           *)
LEMMA StreamsSeed ==
  ASSUME IInv, StreamInv, event = NoEvent, ~exited, NEW e \in Event
  PROVE  LET s == Seed(e)
         IN  /\ Streams(Append(Posted, s.event), s.event.ctbs, s.latency, dataQ,
                        held \ s.free, sent, FALSE)
             /\ \A g \in s.free : g.dest \in Dests
             /\ \A f \in ToSet(dataQ) :
                  f.dest \in Dests /\ Beg(f) < e.end => f.dest \in s.event.ctbs
<1>. DEFINE s(d) == Seeded(e, latency[d], remaining[d])
            done == {d \in Dests : s(d).done}
            e2   == Seed(e).event
            F    == UNION {s(d).free : d \in Dests}
<1>1. /\ Seed(e).free = F
      /\ e2.ctbs = Dests \ done /\ e2.end = e.end
      /\ \A d \in Dests : e2.list[d] = s(d).add
      /\ \A d \in Dests : Seed(e).latency[d] = s(d).list
  BY DEF Seed, Event
<1>2. e2 \in Event
  BY SeedFacts DEF IInv
<1>3. /\ Posted \in Seq(Event) /\ Waiting = {}
      /\ held \in SUBSET Frame /\ latency \in [Dests -> Node]
      /\ sent \in [Sources -> Nat] /\ remaining \in [Dests -> 0 .. Depth]
  BY EventsNow DEF IInv, TypeOK, Waiting, Node
<1>4. Streams(Posted, {}, latency, dataQ, held, sent, exited)
  BY <1>3, StreamsInv, EventsNow DEF IInv
<1>5. \A d \in Dests : s(d).free \subseteq Of(held, d)
  <2>. SUFFICES ASSUME NEW d \in Dests PROVE s(d).free \subseteq Of(held, d)
    OBVIOUS
  <2>1. latency[d] \in Node /\ Increasing(latency[d].nodes)
    BY <1>3, <1>4 DEF Streams, Stream, Listed
  <2>2. s(d).free \subseteq ToSet(latency[d].nodes)
    BY <2>1, SeededFree
  <2>3. ToSet(latency[d].nodes) \subseteq Of(held, d)
    BY <1>4, StreamOwns
  <2>. QED  BY <2>2, <2>3
<1>6. \A d \in Dests : Of(held \ F, d) = Of(held, d) \ s(d).free
  BY <1>5 DEF Of
<1>. HIDE DEF s, done, e2, F
<1>7. ASSUME NEW d \in Dests
      PROVE  /\ Stream(d, Append(Posted, e2), e2.ctbs, s(d).list.nodes,
                       Of(ToSet(dataQ), d), Of(held \ F, d), sent[d], FALSE)
             /\ \A f \in Of(ToSet(dataQ), d) : Beg(f) < e.end => d \notin done
  <2>. DEFINE l == latency[d]
              U == Of(ToSet(dataQ), d)
              H == Of(held, d)
              n == sent[d]
  <2>1. /\ l \in Node /\ n \in Nat /\ H \in SUBSET Frame
        /\ e2.end = e.end /\ e2.list[d] = s(d).add /\ e2 \in Event
        /\ (d \in e2.ctbs <=> ~s(d).done) /\ (d \in done <=> s(d).done)
    BY <1>1, <1>2, <1>3 DEF Of, Sources, done
  <2>2. Stream(d, Posted, {}, l.nodes, U, H, n, exited)
    BY <1>4 DEF Streams
  <2>3. Stream(d, Posted, {}, l.nodes, U, H, n, FALSE)
    BY <2>2 DEF Stream
  <2>4. Of(held \ F, d) = H \ s(d).free
    BY <1>6
  <2>. HIDE DEF l, U, H, n
  <2>5. Stream(d, Append(Posted, e2), e2.ctbs, s(d).list.nodes, U, H \ s(d).free, n, FALSE)
    BY <1>3, <2>1, <2>3, StreamSeed DEF s, l
  <2>6. \A f \in U : Beg(f) < e.end => ~s(d).done
    BY <1>3, <2>1, <2>3, SeedLeaves DEF s, l
  <2>. QED  BY <2>1, <2>4, <2>5, <2>6 DEF U, n
<1>8. Streams(Append(Posted, e2), e2.ctbs, Seed(e).latency, dataQ, held \ F, sent, FALSE)
  BY <1>1, <1>7 DEF Streams
<1>9. \A g \in F : g.dest \in Dests
  BY <1>5 DEF F, Of
<1>10. ASSUME NEW f \in ToSet(dataQ), f.dest \in Dests, Beg(f) < e.end
       PROVE  f.dest \in e2.ctbs
  <2>1. f \in Of(ToSet(dataQ), f.dest)
    BY DEF Of
  <2>. QED  BY <1>1, <1>7, <1>10, <2>1
<1>. QED  BY <1>1, <1>8, <1>9, <1>10 DEF e2

-----------------------------------------------------------------------------
(* The steps                                                               *)

LEMMA EventsUnchanged ==
  ASSUME UNCHANGED <<event, txReqQueue, sending>>
  PROVE  AllEvents' = AllEvents /\ Waiting' = Waiting
BY DEF AllEvents, Posted, Waiting

LEMMA StreamInit == Init => StreamInv
<1>. SUFFICES ASSUME Init PROVE StreamInv
  OBVIOUS
<1>1. AllEvents = << >> /\ Waiting = {}
  BY ConcatEmptySeq DEF Init, AllEvents, Posted, Ev, Waiting
<1>2. dataQ = << >> /\ held = {}
  BY DEF Init
<1>3. ToSet(dataQ) = {} /\ QueueInOrder(dataQ)
  BY <1>2 DEF ToSet, QueueInOrder
<1>4. ASSUME NEW d \in Dests
      PROVE  Stream(d, << >>, {}, << >>, {}, {}, sent[d], exited)
  <2>1. ToSet(<< >>) = {} /\ Increasing(<< >>)
    BY DEF ToSet, Increasing
  <2>. QED  BY <2>1 DEF Stream, Listed, Older, CaughtUp
<1>5. \A d \in Dests : /\ latency[d].nodes = << >> /\ Of(ToSet(dataQ), d) = {}
                       /\ Of(held, d) = {}
  BY <1>2, <1>3 DEF Init, EmptyList, Of
<1>. QED  BY <1>1, <1>2, <1>3, <1>4, <1>5 DEF StreamInv

(* What moves neither frames nor events.                                   *)
LEMMA StreamSame ==
  ASSUME StreamInv, UNCHANGED <<dataQ, held, sent, latency, exited>>,
         AllEvents' = AllEvents, Waiting' = Waiting
  PROVE  StreamInv'
<1>1. Streams(AllEvents', Waiting', latency', dataQ', held', sent', exited')
  BY StreamsInv
<1>2. QueueInOrder(dataQ')
  BY DEF StreamInv
<1>. QED  BY <1>1, <1>2, StreamInvStep DEF StreamInv

LEMMA StreamArrives ==
  ASSUME IInv, StreamInv, NEW d \in Sources, FrameArrives(d)
  PROVE  StreamInv'
<1>1. PICK ok \in BOOLEAN :
        LET f == [dest |-> d, seq |-> sent[d], good |-> ok]
        IN  /\ dataQ' = Append(dataQ, f)
            /\ held' = held \union {f}
            /\ sent' = [sent EXCEPT ![d] = @ + 1]
            /\ UNCHANGED <<event, latency, txReqQueue, sending, exited>>
  BY DEF FrameArrives, rxVars
<1>. DEFINE f == [dest |-> d, seq |-> sent[d], good |-> ok]
<1>2. /\ dataQ \in Seq(Frame) /\ held \in SUBSET Frame /\ sent \in [Sources -> Nat]
      /\ latency \in [Dests -> Node] /\ AllEvents \in Seq(Event)
  BY EventsNow DEF IInv, TypeOK, Node
<1>3. f \in Frame /\ f.dest = d /\ f.seq = sent[d]
  BY <1>2 DEF Frame
<1>4. AllEvents' = AllEvents /\ Waiting' = Waiting
  BY <1>1, EventsUnchanged
<1>5. dataQ' = Append(dataQ, f) /\ held' = held \union {f}
      /\ sent' = [sent EXCEPT ![d] = @ + 1] /\ latency' = latency /\ exited' = exited
  BY <1>1
<1>. HIDE DEF f
<1>6. ToSet(dataQ') = ToSet(dataQ) \union {f}
  BY <1>2, <1>5, ToSetAppend
<1>7. QueueInOrder(dataQ')
  <2>1. QueueInOrder(dataQ) /\ \A g \in ToSet(dataQ) : g.seq < sent[g.dest]
    BY DEF StreamInv
  <2>. QED  BY <1>2, <1>3, <1>5, <2>1, QueueAppend
<1>8. sent'[d] = sent[d] + 1 /\ \A c \in Sources : c # d => sent'[c] = sent[c]
  BY <1>2, <1>5
<1>9. ToSet(dataQ') \subseteq held' /\ \A g \in held' : g.seq < sent'[g.dest]
  <2>1. ASSUME NEW g \in held PROVE g.seq < sent'[g.dest]
    <3>1. g.seq \in Nat /\ g.dest \in Sources /\ g.seq < sent[g.dest]
      BY <1>2 DEF StreamInv, Frame
    <3>2. sent[g.dest] \in Nat
      BY <1>2, <3>1
    <3>. QED  BY <1>8, <3>1, <3>2
  <2>2. f.seq < sent'[f.dest]
    BY <1>2, <1>3, <1>8
  <2>3. ToSet(dataQ) \subseteq held
    BY DEF StreamInv
  <2>. QED  BY <1>5, <1>6, <2>1, <2>2, <2>3
<1>10. ASSUME NEW c \in Dests
       PROVE  Stream(c, AllEvents, Waiting, latency[c].nodes, Of(ToSet(dataQ'), c),
                     Of(held', c), sent'[c], exited)
  <2>1. Stream(c, AllEvents, Waiting, latency[c].nodes, Of(ToSet(dataQ), c),
               Of(held, c), sent[c], exited)
    BY DEF StreamInv
  <2>2. CASE c = d
    <3>1. Of(ToSet(dataQ'), c) = Of(ToSet(dataQ), c) \union {f}
          /\ Of(held', c) = Of(held, c) \union {f} /\ sent'[c] = sent[c] + 1
      BY <1>3, <1>5, <1>6, <1>8, <2>2 DEF Of
    <3>2. /\ latency[c].nodes \in Seq(Frame) /\ Of(held, c) \in SUBSET Frame
          /\ sent[c] \in Nat /\ f.dest = c /\ f.seq = sent[c]
      BY <1>2, <1>3, <2>2 DEF Node, Of, Sources
    <3>3. AllEvents \in Seq(Event) /\ f \in Frame
      BY <1>2, <1>3
    <3>4. Stream(c, AllEvents, Waiting, latency[c].nodes, Of(ToSet(dataQ), c) \union {f},
                 Of(held, c) \union {f}, sent[c] + 1, exited)
      BY <2>1, <3>2, <3>3, StreamArrive
    <3>. QED  BY <3>1, <3>4
  <2>3. CASE c # d
    <3>1. Of(ToSet(dataQ'), c) = Of(ToSet(dataQ), c)
          /\ Of(held', c) = Of(held, c) /\ sent'[c] = sent[c]
      BY <1>3, <1>5, <1>6, <1>8, <2>3 DEF Of, Sources
    <3>. QED  BY <2>1, <3>1
  <2>. QED  BY <2>2, <2>3
<1>. QED  BY <1>4, <1>5, <1>7, <1>9, <1>10 DEF StreamInv

LEMMA StreamLoses ==
  ASSUME IInv, StreamInv, NEW d \in Dests, FrameLost(d)
  PROVE  StreamInv'
<1>1. /\ sent \in [Sources -> Nat] /\ held \in SUBSET Frame
      /\ latency \in [Dests -> Node] /\ AllEvents \in Seq(Event)
  BY EventsNow DEF IInv, TypeOK, Node
<1>2. /\ dataQ' = dataQ /\ held' = held /\ latency' = latency /\ exited' = exited
      /\ sent' = [sent EXCEPT ![d] = @ + 1]
      /\ UNCHANGED <<event, txReqQueue, sending>>
  BY DEF FrameLost, rxVars, txVars
<1>3. sent'[d] = sent[d] + 1 /\ \A c \in Sources : c # d => sent'[c] = sent[c]
  BY <1>1, <1>2 DEF Sources
<1>4. AllEvents' = AllEvents /\ Waiting' = Waiting
  BY <1>2, EventsUnchanged
<1>5. \A g \in held : g.seq < sent'[g.dest]
  <2>. SUFFICES ASSUME NEW g \in held PROVE g.seq < sent'[g.dest]
    OBVIOUS
  <2>1. g.seq \in Nat /\ g.dest \in Sources /\ g.seq < sent[g.dest]
    BY <1>1 DEF StreamInv, Frame
  <2>2. sent[g.dest] \in Nat /\ sent[d] \in Nat
    BY <1>1, <2>1 DEF Sources
  <2>. QED  BY <1>3, <2>1, <2>2
<1>6. ASSUME NEW c \in Dests
      PROVE  Stream(c, AllEvents, Waiting, latency[c].nodes, Of(ToSet(dataQ), c),
                    Of(held, c), sent'[c], exited)
  <2>1. Stream(c, AllEvents, Waiting, latency[c].nodes, Of(ToSet(dataQ), c),
               Of(held, c), sent[c], exited)
    BY DEF StreamInv
  <2>2. latency[c].nodes \in Seq(Frame) /\ Of(held, c) \in SUBSET Frame /\ sent[c] \in Nat
    BY <1>1 DEF Node, Of, Sources
  <2>3. CASE c = d
    BY <1>1, <1>3, <2>1, <2>2, <2>3, StreamLost
  <2>4. CASE c # d
    BY <1>3, <2>1, <2>4 DEF Sources
  <2>. QED  BY <2>3, <2>4
<1>. QED  BY <1>2, <1>4, <1>5, <1>6 DEF StreamInv

(* An event changes hands.                                                 *)
LEMMA ChainTake ==
  ASSUME IInv, TxTake
  PROVE  AllEvents' = AllEvents /\ Waiting' = Waiting
<1>1. /\ sending = NoEvent /\ txReqQueue # << >>
      /\ sending' = Head(txReqQueue) /\ txReqQueue' = Tail(txReqQueue) /\ event' = event
  BY DEF TxTake, rxVars
<1>2. txReqQueue \in Seq(Event)
  BY DEF IInv, TypeOK
<1>3. Head(txReqQueue) \in Event
  BY <1>1, <1>2
<1>4. Posted = txReqQueue
  BY <1>1, <1>2, ConcatEmptySeq DEF Posted, Ev
<1>5. Posted' = <<Head(txReqQueue)>> \o Tail(txReqQueue)
  BY <1>1, <1>3, NoEventAssumption DEF Posted, Ev
<1>6. <<Head(txReqQueue)>> \o Tail(txReqQueue) = txReqQueue
  BY <1>1, <1>2
<1>. QED  BY <1>1, <1>4, <1>5, <1>6 DEF AllEvents, Waiting

LEMMA StreamTakes ==
  ASSUME IInv, StreamInv, TxTake
  PROVE  StreamInv'
<1>1. UNCHANGED <<dataQ, held, sent, latency, exited>>
  BY DEF TxTake, envVars, rxVars
<1>. QED  BY <1>1, ChainTake, StreamSame

LEMMA ChainFirst ==
  ASSUME NEW s \in Event, NEW q \in Seq(Event), NEW t \in Seq(Event)
  PROVE  LET A == (Ev(s) \o q) \o t
         IN  /\ A # << >> /\ A[1] = s /\ Tail(A) = (Ev(NoEvent) \o q) \o t
             /\ Len(A) = 1 + Len(q) + Len(t)
<1>. DEFINE A == (Ev(s) \o q) \o t
            u == q \o t
<1>1. Ev(s) = <<s>> /\ Ev(NoEvent) = << >> /\ <<s>> \in Seq(Event)
  BY NoEventAssumption DEF Ev
<1>2. u \in Seq(Event) /\ Len(u) = Len(q) + Len(t)
  OBVIOUS
<1>3. A = <<s>> \o u
  BY <1>1, ConcatAssociative
<1>4. (Ev(NoEvent) \o q) \o t = u
  BY <1>1, ConcatEmptySeq
<1>. HIDE DEF A, u
<1>5. A # << >> /\ A[1] = s /\ Len(A) = 1 + Len(u) /\ Tail(A) = u
  <2>1. u \in Seq(Event) /\ s \in Event /\ A = <<s>> \o u
    BY <1>2, <1>3
  <2>. QED  BY ONLY <2>1
<1>6. Len(q) \in Nat /\ Len(t) \in Nat
  OBVIOUS
<1>. QED  BY <1>2, <1>4, <1>5, <1>6 DEF A

(* The oldest event goes.                                                  *)
LEMMA ChainRelease ==
  ASSUME IInv, TxRelease
  PROVE  /\ AllEvents # << >> /\ AllEvents[1] = sending /\ AllEvents' = Tail(AllEvents)
         /\ Len(AllEvents) = 1 + Len(txReqQueue) + Len(Ev(event))
         /\ AllEvents \in Seq(Event)
<1>1. /\ sending # NoEvent /\ sending' = NoEvent
      /\ UNCHANGED <<txReqQueue, event>>
  BY DEF TxRelease, rxVars
<1>2. /\ sending \in Event /\ txReqQueue \in Seq(Event)
      /\ event \in Event \union {NoEvent}
  BY <1>1 DEF IInv, TypeOK
<1>3. Ev(event) \in Seq(Event)
  BY <1>2 DEF Ev
<1>4. AllEvents' = (Ev(NoEvent) \o txReqQueue) \o Ev(event)
  BY <1>1 DEF AllEvents, Posted
<1>5. AllEvents = (Ev(sending) \o txReqQueue) \o Ev(event)
  BY DEF AllEvents, Posted
<1>6. AllEvents \in Seq(Event)
  BY EventsNow DEF IInv
<1>7. LET B == (Ev(sending) \o txReqQueue) \o Ev(event)
      IN  /\ B # << >> /\ B[1] = sending
          /\ Tail(B) = (Ev(NoEvent) \o txReqQueue) \o Ev(event)
          /\ Len(B) = 1 + Len(txReqQueue) + Len(Ev(event))
  <2>1. sending \in Event /\ txReqQueue \in Seq(Event) /\ Ev(event) \in Seq(Event)
    BY <1>2, <1>3
  <2>. QED  BY ONLY <2>1, ChainFirst, Zenon
<1>. QED  BY <1>4, <1>5, <1>6, <1>7

(* The frames of the oldest event are returned.                            *)
LEMMA StreamReleases ==
  ASSUME IInv, StreamInv, TxRelease
  PROVE  StreamInv'
<1>. DEFINE A == AllEvents
            F == EventFrames(sending)
<1>1. /\ sending # NoEvent /\ sending' = NoEvent /\ held' = held \ F
      /\ UNCHANGED <<txReqQueue, event, dataQ, sent, latency, exited>>
  BY DEF TxRelease, envVars, rxVars
<1>2. txReqQueue \in Seq(Event) /\ held \in SUBSET Frame
  BY DEF IInv, TypeOK
<1>4. /\ A # << >> /\ A[1] = sending /\ Tail(A) = AllEvents'
      /\ Len(A) = 1 + Len(txReqQueue) + Len(Ev(event)) /\ A \in Seq(Event)
  BY ChainRelease
<1>5. Waiting' = Waiting
  BY <1>1 DEF Waiting
<1>6. Waiting = {} \/ Len(A) > 1
  <2>1. event # NoEvent => Len(Ev(event)) = 1
    BY DEF Ev
  <2>2. Len(txReqQueue) \in Nat
    BY <1>2
  <2>. QED  BY <1>4, <2>1, <2>2 DEF Waiting
<1>7. Streams(A, Waiting, latency, dataQ, held, sent, exited)
  BY StreamsInv
<1>8. \A d \in Dests : ToSet(A[1].list[d]) \subseteq Of(held, d)
  <2>1. 1 \in DOMAIN A
    BY <1>4
  <2>. HIDE DEF A
  <2>. QED  BY <1>7, <2>1, StreamOwns
<1>9. F = UNION {ToSet(A[1].list[d]) : d \in Dests}
  BY <1>4 DEF EventFrames
<1>. HIDE DEF A, F
<1>10. \A d \in Dests : Of(held', d) = Of(held, d) \ ToSet(A[1].list[d])
  BY <1>1, <1>8, <1>9 DEF Of
<1>11. ASSUME NEW d \in Dests
       PROVE  Stream(d, Tail(A), Waiting, latency[d].nodes, Of(ToSet(dataQ), d),
                     Of(held', d), sent[d], exited)
  <2>1. Stream(d, A, Waiting, latency[d].nodes, Of(ToSet(dataQ), d), Of(held, d),
               sent[d], exited)
    BY <1>7 DEF Streams
  <2>2. Of(held, d) \in SUBSET Frame
    BY <1>2 DEF Of
  <2>3. Len(A) > 1 \/ d \notin Waiting
    BY <1>6
  <2>4. Stream(d, Tail(A), Waiting, latency[d].nodes, Of(ToSet(dataQ), d),
               Of(held, d) \ ToSet(A[1].list[d]), sent[d], exited)
    BY <1>4, <2>1, <2>2, <2>3, StreamRelease
  <2>. QED  BY <1>10, <2>4
<1>12. Streams(AllEvents', Waiting', latency', dataQ', held', sent', exited')
  BY <1>1, <1>4, <1>5, <1>11 DEF Streams
<1>13. \A f \in F : f.dest \in Dests
  BY <1>8, <1>9 DEF Of
<1>14. /\ held' \subseteq held
       /\ \A f \in held : f.dest \notin Dests => f \in held'
  BY <1>1, <1>13
<1>15. QueueInOrder(dataQ') /\ ToSet(dataQ') \subseteq ToSet(dataQ) /\ sent' = sent
  BY <1>1 DEF StreamInv
<1>. QED  BY <1>12, <1>14, <1>15, StreamInvStep

(* A frame is read.                                                        *)
LEMMA StreamReads ==
  ASSUME IInv, StreamInv, pc = "data", ~exited
  PROVE  LET f == Head(dataQ)
             F == Of(ToSet(dataQ), f.dest)
         IN  /\ dataQ \in Seq(Frame) /\ dataQ # << >>
             /\ QueueInOrder(Tail(dataQ)) /\ ToSet(Tail(dataQ)) \subseteq ToSet(dataQ) \ {f}
             /\ f \in Frame /\ f \in F /\ Older({f}, F \ {f})
             /\ Of(ToSet(Tail(dataQ)), f.dest) = F \ {f}
             /\ \A d : d # f.dest => Of(ToSet(Tail(dataQ)), d) = Of(ToSet(dataQ), d)
<1>1. dataQ \in Seq(Frame) /\ dataQ # << >> /\ QueueInOrder(dataQ)
  BY DEF IInv, TypeOK, Reading, StreamInv
<1>2. Head(dataQ) \in Frame
  BY <1>1
<1>. QED  BY <1>1, <1>2, QueueHead

(* It is returned.                                                         *)
LEMMA StreamReturns ==
  ASSUME IInv, StreamInv, ReturnStray \/ ReturnFrame
  PROVE  StreamInv'
<1>. DEFINE f == Head(dataQ)
            U == Of(ToSet(dataQ), f.dest)
<1>1. /\ pc = "data" /\ ~exited
      /\ dataQ' = Tail(dataQ) /\ held' = held \ {f}
      /\ UNCHANGED <<sent, latency, event, txReqQueue, sending, exited>>
  BY DEF ReturnStray, ReturnFrame
<1>2. /\ dataQ \in Seq(Frame) /\ QueueInOrder(dataQ')
      /\ ToSet(dataQ') \subseteq ToSet(dataQ) \ {f}
      /\ f \in Frame /\ f \in U
      /\ Of(ToSet(dataQ'), f.dest) = U \ {f}
      /\ \A d : d # f.dest => Of(ToSet(dataQ'), d) = Of(ToSet(dataQ), d)
  BY <1>1, StreamReads
<1>. HIDE DEF f, U
<1>3. /\ held \in SUBSET Frame /\ sent \in [Sources -> Nat]
      /\ latency \in [Dests -> Node] /\ AllEvents \in Seq(Event)
  BY EventsNow DEF IInv, TypeOK, Node
<1>4. AllEvents' = AllEvents /\ Waiting' = Waiting
  BY <1>1, EventsUnchanged
<1>5. ASSUME NEW d \in Dests
      PROVE  Stream(d, AllEvents, Waiting, latency[d].nodes, Of(ToSet(dataQ'), d),
                    Of(held', d), sent[d], exited)
  <2>1. Stream(d, AllEvents, Waiting, latency[d].nodes, Of(ToSet(dataQ), d),
               Of(held, d), sent[d], exited)
    BY DEF StreamInv
  <2>2. CASE d = f.dest
    <3>1. Of(held', d) = Of(held, d) \ {f} /\ Of(ToSet(dataQ), d) = U
          /\ Of(ToSet(dataQ'), d) = U \ {f}
      BY <1>1, <1>2, <2>2 DEF Of, U
    <3>2. latency[d].nodes \in Seq(Frame) /\ Of(held, d) \in SUBSET Frame /\ sent[d] \in Nat
      BY <1>3 DEF Node, Of, Sources
    <3>3. Stream(d, AllEvents, Waiting, latency[d].nodes, U, Of(held, d), sent[d], exited)
      BY <2>1, <3>1
    <3>4. Stream(d, AllEvents, Waiting, latency[d].nodes, U \ {f}, Of(held, d) \ {f},
                 sent[d], exited)
      BY <1>2, <1>3, <3>2, <3>3, StreamReturn
    <3>. QED  BY <3>1, <3>4
  <2>3. CASE d # f.dest
    <3>1. Of(held', d) = Of(held, d) /\ Of(ToSet(dataQ'), d) = Of(ToSet(dataQ), d)
      BY <1>1, <1>2, <2>3 DEF Of
    <3>. QED  BY <2>1, <3>1
  <2>. QED  BY <2>2, <2>3
<1>6. Streams(AllEvents', Waiting', latency', dataQ', held', sent', exited')
  BY <1>1, <1>4, <1>5 DEF Streams
<1>7. /\ held' \subseteq held
      /\ \A g \in held : g \in ToSet(dataQ') /\ g.dest \notin Dests => g \in held'
  BY <1>1, <1>2
<1>. QED  BY <1>1, <1>2, <1>6, <1>7, StreamInvStep

(* It is kept on its latency list.                                         *)
LEMMA StreamKeeps ==
  ASSUME IInv, StreamInv, KeepFrame
  PROVE  StreamInv'
<1>. DEFINE f == Head(dataQ)
            c == f.dest
            U == Of(ToSet(dataQ), c)
            r == Replaced(latency[c], remaining[c], f)
<1>1. /\ pc = "data" /\ ~exited /\ c \in Dests /\ ~trgActive
      /\ dataQ' = Tail(dataQ) /\ held' = held \ r.free
      /\ latency' = [latency EXCEPT ![c] = r.list]
      /\ UNCHANGED <<sent, event, txReqQueue, sending, exited>>
  BY DEF KeepFrame, Accept, PutOnLatency
<1>2. /\ dataQ \in Seq(Frame) /\ QueueInOrder(dataQ')
      /\ ToSet(dataQ') \subseteq ToSet(dataQ)
      /\ f \in Frame /\ f \in U /\ Older({f}, U \ {f})
      /\ Of(ToSet(dataQ'), c) = U \ {f}
      /\ \A d : d # c => Of(ToSet(dataQ'), d) = Of(ToSet(dataQ), d)
  BY <1>1, StreamReads
<1>3. /\ held \in SUBSET Frame /\ sent \in [Sources -> Nat]
      /\ latency \in [Dests -> Node] /\ AllEvents \in Seq(Event)
      /\ remaining \in [Dests -> 0 .. Depth]
  BY EventsNow DEF IInv, TypeOK, Node
<1>4. AllEvents' = AllEvents /\ Waiting' = Waiting
  BY <1>1, EventsUnchanged
<1>5. Waiting = {}
  BY <1>1 DEF IInv, ActiveMatchesEvent, Waiting
<1>6. Streams(AllEvents, Waiting, latency, dataQ, held, sent, exited)
  BY StreamsInv
<1>. HIDE DEF f, c, U, r
<1>7. r.free \subseteq Of(held, c)
  <2>1. latency[c] \in Node
    BY <1>1, <1>3
  <2>2. r.free \subseteq ToSet(latency[c].nodes) \union {f}
    BY <1>2, <2>1, ReplacedFree DEF r
  <2>3. ToSet(latency[c].nodes) \subseteq Of(held, c)
    BY <1>1, <1>6, StreamOwns
  <2>4. U \subseteq Of(held, c)
    BY <1>1, <1>6 DEF Streams, Stream, U
  <2>. QED  BY <1>2, <2>2, <2>3, <2>4
<1>8. ASSUME NEW d \in Dests
      PROVE  Stream(d, AllEvents, Waiting, latency'[d].nodes, Of(ToSet(dataQ'), d),
                    Of(held', d), sent[d], exited)
  <2>1. Stream(d, AllEvents, Waiting, latency[d].nodes, Of(ToSet(dataQ), d),
               Of(held, d), sent[d], exited)
    BY <1>6 DEF Streams
  <2>2. CASE d = c
    <3>1. /\ Of(held', c) = Of(held, c) \ r.free /\ Of(ToSet(dataQ), c) = U
          /\ latency'[c] = r.list
      BY <1>1, <1>3 DEF Of, U
    <3>2. /\ latency[c] \in Node /\ Of(held, c) \in SUBSET Frame /\ sent[c] \in Nat
          /\ remaining[c] \in 0 .. Depth /\ c \notin Waiting
      BY <1>1, <1>3, <1>5 DEF Of, Sources
    <3>3. Stream(c, AllEvents, Waiting, latency[c].nodes, U, Of(held, c), sent[c], exited)
      BY <2>1, <2>2, <3>1
    <3>4. Stream(c, AllEvents, Waiting, r.list.nodes, U \ {f}, Of(held, c) \ r.free,
                 sent[c], exited)
      BY <1>2, <1>3, <3>2, <3>3, StreamKeep DEF r
    <3>. QED  BY <1>2, <2>2, <3>1, <3>4
  <2>3. CASE d # c
    <3>1. Of(held', d) = Of(held, d)
      <4>1. \A g \in r.free : g.dest # d
        BY <1>7, <2>3 DEF Of
      <4>. QED  BY <1>1, <4>1 DEF Of
    <3>2. latency'[d] = latency[d] /\ Of(ToSet(dataQ'), d) = Of(ToSet(dataQ), d)
      BY <1>1, <1>2, <1>3, <2>3
    <3>. QED  BY <2>1, <3>1, <3>2
  <2>. QED  BY <2>2, <2>3
<1>9. Streams(AllEvents', Waiting', latency', dataQ', held', sent', exited')
  BY <1>1, <1>4, <1>8 DEF Streams
<1>10. /\ held' \subseteq held
       /\ \A g \in held : g.dest \notin Dests => g \in held'
  BY <1>1, <1>7 DEF Of
<1>. QED  BY <1>1, <1>2, <1>9, <1>10, StreamInvStep

(* An event, in progress or new, is offered the frame; the frames in gone  *)
(* were returned when it was seeded.                                       *)
LEMMA StreamsStep ==
  ASSUME IInv, StreamInv, pc = "data", ~exited, dataQ' = Tail(dataQ),
         UNCHANGED <<sent, sending>>, Head(dataQ).dest \in Dests,
         NEW e \in Event, Counted(e), NEW lat, NEW rem, Lists(lat, rem),
         \A d \in e.ctbs : lat[d].nodes = << >>,
         NEW gone, \A g \in gone : g.dest \in Dests,
         Offer(e, Head(dataQ), lat, rem, gone),
         Streams(Append(Posted, e), e.ctbs, lat, dataQ, held \ gone, sent, FALSE)
  PROVE  StreamInv'
<1>. DEFINE f == Head(dataQ)
            e2 == Evaluated(e, f)
            h == held \ gone
<1>1. /\ dataQ \in Seq(Frame) /\ dataQ # << >> /\ QueueInOrder(dataQ)
      /\ QueueInOrder(dataQ') /\ ToSet(dataQ') \subseteq ToSet(dataQ) /\ f \in Frame
  BY StreamReads DEF StreamInv
<1>2. /\ Settle(e2, Rearmed) /\ e2 \in Event /\ Counted(e2)
  BY <1>1, OfferFacts
<1>3. Rearmed \subseteq {"timing", "data"}
  BY DEF Rearmed, IInv, TypeOK
<1>4. /\ lat \in [Dests -> Node] /\ rem \in [Dests -> 0 .. Depth]
      /\ sent \in [Sources -> Nat] /\ h \in SUBSET Frame /\ Posted \in Seq(Event)
  BY EventsNow DEF IInv, TypeOK, Lists
<1>5. Offered(e, f, lat, rem, h, latency', held')
  <2>1. ASSUME ToLatency(e, f)
        PROVE  /\ latency' = [lat EXCEPT ![f.dest] = Replaced(lat[f.dest], rem[f.dest], f).list]
               /\ held' = h \ Replaced(lat[f.dest], rem[f.dest], f).free
    BY <2>1 DEF Offer, PutOnLatency
  <2>2. ASSUME ~ToLatency(e, f)
        PROVE  latency' = lat /\ held' = h \ (IF ToFree(e, f) THEN {f} ELSE {})
    BY <2>2 DEF Offer
  <2>. HIDE DEF f, h
  <2>. QED  BY <2>1, <2>2 DEF Offered
<1>. HIDE DEF f, e2, h
<1>6. Streams(Append(Posted, e2), e2.ctbs, latency', dataQ', held', sent, FALSE)
      /\ held' \subseteq h /\ \A g \in h \ held' : g.dest = f.dest
  <2>1. Streams(Append(Posted, e), e.ctbs, lat, dataQ, h, sent, FALSE)
    BY DEF h
  <2>2. f = Head(dataQ) /\ f.dest \in Dests /\ e2 = Evaluated(e, f)
    BY DEF f, e2
  <2>3. /\ dataQ \in Seq(Frame) /\ dataQ # << >> /\ QueueInOrder(dataQ) /\ f \in Frame
        /\ e2 \in Event /\ lat \in [Dests -> Node] /\ rem \in [Dests -> 0 .. Depth]
        /\ sent \in [Sources -> Nat] /\ h \in SUBSET Frame /\ Posted \in Seq(Event)
    BY <1>1, <1>2, <1>4
  <2>4. Streams(Append(Posted, e2), e2.ctbs, latency', Tail(dataQ), held', sent, FALSE)
    BY <1>5, <2>1, <2>2, <2>3, StreamsOffer
  <2>5. ToSet(lat[f.dest].nodes) \subseteq Of(h, f.dest) /\ f \in h
    <3>1. ToSet(lat[f.dest].nodes) \subseteq Of(h, f.dest)
      BY <2>1, <2>2, StreamOwns
    <3>2. f \in Of(ToSet(dataQ), f.dest)
      BY <2>2, StreamReads
    <3>3. Of(ToSet(dataQ), f.dest) \subseteq Of(h, f.dest)
      BY <2>1, <2>2 DEF Streams, Stream
    <3>. QED  BY <3>1, <3>2, <3>3 DEF Of
  <2>6. held' \subseteq h /\ \A g \in h \ held' : g.dest = f.dest
    <3>. DEFINE r == Replaced(lat[f.dest], rem[f.dest], f)
    <3>1. f \in Frame /\ lat[f.dest] \in Node
      BY <2>2, <2>3
    <3>2. r.free \subseteq ToSet(lat[f.dest].nodes) \union {f}
      BY <3>1, ReplacedFree
    <3>3. \A g \in r.free : g.dest = f.dest
      BY <2>5, <3>2 DEF Of
    <3>4. held' = h \ r.free \/ held' = h \ {f} \/ held' = h
      BY <1>5 DEF Offered
    <3>. HIDE DEF r
    <3>. QED  BY <3>3, <3>4
  <2>. QED  BY <2>4, <2>6
<1>7. Streams(AllEvents', Waiting', latency', dataQ', held', sent, exited')
  BY <1>2, <1>3, <1>6, StreamsSettle
<1>8. /\ held' \subseteq held
      /\ \A g \in held : g.dest \notin Dests => g \in held'
  <2>1. held \ held' \subseteq gone \union (h \ held')
    BY DEF h
  <2>2. f.dest \in Dests /\ h \subseteq held
    BY DEF f, h
  <2>3. \A g \in held \ held' : g.dest \in Dests
    BY <1>6, <2>1, <2>2
  <2>. QED  BY <1>6, <2>2, <2>3
<1>. QED  BY <1>1, <1>7, <1>8, StreamInvStep

LEMMA StreamAdds ==
  ASSUME IInv, StreamInv, AddFrame
  PROVE  StreamInv'
<1>1. /\ pc = "data" /\ ~exited /\ dataQ' = Tail(dataQ)
      /\ UNCHANGED <<sent, sending>> /\ Head(dataQ).dest \in Dests /\ trgActive
      /\ Offer(event, Head(dataQ), latency, remaining, {})
  BY DEF AddFrame, Accept
<1>2. event \in Event /\ event # NoEvent
  BY <1>1 DEF IInv, ActiveMatchesEvent, TypeOK
<1>3. Counted(event) /\ \A d \in event.ctbs : latency[d].nodes = << >>
  BY <1>2 DEF IInv, CountsAgree, PendingDrained, Counted
<1>4. Streams(Append(Posted, event), event.ctbs, latency, dataQ, held \ {}, sent, FALSE)
  <2>1. AllEvents = Append(Posted, event) /\ Waiting = event.ctbs /\ held \ {} = held
    BY <1>2, EventsNow DEF Waiting, IInv
  <2>2. exited = FALSE
    BY <1>1 DEF IInv, TypeOK
  <2>3. Streams(AllEvents, Waiting, latency, dataQ, held, sent, exited)
    BY StreamsInv
  <2>. QED  BY <2>1, <2>2, <2>3
<1>5. Lists(latency, remaining) /\ \A g \in {} : g.dest \in Dests
  BY ListsInv
<1>6. ASSUME NEW gone, gone = {} PROVE StreamInv'
  <2>1. /\ Offer(event, Head(dataQ), latency, remaining, gone)
        /\ Streams(Append(Posted, event), event.ctbs, latency, dataQ, held \ gone, sent, FALSE)
        /\ \A g \in gone : g.dest \in Dests
    BY <1>1, <1>4, <1>6
  <2>. QED  BY <1>1, <1>2, <1>3, <1>5, <2>1, StreamsStep
<1>. QED  BY <1>6

(* A trigger starts an event.                                              *)
LEMMA StreamTriggers ==
  ASSUME IInv, StreamInv, NEW post \in Posts, TakeTriggerWith(post)
  PROVE  StreamInv'
<1>. DEFINE e0 == NewEvent(Head(timingQ).stamp, config.pre, post)
            s  == Seed(e0)
<1>1. /\ pc = "timing" /\ ~exited /\ ~trgActive
      /\ UNCHANGED <<sent, sending, dataQ>>
  BY DEF TakeTriggerWith
<1>2. event = NoEvent
  BY <1>1 DEF IInv, ActiveMatchesEvent
<1>3. e0 \in Event
  <2>1. timingQ # << >> /\ timingQ \in Seq([stamp : Nat, trigger : BOOLEAN])
    BY <1>1 DEF IInv, Reading, TypeOK
  <2>a. Head(timingQ) \in [stamp : Nat, trigger : BOOLEAN]
    BY <2>1, HeadTailProperties
  <2>2. Head(timingQ).stamp \in Int
    BY <2>a
  <2>3. config.pre \in Nat /\ post \in Nat
    BY ReadType DEF IInv, TypeOK, Config
  <2>. QED  BY <2>2, <2>3, NewEventType
<1>4. QueueInOrder(dataQ') /\ ToSet(dataQ') \subseteq ToSet(dataQ)
  BY <1>1 DEF StreamInv
<1>5. CASE NoDescriptor
  <2>1. /\ UNCHANGED <<event, latency, txReqQueue, held>> /\ exited' = TRUE
    BY <1>5 DEF NoDescriptor
  <2>2. AllEvents' = AllEvents /\ Waiting' = Waiting
    BY <1>1, <2>1, EventsUnchanged
  <2>3. Streams(AllEvents, Waiting, latency, dataQ, held, sent, TRUE)
    BY StreamsInv, StreamsStop
  <2>4. Streams(AllEvents', Waiting', latency', dataQ', held', sent', exited')
    BY <1>1, <2>1, <2>2, <2>3
  <2>. QED  BY <1>1, <1>4, <2>1, <2>4, StreamInvStep
<1>6. CASE ~NoDescriptor
  <2>1. /\ latency' = s.latency /\ held' = held \ s.free
        /\ Settle(s.event, fds \ {"timing"})
    BY <1>6 DEF TakeTriggerWith
  <2>2. s.event \in Event /\ Counted(s.event)
    BY <1>3, SeedFacts DEF IInv
  <2>3. /\ Streams(Append(Posted, s.event), s.event.ctbs, s.latency, dataQ,
                   held \ s.free, sent, FALSE)
        /\ \A g \in s.free : g.dest \in Dests
    BY <1>1, <1>2, <1>3, StreamsSeed
  <2>. HIDE DEF s
  <2>4. fds \ {"timing"} \subseteq {"timing", "data"}
    BY DEF IInv, TypeOK
  <2>5. Streams(AllEvents', Waiting', s.latency, dataQ, held \ s.free, sent, exited')
    BY <1>1, <2>1, <2>2, <2>3, <2>4, StreamsSettle
  <2>6. Streams(AllEvents', Waiting', latency', dataQ', held', sent', exited')
    BY <1>1, <2>1, <2>5
  <2>7. /\ held' \subseteq held
        /\ \A g \in held : g.dest \notin Dests => g \in held'
    BY <2>1, <2>3
  <2>. QED  BY <1>1, <1>4, <2>6, <2>7, StreamInvStep
<1>. QED  BY <1>5, <1>6

(* The event that a software trigger starts, and its window.               *)
LEMMA SoftEvent ==
  ASSUME IInv, NEW f \in Frame, SoftTriggers(f, config.period),
         NEW pre \in Pres, NEW post \in Posts
  PROVE  LET e == NewEvent(SoftTime(f, config.period), pre, post)
         IN  e \in Event /\ Beg(f) < e.end
<1>1. config.period \in Nat \ {0} /\ pre \in Nat /\ post \in Nat
  BY ReadType DEF IInv, TypeOK, Config
<1>2. SoftTime(f, config.period) \in Int /\ Beg(f) < SoftTime(f, config.period)
  BY <1>1, SoftTimeAfter
<1>3. NewEvent(SoftTime(f, config.period), pre, post).end = SoftTime(f, config.period) + post
  BY DEF NewEvent
<1>4. Beg(f) \in Nat
  BY FrameTimes
<1>. QED  BY <1>1, <1>2, <1>3, <1>4, NewEventType

(* The latency lists do not complete it for the frame that fired it.       *)
LEMMA FiringFrame ==
  ASSUME IInv, StreamInv, pc = "data", ~exited, Head(dataQ).dest \in Dests,
         StartsEvent(Head(dataQ)), NEW pre \in Pres, NEW post \in Posts
  PROVE  Head(dataQ).dest
           \in Seed(NewEvent(SoftTime(Head(dataQ), config.period), pre, post)).event.ctbs
<1>. DEFINE f == Head(dataQ)
            e == NewEvent(SoftTime(f, config.period), pre, post)
<1>1. f \in Frame /\ f \in ToSet(dataQ) /\ f.dest \in Dests
  BY StreamReads DEF Of
<1>2. SoftTriggers(f, config.period) /\ event = NoEvent
  BY DEF StartsEvent, IInv, ActiveMatchesEvent
<1>3. e \in Event /\ Beg(f) < e.end
  BY <1>1, <1>2, SoftEvent
<1>. HIDE DEF f, e
<1>4. f.dest \in Seed(e).event.ctbs
  BY <1>1, <1>2, <1>3, StreamsSeed
<1>. QED  BY <1>4 DEF f, e

LEMMA StreamSoft ==
  ASSUME IInv, StreamInv, NEW pre \in Pres, NEW post \in Posts, SoftTriggerWith(pre, post)
  PROVE  StreamInv'
<1>. DEFINE f == Head(dataQ)
            e == NewEvent(SoftTime(f, config.period), pre, post)
            s == Seed(e)
            U == Of(ToSet(dataQ), f.dest)
<1>1. /\ pc = "data" /\ ~exited /\ dataQ' = Tail(dataQ)
      /\ UNCHANGED <<sent, sending>> /\ f.dest \in Dests /\ StartsEvent(f)
  BY DEF SoftTriggerWith, Accept
<1>2. SoftTriggers(f, config.period) /\ event = NoEvent
  BY <1>1 DEF StartsEvent, IInv, ActiveMatchesEvent
<1>3. /\ dataQ \in Seq(Frame) /\ QueueInOrder(dataQ')
      /\ ToSet(dataQ') \subseteq ToSet(dataQ)
      /\ f \in Frame /\ f \in U /\ Older({f}, U \ {f})
      /\ Of(ToSet(dataQ'), f.dest) = U \ {f}
      /\ \A d : d # f.dest => Of(ToSet(dataQ'), d) = Of(ToSet(dataQ), d)
  BY <1>1, StreamReads
<1>4. f.dest \in s.event.ctbs
  BY <1>1, FiringFrame
<1>5. e \in Event
  BY <1>2, <1>3, SoftEvent
<1>6. CASE NoDescriptor
  <2>. HIDE DEF f, U
  <2>1. /\ UNCHANGED <<event, latency, txReqQueue, held>> /\ exited' = TRUE
    BY <1>6 DEF NoDescriptor
  <2>2. AllEvents' = AllEvents /\ Waiting' = Waiting
    BY <1>1, <2>1, EventsUnchanged
  <2>3. latency \in [Dests -> Node] /\ AllEvents \in Seq(Event)
    BY EventsNow DEF IInv, TypeOK, Node
  <2>4. ASSUME NEW d \in Dests
        PROVE  Stream(d, AllEvents, Waiting, latency[d].nodes, Of(ToSet(dataQ'), d),
                      Of(held, d), sent[d], TRUE)
    <3>1. Stream(d, AllEvents, Waiting, latency[d].nodes, Of(ToSet(dataQ), d),
                 Of(held, d), sent[d], exited)
      BY DEF StreamInv
    <3>2. CASE d = f.dest
      <4>1. Of(ToSet(dataQ), d) = U /\ Of(ToSet(dataQ'), d) = U \ {f}
        BY <1>3, <3>2 DEF U
      <4>2. latency[d].nodes \in Seq(Frame)
        BY <2>3 DEF Node
      <4>3. Stream(d, AllEvents, Waiting, latency[d].nodes, U, Of(held, d), sent[d], exited)
        BY <3>1, <4>1
      <4>4. Stream(d, AllEvents, Waiting, latency[d].nodes, U \ {f}, Of(held, d), sent[d], TRUE)
        BY <1>3, <2>3, <4>2, <4>3, StreamExit
      <4>. QED  BY <4>1, <4>4
    <3>3. CASE d # f.dest
      <4>1. Of(ToSet(dataQ'), d) = Of(ToSet(dataQ), d)
        BY <1>3, <3>3
      <4>. QED  BY <3>1, <4>1 DEF Stream
    <3>. QED  BY <3>2, <3>3
  <2>5. Streams(AllEvents', Waiting', latency', dataQ', held', sent', exited')
    BY <1>1, <2>1, <2>2, <2>4 DEF Streams
  <2>. QED  BY <1>1, <1>3, <2>1, <2>5, StreamInvStep
<1>7. CASE ~NoDescriptor
  <2>1. Offer(s.event, f, s.latency, s.remaining, s.free)
    BY <1>4, <1>7 DEF SoftTriggerWith, Complete
  <2>2. /\ s.event \in Event /\ Counted(s.event)
        /\ Lists(s.latency, s.remaining)
        /\ \A d \in s.event.ctbs : s.latency[d].nodes = << >>
    BY <1>5, SeedFacts DEF IInv, Lists
  <2>. HIDE DEF s, e
  <2>3. /\ Streams(Append(Posted, s.event), s.event.ctbs, s.latency, dataQ,
                   held \ s.free, sent, FALSE)
        /\ \A g \in s.free : g.dest \in Dests
    BY <1>1, <1>2, <1>5, StreamsSeed DEF s
  <2>. QED  BY <1>1, <2>1, <2>2, <2>3, StreamsStep
<1>. QED  BY <1>6, <1>7

(* Every step keeps the streams in order.                                  *)
LEMMA StreamStep ==
  ASSUME IInv, StreamInv, [Next]_vars
  PROVE  StreamInv'
<1>1. CASE Environment
  <2>1. CASE \/ \E trigger \in BOOLEAN : TimingArrives(trigger)
             \/ \E c \in Configs : SetConfig(c)
             \/ \E mode \in Modes : SetRunMode(mode)
             \/ WriteField
    <3>1. UNCHANGED <<dataQ, held, sent, latency, exited, event, txReqQueue, sending>>
      BY <2>1 DEF TimingArrives, SetConfig, SetRunMode, WriteField, envVars, rxVars, txVars
    <3>. QED  BY <3>1, EventsUnchanged, StreamSame
  <2>. QED  BY <1>1, <2>1, StreamArrives, StreamLoses DEF Environment
<1>2. CASE Receiver
  <2>1. CASE Select \/ DropTiming
    <3>1. UNCHANGED <<dataQ, held, sent, latency, exited, event, txReqQueue, sending>>
      BY <2>1 DEF Select, DropTiming, envVars, txVars
    <3>. QED  BY <3>1, EventsUnchanged, StreamSame
  <2>2. CASE TakeTrigger
    BY <2>2, StreamTriggers DEF TakeTrigger
  <2>3. CASE SoftTrigger
    BY <2>3, StreamSoft DEF SoftTrigger
  <2>. QED  BY <1>2, <2>1, <2>2, <2>3, StreamReturns, StreamKeeps, StreamAdds DEF Receiver
<1>3. CASE Transmitter
  BY <1>3, StreamTakes, StreamReleases DEF Transmitter
<1>4. CASE UNCHANGED vars
  <2>1. UNCHANGED <<dataQ, held, sent, latency, exited, event, txReqQueue, sending>>
    BY <1>4 DEF vars, envVars, rxVars, txVars
  <2>. QED  BY <2>1, EventsUnchanged, StreamSame
<1>. QED  BY <1>1, <1>2, <1>3, <1>4 DEF Next

LEMMA StreamInvariant == Spec => [](IInv /\ StreamInv)
<1>1. Init => StreamInv
  BY StreamInit
<1>2. IInv /\ StreamInv /\ [Next]_vars => StreamInv'
  BY StreamStep
<1>3. Spec => []IInv
  BY Invariant
<1>. QED  BY <1>1, <1>2, <1>3, PTL DEF Spec

-----------------------------------------------------------------------------
(* What the streams say of a state                                         *)

(* The lists of a destination, one by one.                                 *)
LEMMA StreamLists ==
  ASSUME StreamInv, NEW d \in Dests
  PROVE  LET lat == latency[d].nodes
         IN  /\ Increasing(lat)
             /\ \A f \in ToSet(lat) : f \in held /\ f.dest = d
             /\ Older(ToSet(lat), Of(ToSet(dataQ), d))
             /\ \A i \in DOMAIN AllEvents :
                  LET l == AllEvents[i].list[d]
                  IN  /\ Increasing(l) /\ Whole(l, Of(held, d))
                      /\ \A f \in ToSet(l) : f \in held /\ f.dest = d
                      /\ Older(ToSet(l), Of(ToSet(dataQ), d) \union ToSet(lat))
             /\ \A i, j \in DOMAIN AllEvents :
                  i < j => Older(ToSet(AllEvents[i].list[d]), ToSet(AllEvents[j].list[d]))
<1>. DEFINE A   == AllEvents
            lat == latency[d].nodes
            U   == Of(ToSet(dataQ), d)
            H   == Of(held, d)
            L   == {A[i].list[d] : i \in DOMAIN A}
<1>1. Stream(d, A, Waiting, lat, U, H, sent[d], exited)
  BY DEF StreamInv
<1>2. \A f \in H : f \in held /\ f.dest = d
  BY DEF Of
<1>. HIDE DEF A, lat, U, H
<1>3. /\ Listed(L, lat, U, H)
      /\ \A i, j \in DOMAIN A :
           i < j => Older(ToSet(A[i].list[d]), ToSet(A[j].list[d]))
  BY <1>1 DEF Stream
<1>4. \A i \in DOMAIN A : A[i].list[d] \in L
  OBVIOUS
<1>. HIDE DEF L
<1>5. Increasing(lat) /\ ToSet(lat) \subseteq H /\ Older(ToSet(lat), U)
  BY <1>3 DEF Listed
<1>6. \A l \in L : /\ Increasing(l) /\ Whole(l, H) /\ ToSet(l) \subseteq H
                   /\ Older(ToSet(l), U \union ToSet(lat))
  BY <1>3 DEF Listed
<1>7. \A i \in DOMAIN A :
        /\ Increasing(A[i].list[d]) /\ Whole(A[i].list[d], H)
        /\ ToSet(A[i].list[d]) \subseteq H
        /\ Older(ToSet(A[i].list[d]), U \union ToSet(lat))
  BY <1>4, <1>6
<1>. QED  BY <1>2, <1>3, <1>5, <1>7 DEF A, lat, U, H

LEMMA InOrderNow ==
  ASSUME StreamInv
  PROVE  LatencyInOrder
BY StreamLists DEF LatencyInOrder

LEMMA NoneLeftNow ==
  ASSUME IInv, StreamInv
  PROVE  NoneLeftBehind
<1>. SUFFICES ASSUME NEW i \in DOMAIN AllEvents, NEW d \in Dests,
                     Closes(AllEvents[i], d),
                     NEW f \in ToSet(latency[d].nodes) \union ToSet(dataQ), f.dest = d
              PROVE  ~(Beg(f) < AllEvents[i].end)
  BY DEF NoneLeftBehind
<1>1. AllEvents \in Seq(Event) /\ Posted \in Seq(Event) /\ dataQ \in Seq(Frame)
      /\ latency[d].nodes \in Seq(Frame)
  BY EventsNow DEF IInv, TypeOK
<1>2. AllEvents[i].end \in Int /\ i \in 1 .. Len(AllEvents)
  BY <1>1, EventEnds
<1>3. f \in Frame /\ Beg(f) \in Nat
  BY <1>1, ToSetSeq, FrameTimes
<1>4. i < Len(AllEvents) \/ d \notin Waiting
  <2>1. CASE event = NoEvent
    BY <2>1 DEF Waiting
  <2>2. CASE event # NoEvent
    <3>1. AllEvents = Append(Posted, event) /\ Waiting = event.ctbs
      BY <2>2, EventsNow DEF IInv, Waiting
    <3>2. i < Len(AllEvents) \/ AllEvents[i] = event
      BY <1>1, <1>2, <3>1
    <3>. QED  BY <3>1, <3>2 DEF Closes
  <2>. QED  BY <2>1, <2>2
<1>5. Stream(d, AllEvents, Waiting, latency[d].nodes, Of(ToSet(dataQ), d), Of(held, d),
             sent[d], exited)
  BY DEF StreamInv
<1>6. Beyond(AllEvents[i], latency[d].nodes, Of(ToSet(dataQ), d), sent[d])
  BY <1>4, <1>5 DEF Stream
<1>7. f \in Of(ToSet(dataQ), d) \union ToSet(latency[d].nodes)
  BY DEF Of
<1>8. AllEvents[i].end <= Beg(f)
  BY <1>6, <1>7 DEF Beyond
<1>. QED  BY <1>2, <1>3, <1>8

LEMMA NoHolesNow ==
  ASSUME IInv, StreamInv
  PROVE  NoHoles
<1>. SUFFICES ASSUME NEW i \in DOMAIN AllEvents, NEW d \in Dests
              PROVE  LET l == AllEvents[i].list[d]
                     IN  /\ Increasing(l)
                         /\ \A f \in held :
                              /\ f.dest = d /\ f.good
                              /\ l # << >> /\ l[1].seq < f.seq /\ f.seq < l[Len(l)].seq
                              => f \in ToSet(l)
  BY DEF NoHoles
<1>. DEFINE l == AllEvents[i].list[d]
<1>1. Increasing(l) /\ Whole(l, Of(held, d))
  BY StreamLists
<1>2. l \in Seq(Frame)
  <2>1. AllEvents[i] \in Event
    BY EventsNow, EventEnds DEF IInv
  <2>. QED  BY <2>1 DEF Event
<1>. HIDE DEF l
<1>3. l # << >> => l[1] \in ToSet(l) /\ l[Len(l)] \in ToSet(l)
  BY <1>2 DEF ToSet
<1>4. ASSUME NEW f \in held, f.dest = d, f.good, l # << >>,
             l[1].seq < f.seq, f.seq < l[Len(l)].seq
      PROVE  f \in ToSet(l)
  <2>1. f \in Of(held, d)
    BY <1>4 DEF Of
  <2>. QED  BY <1>1, <1>3, <1>4, <2>1 DEF Whole
<1>. QED  BY <1>1, <1>4 DEF l

(* A list in order has a frame at one place at most.                       *)
LEMMA OneIn ==
  ASSUME NEW s \in Seq(Frame), Increasing(s), NEW f \in Frame,
         NEW i \in In(s, f), NEW j \in In(s, f)
  PROVE  i = j
<1>1. i \in DOMAIN s /\ j \in DOMAIN s /\ s[i] = f /\ s[j] = f /\ f.seq \in Nat
  BY DEF In, Frame
<1>2. i \in Nat /\ j \in Nat
  BY <1>1
<1>. QED  BY <1>1, <1>2 DEF Increasing

(* The channel hands a frame over once.                                    *)
LEMMA OneQueued ==
  ASSUME NEW q \in Seq(Frame), QueueInOrder(q), NEW f \in Frame,
         NEW i \in In(q, f), NEW j \in In(q, f)
  PROVE  i = j
<1>1. i \in DOMAIN q /\ j \in DOMAIN q /\ q[i] = f /\ q[j] = f /\ f.seq \in Nat
  BY DEF In, Frame
<1>2. i \in Nat /\ j \in Nat
  BY <1>1
<1>. QED  BY <1>1, <1>2 DEF QueueInOrder

(* A frame is not older than itself.                                       *)
LEMMA NotBoth ==
  ASSUME NEW f \in Frame, NEW F, NEW G, Older(F, G)
  PROVE  ~(f \in F /\ f \in G)
<1>1. f.seq \in Nat
  BY DEF Frame
<1>. QED  BY <1>1 DEF Older

(* What is on hand is on a list.                                           *)
LEMMA HandIsOn ==
  ASSUME NEW f \in OnHand
  PROVE  \/ f \in ToSet(dataQ)
         \/ \E c \in Dests : f \in ToSet(latency[c].nodes)
         \/ \E i \in DOMAIN AllEvents, c \in Dests : f \in ToSet(AllEvents[i].list[c])
<1>1. CASE f \in UNION {ToSet(latency[c].nodes) : c \in Dests}
  BY <1>1
<1>2. CASE f \in UNION {EventFrames(AllEvents[i]) : i \in DOMAIN AllEvents}
  <2>1. PICK i \in DOMAIN AllEvents : f \in EventFrames(AllEvents[i])
    BY <1>2
  <2>2. PICK c \in Dests : f \in ToSet(AllEvents[i].list[c])
    BY <2>1 DEF EventFrames
  <2>. QED  BY <2>2
<1>. QED  BY <1>1, <1>2 DEF OnHand

(* The places of a frame, told apart by the list they are on, are one: it  *)
(* is at one place of the channel q, of the latency list l or of one list  *)
(* of E, and at two of these it would be older than itself.                *)
LEMMA OnePlace ==
  ASSUME NEW d \in Dests, NEW f \in Frame, f.dest = d, IInv, StreamInv, f \in OnHand
  PROVE  Cardinality(Places(f)) = 1
<1>. DEFINE A    == AllEvents
            Q    == In(dataQ, f)
            L(c) == In(latency[c].nodes, f)
            E(i, c) == In(A[i].list[c], f)
<1>1. /\ dataQ \in Seq(Frame) /\ A \in Seq(Event)
      /\ \A c \in Dests : latency[c].nodes \in Seq(Frame)
      /\ \A i \in DOMAIN A, c \in Dests : A[i].list[c] \in Seq(Frame)
  <2>1. dataQ \in Seq(Frame) /\ \A c \in Dests : latency[c].nodes \in Seq(Frame)
    BY DEF IInv, TypeOK
  <2>2. A \in Seq(Event)
    BY EventsNow DEF IInv
  <2>3. \A i \in DOMAIN A : A[i] \in Event
    BY <2>2, EventEnds
  <2>. QED  BY <2>1, <2>2, <2>3 DEF Event
<1>2. /\ Q # {} => f \in Of(ToSet(dataQ), d)
      /\ \A c \in Dests : L(c) # {} => f \in ToSet(latency[c].nodes)
      /\ \A i \in DOMAIN A, c \in Dests : E(i, c) # {} => f \in ToSet(A[i].list[c])
  BY DEF In, ToSet, Of
<1>3. /\ \A c \in Dests : L(c) # {} => c = d
      /\ \A i \in DOMAIN A, c \in Dests : E(i, c) # {} => c = d
  <2>1. ASSUME NEW c \in Dests, L(c) # {} PROVE c = d
    <3>1. f \in ToSet(latency[c].nodes)  BY <1>2, <2>1
    <3>. QED  BY <3>1, StreamLists
  <2>2. ASSUME NEW i \in DOMAIN A, NEW c \in Dests, E(i, c) # {} PROVE c = d
    <3>1. f \in ToSet(A[i].list[c])  BY <1>2, <2>2
    <3>. QED  BY <3>1, StreamLists
  <2>. QED  BY <2>1, <2>2
<1>4. /\ \A k, m \in Q : k = m
      /\ \A k, m \in L(d) : k = m
      /\ \A i \in DOMAIN A : \A k, m \in E(i, d) : k = m
  <2>1. QueueInOrder(dataQ)
    BY DEF StreamInv
  <2>2. Increasing(latency[d].nodes) /\ \A i \in DOMAIN A : Increasing(A[i].list[d])
    BY StreamLists
  <2>. QED  BY <1>1, <2>1, <2>2, OneQueued, OneIn
<1>5. /\ Q = {} \/ L(d) = {}
      /\ \A i \in DOMAIN A : E(i, d) = {} \/ (Q = {} /\ L(d) = {})
      /\ \A i, j \in DOMAIN A : i < j => E(i, d) = {} \/ E(j, d) = {}
  <2>. DEFINE lat == latency[d].nodes
              U   == Of(ToSet(dataQ), d)
  <2>1. /\ Older(ToSet(lat), U)
        /\ \A i \in DOMAIN A : Older(ToSet(A[i].list[d]), U \union ToSet(lat))
        /\ \A i, j \in DOMAIN A : i < j => Older(ToSet(A[i].list[d]), ToSet(A[j].list[d]))
    BY StreamLists
  <2>2. /\ ~(f \in ToSet(lat) /\ f \in U)
        /\ \A i \in DOMAIN A : ~(f \in ToSet(A[i].list[d]) /\ f \in U \union ToSet(lat))
        /\ \A i, j \in DOMAIN A :
             i < j => ~(f \in ToSet(A[i].list[d]) /\ f \in ToSet(A[j].list[d]))
    BY <2>1, NotBoth
  <2>. QED  BY <1>2, <2>2
<1>6. Places(f) = {<<k>> : k \in Q} \union {<<d, k>> : k \in L(d)}
                    \union (UNION {{<<i, d, k>> : k \in E(i, d)} : i \in DOMAIN A})
  <2>1. UNION {{<<c, k>> : k \in L(c)} : c \in Dests} = {<<d, k>> : k \in L(d)}
    BY <1>3
  <2>. DEFINE X == UNION {{<<i, c, k>> : k \in E(i, c)} : i \in DOMAIN A, c \in Dests}
              Y == UNION {{<<i, d, k>> : k \in E(i, d)} : i \in DOMAIN A}
  <2>2. X = Y
    <3>1. ASSUME NEW p \in X PROVE p \in Y
      <4>1. PICK i \in DOMAIN A, c \in Dests : \E k \in E(i, c) : p = <<i, c, k>>
        BY <3>1
      <4>2. c = d
        BY <1>3, <4>1
      <4>. QED  BY <4>1, <4>2
    <3>2. ASSUME NEW p \in Y PROVE p \in X
      <4>1. PICK i \in DOMAIN A : \E k \in E(i, d) : p = <<i, d, k>>
        BY <3>2
      <4>2. {<<i, d, k>> : k \in E(i, d)}
              \in {{<<j, c, k>> : k \in E(j, c)} : j \in DOMAIN A, c \in Dests}
        OBVIOUS
      <4>3. p \in {<<i, d, k>> : k \in E(i, d)}
        BY <4>1
      <4>. DEFINE P == {<<i, d, k>> : k \in E(i, d)}
                  Z == {{<<j, c, k>> : k \in E(j, c)} : j \in DOMAIN A, c \in Dests}
      <4>4. P \in Z /\ p \in P
        BY <4>2, <4>3
      <4>. HIDE DEF P, Z
      <4>5. p \in UNION Z
        BY <4>4
      <4>. QED  BY <4>5 DEF Z
    <3>. QED  BY <3>1, <3>2
  <2>3. Places(f) = {<<k>> : k \in Q} \union (UNION {{<<c, k>> : k \in L(c)} : c \in Dests})
                      \union X
    BY DEF Places
  <2>. QED  BY <2>1, <2>2, <2>3
<1>7. \/ Q # {}
      \/ L(d) # {}
      \/ \E i \in DOMAIN A : E(i, d) # {}
  <2>1. \A s \in Seq(Frame) : f \in ToSet(s) => In(s, f) # {}
    BY DEF ToSet, In
  <2>2. \/ f \in ToSet(dataQ)
        \/ \E c \in Dests : f \in ToSet(latency[c].nodes)
        \/ \E i \in DOMAIN A, c \in Dests : f \in ToSet(A[i].list[c])
    BY HandIsOn
  <2>. QED  BY <1>1, <1>3, <2>1, <2>2
<1>8. DOMAIN A \subseteq Nat
  BY <1>1
<1>. HIDE DEF A, Q, L, E
<1>9. \E p : Places(f) = {p}
  <2>1. CASE Q # {}
    <3>1. PICK k \in Q : Q = {k}
      BY <1>4, <2>1
    <3>2. L(d) = {} /\ \A i \in DOMAIN A : E(i, d) = {}
      BY <1>5, <2>1
    <3>3. Places(f) = {<<k>>}
      BY <1>6, <3>1, <3>2
    <3>. QED  BY <3>3
  <2>2. CASE L(d) # {}
    <3>1. PICK k \in L(d) : L(d) = {k}
      BY <1>4, <2>2
    <3>2. Q = {} /\ \A i \in DOMAIN A : E(i, d) = {}
      BY <1>5, <2>2
    <3>3. Places(f) = {<<d, k>>}
      BY <1>6, <3>1, <3>2
    <3>. QED  BY <3>3
  <2>3. ASSUME NEW i \in DOMAIN A, E(i, d) # {} PROVE \E p : Places(f) = {p}
    <3>1. PICK k \in E(i, d) : E(i, d) = {k}
      BY <1>4, <2>3
    <3>2. Q = {} /\ L(d) = {} /\ \A j \in DOMAIN A : j # i => E(j, d) = {}
      BY <1>5, <1>8, <2>3
    <3>3. Places(f) = {<<i, d, k>>}
      BY <1>6, <3>1, <3>2
    <3>. QED  BY <3>3
  <2>. QED  BY <1>7, <2>1, <2>2, <2>3
<1>. QED  BY <1>9, FS_Singleton

(* A frame of a source that rxRun does not know is nowhere but in the      *)
(* channel.                                                                *)
LEMMA OnePlaceUnknown ==
  ASSUME NEW f \in Frame, f.dest \notin Dests, IInv, StreamInv, f \in OnHand
  PROVE  Cardinality(Places(f)) = 1
<1>1. dataQ \in Seq(Frame) /\ QueueInOrder(dataQ)
  BY DEF IInv, TypeOK, StreamInv
<1>2. \A c \in Dests : f \notin ToSet(latency[c].nodes)
  BY StreamLists
<1>3. \A i \in DOMAIN AllEvents, c \in Dests : f \notin ToSet(AllEvents[i].list[c])
  BY StreamLists
<1>4. f \in ToSet(dataQ)
  BY <1>2, <1>3, HandIsOn
<1>5. PICK k \in In(dataQ, f) : TRUE
  BY <1>1, <1>4 DEF ToSet, In
<1>6. In(dataQ, f) = {k}
  BY <1>1, <1>5, OneQueued
<1>7. /\ \A c \in Dests : In(latency[c].nodes, f) = {}
      /\ \A i \in DOMAIN AllEvents, c \in Dests : In(AllEvents[i].list[c], f) = {}
  BY <1>2, <1>3 DEF In, ToSet
<1>8. Places(f) = {<<k>>}
  BY <1>6, <1>7 DEF Places
<1>. QED  BY <1>8, FS_Singleton

LEMMA OwnedOnceNow ==
  ASSUME IInv, StreamInv
  PROVE  OwnedOnce
<1>1. held \subseteq Frame
  BY DEF IInv, TypeOK
<1>2. ASSUME NEW f \in OnHand PROVE f \in held
  <2>1. CASE f \in ToSet(dataQ)
    BY <2>1 DEF StreamInv
  <2>2. ASSUME NEW d \in Dests, f \in ToSet(latency[d].nodes) PROVE f \in held
    BY <2>2, StreamLists
  <2>3. ASSUME NEW i \in DOMAIN AllEvents, NEW d \in Dests, f \in ToSet(AllEvents[i].list[d])
        PROVE  f \in held
    BY <2>3, StreamLists
  <2>. QED  BY <1>2, <2>1, <2>2, <2>3, HandIsOn
<1>3. ASSUME NEW f \in OnHand PROVE Cardinality(Places(f)) = 1
  <2>1. f \in Frame
    BY <1>1, <1>2, <1>3
  <2>. QED  BY <1>3, <2>1, OnePlace, OnePlaceUnknown
<1>. QED  BY <1>2, <1>3 DEF OwnedOnce

-----------------------------------------------------------------------------
(* Theorems                                                                *)

(* The latency lists are in time order, so that seeding an event from one, *)
(* which stops at the first frame past the window, and evicting its oldest *)
(* frame (DaqBuffer.cpp, LatencyList and Event::seed) are right.           *)
THEOREM RxLatencyInOrder == Spec => []LatencyInOrder
BY StreamInvariant, InOrderNow, PTL

(* Once a destination is closed for an event, no frame that overlaps its   *)
(* window is on the latency list or still to be read, whatever was lost or *)
(* damaged: what evaluate takes for complete gets no more.                 *)
THEOREM RxNoneLeftBehind == Spec => []NoneLeftBehind
BY StreamInvariant, NoneLeftNow, PTL

(* Every good frame that was received and lies between two frames of an    *)
(* event is in the event, in its place, whether seeding or adding put it   *)
(* there.                                                                  *)
THEOREM RxNoHoles == Spec => []NoHoles
BY StreamInvariant, NoHolesNow, PTL

(* A frame is at one place, and its buffer is not with the DMA while it    *)
(* is: no path of rxRun or of the transmit thread returns it twice, or     *)
(* returns it while an event refers to it.                                 *)
THEOREM RxOwnedOnce == Spec => []OwnedOnce
BY StreamInvariant, OwnedOnceNow, PTL

(* When a frame is about to fire a software trigger, the event that it     *)
(* starts, seeded from the latency lists, waits for its destination.       *)
SoftTriggerWaits ==
  pc = "data" /\ ~exited /\ Head(dataQ).dest \in Dests /\ StartsEvent(Head(dataQ)) =>
    \A pre \in Pres, post \in Posts :
      Head(dataQ).dest
        \in Seed(NewEvent(SoftTime(Head(dataQ), config.period), pre, post)).event.ctbs

(* Seeding alone never completes the event of a software trigger for the   *)
(* destination of the frame that fired it, so the branch of rxRun that     *)
(* posts the event there and goes on without that frame (DaqBuffer.cpp,    *)
(* `if (post)' after seedAndDrain) is never taken and no frame is lost in  *)
(* it: the time found by SoftTrigger::check lies behind the beginning of   *)
(* the frame, the latency list ends before it.                             *)
THEOREM RxSoftTriggerWaits == Spec => []SoftTriggerWaits
<1>1. IInv /\ StreamInv => SoftTriggerWaits
  BY FiringFrame DEF SoftTriggerWaits
<1>. QED  BY <1>1, StreamInvariant, PTL

-----------------------------------------------------------------------------
(* The order of the events                                                 *)

Spaced(A) == \A i, j \in DOMAIN A : i < j => A[i].trg < A[j].trg

Opens(A) == \A i \in DOMAIN A : A[i].trg <= A[i].end

Times(A) == {A[i].trg : i \in DOMAIN A}

Message == [stamp : Nat, trigger : BOOLEAN]

(* Timing messages come in the order of their stamps, the last one at s.   *)
Rising(q, s) ==
  \A i, j \in DOMAIN q : q[i].stamp <= s /\ (i < j => q[i].stamp < q[j].stamp)

(* The times T are before all messages that are not read and those to come.*)
Ahead(T, q, s) == \A t \in T : t <= s /\ \A i \in DOMAIN q : t < q[i].stamp

(* The events are in order, and those of external triggers come before the *)
(* messages that are not read.                                             *)
TimesInv ==
  /\ runMode = config.runMode
  /\ Spaced(AllEvents) /\ Opens(AllEvents)
  /\ Rising(timingQ, lastStamp)
  /\ runMode = "EXTERNAL" => Ahead(Times(AllEvents), timingQ, lastStamp)

(* A message is read, ...                                                  *)
LEMMA MessageRead ==
  ASSUME NEW q \in Seq(Message), q # << >>, NEW s \in Nat, Rising(q, s)
  PROVE  /\ Head(q) \in Message /\ Rising(Tail(q), s)
         /\ Ahead({Head(q).stamp}, Tail(q), s)
         /\ \A T : Ahead(T, q, s) => /\ Ahead(T, Tail(q), s)
                                    /\ \A t \in T : t < Head(q).stamp
<1>. DEFINE n == Len(q)  p == Tail(q)
<1>1. /\ n \in Nat \ {0} /\ DOMAIN q = 1 .. n /\ DOMAIN p = 1 .. n - 1
      /\ Head(q) = q[1] /\ \A i \in 1 .. n - 1 : p[i] = q[i + 1]
      /\ \A i \in 1 .. n : q[i] \in Message
  OBVIOUS
<1>. HIDE DEF n, p
<1>2. /\ 1 \in 1 .. n
      /\ \A i \in 1 .. n - 1 : i + 1 \in 1 .. n /\ 1 < i + 1
      /\ \A i, j \in 1 .. n - 1 : i < j => i + 1 < j + 1
  BY <1>1
<1>3. Head(q) \in Message
  BY <1>1, <1>2
<1>4. Rising(p, s)
  BY <1>1, <1>2 DEF Rising
<1>5. Ahead({Head(q).stamp}, p, s)
  <2>1. q[1].stamp <= s /\ \A i \in 1 .. n - 1 : q[1].stamp < q[i + 1].stamp
    BY <1>1, <1>2 DEF Rising
  <2>. QED  BY <1>1, <2>1 DEF Ahead
<1>6. ASSUME NEW T, Ahead(T, q, s)
      PROVE  Ahead(T, p, s) /\ \A t \in T : t < Head(q).stamp
  BY <1>1, <1>2, <1>6 DEF Ahead
<1>. QED  BY <1>3, <1>4, <1>5, <1>6 DEF p

(* ... and one comes.                                                      *)
LEMMA MessageComes ==
  ASSUME NEW q \in Seq(Message), NEW s \in Nat, Rising(q, s),
         NEW m \in Message, s < m.stamp
  PROVE  /\ Rising(Append(q, m), m.stamp)
         /\ \A T \in SUBSET Int : Ahead(T, q, s) => Ahead(T, Append(q, m), m.stamp)
<1>. DEFINE n == Len(q)  p == Append(q, m)
<1>1. /\ n \in Nat /\ DOMAIN q = 1 .. n /\ DOMAIN p = 1 .. n + 1
      /\ p[n + 1] = m /\ \A i \in 1 .. n : p[i] = q[i]
      /\ \A i \in 1 .. n : q[i] \in Message
  OBVIOUS
<1>. HIDE DEF n, p
<1>2. \A i \in 1 .. n + 1 : i \in 1 .. n \/ i = n + 1
  BY <1>1
<1>3. m.stamp \in Nat /\ \A i \in 1 .. n : q[i].stamp \in Nat
  BY <1>1 DEF Message
<1>4. \A i \in 1 .. n : q[i].stamp <= s
  BY <1>1 DEF Rising
<1>5. \A i \in 1 .. n + 1 : p[i].stamp <= m.stamp
  BY <1>1, <1>2, <1>3, <1>4
<1>6. ASSUME NEW i \in 1 .. n + 1, NEW j \in 1 .. n + 1, i < j
      PROVE  p[i].stamp < p[j].stamp
  <2>1. i \in 1 .. n /\ p[i] = q[i]
    BY <1>1, <1>6
  <2>2. CASE j \in 1 .. n
    BY <1>1, <1>6, <2>1, <2>2 DEF Rising
  <2>3. CASE j = n + 1
    BY <1>1, <1>3, <1>4, <2>1, <2>3
  <2>. QED  BY <1>2, <2>2, <2>3
<1>7. Rising(p, m.stamp)
  BY <1>1, <1>5, <1>6 DEF Rising
<1>8. ASSUME NEW T \in SUBSET Int, Ahead(T, q, s) PROVE Ahead(T, p, m.stamp)
  <2>1. ASSUME NEW t \in T PROVE t <= m.stamp /\ \A i \in 1 .. n + 1 : t < p[i].stamp
    <3>1. t \in Int /\ t <= s /\ \A i \in 1 .. n : t < q[i].stamp
      BY <1>1, <1>8 DEF Ahead
    <3>2. t < m.stamp
      BY <1>3, <3>1
    <3>. QED  BY <1>1, <1>2, <1>3, <3>1, <3>2
  <2>. QED  BY <1>1, <2>1 DEF Ahead
<1>. QED  BY <1>7, <1>8 DEF p

LEMMA TrgType ==
  ASSUME NEW A \in Seq(Event), NEW i \in DOMAIN A
  PROVE  A[i] \in Event /\ A[i].trg \in Int /\ A[i].end \in Int
<1>1. A[i] \in Event
  OBVIOUS
<1>. QED  BY <1>1 DEF Event

(* An event after all others, ...                                          *)
LEMMA SpacedAppend ==
  ASSUME NEW P \in Seq(Event), NEW e \in Event
  PROVE  Spaced(Append(P, e)) /\ Opens(Append(P, e))
           <=> /\ Spaced(P) /\ Opens(P) /\ e.trg <= e.end
               /\ \A i \in DOMAIN P : P[i].trg < e.trg
<1>. DEFINE n == Len(P)  B == Append(P, e)
<1>1. /\ n \in Nat /\ DOMAIN P = 1 .. n /\ DOMAIN B = 1 .. n + 1
      /\ B[n + 1] = e /\ \A i \in 1 .. n : B[i] = P[i]
  OBVIOUS
<1>2. /\ \A i \in 1 .. n + 1 : i \in 1 .. n \/ i = n + 1
      /\ \A i \in 1 .. n : i \in 1 .. n + 1 /\ i < n + 1 /\ ~(n + 1 < i)
      /\ n + 1 \in 1 .. n + 1 /\ ~(n + 1 < n + 1)
  BY <1>1
<1>. HIDE DEF n, B
<1>3. Spaced(B) <=> Spaced(P) /\ \A i \in DOMAIN P : P[i].trg < e.trg
  BY <1>1, <1>2 DEF Spaced
<1>4. Opens(B) <=> Opens(P) /\ e.trg <= e.end
  BY <1>1, <1>2 DEF Opens
<1>. QED  BY <1>3, <1>4 DEF B

(* ... and what becomes of the chain when the event has been looked at.    *)
LEMMA TimesSettle ==
  ASSUME IInv, NEW e \in Event, NEW enabled, Settle(e, enabled), UNCHANGED sending,
         Spaced(Posted), Opens(Posted), e.trg <= e.end,
         \A i \in DOMAIN Posted : Posted[i].trg < e.trg
  PROVE  /\ Spaced(AllEvents') /\ Opens(AllEvents')
         /\ Times(AllEvents') \subseteq Times(Posted) \union {e.trg}
<1>. DEFINE p == [e EXCEPT !.ctbs = Dests \ @]
<1>1. /\ sending \in Event \union {NoEvent} /\ txReqQueue \in Seq(Event)
      /\ Posted \in Seq(Event) /\ e # NoEvent
  BY EventsNow, NoEventAssumption DEF IInv, TypeOK
<1>2. p \in Event /\ p.trg = e.trg /\ p.end = e.end
  BY DEF Event
<1>. HIDE DEF p
<1>3. \/ AllEvents' = Append(Posted, e)
      \/ AllEvents' = Append(Posted, p)
      \/ AllEvents' = Posted
  <2>1. CASE ~Complete(e)
    <3>1. event' = e /\ txReqQueue' = txReqQueue
      BY <2>1 DEF Settle
    <3>2. AllEvents' = Posted \o Ev(e)
      BY <3>1 DEF AllEvents, Posted
    <3>. QED  BY <1>1, <3>2, ChainActive
  <2>2. CASE Complete(e)
    <3>1. /\ event' = NoEvent
          /\ txReqQueue' = Append(txReqQueue, p) \/ txReqQueue' = txReqQueue
      BY <2>2 DEF Settle, Post, p
    <3>2. txReqQueue' \in Seq(Event)
      BY <1>1, <1>2, <3>1
    <3>3. AllEvents' = (Ev(sending) \o txReqQueue') \o Ev(NoEvent)
      BY <3>1 DEF AllEvents, Posted
    <3>4. AllEvents' = Ev(sending) \o txReqQueue'
      BY <1>1, <3>2, <3>3, ChainIdle
    <3>5. Ev(sending) \o Append(txReqQueue, p) = Append(Posted, p)
      BY <1>1, <1>2, ChainPost DEF Posted
    <3>. QED  BY <3>1, <3>4, <3>5 DEF Posted
  <2>. QED  BY <2>1, <2>2
<1>4. ASSUME NEW x \in Event, x.trg = e.trg, x.end = e.end, AllEvents' = Append(Posted, x)
      PROVE  /\ Spaced(AllEvents') /\ Opens(AllEvents')
             /\ Times(AllEvents') \subseteq Times(Posted) \union {e.trg}
  <2>1. Spaced(AllEvents') /\ Opens(AllEvents')
    BY <1>1, <1>4, SpacedAppend
  <2>. DEFINE n == Len(Posted)  B == Append(Posted, x)
  <2>2. /\ DOMAIN Posted = 1 .. n /\ \A i \in DOMAIN B : i \in 1 .. n \/ i = n + 1
        /\ B[n + 1] = x /\ \A i \in 1 .. n : B[i] = Posted[i]
    BY <1>1
  <2>3. AllEvents' = B
    BY <1>4
  <2>. HIDE DEF n, B
  <2>4. Times(B) \subseteq Times(Posted) \union {e.trg}
    BY <1>4, <2>2 DEF Times
  <2>. QED  BY <2>1, <2>3, <2>4
<1>5. CASE AllEvents' = Append(Posted, e)
  BY <1>4, <1>5
<1>6. CASE AllEvents' = Append(Posted, p)
  BY <1>2, <1>4, <1>6
<1>7. CASE AllEvents' = Posted
  BY <1>7
<1>. QED  BY <1>3, <1>5, <1>6, <1>7

(* Neither evaluation nor seeding changes the times of an event.           *)
LEMMA EvaluatedTimes ==
  ASSUME NEW e \in Event, NEW f \in Frame, f.dest \in Dests
  PROVE  Evaluated(e, f).trg = e.trg /\ Evaluated(e, f).end = e.end
<1>. DEFINE g == IF Inside(e, f) THEN Added(e, f) ELSE e
<1>1. g \in Event /\ g.trg = e.trg /\ g.end = e.end
  BY AddedType DEF Added, Event
<1>. HIDE DEF g
<1>2. Closed(g, f.dest).trg = e.trg /\ Closed(g, f.dest).end = e.end
  BY <1>1 DEF Closed, Event
<1>3. Evaluated(e, f) \in {e, g, Closed(g, f.dest)}
  BY DEF Evaluated, g
<1>. QED  BY <1>1, <1>2, <1>3

LEMMA SeedTimes ==
  ASSUME NEW e \in Event
  PROVE  Seed(e).event.trg = e.trg /\ Seed(e).event.end = e.end
BY DEF Seed, Event
(* The steps.                                                              *)
LEMMA TimesInit == Init => TimesInv
<1>. SUFFICES ASSUME Init PROVE TimesInv
  OBVIOUS
<1>1. AllEvents = << >>
  BY ConcatEmptySeq DEF Init, AllEvents, Posted, Ev
<1>2. Spaced(AllEvents) /\ Opens(AllEvents) /\ Times(AllEvents) = {}
  BY <1>1 DEF Spaced, Opens, Times
<1>3. timingQ = << >> /\ runMode = config.runMode
  BY DEF Init
<1>. QED  BY <1>2, <1>3 DEF TimesInv, Rising, Ahead

(* No event is added.                                                      *)
LEMMA TimesSame ==
  ASSUME IInv, TimesInv, Spaced(AllEvents'), Opens(AllEvents'),
         Times(AllEvents') \subseteq Times(AllEvents),
         runMode' = runMode, config'.runMode = config.runMode, lastStamp' = lastStamp,
         timingQ' = timingQ \/ (timingQ # << >> /\ timingQ' = Tail(timingQ))
  PROVE  TimesInv'
<1>1. timingQ \in Seq(Message) /\ lastStamp \in Nat
  BY DEF IInv, TypeOK, Message
<1>2. Rising(timingQ, lastStamp)
  BY DEF TimesInv
<1>3. Rising(timingQ', lastStamp)
  BY <1>1, <1>2, MessageRead
<1>4. ASSUME runMode = "EXTERNAL" PROVE Ahead(Times(AllEvents'), timingQ', lastStamp)
  <2>1. Ahead(Times(AllEvents), timingQ, lastStamp)
    BY <1>4 DEF TimesInv
  <2>2. Ahead(Times(AllEvents), timingQ', lastStamp)
    BY <1>1, <1>2, <2>1, MessageRead
  <2>. QED  BY <2>2 DEF Ahead
<1>. QED  BY <1>3, <1>4 DEF TimesInv

LEMMA TimesComes ==
  ASSUME TriggerGap > 0, IInv, TimesInv, NEW trigger \in BOOLEAN, TimingArrives(trigger)
  PROVE  TimesInv'
<1>1. PICK ts \in lastStamp + TriggerGap .. Frames * FrameTicks :
        /\ timingQ' = Append(timingQ, [stamp |-> ts, trigger |-> trigger])
        /\ lastStamp' = ts
  BY DEF TimingArrives
<1>2. UNCHANGED <<event, txReqQueue, sending, runMode, config>>
  BY DEF TimingArrives, cfgVars, rxVars, txVars
<1>. DEFINE m == [stamp |-> ts, trigger |-> trigger]
<1>3. /\ timingQ \in Seq(Message) /\ lastStamp \in Nat /\ AllEvents \in Seq(Event)
      /\ Rising(timingQ, lastStamp) /\ AllEvents' = AllEvents
  BY <1>2, EventsNow, EventsUnchanged DEF IInv, TypeOK, Message, TimesInv
<1>4. m \in Message /\ lastStamp < m.stamp /\ m.stamp = ts
  <2>1. TriggerGap \in Nat
    BY RxAssumption
  <2>2. ts \in Nat /\ lastStamp < ts
    BY <1>3, <2>1
  <2>. QED  BY <2>2 DEF Message
<1>5. timingQ' = Append(timingQ, m) /\ lastStamp' = m.stamp
  BY <1>1
<1>. HIDE DEF m
<1>6. Times(AllEvents) \in SUBSET Int
  BY <1>3, TrgType DEF Times
<1>7. Rising(timingQ', lastStamp')
  BY <1>3, <1>4, <1>5, MessageComes
<1>8. Ahead(Times(AllEvents), timingQ, lastStamp) => Ahead(Times(AllEvents), timingQ', lastStamp')
  BY <1>3, <1>4, <1>5, <1>6, MessageComes
<1>. QED  BY <1>2, <1>3, <1>7, <1>8 DEF TimesInv

(* The events but the one in progress.                                     *)
LEMMA TimesPosted ==
  ASSUME IInv, TimesInv
  PROVE  /\ Posted \in Seq(Event) /\ Spaced(Posted) /\ Opens(Posted)
         /\ Times(Posted) \subseteq Times(AllEvents)
         /\ event # NoEvent => /\ event.trg <= event.end /\ event.trg \in Times(AllEvents)
                               /\ \A i \in DOMAIN Posted : Posted[i].trg < event.trg
<1>1. /\ Posted \in Seq(Event)
      /\ event = NoEvent => AllEvents = Posted
      /\ event # NoEvent => event \in Event /\ AllEvents = Append(Posted, event)
      /\ Spaced(AllEvents) /\ Opens(AllEvents)
  BY EventsNow DEF IInv, TimesInv
<1>2. CASE event = NoEvent
  BY <1>1, <1>2
<1>3. CASE event # NoEvent
  <2>1. /\ Spaced(Posted) /\ Opens(Posted) /\ event.trg <= event.end
        /\ \A i \in DOMAIN Posted : Posted[i].trg < event.trg
    BY <1>1, <1>3, SpacedAppend
  <2>2. /\ DOMAIN Posted \subseteq DOMAIN AllEvents
        /\ \A i \in DOMAIN Posted : AllEvents[i] = Posted[i]
        /\ Len(Posted) + 1 \in DOMAIN AllEvents /\ AllEvents[Len(Posted) + 1] = event
    BY <1>1, <1>3
  <2>. QED  BY <1>1, <2>1, <2>2 DEF Times
<1>. QED  BY <1>2, <1>3
(* A trigger starts an event.                                              *)
LEMMA TimesTriggers ==
  ASSUME IInv, TimesInv, NEW post \in Posts, TakeTriggerWith(post)
  PROVE  TimesInv'
<1>. DEFINE m  == Head(timingQ)
            e0 == NewEvent(m.stamp, config.pre, post)
            e  == Seed(e0).event
<1>1. /\ pc = "timing" /\ ~exited /\ IsTrigger(m) /\ ~trgActive
      /\ timingQ' = Tail(timingQ)
      /\ UNCHANGED <<lastStamp, config, runMode, sending>>
  BY DEF TakeTriggerWith, cfgVars
<1>2. /\ timingQ \in Seq(Message) /\ timingQ # << >> /\ lastStamp \in Nat
      /\ Rising(timingQ, lastStamp)
  BY <1>1 DEF IInv, TypeOK, Reading, Message, TimesInv
<1>3. runMode = "EXTERNAL" /\ Ahead(Times(AllEvents), timingQ, lastStamp)
  BY <1>1 DEF IsTrigger, TimesInv
<1>4. /\ m \in Message /\ Rising(timingQ', lastStamp) /\ Ahead({m.stamp}, timingQ', lastStamp)
      /\ Ahead(Times(AllEvents), timingQ', lastStamp)
      /\ \A t \in Times(AllEvents) : t < m.stamp
  BY <1>1, <1>2, <1>3, MessageRead
<1>5. CASE NoDescriptor
  <2>1. AllEvents' = AllEvents
    BY <1>1, <1>5, EventsUnchanged DEF NoDescriptor
  <2>. QED  BY <1>1, <1>4, <2>1 DEF TimesInv
<1>6. CASE ~NoDescriptor
  <2>1. Settle(e, fds \ {"timing"})
    BY <1>6 DEF TakeTriggerWith
  <2>2. m.stamp \in Nat /\ config.pre \in Nat /\ post \in Nat
    BY <1>4, ReadType DEF Message, IInv, TypeOK, Config
  <2>. HIDE DEF m
  <2>3. e0 \in Event /\ e0.trg = m.stamp /\ e0.end = m.stamp + post
    <3>1. m.stamp \in Int /\ e0 = NewEvent(m.stamp, config.pre, post)
      BY <2>2
    <3>2. e0 \in Event
      BY <2>2, <3>1, NewEventType
    <3>. QED  BY <3>2 DEF NewEvent
  <2>. HIDE DEF e0
  <2>4. e \in Event /\ e.trg = m.stamp /\ e.end = m.stamp + post
    BY <2>3, SeedFacts, SeedTimes DEF IInv
  <2>. HIDE DEF e
  <2>5. e.trg <= e.end
    BY <2>2, <2>4
  <2>6. /\ Spaced(Posted) /\ Opens(Posted) /\ Times(Posted) \subseteq Times(AllEvents)
    BY TimesPosted
  <2>7. \A i \in DOMAIN Posted : Posted[i].trg < e.trg
    BY <1>4, <2>4, <2>6 DEF Times
  <2>8. /\ Spaced(AllEvents') /\ Opens(AllEvents')
        /\ Times(AllEvents') \subseteq Times(Posted) \union {e.trg}
    BY <1>1, <2>1, <2>4, <2>5, <2>6, <2>7, TimesSettle
  <2>9. Ahead(Times(AllEvents'), timingQ', lastStamp)
    BY <1>4, <2>4, <2>6, <2>8 DEF Ahead
  <2>. QED  BY <1>1, <1>4, <2>8, <2>9 DEF TimesInv
<1>. QED  BY <1>5, <1>6

(* The event in progress is offered a frame.                               *)
LEMMA TimesAdds ==
  ASSUME IInv, TimesInv, AddFrame
  PROVE  TimesInv'
<1>. DEFINE f == Head(dataQ)
            e == Evaluated(event, f)
<1>1. /\ pc = "data" /\ ~exited /\ f.dest \in Dests /\ trgActive
      /\ UNCHANGED <<timingQ, lastStamp, config, runMode, sending>>
      /\ Settle(e, Rearmed)
  BY DEF AddFrame, Accept, cfgVars, Offer
<1>2. event \in Event /\ event # NoEvent /\ Counted(event)
  BY <1>1 DEF IInv, ActiveMatchesEvent, TypeOK, CountsAgree, Counted
<1>3. f \in Frame
  <2>1. dataQ \in Seq(Frame) /\ dataQ # << >>
    BY <1>1 DEF IInv, TypeOK, Reading
  <2>. QED  BY <2>1, HeadTailProperties
<1>. HIDE DEF f
<1>4. e \in Event /\ e.trg = event.trg /\ e.end = event.end
  BY <1>1, <1>2, <1>3, EvaluatedFacts, EvaluatedTimes
<1>. HIDE DEF e
<1>5. /\ Spaced(Posted) /\ Opens(Posted) /\ e.trg <= e.end
      /\ \A i \in DOMAIN Posted : Posted[i].trg < e.trg
      /\ Times(Posted) \union {e.trg} \subseteq Times(AllEvents)
  BY <1>2, <1>4, TimesPosted
<1>6. /\ Spaced(AllEvents') /\ Opens(AllEvents')
      /\ Times(AllEvents') \subseteq Times(Posted) \union {e.trg}
  BY <1>1, <1>4, <1>5, TimesSettle
<1>7. Times(AllEvents') \subseteq Times(AllEvents)
  BY <1>5, <1>6
<1>. QED  BY <1>1, <1>6, <1>7, TimesSame

(* A frame starts an event: all earlier windows end before the frame.      *)
LEMMA TimesSoft ==
  ASSUME IInv, StreamInv, TimesInv, NEW pre \in Pres, NEW post \in Posts,
         SoftTriggerWith(pre, post)
  PROVE  TimesInv'
<1>. DEFINE f  == Head(dataQ)
            t  == SoftTime(f, config.period)
            e0 == NewEvent(t, pre, post)
            s  == Seed(e0)
            e  == Evaluated(s.event, f)
<1>1. /\ pc = "data" /\ ~exited /\ f.dest \in Dests /\ StartsEvent(f)
      /\ UNCHANGED <<timingQ, lastStamp, config, runMode, sending>>
  BY DEF SoftTriggerWith, Accept, cfgVars
<1>2. /\ runMode = "SOFTWARE" /\ SoftTriggers(f, config.period) /\ event = NoEvent
  BY <1>1 DEF StartsEvent, IInv, ActiveMatchesEvent
<1>3. f \in Frame /\ f \in Of(ToSet(dataQ), f.dest)
  BY <1>1, StreamReads
<1>4. CASE NoDescriptor
  <2>1. AllEvents' = AllEvents
    BY <1>1, <1>4, EventsUnchanged DEF NoDescriptor
  <2>. QED  BY <1>1, <2>1, TimesSame DEF TimesInv
<1>5. CASE ~NoDescriptor
  <2>1. f.dest \in s.event.ctbs
    BY <1>1, FiringFrame
  <2>2. Settle(e, Rearmed)
    BY <1>5, <2>1 DEF SoftTriggerWith, Complete, Offer
  <2>3. /\ config.period \in Nat \ {0} /\ pre \in Nat /\ post \in Nat
    BY ReadType DEF IInv, TypeOK, Config
  <2>4. t \in Int /\ Beg(f) < t /\ Beg(f) \in Nat
    BY <1>2, <1>3, <2>3, SoftTimeAfter, FrameTimes
  <2>. HIDE DEF t
  <2>5. e0 \in Event /\ e0.trg = t /\ e0.end = t + post
    BY <2>3, <2>4, NewEventType DEF NewEvent
  <2>. HIDE DEF e0
  <2>6. s.event \in Event /\ Counted(s.event) /\ s.event.trg = t /\ s.event.end = t + post
    BY <2>5, SeedFacts, SeedTimes DEF IInv
  <2>. HIDE DEF s, f
  <2>7. e \in Event /\ e.trg = t /\ e.end = t + post
    BY <1>1, <1>3, <2>6, EvaluatedFacts, EvaluatedTimes
  <2>. HIDE DEF e
  <2>8. /\ Posted \in Seq(Event) /\ Spaced(Posted) /\ Opens(Posted) /\ AllEvents = Posted
    BY <1>2, TimesPosted, EventsNow DEF IInv
  <2>9. ASSUME NEW i \in DOMAIN Posted PROVE Posted[i].trg < e.trg
    <3>1. Posted[i].trg \in Int /\ Posted[i].end \in Int
      BY <2>8, TrgType
    <3>2. Stream(f.dest, AllEvents, {}, latency[f.dest].nodes, Of(ToSet(dataQ), f.dest),
                 Of(held, f.dest), sent[f.dest], exited)
      BY <1>1, <1>2 DEF StreamInv, Waiting
    <3>3. Beyond(Posted[i], latency[f.dest].nodes, Of(ToSet(dataQ), f.dest), sent[f.dest])
      BY <2>8, <3>2 DEF Stream
    <3>4. Posted[i].end <= Beg(f)
      BY <1>3, <3>3 DEF Beyond
    <3>5. Posted[i].trg <= Posted[i].end
      BY <2>8 DEF Opens
    <3>. QED  BY <2>4, <2>7, <3>1, <3>4, <3>5
  <2>10. e.trg <= e.end
    BY <2>3, <2>4, <2>7
  <2>11. Spaced(AllEvents') /\ Opens(AllEvents')
    BY <1>1, <2>2, <2>7, <2>8, <2>9, <2>10, TimesSettle
  <2>. QED  BY <1>1, <1>2, <2>11 DEF TimesInv
<1>. QED  BY <1>4, <1>5

(* The oldest event goes.                                                  *)
LEMMA TimesReleases ==
  ASSUME IInv, TimesInv, TxRelease
  PROVE  TimesInv'
<1>1. UNCHANGED <<timingQ, lastStamp, config, runMode>>
  BY DEF TxRelease, envVars, cfgVars, rxVars
<1>. DEFINE A == AllEvents  B == Tail(A)  n == Len(A)
<1>2. A \in Seq(Event) /\ A # << >> /\ AllEvents' = B
  BY ChainRelease
<1>3. Spaced(A) /\ Opens(A)
  BY DEF TimesInv
<1>. HIDE DEF A
<1>4. /\ n \in Nat \ {0} /\ DOMAIN A = 1 .. n /\ DOMAIN B = 1 .. n - 1
      /\ \A i \in 1 .. n - 1 : B[i] = A[i + 1]
  BY <1>2
<1>. HIDE DEF B, n
<1>5. \A i, j \in 1 .. n - 1 : i + 1 \in 1 .. n /\ (i < j => i + 1 < j + 1)
  BY <1>4
<1>6. Spaced(B)
  BY <1>3, <1>4, <1>5 DEF Spaced
<1>7. Opens(B) /\ Times(B) \subseteq Times(A)
  BY <1>3, <1>4, <1>5 DEF Opens, Times
<1>. QED  BY <1>1, <1>2, <1>6, <1>7, TimesSame DEF A
(* What leaves the events alone.                                           *)
LEMMA TimesElse ==
  ASSUME Modes = {}, IInv, TimesInv,
         \/ \E d \in Sources : FrameArrives(d)
         \/ \E d \in Dests : FrameLost(d)
         \/ \E c \in Configs : SetConfig(c)
         \/ \E mode \in Modes : SetRunMode(mode)
         \/ WriteField \/ Select \/ DropTiming
         \/ ReturnStray \/ ReturnFrame \/ KeepFrame \/ TxTake \/ UNCHANGED vars
  PROVE  TimesInv'
<1>1. config \in Config /\ runMode = config.runMode
  BY DEF IInv, TypeOK, TimesInv
<1>2. AllEvents' = AllEvents
  <2>1. CASE TxTake
    BY <2>1, ChainTake
  <2>2. CASE ~TxTake
    <3>1. UNCHANGED <<event, txReqQueue, sending>>
      BY <2>2 DEF FrameArrives, FrameLost, SetConfig, SetRunMode, WriteField, Select,
         DropTiming, ReturnStray, ReturnFrame, KeepFrame, Accept, vars, rxVars, txVars
    <3>. QED  BY <3>1, EventsUnchanged
  <2>. QED  BY <2>1, <2>2
<1>3. config'.runMode = config.runMode
  <2>1. CASE WriteField
    BY <1>1, <2>1 DEF WriteField, Config
  <2>2. CASE ~WriteField
    BY <2>2 DEF FrameArrives, FrameLost, SetConfig, Select, DropTiming, ReturnStray,
       ReturnFrame, KeepFrame, Accept, TxTake, vars, cfgVars
  <2>. QED  BY <2>1, <2>2
<1>4. runMode' = runMode
  <2>1. CASE Select
    BY <1>1, <2>1 DEF Select
  <2>2. CASE ~Select
    BY <2>2 DEF FrameArrives, FrameLost, SetConfig, WriteField, DropTiming, ReturnStray,
       ReturnFrame, KeepFrame, TxTake, vars, rxVars
  <2>. QED  BY <2>1, <2>2
<1>5. /\ lastStamp' = lastStamp
      /\ timingQ' = timingQ \/ (timingQ # << >> /\ timingQ' = Tail(timingQ))
  <2>1. CASE DropTiming
    BY <2>1 DEF DropTiming, IInv, Reading
  <2>2. CASE ~DropTiming
    BY <2>2 DEF FrameArrives, FrameLost, SetConfig, WriteField, Select, ReturnStray,
       ReturnFrame, KeepFrame, Accept, TxTake, vars, envVars
  <2>. QED  BY <2>1, <2>2
<1>. QED  BY <1>2, <1>3, <1>4, <1>5, TimesSame DEF TimesInv

LEMMA TimesStep ==
  ASSUME Modes = {}, TriggerGap > 0, IInv, StreamInv, TimesInv, [Next]_vars
  PROVE  TimesInv'
<1>1. CASE Environment
  BY <1>1, TimesElse, TimesComes DEF Environment
<1>2. CASE Receiver
  <2>1. CASE TakeTrigger
    BY <2>1, TimesTriggers DEF TakeTrigger
  <2>2. CASE SoftTrigger
    BY <2>2, TimesSoft DEF SoftTrigger
  <2>. QED  BY <1>2, <2>1, <2>2, TimesElse, TimesAdds DEF Receiver
<1>3. CASE Transmitter
  BY <1>3, TimesElse, TimesReleases DEF Transmitter
<1>4. CASE UNCHANGED vars
  BY <1>4, TimesElse
<1>. QED  BY <1>1, <1>2, <1>3, <1>4 DEF Next

(* As long as the run mode stays as it was set before the start, and the   *)
(* timing system does not send two messages with one stamp, the events     *)
(* that rxRun has posted and not got back, and the one in progress, are in *)
(* the order of their trigger times and no two have the same: neither      *)
(* reading an old timing message late nor a window longer than the period  *)
(* of the software trigger turns two events round.                         *)
THEOREM RxTimeOrdered ==
  Modes = {} /\ TriggerGap > 0 => (Spec => []TimeOrdered)
<1>. SUFFICES ASSUME Modes = {}, TriggerGap > 0 PROVE Spec => []TimeOrdered
  OBVIOUS
<1>1. Init => TimesInv
  BY TimesInit
<1>2. IInv /\ StreamInv /\ TimesInv /\ [Next]_vars => TimesInv'
  BY TimesStep
<1>3. TimesInv => TimeOrdered
  BY DEF TimesInv, Spaced, TimeOrdered
<1>. QED  BY <1>1, <1>2, <1>3, StreamInvariant, PTL DEF Spec

-----------------------------------------------------------------------------
(***************************************************************************)
(* The third part: events that are complete                                *)
(***************************************************************************)

(* When frame n of a destination begins.                                   *)
At(n) == n * FrameTicks

(* The ticks at which frames begin are natural numbers, a frame apart, and *)
(* add up.                                                                 *)
LEMMA AtIs ==
  /\ \A n \in Nat : At(n) \in Nat
  /\ \A n \in Int : At(n) \in Int /\ At(n + 1) = At(n) + FrameTicks
  /\ \A m, n \in Int : At(m + n) = At(m) + At(n) /\ At(m - n) = At(m) - At(n)
  /\ FrameTicks \in Nat \ {0}
<1>1. FrameTicks \in Nat \ {0}
  BY RxAssumption
<1>2. \A m, n \in Nat : m * n \in Nat
  OBVIOUS
<1>3. \A m, n \in Int : m * n \in Int
  OBVIOUS
<1>4. \A n \in Int : (n + 1) * FrameTicks = n * FrameTicks + FrameTicks
  BY <1>1
<1>5. \A m, n \in Int : /\ (m + n) * FrameTicks = m * FrameTicks + n * FrameTicks
                        /\ (m - n) * FrameTicks = m * FrameTicks - n * FrameTicks
  BY <1>1
<1>. QED  BY <1>1, <1>2, <1>3, <1>4, <1>5 DEF At

(* Frames begin in the order of their numbers, a frame apart.              *)
LEMMA AtOrder ==
  ASSUME NEW m \in Int, NEW n \in Int
  PROVE  /\ m <= n => At(m) <= At(n)
         /\ m < n => At(m) + FrameTicks <= At(n)
<1>1. ASSUME m <= n PROVE At(m) <= At(n)
  <2>1. n - m \in Nat /\ n = m + (n - m)
    BY <1>1
  <2>2. At(n) = At(m) + At(n - m) /\ At(n - m) \in Nat /\ At(m) \in Int
    BY <2>1, AtIs
  <2>. QED  BY <2>2
<1>2. ASSUME m < n PROVE At(m) + FrameTicks <= At(n)
  <2>1. n - (m + 1) \in Nat /\ n = (m + 1) + (n - (m + 1)) /\ m + 1 \in Int
    BY <1>2
  <2>2. /\ At(n) = At(m + 1) + At(n - (m + 1)) /\ At(n - (m + 1)) \in Nat
        /\ At(m + 1) = At(m) + FrameTicks /\ At(m) \in Int /\ FrameTicks \in Nat
    BY <2>1, AtIs
  <2>. QED  BY <2>2
<1>. QED  BY <1>1, <1>2

(* A frame of a destination, with its number, not in error.                *)
FrameOf(d, n) == [dest |-> d, seq |-> n, good |-> TRUE]

(* Those from number a up to and without number b, in their order, ...     *)
Run(d, a, b) == [i \in 1 .. b - a |-> FrameOf(d, a + i - 1)]

(* ... and as a set.                                                       *)
Span(d, a, b) == {FrameOf(d, n) : n \in a .. b - 1}

(* A frame of a destination, its number and its ticks.                     *)
LEMMA FrameOfIs ==
  ASSUME NEW d \in Dests, NEW n \in Nat
  PROVE  /\ FrameOf(d, n) \in Frame
         /\ FrameOf(d, n).dest = d /\ FrameOf(d, n).seq = n /\ FrameOf(d, n).good = TRUE
         /\ Beg(FrameOf(d, n)) = At(n) /\ End(FrameOf(d, n)) = At(n + 1)
BY DEF FrameOf, Frame, Sources, Beg, End, At

(* The length of a run, its frames, and that they are the span.            *)
LEMMA RunIs ==
  ASSUME NEW d \in Dests, NEW a \in Nat, NEW b \in Nat, a <= b
  PROVE  /\ Run(d, a, b) \in Seq(Frame) /\ Len(Run(d, a, b)) = b - a
         /\ DOMAIN Run(d, a, b) = 1 .. b - a /\ b - a \in Nat
         /\ \A i \in 1 .. b - a : Run(d, a, b)[i] = FrameOf(d, a + i - 1)
         /\ ToSet(Run(d, a, b)) = Span(d, a, b)
<1>. DEFINE n == b - a  q == Run(d, a, b)
<1>1. n \in Nat /\ q = [i \in 1 .. n |-> FrameOf(d, a + i - 1)]
  BY DEF Run
<1>. HIDE DEF q
<1>2. \A i \in 1 .. n : FrameOf(d, a + i - 1) \in Frame
  <2>. TAKE i \in 1 .. n
  <2>1. a + i - 1 \in Nat
    OBVIOUS
  <2>. QED  BY <2>1, FrameOfIs
<1>3. q \in Seq(Frame) /\ Len(q) = n /\ DOMAIN q = 1 .. n
  BY <1>1, <1>2
<1>4. ToSet(q) = Span(d, a, b)
  <2>1. ASSUME NEW f \in ToSet(q) PROVE f \in Span(d, a, b)
    <3>1. PICK i \in 1 .. n : f = q[i]
      BY <1>3 DEF ToSet
    <3>2. f = FrameOf(d, a + i - 1) /\ a + i - 1 \in a .. b - 1
      BY <1>1, <3>1
    <3>. QED  BY <3>2 DEF Span
  <2>2. ASSUME NEW f \in Span(d, a, b) PROVE f \in ToSet(q)
    <3>1. PICK k \in a .. b - 1 : f = FrameOf(d, k)
      BY DEF Span
    <3>. DEFINE i == k - a + 1
    <3>2. i \in 1 .. n /\ k = a + i - 1
      BY <3>1
    <3>. HIDE DEF i
    <3>3. f = q[i] /\ i \in DOMAIN q
      BY <1>1, <1>3, <3>1, <3>2
    <3>. QED  BY <3>3 DEF ToSet
  <2>. QED  BY <2>1, <2>2
<1>. QED  BY <1>1, <1>3, <1>4 DEF q

(* One that is not empty.                                                  *)
IsRun(s, d, a, b) ==
  /\ s \in Seq(Frame) /\ Len(s) = b - a
  /\ DOMAIN s = 1 .. b - a /\ b - a \in Nat \ {0}
  /\ \A i \in 1 .. b - a : /\ s[i] = FrameOf(d, a + i - 1)
                          /\ a + i - 1 \in Nat /\ (a + i - 1) + 1 = a + i

(* A run of frames that is not empty, by its length and its frames.        *)
LEMMA RunOf ==
  ASSUME NEW d \in Dests, NEW a \in Nat, NEW b \in Nat, a < b
  PROVE  IsRun(Run(d, a, b), d, a, b)
<1>1. b - a \in Nat \ {0} /\ a <= b
      /\ \A i \in 1 .. b - a : a + i - 1 \in Nat /\ (a + i - 1) + 1 = a + i
  OBVIOUS
<1>2. /\ Run(d, a, b) \in Seq(Frame) /\ Len(Run(d, a, b)) = b - a
      /\ DOMAIN Run(d, a, b) = 1 .. b - a
      /\ \A i \in 1 .. b - a : Run(d, a, b)[i] = FrameOf(d, a + i - 1)
  BY <1>1, RunIs
<1>. QED  BY <1>1, <1>2 DEF IsRun

(* There are no frames from a number up to itself.                         *)
LEMMA RunEmpty ==
  ASSUME NEW d \in Dests, NEW a \in Nat
  PROVE  Run(d, a, a) = << >>
<1>1. Run(d, a, a) \in Seq(Frame) /\ Len(Run(d, a, a)) = 0
  BY RunIs
<1>. QED  BY <1>1, EmptySeq

(* Two lists of frames are equal when their members are.                   *)
LEMMA SameFrames ==
  ASSUME NEW p \in Seq(Frame), NEW q \in Seq(Frame), Len(p) = Len(q),
         \A i \in 1 .. Len(p) : p[i] = q[i]
  PROVE  p = q
BY SeqEqual

(* The next frame, put at the end of a run, gives the longer run.          *)
LEMMA RunGrows ==
  ASSUME NEW d \in Dests, NEW a \in Nat, NEW b \in Nat, a <= b
  PROVE  Append(Run(d, a, b), FrameOf(d, b)) = Run(d, a, b + 1)
<1>. DEFINE p == Append(Run(d, a, b), FrameOf(d, b))  q == Run(d, a, b + 1)  n == b - a
<1>1. /\ Run(d, a, b) \in Seq(Frame) /\ Len(Run(d, a, b)) = n /\ n \in Nat
      /\ \A i \in 1 .. n : Run(d, a, b)[i] = FrameOf(d, a + i - 1)
  BY RunIs
<1>2. b + 1 \in Nat /\ a <= b + 1 /\ (b + 1) - a = n + 1 /\ a + (n + 1) - 1 = b
  BY <1>1
<1>3. /\ q \in Seq(Frame) /\ Len(q) = n + 1
      /\ \A i \in 1 .. n + 1 : q[i] = FrameOf(d, a + i - 1)
  BY <1>2, RunIs
<1>4. FrameOf(d, b) \in Frame
  BY FrameOfIs
<1>. HIDE DEF q, n
<1>5. p \in Seq(Frame) /\ Len(p) = n + 1 /\ p[n + 1] = FrameOf(d, b)
      /\ \A i \in 1 .. n : p[i] = FrameOf(d, a + i - 1)
  BY <1>1, <1>4
<1>. HIDE DEF p
<1>6. \A i \in 1 .. n + 1 : i \in 1 .. n \/ i = n + 1
  BY <1>1
<1>7. \A i \in 1 .. n + 1 : p[i] = q[i]
  BY <1>2, <1>3, <1>5, <1>6
<1>8. p = q
  BY <1>3, <1>5, <1>7, SameFrames
<1>. QED  BY <1>8 DEF p, q

(* A part of a run, as split takes it from a latency list, is a run.       *)
LEMMA RunPart ==
  ASSUME NEW d \in Dests, NEW a \in Nat, NEW b \in Nat, a <= b,
         NEW i \in 0 .. b - a, NEW j \in 0 .. b - a, i <= j
  PROVE  SubSeq(Run(d, a, b), i + 1, j) = Run(d, a + i, a + j)
<1>. DEFINE s == Run(d, a, b)  p == SubSeq(s, i + 1, j)  q == Run(d, a + i, a + j)
<1>1. /\ s \in Seq(Frame) /\ Len(s) = b - a
      /\ \A k \in 1 .. b - a : s[k] = FrameOf(d, a + k - 1)
  BY RunIs
<1>2. a + i \in Nat /\ a + j \in Nat /\ a + i <= a + j /\ (a + j) - (a + i) = j - i
  OBVIOUS
<1>3. /\ q \in Seq(Frame) /\ Len(q) = j - i
      /\ \A k \in 1 .. j - i : q[k] = FrameOf(d, (a + i) + k - 1)
  <2>. DEFINE x == a + i  y == a + j
  <2>1. x \in Nat /\ y \in Nat /\ x <= y /\ y - x = j - i
    BY <1>2
  <2>. HIDE DEF x, y
  <2>2. /\ Run(d, x, y) \in Seq(Frame) /\ Len(Run(d, x, y)) = y - x
        /\ \A k \in 1 .. y - x : Run(d, x, y)[k] = FrameOf(d, x + k - 1)
    BY <2>1, RunIs
  <2>3. /\ Run(d, x, y) \in Seq(Frame) /\ Len(Run(d, x, y)) = j - i
        /\ \A k \in 1 .. j - i : Run(d, x, y)[k] = FrameOf(d, x + k - 1)
    BY <2>1, <2>2
  <2>. QED  BY <2>3 DEF x, y
<1>. HIDE DEF s, q
<1>4. /\ p \in Seq(Frame) /\ Len(p) = j - i
      /\ \A k \in 1 .. j - i : p[k] = s[i + k]
  <2>1. /\ i + 1 \in Int /\ j \in Int
        /\ \A k \in i + 1 .. j : s[k] \in Frame
    <3>1. \A k \in 1 .. Len(s) : s[k] \in Frame
      BY <1>1
    <3>2. \A k \in i + 1 .. j : k \in 1 .. Len(s)
      BY <1>1
    <3>. QED  BY <3>1, <3>2
  <2>2. /\ p \in Seq(Frame)
        /\ Len(p) = IF i + 1 <= j THEN j - (i + 1) + 1 ELSE 0
        /\ \A k \in 1 .. j - (i + 1) + 1 : p[k] = s[(i + 1) + k - 1]
    BY <2>1, SubSeqProperties
  <2>3. j - (i + 1) + 1 = j - i /\ (IF i + 1 <= j THEN j - (i + 1) + 1 ELSE 0) = j - i
    OBVIOUS
  <2>4. \A k \in 1 .. j - i : (i + 1) + k - 1 = i + k
    OBVIOUS
  <2>. QED  BY <2>2, <2>3, <2>4
<1>. HIDE DEF p
<1>5. \A k \in 1 .. j - i : i + k \in 1 .. b - a /\ a + (i + k) - 1 = (a + i) + k - 1
  OBVIOUS
<1>6. \A k \in 1 .. j - i : p[k] = q[k]
  BY <1>1, <1>3, <1>4, <1>5
<1>7. p = q
  BY <1>3, <1>4, <1>6, SameFrames
<1>. QED  BY <1>7 DEF p, q, s

(* A run without its first frame, as replace leaves it, is a run.          *)
LEMMA RunTail ==
  ASSUME NEW d \in Dests, NEW a \in Nat, NEW b \in Nat, a < b
  PROVE  /\ Tail(Run(d, a, b)) = Run(d, a + 1, b) /\ Head(Run(d, a, b)) = FrameOf(d, a)
         /\ Run(d, a, b) # << >>
<1>. DEFINE s == Run(d, a, b)
<1>1. /\ s \in Seq(Frame) /\ Len(s) = b - a /\ b - a \in Nat \ {0}
      /\ s[1] = FrameOf(d, a + 1 - 1) /\ a + 1 - 1 = a
  <2>1. 1 \in 1 .. b - a /\ a + 1 - 1 = a
    OBVIOUS
  <2>2. IsRun(s, d, a, b)
    BY RunOf
  <2>. HIDE DEF s
  <2>. QED  BY <2>1, <2>2 DEF IsRun
<1>2. SubSeq(s, 1 + 1, b - a) = Run(d, a + 1, a + (b - a))
  <2>1. 1 \in 0 .. b - a /\ b - a \in 0 .. b - a /\ 1 <= b - a /\ a <= b
    BY <1>1
  <2>. QED  BY <2>1, RunPart
<1>3. a + (b - a) = b /\ 1 + 1 = 2
  OBVIOUS
<1>. HIDE DEF s
<1>4. s # << >> /\ Head(s) = FrameOf(d, a) /\ Tail(s) = SubSeq(s, 2, Len(s))
  BY <1>1, TailIsSubSeq
<1>. QED  BY <1>1, <1>2, <1>3, <1>4 DEF s

(* The latency list of a destination of which the frames from number lo up *)
(* to number r were kept.                                                  *)
Chain(d, lo, r) == [nodes |-> Run(d, lo, r), loose |-> FALSE]

(* Where a frame of the destination stands, of an event whose window is    *)
(* not empty.                                                              *)
LEMMA FrameIn ==
  ASSUME NEW e \in Event, e.beg < e.end, NEW d \in Dests, NEW n \in Nat
  PROVE  LET f == FrameOf(d, n)
         IN  /\ Early(e, f) <=> At(n + 1) < e.beg
             /\ Late(e, f) <=> e.end < At(n)
             /\ Inside(e, f) <=> e.beg <= At(n + 1) /\ At(n) <= e.end
             /\ Completes(e, f) <=> e.end <= At(n + 1)
             /\ e.beg \in Int /\ e.end \in Int
             /\ At(n) \in Nat /\ At(n + 1) = At(n) + FrameTicks
<1>. DEFINE f == FrameOf(d, n)
<1>1. Beg(f) = At(n) /\ End(f) = At(n + 1)
  BY FrameOfIs
<1>2. At(n) \in Nat /\ At(n + 1) = At(n) + FrameTicks /\ FrameTicks \in Nat \ {0}
  BY AtIs
<1>3. e.beg \in Int /\ e.end \in Int
  BY DEF Event
<1>. HIDE DEF f
<1>. SUFFICES /\ Early(e, f) <=> At(n + 1) < e.beg
              /\ Late(e, f) <=> e.end < At(n)
              /\ Inside(e, f) <=> e.beg <= At(n + 1) /\ At(n) <= e.end
              /\ Completes(e, f) <=> e.end <= At(n + 1)
  BY <1>2, <1>3 DEF f
<1>4. Early(e, f) <=> At(n + 1) < e.beg
  BY <1>1 DEF Early
<1>5. Late(e, f) <=> e.end < At(n)
  BY <1>1, <1>2, <1>3 DEF Late
<1>6. Inside(e, f) <=> e.beg <= At(n + 1) /\ At(n) <= e.end
  BY <1>1, <1>2, <1>3 DEF Inside
<1>. QED  BY <1>1, <1>2, <1>3, <1>4, <1>5, <1>6 DEF Completes

(* What a scan s of the frames of a destination from number lo up to r has *)
(* done: those before number a are returned, those from a up to n go to    *)
(* the event, the rest stays.                                              *)
Sown(s, e, d, lo, a, n, r) ==
  /\ a \in Nat /\ n \in Nat /\ lo <= a /\ a <= n /\ n <= r
  /\ s.list = Chain(d, n, r) /\ s.rem = Depth - (r - n)
  /\ s.add = Run(d, a, n) /\ s.free = Span(d, lo, a)
  /\ At(a) <= Max2(0, e.beg) /\ At(n) < e.end + FrameTicks
  /\ a < n => e.beg <= At(a + 1)
  /\ s.done \in BOOLEAN
  /\ s.done => a < n /\ e.end <= At(n)
  /\ ~s.done => n = r /\ (a < r => At(r) < e.end)

(* Seeding from frames that follow one another, the first of which begins  *)
(* no later than the window.                                               *)
LEMMA SeededRun ==
  ASSUME NEW d \in Dests, NEW e \in Event, NEW lo \in Nat, NEW r \in Nat, lo <= r,
         NEW rem, rem = Depth - (r - lo),
         At(lo) <= Max2(0, e.beg), e.beg < e.end, 0 < e.end
  PROVE  \E a, n : Sown(Seeded(e, Chain(d, lo, r), rem), e, d, lo, a, n, r)
<1>. DEFINE q     == Run(d, lo, r)
            l     == Chain(d, lo, r)
            m     == r - lo
            E     == {i \in DOMAIN q : Early(e, q[i])}
            O     == {i \in DOMAIN q : ~Completes(e, q[i])}
            early == Cardinality(E)
            open  == Cardinality(O)
            done  == open < m
            back  == done /\ Late(e, q[open + 1])
            n     == IF done /\ ~back THEN open + 1 ELSE open
            s     == Seeded(e, l, rem)
<1>1. /\ q \in Seq(Frame) /\ Len(q) = m /\ DOMAIN q = 1 .. m /\ m \in Nat
      /\ \A i \in 1 .. m : q[i] = FrameOf(d, lo + i - 1)
  <2>1. CASE lo < r
    <3>1. IsRun(q, d, lo, r)
      BY <2>1, RunOf
    <3>. HIDE DEF q
    <3>. QED  BY <3>1 DEF IsRun
  <2>2. CASE lo = r
    <3>1. q = << >> /\ m = 0
      BY <2>2, RunEmpty
    <3>. HIDE DEF q, m
    <3>. QED  BY <3>1
  <2>. QED  BY <2>1, <2>2
<1>2. l.nodes = q /\ l.loose = FALSE
  BY DEF Chain
<1>3. /\ s.list = Left(l, n, back)
      /\ s.rem = SpotsLeft(rem, n, done)
      /\ s.add = SubSeq(q, early + 1, n)
      /\ s.free = {q[i] : i \in 1 .. early}
      /\ s.done = done
  BY <1>1, <1>2 DEF Seeded
<1>. HIDE DEF q, l, s
<1>4. e.beg \in Int /\ e.end \in Int
  BY DEF Event
<1>5. FrameTicks \in Nat \ {0} /\ At(lo) \in Nat
  BY AtIs
<1>6. ASSUME NEW i \in 1 .. m
      PROVE  /\ Early(e, q[i]) <=> At(lo + i) < e.beg
             /\ Late(e, q[i]) <=> e.end < At(lo + i - 1)
             /\ Completes(e, q[i]) <=> e.end <= At(lo + i)
             /\ lo + i \in Nat /\ At(lo + i) \in Nat /\ At(lo + i - 1) \in Nat
             /\ At(lo + i) = At(lo + i - 1) + FrameTicks
  <2>. DEFINE k == lo + i - 1
  <2>1. k \in Nat /\ k + 1 = lo + i /\ q[i] = FrameOf(d, k) /\ lo + i \in Nat
    BY <1>1
  <2>. HIDE DEF k
  <2>2. /\ Early(e, q[i]) <=> At(k + 1) < e.beg
        /\ Late(e, q[i]) <=> e.end < At(k)
        /\ Completes(e, q[i]) <=> e.end <= At(k + 1)
        /\ At(k) \in Nat /\ At(k + 1) = At(k) + FrameTicks
    BY <2>1, FrameIn
  <2>3. At(lo + i) \in Nat
    BY <2>1, AtIs
  <2>. QED  BY <2>1, <2>2, <2>3 DEF k
<1>7. ASSUME NEW i \in 1 .. m, NEW j \in 1 .. m, j < i
      PROVE  At(lo + j) < At(lo + i) /\ At(lo + i) \in Nat /\ At(lo + j) \in Nat
  <2>1. lo + j \in Int /\ lo + i \in Int /\ lo + j < lo + i
    BY <1>7
  <2>2. At(lo + j) + FrameTicks <= At(lo + i)
    BY <2>1, AtOrder
  <2>. QED  BY <1>5, <1>6, <2>2
<1>8. early \in 0 .. m /\ E = 1 .. early
  <2>1. \A i : i \in E <=> i \in 1 .. m /\ Early(e, q[i])
    BY <1>1
  <2>. HIDE DEF E
  <2>2. E \in SUBSET (1 .. m)
    BY <2>1
  <2>3. ASSUME NEW i \in E, NEW j \in 1 .. m, j < i PROVE j \in E
    <3>1. i \in 1 .. m /\ Early(e, q[i])
      BY <2>1
    <3>2. At(lo + j) < e.beg
      <4>1. At(lo + i) < e.beg
        BY <1>6, <3>1
      <4>2. At(lo + j) < At(lo + i) /\ At(lo + i) \in Nat /\ At(lo + j) \in Nat
        BY <1>7, <2>3, <3>1
      <4>3. e.beg \in Int
        BY <1>4
      <4>. QED  BY <4>1, <4>2, <4>3
    <3>. QED  BY <1>6, <2>1, <3>2
  <2>. QED  BY <1>1, <2>2, <2>3, Prefix
<1>9. open \in 0 .. m /\ O = 1 .. open
  <2>1. \A i : i \in O <=> i \in 1 .. m /\ ~Completes(e, q[i])
    BY <1>1
  <2>. HIDE DEF O
  <2>2. O \in SUBSET (1 .. m)
    BY <2>1
  <2>3. ASSUME NEW i \in O, NEW j \in 1 .. m, j < i PROVE j \in O
    <3>1. i \in 1 .. m /\ ~Completes(e, q[i])
      BY <2>1
    <3>2. /\ Completes(e, q[i]) <=> e.end <= At(lo + i)
          /\ Completes(e, q[j]) <=> e.end <= At(lo + j)
      BY <1>6, <3>1
    <3>3. At(lo + j) < At(lo + i) /\ At(lo + i) \in Nat /\ At(lo + j) \in Nat
      BY <1>7, <2>3, <3>1
    <3>4. ~(e.end <= At(lo + i))
      BY <3>1, <3>2
    <3>5. ~(e.end <= At(lo + j))
      BY <1>4, <3>3, <3>4
    <3>. QED  BY <2>1, <3>2, <3>5
  <2>. QED  BY <1>1, <2>2, <2>3, Prefix
<1>10. ASSUME NEW i \in 1 .. m
       PROVE  /\ i <= early <=> At(lo + i) < e.beg
              /\ i <= open <=> At(lo + i) < e.end
  <2>1. i \in E <=> i <= early
    BY <1>8
  <2>2. i \in O <=> i <= open
    BY <1>9
  <2>3. /\ Early(e, q[i]) <=> At(lo + i) < e.beg
        /\ Completes(e, q[i]) <=> e.end <= At(lo + i)
        /\ At(lo + i) \in Nat
    BY <1>6
  <2>4. ~(e.end <= At(lo + i)) <=> At(lo + i) < e.end
    BY <1>4, <2>3
  <2>5. i \in E <=> Early(e, q[i])
    BY <1>1
  <2>6. i \in O <=> ~Completes(e, q[i])
    BY <1>1
  <2>. HIDE DEF E, O, early, open
  <2>. QED  BY <2>1, <2>2, <2>3, <2>4, <2>5, <2>6
<1>. HIDE DEF E, O, early, open
<1>11. early <= open
  <2>1. CASE early = 0
    BY <1>9, <2>1
  <2>2. CASE early # 0
    <3>1. early \in 1 .. m
      BY <1>8, <2>2
    <3>2. At(lo + early) < e.beg /\ At(lo + early) \in Nat
      BY <1>6, <1>8, <1>10, <3>1
    <3>3. At(lo + early) < e.end
      BY <1>4, <3>2
    <3>. QED  BY <1>10, <3>1, <3>3
  <2>. QED  BY <2>1, <2>2
<1>12. At(lo + open) < e.end /\ At(lo + open) \in Nat
  <2>1. CASE open = 0
    <3>1. At(lo) < e.end
      BY <1>4, <1>5 DEF Max2
    <3>2. lo + open = lo
      BY <2>1
    <3>. QED  BY <1>5, <3>1, <3>2
  <2>2. CASE open # 0
    <3>1. open \in 1 .. m
      BY <1>9, <2>2
    <3>. QED  BY <1>6, <1>9, <1>10, <3>1
  <2>. QED  BY <2>1, <2>2
<1>13. back = FALSE
  <2>. SUFFICES ASSUME done, Late(e, q[open + 1]) PROVE FALSE
    OBVIOUS
  <2>1. open + 1 \in 1 .. m /\ lo + (open + 1) - 1 = lo + open
    BY <1>1, <1>9
  <2>2. e.end < At(lo + (open + 1) - 1)
    BY <1>6, <2>1
  <2>. QED  BY <1>4, <1>12, <2>1, <2>2
<1>14. /\ n = IF done THEN open + 1 ELSE open
       /\ n \in 0 .. m /\ early <= n /\ (~done => n = m) /\ (done => early < n)
  BY <1>1, <1>8, <1>9, <1>11, <1>13
<1>15. done => e.end <= At(lo + n)
  <2>1. done => open + 1 \in 1 .. m /\ n = open + 1 /\ ~(open + 1 <= open)
    BY <1>1, <1>9, <1>14
  <2>2. done => ~(At(lo + (open + 1)) < e.end) /\ At(lo + (open + 1)) \in Nat
    BY <1>6, <1>10, <2>1
  <2>. QED  BY <1>4, <2>1, <2>2
<1>16. At(lo + n) < e.end + FrameTicks
  <2>1. CASE done
    <3>1. lo + open \in Int /\ lo + n = (lo + open) + 1
      BY <1>9, <1>14, <2>1
    <3>2. At(lo + n) = At(lo + open) + FrameTicks
      BY <3>1, AtIs
    <3>. QED  BY <1>4, <1>5, <1>12, <3>2
  <2>2. CASE ~done
    <3>1. n = open
      BY <1>14, <2>2
    <3>. QED  BY <1>4, <1>5, <1>12, <3>1
  <2>. QED  BY <2>1, <2>2
<1>17. SpotsLeft(rem, n, done) = Depth - (r - (lo + n))
  BY <1>1, <1>14, RxAssumption DEF SpotsLeft
<1>18. Left(l, n, back) = Chain(d, lo + n, r)
  <2>1. lo + m = r /\ n <= m /\ n \in Nat /\ m \in 0 .. r - lo /\ n \in 0 .. r - lo
    BY <1>1, <1>14
  <2>2. SubSeq(q, n + 1, m) = Run(d, lo + n, r)
    <3>. HIDE DEF n, m
    <3>1. SubSeq(Run(d, lo, r), n + 1, m) = Run(d, lo + n, lo + m)
      BY <2>1, RunPart
    <3>. QED  BY <2>1, <3>1 DEF q
  <2>3. Left(l, n, back) = [nodes |-> SubSeq(q, n + 1, m), loose |-> FALSE]
    BY <1>1, <1>2, <1>13 DEF Left, Rest
  <2>. QED  BY <2>2, <2>3 DEF Chain
<1>19. SubSeq(q, early + 1, n) = Run(d, lo + early, lo + n)
  <2>1. early <= n /\ n \in 0 .. r - lo /\ early \in 0 .. r - lo
    BY <1>1, <1>8, <1>14
  <2>. HIDE DEF n, m
  <2>. QED  BY <2>1, RunPart DEF q
<1>20. {q[i] : i \in 1 .. early} = Span(d, lo, lo + early)
  <2>1. early \in 0 .. m
    BY <1>8
  <2>. DEFINE F == {q[i] : i \in 1 .. early}
  <2>2. ASSUME NEW f \in F PROVE f \in Span(d, lo, lo + early)
    <3>1. PICK i \in 1 .. early : f = q[i]
      OBVIOUS
    <3>2. i \in 1 .. m /\ lo + i - 1 \in lo .. (lo + early) - 1
      BY <1>1, <2>1
    <3>. QED  BY <1>1, <3>1, <3>2 DEF Span
  <2>3. ASSUME NEW f \in Span(d, lo, lo + early) PROVE f \in F
    <3>1. PICK k \in lo .. (lo + early) - 1 : f = FrameOf(d, k)
      BY DEF Span
    <3>. DEFINE i == k - lo + 1
    <3>2. i \in 1 .. early /\ i \in 1 .. m /\ k = lo + i - 1
      BY <1>1, <2>1
    <3>. HIDE DEF i
    <3>3. f = q[i]
      BY <1>1, <3>1, <3>2
    <3>. QED  BY <3>2, <3>3
  <2>. HIDE DEF F
  <2>4. F = Span(d, lo, lo + early)
    BY <2>2, <2>3
  <2>. QED  BY <2>4 DEF F
<1>21. At(lo + early) <= Max2(0, e.beg)
  <2>1. CASE early = 0
    <3>1. lo + early = lo
      BY <2>1
    <3>. QED  BY <3>1
  <2>2. CASE early # 0
    <3>1. early \in 1 .. m /\ early \in Nat
      BY <1>8, <2>2
    <3>2. At(lo + early) < e.beg /\ At(lo + early) \in Nat
      BY <1>6, <1>10, <3>1
    <3>. QED  BY <1>4, <3>2 DEF Max2
  <2>. QED  BY <2>1, <2>2
<1>22. early < n => e.beg <= At((lo + early) + 1)
  <2>1. early < n => early + 1 \in 1 .. m /\ ~(early + 1 <= early)
    BY <1>1, <1>8, <1>14
  <2>2. early < n => ~(At(lo + (early + 1)) < e.beg) /\ At(lo + (early + 1)) \in Nat
    BY <1>6, <1>10, <2>1
  <2>3. lo + (early + 1) = (lo + early) + 1
    BY <1>8
  <2>. QED  BY <1>4, <2>2, <2>3
<1>23. ~done => At(r) < e.end
  <2>1. ~done => lo + open = r
    BY <1>1, <1>9
  <2>. QED  BY <1>12, <2>1
<1>. DEFINE a == lo + early
            b == lo + n
<1>24. a \in Nat /\ b \in Nat /\ lo <= a /\ a <= b /\ b <= r
       /\ (a < b <=> early < n) /\ (~done => b = r) /\ done \in BOOLEAN
  BY <1>1, <1>8, <1>14
<1>25. /\ s.list = Chain(d, b, r) /\ s.rem = Depth - (r - b)
       /\ s.add = Run(d, a, b) /\ s.free = Span(d, lo, a) /\ s.done = done
  BY <1>3, <1>17, <1>18, <1>19, <1>20
<1>. HIDE DEF n
<1>26. /\ At(a) <= Max2(0, e.beg) /\ At(b) < e.end + FrameTicks
       /\ early < n => e.beg <= At(a + 1)
       /\ done => early < n /\ e.end <= At(b)
  BY <1>14, <1>15, <1>16, <1>21, <1>22
<1>. HIDE DEF a, b, done, m
<1>27. Sown(s, e, d, lo, a, b, r)
  <2>1. /\ lo <= a /\ a <= b /\ b <= r
        /\ s.list = Chain(d, b, r) /\ s.rem = Depth - (r - b)
        /\ s.add = Run(d, a, b) /\ s.free = Span(d, lo, a)
    BY <1>24, <1>25
  <2>2. /\ At(a) <= Max2(0, e.beg) /\ At(b) < e.end + FrameTicks
        /\ a < b => e.beg <= At(a + 1)
        /\ s.done \in BOOLEAN
        /\ s.done => a < b /\ e.end <= At(b)
        /\ ~s.done => b = r /\ (a < r => At(r) < e.end)
    BY <1>23, <1>24, <1>25, <1>26
  <2>. QED  BY <1>24, <2>1, <2>2 DEF Sown
<1>. QED  BY <1>27 DEF s, l

(* Destination d has given event e every frame of its window, ...          *)
Covers(e, d) ==
  \E a, b \in Nat : /\ a < b /\ e.list[d] = Run(d, a, b)
                    /\ At(a) <= Max2(0, e.beg) /\ e.end <= At(b)

(* ... or those that were read, up to number r, and the window goes on.    *)
Gathers(e, d, r) ==
  \E a \in Nat : /\ a <= r /\ e.list[d] = Run(d, a, r)
                 /\ At(a) <= Max2(0, e.beg)
                 /\ a < r => e.beg <= At(a + 1) /\ At(r) < e.end

(* What an event has of a destination of which the frames up to number r   *)
(* were read and those from lo are on the latency list.                    *)
Side(e, d, lo, r) ==
  IF d \in e.ctbs THEN lo = r /\ Gathers(e, d, r)
  ELSE Covers(e, d) /\ e.end <= At(r)

(* The latency list has the Depth latest frames, or begins no more than a  *)
(* frame after the window of the last event.                               *)
Reach(lo, r, end) == lo = r - Depth \/ At(lo) < end + FrameTicks

(* A frame is put on a latency list.                                       *)
LEMMA ReplacedRun ==
  ASSUME NEW d \in Dests, NEW lo \in Nat, NEW r \in Nat, lo <= r,
         NEW rem \in Nat, rem = Depth - (r - lo)
  PROVE  LET x == Replaced(Chain(d, lo, r), rem, FrameOf(d, r))
         IN  \E n \in Nat :
               /\ lo <= n /\ n <= r + 1
               /\ x.list = Chain(d, n, r + 1) /\ x.rem = Depth - ((r + 1) - n)
               /\ x.free = Span(d, lo, n)
               /\ \A end \in Int : Reach(lo, r, end) => Reach(n, r + 1, end)
<1>. DEFINE l  == Chain(d, lo, r)
            f  == FrameOf(d, r)
            l2 == InsertTail(l, f)
            x  == Replaced(l, rem, f)
<1>1. Depth \in Nat \ {0}
  BY RxAssumption
<1>2. l2 = Chain(d, lo, r + 1)
  <2>1. Append(Run(d, lo, r), f) = Run(d, lo, r + 1)
    BY RunGrows
  <2>2. l2 = [nodes |-> Append(Run(d, lo, r), f), loose |-> FALSE]
    BY DEF InsertTail, Chain
  <2>. QED  BY <2>1, <2>2 DEF Chain
<1>3. x = IF rem <= 0
          THEN [list |-> RemoveHead(l2), rem |-> rem, free |-> {Head(l2.nodes)}]
          ELSE [list |-> l2, rem |-> rem - 1, free |-> {}]
  BY DEF Replaced
<1>. HIDE DEF l, f, l2, x
<1>4. CASE rem <= 0
  <2>1. rem = 0 /\ r - lo = Depth
    BY <1>1, <1>4
  <2>2. lo < r + 1 /\ r + 1 \in Nat /\ lo + 1 \in Nat /\ lo + 1 <= r + 1
    OBVIOUS
  <2>3. Tail(Run(d, lo, r + 1)) = Run(d, lo + 1, r + 1)
        /\ Head(Run(d, lo, r + 1)) = FrameOf(d, lo)
    BY <2>2, RunTail
  <2>4. RemoveHead(l2) = Chain(d, lo + 1, r + 1) /\ Head(l2.nodes) = FrameOf(d, lo)
    BY <1>2, <2>3 DEF RemoveHead, Chain
  <2>5. Span(d, lo, lo + 1) = {FrameOf(d, lo)}
    <3>1. lo .. (lo + 1) - 1 = {lo}
      OBVIOUS
    <3>. QED  BY <3>1 DEF Span
  <2>6. \A end \in Int : Reach(lo + 1, r + 1, end)
    BY <1>1, <2>1 DEF Reach
  <2>7. x.list = Chain(d, lo + 1, r + 1) /\ x.rem = rem /\ x.free = Span(d, lo, lo + 1)
    BY <1>3, <1>4, <2>4, <2>5
  <2>8. x.rem = Depth - ((r + 1) - (lo + 1)) /\ lo <= lo + 1
    BY <1>1, <2>1, <2>7
  <2>9. \E n \in Nat :
               /\ lo <= n /\ n <= r + 1
               /\ x.list = Chain(d, n, r + 1) /\ x.rem = Depth - ((r + 1) - n)
               /\ x.free = Span(d, lo, n)
               /\ \A end \in Int : Reach(lo, r, end) => Reach(n, r + 1, end)
    BY <2>2, <2>6, <2>7, <2>8
  <2>. QED  BY <2>9 DEF x, l, f
<1>5. CASE ~(rem <= 0)
  <2>1. r + 1 \in Nat /\ lo <= r + 1 /\ rem - 1 = Depth - ((r + 1) - lo) /\ lo # r - Depth
    BY <1>1, <1>5
  <2>2. Span(d, lo, lo) = {}
    <3>1. lo .. lo - 1 = {}
      OBVIOUS
    <3>. QED  BY <3>1 DEF Span
  <2>3. x.list = Chain(d, lo, r + 1) /\ x.rem = rem - 1 /\ x.free = Span(d, lo, lo)
    BY <1>2, <1>3, <1>5, <2>2
  <2>4. \A end \in Int : Reach(lo, r, end) => Reach(lo, r + 1, end)
    BY <2>1 DEF Reach
  <2>5. lo <= lo /\ x.rem = Depth - ((r + 1) - lo)
    BY <2>1, <2>3
  <2>6. \E n \in Nat :
               /\ lo <= n /\ n <= r + 1
               /\ x.list = Chain(d, n, r + 1) /\ x.rem = Depth - ((r + 1) - n)
               /\ x.free = Span(d, lo, n)
               /\ \A end \in Int : Reach(lo, r, end) => Reach(n, r + 1, end)
    BY <2>1, <2>3, <2>4, <2>5
  <2>. QED  BY <2>6 DEF x, l, f
<1>. QED  BY <1>4, <1>5

(* What an event has of a destination depends on nothing else of it, ...   *)
LEMMA SideAlike ==
  ASSUME NEW e, NEW x, NEW d, NEW lo, NEW r, Side(e, d, lo, r),
         x.list[d] = e.list[d], x.beg = e.beg, x.end = e.end,
         d \in x.ctbs <=> d \in e.ctbs
  PROVE  Side(x, d, lo, r)
<1>1. Covers(e, d) => Covers(x, d)
  BY DEF Covers
<1>2. Gathers(e, d, r) => Gathers(x, d, r)
  BY DEF Gathers
<1>. QED  BY <1>1, <1>2 DEF Side

(* ... and once it has all, not on what is read then.                      *)
LEMMA SideLater ==
  ASSUME NEW e \in Event, NEW d, d \notin e.ctbs, NEW lo, NEW r \in Nat,
         Side(e, d, lo, r), NEW lo2, NEW r2 \in Nat, r <= r2
  PROVE  Side(e, d, lo2, r2)
<1>1. At(r) <= At(r2) /\ At(r) \in Int /\ At(r2) \in Int
  <2>1. r \in Int /\ r2 \in Int
    OBVIOUS
  <2>2. At(r) <= At(r2)
    BY <2>1, AtOrder
  <2>. QED  BY <2>1, <2>2, AtIs
<1>2. e.end \in Int
  BY DEF Event
<1>. QED  BY <1>1, <1>2 DEF Side

(* Evaluating a frame touches its destination only.                        *)
LEMMA EvaluatedElse ==
  ASSUME NEW e \in Event, NEW f \in Frame, f.dest \in Dests
  PROVE  LET x == Evaluated(e, f)
         IN  /\ x.trg = e.trg /\ x.beg = e.beg /\ x.end = e.end
             /\ \A c : c # f.dest => (c \in x.ctbs <=> c \in e.ctbs)
             /\ \A c \in Dests : c # f.dest => x.list[c] = e.list[c]
<1>1. e.list \in [Dests -> Seq(Frame)]
  BY DEF Event
<1>. DEFINE a == Added(e, f)  y == IF Inside(e, f) THEN a ELSE e
<1>2. /\ a.trg = e.trg /\ a.beg = e.beg /\ a.end = e.end /\ a.ctbs = e.ctbs
      /\ a \in Event
      /\ \A c \in Dests : c # f.dest => a.list[c] = e.list[c]
  BY <1>1, AddedType DEF Added, Event
<1>. HIDE DEF a
<1>3. /\ y.trg = e.trg /\ y.beg = e.beg /\ y.end = e.end /\ y.ctbs = e.ctbs
      /\ y \in Event
      /\ \A c \in Dests : c # f.dest => y.list[c] = e.list[c]
  BY <1>2
<1>4. LET z == Closed(y, f.dest)
      IN  /\ z.trg = y.trg /\ z.beg = y.beg /\ z.end = y.end
          /\ z.list = y.list /\ z.ctbs = y.ctbs \ {f.dest}
  BY <1>3 DEF Closed, Event
<1>5. Evaluated(e, f) = IF ~Pending(e, f) THEN e
                        ELSE IF Completes(e, f) THEN Closed(y, f.dest) ELSE y
  BY DEF Evaluated, a
<1>. HIDE DEF y
<1>. QED  BY <1>3, <1>4, <1>5

(* The next frame of a destination from which an event still gathers.      *)
LEMMA EvaluatedRun ==
  ASSUME NEW e \in Event, e.beg < e.end, 0 < e.end, NEW d \in Dests, d \in e.ctbs,
         NEW r \in Nat, Gathers(e, d, r)
  PROVE  LET f == FrameOf(d, r)
             x == Evaluated(e, f)
         IN  /\ Side(x, d, r + 1, r + 1)
             /\ At(r) < e.end
             /\ ~ToLatency(e, f)
             /\ ToSet(e.list[d]) \subseteq ToSet(x.list[d])
             /\ f \in ToSet(x.list[d]) \/ ToFree(e, f)
<1>. DEFINE f == FrameOf(d, r)
            x == Evaluated(e, f)
            k == r + 1
<1>1. PICK a \in Nat : /\ a <= r /\ e.list[d] = Run(d, a, r)
                       /\ At(a) <= Max2(0, e.beg)
                       /\ a < r => e.beg <= At(a + 1) /\ At(r) < e.end
  BY DEF Gathers
<1>2. /\ Early(e, f) <=> At(k) < e.beg
      /\ Late(e, f) <=> e.end < At(r)
      /\ Inside(e, f) <=> e.beg <= At(k) /\ At(r) <= e.end
      /\ Completes(e, f) <=> e.end <= At(k)
      /\ e.beg \in Int /\ e.end \in Int
      /\ At(r) \in Nat /\ At(k) = At(r) + FrameTicks
  BY FrameIn
<1>3. FrameTicks \in Nat \ {0} /\ k \in Nat /\ a <= k
  BY <1>1, RxAssumption
<1>4. f \in Frame /\ f.dest = d
  BY FrameOfIs
<1>5. e.list \in [Dests -> Seq(Frame)]
  BY DEF Event
<1>6. Append(Run(d, a, r), f) = Run(d, a, k)
  BY <1>1, RunGrows
<1>7. x.beg = e.beg /\ x.end = e.end
  BY <1>4, EvaluatedElse
<1>8. At(r) < e.end
  <2>1. CASE a < r
    BY <1>1, <2>1
  <2>2. CASE ~(a < r)
    <3>1. a = r
      BY <1>1, <2>2
    <3>. QED  BY <1>1, <1>2, <3>1 DEF Max2
  <2>. QED  BY <2>1, <2>2
<1>9. ~ToLatency(e, f) /\ Pending(e, f)
  BY <1>2, <1>4, <1>8 DEF ToLatency, Pending
<1>. HIDE DEF f, k
<1>10. CASE ~Inside(e, f)
  <2>1. At(k) < e.beg /\ Early(e, f) /\ ~Completes(e, f)
    BY <1>2, <1>3, <1>8, <1>10
  <2>2. x = e
    BY <1>9, <1>10, <2>1 DEF Evaluated
  <2>3. a = r
    <3>. SUFFICES ASSUME a < r PROVE FALSE
      BY <1>1
    <3>1. a + 1 \in Int /\ k \in Int /\ a + 1 <= k
      BY <1>1, <1>3 DEF k
    <3>2. At(a + 1) <= At(k) /\ At(a + 1) \in Int /\ At(k) \in Int
      BY <3>1, AtOrder, AtIs
    <3>. QED  BY <1>1, <1>2, <2>1, <3>2
  <2>4. x.list[d] = Run(d, k, k) /\ x.list[d] = e.list[d]
    BY <1>1, <1>3, <2>2, <2>3, RunEmpty
  <2>5. At(k) <= Max2(0, e.beg)
    BY <1>2, <1>3, <2>1 DEF Max2
  <2>6. Gathers(x, d, k)
    <3>1. k <= k /\ ~(k < k)
      BY <1>3
    <3>2. At(k) <= Max2(0, x.beg)
      BY <1>7, <2>5
    <3>. HIDE DEF x
    <3>. QED  BY <1>3, <2>4, <3>1, <3>2 DEF Gathers
  <2>7. Side(x, d, k, k)
    BY <2>2, <2>6 DEF Side
  <2>8. ToFree(e, f)
    BY <1>9, <2>1 DEF ToFree
  <2>. QED  BY <1>8, <1>9, <2>4, <2>7, <2>8 DEF f, k
<1>11. CASE Inside(e, f)
  <2>. DEFINE y == Added(e, f)
  <2>1. /\ y.list[d] = Run(d, a, k) /\ y.ctbs = e.ctbs
    BY <1>1, <1>4, <1>5, <1>6 DEF Added, Event
  <2>2. Closed(y, d).list = y.list /\ Closed(y, d).ctbs = y.ctbs \ {d}
    <3>1. y \in Event
      BY <1>4, AddedType
    <3>. QED  BY <3>1 DEF Closed, Event
  <2>. HIDE DEF y
  <2>3. x = IF Completes(e, f) THEN Closed(y, d) ELSE y
    BY <1>4, <1>9, <1>11 DEF Evaluated, y
  <2>4. x.list[d] = Run(d, a, k)
    BY <2>1, <2>2, <2>3
  <2>5. ToSet(x.list[d]) = ToSet(e.list[d]) \union {f}
    <3>1. Run(d, a, r) \in Seq(Frame)
      BY <1>1, RunIs
    <3>2. ToSet(Append(Run(d, a, r), f)) = ToSet(Run(d, a, r)) \union {f}
      BY <3>1, ToSetAppend
    <3>. QED  BY <1>1, <1>6, <2>4, <3>2
  <2>6. Side(x, d, k, k)
    <3>1. CASE Completes(e, f)
      <4>1. d \notin x.ctbs
        BY <2>2, <2>3, <3>1
      <4>2. a < k
        BY <1>1 DEF k
      <4>3. Covers(x, d) /\ x.end <= At(k)
        BY <1>1, <1>2, <1>3, <1>7, <2>4, <3>1, <4>2 DEF Covers
      <4>. QED  BY <4>1, <4>3 DEF Side
    <3>2. CASE ~Completes(e, f)
      <4>1. d \in x.ctbs
        BY <2>1, <2>3, <3>2
      <4>2. At(k) < e.end
        BY <1>2, <1>3, <3>2
      <4>3. e.beg <= At(a + 1)
        <5>1. CASE a < r
          BY <1>1, <5>1
        <5>2. CASE ~(a < r)
          <6>1. a + 1 = k
            BY <1>1, <5>2 DEF k
          <6>. QED  BY <1>2, <1>11, <6>1
        <5>. QED  BY <5>1, <5>2
      <4>4. Gathers(x, d, k)
        BY <1>1, <1>3, <1>7, <2>4, <4>2, <4>3 DEF Gathers
      <4>. QED  BY <4>1, <4>4 DEF Side
    <3>. QED  BY <3>1, <3>2
  <2>. QED  BY <1>8, <1>9, <2>5, <2>6 DEF f, k
<1>. QED  BY <1>10, <1>11

(* Any other frame goes to the latency list.                               *)
LEMMA EvaluatedNot ==
  ASSUME NEW e, NEW f, f.dest \notin e.ctbs
  PROVE  Evaluated(e, f) = e /\ ToLatency(e, f) /\ ~ToFree(e, f)
BY DEF Evaluated, ToLatency, ToFree, Pending

(* The frames of a destination that are in the events A.                   *)
Taken(A, d) == UNION {ToSet(A[i].list[d]) : i \in DOMAIN A}

(* Every event of A has the frames of its window, of every destination.    *)
Full(A) == \A i \in DOMAIN A, d \in Dests : Covers(A[i], d)

(* What an event in progress has, of every destination.                    *)
Sides(e, lo, r) == \A d \in Dests : Side(e, d, lo[d], r[d])

(* Latency lists with the frames from number lo up to number r.            *)
Chains(lat, rem, lo, r) ==
  \A d \in Dests : /\ lo[d] <= r[d]
                   /\ lat[d] = Chain(d, lo[d], r[d])
                   /\ rem[d] = Depth - (r[d] - lo[d])

(* A frame number for each destination.                                    *)
Numbers == [Dests -> Nat]

(* What one more event adds to the events that are posted.                 *)
LEMMA TakenAppend ==
  ASSUME NEW P \in Seq(Event), NEW e \in Event, NEW d
  PROVE  /\ Taken(Append(P, e), d) = Taken(P, d) \union ToSet(e.list[d])
         /\ Len(Append(P, e)) = Len(P) + 1
         /\ Full(P) /\ (\A c \in Dests : Covers(e, c)) => Full(Append(P, e))
<1>. DEFINE n == Len(P)  B == Append(P, e)
<1>1. /\ DOMAIN P = 1 .. n /\ DOMAIN B = 1 .. n + 1 /\ n \in Nat /\ Len(B) = n + 1
      /\ \A i \in DOMAIN B : i \in 1 .. n \/ i = n + 1
      /\ B[n + 1] = e /\ \A i \in 1 .. n : B[i] = P[i] /\ i \in DOMAIN B
      /\ n + 1 \in DOMAIN B
  OBVIOUS
<1>. HIDE DEF n, B
<1>2. Taken(B, d) = Taken(P, d) \union ToSet(e.list[d])
  <2>1. ASSUME NEW f \in Taken(B, d) PROVE f \in Taken(P, d) \union ToSet(e.list[d])
    <3>1. PICK i \in DOMAIN B : f \in ToSet(B[i].list[d])
      BY DEF Taken
    <3>2. CASE i = n + 1
      BY <1>1, <3>1, <3>2
    <3>3. CASE i \in 1 .. n
      BY <1>1, <3>1, <3>3 DEF Taken
    <3>. QED  BY <1>1, <3>2, <3>3
  <2>2. ASSUME NEW f \in Taken(P, d) PROVE f \in Taken(B, d)
    <3>1. PICK i \in DOMAIN P : f \in ToSet(P[i].list[d])
      BY DEF Taken
    <3>. QED  BY <1>1, <3>1 DEF Taken
  <2>3. ToSet(e.list[d]) \subseteq Taken(B, d)
    BY <1>1 DEF Taken
  <2>. QED  BY <2>1, <2>2, <2>3
<1>3. Full(P) /\ (\A c \in Dests : Covers(e, c)) => Full(B)
  BY <1>1 DEF Full
<1>. QED  BY <1>1, <1>2, <1>3 DEF B, n

(* Once an event has been looked at it is in progress or on its way, with  *)
(* all its frames.                                                         *)
LEMMA SettleGoes ==
  ASSUME IInv, NEW e \in Event, NEW enabled, Settle(e, enabled), UNCHANGED sending,
         Len(txReqQueue) < TxSlots, Full(Posted),
         NEW lo, NEW r, Sides(e, lo, r)
  PROVE  /\ Full(Posted')
         /\ Len(AllEvents') = Len(Posted) + 1
         /\ \A d : Taken(AllEvents', d) = Taken(Posted, d) \union ToSet(e.list[d])
         /\ \/ event' = e
            \/ /\ event' = NoEvent /\ "timing" \in fds'
               /\ e.ctbs = {} /\ \A d \in Dests : e.end <= At(r[d])
<1>. DEFINE p == [e EXCEPT !.ctbs = Dests \ @]
<1>1. /\ sending \in Event \union {NoEvent} /\ txReqQueue \in Seq(Event)
      /\ Posted \in Seq(Event) /\ e # NoEvent
  BY EventsNow, NoEventAssumption DEF IInv, TypeOK
<1>2. p \in Event /\ p.beg = e.beg /\ p.end = e.end /\ p.list = e.list
  BY DEF Event
<1>. HIDE DEF p
<1>3. CASE ~Complete(e)
  <2>1. event' = e /\ txReqQueue' = txReqQueue
    BY <1>3 DEF Settle
  <2>2. AllEvents' = Posted \o Ev(e) /\ Posted' = Posted
    BY <2>1 DEF AllEvents, Posted
  <2>3. AllEvents' = Append(Posted, e)
    BY <1>1, <2>2, ChainActive
  <2>. QED  BY <1>1, <2>1, <2>2, <2>3, TakenAppend
<1>4. CASE Complete(e)
  <2>1. /\ event' = NoEvent /\ txReqQueue' = Append(txReqQueue, p)
        /\ "timing" \in fds' /\ e.ctbs = {}
    BY <1>4 DEF Settle, Post, p, Complete
  <2>2. Posted' = Append(Posted, p)
    BY <1>1, <1>2, <2>1, ChainPost DEF Posted
  <2>3. AllEvents' = Posted'
    <3>1. txReqQueue' \in Seq(Event)
      BY <1>1, <1>2, <2>1
    <3>2. AllEvents' = (Ev(sending) \o txReqQueue') \o Ev(NoEvent)
      BY <2>1 DEF AllEvents, Posted
    <3>3. Posted' = Ev(sending) \o txReqQueue'
      BY DEF Posted
    <3>. QED  BY <1>1, <3>1, <3>2, <3>3, ChainIdle
  <2>4. \A d \in Dests : Covers(e, d) /\ e.end <= At(r[d])
    BY <2>1 DEF Sides, Side
  <2>5. \A d \in Dests : Covers(p, d)
    BY <1>2, <2>4 DEF Covers
  <2>6. /\ Full(Append(Posted, p)) /\ Len(Append(Posted, p)) = Len(Posted) + 1
        /\ \A d : Taken(Append(Posted, p), d) = Taken(Posted, d) \union ToSet(p.list[d])
    BY <1>1, <1>2, <2>5, TakenAppend
  <2>. QED  BY <1>2, <2>1, <2>2, <2>3, <2>4, <2>6
<1>. QED  BY <1>3, <1>4

(* A span in two parts, and one with a frame more.                         *)
LEMMA SpanParts ==
  ASSUME NEW d, NEW a \in Nat, NEW b \in Nat, NEW c \in Nat
  PROVE  /\ Span(d, a, c) \subseteq Span(d, a, b) \union Span(d, b, c)
         /\ a <= b => Span(d, a, b + 1) = Span(d, a, b) \union {FrameOf(d, b)}
         /\ Span(d, a, a + 1) = {FrameOf(d, a)} /\ Span(d, a, a) = {}
<1>1. \A k \in a .. c - 1 : k \in a .. b - 1 \/ k \in b .. c - 1
  OBVIOUS
<1>2. a <= b => a .. (b + 1) - 1 = (a .. b - 1) \union {b}
  OBVIOUS
<1>3. a .. (a + 1) - 1 = {a} /\ a .. a - 1 = {}
  OBVIOUS
<1>. QED  BY <1>1, <1>2, <1>3 DEF Span

(* The numbers of the next frames after one of d is read.                  *)
Up(f, d) == [f EXCEPT ![d] = @ + 1]

(* The latency lists after a frame of d went to its own: they begin at     *)
(* lo2, and what the list gave up was returned, with gone.                 *)
PutTo(lo, lo2, r, d, gone) ==
  /\ lo2 \in Numbers /\ lo2[d] <= r[d] + 1
  /\ \A c \in Dests : c # d => lo2[c] = lo[c]
  /\ Chains(latency', remaining', lo2, Up(r, d))
  /\ held' = held \ (gone \union Span(d, lo[d], lo2[d]))
  /\ \A end \in Int : (\A c \in Dests : Reach(lo[c], r[c], end))
                       => \A c \in Dests : Reach(lo2[c], Up(r, d)[c], end)

(* One frame more of d is read, of the others none.                        *)
LEMMA UpIs ==
  ASSUME NEW r \in Numbers, NEW d \in Dests
  PROVE  /\ Up(r, d) \in Numbers /\ Up(r, d)[d] = r[d] + 1
         /\ \A c \in Dests : c # d => Up(r, d)[c] = r[c]
         /\ \A c \in Dests : r[c] <= Up(r, d)[c] /\ At(r[c]) <= At(Up(r, d)[c])
<1>1. /\ Up(r, d) \in Numbers /\ Up(r, d)[d] = r[d] + 1
      /\ \A c \in Dests : c # d => Up(r, d)[c] = r[c]
      /\ \A c \in Dests : r[c] \in Nat
  BY DEF Up, Numbers
<1>2. ASSUME NEW c \in Dests PROVE r[c] <= Up(r, d)[c] /\ At(r[c]) <= At(Up(r, d)[c])
  <2>1. r[c] <= Up(r, d)[c] /\ r[c] \in Int /\ Up(r, d)[c] \in Int
    <3>1. r[c] \in Nat
      BY <1>1
    <3>2. CASE c = d
      BY <1>1, <3>1, <3>2
    <3>3. CASE c # d
      BY <1>1, <3>1, <3>3
    <3>. QED  BY <3>2, <3>3
  <2>. QED  BY <2>1, AtOrder
<1>. QED  BY <1>1, <1>2

(* A frame that is read goes to its latency list.                          *)
LEMMA PutRun ==
  ASSUME NEW lat, NEW rem, Lists(lat, rem), NEW lo \in Numbers, NEW r \in Numbers,
         Chains(lat, rem, lo, r), NEW d \in Dests, NEW gone,
         PutOnLatency(FrameOf(d, r[d]), lat, rem, gone)
  PROVE  \E lo2 : PutTo(lo, lo2, r, d, gone)
<1>. DEFINE f == FrameOf(d, r[d])
            x == Replaced(lat[d], rem[d], f)
            r2 == Up(r, d)
<1>1. /\ lo[d] \in Nat /\ r[d] \in Nat /\ lo[d] <= r[d] /\ lat[d] = Chain(d, lo[d], r[d])
      /\ rem[d] = Depth - (r[d] - lo[d]) /\ rem[d] \in Nat
  BY DEF Chains, Lists, Numbers
<1>2. PICK n \in Nat :
        /\ lo[d] <= n /\ n <= r[d] + 1
        /\ x.list = Chain(d, n, r[d] + 1) /\ x.rem = Depth - ((r[d] + 1) - n)
        /\ x.free = Span(d, lo[d], n)
        /\ \A end \in Int : Reach(lo[d], r[d], end) => Reach(n, r[d] + 1, end)
  <2>1. PICK a \in Nat, b \in Nat, k \in Nat : a = lo[d] /\ b = r[d] /\ k = rem[d]
    BY <1>1
  <2>2. a <= b /\ k = Depth - (b - a) /\ x = Replaced(Chain(d, a, b), k, FrameOf(d, b))
    BY <1>1, <2>1
  <2>. HIDE DEF x
  <2>3. \E n \in Nat : /\ a <= n /\ n <= b + 1
                       /\ x.list = Chain(d, n, b + 1) /\ x.rem = Depth - ((b + 1) - n)
                       /\ x.free = Span(d, a, n)
                       /\ \A end \in Int : Reach(a, b, end) => Reach(n, b + 1, end)
    BY <2>2, ReplacedRun
  <2>. QED  BY <2>1, <2>3
<1>3. f.dest = d
  BY <1>1, FrameOfIs
<1>4. /\ latency' = [lat EXCEPT ![d] = x.list]
      /\ remaining' = [rem EXCEPT ![d] = x.rem]
      /\ held' = held \ (gone \union x.free)
  BY <1>3 DEF PutOnLatency
<1>. HIDE DEF x, f
<1>. DEFINE lo2 == [lo EXCEPT ![d] = n]
<1>5. /\ lo2 \in Numbers /\ lo2[d] = n /\ r2[d] = r[d] + 1
      /\ \A c \in Dests : c # d => lo2[c] = lo[c] /\ r2[c] = r[c]
  BY UpIs DEF Numbers
<1>6. /\ latency'[d] = x.list /\ remaining'[d] = x.rem
      /\ \A c \in Dests : c # d => latency'[c] = lat[c] /\ remaining'[c] = rem[c]
  BY <1>4 DEF Lists
<1>. HIDE DEF lo2, r2
<1>7. Chains(latency', remaining', lo2, r2)
  BY <1>2, <1>5, <1>6 DEF Chains
<1>8. \A end \in Int : (\A c \in Dests : Reach(lo[c], r[c], end))
                       => \A c \in Dests : Reach(lo2[c], r2[c], end)
  BY <1>2, <1>5
<1>9. PutTo(lo, lo2, r, d, gone)
  BY <1>2, <1>4, <1>5, <1>7, <1>8 DEF r2, PutTo
<1>. QED  BY <1>9

(* What a frame of d that is read does while event e is in progress: the   *)
(* event stays or is posted.                                               *)
OfferedEvent(e, lo2, r, d) ==
  /\ Full(Posted') /\ Len(AllEvents') = Len(Posted) + 1 /\ exited' = FALSE
  /\ \/ /\ event' # NoEvent /\ Sides(event', lo2, Up(r, d))
        /\ event'.trg = e.trg /\ event'.beg = e.beg /\ event'.end = e.end
     \/ /\ event' = NoEvent /\ "timing" \in fds' /\ At(r[d]) < e.end
        /\ \A c \in Dests : e.end <= At(Up(r, d)[c])

(* A frame that is not returned is still in an event, on a latency list,   *)
(* or yet to be read.                                                      *)
Stays(e, lo, lo2, gone) ==
  /\ held' \subseteq held \ gone
  /\ \A c \in Dests, m \in Nat, g \in held' :
       g \in Span(c, lo[c], m) \union Taken(Posted, c) \union ToSet(e.list[c])
         => g \in Span(c, lo2[c], m) \union Taken(AllEvents', c)

(* Both, with the latency lists that go with them.                         *)
OfferedTo(e, lo, lo2, r, d, gone) ==
  /\ lo2 \in Numbers
  /\ Chains(latency', remaining', lo2, Up(r, d))
  /\ \A c \in Dests : Reach(lo2[c], Up(r, d)[c], e.end)
  /\ OfferedEvent(e, lo2, r, d)
  /\ Stays(e, lo, lo2, gone)

(* A frame that is read while an event is in progress.                     *)
LEMMA OfferRun ==
  ASSUME IInv, NEW e \in Event, Counted(e), e.beg < e.end, 0 < e.end, e.ctbs # {},
         NEW lat, NEW rem, Lists(lat, rem), NEW lo \in Numbers, NEW r \in Numbers,
         Chains(lat, rem, lo, r), Sides(e, lo, r),
         \A c \in Dests : Reach(lo[c], r[c], e.end),
         NEW d \in Dests, NEW gone, Offer(e, FrameOf(d, r[d]), lat, rem, gone),
         UNCHANGED sending, Len(txReqQueue) < TxSlots, Full(Posted)
  PROVE  \E lo2 : OfferedTo(e, lo, lo2, r, d, gone)
<1>. DEFINE k   == r[d]
            f   == FrameOf(d, k)
            x   == Evaluated(e, f)
            r2  == Up(r, d)
            Lo(n) == [lo EXCEPT ![d] = n]
<1>1. k \in Nat /\ f \in Frame /\ f.dest = d /\ lo[d] \in Nat /\ lo[d] <= k
  BY FrameOfIs DEF Numbers, Chains
<1>2. /\ r2[d] = k + 1 /\ r2 \in Numbers
      /\ \A c \in Dests : c # d => r2[c] = r[c]
      /\ \A n \in Nat : /\ Lo(n)[d] = n
                        /\ \A c \in Dests : c # d => Lo(n)[c] = lo[c]
  BY <1>1, UpIs DEF Numbers
<1>3. /\ x.trg = e.trg /\ x.beg = e.beg /\ x.end = e.end
      /\ \A c : c # d => (c \in x.ctbs <=> c \in e.ctbs)
      /\ \A c \in Dests : c # d => x.list[c] = e.list[c]
  BY <1>1, EvaluatedElse
<1>4. x \in Event /\ Counted(x) /\ x # NoEvent
  BY <1>1, EvaluatedFacts, NoEventAssumption
<1>5. Settle(x, Rearmed)
  BY DEF Offer
<1>6. exited' = FALSE
  <2>1. Rearmed \subseteq {"timing", "data"}
    BY DEF Rearmed, IInv, TypeOK
  <2>. HIDE DEF x
  <2>. QED  BY <1>4, <1>5, <2>1, SettleFacts
<1>7. IF ToLatency(e, f) THEN PutOnLatency(f, lat, rem, gone)
      ELSE /\ latency' = lat /\ remaining' = rem
           /\ held' = held \ (gone \union (IF ToFree(e, f) THEN {f} ELSE {}))
  BY DEF Offer
<1>8. \A c \in Dests : Side(e, c, lo[c], r[c])
  BY DEF Sides
<1>9. \A c \in Dests : c # d => Side(x, c, lo[c], r[c])
  <2>. HIDE DEF x
  <2>. QED  BY <1>3, <1>8, SideAlike
<1>. HIDE DEF f, x, r2, Lo
(* What is left to show of the new beginning of the latency list.          *)
<1>. DEFINE Good(n) ==
       /\ n \in Nat /\ n <= k + 1
       /\ Chains(latency', remaining', Lo(n), r2)
       /\ \A c \in Dests : Reach(Lo(n)[c], r2[c], e.end)
       /\ Side(x, d, n, k + 1)
       /\ d \in e.ctbs => At(k) < e.end
       /\ held' \subseteq held \ gone
       /\ \A m \in Nat, g \in held' :
            g \in Span(d, lo[d], m) \union ToSet(e.list[d])
              => g \in Span(d, n, m) \union ToSet(x.list[d])
<1>10. ASSUME d \in e.ctbs PROVE Good(k + 1)
  <2>1. lo[d] = k /\ Gathers(e, d, k)
    BY <1>8, <1>10 DEF Side
  <2>2. /\ Side(x, d, k + 1, k + 1)
        /\ At(k) < e.end
        /\ ~ToLatency(e, f)
        /\ ToSet(e.list[d]) \subseteq ToSet(x.list[d])
        /\ f \in ToSet(x.list[d]) \/ ToFree(e, f)
    BY <1>1, <1>10, <2>1, EvaluatedRun DEF x, f
  <2>3. /\ latency' = lat /\ remaining' = rem
        /\ held' = held \ (gone \union (IF ToFree(e, f) THEN {f} ELSE {}))
    BY <1>7, <2>2
  <2>4. k + 1 \in Nat /\ k + 1 <= k + 1 /\ Depth \in Nat /\ k - k = 0 /\ (k + 1) - (k + 1) = 0
    BY <1>1, RxAssumption
  <2>5. Chains(latency', remaining', Lo(k + 1), r2)
    <3>1. Chain(d, k, k) = Chain(d, k + 1, k + 1)
      <4>1. Run(d, k, k) = << >> /\ Run(d, k + 1, k + 1) = << >>
        BY <1>1, <2>4, RunEmpty
      <4>. QED  BY <4>1 DEF Chain
    <3>2. lat[d] = Chain(d, k + 1, k + 1) /\ rem[d] = Depth - ((k + 1) - (k + 1))
      BY <2>1, <2>4, <3>1 DEF Chains
    <3>3. Lo(k + 1)[d] = k + 1 /\ \A c \in Dests : c # d => Lo(k + 1)[c] = lo[c]
      BY <1>2, <2>4
    <3>. QED  BY <1>2, <2>3, <2>4, <3>2, <3>3 DEF Chains
  <2>6. \A c \in Dests : Reach(Lo(k + 1)[c], r2[c], e.end)
    <3>1. At(k + 1) = At(k) + FrameTicks /\ At(k) \in Nat /\ FrameTicks \in Nat
      <4>. HIDE DEF k
      <4>1. k \in Nat /\ k \in Int
        BY <1>1
      <4>. QED  BY <4>1, AtIs
    <3>2. e.end \in Int
      BY DEF Event
    <3>3. At(k + 1) < e.end + FrameTicks
      BY <2>2, <3>1, <3>2
    <3>4. Lo(k + 1)[d] = k + 1 /\ \A c \in Dests : c # d => Lo(k + 1)[c] = lo[c]
      BY <1>2, <2>4
    <3>. QED  BY <1>2, <3>3, <3>4 DEF Reach
  <2>7. ASSUME NEW m \in Nat, NEW g \in held',
               g \in Span(d, lo[d], m) \union ToSet(e.list[d])
        PROVE  g \in Span(d, k + 1, m) \union ToSet(x.list[d])
    <3>1. Span(d, k, m) \subseteq {f} \union Span(d, k + 1, m)
      <4>1. /\ Span(d, k, m) \subseteq Span(d, k, k + 1) \union Span(d, k + 1, m)
            /\ Span(d, k, k + 1) = {FrameOf(d, k)}
        BY <1>1, <2>4, SpanParts
      <4>. QED  BY <4>1 DEF f
    <3>2. g = f => g \in ToSet(x.list[d])
      BY <2>2, <2>3, <2>7
    <3>. QED  BY <2>1, <2>2, <2>7, <3>1, <3>2
  <2>. QED  BY <2>2, <2>3, <2>4, <2>5, <2>6, <2>7
<1>11. ASSUME d \notin e.ctbs PROVE \E n \in Nat : Good(n)
  <2>1. x = e /\ PutOnLatency(f, lat, rem, gone)
    <3>1. x = e /\ ToLatency(e, f)
      BY <1>1, <1>11, EvaluatedNot DEF x
    <3>. QED  BY <1>7, <3>1
  <2>2. PICK lo2 : PutTo(lo, lo2, r, d, gone)
    <3>1. PutOnLatency(FrameOf(d, r[d]), lat, rem, gone)
      BY <2>1 DEF f
    <3>. QED  BY <3>1, PutRun
  <2>. DEFINE n == lo2[d]
  <2>9. /\ n \in Nat /\ n <= k + 1
        /\ Chains(latency', remaining', lo2, r2)
        /\ held' = held \ (gone \union Span(d, lo[d], n))
        /\ \A end \in Int : (\A c \in Dests : Reach(lo[c], r[c], end))
                            => \A c \in Dests : Reach(lo2[c], r2[c], end)
        /\ \A c \in Dests : c # d => lo2[c] = lo[c]
    BY <2>2 DEF r2, PutTo, Numbers
  <2>. HIDE DEF n
  <2>10. lo2 = Lo(n)
    <3>1. lo2 \in Numbers /\ Lo(n) \in Numbers
      BY <2>2, <2>9 DEF Lo, Numbers, PutTo
    <3>2. \A c \in Dests : lo2[c] = Lo(n)[c]
      BY <1>2, <2>9 DEF n
    <3>. QED  BY <3>1, <3>2 DEF Numbers
  <2>3. \A c \in Dests : Reach(Lo(n)[c], r2[c], e.end)
    <3>1. e.end \in Int
      BY DEF Event
    <3>. QED  BY <2>9, <2>10, <3>1
  <2>4. Side(x, d, n, k + 1)
    <3>1. Side(e, d, lo[d], k) /\ k + 1 \in Nat /\ k <= k + 1
      BY <1>1, <1>8
    <3>. QED  BY <1>1, <1>11, <2>1, <3>1, SideLater
  <2>5. ASSUME NEW m \in Nat, NEW g \in held',
               g \in Span(d, lo[d], m) \union ToSet(e.list[d])
        PROVE  g \in Span(d, n, m) \union ToSet(x.list[d])
    <3>1. Span(d, lo[d], m) \subseteq Span(d, lo[d], n) \union Span(d, n, m)
      BY <1>1, <2>9, SpanParts
    <3>. QED  BY <2>1, <2>5, <2>9, <3>1
  <2>6. held' \subseteq held \ gone
    BY <2>9
  <2>7. Good(n)
    BY <1>11, <2>3, <2>4, <2>5, <2>6, <2>9, <2>10
  <2>. QED  BY <2>7, <2>9
<1>. HIDE DEF Good
<1>12. PICK n \in Nat : Good(n)
  BY <1>1, <1>10, <1>11
<1>13. /\ n <= k + 1
       /\ Chains(latency', remaining', Lo(n), r2)
       /\ \A c \in Dests : Reach(Lo(n)[c], r2[c], e.end)
       /\ Side(x, d, n, k + 1)
       /\ d \in e.ctbs => At(k) < e.end
       /\ held' \subseteq held \ gone
  BY <1>12 DEF Good
<1>14. Sides(x, Lo(n), r2)
  BY <1>2, <1>9, <1>13 DEF Sides
<1>15. /\ Full(Posted')
       /\ Len(AllEvents') = Len(Posted) + 1
       /\ \A c : Taken(AllEvents', c) = Taken(Posted, c) \union ToSet(x.list[c])
       /\ \/ event' = x
          \/ /\ event' = NoEvent /\ "timing" \in fds'
             /\ x.ctbs = {} /\ \A c \in Dests : x.end <= At(r2[c])
  BY <1>4, <1>5, <1>14, SettleGoes
<1>16. \/ /\ event' # NoEvent /\ Sides(event', Lo(n), r2)
          /\ event'.trg = e.trg /\ event'.beg = e.beg /\ event'.end = e.end
       \/ /\ event' = NoEvent /\ "timing" \in fds' /\ At(k) < e.end
          /\ \A c \in Dests : e.end <= At(r2[c])
  <2>1. CASE event' = x
    BY <1>3, <1>4, <1>14, <2>1
  <2>2. CASE event' = NoEvent /\ "timing" \in fds'
             /\ x.ctbs = {} /\ \A c \in Dests : x.end <= At(r2[c])
    <3>1. d \in e.ctbs
      BY <1>3, <2>2
    <3>. QED  BY <1>3, <1>13, <2>2, <3>1
  <2>. QED  BY <1>15, <2>1, <2>2
<1>17. ASSUME NEW c \in Dests, NEW m \in Nat, NEW g \in held',
              g \in Span(c, lo[c], m) \union Taken(Posted, c) \union ToSet(e.list[c])
       PROVE  g \in Span(c, Lo(n)[c], m) \union Taken(AllEvents', c)
  <2>1. CASE c = d
    <3>1. g \in Span(d, lo[d], m) \union ToSet(e.list[d])
             => g \in Span(d, n, m) \union ToSet(x.list[d])
      BY <1>12 DEF Good
    <3>. QED  BY <1>2, <1>15, <1>17, <2>1, <3>1
  <2>2. CASE c # d
    BY <1>2, <1>3, <1>15, <1>17, <2>2
  <2>. QED  BY <2>1, <2>2
<1>18. Lo(n) \in Numbers
  BY <1>12 DEF Lo, Numbers, Good
<1>19. OfferedEvent(e, Lo(n), r, d)
  BY <1>6, <1>15, <1>16 DEF OfferedEvent, r2
<1>20. Stays(e, lo, Lo(n), gone)
  BY <1>13, <1>17 DEF Stays
<1>21. OfferedTo(e, lo, Lo(n), r, d, gone)
  BY <1>13, <1>18, <1>19, <1>20 DEF OfferedTo, r2
<1>. QED  BY <1>21

(* What seeding does to the latency lists: they begin at lo, and what they *)
(* lost was returned or is in the event.                                   *)
SeededTo(e, low, lo, r) ==
  LET s == Seed(e)
  IN  /\ lo \in Numbers
      /\ Chains(s.latency, s.remaining, lo, r)
      /\ Sides(s.event, lo, r)
      /\ \A d \in Dests : Reach(lo[d], r[d], e.end)
      /\ s.event.trg = e.trg /\ s.event.beg = e.beg /\ s.event.end = e.end
      /\ \A d \in Dests :
           Span(d, low[d], lo[d]) \subseteq s.free \union ToSet(s.event.list[d])

(* seedAndDrain of every destination, of latency lists that reach back to  *)
(* the beginning of the window: the event gets what they have of it, and   *)
(* what is before the window is returned.                                  *)
LEMMA SeedRun ==
  ASSUME IInv, NEW e \in Event, e.beg < e.end, 0 < e.end,
         NEW low \in Numbers, NEW r \in Numbers, Chains(latency, remaining, low, r),
         \A d \in Dests : At(low[d]) <= Max2(0, e.beg)
  PROVE  \E lo : SeededTo(e, low, lo, r)
<1>. DEFINE s(d) == Seeded(e, latency[d], remaining[d])
            P(d, n) == \E a : Sown(s(d), e, d, low[d], a, n, r[d])
            lo   == [d \in Dests |-> CHOOSE n : P(d, n)]
            t    == Seed(e)
            done == {d \in Dests : s(d).done}
<1>1. ASSUME NEW d \in Dests PROVE \E n : P(d, n)
  <2>1. /\ low[d] \in Nat /\ r[d] \in Nat /\ low[d] <= r[d]
        /\ latency[d] = Chain(d, low[d], r[d])
        /\ remaining[d] = Depth - (r[d] - low[d])
        /\ At(low[d]) <= Max2(0, e.beg)
    BY DEF Chains, Numbers
  <2>2. \E a, n : Sown(s(d), e, d, low[d], a, n, r[d])
    BY <2>1, SeededRun
  <2>. HIDE DEF s
  <2>. QED  BY <2>2
<1>2. \A d \in Dests : P(d, lo[d])
  <2>. HIDE DEF P
  <2>1. ASSUME NEW d \in Dests PROVE P(d, CHOOSE n : P(d, n))
    BY <1>1
  <2>. QED  BY <2>1
<1>3. /\ t.event = [e EXCEPT !.ctbs = Dests \ done, !.nctbs = Cardinality(done),
                             !.list = [d \in Dests |-> s(d).add]]
      /\ t.latency = [d \in Dests |-> s(d).list]
      /\ t.remaining = [d \in Dests |-> s(d).rem]
      /\ t.free = UNION {s(d).free : d \in Dests}
  BY DEF Seed
<1>4. /\ t.event.trg = e.trg /\ t.event.beg = e.beg /\ t.event.end = e.end
      /\ t.event.ctbs = Dests \ done
      /\ t.event.list = [d \in Dests |-> s(d).add]
  BY <1>3 DEF Event
<1>. HIDE DEF t
<1>. DEFINE Good(d) ==
       /\ lo[d] \in Nat /\ lo[d] <= r[d]
       /\ s(d).list = Chain(d, lo[d], r[d]) /\ s(d).rem = Depth - (r[d] - lo[d])
       /\ Side(t.event, d, lo[d], r[d])
       /\ Reach(lo[d], r[d], e.end)
       /\ Span(d, low[d], lo[d]) \subseteq s(d).free \union ToSet(s(d).add)
<1>5. ASSUME NEW d \in Dests PROVE Good(d)
  <2>. DEFINE n == lo[d]
  <2>1. PICK a : Sown(s(d), e, d, low[d], a, n, r[d])
    BY <1>2
  <2>. HIDE DEF n
  <2>2. /\ a \in Nat /\ n \in Nat
        /\ low[d] <= a /\ a <= n /\ n <= r[d]
        /\ s(d).list = Chain(d, n, r[d]) /\ s(d).rem = Depth - (r[d] - n)
        /\ s(d).add = Run(d, a, n) /\ s(d).free = Span(d, low[d], a)
        /\ At(a) <= Max2(0, e.beg) /\ At(n) < e.end + FrameTicks
        /\ a < n => e.beg <= At(a + 1)
        /\ s(d).done => a < n /\ e.end <= At(n)
        /\ ~s(d).done => n = r[d] /\ (a < r[d] => At(r[d]) < e.end)
    BY <2>1 DEF Sown
  <2>3. r[d] \in Nat /\ low[d] \in Nat /\ e.end \in Int
    BY DEF Numbers, Event
  <2>4. d \in t.event.ctbs <=> ~s(d).done
    BY <1>4
  <2>5. t.event.list[d] = s(d).add
    BY <1>4
  <2>. HIDE DEF s, done
  <2>6. ASSUME s(d).done PROVE Side(t.event, d, n, r[d])
    <3>1. Covers(t.event, d)
      BY <1>4, <2>2, <2>5, <2>6 DEF Covers
    <3>2. e.end <= At(r[d])
      <4>1. n \in Int /\ r[d] \in Int
        BY <2>2, <2>3
      <4>2. At(n) <= At(r[d]) /\ At(n) \in Int /\ At(r[d]) \in Int
        BY <2>2, <4>1, AtOrder, AtIs
      <4>. QED  BY <2>2, <2>3, <2>6, <4>2
    <3>. QED  BY <1>4, <2>4, <2>6, <3>1, <3>2 DEF Side
  <2>7. ASSUME ~s(d).done PROVE Side(t.event, d, n, r[d])
    <3>1. n = r[d] /\ Gathers(t.event, d, r[d])
      BY <1>4, <2>2, <2>5, <2>7 DEF Gathers
    <3>. QED  BY <2>4, <2>7, <3>1 DEF Side
  <2>8. Side(t.event, d, n, r[d])
    BY <2>6, <2>7
  <2>9. Reach(n, r[d], e.end)
    BY <2>2 DEF Reach
  <2>10. Span(d, low[d], n) \subseteq s(d).free \union ToSet(s(d).add)
    <3>1. Span(d, low[d], n) \subseteq Span(d, low[d], a) \union Span(d, a, n)
      BY <2>2, <2>3, SpanParts
    <3>2. ToSet(Run(d, a, n)) = Span(d, a, n)
      BY <2>2, RunIs
    <3>. QED  BY <2>2, <3>1, <3>2
  <2>. QED  BY <2>2, <2>8, <2>9, <2>10 DEF n
<1>6. lo \in Numbers
  <2>1. \A d \in Dests : lo[d] \in Nat
    BY <1>5
  <2>. HIDE DEF Good, P, s
  <2>. QED  BY <2>1 DEF Numbers
<1>. HIDE DEF lo, s, P, done
<1>7. Chains(t.latency, t.remaining, lo, r)
  BY <1>3, <1>5 DEF Chains
<1>8. Sides(t.event, lo, r) /\ \A d \in Dests : Reach(lo[d], r[d], e.end)
  BY <1>5 DEF Sides
<1>9. \A d \in Dests : Span(d, low[d], lo[d]) \subseteq t.free \union ToSet(t.event.list[d])
  <2>. TAKE d \in Dests
  <2>1. Span(d, low[d], lo[d]) \subseteq s(d).free \union ToSet(s(d).add)
    BY <1>5
  <2>2. t.event.list[d] = s(d).add
    BY <1>4
  <2>3. s(d).free \subseteq t.free
    BY <1>3
  <2>. QED  BY <2>1, <2>2, <2>3
<1>10. SeededTo(e, low, lo, r)
  BY <1>4, <1>6, <1>7, <1>8, <1>9 DEF SeededTo, t
<1>. QED  BY <1>10

(* While every event that was posted has a frame of every destination,     *)
(* there are fewer of them than event descriptors, and than places on the  *)
(* request queue: the buffers of the front end are used up before.         *)
LEMMA Room ==
  ASSUME IInv, StreamInv, Steady, Full(Posted),
         IsFiniteSet(held), Cardinality(held) <= Buffers
  PROVE  Len(Posted) < Events /\ Len(txReqQueue) < TxSlots
<1>. DEFINE n == Len(Posted)
            S == (1 .. n) \X Dests
            g == [x \in S |-> Posted[x[1]].list[x[2]][1]]
            D == Cardinality(Dests)
<1>1. Posted \in Seq(Event) /\ AllEvents \in Seq(Event)
      /\ \A i \in DOMAIN Posted : i \in DOMAIN AllEvents /\ AllEvents[i] = Posted[i]
  <2>1. /\ Posted \in Seq(Event) /\ AllEvents \in Seq(Event)
        /\ event = NoEvent => AllEvents = Posted
        /\ event # NoEvent => event \in Event /\ AllEvents = Append(Posted, event)
    BY EventsNow DEF IInv
  <2>2. CASE event = NoEvent
    BY <2>1, <2>2
  <2>3. CASE event # NoEvent
    <3>1. \A i \in DOMAIN Posted : /\ i \in DOMAIN Append(Posted, event)
                                  /\ Append(Posted, event)[i] = Posted[i]
      BY <2>1, <2>3
    <3>. QED  BY <2>1, <2>3, <3>1
  <2>. QED  BY <2>2, <2>3
<1>2. n \in Nat /\ DOMAIN Posted = 1 .. n
  BY <1>1
<1>3. D \in Nat \ {0}
  <2>1. D \in Nat /\ (D = 0 <=> Dests = {})
    BY RxAssumption, FS_CardinalityType, FS_EmptySet
  <2>. QED  BY <2>1, RxAssumption
<1>. HIDE DEF n, D
<1>4. ASSUME NEW i \in 1 .. n, NEW d \in Dests
      PROVE  LET f == Posted[i].list[d][1]
             IN  f \in ToSet(AllEvents[i].list[d]) /\ f \in held /\ f.dest = d
  <2>. DEFINE l == Posted[i].list[d]
  <2>1. PICK a \in Nat, b \in Nat : a < b /\ l = Run(d, a, b)
    BY <1>2 DEF Full, Covers
  <2>2. 1 \in DOMAIN l
    <3>1. a <= b /\ 1 \in 1 .. b - a
      BY <2>1
    <3>2. DOMAIN Run(d, a, b) = 1 .. b - a
      BY <3>1, RunIs
    <3>. QED  BY <2>1, <3>1, <3>2
  <2>3. i \in DOMAIN AllEvents /\ AllEvents[i] = Posted[i]
    BY <1>1, <1>2
  <2>. HIDE DEF l
  <2>4. l[1] \in ToSet(l)
    BY <2>2 DEF ToSet
  <2>5. \A f \in ToSet(AllEvents[i].list[d]) : f \in held /\ f.dest = d
    BY <2>3, StreamLists
  <2>. QED  BY <2>3, <2>4, <2>5 DEF l
<1>5. ASSUME NEW i \in 1 .. n, NEW j \in 1 .. n, i < j, NEW d \in Dests
      PROVE  Posted[i].list[d][1] # Posted[j].list[d][1]
  <2>. DEFINE f == Posted[i].list[d][1]
              h == Posted[j].list[d][1]
  <2>1. f \in ToSet(AllEvents[i].list[d]) /\ h \in ToSet(AllEvents[j].list[d]) /\ f \in held
    BY <1>4
  <2>2. i \in DOMAIN AllEvents /\ j \in DOMAIN AllEvents
    BY <1>1, <1>2
  <2>3. Older(ToSet(AllEvents[i].list[d]), ToSet(AllEvents[j].list[d]))
    BY <1>5, <2>2, StreamLists
  <2>4. f.seq \in Nat
    BY <2>1 DEF IInv, TypeOK, Frame
  <2>. HIDE DEF f, h
  <2>5. f.seq < h.seq
    BY <2>1, <2>3 DEF Older
  <2>6. f # h
    BY <2>4, <2>5
  <2>. QED  BY <2>6 DEF f, h
<1>6. \A x \in S : x[1] \in 1 .. n /\ x[2] \in Dests /\ x = <<x[1], x[2]>>
  OBVIOUS
<1>7. \A x \in S : g[x] = Posted[x[1]].list[x[2]][1]
  OBVIOUS
<1>8. g \in [S -> held]
  <2>1. \A x \in S : Posted[x[1]].list[x[2]][1] \in held
    BY <1>4, <1>6
  <2>. QED  BY <2>1
<1>9. ASSUME NEW x \in S, NEW y \in S, g[x] = g[y] PROVE x = y
  <2>1. x[1] \in 1 .. n /\ x[2] \in Dests /\ y[1] \in 1 .. n /\ y[2] \in Dests
    BY <1>6
  <2>2. /\ g[x] = Posted[x[1]].list[x[2]][1] /\ g[y] = Posted[y[1]].list[y[2]][1]
        /\ g[x].dest = x[2] /\ g[y].dest = y[2]
    BY <1>4, <1>7, <2>1
  <2>3. x[2] = y[2]
    BY <1>9, <2>2
  <2>4. ~(x[1] < y[1]) /\ ~(y[1] < x[1])
    BY <1>5, <1>9, <2>1, <2>2, <2>3
  <2>5. x[1] = y[1]
    BY <1>2, <2>1, <2>4
  <2>. QED  BY <1>6, <2>3, <2>5
<1>. HIDE DEF g
<1>10. g \in Injection(S, held)
  BY <1>8, <1>9 DEF Injection, IsInjective
<1>11. Cardinality(S) <= Cardinality(held)
  BY <1>10, FS_Injection
<1>12. IsFiniteSet(1 .. n) /\ Cardinality(1 .. n) = n
  <2>1. /\ IsFiniteSet(1 .. n)
        /\ Cardinality(1 .. n) = IF 1 > n THEN 0 ELSE n - 1 + 1
    BY <1>2, FS_Interval
  <2>. QED  BY <1>2, <2>1
<1>13. Cardinality(S) = n * D
  BY <1>12, RxAssumption, FS_Product DEF D
<1>14. Cardinality(held) \in Nat /\ Buffers \in Nat /\ Events \in Nat /\ TxSlots \in Nat
       /\ Buffers < Events * D /\ Buffers < TxSlots * D
  BY FS_CardinalityType, RxAssumption DEF Steady, D
<1>15. n * D < Events * D /\ n * D < TxSlots * D
  <2>1. n * D \in Nat /\ Events * D \in Nat /\ TxSlots * D \in Nat
    BY <1>2, <1>3, <1>14
  <2>. QED  BY <1>11, <1>13, <1>14, <2>1
<1>16. \A m, k \in Nat : m * D < k * D => m < k
  <2>. SUFFICES ASSUME NEW m \in Nat, NEW k \in Nat, k <= m PROVE k * D <= m * D
    <3>1. \A m, k \in Nat : m * D \in Nat /\ k * D \in Nat
      BY <1>3
    <3>. QED  BY <3>1
  <2>1. m - k \in Nat /\ m = k + (m - k)
    OBVIOUS
  <2>2. m * D = k * D + (m - k) * D
    BY <1>3
  <2>3. (m - k) * D \in Nat /\ k * D \in Nat
    BY <1>3, <2>1
  <2>. QED  BY <2>2, <2>3
<1>17. n < Events /\ n < TxSlots
  BY <1>2, <1>14, <1>15, <1>16
<1>18. Len(txReqQueue) <= n
  <2>1. txReqQueue \in Seq(Event) /\ Ev(sending) \in Seq(Event)
    BY DEF IInv, TypeOK, Ev
  <2>2. Len(Posted) = Len(Ev(sending)) + Len(txReqQueue)
        /\ Len(Ev(sending)) \in Nat /\ Len(txReqQueue) \in Nat
    BY <2>1 DEF Posted
  <2>. QED  BY <2>2 DEF n
<1>19. Len(txReqQueue) \in Nat
  BY DEF IInv, TypeOK
<1>. QED  BY <1>2, <1>14, <1>17, <1>18, <1>19 DEF n

(* The configuration stays as it was at the start, and rxRun runs.         *)
Settled ==
  /\ config \in FirstConfigs /\ todo = 0
  /\ runMode = config.runMode /\ blowOff = FALSE /\ exited = FALSE

(* The frames of a destination that are still to be read are those from    *)
(* number read up.                                                         *)
Fed(read) ==
  /\ read \in Numbers
  /\ \A f \in ToSet(dataQ) : f.dest \in Dests
  /\ \A d \in Dests : /\ read[d] <= sent[d]
                      /\ Of(ToSet(dataQ), d) = Span(d, read[d], sent[d])

(* No destination is far ahead of another.                                 *)
Level(read) ==
  /\ \A c, d \in Dests : sent[c] <= sent[d] + Skew /\ read[c] <= read[d] + Skew
  /\ \A i, j \in DOMAIN dataQ : i < j => dataQ[i].seq < dataQ[j].seq + Skew

(* The latency lists have the frames before those, from number low, which  *)
(* is far enough back: last is the time of the last trigger.               *)
Kept(low, read, last) ==
  /\ low \in Numbers
  /\ Chains(latency, remaining, low, read)
  /\ \A d \in Dests : Reach(low[d], read[d], last + config.post)

(* The events have what they need, or will have.                           *)
Windowed(low, read, last) ==
  /\ last \in Nat
  /\ Full(Posted)
  /\ event = NoEvent => \A d \in Dests : last <= At(read[d])
  /\ event # NoEvent =>
       /\ 0 < last /\ event.trg = last
       /\ event.beg = last - config.pre /\ event.end = last + config.post
       /\ Sides(event, low, read)

(* Timing messages are apart.                                              *)
Paced(last) ==
  /\ last <= lastStamp
  /\ \A i \in DOMAIN timingQ : /\ last + TriggerGap <= timingQ[i].stamp
                               /\ timingQ[i].stamp <= lastStamp
  /\ \A i, j \in DOMAIN timingQ :
       i < j => timingQ[i].stamp + TriggerGap <= timingQ[j].stamp

(* The first frame of d that has not got to its list yet.                  *)
Due(read, d) ==
  IF pc = "data" /\ Head(dataQ).dest = d THEN read[d] + 1 ELSE read[d]

(* A timing message is read before the frames of its window are off the    *)
(* latency lists.                                                          *)
InTime(read) ==
  /\ pc = "select" => "timing" \in fds
  /\ timingQ # << >> =>
       \A d \in Dests : At(Due(read, d) - Depth) <= Head(timingQ).stamp - config.pre

(* When the next trigger comes: a software trigger at a multiple of the    *)
(* period, an external one when the last event is out of the way.          *)
Timed(read, last) ==
  /\ runMode = "SOFTWARE" => last % config.period = 0
  /\ runMode = "EXTERNAL" => Paced(last) /\ (event = NoEvent => InTime(read))

(* Every buffer and every descriptor is somewhere.                         *)
Accounted(low) ==
  /\ IsFiniteSet(held) /\ Cardinality(held) <= Buffers
  /\ \A f \in held :
       /\ f.dest \in Dests
       /\ f \in Span(f.dest, low[f.dest], sent[f.dest]) \union Taken(AllEvents, f.dest)
  /\ pool + Len(AllEvents) = Events

(* The frames and events of a state in which the frames from number low to *)
(* number read are on the latency lists and the last trigger was at tick   *)
(* last.                                                                   *)
Flow(low, read, last) ==
  /\ Settled
  /\ Fed(read) /\ Level(read)
  /\ Kept(low, read, last) /\ Windowed(low, read, last)
  /\ Timed(read, last)
  /\ Accounted(low)

(* The invariant.  The three numbers are not part of the state of rxRun:   *)
(* it is enough that there are some, and every step says which come next.  *)
FlowInv == \E low, read, last : Flow(low, read, last)

-----------------------------------------------------------------------------
(* What Steady says of the configuration that is in use.                   *)
LEMMA Setup ==
  ASSUME Steady, Settled
  PROVE  /\ config.pre \in Nat /\ config.post \in Nat /\ config.period \in Nat \ {0}
         /\ config.pre + config.post > 0
         /\ runMode = "EXTERNAL" =>
              /\ config.pre + config.post + FrameTicks <= TriggerGap + 1
              /\ config.pre + TriggerLag <= Depth * FrameTicks
              /\ Skew <= Depth + 1
         /\ runMode = "SOFTWARE" =>
              /\ config.pre + config.post + FrameTicks <= config.period + 1
              /\ config.pre + Skew * FrameTicks
                   <= Depth * FrameTicks
                      + (IF config.period % FrameTicks = 0 THEN FrameTicks ELSE 1)
BY ConfigAssumption DEF Steady, Settled, Config

(* A frame in the data channel is one of those still to be read.           *)
LEMMA Queued ==
  ASSUME NEW read, Fed(read), NEW f \in ToSet(dataQ)
  PROVE  /\ f.dest \in Dests /\ f.seq \in read[f.dest] .. sent[f.dest] - 1
         /\ f = FrameOf(f.dest, f.seq)
<1>1. f.dest \in Dests
  BY DEF Fed
<1>2. f \in Span(f.dest, read[f.dest], sent[f.dest])
  BY <1>1 DEF Fed, Of
<1>3. PICK n \in read[f.dest] .. sent[f.dest] - 1 : f = FrameOf(f.dest, n)
  BY <1>2 DEF Span
<1>4. f.seq = n
  BY <1>3 DEF FrameOf
<1>. QED  BY <1>1, <1>3, <1>4

(* Before the first step nothing is read, and every buffer is free.        *)
LEMMA FlowInit ==
  ASSUME Steady, Init
  PROVE  FlowInv
<1>. DEFINE z == [d \in Dests |-> 0]
<1>1. z \in Numbers /\ \A d \in Dests : z[d] = 0
  BY DEF Numbers
<1>2. Settled
  BY DEF Steady, Init, Settled
<1>. HIDE DEF z
<1>3. config.post \in Nat /\ config.period \in Nat \ {0}
  BY <1>2, Setup
<1>4. dataQ = << >> /\ timingQ = << >> /\ ToSet(dataQ) = {}
  BY DEF Init, ToSet
<1>5. \A d \in Dests : sent[d] = 0 /\ Span(d, 0, 0) = {} /\ Run(d, 0, 0) = << >>
  BY RunEmpty, SpanParts DEF Init, Sources
<1>6. Fed(z)
  BY <1>1, <1>4, <1>5 DEF Fed, Of
<1>7. Level(z)
  BY <1>1, <1>4, <1>5 DEF Level, Steady
<1>8. At(0) = 0 /\ FrameTicks \in Nat \ {0}
  BY RxAssumption DEF At
<1>9. Kept(z, z, 0)
  <2>1. \A d \in Dests : latency[d] = Chain(d, 0, 0) /\ remaining[d] = Depth
    BY <1>5 DEF Init, EmptyList, Chain
  <2>2. Depth = Depth - (0 - 0) /\ 0 < (0 + config.post) + FrameTicks
    BY <1>3, <1>8, RxAssumption
  <2>. QED  BY <1>1, <1>8, <2>1, <2>2 DEF Kept, Chains, Reach
<1>10. Posted = << >> /\ AllEvents = << >>
  <2>1. << >> \in Seq(Event) /\ Ev(NoEvent) = << >>
    BY DEF Ev
  <2>2. Posted = << >>
    BY <2>1, ConcatEmptySeq DEF Init, Posted
  <2>. QED  BY <2>1, <2>2, ConcatEmptySeq DEF Init, AllEvents
<1>11. Windowed(z, z, 0)
  BY <1>1, <1>8, <1>10 DEF Windowed, Full, Init
<1>12. Timed(z, 0)
  <2>1. 0 % config.period = 0
    BY <1>3
  <2>. QED  BY <1>4, <2>1 DEF Timed, Paced, InTime, Init
<1>13. Accounted(z)
  <2>1. IsFiniteSet(held) /\ Cardinality(held) = 0 /\ held = {}
    BY FS_EmptySet DEF Init
  <2>2. pool + Len(AllEvents) = Events
    BY <1>10, RxAssumption DEF Init
  <2>. QED  BY <2>1, <2>2 DEF Accounted, Steady
<1>. QED  BY <1>2, <1>6, <1>7, <1>9, <1>11, <1>12, <1>13 DEF Flow, FlowInv

(* A span up to a later number.                                            *)
LEMMA SpanGrows ==
  ASSUME NEW d, NEW a \in Nat, NEW b \in Nat, NEW c \in Nat, b <= c
  PROVE  Span(d, a, b) \subseteq Span(d, a, c)
BY DEF Span

(* What an event has, and what has become of it, does not depend on what   *)
(* is in the channels.                                                     *)
LEMMA EventsAlike ==
  ASSUME UNCHANGED <<event, txReqQueue, sending>>
  PROVE  AllEvents' = AllEvents /\ Posted' = Posted
BY DEF AllEvents, Posted

(* A frame arrives.                                                        *)
LEMMA FlowArrives ==
  ASSUME Steady, IInv, StreamInv, NEW low, NEW read, NEW last, Flow(low, read, last),
         NEW d \in Sources, FrameArrives(d)
  PROVE  FlowInv'
<1>. DEFINE f == FrameOf(d, sent[d])
<1>1. /\ sent \in [Sources -> Nat] /\ dataQ \in Seq(Frame)
      /\ pc = "data" => dataQ # << >>
  BY DEF IInv, TypeOK, Reading
<1>2. /\ sent[d] < IF d \in Dests THEN Frames ELSE Strays
      /\ d \in Dests => \A c \in Dests : sent[d] < sent[c] + Skew
      /\ Cardinality(held) < Buffers
      /\ dataQ' = Append(dataQ, f) /\ held' = held \union {f}
      /\ sent' = [sent EXCEPT ![d] = @ + 1]
      /\ UNCHANGED <<timingQ, lastStamp, cfgVars, rxVars, pool, txReqQueue, sending>>
  BY DEF FrameArrives, Steady, FrameOf
<1>3. d \in Dests
  <2>1. sent[d] \in Nat /\ Strays = 0
    BY <1>1 DEF Steady
  <2>. QED  BY <1>2, <2>1
<1>4. sent[d] \in Nat /\ f \in Frame /\ f.dest = d /\ f.seq = sent[d]
  <2>1. sent[d] \in Nat
    BY <1>1
  <2>. QED  BY <1>3, <2>1, FrameOfIs
<1>5. /\ sent'[d] = sent[d] + 1
      /\ \A c \in Dests : sent[c] \in Nat /\ (c # d => sent'[c] = sent[c])
      /\ \A c \in Dests : sent'[c] \in Nat /\ sent[c] <= sent'[c]
  BY <1>1, <1>2 DEF Sources
<1>. HIDE DEF f
<1>6. ToSet(dataQ') = ToSet(dataQ) \union {f}
  BY <1>1, <1>2, ToSetAppend
<1>7. /\ Fed(read) /\ Level(read) /\ Kept(low, read, last) /\ Windowed(low, read, last)
      /\ Timed(read, last) /\ Accounted(low) /\ Settled
      /\ Steady /\ Skew \in Nat
  BY DEF Flow, Steady
<1>8. \A c \in Dests : read[c] \in Nat /\ low[c] \in Nat /\ low[c] <= read[c] /\ read[c] <= sent[c]
  BY <1>7 DEF Fed, Kept, Chains, Numbers
<1>9. Fed(read)'
  <2>1. \A c \in Dests : Of(ToSet(dataQ'), c) = Span(c, read[c], sent'[c])
    <3>. TAKE c \in Dests
    <3>1. CASE c = d
      <4>1. Of(ToSet(dataQ'), d) = Of(ToSet(dataQ), d) \union {f}
        BY <1>4, <1>6 DEF Of
      <4>2. Span(d, read[d], sent[d] + 1) = Span(d, read[d], sent[d]) \union {f}
        BY <1>3, <1>4, <1>8, SpanParts DEF f
      <4>. QED  BY <1>3, <1>5, <1>7, <3>1, <4>1, <4>2 DEF Fed
    <3>2. CASE c # d
      <4>1. Of(ToSet(dataQ'), c) = Of(ToSet(dataQ), c)
        BY <1>4, <1>6, <3>2 DEF Of
      <4>. QED  BY <1>5, <1>7, <3>2, <4>1 DEF Fed
    <3>. QED  BY <3>1, <3>2
  <2>2. \A g \in ToSet(dataQ') : g.dest \in Dests
    BY <1>3, <1>4, <1>6, <1>7 DEF Fed
  <2>3. \A c \in Dests : read[c] <= sent'[c]
    BY <1>5, <1>8
  <2>. QED  BY <1>7, <2>1, <2>2, <2>3 DEF Fed
<1>10. Level(read)'
  <2>1. ASSUME NEW b \in Dests, NEW c \in Dests PROVE sent'[b] <= sent'[c] + Skew
    <3>1. sent[b] <= sent[c] + Skew /\ sent[b] \in Nat /\ sent[c] \in Nat /\ sent'[c] \in Nat
          /\ sent[c] <= sent'[c]
      BY <1>5, <1>7 DEF Level
    <3>2. CASE b = d
      <4>1. sent[d] < sent[c] + Skew /\ sent'[b] = sent[d] + 1
        BY <1>2, <1>3, <1>5, <3>2
      <4>. QED  BY <1>4, <1>7, <3>1, <4>1
    <3>3. CASE b # d
      <4>1. sent'[b] = sent[b]
        BY <1>5, <3>3
      <4>. QED  BY <1>7, <3>1, <4>1
    <3>. QED  BY <3>2, <3>3
  <2>2. \A i \in DOMAIN dataQ : dataQ[i].seq < f.seq + Skew
    <3>. TAKE i \in DOMAIN dataQ
    <3>. DEFINE g == dataQ[i]
    <3>1. g \in ToSet(dataQ)
      BY DEF ToSet
    <3>. HIDE DEF g
    <3>2. g.dest \in Dests /\ g.seq \in read[g.dest] .. sent[g.dest] - 1
      BY <1>7, <3>1, Queued
    <3>3. sent[g.dest] <= sent[d] + Skew /\ sent[g.dest] \in Nat /\ read[g.dest] \in Nat
      BY <1>3, <1>5, <1>7, <1>8, <3>2 DEF Level
    <3>4. g.seq < sent[d] + Skew
      BY <1>4, <1>7, <3>2, <3>3
    <3>. QED  BY <1>4, <3>4 DEF g
  <2>. DEFINE B == Append(dataQ, f)  n == Len(dataQ)
  <2>3. /\ n \in Nat /\ DOMAIN dataQ = 1 .. n /\ DOMAIN B = 1 .. n + 1
        /\ B[n + 1] = f /\ \A i \in 1 .. n : B[i] = dataQ[i]
    BY <1>1, <1>4
  <2>. HIDE DEF B, n
  <2>4. ASSUME NEW i \in DOMAIN B, NEW j \in DOMAIN B, i < j
        PROVE  B[i].seq < B[j].seq + Skew
    <3>1. i \in 1 .. n /\ (j \in 1 .. n \/ j = n + 1)
      BY <2>3, <2>4
    <3>2. CASE j = n + 1
      BY <2>2, <2>3, <3>1, <3>2
    <3>3. CASE j \in 1 .. n
      BY <1>7, <2>3, <2>4, <3>1, <3>3 DEF Level
    <3>. QED  BY <3>1, <3>2, <3>3
  <2>5. dataQ' = B
    BY <1>2 DEF B
  <2>. QED  BY <1>7, <2>1, <2>4, <2>5 DEF Level
<1>11. Kept(low, read, last)'
  BY <1>2, <1>7 DEF Kept, rxVars, cfgVars
<1>12. AllEvents' = AllEvents /\ Posted' = Posted /\ event' = event
  BY <1>2, EventsAlike DEF rxVars
<1>13. Windowed(low, read, last)'
  BY <1>2, <1>7, <1>12 DEF Windowed, cfgVars
<1>14. Timed(read, last)'
  <2>1. pc = "data" => Head(dataQ') = Head(dataQ)
    BY <1>1, <1>2, <1>4
  <2>2. \A c \in Dests : Due(read, c)' = Due(read, c)
    BY <1>2, <2>1 DEF Due, rxVars
  <2>. QED  BY <1>2, <1>7, <2>2 DEF Timed, Paced, InTime, rxVars, cfgVars
<1>15. Accounted(low)'
  <2>1. IsFiniteSet(held') /\ Cardinality(held') <= Buffers
    <3>1. /\ IsFiniteSet(held') /\ Cardinality(held) \in Nat
          /\ Cardinality(held') = IF f \in held THEN Cardinality(held)
                                  ELSE Cardinality(held) + 1
      BY <1>2, <1>7, FS_AddElement, FS_CardinalityType DEF Accounted
    <3>. QED  BY <1>2, <3>1 DEF Steady
  <2>2. ASSUME NEW g \in held'
        PROVE  /\ g.dest \in Dests
               /\ g \in Span(g.dest, low[g.dest], sent'[g.dest])
                        \union Taken(AllEvents, g.dest)
    <3>1. CASE g \in held
      <4>1. g.dest \in Dests
            /\ g \in Span(g.dest, low[g.dest], sent[g.dest]) \union Taken(AllEvents, g.dest)
        BY <1>7, <3>1 DEF Accounted
      <4>2. Span(g.dest, low[g.dest], sent[g.dest])
              \subseteq Span(g.dest, low[g.dest], sent'[g.dest])
        BY <1>5, <1>8, <4>1, SpanGrows
      <4>. QED  BY <4>1, <4>2
    <3>2. CASE g = f
      <4>1. low[d] <= sent[d] /\ low[d] \in Nat
        BY <1>3, <1>4, <1>8
      <4>2. Span(d, low[d], sent[d] + 1) = Span(d, low[d], sent[d]) \union {f}
        BY <1>4, <4>1, SpanParts DEF f
      <4>. QED  BY <1>3, <1>4, <1>5, <3>2, <4>2
    <3>. QED  BY <1>2, <3>1, <3>2
  <2>3. pool' = pool
    BY <1>2
  <2>. QED  BY <1>7, <1>12, <2>1, <2>2, <2>3 DEF Accounted
<1>16. Settled'
  BY <1>2, <1>7 DEF Settled, rxVars, cfgVars
<1>17. Flow(low, read, last)'
  BY <1>9, <1>10, <1>11, <1>13, <1>14, <1>15, <1>16 DEF Flow
<1>. QED  BY <1>17 DEF FlowInv

(* What is due of a destination has been sent.                             *)
LEMMA DueSent ==
  ASSUME Steady, IInv, NEW read, Fed(read), NEW d \in Dests
  PROVE  /\ Due(read, d) \in Nat /\ Due(read, d) <= sent[d]
         /\ Due(read, d) = read[d] \/ Due(read, d) = read[d] + 1
         /\ pc # "data" => Due(read, d) = read[d]
         /\ read[d] \in Nat /\ sent[d] \in Nat
<1>1. /\ sent[d] \in Nat /\ read[d] \in Nat /\ read[d] <= sent[d]
      /\ dataQ \in Seq(Frame) /\ (pc = "data" => dataQ # << >>)
  BY DEF IInv, TypeOK, Reading, Fed, Numbers, Sources
<1>2. CASE pc = "data" /\ Head(dataQ).dest = d
  <2>1. Head(dataQ) \in ToSet(dataQ)
    BY <1>1, <1>2, ToSetTail
  <2>2. Head(dataQ).seq \in read[d] .. sent[d] - 1
    BY <1>2, <2>1, Queued
  <2>3. Due(read, d) = read[d] + 1
    BY <1>2 DEF Due
  <2>. QED  BY <1>1, <1>2, <2>2, <2>3
<1>3. CASE ~(pc = "data" /\ Head(dataQ).dest = d)
  BY <1>1, <1>3 DEF Due
<1>. QED  BY <1>2, <1>3

(* A timing message arrives.                                               *)
LEMMA FlowComes ==
  ASSUME Steady, IInv, StreamInv, NEW low, NEW read, NEW last, Flow(low, read, last),
         NEW trigger \in BOOLEAN, TimingArrives(trigger)
  PROVE  FlowInv'
<1>1. PICK ts \in lastStamp + TriggerGap .. Frames * FrameTicks :
        /\ \A d \in Dests : ts + TriggerLag >= sent[d] * FrameTicks
        /\ timingQ' = Append(timingQ, [stamp |-> ts, trigger |-> trigger])
        /\ lastStamp' = ts
  BY DEF TimingArrives
<1>2. UNCHANGED <<sent, dataQ, cfgVars, rxVars, txVars>>
  BY DEF TimingArrives
<1>. DEFINE m == [stamp |-> ts, trigger |-> trigger]
            B == Append(timingQ, m)
            n == Len(timingQ)
<1>3. /\ timingQ \in Seq(Message) /\ lastStamp \in Nat /\ TriggerGap \in Nat
      /\ Frames * FrameTicks \in Nat
  BY RxAssumption DEF IInv, TypeOK, Message
<1>4. ts \in Nat /\ lastStamp + TriggerGap <= ts
  BY <1>3
<1>5. m \in Message /\ m.stamp = ts
  BY <1>4 DEF Message
<1>6. /\ n \in Nat /\ DOMAIN timingQ = 1 .. n /\ DOMAIN B = 1 .. n + 1
      /\ B[n + 1] = m /\ \A i \in 1 .. n : B[i] = timingQ[i]
      /\ timingQ # << >> => Head(B) = Head(timingQ)
      /\ timingQ = << >> => Head(B) = m
      /\ \A i \in 1 .. n : timingQ[i].stamp \in Nat
  <2>. HIDE DEF m
  <2>1. /\ n \in Nat /\ DOMAIN timingQ = 1 .. n /\ DOMAIN B = 1 .. n + 1
        /\ B[n + 1] = m /\ \A i \in 1 .. n : B[i] = timingQ[i]
    BY <1>3, <1>5
  <2>2. timingQ # << >> => 1 \in 1 .. n
    BY <1>3
  <2>3. timingQ = << >> => n = 0
    BY <1>3
  <2>4. Head(B) = B[1] /\ Head(timingQ) = timingQ[1]
    BY <1>3, <1>5
  <2>5. \A i \in 1 .. n : timingQ[i] \in Message
    BY <1>3
  <2>6. \A i \in 1 .. n : timingQ[i].stamp \in Nat
    BY <2>5 DEF Message
  <2>7. timingQ # << >> => Head(B) = Head(timingQ)
    BY <2>1, <2>2, <2>4
  <2>8. timingQ = << >> => Head(B) = m
    BY <2>1, <2>3, <2>4
  <2>. QED  BY <2>1, <2>6, <2>7, <2>8
<1>7. /\ Fed(read) /\ Level(read) /\ Kept(low, read, last) /\ Windowed(low, read, last)
      /\ Timed(read, last) /\ Accounted(low) /\ Settled
  BY DEF Flow
<1>8. AllEvents' = AllEvents /\ Posted' = Posted /\ event' = event
  BY <1>2, EventsAlike DEF rxVars, txVars
<1>9. /\ Fed(read)' /\ Level(read)' /\ Kept(low, read, last)' /\ Windowed(low, read, last)'
      /\ Accounted(low)' /\ Settled'
  BY <1>2, <1>7, <1>8 DEF Fed, Level, Kept, Windowed, Accounted, Settled, rxVars, txVars, cfgVars
<1>. HIDE DEF m, B, n
<1>10. timingQ' = B
  BY <1>1 DEF B, m
<1>11. last \in Nat
  BY <1>7 DEF Windowed
<1>12. ASSUME Paced(last) PROVE Paced(last)'
  <2>1. ASSUME NEW i \in DOMAIN B PROVE last + TriggerGap <= B[i].stamp /\ B[i].stamp <= ts
    <3>1. CASE i = n + 1
      BY <1>3, <1>4, <1>5, <1>6, <1>11, <1>12, <3>1 DEF Paced
    <3>2. CASE i \in 1 .. n
      BY <1>3, <1>4, <1>6, <1>12, <3>2 DEF Paced
    <3>. QED  BY <1>6, <3>1, <3>2
  <2>2. ASSUME NEW i \in DOMAIN B, NEW j \in DOMAIN B, i < j
        PROVE  B[i].stamp + TriggerGap <= B[j].stamp
    <3>1. i \in 1 .. n /\ (j \in 1 .. n \/ j = n + 1)
      BY <1>6, <2>2
    <3>2. CASE j = n + 1
      BY <1>3, <1>4, <1>5, <1>6, <1>12, <3>1, <3>2 DEF Paced
    <3>3. CASE j \in 1 .. n
      BY <1>6, <1>12, <2>2, <3>1, <3>3 DEF Paced
    <3>. QED  BY <3>1, <3>2, <3>3
  <2>3. last <= ts
    BY <1>3, <1>4, <1>11, <1>12 DEF Paced
  <2>. QED  BY <1>1, <1>10, <2>1, <2>2, <2>3 DEF Paced
<1>13. ASSUME runMode = "EXTERNAL", InTime(read) PROVE InTime(read)'
  <2>1. UNCHANGED <<pc, fds, dataQ, config>>
    BY <1>2 DEF rxVars, cfgVars
  <2>2. \A d \in Dests : Due(read, d)' = Due(read, d)
    BY <2>1 DEF Due
  <2>3. ASSUME timingQ = << >>, NEW d \in Dests
        PROVE  At(Due(read, d) - Depth) <= m.stamp - config.pre
    <3>. DEFINE k == Due(read, d)
    <3>1. k \in Nat /\ k <= sent[d] /\ sent[d] \in Nat /\ k \in Int /\ sent[d] \in Int
      BY <1>7, DueSent
    <3>. HIDE DEF k
    <3>2. Depth \in Nat /\ Depth \in Int
      BY RxAssumption
    <3>3. At(k - Depth) = At(k) - At(Depth) /\ At(k) \in Int /\ At(Depth) \in Int
          /\ At(sent[d]) \in Int
      BY <3>1, <3>2, AtIs
    <3>4. At(k) <= At(sent[d])
      BY <3>1, AtOrder
    <3>5. At(sent[d]) <= ts + TriggerLag
      BY <1>1, <1>4, <3>3 DEF At, Steady
    <3>6. config.pre + TriggerLag <= At(Depth) /\ config.pre \in Nat /\ TriggerLag \in Nat
      BY <1>7, <1>13, Setup DEF At, Steady
    <3>. QED  BY <1>4, <1>5, <3>3, <3>4, <3>5, <3>6 DEF k
  <2>4. \A d \in Dests : At(Due(read, d) - Depth) <= Head(B).stamp - config.pre
    <3>1. CASE timingQ = << >>
      BY <1>6, <2>3, <3>1
    <3>2. CASE timingQ # << >>
      BY <1>6, <1>13, <3>2 DEF InTime
    <3>. QED  BY <3>1, <3>2
  <2>. QED  BY <1>10, <1>13, <2>1, <2>2, <2>4 DEF InTime
<1>14. Timed(read, last)'
  <2>1. UNCHANGED <<runMode, config, event>>
    BY <1>2 DEF rxVars, cfgVars
  <2>. QED  BY <1>7, <1>12, <1>13, <2>1 DEF Timed
<1>15. Flow(low, read, last)'
  BY <1>9, <1>14 DEF Flow
<1>. QED  BY <1>15 DEF FlowInv

(* The transmit thread takes an event, ...                                 *)
LEMMA FlowTakes ==
  ASSUME Steady, IInv, StreamInv, NEW low, NEW read, NEW last, Flow(low, read, last),
         TxTake
  PROVE  FlowInv'
<1>1. /\ UNCHANGED <<envVars, cfgVars, rxVars, pool, held>>
      /\ sending = NoEvent /\ txReqQueue # << >>
      /\ sending' = Head(txReqQueue) /\ txReqQueue' = Tail(txReqQueue)
  BY DEF TxTake
<1>2. /\ Fed(read) /\ Level(read) /\ Kept(low, read, last) /\ Windowed(low, read, last)
      /\ Timed(read, last) /\ Accounted(low) /\ Settled
  BY DEF Flow
<1>3. AllEvents' = AllEvents
  BY ChainTake
<1>4. Posted' = Posted
  <2>1. txReqQueue \in Seq(Event)
    BY DEF IInv, TypeOK
  <2>2. Head(txReqQueue) \in Event
    BY <1>1, <2>1
  <2>3. Posted = txReqQueue
    BY <1>1, <2>1, ConcatEmptySeq DEF Posted, Ev
  <2>4. Posted' = <<Head(txReqQueue)>> \o Tail(txReqQueue)
    BY <1>1, <2>2, NoEventAssumption DEF Posted, Ev
  <2>5. <<Head(txReqQueue)>> \o Tail(txReqQueue) = txReqQueue
    BY <1>1, <2>1
  <2>. QED  BY <2>3, <2>4, <2>5
<1>5. /\ Fed(read)' /\ Level(read)' /\ Kept(low, read, last)' /\ Settled'
  BY <1>1, <1>2 DEF Fed, Level, Kept, Settled, envVars, rxVars, cfgVars
<1>6. Windowed(low, read, last)' /\ Accounted(low)'
  BY <1>1, <1>2, <1>3, <1>4 DEF Windowed, Accounted, envVars, rxVars, cfgVars
<1>7. Timed(read, last)'
  <2>1. \A d \in Dests : Due(read, d)' = Due(read, d)
    BY <1>1 DEF Due, envVars, rxVars
  <2>. QED  BY <1>1, <1>2, <2>1 DEF Timed, Paced, InTime, envVars, rxVars, cfgVars
<1>8. Flow(low, read, last)'
  BY <1>2, <1>5, <1>6, <1>7 DEF Flow
<1>. QED  BY <1>8 DEF FlowInv

(* ... and gives back what it held.                                        *)
LEMMA FlowReleases ==
  ASSUME Steady, IInv, StreamInv, NEW low, NEW read, NEW last, Flow(low, read, last),
         TxRelease
  PROVE  FlowInv'
<1>1. /\ UNCHANGED <<envVars, cfgVars, rxVars, txReqQueue>>
      /\ sending # NoEvent /\ sending' = NoEvent
      /\ held' = held \ EventFrames(sending) /\ pool' = pool + 1
  BY DEF TxRelease
<1>2. /\ Fed(read) /\ Level(read) /\ Kept(low, read, last) /\ Windowed(low, read, last)
      /\ Timed(read, last) /\ Accounted(low) /\ Settled
  BY DEF Flow
<1>3. /\ AllEvents # << >> /\ AllEvents[1] = sending /\ AllEvents' = Tail(AllEvents)
      /\ AllEvents \in Seq(Event)
  BY ChainRelease
<1>. DEFINE n == Len(AllEvents)  B == Tail(AllEvents)
<1>4. /\ n \in Nat \ {0} /\ DOMAIN AllEvents = 1 .. n /\ DOMAIN B = 1 .. n - 1
      /\ Len(B) = n - 1 /\ \A i \in 1 .. n - 1 : B[i] = AllEvents[i + 1]
  BY <1>3
<1>5. Full(Posted')
  <2>1. /\ sending \in Event /\ txReqQueue \in Seq(Event) /\ << >> \in Seq(Event)
    BY <1>1 DEF IInv, TypeOK
  <2>2. Posted = (Ev(sending) \o txReqQueue) \o << >>
    BY <2>1, ConcatEmptySeq, EventsNow DEF Posted, IInv
  <2>3. Posted # << >> /\ Tail(Posted) = (Ev(NoEvent) \o txReqQueue) \o << >>
    BY <2>1, <2>2, ChainFirst
  <2>4. (Ev(NoEvent) \o txReqQueue) \o << >> = Ev(NoEvent) \o txReqQueue
    <3>1. Ev(NoEvent) \o txReqQueue \in Seq(Event)
      BY <2>1, ChainIdle
    <3>. QED  BY <3>1, ConcatEmptySeq
  <2>5. Posted' = Tail(Posted)
    BY <1>1, <2>3, <2>4 DEF Posted
  <2>6. Posted \in Seq(Event)
    BY EventsNow DEF IInv
  <2>7. Full(Posted)
    BY <1>2 DEF Windowed
  <2>. DEFINE P == Tail(Posted)
  <2>8. \A i \in DOMAIN P : i + 1 \in DOMAIN Posted /\ P[i] = Posted[i + 1]
    BY <2>3, <2>6
  <2>. HIDE DEF P
  <2>9. Full(P)
    BY <2>7, <2>8 DEF Full
  <2>. QED  BY <2>5, <2>9 DEF P
<1>6. /\ Fed(read)' /\ Level(read)' /\ Kept(low, read, last)' /\ Settled'
  BY <1>1, <1>2 DEF Fed, Level, Kept, Settled, envVars, rxVars, cfgVars
<1>7. Windowed(low, read, last)'
  BY <1>1, <1>2, <1>5 DEF Windowed, envVars, rxVars, cfgVars
<1>8. Timed(read, last)'
  <2>1. \A d \in Dests : Due(read, d)' = Due(read, d)
    BY <1>1 DEF Due, envVars, rxVars
  <2>. QED  BY <1>1, <1>2, <2>1 DEF Timed, Paced, InTime, envVars, rxVars, cfgVars
<1>9. Accounted(low)'
  <2>1. IsFiniteSet(held') /\ Cardinality(held') <= Buffers
    <3>1. /\ IsFiniteSet(held') /\ Cardinality(held') <= Cardinality(held)
          /\ Cardinality(held) \in Nat /\ Cardinality(held) <= Buffers
      BY <1>1, <1>2, FS_Subset, FS_CardinalityType DEF Accounted
    <3>2. Cardinality(held') \in Nat /\ Buffers \in Nat
      BY <3>1, FS_CardinalityType DEF Steady
    <3>. QED  BY <3>1, <3>2
  <2>2. pool' + Len(B) = Events
    <3>1. pool \in Nat /\ pool + n = Events
      BY <1>2 DEF Accounted, IInv, TypeOK
    <3>. QED  BY <1>1, <1>4, <3>1
  <2>. HIDE DEF B, n
  <2>3. ASSUME NEW g \in held'
        PROVE  /\ g.dest \in Dests
               /\ g \in Span(g.dest, low[g.dest], sent[g.dest]) \union Taken(B, g.dest)
    <3>1. /\ g \in held /\ g \notin EventFrames(sending) /\ g.dest \in Dests
          /\ g \in Span(g.dest, low[g.dest], sent[g.dest]) \union Taken(AllEvents, g.dest)
      BY <1>1, <1>2 DEF Accounted
    <3>2. ASSUME g \in Taken(AllEvents, g.dest) PROVE g \in Taken(B, g.dest)
      <4>1. PICK i \in 1 .. n : g \in ToSet(AllEvents[i].list[g.dest])
        BY <1>4, <3>2 DEF Taken
      <4>2. i # 1
        BY <1>3, <3>1, <4>1 DEF EventFrames
      <4>3. i - 1 \in 1 .. n - 1 /\ (i - 1) + 1 = i
        BY <1>4, <4>2
      <4>4. i - 1 \in DOMAIN B /\ B[i - 1] = AllEvents[i]
        BY <1>4, <4>3
      <4>. QED  BY <4>1, <4>4 DEF Taken
    <3>. QED  BY <3>1, <3>2
  <2>4. AllEvents' = B /\ sent' = sent
    BY <1>1, <1>3 DEF B, envVars
  <2>. QED  BY <2>1, <2>2, <2>3, <2>4 DEF Accounted
<1>10. Flow(low, read, last)'
  BY <1>6, <1>7, <1>8, <1>9 DEF Flow
<1>. QED  BY <1>10 DEF FlowInv

(* select finds the timing channel enabled, so a message that is there is  *)
(* read before the next frame.                                             *)
LEMMA FlowSelects ==
  ASSUME Steady, IInv, StreamInv, NEW low, NEW read, NEW last, Flow(low, read, last),
         Select
  PROVE  FlowInv'
<1>. DEFINE armed == fds \union {"data"}
            ready == {c \in armed : \/ c = "timing" /\ timingQ # << >>
                                    \/ c = "data" /\ dataQ # << >>}
<1>1. /\ pc = "select" /\ fds' = ready
      /\ pc' = IF "timing" \in ready THEN "timing" ELSE "data"
  BY DEF Select
<1>10. /\ IF event = NoEvent
          THEN runMode' = config.runMode /\ blowOff' = config.blowOff
          ELSE UNCHANGED <<runMode, blowOff>>
       /\ UNCHANGED <<envVars, cfgVars, txVars, trgActive, event, latency,
                      remaining, disTrgCnt, exited>>
  BY DEF Select
<1>2. /\ Fed(read) /\ Level(read) /\ Kept(low, read, last) /\ Windowed(low, read, last)
      /\ Timed(read, last) /\ Accounted(low) /\ Settled
  BY DEF Flow
<1>. HIDE DEF ready
<1>3. runMode' = runMode /\ blowOff' = FALSE
  <2>1. config.blowOff = FALSE
    BY <1>2, ConfigAssumption DEF Settled, Steady, Config
  <2>. QED  BY <1>10, <1>2, <2>1 DEF Settled
<1>4. Settled'
  BY <1>10, <1>2, <1>3 DEF Settled, cfgVars
<1>5. AllEvents' = AllEvents /\ Posted' = Posted
  BY <1>10, EventsAlike DEF txVars
<1>6. /\ Fed(read)' /\ Level(read)' /\ Kept(low, read, last)'
      /\ Windowed(low, read, last)' /\ Accounted(low)'
  BY <1>10, <1>2, <1>5 DEF Fed, Level, Kept, Windowed, Accounted, envVars, txVars, cfgVars
<1>7. ASSUME InTime(read) PROVE InTime(read)'
  <2>1. pc' # "select"
    BY <1>1
  <2>2. timingQ # << >> => pc' = "timing"
    <3>1. "timing" \in fds
      BY <1>1, <1>7 DEF InTime
    <3>2. timingQ # << >> => "timing" \in ready
      BY <3>1 DEF ready
    <3>. QED  BY <1>1, <3>2
  <2>3. ASSUME timingQ # << >>, NEW d \in Dests PROVE Due(read, d)' = Due(read, d)
    BY <1>1, <1>10, <2>2, <2>3 DEF Due, envVars
  <2>. QED  BY <1>10, <1>7, <2>1, <2>3 DEF InTime, envVars, cfgVars
<1>8. Timed(read, last)'
  BY <1>10, <1>2, <1>3, <1>7 DEF Timed, Paced, envVars, cfgVars
<1>9. Flow(low, read, last)'
  BY <1>4, <1>6, <1>8 DEF Flow
<1>. QED  BY <1>9 DEF FlowInv

(* The messages behind the one that is read.                               *)
LEMMA NextMessage ==
  ASSUME IInv, NEW last \in Nat, Paced(last), timingQ # << >>,
         timingQ' = Tail(timingQ), lastStamp' = lastStamp,
         NEW t, t = Head(timingQ).stamp
  PROVE  /\ t \in Nat /\ last + TriggerGap <= t
         /\ Paced(last)' /\ Paced(t)'
         /\ timingQ' # << >> => Head(timingQ').stamp \in Nat
                                /\ t + TriggerGap <= Head(timingQ').stamp
<1>. DEFINE n == Len(timingQ)  q == Tail(timingQ)
<1>1. timingQ \in Seq(Message) /\ lastStamp \in Nat /\ TriggerGap \in Nat
  BY RxAssumption DEF IInv, TypeOK, Message
<1>2. /\ n \in Nat \ {0} /\ DOMAIN timingQ = 1 .. n /\ Head(timingQ) = timingQ[1]
      /\ DOMAIN q = 1 .. n - 1 /\ \A i \in 1 .. n - 1 : q[i] = timingQ[i + 1]
      /\ q # << >> => Head(q) = q[1] /\ 1 \in 1 .. n - 1
      /\ \A i \in 1 .. n : timingQ[i] \in Message
  BY <1>1
<1>3. \A i \in 1 .. n : timingQ[i].stamp \in Nat
  BY <1>2 DEF Message
<1>4. /\ \A i \in 1 .. n : /\ last + TriggerGap <= timingQ[i].stamp
                           /\ timingQ[i].stamp <= lastStamp
      /\ \A i, j \in 1 .. n : i < j => timingQ[i].stamp + TriggerGap <= timingQ[j].stamp
      /\ last <= lastStamp
  BY <1>2 DEF Paced
<1>. HIDE DEF n, q
<1>5. t = timingQ[1].stamp /\ t \in Nat /\ last + TriggerGap <= t /\ t <= lastStamp
  BY <1>2, <1>3, <1>4
<1>6. ASSUME NEW i \in 1 .. n - 1
      PROVE  /\ q[i].stamp \in Nat /\ t + TriggerGap <= q[i].stamp
             /\ last + TriggerGap <= q[i].stamp /\ q[i].stamp <= lastStamp
  <2>1. i + 1 \in 1 .. n /\ 1 \in 1 .. n /\ 1 < i + 1 /\ q[i] = timingQ[i + 1]
    BY <1>2
  <2>. QED  BY <1>3, <1>4, <1>5, <2>1
<1>7. ASSUME NEW i \in 1 .. n - 1, NEW j \in 1 .. n - 1, i < j
      PROVE  q[i].stamp + TriggerGap <= q[j].stamp
  <2>1. i + 1 \in 1 .. n /\ j + 1 \in 1 .. n /\ i + 1 < j + 1
        /\ q[i] = timingQ[i + 1] /\ q[j] = timingQ[j + 1]
    BY <1>2, <1>7
  <2>. QED  BY <1>4, <2>1
<1>8. timingQ' = q
  BY DEF q
<1>9. Paced(last)' /\ Paced(t)'
  <2>1. \A i, j \in DOMAIN timingQ' :
          i < j => timingQ'[i].stamp + TriggerGap <= timingQ'[j].stamp
    BY <1>2, <1>7, <1>8
  <2>2. \A i \in DOMAIN timingQ' : /\ last + TriggerGap <= timingQ'[i].stamp
                                   /\ t + TriggerGap <= timingQ'[i].stamp
                                   /\ timingQ'[i].stamp <= lastStamp
    BY <1>2, <1>6, <1>8
  <2>3. Paced(last)'
    BY <1>4, <2>1, <2>2 DEF Paced
  <2>4. Paced(t)'
    BY <1>5, <2>1, <2>2 DEF Paced
  <2>. QED  BY <2>3, <2>4
<1>10. timingQ' # << >> => Head(timingQ').stamp \in Nat
                           /\ t + TriggerGap <= Head(timingQ').stamp
  BY <1>2, <1>6, <1>8
<1>. QED  BY <1>5, <1>9, <1>10

(* Once a message has been read the next one is in time as well.           *)
LEMMA NextInTime ==
  ASSUME Steady, IInv, NEW read, Fed(read), Settled, runMode = "EXTERNAL",
         NEW last \in Nat, Paced(last), InTime(read), pc = "timing",
         timingQ' = Tail(timingQ), AfterTiming, "timing" \in fds',
         UNCHANGED <<dataQ, lastStamp, config>>
  PROVE  InTime(read)'
<1>. PICK t : t = Head(timingQ).stamp
  OBVIOUS
<1>1. timingQ # << >>
  BY DEF IInv, Reading
<1>2. ASSUME timingQ' # << >>, NEW d \in Dests
      PROVE  At(Due(read, d)' - Depth) <= Head(timingQ').stamp - config.pre
  <2>1. /\ t \in Nat /\ t + TriggerGap <= Head(timingQ').stamp
        /\ Head(timingQ').stamp \in Nat
    BY <1>1, <1>2, NextMessage
  <2>2. At(read[d] - Depth) <= t - config.pre
    BY <1>1 DEF InTime, Due
  <2>3. read[d] \in Nat /\ Depth \in Nat
    BY RxAssumption DEF Fed, Numbers
  <2>. DEFINE k == read[d] - Depth
  <2>10. At(k) <= t - config.pre
    BY <2>2
  <2>4. k \in Int /\ (read[d] + 1) - Depth = k + 1
    BY <2>3
  <2>5. /\ At(k) \in Int /\ At(k + 1) = At(k) + FrameTicks /\ FrameTicks \in Nat
    BY <2>4, AtIs
  <2>6. Due(read, d)' = read[d] \/ Due(read, d)' = read[d] + 1
    BY DEF Due
  <2>7. At(Due(read, d)' - Depth) <= At(k) + FrameTicks /\ At(Due(read, d)' - Depth) \in Int
    <3>1. CASE Due(read, d)' = read[d]
      BY <2>5, <3>1
    <3>2. CASE Due(read, d)' = read[d] + 1
      BY <2>4, <2>5, <3>2
    <3>. QED  BY <2>6, <3>1, <3>2
  <2>. HIDE DEF k
  <2>8. /\ config.pre \in Nat /\ config.post \in Nat /\ config.pre + config.post > 0
        /\ config.pre + config.post + FrameTicks <= TriggerGap + 1 /\ TriggerGap \in Nat
    BY Setup, RxAssumption
  <2>9. FrameTicks <= TriggerGap
    BY <2>5, <2>8
  <2>. DEFINE h == Head(timingQ').stamp  a == At(k)  b == At(Due(read, d)' - Depth)
  <2>11. /\ t \in Nat /\ h \in Nat /\ a \in Int /\ b \in Int /\ config.pre \in Nat
         /\ TriggerGap \in Nat /\ FrameTicks \in Nat
         /\ t + TriggerGap <= h /\ a <= t - config.pre /\ b <= a + FrameTicks
         /\ FrameTicks <= TriggerGap
    BY <2>1, <2>5, <2>7, <2>8, <2>9, <2>10
  <2>. HIDE DEF h, a, b
  <2>12. b <= h - config.pre
    BY <2>11
  <2>. QED  BY <2>12 DEF h, b
<1>3. pc' = "select" => "timing" \in fds'
  OBVIOUS
<1>4. config' = config
  OBVIOUS
<1>. QED  BY <1>2, <1>3, <1>4 DEF InTime

(* A timing message that is dropped changes no frame and no event.         *)
LEMMA FlowDrops ==
  ASSUME Steady, IInv, StreamInv, NEW low, NEW read, NEW last, Flow(low, read, last),
         DropTiming
  PROVE  FlowInv'
<1>1. /\ pc = "timing"
      /\ timingQ' = Tail(timingQ) /\ AfterTiming
      /\ UNCHANGED <<sent, dataQ, lastStamp, cfgVars, txVars, fds, runMode,
                     blowOff, trgActive, event, latency, remaining, exited>>
  BY DEF DropTiming
<1>2. /\ Fed(read) /\ Level(read) /\ Kept(low, read, last) /\ Windowed(low, read, last)
      /\ Timed(read, last) /\ Accounted(low) /\ Settled
  BY DEF Flow
<1>3. AllEvents' = AllEvents /\ Posted' = Posted
  BY <1>1, EventsAlike DEF txVars
<1>4. /\ Fed(read)' /\ Level(read)' /\ Kept(low, read, last)'
      /\ Windowed(low, read, last)' /\ Accounted(low)' /\ Settled'
  BY <1>1, <1>2, <1>3 DEF Fed, Level, Kept, Windowed, Accounted, Settled, txVars, cfgVars
<1>5. timingQ # << >> /\ "timing" \in fds
  BY <1>1 DEF IInv, Reading
<1>6. last \in Nat
  BY <1>2 DEF Windowed
<1>7. ASSUME runMode = "EXTERNAL" PROVE Paced(last)' /\ (event = NoEvent => InTime(read)')
  <2>1. Paced(last) /\ (event = NoEvent => InTime(read))
    BY <1>2, <1>7 DEF Timed
  <2>2. Paced(last)'
    BY <1>1, <1>5, <1>6, <2>1, NextMessage
  <2>3. "timing" \in fds' /\ UNCHANGED <<dataQ, lastStamp, config>>
    BY <1>1, <1>5 DEF cfgVars
  <2>4. event = NoEvent => InTime(read)'
    BY <1>1, <1>2, <1>6, <1>7, <2>1, <2>3, NextInTime
  <2>. QED  BY <2>2, <2>4
<1>8. Timed(read, last)'
  BY <1>1, <1>2, <1>7 DEF Timed, cfgVars
<1>9. Flow(low, read, last)'
  BY <1>4, <1>8 DEF Flow
<1>. QED  BY <1>9 DEF FlowInv

(* The frame that is read is the next one of its destination, ...          *)
LEMMA NextFrame ==
  ASSUME IInv, StreamInv, pc = "data", ~exited, NEW read, Fed(read)
  PROVE  \E d \in Dests : Head(dataQ) = FrameOf(d, read[d]) /\ read[d] < sent[d]
<1>. DEFINE f == Head(dataQ)  d == f.dest
<1>1. f \in ToSet(dataQ) /\ Older({f}, Of(ToSet(dataQ), d) \ {f})
  BY StreamReads DEF Of
<1>2. d \in Dests /\ f.seq \in read[d] .. sent[d] - 1 /\ f = FrameOf(d, f.seq)
  BY <1>1, Queued
<1>. HIDE DEF f, d
<1>3. read[d] \in Nat /\ sent[d] \in Nat
  BY <1>2 DEF Fed, Numbers, IInv, TypeOK, Sources
<1>. DEFINE g == FrameOf(d, read[d])
<1>4. g \in Of(ToSet(dataQ), d) /\ g.seq = read[d]
  <2>1. read[d] \in read[d] .. sent[d] - 1
    BY <1>2, <1>3
  <2>2. g \in Span(d, read[d], sent[d])
    BY <2>1 DEF Span
  <2>. QED  BY <1>2, <2>2 DEF Fed, FrameOf
<1>. HIDE DEF g
<1>5. g = f
  <2>1. g # f => f.seq < g.seq
    BY <1>1, <1>4 DEF Older
  <2>. QED  BY <1>2, <1>3, <1>4, <2>1
<1>6. read[d] < sent[d]
  BY <1>2, <1>3
<1>. QED  BY <1>2, <1>5, <1>6 DEF f, g

(* ... and is wanted.                                                      *)
LEMMA WantedFrame ==
  ASSUME blowOff = FALSE, NEW d \in Dests, NEW n
  PROVE  ~Unwanted(FrameOf(d, n)) /\ FrameOf(d, n).dest = d /\ FrameOf(d, n).dest # Stray
BY RxAssumption DEF Unwanted, FrameOf

(* The frames behind it.                                                   *)
LEMMA FedOn ==
  ASSUME Steady, IInv, StreamInv, pc = "data", ~exited, NEW read, Fed(read), Level(read),
         NEW d \in Dests, Head(dataQ) = FrameOf(d, read[d]), read[d] < sent[d],
         dataQ' = Tail(dataQ), sent' = sent
  PROVE  Fed(Up(read, d))' /\ Level(Up(read, d))'
<1>. DEFINE f == FrameOf(d, read[d])  u == Up(read, d)
<1>1. /\ read \in Numbers /\ \A c \in Dests : /\ read[c] \in Nat /\ sent[c] \in Nat
                                              /\ read[c] <= sent[c]
                                              /\ Of(ToSet(dataQ), c) = Span(c, read[c], sent[c])
      /\ \A g \in ToSet(dataQ) : g.dest \in Dests
      /\ \A b, c \in Dests : sent[b] <= sent[c] + Skew /\ read[b] <= read[c] + Skew
      /\ Skew \in Nat
  BY DEF Fed, Level, Numbers, IInv, TypeOK, Sources, Steady
<1>2. f.dest = d /\ f.seq = read[d]
  BY DEF FrameOf
<1>3. /\ u \in Numbers /\ u[d] = read[d] + 1
      /\ \A c \in Dests : c # d => u[c] = read[c]
      /\ \A c \in Dests : u[c] \in Nat /\ read[c] <= u[c]
  BY <1>1, UpIs DEF Numbers
<1>. HIDE DEF u
<1>4. /\ dataQ \in Seq(Frame) /\ dataQ # << >>
      /\ ToSet(Tail(dataQ)) \subseteq ToSet(dataQ)
      /\ Of(ToSet(Tail(dataQ)), d) = Of(ToSet(dataQ), d) \ {f}
      /\ \A c : c # d => Of(ToSet(Tail(dataQ)), c) = Of(ToSet(dataQ), c)
  BY <1>2, StreamReads
<1>5. Fed(u)'
  <2>1. Span(d, read[d], sent[d]) \ {f} = Span(d, read[d] + 1, sent[d])
    <3>1. \A n : FrameOf(d, n).seq = n
      BY DEF FrameOf
    <3>2. \A n \in read[d] .. sent[d] - 1 : n = read[d] \/ n \in read[d] + 1 .. sent[d] - 1
      BY <1>1
    <3>3. \A n \in read[d] + 1 .. sent[d] - 1 : n # read[d] /\ n \in read[d] .. sent[d] - 1
      BY <1>1
    <3>. QED  BY <3>1, <3>2, <3>3 DEF Span
  <2>2. \A c \in Dests : Of(ToSet(Tail(dataQ)), c) = Span(c, u[c], sent[c])
    BY <1>1, <1>3, <1>4, <2>1
  <2>3. \A c \in Dests : u[c] <= sent[c]
    BY <1>1, <1>3
  <2>. QED  BY <1>1, <1>3, <1>4, <2>2, <2>3 DEF Fed
<1>6. ASSUME NEW c \in Dests, c # d PROVE read[d] + 1 <= read[c] + Skew
  <2>1. CASE read[c] = sent[c]
    BY <1>1, <2>1
  <2>2. CASE read[c] < sent[c]
    <3>. DEFINE g == FrameOf(c, read[c])
    <3>1. g.dest = c /\ g.seq = read[c]
      BY DEF FrameOf
    <3>2. read[c] \in read[c] .. sent[c] - 1
      BY <1>1, <2>2
    <3>3. g \in Span(c, read[c], sent[c])
      BY <3>2 DEF Span
    <3>4. g \in ToSet(dataQ)
      BY <1>1, <3>3 DEF Of
    <3>5. PICK k \in DOMAIN dataQ : dataQ[k] = g
      BY <3>4 DEF ToSet
    <3>6. DOMAIN dataQ = 1 .. Len(dataQ) /\ Len(dataQ) \in Nat \ {0} /\ Head(dataQ) = dataQ[1]
      BY <1>4
    <3>7. k # 1 /\ 1 \in DOMAIN dataQ
      BY <1>2, <1>6, <3>1, <3>5, <3>6
    <3>8. dataQ[1].seq < dataQ[k].seq + Skew
      BY <3>5, <3>6, <3>7 DEF Level
    <3>9. read[d] < read[c] + Skew
      BY <1>2, <3>1, <3>5, <3>6, <3>8
    <3>. QED  BY <1>1, <3>9
  <2>. QED  BY <1>1, <2>1, <2>2
<1>7. ASSUME NEW b \in Dests, NEW c \in Dests PROVE u[b] <= u[c] + Skew
  <2>1. CASE b = d /\ c # d
    BY <1>3, <1>6, <2>1
  <2>2. CASE b = c
    BY <1>1, <1>3, <2>2
  <2>3. CASE b # d
    BY <1>1, <1>3, <2>3
  <2>. QED  BY <2>1, <2>2, <2>3
<1>8. \A i, j \in DOMAIN Tail(dataQ) :
        i < j => Tail(dataQ)[i].seq < Tail(dataQ)[j].seq + Skew
  <2>. DEFINE n == Len(dataQ)  q == Tail(dataQ)
  <2>1. /\ n \in Nat \ {0} /\ DOMAIN dataQ = 1 .. n /\ DOMAIN q = 1 .. n - 1
        /\ \A i \in 1 .. n - 1 : q[i] = dataQ[i + 1]
    BY <1>4
  <2>. HIDE DEF n, q
  <2>2. ASSUME NEW i \in DOMAIN q, NEW j \in DOMAIN q, i < j
        PROVE  q[i].seq < q[j].seq + Skew
    <3>1. i + 1 \in 1 .. n /\ j + 1 \in 1 .. n /\ i + 1 < j + 1
          /\ q[i] = dataQ[i + 1] /\ q[j] = dataQ[j + 1]
      BY <2>1, <2>2
    <3>. QED  BY <2>1, <3>1 DEF Level
  <2>. QED  BY <2>2 DEF q
<1>9. Level(u)'
  BY <1>1, <1>7, <1>8 DEF Level
<1>. QED  BY <1>5, <1>9 DEF u

(* Buffers that are returned leave no more of them out than there were.    *)
LEMMA HeldLess ==
  ASSUME Steady, IsFiniteSet(held), Cardinality(held) <= Buffers, held' \subseteq held
  PROVE  IsFiniteSet(held') /\ Cardinality(held') <= Buffers
<1>1. /\ IsFiniteSet(held') /\ Cardinality(held') <= Cardinality(held)
      /\ Cardinality(held) \in Nat
  BY FS_Subset, FS_CardinalityType
<1>2. Cardinality(held') \in Nat /\ Buffers \in Nat
  BY <1>1, FS_CardinalityType DEF Steady
<1>. QED  BY <1>1, <1>2

(* Once no frame is being read none is due.                                *)
LEMMA DueRead ==
  ASSUME NEW read \in Numbers, NEW d \in Dests, pc = "data",
         Head(dataQ) = FrameOf(d, read[d]), pc' = "select", NEW c \in Dests
  PROVE  Due(Up(read, d), c)' = Up(read, d)[c] /\ Due(read, c) = Up(read, d)[c]
<1>1. Head(dataQ).dest = d
  BY DEF FrameOf
<1>2. Due(Up(read, d), c)' = Up(read, d)[c]
  BY DEF Due
<1>3. Due(read, c) = Up(read, d)[c]
  <2>1. CASE c = d
    BY <1>1, <2>1, UpIs DEF Due
  <2>2. CASE c # d
    BY <1>1, <2>2, UpIs DEF Due
  <2>. QED  BY <2>1, <2>2
<1>. QED  BY <1>2, <1>3

(* Without an event the frame is kept.                                     *)
LEMMA FlowKeeps ==
  ASSUME Steady, IInv, StreamInv, NEW low, NEW read, NEW last, Flow(low, read, last),
         KeepFrame
  PROVE  FlowInv'
<1>1. /\ pc = "data" /\ ~exited /\ dataQ' = Tail(dataQ) /\ pc' = "select"
      /\ UNCHANGED <<sent, timingQ, lastStamp, cfgVars, sending>>
      /\ UNCHANGED <<runMode, blowOff, trgActive, event, disTrgCnt, exited,
                     pool, txReqQueue>>
      /\ ~trgActive /\ fds' = fds \union {"timing"}
      /\ PutOnLatency(Head(dataQ), latency, remaining, {})
  BY DEF KeepFrame, Accept, Rearmed
<1>2. /\ Fed(read) /\ Level(read) /\ Kept(low, read, last) /\ Windowed(low, read, last)
      /\ Timed(read, last) /\ Accounted(low) /\ Settled
  BY DEF Flow
<1>3. PICK d \in Dests : Head(dataQ) = FrameOf(d, read[d]) /\ read[d] < sent[d]
  BY <1>1, <1>2, NextFrame
<1>4. read \in Numbers /\ low \in Numbers /\ Chains(latency, remaining, low, read)
  BY <1>2 DEF Fed, Kept
<1>5. PICK lo2 : PutTo(low, lo2, read, d, {})
  <2>1. Lists(latency, remaining)
    BY ListsInv
  <2>. QED  BY <1>1, <1>3, <1>4, <2>1, PutRun
<1>. DEFINE u == Up(read, d)
<1>6. Fed(u)' /\ Level(u)'
  BY <1>1, <1>2, <1>3, FedOn
<1>7. event = NoEvent /\ event' = NoEvent
  BY <1>1 DEF IInv, ActiveMatchesEvent
<1>8. AllEvents' = AllEvents /\ Posted' = Posted
  BY <1>1, EventsAlike
<1>9. Settled'
  BY <1>1, <1>2 DEF Settled, cfgVars
<1>10. Kept(lo2, u, last)'
  <2>1. last \in Nat /\ config.post \in Nat /\ config' = config
    BY <1>1, <1>2, Setup DEF Windowed, cfgVars
  <2>2. \A c \in Dests : Reach(low[c], read[c], last + config.post)
    BY <1>2 DEF Kept
  <2>3. last + config.post \in Int
    BY <2>1
  <2>4. \A c \in Dests : Reach(lo2[c], u[c], last + config.post)
    BY <1>5, <2>2, <2>3 DEF PutTo
  <2>. QED  BY <1>5, <2>1, <2>4 DEF Kept, PutTo
<1>11. Windowed(lo2, u, last)'
  <2>1. ASSUME NEW c \in Dests PROVE last <= At(u[c])
    <3>1. last <= At(read[c]) /\ last \in Nat
      BY <1>2, <1>7 DEF Windowed
    <3>2. At(read[c]) <= At(u[c])
      BY <1>3, <1>4, UpIs
    <3>3. At(read[c]) \in Nat /\ At(u[c]) \in Nat
      <4>1. u \in Numbers
        BY <1>3, <1>4, UpIs
      <4>2. read[c] \in Nat /\ u[c] \in Nat
        BY <1>4, <4>1 DEF Numbers
      <4>. QED  BY <4>2, AtIs
    <3>. QED  BY <3>1, <3>2, <3>3
  <2>. QED  BY <1>2, <1>7, <1>8, <2>1 DEF Windowed
<1>12. ASSUME InTime(read) PROVE InTime(u)'
  <2>1. \A c \in Dests : Due(u, c)' = Due(read, c)
    BY <1>1, <1>3, <1>4, DueRead
  <2>. HIDE DEF u
  <2>. QED  BY <1>1, <1>12, <2>1 DEF InTime, cfgVars
<1>13. Timed(u, last)'
  BY <1>1, <1>2, <1>7, <1>12 DEF Timed, Paced, cfgVars
<1>14. Accounted(lo2)'
  <2>1. held' = held \ Span(d, low[d], lo2[d])
    BY <1>5 DEF PutTo
  <2>2. IsFiniteSet(held') /\ Cardinality(held') <= Buffers
    BY <1>2, <2>1, HeldLess DEF Accounted
  <2>3. ASSUME NEW g \in held'
        PROVE  /\ g.dest \in Dests
               /\ g \in Span(g.dest, lo2[g.dest], sent[g.dest]) \union Taken(AllEvents, g.dest)
    <3>1. /\ g \in held /\ g \notin Span(d, low[d], lo2[d]) /\ g.dest \in Dests
          /\ g \in Span(g.dest, low[g.dest], sent[g.dest]) \union Taken(AllEvents, g.dest)
      BY <1>2, <2>1 DEF Accounted
    <3>2. CASE g.dest = d
      <4>1. low[d] \in Nat /\ lo2[d] \in Nat /\ sent[d] \in Nat
        BY <1>4, <1>5 DEF Numbers, PutTo, IInv, TypeOK, Sources
      <4>2. Span(d, low[d], sent[d])
              \subseteq Span(d, low[d], lo2[d]) \union Span(d, lo2[d], sent[d])
        BY <4>1, SpanParts
      <4>. QED  BY <3>1, <3>2, <4>2
    <3>3. CASE g.dest # d
      <4>1. lo2[g.dest] = low[g.dest]
        BY <1>5, <3>1, <3>3 DEF PutTo
      <4>. QED  BY <3>1, <4>1
    <3>. QED  BY <3>2, <3>3
  <2>. QED  BY <1>1, <1>2, <1>8, <2>2, <2>3 DEF Accounted
<1>15. Flow(lo2, u, last)'
  BY <1>6, <1>9, <1>10, <1>11, <1>13, <1>14 DEF Flow
<1>. QED  BY <1>15 DEF FlowInv

-----------------------------------------------------------------------------
(* With an event of which the trigger time is t, a frame is offered to it. *)
LEMMA OfferFlows ==
  ASSUME Steady, IInv, Settled, NEW read \in Numbers, NEW d \in Dests,
         NEW t \in Nat, 0 < t, NEW e, e.trg = t,
         e.beg = t - config.pre, e.end = t + config.post,
         NEW lo, NEW lo2, NEW gone, OfferedTo(e, lo, lo2, read, d, gone),
         UNCHANGED <<sent, config>>,
         IsFiniteSet(held), Cardinality(held) <= Buffers,
         \A g \in held \ gone :
           /\ g.dest \in Dests
           /\ g \in Span(g.dest, lo[g.dest], sent[g.dest])
                    \union Taken(Posted, g.dest) \union ToSet(e.list[g.dest]),
         pool' + (Len(Posted) + 1) = Events
  PROVE  /\ Kept(lo2, Up(read, d), t)' /\ Windowed(lo2, Up(read, d), t)'
         /\ Accounted(lo2)'
<1>. DEFINE u == Up(read, d)
<1>1. /\ lo2 \in Numbers /\ Chains(latency', remaining', lo2, u)
      /\ \A c \in Dests : Reach(lo2[c], u[c], t + config.post)
      /\ OfferedEvent(e, lo2, read, d) /\ Stays(e, lo, lo2, gone)
  BY DEF OfferedTo
<1>2. Kept(lo2, u, t)'
  BY <1>1 DEF Kept
<1>3. Windowed(lo2, u, t)'
  <2>1. Full(Posted')
    BY <1>1 DEF OfferedEvent
  <2>2. CASE event' # NoEvent
    BY <1>1, <2>1, <2>2 DEF OfferedEvent, Windowed
  <2>3. CASE event' = NoEvent
    <3>1. \A c \in Dests : e.end <= At(u[c])
      BY <1>1, <2>3 DEF OfferedEvent
    <3>2. ASSUME NEW c \in Dests PROVE t <= At(u[c])
      <4>1. t + config.post <= At(u[c]) /\ config.post \in Nat
        BY <3>1, Setup
      <4>2. At(u[c]) \in Nat
        <5>1. u \in Numbers
          BY UpIs
        <5>2. u[c] \in Nat
          BY <5>1 DEF Numbers
        <5>. QED  BY <5>2, AtIs
      <4>. HIDE DEF u
      <4>. QED  BY <4>1, <4>2
    <3>. QED  BY <2>1, <2>3, <3>2 DEF Windowed
  <2>. QED  BY <2>2, <2>3
<1>4. Accounted(lo2)'
  <2>1. held' \subseteq held \ gone
    BY <1>1 DEF Stays
  <2>2. IsFiniteSet(held') /\ Cardinality(held') <= Buffers
    BY <2>1, HeldLess
  <2>3. ASSUME NEW g \in held'
        PROVE  /\ g.dest \in Dests
               /\ g \in Span(g.dest, lo2[g.dest], sent[g.dest]) \union Taken(AllEvents', g.dest)
    <3>1. /\ g.dest \in Dests
          /\ g \in Span(g.dest, lo[g.dest], sent[g.dest])
                   \union Taken(Posted, g.dest) \union ToSet(e.list[g.dest])
      BY <2>1
    <3>2. sent[g.dest] \in Nat
      BY <3>1 DEF IInv, TypeOK, Sources
    <3>. QED  BY <1>1, <3>1, <3>2 DEF Stays
  <2>4. pool' + Len(AllEvents') = Events
    BY <1>1 DEF OfferedEvent
  <2>. QED  BY <2>2, <2>3, <2>4 DEF Accounted
<1>. QED  BY <1>2, <1>3, <1>4

(* When the event is complete after it, the next message is in time.       *)
LEMMA OfferInTime ==
  ASSUME Steady, IInv, Settled, runMode = "EXTERNAL",
         NEW read \in Numbers, Level(read), NEW d \in Dests,
         pc = "data", Head(dataQ) = FrameOf(d, read[d]), pc' = "select",
         NEW last \in Nat, Paced(last), At(read[d]) < last + config.post,
         "timing" \in fds', UNCHANGED <<timingQ, config>>
  PROVE  InTime(Up(read, d))'
<1>. DEFINE u == Up(read, d)
<1>1. /\ config.pre \in Nat /\ config.post \in Nat /\ Skew <= Depth + 1
      /\ config.pre + config.post + FrameTicks <= TriggerGap + 1
  BY Setup
<1>2. FrameTicks \in Nat \ {0} /\ Depth \in Nat \ {0} /\ TriggerGap \in Nat /\ Skew \in Nat
  BY RxAssumption DEF Steady
<1>3. \A c \in Dests : read[c] \in Nat /\ u[c] \in Nat /\ u[c] - Depth \in Int
                       /\ (c # d => u[c] = read[c]) /\ u[d] = read[d] + 1
  BY <1>2, UpIs DEF Numbers
<1>. HIDE DEF u
<1>4. ASSUME NEW c \in Dests PROVE u[c] - Depth <= read[d] + 1
  <2>1. CASE c = d
    BY <1>2, <1>3, <2>1
  <2>2. CASE c # d
    <3>1. u[c] <= read[d] + Skew
      BY <1>3, <2>2 DEF Level
    <3>. QED  BY <1>1, <1>2, <1>3, <3>1
  <2>. QED  BY <2>1, <2>2
<1>5. ASSUME timingQ # << >>, NEW c \in Dests
      PROVE  At(u[c] - Depth) <= Head(timingQ).stamp - config.pre
  <2>1. At(u[c] - Depth) <= At(read[d] + 1) /\ At(u[c] - Depth) \in Int
    <3>1. u[c] - Depth \in Int /\ read[d] + 1 \in Int
      BY <1>3
    <3>. QED  BY <1>4, <3>1, AtOrder, AtIs
  <2>2. At(read[d] + 1) = At(read[d]) + FrameTicks /\ At(read[d]) \in Int
    <3>1. read[d] \in Int
      BY <1>3
    <3>. QED  BY <3>1, AtIs
  <2>3. Head(timingQ).stamp \in Nat /\ last + TriggerGap <= Head(timingQ).stamp
    <3>1. timingQ \in Seq(Message)
      BY DEF IInv, TypeOK, Message
    <3>2. 1 \in DOMAIN timingQ /\ Head(timingQ) = timingQ[1] /\ timingQ[1] \in Message
      BY <1>5, <3>1
    <3>. QED  BY <3>2 DEF Paced, Message
  <2>. DEFINE a == At(u[c] - Depth)  b == At(read[d])  h == Head(timingQ).stamp
              p == config.pre  q == config.post
  <2>4. /\ a \in Int /\ b \in Int /\ h \in Nat /\ p \in Nat /\ q \in Nat /\ last \in Nat
        /\ a <= b + FrameTicks /\ b < last + q /\ last + TriggerGap <= h
        /\ p + q + FrameTicks <= TriggerGap + 1
    BY <1>1, <2>1, <2>2, <2>3
  <2>. HIDE DEF a, b, h, p, q
  <2>5. a <= h - p
    BY <1>2, <2>4
  <2>. QED  BY <2>5 DEF a, h, p
<1>6. \A c \in Dests : Due(u, c)' = u[c]
  BY DueRead DEF u
<1>. QED  BY <1>5, <1>6 DEF InTime, u

(* The event in progress is offered the frame.                             *)
LEMMA FlowAdds ==
  ASSUME Steady, IInv, StreamInv, NEW low, NEW read, NEW last, Flow(low, read, last),
         AddFrame
  PROVE  FlowInv'
<1>1. /\ pc = "data" /\ ~exited /\ dataQ' = Tail(dataQ) /\ pc' = "select"
      /\ UNCHANGED <<sent, timingQ, lastStamp, cfgVars, sending>>
      /\ UNCHANGED <<runMode, blowOff, disTrgCnt, pool>>
      /\ trgActive
      /\ Offer(event, Head(dataQ), latency, remaining, {})
  BY DEF AddFrame, Accept
<1>2. /\ Fed(read) /\ Level(read) /\ Kept(low, read, last) /\ Windowed(low, read, last)
      /\ Timed(read, last) /\ Accounted(low) /\ Settled
  BY DEF Flow
<1>3. PICK d \in Dests : Head(dataQ) = FrameOf(d, read[d]) /\ read[d] < sent[d]
  BY <1>1, <1>2, NextFrame
<1>4. read \in Numbers /\ low \in Numbers /\ Chains(latency, remaining, low, read)
  BY <1>2 DEF Fed, Kept
<1>5. /\ event # NoEvent /\ event \in Event /\ AllEvents = Append(Posted, event)
      /\ Posted \in Seq(Event) /\ event.ctbs # {} /\ Counted(event)
  BY <1>1, EventsNow DEF IInv, ActiveMatchesEvent, CountsAgree, Counted
<1>6. /\ last \in Nat /\ 0 < last /\ event.trg = last /\ Full(Posted)
      /\ event.beg = last - config.pre /\ event.end = last + config.post
      /\ Sides(event, low, read)
  BY <1>2, <1>5 DEF Windowed
<1>7. /\ config.pre \in Nat /\ config.post \in Nat /\ config.pre + config.post > 0
      /\ config' = config
  BY <1>1, <1>2, Setup DEF cfgVars
<1>8. event.beg < event.end /\ 0 < event.end
  BY <1>6, <1>7
<1>9. \A c \in Dests : Reach(low[c], read[c], event.end)
  BY <1>2, <1>6 DEF Kept
<1>10. Len(txReqQueue) < TxSlots /\ IsFiniteSet(held) /\ Cardinality(held) <= Buffers
  BY <1>2, <1>6, Room DEF Accounted
<1>11. PICK lo2 : OfferedTo(event, low, lo2, read, d, {})
  <2>1. Lists(latency, remaining)
    BY ListsInv
  <2>2. Offer(event, FrameOf(d, read[d]), latency, remaining, {})
    BY <1>1, <1>3
  <2>. QED  BY <1>1, <1>4, <1>5, <1>6, <1>8, <1>9, <1>10, <2>1, <2>2, OfferRun
<1>. DEFINE u == Up(read, d)
<1>12. Fed(u)' /\ Level(u)'
  BY <1>1, <1>2, <1>3, FedOn
<1>13. OfferedEvent(event, lo2, read, d)
  BY <1>11 DEF OfferedTo
<1>14. Settled'
  BY <1>1, <1>2, <1>13 DEF Settled, OfferedEvent, cfgVars
<1>15. Kept(lo2, u, last)' /\ Windowed(lo2, u, last)' /\ Accounted(lo2)'
  <2>1. ASSUME NEW g \in held \ {}
        PROVE  /\ g.dest \in Dests
               /\ g \in Span(g.dest, low[g.dest], sent[g.dest])
                        \union Taken(Posted, g.dest) \union ToSet(event.list[g.dest])
    <3>1. /\ g.dest \in Dests
          /\ g \in Span(g.dest, low[g.dest], sent[g.dest]) \union Taken(AllEvents, g.dest)
      BY <1>2 DEF Accounted
    <3>2. Taken(AllEvents, g.dest) = Taken(Posted, g.dest) \union ToSet(event.list[g.dest])
      BY <1>5, TakenAppend
    <3>. QED  BY <3>1, <3>2
  <2>2. pool' + (Len(Posted) + 1) = Events
    <3>1. Len(AllEvents) = Len(Posted) + 1
      BY <1>5, TakenAppend
    <3>. QED  BY <1>1, <1>2, <3>1 DEF Accounted
  <2>3. UNCHANGED <<sent, config>>
    BY <1>1, <1>7
  <2>. QED  BY <1>2, <1>4, <1>6, <1>10, <1>11, <2>1, <2>2, <2>3, OfferFlows
<1>16. Timed(u, last)'
  <2>1. ASSUME runMode = "EXTERNAL" PROVE Paced(last)' /\ (event' = NoEvent => InTime(u)')
    <3>1. Paced(last) /\ Paced(last)'
      BY <1>1, <1>2, <2>1 DEF Timed, Paced
    <3>2. ASSUME event' = NoEvent PROVE InTime(u)'
      <4>1. "timing" \in fds' /\ At(read[d]) < last + config.post
        BY <1>6, <1>13, <3>2 DEF OfferedEvent
      <4>2. UNCHANGED <<timingQ, config>>
        BY <1>1, <1>7
      <4>. QED  BY <1>1, <1>2, <1>3, <1>4, <1>6, <2>1, <3>1, <4>1, <4>2, OfferInTime
    <3>. QED  BY <3>1, <3>2
  <2>2. UNCHANGED <<runMode, config>>
    BY <1>1, <1>7
  <2>. QED  BY <1>2, <2>1, <2>2 DEF Timed
<1>17. Flow(lo2, u, last)'
  BY <1>12, <1>14, <1>15, <1>16 DEF Flow
<1>. QED  BY <1>17 DEF FlowInv

(* A buffer that an event takes from the latency lists is the event's, or  *)
(* free.                                                                   *)
LEMMA SeededHeld ==
  ASSUME IInv, NEW low \in Numbers, Accounted(low), event = NoEvent,
         NEW e, NEW lo, NEW r, SeededTo(e, low, lo, r)
  PROVE  \A g \in held \ Seed(e).free :
           /\ g.dest \in Dests
           /\ g \in Span(g.dest, lo[g.dest], sent[g.dest])
                    \union Taken(Posted, g.dest) \union ToSet(Seed(e).event.list[g.dest])
<1>. DEFINE s == Seed(e)
<1>1. lo \in Numbers /\ \A d \in Dests :
        Span(d, low[d], lo[d]) \subseteq s.free \union ToSet(s.event.list[d])
  BY DEF SeededTo
<1>. HIDE DEF s
<1>2. AllEvents = Posted
  BY EventsNow DEF IInv
<1>3. ASSUME NEW g \in held \ s.free
      PROVE  /\ g.dest \in Dests
             /\ g \in Span(g.dest, lo[g.dest], sent[g.dest])
                      \union Taken(Posted, g.dest) \union ToSet(s.event.list[g.dest])
  <2>1. /\ g.dest \in Dests
        /\ g \in Span(g.dest, low[g.dest], sent[g.dest]) \union Taken(Posted, g.dest)
    BY <1>2 DEF Accounted
  <2>2. \A d \in Dests : Span(d, low[d], sent[d])
                            \subseteq Span(d, low[d], lo[d]) \union Span(d, lo[d], sent[d])
    <3>. TAKE d \in Dests
    <3>1. low[d] \in Nat /\ lo[d] \in Nat /\ sent[d] \in Nat
      BY <1>1 DEF Numbers, IInv, TypeOK, Sources
    <3>. QED  BY <3>1, SpanParts
  <2>3. Span(g.dest, low[g.dest], sent[g.dest])
          \subseteq Span(g.dest, low[g.dest], lo[g.dest])
                    \union Span(g.dest, lo[g.dest], sent[g.dest])
    BY <2>1, <2>2
  <2>. QED  BY <1>1, <2>1, <2>3
<1>. QED  BY <1>3 DEF s

(* There is a descriptor for a new event, and room to post it.             *)
LEMMA Descriptor ==
  ASSUME IInv, StreamInv, Steady, NEW low, Accounted(low), Full(Posted), event = NoEvent
  PROVE  /\ pool # 0 /\ pool + Len(Posted) = Events /\ Len(txReqQueue) < TxSlots
         /\ IsFiniteSet(held) /\ Cardinality(held) <= Buffers
<1>1. AllEvents = Posted /\ Posted \in Seq(Event)
  BY EventsNow DEF IInv
<1>2. IsFiniteSet(held) /\ Cardinality(held) <= Buffers /\ pool + Len(Posted) = Events
  BY <1>1 DEF Accounted
<1>3. Len(Posted) < Events /\ Len(txReqQueue) < TxSlots
  BY <1>2, Room
<1>4. Len(Posted) \in Nat /\ pool \in Nat /\ Events \in Nat
  BY <1>1, RxAssumption DEF IInv, TypeOK
<1>. QED  BY <1>2, <1>3, <1>4

(* The latency lists go back to the window of a trigger that is read.      *)
LEMMA TriggerReach ==
  ASSUME Steady, IInv, Settled, runMode = "EXTERNAL", NEW low, NEW read,
         NEW last \in Nat, Fed(read), Kept(low, read, last), InTime(read),
         pc = "timing", timingQ # << >>,
         NEW t, t = Head(timingQ).stamp, t \in Nat, last + TriggerGap <= t,
         NEW d \in Dests
  PROVE  At(low[d]) <= Max2(0, t - config.pre)
<1>1. /\ config.pre \in Nat /\ config.post \in Nat
      /\ config.pre + config.post + FrameTicks <= TriggerGap + 1
      /\ TriggerGap \in Nat /\ FrameTicks \in Nat
  BY Setup, RxAssumption
<1>2. low[d] \in Nat /\ At(low[d]) \in Nat
  BY AtIs DEF Kept, Numbers
<1>3. At(low[d]) <= t - config.pre
  <2>1. CASE low[d] = read[d] - Depth
    <3>1. Due(read, d) = read[d]
      BY DEF Due
    <3>. QED  BY <2>1, <3>1 DEF InTime
  <2>2. CASE At(low[d]) < (last + config.post) + FrameTicks
    <3>. DEFINE a == At(low[d])  p == config.pre  q == config.post
    <3>1. /\ a \in Nat /\ p \in Nat /\ q \in Nat /\ a < (last + q) + FrameTicks
          /\ p + q + FrameTicks <= TriggerGap + 1
      BY <1>1, <1>2, <2>2
    <3>. HIDE DEF a, p, q
    <3>2. a <= t - p
      BY <1>1, <3>1
    <3>. QED  BY <3>2 DEF a, p
  <2>3. Reach(low[d], read[d], last + config.post)
    BY DEF Kept
  <2>. QED  BY <2>1, <2>2, <2>3 DEF Reach
<1>. DEFINE a == At(low[d])  b == t - config.pre
<1>4. a \in Nat /\ b \in Int /\ a <= b
  BY <1>1, <1>2, <1>3
<1>. HIDE DEF a, b
<1>5. a <= Max2(0, b)
  BY <1>4 DEF Max2
<1>. QED  BY <1>5 DEF a, b

(* A trigger starts an event.                                              *)
LEMMA FlowTriggers ==
  ASSUME Steady, IInv, StreamInv, NEW low, NEW read, NEW last, Flow(low, read, last),
         NEW post \in Posts, TakeTriggerWith(post)
  PROVE  FlowInv'
<1>. PICK t : t = Head(timingQ).stamp
  OBVIOUS
<1>. DEFINE e == NewEvent(t, config.pre, config.post)  s == Seed(e)
<1>1. /\ Fed(read) /\ Level(read) /\ Kept(low, read, last) /\ Windowed(low, read, last)
      /\ Timed(read, last) /\ Accounted(low) /\ Settled
  BY DEF Flow
<1>2. post = config.post
  BY <1>1 DEF Settled, Posts
<1>3. /\ pc = "timing" /\ ~exited /\ runMode = "EXTERNAL" /\ ~trgActive
      /\ timingQ' = Tail(timingQ) /\ AfterTiming
      /\ UNCHANGED <<sent, dataQ, lastStamp, cfgVars, runMode, blowOff, disTrgCnt, sending>>
  BY DEF TakeTriggerWith, IsTrigger
<1>4. event = NoEvent /\ timingQ # << >>
  BY <1>3 DEF IInv, ActiveMatchesEvent, Reading
<1>5. last \in Nat /\ Full(Posted)
  BY <1>1 DEF Windowed
<1>6. /\ pool # 0 /\ pool + Len(Posted) = Events /\ Len(txReqQueue) < TxSlots
      /\ IsFiniteSet(held) /\ Cardinality(held) <= Buffers
  BY <1>1, <1>4, <1>5, Descriptor
<1>7. /\ pool' = pool - 1
      /\ latency' = s.latency /\ remaining' = s.remaining /\ held' = held \ s.free
      /\ Settle(s.event, fds \ {"timing"})
  BY <1>2, <1>6 DEF TakeTriggerWith, NoDescriptor
<1>. HIDE DEF s
<1>8. Paced(last) /\ InTime(read)
  BY <1>1, <1>3, <1>4 DEF Timed
<1>9. t \in Nat /\ last + TriggerGap <= t /\ Paced(t)'
  <2>1. lastStamp' = lastStamp
    BY <1>3
  <2>. QED  BY <1>3, <1>4, <1>5, <1>8, <2>1, NextMessage
<1>10. /\ config.pre \in Nat /\ config.post \in Nat /\ config.pre + config.post > 0
       /\ config.pre + config.post + FrameTicks <= TriggerGap + 1
       /\ TriggerGap \in Nat /\ FrameTicks \in Nat \ {0}
  BY <1>1, <1>3, Setup, RxAssumption
<1>11. e \in Event /\ e.trg = t /\ e.beg = t - config.pre /\ e.end = t + config.post
  <2>1. t \in Int
    BY <1>9
  <2>. QED  BY <1>10, <2>1, NewEventType DEF NewEvent
<1>. HIDE DEF e
<1>12. 0 < t /\ e.beg < e.end /\ 0 < e.end
  <2>1. TriggerGap \in Nat \ {0}
    BY <1>10
  <2>. QED  BY <1>5, <1>9, <1>10, <1>11, <2>1
<1>13. \A d \in Dests : At(low[d]) <= Max2(0, e.beg)
  BY <1>1, <1>3, <1>4, <1>5, <1>8, <1>9, <1>11, TriggerReach
<1>14. read \in Numbers /\ low \in Numbers /\ Chains(latency, remaining, low, read)
  BY <1>1 DEF Fed, Kept
<1>15. PICK lo : SeededTo(e, low, lo, read)
  BY <1>11, <1>12, <1>13, <1>14, SeedRun
<1>16. /\ lo \in Numbers /\ Chains(latency', remaining', lo, read)
       /\ Sides(s.event, lo, read) /\ \A d \in Dests : Reach(lo[d], read[d], t + config.post)
       /\ s.event.trg = t /\ s.event.beg = t - config.pre /\ s.event.end = t + config.post
  BY <1>7, <1>11, <1>15 DEF SeededTo, s
<1>17. s.event \in Event /\ Counted(s.event)
  BY <1>11, SeedFacts DEF s, IInv
<1>18. exited' = FALSE
  <2>1. fds \ {"timing"} \subseteq {"timing", "data"}
    BY DEF IInv, TypeOK
  <2>. QED  BY <1>7, <1>17, <2>1, SettleFacts
<1>19. /\ Full(Posted')
       /\ Len(AllEvents') = Len(Posted) + 1
       /\ \A d : Taken(AllEvents', d) = Taken(Posted, d) \union ToSet(s.event.list[d])
       /\ \/ event' = s.event
          \/ /\ event' = NoEvent /\ "timing" \in fds'
             /\ \A d \in Dests : s.event.end <= At(read[d])
  <2>1. UNCHANGED sending
    BY <1>3
  <2>. QED  BY <1>5, <1>6, <1>7, <1>16, <1>17, <2>1, SettleGoes
<1>20. Settled' /\ Fed(read)' /\ Level(read)'
  BY <1>1, <1>3, <1>18 DEF Settled, Fed, Level, cfgVars
<1>21. config' = config
  BY <1>3 DEF cfgVars
<1>22. Kept(lo, read, t)'
  BY <1>16, <1>21 DEF Kept
<1>23. Windowed(lo, read, t)'
  <2>1. CASE event' = NoEvent
    <3>1. \A d \in Dests : t + config.post <= At(read[d])
      BY <1>16, <1>19, <1>17, <2>1, NoEventAssumption
    <3>2. ASSUME NEW d \in Dests PROVE t <= At(read[d])
      <4>1. At(read[d]) \in Nat /\ t + config.post <= At(read[d])
        BY <1>14, <3>1, AtIs DEF Numbers
      <4>. QED  BY <1>9, <1>10, <4>1
    <3>. QED  BY <1>9, <1>19, <2>1, <3>2 DEF Windowed
  <2>2. CASE event' # NoEvent
    <3>1. event' = s.event
      BY <1>19, <2>2
    <3>. QED  BY <1>9, <1>12, <1>16, <1>19, <1>21, <2>2, <3>1 DEF Windowed
  <2>. QED  BY <2>1, <2>2
<1>24. Timed(read, t)'
  <2>1. ASSUME event' = NoEvent PROVE InTime(read)'
    <3>1. "timing" \in fds'
      BY <1>17, <1>19, <2>1, NoEventAssumption
    <3>2. UNCHANGED <<dataQ, lastStamp, config>>
      BY <1>3, <1>21
    <3>. QED  BY <1>1, <1>3, <1>5, <1>8, <3>1, <3>2, NextInTime
  <2>2. runMode' = "EXTERNAL"
    BY <1>3
  <2>. QED  BY <1>9, <2>1, <2>2 DEF Timed
<1>25. Accounted(lo)'
  <2>1. IsFiniteSet(held') /\ Cardinality(held') <= Buffers
    BY <1>6, <1>7, HeldLess
  <2>2. ASSUME NEW g \in held'
        PROVE  /\ g.dest \in Dests
               /\ g \in Span(g.dest, lo[g.dest], sent[g.dest]) \union Taken(AllEvents', g.dest)
    <3>1. g \in held \ Seed(e).free
      BY <1>7 DEF s
    <3>2. /\ g.dest \in Dests
          /\ g \in Span(g.dest, lo[g.dest], sent[g.dest])
                   \union Taken(Posted, g.dest) \union ToSet(s.event.list[g.dest])
      BY <1>1, <1>4, <1>14, <1>15, <3>1, SeededHeld DEF s
    <3>. QED  BY <1>19, <3>2
  <2>3. pool' + Len(AllEvents') = Events
    <3>1. pool \in Nat /\ Posted \in Seq(Event) /\ Events \in Nat
      BY EventsNow, RxAssumption DEF IInv, TypeOK
    <3>2. Len(Posted) \in Nat
      BY <3>1
    <3>. QED  BY <1>6, <1>7, <1>19, <3>1, <3>2
  <2>4. sent' = sent
    BY <1>3
  <2>. QED  BY <2>1, <2>2, <2>3, <2>4 DEF Accounted
<1>26. Flow(lo, read, t)'
  BY <1>20, <1>22, <1>23, <1>24, <1>25 DEF Flow
<1>. QED  BY <1>26 DEF FlowInv

(* Multiples of a period.                                                  *)
LEMMA MultipleIs ==
  ASSUME NEW p \in Nat \ {0}, NEW m \in Nat
  PROVE  p * m \in Nat /\ (p * m) % p = 0
<1>. DEFINE x == p * m  k == x \div p  r == x % p
<1>1. x \in Nat
  <2>1. \A i, j \in Nat : i * j \in Nat
    OBVIOUS
  <2>. QED  BY <2>1
<1>2. x = p * m
  OBVIOUS
<1>. HIDE DEF x
<1>3. k \in Nat /\ r \in 0 .. p - 1 /\ x = p * k + r
  BY <1>1
<1>. HIDE DEF k, r
<1>4. r = p * (m - k)
  BY <1>2, <1>3
<1>5. \A i \in Nat : p * (i + 1) = p * i + p /\ p * i \in Nat
  <2>1. \A i, j \in Nat : i * j \in Nat
    OBVIOUS
  <2>. QED  BY <2>1
<1>6. ~(m > k)
  <2>. SUFFICES ASSUME m > k PROVE FALSE
    OBVIOUS
  <2>1. m - k - 1 \in Nat /\ m - k = (m - k - 1) + 1
    BY <1>3
  <2>2. p * (m - k) = p * (m - k - 1) + p /\ p * (m - k - 1) \in Nat
    BY <1>5, <2>1
  <2>. QED  BY <1>3, <1>4, <2>2
<1>7. ~(m < k)
  <2>. SUFFICES ASSUME m < k PROVE FALSE
    OBVIOUS
  <2>1. k - m - 1 \in Nat /\ k - m = (k - m - 1) + 1
    BY <1>3
  <2>2. p * (k - m) = p * (k - m - 1) + p /\ p * (k - m - 1) \in Nat
    BY <1>5, <2>1
  <2>3. p * (k - m) = 0 - r
    BY <1>3, <1>4
  <2>. QED  BY <1>3, <2>2, <2>3
<1>8. m = k
  BY <1>3, <1>6, <1>7
<1>9. r = 0
  BY <1>2, <1>3, <1>8
<1>. QED  BY <1>1, <1>9 DEF x, r

(* What leaves no remainder is a multiple.                                 *)
LEMMA MultipleOf ==
  ASSUME NEW p \in Nat \ {0}, NEW x \in Nat, x % p = 0
  PROVE  \E m \in Nat : x = p * m
<1>1. x \div p \in Nat /\ x = p * (x \div p) + (x % p)
  OBVIOUS
<1>2. x = p * (x \div p)
  <2>1. p * (x \div p) \in Int
    BY <1>1
  <2>. QED  BY <1>1, <2>1
<1>. QED  BY <1>1, <1>2

(* Two multiples of the period are a period apart.                         *)
LEMMA MultipleNext ==
  ASSUME NEW p \in Nat \ {0}, NEW x \in Nat, NEW y \in Nat,
         x % p = 0, y % p = 0, x < y
  PROVE  x + p <= y
<1>1. PICK m \in Nat : x = p * m
  BY MultipleOf
<1>2. PICK n \in Nat : y = p * n
  BY MultipleOf
<1>3. \A i, j \in Nat : i * j \in Nat
  OBVIOUS
<1>4. m < n
  <2>. SUFFICES ASSUME n <= m PROVE FALSE
    OBVIOUS
  <2>1. m - n \in Nat /\ m = n + (m - n)
    OBVIOUS
  <2>2. p * m = p * n + p * (m - n) /\ p * (m - n) \in Nat
    BY <1>3, <2>1
  <2>. QED  BY <1>1, <1>2, <2>2
<1>5. n - m - 1 \in Nat /\ n = (m + 1) + (n - m - 1)
  BY <1>4
<1>6. p * n = p * m + p + p * (n - m - 1) /\ p * (n - m - 1) \in Nat
  BY <1>3, <1>5
<1>. QED  BY <1>1, <1>2, <1>6

(* A multiple of a multiple is a multiple: the trigger of a period of      *)
(* whole frames begins a frame.                                            *)
LEMMA MultipleTwice ==
  ASSUME NEW p \in Nat \ {0}, NEW q \in Nat \ {0}, NEW x \in Nat,
         q % p = 0, x % q = 0
  PROVE  x % p = 0
<1>1. PICK m \in Nat : q = p * m
  BY MultipleOf
<1>2. PICK n \in Nat : x = q * n
  BY MultipleOf
<1>3. m * n \in Nat
  <2>1. \A i, j \in Nat : i * j \in Nat
    OBVIOUS
  <2>. QED  BY <2>1
<1>4. x = p * (m * n)
  BY <1>1, <1>2
<1>. QED  BY <1>3, <1>4, MultipleIs

(* The time of a software trigger: the first multiple of the period after  *)
(* the beginning of the frame that fires it.                               *)
LEMMA SoftTimeIs ==
  ASSUME NEW d \in Dests, NEW n \in Nat, NEW period \in Nat \ {0},
         SoftTriggers(FrameOf(d, n), period), NEW t, t = SoftTime(FrameOf(d, n), period)
  PROVE  /\ t \in Nat /\ At(n) < t /\ t % period = 0
         /\ At(n) + (IF period % FrameTicks = 0 THEN FrameTicks ELSE 1) <= t
<1>. DEFINE f == FrameOf(d, n)
<1>1. f \in Frame /\ Beg(f) = At(n) /\ End(f) = At(n + 1)
  BY FrameOfIs
<1>2. At(n) \in Nat /\ At(n + 1) \in Nat /\ FrameTicks \in Nat \ {0}
  <2>1. n + 1 \in Nat
    OBVIOUS
  <2>. QED  BY <2>1, AtIs
<1>3. t \in Int /\ At(n) < t
  BY <1>1, SoftTimeAfter
<1>. HIDE DEF f
<1>4. t \in Nat
  BY <1>2, <1>3
<1>5. t % period = 0
  <2>. DEFINE b == At(n + 1)
  <2>1. t = b - (b % period)
    BY <1>1 DEF SoftTime, f
  <2>. HIDE DEF b
  <2>2. b \in Nat
    BY <1>2 DEF b
  <2>. DEFINE k == b \div period  r == b % period
  <2>3. k \in Nat /\ r \in 0 .. period - 1 /\ b = period * k + r
    BY <2>2
  <2>4. period * k \in Nat
    BY <2>3, MultipleIs
  <2>5. t = b - r
    BY <2>1
  <2>. HIDE DEF k, r
  <2>6. t = period * k
    BY <2>3, <2>4, <2>5
  <2>. QED  BY <2>3, <2>6, MultipleIs
<1>6. ASSUME period % FrameTicks = 0 PROVE At(n) + FrameTicks <= t
  <2>1. t % FrameTicks = 0
    BY <1>2, <1>4, <1>5, <1>6, MultipleTwice
  <2>2. At(n) = FrameTicks * n
    BY <1>2 DEF At
  <2>3. At(n) % FrameTicks = 0
    BY <1>2, <2>2, MultipleIs
  <2>. QED  BY <1>2, <1>3, <1>4, <2>1, <2>3, MultipleNext
<1>7. At(n) + 1 <= t
  BY <1>2, <1>3
<1>. QED  BY <1>3, <1>4, <1>5, <1>6, <1>7

(* The latency lists go back to the window of a software trigger.          *)
LEMMA SoftReach ==
  ASSUME Steady, IInv, Settled, runMode = "SOFTWARE", NEW low, NEW read,
         NEW last \in Nat, Fed(read), Level(read), Kept(low, read, last),
         NEW d \in Dests, NEW t \in Nat, last + config.period <= t,
         At(read[d]) + (IF config.period % FrameTicks = 0 THEN FrameTicks ELSE 1) <= t,
         NEW c \in Dests
  PROVE  At(low[c]) <= Max2(0, t - config.pre)
<1>. DEFINE g == IF config.period % FrameTicks = 0 THEN FrameTicks ELSE 1
            p == config.pre  q == config.post
<1>1. /\ p \in Nat /\ q \in Nat /\ config.period \in Nat
      /\ p + q + FrameTicks <= config.period + 1
      /\ p + Skew * FrameTicks <= Depth * FrameTicks + g
  BY Setup
<1>2. FrameTicks \in Nat /\ Skew \in Nat /\ Depth \in Nat /\ g \in Nat
  BY RxAssumption DEF Steady
<1>3. At(read[d]) + g <= t
  OBVIOUS
<1>. HIDE DEF g, p, q
<1>4. /\ low[c] \in Nat /\ read[c] \in Nat /\ read[d] \in Nat
      /\ At(low[c]) \in Nat /\ At(read[d]) \in Nat
  BY AtIs DEF Kept, Fed, Numbers
<1>5. At(low[c]) <= t - p
  <2>1. CASE low[c] = read[c] - Depth
    <3>1. read[c] <= read[d] + Skew
      BY DEF Level
    <3>2. low[c] \in Int /\ low[c] + Depth \in Int /\ read[d] + Skew \in Int
          /\ low[c] + Depth <= read[d] + Skew
          /\ Depth \in Int /\ Skew \in Int /\ read[d] \in Int
      BY <1>2, <1>4, <2>1, <3>1
    <3>3. /\ At(low[c] + Depth) <= At(read[d] + Skew)
          /\ At(low[c] + Depth) = At(low[c]) + At(Depth)
          /\ At(read[d] + Skew) = At(read[d]) + At(Skew)
          /\ At(Depth) \in Int /\ At(Skew) \in Int
      BY <3>2, AtIs, AtOrder
    <3>4. p + At(Skew) <= At(Depth) + g
      BY <1>1 DEF At
    <3>. QED  BY <1>1, <1>2, <1>3, <1>4, <3>3, <3>4
  <2>2. CASE At(low[c]) < (last + q) + FrameTicks
    <3>. DEFINE a == At(low[c])  v == config.period
    <3>1. /\ a \in Nat /\ a < (last + q) + FrameTicks /\ last + v <= t
          /\ p + q + FrameTicks <= v + 1 /\ v \in Nat
      BY <1>1, <1>4, <2>2
    <3>. HIDE DEF a, v
    <3>2. a <= t - p
      BY <1>1, <1>2, <3>1
    <3>. QED  BY <3>2 DEF a
  <2>3. Reach(low[c], read[c], last + q)
    BY DEF Kept, q
  <2>. QED  BY <2>1, <2>2, <2>3 DEF Reach
<1>. DEFINE a == At(low[c])  b == t - p
<1>6. a \in Nat /\ b \in Int /\ a <= b
  BY <1>1, <1>4, <1>5
<1>. HIDE DEF a, b
<1>7. a <= Max2(0, b)
  BY <1>6 DEF Max2
<1>. QED  BY <1>7 DEF a, b, p

(* A software trigger starts an event and the frame is offered to it.      *)
LEMMA FlowSoft ==
  ASSUME Steady, IInv, StreamInv, NEW low, NEW read, NEW last, Flow(low, read, last),
         NEW pre \in Pres, NEW post \in Posts, SoftTriggerWith(pre, post)
  PROVE  FlowInv'
<1>. PICK t : t = SoftTime(Head(dataQ), config.period)
  OBVIOUS
<1>. DEFINE e == NewEvent(t, config.pre, config.post)  s == Seed(e)
<1>1. /\ Fed(read) /\ Level(read) /\ Kept(low, read, last) /\ Windowed(low, read, last)
      /\ Timed(read, last) /\ Accounted(low) /\ Settled
  BY DEF Flow
<1>2. pre = config.pre /\ post = config.post
  BY <1>1 DEF Settled, Pres, Posts
<1>3. /\ pc = "data" /\ ~exited /\ dataQ' = Tail(dataQ) /\ pc' = "select"
      /\ UNCHANGED <<sent, timingQ, lastStamp, cfgVars, sending>>
      /\ UNCHANGED <<runMode, blowOff, disTrgCnt>>
      /\ Head(dataQ).dest \in Dests /\ StartsEvent(Head(dataQ))
  BY DEF SoftTriggerWith, Accept
<1>4. /\ runMode = "SOFTWARE" /\ event = NoEvent
      /\ SoftTriggers(Head(dataQ), config.period)
  BY <1>3 DEF StartsEvent, IInv, ActiveMatchesEvent
<1>5. last \in Nat /\ Full(Posted)
  BY <1>1 DEF Windowed
<1>6. /\ pool # 0 /\ pool + Len(Posted) = Events /\ Len(txReqQueue) < TxSlots
      /\ IsFiniteSet(held) /\ Cardinality(held) <= Buffers
  BY <1>1, <1>4, <1>5, Descriptor
<1>7. s.event.ctbs # {}
  BY <1>2, <1>3, FiringFrame
<1>8. pool' = pool - 1 /\ Offer(s.event, Head(dataQ), s.latency, s.remaining, s.free)
  BY <1>2, <1>6, <1>7 DEF SoftTriggerWith, NoDescriptor, Complete
<1>. HIDE DEF s
<1>9. PICK d \in Dests : Head(dataQ) = FrameOf(d, read[d]) /\ read[d] < sent[d]
  BY <1>1, <1>3, NextFrame
<1>10. /\ config.pre \in Nat /\ config.post \in Nat /\ config.pre + config.post > 0
       /\ config.period \in Nat \ {0} /\ config' = config
  BY <1>1, <1>3, Setup DEF cfgVars
<1>11. read \in Numbers /\ low \in Numbers /\ Chains(latency, remaining, low, read)
  BY <1>1 DEF Fed, Kept
<1>12. read[d] \in Nat /\ At(read[d]) \in Nat
  BY <1>11, AtIs DEF Numbers
<1>13. /\ t \in Nat /\ At(read[d]) < t /\ t % config.period = 0
       /\ At(read[d]) + (IF config.period % FrameTicks = 0 THEN FrameTicks ELSE 1) <= t
  <2>1. SoftTriggers(FrameOf(d, read[d]), config.period)
        /\ t = SoftTime(FrameOf(d, read[d]), config.period)
    BY <1>4, <1>9
  <2>. QED  BY <1>10, <1>12, <2>1, SoftTimeIs
<1>14. last + config.period <= t
  <2>1. last <= At(read[d])
    BY <1>1, <1>4 DEF Windowed
  <2>2. last < t
    BY <1>5, <1>12, <1>13, <2>1
  <2>3. last % config.period = 0
    BY <1>1, <1>4 DEF Timed
  <2>. QED  BY <1>5, <1>10, <1>13, <2>2, <2>3, MultipleNext
<1>15. 0 < t
  BY <1>12, <1>13
<1>16. e \in Event /\ e.trg = t /\ e.beg = t - config.pre /\ e.end = t + config.post
  <2>1. t \in Int
    BY <1>13
  <2>. QED  BY <1>10, <2>1, NewEventType DEF NewEvent
<1>. HIDE DEF e
<1>17. e.beg < e.end /\ 0 < e.end
  BY <1>10, <1>13, <1>15, <1>16
<1>18. \A c \in Dests : At(low[c]) <= Max2(0, e.beg)
  BY <1>1, <1>4, <1>5, <1>13, <1>14, <1>16, SoftReach
<1>19. PICK lo : SeededTo(e, low, lo, read)
  BY <1>11, <1>16, <1>17, <1>18, SeedRun
<1>20. /\ lo \in Numbers /\ Chains(s.latency, s.remaining, lo, read)
       /\ Sides(s.event, lo, read) /\ \A c \in Dests : Reach(lo[c], read[c], s.event.end)
       /\ s.event.trg = t /\ s.event.beg = t - config.pre /\ s.event.end = t + config.post
       /\ s.event.beg < s.event.end /\ 0 < s.event.end
  BY <1>16, <1>17, <1>19 DEF SeededTo, s
<1>21. s.event \in Event /\ Counted(s.event) /\ Lists(s.latency, s.remaining)
  BY <1>16, SeedFacts DEF s, IInv, Lists
<1>22. PICK lo2 : OfferedTo(s.event, lo, lo2, read, d, s.free)
  <2>1. Offer(s.event, FrameOf(d, read[d]), s.latency, s.remaining, s.free)
        /\ UNCHANGED sending
    BY <1>3, <1>8, <1>9
  <2>. QED  BY <1>5, <1>6, <1>7, <1>11, <1>20, <1>21, <2>1, OfferRun
<1>. DEFINE u == Up(read, d)
<1>23. Fed(u)' /\ Level(u)'
  BY <1>1, <1>3, <1>9, FedOn
<1>24. Settled'
  <2>1. exited' = FALSE
    BY <1>22 DEF OfferedTo, OfferedEvent
  <2>. QED  BY <1>1, <1>3, <2>1 DEF Settled, cfgVars
<1>25. Kept(lo2, u, t)' /\ Windowed(lo2, u, t)' /\ Accounted(lo2)'
  <2>1. \A g \in held \ s.free :
           /\ g.dest \in Dests
           /\ g \in Span(g.dest, lo[g.dest], sent[g.dest])
                    \union Taken(Posted, g.dest) \union ToSet(s.event.list[g.dest])
    BY <1>1, <1>4, <1>11, <1>19, SeededHeld DEF s
  <2>2. pool' + (Len(Posted) + 1) = Events
    <3>1. pool \in Nat /\ Posted \in Seq(Event) /\ Events \in Nat
      BY EventsNow, RxAssumption DEF IInv, TypeOK
    <3>2. Len(Posted) \in Nat
      BY <3>1
    <3>. QED  BY <1>6, <1>8, <3>1, <3>2
  <2>3. UNCHANGED <<sent, config>>
    BY <1>3, <1>10
  <2>. QED  BY <1>1, <1>6, <1>11, <1>13, <1>15, <1>20, <1>22, <2>1, <2>2, <2>3, OfferFlows
<1>26. Timed(u, t)'
  BY <1>3, <1>4, <1>10, <1>13 DEF Timed
<1>27. Flow(lo2, u, t)'
  BY <1>23, <1>24, <1>25, <1>26 DEF Flow
<1>. QED  BY <1>27 DEF FlowInv

(* No frame is returned, lost or in error, and the configuration stays.    *)
LEMMA FlowNever ==
  ASSUME Steady, IInv, StreamInv, FlowInv
  PROVE  /\ ~ReturnStray /\ ~ReturnFrame
         /\ ~(\E d \in Dests : FrameLost(d)) /\ ~(\E c \in Configs : SetConfig(c))
         /\ ~(\E mode \in Modes : SetRunMode(mode)) /\ ~WriteField
<1>1. PICK low, read, last : Flow(low, read, last)
  BY DEF FlowInv
<1>2. Fed(read) /\ Settled
  BY <1>1 DEF Flow
<1>3. ASSUME pc = "data", ~exited
      PROVE  ~Unwanted(Head(dataQ)) /\ Head(dataQ).dest # Stray
  <2>1. PICK d \in Dests : Head(dataQ) = FrameOf(d, read[d])
    BY <1>2, <1>3, NextFrame
  <2>. QED  BY <1>2, <2>1, WantedFrame DEF Settled
<1>4. ~ReturnStray
  BY <1>3 DEF ReturnStray
<1>5. ~ReturnFrame
  BY <1>3 DEF ReturnFrame
<1>6. ~(\E d \in Dests : FrameLost(d))
  BY DEF FrameLost, Steady
<1>7. ~WriteField
  BY <1>2 DEF WriteField, Settled
<1>. QED  BY <1>4, <1>5, <1>6, <1>7 DEF Steady

(* A step that changes nothing keeps the invariant.                        *)
LEMMA FlowSame ==
  ASSUME FlowInv, UNCHANGED vars
  PROVE  FlowInv'
<1>1. PICK low, read, last : Flow(low, read, last)
  BY DEF FlowInv
<1>2. /\ Fed(read) /\ Level(read) /\ Kept(low, read, last) /\ Windowed(low, read, last)
      /\ Timed(read, last) /\ Accounted(low) /\ Settled
  BY <1>1 DEF Flow
<1>3. AllEvents' = AllEvents /\ Posted' = Posted
  BY EventsAlike DEF vars, rxVars, txVars
<1>4. /\ Fed(read)' /\ Level(read)' /\ Kept(low, read, last)' /\ Settled'
  BY <1>2 DEF Fed, Level, Kept, Settled, vars, envVars, rxVars, cfgVars
<1>5. Windowed(low, read, last)' /\ Accounted(low)'
  BY <1>2, <1>3 DEF Windowed, Accounted, vars, envVars, rxVars, cfgVars, txVars
<1>6. Timed(read, last)'
  <2>1. \A d \in Dests : Due(read, d)' = Due(read, d)
    BY DEF Due, vars, envVars, rxVars
  <2>. QED  BY <1>2, <2>1 DEF Timed, Paced, InTime, vars, envVars, rxVars, cfgVars
<1>7. Flow(low, read, last)'
  BY <1>4, <1>5, <1>6 DEF Flow
<1>. QED  BY <1>7 DEF FlowInv

(* Every step keeps it: of the front end, of rxRun and of the transmit     *)
(* thread.                                                                 *)
LEMMA FlowStep ==
  ASSUME Steady, IInv, StreamInv, FlowInv, [Next]_vars
  PROVE  FlowInv'
<1>1. PICK low, read, last : Flow(low, read, last)
  BY DEF FlowInv
<1>2. CASE Environment
  BY <1>1, <1>2, FlowNever, FlowArrives, FlowComes DEF Environment
<1>3. CASE Receiver
  <2>1. CASE Select
    BY <1>1, <2>1, FlowSelects
  <2>2. CASE DropTiming
    BY <1>1, <2>2, FlowDrops
  <2>3. CASE TakeTrigger
    BY <1>1, <2>3, FlowTriggers DEF TakeTrigger
  <2>4. CASE KeepFrame
    BY <1>1, <2>4, FlowKeeps
  <2>5. CASE AddFrame
    BY <1>1, <2>5, FlowAdds
  <2>6. CASE SoftTrigger
    BY <1>1, <2>6, FlowSoft DEF SoftTrigger
  <2>. QED  BY <1>3, <2>1, <2>2, <2>3, <2>4, <2>5, <2>6, FlowNever DEF Receiver
<1>4. CASE Transmitter
  BY <1>1, <1>4, FlowTakes, FlowReleases DEF Transmitter
<1>5. CASE UNCHANGED vars
  BY <1>5, FlowSame
<1>. QED  BY <1>2, <1>3, <1>4, <1>5 DEF Next

(* FlowInv holds of every run, with the invariants of the first two parts. *)
LEMMA FlowInvariant == Steady => (Spec => [](IInv /\ StreamInv /\ FlowInv))
<1>. SUFFICES ASSUME Steady PROVE Spec => [](IInv /\ StreamInv /\ FlowInv)
  OBVIOUS
<1>1. Init => FlowInv
  BY FlowInit
<1>2. IInv /\ StreamInv /\ FlowInv /\ [Next]_vars => FlowInv'
  BY FlowStep
<1>. QED  BY <1>1, <1>2, StreamInvariant, PTL DEF Spec

-----------------------------------------------------------------------------
(* What follows of a state                                                 *)

(* The count of the spots left follows from the length of the list.        *)
LEMMA SpotsNow ==
  ASSUME FlowInv
  PROVE  SpotsExact
<1>1. PICK low, read, last : Flow(low, read, last)
  BY DEF FlowInv
<1>2. ASSUME NEW d \in Dests
      PROVE  Len(latency[d].nodes) = Depth - remaining[d]
  <2>1. /\ low[d] \in Nat /\ read[d] \in Nat /\ low[d] <= read[d]
        /\ latency[d] = Chain(d, low[d], read[d])
        /\ remaining[d] = Depth - (read[d] - low[d])
    BY <1>1 DEF Flow, Fed, Kept, Chains, Numbers
  <2>2. Len(latency[d].nodes) = read[d] - low[d]
    <3>1. PICK a \in Nat, b \in Nat : a = low[d] /\ b = read[d]
      BY <2>1
    <3>2. latency[d].nodes = Run(d, a, b) /\ a <= b
      BY <2>1, <3>1 DEF Chain
    <3>3. Len(Run(d, a, b)) = b - a
      BY <3>2, RunIs
    <3>. QED  BY <3>1, <3>2, <3>3
  <2>3. Depth \in Nat
    BY RxAssumption
  <2>. QED  BY <2>1, <2>2, <2>3
<1>. QED  BY <1>2 DEF SpotsExact

(* A run of frames from no later than the window to no earlier than its    *)
(* end covers it.                                                          *)
LEMMA CoversIs ==
  ASSUME NEW e, NEW d \in Dests, Covers(e, d)
  PROVE  Covered(e.list[d], e)
<1>. DEFINE l == e.list[d]
<1>1. PICK a \in Nat, b \in Nat : /\ a < b /\ l = Run(d, a, b)
                                  /\ At(a) <= Max2(0, e.beg) /\ e.end <= At(b)
  BY DEF Covers
<1>. HIDE DEF l
<1>2. /\ l \in Seq(Frame) /\ Len(l) = b - a /\ b - a \in Nat \ {0} /\ DOMAIN l = 1 .. b - a
      /\ \A i \in 1 .. b - a : l[i] = FrameOf(d, a + i - 1) /\ a + i - 1 \in Nat
  <2>1. IsRun(l, d, a, b)
    BY <1>1, RunOf
  <2>. QED  BY <2>1 DEF IsRun
<1>3. l # << >>
  BY <1>2
<1>4. Beg(l[1]) = At(a)
  <2>1. 1 \in 1 .. b - a /\ a + 1 - 1 = a
    BY <1>2
  <2>2. l[1] = FrameOf(d, a)
    BY <1>2, <2>1
  <2>3. Beg(FrameOf(d, a)) = At(a)
    BY FrameOfIs
  <2>. QED  BY <2>2, <2>3
<1>5. End(l[Len(l)]) = At(b)
  <2>1. b - a \in 1 .. b - a /\ a + (b - a) - 1 = b - 1 /\ b - 1 \in Nat /\ (b - 1) + 1 = b
    BY <1>2
  <2>2. l[b - a] = FrameOf(d, b - 1)
    BY <1>2, <2>1
  <2>3. End(FrameOf(d, b - 1)) = At((b - 1) + 1)
    BY <2>1, FrameOfIs
  <2>. QED  BY <1>2, <2>1, <2>2, <2>3
<1>6. ASSUME NEW j \in 1 .. Len(l) - 1 PROVE l[j + 1].seq = l[j].seq + 1
  <2>1. j \in 1 .. b - a /\ j + 1 \in 1 .. b - a /\ a + (j + 1) - 1 = (a + j - 1) + 1
    BY <1>2
  <2>2. l[j] = FrameOf(d, a + j - 1) /\ l[j + 1] = FrameOf(d, (a + j - 1) + 1)
    BY <1>2, <2>1
  <2>. QED  BY <2>2 DEF FrameOf
<1>7. At(a) \in Nat /\ At(b) \in Nat
  BY AtIs
<1>8. Covered(l, e)
  BY <1>1, <1>3, <1>4, <1>5, <1>6, <1>7 DEF Covered
<1>. QED  BY <1>8 DEF l

(* In frames that follow one another the trigger time is in the trigger    *)
(* node.                                                                   *)
LEMMA TrgNodeIn ==
  ASSUME NEW d \in Dests, NEW a \in Nat, NEW b \in Nat, a < b,
         NEW l, l = Run(d, a, b), NEW trg \in Int, TrgNode(l, trg) # 0
  PROVE  LET n == TrgNode(l, trg)
         IN  Beg(l[n]) <= trg /\ trg <= End(l[n])
<1>. DEFINE hit(n)  == trg >= Beg(l[n]) /\ trg <= End(l[n])
            scan(n) == trg < Beg(l[n]) /\ \E i \in 1 .. n : Beg(l[i]) <= trg
            set     == {n \in DOMAIN l : hit(n) \/ scan(n)}
            first   == CHOOSE n \in set : \A m \in set : n <= m
            q       == trg \div FrameTicks
<1>1. /\ b - a \in Nat \ {0} /\ DOMAIN l = 1 .. b - a
      /\ \A i \in 1 .. b - a : /\ l[i] = FrameOf(d, a + i - 1) /\ a + i - 1 \in Nat
                               /\ (a + i - 1) + 1 = a + i
  <2>1. IsRun(l, d, a, b)
    BY RunOf
  <2>. QED  BY <2>1 DEF IsRun
<1>2. ASSUME NEW i \in 1 .. b - a
      PROVE  /\ Beg(l[i]) = At(a + i - 1) /\ End(l[i]) = At(a + i)
             /\ At(a + i - 1) \in Nat /\ At(a + i) = At(a + i - 1) + FrameTicks
  <2>. DEFINE k == a + i - 1
  <2>1. k \in Nat /\ k \in Int /\ k + 1 = a + i /\ l[i] = FrameOf(d, k)
    BY <1>1
  <2>. HIDE DEF k
  <2>3. Beg(FrameOf(d, k)) = At(k) /\ End(FrameOf(d, k)) = At(k + 1)
    BY <2>1, FrameOfIs
  <2>2. /\ Beg(l[i]) = At(k) /\ End(l[i]) = At(k + 1)
        /\ At(k) \in Nat /\ At(k + 1) = At(k) + FrameTicks
    BY <2>1, <2>3, AtIs
  <2>. QED  BY <2>1, <2>2 DEF k
<1>3. set # {}
  BY DEF TrgNode
<1>4. \A n \in set : n \in 1 .. b - a
  BY <1>1
<1>5. ASSUME NEW n \in set, scan(n)
      PROVE  \E m \in set : m < n /\ hit(m)
  <2>1. PICK i \in 1 .. n : Beg(l[i]) <= trg
    BY <1>5
  <2>2. i \in 1 .. b - a /\ n \in 1 .. b - a /\ i # n
    <3>1. n \in 1 .. b - a /\ trg < Beg(l[n])
      BY <1>4, <1>5
    <3>2. i # n
      <4>1. n \in 1 .. b - a /\ Beg(l[n]) \in Nat
        BY <1>2, <3>1
      <4>. HIDE DEF hit, scan, set
      <4>. QED  BY <2>1, <3>1, <4>1
    <3>. HIDE DEF hit, scan, set
    <3>. QED  BY <3>1, <3>2
  <2>3. At(a + i - 1) <= trg /\ trg < At(a + n - 1) /\ At(a + i - 1) \in Nat
    BY <1>2, <1>5, <2>1, <2>2
  <2>4. FrameTicks \in Nat \ {0} /\ trg \in Nat
    <3>. DEFINE x == At(a + i - 1)
    <3>1. x \in Nat /\ x <= trg
      BY <2>3
    <3>2. FrameTicks \in Nat \ {0}
      BY RxAssumption
    <3>. HIDE DEF x
    <3>. QED  BY <3>1, <3>2
  <2>5. q \in Nat /\ FrameTicks * q <= trg /\ trg < FrameTicks * q + FrameTicks
        /\ FrameTicks * q \in Nat
    <3>1. q \in Nat /\ trg = FrameTicks * q + (trg % FrameTicks)
          /\ trg % FrameTicks \in 0 .. FrameTicks - 1
      BY <2>4
    <3>2. FrameTicks * q \in Nat
      BY <2>4, <3>1, MultipleIs
    <3>. HIDE DEF q
    <3>. QED  BY <2>4, <3>1, <3>2
  <2>6. At(q) = FrameTicks * q
    BY <2>4, <2>5 DEF At
  <2>. HIDE DEF q
  <2>7. At(q + 1) = At(q) + FrameTicks /\ q \in Int
    BY <2>5, AtIs
  <2>8. a + i - 1 <= q
    <3>. SUFFICES ASSUME q < a + i - 1 PROVE FALSE
      BY <2>2, <2>5
    <3>1. a + i - 1 \in Int /\ q + 1 \in Int /\ q + 1 <= a + i - 1
      BY <2>2, <2>5
    <3>2. At(q + 1) <= At(a + i - 1)
      BY <3>1, AtOrder
    <3>. QED  BY <2>3, <2>4, <2>5, <2>6, <2>7, <3>2
  <2>9. q < a + n - 1
    <3>. SUFFICES ASSUME a + n - 1 <= q PROVE FALSE
      BY <2>2, <2>5
    <3>1. a + n - 1 \in Int /\ q \in Int
      BY <2>2, <2>7
    <3>2. At(a + n - 1) <= At(q) /\ At(a + n - 1) \in Int
      BY <3>1, AtOrder, AtIs
    <3>. QED  BY <2>3, <2>4, <2>5, <2>6, <3>2
  <2>. DEFINE m == q - a + 1
  <2>10. m \in 1 .. b - a /\ m < n /\ a + m - 1 = q
    BY <2>2, <2>5, <2>8, <2>9
  <2>. HIDE DEF m
  <2>11. Beg(l[m]) = At(q) /\ End(l[m]) = At(q) + FrameTicks
    BY <1>2, <2>10
  <2>12. hit(m)
    BY <2>4, <2>5, <2>6, <2>11
  <2>. HIDE DEF hit, scan
  <2>. QED  BY <1>1, <2>10, <2>12
<1>6. \E n \in set : \A m \in set : n <= m
  <2>1. PICK n \in set : hit(n)
    BY <1>3, <1>5
  <2>2. \A m \in set : m \in Nat
    BY <1>4
  <2>3. ASSUME NEW m \in set, hit(m) PROVE n <= m + 1
    <3>1. /\ m \in 1 .. b - a /\ n \in 1 .. b - a
      BY <1>4
    <3>2. At(a + n - 1) <= trg /\ trg <= At(a + m)
      BY <1>2, <2>1, <2>3, <3>1
    <3>. SUFFICES ASSUME m + 1 < n PROVE FALSE
      BY <3>1
    <3>3. a + m \in Int /\ a + n - 1 \in Int /\ a + m < a + n - 1
      BY <3>1
    <3>4. At(a + m) + FrameTicks <= At(a + n - 1) /\ At(a + m) \in Int /\ At(a + n - 1) \in Int
      BY <3>3, AtOrder, AtIs
    <3>5. FrameTicks \in Nat \ {0}
      BY RxAssumption
    <3>. QED  BY <3>2, <3>4, <3>5
  <2>4. CASE \A m \in set : hit(m) => n <= m
    <3>1. ASSUME NEW m \in set PROVE n <= m
      <4>1. CASE hit(m)
        BY <2>4, <4>1
      <4>2. CASE scan(m)
        <5>1. PICK k \in set : k < m /\ hit(k)
          BY <1>5, <4>2
        <5>2. n <= k
          BY <2>4, <5>1
        <5>. QED  BY <2>2, <5>1, <5>2
      <4>. QED  BY <4>1, <4>2
    <3>. QED  BY <3>1
  <2>5. CASE ~(\A m \in set : hit(m) => n <= m)
    <3>1. PICK p \in set : hit(p) /\ ~(n <= p)
      BY <2>5
    <3>2. n = p + 1
      BY <2>2, <2>3, <3>1
    <3>3. ASSUME NEW m \in set, hit(m) PROVE p <= m
      BY <2>2, <2>3, <3>2, <3>3
    <3>4. ASSUME NEW m \in set PROVE p <= m
      <4>1. CASE hit(m)
        BY <3>3, <4>1
      <4>2. CASE scan(m)
        <5>1. PICK k \in set : k < m /\ hit(k)
          BY <1>5, <4>2
        <5>2. p <= k
          BY <3>3, <5>1
        <5>. QED  BY <2>2, <5>1, <5>2
      <4>. QED  BY <4>1, <4>2
    <3>. QED  BY <3>4
  <2>. QED  BY <2>4, <2>5
<1>7. first \in set /\ \A m \in set : first <= m
  <2>. HIDE DEF set
  <2>. QED  BY <1>6
<1>8. hit(first)
  <2>1. ASSUME scan(first) PROVE FALSE
    <3>1. PICK m \in set : m < first
      BY <1>5, <1>7, <2>1
    <3>2. m \in Nat /\ first \in Nat /\ first <= m
      BY <1>4, <1>7, <3>1
    <3>. QED  BY <3>1, <3>2
  <2>. QED  BY <1>7, <2>1
<1>9. TrgNode(l, trg) = first
  BY <1>3, <1>8 DEF TrgNode
<1>. QED  BY <1>8, <1>9

(* The posted events are covered, and their trigger is in the trigger      *)
(* node.                                                                   *)
LEMMA WindowsNow ==
  ASSUME IInv, FlowInv
  PROVE  WindowCovered /\ TriggerInNode
<1>1. PICK low, read, last : Flow(low, read, last)
  BY DEF FlowInv
<1>2. Full(Posted) /\ Posted \in Seq(Event)
  BY <1>1, EventsNow DEF Flow, Windowed, IInv
<1>3. WindowCovered
  BY <1>2, CoversIs DEF WindowCovered, Full
<1>4. ASSUME NEW i \in DOMAIN Posted, NEW d \in Dests,
             TrgNode(Posted[i].list[d], Posted[i].trg) # 0
      PROVE  LET n == TrgNode(Posted[i].list[d], Posted[i].trg)
             IN  /\ Beg(Posted[i].list[d][n]) <= Posted[i].trg
                 /\ Posted[i].trg <= End(Posted[i].list[d][n])
  <2>1. Covers(Posted[i], d)
    BY <1>2 DEF Full
  <2>2. PICK a \in Nat, b \in Nat : a < b /\ Posted[i].list[d] = Run(d, a, b)
    BY <2>1 DEF Covers
  <2>3. Posted[i].trg \in Int
    <3>1. Posted[i] \in Event
      BY <1>2
    <3>. QED  BY <3>1 DEF Event
  <2>. QED  BY <1>4, <2>2, <2>3, TrgNodeIn
<1>5. TriggerInNode
  BY <1>4 DEF TriggerInNode
<1>. QED  BY <1>3, <1>5

(* Every buffer that is out is in an event, on a list or in the channel.   *)
LEMMA NothingLeakedNow ==
  ASSUME IInv, FlowInv
  PROVE  NothingLeaked
<1>1. PICK low, read, last : Flow(low, read, last)
  BY DEF FlowInv
<1>2. Accounted(low) /\ Fed(read) /\ Chains(latency, remaining, low, read)
      /\ low \in Numbers /\ read \in Numbers
  BY <1>1 DEF Flow, Fed, Kept
<1>3. ASSUME NEW d \in Dests
      PROVE  Span(d, low[d], sent[d]) \subseteq ToSet(latency[d].nodes) \union ToSet(dataQ)
  <2>1. PICK a \in Nat, b \in Nat, c \in Nat : a = low[d] /\ b = read[d] /\ c = sent[d]
    BY <1>2 DEF Numbers, IInv, TypeOK, Sources
  <2>2. a <= b /\ latency[d].nodes = Run(d, a, b)
    <3>1. low[d] <= read[d] /\ latency[d] = Chain(d, low[d], read[d])
      BY <1>2 DEF Chains
    <3>. QED  BY <2>1, <3>1 DEF Chain
  <2>3. ToSet(latency[d].nodes) = Span(d, a, b)
    BY <2>2, RunIs
  <2>4. Span(d, b, c) \subseteq ToSet(dataQ)
    BY <1>2, <2>1 DEF Fed, Of
  <2>5. Span(d, a, c) \subseteq Span(d, a, b) \union Span(d, b, c)
    BY SpanParts
  <2>. QED  BY <2>1, <2>3, <2>4, <2>5
<1>4. ASSUME NEW d \in Dests
      PROVE  Taken(AllEvents, d)
               \subseteq UNION {EventFrames(AllEvents[i]) : i \in DOMAIN AllEvents}
  BY DEF Taken, EventFrames
<1>5. ASSUME NEW g \in held PROVE g \in OnHand
  <2>1. /\ g.dest \in Dests
        /\ g \in Span(g.dest, low[g.dest], sent[g.dest]) \union Taken(AllEvents, g.dest)
    BY <1>2 DEF Accounted
  <2>. QED  BY <1>3, <1>4, <2>1 DEF OnHand
<1>6. pool + Len(AllEvents) = Events
  BY <1>2 DEF Accounted
<1>. QED  BY <1>5, <1>6 DEF NothingLeaked

(* rxRun has not ended.                                                    *)
LEMMA RunsOn ==
  ASSUME FlowInv
  PROVE  NeverExits
BY DEF FlowInv, Flow, Settled, NeverExits

(* Under Steady every event that is posted has, of every destination, all  *)
(* frames of its window one after the other, those that were on the        *)
(* latency list when the trigger was read and those that came later.       *)
THEOREM RxWindowCovered == Steady => (Spec => []WindowCovered)
<1>1. IInv /\ StreamInv /\ FlowInv => WindowCovered
  BY WindowsNow
<1>. QED  BY <1>1, FlowInvariant, PTL

(* And the trigger time is within the frame that m_trgNode points to.      *)
THEOREM RxTriggerInNode == Steady => (Spec => []TriggerInNode)
<1>1. IInv /\ StreamInv /\ FlowInv => TriggerInNode
  BY WindowsNow
<1>. QED  BY <1>1, FlowInvariant, PTL

(* The count of the spots left on a latency list, which seedAndDrain sets  *)
(* and replace counts down, is what the list has room for.                 *)
THEOREM RxSpotsExact == Steady => (Spec => []SpotsExact)
<1>1. IInv /\ StreamInv /\ FlowInv => SpotsExact
  BY SpotsNow
<1>. QED  BY <1>1, FlowInvariant, PTL

(* No buffer that a frame came in and no event descriptor is lost: each is *)
(* where rxRun or the transmit thread will return it from.                 *)
THEOREM RxNothingLeaked == Steady => (Spec => []NothingLeaked)
<1>1. IInv /\ StreamInv /\ FlowInv => NothingLeaked
  BY NothingLeakedNow
<1>. QED  BY <1>1, FlowInvariant, PTL

(* rxRun finds a descriptor for every trigger and never a count that is    *)
(* wrong: it does not end the program.                                     *)
THEOREM RxNeverExits == Steady => (Spec => []NeverExits)
<1>1. IInv /\ StreamInv /\ FlowInv => NeverExits
  BY RunsOn
<1>. QED  BY <1>1, FlowInvariant, PTL

=============================================================================
