-------------------------- MODULE CommQueueProofs --------------------------
(***************************************************************************)
(* The ring of CommQueue, for every size and every set of threads: its     *)
(* indices and its counter stay consistent, no null pointer is handed out  *)
(* as an entry, and it implements a bounded first-in first-out queue.      *)
(***************************************************************************)
EXTENDS CommQueue, SequenceTheorems, TLAPS

(* A producer that sleeps carries the pointer it was called with. *)
SleeperLoaded == \A p \in Producers \cap asleep : ptr[p] \in Values

(* The inductive invariant. *)
QInv == TypeOK /\ CountExact /\ SleeperFresh /\ SleeperLoaded /\ NoNullQueued

-----------------------------------------------------------------------------
(* Arithmetic of the ring                                                  *)

(* The next slot, without the modulo: what both indices advance by.        *)
LEMMA SuccValue ==
  ASSUME NEW i \in Slots
  PROVE  /\ Succ(i) \in Slots
         /\ Succ(i) = IF i = Size - 1 THEN 0 ELSE i + 1
BY SizeAssumption, SMT DEF Slots, Succ

(* push's test for a full ring and pop's for an empty one are tests of the *)
(* distance of the two indices.                                            *)
LEMMA UsedRange ==
  ASSUME TypeOK
  PROVE  /\ Used \in 0 .. Size - 1
         /\ Used = Size - 1 <=> Succ(write) = read
         /\ Used = 0 <=> read = write
         /\ \A i \in 0 .. Size - 1 : SlotAt(i) \in Slots
         /\ SlotAt(Used) = write
<1> USE SizeAssumption DEF TypeOK
<1>1. /\ read \in Nat /\ read < Size
      /\ write \in Nat /\ write < Size
  BY DEF Slots
<1>2. Succ(write) = IF write = Size - 1 THEN 0 ELSE write + 1
  BY SuccValue
<1>3. Used \in 0 .. Size - 1 /\ (Used = 0 <=> read = write)
  BY <1>1 DEF Used
<1>4. Used = Size - 1 <=> Succ(write) = read
  BY <1>1, <1>2 DEF Used
<1>5. \A i \in 0 .. Size - 1 : SlotAt(i) \in Slots
  BY <1>1 DEF SlotAt, Slots
<1>6. SlotAt(Used) = write
  BY <1>1 DEF SlotAt, Used
<1>7. QED
  BY <1>3, <1>4, <1>5, <1>6

(* The contents are a sequence of Used elements. *)
LEMMA ContentsSeq ==
  ASSUME TypeOK, NoNullQueued
  PROVE  /\ Contents \in Seq(Values)
         /\ Len(Contents) = Used
         /\ \A i \in 1 .. Used : Contents[i] = data[SlotAt(i - 1)]
<1>1. Used \in Nat
  BY UsedRange, SizeAssumption
<1>2. Contents \in [1 .. Used -> Values]
  BY DEF NoNullQueued, Contents
<1>3. QED
  BY <1>1, <1>2 DEF Contents

(* A push that is not refused appends its pointer to the contents. *)
LEMMA StoreAppends ==
  ASSUME QInv, NEW p \in Producers, NEW v \in Values,
         Store(p, v, Succ(write)), read' = read
  PROVE  /\ Used' = Used + 1
         /\ Contents' = Append(Contents, v)
         /\ Len(Contents) < Size - 1
<1> USE SizeAssumption DEF QInv
<1>0. write' = IF write = Size - 1 THEN 0 ELSE write + 1
  BY SuccValue DEF Store, TypeOK
<1>1. /\ Used \in 0 .. Size - 2
      /\ Used' = Used + 1
  <2>1. Used \in 0 .. Size - 2
    BY UsedRange DEF Store
  <2>2. QED
    BY <2>1, <1>0 DEF Used, TypeOK, Slots
<1>2. ASSUME NEW i \in 1 .. Used + 1
      PROVE  data'[SlotAt(i - 1)] = IF i <= Used THEN data[SlotAt(i - 1)] ELSE v
  <2>1. /\ SlotAt(i - 1) \in Slots
        /\ SlotAt(i - 1) = write <=> i = Used + 1
    BY <1>1 DEF SlotAt, Used, TypeOK, Slots
  <2>2. QED
    BY <2>1, <1>1 DEF Store, TypeOK
<1>3. Contents' = [i \in 1 .. Used + 1 |-> data'[SlotAt(i - 1)]]
  BY <1>1 DEF Contents, SlotAt
<1>4. Contents' = [i \in 1 .. Used + 1 |-> IF i <= Used THEN Contents[i] ELSE v]
  BY <1>1, <1>2, <1>3, ContentsSeq
<1>5. Contents \in Seq(Values) /\ Len(Contents) = Used
  BY ContentsSeq
<1>6. Contents' = Append(Contents, v)
  <2> DEFINE t == Append(Contents, v)
  <2>1. /\ t \in Seq(Values)
        /\ Len(t) = Used + 1
        /\ \A i \in 1 .. Used + 1 : t[i] = IF i <= Used THEN Contents[i] ELSE v
    BY <1>1, <1>5, AppendProperties
  <2>2. Used + 1 \in Nat /\ Contents' \in [1 .. Used + 1 -> Values]
    BY <1>1, <1>4, ContentsSeq, ElementOfSeq
  <2>3. Contents' \in Seq(Values) /\ Len(Contents') = Used + 1
    BY <2>2
  <2>4. \A i \in 1 .. Used + 1 : Contents'[i] = t[i]
    BY <1>4, <2>1
  <2>5. QED
    BY <2>1, <2>3, <2>4, SeqEqual
<1>7. QED
  BY <1>1, <1>5, <1>6

(* A pop that finds something removes the oldest pointer. *)
LEMMA FetchTakes ==
  ASSUME QInv, NEW c \in Consumers, Fetch(c), data' = data, write' = write
  PROVE  /\ Used' = Used - 1
         /\ Contents # << >>
         /\ Contents' = Tail(Contents)
         /\ data[read] = Head(Contents)
<1> USE SizeAssumption DEF QInv
<1>0. read' = IF read = Size - 1 THEN 0 ELSE read + 1
  BY SuccValue DEF Fetch, TypeOK
<1>1. /\ Used \in 1 .. Size - 1
      /\ Used' = Used - 1
  <2>1. Used \in 1 .. Size - 1
    BY UsedRange DEF Fetch
  <2>2. QED
    BY <2>1, <1>0 DEF Used, TypeOK, Slots
<1>2. ASSUME NEW i \in 1 .. Used - 1
      PROVE  SlotAt(i - 1)' = SlotAt(i)
  <2>1. i \in 1 .. Size - 2
    BY <1>1
  <2>2. QED
    BY <2>1, <1>0 DEF SlotAt, TypeOK, Slots
<1>3. Contents' = [i \in 1 .. Used - 1 |-> data[SlotAt(i)]]
  BY <1>1, <1>2 DEF Contents
<1>4. Contents' = [i \in 1 .. Used - 1 |-> Contents[i + 1]]
  BY <1>1, <1>3, ContentsSeq
<1>5. SlotAt(0) = read
  BY DEF SlotAt, TypeOK, Slots
<1>6. /\ Contents \in Seq(Values)
      /\ Len(Contents) = Used
      /\ Contents[1] = data[read]
  BY <1>1, <1>5, ContentsSeq
<1>7. Contents # << >> /\ Head(Contents) = data[read]
  BY <1>1, <1>6
<1>8. Contents' = Tail(Contents)
  <2> DEFINE t == Tail(Contents)
  <2>1. /\ t \in Seq(Values)
        /\ Len(t) = Used - 1
        /\ \A i \in 1 .. Used - 1 : t[i] = Contents[i + 1]
    BY <1>1, <1>6, <1>7, HeadTailProperties
  <2>2. Used - 1 \in Nat /\ Contents' \in [1 .. Used - 1 -> Values]
    BY <1>1, <1>4, ContentsSeq, ElementOfSeq
  <2>3. Contents' \in Seq(Values) /\ Len(Contents') = Used - 1
    BY <2>2
  <2>4. \A i \in 1 .. Used - 1 : Contents'[i] = t[i]
    BY <1>4, <2>1
  <2>5. QED
    BY <2>1, <2>3, <2>4, SeqEqual
<1>9. QED
  BY <1>1, <1>7, <1>8
-----------------------------------------------------------------------------
(* The invariant                                                           *)

(* The constructor establishes the invariant.                              *)
LEMMA QInvInit == Init => QInv
<1> SUFFICES ASSUME Init PROVE QInv
  OBVIOUS
<1> USE SizeAssumption DEF Init
<1>1. TypeOK
  BY DEF TypeOK, Slots
<1>2. Used = 0
  BY DEF Used
<1>3. CountExact /\ SleeperFresh /\ SleeperLoaded /\ NoNullQueued
  BY <1>2 DEF CountExact, SleeperFresh, SleeperLoaded, NoNullQueued
<1>4. QED
  BY <1>1, <1>3 DEF QInv

(* What a push leaves behind, whether it stored its pointer or was refused *)
(* (p is the only producer, and is awake when the call returns).           *)
LEMMA PushKeeps ==
  ASSUME QInv, NEW p \in Producers, NEW v \in Values,
         FinishPush(p, v, Succ(write)),
         asleep' = asleep \ {p},
         \/ UNCHANGED <<next, ptr>>
         \/ /\ next' = [next EXCEPT ![p] = 0]
            /\ ptr' = [ptr EXCEPT ![p] = NULL]
  PROVE  QInv'
<1> USE SizeAssumption DEF QInv
<1>1. next' \in [Producers -> Slots] /\ ptr' \in [Producers -> Values \union {NULL}]
  <2>1. 0 \in Slots
    BY DEF Slots
  <2>2. CASE UNCHANGED <<next, ptr>>
    BY <2>2 DEF TypeOK
  <2>3. CASE /\ next' = [next EXCEPT ![p] = 0]
             /\ ptr' = [ptr EXCEPT ![p] = NULL]
    BY <2>1, <2>3 DEF TypeOK
  <2>4. QED
    BY <2>2, <2>3
<1>2. Producers \cap asleep' = {}
  BY SingleProducer
<1>3. CASE Store(p, v, Succ(write))
  <2>1. /\ Used' = Used + 1
        /\ Contents' = Append(Contents, v)
        /\ Used \in 0 .. Size - 2
    BY <1>3, StoreAppends, ContentsSeq, UsedRange DEF FinishPush
  <2>2. TypeOK'
    BY <1>1, <1>3, <2>1, SuccValue DEF TypeOK, Store, FinishPush, CountExact
  <2>3. CountExact'
    BY <1>3, <2>1 DEF CountExact, Store
  <2>4. NoNullQueued'
    BY <2>1, ContentsSeq DEF NoNullQueued
  <2>5. QED
    BY <1>2, <2>2, <2>3, <2>4 DEF SleeperFresh, SleeperLoaded
<1>4. CASE Reject(p, Succ(write))
  <2>1. TypeOK'
    BY <1>1, <1>4 DEF TypeOK, Reject, FinishPush
  <2>2. Used' = Used /\ Contents' = Contents
    BY <1>4 DEF Reject, FinishPush, Used, Contents, SlotAt
  <2>3. QED
    BY <1>2, <1>4, <2>1, <2>2
       DEF SleeperFresh, SleeperLoaded, CountExact, NoNullQueued, Reject
<1>5. QED
  BY <1>3, <1>4 DEF FinishPush

(* The part of pop that holds the mutex keeps the invariant, whether the   *)
(* thread has just come in or has slept.                                   *)
LEMMA PopKeeps ==
  ASSUME QInv, NEW c \in Consumers, FinishPop(c), asleep' \subseteq asleep
  PROVE  QInv'
<1> USE SizeAssumption DEF QInv
<1>1. SleeperFresh' /\ SleeperLoaded'
  BY DEF FinishPop, SleeperFresh, SleeperLoaded
<1>2. CASE Fetch(c)
  <2>1. /\ Used' = Used - 1
        /\ Contents # << >>
        /\ Contents' = Tail(Contents)
        /\ data[read] = Head(Contents)
    BY <1>2, FetchTakes DEF FinishPop
  <2>2. Contents \in Seq(Values) /\ Len(Contents) = Used /\ Used \in 1 .. Size - 1
    BY <1>2, ContentsSeq, UsedRange DEF Fetch
  <2>3. TypeOK'
    BY <1>2, <2>1, <2>2, SuccValue DEF TypeOK, Fetch, FinishPop, CountExact
  <2>4. CountExact'
    BY <1>2, <2>1, <2>2 DEF CountExact, Fetch
  <2>5. NoNullQueued'
    BY <2>1, <2>2 DEF NoNullQueued
  <2>6. QED
    BY <1>1, <2>3, <2>4, <2>5
<1>3. CASE Nothing(c)
  <2>1. TypeOK'
    BY <1>3 DEF TypeOK, Nothing, FinishPop
  <2>2. Used' = Used /\ Contents' = Contents
    BY <1>3 DEF Nothing, FinishPop, Used, Contents, SlotAt
  <2>3. QED
    BY <1>1, <1>3, <2>1, <2>2 DEF CountExact, NoNullQueued, Nothing
<1>4. QED
  BY <1>2, <1>3 DEF FinishPop

(* Going to sleep changes nothing but who sleeps. *)
LEMMA SleepKeeps ==
  ASSUME QInv,
         UNCHANGED <<data, read, write, count, pushed, popped>>,
         \/ \E p \in Producers, v \in Values : PushWait(p, v)
         \/ \E c \in Consumers : PopWait(c)
  PROVE  QInv'
<1> USE SizeAssumption DEF QInv
<1>1. Used' = Used /\ Contents' = Contents
  BY DEF Used, Contents, SlotAt
<1>2. CountExact' /\ NoNullQueued'
  BY <1>1 DEF CountExact, NoNullQueued
<1>3. ASSUME NEW p \in Producers, NEW v \in Values, PushWait(p, v)
      PROVE  TypeOK' /\ SleeperFresh' /\ SleeperLoaded'
  BY <1>3, SuccValue, SingleProducer
     DEF PushWait, TypeOK, SleeperFresh, SleeperLoaded
<1>4. ASSUME NEW c \in Consumers, PopWait(c)
      PROVE  TypeOK' /\ SleeperFresh' /\ SleeperLoaded'
  BY <1>4, DistinctThreads DEF PopWait, TypeOK, SleeperFresh, SleeperLoaded
<1>5. QED
  BY <1>2, <1>3, <1>4

(* Every operation of the ring keeps the invariant. *)
LEMMA QInvStep == QInv /\ [Next]_qvars => QInv'
<1> SUFFICES ASSUME QInv, [Next]_qvars PROVE QInv'
  OBVIOUS
<1>1. ASSUME NEW p \in Producers, NEW v \in Values, Push(p, v)
      PROVE  QInv'
  <2>1. asleep' = asleep \ {p} /\ UNCHANGED <<next, ptr>>
    BY <1>1 DEF Push
  <2>2. FinishPush(p, v, Succ(write))
    BY <1>1 DEF Push
  <2>3. QED
    BY <2>1, <2>2, PushKeeps
<1>2. ASSUME NEW p \in Producers, PushWake(p)
      PROVE  QInv'
  <2>1. next[p] = Succ(write) /\ ptr[p] \in Values
    BY <1>2 DEF PushWake, QInv, SleeperFresh, SleeperLoaded
  <2>2. FinishPush(p, ptr[p], Succ(write))
    BY <1>2, <2>1 DEF PushWake
  <2>3. /\ asleep' = asleep \ {p}
        /\ next' = [next EXCEPT ![p] = 0]
        /\ ptr' = [ptr EXCEPT ![p] = NULL]
    BY <1>2 DEF PushWake
  <2>4. QED
    BY <2>1, <2>2, <2>3, PushKeeps
<1>3. ASSUME NEW c \in Consumers, Pop(c) \/ PopWake(c)
      PROVE  QInv'
  <2>1. FinishPop(c) /\ asleep' \subseteq asleep
    BY <1>3 DEF Pop, PopWake
  <2>2. QED
    BY <2>1, PopKeeps
<1>4. CASE \/ \E p \in Producers, v \in Values : PushWait(p, v)
           \/ \E c \in Consumers : PopWait(c)
  <2>1. UNCHANGED <<data, read, write, count, pushed, popped>>
    BY <1>4 DEF PushWait, PopWait
  <2>2. QED
    BY <1>4, <2>1, SleepKeeps
<1>5. CASE UNCHANGED qvars
  <2>1. Used' = Used /\ Contents' = Contents
    BY <1>5 DEF qvars, Used, Contents, SlotAt
  <2>2. QED
    BY <1>5, <2>1 DEF QInv, TypeOK, CountExact, SleeperFresh, SleeperLoaded,
                      NoNullQueued, qvars
<1>6. QED
  BY <1>1, <1>2, <1>3, <1>4, <1>5 DEF Next

(* The invariant holds in every state of the ring.                         *)
LEMMA RingInvariant == Spec => []QInv
BY QInvInit, QInvStep, PTL DEF Spec

(* The indices, the counter and the slots keep their types: _read and      *)
(* _write never leave the ring and _count stays below _size.               *)
THEOREM RingTypes == Spec => []TypeOK
<1>1. QInv => TypeOK
  BY DEF QInv
<1>2. QED
  BY RingInvariant, <1>1, PTL

(* entryCnt is exact in every state, whoever sleeps and wakes. *)
THEOREM RingCount == Spec => []CountExact
<1>1. QInv => CountExact
  BY DEF QInv
<1>2. QED
  BY RingInvariant, <1>1, PTL

(* A push that slept stores into the slot it computed before it slept, and *)
(* that slot is still the right one.                                       *)
THEOREM RingSleeper == Spec => []SleeperFresh
<1>1. QInv => SleeperFresh
  BY DEF QInv
<1>2. QED
  BY RingInvariant, <1>1, PTL

(* No entry of the ring is the null pointer. *)
THEOREM RingEntries == Spec => []NoNullQueued
<1>1. QInv => NoNullQueued
  BY DEF QInv
<1>2. QED
  BY RingInvariant, <1>1, PTL

-----------------------------------------------------------------------------
(* Refinement                                                              *)

(* The ring that the constructor leaves is the empty queue.                *)
LEMMA FifoInit == Init => Fifo!Init
<1> SUFFICES ASSUME Init PROVE Fifo!Init
  OBVIOUS
<1>1. Used = 0
  BY DEF Init, Used
<1>2. Contents = << >>
  BY <1>1 DEF Contents
<1>3. QED
  BY <1>2 DEF Init, Fifo!Init

(* A push that returns is a Put or, on a full ring, a Refuse. *)
LEMMA PushIsFifo ==
  ASSUME QInv, NEW p \in Producers, NEW v \in Values,
         FinishPush(p, v, Succ(write))
  PROVE  Fifo!Next
<1>1. CASE Store(p, v, Succ(write))
  <2>1. Contents' = Append(Contents, v) /\ Len(Contents) < Size - 1
    BY <1>1, StoreAppends DEF FinishPush
  <2>2. Fifo!Put(p, v)
    BY <1>1, <2>1 DEF Fifo!Put, FinishPush, Store
  <2>3. QED
    BY <2>2 DEF Fifo!Next
<1>2. CASE Reject(p, Succ(write))
  <2>1. Len(Contents) = Size - 1
    BY <1>2, UsedRange, ContentsSeq DEF Reject, QInv
  <2>2. Contents' = Contents
    BY <1>2 DEF Reject, FinishPush, Contents, Used, SlotAt
  <2>3. Fifo!Refuse(p)
    BY <1>2, <2>1, <2>2 DEF Fifo!Refuse, FinishPush, Reject
  <2>4. QED
    BY <2>3 DEF Fifo!Next
<1>3. QED
  BY <1>1, <1>2 DEF FinishPush

(* A pop that returns is a Take or, on an empty ring, a Miss. *)
LEMMA PopIsFifo ==
  ASSUME QInv, NEW c \in Consumers, FinishPop(c)
  PROVE  Fifo!Next
<1>1. CASE Fetch(c)
  <2>1. /\ Contents # << >>
        /\ Contents' = Tail(Contents)
        /\ data[read] = Head(Contents)
    BY <1>1, FetchTakes DEF FinishPop
  <2>2. Fifo!Take(c)
    BY <1>1, <2>1 DEF Fifo!Take, FinishPop, Fetch
  <2>3. QED
    BY <2>2 DEF Fifo!Next
<1>2. CASE Nothing(c)
  <2>1. Contents' = Contents
    BY <1>2 DEF Nothing, FinishPop, Contents, Used, SlotAt
  <2>2. Len(Contents) = 0 /\ Contents \in Seq(Values)
    BY <1>2, UsedRange, ContentsSeq DEF Nothing, QInv
  <2>3. Contents = << >>
    BY <2>2
  <2>4. Fifo!Miss(c)
    BY <1>2, <2>1, <2>3 DEF Fifo!Miss, FinishPop, Nothing
  <2>5. QED
    BY <2>4 DEF Fifo!Next
<1>3. QED
  BY <1>1, <1>2 DEF FinishPop

(* Every call is a step of the queue, and going to sleep in push or pop is *)
(* none at all.                                                            *)
LEMMA FifoStep == QInv /\ [Next]_qvars => [Fifo!Next]_(Fifo!fvars)
<1> SUFFICES ASSUME QInv, [Next]_qvars PROVE [Fifo!Next]_(Fifo!fvars)
  OBVIOUS
<1>1. ASSUME NEW p \in Producers, NEW v \in Values, Push(p, v)
      PROVE  Fifo!Next
  BY <1>1, PushIsFifo DEF Push
<1>2. ASSUME NEW p \in Producers, PushWake(p)
      PROVE  Fifo!Next
  <2>1. next[p] = Succ(write) /\ ptr[p] \in Values
    BY <1>2 DEF PushWake, QInv, SleeperFresh, SleeperLoaded
  <2>2. FinishPush(p, ptr[p], Succ(write))
    BY <1>2, <2>1 DEF PushWake
  <2>3. QED
    BY <2>1, <2>2, PushIsFifo
<1>3. ASSUME NEW c \in Consumers, Pop(c) \/ PopWake(c)
      PROVE  Fifo!Next
  BY <1>3, PopIsFifo DEF Pop, PopWake
<1>4. CASE \/ UNCHANGED qvars
           \/ \E p \in Producers, v \in Values : PushWait(p, v)
           \/ \E c \in Consumers : PopWait(c)
  <2>1. UNCHANGED <<data, read, write, pushed, popped>>
    BY <1>4 DEF PushWait, PopWait, qvars
  <2>2. Contents' = Contents
    BY <2>1 DEF Contents, Used, SlotAt
  <2>3. QED
    BY <2>1, <2>2 DEF Fifo!fvars
<1>5. QED
  BY <1>1, <1>2, <1>3, <1>4 DEF Next

(* The ring implements the bounded first-in first-out queue its users      *)
(* rely on, for every size and all the interleavings of its calls.         *)
THEOREM RingIsFifo == Spec => ImplementsFifo
<1>1. Spec => Fifo!Init /\ [][Fifo!Next]_(Fifo!fvars)
  BY FifoInit, FifoStep, RingInvariant, PTL DEF Spec
<1>2. QED
  BY <1>1 DEF ImplementsFifo, Fifo!Spec

=============================================================================
