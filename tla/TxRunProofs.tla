----------------------------- MODULE TxRunProofs ------------------------------
(***************************************************************************)
(* What holds of TxRun whatever the way an event is sent and however often *)
(* that is switched: every event descriptor and every transmit buffer is   *)
(* in one place, and the size of a message is what its pieces add up to.   *)
(* And what holds when all events are sent over RSSI: the lists in use     *)
(* are sound, every receive buffer is in one place, and the pieces of a    *)
(* message are what was written to them.                                   *)
(***************************************************************************)
EXTENDS TxRun, FiniteSetTheorems, WellFoundedInduction, TLAPS

-----------------------------------------------------------------------------
(* How often something is in a sequence                                    *)

(* The count is a natural number.  Behind it is the claim that a queue     *)
(* holds finitely many pointers.                                           *)
LEMMA TimesFinite ==
  ASSUME NEW S, NEW s \in Seq(S), NEW x
  PROVE  /\ IsFiniteSet({i \in DOMAIN s : s[i] = x})
         /\ Times(x, s) \in Nat
<1>1. IsFiniteSet(1 .. Len(s))
  BY FS_Interval
<1>2. {i \in DOMAIN s : s[i] = x} \subseteq 1 .. Len(s)
  OBVIOUS
<1>3. IsFiniteSet({i \in DOMAIN s : s[i] = x})
  BY <1>1, <1>2, FS_Subset
<1>. QED  BY <1>3, FS_CardinalityType DEF Times

(* A push (of an event to the transmit queue, of a descriptor to the pool) *)
(* adds the one it is about.                                               *)
LEMMA TimesAppend ==
  ASSUME NEW S, NEW s \in Seq(S), NEW y \in S, NEW x
  PROVE  Times(x, Append(s, y)) = Times(x, s) + One(y = x)
<1> DEFINE before == {i \in DOMAIN s : s[i] = x}
           after  == {i \in DOMAIN Append(s, y) : Append(s, y)[i] = x}
<1>1. IsFiniteSet(before) /\ Cardinality(before) \in Nat
  BY TimesFinite DEF Times
<1>2. CASE y = x
  <2>1. after = before \union {Len(s) + 1}
    BY <1>2
  <2>2. Len(s) + 1 \notin before
    OBVIOUS
  <2>. HIDE DEF before, after
  <2>3. Cardinality(after) = Cardinality(before) + 1
    BY <1>1, <2>1, <2>2, FS_AddElement
  <2>. QED  BY <1>2, <2>3 DEF Times, One, before, after
<1>3. CASE y # x
  <2>1. after = before
    BY <1>3
  <2>. HIDE DEF before, after
  <2>2. Cardinality(after) = Cardinality(before) + 0
    BY <1>1, <2>1
  <2>. QED  BY <1>3, <2>2 DEF Times, One, before, after
<1>. QED  BY <1>2, <1>3

(* A pop removes the one it returns.                                       *)
LEMMA TimesTail ==
  ASSUME NEW S, NEW s \in Seq(S), s # << >>, NEW x
  PROVE  Times(x, s) = Times(x, Tail(s)) + One(Head(s) = x)
<1> DEFINE all  == {i \in DOMAIN s : s[i] = x}
           rest == {i \in DOMAIN Tail(s) : Tail(s)[i] = x}
           late == {i \in 2 .. Len(s) : s[i] = x}
           up   == [i \in rest |-> i + 1]
<1>1. Tail(s) \in Seq(S) /\ Len(Tail(s)) = Len(s) - 1 /\ Len(s) \in Nat \ {0}
  OBVIOUS
<1>2. IsFiniteSet(rest) /\ Cardinality(rest) \in Nat
  BY <1>1, TimesFinite DEF Times
<1>3. up \in Bijection(rest, late)
  <2>1. \A i \in rest : i + 1 \in late
    BY <1>1
  <2>2. \A i \in late : i - 1 \in rest /\ (i - 1) + 1 = i
    BY <1>1
  <2>3. \A i, j \in rest : i + 1 = j + 1 => i = j
    BY <1>1
  <2>. HIDE DEF rest, late
  <2>. QED  BY <2>1, <2>2, <2>3 DEF Bijection, Injection, Surjection, IsInjective
<1>4. IsFiniteSet(late) /\ Cardinality(late) = Cardinality(rest)
  <2>. HIDE DEF rest, late, up
  <2>. QED  BY <1>2, <1>3, FS_Bijection DEF ExistsBijection
<1>5. CASE Head(s) = x
  <2>1. all = late \union {1} /\ 1 \notin late
    BY <1>1, <1>5
  <2>. HIDE DEF all, late, rest
  <2>2. Cardinality(all) = Cardinality(rest) + 1
    BY <1>2, <1>4, <2>1, FS_AddElement
  <2>. QED  BY <1>5, <2>2 DEF Times, One, all, rest
<1>6. CASE Head(s) # x
  <2>1. all = late
    BY <1>1, <1>6
  <2>. HIDE DEF all, late, rest
  <2>2. Cardinality(all) = Cardinality(rest) + 0
    BY <1>2, <1>4, <2>1
  <2>. QED  BY <1>6, <2>2 DEF Times, One, all, rest
<1>. QED  BY <1>5, <1>6

(* The pool starts with every descriptor in it once.                       *)
LEMMA PoolHoldsAll ==
  /\ SequencesX!SetToSeq(Events) \in Seq(Events)
  /\ \A e \in Events : Times(e, SequencesX!SetToSeq(Events)) = 1
<1> DEFINE N  == Cardinality(Events)
           IsListing(f) == SequencesX!IsInjective(f)
           listing == CHOOSE f \in [1 .. N -> Events] : IsListing(f)
<1>1. IsFiniteSet(Events) /\ N \in Nat
  BY TxAssumption, FS_CardinalityType
<1>2. IsFiniteSet(1 .. N) /\ Cardinality(1 .. N) = N
  BY <1>1, FS_Interval
<1>3. PICK g \in Bijection(1 .. N, Events) : TRUE
  <2>. HIDE DEF N
  <2>. QED  BY <1>1, <1>2, FS_SameCardinalityBij DEF N, ExistsBijection
<1>4. g \in [1 .. N -> Events] /\ IsListing(g)
  BY <1>3 DEF Bijection, Injection, IsInjective, SequencesX!IsInjective
<1>5. listing \in [1 .. N -> Events] /\ IsListing(listing)
  <2>. HIDE DEF IsListing, N
  <2>. QED  BY <1>4
<1>6. listing = SequencesX!SetToSeq(Events)
  <2>1. SequencesX!Cardinality(Events) = N
    BY DEF SequencesX!Cardinality, Cardinality
  <2>. HIDE DEF N
  <2>. QED  BY <2>1 DEF SequencesX!SetToSeq
<1>. HIDE DEF listing
<1>7. listing \in Injection(1 .. N, Events)
  BY <1>5 DEF Injection, IsInjective, SequencesX!IsInjective
<1>8. listing \in Surjection(1 .. N, Events)
  <2>. HIDE DEF N
  <2>. QED  BY <1>1, <1>2, <1>7, FS_Injection DEF N
<1>9. ASSUME NEW e \in Events
      PROVE  Times(e, listing) = 1
  <2>1. PICK i \in 1 .. N : listing[i] = e
    BY <1>8 DEF Surjection
  <2>2. {j \in DOMAIN listing : listing[j] = e} = {i}
    BY <1>5, <2>1 DEF SequencesX!IsInjective
  <2>3. Cardinality({i}) = 1
    BY FS_Singleton
  <2>. QED  BY <2>2, <2>3 DEF Times
<1>10. listing \in Seq(Events)
  BY <1>1, <1>5
<1>. QED  BY <1>6, <1>9, <1>10

-----------------------------------------------------------------------------
(* The descriptors                                                         *)

(* The inductive invariant: what the pool, the queue and the threads hold  *)
(* are descriptors, and txRun holds one unless it waits for the next.      *)
DescriptorTypes ==
  /\ pool \in Seq(Events) /\ txReqQueue \in Seq(Events)
  /\ rxEvent \in Events \union {NoEvent}
  /\ IF pc = "pop" THEN event = NoEvent ELSE event \in Events

DInv == DescriptorTypes /\ DescriptorsOwnedOnce

(* The places of a descriptor, as numbers.                                 *)
LEMMA PlacesAreNumbers ==
  ASSUME DescriptorTypes, NEW e
  PROVE  /\ Times(e, pool) \in Nat
         /\ Times(e, txReqQueue) \in Nat
         /\ One(rxEvent = e) \in Nat
         /\ One(event = e /\ pc # "record") \in Nat
BY TimesFinite DEF DescriptorTypes, One

(* At the start all descriptors are in the pool.                           *)
LEMMA DInvInit == Init => DInv
<1> SUFFICES ASSUME Init PROVE DInv
  OBVIOUS
<1>1. pool \in Seq(Events) /\ \A e \in Events : Times(e, pool) = 1
  BY PoolHoldsAll DEF Init
<1>2. \A e \in Events : Times(e, << >>) = 0
  <2>1. {i \in DOMAIN << >> : << >>[i] = NoEvent} = {} /\ DOMAIN << >> = {}
    OBVIOUS
  <2>2. Cardinality({}) = 0
    BY FS_EmptySet
  <2>. QED  BY <2>1, <2>2 DEF Times
<1>3. DescriptorTypes
  BY <1>1 DEF Init, DescriptorTypes
<1>4. DescriptorsOwnedOnce
  <2> SUFFICES ASSUME NEW e \in Events
               PROVE  Times(e, pool) + Times(e, txReqQueue) + One(rxEvent = e)
                      + One(event = e /\ pc # "record") = 1
    BY DEF DescriptorsOwnedOnce
  <2>1. Times(e, pool) = 1 /\ Times(e, txReqQueue) = 0
    BY <1>1, <1>2 DEF Init
  <2>2. One(rxEvent = e) = 0 /\ One(event = e /\ pc # "record") = 0
    BY TxAssumption DEF Init, One
  <2>. QED  BY <2>1, <2>2
<1>. QED  BY <1>3, <1>4 DEF DInv

(* Steps that leave all that holds descriptors alone.                      *)
LEMMA DInvElsewhere ==
  ASSUME DInv, UNCHANGED <<pool, txReqQueue, rxEvent, event>>,
         pc = "pop" <=> pc' = "pop", pc = "record" <=> pc' = "record"
  PROVE  DInv'
BY DEF DInv, DescriptorTypes, DescriptorsOwnedOnce

(* rxRun takes a descriptor from the pool, and gives the event it has      *)
(* built to the queue.                                                     *)
LEMMA DInvRx ==
  ASSUME DInv,
         \/ \E from \in SUBSET Dests : TakeTrigger(from)
         \/ PostEvent
  PROVE  DInv'
<1> USE DEF DInv
<1>1. ASSUME NEW from \in SUBSET Dests, TakeTrigger(from)
      PROVE  DInv'
  <2>1. /\ pool # << >> /\ pool' = Tail(pool) /\ rxEvent' = Head(pool) /\ rxEvent = NoEvent
        /\ UNCHANGED <<txReqQueue, event, pc>>
    BY <1>1 DEF TakeTrigger, txVars
  <2>2. DescriptorTypes'
    BY <2>1 DEF DescriptorTypes
  <2>3. ASSUME NEW e \in Events
        PROVE  (Times(e, pool) + Times(e, txReqQueue) + One(rxEvent = e)
                + One(event = e /\ pc # "record") = 1)'
    <3>1. Times(e, pool) = Times(e, pool') + One(rxEvent' = e)
      BY <2>1, TimesTail DEF DescriptorTypes
    <3>2. One(rxEvent = e) = 0
      BY <2>1, TxAssumption DEF One
    <3>3. One(event' = e /\ pc' # "record") = One(event = e /\ pc # "record")
          /\ Times(e, txReqQueue') = Times(e, txReqQueue)
      BY <2>1
    <3>4. Times(e, pool) + Times(e, txReqQueue) + One(rxEvent = e)
          + One(event = e /\ pc # "record") = 1
      BY DEF DescriptorsOwnedOnce
    <3>5. Times(e, pool') \in Nat /\ One(rxEvent' = e) \in Nat
      BY <2>2, TimesFinite DEF DescriptorTypes, One
    <3>. QED  BY <3>1, <3>2, <3>3, <3>4, <3>5, PlacesAreNumbers
  <2>. QED  BY <2>2, <2>3 DEF DescriptorsOwnedOnce
<1>2. ASSUME PostEvent
      PROVE  DInv'
  <2>1. /\ rxEvent # NoEvent /\ rxEvent' = NoEvent
        /\ txReqQueue' = Append(txReqQueue, rxEvent)
        /\ UNCHANGED <<pool, event, pc>>
    BY <1>2 DEF PostEvent, txVars
  <2>2. DescriptorTypes'
    BY <2>1 DEF DescriptorTypes
  <2>3. ASSUME NEW e \in Events
        PROVE  (Times(e, pool) + Times(e, txReqQueue) + One(rxEvent = e)
                + One(event = e /\ pc # "record") = 1)'
    <3>1. Times(e, txReqQueue') = Times(e, txReqQueue) + One(rxEvent = e)
      BY <2>1, TimesAppend DEF DescriptorTypes
    <3>2. One(rxEvent' = e) = 0
      BY <2>1, TxAssumption DEF One
    <3>3. One(event' = e /\ pc' # "record") = One(event = e /\ pc # "record")
          /\ Times(e, pool') = Times(e, pool)
      BY <2>1
    <3>4. Times(e, pool) + Times(e, txReqQueue) + One(rxEvent = e)
          + One(event = e /\ pc # "record") = 1
      BY DEF DescriptorsOwnedOnce
    <3>. QED  BY <3>1, <3>2, <3>3, <3>4, PlacesAreNumbers
  <2>. QED  BY <2>2, <2>3 DEF DescriptorsOwnedOnce
<1>. QED  BY <1>1, <1>2

(* txRun takes an event off the queue, and gives its descriptor back.      *)
LEMMA DInvTx ==
  ASSUME DInv, TxPop \/ FreeDescriptor \/ Record
  PROVE  DInv'
<1> USE DEF DInv
<1>1. ASSUME TxPop
      PROVE  DInv'
  <2>1. /\ pc = "pop" /\ pc' = "build" /\ event = NoEvent
        /\ txReqQueue # << >> /\ txReqQueue' = Tail(txReqQueue) /\ event' = Head(txReqQueue)
        /\ UNCHANGED <<pool, rxEvent>>
    BY <1>1 DEF TxPop, rxVars, DescriptorTypes
  <2>2. DescriptorTypes'
    BY <2>1 DEF DescriptorTypes
  <2>3. ASSUME NEW e \in Events
        PROVE  (Times(e, pool) + Times(e, txReqQueue) + One(rxEvent = e)
                + One(event = e /\ pc # "record") = 1)'
    <3>1. Times(e, txReqQueue) = Times(e, txReqQueue') + One(event' = e)
      BY <2>1, TimesTail DEF DescriptorTypes
    <3>2. /\ One(event = e /\ pc # "record") = 0
          /\ One(event' = e /\ pc' # "record") = One(event' = e)
      BY <2>1, TxAssumption DEF One
    <3>3. One(rxEvent' = e) = One(rxEvent = e) /\ Times(e, pool') = Times(e, pool)
      BY <2>1
    <3>4. Times(e, pool) + Times(e, txReqQueue) + One(rxEvent = e)
          + One(event = e /\ pc # "record") = 1
      BY DEF DescriptorsOwnedOnce
    <3>5. Times(e, txReqQueue') \in Nat /\ One(event' = e) \in Nat
      BY <2>2, TimesFinite DEF DescriptorTypes, One
    <3>. QED  BY <3>1, <3>2, <3>3, <3>4, <3>5, PlacesAreNumbers
  <2>. QED  BY <2>2, <2>3 DEF DescriptorsOwnedOnce
<1>2. ASSUME FreeDescriptor
      PROVE  DInv'
  <2>1. /\ pc = "descriptor" /\ pool' = Append(pool, event) /\ event \in Events
        /\ UNCHANGED <<txReqQueue, rxEvent>>
        /\ \/ pc' = "pop" /\ event' = NoEvent
           \/ pc' = "record" /\ event' = event
    BY <1>2 DEF FreeDescriptor, rxVars, DescriptorTypes
  <2>2. DescriptorTypes'
    BY <2>1 DEF DescriptorTypes
  <2>3. ASSUME NEW e \in Events
        PROVE  (Times(e, pool) + Times(e, txReqQueue) + One(rxEvent = e)
                + One(event = e /\ pc # "record") = 1)'
    <3>1. Times(e, pool') = Times(e, pool) + One(event = e)
      BY <2>1, TimesAppend DEF DescriptorTypes
    <3>2. /\ One(event = e /\ pc # "record") = One(event = e)
          /\ One(event' = e /\ pc' # "record") = 0
      BY <2>1, TxAssumption DEF One
    <3>3. One(rxEvent' = e) = One(rxEvent = e) /\ Times(e, txReqQueue') = Times(e, txReqQueue)
      BY <2>1
    <3>4. Times(e, pool) + Times(e, txReqQueue) + One(rxEvent = e)
          + One(event = e /\ pc # "record") = 1
      BY DEF DescriptorsOwnedOnce
    <3>. QED  BY <3>1, <3>2, <3>3, <3>4, PlacesAreNumbers
  <2>. QED  BY <2>2, <2>3 DEF DescriptorsOwnedOnce
<1>3. ASSUME Record
      PROVE  DInv'
  <2>1. /\ pc = "record" /\ pc' = "pop" /\ event' = NoEvent
        /\ UNCHANGED <<pool, txReqQueue, rxEvent>>
    BY <1>3 DEF Record, rxVars
  <2>2. DescriptorTypes'
    BY <2>1 DEF DescriptorTypes
  <2>3. ASSUME NEW e \in Events
        PROVE  (Times(e, pool) + Times(e, txReqQueue) + One(rxEvent = e)
                + One(event = e /\ pc # "record") = 1)'
    <3>1. One(event = e /\ pc # "record") = 0 /\ One(event' = e /\ pc' # "record") = 0
      BY <2>1, TxAssumption DEF One
    <3>2. /\ One(rxEvent' = e) = One(rxEvent = e)
          /\ Times(e, txReqQueue') = Times(e, txReqQueue)
          /\ Times(e, pool') = Times(e, pool)
      BY <2>1
    <3>3. Times(e, pool) + Times(e, txReqQueue) + One(rxEvent = e)
          + One(event = e /\ pc # "record") = 1
      BY DEF DescriptorsOwnedOnce
    <3>. QED  BY <3>1, <3>2, <3>3
  <2>. QED  BY <2>2, <2>3 DEF DescriptorsOwnedOnce
<1>. QED  BY <1>1, <1>2, <1>3

(* Every step of either thread, of the firmware and of the commands.       *)
LEMMA DInvNext == DInv /\ [Next]_vars => DInv'
<1> SUFFICES ASSUME DInv, [Next]_vars PROVE DInv'
  OBVIOUS
<1>1. CASE \E n \in Buffers, d \in Dests : FrameToLatency(n, d) \/ FrameToEvent(n, d)
  BY <1>1, DInvElsewhere DEF FrameToLatency, FrameToEvent, rxVars, txVars
<1>2. CASE (\E from \in SUBSET Dests : TakeTrigger(from)) \/ PostEvent
  BY <1>2, DInvRx
<1>3. CASE TxPop \/ FreeDescriptor \/ Record
  BY <1>3, DInvTx
<1>4. CASE BlowOff \/ Build
  BY <1>4, DInvElsewhere DEF BlowOff, Build, StartFree, rxVars
<1>5. CASE SendTcp \/ HandOver
  BY <1>5, DInvElsewhere DEF SendTcp, HandOver, StartFree, rxVars
<1>6. CASE FreeNode \/ NextNode \/ NextList \/ GoneAstray
  BY <1>6, DInvElsewhere DEF FreeNode, NextNode, NextList, GoneAstray, rxVars
<1>7. CASE Transmitted
  BY <1>7, DInvElsewhere DEF Transmitted, rxVars, txVars
<1>8. CASE \E c \in Configs : SetConfig(c)
  BY <1>8, DInvElsewhere DEF SetConfig, rxVars, txVars
<1>9. CASE UNCHANGED vars
  BY <1>9, DInvElsewhere DEF vars, rxVars, txVars
<1>. QED
  BY <1>1, <1>2, <1>3, <1>4, <1>5, <1>6, <1>7, <1>8, <1>9 DEF Next, RxStep, TxStep

(* Every event descriptor is in one place: free, being filled, posted or   *)
(* being sent, for any number of events, of buffers and of destinations,   *)
(* whatever fails, and whenever the way of sending is switched.  It is     *)
(* neither lost, so that the pool would run dry, nor handed out twice.     *)
THEOREM TxDescriptors == Spec => []DescriptorsOwnedOnce
<1>1. DInv => DescriptorsOwnedOnce
  BY DEF DInv
<1>. QED  BY DInvInit, DInvNext, <1>1, PTL DEF Spec

-----------------------------------------------------------------------------
(* Induction over the natural numbers, for sets of them, and functions     *)
(* that are defined by recursion                                           *)

LEMMA Least ==
  ASSUME NEW T, T \subseteq Nat, T # {}
  PROVE  \E x \in T : \A y \in T : x <= y
<1>1. IsWellFoundedOn(OpToRel(<, Nat), Nat)
  BY NatLessThanWellFounded
<1>2. PICK x \in T : \A y \in T : ~ (<<y, x>> \in OpToRel(<, Nat))
  BY <1>1, WFMin
<1>3. ASSUME NEW y \in T PROVE x <= y
  <2>1. <<y, x>> \in Nat \X Nat
    OBVIOUS
  <2>2. ~(y < x)
    BY <1>2, <2>1 DEF OpToRel
  <2>. QED  BY <2>2
<1>. QED  BY <1>3

LEMMA Induction ==
  ASSUME NEW T, 0 \in T, \A n \in Nat : n \in T => n + 1 \in T
  PROVE  Nat \subseteq T
<1>. SUFFICES ASSUME Nat \ T # {} PROVE FALSE
  OBVIOUS
<1>1. PICK x \in Nat \ T : \A y \in Nat \ T : x <= y
  BY Least
<1>2. x - 1 \in Nat /\ x = (x - 1) + 1 /\ ~(x <= x - 1)
  BY <1>1
<1>3. x - 1 \in T
  BY <1>1, <1>2
<1>. QED  BY <1>1, <1>2, <1>3

(* g starts with x, and each value follows from the one before by f, a     *)
(* function of the position and that value.                                *)
Maps(f, S) == f \in [Nat \X S -> S]

Follows(g, f, x, n) ==
  /\ g = [i \in 0 .. n |-> g[i]]
  /\ g[0] = x
  /\ \A i \in 1 .. n : g[i] = f[<<i, g[i - 1]>>]

LEMMA Follow ==
  ASSUME NEW S, NEW f, Maps(f, S), NEW x \in S, NEW n \in Nat
  PROVE  \E g : Follows(g, f, x, n) /\ \A i \in 0 .. n : g[i] \in S
<1>. DEFINE P(g, m) == /\ g \in [0 .. m -> S] /\ g[0] = x
                       /\ \A i \in 1 .. m : g[i] = f[<<i, g[i - 1]>>]
            T == {m \in Nat : \E g : P(g, m)}
<1>. USE DEF Maps
<1>1. 0 \in T
  <2>1. P([i \in 0 .. 0 |-> x], 0)
    OBVIOUS
  <2>. QED  BY <2>1
<1>2. ASSUME NEW m \in Nat, m \in T PROVE m + 1 \in T
  <2>1. PICK g : P(g, m)
    BY <1>2
  <2>. DEFINE h == [i \in 0 .. m + 1 |-> IF i = m + 1 THEN f[<<m + 1, g[m]>>] ELSE g[i]]
  <2>2. g \in [0 .. m -> S] /\ g[m] \in S /\ f[<<m + 1, g[m]>>] \in S
    BY <2>1
  <2>3. h \in [0 .. m + 1 -> S]
    BY <2>2
  <2>4. h[0] = x /\ h[m + 1] = f[<<m + 1, g[m]>>] /\ \A i \in 0 .. m : h[i] = g[i]
    BY <2>1
  <2>. HIDE DEF h
  <2>5. ASSUME NEW i \in 1 .. m + 1 PROVE h[i] = f[<<i, h[i - 1]>>]
    <3>1. CASE i = m + 1
      BY <2>4, <3>1
    <3>2. CASE i # m + 1
      <4>1. i \in 1 .. m /\ i \in 0 .. m /\ i - 1 \in 0 .. m
        BY <3>2
      <4>. QED  BY <2>1, <2>4, <4>1
    <3>. QED  BY <3>1, <3>2
  <2>6. P(h, m + 1)
    BY <2>3, <2>4, <2>5
  <2>. QED  BY <2>6
<1>. HIDE DEF T
<1>3. n \in T
  BY <1>1, <1>2, Induction
<1>4. PICK g : P(g, n)
  BY <1>3 DEF T
<1>. QED  BY <1>4 DEF Follows

(* There is only one such function. *)
LEMMA FollowOnce ==
  ASSUME NEW f, NEW x, NEW n \in Nat, NEW g, NEW h, Follows(g, f, x, n), Follows(h, f, x, n)
  PROVE  g = h
<1>. DEFINE T == {i \in Nat : i <= n => g[i] = h[i]}
<1>1. 0 \in T
  BY DEF Follows
<1>2. ASSUME NEW i \in Nat, i \in T PROVE i + 1 \in T
  <2>. SUFFICES ASSUME i + 1 <= n PROVE g[i + 1] = h[i + 1]
    OBVIOUS
  <2>1. i + 1 \in 1 .. n /\ i <= n /\ (i + 1) - 1 = i
    OBVIOUS
  <2>2. g[i] = h[i]
    BY <1>2, <2>1
  <2>3. g[i + 1] = f[<<i + 1, g[i]>>] /\ h[i + 1] = f[<<i + 1, h[i]>>]
    BY <2>1 DEF Follows
  <2>. QED  BY <2>2, <2>3
<1>. HIDE DEF T
<1>3. \A i \in 0 .. n : g[i] = h[i]
  <2>1. \A i \in Nat : i \in T
    BY <1>1, <1>2, Induction
  <2>. QED  BY <2>1 DEF T
<1>. QED  BY <1>3 DEF Follows

LEMMA Climb ==
  ASSUME NEW S, NEW h, NEW n \in Nat, h[0] \in S,
         \A i \in 1 .. n : h[i - 1] \in S => h[i] \in S
  PROVE  \A i \in 0 .. n : h[i] \in S
<1>. DEFINE T == {i \in Nat : i <= n => h[i] \in S}
<1>1. 0 \in T
  OBVIOUS
<1>2. ASSUME NEW i \in Nat, i \in T PROVE i + 1 \in T
  <2>. SUFFICES ASSUME i + 1 <= n PROVE h[i + 1] \in S
    OBVIOUS
  <2>1. i + 1 \in 1 .. n /\ i <= n /\ (i + 1) - 1 = i
    OBVIOUS
  <2>2. h[i] \in S
    BY <1>2, <2>1
  <2>. QED  BY <2>1, <2>2
<1>. HIDE DEF T
<1>3. \A i \in Nat : i \in T
  BY <1>1, <1>2, Induction
<1>. QED  BY <1>3 DEF T

-----------------------------------------------------------------------------
(* The length of a message                                                 *)

Piece == [base : Buffers \union {Header}, len : Nat]

Sums(g, v) ==
  /\ g \in [0 .. Len(v) -> Nat] /\ g[0] = 0
  /\ \A i \in 1 .. Len(v) : g[i] = g[i - 1] + v[i].len

LEMMA TotalSums ==
  ASSUME NEW v \in Seq(Piece)
  PROVE  \E g : Sums(g, v) /\ Total(v) = g[Len(v)]
<1>. DEFINE n == Len(v)
            R(h) == [i \in 0 .. n |-> IF i = 0 THEN 0 ELSE h[i - 1] + v[i].len]
            f == [p \in Nat \X Nat |-> IF p[1] \in 1 .. n THEN p[2] + v[p[1]].len ELSE p[2]]
<1>1. n \in Nat /\ \A i \in 1 .. n : v[i].len \in Nat
  <2>1. \A x \in Piece : x.len \in Nat
    BY DEF Piece
  <2>. QED  BY <2>1
<1>2. Total(v) = (CHOOSE h : h = R(h))[n]
  BY Zenon DEF Total
<1>. HIDE DEF n
<1>3. Maps(f, Nat)
  BY <1>1 DEF Maps
<1>4. \A i \in 1 .. n, k \in Nat : f[<<i, k>>] = k + v[i].len
  BY <1>1
<1>. HIDE DEF f
<1>5. PICK g : Follows(g, f, 0, n) /\ \A i \in 0 .. n : g[i] \in Nat
  BY <1>1, <1>3, Follow
<1>6. ASSUME NEW i \in 1 .. n PROVE g[i] = g[i - 1] + v[i].len
  <2>0. g[i] = f[<<i, g[i - 1]>>]
    BY <1>5 DEF Follows
  <2>1. i - 1 \in 0 .. n
    BY <1>1
  <2>2. g[i - 1] \in Nat
    BY <1>5, <2>1
  <2>. QED  BY <1>4, <2>0, <2>2
<1>7. g = R(g)
  <2>1. g = [i \in 0 .. n |-> g[i]] /\ g[0] = 0
    BY <1>5 DEF Follows
  <2>2. \A i \in 0 .. n : g[i] = IF i = 0 THEN 0 ELSE g[i - 1] + v[i].len
    <3>1. \A i \in 0 .. n : i # 0 => i \in 1 .. n
      BY <1>1
    <3>. QED  BY <1>6, <2>1, <3>1
  <2>. QED  BY <2>1, <2>2
<1>. DEFINE h == CHOOSE h : h = R(h)
<1>8. h = R(h)
  <2>. HIDE DEF R
  <2>. QED  BY <1>7, Zenon
<1>. HIDE DEF h
<1>9. h[0] = 0 /\ \A i \in 1 .. n : h[i] = h[i - 1] + v[i].len
  BY <1>1, <1>8
<1>10. \A i \in 0 .. n : h[i] \in Nat
  <2>1. ASSUME NEW i \in 1 .. n, h[i - 1] \in Nat PROVE h[i] \in Nat
    <3>1. h[i] = h[i - 1] + v[i].len /\ v[i].len \in Nat
      BY <1>1, <1>9
    <3>. QED  BY <2>1, <3>1
  <2>2. h[0] \in Nat
    BY <1>9
  <2>. HIDE DEF n
  <2>. QED  BY <1>1, <2>1, <2>2, Climb
<1>11. h \in [0 .. n -> Nat]
  BY <1>8, <1>10
<1>. QED  BY <1>2, <1>9, <1>11 DEF Sums, n, h

(* The lengths are added up in one way only.                               *)
LEMMA TotalIs ==
  ASSUME NEW v \in Seq(Piece), NEW g, Sums(g, v)
  PROVE  Total(v) = g[Len(v)]
<1>. DEFINE n == Len(v)
<1>1. PICK h : Sums(h, v) /\ Total(v) = h[n]
  BY TotalSums
<1>2. n \in Nat
  OBVIOUS
<1>. DEFINE d == [i \in 0 .. n |-> g[i] - h[i]]
<1>0. d[0] \in {0}
  BY <1>1, <1>2 DEF Sums
<1>3. ASSUME NEW i \in 1 .. n, d[i - 1] \in {0} PROVE d[i] \in {0}
  <2>1. i \in 0 .. n /\ i - 1 \in 0 .. n
    BY <1>2
  <2>2. g[i] = g[i - 1] + v[i].len /\ h[i] = h[i - 1] + v[i].len
    BY <1>1 DEF Sums
  <2>3. g[i] \in Nat /\ g[i - 1] \in Nat /\ h[i] \in Nat /\ h[i - 1] \in Nat
    BY <1>1, <2>1 DEF Sums
  <2>4. v[i] \in Piece
    OBVIOUS
  <2>5. v[i].len \in Nat
    BY <2>4 DEF Piece
  <2>6. d[i - 1] = g[i - 1] - h[i - 1] /\ d[i] = g[i] - h[i]
    BY <2>1
  <2>. HIDE DEF d
  <2>. QED  BY <1>3, <2>2, <2>3, <2>5, <2>6
<1>4. \A i \in 0 .. n : d[i] \in {0}
  <2>. HIDE DEF d, n
  <2>. QED  BY <1>0, <1>2, <1>3, Climb
<1>. QED  BY <1>1, <1>4 DEF d, Sums

(* The frames of a contributor come with the length 1 each, ...            *)
LEMMA TotalOfMore ==
  ASSUME NEW v \in Seq(Piece), NEW w \in Seq(Piece),
         \A i \in 1 .. Len(w) : w[i].len = 1
  PROVE  Total(v \o w) = Total(v) + Len(w) /\ Total(v) \in Nat
<1>. DEFINE n == Len(v)  k == Len(w)  u == v \o w
<1>1. n \in Nat /\ k \in Nat
  OBVIOUS
<1>2. /\ u \in Seq(Piece) /\ Len(u) = n + k
      /\ \A i \in 1 .. n : u[i] = v[i]
      /\ \A i \in n + 1 .. n + k : u[i].len = 1
  <2>1. \A i \in n + 1 .. n + k : u[i] = w[i - n] /\ i - n \in 1 .. k
    OBVIOUS
  <2>. QED  BY <2>1
<1>3. PICK g : Sums(g, v) /\ Total(v) = g[n]
  BY TotalSums
<1>. HIDE DEF n, k, u
<1>. DEFINE h == [i \in 0 .. n + k |-> IF i <= n THEN g[i] ELSE g[n] + (i - n)]
<1>4. g \in [0 .. n -> Nat] /\ g[0] = 0 /\ \A i \in 1 .. n : g[i] = g[i - 1] + v[i].len
  BY <1>3 DEF Sums, n
<1>5. h \in [0 .. n + k -> Nat] /\ h[0] = 0 /\ h[n + k] = g[n] + k
  BY <1>1, <1>4
<1>6. ASSUME NEW i \in 1 .. n + k PROVE h[i] = h[i - 1] + u[i].len
  <2>1. CASE i <= n
    <3>1. i \in 1 .. n /\ i - 1 <= n /\ i - 1 \in 0 .. n + k /\ i \in 0 .. n + k
      BY <1>1, <2>1
    <3>. QED  BY <1>2, <1>4, <2>1, <3>1
  <2>2. CASE ~ (i <= n)
    <3>1. i \in n + 1 .. n + k /\ i - 1 \in 0 .. n + k /\ i \in 0 .. n + k /\ g[n] \in Nat
      BY <1>1, <1>4, <2>2
    <3>2. h[i - 1] = g[n] + ((i - 1) - n)
      <4>1. CASE i - 1 = n
        BY <3>1, <4>1
      <4>2. CASE i - 1 # n
        <5>1. ~(i - 1 <= n)
          BY <1>1, <3>1, <4>2
        <5>. QED  BY <3>1, <5>1
      <4>. QED  BY <4>1, <4>2
    <3>3. h[i] = g[n] + (i - n) /\ u[i].len = 1
      BY <1>2, <2>2, <3>1
    <3>. HIDE DEF h
    <3>. QED  BY <1>1, <3>1, <3>2, <3>3
  <2>. QED  BY <2>1, <2>2
<1>. HIDE DEF h
<1>7. Sums(h, u)
  BY <1>2, <1>5, <1>6 DEF Sums
<1>8. Total(u) = h[n + k]
  BY <1>2, <1>7, TotalIs
<1>. QED  BY <1>1, <1>3, <1>4, <1>5, <1>8 DEF u, n, k

(* ... and a record that is put before them adds 1 to a piece.             *)
LEMMA TotalIncreased ==
  ASSUME NEW v \in Seq(Piece), NEW j \in 1 .. Len(v)
  PROVE  /\ Increase(v, j) \in Seq(Piece) /\ Len(Increase(v, j)) = Len(v)
         /\ \A i \in 1 .. Len(v) : /\ Increase(v, j)[i].base = v[i].base
                                   /\ Increase(v, j)[i].len = v[i].len + One(i = j)
         /\ Total(Increase(v, j)) = Total(v) + 1
<1>. DEFINE n == Len(v)  u == Increase(v, j)
<1>1. n \in Nat /\ v \in [1 .. n -> Piece]
  OBVIOUS
<1>2. [v[j] EXCEPT !.len = v[j].len + 1] \in Piece
  <2>1. \A p \in Piece : [p EXCEPT !.len = p.len + 1] \in Piece
    BY DEF Piece
  <2>2. v[j] \in Piece
    BY <1>1
  <2>. QED  BY <2>1, <2>2
<1>3. u = [v EXCEPT ![j] = [v[j] EXCEPT !.len = v[j].len + 1]]
  BY DEF Increase
<1>4. u \in [1 .. n -> Piece]
  BY <1>1, <1>2, <1>3
<1>5. u \in Seq(Piece) /\ Len(u) = n
  BY <1>1, <1>4
<1>6. \A i \in 1 .. n : u[i].base = v[i].base /\ u[i].len = v[i].len + One(i = j)
  <2>. SUFFICES ASSUME NEW i \in 1 .. n
                PROVE  u[i].base = v[i].base /\ u[i].len = v[i].len + One(i = j)
    OBVIOUS
  <2>0. v[i] \in Piece /\ v[i].len \in Nat
    BY <1>1 DEF Piece
  <2>. HIDE DEF u, n
  <2>1. CASE i = j
    BY <1>1, <1>3, <2>0, <2>1 DEF One, Piece
  <2>2. CASE i # j
    BY <1>1, <1>3, <2>0, <2>2 DEF One
  <2>. QED  BY <2>1, <2>2
<1>7. PICK g : Sums(g, v) /\ Total(v) = g[n]
  BY TotalSums
<1>. HIDE DEF n, u
<1>. DEFINE h == [i \in 0 .. n |-> IF i < j THEN g[i] ELSE g[i] + 1]
<1>8. g \in [0 .. n -> Nat] /\ g[0] = 0 /\ \A i \in 1 .. n : g[i] = g[i - 1] + v[i].len
  BY <1>7 DEF Sums, n
<1>9. j \in 1 .. n
  BY DEF n
<1>10. h \in [0 .. n -> Nat] /\ h[0] = 0 /\ h[n] = g[n] + 1
  <2>1. h \in [0 .. n -> Nat]
    BY <1>8
  <2>2. 0 \in 0 .. n /\ n \in 0 .. n /\ 0 < j /\ ~(n < j)
    BY <1>1, <1>9
  <2>. QED  BY <1>8, <2>1, <2>2
<1>11. ASSUME NEW i \in 1 .. n PROVE h[i] = h[i - 1] + u[i].len
  <2>1. /\ i \in 0 .. n /\ i - 1 \in 0 .. n /\ g[i] \in Nat /\ g[i - 1] \in Nat
        /\ g[i] = g[i - 1] + v[i].len
    BY <1>1, <1>8
  <2>0. v[i].len \in Nat
    <3>1. v[i] \in Piece
      BY <1>1
    <3>. QED  BY <3>1 DEF Piece
  <2>2. CASE i < j
    BY <1>6, <1>9, <2>0, <2>1, <2>2 DEF One
  <2>3. CASE i = j
    BY <1>6, <1>9, <2>0, <2>1, <2>3 DEF One
  <2>4. CASE j < i
    BY <1>6, <1>9, <2>0, <2>1, <2>4 DEF One
  <2>. QED  BY <1>9, <2>2, <2>3, <2>4
<1>. HIDE DEF h
<1>12. Total(u) = h[n]
  BY <1>5, <1>10, <1>11, TotalIs DEF Sums
<1>. QED  BY <1>5, <1>6, <1>7, <1>10, <1>12 DEF u, n

-----------------------------------------------------------------------------
(* The scan of a list                                                      *)

N == Cardinality(Buffers)

LEMMA BufferCount == N \in Nat
BY TxAssumption, FS_CardinalityType DEF N

(* at is where a walk along the links is that starts at x.                 *)
Walks(at, k, x) ==
  /\ at[1] = x
  /\ \A i \in 1 .. N : at[i + 1] = IF at[i] \in Buffers THEN k.f[at[i]] ELSE at[i]

LEMMA FromWalks ==
  ASSUME NEW k, NEW x
  PROVE  \E at : /\ Walks(at, k, x)
                 /\ From(k, x) = [i \in 1 .. Cardinality({j \in 1 .. N : at[j] \in Buffers}) |-> at[i]]
<1>. DEFINE R(h) == [i \in 1 .. N + 1 |->
                       IF i = 1 THEN x
                       ELSE IF h[i - 1] \in Buffers THEN k.f[h[i - 1]] ELSE h[i - 1]]
            S == Buffers \union {x} \union {k.f[b] : b \in Buffers}
            f == [p \in Nat \X S |-> IF p[2] \in Buffers THEN k.f[p[2]] ELSE p[2]]
            h == CHOOSE h : h = R(h)
<1>1. N \in Nat
  BY BufferCount
<1>2. Maps(f, S) /\ x \in S
  BY DEF Maps
<1>3. \A i \in Nat, b \in S : f[<<i, b>>] = IF b \in Buffers THEN k.f[b] ELSE b
  OBVIOUS
<1>. HIDE DEF f, S
<1>4. PICK g : Follows(g, f, x, N) /\ \A i \in 0 .. N : g[i] \in S
  BY <1>1, <1>2, Follow
<1>. DEFINE at == [i \in 1 .. N + 1 |-> g[i - 1]]
<1>5. at = R(at)
  <2>. SUFFICES ASSUME NEW i \in 1 .. N + 1 PROVE at[i] = R(at)[i]
    OBVIOUS
  <2>1. CASE i = 1
    BY <1>4, <2>1 DEF Follows
  <2>2. CASE i # 1
    <3>1. /\ i - 1 \in 1 .. N /\ i - 1 \in 1 .. N + 1 /\ i - 1 \in Nat
          /\ (i - 1) - 1 \in 0 .. N
      BY <1>1, <2>2
    <3>2. g[i - 1] = f[<<i - 1, g[(i - 1) - 1]>>] /\ g[(i - 1) - 1] \in S
      BY <1>4, <3>1 DEF Follows
    <3>3. at[i] = g[i - 1] /\ at[i - 1] = g[(i - 1) - 1]
      BY <3>1
    <3>. QED  BY <1>3, <2>2, <3>1, <3>2, <3>3
  <2>. QED  BY <2>1, <2>2
<1>6. h = R(h)
  <2>. HIDE DEF R, at
  <2>. QED  BY <1>5, Zenon
<1>7. From(k, x) = [i \in 1 .. Cardinality({j \in 1 .. N : h[j] \in Buffers}) |-> h[i]]
  BY Zenon DEF From, N
<1>. HIDE DEF h
<1>8. Walks(h, k, x)
  <2>1. 1 \in 1 .. N + 1
    BY <1>1
  <2>2. h[1] = x
    BY <1>6, <2>1
  <2>3. ASSUME NEW i \in 1 .. N
        PROVE  h[i + 1] = IF h[i] \in Buffers THEN k.f[h[i]] ELSE h[i]
    <3>1. i + 1 \in 1 .. N + 1 /\ i + 1 # 1 /\ (i + 1) - 1 = i
      BY <1>1
    <3>. QED  BY <1>6, <3>1
  <2>. QED  BY <2>2, <2>3 DEF Walks
<1>. QED  BY <1>7, <1>8

(* What the walk meets before it first leaves the nodes, or at most as     *)
(* many nodes as there are.                                                *)
Meets(s, k, x) ==
  /\ s \in Seq(Buffers) /\ Len(s) <= N
  /\ Len(s) > 0 => s[1] = x
  /\ \A i \in 1 .. Len(s) : i < Len(s) => s[i + 1] = k.f[s[i]]
  /\ Len(s) < N => IF Len(s) = 0 THEN x \notin Buffers ELSE k.f[s[Len(s)]] \notin Buffers

LEMMA FromMeets ==
  ASSUME NEW k, NEW x
  PROVE  Meets(From(k, x), k, x)
<1>1. PICK at : /\ Walks(at, k, x)
                /\ From(k, x) = [i \in 1 .. Cardinality({j \in 1 .. N : at[j] \in Buffers}) |-> at[i]]
  BY FromWalks
<1>. DEFINE B == {j \in 1 .. N : at[j] \in Buffers}
            T == {m \in Nat : m + 1 \notin B}
<1>2. N \in Nat /\ B \subseteq 1 .. N
  BY BufferCount
<1>3. \A i \in 1 .. N : i \notin B => at[i + 1] = at[i]
  BY <1>1 DEF Walks
<1>4. \A i \in 1 .. N : i \in B => at[i + 1] = k.f[at[i]]
  BY <1>1 DEF Walks
<1>5. \A i \in 1 .. N : i \in B <=> at[i] \in Buffers
  OBVIOUS
<1>. HIDE DEF B
<1>6. N \in T
  BY <1>2
<1>7. PICK m \in T : \A y \in T : m <= y
  BY <1>6, Least
<1>8. m \in Nat /\ m <= N /\ m + 1 \notin B
  BY <1>6, <1>7
<1>9. \A i \in 1 .. m : i \in B
  <2>. SUFFICES ASSUME NEW i \in 1 .. m, i \notin B PROVE FALSE
    OBVIOUS
  <2>1. i - 1 \in Nat /\ (i - 1) + 1 = i /\ ~(m <= i - 1)
    BY <1>8
  <2>. QED  BY <1>7, <2>1
<1>10. \A i \in B : i <= m
  <2>. DEFINE U == {i \in B : ~(i <= m)}
  <2>. SUFFICES ASSUME U # {} PROVE FALSE
    OBVIOUS
  <2>1. U \subseteq Nat
    <3>1. 1 .. N \subseteq Nat
      BY <1>2
    <3>. QED  BY <1>2, <3>1
  <2>2. PICK i \in U : \A y \in U : i <= y
    BY <2>1, Least
  <2>3. i \in B /\ i \in 1 .. N /\ i - 1 \in 1 .. N /\ ~(i - 1 <= m) /\ ~(i <= i - 1)
    <3>1. i \in B /\ i \in 1 .. N /\ ~(i <= m)
      BY <1>2, <2>2
    <3>2. i # m + 1
      BY <1>8, <3>1
    <3>3. i \in Nat /\ i >= 1 /\ i <= N
      BY <1>2, <3>1
    <3>. HIDE DEF U, T
    <3>. QED  BY <1>2, <1>8, <3>1, <3>2, <3>3
  <2>4. i - 1 \notin B
    BY <2>2, <2>3
  <2>5. at[(i - 1) + 1] = at[i - 1] /\ (i - 1) + 1 = i
    BY <1>3, <2>3, <2>4
  <2>. QED  BY <1>5, <2>3, <2>4, <2>5
<1>11. B = 1 .. m
  <2>1. \A i \in B : i \in 1 .. m
    <3>1. \A i \in 1 .. N : i <= m => i \in 1 .. m
      BY <1>2, <1>8
    <3>. QED  BY <1>2, <1>10, <3>1
  <2>. QED  BY <1>9, <2>1
<1>12. Cardinality(B) = m
  <2>1. Cardinality(1 .. m) = m
    BY <1>8, FS_Interval
  <2>. QED  BY <1>11, <2>1
<1>. DEFINE s == From(k, x)
<1>13. s = [i \in 1 .. m |-> at[i]]
  BY <1>1, <1>12 DEF B
<1>14. \A i \in 1 .. m : at[i] \in Buffers
  BY <1>2, <1>5, <1>9
<1>15. s \in Seq(Buffers) /\ Len(s) = m /\ \A i \in 1 .. m : s[i] = at[i]
  BY <1>8, <1>13, <1>14
<1>. HIDE DEF s, T
<1>16. at[1] = x
  BY <1>1 DEF Walks
<1>17. ASSUME m < N
       PROVE  IF m = 0 THEN x \notin Buffers ELSE k.f[s[m]] \notin Buffers
  <2>1. m + 1 \in 1 .. N
    BY <1>2, <1>8, <1>17
  <2>2. at[m + 1] \notin Buffers
    BY <1>5, <1>8, <2>1
  <2>3. CASE m = 0
    BY <1>16, <2>2, <2>3
  <2>4. CASE m # 0
    <3>1. m \in 1 .. m /\ m \in 1 .. N
      BY <1>2, <1>8, <2>4
    <3>. QED  BY <1>4, <1>9, <1>15, <2>2, <2>4, <3>1
  <2>. QED  BY <2>3, <2>4
<1>18. ASSUME NEW i \in 1 .. m, i < m PROVE s[i + 1] = k.f[s[i]]
  <2>1. i + 1 \in 1 .. m /\ i \in 1 .. N
    BY <1>2, <1>8, <1>18
  <2>. QED  BY <1>4, <1>9, <1>15, <2>1
<1>19. m > 0 => s[1] = x
  <2>1. m > 0 => 1 \in 1 .. m
    BY <1>8
  <2>. QED  BY <1>15, <1>16, <2>1
<1>20. Meets(s, k, x)
  BY <1>8, <1>15, <1>17, <1>18, <1>19 DEF Meets
<1>. QED  BY <1>20 DEF s

-----------------------------------------------------------------------------
(* The message                                                             *)

Addresses == Buffers \union {Header, Global}

Messages == [iov : Seq(Piece), written : Seq(Addresses),
             stream : Addresses, next : Addresses, size : Nat]

(* It begins in its transmit buffer and goes on in receive buffers, and    *)
(* its size has been kept.                                                 *)
Assembled(m) ==
  /\ m \in Messages
  /\ Len(m.iov) > 0 /\ m.iov[1].base = Header
  /\ \A i \in 2 .. Len(m.iov) : m.iov[i].base \in Buffers
  /\ Total(m.iov) = m.size

LEMMA HeaderAssembled == Assembled(HeaderOrigin)
<1>. DEFINE p == Iov(Header)  v == <<p>>  g == [i \in 0 .. 1 |-> i]
<1>1. p \in Piece /\ p.base = Header /\ p.len = 1
  BY DEF Iov, Piece
<1>. HIDE DEF p
<1>2. v \in Seq(Piece) /\ Len(v) = 1 /\ v[1] = p
  BY <1>1
<1>3. Sums(g, v)
  <2>1. \A i \in 1 .. 1 : i = 1 /\ i - 1 = 0
    OBVIOUS
  <2>. HIDE DEF v
  <2>. QED  BY <1>1, <1>2, <2>1 DEF Sums
<1>4. Total(v) = 1
  <2>. HIDE DEF v
  <2>1. Total(v) = g[1]
    BY <1>2, <1>3, TotalIs
  <2>. QED  BY <2>1
<1>. DEFINE m == HeaderOrigin
<1>5. m = [iov |-> v, written |-> << >>, stream |-> Header, next |-> Global, size |-> 1]
  BY DEF HeaderOrigin, p
<1>. HIDE DEF v, m
<1>6. m \in Messages /\ m.iov = v /\ m.size = 1
  <2>1. << >> \in Seq(Addresses)
    OBVIOUS
  <2>. QED  BY <1>2, <1>5, <2>1 DEF Messages, Addresses
<1>7. \A i \in 2 .. 1 : FALSE
  OBVIOUS
<1>8. Assembled(m)
  <2>1. Len(m.iov) = 1 /\ m.iov[1].base = Header
    BY <1>1, <1>2, <1>6
  <2>2. \A i \in 2 .. Len(m.iov) : m.iov[i].base \in Buffers
    BY <1>7, <2>1
  <2>. QED  BY <1>4, <1>6, <2>1, <2>2 DEF Assembled
<1>. QED  BY <1>8 DEF m

IsJoin(u, s, t) ==
  /\ Len(u) = Len(s) + Len(t)
  /\ \A i \in 1 .. Len(s) : u[i] = s[i]
  /\ \A i \in 1 .. Len(t) : u[Len(s) + i] = t[i]

LEMMA Joined ==
  ASSUME NEW S, NEW s \in Seq(S), NEW t \in Seq(S)
  PROVE  s \o t \in Seq(S) /\ IsJoin(s \o t, s, t)
BY DEF IsJoin

(* r is m with a stream record and its frames.                             *)
RecordAdded(r, m, frames) ==
  /\ Len(r.iov) = Len(m.iov) + Len(frames)
  /\ \A i \in 1 .. Len(m.iov) :
       /\ r.iov[i].base = m.iov[i].base
       /\ r.iov[i].len = m.iov[i].len + One(i = Len(m.iov))
  /\ \A i \in 1 .. Len(frames) :
       /\ r.iov[Len(m.iov) + i].base = frames[i]
       /\ r.iov[Len(m.iov) + i].len = 1
  /\ r.written = Append(m.written, m.stream)
  /\ r.next = frames[Len(frames)]

LEMMA RecordIsAdded ==
  ASSUME NEW m, Assembled(m), NEW frames \in Seq(Buffers), frames # << >>
  PROVE  /\ Assembled(AddTpcDataRecord(m, frames))
         /\ RecordAdded(AddTpcDataRecord(m, frames), m, frames)
<1>. DEFINE n == Len(m.iov)  k == Len(frames)
            w == [i \in DOMAIN frames |-> Iov(frames[i])]
            u == m.iov \o w
            v == Increase(u, n)
            r == AddTpcDataRecord(m, frames)
<1>1. /\ m.iov \in Seq(Piece) /\ n \in Nat /\ n > 0 /\ m.iov[1].base = Header
      /\ \A i \in 2 .. n : m.iov[i].base \in Buffers
      /\ Total(m.iov) = m.size /\ m.size \in Nat
  BY DEF Assembled, Messages
<1>2. m.written \in Seq(Addresses) /\ m.stream \in Addresses
  BY DEF Assembled, Messages
<1>3. k \in Nat /\ k > 0 /\ \A i \in 1 .. k : frames[i] \in Buffers
  OBVIOUS
<1>4. w \in Seq(Piece) /\ Len(w) = k /\ \A i \in 1 .. k : w[i].base = frames[i] /\ w[i].len = 1
  <2>1. \A b \in Buffers : Iov(b) \in Piece /\ Iov(b).base = b /\ Iov(b).len = 1
    BY DEF Iov, Piece
  <2>. QED  BY <1>3, <2>1
<1>5. r = [iov |-> v, written |-> Append(m.written, m.stream), stream |-> m.stream,
           next |-> frames[k], size |-> m.size + 1 + k]
  BY DEF AddTpcDataRecord
<1>. HIDE DEF w, n, k, r
<1>6. /\ u \in Seq(Piece) /\ Len(u) = n + k
      /\ \A i \in 1 .. n : u[i] = m.iov[i]
      /\ \A i \in 1 .. k : u[n + i] = w[i]
  <2>. DEFINE o == m.iov
  <2>1. o \in Seq(Piece) /\ n = Len(o) /\ u = o \o w
    BY <1>1 DEF n
  <2>. HIDE DEF o, u
  <2>2. u \in Seq(Piece) /\ IsJoin(u, o, w)
    BY <1>4, <2>1, Joined
  <2>. QED  BY <1>4, <2>1, <2>2 DEF IsJoin, o
<1>7. Total(u) = m.size + k
  BY <1>1, <1>4, TotalOfMore DEF k
<1>. HIDE DEF u
<1>8. n \in 1 .. Len(u)
  BY <1>1, <1>3, <1>6
<1>9. /\ v \in Seq(Piece) /\ Len(v) = n + k
      /\ \A i \in 1 .. n + k : v[i].base = u[i].base /\ v[i].len = u[i].len + One(i = n)
      /\ Total(v) = m.size + k + 1
  BY <1>6, <1>7, <1>8, TotalIncreased
<1>. HIDE DEF v
<1>10. /\ r.iov = v /\ r.written = Append(m.written, m.stream) /\ r.next = frames[k]
       /\ r.size = m.size + 1 + k
  BY <1>5
<1>11. r \in Messages
  <2>1. Append(m.written, m.stream) \in Seq(Addresses)
    BY <1>2
  <2>2. frames[k] \in Addresses /\ m.size + 1 + k \in Nat
    BY <1>1, <1>3 DEF Addresses
  <2>. QED  BY <1>2, <1>5, <1>9, <2>1, <2>2 DEF Messages
<1>12. \A i \in 1 .. n : /\ v[i].base = m.iov[i].base
                         /\ v[i].len = m.iov[i].len + One(i = n)
  <2>1. \A i \in 1 .. n : i \in 1 .. n + k
    BY <1>1, <1>3
  <2>. QED  BY <1>6, <1>9, <2>1
<1>13. \A i \in 1 .. k : v[n + i].base = frames[i] /\ v[n + i].len = 1
  <2>. SUFFICES ASSUME NEW i \in 1 .. k PROVE v[n + i].base = frames[i] /\ v[n + i].len = 1
    OBVIOUS
  <2>1. n + i \in 1 .. n + k /\ n + i # n
    BY <1>1, <1>3
  <2>. QED  BY <1>4, <1>6, <1>9, <2>1 DEF One
<1>14. Assembled(r)
  <2>1. v[1].base = Header
    <3>1. 1 \in 1 .. n
      BY <1>1
    <3>. QED  BY <1>1, <1>12, <3>1
  <2>2. ASSUME NEW i \in 2 .. n + k PROVE v[i].base \in Buffers
    <3>1. CASE i \in 2 .. n
      <4>1. i \in 1 .. n
        BY <3>1
      <4>. QED  BY <1>1, <1>12, <3>1, <4>1
    <3>2. CASE i \notin 2 .. n
      <4>1. i - n \in 1 .. k /\ n + (i - n) = i
        BY <1>1, <1>3, <3>2
      <4>. QED  BY <1>3, <1>13, <4>1
    <3>. QED  BY <3>1, <3>2
  <2>3. m.size + k + 1 = m.size + 1 + k /\ n + k > 0
    BY <1>1, <1>3
  <2>. QED  BY <1>9, <1>10, <1>11, <2>1, <2>2, <2>3 DEF Assembled
<1>15. RecordAdded(r, m, frames)
  BY <1>9, <1>10, <1>12, <1>13 DEF RecordAdded, n, k
<1>. QED  BY <1>14, <1>15 DEF r

(* One turn for a contributor, ...                                         *)
LEMMA ContributorAdded ==
  ASSUME NEW m, Assembled(m), NEW frames \in Seq(Buffers)
  PROVE  Assembled(AddContributor(m, frames))
<1>. DEFINE a == IF frames = << >> THEN m ELSE AddTpcDataRecord(m, frames)
<1>1. Assembled(a)
  BY RecordIsAdded
<1>2. AddContributor(m, frames) = [a EXCEPT !.stream = a.next]
  BY DEF AddContributor
<1>. HIDE DEF a
<1>. QED  BY <1>1, <1>2 DEF Assembled, Messages

(* ... and all of them.                                                    *)
Turns(g, e) ==
  /\ g[0] = HeaderOrigin
  /\ \A d \in Dests : g[d] = AddContributor(g[d - 1], Scan(links, ListOf(e, d)))

LEMMA ContributorsTurns ==
  ASSUME NEW e
  PROVE  \E g : /\ Turns(g, e) /\ AddContributors(e) = g[NDests]
                /\ \A d \in 0 .. NDests : Assembled(g[d])
<1>. DEFINE S == {m \in Messages : Assembled(m)}
            frames(d) == Scan(links, ListOf(e, d))
            R(h) == [d \in 0 .. NDests |-> IF d = 0 THEN HeaderOrigin
                                           ELSE AddContributor(h[d - 1], frames(d))]
            f == [p \in Nat \X S |-> AddContributor(p[2], frames(p[1]))]
            h == CHOOSE h : h = R(h)
<1>1. NDests \in Nat /\ Dests = 1 .. NDests
  BY TxAssumption DEF Dests
<1>2. \A d : frames(d) \in Seq(Buffers)
  BY FromMeets DEF Scan, Meets
<1>3. ASSUME NEW m \in S, NEW d PROVE AddContributor(m, frames(d)) \in S
  <2>1. Assembled(AddContributor(m, frames(d)))
    BY <1>2, ContributorAdded
  <2>. QED  BY <2>1 DEF Assembled
<1>4. HeaderOrigin \in S
  BY HeaderAssembled DEF Assembled
<1>5. AddContributors(e) = (CHOOSE q : q = R(q))[NDests]
  BY Zenon DEF AddContributors
<1>. HIDE DEF S, frames
<1>6. Maps(f, S)
  BY <1>3 DEF Maps
<1>7. \A d \in Nat, m \in S : f[<<d, m>>] = AddContributor(m, frames(d))
  OBVIOUS
<1>. HIDE DEF f
<1>8. PICK g : Follows(g, f, HeaderOrigin, NDests) /\ \A d \in 0 .. NDests : g[d] \in S
  BY <1>1, <1>4, <1>6, Follow
<1>9. g = R(g)
  <2>1. g = [d \in 0 .. NDests |-> g[d]] /\ g[0] = HeaderOrigin
    BY <1>8 DEF Follows
  <2>2. ASSUME NEW d \in 0 .. NDests, d # 0
        PROVE  g[d] = AddContributor(g[d - 1], frames(d))
    <3>1. d \in 1 .. NDests /\ d - 1 \in 0 .. NDests /\ d \in Nat
      BY <1>1, <2>2
    <3>2. g[d] = f[<<d, g[d - 1]>>] /\ g[d - 1] \in S
      BY <1>8, <3>1 DEF Follows
    <3>. QED  BY <1>7, <3>1, <3>2
  <2>3. \A d \in 0 .. NDests :
          g[d] = IF d = 0 THEN HeaderOrigin ELSE AddContributor(g[d - 1], frames(d))
    BY <2>1, <2>2
  <2>. QED  BY <2>1, <2>3
<1>10. h = R(h)
  <2>. HIDE DEF R
  <2>. QED  BY <1>9, Zenon
<1>. HIDE DEF h
<1>11. h[0] = HeaderOrigin /\ \A d \in 1 .. NDests : h[d] = AddContributor(h[d - 1], frames(d))
  <2>1. 0 \in 0 .. NDests /\ \A d \in 1 .. NDests : d \in 0 .. NDests /\ d # 0
    BY <1>1
  <2>. QED  BY <1>10, <2>1
<1>12. \A d \in 0 .. NDests : h[d] \in S
  <2>1. ASSUME NEW d \in 1 .. NDests, h[d - 1] \in S PROVE h[d] \in S
    BY <1>3, <1>11, <2>1
  <2>2. h[0] \in S
    BY <1>4, <1>11
  <2>. QED  BY <1>1, <2>1, <2>2, Climb
<1>13. Turns(h, e)
  BY <1>1, <1>11 DEF Turns, frames
<1>. QED  BY <1>5, <1>12, <1>13 DEF h, S

(* The trailer is the last that is counted to the last piece.              *)
LEMMA MessageAssembled ==
  ASSUME NEW e
  PROVE  Assembled(Message(e))
<1>. DEFINE m == AddContributors(e)  v == Increase(m.iov, Len(m.iov))
<1>1. Assembled(m)
  <2>1. NDests \in 0 .. NDests
    BY TxAssumption
  <2>. QED  BY <2>1, ContributorsTurns
<1>2. Message(e) = [m EXCEPT !.written = Append(m.written, m.next), !.iov = v, !.size = m.size + 1]
  BY DEF Message
<1>. DEFINE n == Len(m.iov)
<1>. HIDE DEF m
<1>3. /\ m.iov \in Seq(Piece) /\ n \in Nat /\ n > 0 /\ m.iov[1].base = Header
      /\ \A i \in 2 .. n : m.iov[i].base \in Buffers
      /\ Total(m.iov) = m.size /\ m.size \in Nat
  BY <1>1 DEF Assembled, Messages
<1>4. n \in 1 .. n /\ 1 \in 1 .. n /\ \A i \in 2 .. n : i \in 1 .. n
  BY <1>3
<1>5. /\ v \in Seq(Piece) /\ Len(v) = n /\ Total(v) = m.size + 1
      /\ \A i \in 1 .. n : v[i].base = m.iov[i].base
  BY <1>3, <1>4, TotalIncreased
<1>6. v[1].base = Header /\ \A i \in 2 .. n : v[i].base \in Buffers
  BY <1>3, <1>4, <1>5
<1>. HIDE DEF n, v
<1>. DEFINE r == Message(e)
<1>7. r \in Messages /\ r.iov = v /\ r.size = m.size + 1
  <2>1. Append(m.written, m.next) \in Seq(Addresses) /\ m.size + 1 \in Nat
    BY <1>1, <1>3 DEF Assembled, Messages
  <2>. QED  BY <1>1, <1>2, <1>5, <2>1 DEF Assembled, Messages
<1>. HIDE DEF r
<1>8. Assembled(r)
  BY <1>3, <1>5, <1>6, <1>7 DEF Assembled
<1>. QED  BY <1>8 DEF r

-----------------------------------------------------------------------------
(* Transmit buffers and sizes                                              *)

HInv ==
  /\ headers \in Nat /\ wireHeaders \in Nat /\ lostHeaders \in Nat
  /\ pc \in {"send", "walk", "step"} => Assembled(msg)
  /\ pc = "send" => place \in 1 .. Len(msg.iov)
  /\ HeadersOwned

LEMMA HInvInit == Init => HInv
<1>. SUFFICES ASSUME Init PROVE HInv
  OBVIOUS
<1>1. Headers \in Nat
  BY TxAssumption
<1>. QED  BY <1>1 DEF Init, HInv, HeadersOwned, One

(* A message is built: the transmit buffer is txRun's, or free again at    *)
(* once.                                                                   *)
LEMMA HInvBuilds ==
  ASSUME HInv, BlowOff \/ Build
  PROVE  HInv'
<1>. USE DEF HInv
<1>1. pc = "build" /\ msg' = Message(event) /\ UNCHANGED <<wireHeaders, lostHeaders>>
  BY DEF BlowOff, Build, hwVars
<1>2. Assembled(msg')
  BY <1>1, MessageAssembled
<1>3. Len(msg'.iov) \in Nat /\ Len(msg'.iov) > 0
  BY <1>2 DEF Assembled, Messages
<1>4. headers + wireHeaders + lostHeaders = Headers
  BY <1>1 DEF HeadersOwned, One
<1>5. CASE BlowOff
  <2>1. headers' = headers /\ pc' = "walk"
    BY <1>5 DEF BlowOff, StartFree, hwVars
  <2>. QED  BY <1>1, <1>2, <1>4, <2>1 DEF HeadersOwned, One
<1>6. CASE Build
  <2>1. headers > 0 /\ headers' = headers - 1 /\ pc' = "send" /\ place' = 1
    BY <1>6 DEF Build
  <2>2. headers' \in Nat /\ headers' + 1 = headers
    BY <2>1
  <2>3. place' \in 1 .. Len(msg'.iov)
    BY <1>3, <2>1
  <2>4. HeadersOwned'
    BY <1>1, <1>4, <2>1, <2>2 DEF HeadersOwned, One
  <2>. QED  BY <1>1, <1>2, <2>1, <2>2, <2>3, <2>4
<1>. QED  BY <1>5, <1>6

(* The message is sent: the transmit buffer is its first piece and no      *)
(* other.                                                                  *)
LEMMA HInvSends ==
  ASSUME HInv, SendTcp \/ HandOver
  PROVE  HInv'
<1>. USE DEF HInv
<1>1. /\ pc = "send" /\ Assembled(msg) /\ place \in 1 .. Len(msg.iov) /\ msg' = msg
      /\ path' = path
  BY DEF SendTcp, HandOver
<1>2. CASE SendTcp
  <2>1. /\ headers' = headers + 1 /\ pc' = "walk" /\ path = "tcp"
        /\ UNCHANGED <<wireHeaders, lostHeaders>>
    BY <1>2 DEF SendTcp, StartFree
  <2>2. headers + wireHeaders + lostHeaders + 1 = Headers
    BY <1>1, <2>1 DEF HeadersOwned, One
  <2>. QED  BY <1>1, <2>1, <2>2 DEF HeadersOwned, One
<1>3. CASE HandOver
  <2>. DEFINE n == Len(msg.iov)  base == msg.iov[place].base
  <2>1. n \in Nat /\ place \in 1 .. n
    BY <1>1 DEF Assembled, Messages
  <2>2. base = Header <=> place = 1
    <3>1. CASE place = 1
      BY <1>1, <3>1 DEF Assembled
    <3>2. CASE place # 1
      <4>1. place \in 2 .. n
        BY <2>1, <3>2
      <4>. QED  BY <1>1, <3>2, <4>1, TxAssumption DEF Assembled
    <3>. QED  BY <3>1, <3>2
  <2>3. /\ path = "rssi" /\ headers' = headers
        /\ \/ pc' = "send" /\ place < n /\ place' = place + 1
           \/ pc' = "descriptor"
        /\ \/ base = Header /\ wireHeaders' = wireHeaders + 1 /\ lostHeaders' = lostHeaders
           \/ base = Header /\ lostHeaders' = lostHeaders + 1 /\ wireHeaders' = wireHeaders
           \/ base # Header /\ UNCHANGED <<wireHeaders, lostHeaders>>
    BY <1>3 DEF HandOver
  <2>. HIDE DEF n, base
  <2>4. headers + wireHeaders + lostHeaders + One(place = 1) = Headers
    BY <1>1, <2>3 DEF HeadersOwned, One
  <2>5. /\ wireHeaders' \in Nat /\ lostHeaders' \in Nat
        /\ headers' + wireHeaders' + lostHeaders' = Headers
    BY <2>2, <2>3, <2>4 DEF One
  <2>6. /\ pc' = "send" => place' \in 1 .. n /\ place' # 1
        /\ pc' \notin {"walk", "step"}
    BY <2>1, <2>3
  <2>7. HeadersOwned'
    BY <1>1, <2>3, <2>5, <2>6 DEF HeadersOwned, One
  <2>. QED  BY <1>1, <2>3, <2>5, <2>6, <2>7 DEF n
<1>. QED  BY <1>2, <1>3

(* Steps that have nothing to do with the message or transmit buffers.     *)
LEMMA HInvElsewhere ==
  ASSUME HInv, UNCHANGED <<headers, wireHeaders, lostHeaders, msg>>,
         \/ UNCHANGED <<pc, place, path>>
         \/ /\ pc # "send" /\ pc' # "send"
            /\ pc' \in {"walk", "step"} => pc \in {"walk", "step"}
  PROVE  HInv'
<1>1. CASE UNCHANGED <<pc, place, path>>
  BY <1>1 DEF HInv, HeadersOwned
<1>2. CASE /\ pc # "send" /\ pc' # "send"
           /\ pc' \in {"walk", "step"} => pc \in {"walk", "step"}
  BY <1>2 DEF HInv, HeadersOwned, One
<1>. QED  BY <1>1, <1>2

LEMMA HInvNext == HInv /\ [Next]_vars => HInv'
<1>. SUFFICES ASSUME HInv, [Next]_vars PROVE HInv'
  OBVIOUS
<1>1. CASE RxStep
  BY <1>1, HInvElsewhere
     DEF RxStep, FrameToLatency, FrameToEvent, TakeTrigger, PostEvent, hwVars, txVars
<1>2. CASE TxPop \/ FreeDescriptor \/ Record
  BY <1>2, HInvElsewhere DEF TxPop, FreeDescriptor, Record, hwVars
<1>3. CASE BlowOff \/ Build
  BY <1>3, HInvBuilds
<1>4. CASE SendTcp \/ HandOver
  BY <1>4, HInvSends
<1>5. CASE FreeNode \/ NextNode \/ NextList \/ GoneAstray
  BY <1>5, HInvElsewhere DEF FreeNode, NextNode, NextList, GoneAstray, hwVars
<1>6. CASE Transmitted
  <2>1. CASE UNCHANGED <<headers, wireHeaders>>
    BY <1>6, <2>1, HInvElsewhere DEF Transmitted, txVars
  <2>2. CASE wireHeaders > 0 /\ wireHeaders' = wireHeaders - 1 /\ headers' = headers + 1
    <3>1. UNCHANGED <<lostHeaders, msg, pc, place, path>>
      BY <1>6 DEF Transmitted, txVars
    <3>2. wireHeaders' \in Nat /\ headers' \in Nat /\ lostHeaders \in Nat
          /\ headers' + wireHeaders' + lostHeaders = headers + wireHeaders + lostHeaders
      BY <2>2 DEF HInv
    <3>. QED  BY <3>1, <3>2 DEF HInv, HeadersOwned
  <2>. QED  BY <1>6, <2>1, <2>2 DEF Transmitted
<1>7. CASE \E c \in Configs : SetConfig(c)
  BY <1>7, HInvElsewhere DEF SetConfig, hwVars, txVars
<1>8. CASE UNCHANGED vars
  BY <1>8, HInvElsewhere DEF vars, hwVars, txVars
<1>. QED  BY <1>1, <1>2, <1>3, <1>4, <1>5, <1>6, <1>7, <1>8 DEF Next, TxStep

(* Every transmit buffer is in one place, on each of the three ways an     *)
(* event can go and when pieces of it cannot be handed over.               *)
THEOREM TxHeaders == Spec => []HeadersOwned
<1>1. HInv => HeadersOwned
  BY DEF HInv
<1>. QED  BY HInvInit, HInvNext, <1>1, PTL DEF Spec

(* The size that txRun computed is what the pieces add up to, for every    *)
(* number of contributors and frames, those without frames included.       *)
THEOREM TxSizes == Spec => []SizeAgrees
<1>1. HInv => SizeAgrees
  BY DEF HInv, SizeAgrees, Assembled
<1>. QED  BY HInvInit, HInvNext, <1>1, PTL DEF Spec

-----------------------------------------------------------------------------
(* The links of the lists                                                  *)

Places == Buffers \union Lists

LinkTables == [f : [Places -> Places], b : [Lists -> Places]]

Elems(s) == {s[i] : i \in 1 .. Len(s)}

Distinct(s) == \A i, j \in 1 .. Len(s) : s[i] = s[j] => i = j

(* The nodes of s, in order, are on the list l.                            *)
Chain(k, l, s) ==
  /\ s \in Seq(Buffers) /\ Distinct(s)
  /\ k.f[l] = IF Len(s) = 0 THEN l ELSE s[1]
  /\ k.b[l] = IF Len(s) = 0 THEN l ELSE s[Len(s)]
  /\ \A i \in 1 .. Len(s) : k.f[s[i]] = IF i = Len(s) THEN l ELSE s[i + 1]

(* A list is the same as long as its own links are.                        *)
LEMMA ChainKept ==
  ASSUME NEW k, NEW j, NEW l, NEW s, Chain(k, l, s),
         j.b[l] = k.b[l], \A x \in Elems(s) \union {l} : j.f[x] = k.f[x]
  PROVE  Chain(j, l, s)
BY DEF Chain, Elems

(* The three operations as changes of single links.                        *)
LEMMA InsertTailLinks ==
  ASSUME NEW k \in LinkTables, NEW l \in Lists, NEW n \in Buffers, k.b[l] # n,
         NEW j, j = InsertTail(k, l, n)
  PROVE  /\ j \in LinkTables
         /\ j.b[l] = n /\ \A m \in Lists : m # l => j.b[m] = k.b[m]
         /\ j.f[n] = l /\ j.f[k.b[l]] = n
         /\ \A x \in Places : x # n /\ x # k.b[l] => j.f[x] = k.f[x]
<1>. DEFINE F == k.f  B == k.b
<1>1. F \in [Places -> Places] /\ B \in [Lists -> Places] /\ n \in Places /\ l \in Places
      /\ Lists \subseteq Places
  BY DEF LinkTables, Places
<1>2. j = [f |-> [F EXCEPT ![n] = l, ![B[l]] = n], b |-> [B EXCEPT ![l] = n]]
  BY DEF InsertTail
<1>3. B[l] # n
  OBVIOUS
<1>. HIDE DEF F, B
<1>4. j.f = [F EXCEPT ![n] = l, ![B[l]] = n] /\ j.b = [B EXCEPT ![l] = n]
  BY <1>2
<1>5. j.f \in [Places -> Places] /\ j.b \in [Lists -> Places]
  BY <1>1, <1>4
<1>6. j \in LinkTables
  BY <1>2, <1>4, <1>5 DEF LinkTables
<1>7. B[l] \in Places
  BY <1>1
<1>8. j.b[l] = n /\ \A m \in Lists : m # l => j.b[m] = B[m]
  BY <1>1, <1>4
<1>9. /\ j.f[n] = l /\ j.f[B[l]] = n
      /\ \A x \in Places : x # n /\ x # B[l] => j.f[x] = F[x]
  BY <1>1, <1>3, <1>4, <1>7
<1>. QED  BY <1>6, <1>8, <1>9 DEF F, B

LEMMA RemoveHeadLinks ==
  ASSUME NEW k \in LinkTables, NEW l \in Lists, NEW j, j = RemoveHead(k, l)
  PROVE  /\ j \in LinkTables
         /\ j.f[l] = k.f[k.f[l]] /\ \A x \in Places : x # l => j.f[x] = k.f[x]
         /\ j.b[l] = IF k.f[k.f[l]] = l THEN l ELSE k.b[l]
         /\ \A m \in Lists : m # l => j.b[m] = k.b[m]
<1>. DEFINE F == k.f  B == k.b  s == F[F[l]]
<1>1. F \in [Places -> Places] /\ B \in [Lists -> Places] /\ l \in Places
      /\ Lists \subseteq Places
  BY DEF LinkTables, Places
<1>2. j = [f |-> [F EXCEPT ![l] = s], b |-> IF s = l THEN [B EXCEPT ![l] = l] ELSE B]
  BY DEF RemoveHead
<1>3. s \in Places
  BY <1>1
<1>4. s = k.f[k.f[l]]
  OBVIOUS
<1>. HIDE DEF s, F, B
<1>5. j.f = [F EXCEPT ![l] = s] /\ j.b = IF s = l THEN [B EXCEPT ![l] = l] ELSE B
  BY <1>2
<1>6. j.f \in [Places -> Places] /\ j.b \in [Lists -> Places]
  BY <1>1, <1>3, <1>5
<1>7. j \in LinkTables
  BY <1>2, <1>5, <1>6 DEF LinkTables
<1>8. j.f[l] = s /\ \A x \in Places : x # l => j.f[x] = F[x]
  BY <1>1, <1>5
<1>9. /\ j.b[l] = IF s = l THEN l ELSE B[l]
      /\ \A m \in Lists : m # l => j.b[m] = B[m]
  BY <1>1, <1>5
<1>. QED  BY <1>4, <1>7, <1>8, <1>9 DEF F, B

LEMMA EmptiedLinks ==
  ASSUME NEW k \in LinkTables, NEW ls \in SUBSET Lists, NEW j, j = Emptied(k, ls)
  PROVE  /\ j \in LinkTables
         /\ \A l \in ls : j.f[l] = l /\ j.b[l] = l
         /\ \A x \in Places \ ls : j.f[x] = k.f[x]
         /\ \A l \in Lists \ ls : j.b[l] = k.b[l]
<1>. DEFINE F == k.f  B == k.b
<1>1. F \in [Places -> Places] /\ B \in [Lists -> Places] /\ Lists \subseteq Places
  BY DEF LinkTables, Places
<1>2. j = [f |-> [x \in Places |-> IF x \in ls THEN x ELSE F[x]],
           b |-> [x \in Lists |-> IF x \in ls THEN x ELSE B[x]]]
  BY <1>1 DEF Emptied
<1>. HIDE DEF F, B
<1>3. /\ j.f = [x \in Places |-> IF x \in ls THEN x ELSE F[x]]
      /\ j.b = [x \in Lists |-> IF x \in ls THEN x ELSE B[x]]
  BY <1>2
<1>4. j.f \in [Places -> Places] /\ j.b \in [Lists -> Places]
  BY <1>1, <1>3
<1>5. j \in LinkTables
  BY <1>2, <1>3, <1>4 DEF LinkTables
<1>. QED  BY <1>1, <1>3, <1>5 DEF F, B

(* What a scan meets is the list.                                          *)
LEMMA DistinctFits ==
  ASSUME NEW s \in Seq(Buffers), Distinct(s)
  PROVE  Len(s) \in Nat /\ Len(s) <= N
<1>. DEFINE n == Len(s)  f == [i \in 1 .. n |-> s[i]]
<1>1. n \in Nat /\ \A i \in 1 .. n : s[i] \in Buffers
  OBVIOUS
<1>2. \A i, j \in 1 .. n : s[i] = s[j] => i = j
  BY DEF Distinct
<1>. HIDE DEF n
<1>3. f \in Injection(1 .. n, Buffers)
  BY <1>1, <1>2 DEF Injection, IsInjective
<1>4. IsFiniteSet(1 .. n) /\ Cardinality(1 .. n) = n
  BY <1>1, FS_Interval
<1>5. Cardinality(1 .. n) <= Cardinality(Buffers)
  BY <1>3, TxAssumption, FS_Injection
<1>. QED  BY <1>1, <1>4, <1>5 DEF N, n

LEMMA ScanIsChain ==
  ASSUME NEW k, NEW l \in Lists, NEW s, Chain(k, l, s)
  PROVE  Scan(k, l) = s
<1>. DEFINE t == Scan(k, l)  n == Len(s)  m == Len(t)
<1>1. /\ t \in Seq(Buffers) /\ m \in Nat /\ m <= N
      /\ m > 0 => t[1] = k.f[l]
      /\ \A i \in 1 .. m : i < m => t[i + 1] = k.f[t[i]]
      /\ m < N => IF m = 0 THEN k.f[l] \notin Buffers ELSE k.f[t[m]] \notin Buffers
  BY FromMeets DEF Scan, Meets
<1>2. /\ s \in Seq(Buffers) /\ n \in Nat /\ n <= N
      /\ k.f[l] = IF n = 0 THEN l ELSE s[1]
      /\ \A i \in 1 .. n : k.f[s[i]] = IF i = n THEN l ELSE s[i + 1]
  BY DistinctFits DEF Chain
<1>3. N \in Nat /\ l \notin Buffers /\ \A i \in 1 .. n : s[i] \in Buffers
  BY <1>2, BufferCount, NodesAssumption
<1>4. \A i \in 1 .. m : t[i] \in Buffers
  BY <1>1
<1>5. s = [i \in 1 .. n |-> s[i]] /\ t = [i \in 1 .. m |-> t[i]]
  BY <1>1, <1>2
<1>. HIDE DEF n, m, t
<1>. DEFINE T == {i \in Nat : i + 1 <= n /\ i + 1 <= m => t[i + 1] = s[i + 1]}
<1>6. 0 \in T
  BY <1>1, <1>2
<1>7. ASSUME NEW i \in Nat, i \in T PROVE i + 1 \in T
  <2>. SUFFICES ASSUME (i + 1) + 1 <= n, (i + 1) + 1 <= m
                PROVE  t[(i + 1) + 1] = s[(i + 1) + 1]
    OBVIOUS
  <2>1. /\ i + 1 \in 1 .. n /\ i + 1 # n /\ i + 1 \in 1 .. m /\ i + 1 < m
        /\ i + 1 <= n /\ i + 1 <= m
    BY <1>1, <1>2
  <2>2. t[i + 1] = s[i + 1]
    BY <1>7, <2>1
  <2>. QED  BY <1>1, <1>2, <2>1, <2>2
<1>. HIDE DEF T
<1>8. \A i \in Nat : i \in T
  BY <1>6, <1>7, Induction
<1>9. ASSUME NEW i \in 1 .. n, i <= m PROVE t[i] = s[i]
  <2>1. i - 1 \in Nat /\ (i - 1) + 1 = i /\ i <= n
    BY <1>2
  <2>2. i - 1 \in T
    BY <1>8, <2>1
  <2>. QED  BY <1>9, <2>1, <2>2 DEF T
<1>10. ~(m < n)
  <2>. SUFFICES ASSUME m < n PROVE FALSE
    OBVIOUS
  <2>1. m < N
    BY <1>1, <1>2, <1>3
  <2>2. CASE m = 0
    <3>1. 1 \in 1 .. n
      BY <1>2, <2>2
    <3>2. k.f[l] = s[1] /\ k.f[l] \notin Buffers
      BY <1>1, <1>2, <2>1, <2>2, <3>1
    <3>. QED  BY <1>3, <3>1, <3>2
  <2>3. CASE m # 0
    <3>1. m \in 1 .. n /\ m # n /\ m + 1 \in 1 .. n
      BY <1>1, <1>2, <2>3
    <3>2. k.f[t[m]] = s[m + 1]
      BY <1>1, <1>2, <1>9, <3>1
    <3>. QED  BY <1>1, <1>3, <2>1, <2>3, <3>1, <3>2
  <2>. QED  BY <2>2, <2>3
<1>11. ~(n < m)
  <2>. SUFFICES ASSUME n < m PROVE FALSE
    OBVIOUS
  <2>1. n + 1 \in 1 .. m
    BY <1>1, <1>2
  <2>2. t[n + 1] = l
    <3>1. CASE n = 0
      BY <1>1, <1>2, <3>1
    <3>2. CASE n # 0
      <4>1. n \in 1 .. n /\ n <= m /\ n \in 1 .. m
        BY <1>1, <1>2, <3>2
      <4>2. t[n] = s[n]
        BY <1>9, <4>1
      <4>. QED  BY <1>1, <1>2, <4>1, <4>2
    <3>. QED  BY <3>1, <3>2
  <2>. QED  BY <1>3, <1>4, <2>1, <2>2
<1>12. m = n
  BY <1>1, <1>2, <1>10, <1>11
<1>13. \A i \in 1 .. n : t[i] = s[i]
  BY <1>2, <1>9, <1>12
<1>. QED  BY <1>5, <1>12, <1>13 DEF t

(* What the operations do to a list, and that they leave others alone.     *)
LEMMA TailChain ==
  ASSUME NEW k \in LinkTables, NEW l \in Lists, NEW s, Chain(k, l, s),
         NEW n \in Buffers, n \notin Elems(s), NEW j, j = InsertTail(k, l, n)
  PROVE  /\ j \in LinkTables /\ Chain(j, l, Append(s, n))
         /\ Elems(Append(s, n)) = Elems(s) \union {n}
         /\ \A t : \A m \in Lists :
                                /\ m # l /\ Chain(k, m, t) /\ n \notin Elems(t)
                                /\ Elems(s) \cap Elems(t) = {}
                                => Chain(j, m, t)
<1>. DEFINE len == Len(s)  u == Append(s, n)
<1>1. s \in Seq(Buffers) /\ len \in Nat /\ \A i \in 1 .. len : s[i] \in Buffers /\ s[i] # n
  BY DEF Chain, Elems
<1>2. /\ k.f[l] = IF len = 0 THEN l ELSE s[1]
      /\ k.b[l] = IF len = 0 THEN l ELSE s[len]
      /\ \A i \in 1 .. len : k.f[s[i]] = IF i = len THEN l ELSE s[i + 1]
      /\ \A i, i2 \in 1 .. len : s[i] = s[i2] => i = i2
  BY DEF Chain, Distinct
<1>3. l \notin Buffers /\ Buffers \subseteq Places /\ l \in Places
  BY NodesAssumption DEF Places
<1>4. /\ u \in Seq(Buffers) /\ Len(u) = len + 1 /\ u[len + 1] = n
      /\ \A i \in 1 .. len : u[i] = s[i]
  BY <1>1
<1>. HIDE DEF len, u
<1>5. k.b[l] # n /\ (len = 0 => k.b[l] = l) /\ (len # 0 => len \in 1 .. len /\ k.b[l] = s[len])
  BY <1>1, <1>2, <1>3
<1>6. /\ j \in LinkTables
      /\ j.b[l] = n /\ \A m \in Lists : m # l => j.b[m] = k.b[m]
      /\ j.f[n] = l /\ j.f[k.b[l]] = n
      /\ \A x \in Places : x # n /\ x # k.b[l] => j.f[x] = k.f[x]
  BY <1>5, InsertTailLinks
<1>7. \A i \in 1 .. len + 1 : i \in 1 .. len \/ i = len + 1
  BY <1>1
<1>8. Distinct(u)
  BY <1>1, <1>2, <1>4, <1>7 DEF Distinct
<1>9. j.f[l] = u[1]
  <2>1. CASE len = 0
    BY <1>4, <1>5, <1>6, <2>1
  <2>2. CASE len # 0
    <3>1. 1 \in 1 .. len /\ k.b[l] # l
      BY <1>1, <1>3, <1>5, <2>2
    <3>. QED  BY <1>2, <1>3, <1>4, <1>6, <2>2, <3>1
  <2>. QED  BY <2>1, <2>2
<1>10. ASSUME NEW i \in 1 .. len + 1
       PROVE  j.f[u[i]] = IF i = len + 1 THEN l ELSE u[i + 1]
  <2>1. CASE i = len + 1
    BY <1>4, <1>6, <2>1
  <2>2. CASE i = len
    <3>1. i # len + 1 /\ len # 0 /\ i \in 1 .. len
      BY <1>1, <2>2
    <3>. QED  BY <1>4, <1>5, <1>6, <2>2, <3>1
  <2>3. CASE i \in 1 .. len /\ i # len
    <3>1. i + 1 \in 1 .. len /\ i # len + 1 /\ len # 0 /\ len \in 1 .. len
      BY <1>1, <2>3
    <3>2. s[i] # k.b[l] /\ s[i] # n /\ s[i] \in Places /\ k.f[s[i]] = s[i + 1]
      BY <1>1, <1>2, <1>3, <1>5, <2>3, <3>1
    <3>. QED  BY <1>4, <1>6, <2>3, <3>1, <3>2
  <2>. QED  BY <1>7, <2>1, <2>2, <2>3
<1>11. Chain(j, l, u)
  BY <1>1, <1>4, <1>6, <1>8, <1>9, <1>10 DEF Chain
<1>12. Elems(u) = Elems(s) \union {n}
  <2>1. Elems(u) = {u[i] : i \in 1 .. len + 1} /\ Elems(s) = {s[i] : i \in 1 .. len}
    BY <1>4 DEF Elems, len
  <2>2. \A i \in 1 .. len : i \in 1 .. len + 1
    BY <1>1
  <2>3. len + 1 \in 1 .. len + 1
    BY <1>1
  <2>. QED  BY <1>4, <1>7, <2>1, <2>2, <2>3
<1>13. ASSUME NEW m \in Lists, NEW t, m # l, Chain(k, m, t), n \notin Elems(t),
              Elems(s) \cap Elems(t) = {}
       PROVE  Chain(j, m, t)
  <2>1. Elems(t) \subseteq Buffers
    BY <1>13 DEF Chain, Elems
  <2>2. k.b[l] \in Elems(s) \union {l}
    BY <1>5 DEF Elems, len
  <2>3. Elems(s) \subseteq Buffers /\ m \notin Buffers
    BY <1>1, NodesAssumption DEF Elems, len
  <2>4. \A x \in Elems(t) \union {m} : x \in Places /\ x # n /\ x # k.b[l]
    BY <1>3, <1>13, <2>1, <2>2, <2>3 DEF Places
  <2>. QED  BY <1>6, <1>13, <2>4, ChainKept
<1>. QED  BY <1>6, <1>11, <1>12, <1>13 DEF u

LEMMA HeadChain ==
  ASSUME NEW k \in LinkTables, NEW l \in Lists, NEW s, Chain(k, l, s), Len(s) > 0,
         NEW j, j = RemoveHead(k, l)
  PROVE  /\ k.f[l] = Head(s) /\ j \in LinkTables /\ Chain(j, l, Tail(s))
         /\ Elems(s) = Elems(Tail(s)) \union {Head(s)} /\ Head(s) \notin Elems(Tail(s))
         /\ Head(s) \in Buffers
         /\ \A t : \A m \in Lists : m # l /\ Chain(k, m, t) => Chain(j, m, t)
<1>. DEFINE len == Len(s)  u == Tail(s)
<1>1. /\ s \in Seq(Buffers) /\ len \in Nat /\ len > 0
      /\ \A i \in 1 .. len : s[i] \in Buffers
  BY DEF Chain
<1>2. /\ k.f[l] = s[1] /\ k.b[l] = s[len]
      /\ \A i \in 1 .. len : k.f[s[i]] = IF i = len THEN l ELSE s[i + 1]
      /\ \A i, i2 \in 1 .. len : s[i] = s[i2] => i = i2
  BY <1>1 DEF Chain, Distinct
<1>3. l \notin Buffers /\ Buffers \subseteq Places /\ l \in Places
  BY NodesAssumption DEF Places
<1>4. /\ u \in Seq(Buffers) /\ Len(u) = len - 1 /\ Head(s) = s[1]
      /\ \A i \in 1 .. len - 1 : u[i] = s[i + 1]
  BY <1>1
<1>. HIDE DEF len, u
<1>5. /\ j \in LinkTables
      /\ j.f[l] = k.f[k.f[l]] /\ \A x \in Places : x # l => j.f[x] = k.f[x]
      /\ j.b[l] = IF k.f[k.f[l]] = l THEN l ELSE k.b[l]
      /\ \A m \in Lists : m # l => j.b[m] = k.b[m]
  BY RemoveHeadLinks
<1>6. 1 \in 1 .. len /\ k.f[k.f[l]] = IF len = 1 THEN l ELSE s[2]
  BY <1>1, <1>2
<1>7. \A i \in 1 .. len - 1 : i + 1 \in 1 .. len /\ i + 1 # 1
  BY <1>1
<1>8. Distinct(u)
  <2>1. ASSUME NEW i \in 1 .. len - 1, NEW i2 \in 1 .. len - 1, u[i] = u[i2] PROVE i = i2
    <3>1. s[i + 1] = s[i2 + 1]
      BY <1>4, <2>1
    <3>2. i + 1 = i2 + 1
      BY <1>2, <1>7, <3>1
    <3>. QED  BY <1>1, <3>2
  <2>. QED  BY <1>4, <2>1 DEF Distinct
<1>9. /\ j.f[l] = IF len - 1 = 0 THEN l ELSE u[1]
      /\ j.b[l] = IF len - 1 = 0 THEN l ELSE u[len - 1]
  <2>1. CASE len = 1
    BY <1>5, <1>6, <2>1
  <2>2. CASE len # 1
    <3>1. 2 \in 1 .. len /\ 1 \in 1 .. len - 1 /\ len - 1 \in 1 .. len - 1 /\ len - 1 # 0
          /\ (len - 1) + 1 = len
      BY <1>1, <2>2
    <3>2. s[2] # l
      BY <1>1, <1>3, <3>1
    <3>. QED  BY <1>2, <1>4, <1>5, <1>6, <2>2, <3>1, <3>2
  <2>. QED  BY <2>1, <2>2
<1>10. ASSUME NEW i \in 1 .. len - 1
       PROVE  j.f[u[i]] = IF i = len - 1 THEN l ELSE u[i + 1]
  <2>1. i + 1 \in 1 .. len /\ u[i] = s[i + 1] /\ s[i + 1] # l /\ s[i + 1] \in Places
    BY <1>1, <1>3, <1>4, <1>7
  <2>2. j.f[u[i]] = IF i + 1 = len THEN l ELSE s[(i + 1) + 1]
    BY <1>2, <1>5, <2>1
  <2>3. CASE i = len - 1
    <3>1. i + 1 = len
      BY <1>1, <2>3
    <3>. QED  BY <2>2, <2>3, <3>1
  <2>4. CASE i # len - 1
    <3>1. i + 1 # len /\ i + 1 \in 1 .. len - 1
      BY <1>1, <2>4
    <3>2. u[i + 1] = s[(i + 1) + 1]
      BY <1>4, <3>1
    <3>. QED  BY <2>2, <2>4, <3>1, <3>2
  <2>. QED  BY <2>3, <2>4
<1>11. Chain(j, l, u)
  BY <1>4, <1>8, <1>9, <1>10 DEF Chain
<1>12. Elems(s) = Elems(u) \union {s[1]} /\ s[1] \notin Elems(u)
  <2>1. Elems(u) = {u[i] : i \in 1 .. len - 1} /\ Elems(s) = {s[i] : i \in 1 .. len}
    BY <1>4 DEF Elems, len
  <2>2. \A i \in 1 .. len : i # 1 => i - 1 \in 1 .. len - 1 /\ (i - 1) + 1 = i
    BY <1>1
  <2>3. \A i \in 1 .. len : i # 1 => s[i] = u[i - 1]
    BY <1>4, <2>2
  <2>. QED  BY <1>2, <1>4, <1>6, <1>7, <2>1, <2>2, <2>3
<1>13. ASSUME NEW m \in Lists, NEW t, m # l, Chain(k, m, t)
       PROVE  Chain(j, m, t)
  <2>1. \A x \in Elems(t) \union {m} : x \in Places /\ x # l
    BY <1>3, <1>13 DEF Chain, Elems, Places
  <2>. QED  BY <1>5, <1>13, <2>1, ChainKept
<1>. QED  BY <1>1, <1>2, <1>4, <1>5, <1>6, <1>11, <1>12, <1>13 DEF u

-----------------------------------------------------------------------------
(* The lists that are in use, together                                     *)

(* Each list of L holds what c says of it, and no node is on two.          *)
Sound(k, c, L) ==
  /\ k \in LinkTables /\ L \subseteq Lists
  /\ \A l \in L : Chain(k, l, c[l])
  /\ \A l, m \in L : l # m => Elems(c[l]) \cap Elems(c[m]) = {}

On(c, L) == UNION {Elems(c[l]) : l \in L}

LEMMA OnBuffers ==
  ASSUME NEW k, NEW c, NEW L, Sound(k, c, L)
  PROVE  On(c, L) \subseteq Buffers
<1>1. ASSUME NEW l \in L PROVE Elems(c[l]) \subseteq Buffers
  <2>1. c[l] \in Seq(Buffers)
    BY DEF Sound, Chain
  <2>. QED  BY <2>1 DEF Elems
<1>. QED  BY <1>1 DEF On

LEMMA SoundFewer ==
  ASSUME NEW k, NEW c, NEW L, Sound(k, c, L), NEW M \in SUBSET L
  PROVE  Sound(k, c, M)
BY DEF Sound

(* What c says after an insertion at the tail of l, and after a removal.   *)
Inserted(c, L, l, n) == [m \in L |-> IF m = l THEN Append(c[l], n) ELSE c[m]]
Removed(c, L, l) == [m \in L |-> IF m = l THEN Tail(c[l]) ELSE c[m]]

LEMMA SoundInsert ==
  ASSUME NEW k, NEW c, NEW L, Sound(k, c, L), NEW l \in L,
         NEW n \in Buffers, n \notin On(c, L),
         NEW j, j = InsertTail(k, l, n),
         NEW c2, c2 = Inserted(c, L, l, n)
  PROVE  Sound(j, c2, L) /\ On(c2, L) = On(c, L) \union {n}
<1>. DEFINE s == c[l]  u == Append(s, n)
<1>1. /\ k \in LinkTables /\ L \subseteq Lists /\ l \in Lists /\ Chain(k, l, s)
      /\ \A m \in L : Chain(k, m, c[m]) /\ n \notin Elems(c[m])
      /\ \A m \in L : m # l => Elems(s) \cap Elems(c[m]) = {}
  BY DEF Sound, On
<1>2. c2[l] = u /\ \A m \in L : m # l => c2[m] = c[m]
  BY DEF Inserted
<1>3. n \notin Elems(s)
  BY <1>1
<1>. HIDE DEF u
<1>4. /\ j \in LinkTables /\ Chain(j, l, u) /\ Elems(u) = Elems(s) \union {n}
      /\ \A t : \A m \in Lists :
                             /\ m # l /\ Chain(k, m, t) /\ n \notin Elems(t)
                             /\ Elems(s) \cap Elems(t) = {}
                             => Chain(j, m, t)
  BY <1>1, <1>3, TailChain DEF u
<1>. HIDE DEF s
<1>5. \A m \in L : Chain(j, m, c2[m])
  BY <1>1, <1>2, <1>4
<1>6. \A m \in L : m # l => Elems(u) \cap Elems(c2[m]) = {}
  BY <1>1, <1>2, <1>4
<1>7. \A m, m2 \in L : m # m2 => Elems(c2[m]) \cap Elems(c2[m2]) = {}
  BY <1>2, <1>6 DEF Sound
<1>8. Sound(j, c2, L)
  BY <1>1, <1>4, <1>5, <1>7 DEF Sound
<1>9. On(c2, L) = On(c, L) \union {n}
  BY <1>2, <1>4 DEF On, s
<1>. QED  BY <1>8, <1>9

LEMMA SoundRemove ==
  ASSUME NEW k, NEW c, NEW L, Sound(k, c, L), NEW l \in L, Len(c[l]) > 0,
         NEW j, j = RemoveHead(k, l),
         NEW c2, c2 = Removed(c, L, l)
  PROVE  /\ k.f[l] = Head(c[l]) /\ Head(c[l]) \in On(c, L) /\ Head(c[l]) \in Buffers
         /\ Sound(j, c2, L) /\ On(c2, L) = On(c, L) \ {Head(c[l])}
<1>. DEFINE s == c[l]  u == Tail(s)  n == Head(s)
<1>1. /\ k \in LinkTables /\ L \subseteq Lists /\ l \in Lists /\ Chain(k, l, s)
      /\ \A m \in L : Chain(k, m, c[m])
      /\ \A m \in L : m # l => Elems(s) \cap Elems(c[m]) = {}
  BY DEF Sound
<1>2. c2[l] = u /\ \A m \in L : m # l => c2[m] = c[m]
  BY DEF Removed
<1>. HIDE DEF u, n
<1>3. /\ k.f[l] = n /\ j \in LinkTables /\ Chain(j, l, u)
      /\ Elems(s) = Elems(u) \union {n} /\ n \notin Elems(u) /\ n \in Buffers
      /\ \A t : \A m \in Lists : m # l /\ Chain(k, m, t) => Chain(j, m, t)
  BY <1>1, HeadChain DEF u, n
<1>. HIDE DEF s
<1>4. \A m \in L : Chain(j, m, c2[m])
  BY <1>1, <1>2, <1>3
<1>5. \A m \in L : m # l => Elems(u) \cap Elems(c2[m]) = {}
  BY <1>1, <1>2, <1>3
<1>6. \A m, m2 \in L : m # m2 => Elems(c2[m]) \cap Elems(c2[m2]) = {}
  BY <1>2, <1>5 DEF Sound
<1>7. Sound(j, c2, L)
  BY <1>1, <1>3, <1>4, <1>6 DEF Sound
<1>8. On(c2, L) = On(c, L) \ {n} /\ n \in On(c, L)
  <2>1. \A m \in L : m # l => n \notin Elems(c[m])
    BY <1>1, <1>3
  <2>2. \A m \in L : Elems(c2[m]) = Elems(c[m]) \ {n}
    BY <1>2, <1>3, <2>1 DEF s
  <2>3. n \in Elems(c[l])
    BY <1>3 DEF s
  <2>4. n \in On(c, L)
    BY <2>3 DEF On
  <2>5. ASSUME NEW x PROVE x \in On(c2, L) <=> x \in On(c, L) /\ x # n
    <3>1. x \in On(c2, L) <=> \E m \in L : x \in Elems(c2[m])
      BY DEF On
    <3>2. x \in On(c, L) <=> \E m \in L : x \in Elems(c[m])
      BY DEF On
    <3>. QED  BY <2>2, <3>1, <3>2
  <2>. QED  BY <2>4, <2>5
<1>. QED  BY <1>3, <1>7, <1>8 DEF n, s

LEMMA SoundEmptied ==
  ASSUME NEW k, NEW c, NEW L, Sound(k, c, L),
         NEW ls \in SUBSET Lists, ls \cap L = {},
         NEW j, j = Emptied(k, ls),
         NEW c2, c2 = [m \in L \union ls |-> IF m \in ls THEN << >> ELSE c[m]]
  PROVE  Sound(j, c2, L \union ls) /\ On(c2, L \union ls) = On(c, L)
<1>1. /\ k \in LinkTables /\ L \subseteq Lists /\ \A m \in L : Chain(k, m, c[m])
  BY DEF Sound
<1>2. /\ j \in LinkTables
      /\ \A l \in ls : j.f[l] = l /\ j.b[l] = l
      /\ \A x \in Places \ ls : j.f[x] = k.f[x]
      /\ \A l \in Lists \ ls : j.b[l] = k.b[l]
  BY <1>1, EmptiedLinks
<1>3. (\A l \in ls : c2[l] = << >>) /\ (\A m \in L : c2[m] = c[m])
  OBVIOUS
<1>4. Elems(<< >>) = {} /\ << >> \in Seq(Buffers) /\ Len(<< >>) = 0 /\ Distinct(<< >>)
  <2>1. Len(<< >>) = 0 /\ \A i \in 1 .. 0 : FALSE
    OBVIOUS
  <2>. QED  BY <2>1 DEF Elems, Distinct
<1>5. ASSUME NEW l \in ls PROVE Chain(j, l, c2[l])
  <2>1. \A i \in 1 .. 0 : FALSE
    OBVIOUS
  <2>. QED  BY <1>2, <1>3, <1>4, <2>1 DEF Chain
<1>6. ASSUME NEW m \in L PROVE Chain(j, m, c2[m])
  <2>1. Elems(c[m]) \subseteq Buffers
    BY <1>1 DEF Chain, Elems
  <2>2. \A x \in Elems(c[m]) \union {m} : x \in Places \ ls
    BY <1>1, <2>1, NodesAssumption DEF Places
  <2>3. m \in Lists \ ls
    BY <1>1
  <2>. QED  BY <1>1, <1>2, <1>3, <2>2, <2>3, ChainKept
<1>7. \A m, m2 \in L \union ls : m # m2 => Elems(c2[m]) \cap Elems(c2[m2]) = {}
  BY <1>3, <1>4 DEF Sound
<1>8. On(c2, L \union ls) = On(c, L)
  BY <1>3, <1>4 DEF On
<1>. QED  BY <1>1, <1>2, <1>5, <1>6, <1>7, <1>8 DEF Sound

(* A frame goes from one list to another.                                  *)
LEMMA SoundMove ==
  ASSUME NEW k, NEW c, NEW L, Sound(k, c, L), NEW from \in L, NEW to \in L, from # to,
         NEW n, n = Head(c[from]), Len(c[from]) > 0,
         NEW j, j = InsertTail(RemoveHead(k, from), to, n)
  PROVE  \E c2 : /\ Sound(j, c2, L) /\ On(c2, L) = On(c, L)
                 /\ c2[from] = Tail(c[from])
                 /\ \A m \in L \ {from, to} : c2[m] = c[m]
<1>. DEFINE k1 == RemoveHead(k, from)
            c1 == Removed(c, L, from)  c2 == Inserted(c1, L, to, n)
<1>1. n \in On(c, L) /\ n \in Buffers /\ Sound(k1, c1, L) /\ On(c1, L) = On(c, L) \ {n}
  BY SoundRemove
<1>2. c1[from] = Tail(c[from]) /\ \A m \in L \ {from, to} : c1[m] = c[m]
  BY DEF Removed
<1>3. j = InsertTail(k1, to, n)
  OBVIOUS
<1>. HIDE DEF k1, c1
<1>5. c2[from] = c1[from] /\ \A m \in L \ {from, to} : c2[m] = c1[m]
  BY DEF Inserted
<1>4. Sound(j, c2, L) /\ On(c2, L) = On(c1, L) \union {n}
  BY <1>1, <1>3, SoundInsert
<1>. HIDE DEF c2
<1>6. On(c2, L) = On(c, L)
  BY <1>1, <1>4
<1>. QED  BY <1>2, <1>4, <1>5, <1>6

-----------------------------------------------------------------------------
(* Seeding an event                                                        *)

LEMMA UpTo ==
  ASSUME NEW T, NEW n \in Nat, 0 \in T, \A i \in 1 .. n : i - 1 \in T => i \in T
  PROVE  \A i \in 0 .. n : i \in T
<1>. DEFINE U == {i \in Nat : i <= n => i \in T}
<1>1. 0 \in U
  OBVIOUS
<1>2. ASSUME NEW i \in Nat, i \in U PROVE i + 1 \in U
  <2>. SUFFICES ASSUME i + 1 <= n PROVE i + 1 \in T
    OBVIOUS
  <2>1. i + 1 \in 1 .. n /\ i <= n /\ (i + 1) - 1 = i
    OBVIOUS
  <2>. QED  BY <1>2, <2>1
<1>. HIDE DEF U
<1>3. \A i \in Nat : i \in U
  BY <1>1, <1>2, Induction
<1>. QED  BY <1>3 DEF U

LEMMA MoveType ==
  ASSUME NEW k \in LinkTables, NEW from \in Lists, NEW to \in Lists, NEW n \in Buffers
  PROVE  InsertTail(RemoveHead(k, from), to, n) \in LinkTables
<1>. DEFINE j == RemoveHead(k, from)  F == j.f  B == j.b
<1>1. j \in LinkTables
  BY RemoveHeadLinks
<1>. HIDE DEF j
<1>2. F \in [Places -> Places] /\ B \in [Lists -> Places] /\ n \in Places /\ to \in Places
  BY <1>1 DEF LinkTables, Places
<1>3. InsertTail(j, to, n) = [f |-> [F EXCEPT ![n] = to, ![B[to]] = n], b |-> [B EXCEPT ![to] = n]]
  BY DEF InsertTail
<1>. HIDE DEF F, B
<1>4. /\ [F EXCEPT ![n] = to, ![B[to]] = n] \in [Places -> Places]
      /\ [B EXCEPT ![to] = n] \in [Lists -> Places]
  BY <1>2
<1>5. InsertTail(j, to, n) \in LinkTables
  BY <1>3, <1>4 DEF LinkTables
<1>. QED  BY <1>5 DEF j

Moves(h, k, from, to, frames) ==
  /\ h[0] = k
  /\ \A i \in 1 .. Len(frames) : h[i] = InsertTail(RemoveHead(h[i - 1], from), to, frames[i])

LEMMA MovedMoves ==
  ASSUME NEW k \in LinkTables, NEW from \in Lists, NEW to \in Lists
  PROVE  \E h : /\ Moves(h, k, from, to, Scan(k, from))
                /\ Moved(k, from, to) = h[Len(Scan(k, from))]
<1>. DEFINE frames == Scan(k, from)  n == Len(frames)
            step(i, j) == InsertTail(RemoveHead(j, from), to, frames[i])
            R(h) == [i \in 0 .. n |-> IF i = 0 THEN k ELSE step(i, h[i - 1])]
            f == [p \in Nat \X LinkTables |-> IF p[1] \in 1 .. n THEN step(p[1], p[2]) ELSE p[2]]
            h == CHOOSE h : h = R(h)
<1>1. n \in Nat /\ \A i \in 1 .. n : frames[i] \in Buffers
  BY FromMeets DEF Scan, Meets
<1>2. Moved(k, from, to) = h[n]
  BY Zenon DEF Moved
<1>3. \A i \in 1 .. n, j \in LinkTables : step(i, j) \in LinkTables
  BY <1>1, MoveType
<1>. HIDE DEF frames, n
<1>4. \A i \in 1 .. n, j \in LinkTables : f[<<i, j>>] = step(i, j)
  <2>1. 1 .. n \subseteq Nat
    BY <1>1
  <2>. HIDE DEF step
  <2>. QED  BY <2>1
<1>5. Maps(f, LinkTables)
  <2>. HIDE DEF step
  <2>. QED  BY <1>3 DEF Maps
<1>. HIDE DEF f, step
<1>6. PICK g : Follows(g, f, k, n) /\ \A i \in 0 .. n : g[i] \in LinkTables
  BY <1>1, <1>5, Follow
<1>7. g = R(g)
  <2>1. g = [i \in 0 .. n |-> g[i]] /\ g[0] = k
    BY <1>6 DEF Follows
  <2>2. ASSUME NEW i \in 0 .. n, i # 0 PROVE g[i] = step(i, g[i - 1])
    <3>1. i \in 1 .. n /\ i - 1 \in 0 .. n
      BY <1>1, <2>2
    <3>2. g[i] = f[<<i, g[i - 1]>>] /\ g[i - 1] \in LinkTables
      BY <1>6, <3>1 DEF Follows
    <3>. QED  BY <1>4, <3>1, <3>2
  <2>3. \A i \in 0 .. n : g[i] = IF i = 0 THEN k ELSE step(i, g[i - 1])
    BY <2>1, <2>2
  <2>. QED  BY <2>1, <2>3
<1>8. h = R(h)
  <2>. HIDE DEF R
  <2>. QED  BY <1>7, Zenon
<1>. HIDE DEF h
<1>9. h[0] = k /\ \A i \in 1 .. n : h[i] = step(i, h[i - 1])
  <2>1. 0 \in 0 .. n /\ \A i \in 1 .. n : i \in 0 .. n /\ i # 0
    BY <1>1
  <2>. QED  BY <1>8, <2>1
<1>10. Moves(h, k, from, to, frames)
  BY <1>9 DEF Moves, step, n
<1>. QED  BY <1>2, <1>10 DEF n, frames

(* seedAndDrain moves a latency list: it is drained, nothing is lost, and  *)
(* other lists are left alone.                                             *)
Seeds(j, c2, c, L, from, to) ==
  /\ Sound(j, c2, L) /\ On(c2, L) = On(c, L)
  /\ \A m \in L \ {from, to} : c2[m] = c[m]

LEMMA SoundMoved ==
  ASSUME NEW k, NEW c, NEW L, Sound(k, c, L), NEW from \in L, NEW to \in L, from # to
  PROVE  \E c2 : Seeds(Moved(k, from, to), c2, c, L, from, to)
<1>. DEFINE s == c[from]  n == Len(s)
<1>1. k \in LinkTables /\ L \subseteq Lists /\ Chain(k, from, s)
  BY DEF Sound
<1>2. Scan(k, from) = s
  BY <1>1, ScanIsChain
<1>3. s \in Seq(Buffers) /\ n \in Nat
  BY <1>1 DEF Chain
<1>4. PICK h : /\ h[0] = k /\ Moved(k, from, to) = h[n]
               /\ \A i \in 1 .. n : h[i] = InsertTail(RemoveHead(h[i - 1], from), to, s[i])
  <2>1. PICK h : /\ Moves(h, k, from, to, Scan(k, from))
                 /\ Moved(k, from, to) = h[Len(Scan(k, from))]
    BY <1>1, MovedMoves
  <2>. QED  BY <1>2, <2>1 DEF Moves
<1>. DEFINE Rest(t, i) == /\ t \in Seq(Buffers) /\ Len(t) = n - i
                          /\ \A q \in 1 .. n - i : t[q] = s[i + q]
            T == {i \in 0 .. n : \E c2 : Seeds(h[i], c2, c, L, from, to) /\ Rest(c2[from], i)}
<1>. HIDE DEF s, n
<1>5. 0 \in T
  <2>1. Rest(s, 0)
    BY <1>3 DEF n
  <2>2. Seeds(h[0], c, c, L, from, to)
    BY <1>4 DEF Seeds
  <2>. QED  BY <1>3, <2>1, <2>2 DEF s
<1>6. ASSUME NEW i \in 1 .. n, i - 1 \in T PROVE i \in T
  <2>1. PICK c1 : Seeds(h[i - 1], c1, c, L, from, to) /\ Rest(c1[from], i - 1)
    BY <1>6
  <2>. DEFINE t == c1[from]
  <2>2. t \in Seq(Buffers) /\ Len(t) = n - (i - 1) /\ \A q \in 1 .. n - (i - 1) : t[q] = s[(i - 1) + q]
    BY <2>1
  <2>3. Len(t) > 0 /\ 1 \in 1 .. n - (i - 1)
    BY <1>3, <2>2
  <2>4. Head(t) = s[i]
    <3>1. (i - 1) + 1 = i /\ Head(t) = t[1]
      BY <2>2, <2>3
    <3>. QED  BY <2>2, <2>3, <3>1
  <2>. HIDE DEF t
  <2>5. Sound(h[i - 1], c1, L) /\ On(c1, L) = On(c, L) /\ \A m \in L \ {from, to} : c1[m] = c[m]
    BY <2>1 DEF Seeds
  <2>6. h[i] = InsertTail(RemoveHead(h[i - 1], from), to, s[i])
    BY <1>4
  <2>7. PICK c2 : /\ Sound(h[i], c2, L) /\ On(c2, L) = On(c1, L)
                  /\ c2[from] = Tail(c1[from])
                  /\ \A m \in L \ {from, to} : c2[m] = c1[m]
    BY <2>3, <2>4, <2>5, <2>6, SoundMove DEF t
  <2>8. Seeds(h[i], c2, c, L, from, to)
    BY <2>5, <2>7 DEF Seeds
  <2>9. Rest(Tail(t), i)
    <3>. DEFINE r == Tail(t)
    <3>1. r \in Seq(Buffers) /\ Len(r) = Len(t) - 1 /\ \A q \in 1 .. Len(t) - 1 : r[q] = t[q + 1]
      BY <2>2, <2>3
    <3>. HIDE DEF r
    <3>2. Len(t) - 1 = n - i
      BY <1>3, <2>2
    <3>3. ASSUME NEW q \in 1 .. n - i PROVE r[q] = s[i + q]
      <4>1. q + 1 \in 1 .. n - (i - 1) /\ (i - 1) + (q + 1) = i + q
        BY <1>3
      <4>. QED  BY <2>2, <3>1, <3>2, <4>1
    <3>4. Rest(r, i)
      BY <3>1, <3>2, <3>3
    <3>. QED  BY <3>4 DEF r
  <2>10. i \in 0 .. n /\ c2[from] = Tail(t)
    BY <1>3, <2>7 DEF t
  <2>. HIDE DEF Rest
  <2>. QED  BY <2>8, <2>9, <2>10
<1>. HIDE DEF T
<1>7. n \in T
  <2>1. n \in 0 .. n
    BY <1>3
  <2>. QED  BY <1>3, <1>5, <1>6, <2>1, UpTo
<1>. QED  BY <1>4, <1>7 DEF T

Touched(e) == {Latency(d) : d \in Dests} \union {ListOf(e, d) : d \in Dests}

LEMMA ListNames ==
  ASSUME NEW e \in Events, NEW d \in Dests
  PROVE  /\ ListOf(e, d) \in Lists /\ Latency(d) \in Lists
         /\ \A e2 \in Events, d2 \in Dests : ListOf(e2, d2) # Latency(d)
         /\ \A e2, d2 : ListOf(e2, d2) = ListOf(e, d) => e2 = e /\ d2 = d
BY TxAssumption DEF ListOf, Latency, Lists

LEMMA SoundSeeded ==
  ASSUME NEW k, NEW c, NEW L, Sound(k, c, L), NEW e \in Events, Touched(e) \subseteq L,
         NEW from \in SUBSET Dests
  PROVE  \E c2 : /\ Sound(Seeded(k, e, from), c2, L) /\ On(c2, L) = On(c, L)
                 /\ \A m \in L \ Touched(e) : c2[m] = c[m]
<1>. DEFINE Keeps(j, c2) == /\ Sound(j, c2, L) /\ On(c2, L) = On(c, L)
                            /\ \A m \in L \ Touched(e) : c2[m] = c[m]
            S == {j \in LinkTables : \E c2 : Keeps(j, c2)}
            step(d, j) == IF d \in from THEN Moved(j, Latency(d), ListOf(e, d)) ELSE j
            R(h) == [d \in 0 .. NDests |-> IF d = 0 THEN k ELSE step(d, h[d - 1])]
            f == [p \in Nat \X S |-> step(p[1], p[2])]
            h == CHOOSE h : h = R(h)
<1>1. NDests \in Nat /\ Dests = 1 .. NDests
  BY TxAssumption DEF Dests
<1>2. Seeded(k, e, from) = h[NDests]
  BY Zenon DEF Seeded
<1>3. ASSUME NEW d, NEW j \in S PROVE step(d, j) \in S
  <2>1. CASE d \notin from
    <3>1. step(d, j) = j
      BY <2>1
    <3>. HIDE DEF step, S
    <3>. QED  BY <1>3, <3>1
  <2>2. CASE d \in from
    <3>. DEFINE a == Latency(d)  b == ListOf(e, d)
    <3>1. a \in L /\ b \in L /\ a # b /\ a \in Touched(e) /\ b \in Touched(e)
      BY <2>2, ListNames DEF Touched
    <3>2. PICK c1 : Keeps(j, c1)
      BY <1>3
    <3>3. step(d, j) = Moved(j, a, b)
      BY <2>2
    <3>. HIDE DEF a, b, step
    <3>4. PICK c2 : Seeds(Moved(j, a, b), c2, c1, L, a, b)
      BY <3>1, <3>2, SoundMoved
    <3>5. Keeps(Moved(j, a, b), c2)
      BY <3>1, <3>2, <3>4 DEF Seeds
    <3>6. Moved(j, a, b) \in LinkTables
      BY <3>5 DEF Sound
    <3>. QED  BY <3>3, <3>5, <3>6
  <2>. QED  BY <2>1, <2>2
<1>4. k \in S
  <2>1. Keeps(k, c) /\ k \in LinkTables
    BY DEF Sound
  <2>. QED  BY <2>1
<1>. HIDE DEF S, step
<1>5. Maps(f, S)
  BY <1>3 DEF Maps
<1>6. \A d \in Nat, j \in S : f[<<d, j>>] = step(d, j)
  OBVIOUS
<1>. HIDE DEF f
<1>7. PICK g : Follows(g, f, k, NDests) /\ \A d \in 0 .. NDests : g[d] \in S
  BY <1>1, <1>4, <1>5, Follow
<1>8. g = R(g)
  <2>1. g = [d \in 0 .. NDests |-> g[d]] /\ g[0] = k
    BY <1>7 DEF Follows
  <2>2. ASSUME NEW d \in 0 .. NDests, d # 0 PROVE g[d] = step(d, g[d - 1])
    <3>1. d \in 1 .. NDests /\ d - 1 \in 0 .. NDests /\ d \in Nat
      BY <1>1, <2>2
    <3>2. g[d] = f[<<d, g[d - 1]>>] /\ g[d - 1] \in S
      BY <1>7, <3>1 DEF Follows
    <3>. QED  BY <1>6, <3>1, <3>2
  <2>3. \A d \in 0 .. NDests : g[d] = IF d = 0 THEN k ELSE step(d, g[d - 1])
    BY <2>1, <2>2
  <2>. QED  BY <2>1, <2>3
<1>9. h = R(h)
  <2>. HIDE DEF R
  <2>. QED  BY <1>8, Zenon
<1>. HIDE DEF h
<1>10. h[0] = k /\ \A d \in 1 .. NDests : h[d] = step(d, h[d - 1])
  <2>1. 0 \in 0 .. NDests /\ \A d \in 1 .. NDests : d \in 0 .. NDests /\ d # 0
    BY <1>1
  <2>. QED  BY <1>9, <2>1
<1>11. h[NDests] \in S
  <2>1. h[0] \in S
    BY <1>4, <1>10
  <2>2. \A d \in 1 .. NDests : h[d - 1] \in S => h[d] \in S
    BY <1>3, <1>10
  <2>3. \A d \in 0 .. NDests : h[d] \in S
    BY <1>1, <2>1, <2>2, Climb
  <2>4. NDests \in 0 .. NDests
    BY <1>1
  <2>. QED  BY <2>3, <2>4
<1>. QED  BY <1>2, <1>11 DEF S

-----------------------------------------------------------------------------
(* What a message is made of                                               *)

Contents(m) == {m.iov[i].base : i \in 1 .. Len(m.iov)}

Single(m) == \A i, j \in 1 .. Len(m.iov) : m.iov[i].base = m.iov[j].base => i = j

(* Each piece is as long as what was written to its buffer.                *)
Filled(m) ==
  /\ \A i \in 1 .. Len(m.written) : m.written[i] \in Contents(m)
  /\ \A i \in 1 .. Len(m.iov) : m.iov[i].len = 1 + Times(m.iov[i].base, m.written)

AtLast(m) == m.iov[Len(m.iov)].base

LEMMA TimesNone ==
  ASSUME NEW S, NEW s \in Seq(S), NEW x, \A i \in 1 .. Len(s) : s[i] # x
  PROVE  Times(x, s) = 0
<1>1. {i \in DOMAIN s : s[i] = x} = {}
  OBVIOUS
<1>. QED  BY <1>1, FS_EmptySet DEF Times

(* A stream record with its frames, none of which the message has yet.     *)
LEMMA RecordGathers ==
  ASSUME NEW m, Assembled(m), Single(m),
         NEW frames \in Seq(Buffers), frames # << >>, Distinct(frames),
         Elems(frames) \cap Contents(m) = {},
         NEW r, Assembled(r), RecordAdded(r, m, frames)
  PROVE  /\ Single(r) /\ Contents(r) = Contents(m) \union Elems(frames)
         /\ r.next = AtLast(r)
         /\ Filled(m) /\ m.stream = AtLast(m) => Filled(r)
<1>. DEFINE n == Len(m.iov)  k == Len(frames)
<1>1. n \in Nat /\ n > 0 /\ m.written \in Seq(Addresses) /\ m.stream \in Addresses
  BY DEF Assembled, Messages
<1>2. k \in Nat /\ k > 0 /\ \A i, j \in 1 .. k : frames[i] = frames[j] => i = j
  BY DEF Distinct
<1>3. /\ Len(r.iov) = n + k
      /\ \A i \in 1 .. n : /\ r.iov[i].base = m.iov[i].base
                           /\ r.iov[i].len = m.iov[i].len + One(i = n)
      /\ \A i \in 1 .. k : r.iov[n + i].base = frames[i] /\ r.iov[n + i].len = 1
      /\ r.written = Append(m.written, m.stream) /\ r.next = frames[k]
  BY DEF RecordAdded
<1>4. Elems(frames) = {frames[i] : i \in 1 .. k} /\ Contents(m) = {m.iov[i].base : i \in 1 .. n}
  BY DEF Elems, Contents
<1>5. \A i, j \in 1 .. n : m.iov[i].base = m.iov[j].base => i = j
  BY DEF Single
<1>. HIDE DEF n, k
<1>6. ASSUME NEW i \in 1 .. n + k, ~(i <= n)
      PROVE  i - n \in 1 .. k /\ r.iov[i].base = frames[i - n] /\ r.iov[i].len = 1
  <2>1. i - n \in 1 .. k /\ n + (i - n) = i
    BY <1>1, <1>2, <1>6
  <2>. QED  BY <1>3, <2>1
<1>7. ASSUME NEW i \in 1 .. n + k, i <= n
      PROVE  i \in 1 .. n /\ r.iov[i].base = m.iov[i].base /\ r.iov[i].base \in Contents(m)
  <2>1. i \in 1 .. n
    BY <1>1, <1>2, <1>7
  <2>. QED  BY <1>3, <1>4, <2>1
<1>8. Single(r)
  <2>. SUFFICES ASSUME NEW i \in 1 .. n + k, NEW j \in 1 .. n + k, r.iov[i].base = r.iov[j].base
                PROVE  i = j
    BY <1>3 DEF Single
  <2>1. CASE i <= n /\ j <= n
    BY <1>5, <1>7, <2>1
  <2>2. CASE ~(i <= n) /\ ~(j <= n)
    <3>1. i - n = j - n
      BY <1>2, <1>6, <2>2
    <3>. QED  BY <1>1, <1>2, <3>1
  <2>3. ASSUME NEW a \in 1 .. n + k, NEW z \in 1 .. n + k, a <= n, ~(z <= n)
        PROVE  r.iov[a].base # r.iov[z].base
    <3>1. r.iov[a].base \in Contents(m)
      BY <1>7, <2>3
    <3>2. r.iov[z].base \in Elems(frames)
      BY <1>4, <1>6, <2>3
    <3>. QED  BY <3>1, <3>2
  <2>. QED  BY <2>1, <2>2, <2>3
<1>9. Contents(r) = Contents(m) \union Elems(frames)
  <2>1. Contents(r) = {r.iov[i].base : i \in 1 .. n + k}
    BY <1>3 DEF Contents
  <2>2. \A i \in 1 .. n : i \in 1 .. n + k
    BY <1>1, <1>2
  <2>3. \A i \in 1 .. k : n + i \in 1 .. n + k
    BY <1>1, <1>2
  <2>4. ASSUME NEW x \in Contents(r) PROVE x \in Contents(m) \union Elems(frames)
    <3>1. PICK i \in 1 .. n + k : x = r.iov[i].base
      BY <2>1
    <3>. QED  BY <1>4, <1>6, <1>7, <3>1
  <2>5. ASSUME NEW x \in Contents(m) PROVE x \in Contents(r)
    <3>1. PICK i \in 1 .. n : x = m.iov[i].base
      BY <1>4
    <3>. QED  BY <1>3, <2>1, <2>2, <3>1
  <2>6. ASSUME NEW x \in Elems(frames) PROVE x \in Contents(r)
    <3>1. PICK i \in 1 .. k : x = frames[i]
      BY <1>4
    <3>. QED  BY <1>3, <2>1, <2>3, <3>1
  <2>. QED  BY <2>4, <2>5, <2>6
<1>10. r.next = AtLast(r)
  <2>1. k \in 1 .. k
    BY <1>2
  <2>. QED  BY <1>3, <2>1 DEF AtLast
<1>11. ASSUME Filled(m), m.stream = AtLast(m) PROVE Filled(r)
  <2>1. /\ \A i \in 1 .. Len(m.written) : m.written[i] \in Contents(m)
        /\ \A i \in 1 .. n : m.iov[i].len = 1 + Times(m.iov[i].base, m.written)
        /\ n \in 1 .. n /\ m.stream = m.iov[n].base /\ m.stream \in Contents(m)
    BY <1>1, <1>4, <1>11 DEF Filled, AtLast, n
  <2>. DEFINE w == m.written  v == Append(w, m.stream)  p == Len(w)
  <2>2. /\ w \in Seq(Addresses) /\ v \in Seq(Addresses) /\ Len(v) = p + 1 /\ p \in Nat
        /\ v[p + 1] = m.stream /\ \A i \in 1 .. p : v[i] = w[i]
    BY <1>1
  <2>3. \A x : Times(x, v) = Times(x, w) + One(m.stream = x)
    BY <1>1, TimesAppend
  <2>4. r.written = v
    BY <1>3
  <2>. HIDE DEF w, v, p
  <2>5. \A i \in 1 .. p + 1 : v[i] \in Contents(m)
    <3>1. \A i \in 1 .. p + 1 : i \in 1 .. p \/ i = p + 1
      BY <2>2
    <3>. QED  BY <2>1, <2>2, <3>1 DEF w, p
  <2>6. ASSUME NEW i \in 1 .. n + k
        PROVE  r.iov[i].len = 1 + Times(r.iov[i].base, v)
    <3>1. CASE i <= n
      <4>1. i \in 1 .. n /\ r.iov[i].base = m.iov[i].base
        BY <1>7, <3>1
      <4>2. (m.stream = m.iov[i].base) <=> (i = n)
        BY <1>5, <2>1, <4>1
      <4>3. Times(m.iov[i].base, w) \in Nat
        BY <2>2, TimesFinite
      <4>4. r.iov[i].len = 1 + Times(m.iov[i].base, w) + One(i = n)
        BY <1>3, <2>1, <4>1 DEF w
      <4>5. One(i = n) = One(m.stream = m.iov[i].base) /\ One(i = n) \in Nat
        BY <4>2 DEF One
      <4>6. Times(m.iov[i].base, v) = Times(m.iov[i].base, w) + One(m.stream = m.iov[i].base)
        BY <2>3
      <4>. QED  BY <4>1, <4>3, <4>4, <4>5, <4>6
    <3>2. CASE ~(i <= n)
      <4>1. r.iov[i].base \in Elems(frames) /\ r.iov[i].len = 1
        BY <1>4, <1>6, <3>2
      <4>2. Times(r.iov[i].base, v) = 0
        BY <2>2, <2>5, <4>1, TimesNone
      <4>. QED  BY <4>1, <4>2
    <3>. QED  BY <3>1, <3>2
  <2>. QED  BY <1>3, <1>9, <2>2, <2>4, <2>5, <2>6 DEF Filled
<1>. QED  BY <1>8, <1>9, <1>10, <1>11

(* A turn for a contributor, with frames or without.                       *)
LEMMA TurnGathers ==
  ASSUME NEW m, Assembled(m), Single(m),
         NEW frames \in Seq(Buffers), Distinct(frames), Elems(frames) \cap Contents(m) = {},
         NEW r, r = AddContributor(m, frames)
  PROVE  /\ Single(r) /\ Contents(r) = Contents(m) \union Elems(frames)
         /\ (/\ Filled(m) /\ m.stream = AtLast(m)
             /\ frames # << >> \/ m.next = m.stream)
            => Filled(r) /\ r.stream = AtLast(r) /\ r.next = r.stream
<1>. DEFINE a == IF frames = << >> THEN m ELSE AddTpcDataRecord(m, frames)
<1>1. r = [a EXCEPT !.stream = a.next]
  BY DEF AddContributor
<1>2. /\ Assembled(a) /\ Single(a) /\ Contents(a) = Contents(m) \union Elems(frames)
      /\ (/\ Filled(m) /\ m.stream = AtLast(m)
          /\ frames # << >> \/ m.next = m.stream)
         => Filled(a) /\ a.next = AtLast(a)
  <2>1. CASE frames = << >>
    <3>1. a = m /\ Len(frames) = 0
      BY <2>1
    <3>. HIDE DEF a
    <3>2. Elems(frames) = {}
      <4>1. \A i \in 1 .. 0 : FALSE
        OBVIOUS
      <4>. QED  BY <3>1, <4>1 DEF Elems
    <3>. QED  BY <2>1, <3>1, <3>2
  <2>2. CASE frames # << >>
    <3>1. a = AddTpcDataRecord(m, frames)
      BY <2>2
    <3>. HIDE DEF a
    <3>2. Assembled(a) /\ RecordAdded(a, m, frames)
      BY <2>2, <3>1, RecordIsAdded
    <3>. QED  BY <2>2, <3>2, RecordGathers
  <2>. QED  BY <2>1, <2>2
<1>. HIDE DEF a
<1>3. /\ r.iov = a.iov /\ r.written = a.written /\ r.next = a.next /\ r.stream = a.next
  BY <1>1, <1>2 DEF Assembled, Messages
<1>4. Contents(r) = Contents(a) /\ AtLast(r) = AtLast(a)
  BY <1>3 DEF Contents, AtLast
<1>5. Single(r) /\ (Filled(a) => Filled(r))
  BY <1>2, <1>3, <1>4 DEF Single, Filled
<1>. QED  BY <1>2, <1>3, <1>4, <1>5

(* The lists of the contributors up to the d-th.                           *)
ListsTo(e, d) == {ListOf(e, i) : i \in 1 .. d}

(* The message of an event has all the frames of its lists, each once.     *)
LEMMA ContributorsGather ==
  ASSUME NEW c, NEW L, Sound(links, c, L), NEW e \in Events, ListsTo(e, NDests) \subseteq L,
         NEW m, m = AddContributors(e)
  PROVE  /\ Single(m) /\ Contents(m) = {Header} \union On(c, ListsTo(e, NDests))
         /\ c[ListOf(e, 1)] # << >> => Filled(m) /\ m.next = AtLast(m)
<1>. DEFINE l(d) == ListOf(e, d)
            Fits(q, d) == /\ Filled(q) /\ q.stream = AtLast(q)
                          /\ d = 0 \/ q.next = q.stream
            Good(q, d) == /\ Single(q) /\ Contents(q) = {Header} \union On(c, ListsTo(e, d))
                          /\ c[l(1)] # << >> => Fits(q, d)
<1>1. NDests \in Nat /\ NDests > 0 /\ Dests = 1 .. NDests
  BY TxAssumption DEF Dests
<1>2. PICK g : Turns(g, e) /\ m = g[NDests] /\ \A d \in 0 .. NDests : Assembled(g[d])
  BY ContributorsTurns
<1>3. \A d \in 1 .. NDests : l(d) \in L /\ l(d) \in Lists
  BY <1>1, ListNames DEF ListsTo
<1>4. \A d \in 1 .. NDests :
        /\ c[l(d)] \in Seq(Buffers) /\ Distinct(c[l(d)]) /\ Scan(links, l(d)) = c[l(d)]
        /\ Elems(c[l(d)]) \subseteq Buffers
  <2>. SUFFICES ASSUME NEW d \in 1 .. NDests
                PROVE  /\ c[l(d)] \in Seq(Buffers) /\ Distinct(c[l(d)])
                       /\ Scan(links, l(d)) = c[l(d)] /\ Elems(c[l(d)]) \subseteq Buffers
    OBVIOUS
  <2>1. Chain(links, l(d), c[l(d)])
    BY <1>3 DEF Sound
  <2>2. Scan(links, l(d)) = c[l(d)]
    BY <1>3, <2>1, ScanIsChain
  <2>. QED  BY <2>1, <2>2 DEF Chain, Elems
<1>5. \A d, i \in 1 .. NDests : d # i => l(d) # l(i) /\ Elems(c[l(d)]) \cap Elems(c[l(i)]) = {}
  <2>1. \A d, i \in 1 .. NDests : d # i => l(d) # l(i)
    BY DEF ListOf
  <2>. QED  BY <1>3, <2>1 DEF Sound
<1>6. g[0] = HeaderOrigin /\ \A d \in 1 .. NDests : g[d] = AddContributor(g[d - 1], c[l(d)])
  BY <1>1, <1>2, <1>4 DEF Turns
<1>. HIDE DEF l
<1>7. \A d, x : x \in On(c, ListsTo(e, d)) <=> \E i \in 1 .. d : x \in Elems(c[l(i)])
  BY DEF On, ListsTo, l
<1>8. Good(g[0], 0)
  <2>. DEFINE h == HeaderOrigin
  <2>1. /\ Len(h.iov) = 1 /\ h.iov[1].base = Header /\ h.iov[1].len = 1
        /\ h.stream = Header /\ h.written = << >>
    BY DEF HeaderOrigin, Iov
  <2>. HIDE DEF h
  <2>2. \A i \in 1 .. 1 : i = 1
    OBVIOUS
  <2>3. 1 \in 1 .. 1 /\ \A i \in 1 .. 0 : FALSE
    OBVIOUS
  <2>4. Contents(h) = {Header} /\ Single(h) /\ AtLast(h) = Header
    BY <2>1, <2>2, <2>3 DEF Contents, Single, AtLast
  <2>5. On(c, ListsTo(e, 0)) = {}
    BY <1>7, <2>3
  <2>6. Times(Header, << >>) = 0
    <3>1. << >> \in Seq(Addresses) /\ Len(<< >>) = 0
      OBVIOUS
    <3>. QED  BY <2>3, <3>1, TimesNone
  <2>7. Filled(h)
    <3>1. Len(h.written) = 0
      BY <2>1
    <3>. QED  BY <2>1, <2>2, <2>3, <2>6, <3>1 DEF Filled
  <2>. QED  BY <1>6, <2>1, <2>4, <2>5, <2>7 DEF h
<1>9. ASSUME NEW d \in 1 .. NDests, Good(g[d - 1], d - 1) PROVE Good(g[d], d)
  <2>. DEFINE q == g[d - 1]  r == g[d]  s == c[l(d)]
  <2>1. Assembled(q) /\ r = AddContributor(q, s)
    <3>1. d - 1 \in 0 .. NDests
      BY <1>1
    <3>. QED  BY <1>2, <1>6, <3>1
  <2>2. s \in Seq(Buffers) /\ Distinct(s) /\ Elems(s) \subseteq Buffers
    BY <1>4
  <2>3. Single(q) /\ Contents(q) = {Header} \union On(c, ListsTo(e, d - 1))
    BY <1>9
  <2>4. Elems(s) \cap Contents(q) = {}
    <3>1. ASSUME NEW x \in Elems(s) PROVE x \notin On(c, ListsTo(e, d - 1))
      <4>1. \A i \in 1 .. d - 1 : i \in 1 .. NDests /\ i # d
        BY <1>1
      <4>. QED  BY <1>5, <1>7, <3>1, <4>1
    <3>2. Header \notin Elems(s)
      BY <2>2, TxAssumption
    <3>. QED  BY <2>3, <3>1, <3>2
  <2>5. On(c, ListsTo(e, d)) = On(c, ListsTo(e, d - 1)) \union Elems(s)
    <3>1. \A i : i \in 1 .. d <=> i \in 1 .. d - 1 \/ i = d
      BY <1>1
    <3>. QED  BY <1>7, <3>1
  <2>6. /\ Single(r) /\ Contents(r) = Contents(q) \union Elems(s)
        /\ (/\ Filled(q) /\ q.stream = AtLast(q)
            /\ s # << >> \/ q.next = q.stream)
           => Filled(r) /\ r.stream = AtLast(r) /\ r.next = r.stream
    <3>. HIDE DEF q, r, s
    <3>. QED  BY <2>1, <2>2, <2>3, <2>4, TurnGathers
  <2>7. c[l(1)] # << >> => Fits(r, d)
    <3>1. d - 1 = 0 => d = 1
      BY <1>1
    <3>. QED  BY <1>9, <2>6, <3>1
  <2>. QED  BY <2>3, <2>5, <2>6, <2>7
<1>. HIDE DEF Good
<1>10. \A d \in 0 .. NDests : Good(g[d], d)
  <2>. DEFINE T == {d \in 0 .. NDests : Good(g[d], d)}
  <2>1. 0 \in T
    BY <1>1, <1>8
  <2>2. \A d \in 1 .. NDests : d - 1 \in T => d \in T
    BY <1>9
  <2>3. \A d \in 0 .. NDests : d \in T
    <3>. HIDE DEF T
    <3>. QED  BY <1>1, <2>1, <2>2, UpTo
  <2>. QED  BY <2>3
<1>11. Good(m, NDests)
  <2>1. NDests \in 0 .. NDests
    BY <1>1
  <2>. QED  BY <1>2, <1>10, <2>1
<1>. QED  BY <1>1, <1>11 DEF Good, l

(* The trailer is counted to the last piece, in whose buffer it is.        *)
LEMMA MessageGathers ==
  ASSUME NEW c, NEW L, Sound(links, c, L), NEW e \in Events, ListsTo(e, NDests) \subseteq L,
         NEW r, r = Message(e)
  PROVE  /\ Assembled(r) /\ Single(r)
         /\ Contents(r) = {Header} \union On(c, ListsTo(e, NDests))
         /\ c[ListOf(e, 1)] # << >> => Filled(r) /\ r.written[Len(r.written)] = AtLast(r)
<1>. DEFINE m == AddContributors(e)  n == Len(m.iov)  v == Increase(m.iov, n)
            w == m.written  x == Append(w, m.next)  p == Len(w)
<1>1. Assembled(m)
  <2>1. NDests \in 0 .. NDests
    BY TxAssumption
  <2>. QED  BY <2>1, ContributorsTurns
<1>2. r = [m EXCEPT !.written = x, !.iov = v, !.size = m.size + 1]
  BY DEF Message
<1>3. /\ Single(m) /\ Contents(m) = {Header} \union On(c, ListsTo(e, NDests))
      /\ c[ListOf(e, 1)] # << >> => Filled(m) /\ m.next = AtLast(m)
  BY ContributorsGather
<1>. HIDE DEF m
<1>4. /\ m.iov \in Seq(Piece) /\ n \in Nat /\ n > 0 /\ n \in 1 .. n
      /\ w \in Seq(Addresses) /\ m.next \in Addresses
  BY <1>1 DEF Assembled, Messages
<1>5. /\ Len(v) = n
      /\ \A i \in 1 .. n : v[i].base = m.iov[i].base /\ v[i].len = m.iov[i].len + One(i = n)
  BY <1>4, TotalIncreased
<1>6. /\ x \in Seq(Addresses) /\ p \in Nat /\ Len(x) = p + 1 /\ x[p + 1] = m.next
      /\ \A i \in 1 .. p : x[i] = w[i]
  BY <1>4
<1>7. \A y : Times(y, x) = Times(y, w) + One(m.next = y)
  BY <1>4, TimesAppend
<1>. HIDE DEF v, x
<1>8. r.iov = v /\ r.written = x
  BY <1>1, <1>2 DEF Assembled, Messages
<1>9. Contents(r) = Contents(m) /\ Single(r) /\ AtLast(r) = AtLast(m)
  BY <1>3, <1>4, <1>5, <1>8 DEF Contents, Single, AtLast, n
<1>10. Assembled(r)
  BY MessageAssembled
<1>11. ASSUME c[ListOf(e, 1)] # << >>
       PROVE  Filled(r) /\ r.written[Len(r.written)] = AtLast(r)
  <2>1. /\ \A i \in 1 .. p : w[i] \in Contents(m)
        /\ \A i \in 1 .. n : m.iov[i].len = 1 + Times(m.iov[i].base, w)
        /\ m.next = m.iov[n].base /\ AtLast(m) = m.next
    BY <1>3, <1>11 DEF Filled, AtLast
  <2>2. m.next \in Contents(m)
    BY <1>4, <2>1 DEF Contents
  <2>3. \A i \in 1 .. n : m.iov[i].base = m.iov[n].base => i = n
    BY <1>3, <1>4 DEF Single
  <2>. HIDE DEF n, p, w
  <2>4. \A i \in 1 .. p + 1 : x[i] \in Contents(m)
    <3>1. \A i \in 1 .. p + 1 : i \in 1 .. p \/ i = p + 1
      BY <1>6
    <3>. QED  BY <1>6, <2>1, <2>2, <3>1
  <2>5. ASSUME NEW i \in 1 .. n PROVE v[i].len = 1 + Times(v[i].base, x)
    <3>1. v[i].base = m.iov[i].base /\ v[i].len = m.iov[i].len + One(i = n)
      BY <1>5
    <3>2. m.iov[i].len = 1 + Times(m.iov[i].base, w)
      BY <2>1
    <3>3. Times(m.iov[i].base, w) \in Nat
      BY <1>4, TimesFinite
    <3>4. One(i = n) = One(m.next = m.iov[i].base) /\ One(i = n) \in Nat
      BY <2>1, <2>3 DEF One
    <3>5. Times(m.iov[i].base, x) = Times(m.iov[i].base, w) + One(m.next = m.iov[i].base)
      BY <1>7
    <3>. QED  BY <3>1, <3>2, <3>3, <3>4, <3>5
  <2>6. Filled(r)
    BY <1>5, <1>6, <1>8, <1>9, <2>4, <2>5 DEF Filled
  <2>. QED  BY <1>6, <1>8, <1>9, <2>1, <2>6
<1>. QED  BY <1>3, <1>9, <1>10, <1>11

-----------------------------------------------------------------------------
(* Receive buffers, with every event sent over RSSI                        *)

(* The events whose lists are in use, and these lists.                     *)
Building == IF pc = "build" THEN event ELSE NoEvent

InUse == {e \in Events : e = rxEvent \/ Times(e, txReqQueue) > 0 \/ e = Building}

Busy == {Latency(d) : d \in Dests} \union (InUse \X Dests)

(* What txRun has still to hand over.                                      *)
Left == IF pc = "send" THEN {msg.iov[i].base : i \in place .. Len(msg.iov)} ELSE {}

(* A buffer is in one place, those on the lists being the last of them.    *)
Apart(on) ==
  \A n \in Buffers :
    One(n \in dma) + One(n \in wire) + One(n \in lost) + One(n \in Left) + One(n \in on) = 1

(* The lists that are in use are what c says; posted events have frames.   *)
Listed(c) ==
  /\ Sound(links, c, Busy) /\ Apart(On(c, Busy))
  /\ \A e \in InUse, d \in Dests \ Empties : e # rxEvent => c[ListOf(e, d)] # << >>

(* The message in the making is sound.                                     *)
Sending ==
  /\ Single(msg)
  /\ 1 \notin Empties => Filled(msg) /\ msg.written[Len(msg.written)] = AtLast(msg)

BInv ==
  /\ blowOffTxEth = FALSE /\ enableRssi = TRUE
  /\ pc \in {"pop", "build", "send", "descriptor", "record"}
  /\ pc \in {"send", "descriptor", "record"} => path = "rssi"
  /\ pc = "send" => Sending
  /\ dma \subseteq Buffers /\ wire \subseteq Buffers /\ lost \subseteq Buffers
  /\ \E c : Listed(c)

(* From a state of the invariant to what the run checks.                   *)
LEMMA AtMostOne ==
  ASSUME NEW S, \A x, y \in S : x = y
  PROVE  Cardinality(S) = One(S # {})
<1>1. CASE S = {}
  BY <1>1, FS_EmptySet DEF One
<1>2. CASE S # {}
  <2>1. PICK x \in S : TRUE
    BY <1>2
  <2>2. S = {x}
    BY <2>1
  <2>3. Cardinality({x}) = 1
    BY FS_Singleton
  <2>. QED  BY <1>2, <2>2, <2>3 DEF One
<1>. QED  BY <1>1, <1>2

LEMMA TimesMeets ==
  ASSUME NEW S, NEW s \in Seq(S), NEW x
  PROVE  Times(x, s) > 0 <=> x \in Elems(s)
<1>. DEFINE P == {i \in DOMAIN s : s[i] = x}
<1>1. IsFiniteSet(P) /\ Cardinality(P) \in Nat
  BY TimesFinite DEF Times
<1>2. Cardinality(P) = 0 <=> P = {}
  <2>. HIDE DEF P
  <2>. QED  BY <1>1, FS_EmptySet
<1>3. P = {} <=> x \notin Elems(s)
  BY DEF Elems
<1>. QED  BY <1>1, <1>2, <1>3 DEF Times

LEMMA OwnedOnce ==
  ASSUME BInv, HInv, DInv
  PROVE  BuffersOwnedOnce
<1>. SUFFICES ASSUME NEW n \in Buffers PROVE Holdings(n) = 1
  BY DEF BuffersOwnedOnce
<1>1. PICK c : Listed(c)
  BY DEF BInv
<1>. DEFINE busy == {Latency(d) : d \in Dests}
                    \union ({rxEvent} \X Dests) \union ({e \in Events : Times(e, txReqQueue) > 0} \X Dests)
                    \union (IF pc = "build" THEN {event} \X Dests ELSE {})
            left == IF pc = "send" THEN {i \in place .. Len(msg.iov) : msg.iov[i].base = n} ELSE {}
            holds == {l \in busy \cap Lists : Times(n, Scan(links, l)) > 0}
<1>2. busy \cap Lists = Busy
  <2>1. \A d \in Dests : Latency(d) \in Lists
    BY DEF Latency, Lists
  <2>2. \A e, d : <<e, d>> \in Lists /\ e \notin Events => <<e, d>> = Latency(d) /\ d \in Dests
    BY DEF Latency, Lists
  <2>3. \A e \in Events, d \in Dests : <<e, d>> \in Lists
    BY DEF Lists
  <2>4. pc = "build" => event \in Events
    BY DEF DInv, DescriptorTypes
  <2>. QED  BY <2>1, <2>2, <2>3, <2>4, TxAssumption DEF Busy, InUse, Building
<1>3. holds = {l \in Busy : n \in Elems(c[l])}
  <2>1. ASSUME NEW l \in Busy
        PROVE  Times(n, Scan(links, l)) > 0 <=> n \in Elems(c[l])
    <3>1. l \in Lists /\ Chain(links, l, c[l])
      BY <1>1 DEF Listed, Sound
    <3>2. Scan(links, l) = c[l] /\ c[l] \in Seq(Buffers)
      BY <3>1, ScanIsChain DEF Chain
    <3>. QED  BY <3>2, TimesMeets
  <2>. HIDE DEF busy
  <2>. QED  BY <1>2, <2>1
<1>4. Cardinality(holds) = One(n \in On(c, Busy))
  <2>1. \A x, y \in holds : x = y
    <3>1. \A l, m \in Busy : l # m => Elems(c[l]) \cap Elems(c[m]) = {}
      BY <1>1 DEF Listed, Sound
    <3>. HIDE DEF holds
    <3>. QED  BY <1>3, <3>1
  <2>2. holds # {} <=> n \in On(c, Busy)
    BY <1>3 DEF On
  <2>. HIDE DEF holds
  <2>. QED  BY <2>1, <2>2, AtMostOne DEF One
<1>5. Cardinality(left) = One(n \in Left)
  <2>1. \A x, y \in left : x = y
    <3>1. CASE pc = "send"
      <4>1. place \in 1 .. Len(msg.iov) /\ Single(msg) /\ Len(msg.iov) \in Nat
        BY <3>1 DEF HInv, BInv, Sending, Assembled, Messages
      <4>2. \A i \in place .. Len(msg.iov) : i \in 1 .. Len(msg.iov)
        BY <4>1
      <4>. QED  BY <3>1, <4>1, <4>2 DEF Single
    <3>. QED  BY <3>1
  <2>2. left # {} <=> n \in Left
    BY DEF Left
  <2>. HIDE DEF left
  <2>. QED  BY <2>1, <2>2, AtMostOne DEF One
<1>6. Holdings(n) = One(n \in dma) + One(n \in wire) + One(n \in lost) + Cardinality(left)
                    + Cardinality(holds)
  BY DEF Holdings
<1>7. One(n \in dma) + One(n \in wire) + One(n \in lost) + One(n \in Left)
      + One(n \in On(c, Busy)) = 1
  BY <1>1 DEF Listed, Apart
<1>. HIDE DEF left, holds
<1>. QED  BY <1>4, <1>5, <1>6, <1>7

LEMMA BInvInit == Configs = {<<FALSE, TRUE>>} /\ Init => BInv
<1>. SUFFICES ASSUME Configs = {<<FALSE, TRUE>>}, Init PROVE BInv
  OBVIOUS
<1>. DEFINE c == [l \in Lists |-> << >>]
<1>1. InUse = {}
  <2>1. \A e \in Events : Times(e, << >>) = 0
    <3>1. << >> \in Seq(Events) /\ \A i \in 1 .. Len(<< >>) : FALSE
      OBVIOUS
    <3>. QED  BY <3>1, TimesNone
  <2>. QED  BY <2>1, TxAssumption DEF Init, InUse, Building
<1>2. Busy \subseteq Lists
  BY <1>1 DEF Busy, Latency, Lists
<1>3. links \in LinkTables /\ \A x \in Lists : links.f[x] = x /\ links.b[x] = x
  <2>. DEFINE F == [x \in Buffers \union Lists |-> x]  B == [l \in Lists |-> l]
  <2>1. F \in [Places -> Places] /\ B \in [Lists -> Places] /\ \A x \in Lists : F[x] = x /\ B[x] = x
    BY DEF Places
  <2>2. links = [f |-> F, b |-> B]
    BY DEF Init
  <2>. HIDE DEF F, B
  <2>. QED  BY <2>1, <2>2 DEF LinkTables
<1>4. << >> \in Seq(Buffers) /\ Len(<< >>) = 0 /\ \A i \in 1 .. 0 : FALSE
  OBVIOUS
<1>5. Elems(<< >>) = {} /\ Distinct(<< >>)
  BY <1>4 DEF Elems, Distinct
<1>6. \A l \in Busy : c[l] = << >>
  BY <1>2
<1>. HIDE DEF c
<1>7. \A l \in Busy : Chain(links, l, c[l])
  BY <1>2, <1>3, <1>4, <1>5, <1>6 DEF Chain
<1>8. Sound(links, c, Busy)
  BY <1>2, <1>3, <1>5, <1>6, <1>7 DEF Sound
<1>9. On(c, Busy) = {}
  BY <1>5, <1>6 DEF On
<1>10. Listed(c)
  <2>1. Apart({})
    BY DEF Init, Apart, Left, One
  <2>. QED  BY <1>1, <1>8, <1>9, <2>1 DEF Listed
<1>11. blowOffTxEth = FALSE /\ enableRssi = TRUE
  <2>1. PICK x \in Configs : blowOffTxEth = x[1] /\ enableRssi = x[2]
    BY DEF Init
  <2>2. x = <<FALSE, TRUE>>
    BY <2>1
  <2>. QED  BY <2>1, <2>2
<1>12. pc = "pop" /\ dma = Buffers /\ wire = {} /\ lost = {}
  BY DEF Init
<1>. QED  BY <1>10, <1>11, <1>12 DEF BInv

(* The lists change, and some buffers go between them and the DMA.         *)
LEMMA Relisted ==
  ASSUME BInv, NEW c, Listed(c), UNCHANGED <<cfgVars, pc, path, msg, place, wire, lost>>,
         dma' \subseteq Buffers,
         NEW c2, NEW L, Busy' = L, Sound(links', c2, L),
         \A x \in Buffers : One(x \in dma') + One(x \in On(c2, L))
                            = One(x \in dma) + One(x \in On(c, Busy)),
         \A e \in InUse', d \in Dests \ Empties : e # rxEvent' => c2[ListOf(e, d)] # << >>
  PROVE  BInv'
<1>1. UNCHANGED <<blowOffTxEth, enableRssi, Left>>
  BY DEF cfgVars, Left
<1>2. Apart(On(c2, Busy))'
  <2>. SUFFICES ASSUME NEW x \in Buffers
                PROVE  One(x \in dma') + One(x \in wire') + One(x \in lost') + One(x \in Left')
                       + One(x \in On(c2, Busy')) = 1
    BY DEF Apart
  <2>. DEFINE a == One(x \in dma)  b == One(x \in wire)  d == One(x \in lost)
              l == One(x \in Left)  o == One(x \in On(c, Busy))
              a2 == One(x \in dma')  o2 == One(x \in On(c2, Busy'))
  <2>1. a + b + d + l + o = 1
    BY DEF Listed, Apart
  <2>2. One(x \in wire') = b /\ One(x \in lost') = d /\ One(x \in Left') = l
    BY <1>1
  <2>3. a2 + o2 = a + o
    OBVIOUS
  <2>4. /\ a \in Nat /\ b \in Nat /\ d \in Nat /\ l \in Nat /\ o \in Nat
        /\ a2 \in Nat /\ o2 \in Nat
    BY DEF One
  <2>5. a2 + b + d + l + o2 = 1
    <3>. HIDE DEF a, b, d, l, o, a2, o2
    <3>. QED  BY <2>1, <2>3, <2>4
  <2>. QED  BY <2>2, <2>5
<1>3. Listed(c2)'
  BY <1>2 DEF Listed
<1>4. (pc = "send" => Sending)'
  BY DEF BInv, Sending
<1>. QED  BY <1>1, <1>3, <1>4 DEF BInv

(* rxRun puts a frame on a list: the buffer is the DMA's no more.          *)
LEMMA BInvFrame ==
  ASSUME BInv, DInv, NEW n \in Buffers, NEW d \in Dests,
         FrameToLatency(n, d) \/ FrameToEvent(n, d)
  PROVE  BInv'
<1>1. PICK c : Listed(c)
  BY DEF BInv
<1>2. n \in dma /\ n \notin On(c, Busy) /\ Sound(links, c, Busy) /\ dma \subseteq Buffers
  <2>1. n \in dma
    BY DEF FrameToLatency, FrameToEvent
  <2>. QED  BY <1>1, <2>1 DEF Listed, Apart, One, BInv
<1>3. /\ UNCHANGED <<cfgVars, pc, path, msg, place, wire, lost, rxEvent>>
      /\ Busy' = Busy /\ InUse' = InUse
  BY DEF FrameToLatency, FrameToEvent, hwVars, txVars, rxVars, Busy, InUse, Building
<1>4. /\ \A e \in InUse, i \in Dests : ListOf(e, i) \in Busy
      /\ \A e \in InUse, i \in Dests \ Empties : e # rxEvent => c[ListOf(e, i)] # << >>
      /\ \A e \in InUse : e \in Events
  BY <1>1 DEF Busy, ListOf, Listed, InUse
<1>5. CASE FrameToEvent(n, d)
  <2>. DEFINE l == ListOf(rxEvent, d)
              c2 == Inserted(c, Busy, l, n)
  <2>1. l \in Busy
    <3>1. rxEvent \in Events
      BY <1>5 DEF FrameToEvent, DInv, DescriptorTypes
    <3>. QED  BY <1>4, <3>1 DEF InUse
  <2>2. links' = InsertTail(links, l, n) /\ dma' = dma \ {n}
    BY <1>5 DEF FrameToEvent
  <2>3. \A e \in InUse, i \in Dests : e # rxEvent => ListOf(e, i) # l
    BY DEF ListOf
  <2>4. \A m \in Busy : m # l => c2[m] = c[m]
    BY DEF Inserted
  <2>. HIDE DEF l
  <2>5. Sound(links', c2, Busy) /\ On(c2, Busy) = On(c, Busy) \union {n}
    BY <1>2, <2>1, <2>2, SoundInsert
  <2>. HIDE DEF c2
  <2>6. \A x \in Buffers : One(x \in dma') + One(x \in On(c2, Busy))
                           = One(x \in dma) + One(x \in On(c, Busy))
    BY <1>2, <2>2, <2>5 DEF One
  <2>7. \A e \in InUse', i \in Dests \ Empties : e # rxEvent' => c2[ListOf(e, i)] # << >>
    BY <1>3, <1>4, <2>3, <2>4
  <2>8. dma' \subseteq Buffers
    BY <1>2, <2>2
  <2>. QED  BY <1>1, <1>3, <2>5, <2>6, <2>7, <2>8, Relisted
<1>6. CASE FrameToLatency(n, d)
  <2>. DEFINE l == Latency(d)  k == InsertTail(links, l, n)
              c1 == Inserted(c, Busy, l, n)
              c2 == Removed(c1, Busy, l)
              j == RemoveHead(k, l)  h == Head(c1[l])
  <2>1. l \in Busy
    BY DEF Busy
  <2>2. \/ links' = k /\ dma' = dma \ {n}
        \/ links' = j /\ dma' = (dma \ {n}) \union {k.f[l]}
    BY <1>6 DEF FrameToLatency
  <2>3. \A e \in InUse, i \in Dests : ListOf(e, i) # l
    BY <1>4, ListNames
  <2>4. (\A m \in Busy : m # l => c1[m] = c[m]) /\ (\A m \in Busy : m # l => c2[m] = c1[m])
    BY DEF Inserted, Removed
  <2>5. c1[l] = Append(c[l], n) /\ c[l] \in Seq(Buffers)
    BY <1>2, <2>1 DEF Sound, Chain, Inserted
  <2>6. Len(c1[l]) > 0
    BY <2>5
  <2>. HIDE DEF l
  <2>7. Sound(k, c1, Busy) /\ On(c1, Busy) = On(c, Busy) \union {n}
    BY <1>2, <2>1, SoundInsert
  <2>. HIDE DEF k, c1
  <2>8. k.f[l] = h /\ h \in On(c1, Busy) /\ h \in Buffers
        /\ Sound(j, c2, Busy) /\ On(c2, Busy) = On(c1, Busy) \ {h}
    BY <2>1, <2>6, <2>7, SoundRemove
  <2>. HIDE DEF c2, h, j
  <2>9. /\ \A e \in InUse', i \in Dests \ Empties : e # rxEvent' => c1[ListOf(e, i)] # << >>
        /\ \A e \in InUse', i \in Dests \ Empties : e # rxEvent' => c2[ListOf(e, i)] # << >>
    BY <1>3, <1>4, <2>3, <2>4
  <2>10. dma' \subseteq Buffers
    BY <1>2, <2>2, <2>8
  <2>11. CASE links' = k /\ dma' = dma \ {n}
    <3>1. \A x \in Buffers : One(x \in dma') + One(x \in On(c1, Busy))
                             = One(x \in dma) + One(x \in On(c, Busy))
      BY <1>2, <2>7, <2>11 DEF One
    <3>. QED  BY <1>1, <1>3, <2>7, <2>9, <2>10, <2>11, <3>1, Relisted
  <2>12. CASE links' = j /\ dma' = (dma \ {n}) \union {k.f[l]}
    <3>1. \A x \in On(c, Busy) : x \notin dma
      <4>1. On(c, Busy) \subseteq Buffers
        BY <1>2, OnBuffers
      <4>. QED  BY <1>1, <4>1 DEF Listed, Apart, One
    <3>2. \A x \in Buffers : One(x \in dma') + One(x \in On(c2, Busy))
                             = One(x \in dma) + One(x \in On(c, Busy))
      BY <1>2, <2>7, <2>8, <2>12, <3>1 DEF One
    <3>. QED  BY <1>1, <1>3, <2>8, <2>9, <2>10, <2>12, <3>2, Relisted
  <2>. QED  BY <2>2, <2>11, <2>12
<1>. QED  BY <1>5, <1>6

(* A trigger: the descriptor's lists hold nothing that counts, what is     *)
(* left on them from the event before is dropped, and what is seeded has   *)
(* been on a latency list.                                                 *)
LEMMA BInvTrigger ==
  ASSUME BInv, DInv, NEW from \in SUBSET Dests, TakeTrigger(from)
  PROVE  BInv'
<1>. DEFINE e == Head(pool)  ls == {e} \X Dests  L == Busy \union ls
<1>1. PICK c : Listed(c)
  BY DEF BInv
<1>2. /\ rxEvent = NoEvent /\ pool # << >> /\ rxEvent' = e /\ pool' = Tail(pool)
      /\ links' = Seeded(Emptied(links, ls), e, from)
      /\ UNCHANGED <<cfgVars, pc, path, msg, place, wire, lost, dma, txReqQueue, event>>
  BY DEF TakeTrigger, hwVars, txVars
<1>3. e \in Events /\ pool \in Seq(Events)
  BY <1>2 DEF DInv, DescriptorTypes
<1>4. e \notin InUse
  <2>1. Times(e, pool) = Times(e, Tail(pool)) + 1 /\ Times(e, Tail(pool)) \in Nat
    <3>1. Times(e, pool) = Times(e, Tail(pool)) + One(e = e)
      BY <1>2, <1>3, TimesTail
    <3>2. Tail(pool) \in Seq(Events)
      BY <1>2, <1>3
    <3>. QED  BY <3>1, <3>2, TimesFinite DEF One
  <2>2. Times(e, pool) + Times(e, txReqQueue) + One(rxEvent = e)
        + One(event = e /\ pc # "record") = 1
    BY <1>3 DEF DInv, DescriptorsOwnedOnce
  <2>3. Times(e, txReqQueue) \in Nat /\ \A b : One(b) \in Nat
    BY TimesFinite DEF DInv, DescriptorTypes, One
  <2>. HIDE DEF e
  <2>4. Times(e, txReqQueue) = 0 /\ One(event = e /\ pc # "record") = 0
    BY <2>1, <2>2, <2>3
  <2>5. ~(event = e /\ pc = "build")
    BY <2>4 DEF One
  <2>. QED  BY <1>2, <1>3, <2>4, <2>5, TxAssumption DEF InUse, Building
<1>. HIDE DEF e
<1>5. InUse' = InUse \union {e}
  BY <1>2, <1>3, TxAssumption DEF InUse, Building
<1>6. Busy' = L
  BY <1>5 DEF Busy
<1>7. ls \subseteq Lists /\ ls \cap Busy = {}
  <2>1. ls \subseteq Lists
    BY <1>3 DEF Lists
  <2>2. \A i \in Dests, d2 \in Dests : <<e, i>> # Latency(d2)
    BY <1>3, TxAssumption DEF Latency
  <2>. QED  BY <1>4, <2>1, <2>2 DEF Busy
<1>8. Touched(e) \subseteq L
  BY DEF Touched, Busy, ListOf
<1>. HIDE DEF ls, L
<1>9. Sound(links, c, Busy)
  BY <1>1 DEF Listed
<1>. DEFINE k == Emptied(links, ls)
            c1 == [m \in Busy \union ls |-> IF m \in ls THEN << >> ELSE c[m]]
<1>10. Sound(k, c1, Busy \union ls) /\ On(c1, Busy \union ls) = On(c, Busy)
  BY <1>7, <1>9, SoundEmptied
<1>11. \A m \in Busy : c1[m] = c[m]
  BY <1>7
<1>. HIDE DEF k, c1
<1>12. Sound(k, c1, L) /\ On(c1, L) = On(c, Busy)
  BY <1>10 DEF L
<1>13. PICK c2 : /\ Sound(Seeded(k, e, from), c2, L) /\ On(c2, L) = On(c1, L)
                 /\ \A m \in L \ Touched(e) : c2[m] = c1[m]
  BY <1>3, <1>8, <1>12, SoundSeeded
<1>14. Sound(links', c2, L)
  BY <1>2, <1>13 DEF k
<1>15. ASSUME NEW f \in InUse', NEW i \in Dests \ Empties, f # rxEvent'
       PROVE  c2[ListOf(f, i)] # << >>
  <2>1. f \in InUse /\ f # rxEvent /\ f # e /\ f \in Events
    BY <1>2, <1>5, <1>15, TxAssumption DEF InUse
  <2>2. ListOf(f, i) \in Busy
    BY <2>1 DEF Busy, ListOf
  <2>3. ListOf(f, i) \notin Touched(e)
    BY <2>1, ListNames DEF Touched, ListOf
  <2>4. c2[ListOf(f, i)] = c[ListOf(f, i)]
    BY <1>11, <1>13, <2>2, <2>3 DEF L
  <2>. QED  BY <1>1, <2>1, <2>4 DEF Listed
<1>16. dma' \subseteq Buffers /\ dma' = dma
  BY <1>2 DEF BInv
<1>. QED  BY <1>1, <1>2, <1>6, <1>12, <1>13, <1>14, <1>15, <1>16, Relisted

(* An event goes from rxRun to the queue and from the queue to txRun: its  *)
(* lists stay in use, and a posted event has frames.                       *)
LEMMA BInvPasses ==
  ASSUME BInv, DInv, PostEvent \/ TxPop
  PROVE  BInv'
<1>1. PICK c : Listed(c)
  BY DEF BInv
<1>2. /\ UNCHANGED <<cfgVars, path, msg, place, wire, lost, dma, links>>
      /\ pc # "send" => pc' # "send"
      /\ pc' # pc => pc = "pop" /\ pc' = "build"
  BY DEF PostEvent, TxPop, hwVars, txVars
<1>3. Left' = Left
  BY <1>2 DEF Left
<1>4. txReqQueue \in Seq(Events)
  BY DEF DInv, DescriptorTypes
<1>5. InUse' = InUse
  <2>1. CASE PostEvent
    <3>1. /\ rxEvent \in Events /\ rxEvent' = NoEvent
          /\ txReqQueue' = Append(txReqQueue, rxEvent) /\ UNCHANGED <<pc, event>>
      BY <2>1 DEF PostEvent, txVars, DInv, DescriptorTypes
    <3>2. \A e : Times(e, txReqQueue') = Times(e, txReqQueue) + One(rxEvent = e)
      BY <1>4, <3>1, TimesAppend
    <3>3. \A e : Times(e, txReqQueue) \in Nat
      BY <1>4, TimesFinite
    <3>4. \A e : Times(e, txReqQueue') > 0 <=> Times(e, txReqQueue) > 0 \/ rxEvent = e
      BY <3>2, <3>3 DEF One
    <3>. QED  BY <3>1, <3>4, TxAssumption DEF InUse, Building
  <2>2. CASE TxPop
    <3>1. /\ txReqQueue # << >> /\ txReqQueue' = Tail(txReqQueue) /\ event' = Head(txReqQueue)
          /\ pc = "pop" /\ pc' = "build" /\ rxEvent' = rxEvent
      BY <2>2 DEF TxPop, rxVars
    <3>2. \A e : Times(e, txReqQueue) = Times(e, txReqQueue') + One(event' = e)
      BY <1>4, <3>1, TimesTail
    <3>3. txReqQueue' \in Seq(Events)
      BY <1>4, <3>1
    <3>4. \A e : Times(e, txReqQueue') \in Nat
      BY <3>3, TimesFinite
    <3>5. \A e : Times(e, txReqQueue) > 0 <=> Times(e, txReqQueue') > 0 \/ event' = e
      BY <3>2, <3>4 DEF One
    <3>. QED  BY <3>1, <3>5, TxAssumption DEF InUse, Building
  <2>. QED  BY <2>1, <2>2
<1>6. Busy' = Busy
  BY <1>5 DEF Busy
<1>7. Sound(links', c, Busy') /\ Apart(On(c, Busy))'
  BY <1>1, <1>2, <1>3, <1>6 DEF Listed, Apart
<1>8. ASSUME NEW e \in InUse', NEW d \in Dests \ Empties, e # rxEvent'
      PROVE  c[ListOf(e, d)] # << >>
  <2>1. CASE e # rxEvent
    BY <1>1, <1>5, <1>8, <2>1 DEF Listed
  <2>2. CASE e = rxEvent
    <3>1. PostEvent /\ e \in Events /\ Scan(links, ListOf(e, d)) # << >>
      BY <1>8, <2>2 DEF PostEvent, TxPop, rxVars, DInv, DescriptorTypes, InUse
    <3>2. ListOf(e, d) \in Busy /\ ListOf(e, d) \in Lists
      BY <1>5, <3>1, ListNames DEF Busy, ListOf
    <3>. QED  BY <1>1, <3>1, <3>2, ScanIsChain DEF Listed, Sound
  <2>. QED  BY <2>1, <2>2
<1>9. Listed(c)'
  BY <1>7, <1>8 DEF Listed
<1>10. (pc = "send" => Sending)'
  BY <1>2 DEF BInv, Sending
<1>11. /\ pc' \in {"pop", "build", "send", "descriptor", "record"}
       /\ pc' \in {"send", "descriptor", "record"} => path' = "rssi"
       /\ blowOffTxEth' = FALSE /\ enableRssi' = TRUE
       /\ dma' \subseteq Buffers /\ wire' \subseteq Buffers /\ lost' \subseteq Buffers
  BY <1>2 DEF BInv, cfgVars
<1>. QED  BY <1>9, <1>10, <1>11 DEF BInv

LEMMA OnSplit ==
  ASSUME NEW k, NEW c, NEW L, NEW M, Sound(k, c, L \union M), L \cap M = {}, NEW x
  PROVE  One(x \in On(c, L \union M)) = One(x \in On(c, L)) + One(x \in On(c, M))
<1>1. x \in On(c, L \union M) <=> x \in On(c, L) \/ x \in On(c, M)
  BY DEF On
<1>2. ~(x \in On(c, L) /\ x \in On(c, M))
  <2>1. \A l, m \in L \union M : l # m => Elems(c[l]) \cap Elems(c[m]) = {}
    BY DEF Sound
  <2>. QED  BY <2>1 DEF On
<1>. QED  BY <1>1, <1>2 DEF One

(* The message is built: what was on the lists of the event is in it.      *)
LEMMA BInvBuild ==
  ASSUME BInv, DInv, Build
  PROVE  BInv'
<1>. DEFINE M == ListsTo(event, NDests)
<1>1. PICK c : Listed(c)
  BY DEF BInv
<1>2. /\ pc = "build" /\ pc' = "send" /\ path' = "rssi" /\ place' = 1 /\ msg' = Message(event)
      /\ UNCHANGED <<cfgVars, wire, lost, dma, links, rxEvent, txReqQueue>>
  BY DEF Build, rxVars, BInv
<1>3. /\ event \in Events /\ event # rxEvent /\ ~(Times(event, txReqQueue) > 0)
      /\ event # NoEvent
  <2>1. event \in Events
    BY <1>2 DEF DInv, DescriptorTypes
  <2>2. Times(event, pool) + Times(event, txReqQueue) + One(rxEvent = event)
        + One(event = event /\ pc # "record") = 1
    BY <2>1 DEF DInv, DescriptorsOwnedOnce
  <2>3. One(event = event /\ pc # "record") = 1
    BY <1>2 DEF One
  <2>4. Times(event, pool) \in Nat /\ Times(event, txReqQueue) \in Nat
        /\ One(rxEvent = event) \in Nat
    BY PlacesAreNumbers DEF DInv
  <2>5. One(rxEvent = event) = 0 /\ Times(event, txReqQueue) = 0
    BY <2>2, <2>3, <2>4
  <2>. QED  BY <2>1, <2>5, TxAssumption DEF One
<1>4. InUse' = InUse \ {event} /\ event \in InUse
  BY <1>2, <1>3, TxAssumption DEF InUse, Building
<1>5. M = {event} \X Dests
  <2>1. Dests = 1 .. NDests
    BY DEF Dests
  <2>. QED  BY <2>1 DEF ListsTo, ListOf
<1>6. Busy = Busy' \union M /\ Busy' \cap M = {}
  <2>1. \A d, i \in Dests : Latency(d) # <<event, i>>
    BY <1>3, TxAssumption DEF Latency
  <2>2. Busy' = {Latency(d) : d \in Dests} \union ((InUse \ {event}) \X Dests)
    BY <1>4 DEF Busy
  <2>. QED  BY <1>4, <1>5, <2>1, <2>2 DEF Busy
<1>7. Sound(links, c, Busy) /\ M \subseteq Busy
  BY <1>1, <1>6 DEF Listed
<1>. HIDE DEF M
<1>8. /\ Assembled(msg') /\ Single(msg') /\ Contents(msg') = {Header} \union On(c, M)
      /\ c[ListOf(event, 1)] # << >>
         => Filled(msg') /\ msg'.written[Len(msg'.written)] = AtLast(msg')
  BY <1>2, <1>3, <1>7, MessageGathers DEF M
<1>9. Left' = {Header} \union On(c, M)
  BY <1>2, <1>8 DEF Left, Contents
<1>10. Left = {}
  BY <1>2 DEF Left
<1>11. Sending'
  <2>1. ASSUME 1 \notin Empties PROVE c[ListOf(event, 1)] # << >>
    <3>1. 1 \in Dests \ Empties
      BY <2>1, TxAssumption DEF Dests
    <3>. QED  BY <1>1, <1>3, <1>4, <3>1 DEF Listed
  <2>. QED  BY <1>8, <2>1 DEF Sending
<1>. DEFINE L == Busy'
<1>12. L = Busy' /\ Busy = L \union M /\ L \cap M = {}
  BY <1>6
<1>. HIDE DEF L
<1>13. Sound(links', c, L)
  BY <1>2, <1>7, <1>12, SoundFewer
<1>14. \A x \in Buffers : One(x \in On(c, Busy)) = One(x \in On(c, L)) + One(x \in Left')
  <2>. SUFFICES ASSUME NEW x \in Buffers
                PROVE  One(x \in On(c, Busy)) = One(x \in On(c, L)) + One(x \in Left')
    OBVIOUS
  <2>1. x \in Left' <=> x \in On(c, M)
    BY <1>9, TxAssumption
  <2>. QED  BY <1>7, <1>12, <2>1, OnSplit DEF One
<1>15. Apart(On(c, Busy))'
  <2>. SUFFICES ASSUME NEW x \in Buffers
                PROVE  One(x \in dma') + One(x \in wire') + One(x \in lost') + One(x \in Left')
                       + One(x \in On(c, L)) = 1
    BY <1>12 DEF Apart
  <2>1. One(x \in dma) + One(x \in wire) + One(x \in lost) + One(x \in Left)
        + One(x \in On(c, Busy)) = 1
    BY <1>1 DEF Listed, Apart
  <2>2. One(x \in Left) = 0
    BY <1>10 DEF One
  <2>3. \A b : One(b) \in Nat
    BY DEF One
  <2>. QED  BY <1>2, <1>14, <2>1, <2>2, <2>3
<1>16. \A e \in InUse', d \in Dests \ Empties : e # rxEvent' => c[ListOf(e, d)] # << >>
  BY <1>1, <1>2, <1>4 DEF Listed
<1>17. Listed(c)'
  BY <1>12, <1>13, <1>15, <1>16 DEF Listed
<1>18. /\ blowOffTxEth' = FALSE /\ enableRssi' = TRUE
       /\ dma' \subseteq Buffers /\ wire' \subseteq Buffers /\ lost' \subseteq Buffers
  BY <1>2 DEF BInv, cfgVars
<1>. QED  BY <1>2, <1>11, <1>17, <1>18 DEF BInv

(* Steps after which the lists are the same, and only buffers that are on  *)
(* none have moved.                                                        *)
LEMMA BInvBeside ==
  ASSUME BInv, UNCHANGED <<links, cfgVars, rxEvent, txReqQueue>>,
         UNCHANGED <<pc, event>> \/ (pc # "build" /\ pc' # "build"),
         pc' \in {"pop", "build", "send", "descriptor", "record"},
         pc' \in {"send", "descriptor", "record"} => path' = "rssi",
         pc' = "send" => Sending',
         dma' \subseteq Buffers, wire' \subseteq Buffers, lost' \subseteq Buffers,
         \A x \in Buffers :
            One(x \in dma') + One(x \in wire') + One(x \in lost') + One(x \in Left')
            = One(x \in dma) + One(x \in wire) + One(x \in lost) + One(x \in Left)
  PROVE  BInv'
<1>1. PICK c : Listed(c)
  BY DEF BInv
<1>2. InUse' = InUse
  BY DEF InUse, Building
<1>3. Busy' = Busy
  BY <1>2 DEF Busy
<1>4. Sound(links', c, Busy')
  BY <1>1, <1>3 DEF Listed
<1>5. Apart(On(c, Busy))'
  <2>. SUFFICES ASSUME NEW x \in Buffers
                PROVE  One(x \in dma') + One(x \in wire') + One(x \in lost') + One(x \in Left')
                       + One(x \in On(c, Busy)) = 1
    BY <1>3 DEF Apart
  <2>1. One(x \in dma) + One(x \in wire) + One(x \in lost) + One(x \in Left)
        + One(x \in On(c, Busy)) = 1
    BY <1>1 DEF Listed, Apart
  <2>. QED  BY <2>1
<1>6. \A e \in InUse', d \in Dests \ Empties : e # rxEvent' => c[ListOf(e, d)] # << >>
  BY <1>1, <1>2 DEF Listed
<1>7. Listed(c)'
  BY <1>4, <1>5, <1>6 DEF Listed
<1>8. blowOffTxEth' = FALSE /\ enableRssi' = TRUE
  BY DEF BInv, cfgVars
<1>. QED  BY <1>7, <1>8 DEF BInv

(* A piece is handed over, and goes to the firmware or is lost.            *)
LEMMA BInvHandOver ==
  ASSUME BInv, HInv, HandOver
  PROVE  BInv'
<1>. DEFINE base == msg.iov[place].base  n == Len(msg.iov)
            rest == {msg.iov[i].base : i \in place + 1 .. n}
<1>1. /\ pc = "send" /\ path = "rssi" /\ msg' = msg /\ path' = path
      /\ UNCHANGED <<links, cfgVars, rxEvent, txReqQueue, dma>>
      /\ \/ place < n /\ place' = place + 1 /\ pc' = "send"
         \/ ~(place < n) /\ pc' = "descriptor"
      /\ \/ base = Header /\ UNCHANGED <<wire, lost>>
         \/ base # Header /\ wire' = wire \union {base} /\ lost' = lost
         \/ base # Header /\ lost' = lost \union {base} /\ wire' = wire
  BY DEF HandOver, rxVars
<1>2. Assembled(msg) /\ place \in 1 .. n /\ n \in Nat /\ Single(msg)
  BY <1>1 DEF HInv, BInv, Sending, Assembled, Messages
<1>3. base \in Buffers \union {Header}
  <2>1. CASE place = 1
    BY <1>2, <2>1 DEF Assembled
  <2>2. CASE place # 1
    <3>1. place \in 2 .. n
      BY <1>2, <2>2
    <3>. QED  BY <1>2, <3>1 DEF Assembled
  <2>. QED  BY <2>1, <2>2
<1>4. Left = {base} \union rest /\ base \notin rest
  <2>1. Left = {msg.iov[i].base : i \in place .. n}
    BY <1>1 DEF Left
  <2>2. \A i : i \in place .. n <=> i = place \/ i \in place + 1 .. n
    BY <1>2
  <2>3. \A i \in place + 1 .. n : i \in 1 .. n /\ i # place
    BY <1>2
  <2>4. base \notin rest
    BY <1>2, <2>3 DEF Single
  <2>. QED  BY <2>1, <2>2, <2>4
<1>5. Left' = rest
  <2>1. CASE place < n /\ place' = place + 1 /\ pc' = "send"
    BY <1>1, <2>1 DEF Left
  <2>2. CASE ~(place < n) /\ pc' = "descriptor"
    <3>1. \A i \in place + 1 .. n : FALSE
      BY <1>2, <2>2
    <3>. QED  BY <2>2, <3>1 DEF Left
  <2>. QED  BY <1>1, <2>1, <2>2
<1>. HIDE DEF base, rest, n
<1>6. dma' \subseteq Buffers /\ wire' \subseteq Buffers /\ lost' \subseteq Buffers
  BY <1>1, <1>3 DEF BInv
<1>7. ASSUME NEW x \in Buffers
      PROVE  One(x \in dma') + One(x \in wire') + One(x \in lost') + One(x \in Left')
             = One(x \in dma) + One(x \in wire) + One(x \in lost) + One(x \in Left)
  <2>1. PICK c : Listed(c)
    BY DEF BInv
  <2>2. One(x \in dma) + One(x \in wire) + One(x \in lost) + One(x \in Left)
        + One(x \in On(c, Busy)) = 1
    BY <2>1 DEF Listed, Apart
  <2>3. CASE x # base
    <3>1. /\ x \in wire' <=> x \in wire
          /\ x \in lost' <=> x \in lost
          /\ x \in Left' <=> x \in Left
      BY <1>1, <1>4, <1>5, <2>3
    <3>. QED  BY <1>1, <3>1 DEF One
  <2>4. CASE x = base
    <3>1. base # Header
      BY <2>4, TxAssumption
    <3>2. x \in Left /\ x \notin Left'
      BY <1>4, <1>5, <2>4
    <3>3. x \notin wire /\ x \notin lost
      BY <2>2, <3>2 DEF One
    <3>4. \/ x \in wire' /\ x \notin lost'
          \/ x \in lost' /\ x \notin wire'
      BY <1>1, <2>4, <3>1, <3>3
    <3>. QED  BY <1>1, <3>2, <3>3, <3>4 DEF One
  <2>. QED  BY <2>3, <2>4
<1>8. pc' = "send" => Sending'
  BY <1>1 DEF BInv, Sending
<1>9. /\ pc # "build" /\ pc' # "build"
      /\ pc' \in {"pop", "build", "send", "descriptor", "record"} /\ path' = "rssi"
  BY <1>1
<1>. QED  BY <1>1, <1>6, <1>7, <1>8, <1>9, BInvBeside

LEMMA BInvElsewhere ==
  ASSUME Configs = {<<FALSE, TRUE>>}, BInv,
         \/ FreeDescriptor \/ Record \/ Transmitted
         \/ (\E c \in Configs : SetConfig(c)) \/ UNCHANGED vars
  PROVE  BInv'
<1>1. CASE FreeDescriptor
  <2>1. /\ pc = "descriptor" /\ pc' = "record" /\ path' = "rssi"
        /\ UNCHANGED <<links, cfgVars, rxEvent, txReqQueue, dma, wire, lost>>
    BY <1>1 DEF FreeDescriptor, hwVars, rxVars, BInv
  <2>2. Left' = Left
    BY <2>1 DEF Left
  <2>. QED  BY <2>1, <2>2, BInvBeside DEF BInv
<1>2. CASE Record
  <2>1. /\ pc = "record" /\ pc' = "pop" /\ path = "rssi" /\ blowOffTxEth = FALSE
        /\ blowOffTxEth' = (blowOffTxEth \/ (~ sent /\ path = "tcp"))
        /\ UNCHANGED <<links, enableRssi, rxEvent, txReqQueue, dma, wire, lost>>
    BY <1>2 DEF Record, hwVars, rxVars, BInv
  <2>2. blowOffTxEth' = blowOffTxEth
    BY <2>1
  <2>3. Left' = Left
    BY <2>1 DEF Left
  <2>. QED  BY <2>1, <2>2, <2>3, BInvBeside DEF BInv, cfgVars
<1>3. CASE Transmitted
  <2>1. /\ UNCHANGED <<links, cfgVars, rxEvent, txReqQueue, lost, pc, event, path, msg, place>>
        /\ \/ \E n \in wire : wire' = wire \ {n} /\ dma' = dma \union {n}
           \/ UNCHANGED <<wire, dma>>
    BY <1>3 DEF Transmitted, rxVars, txVars
  <2>2. Left' = Left /\ (pc' = "send" => Sending')
    BY <2>1 DEF Left, BInv, Sending
  <2>3. PICK c : Listed(c)
    BY DEF BInv
  <2>4. \A x \in wire : x \notin dma
    BY <2>3 DEF BInv, Listed, Apart, One
  <2>5. /\ dma' \subseteq Buffers /\ wire' \subseteq Buffers
        /\ \A x \in Buffers : One(x \in dma') + One(x \in wire') = One(x \in dma) + One(x \in wire)
    BY <2>1, <2>4 DEF BInv, One
  <2>6. \A b : One(b) \in Nat
    BY DEF One
  <2>7. \A x \in Buffers :
          One(x \in dma') + One(x \in wire') + One(x \in lost') + One(x \in Left')
          = One(x \in dma) + One(x \in wire) + One(x \in lost) + One(x \in Left)
    BY <2>1, <2>2, <2>5, <2>6
  <2>8. /\ pc' \in {"pop", "build", "send", "descriptor", "record"}
        /\ pc' \in {"send", "descriptor", "record"} => path' = "rssi"
        /\ lost' \subseteq Buffers
    BY <2>1 DEF BInv
  <2>. QED  BY <2>1, <2>2, <2>5, <2>7, <2>8, BInvBeside
<1>4. CASE (\E c \in Configs : SetConfig(c)) \/ UNCHANGED vars
  <2>1. /\ UNCHANGED <<links, rxEvent, txReqQueue, dma, wire, lost, pc, event, path, msg, place>>
        /\ UNCHANGED cfgVars
    <3>1. CASE UNCHANGED vars
      BY <3>1 DEF vars, hwVars, rxVars, txVars
    <3>2. CASE \E c \in Configs : SetConfig(c)
      <4>1. SetConfig(<<FALSE, TRUE>>)
        BY <3>2
      <4>. QED  BY <4>1 DEF SetConfig, hwVars, rxVars, txVars, cfgVars, BInv
    <3>. QED  BY <1>4, <3>1, <3>2
  <2>2. Left' = Left /\ (pc' = "send" => Sending')
    BY <2>1 DEF Left, BInv, Sending
  <2>. QED  BY <2>1, <2>2, BInvBeside DEF BInv
<1>. QED  BY <1>1, <1>2, <1>3, <1>4

LEMMA BInvNext ==
  Configs = {<<FALSE, TRUE>>} => (BInv /\ HInv /\ DInv /\ [Next]_vars => BInv')
<1>. SUFFICES ASSUME Configs = {<<FALSE, TRUE>>}, BInv, HInv, DInv, [Next]_vars
              PROVE  BInv'
  OBVIOUS
<1>1. CASE \E n \in Buffers, d \in Dests : FrameToLatency(n, d) \/ FrameToEvent(n, d)
  BY <1>1, BInvFrame
<1>2. CASE \E from \in SUBSET Dests : TakeTrigger(from)
  BY <1>2, BInvTrigger
<1>3. CASE PostEvent \/ TxPop
  BY <1>3, BInvPasses
<1>4. CASE Build
  BY <1>4, BInvBuild
<1>5. CASE HandOver
  BY <1>5, BInvHandOver
<1>6. CASE FreeDescriptor \/ Record \/ Transmitted \/ (\E c \in Configs : SetConfig(c))
           \/ UNCHANGED vars
  BY <1>6, BInvElsewhere
(* Nothing is inhibited or sent over TCP, so no list is walked. *)
<1>7. ~BlowOff /\ ~SendTcp /\ ~FreeNode /\ ~NextNode /\ ~NextList /\ ~GoneAstray
  BY DEF BInv, BlowOff, SendTcp, FreeNode, NextNode, NextList, GoneAstray
<1>. QED  BY <1>1, <1>2, <1>3, <1>4, <1>5, <1>6, <1>7 DEF Next, RxStep, TxStep

(* With every event sent over RSSI, every receive buffer is in one place:  *)
(* with the DMA, with the firmware, lost by a hand-over that failed, on    *)
(* one list that is in use, or in what is still to be handed over.         *)
THEOREM TxBuffers == Configs = {<<FALSE, TRUE>>} => (Spec => []BuffersOwnedOnce)
<1>. SUFFICES ASSUME Configs = {<<FALSE, TRUE>>} PROVE Spec => []BuffersOwnedOnce
  OBVIOUS
<1>1. Init => BInv
  BY BInvInit
<1>2. BInv /\ HInv /\ DInv /\ [Next]_vars => BInv'
  BY BInvNext
<1>3. BInv /\ HInv /\ DInv => BuffersOwnedOnce
  BY OwnedOnce
<1>. QED  BY <1>1, <1>2, <1>3, DInvInit, DInvNext, HInvInit, HInvNext, PTL DEF Spec

(* Then also each piece of a message is as long as what was written to its *)
(* buffer, and the trailer is in the last one, for every number of         *)
(* contributors and frames, if the first contributor is not empty.         *)
THEOREM TxPieces ==
  Configs = {<<FALSE, TRUE>>} /\ 1 \notin Empties => (Spec => []PiecesFilled)
<1>. SUFFICES ASSUME Configs = {<<FALSE, TRUE>>}, 1 \notin Empties
              PROVE  Spec => []PiecesFilled
  OBVIOUS
<1>1. Init => BInv
  BY BInvInit
<1>2. BInv /\ HInv /\ DInv /\ [Next]_vars => BInv'
  BY BInvNext
<1>3. BInv /\ HInv => PiecesFilled
  <2>. SUFFICES ASSUME BInv, HInv PROVE PiecesFilled
    OBVIOUS
  <2>1. pc # "walk"
    BY DEF BInv
  <2>2. CASE pc = "send"
    <3>1. /\ \A i \in 1 .. Len(msg.iov) : msg.iov[i].len = 1 + Times(msg.iov[i].base, msg.written)
          /\ msg.written[Len(msg.written)] = msg.iov[Len(msg.iov)].base
      BY <2>2 DEF BInv, Sending, Filled, AtLast
    <3>2. msg.iov \in Seq(Piece)
      BY <2>2 DEF HInv, Assembled, Messages
    <3>3. DOMAIN msg.iov = 1 .. Len(msg.iov)
      BY <3>2
    <3>. QED  BY <3>1, <3>3 DEF PiecesFilled
  <2>3. CASE pc # "send"
    BY <2>1, <2>3 DEF PiecesFilled
  <2>. QED  BY <2>2, <2>3
<1>. QED  BY <1>1, <1>2, <1>3, DInvInit, DInvNext, HInvInit, HInvNext, PTL DEF Spec

=============================================================================
