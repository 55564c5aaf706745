----------------------------- MODULE CommQueue -----------------------------
(***************************************************************************)
(* generic/CommQueue: the ring of pointers through which the threads of    *)
(* the server talk (the transmit request queue and the event pool of the   *)
(* DAQ, the reply queue of the register links).                            *)
(*                                                                         *)
(* A call holds the mutex from start to end except inside its one          *)
(* pthread_cond_timedwait, so a call that does not wait is one step and a  *)
(* call that waits is two: the test that puts it to sleep, and what it     *)
(* does once it is awake.  A sleeper may wake at any moment: it is         *)
(* signalled by every push and pop alike, it times out, it may wake for no *)
(* reason, and a tv_nsec beyond one second makes the wait return at once.  *)
(* In every case it tests the ring once more and does not wait again.      *)
(***************************************************************************)
EXTENDS Integers, FiniteSets, Sequences

CONSTANTS
  Values,     (* the pointers that are queued                              *)
  NULL,       (* the null pointer, returned by a pop that finds nothing    *)
  Size,       (* _size, the slots of the ring                              *)
  Producers,  (* threads that push                                         *)
  Consumers   (* threads that pop                                          *)

(* The constructors are called with several hundred slots; one would never *)
(* hold anything.                                                          *)
ASSUME SizeAssumption == Size \in Nat /\ Size >= 2

ASSUME NullAssumption == NULL \notin Values

(* Every queue of the program is filled by one thread.  push computes      *)
(* where _write goes before it sleeps, which is sound only then.           *)
ASSUME SingleProducer == \A p1, p2 \in Producers : p1 = p2

(* No thread fills a queue that it empties. *)
ASSUME DistinctThreads == Producers \intersect Consumers = {}

VARIABLES
  data,       (* _data, the slots                                          *)
  read,       (* _read                                                     *)
  write,      (* _write                                                    *)
  count,      (* _count                                                    *)
  asleep,     (* threads inside pthread_cond_timedwait                     *)
  next,       (* the local "next" of a producer that sleeps                *)
  ptr,        (* the argument of a producer that sleeps                    *)
  pushed,     (* what the last push of each producer returned              *)
  popped      (* what the last pop of each consumer returned               *)

qvars == <<data, read, write, count, asleep, next, ptr, pushed, popped>>

Slots == 0 .. Size - 1

Succ(i) == (i + 1) % Size

Init ==
  /\ data = [i \in Slots |-> NULL]
  /\ read = 0
  /\ write = 0
  /\ count = 0
  /\ asleep = {}
  /\ next = [p \in Producers |-> 0]
  /\ ptr = [p \in Producers |-> NULL]
  /\ pushed = [p \in Producers |-> TRUE]
  /\ popped = [c \in Consumers |-> NULL]

-----------------------------------------------------------------------------
(* push                                                                    *)

Store(p, v, n) ==
  /\ n # read
  /\ data' = [data EXCEPT ![write] = v]
  /\ write' = n
  /\ count' = count + 1
  /\ pushed' = [pushed EXCEPT ![p] = TRUE]

Reject(p, n) ==
  /\ n = read
  /\ pushed' = [pushed EXCEPT ![p] = FALSE]
  /\ UNCHANGED <<data, write, count>>

FinishPush(p, v, n) ==
  /\ Store(p, v, n) \/ Reject(p, n)
  /\ UNCHANGED <<read, popped>>

Push(p, v) ==
  /\ p \notin asleep
  /\ FinishPush(p, v, Succ(write))
  /\ UNCHANGED <<asleep, next, ptr>>

PushWait(p, v) ==
  /\ p \notin asleep
  /\ Succ(write) = read
  /\ asleep' = asleep \union {p}
  /\ next' = [next EXCEPT ![p] = Succ(write)]
  /\ ptr' = [ptr EXCEPT ![p] = v]
  /\ UNCHANGED <<data, read, write, count, pushed, popped>>

PushWake(p) ==
  /\ p \in asleep
  /\ FinishPush(p, ptr[p], next[p])
  /\ asleep' = asleep \ {p}
  /\ next' = [next EXCEPT ![p] = 0]
  /\ ptr' = [ptr EXCEPT ![p] = NULL]

-----------------------------------------------------------------------------
(* pop                                                                     *)

(* Mutant: pop forgets the counter. *)
FetchUncounted(c) ==
  /\ read # write
  /\ popped' = [popped EXCEPT ![c] = data[read]]
  /\ read' = Succ(read)
  /\ UNCHANGED count

(* Mutant: pop advances _read before it reads the slot. *)
FetchNext(c) ==
  /\ read # write
  /\ popped' = [popped EXCEPT ![c] = data[Succ(read)]]
  /\ read' = Succ(read)
  /\ count' = count - 1

Fetch(c) ==
  /\ read # write
  /\ popped' = [popped EXCEPT ![c] = data[read]]
  /\ read' = Succ(read)
  /\ count' = count - 1

Nothing(c) ==
  /\ read = write
  /\ popped' = [popped EXCEPT ![c] = NULL]
  /\ UNCHANGED <<read, count>>

FinishPop(c) ==
  /\ Fetch(c) \/ Nothing(c)
  /\ UNCHANGED <<data, write, next, ptr, pushed>>

Pop(c) ==
  /\ c \notin asleep
  /\ FinishPop(c)
  /\ UNCHANGED asleep

PopWait(c) ==
  /\ c \notin asleep
  /\ read = write
  /\ asleep' = asleep \union {c}
  /\ UNCHANGED <<data, read, write, count, next, ptr, pushed, popped>>

PopWake(c) ==
  /\ c \in asleep
  /\ FinishPop(c)
  /\ asleep' = asleep \ {c}

-----------------------------------------------------------------------------

Next ==
  \/ \E p \in Producers, v \in Values : Push(p, v) \/ PushWait(p, v)
  \/ \E p \in Producers : PushWake(p)
  \/ \E c \in Consumers : Pop(c) \/ PopWait(c) \/ PopWake(c)

Spec == Init /\ [][Next]_qvars

-----------------------------------------------------------------------------
(* Properties                                                              *)

(* The values every variable of the ring may take.                         *)
TypeOK ==
  /\ data \in [Slots -> Values \union {NULL}]
  /\ read \in Slots
  /\ write \in Slots
  /\ count \in 0 .. Size - 1
  /\ asleep \subseteq (Producers \union Consumers)
  /\ next \in [Producers -> Slots]
  /\ ptr \in [Producers -> Values \union {NULL}]
  /\ pushed \in [Producers -> BOOLEAN]
  /\ popped \in [Consumers -> Values \union {NULL}]

(* How far write is ahead of read around the ring. *)
Used == IF write >= read THEN write - read ELSE write - read + Size

(* The slot i places after read. *)
SlotAt(i) == IF read + i < Size THEN read + i ELSE read + i - Size

(* The pointers in the ring, oldest first. *)
Contents == [i \in 1 .. Used |-> data[SlotAt(i - 1)]]

(* entryCnt, the depth the register link reports, is the number of         *)
(* pointers between the two indices: no call, and no call that slept and   *)
(* came back to a ring others had moved, lets the count drift.             *)
CountExact == count = Used

(* A producer that sleeps in push computed where _write goes before it     *)
(* slept; when it wakes that is still the slot after _write.               *)
SleeperFresh == \A p \in Producers \cap asleep : next[p] = Succ(write)

(* pop never hands out the null pointer, or a slot that was not written,   *)
(* as though it had been queued.                                           *)
NoNullQueued == \A i \in 1 .. Used : Contents[i] \in Values

(* The ring is a bounded first-in first-out queue of Size - 1 pointers:    *)
(* push refuses only when it holds that many, pop returns NULL only when   *)
(* it holds none, and what is popped is what was pushed, in that order.    *)
Fifo == INSTANCE BoundedFifo WITH q <- Contents, Capacity <- Size - 1

ImplementsFifo == Fifo!Spec
=============================================================================
