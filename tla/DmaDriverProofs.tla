---------------------------- MODULE DmaDriverProofs ---------------------------
(***************************************************************************)
(* That descriptors are written whole, that a buffer the program holds is  *)
(* not received into, and that each buffer is in one place: for any number *)
(* of threads and buffers, however files are opened, whatever is           *)
(* interrupted and whatever words are bad.                                 *)
(***************************************************************************)
EXTENDS DmaDriver, FiniteSetTheorems, TLAPS

Posts == {"A", "B", "C"}

Recs == [buf : TxBuffers, by : Threads]

Rec(t) == [buf |-> call[t].buf, by |-> t]

InWrite(t) == call[t].at \in {"txhandle", "txwait", "postA", "postB", "postC", "txup"}

CallOK ==
  /\ DOMAIN call = Threads
  /\ \A t \in Threads : DOMAIN call[t] = {"at", "op", "buf", "good"}

(* What the firmware may give for a handle.                                *)
Handles == TxBuffers \union {None}

TxTypes ==
  /\ txFree \in Seq(Handles) /\ txPost \in [Posts -> Seq(Recs)]
  /\ \A t \in Threads : call[t].at \in {"postA", "postB", "postC"} => call[t].buf \in TxBuffers

(* Only the holder of the semaphore is in a write. *)
OneWriter == \A t \in Threads : InWrite(t) => writeSem = t

(* The three FIFOs are of one length but for what the writer has yet to    *)
(* write, and agree as far as the shortest goes.                           *)
Aligned ==
  LET a == txPost["A"]  b == txPost["B"]  c == txPost["C"] IN
    /\ \A t \in Threads : call[t].at = "postB" =>
         Len(a) = Len(b) + 1 /\ Len(b) = Len(c) /\ a[Len(a)] = Rec(t)
    /\ \A t \in Threads : call[t].at = "postC" =>
         Len(a) = Len(b) /\ Len(b) = Len(c) + 1 /\ a[Len(a)] = Rec(t) /\ b[Len(b)] = Rec(t)
    /\ (\A t \in Threads : call[t].at \notin {"postB", "postC"}) =>
         Len(a) = Len(b) /\ Len(b) = Len(c)
    /\ \A i \in 1 .. Len(c) : a[i] = b[i] /\ b[i] = c[i]

TxInv == CallOK /\ TxTypes /\ OneWriter /\ Aligned

-----------------------------------------------------------------------------
(* How a call goes on.                                                     *)

LEMMA Goes ==
  ASSUME CallOK, NEW t \in Threads, NEW place, To(t, place)
  PROVE  /\ CallOK'
         /\ call'[t].at = place /\ call'[t].buf = call[t].buf
         /\ \A u \in Threads \ {t} : call'[u] = call[u]
BY DEF To, CallOK

LEMMA Returns ==
  ASSUME CallOK, NEW t \in Threads, Return(t)
  PROVE  /\ CallOK'
         /\ call'[t].at = "idle"
         /\ \A u \in Threads \ {t} : call'[u] = call[u]
BY DEF Return, Idle, CallOK

(* A read takes a word for a handle.                                       *)
LEMMA Pops ==
  ASSUME CallOK, NEW t \in Threads, PopHandle(t), rxPend # <<>>
  PROVE  /\ call[t].at = "handle" /\ CallOK'
         /\ call'[t].at = "size" /\ call'[t].buf = Head(rxPend).buf
         /\ \A u \in Threads \ {t} : call'[u] = call[u]
         /\ rxPend' = Tail(rxPend)
         /\ UNCHANGED <<readSem, rxFree, filling, userHas, held, dropped, txVars>>
<1>1. \E g : call' = [call EXCEPT ![t] = [@ EXCEPT !.at = "size", !.buf = Head(rxPend).buf,
                                                  !.good = g]]
  BY Zenon DEF PopHandle
<1>2. PICK g : call' = [call EXCEPT ![t] = [@ EXCEPT !.at = "size", !.buf = Head(rxPend).buf,
                                                   !.good = g]]
  BY <1>1
<1> DEFINE b == Head(rxPend).buf
<1> HIDE DEF b
<1>3. /\ call'[t].at = "size" /\ call'[t].buf = b
      /\ \A u \in Threads \ {t} : call'[u] = call[u]
      /\ CallOK'
  BY <1>2 DEF CallOK, b
<1> QED  BY <1>3 DEF PopHandle, b

(* A step that is none of a write.                                         *)
LEMMA NoWrite ==
  ASSUME TxInv, CallOK', UNCHANGED txVars, NEW t \in Threads,
         ~InWrite(t), ~InWrite(t)', \A u \in Threads \ {t} : call'[u] = call[u]
  PROVE  TxInv'
<1> USE DEF TxInv, txVars
<1>1. \A u \in Threads : InWrite(u) <=> InWrite(u)'  BY DEF InWrite
<1>2. \A u \in Threads : InWrite(u) => call'[u] = call[u]  OBVIOUS
<1>3. TxTypes'  BY <1>1, <1>2 DEF TxTypes, InWrite
<1>4. OneWriter'  BY <1>1 DEF OneWriter
<1>5. Aligned'
  <2>1. \A u \in Threads : call'[u].at \in {"postB", "postC"} => call'[u] = call[u]
    BY <1>1, <1>2 DEF InWrite
  <2>2. \A u \in Threads : call[u].at \in {"postB", "postC"} => call'[u] = call[u]
    BY <1>2 DEF InWrite
  <2> QED  BY <2>1, <2>2 DEF Aligned, Rec
<1> QED  BY <1>3, <1>4, <1>5

(* A step that leaves all calls alone.                                     *)
LEMMA NoCallStep ==
  ASSUME TxInv, UNCHANGED <<call, txVars>>
  PROVE  TxInv'
BY DEF TxInv, txVars, CallOK, TxTypes, OneWriter, InWrite, Aligned, Rec

-----------------------------------------------------------------------------
(* The steps of a read, and those that begin a call or give it up.         *)
LEMMA ReadMoves ==
  ASSUME CallOK, NEW t \in Threads,
         \/ DownRead(t) \/ UpRead(t) \/ PopHandle(t) \/ WaitRead(t) \/ PopSize(t)
         \/ PopStatus(t) \/ Finish(t) \/ PostUser(t) \/ Interrupted(t)
         \/ \E op \in Commands, b \in held \union {None} : Call(t, op, b)
  PROVE  /\ UNCHANGED txVars /\ ~InWrite(t) /\ ~InWrite(t)' /\ CallOK'
         /\ \A u \in Threads \ {t} : call'[u] = call[u]
<1>1. CASE DownRead(t)
  <2>1. UNCHANGED txVars /\ ~InWrite(t) /\ \E place \in {"post", "up", "handle"} : To(t, place)
    BY <1>1 DEF DownRead, InWrite
  <2> QED  BY <2>1, Goes DEF InWrite
<1>2. CASE UpRead(t) \/ Interrupted(t)
  <2>1. UNCHANGED txVars /\ ~InWrite(t) /\ Return(t)
    BY <1>2 DEF UpRead, Interrupted, InWrite
  <2> QED  BY <2>1, Returns DEF InWrite
<1>3. CASE PopHandle(t)
  <2>1. CASE rxPend = <<>>
    <3>1. UNCHANGED txVars /\ ~InWrite(t) /\ \E place \in {"up", "wait"} : To(t, place)
      BY <1>3, <2>1 DEF PopHandle, InWrite
    <3> QED  BY <3>1, Goes DEF InWrite
  <2>2. CASE rxPend # <<>>
    BY <1>3, <2>2, Pops DEF InWrite
  <2> QED  BY <2>1, <2>2
<1>4. CASE WaitRead(t) \/ Finish(t) \/ PostUser(t)
  <2>1. UNCHANGED txVars /\ ~InWrite(t) /\ \E place \in {"handle", "up"} : To(t, place)
    BY <1>4 DEF WaitRead, Finish, PostUser, InWrite
  <2> QED  BY <2>1, Goes DEF InWrite
<1>5. CASE PopSize(t) \/ PopStatus(t)
  <2>1. UNCHANGED txVars /\ ~InWrite(t)
        /\ (Return(t) \/ \E place \in {"status", "found"} : To(t, place))
    BY <1>5 DEF PopSize, PopStatus, PopNext, InWrite
  <2> QED  BY <2>1, Goes, Returns DEF InWrite
<1>6. ASSUME NEW op, NEW b, Call(t, op, b)
      PROVE  /\ UNCHANGED txVars /\ ~InWrite(t) /\ ~InWrite(t)' /\ CallOK'
             /\ \A u \in Threads \ {t} : call'[u] = call[u]
  <2>1. UNCHANGED txVars /\ ~InWrite(t)
    BY <1>6 DEF Call, Idle, InWrite
  <2>2. call'[t].at = "down" /\ CallOK' /\ \A u \in Threads \ {t} : call'[u] = call[u]
    BY <1>6 DEF Call, CallOK
  <2> QED  BY <2>1, <2>2 DEF InWrite
<1> QED  BY <1>1, <1>2, <1>3, <1>4, <1>5, <1>6

LEMMA ReadSteps ==
  ASSUME TxInv, NEW t \in Threads,
         \/ DownRead(t) \/ UpRead(t) \/ PopHandle(t) \/ WaitRead(t) \/ PopSize(t)
         \/ PopStatus(t) \/ Finish(t) \/ PostUser(t) \/ Interrupted(t)
         \/ \E op \in Commands, b \in held \union {None} : Call(t, op, b)
  PROVE  TxInv'
<1>1. CallOK  BY DEF TxInv
<1> QED  BY <1>1, ReadMoves, NoWrite

-----------------------------------------------------------------------------
(* The steps of a write.                                                   *)

(* Nothing is written; only one thread is in a write, before or after.     *)
LEMMA WriterMoves ==
  ASSUME TxInv, CallOK', NEW t \in Threads, UNCHANGED txPost, txFree' \in Seq(Handles),
         call[t].at \in {"down", "txhandle", "txwait", "txup"},
         call'[t].at \notin {"postB", "postC"},
         call'[t].at = "postA" => call'[t].buf \in TxBuffers,
         InWrite(t)' => writeSem' = t,
         \A u \in Threads \ {t} : ~InWrite(u) /\ call'[u] = call[u]
  PROVE  TxInv'
<1> USE DEF TxInv
<1>1. \A u \in Threads \ {t} : ~InWrite(u)'  BY DEF InWrite
<1>2. TxTypes'  BY <1>1 DEF TxTypes, InWrite
<1>3. OneWriter'  BY <1>1 DEF OneWriter
<1>4. \A u \in Threads : call[u].at \notin {"postB", "postC"} /\ call'[u].at \notin {"postB", "postC"}
  BY <1>1 DEF InWrite
<1>5. Aligned'  BY <1>4 DEF Aligned
<1> QED  BY <1>2, <1>3, <1>5

(* The thread that holds the semaphore is the only one in a write.         *)
LEMMA Others ==
  ASSUME OneWriter, NEW t \in Threads, InWrite(t)
  PROVE  writeSem = t /\ \A u \in Threads \ {t} : ~InWrite(u)
BY DEF OneWriter

LEMMA TakeSteps ==
  ASSUME TxInv, NEW t \in Threads, DownWrite(t) \/ PopTx(t) \/ WaitTx(t) \/ UpTx(t)
  PROVE  TxInv'
<1> USE DEF TxInv
<1>f. txFree # <<>> => Head(txFree) \in Handles /\ Tail(txFree) \in Seq(Handles)
  BY DEF TxTypes
<1>1. CASE DownWrite(t)
  <2>1. /\ writeSem = None /\ writeSem' = t /\ UNCHANGED <<txPost, txFree>>
        /\ call[t].at = "down" /\ \E place \in {"txhandle", "txup"} : To(t, place)
    BY <1>1 DEF DownWrite
  <2>2. \A u \in Threads : ~InWrite(u)  BY <2>1, DriverAssumption DEF OneWriter
  <2> QED  BY <2>1, <2>2, Goes, WriterMoves DEF TxTypes, InWrite
<1>2. CASE PopTx(t)
  <2>0. call[t].at = "txhandle" /\ InWrite(t) /\ UNCHANGED txPost  BY <1>2 DEF PopTx, InWrite
  <2>1. writeSem = t /\ \A u \in Threads \ {t} : ~InWrite(u)  BY <2>0, Others
  <2>2. CASE txFree # <<>> /\ Head(txFree) # None
    <3>1. /\ call'[t].at = "postA" /\ call'[t].buf = Head(txFree) /\ CallOK'
          /\ \A u \in Threads \ {t} : call'[u] = call[u]
          /\ txFree' = Tail(txFree) /\ writeSem' = writeSem
      BY <1>2, <2>2 DEF PopTx, CallOK
    <3>2. Head(txFree) \in TxBuffers /\ txFree' \in Seq(Handles)
      BY <2>2, <3>1, <1>f DEF Handles
    <3> QED  BY <2>0, <2>1, <3>1, <3>2, WriterMoves
  <2>3. CASE ~(txFree # <<>> /\ Head(txFree) # None)
    <3>1. /\ txFree' = txFree \/ (txFree # <<>> /\ txFree' = Tail(txFree))
          /\ Return(t) \/ (To(t, "txwait") /\ writeSem' = writeSem)
      BY <1>2, <2>3 DEF PopTx, UpWrite
    <3>2. txFree' \in Seq(Handles)  BY <3>1, <1>f DEF TxTypes
    <3>3. CASE Return(t)  BY <2>0, <2>1, <3>2, <3>3, Returns, WriterMoves DEF InWrite
    <3>4. CASE To(t, "txwait") /\ writeSem' = writeSem
      BY <2>0, <2>1, <3>2, <3>4, Goes, WriterMoves
    <3> QED  BY <3>1, <3>3, <3>4
  <2> QED  BY <2>2, <2>3
<1>3. CASE WaitTx(t)
  <2>0. call[t].at = "txwait" /\ InWrite(t) /\ UNCHANGED <<txPost, writeSem>> /\ To(t, "txhandle")
    BY <1>3 DEF WaitTx, InWrite
  <2>1. writeSem = t /\ \A u \in Threads \ {t} : ~InWrite(u)  BY <2>0, Others
  <2>2. txFree' \in Seq(Handles)  BY <1>3, <1>f DEF WaitTx, TxTypes
  <2> QED  BY <2>0, <2>1, <2>2, Goes, WriterMoves
<1>4. CASE UpTx(t)
  <2>0. call[t].at = "txup" /\ InWrite(t) /\ UNCHANGED <<txPost, txFree>> /\ Return(t)
    BY <1>4 DEF UpTx, UpWrite, InWrite
  <2>1. writeSem = t /\ \A u \in Threads \ {t} : ~InWrite(u)  BY <2>0, Others
  <2> QED  BY <2>0, <2>1, Returns, WriterMoves DEF TxTypes, InWrite
<1> QED  BY <1>1, <1>2, <1>3, <1>4

(* One word more at the end of a FIFO.                                     *)
LEMMA Appended ==
  ASSUME NEW s \in Seq(Recs), NEW r \in Recs
  PROVE  /\ Append(s, r) \in Seq(Recs) /\ Len(Append(s, r)) = Len(s) + 1
         /\ Append(s, r)[Len(s) + 1] = r
         /\ \A i \in 1 .. Len(s) : Append(s, r)[i] = s[i]
         /\ Len(s) \in Nat
OBVIOUS

LEMMA PostSteps ==
  ASSUME TxInv, NEW t \in Threads, Post(t)
  PROVE  TxInv'
<1> USE DEF TxInv
<1> DEFINE a == txPost["A"]  b == txPost["B"]  c == txPost["C"]
<1>1. call[t].at \in {"postA", "postB", "postC"}  BY DEF Post
<1>2. writeSem = t /\ \A u \in Threads \ {t} : ~InWrite(u)  BY <1>1, Others DEF InWrite
<1>3. Rec(t) \in Recs  BY <1>1 DEF Rec, Recs, TxTypes
<1>4. a \in Seq(Recs) /\ b \in Seq(Recs) /\ c \in Seq(Recs)  BY DEF TxTypes, Posts
<1>5. CASE call[t].at = "postA"
  <2>1. To(t, "postB") /\ txPost' = [txPost EXCEPT !["A"] = Append(@, Rec(t))]
        /\ UNCHANGED <<writeSem, txFree>>
    BY <1>5 DEF Post, Posted, Rec
  <2>2. CallOK' /\ call'[t].at = "postB" /\ Rec(t)' = Rec(t) /\ call'[t].buf = call[t].buf
        /\ \A u \in Threads \ {t} : call'[u] = call[u]
    BY <2>1, Goes DEF Rec
  <2>3. a' = Append(a, Rec(t)) /\ b' = b /\ c' = c /\ txPost' \in [Posts -> Seq(Recs)]
    BY <2>1, <1>3, <1>4, Appended DEF TxTypes, Posts
  <2>4. Len(a) = Len(b) /\ Len(b) = Len(c) /\ \A i \in 1 .. Len(c) : a[i] = b[i] /\ b[i] = c[i]
    BY <1>2, <1>5 DEF Aligned, InWrite
  <2>5. \A u \in Threads \ {t} : ~InWrite(u)'  BY <1>2, <2>2 DEF InWrite
  <2>6. /\ Len(a') = Len(b') + 1 /\ Len(b') = Len(c') /\ a'[Len(a')] = Rec(t)'
        /\ \A i \in 1 .. Len(c') : a'[i] = b'[i] /\ b'[i] = c'[i]
    BY <2>2, <2>3, <2>4, <1>3, <1>4, Appended
  <2>7. Aligned'  BY <2>2, <2>5, <2>6 DEF Aligned, InWrite
  <2>8. TxTypes' /\ OneWriter'
    BY <2>1, <2>2, <2>3, <2>5, <1>2, <1>1 DEF TxTypes, OneWriter, InWrite
  <2> QED  BY <2>2, <2>7, <2>8
<1>6. CASE call[t].at = "postB"
  <2>1. To(t, "postC") /\ txPost' = [txPost EXCEPT !["B"] = Append(@, Rec(t))]
        /\ UNCHANGED <<writeSem, txFree>>
    BY <1>6 DEF Post, Posted, Rec
  <2>2. CallOK' /\ call'[t].at = "postC" /\ Rec(t)' = Rec(t) /\ call'[t].buf = call[t].buf
        /\ \A u \in Threads \ {t} : call'[u] = call[u]
    BY <2>1, Goes DEF Rec
  <2>3. a' = a /\ b' = Append(b, Rec(t)) /\ c' = c /\ txPost' \in [Posts -> Seq(Recs)]
    BY <2>1, <1>3, <1>4, Appended DEF TxTypes, Posts
  <2>4. /\ Len(a) = Len(b) + 1 /\ Len(b) = Len(c) /\ a[Len(a)] = Rec(t)
        /\ \A i \in 1 .. Len(c) : a[i] = b[i] /\ b[i] = c[i]
    BY <1>6 DEF Aligned
  <2>5. \A u \in Threads \ {t} : ~InWrite(u)'  BY <1>2, <2>2 DEF InWrite
  <2>6. /\ Len(a') = Len(b') /\ Len(b') = Len(c') + 1
        /\ a'[Len(a')] = Rec(t)' /\ b'[Len(b')] = Rec(t)'
        /\ \A i \in 1 .. Len(c') : a'[i] = b'[i] /\ b'[i] = c'[i]
    BY <2>2, <2>3, <2>4, <1>3, <1>4, Appended
  <2>7. Aligned'  BY <2>2, <2>5, <2>6 DEF Aligned, InWrite
  <2>8. TxTypes' /\ OneWriter'
    BY <2>1, <2>2, <2>3, <2>5, <1>2, <1>1 DEF TxTypes, OneWriter, InWrite
  <2> QED  BY <2>2, <2>7, <2>8
<1>7. CASE call[t].at = "postC"
  <2>1. Return(t) /\ txPost' = [txPost EXCEPT !["C"] = Append(@, Rec(t))]
        /\ writeSem' = None /\ UNCHANGED txFree
    BY <1>7 DEF Post, Posted, Rec, UpWrite
  <2>2. CallOK' /\ call'[t].at = "idle" /\ \A u \in Threads \ {t} : call'[u] = call[u]
    BY <2>1, Returns
  <2>3. a' = a /\ b' = b /\ c' = Append(c, Rec(t)) /\ txPost' \in [Posts -> Seq(Recs)]
    BY <2>1, <1>3, <1>4, Appended DEF TxTypes, Posts
  <2>4. /\ Len(a) = Len(b) /\ Len(b) = Len(c) + 1
        /\ a[Len(a)] = Rec(t) /\ b[Len(b)] = Rec(t)
        /\ \A i \in 1 .. Len(c) : a[i] = b[i] /\ b[i] = c[i]
    BY <1>7 DEF Aligned
  <2>5. \A u \in Threads : ~InWrite(u)'  BY <1>2, <2>2 DEF InWrite
  <2>6. /\ Len(a') = Len(b') /\ Len(b') = Len(c')
        /\ \A i \in 1 .. Len(c') : a'[i] = b'[i] /\ b'[i] = c'[i]
    BY <2>3, <2>4, <1>3, <1>4, Appended
  <2>7. Aligned'  BY <2>5, <2>6 DEF Aligned, InWrite
  <2>8. TxTypes' /\ OneWriter'
    BY <2>1, <2>2, <2>3, <2>5 DEF TxTypes, OneWriter, InWrite
  <2> QED  BY <2>2, <2>7, <2>8
<1> QED  BY <1>1, <1>5, <1>6, <1>7

(* The firmware takes one word off each.                                   *)
LEMMA Taken1 ==
  ASSUME NEW s \in Seq(Recs), s # <<>>
  PROVE  /\ Tail(s) \in Seq(Recs) /\ Len(Tail(s)) = Len(s) - 1 /\ Len(s) \in Nat /\ Len(s) > 0
         /\ \A i \in 1 .. Len(s) - 1 : Tail(s)[i] = s[i + 1]
         /\ Head(s) \in Recs
OBVIOUS

LEMMA SendStep == ASSUME TxInv, HwSend PROVE TxInv'
<1> USE DEF TxInv
<1> DEFINE a == txPost["A"]  b == txPost["B"]  c == txPost["C"]
<1>1. a \in Seq(Recs) /\ b \in Seq(Recs) /\ c \in Seq(Recs) /\ DOMAIN txPost = Posts
  BY DEF TxTypes, Posts
<1>2. a # <<>> /\ b # <<>> /\ c # <<>> /\ UNCHANGED <<call, writeSem>>
      /\ txPost' = [f \in Posts |-> Tail(txPost[f])]
  BY <1>1 DEF HwSend, Posts
<1>3. a' = Tail(a) /\ b' = Tail(b) /\ c' = Tail(c) /\ txPost' \in [Posts -> Seq(Recs)]
  BY <1>1, <1>2, Taken1 DEF Posts
<1>a. /\ Len(a') = Len(a) - 1 /\ Len(a) \in Nat /\ Len(a) > 0
      /\ \A i \in 1 .. Len(a) - 1 : a'[i] = a[i + 1]
  BY <1>1, <1>2, <1>3, Taken1
<1>b. /\ Len(b') = Len(b) - 1 /\ Len(b) \in Nat /\ Len(b) > 0
      /\ \A i \in 1 .. Len(b) - 1 : b'[i] = b[i + 1]
  BY <1>1, <1>2, <1>3, Taken1
<1>c. /\ Len(c') = Len(c) - 1 /\ Len(c) \in Nat /\ Len(c) > 0
      /\ \A i \in 1 .. Len(c) - 1 : c'[i] = c[i + 1]
  BY <1>1, <1>2, <1>3, Taken1
<1>4. Head(a).buf \in Handles /\ None \in Handles /\ txFree \in Seq(Handles)
  BY <1>1, <1>2, Taken1 DEF Recs, Handles, TxTypes
<1>d. txFree' \in Seq(Handles)
  <2>1. txFree' = Append(txFree, Head(a).buf) \/ txFree' = Append(txFree, None)
    BY DEF HwSend
  <2> HIDE DEF a
  <2> QED  BY <2>1, <1>4
<1>5. CallOK' /\ TxTypes' /\ OneWriter'
  BY <1>2, <1>3, <1>d DEF CallOK, TxTypes, OneWriter, InWrite
<1>6. \A u \in Threads : Rec(u)' = Rec(u)  BY <1>2 DEF Rec
<1>7. \A i \in 1 .. Len(c') : a'[i] = b'[i] /\ b'[i] = c'[i]
  <2> SUFFICES ASSUME NEW i \in 1 .. Len(c') PROVE a'[i] = b'[i] /\ b'[i] = c'[i]  OBVIOUS
  <2>1. Len(c') = Len(c) - 1 /\ i + 1 \in 1 .. Len(c) /\ i \in 1 .. Len(c) - 1
    BY <1>c
  <2>2. Len(c) <= Len(a) /\ Len(c) <= Len(b)
    BY <1>a, <1>b, <1>c DEF Aligned
  <2>3. i \in 1 .. Len(a) - 1 /\ i \in 1 .. Len(b) - 1
    BY <2>1, <2>2, <1>a, <1>b, <1>c
  <2>4. a[i + 1] = b[i + 1] /\ b[i + 1] = c[i + 1]  BY <2>1 DEF Aligned
  <2> QED  BY <2>1, <2>3, <2>4, <1>a, <1>b, <1>c
<1>8. ASSUME NEW u \in Threads, call[u].at = "postB"
      PROVE  Len(a') = Len(b') + 1 /\ Len(b') = Len(c') /\ a'[Len(a')] = Rec(u)'
  <2>1. Len(a) = Len(b) + 1 /\ Len(b) = Len(c) /\ a[Len(a)] = Rec(u)  BY <1>8 DEF Aligned
  <2> QED  BY <2>1, <1>a, <1>b, <1>c, <1>6
<1>9. ASSUME NEW u \in Threads, call[u].at = "postC"
      PROVE  Len(a') = Len(b') /\ Len(b') = Len(c') + 1 /\ a'[Len(a')] = Rec(u)'
             /\ b'[Len(b')] = Rec(u)'
  <2>1. Len(a) = Len(b) /\ Len(b) = Len(c) + 1 /\ a[Len(a)] = Rec(u) /\ b[Len(b)] = Rec(u)
    BY <1>9 DEF Aligned
  <2>2. Len(a) - 1 \in 1 .. Len(a) - 1 /\ Len(b) - 1 \in 1 .. Len(b) - 1
    BY <2>1, <1>a, <1>b, <1>c
  <2>3. a'[Len(a')] = a[Len(a)] /\ b'[Len(b')] = b[Len(b)]
    <3> HIDE DEF a, b, c
    <3>1. a'[Len(a')] = a[Len(a)]  BY <2>2, <1>a
    <3>2. b'[Len(b')] = b[Len(b)]  BY <2>2, <1>b
    <3> QED  BY <3>1, <3>2
  <2>4. Len(a') = Len(b') /\ Len(b') = Len(c') + 1  BY <2>1, <1>a, <1>b, <1>c
  <2> QED  BY <2>1, <2>3, <2>4, <1>6
<1>10. (\A u \in Threads : call[u].at \notin {"postB", "postC"}) =>
         Len(a') = Len(b') /\ Len(b') = Len(c')
  BY <1>a, <1>b, <1>c DEF Aligned
<1>11. Aligned'  BY <1>2, <1>7, <1>8, <1>9, <1>10 DEF Aligned
<1> QED  BY <1>5, <1>11

-----------------------------------------------------------------------------
(* A finite set has an order.                                              *)
LEMMA Ordered ==
  ASSUME NEW S, IsFiniteSet(S)
  PROVE  IndexOrder(S) \in Seq(S) /\ IndexOrder(S) \in Orders(S)
<1>1. Cardinality(S) \in Nat /\ ExistsBijection(1 .. Cardinality(S), S)  BY FS_CardinalityType
<1>2. PICK q \in Bijection(1 .. Cardinality(S), S) : TRUE  BY <1>1 DEF ExistsBijection
<1>3. q \in Orders(S)
  BY <1>2 DEF Bijection, Injection, Surjection, IsInjective, Orders
<1>4. IndexOrder(S) \in Orders(S)  BY <1>3 DEF IndexOrder
<1> QED  BY <1>1, <1>4 DEF Orders

LEMMA InitTx == Init => TxInv
<1> SUFFICES ASSUME Init PROVE TxInv  OBVIOUS
<1>1. CallOK /\ \A t \in Threads : call[t].at = "idle"  BY DEF Init, Idle, CallOK
<1>2. OneWriter  BY <1>1 DEF OneWriter, InWrite
<1>3. txPost["A"] = <<>> /\ txPost["B"] = <<>> /\ txPost["C"] = <<>>
      /\ txPost \in [Posts -> Seq(Recs)]
  BY DEF Init, Posts
<1>4. Aligned  BY <1>1, <1>3 DEF Aligned
<1>5. txFree \in Seq(Handles)  BY Ordered, DriverAssumption DEF Init, Handles
<1>6. TxTypes  BY <1>1, <1>3, <1>5 DEF TxTypes
<1> QED  BY <1>1, <1>2, <1>4, <1>6 DEF TxInv

LEMMA StepTx == TxInv /\ [Next]_vars => TxInv'
<1> SUFFICES ASSUME TxInv, [Next]_vars PROVE TxInv'  OBVIOUS
<1>1. CASE HwStart \/ HwWord \/ Open \/ Close \/ UNCHANGED vars
  BY <1>1, NoCallStep DEF HwStart, HwWord, Open, Close, vars
<1>2. CASE HwSend  BY <1>2, SendStep
<1>3. ASSUME NEW t \in Threads,
             \/ Step(t) \/ DownRead(t) \/ DownWrite(t) \/ Interrupted(t)
             \/ \E op \in Commands, b \in held \union {None} : Call(t, op, b)
      PROVE  TxInv'
  BY <1>3, ReadSteps, TakeSteps, PostSteps DEF Step
<1> QED  BY <1>1, <1>2, <1>3 DEF Next

(* The handle, the size and the control the firmware takes are of one      *)
(* write, whatever threads write at once.                                  *)
THEOREM DriverWritesWhole == Spec => []WritesWhole
<1>1. TxInv => WritesWhole
  <2> SUFFICES ASSUME TxInv PROVE WritesWhole  OBVIOUS
  <2>1. txPost["A"] \in Seq(Recs) /\ txPost["B"] \in Seq(Recs) /\ txPost["C"] \in Seq(Recs)
    BY DEF TxInv, TxTypes, Posts
  <2>2. Len(txPost["C"]) <= Len(txPost["A"])  BY <2>1 DEF TxInv, Aligned
  <2>3. /\ DOMAIN txPost["C"] = 1 .. Len(txPost["C"])
        /\ DOMAIN txPost["A"] = 1 .. Len(txPost["A"])
        /\ Len(txPost["C"]) \in Nat /\ Len(txPost["A"]) \in Nat
    BY <2>1
  <2> QED  BY <2>2, <2>3 DEF TxInv, Aligned, WritesWhole
<1> QED  BY InitTx, StepTx, <1>1, PTL DEF Spec

-----------------------------------------------------------------------------
(* Where a buffer is                                                       *)
(*                                                                         *)
(* In a queue q the elements of E are those that carry the buffer that is  *)
(* asked for: itself, the word with its handle, the words of its write.    *)
Meets(q, E) == \E i \in DOMAIN q : q[i] \in E

Once(q, E) == \A i, j \in DOMAIN q : q[i] \in E /\ q[j] \in E => i = j

LEMMA MeetsAppend ==
  ASSUME NEW S, NEW q \in Seq(S), NEW x \in S, NEW E
  PROVE  /\ Meets(Append(q, x), E) <=> Meets(q, E) \/ x \in E
         /\ Once(q, E) /\ (x \in E => ~Meets(q, E)) => Once(Append(q, x), E)
<1>1. /\ DOMAIN q = 1 .. Len(q) /\ DOMAIN Append(q, x) = 1 .. Len(q) + 1 /\ Len(q) \in Nat
      /\ \A i \in 1 .. Len(q) : Append(q, x)[i] = q[i]
      /\ Append(q, x)[Len(q) + 1] = x
  OBVIOUS
<1> DEFINE n == Len(q)  a == Append(q, x)
<1>2. \A i \in 1 .. n + 1 : i \in 1 .. n \/ i = n + 1
  BY <1>1
<1>3. 1 .. n \subseteq 1 .. n + 1 /\ n + 1 \in 1 .. n + 1
  BY <1>1
<1> HIDE DEF n, a
<1>4. Meets(a, E) <=> Meets(q, E) \/ x \in E
  BY <1>1, <1>2, <1>3 DEF Meets, n, a
<1>5. Once(q, E) /\ (x \in E => ~Meets(q, E)) => Once(a, E)
  BY <1>1, <1>2, <1>3 DEF Meets, Once, n, a
<1> QED  BY <1>4, <1>5 DEF a

LEMMA MeetsTail ==
  ASSUME NEW S, NEW q \in Seq(S), q # <<>>, NEW E, Once(q, E)
  PROVE  /\ Meets(Tail(q), E) <=> Meets(q, E) /\ Head(q) \notin E
         /\ Once(Tail(q), E) /\ (Head(q) \in E => Meets(q, E))
<1> DEFINE n == Len(q)  a == Tail(q)
<1>1. /\ n \in Nat \ {0} /\ DOMAIN q = 1 .. n /\ DOMAIN a = 1 .. n - 1 /\ Head(q) = q[1]
      /\ \A i \in 1 .. n - 1 : a[i] = q[i + 1]
  OBVIOUS
<1>2. /\ \A i \in 1 .. n - 1 : i + 1 \in 1 .. n /\ i + 1 # 1
      /\ \A i \in 1 .. n : i = 1 \/ (i - 1 \in 1 .. n - 1 /\ (i - 1) + 1 = i)
      /\ 1 \in 1 .. n /\ \A i, j \in 1 .. n - 1 : i + 1 = j + 1 => i = j
  BY <1>1
<1> HIDE DEF n, a
<1>3. Once(a, E)
  BY <1>1, <1>2 DEF Once
<1>4. Meets(a, E) => Meets(q, E) /\ Head(q) \notin E
  <2> SUFFICES ASSUME NEW i \in 1 .. n - 1, a[i] \in E PROVE Meets(q, E) /\ Head(q) \notin E
    BY <1>1 DEF Meets
  <2>1. i + 1 \in 1 .. n /\ 1 \in 1 .. n /\ i + 1 # 1 /\ q[i + 1] \in E
    BY <1>1, <1>2
  <2> QED  BY <2>1, <1>1 DEF Meets, Once
<1>5. Meets(q, E) /\ Head(q) \notin E => Meets(a, E)
  <2> SUFFICES ASSUME Head(q) \notin E, NEW i \in 1 .. n, q[i] \in E PROVE Meets(a, E)
    BY <1>1 DEF Meets
  <2>1. i - 1 \in 1 .. n - 1 /\ a[i - 1] = q[i]
    BY <1>1, <1>2
  <2> QED  BY <2>1, <1>1 DEF Meets
<1>6. Head(q) \in E => Meets(q, E)
  BY <1>1, <1>2 DEF Meets
<1> QED  BY <1>3, <1>4, <1>5, <1>6 DEF a

(* The order in which Close gives the buffers of a set back.               *)
LEMMA OrderOf ==
  ASSUME NEW T, IsFiniteSet(T), NEW o \in Orders(T)
  PROVE  /\ o \in Seq(T)
         /\ \A i, j \in DOMAIN o : o[i] = o[j] => i = j
         /\ \A b : b \in T <=> \E i \in DOMAIN o : o[i] = b
<1> DEFINE n == Cardinality(T)
<1>1. n \in Nat /\ IsFiniteSet(1 .. n) /\ Cardinality(1 .. n) = n
  BY FS_CardinalityType, FS_Interval
<1>2. o \in [1 .. n -> T] /\ \A i, j \in DOMAIN o : o[i] = o[j] => i = j
  BY DEF Orders
<1>3. o \in Injection(1 .. n, T)
  BY <1>2 DEF Injection, IsInjective
<1>4. o \in Surjection(1 .. n, T)
  <2> HIDE DEF n
  <2> QED  BY <1>1, <1>3, FS_Injection DEF n
<1>5. \A b \in T : \E i \in DOMAIN o : o[i] = b
  BY <1>2, <1>4 DEF Surjection
<1> QED  BY <1>1, <1>2, <1>5

LEMMA MeetsJoin ==
  ASSUME NEW S, NEW q \in Seq(S), NEW T \in SUBSET S, IsFiniteSet(T), NEW o \in Orders(T)
  PROVE  /\ q \o o \in Seq(S)
         /\ \A b : Meets(q \o o, {b}) <=> Meets(q, {b}) \/ b \in T
         /\ \A b : Once(q, {b}) /\ (b \in T => ~Meets(q, {b})) => Once(q \o o, {b})
<1> DEFINE n == Len(q)  m == Len(o)  a == q \o o
<1>1. /\ o \in Seq(T)
      /\ \A i, j \in DOMAIN o : o[i] = o[j] => i = j
      /\ \A b : b \in T <=> \E i \in DOMAIN o : o[i] = b
  BY OrderOf
<1>2. /\ n \in Nat /\ m \in Nat /\ DOMAIN q = 1 .. n /\ DOMAIN o = 1 .. m
      /\ DOMAIN a = 1 .. n + m /\ a \in Seq(S)
      /\ \A i \in 1 .. n : a[i] = q[i]
      /\ \A i \in 1 .. m : a[n + i] = o[i]
  BY <1>1
<1>3. /\ \A i \in 1 .. n + m : i \in 1 .. n \/ (i - n \in 1 .. m /\ n + (i - n) = i)
      /\ 1 .. n \subseteq 1 .. n + m
      /\ \A i \in 1 .. m : n + i \in 1 .. n + m
  BY <1>2
<1> HIDE DEF n, m, a
<1>4. ASSUME NEW b PROVE Meets(a, {b}) <=> Meets(q, {b}) \/ b \in T
  <2>1. Meets(a, {b}) => Meets(q, {b}) \/ \E i \in DOMAIN o : o[i] = b
    <3> SUFFICES ASSUME NEW i \in 1 .. n + m, a[i] = b
                 PROVE  Meets(q, {b}) \/ \E j \in DOMAIN o : o[j] = b
      BY <1>2 DEF Meets
    <3>1. CASE i \in 1 .. n  BY <3>1, <1>2 DEF Meets
    <3>2. CASE i - n \in 1 .. m /\ n + (i - n) = i
      <4>1. a[n + (i - n)] = o[i - n]  BY <3>2, <1>2
      <4> QED  BY <4>1, <3>2, <1>2
    <3> QED  BY <3>1, <3>2, <1>3
  <2>2. Meets(q, {b}) => Meets(a, {b})
    BY <1>2, <1>3 DEF Meets
  <2>3. (\E i \in DOMAIN o : o[i] = b) => Meets(a, {b})
    BY <1>2, <1>3 DEF Meets
  <2> QED  BY <2>1, <2>2, <2>3, <1>1
<1>5. ASSUME NEW b, Once(q, {b}), b \in T => ~Meets(q, {b}) PROVE Once(a, {b})
  <2> SUFFICES ASSUME NEW i \in 1 .. n + m, NEW j \in 1 .. n + m, a[i] = b, a[j] = b
               PROVE  i = j
    BY <1>2 DEF Once
  <2>1. CASE i \in 1 .. n /\ j \in 1 .. n
    BY <2>1, <1>2, <1>5 DEF Once
  <2>2. ASSUME NEW k \in 1 .. n + m, a[k] = b, k - n \in 1 .. m, n + (k - n) = k
        PROVE  o[k - n] = b /\ b \in T
    <3>1. a[n + (k - n)] = o[k - n]  BY <2>2, <1>2
    <3> QED  BY <3>1, <2>2, <1>1, <1>2
  <2>3. ASSUME NEW k \in 1 .. n, a[k] = b PROVE b \notin T
    BY <2>3, <1>2, <1>5 DEF Meets
  <2>4. CASE i - n \in 1 .. m /\ j - n \in 1 .. m /\ n + (i - n) = i /\ n + (j - n) = j
    <3>1. o[i - n] = o[j - n]  BY <2>2, <2>4
    <3>2. i - n = j - n  BY <3>1, <2>4, <1>1, <1>2
    <3> QED  BY <3>2, <2>4
  <2> QED  BY <2>1, <2>2, <2>3, <2>4, <1>3
<1> QED  BY <1>2, <1>4, <1>5 DEF a

(* What Cardinality makes of it.                                           *)
LEMMA OnceCount ==
  ASSUME NEW S, NEW q \in Seq(S), NEW E, Once(q, E)
  PROVE  Cardinality({i \in DOMAIN q : q[i] \in E}) = IF Meets(q, E) THEN 1 ELSE 0
<1> DEFINE I == {i \in DOMAIN q : q[i] \in E}
<1>1. CASE Meets(q, E)
  <2>1. PICK i \in I : TRUE  BY <1>1 DEF Meets
  <2>2. I = {i}  BY <2>1 DEF Once
  <2> QED  BY <2>2, <1>1, FS_Singleton
<1>2. CASE ~Meets(q, E)
  <2>1. I = {}  BY <1>2 DEF Meets
  <2> QED  BY <2>1, <1>2, FS_EmptySet
<1> QED  BY <1>1, <1>2

-----------------------------------------------------------------------------
(* The words of the frames                                                 *)

Kinds == {"handle", "size", "status"}

Words == [kind : Kinds, buf : Buffers, good : BOOLEAN]

Handle(b) == {w \in Words : w.kind = "handle" /\ w.buf = b}

Fillings == {f \in [buf : Buffers \union {None}, next : Kinds] :
               f.buf = None => f.next = "handle"}

(* A word follows another: the three of a frame in order, then a handle.   *)
NextKind(k) == CASE k = "handle" -> "size" [] k = "size" -> "status" [] OTHER -> "handle"

Follows(v, w) == w.kind = NextKind(v.kind) /\ (w.kind # "handle" => w.buf = v.buf)

(* The word that the firmware, in the state f, tells next.                 *)
Rest(f) == [kind |-> f.next, buf |-> f.buf]

(* The word that is read next.                                             *)
Front(q, f) == IF q # <<>> THEN Head(q) ELSE Rest(f)

InTurn(q, f) ==
  /\ \A i, j \in DOMAIN q : j = i + 1 => Follows(q[i], q[j])
  /\ q # <<>> => Follows(q[Len(q)], Rest(f))

LEMMA Spelled ==
  ASSUME NEW q \in Seq(Words), NEW f \in Fillings
  PROVE  /\ Front(q, f).kind \in Kinds /\ Rest(f).kind = f.next /\ Rest(f).buf = f.buf
         /\ q = <<>> => Front(q, f) = Rest(f)
         /\ q # <<>> => /\ Front(q, f) = Head(q) /\ Head(q) \in Words
                        /\ Tail(q) \in Seq(Words)
<1>1. q # <<>> => Head(q) \in Words /\ Tail(q) \in Seq(Words)
  OBVIOUS
<1>2. Rest(f).kind = f.next /\ Rest(f).buf = f.buf /\ f.next \in Kinds
  BY DEF Rest, Fillings
<1>3. \A w \in Words : w.kind \in Kinds
  BY DEF Words
<1> QED  BY <1>1, <1>2, <1>3 DEF Front

(* The word that is read after the first one follows it.                   *)
LEMMA TurnTail ==
  ASSUME NEW q \in Seq(Words), q # <<>>, NEW f \in Fillings, InTurn(q, f)
  PROVE  InTurn(Tail(q), f) /\ Follows(Head(q), Front(Tail(q), f))
<1> DEFINE n == Len(q)  a == Tail(q)
<1>0. /\ n \in Nat \ {0} /\ DOMAIN q = 1 .. n /\ DOMAIN a = 1 .. n - 1 /\ Len(a) = n - 1
      /\ Head(q) = q[1] /\ a \in Seq(Words)
      /\ \A i \in 1 .. n - 1 : a[i] = q[i + 1] /\ i + 1 \in 1 .. n
  OBVIOUS
<1>f. Follows(q[n], Rest(f))
  BY DEF InTurn
<1> SUFFICES InTurn(a, f) /\ Follows(q[1], Front(a, f))
  BY <1>0
<1> HIDE DEF n, a
<1>1. /\ n = 1 => a = <<>>
      /\ n # 1 => a # <<>> /\ Head(a) = a[1]
  BY <1>0
<1>2. \A i, j \in DOMAIN a : j = i + 1 => Follows(a[i], a[j])
  BY <1>0, <1>1 DEF InTurn
<1>3. a # <<>> => Follows(a[Len(a)], Rest(f))
  <2>1. n > 1 => a[n - 1] = q[n]
    BY <1>0, <1>1
  <2> QED  BY <1>0, <1>1, <1>f, <2>1
<1>4. CASE n = 1
  BY <1>0, <1>1, <1>2, <1>f, <1>4 DEF InTurn, Front
<1>5. CASE n > 1
  <2>1. a[1] = q[2] /\ 1 \in DOMAIN q /\ 2 \in DOMAIN q /\ 2 = 1 + 1
    BY <1>0, <1>1, <1>5
  <2>2. Follows(q[1], q[2])
    BY <2>1 DEF InTurn
  <2>3. Front(a, f) = q[2]
    BY <1>0, <1>1, <1>5, <2>1 DEF Front
  <2>4. InTurn(a, f)
    BY <1>2, <1>3 DEF InTurn
  <2> QED  BY <1>0, <2>2, <2>3, <2>4
<1> QED  BY <1>0, <1>4, <1>5

(* The firmware tells the next word.                                       *)
LEMMA TurnAppend ==
  ASSUME NEW q \in Seq(Words), NEW f \in Fillings, InTurn(q, f), f.buf # None,
         NEW w \in Words, w.kind = f.next, w.buf = f.buf,
         NEW g \in Fillings, Follows(w, Rest(g))
  PROVE  /\ InTurn(Append(q, w), g)
         /\ Front(Append(q, w), g).kind = Front(q, f).kind
         /\ Front(Append(q, w), g).buf = Front(q, f).buf
<1> DEFINE n == Len(q)  a == Append(q, w)
<1>1. /\ n \in Nat /\ DOMAIN q = 1 .. n /\ DOMAIN a = 1 .. n + 1 /\ Len(a) = n + 1
      /\ \A i \in 1 .. n : a[i] = q[i]
      /\ a[n + 1] = w /\ a # <<>> /\ Head(a) = a[1]
      /\ n = 0 => q = <<>>
      /\ n # 0 => q # <<>> /\ Head(q) = q[1]
  OBVIOUS
<1> HIDE DEF n, a
<1>2. ASSUME NEW i \in 1 .. n + 1, NEW j \in 1 .. n + 1, j = i + 1
      PROVE  Follows(a[i], a[j])
  <2>1. CASE j \in 1 .. n
    <3>1. i \in 1 .. n  BY <1>1, <1>2, <2>1
    <3> QED  BY <1>1, <1>2, <2>1, <3>1 DEF InTurn
  <2>2. CASE j = n + 1
    <3>1. i = n /\ n # 0 /\ i \in 1 .. n  BY <1>1, <1>2, <2>2
    <3>2. Follows(q[n], Rest(f))  BY <1>1, <3>1 DEF InTurn
    <3>3. Follows(q[n], w)  BY <3>2 DEF Follows, Rest
    <3> QED  BY <1>1, <2>2, <3>1, <3>3
  <2> QED  BY <1>1, <2>1, <2>2
<1>3. InTurn(a, g)
  BY <1>1, <1>2 DEF InTurn
<1>4. /\ Front(a, g).kind = Front(q, f).kind
      /\ Front(a, g).buf = Front(q, f).buf
  <2>1. CASE n = 0  BY <1>1, <2>1 DEF Front, Rest
  <2>2. CASE n # 0
    <3>1. a[1] = q[1]  BY <1>1, <2>2
    <3> QED  BY <1>1, <2>2, <3>1 DEF Front
  <2> QED  BY <2>1, <2>2
<1> QED  BY <1>3, <1>4 DEF a

(* While a frame is not told to the end, the last word is one of it.  So   *)
(* it is no longer its status that is read, unless the handle is behind.   *)
LEMMA LastTold ==
  ASSUME NEW q \in Seq(Words), q # <<>>, NEW f \in Fillings, InTurn(q, f),
         Head(q).kind = "status", f.next # "handle"
  PROVE  Meets(q, Handle(f.buf))
<1> DEFINE n == Len(q)
<1>1. /\ n \in Nat \ {0} /\ DOMAIN q = 1 .. n /\ Head(q) = q[1]
      /\ \A i \in 1 .. n : q[i] \in Words
  OBVIOUS
<1>2. Follows(q[n], Rest(f)) /\ q[n].kind \in Kinds /\ f.next \in Kinds
  BY <1>1 DEF InTurn, Words, Fillings
<1>3. q[n].buf = f.buf /\ f.next = NextKind(q[n].kind)
  BY <1>2 DEF Follows, Rest
<1>4. q[n].kind \in {"handle", "size"}
  BY <1>2, <1>3 DEF NextKind, Kinds
<1>5. CASE q[n].kind = "handle"
  BY <1>1, <1>3, <1>5 DEF Meets, Handle
<1>6. CASE q[n].kind = "size"
  <2>1. n # 1 /\ n - 1 \in 1 .. n /\ n \in 1 .. n /\ n = (n - 1) + 1
    BY <1>1, <1>6
  <2>2. Follows(q[n - 1], q[n]) /\ q[n - 1] \in Words
    BY <1>1, <2>1 DEF InTurn
  <2>3. q[n - 1].buf = f.buf /\ q[n - 1].kind = "handle"
    BY <1>3, <1>6, <2>2 DEF Follows, NextKind, Words, Kinds
  <2> QED  BY <1>1, <2>1, <2>2, <2>3 DEF Meets, Handle
<1> QED  BY <1>4, <1>5, <1>6

-----------------------------------------------------------------------------
(* The receive buffers                                                     *)

(* The parts are disjoint and make up all buffers.                         *)
Apart(F, G, P, C, U, D) ==
  /\ F \union G \union P \union C \union U \union D = Buffers
  /\ F \intersect (G \union P \union C \union U \union D) = {}
  /\ G \intersect (P \union C \union U \union D) = {}
  /\ P \intersect (C \union U \union D) = {}
  /\ C \intersect (U \union D) = {}
  /\ U \intersect D = {}

(* The buffers in the FIFO to the firmware, in its hands, those of which   *)
(* the handle is in the FIFO from it, and those in the hands of a read.    *)
FreeBufs(q) == {b \in Buffers : Meets(q, {b})}
FreeOnce(q) == \A b \in Buffers : Once(q, {b})

Fresh(f) == {b \in Buffers : f.buf = b /\ f.next = "handle"}

ToldBufs(q) == {b \in Buffers : Meets(q, Handle(b))}
ToldOnce(q) == \A b \in Buffers : Once(q, Handle(b))

InFrame(t) == call[t].at \in {"size", "status", "found"}

ReadBufs == {b \in Buffers \ dropped : \E t \in Threads : InFrame(t) /\ call[t].buf = b}

Owned ==
  /\ Apart(FreeBufs(rxFree), Fresh(filling), ToldBufs(rxPend), ReadBufs, userHas, dropped)
  /\ FreeOnce(rxFree) /\ ToldOnce(rxPend)

RxTypes ==
  /\ rxFree \in Seq(Buffers) /\ rxPend \in Seq(Words) /\ filling \in Fillings
  /\ held \subseteq userHas
  /\ \A t \in Threads : InFrame(t) => call[t].buf \in Buffers

(* Only the holder of the semaphore is in a read, or gives a buffer back.  *)
InRead(t) == call[t].at \in {"handle", "wait", "size", "status", "found", "post", "up"}

OneReader == \A t \in Threads : InRead(t) => readSem = t

(* What a read that is at the place k with the buffer b knows of the word  *)
(* w that comes next: it belongs to the frame it reads, or to one whose    *)
(* handle was thrown away.                                                 *)
Knows(k, b, D, w, f) ==
  /\ w.kind # "handle" => w.buf \in D \/ (k = w.kind /\ b = w.buf)
  /\ k = "size" => IF b \in D THEN w.kind # "size" ELSE w.kind = "size" /\ w.buf = b
  /\ k = "status" => w.kind = "status" /\ w.buf = b /\ b \notin D
  /\ k = "found" => b \notin D /\ f.buf # b

FrontKnown ==
  LET w == Front(rxPend, filling) IN
    /\ w.kind # "handle" =>
         w.buf \in dropped \/ \E t \in Threads : call[t].at = w.kind /\ call[t].buf = w.buf
    /\ \A t \in Threads :
         LET b == call[t].buf IN
           /\ call[t].at = "size" =>
                IF b \in dropped THEN w.kind # "size" ELSE w.kind = "size" /\ w.buf = b
           /\ call[t].at = "status" => w.kind = "status" /\ w.buf = b /\ b \notin dropped
           /\ call[t].at = "found" => b \notin dropped /\ filling.buf # b

(* The firmware is not amid a frame in a buffer that it could be given.    *)
FillingBusy == filling.buf \notin FreeBufs(rxFree) \union userHas

(* A buffer that is being posted is marked, and posted once.               *)
Posting(t) == call[t].at = "post" \/ (call[t].at = "down" /\ call[t].op = "post")

PostOwned ==
  /\ \A t \in Threads : Posting(t) => call[t].buf \in userHas \ held
  /\ \A t, u \in Threads : Posting(t) /\ Posting(u) /\ call[t].buf = call[u].buf => t = u

FramesInv == RxTypes /\ InTurn(rxPend, filling) /\ FrontKnown /\ Owned /\ FillingBusy

RxInv == FramesInv /\ OneReader /\ PostOwned

-----------------------------------------------------------------------------
(* How the parts change.                                                   *)

LEMMA FreeAppend ==
  ASSUME NEW q \in Seq(Buffers), FreeOnce(q), NEW x \in Buffers, x \notin FreeBufs(q)
  PROVE  FreeBufs(Append(q, x)) = FreeBufs(q) \union {x} /\ FreeOnce(Append(q, x))
<1>1. \A b \in Buffers : Meets(Append(q, x), {b}) <=> Meets(q, {b}) \/ x \in {b}
  BY MeetsAppend
<1>2. \A b \in Buffers : Once(q, {b}) /\ (x \in {b} => ~Meets(q, {b})) => Once(Append(q, x), {b})
  BY MeetsAppend
<1> QED  BY <1>1, <1>2 DEF FreeBufs, FreeOnce

LEMMA FreeTail ==
  ASSUME NEW q \in Seq(Buffers), q # <<>>, FreeOnce(q)
  PROVE  /\ FreeBufs(Tail(q)) = FreeBufs(q) \ {Head(q)} /\ FreeOnce(Tail(q))
         /\ Head(q) \in FreeBufs(q) /\ Tail(q) \in Seq(Buffers)
<1>1. \A b \in Buffers : Once(q, {b})
  BY DEF FreeOnce
<1>2. \A b \in Buffers : /\ Meets(Tail(q), {b}) <=> Meets(q, {b}) /\ Head(q) \notin {b}
                         /\ Once(Tail(q), {b}) /\ (Head(q) \in {b} => Meets(q, {b}))
  BY <1>1, MeetsTail
<1>3. Head(q) \in Buffers /\ Tail(q) \in Seq(Buffers)
  OBVIOUS
<1> QED  BY <1>2, <1>3 DEF FreeBufs, FreeOnce

(* LostWith(w) holds the buffer whose handle w is.                         *)
LEMMA Carries ==
  ASSUME NEW w \in Words
  PROVE  \A b \in Buffers : w \in Handle(b) <=> b \in LostWith(w)
BY DEF Handle, LostWith

LEMMA ToldAppend ==
  ASSUME NEW q \in Seq(Words), ToldOnce(q), NEW w \in Words,
         LostWith(w) \intersect ToldBufs(q) = {}
  PROVE  ToldBufs(Append(q, w)) = ToldBufs(q) \union LostWith(w) /\ ToldOnce(Append(q, w))
<1>1. \A b \in Buffers : w \in Handle(b) <=> b \in LostWith(w)
  BY Carries
<1>2. \A b \in Buffers : Meets(Append(q, w), Handle(b)) <=> Meets(q, Handle(b)) \/ w \in Handle(b)
  BY MeetsAppend
<1>3. \A b \in Buffers : Once(q, Handle(b)) /\ (w \in Handle(b) => ~Meets(q, Handle(b)))
                         => Once(Append(q, w), Handle(b))
  BY MeetsAppend
<1>4. LostWith(w) \subseteq Buffers
  BY DEF LostWith, Words
<1> QED  BY <1>1, <1>2, <1>3, <1>4 DEF ToldBufs, ToldOnce

LEMMA ToldTail ==
  ASSUME NEW q \in Seq(Words), q # <<>>, ToldOnce(q)
  PROVE  /\ ToldBufs(Tail(q)) = ToldBufs(q) \ LostWith(Head(q)) /\ ToldOnce(Tail(q))
         /\ LostWith(Head(q)) \subseteq ToldBufs(q)
<1>1. \A b \in Buffers : Once(q, Handle(b))
  BY DEF ToldOnce
<1>2. \A b \in Buffers :
        /\ Meets(Tail(q), Handle(b)) <=> Meets(q, Handle(b)) /\ Head(q) \notin Handle(b)
        /\ Once(Tail(q), Handle(b)) /\ (Head(q) \in Handle(b) => Meets(q, Handle(b)))
  BY <1>1, MeetsTail
<1>3. Head(q) \in Words
  OBVIOUS
<1>4. \A b \in Buffers : Head(q) \in Handle(b) <=> b \in LostWith(Head(q))
  BY <1>3, Carries
<1>5. LostWith(Head(q)) \subseteq Buffers
  BY <1>3 DEF LostWith, Words
<1> QED  BY <1>2, <1>4, <1>5 DEF ToldBufs, ToldOnce

(* The thread that reads, and what it knows, ...                           *)
LEMMA Reader ==
  ASSUME OneReader, FrontKnown, RxTypes, NEW t \in Threads, InRead(t)
  PROVE  /\ readSem = t /\ \A u \in Threads \ {t} : ~InRead(u) /\ ~InFrame(u)
         /\ Knows(call[t].at, call[t].buf, dropped, Front(rxPend, filling), filling)
         /\ ReadBufs = IF InFrame(t) THEN {call[t].buf} \ dropped ELSE {}
<1>1. readSem = t /\ \A u \in Threads \ {t} : ~InRead(u) /\ ~InFrame(u)
  BY DEF OneReader, InRead, InFrame
<1>2. \A u \in Threads : call[u].at \in {"size", "status"} => u = t
  BY <1>1 DEF InFrame
<1>3. Front(rxPend, filling).kind \in {"handle", "size", "status"}
  BY Spelled DEF RxTypes, Kinds
<1>4. Knows(call[t].at, call[t].buf, dropped, Front(rxPend, filling), filling)
  BY <1>2, <1>3 DEF FrontKnown, Knows
<1>5. ReadBufs = IF InFrame(t) THEN {call[t].buf} \ dropped ELSE {}
  BY <1>1 DEF ReadBufs, RxTypes
<1> QED  BY <1>1, <1>4, <1>5

(* ... and after its step.                                                 *)
LEMMA ReaderAfter ==
  ASSUME NEW t \in Threads, \A u \in Threads \ {t} : ~InFrame(u) /\ call'[u] = call[u],
         InFrame(t)' => call'[t].buf \in Buffers,
         Knows(call'[t].at, call'[t].buf, dropped', Front(rxPend', filling'), filling')
  PROVE  /\ FrontKnown'
         /\ \A u \in Threads : InFrame(u)' => call'[u].buf \in Buffers
         /\ ReadBufs' = IF InFrame(t)' THEN {call'[t].buf} \ dropped' ELSE {}
<1>1. \A u \in Threads \ {t} : ~InFrame(u)' /\ call'[u].at \notin {"size", "status", "found"}
  BY DEF InFrame
<1>2. FrontKnown'
  BY <1>1 DEF FrontKnown, Knows
<1>3. ReadBufs' = IF InFrame(t)' THEN {call'[t].buf} \ dropped' ELSE {}
  BY <1>1 DEF ReadBufs
<1> QED  BY <1>1, <1>2, <1>3

(* A step that neither reads a word nor ends a read.                       *)
LEMMA ReadsOn ==
  ASSUME FramesInv, UNCHANGED <<filling, rxPend, dropped>>,
         \A u \in Threads : call'[u] = call[u] \/ (~InFrame(u) /\ ~InFrame(u)')
  PROVE  /\ FrontKnown' /\ ReadBufs' = ReadBufs
         /\ \A u \in Threads : InFrame(u)' => call'[u].buf \in Buffers
<1>1. \A u \in Threads : call'[u] = call[u] \/ (/\ call[u].at \notin {"size", "status", "found"}
                                                /\ call'[u].at \notin {"size", "status", "found"})
  BY DEF InFrame
<1>2. \A u \in Threads : InFrame(u)' => call'[u] = call[u] /\ InFrame(u)
  BY DEF InFrame
<1>3. \A u \in Threads : InFrame(u) => call'[u] = call[u] /\ InFrame(u)'
  BY DEF InFrame
<1>4. ReadBufs' = ReadBufs
  BY <1>2, <1>3 DEF ReadBufs
<1>5. \A u \in Threads : InFrame(u)' => call'[u].buf \in Buffers
  BY <1>2 DEF FramesInv, RxTypes
<1>6. Front(rxPend, filling).kind \in {"handle", "size", "status"}
  BY Spelled DEF FramesInv, RxTypes, Kinds
<1>7. FrontKnown'
  BY <1>1, <1>6 DEF FrontKnown, FramesInv
<1> QED  BY <1>4, <1>5, <1>7

-----------------------------------------------------------------------------
(* The firmware receives                                                   *)

LEMMA StartStep == ASSUME FramesInv, HwStart PROVE FramesInv'
<1> DEFINE x == Head(rxFree)
<1> USE DEF FramesInv
<1>1. /\ filling.buf = None /\ filling.next = "handle" /\ rxFree # <<>>
      /\ filling' = [buf |-> x, next |-> "handle"] /\ rxFree' = Tail(rxFree)
      /\ UNCHANGED <<call, rxPend, userHas, held, dropped>>
  BY DEF HwStart, RxTypes, Fillings
<1>2. /\ FreeBufs(rxFree') = FreeBufs(rxFree) \ {x} /\ FreeOnce(rxFree')
      /\ x \in FreeBufs(rxFree) /\ rxFree' \in Seq(Buffers)
  BY <1>1, FreeTail DEF RxTypes, Owned
<1>3. x \in Buffers /\ x # None
  BY <1>2, DriverAssumption DEF FreeBufs
<1> HIDE DEF x
<1>4. filling' \in Fillings /\ filling'.buf = x /\ filling'.next = "handle"
  BY <1>1, <1>3 DEF Fillings, Kinds
<1>5. Fresh(filling) = {} /\ Fresh(filling') = {x}
  BY <1>1, <1>3, <1>4, DriverAssumption DEF Fresh
<1>6. ReadBufs' = ReadBufs
  BY <1>1 DEF ReadBufs, InFrame
<1>7. Owned'
  BY <1>1, <1>2, <1>5, <1>6 DEF Owned, Apart
<1>8. InTurn(rxPend, filling')
  BY <1>1, <1>4 DEF InTurn, Follows, Rest
<1>9. /\ rxPend # <<>> => Front(rxPend, filling') = Front(rxPend, filling)
      /\ rxPend = <<>> => Front(rxPend, filling).kind = "handle"
                          /\ Front(rxPend, filling').kind = "handle"
  BY <1>1, <1>4 DEF Front, Rest
<1>10. \A t \in Threads : call[t].at = "found" => call[t].buf # x
  <2>1. \A t \in Threads : call[t].at = "found" => call[t].buf \in ReadBufs
    BY DEF FrontKnown, ReadBufs, InFrame, RxTypes
  <2> QED  BY <2>1, <1>2 DEF Owned, Apart
<1>11. FrontKnown'
  BY <1>1, <1>4, <1>9, <1>10 DEF FrontKnown
<1>12. RxTypes'
  BY <1>1, <1>2, <1>4 DEF RxTypes, InFrame
<1>13. FillingBusy'
  BY <1>1, <1>2, <1>4 DEF FillingBusy, Owned, Apart
<1> QED  BY <1>1, <1>7, <1>8, <1>11, <1>12, <1>13

LEMMA WordStep == ASSUME FramesInv, HwWord PROVE FramesInv'
<1> USE DEF FramesInv
<1>1. PICK good \in BOOLEAN :
        rxPend' = Append(rxPend, [kind |-> filling.next, buf |-> filling.buf, good |-> good])
  BY DEF HwWord
<1> DEFINE w == [kind |-> filling.next, buf |-> filling.buf, good |-> good]
<1>2. /\ filling.buf # None /\ filling.buf \in Buffers /\ filling.next \in Kinds
      /\ UNCHANGED <<call, rxFree, userHas, held, dropped>>
  BY DEF HwWord, RxTypes, Fillings
<1>3. w \in Words /\ w.kind = filling.next /\ w.buf = filling.buf
  BY <1>2 DEF Words
<1>4. rxPend' = Append(rxPend, w) /\ rxPend' \in Seq(Words)
  BY <1>1, <1>3 DEF RxTypes
<1>5. /\ filling' \in Fillings /\ filling'.next = NextKind(filling.next)
      /\ filling.next \in {"handle", "size"} => filling'.buf = filling.buf
      /\ filling.next = "status" => filling'.buf = None
  <2>1. filling' = CASE filling.next = "handle" -> [filling EXCEPT !.next = "size"]
                     [] filling.next = "size"   -> [filling EXCEPT !.next = "status"]
                     [] OTHER                   -> [buf |-> None, next |-> "handle"]
    BY DEF HwWord
  <2>2. CASE filling.next = "handle"  BY <1>2, <2>1, <2>2 DEF RxTypes, Fillings, Kinds, NextKind
  <2>3. CASE filling.next = "size"  BY <1>2, <2>1, <2>3 DEF RxTypes, Fillings, Kinds, NextKind
  <2>4. CASE filling.next = "status"  BY <1>2, <2>1, <2>4 DEF RxTypes, Fillings, Kinds, NextKind
  <2> QED  BY <1>2, <2>2, <2>3, <2>4 DEF Kinds
<1> HIDE DEF w
<1>6. Follows(w, Rest(filling'))
  BY <1>2, <1>3, <1>5 DEF Follows, Rest, NextKind, Kinds
<1>7. /\ InTurn(rxPend', filling')
      /\ Front(rxPend', filling').kind = Front(rxPend, filling).kind
      /\ Front(rxPend', filling').buf = Front(rxPend, filling).buf
  BY <1>2, <1>3, <1>4, <1>5, <1>6, TurnAppend DEF RxTypes
<1>8. FrontKnown'
  <2>1. \A t \in Threads : call[t].at = "found" => call[t].buf # filling'.buf
    BY <1>2, <1>5, DriverAssumption DEF FrontKnown, RxTypes, InFrame, Kinds
  <2> QED  BY <1>2, <1>7, <2>1 DEF FrontKnown
<1>9. ReadBufs' = ReadBufs
  BY <1>2 DEF ReadBufs, InFrame
<1>10. LostWith(w) = Fresh(filling) /\ Fresh(filling') = {}
  BY <1>2, <1>3, <1>5, DriverAssumption DEF LostWith, Fresh, NextKind, Kinds
<1>11. ToldBufs(rxPend') = ToldBufs(rxPend) \union Fresh(filling) /\ ToldOnce(rxPend')
  BY <1>3, <1>4, <1>10, ToldAppend DEF RxTypes, Owned, Apart
<1>12. Owned'
  BY <1>2, <1>9, <1>10, <1>11 DEF Owned, Apart
<1>13. FillingBusy'
  BY <1>2, <1>5, DriverAssumption DEF FillingBusy, FreeBufs, Owned, Apart, Kinds
<1>14. RxTypes'
  BY <1>2, <1>4, <1>5 DEF RxTypes, InFrame
<1> QED  BY <1>7, <1>8, <1>12, <1>13, <1>14

-----------------------------------------------------------------------------
(* The steps that read a word                                              *)

(* A word is read by t and what it carries goes where the reader, or what  *)
(* is lost, has it; nothing else moves.                                    *)
LEMMA WordRead ==
  ASSUME FramesInv, OneReader, NEW t \in Threads, InRead(t), rxPend # <<>>,
         rxPend' = Tail(rxPend), UNCHANGED <<filling, rxFree, userHas, held>>,
         \A u \in Threads \ {t} : call'[u] = call[u],
         InFrame(t)' => call'[t].buf \in Buffers,
         Knows(call'[t].at, call'[t].buf, dropped', Front(rxPend', filling'), filling'),
         LET before == (IF InFrame(t) THEN {call[t].buf} \ dropped ELSE {}) \union dropped
             after  == IF InFrame(t)' THEN {call'[t].buf} \ dropped' ELSE {}
         IN  before \union LostWith(Head(rxPend)) = after \union dropped'
  PROVE  FramesInv'
<1> USE DEF FramesInv
<1>1. \A u \in Threads \ {t} : ~InFrame(u)
  BY Reader
<1>2. ReadBufs = IF InFrame(t) THEN {call[t].buf} \ dropped ELSE {}
  BY Reader
<1>3. /\ FrontKnown' /\ ReadBufs' = IF InFrame(t)' THEN {call'[t].buf} \ dropped' ELSE {}
      /\ \A u \in Threads : InFrame(u)' => call'[u].buf \in Buffers
  BY <1>1, ReaderAfter
<1>4. InTurn(rxPend', filling')
  BY TurnTail DEF RxTypes
<1>5. /\ ToldBufs(rxPend') = ToldBufs(rxPend) \ LostWith(Head(rxPend)) /\ ToldOnce(rxPend')
      /\ LostWith(Head(rxPend)) \subseteq ToldBufs(rxPend)
  BY ToldTail DEF RxTypes, Owned
<1>6. ReadBufs \union dropped \union LostWith(Head(rxPend)) = ReadBufs' \union dropped'
  BY <1>2, <1>3
<1>7. ReadBufs' \intersect dropped' = {}
  BY DEF ReadBufs
<1>8. Owned'
  BY <1>5, <1>6, <1>7 DEF Owned, Apart
<1>9. RxTypes'
  <2>1. rxPend' \in Seq(Words)  BY DEF RxTypes
  <2> QED  BY <1>3, <2>1 DEF RxTypes
<1>10. FillingBusy'
  BY DEF FillingBusy
<1> QED  BY <1>3, <1>4, <1>8, <1>9, <1>10

(* The word that is read, the next one, and what was known of it.          *)
LEMMA WordFacts ==
  ASSUME FramesInv, OneReader, NEW t \in Threads, InRead(t), rxPend # <<>>
  PROVE  LET w == Head(rxPend)
             n == Front(Tail(rxPend), filling)
         IN  /\ w \in Words /\ Follows(w, n)
             /\ Knows(call[t].at, call[t].buf, dropped, w, filling)
             /\ LostWith(w) \intersect dropped = {}
<1> USE DEF FramesInv
<1>1. Head(rxPend) \in Words /\ Front(rxPend, filling) = Head(rxPend)
  BY Spelled DEF RxTypes
<1>2. Follows(Head(rxPend), Front(Tail(rxPend), filling))
  BY TurnTail DEF RxTypes
<1>3. Knows(call[t].at, call[t].buf, dropped, Head(rxPend), filling)
  BY <1>1, Reader
<1>4. LostWith(Head(rxPend)) \subseteq ToldBufs(rxPend)
  BY ToldTail DEF RxTypes, Owned
<1> QED  BY <1>1, <1>2, <1>3, <1>4 DEF Owned, Apart

LEMMA HandleRead ==
  ASSUME FramesInv, OneReader, CallOK, NEW t \in Threads, PopHandle(t), rxPend # <<>>
  PROVE  FramesInv'
<1> DEFINE w == Head(rxPend)
           n == Front(Tail(rxPend), filling)
<1>1. /\ call[t].at = "handle" /\ InRead(t) /\ ~InFrame(t)
      /\ call'[t].at = "size" /\ call'[t].buf = w.buf
      /\ \A u \in Threads \ {t} : call'[u] = call[u]
      /\ rxPend' = Tail(rxPend) /\ UNCHANGED <<filling, rxFree, userHas, held, dropped>>
  BY Pops DEF InRead, InFrame
<1>2. /\ w \in Words /\ Follows(w, n)
      /\ Knows("handle", call[t].buf, dropped, w, filling)
      /\ LostWith(w) \intersect dropped = {}
  BY <1>1, WordFacts
<1> HIDE DEF w, n
<1>3. w.buf \in Buffers /\ w.kind \in Kinds /\ (w.kind # "handle" => w.buf \in dropped)
  BY <1>2 DEF Knows, Words
<1>4. Knows("size", w.buf, dropped, n, filling)
  <2>1. CASE w.kind = "handle"
    BY <1>2, <1>3, <2>1 DEF Knows, Follows, NextKind, LostWith
  <2>2. CASE w.kind # "handle"
    BY <1>2, <1>3, <2>2 DEF Knows, Follows, NextKind, Kinds
  <2> QED  BY <2>1, <2>2
<1>5. dropped \union LostWith(w) = ({w.buf} \ dropped) \union dropped
  BY <1>3 DEF LostWith
<1>6. InFrame(t)'
  BY <1>1 DEF InFrame
<1>7. Front(rxPend', filling') = n
  BY <1>1 DEF n
<1>8. /\ Knows(call'[t].at, call'[t].buf, dropped', Front(rxPend', filling'), filling')
      /\ (IF InFrame(t) THEN {call[t].buf} \ dropped ELSE {}) \union dropped
           \union LostWith(Head(rxPend))
         = (IF InFrame(t)' THEN {call'[t].buf} \ dropped' ELSE {}) \union dropped'
  BY <1>1, <1>4, <1>5, <1>6, <1>7 DEF w
<1> QED  BY <1>1, <1>3, <1>8, WordRead

LEMMA WaitEnds ==
  ASSUME FramesInv, OneReader, CallOK, NEW t \in Threads, WaitRead(t), rxPend # <<>>
  PROVE  FramesInv'
<1> DEFINE w == Head(rxPend)
           n == Front(Tail(rxPend), filling)
<1>1. /\ call[t].at = "wait" /\ InRead(t) /\ ~InFrame(t)
      /\ call'[t].at = "handle"
      /\ \A u \in Threads \ {t} : call'[u] = call[u]
      /\ rxPend' = Tail(rxPend) /\ UNCHANGED <<filling, rxFree, userHas, held>>
      /\ dropped' = dropped \union LostWith(w)
  BY Goes DEF WaitRead, InRead, InFrame
<1>2. /\ w \in Words /\ Follows(w, n)
      /\ Knows("wait", call[t].buf, dropped, w, filling)
  BY <1>1, WordFacts
<1> HIDE DEF w, n
<1>3. w.kind \in Kinds /\ w.buf \in dropped'
  BY <1>1, <1>2 DEF Knows, Words, Kinds, LostWith
<1>4. Knows("handle", call'[t].buf, dropped', n, filling)
  BY <1>2, <1>3 DEF Knows, Follows
<1>5. ~InFrame(t)'
  BY <1>1 DEF InFrame
<1>6. Front(rxPend', filling') = n
  BY <1>1 DEF n
<1>7. /\ Knows(call'[t].at, call'[t].buf, dropped', Front(rxPend', filling'), filling')
      /\ (IF InFrame(t) THEN {call[t].buf} \ dropped ELSE {}) \union dropped
           \union LostWith(Head(rxPend))
         = (IF InFrame(t)' THEN {call'[t].buf} \ dropped' ELSE {}) \union dropped'
  BY <1>1, <1>4, <1>5, <1>6 DEF w
<1> QED  BY <1>1, <1>5, <1>7, WordRead

(* The size or the status; a bad word ends the read.                       *)
LEMMA NextRead ==
  ASSUME FramesInv, OneReader, CallOK, NEW t \in Threads, PopSize(t) \/ PopStatus(t)
  PROVE  FramesInv'
<1> DEFINE w == Head(rxPend)
           n == Front(Tail(rxPend), filling)
           b == call[t].buf
<1>1. PICK k \in {"size", "status"} :
        PopNext(t, k, IF k = "size" THEN "status" ELSE "found")
  BY DEF PopSize, PopStatus
<1>2. /\ call[t].at = k /\ InRead(t) /\ InFrame(t) /\ rxPend # <<>>
      /\ rxPend' = Tail(rxPend) /\ UNCHANGED <<filling, rxFree, userHas, held>>
  BY <1>1 DEF PopNext, InRead, InFrame
<1>3. /\ w \in Words /\ Follows(w, n)
      /\ Knows(k, b, dropped, w, filling)
      /\ LostWith(w) \intersect dropped = {}
  BY <1>2, WordFacts
<1>4. b \in Buffers
  BY <1>2 DEF FramesInv, RxTypes
<1>5. Front(rxPend', filling') = n
  BY <1>2
<1>6. CASE w.kind = k /\ w.good
  <2>1. /\ call'[t].at = (IF k = "size" THEN "status" ELSE "found")
        /\ call'[t].buf = b /\ dropped' = dropped
        /\ \A u \in Threads \ {t} : call'[u] = call[u]
    <3>1. /\ To(t, IF k = "size" THEN "status" ELSE "found")
          /\ dropped' = dropped
      BY <1>1, <1>6 DEF PopNext
    <3> QED  BY <3>1, Goes
  <2>2. w.buf = b /\ b \notin dropped
    BY <1>3, <1>6 DEF Knows
  <2>3. k = "status" => filling.buf # b
    <3> SUFFICES ASSUME k = "status", filling.buf = b PROVE FALSE
      OBVIOUS
    <3>1. b \in ReadBufs
      BY <1>2, <1>4, <2>2 DEF ReadBufs
    <3>2. b \notin ToldBufs(rxPend) /\ b \notin Fresh(filling)
      BY <3>1 DEF FramesInv, Owned, Apart
    <3>3. filling.next # "handle"
      BY <3>2, <1>4 DEF Fresh
    <3>4. Meets(rxPend, Handle(b))
      BY <1>2, <1>6, <3>3, LastTold DEF FramesInv, RxTypes
    <3> QED  BY <3>2, <3>4, <1>4 DEF ToldBufs
  <2> HIDE DEF w, n, b
  <2>4. Knows(call'[t].at, call'[t].buf, dropped', n, filling')
    <3>1. CASE k = "size"
      <4>1. n.kind = "status" /\ n.buf = b
        BY <1>3, <1>6, <2>2, <3>1 DEF Follows, NextKind
      <4> QED  BY <2>1, <2>2, <3>1, <4>1 DEF Knows
    <3>2. CASE k = "status"
      <4>1. n.kind = "handle"
        BY <1>3, <1>6, <3>2 DEF Follows, NextKind
      <4> QED  BY <1>2, <2>1, <2>2, <2>3, <3>2, <4>1 DEF Knows
    <3> QED  BY <3>1, <3>2
  <2>5. InFrame(t)' /\ LostWith(w) = {}
    BY <1>6, <2>1 DEF InFrame, LostWith
  <2>6. /\ Knows(call'[t].at, call'[t].buf, dropped', Front(rxPend', filling'), filling')
        /\ (IF InFrame(t) THEN {call[t].buf} \ dropped ELSE {}) \union dropped
             \union LostWith(Head(rxPend))
           = (IF InFrame(t)' THEN {call'[t].buf} \ dropped' ELSE {}) \union dropped'
    BY <1>2, <1>5, <2>1, <2>4, <2>5 DEF w, b
  <2> QED  BY <1>2, <1>4, <2>1, <2>6, WordRead DEF b
<1>7. CASE ~(w.kind = k /\ w.good)
  <2>1. /\ Return(t) /\ dropped' = dropped \union Taken(t) \union LostWith(w)
    BY <1>1, <1>7 DEF PopNext
  <2>2. /\ call'[t].at = "idle" /\ \A u \in Threads \ {t} : call'[u] = call[u]
    BY <2>1, Returns
  <2>3. Taken(t) = {b} \ dropped
    BY DEF Taken
  <2> HIDE DEF w, n, b
  <2>4. w.kind # "handle" => w.buf \in dropped'
    BY <1>3, <2>1, <2>3 DEF Knows
  <2>5. w.buf \in dropped'
    BY <2>1, <2>4 DEF LostWith
  <2>6. Knows(call'[t].at, call'[t].buf, dropped', n, filling')
    BY <1>3, <2>2, <2>5 DEF Knows, Follows
  <2>7. ~InFrame(t)'
    BY <2>2 DEF InFrame
  <2>8. /\ Knows(call'[t].at, call'[t].buf, dropped', Front(rxPend', filling'), filling')
        /\ (IF InFrame(t) THEN {call[t].buf} \ dropped ELSE {}) \union dropped
             \union LostWith(Head(rxPend))
           = (IF InFrame(t)' THEN {call'[t].buf} \ dropped' ELSE {}) \union dropped'
    BY <1>2, <1>5, <2>1, <2>3, <2>6, <2>7 DEF w, b
  <2> QED  BY <1>2, <2>2, <2>7, <2>8, WordRead
<1> QED  BY <1>6, <1>7

-----------------------------------------------------------------------------
(* The steps that give a buffer back, to the program or to the firmware    *)

LEMMA FinishStep ==
  ASSUME FramesInv, OneReader, CallOK, NEW t \in Threads, Finish(t)
  PROVE  FramesInv'
<1> DEFINE b == call[t].buf
<1> USE DEF FramesInv
<1>1. /\ call[t].at = "found" /\ InRead(t) /\ InFrame(t) /\ To(t, "up")
      /\ UNCHANGED <<filling, rxPend>>
  BY DEF Finish, InRead, InFrame
<1>2. /\ call'[t].at = "up" /\ call'[t].buf = b /\ \A u \in Threads \ {t} : call'[u] = call[u]
  BY <1>1, Goes
<1>3. /\ \A u \in Threads \ {t} : ~InFrame(u)
      /\ Knows("found", b, dropped, Front(rxPend, filling), filling)
      /\ ReadBufs = {b} \ dropped
  BY <1>1, Reader
<1>4. b \in Buffers /\ b \notin dropped /\ filling.buf # b /\ ReadBufs = {b}
  BY <1>1, <1>3 DEF RxTypes, Knows
<1>5. Taken(t) = {b}
  BY <1>4 DEF Taken
<1>6. \/ /\ userHas' = userHas \union {b} /\ held' = held \union {b}
         /\ UNCHANGED <<rxFree, dropped>>
      \/ /\ rxFree' = Append(rxFree, b)
         /\ UNCHANGED <<userHas, held, dropped>>
      \/ /\ dropped' = dropped \union {b}
         /\ UNCHANGED <<rxFree, userHas, held>>
  BY <1>5 DEF Finish
<1> HIDE DEF b
<1>7. dropped \subseteq dropped'
  BY <1>6
<1>8. /\ Front(rxPend, filling).kind # "handle" => Front(rxPend, filling).buf \in dropped
      /\ Front(rxPend', filling') = Front(rxPend, filling)
  BY <1>1, <1>3, Spelled DEF Knows, RxTypes, Kinds
<1>9. Knows("up", b, dropped', Front(rxPend', filling'), filling')
  BY <1>7, <1>8 DEF Knows
<1>10. ~InFrame(t)'
  BY <1>2 DEF InFrame
<1>11. /\ FrontKnown' /\ ReadBufs' = {}
       /\ \A u \in Threads : InFrame(u)' => call'[u].buf \in Buffers
  BY <1>2, <1>3, <1>9, <1>10, ReaderAfter
<1>12. /\ b \notin FreeBufs(rxFree)
       /\ FreeOnce(rxFree) /\ rxFree \in Seq(Buffers)
  BY <1>4 DEF Owned, Apart, RxTypes
<1>13. rxFree' = Append(rxFree, b) =>
         FreeBufs(rxFree') = FreeBufs(rxFree) \union {b} /\ FreeOnce(rxFree')
         /\ rxFree' \in Seq(Buffers)
  BY <1>4, <1>12, FreeAppend
<1>14. CASE userHas' = userHas \union {b} /\ held' = held \union {b}
            /\ UNCHANGED <<rxFree, dropped>>
  BY <1>1, <1>4, <1>11, <1>14 DEF Owned, Apart, RxTypes, FillingBusy
<1>15. CASE rxFree' = Append(rxFree, b) /\ UNCHANGED <<userHas, held, dropped>>
  BY <1>1, <1>4, <1>11, <1>13, <1>15 DEF Owned, Apart, RxTypes, FillingBusy
<1>16. CASE dropped' = dropped \union {b} /\ UNCHANGED <<rxFree, userHas, held>>
  BY <1>1, <1>4, <1>11, <1>16 DEF Owned, Apart, RxTypes, FillingBusy
<1> QED  BY <1>6, <1>14, <1>15, <1>16

(* The other steps read nothing and end no read.  A buffer of the program  *)
(* may go back to the firmware in them, and its program lose hold of it.   *)
LEMMA ElseStep ==
  ASSUME FramesInv, UNCHANGED <<filling, rxPend, dropped>>,
         \A u \in Threads : call'[u] = call[u] \/ (~InFrame(u) /\ ~InFrame(u)'),
         NEW back \in SUBSET userHas, userHas' = userHas \ back, held' \subseteq userHas',
         /\ rxFree' \in Seq(Buffers)
         /\ FreeBufs(rxFree') = FreeBufs(rxFree) \union back /\ FreeOnce(rxFree')
  PROVE  FramesInv'
<1>1. /\ FrontKnown' /\ ReadBufs' = ReadBufs
      /\ \A u \in Threads : InFrame(u)' => call'[u].buf \in Buffers
  BY ReadsOn
<1> USE DEF FramesInv
<1>2. Owned'
  BY <1>1 DEF Owned, Apart
<1>3. RxTypes'
  BY <1>1 DEF RxTypes
<1>4. FillingBusy'
  BY DEF FillingBusy
<1> QED  BY <1>1, <1>2, <1>3, <1>4

(* Nothing of this happens.                                                *)
LEMMA StillStep ==
  ASSUME FramesInv, UNCHANGED <<filling, rxPend, dropped, rxFree, userHas>>,
         \A u \in Threads : call'[u] = call[u] \/ (~InFrame(u) /\ ~InFrame(u)'),
         held' \subseteq userHas
  PROVE  FramesInv'
<1>1. /\ rxFree' \in Seq(Buffers) /\ userHas' = userHas \ {} /\ {} \in SUBSET userHas
      /\ FreeBufs(rxFree') = FreeBufs(rxFree) \union {} /\ FreeOnce(rxFree')
  BY DEF FramesInv, RxTypes, Owned
<1> HIDE DEF FramesInv
<1> QED  BY <1>1, ElseStep

LEMMA PostUserStep ==
  ASSUME FramesInv, PostOwned, CallOK, NEW t \in Threads, PostUser(t)
  PROVE  FramesInv'
<1> DEFINE b == call[t].buf
<1>1. /\ call[t].at = "post" /\ ~InFrame(t) /\ To(t, "up")
      /\ UNCHANGED <<filling, rxPend, dropped, held>>
  BY DEF PostUser, InFrame
<1>2. b \in userHas \ held
  BY <1>1 DEF PostOwned, Posting
<1>3. rxFree' = Append(rxFree, b) /\ userHas' = userHas \ {b}
  BY <1>2 DEF PostUser
<1>4. call'[t].at = "up" /\ \A u \in Threads \ {t} : call'[u] = call[u]
  BY <1>1, Goes
<1>5. ~InFrame(t)'
  BY <1>4 DEF InFrame
<1>6. b \in Buffers /\ b \notin FreeBufs(rxFree) /\ rxFree \in Seq(Buffers) /\ FreeOnce(rxFree)
      /\ held \subseteq userHas
  BY <1>2 DEF FramesInv, Owned, Apart, RxTypes
<1> HIDE DEF b
<1>7. FreeBufs(rxFree') = FreeBufs(rxFree) \union {b} /\ FreeOnce(rxFree')
      /\ rxFree' \in Seq(Buffers)
  BY <1>3, <1>6, FreeAppend
<1>8. {b} \in SUBSET userHas /\ held' \subseteq userHas'
  BY <1>1, <1>2, <1>3, <1>6
<1> QED  BY <1>1, <1>3, <1>4, <1>5, <1>7, <1>8, ElseStep

LEMMA CloseStep ==
  ASSUME FramesInv, Close
  PROVE  FramesInv'
<1>1. held' = {} /\ UNCHANGED <<call, filling, rxPend, dropped>>
  BY DEF Close
<1>2. CASE UNCHANGED <<rxFree, userHas>>
  BY <1>1, <1>2, StillStep
<1>3. ASSUME NEW q \in Orders(userHas), rxFree' = rxFree \o q, userHas' = {}
      PROVE  FramesInv'
  <2>1. /\ userHas \subseteq Buffers /\ rxFree \in Seq(Buffers) /\ FreeOnce(rxFree)
        /\ userHas \intersect FreeBufs(rxFree) = {}
    BY DEF FramesInv, Owned, Apart, RxTypes
  <2>2. IsFiniteSet(userHas)
    BY <2>1, DriverAssumption, FS_Subset
  <2>3. /\ rxFree' \in Seq(Buffers)
        /\ \A b : Meets(rxFree', {b}) <=> Meets(rxFree, {b}) \/ b \in userHas
        /\ \A b : Once(rxFree, {b}) /\ (b \in userHas => ~Meets(rxFree, {b}))
                  => Once(rxFree', {b})
    BY <1>3, <2>1, <2>2, MeetsJoin
  <2>4. FreeBufs(rxFree') = FreeBufs(rxFree) \union userHas /\ FreeOnce(rxFree')
    BY <2>1, <2>3 DEF FreeBufs, FreeOnce
  <2>5. userHas \in SUBSET userHas /\ userHas' = userHas \ userHas /\ held' \subseteq userHas'
    BY <1>1, <1>3
  <2> QED  BY <1>1, <2>3, <2>4, <2>5, ElseStep
<1> QED  BY <1>2, <1>3 DEF Close

-----------------------------------------------------------------------------
(* The steps together                                                      *)

(* Where the steps of one thread lead it, by the parts of a read.          *)
WriteStep(t) == DownWrite(t) \/ PopTx(t) \/ WaitTx(t) \/ Post(t) \/ UpTx(t)

LEMMA WriteMoves ==
  ASSUME CallOK, NEW t \in Threads, WriteStep(t)
  PROVE  /\ ~InFrame(t) /\ ~InRead(t) /\ ~Posting(t)
         /\ ~InFrame(t)' /\ ~InRead(t)' /\ ~Posting(t)'
         /\ \A u \in Threads \ {t} : call'[u] = call[u]
         /\ UNCHANGED rxVars
<1>1. /\ call[t].at \in {"txhandle", "txwait", "postA", "postB", "postC", "txup"}
           \/ (call[t].at = "down" /\ call[t].op \in {"write", "txask"})
      /\ UNCHANGED rxVars
  BY DEF WriteStep, DownWrite, PopTx, WaitTx, Post, UpTx, WriteCommands
<1>2. /\ call'[t].at \in {"txhandle", "txwait", "postA", "postB", "postC", "txup", "idle"}
      /\ \A u \in Threads \ {t} : call'[u] = call[u]
  <2> DEFINE takes == call' = [call EXCEPT ![t] = [@ EXCEPT !.at = "postA", !.buf = Head(txFree)]]
  <2>1. CASE takes
    BY <2>1 DEF CallOK
  <2>2. CASE ~takes
    <3>1. Return(t) \/ \E k \in {"txhandle", "txwait", "postB", "postC", "txup"} : To(t, k)
      BY <2>2 DEF WriteStep, DownWrite, PopTx, WaitTx, Post, UpTx, UpWrite
    <3> QED  BY <3>1, Goes, Returns
  <2> QED  BY <2>1, <2>2
<1> QED  BY <1>1, <1>2 DEF InFrame, InRead, Posting

(* The steps of a read that read no word, and those that begin or give up  *)
(* a call.                                                                 *)
QuietStep(t) ==
  \/ DownRead(t) \/ UpRead(t) \/ Interrupted(t)
  \/ (rxPend = <<>> /\ (PopHandle(t) \/ WaitRead(t)))
  \/ \E op \in Commands, b \in held \union {None} : Call(t, op, b)

LEMMA QuietMoves ==
  ASSUME CallOK, NEW t \in Threads, QuietStep(t)
  PROVE  /\ ~InFrame(t) /\ ~InFrame(t)'
         /\ \A u \in Threads \ {t} : call'[u] = call[u]
         /\ UNCHANGED <<filling, rxPend, dropped, rxFree, userHas>>
<1>1. CASE DownRead(t) \/ UpRead(t) \/ Interrupted(t) \/ (rxPend = <<>> /\ (PopHandle(t) \/ WaitRead(t)))
  <2>1. /\ call[t].at \notin {"size", "status", "found"}
        /\ UNCHANGED <<filling, rxPend, dropped, rxFree, userHas>>
    BY <1>1 DEF DownRead, UpRead, Interrupted, PopHandle, WaitRead
  <2>2. Return(t) \/ \E k \in {"post", "up", "handle", "wait"} : To(t, k)
    BY <1>1 DEF DownRead, UpRead, Interrupted, PopHandle, WaitRead
  <2>3. /\ call'[t].at \notin {"size", "status", "found"}
        /\ \A u \in Threads \ {t} : call'[u] = call[u]
    BY <2>2, Goes, Returns
  <2> QED  BY <2>1, <2>3 DEF InFrame
<1>2. ASSUME NEW op, NEW b, Call(t, op, b)
      PROVE  /\ call[t].at = "idle" /\ call'[t].at = "down"
             /\ \A u \in Threads \ {t} : call'[u] = call[u]
             /\ UNCHANGED <<filling, rxPend, dropped, rxFree, userHas>>
  BY <1>2 DEF Call, Idle, CallOK
<1> QED  BY <1>1, <1>2 DEF QuietStep, InFrame

(* What the program holds is marked.                                       *)
LEMMA QuietHeld ==
  ASSUME FramesInv, PostOwned, NEW t \in Threads, QuietStep(t)
  PROVE  held' \subseteq userHas
<1>1. held \subseteq userHas
  BY DEF FramesInv, RxTypes
<1>2. CASE Interrupted(t)
  <2>1. call[t].op = "post" => call[t].buf \in userHas
    BY <1>2 DEF Interrupted, PostOwned, Posting
  <2> QED  BY <1>1, <1>2, <2>1 DEF Interrupted
<1> QED  BY <1>1, <1>2 DEF QuietStep, DownRead, UpRead, PopHandle, WaitRead, Call

(* The firmware sends, a file is opened, or nothing happens.               *)
OtherStep == HwSend \/ Open \/ UNCHANGED vars

LEMMA Steps ==
  ASSUME [Next]_vars
  PROVE  \/ HwStart \/ HwWord \/ Close \/ OtherStep
         \/ \E t \in Threads :
              \/ WriteStep(t) \/ QuietStep(t)
              \/ (rxPend # <<>> /\ (PopHandle(t) \/ WaitRead(t)))
              \/ PopSize(t) \/ PopStatus(t) \/ Finish(t) \/ PostUser(t)
BY DEF Next, Step, WriteStep, QuietStep, OtherStep

LEMMA FramesStep ==
  ASSUME RxInv, CallOK, [Next]_vars
  PROVE  FramesInv'
<1> USE DEF RxInv
<1>1. CASE HwStart \/ HwWord \/ Close
  BY <1>1, StartStep, WordStep, CloseStep
<1>2. CASE OtherStep
  <2>1. /\ UNCHANGED <<filling, rxPend, dropped, rxFree, userHas, held>>
        /\ \A u \in Threads : call'[u] = call[u]
    BY <1>2 DEF OtherStep, HwSend, Open, vars, rxVars
  <2>2. held' \subseteq userHas
    BY <2>1 DEF FramesInv, RxTypes
  <2> QED  BY <2>1, <2>2, StillStep
<1>3. ASSUME NEW t \in Threads, WriteStep(t) PROVE FramesInv'
  <2>1. held' \subseteq userHas
    BY <1>3, WriteMoves DEF FramesInv, RxTypes, rxVars
  <2>2. /\ UNCHANGED <<filling, rxPend, dropped, rxFree, userHas>>
        /\ \A u \in Threads : call'[u] = call[u] \/ (~InFrame(u) /\ ~InFrame(u)')
    BY <1>3, WriteMoves DEF rxVars
  <2> QED  BY <2>1, <2>2, StillStep
<1>4. ASSUME NEW t \in Threads, QuietStep(t) PROVE FramesInv'
  <2>1. held' \subseteq userHas
    BY <1>4, QuietHeld
  <2>2. /\ UNCHANGED <<filling, rxPend, dropped, rxFree, userHas>>
        /\ \A u \in Threads : call'[u] = call[u] \/ (~InFrame(u) /\ ~InFrame(u)')
    BY <1>4, QuietMoves
  <2> QED  BY <2>1, <2>2, StillStep
<1>5. ASSUME NEW t \in Threads, rxPend # <<>> /\ (PopHandle(t) \/ WaitRead(t)) PROVE FramesInv'
  BY <1>5, HandleRead, WaitEnds
<1>6. ASSUME NEW t \in Threads, PopSize(t) \/ PopStatus(t) \/ Finish(t) \/ PostUser(t)
      PROVE  FramesInv'
  BY <1>6, NextRead, FinishStep, PostUserStep
<1> QED  BY <1>1, <1>2, <1>3, <1>4, <1>5, <1>6, Steps

LEMMA ReaderKept ==
  ASSUME OneReader, NEW t \in Threads, \A u \in Threads \ {t} : call'[u] = call[u],
         \/ readSem' = readSem /\ (InRead(t)' => InRead(t))
         \/ InRead(t) /\ (InRead(t)' => readSem' = t)
         \/ readSem = None /\ readSem' = t
  PROVE  OneReader'
<1>1. \A u \in Threads \ {t} : InRead(u)' <=> InRead(u)
  BY DEF InRead
<1>2. CASE readSem' = readSem /\ (InRead(t)' => InRead(t))
  BY <1>1, <1>2 DEF OneReader
<1>3. CASE InRead(t) /\ (InRead(t)' => readSem' = t)
  BY <1>1, <1>3 DEF OneReader
<1>4. CASE readSem = None /\ readSem' = t
  <2>1. \A u \in Threads : ~InRead(u)
    BY <1>4, DriverAssumption DEF OneReader
  <2> QED  BY <1>1, <1>4, <2>1 DEF OneReader
<1> QED  BY <1>2, <1>3, <1>4

LEMMA ReaderStep ==
  ASSUME OneReader, CallOK, [Next]_vars
  PROVE  OneReader'
<1>1. CASE HwStart \/ HwWord \/ Close \/ OtherStep
  <2>1. UNCHANGED <<call, readSem>>
    BY <1>1 DEF HwStart, HwWord, Close, OtherStep, HwSend, Open, vars, rxVars
  <2> QED  BY <2>1 DEF OneReader, InRead
<1>2. ASSUME NEW t \in Threads, WriteStep(t) PROVE OneReader'
  BY <1>2, WriteMoves, ReaderKept DEF rxVars
<1>3. ASSUME NEW t \in Threads, QuietStep(t) PROVE OneReader'
  <2>1. \A u \in Threads \ {t} : call'[u] = call[u]
    BY <1>3, QuietMoves
  <2>2. CASE DownRead(t)
    <3>1. readSem = None /\ readSem' = t
      BY <2>2 DEF DownRead
    <3> QED  BY <2>1, <3>1, ReaderKept
  <2>3. CASE UpRead(t)
    <3>1. InRead(t) /\ call'[t].at = "idle"
      BY <2>3, Returns DEF UpRead, InRead
    <3> QED  BY <2>1, <3>1, ReaderKept DEF InRead
  <2>4. CASE Interrupted(t)
    <3>1. readSem' = readSem /\ call'[t].at = "idle"
      BY <2>4, Returns DEF Interrupted
    <3> QED  BY <2>1, <3>1, ReaderKept DEF InRead
  <2>5. CASE rxPend = <<>> /\ (PopHandle(t) \/ WaitRead(t))
    <3>1. readSem' = readSem /\ InRead(t)
      BY <2>5 DEF PopHandle, WaitRead, InRead
    <3> QED  BY <2>1, <3>1, ReaderKept
  <2>6. CASE \E op \in Commands, b \in held \union {None} : Call(t, op, b)
    <3>1. readSem' = readSem /\ call'[t].at = "down"
      BY <2>6 DEF Call, CallOK
    <3> QED  BY <2>1, <3>1, ReaderKept DEF InRead
  <2> QED  BY <1>3, <2>2, <2>3, <2>4, <2>5, <2>6 DEF QuietStep
<1>4. ASSUME NEW t \in Threads, rxPend # <<>> /\ (PopHandle(t) \/ WaitRead(t)) PROVE OneReader'
  <2>1. /\ readSem' = readSem /\ InRead(t)
        /\ \A u \in Threads \ {t} : call'[u] = call[u]
    <3>1. CASE PopHandle(t)  BY <1>4, <3>1, Pops DEF InRead
    <3>2. CASE WaitRead(t)  BY <3>2, Goes DEF WaitRead, InRead
    <3> QED  BY <1>4, <3>1, <3>2
  <2> QED  BY <2>1, ReaderKept
<1>5. ASSUME NEW t \in Threads, PopSize(t) \/ PopStatus(t) PROVE OneReader'
  <2>1. /\ InRead(t)
        /\ Return(t) \/ (readSem' = readSem /\ \E k \in {"status", "found"} : To(t, k))
    BY <1>5 DEF PopSize, PopStatus, PopNext, InRead
  <2>2. CASE Return(t)
    <3>1. ~InRead(t)' /\ \A u \in Threads \ {t} : call'[u] = call[u]
      BY <2>2, Returns DEF InRead
    <3> QED  BY <2>1, <3>1, ReaderKept
  <2>3. CASE readSem' = readSem /\ \E k \in {"status", "found"} : To(t, k)
    BY <2>1, <2>3, Goes, ReaderKept
  <2> QED  BY <2>1, <2>2, <2>3
<1>6. ASSUME NEW t \in Threads, Finish(t) \/ PostUser(t) PROVE OneReader'
  <2>1. readSem' = readSem /\ InRead(t) /\ To(t, "up")
    BY <1>6 DEF Finish, PostUser, InRead
  <2> QED  BY <2>1, Goes, ReaderKept
<1> QED  BY <1>1, <1>2, <1>3, <1>4, <1>5, <1>6, Steps

(* Who posts after a step posted before, or has the buffer from the        *)
(* program just now.                                                       *)
LEMMA PostsKept ==
  ASSUME PostOwned, NEW t \in Threads, \A u \in Threads \ {t} : call'[u] = call[u],
         \A u \in Threads \ {t} : Posting(u) => call[u].buf \in userHas' \ held',
         Posting(t)' => /\ call'[t].buf \in userHas' \ held'
                        /\ \/ Posting(t) /\ call'[t].buf = call[t].buf
                           \/ call'[t].buf \in held
  PROVE  PostOwned'
<1>1. \A u \in Threads \ {t} : (Posting(u)' <=> Posting(u)) /\ call'[u].buf = call[u].buf
  BY DEF Posting
<1>2. \A u \in Threads : Posting(u)' => call'[u].buf \in userHas' \ held'
  BY <1>1
<1>3. \A u \in Threads \ {t} : Posting(u) => call[u].buf \notin held
  BY DEF PostOwned
<1>4. \A u \in Threads \ {t} : Posting(u)' /\ Posting(t)' => call'[u].buf # call'[t].buf
  BY <1>1, <1>3 DEF PostOwned
<1>5. \A u, v \in Threads \ {t} : Posting(u)' /\ Posting(v)' /\ call'[u].buf = call'[v].buf => u = v
  BY <1>1 DEF PostOwned
<1>6. \A u, v \in Threads : Posting(u)' /\ Posting(v)' /\ call'[u].buf = call'[v].buf => u = v
  BY <1>4, <1>5
<1> HIDE DEF Posting
<1> QED  BY <1>2, <1>6 DEF PostOwned

LEMMA PostStep ==
  ASSUME RxInv, CallOK, [Next]_vars
  PROVE  PostOwned'
<1> USE DEF RxInv
<1>0. /\ held \subseteq userHas
      /\ \A u \in Threads : Posting(u) => call[u].buf \in userHas \ held
      /\ \A u, v \in Threads : Posting(u) /\ Posting(v) /\ call[u].buf = call[v].buf => u = v
  BY DEF PostOwned, FramesInv, RxTypes
<1>1. CASE HwStart \/ HwWord \/ OtherStep
  <2>1. UNCHANGED <<call, userHas, held>>
    BY <1>1 DEF HwStart, HwWord, OtherStep, HwSend, Open, vars, rxVars
  <2> QED  BY <2>1 DEF PostOwned, Posting
<1>2. CASE Close
  <2>1. \A u \in Threads : call'[u].at = "idle"
    BY <1>2 DEF Close, Idle
  <2> QED  BY <2>1 DEF PostOwned, Posting
<1>3. ASSUME NEW t \in Threads, WriteStep(t) PROVE PostOwned'
  BY <1>0, <1>3, WriteMoves, PostsKept DEF rxVars
<1>4. ASSUME NEW t \in Threads, QuietStep(t) PROVE PostOwned'
  <2>1. /\ \A u \in Threads \ {t} : call'[u] = call[u]
        /\ userHas' = userHas
    BY <1>4, QuietMoves
  <2>2. CASE DownRead(t)
    <3>1. /\ call[t].at = "down" /\ held' = held
          /\ To(t, CASE call[t].op = "post" -> "post" [] call[t].op = "ask" -> "up"
                     [] OTHER -> "handle")
      BY <2>2 DEF DownRead
    <3>2. /\ call'[t].buf = call[t].buf
          /\ call'[t].at = CASE call[t].op = "post" -> "post" [] call[t].op = "ask" -> "up"
                             [] OTHER -> "handle"
      BY <3>1, Goes
    <3>3. Posting(t)' => Posting(t)
      <4>1. call[t].op # "post" => call'[t].at \in {"up", "handle"}
        BY <3>2
      <4> QED  BY <3>1, <4>1 DEF Posting
    <3> QED  BY <1>0, <2>1, <3>1, <3>2, <3>3, PostsKept
  <2>3. CASE UpRead(t)
    <3>1. call'[t].at = "idle" /\ held' = held
      BY <2>3, Returns DEF UpRead
    <3>2. ~Posting(t)'
      BY <3>1 DEF Posting
    <3> QED  BY <1>0, <2>1, <3>1, <3>2, PostsKept
  <2>4. CASE Interrupted(t)
    <3>1. /\ call'[t].at = "idle"
          /\ held' = held \/ (Posting(t) /\ held' = held \union {call[t].buf})
      BY <2>4, Returns DEF Interrupted, Posting
    <3>2. ~Posting(t)'
      BY <3>1 DEF Posting
    <3> QED  BY <1>0, <2>1, <3>1, <3>2, PostsKept
  <2>5. CASE rxPend = <<>> /\ (PopHandle(t) \/ WaitRead(t))
    <3>1. held' = held /\ \E k \in {"handle", "wait", "up"} : To(t, k)
      BY <2>5 DEF PopHandle, WaitRead
    <3>2. call'[t].at \in {"handle", "wait", "up"}
      BY <3>1, Goes
    <3>3. ~Posting(t)'
      BY <3>2 DEF Posting
    <3> QED  BY <1>0, <2>1, <3>1, <3>3, PostsKept
  <2>6. ASSUME NEW op \in Commands, NEW b \in held \union {None}, Call(t, op, b)
        PROVE  PostOwned'
    <3>1. /\ call'[t].at = "down" /\ call'[t].op = op /\ call'[t].buf = b
          /\ IF op = "post" THEN b \in held /\ held' = held \ {b} ELSE held' = held
      BY <2>6 DEF Call, CallOK
    <3>2. Posting(t)' => op = "post"
      BY <3>1 DEF Posting
    <3> QED  BY <1>0, <2>1, <3>1, <3>2, PostsKept
  <2> QED  BY <1>4, <2>2, <2>3, <2>4, <2>5, <2>6 DEF QuietStep
<1>5. ASSUME NEW t \in Threads,
             \/ (rxPend # <<>> /\ (PopHandle(t) \/ WaitRead(t)))
             \/ PopSize(t) \/ PopStatus(t)
      PROVE  PostOwned'
  <2>1. /\ UNCHANGED <<userHas, held>>
        /\ call'[t].at \in {"handle", "size", "status", "found", "idle"}
        /\ \A u \in Threads \ {t} : call'[u] = call[u]
    <3>1. CASE rxPend # <<>> /\ PopHandle(t)
      BY <3>1, Pops
    <3>3. CASE WaitRead(t)
      BY <3>3, Goes DEF WaitRead
    <3>2. CASE PopSize(t) \/ PopStatus(t)
      BY <3>2, Goes, Returns DEF PopSize, PopStatus, PopNext
    <3> QED  BY <1>5, <3>1, <3>2, <3>3
  <2>2. ~Posting(t)'
    BY <2>1 DEF Posting
  <2> QED  BY <1>0, <2>1, <2>2, PostsKept
<1>6. ASSUME NEW t \in Threads, Finish(t) PROVE PostOwned'
  <2>1. /\ To(t, "up") /\ call[t].at = "found"
        /\ \/ userHas' = userHas \union {call[t].buf} /\ held' = held \union {call[t].buf}
           \/ UNCHANGED <<userHas, held>>
    BY <1>6 DEF Finish
  <2>2. ~Posting(t)' /\ \A u \in Threads \ {t} : call'[u] = call[u]
    BY <2>1, Goes DEF Posting
  <2>3. call[t].buf \notin userHas
    <3>1. call[t].buf \in ReadBufs
      BY <2>1 DEF ReadBufs, InFrame, FramesInv, RxTypes, FrontKnown
    <3> QED  BY <3>1 DEF FramesInv, Owned, Apart
  <2> QED  BY <1>0, <2>1, <2>2, <2>3, PostsKept
<1>7. ASSUME NEW t \in Threads, PostUser(t) PROVE PostOwned'
  <2>1. /\ To(t, "up") /\ Posting(t) /\ userHas' = userHas \ {call[t].buf} /\ held' = held
    BY <1>7 DEF PostUser, Posting
  <2>2. ~Posting(t)' /\ \A u \in Threads \ {t} : call'[u] = call[u]
    BY <2>1, Goes DEF Posting
  <2> QED  BY <1>0, <2>1, <2>2, PostsKept
<1> QED  BY <1>1, <1>2, <1>3, <1>4, <1>5, <1>6, <1>7, Steps

-----------------------------------------------------------------------------
(* What the program holds                                                  *)

(* In the beginning each buffer is in its FIFO, once.                      *)
LEMMA Whole ==
  ASSUME NEW S, IsFiniteSet(S), NEW b
  PROVE  (Meets(IndexOrder(S), {b}) <=> b \in S) /\ Once(IndexOrder(S), {b})
<1> DEFINE o == IndexOrder(S)
<1>1. o \in Orders(S)  BY Ordered
<1> HIDE DEF o
<1>2. /\ \A i, j \in DOMAIN o : o[i] = o[j] => i = j
      /\ b \in S <=> \E i \in DOMAIN o : o[i] = b
  BY <1>1, OrderOf
<1>3. (Meets(o, {b}) <=> b \in S) /\ Once(o, {b})
  BY <1>2 DEF Meets, Once
<1> QED  BY <1>3 DEF o

LEMMA InitRx == Init => RxInv
<1> SUFFICES ASSUME Init PROVE RxInv  OBVIOUS
<1>1. /\ \A t \in Threads : call[t].at = "idle"
      /\ filling.buf = None /\ filling.next = "handle"
      /\ rxPend = <<>> /\ userHas = {} /\ held = {} /\ dropped = {}
      /\ rxFree = IndexOrder(Buffers)
  BY DEF Init, Idle
<1>2. \A t \in Threads : ~InFrame(t) /\ ~InRead(t) /\ ~Posting(t)
  BY <1>1 DEF InFrame, InRead, Posting
<1>3. filling \in Fillings
  BY DEF Init, Fillings, Kinds
<1>4. RxTypes
  BY <1>1, <1>2, <1>3, Ordered, DriverAssumption DEF RxTypes
<1>5. InTurn(rxPend, filling)
  BY <1>1 DEF InTurn
<1>6. Front(rxPend, filling).kind = "handle"
  BY <1>1 DEF Front, Rest
<1>7. FrontKnown
  BY <1>1, <1>6 DEF FrontKnown
<1>8. \A b \in Buffers : Meets(rxFree, {b}) /\ Once(rxFree, {b})
  BY <1>1, Whole, DriverAssumption
<1>9. FreeBufs(rxFree) = Buffers /\ FreeOnce(rxFree)
  BY <1>8 DEF FreeBufs, FreeOnce
<1>10. ToldBufs(rxPend) = {} /\ ToldOnce(rxPend)
  BY <1>1 DEF ToldBufs, ToldOnce, Meets, Once
<1>11. Fresh(filling) = {} /\ ReadBufs = {}
  BY <1>1, <1>2, DriverAssumption DEF Fresh, ReadBufs
<1>12. Owned
  BY <1>1, <1>9, <1>10, <1>11 DEF Owned, Apart
<1>13. FillingBusy
  BY <1>1, <1>9, DriverAssumption DEF FillingBusy
<1>14. OneReader /\ PostOwned
  BY <1>2 DEF OneReader, PostOwned
<1> QED  BY <1>4, <1>5, <1>7, <1>12, <1>13, <1>14 DEF RxInv, FramesInv

LEMMA StepRx == TxInv /\ RxInv /\ [Next]_vars => RxInv'
BY FramesStep, ReaderStep, PostStep DEF RxInv, TxInv

LEMMA RxInvariant == Spec => [](TxInv /\ RxInv)
BY InitTx, InitRx, StepTx, StepRx, PTL DEF Spec

(* A buffer that the program was given stays marked, is not in the FIFO to *)
(* the firmware and not received into, until the program posts it: however *)
(* calls interleave or are interrupted, whatever words are thrown away and *)
(* however often the file is closed and opened.                            *)
THEOREM DriverHeldIsStable == Spec => []HeldIsStable
<1>1. RxInv => HeldIsStable
  <2> SUFFICES ASSUME RxInv, NEW b \in held
               PROVE  b \in userHas /\ In(b, rxFree) = {} /\ filling.buf # b
    BY DEF HeldIsStable
  <2>1. b \in userHas
    BY DEF RxInv, FramesInv, RxTypes
  <2>2. b \in Buffers /\ b \notin FreeBufs(rxFree) /\ filling.buf # b
    BY <2>1 DEF RxInv, FramesInv, Owned, Apart, FillingBusy
  <2>3. ~Meets(rxFree, {b})
    BY <2>2 DEF FreeBufs
  <2> QED  BY <2>1, <2>2, <2>3 DEF Meets, In
<1> QED  BY RxInvariant, <1>1, PTL

-----------------------------------------------------------------------------
(* Where a receive buffer is, counted                                      *)

LEMMA RxPlaces ==
  ASSUME RxInv, NEW b \in Buffers
  PROVE  Places(b) = 1
<1> DEFINE T == {t \in Threads : call[t].at \in {"size", "status", "found"} /\ b \in Taken(t)}
           N == Cardinality(In(b, rxFree))
           M == Cardinality({i \in DOMAIN rxPend : rxPend[i].kind = "handle" /\ rxPend[i].buf = b})
<1>1. RxTypes /\ Owned /\ OneReader
  BY DEF RxInv, FramesInv
<1>2. N = IF b \in FreeBufs(rxFree) THEN 1 ELSE 0
  <2>1. In(b, rxFree) = {i \in DOMAIN rxFree : rxFree[i] \in {b}}
    BY DEF In
  <2>2. rxFree \in Seq(Buffers) /\ Once(rxFree, {b})
    BY <1>1 DEF RxTypes, Owned, FreeOnce
  <2> QED  BY <2>1, <2>2, OnceCount DEF FreeBufs
<1>3. (filling = [buf |-> b, next |-> "handle"]) <=> b \in Fresh(filling)
  BY <1>1 DEF RxTypes, Fillings, Fresh
<1>4. M = IF b \in ToldBufs(rxPend) THEN 1 ELSE 0
  <2>1. rxPend \in Seq(Words) /\ Once(rxPend, Handle(b))
    BY <1>1 DEF RxTypes, Owned, ToldOnce
  <2>2. \A i \in DOMAIN rxPend : rxPend[i] \in Words
    BY <2>1
  <2>3. {i \in DOMAIN rxPend : rxPend[i].kind = "handle" /\ rxPend[i].buf = b}
          = {i \in DOMAIN rxPend : rxPend[i] \in Handle(b)}
    BY <2>2 DEF Handle
  <2> QED  BY <2>1, <2>3, OnceCount DEF ToldBufs
<1>5. Cardinality(T) = IF b \in ReadBufs THEN 1 ELSE 0
  <2>1. \A t \in Threads : t \in T <=> InFrame(t) /\ call[t].buf = b /\ b \notin dropped
    BY DEF Taken, InFrame
  <2>2. CASE b \in ReadBufs
    <3>1. PICK t \in Threads : t \in T
      BY <2>1, <2>2 DEF ReadBufs
    <3>2. \A u \in T : u = t
      BY <2>1, <3>1, <1>1 DEF OneReader, InRead, InFrame
    <3>3. T = {t}
      BY <3>1, <3>2
    <3> QED  BY <3>3, <2>2, FS_Singleton
  <2>3. CASE b \notin ReadBufs
    <3>1. T = {}
      BY <2>1, <2>3 DEF ReadBufs
    <3> QED  BY <3>1, <2>3, FS_EmptySet
  <2> QED  BY <2>2, <2>3
<1>6. /\ \/ b \in FreeBufs(rxFree) \/ b \in Fresh(filling) \/ b \in ToldBufs(rxPend)
         \/ b \in ReadBufs \/ b \in userHas \/ b \in dropped
      /\ b \in FreeBufs(rxFree) => /\ b \notin Fresh(filling) /\ b \notin ToldBufs(rxPend)
                                   /\ b \notin ReadBufs /\ b \notin userHas /\ b \notin dropped
      /\ b \in Fresh(filling) => /\ b \notin ToldBufs(rxPend) /\ b \notin ReadBufs
                                 /\ b \notin userHas /\ b \notin dropped
      /\ b \in ToldBufs(rxPend) => b \notin ReadBufs /\ b \notin userHas /\ b \notin dropped
      /\ b \in ReadBufs => b \notin userHas /\ b \notin dropped
      /\ b \in userHas => b \notin dropped
  BY <1>1 DEF Owned, Apart
<1> DEFINE one(p) == IF p THEN 1 ELSE 0
<1>7. Places(b) = N + one(filling = [buf |-> b, next |-> "handle"]) + M + Cardinality(T)
                    + one(b \in userHas) + one(b \in dropped)
  BY DEF Places
<1>8. Places(b) = one(b \in FreeBufs(rxFree)) + one(b \in Fresh(filling))
                    + one(b \in ToldBufs(rxPend)) + one(b \in ReadBufs)
                    + one(b \in userHas) + one(b \in dropped)
  BY <1>2, <1>3, <1>4, <1>5, <1>7
<1> HIDE DEF T, N, M
<1> QED  BY <1>6, <1>8

-----------------------------------------------------------------------------
(* The transmit buffers                                                    *)

Writes(b) == {r \in Recs : r.buf = b}

(* The buffers in the FIFO from the firmware, those posted, the one a      *)
(* write has in hand, and those thrown away: disjoint, and all there are.  *)
IdleBufs(q) == {b \in TxBuffers : Meets(q, {b})}

PostedBufs(q) == {b \in TxBuffers : Meets(q, Writes(b))}

InHand == {b \in TxBuffers : \E t \in Threads : call[t].at = "postA" /\ call[t].buf = b}

TxApart(F, P, H, D) ==
  /\ F \union P \union H \union D = TxBuffers
  /\ F \intersect (P \union H \union D) = {}
  /\ P \intersect (H \union D) = {}
  /\ H \intersect D = {}

TxOwned ==
  /\ TxApart(IdleBufs(txFree), PostedBufs(txPost["A"]), InHand, txDropped)
  /\ \A b \in TxBuffers : Once(txFree, {b}) /\ Once(txPost["A"], Writes(b))

LEMMA IdleAppend ==
  ASSUME NEW q \in Seq(Handles), \A b \in TxBuffers : Once(q, {b}),
         NEW x \in Handles, x \notin IdleBufs(q)
  PROVE  /\ IdleBufs(Append(q, x)) = IdleBufs(q) \union ({x} \ {None})
         /\ \A b \in TxBuffers : Once(Append(q, x), {b})
<1>1. \A b \in TxBuffers :
        /\ Meets(Append(q, x), {b}) <=> Meets(q, {b}) \/ x \in {b}
        /\ Once(q, {b}) /\ (x \in {b} => ~Meets(q, {b})) => Once(Append(q, x), {b})
  BY MeetsAppend
<1> QED  BY <1>1, DriverAssumption DEF IdleBufs, Handles

LEMMA IdleTail ==
  ASSUME NEW q \in Seq(Handles), q # <<>>, \A b \in TxBuffers : Once(q, {b})
  PROVE  /\ IdleBufs(Tail(q)) = IdleBufs(q) \ {Head(q)}
         /\ Head(q) # None => Head(q) \in IdleBufs(q)
         /\ \A b \in TxBuffers : Once(Tail(q), {b})
<1>1. \A b \in TxBuffers :
        /\ Meets(Tail(q), {b}) <=> Meets(q, {b}) /\ Head(q) \notin {b}
        /\ Once(Tail(q), {b}) /\ (Head(q) \in {b} => Meets(q, {b}))
  BY MeetsTail
<1>2. Head(q) \in Handles
  OBVIOUS
<1> QED  BY <1>1, <1>2 DEF IdleBufs, Handles

LEMMA PostedAppend ==
  ASSUME NEW q \in Seq(Recs), \A b \in TxBuffers : Once(q, Writes(b)),
         NEW r \in Recs, r.buf \notin PostedBufs(q)
  PROVE  /\ PostedBufs(Append(q, r)) = PostedBufs(q) \union {r.buf}
         /\ \A b \in TxBuffers : Once(Append(q, r), Writes(b))
<1>1. \A b \in TxBuffers :
        /\ Meets(Append(q, r), Writes(b)) <=> Meets(q, Writes(b)) \/ r \in Writes(b)
        /\ Once(q, Writes(b)) /\ (r \in Writes(b) => ~Meets(q, Writes(b)))
             => Once(Append(q, r), Writes(b))
  BY MeetsAppend
<1>2. r.buf \in TxBuffers /\ \A b : r \in Writes(b) <=> r.buf = b
  BY DEF Recs, Writes
<1> QED  BY <1>1, <1>2 DEF PostedBufs

LEMMA PostedTail ==
  ASSUME NEW q \in Seq(Recs), q # <<>>, \A b \in TxBuffers : Once(q, Writes(b))
  PROVE  /\ PostedBufs(Tail(q)) = PostedBufs(q) \ {Head(q).buf}
         /\ Head(q).buf \in PostedBufs(q)
         /\ \A b \in TxBuffers : Once(Tail(q), Writes(b))
<1>1. \A b \in TxBuffers :
        /\ Meets(Tail(q), Writes(b)) <=> Meets(q, Writes(b)) /\ Head(q) \notin Writes(b)
        /\ Once(Tail(q), Writes(b)) /\ (Head(q) \in Writes(b) => Meets(q, Writes(b)))
  BY MeetsTail
<1>2. Head(q) \in Recs
  OBVIOUS
<1>3. Head(q).buf \in TxBuffers /\ \A b : Head(q) \in Writes(b) <=> Head(q).buf = b
  BY <1>2 DEF Recs, Writes
<1> QED  BY <1>1, <1>3 DEF PostedBufs

(* A step that moves no buffer.                                            *)
LEMMA NoneMoves ==
  ASSUME TxOwned, UNCHANGED <<txFree, txDropped>>, txPost'["A"] = txPost["A"],
         \A u \in Threads : call'[u] = call[u] \/ (call[u].at # "postA" /\ call'[u].at # "postA")
  PROVE  TxOwned'
<1>1. InHand' = InHand
  BY DEF InHand
<1>2. /\ IdleBufs(txFree)' = IdleBufs(txFree)
      /\ PostedBufs(txPost["A"])' = PostedBufs(txPost["A"])
  BY DEF IdleBufs, PostedBufs
<1> QED  BY <1>1, <1>2 DEF TxOwned

(* What a step of the thread that writes leaves in hand.                   *)
LEMMA OneInHand ==
  ASSUME NEW t \in Threads, \A u \in Threads \ {t} : ~InWrite(u) /\ call'[u] = call[u]
  PROVE  /\ InHand = {b \in TxBuffers : call[t].at = "postA" /\ call[t].buf = b}
         /\ InHand' = {b \in TxBuffers : call'[t].at = "postA" /\ call'[t].buf = b}
<1>1. \A u \in Threads \ {t} : call[u].at # "postA" /\ call'[u].at # "postA"
  BY DEF InWrite
<1> QED  BY <1>1 DEF InHand

LEMMA PopMoves ==
  ASSUME TxInv, TxOwned, NEW t \in Threads, PopTx(t)
  PROVE  TxOwned'
<1>0. CallOK /\ TxTypes /\ call[t].at = "txhandle" /\ InWrite(t) /\ UNCHANGED <<txPost, txDropped>>
  BY DEF TxInv, PopTx, InWrite
<1>1. \A u \in Threads \ {t} : ~InWrite(u)
  BY <1>0, Others DEF TxInv
<1>p. PostedBufs(txPost["A"])' = PostedBufs(txPost["A"])
  BY <1>0
<1>t. txFree # <<>> => /\ IdleBufs(Tail(txFree)) = IdleBufs(txFree) \ {Head(txFree)}
                       /\ Head(txFree) # None => Head(txFree) \in IdleBufs(txFree)
                       /\ \A b \in TxBuffers : Once(Tail(txFree), {b})
  BY <1>0, IdleTail DEF TxOwned, TxTypes
<1>2. CASE txFree = <<>>
  <2>1. txFree' = txFree /\ (Return(t) \/ To(t, "txwait"))
    BY <1>2 DEF PopTx, UpWrite
  <2>2. call'[t].at \in {"idle", "txwait"} /\ \A u \in Threads \ {t} : call'[u] = call[u]
    BY <2>1, <1>0, Goes, Returns
  <2> QED  BY <2>1, <2>2, <1>0, NoneMoves
<1>3. CASE txFree # <<>> /\ Head(txFree) = None
  <2>1. txFree' = Tail(txFree) /\ Return(t)
    BY <1>3 DEF PopTx, UpWrite
  <2>2. call'[t].at = "idle" /\ \A u \in Threads \ {t} : call'[u] = call[u]
    BY <2>1, <1>0, Returns
  <2>3. None \notin IdleBufs(txFree)
    BY DriverAssumption DEF IdleBufs
  <2>4. IdleBufs(txFree') = IdleBufs(txFree) /\ InHand' = InHand
        /\ \A b \in TxBuffers : Once(txFree', {b})
    BY <1>0, <1>3, <1>t, <2>1, <2>2, <2>3 DEF InHand
  <2> QED  BY <2>4, <1>p, <1>0 DEF TxOwned
<1>4. CASE txFree # <<>> /\ Head(txFree) # None
  <2>1. /\ call'[t].at = "postA" /\ call'[t].buf = Head(txFree)
        /\ \A u \in Threads \ {t} : call'[u] = call[u]
        /\ txFree' = Tail(txFree)
    BY <1>0, <1>4 DEF PopTx, CallOK
  <2>2. Head(txFree) \in TxBuffers
    BY <1>4, <1>t DEF IdleBufs
  <2>3. InHand = {} /\ InHand' = {Head(txFree)}
    BY <2>1, <2>2, <1>0, <1>1, OneInHand
  <2>4. TxApart(IdleBufs(txFree'), PostedBufs(txPost["A"])', InHand', txDropped')
    BY <1>4, <1>t, <2>1, <2>3, <1>p, <1>0 DEF TxOwned, TxApart
  <2> QED  BY <1>4, <1>t, <2>1, <2>4, <1>0 DEF TxOwned
<1> QED  BY <1>2, <1>3, <1>4

LEMMA WaitMoves ==
  ASSUME TxInv, TxOwned, NEW t \in Threads, WaitTx(t)
  PROVE  TxOwned'
<1>0. /\ CallOK /\ TxTypes /\ call[t].at = "txwait" /\ UNCHANGED txPost
      /\ call'[t].at = "txhandle" /\ \A u \in Threads \ {t} : call'[u] = call[u]
  BY Goes DEF TxInv, WaitTx
<1>1. CASE UNCHANGED <<txFree, txDropped>>
  BY <1>0, <1>1, NoneMoves
<1>2. CASE txFree # <<>> /\ txDropped' = txDropped \union ({Head(txFree)} \ {None})
           /\ txFree' = Tail(txFree)
  <2>1. /\ IdleBufs(txFree') = IdleBufs(txFree) \ {Head(txFree)}
        /\ Head(txFree) # None => Head(txFree) \in IdleBufs(txFree)
        /\ \A b \in TxBuffers : Once(txFree', {b})
    BY <1>0, <1>2, IdleTail DEF TxOwned, TxTypes
  <2>2. InHand' = InHand
    BY <1>0 DEF InHand
  <2>3. PostedBufs(txPost["A"])' = PostedBufs(txPost["A"])
    BY <1>0
  <2>4. None \notin IdleBufs(txFree)
    BY DriverAssumption DEF IdleBufs
  <2>5. TxApart(IdleBufs(txFree'), PostedBufs(txPost["A"])', InHand', txDropped')
    BY <2>1, <2>2, <2>3, <2>4, <1>2 DEF TxOwned, TxApart
  <2> QED  BY <2>1, <2>5, <1>0 DEF TxOwned
<1> QED  BY <1>1, <1>2 DEF WaitTx

LEMMA PostMoves ==
  ASSUME TxInv, TxOwned, NEW t \in Threads, Post(t)
  PROVE  TxOwned'
<1>0. CallOK /\ TxTypes /\ InWrite(t) /\ UNCHANGED <<txFree, txDropped>>
  BY DEF TxInv, Post, InWrite
<1>1. \A u \in Threads \ {t} : ~InWrite(u)
  BY <1>0, Others DEF TxInv
<1>2. CASE call[t].at = "postA"
  <2>1. To(t, "postB") /\ txPost'["A"] = Append(txPost["A"], Rec(t))
    BY <1>0, <1>2 DEF Post, Posted, Rec, TxTypes, Posts
  <2>2. call'[t].at = "postB" /\ \A u \in Threads \ {t} : call'[u] = call[u]
    BY <2>1, <1>0, Goes
  <2>3. Rec(t) \in Recs /\ Rec(t).buf = call[t].buf /\ call[t].buf \in TxBuffers
        /\ txPost["A"] \in Seq(Recs)
    BY <1>0, <1>2 DEF Rec, Recs, TxTypes, Posts
  <2>4. InHand = {call[t].buf} /\ InHand' = {}
    BY <2>2, <2>3, <1>1, <1>2, OneInHand
  <2>5. Rec(t).buf \notin PostedBufs(txPost["A"])
    BY <2>3, <2>4 DEF TxOwned, TxApart
  <2>6. /\ PostedBufs(txPost'["A"]) = PostedBufs(txPost["A"]) \union {call[t].buf}
        /\ \A b \in TxBuffers : Once(txPost'["A"], Writes(b))
    <3> DEFINE q == txPost["A"]  r == Rec(t)
    <3>1. \A b \in TxBuffers : Once(q, Writes(b))
      BY DEF TxOwned
    <3> HIDE DEF q, r
    <3>2. /\ PostedBufs(Append(q, r)) = PostedBufs(q) \union {r.buf}
          /\ \A b \in TxBuffers : Once(Append(q, r), Writes(b))
      BY <2>3, <2>5, <3>1, PostedAppend DEF q, r
    <3> QED  BY <2>1, <2>3, <3>2 DEF q, r
  <2>7. IdleBufs(txFree') = IdleBufs(txFree)
    BY <1>0
  <2>8. TxApart(IdleBufs(txFree'), PostedBufs(txPost'["A"]), InHand', txDropped')
    BY <2>4, <2>6, <2>7, <1>0 DEF TxOwned, TxApart
  <2> QED  BY <2>6, <2>8, <1>0 DEF TxOwned
<1>3. CASE call[t].at \in {"postB", "postC"}
  <2>1. (To(t, "postC") \/ Return(t)) /\ txPost'["A"] = txPost["A"]
    BY <1>0, <1>3 DEF Post, Posted, UpWrite, TxTypes, Posts
  <2>2. call'[t].at # "postA" /\ \A u \in Threads \ {t} : call'[u] = call[u]
    BY <2>1, <1>0, Goes, Returns
  <2> QED  BY <2>1, <2>2, <1>0, <1>3, NoneMoves
<1> QED  BY <1>2, <1>3 DEF Post

LEMMA SendMoves ==
  ASSUME TxInv, TxOwned, HwSend
  PROVE  TxOwned'
<1> DEFINE a == txPost["A"]
           x == Head(a).buf
<1>1. a \in Seq(Recs) /\ txFree \in Seq(Handles) /\ DOMAIN txPost = Posts
  BY DEF TxInv, TxTypes, Posts
<1>2. /\ a # <<>> /\ txPost'["A"] = Tail(a) /\ UNCHANGED call
      /\ \/ txFree' = Append(txFree, x) /\ txDropped' = txDropped
         \/ txFree' = Append(txFree, None) /\ txDropped' = txDropped \union {x}
  BY <1>1 DEF HwSend, Posts
<1>3. /\ PostedBufs(Tail(a)) = PostedBufs(a) \ {x} /\ x \in PostedBufs(a)
      /\ \A b \in TxBuffers : Once(Tail(a), Writes(b))
  BY <1>1, <1>2, PostedTail DEF TxOwned
<1>4. /\ x \in TxBuffers /\ x \in Handles /\ x # None /\ x \notin IdleBufs(txFree)
      /\ None \in Handles /\ None \notin IdleBufs(txFree)
  BY <1>3, DriverAssumption DEF TxOwned, TxApart, Handles, PostedBufs, IdleBufs
<1>5. \A b \in TxBuffers : Once(txFree, {b})
  BY DEF TxOwned
<1> HIDE DEF x, a
<1>6. /\ IdleBufs(Append(txFree, x)) = IdleBufs(txFree) \union {x}
      /\ IdleBufs(Append(txFree, None)) = IdleBufs(txFree)
      /\ \A b \in TxBuffers : Once(Append(txFree, x), {b}) /\ Once(Append(txFree, None), {b})
  <2>1. \A h \in Handles : h \notin IdleBufs(txFree) =>
          /\ IdleBufs(Append(txFree, h)) = IdleBufs(txFree) \union ({h} \ {None})
          /\ \A b \in TxBuffers : Once(Append(txFree, h), {b})
    BY <1>1, <1>5, IdleAppend
  <2> QED  BY <2>1, <1>4
<1>7. InHand' = InHand
  BY <1>2 DEF InHand
<1>8. \/ IdleBufs(txFree') = IdleBufs(txFree) \union {x} /\ txDropped' = txDropped
      \/ IdleBufs(txFree') = IdleBufs(txFree) /\ txDropped' = txDropped \union {x}
  BY <1>2, <1>6
<1>9. PostedBufs(txPost'["A"]) = PostedBufs(a) \ {x}
  BY <1>2, <1>3
<1>10. TxApart(IdleBufs(txFree), PostedBufs(a), InHand, txDropped) /\ x \in PostedBufs(a)
  BY <1>3 DEF TxOwned, a
<1>11. TxApart(IdleBufs(txFree'), PostedBufs(txPost'["A"]), InHand', txDropped')
  BY <1>7, <1>8, <1>9, <1>10 DEF TxApart
<1> QED  BY <1>2, <1>3, <1>6, <1>11 DEF TxOwned

LEMMA InitTxOwned == Init => TxOwned
<1> SUFFICES ASSUME Init PROVE TxOwned  OBVIOUS
<1>1. /\ \A t \in Threads : call[t].at = "idle"
      /\ txPost["A"] = <<>> /\ txDropped = {} /\ txFree = IndexOrder(TxBuffers)
  BY DEF Init, Idle
<1>2. \A b \in TxBuffers : Meets(txFree, {b}) /\ Once(txFree, {b})
  BY <1>1, Whole, DriverAssumption
<1>3. IdleBufs(txFree) = TxBuffers /\ InHand = {}
  BY <1>1, <1>2 DEF IdleBufs, InHand
<1>4. PostedBufs(txPost["A"]) = {} /\ \A b \in TxBuffers : Once(txPost["A"], Writes(b))
  BY <1>1 DEF PostedBufs, Meets, Once
<1> QED  BY <1>1, <1>2, <1>3, <1>4 DEF TxOwned, TxApart

LEMMA StepTxOwned == TxInv /\ TxOwned /\ [Next]_vars => TxOwned'
<1> SUFFICES ASSUME TxInv, TxOwned, [Next]_vars PROVE TxOwned'  OBVIOUS
<1>1. CASE HwStart \/ HwWord \/ Open \/ Close \/ UNCHANGED vars
  BY <1>1, NoneMoves DEF HwStart, HwWord, Open, Close, vars, txVars
<1>2. CASE HwSend
  BY <1>2, SendMoves
<1>3. ASSUME NEW t \in Threads, PopTx(t) \/ WaitTx(t) \/ Post(t) PROVE TxOwned'
  BY <1>3, PopMoves, WaitMoves, PostMoves
<1>4. ASSUME NEW t \in Threads, DownWrite(t) \/ UpTx(t) PROVE TxOwned'
  <2>1. /\ call[t].at \in {"down", "txup"}
        /\ Return(t) \/ \E place \in {"txhandle", "txup"} : To(t, place)
        /\ UNCHANGED <<txFree, txPost, txDropped>>
    BY <1>4 DEF DownWrite, UpTx, UpWrite
  <2>2. call'[t].at # "postA" /\ \A u \in Threads \ {t} : call'[u] = call[u]
    BY <2>1, Goes, Returns DEF TxInv
  <2> QED  BY <2>1, <2>2, NoneMoves
<1>5. ASSUME NEW t \in Threads,
             \/ DownRead(t) \/ UpRead(t) \/ PopHandle(t) \/ WaitRead(t) \/ PopSize(t)
             \/ PopStatus(t) \/ Finish(t) \/ PostUser(t) \/ Interrupted(t)
             \/ \E op \in Commands, b \in held \union {None} : Call(t, op, b)
      PROVE  TxOwned'
  <2>1. /\ UNCHANGED txVars /\ ~InWrite(t) /\ ~InWrite(t)'
        /\ \A u \in Threads \ {t} : call'[u] = call[u]
    BY <1>5, ReadMoves DEF TxInv
  <2>2. call[t].at # "postA" /\ call'[t].at # "postA"
    BY <2>1 DEF InWrite
  <2> QED  BY <2>1, <2>2, NoneMoves DEF txVars
<1> QED  BY <1>1, <1>2, <1>3, <1>4, <1>5 DEF Next, Step

LEMMA TxPlacesOne ==
  ASSUME TxInv, TxOwned, NEW b \in TxBuffers
  PROVE  TxPlaces(b) = 1
<1> DEFINE a == txPost["A"]
           T == {t \in Threads : call[t].at = "postA" /\ call[t].buf = b}
           N == Cardinality(In(b, txFree))
           M == Cardinality({i \in DOMAIN a : a[i].buf = b})
<1>1. txFree \in Seq(Handles) /\ a \in Seq(Recs) /\ Once(txFree, {b}) /\ Once(a, Writes(b))
  BY DEF TxInv, TxTypes, TxOwned, Posts
<1>2. N = IF b \in IdleBufs(txFree) THEN 1 ELSE 0
  <2>1. In(b, txFree) = {i \in DOMAIN txFree : txFree[i] \in {b}}
    BY DEF In
  <2> QED  BY <2>1, <1>1, OnceCount DEF IdleBufs
<1>3. M = IF b \in PostedBufs(a) THEN 1 ELSE 0
  <2>1. \A i \in DOMAIN a : a[i] \in Recs
    BY <1>1
  <2>2. {i \in DOMAIN a : a[i].buf = b} = {i \in DOMAIN a : a[i] \in Writes(b)}
    BY <2>1 DEF Writes
  <2> QED  BY <2>2, <1>1, OnceCount DEF PostedBufs
<1>4. Cardinality(T) = IF b \in InHand THEN 1 ELSE 0
  <2>1. CASE b \in InHand
    <3>1. PICK t \in Threads : call[t].at = "postA" /\ call[t].buf = b
      BY <2>1 DEF InHand
    <3>2. \A u \in Threads : call[u].at = "postA" => u = t
      BY <3>1 DEF TxInv, OneWriter, InWrite
    <3>3. T = {t}
      BY <3>1, <3>2
    <3> QED  BY <3>3, <2>1, FS_Singleton
  <2>2. CASE b \notin InHand
    <3>1. T = {}
      BY <2>2 DEF InHand
    <3> QED  BY <3>1, <2>2, FS_EmptySet
  <2> QED  BY <2>1, <2>2
<1>5. /\ b \in IdleBufs(txFree) \/ b \in PostedBufs(a) \/ b \in InHand \/ b \in txDropped
      /\ b \in IdleBufs(txFree) => b \notin PostedBufs(a) /\ b \notin InHand /\ b \notin txDropped
      /\ b \in PostedBufs(a) => b \notin InHand /\ b \notin txDropped
      /\ b \in InHand => b \notin txDropped
  BY DEF TxOwned, TxApart
<1> DEFINE one(p) == IF p THEN 1 ELSE 0
<1>6. TxPlaces(b) = N + M + Cardinality(T) + one(b \in txDropped)
  BY DEF TxPlaces
<1> HIDE DEF T, N, M, a
<1> QED  BY <1>2, <1>3, <1>4, <1>5, <1>6

-----------------------------------------------------------------------------
(* What is lost                                                            *)

(* As long as no word was thrown away or spoiled, the words are good, and  *)
(* a read has taken a handle for its handle.                               *)
InOrder ==
  /\ ~wasted => /\ dropped = {} /\ readSem # Gone
                /\ \A i \in DOMAIN rxPend : rxPend[i].good
                /\ \A t \in Threads : InFrame(t) => call[t].good
  /\ ~txWasted => txDropped = {}

(* One word more, and one less.                                            *)
LEMMA GoodWords ==
  ASSUME NEW q \in Seq(Words), \A i \in DOMAIN q : q[i].good
  PROVE  /\ \A w \in Words : w.good => \A i \in DOMAIN Append(q, w) : Append(q, w)[i].good
         /\ q # <<>> => Head(q).good /\ \A i \in DOMAIN Tail(q) : Tail(q)[i].good
<1>1. ASSUME NEW w \in Words, w.good PROVE \A i \in DOMAIN Append(q, w) : Append(q, w)[i].good
  BY <1>1
<1>2. ASSUME q # <<>> PROVE Head(q).good /\ \A i \in DOMAIN Tail(q) : Tail(q)[i].good
  <2>1. /\ Head(q) = q[1] /\ 1 \in DOMAIN q
        /\ \A i \in DOMAIN Tail(q) : Tail(q)[i] = q[i + 1] /\ i + 1 \in DOMAIN q
    BY <1>2
  <2> QED  BY <2>1
<1> QED  BY <1>1, <1>2

(* A step of the read of t that wastes nothing finds the word it wants.    *)
LEMMA Wanted ==
  ASSUME RxInv, ~wasted, InOrder, NEW t \in Threads, InRead(t), rxPend # <<>>
  PROVE  /\ Head(rxPend).good /\ \A i \in DOMAIN Tail(rxPend) : Tail(rxPend)[i].good
         /\ call[t].at = "handle" => Head(rxPend).kind = "handle"
         /\ call[t].at \in {"size", "status"} => Head(rxPend).kind = call[t].at
<1>1. rxPend \in Seq(Words) /\ dropped = {}
  BY DEF RxInv, FramesInv, RxTypes, InOrder
<1>2. Knows(call[t].at, call[t].buf, {}, Head(rxPend), filling)
  BY <1>1, WordFacts DEF RxInv
<1>3. Head(rxPend).good /\ \A i \in DOMAIN Tail(rxPend) : Tail(rxPend)[i].good
  BY <1>1, GoodWords DEF InOrder
<1> QED  BY <1>2, <1>3 DEF Knows

(* A step that takes no word and gives none.                               *)
LEMMA OrderKept ==
  ASSUME InOrder, UNCHANGED <<rxPend, dropped, wasted>>, readSem' = readSem \/ readSem' # Gone,
         \A u \in Threads : InFrame(u)' => InFrame(u) /\ call'[u] = call[u],
         ~txWasted' => ~txWasted /\ txDropped' = txDropped
  PROVE  InOrder'
BY DEF InOrder

LEMMA OrderStep ==
  ASSUME "small" \notin Faults, TxInv, RxInv, InOrder, [Next]_vars
  PROVE  InOrder'
<1>0. CallOK /\ rxPend \in Seq(Words) /\ OneReader /\ FramesInv
  BY DEF TxInv, RxInv, FramesInv, RxTypes
<1>n. \A t \in Threads : t # Gone
  BY DriverAssumption
<1>1. CASE HwStart \/ Close \/ OtherStep
  <2>1. /\ UNCHANGED <<call, rxPend, dropped, wasted, readSem>>
        /\ ~txWasted' => ~txWasted /\ txDropped' = txDropped
    BY <1>1 DEF HwStart, Close, OtherStep, HwSend, Open, vars, rxVars, txVars
  <2> QED  BY <2>1, OrderKept DEF InFrame
<1>2. CASE HwWord
  <2>1. PICK good \in BOOLEAN :
          /\ rxPend' = Append(rxPend, [kind |-> filling.next, buf |-> filling.buf, good |-> good])
          /\ wasted' = (wasted \/ ~good)
    BY <1>2 DEF HwWord
  <2> DEFINE w == [kind |-> filling.next, buf |-> filling.buf, good |-> good]
  <2>2. w \in Words /\ w.good = good /\ UNCHANGED <<call, dropped, readSem, txVars>>
    BY <1>2 DEF HwWord, FramesInv, RxTypes, Fillings, Words, RxInv
  <2>3. ~wasted' => good /\ ~wasted
    BY <2>1
  <2>4. ~wasted' => \A i \in DOMAIN rxPend' : rxPend'[i].good
    <3> SUFFICES ASSUME ~wasted' PROVE \A i \in DOMAIN rxPend' : rxPend'[i].good
      OBVIOUS
    <3>1. w.good /\ \A i \in DOMAIN rxPend : rxPend[i].good
      BY <2>2, <2>3 DEF InOrder
    <3>2. rxPend' = Append(rxPend, w)
      BY <2>1
    <3> HIDE DEF w
    <3> QED  BY <3>1, <3>2, <2>2, <1>0, GoodWords
  <2> QED  BY <2>2, <2>3, <2>4 DEF InOrder, InFrame, txVars
<1>3. ASSUME NEW t \in Threads, WriteStep(t) PROVE InOrder'
  <2>1. /\ UNCHANGED <<rxPend, dropped, wasted, readSem>>
        /\ ~InFrame(t)' /\ \A u \in Threads \ {t} : call'[u] = call[u]
    BY <1>0, <1>3, WriteMoves DEF rxVars
  <2>2. ~txWasted' => ~txWasted /\ txDropped' = txDropped
    BY <1>3 DEF WriteStep, DownWrite, PopTx, WaitTx, Post, UpTx
  <2> QED  BY <2>1, <2>2, OrderKept DEF InFrame
<1>4. ASSUME NEW t \in Threads, QuietStep(t) PROVE InOrder'
  <2>1. /\ ~InFrame(t)' /\ \A u \in Threads \ {t} : call'[u] = call[u]
        /\ UNCHANGED <<rxPend, dropped>>
    BY <1>0, <1>4, QuietMoves
  <2>2. UNCHANGED <<wasted, txVars>> /\ (readSem' = readSem \/ readSem' \in {t, None})
    BY <1>4 DEF QuietStep, DownRead, UpRead, Interrupted, PopHandle, WaitRead, Call
  <2> QED  BY <1>n, <2>1, <2>2, DriverAssumption, OrderKept DEF InFrame, txVars
<1>5. ASSUME NEW t \in Threads, rxPend # <<>>, PopHandle(t) PROVE InOrder'
  <2> DEFINE b == Head(rxPend).buf
             g == Head(rxPend).kind = "handle" /\ Head(rxPend).good
  <2>0. /\ call' = [call EXCEPT ![t] = [@ EXCEPT !.at = "size", !.buf = b, !.good = g]]
        /\ UNCHANGED wasted
    BY <1>5, Zenon DEF PopHandle
  <2>1. call'[t].good = g /\ UNCHANGED wasted
    <3> HIDE DEF b, g
    <3> QED  BY <1>0, <2>0 DEF CallOK
  <2>2. /\ call[t].at = "handle" /\ InRead(t) /\ rxPend' = Tail(rxPend)
        /\ \A u \in Threads \ {t} : call'[u] = call[u]
        /\ UNCHANGED <<readSem, dropped, txVars>>
    BY <1>0, <1>5, Pops DEF InRead
  <2>3. ~wasted => call'[t].good /\ \A i \in DOMAIN rxPend' : rxPend'[i].good
    BY <2>1, <2>2, <1>5, Wanted
  <2> QED  BY <2>1, <2>2, <2>3 DEF InOrder, InFrame, txVars
<1>6. ASSUME NEW t \in Threads, rxPend # <<>>, WaitRead(t) PROVE InOrder'
  BY <1>6 DEF WaitRead, InOrder, txVars
<1>7. ASSUME NEW t \in Threads, PopSize(t) \/ PopStatus(t) PROVE InOrder'
  <2>1. PICK k \in {"size", "status"} :
          PopNext(t, k, IF k = "size" THEN "status" ELSE "found")
    BY <1>7 DEF PopSize, PopStatus
  <2>2. /\ call[t].at = k /\ InRead(t) /\ InFrame(t) /\ rxPend # <<>> /\ rxPend' = Tail(rxPend)
        /\ UNCHANGED <<wasted, txVars>>
    BY <2>1 DEF PopNext, InRead, InFrame
  <2>3. CASE wasted
    BY <2>2, <2>3 DEF InOrder, txVars
  <2>4. CASE ~wasted
    <3>1. /\ Head(rxPend).kind = k /\ Head(rxPend).good
          /\ \A i \in DOMAIN rxPend' : rxPend'[i].good
      BY <2>2, <2>4, Wanted
    <3>2. \E p \in {"status", "found"} : To(t, p) /\ UNCHANGED <<readSem, dropped>>
      BY <2>1, <3>1 DEF PopNext
    <3>3. call'[t].good = call[t].good /\ \A u \in Threads \ {t} : call'[u] = call[u]
      BY <3>2, <1>0 DEF To, CallOK
    <3>4. \A u \in Threads : InFrame(u)' => InFrame(u) /\ call'[u].good = call[u].good
      BY <2>2, <3>3 DEF InFrame
    <3> QED  BY <2>2, <2>4, <3>1, <3>2, <3>4 DEF InOrder, txVars
  <2> QED  BY <2>3, <2>4
<1>8. ASSUME NEW t \in Threads, Finish(t) PROVE InOrder'
  <2>1. /\ call[t].at = "found" /\ To(t, "up") /\ UNCHANGED <<readSem, rxPend, wasted, txVars>>
        /\ call[t].good => dropped' = dropped
    BY <1>8 DEF Finish
  <2>2. ~InFrame(t)' /\ InFrame(t) /\ \A u \in Threads \ {t} : call'[u] = call[u]
    BY <2>1, <1>0, Goes DEF InFrame
  <2> QED  BY <2>1, <2>2 DEF InOrder, InFrame, txVars
<1>9. ASSUME NEW t \in Threads, PostUser(t) PROVE InOrder'
  <2>1. /\ To(t, "up") /\ UNCHANGED <<readSem, rxPend, dropped, wasted, txVars>>
    BY <1>9 DEF PostUser
  <2>2. ~InFrame(t)' /\ \A u \in Threads \ {t} : call'[u] = call[u]
    BY <2>1, <1>0, Goes DEF InFrame
  <2> QED  BY <2>1, <2>2, OrderKept DEF InFrame, txVars
<1> QED  BY <1>1, <1>2, <1>3, <1>4, <1>5, <1>6, <1>7, <1>8, <1>9, Steps

LEMMA InitOrder == Init => InOrder
BY DriverAssumption DEF Init, InOrder, InFrame, Idle

LEMMA BufferInvariant == Spec => [](TxInv /\ RxInv /\ TxOwned)
<1>1. Spec => []TxOwned
  BY InitTx, StepTx, InitTxOwned, StepTxOwned, PTL DEF Spec
<1> QED  BY RxInvariant, <1>1, PTL

(* Each receive and each transmit buffer is in one place at any time: with *)
(* the firmware, in one of the driver's FIFOs, in the hands of one call or *)
(* with the program, or it is lost; none is in two FIFOs or twice in one.  *)
(* This is so whatever faults there are.                                   *)
THEOREM DriverAccounted ==
  Spec => []((\A b \in Buffers : Places(b) = 1) /\ (\A b \in TxBuffers : TxPlaces(b) = 1))
<1>1. TxInv /\ RxInv /\ TxOwned =>
        (\A b \in Buffers : Places(b) = 1) /\ (\A b \in TxBuffers : TxPlaces(b) = 1)
  BY RxPlaces, TxPlacesOne
<1> QED  BY BufferInvariant, <1>1, PTL

(* If every frame fits in what a READ_COPY has for it, no buffer is lost,  *)
(* and the semaphore of the readers neither, until a wait throws a word    *)
(* away or the firmware spoils one: the threads that read at once never    *)
(* take each other's words.                                                *)
THEOREM DriverOnePlace ==
  ASSUME "small" \notin Faults
  PROVE  Spec => []OnePlace
<1>1. TxInv /\ RxInv /\ TxOwned /\ InOrder => OnePlace
  BY RxPlaces, TxPlacesOne DEF OnePlace, InOrder
<1>2. TxInv /\ RxInv /\ InOrder /\ [Next]_vars => InOrder'
  BY OrderStep
<1>3. Spec => []InOrder
  BY InitOrder, <1>2, RxInvariant, PTL DEF Spec
<1> QED  BY BufferInvariant, <1>1, <1>3, PTL

===============================================================================
