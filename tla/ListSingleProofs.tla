-------------------------- MODULE ListSingleProofs ---------------------------
(***************************************************************************)
(* What the pointers of List-Single.hh amount to, for every number of      *)
(* nodes and every order of the operations: a scan from the head meets a   *)
(* sequence of nodes, and each operation changes it as SingleList says.    *)
(***************************************************************************)
EXTENDS ListSingle, FiniteSetTheorems, WellFoundedInduction, TLAPS

-----------------------------------------------------------------------------
(* Induction over the natural numbers, for sets of them                    *)

LEMMA Least ==
  ASSUME NEW T, T \subseteq Nat, T # {}
  PROVE  \E x \in T : \A y \in T : x <= y
<1>1. IsWellFoundedOn(OpToRel(<, Nat), Nat)
  BY NatLessThanWellFounded
<1>2. PICK x \in T : \A y \in T : ~ (<<y, x>> \in OpToRel(<, Nat))
  BY <1>1, WFMin
<1>3. ASSUME NEW y \in T PROVE x <= y
  <2>1. <<y, x>> \in Nat \X Nat
    OBVIOUS
  <2>2. ~(y < x)
    BY <1>2, <2>1 DEF OpToRel
  <2>. QED  BY <2>2
<1>. QED  BY <1>3

LEMMA Induction ==
  ASSUME NEW T, 0 \in T, \A n \in Nat : n \in T => n + 1 \in T
  PROVE  Nat \subseteq T
<1>. SUFFICES ASSUME Nat \ T # {} PROVE FALSE
  OBVIOUS
<1>1. PICK x \in Nat \ T : \A y \in Nat \ T : x <= y
  BY Least
<1>2. x - 1 \in Nat /\ x = (x - 1) + 1 /\ ~(x <= x - 1)
  BY <1>1
<1>3. x - 1 \in T
  BY <1>1, <1>2
<1>. QED  BY <1>1, <1>2, <1>3

(* A function can be followed from one value to the next.                  *)
Maps(f, S) == f \in [S -> S]

Follows(g, f, x, n) ==
  /\ DOMAIN g = 0 .. n /\ g = [i \in DOMAIN g |-> g[i]]
  /\ g[0] = x
  /\ \A i \in 1 .. n : g[i] = f[g[i - 1]]

LEMMA Follow ==
  ASSUME NEW S, NEW f, Maps(f, S), NEW x \in S, NEW n \in Nat
  PROVE  \E g : Follows(g, f, x, n)
<1>. DEFINE P(g, m) == /\ g \in [0 .. m -> S] /\ g[0] = x
                       /\ \A i \in 1 .. m : g[i] = f[g[i - 1]]
            T == {m \in Nat : \E g : P(g, m)}
<1>. USE DEF Maps
<1>1. 0 \in T
  <2>1. P([i \in 0 .. 0 |-> x], 0)
    OBVIOUS
  <2>. QED  BY <2>1
<1>2. ASSUME NEW m \in Nat, m \in T PROVE m + 1 \in T
  <2>1. PICK g : P(g, m)
    BY <1>2
  <2>. DEFINE h == [i \in 0 .. m + 1 |-> IF i = m + 1 THEN f[g[m]] ELSE g[i]]
  <2>2. g \in [0 .. m -> S] /\ g[m] \in S /\ f[g[m]] \in S
    BY <2>1
  <2>3. h \in [0 .. m + 1 -> S]
    BY <2>2
  <2>4. h[0] = x /\ h[m + 1] = f[g[m]] /\ \A i \in 0 .. m : h[i] = g[i]
    BY <2>1
  <2>. HIDE DEF h
  <2>5. ASSUME NEW i \in 1 .. m + 1 PROVE h[i] = f[h[i - 1]]
    <3>1. CASE i = m + 1
      BY <2>4, <3>1
    <3>2. CASE i # m + 1
      <4>1. i \in 1 .. m /\ i \in 0 .. m /\ i - 1 \in 0 .. m
        BY <3>2
      <4>. QED  BY <2>1, <2>4, <4>1
    <3>. QED  BY <3>1, <3>2
  <2>6. P(h, m + 1)
    BY <2>3, <2>4, <2>5
  <2>. QED  BY <2>6
<1>. HIDE DEF T
<1>3. n \in T
  BY <1>1, <1>2, Induction
<1>4. PICK g : P(g, n)
  BY <1>3 DEF T
<1>. QED  BY <1>4 DEF Follows

-----------------------------------------------------------------------------
(* The scan                                                                *)

N == Cardinality(Nodes)

LEMMA NodeCount == N \in Nat
BY NodesAssumption, FS_CardinalityType DEF N

LEMMA ReachSteps ==
  ASSUME flnk \in [Links -> Links]
  PROVE  /\ reach[0] = Head0
         /\ \A k \in Nat : k <= N => reach[k + 1] = flnk[reach[k]]
<1>. DEFINE R(g) == [k \in 0 .. N + 1 |-> IF k = 0 THEN Head0 ELSE flnk[g[k - 1]]]
            m == N + 1
<1>1. m \in Nat /\ Head0 \in Links
  BY NodeCount DEF Links
<1>. HIDE DEF m
<1>2. PICK g : Follows(g, flnk, Head0, m)
  <2>1. Maps(flnk, Links)
    BY DEF Maps
  <2>. QED  BY <1>1, <2>1, Follow
<1>3. g = R(g)
  <2>1. \A k \in 0 .. m : k = 0 \/ k \in 1 .. m
    BY <1>1
  <2>. QED  BY <1>2, <2>1 DEF Follows, m
<1>4. reach = CHOOSE h : h = R(h)
  BY Zenon DEF reach, N
<1>5. reach = R(reach)
  <2>. HIDE DEF R
  <2>. QED  BY <1>3, <1>4, Zenon
<1>6. reach[0] = Head0
  <2>1. 0 \in 0 .. N + 1
    BY NodeCount
  <2>. QED  BY <1>5, <2>1
<1>7. ASSUME NEW k \in Nat, k <= N PROVE reach[k + 1] = flnk[reach[k]]
  <2>1. k + 1 \in 0 .. N + 1 /\ k + 1 # 0 /\ (k + 1) - 1 = k
    BY <1>7, NodeCount
  <2>. QED  BY <1>5, <2>1
<1>. QED  BY <1>6, <1>7

(* The nodes of s, in order, are what the links lead to from the head.     *)
Chain(s) ==
  /\ s \in Seq(Nodes)
  /\ \A i, j \in 1 .. Len(s) : s[i] = s[j] => i = j
  /\ \A i \in 1 .. Len(s) : s[i] \notin out
  /\ flnk[Head0] = IF Len(s) = 0 THEN Head0 ELSE s[1]
  /\ \A i \in 1 .. Len(s) : flnk[s[i]] = IF i = Len(s) THEN Head0 ELSE s[i + 1]

LEMMA ChainFits ==
  ASSUME NEW s, Chain(s)
  PROVE  Len(s) \in Nat /\ Len(s) <= N
<1>. DEFINE n == Len(s)  f == [i \in 1 .. n |-> s[i]]
<1>1. n \in Nat /\ \A i \in 1 .. n : s[i] \in Nodes
  BY DEF Chain
<1>. HIDE DEF n
<1>2. f \in Injection(1 .. n, Nodes)
  BY <1>1 DEF Chain, Injection, IsInjective, n
<1>3. IsFiniteSet(1 .. n) /\ Cardinality(1 .. n) = n
  BY <1>1, FS_Interval
<1>4. Cardinality(1 .. n) <= Cardinality(Nodes)
  BY <1>2, NodesAssumption, FS_Injection
<1>. QED  BY <1>1, <1>3, <1>4 DEF N, n

LEMMA ScanIsChain ==
  ASSUME flnk \in [Links -> Links], NEW s, Chain(s)
  PROVE  Scan = s /\ Length = Len(s)
<1>. DEFINE n == Len(s)
<1>1. n \in Nat /\ n <= N /\ N \in Nat
  BY ChainFits, NodeCount
<1>2. s \in [1 .. n -> Nodes]
  BY DEF Chain
<1>3. reach[1] = IF n = 0 THEN Head0 ELSE s[1]
  BY <1>1, ReachSteps DEF Chain
<1>4. \A i \in 1 .. n : s[i] # Head0
  BY <1>2, HeadAssumption
<1>5. ASSUME NEW k \in Nat, k \in 1 .. n, reach[k] = s[k]
      PROVE  reach[k + 1] = IF k = n THEN Head0 ELSE s[k + 1]
  <2>1. reach[k + 1] = flnk[s[k]]
    BY <1>1, <1>5, ReachSteps
  <2>. QED  BY <1>5, <2>1 DEF Chain
<1>. HIDE DEF n
<1>. DEFINE T == {k \in Nat : k + 1 \in 1 .. n => reach[k + 1] = s[k + 1]}
<1>6. 0 \in T
  BY <1>1, <1>3
<1>7. ASSUME NEW k \in Nat, k \in T PROVE k + 1 \in T
  <2>. SUFFICES ASSUME (k + 1) + 1 \in 1 .. n PROVE reach[(k + 1) + 1] = s[(k + 1) + 1]
    OBVIOUS
  <2>1. k + 1 \in 1 .. n /\ k + 1 # n /\ k + 1 \in Nat
    BY <1>1
  <2>2. reach[k + 1] = s[k + 1]
    BY <1>7, <2>1
  <2>. QED  BY <1>5, <2>1, <2>2
<1>. HIDE DEF T
<1>8. \A k \in Nat : k \in T
  BY <1>6, <1>7, Induction
<1>9. \A k \in 1 .. n : reach[k] = s[k]
  <2>. SUFFICES ASSUME NEW k \in 1 .. n PROVE reach[k] = s[k]
    OBVIOUS
  <2>1. k - 1 \in Nat /\ (k - 1) + 1 = k
    BY <1>1
  <2>2. k - 1 \in T
    BY <1>8, <2>1
  <2>. QED  BY <2>1, <2>2 DEF T
<1>10. reach[n + 1] = Head0
  <2>1. CASE n = 0
    BY <1>3, <2>1
  <2>2. CASE n # 0
    <3>1. n \in 1 .. n
      BY <1>1, <2>2
    <3>. QED  BY <1>1, <1>5, <1>9, <3>1
  <2>. QED  BY <2>1, <2>2
<1>11. Length = n
  <2>. DEFINE Q(k) == reach[k + 1] = Head0 /\ \A j \in 1 .. k : reach[j] # Head0
  <2>1. n \in 0 .. N /\ Q(n)
    BY <1>1, <1>4, <1>9, <1>10
  <2>2. ASSUME NEW k \in 0 .. N, Q(k) PROVE k = n
    <3>1. ~(k < n)
      <4>. SUFFICES ASSUME k < n PROVE FALSE
        BY <1>1
      <4>1. k + 1 \in 1 .. n
        BY <1>1
      <4>. QED  BY <1>4, <1>9, <2>2, <4>1
    <3>2. ~(n < k)
      <4>. SUFFICES ASSUME n < k PROVE FALSE
        BY <1>1
      <4>1. n + 1 \in 1 .. k
        BY <1>1
      <4>. QED  BY <1>10, <2>2, <4>1
    <3>. QED  BY <1>1, <3>1, <3>2
  <2>3. Length = CHOOSE k \in 0 .. N : Q(k)
    BY DEF Length, N
  <2>. HIDE DEF Q
  <2>. QED  BY <2>1, <2>2, <2>3
<1>. QED  BY <1>1, <1>2, <1>9, <1>11 DEF Scan, n

-----------------------------------------------------------------------------
(* What the operations do                                                  *)

(* The list holds s; its backward link is at the end of it or loose.       *)
Holds(s) ==
  /\ Chain(s)
  /\ blnk = Head0 \/ (Len(s) # 0 /\ blnk = s[Len(s)])

(* It holds what its user put there, if the user keeps to one end, and     *)
(* when that is the tail the backward link is not loose.                   *)
AsExpected(s) ==
  /\ used # {"tail", "head"} => s = expect
  /\ used \subseteq {"tail"} /\ blnk = Head0 => Len(s) = 0

PInv == TypeOK /\ \E s : Holds(s) /\ AsExpected(s)

ScanIsHeld ==
  \A s : TypeOK /\ Holds(s) =>
          AsList = [nodes |-> s, loose |-> blnk = Head0 /\ Len(s) > 0]

LEMMA ListOfHeld == ScanIsHeld
BY ScanIsChain DEF AsList, TypeOK, Holds, ScanIsHeld

LEMMA InitHolds == Init => PInv
<1>. SUFFICES ASSUME Init PROVE PInv
  OBVIOUS
<1>1. TypeOK
  BY DEF Init, TypeOK, Links
<1>2. Holds(<< >>) /\ AsExpected(<< >>)
  BY DEF Init, Holds, Chain, AsExpected, Links
<1>. QED  BY <1>1, <1>2 DEF PInv

LEMMA TypeStep == TypeOK /\ [Next]_lvars => TypeOK'
<1>. SUFFICES ASSUME TypeOK, [Next]_lvars PROVE TypeOK'
  OBVIOUS
<1>. USE DEF TypeOK
<1>1. Head0 \in Links /\ Nodes \subseteq Links
  BY DEF Links
<1>2. ASSUME NEW n \in Nodes, insert_tail(n) PROVE TypeOK'
  BY <1>1, <1>2 DEF insert_tail
<1>3. ASSUME NEW n \in Nodes, insert_head(n) PROVE TypeOK'
  BY <1>1, <1>3 DEF insert_head
<1>4. CASE remove_head
  BY <1>1, <1>4 DEF remove_head, Links
<1>5. CASE UNCHANGED lvars
  BY <1>5 DEF lvars
<1>. QED  BY <1>2, <1>3, <1>4, <1>5 DEF Next

(* A node goes to the end, or the list starts afresh with it.              *)
LEMMA TailHolds ==
  ASSUME TypeOK, NEW s, Holds(s), AsExpected(s), NEW n \in Nodes, insert_tail(n),
         NEW t, t = Append(IF blnk = Head0 THEN << >> ELSE s, n)
  PROVE  Holds(t)' /\ AsExpected(t)'
<1>. DEFINE k == Len(s)
<1>1. /\ n \in out /\ blnk' = n /\ flnk' = [flnk EXCEPT ![n] = Head0, ![blnk] = n]
      /\ out' = out \ {n} /\ expect' = Append(expect, n) /\ used' = used \union {"tail"}
  BY DEF insert_tail
<1>2. /\ s \in Seq(Nodes) /\ k \in Nat /\ \A i \in 1 .. k : s[i] \in Nodes /\ s[i] # n
      /\ n # Head0 /\ \A i \in 1 .. k : s[i] # Head0
  BY <1>1, HeadAssumption DEF Holds, Chain
<1>3. flnk \in [Links -> Links] /\ n \in Links /\ Head0 \in Links
  BY DEF TypeOK, Links
<1>4. n \notin out'
  BY <1>1
<1>5. Chain(t)' /\ Len(t) # 0 /\ t[Len(t)] = n
  <2>1. CASE blnk = Head0
    <3>1. t \in Seq(Nodes) /\ Len(t) = 1 /\ t[1] = n
      BY <2>1
    <3>2. flnk'[n] = Head0 /\ flnk'[Head0] = n
      BY <1>1, <1>2, <1>3, <2>1
    <3>3. \A i \in 1 .. 1 : i = 1
      OBVIOUS
    <3>. QED  BY <1>4, <3>1, <3>2, <3>3 DEF Chain
  <2>2. CASE blnk # Head0
    <3>1. k \in 1 .. k /\ blnk = s[k] /\ blnk \in Links
      BY <1>2, <2>2 DEF Holds, Links
    <3>2. /\ Len(t) = k + 1 /\ t[k + 1] = n /\ \A i \in 1 .. k : t[i] = s[i]
          /\ t \in Seq(Nodes)
      BY <1>2, <2>2
    <3>. HIDE DEF k
    <3>3. /\ flnk'[n] = Head0 /\ flnk'[s[k]] = n
          /\ \A x \in Links : x # n /\ x # s[k] => flnk'[x] = flnk[x]
      BY <1>1, <1>2, <1>3, <3>1
    <3>4. \A i \in 1 .. k + 1 : i \in 1 .. k \/ i = k + 1
      BY <1>2
    <3>5. \A i, j \in 1 .. k + 1 : t[i] = t[j] => i = j
      BY <1>2, <3>2, <3>4 DEF Holds, Chain, k
    <3>6. \A i \in 1 .. k + 1 : t[i] \notin out'
      BY <1>1, <1>4, <3>2, <3>4 DEF Holds, Chain, k
    <3>7. flnk'[Head0] = t[1]
      BY <1>2, <1>3, <3>1, <3>2, <3>3 DEF Holds, Chain, k
    <3>8. ASSUME NEW i \in 1 .. k + 1
          PROVE  flnk'[t[i]] = IF i = k + 1 THEN Head0 ELSE t[i + 1]
      <4>1. CASE i = k + 1
        BY <3>2, <3>3, <4>1
      <4>2. CASE i = k
        BY <1>2, <3>1, <3>2, <3>3, <4>2
      <4>3. CASE i \in 1 .. k /\ i # k
        <5>1. i + 1 \in 1 .. k /\ i # k + 1
          BY <1>2, <4>3
        <5>2. s[i] # s[k] /\ flnk[s[i]] = s[i + 1] /\ s[i] \in Links
          BY <1>2, <3>1, <4>3 DEF Holds, Chain, k, Links
        <5>. QED  BY <1>2, <3>2, <3>3, <4>3, <5>1, <5>2
      <4>. QED  BY <3>4, <4>1, <4>2, <4>3
    <3>. QED  BY <1>2, <3>2, <3>5, <3>6, <3>7, <3>8 DEF Chain
  <2>. QED  BY <2>1, <2>2
<1>6. used' # {"tail", "head"} => t = expect'
  <2>. SUFFICES ASSUME used' # {"tail", "head"} PROVE t = expect'
    OBVIOUS
  <2>1. used \subseteq {"tail"}
    BY <1>1 DEF TypeOK
  <2>2. s = expect /\ (blnk = Head0 => s = << >>)
    BY <1>2, <2>1 DEF AsExpected
  <2>. QED  BY <1>1, <2>2
<1>7. Holds(t)'
  BY <1>1, <1>5 DEF Holds
<1>8. AsExpected(t)'
  BY <1>1, <1>2, <1>6 DEF AsExpected
<1>. QED  BY <1>7, <1>8

(* A node goes to the front; the backward link stays as it is.             *)
LEMMA HeadHolds ==
  ASSUME TypeOK, NEW s, Holds(s), AsExpected(s), NEW n \in Nodes, insert_head(n)
  PROVE  Holds(<<n>> \o s)' /\ AsExpected(<<n>> \o s)'
<1>. DEFINE k == Len(s)  t == <<n>> \o s
<1>1. /\ n \in out /\ blnk' = blnk
      /\ flnk' = [flnk EXCEPT ![n] = flnk[Head0], ![Head0] = n]
      /\ out' = out \ {n} /\ expect' = <<n>> \o expect /\ used' = used \union {"head"}
  BY DEF insert_head
<1>2. /\ s \in Seq(Nodes) /\ k \in Nat /\ \A i \in 1 .. k : s[i] \in Nodes /\ s[i] # n
      /\ n # Head0 /\ \A i \in 1 .. k : s[i] # Head0
  BY <1>1, HeadAssumption DEF Holds, Chain
<1>3. /\ Len(t) = k + 1 /\ t[1] = n /\ \A i \in 1 .. k : t[i + 1] = s[i]
      /\ t \in Seq(Nodes)
  BY <1>2
<1>4. used' # {"tail", "head"} => t = expect'
  BY <1>1 DEF TypeOK, AsExpected
<1>. HIDE DEF t, k
<1>5. /\ flnk'[Head0] = n /\ flnk'[n] = flnk[Head0]
      /\ \A x \in Links : x # n /\ x # Head0 => flnk'[x] = flnk[x]
  BY <1>1, <1>2 DEF TypeOK, Links
<1>6. \A i \in 1 .. k + 1 : i = 1 \/ (i - 1 \in 1 .. k /\ i = (i - 1) + 1)
  BY <1>2
<1>7. Chain(t)'
  <2>1. \A i, j \in 1 .. k + 1 : t[i] = t[j] => i = j
    <3>1. \A i \in 1 .. k + 1 : i = 1 \/ (i - 1 \in 1 .. k /\ t[i] = s[i - 1])
      BY <1>3, <1>6
    <3>2. \A i, j \in 1 .. k : s[i] = s[j] => i = j
      BY DEF Holds, Chain, k
    <3>3. \A i, j \in 1 .. k + 1 : i - 1 = j - 1 => i = j
      BY <1>2
    <3>4. ASSUME NEW i \in 1 .. k + 1, NEW j \in 1 .. k + 1, t[i] = t[j]
          PROVE  i = j
      <4>1. CASE i = 1 \/ j = 1
        BY <1>2, <1>3, <3>1, <3>4, <4>1
      <4>2. CASE i # 1 /\ j # 1
        <5>1. i - 1 = j - 1
          BY <3>1, <3>2, <3>4, <4>2
        <5>. QED  BY <3>3, <5>1
      <4>. QED  BY <4>1, <4>2
    <3>. QED  BY <3>4
  <2>2. \A i \in 1 .. k + 1 : t[i] \notin out'
    <3>1. \A i \in 1 .. k : s[i] \notin out
      BY DEF Holds, Chain, k
    <3>. QED  BY <1>1, <1>3, <1>6, <3>1
  <2>3. ASSUME NEW i \in 1 .. k + 1
        PROVE  flnk'[t[i]] = IF i = k + 1 THEN Head0 ELSE t[i + 1]
    <3>1. CASE i = 1
      <4>1. flnk'[t[i]] = IF k = 0 THEN Head0 ELSE s[1]
        BY <1>3, <1>5, <3>1 DEF Holds, Chain, k
      <4>2. k # 0 => 1 \in 1 .. k
        BY <1>2
      <4>. QED  BY <1>2, <1>3, <3>1, <4>1, <4>2
    <3>2. CASE i # 1
      <4>. DEFINE j == i - 1
      <4>1. j \in 1 .. k /\ i = j + 1
        BY <1>6, <3>2
      <4>. HIDE DEF j
      <4>2. t[i] = s[j] /\ flnk'[s[j]] = flnk[s[j]]
        BY <1>2, <1>3, <1>5, <4>1 DEF Links
      <4>3. flnk[s[j]] = IF j = k THEN Head0 ELSE s[j + 1]
        BY <4>1 DEF Holds, Chain, k
      <4>4. j # k => j + 1 \in 1 .. k
        BY <1>2, <4>1
      <4>. QED  BY <1>2, <1>3, <4>1, <4>2, <4>3, <4>4
    <3>. QED  BY <3>1, <3>2
  <2>. QED  BY <1>2, <1>3, <1>5, <2>1, <2>2, <2>3 DEF Chain
<1>8. Holds(t)'
  <2>1. blnk # Head0 => k \in 1 .. k /\ blnk = s[k]
    BY <1>2 DEF Holds, k
  <2>. QED  BY <1>1, <1>2, <1>3, <1>7, <2>1 DEF Holds
<1>9. AsExpected(t)'
  BY <1>1, <1>4 DEF AsExpected
<1>. QED  BY <1>8, <1>9 DEF t

(* The first node goes. *)
LEMMA RemoveHolds ==
  ASSUME TypeOK, NEW s, Holds(s), AsExpected(s), remove_head
  PROVE  /\ Len(s) # 0 /\ Holds(Tail(s))' /\ AsExpected(Tail(s))'
         /\ out' \ out = {Head(s)}
         /\ blnk' = IF Len(s) = 1 THEN Head0 ELSE blnk
<1>. DEFINE k == Len(s)  t == Tail(s)  h == flnk[Head0]
<1>1. /\ h # Head0 /\ flnk' = [flnk EXCEPT ![Head0] = flnk[h]]
      /\ blnk' = IF flnk[h] = Head0 THEN Head0 ELSE blnk
      /\ out' = out \union {h} /\ used' = used
      /\ expect' = IF expect = << >> THEN expect ELSE Tail(expect)
  BY DEF remove_head
<1>2. /\ s \in Seq(Nodes) /\ k \in Nat \ {0} /\ h = s[1] /\ h = Head(s)
      /\ \A i \in 1 .. k : s[i] \in Nodes /\ s[i] # Head0
  BY <1>1, HeadAssumption DEF Holds, Chain
<1>3. /\ Len(t) = k - 1 /\ \A i \in 1 .. k - 1 : t[i] = s[i + 1]
      /\ t \in Seq(Nodes)
  BY <1>2
<1>4. used' # {"tail", "head"} => t = expect'
  BY <1>1, <1>2 DEF AsExpected
<1>. HIDE DEF t, k, h
<1>5. /\ 1 \in 1 .. k /\ k - 1 \in Nat /\ (k # 1 => 2 \in 1 .. k /\ 1 \in 1 .. k - 1)
      /\ \A i \in 1 .. k - 1 : i \in 1 .. k /\ i + 1 \in 1 .. k /\ (i + 1 = k <=> i = k - 1)
      /\ \A i \in 1 .. k - 1 : i # k - 1 => i + 1 \in 1 .. k - 1
  BY <1>2
<1>6. flnk[h] = IF k = 1 THEN Head0 ELSE s[2]
  BY <1>2, <1>5 DEF Holds, Chain, k
<1>7. /\ flnk'[Head0] = flnk[h]
      /\ \A x \in Links : x # Head0 => flnk'[x] = flnk[x]
  BY <1>1 DEF TypeOK, Links
<1>8. blnk' = IF k = 1 THEN Head0 ELSE blnk
  BY <1>1, <1>2, <1>5, <1>6
<1>9. Chain(t)'
  <2>1. \A i, j \in 1 .. k - 1 : t[i] = t[j] => i = j
    <3>1. \A i, j \in 1 .. k : s[i] = s[j] => i = j
      BY DEF Holds, Chain, k
    <3>2. \A i, j \in 1 .. k - 1 : i + 1 = j + 1 => i = j
      BY <1>5
    <3>. QED  BY <1>3, <1>5, <3>1, <3>2
  <2>2. \A i \in 1 .. k - 1 : t[i] \notin out'
    <3>1. \A i \in 1 .. k - 1 : s[i + 1] \notin out /\ s[i + 1] # s[1]
      <4>1. \A i \in 1 .. k - 1 : i + 1 # 1
        BY <1>5
      <4>. QED  BY <1>5, <4>1 DEF Holds, Chain, k
    <3>. QED  BY <1>1, <1>2, <1>3, <3>1
  <2>3. flnk'[Head0] = IF k - 1 = 0 THEN Head0 ELSE t[1]
    BY <1>2, <1>3, <1>5, <1>6, <1>7
  <2>4. ASSUME NEW i \in 1 .. k - 1
        PROVE  flnk'[t[i]] = IF i = k - 1 THEN Head0 ELSE t[i + 1]
    <3>1. flnk'[t[i]] = flnk[s[i + 1]]
      BY <1>2, <1>3, <1>5, <1>7 DEF Links
    <3>2. flnk[s[i + 1]] = IF i + 1 = k THEN Head0 ELSE s[(i + 1) + 1]
      BY <1>5 DEF Holds, Chain, k
    <3>. QED  BY <1>3, <1>5, <3>1, <3>2
  <2>. QED  BY <1>3, <2>1, <2>2, <2>3, <2>4 DEF Chain
<1>10. Holds(t)'
  <2>1. blnk' # Head0 => k # 1 /\ blnk' = s[k]
    BY <1>8 DEF Holds, k
  <2>2. k # 1 => k - 1 \in 1 .. k - 1 /\ (k - 1) + 1 = k
    BY <1>2
  <2>. QED  BY <1>3, <1>5, <1>9, <2>1, <2>2 DEF Holds
<1>11. AsExpected(t)'
  <2>1. used' \subseteq {"tail"} /\ blnk' = Head0 => k - 1 = 0
    <3>. SUFFICES ASSUME used' \subseteq {"tail"}, blnk' = Head0, k # 1 PROVE FALSE
      BY <1>2
    <3>. QED  BY <1>1, <1>2, <1>8 DEF AsExpected, k
  <2>. QED  BY <1>3, <1>4, <2>1 DEF AsExpected
<1>12. out' \ out = {Head(s)}
  <2>1. s[1] \notin out
    BY <1>5 DEF Holds, Chain, k
  <2>. QED  BY <1>1, <1>2, <2>1
<1>. QED  BY <1>2, <1>8, <1>10, <1>11, <1>12 DEF t, k

LEMMA PInvNext == PInv /\ [Next]_lvars => PInv'
<1>. SUFFICES ASSUME PInv, [Next]_lvars PROVE PInv'
  OBVIOUS
<1>1. TypeOK' /\ TypeOK
  BY TypeStep DEF PInv
<1>2. PICK s : Holds(s) /\ AsExpected(s)
  BY DEF PInv
<1>3. ASSUME NEW n \in Nodes, insert_tail(n) PROVE PInv'
  <2>1. PICK t : t = Append(IF blnk = Head0 THEN << >> ELSE s, n)
    OBVIOUS
  <2>2. Holds(t)' /\ AsExpected(t)'
    BY <1>1, <1>2, <1>3, <2>1, TailHolds
  <2>. QED  BY <1>1, <2>2 DEF PInv
<1>4. ASSUME NEW n \in Nodes, insert_head(n) PROVE PInv'
  <2>1. Holds(<<n>> \o s)' /\ AsExpected(<<n>> \o s)'
    BY <1>1, <1>2, <1>4, HeadHolds
  <2>. QED  BY <1>1, <2>1 DEF PInv
<1>5. CASE remove_head
  <2>1. Holds(Tail(s))' /\ AsExpected(Tail(s))'
    BY <1>1, <1>2, <1>5, RemoveHolds
  <2>. QED  BY <1>1, <2>1 DEF PInv
<1>6. CASE UNCHANGED lvars
  <2>1. Holds(s)' /\ AsExpected(s)'
    BY <1>2, <1>6 DEF lvars, Holds, Chain, AsExpected
  <2>. QED  BY <1>1, <2>1 DEF PInv
<1>. QED  BY <1>3, <1>4, <1>5, <1>6 DEF Next

-----------------------------------------------------------------------------
(* The theorems                                                            *)

(* As long as the user of a list keeps to insert_tail, or to insert_head,  *)
(* the list holds what was put there and not removed, in that order: no    *)
(* node is lost, for any number of nodes and any length of use.            *)
THEOREM ListHoldsWhatWasPut == Spec => []HoldsWhatWasPut
<1>1. PInv => HoldsWhatWasPut
  <2>. SUFFICES ASSUME PInv, used # {"tail", "head"} PROVE Scan = expect
    BY DEF HoldsWhatWasPut
  <2>1. PICK s : Holds(s) /\ AsExpected(s)
    BY DEF PInv
  <2>2. Scan = s
    BY <2>1, ScanIsChain DEF PInv, TypeOK, Holds
  <2>. QED  BY <2>1, <2>2 DEF AsExpected
<1>. QED  BY InitHolds, PInvNext, <1>1, PTL DEF Spec

LEMMA StepsAsSingleList ==
  PInv /\ PInv' /\ Next =>
      \/ \E n \in out \ out' : AsList' = Lists!InsertTail(AsList, n)
      \/ \E n \in out \ out' : AsList' = Lists!InsertHead(AsList, n)
      \/ /\ AsList.nodes # << >>
         /\ out' \ out = {Head(AsList.nodes)}
         /\ AsList' = Lists!RemoveHead(AsList)
<1>. SUFFICES ASSUME PInv, PInv', Next
              PROVE  \/ \E n \in out \ out' : AsList' = Lists!InsertTail(AsList, n)
                     \/ \E n \in out \ out' : AsList' = Lists!InsertHead(AsList, n)
                     \/ /\ AsList.nodes # << >>
                        /\ out' \ out = {Head(AsList.nodes)}
                        /\ AsList' = Lists!RemoveHead(AsList)
  OBVIOUS
<1>1. TypeOK /\ TypeOK'
  BY DEF PInv
<1>2. PICK s : Holds(s) /\ AsExpected(s)
  BY DEF PInv
<1>. DEFINE l == AsList
<1>3. /\ l.nodes = s /\ l.loose \in BOOLEAN /\ (l.loose <=> blnk = Head0 /\ Len(s) > 0)
      /\ s \in Seq(Nodes) /\ Len(s) \in Nat /\ (Len(s) = 0 <=> s = << >>)
  <2>1. l = [nodes |-> s, loose |-> blnk = Head0 /\ Len(s) > 0]
    BY <1>1, <1>2, ListOfHeld DEF ScanIsHeld
  <2>2. s \in Seq(Nodes) /\ Len(s) \in Nat /\ (Len(s) = 0 <=> s = << >>)
    BY <1>2 DEF Holds, Chain
  <2>3. PICK b \in BOOLEAN : b <=> blnk = Head0 /\ Len(s) > 0
    OBVIOUS
  <2>4. l = [nodes |-> s, loose |-> b]
    BY <2>1, <2>3
  <2>. HIDE DEF l
  <2>5. l.nodes = s /\ l.loose = b
    BY <2>4
  <2>. QED  BY <2>2, <2>3, <2>5
<1>4. \A t : Holds(t)' =>
        l' = [nodes |-> t, loose |-> blnk' = Head0 /\ Len(t) > 0]
  <2>1. ScanIsHeld'
    BY ListOfHeld, PTL
  <2>. QED  BY <1>1, <2>1 DEF ScanIsHeld
<1>. HIDE DEF l
<1>5. ASSUME NEW n \in Nodes, insert_tail(n)
      PROVE  n \in out \ out' /\ l' = Lists!InsertTail(l, n)
  <2>1. PICK t : t = Append(IF blnk = Head0 THEN << >> ELSE s, n)
    OBVIOUS
  <2>2. Holds(t)' /\ blnk' = n /\ n # Head0 /\ n \in out \ out'
    BY <1>1, <1>2, <1>5, <2>1, TailHolds, HeadAssumption DEF insert_tail
  <2>3. l' = [nodes |-> t, loose |-> FALSE]
    BY <1>4, <2>2
  <2>4. (IF l.loose THEN << >> ELSE l.nodes) = IF blnk = Head0 THEN << >> ELSE s
    BY <1>3
  <2>. QED  BY <2>1, <2>2, <2>3, <2>4 DEF Lists!InsertTail
<1>6. ASSUME NEW n \in Nodes, insert_head(n)
      PROVE  n \in out \ out' /\ l' = Lists!InsertHead(l, n)
  <2>1. Holds(<<n>> \o s)' /\ blnk' = blnk /\ n \in out \ out'
    BY <1>1, <1>2, <1>6, HeadHolds DEF insert_head
  <2>2. l' = [nodes |-> <<n>> \o s, loose |-> blnk = Head0]
    <3>1. Len(<<n>> \o s) > 0
      BY <1>3
    <3>2. l' = [nodes |-> <<n>> \o s, loose |-> blnk' = Head0 /\ Len(<<n>> \o s) > 0]
      BY <1>4, <2>1
    <3>. QED  BY <2>1, <3>1, <3>2
  <2>3. blnk = Head0 <=> l.loose \/ l.nodes = << >>
    BY <1>2, <1>3 DEF Holds
  <2>. QED  BY <1>3, <2>1, <2>2, <2>3 DEF Lists!InsertHead
<1>7. ASSUME remove_head
      PROVE  /\ l.nodes # << >> /\ out' \ out = {Head(l.nodes)}
             /\ l' = Lists!RemoveHead(l)
  <2>1. /\ Len(s) # 0 /\ Holds(Tail(s))' /\ out' \ out = {Head(s)}
        /\ blnk' = IF Len(s) = 1 THEN Head0 ELSE blnk
    BY <1>1, <1>2, <1>7, RemoveHolds
  <2>2. l' = [nodes |-> Tail(s), loose |-> blnk' = Head0 /\ Len(Tail(s)) > 0]
    BY <1>4, <2>1
  <2>3. blnk' = Head0 /\ Len(Tail(s)) > 0 <=> l.loose /\ Len(l.nodes) > 1
    <3>1. Len(Tail(s)) = Len(s) - 1
      BY <1>3, <2>1
    <3>. QED  BY <1>3, <2>1, <3>1
  <2>. QED  BY <1>3, <2>1, <2>2, <2>3 DEF Lists!RemoveHead
<1>. QED  BY <1>5, <1>6, <1>7 DEF Next, l

(* Whatever order the operations come in, each does to the chain of        *)
(* pointers what SingleList says: this is what RxRun, whose lists are      *)
(* SingleLists, rests on.                                                  *)
THEOREM ListRefinesSingleList == Spec => BehavesAsSingleList
<1>1. PInv /\ PInv' /\ [Next]_lvars =>
        [ \/ \E n \in out \ out' : AsList' = Lists!InsertTail(AsList, n)
          \/ \E n \in out \ out' : AsList' = Lists!InsertHead(AsList, n)
          \/ /\ AsList.nodes # << >>
             /\ out' \ out = {Head(AsList.nodes)}
             /\ AsList' = Lists!RemoveHead(AsList) ]_lvars
  BY StepsAsSingleList
<1>. QED  BY InitHolds, PInvNext, <1>1, PTL DEF Spec, BehavesAsSingleList

=============================================================================
