----------------------------- MODULE DriverProofs ---------------------------
(***************************************************************************)
(* Proofs about the two drivers whose interrupt handlers share data with    *)
(* the main thread.                                                         *)
(*                                                                          *)
(* The timer's alarm list, for any number of events, functions and delays.  *)
(* What the model checker checks is inductive once the list is known to be  *)
(* in the order the alarms are due, and a search to have passed only alarms *)
(* that are not due after the new one.                                      *)
(*                                                                          *)
(* The keyboard, for a ring of any size, any number of keys pressed and any *)
(* number of bytes on their way.                                            *)
(***************************************************************************)
EXTENDS Timer, Keyboard, SequenceTheorems, FiniteSetTheorems, TLAPS
Left(k) == left[evlist[k].ev]
Sorted == \A j, k \in DOMAIN evlist : j <= k => Left(j) <= Left(k)
WalkInOrder ==
  walk # NoWalk => walk.tsum <= walk.ticks /\ left[walk.ev] = walk.ticks

TimerInv == TimerTypeOK /\ DeltasAddUp /\ NodesDistinct /\ NoneOverdue /\ Sorted /\ WalkInOrder

-----------------------------------------------------------------------------
(* The list as TimerTypeOK has it *)
LEMMA ListFacts ==
  ASSUME TimerTypeOK
  PROVE  /\ Len(evlist) \in Nat /\ DOMAIN evlist = 1 .. Len(evlist)
         /\ \A k \in 1 .. Len(evlist) :
              evlist[k] \in Node /\ evlist[k].ev \in Events /\ evlist[k].dt \in Int
              /\ evlist[k].func \in Funcs /\ Left(k) \in Int
         /\ (evlist = << >> <=> Len(evlist) = 0)
<1>1. evlist \in Seq(Node)
  BY DEF TimerTypeOK
<1>2. Len(evlist) \in Nat /\ DOMAIN evlist = 1 .. Len(evlist)
  BY <1>1
<1>3. ASSUME NEW k \in 1 .. Len(evlist)
      PROVE  evlist[k] \in Node /\ evlist[k].ev \in Events /\ evlist[k].dt \in Int
              /\ evlist[k].func \in Funcs /\ Left(k) \in Int
  <2>1. evlist[k] \in Node
    BY <1>1
  <2>2. evlist[k].ev \in Events /\ evlist[k].dt \in Int /\ evlist[k].func \in Funcs
    BY <2>1 DEF Node
  <2>3. Left(k) \in Int
    BY <2>2 DEF TimerTypeOK, Left
  <2>. QED BY <2>1, <2>2, <2>3
<1>4. evlist = << >> <=> Len(evlist) = 0
  BY <1>1
<1>. QED BY <1>2, <1>3, <1>4

(* A node with another dt is a node *)
LEMMA WithDtFacts ==
  ASSUME NEW n \in Node, NEW d \in Int
  PROVE  /\ WithDt(n, d) \in Node
         /\ WithDt(n, d).ev = n.ev /\ WithDt(n, d).func = n.func /\ WithDt(n, d).dt = d
  BY DEF WithDt, Node

(* A function on 1 .. n is a sequence *)
LEMMA SeqOfFunction ==
  ASSUME NEW S, NEW n \in Nat, NEW f \in [1 .. n -> S]
  PROVE  f \in Seq(S) /\ Len(f) = n /\ DOMAIN f = 1 .. n
  OBVIOUS

(* What InsertAfter returns *)
LEMMA InsertFacts ==
  ASSUME TimerTypeOK, NEW k \in 0 .. Len(evlist), NEW node \in Node
  PROVE  /\ InsertAfter(k, node) \in Seq(Node)
         /\ Len(InsertAfter(k, node)) = Len(evlist) + 1
         /\ DOMAIN InsertAfter(k, node) = 1 .. Len(evlist) + 1
         /\ \A i \in 1 .. Len(evlist) + 1 :
              InsertAfter(k, node)[i] =
                IF i <= k THEN evlist[i]
                ELSE IF i = k + 1 THEN node
                ELSE IF i = k + 2 THEN WithDt(evlist[i - 1], evlist[i - 1].dt - node.dt)
                ELSE evlist[i - 1]
<1>1. Len(evlist) \in Nat /\ \A i \in 1 .. Len(evlist) : evlist[i] \in Node
  BY ListFacts
<1>2. ASSUME NEW i \in 1 .. Len(evlist) + 1
      PROVE  (IF i <= k THEN evlist[i]
              ELSE IF i = k + 1 THEN node
              ELSE IF i = k + 2 THEN WithDt(evlist[i - 1], evlist[i - 1].dt - node.dt)
              ELSE evlist[i - 1]) \in Node
  <2>1. CASE i <= k
    BY <1>1, <2>1
  <2>2. CASE i = k + 1
    BY <2>2
  <2>3. CASE i > k + 1
    <3>1. i - 1 \in 1 .. Len(evlist) /\ evlist[i - 1] \in Node
      BY <1>1, <2>3
    <3>2. WithDt(evlist[i - 1], evlist[i - 1].dt - node.dt) \in Node
      <4>1. evlist[i - 1].dt - node.dt \in Int
        BY <3>1 DEF Node
      <4>. QED BY <3>1, <4>1, WithDtFacts
    <3>. QED BY <2>3, <3>1, <3>2
  <2>. QED BY <1>1, <2>1, <2>2, <2>3
<1>3. InsertAfter(k, node) \in [1 .. Len(evlist) + 1 -> Node]
  BY <1>1, <1>2 DEF InsertAfter
<1>. QED BY <1>1, <1>3, SeqOfFunction DEF InsertAfter

(* What Remove returns *)
LEMMA RemoveFacts ==
  ASSUME TimerTypeOK, NEW k \in 1 .. Len(evlist)
  PROVE  /\ Remove(k) \in Seq(Node)
         /\ Len(Remove(k)) = Len(evlist) - 1
         /\ DOMAIN Remove(k) = 1 .. Len(evlist) - 1
         /\ \A i \in 1 .. Len(evlist) - 1 :
              Remove(k)[i] =
                IF i < k THEN evlist[i]
                ELSE IF i = k THEN WithDt(evlist[i + 1], evlist[i + 1].dt + evlist[k].dt)
                ELSE evlist[i + 1]
<1>1. Len(evlist) \in Nat /\ \A i \in 1 .. Len(evlist) : evlist[i] \in Node
  BY ListFacts
<1>2. ASSUME NEW i \in 1 .. Len(evlist) - 1
      PROVE  (IF i < k THEN evlist[i]
              ELSE IF i = k THEN WithDt(evlist[i + 1], evlist[i + 1].dt + evlist[k].dt)
              ELSE evlist[i + 1]) \in Node
  <2>1. evlist[i] \in Node /\ evlist[i + 1] \in Node /\ evlist[k] \in Node
    BY <1>1
  <2>2. WithDt(evlist[i + 1], evlist[i + 1].dt + evlist[k].dt) \in Node
    <3>1. evlist[i + 1].dt + evlist[k].dt \in Int
      BY <2>1 DEF Node
    <3>. QED BY <2>1, <3>1, WithDtFacts
  <2>. QED BY <2>1, <2>2
<1>3. Remove(k) \in [1 .. Len(evlist) - 1 -> Node]
  BY <1>2 DEF Remove
<1>4. Len(evlist) - 1 \in Nat
  BY <1>1
<1>. QED BY <1>3, <1>4, SeqOfFunction DEF Remove

-----------------------------------------------------------------------------
(* The parts of the invariant that speak of the list, of any list s and any *)
(* ticks l left: what a change of the list has to establish anew.           *)
Deltas(s, l) ==
  \A i \in DOMAIN s : l[s[i].ev] = s[i].dt + (IF i = 1 THEN 0 ELSE l[s[i - 1].ev])
Distinct(s) == \A i, j \in DOMAIN s : s[i].ev = s[j].ev => i = j
Ordered(s, l) == \A i, j \in DOMAIN s : i <= j => l[s[i].ev] <= l[s[j].ev]
AtLeast(s, l, n) == \A i \in DOMAIN s : l[s[i].ev] >= n
View(s, l) ==
  {[ev |-> s[i].ev, func |-> s[i].func, left |-> l[s[i].ev]] : i \in DOMAIN s}
Good(s, l, n) == Deltas(s, l) /\ Distinct(s) /\ Ordered(s, l) /\ AtLeast(s, l, n)

LEMMA GoodList ==
  ASSUME TimerInv
  PROVE  Good(evlist, left, IF ctx = "main" THEN 1 ELSE 0)
  BY DEF TimerInv, Good, Deltas, Distinct, Ordered, AtLeast, Left, DeltasAddUp, NodesDistinct,
         NoneOverdue, Sorted

(* A node that is put where the search leaves it, with the ticks that are   *)
(* left to it after the node before, keeps a good list good.                *)
LEMMA InsertKeeps ==
  ASSUME TimerTypeOK, NEW n \in Int, Good(evlist, left, n),
         NEW k \in 0 .. Len(evlist), NEW node \in Node, NEW l \in [Events -> Int],
         node.ev \notin InUse, \A e \in InUse : l[e] = left[e],
         node.dt = l[node.ev] - (IF k = 0 THEN 0 ELSE Left(k)),
         k > 0 => Left(k) <= l[node.ev],
         k < Len(evlist) => l[node.ev] <= Left(k + 1),
         l[node.ev] >= n
  PROVE  /\ Good(InsertAfter(k, node), l, n)
         /\ View(InsertAfter(k, node), l) =
              View(evlist, left)
                \union {[ev |-> node.ev, func |-> node.func, left |-> l[node.ev]]}
<1> DEFINE s == InsertAfter(k, node)
           old(i) == IF i <= k THEN i ELSE i - 1
<1>1. /\ Len(evlist) \in Nat /\ DOMAIN evlist = 1 .. Len(evlist)
      /\ \A i \in 1 .. Len(evlist) : evlist[i] \in Node /\ evlist[i].ev \in InUse
                                     /\ Left(i) \in Int /\ evlist[i].dt \in Int
                                     /\ l[evlist[i].ev] = Left(i)
  BY ListFacts DEF InUse, Left
<1>2. DOMAIN s = 1 .. Len(evlist) + 1
  BY InsertFacts
<1>3. ASSUME NEW i \in 1 .. Len(evlist) + 1, i # k + 1
      PROVE  /\ old(i) \in 1 .. Len(evlist)
             /\ s[i].ev = evlist[old(i)].ev /\ s[i].func = evlist[old(i)].func
             /\ l[s[i].ev] = Left(old(i))
             /\ s[i].dt = IF i = k + 2 THEN evlist[old(i)].dt - node.dt ELSE evlist[old(i)].dt
  <2>1. old(i) \in 1 .. Len(evlist)
    BY <1>1, <1>3
  <2>2. evlist[old(i)] \in Node /\ evlist[old(i)].dt - node.dt \in Int
    BY <1>1, <2>1 DEF Node
  <2>3. s[i] = IF i = k + 2 THEN WithDt(evlist[old(i)], evlist[old(i)].dt - node.dt)
               ELSE evlist[old(i)]
    BY <1>1, <1>3, InsertFacts
  <2>4. /\ s[i].ev = evlist[old(i)].ev /\ s[i].func = evlist[old(i)].func
        /\ s[i].dt = IF i = k + 2 THEN evlist[old(i)].dt - node.dt ELSE evlist[old(i)].dt
    <3> HIDE DEF s, old
    <3>1. CASE i = k + 2
      <4> DEFINE d == evlist[old(i)].dt - node.dt
      <4>1. s[i] = WithDt(evlist[old(i)], d)
        BY <2>3, <3>1
      <4>2. d \in Int /\ evlist[old(i)] \in Node
        BY <2>2
      <4> HIDE DEF d
      <4>3. s[i].ev = evlist[old(i)].ev /\ s[i].func = evlist[old(i)].func /\ s[i].dt = d
        BY <4>1 DEF WithDt
      <4>. QED BY <3>1, <4>3 DEF d
    <3>2. CASE i # k + 2
      BY <2>3, <3>2
    <3>. QED BY <3>1, <3>2
  <2> HIDE DEF s, old
  <2>. QED BY <1>1, <2>1, <2>4
<1>4. s[k + 1] = node /\ k + 1 \in 1 .. Len(evlist) + 1 /\ l[node.ev] \in Int
  <2>1. k + 1 \in 1 .. Len(evlist) + 1 /\ ~(k + 1 <= k)
    BY <1>1
  <2>2. s[k + 1] = node
    BY <2>1, InsertFacts
  <2>3. l[node.ev] \in Int
    BY DEF Node
  <2>. QED BY <2>1, <2>2, <2>3
<1> HIDE DEF s
<1>5. Deltas(s, l)
  <2> SUFFICES ASSUME NEW i \in 1 .. Len(evlist) + 1
               PROVE  l[s[i].ev] = s[i].dt + (IF i = 1 THEN 0 ELSE l[s[i - 1].ev])
      BY <1>2 DEF Deltas
  <2>1. \A j \in 1 .. Len(evlist) :
          Left(j) = evlist[j].dt + (IF j = 1 THEN 0 ELSE Left(j - 1))
    BY <1>1 DEF Good, Deltas, Left
  <2>2. CASE i <= k
    <3>1. l[s[i].ev] = Left(i) /\ s[i].dt = evlist[i].dt /\ i \in 1 .. Len(evlist)
      BY <1>1, <1>3, <2>2
    <3>2. i # 1 => l[s[i - 1].ev] = Left(i - 1)
      BY <1>1, <1>3, <2>2
    <3>. QED BY <2>1, <3>1, <3>2
  <2>3. CASE i = k + 1
    <3>1. k # 0 => l[s[k].ev] = Left(k)
      BY <1>1, <1>3
    <3>2. node.dt = l[node.ev] - (IF k = 0 THEN 0 ELSE Left(k))
      OBVIOUS
    <3>3. k # 0 => Left(k) \in Int
      BY <1>1
    <3>. QED BY <1>4, <2>3, <3>1, <3>2, <3>3
  <2>4. CASE i = k + 2
    <3>1. l[s[i].ev] = Left(k + 1) /\ s[i].dt = evlist[k + 1].dt - node.dt
          /\ k + 1 \in 1 .. Len(evlist) /\ Left(k + 1) \in Int /\ evlist[k + 1].dt \in Int
      BY <1>1, <1>3, <2>4
    <3>2. Left(k + 1) = evlist[k + 1].dt + (IF k = 0 THEN 0 ELSE Left(k))
      <4>1. (k + 1) - 1 = k /\ (k + 1 = 1 <=> k = 0)
        BY <1>1
      <4>. QED BY <2>1, <3>1, <4>1
    <3>3. node.dt = l[node.ev] - (IF k = 0 THEN 0 ELSE Left(k))
      OBVIOUS
    <3>4. l[s[i - 1].ev] = l[node.ev] /\ i # 1
      BY <1>4, <2>4
    <3>5. k # 0 => Left(k) \in Int
      BY <1>1
    <3>. QED BY <1>4, <3>1, <3>2, <3>3, <3>4, <3>5
  <2>5. CASE i > k + 2
    <3>1. l[s[i].ev] = Left(i - 1) /\ s[i].dt = evlist[i - 1].dt /\ i - 1 \in 1 .. Len(evlist)
      BY <1>1, <1>3, <2>5
    <3>2. l[s[i - 1].ev] = Left(i - 2)
      BY <1>1, <1>3, <2>5
    <3>3. i # 1 /\ i - 1 # 1 /\ (i - 1) - 1 = i - 2
      BY <2>5
    <3>. QED BY <2>1, <3>1, <3>2, <3>3
  <2>. QED BY <2>2, <2>3, <2>4, <2>5
<1>6. Distinct(s)
  <2> SUFFICES ASSUME NEW i \in 1 .. Len(evlist) + 1, NEW j \in 1 .. Len(evlist) + 1,
                      s[i].ev = s[j].ev
               PROVE  i = j
      BY <1>2 DEF Distinct
  <2>1. CASE i # k + 1 /\ j # k + 1
    <3>0. /\ old(i) \in 1 .. Len(evlist) /\ old(j) \in 1 .. Len(evlist)
          /\ evlist[old(i)].ev = evlist[old(j)].ev
      BY <1>3, <2>1
    <3>1. old(i) = old(j)
      <4> HIDE DEF old
      <4>. QED BY <1>1, <3>0 DEF Good, Distinct
    <3>. QED BY <2>1, <3>1
  <2>2. \A m \in 1 .. Len(evlist) + 1 : m # k + 1 => s[m].ev # s[k + 1].ev
    <3> SUFFICES ASSUME NEW m \in 1 .. Len(evlist) + 1, m # k + 1 PROVE s[m].ev # s[k + 1].ev
      OBVIOUS
    <3>1. old(m) \in 1 .. Len(evlist) /\ s[m].ev = evlist[old(m)].ev
      BY <1>3
    <3> HIDE DEF old
    <3>. QED BY <1>1, <1>4, <3>1
  <2>. QED BY <2>1, <2>2
<1>7. Ordered(s, l)
  <2> SUFFICES ASSUME NEW i \in 1 .. Len(evlist) + 1, NEW j \in 1 .. Len(evlist) + 1, i <= j
               PROVE  l[s[i].ev] <= l[s[j].ev]
      BY <1>2 DEF Ordered
  <2>1. \A a, b \in 1 .. Len(evlist) : a <= b => Left(a) <= Left(b)
    BY <1>1 DEF Good, Ordered, Left
  <2>2. CASE i # k + 1 /\ j # k + 1
    <3>1. old(i) <= old(j)
      OBVIOUS
    <3>. QED BY <1>3, <2>1, <2>2, <3>1
  <2>3. CASE i = k + 1 /\ j # k + 1
    <3>1. l[s[j].ev] = Left(j - 1) /\ j - 1 \in 1 .. Len(evlist)
      BY <1>3, <2>3
    <3>2. k + 1 \in 1 .. Len(evlist) /\ k + 1 <= j - 1
      BY <1>1, <2>3
    <3>3. l[node.ev] <= Left(k + 1) /\ Left(k + 1) <= Left(j - 1)
      BY <2>1, <3>1, <3>2
    <3>. QED BY <1>1, <1>4, <2>3, <3>1, <3>2, <3>3
  <2>4. CASE i # k + 1 /\ j = k + 1
    <3>1. l[s[i].ev] = Left(i) /\ i \in 1 .. Len(evlist) /\ i <= k /\ k \in 1 .. Len(evlist)
      BY <1>1, <1>3, <2>4
    <3>2. Left(i) <= Left(k) /\ Left(k) <= l[node.ev]
      BY <2>1, <3>1
    <3>. QED BY <1>1, <1>4, <2>4, <3>1, <3>2
  <2>5. CASE i = k + 1 /\ j = k + 1
    BY <1>4, <2>5
  <2>. QED BY <2>2, <2>3, <2>4, <2>5
<1>8. AtLeast(s, l, n)
  <2> SUFFICES ASSUME NEW i \in 1 .. Len(evlist) + 1
               PROVE  l[s[i].ev] >= n
      BY <1>2 DEF AtLeast
  <2>1. CASE i = k + 1
    BY <1>4, <2>1
  <2>2. CASE i # k + 1
    <3>1. old(i) \in 1 .. Len(evlist) /\ l[s[i].ev] = Left(old(i))
      BY <1>3, <2>2
    <3>2. \A j \in 1 .. Len(evlist) : Left(j) >= n
      BY <1>1 DEF Good, AtLeast, Left
    <3>. QED BY <3>1, <3>2
  <2>. QED BY <2>1, <2>2
<1>9. View(s, l) = View(evlist, left)
                     \union {[ev |-> node.ev, func |-> node.func, left |-> l[node.ev]]}
  <2>1. ASSUME NEW i \in DOMAIN s
        PROVE  [ev |-> s[i].ev, func |-> s[i].func, left |-> l[s[i].ev]]
                 \in View(evlist, left)
                       \union {[ev |-> node.ev, func |-> node.func, left |-> l[node.ev]]}
    <3>1. CASE i = k + 1
      BY <1>4, <3>1
    <3>2. CASE i # k + 1
      <4>1. old(i) \in 1 .. Len(evlist) /\ l[s[i].ev] = left[evlist[old(i)].ev]
            /\ s[i].ev = evlist[old(i)].ev /\ s[i].func = evlist[old(i)].func
        BY <1>2, <1>3, <3>2 DEF Left
      <4>2. [ev |-> evlist[old(i)].ev, func |-> evlist[old(i)].func, left |-> left[evlist[old(i)].ev]]
              \in View(evlist, left)
        BY <4>1 DEF View
      <4>. QED BY <4>1, <4>2
    <3>. QED BY <3>1, <3>2
  <2>2. ASSUME NEW i \in 1 .. Len(evlist)
        PROVE  [ev |-> evlist[i].ev, func |-> evlist[i].func, left |-> left[evlist[i].ev]]
                 \in View(s, l)
    <3> DEFINE m == IF i <= k THEN i ELSE i + 1
    <3>1. m \in 1 .. Len(evlist) + 1 /\ m # k + 1 /\ old(m) = i
      BY <1>1
    <3>2. s[m].ev = evlist[i].ev /\ s[m].func = evlist[i].func
          /\ l[s[m].ev] = left[evlist[i].ev]
      BY <1>3, <3>1 DEF Left
    <3>. QED BY <1>2, <3>1, <3>2 DEF View
  <2>3. [ev |-> node.ev, func |-> node.func, left |-> l[node.ev]] \in View(s, l)
    BY <1>2, <1>4 DEF View
  <2> DEFINE New == [ev |-> node.ev, func |-> node.func, left |-> l[node.ev]]
  <2>4. View(s, l) \subseteq View(evlist, left) \union {New}
    BY <2>1 DEF View
  <2>5. View(evlist, left) \subseteq View(s, l)
    BY <1>1, <2>2 DEF View
  <2>. QED BY <2>3, <2>4, <2>5
<1>. QED BY <1>5, <1>6, <1>7, <1>8, <1>9 DEF Good, s

(* Taking a node out and giving its dt to the next one keeps a good list    *)
(* good, and takes out just that alarm.                                     *)
LEMMA RemoveKeeps ==
  ASSUME TimerTypeOK, NEW n \in Int, Good(evlist, left, n), NEW k \in 1 .. Len(evlist)
  PROVE  /\ Good(Remove(k), left, n)
         /\ View(Remove(k), left) =
              View(evlist, left)
                \ {[ev |-> evlist[k].ev, func |-> evlist[k].func, left |-> Left(k)]}
<1> DEFINE s == Remove(k)
           old(i) == IF i < k THEN i ELSE i + 1
           entry(i) == [ev |-> evlist[i].ev, func |-> evlist[i].func, left |-> Left(i)]
<1>1. /\ Len(evlist) \in Nat /\ DOMAIN evlist = 1 .. Len(evlist)
      /\ \A i \in 1 .. Len(evlist) : evlist[i] \in Node
                                     /\ Left(i) \in Int /\ evlist[i].dt \in Int
  BY ListFacts
<1>2. DOMAIN s = 1 .. Len(evlist) - 1
  BY RemoveFacts
<1>3. ASSUME NEW i \in 1 .. Len(evlist) - 1
      PROVE  /\ old(i) \in 1 .. Len(evlist) /\ old(i) # k
             /\ s[i].ev = evlist[old(i)].ev /\ s[i].func = evlist[old(i)].func
             /\ left[s[i].ev] = Left(old(i))
             /\ s[i].dt = IF i = k THEN evlist[old(i)].dt + evlist[k].dt ELSE evlist[old(i)].dt
  <2>1. old(i) \in 1 .. Len(evlist) /\ old(i) # k
    BY <1>1, <1>3
  <2>2. s[i] = IF i = k THEN WithDt(evlist[old(i)], evlist[old(i)].dt + evlist[k].dt)
               ELSE evlist[old(i)]
    <3>1. s[i] = IF i < k THEN evlist[i]
                 ELSE IF i = k THEN WithDt(evlist[i + 1], evlist[i + 1].dt + evlist[k].dt)
                 ELSE evlist[i + 1]
      BY RemoveFacts
    <3> HIDE DEF s
    <3>2. CASE i < k
      BY <3>1, <3>2
    <3>3. CASE i >= k
      <4>1. ~(i < k) /\ old(i) = i + 1
        BY <3>3
      <4>. QED BY <3>1, <4>1
    <3>. QED BY <3>2, <3>3
  <2> HIDE DEF s, old
  <2>. QED BY <2>1, <2>2 DEF WithDt, Left
<1> HIDE DEF s
<1>4. \A j \in 1 .. Len(evlist) :
        Left(j) = evlist[j].dt + (IF j = 1 THEN 0 ELSE Left(j - 1))
  BY <1>1 DEF Good, Deltas, Left
<1>5. Deltas(s, left)
  <2> SUFFICES ASSUME NEW i \in 1 .. Len(evlist) - 1
               PROVE  left[s[i].ev] = s[i].dt + (IF i = 1 THEN 0 ELSE left[s[i - 1].ev])
      BY <1>2 DEF Deltas
  <2>1. CASE i < k
    <3>1. left[s[i].ev] = Left(i) /\ s[i].dt = evlist[i].dt /\ i \in 1 .. Len(evlist)
      BY <1>1, <1>3, <2>1
    <3>2. i # 1 => left[s[i - 1].ev] = Left(i - 1)
      BY <1>1, <1>3, <2>1
    <3>. QED BY <1>4, <3>1, <3>2
  <2>2. CASE i = k
    <3>1. left[s[i].ev] = Left(k + 1) /\ s[i].dt = evlist[k + 1].dt + evlist[k].dt
          /\ k + 1 \in 1 .. Len(evlist)
      BY <1>1, <1>3, <2>2
    <3>2. (k + 1) - 1 = k /\ k + 1 # 1
      OBVIOUS
    <3>3. Left(k + 1) = evlist[k + 1].dt + Left(k)
      BY <1>4, <3>1, <3>2
    <3>4. Left(k) = evlist[k].dt + (IF k = 1 THEN 0 ELSE Left(k - 1))
      BY <1>4
    <3>5. k # 1 => left[s[k - 1].ev] = Left(k - 1) /\ Left(k - 1) \in Int
      BY <1>1, <1>3, <2>2
    <3>6. Left(k) \in Int /\ evlist[k].dt \in Int /\ evlist[k + 1].dt \in Int
      BY <1>1, <3>1
    <3> DEFINE at == Left(k)
               up == Left(k + 1)
               below == Left(k - 1)
               dt1 == evlist[k].dt
               dt2 == evlist[k + 1].dt
    <3> HIDE DEF at, up, below, dt1, dt2
    <3>7. up = dt2 + at /\ at = dt1 + (IF k = 1 THEN 0 ELSE below) /\ (k # 1 => below \in Int)
          /\ at \in Int /\ dt1 \in Int /\ dt2 \in Int
      BY <3>3, <3>4, <3>5, <3>6 DEF at, up, below, dt1, dt2
    <3>8. up = (dt2 + dt1) + (IF k = 1 THEN 0 ELSE below)
      BY <3>7
    <3>. QED BY <2>2, <3>1, <3>5, <3>8 DEF up, below, dt1, dt2
  <2>3. CASE i > k
    <3>1. left[s[i].ev] = Left(i + 1) /\ s[i].dt = evlist[i + 1].dt /\ i + 1 \in 1 .. Len(evlist)
      BY <1>1, <1>3, <2>3
    <3>2. left[s[i - 1].ev] = Left(i)
      BY <1>1, <1>3, <2>3
    <3>3. i # 1 /\ i + 1 # 1 /\ (i + 1) - 1 = i
      BY <2>3
    <3>. QED BY <1>4, <3>1, <3>2, <3>3
  <2>. QED BY <2>1, <2>2, <2>3
<1>6. Distinct(s)
  <2> SUFFICES ASSUME NEW i \in 1 .. Len(evlist) - 1, NEW j \in 1 .. Len(evlist) - 1,
                      s[i].ev = s[j].ev
               PROVE  i = j
      BY <1>2 DEF Distinct
  <2>1. old(i) \in 1 .. Len(evlist) /\ old(j) \in 1 .. Len(evlist)
        /\ evlist[old(i)].ev = evlist[old(j)].ev
    BY <1>3
  <2>2. old(i) = old(j)
    <3> HIDE DEF old
    <3>. QED BY <1>1, <2>1 DEF Good, Distinct
  <2>. QED BY <2>2
<1>7. Ordered(s, left)
  <2> SUFFICES ASSUME NEW i \in 1 .. Len(evlist) - 1, NEW j \in 1 .. Len(evlist) - 1, i <= j
               PROVE  left[s[i].ev] <= left[s[j].ev]
      BY <1>2 DEF Ordered
  <2>1. \A a, b \in 1 .. Len(evlist) : a <= b => Left(a) <= Left(b)
    BY <1>1 DEF Good, Ordered, Left
  <2>2. old(i) <= old(j)
    OBVIOUS
  <2>. QED BY <1>3, <2>1, <2>2
<1>8. AtLeast(s, left, n)
  <2> SUFFICES ASSUME NEW i \in 1 .. Len(evlist) - 1
               PROVE  left[s[i].ev] >= n
      BY <1>2 DEF AtLeast
  <2>1. old(i) \in 1 .. Len(evlist) /\ left[s[i].ev] = Left(old(i))
    BY <1>3
  <2>2. \A j \in 1 .. Len(evlist) : Left(j) >= n
    BY <1>1 DEF Good, AtLeast, Left
  <2>. QED BY <2>1, <2>2
<1>9. View(s, left) = View(evlist, left) \ {entry(k)}
  <2>1. View(evlist, left) = {entry(i) : i \in 1 .. Len(evlist)}
    BY <1>1 DEF View, Left
  <2>2. ASSUME NEW i \in 1 .. Len(evlist) - 1
        PROVE  /\ [ev |-> s[i].ev, func |-> s[i].func, left |-> left[s[i].ev]] = entry(old(i))
               /\ old(i) \in 1 .. Len(evlist) /\ old(i) # k
    <3>1. /\ s[i].ev = evlist[old(i)].ev /\ s[i].func = evlist[old(i)].func
          /\ left[s[i].ev] = Left(old(i)) /\ old(i) \in 1 .. Len(evlist) /\ old(i) # k
      BY <1>3
    <3> HIDE DEF old
    <3>. QED BY <3>1
  <2>3. \A i \in 1 .. Len(evlist) : i # k => entry(i) # entry(k)
    <3>1. \A i \in 1 .. Len(evlist) : i # k => evlist[i].ev # evlist[k].ev
      BY <1>1 DEF Good, Distinct
    <3>. QED BY <3>1
  <2>4. ASSUME NEW i \in 1 .. Len(evlist), i # k
        PROVE  \E m \in 1 .. Len(evlist) - 1 : old(m) = i
    <3> DEFINE m == IF i < k THEN i ELSE i - 1
    <3>1. m \in 1 .. Len(evlist) - 1 /\ old(m) = i
      BY <1>1, <2>4
    <3>. QED BY <3>1
  <2>5. View(s, left) = {entry(old(i)) : i \in 1 .. Len(evlist) - 1}
    <3> HIDE DEF entry, old
    <3>. QED BY <1>2, <2>2 DEF View
  <2> HIDE DEF entry, old
  <2>. QED BY <2>1, <2>2, <2>3, <2>4, <2>5
<1>. QED BY <1>5, <1>6, <1>7, <1>8, <1>9 DEF Good, s

-----------------------------------------------------------------------------
(* What is left to prove of a step once its list is known to be good *)
Bound == IF ctx = "main" THEN 1 ELSE 0

LEMMA GoodNext ==
  ASSUME TimerTypeOK', Good(evlist', left', Bound'),
         walk' # NoWalk => /\ walk'.tsum = left'[evlist'[walk'.node].ev]
                           /\ walk'.ev \notin InUse'
                           /\ walk'.tsum <= walk'.ticks
                           /\ left'[walk'.ev] = walk'.ticks
  PROVE  TimerInv'
<1>1. DeltasAddUp'
  BY DEF Good, Deltas, DeltasAddUp
<1>2. NodesDistinct'
  BY DEF Good, Distinct, NodesDistinct
<1>3. NoneOverdue'
  BY DEF Good, AtLeast, NoneOverdue, Bound
<1>4. Sorted'
  BY DEF Good, Ordered, Sorted, Left
<1>5. WalkInOrder'
  BY DEF WalkInOrder
<1>. QED BY <1>1, <1>2, <1>3, <1>4, <1>5 DEF TimerInv

LEMMA InitGood == TimerInit => TimerInv
<1> SUFFICES ASSUME TimerInit PROVE TimerInv
  OBVIOUS
<1>1. TimerTypeOK
  BY DEF TimerInit, TimerTypeOK, NoWalk
<1>2. DOMAIN evlist = {}
  BY DEF TimerInit
<1>. QED BY <1>1, <1>2 DEF TimerInit, TimerInv, DeltasAddUp, NodesDistinct, NoneOverdue, Sorted, WalkInOrder

(* set_alarm puts the alarm at the head of the list, or starts a search *)
LEMMA SetAlarmStep ==
  ASSUME TimerInv, NEW e \in Events, NEW f \in Funcs, NEW n \in Delays, set_alarm(e, f, n)
  PROVE  TimerInv' /\ (Clock!set_alarm(e, f, n) \/ UNCHANGED << View(evlist, left), ctx >>)
<1>1. /\ MayCall /\ e \notin InUse /\ n \in Int /\ n >= 1
      /\ left' = [left EXCEPT ![e] = n]
  BY TimerAssumption DEF set_alarm
<1>2. TimerTypeOK /\ Good(evlist, left, Bound) /\ walk = NoWalk
  BY <1>1, GoodList DEF TimerInv, MayCall, Bound
<1>3. left' \in [Events -> Int] /\ left'[e] = n /\ \A d \in InUse : left'[d] = left[d]
  BY <1>1, <1>2 DEF TimerTypeOK
<1>4. Len(evlist) \in Nat /\ DOMAIN evlist = 1 .. Len(evlist) /\ (evlist = << >> <=> Len(evlist) = 0)
  BY <1>2, ListFacts
<1>5. Bound \in Int /\ n >= Bound /\ ctx \in {"main", "func"}
  BY <1>1 DEF Bound, MayCall
<1>6. Bound' = Bound \/ ctx' # ctx
  BY DEF Bound
<1>7. CASE /\ evlist # << >> => n < evlist[1].dt
           /\ evlist' = InsertAfter(0, [ev |-> e, dt |-> n, func |-> f])
           /\ ctx' = AfterCall
           /\ UNCHANGED walk
  <2> DEFINE node == [ev |-> e, dt |-> n, func |-> f]
  <2>1. node \in Node /\ node.ev = e /\ node.dt = n /\ node.func = f
    BY <1>1 DEF Node
  <2>2. 0 < Len(evlist) => n <= Left(1) /\ Left(1) \in Int
    <3> SUFFICES ASSUME 0 < Len(evlist) PROVE n <= Left(1) /\ Left(1) \in Int
      OBVIOUS
    <3>1. 1 \in DOMAIN evlist /\ evlist # << >>
      BY <1>4
    <3>2. Left(1) = evlist[1].dt /\ Left(1) \in Int
      <4>1. Left(1) = evlist[1].dt + 0
        BY <1>2, <3>1 DEF Good, Deltas, Left
      <4>2. Left(1) \in Int /\ evlist[1].dt \in Int
        BY <1>2, <1>4, <3>1, ListFacts
      <4>. QED BY <4>1, <4>2
    <3>. QED BY <1>1, <1>7, <3>1, <3>2
  <2> HIDE DEF node
  <2>3. /\ Good(InsertAfter(0, node), left', Bound)
        /\ View(InsertAfter(0, node), left') =
              View(evlist, left) \union {[ev |-> e, func |-> f, left |-> n]}
    <3>1. 0 \in 0 .. Len(evlist) /\ 0 + 1 = 1
      BY <1>4
    <3>2. node.ev \notin InUse /\ left'[node.ev] = n
      BY <1>1, <1>3, <2>1
    <3>3. node.dt = left'[node.ev] - (IF 0 = 0 THEN 0 ELSE Left(0))
      BY <1>1, <2>1, <3>2
    <3>4. 0 < Len(evlist) => left'[node.ev] <= Left(0 + 1)
      BY <2>2, <3>1, <3>2
    <3>5. left'[node.ev] >= Bound
      BY <1>5, <3>2
    <3> HIDE DEF Bound
    <3>. QED BY <1>2, <1>3, <1>5, <2>1, <3>1, <3>2, <3>3, <3>4, <3>5, InsertKeeps
  <2>4. evlist' = InsertAfter(0, node) /\ walk' = NoWalk
    BY <1>2, <1>7 DEF node
  <2>5. TimerTypeOK'
    <3>1. evlist' \in Seq(Node)
      BY <1>2, <1>4, <2>1, <2>4, InsertFacts
    <3>2. ctx' \in {"main", "func", "done"}
      BY <1>5, <1>7 DEF AfterCall
    <3>. QED BY <1>3, <2>4, <3>1, <3>2 DEF TimerTypeOK
  <2>6. Bound' = Bound
    BY <1>5, <1>7 DEF Bound, AfterCall
  <2>7. TimerInv'
    BY <2>3, <2>4, <2>5, <2>6, GoodNext
  <2>8. Clock!set_alarm(e, f, n)
    <3>1. View(evlist', left') = View(evlist, left) \union {[ev |-> e, func |-> f, left |-> n]}
      BY <2>3, <2>4
    <3>2. e \notin Clock!InUse
      BY <1>1 DEF InUse, Clock!InUse
    <3>. QED BY <1>5, <1>7, <3>1, <3>2 DEF Clock!set_alarm, Clock!AfterCall, AfterCall, View
  <2>. QED BY <2>7, <2>8
<1>8. CASE /\ evlist # << >> /\ n >= evlist[1].dt
           /\ walk' = [node |-> 1, tsum |-> evlist[1].dt, ev |-> e, func |-> f, ticks |-> n]
           /\ UNCHANGED << evlist, ctx >>
  <2>1. 1 \in DOMAIN evlist /\ evlist[1].dt \in Int /\ Left(1) \in Int /\ evlist[1].ev \in InUse
    BY <1>2, <1>4, <1>8, ListFacts DEF InUse
  <2>2. Left(1) = evlist[1].dt
    <3>1. Left(1) = evlist[1].dt + 0
      BY <1>2, <2>1 DEF Good, Deltas, Left
    <3>. QED BY <2>1, <3>1
  <2>3. \A i \in DOMAIN evlist : evlist[i].ev \in InUse /\ left'[evlist[i].ev] = left[evlist[i].ev]
    BY <1>3 DEF InUse
  <2>4. Good(evlist', left', Bound')
    <3>1. \A i \in DOMAIN evlist : i = 1 \/ i - 1 \in DOMAIN evlist
      BY <1>4
    <3>2. Deltas(evlist, left')
      BY <1>2, <2>3, <3>1 DEF Good, Deltas
    <3>3. Distinct(evlist) /\ Ordered(evlist, left') /\ AtLeast(evlist, left', Bound)
      BY <1>2, <2>3 DEF Good, Distinct, Ordered, AtLeast
    <3>. QED BY <1>8, <3>2, <3>3 DEF Good, Bound
  <2>5. walk' \in Walk /\ walk'.node = 1 /\ walk'.tsum = evlist[1].dt /\ walk'.ev = e /\ walk'.ticks = n
    BY <1>1, <1>8, <2>1 DEF Walk
  <2>6. TimerTypeOK'
    BY <1>2, <1>3, <1>4, <1>5, <1>8, <2>1, <2>5 DEF TimerTypeOK
  <2>7. TimerInv'
    <3>1. InUse' = InUse
      BY <1>8 DEF InUse
    <3>. QED BY <1>1, <1>3, <1>8, <2>1, <2>2, <2>3, <2>4, <2>5, <2>6, <3>1, GoodNext DEF Left
  <2>8. View(evlist', left') = View(evlist, left)
    BY <1>8, <2>3 DEF View
  <2>. QED BY <1>8, <2>7, <2>8
<1>. QED BY <1>7, <1>8 DEF set_alarm

LEMMA SearchStep ==
  ASSUME TimerInv, Step
  PROVE  TimerInv' /\ UNCHANGED << View(evlist, left), ctx >>
<1>1. /\ walk \in Walk /\ walk.node < Len(evlist) /\ walk.ticks > walk.tsum + evlist[walk.node + 1].dt
      /\ walk' = [walk EXCEPT !.node = @ + 1, !.tsum = @ + evlist[walk.node + 1].dt]
      /\ UNCHANGED << evlist, ctx, left >> /\ ctx \in {"main", "func"}
  BY DEF Step, GoesOn, TimerInv, TimerTypeOK
<1> DEFINE k == walk.node + 1
<1>2. /\ TimerTypeOK /\ Good(evlist, left, Bound)
      /\ walk.tsum = Left(walk.node) /\ walk.ev \notin InUse /\ left[walk.ev] = walk.ticks
  BY <1>1, GoodList DEF TimerInv, Bound, DeltasAddUp, NodesDistinct, WalkInOrder, Step, Left
<1>3. /\ walk.node \in Nat \ {0} /\ walk.tsum \in Int /\ walk.ev \in Events
      /\ walk.func \in Funcs /\ walk.ticks \in Delays /\ walk.ticks \in Int
  BY <1>1, TimerAssumption DEF Walk
<1>4. /\ k \in 1 .. Len(evlist) /\ k # 1 /\ k - 1 = walk.node
      /\ evlist[k].dt \in Int /\ Left(k) \in Int /\ Len(evlist) \in Nat
  BY <1>1, <1>2, <1>3, ListFacts
<1>5. Left(k) = walk.tsum + evlist[k].dt
  <2>1. Left(k) = evlist[k].dt + Left(k - 1)
    BY <1>2, <1>4, ListFacts DEF Good, Deltas, Left
  <2>. QED BY <1>2, <1>3, <1>4, <2>1
<1>6. /\ walk'.node = k /\ walk'.tsum = Left(k) /\ walk'.ev = walk.ev /\ walk'.ticks = walk.ticks
      /\ walk' \in Walk
  <2> DEFINE t == walk.tsum + evlist[k].dt
  <2>1. walk' = [walk EXCEPT !.node = k, !.tsum = t]
    BY <1>1
  <2>2. t = Left(k) /\ t \in Int /\ k \in Nat \ {0}
    BY <1>4, <1>5
  <2> HIDE DEF k, t
  <2>3. walk' = [node |-> k, tsum |-> t, ev |-> walk.ev, func |-> walk.func, ticks |-> walk.ticks]
    BY <1>1, <2>1 DEF Walk
  <2>. QED BY <1>3, <2>2, <2>3 DEF Walk
<1>7. TimerTypeOK'
  BY <1>1, <1>2, <1>4, <1>6 DEF TimerTypeOK
<1>8. TimerInv'
  <2>1. InUse' = InUse /\ Bound' = Bound
    BY <1>1 DEF InUse, Bound
  <2>2. Good(evlist', left', Bound')
    BY <1>1, <1>2, <2>1
  <2>3. walk'.tsum = left'[evlist'[walk'.node].ev]
    BY <1>1, <1>6 DEF Left
  <2>4. walk'.ev \notin InUse' /\ left'[walk'.ev] = walk'.ticks
    BY <1>1, <1>2, <1>6, <2>1
  <2>5. walk'.tsum <= walk'.ticks
    BY <1>1, <1>3, <1>4, <1>5, <1>6
  <2>. QED BY <1>7, <2>2, <2>3, <2>4, <2>5, GoodNext
<1>9. View(evlist', left') = View(evlist, left)
  BY <1>1
<1>. QED BY <1>1, <1>8, <1>9

(* the end of the search: set_alarm takes effect *)
LEMMA InsertStep ==
  ASSUME TimerInv, Insert
  PROVE  TimerInv' /\ \E e \in Events, f \in Funcs, n \in Delays : Clock!set_alarm(e, f, n)
<1> DEFINE node == [ev |-> walk.ev, dt |-> walk.ticks - walk.tsum, func |-> walk.func]
           k == walk.node
<1>1. /\ walk \in Walk /\ ~GoesOn /\ evlist' = InsertAfter(k, node)
      /\ walk' = NoWalk /\ ctx' = AfterCall /\ left' = left
      /\ k <= Len(evlist) /\ ctx \in {"main", "func"}
  BY DEF Insert, TimerInv, TimerTypeOK
<1>2. /\ TimerTypeOK /\ Good(evlist, left, Bound) /\ left \in [Events -> Int]
      /\ walk.tsum = Left(k) /\ walk.ev \notin InUse /\ left[walk.ev] = walk.ticks
      /\ walk.tsum <= walk.ticks
  BY <1>1, GoodList DEF TimerInv, Bound, DeltasAddUp, NodesDistinct, WalkInOrder, Insert, Left, TimerTypeOK
<1>3. /\ k \in Nat \ {0} /\ walk.tsum \in Int /\ walk.ev \in Events
      /\ walk.func \in Funcs /\ walk.ticks \in Delays /\ walk.ticks \in Int /\ walk.ticks >= 1
  <2>1. /\ walk.node \in Nat \ {0} /\ walk.tsum \in Int /\ walk.ev \in Events
        /\ walk.func \in Funcs /\ walk.ticks \in Delays
    BY <1>1 DEF Walk
  <2>2. walk.ticks \in Nat \ {0}
    BY <2>1, TimerAssumption
  <2>. QED BY <2>1, <2>2
<1>4. /\ node \in Node /\ node.ev = walk.ev /\ node.func = walk.func
      /\ node.dt = walk.ticks - walk.tsum
  BY <1>3 DEF Node
<1>5. Len(evlist) \in Nat /\ k \in 0 .. Len(evlist) /\ k > 0
  BY <1>1, <1>2, <1>3, ListFacts
<1>6. k < Len(evlist) => walk.ticks <= Left(k + 1)
  <2> SUFFICES ASSUME k < Len(evlist) PROVE walk.ticks <= Left(k + 1)
    OBVIOUS
  <2>1. k + 1 \in 1 .. Len(evlist) /\ k + 1 # 1 /\ (k + 1) - 1 = k
    BY <1>3, <1>5
  <2>2. Left(k + 1) = evlist[k + 1].dt + Left(k)
    BY <1>2, <2>1, ListFacts DEF Good, Deltas, Left
  <2>3. ~(walk.ticks > walk.tsum + evlist[k + 1].dt) /\ evlist[k + 1].dt \in Int
    BY <1>1, <1>2, <2>1, ListFacts DEF GoesOn
  <2>. QED BY <1>2, <1>3, <2>2, <2>3
<1>7. Bound \in Int /\ walk.ticks >= Bound /\ Bound' = Bound
  BY <1>1, <1>3 DEF Bound, AfterCall
<1> HIDE DEF node
<1>8. /\ Good(InsertAfter(k, node), left, Bound)
      /\ View(InsertAfter(k, node), left) =
           View(evlist, left)
             \union {[ev |-> node.ev, func |-> node.func, left |-> left[node.ev]]}
  <2>1. node.ev \notin InUse /\ left[node.ev] = walk.ticks /\ \A d \in InUse : left[d] = left[d]
    BY <1>2, <1>4
  <2>2. node.dt = left[node.ev] - (IF k = 0 THEN 0 ELSE Left(k)) /\ Left(k) <= left[node.ev]
    BY <1>2, <1>3, <1>4, <1>5
  <2>3. k < Len(evlist) => left[node.ev] <= Left(k + 1)
    BY <1>6, <2>1
  <2>4. left[node.ev] >= Bound
    BY <1>7, <2>1
  <2> HIDE DEF Bound, k
  <2>. QED BY <1>2, <1>4, <1>5, <1>7, <2>1, <2>2, <2>3, <2>4, InsertKeeps
<1>9. TimerInv'
  <2>1. evlist' \in Seq(Node)
    BY <1>1, <1>2, <1>4, <1>5, InsertFacts
  <2>2. TimerTypeOK'
    BY <1>1, <1>2, <2>1 DEF TimerTypeOK, AfterCall
  <2>. QED BY <1>1, <1>7, <1>8, <2>2, GoodNext
<1>10. \E e \in Events, f \in Funcs, n \in Delays : Clock!set_alarm(e, f, n)
  <2> PICK e \in Events, f \in Funcs, n \in Delays :
        e = walk.ev /\ f = walk.func /\ n = walk.ticks
      BY <1>3
  <2>1. View(evlist', left') =
          View(evlist, left) \union {[ev |-> e, func |-> f, left |-> n]}
    BY <1>1, <1>2, <1>4, <1>8
  <2>2. e \notin Clock!InUse
    BY <1>2 DEF InUse, Clock!InUse
  <2>3. Clock!set_alarm(e, f, n)
    BY <1>1, <1>3, <2>1, <2>2 DEF Clock!set_alarm, Clock!AfterCall, AfterCall, View
  <2>. QED BY <2>3
<1>. QED BY <1>9, <1>10

(* The first node with a function is its alarm that is due first *)
LEMMA CancelStep ==
  ASSUME TimerInv, NEW f \in Funcs, cancel_alarm(f)
  PROVE  TimerInv' /\ Clock!cancel_alarm(f)
<1>1. /\ walk = NoWalk /\ walk' = NoWalk /\ left' = left /\ ctx' = AfterCall
      /\ ctx \in {"main", "func"} /\ Bound' = Bound
  BY DEF cancel_alarm, MayCall, AfterCall, Bound
<1>2. /\ TimerTypeOK /\ Good(evlist, left, Bound) /\ Bound \in Int
      /\ DOMAIN evlist = 1 .. Len(evlist) /\ Len(evlist) \in Nat
  BY GoodList, ListFacts DEF TimerInv, Bound
<1>3. Clock!AfterCall = AfterCall
  BY DEF Clock!AfterCall, AfterCall
<1>4. CASE (\A k \in DOMAIN evlist : evlist[k].func # f) /\ UNCHANGED evlist
  <2>1. TimerTypeOK'
    BY <1>1, <1>2, <1>4 DEF TimerTypeOK, AfterCall
  <2>2. TimerInv'
    BY <1>1, <1>2, <1>4, <2>1, GoodNext
  <2>3. {a \in View(evlist, left) : a.func = f} = {} /\ View(evlist', left') = View(evlist, left)
    BY <1>1, <1>4 DEF View
  <2>. QED BY <1>1, <1>3, <2>2, <2>3 DEF Clock!cancel_alarm, View
<1>5. ASSUME NEW k \in DOMAIN evlist, evlist[k].func = f,
             \A j \in 1 .. k - 1 : evlist[j].func # f, evlist' = Remove(k)
      PROVE  TimerInv' /\ Clock!cancel_alarm(f)
  <2> DEFINE a == [ev |-> evlist[k].ev, func |-> evlist[k].func, left |-> Left(k)]
  <2>1. k \in 1 .. Len(evlist)
    BY <1>2, <1>5
  <2>2. /\ Good(Remove(k), left, Bound)
        /\ View(Remove(k), left) = View(evlist, left) \ {a}
    <3> HIDE DEF Bound
    <3>. QED BY <1>2, <2>1, RemoveKeeps
  <2>3. TimerTypeOK'
    <3>1. evlist' \in Seq(Node)
      BY <1>2, <1>5, <2>1, RemoveFacts
    <3>. QED BY <1>1, <1>2, <3>1 DEF TimerTypeOK, AfterCall
  <2>4. TimerInv'
    BY <1>1, <1>5, <2>2, <2>3, GoodNext
  <2>5. a \in View(evlist, left) /\ a.func = f
    BY <1>5 DEF View, Left
  <2>6. ASSUME NEW b \in View(evlist, left), b.func = f
        PROVE  a.left <= b.left
    <3>1. PICK j \in DOMAIN evlist :
            b = [ev |-> evlist[j].ev, func |-> evlist[j].func, left |-> left[evlist[j].ev]]
      BY DEF View
    <3>2. k <= j
      <4>1. evlist[j].func = f /\ j \in 1 .. Len(evlist)
        BY <1>2, <2>6, <3>1
      <4>. QED BY <1>5, <2>1, <4>1
    <3>. QED BY <1>2, <3>1, <3>2 DEF Good, Ordered, Left
  <2>7. View(evlist', left') = View(evlist, left) \ {a}
    BY <1>1, <1>5, <2>2
  <2> HIDE DEF a
  <2>8. LET Mine == {b \in View(evlist, left) : b.func = f}
        IN  /\ Mine # {}
            /\ \E b \in Mine : /\ \A c \in Mine : b.left <= c.left
                             /\ View(evlist', left') = View(evlist, left) \ {b}
    BY <2>5, <2>6, <2>7
  <2>. QED BY <1>1, <1>3, <2>4, <2>8 DEF Clock!cancel_alarm, View
<1>. QED BY <1>4, <1>5 DEF cancel_alarm

(* A tick takes one off the first delta and off what is left of each alarm *)
LEMMA TickStep ==
  ASSUME TimerInv, Tick
  PROVE  TimerInv' /\ Clock!Tick
<1>1. /\ ctx = "main" /\ walk = NoWalk /\ walk' = NoWalk /\ ctx' = "loop"
      /\ left' = [e \in Events |-> IF e \in InUse THEN left[e] - 1 ELSE left[e]]
      /\ evlist' = [k \in DOMAIN evlist |->
                      IF k = 1 THEN WithDt(evlist[k], evlist[k].dt - 1) ELSE evlist[k]]
  BY DEF Tick
<1>2. /\ TimerTypeOK /\ Good(evlist, left, 1)
      /\ DOMAIN evlist = 1 .. Len(evlist) /\ Len(evlist) \in Nat
  BY <1>1, GoodList, ListFacts DEF TimerInv
<1>3. \A k \in 1 .. Len(evlist) :
        evlist[k] \in Node /\ evlist[k].ev \in Events /\ evlist[k].ev \in InUse
        /\ evlist[k].dt \in Int /\ Left(k) \in Int
  BY <1>2, ListFacts DEF InUse
<1>4. ASSUME NEW k \in 1 .. Len(evlist)
      PROVE  /\ evlist'[k] \in Node /\ evlist'[k].ev = evlist[k].ev
             /\ evlist'[k].func = evlist[k].func
             /\ evlist'[k].dt = IF k = 1 THEN evlist[k].dt - 1 ELSE evlist[k].dt
             /\ left'[evlist'[k].ev] = Left(k) - 1
  <2>1. evlist'[k] = IF k = 1 THEN WithDt(evlist[k], evlist[k].dt - 1) ELSE evlist[k]
    BY <1>1, <1>2
  <2>2. WithDt(evlist[k], evlist[k].dt - 1) \in Node
    <3>1. evlist[k] \in Node /\ evlist[k].dt - 1 \in Int
      BY <1>3
    <3>. QED BY <3>1, WithDtFacts
  <2>3. /\ evlist'[k] \in Node /\ evlist'[k].ev = evlist[k].ev
        /\ evlist'[k].func = evlist[k].func
        /\ evlist'[k].dt = IF k = 1 THEN evlist[k].dt - 1 ELSE evlist[k].dt
    BY <1>3, <2>1, <2>2 DEF WithDt
  <2>4. left'[evlist[k].ev] = Left(k) - 1
    BY <1>1, <1>3 DEF Left
  <2>. QED BY <2>3, <2>4
<1>5. evlist' \in Seq(Node) /\ Len(evlist') = Len(evlist) /\ DOMAIN evlist' = 1 .. Len(evlist)
  <2>1. evlist' \in [1 .. Len(evlist) -> Node]
    <3>1. DOMAIN evlist' = 1 .. Len(evlist) /\ evlist' = [k \in 1 .. Len(evlist) |-> evlist'[k]]
      BY <1>1, <1>2
    <3>. QED BY <1>4, <3>1
  <2>. QED BY <1>2, <2>1, SeqOfFunction
<1>6. left' \in [Events -> Int]
  BY <1>1, <1>2 DEF TimerTypeOK
<1>7. TimerTypeOK'
  BY <1>1, <1>5, <1>6 DEF TimerTypeOK
<1>8. Good(evlist', left', 0)
  <2>1. Deltas(evlist', left')
    <3> SUFFICES ASSUME NEW i \in 1 .. Len(evlist)
                 PROVE  left'[evlist'[i].ev]
                          = evlist'[i].dt + (IF i = 1 THEN 0 ELSE left'[evlist'[i - 1].ev])
        BY <1>5 DEF Deltas
    <3>1. Left(i) = evlist[i].dt + (IF i = 1 THEN 0 ELSE Left(i - 1))
      BY <1>2 DEF Good, Deltas, Left
    <3>2. CASE i = 1
      BY <1>3, <1>4, <3>1, <3>2
    <3>3. CASE i # 1
      <4>1. i - 1 \in 1 .. Len(evlist)
        BY <1>2, <3>3
      <4>2. Left(i - 1) \in Int /\ evlist[i].dt \in Int /\ left'[evlist'[i - 1].ev] = Left(i - 1) - 1
        BY <1>3, <1>4, <4>1
      <4>3. left'[evlist'[i].ev] = Left(i) - 1 /\ evlist'[i].dt = evlist[i].dt
        BY <1>4, <3>3
      <4>. QED BY <3>1, <3>3, <4>2, <4>3
    <3>. QED BY <3>2, <3>3
  <2>2. Distinct(evlist')
    BY <1>2, <1>4, <1>5 DEF Good, Distinct
  <2>3. Ordered(evlist', left')
    <3> SUFFICES ASSUME NEW i \in 1 .. Len(evlist), NEW j \in 1 .. Len(evlist), i <= j
                 PROVE  left'[evlist'[i].ev] <= left'[evlist'[j].ev]
        BY <1>5 DEF Ordered
    <3>1. Left(i) <= Left(j)
      BY <1>2 DEF Good, Ordered, Left
    <3>. QED BY <1>3, <1>4, <3>1
  <2>4. AtLeast(evlist', left', 0)
    <3> SUFFICES ASSUME NEW i \in 1 .. Len(evlist) PROVE left'[evlist'[i].ev] >= 0
        BY <1>5 DEF AtLeast
    <3>1. Left(i) >= 1
      BY <1>2 DEF Good, AtLeast, Left
    <3>. QED BY <1>3, <1>4, <3>1
  <2>. QED BY <2>1, <2>2, <2>3, <2>4 DEF Good
<1>9. TimerInv'
  BY <1>1, <1>7, <1>8, GoodNext DEF Bound
<1>10. View(evlist', left') = {[a EXCEPT !.left = @ - 1] : a \in View(evlist, left)}
  <2> DEFINE entry(k) == [ev |-> evlist[k].ev, func |-> evlist[k].func, left |-> Left(k)]
             ticked(k) == [ev |-> evlist[k].ev, func |-> evlist[k].func, left |-> Left(k) - 1]
  <2>1. View(evlist', left') = {ticked(k) : k \in 1 .. Len(evlist)}
    BY <1>4, <1>5 DEF View
  <2>2. \A k \in 1 .. Len(evlist) : [entry(k) EXCEPT !.left = @ - 1] = ticked(k)
    OBVIOUS
  <2>3. View(evlist, left) = {entry(k) : k \in 1 .. Len(evlist)}
    BY <1>2 DEF View, Left
  <2> HIDE DEF entry, ticked
  <2>. QED BY <2>1, <2>2, <2>3
<1>. QED BY <1>1, <1>9, <1>10 DEF Clock!Tick, View

(* The handler takes out the first alarm, which has no ticks left *)
LEMMA FireStep ==
  ASSUME TimerInv, Fire
  PROVE  TimerInv' /\ Clock!Fire
<1>1. /\ ctx = "loop" /\ evlist # << >> /\ evlist[1].dt <= 0 /\ evlist' = Tail(evlist)
      /\ ctx' = "func" /\ walk' = walk /\ left' = left
  BY DEF Fire, IsDue
<1>2. /\ TimerTypeOK /\ Good(evlist, left, 0) /\ walk = NoWalk
      /\ DOMAIN evlist = 1 .. Len(evlist) /\ Len(evlist) \in Nat
      /\ evlist \in Seq(Node)
  BY <1>1, GoodList, ListFacts DEF TimerInv, TimerTypeOK
<1>3. 1 \in 1 .. Len(evlist) /\ Len(evlist) - 1 \in Nat
  BY <1>1, <1>2
<1>4. /\ Tail(evlist) \in Seq(Node) /\ Len(Tail(evlist)) = Len(evlist) - 1
      /\ DOMAIN Tail(evlist) = 1 .. Len(evlist) - 1
      /\ \A i \in 1 .. Len(evlist) - 1 : Tail(evlist)[i] = evlist[i + 1]
  BY <1>1, <1>2, HeadTailProperties
<1>5. \A i \in 1 .. Len(evlist) : Left(i) \in Int /\ evlist[i].dt \in Int
  BY <1>2, ListFacts
<1>6. \A i \in 1 .. Len(evlist) : Left(i) = evlist[i].dt + (IF i = 1 THEN 0 ELSE Left(i - 1))
  BY <1>2 DEF Good, Deltas, Left
<1>7. Left(1) = 0
  <2>1. Left(1) >= 0
    BY <1>2, <1>3 DEF Good, AtLeast, Left
  <2>2. Left(1) = evlist[1].dt + 0
    BY <1>3, <1>6
  <2>. QED BY <1>1, <1>3, <1>5, <2>1, <2>2
<1>8. Good(evlist', left', 0)
  <2>1. Deltas(Tail(evlist), left)
    <3> SUFFICES ASSUME NEW i \in 1 .. Len(evlist) - 1
                 PROVE  left[Tail(evlist)[i].ev]
                          = Tail(evlist)[i].dt + (IF i = 1 THEN 0 ELSE left[Tail(evlist)[i - 1].ev])
        BY <1>4 DEF Deltas
    <3>1. i + 1 \in 1 .. Len(evlist) /\ i + 1 # 1 /\ (i + 1) - 1 = i /\ i \in 1 .. Len(evlist)
      BY <1>2
    <3>2. Left(i + 1) = evlist[i + 1].dt + Left(i)
      BY <1>6, <3>1
    <3>3. left[Tail(evlist)[i].ev] = Left(i + 1) /\ Tail(evlist)[i].dt = evlist[i + 1].dt
      BY <1>4 DEF Left
    <3>4. CASE i = 1
      BY <1>5, <1>7, <3>1, <3>2, <3>3, <3>4
    <3>5. CASE i # 1
      <4>1. i - 1 \in 1 .. Len(evlist) - 1 /\ (i - 1) + 1 = i
        BY <1>2, <3>5
      <4>2. left[Tail(evlist)[i - 1].ev] = Left(i)
        BY <1>4, <4>1 DEF Left
      <4>. QED BY <3>2, <3>3, <3>5, <4>2
    <3>. QED BY <3>4, <3>5
  <2>2. Distinct(Tail(evlist))
    <3> SUFFICES ASSUME NEW i \in 1 .. Len(evlist) - 1, NEW j \in 1 .. Len(evlist) - 1,
                        Tail(evlist)[i].ev = Tail(evlist)[j].ev
                 PROVE  i = j
        BY <1>4 DEF Distinct
    <3>1. i + 1 \in 1 .. Len(evlist) /\ j + 1 \in 1 .. Len(evlist)
          /\ evlist[i + 1].ev = evlist[j + 1].ev
      BY <1>2, <1>4
    <3>2. i + 1 = j + 1
      BY <1>2, <3>1 DEF Good, Distinct
    <3>. QED BY <3>2
  <2>3. Ordered(Tail(evlist), left)
    <3> SUFFICES ASSUME NEW i \in 1 .. Len(evlist) - 1, NEW j \in 1 .. Len(evlist) - 1, i <= j
                 PROVE  left[Tail(evlist)[i].ev] <= left[Tail(evlist)[j].ev]
        BY <1>4 DEF Ordered
    <3>1. i + 1 \in 1 .. Len(evlist) /\ j + 1 \in 1 .. Len(evlist) /\ i + 1 <= j + 1
      BY <1>2
    <3>. QED BY <1>2, <1>4, <3>1 DEF Good, Ordered
  <2>4. AtLeast(Tail(evlist), left, 0)
    <3> SUFFICES ASSUME NEW i \in 1 .. Len(evlist) - 1 PROVE left[Tail(evlist)[i].ev] >= 0
        BY <1>4 DEF AtLeast
    <3>1. i + 1 \in 1 .. Len(evlist)
      BY <1>2
    <3>. QED BY <1>2, <1>4, <3>1 DEF Good, AtLeast
  <2>. QED BY <1>1, <2>1, <2>2, <2>3, <2>4 DEF Good
<1>9. TimerInv'
  <2>1. TimerTypeOK'
    BY <1>1, <1>2, <1>4 DEF TimerTypeOK
  <2>. QED BY <1>1, <1>2, <1>8, <2>1, GoodNext DEF Bound
<1>10. Clock!Fire
  <2> DEFINE entry(k) == [ev |-> evlist[k].ev, func |-> evlist[k].func, left |-> Left(k)]
  <2>1. View(evlist, left) = {entry(k) : k \in 1 .. Len(evlist)}
    BY <1>2 DEF View, Left
  <2>2. View(evlist', left') = {entry(i + 1) : i \in 1 .. Len(evlist) - 1}
    BY <1>1, <1>4 DEF View, Left
  <2>3. \A k \in 1 .. Len(evlist) : k # 1 => entry(k) # entry(1)
    <3>1. \A k \in 1 .. Len(evlist) : k # 1 => evlist[k].ev # evlist[1].ev
      BY <1>2, <1>3 DEF Good, Distinct
    <3>. QED BY <3>1
  <2>4. entry(1).left = 0
    BY <1>7
  <2> HIDE DEF entry
  <2>5. \A k \in 1 .. Len(evlist) : k # 1 => \E i \in 1 .. Len(evlist) - 1 : k = i + 1
    <3> SUFFICES ASSUME NEW k \in 1 .. Len(evlist), k # 1
                 PROVE  \E i \in 1 .. Len(evlist) - 1 : k = i + 1
      OBVIOUS
    <3>1. k - 1 \in 1 .. Len(evlist) - 1 /\ k = (k - 1) + 1
      BY <1>2
    <3>. QED BY <3>1
  <2>6. \A i \in 1 .. Len(evlist) - 1 : i + 1 \in 1 .. Len(evlist) /\ i + 1 # 1
    BY <1>2
  <2>7. View(evlist', left') = View(evlist, left) \ {entry(1)}
    BY <2>1, <2>2, <2>3, <2>5, <2>6
  <2>8. entry(1) \in {a \in View(evlist, left) : a.left = 0}
    BY <1>3, <2>1, <2>4
  <2>. QED BY <1>1, <2>7, <2>8 DEF Clock!Fire, Clock!Due, View
<1>. QED BY <1>9, <1>10

(* The interrupt ends with an alarm of more than no ticks at the head *)
LEMMA ReturnStep ==
  ASSUME TimerInv, Return
  PROVE  TimerInv' /\ Clock!Return
<1>1. /\ ctx = "loop" /\ ~IsDue /\ ctx' = "main" /\ UNCHANGED << evlist, walk, left >>
  BY DEF Return
<1>2. /\ TimerTypeOK /\ Good(evlist, left, 0) /\ walk = NoWalk
      /\ DOMAIN evlist = 1 .. Len(evlist) /\ Len(evlist) \in Nat
      /\ (evlist = << >> <=> Len(evlist) = 0)
  BY <1>1, GoodList, ListFacts DEF TimerInv, TimerTypeOK
<1>3. ASSUME NEW i \in DOMAIN evlist
      PROVE  Left(i) >= 1
  <2>1. 1 \in 1 .. Len(evlist) /\ 1 <= i /\ i \in 1 .. Len(evlist)
    BY <1>2, <1>3
  <2>2. Left(1) \in Int /\ evlist[1].dt \in Int /\ Left(i) \in Int
    BY <1>2, <2>1, ListFacts
  <2>3. Left(1) = evlist[1].dt + 0
    BY <1>2, <2>1 DEF Good, Deltas, Left
  <2>4. ~(evlist[1].dt <= 0)
    BY <1>1, <1>2, <2>1 DEF IsDue
  <2>5. Left(1) <= Left(i)
    BY <1>2, <2>1 DEF Good, Ordered, Left
  <2>. QED BY <2>2, <2>3, <2>4, <2>5
<1>4. Good(evlist', left', Bound')
  BY <1>1, <1>2, <1>3 DEF Good, AtLeast, Bound, Left
<1>5. TimerInv'
  <2>1. TimerTypeOK'
    BY <1>1, <1>2 DEF TimerTypeOK
  <2>. QED BY <1>1, <1>2, <1>4, <2>1, GoodNext
<1>6. {a \in View(evlist, left) : a.left = 0} = {}
  BY <1>3 DEF View, Left
<1>. QED BY <1>1, <1>5, <1>6 DEF Clock!Return, Clock!Due, View

LEMMA FuncReturnsStep ==
  ASSUME TimerInv, FuncReturns
  PROVE  TimerInv' /\ Clock!FuncReturns
<1>1. /\ ctx \in {"func", "done"} /\ walk = NoWalk /\ ctx' = "loop"
      /\ UNCHANGED << evlist, walk, left >>
  BY DEF FuncReturns
<1>2. TimerTypeOK /\ Good(evlist, left, 0) /\ Bound' = 0
  BY <1>1, GoodList DEF TimerInv, Bound
<1>3. TimerTypeOK'
  BY <1>1, <1>2 DEF TimerTypeOK
<1>. QED BY <1>1, <1>2, <1>3, GoodNext DEF Clock!FuncReturns

LEMMA StutterStep ==
  ASSUME TimerInv, UNCHANGED timerVars
  PROVE  TimerInv' /\ UNCHANGED << View(evlist, left), ctx >>
<1>1. UNCHANGED << evlist, walk, ctx, left >>
  BY DEF timerVars
<1>2. TimerTypeOK'
  BY <1>1 DEF TimerInv, TimerTypeOK
<1>3. Good(evlist', left', Bound')
  BY <1>1, GoodList DEF Bound
<1>4. walk' # NoWalk => /\ walk'.tsum = left'[evlist'[walk'.node].ev]
                        /\ walk'.ev \notin InUse'
                        /\ walk'.tsum <= walk'.ticks
                        /\ left'[walk'.ev] = walk'.ticks
  BY <1>1 DEF TimerInv, DeltasAddUp, NodesDistinct, WalkInOrder, InUse
<1>. QED BY <1>1, <1>2, <1>3, <1>4, GoodNext

-----------------------------------------------------------------------------
(* Each step keeps the invariant and is a step of the alarm clock *)
LEMMA EachStep ==
  ASSUME TimerInv, [TimerNext]_timerVars
  PROVE  TimerInv' /\ (Clock!Next \/ UNCHANGED << View(evlist, left), ctx >>)
<1>1. ASSUME NEW e \in Events, NEW f \in Funcs, NEW n \in Delays, set_alarm(e, f, n)
      PROVE  TimerInv' /\ (Clock!Next \/ UNCHANGED << View(evlist, left), ctx >>)
  BY <1>1, SetAlarmStep DEF Clock!Next
<1>2. CASE Step
  BY <1>2, SearchStep
<1>3. CASE Insert
  BY <1>3, InsertStep DEF Clock!Next
<1>4. ASSUME NEW f \in Funcs, cancel_alarm(f)
      PROVE  TimerInv' /\ Clock!Next
  BY <1>4, CancelStep DEF Clock!Next
<1>5. CASE Tick
  BY <1>5, TickStep DEF Clock!Next
<1>6. CASE Fire
  BY <1>6, FireStep DEF Clock!Next
<1>7. CASE FuncReturns
  BY <1>7, FuncReturnsStep DEF Clock!Next
<1>8. CASE Return
  BY <1>8, ReturnStep DEF Clock!Next
<1>9. CASE UNCHANGED timerVars
  BY <1>9, StutterStep
<1>. QED BY <1>1, <1>2, <1>3, <1>4, <1>5, <1>6, <1>7, <1>8, <1>9 DEF TimerNext

LEMMA Invariance == TimerSpec => []TimerInv
<1>1. TimerInv /\ [TimerNext]_timerVars => TimerInv'
  BY EachStep
<1>. QED BY <1>1, InitGood, PTL DEF TimerSpec

(* The list is a list of alarms, and a search that goes on is at one of its *)
(* nodes, though ticks, calls and functions called by the interrupt come in *)
(* any order (evlist and the locals of set_alarm).                          *)
THEOREM TimerTypeCorrect == TimerSpec => []TimerTypeOK
  BY Invariance, PTL DEF TimerInv

(* However alarms are set, cancelled and fired, the deltas up to an alarm   *)
(* add up to what remains of the ticks set_alarm was asked for.             *)
THEOREM DeltasCorrect == TimerSpec => []DeltasAddUp
  BY Invariance, PTL DEF TimerInv

(* timer_handler leaves no alarm behind that is due. *)
THEOREM NothingOverdue == TimerSpec => []NoneOverdue
  BY Invariance, PTL DEF TimerInv

(* The delta list of timer.c implements the alarm clock: each alarm goes    *)
(* off in the very tick it was set for, unless it is cancelled before.      *)
THEOREM TimerImplements == TimerSpec => ClockSpec
<1>1. TimerInit => Clock!Init
  BY DEF TimerInit, Clock!Init
<1>2. TimerInv /\ [TimerNext]_timerVars => [Clock!Next]_Clock!clock
  BY EachStep DEF Clock!clock, View
<1>. QED BY <1>1, <1>2, Invariance, PTL DEF TimerSpec, ClockSpec, Clock!Spec

-----------------------------------------------------------------------------
(* The ring.  Key n is written to place (n - 1) % BUFSZ, and the main       *)
(* thread's registers agree with the ring at each of its steps, as long as  *)
(* no more keys are unread than the ring has room for.                      *)
HasKey == {"load_index", "read", "load_ridx_to_advance", "advance", "load_to_go_back", "go_back",
           "wrap", "test_full", "skip", "load_place", "put"}
TookKey == HasKey \ {"load_index", "read"}
Steps == HasKey \union {"client", "load_ridx_to_test", "test_empty", "hlt", "halted"}

RegistersOK ==
  /\ pc \in Steps
  /\ pc = "wrap" => buf_ridx = -1
  /\ pc \in {"test_empty", "read", "advance", "put"} => reg >= 0

KeysInPlace ==
  /\ got = [i \in 1 .. Len(got) |-> i]
  /\ pressed - Len(got) \in 0 .. BUFSZ - 1
  /\ \A n \in Len(got) + 1 .. pressed : buffer[(n - 1) % BUFSZ] = n
  /\ buf_widx = pressed % BUFSZ
  /\ pc = "wrap" => Len(got) % BUFSZ = BUFSZ - 1
  /\ PuttingBack => buf_ridx = (Len(got) + 1) % BUFSZ
  /\ ~PuttingBack /\ pc # "wrap" => buf_ridx = Len(got) % BUFSZ

InHand ==
  /\ pc \in HasKey => pressed > Len(got)
  /\ pc \in TookKey => key = Len(got) + 1
  /\ pc \in {"test_empty", "read", "advance", "put"} => reg = buf_ridx
  /\ pc = "go_back" => reg = buf_ridx - 1
  /\ pc # "skip"

FifoInv == ~overrun => KeysInPlace /\ InHand
RingInv == RingTypeOK /\ RegistersOK /\ FifoInv

-----------------------------------------------------------------------------
(* The decoder.  What the driver will know of key k when it comes to byte i *)
(* of the bytes w, and whether that byte is the key's code                  *)
ExtIn(w, e, i) == IF i = 1 THEN e ELSE w[i - 1] = Prefix
KeyIn(w, e, i) == IF ExtIn(w, e, i) THEN scantbl_set1_ext[w[i].code] ELSE scantbl_set1[w[i].code]
CodeOf(w, e, i, k) == w[i] # Prefix /\ KeyIn(w, e, i) = k
NoCode(w, e, from, to, k) == \A m \in from .. to : ~CodeOf(w, e, m, k)
HeldAt(w, e, state, i, k) ==
  \/ \E j \in 1 .. i - 1 : CodeOf(w, e, j, k) /\ ~w[j].release /\ NoCode(w, e, j + 1, i - 1, k)
  \/ state[k] /\ NoCode(w, e, 1, i - 1, k)
HeldBefore(i, k) == HeldAt(wire, ext, keystate, i, k)

(* Del goes down at byte i while Ctrl and Alt are held *)
AsksAt(i) ==
  /\ CodeOf(wire, ext, i, "DEL") /\ ~wire[i].release
  /\ HeldBefore(i, "LALT") \/ HeldBefore(i, "RALT")
  /\ HeldBefore(i, "LCTRL") \/ HeldBefore(i, "RCTRL")

WireOK ==
  /\ wire = << >> => ~ext
  /\ wire # << >> => wire[Len(wire)] # Prefix
WireInv ==
  ~rebooted =>
    /\ WireOK
    /\ \A k \in AllKeys : HeldBefore(Len(wire) + 1, k) <=> k \in down
    /\ \A i \in DOMAIN wire : AsksAt(i) => asked
CountInv ==
  /\ pressed + OnItsWay <= MaxKeys
  /\ ~rebooted => num_pressed <= pressed

DecoderInv == WireInv /\ CountInv /\ (rebooted => asked)
IInv == TypeOK /\ RingInv /\ DecoderInv

-----------------------------------------------------------------------------
(* Remainders *)
LEMMA ModRange ==
  ASSUME NEW x \in Int, NEW b \in Nat \ {0}
  PROVE  x % b \in 0 .. b - 1 /\ x \div b \in Int /\ x = (x \div b) * b + (x % b)
OBVIOUS

(* a multiple of b that lies between -b and b is 0 *)
LEMMA SmallMultiple ==
  ASSUME NEW q \in Int, NEW b \in Nat \ {0}, q * b < b, q * b > -b
  PROVE  q = 0
<1>1. CASE q >= 1
  <2>1. (q - 1) * b >= 0
    BY <1>1
  <2>2. (q - 1) * b = q * b - b
    OBVIOUS
  <2>3. q * b \in Int
    OBVIOUS
  <2>. QED BY <2>1, <2>2, <2>3
<1>2. CASE q <= -1
  <2>1. (-1 - q) * b >= 0
    BY <1>2
  <2>2. (-1 - q) * b = -b - q * b
    OBVIOUS
  <2>3. q * b \in Int
    OBVIOUS
  <2>. QED BY <2>1, <2>2, <2>3
<1>. QED BY <1>1, <1>2

LEMMA ModUnique ==
  ASSUME NEW b \in Nat \ {0}, NEW x \in Int, NEW q \in Int, NEW r \in 0 .. b - 1, x = q * b + r
  PROVE  x % b = r
<1> DEFINE d == x \div b
           m == x % b
<1>1. m \in 0 .. b - 1 /\ d \in Int /\ x = d * b + m
  BY ModRange
<1> HIDE DEF d, m
<1>2. (q - d) * b = q * b - d * b
  BY <1>1
<1>3. q * b \in Int /\ d * b \in Int
  BY <1>1
<1>4. (q - d) * b = m - r
  BY <1>1, <1>2, <1>3
<1>5. m - r < b /\ m - r > -b
  BY <1>1
<1>6. q - d = 0
  BY <1>1, <1>4, <1>5, SmallMultiple
<1>7. m = r
  BY <1>1, <1>3, <1>6
<1>. QED BY <1>7 DEF m

LEMMA ModAdd ==
  ASSUME NEW b \in Nat \ {0}, NEW x \in Int, NEW y \in Int
  PROVE  ((x % b) + y) % b = (x + y) % b
<1> DEFINE d == x \div b
           m == x % b
           e == (m + y) \div b
           s == (m + y) % b
<1>1. m \in 0 .. b - 1 /\ d \in Int /\ x = d * b + m
  BY ModRange
<1> HIDE DEF d, m
<1>2. s \in 0 .. b - 1 /\ e \in Int /\ m + y = e * b + s
  <2>1. m + y \in Int
    BY <1>1
  <2>. QED BY <2>1, ModRange
<1> HIDE DEF e, s
<1>3. (d + e) * b = d * b + e * b
  BY <1>1, <1>2
<1>4. d * b \in Int /\ e * b \in Int
  BY <1>1, <1>2
<1>5. x + y = (d + e) * b + s /\ d + e \in Int /\ x + y \in Int
  BY <1>1, <1>2, <1>3, <1>4
<1>6. (x + y) % b = s
  BY <1>2, <1>5, ModUnique
<1>. QED BY <1>6 DEF s, m

(* the distance of two places *)
LEMMA ModDistance ==
  ASSUME NEW b \in Nat \ {0}, NEW x \in Int, NEW y \in Int, y - x \in 0 .. b - 1
  PROVE  ((y % b) - (x % b)) % b = y - x
<1> DEFINE d == x \div b
           m == x % b
           e == y \div b
           s == y % b
<1>1. m \in 0 .. b - 1 /\ d \in Int /\ x = d * b + m
  BY ModRange
<1> HIDE DEF d, m
<1>2. s \in 0 .. b - 1 /\ e \in Int /\ y = e * b + s
  BY ModRange
<1> HIDE DEF e, s
<1>3. (d - e) * b = d * b - e * b
  BY <1>1, <1>2
<1>4. d * b \in Int /\ e * b \in Int
  BY <1>1, <1>2
<1>5. s - m = (d - e) * b + (y - x) /\ d - e \in Int /\ s - m \in Int
  BY <1>1, <1>2, <1>3, <1>4
<1>6. (s - m) % b = y - x
  <2> DEFINE u == s - m
             q == d - e
             r == y - x
  <2>1. u \in Int /\ q \in Int /\ r \in 0 .. b - 1 /\ u = q * b + r
    BY <1>5
  <2> HIDE DEF u, q, r
  <2>2. u % b = r
    BY <2>1, ModUnique
  <2>. QED BY <2>2 DEF u, r
<1>. QED BY <1>6 DEF s, m

(* numbers less than b apart have different places *)
LEMMA ModDiffers ==
  ASSUME NEW b \in Nat \ {0}, NEW x \in Int, NEW y \in Int, y - x \in 1 .. b - 1
  PROVE  y % b # x % b
<1>0. y - x \in 0 .. b - 1
  OBVIOUS
<1>1. ((y % b) - (x % b)) % b = y - x
  BY <1>0, ModDistance
<1>2. x % b \in Int /\ y % b \in Int
  BY ModRange
<1>3. 0 % b = 0
  BY ModUnique
<1>. QED BY <1>1, <1>2, <1>3

LEMMA ModSmall ==
  ASSUME NEW b \in Nat \ {0}, NEW x \in 0 .. b - 1
  PROVE  x % b = x
BY ModUnique

LEMMA AdvanceRange ==
  ASSUME NEW x \in Int
  PROVE  ADVANCE(x) \in 0 .. BUFSZ - 1
<1>1. BUFSZ \in Nat \ {0} /\ x + 1 \in Int
  BY RingAssumption
<1>2. (x + 1) % BUFSZ \in 0 .. BUFSZ - 1
  BY <1>1, ModRange
<1>. QED BY <1>2 DEF ADVANCE

(* The places before and after one *)
LEMMA PlaceFacts ==
  ASSUME NEW n \in Nat
  PROVE  /\ n % BUFSZ \in 0 .. BUFSZ - 1
         /\ ADVANCE(n % BUFSZ) = (n + 1) % BUFSZ
         /\ (n + 1) % BUFSZ = 0 => n % BUFSZ = BUFSZ - 1
         /\ (n + 1) % BUFSZ # 0 => n % BUFSZ = ((n + 1) % BUFSZ) - 1
<1>0. BUFSZ \in Nat \ {0}
  BY RingAssumption
<1>1. n % BUFSZ \in 0 .. BUFSZ - 1
  BY <1>0, ModRange
<1>2. ADVANCE(n % BUFSZ) = (n + 1) % BUFSZ
  <2>1. n \in Int /\ 1 \in Int
    OBVIOUS
  <2>2. ((n % BUFSZ) + 1) % BUFSZ = (n + 1) % BUFSZ
    BY <1>0, <2>1, ModAdd
  <2>. QED BY <2>2 DEF ADVANCE
<1>3. CASE n % BUFSZ = BUFSZ - 1
  <2>1. ((n % BUFSZ) + 1) % BUFSZ = BUFSZ % BUFSZ
    BY <1>0, <1>3
  <2>2. BUFSZ % BUFSZ = 0
    BY <1>0, ModUnique
  <2>. QED BY <1>1, <1>2, <1>3, <2>1, <2>2 DEF ADVANCE
<1>4. CASE n % BUFSZ # BUFSZ - 1
  <2>1. (n % BUFSZ) + 1 \in 1 .. BUFSZ - 1
    BY <1>0, <1>1, <1>4
  <2>2. ((n % BUFSZ) + 1) % BUFSZ = (n % BUFSZ) + 1
    BY <1>0, <2>1, ModSmall
  <2>. QED BY <1>1, <1>2, <2>1, <2>2 DEF ADVANCE
<1>. QED BY <1>1, <1>2, <1>3, <1>4

-----------------------------------------------------------------------------
(* Steps that move only the registers of the main thread *)
LEMMA RegisterStep ==
  ASSUME RingInv, UNCHANGED << ring, history >>, pc' \in Steps,
         PuttingBack' <=> PuttingBack, pc' = "wrap" <=> pc = "wrap",
         reg' \in -1 .. BUFSZ - 1, key' \in Keys \union {NoKey}, waiting' \in BOOLEAN,
         pc' \in {"test_empty", "read", "advance", "put"} => reg' = buf_ridx,
         ~overrun => InHand'
  PROVE  RingInv'
<1>1. UNCHANGED << buffer, buf_ridx, buf_widx, pressed, got, dropped, overrun >>
  BY DEF ring, history
<1>2. RingTypeOK' /\ RegistersOK'
  BY <1>1 DEF RingInv, RingTypeOK, RegistersOK
<1>3. ~overrun => KeysInPlace'
  BY <1>1 DEF RingInv, FifoInv, KeysInPlace
<1>. QED BY <1>1, <1>2, <1>3 DEF RingInv, FifoInv

LEMMA RingFacts ==
  ASSUME RingInv
  PROVE  /\ BUFSZ \in Nat \ {0} /\ MaxKeys \in Nat
         /\ got \in Seq(Keys \union {NoKey}) /\ Len(got) \in Nat /\ pressed \in Nat
         /\ pc # "wrap" => buf_ridx \in 0 .. BUFSZ - 1
         /\ buf_ridx \in -1 .. BUFSZ - 1 /\ reg \in -1 .. BUFSZ - 1 /\ buf_widx \in 0 .. BUFSZ - 1
         /\ key \in Keys \union {NoKey} /\ waiting \in BOOLEAN
         /\ pc \in {"test_empty", "read", "advance", "put"} => reg \in 0 .. BUFSZ - 1
<1>1. BUFSZ \in Nat \ {0} /\ MaxKeys \in Nat
  BY RingAssumption
<1>2. got \in Seq(Keys \union {NoKey}) /\ pressed \in 0 .. MaxKeys
  BY DEF RingInv, RingTypeOK
<1>3. buf_ridx \in -1 .. BUFSZ - 1 /\ reg \in -1 .. BUFSZ - 1 /\ buf_widx \in 0 .. BUFSZ - 1
  BY DEF RingInv, RingTypeOK
<1>4. key \in Keys \union {NoKey} /\ waiting \in BOOLEAN
  BY DEF RingInv, RingTypeOK
<1>5. buf_ridx = -1 => pc = "wrap"
  BY DEF RingInv, RingTypeOK
<1>6. pc \in {"test_empty", "read", "advance", "put"} => reg >= 0
  BY DEF RingInv, RegistersOK
<1>7. Len(got) \in Nat /\ pressed \in Nat
  BY <1>1, <1>2
<1>8. pc # "wrap" => buf_ridx \in 0 .. BUFSZ - 1
  BY <1>1, <1>3, <1>5
<1>9. ASSUME pc \in {"test_empty", "read", "advance", "put"}
      PROVE  reg \in 0 .. BUFSZ - 1
  <2>1. reg >= 0
    BY <1>6, <1>9
  <2>2. reg \in Int /\ reg <= BUFSZ - 1
    BY <1>1, <1>3
  <2>. QED BY <1>1, <2>1, <2>2
<1>. QED BY <1>1, <1>2, <1>3, <1>4, <1>7, <1>8, <1>9

(* kb_getkey up to the load of its key, and kb_wait's halt *)
LEMMA LookStep ==
  ASSUME RingInv, \/ CallGetkey \/ CallWait \/ Halt \/ timer_intr \/ TestEmpty
                  \/ Load("load_ridx_to_test", buf_ridx, "test_empty")
                  \/ Load("load_index", buf_ridx, "read")
                  \/ Load("load_ridx_to_advance", buf_ridx, "advance")
  PROVE  RingInv'
<1>0. /\ UNCHANGED << ring, history, key >> /\ waiting' \in BOOLEAN
      /\ pc \notin {"wrap", "load_to_go_back", "go_back"}
      /\ pc' \in {"load_ridx_to_test", "test_empty", "load_index", "read", "advance",
                  "hlt", "halted", "client"}
      /\ \/ reg' = reg /\ pc' \notin {"test_empty", "read", "advance"}
         \/ reg' = buf_ridx
  BY RingFacts DEF CallGetkey, CallWait, Halt, timer_intr, TestEmpty, Load, Awake
<1>1. ~overrun => InHand'
  <2>1. SUFFICES ASSUME ~overrun PROVE InHand'
    OBVIOUS
  <2>2. KeysInPlace /\ InHand
    BY <2>1 DEF RingInv, FifoInv
  <2>3. UNCHANGED << buffer, buf_ridx, buf_widx, pressed, got, overrun, key >>
    BY <1>0 DEF ring, history
  <2>4. pc' = "load_index" => pressed > Len(got)
    <3>1. pc' = "load_index" => reg # buf_widx /\ pc = "test_empty"
      BY DEF CallGetkey, CallWait, Halt, timer_intr, TestEmpty, Load, Awake
    <3>2. pc' = "load_index" => Len(got) % BUFSZ # pressed % BUFSZ
      BY <2>2, <3>1 DEF InHand, KeysInPlace, PuttingBack
    <3>3. pressed - Len(got) \in 0 .. BUFSZ - 1 /\ pressed \in Nat /\ Len(got) \in Nat
      BY <2>2, RingFacts DEF KeysInPlace
    <3>. QED BY <3>2, <3>3
  <2>5. /\ pc' = "read" => pc = "load_index"
        /\ pc' = "advance" => pc = "load_ridx_to_advance"
        /\ pc' \in {"read", "advance", "test_empty"} => reg' = buf_ridx
    BY DEF CallGetkey, CallWait, Halt, timer_intr, TestEmpty, Load, Awake
  <2>. QED BY <1>0, <2>2, <2>3, <2>4, <2>5 DEF InHand, HasKey, TookKey
<1>2. reg' \in -1 .. BUFSZ - 1 /\ key' \in Keys \union {NoKey}
  BY <1>0, RingFacts
<1>3. pc' \in Steps /\ (PuttingBack' <=> PuttingBack) /\ (pc' = "wrap" <=> pc = "wrap")
  BY <1>0 DEF Steps, HasKey, PuttingBack
<1>. QED BY <1>0, <1>1, <1>2, <1>3, RegisterStep

(* The key that is read is the first that was not *)
LEMMA ReadKeyStep ==
  ASSUME RingInv, ReadKey
  PROVE  RingInv'
<1>0. /\ UNCHANGED << ring, history, reg, waiting >>
      /\ pc = "read" /\ pc' = "load_ridx_to_advance" /\ key' = buffer[reg]
  BY DEF ReadKey
<1>1. reg \in 0 .. BUFSZ - 1 /\ key' \in Keys \union {NoKey}
  BY <1>0, RingFacts DEF RingInv, RingTypeOK
<1>2. ~overrun => InHand'
  <2>1. SUFFICES ASSUME ~overrun PROVE InHand'
    OBVIOUS
  <2>2. KeysInPlace /\ InHand
    BY <2>1 DEF RingInv, FifoInv
  <2>3. pressed > Len(got) /\ reg = Len(got) % BUFSZ
    BY <1>0, <2>2 DEF KeysInPlace, InHand, HasKey, PuttingBack
  <2>4. Len(got) + 1 \in Len(got) + 1 .. pressed /\ (Len(got) + 1) - 1 = Len(got)
    BY <2>3, RingFacts
  <2>5. buffer[Len(got) % BUFSZ] = Len(got) + 1
    BY <2>2, <2>4 DEF KeysInPlace
  <2>. QED BY <1>0, <2>2, <2>3, <2>5 DEF InHand, HasKey, TookKey, history
<1>. QED BY <1>0, <1>1, <1>2, RegisterStep, RingFacts DEF Steps, HasKey, PuttingBack

(* kb_getkey returns the key, or kb_wait goes on to put it back *)
LEMMA AdvanceStep ==
  ASSUME RingInv, Advance
  PROVE  RingInv'
<1>0. /\ UNCHANGED << buffer, buf_widx, reg, key, waiting, pressed, dropped, overrun >>
      /\ pc = "advance" /\ buf_ridx' = ADVANCE(reg)
      /\ pc' = (IF waiting THEN "load_to_go_back" ELSE "client")
      /\ got' = (IF waiting THEN got ELSE Append(got, key))
  BY DEF Advance
<1>1. buf_ridx' \in 0 .. BUFSZ - 1
  <2>1. reg \in Int
    BY RingFacts
  <2>. QED BY <1>0, <2>1, AdvanceRange
<1>2. got' \in Seq(Keys \union {NoKey})
  BY <1>0, RingFacts
<1>3. RingTypeOK' /\ RegistersOK'
  BY <1>0, <1>1, <1>2 DEF RingInv, RingTypeOK, RegistersOK, Steps, HasKey
<1>4. ASSUME ~overrun
      PROVE  KeysInPlace' /\ InHand'
  <2>1. KeysInPlace /\ InHand
    BY <1>4 DEF RingInv, FifoInv
  <2>2. pressed > Len(got) /\ key = Len(got) + 1 /\ reg = Len(got) % BUFSZ
    BY <1>0, <2>1 DEF KeysInPlace, InHand, HasKey, TookKey, PuttingBack
  <2>3. buf_ridx' = (Len(got) + 1) % BUFSZ
    BY <1>0, <2>2, PlaceFacts, RingFacts
  <2>4. CASE waiting
    BY <1>0, <2>1, <2>2, <2>3, <2>4 DEF KeysInPlace, InHand, HasKey, TookKey, PuttingBack
  <2>5. CASE ~waiting
    <3>1. got' = Append(got, Len(got) + 1) /\ pc' = "client"
      BY <1>0, <2>2, <2>5
    <3>2. Len(got') = Len(got) + 1 /\ got' = [i \in 1 .. Len(got) + 1 |-> i]
      <4>1. got = [i \in 1 .. Len(got) |-> i] /\ Len(got) \in Nat
        BY <2>1, RingFacts DEF KeysInPlace
      <4>2. got' \in Seq(Int) /\ Len(got') = Len(got) + 1
            /\ \A i \in 1 .. Len(got) + 1 : got'[i] = IF i <= Len(got) THEN got[i] ELSE Len(got) + 1
        <5>1. got \in Seq(Int)
          BY <4>1
        <5>. QED BY <3>1, <4>1, <5>1
      <4>3. \A i \in 1 .. Len(got) + 1 : got'[i] = i
        BY <4>1, <4>2
      <4>. QED BY <4>2, <4>3
    <3>3. pressed - Len(got') \in 0 .. BUFSZ - 1
      BY <2>1, <2>2, <3>2, RingFacts DEF KeysInPlace
    <3>4. \A n \in Len(got') + 1 .. pressed : buffer[(n - 1) % BUFSZ] = n
      BY <2>1, <2>2, <3>2, RingFacts DEF KeysInPlace
    <3>. QED BY <1>0, <2>1, <2>3, <3>1, <3>2, <3>3, <3>4 DEF KeysInPlace, InHand, HasKey, TookKey, PuttingBack
  <2>. QED BY <2>4, <2>5
<1>. QED BY <1>0, <1>3, <1>4 DEF RingInv, FifoInv

-----------------------------------------------------------------------------
(* kb_putback up to its store *)
LEMMA LoadBackStep ==
  ASSUME RingInv, Load("load_to_go_back", buf_ridx - 1, "go_back") \/ Load("load_place", buf_ridx, "put")
  PROVE  RingInv'
<1>0. /\ UNCHANGED << ring, history, key, waiting >>
      /\ \/ pc = "load_to_go_back" /\ pc' = "go_back" /\ reg' = buf_ridx - 1
         \/ pc = "load_place" /\ pc' = "put" /\ reg' = buf_ridx
  BY DEF Load
<1>1. reg' \in -1 .. BUFSZ - 1
  BY <1>0, RingFacts
<1>2. ~overrun => InHand'
  BY <1>0 DEF RingInv, FifoInv, InHand, HasKey, TookKey, history, ring
<1>. QED BY <1>0, <1>1, <1>2, RegisterStep, RingFacts DEF Steps, HasKey, PuttingBack

(* buf_ridx goes back to the key's place, below 0 for a moment when that is *)
(* the last                                                                 *)
LEMMA GoBackStep ==
  ASSUME RingInv, GoBack
  PROVE  RingInv'
<1>0. /\ UNCHANGED << buffer, buf_widx, reg, key, waiting, pressed, got, dropped, overrun >>
      /\ pc = "go_back" /\ buf_ridx' = reg /\ pc' = (IF reg < 0 THEN "wrap" ELSE "test_full")
  BY DEF GoBack, history
<1>1. RingTypeOK' /\ RegistersOK'
  BY <1>0, RingFacts DEF RingInv, RingTypeOK, RegistersOK, Steps, HasKey
<1>2. ASSUME ~overrun
      PROVE  KeysInPlace' /\ InHand'
  <2>1. KeysInPlace /\ InHand
    BY <1>2 DEF RingInv, FifoInv
  <2>2. reg = ((Len(got) + 1) % BUFSZ) - 1
    BY <1>0, <2>1 DEF KeysInPlace, InHand, PuttingBack
  <2>3. Len(got) \in Nat /\ Len(got) + 1 \in Nat /\ BUFSZ \in Nat
    BY RingFacts
  <2>4. IF reg < 0 THEN Len(got) % BUFSZ = BUFSZ - 1 ELSE reg = Len(got) % BUFSZ
    <3> DEFINE here == Len(got) % BUFSZ
               next == (Len(got) + 1) % BUFSZ
    <3>1. /\ here \in 0 .. BUFSZ - 1 /\ next \in 0 .. BUFSZ - 1
          /\ next = 0 => here = BUFSZ - 1
          /\ next # 0 => here = next - 1
      BY <2>3, PlaceFacts
    <3>2. reg = next - 1
      BY <2>2
    <3> HIDE DEF here, next
    <3>3. IF reg < 0 THEN here = BUFSZ - 1 ELSE reg = here
      BY <2>3, <3>1, <3>2
    <3>. QED BY <3>3 DEF here
  <2>5. KeysInPlace'
    BY <1>0, <2>1, <2>4 DEF KeysInPlace, PuttingBack
  <2>6. InHand'
    BY <1>0, <2>1 DEF InHand, HasKey, TookKey
  <2>. QED BY <2>5, <2>6
<1>. QED BY <1>0, <1>1, <1>2 DEF RingInv, FifoInv

LEMMA WrapStep ==
  ASSUME RingInv, Wrap
  PROVE  RingInv'
<1>0. /\ UNCHANGED << buffer, buf_widx, reg, key, waiting, pressed, got, dropped, overrun >>
      /\ pc = "wrap" /\ buf_ridx' = buf_ridx + BUFSZ /\ pc' = "test_full"
  BY DEF Wrap, history
<1>1. buf_ridx = -1 /\ buf_ridx' = BUFSZ - 1
  BY <1>0, RingFacts DEF RingInv, RegistersOK
<1>2. RingTypeOK' /\ RegistersOK'
  BY <1>0, <1>1, RingFacts DEF RingInv, RingTypeOK, RegistersOK, Steps, HasKey
<1>3. ASSUME ~overrun
      PROVE  KeysInPlace' /\ InHand'
  BY <1>0, <1>1, <1>3 DEF RingInv, FifoInv, KeysInPlace, InHand, HasKey, TookKey, PuttingBack
<1>. QED BY <1>0, <1>2, <1>3 DEF RingInv, FifoInv

(* with room in the ring the test for a full one fails *)
LEMMA TestFullStep ==
  ASSUME RingInv, TestFull
  PROVE  RingInv'
<1>0. /\ UNCHANGED << buffer, buf_ridx, buf_widx, reg, key, waiting, pressed, got, overrun >>
      /\ pc = "test_full"
      /\ IF buf_ridx = buf_widx THEN pc' = "skip" /\ dropped' = dropped + 1
         ELSE pc' = "load_place" /\ dropped' = dropped
  BY DEF TestFull, ring
<1>1. RingTypeOK' /\ RegistersOK'
  BY <1>0 DEF RingInv, RingTypeOK, RegistersOK, Steps, HasKey
<1>2. ASSUME ~overrun
      PROVE  KeysInPlace' /\ InHand'
  <2>1. KeysInPlace /\ InHand
    BY <1>2 DEF RingInv, FifoInv
  <2>2. pressed - Len(got) \in 1 .. BUFSZ - 1
    BY <1>0, <2>1, RingFacts DEF KeysInPlace, InHand, HasKey
  <2>3. buf_ridx # buf_widx
    BY <1>0, <2>1, <2>2, RingFacts, ModDiffers DEF KeysInPlace, PuttingBack
  <2>. QED BY <1>0, <2>1, <2>3 DEF KeysInPlace, InHand, HasKey, TookKey, PuttingBack
<1>. QED BY <1>0, <1>1, <1>2 DEF RingInv, FifoInv

LEMMA SkipStep ==
  ASSUME RingInv, Skip
  PROVE  RingInv'
<1>0. /\ UNCHANGED << buffer, buf_widx, reg, key, waiting, pressed, got, dropped, overrun >>
      /\ pc = "skip" /\ buf_ridx' = ADVANCE(buf_ridx) /\ pc' = "load_place"
  BY DEF Skip, history
<1>1. buf_ridx' \in 0 .. BUFSZ - 1
  <2>1. buf_ridx \in Int
    BY RingFacts
  <2>. QED BY <1>0, <2>1, AdvanceRange
<1>2. RingTypeOK' /\ RegistersOK'
  BY <1>0, <1>1 DEF RingInv, RingTypeOK, RegistersOK, Steps, HasKey
<1>. QED BY <1>0, <1>2 DEF RingInv, FifoInv, InHand

(* the key is stored where it was *)
LEMMA PutStep ==
  ASSUME RingInv, Put
  PROVE  RingInv'
<1>0. /\ UNCHANGED << buf_ridx, buf_widx, reg, key, pressed, got, dropped, overrun >>
      /\ pc = "put" /\ buffer' = [buffer EXCEPT ![reg] = key] /\ pc' = "client" /\ waiting' = FALSE
  BY DEF Put, history
<1>1. RingTypeOK' /\ RegistersOK'
  BY <1>0, RingFacts DEF RingInv, RingTypeOK, RegistersOK, Steps, HasKey
<1>2. ASSUME ~overrun
      PROVE  KeysInPlace' /\ InHand'
  <2>1. KeysInPlace /\ InHand
    BY <1>2 DEF RingInv, FifoInv
  <2>2. reg = Len(got) % BUFSZ /\ key = Len(got) + 1
    BY <1>0, <2>1 DEF KeysInPlace, InHand, TookKey, HasKey, PuttingBack
  <2>3. pressed - Len(got) \in 0 .. BUFSZ - 1 /\ Len(got) \in Nat /\ pressed \in Nat
    BY <2>1, RingFacts DEF KeysInPlace
  <2>4. ASSUME NEW n \in Len(got) + 1 .. pressed
        PROVE  buffer'[(n - 1) % BUFSZ] = n
    <3>1. buffer[(n - 1) % BUFSZ] = n
      BY <2>1 DEF KeysInPlace
    <3>2. (n - 1) % BUFSZ = reg => n = key
      <4>1. CASE n = Len(got) + 1
        BY <2>2, <4>1
      <4>2. CASE n # Len(got) + 1
        <5> DEFINE m == n - 1
        <5>1. m - Len(got) \in 1 .. BUFSZ - 1 /\ m \in Int /\ Len(got) \in Int /\ BUFSZ \in Nat \ {0}
          BY <2>3, <4>2, RingFacts
        <5> HIDE DEF m
        <5>2. m % BUFSZ # Len(got) % BUFSZ
          BY <2>3, <5>1, ModDiffers
        <5>3. (n - 1) % BUFSZ # Len(got) % BUFSZ
          BY <5>2 DEF m
        <5>. QED BY <2>2, <5>3
      <4>. QED BY <4>1, <4>2
    <3>. QED BY <1>0, <3>1, <3>2 DEF RingInv, RingTypeOK
  <2>. QED BY <1>0, <2>1, <2>4 DEF KeysInPlace, InHand, HasKey, TookKey, PuttingBack
<1>. QED BY <1>0, <1>1, <1>2 DEF RingInv, FifoInv

-----------------------------------------------------------------------------
(* kbintr's key, between any two steps of the main thread *)
LEMMA AppendStep ==
  ASSUME RingInv, AppendToBuffer, pressed < MaxKeys, pc' = Awake, UNCHANGED << reg, key, waiting >>
  PROVE  RingInv'
<1>0. /\ buffer' = [buffer EXCEPT ![buf_widx] = pressed + 1]
      /\ buf_widx' = ADVANCE(buf_widx)
      /\ IF ADVANCE(buf_widx) = buf_ridx
         THEN buf_ridx' = ADVANCE(buf_ridx) /\ dropped' = dropped + 1
         ELSE buf_ridx' = buf_ridx /\ dropped' = dropped
      /\ pressed' = pressed + 1
      /\ overrun' = (overrun \/ pressed + 1 - Len(got) >= BUFSZ)
      /\ got' = got
      /\ pc' = (IF pc = "halted" THEN "load_ridx_to_test" ELSE pc)
  BY DEF AppendToBuffer, Awake
<1>1. ADVANCE(buf_widx) \in 0 .. BUFSZ - 1
  <2>1. buf_widx \in Int
    BY RingFacts
  <2>. QED BY <2>1, AdvanceRange
<1>2. buf_ridx' \in -1 .. BUFSZ - 1 /\ (pc # "wrap" => buf_ridx' # -1) /\ (pc = "wrap" => buf_ridx' = -1)
  <2>1. buf_ridx \in Int => ADVANCE(buf_ridx) \in 0 .. BUFSZ - 1
    BY AdvanceRange
  <2>2. pc = "wrap" => buf_ridx = -1
    BY DEF RingInv, RegistersOK
  <2>. QED BY <1>0, <1>1, <2>1, <2>2, RingFacts
<1>3. pressed + 1 \in Keys /\ pressed' \in 0 .. MaxKeys
  BY <1>0, RingFacts DEF Keys
<1>4. RingTypeOK'
  BY <1>0, <1>1, <1>2, <1>3 DEF RingInv, RingTypeOK
<1>5. RegistersOK'
  BY <1>0, <1>2 DEF RingInv, RegistersOK, Steps, HasKey
<1>6. ASSUME ~overrun'
      PROVE  KeysInPlace' /\ InHand'
  <2>1. KeysInPlace /\ InHand /\ pressed + 1 - Len(got) < BUFSZ
    <3>1. ~overrun /\ ~(pressed + 1 - Len(got) >= BUFSZ)
      BY <1>0, <1>6
    <3>. QED BY <3>1, RingFacts DEF RingInv, FifoInv
  <2>2. pressed - Len(got) \in 0 .. BUFSZ - 1 /\ Len(got) \in Nat /\ pressed \in Nat /\ BUFSZ \in Nat \ {0}
    BY <2>1, RingFacts DEF KeysInPlace
  <2>3. buf_widx = pressed % BUFSZ /\ ADVANCE(buf_widx) = (pressed + 1) % BUFSZ
    BY <2>1, <2>2, PlaceFacts DEF KeysInPlace
  <2>4. ADVANCE(buf_widx) # buf_ridx
    <3>1. CASE PuttingBack
      <4>1. buf_ridx = (Len(got) + 1) % BUFSZ /\ pressed > Len(got)
        BY <2>1, <3>1 DEF KeysInPlace, InHand, PuttingBack, HasKey
      <4> DEFINE p == pressed + 1
                 l == Len(got) + 1
      <4>2. p - l \in 1 .. BUFSZ - 1 /\ p \in Int /\ l \in Int
        BY <2>2, <4>1
      <4> HIDE DEF p, l
      <4>3. p % BUFSZ # l % BUFSZ
        BY <2>2, <4>2, ModDiffers
      <4>. QED BY <2>3, <4>1, <4>3 DEF p, l
    <3>2. CASE ~PuttingBack /\ pc # "wrap"
      <4>1. buf_ridx = Len(got) % BUFSZ
        BY <2>1, <3>2 DEF KeysInPlace
      <4> DEFINE p == pressed + 1
      <4>2. p - Len(got) \in 1 .. BUFSZ - 1 /\ p \in Int /\ Len(got) \in Int
        BY <2>1, <2>2
      <4> HIDE DEF p
      <4>3. p % BUFSZ # Len(got) % BUFSZ
        BY <2>2, <4>2, ModDiffers
      <4>. QED BY <2>3, <4>1, <4>3 DEF p
    <3>3. CASE pc = "wrap"
      BY <1>1, <3>3 DEF RingInv, RegistersOK
    <3>. QED BY <3>1, <3>2, <3>3
  <2>5. buf_ridx' = buf_ridx
    BY <1>0, <2>4
  <2>6. ASSUME NEW n \in Len(got) + 1 .. pressed + 1
        PROVE  buffer'[(n - 1) % BUFSZ] = n
    <3>1. CASE n = pressed + 1
      <4>1. (n - 1) % BUFSZ = buf_widx
        BY <2>2, <2>3, <3>1
      <4>. QED BY <1>0, <3>1, <4>1 DEF RingInv, RingTypeOK
    <3>2. CASE n # pressed + 1
      <4> DEFINE m == n - 1
      <4>1. n \in Len(got) + 1 .. pressed /\ pressed - m \in 1 .. BUFSZ - 1 /\ m \in Int /\ pressed \in Int
        BY <2>1, <2>2, <3>2
      <4>2. buffer[(n - 1) % BUFSZ] = n
        BY <2>1, <4>1 DEF KeysInPlace
      <4> HIDE DEF m
      <4>3. pressed % BUFSZ # m % BUFSZ
        BY <2>2, <4>1, ModDiffers
      <4>4. (n - 1) % BUFSZ # buf_widx
        BY <2>3, <4>3 DEF m
      <4>. QED BY <1>0, <4>2, <4>4 DEF RingInv, RingTypeOK
    <3>. QED BY <3>1, <3>2
  <2>7. pressed' - Len(got') \in 0 .. BUFSZ - 1
    BY <1>0, <2>1, <2>2
  <2>8. (PuttingBack' <=> PuttingBack) /\ (pc' = "wrap" <=> pc = "wrap")
    BY <1>0 DEF PuttingBack
  <2>9. KeysInPlace'
    BY <1>0, <2>1, <2>3, <2>5, <2>6, <2>7, <2>8 DEF KeysInPlace
  <2>10. InHand'
    BY <1>0, <2>1, <2>2, <2>5 DEF InHand, HasKey, TookKey
  <2>. QED BY <2>9, <2>10
<1>. QED BY <1>4, <1>5, <1>6 DEF RingInv, FifoInv

LEMMA RingStep ==
  ASSUME RingInv, CallGetkey \/ CallWait \/ Main \/ timer_intr
  PROVE  RingInv'
BY LookStep, ReadKeyStep, AdvanceStep, LoadBackStep, GoBackStep, WrapStep, TestFullStep, SkipStep, PutStep
   DEF Main, Getkey, Putback

-----------------------------------------------------------------------------
(* The numbers after l up to p *)
From(l, p) == [i \in 1 .. p - l |-> l + i]

LEMMA FromFacts ==
  ASSUME NEW l \in Nat, NEW m \in Nat, NEW p \in Nat, l <= m, m <= p
  PROVE  From(l, m) \o From(m, p) = From(l, p)
<1> DEFINE a == From(l, m)
           b == From(m, p)
<1>1. a \in Seq(Int) /\ Len(a) = m - l /\ \A i \in 1 .. m - l : a[i] = l + i
  BY DEF From
<1>2. b \in Seq(Int) /\ Len(b) = p - m /\ \A i \in 1 .. p - m : b[i] = m + i
  BY DEF From
<1> HIDE DEF a, b
<1>3. a \o b \in Seq(Int) /\ Len(a \o b) = p - l
      /\ \A i \in 1 .. p - l : (a \o b)[i] = IF i <= m - l THEN a[i] ELSE b[i - (m - l)]
  <2>1. Len(a) + Len(b) = p - l
    BY <1>1, <1>2
  <2>2. /\ a \o b \in Seq(Int) /\ Len(a \o b) = Len(a) + Len(b)
        /\ \A i \in 1 .. Len(a) + Len(b) : (a \o b)[i] = IF i <= Len(a) THEN a[i] ELSE b[i - Len(a)]
    BY <1>1, <1>2, ConcatProperties
  <2>. QED BY <1>1, <2>1, <2>2
<1>4. From(l, p) \in Seq(Int) /\ Len(From(l, p)) = p - l /\ \A i \in 1 .. p - l : From(l, p)[i] = l + i
  BY DEF From
<1>5. \A i \in 1 .. p - l : (a \o b)[i] = l + i
  <2> SUFFICES ASSUME NEW i \in 1 .. p - l PROVE (a \o b)[i] = l + i
    OBVIOUS
  <2>1. CASE i <= m - l
    BY <1>1, <1>3, <2>1
  <2>2. CASE ~(i <= m - l)
    <3>1. i - (m - l) \in 1 .. p - m /\ m + (i - (m - l)) = l + i
      BY <2>2
    <3>2. (a \o b)[i] = b[i - (m - l)]
      BY <1>3, <2>2
    <3>3. b[i - (m - l)] = m + (i - (m - l))
      BY <1>2, <3>1
    <3>. QED BY <3>1, <3>2, <3>3
  <2>. QED BY <2>1, <2>2
<1>6. a \o b = From(l, p)
  BY <1>3, <1>4, <1>5, SeqEqual
<1>. QED BY <1>6 DEF a, b

(* What a reader would find from the first key unread on, or from the next  *)
LEMMA UnreadFacts ==
  ASSUME RingInv, KeysInPlace, NEW l \in {Len(got), Len(got) + 1}, l <= pressed
  PROVE  Unread(l % BUFSZ) = From(l, pressed)
<1>1. /\ BUFSZ \in Nat \ {0} /\ l \in Nat /\ pressed \in Nat /\ Len(got) \in Nat
      /\ pressed - l \in 0 .. BUFSZ - 1
  <2> DEFINE n == Len(got)
  <2>1. BUFSZ \in Nat \ {0} /\ pressed \in Nat /\ n \in Nat
    BY RingFacts
  <2>2. pressed - n \in 0 .. BUFSZ - 1
    BY DEF KeysInPlace
  <2>3. l = n \/ l = n + 1
    OBVIOUS
  <2> HIDE DEF n
  <2>4. l \in Nat /\ pressed - l \in 0 .. BUFSZ - 1
    BY <2>1, <2>2, <2>3
  <2>. QED BY <2>1, <2>4 DEF n
<1>2. (buf_widx - (l % BUFSZ)) % BUFSZ = pressed - l
  <2>1. l \in Int /\ pressed \in Int
    BY <1>1
  <2>2. ((pressed % BUFSZ) - (l % BUFSZ)) % BUFSZ = pressed - l
    BY <1>1, <2>1, ModDistance
  <2>. QED BY <2>2 DEF KeysInPlace
<1>3. ASSUME NEW i \in 1 .. pressed - l
      PROVE  buffer[((l % BUFSZ) + i - 1) % BUFSZ] = l + i
  <2> DEFINE j == i - 1
  <2>1. j \in Int /\ l \in Int
    BY <1>1, <1>3
  <2> HIDE DEF j
  <2>2. ((l % BUFSZ) + j) % BUFSZ = (l + j) % BUFSZ
    BY <1>1, <2>1, ModAdd
  <2>3. l % BUFSZ \in Int
    BY <1>1, ModRange
  <2>4. ((l % BUFSZ) + i - 1) % BUFSZ = ((l + i) - 1) % BUFSZ
    <3>1. (l % BUFSZ) + i - 1 = (l % BUFSZ) + j /\ (l + i) - 1 = l + j
      BY <1>1, <1>3, <2>3 DEF j
    <3>. QED BY <2>2, <3>1
  <2>5. l + i \in Len(got) + 1 .. pressed
    BY <1>1
  <2>. QED BY <2>4, <2>5 DEF KeysInPlace
<1>. QED BY <1>2, <1>3 DEF Unread, From

LEMMA RingImpliesFifo == RingInv => FifoUntilOverrun
<1> SUFFICES ASSUME RingInv, ~overrun
             PROVE  /\ PuttingBack => got \o (<< key >> \o Unread(buf_ridx)) = [i \in 1 .. pressed |-> i]
                    /\ ~PuttingBack /\ StepsBack =>
                         got \o (<< key >> \o Unread((buf_ridx + 1) % BUFSZ)) = [i \in 1 .. pressed |-> i]
                    /\ ~PuttingBack /\ ~StepsBack => got \o Unread(buf_ridx) = [i \in 1 .. pressed |-> i]
  BY DEF FifoUntilOverrun
<1>1. KeysInPlace /\ InHand
  BY DEF RingInv, FifoInv
<1>2. BUFSZ \in Nat \ {0} /\ pressed \in Nat /\ Len(got) \in Nat /\ Len(got) <= pressed
  BY <1>1, RingFacts DEF KeysInPlace
<1>3. got = From(0, Len(got)) /\ [i \in 1 .. pressed |-> i] = From(0, pressed)
  BY <1>1, <1>2 DEF KeysInPlace, From
<1>4. got \o From(Len(got), pressed) = From(0, pressed)
  <2>1. From(0, Len(got)) \o From(Len(got), pressed) = From(0, pressed)
    <3>1. 0 \in Nat /\ 0 <= Len(got)
      BY <1>2
    <3>. QED BY <1>2, <3>1, FromFacts
  <2>. QED BY <1>3, <2>1
<1>5. ASSUME PuttingBack \/ StepsBack
      PROVE  /\ Len(got) + 1 <= pressed
             /\ << key >> \o From(Len(got) + 1, pressed) = From(Len(got), pressed)
  <2>1. pressed > Len(got) /\ key = Len(got) + 1
    BY <1>1, <1>5 DEF InHand, PuttingBack, StepsBack, HasKey, TookKey
  <2>2. << key >> = From(Len(got), Len(got) + 1)
    BY <1>2, <2>1 DEF From
  <2>3. From(Len(got), Len(got) + 1) \o From(Len(got) + 1, pressed) = From(Len(got), pressed)
    <3>1. Len(got) + 1 \in Nat /\ Len(got) <= Len(got) + 1 /\ Len(got) + 1 <= pressed
      BY <1>2, <2>1
    <3>. QED BY <1>2, <3>1, FromFacts
  <2>4. Len(got) + 1 <= pressed
    BY <1>2, <2>1
  <2>. QED BY <2>2, <2>3, <2>4
<1>6. ASSUME PuttingBack
      PROVE  got \o (<< key >> \o Unread(buf_ridx)) = From(0, pressed)
  <2>1. buf_ridx = (Len(got) + 1) % BUFSZ
    BY <1>1, <1>6 DEF KeysInPlace
  <2>2. Unread(buf_ridx) = From(Len(got) + 1, pressed)
    BY <1>1, <1>5, <1>6, <2>1, UnreadFacts
  <2>. QED BY <1>4, <1>5, <1>6, <2>2
<1>7. ASSUME ~PuttingBack, StepsBack
      PROVE  got \o (<< key >> \o Unread((buf_ridx + 1) % BUFSZ)) = From(0, pressed)
  <2>1. ADVANCE(Len(got) % BUFSZ) = (Len(got) + 1) % BUFSZ
    BY <1>2, PlaceFacts
  <2>2. (buf_ridx + 1) % BUFSZ = (Len(got) + 1) % BUFSZ
    <3>1. CASE pc = "wrap"
      <4>1. buf_ridx + 1 = 0 /\ Len(got) % BUFSZ = BUFSZ - 1
        BY <1>1, <3>1 DEF KeysInPlace, RingInv, RegistersOK
      <4>2. 0 % BUFSZ = 0 /\ BUFSZ % BUFSZ = 0
        BY <1>2, ModUnique
      <4>3. ADVANCE(Len(got) % BUFSZ) = 0
        BY <1>2, <4>1, <4>2 DEF ADVANCE
      <4>. QED BY <2>1, <4>1, <4>2, <4>3
    <3>2. CASE pc # "wrap"
      BY <1>1, <1>7, <2>1, <3>2 DEF KeysInPlace, ADVANCE
    <3>. QED BY <3>1, <3>2
  <2>3. Unread((buf_ridx + 1) % BUFSZ) = From(Len(got) + 1, pressed)
    BY <1>1, <1>5, <1>7, <2>2, UnreadFacts
  <2>. QED BY <1>4, <1>5, <1>7, <2>3
<1>8. ASSUME ~PuttingBack, ~StepsBack
      PROVE  got \o Unread(buf_ridx) = From(0, pressed)
  <2>1. buf_ridx = Len(got) % BUFSZ
    BY <1>1, <1>8 DEF KeysInPlace, StepsBack
  <2>2. Unread(buf_ridx) = From(Len(got), pressed)
    BY <1>1, <1>2, <2>1, UnreadFacts
  <2>. QED BY <1>4, <2>2
<1>. QED BY <1>3, <1>6, <1>7, <1>8

-----------------------------------------------------------------------------
(* The scan codes *)
LEMMA CodeFacts ==
  /\ Codes = {"ctrl", "alt", "del"}
  /\ AllKeys = {"LCTRL", "LALT", "NUM_DOT", "RCTRL", "RALT", "DEL"}
  /\ \A c \in Codes : scantbl_set1[c] \in AllKeys /\ scantbl_set1_ext[c] \in AllKeys
  /\ Prefix.code \notin Codes
<1>1. Codes = {"ctrl", "alt", "del"}
  BY DEF Codes, scantbl_set1
<1>2. /\ scantbl_set1["ctrl"] = "LCTRL" /\ scantbl_set1["alt"] = "LALT" /\ scantbl_set1["del"] = "NUM_DOT"
      /\ scantbl_set1_ext["ctrl"] = "RCTRL" /\ scantbl_set1_ext["alt"] = "RALT"
      /\ scantbl_set1_ext["del"] = "DEL"
  BY DEF scantbl_set1, scantbl_set1_ext
<1>3. AllKeys = {"LCTRL", "LALT", "NUM_DOT", "RCTRL", "RALT", "DEL"}
  BY <1>1, <1>2 DEF AllKeys
<1>. QED BY <1>1, <1>2, <1>3 DEF Prefix

LEMMA ByteFacts ==
  ASSUME NEW byte \in Bytes
  PROVE  /\ byte.release \in BOOLEAN
         /\ byte # Prefix => byte.code \in Codes /\ byte = [code |-> byte.code, release |-> byte.release]
         /\ byte = Prefix => byte.release
<1>1. CASE byte = Prefix
  BY <1>1 DEF Prefix
<1>2. CASE byte \in [code : Codes, release : BOOLEAN]
  <2>1. byte.code \in Codes /\ byte.release \in BOOLEAN
        /\ byte = [code |-> byte.code, release |-> byte.release]
    BY <1>2
  <2>2. byte # Prefix
    BY <2>1, CodeFacts
  <2>. QED BY <2>1, <2>2
<1>. QED BY <1>1, <1>2 DEF Bytes

LEMMA CodeBytes ==
  ASSUME NEW c \in Codes, NEW r \in BOOLEAN
  PROVE  /\ [code |-> c, release |-> r] \in Bytes /\ [code |-> c, release |-> r] # Prefix
         /\ [code |-> c, release |-> r].code = c /\ [code |-> c, release |-> r].release = r
<1>1. c # "e0"
  BY CodeFacts
<1>. QED BY <1>1 DEF Bytes, Prefix

(* What the keyboard sends for a key: one code, or the prefix and a code *)
LEMMA SentFacts ==
  ASSUME NEW k \in AllKeys, NEW r \in BOOLEAN
  PROVE  \E c \in Codes :
           \/ scantbl_set1[c] = k /\ Sent(k, r) = << [code |-> c, release |-> r] >>
           \/ scantbl_set1_ext[c] = k /\ Sent(k, r) = << Prefix, [code |-> c, release |-> r] >>
<1>1. CASE \E c \in Codes : scantbl_set1[c] = k
  <2> DEFINE c == CHOOSE x \in Codes : scantbl_set1[x] = k
  <2>1. c \in Codes /\ scantbl_set1[c] = k
    BY <1>1
  <2>2. Sent(k, r) = << [code |-> c, release |-> r] >>
    BY <1>1 DEF Sent
  <2>. QED BY <2>1, <2>2
<1>2. CASE ~\E c \in Codes : scantbl_set1[c] = k
  <2>1. \E c \in Codes : scantbl_set1_ext[c] = k
    BY <1>2 DEF AllKeys
  <2> DEFINE c == CHOOSE x \in Codes : scantbl_set1_ext[x] = k
  <2>2. c \in Codes /\ scantbl_set1_ext[c] = k
    BY <2>1
  <2>3. Sent(k, r) = << Prefix, [code |-> c, release |-> r] >>
    BY <1>2 DEF Sent
  <2>. QED BY <2>2, <2>3
<1>. QED BY <1>1, <1>2

-----------------------------------------------------------------------------
(* Past one byte, its key is what the byte says and the others are as before *)
LEMMA HeldStep ==
  ASSUME NEW w \in Seq(Bytes), NEW e, NEW state, NEW m \in 1 .. Len(w), NEW k
  PROVE  HeldAt(w, e, state, m + 1, k) <=>
           IF CodeOf(w, e, m, k) THEN ~w[m].release ELSE HeldAt(w, e, state, m, k)
<1>0. m \in Nat /\ (m + 1) - 1 = m /\ 1 .. m = (1 .. m - 1) \union {m}
  OBVIOUS
<1>1. \A a \in 1 .. m : NoCode(w, e, a, m, k) <=> NoCode(w, e, a, m - 1, k) /\ ~CodeOf(w, e, m, k)
  BY <1>0 DEF NoCode
<1>2. NoCode(w, e, m + 1, m, k)
  BY <1>0 DEF NoCode
<1>3. HeldAt(w, e, state, m + 1, k) <=>
        \/ \E j \in 1 .. m : CodeOf(w, e, j, k) /\ ~w[j].release /\ NoCode(w, e, j + 1, m, k)
        \/ state[k] /\ NoCode(w, e, 1, m, k)
  BY <1>0 DEF HeldAt
<1>4. \A j \in 1 .. m - 1 : j + 1 \in 1 .. m
  BY <1>0
<1>5. CASE CodeOf(w, e, m, k)
  <2>1. \A j \in 1 .. m - 1 : ~NoCode(w, e, j + 1, m, k)
    BY <1>1, <1>4, <1>5
  <2>2. ~NoCode(w, e, 1, m, k)
    BY <1>1, <1>5
  <2>. QED BY <1>0, <1>2, <1>3, <1>5, <2>1, <2>2
<1>6. CASE ~CodeOf(w, e, m, k)
  <2>1. \A j \in 1 .. m - 1 : NoCode(w, e, j + 1, m, k) <=> NoCode(w, e, j + 1, m - 1, k)
    BY <1>1, <1>4, <1>6
  <2>2. NoCode(w, e, 1, m, k) <=> NoCode(w, e, 1, m - 1, k)
    BY <1>0, <1>1, <1>6
  <2>. QED BY <1>0, <1>3, <1>6, <2>1, <2>2 DEF HeldAt
<1>. QED BY <1>5, <1>6

(* Bytes sent later change nothing for those before *)
LEMMA HeldExtends ==
  ASSUME NEW w \in Seq(Bytes), NEW w2 \in Seq(Bytes), Len(w) <= Len(w2),
         \A i \in 1 .. Len(w) : w2[i] = w[i], NEW e, NEW state, NEW k
  PROVE  /\ \A i \in 1 .. Len(w) : CodeOf(w2, e, i, k) <=> CodeOf(w, e, i, k)
         /\ \A i \in 1 .. Len(w) + 1 : HeldAt(w2, e, state, i, k) <=> HeldAt(w, e, state, i, k)
<1>0. Len(w) \in Nat /\ Len(w2) \in Nat
  OBVIOUS
<1>1. \A i \in 1 .. Len(w) : CodeOf(w2, e, i, k) <=> CodeOf(w, e, i, k)
  <2> SUFFICES ASSUME NEW i \in 1 .. Len(w) PROVE CodeOf(w2, e, i, k) <=> CodeOf(w, e, i, k)
    OBVIOUS
  <2>1. w2[i] = w[i] /\ (i # 1 => w2[i - 1] = w[i - 1])
    BY <1>0
  <2>. QED BY <2>1 DEF CodeOf, KeyIn, ExtIn
<1>2. \A a \in 1 .. Len(w) + 1, b \in 0 .. Len(w) : NoCode(w2, e, a, b, k) <=> NoCode(w, e, a, b, k)
  BY <1>0, <1>1 DEF NoCode
<1>3. ASSUME NEW i \in 1 .. Len(w) + 1
      PROVE  HeldAt(w2, e, state, i, k) <=> HeldAt(w, e, state, i, k)
  <2>1. \A j \in 1 .. i - 1 : j \in 1 .. Len(w) /\ j + 1 \in 1 .. Len(w) + 1 /\ i - 1 \in 0 .. Len(w)
    BY <1>0
  <2>2. NoCode(w2, e, 1, i - 1, k) <=> NoCode(w, e, 1, i - 1, k)
    BY <1>0, <1>2
  <2>3. \A j \in 1 .. i - 1 : /\ CodeOf(w2, e, j, k) <=> CodeOf(w, e, j, k)
                              /\ w2[j].release = w[j].release
                              /\ NoCode(w2, e, j + 1, i - 1, k) <=> NoCode(w, e, j + 1, i - 1, k)
    BY <1>1, <1>2, <2>1
  <2>. QED BY <2>2, <2>3 DEF HeldAt
<1>. QED BY <1>1, <1>3

(* The decoder takes the first byte: nothing changes for those behind it *)
Shifted(w, e, state, e2, state2, k) ==
  /\ \A i \in 1 .. Len(w) - 1 : CodeOf(Tail(w), e2, i, k) <=> CodeOf(w, e, i + 1, k)
  /\ \A i \in 1 .. Len(w) : HeldAt(Tail(w), e2, state2, i, k) <=> HeldAt(w, e, state, i + 1, k)

LEMMA HeldShifts ==
  ASSUME NEW w \in Seq(Bytes), w # << >>, NEW e, NEW state, NEW e2, NEW state2, NEW k,
         e2 <=> (w[1] = Prefix),
         state2[k] <=> (IF CodeOf(w, e, 1, k) THEN ~w[1].release ELSE state[k])
  PROVE  Shifted(w, e, state, e2, state2, k)
<1> DEFINE t == Tail(w)
<1>0. /\ Len(w) \in Nat /\ Len(w) >= 1 /\ t \in Seq(Bytes) /\ Len(t) = Len(w) - 1
      /\ \A i \in 1 .. Len(w) - 1 : t[i] = w[i + 1]
  BY HeadTailProperties
<1> HIDE DEF t
<1>1. \A i \in 1 .. Len(w) - 1 : CodeOf(t, e2, i, k) <=> CodeOf(w, e, i + 1, k)
  <2> SUFFICES ASSUME NEW i \in 1 .. Len(w) - 1 PROVE CodeOf(t, e2, i, k) <=> CodeOf(w, e, i + 1, k)
    OBVIOUS
  <2>1. t[i] = w[i + 1] /\ (i # 1 => t[i - 1] = w[(i - 1) + 1]) /\ (i - 1) + 1 = i /\ (i + 1) - 1 = i /\ i + 1 # 1
    <3>1. i \in Int /\ (i # 1 => i - 1 \in 1 .. Len(w) - 1)
      BY <1>0
    <3>2. t[i] = w[i + 1] /\ (i # 1 => t[i - 1] = w[(i - 1) + 1])
      BY <1>0, <3>1
    <3>3. (i - 1) + 1 = i /\ (i + 1) - 1 = i /\ i + 1 # 1
      BY <3>1
    <3>. QED BY <3>2, <3>3
  <2>2. ExtIn(t, e2, i) <=> ExtIn(w, e, i + 1)
    BY <2>1 DEF ExtIn
  <2>. QED BY <2>1, <2>2 DEF CodeOf, KeyIn
<1>2. state2[k] <=> IF CodeOf(w, e, 1, k) THEN ~w[1].release ELSE state[k]
  OBVIOUS
<1>3. ASSUME NEW a \in 1 .. Len(w), NEW b \in 0 .. Len(w) - 1
      PROVE  NoCode(t, e2, a, b, k) <=> NoCode(w, e, a + 1, b + 1, k)
  <2>1. \A m \in a .. b : m \in 1 .. Len(w) - 1 /\ m + 1 \in a + 1 .. b + 1
    BY <1>0
  <2>2. \A m \in a + 1 .. b + 1 : m - 1 \in a .. b /\ m - 1 \in 1 .. Len(w) - 1 /\ (m - 1) + 1 = m
    BY <1>0
  <2>3. ASSUME NoCode(t, e2, a, b, k), NEW m \in a + 1 .. b + 1
        PROVE  ~CodeOf(w, e, m, k)
    <3> DEFINE n == m - 1
    <3>1. n \in a .. b /\ n \in 1 .. Len(w) - 1 /\ n + 1 = m
      BY <2>2
    <3>2. ~CodeOf(t, e2, n, k)
      BY <2>3, <3>1 DEF NoCode
    <3>3. CodeOf(t, e2, n, k) <=> CodeOf(w, e, n + 1, k)
      BY <1>1, <3>1
    <3> HIDE DEF n
    <3>. QED BY <3>1, <3>2, <3>3
  <2>4. ASSUME NoCode(w, e, a + 1, b + 1, k), NEW m \in a .. b
        PROVE  ~CodeOf(t, e2, m, k)
    BY <1>1, <2>1, <2>4 DEF NoCode
  <2>. QED BY <2>3, <2>4 DEF NoCode
<1>4. ASSUME NEW i \in 1 .. Len(w)
      PROVE  HeldAt(t, e2, state2, i, k) <=> HeldAt(w, e, state, i + 1, k)
  <2>0. (i + 1) - 1 = i /\ (i - 1) + 1 = i /\ i - 1 \in 0 .. Len(w) - 1
    BY <1>0
  <2> DEFINE L(j) == CodeOf(t, e2, j, k) /\ ~t[j].release /\ NoCode(t, e2, j + 1, i - 1, k)
             R(j) == CodeOf(w, e, j, k) /\ ~w[j].release /\ NoCode(w, e, j + 1, i, k)
  <2>1. \A j \in 1 .. i - 1 : L(j) <=> R(j + 1)
    <3> SUFFICES ASSUME NEW j \in 1 .. i - 1 PROVE L(j) <=> R(j + 1)
      OBVIOUS
    <3>1. j \in 1 .. Len(w) - 1 /\ j + 1 \in 1 .. Len(w)
      BY <1>0
    <3>2. NoCode(t, e2, j + 1, i - 1, k) <=> NoCode(w, e, (j + 1) + 1, i, k)
      BY <1>3, <2>0, <3>1
    <3>3. (CodeOf(t, e2, j, k) <=> CodeOf(w, e, j + 1, k)) /\ t[j] = w[j + 1]
      BY <1>0, <1>1, <3>1
    <3>. QED BY <3>2, <3>3
  <2>2. NoCode(t, e2, 1, i - 1, k) <=> NoCode(w, e, 2, i, k)
    BY <1>0, <1>3, <2>0
  <2>3. NoCode(w, e, 1, i, k) <=> NoCode(w, e, 2, i, k) /\ ~CodeOf(w, e, 1, k)
    <3>1. 1 .. i = {1} \union (2 .. i)
      OBVIOUS
    <3>. QED BY <3>1 DEF NoCode
  <2>4. (\E j \in 1 .. i : R(j)) <=> R(1) \/ \E j \in 1 .. i - 1 : R(j + 1)
    <3>1. \A j \in 1 .. i : j = 1 \/ (j - 1 \in 1 .. i - 1 /\ (j - 1) + 1 = j)
      OBVIOUS
    <3>2. 1 \in 1 .. i /\ \A j \in 1 .. i - 1 : j + 1 \in 1 .. i
      OBVIOUS
    <3> HIDE DEF R
    <3>. QED BY <3>1, <3>2
  <2>5. R(1) <=> CodeOf(w, e, 1, k) /\ ~w[1].release /\ NoCode(w, e, 2, i, k)
    BY DEF R
  <2>6. HeldAt(t, e2, state2, i, k) <=> (\E j \in 1 .. i - 1 : L(j)) \/ (state2[k] /\ NoCode(t, e2, 1, i - 1, k))
    BY DEF HeldAt
  <2>7. HeldAt(w, e, state, i + 1, k) <=> (\E j \in 1 .. i : R(j)) \/ (state[k] /\ NoCode(w, e, 1, i, k))
    BY <2>0 DEF HeldAt
  <2> HIDE DEF L, R
  <2>. QED BY <1>2, <2>1, <2>2, <2>3, <2>4, <2>5, <2>6, <2>7
<1>. QED BY <1>1, <1>4 DEF t, Shifted
-----------------------------------------------------------------------------
(* The presses on their way *)
Presses(w) == {i \in DOMAIN w : ~w[i].release}

LEMMA PressesFinite ==
  ASSUME NEW w \in Seq(Bytes)
  PROVE  IsFiniteSet(Presses(w)) /\ Cardinality(Presses(w)) \in Nat
<1>1. Len(w) \in Nat /\ DOMAIN w = 1 .. Len(w)
  OBVIOUS
<1>2. IsFiniteSet(1 .. Len(w))
  BY <1>1, FS_Interval
<1>3. Presses(w) \in SUBSET (1 .. Len(w))
  BY <1>1 DEF Presses
<1>. QED BY <1>2, <1>3, FS_Subset, FS_CardinalityType

LEMMA PressesAppend ==
  ASSUME NEW w \in Seq(Bytes), NEW b \in Bytes
  PROVE  Cardinality(Presses(Append(w, b))) = Cardinality(Presses(w)) + (IF b.release THEN 0 ELSE 1)
<1> DEFINE v == Append(w, b)
<1>1. /\ Len(w) \in Nat /\ DOMAIN w = 1 .. Len(w) /\ DOMAIN v = 1 .. Len(w) + 1
      /\ v[Len(w) + 1] = b /\ \A i \in 1 .. Len(w) : v[i] = w[i]
  OBVIOUS
<1> HIDE DEF v
<1>2. Len(w) + 1 \notin Presses(w)
  BY <1>1 DEF Presses
<1>3. Presses(v) = IF b.release THEN Presses(w) ELSE Presses(w) \union {Len(w) + 1}
  <2>1. \A i \in 1 .. Len(w) + 1 : i \in 1 .. Len(w) \/ i = Len(w) + 1
    BY <1>1
  <2>2. \A i : i \in Presses(v) <=> i \in 1 .. Len(w) + 1 /\ ~v[i].release
    BY <1>1 DEF Presses
  <2>3. \A i : i \in Presses(w) <=> i \in 1 .. Len(w) /\ ~w[i].release
    BY <1>1 DEF Presses
  <2>4. \A i \in 1 .. Len(w) : i \in 1 .. Len(w) + 1
    BY <1>1
  <2>5. Len(w) + 1 \in 1 .. Len(w) + 1
    BY <1>1
  <2>. QED BY <1>1, <2>1, <2>2, <2>3, <2>4, <2>5
<1>4. IsFiniteSet(Presses(w)) /\ Cardinality(Presses(w)) \in Nat
  BY PressesFinite
<1>5. Cardinality(Presses(v)) = Cardinality(Presses(w)) + (IF b.release THEN 0 ELSE 1)
  <2>1. Cardinality(Presses(w) \union {Len(w) + 1}) = Cardinality(Presses(w)) + 1
    BY <1>2, <1>4, FS_AddElement
  <2>2. CASE b.release
    BY <1>3, <1>4, <2>2
  <2>3. CASE ~b.release
    BY <1>3, <1>4, <2>1, <2>3
  <2>. QED BY <2>2, <2>3
<1>. QED BY <1>5 DEF v

LEMMA PressesTail ==
  ASSUME NEW w \in Seq(Bytes), w # << >>
  PROVE  Cardinality(Presses(w)) = Cardinality(Presses(Tail(w))) + (IF w[1].release THEN 0 ELSE 1)
<1> DEFINE t == Tail(w)
           rest == Presses(w) \ {1}
           f == [i \in Presses(t) |-> i + 1]
<1>1. /\ Len(w) \in Nat /\ Len(w) >= 1 /\ t \in Seq(Bytes) /\ Len(t) = Len(w) - 1
      /\ DOMAIN w = 1 .. Len(w) /\ DOMAIN t = 1 .. Len(w) - 1
      /\ \A i \in 1 .. Len(w) - 1 : t[i] = w[i + 1]
  BY HeadTailProperties
<1>2. IsFiniteSet(Presses(t)) /\ IsFiniteSet(Presses(w))
      /\ Cardinality(Presses(w)) \in Nat /\ Cardinality(Presses(t)) \in Nat
  BY <1>1, PressesFinite
<1> HIDE DEF t
<1>3. \A i : i \in Presses(t) <=> i \in 1 .. Len(w) - 1 /\ ~w[i + 1].release
  BY <1>1 DEF Presses
<1>4. \A i : i \in rest <=> i \in 2 .. Len(w) /\ ~w[i].release
  BY <1>1 DEF Presses
<1>5. f \in Bijection(Presses(t), rest)
  <2>1. \A i \in Presses(t) : i \in Int /\ f[i] = i + 1 /\ i + 1 \in rest
    BY <1>1, <1>3, <1>4
  <2>2. f \in [Presses(t) -> rest]
    BY <2>1
  <2>3. \A i, j \in Presses(t) : f[i] = f[j] => i = j
    BY <2>1
  <2>4. \A j \in rest : \E i \in Presses(t) : f[i] = j
    <3> SUFFICES ASSUME NEW j \in rest PROVE \E i \in Presses(t) : f[i] = j
      OBVIOUS
    <3>1. j \in 2 .. Len(w) /\ ~w[j].release
      BY <1>4
    <3>2. j - 1 \in 1 .. Len(w) - 1 /\ (j - 1) + 1 = j
      BY <1>1, <3>1
    <3>3. j - 1 \in Presses(t)
      BY <1>3, <3>1, <3>2
    <3>. QED BY <2>1, <3>2, <3>3
  <2> HIDE DEF f, rest
  <2>. QED BY <2>2, <2>3, <2>4, Zenon DEF Bijection, Injection, Surjection, IsInjective
<1>6. Cardinality(rest) = Cardinality(Presses(t))
  BY <1>2, <1>5, FS_Bijection, Zenon DEF ExistsBijection
<1>7. Cardinality(rest) = IF 1 \in Presses(w) THEN Cardinality(Presses(w)) - 1 ELSE Cardinality(Presses(w))
  BY <1>2, FS_RemoveElement
<1>8. 1 \in Presses(w) <=> ~w[1].release
  BY <1>1 DEF Presses
<1>9. Cardinality(Presses(w)) = Cardinality(Presses(t)) + (IF w[1].release THEN 0 ELSE 1)
  BY <1>2, <1>6, <1>7, <1>8
<1>. QED BY <1>9 DEF t

-----------------------------------------------------------------------------
(* What is sent for a key is that key's code, and no other key's *)
LEMMA SentBytes ==
  ASSUME NEW w \in Seq(Bytes), NEW e \in BOOLEAN, NEW k \in AllKeys, NEW r \in BOOLEAN,
         w = << >> => ~e, w # << >> => w[Len(w)] # Prefix
  PROVE  LET v == w \o Sent(k, r) IN
         /\ v \in Seq(Bytes) /\ Len(v) = Len(w) + Len(Sent(k, r)) /\ Len(v) > Len(w)
         /\ \A i \in 1 .. Len(w) : v[i] = w[i]
         /\ v[Len(v)].release = r /\ v[Len(v)] # Prefix
         /\ \A x \in AllKeys : CodeOf(v, e, Len(v), x) <=> x = k
         /\ \A i \in Len(w) + 1 .. Len(v) - 1 : v[i] = Prefix
         /\ Len(v) = Len(w) + 1 \/ Len(v) = Len(w) + 2
         /\ Cardinality(Presses(v)) = Cardinality(Presses(w)) + (IF r THEN 0 ELSE 1)
<1> DEFINE v == w \o Sent(k, r)
<1>1. PICK c \in Codes :
           \/ scantbl_set1[c] = k /\ Sent(k, r) = << [code |-> c, release |-> r] >>
           \/ scantbl_set1_ext[c] = k /\ Sent(k, r) = << Prefix, [code |-> c, release |-> r] >>
  BY SentFacts
<1> DEFINE b == [code |-> c, release |-> r]
<1>2. b \in Bytes /\ b # Prefix /\ b.code = c /\ b.release = r /\ Prefix \in Bytes /\ Prefix.release
  BY CodeBytes DEF Bytes, Prefix
<1>3. Len(w) \in Nat
  OBVIOUS
<1> HIDE DEF b
<1>4. CASE scantbl_set1[c] = k /\ Sent(k, r) = << b >>
  <2>1. v = Append(w, b)
    BY <1>2, <1>4
  <2> HIDE DEF v
  <2>2. v \in Seq(Bytes) /\ Len(v) = Len(w) + 1 /\ v[Len(w) + 1] = b /\ \A i \in 1 .. Len(w) : v[i] = w[i]
    BY <1>2, <2>1
  <2>3. ~ExtIn(v, e, Len(v))
    <3>1. CASE w = << >>
      BY <2>2, <3>1 DEF ExtIn
    <3>2. CASE w # << >>
      <4>1. Len(w) \in 1 .. Len(w) /\ Len(v) # 1 /\ Len(v) - 1 = Len(w)
        BY <1>3, <2>2, <3>2
      <4>. QED BY <2>2, <3>2, <4>1 DEF ExtIn
    <3>. QED BY <3>1, <3>2
  <2>4. \A x \in AllKeys : CodeOf(v, e, Len(v), x) <=> x = k
    BY <1>2, <1>4, <2>2, <2>3 DEF CodeOf, KeyIn
  <2>5. Cardinality(Presses(v)) = Cardinality(Presses(w)) + (IF r THEN 0 ELSE 1)
    BY <1>2, <2>1, PressesAppend
  <2>6. Len(Sent(k, r)) = 1
    BY <1>4
  <2>. QED BY <1>2, <1>3, <2>2, <2>4, <2>5, <2>6 DEF v
<1>5. CASE scantbl_set1_ext[c] = k /\ Sent(k, r) = << Prefix, b >>
  <2> DEFINE u == Append(w, Prefix)
  <2>0. u \in Seq(Bytes) /\ Len(u) = Len(w) + 1 /\ u[Len(w) + 1] = Prefix /\ \A i \in 1 .. Len(w) : u[i] = w[i]
    BY <1>2
  <2>1. v = Append(u, b)
    <3>1. << Prefix, b >> \in Seq(Bytes)
      BY <1>2
    <3>. QED BY <1>2, <1>5, <3>1
  <2>7. Cardinality(Presses(u)) = Cardinality(Presses(w))
    <3>1. Cardinality(Presses(u)) = Cardinality(Presses(w)) + 0
      BY <1>2, PressesAppend
    <3>. QED BY <3>1, PressesFinite
  <2> HIDE DEF v, u
  <2>2. v \in Seq(Bytes) /\ Len(v) = Len(u) + 1 /\ v[Len(u) + 1] = b /\ \A i \in 1 .. Len(u) : v[i] = u[i]
    BY <1>2, <2>0, <2>1
  <2>3. ExtIn(v, e, Len(v))
    <3>1. Len(v) # 1 /\ Len(v) - 1 = Len(w) + 1 /\ Len(w) + 1 \in 1 .. Len(u)
      BY <1>3, <2>0, <2>2
    <3>. QED BY <2>0, <2>2, <3>1 DEF ExtIn
  <2>4. \A x \in AllKeys : CodeOf(v, e, Len(v), x) <=> x = k
    BY <1>2, <1>5, <2>2, <2>3 DEF CodeOf, KeyIn
  <2>5. Cardinality(Presses(v)) = Cardinality(Presses(w)) + (IF r THEN 0 ELSE 1)
    BY <1>2, <2>0, <2>1, <2>7, PressesAppend
  <2>6. Len(Sent(k, r)) = 2
    BY <1>5
  <2>8. \A i \in 1 .. Len(w) : v[i] = w[i]
    BY <1>3, <2>0, <2>2
  <2>9. \A i \in Len(w) + 1 .. Len(v) - 1 : v[i] = Prefix
    BY <1>3, <2>0, <2>2
  <2>. QED BY <1>2, <1>3, <2>0, <2>2, <2>4, <2>5, <2>6, <2>8, <2>9 DEF v
<1>. QED BY <1>1, <1>4, <1>5 DEF b
LEMMA HeldSent ==
  ASSUME NEW w \in Seq(Bytes), NEW v \in Seq(Bytes), NEW e, NEW state, NEW x,
         \A i \in 1 .. Len(w) : v[i] = w[i], Len(v) = Len(w) + 1 \/ Len(v) = Len(w) + 2,
         \A i \in Len(w) + 1 .. Len(v) - 1 : v[i] = Prefix
  PROVE  HeldAt(v, e, state, Len(v), x) <=> HeldAt(w, e, state, Len(w) + 1, x)
<1>0. Len(w) \in Nat /\ Len(v) \in Nat /\ Len(w) <= Len(v)
  OBVIOUS
<1>1. HeldAt(v, e, state, Len(w) + 1, x) <=> HeldAt(w, e, state, Len(w) + 1, x)
  <2>1. Len(w) + 1 \in 1 .. Len(w) + 1
    BY <1>0
  <2>. QED BY <1>0, <2>1, HeldExtends
<1>2. CASE Len(v) = Len(w) + 1
  BY <1>1, <1>2
<1>3. CASE Len(v) = Len(w) + 2
  <2> DEFINE m == Len(w) + 1
  <2>1. m \in 1 .. Len(v) /\ m + 1 = Len(v) /\ v[m] = Prefix
    BY <1>0, <1>3
  <2> HIDE DEF m
  <2>2. HeldAt(v, e, state, m + 1, x) <=>
           IF CodeOf(v, e, m, x) THEN ~v[m].release ELSE HeldAt(v, e, state, m, x)
    BY <2>1, HeldStep
  <2>3. ~CodeOf(v, e, m, x)
    BY <2>1 DEF CodeOf
  <2>4. HeldAt(v, e, state, Len(v), x) <=> HeldAt(v, e, state, m, x)
    BY <2>1, <2>2, <2>3
  <2>. QED BY <1>1, <2>4 DEF m
<1>. QED BY <1>2, <1>3

-----------------------------------------------------------------------------
(* The steps of the keyboard and of the handler *)
LEMMA RingUnchanged ==
  ASSUME RingInv, UNCHANGED ringVars
  PROVE  RingInv'
BY DEF RingInv, ringVars, ring, history, RingTypeOK, RegistersOK, FifoInv, KeysInPlace, InHand, PuttingBack

LEMMA SendStep ==
  ASSUME IInv, NEW k \in Used, NEW r \in BOOLEAN, Send(k, r),
         ~r => pressed + OnItsWay < MaxKeys,
         down' = (IF r THEN down \ {k} ELSE down \union {k}),
         asked' = (asked \/ (~r /\ k = "DEL" /\ Held({"LALT", "RALT"}) /\ Held({"LCTRL", "RCTRL"})))
  PROVE  IInv'
<1> DEFINE w == wire
           v == wire'
<1>1. /\ ~rebooted /\ Len(w) + Len(Sent(k, r)) <= MaxWire /\ v = w \o Sent(k, r)
      /\ UNCHANGED << ringVars, ext, num_pressed, keystate, rebooted >>
  BY DEF Send, decoder
<1>2. w \in Seq(Bytes) /\ ext \in BOOLEAN /\ k \in AllKeys /\ down \subseteq Used /\ asked \in BOOLEAN
  BY KeyboardAssumption DEF IInv, TypeOK
<1>3. /\ WireOK /\ \A x \in AllKeys : HeldAt(w, ext, keystate, Len(w) + 1, x) <=> x \in down
      /\ \A i \in DOMAIN w : AsksAt(i) => asked
  BY <1>1 DEF IInv, DecoderInv, WireInv, HeldBefore
<1>4. /\ v \in Seq(Bytes) /\ Len(v) = Len(w) + Len(Sent(k, r)) /\ Len(v) > Len(w)
      /\ \A i \in 1 .. Len(w) : v[i] = w[i]
      /\ v[Len(v)].release = r /\ v[Len(v)] # Prefix
      /\ \A x \in AllKeys : CodeOf(v, ext, Len(v), x) <=> x = k
      /\ \A i \in Len(w) + 1 .. Len(v) - 1 : v[i] = Prefix
      /\ Len(v) = Len(w) + 1 \/ Len(v) = Len(w) + 2
      /\ Cardinality(Presses(v)) = Cardinality(Presses(w)) + (IF r THEN 0 ELSE 1)
  <2>1. (w = << >> => ~ext) /\ (w # << >> => w[Len(w)] # Prefix)
    BY <1>3 DEF WireOK
  <2> HIDE DEF w
  <2>2. LET u == w \o Sent(k, r) IN
        /\ u \in Seq(Bytes) /\ Len(u) = Len(w) + Len(Sent(k, r)) /\ Len(u) > Len(w)
        /\ \A i \in 1 .. Len(w) : u[i] = w[i]
        /\ u[Len(u)].release = r /\ u[Len(u)] # Prefix
        /\ \A x \in AllKeys : CodeOf(u, ext, Len(u), x) <=> x = k
        /\ \A i \in Len(w) + 1 .. Len(u) - 1 : u[i] = Prefix
        /\ Len(u) = Len(w) + 1 \/ Len(u) = Len(w) + 2
        /\ Cardinality(Presses(u)) = Cardinality(Presses(w)) + (IF r THEN 0 ELSE 1)
    BY <1>2, <2>1, SentBytes
  <2>3. v = w \o Sent(k, r)
    BY <1>1
  <2> HIDE DEF v
  <2>. QED BY <2>2, <2>3
<1>5. RingInv'
  BY <1>1, RingUnchanged DEF IInv
<1> HIDE DEF w, v
<1>6. TypeOK'
  <2>1. Len(v) <= MaxWire
    BY <1>1, <1>4
  <2>2. down' \subseteq Used /\ asked' \in BOOLEAN
    BY <1>2
  <2>. QED BY <1>1, <1>4, <1>5, <2>1, <2>2 DEF IInv, TypeOK, RingInv, v, ringVars, history
<1>7. \A x \in AllKeys : HeldAt(v, ext, keystate, Len(v), x) <=> x \in down
  BY <1>2, <1>3, <1>4, HeldSent
<1>8. Len(v) \in Nat /\ Len(w) \in Nat /\ Len(v) \in 1 .. Len(v)
  BY <1>2, <1>4
<1>9. WireInv'
  <2>1. WireOK'
    BY <1>4, <1>8 DEF WireOK, v
  <2>2. ASSUME NEW x \in AllKeys
        PROVE  HeldAt(v, ext, keystate, Len(v) + 1, x) <=> x \in down'
    <3>1. HeldAt(v, ext, keystate, Len(v) + 1, x) <=>
            IF CodeOf(v, ext, Len(v), x) THEN ~v[Len(v)].release ELSE HeldAt(v, ext, keystate, Len(v), x)
      BY <1>4, <1>8, HeldStep
    <3>. QED BY <1>4, <1>7, <3>1
  <2>3. ASSUME NEW i \in DOMAIN v, AsksAt(i)'
        PROVE  asked'
    <3>0. i \in 1 .. Len(v) /\ "DEL" \in AllKeys /\ {"LALT", "RALT", "LCTRL", "RCTRL"} \subseteq AllKeys
      BY <1>4, CodeFacts
    <3>1. /\ CodeOf(v, ext, i, "DEL") /\ ~v[i].release
          /\ HeldAt(v, ext, keystate, i, "LALT") \/ HeldAt(v, ext, keystate, i, "RALT")
          /\ HeldAt(v, ext, keystate, i, "LCTRL") \/ HeldAt(v, ext, keystate, i, "RCTRL")
      BY <1>1, <2>3 DEF AsksAt, HeldBefore, v
    <3>2. CASE i <= Len(w)
      <4>0. i \in 1 .. Len(w) /\ i \in 1 .. Len(w) + 1 /\ DOMAIN w = 1 .. Len(w) /\ Len(w) <= Len(v)
        <5>1. DOMAIN w = 1 .. Len(w)
          BY <1>2
        <5>2. Len(w) <= Len(v)
          BY <1>4, <1>8
        <5>. QED BY <1>8, <3>0, <3>2, <5>1, <5>2
      <4>1. \A x \in AllKeys : /\ CodeOf(v, ext, i, x) <=> CodeOf(w, ext, i, x)
                               /\ HeldAt(v, ext, keystate, i, x) <=> HeldAt(w, ext, keystate, i, x)
        BY <1>2, <1>4, <4>0, HeldExtends
      <4>2. v[i] = w[i]
        BY <1>4, <4>0
      <4>3. AsksAt(i)
        BY <3>0, <3>1, <4>1, <4>2 DEF AsksAt, HeldBefore, w
      <4>. QED BY <1>3, <4>0, <4>3
    <3>3. CASE i \in Len(w) + 1 .. Len(v) - 1
      BY <1>4, <3>1, <3>3 DEF CodeOf
    <3>4. CASE i = Len(v)
      <4>1. k = "DEL" /\ ~r
        BY <1>4, <3>0, <3>1, <3>4
      <4>2. "LALT" \in down \/ "RALT" \in down
        BY <1>7, <3>0, <3>1, <3>4
      <4>3. "LCTRL" \in down \/ "RCTRL" \in down
        BY <1>7, <3>0, <3>1, <3>4
      <4>. QED BY <4>1, <4>2, <4>3 DEF Held
    <3>. QED BY <1>8, <3>0, <3>2, <3>3, <3>4
  <2>. QED BY <1>1, <2>1, <2>2, <2>3 DEF WireInv, HeldBefore, v
<1>10. CountInv'
  <2>1. OnItsWay = Cardinality(Presses(w)) /\ OnItsWay' = Cardinality(Presses(v))
    BY DEF OnItsWay, Presses, w, v
  <2>2. Cardinality(Presses(w)) \in Nat /\ pressed \in Nat /\ MaxKeys \in Nat
    BY <1>2, PressesFinite, RingFacts DEF IInv
  <2>3. pressed + OnItsWay <= MaxKeys /\ pressed' = pressed /\ (~rebooted => num_pressed <= pressed)
    BY <1>1 DEF IInv, DecoderInv, CountInv, ringVars, history
  <2>4. pressed + OnItsWay' <= MaxKeys
    <3>1. CASE r
      BY <1>4, <2>1, <2>2, <2>3, <3>1
    <3>2. CASE ~r
      BY <1>4, <2>1, <2>2, <2>3, <3>2
    <3>. QED BY <3>1, <3>2
  <2>. QED BY <1>1, <2>3, <2>4 DEF CountInv
<1>. QED BY <1>1, <1>5, <1>6, <1>9, <1>10 DEF IInv, DecoderInv
(* Any interrupt ends a halt *)
LEMMA AwakeStep ==
  ASSUME RingInv, UNCHANGED << ring, history >>, pc' = Awake, UNCHANGED << reg, key, waiting >>
  PROVE  RingInv'
<1>1. /\ UNCHANGED << buffer, buf_ridx, buf_widx, pressed, got, dropped, overrun, reg, key, waiting >>
      /\ pc' = (IF pc = "halted" THEN "load_ridx_to_test" ELSE pc)
  BY DEF ring, history, Awake
<1>2. RingTypeOK' /\ RegistersOK'
  BY <1>1 DEF RingInv, RingTypeOK, RegistersOK, Steps, HasKey
<1>3. ~overrun => KeysInPlace' /\ InHand'
  BY <1>1 DEF RingInv, FifoInv, KeysInPlace, InHand, HasKey, TookKey, PuttingBack
<1>. QED BY <1>1, <1>2, <1>3 DEF RingInv, FifoInv

LEMMA HandlerStep ==
  ASSUME IInv, kbintr
  PROVE  IInv'
<1> DEFINE w == wire
           t == wire'
           b == Head(wire)
<1>1. /\ w # << >> /\ ~rebooted /\ t = Tail(w)
      /\ ext' = ExtAfter(b) /\ num_pressed' = CountAfter(b) /\ rebooted' = Reboots(b)
      /\ keystate' = (IF b = Prefix \/ Reboots(b) THEN keystate
                      ELSE [keystate EXCEPT ![KeyOf(b)] = ~b.release])
      /\ IF IsPress(b) /\ ~Reboots(b) THEN AppendToBuffer ELSE UNCHANGED << ring, history >>
      /\ pc' = Awake
      /\ UNCHANGED << reg, key, waiting, down, asked >>
  BY DEF kbintr
<1>2. /\ w \in Seq(Bytes) /\ ext \in BOOLEAN /\ keystate \in [AllKeys -> BOOLEAN] /\ down \subseteq Used
      /\ asked \in BOOLEAN /\ num_pressed \in Nat /\ Len(w) <= MaxWire /\ MaxWire \in Nat
  BY KeyboardAssumption DEF IInv, TypeOK
<1>3. /\ WireOK /\ \A x \in AllKeys : HeldAt(w, ext, keystate, Len(w) + 1, x) <=> x \in down
      /\ \A i \in DOMAIN w : AsksAt(i) => asked
  BY <1>1 DEF IInv, DecoderInv, WireInv, HeldBefore
<1> DEFINE n == Len(w)
<1>4. /\ n \in Nat /\ n >= 1 /\ t \in Seq(Bytes) /\ Len(t) = n - 1 /\ DOMAIN w = 1 .. n /\ DOMAIN t = 1 .. n - 1
      /\ \A i \in 1 .. n - 1 : t[i] = w[i + 1]
      /\ b = w[1] /\ b \in Bytes
  BY <1>1, <1>2, HeadTailProperties
<1>5. /\ Cardinality(Presses(w)) = Cardinality(Presses(t)) + (IF b.release THEN 0 ELSE 1)
      /\ Cardinality(Presses(w)) \in Nat /\ Cardinality(Presses(t)) \in Nat
      /\ OnItsWay = Cardinality(Presses(w)) /\ OnItsWay' = Cardinality(Presses(t))
  <2>1. Cardinality(Presses(w)) = Cardinality(Presses(Tail(w))) + (IF w[1].release THEN 0 ELSE 1)
    BY <1>1, <1>2, PressesTail
  <2>2. Cardinality(Presses(w)) \in Nat /\ Cardinality(Presses(t)) \in Nat
    BY <1>2, <1>4, PressesFinite
  <2>3. OnItsWay = Cardinality(Presses(w)) /\ OnItsWay' = Cardinality(Presses(t))
    BY DEF OnItsWay, Presses
  <2>. QED BY <1>1, <2>1, <2>2, <2>3
<1> HIDE DEF w, t, b, n
<1>6. b.release \in BOOLEAN /\ (b = Prefix => b.release) /\ (b # Prefix => b.code \in Codes)
  BY <1>4, ByteFacts
<1>7. KeyOf(b) = KeyIn(w, ext, 1) /\ (b # Prefix => KeyOf(b) \in AllKeys)
  BY <1>2, <1>4, <1>6, CodeFacts DEF KeyOf, KeyIn, ExtIn
<1>8. pressed + OnItsWay <= MaxKeys /\ num_pressed <= pressed /\ pressed \in Nat /\ MaxKeys \in Nat
  BY <1>1, RingFacts DEF IInv, DecoderInv, CountInv
<1>9. RingInv'
  <2>1. CASE IsPress(b) /\ ~Reboots(b)
    <3>1. ~b.release
      BY <2>1 DEF IsPress
    <3>2. pressed < MaxKeys
      BY <1>5, <1>8, <3>1
    <3>. QED BY <1>1, <2>1, <3>2, AppendStep DEF IInv
  <2>2. CASE ~(IsPress(b) /\ ~Reboots(b))
    BY <1>1, <2>2, AwakeStep DEF IInv
  <2>. QED BY <2>1, <2>2
<1>10. \A k \in AllKeys : HeldAt(w, ext, keystate, 1, k) <=> keystate[k]
  BY DEF HeldAt, NoCode
<1>11. rebooted' => asked'
  <2>1. SUFFICES ASSUME Reboots(b) PROVE asked
    BY <1>1
  <2>2. CodeOf(w, ext, 1, "DEL") /\ ~w[1].release
    BY <1>4, <1>7, <2>1 DEF Reboots, CodeOf
  <2>3. {"LALT", "RALT", "LCTRL", "RCTRL"} \subseteq AllKeys
    BY CodeFacts
  <2>4. AsksAt(1)
    BY <1>10, <2>1, <2>2, <2>3 DEF AsksAt, HeldBefore, Reboots, w
  <2>. QED BY <1>3, <1>4, <2>4
<1>12. pressed' = (IF IsPress(b) /\ ~Reboots(b) THEN pressed + 1 ELSE pressed)
  BY <1>1 DEF AppendToBuffer, history
<1>13. CountInv' /\ num_pressed' \in 0 .. MaxKeys
  <2>1. num_pressed' \in Nat /\ num_pressed' <= num_pressed + (IF b.release THEN 0 ELSE 1)
    <3>1. CASE b.release
      BY <1>1, <1>2, <3>1 DEF CountAfter
    <3>2. CASE ~b.release
      BY <1>1, <1>2, <1>6, <3>2 DEF CountAfter
    <3>. QED BY <3>1, <3>2
  <2>2. CASE IsPress(b) /\ ~Reboots(b)
    <3>1. ~b.release
      BY <2>2 DEF IsPress
    <3>. QED BY <1>2, <1>5, <1>8, <1>12, <2>1, <2>2, <3>1 DEF CountInv
  <2>3. CASE IsPress(b) /\ Reboots(b)
    <3>1. ~b.release /\ rebooted'
      BY <1>1, <2>3 DEF IsPress
    <3>. QED BY <1>2, <1>5, <1>8, <1>12, <2>1, <2>3, <3>1 DEF CountInv
  <2>4. CASE ~IsPress(b)
    <3>1. b.release
      BY <1>6, <2>4 DEF IsPress
    <3>. QED BY <1>2, <1>5, <1>8, <1>12, <2>1, <2>4, <3>1 DEF CountInv
  <2>. QED BY <2>2, <2>3, <2>4
<1>14. keystate' \in [AllKeys -> BOOLEAN] /\ ext' \in BOOLEAN /\ rebooted' \in BOOLEAN
  <2>1. keystate' \in [AllKeys -> BOOLEAN]
    BY <1>1, <1>2, <1>6
  <2>2. ext' \in BOOLEAN
    BY <1>1 DEF ExtAfter
  <2>3. rebooted' \in BOOLEAN
    BY <1>1 DEF Reboots
  <2>. QED BY <2>1, <2>2, <2>3
<1>15. TypeOK'
  <2>1. Len(t) <= MaxWire
    BY <1>2, <1>4 DEF n
  <2>. QED BY <1>1, <1>2, <1>4, <1>9, <1>13, <1>14, <2>1 DEF TypeOK, RingInv, t
<1>16. ASSUME ~rebooted'
       PROVE  WireInv'
  <2>1. keystate' = (IF w[1] = Prefix THEN keystate ELSE [keystate EXCEPT ![KeyIn(w, ext, 1)] = ~w[1].release])
    BY <1>1, <1>4, <1>7, <1>16
  <2>2. ext' <=> w[1] = Prefix
    BY <1>1, <1>4 DEF ExtAfter
  <2>3. ASSUME NEW k \in AllKeys
        PROVE  /\ \A i \in 1 .. n - 1 : CodeOf(t, ext', i, k) <=> CodeOf(w, ext, i + 1, k)
               /\ \A i \in 1 .. n : HeldAt(t, ext', keystate', i, k) <=> HeldAt(w, ext, keystate, i + 1, k)
    <3> DEFINE e2 == ext'
               state2 == keystate'
    <3>1. (e2 <=> (w[1] = Prefix)) /\ w # << >> /\ w \in Seq(Bytes)
      BY <1>1, <1>2, <2>2
    <3>2. state2[k] <=> (IF CodeOf(w, ext, 1, k) THEN ~w[1].release ELSE keystate[k])
      BY <1>2, <1>4, <1>6, <1>7, <2>1 DEF CodeOf
    <3> HIDE DEF e2, state2
    <3>3. Shifted(w, ext, keystate, e2, state2, k)
      BY <3>1, <3>2, HeldShifts
    <3>. QED BY <1>1, <3>3 DEF Shifted, n, e2, state2
  <2>4. WireOK'
    <3>1. n = 1 => ~ext'
      BY <1>1, <1>3, <1>4, <2>2 DEF WireOK, w, n
    <3>2. n # 1 => t[n - 1] # Prefix
      <4>1. n # 1 => n - 1 \in 1 .. n - 1 /\ (n - 1) + 1 = n
        BY <1>4
      <4>. QED BY <1>1, <1>3, <1>4, <4>1 DEF WireOK, w, n
    <3>3. t = << >> => n = 1
      BY <1>4
    <3>4. t # << >> => n # 1
      BY <1>4
    <3>. QED BY <1>4, <3>1, <3>2, <3>3, <3>4 DEF WireOK, t
  <2>5. ASSUME NEW k \in AllKeys
        PROVE  HeldAt(t, ext', keystate', Len(t) + 1, k) <=> k \in down'
    <3>1. Len(t) + 1 = n /\ n \in 1 .. n
      BY <1>4
    <3>2. HeldAt(t, ext', keystate', n, k) <=> HeldAt(w, ext, keystate, n + 1, k)
      BY <2>3, <3>1
    <3>. QED BY <1>1, <1>3, <3>1, <3>2 DEF n
  <2>6. ASSUME NEW i \in DOMAIN t, AsksAt(i)'
        PROVE  asked'
    <3>0. /\ i \in 1 .. n - 1 /\ i \in 1 .. n /\ i + 1 \in 1 .. n /\ t[i] = w[i + 1]
          /\ "DEL" \in AllKeys /\ {"LALT", "RALT", "LCTRL", "RCTRL"} \subseteq AllKeys
      BY <1>4, CodeFacts
    <3>1. /\ CodeOf(t, ext', i, "DEL") /\ ~t[i].release
          /\ HeldAt(t, ext', keystate', i, "LALT") \/ HeldAt(t, ext', keystate', i, "RALT")
          /\ HeldAt(t, ext', keystate', i, "LCTRL") \/ HeldAt(t, ext', keystate', i, "RCTRL")
      BY <2>6 DEF AsksAt, HeldBefore, t
    <3>2. /\ CodeOf(w, ext, i + 1, "DEL") /\ ~w[i + 1].release
          /\ HeldAt(w, ext, keystate, i + 1, "LALT") \/ HeldAt(w, ext, keystate, i + 1, "RALT")
          /\ HeldAt(w, ext, keystate, i + 1, "LCTRL") \/ HeldAt(w, ext, keystate, i + 1, "RCTRL")
      BY <2>3, <3>0, <3>1
    <3>3. AsksAt(i + 1)
      BY <3>2 DEF AsksAt, HeldBefore, w
    <3>. QED BY <1>1, <1>3, <1>4, <3>0, <3>3
  <2>. QED BY <2>4, <2>5, <2>6 DEF WireInv, HeldBefore, t
<1>17. WireInv'
  BY <1>16 DEF WireInv
<1>. QED BY <1>9, <1>11, <1>13, <1>15, <1>17 DEF IInv, DecoderInv

-----------------------------------------------------------------------------
(* Every reachable state: no key is lost or read twice before the ring is   *)
(* full, and once all bytes are read the driver knows which keys are down.  *)
LEMMA Initially ==
  ASSUME Init
  PROVE  IInv
<1>0. BUFSZ \in Nat \ {0} /\ 0 \in 0 .. BUFSZ - 1 /\ MaxKeys \in Nat /\ MaxWire \in Nat /\ 0 % BUFSZ = 0
  BY RingAssumption, KeyboardAssumption, ModSmall
<1>1. Len(got) = 0 /\ got = << >>
  BY DEF Init, RingInit
<1>2. RingTypeOK /\ RegistersOK
  <2>1. got \in Seq(Keys \union {NoKey})
    BY <1>1
  <2>2. buffer \in [0 .. BUFSZ - 1 -> Keys \union {NoKey}]
    BY DEF Init, RingInit
  <2>3. pc = "client" /\ reg = 0 /\ buf_ridx = 0 /\ buf_widx = 0 /\ key = NoKey /\ waiting = FALSE
        /\ pressed = 0 /\ dropped = 0
    BY DEF Init, RingInit
  <2>4. 0 \in -1 .. BUFSZ - 1 /\ 0 \in 0 .. MaxKeys
    BY <1>0
  <2>. QED BY <1>0, <2>1, <2>2, <2>3, <2>4 DEF RingTypeOK, RegistersOK, Steps, HasKey
<1>3. KeysInPlace /\ InHand
  BY <1>0, <1>1 DEF Init, RingInit, KeysInPlace, InHand, HasKey, TookKey, PuttingBack
<1>4. TypeOK
  <2>1. wire \in Seq(Bytes) /\ Len(wire) = 0
    BY DEF Init
  <2>2. keystate \in [AllKeys -> BOOLEAN] /\ num_pressed \in 0 .. MaxKeys
    BY <1>0 DEF Init
  <2>3. down \subseteq Used /\ ext \in BOOLEAN /\ rebooted \in BOOLEAN /\ asked \in BOOLEAN
    BY DEF Init
  <2>. QED BY <1>0, <1>2, <2>1, <2>2, <2>3 DEF TypeOK
<1>5. WireInv
  <2>1. wire = << >> /\ Len(wire) = 0 /\ DOMAIN wire = {}
    BY DEF Init
  <2>2. \A k \in AllKeys : HeldBefore(Len(wire) + 1, k) <=> keystate[k]
    BY <2>1 DEF HeldBefore, HeldAt, NoCode
  <2>. QED BY <2>1, <2>2 DEF Init, WireInv, WireOK
<1>6. CountInv
  <2>1. Presses(<< >>) = {} /\ OnItsWay = Cardinality(Presses(<< >>))
    BY DEF Init, Presses, OnItsWay
  <2>2. OnItsWay = 0
    BY <2>1, FS_EmptySet
  <2>. QED BY <1>0, <2>2 DEF Init, RingInit, CountInv
<1>7. rebooted => asked
  BY DEF Init
<1>. QED BY <1>2, <1>3, <1>4, <1>5, <1>6, <1>7 DEF IInv, RingInv, FifoInv, DecoderInv

LEMMA DecoderUnchanged ==
  ASSUME IInv, RingInv', UNCHANGED << down, wire, decoder, asked, pressed >>
  PROVE  IInv'
<1>1. /\ UNCHANGED << down, wire, ext, num_pressed, keystate, rebooted, asked, pressed >>
  BY DEF decoder
<1>2. TypeOK'
  BY <1>1 DEF IInv, RingInv, TypeOK
<1>3. WireInv'
  BY <1>1 DEF IInv, DecoderInv, WireInv, WireOK, HeldBefore, AsksAt
<1>4. CountInv'
  BY <1>1 DEF IInv, DecoderInv, CountInv, OnItsWay
<1>. QED BY <1>1, <1>2, <1>3, <1>4 DEF IInv, DecoderInv

LEMMA NextStep ==
  ASSUME IInv, Next
  PROVE  IInv'
<1>1. ASSUME NEW k \in Used, Press(k) \/ Repeat(k)
      PROVE  IInv'
  <2>1. GoesDown(k)
    BY <1>1 DEF Press, Repeat
  <2>2. FALSE \in BOOLEAN /\ Send(k, FALSE) /\ pressed + OnItsWay < MaxKeys /\ down' = down \union {k}
        /\ asked' = (asked \/ (k = "DEL" /\ Held({"LALT", "RALT"}) /\ Held({"LCTRL", "RCTRL"})))
    BY <2>1 DEF GoesDown
  <2>. QED BY <2>2, SendStep
<1>2. ASSUME NEW k \in Used, Release(k)
      PROVE  IInv'
  <2>1. TRUE \in BOOLEAN /\ Send(k, TRUE) /\ down' = down \ {k} /\ asked' = asked /\ asked \in BOOLEAN
    BY <1>2 DEF Release, IInv, TypeOK
  <2>. QED BY <2>1, SendStep
<1>3. ASSUME kbintr
      PROVE  IInv'
  BY <1>3, HandlerStep
<1>4. ASSUME CallGetkey \/ CallWait \/ Main \/ timer_intr, UNCHANGED << down, wire, decoder, asked >>
      PROVE  IInv'
  <2>1. RingInv'
    BY <1>4, RingStep DEF IInv
  <2>2. pressed' = pressed
    BY <1>4 DEF CallGetkey, CallWait, Main, timer_intr, Getkey, Putback, Load, TestEmpty, ReadKey, Advance,
                Halt, GoBack, Wrap, TestFull, Skip, Put, history
  <2>. QED BY <1>4, <2>1, <2>2, DecoderUnchanged
<1>. QED BY <1>1, <1>2, <1>3, <1>4 DEF Next, Typing, Running

(* The ring, the main thread's registers and the decoder of keyb.c satisfy   *)
(* the inductive invariant at every load, store and interrupt.              *)
THEOREM Inductive == Spec => []IInv
<1>1. Init => IInv
  BY Initially
<1>2. IInv /\ [Next]_vars => IInv'
  <2>1. ASSUME IInv, UNCHANGED vars
        PROVE  IInv'
    <3>1. RingInv'
      BY <2>1, RingUnchanged DEF IInv, vars
    <3>. QED BY <2>1, <3>1, DecoderUnchanged DEF vars, ringVars, history
  <2>. QED BY <2>1, NextStep
<1>. QED BY <1>1, <1>2, PTL DEF Spec

(* Until more keys are unread than the ring has room for, every key pressed *)
(* is read once and in order, or is in the ring: kbintr fills it between    *)
(* any two loads and stores of kb_getkey, kb_wait and kb_putback.           *)
THEOREM KeysComeInOrder == Spec => []FifoUntilOverrun
<1>1. IInv => FifoUntilOverrun
  BY RingImpliesFifo DEF IInv
<1>. QED BY <1>1, Inductive, PTL

(* Once kbintr has read all that the keyboard sent, kb_isdown of a key is   *)
(* whether it is held down; and it reboots only when Del went down while    *)
(* Ctrl and Alt were held.                                                  *)
THEOREM KeysAreKnown == Spec => []StateIsDown
<1>1. IInv => StateIsDown
  <2> SUFFICES ASSUME IInv
               PROVE  Settled => \A k \in Used : keystate[k] = (k \in down)
    BY DEF StateIsDown, IInv, DecoderInv
  <2>1. SUFFICES ASSUME wire = << >>, ~rebooted, NEW k \in Used
                 PROVE  keystate[k] = (k \in down)
    BY DEF Settled
  <2>2. k \in AllKeys /\ Len(wire) = 0 /\ keystate[k] \in BOOLEAN
    BY <2>1, KeyboardAssumption DEF IInv, TypeOK
  <2>3. HeldBefore(1, k) <=> k \in down
    BY <2>1, <2>2 DEF IInv, DecoderInv, WireInv
  <2>4. HeldBefore(1, k) <=> keystate[k]
    BY DEF HeldBefore, HeldAt, NoCode
  <2>. QED BY <2>2, <2>3, <2>4
<1>. QED BY <1>1, Inductive, PTL
=============================================================================
