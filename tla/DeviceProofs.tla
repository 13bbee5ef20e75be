---------------------------- MODULE DeviceProofs ----------------------------
(***************************************************************************)
(* Proofs about two parts of MCParts that are devices: the PCI bus (Pci),   *)
(* and sound (Sound), where the main thread and the interrupt handler each  *)
(* write bytes that the card reads one at a time.  They hold for every      *)
(* board, card and sequence of chunks that the theorem's hypotheses admit.  *)
(* Their inductive invariants are PciInv and SoundInv.                      *)
(***************************************************************************)
EXTENDS PartsProofs

(* The bus.  What has been printed is what is to be found before the place  *)
(* that is read next.                                                       *)
ReadBefore(f, a) ==
  \/ f.bus < a.bus
  \/ f.bus = a.bus /\ f.dev < a.dev
  \/ f.bus = a.bus /\ f.dev = a.dev /\ f.func < a.func
(* A place of the bus: the next function to read *)
Places == [bus : Nat, dev : Nat, func : 0 .. 7]
(* The device at a place says that it has several functions *)
HeadAt(a) == \E g \in board : g.bus = a.bus /\ g.dev = a.dev /\ g.func = 0 /\ g.multi
(* While the bus is read, what has been printed is what lies before the next place *)
PciInv ==
  /\ board \in Boards /\ at \in Places /\ at.bus <= Buses /\ at.dev < Slots
  /\ found \in Seq([at : Places, is : board, named : {TRUE}])
  /\ pci = "off" => found = << >> /\ at = [bus |-> 0, dev |-> 0, func |-> 0]
  /\ pci = "reading" => Printed = { f \in ToFind : ReadBefore(f, at) }
  /\ at.func > 0 => isMulti = TRUE /\ HeadAt(at)
  /\ pci = "done" /\ bios /\ mechanisms # {} => Printed = ToFind

(* What the functions of a board have to be for all to be found: numbered   *)
(* up to 3 (two bits of the number are sent), of classes whose names are    *)
(* there                                                                    *)
AllReached == \A functions \in Boards : \A f \in functions : f.func \in 0 .. 3 /\ NameThere(f)

(* What PciAssumption and AllReached say of the board that is there *)
LEMMA BoardFacts ==
  ASSUME AllReached, PciInv
  PROVE  /\ \A f \in board : /\ f.bus \in Nat /\ f.bus < Buses /\ f.dev \in Nat /\ f.dev < Slots
                             /\ f.func \in 0 .. 3 /\ NameThere(f)
         /\ \A f, g \in board : f.bus = g.bus /\ f.dev = g.dev /\ f.func = g.func => f = g
         /\ Buses \in Nat /\ Slots \in Nat /\ Buses > 0 /\ Slots > 0
<1>1. board \in Boards /\ Buses \in Nat /\ Slots \in Nat /\ Buses > 0 /\ Slots > 0
  BY PciAssumption DEF PciInv
<1>2. \A f \in board : f.bus \in 0 .. Buses - 1 /\ f.dev \in 0 .. Slots - 1 /\ f.func \in 0 .. 3 /\ NameThere(f)
  BY <1>1, PciAssumption DEF AllReached
<1>3. \A f \in board : f.bus \in Nat /\ f.bus < Buses /\ f.dev \in Nat /\ f.dev < Slots
  BY <1>1, <1>2
<1>4. \A f, g \in board : f.bus = g.bus /\ f.dev = g.dev /\ f.func = g.func => f = g
  BY <1>1, PciAssumption
<1> QED
  BY <1>1, <1>2, <1>3, <1>4

(* What one function read adds to what has been printed *)
LEMMA ReadFunction ==
  ASSUME AllReached, PciInv, enum_func
  PROVE  /\ at' \in Places /\ at'.bus <= Buses /\ at'.dev < Slots
         /\ at'.func > 0 => isMulti' = TRUE /\ HeadAt(at')
         /\ \A f \in ToFind : ReadBefore(f, at') <=> (ReadBefore(f, at) \/ f \in Answers(at))
         /\ Answers(at) \subseteq ToFind
<1> DEFINE b == at.bus
           dv == at.dev
           n == at.func
           answers == Answers(at) # {}
           h == CHOOSE g \in Answers(at) : TRUE
           multi == IF n = 0 THEN answers /\ h.multi ELSE isMulti
           stays == (n > 0 \/ answers) /\ multi /\ n < 7
<1>1. /\ \A f \in board : /\ f.bus \in Nat /\ f.bus < Buses /\ f.dev \in Nat /\ f.dev < Slots
                          /\ f.func \in 0 .. 3
      /\ \A f, g \in board : f.bus = g.bus /\ f.dev = g.dev /\ f.func = g.func => f = g
      /\ Buses \in Nat /\ Slots \in Nat /\ Buses > 0 /\ Slots > 0
  BY BoardFacts
<1>2. at = [bus |-> b, dev |-> dv, func |-> n] /\ b \in Nat /\ dv \in Nat /\ n \in 0 .. 7 /\ b < Buses /\ dv < Slots
  BY <1>1 DEF PciInv, Places, enum_func
<1>3. n % 4 \in 0 .. 3 /\ (n <= 3 => n % 4 = n) /\ (n > 3 => n % 4 < n)
  <2> HIDE DEF n
  <2>1. n \in {0, 1, 2, 3, 4, 5, 6, 7}
    BY <1>2
  <2> QED
    BY <2>1
<1>4. Answers(at) = { f \in board : f.bus = b /\ f.dev = dv /\ f.func = n % 4 }
  BY DEF Answers, ADDR_FUNC
<1>5. answers => h \in Answers(at)
  OBVIOUS
<1>6. /\ isMulti' = multi
      /\ at' = IF stays THEN [at EXCEPT !.func = n + 1] ELSE NextDev(at)
  BY DEF enum_func, Next_
<1>7. n > 0 => isMulti = TRUE /\ HeadAt(at)
  BY DEF PciInv
<1>8. HeadAt(at) <=> \E g \in board : g.bus = b /\ g.dev = dv /\ g.func = 0 /\ g.multi
  BY DEF HeadAt
<1>9. Answers(at) \subseteq ToFind
  <2> SUFFICES ASSUME NEW f \in Answers(at) PROVE f \in ToFind
    OBVIOUS
  <2>1. f \in board /\ f.bus = b /\ f.dev = dv /\ f.func = n % 4
    BY <1>4
  <2> HIDE DEF b, dv, n
  <2>2. CASE n % 4 = 0
    BY <2>1, <2>2 DEF ToFind
  <2>3. CASE n % 4 # 0
    <3>1. n > 0
      BY <1>2, <1>3, <2>3
    <3>2. PICK g \in board : g.bus = b /\ g.dev = dv /\ g.func = 0 /\ g.multi
      BY <1>7, <1>8, <3>1
    <3> QED
      BY <2>1, <3>2 DEF ToFind
  <2> QED
    BY <2>2, <2>3
<1>10. stays => multi = TRUE /\ \E g \in board : g.bus = b /\ g.dev = dv /\ g.func = 0 /\ g.multi
  <2> SUFFICES ASSUME stays PROVE multi = TRUE /\ \E g \in board : g.bus = b /\ g.dev = dv /\ g.func = 0 /\ g.multi
    OBVIOUS
  <2>1. CASE n > 0
    BY <1>7, <1>8, <2>1
  <2>2. CASE ~(n > 0)
    <3>1. n = 0
      BY <1>2, <2>2
    <3>2. answers /\ h.multi /\ h \in board /\ h.bus = b /\ h.dev = dv /\ h.func = 0
      BY <1>3, <1>4, <1>5, <3>1
    <3>3. multi = (answers /\ h.multi)
      BY <3>1
    <3>4. multi = TRUE
      BY <3>2, <3>3
    <3> QED
      BY <3>2, <3>4
  <2> QED
    BY <2>1, <2>2
(* without stays, all of this device's functions are found *)
<1>11. ASSUME ~stays, NEW f \in ToFind, f.bus = b, f.dev = dv
       PROVE  f.func < n \/ f \in Answers(at)
  <2>1. f \in board /\ f.func \in 0 .. 3
    BY <1>1 DEF ToFind
  <2>2. PICK g \in board : g.bus = b /\ g.dev = dv /\ g.func = 0 /\ (f.func > 0 => g.multi)
    BY <1>11 DEF ToFind
  <2>3. CASE n = 0
    <3>1. g \in Answers(at)
      BY <1>3, <1>4, <2>2, <2>3
    <3>2. h = g
      BY <1>1, <1>3, <1>4, <1>5, <2>2, <2>3, <3>1
    <3>3. ~h.multi
      <4>1. answers
        BY <3>1
      <4>2. multi = (answers /\ h.multi)
        BY <2>3
      <4> QED
        BY <1>11, <2>3, <4>1, <4>2
    <3>4. f.func = 0
      <4>1. ~g.multi
        BY <3>2, <3>3
      <4>2. ~(f.func > 0)
        BY <2>2, <4>1
      <4> QED
        BY <2>1, <4>2
    <3> QED
      BY <1>3, <1>4, <1>11, <2>1, <2>3, <3>4
  <2>4. CASE n # 0
    <3>1. n > 0 /\ multi = TRUE
      BY <1>2, <1>7, <2>4
    <3>2. n = 7
      BY <1>2, <1>11, <3>1
    <3> QED
      BY <2>1, <3>2
  <2> QED
    BY <2>3, <2>4
<1> HIDE DEF b, dv, n, answers, h, multi, stays
<1>12. CASE stays
  <2>1. at' = [bus |-> b, dev |-> dv, func |-> n + 1] /\ n + 1 \in 0 .. 7
    BY <1>2, <1>6, <1>12 DEF stays
  <2>2. at' \in Places /\ at'.bus <= Buses /\ at'.dev < Slots
    BY <1>1, <1>2, <2>1 DEF Places
  <2>3. isMulti' = TRUE /\ HeadAt(at')
    BY <1>6, <1>10, <1>12, <2>1 DEF HeadAt
  <2>4. ASSUME NEW f \in ToFind PROVE ReadBefore(f, at') <=> (ReadBefore(f, at) \/ f \in Answers(at))
    <3>1. f \in board /\ f.bus \in Nat /\ f.dev \in Nat /\ f.func \in 0 .. 3
      BY <1>1 DEF ToFind
    <3>2. ReadBefore(f, at) <=> (f.bus < b \/ (f.bus = b /\ f.dev < dv) \/ (f.bus = b /\ f.dev = dv /\ f.func < n))
      BY DEF ReadBefore, b, dv, n
    <3>3. ReadBefore(f, at') <=> (f.bus < b \/ (f.bus = b /\ f.dev < dv) \/ (f.bus = b /\ f.dev = dv /\ f.func < n + 1))
      BY <2>1 DEF ReadBefore
    <3>4. f \in Answers(at) <=> (f.bus = b /\ f.dev = dv /\ f.func = n % 4)
      BY <1>4, <3>1
    <3>5. (f.func < n + 1) <=> (f.func < n \/ f.func = n)
      BY <1>2, <3>1
    <3>6. (f.func < n \/ f.func = n) <=> (f.func < n \/ f.func = n % 4)
      BY <1>2, <1>3, <3>1
    <3> QED
      BY <3>2, <3>3, <3>4, <3>5, <3>6
  <2> QED
    BY <1>9, <2>2, <2>3, <2>4
<1>13. CASE ~stays
  <2>1. at' = IF dv + 1 < Slots THEN [bus |-> b, dev |-> dv + 1, func |-> 0]
              ELSE [bus |-> b + 1, dev |-> 0, func |-> 0]
    BY <1>6, <1>13 DEF NextDev, b, dv
  <2>2. at' \in Places /\ at'.bus <= Buses /\ at'.dev < Slots /\ at'.func = 0
    BY <1>1, <1>2, <2>1 DEF Places
  <2>3. ASSUME NEW f \in ToFind PROVE ReadBefore(f, at') <=> (ReadBefore(f, at) \/ f \in Answers(at))
    <3>1. f \in board /\ f.bus \in Nat /\ f.dev \in Nat /\ f.func \in 0 .. 3 /\ f.dev < Slots
      BY <1>1 DEF ToFind
    <3>2. ReadBefore(f, at) <=> (f.bus < b \/ (f.bus = b /\ f.dev < dv) \/ (f.bus = b /\ f.dev = dv /\ f.func < n))
      BY DEF ReadBefore, b, dv, n
    <3>3. ReadBefore(f, at') <=> (f.bus < b \/ (f.bus = b /\ f.dev < dv) \/ (f.bus = b /\ f.dev = dv))
      <4>1. CASE dv + 1 < Slots
        <5>1. ReadBefore(f, at') <=> (f.bus < b \/ (f.bus = b /\ f.dev < dv + 1) \/ (f.bus = b /\ f.dev = dv + 1 /\ f.func < 0))
          BY <2>1, <4>1 DEF ReadBefore
        <5> QED
          BY <1>2, <3>1, <5>1
      <4>2. CASE ~(dv + 1 < Slots)
        <5>1. ReadBefore(f, at') <=> (f.bus < b + 1 \/ (f.bus = b + 1 /\ f.dev < 0) \/ (f.bus = b + 1 /\ f.dev = 0 /\ f.func < 0))
          BY <2>1, <4>2 DEF ReadBefore
        <5>2. f.dev < dv \/ f.dev = dv
          BY <1>1, <1>2, <3>1, <4>2
        <5> QED
          BY <1>2, <3>1, <5>1, <5>2
      <4> QED
        BY <4>1, <4>2
    <3>4. f \in Answers(at) => (f.bus = b /\ f.dev = dv)
      BY <1>4, <3>1
    <3>5. f.bus = b /\ f.dev = dv => f.func < n \/ f \in Answers(at)
      BY <1>11, <1>13
    <3> QED
      BY <3>2, <3>3, <3>4, <3>5
  <2> QED
    BY <1>9, <2>2, <2>3
<1> QED
  BY <1>12, <1>13

(* Each step of the enumeration keeps PciInv *)
LEMMA PciStep ==
  ASSUME AllReached, PciInv, StepOf(pciVars, PciNext)
  PROVE  PciInv'
<1>1. CASE init_pci
  <2>1. /\ board' = board /\ at' = at /\ isMulti' = isMulti /\ found' = found /\ pci = "off"
        /\ bios' = bios /\ mechanisms' = mechanisms
        /\ pci' = "done" => ~(bios /\ mechanisms # {})
    BY <1>1 DEF init_pci
  <2>2. pci' # "off"
    BY <1>1 DEF init_pci
  <2>3. found = << >> /\ at = [bus |-> 0, dev |-> 0, func |-> 0]
    BY <2>1 DEF PciInv
  <2>4. Printed' = {}
    BY <2>1, <2>3 DEF Printed
  <2>5. \A f \in ToFind' : ~ReadBefore(f, at')
    <3> SUFFICES ASSUME NEW f \in ToFind' PROVE ~ReadBefore(f, at')
      OBVIOUS
    <3>1. f \in board
      BY <2>1 DEF ToFind
    <3>2. f.bus \in Nat /\ f.dev \in Nat /\ f.func \in 0 .. 3
      BY <3>1, BoardFacts
    <3>3. at' = [bus |-> 0, dev |-> 0, func |-> 0]
      BY <2>1, <2>3
    <3> QED
      BY <3>2, <3>3 DEF ReadBefore
  <2>6. pci' = "reading" => Printed' = { f \in ToFind' : ReadBefore(f, at') }
    BY <2>4, <2>5
  <2> QED
    BY <2>1, <2>2, <2>3, <2>6 DEF PciInv, HeadAt
<1>2. CASE enum_func
  <2> DEFINE answers == Answers(at) # {}
             f == CHOOSE g \in Answers(at) : TRUE
             Lines == [at : Places, is : board, named : {TRUE}]
  <2>1. /\ pci = "reading" /\ pci' = pci /\ board' = board /\ bios' = bios /\ mechanisms' = mechanisms
        /\ found' = IF answers THEN Append(found, Line(at, f)) ELSE found
    BY <1>2 DEF enum_func
  <2>2. found \in Seq(Lines) /\ Printed = { g \in ToFind : ReadBefore(g, at) }
    BY <2>1 DEF PciInv
  <2>3. answers => f \in Answers(at) /\ f \in board /\ Answers(at) = {f}
    <3> SUFFICES ASSUME answers PROVE f \in Answers(at) /\ f \in board /\ Answers(at) = {f}
      OBVIOUS
    <3>1. f \in Answers(at) /\ f \in board
      BY DEF Answers
    <3>2. \A g \in Answers(at) : g = f
      BY <3>1, BoardFacts DEF Answers
    <3> QED
      BY <3>1, <3>2
  <2>4. answers => Line(at, f) \in Lines
    BY <2>3, BoardFacts DEF PciInv, Line
  <2>5. ToFind' = ToFind
    BY <2>1 DEF ToFind
  <2>6. found' \in Seq(Lines) /\ Printed' = Printed \cup Answers(at)
    <3>1. CASE answers
      <4> DEFINE x == Line(at, f)
                 s == found
      <4>1. found' = Append(s, x) /\ x \in Lines /\ s \in Seq(Lines) /\ x.is = f
        BY <2>1, <2>2, <2>4, <3>1 DEF Line
      <4> HIDE DEF x, s, Lines, f
      <4>2. /\ found' \in Seq(Lines) /\ Len(found') = Len(s) + 1 /\ found'[Len(s) + 1] = x
            /\ \A i \in 1 .. Len(s) : found'[i] = s[i]
        BY <4>1, AppendProperties
      <4>3. DOMAIN found' = 1 .. Len(s) + 1 /\ DOMAIN s = 1 .. Len(s) /\ Len(s) \in Nat
        BY <4>1, <4>2
      <4>4. { found'[k].is : k \in 1 .. Len(s) + 1 } = { s[k].is : k \in 1 .. Len(s) } \cup {f}
        <5>1. \A k \in 1 .. Len(s) + 1 : k = Len(s) + 1 \/ k \in 1 .. Len(s)
          BY <4>3
        <5>2. Len(s) + 1 \in 1 .. Len(s) + 1 /\ \A k \in 1 .. Len(s) : k \in 1 .. Len(s) + 1
          BY <4>3
        <5> QED
          BY <4>1, <4>2, <5>1, <5>2
      <4> QED
        BY <2>3, <3>1, <4>2, <4>3, <4>4 DEF Printed, s, f
    <3>2. CASE ~answers
      BY <2>1, <2>2, <3>2 DEF Printed
    <3> QED
      BY <3>1, <3>2
  <2>7. /\ at' \in Places /\ at'.bus <= Buses /\ at'.dev < Slots
        /\ at'.func > 0 => isMulti' = TRUE /\ HeadAt(at')
        /\ \A g \in ToFind : ReadBefore(g, at') <=> (ReadBefore(g, at) \/ g \in Answers(at))
        /\ Answers(at) \subseteq ToFind
    BY <1>2, ReadFunction
  <2> HIDE DEF answers, f
  <2>8. Printed' = { g \in ToFind' : ReadBefore(g, at') }
    BY <2>2, <2>5, <2>6, <2>7
  <2>9. at'.func > 0 => (isMulti = TRUE /\ HeadAt(at))'
    BY <2>1, <2>7 DEF HeadAt
  <2>10. board' \in Boards
    BY <2>1 DEF PciInv
  <2> QED
    BY <2>1, <2>6, <2>7, <2>8, <2>9, <2>10 DEF PciInv
<1>3. CASE PciEnd
  <2>1. /\ board' = board /\ at' = at /\ isMulti' = isMulti /\ found' = found
        /\ bios' = bios /\ mechanisms' = mechanisms /\ pci' = "done" /\ pci = "reading" /\ at.bus = Buses
    BY <1>3 DEF PciEnd
  <2>2. \A f \in ToFind : ReadBefore(f, at)
    BY <2>1, BoardFacts DEF ToFind, ReadBefore
  <2>3. Printed = ToFind
    BY <2>1, <2>2 DEF PciInv
  <2>4. Printed' = Printed /\ ToFind' = ToFind
    BY <2>1 DEF Printed, ToFind
  <2> QED
    BY <2>1, <2>3, <2>4 DEF PciInv, HeadAt
<1>4. CASE UNCHANGED pciVars
  <2>1. Printed' = Printed /\ ToFind' = ToFind
    BY <1>4 DEF Printed, ToFind, pciVars
  <2> QED
    BY <1>4, <2>1 DEF PciInv, HeadAt, pciVars
<1> QED
  BY <1>1, <1>2, <1>3, <1>4 DEF StepOf, PciNext

(* Nothing has been read at first *)
LEMMA PciStarts == Init => PciInv
<1> SUFFICES ASSUME Init PROVE PciInv
  OBVIOUS
<1>1. PciInit(Given("pci", Boards, Some.boards), Given("pci", BOOLEAN, FALSE), Given("pci", SUBSET {1, 2}, {}))
  BY DEF Init
<1>2. Some.boards = One(Boards) /\ One(Boards) \in Boards
  BY PciAssumption DEF Some, One
<1>3. Given("pci", Boards, Some.boards) \subseteq Boards
  BY <1>2 DEF Given
<1>4. board \in Boards /\ pci = "off" /\ at = [bus |-> 0, dev |-> 0, func |-> 0] /\ found = << >>
  BY <1>1, <1>3 DEF PciInit
<1> QED
  BY <1>4, PciAssumption DEF PciInv, Places

(* PciInv implies the property *)
LEMMA AllFound == PciInv => PciRight
<1> SUFFICES ASSUME PciInv PROVE PciRight
  OBVIOUS
<1> DEFINE Lines == [at : Places, is : board, named : {TRUE}]
<1>1. \A k \in DOMAIN found : found[k] \in Lines
  <2>1. found \in Seq(Lines)
    BY DEF PciInv
  <2> HIDE DEF Lines
  <2> QED
    BY <2>1
<1>2. \A k \in DOMAIN found : found[k].is \in board /\ found[k].named
  BY <1>1
<1>3. Printed \subseteq board /\ \A k \in DOMAIN found : found[k].named
  BY <1>2 DEF Printed
<1> QED
  BY <1>3 DEF PciInv, PciRight

(* Sound.  A queue is what is left of the bytes one call writes. *)
Codes == {"START_DMA8", "ENABLE_OUTPUT", "OUT_RATE", "RATE", "PAUSE_DMA8", "CONT_DMA8", "END_DMA8", "DISABLE_OUTPUT"}
PortWrites == [to : {"dsp", "mask", "addr", "count", "ack"}, byte : Codes \cup Nat \cup BOOLEAN]
Lengths == 1 .. CountLimit
Left(all, k) == SubSeq(all, k, Len(all))
Byte_(b) == [to |-> "dsp", byte |-> b]

(* A length fits the 16 bits of a count once 1 is taken from it *)
LEMMA LengthFacts ==
  ASSUME NEW n \in Lengths
  PROVE  n \in Nat /\ n >= 1 /\ n <= 65536 /\ n - 1 \in Nat /\ n - 1 < 65536
<1>1. CountLimit = 65536
  BY DEF CountLimit
<1>2. CountLimit \in Nat
  BY <1>1
<1>3. n \in 1 .. CountLimit
  BY DEF Lengths
<1>4. n \in Nat /\ n >= 1 /\ n <= CountLimit
  BY <1>2, <1>3
<1> QED
  BY <1>1, <1>4

(* A queue whose first is x, and what is left of one *)
LEMMA FirstOf ==
  ASSUME NEW S, NEW x \in S, NEW q \in Seq(S)
  PROVE  LET t == << x >> \o q IN t # << >> /\ Head(t) = x /\ Tail(t) = q
<1> DEFINE one == << x >>
           t == one \o q
<1>1. one \in Seq(S) /\ Len(one) = 1 /\ one[1] = x
  OBVIOUS
<1> HIDE DEF one
<1>2. t \in Seq(S) /\ Len(t) = Len(one) + Len(q)
      /\ \A i \in 1 .. Len(one) + Len(q) : t[i] = IF i <= Len(one) THEN one[i] ELSE q[i - Len(one)]
  BY <1>1, ConcatProperties
<1>3. Len(q) \in Nat
  OBVIOUS
<1> HIDE DEF t
<1>4. Len(t) = Len(q) + 1 /\ t[1] = x /\ \A i \in 1 .. Len(q) : t[i + 1] = q[i]
  BY <1>1, <1>2, <1>3
<1>5. t # << >>
  BY <1>2, <1>3, <1>4
<1>6. Head(t) = x
  BY <1>2, <1>4, <1>5
<1>7. Tail(t) \in Seq(S) /\ Len(Tail(t)) = Len(t) - 1 /\ \A i \in 1 .. Len(Tail(t)) : Tail(t)[i] = t[i + 1]
  BY <1>2, <1>5, HeadTailProperties
<1> DEFINE u == Tail(t)
<1> HIDE DEF u
<1>8. u \in Seq(S) /\ Len(u) = Len(q) /\ \A i \in 1 .. Len(u) : u[i] = q[i]
  BY <1>3, <1>4, <1>7 DEF u
<1>9. u = q
  BY <1>8, SeqEqual
<1> QED
  BY <1>5, <1>6, <1>9 DEF t, one, u

(* The first of what is left from the k-th on is the k-th *)
LEMMA LeftFacts ==
  ASSUME NEW S, NEW all \in Seq(S), NEW more \in Seq(S), NEW k \in 1 .. Len(all)
  PROVE  LET q == Left(all, k) \o more IN
         q # << >> /\ Head(q) = all[k] /\ Tail(q) = Left(all, k + 1) \o more
<1> DEFINE full == Len(all)
           j == k + 1
           x == all[k]
           one == << x >>
           after1 == SubSeq(all, j, full)
<1>1. full \in Nat /\ k \in Nat /\ k >= 1 /\ k <= full /\ x \in S
  OBVIOUS
<1>2. full \in k .. Len(all)
  BY <1>1
<1>3. SubSeq(all, k, full) = one \o after1
  BY <1>2, SubSeqRecursiveFirst
<1>4. \A i \in j .. full : all[i] \in S
  BY <1>1
<1>5. j \in Int /\ full \in Int
  BY <1>1
<1> HIDE DEF j, full
<1>6. after1 \in Seq(S)
  BY <1>4, <1>5, SubSeqProperties
<1> HIDE DEF x, after1
<1>7. one \in Seq(S)
  BY <1>1
<1> HIDE DEF one
<1>8. (one \o after1) \o more = one \o (after1 \o more) /\ after1 \o more \in Seq(S)
  <2> DEFINE T == Seq(S)
  <2>1. one \in T /\ after1 \in T /\ more \in T
    BY <1>6, <1>7
  <2>2. Associates(T)
    BY Reassociate, Zenon
  <2> HIDE DEF T
  <2>3. (one \o after1) \o more = one \o (after1 \o more)
    BY <2>1, <2>2, Zenon DEF Associates
  <2>4. after1 \o more \in Seq(S)
    BY <1>6, ConcatProperties
  <2> QED
    BY <2>3, <2>4
<1> DEFINE tail1 == after1 \o more
<1> HIDE DEF tail1
<1>9. << x >> \o tail1 # << >> /\ Head(<< x >> \o tail1) = x /\ Tail(<< x >> \o tail1) = tail1
  BY <1>1, <1>8, FirstOf DEF tail1
<1>10. Left(all, k) = one \o after1 /\ Left(all, k + 1) = after1
  BY <1>3 DEF Left, j, full, after1
<1> QED
  BY <1>8, <1>9, <1>10 DEF tail1, one, x

(* Sequences of one call put together *)
AreBytes(q, s) == q \in Seq(PortWrites) /\ Len(q) = Len(s) /\ \A i \in 1 .. Len(s) : q[i] = Byte_(s[i])
(* Dsp makes a write of each byte *)
LEMMA DspIs ==
  ASSUME NEW s \in Seq(Codes \cup Nat)
  PROVE  AreBytes(Dsp(s), s)
<1>1. Dsp(s) = [k \in 1 .. Len(s) |-> Byte_(s[k])] /\ Len(s) \in Nat
  BY DEF Dsp, Byte_
<1>2. \A k \in 1 .. Len(s) : Byte_(s[k]) \in PortWrites
  BY DEF Byte_, PortWrites
<1>3. Dsp(s) \in [1 .. Len(s) -> PortWrites]
  BY <1>1, <1>2
<1> QED
  BY <1>1, <1>3 DEF AreBytes

(* A sequence of these four, and one put together from two halves *)
AreFour(q, a, b, u, v) == Len(q) = 4 /\ q[1] = a /\ q[2] = b /\ q[3] = u /\ q[4] = v
Words4(a, b, u, v) == << a, b >> \o << u, v >>
(* Two pairs make a sequence of four *)
LEMMA FourBytes ==
  ASSUME NEW S, NEW a \in S, NEW b \in S, NEW u \in S, NEW v \in S
  PROVE  Words4(a, b, u, v) \in Seq(S) /\ AreFour(Words4(a, b, u, v), a, b, u, v)
<1> DEFINE s == << a, b >>
           t == << u, v >>
<1>1. s \in Seq(S) /\ t \in Seq(S) /\ Len(s) = 2 /\ Len(t) = 2 /\ s[1] = a /\ s[2] = b /\ t[1] = u /\ t[2] = v
  OBVIOUS
<1>2. Words4(a, b, u, v) = s \o t
  BY DEF Words4
<1> HIDE DEF s, t
<1>3. s \o t \in Seq(S) /\ Len(s \o t) = Len(s) + Len(t)
      /\ \A i \in 1 .. Len(s) + Len(t) : (s \o t)[i] = IF i <= Len(s) THEN s[i] ELSE t[i - Len(s)]
  BY <1>1, ConcatProperties
<1>4. (s \o t)[1] = s[1] /\ (s \o t)[2] = s[2] /\ (s \o t)[3] = t[1] /\ (s \o t)[4] = t[2]
  BY <1>1, <1>3
<1> QED
  BY <1>1, <1>2, <1>3, <1>4 DEF AreFour

(* Two sequences of four put together *)
AreJoined(q, front, back) ==
  /\ Len(q) = 8
  /\ q[1] = front[1] /\ q[2] = front[2] /\ q[3] = front[3] /\ q[4] = front[4]
  /\ q[5] = back[1] /\ q[6] = back[2] /\ q[7] = back[3] /\ q[8] = back[4]
(* They make one of eight *)
LEMMA JoinFour ==
  ASSUME NEW S, NEW front \in Seq(S), NEW back \in Seq(S), Len(front) = 4, Len(back) = 4
  PROVE  front \o back \in Seq(S) /\ AreJoined(front \o back, front, back)
<1> DEFINE q == front \o back
<1>1. q \in Seq(S) /\ Len(q) = Len(front) + Len(back)
       /\ \A i \in 1 .. Len(front) + Len(back) : q[i] = IF i <= Len(front) THEN front[i] ELSE back[i - Len(front)]
  BY ConcatProperties
<1> HIDE DEF q
<1>2. Len(q) = 8 /\ \A i \in 1 .. 8 : q[i] = IF i <= 4 THEN front[i] ELSE back[i - 4]
  BY <1>1
<1>3. q[1] = front[1] /\ q[2] = front[2] /\ q[3] = front[3] /\ q[4] = front[4] /\ q[5] = back[1] /\ q[6] = back[2] /\ q[7] = back[3] /\ q[8] = back[4]
  BY <1>2
<1> QED
  BY <1>1, <1>2, <1>3 DEF q, AreJoined

(* The two halves of a transfer: the controller's registers, and the DSP's bytes *)
AreRegisters(q, n) ==
  AreFour(q, [to |-> "mask", byte |-> TRUE], [to |-> "addr", byte |-> BUFFER],
          [to |-> "count", byte |-> n - 1], [to |-> "mask", byte |-> FALSE])
(* The writes of dma_io: masked, address, count, unmasked *)
LEMMA DmaIs ==
  ASSUME NEW n \in Lengths
  PROVE  dma_io(BUFFER, n) \in Seq(PortWrites) /\ AreRegisters(dma_io(BUFFER, n), n)
<1>1. (BUFFER % 65536) + 65536 * ((BUFFER \div 65536) % 256) = BUFFER /\ BUFFER \in Nat
  BY DEF BUFFER
<1>0. n \in Nat /\ 1 <= n /\ n <= 65536
  BY LengthFacts
<1>2. (n - 1) % 65536 = n - 1 /\ n - 1 \in Nat
  <2> DEFINE m == n - 1
  <2>1. m \in Nat /\ m < 65536
    BY <1>0
  <2> HIDE DEF m
  <2>2. m % 65536 = m
    BY <2>1
  <2> QED
    BY <2>1, <2>2 DEF m
<1> DEFINE m1 == [to |-> "mask", byte |-> TRUE]
           m2 == [to |-> "addr", byte |-> BUFFER]
           m3 == [to |-> "count", byte |-> n - 1]
           m4 == [to |-> "mask", byte |-> FALSE]
           t == << m1, m2, m3, m4 >>
<1>3. dma_io(BUFFER, n) = t
  BY <1>1, <1>2 DEF dma_io
<1>4. m1 \in PortWrites /\ m2 \in PortWrites /\ m3 \in PortWrites /\ m4 \in PortWrites
  BY <1>1, <1>2 DEF PortWrites
<1> HIDE DEF m1, m2, m3, m4
<1>5. t \in Seq(PortWrites) /\ Len(t) = 4
  BY <1>4
<1>6. t[1] = m1 /\ t[2] = m2 /\ t[3] = m3 /\ t[4] = m4
  OBVIOUS
<1> HIDE DEF t
<1> QED
  BY <1>3, <1>5, <1>6 DEF m1, m2, m3, m4, AreRegisters, AreFour

(* The command that starts a transfer, its mode, and its length in two bytes *)
StartBytes(n) == Dsp(<< "START_DMA8", MODE >> \o Words_(n - 1))
AreParameters(q, n) ==
  AreFour(q, Byte_("START_DMA8"), Byte_(MODE), Byte_((n - 1) % 256), Byte_(((n - 1) \div 256) % 256))
(* Those are four writes to the DSP *)
LEMMA StartBytesAre ==
  ASSUME NEW n \in Lengths
  PROVE  StartBytes(n) \in Seq(PortWrites) /\ AreParameters(StartBytes(n), n)
<1> DEFINE S == Codes \cup Nat
           cmd1 == "START_DMA8"
           lo == (n - 1) % 256
           hi == ((n - 1) \div 256) % 256
           w == Words4(cmd1, MODE, lo, hi)
<1>1. StartBytes(n) = Dsp(w)
  BY DEF StartBytes, Words_, Words4
<1>2. cmd1 \in S /\ MODE \in S /\ lo \in S /\ hi \in S
  <2> DEFINE m == n - 1
  <2>1. m \in Nat
    BY LengthFacts
  <2> HIDE DEF m
  <2>2. m % 256 \in Nat /\ m \div 256 \in Nat
    BY <2>1
  <2> DEFINE r == m \div 256
  <2> HIDE DEF r
  <2>3. r \in Nat => r % 256 \in Nat
    OBVIOUS
  <2> QED
    BY <2>2, <2>3 DEF Codes, MODE, m, r
<1> HIDE DEF S, cmd1, lo, hi
<1>3. w \in Seq(S) /\ AreFour(w, cmd1, MODE, lo, hi)
  BY <1>2, FourBytes
<1> HIDE DEF w
<1>4. w \in Seq(Codes \cup Nat)
  BY <1>3 DEF S
<1>5. AreBytes(Dsp(w), w)
  BY <1>4, DspIs
<1> DEFINE bytes == Dsp(w)
<1> HIDE DEF bytes
<1>6. bytes \in Seq(PortWrites) /\ Len(bytes) = 4 /\ bytes[1] = Byte_(cmd1) /\ bytes[2] = Byte_(MODE)
      /\ bytes[3] = Byte_(lo) /\ bytes[4] = Byte_(hi)
  BY <1>3, <1>5 DEF AreBytes, AreFour, bytes
<1>7. AreFour(bytes, Byte_(cmd1), Byte_(MODE), Byte_(lo), Byte_(hi))
  BY <1>6 DEF AreFour
<1> QED
  BY <1>1, <1>6, <1>7 DEF cmd1, lo, hi, AreParameters, bytes

(* A transfer: the channel's registers, and then the DSP's bytes *)
IsTransfer(q, n) ==
  /\ Len(q) = 8
  /\ q[1] = [to |-> "mask", byte |-> TRUE] /\ q[2] = [to |-> "addr", byte |-> BUFFER]
  /\ q[3] = [to |-> "count", byte |-> n - 1] /\ q[4] = [to |-> "mask", byte |-> FALSE]
  /\ q[5] = Byte_("START_DMA8") /\ q[6] = Byte_(MODE)
  /\ q[7] = Byte_((n - 1) % 256) /\ q[8] = Byte_(((n - 1) \div 256) % 256)
(* So the eight writes of a transfer are known, each at its place *)
LEMMA TransferIs ==
  ASSUME NEW n \in Lengths
  PROVE  start_dma_transfer(n) \in Seq(PortWrites) /\ IsTransfer(start_dma_transfer(n), n)
<1> DEFINE front == dma_io(BUFFER, n)
           back == StartBytes(n)
<1>1. start_dma_transfer(n) = front \o back
  BY DEF start_dma_transfer, StartBytes, front, back
<1>2. front \in Seq(PortWrites) /\ AreRegisters(front, n)
  BY DmaIs DEF front
<1>3. back \in Seq(PortWrites) /\ AreParameters(back, n)
  BY StartBytesAre DEF back
<1> HIDE DEF front, back
<1>4. Len(front) = 4 /\ Len(back) = 4
  BY <1>2, <1>3 DEF AreRegisters, AreParameters, AreFour
<1>5. front \o back \in Seq(PortWrites) /\ AreJoined(front \o back, front, back)
  BY <1>2, <1>3, <1>4, JoinFour
<1> DEFINE q == front \o back
<1> HIDE DEF q
<1>6. q \in Seq(PortWrites) /\ AreJoined(q, front, back)
  BY <1>5 DEF q
<1>7. IsTransfer(q, n)
  BY <1>2, <1>3, <1>6 DEF AreRegisters, AreParameters, AreFour, AreJoined, IsTransfer
<1> QED
  BY <1>1, <1>6, <1>7 DEF q

(* The values of dsp, and what it is after a byte is read *)
DspType == [cmd : Codes \cup {"none"}, args : Seq(Nat), left : Nat, paused : BOOLEAN]
Reads(r, cmd, args, left) == r \in DspType /\ r.cmd = cmd /\ r.args = args /\ r.left = left

(* What the DSP reads: a command with parameters, one without, and the last parameter *)
LEMMA ReadsCommand ==
  ASSUME dsp \in DspType, dsp.cmd = "none", NEW b \in {"START_DMA8", "OUT_RATE", "RATE"}
  PROVE  Reads(DspReads(b), b, << >>, dsp.left)
<1>1. Len(<< >>) < Parameters[b] /\ b \in DOMAIN Parameters
  BY DEF Parameters
<1>2. DspReads(b) = [dsp EXCEPT !.cmd = b, !.args = << >>]
  BY <1>1 DEF DspReads
<1>3. << >> \in Seq(Nat) /\ b \in Codes
  BY DEF Codes
<1> QED
  BY <1>2, <1>3 DEF Reads, DspType

(* A command without parameters leaves the DSP free *)
LEMMA ReadsAlone ==
  ASSUME dsp \in DspType, dsp.cmd = "none", dsp.args = << >>,
         NEW b \in {"ENABLE_OUTPUT", "END_DMA8", "DISABLE_OUTPUT", "PAUSE_DMA8", "CONT_DMA8"}
  PROVE  Reads(DspReads(b), "none", << >>, dsp.left)
<1>1. b \notin DOMAIN Parameters
  BY DEF Parameters
<1>2. << >> \in Seq(Nat)
  OBVIOUS
<1>3. CASE b = "PAUSE_DMA8"
  <2>1. DspReads(b) = [dsp EXCEPT !.paused = TRUE]
    BY <1>1, <1>3 DEF DspReads
  <2> QED
    BY <2>1 DEF Reads, DspType
<1>4. CASE b = "CONT_DMA8"
  <2>1. DspReads(b) = [dsp EXCEPT !.paused = FALSE]
    BY <1>1, <1>4 DEF DspReads
  <2> QED
    BY <2>1 DEF Reads, DspType
<1>5. CASE b \in {"ENABLE_OUTPUT", "END_DMA8", "DISABLE_OUTPUT"}
  <2>1. DspReads(b) = [dsp EXCEPT !.cmd = "none", !.args = << >>]
    BY <1>1, <1>5 DEF DspReads
  <2> QED
    BY <2>1, <1>2 DEF Reads, DspType
<1> QED
  BY <1>3, <1>4, <1>5

(* A parameter that is not the last is kept *)
LEMMA ReadsParameter ==
  ASSUME dsp \in DspType, dsp.cmd \in {"START_DMA8", "OUT_RATE", "RATE"}, NEW b \in Nat,
         Len(dsp.args) + 1 < Parameters[dsp.cmd]
  PROVE  Reads(DspReads(b), dsp.cmd, Append(dsp.args, b), dsp.left)
<1> DEFINE a == Append(dsp.args, b)
<1>1. a \in Seq(Nat) /\ Len(a) = Len(dsp.args) + 1
  BY AppendProperties DEF DspType
<1>2. dsp.cmd \in DOMAIN Parameters
  BY DEF Parameters
<1> HIDE DEF a
<1>3. DspReads(b) = [dsp EXCEPT !.cmd = dsp.cmd, !.args = a]
  BY <1>1, <1>2 DEF DspReads, a
<1> QED
  BY <1>1, <1>3 DEF Reads, DspType, a

(* The last parameter of a rate leaves the DSP free *)
LEMMA ReadsLast ==
  ASSUME dsp \in DspType, dsp.cmd \in {"OUT_RATE", "RATE"}, NEW b \in Nat,
         Len(dsp.args) + 1 = Parameters[dsp.cmd]
  PROVE  Reads(DspReads(b), "none", << >>, dsp.left)
<1> DEFINE a == Append(dsp.args, b)
<1>1. a \in Seq(Nat) /\ Len(a) = Len(dsp.args) + 1
  BY AppendProperties DEF DspType
<1>2. dsp.cmd \in DOMAIN Parameters
  BY DEF Parameters
<1>3. << >> \in Seq(Nat)
  OBVIOUS
<1>4. ~(Len(a) < Parameters[dsp.cmd])
  <2>1. Len(dsp.args) \in Nat
    BY DEF DspType
  <2> QED
    BY <1>1, <2>1
<1> HIDE DEF a
<1>5. DspReads(b) = [dsp EXCEPT !.cmd = "none", !.args = << >>]
  BY <1>2, <1>4 DEF DspReads, a
<1> QED
  BY <1>3, <1>5 DEF Reads, DspType

(* The last parameter of a transfer sets what is left to play *)
LEMMA ReadsLength ==
  ASSUME dsp \in DspType, dsp.cmd = "START_DMA8", NEW u \in Nat, NEW v \in Nat, NEW b \in Nat, dsp.args = << u, v >>
  PROVE  Reads(DspReads(b), "none", << >>, v + 256 * b + 1)
<1> DEFINE a == Append(dsp.args, b)
           words == << u, v >>
<1>1. words \in Seq(Nat) /\ Len(words) = 2 /\ words[2] = v
  OBVIOUS
<1> HIDE DEF words
<1>2. Len(a) = 3 /\ a[2] = v /\ a[3] = b
  <2>1. a = Append(words, b)
    BY DEF words
  <2> QED
    BY <1>1, <2>1, AppendProperties
<1>3. "START_DMA8" \in DOMAIN Parameters /\ Parameters["START_DMA8"] = 3
  BY DEF Parameters
<1> HIDE DEF a
<1>4. dsp.cmd # "none" /\ ~(Len(a) < Parameters["START_DMA8"])
  BY <1>2, <1>3
<1> DEFINE n == a[2] + 256 * a[3] + 1
<1>5. DspReads(b) = [Silent EXCEPT !.left = n]
  BY <1>4 DEF DspReads, a
<1>6. n = v + 256 * b + 1 /\ v + 256 * b + 1 \in Nat
  BY <1>2
<1>7. << >> \in Seq(Nat)
  OBVIOUS
<1> HIDE DEF n
<1>8. DspReads(b) = [cmd |-> "none", args |-> << >>, left |-> n, paused |-> FALSE]
  BY <1>5 DEF Silent
<1> QED
  BY <1>6, <1>7, <1>8 DEF Reads, DspType

(* The first write of a sequence, and the rest of it *)
LEMMA PutFirst ==
  ASSUME NEW s \in Seq(Codes \cup Nat), s # << >>
  PROVE  /\ Dsp(s) = << Byte_(Head(s)) >> \o Dsp(Tail(s))
         /\ Byte_(Head(s)) \in PortWrites /\ Dsp(Tail(s)) \in Seq(PortWrites)
<1> DEFINE S == Codes \cup Nat
           h == Head(s)
           u == Tail(s)
<1>1. h \in S /\ u \in Seq(S) /\ Len(u) = Len(s) - 1 /\ \A i \in 1 .. Len(u) : u[i] = s[i + 1]
  BY HeadTailProperties
<1>2. h = s[1] /\ Len(s) \in Nat /\ Len(s) > 0
  BY EmptySeq
<1> HIDE DEF h, u
<1>3. u \in Seq(Codes \cup Nat)
  BY <1>1
<1>4. AreBytes(Dsp(s), s) /\ AreBytes(Dsp(u), u)
  BY <1>3, DspIs
<1> DEFINE x == Byte_(h)
           all == Dsp(s)
           more == Dsp(u)
<1>5. x \in PortWrites
  BY <1>1 DEF Byte_, PortWrites
<1> HIDE DEF x, all, more, S
<1>6. all \in Seq(PortWrites) /\ more \in Seq(PortWrites) /\ Len(all) = Len(s) /\ Len(more) = Len(u)
      /\ all[1] = x /\ \A i \in 1 .. Len(u) : all[i + 1] = more[i]
  <2>1. all \in Seq(PortWrites) /\ more \in Seq(PortWrites) /\ Len(all) = Len(s) /\ Len(more) = Len(u)
        /\ (\A i \in 1 .. Len(s) : all[i] = Byte_(s[i])) /\ \A i \in 1 .. Len(u) : more[i] = Byte_(u[i])
    BY <1>4 DEF AreBytes, all, more
  <2>2. all[1] = x
    BY <1>2, <2>1 DEF x
  <2>3. ASSUME NEW i \in 1 .. Len(u)
        PROVE  all[i + 1] = more[i]
    <3>1. i + 1 \in 1 .. Len(s) /\ u[i] = s[i + 1]
      BY <1>1, <1>2
    <3>2. all[i + 1] = Byte_(s[i + 1]) /\ more[i] = Byte_(u[i])
      BY <2>1, <3>1
    <3> QED
      BY <3>1, <3>2
  <2> QED
    BY <2>1, <2>2, <2>3
<1> DEFINE one == << x >>
<1>8. one \in Seq(PortWrites) /\ Len(one) = 1 /\ one[1] = x
  BY <1>5
<1> HIDE DEF one
<1>9. all = one \o more
  <2> DEFINE t == one \o more
  <2>1. t \in Seq(PortWrites) /\ Len(t) = Len(one) + Len(more)
        /\ \A i \in 1 .. Len(one) + Len(more) : t[i] = IF i <= Len(one) THEN one[i] ELSE more[i - Len(one)]
    <3>1. one \in Seq(PortWrites) /\ more \in Seq(PortWrites)
      BY <1>6, <1>8
    <3> QED
      BY <3>1, ConcatProperties
  <2> HIDE DEF t
  <2>2. Len(u) \in Nat
    BY <1>3
  <2>3. Len(t) = Len(all) /\ Len(t) = Len(u) + 1
    BY <1>1, <1>2, <1>6, <1>8, <2>1, <2>2
  <2>4. ASSUME NEW i \in 1 .. Len(all)
        PROVE  all[i] = t[i]
    <3>1. CASE i = 1
      <4>1. 1 \in 1 .. Len(one) + Len(more) /\ 1 <= Len(one)
        BY <1>6, <1>8, <2>2
      <4>2. t[1] = one[1]
        BY <2>1, <4>1
      <4> QED
        BY <1>6, <1>8, <3>1, <4>2
    <3>2. CASE i > 1
      <4> DEFINE j == i - 1
      <4>1. j \in 1 .. Len(u) /\ i = j + 1
        BY <2>2, <2>3, <3>2
      <4>2. t[i] = more[i - 1]
        BY <1>6, <1>8, <2>1, <2>2, <3>2, <4>1
      <4> HIDE DEF j
      <4>3. all[j + 1] = more[j]
        BY <1>6, <4>1
      <4> QED
        BY <4>1, <4>2, <4>3 DEF j
    <3>3. i \in Nat /\ i >= 1
      BY <2>2, <2>3
    <3> QED
      BY <3>1, <3>2, <3>3
  <2>5. all = t
    BY <1>6, <2>1, <2>3, <2>4, SeqEqual
  <2> QED
    BY <2>5 DEF t
<1> QED
  BY <1>5, <1>6, <1>9 DEF one, all, more, x, h, u

(* The same before other writes *)
LEMMA DspFirst ==
  ASSUME NEW s \in Seq(Codes \cup Nat), s # << >>, NEW q \in Seq(PortWrites)
  PROVE  LET t == Dsp(s) \o q IN
         t # << >> /\ Head(t) = Byte_(Head(s)) /\ Tail(t) = Dsp(Tail(s)) \o q /\ Dsp(Tail(s)) \o q \in Seq(PortWrites)
<1> DEFINE x == Byte_(Head(s))
           one == << x >>
           more == Dsp(Tail(s))
<1>1. Dsp(s) = one \o more /\ x \in PortWrites /\ more \in Seq(PortWrites)
  BY PutFirst
<1>2. one \in Seq(PortWrites)
  BY <1>1
<1> HIDE DEF x, more
<1>3. (one \o more) \o q = one \o (more \o q) /\ more \o q \in Seq(PortWrites)
  <2> DEFINE T == Seq(PortWrites)
  <2>1. one \in T /\ more \in T /\ q \in T
    BY <1>1, <1>2
  <2>2. Associates(T)
    BY Reassociate, Zenon
  <2>3. more \o q \in Seq(PortWrites)
    BY <2>1, ConcatProperties
  <2> HIDE DEF one, T
  <2>4. (one \o more) \o q = one \o (more \o q)
    BY <2>1, <2>2, Zenon DEF Associates
  <2> QED
    BY <2>3, <2>4
<1> DEFINE v == more \o q
<1> HIDE DEF v
<1>4. << x >> \o v # << >> /\ Head(<< x >> \o v) = x /\ Tail(<< x >> \o v) = v
  BY <1>1, <1>3, FirstOf DEF v
<1> HIDE DEF one
<1> QED
  BY <1>1, <1>3, <1>4 DEF v, one, more, x

(* One of the DSP's bytes is written *)
LEMMA WritesByte ==
  ASSUME NEW b, PortWrite(Byte_(b)), line \in BOOLEAN
  PROVE  dsp' = DspReads(b) /\ dma' = dma /\ line' = line
BY DEF PortWrite, Byte_

(* The two bytes of a length give the length back *)
LEMMA LengthBytes ==
  ASSUME NEW n \in Lengths
  PROVE  (n - 1) % 256 \in Nat /\ ((n - 1) \div 256) % 256 \in Nat
         /\ ((n - 1) % 256) + 256 * (((n - 1) \div 256) % 256) + 1 = n
<1> DEFINE m == n - 1
<1>1. m \in Nat /\ m < 65536 /\ n = m + 1
  BY LengthFacts
<1> HIDE DEF m
<1> DEFINE r == m \div 256
<1>2. r \in Nat /\ r < 256 /\ m % 256 \in Nat /\ (m % 256) + 256 * r = m
  BY <1>1
<1> HIDE DEF r
<1>3. r % 256 = r
  BY <1>2
<1>4. r % 256 \in Nat /\ (m % 256) + 256 * (r % 256) + 1 = n
  BY <1>1, <1>2, <1>3
<1> QED
  BY <1>2, <1>4 DEF m, r

(* The bytes that audio_play writes before the transfer, from each of them  *)
(* on, and what the DSP has read of its command then                        *)
Waits(bytes, cmd, args, n) == mainq = Dsp(bytes) \o start_dma_transfer(n) /\ dsp.cmd = cmd /\ dsp.args = args
SetsUp(n) ==
  \/ Waits(<< "ENABLE_OUTPUT", "OUT_RATE", 172, 68 >>, "none", << >>, n)
  \/ Waits(<< "OUT_RATE", 172, 68 >>, "none", << >>, n)
  \/ Waits(<< 172, 68 >>, "OUT_RATE", << >>, n)
  \/ Waits(<< 68 >>, "OUT_RATE", << 172 >>, n)
  \/ Waits(<< "ENABLE_OUTPUT", "RATE", 165 >>, "none", << >>, n)
  \/ Waits(<< "RATE", 165 >>, "none", << >>, n)
  \/ Waits(<< 165 >>, "RATE", << >>, n)

(* A transfer of n bytes when its k-th byte is next *)
Written(n, k) ==
  /\ k >= 3 => dma.addr = BUFFER
  /\ k >= 4 => dma.count = n - 1
  /\ k >= 5 => dma.masked = FALSE
  /\ dsp.cmd = IF k <= 5 THEN "none" ELSE "START_DMA8"
  /\ dsp.args = IF k <= 6 THEN << >> ELSE IF k = 7 THEN << MODE >> ELSE << MODE, (n - 1) % 256 >>
Transfers(q, n, more) == \E k \in 1 .. 8 : q = Left(start_dma_transfer(n), k) \o more /\ Written(n, k)

(* The parts of the phases: the main thread pauses or continues at most *)
Quiet == mainq \in { << >>, Dsp(<< "PAUSE_DMA8" >>), Dsp(<< "CONT_DMA8" >>) }
DspFree == dsp.cmd = "none" /\ dsp.args = << >>
HasAll(n) == dma.addr = BUFFER /\ dma.count = n - 1 /\ dma.masked = FALSE /\ dsp.left = n
NowAt == Len(chunk)

(* The phases of a session, in their order *)
NotYet == chunk = << >> /\ heard = << >> /\ Quiet /\ intrq = << >> /\ DspFree /\ dsp.left = 0 /\ ~edge /\ ~line
Starting ==
  /\ NowAt = 1 /\ heard = << >> /\ intrq = << >> /\ dsp.left = 0 /\ ~edge /\ ~line
  /\ SetsUp(chunk[1]) \/ Transfers(mainq, chunk[1], << >>)
Playing ==
  /\ NowAt > 0 /\ Len(heard) = NowAt - 1 /\ Quiet /\ intrq = << >> /\ DspFree /\ ~edge /\ ~line
  /\ HasAll(chunk[NowAt])
Ended ==
  /\ NowAt > 0 /\ Len(heard) = NowAt /\ Quiet /\ intrq = << >> /\ DspFree /\ edge /\ line /\ dsp.left = 0
FilledAgain ==
  /\ NowAt > 1 /\ Len(heard) = NowAt - 1 /\ Quiet /\ ~edge
  /\ \/ dsp.left = 0 /\ Transfers(intrq, chunk[NowAt], Ack)
     \/ intrq = Ack /\ DspFree /\ HasAll(chunk[NowAt])
Stopping ==
  /\ NowAt > 0 /\ Len(heard) = NowAt /\ Quiet /\ DspFree /\ ~edge /\ dsp.left = 0 /\ asked = "stop"
  /\ intrq \in { Dsp(<< "END_DMA8", "DISABLE_OUTPUT" >>), Dsp(<< "DISABLE_OUTPUT" >>), << >> }

(* What has been played, the card's channel and line, and the types *)
HeardRight == \A k \in 1 .. Len(heard) : heard[k] = [chunk |-> k, len |-> chunk[k], from |-> BUFFER, given |-> chunk[k]]
CardRight ==
  snd = "ready" /\ card.major >= 4 => dma_chan \in card.dmasel /\ \E i \in card.irqsel : irq = irqtab[i + 1]
SoundTypes ==
  /\ chunk \in Seq(Chunks) /\ heard \in Seq([chunk : Nat, len : Nat, from : Nat, given : Nat])
  /\ dma \in [addr : Nat, count : Nat, masked : BOOLEAN]
  /\ dsp \in [cmd : Codes \cup {"none"}, args : Seq(Nat), left : Nat, paused : BOOLEAN]
  /\ edge \in BOOLEAN /\ line \in BOOLEAN
  /\ snd \in {"off", "ready", "none", "failed"}
Detection == CardRight /\ (snd = "off" => card \in Cards)
Phase == NotYet \/ Starting \/ Playing \/ Ended \/ FilledAgain \/ Stopping
SoundInv == SoundTypes /\ HeardRight /\ Detection /\ Phase

(* The channel is masked or unmasked *)
LEMMA MaskWritten ==
  ASSUME NEW v \in BOOLEAN, PortWrite([to |-> "mask", byte |-> v]), line \in BOOLEAN
  PROVE  dsp' = dsp /\ line' = line /\ dma' = [dma EXCEPT !.masked = v]
BY DEF PortWrite

(* A pair made by Append *)
LEMMA TwoWords ==
  ASSUME NEW u \in Nat, NEW v \in Nat
  PROVE  Append(<< u >>, v) = << u, v >>
<1> DEFINE one == << u >>
           two == << u, v >>
           t == Append(one, v)
<1>1. one \in Seq(Nat) /\ Len(one) = 1 /\ one[1] = u
  OBVIOUS
<1>2. two \in Seq(Nat) /\ Len(two) = 2 /\ two[1] = u /\ two[2] = v
  OBVIOUS
<1> HIDE DEF one, two
<1>3. t \in Seq(Nat) /\ Len(t) = 2 /\ t[1] = u /\ t[2] = v
  <2>1. t \in Seq(Nat) /\ Len(t) = Len(one) + 1
    BY <1>1, AppendProperties
  <2>2. t[Len(one) + 1] = v
    BY <1>1, AppendProperties
  <2>3. \A i \in 1 .. Len(one) : t[i] = one[i]
    BY <1>1, AppendProperties
  <2> HIDE DEF t
  <2> QED
    BY <1>1, <2>1, <2>2, <2>3
<1> HIDE DEF t
<1>4. ASSUME NEW i \in 1 .. Len(t)
      PROVE  t[i] = two[i]
  BY <1>2, <1>3
<1>5. t = two
  BY <1>2, <1>3, <1>4, SeqEqual
<1> QED
  BY <1>5 DEF t, one, two

(* One write of a transfer: the next byte's turn, or all of it is written *)
LEMMA TransferStep ==
  ASSUME SoundTypes, NEW n \in Lengths, NEW k \in 1 .. 8, Written(n, k), dsp.left = 0,
         PortWrite(start_dma_transfer(n)[k])
  PROVE  /\ dsp' \in DspType /\ dma' \in [addr : Nat, count : Nat, masked : BOOLEAN] /\ line' = line
         /\ k < 8 => Written(n, k + 1)' /\ dsp'.left = 0
         /\ k = 8 => DspFree' /\ HasAll(n)'
<1> DEFINE q == start_dma_transfer(n)
           lo == (n - 1) % 256
           hi == ((n - 1) \div 256) % 256
<1>1. IsTransfer(q, n)
  BY TransferIs
<1>2. n - 1 \in Nat /\ BUFFER \in Nat /\ MODE \in Nat
  <2>1. n - 1 \in Nat
    BY LengthFacts
  <2> QED
    BY <2>1 DEF BUFFER, MODE
<1>3. lo \in Nat /\ hi \in Nat /\ lo + 256 * hi + 1 = n
  BY LengthBytes
<1>4. dsp \in DspType /\ dma \in [addr : Nat, count : Nat, masked : BOOLEAN] /\ line \in BOOLEAN
  BY DEF SoundTypes, DspType
<1>5. PortWrite(q[k])
  OBVIOUS
<1> HIDE DEF q, lo, hi
<1>6. CASE k <= 4
  <2>1. dsp.cmd = "none" /\ dsp.args = << >>
    BY <1>6 DEF Written
  <2>2. dsp' = dsp /\ line' = line
        /\ dma' = IF k = 1 THEN [dma EXCEPT !.masked = TRUE]
                  ELSE IF k = 2 THEN [dma EXCEPT !.addr = BUFFER]
                  ELSE IF k = 3 THEN [dma EXCEPT !.count = n - 1] ELSE [dma EXCEPT !.masked = FALSE]
    <3>1. CASE k = 1
      <4>1. q[k].to = "mask" /\ q[k].byte = TRUE
        BY <1>1, <3>1 DEF IsTransfer
      <4> QED
        BY <1>4, <1>5, <3>1, <4>1 DEF PortWrite
    <3>2. CASE k = 2
      <4>1. q[k].to = "addr" /\ q[k].byte = BUFFER
        BY <1>1, <3>2 DEF IsTransfer
      <4> QED
        BY <1>4, <1>5, <3>2, <4>1 DEF PortWrite
    <3>3. CASE k = 3
      <4>1. q[k].to = "count" /\ q[k].byte = n - 1
        BY <1>1, <3>3 DEF IsTransfer
      <4> QED
        BY <1>4, <1>5, <3>3, <4>1 DEF PortWrite
    <3>4. CASE k = 4
      <4>1. q[k] = [to |-> "mask", byte |-> FALSE]
        BY <1>1, <3>4 DEF IsTransfer
      <4>2. dsp' = dsp /\ line' = line /\ dma' = [dma EXCEPT !.masked = FALSE]
        <5> DEFINE v == FALSE
        <5>1. v \in BOOLEAN
          OBVIOUS
        <5>2. PortWrite([to |-> "mask", byte |-> v])
          BY <1>5, <4>1
        <5> HIDE DEF v
        <5>3. dsp' = dsp /\ line' = line /\ dma' = [dma EXCEPT !.masked = v]
          BY <1>4, <5>1, <5>2, MaskWritten
        <5> QED
          BY <5>3 DEF v
      <4> QED
        BY <3>4, <4>2
    <3> QED
      BY <1>6, <3>1, <3>2, <3>3, <3>4
  <2>3. dma' \in [addr : Nat, count : Nat, masked : BOOLEAN]
    BY <1>2, <1>4, <2>2
  <2>4. /\ k + 1 >= 3 => dma'.addr = BUFFER
        /\ k + 1 >= 4 => dma'.count = n - 1
        /\ k + 1 >= 5 => dma'.masked = FALSE
    <3>1. /\ k >= 3 => dma.addr = BUFFER
          /\ k >= 4 => dma.count = n - 1
      BY DEF Written
    <3> QED
      BY <1>4, <1>6, <2>2, <3>1
  <2>5. Written(n, k + 1)'
    BY <1>6, <2>1, <2>2, <2>4 DEF Written
  <2> QED
    BY <1>4, <1>6, <2>2, <2>3, <2>5
<1>7. CASE k >= 5
  <2>1. dma.addr = BUFFER /\ dma.count = n - 1 /\ dma.masked = FALSE
    BY <1>7 DEF Written
  <2>2. CASE k = 5
    <3>1. q[k] = Byte_("START_DMA8")
      BY <1>1, <2>2 DEF IsTransfer
    <3>2. dsp' = DspReads("START_DMA8") /\ dma' = dma /\ line' = line
      BY <1>4, <1>5, <3>1, WritesByte
    <3>3. dsp.cmd = "none"
      BY <2>2 DEF Written
    <3>4. Reads(dsp', "START_DMA8", << >>, 0)
      BY <1>4, <3>2, <3>3, ReadsCommand
    <3>5. Written(n, k + 1)'
      BY <2>1, <2>2, <3>2, <3>4 DEF Written, Reads
    <3> QED
      BY <1>4, <2>2, <3>2, <3>4, <3>5 DEF Reads
  <2>3. CASE k = 6
    <3>1. q[k] = Byte_(MODE)
      BY <1>1, <2>3 DEF IsTransfer
    <3>2. dsp' = DspReads(MODE) /\ dma' = dma /\ line' = line
      BY <1>4, <1>5, <3>1, WritesByte
    <3>3. dsp.cmd = "START_DMA8" /\ dsp.args = << >>
      BY <2>3 DEF Written
    <3>4. Len(dsp.args) + 1 < Parameters[dsp.cmd] /\ Append(dsp.args, MODE) = << MODE >>
      BY <3>3 DEF Parameters
    <3>5. Reads(dsp', "START_DMA8", << MODE >>, 0)
      BY <1>2, <1>4, <3>2, <3>3, <3>4, ReadsParameter
    <3>6. Written(n, k + 1)'
      BY <2>1, <2>3, <3>2, <3>5 DEF Written, Reads
    <3> QED
      BY <1>4, <2>3, <3>2, <3>5, <3>6 DEF Reads
  <2>4. CASE k = 7
    <3>1. q[k] = Byte_(lo)
      BY <1>1, <2>4 DEF IsTransfer, lo
    <3>2. dsp' = DspReads(lo) /\ dma' = dma /\ line' = line
      BY <1>4, <1>5, <3>1, WritesByte
    <3>3. dsp.cmd = "START_DMA8" /\ dsp.args = << MODE >>
      BY <2>4 DEF Written
    <3>4. Len(dsp.args) + 1 < Parameters[dsp.cmd] /\ Append(dsp.args, lo) = << MODE, lo >>
      <4> DEFINE one == << MODE >>
      <4>1. one \in Seq(Nat) /\ Len(one) = 1 /\ Append(one, lo) = << MODE, lo >>
        BY <1>2, <1>3, TwoWords
      <4> HIDE DEF one
      <4>2. dsp.args = one
        BY <3>3 DEF one
      <4>3. Parameters[dsp.cmd] = 3
        BY <3>3 DEF Parameters
      <4>4. Len(dsp.args) + 1 < Parameters[dsp.cmd]
        <5>1. Len(dsp.args) = 1
          BY <4>1, <4>2
        <5>2. Len(dsp.args) + 1 < 3
          BY <5>1
        <5> QED
          BY <4>3, <5>2
      <4> QED
        BY <4>1, <4>2, <4>4
    <3>5. Reads(dsp', "START_DMA8", << MODE, lo >>, 0)
      BY <1>3, <1>4, <3>2, <3>3, <3>4, ReadsParameter
    <3>6. Written(n, k + 1)'
      BY <2>1, <2>4, <3>2, <3>5 DEF Written, Reads, lo
    <3> QED
      BY <1>4, <2>4, <3>2, <3>5, <3>6 DEF Reads
  <2>5. CASE k = 8
    <3>1. q[k] = Byte_(hi)
      BY <1>1, <2>5 DEF IsTransfer, hi
    <3>2. dsp' = DspReads(hi) /\ dma' = dma /\ line' = line
      BY <1>4, <1>5, <3>1, WritesByte
    <3>3. dsp.cmd = "START_DMA8" /\ dsp.args = << MODE, lo >>
      BY <2>5 DEF Written, lo
    <3>4. Reads(dsp', "none", << >>, lo + 256 * hi + 1)
      <4>1. Reads(DspReads(hi), "none", << >>, lo + 256 * hi + 1)
        <5> DEFINE md == MODE
        <5>1. md \in Nat /\ dsp.args = << md, lo >>
          BY <1>2, <3>3
        <5> HIDE DEF md
        <5> QED
          BY <1>3, <1>4, <3>3, <5>1, ReadsLength
      <4> QED
        BY <3>2, <4>1
    <3>5. dsp'.cmd = "none" /\ dsp'.args = << >> /\ dsp'.left = n /\ dsp' \in DspType
      BY <1>3, <3>4 DEF Reads
    <3>6. DspFree' /\ HasAll(n)'
      BY <2>1, <3>2, <3>5 DEF DspFree, HasAll
    <3> QED
      BY <1>4, <2>5, <3>2, <3>5, <3>6
  <2> QED
    BY <1>7, <2>2, <2>3, <2>4, <2>5
<1> QED
  BY <1>6, <1>7

(* The first of a sequence of writes to the DSP is its first byte's *)
LEMMA DspHead ==
  ASSUME NEW s \in Seq(Codes \cup Nat), s # << >>
  PROVE  Dsp(s) # << >> /\ Head(Dsp(s)) = Byte_(Head(s)) /\ Tail(Dsp(s)) = Dsp(Tail(s))
<1> DEFINE none == << >>
           u == Tail(s)
<1>1. none \in Seq(PortWrites)
  OBVIOUS
<1>2. u \in Seq(Codes \cup Nat)
  <2> DEFINE S == Codes \cup Nat
  <2> HIDE DEF S
  <2>1. s \in Seq(S)
    BY DEF S
  <2>2. u \in Seq(S)
    BY <2>1, HeadTailProperties
  <2> QED
    BY <2>2 DEF S
<1> HIDE DEF u
<1>3. Dsp(s) \in Seq(PortWrites) /\ Dsp(u) \in Seq(PortWrites)
  BY <1>2, DspIs DEF AreBytes
<1>4. Dsp(s) \o none = Dsp(s) /\ Dsp(u) \o none = Dsp(u)
  BY <1>3, ConcatEmptySeq
<1> HIDE DEF none
<1>5. Dsp(s) \o none # << >> /\ Head(Dsp(s) \o none) = Byte_(Head(s)) /\ Tail(Dsp(s) \o none) = Dsp(u) \o none
  BY <1>1, DspFirst DEF u
<1> QED
  BY <1>4, <1>5 DEF u

(* No bytes are no writes *)
LEMMA NoBytes == Dsp(<< >>) = << >>
<1> DEFINE none == << >>
<1>1. none \in Seq(Codes \cup Nat) /\ Len(none) = 0
  OBVIOUS
<1> HIDE DEF none
<1>2. Dsp(none) \in Seq(PortWrites) /\ Len(Dsp(none)) = 0
  BY <1>1, DspIs DEF AreBytes
<1>3. Dsp(none) = << >>
  BY <1>2, EmptySeq
<1> QED
  BY <1>3 DEF none

(* The two bytes of a stop, and the one of a pause *)
LEMMA OneByte ==
  ASSUME NEW b \in Codes \cup Nat
  PROVE  Dsp(<< b >>) # << >> /\ Head(Dsp(<< b >>)) = Byte_(b) /\ Tail(Dsp(<< b >>)) = << >>
<1> DEFINE s == << b >>
<1>1. s \in Seq(Codes \cup Nat) /\ s # << >> /\ Head(s) = b /\ Tail(s) = << >>
  OBVIOUS
<1> HIDE DEF s
<1>2. Dsp(s) # << >> /\ Head(Dsp(s)) = Byte_(b) /\ Tail(Dsp(s)) = Dsp(<< >>)
  BY <1>1, DspHead
<1> QED
  BY <1>2, NoBytes DEF s

(* A sequence of two bytes *)
LEMMA TwoBytes ==
  ASSUME NEW b \in Codes \cup Nat, NEW v \in Codes \cup Nat
  PROVE  Dsp(<< b, v >>) # << >> /\ Head(Dsp(<< b, v >>)) = Byte_(b) /\ Tail(Dsp(<< b, v >>)) = Dsp(<< v >>)
<1> DEFINE s == << b, v >>
           t == << v >>
<1>1. s \in Seq(Codes \cup Nat) /\ s # << >> /\ Head(s) = b /\ Tail(s) = t
  OBVIOUS
<1> HIDE DEF s, t
<1>2. Dsp(s) # << >> /\ Head(Dsp(s)) = Byte_(b) /\ Tail(Dsp(s)) = Dsp(t)
  BY <1>1, DspHead
<1> QED
  BY <1>2 DEF s, t

(* The main thread writes its next byte (n is the transfer's length) *)
Writes1(n) == PortWrite(Head(mainq)) /\ mainq' = Tail(mainq)

(* A byte that audio_play writes before the transfer *)
LEMMA WaitsStep ==
  ASSUME NEW s \in Seq(Codes \cup Nat), s # << >>, NEW cmd1, NEW args1, NEW n \in Lengths,
         Waits(s, cmd1, args1, n), Writes1(n), line \in BOOLEAN
  PROVE  /\ mainq # << >> /\ dsp' = DspReads(Head(s)) /\ dma' = dma /\ line' = line
         /\ mainq' = Dsp(Tail(s)) \o start_dma_transfer(n)
<1> DEFINE q == start_dma_transfer(n)
<1>1. q \in Seq(PortWrites)
  BY TransferIs
<1>2. mainq = Dsp(s) \o q
  BY DEF Waits
<1> HIDE DEF q
<1>3. mainq # << >> /\ Head(mainq) = Byte_(Head(s)) /\ Tail(mainq) = Dsp(Tail(s)) \o q
  BY <1>1, <1>2, DspFirst
<1>4. PortWrite(Byte_(Head(s))) /\ mainq' = Dsp(Tail(s)) \o q
  BY <1>3 DEF Writes1
<1>5. dsp' = DspReads(Head(s)) /\ dma' = dma /\ line' = line
  BY <1>4, WritesByte
<1> QED
  BY <1>3, <1>4, <1>5 DEF q

(* A whole transfer is left when its first byte is next *)
LEMMA TransferStarts ==
  ASSUME NEW n \in Lengths, NEW more \in Seq(PortWrites)
  PROVE  /\ start_dma_transfer(n) \o more = Left(start_dma_transfer(n), 1) \o more
         /\ Dsp(<< >>) \o start_dma_transfer(n) = Left(start_dma_transfer(n), 1) \o << >>
<1> DEFINE q == start_dma_transfer(n)
<1>1. q \in Seq(PortWrites)
  BY TransferIs
<1> HIDE DEF q
<1>2. Left(q, 1) = q
  BY <1>1, SubSeqFull DEF Left
<1>3. << >> \o q = q /\ q \o << >> = q
  BY <1>1, ConcatEmptySeq
<1> QED
  BY <1>2, <1>3, NoBytes DEF q

(* The bytes before the transfer, one after the other, and then the transfer *)
LEMMA SetupStep ==
  ASSUME SoundTypes, NEW n \in Lengths, SetsUp(n), dsp.left = 0, Writes1(n)
  PROVE  /\ mainq # << >> /\ dsp' \in DspType /\ dma' = dma /\ line' = line /\ dsp'.left = 0
         /\ SetsUp(n)' \/ Transfers(mainq, n, << >>)'
<1> DEFINE S == Codes \cup Nat
<1>0. dsp \in DspType /\ line \in BOOLEAN
  BY DEF SoundTypes, DspType
<1>1. CASE Waits(<< "ENABLE_OUTPUT", "OUT_RATE", 172, 68 >>, "none", << >>, n)
  <2> DEFINE s == << "ENABLE_OUTPUT", "OUT_RATE", 172, 68 >>
             t == << "OUT_RATE", 172, 68 >>
  <2>1. s \in Seq(S) /\ s # << >> /\ Head(s) = "ENABLE_OUTPUT" /\ Tail(s) = t
    BY DEF Codes
  <2>2. Waits(s, "none", << >>, n)
    BY <1>1
  <2> HIDE DEF s, t
  <2>3. mainq # << >> /\ dsp' = DspReads("ENABLE_OUTPUT") /\ dma' = dma /\ line' = line
        /\ mainq' = Dsp(t) \o start_dma_transfer(n)
    BY <1>0, <2>1, <2>2, WaitsStep
  <2>4. Reads(dsp', "none", << >>, 0)
    BY <1>0, <2>2, <2>3, ReadsAlone DEF Waits
  <2>5. Waits(t, "none", << >>, n)'
    BY <2>3, <2>4 DEF Waits, Reads
  <2> QED
    BY <2>3, <2>4, <2>5 DEF SetsUp, Reads, t
<1>2. CASE Waits(<< "OUT_RATE", 172, 68 >>, "none", << >>, n)
  <2> DEFINE s == << "OUT_RATE", 172, 68 >>
             t == << 172, 68 >>
  <2>1. s \in Seq(S) /\ s # << >> /\ Head(s) = "OUT_RATE" /\ Tail(s) = t
    BY DEF Codes
  <2>2. Waits(s, "none", << >>, n)
    BY <1>2
  <2> HIDE DEF s, t
  <2>3. mainq # << >> /\ dsp' = DspReads("OUT_RATE") /\ dma' = dma /\ line' = line
        /\ mainq' = Dsp(t) \o start_dma_transfer(n)
    BY <1>0, <2>1, <2>2, WaitsStep
  <2>4. Reads(dsp', "OUT_RATE", << >>, 0)
    BY <1>0, <2>2, <2>3, ReadsCommand DEF Waits
  <2>5. Waits(t, "OUT_RATE", << >>, n)'
    BY <2>3, <2>4 DEF Waits, Reads
  <2> QED
    BY <2>3, <2>4, <2>5 DEF SetsUp, Reads, t
<1>3. CASE Waits(<< 172, 68 >>, "OUT_RATE", << >>, n)
  <2> DEFINE s == << 172, 68 >>
             t == << 68 >>
  <2>1. s \in Seq(S) /\ s # << >> /\ Head(s) = 172 /\ Tail(s) = t
    OBVIOUS
  <2>2. Waits(s, "OUT_RATE", << >>, n)
    BY <1>3
  <2> HIDE DEF s, t
  <2>3. mainq # << >> /\ dsp' = DspReads(172) /\ dma' = dma /\ line' = line
        /\ mainq' = Dsp(t) \o start_dma_transfer(n)
    BY <1>0, <2>1, <2>2, WaitsStep
  <2>4. Reads(dsp', "OUT_RATE", << 172 >>, 0)
    <3>1. dsp.cmd = "OUT_RATE" /\ dsp.args = << >>
      BY <2>2 DEF Waits
    <3>2. Len(dsp.args) + 1 < Parameters[dsp.cmd] /\ Append(dsp.args, 172) = << 172 >>
      BY <3>1 DEF Parameters
    <3> QED
      BY <1>0, <2>3, <3>1, <3>2, ReadsParameter
  <2>5. Waits(t, "OUT_RATE", << 172 >>, n)'
    BY <2>3, <2>4 DEF Waits, Reads
  <2> QED
    BY <2>3, <2>4, <2>5 DEF SetsUp, Reads, t
<1>4. CASE Waits(<< 68 >>, "OUT_RATE", << 172 >>, n)
  <2> DEFINE s == << 68 >>
  <2>1. s \in Seq(S) /\ s # << >> /\ Head(s) = 68 /\ Tail(s) = << >>
    OBVIOUS
  <2>2. Waits(s, "OUT_RATE", << 172 >>, n)
    BY <1>4
  <2> HIDE DEF s
  <2>3. mainq # << >> /\ dsp' = DspReads(68) /\ dma' = dma /\ line' = line
        /\ mainq' = Dsp(<< >>) \o start_dma_transfer(n)
    BY <1>0, <2>1, <2>2, WaitsStep
  <2>4. Reads(dsp', "none", << >>, 0)
    <3>1. dsp.cmd = "OUT_RATE" /\ dsp.args = << 172 >>
      BY <2>2 DEF Waits
    <3>2. Len(dsp.args) + 1 = Parameters[dsp.cmd]
      BY <3>1 DEF Parameters
    <3> QED
      BY <1>0, <2>3, <3>1, <3>2, ReadsLast
  <2>5. mainq' = Left(start_dma_transfer(n), 1) \o << >> /\ Written(n, 1)'
    <3>1. << >> \in Seq(PortWrites)
      OBVIOUS
    <3>2. mainq' = Left(start_dma_transfer(n), 1) \o << >>
      BY <2>3, <3>1, TransferStarts
    <3>3. Written(n, 1)'
      BY <2>4 DEF Written, Reads
    <3> QED
      BY <3>2, <3>3
  <2>6. Transfers(mainq, n, << >>)'
    <3>1. 1 \in 1 .. 8
      OBVIOUS
    <3>2. \E k \in 1 .. 8 : mainq' = Left(start_dma_transfer(n), k) \o << >> /\ Written(n, k)'
      BY <2>5, <3>1, Zenon
    <3> QED
      BY <3>2, Zenon DEF Transfers
  <2> QED
    BY <2>3, <2>4, <2>6 DEF Reads
<1>5. CASE Waits(<< "ENABLE_OUTPUT", "RATE", 165 >>, "none", << >>, n)
  <2> DEFINE s == << "ENABLE_OUTPUT", "RATE", 165 >>
             t == << "RATE", 165 >>
  <2>1. s \in Seq(S) /\ s # << >> /\ Head(s) = "ENABLE_OUTPUT" /\ Tail(s) = t
    BY DEF Codes
  <2>2. Waits(s, "none", << >>, n)
    BY <1>5
  <2> HIDE DEF s, t
  <2>3. mainq # << >> /\ dsp' = DspReads("ENABLE_OUTPUT") /\ dma' = dma /\ line' = line
        /\ mainq' = Dsp(t) \o start_dma_transfer(n)
    BY <1>0, <2>1, <2>2, WaitsStep
  <2>4. Reads(dsp', "none", << >>, 0)
    BY <1>0, <2>2, <2>3, ReadsAlone DEF Waits
  <2>5. Waits(t, "none", << >>, n)'
    BY <2>3, <2>4 DEF Waits, Reads
  <2> QED
    BY <2>3, <2>4, <2>5 DEF SetsUp, Reads, t
<1>6. CASE Waits(<< "RATE", 165 >>, "none", << >>, n)
  <2> DEFINE s == << "RATE", 165 >>
             t == << 165 >>
  <2>1. s \in Seq(S) /\ s # << >> /\ Head(s) = "RATE" /\ Tail(s) = t
    BY DEF Codes
  <2>2. Waits(s, "none", << >>, n)
    BY <1>6
  <2> HIDE DEF s, t
  <2>3. mainq # << >> /\ dsp' = DspReads("RATE") /\ dma' = dma /\ line' = line
        /\ mainq' = Dsp(t) \o start_dma_transfer(n)
    BY <1>0, <2>1, <2>2, WaitsStep
  <2>4. Reads(dsp', "RATE", << >>, 0)
    BY <1>0, <2>2, <2>3, ReadsCommand DEF Waits
  <2>5. Waits(t, "RATE", << >>, n)'
    BY <2>3, <2>4 DEF Waits, Reads
  <2> QED
    BY <2>3, <2>4, <2>5 DEF SetsUp, Reads, t
<1>7. CASE Waits(<< 165 >>, "RATE", << >>, n)
  <2> DEFINE s == << 165 >>
  <2>1. s \in Seq(S) /\ s # << >> /\ Head(s) = 165 /\ Tail(s) = << >>
    OBVIOUS
  <2>2. Waits(s, "RATE", << >>, n)
    BY <1>7
  <2> HIDE DEF s
  <2>3. mainq # << >> /\ dsp' = DspReads(165) /\ dma' = dma /\ line' = line
        /\ mainq' = Dsp(<< >>) \o start_dma_transfer(n)
    BY <1>0, <2>1, <2>2, WaitsStep
  <2>4. Reads(dsp', "none", << >>, 0)
    <3>1. dsp.cmd = "RATE" /\ dsp.args = << >>
      BY <2>2 DEF Waits
    <3>2. Len(dsp.args) + 1 = Parameters[dsp.cmd]
      BY <3>1 DEF Parameters
    <3> QED
      BY <1>0, <2>3, <3>1, <3>2, ReadsLast
  <2>5. mainq' = Left(start_dma_transfer(n), 1) \o << >> /\ Written(n, 1)'
    <3>1. << >> \in Seq(PortWrites)
      OBVIOUS
    <3>2. mainq' = Left(start_dma_transfer(n), 1) \o << >>
      BY <2>3, <3>1, TransferStarts
    <3>3. Written(n, 1)'
      BY <2>4 DEF Written, Reads
    <3> QED
      BY <3>2, <3>3
  <2>6. Transfers(mainq, n, << >>)'
    <3>1. 1 \in 1 .. 8
      OBVIOUS
    <3>2. \E k \in 1 .. 8 : mainq' = Left(start_dma_transfer(n), k) \o << >> /\ Written(n, k)'
      BY <2>5, <3>1, Zenon
    <3> QED
      BY <3>2, Zenon DEF Transfers
  <2> QED
    BY <2>3, <2>4, <2>6 DEF Reads
<1> QED
  BY <1>1, <1>2, <1>3, <1>4, <1>5, <1>6, <1>7 DEF SetsUp

(* The first of what is left of a transfer, and of what comes after it *)
LEMMA TransferFirst ==
  ASSUME NEW n \in Lengths, NEW more \in Seq(PortWrites), NEW k \in 1 .. 8
  PROVE  LET q == start_dma_transfer(n)
             t == Left(q, k) \o more
         IN t # << >> /\ Head(t) = q[k] /\ Tail(t) = IF k = 8 THEN more ELSE Left(q, k + 1) \o more
<1> DEFINE q == start_dma_transfer(n)
           t == Left(q, k) \o more
<1>1. q \in Seq(PortWrites) /\ Len(q) = 8
  BY TransferIs DEF IsTransfer
<1> HIDE DEF q
<1>2. t # << >> /\ Head(t) = q[k] /\ Tail(t) = Left(q, k + 1) \o more
  BY <1>1, LeftFacts
<1>3. k = 8 => Left(q, k + 1) \o more = more
  <2>1. SubSeq(q, 9, 8) = << >>
    BY SubSeqEmpty
  <2>2. k = 8 => Left(q, k + 1) = << >>
    BY <1>1, <2>1 DEF Left
  <2>3. << >> \o more = more
    BY ConcatEmptySeq
  <2> QED
    BY <2>2, <2>3
<1> QED
  BY <1>2, <1>3 DEF q

(* A byte of sb_pause or sb_continue is written *)
LEMMA QuietStep ==
  ASSUME SoundTypes, Quiet, mainq # << >>, DspFree, PortWrite(Head(mainq)), mainq' = Tail(mainq)
  PROVE  mainq' = << >> /\ dsp' \in DspType /\ DspFree' /\ dsp'.left = dsp.left /\ dma' = dma /\ line' = line
<1>1. PICK b \in {"PAUSE_DMA8", "CONT_DMA8"} : mainq = Dsp(<< b >>)
  BY DEF Quiet
<1>2. b \in Codes \cup Nat
  BY DEF Codes
<1>3. Head(mainq) = Byte_(b) /\ mainq' = << >>
  BY <1>1, <1>2, OneByte
<1>4. dsp \in DspType /\ line \in BOOLEAN /\ dsp.cmd = "none" /\ dsp.args = << >>
  BY DEF SoundTypes, DspType, DspFree
<1>5. dsp' = DspReads(b) /\ dma' = dma /\ line' = line
  <2>1. PortWrite(Byte_(b))
    BY <1>3
  <2> QED
    BY <1>4, <2>1, WritesByte
<1>6. Reads(dsp', "none", << >>, dsp.left)
  BY <1>4, <1>5, ReadsAlone
<1> QED
  BY <1>3, <1>5, <1>6 DEF Reads, DspFree

(* A chunk's length is one that a channel can count *)
LEMMA ChunkLength ==
  ASSUME chunk \in Seq(Chunks), NEW k \in 1 .. Len(chunk)
  PROVE  chunk[k] \in Lengths
<1>1. chunk[k] \in Chunks
  BY ElementOfSeq
<1> QED
  BY <1>1, SoundAssumption DEF Lengths

(* Which of its phases a queue belongs to *)
LEMMA QueuesSay ==
  ASSUME SoundTypes, Phase
  PROVE  /\ intrq # << >> => FilledAgain \/ Stopping
         /\ mainq = << >> => ~Starting
         /\ mainq = << >> /\ intrq = << >> => ~FilledAgain
         /\ intrq = << >> => ~FilledAgain
<1>1. Starting => mainq # << >>
  <2> SUFFICES ASSUME Starting
               PROVE  mainq # << >>
    OBVIOUS
  <2> DEFINE n == chunk[1]
  <2>1. n \in Lengths
    <3>1. 1 \in 1 .. Len(chunk) /\ chunk \in Seq(Chunks)
      BY DEF Starting, SoundTypes, NowAt
    <3> QED
      BY <3>1, ChunkLength
  <2>2. SetsUp(n) \/ Transfers(mainq, n, << >>)
    BY DEF Starting
  <2> HIDE DEF n
  <2>3. CASE Transfers(mainq, n, << >>)
    <3>1. PICK k \in 1 .. 8 : mainq = Left(start_dma_transfer(n), k) \o << >>
      BY <2>3 DEF Transfers
    <3>2. << >> \in Seq(PortWrites)
      OBVIOUS
    <3> QED
      BY <2>1, <3>1, <3>2, TransferFirst
  <2>4. CASE SetsUp(n)
    <3>1. ASSUME NEW s \in Seq(Codes \cup Nat), s # << >>, NEW cmd1, NEW args1, Waits(s, cmd1, args1, n)
          PROVE  mainq # << >>
      <4>1. start_dma_transfer(n) \in Seq(PortWrites)
        BY <2>1, TransferIs
      <4>2. mainq = Dsp(s) \o start_dma_transfer(n)
        BY <3>1 DEF Waits
      <4> QED
        BY <3>1, <4>1, <4>2, DspFirst
    <3>2. CASE Waits(<< "ENABLE_OUTPUT", "OUT_RATE", 172, 68 >>, "none", << >>, n)
      <4> DEFINE s == << "ENABLE_OUTPUT", "OUT_RATE", 172, 68 >>
      <4>1. s \in Seq(Codes \cup Nat) /\ s # << >> /\ Waits(s, "none", << >>, n)
        BY <3>2 DEF Codes
      <4> HIDE DEF s
      <4> QED
        BY <3>1, <4>1
    <3>3. CASE Waits(<< "OUT_RATE", 172, 68 >>, "none", << >>, n)
      <4> DEFINE s == << "OUT_RATE", 172, 68 >>
      <4>1. s \in Seq(Codes \cup Nat) /\ s # << >> /\ Waits(s, "none", << >>, n)
        BY <3>3 DEF Codes
      <4> HIDE DEF s
      <4> QED
        BY <3>1, <4>1
    <3>4. CASE Waits(<< 172, 68 >>, "OUT_RATE", << >>, n)
      <4> DEFINE s == << 172, 68 >>
      <4>1. s \in Seq(Codes \cup Nat) /\ s # << >> /\ Waits(s, "OUT_RATE", << >>, n)
        BY <3>4 DEF Codes
      <4> HIDE DEF s
      <4> QED
        BY <3>1, <4>1
    <3>5. CASE Waits(<< 68 >>, "OUT_RATE", << 172 >>, n)
      <4> DEFINE s == << 68 >>
      <4>1. s \in Seq(Codes \cup Nat) /\ s # << >> /\ Waits(s, "OUT_RATE", << 172 >>, n)
        BY <3>5 DEF Codes
      <4> HIDE DEF s
      <4> QED
        BY <3>1, <4>1
    <3>6. CASE Waits(<< "ENABLE_OUTPUT", "RATE", 165 >>, "none", << >>, n)
      <4> DEFINE s == << "ENABLE_OUTPUT", "RATE", 165 >>
      <4>1. s \in Seq(Codes \cup Nat) /\ s # << >> /\ Waits(s, "none", << >>, n)
        BY <3>6 DEF Codes
      <4> HIDE DEF s
      <4> QED
        BY <3>1, <4>1
    <3>7. CASE Waits(<< "RATE", 165 >>, "none", << >>, n)
      <4> DEFINE s == << "RATE", 165 >>
      <4>1. s \in Seq(Codes \cup Nat) /\ s # << >> /\ Waits(s, "none", << >>, n)
        BY <3>7 DEF Codes
      <4> HIDE DEF s
      <4> QED
        BY <3>1, <4>1
    <3>8. CASE Waits(<< 165 >>, "RATE", << >>, n)
      <4> DEFINE s == << 165 >>
      <4>1. s \in Seq(Codes \cup Nat) /\ s # << >> /\ Waits(s, "RATE", << >>, n)
        BY <3>8 DEF Codes
      <4> HIDE DEF s
      <4> QED
        BY <3>1, <4>1
    <3> QED
      BY <2>4, <3>2, <3>3, <3>4, <3>5, <3>6, <3>7, <3>8 DEF SetsUp
  <2> QED
    BY <2>2, <2>3, <2>4
<1>2. FilledAgain => intrq # << >>
  <2> SUFFICES ASSUME FilledAgain
               PROVE  intrq # << >>
    OBVIOUS
  <2> DEFINE n == chunk[NowAt]
  <2>1. n \in Lengths
    <3>1. chunk \in Seq(Chunks)
      BY DEF SoundTypes
    <3>2. NowAt \in 1 .. Len(chunk)
      BY <3>1 DEF FilledAgain, NowAt
    <3> QED
      BY <3>1, <3>2, ChunkLength
  <2> HIDE DEF n
  <2>2. Ack # << >> /\ Ack \in Seq(PortWrites)
    BY DEF Ack, PortWrites
  <2>3. CASE Transfers(intrq, n, Ack)
    <3>1. PICK k \in 1 .. 8 : intrq = Left(start_dma_transfer(n), k) \o Ack
      BY <2>3 DEF Transfers
    <3> QED
      BY <2>1, <2>2, <3>1, TransferFirst
  <2>4. CASE intrq = Ack
    BY <2>2, <2>4
  <2> QED
    BY <2>3, <2>4 DEF FilledAgain, n
<1>3. intrq # << >> => ~NotYet /\ ~Starting /\ ~Playing /\ ~Ended
  BY DEF NotYet, Starting, Playing, Ended
<1> QED
  BY <1>1, <1>2, <1>3 DEF Phase

(* A step that leaves the detection alone *)
LEMMA SameCard ==
  ASSUME Detection, UNCHANGED detected
  PROVE  Detection'
BY DEF Detection, CardRight, detected

(* A mixer that selects a low channel selects a high one, or channel 1      *)
CardsTaken ==
  \A held \in Cards : ChannelOf(held.dmasel \intersect 0 .. 3) # -1 /\ ChannelOf(held.dmasel \intersect 5 .. 7) = -1 => 1 \in held.dmasel

(* The lowest of a set of bits is one of them *)
LEMMA LowestIs ==
  ASSUME NEW T \in SUBSET (0 .. 7), T # {}
  PROVE  LowestOf(T) \in T
<1>1. T \in SUBSET Nat
  OBVIOUS
<1>2. PICK m \in T : \A j \in T : m <= j
  BY <1>1, Least
<1> QED
  BY <1>2, Zenon DEF LowestOf

(* A channel that dmatab gives for low bits is one of the bits *)
LEMMA ChannelIs ==
  ASSUME NEW T \in SUBSET (0 .. 3), ChannelOf(T) # -1
  PROVE  ChannelOf(T) \in T
<1>1. T # {} /\ ChannelOf(T) = dmatab[LowestOf(T) + 1]
  BY DEF ChannelOf
<1>2. T \in SUBSET (0 .. 7)
  OBVIOUS
<1> DEFINE i == LowestOf(T)
<1>3. i \in T
  BY <1>1, <1>2, LowestIs
<1>4. i \in 0 .. 3
  BY <1>3
<1> HIDE DEF i
<1>5. dmatab[1] = 0 /\ dmatab[2] = 1 /\ dmatab[3] = -1 /\ dmatab[4] = 3
  BY DEF dmatab
<1>6. i # 2 => dmatab[i + 1] = i
  BY <1>4, <1>5
<1>7. i # 2
  BY <1>1, <1>5 DEF i
<1> QED
  BY <1>1, <1>3, <1>6, <1>7 DEF i

(* sb_detect takes the channel and the line that the card uses *)
LEMMA DetectStep ==
  ASSUME SoundInv, sb_detect, CardsTaken
  PROVE  Detection'
<1>1. snd = "off" /\ card \in Cards /\ snd' \in {"ready", "none", "failed"}
  BY DEF sb_detect, SoundInv, Detection
<1>2. card \in [port : Nat, major : Nat, irqsel : SUBSET (0 .. 7), dmasel : SUBSET (0 .. 7), settable : BOOLEAN]
  BY <1>1, SoundAssumption DEF SoundCards
<1> DEFINE lower == DmaBits(0, 3)
           upper == DmaBits(5, 7)
           bits == IrqBits
<1>3. lower \in SUBSET (0 .. 3) /\ lower \subseteq card.dmasel
  BY <1>2 DEF DmaBits
<1>4. ChannelOf(lower) # -1 /\ ChannelOf(upper) = -1 => 1 \in card.dmasel
  BY <1>1 DEF CardsTaken, DmaBits
<1> HIDE DEF lower, upper
<1>5. ASSUME snd' = "ready", card'.major >= 4
      PROVE  dma_chan' \in card'.dmasel /\ \E i \in card'.irqsel : irq' = irqtab[i + 1]
  <2>1. card.port \in SbPorts
    BY <1>5 DEF sb_detect
  <2>2. card.major >= 4
    BY <1>5, <1>2 DEF sb_detect
  <2>3. ~SettingFails
    BY <1>5, <2>1, <2>2, <1>2 DEF sb_detect
  <2>4. ~(card.major < 4)
    BY <1>2, <2>2
  <2>5. /\ irq' = IF IrqForced THEN 5 ELSE irqtab[LowestOf(bits) + 1]
        /\ dma_chan' = IF DmaForced THEN 1 ELSE ChannelOf(lower)
        /\ card' = [card EXCEPT !.irqsel = IF IrqForced THEN {1} ELSE @, !.dmasel = DmaWritten]
    BY <2>1, <2>3, <2>4 DEF sb_detect, lower
  <2>6. card'.irqsel = IF IrqForced THEN {1} ELSE card.irqsel
    BY <1>2, <2>5
  <2>7. card'.dmasel = DmaWritten
    BY <1>2, <2>5
  <2>8. \E i \in card'.irqsel : irq' = irqtab[i + 1]
    <3>1. CASE IrqForced
      <4>1. irqtab[1 + 1] = 5
        BY DEF irqtab
      <4> QED
        BY <2>5, <2>6, <3>1, <4>1
    <3>2. CASE ~IrqForced
      <4>1. bits # {} /\ bits \in SUBSET (0 .. 7) /\ bits \subseteq card.irqsel
        BY <3>2 DEF IrqForced, IrqBits
      <4> HIDE DEF bits
      <4>2. LowestOf(bits) \in card.irqsel
        BY <4>1, LowestIs
      <4> QED
        BY <2>5, <2>6, <3>2, <4>2
    <3> QED
      BY <3>1, <3>2
  <2>9. dma_chan' \in card'.dmasel
    <3>1. card.dmasel \subseteq DmaWritten /\ (ChannelOf(lower) = -1 => 1 \in DmaWritten)
      BY DEF DmaWritten, lower
    <3>2. DmaForced = (ChannelOf(lower) = -1 \/ ChannelOf(upper) = -1)
      BY DEF DmaForced, lower, upper
    <3>3. CASE DmaForced
      BY <1>4, <2>5, <2>7, <3>1, <3>2, <3>3
    <3>4. CASE ~DmaForced
      <4>1. ChannelOf(lower) \in lower
        BY <1>3, <3>2, <3>4, ChannelIs
      <4> QED
        BY <1>3, <2>5, <2>7, <3>1, <3>4, <4>1
    <3> QED
      BY <3>3, <3>4
  <2> QED
    BY <2>8, <2>9
<1> QED
  BY <1>1, <1>5 DEF Detection, CardRight

(* Calls of the program, when nothing is being written *)
LEMMA CallStep ==
  ASSUME SoundInv, sb_pause \/ sb_continue
  PROVE  SoundInv'
<1>1. PICK b \in {"PAUSE_DMA8", "CONT_DMA8"} : mainq' = Dsp(<< b >>)
  BY DEF sb_pause, sb_continue, Call_
<1>2. /\ mainq = << >> /\ intrq = << >> /\ (asked = "stop" => asked' = "stop")
      /\ UNCHANGED << detected, hardware, edge, intrq, chunk, heard >>
  BY DEF sb_pause, sb_continue, Call_
<1>3. SoundTypes' /\ HeardRight'
  BY <1>2 DEF SoundInv, SoundTypes, HeardRight, detected, hardware
<1>4. Detection'
  BY <1>2, SameCard DEF SoundInv
<1>5. Quiet'
  BY <1>1 DEF Quiet
<1>6. NotYet \/ Playing \/ Ended \/ Stopping
  <2>1. SoundTypes /\ Phase
    BY DEF SoundInv
  <2>2. mainq = << >> /\ intrq = << >>
    BY <1>2
  <2>3. ~Starting /\ ~FilledAgain
    BY <2>1, <2>2, QueuesSay
  <2> QED
    BY <2>1, <2>3 DEF Phase
<1>7. CASE NotYet
  BY <1>2, <1>3, <1>4, <1>5, <1>7 DEF SoundInv, Phase, NotYet, DspFree, hardware
<1>8. CASE Playing
  BY <1>2, <1>3, <1>4, <1>5, <1>8 DEF SoundInv, Phase, Playing, DspFree, HasAll, NowAt, hardware
<1>9. CASE Ended
  BY <1>2, <1>3, <1>4, <1>5, <1>9 DEF SoundInv, Phase, Ended, DspFree, NowAt, hardware
<1>10. CASE Stopping
  BY <1>2, <1>3, <1>4, <1>5, <1>10 DEF SoundInv, Phase, Stopping, DspFree, NowAt, hardware
<1> QED
  BY <1>6, <1>7, <1>8, <1>9, <1>10

(* audio_play *)
LEMMA StartStep ==
  ASSUME SoundInv, chunk = << >>, sb_start
  PROVE  SoundInv'
<1>1. mainq = << >> /\ intrq = << >> /\ UNCHANGED << detected, hardware, edge, intrq, heard, calls >>
  BY DEF sb_start
<1>2. NotYet
  <2>1. SoundTypes /\ Phase
    BY DEF SoundInv
  <2>2. ~Starting /\ ~FilledAgain
    BY <1>1, <2>1, QueuesSay
  <2>3. Len(chunk) = 0
    OBVIOUS
  <2>4. ~Playing /\ ~Ended /\ ~Stopping
    BY <2>3 DEF Playing, Ended, Stopping, NowAt
  <2> QED
    BY <2>1, <2>2, <2>4 DEF Phase
<1>3. Detection'
  BY <1>1, SameCard DEF SoundInv
<1>4. CASE UNCHANGED << chunk, mainq, asked >>
  BY <1>1, <1>2, <1>3, <1>4 DEF SoundInv, SoundTypes, HeardRight, Phase, NotYet, Quiet, DspFree, detected, hardware
<1>5. CASE \E n \in Chunks :
             /\ chunk' = Append(chunk, n)
             /\ mainq' = Dsp(<< "ENABLE_OUTPUT" >>) \o set_output_rate \o start_dma_transfer(n)
  <2>1. PICK n \in Chunks :
             /\ chunk' = Append(chunk, n)
             /\ mainq' = Dsp(<< "ENABLE_OUTPUT" >>) \o set_output_rate \o start_dma_transfer(n)
    BY <1>5
  <2>2. n \in Lengths
    BY SoundAssumption DEF Lengths
  <2>3. chunk' \in Seq(Chunks) /\ Len(chunk') = 1 /\ chunk'[1] = n
    <3> DEFINE none == << >>
    <3>1. none \in Seq(Chunks) /\ Len(none) = 0
      OBVIOUS
    <3> HIDE DEF none
    <3>2. chunk' = Append(none, n)
      BY <2>1 DEF none
    <3>3. Append(none, n) \in Seq(Chunks) /\ Len(Append(none, n)) = Len(none) + 1 /\ Append(none, n)[Len(none) + 1] = n
      BY <3>1, AppendProperties
    <3> QED
      BY <3>1, <3>2, <3>3
  <2>4. SoundTypes' /\ HeardRight'
    BY <1>1, <1>2, <2>3 DEF SoundInv, SoundTypes, HeardRight, NotYet, detected, hardware
  <2>5. SetsUp(n)'
    <3> DEFINE q == start_dma_transfer(n)
               first1 == Dsp(<< "ENABLE_OUTPUT" >>)
    <3>1. dsp'.cmd = "none" /\ dsp'.args = << >>
      BY <1>1, <1>2 DEF NotYet, DspFree, hardware
    <3>2. first1 = << Byte_("ENABLE_OUTPUT") >> /\ first1 \in Seq(PortWrites)
      <4> DEFINE s == << "ENABLE_OUTPUT" >>
      <4>1. s \in Seq(Codes \cup Nat) /\ Len(s) = 1 /\ s[1] = "ENABLE_OUTPUT"
        BY DEF Codes
      <4> HIDE DEF s
      <4>2. Dsp(s) \in Seq(PortWrites) /\ Len(Dsp(s)) = 1 /\ Dsp(s)[1] = Byte_("ENABLE_OUTPUT")
        BY <4>1, DspIs DEF AreBytes
      <4> QED
        BY <4>2 DEF s
    <3>3. CASE card.major >= 4
      <4> DEFINE t == << "OUT_RATE", 172, 68 >>
                 s == << "ENABLE_OUTPUT", "OUT_RATE", 172, 68 >>
      <4>1. t \in Seq(Codes \cup Nat) /\ s \in Seq(Codes \cup Nat) /\ s # << >> /\ Head(s) = "ENABLE_OUTPUT" /\ Tail(s) = t
        BY DEF Codes
      <4>2. mainq' = first1 \o Dsp(t) \o q
        BY <2>1, <3>3 DEF set_output_rate
      <4> HIDE DEF s, t
      <4>3. mainq' = Dsp(s) \o q
        <5>1. Dsp(s) = << Byte_("ENABLE_OUTPUT") >> \o Dsp(t)
          BY <4>1, PutFirst
        <5> HIDE DEF first1
        <5> QED
          BY <3>2, <4>2, <5>1
      <4>4. Waits(s, "none", << >>, n)'
        BY <3>1, <4>3 DEF Waits
      <4> QED
        BY <4>4 DEF SetsUp, s
    <3>4. CASE ~(card.major >= 4)
      <4> DEFINE t == << "RATE", 165 >>
                 s == << "ENABLE_OUTPUT", "RATE", 165 >>
      <4>1. t \in Seq(Codes \cup Nat) /\ s \in Seq(Codes \cup Nat) /\ s # << >> /\ Head(s) = "ENABLE_OUTPUT" /\ Tail(s) = t
        BY DEF Codes
      <4>2. mainq' = first1 \o Dsp(t) \o q
        BY <2>1, <3>4 DEF set_output_rate
      <4> HIDE DEF s, t
      <4>3. mainq' = Dsp(s) \o q
        <5>1. Dsp(s) = << Byte_("ENABLE_OUTPUT") >> \o Dsp(t)
          BY <4>1, PutFirst
        <5> HIDE DEF first1
        <5> QED
          BY <3>2, <4>2, <5>1
      <4>4. Waits(s, "none", << >>, n)'
        BY <3>1, <4>3 DEF Waits
      <4> QED
        BY <4>4 DEF SetsUp, s
    <3> QED
      BY <3>3, <3>4
  <2>6. Starting'
    BY <1>1, <1>2, <2>3, <2>5 DEF NotYet, Starting, NowAt, hardware
  <2> QED
    BY <1>3, <2>4, <2>6 DEF SoundInv, Phase
<1> QED
  BY <1>4, <1>5 DEF sb_start

(* The chunk that is now played has a length *)
LEMMA LastChunk ==
  ASSUME SoundTypes, NowAt > 0
  PROVE  NowAt \in 1 .. Len(chunk) /\ NowAt \in Nat /\ chunk[NowAt] \in Lengths
<1>1. chunk \in Seq(Chunks) /\ Len(chunk) \in Nat
  BY DEF SoundTypes
<1>2. NowAt \in 1 .. Len(chunk) /\ NowAt \in Nat
  BY <1>1 DEF NowAt
<1> QED
  BY <1>1, <1>2, ChunkLength

(* The interrupt handler is entered *)
LEMMA HandlerStep ==
  ASSUME SoundInv, intr_handler
  PROVE  SoundInv'
<1>1. edge /\ intrq = << >> /\ edge' = FALSE /\ UNCHANGED << detected, hardware, mainq, heard, calls >>
  BY DEF intr_handler
<1>2. SoundTypes /\ Phase
  BY DEF SoundInv
<1>3. Ended
  <2>1. ~NotYet /\ ~Starting /\ ~Playing /\ ~FilledAgain /\ ~Stopping
    BY <1>1 DEF NotYet, Starting, Playing, FilledAgain, Stopping
  <2> QED
    BY <1>2, <2>1 DEF Phase
<1>4. Detection'
  BY <1>1, SameCard DEF SoundInv
<1>5. NowAt > 0 /\ Len(heard) = NowAt /\ Quiet /\ DspFree /\ line /\ dsp.left = 0
  BY <1>3 DEF Ended
<1>6. NowAt \in Nat
  BY <1>2, <1>5, LastChunk
<1>7. Quiet' /\ DspFree' /\ line' = line /\ dsp' = dsp /\ dma' = dma /\ heard' = heard
  BY <1>1, <1>5 DEF Quiet, DspFree, hardware
<1>8. CASE intrq' = Dsp(<< "END_DMA8", "DISABLE_OUTPUT" >>) /\ asked' = "stop" /\ UNCHANGED chunk
  <2>1. SoundTypes' /\ HeardRight'
    BY <1>1, <1>2, <1>7, <1>8 DEF SoundInv, SoundTypes, HeardRight, detected
  <2>2. Stopping'
    BY <1>1, <1>5, <1>7, <1>8 DEF Stopping, NowAt
  <2> QED
    BY <1>4, <2>1, <2>2 DEF SoundInv, Phase
<1>9. CASE \E n \in Chunks : chunk' = Append(chunk, n) /\ intrq' = start_dma_transfer(n) \o Ack
  <2>1. PICK n \in Chunks : chunk' = Append(chunk, n) /\ intrq' = start_dma_transfer(n) \o Ack
    BY <1>9
  <2>2. n \in Lengths
    BY SoundAssumption DEF Lengths
  <2>3. chunk' \in Seq(Chunks) /\ NowAt' = NowAt + 1 /\ chunk'[NowAt + 1] = n
        /\ \A k \in 1 .. NowAt : chunk'[k] = chunk[k]
    <3>1. chunk \in Seq(Chunks)
      BY <1>2 DEF SoundTypes
    <3>2. Append(chunk, n) \in Seq(Chunks) /\ Len(Append(chunk, n)) = Len(chunk) + 1
          /\ Append(chunk, n)[Len(chunk) + 1] = n /\ \A k \in 1 .. Len(chunk) : Append(chunk, n)[k] = chunk[k]
      BY <3>1, AppendProperties
    <3> QED
      BY <2>1, <3>2 DEF NowAt
  <2>4. SoundTypes'
    BY <1>1, <1>2, <1>7, <2>3 DEF SoundTypes, detected
  <2>5. HeardRight'
    <3>1. ASSUME NEW k \in 1 .. Len(heard)
          PROVE  heard[k] = [chunk |-> k, len |-> chunk'[k], from |-> BUFFER, given |-> chunk'[k]]
      <4>1. chunk'[k] = chunk[k]
        BY <1>5, <2>3
      <4> QED
        BY <4>1 DEF SoundInv, HeardRight
    <3> QED
      BY <1>7, <3>1 DEF HeardRight
  <2>6. Transfers(intrq, n, Ack)'
    <3>1. 1 \in 1 .. 8 /\ Ack \in Seq(PortWrites)
      BY DEF Ack, PortWrites
    <3>2. intrq' = Left(start_dma_transfer(n), 1) \o Ack
      BY <2>1, <2>2, <3>1, TransferStarts
    <3>3. Written(n, 1)'
      BY <1>7 DEF Written, DspFree
    <3>4. \E k \in 1 .. 8 : intrq' = Left(start_dma_transfer(n), k) \o Ack /\ Written(n, k)'
      BY <3>1, <3>2, <3>3, Zenon
    <3> QED
      BY <3>4, Zenon DEF Transfers
  <2>7. FilledAgain'
    <3>1. NowAt' > 1 /\ Len(heard') = NowAt' - 1 /\ chunk'[NowAt'] = n
      BY <1>5, <1>6, <1>7, <2>3
    <3>2. ~edge' /\ dsp'.left = 0
      BY <1>1, <1>5, <1>7
    <3> QED
      BY <1>7, <2>6, <3>1, <3>2 DEF FilledAgain
  <2> QED
    BY <1>4, <2>4, <2>5, <2>7 DEF SoundInv, Phase
<1> QED
  BY <1>8, <1>9 DEF intr_handler

(* A write of the handler *)
LEMMA HandlerWritesStep ==
  ASSUME SoundInv, HandlerWrites
  PROVE  SoundInv'
<1>1. intrq # << >> /\ PortWrite(Head(intrq)) /\ intrq' = Tail(intrq)
      /\ UNCHANGED << detected, edge, mainq, chunk, heard, calls, asked >>
  BY DEF HandlerWrites
<1>2. SoundTypes /\ Phase
  BY DEF SoundInv
<1>3. FilledAgain \/ Stopping
  BY <1>1, <1>2, QueuesSay
<1>4. Detection'
  BY <1>1, SameCard DEF SoundInv
<1>5. HeardRight' /\ NowAt' = NowAt /\ (Quiet => Quiet')
  BY <1>1 DEF SoundInv, HeardRight, NowAt, Quiet
<1>6. dsp \in DspType /\ dma \in [addr : Nat, count : Nat, masked : BOOLEAN] /\ line \in BOOLEAN
  BY <1>2 DEF SoundTypes, DspType
<1>7. ASSUME dsp' \in DspType, dma' \in [addr : Nat, count : Nat, masked : BOOLEAN], line' \in BOOLEAN
      PROVE  SoundTypes'
  BY <1>1, <1>2, <1>7 DEF SoundTypes, DspType, detected
<1>8. CASE Stopping
  <2>1. NowAt > 0 /\ Len(heard) = NowAt /\ Quiet /\ DspFree /\ ~edge /\ dsp.left = 0 /\ asked = "stop"
    BY <1>8 DEF Stopping
  <2>2. PICK b \in {"END_DMA8", "DISABLE_OUTPUT"} :
             Head(intrq) = Byte_(b) /\ intrq' \in { Dsp(<< "DISABLE_OUTPUT" >>), << >> }
    <3>1. "END_DMA8" \in Codes \cup Nat /\ "DISABLE_OUTPUT" \in Codes \cup Nat
      BY DEF Codes
    <3>2. CASE intrq = Dsp(<< "END_DMA8", "DISABLE_OUTPUT" >>)
      <4>1. Head(intrq) = Byte_("END_DMA8") /\ Tail(intrq) = Dsp(<< "DISABLE_OUTPUT" >>)
        BY <3>1, <3>2, TwoBytes
      <4> QED
        BY <1>1, <4>1
    <3>3. CASE intrq = Dsp(<< "DISABLE_OUTPUT" >>)
      <4>1. Head(intrq) = Byte_("DISABLE_OUTPUT") /\ Tail(intrq) = << >>
        BY <3>1, <3>3, OneByte
      <4> QED
        BY <1>1, <4>1
    <3> QED
      BY <1>1, <1>8, <3>2, <3>3 DEF Stopping
  <2>3. dsp' = DspReads(b) /\ dma' = dma /\ line' = line
    <3>1. PortWrite(Byte_(b))
      BY <1>1, <2>2
    <3> QED
      BY <1>6, <3>1, WritesByte
  <2>4. Reads(dsp', "none", << >>, 0)
    <3>1. dsp.cmd = "none" /\ dsp.args = << >>
      BY <2>1 DEF DspFree
    <3> QED
      BY <1>6, <2>1, <2>3, <3>1, ReadsAlone
  <2>5. SoundTypes'
    BY <1>6, <1>7, <2>3, <2>4 DEF Reads
  <2>6. Stopping'
    BY <1>1, <1>5, <2>1, <2>2, <2>4 DEF Stopping, Reads, DspFree
  <2> QED
    BY <1>4, <1>5, <2>5, <2>6 DEF SoundInv, Phase
<1>9. CASE FilledAgain
  <2>1. NowAt > 1 /\ Len(heard) = NowAt - 1 /\ Quiet /\ ~edge
    BY <1>9 DEF FilledAgain
  <2>2. PICK n \in Lengths : chunk[NowAt] = n
    <3>1. Len(chunk) \in Nat
      BY <1>2 DEF SoundTypes
    <3>2. NowAt > 0
      BY <2>1, <3>1 DEF NowAt
    <3>3. chunk[NowAt] \in Lengths
      BY <1>2, <3>2, LastChunk
    <3> QED
      BY <3>3
  <2>3. chunk'[NowAt'] = n
    BY <1>1, <1>5, <2>2
  <2>4. Ack \in Seq(PortWrites)
    BY DEF Ack, PortWrites
  <2>5. CASE intrq = Ack /\ DspFree /\ HasAll(n)
    <3>1. Head(intrq) = [to |-> "ack", byte |-> 0] /\ intrq' = << >>
      BY <1>1, <2>5 DEF Ack
    <3>2. dsp' = dsp /\ dma' = dma
      BY <1>1, <3>1 DEF PortWrite
    <3>3. ~line' /\ line' \in BOOLEAN
      <4>1. line' = (line /\ Head(intrq).to # "ack")
        BY <1>1 DEF PortWrite
      <4>2. Head(intrq).to = "ack"
        BY <3>1
      <4>3. line' = FALSE
        BY <4>1, <4>2, Zenon
      <4> QED
        BY <4>3
    <3>4. SoundTypes'
      BY <1>6, <1>7, <3>2, <3>3
    <3>5. DspFree' /\ HasAll(n)'
      BY <2>5, <3>2 DEF DspFree, HasAll
    <3>6. Playing'
      <4>1. HasAll(chunk[NowAt])'
        BY <2>3, <3>5
      <4>2. NowAt' > 0
        <5>1. NowAt \in Nat
          BY <1>2 DEF SoundTypes, NowAt
        <5> QED
          BY <1>5, <2>1, <5>1
      <4>3. Len(heard') = NowAt' - 1 /\ Quiet' /\ intrq' = << >> /\ ~edge'
        BY <1>1, <1>5, <2>1, <3>1
      <4> QED
        BY <3>3, <3>5, <4>1, <4>2, <4>3 DEF Playing
    <3> QED
      BY <1>4, <1>5, <3>4, <3>6 DEF SoundInv, Phase
  <2>6. CASE dsp.left = 0 /\ Transfers(intrq, n, Ack)
    <3>1. PICK k \in 1 .. 8 : intrq = Left(start_dma_transfer(n), k) \o Ack /\ Written(n, k)
      BY <2>6 DEF Transfers
    <3>2. Head(intrq) = start_dma_transfer(n)[k]
          /\ Tail(intrq) = IF k = 8 THEN Ack ELSE Left(start_dma_transfer(n), k + 1) \o Ack
      BY <2>4, <3>1, TransferFirst
    <3>3. PortWrite(start_dma_transfer(n)[k])
      BY <1>1, <3>2
    <3>4. /\ dsp' \in DspType /\ dma' \in [addr : Nat, count : Nat, masked : BOOLEAN] /\ line' = line
          /\ k < 8 => Written(n, k + 1)' /\ dsp'.left = 0
          /\ k = 8 => DspFree' /\ HasAll(n)'
      BY <1>2, <2>6, <3>1, <3>3, TransferStep
    <3>5. SoundTypes'
      BY <1>6, <1>7, <3>4
    <3>6. CASE k = 8
      <4>1. intrq' = Ack /\ DspFree' /\ HasAll(n)'
        BY <1>1, <3>2, <3>4, <3>6
      <4>2. FilledAgain'
        BY <1>1, <1>5, <2>1, <2>3, <4>1 DEF FilledAgain
      <4> QED
        BY <1>4, <1>5, <3>5, <4>2 DEF SoundInv, Phase
    <3>7. CASE k < 8
      <4>1. Transfers(intrq, n, Ack)' /\ dsp'.left = 0
        <5> DEFINE j == k + 1
        <5>1. j \in 1 .. 8 /\ k # 8
          BY <3>7
        <5>2. intrq' = Left(start_dma_transfer(n), j) \o Ack
          BY <1>1, <3>2, <5>1
        <5>3. Written(n, j)' /\ dsp'.left = 0
          BY <3>4, <3>7
        <5> HIDE DEF j
        <5>4. \E i \in 1 .. 8 : intrq' = Left(start_dma_transfer(n), i) \o Ack /\ Written(n, i)'
          BY <5>1, <5>2, <5>3, Zenon
        <5> QED
          BY <5>3, <5>4, Zenon DEF Transfers
      <4>2. FilledAgain'
        BY <1>1, <1>5, <2>1, <2>3, <4>1 DEF FilledAgain
      <4> QED
        BY <1>4, <1>5, <3>5, <4>2 DEF SoundInv, Phase
    <3> QED
      BY <3>6, <3>7
  <2> QED
    BY <1>9, <2>2, <2>5, <2>6 DEF FilledAgain
<1> QED
  BY <1>3, <1>8, <1>9

(* A write of the main thread *)
LEMMA MainWritesStep ==
  ASSUME SoundInv, MainWrites
  PROVE  SoundInv'
<1>1. intrq = << >> /\ mainq # << >> /\ PortWrite(Head(mainq)) /\ mainq' = Tail(mainq)
      /\ UNCHANGED << detected, edge, intrq, chunk, heard, calls, asked >>
  BY DEF MainWrites
<1>2. SoundTypes /\ Phase
  BY DEF SoundInv
<1>3. NotYet \/ Starting \/ Playing \/ Ended \/ Stopping
  <2>1. ~FilledAgain
    BY <1>1, <1>2, QueuesSay
  <2> QED
    BY <1>2, <2>1 DEF Phase
<1>4. Detection'
  BY <1>1, SameCard DEF SoundInv
<1>5. HeardRight' /\ NowAt' = NowAt
  BY <1>1 DEF SoundInv, HeardRight, NowAt
<1>6. dsp \in DspType /\ dma \in [addr : Nat, count : Nat, masked : BOOLEAN] /\ line \in BOOLEAN
  BY <1>2 DEF SoundTypes, DspType
<1>7. ASSUME dsp' \in DspType, dma' \in [addr : Nat, count : Nat, masked : BOOLEAN], line' \in BOOLEAN
      PROVE  SoundTypes'
  BY <1>1, <1>2, <1>7 DEF SoundTypes, DspType, detected
<1>8. CASE ~Starting
  <2>1. Quiet /\ DspFree
    BY <1>3, <1>8 DEF NotYet, Playing, Ended, Stopping
  <2>2. mainq' = << >> /\ dsp' \in DspType /\ DspFree' /\ dsp'.left = dsp.left /\ dma' = dma /\ line' = line
    BY <1>1, <1>2, <2>1, QuietStep
  <2>3. SoundTypes'
    BY <1>6, <1>7, <2>2
  <2>4. Quiet'
    BY <2>2 DEF Quiet
  <2>5. Phase'
    <3>1. CASE NotYet
      BY <1>1, <2>2, <2>4, <3>1 DEF NotYet, Phase
    <3>2. CASE Playing
      BY <1>1, <1>5, <2>2, <2>4, <3>2 DEF Playing, Phase, HasAll
    <3>3. CASE Ended
      BY <1>1, <1>5, <2>2, <2>4, <3>3 DEF Ended, Phase
    <3>4. CASE Stopping
      BY <1>1, <1>5, <2>2, <2>4, <3>4 DEF Stopping, Phase
    <3> QED
      BY <1>3, <1>8, <3>1, <3>2, <3>3, <3>4
  <2> QED
    BY <1>4, <1>5, <2>3, <2>5 DEF SoundInv
<1>9. CASE Starting
  <2>1. NowAt = 1 /\ heard = << >> /\ dsp.left = 0 /\ ~edge /\ ~line
    BY <1>9 DEF Starting
  <2>2. PICK n \in Lengths : chunk[1] = n
    <3>1. chunk[NowAt] \in Lengths
      BY <1>2, <2>1, LastChunk
    <3> QED
      BY <2>1, <3>1
  <2>3. SetsUp(n) \/ Transfers(mainq, n, << >>)
    BY <1>9, <2>2 DEF Starting
  <2>4. chunk'[1] = n /\ chunk' = chunk /\ heard' = heard /\ intrq' = << >> /\ ~edge'
    BY <1>1, <2>1, <2>2
  <2>5. CASE SetsUp(n)
    <3>1. dsp' \in DspType /\ dma' = dma /\ line' = line /\ dsp'.left = 0 /\ (SetsUp(n)' \/ Transfers(mainq, n, << >>)')
      <4>1. Writes1(n)
        BY <1>1 DEF Writes1
      <4> QED
        BY <1>2, <2>1, <2>5, <4>1, SetupStep
    <3>2. SoundTypes'
      BY <1>6, <1>7, <3>1
    <3>3. Starting'
      BY <1>5, <2>1, <2>4, <3>1 DEF Starting
    <3> QED
      BY <1>4, <1>5, <3>2, <3>3 DEF SoundInv, Phase
  <2>6. CASE Transfers(mainq, n, << >>)
    <3> DEFINE none == << >>
    <3>0. none \in Seq(PortWrites)
      OBVIOUS
    <3>1. PICK k \in 1 .. 8 : mainq = Left(start_dma_transfer(n), k) \o none /\ Written(n, k)
      BY <2>6 DEF Transfers
    <3> HIDE DEF none
    <3>2. Head(mainq) = start_dma_transfer(n)[k]
          /\ Tail(mainq) = IF k = 8 THEN none ELSE Left(start_dma_transfer(n), k + 1) \o none
      BY <3>0, <3>1, TransferFirst
    <3>3. PortWrite(start_dma_transfer(n)[k])
      BY <1>1, <3>2
    <3>4. /\ dsp' \in DspType /\ dma' \in [addr : Nat, count : Nat, masked : BOOLEAN] /\ line' = line
          /\ k < 8 => Written(n, k + 1)' /\ dsp'.left = 0
          /\ k = 8 => DspFree' /\ HasAll(n)'
      BY <1>2, <2>1, <3>1, <3>3, TransferStep
    <3>5. SoundTypes'
      BY <1>6, <1>7, <3>4
    <3>6. CASE k = 8
      <4>1. mainq' = << >> /\ DspFree' /\ HasAll(n)'
        BY <1>1, <3>2, <3>4, <3>6 DEF none
      <4>2. Quiet'
        BY <4>1 DEF Quiet
      <4>3. HasAll(chunk[NowAt])'
        BY <1>5, <2>1, <2>4, <4>1
      <4>4. ~line' /\ Len(heard') = NowAt' - 1 /\ NowAt' > 0
        BY <1>5, <2>1, <2>4, <3>4
      <4>5. Playing'
        BY <2>4, <4>1, <4>2, <4>3, <4>4 DEF Playing
      <4> QED
        BY <1>4, <1>5, <3>5, <4>5 DEF SoundInv, Phase
    <3>7. CASE k < 8
      <4>1. Transfers(mainq, n, << >>)' /\ dsp'.left = 0
        <5> DEFINE j == k + 1
        <5>1. j \in 1 .. 8 /\ k # 8
          BY <3>7
        <5>2. mainq' = Left(start_dma_transfer(n), j) \o none
          BY <1>1, <3>2, <5>1
        <5>3. Written(n, j)' /\ dsp'.left = 0
          BY <3>4, <3>7
        <5> HIDE DEF j
        <5>4. \E i \in 1 .. 8 : mainq' = Left(start_dma_transfer(n), i) \o none /\ Written(n, i)'
          BY <5>1, <5>2, <5>3, Zenon
        <5> QED
          BY <5>3, <5>4, Zenon DEF Transfers, none
      <4>2. Starting'
        BY <1>5, <2>1, <2>4, <3>4, <4>1 DEF Starting
      <4> QED
        BY <1>4, <1>5, <3>5, <4>2 DEF SoundInv, Phase
    <3> QED
      BY <3>6, <3>7
  <2> QED
    BY <2>3, <2>5, <2>6
<1> QED
  BY <1>8, <1>9

(* The card has played a chunk *)
LEMMA PlaysStep ==
  ASSUME SoundInv, intrq = << >>, Plays
  PROVE  SoundInv'
<1>1. dsp.left > 0 /\ UNCHANGED << detected, mainq, intrq, chunk, calls, asked >>
      /\ heard' = Append(heard, [chunk |-> Len(chunk), len |-> dsp.left, from |-> dma.addr, given |-> dma.count + 1])
      /\ dsp' = [dsp EXCEPT !.left = 0] /\ dma' = [dma EXCEPT !.masked = TRUE]
      /\ edge' = (edge \/ ~line) /\ line' = TRUE
  BY DEF Plays
<1>2. SoundTypes /\ Phase
  BY DEF SoundInv
<1>3. dsp \in DspType /\ dma \in [addr : Nat, count : Nat, masked : BOOLEAN] /\ line \in BOOLEAN /\ edge \in BOOLEAN
  BY <1>2 DEF SoundTypes, DspType
<1>4. Playing
  <2>1. ~FilledAgain
    BY <1>2, QueuesSay
  <2>2. ~NotYet /\ ~Starting /\ ~Ended /\ ~Stopping
    BY <1>1 DEF NotYet, Starting, Ended, Stopping
  <2> QED
    BY <1>2, <2>1, <2>2 DEF Phase
<1>5. NowAt > 0 /\ Len(heard) = NowAt - 1 /\ Quiet /\ DspFree /\ ~edge /\ ~line /\ HasAll(chunk[NowAt])
  BY <1>4 DEF Playing
<1>6. Detection'
  BY <1>1, SameCard DEF SoundInv
<1>7. NowAt \in Nat /\ NowAt' = NowAt /\ chunk[NowAt] \in Lengths
  BY <1>1, <1>2, <1>5, LastChunk DEF NowAt
<1> DEFINE n == chunk[NowAt]
           new == [chunk |-> NowAt, len |-> n, from |-> BUFFER, given |-> n]
           Heards == [chunk : Nat, len : Nat, from : Nat, given : Nat]
<1>8. n \in Nat
  <2>1. \A k \in Lengths : k \in Nat
    BY LengthFacts
  <2> QED
    BY <1>7, <2>1
<1>9. heard' = Append(heard, new)
  <2>1. dma.count + 1 = n /\ dma.addr = BUFFER /\ dsp.left = n
    BY <1>5, <1>8 DEF HasAll
  <2> QED
    BY <1>1, <2>1 DEF NowAt
<1>10. new \in Heards
  BY <1>7, <1>8 DEF BUFFER
<1>11. heard \in Seq(Heards)
  BY <1>2 DEF SoundTypes
<1> HIDE DEF n, new, Heards
<1>12. heard' \in Seq(Heards) /\ Len(heard') = NowAt /\ heard'[NowAt] = new
       /\ \A k \in 1 .. Len(heard) : heard'[k] = heard[k]
  <2>1. Append(heard, new) \in Seq(Heards) /\ Len(Append(heard, new)) = Len(heard) + 1
        /\ Append(heard, new)[Len(heard) + 1] = new /\ \A k \in 1 .. Len(heard) : Append(heard, new)[k] = heard[k]
    BY <1>10, <1>11, AppendProperties
  <2>2. Len(heard) + 1 = NowAt
    BY <1>5, <1>7
  <2> QED
    BY <1>9, <2>1, <2>2
<1>13. HeardRight'
  <2>1. ASSUME NEW k \in 1 .. NowAt
        PROVE  heard'[k] = [chunk |-> k, len |-> chunk[k], from |-> BUFFER, given |-> chunk[k]]
    <3>1. CASE k = NowAt
      BY <1>12, <3>1 DEF new, n
    <3>2. CASE k # NowAt
      <4>1. k \in 1 .. Len(heard)
        BY <1>5, <1>7, <3>2
      <4> QED
        BY <1>12, <4>1 DEF SoundInv, HeardRight
    <3> QED
      BY <3>1, <3>2
  <2> QED
    BY <1>1, <1>12, <2>1 DEF HeardRight
<1>14. SoundTypes'
  <2>1. dsp' \in DspType /\ dma' \in [addr : Nat, count : Nat, masked : BOOLEAN]
    BY <1>1, <1>3 DEF DspType
  <2>2. edge' \in BOOLEAN /\ line' \in BOOLEAN
    BY <1>1, <1>3
  <2>3. chunk' \in Seq(Chunks) /\ snd' \in {"off", "ready", "none", "failed"}
    BY <1>1, <1>2 DEF SoundTypes, detected
  <2> QED
    BY <1>12, <2>1, <2>2, <2>3 DEF SoundTypes, DspType, Heards
<1>15. Ended'
  <2>1. edge'
    BY <1>1, <1>5
  <2>2. DspFree' /\ dsp'.left = 0
    BY <1>1, <1>3, <1>5 DEF DspFree, DspType
  <2>3. Quiet' /\ line' /\ intrq' = << >>
    BY <1>1, <1>5 DEF Quiet
  <2>4. NowAt' > 0 /\ Len(heard') = NowAt'
    BY <1>5, <1>7, <1>12
  <2> QED
    BY <2>1, <2>2, <2>3, <2>4 DEF Ended
<1> QED
  BY <1>6, <1>13, <1>14, <1>15 DEF SoundInv, Phase

(* A step that leaves the hardware, the queues and the chunks alone *)
LEMMA SamePhase ==
  ASSUME Phase, UNCHANGED << hardware, edge, mainq, intrq, chunk, heard, asked >>
  PROVE  Phase'
<1>1. /\ dma' = dma /\ dsp' = dsp /\ line' = line /\ edge' = edge /\ mainq' = mainq /\ intrq' = intrq
      /\ chunk' = chunk /\ heard' = heard /\ asked' = asked
  BY DEF hardware
<1>2. CASE NotYet
  BY <1>1, <1>2 DEF Phase, NotYet, Quiet, DspFree
<1>3. CASE Starting
  <2>1. CASE SetsUp(chunk[1])
    <3>1. SetsUp(chunk[1])'
      <4>1. \A b, e, a, n : Waits(b, e, a, n) => mainq' = Dsp(b) \o start_dma_transfer(n) /\ dsp'.cmd = e /\ dsp'.args = a
        BY <1>1 DEF Waits
      <4>2. \A b, e, a, n : Waits(b, e, a, n) => Waits(b, e, a, n)'
        BY <4>1 DEF Waits
      <4>3. chunk'[1] = chunk[1]
        BY <1>1
      <4> QED
        BY <2>1, <4>2, <4>3 DEF SetsUp
    <3>2. NowAt' = 1 /\ heard' = << >> /\ intrq' = << >> /\ dsp'.left = 0 /\ ~edge' /\ ~line'
      BY <1>1, <1>3 DEF Starting, NowAt
    <3>3. Starting'
      BY <3>1, <3>2, Zenon DEF Starting
    <3> QED
      BY <3>3 DEF Phase
  <2>2. CASE Transfers(mainq, chunk[1], << >>)
    <3>1. Transfers(mainq, chunk[1], << >>)'
      BY <1>1, <2>2 DEF Transfers, Written
    <3> QED
      BY <1>1, <1>3, <3>1 DEF Phase, Starting, NowAt
  <2> QED
    BY <1>3, <2>1, <2>2 DEF Starting
<1>4. CASE Playing
  BY <1>1, <1>4 DEF Phase, Playing, Quiet, DspFree, HasAll, NowAt
<1>5. CASE Ended
  BY <1>1, <1>5 DEF Phase, Ended, Quiet, DspFree, NowAt
<1>6. CASE FilledAgain
  <2>1. NowAt' = NowAt /\ Quiet'
    BY <1>1, <1>6 DEF FilledAgain, NowAt, Quiet
  <2>2. CASE dsp.left = 0 /\ Transfers(intrq, chunk[NowAt], Ack)
    <3>1. Transfers(intrq, chunk[NowAt], Ack)'
      <4>1. PICK n : n = chunk[NowAt]
        OBVIOUS
      <4>2. chunk'[NowAt'] = n
        BY <1>1, <2>1, <4>1
      <4>3. Transfers(intrq, n, Ack)'
        <5>1. Transfers(intrq, n, Ack)
          BY <2>2, <4>1
        <5>2. PICK k \in 1 .. 8 : intrq = Left(start_dma_transfer(n), k) \o Ack /\ Written(n, k)
          BY <5>1 DEF Transfers
        <5>3. intrq' = Left(start_dma_transfer(n), k) \o Ack /\ Written(n, k)'
          BY <1>1, <5>2 DEF Written
        <5>4. \E i \in 1 .. 8 : intrq' = Left(start_dma_transfer(n), i) \o Ack /\ Written(n, i)'
          BY <5>3
        <5> QED
          BY <5>4, Zenon DEF Transfers
      <4> QED
        BY <4>2, <4>3
    <3> QED
      BY <1>1, <1>6, <2>1, <2>2, <3>1 DEF Phase, FilledAgain
  <2>3. CASE intrq = Ack /\ DspFree /\ HasAll(chunk[NowAt])
    BY <1>1, <1>6, <2>1, <2>3 DEF Phase, FilledAgain, DspFree, HasAll
  <2> QED
    BY <1>6, <2>2, <2>3 DEF FilledAgain
<1>7. CASE Stopping
  BY <1>1, <1>7 DEF Phase, Stopping, Quiet, DspFree, NowAt
<1> QED
  BY <1>2, <1>3, <1>4, <1>5, <1>6, <1>7 DEF Phase

(* Each step keeps SoundInv *)
LEMMA SoundStep ==
  ASSUME SoundInv, StepOf(soundVars, SoundNext), CardsTaken
  PROVE  SoundInv'
<1>1. CASE sb_detect
  <2>1. UNCHANGED << hardware, edge, mainq, intrq, chunk, heard, calls, asked >>
        /\ snd' \in {"ready", "none", "failed"}
    BY <1>1 DEF sb_detect
  <2>2. Detection'
    BY <1>1, DetectStep
  <2>3. SoundTypes' /\ HeardRight'
    BY <2>1 DEF SoundInv, SoundTypes, HeardRight, hardware
  <2>4. Phase'
    BY <2>1, SamePhase DEF SoundInv
  <2> QED
    BY <2>2, <2>3, <2>4 DEF SoundInv
<1>2. CASE UNCHANGED soundVars
  <2>1. UNCHANGED << detected, hardware, edge, mainq, intrq, chunk, heard, calls, asked >>
    BY <1>2 DEF soundVars, detected, hardware
  <2>2. Detection'
    BY <2>1, SameCard DEF SoundInv
  <2>3. SoundTypes' /\ HeardRight'
    BY <2>1 DEF SoundInv, SoundTypes, HeardRight, hardware, detected
  <2>4. Phase'
    BY <2>1, SamePhase DEF SoundInv
  <2> QED
    BY <2>2, <2>3, <2>4 DEF SoundInv
<1> QED
  BY <1>1, <1>2, StartStep, CallStep, HandlerStep, HandlerWritesStep, MainWritesStep, PlaysStep DEF StepOf, SoundNext

(* SoundInv holds at first: nothing is asked, written or played *)
LEMMA SoundStarts ==
  ASSUME Init
  PROVE  SoundInv
<1>1. SoundInit(Given("sound", Cards, Some.cards))
  BY DEF Init
<1>2. Given("sound", Cards, Some.cards) \subseteq Cards
  <2>1. Some.cards \in Cards
    BY SoundAssumption DEF Some, One
  <2> QED
    BY <2>1 DEF Given
<1>3. /\ snd = "off" /\ card \in Cards /\ dma = [addr |-> 0, count |-> 0, masked |-> TRUE] /\ dsp = Silent
      /\ line = FALSE /\ edge = FALSE /\ mainq = << >> /\ intrq = << >> /\ chunk = << >> /\ heard = << >>
  BY <1>1, <1>2 DEF SoundInit
<1>4. SoundTypes /\ HeardRight
  <2> DEFINE Heards == [chunk : Nat, len : Nat, from : Nat, given : Nat]
  <2>1. chunk \in Seq(Chunks) /\ heard \in Seq(Heards) /\ Len(heard) = 0
    BY <1>3
  <2>2. dsp \in [cmd : Codes \cup {"none"}, args : Seq(Nat), left : Nat, paused : BOOLEAN]
    <3>1. << >> \in Seq(Nat)
      OBVIOUS
    <3> QED
      BY <1>3, <3>1 DEF Silent
  <2>3. dma \in [addr : Nat, count : Nat, masked : BOOLEAN] /\ edge \in BOOLEAN /\ line \in BOOLEAN
    BY <1>3
  <2>4. SoundTypes
    BY <1>3, <2>1, <2>2, <2>3 DEF SoundTypes
  <2>5. HeardRight
    <3>1. 1 .. Len(heard) = {}
      BY <2>1
    <3> QED
      BY <3>1 DEF HeardRight
  <2> QED
    BY <2>4, <2>5
<1>5. Detection
  BY <1>3 DEF Detection, CardRight
<1>6. NotYet
  BY <1>3 DEF NotYet, Quiet, DspFree, Silent
<1> QED
  BY <1>4, <1>5, <1>6 DEF SoundInv, Phase

(* What the DSP keeps as parameters are bytes *)
LEMMA BytesAreBytes ==
  ASSUME SoundInv
  PROVE  \A k \in DOMAIN dsp.args : dsp.args[k] \in 0 .. 255
<1>1. SoundTypes /\ Phase
  BY DEF SoundInv
<1>2. CASE DspFree
  BY <1>2 DEF DspFree
<1>3. ASSUME NEW n \in Lengths, NEW k \in 1 .. 8, Written(n, k)
      PROVE  \A i \in DOMAIN dsp.args : dsp.args[i] \in 0 .. 255
  <2> DEFINE lo == (n - 1) % 256
  <2>1. lo \in 0 .. 255
    <3> DEFINE m == n - 1
    <3>1. m \in Nat
      BY LengthFacts
    <3> HIDE DEF m
    <3>2. m % 256 \in 0 .. 255
      BY <3>1
    <3> QED
      BY <3>2 DEF m
  <2>2. MODE \in 0 .. 255
    BY DEF MODE
  <2>3. dsp.args = << >> \/ dsp.args = << MODE >> \/ dsp.args = << MODE, lo >>
    BY <1>3 DEF Written
  <2> HIDE DEF lo
  <2>4. CASE dsp.args = << >>
    BY <2>4
  <2>5. CASE dsp.args = << MODE >>
    <3> DEFINE t == << MODE >>
    <3>1. DOMAIN t = {1} /\ t[1] = MODE
      OBVIOUS
    <3> HIDE DEF t
    <3>2. dsp.args = t
      BY <2>5 DEF t
    <3> QED
      BY <2>2, <3>1, <3>2
  <2>6. CASE dsp.args = << MODE, lo >>
    <3> DEFINE t == << MODE, lo >>
    <3>1. DOMAIN t = {1, 2} /\ t[1] = MODE /\ t[2] = lo
      OBVIOUS
    <3> HIDE DEF t
    <3>2. dsp.args = t
      BY <2>6 DEF t
    <3> QED
      BY <2>1, <2>2, <3>1, <3>2
  <2> QED
    BY <2>3, <2>4, <2>5, <2>6
<1>4. CASE \E n : SetsUp(n)
  <2>1. dsp.args = << >> \/ dsp.args = << 172 >>
    BY <1>4 DEF SetsUp, Waits
  <2>2. CASE dsp.args = << >>
    BY <2>2
  <2>3. CASE dsp.args = << 172 >>
    <3> DEFINE t == << 172 >>
    <3>1. DOMAIN t = {1} /\ t[1] = 172
      OBVIOUS
    <3> HIDE DEF t
    <3>2. dsp.args = t
      BY <2>3 DEF t
    <3> QED
      BY <3>1, <3>2
  <2> QED
    BY <2>1, <2>2, <2>3
<1>5. CASE Starting /\ ~SetsUp(chunk[1])
  <2>1. Transfers(mainq, chunk[1], << >>) /\ NowAt = 1
    BY <1>5 DEF Starting
  <2>2. PICK n \in Lengths : n = chunk[1]
    <3>1. chunk[NowAt] \in Lengths
      BY <1>1, <2>1, LastChunk
    <3> QED
      BY <2>1, <3>1
  <2>3. PICK k \in 1 .. 8 : Written(n, k)
    BY <2>1, <2>2 DEF Transfers
  <2> QED
    BY <1>3, <2>3
<1>6. CASE FilledAgain /\ ~DspFree
  <2>1. Transfers(intrq, chunk[NowAt], Ack) /\ NowAt > 1
    BY <1>6 DEF FilledAgain
  <2>2. PICK n \in Lengths : n = chunk[NowAt]
    <3>1. Len(chunk) \in Nat
      BY <1>1 DEF SoundTypes
    <3>2. NowAt > 0
      BY <2>1, <3>1 DEF NowAt
    <3>3. chunk[NowAt] \in Lengths
      BY <1>1, <3>2, LastChunk
    <3> QED
      BY <3>3
  <2>3. PICK k \in 1 .. 8 : Written(n, k)
    BY <2>1, <2>2 DEF Transfers
  <2> QED
    BY <1>3, <2>3
<1>7. DspFree \/ Starting \/ FilledAgain
  BY <1>1 DEF Phase, NotYet, Playing, Ended, Stopping
<1> QED
  BY <1>2, <1>4, <1>5, <1>6, <1>7

(* SoundInv implies the property *)
LEMMA SoundFollows ==
  ASSUME SoundInv
  PROVE  SoundRight
<1>1. SoundTypes /\ Phase
  BY DEF SoundInv
<1>2. snd = "ready" /\ card.major >= 4 => dma_chan \in card.dmasel /\ \E i \in card.irqsel : irq = irqtab[i + 1]
  BY DEF SoundInv, Detection, CardRight
<1>3. \A k \in DOMAIN heard : heard[k] = [chunk |-> k, len |-> chunk[k], from |-> BUFFER, given |-> chunk[k]]
  <2>1. DOMAIN heard = 1 .. Len(heard)
    BY <1>1 DEF SoundTypes
  <2> QED
    BY <2>1 DEF SoundInv, HeardRight
<1>4. chunk # << >> /\ asked # "stop" /\ mainq = << >> /\ intrq = << >> => dsp.left > 0 \/ edge
  <2> SUFFICES ASSUME chunk # << >>, asked # "stop", mainq = << >>, intrq = << >>
               PROVE  dsp.left > 0 \/ edge
    OBVIOUS
  <2>1. ~Starting /\ ~FilledAgain
    BY <1>1, QueuesSay
  <2>2. ~NotYet /\ ~Stopping
    BY DEF NotYet, Stopping
  <2>3. CASE Ended
    BY <2>3 DEF Ended
  <2>4. CASE Playing
    <3>1. NowAt > 0 /\ dsp.left = chunk[NowAt]
      BY <2>4 DEF Playing, HasAll
    <3>2. chunk[NowAt] \in Lengths
      BY <1>1, <3>1, LastChunk
    <3>3. \A k \in Lengths : k > 0
      BY LengthFacts
    <3>4. chunk[NowAt] > 0
      BY <3>2, <3>3
    <3> QED
      BY <3>1, <3>4
  <2> QED
    BY <1>1, <2>1, <2>2, <2>3, <2>4 DEF Phase
<1> QED
  BY <1>2, <1>3, <1>4, BytesAreBytes DEF SoundRight

(* For every bus whose functions pci_enum_bus reaches, and every card whose *)
(* mixer selects what sb16_detect_dma takes it to: the devices that are     *)
(* there, and no others, are found under their names (some are found again, *)
(* see EachOnce); and when the program starts playing once and does not     *)
(* stop, and the handler is done before the chunk is, what the callback     *)
(* gave is played, all of it, once and in order, by the channel and the     *)
(* line that the card uses, and while the callback gives more the card      *)
(* plays it or interrupts.                                                  *)
THEOREM DevicesAreRight ==
  ASSUME AllReached, CardsTaken
  PROVE  Spec => []DevicesRight
<1>1. Init => PciInv /\ SoundInv
  BY PciStarts, SoundStarts
<1>2. PciInv /\ SoundInv /\ [Next]_vars => (PciInv /\ SoundInv)'
  <2> SUFFICES ASSUME PciInv, SoundInv, [Next]_vars
               PROVE  PciInv' /\ SoundInv'
    OBVIOUS
  <2>1. StepOf(pciVars, PciNext) /\ StepOf(soundVars, SoundNext)
    BY Alone DEF StepOf, vars
  <2> QED
    BY <2>1, PciStep, SoundStep
<1>3. PciInv /\ SoundInv => DevicesRight
  BY AllFound, SoundFollows DEF DevicesRight
<1> QED
  BY <1>1, <1>2, <1>3, PTL DEF Spec
=============================================================================
