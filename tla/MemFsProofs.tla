---------------------------- MODULE MemFsProofs -----------------------------
(***************************************************************************)
(* Proofs about the memory filesystem.                                     *)
(*                                                                         *)
(* A file and the programs that have it open (MemFile), for any number of  *)
(* programs, any bytes and any bounds.                                     *)
(*                                                                         *)
(* The directory tree (MemDir), for any number of nodes, names, paths and  *)
(* open handles.  Nodes are never reused, so that a node is linked to      *)
(* younger ones only, removed nodes included: no list ever runs in a circle.*)
(***************************************************************************)
EXTENDS MemFile, MemDir, SequenceTheorems, FiniteSetTheorems,
        WellFoundedInduction, TLAPS

Stored == Bytes \union {Unwritten}

(* The state of the file, and of its handles: removed only when none is     *)
(* open, and never read behind its end                                      *)
FileOK ==
  /\ data \in Seq(Stored) /\ size \in 0 .. Len(data) /\ freed \in BOOLEAN
  /\ size > 0 => Len(data) < 2 * size
  /\ size = 0 => Len(data) = 0
  /\ \A i \in 1 .. Len(data) : i > size => data[i] = Unwritten
HandlesOK ==
  /\ cur_pos \in [Programs -> {Closed} \union Nat]
  /\ mode \in [Programs -> SUBSET {"WRITE"}] /\ status \in [Programs -> SUBSET {"EOF", "ERR"}]
  /\ \A p \in Programs : cur_pos[p] = Closed => mode[p] = {} /\ status[p] = {}
  /\ freed => \A p \in Programs : cur_pos[p] = Closed
IInv == FileOK /\ HandlesOK /\ wild = FALSE

-----------------------------------------------------------------------------
(* A set of natural numbers has a least one *)
LEMMA Least ==
  ASSUME NEW T \in SUBSET Nat, T # {}
  PROVE  \E m \in T : \A n \in T : m <= n
<1> DEFINE R == OpToRel(<, Nat)
<1>1. IsWellFoundedOn(R, Nat)
  BY NatLessThanWellFounded, Zenon
<1>2. \A x, y \in Nat : y < x => << y, x >> \in R
  BY Zenon DEF OpToRel
<1> HIDE DEF R
<1>3. \E x \in T : \A y \in T : ~(<< y, x >> \in R)
  BY <1>1, WFMin, Zenon
<1>4. PICK x \in T : \A y \in T : ~(<< y, x >> \in R)
  BY <1>3
<1>5. ASSUME NEW y \in T
      PROVE  x <= y
  <2>1. x \in Nat /\ y \in Nat
    OBVIOUS
  <2>2. ~(y < x)
    BY <1>2, <1>4, <2>1
  <2>. QED BY <2>1, <2>2
<1>. QED BY <1>5
-----------------------------------------------------------------------------
(* The size of the block, and what a write leaves in it *)
LEMMA GrownFacts ==
  ASSUME FileOK, NEW total \in Nat
  PROVE  /\ Grown(total) \in Nat /\ Grown(total) >= total /\ Grown(total) >= Len(data)
         /\ Grown(total) # Len(data) => total > Len(data) /\ Grown(total) < 2 * total
<1>1. Len(data) \in Nat
  BY DEF FileOK
<1>2. CASE total <= Len(data)
  BY <1>1, <1>2 DEF Grown, max_size
<1>3. CASE ~(total <= Len(data)) /\ total < 2 * Len(data)
  BY <1>1, <1>3 DEF Grown, max_size
<1>4. CASE ~(total <= Len(data)) /\ ~(total < 2 * Len(data))
  BY <1>1, <1>4 DEF Grown, max_size
<1>. QED BY <1>2, <1>3, <1>4

LEMMA WritesAreSeqs ==
  ASSUME NEW s \in Writes
  PROVE  /\ s \in Seq(Bytes) /\ Len(s) \in Nat /\ DOMAIN s = 1 .. Len(s)
         /\ \A i \in 1 .. Len(s) : s[i] \in Bytes
         /\ s \in SeqOf(Bytes, MaxIO)
<1>1. PICK n \in 0 .. MaxIO : s \in [1 .. n -> Bytes]
  BY DEF Writes
<1>2. MaxIO \in Nat /\ n \in Nat
  BY MemFileAssumption
<1>3. s \in Seq(Bytes)
  BY <1>1, <1>2
<1>. QED BY <1>1, <1>2, <1>3 DEF SeqOf

(* the block after a write of s at position at *)
LEMMA PutFacts ==
  ASSUME FileOK, NEW len \in Nat, NEW at \in Nat, NEW s \in Seq(Bytes), len >= Len(data), at + Len(s) <= len
  PROVE  LET new == Put(Block(len), at, s) IN
         /\ new \in Seq(Stored) /\ Len(new) = len
         /\ \A i \in 1 .. len : new[i] = IF i \in at + 1 .. at + Len(s) THEN s[i - at]
                                         ELSE IF i <= Len(data) THEN data[i] ELSE Unwritten
<1> DEFINE block == Block(len)
           new == Put(block, at, s)
           value(i) == IF i \in at + 1 .. at + Len(s) THEN s[i - at]
                       ELSE IF i <= Len(data) THEN data[i] ELSE Unwritten
<1>1. DOMAIN block = 1 .. len /\ \A i \in 1 .. len : block[i] = IF i <= Len(data) THEN data[i] ELSE Unwritten
  BY DEF Block, max_size
<1> HIDE DEF block
<1>2. new = [i \in 1 .. len |-> value(i)]
  BY <1>1 DEF Put
<1>3. \A i \in 1 .. len : value(i) \in Stored
  <2> SUFFICES ASSUME NEW i \in 1 .. len PROVE value(i) \in Stored
    OBVIOUS
  <2>1. CASE i \in at + 1 .. at + Len(s)
    <3>1. i - at \in 1 .. Len(s)
      BY <2>1
    <3>. QED BY <2>1, <3>1 DEF Stored
  <2>2. CASE i \notin at + 1 .. at + Len(s) /\ i <= Len(data)
    BY <2>2 DEF FileOK
  <2>3. CASE i \notin at + 1 .. at + Len(s) /\ ~(i <= Len(data))
    BY <2>3 DEF Stored
  <2>. QED BY <2>1, <2>2, <2>3
<1> HIDE DEF value
<1>4. new \in Seq(Stored) /\ Len(new) = len
  BY <1>2, <1>3
<1>5. \A i \in 1 .. len : new[i] = value(i)
  BY <1>2
<1>. QED BY <1>4, <1>5 DEF block, value

-----------------------------------------------------------------------------
(* Calls that leave the file alone *)
LEMMA FileUnchanged ==
  ASSUME FileOK, UNCHANGED file
  PROVE  FileOK'
BY DEF FileOK, file

LEMMA SetHandle ==
  ASSUME IInv, NEW p \in Programs, UNCHANGED << file, wild >>,
         NEW at \in {Closed} \union Nat, cur_pos' = [cur_pos EXCEPT ![p] = at],
         NEW flags \in SUBSET {"WRITE"}, mode' = [mode EXCEPT ![p] = flags],
         NEW st \in SUBSET {"EOF", "ERR"}, status' = [status EXCEPT ![p] = st],
         at = Closed => flags = {} /\ st = {},
         at # Closed => ~freed
  PROVE  IInv'
<1>1. FileOK' /\ wild' = FALSE /\ freed' = freed
  BY FileUnchanged DEF IInv, file
<1>2. /\ cur_pos' \in [Programs -> {Closed} \union Nat]
      /\ mode' \in [Programs -> SUBSET {"WRITE"}] /\ status' \in [Programs -> SUBSET {"EOF", "ERR"}]
  BY DEF IInv, HandlesOK
<1>3. cur_pos'[p] = at /\ mode'[p] = flags /\ status'[p] = st
  BY DEF IInv, HandlesOK
<1>4. \A q \in Programs \ {p} : cur_pos'[q] = cur_pos[q] /\ mode'[q] = mode[q] /\ status'[q] = status[q]
  BY DEF IInv, HandlesOK
<1>5. \A q \in Programs : cur_pos[q] = Closed => mode[q] = {} /\ status[q] = {}
  BY DEF IInv, HandlesOK
<1>6. freed => \A q \in Programs : cur_pos[q] = Closed
  BY DEF IInv, HandlesOK
<1>7. HandlesOK'
  BY <1>1, <1>2, <1>3, <1>4, <1>5, <1>6 DEF HandlesOK
<1>. QED BY <1>1, <1>7 DEF IInv

LEMMA OpenStep ==
  ASSUME IInv, NEW p \in Programs, Open(p)
  PROVE  IInv'
<1>1. PICK flags \in {{}, {"WRITE"}} : fopen(p, flags)
  BY DEF Open
<1>2. /\ cur_pos' = [cur_pos EXCEPT ![p] = 0] /\ mode' = [mode EXCEPT ![p] = flags]
      /\ status' = [status EXCEPT ![p] = {}] /\ UNCHANGED << file, wild >> /\ ~freed
  BY <1>1 DEF fopen
<1>3. flags \in SUBSET {"WRITE"} /\ {} \in SUBSET {"EOF", "ERR"} /\ 0 \in {Closed} \union Nat /\ 0 # Closed
  BY DEF Closed
<1>. QED BY <1>2, <1>3, SetHandle

LEMMA CloseStep ==
  ASSUME IInv, NEW p \in Programs, fclose(p)
  PROVE  IInv'
<1>1. /\ cur_pos' = [cur_pos EXCEPT ![p] = Closed] /\ mode' = [mode EXCEPT ![p] = {}]
      /\ status' = [status EXCEPT ![p] = {}] /\ UNCHANGED << file, wild >>
  BY DEF fclose
<1>2. {} \in SUBSET {"WRITE"} /\ {} \in SUBSET {"EOF", "ERR"} /\ Closed \in {Closed} \union Nat
  OBVIOUS
<1>. QED BY <1>1, <1>2, SetHandle

(* Calls that move the position of an open handle, or change its status *)
LEMMA HandleStep ==
  ASSUME IInv, NEW p \in Programs, cur_pos[p] # Closed, UNCHANGED << file, mode, wild >>,
         NEW at \in Nat, cur_pos' = [cur_pos EXCEPT ![p] = at],
         NEW st \in SUBSET {"EOF", "ERR"}, status' = [status EXCEPT ![p] = st]
  PROVE  IInv'
<1>1. at \in {Closed} \union Nat /\ at # Closed
  BY DEF Closed
<1>2. mode[p] \in SUBSET {"WRITE"} /\ mode' = [mode EXCEPT ![p] = mode[p]]
  BY DEF IInv, HandlesOK
<1>3. ~freed
  BY DEF IInv, HandlesOK
<1>. QED BY <1>1, <1>2, <1>3, SetHandle

LEMMA OpenPosition ==
  ASSUME IInv, NEW p \in Programs, cur_pos[p] # Closed
  PROVE  cur_pos[p] \in Nat /\ ~freed /\ size \in Nat /\ Len(data) \in Nat /\ size <= Len(data) /\ ~wild
BY DEF IInv, HandlesOK, FileOK

LEMMA SeekStep ==
  ASSUME IInv, NEW p \in Programs, Seek(p)
  PROVE  IInv' /\ cur_pos[p] # Closed
         /\ \E to \in 0 .. MaxPos : cur_pos' = [cur_pos EXCEPT ![p] = to]
         /\ UNCHANGED file /\ result' = None
<1>1. PICK o \in Offsets, w \in Whences : fseek(p, o, w)
  BY DEF Seek
<1>2. cur_pos[p] # Closed /\ NewPos(p, o, w) <= MaxPos
      /\ cur_pos' = [cur_pos EXCEPT ![p] = NewPos(p, o, w)]
      /\ status' = [status EXCEPT ![p] = @ \ {"EOF"}]
      /\ UNCHANGED << file, mode, wild >> /\ result' = None
  BY <1>1 DEF fseek, Opened
<1>3. NewPos(p, o, w) \in Nat
  <2>1. o \in Int /\ cur_pos[p] \in Nat /\ size \in Nat
    BY <1>2, OpenPosition, MemFileAssumption DEF Offsets
  <2>2. w \in {"SEEK_SET", "SEEK_CUR", "SEEK_END"}
    BY DEF Whences
  <2>. QED BY <2>1, <2>2 DEF NewPos
<1>4. status' = [status EXCEPT ![p] = status[p] \ {"EOF"}] /\ status[p] \ {"EOF"} \in SUBSET {"EOF", "ERR"}
  BY <1>2 DEF IInv, HandlesOK
<1>5. IInv'
  BY <1>2, <1>3, <1>4, HandleStep
<1>6. NewPos(p, o, w) \in 0 .. MaxPos
  BY <1>2, <1>3, MemFileAssumption
<1>. QED BY <1>2, <1>5, <1>6

(* A failed write, a refused one and clearerr *)
LEMMA NoticeStep ==
  ASSUME IInv, NEW p \in Programs, WriteRefused(p) \/ clearerr(p) \/ \E s \in Writes : WriteENOSPC(p, s)
  PROVE  IInv'
<1>1. UNCHANGED << file, cur_pos, mode, wild >> /\ cur_pos[p] # Closed
  BY DEF WriteRefused, clearerr, WriteENOSPC, Opened
<1>2. \E st \in SUBSET {"EOF", "ERR"} : status' = [status EXCEPT ![p] = st]
  <2>0. status \in [Programs -> SUBSET {"EOF", "ERR"}] /\ status[p] \in SUBSET {"EOF", "ERR"}
    BY DEF IInv, HandlesOK
  <2>1. CASE WriteRefused(p)
    <3>1. status' = [status EXCEPT ![p] = status[p] \union {"ERR"}]
      BY <2>1 DEF WriteRefused
    <3>. QED BY <2>0, <3>1
  <2>2. CASE clearerr(p)
    BY <2>2 DEF clearerr
  <2>3. CASE \E s \in Writes : WriteENOSPC(p, s)
    <3>1. status' = [status EXCEPT ![p] = status[p]]
      BY <2>0, <2>3 DEF WriteENOSPC
    <3>. QED BY <2>0, <3>1
  <2>. QED BY <2>1, <2>2, <2>3
<1>3. cur_pos' = [cur_pos EXCEPT ![p] = cur_pos[p]] /\ cur_pos[p] \in Nat
  BY <1>1, OpenPosition DEF IInv, HandlesOK
<1>. QED BY <1>1, <1>2, <1>3, HandleStep
-----------------------------------------------------------------------------
(* Reading.  Parts of the file *)
LEMMA PartFacts ==
  ASSUME FileOK, NEW a \in Nat, NEW b \in Nat, a <= b, b <= Len(data)
  PROVE  /\ SubSeq(data, a + 1, b) \in Seq(Stored) /\ Len(SubSeq(data, a + 1, b)) = b - a
         /\ \A i \in 1 .. b - a : SubSeq(data, a + 1, b)[i] = data[a + i]
<1>1. data \in Seq(Stored) /\ Len(data) \in Nat
  BY DEF FileOK
<1>2. a + 1 \in 1 .. Len(data) + 1 /\ b \in a .. Len(data) /\ b \in Int
  BY <1>1
<1>3. SubSeq(data, a + 1, b) = [i \in 1 .. b - a |-> data[a + i]]
  BY <1>1, <1>2
<1>4. \A i \in 1 .. b - a : a + i \in 1 .. Len(data) /\ data[a + i] \in Stored
  BY <1>1
<1>. QED BY <1>3, <1>4

LEMMA PartOfFile ==
  ASSUME FileOK, NEW a \in Nat, NEW b \in Nat, a <= b, b <= size
  PROVE  SubSeq(SubSeq(data, 1, size), a + 1, b) = SubSeq(data, a + 1, b)
<1> DEFINE whole == SubSeq(data, 1, size)
           part == SubSeq(data, a + 1, b)
           inner == SubSeq(whole, a + 1, b)
<1>1. size \in Nat /\ size <= Len(data) /\ Len(data) \in Nat
  BY DEF FileOK
<1>2. whole \in Seq(Stored) /\ Len(whole) = size /\ \A i \in 1 .. size : whole[i] = data[i]
  <2> DEFINE none == 0
  <2>1. none \in Nat /\ none <= size /\ none + 1 = 1 /\ size - none = size /\ \A i \in Int : none + i = i
    BY <1>1
  <2> HIDE DEF none
  <2>2. /\ SubSeq(data, none + 1, size) \in Seq(Stored) /\ Len(SubSeq(data, none + 1, size)) = size - none
        /\ \A i \in 1 .. size - none : SubSeq(data, none + 1, size)[i] = data[none + i]
    BY <1>1, <2>1, PartFacts
  <2>. QED BY <1>1, <2>1, <2>2
<1>3. part \in Seq(Stored) /\ Len(part) = b - a /\ \A i \in 1 .. b - a : part[i] = data[a + i]
  BY <1>1, PartFacts
<1> HIDE DEF whole, part
<1>4. inner = [i \in 1 .. b - a |-> whole[a + i]]
  BY <1>1, <1>2
<1>5. \A i \in 1 .. b - a : a + i \in 1 .. size
  BY <1>1
<1>6. inner \in Seq(Stored) /\ Len(inner) = b - a /\ \A i \in 1 .. b - a : inner[i] = data[a + i]
  <2>1. \A i \in 1 .. b - a : whole[a + i] = data[a + i] /\ whole[a + i] \in Stored
    BY <1>2, <1>5
  <2>2. \A i \in 1 .. b - a : inner[i] = whole[a + i]
    BY <1>4
  <2> HIDE DEF inner, whole
  <2>3. inner = [i \in 1 .. b - a |-> whole[a + i]]
    BY <1>4
  <2> DEFINE len == b - a
             item(i) == whole[a + i]
  <2>4. len \in Nat /\ \A i \in 1 .. len : item(i) \in Stored
    BY <2>1
  <2>6. inner = [i \in 1 .. len |-> item(i)]
    BY <2>3, Zenon
  <2> HIDE DEF len, item
  <2>5. inner \in Seq(Stored) /\ Len(inner) = len
    BY <2>4, <2>6
  <2> USE DEF len
  <2>. QED BY <2>1, <2>2, <2>5
<1> HIDE DEF inner
<1>7. inner = part
  BY <1>3, <1>6, SeqEqual
<1>. QED BY <1>7 DEF inner, part, whole

(* Where fgets stops: behind a newline, or at the end of the file *)
Over(at, k) == (k > 0 /\ data[at + k] = Newline) \/ at + k >= size

(* What fgets's loop leaves in the buffer: the bytes up to where it stops *)
LEMMA LineStops ==
  ASSUME FileOK, NEW p \in Programs, NEW n \in Nat, NEW m \in 0 .. n,
         cur_pos[p] \in Nat, cur_pos[p] <= size,
         m = n \/ Over(cur_pos[p], m), \A j \in 0 .. m - 1 : ~Over(cur_pos[p], j)
  PROVE  Line(p, n + 1) = SubSeq(data, cur_pos[p] + 1, cur_pos[p] + m)
<1> DEFINE c == cur_pos[p]
           Turn(g, k) ==
             IF k = 0 THEN << >>
             ELSE IF \/ Len(g[k - 1]) < k - 1
                     \/ g[k - 1] # << >> /\ g[k - 1][Len(g[k - 1])] = Newline
                     \/ c + (k - 1) >= size
                  THEN g[k - 1]
             ELSE Append(g[k - 1], data[c + k])
           Got(g) == g = [k \in 0 .. n |-> Turn(g, k)]
           F == CHOOSE g : Got(g)
           L(k) == IF k < m THEN k ELSE m
           W == [k \in 0 .. n |-> SubSeq(data, c + 1, c + L(k))]
<1>1. Line(p, n + 1) = F[n]
  <2>1. (n + 1) - 1 = n
    OBVIOUS
  <2>. QED BY <2>1 DEF Line
<1>2. m \in Nat /\ c \in Nat /\ size \in Nat /\ size <= Len(data) /\ Len(data) \in Nat
      /\ \A j \in 0 .. n : j < m => c + j < size
  <2>1. size \in Nat /\ size <= Len(data) /\ Len(data) \in Nat
    BY DEF FileOK
  <2>2. \A j \in 0 .. n : j < m => ~Over(c, j)
    OBVIOUS
  <2>. QED BY <2>1, <2>2 DEF Over
<1>3. \A k \in 0 .. n : L(k) \in 0 .. n /\ c + L(k) <= size
  <2> SUFFICES ASSUME NEW k \in 0 .. n PROVE L(k) \in 0 .. n /\ c + L(k) <= size
    OBVIOUS
  <2>1. L(k) \in 0 .. n /\ L(k) <= m
    BY <1>2
  <2>2. m > 0 => c + (m - 1) < size
    <3>1. m > 0 => m - 1 \in 0 .. n /\ m - 1 < m
      BY <1>2
    <3>. QED BY <1>2, <3>1
  <2>. QED BY <1>2, <2>1, <2>2
<1> HIDE DEF L
<1>4. \A k \in 0 .. n : /\ W[k] \in Seq(Stored) /\ Len(W[k]) = L(k)
                        /\ \A i \in 1 .. L(k) : W[k][i] = data[c + i]
  <2> SUFFICES ASSUME NEW k \in 0 .. n
               PROVE  /\ W[k] \in Seq(Stored) /\ Len(W[k]) = L(k)
                      /\ \A i \in 1 .. L(k) : W[k][i] = data[c + i]
    OBVIOUS
  <2> DEFINE b == c + L(k)
  <2>1. b \in Nat /\ c <= b /\ b <= Len(data) /\ b - c = L(k)
    <3>1. L(k) \in Nat /\ c + L(k) <= size
      BY <1>3
    <3> HIDE DEF c
    <3>. QED BY <1>2, <3>1
  <2>2. W[k] = SubSeq(data, c + 1, b)
    OBVIOUS
  <2> HIDE DEF b, c, W
  <2>3. /\ SubSeq(data, c + 1, b) \in Seq(Stored) /\ Len(SubSeq(data, c + 1, b)) = b - c
        /\ \A i \in 1 .. b - c : SubSeq(data, c + 1, b)[i] = data[c + i]
    BY <1>2, <2>1, PartFacts
  <2>. QED BY <2>1, <2>2, <2>3
<1>5. ASSUME NEW k \in 1 .. n
      PROVE  W[k] = Turn(W, k)
  <2>0. k \in 0 .. n /\ k - 1 \in 0 .. n /\ k # 0 /\ k \in Int
    OBVIOUS
  <2> DEFINE s == W[k - 1]
  <2>1. s \in Seq(Stored) /\ Len(s) = L(k - 1) /\ \A i \in 1 .. L(k - 1) : s[i] = data[c + i]
    BY <1>4, <2>0
  <2>2. W[k] = SubSeq(data, c + 1, c + L(k)) /\ s = SubSeq(data, c + 1, c + L(k - 1))
    BY <2>0
  <2>3. CASE k - 1 < m
    <3>1. L(k - 1) = k - 1 /\ L(k) = k
      BY <1>2, <2>0, <2>3 DEF L
    <3>2. ~Over(c, k - 1)
      BY <1>2, <2>0, <2>3
    <3>3. ~(Len(s) < k - 1) /\ ~(c + (k - 1) >= size)
      BY <2>0, <2>1, <3>1, <3>2 DEF Over
    <3>4. ~(s # << >> /\ s[Len(s)] = Newline)
      <4>1. SUFFICES ASSUME s # << >> PROVE s[Len(s)] # Newline
        OBVIOUS
      <4>2. Len(s) = k - 1 /\ k - 1 > 0 /\ k - 1 \in 1 .. L(k - 1)
        <5>1. Len(s) # 0
          <6> HIDE DEF s
          <6>. QED BY <2>1, <4>1
        <5>2. Len(s) = k - 1
          BY <2>1, <3>1
        <5>3. k - 1 \in Nat
          BY <2>0
        <5>4. k - 1 > 0
          <6> HIDE DEF s, W
          <6>1. k - 1 # 0
            BY <5>1, <5>2
          <6>. QED BY <5>3, <6>1
        <5>5. k - 1 \in 1 .. L(k - 1)
          BY <3>1, <5>3, <5>4
        <5>. QED BY <5>2, <5>4, <5>5
      <4>3. s[Len(s)] = data[c + (k - 1)]
        BY <2>1, <4>2
      <4>. QED BY <3>2, <4>2, <4>3 DEF Over
    <3>5. Turn(W, k) = Append(s, data[c + k])
      BY <2>0, <3>3, <3>4
    <3>6. data[c + k] \in Stored
      <4>1. c + k \in 1 .. Len(data)
        <5>1. c + k <= size
          BY <1>3, <2>0, <3>1
        <5>2. k \in Nat /\ k >= 1
          BY <2>0
        <5> HIDE DEF c
        <5>. QED BY <1>2, <5>1, <5>2
      <4>. QED BY <4>1 DEF FileOK
    <3>7. Append(s, data[c + k]) = W[k]
      <4> DEFINE v == Append(s, data[c + k])
      <4>1. v \in Seq(Stored) /\ Len(v) = k /\ \A i \in 1 .. k : v[i] = data[c + i]
        <5>1. v \in Seq(Stored) /\ Len(v) = (k - 1) + 1 /\ v[k] = data[c + k]
              /\ \A i \in 1 .. k - 1 : v[i] = s[i]
          BY <2>0, <2>1, <3>1, <3>6
        <5>2. \A i \in 1 .. k : i \in 1 .. k - 1 \/ i = k
          BY <2>0
        <5>. QED BY <2>0, <2>1, <3>1, <5>1, <5>2
      <4>2. W[k] \in Seq(Stored) /\ Len(W[k]) = k /\ \A i \in 1 .. k : W[k][i] = data[c + i]
        BY <1>4, <2>0, <3>1
      <4> HIDE DEF v, W
      <4>3. v = W[k]
        BY <4>1, <4>2, SeqEqual
      <4>. QED BY <4>3 DEF v
    <3>. QED BY <3>5, <3>7
  <2>4. CASE ~(k - 1 < m)
    <3>1. L(k - 1) = m /\ L(k) = m
      BY <1>2, <2>0, <2>4 DEF L
    <3>2. W[k] = s
      BY <2>2, <3>1
    <3>3. Len(s) < k - 1 \/ (s # << >> /\ s[Len(s)] = Newline) \/ c + (k - 1) >= size
      <4>1. CASE m < k - 1
        BY <2>1, <3>1, <4>1
      <4>2. CASE m = k - 1
        <5>1. m # n /\ Over(c, m)
          BY <2>0, <4>2
        <5>2. CASE c + m >= size
          BY <4>2, <5>2
        <5>3. CASE m > 0 /\ data[c + m] = Newline
          <6>1. m \in 1 .. m /\ s # << >>
            <7>1. m \in 1 .. m /\ Len(s) # 0
              BY <1>2, <2>1, <3>1, <5>3
            <7> HIDE DEF s
            <7>. QED BY <2>1, <7>1
          <6>2. s[m] = data[c + m] /\ Len(s) = m
            BY <2>1, <3>1, <6>1
          <6>. QED BY <5>3, <6>1, <6>2
        <5>4. (m > 0 /\ data[c + m] = Newline) \/ c + m >= size
          BY <5>1 DEF Over
        <5>. QED BY <5>2, <5>3, <5>4, Zenon
      <4>3. m < k - 1 \/ m = k - 1
        BY <1>2, <2>0, <2>4
      <4>. QED BY <4>1, <4>2, <4>3, Zenon
    <3>4. Turn(W, k) = s
      BY <2>0, <3>3
    <3>. QED BY <3>2, <3>4
  <2>. QED BY <2>3, <2>4
<1>6. W[0] = << >>
  <2>1. 0 \in 0 .. n /\ L(0) = 0
    BY <1>2 DEF L
  <2>2. W[0] \in Seq(Stored) /\ Len(W[0]) = 0
    BY <1>4, <2>1
  <2> HIDE DEF W
  <2>. QED BY <2>2
<1>7. Got(W)
  <2>1. \A k \in 0 .. n : W[k] = Turn(W, k)
    <3> SUFFICES ASSUME NEW k \in 0 .. n PROVE W[k] = Turn(W, k)
      OBVIOUS
    <3>1. k = 0 \/ k \in 1 .. n
      OBVIOUS
    <3> HIDE DEF W
    <3>. QED BY <1>5, <1>6, <3>1
  <2>2. W = [k \in 0 .. n |-> W[k]]
    OBVIOUS
  <2> HIDE DEF W, Turn
  <2>. QED BY <2>1, <2>2
<1>8. Got(F)
  <2> HIDE DEF Got, W
  <2>1. \E g : Got(g)
    BY <1>7
  <2>. QED BY <2>1
<1>9. \A k \in 0 .. n : F[k] = Turn(F, k)
  <2> HIDE DEF F, Turn
  <2>. QED BY <1>8
<1> HIDE DEF F, W, Got
<1>10. ASSUME NEW k \in 1 .. n, F[k - 1] = W[k - 1]
       PROVE  F[k] = W[k]
  <2>1. F[k] = Turn(F, k)
    BY <1>9
  <2>2. Turn(F, k) = Turn(W, k)
    BY <1>10
  <2>. QED BY <1>5, <2>1, <2>2
<1>11. F[0] = W[0]
  <2>1. F[0] = Turn(F, 0)
    BY <1>9
  <2>. QED BY <1>6, <2>1
<1>12. \A k \in 0 .. n : F[k] = W[k]
  <2> DEFINE T == {k \in 0 .. n : F[k] # W[k]}
  <2>1. SUFFICES ASSUME T # {} PROVE FALSE
    OBVIOUS
  <2>2. T \in SUBSET Nat
    OBVIOUS
  <2>3. PICK k \in T : \A j \in T : k <= j
    BY <2>1, <2>2, Least
  <2>4. k \in 1 .. n /\ F[k] # W[k]
    BY <1>11
  <2>5. k - 1 \in 0 .. n /\ ~(k <= k - 1)
    BY <2>4
  <2>6. F[k - 1] = W[k - 1]
    BY <2>3, <2>5
  <2>. QED BY <1>10, <2>4, <2>6
<1>13. n \in 0 .. n /\ L(n) = m
  BY <1>2 DEF L
<1>. QED BY <1>1, <1>12, <1>13 DEF W

(* The bytes from position at on, up to n, as the promise has them *)
Limit(at, n) == IF at + n < size THEN at + n ELSE size
LEMMA AvailableIs ==
  ASSUME FileOK, NEW at \in Nat, at <= size, NEW n \in Nat
  PROVE  /\ Limit(at, n) \in Nat /\ at <= Limit(at, n) /\ Limit(at, n) <= size /\ size <= Len(data)
         /\ Limit(at, n) - at \in 0 .. n
         /\ Promise!Available(at, n) = SubSeq(data, at + 1, Limit(at, n))
<1>1. size \in Nat /\ size <= Len(data) /\ Len(data) \in Nat
  BY DEF FileOK
<1>2. Limit(at, n) \in Nat /\ at <= Limit(at, n) /\ Limit(at, n) <= size /\ Limit(at, n) - at \in 0 .. n
  BY <1>1 DEF Limit
<1>3. Len(SubSeq(data, 1, size)) = size
  BY <1>1 DEF FileOK
<1>4. Promise!Available(at, n) = SubSeq(SubSeq(data, 1, size), at + 1, Limit(at, n))
  BY <1>3 DEF Promise!Available, Limit
<1>. QED BY <1>1, <1>2, <1>4, PartOfFile

(* fgets reads the first line of them *)
LEMMA LineIs ==
  ASSUME FileOK, NEW p \in Programs, cur_pos[p] \in Nat, cur_pos[p] <= size, NEW n \in Nat
  PROVE  /\ Line(p, n + 1) = Promise!FirstLine(Promise!Available(cur_pos[p], n))
         /\ Line(p, n + 1) \in Seq(Stored)
<1> DEFINE c == cur_pos[p]
           len == Limit(c, n) - c
           s == SubSeq(data, c + 1, Limit(c, n))
           Ends(i) == s[i] = Newline /\ \A j \in 1 .. i - 1 : s[j] # Newline
<1>1. /\ Limit(c, n) \in Nat /\ c <= Limit(c, n) /\ Limit(c, n) <= size /\ size <= Len(data) /\ len \in 0 .. n
      /\ Promise!Available(c, n) = s
  BY AvailableIs
<1>2. size \in Nat /\ Len(data) \in Nat /\ c \in Nat /\ c + len = Limit(c, n)
      /\ (len = n \/ c + len = size)
  <2>1. size \in Nat /\ Len(data) \in Nat
    BY DEF FileOK
  <2>. QED BY <1>1, <2>1 DEF Limit
<1>3. s \in Seq(Stored) /\ Len(s) = len /\ DOMAIN s = 1 .. len /\ \A i \in 1 .. len : s[i] = data[c + i]
  <2> DEFINE b == Limit(c, n)
  <2>1. b \in Nat /\ c <= b /\ b <= Len(data)
    BY <1>1, <1>2
  <2> HIDE DEF b, c
  <2>2. /\ SubSeq(data, c + 1, b) \in Seq(Stored) /\ Len(SubSeq(data, c + 1, b)) = b - c
        /\ \A i \in 1 .. b - c : SubSeq(data, c + 1, b)[i] = data[c + i]
    BY <1>2, <2>1, PartFacts
  <2>. QED BY <2>2 DEF b
<1> HIDE DEF s, len
<1>4. CASE \E i \in 1 .. len : s[i] = Newline
  <2> DEFINE N == {i \in 1 .. len : s[i] = Newline}
  <2>1. N # {} /\ N \in SUBSET Nat
    BY <1>4
  <2>2. PICK m \in N : \A j \in N : m <= j
    BY <2>1, Least
  <2>3. m \in 1 .. len /\ Ends(m)
    <3>1. m \in 1 .. len /\ s[m] = Newline
      OBVIOUS
    <3>2. ASSUME NEW j \in 1 .. m - 1
          PROVE  s[j] # Newline
      <4>1. j \in 1 .. len /\ ~(m <= j)
        BY <1>1, <3>1
      <4>. QED BY <2>2, <4>1
    <3>. QED BY <3>1, <3>2
  <2>4. \A i \in 1 .. len : Ends(i) => i = m
    <3> SUFFICES ASSUME NEW i \in 1 .. len, Ends(i) PROVE i = m
      OBVIOUS
    <3>1. ~(i < m) /\ ~(m < i)
      <4>1. i < m => i \in 1 .. m - 1
        BY <2>3
      <4>2. m < i => m \in 1 .. i - 1
        BY <2>3
      <4>. QED BY <2>3, <4>1, <4>2
    <3>. QED BY <2>3, <3>1
  <2>5. (CHOOSE i \in DOMAIN s : Ends(i)) = m
    <3> HIDE DEF Ends
    <3>. QED BY <1>3, <2>3, <2>4
  <2>6. Newline \in Promise!ToSet(s)
    BY <1>3, <1>4 DEF Promise!ToSet
  <2>7. Promise!FirstLine(s) = SubSeq(s, 1, m)
    BY <2>5, <2>6 DEF Promise!FirstLine
  <2>8. Line(p, n + 1) = SubSeq(data, c + 1, c + m)
    <3>1. m \in 0 .. n
      BY <1>1, <2>3 DEF len
    <3>2. Over(c, m)
      BY <1>3, <2>3 DEF Over
    <3>3. ASSUME NEW j \in 0 .. m - 1
          PROVE  ~Over(c, j)
      <4>1. j = 0 \/ (j \in 1 .. m - 1 /\ j \in 1 .. len)
        BY <1>1, <2>3
      <4>2. j > 0 => data[c + j] # Newline
        BY <1>3, <2>3, <4>1
      <4>3. c + j < size
        BY <1>1, <1>2, <2>3
      <4>. QED BY <1>2, <4>2, <4>3 DEF Over
    <3>. QED BY <1>2, <3>1, <3>2, <3>3, LineStops
  <2>9. SubSeq(s, 1, m) = SubSeq(data, c + 1, c + m) /\ SubSeq(s, 1, m) \in Seq(Stored)
    <3> DEFINE u == SubSeq(s, 1, m)
               b == c + m
               v == SubSeq(data, c + 1, b)
    <3>1. u \in Seq(Stored) /\ Len(u) = m /\ \A i \in 1 .. m : u[i] = s[i]
      BY <1>3, <2>3
    <3>2. b \in Nat /\ c <= b /\ b <= Len(data) /\ b - c = m
      BY <1>1, <1>2, <2>3
    <3> HIDE DEF b, c
    <3>3. v \in Seq(Stored) /\ Len(v) = b - c /\ \A i \in 1 .. b - c : v[i] = data[c + i]
      BY <1>2, <3>2, PartFacts
    <3>4. \A i \in 1 .. m : i \in 1 .. len
      BY <1>1, <2>3
    <3> HIDE DEF u, v
    <3>5. u = v
      BY <1>3, <3>1, <3>2, <3>3, <3>4, SeqEqual
    <3>. QED BY <3>1, <3>5 DEF u, v, b
  <2>. QED BY <1>1, <2>7, <2>8, <2>9
<1>5. CASE ~\E i \in 1 .. len : s[i] = Newline
  <2>1. Newline \notin Promise!ToSet(s)
    BY <1>3, <1>5 DEF Promise!ToSet
  <2>2. Promise!FirstLine(s) = s
    BY <2>1 DEF Promise!FirstLine
  <2>3. Line(p, n + 1) = SubSeq(data, c + 1, c + len)
    <3>1. len = n \/ Over(c, len)
      BY <1>2 DEF Over
    <3>2. ASSUME NEW j \in 0 .. len - 1
          PROVE  ~Over(c, j)
      <4>1. j > 0 => j \in 1 .. len
        BY <1>1 DEF len
      <4>2. j > 0 => data[c + j] # Newline
        BY <1>3, <1>5, <4>1
      <4>3. c + j < size
        BY <1>1, <1>2
      <4>. QED BY <1>2, <4>2, <4>3 DEF Over
    <3>. QED BY <1>1, <1>2, <3>1, <3>2, LineStops
  <2>4. SubSeq(data, c + 1, c + len) = s
    BY <1>2 DEF s
  <2>. QED BY <1>1, <1>3, <2>2, <2>3, <2>4
<1>. QED BY <1>4, <1>5
(* A read from inside the file gives what the promise gives *)
LEMMA ReadStep ==
  ASSUME IInv, NEW p \in Programs, cur_pos[p] <= size, Read(p)
  PROVE  IInv' /\ \E n \in 0 .. MaxIO : Promise!Read(p, n) \/ Promise!ReadLine(p, n)
<1>1. PICK n \in 0 .. MaxIO : fread(p, n) \/ fgets(p, n + 1)
  BY DEF Read
<1> DEFINE c == cur_pos[p]
           s == IF fread(p, n) THEN Copied(p, Length(p, n)) ELSE Line(p, n + 1)
<1>2. /\ c # Closed /\ UNCHANGED << file, mode, status >>
  BY <1>1 DEF fread, fgets, Opened
<1>3. /\ c \in Nat /\ ~freed /\ size \in Nat /\ Len(data) \in Nat /\ size <= Len(data) /\ n \in Nat /\ c <= size
      /\ FileOK
  <2>1. n \in Nat
    <3>1. MaxIO \in Nat
      BY MemFileAssumption
    <3>. QED BY <3>1
  <2>2. FileOK
    BY DEF IInv
  <2>3. c \in Nat /\ ~freed /\ size \in Nat /\ Len(data) \in Nat /\ size <= Len(data)
    BY <1>2, OpenPosition
  <2>. QED BY <2>1, <2>2, <2>3
<1>4. ~(Length(p, n) < 0) /\ c + Length(p, n) = Limit(c, n) /\ ~(c > size)
  <2> HIDE DEF c
  <2>. QED BY <1>3 DEF Length, Limit, c
<1>5. Gives(p, s) /\ UNCHANGED wild
  <2>1. CASE fread(p, n)
    BY <1>3, <1>4, <2>1 DEF fread
  <2>2. CASE ~fread(p, n)
    BY <1>1, <1>3, <1>4, <2>2 DEF fgets
  <2>. QED BY <2>1, <2>2
<1>6. /\ s \in Seq(Stored)
      /\ s = Promise!Available(c, n) \/ s = Promise!FirstLine(Promise!Available(c, n))
  <2>1. CASE fread(p, n)
    <3> DEFINE b == Limit(c, n)
    <3>1. b \in Nat /\ c <= b /\ b <= Len(data) /\ Promise!Available(c, n) = SubSeq(data, c + 1, b)
      <4>1. /\ Limit(c, n) \in Nat /\ c <= Limit(c, n) /\ Limit(c, n) <= size
            /\ Promise!Available(c, n) = SubSeq(data, c + 1, Limit(c, n))
        <5> HIDE DEF c
        <5>. QED BY <1>3, AvailableIs
      <4> HIDE DEF c
      <4>. QED BY <1>3, <4>1
    <3>2. s = SubSeq(data, c + 1, b)
      BY <1>4, <2>1 DEF Copied
    <3> HIDE DEF b, c, s
    <3>3. SubSeq(data, c + 1, b) \in Seq(Stored)
      BY <1>3, <3>1, PartFacts
    <3>. QED BY <3>1, <3>2, <3>3
  <2>2. CASE ~fread(p, n)
    BY <1>3, <2>2, LineIs
  <2>. QED BY <2>1, <2>2
<1> HIDE DEF s
<1>7. /\ result' = [read |-> s, wrote |-> 0] /\ cur_pos' = [cur_pos EXCEPT ![p] = c + Len(s)]
      /\ Len(s) \in Nat
  BY <1>5, <1>6 DEF Gives
<1>8. IInv'
  <2> DEFINE at == c + Len(s)
  <2>1. at \in Nat
    BY <1>3, <1>7
  <2>2. status' = [status EXCEPT ![p] = status[p]] /\ status[p] \in SUBSET {"EOF", "ERR"}
    BY <1>2 DEF IInv, HandlesOK
  <2>3. cur_pos' = [cur_pos EXCEPT ![p] = at] /\ UNCHANGED << file, mode, wild >>
    BY <1>2, <1>5, <1>7
  <2> HIDE DEF at, c
  <2>. QED BY <1>2, <2>1, <2>2, <2>3, HandleStep DEF c
<1>9. UNCHANGED SubSeq(data, 1, size)
  BY <1>2 DEF file
<1>10. c # Promise!Closed
  BY <1>3 DEF Promise!Closed
<1>. QED BY <1>6, <1>7, <1>8, <1>9, <1>10 DEF Promise!Read, Promise!ReadLine, Promise!Gives, Promise!Returns

-----------------------------------------------------------------------------
(* What is less than twice as large stays so *)
LEMMA RoomArithmetic ==
  ASSUME NEW before \in Nat, NEW after \in Nat, NEW total \in Nat, NEW had \in Nat, NEW has \in Nat,
         before <= after, total <= after,
         has # had => has < 2 * total,
         before > 0 => had < 2 * before, before = 0 => had = 0,
         after > 0
  PROVE  has < 2 * after
OBVIOUS

(* A write puts its bytes over the file's, and leaves the room behind them  *)
(* as it was                                                                *)
LEMMA WriteStep ==
  ASSUME IInv, NEW p \in Programs, NEW s \in Writes, fwrite(p, s)
  PROVE  IInv' /\ Promise!Write(p, s)
<1> DEFINE c == cur_pos[p]
           total == c + Len(s)
           len == Grown(total)
<1>1. /\ c # Closed /\ c \in Nat /\ ~freed /\ size \in Nat /\ Len(data) \in Nat /\ size <= Len(data) /\ FileOK
  BY OpenPosition DEF fwrite, Opened, IInv
<1>2. s \in Seq(Bytes) /\ Len(s) \in Nat /\ total \in Nat /\ c <= total
  BY <1>1, WritesAreSeqs
<1>3. /\ data' = Put(Block(len), c, s) /\ size' = (IF total > size THEN total ELSE size)
      /\ cur_pos' = [cur_pos EXCEPT ![p] = total] /\ result' = [read |-> << >>, wrote |-> Len(s)]
      /\ UNCHANGED << freed, mode, status, wild >>
  BY <1>1 DEF fwrite, SizeAfter
<1>4. /\ len \in Nat /\ len >= total /\ len >= Len(data)
      /\ len # Len(data) => total > Len(data) /\ len < 2 * total
  BY <1>1, <1>2, GrownFacts
<1>5. /\ data' \in Seq(Stored) /\ Len(data') = len
      /\ \A i \in 1 .. len : data'[i] = IF i \in c + 1 .. total THEN s[i - c]
                                        ELSE IF i <= Len(data) THEN data[i] ELSE Unwritten
  <2> HIDE DEF len, c
  <2>. QED BY <1>1, <1>2, <1>3, <1>4, PutFacts
<1> HIDE DEF len, c, total
<1>6. size' \in Nat /\ size <= size' /\ total <= size' /\ size' <= len /\ (size' = total \/ size' = size)
  BY <1>1, <1>2, <1>3, <1>4
<1>7. /\ size > 0 => Len(data) < 2 * size
      /\ size = 0 => Len(data) = 0
      /\ \A i \in 1 .. Len(data) : i > size => data[i] = Unwritten
  BY <1>1 DEF FileOK
<1>8. FileOK'
  <2>1. size' > 0 => len < 2 * size'
    <3>1. PICK after \in Nat : after = size'
      BY <1>6
    <3>2. size <= after /\ total <= after /\ total \in Nat
      BY <1>2, <1>6, <3>1
    <3>3. after > 0 => len < 2 * after
      BY <1>1, <1>4, <1>7, <3>2, RoomArithmetic
    <3>. QED BY <3>1, <3>3, Zenon
  <2>2. size' = 0 => len = 0
    BY <1>1, <1>2, <1>4, <1>6, <1>7
  <2>3. ASSUME NEW i \in Int, size' < i, i <= len
        PROVE  data'[i] = Unwritten
    <3>0. i \in Int /\ size' < i /\ i <= len
      BY <1>6, <2>3
    <3>1. i \in 1 .. len /\ i \notin c + 1 .. total
      BY <1>1, <1>2, <1>4, <1>6, <3>0
    <3>2. i <= Len(data) => i \in 1 .. Len(data) /\ i > size
      BY <1>1, <1>6, <3>0
    <3>. QED BY <1>5, <1>7, <3>1, <3>2
  <2>4. size' \in 0 .. Len(data')
    BY <1>4, <1>5, <1>6
  <2>5. freed' \in BOOLEAN
    BY <1>1, <1>3 DEF FileOK
  <2>6. \A i \in 1 .. len : i > size' => data'[i] = Unwritten
    BY <1>4, <1>6, <2>3
  <2>. QED BY <1>5, <2>1, <2>2, <2>4, <2>5, <2>6 DEF FileOK
<1>9. HandlesOK'
  <2>1. total # Closed /\ total \in {Closed} \union Nat
    BY <1>2 DEF Closed
  <2>. QED BY <1>1, <1>3, <2>1 DEF IInv, HandlesOK
<1>10. IInv'
  BY <1>3, <1>8, <1>9 DEF IInv
<1>11. SubSeq(data', 1, size') = Promise!Overlay(c, s)
  <2> DEFINE new == SubSeq(data', 1, size')
             contents == SubSeq(data, 1, size)
             value(i) == IF i \in c + 1 .. total THEN s[i - c] ELSE IF i <= size THEN contents[i] ELSE Unwritten
  <2>1. Len(contents) = size /\ \A i \in 1 .. size : contents[i] = data[i]
    BY <1>1 DEF FileOK
  <2>2. new = [i \in 1 .. size' |-> data'[i]]
    BY <1>4, <1>5, <1>6
  <2>3. Promise!Overlay(c, s) = [i \in 1 .. size' |-> value(i)]
    BY <1>3, <2>1 DEF Promise!Overlay, total
  <2>4. ASSUME NEW i \in 1 .. size'
        PROVE  data'[i] = value(i)
    <3>1. i \in 1 .. len
      BY <1>4, <1>6
    <3>2. CASE i \in c + 1 .. total
      BY <1>5, <3>1, <3>2
    <3>3. CASE i \notin c + 1 .. total /\ i <= size
      <4>1. i \in 1 .. size /\ i <= Len(data)
        BY <1>1, <1>6, <3>3
      <4>. QED BY <1>5, <2>1, <3>1, <3>3, <4>1
    <3>4. CASE i \notin c + 1 .. total /\ ~(i <= size)
      <4>1. i <= Len(data) => i \in 1 .. Len(data) /\ i > size
        BY <1>1, <1>6, <3>4
      <4>. QED BY <1>5, <1>7, <3>1, <3>4, <4>1
    <3>. QED BY <3>2, <3>3, <3>4
  <2> HIDE DEF new, value
  <2>5. new = Promise!Overlay(c, s)
    BY <2>2, <2>3, <2>4
  <2>. QED BY <2>5 DEF new
<1>12. c # Promise!Closed
  BY <1>1 DEF Promise!Closed
<1>. QED BY <1>3, <1>10, <1>11, <1>12 DEF Promise!Write, Promise!Returns, c, total
-----------------------------------------------------------------------------
(* Every step of a program that never reads behind the end, and removes the *)
(* file only when nobody has it open, is one of the promise's               *)
Step == Other \/ ReadInside \/ RemoveClosed

LEMMA OpenKeeps ==
  ASSUME IInv, NEW p \in Programs, Open(p) \/ fclose(p)
  PROVE  IInv' /\ (Promise!Open(p) \/ Promise!Close(p))
<1>1. UNCHANGED SubSeq(data, 1, size)
  BY DEF Open, fopen, fclose, file
<1>2. CASE Open(p)
  <2>1. cur_pos[p] = Closed /\ cur_pos' = [cur_pos EXCEPT ![p] = 0] /\ result' = None
    BY <1>2 DEF Open, fopen
  <2>. QED BY <1>1, <1>2, <2>1, OpenStep DEF Promise!Open, Promise!Returns, Promise!Closed, Promise!None, Closed, None
<1>3. CASE fclose(p)
  <2>1. cur_pos[p] # Closed /\ cur_pos' = [cur_pos EXCEPT ![p] = Closed] /\ result' = None
    BY <1>3 DEF fclose, Opened
  <2>. QED BY <1>1, <1>3, <2>1, CloseStep DEF Promise!Close, Promise!Returns, Promise!Closed, Promise!None, Closed, None
<1>. QED BY <1>2, <1>3

LEMMA SeekKeeps ==
  ASSUME IInv, NEW p \in Programs, Seek(p)
  PROVE  IInv' /\ Promise!Seek(p)
<1>1. /\ IInv' /\ cur_pos[p] # Closed /\ UNCHANGED file /\ result' = None
      /\ \E to \in 0 .. MaxPos : cur_pos' = [cur_pos EXCEPT ![p] = to]
  BY SeekStep
<1>2. UNCHANGED SubSeq(data, 1, size)
  BY <1>1 DEF file
<1>. QED BY <1>1, <1>2 DEF Promise!Seek, Promise!Returns, Promise!Closed, Promise!None, Closed, None

LEMMA FailedWriteKeeps ==
  ASSUME IInv, NEW p \in Programs, NEW s \in Writes, WriteENOSPC(p, s)
  PROVE  IInv' /\ Promise!WriteFails(p, s)
<1>1. IInv'
  BY NoticeStep
<1>2. /\ cur_pos[p] # Closed /\ cur_pos[p] + Len(s) > Len(data) /\ UNCHANGED << data, size, cur_pos >>
      /\ result' = [read |-> << >>, wrote |-> -1]
  BY DEF WriteENOSPC, Opened, max_size, file
<1>3. cur_pos[p] \in Nat /\ size \in Nat /\ Len(data) \in Nat /\ size <= Len(data)
  BY <1>2, OpenPosition
<1>4. Len(s) \in Nat
  BY WritesAreSeqs
<1>5. Len(SubSeq(data, 1, size)) = size
  BY <1>3 DEF IInv, FileOK
<1>6. cur_pos[p] + Len(s) > Len(SubSeq(data, 1, size))
  BY <1>2, <1>3, <1>4, <1>5
<1>7. cur_pos' = [cur_pos EXCEPT ![p] = cur_pos[p]]
  BY <1>2 DEF IInv, HandlesOK
<1>8. UNCHANGED SubSeq(data, 1, size)
  BY <1>2
<1>. QED BY <1>1, <1>2, <1>6, <1>7, <1>8 DEF Promise!WriteFails, Promise!Returns, Promise!Closed, Closed

LEMMA RefusedKeeps ==
  ASSUME IInv, NEW p \in Programs, WriteRefused(p)
  PROVE  IInv' /\ Promise!Refused(p)
<1>1. IInv'
  BY NoticeStep
<1>2. cur_pos[p] # Closed /\ UNCHANGED << data, size, cur_pos >> /\ result' = None
  BY DEF WriteRefused, Opened, file
<1>3. cur_pos' = [cur_pos EXCEPT ![p] = cur_pos[p]]
  BY <1>2 DEF IInv, HandlesOK
<1>4. UNCHANGED SubSeq(data, 1, size)
  BY <1>2
<1>. QED BY <1>1, <1>2, <1>3, <1>4 DEF Promise!Refused, Promise!Returns, Promise!Closed, Promise!None, Closed, None

(* The promise sees nothing of these *)
LEMMA SilentKeeps ==
  ASSUME IInv, (\E p \in Programs : clearerr(p)) \/ RemoveClosed \/ UNCHANGED vars
  PROVE  IInv' /\ UNCHANGED Promise!vars
<1>1. CASE \E p \in Programs : clearerr(p)
  <2>1. PICK p \in Programs : clearerr(p)
    BY <1>1
  <2>2. UNCHANGED << data, size, cur_pos, result >>
    BY <2>1 DEF clearerr, file
  <2>. QED BY <2>1, <2>2, NoticeStep DEF Promise!vars
<1>2. CASE RemoveClosed
  <2>1. /\ UNCHANGED << data, size, cur_pos, mode, status, result, wild >> /\ freed' = TRUE
        /\ \A p \in Programs : cur_pos[p] = Closed
    BY <1>2 DEF RemoveClosed, remove, handles
  <2>2. FileOK'
    BY <2>1 DEF IInv, FileOK
  <2>3. HandlesOK'
    BY <2>1 DEF IInv, HandlesOK
  <2>. QED BY <2>1, <2>2, <2>3 DEF IInv, Promise!vars
<1>3. CASE UNCHANGED vars
  <2>1. UNCHANGED << data, size, freed, cur_pos, mode, status, result, wild >>
    BY <1>3 DEF vars, file, handles
  <2>. QED BY <2>1 DEF IInv, FileOK, HandlesOK, Promise!vars
<1>. QED BY <1>1, <1>2, <1>3

LEMMA NextStep ==
  ASSUME IInv, [Step]_vars
  PROVE  IInv' /\ [Promise!Next]_(Promise!vars)
<1>1. ASSUME NEW p \in Programs, Open(p) \/ fclose(p)
      PROVE  IInv' /\ Promise!Next
  BY <1>1, OpenKeeps DEF Promise!Next
<1>2. ASSUME NEW p \in Programs, Seek(p)
      PROVE  IInv' /\ Promise!Next
  BY <1>2, SeekKeeps DEF Promise!Next
<1>3. ASSUME NEW p \in Programs, cur_pos[p] <= size, Read(p)
      PROVE  IInv' /\ Promise!Next
  BY <1>3, ReadStep DEF Promise!Next
<1>4. ASSUME NEW p \in Programs, Write(p)
      PROVE  IInv' /\ Promise!Next
  <2>1. PICK s \in Writes : fwrite(p, s) \/ WriteENOSPC(p, s)
    BY <1>4 DEF Write
  <2>2. s \in Promise!SeqOf(Bytes, MaxIO)
    BY WritesAreSeqs DEF SeqOf, Promise!SeqOf
  <2>3. IInv' /\ (Promise!Write(p, s) \/ Promise!WriteFails(p, s))
    BY <2>1, WriteStep, FailedWriteKeeps
  <2>. QED BY <2>2, <2>3 DEF Promise!Next
<1>5. ASSUME NEW p \in Programs, WriteRefused(p)
      PROVE  IInv' /\ Promise!Next
  BY <1>5, RefusedKeeps DEF Promise!Next
<1>6. ASSUME (\E p \in Programs : clearerr(p)) \/ RemoveClosed \/ UNCHANGED vars
      PROVE  IInv' /\ UNCHANGED Promise!vars
  BY <1>6, SilentKeeps
<1>. QED BY <1>1, <1>2, <1>3, <1>4, <1>5, <1>6 DEF Step, Other, ReadInside

LEMMA InitOK == Init => IInv /\ Promise!Init
<1> SUFFICES ASSUME Init PROVE IInv /\ Promise!Init
  OBVIOUS
<1>1. data = << >> /\ size = 0 /\ Len(data) = 0 /\ data \in Seq(Stored)
  BY DEF Init
<1>2. FileOK
  <2>1. \A i \in 1 .. Len(data) : FALSE
    BY <1>1
  <2>2. freed \in BOOLEAN
    BY DEF Init
  <2>. QED BY <1>1, <2>1, <2>2 DEF FileOK
<1>3. HandlesOK
  BY DEF Init, HandlesOK
<1>4. SubSeq(data, 1, size) = << >>
  BY <1>1
<1>. QED BY <1>2, <1>3, <1>4 DEF Init, IInv, Promise!Init, Promise!Closed, Promise!None, Closed, None

(* The block and the handles of fsmem.c satisfy the inductive invariant in  *)
(* every state, over growth, running out of memory and removal.             *)
THEOREM Inductive == CarefulSpec => []IInv
<1>1. Init => IInv
  BY InitOK
<1>2. IInv /\ [Step]_vars => IInv'
  BY NextStep
<1>. QED BY <1>1, <1>2, PTL DEF CarefulSpec, Step

(* However programs seek and write, behind the end of the file too, the     *)
(* block that realloc gives is never twice as large as the file: the file   *)
(* is what the block holds, and the rest is room for less than it again     *)
(* (fsmem.c:352).  The invariant needs the empty file to have no block, and *)
(* a write to start at a position that is not negative.                     *)
THEOREM RoomIsBounded == CarefulSpec => []CapacityBounded
<1>1. IInv => CapacityBounded
  <2> SUFFICES ASSUME IInv PROVE CapacityBounded
    OBVIOUS
  <2>1. cur_pos \in [Programs -> Int]
    BY DEF IInv, HandlesOK, Closed
  <2>2. TypeOK
    BY <2>1 DEF IInv, FileOK, HandlesOK, TypeOK, max_size, Stored
  <2>. QED BY <2>2 DEF IInv, FileOK, CapacityBounded, max_size
<1>. QED BY <1>1, Inductive, PTL

(* The block, its size and the handles implement one file with a position   *)
(* for each program (src/fsmem.c, src/libc/file.c): a read gives the bytes  *)
(* from the position on, fgets the first line of them and nothing of the    *)
(* room behind the file, a write puts its bytes over them, a failing        *)
(* realloc changes nothing.                                                 *)
THEOREM IsAFile == CarefulSpec => PromiseSpec
<1>1. Init => Promise!Init
  BY InitOK
<1>2. IInv /\ [Step]_vars => [Promise!Next]_(Promise!vars)
  BY NextStep
<1>. QED BY <1>1, <1>2, Inductive, PTL DEF CarefulSpec, Step, PromiseSpec, Promise!Spec

-----------------------------------------------------------------------------
(* A set of natural numbers has a least one *)
LEMMA LeastNode ==
  ASSUME NEW T \in SUBSET Nat, T # {}
  PROVE  \E m \in T : \A n \in T : m <= n
<1> DEFINE R == OpToRel(<, Nat)
<1>1. IsWellFoundedOn(R, Nat)
  BY NatLessThanWellFounded, Zenon
<1>2. \A x, y \in Nat : y < x => << y, x >> \in R
  BY Zenon DEF OpToRel
<1> HIDE DEF R
<1>3. \E x \in T : \A y \in T : ~(<< y, x >> \in R)
  BY <1>1, WFMin, Zenon
<1>4. PICK x \in T : \A y \in T : ~(<< y, x >> \in R)
  BY <1>3
<1>5. ASSUME NEW y \in T
      PROVE  x <= y
  <2>1. x \in Nat /\ y \in Nat
    OBVIOUS
  <2>2. ~(y < x)
    BY <1>2, <1>4, <2>1
  <2>. QED BY <2>1, <2>2
<1>. QED BY <1>5

-----------------------------------------------------------------------------
(* Lists whose links go up: s is the list from n, by the links nx *)
Rising(nx) ==
  /\ nx \in [Nodes -> Nodes \cup {NULL}]
  /\ \A n \in Nodes : nx[n] # NULL => nx[n] > n

Chain(nx, n, s) ==
  /\ s \in Seq(Nodes)
  /\ s = << >> <=> n = NULL
  /\ s # << >> => s[1] = n /\ nx[s[Len(s)]] = NULL
  /\ \A i \in 1 .. Len(s) - 1 : s[i + 1] = nx[s[i]]

List(nx, n) ==
  LET at[k \in 1 .. MaxNode] ==
        IF k = 1 THEN n ELSE IF at[k - 1] = NULL THEN NULL ELSE nx[at[k - 1]]
      len == Cardinality({ k \in 1 .. MaxNode : at[k] # NULL })
  IN  [k \in 1 .. len |-> at[k]]

LEMMA ListIs ==
  ASSUME NEW n
  PROVE  ListFrom(n) = List(next, n) /\ ListFrom(n)' = List(next', n)
<1>1. ListFrom(n) = List(next, n)
  BY DEF ListFrom, List
<1>2. ListFrom(n)' = List(next', n)
  BY DEF ListFrom, List
<1>. QED BY <1>1, <1>2

LEMMA NodeFacts ==
  /\ MaxNode \in Nat \ {0} /\ NULL = 0 /\ Root \in Nodes
  /\ \A n \in Nodes : n \in Nat /\ n # NULL /\ n >= 1 /\ n <= MaxNode
BY MemDirAssumption DEF Nodes, NULL, Root

LEMMA ChainRises ==
  ASSUME NEW nx, Rising(nx), NEW n \in Nodes, NEW s, Chain(nx, n, s)
  PROVE  /\ Len(s) \in Nat /\ Len(s) > 0 /\ Len(s) <= MaxNode
         /\ \A i \in 1 .. Len(s) : s[i] \in Nodes /\ s[i] >= i
         /\ \A i \in 1 .. Len(s) : s[i] >= n
         /\ \A i, j \in 1 .. Len(s) : i < j => s[i] < s[j]
<1>1. s \in Seq(Nodes) /\ Len(s) \in Nat /\ s # << >> /\ Len(s) > 0 /\ s[1] = n
  BY NodeFacts DEF Chain
<1>2. \A i \in 1 .. Len(s) : s[i] \in Nodes /\ s[i] \in Nat
  BY <1>1, NodeFacts
<1>3. ASSUME NEW i \in 1 .. Len(s) - 1
      PROVE  i \in 1 .. Len(s) /\ i + 1 \in 1 .. Len(s) /\ s[i + 1] > s[i]
  <2>1. i \in 1 .. Len(s) /\ i + 1 \in 1 .. Len(s)
    BY <1>1
  <2>2. s[i + 1] = nx[s[i]] /\ s[i] \in Nodes /\ s[i + 1] \in Nodes
    BY <1>2, <2>1 DEF Chain
  <2>. QED BY <2>1, <2>2, NodeFacts DEF Rising
<1>4. \A i \in 1 .. Len(s) : s[i] >= i /\ s[i] >= n
  <2> DEFINE T == {i \in 1 .. Len(s) : ~(s[i] >= i /\ s[i] >= n)}
  <2>1. SUFFICES ASSUME T # {} PROVE FALSE
    OBVIOUS
  <2>2. T \in SUBSET Nat
    OBVIOUS
  <2>3. PICK k \in T : \A j \in T : k <= j
    BY <2>1, <2>2, LeastNode
  <2>4. k \in 1 .. Len(s) /\ k # 1 /\ s[k] \in Nat /\ n \in Nat
    BY <1>1, <1>2, NodeFacts
  <2>5. k - 1 \in 1 .. Len(s) - 1 /\ k - 1 \in 1 .. Len(s) /\ ~(k <= k - 1) /\ (k - 1) + 1 = k
    BY <1>1, <2>4
  <2>6. s[k - 1] >= k - 1 /\ s[k - 1] >= n
    BY <2>3, <2>5
  <2>7. s[(k - 1) + 1] > s[k - 1] /\ s[k - 1] \in Nat
    BY <1>2, <1>3, <2>5
  <2>8. s[k] > s[k - 1]
    BY <2>5, <2>7
  <2>9. s[k] >= k /\ s[k] >= n
    BY <2>4, <2>6, <2>7, <2>8
  <2>. QED BY <2>9
<1>5. ASSUME NEW i \in 1 .. Len(s), NEW j \in 1 .. Len(s), i < j
      PROVE  s[i] < s[j]
  <2> DEFINE T == {k \in 1 .. Len(s) : i < k /\ ~(s[i] < s[k])}
  <2>1. SUFFICES ASSUME T # {} PROVE FALSE
    BY <1>5
  <2>2. T \in SUBSET Nat
    OBVIOUS
  <2>3. PICK k \in T : \A l \in T : k <= l
    BY <2>1, <2>2, LeastNode
  <2>4. k \in 1 .. Len(s) /\ i < k /\ s[k] \in Nat /\ s[i] \in Nat
    BY <1>2
  <2>5. k - 1 \in 1 .. Len(s) - 1 /\ k - 1 \in 1 .. Len(s) /\ ~(k <= k - 1) /\ (k - 1) + 1 = k
    BY <1>1, <2>4
  <2>6. s[(k - 1) + 1] > s[k - 1] /\ s[k - 1] \in Nat
    BY <1>2, <1>3, <2>5
  <2>7. s[k] > s[k - 1]
    BY <2>5, <2>6
  <2>8. CASE k - 1 = i
    BY <2>4, <2>7, <2>8
  <2>9. CASE k - 1 # i
    <3>1. i < k - 1
      BY <2>4, <2>5, <2>9
    <3>2. s[i] < s[k - 1]
      BY <2>3, <2>5, <3>1
    <3>3. s[i] < s[k]
      BY <2>4, <2>6, <2>7, <3>2
    <3>. QED BY <3>3
  <2>. QED BY <2>8, <2>9
<1>6. Len(s) <= MaxNode
  <2>1. Len(s) \in 1 .. Len(s)
    BY <1>1
  <2>. QED BY <1>1, <1>2, <1>4, <2>1, NodeFacts
<1>. QED BY <1>1, <1>2, <1>4, <1>5, <1>6
(* ListFrom gives the list, whose length Cardinality counts *)
LEMMA ChainIsList ==
  ASSUME NEW nx, Rising(nx), NEW n \in Nodes \cup {NULL}, NEW s, Chain(nx, n, s)
  PROVE  List(nx, n) = s
<1> DEFINE Turn(g, k) == IF k = 1 THEN n ELSE IF g[k - 1] = NULL THEN NULL ELSE nx[g[k - 1]]
           Along(g) == g = [k \in 1 .. MaxNode |-> Turn(g, k)]
           F == CHOOSE g : Along(g)
           W == [k \in 1 .. MaxNode |-> IF k <= Len(s) THEN s[k] ELSE NULL]
           Used == { k \in 1 .. MaxNode : F[k] # NULL }
<1>1. List(nx, n) = [k \in 1 .. Cardinality(Used) |-> F[k]]
  BY DEF List
<1>2. /\ s \in Seq(Nodes) /\ Len(s) \in Nat /\ Len(s) <= MaxNode
      /\ \A i \in 1 .. Len(s) : s[i] \in Nodes /\ s[i] # NULL
  <2>1. CASE n = NULL
    <3>1. s = << >>
      BY <2>1 DEF Chain
    <3>. QED BY <3>1, NodeFacts
  <2>2. CASE n # NULL
    <3>1. n \in Nodes
      BY <2>2
    <3>. QED BY <3>1, ChainRises, NodeFacts DEF Chain
  <2>. QED BY <2>1, <2>2
<1>3. ASSUME NEW k \in 1 .. MaxNode
      PROVE  W[k] = Turn(W, k)
  <2>1. CASE k = 1
    <3>1. CASE n = NULL
      <4>1. s = << >>
        BY <3>1 DEF Chain
      <4>. QED BY <2>1, <3>1, <4>1
    <3>2. CASE n # NULL
      <4>1. s # << >> /\ s[1] = n
        BY <3>2 DEF Chain
      <4>2. 1 <= Len(s)
        BY <1>2, <4>1
      <4>. QED BY <2>1, <4>1, <4>2
    <3>. QED BY <3>1, <3>2
  <2>2. CASE k # 1
    <3>1. k - 1 \in 1 .. MaxNode /\ k \in Nat /\ (k - 1) + 1 = k
      BY <2>2, NodeFacts
    <3>2. W[k - 1] = (IF k - 1 <= Len(s) THEN s[k - 1] ELSE NULL)
      BY <3>1
    <3>3. W[k] = (IF k <= Len(s) THEN s[k] ELSE NULL)
      OBVIOUS
    <3> HIDE DEF W
    <3>4. CASE k <= Len(s)
      <4>1. k - 1 \in 1 .. Len(s) - 1 /\ k - 1 \in 1 .. Len(s)
        BY <1>2, <3>1, <3>4
      <4>2. s[(k - 1) + 1] = nx[s[k - 1]] /\ s[k - 1] # NULL
        BY <1>2, <4>1 DEF Chain
      <4>. QED BY <2>2, <3>1, <3>2, <3>3, <3>4, <4>1, <4>2
    <3>5. CASE ~(k <= Len(s)) /\ k - 1 <= Len(s)
      <4>1. k - 1 = Len(s) /\ k - 1 \in 1 .. Len(s) /\ s # << >>
        BY <1>2, <3>1, <3>5
      <4>2. nx[s[k - 1]] = NULL
        BY <4>1 DEF Chain
      <4>. QED BY <2>2, <3>2, <3>3, <3>5, <4>2
    <3>6. CASE ~(k <= Len(s)) /\ ~(k - 1 <= Len(s))
      BY <2>2, <3>2, <3>3, <3>6
    <3>. QED BY <3>4, <3>5, <3>6
  <2>. QED BY <2>1, <2>2
<1>4. Along(W)
  <2>1. W = [k \in 1 .. MaxNode |-> W[k]]
    OBVIOUS
  <2> HIDE DEF W, Turn
  <2>. QED BY <1>3, <2>1
<1>5. Along(F)
  <2> HIDE DEF Along, W
  <2>1. \E g : Along(g)
    BY <1>4
  <2>. QED BY <2>1
<1>6. \A k \in 1 .. MaxNode : F[k] = Turn(F, k)
  <2> HIDE DEF F, Turn
  <2>. QED BY <1>5
<1> HIDE DEF F, W, Along
<1>7. ASSUME NEW k \in 1 .. MaxNode, k # 1 => F[k - 1] = W[k - 1]
      PROVE  F[k] = W[k]
  <2>1. F[k] = Turn(F, k) /\ W[k] = Turn(W, k)
    BY <1>3, <1>6
  <2>2. Turn(F, k) = Turn(W, k)
    BY <1>7
  <2> HIDE DEF Turn
  <2>. QED BY <2>1, <2>2
<1>8. \A k \in 1 .. MaxNode : F[k] = W[k]
  <2> DEFINE T == {k \in 1 .. MaxNode : F[k] # W[k]}
  <2>1. SUFFICES ASSUME T # {} PROVE FALSE
    OBVIOUS
  <2>2. T \in SUBSET Nat
    BY NodeFacts
  <2>3. PICK k \in T : \A j \in T : k <= j
    BY <2>1, <2>2, LeastNode
  <2>4. k \in 1 .. MaxNode /\ F[k] # W[k] /\ k \in Nat
    BY <2>2
  <2>5. k # 1 => k - 1 \in 1 .. MaxNode /\ ~(k <= k - 1)
    BY <2>4, NodeFacts
  <2>6. k # 1 => F[k - 1] = W[k - 1]
    BY <2>3, <2>5
  <2>. QED BY <1>7, <2>4, <2>6
<1>9. Used = 1 .. Len(s)
  <2>1. \A k \in 1 .. MaxNode : F[k] # NULL <=> k <= Len(s)
    <3>1. ASSUME NEW k \in 1 .. MaxNode
          PROVE  F[k] # NULL <=> k <= Len(s)
      <4>1. F[k] = IF k <= Len(s) THEN s[k] ELSE NULL
        BY <1>8 DEF W
      <4>2. k <= Len(s) => k \in 1 .. Len(s)
        BY <1>2, NodeFacts
      <4>. QED BY <1>2, <4>1, <4>2
    <3>. QED BY <3>1
  <2>. QED BY <1>2, <2>1, NodeFacts
<1>10. Cardinality(Used) = Len(s)
  <2>1. Cardinality(1 .. Len(s)) = Len(s)
    BY <1>2, FS_Interval
  <2>. QED BY <1>9, <2>1
<1>11. \A k \in 1 .. Len(s) : F[k] = s[k]
  BY <1>2, <1>8, NodeFacts DEF W
<1>12. List(nx, n) = [k \in 1 .. Len(s) |-> s[k]]
  BY <1>1, <1>10, <1>11
<1>. QED BY <1>2, <1>12

LEMMA ChainGrows ==
  ASSUME NEW nx, Rising(nx), NEW n \in Nodes, NEW s, Chain(nx, nx[n], s)
  PROVE  Chain(nx, n, << n >> \o s)
<1> DEFINE t == << n >> \o s
<1>1. s \in Seq(Nodes) /\ Len(s) \in Nat /\ n # NULL
  BY NodeFacts DEF Chain
<1>2. t \in Seq(Nodes) /\ Len(t) = Len(s) + 1 /\ t[1] = n /\ t # << >>
  BY <1>1
<1>3. \A i \in 1 .. Len(s) : t[i + 1] = s[i]
  BY <1>1
<1> HIDE DEF t
<1>4. CASE s = << >>
  <2>1. nx[n] = NULL /\ Len(s) = 0
    BY <1>4 DEF Chain
  <2>. QED BY <1>1, <1>2, <2>1 DEF Chain, t
<1>5. CASE s # << >>
  <2>1. s[1] = nx[n] /\ nx[s[Len(s)]] = NULL /\ Len(s) > 0
    BY <1>1, <1>5 DEF Chain
  <2>2. t[Len(t)] = s[Len(s)]
    BY <1>1, <1>2, <1>3, <2>1
  <2>3. ASSUME NEW i \in 1 .. Len(t) - 1
        PROVE  t[i + 1] = nx[t[i]]
    <3>1. i \in 1 .. Len(s) /\ t[i + 1] = s[i]
      BY <1>1, <1>2, <1>3
    <3>2. CASE i = 1
      BY <1>2, <2>1, <3>1, <3>2
    <3>3. CASE i # 1
      <4>1. i - 1 \in 1 .. Len(s) - 1 /\ i - 1 \in 1 .. Len(s) /\ (i - 1) + 1 = i
        BY <1>1, <3>1, <3>3
      <4>2. s[(i - 1) + 1] = nx[s[i - 1]] /\ t[(i - 1) + 1] = s[i - 1]
        BY <1>3, <4>1 DEF Chain
      <4>. QED BY <3>1, <4>1, <4>2
    <3>. QED BY <3>2, <3>3
  <2>. QED BY <1>1, <1>2, <2>1, <2>2, <2>3 DEF Chain, t
<1>. QED BY <1>4, <1>5

LEMMA ChainExists ==
  ASSUME NEW nx, Rising(nx), NEW n \in Nodes \cup {NULL}
  PROVE  \E s : Chain(nx, n, s)
<1>1. Chain(nx, NULL, << >>)
  BY DEF Chain
<1>2. \A m \in Nodes : \E s : Chain(nx, m, s)
  <2> DEFINE T == { k \in 0 .. MaxNode : MaxNode - k \in Nodes /\ ~\E s : Chain(nx, MaxNode - k, s) }
  <2>1. ASSUME T # {} PROVE FALSE
    <3>1. T \in SUBSET Nat
      BY NodeFacts
    <3>2. PICK k \in T : \A j \in T : k <= j
      BY <2>1, <3>1, LeastNode
    <3> DEFINE m == MaxNode - k
    <3>3. k \in 0 .. MaxNode /\ m \in Nodes /\ ~\E s : Chain(nx, m, s)
      OBVIOUS
    <3>4. nx[m] \in Nodes \cup {NULL} /\ (nx[m] # NULL => nx[m] > m)
      BY <3>3 DEF Rising
    <3>5. \E s : Chain(nx, nx[m], s)
      <4>1. CASE nx[m] = NULL
        BY <1>1, <4>1
      <4>2. CASE nx[m] # NULL
        <5> DEFINE j == MaxNode - nx[m]
        <5>1. nx[m] \in Nat /\ nx[m] <= MaxNode /\ nx[m] > MaxNode - k /\ nx[m] \in Nodes
          BY <3>4, <4>2, NodeFacts
        <5>2. j \in 0 .. MaxNode /\ ~(k <= j) /\ MaxNode - j = nx[m]
          BY <3>3, <5>1, NodeFacts
        <5> HIDE DEF m, j
        <5>3. j \notin T
          BY <3>2, <5>2
        <5>. QED BY <5>1, <5>2, <5>3
      <4>. QED BY <4>1, <4>2
    <3> HIDE DEF m
    <3>. QED BY <3>3, <3>5, ChainGrows
  <2>2. ASSUME NEW m \in Nodes PROVE \E s : Chain(nx, m, s)
    <3> DEFINE k == MaxNode - m
    <3>1. k \in 0 .. MaxNode /\ MaxNode - k = m
      BY NodeFacts
    <3> HIDE DEF k
    <3>2. k \notin T
      BY <2>1
    <3>. QED BY <3>1, <3>2
  <2>. QED BY <2>2
<1>. QED BY <1>1, <1>2

LEMMA ListFacts ==
  ASSUME NEW nx, Rising(nx), NEW n \in Nodes \cup {NULL}
  PROVE  Chain(nx, n, List(nx, n))
BY ChainExists, ChainIsList
(* The nodes of a list, as a set: closed under the links, and within every  *)
(* set that is                                                              *)
In(nx, n) == Members(List(nx, n))

LEMMA InFacts ==
  ASSUME NEW nx, Rising(nx), NEW n \in Nodes \cup {NULL}
  PROVE  /\ In(nx, n) \subseteq Nodes
         /\ n = NULL => In(nx, n) = {}
         /\ n # NULL => n \in In(nx, n)
         /\ \A x \in In(nx, n) : nx[x] # NULL => nx[x] \in In(nx, n)
<1> DEFINE s == List(nx, n)
<1>1. Chain(nx, n, s) /\ In(nx, n) = { s[k] : k \in DOMAIN s }
  BY ListFacts DEF In, Members
<1> HIDE DEF s
<1>2. s \in Seq(Nodes) /\ Len(s) \in Nat /\ DOMAIN s = 1 .. Len(s) /\ (s = << >> <=> n = NULL)
  BY <1>1 DEF Chain
<1>3. \A x : x \in In(nx, n) <=> \E k \in 1 .. Len(s) : x = s[k]
  BY <1>1, <1>2
<1>4. In(nx, n) \subseteq Nodes
  BY <1>2, <1>3
<1>5. n = NULL => In(nx, n) = {}
  <2>1. ASSUME n = NULL PROVE In(nx, n) = {}
    <3>1. Len(s) = 0
      BY <1>2, <2>1
    <3>. QED BY <1>3, <3>1
  <2>. QED BY <2>1
<1>6. n # NULL => n \in In(nx, n)
  <2>1. ASSUME n # NULL PROVE n \in In(nx, n)
    <3>1. s # << >> /\ s[1] = n
      BY <1>1, <2>1 DEF Chain
    <3>2. 1 \in 1 .. Len(s)
      BY <1>2, <3>1
    <3>. QED BY <1>3, <3>1, <3>2
  <2>. QED BY <2>1
<1>7. ASSUME NEW x \in In(nx, n), nx[x] # NULL
      PROVE  nx[x] \in In(nx, n)
  <2>1. PICK k \in 1 .. Len(s) : x = s[k]
    BY <1>3
  <2>2. k # Len(s)
    <3>1. s # << >>
      BY <1>2, <1>7, <2>1
    <3>. QED BY <1>1, <1>7, <2>1, <3>1 DEF Chain
  <2>3. k \in 1 .. Len(s) - 1 /\ k + 1 \in 1 .. Len(s)
    <3>1. Len(s) \in Nat
      BY <1>2
    <3>. QED BY <2>2, <3>1
  <2>4. s[k + 1] = nx[x]
    BY <1>1, <2>1, <2>3 DEF Chain
  <2>. QED BY <1>3, <2>3, <2>4
<1>. QED BY <1>4, <1>5, <1>6, <1>7

LEMMA InLeast ==
  ASSUME NEW nx, Rising(nx), NEW n \in Nodes \cup {NULL}, NEW S,
         n # NULL => n \in S,
         \A x \in S \cap Nodes : nx[x] # NULL => nx[x] \in S
  PROVE  In(nx, n) \subseteq S
<1> DEFINE s == List(nx, n)
<1>1. Chain(nx, n, s) /\ In(nx, n) = { s[k] : k \in DOMAIN s }
  BY ListFacts DEF In, Members
<1> HIDE DEF s
<1>2. s \in Seq(Nodes) /\ Len(s) \in Nat /\ DOMAIN s = 1 .. Len(s) /\ (s = << >> <=> n = NULL)
  BY <1>1 DEF Chain
<1> DEFINE T == { k \in 1 .. Len(s) : s[k] \notin S }
<1>3. SUFFICES ASSUME T # {} PROVE FALSE
  BY <1>1, <1>2
<1>4. T \in SUBSET Nat
  BY <1>2
<1>5. PICK k \in T : \A j \in T : k <= j
  BY <1>3, <1>4, LeastNode
<1>6. k \in 1 .. Len(s) /\ s[k] \notin S /\ s # << >>
  BY <1>2
<1>7. k # 1
  BY <1>1, <1>2, <1>6 DEF Chain
<1>8. k - 1 \in 1 .. Len(s) - 1 /\ k - 1 \in 1 .. Len(s) /\ ~(k <= k - 1) /\ (k - 1) + 1 = k
  BY <1>2, <1>6, <1>7
<1>9. s[k - 1] \in S \cap Nodes
  BY <1>2, <1>5, <1>8
<1>10. s[k] = nx[s[k - 1]] /\ s[k] # NULL
  BY <1>1, <1>2, <1>6, <1>8, NodeFacts DEF Chain
<1>. QED BY <1>6, <1>9, <1>10

LEMMA InUnfold ==
  ASSUME NEW nx, Rising(nx), NEW n \in Nodes
  PROVE  nx[n] \in Nodes \cup {NULL} /\ In(nx, n) \subseteq {n} \cup In(nx, nx[n])
         /\ In(nx, nx[n]) \subseteq In(nx, n)
<1>1. nx[n] \in Nodes \cup {NULL} /\ n # NULL
  BY NodeFacts DEF Rising
<1>2. In(nx, n) \subseteq {n} \cup In(nx, nx[n])
  <2> DEFINE S == {n} \cup In(nx, nx[n])
  <2>1. nx[n] # NULL => nx[n] \in In(nx, nx[n])
    BY <1>1, InFacts
  <2>2. \A x \in In(nx, nx[n]) : nx[x] # NULL => nx[x] \in In(nx, nx[n])
    BY <1>1, InFacts
  <2>3. \A x \in S \cap Nodes : nx[x] # NULL => nx[x] \in S
    BY <2>1, <2>2
  <2>4. n \in S
    OBVIOUS
  <2> HIDE DEF S
  <2>5. In(nx, n) \subseteq S
    BY <2>3, <2>4, InLeast
  <2>. QED BY <2>5 DEF S
<1>3. In(nx, nx[n]) \subseteq In(nx, n)
  <2> DEFINE S == In(nx, n)
  <2>1. n \in S /\ \A x \in S : nx[x] # NULL => nx[x] \in S
    BY <1>1, InFacts
  <2>2. nx[n] # NULL => nx[n] \in S
    BY <2>1
  <2> HIDE DEF S
  <2>3. In(nx, nx[n]) \subseteq S
    BY <1>1, <2>1, <2>2, InLeast
  <2>. QED BY <2>3 DEF S
<1>. QED BY <1>1, <1>2, <1>3

(* A list is in increasing order, and what links to nothing is its last *)
LEMMA ListOrder ==
  ASSUME NEW nx, Rising(nx), NEW n \in Nodes \cup {NULL}
  PROVE  LET s == List(nx, n) IN
         /\ \A i, j \in DOMAIN s : s[i] = s[j] => i = j
         /\ \A x \in In(nx, n) : nx[x] = NULL => x = s[Len(s)]
         /\ s # << >> => n # NULL
         /\ \A i \in DOMAIN s : i + 1 \in DOMAIN s => s[i + 1] = nx[s[i]]
         /\ \A x \in In(nx, n) : x # n => \E i \in DOMAIN s : i + 1 \in DOMAIN s /\ s[i + 1] = x
         /\ n # NULL => s # << >> /\ s[1] = n
<1> DEFINE s == List(nx, n)
<1>1. Chain(nx, n, s) /\ In(nx, n) = { s[k] : k \in DOMAIN s }
  BY ListFacts DEF In, Members
<1> HIDE DEF s
<1>2. s \in Seq(Nodes) /\ Len(s) \in Nat /\ DOMAIN s = 1 .. Len(s) /\ (s = << >> <=> n = NULL)
  BY <1>1 DEF Chain
<1>3. \A i, j \in DOMAIN s : s[i] = s[j] => i = j
  <2> SUFFICES ASSUME NEW i \in 1 .. Len(s), NEW j \in 1 .. Len(s), s[i] = s[j] PROVE i = j
    BY <1>2
  <2>1. n \in Nodes
    BY <1>2
  <2>2. s[i] \in Nat /\ s[j] \in Nat
    BY <1>2, NodeFacts
  <2>3. i < j => s[i] < s[j]
    BY <1>1, <2>1, ChainRises
  <2>4. j < i => s[j] < s[i]
    BY <1>1, <2>1, ChainRises
  <2>. QED BY <2>2, <2>3, <2>4
<1>4. \A i \in DOMAIN s : i + 1 \in DOMAIN s => s[i + 1] = nx[s[i]]
  <2> SUFFICES ASSUME NEW i \in 1 .. Len(s), i + 1 \in 1 .. Len(s) PROVE s[i + 1] = nx[s[i]]
    BY <1>2
  <2>1. i \in 1 .. Len(s) - 1
    BY <1>2
  <2>. QED BY <1>1, <2>1 DEF Chain
<1>5. ASSUME NEW x \in In(nx, n), nx[x] = NULL
      PROVE  x = s[Len(s)]
  <2>1. PICK i \in 1 .. Len(s) : x = s[i]
    BY <1>1, <1>2
  <2>2. CASE i # Len(s)
    <3>0. Len(s) \in Nat
      BY <1>2
    <3>1. i + 1 \in 1 .. Len(s)
      BY <2>2, <3>0
    <3>2. s[i + 1] = NULL /\ s[i + 1] \in Nodes
      BY <1>2, <1>4, <1>5, <2>1, <3>1
    <3>. QED BY <3>2, NodeFacts
  <2>. QED BY <2>1, <2>2
<1>6. ASSUME NEW x \in In(nx, n), x # n
      PROVE  \E i \in DOMAIN s : i + 1 \in DOMAIN s /\ s[i + 1] = x
  <2>1. PICK i \in 1 .. Len(s) : x = s[i]
    BY <1>1, <1>2
  <2>2. i # 1
    BY <1>1, <1>2, <1>6, <2>1 DEF Chain
  <2>3. i - 1 \in DOMAIN s /\ (i - 1) + 1 \in DOMAIN s /\ s[(i - 1) + 1] = x
    BY <1>2, <2>1, <2>2
  <2>. QED BY <2>3
<1>7. (s # << >> => n # NULL) /\ (n # NULL => s # << >> /\ s[1] = n)
  BY <1>1, <1>2 DEF Chain
<1>. QED BY <1>3, <1>4, <1>5, <1>6, <1>7 DEF s
-----------------------------------------------------------------------------
(* What add_child and remove do to the lists *)
LEMMA Appended ==
  ASSUME NEW nx, Rising(nx), NEW t \in Nodes, NEW m \in Nodes, nx[t] = NULL, nx[m] = NULL, t < m,
         NEW ny, ny = [nx EXCEPT ![t] = m]
  PROVE  /\ Rising(ny)
         /\ \A x \in Nodes \cup {NULL} : In(nx, x) \subseteq In(ny, x) /\ In(ny, x) \subseteq In(nx, x) \cup {m}
         /\ ny[m] = NULL /\ ny[t] = m
<1>1. ny \in [Nodes -> Nodes \cup {NULL}] /\ ny[t] = m /\ m # t
      /\ \A x \in Nodes : x # t => ny[x] = nx[x]
  BY NodeFacts DEF Rising
<1>2. Rising(ny)
  BY <1>1, NodeFacts DEF Rising
<1>3. ASSUME NEW x \in Nodes \cup {NULL}
      PROVE  In(nx, x) \subseteq In(ny, x) /\ In(ny, x) \subseteq In(nx, x) \cup {m}
  <2> DEFINE S == In(ny, x)
             U == In(nx, x) \cup {m}
  <2>1. S \subseteq Nodes /\ (x # NULL => x \in S) /\ \A y \in S : ny[y] # NULL => ny[y] \in S
    BY <1>2, InFacts
  <2>2. U \subseteq Nodes /\ (x # NULL => x \in U) /\ \A y \in In(nx, x) : nx[y] # NULL => nx[y] \in U
    BY InFacts
  <2>3. \A y \in S \cap Nodes : nx[y] # NULL => nx[y] \in S
    BY <1>1, <2>1
  <2>4. \A y \in U \cap Nodes : ny[y] # NULL => ny[y] \in U
    BY <1>1, <2>2
  <2> HIDE DEF S, U
  <2>5. In(nx, x) \subseteq S
    BY <2>1, <2>3, InLeast
  <2>6. In(ny, x) \subseteq U
    BY <1>2, <2>2, <2>4, InLeast
  <2>. QED BY <2>5, <2>6 DEF S, U
<1>. QED BY <1>1, <1>2, <1>3

LEMMA Skipped ==
  ASSUME NEW nx, Rising(nx), NEW p \in Nodes, NEW n \in Nodes, nx[p] = n,
         NEW ny \in [Nodes -> Nodes \cup {NULL}], ny[p] = nx[n],
         \A x \in Nodes : x # p => ny[x] = nx[x]
  PROVE  /\ Rising(ny)
         /\ \A x \in Nodes \cup {NULL} : In(nx, x) \subseteq In(ny, x) \cup {n} /\ In(ny, x) \subseteq In(nx, x)
<1>1. nx[n] \in Nodes \cup {NULL} /\ n # NULL /\ p < n /\ (nx[n] # NULL => n < nx[n])
  BY NodeFacts DEF Rising
<1>2. ny[p] = nx[n] /\ p # n /\ \A x \in Nodes : x # p => ny[x] = nx[x]
  BY <1>1, NodeFacts
<1>3. Rising(ny)
  BY <1>1, <1>2, NodeFacts DEF Rising
<1>4. ASSUME NEW x \in Nodes \cup {NULL}
      PROVE  In(nx, x) \subseteq In(ny, x) \cup {n} /\ In(ny, x) \subseteq In(nx, x)
  <2> DEFINE S == In(ny, x)
             U == In(nx, x)
             V == S \cup {n}
  <2>1. S \subseteq Nodes /\ (x # NULL => x \in S) /\ \A y \in S : ny[y] # NULL => ny[y] \in S
    BY <1>3, InFacts
  <2>2. U \subseteq Nodes /\ (x # NULL => x \in U) /\ \A y \in U : nx[y] # NULL => nx[y] \in U
    BY InFacts
  <2>3. \A y \in U \cap Nodes : ny[y] # NULL => ny[y] \in U
    BY <1>1, <1>2, <2>2
  <2>4. ASSUME n \in S \/ p \in S
        PROVE  In(nx, x) \subseteq V
    <3>1. nx[n] # NULL => nx[n] \in S
      BY <1>1, <1>2, <2>1, <2>4
    <3>2. \A y \in V \cap Nodes : nx[y] # NULL => nx[y] \in V
      BY <1>1, <1>2, <2>1, <3>1
    <3>3. x # NULL => x \in V
      BY <2>1
    <3> HIDE DEF V
    <3>. QED BY <3>2, <3>3, InLeast
  <2>5. ASSUME ~(n \in S \/ p \in S)
        PROVE  In(nx, x) \subseteq V
    <3>1. \A y \in S \cap Nodes : nx[y] # NULL => nx[y] \in S
      BY <1>2, <2>1, <2>5
    <3> HIDE DEF S
    <3>2. In(nx, x) \subseteq S
      BY <2>1, <3>1, InLeast
    <3>. QED BY <3>2
  <2> HIDE DEF U
  <2>6. In(ny, x) \subseteq U
    BY <1>3, <2>2, <2>3, InLeast
  <2>7. In(nx, x) \subseteq V
    BY <2>4, <2>5
  <2>. QED BY <2>6, <2>7 DEF U
<1>. QED BY <1>2, <1>3, <1>4

-----------------------------------------------------------------------------
(* The invariant: younger nodes have larger numbers and links lead to them, *)
(* also from nodes that were removed; all entries that a list leads to are  *)
(* of one directory.                                                        *)
NodesOK ==
  /\ type \in [Nodes -> {"unused", "dir", "file"}]
  /\ name \in [Nodes -> Names \cup {"", ".."}]
  /\ parent \in [Nodes -> Nodes \cup {NULL}]
  /\ clist \in [Nodes -> Nodes \cup {NULL}] /\ ctail \in [Nodes -> Nodes \cup {NULL}]
  /\ fsnode \in [Nodes -> Handles \cup {NULL}]
  /\ type[Root] = "dir"
  /\ \A n \in Nodes : parent[n] = NULL <=> n = Root \/ type[n] = "unused"
  /\ \A n \in Nodes : parent[n] # NULL => type[parent[n]] = "dir"

LinksOK ==
  /\ Rising(next)
  /\ \A n \in Nodes : next[n] # NULL => parent[n] # NULL /\ parent[next[n]] = parent[n]
  /\ \A n, m \in Nodes : type[n] = "unused" /\ type[m] # "unused" => m < n

ListsOK ==
  \A d \in Nodes : clist[d] # NULL =>
    /\ parent[clist[d]] = d /\ type[d] = "dir"
    /\ ctail[d] \in In(next, clist[d]) /\ next[ctail[d]] = NULL

NamesDiffer ==
  \A d \in Nodes : \A n, m \in In(next, clist[d]) :
    Same(n, m) => n \in taken \/ m \in taken \/ (d = Root /\ name[n] = "..")

DirHandlesOK ==
  /\ open_ \in [Handles -> [node : Nodes \cup {NULL}, cur : Nodes \cup {NULL}]]
  /\ \A h \in Handles :
       LET f == open_[h] IN
         /\ f # NotOpen => f.node # NULL
         /\ f.node # NULL => type[f.node] # "unused"
         /\ f.cur # NULL => parent[f.cur] = f.node

ListingsOK == \A h \in Handles : owed[h] \subseteq In(next, open_[h].cur)

TreeInv ==
  /\ NodesOK /\ LinksOK /\ ListsOK /\ NamesDiffer
  /\ DirHandlesOK
  /\ owed \in [Handles -> SUBSET Nodes] /\ ListingsOK

LEMMA ListMembers ==
  ASSUME NEW d
  PROVE  /\ Members(Children(d)) = In(next, clist[d])
         /\ Members(ListFrom(d)) = In(next, d)
BY ListIs DEF Children, In

LEMMA EntriesAre ==
  ASSUME NodesOK, LinksOK, ListsOK, NEW d \in Nodes
  PROVE  \A x \in In(next, clist[d]) : x \in Nodes /\ parent[x] = d /\ type[x] # "unused"
<1>1. clist[d] \in Nodes \cup {NULL} /\ (clist[d] # NULL => parent[clist[d]] = d)
  BY DEF NodesOK, ListsOK
<1>2. \A x \in In(next, clist[d]) : x \in Nodes /\ parent[x] = d
  <2> DEFINE S == { x \in Nodes : parent[x] = d }
             c == clist[d]
  <2>1. c \in Nodes \cup {NULL} /\ (c # NULL => c \in S)
    BY <1>1
  <2>2. \A x \in S \cap Nodes : next[x] # NULL => next[x] \in S
    BY DEF LinksOK, Rising
  <2>3. Rising(next)
    BY DEF LinksOK
  <2> HIDE DEF S, c
  <2>4. In(next, c) \subseteq S
    BY <2>1, <2>2, <2>3, InLeast
  <2>. QED BY <2>4 DEF S, c
<1>3. \A x \in Nodes : parent[x] = d => type[x] # "unused"
  BY NodeFacts DEF NodesOK
<1>. QED BY <1>2, <1>3

(* find_entry and open's walk only come to nodes that are there; and when   *)
(* find_entry finds nothing then no entry has the name.                     *)
LEMMA FindFacts ==
  ASSUME NodesOK, LinksOK, ListsOK, NEW d \in Nodes, type[d] # "unused", NEW nm
  PROVE  LET e == find_entry(d, nm) IN
         /\ e \in Nodes \cup {NULL} /\ (e # NULL => type[e] # "unused")
         /\ e = NULL => /\ nm # "."
                        /\ nm = ".." => d = Root
                        /\ nm # ".." => \A x \in In(next, clist[d]) : name[x] # nm
<1> DEFINE list == Children(d)
           hits == { k \in DOMAIN list : name[list[k]] = nm }
           first == list[CHOOSE k \in hits : \A j \in hits : k <= j]
           found == IF hits = {} THEN NULL ELSE first
<1>1. find_entry(d, nm) = CASE nm = "."  -> d [] nm = ".." -> parent[d] [] OTHER -> found
  BY DEF find_entry
<1>2. clist[d] \in Nodes \cup {NULL} /\ Rising(next)
  BY DEF NodesOK, LinksOK
<1>3. list = List(next, clist[d]) /\ In(next, clist[d]) = { list[k] : k \in DOMAIN list }
  BY ListIs DEF Children, In, Members
<1>4. list \in Seq(Nodes) /\ DOMAIN list \subseteq Nat
  <2>1. list \in Seq(Nodes)
    BY <1>2, <1>3, ListFacts DEF Chain
  <2> HIDE DEF list
  <2>. QED BY <2>1
<1> HIDE DEF list
<1>5. ASSUME hits # {}
      PROVE  first \in Nodes /\ first # NULL /\ type[first] # "unused"
  <2>1. hits \in SUBSET Nat
    BY <1>4
  <2>2. \E k \in hits : \A j \in hits : k <= j
    BY <1>5, <2>1, LeastNode
  <2> DEFINE c == CHOOSE k \in hits : \A j \in hits : k <= j
  <2>3. c \in hits
    BY <2>2
  <2>4. first = list[c] /\ c \in DOMAIN list
    BY <2>3
  <2>5. first \in In(next, clist[d])
    BY <1>3, <2>4
  <2> HIDE DEF first
  <2>. QED BY <2>5, EntriesAre, NodeFacts
<1>6. hits = {} => \A x \in In(next, clist[d]) : name[x] # nm
  BY <1>3
<1>7. d # NULL /\ parent[d] \in Nodes \cup {NULL} /\ (parent[d] = NULL => d = Root)
      /\ (parent[d] # NULL => type[parent[d]] # "unused")
  BY NodeFacts DEF NodesOK
<1> HIDE DEF hits, first
<1>8. CASE nm = "."
  <2>1. find_entry(d, nm) = d
    BY <1>1, <1>8
  <2>. QED BY <1>7, <2>1
<1>9. CASE nm = ".."
  <2>1. find_entry(d, nm) = parent[d]
    BY <1>1, <1>9
  <2>. QED BY <1>7, <1>9, <2>1
<1>10. CASE nm # "." /\ nm # ".."
  <2>1. find_entry(d, nm) = found
    <3> HIDE DEF found
    <3>. QED BY <1>1, <1>10
  <2>. QED BY <1>5, <1>6, <1>10, <2>1
<1>. QED BY <1>8, <1>9, <1>10

LEMMA LookupFacts ==
  ASSUME NodesOK, LinksOK, ListsOK, NEW path, NEW sz \in Nat
  PROVE  /\ Lookup(path, sz) \in Nodes \cup {NULL}
         /\ Lookup(path, sz) # NULL => type[Lookup(path, sz)] # "unused"
<1> DEFINE Turn(g, j) == IF j = 0 THEN Root
                         ELSE IF g[j - 1] = NULL THEN NULL
                         ELSE IF type[g[j - 1]] # "dir" THEN NULL
                         ELSE find_entry(g[j - 1], path[j])
           Run(g, m) == g = [k \in 0 .. m |-> Turn(g, k)]
           F == CHOOSE g : Run(g, sz)
           Got(n) == n \in Nodes \cup {NULL} /\ (n # NULL => type[n] # "unused")
<1>1. Lookup(path, sz) = F[sz]
  BY DEF Lookup
<1>2. ASSUME NEW m \in Nat, \E g : m # 0 => Run(g, m - 1)
      PROVE  \E g : Run(g, m)
  <2>1. PICK g : m # 0 => Run(g, m - 1)
    BY <1>2
  <2> DEFINE h == [k \in 0 .. m |-> IF k = m THEN Turn(g, m) ELSE g[k]]
  <2>2. ASSUME NEW k \in 0 .. m
        PROVE  h[k] = Turn(h, k)
    <3>1. k # 0 => k - 1 \in 0 .. m /\ k - 1 # m
      OBVIOUS
    <3>2. k # 0 => h[k - 1] = g[k - 1]
      BY <3>1
    <3>3. Turn(h, k) = Turn(g, k)
      <4> HIDE DEF h
      <4>. QED BY <3>2
    <3>4. CASE k = m
      <4> HIDE DEF Turn
      <4>1. h[k] = Turn(g, m)
        BY <3>4
      <4> HIDE DEF h
      <4>. QED BY <3>3, <3>4, <4>1
    <3>5. CASE k # m
      <4>1. k \in 0 .. m - 1 /\ m # 0
        BY <3>5
      <4> HIDE DEF Turn
      <4>2. g[k] = Turn(g, k)
        BY <2>1, <4>1
      <4>3. h[k] = g[k]
        BY <3>5
      <4> HIDE DEF h
      <4>. QED BY <3>3, <4>2, <4>3
    <3>. QED BY <3>4, <3>5
  <2>3. h = [k \in 0 .. m |-> h[k]]
    OBVIOUS
  <2> HIDE DEF h, Turn
  <2>4. Run(h, m)
    BY <2>2, <2>3
  <2> HIDE DEF Run
  <2>. QED BY <2>4
<1> HIDE DEF Run
<1>3. \E g : Run(g, sz)
  <2> DEFINE T == {m \in Nat : ~\E g : Run(g, m)}
  <2>1. SUFFICES ASSUME T # {} PROVE FALSE
    OBVIOUS
  <2>2. T \in SUBSET Nat
    OBVIOUS
  <2>3. PICK m \in T : \A j \in T : m <= j
    BY <2>1, <2>2, LeastNode
  <2>4. m # 0 => m - 1 \in Nat /\ ~(m <= m - 1)
    OBVIOUS
  <2>5. m # 0 => m - 1 \notin T
    BY <2>3, <2>4
  <2>6. m # 0 => \E g : Run(g, m - 1)
    BY <2>4, <2>5
  <2>. QED BY <1>2, <2>6
<1>4. Run(F, sz)
  BY <1>3
<1>5. \A k \in 0 .. sz : F[k] = Turn(F, k)
  <2> HIDE DEF F, Turn
  <2>. QED BY <1>4 DEF Run
<1> HIDE DEF F
<1>6. \A k \in 0 .. sz : Got(F[k])
  <2> HIDE DEF Got
  <2> DEFINE T == {k \in 0 .. sz : ~Got(F[k])}
  <2>1. SUFFICES ASSUME T # {} PROVE FALSE
    OBVIOUS
  <2>2. T \in SUBSET Nat
    OBVIOUS
  <2>3. PICK k \in T : \A j \in T : k <= j
    BY <2>1, <2>2, LeastNode
  <2>4. k \in 0 .. sz /\ ~Got(F[k]) /\ F[k] = Turn(F, k)
    BY <1>5
  <2>5. k # 0
    <3>1. Root \in Nodes /\ type[Root] # "unused"
      BY NodeFacts DEF NodesOK
    <3>2. Got(Root)
      BY <3>1 DEF Got
    <3>. QED BY <2>4, <3>2
  <2>6. k - 1 \in 0 .. sz /\ ~(k <= k - 1)
    BY <2>4, <2>5
  <2>7. Got(F[k - 1])
    BY <2>3, <2>6
  <2>8. Got(NULL)
    BY DEF Got
  <2>9. CASE F[k - 1] = NULL
    BY <2>4, <2>5, <2>8, <2>9
  <2>10. CASE F[k - 1] # NULL /\ type[F[k - 1]] # "dir"
    BY <2>4, <2>5, <2>8, <2>10
  <2>11. CASE F[k - 1] # NULL /\ type[F[k - 1]] = "dir"
    <3>1. F[k - 1] \in Nodes /\ type[F[k - 1]] # "unused"
      BY <2>7, <2>11 DEF Got
    <3>2. Got(find_entry(F[k - 1], path[k]))
      BY <3>1, FindFacts DEF Got
    <3>. QED BY <2>4, <2>5, <2>11, <3>2
  <2>. QED BY <2>9, <2>10, <2>11
<1>7. Got(F[sz])
  BY <1>6
<1>. QED BY <1>1, <1>7
-----------------------------------------------------------------------------
(* The steps.  add_child puts a new node at the end of one list and leaves  *)
(* the other lists alone.                                                   *)
LEMMA AddChildFacts ==
  ASSUME NodesOK, LinksOK, ListsOK, NEW d \in Nodes, type[d] = "dir",
         NEW n \in Nodes, type[n] = "unused", add_child(d, n)
  PROVE  /\ Rising(next') /\ next'[n] = NULL
         /\ \A x \in Nodes \cup {NULL} : In(next, x) \subseteq In(next', x)
         /\ \A x \in Nodes : next'[x] # NULL => next'[x] = next[x] \/ (next'[x] = n /\ parent[x] = d)
         /\ clist' \in [Nodes -> Nodes \cup {NULL}] /\ ctail' \in [Nodes -> Nodes \cup {NULL}]
         /\ clist'[d] = (IF clist[d] = NULL THEN n ELSE clist[d])
         /\ n \in In(next', clist'[d]) /\ ctail'[d] = n
         /\ In(next', clist'[d]) \subseteq In(next, clist[d]) \cup {n}
         /\ \A e \in Nodes : e # d =>
              /\ clist'[e] = clist[e] /\ ctail'[e] = ctail[e]
              /\ In(next', clist[e]) \subseteq In(next, clist[e])
              /\ clist[e] # NULL => next'[ctail[e]] = next[ctail[e]]
<1>1. /\ Rising(next) /\ next \in [Nodes -> Nodes \cup {NULL}]
      /\ clist \in [Nodes -> Nodes \cup {NULL}] /\ ctail \in [Nodes -> Nodes \cup {NULL}]
      /\ n # NULL /\ parent[n] = NULL /\ next[n] = NULL
  BY NodeFacts DEF NodesOK, LinksOK, Rising
<1>2. CASE clist[d] = NULL
  <2>1. clist' = [clist EXCEPT ![d] = n] /\ ctail' = [ctail EXCEPT ![d] = n] /\ next' = next
    BY <1>2 DEF add_child
  <2>2. /\ clist' \in [Nodes -> Nodes \cup {NULL}] /\ ctail' \in [Nodes -> Nodes \cup {NULL}]
        /\ clist'[d] = n /\ ctail'[d] = n
        /\ \A e \in Nodes : e # d => clist'[e] = clist[e] /\ ctail'[e] = ctail[e]
    BY <1>1, <2>1
  <2>3. In(next, n) \subseteq {n} /\ n \in In(next, n)
    BY <1>1, InUnfold, InFacts
  <2>. QED BY <1>1, <1>2, <2>1, <2>2, <2>3
<1>3. CASE clist[d] # NULL
  <2> DEFINE t == ctail[d]
             ny == [next EXCEPT ![t] = n]
  <2>1. next' = ny /\ ctail' = [ctail EXCEPT ![d] = n] /\ clist' = clist
    BY <1>3 DEF add_child
  <2>2. /\ t \in Nodes /\ t \in In(next, clist[d]) /\ next[t] = NULL /\ parent[t] = d /\ type[t] # "unused"
    BY <1>3, EntriesAre DEF ListsOK
  <2>3. t < n
    BY <2>2 DEF LinksOK
  <2> HIDE DEF t
  <2>4. /\ Rising(ny)
        /\ \A x \in Nodes \cup {NULL} : In(next, x) \subseteq In(ny, x) /\ In(ny, x) \subseteq In(next, x) \cup {n}
        /\ ny[n] = NULL /\ ny[t] = n
    BY <1>1, <2>2, <2>3, Appended
  <2>5. \A x \in Nodes : x # t => ny[x] = next[x]
    BY <1>1, <2>2
  <2> HIDE DEF ny
  <2>6. \A x \in Nodes : ny[x] # NULL => ny[x] = next[x] \/ (ny[x] = n /\ parent[x] = d)
    BY <2>2, <2>4, <2>5
  <2>7. n \in In(ny, clist[d]) /\ In(ny, clist[d]) \subseteq In(next, clist[d]) \cup {n}
    <3>1. clist[d] \in Nodes \cup {NULL}
      BY <1>1
    <3>2. t \in In(ny, clist[d])
      BY <2>2, <2>4, <3>1
    <3>3. ny[t] # NULL => ny[t] \in In(ny, clist[d])
      BY <2>4, <3>1, <3>2, InFacts
    <3>. QED BY <1>1, <2>4, <3>1, <3>3
  <2>8. ASSUME NEW e \in Nodes, e # d
        PROVE  /\ In(ny, clist[e]) \subseteq In(next, clist[e])
               /\ clist[e] # NULL => ny[ctail[e]] = next[ctail[e]]
    <3> DEFINE c == clist[e]
               S == In(next, c)
    <3>1. c \in Nodes \cup {NULL}
      BY <1>1
    <3>2. (c # NULL => c \in S) /\ S \subseteq Nodes /\ \A x \in S : next[x] # NULL => next[x] \in S
      BY <1>1, <3>1, InFacts
    <3>3. \A x \in S : parent[x] = e
      BY EntriesAre
    <3>4. t \notin S
      BY <2>2, <2>8, <3>3
    <3>5. \A x \in S \cap Nodes : ny[x] # NULL => ny[x] \in S
      BY <2>5, <3>2, <3>4
    <3>6. c # NULL => ctail[e] \in S
      BY DEF ListsOK
    <3> HIDE DEF S, c
    <3>7. In(ny, c) \subseteq S
      BY <2>4, <3>1, <3>2, <3>5, InLeast
    <3>8. c # NULL => ny[ctail[e]] = next[ctail[e]]
      BY <2>5, <3>2, <3>4, <3>6
    <3>. QED BY <3>7, <3>8 DEF S, c
  <2>9. ctail' \in [Nodes -> Nodes \cup {NULL}] /\ ctail'[d] = n
        /\ \A e \in Nodes : e # d => ctail'[e] = ctail[e]
    BY <1>1, <2>1
  <2>. QED BY <1>1, <1>3, <2>1, <2>4, <2>6, <2>7, <2>8, <2>9
<1>. QED BY <1>2, <1>3

(* An fs_node on a directory or a file starts with the whole list *)
LEMMA FsnodeFacts ==
  ASSUME TreeInv, NEW h \in Handles, NEW n \in Nodes, NEW first, create_fsnode(h, n, first)
  PROVE  /\ open_' = [open_ EXCEPT ![h] = [node |-> n, cur |-> first]]
         /\ fsnode' \in [Nodes -> Handles \cup {NULL}]
         /\ owed' = [owed EXCEPT ![h] = IF type[n] = "dir" THEN In(next, clist[n]) ELSE {}]
<1>1. open_' = [open_ EXCEPT ![h] = [node |-> n, cur |-> first]]
  BY DEF create_fsnode
<1>2. fsnode' \in [Nodes -> Handles \cup {NULL}]
  BY DEF create_fsnode, TreeInv, NodesOK
<1>3. owed' = [owed EXCEPT ![h] = IF type[n] = "dir" THEN In(next, clist[n]) ELSE {}]
  BY ListMembers DEF create_fsnode
<1>. QED BY <1>1, <1>2, <1>3
LEMMA CreateKeeps ==
  ASSUME TreeInv, NEW h \in Handles, NEW path \in Paths, NEW ty \in {"dir", "file"}, create(h, path, ty)
  PROVE  TreeInv'
<1> DEFINE d == Lookup(path, Len(path) - 1)
           n == NewNode
           nm == path[Len(path)]
<1>1. /\ open_[h] = NotOpen /\ path # << >> /\ Unallocated # {}
      /\ d # NULL /\ type[d] = "dir" /\ find_entry(d, nm) = NULL
      /\ type' = [type EXCEPT ![n] = ty] /\ name' = [name EXCEPT ![n] = nm]
      /\ parent' = [parent EXCEPT ![n] = d] /\ add_child(d, n) /\ create_fsnode(h, n, NULL)
      /\ taken' = taken
  BY DEF create
<1>2. path \in Seq(Names \cup {".", ".."}) /\ Len(path) \in Nat /\ Len(path) - 1 \in Nat
      /\ nm \in Names \cup {".", ".."}
  <2>1. path \in Seq(Names \cup {".", ".."})
    BY MemDirAssumption
  <2>2. Len(path) \in Nat /\ Len(path) # 0
    BY <1>1, <2>1
  <2>3. Len(path) \in 1 .. Len(path)
    BY <2>2
  <2>. QED BY <2>1, <2>2, <2>3
<1>3. NodesOK /\ LinksOK /\ ListsOK
  BY DEF TreeInv
<1>4. d \in Nodes
  BY <1>1, <1>2, <1>3, LookupFacts
<1>5. n \in Nodes /\ type[n] = "unused" /\ \A m \in Nodes : type[m] = "unused" => n <= m
  <2>1. Unallocated \in SUBSET Nat
    BY NodeFacts DEF Unallocated
  <2>2. \E m \in Unallocated : \A k \in Unallocated : m <= k
    BY <1>1, <2>1, LeastNode
  <2>3. n \in Unallocated /\ \A m \in Unallocated : n <= m
    BY <2>2 DEF NewNode
  <2> HIDE DEF n
  <2>. QED BY <2>3 DEF Unallocated
<1> HIDE DEF d, n
<1>6. nm \in Names \cup {".."} /\ (nm = ".." => d = Root)
      /\ (nm # ".." => \A x \in In(next, clist[d]) : name[x] # nm)
  <2>1. nm # "." /\ (nm = ".." => d = Root) /\ (nm # ".." => \A x \in In(next, clist[d]) : name[x] # nm)
    BY <1>1, <1>3, <1>4, FindFacts
  <2>. QED BY <1>2, <2>1
<1> HIDE DEF nm
<1>7. /\ Rising(next') /\ next'[n] = NULL
      /\ \A x \in Nodes \cup {NULL} : In(next, x) \subseteq In(next', x)
      /\ \A x \in Nodes : next'[x] # NULL => next'[x] = next[x] \/ (next'[x] = n /\ parent[x] = d)
      /\ clist' \in [Nodes -> Nodes \cup {NULL}] /\ ctail' \in [Nodes -> Nodes \cup {NULL}]
      /\ clist'[d] = (IF clist[d] = NULL THEN n ELSE clist[d])
      /\ n \in In(next', clist'[d]) /\ ctail'[d] = n
      /\ In(next', clist'[d]) \subseteq In(next, clist[d]) \cup {n}
  BY <1>1, <1>3, <1>4, <1>5, AddChildFacts
<1>8. \A e \in Nodes : e # d =>
        /\ clist'[e] = clist[e] /\ ctail'[e] = ctail[e]
        /\ In(next', clist[e]) \subseteq In(next, clist[e])
        /\ clist[e] # NULL => next'[ctail[e]] = next[ctail[e]]
  BY <1>1, <1>3, <1>4, <1>5, AddChildFacts
<1>9. /\ parent[n] = NULL /\ n # Root /\ d # n /\ n # NULL /\ d # NULL /\ clist[n] = NULL
      /\ \A x \in Nodes : next[x] # n
  <2>1. parent[n] = NULL /\ n # Root /\ d # n /\ clist[n] = NULL
    BY <1>1, <1>3, <1>5 DEF NodesOK, ListsOK
  <2>2. \A x \in Nodes : next[x] # n
    BY <1>3, <2>1, <1>5, NodeFacts DEF LinksOK
  <2>. QED BY <1>4, <1>5, <2>1, <2>2, NodeFacts
<1>10. /\ type'[n] = ty /\ name'[n] = nm /\ parent'[n] = d
       /\ \A x \in Nodes : x # n => type'[x] = type[x] /\ name'[x] = name[x] /\ parent'[x] = parent[x]
  BY <1>1, <1>3, <1>5 DEF NodesOK
<1>11. ty # "unused"
  OBVIOUS
<1>12. /\ open_' = [open_ EXCEPT ![h] = [node |-> n, cur |-> NULL]]
       /\ fsnode' \in [Nodes -> Handles \cup {NULL}]
       /\ owed' = [owed EXCEPT ![h] = {}]
  BY <1>1, <1>5, FsnodeFacts
<1>13. NodesOK'
  <2>1. type' \in [Nodes -> {"unused", "dir", "file"}] /\ name' \in [Nodes -> Names \cup {"", ".."}]
        /\ parent' \in [Nodes -> Nodes \cup {NULL}]
    BY <1>1, <1>3, <1>4, <1>5, <1>6 DEF NodesOK
  <2>2. type'[Root] = "dir"
    BY <1>3, <1>9, <1>10, NodeFacts DEF NodesOK
  <2>3. \A x \in Nodes : parent'[x] = NULL <=> x = Root \/ type'[x] = "unused"
    <3> SUFFICES ASSUME NEW x \in Nodes PROVE parent'[x] = NULL <=> x = Root \/ type'[x] = "unused"
      OBVIOUS
    <3>1. parent[x] = NULL <=> x = Root \/ type[x] = "unused"
      BY <1>3 DEF NodesOK
    <3>2. CASE x = n
      BY <1>9, <1>10, <1>11, <3>2
    <3>3. CASE x # n
      BY <1>10, <3>1, <3>3
    <3>. QED BY <3>2, <3>3
  <2>4. \A x \in Nodes : parent'[x] # NULL => type'[parent'[x]] = "dir"
    <3> SUFFICES ASSUME NEW x \in Nodes, parent'[x] # NULL PROVE type'[parent'[x]] = "dir"
      OBVIOUS
    <3>1. CASE x = n
      BY <1>1, <1>4, <1>9, <1>10, <3>1
    <3>2. CASE x # n
      <4>1. parent'[x] = parent[x] /\ parent[x] \in Nodes /\ type[parent[x]] = "dir"
        <5>1. parent'[x] = parent[x]
          BY <1>10, <3>2
        <5>2. parent[x] \in Nodes \cup {NULL} /\ (parent[x] # NULL => type[parent[x]] = "dir")
          BY <1>3 DEF NodesOK
        <5>. QED BY <5>1, <5>2
      <4>. QED BY <1>5, <1>10, <4>1
    <3>. QED BY <3>1, <3>2
  <2>. QED BY <1>7, <1>12, <2>1, <2>2, <2>3, <2>4 DEF NodesOK
<1>14. LinksOK'
  <2>1. ASSUME NEW x \in Nodes, next'[x] # NULL
        PROVE  parent'[x] # NULL /\ parent'[next'[x]] = parent'[x]
    <3>1. CASE next'[x] = n /\ parent[x] = d
      BY <1>9, <1>10, <3>1
    <3>2. CASE next'[x] = next[x]
      <4>1. next[x] \in Nodes /\ parent[x] # NULL /\ parent[next[x]] = parent[x] /\ next[x] # n
        BY <1>3, <1>9, <2>1, <3>2 DEF LinksOK, Rising
      <4>. QED BY <1>9, <1>10, <3>2, <4>1
    <3>. QED BY <1>7, <2>1, <3>1, <3>2
  <2>2. ASSUME NEW x \in Nodes, NEW y \in Nodes, type'[x] = "unused", type'[y] # "unused"
        PROVE  y < x
    <3>1. x # n /\ type[x] = "unused"
      BY <1>10, <1>11, <2>2
    <3>2. n <= x /\ n < x
      BY <1>5, <3>1, NodeFacts
    <3>3. CASE y = n
      BY <3>2, <3>3
    <3>4. CASE y # n
      BY <1>3, <1>10, <2>2, <3>1, <3>4 DEF LinksOK
    <3>. QED BY <3>3, <3>4
  <2>. QED BY <1>7, <2>1, <2>2 DEF LinksOK
<1>15. ListsOK'
  <2> SUFFICES ASSUME NEW e \in Nodes, clist'[e] # NULL
               PROVE  /\ parent'[clist'[e]] = e /\ type'[e] = "dir"
                      /\ ctail'[e] \in In(next', clist'[e]) /\ next'[ctail'[e]] = NULL
    BY DEF ListsOK
  <2>1. CASE e = d
    <3>1. parent'[clist'[d]] = d
      <4>1. CASE clist[d] = NULL
        BY <1>7, <1>10, <4>1
      <4>2. CASE clist[d] # NULL
        <5>1. parent[clist[d]] = d /\ clist[d] \in Nodes /\ clist[d] # n
          <6>1. parent[clist[d]] = d
            BY <1>3, <1>4, <4>2 DEF ListsOK
          <6>2. clist[d] \in Nodes \cup {NULL}
            BY <1>3, <1>4 DEF NodesOK
          <6>. QED BY <1>9, <4>2, <6>1, <6>2
        <5>. QED BY <1>7, <1>10, <4>2, <5>1
      <4>. QED BY <4>1, <4>2
    <3>2. type'[d] = "dir"
      BY <1>1, <1>4, <1>9, <1>10
    <3>. QED BY <1>7, <2>1, <3>1, <3>2
  <2>2. CASE e # d
    <3>1. clist[e] # NULL /\ clist'[e] = clist[e] /\ ctail'[e] = ctail[e] /\ clist[e] \in Nodes
      <4>1. clist'[e] = clist[e] /\ ctail'[e] = ctail[e]
        BY <1>8, <2>2
      <4>2. clist[e] \in Nodes \cup {NULL}
        BY <1>3 DEF NodesOK
      <4>. QED BY <4>1, <4>2
    <3>2. parent[clist[e]] = e /\ type[e] = "dir" /\ ctail[e] \in In(next, clist[e]) /\ next[ctail[e]] = NULL
      BY <1>3, <3>1 DEF ListsOK
    <3>3. e # n /\ clist[e] # n
      BY <1>5, <1>9, <3>1, <3>2, NodeFacts
    <3>. QED BY <1>7, <1>8, <1>10, <2>2, <3>1, <3>2, <3>3
  <2>. QED BY <2>1, <2>2
<1>16. NamesDiffer'
  <2> SUFFICES ASSUME NEW e \in Nodes, NEW x \in In(next', clist'[e]), NEW y \in In(next', clist'[e]),
                      x # y, name'[x] = name'[y]
               PROVE  x \in taken \/ y \in taken \/ (e = Root /\ name'[x] = "..")
    BY <1>1 DEF NamesDiffer, Same
  <2>1. \A z \in In(next, clist[e]) : z \in Nodes /\ parent[z] = e /\ z # n
    BY <1>3, <1>9, EntriesAre, NodeFacts
  <2>2. ASSUME x \in In(next, clist[e]), y \in In(next, clist[e])
        PROVE  x \in taken \/ y \in taken \/ (e = Root /\ name'[x] = "..")
    <3>1. x # n /\ y # n /\ x \in Nodes /\ y \in Nodes
      BY <2>1, <2>2
    <3>2. name[x] = name[y] /\ name'[x] = name[x]
      BY <1>10, <3>1
    <3>. QED BY <2>2, <3>2 DEF TreeInv, NamesDiffer, Same
  <2>3. CASE e = d
    <3>1. x \in In(next, clist[d]) \cup {n} /\ y \in In(next, clist[d]) \cup {n}
      BY <1>7, <2>3
    <3>2. CASE x = n
      <4>1. y \in In(next, clist[d]) /\ y # n /\ y \in Nodes
        BY <2>1, <2>3, <3>1, <3>2
      <4>2. name[y] = nm /\ name'[x] = nm
        BY <1>10, <3>2, <4>1
      <4>. QED BY <1>6, <2>3, <4>1, <4>2
    <3>3. CASE y = n
      <4>1. x \in In(next, clist[d]) /\ x # n /\ x \in Nodes
        BY <2>1, <2>3, <3>1, <3>3
      <4>2. name[x] = nm /\ name'[x] = nm
        BY <1>10, <3>3, <4>1
      <4>. QED BY <1>6, <2>3, <4>1, <4>2
    <3>. QED BY <2>2, <2>3, <3>1, <3>2, <3>3
  <2>4. CASE e # d
    BY <1>8, <2>2, <2>4
  <2>. QED BY <2>3, <2>4
<1>17. DirHandlesOK'

  <2>0. open_ \in [Handles -> [node : Nodes \cup {NULL}, cur : Nodes \cup {NULL}]]
    BY DEF TreeInv, DirHandlesOK
  <2>1. open_' \in [Handles -> [node : Nodes \cup {NULL}, cur : Nodes \cup {NULL}]]
    BY <1>5, <1>12, <2>0
  <2>2. ASSUME NEW g \in Handles
        PROVE  /\ open_'[g] # NotOpen => open_'[g].node # NULL
               /\ open_'[g].node # NULL => type'[open_'[g].node] # "unused"
               /\ open_'[g].cur # NULL => parent'[open_'[g].cur] = open_'[g].node
    <3>1. CASE g = h
      <4>1. open_'[g] = [node |-> n, cur |-> NULL]
        BY <1>12, <2>0, <3>1
      <4>. QED BY <1>9, <1>10, <1>11, <4>1
    <3>2. CASE g # h
      <4>1. open_'[g] = open_[g] /\ open_[g].node \in Nodes \cup {NULL} /\ open_[g].cur \in Nodes \cup {NULL}
        BY <1>12, <2>0, <3>2
      <4>2. /\ open_[g] # NotOpen => open_[g].node # NULL
            /\ open_[g].node # NULL => type[open_[g].node] # "unused"
            /\ open_[g].cur # NULL => parent[open_[g].cur] = open_[g].node
        BY DEF TreeInv, DirHandlesOK
      <4>3. open_[g].node # NULL => open_[g].node # n
        BY <1>5, <4>2
      <4>4. open_[g].cur # NULL => open_[g].cur # n
        <5>1. ASSUME open_[g].cur # NULL, open_[g].cur = n PROVE FALSE
          <6>1. open_[g].node = NULL
            BY <1>9, <4>2, <5>1
          <6>2. open_[g] = NotOpen
            BY <4>2, <6>1
          <6>. QED BY <5>1, <6>2 DEF NotOpen
        <5>. QED BY <5>1
      <4>. QED BY <1>10, <4>1, <4>2, <4>3, <4>4
    <3>. QED BY <3>1, <3>2
  <2>. QED BY <2>1, <2>2 DEF DirHandlesOK
<1>18. owed' \in [Handles -> SUBSET Nodes] /\ ListingsOK'
  <2>1. owed \in [Handles -> SUBSET Nodes] /\ open_ \in [Handles -> [node : Nodes \cup {NULL}, cur : Nodes \cup {NULL}]]
    BY DEF TreeInv, DirHandlesOK
  <2>2. owed' \in [Handles -> SUBSET Nodes]
    BY <1>12, <2>1
  <2>3. ASSUME NEW g \in Handles
        PROVE  owed'[g] \subseteq In(next', open_'[g].cur)
    <3>1. CASE g = h
      BY <1>12, <2>1, <3>1
    <3>2. CASE g # h
      <4>1. owed'[g] = owed[g] /\ open_'[g] = open_[g] /\ open_[g].cur \in Nodes \cup {NULL}
        BY <1>12, <2>1, <3>2
      <4>2. owed[g] \subseteq In(next, open_[g].cur)
        BY DEF TreeInv, ListingsOK
      <4>. QED BY <1>7, <4>1, <4>2
    <3>. QED BY <3>1, <3>2
  <2>. QED BY <2>2, <2>3 DEF ListingsOK
<1>. QED BY <1>13, <1>14, <1>15, <1>16, <1>17, <1>18 DEF TreeInv
LEMMA PrevFacts ==
  ASSUME NodesOK, LinksOK, ListsOK, NEW d \in Nodes, NEW n \in In(next, clist[d])
  PROVE  LET prev == PrevOf(Children(d), n) IN
         /\ prev = NULL => clist[d] = n
         /\ prev # NULL => prev \in In(next, clist[d]) /\ prev \in Nodes /\ next[prev] = n
<1> DEFINE s == List(next, clist[d])
           B == Before(s, n)
           c == CHOOSE k \in B : TRUE
<1>1. clist[d] \in Nodes \cup {NULL} /\ Rising(next)
  BY DEF NodesOK, LinksOK
<1>2. PrevOf(Children(d), n) = IF B = {} THEN NULL ELSE s[c]
  <2>1. Children(d) = s
    BY ListIs DEF Children
  <2> HIDE DEF s
  <2>. QED BY <2>1 DEF PrevOf
<1>3. s \in Seq(Nodes) /\ In(next, clist[d]) = { s[k] : k \in DOMAIN s }
  BY <1>1, ListFacts DEF Chain, In, Members
<1>4. /\ \A i \in DOMAIN s : i + 1 \in DOMAIN s => s[i + 1] = next[s[i]]
      /\ n # clist[d] => \E i \in DOMAIN s : i + 1 \in DOMAIN s /\ s[i + 1] = n
  BY <1>1, ListOrder
<1> HIDE DEF s
<1>5. n # clist[d] => B # {}
  BY <1>4 DEF Before
<1>6. ASSUME B # {}
      PROVE  s[c] \in In(next, clist[d]) /\ s[c] \in Nodes /\ next[s[c]] = n /\ s[c] # NULL
  <2>1. c \in B
    BY <1>6
  <2> HIDE DEF c
  <2>2. c \in DOMAIN s /\ c + 1 \in DOMAIN s /\ s[c + 1] = n
    BY <2>1 DEF Before
  <2>3. s[c] \in Nodes /\ s[c] \in In(next, clist[d]) /\ s[c + 1] = next[s[c]]
    BY <1>3, <1>4, <2>2
  <2>. QED BY <2>2, <2>3, NodeFacts
<1> HIDE DEF B, c
<1>. QED BY <1>2, <1>5, <1>6

(* A step after which n is the only node that a walk may miss *)
OnlyLoses(n) == \A x \in Nodes \cup {NULL} : In(next, x) \subseteq In(next', x) \cup {n}
(* remove takes one node out of its directory's list; whoever stands at it  *)
(* still comes to the rest.                                                 *)
LEMMA RemoveFacts ==
  ASSUME NodesOK, LinksOK, ListsOK, NEW n \in Nodes, NEW d \in Nodes, parent[n] = d, NEW prev,
         n \in In(next, clist[d]), prev = PrevOf(Children(d), n),
         clist' = IF prev = NULL THEN [clist EXCEPT ![d] = next[n]] ELSE clist,
         next' = IF prev # NULL THEN [next EXCEPT ![prev] = next[n]] ELSE next,
         ctail' = IF ctail[d] = n /\ prev # NULL THEN [ctail EXCEPT ![d] = prev] ELSE ctail
  PROVE  /\ Rising(next')
         /\ OnlyLoses(n)
         /\ \A x \in Nodes : next'[x] = next[x] \/ (next[x] = n /\ next'[x] = next[n])
         /\ clist' \in [Nodes -> Nodes \cup {NULL}] /\ ctail' \in [Nodes -> Nodes \cup {NULL}]
         /\ \A e \in Nodes :
              /\ In(next', clist'[e]) \subseteq In(next, clist[e])
              /\ clist'[e] # NULL =>
                   /\ clist[e] # NULL /\ parent[clist'[e]] = e
                   /\ ctail'[e] \in In(next', clist'[e]) /\ next'[ctail'[e]] = NULL
<1>1. /\ Rising(next) /\ next \in [Nodes -> Nodes \cup {NULL}]
      /\ clist \in [Nodes -> Nodes \cup {NULL}] /\ ctail \in [Nodes -> Nodes \cup {NULL}]
      /\ n # NULL /\ next[n] \in Nodes \cup {NULL}
  BY NodeFacts DEF NodesOK, LinksOK, Rising
<1>2. /\ prev = NULL => clist[d] = n
      /\ prev # NULL => prev \in In(next, clist[d]) /\ prev \in Nodes /\ next[prev] = n
  BY PrevFacts
<1>3. \A e \in Nodes : \A x \in In(next, clist[e]) : x \in Nodes /\ parent[x] = e
  BY EntriesAre
<1>4. \A e \in Nodes : clist[e] # NULL =>
        parent[clist[e]] = e /\ ctail[e] \in In(next, clist[e]) /\ next[ctail[e]] = NULL
  BY DEF ListsOK
<1>5. next[n] # NULL => parent[next[n]] = d
  BY DEF LinksOK
<1>6. CASE prev = NULL
  <2>1. next' = next /\ ctail' = ctail /\ clist' = [clist EXCEPT ![d] = next[n]] /\ clist[d] = n
    BY <1>2, <1>6
  <2>2. /\ clist' \in [Nodes -> Nodes \cup {NULL}] /\ clist'[d] = next[n]
        /\ \A e \in Nodes : e # d => clist'[e] = clist[e]
    BY <1>1, <2>1
  <2>3. In(next, n) \subseteq {n} \cup In(next, next[n]) /\ In(next, next[n]) \subseteq In(next, n)
    BY <1>1, InUnfold
  <2>4. ASSUME NEW e \in Nodes
        PROVE  /\ In(next, clist'[e]) \subseteq In(next, clist[e])
               /\ clist'[e] # NULL =>
                    /\ clist[e] # NULL /\ parent[clist'[e]] = e
                    /\ ctail[e] \in In(next, clist'[e]) /\ next[ctail[e]] = NULL
    <3>1. CASE e = d
      <4>1. clist[e] = n /\ clist'[e] = next[n]
        BY <2>1, <2>2, <3>1
      <4>2. ctail[d] \in In(next, n) /\ next[ctail[d]] = NULL
        BY <1>1, <1>4, <2>1
      <4>3. next[n] # NULL => ctail[d] \in In(next, next[n])
        BY <2>3, <4>2
      <4>. QED BY <1>1, <1>5, <2>3, <3>1, <4>1, <4>2, <4>3
    <3>2. CASE e # d
      BY <1>4, <2>2, <3>2
    <3>. QED BY <3>1, <3>2
  <2>5. OnlyLoses(n)
    BY <2>1 DEF OnlyLoses
  <2>. QED BY <1>1, <2>1, <2>2, <2>4, <2>5
<1>7. CASE prev # NULL
  <2> DEFINE ny == [next EXCEPT ![prev] = next[n]]
  <2>0. next' = ny /\ clist' = clist
    BY <1>7
  <2>1. prev \in Nodes /\ next[prev] = n /\ prev \in In(next, clist[d])
    BY <1>2, <1>7
  <2>2. /\ Rising(ny)
        /\ \A x \in Nodes \cup {NULL} : In(next, x) \subseteq In(ny, x) \cup {n} /\ In(ny, x) \subseteq In(next, x)
        /\ ny[prev] = next[n] /\ \A x \in Nodes : x # prev => ny[x] = next[x]
    <3>1. ny \in [Nodes -> Nodes \cup {NULL}] /\ ny[prev] = next[n] /\ \A x \in Nodes : x # prev => ny[x] = next[x]
      BY <1>1, <2>1
    <3> HIDE DEF ny
    <3>2. Rising(next)
      BY <1>1
    <3>3. Rising(ny)
      BY <2>1, <3>1, <3>2, Skipped
    <3>4. \A x \in Nodes \cup {NULL} : In(next, x) \subseteq In(ny, x) \cup {n} /\ In(ny, x) \subseteq In(next, x)
      BY <2>1, <3>1, <3>2, Skipped
    <3>. QED BY <3>1, <3>3, <3>4
  <2> HIDE DEF ny
  <2>3. \A x \in Nodes : ny[x] = next[x] \/ (next[x] = n /\ ny[x] = next[n])
    BY <2>1, <2>2
  <2>4. ctail' \in [Nodes -> Nodes \cup {NULL}] /\ ctail'[d] = (IF ctail[d] = n THEN prev ELSE ctail[d])
        /\ \A e \in Nodes : e # d => ctail'[e] = ctail[e]
    <3>1. CASE ctail[d] = n
      <4>1. ctail' = [ctail EXCEPT ![d] = prev]
        BY <1>7, <3>1
      <4>. QED BY <1>1, <2>1, <3>1, <4>1
    <3>2. CASE ctail[d] # n
      <4>1. ctail' = ctail
        BY <3>2
      <4>. QED BY <1>1, <3>2, <4>1
    <3>. QED BY <3>1, <3>2
  <2>5. prev # n
    BY <1>1, <2>1, NodeFacts DEF Rising
  <2>6. ASSUME NEW e \in Nodes, clist[e] # NULL
        PROVE  ctail'[e] \in In(ny, clist[e]) /\ ny[ctail'[e]] = NULL
    <3>1. ctail[e] \in In(next, clist[e]) /\ next[ctail[e]] = NULL /\ ctail[e] \in Nodes /\ clist[e] \in Nodes
      BY <1>1, <1>3, <1>4, <2>6
    <3>2. ctail[e] # prev
      BY <1>1, <2>1, <3>1
    <3>3. ctail[e] # n => ctail[e] \in In(ny, clist[e]) /\ ny[ctail[e]] = NULL
      BY <2>2, <3>1, <3>2
    <3>4. CASE e = d /\ ctail[d] = n
      <4>1. ctail'[e] = prev /\ next[n] = NULL
        BY <2>4, <3>1, <3>4
      <4>2. prev \in In(ny, clist[e])
        BY <2>1, <2>2, <2>5, <3>1, <3>4
      <4>. QED BY <2>2, <4>1, <4>2
    <3>5. CASE e = d /\ ctail[d] # n
      BY <2>4, <3>3, <3>5
    <3>6. CASE e # d
      <4>1. ctail[e] # n
        BY <1>3, <3>1, <3>6
      <4>. QED BY <2>4, <3>3, <3>6, <4>1
    <3>. QED BY <3>4, <3>5, <3>6
  <2>7. /\ \A x \in Nodes \cup {NULL} : In(next, x) \subseteq In(ny, x) \cup {n}
        /\ \A e \in Nodes : In(ny, clist[e]) \subseteq In(next, clist[e])
    BY <1>1, <2>2
  <2>8. ASSUME NEW e \in Nodes
        PROVE  /\ In(ny, clist[e]) \subseteq In(next, clist[e])
               /\ clist[e] # NULL =>
                    /\ clist[e] # NULL /\ parent[clist[e]] = e
                    /\ ctail'[e] \in In(ny, clist[e]) /\ ny[ctail'[e]] = NULL
    BY <1>4, <2>6, <2>7
  <2>9. clist' \in [Nodes -> Nodes \cup {NULL}] /\ Rising(next')
    BY <1>1, <2>0, <2>2
  <2>10. \A x \in Nodes : next'[x] = next[x] \/ (next[x] = n /\ next'[x] = next[n])
    BY <2>0, <2>3
  <2>11. ctail' \in [Nodes -> Nodes \cup {NULL}] /\ next' = ny /\ clist' = clist
    BY <2>0, <2>4
  <2>12. OnlyLoses(n)
    BY <2>7, <2>11 DEF OnlyLoses
  <2>13. \A e \in Nodes :
           /\ In(next', clist'[e]) \subseteq In(next, clist[e])
           /\ clist'[e] # NULL =>
                /\ clist[e] # NULL /\ parent[clist'[e]] = e
                /\ ctail'[e] \in In(next', clist'[e]) /\ next'[ctail'[e]] = NULL
    BY <2>8, <2>11, Zenon
  <2>. QED BY <2>9, <2>10, <2>11, <2>12, <2>13, Zenon
<1>. QED BY <1>6, <1>7

(* The link to a node from its directory's list is one, and remove turns it *)
LostBy(d, n) == n \notin In(next', clist'[d])
LEMMA RemovedIsGone ==
  ASSUME NodesOK, LinksOK, ListsOK, NEW n \in Nodes, NEW d \in Nodes, NEW prev,
         n \in In(next, clist[d]), prev = PrevOf(Children(d), n), Rising(next'),
         clist' \in [Nodes -> Nodes \cup {NULL}],
         clist' = IF prev = NULL THEN [clist EXCEPT ![d] = next[n]] ELSE clist,
         next' = IF prev # NULL THEN [next EXCEPT ![prev] = next[n]] ELSE next
  PROVE  LostBy(d, n)
<1> DEFINE s == List(next, clist[d])
           B == Before(s, n)
           c == CHOOSE k \in B : TRUE
           L == In(next, clist[d])
           S == L \ {n}
<1>1. clist \in [Nodes -> Nodes \cup {NULL}] /\ Rising(next) /\ next \in [Nodes -> Nodes \cup {NULL}]
      /\ clist[d] \in Nodes \cup {NULL}
  BY DEF NodesOK, LinksOK, Rising
<1>2. prev = IF B = {} THEN NULL ELSE s[c]
  <2>1. Children(d) = s
    BY ListIs DEF Children
  <2> HIDE DEF s
  <2>. QED BY <2>1 DEF PrevOf
<1>3. s \in Seq(Nodes) /\ L = { s[k] : k \in DOMAIN s } /\ Chain(next, clist[d], s)
  <2>1. Chain(next, clist[d], s)
    BY <1>1, ListFacts, Zenon
  <2>2. L = Members(s)
    BY DEF In
  <2> HIDE DEF s, L
  <2>3. s \in Seq(Nodes)
    BY <2>1 DEF Chain
  <2>. QED BY <2>1, <2>2, <2>3 DEF Members
<1>4. /\ \A i, j \in DOMAIN s : s[i] = s[j] => i = j
      /\ \A i \in DOMAIN s : i + 1 \in DOMAIN s => s[i + 1] = next[s[i]]
      /\ clist[d] # NULL => s # << >> /\ s[1] = clist[d]
  BY <1>1, ListOrder
<1>5. L \subseteq Nodes /\ \A x \in L : next[x] # NULL => next[x] \in L
  BY <1>1, InFacts
<1> HIDE DEF s
<1>6. n # NULL /\ next[n] # n
  BY <1>1, NodeFacts DEF Rising
<1>7. B # {} => c \in DOMAIN s /\ c + 1 \in DOMAIN s /\ s[c + 1] = n /\ prev = s[c] /\ prev \in L /\ prev # NULL
  <2> SUFFICES ASSUME B # {} PROVE c \in DOMAIN s /\ c + 1 \in DOMAIN s /\ s[c + 1] = n /\ prev = s[c]
                                   /\ prev \in L /\ prev # NULL
    OBVIOUS
  <2>1. c \in B /\ prev = s[c]
    BY <1>2
  <2> HIDE DEF c
  <2>2. c \in DOMAIN s /\ c + 1 \in DOMAIN s /\ s[c + 1] = n
    BY <2>1 DEF Before
  <2>. QED BY <1>3, <1>5, <2>1, <2>2, NodeFacts
<1> HIDE DEF c
<1>8. ASSUME NEW x \in L, next[x] = n
      PROVE  x = prev
  <2>1. PICK i \in DOMAIN s : x = s[i]
    BY <1>3
  <2>2. i + 1 \in DOMAIN s
    BY <1>3, <1>6, <1>8, <2>1 DEF Chain
  <2>3. s[i + 1] = n
    BY <1>4, <1>8, <2>1, <2>2
  <2>4. i \in B
    BY <2>2, <2>3 DEF Before
  <2>5. c + 1 = i + 1 /\ prev = s[c] /\ c \in Int /\ i \in Int
    BY <1>3, <1>4, <1>7, <2>2, <2>3, <2>4
  <2>6. c = i
    BY <2>5
  <2>. QED BY <2>1, <2>5, <2>6
<1>9. B # {} => clist[d] # n
  <2>1. B # {} => c + 1 # 1 /\ 1 \in DOMAIN s
    BY <1>3, <1>7
  <2>. QED BY <1>4, <1>6, <1>7, <2>1
<1> HIDE DEF B
<1>10. clist'[d] # NULL => clist'[d] \in S
  <2>1. CASE prev = NULL
    <3>1. clist'[d] = next[n]
      BY <1>1, <2>1
    <3>. QED BY <1>5, <1>6, <3>1
  <2>2. CASE prev # NULL
    <3>1. clist' = clist /\ B # {}
      BY <1>2, <2>2
    <3>2. clist[d] # NULL => clist[d] \in L
      BY <1>1, InFacts
    <3>. QED BY <1>9, <3>1, <3>2
  <2>. QED BY <2>1, <2>2
<1>11. \A x \in S \cap Nodes : next'[x] # NULL => next'[x] \in S
  <2> SUFFICES ASSUME NEW x \in S, x \in Nodes, next'[x] # NULL PROVE next'[x] \in S
    OBVIOUS
  <2>1. CASE next'[x] = next[x] /\ x # prev
    BY <1>5, <1>8, <2>1
  <2>2. CASE next'[x] = next[n]
    BY <1>5, <1>6, <2>2
  <2>3. prev = NULL => next'[x] = next[x] /\ x # prev
    BY NodeFacts
  <2>4. prev # NULL => next'[x] = IF x = prev THEN next[n] ELSE next[x]
    BY <1>1
  <2>. QED BY <2>1, <2>2, <2>3, <2>4
<1> HIDE DEF L
<1> DEFINE h == clist'[d]
           ny == next'
<1>12. Rising(ny) /\ h \in Nodes \cup {NULL} /\ (h # NULL => h \in S)
       /\ \A x \in S \cap Nodes : ny[x] # NULL => ny[x] \in S
  BY <1>10, <1>11
<1>13. n \notin S
  OBVIOUS
<1> HIDE DEF S, h, ny
<1>14. In(ny, h) \subseteq S
  BY <1>12, InLeast
<1>. QED BY <1>13, <1>14 DEF ny, h, LostBy

LEMMA RemoveKeeps ==
  ASSUME TreeInv, NEW h \in Handles, remove_(h)
  PROVE  TreeInv'
<1> DEFINE n == open_[h].node
           d == parent[n]
           prev == PrevOf(Children(d), n)
<1>1. /\ open_[h] # NotOpen /\ d # NULL /\ n \in Members(Children(d))
      /\ clist' = (IF prev = NULL THEN [clist EXCEPT ![d] = next[n]] ELSE clist)
      /\ next' = (IF prev # NULL THEN [next EXCEPT ![prev] = next[n]] ELSE next)
      /\ ctail' = (IF ctail[d] = n /\ prev # NULL THEN [ctail EXCEPT ![d] = prev] ELSE ctail)
      /\ owed' = [g \in Handles |-> owed[g] \ {n}]
      /\ type' = type /\ name' = name /\ parent' = parent /\ open_' = open_ /\ fsnode' = fsnode
      /\ taken' = taken \ {n}
  BY DEF remove_
<1>2. NodesOK /\ LinksOK /\ ListsOK /\ DirHandlesOK /\ owed \in [Handles -> SUBSET Nodes]
  BY DEF TreeInv
<1>3. n \in Nodes /\ d \in Nodes /\ n \in In(next, clist[d])
  <2>1. n \in Nodes
    BY <1>1, <1>2 DEF DirHandlesOK
  <2>2. d \in Nodes
    BY <1>1, <1>2, <2>1 DEF NodesOK
  <2> HIDE DEF n, d
  <2>. QED BY <1>1, <2>1, <2>2, ListMembers
<1>4. parent[n] = d
  OBVIOUS
<1>5. prev = PrevOf(Children(d), n)
  OBVIOUS
<1> HIDE DEF n, d, prev
<1>6. /\ Rising(next')
      /\ \A x \in Nodes \cup {NULL} : In(next, x) \subseteq In(next', x) \cup {n}
      /\ \A x \in Nodes : next'[x] = next[x] \/ (next[x] = n /\ next'[x] = next[n])
      /\ clist' \in [Nodes -> Nodes \cup {NULL}] /\ ctail' \in [Nodes -> Nodes \cup {NULL}]
  <2>1. Rising(next') /\ \A x \in Nodes \cup {NULL} : In(next, x) \subseteq In(next', x) \cup {n}
    <3>1. /\ clist' = (IF prev = NULL THEN [clist EXCEPT ![d] = next[n]] ELSE clist)
          /\ next' = (IF prev # NULL THEN [next EXCEPT ![prev] = next[n]] ELSE next)
          /\ ctail' = (IF ctail[d] = n /\ prev # NULL THEN [ctail EXCEPT ![d] = prev] ELSE ctail)
      BY <1>1
    <3>2. NodesOK /\ LinksOK /\ ListsOK
      BY <1>2
    <3>3. n \in Nodes /\ d \in Nodes /\ n \in In(next, clist[d]) /\ parent[n] = d
      BY <1>3, <1>4
    <3>4. Rising(next')
      BY <1>5, <3>1, <3>2, <3>3, RemoveFacts
    <3>5. \A x \in Nodes \cup {NULL} : In(next, x) \subseteq In(next', x) \cup {n}
      <4>1. OnlyLoses(n)
        BY <1>5, <3>1, <3>2, <3>3, RemoveFacts
      <4>. QED BY <4>1 DEF OnlyLoses
    <3>. QED BY <3>4, <3>5
  <2>2. \A x \in Nodes : next'[x] = next[x] \/ (next[x] = n /\ next'[x] = next[n])
    <3>1. prev # NULL => prev \in Nodes /\ next[prev] = n
      BY <1>2, <1>3, <1>5, PrevFacts
    <3>2. next \in [Nodes -> Nodes \cup {NULL}]
      BY <1>2 DEF LinksOK, Rising
    <3>3. CASE prev = NULL
      BY <1>1, <3>3
    <3>4. CASE prev # NULL
      <4>1. next' = [next EXCEPT ![prev] = next[n]]
        BY <1>1, <3>4
      <4>. QED BY <3>1, <3>2, <3>4, <4>1
    <3>. QED BY <3>3, <3>4
  <2>3. clist' \in [Nodes -> Nodes \cup {NULL}] /\ ctail' \in [Nodes -> Nodes \cup {NULL}]
    BY <1>1, <1>2, <1>3, <1>4, <1>5, RemoveFacts
  <2>. QED BY <2>1, <2>2, <2>3
<1>7. \A e \in Nodes :
        /\ In(next', clist'[e]) \subseteq In(next, clist[e])
        /\ clist'[e] # NULL =>
             /\ clist[e] # NULL /\ parent[clist'[e]] = e
             /\ ctail'[e] \in In(next', clist'[e]) /\ next'[ctail'[e]] = NULL
  BY <1>1, <1>2, <1>3, <1>4, <1>5, RemoveFacts
<1>8. NodesOK'
  BY <1>1, <1>2, <1>6 DEF NodesOK
<1>9. LinksOK'
  <2>1. ASSUME NEW x \in Nodes, next'[x] # NULL
        PROVE  parent[x] # NULL /\ parent[next'[x]] = parent[x]
    <3>1. CASE next'[x] = next[x]
      BY <1>2, <2>1, <3>1 DEF LinksOK
    <3>2. CASE next[x] = n /\ next'[x] = next[n]
      <4>1. parent[x] # NULL /\ parent[n] = parent[x]
        BY <1>2, <1>3, <3>2, NodeFacts DEF LinksOK
      <4>2. parent[next[n]] = parent[n]
        BY <1>2, <1>3, <2>1, <3>2 DEF LinksOK
      <4>. QED BY <3>2, <4>1, <4>2
    <3>. QED BY <1>6, <3>1, <3>2
  <2>2. \A x, y \in Nodes : type[x] = "unused" /\ type[y] # "unused" => y < x
    BY <1>2 DEF LinksOK
  <2>. QED BY <1>1, <1>6, <2>1, <2>2 DEF LinksOK
<1>10. ListsOK'
  <2> SUFFICES ASSUME NEW e \in Nodes, clist'[e] # NULL
               PROVE  /\ parent'[clist'[e]] = e /\ type'[e] = "dir"
                      /\ ctail'[e] \in In(next', clist'[e]) /\ next'[ctail'[e]] = NULL
    BY DEF ListsOK
  <2>1. clist[e] # NULL
    BY <1>7
  <2>2. type[e] = "dir"
    BY <1>2, <2>1 DEF ListsOK
  <2>. QED BY <1>1, <1>7, <2>2
<1>11. NamesDiffer'
  <2> SUFFICES ASSUME NEW e \in Nodes, NEW x \in In(next', clist'[e]), NEW y \in In(next', clist'[e]),
                      x # y, name'[x] = name'[y]
               PROVE  x \in taken' \/ y \in taken' \/ (e = Root /\ name'[x] = "..")
    BY <1>1 DEF NamesDiffer, Same
  <2>1. x \in In(next, clist[e]) /\ y \in In(next, clist[e])
    BY <1>7
  <2>2. x \in taken \/ y \in taken \/ (e = Root /\ name[x] = "..")
    <3>1. NamesDiffer
      BY DEF TreeInv
    <3>2. Same(x, y)
      BY <1>1 DEF Same
    <3>. QED BY <2>1, <3>1, <3>2, Zenon DEF NamesDiffer
  <2>3. n \notin In(next', clist'[e])
    <3>1. CASE e = d
      <4>1. n \notin In(next', clist'[d])
        <5>1. clist' \in [Nodes -> Nodes \cup {NULL}]
          BY <1>6
        <5>2. /\ clist' = (IF prev = NULL THEN [clist EXCEPT ![d] = next[n]] ELSE clist)
              /\ next' = (IF prev # NULL THEN [next EXCEPT ![prev] = next[n]] ELSE next)
          BY <1>1
        <5>3. NodesOK /\ LinksOK /\ ListsOK
          BY <1>2
        <5>4. n \in Nodes /\ d \in Nodes /\ n \in In(next, clist[d])
          BY <1>3
        <5>5. Rising(next')
          BY <1>6
        <5>6. LostBy(d, n)
          BY <1>5, <5>1, <5>2, <5>3, <5>4, <5>5, RemovedIsGone
        <5>. QED BY <5>6 DEF LostBy
      <4>. QED BY <3>1, <4>1
    <3>2. CASE e # d
      <4>1. \A z \in In(next, clist[e]) : parent[z] = e
        BY <1>2, EntriesAre
      <4>. QED BY <1>4, <1>7, <3>2, <4>1
    <3>. QED BY <3>1, <3>2
  <2>. QED BY <1>1, <2>2, <2>3
<1>12. DirHandlesOK'
  BY <1>1, <1>2 DEF DirHandlesOK
<1>13. owed' \in [Handles -> SUBSET Nodes] /\ ListingsOK'
  <2>1. owed' \in [Handles -> SUBSET Nodes]
    BY <1>1, <1>2
  <2>2. ASSUME NEW g \in Handles
        PROVE  owed'[g] \subseteq In(next', open_'[g].cur)
    <3>1. open_[g].cur \in Nodes \cup {NULL}
      BY <1>2 DEF DirHandlesOK
    <3>2. owed[g] \subseteq In(next, open_[g].cur)
      BY DEF TreeInv, ListingsOK
    <3>. QED BY <1>1, <1>6, <3>1, <3>2
  <2>. QED BY <2>1, <2>2 DEF ListingsOK
<1>. QED BY <1>8, <1>9, <1>10, <1>11, <1>12, <1>13 DEF TreeInv
LEMMA OpenDirKeeps ==
  ASSUME TreeInv, NEW h \in Handles, NEW path \in Paths, open(h, path)
  PROVE  TreeInv'
<1> DEFINE n == Lookup(path, Len(path))
<1>1. n # NULL /\ create_fsnode(h, n, clist[n]) /\ UNCHANGED tree
  BY DEF open
<1>2. NodesOK /\ LinksOK /\ ListsOK /\ DirHandlesOK /\ owed \in [Handles -> SUBSET Nodes]
  BY DEF TreeInv
<1>3. n \in Nodes /\ type[n] # "unused"
  <2>1. path \in Seq(Names \cup {".", ".."})
    BY MemDirAssumption
  <2>2. Len(path) \in Nat
    BY <2>1
  <2>. QED BY <1>1, <1>2, <2>2, LookupFacts
<1> HIDE DEF n
<1>4. /\ open_' = [open_ EXCEPT ![h] = [node |-> n, cur |-> clist[n]]]
      /\ fsnode' \in [Nodes -> Handles \cup {NULL}]
      /\ owed' = [owed EXCEPT ![h] = IF type[n] = "dir" THEN In(next, clist[n]) ELSE {}]
  BY <1>1, <1>3, FsnodeFacts
<1>5. /\ type' = type /\ name' = name /\ parent' = parent /\ next' = next
      /\ clist' = clist /\ ctail' = ctail
  BY <1>1 DEF tree
<1>6. NodesOK'
  BY <1>2, <1>4, <1>5 DEF NodesOK
<1>7. LinksOK' /\ ListsOK'
  BY <1>2, <1>5 DEF LinksOK, ListsOK
<1>8. NamesDiffer'
  BY <1>1, <1>5 DEF TreeInv, NamesDiffer, Same, tree
<1>9. clist[n] \in Nodes \cup {NULL} /\ (clist[n] # NULL => parent[clist[n]] = n)
  BY <1>2, <1>3 DEF NodesOK, ListsOK
<1>10. open_ \in [Handles -> [node : Nodes \cup {NULL}, cur : Nodes \cup {NULL}]]
  BY <1>2 DEF DirHandlesOK
<1>11. open_'[h] = [node |-> n, cur |-> clist[n]] /\ \A g \in Handles : g # h => open_'[g] = open_[g]
  BY <1>4, <1>10
<1>12. DirHandlesOK'
  <2>1. open_' \in [Handles -> [node : Nodes \cup {NULL}, cur : Nodes \cup {NULL}]]
    BY <1>3, <1>4, <1>9, <1>10
  <2>2. ASSUME NEW g \in Handles
        PROVE  /\ open_'[g] # NotOpen => open_'[g].node # NULL
               /\ open_'[g].node # NULL => type[open_'[g].node] # "unused"
               /\ open_'[g].cur # NULL => parent[open_'[g].cur] = open_'[g].node
    <3>1. CASE g = h
      <4>1. open_'[g].node = n /\ open_'[g].cur = clist[n]
        BY <1>11, <3>1
      <4>. QED BY <1>1, <1>3, <1>9, <4>1
    <3>2. CASE g # h
      BY <1>2, <1>11, <3>2 DEF DirHandlesOK
    <3>. QED BY <3>1, <3>2
  <2>. QED BY <1>5, <2>1, <2>2 DEF DirHandlesOK
<1>13. owed' \in [Handles -> SUBSET Nodes] /\ ListingsOK'
  <2>1. In(next, clist[n]) \subseteq Nodes
    BY <1>2, <1>9, InFacts DEF LinksOK
  <2>2. owed' \in [Handles -> SUBSET Nodes]
    BY <1>2, <1>4, <2>1
  <2>3. ASSUME NEW g \in Handles
        PROVE  owed'[g] \subseteq In(next, open_'[g].cur)
    <3>1. CASE g = h
      <4>1. open_'[g].cur = clist[n]
        BY <1>11, <3>1
      <4>2. owed'[g] \subseteq In(next, clist[n])
        BY <1>2, <1>4, <3>1
      <4>. QED BY <4>1, <4>2
    <3>2. CASE g # h
      <4>1. owed'[g] = owed[g] /\ open_'[g] = open_[g]
        BY <1>2, <1>4, <1>11, <3>2
      <4>. QED BY <4>1 DEF TreeInv, ListingsOK
    <3>. QED BY <3>1, <3>2
  <2>. QED BY <1>5, <2>2, <2>3 DEF ListingsOK
<1>. QED BY <1>6, <1>7, <1>8, <1>12, <1>13 DEF TreeInv

(* close, rewinddir and readdir change one handle and what it is owed *)
LEMMA HandleKeeps ==
  ASSUME TreeInv, NEW h \in Handles, UNCHANGED << tree, fsnode >>,
         NEW f \in [node : Nodes \cup {NULL}, cur : Nodes \cup {NULL}], NEW S \in SUBSET Nodes,
         open_' = [open_ EXCEPT ![h] = f], owed' = [owed EXCEPT ![h] = S],
         f # NotOpen => f.node # NULL,
         f.node # NULL => type[f.node] # "unused",
         f.cur # NULL => parent[f.cur] = f.node,
         S \subseteq In(next, f.cur)
  PROVE  TreeInv'
<1>1. NodesOK /\ LinksOK /\ ListsOK /\ DirHandlesOK /\ owed \in [Handles -> SUBSET Nodes]
  BY DEF TreeInv
<1>2. /\ type' = type /\ name' = name /\ parent' = parent /\ next' = next
      /\ clist' = clist /\ ctail' = ctail /\ fsnode' = fsnode
  BY DEF tree
<1>3. NodesOK'
  BY <1>1, <1>2 DEF NodesOK
<1>4. LinksOK' /\ ListsOK'
  BY <1>1, <1>2 DEF LinksOK, ListsOK
<1>5. NamesDiffer'
  <2>1. taken' = taken
    BY DEF tree
  <2>. QED BY <1>2, <2>1 DEF TreeInv, NamesDiffer, Same
<1>6. open_ \in [Handles -> [node : Nodes \cup {NULL}, cur : Nodes \cup {NULL}]]
  BY <1>1 DEF DirHandlesOK
<1>7. open_' \in [Handles -> [node : Nodes \cup {NULL}, cur : Nodes \cup {NULL}]]
      /\ open_'[h] = f /\ \A g \in Handles : g # h => open_'[g] = open_[g]
  BY <1>6
<1>8. owed' \in [Handles -> SUBSET Nodes]
      /\ owed'[h] = S /\ \A g \in Handles : g # h => owed'[g] = owed[g]
  BY <1>1
<1>9. DirHandlesOK'
  <2>1. ASSUME NEW g \in Handles
        PROVE  /\ open_'[g] # NotOpen => open_'[g].node # NULL
               /\ open_'[g].node # NULL => type[open_'[g].node] # "unused"
               /\ open_'[g].cur # NULL => parent[open_'[g].cur] = open_'[g].node
    <3>1. CASE g = h
      BY <1>7, <3>1
    <3>2. CASE g # h
      BY <1>1, <1>7, <3>2 DEF DirHandlesOK
    <3>. QED BY <3>1, <3>2
  <2>. QED BY <1>2, <1>7, <2>1 DEF DirHandlesOK
<1>10. ListingsOK'
  <2>1. ASSUME NEW g \in Handles
        PROVE  owed'[g] \subseteq In(next, open_'[g].cur)
    <3>1. CASE g = h
      BY <1>7, <1>8, <3>1
    <3>2. CASE g # h
      BY <1>7, <1>8, <3>2 DEF TreeInv, ListingsOK
    <3>. QED BY <3>1, <3>2
  <2>. QED BY <1>2, <2>1 DEF ListingsOK
<1>. QED BY <1>3, <1>4, <1>5, <1>8, <1>9, <1>10 DEF TreeInv

LEMMA CloseKeeps ==
  ASSUME TreeInv, NEW h \in Handles, close(h)
  PROVE  TreeInv'
<1>1. UNCHANGED << tree, fsnode >> /\ open_' = [open_ EXCEPT ![h] = NotOpen] /\ owed' = [owed EXCEPT ![h] = {}]
  BY DEF close
<1>2. NotOpen \in [node : Nodes \cup {NULL}, cur : Nodes \cup {NULL}] /\ NotOpen.node = NULL /\ NotOpen.cur = NULL
  BY DEF NotOpen
<1>3. {} \in SUBSET Nodes /\ {} \subseteq In(next, NotOpen.cur)
  OBVIOUS
<1>. QED BY <1>1, <1>2, <1>3, HandleKeeps

LEMMA RewinddirKeeps ==
  ASSUME TreeInv, NEW h \in Handles, rewinddir(h)
  PROVE  TreeInv'
<1> DEFINE d == open_[h].node
           f == [node |-> d, cur |-> clist[d]]
           S == In(next, clist[d])
<1>1. NodesOK /\ LinksOK /\ ListsOK /\ DirHandlesOK
  BY DEF TreeInv
<1>2. /\ UNCHANGED << tree, fsnode >> /\ open_[h] # NotOpen
      /\ open_' = [open_ EXCEPT ![h].cur = clist[d]] /\ owed' = [owed EXCEPT ![h] = Members(Children(d))]
  BY DEF rewinddir
<1>3. open_ \in [Handles -> [node : Nodes \cup {NULL}, cur : Nodes \cup {NULL}]]
      /\ d \in Nodes /\ d # NULL /\ type[d] # "unused"
  BY <1>1, <1>2 DEF DirHandlesOK
<1>4. clist[d] \in Nodes \cup {NULL} /\ (clist[d] # NULL => parent[clist[d]] = d)
  BY <1>1, <1>3 DEF NodesOK, ListsOK
<1>5. S \in SUBSET Nodes
  BY <1>1, <1>4, InFacts DEF LinksOK
<1>6. owed' = [owed EXCEPT ![h] = S]
  BY <1>2, ListMembers
<1>7. f \in [node : Nodes \cup {NULL}, cur : Nodes \cup {NULL}] /\ f.node = d /\ f.cur = clist[d]
  BY <1>3, <1>4
<1>8. open_' = [open_ EXCEPT ![h] = f]
  <2>1. PICK k \in Nodes \cup {NULL} : open_[h] = [node |-> d, cur |-> k]
    BY <1>3
  <2>2. [open_[h] EXCEPT !.cur = clist[d]] = f
    BY <2>1
  <2>3. open_' = [open_ EXCEPT ![h] = [open_[h] EXCEPT !.cur = clist[d]]]
    BY <1>2
  <2>. QED BY <2>2, <2>3
<1>9. S \subseteq In(next, f.cur)
  BY <1>7
<1>10. /\ f # NotOpen => f.node # NULL
       /\ f.node # NULL => type[f.node] # "unused"
       /\ f.cur # NULL => parent[f.cur] = f.node
  BY <1>3, <1>4, <1>7
<1>11. UNCHANGED << tree, fsnode >> /\ f \in [node : Nodes \cup {NULL}, cur : Nodes \cup {NULL}]
  BY <1>2, <1>7
<1> HIDE DEF d, f, S
<1>. QED BY <1>5, <1>6, <1>8, <1>9, <1>10, <1>11, HandleKeeps

LEMMA ReaddirKeeps ==
  ASSUME TreeInv, NEW h \in Handles, readdir(h)
  PROVE  TreeInv'
<1> DEFINE d == open_[h].node
           c == open_[h].cur
           f == [node |-> d, cur |-> next[c]]
           S == owed[h] \ {c}
<1>1. NodesOK /\ LinksOK /\ DirHandlesOK /\ owed \in [Handles -> SUBSET Nodes]
  BY DEF TreeInv
<1>2. /\ UNCHANGED << tree, fsnode >> /\ open_[h] # NotOpen /\ c # NULL
      /\ open_' = [open_ EXCEPT ![h].cur = next[@]] /\ owed' = [owed EXCEPT ![h] = @ \ {c}]
  BY DEF readdir
<1>3. open_ \in [Handles -> [node : Nodes \cup {NULL}, cur : Nodes \cup {NULL}]]
      /\ d \in Nodes /\ c \in Nodes /\ d # NULL /\ type[d] # "unused" /\ parent[c] = d
  BY <1>1, <1>2 DEF DirHandlesOK
<1>4. next[c] \in Nodes \cup {NULL} /\ (next[c] # NULL => parent[next[c]] = d)
  BY <1>1, <1>3 DEF LinksOK, Rising
<1>5. S \in SUBSET Nodes /\ owed' = [owed EXCEPT ![h] = S]
  BY <1>1, <1>2
<1>6. f \in [node : Nodes \cup {NULL}, cur : Nodes \cup {NULL}] /\ f.node = d /\ f.cur = next[c]
  BY <1>3, <1>4
<1>7. open_' = [open_ EXCEPT ![h] = f]
  <2>1. open_[h] = [node |-> d, cur |-> c]
    BY <1>3
  <2>2. [open_[h] EXCEPT !.cur = next[c]] = f
    BY <2>1
  <2>3. open_' = [open_ EXCEPT ![h] = [open_[h] EXCEPT !.cur = next[c]]]
    BY <1>2, <1>3
  <2>. QED BY <2>2, <2>3
<1>8. S \subseteq In(next, f.cur)
  <2>1. owed[h] \subseteq In(next, c)
    BY DEF TreeInv, ListingsOK
  <2>2. In(next, c) \subseteq {c} \cup In(next, next[c])
    BY <1>1, <1>3, InUnfold DEF LinksOK
  <2>. QED BY <1>6, <2>1, <2>2
<1>9. /\ f # NotOpen => f.node # NULL
      /\ f.node # NULL => type[f.node] # "unused"
      /\ f.cur # NULL => parent[f.cur] = f.node
  BY <1>3, <1>4, <1>6
<1>10. UNCHANGED << tree, fsnode >> /\ f \in [node : Nodes \cup {NULL}, cur : Nodes \cup {NULL}]
  BY <1>2, <1>6
<1> HIDE DEF d, c, f, S
<1>. QED BY <1>5, <1>7, <1>8, <1>9, <1>10, HandleKeeps

LEMMA RenameKeeps ==
  ASSUME TreeInv, NEW h \in Handles, NEW nm \in Names, rename(h, nm)
  PROVE  TreeInv'
<1> DEFINE n == open_[h].node
           d == parent[n]
<1>1. /\ open_[h] # NotOpen
      /\ taken' = (IF n # Root /\ n \in Members(Children(d)) /\ find_entry(d, nm) # NULL
                   THEN taken \cup {n} ELSE taken \ {n})
      /\ name' = (IF n = Root THEN name ELSE [name EXCEPT ![n] = nm])
      /\ type' = type /\ parent' = parent /\ next' = next /\ clist' = clist /\ ctail' = ctail
      /\ open_' = open_ /\ fsnode' = fsnode /\ owed' = owed
  BY DEF rename
<1>2. NodesOK /\ LinksOK /\ ListsOK /\ DirHandlesOK /\ owed \in [Handles -> SUBSET Nodes]
  BY DEF TreeInv
<1>3. n \in Nodes /\ type[n] # "unused"
  BY <1>1, <1>2 DEF DirHandlesOK
<1>4. d \in Nodes \cup {NULL} /\ (d # NULL => type[d] = "dir") /\ (n = Root => d = NULL)
  <2>1. n = Root => d = NULL
    BY <1>2, NodeFacts DEF NodesOK
  <2>. QED BY <1>2, <1>3, <2>1 DEF NodesOK
<1>5. ASSUME n \notin taken', d \in Nodes, n \in In(next, clist[d])
      PROVE  (nm = ".." => d = Root) /\ (nm # ".." => \A x \in In(next, clist[d]) : name[x] # nm)
  <2>1. n # Root /\ type[d] = "dir"
    BY <1>4, <1>5, NodeFacts
  <2>2. n \in Members(Children(d))
    BY <1>5, ListMembers
  <2>3. find_entry(d, nm) = NULL
    BY <1>1, <1>5, <2>1, <2>2
  <2>. QED BY <1>2, <1>5, <2>1, <2>3, FindFacts
<1>6. parent[n] = d
  OBVIOUS
<1> HIDE DEF n, d
<1>7. NodesOK'
  <2>1. name' \in [Nodes -> Names \cup {"", ".."}]
    BY <1>1, <1>2, <1>3 DEF NodesOK
  <2>. QED BY <1>1, <1>2, <2>1 DEF NodesOK
<1>8. LinksOK' /\ ListsOK' /\ DirHandlesOK'
  BY <1>1, <1>2 DEF LinksOK, ListsOK, DirHandlesOK
<1>9. ListingsOK' /\ owed' \in [Handles -> SUBSET Nodes]
  BY <1>1 DEF TreeInv, ListingsOK
<1>10. (n # Root => name'[n] = nm) /\ \A x \in Nodes : x # n => name'[x] = name[x]
  BY <1>1, <1>2, <1>3 DEF NodesOK
<1>11. NamesDiffer'
  <2> SUFFICES ASSUME NEW e \in Nodes, NEW x \in In(next, clist[e]), NEW y \in In(next, clist[e]),
                      x # y, name'[x] = name'[y]
               PROVE  x \in taken' \/ y \in taken' \/ (e = Root /\ name'[x] = "..")
    BY <1>1 DEF NamesDiffer, Same
  <2>1. x \in Nodes /\ y \in Nodes /\ parent[x] = e /\ parent[y] = e /\ x # Root /\ y # Root
    <3>1. parent[Root] = NULL
      BY <1>2, NodeFacts DEF NodesOK
    <3>. QED BY <1>2, <3>1, EntriesAre, NodeFacts
  <2>2. CASE x # n /\ y # n
    <3>1. name[x] = name[y] /\ name'[x] = name[x]
      BY <1>10, <2>1, <2>2
    <3>2. x \in taken \/ y \in taken \/ (e = Root /\ name[x] = "..")
      BY <3>1 DEF TreeInv, NamesDiffer, Same
    <3>3. taken \ {n} \subseteq taken'
      BY <1>1
    <3>. QED BY <2>2, <3>1, <3>2, <3>3
  <2>3. CASE x = n /\ n \notin taken'
    <3>1. e = d /\ name[y] = nm /\ name'[x] = nm
      BY <1>6, <1>10, <2>1, <2>3
    <3>. QED BY <1>5, <2>3, <3>1
  <2>4. CASE y = n /\ n \notin taken'
    <3>1. e = d /\ name[x] = nm /\ name'[x] = nm
      BY <1>6, <1>10, <2>1, <2>4
    <3>. QED BY <1>5, <2>4, <3>1
  <2>. QED BY <2>2, <2>3, <2>4
<1>. QED BY <1>7, <1>8, <1>9, <1>11 DEF TreeInv

LEMMA TreeInitOK == TreeInit => TreeInv
<1> SUFFICES ASSUME TreeInit PROVE TreeInv
  OBVIOUS
<1>1. /\ type = [n \in Nodes |-> IF n = Root THEN "dir" ELSE "unused"]
      /\ name = [n \in Nodes |-> ""] /\ parent = [n \in Nodes |-> NULL] /\ next = [n \in Nodes |-> NULL]
      /\ clist = [n \in Nodes |-> NULL] /\ ctail = [n \in Nodes |-> NULL]
      /\ open_ = [h \in Handles |-> NotOpen] /\ fsnode = [n \in Nodes |-> NULL]
      /\ owed = [h \in Handles |-> {}]
  BY DEF TreeInit
<1>2. NodesOK
  BY <1>1, NodeFacts DEF NodesOK
<1>3. LinksOK
  <2>1. \A n, m \in Nodes : type[n] = "unused" /\ type[m] # "unused" => m < n
    <3>1. \A n \in Nodes : n # Root => Root < n
      BY NodeFacts DEF Root
    <3>. QED BY <1>1, <3>1
  <2>. QED BY <1>1, <2>1 DEF LinksOK, Rising
<1>4. ListsOK
  BY <1>1 DEF ListsOK
<1>5. NamesDiffer
  <2>1. \A d \in Nodes : In(next, clist[d]) = {}
    BY <1>1, <1>3, InFacts DEF LinksOK
  <2>. QED BY <2>1 DEF NamesDiffer
<1>6. DirHandlesOK
  BY <1>1 DEF DirHandlesOK, NotOpen
<1>7. owed \in [Handles -> SUBSET Nodes] /\ ListingsOK
  BY <1>1 DEF ListingsOK
<1>. QED BY <1>2, <1>3, <1>4, <1>5, <1>6, <1>7 DEF TreeInv

LEMMA NextKeeps == TreeInv /\ [TreeNext]_treeVars => TreeInv'
<1>1. ASSUME TreeInv, UNCHANGED treeVars
      PROVE  TreeInv'
  <2>1. /\ type' = type /\ name' = name /\ parent' = parent /\ next' = next /\ clist' = clist
        /\ ctail' = ctail /\ open_' = open_ /\ fsnode' = fsnode /\ owed' = owed
    BY <1>1 DEF treeVars, tree
  <2>2. NodesOK' /\ LinksOK' /\ ListsOK'
    BY <1>1, <2>1 DEF TreeInv, NodesOK, LinksOK, ListsOK
  <2>3. NamesDiffer'
    BY <1>1, <2>1 DEF TreeInv, NamesDiffer, Same, treeVars, tree
  <2>. QED BY <1>1, <2>1, <2>2, <2>3 DEF TreeInv, DirHandlesOK, ListingsOK
<1>2. ASSUME TreeInv, TreeNext
      PROVE  TreeInv'
  <2>1. PICK h \in Handles :
          \/ \E p \in Paths : open(h, p) \/ create(h, p, "dir") \/ create(h, p, "file")
          \/ close(h) \/ rewinddir(h) \/ readdir(h) \/ remove_(h)
          \/ \E nm \in Names : rename(h, nm)
    BY <1>2 DEF TreeNext
  <2>2. ASSUME NEW p \in Paths, open(h, p) PROVE TreeInv'
    BY <1>2, <2>2, OpenDirKeeps
  <2>3. ASSUME NEW p \in Paths, create(h, p, "dir") \/ create(h, p, "file") PROVE TreeInv'
    BY <1>2, <2>3, CreateKeeps
  <2>4. ASSUME NEW nm \in Names, rename(h, nm) PROVE TreeInv'
    BY <1>2, <2>4, RenameKeeps
  <2>. QED BY <1>2, <2>1, <2>2, <2>3, <2>4, CloseKeeps, RewinddirKeeps, ReaddirKeeps, RemoveKeeps
<1>. QED BY <1>1, <1>2

-----------------------------------------------------------------------------
(* Every state the memory filesystem reaches satisfies the inductive        *)
(* invariant, for any number of nodes, names, paths and handles.            *)
THEOREM TreeInductive == TreeSpec => []TreeInv
<1>. QED BY TreeInitOK, NextKeeps, PTL DEF TreeSpec

LEMMA TypesOK == TreeInv => TreeTypeOK
<1> SUFFICES ASSUME TreeInv PROVE TreeTypeOK
  OBVIOUS
<1>1. NodesOK /\ LinksOK /\ DirHandlesOK
  BY DEF TreeInv
<1>2. /\ type \in [Nodes -> {"unused", "dir", "file"}]
      /\ name \in [Nodes -> Names \cup {"", ".."}]
      /\ \A f \in {parent, next, clist, ctail} : f \in [Nodes -> Nodes \cup {NULL}]
      /\ fsnode \in [Nodes -> Handles \cup {NULL}]
  BY <1>1 DEF NodesOK, LinksOK, Rising
<1>3. \A n \in Unallocated : parent[n] = NULL /\ next[n] = NULL
  BY <1>1 DEF NodesOK, LinksOK, Unallocated
<1>4. ASSUME NEW h \in Handles
      PROVE  /\ open_[h].node \in Allocated \cup {NULL}
             /\ open_[h].cur # NULL => parent[open_[h].cur] = open_[h].node
  BY <1>1 DEF DirHandlesOK, Allocated, Unallocated
<1>. QED BY <1>2, <1>3, <1>4 DEF TreeTypeOK

(* The lists of the memory filesystem's directories (clist, next, ctail in  *)
(* fsmem.c) make a tree after any creations, removals and renames: no list  *)
(* runs in a circle or into another directory's, ctail is the entry that    *)
(* add_child has to append to, and a name is twice in one only where rename *)
(* gave it when it was taken, which it does not ask (fsmem.c:412-418).      *)
THEOREM ListsMakeATree == TreeSpec => []TreeOK
<1>1. ASSUME TreeInv PROVE TreeOK
  <2>1. NodesOK /\ LinksOK /\ ListsOK /\ NamesDiffer /\ Rising(next)
    BY <1>1 DEF TreeInv, LinksOK
  <2>2. ASSUME NEW d \in Allocated
        PROVE  LET list == Children(d) IN
               /\ \A i, j \in DOMAIN list : list[i] = list[j] => i = j
               /\ \A n, m \in Members(list) :
                    Same(n, m) => n \in taken \/ m \in taken \/ (d = Root /\ name[n] = "..")
               /\ \A n \in Members(list) : parent[n] = d /\ type[n] # "unused"
               /\ list # << >> => type[d] = "dir" /\ ctail[d] = list[Len(list)]
    <3> DEFINE list == Children(d)
    <3>1. d \in Nodes /\ clist[d] \in Nodes \cup {NULL}
      BY <2>1 DEF NodesOK, Allocated
    <3>2. list = List(next, clist[d]) /\ Members(list) = In(next, clist[d])
      BY ListIs, ListMembers DEF Children
    <3>3. /\ \A i, j \in DOMAIN list : list[i] = list[j] => i = j
          /\ \A x \in In(next, clist[d]) : next[x] = NULL => x = list[Len(list)]
          /\ list # << >> => clist[d] # NULL
      BY <2>1, <3>1, <3>2, ListOrder
    <3>4. \A n, m \in Members(list) :
             Same(n, m) => n \in taken \/ m \in taken \/ (d = Root /\ name[n] = "..")
      BY <2>1, <3>1, <3>2 DEF NamesDiffer
    <3>5. \A n \in Members(list) : parent[n] = d /\ type[n] # "unused"
      BY <2>1, <3>1, <3>2, EntriesAre
    <3>6. clist[d] # NULL => type[d] = "dir" /\ ctail[d] \in In(next, clist[d]) /\ next[ctail[d]] = NULL
      BY <2>1, <3>1 DEF ListsOK
    <3> HIDE DEF list
    <3>7. list # << >> => type[d] = "dir" /\ ctail[d] = list[Len(list)]
      BY <3>3, <3>6
    <3>8. /\ \A i, j \in DOMAIN list : list[i] = list[j] => i = j
          /\ \A n, m \in Members(list) :
               Same(n, m) => n \in taken \/ m \in taken \/ (d = Root /\ name[n] = "..")
          /\ \A n \in Members(list) : parent[n] = d /\ type[n] # "unused"
          /\ list # << >> => type[d] = "dir" /\ ctail[d] = list[Len(list)]
      BY <3>3, <3>4, <3>5, <3>7
    <3>. QED BY <3>8, Zenon DEF list
  <2>. QED BY <1>1, <2>2, TypesOK DEF TreeOK
<1>. QED BY <1>1, TreeInductive, PTL

(* A listing of a directory (odir, readdir) still has to come to every      *)
(* entry that was there when it began and has neither been given nor been   *)
(* removed, whatever others create and remove meanwhile.                    *)
THEOREM ListingsAreComplete == TreeSpec => []ListingComplete
<1>1. TreeInv => ListingComplete
  BY ListMembers DEF TreeInv, ListingsOK, ListingComplete
<1>. QED BY <1>1, TreeInductive, PTL
=============================================================================
