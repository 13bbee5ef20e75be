---------------------------- MODULE FatFileProofs ---------------------------
(***************************************************************************)
(* Proofs about reading and seeking in a file of a FAT16 or FAT32 volume,   *)
(* for any cluster size, any files and any bounds.                          *)
(***************************************************************************)
EXTENDS FatFile, SequenceTheorems, WellFoundedInduction, TLAPS

(* A set of natural numbers has a least one *)
LEMMA Least ==
  ASSUME NEW T \in SUBSET Nat, T # {}
  PROVE  \E m \in T : \A n \in T : m <= n
<1> DEFINE R == OpToRel(<, Nat)
<1>1. IsWellFoundedOn(R, Nat)
  BY NatLessThanWellFounded, Zenon
<1>2. \A x, y \in Nat : y < x => << y, x >> \in R
  BY Zenon DEF OpToRel
<1> HIDE DEF R
<1>3. \E x \in T : \A y \in T : ~(<< y, x >> \in R)
  BY <1>1, WFMin, Zenon
<1>4. PICK x \in T : \A y \in T : ~(<< y, x >> \in R)
  BY <1>3
<1>5. ASSUME NEW y \in T
      PROVE  x <= y
  <2>1. x \in Nat /\ y \in Nat
    OBVIOUS
  <2>2. ~(y < x)
    BY <1>2, <1>4, <2>1
  <2>. QED BY <2>1, <2>2
<1>. QED BY <1>5

-----------------------------------------------------------------------------
(* Positions and the clusters they are in *)
LEMMA Monotonic ==
  ASSUME NEW c \in Nat, NEW a \in Int, NEW b \in Int, a <= b
  PROVE  c * a <= c * b
OBVIOUS

LEMMA IdxFacts ==
  ASSUME NEW x \in Nat
  PROVE  /\ Idx(x) \in Nat /\ x % CLUST \in Nat /\ x % CLUST < CLUST
         /\ CLUST * Idx(x) \in Nat /\ x = (CLUST * Idx(x)) + (x % CLUST)
         /\ CLUST * Idx(x) <= x /\ x < (CLUST * Idx(x)) + CLUST
<1>1. CLUST \in Nat /\ CLUST > 0
  BY FatFileAssumption
<1>2. /\ Idx(x) \in Nat /\ x % CLUST \in Nat /\ x % CLUST < CLUST
      /\ CLUST * Idx(x) \in Nat /\ x = (CLUST * Idx(x)) + (x % CLUST)
  BY <1>1 DEF Idx
<1>. QED BY <1>1, <1>2

LEMMA IdxIs ==
  ASSUME NEW x \in Nat, NEW q \in Nat, CLUST * q <= x, x < (CLUST * q) + CLUST
  PROVE  Idx(x) = q
<1>1. CLUST \in Nat /\ CLUST > 0
  BY FatFileAssumption
<1>2. Idx(x) \in Nat /\ CLUST * Idx(x) <= x /\ x < (CLUST * Idx(x)) + CLUST
  BY IdxFacts
<1>3. ASSUME NEW a \in Nat, NEW b \in Nat, a < b
      PROVE  (CLUST * a) + CLUST <= CLUST * b
  <2>1. CLUST * (a + 1) <= CLUST * b
    BY <1>1, <1>3, Monotonic
  <2>2. CLUST * (a + 1) = (CLUST * a) + CLUST
    BY <1>1
  <2>. QED BY <2>1, <2>2
<1>4. ~(q < Idx(x))
  <2>1. q < Idx(x) => (CLUST * q) + CLUST <= CLUST * Idx(x)
    BY <1>2, <1>3
  <2>. QED BY <1>1, <1>2, <2>1
<1>5. ~(Idx(x) < q)
  <2>1. Idx(x) < q => (CLUST * Idx(x)) + CLUST <= CLUST * q
    BY <1>2, <1>3
  <2>. QED BY <1>1, <1>2, <2>1
<1>. QED BY <1>2, <1>4, <1>5

LEMMA IdxMonotonic ==
  ASSUME NEW x \in Nat, NEW y \in Nat, x <= y
  PROVE  Idx(x) <= Idx(y)
<1>1. CLUST \in Nat /\ CLUST > 0
  BY FatFileAssumption
<1>2. /\ Idx(x) \in Nat /\ CLUST * Idx(x) <= x /\ CLUST * Idx(x) \in Nat
      /\ Idx(y) \in Nat /\ y < (CLUST * Idx(y)) + CLUST /\ CLUST * Idx(y) \in Nat
  BY IdxFacts
<1>3. SUFFICES ASSUME Idx(y) + 1 <= Idx(x) PROVE FALSE
  BY <1>2
<1>4. CLUST * (Idx(y) + 1) <= CLUST * Idx(x)
  BY <1>1, <1>2, <1>3, Monotonic
<1>5. CLUST * (Idx(y) + 1) = (CLUST * Idx(y)) + CLUST
  BY <1>1, <1>2
<1>. QED BY <1>1, <1>2, <1>4, <1>5

(* A position before the end of n clusters is in one of them *)
LEMMA IdxBelow ==
  ASSUME NEW x \in Nat, NEW n \in Nat
  PROVE  x < CLUST * n <=> Idx(x) < n
<1>1. CLUST \in Nat /\ CLUST > 0
  BY FatFileAssumption
<1>2. Idx(x) \in Nat /\ CLUST * Idx(x) \in Nat /\ CLUST * Idx(x) <= x /\ x < (CLUST * Idx(x)) + CLUST
  BY IdxFacts
<1>0. CLUST * n \in Nat
  BY <1>1
<1>3. CASE Idx(x) < n
  <2>1. CLUST * (Idx(x) + 1) <= CLUST * n
    BY <1>1, <1>2, <1>3, Monotonic
  <2>2. CLUST * (Idx(x) + 1) = (CLUST * Idx(x)) + CLUST
    BY <1>1, <1>2
  <2>. QED BY <1>0, <1>1, <1>2, <1>3, <2>1, <2>2
<1>4. CASE n <= Idx(x)
  <2>1. CLUST * n <= CLUST * Idx(x)
    BY <1>1, <1>2, <1>4, Monotonic
  <2>. QED BY <1>0, <1>2, <1>4, <2>1
<1>. QED BY <1>2, <1>3, <1>4
-----------------------------------------------------------------------------
(* The chain of the open file, and what read_fat says of it.  The table of  *)
(* a FAT12 volume is read wrongly (fsfat.c:875).                            *)
Wide == FatType # "FAT12"
Chain == dent.chain
At(i) == IF i <= Len(Chain) THEN Chain[i] ELSE -1
HasTable == dent \in Files /\ fat = TableOf(dent)

LEMMA FileFacts ==
  ASSUME NEW f \in Files
  PROVE  /\ f.size \in Nat /\ f.chain \in Seq(Clusters) /\ Len(f.chain) \in Nat /\ Len(f.chain) > 0
         /\ f.size <= CLUST * Len(f.chain)
         /\ \A i \in 1 .. Len(f.chain) : f.chain[i] \in Clusters
         /\ \A i, j \in 1 .. Len(f.chain) : f.chain[i] = f.chain[j] => i = j
         /\ f # NoFile
<1>1. /\ f.size \in Nat /\ f.chain \in Seq(Clusters) /\ Len(f.chain) > 0
      /\ f.size <= CLUST * Len(f.chain)
      /\ \A i, j \in 1 .. Len(f.chain) : f.chain[i] = f.chain[j] => i = j
  BY FatFileAssumption
<1>2. Len(f.chain) \in Nat /\ \A i \in 1 .. Len(f.chain) : f.chain[i] \in Clusters
  BY <1>1
<1>3. f # NoFile
  <2>1. NoFile.size = -1
    BY DEF NoFile
  <2>. QED BY <1>1, <2>1
<1>. QED BY <1>1, <1>2, <1>3

LEMMA ClusterFacts ==
  ASSUME NEW c \in Clusters
  PROVE  c \in Nat /\ 2 <= c /\ c <= LastCluster /\ c < EndOfChain - 7
<1>1. LastCluster \in Nat /\ EndOfChain \in Nat /\ LastCluster < EndOfChain - 7
  BY FatFileAssumption DEF ClusterLimit, EndOfChain
<1>. QED BY <1>1 DEF Clusters

LEMMA PlaceInChain ==
  ASSUME NEW f \in Files, NEW i \in 1 .. Len(f.chain)
  PROVE  Follows(f, f.chain[i]) = {i}
BY FileFacts DEF Follows

LEMMA EntryIs ==
  ASSUME NEW f \in Files, NEW i \in 1 .. Len(f.chain)
  PROVE  Entry(f, f.chain[i]) = IF i = Len(f.chain) THEN EndOfChain ELSE f.chain[i + 1]
<1>1. Follows(f, f.chain[i]) = {i} /\ {i} # {}
  BY PlaceInChain
<1>2. (CHOOSE j \in {i} : TRUE) = i
  OBVIOUS
<1>. QED BY <1>1, <1>2 DEF Entry

LEMMA EndIsLarge ==
  ASSUME Wide
  PROVE  EndOfChain \in Nat /\ EndOfChain >= 65535
BY FatFileAssumption DEF Wide, EndOfChain

(* read_fat gives what was written *)
LEMMA ReadFatIs ==
  ASSUME Wide, HasTable, NEW c \in Clusters
  PROVE  read_fat(c) = Entry(dent, c)
<1>1. c \in 0 .. LastCluster
  BY ClusterFacts
<1>2. fat = [w \in 0 .. LastCluster |-> Entry(dent, w)]
  BY DEF HasTable, TableOf, Wide
<1>. QED BY <1>1, <1>2 DEF read_fat, Wide

LEMMA AtFacts ==
  ASSUME HasTable, NEW i \in Nat \ {0}
  PROVE  /\ At(i) \in Int
         /\ i <= Len(Chain) => At(i) = Chain[i] /\ At(i) \in Clusters /\ At(i) >= 2
         /\ ~(i <= Len(Chain)) => At(i) = -1
<1>1. CASE i <= Len(Chain)
  <2>1. i \in 1 .. Len(Chain) /\ Chain[i] \in Clusters
    BY <1>1, FileFacts DEF HasTable, Chain
  <2>. QED BY <1>1, <2>1, ClusterFacts DEF At
<1>2. CASE ~(i <= Len(Chain))
  BY <1>2 DEF At
<1>. QED BY <1>1, <1>2

LEMMA NextIs ==
  ASSUME Wide, HasTable, NEW i \in Nat \ {0}
  PROVE  next_cluster(At(i)) = At(i + 1)
<1>0. Len(Chain) \in Nat
  BY FileFacts DEF HasTable, Chain
<1>1. CASE ~(i <= Len(Chain))
  <2>1. At(i) = -1 /\ At(i + 1) = -1
    BY <1>0, <1>1 DEF At
  <2>. QED BY <2>1 DEF next_cluster
<1>2. CASE i <= Len(Chain)
  <2>1. i \in 1 .. Len(Chain) /\ At(i) \in Clusters /\ At(i) = Chain[i]
    BY <1>2, AtFacts
  <2>2. read_fat(At(i)) = Entry(dent, At(i))
    BY <2>1, ReadFatIs
  <2>3. Entry(dent, At(i)) = IF i = Len(Chain) THEN EndOfChain ELSE Chain[i + 1]
    BY <2>1, EntryIs DEF HasTable, Chain
  <2>4. At(i) \in Nat /\ ~(At(i) < 0)
    BY <2>1, ClusterFacts
  <2>5. CASE i = Len(Chain)
    <3>1. read_fat(At(i)) = EndOfChain /\ EndOfChain >= EndOfChain - 7
      BY <2>2, <2>3, <2>5, EndIsLarge
    <3>2. At(i + 1) = -1
      BY <1>0, <2>5 DEF At
    <3>. QED BY <3>1, <3>2 DEF next_cluster
  <2>6. CASE i # Len(Chain)
    <3>1. i + 1 \in Nat \ {0} /\ i + 1 <= Len(Chain)
      BY <1>0, <1>2, <2>6
    <3>2. At(i + 1) = Chain[i + 1] /\ At(i + 1) \in Clusters
      BY <3>1, AtFacts
    <3>3. read_fat(At(i)) = At(i + 1)
      BY <2>2, <2>3, <2>6, <3>2
    <3>4. At(i + 1) \in Nat /\ At(i + 1) >= 2 /\ At(i + 1) < EndOfChain - 7
      BY <3>2, ClusterFacts
    <3>5. ~(At(i + 1) = 0) /\ ~(At(i + 1) >= EndOfChain - 7)
      BY <3>4, EndIsLarge
    <3>. QED BY <2>4, <3>3, <3>5 DEF next_cluster
  <2>. QED BY <2>5, <2>6
<1>. QED BY <1>1, <1>2

(* find_cluster goes that many clusters along the chain, and to -1 when it  *)
(* is not as long                                                           *)
LEMMA FindIs ==
  ASSUME Wide, HasTable, NEW i \in Nat \ {0}, NEW n \in Nat
  PROVE  find_cluster(n, At(i)) = At(i + n)
<1> DEFINE Turn(g, k) == IF k = 0 THEN At(i) ELSE next_cluster(g[k - 1])
           Along(g) == g = [k \in 0 .. n |-> Turn(g, k)]
           F == CHOOSE g : Along(g)
           W == [k \in 0 .. n |-> At(i + k)]
<1>1. find_cluster(n, At(i)) = F[n]
  BY DEF find_cluster
<1>2. \A k \in 0 .. n : W[k] = Turn(W, k)
  <2> SUFFICES ASSUME NEW k \in 0 .. n PROVE W[k] = Turn(W, k)
    OBVIOUS
  <2>1. CASE k = 0
    <3>1. i + k = i
      BY <2>1
    <3>. QED BY <2>1, <3>1
  <2>2. CASE k # 0
    <3>1. k - 1 \in 0 .. n /\ i + (k - 1) \in Nat \ {0} /\ (i + (k - 1)) + 1 = i + k
      BY <2>2
    <3>2. W[k - 1] = At(i + (k - 1)) /\ W[k] = At(i + k)
      BY <3>1
    <3>3. next_cluster(At(i + (k - 1))) = At((i + (k - 1)) + 1)
      BY <3>1, NextIs
    <3> HIDE DEF W
    <3>. QED BY <2>2, <3>1, <3>2, <3>3
  <2>. QED BY <2>1, <2>2
<1>3. Along(W)
  <2>1. W = [k \in 0 .. n |-> W[k]]
    OBVIOUS
  <2> HIDE DEF W, Turn
  <2>. QED BY <1>2, <2>1
<1>4. Along(F)
  <2> HIDE DEF Along, W
  <2>1. \E g : Along(g)
    BY <1>3
  <2>. QED BY <2>1
<1>5. \A k \in 0 .. n : F[k] = Turn(F, k)
  <2> HIDE DEF F, Turn
  <2>. QED BY <1>4
<1> HIDE DEF F, W, Along
<1>6. ASSUME NEW k \in 0 .. n, k # 0 => F[k - 1] = W[k - 1]
      PROVE  F[k] = W[k]
  <2>1. F[k] = Turn(F, k) /\ W[k] = Turn(W, k)
    BY <1>2, <1>5
  <2>2. Turn(F, k) = Turn(W, k)
    BY <1>6
  <2> HIDE DEF Turn
  <2>. QED BY <2>1, <2>2
<1>7. \A k \in 0 .. n : F[k] = W[k]
  <2> DEFINE T == {k \in 0 .. n : F[k] # W[k]}
  <2>1. SUFFICES ASSUME T # {} PROVE FALSE
    OBVIOUS
  <2>2. T \in SUBSET Nat
    OBVIOUS
  <2>3. PICK k \in T : \A j \in T : k <= j
    BY <2>1, <2>2, Least
  <2>4. k \in 0 .. n /\ F[k] # W[k]
    OBVIOUS
  <2>5. k # 0 => k - 1 \in 0 .. n /\ ~(k <= k - 1)
    BY <2>4
  <2>6. k # 0 => F[k - 1] = W[k - 1]
    BY <2>3, <2>5
  <2>. QED BY <1>6, <2>4, <2>6
<1>8. n \in 0 .. n
  OBVIOUS
<1>. QED BY <1>1, <1>7, <1>8 DEF W
-----------------------------------------------------------------------------
(* Reading.  A turn of the loop, from the state the previous one left: what *)
(* was read so far is what the file has from cur_pos on, and while it goes  *)
(* on, clust is the cluster of pos, and a valid buffer holds it.            *)
LoopState == [pos : Nat, clust : Int, buf : Int, valid : BOOLEAN, out : Seq(Nat), on : BOOLEAN, wild : BOOLEAN]
Bytes(from, n) == [j \in 1 .. n |-> from + j - 1]

InFile(p) == p \in Nat /\ p <= dent.size /\ Idx(p) < Len(Chain)
Reading(s, sz) ==
  /\ s \in LoopState /\ ~s.wild
  /\ cur_pos <= s.pos /\ s.pos <= dent.size /\ s.pos - cur_pos <= sz
  /\ s.out = Bytes(cur_pos, s.pos - cur_pos)
  /\ s.buf \in Clusters \cup {NoBuf}
  /\ s.on => InFile(s.pos) /\ s.clust = Chain[Idx(s.pos) + 1] /\ (s.valid => s.buf = s.clust)
  /\ ~s.on => s.pos = dent.size /\ s.clust = -1 /\ ~s.valid

LEMMA BytesFacts ==
  ASSUME NEW from \in Nat, NEW n \in Nat
  PROVE  /\ Bytes(from, n) \in Seq(Nat) /\ Len(Bytes(from, n)) = n
         /\ \A j \in 1 .. n : Bytes(from, n)[j] = from + j - 1
<1>1. \A j \in 1 .. n : from + j - 1 \in Nat
  OBVIOUS
<1>. QED BY <1>1 DEF Bytes

LEMMA BytesJoin ==
  ASSUME NEW from \in Nat, NEW n \in Nat, NEW m \in Nat
  PROVE  Bytes(from, n) \o Bytes(from + n, m) = Bytes(from, n + m)
<1> DEFINE a == Bytes(from, n)
           b == Bytes(from + n, m)
           c == Bytes(from, n + m)
           ab == a \o b
<1>1. a \in Seq(Nat) /\ Len(a) = n /\ \A j \in 1 .. n : a[j] = from + j - 1
  BY BytesFacts
<1>2. b \in Seq(Nat) /\ Len(b) = m /\ \A j \in 1 .. m : b[j] = from + n + j - 1
  <2>1. from + n \in Nat
    OBVIOUS
  <2>2. b \in Seq(Nat) /\ Len(b) = m /\ \A j \in 1 .. m : b[j] = (from + n) + j - 1
    BY <2>1, BytesFacts
  <2> HIDE DEF b
  <2>. QED BY <2>2
<1>3. c \in Seq(Nat) /\ Len(c) = n + m /\ \A j \in 1 .. n + m : c[j] = from + j - 1
  <2>1. n + m \in Nat
    OBVIOUS
  <2>. QED BY <2>1, BytesFacts
<1> HIDE DEF a, b, c
<1>4. /\ ab \in Seq(Nat) /\ Len(ab) = n + m
      /\ \A j \in 1 .. n + m : ab[j] = IF j <= n THEN a[j] ELSE b[j - n]
  <2>1. /\ ab \in Seq(Nat) /\ Len(ab) = Len(a) + Len(b)
        /\ \A j \in 1 .. Len(a) + Len(b) : ab[j] = IF j <= Len(a) THEN a[j] ELSE b[j - Len(a)]
    BY <1>1, <1>2, ConcatProperties
  <2> HIDE DEF ab
  <2>. QED BY <1>1, <1>2, <2>1
<1> HIDE DEF ab
<1>5. ASSUME NEW j \in 1 .. n + m
      PROVE  ab[j] = c[j]
  <2>1. CASE j <= n
    BY <1>1, <1>3, <1>4, <2>1
  <2>2. CASE ~(j <= n)
    <3>1. j - n \in 1 .. m
      BY <2>2
    <3>2. b[j - n] = from + n + (j - n) - 1
      BY <1>2, <3>1
    <3>3. from + n + (j - n) - 1 = from + j - 1
      OBVIOUS
    <3>4. ab[j] = b[j - n]
      BY <1>4, <2>2
    <3>5. c[j] = from + j - 1
      BY <1>3
    <3>. QED BY <3>2, <3>3, <3>4, <3>5
  <2>. QED BY <2>1, <2>2
<1>6. ab = c
  BY <1>3, <1>4, <1>5, SeqEqual
<1>. QED BY <1>6 DEF a, b, c, ab

(* The bytes of a cluster are where the cluster is in the chain *)
LEMMA ByteIs ==
  ASSUME HasTable, NEW p \in Nat, Idx(p) < Len(Chain), NEW n \in Nat
  PROVE  [j \in 1 .. n |-> ByteAt(Chain[Idx(p) + 1], (p % CLUST) + j - 1)] = Bytes(p, n)
<1> DEFINE q == Idx(p) + 1
<1>1. /\ Idx(p) \in Nat /\ p % CLUST \in Nat /\ CLUST * Idx(p) \in Nat
      /\ p = (CLUST * Idx(p)) + (p % CLUST)
  BY IdxFacts
<1>2. q \in 1 .. Len(Chain) /\ q - 1 = Idx(p)
  BY <1>1, FileFacts DEF HasTable, Chain
<1> HIDE DEF q
<1>3. Follows(dent, Chain[q]) = {q} /\ {q} # {} /\ (CHOOSE i \in {q} : TRUE) = q
  BY <1>2, PlaceInChain DEF HasTable, Chain
<1>4. ASSUME NEW j \in 1 .. n
      PROVE  ByteAt(Chain[q], (p % CLUST) + j - 1) = p + j - 1
  <2>1. ByteAt(Chain[q], (p % CLUST) + j - 1) = CLUST * (q - 1) + ((p % CLUST) + j - 1)
    BY <1>3 DEF ByteAt
  <2>2. CLUST * (q - 1) = CLUST * Idx(p)
    BY <1>2
  <2>. QED BY <1>1, <2>1, <2>2
<1>. QED BY <1>4 DEF Bytes, q
(* How many bytes a turn copies: within the cluster, within the file, and   *)
(* not more than asked for; and where the position is then                  *)
LEMMA TurnLength ==
  ASSUME HasTable, NEW p \in Nat, p <= dent.size, Idx(p) < Len(Chain), NEW want \in Nat, want > 0
  PROVE  LET room == IF CLUST - (p % CLUST) < want THEN CLUST - (p % CLUST) ELSE want
             len == IF p + room > dent.size THEN dent.size - p ELSE room
         IN  /\ len \in Nat /\ len <= want /\ p + len <= dent.size
             /\ p + len < dent.size => len > 0 /\ Idx(p + len) < Len(Chain)
             /\ Idx(p + len) = Idx(p) \/ Idx(p + len) = Idx(p) + 1
<1> DEFINE room == IF CLUST - (p % CLUST) < want THEN CLUST - (p % CLUST) ELSE want
           len == IF p + room > dent.size THEN dent.size - p ELSE room
<1>1. CLUST \in Nat /\ CLUST > 0 /\ dent.size \in Nat /\ Len(Chain) \in Nat /\ dent.size <= CLUST * Len(Chain)
  BY FatFileAssumption, FileFacts DEF HasTable, Chain
<1>2. /\ Idx(p) \in Nat /\ p % CLUST \in Nat /\ p % CLUST < CLUST
      /\ CLUST * Idx(p) \in Nat /\ p = (CLUST * Idx(p)) + (p % CLUST)
  BY IdxFacts
<1>3. room \in Nat /\ room > 0 /\ room <= want /\ (p % CLUST) + room <= CLUST
  BY <1>1, <1>2
<1> HIDE DEF room
<1>4. len \in Nat /\ len <= room /\ p + len <= dent.size /\ (p + len < dent.size => len > 0)
  BY <1>1, <1>3
<1> HIDE DEF len
<1>5. p + len \in Nat /\ CLUST * Idx(p) <= p + len /\ p + len <= (CLUST * Idx(p)) + CLUST
  BY <1>1, <1>2, <1>3, <1>4
<1>6. p + len < dent.size => Idx(p + len) < Len(Chain)
  <2>1. p + len < dent.size => p + len < CLUST * Len(Chain)
    <3>1. CLUST * Len(Chain) \in Nat
      BY <1>1
    <3>. QED BY <1>1, <1>5, <3>1
  <2>. QED BY <1>1, <1>5, <2>1, IdxBelow
<1>7. Idx(p + len) = Idx(p) \/ Idx(p + len) = Idx(p) + 1
  <2>1. CASE p + len < (CLUST * Idx(p)) + CLUST
    BY <1>2, <1>5, <2>1, IdxIs
  <2>2. CASE p + len = (CLUST * Idx(p)) + CLUST
    <3> DEFINE q == Idx(p) + 1
    <3>1. q \in Nat /\ CLUST * q = (CLUST * Idx(p)) + CLUST
      BY <1>1, <1>2
    <3> HIDE DEF q
    <3>2. CLUST * q <= p + len /\ p + len < (CLUST * q) + CLUST
      BY <1>1, <1>2, <1>5, <2>2, <3>1
    <3>3. Idx(p + len) = q
      BY <1>5, <3>1, <3>2, IdxIs
    <3>. QED BY <3>3 DEF q
  <2>3. p + len < (CLUST * Idx(p)) + CLUST \/ p + len = (CLUST * Idx(p)) + CLUST
    <3> DEFINE end == (CLUST * Idx(p)) + CLUST
               here == p + len
    <3>1. end \in Nat /\ here \in Nat /\ here <= end
      BY <1>1, <1>2, <1>5
    <3> HIDE DEF end, here
    <3>2. here < end \/ here = end
      BY <3>1
    <3>. QED BY <3>2 DEF end, here
  <2>. QED BY <2>1, <2>2, <2>3
<1>8. len <= want
  BY <1>3, <1>4
<1>. QED BY <1>4, <1>6, <1>7, <1>8 DEF len, room

LEMMA TurnReads ==
  ASSUME Wide, HasTable, cur_pos \in Nat, NEW sz \in Nat,
         NEW s, Reading(s, sz), s.on, Len(s.out) < sz
  PROVE  /\ Reading(ReadStep(s, sz, {}), sz)
         /\ ReadStep(s, sz, {}).on => ReadStep(s, sz, {}).pos > s.pos
<1> DEFINE p == s.pos
           buf == IF s.valid THEN s.buf ELSE s.clust
           want == sz - Len(s.out)
           room == IF CLUST - (p % CLUST) < want THEN CLUST - (p % CLUST) ELSE want
           len == IF p + room > dent.size THEN dent.size - p ELSE room
           pos == p + len
           next == IF Idx(pos) # Idx(p) THEN next_cluster(s.clust) ELSE s.clust
           out == s.out \o [j \in 1 .. len |-> ByteAt(buf, (p % CLUST) + j - 1)]
           no == FALSE
           none == -1
           Last == [s EXCEPT !.pos = pos, !.clust = none, !.buf = buf, !.valid = no, !.out = out, !.on = no]
           More == [s EXCEPT !.pos = pos, !.clust = next, !.buf = buf, !.valid = ~(Idx(pos) # Idx(p)),
                             !.out = out, !.on = next >= 0]
<1>0. ReadStep(s, sz, {}) = IF len < 0 THEN [s EXCEPT !.wild = TRUE, !.on = FALSE]
                        ELSE IF pos >= dent.size THEN Last ELSE More
  BY DEF ReadStep
<1>1. /\ p \in Nat /\ cur_pos <= p /\ p <= dent.size /\ p - cur_pos <= sz /\ Idx(p) < Len(Chain)
      /\ s.out = Bytes(cur_pos, p - cur_pos) /\ s.clust = Chain[Idx(p) + 1] /\ s \in LoopState
      /\ (s.valid => s.buf = s.clust) /\ s.valid \in BOOLEAN /\ s.wild = FALSE
  BY DEF Reading, InFile, LoopState
<1>2. dent.size \in Nat /\ Len(Chain) \in Nat /\ Idx(p) \in Nat
  BY <1>1, FileFacts, IdxFacts DEF HasTable, Chain
<1>3. buf = Chain[Idx(p) + 1] /\ buf \in Clusters /\ buf = At(Idx(p) + 1) /\ buf \in Nat
  <2>1. buf = Chain[Idx(p) + 1]
    BY <1>1
  <2>2. Idx(p) + 1 \in Nat \ {0} /\ Idx(p) + 1 <= Len(Chain)
    BY <1>1, <1>2
  <2> HIDE DEF buf, p
  <2>3. buf \in Clusters /\ buf = At(Idx(p) + 1)
    BY <2>1, <2>2, AtFacts
  <2>. QED BY <2>1, <2>3, ClusterFacts
<1>4. want \in Nat /\ want > 0 /\ p - cur_pos \in Nat /\ Len(s.out) = p - cur_pos
  <2>1. p - cur_pos \in Nat
    BY <1>1
  <2>2. Len(s.out) = p - cur_pos
    BY <1>1, <2>1, BytesFacts
  <2>. QED BY <2>1, <2>2
<1>5. /\ len \in Nat /\ len <= want /\ p + len <= dent.size
      /\ p + len < dent.size => len > 0 /\ Idx(p + len) < Len(Chain)
      /\ Idx(p + len) = Idx(p) \/ Idx(p + len) = Idx(p) + 1
  <2> HIDE DEF want, p
  <2>. QED BY <1>1, <1>4, TurnLength DEF p
<1>6. out = Bytes(cur_pos, pos - cur_pos) /\ out \in Seq(Nat)
  <2>1. [j \in 1 .. len |-> ByteAt(buf, (p % CLUST) + j - 1)] = Bytes(p, len)
    <3> HIDE DEF len, p, buf
    <3>1. [j \in 1 .. len |-> ByteAt(Chain[Idx(p) + 1], (p % CLUST) + j - 1)] = Bytes(p, len)
      BY <1>1, <1>5, ByteIs
    <3>. QED BY <1>3, <3>1
  <2> DEFINE d == p - cur_pos
  <2>2. d \in Nat /\ cur_pos + d = p /\ pos - cur_pos = d + len
    BY <1>1, <1>4, <1>5
  <2> HIDE DEF d, len, p
  <2>3. Bytes(cur_pos, d) \o Bytes(cur_pos + d, len) = Bytes(cur_pos, d + len)
    BY <1>5, <2>2, BytesJoin
  <2>4. d + len \in Nat
    BY <1>5, <2>2
  <2>5. Bytes(cur_pos, d + len) \in Seq(Nat)
    BY <2>4, BytesFacts
  <2>. QED BY <1>1, <2>1, <2>2, <2>3, <2>5 DEF d
<1>7. pos \in Nat /\ cur_pos <= pos /\ pos <= dent.size /\ pos - cur_pos <= sz
  <2> HIDE DEF len, p, want
  <2>1. Len(s.out) = p - cur_pos /\ want = sz - Len(s.out)
    BY <1>4 DEF want
  <2>. QED BY <1>1, <1>2, <1>5, <2>1
<1> HIDE DEF len, out, buf, p, want
<1>8. CASE pos >= dent.size
  <2>1. pos = dent.size
    BY <1>2, <1>7, <1>8
  <2>2. /\ Last \in LoopState /\ Last.pos = pos /\ Last.clust = -1 /\ Last.buf = buf /\ Last.valid = FALSE
        /\ Last.out = out /\ Last.on = FALSE /\ Last.wild = FALSE
    <3>1. no = FALSE /\ no \in BOOLEAN /\ none = -1 /\ none \in Int /\ buf \in Int
      BY <1>3
    <3> HIDE DEF pos, no, none
    <3>2. /\ Last \in LoopState /\ Last.pos = pos /\ Last.clust = none /\ Last.buf = buf /\ Last.valid = no
          /\ Last.out = out /\ Last.on = no /\ Last.wild = s.wild
      BY <1>1, <1>6, <1>7, <3>1 DEF LoopState
    <3> HIDE DEF Last
    <3>. QED BY <1>1, <3>1, <3>2
  <2> HIDE DEF Last, pos
  <2>3. Reading(Last, sz)
    BY <1>3, <1>6, <1>7, <2>1, <2>2 DEF Reading
  <2>4. ReadStep(s, sz, {}) = Last
    BY <1>0, <1>5, <1>8
  <2>. QED BY <2>2, <2>3, <2>4
<1>9. CASE ~(pos >= dent.size)
  <2>1. pos < dent.size /\ len > 0 /\ Idx(pos) < Len(Chain)
    BY <1>2, <1>5, <1>7, <1>9
  <2>2. next = At(Idx(pos) + 1)
    <3>1. CASE Idx(pos) = Idx(p)
      BY <1>1, <1>3, <3>1
    <3>2. CASE Idx(pos) # Idx(p)
      <4>1. Idx(pos) = Idx(p) + 1
        BY <1>5, <3>2
      <4>2. Idx(p) + 1 \in Nat \ {0}
        BY <1>2
      <4>3. next_cluster(At(Idx(p) + 1)) = At((Idx(p) + 1) + 1)
        BY <4>2, NextIs
      <4>. QED BY <1>1, <1>3, <3>2, <4>1, <4>3
    <3>. QED BY <3>1, <3>2
  <2>3. next = Chain[Idx(pos) + 1] /\ next \in Clusters /\ next \in Int /\ next >= 0
    <3>1. Idx(pos) \in Nat
      BY <1>7, IdxFacts
    <3>2. Idx(pos) + 1 \in Nat \ {0} /\ Idx(pos) + 1 <= Len(Chain)
      BY <1>2, <2>1, <3>1
    <3> HIDE DEF next, pos
    <3>3. next = Chain[Idx(pos) + 1] /\ next \in Clusters
      BY <2>2, <3>2, AtFacts
    <3>. QED BY <3>3, ClusterFacts
  <2>4. Idx(pos) = Idx(p) => next = buf
    BY <1>1, <1>3
  <2> DEFINE same == ~(Idx(pos) # Idx(p))
             on == next >= 0
  <2>5. same \in BOOLEAN /\ (same => next = buf) /\ on = TRUE
    BY <2>3, <2>4
  <2> HIDE DEF next, pos, same, on
  <2>6. /\ More \in LoopState /\ More.pos = pos /\ More.clust = next /\ More.buf = buf /\ More.valid = same
        /\ More.out = out /\ More.on = on /\ More.wild = FALSE
    BY <1>1, <1>3, <1>6, <1>7, <2>3, <2>5 DEF LoopState, same, on
  <2> HIDE DEF More
  <2>7. Reading(More, sz)
    BY <1>3, <1>6, <1>7, <2>1, <2>3, <2>5, <2>6 DEF Reading, InFile
  <2>8. ReadStep(s, sz, {}) = More
    BY <1>0, <1>5, <1>9 DEF pos
  <2>9. pos > p
    BY <1>1, <1>5, <2>1 DEF pos
  <2>. QED BY <2>6, <2>7, <2>8, <2>9 DEF p
<1>. QED BY <1>8, <1>9
(* The loop as a whole: it ends when all that was asked for is read, or at  *)
(* the end of the file                                                      *)
LEMMA ReadLoopIs ==
  ASSUME Wide, HasTable, NEW sz \in Nat, InFile(cur_pos), cur_clust = Chain[Idx(cur_pos) + 1],
         clustbuf \in Clusters \cup {NoBuf}, buf_valid \in BOOLEAN, buf_valid => clustbuf = cur_clust
  PROVE  /\ Reading(ReadLoop(sz, {}), sz)
         /\ ReadLoop(sz, {}).on => ReadLoop(sz, {}).pos = cur_pos + sz
<1> DEFINE First == [pos |-> cur_pos, clust |-> cur_clust, buf |-> clustbuf, valid |-> buf_valid,
                     out |-> << >>, on |-> TRUE, wild |-> FALSE]
           After(s) == IF s.on /\ Len(s.out) < sz THEN ReadStep(s, sz, {}) ELSE s
           Turn(g, k) == IF k = 0 THEN First ELSE After(g[k - 1])
           Run(g, m) == g = [k \in 0 .. m |-> Turn(g, k)]
           F == CHOOSE g : Run(g, sz)
           Got(s, k) == Reading(s, sz) /\ (s.on => s.pos - cur_pos >= k \/ s.pos - cur_pos = sz)
<1>1. ReadLoop(sz, {}) = F[sz]
  BY DEF ReadLoop
<1>2. ASSUME NEW m \in Nat, \E g : m # 0 => Run(g, m - 1)
      PROVE  \E g : Run(g, m)
  <2>1. PICK g : m # 0 => Run(g, m - 1)
    BY <1>2
  <2> DEFINE h == [k \in 0 .. m |-> IF k = m THEN Turn(g, m) ELSE g[k]]
  <2>2. ASSUME NEW k \in 0 .. m
        PROVE  h[k] = Turn(h, k)
    <3>1. k # 0 => k - 1 \in 0 .. m /\ k - 1 # m
      OBVIOUS
    <3>2. k # 0 => h[k - 1] = g[k - 1]
      BY <3>1
    <3>3. Turn(h, k) = Turn(g, k)
      <4> HIDE DEF h, First, After
      <4>. QED BY <3>2
    <3>4. CASE k = m
      <4> HIDE DEF First, After
      <4>. QED BY <3>3, <3>4
    <3>5. CASE k # m
      <4>1. k \in 0 .. m - 1 /\ m # 0
        BY <3>5
      <4> HIDE DEF Turn
      <4>2. g[k] = Turn(g, k)
        BY <2>1, <4>1
      <4>3. h[k] = g[k]
        BY <3>5
      <4> HIDE DEF h
      <4>. QED BY <3>3, <4>2, <4>3
    <3>. QED BY <3>4, <3>5
  <2>3. h = [k \in 0 .. m |-> h[k]]
    OBVIOUS
  <2> HIDE DEF h, Turn
  <2>4. Run(h, m)
    BY <2>2, <2>3
  <2> HIDE DEF Run
  <2>. QED BY <2>4
<1> HIDE DEF Run
<1>3. \E g : Run(g, sz)
  <2> DEFINE T == {m \in Nat : ~\E g : Run(g, m)}
  <2>1. SUFFICES ASSUME T # {} PROVE FALSE
    OBVIOUS
  <2>2. T \in SUBSET Nat
    OBVIOUS
  <2>3. PICK m \in T : \A j \in T : m <= j
    BY <2>1, <2>2, Least
  <2>4. m # 0 => m - 1 \in Nat /\ ~(m <= m - 1)
    OBVIOUS
  <2>5. m # 0 => m - 1 \notin T
    BY <2>3, <2>4
  <2>6. m # 0 => \E g : Run(g, m - 1)
    BY <2>4, <2>5
  <2>. QED BY <1>2, <2>6
<1>4. Run(F, sz)
  BY <1>3
<1>5. \A k \in 0 .. sz : F[k] = Turn(F, k)
  <2> HIDE DEF F, Turn
  <2>. QED BY <1>4 DEF Run
<1> HIDE DEF F
<1>6. Got(First, 0)
  <2>1. cur_pos \in Nat /\ cur_pos <= dent.size /\ cur_clust \in Int
    <3>1. Idx(cur_pos) \in Nat /\ Len(Chain) \in Nat
      BY IdxFacts, FileFacts DEF InFile, HasTable, Chain
    <3>2. Idx(cur_pos) + 1 \in 1 .. Len(Chain)
      BY <3>1 DEF InFile
    <3>. QED BY <3>2, FileFacts, ClusterFacts DEF InFile, HasTable, Chain
  <2>2. clustbuf \in Int
    BY ClusterFacts DEF NoBuf
  <2>3. << >> = Bytes(cur_pos, 0) /\ cur_pos - cur_pos = 0
    BY <2>1, BytesFacts
  <2>4. First \in LoopState
    BY <2>1, <2>2 DEF LoopState
  <2>5. Reading(First, sz)
    BY <2>1, <2>3, <2>4 DEF Reading
  <2>. QED BY <2>3, <2>5
<1> HIDE DEF First
<1>7. ASSUME NEW k \in Nat, NEW s, Got(s, k)
      PROVE  Got(After(s), k + 1)
  <2>1. Reading(s, sz) /\ s.pos \in Nat /\ s.on \in BOOLEAN /\ cur_pos \in Nat /\ cur_pos <= s.pos
        /\ s.pos - cur_pos <= sz
    BY <1>7 DEF Reading, LoopState, InFile
  <2>2. Len(s.out) = s.pos - cur_pos
    <3>1. s.pos - cur_pos \in Nat /\ s.out = Bytes(cur_pos, s.pos - cur_pos)
      BY <2>1 DEF Reading
    <3>. QED BY <2>1, <3>1, BytesFacts
  <2>3. CASE s.on /\ Len(s.out) < sz
    <3> DEFINE t == ReadStep(s, sz, {})
    <3>1. After(s) = t
      BY <2>3
    <3>2. Reading(t, sz) /\ (t.on => t.pos > s.pos)
      BY <2>1, <2>3, TurnReads
    <3> HIDE DEF t
    <3>3. t.pos \in Nat
      BY <3>2 DEF Reading, LoopState
    <3>4. s.pos - cur_pos >= k
      BY <1>7, <2>1, <2>2, <2>3
    <3>5. t.on => t.pos - cur_pos >= k + 1
      BY <2>1, <3>2, <3>3, <3>4
    <3>. QED BY <3>1, <3>2, <3>5
  <2>4. CASE ~(s.on /\ Len(s.out) < sz)
    <3>1. After(s) = s
      BY <2>4
    <3>2. s.on => s.pos - cur_pos = sz
      BY <2>1, <2>2, <2>4
    <3>. QED BY <2>1, <3>1, <3>2
  <2>. QED BY <2>3, <2>4
<1>8. \A k \in 0 .. sz : Got(F[k], k)
  <2> HIDE DEF Got
  <2> DEFINE T == {k \in 0 .. sz : ~Got(F[k], k)}
  <2>1. SUFFICES ASSUME T # {} PROVE FALSE
    OBVIOUS
  <2>2. T \in SUBSET Nat
    OBVIOUS
  <2>3. PICK k \in T : \A j \in T : k <= j
    BY <2>1, <2>2, Least
  <2>4. k \in 0 .. sz /\ ~Got(F[k], k) /\ k # 0
    BY <1>5, <1>6
  <2>5. k - 1 \in 0 .. sz /\ ~(k <= k - 1) /\ k - 1 \in Nat /\ (k - 1) + 1 = k
    BY <2>4
  <2>6. Got(F[k - 1], k - 1)
    BY <2>3, <2>5
  <2> HIDE DEF After
  <2>7. F[k] = After(F[k - 1])
    BY <1>5, <2>4
  <2>8. Got(After(F[k - 1]), (k - 1) + 1)
    BY <1>7, <2>5, <2>6
  <2>. QED BY <2>4, <2>5, <2>7, <2>8
<1>9. Got(F[sz], sz)
  BY <1>8
<1>10. ASSUME F[sz].on
       PROVE  F[sz].pos = cur_pos + sz
  <2>1. F[sz].pos \in Nat /\ cur_pos \in Nat /\ F[sz].pos - cur_pos <= sz
    BY <1>9 DEF Reading, LoopState, InFile
  <2>. QED BY <1>9, <1>10, <2>1
<1>. QED BY <1>1, <1>9, <1>10
-----------------------------------------------------------------------------
(* The invariant: the table is the open file's, cur_clust is the cluster    *)
(* of cur_pos, which is inside of the file then, and -1 when cur_pos is at  *)
(* its end or behind it; a valid buffer holds that cluster.                 *)
AtCluster(p, c) ==
  \/ InFile(p) /\ c = Chain[Idx(p) + 1]
  \/ p \in Nat /\ p >= dent.size /\ c = -1

BufferOK ==
  /\ clustbuf \in Clusters \cup {NoBuf} /\ buf_valid \in BOOLEAN
  /\ buf_valid => clustbuf = cur_clust
Nobody == dent = NoFile /\ cur_pos = 0 /\ cur_clust = 0 /\ buf_valid = FALSE
IInv ==
  /\ smashed = FALSE /\ got \in Seq(Nat)
  /\ BufferOK
  /\ Nobody \/ (HasTable /\ AtCluster(cur_pos, cur_clust))

LEMMA IsOpen ==
  ASSUME IInv, Opened
  PROVE  HasTable /\ AtCluster(cur_pos, cur_clust) /\ BufferOK /\ cur_pos \in Nat
BY DEF IInv, Opened, Nobody, AtCluster, InFile

LEMMA ClusterOf ==
  ASSUME HasTable, NEW p, InFile(p)
  PROVE  Chain[Idx(p) + 1] \in Clusters /\ Chain[Idx(p) + 1] \in Nat /\ Chain[Idx(p) + 1] = At(Idx(p) + 1)
         /\ Idx(p) + 1 \in Nat \ {0}
<1>1. p \in Nat /\ Idx(p) \in Nat /\ Len(Chain) \in Nat
  BY IdxFacts, FileFacts DEF InFile, HasTable, Chain
<1>2. Idx(p) + 1 \in Nat \ {0} /\ Idx(p) + 1 <= Len(Chain)
  BY <1>1 DEF InFile
<1>. QED BY <1>2, AtFacts, ClusterFacts

LEMMA FreshHandle ==
  ASSUME smashed = FALSE, smashed' = smashed, clustbuf' = NoBuf, buf_valid' = FALSE, got' = << >>
  PROVE  BufferOK' /\ smashed' = FALSE /\ got' \in Seq(Nat)
<1>1. smashed' = FALSE
  BY Zenon
<1>2. BufferOK'
  BY Zenon DEF BufferOK
<1>3. << >> \in Seq(Nat)
  OBVIOUS
<1>. QED BY <1>1, <1>2, <1>3

LEMMA OpenStep ==
  ASSUME IInv, NEW f \in Files, open(f)
  PROVE  IInv' /\ Promise!Open
<1>1. /\ dent = NoFile /\ fat = TableOf(f) /\ dent' = f /\ cur_pos' = 0 /\ cur_clust' = f.chain[1]
      /\ clustbuf' = NoBuf /\ buf_valid' = FALSE /\ got' = << >> /\ fat' = fat /\ smashed' = smashed
  BY DEF open
<1>2. /\ f.size \in Nat /\ Len(f.chain) \in Nat /\ Len(f.chain) > 0 /\ f.chain[1] \in Clusters
  BY FileFacts
<1>3. HasTable'
  BY <1>1 DEF HasTable
<1>4. Idx(0) = 0
  BY FatFileAssumption DEF Idx
<1>5. AtCluster(cur_pos, cur_clust)'
  BY <1>1, <1>2, <1>4 DEF AtCluster, InFile, Chain, Idx
<1>6. BufferOK' /\ smashed' = FALSE /\ got' \in Seq(Nat)
  BY <1>1, FreshHandle DEF IInv
<1>7. dent.size = Promise!Closed
  BY <1>1 DEF NoFile, Promise!Closed
<1>8. dent'.size \in { g.size : g \in Files }
  BY <1>1
<1>. QED BY <1>1, <1>3, <1>5, <1>6, <1>7, <1>8 DEF IInv, Promise!Open

LEMMA CloseStep ==
  ASSUME IInv, close
  PROVE  IInv' /\ Promise!Close
<1>1. /\ Opened /\ dent' = NoFile /\ cur_pos' = 0 /\ cur_clust' = 0
      /\ clustbuf' = NoBuf /\ buf_valid' = FALSE /\ got' = << >> /\ smashed' = smashed
  BY DEF close
<1>2. IInv'
  <2>1. BufferOK' /\ smashed' = FALSE /\ got' \in Seq(Nat)
    BY <1>1, FreshHandle DEF IInv
  <2>2. Nobody'
    BY <1>1 DEF Nobody
  <2>. QED BY <2>1, <2>2 DEF IInv
<1>3. dent.size # Promise!Closed
  BY <1>1, IsOpen, FileFacts DEF HasTable, Promise!Closed
<1>4. dent'.size = Promise!Closed
  BY <1>1 DEF NoFile, Promise!Closed
<1>. QED BY <1>1, <1>2, <1>3, <1>4 DEF Promise!Close

(* A seek that is neither to a place behind the end in a cluster of the     *)
(* file, nor back into the last cluster whose end a read has passed         *)
LEMMA SeekStep ==
  ASSUME Wide, IInv, NEW p \in 0 .. MaxPos, ~Behind(p), ~Lost(p), seek(p)
  PROVE  IInv' /\ Promise!Seek
<1>1. /\ Opened /\ cur_pos' = p /\ UNCHANGED << fat, dent, clustbuf, got, smashed >>
      /\ buf_valid' = (buf_valid /\ Idx(p) = Idx(cur_pos))
      /\ cur_clust' = IF Idx(p) = Idx(cur_pos) THEN cur_clust
                      ELSE IF Idx(p) < Idx(cur_pos) THEN find_cluster(Idx(p), Chain[1])
                      ELSE find_cluster(Idx(p) - Idx(cur_pos), cur_clust)
  BY DEF seek, Chain
<1>2. HasTable /\ AtCluster(cur_pos, cur_clust) /\ BufferOK /\ cur_pos \in Nat
  BY <1>1, IsOpen
<1>3. /\ p \in Nat /\ Idx(p) \in Nat /\ Idx(cur_pos) \in Nat
  <2>1. p \in Nat
    BY FatFileAssumption
  <2>. QED BY <1>2, <2>1, IdxFacts
<1>4. /\ dent.size \in Nat /\ Len(Chain) \in Nat /\ Len(Chain) > 0 /\ dent.size <= CLUST * Len(Chain)
      /\ CLUST * Len(Chain) \in Nat
  <2>1. CLUST \in Nat
    BY FatFileAssumption
  <2>2. dent.size \in Nat /\ Len(Chain) \in Nat /\ Len(Chain) > 0 /\ dent.size <= CLUST * Len(Chain)
    BY <1>2, FileFacts DEF HasTable, Chain
  <2>. QED BY <2>1, <2>2
<1>5. Idx(p) < Len(Chain) => InFile(p)
  BY <1>3, <1>4 DEF Behind, InFile, Chain
<1>6. ~(Idx(p) < Len(Chain)) => p >= dent.size
  <2>1. ~(Idx(p) < Len(Chain)) => ~(p < CLUST * Len(Chain))
    BY <1>3, <1>4, IdxBelow
  <2>. QED BY <1>3, <1>4, <2>1
<1>7. ASSUME NEW c, c = At(Idx(p) + 1)
      PROVE  AtCluster(p, c)
  <2>1. CASE Idx(p) < Len(Chain)
    BY <1>2, <1>5, <1>7, <2>1, ClusterOf DEF AtCluster
  <2>2. CASE ~(Idx(p) < Len(Chain))
    <3>1. At(Idx(p) + 1) = -1
      BY <1>3, <1>4, <2>2 DEF At
    <3>. QED BY <1>3, <1>6, <1>7, <2>2, <3>1 DEF AtCluster
  <2>. QED BY <2>1, <2>2
<1>8. AtCluster(p, cur_clust')
  <2>1. CASE Idx(p) = Idx(cur_pos)
    <3>1. CASE InFile(cur_pos) /\ cur_clust = Chain[Idx(cur_pos) + 1]
      <4>1. InFile(p)
        BY <1>5, <2>1, <3>1 DEF InFile
      <4>. QED BY <1>1, <2>1, <3>1, <4>1 DEF AtCluster
    <3>2. CASE cur_clust = -1
      <4>1. ~(p < dent.size)
        BY <2>1, <3>2 DEF Lost
      <4>. QED BY <1>1, <1>3, <1>4, <2>1, <3>2, <4>1 DEF AtCluster
    <3>. QED BY <1>2, <3>1, <3>2 DEF AtCluster
  <2>2. CASE Idx(p) < Idx(cur_pos)
    <3>1. 1 \in Nat \ {0} /\ At(1) = Chain[1] /\ 1 + Idx(p) = Idx(p) + 1
      BY <1>3, <1>4 DEF At
    <3>2. find_cluster(Idx(p), At(1)) = At(1 + Idx(p))
      BY <1>2, <1>3, <3>1, FindIs
    <3>3. cur_clust' = At(Idx(p) + 1)
      BY <1>1, <1>3, <2>2, <3>1, <3>2
    <3>. QED BY <1>7, <3>3
  <2>3. CASE Idx(p) > Idx(cur_pos)
    <3> DEFINE n == Idx(p) - Idx(cur_pos)
    <3>1. n \in Nat /\ cur_clust' = find_cluster(n, cur_clust) /\ Idx(cur_pos) + n = Idx(p)
      BY <1>1, <1>3, <2>3
    <3> HIDE DEF n
    <3>2. CASE InFile(cur_pos) /\ cur_clust = Chain[Idx(cur_pos) + 1]
      <4> DEFINE i == Idx(cur_pos) + 1
      <4>1. i \in Nat \ {0} /\ cur_clust = At(i) /\ i + n = Idx(p) + 1
        BY <1>2, <1>3, <3>1, <3>2, ClusterOf
      <4> HIDE DEF i
      <4>2. find_cluster(n, At(i)) = At(i + n)
        BY <1>2, <3>1, <4>1, FindIs
      <4>3. cur_clust' = At(Idx(p) + 1)
        BY <3>1, <4>1, <4>2
      <4>. QED BY <1>7, <4>3
    <3>3. CASE cur_pos >= dent.size /\ cur_clust = -1
      <4> DEFINE i == Len(Chain) + 1
      <4>1. i \in Nat \ {0} /\ At(i) = -1 /\ At(i + n) = -1
        BY <1>4, <3>1 DEF At
      <4> HIDE DEF i
      <4>2. find_cluster(n, At(i)) = At(i + n)
        BY <1>2, <3>1, <4>1, FindIs
      <4>3. cur_clust' = -1
        BY <3>1, <3>3, <4>1, <4>2
      <4>4. p >= dent.size
        <5>1. ~(p <= cur_pos)
          BY <1>2, <1>3, <2>3, IdxMonotonic
        <5>. QED BY <1>2, <1>3, <1>4, <3>3, <5>1
      <4>. QED BY <1>3, <4>3, <4>4 DEF AtCluster
    <3>. QED BY <1>2, <3>2, <3>3 DEF AtCluster
  <2>. QED BY <1>3, <2>1, <2>2, <2>3
<1>9. HasTable' /\ AtCluster(cur_pos, cur_clust)'
  <2>1. HasTable'
    BY <1>1, <1>2 DEF HasTable
  <2>2. AtCluster(cur_pos, cur_clust)'
    BY <1>1, <1>8 DEF AtCluster, InFile, Chain, Idx
  <2>. QED BY <2>1, <2>2
<1>10. BufferOK'
  BY <1>1, <1>2 DEF BufferOK
<1>11. IInv'
  BY <1>1, <1>9, <1>10 DEF IInv
<1>12. dent.size # Promise!Closed
  BY <1>4 DEF Promise!Closed
<1>. QED BY <1>1, <1>11, <1>12 DEF Promise!Seek
LEMMA ReadKeeps ==
  ASSUME Wide, IInv, NEW sz \in 0 .. MaxRead, read(sz, {})
  PROVE  IInv' /\ Promise!Read(sz)
<1>1. /\ Opened /\ fat' = fat
      /\ IF cur_clust < 0
         THEN got' = << >> /\ UNCHANGED << file, smashed >>
         ELSE /\ cur_pos' = ReadLoop(sz, {}).pos /\ cur_clust' = ReadLoop(sz, {}).clust
              /\ clustbuf' = ReadLoop(sz, {}).buf /\ buf_valid' = ReadLoop(sz, {}).valid
              /\ got' = ReadLoop(sz, {}).out /\ smashed' = ReadLoop(sz, {}).wild
              /\ dent' = dent
  BY DEF read
<1>2. HasTable /\ AtCluster(cur_pos, cur_clust) /\ BufferOK /\ cur_pos \in Nat
  BY <1>1, IsOpen
<1>3. dent.size \in Nat /\ sz \in Nat
  <2>1. MaxRead \in Nat
    BY FatFileAssumption
  <2>. QED BY <1>2, <2>1, FileFacts DEF HasTable
<1>4. dent.size # Promise!Closed
  BY <1>3 DEF Promise!Closed
<1>5. CASE cur_clust < 0
  <2>1. /\ got' = << >> /\ dent' = dent /\ cur_pos' = cur_pos /\ cur_clust' = cur_clust
        /\ clustbuf' = clustbuf /\ buf_valid' = buf_valid /\ smashed' = smashed
    BY <1>1, <1>5 DEF file
  <2>2. cur_pos >= dent.size
    BY <1>2, <1>5, ClusterOf DEF AtCluster
  <2>3. HasTable'
    BY <1>1, <1>2, <2>1 DEF HasTable
  <2>4. AtCluster(cur_pos, cur_clust)'
    BY <1>2, <2>1 DEF AtCluster, InFile, Chain, Idx
  <2>5. BufferOK'
    BY <1>2, <2>1 DEF BufferOK
  <2>6. smashed' = FALSE /\ got' \in Seq(Nat)
    BY <2>1 DEF IInv
  <2>7. Promise!Left(sz) = 0
    BY <1>2, <1>3, <2>2 DEF Promise!Left
  <2>8. got' = [i \in 1 .. Promise!Left(sz) |-> cur_pos + i - 1]
    BY <2>1, <2>7
  <2>9. cur_pos' = cur_pos + Promise!Left(sz)
    BY <1>2, <2>1, <2>7
  <2>. QED BY <1>4, <2>1, <2>3, <2>4, <2>5, <2>6, <2>8, <2>9 DEF IInv, Promise!Read
<1>6. CASE ~(cur_clust < 0)
  <2> DEFINE e == ReadLoop(sz, {})
  <2>1. /\ cur_pos' = e.pos /\ cur_clust' = e.clust /\ clustbuf' = e.buf /\ buf_valid' = e.valid
        /\ got' = e.out /\ smashed' = e.wild /\ dent' = dent
    BY <1>1, <1>6
  <2>2. InFile(cur_pos) /\ cur_clust = Chain[Idx(cur_pos) + 1]
    BY <1>2, <1>6 DEF AtCluster
  <2>3. Reading(e, sz) /\ (e.on => e.pos = cur_pos + sz)
    BY <1>2, <1>3, <2>2, ReadLoopIs DEF BufferOK
  <2> HIDE DEF e
  <2>4. /\ e.pos \in Nat /\ cur_pos <= e.pos /\ e.pos <= dent.size /\ e.pos - cur_pos <= sz
        /\ e.out = Bytes(cur_pos, e.pos - cur_pos) /\ e.out \in Seq(Nat)
        /\ e.valid \in BOOLEAN /\ e.on \in BOOLEAN /\ ~e.wild /\ e.buf \in Clusters \cup {NoBuf}
    BY <2>3 DEF Reading, LoopState
  <2>5. e.on => InFile(e.pos) /\ e.clust = Chain[Idx(e.pos) + 1] /\ (e.valid => e.buf = e.clust)
    BY <2>3 DEF Reading
  <2>6. ~e.on => e.pos = dent.size /\ e.clust = -1 /\ ~e.valid
    BY <2>3 DEF Reading
  <2>7. AtCluster(e.pos, e.clust)
    <3>1. CASE e.on
      BY <2>5, <3>1 DEF AtCluster
    <3>2. CASE ~e.on
      BY <1>3, <2>4, <2>6, <3>2 DEF AtCluster
    <3>. QED BY <3>1, <3>2
  <2>8. AtCluster(cur_pos, cur_clust)'
    BY <2>1, <2>7 DEF AtCluster, InFile, Chain, Idx
  <2>9. HasTable'
    BY <1>1, <1>2, <2>1 DEF HasTable
  <2>10. e.valid => e.buf = e.clust
    BY <2>5, <2>6
  <2>11. BufferOK'
    BY <2>1, <2>4, <2>10 DEF BufferOK
  <2>12. smashed' = FALSE /\ got' \in Seq(Nat)
    <3>1. e \in LoopState /\ ~e.wild
      BY <2>3 DEF Reading
    <3>2. e.wild \in BOOLEAN
      BY <3>1 DEF LoopState
    <3>3. e.wild = FALSE
      BY <3>1, <3>2, Zenon
    <3>. QED BY <2>1, <2>4, <3>3
  <2>13. Promise!Left(sz) = e.pos - cur_pos
    <3>1. CASE e.on
      BY <1>2, <1>3, <2>3, <2>4, <3>1 DEF Promise!Left
    <3>2. CASE ~e.on
      BY <1>2, <1>3, <2>4, <2>6, <3>2 DEF Promise!Left
    <3>. QED BY <3>1, <3>2
  <2>14. got' = [i \in 1 .. Promise!Left(sz) |-> cur_pos + i - 1]
    BY <2>1, <2>4, <2>13 DEF Bytes
  <2>15. cur_pos' = cur_pos + Promise!Left(sz)
    BY <1>2, <2>1, <2>4, <2>13
  <2>. QED BY <1>4, <2>1, <2>8, <2>9, <2>11, <2>12, <2>14, <2>15 DEF IInv, Promise!Read
<1>. QED BY <1>5, <1>6

LEMMA NextStep ==
  ASSUME Wide, IInv, [Other \/ SeekCareful]_vars
  PROVE  IInv' /\ [Promise!Next]_(Promise!vars)
<1>1. ASSUME NEW f \in Files, open(f)
      PROVE  IInv' /\ Promise!Next
  BY <1>1, OpenStep DEF Promise!Next
<1>2. ASSUME close
      PROVE  IInv' /\ Promise!Next
  BY <1>2, CloseStep DEF Promise!Next
<1>3. ASSUME NEW sz \in 0 .. MaxRead, read(sz, {})
      PROVE  IInv' /\ Promise!Next
  BY <1>3, ReadKeeps DEF Promise!Next
<1>4. ASSUME SeekCareful
      PROVE  IInv' /\ Promise!Next
  <2>1. PICK p \in 0 .. MaxPos : ~Behind(p) /\ ~Lost(p) /\ seek(p)
    BY <1>4 DEF SeekCareful
  <2>. QED BY <2>1, SeekStep DEF Promise!Next
<1>5. ASSUME UNCHANGED vars
      PROVE  IInv' /\ UNCHANGED Promise!vars
  <2>1. UNCHANGED << fat, dent, cur_pos, cur_clust, clustbuf, buf_valid, got, smashed >>
    BY <1>5 DEF vars, file
  <2>2. HasTable => HasTable'
    BY <2>1 DEF HasTable
  <2>3. AtCluster(cur_pos, cur_clust) => AtCluster(cur_pos, cur_clust)'
    BY <2>1 DEF AtCluster, InFile, Chain, Idx
  <2>4. BufferOK'
    BY <2>1 DEF IInv, BufferOK
  <2>5. Nobody => Nobody'
    BY <2>1 DEF Nobody
  <2>6. smashed' = FALSE /\ got' \in Seq(Nat)
    BY <2>1 DEF IInv
  <2>. QED BY <2>1, <2>2, <2>3, <2>4, <2>5, <2>6 DEF IInv, Promise!vars
<1>. QED BY <1>1, <1>2, <1>3, <1>4, <1>5 DEF Other

LEMMA InitOK == Init => IInv /\ Promise!Init
<1> SUFFICES ASSUME Init PROVE IInv /\ Promise!Init
  OBVIOUS
<1>1. /\ dent = NoFile /\ cur_pos = 0 /\ cur_clust = 0 /\ clustbuf = NoBuf /\ buf_valid = FALSE
      /\ got = << >> /\ smashed = FALSE
  BY DEF Init
<1>2. BufferOK /\ Nobody
  BY <1>1 DEF BufferOK, Nobody
<1>3. got \in Seq(Nat)
  BY <1>1
<1>4. dent.size = Promise!Closed
  BY <1>1 DEF NoFile, Promise!Closed
<1>. QED BY <1>1, <1>2, <1>3, <1>4 DEF IInv, Promise!Init

(* On a volume whose table fsfat.c reads rightly the open file, its cluster *)
(* and its buffer satisfy the inductive invariant in every state.           *)
THEOREM Inductive ==
  ASSUME Wide
  PROVE  CarefulSpec => []IInv
<1>1. Init => IInv
  BY InitOK
<1>2. IInv /\ [Other \/ SeekCareful]_vars => IInv'
  BY NextStep
<1>. QED BY <1>1, <1>2, PTL DEF CarefulSpec

(* On a FAT16 or FAT32 volume cur_clust is the cluster that cur_pos is in,  *)
(* and -1 only at the end, whatever seeks and reads led there but the two   *)
(* that go wrong (fsfat.c:522, 583); and a valid buffer holds that cluster, *)
(* while clusters can be read (fsfat.c:574 does not ask).                   *)
THEOREM PositionIsInCluster ==
  ASSUME FatType # "FAT12"
  PROVE  CarefulSpec => []ClusterFollowsPos
<1>1. Wide
  BY DEF Wide
<1>2. IInv => ClusterFollowsPos
  <2> SUFFICES ASSUME IInv PROVE ClusterFollowsPos
    OBVIOUS
  <2>1. smashed \in BOOLEAN
    <3>1. smashed = FALSE
      BY DEF IInv
    <3>. QED BY <3>1, Zenon
  <2>2. \A i \in DOMAIN got : got[i] \in Nat
    <3>1. got \in Seq(Nat)
      BY DEF IInv
    <3>. QED BY <3>1
  <2>3. clustbuf \in Clusters \cup {NoBuf} /\ buf_valid \in BOOLEAN /\ (buf_valid => clustbuf = cur_clust)
    BY DEF IInv, BufferOK
  <2>4. CASE Nobody
    <3>1. dent = NoFile /\ cur_pos = 0 /\ cur_clust = 0
      BY <2>4 DEF Nobody
    <3>. QED BY <2>1, <2>2, <2>3, <3>1 DEF ClusterFollowsPos, CursorRight, TypeOK
  <2>5. CASE HasTable /\ AtCluster(cur_pos, cur_clust)
    <3>1. dent \in Files
      BY <2>5 DEF HasTable
    <3>2. CASE InFile(cur_pos) /\ cur_clust = Chain[Idx(cur_pos) + 1]
      <4>1. cur_clust \in Clusters /\ ~(cur_clust < 0)
        <5>1. cur_clust \in Clusters
          BY <2>5, <3>2, ClusterOf
        <5>. QED BY <5>1, ClusterFacts
      <4>2. cur_pos \in Nat /\ Idx(cur_pos) < Len(dent.chain) /\ cur_clust = dent.chain[Idx(cur_pos) + 1]
        BY <3>2 DEF InFile, Chain
      <4>. QED BY <2>1, <2>2, <2>3, <3>1, <4>1, <4>2 DEF ClusterFollowsPos, CursorRight, TypeOK
    <3>3. CASE cur_pos \in Nat /\ cur_pos >= dent.size /\ cur_clust = -1
      BY <2>1, <2>2, <2>3, <3>1, <3>3 DEF ClusterFollowsPos, CursorRight, TypeOK
    <3>. QED BY <2>5, <3>2, <3>3 DEF AtCluster
  <2>. QED BY <2>4, <2>5 DEF IInv
<1>3. CarefulSpec => []IInv
  BY <1>1, Inductive
<1>. QED BY <1>2, <1>3, PTL

(* seek and read implement the file that OpenFile describes: every read     *)
(* returns exactly the bytes at the position, over cluster boundaries, at   *)
(* the end and after any seeks but those two, while clusters can be read.   *)
THEOREM IsAnOpenFile ==
  ASSUME FatType # "FAT12"
  PROVE  CarefulSpec => PromiseSpec
<1>1. Wide
  BY DEF Wide
<1>2. Init => Promise!Init
  BY InitOK
<1>3. IInv /\ [Other \/ SeekCareful]_vars => [Promise!Next]_(Promise!vars)
  BY <1>1, NextStep
<1>4. CarefulSpec => []IInv
  BY <1>1, Inductive
<1>. QED BY <1>2, <1>3, <1>4, PTL DEF CarefulSpec, PromiseSpec, Promise!Spec
=============================================================================
