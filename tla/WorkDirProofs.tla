---------------------------- MODULE WorkDirProofs ---------------------------
(***************************************************************************)
(* Proofs about WorkDir, for every volume, memory filesystem and set of     *)
(* paths, with directories that the disk fails to give: under CarefulSpec   *)
(* the loaded directories count their references, an open node is on the    *)
(* place that was asked for, and cwdpath names the working directory.       *)
(*                                                                          *)
(* The walk of open over the volume is compared, name by name, with what    *)
(* the path means (Resolve); both are recursive functions, of which each    *)
(* step is a fact that follows from the one before.                         *)
(***************************************************************************)
EXTENDS WorkDir, FiniteSetTheorems, NaturalsInduction, SequenceTheorems, WellFoundedInduction, TLAPS

-----------------------------------------------------------------------------
(* The inductive invariant *)
ObjsOK ==
  /\ obj \in [Objs -> [of : FatDirs \cup {Missing}, ref : Nat]]
  /\ \A o \in Objs : obj[o].of = Missing => obj[o] = Free
NodeOK(node) ==
  /\ node.type = "fat_dir" => node.at \in Objs /\ obj[node.at].of \in FatDirs
  /\ node.type = "mem_dir" => node.at \in MemDirs
NodesOK ==
  /\ NodeOK(cwdnode) /\ cwdnode.type \in {"fat_dir", "mem_dir"}
  /\ NodeOK(handle) /\ handle.type \in {"none", "fat_dir", "mem_dir", "file"}
Counted == \A o \in Objs : obj[o].ref = RefsTo(o)
LostObjs == { o \in Objs : obj[o] # Free /\ obj[o].ref = 0 }
LostOK == lost \in Nat /\ Cardinality(LostObjs) = lost
PathOK == cwdpath \in Seq(Tokens) /\ cwdpath # << >> /\ cwdpath[1] = "/"

IInv ==
  /\ ObjsOK /\ NodesOK /\ Counted /\ LostOK /\ PathOK
  /\ OpenIsRight /\ CwdPathNamesCwd
-----------------------------------------------------------------------------
(* The least element of a set of naturals, on which the proofs by induction *)
(* rest.                                                                    *)
LEMMA Least ==
  ASSUME NEW T \in SUBSET Nat, T # {}
  PROVE  \E m \in T : \A n \in T : m <= n
<1> DEFINE R == OpToRel(<, Nat)
<1>1. IsWellFoundedOn(R, Nat)
  BY NatLessThanWellFounded, Zenon
<1>2. \A x, y \in Nat : y < x => << y, x >> \in R
  BY Zenon DEF OpToRel
<1> HIDE DEF R
<1>3. \E x \in T : \A y \in T : ~(<< y, x >> \in R)
  BY <1>1, WFMin, Zenon
<1>4. PICK x \in T : \A y \in T : ~(<< y, x >> \in R)
  BY <1>3
<1>5. ASSUME NEW y \in T
      PROVE  x <= y
  <2>1. x \in Nat /\ y \in Nat
    OBVIOUS
  <2>2. ~(y < x)
    BY <1>2, <1>4, <2>1
  <2>. QED BY <2>1, <2>2
<1>. QED BY <1>5

-----------------------------------------------------------------------------
(* The steps of Names, of Resolve and of Walk *)
NamesSteps(g, path) ==
  \A k \in 0 .. Len(path) :
    g[k] = IF k = 0 THEN << >>
           ELSE IF IsName(path[k]) THEN Append(g[k - 1], path[k]) ELSE g[k - 1]
ResolveSteps(g, from, names) ==
  \A k \in 0 .. Len(names) :
    g[k] = IF k = 0 THEN from ELSE Enter(g[k - 1], names[k])
Begin(from) ==
  [dir |-> from, obj |-> obj, err |-> "none", dent |-> [dir |-> from, place |-> Missing]]
Pass(w, nm, bad) ==
  IF w.err # "none" THEN w
  ELSE IF w.dir = NoDir THEN [w EXCEPT !.err = "ENOTDIR"]
  ELSE Component(w, nm, bad)
WalkSteps(g, from, names, bad) ==
  \A k \in 0 .. Len(names) :
    g[k] = IF k = 0 THEN Begin(from) ELSE Pass(g[k - 1], names[k], bad)

LEMMA NamesRun ==
  ASSUME NEW path \in Seq(Tokens)
  PROVE  \E g : NamesSteps(g, path) /\ Names(path) = g[Len(path)]
<1> DEFINE Turn(g, k) == IF k = 0 THEN << >>
                         ELSE IF IsName(path[k]) THEN Append(g[k - 1], path[k]) ELSE g[k - 1]
           Run(g, m) == g = [k \in 0 .. m |-> Turn(g, k)]
           F == CHOOSE g : Run(g, Len(path))
<1>0. Len(path) \in Nat
  OBVIOUS
<1>1. Names(path) = F[Len(path)]
  BY DEF Names
<1>2. ASSUME NEW m \in Nat, \E g : m # 0 => Run(g, m - 1)
      PROVE  \E g : Run(g, m)
  <2>1. PICK g : m # 0 => Run(g, m - 1)
    BY <1>2
  <2> DEFINE h == [k \in 0 .. m |-> IF k = m THEN Turn(g, m) ELSE g[k]]
  <2>2. ASSUME NEW k \in 0 .. m
        PROVE  h[k] = Turn(h, k)
    <3>1. k # 0 => k - 1 \in 0 .. m /\ k - 1 # m
      OBVIOUS
    <3>2. k # 0 => h[k - 1] = g[k - 1]
      BY <3>1
    <3>3. Turn(h, k) = Turn(g, k)
      <4> HIDE DEF h
      <4>. QED BY <3>2
    <3>4. CASE k = m
      <4> HIDE DEF Turn
      <4>1. h[k] = Turn(g, m)
        BY <3>4
      <4> HIDE DEF h
      <4>. QED BY <3>3, <3>4, <4>1
    <3>5. CASE k # m
      <4>1. k \in 0 .. m - 1 /\ m # 0
        BY <3>5
      <4> HIDE DEF Turn
      <4>2. g[k] = Turn(g, k)
        BY <2>1, <4>1
      <4>3. h[k] = g[k]
        BY <3>5
      <4> HIDE DEF h
      <4>. QED BY <3>3, <4>2, <4>3
    <3>. QED BY <3>4, <3>5
  <2>3. h = [k \in 0 .. m |-> h[k]]
    OBVIOUS
  <2> HIDE DEF h, Turn
  <2>4. Run(h, m)
    BY <2>2, <2>3
  <2> HIDE DEF Run
  <2>. QED BY <2>4
<1> HIDE DEF Run
<1>3. \E g : Run(g, Len(path))
  <2> DEFINE T == { m \in Nat : ~\E g : Run(g, m) }
  <2>1. SUFFICES ASSUME T # {} PROVE FALSE
    BY <1>0
  <2>2. T \in SUBSET Nat
    OBVIOUS
  <2>3. PICK m \in T : \A j \in T : m <= j
    BY <2>1, <2>2, Least
  <2>4. m # 0 => m - 1 \in Nat /\ ~(m <= m - 1)
    OBVIOUS
  <2>5. m # 0 => m - 1 \notin T
    BY <2>3, <2>4
  <2>6. m # 0 => \E g : Run(g, m - 1)
    BY <2>4, <2>5
  <2>. QED BY <1>2, <2>6
<1>4. Run(F, Len(path))
  BY <1>3
<1>5. \A k \in 0 .. Len(path) : F[k] = Turn(F, k)
  <2> HIDE DEF F, Turn
  <2>. QED BY <1>4 DEF Run
<1> HIDE DEF F
<1>. QED BY <1>1, <1>5 DEF NamesSteps

LEMMA ResolveRun ==
  ASSUME NEW names \in Seq(Tokens), NEW from
  PROVE  \E g : ResolveSteps(g, from, names) /\ Resolve(from, names) = g[Len(names)]
<1> DEFINE Turn(g, k) == IF k = 0 THEN from ELSE Enter(g[k - 1], names[k])
           Run(g, m) == g = [k \in 0 .. m |-> Turn(g, k)]
           F == CHOOSE g : Run(g, Len(names))
<1>0. Len(names) \in Nat
  OBVIOUS
<1>1. Resolve(from, names) = F[Len(names)]
  BY DEF Resolve
<1>2. ASSUME NEW m \in Nat, \E g : m # 0 => Run(g, m - 1)
      PROVE  \E g : Run(g, m)
  <2>1. PICK g : m # 0 => Run(g, m - 1)
    BY <1>2
  <2> DEFINE h == [k \in 0 .. m |-> IF k = m THEN Turn(g, m) ELSE g[k]]
  <2>2. ASSUME NEW k \in 0 .. m
        PROVE  h[k] = Turn(h, k)
    <3>1. k # 0 => k - 1 \in 0 .. m /\ k - 1 # m
      OBVIOUS
    <3>2. k # 0 => h[k - 1] = g[k - 1]
      BY <3>1
    <3>3. Turn(h, k) = Turn(g, k)
      <4> HIDE DEF h
      <4>. QED BY <3>2
    <3>4. CASE k = m
      <4> HIDE DEF Turn
      <4>1. h[k] = Turn(g, m)
        BY <3>4
      <4> HIDE DEF h
      <4>. QED BY <3>3, <3>4, <4>1
    <3>5. CASE k # m
      <4>1. k \in 0 .. m - 1 /\ m # 0
        BY <3>5
      <4> HIDE DEF Turn
      <4>2. g[k] = Turn(g, k)
        BY <2>1, <4>1
      <4>3. h[k] = g[k]
        BY <3>5
      <4> HIDE DEF h
      <4>. QED BY <3>3, <4>2, <4>3
    <3>. QED BY <3>4, <3>5
  <2>3. h = [k \in 0 .. m |-> h[k]]
    OBVIOUS
  <2> HIDE DEF h, Turn
  <2>4. Run(h, m)
    BY <2>2, <2>3
  <2> HIDE DEF Run
  <2>. QED BY <2>4
<1> HIDE DEF Run
<1>3. \E g : Run(g, Len(names))
  <2> DEFINE T == { m \in Nat : ~\E g : Run(g, m) }
  <2>1. SUFFICES ASSUME T # {} PROVE FALSE
    BY <1>0
  <2>2. T \in SUBSET Nat
    OBVIOUS
  <2>3. PICK m \in T : \A j \in T : m <= j
    BY <2>1, <2>2, Least
  <2>4. m # 0 => m - 1 \in Nat /\ ~(m <= m - 1)
    OBVIOUS
  <2>5. m # 0 => m - 1 \notin T
    BY <2>3, <2>4
  <2>6. m # 0 => \E g : Run(g, m - 1)
    BY <2>4, <2>5
  <2>. QED BY <1>2, <2>6
<1>4. Run(F, Len(names))
  BY <1>3
<1>5. \A k \in 0 .. Len(names) : F[k] = Turn(F, k)
  <2> HIDE DEF F, Turn
  <2>. QED BY <1>4 DEF Run
<1> HIDE DEF F
<1>. QED BY <1>1, <1>5 DEF ResolveSteps

LEMMA WalkRun ==
  ASSUME NEW names \in Seq(Tokens), NEW from, NEW bad
  PROVE  \E g : WalkSteps(g, from, names, bad) /\ Walk(from, names, bad) = g[Len(names)]
<1> DEFINE Turn(g, k) == IF k = 0 THEN Begin(from) ELSE Pass(g[k - 1], names[k], bad)
           Run(g, m) == g = [k \in 0 .. m |-> Turn(g, k)]
           F == CHOOSE g : Run(g, Len(names))
<1>0. Len(names) \in Nat
  OBVIOUS
<1>1. Walk(from, names, bad) = F[Len(names)]
  BY DEF Walk, Begin, Pass
<1>2. ASSUME NEW m \in Nat, \E g : m # 0 => Run(g, m - 1)
      PROVE  \E g : Run(g, m)
  <2>1. PICK g : m # 0 => Run(g, m - 1)
    BY <1>2
  <2> DEFINE h == [k \in 0 .. m |-> IF k = m THEN Turn(g, m) ELSE g[k]]
  <2>2. ASSUME NEW k \in 0 .. m
        PROVE  h[k] = Turn(h, k)
    <3>1. k # 0 => k - 1 \in 0 .. m /\ k - 1 # m
      OBVIOUS
    <3>2. k # 0 => h[k - 1] = g[k - 1]
      BY <3>1
    <3>3. Turn(h, k) = Turn(g, k)
      <4> HIDE DEF h
      <4>. QED BY <3>2
    <3>4. CASE k = m
      <4> HIDE DEF Turn
      <4>1. h[k] = Turn(g, m)
        BY <3>4
      <4> HIDE DEF h
      <4>. QED BY <3>3, <3>4, <4>1
    <3>5. CASE k # m
      <4>1. k \in 0 .. m - 1 /\ m # 0
        BY <3>5
      <4> HIDE DEF Turn
      <4>2. g[k] = Turn(g, k)
        BY <2>1, <4>1
      <4>3. h[k] = g[k]
        BY <3>5
      <4> HIDE DEF h
      <4>. QED BY <3>3, <4>2, <4>3
    <3>. QED BY <3>4, <3>5
  <2>3. h = [k \in 0 .. m |-> h[k]]
    OBVIOUS
  <2> HIDE DEF h, Turn
  <2>4. Run(h, m)
    BY <2>2, <2>3
  <2> HIDE DEF Run
  <2>. QED BY <2>4
<1> HIDE DEF Run
<1>3. \E g : Run(g, Len(names))
  <2> DEFINE T == { m \in Nat : ~\E g : Run(g, m) }
  <2>1. SUFFICES ASSUME T # {} PROVE FALSE
    BY <1>0
  <2>2. T \in SUBSET Nat
    OBVIOUS
  <2>3. PICK m \in T : \A j \in T : m <= j
    BY <2>1, <2>2, Least
  <2>4. m # 0 => m - 1 \in Nat /\ ~(m <= m - 1)
    OBVIOUS
  <2>5. m # 0 => m - 1 \notin T
    BY <2>3, <2>4
  <2>6. m # 0 => \E g : Run(g, m - 1)
    BY <2>4, <2>5
  <2>. QED BY <1>2, <2>6
<1>4. Run(F, Len(names))
  BY <1>3
<1>5. \A k \in 0 .. Len(names) : F[k] = Turn(F, k)
  <2> HIDE DEF F, Turn
  <2>. QED BY <1>4 DEF Run
<1> HIDE DEF F
<1>. QED BY <1>1, <1>5 DEF WalkSteps
-----------------------------------------------------------------------------
(* What a path means does not depend on how it is computed; the names of a  *)
(* path that follows another follow, and so does the place.                 *)
LEMMA NamesIs ==
  ASSUME NEW path \in Seq(Tokens), NEW g, NamesSteps(g, path)
  PROVE  Names(path) = g[Len(path)]
<1>0. Len(path) \in Nat
  OBVIOUS
<1>1. PICK f : NamesSteps(f, path) /\ Names(path) = f[Len(path)]
  BY NamesRun
<1>2. \A k \in 0 .. Len(path) : f[k] = g[k]
  <2> DEFINE T == { k \in 0 .. Len(path) : f[k] # g[k] }
  <2>1. SUFFICES ASSUME T # {} PROVE FALSE
    OBVIOUS
  <2>2. T \in SUBSET Nat
    OBVIOUS
  <2>3. PICK k \in T : \A j \in T : k <= j
    BY <2>1, <2>2, Least
  <2>4. k \in 0 .. Len(path) /\ f[k] # g[k]
    OBVIOUS
  <2>5. k # 0
    BY <1>1, <2>4 DEF NamesSteps
  <2>6. k - 1 \in 0 .. Len(path) /\ ~(k <= k - 1)
    BY <1>0, <2>4, <2>5
  <2>7. f[k - 1] = g[k - 1]
    BY <2>3, <2>6
  <2>. QED BY <1>1, <2>4, <2>5, <2>7 DEF NamesSteps
<1>. QED BY <1>0, <1>1, <1>2

LEMMA ResolveIs ==
  ASSUME NEW names \in Seq(Tokens), NEW from, NEW g, ResolveSteps(g, from, names)
  PROVE  Resolve(from, names) = g[Len(names)]
<1>0. Len(names) \in Nat
  OBVIOUS
<1>1. PICK f : ResolveSteps(f, from, names) /\ Resolve(from, names) = f[Len(names)]
  BY ResolveRun
<1>2. \A k \in 0 .. Len(names) : f[k] = g[k]
  <2> DEFINE T == { k \in 0 .. Len(names) : f[k] # g[k] }
  <2>1. SUFFICES ASSUME T # {} PROVE FALSE
    OBVIOUS
  <2>2. T \in SUBSET Nat
    OBVIOUS
  <2>3. PICK k \in T : \A j \in T : k <= j
    BY <2>1, <2>2, Least
  <2>4. k \in 0 .. Len(names) /\ f[k] # g[k]
    OBVIOUS
  <2>5. k # 0
    BY <1>1, <2>4 DEF ResolveSteps
  <2>6. k - 1 \in 0 .. Len(names) /\ ~(k <= k - 1)
    BY <1>0, <2>4, <2>5
  <2>7. f[k - 1] = g[k - 1]
    BY <2>3, <2>6
  <2>. QED BY <1>1, <2>4, <2>5, <2>7 DEF ResolveSteps
<1>. QED BY <1>0, <1>1, <1>2

LEMMA NamesType ==
  ASSUME NEW path \in Seq(Tokens)
  PROVE  Names(path) \in Seq(Tokens)
<1>0. Len(path) \in Nat
  OBVIOUS
<1>1. PICK f : NamesSteps(f, path) /\ Names(path) = f[Len(path)]
  BY NamesRun
<1>2. \A k \in 0 .. Len(path) : f[k] \in Seq(Tokens)
  <2> DEFINE T == { k \in 0 .. Len(path) : f[k] \notin Seq(Tokens) }
  <2>1. SUFFICES ASSUME T # {} PROVE FALSE
    OBVIOUS
  <2>2. T \in SUBSET Nat
    OBVIOUS
  <2>3. PICK k \in T : \A j \in T : k <= j
    BY <2>1, <2>2, Least
  <2>4. k \in 0 .. Len(path) /\ f[k] \notin Seq(Tokens)
    OBVIOUS
  <2>5. k # 0
    <3>1. << >> \in Seq(Tokens)
      OBVIOUS
    <3>. QED BY <1>1, <2>4, <3>1 DEF NamesSteps
  <2>6. k - 1 \in 0 .. Len(path) /\ ~(k <= k - 1) /\ k \in 1 .. Len(path)
    BY <1>0, <2>4, <2>5
  <2>7. f[k - 1] \in Seq(Tokens) /\ path[k] \in Tokens
    BY <2>3, <2>6
  <2>8. Append(f[k - 1], path[k]) \in Seq(Tokens)
    BY <2>7
  <2>. QED BY <1>1, <2>4, <2>5, <2>7, <2>8 DEF NamesSteps
<1>. QED BY <1>0, <1>1, <1>2

LEMMA AppendJoin ==
  ASSUME NEW a \in Seq(Tokens), NEW b \in Seq(Tokens), NEW x \in Tokens
  PROVE  Append(b, x) \in Seq(Tokens) /\ Append(a \o b, x) = a \o Append(b, x)
<1>1. Append(b, x) \in Seq(Tokens) /\ a \o b \in Seq(Tokens) /\ << x >> \in Seq(Tokens)
  BY AppendProperties
<1>2. Append(a \o b, x) = (a \o b) \o << x >>
  BY <1>1, AppendIsConcat
<1>3. Append(b, x) = b \o << x >>
  BY AppendIsConcat
<1>4. (a \o b) \o << x >> = a \o (b \o << x >>)
  BY <1>1, ConcatAssociative
<1>. QED BY <1>1, <1>2, <1>3, <1>4

LEMMA NamesJoin ==
  ASSUME NEW a \in Seq(Tokens), NEW b \in Seq(Tokens)
  PROVE  Names(a \o b) = Names(a) \o Names(b)
<1> DEFINE c == a \o b
<1>1. c \in Seq(Tokens) /\ Len(c) = Len(a) + Len(b) /\ Len(a) \in Nat /\ Len(b) \in Nat
  OBVIOUS
<1>2. (\A k \in 1 .. Len(a) : c[k] = a[k]) /\ (\A k \in 1 .. Len(b) : c[Len(a) + k] = b[k])
  OBVIOUS
<1> HIDE DEF c
<1>3. PICK f : NamesSteps(f, c) /\ Names(c) = f[Len(c)]
  BY <1>1, NamesRun
<1>4. NamesSteps(f, a)
  <2> SUFFICES ASSUME NEW k \in 0 .. Len(a)
               PROVE  f[k] = IF k = 0 THEN << >>
                             ELSE IF IsName(a[k]) THEN Append(f[k - 1], a[k]) ELSE f[k - 1]
    BY DEF NamesSteps
  <2>1. k \in 0 .. Len(c) /\ (k # 0 => k \in 1 .. Len(a))
    BY <1>1
  <2>2. k # 0 => c[k] = a[k]
    BY <1>2, <2>1
  <2>. QED BY <1>3, <2>1, <2>2 DEF NamesSteps
<1>5. Names(a) = f[Len(a)]
  BY <1>4, NamesIs
<1>6. PICK h : NamesSteps(h, b) /\ Names(b) = h[Len(b)]
  BY NamesRun
<1>7. Names(a) \in Seq(Tokens)
  BY NamesType
<1>8. \A k \in 0 .. Len(b) : h[k] \in Seq(Tokens) /\ f[Len(a) + k] = Names(a) \o h[k]
  <2> DEFINE Joined(k) == h[k] \in Seq(Tokens) /\ f[Len(a) + k] = Names(a) \o h[k]
             T == { k \in 0 .. Len(b) : ~Joined(k) }
  <2>1. SUFFICES ASSUME T # {} PROVE FALSE
    OBVIOUS
  <2>2. T \in SUBSET Nat
    OBVIOUS
  <2> HIDE DEF Joined
  <2>3. PICK k \in T : \A j \in T : k <= j
    BY <2>1, <2>2, Least
  <2>4. k \in 0 .. Len(b) /\ ~Joined(k)
    OBVIOUS
  <2>5. k # 0
    <3>1. h[0] = << >>
      BY <1>1, <1>6 DEF NamesSteps
    <3>2. Len(a) + 0 = Len(a)
      BY <1>1
    <3>3. Names(a) \o << >> = Names(a)
      BY <1>7
    <3>4. Joined(0)
      BY <1>5, <3>1, <3>2, <3>3 DEF Joined
    <3>. QED BY <2>4, <3>4
  <2>6. k - 1 \in 0 .. Len(b) /\ ~(k <= k - 1) /\ k \in 1 .. Len(b)
    BY <1>1, <2>4, <2>5
  <2>7. Joined(k - 1)
    BY <2>3, <2>6
  <2>8. b[k] \in Tokens /\ c[Len(a) + k] = b[k]
    BY <1>2, <2>6
  <2>9. h[k] = IF IsName(b[k]) THEN Append(h[k - 1], b[k]) ELSE h[k - 1]
    BY <1>6, <2>4, <2>5 DEF NamesSteps
  <2>10. f[Len(a) + k] = IF IsName(b[k]) THEN Append(f[Len(a) + (k - 1)], b[k]) ELSE f[Len(a) + (k - 1)]
    <3>1. Len(a) + k \in 0 .. Len(c) /\ Len(a) + k # 0 /\ (Len(a) + k) - 1 = Len(a) + (k - 1)
      BY <1>1, <2>6
    <3>2. f[Len(a) + k] = IF IsName(c[Len(a) + k]) THEN Append(f[(Len(a) + k) - 1], c[Len(a) + k])
                          ELSE f[(Len(a) + k) - 1]
      BY <1>3, <3>1 DEF NamesSteps
    <3>. QED BY <2>8, <3>1, <3>2
  <2>11. h[k - 1] \in Seq(Tokens) /\ f[Len(a) + (k - 1)] = Names(a) \o h[k - 1]
    BY <2>7 DEF Joined
  <2>12. CASE IsName(b[k])
    <3> DEFINE n == Names(a)
               hh == h[k - 1]
               x == b[k]
    <3>1. n \in Seq(Tokens) /\ hh \in Seq(Tokens) /\ x \in Tokens
      BY <1>7, <2>8, <2>11
    <3>2. h[k] = Append(hh, x) /\ f[Len(a) + k] = Append(n \o hh, x)
      BY <2>9, <2>10, <2>11, <2>12
    <3> HIDE DEF n, hh, x
    <3>3. Append(hh, x) \in Seq(Tokens) /\ Append(n \o hh, x) = n \o Append(hh, x)
      BY <3>1, AppendJoin
    <3>4. h[k] \in Seq(Tokens) /\ f[Len(a) + k] = n \o h[k]
      BY <3>2, <3>3
    <3>. QED BY <2>4, <3>4 DEF Joined, n
  <2>13. CASE ~IsName(b[k])
    BY <2>4, <2>9, <2>10, <2>11, <2>13 DEF Joined
  <2>. QED BY <2>12, <2>13
<1>9. Names(c) = Names(a) \o Names(b)
  BY <1>1, <1>3, <1>6, <1>8
<1>. QED BY <1>9 DEF c

LEMMA NamesSlash == Names(<< "/" >>) = << >>
<1> DEFINE x == "/"
           p == << x >>
<1>0. x \in Tokens
  BY WorkDirAssumption
<1>1. p \in Seq(Tokens) /\ Len(p) = 1 /\ p[1] = "/"
  <2>1. x = "/"
    OBVIOUS
  <2> HIDE DEF x
  <2>2. p \in Seq(Tokens) /\ Len(p) = 1 /\ p[1] = x
    BY <1>0
  <2>. QED BY <2>1, <2>2
<1> HIDE DEF p
<1>2. PICK f : NamesSteps(f, p) /\ Names(p) = f[Len(p)]
  BY <1>1, NamesRun
<1>3. f[0] = << >> /\ f[1] = IF IsName(p[1]) THEN Append(f[0], p[1]) ELSE f[0]
  BY <1>1, <1>2 DEF NamesSteps
<1>4. ~IsName(p[1])
  BY <1>1 DEF IsName
<1>5. Names(p) = << >>
  BY <1>1, <1>2, <1>3, <1>4
<1>. QED BY <1>5 DEF p

LEMMA ResolveJoin ==
  ASSUME NEW a \in Seq(Tokens), NEW b \in Seq(Tokens), NEW from
  PROVE  Resolve(from, a \o b) = Resolve(Resolve(from, a), b)
<1> DEFINE c == a \o b
<1>1. c \in Seq(Tokens) /\ Len(c) = Len(a) + Len(b) /\ Len(a) \in Nat /\ Len(b) \in Nat
  OBVIOUS
<1>2. (\A k \in 1 .. Len(a) : c[k] = a[k]) /\ (\A k \in 1 .. Len(b) : c[Len(a) + k] = b[k])
  OBVIOUS
<1> HIDE DEF c
<1>3. PICK g : ResolveSteps(g, from, c) /\ Resolve(from, c) = g[Len(c)]
  BY <1>1, ResolveRun
<1>4. ResolveSteps(g, from, a)
  <2> SUFFICES ASSUME NEW k \in 0 .. Len(a)
               PROVE  g[k] = IF k = 0 THEN from ELSE Enter(g[k - 1], a[k])
    BY DEF ResolveSteps
  <2>1. k \in 0 .. Len(c) /\ (k # 0 => k \in 1 .. Len(a))
    BY <1>1
  <2>2. k # 0 => c[k] = a[k]
    BY <1>2, <2>1
  <2>. QED BY <1>3, <2>1, <2>2 DEF ResolveSteps
<1>5. Resolve(from, a) = g[Len(a)]
  BY <1>4, ResolveIs
<1> DEFINE h == [k \in 0 .. Len(b) |-> g[Len(a) + k]]
<1>6. ASSUME NEW k \in 0 .. Len(b)
      PROVE  h[k] = IF k = 0 THEN g[Len(a)] ELSE Enter(h[k - 1], b[k])
  <2>1. CASE k = 0
    BY <1>1, <2>1
  <2>2. CASE k # 0
    <3>1. k \in 1 .. Len(b) /\ k - 1 \in 0 .. Len(b) /\ Len(a) + k \in 0 .. Len(c)
          /\ Len(a) + k # 0 /\ (Len(a) + k) - 1 = Len(a) + (k - 1)
      BY <1>1, <2>2
    <3>2. h[k] = g[Len(a) + k] /\ h[k - 1] = g[Len(a) + (k - 1)]
      BY <3>1
    <3> HIDE DEF h
    <3>3. g[Len(a) + k] = Enter(g[(Len(a) + k) - 1], c[Len(a) + k])
      BY <1>3, <3>1 DEF ResolveSteps
    <3>4. c[Len(a) + k] = b[k]
      BY <1>2, <3>1
    <3>. QED BY <2>2, <3>1, <3>2, <3>3, <3>4
  <2>. QED BY <2>1, <2>2
<1>7. h[Len(b)] = g[Len(c)]
  BY <1>1
<1> HIDE DEF h
<1>8. ResolveSteps(h, g[Len(a)], b)
  BY <1>6 DEF ResolveSteps
<1>9. Resolve(g[Len(a)], b) = h[Len(b)]
  BY <1>8, ResolveIs
<1>10. Resolve(from, c) = Resolve(Resolve(from, a), b)
  BY <1>3, <1>5, <1>7, <1>9
<1>. QED BY <1>10 DEF c
-----------------------------------------------------------------------------
(* The directories that open loads *)
LEMMA ObjFacts ==
  ASSUME NEW o \in Objs
  PROVE  o \in Nat /\ o # ROOTDIR /\ o # NoDir
BY WorkDirAssumption DEF ROOTDIR, NoDir

LEMMA NewObjIs ==
  ASSUME NEW ob, FreeObjs(ob) # {}
  PROVE  NewObj(ob) \in FreeObjs(ob)
<1>1. FreeObjs(ob) \in SUBSET Nat
  BY ObjFacts DEF FreeObjs
<1>2. \E o \in FreeObjs(ob) : \A p \in FreeObjs(ob) : o <= p
  BY <1>1, Least
<1>. QED BY <1>2 DEF NewObj

LEMMA OtherFree ==
  ASSUME Room, NEW d
  PROVE  FreeObjs(obj) \ {d} # {}
<1>1. IsFiniteSet(FreeObjs(obj))
  BY WorkDirAssumption, FS_Subset DEF FreeObjs
<1>2. SUFFICES ASSUME FreeObjs(obj) \ {d} = {} PROVE FALSE
  OBVIOUS
<1>3. FreeObjs(obj) \subseteq {d}
  BY <1>2
<1>4. IsFiniteSet({d}) /\ Cardinality({d}) = 1
  BY FS_Singleton
<1>5. Cardinality(FreeObjs(obj)) <= 1
  BY <1>3, <1>4, FS_Subset
<1>6. Cardinality(FreeObjs(obj)) \in Nat
  BY <1>1, FS_CardinalityType
<1>. QED BY <1>5, <1>6 DEF Room

(* A directory that the walk may be in, and the place it is of: the root,   *)
(* the working directory, or one that the walk has loaded.                  *)
DirAt(d, p) ==
  \/ d = ROOTDIR /\ p = FatRoot
  \/ d \in Objs /\ d = CwdDir /\ obj[d].of = p /\ p \in FatDirs
  \/ d \in FreeObjs(obj) /\ p \in FatDirs \ {FatRoot}
Loaded(d, p) == IF d \in FreeObjs(obj) THEN [obj EXCEPT ![d] = [of |-> p, ref |-> 0]] ELSE obj

IsWalk(w) == w = [dir |-> w.dir, obj |-> w.obj, err |-> w.err, dent |-> w.dent]
InDir(w, p) == w.err = "none" /\ DirAt(w.dir, p) /\ w.obj = Loaded(w.dir, p)
AtFile(w, p) ==
  w.err = "none" /\ w.dir = NoDir /\ w.obj = obj /\ w.dent = [dir |-> w.dent.dir, place |-> p]
GaveUp(w) ==
  /\ w.err # "none"
  /\ \/ w.dir = NoDir /\ w.obj = obj
     \/ \E p \in FatDirs : DirAt(w.dir, p) /\ w.obj = Loaded(w.dir, p)

LEMMA DirFacts ==
  ASSUME ObjsOK, NodeOK(cwdnode), NEW d, NEW p, DirAt(d, p)
  PROVE  /\ p \in FatDirs /\ d # NoDir
         /\ d \in FreeObjs(obj) => d \in Objs /\ d # CwdDir /\ d # ROOTDIR /\ p # FatRoot
         /\ d \notin FreeObjs(obj) => d \in {ROOTDIR, CwdDir}
         /\ d = ROOTDIR => p = FatRoot
<1>1. FatRoot \in FatDirs /\ Missing \notin FatDirs
  BY WorkDirAssumption
<1>2. \A o \in FreeObjs(obj) : o \in Objs /\ o # ROOTDIR /\ o # NoDir /\ obj[o].of = Missing
  BY ObjFacts DEF FreeObjs, Free
<1>3. ROOTDIR # NoDir
  BY DEF ROOTDIR, NoDir
<1>4. CASE d = ROOTDIR /\ p = FatRoot
  BY <1>1, <1>2, <1>3, <1>4
<1>5. CASE d \in Objs /\ d = CwdDir /\ obj[d].of = p /\ p \in FatDirs
  BY <1>1, <1>2, <1>5, ObjFacts
<1>6. CASE d \in FreeObjs(obj) /\ p \in FatDirs \ {FatRoot}
  <2>1. d # CwdDir
    <3>1. SUFFICES ASSUME d = CwdDir PROVE FALSE
      OBVIOUS
    <3>2. cwdnode.type = "fat_dir" /\ cwdnode.at = d
      BY <1>2, <1>6, <3>1 DEF CwdDir
    <3>3. obj[d].of \in FatDirs
      BY <3>2 DEF NodeOK
    <3>. QED BY <1>1, <1>2, <1>6, <3>3
  <2>. QED BY <1>2, <1>6, <2>1
<1>. QED BY <1>4, <1>5, <1>6 DEF DirAt

LEMMA LoadedFacts ==
  ASSUME ObjsOK, NodeOK(cwdnode), NEW d, NEW p, DirAt(d, p)
  PROVE  /\ Loaded(d, p) \in [Objs -> [of : FatDirs \cup {Missing}, ref : Nat]]
         /\ (IF d = ROOTDIR THEN FatRoot ELSE Loaded(d, p)[d].of) = p
         /\ FreeObjs(Loaded(d, p)) = FreeObjs(obj) \ {d}
         /\ d \in FreeObjs(obj) => Loaded(d, p)[d] = [of |-> p, ref |-> 0]
         /\ d \notin FreeObjs(obj) => Loaded(d, p) = obj
<1>1. p \in FatDirs /\ d # NoDir /\ (d \in FreeObjs(obj) => d \in Objs /\ d # CwdDir /\ d # ROOTDIR)
      /\ (d \notin FreeObjs(obj) => d \in {ROOTDIR, CwdDir}) /\ (d = ROOTDIR => p = FatRoot)
  BY DirFacts
<1>2. Missing \notin FatDirs
  BY WorkDirAssumption
<1>3. obj \in [Objs -> [of : FatDirs \cup {Missing}, ref : Nat]]
  BY DEF ObjsOK
<1>4. CASE d \in FreeObjs(obj)
  <2> DEFINE r == [of |-> p, ref |-> 0]
             l == [obj EXCEPT ![d] = r]
  <2>1. r \in [of : FatDirs \cup {Missing}, ref : Nat] /\ r # Free /\ r.of = p
    BY <1>1, <1>2 DEF Free
  <2>2. Loaded(d, p) = l
    BY <1>4 DEF Loaded
  <2> HIDE DEF r
  <2>3. l \in [Objs -> [of : FatDirs \cup {Missing}, ref : Nat]] /\ l[d] = r /\ \A o \in Objs \ {d} : l[o] = obj[o]
    BY <1>1, <1>3, <1>4, <2>1
  <2> HIDE DEF l
  <2>4. FreeObjs(l) = FreeObjs(obj) \ {d}
    BY <1>1, <1>4, <2>1, <2>3 DEF FreeObjs
  <2>. QED BY <1>1, <1>4, <2>1, <2>2, <2>3, <2>4 DEF r
<1>5. CASE d \notin FreeObjs(obj)
  <2>1. Loaded(d, p) = obj
    BY <1>5 DEF Loaded
  <2>2. d # ROOTDIR => obj[d].of = p
    BY <1>5 DEF DirAt
  <2>. QED BY <1>1, <1>3, <1>5, <2>1, <2>2
<1>. QED BY <1>4, <1>5

(* Leaving the directory d for another one takes the one loaded away        *)
LEMMA Left ==
  ASSUME ObjsOK, NodeOK(cwdnode), NEW d, NEW p, DirAt(d, p)
  PROVE  /\ d \in FreeObjs(obj) => free_dir(Loaded(d, p), d) = obj
         /\ \A n \in FreeObjs(obj) \ {d}, r \in [of : FatDirs \cup {Missing}, ref : Nat] :
              d \in FreeObjs(obj) =>
                free_dir([Loaded(d, p) EXCEPT ![n] = r], d) = [obj EXCEPT ![n] = r]
<1>1. SUFFICES ASSUME d \in FreeObjs(obj)
               PROVE  /\ free_dir(Loaded(d, p), d) = obj
                      /\ \A n \in FreeObjs(obj) \ {d}, r \in [of : FatDirs \cup {Missing}, ref : Nat] :
                           free_dir([Loaded(d, p) EXCEPT ![n] = r], d) = [obj EXCEPT ![n] = r]
  OBVIOUS
<1> DEFINE q == [of |-> p, ref |-> 0]
           l == Loaded(d, p)
<1>2. l = [obj EXCEPT ![d] = q]
  BY <1>1 DEF Loaded
<1>3. obj \in [Objs -> [of : FatDirs \cup {Missing}, ref : Nat]] /\ d \in Objs /\ obj[d] = Free
  BY <1>1 DEF ObjsOK, FreeObjs
<1>4. ~(q.ref - 1 > 0)
  OBVIOUS
<1> HIDE DEF l, q
<1>5. l[d] = q /\ DOMAIN l = Objs /\ \A o \in Objs \ {d} : l[o] = obj[o]
  BY <1>2, <1>3
<1>6. free_dir(l, d) = [l EXCEPT ![d] = Free]
  BY <1>4, <1>5 DEF free_dir
<1>7. [l EXCEPT ![d] = Free] = obj
  BY <1>2, <1>3
<1>8. ASSUME NEW n \in FreeObjs(obj) \ {d}, NEW r \in [of : FatDirs \cup {Missing}, ref : Nat]
      PROVE  free_dir([l EXCEPT ![n] = r], d) = [obj EXCEPT ![n] = r]
  <2> DEFINE m == [l EXCEPT ![n] = r]
  <2>1. n \in Objs /\ n # d
    BY DEF FreeObjs
  <2>2. m[d] = q
    BY <1>3, <1>5, <2>1
  <2>3. [m EXCEPT ![d] = Free] = [obj EXCEPT ![n] = r]
    BY <1>2, <1>3, <2>1
  <2> HIDE DEF m
  <2>4. free_dir(m, d) = [m EXCEPT ![d] = Free]
    BY <1>4, <2>2 DEF free_dir
  <2>. QED BY <2>3, <2>4 DEF m
<1>. QED BY <1>6, <1>7, <1>8 DEF l
-----------------------------------------------------------------------------
(* The place of one name *)
LEMMA EnterFat ==
  ASSUME NEW p \in FatDirs, NEW nm
  PROVE  Enter(p, nm) = IF nm = "." THEN p
                        ELSE IF nm \in DOMAIN Ents[p] THEN Ents[p][nm] ELSE Missing
BY WorkDirAssumption DEF Enter

-----------------------------------------------------------------------------
(* One name of the walk: it is in a directory still, has come upon a file   *)
(* or a directory that cannot be read, or has failed.                       *)
LEMMA ComponentFacts ==
  ASSUME ObjsOK, NodeOK(cwdnode), Room, NEW w, IsWalk(w), NEW p, InDir(w, p), NEW nm, NEW bad
  PROVE  LET c == Component(w, nm, bad)
             to == Enter(p, nm)
         IN  /\ IsWalk(c)
             /\ InDir(c, to) \/ AtFile(c, to) \/ GaveUp(c)
<1> DEFINE d == w.dir
           ob == w.obj
           of == IF d = ROOTDIR THEN FatRoot ELSE ob[d].of
           to == Ents[of][nm]
           c == Component(w, nm, bad)
<1>1. w = [dir |-> d, obj |-> ob, err |-> "none", dent |-> w.dent]
      /\ DirAt(d, p) /\ ob = Loaded(d, p)
  BY DEF IsWalk, InDir
<1>2. /\ p \in FatDirs /\ d # NoDir
      /\ d \in FreeObjs(obj) => d \in Objs /\ d # CwdDir /\ d # ROOTDIR /\ p # FatRoot
      /\ d \notin FreeObjs(obj) => d \in {ROOTDIR, CwdDir}
      /\ d = ROOTDIR => p = FatRoot
  BY <1>1, DirFacts
<1>3. of = p
  <2>1. (IF d = ROOTDIR THEN FatRoot ELSE Loaded(d, p)[d].of) = p
    <3> HIDE DEF d
    <3>. QED BY <1>1, LoadedFacts
  <2>. QED BY <1>1, <2>1
<1>4. FreeObjs(ob) = FreeObjs(obj) \ {d} /\ (d \notin FreeObjs(obj) => ob = obj)
  BY <1>1, LoadedFacts
<1> DEFINE new == NewObj(ob)
<1>5. new \in FreeObjs(obj) /\ new # d
  <2>1. FreeObjs(ob) # {}
    BY <1>4, OtherFree
  <2>2. new \in FreeObjs(ob)
    BY <2>1, NewObjIs
  <2>. QED BY <1>4, <2>2
<1>6. new \in Objs /\ new # ROOTDIR /\ new # NoDir /\ obj[new] = Free
  BY <1>5, ObjFacts DEF FreeObjs
<1>7. CASE nm = "."
  <2>1. c = w
    BY <1>7 DEF Component
  <2>2. Enter(p, nm) = p
    BY <1>2, <1>7, EnterFat
  <2>. QED BY <2>1, <2>2, <1>7
<1>8. CASE nm # "." /\ nm \notin DOMAIN Ents[p]
  <2>1. c = [w EXCEPT !.err = "ENOENT"]
    BY <1>3, <1>8 DEF Component
  <2>2. c = [dir |-> d, obj |-> ob, err |-> "ENOENT", dent |-> w.dent]
    BY <1>1, <2>1
  <2> HIDE DEF c
  <2>4. IsWalk(c) /\ c.err # "none" /\ c.dir = d /\ c.obj = ob
    BY <2>2 DEF IsWalk
  <2>5. GaveUp(c)
    BY <1>1, <1>2, <2>4 DEF GaveUp
  <2>. QED BY <1>8, <2>4, <2>5 DEF c
<1> SUFFICES ASSUME nm # ".", nm \in DOMAIN Ents[p]
             PROVE  /\ IsWalk(c)
                    /\ InDir(c, Enter(p, nm)) \/ AtFile(c, Enter(p, nm)) \/ GaveUp(c)
  BY <1>7, <1>8
<1>9. Enter(p, nm) = to
  BY <1>2, <1>3, EnterFat
<1> DEFINE e == [dir |-> d, place |-> to]
           goes == [w EXCEPT !.dent = e]
           rec == [of |-> to, ref |-> 0]
<1>11. c = IF to \in Empties THEN [w EXCEPT !.err = "unset"]
           ELSE IF to = FatRoot THEN Leave([goes EXCEPT !.dir = ROOTDIR], d)
           ELSE IF to \notin FatDirs \/ to = bad THEN Leave([goes EXCEPT !.dir = NoDir], d)
           ELSE Leave([goes EXCEPT !.dir = new, !.obj = [ob EXCEPT ![new] = rec]], d)
  BY <1>3, <1>1 DEF Component
<1> HIDE DEF c, to, of, new
<1>12. CASE to \in Empties
  <2>1. c = [dir |-> d, obj |-> ob, err |-> "unset", dent |-> w.dent]
    BY <1>1, <1>11, <1>12
  <2>2. IsWalk(c) /\ c.err # "none" /\ c.dir = d /\ c.obj = ob
    BY <2>1 DEF IsWalk
  <2>3. GaveUp(c)
    BY <1>1, <1>2, <2>2 DEF GaveUp
  <2>. QED BY <1>9, <1>12, <2>2, <2>3
<1>13. ASSUME NEW x, NEW y
       PROVE  /\ d \notin FreeObjs(obj) =>
                   Leave([dir |-> x, obj |-> y, err |-> "none", dent |-> e], d)
                     = [dir |-> x, obj |-> y, err |-> "none", dent |-> e]
              /\ d \in FreeObjs(obj) =>
                   Leave([dir |-> x, obj |-> y, err |-> "none", dent |-> e], d)
                     = [dir |-> x, obj |-> free_dir(y, d), err |-> "none", dent |-> e]
  <2> HIDE DEF e
  <2>. QED BY <1>2 DEF Leave
<1>14. free_dir(ob, d) = obj \/ d \notin FreeObjs(obj)
  BY <1>1, Left
<1>15. goes = [dir |-> d, obj |-> ob, err |-> "none", dent |-> e]
  BY <1>1
<1>16. ASSUME NEW x, c = Leave([goes EXCEPT !.dir = x], d)
       PROVE  c = [dir |-> x, obj |-> obj, err |-> "none", dent |-> e]
  <2> HIDE DEF goes, e
  <2>1. [goes EXCEPT !.dir = x] = [dir |-> x, obj |-> ob, err |-> "none", dent |-> e]
    <3> HIDE DEF d, ob
    <3>. QED BY <1>15
  <2>2. c = Leave([dir |-> x, obj |-> ob, err |-> "none", dent |-> e], d)
    BY <1>16, <2>1
  <2> HIDE DEF d, ob
  <2>3. CASE d \in FreeObjs(obj)
    BY <1>13, <1>14, <2>2, <2>3
  <2>4. CASE d \notin FreeObjs(obj)
    BY <1>4, <1>13, <2>2, <2>4
  <2>. QED BY <2>3, <2>4
<1>17. CASE to \notin Empties /\ to = FatRoot
  <2>1. c = [dir |-> ROOTDIR, obj |-> obj, err |-> "none", dent |-> e]
    <3> HIDE DEF goes, e
    <3>. QED BY <1>11, <1>16, <1>17
  <2>2. IsWalk(c) /\ c.err = "none" /\ c.dir = ROOTDIR /\ c.obj = obj
    BY <2>1 DEF IsWalk
  <2>3. ROOTDIR \notin FreeObjs(obj)
    BY ObjFacts DEF FreeObjs
  <2>4. InDir(c, to)
    BY <1>17, <2>2, <2>3 DEF InDir, DirAt, Loaded
  <2>. QED BY <1>9, <2>2, <2>4
<1>18. CASE to \notin Empties /\ to # FatRoot /\ (to \notin FatDirs \/ to = bad)
  <2>1. c = [dir |-> NoDir, obj |-> obj, err |-> "none", dent |-> e]
    <3> HIDE DEF goes, e
    <3>. QED BY <1>11, <1>16, <1>18
  <2>2. IsWalk(c) /\ c.err = "none" /\ c.dir = NoDir /\ c.obj = obj /\ c.dent = e /\ e.dir = d
    BY <2>1 DEF IsWalk
  <2>3. AtFile(c, to)
    BY <2>2 DEF AtFile
  <2>. QED BY <1>9, <2>2, <2>3
<1>19. CASE to \notin Empties /\ to \in FatDirs /\ to # FatRoot /\ to # bad
  <2> DEFINE y == [ob EXCEPT ![new] = rec]
             z == [obj EXCEPT ![new] = rec]
  <2>1. c = Leave([dir |-> new, obj |-> y, err |-> "none", dent |-> e], d)
    <3>1. [goes EXCEPT !.dir = new, !.obj = y] = [dir |-> new, obj |-> y, err |-> "none", dent |-> e]
      <4> HIDE DEF e, y, goes, d, ob
      <4>1. [goes EXCEPT !.dir = new, !.obj = y] = [[goes EXCEPT !.dir = new] EXCEPT !.obj = y]
        OBVIOUS
      <4>2. [goes EXCEPT !.dir = new] = [dir |-> new, obj |-> ob, err |-> "none", dent |-> e]
        BY <1>15
      <4>3. [[dir |-> new, obj |-> ob, err |-> "none", dent |-> e] EXCEPT !.obj = y]
              = [dir |-> new, obj |-> y, err |-> "none", dent |-> e]
        OBVIOUS
      <4>. QED BY <4>1, <4>2, <4>3
    <3>2. c = Leave([goes EXCEPT !.dir = new, !.obj = y], d)
      <4> HIDE DEF goes, e, rec
      <4>. QED BY <1>11, <1>19
    <3>. QED BY <3>1, <3>2
  <2>2. rec \in [of : FatDirs \cup {Missing}, ref : Nat]
    BY <1>19
  <2>3. d \in FreeObjs(obj) => free_dir(y, d) = z
    <3>1. new \in FreeObjs(obj) \ {d}
      BY <1>5
    <3> HIDE DEF rec
    <3>. QED BY <1>1, <2>2, <3>1, Left
  <2>4. d \notin FreeObjs(obj) => y = z
    BY <1>4
  <2> HIDE DEF y, z
  <2>5. c = [dir |-> new, obj |-> z, err |-> "none", dent |-> e]
    <3> HIDE DEF e
    <3>. QED BY <1>13, <2>1, <2>3, <2>4
  <2>6. IsWalk(c) /\ c.err = "none" /\ c.dir = new /\ c.obj = z
    BY <2>5 DEF IsWalk
  <2>7. z = Loaded(new, to)
    BY <1>5 DEF z, Loaded
  <2>8. DirAt(new, to)
    BY <1>5, <1>19 DEF DirAt
  <2>9. InDir(c, to)
    BY <2>6, <2>7, <2>8 DEF InDir
  <2>. QED BY <1>9, <2>6, <2>9
<1>20. /\ IsWalk(c)
       /\ InDir(c, to) \/ AtFile(c, to) \/ GaveUp(c)
  BY <1>9, <1>12, <1>17, <1>18, <1>19
<1>. QED BY <1>9, <1>20
-----------------------------------------------------------------------------
(* The whole walk is where the path leads, or has failed.                   *)
LEMMA WalkFacts ==
  ASSUME ObjsOK, NodeOK(cwdnode), Room, NEW from, NEW p, from \in {ROOTDIR, CwdDir}, DirAt(from, p),
         NEW names \in Seq(Tokens), NEW bad
  PROVE  LET w == Walk(from, names, bad)
             to == Resolve(p, names)
         IN  IsWalk(w) /\ (InDir(w, to) \/ AtFile(w, to) \/ GaveUp(w))
<1> DEFINE n == Len(names)
<1>0. n \in Nat
  OBVIOUS
<1>1. PICK f : WalkSteps(f, from, names, bad) /\ Walk(from, names, bad) = f[n]
  BY WalkRun
<1>2. PICK g : ResolveSteps(g, p, names) /\ Resolve(p, names) = g[n]
  BY ResolveRun
<1> DEFINE At(k) == IsWalk(f[k]) /\ (InDir(f[k], g[k]) \/ AtFile(f[k], g[k]) \/ GaveUp(f[k]))
<1>3. At(0)
  <2>1. f[0] = Begin(from) /\ g[0] = p
    BY <1>0, <1>1, <1>2 DEF WalkSteps, ResolveSteps
  <2>2. from \notin FreeObjs(obj)
    <3>1. from \in FreeObjs(obj) => from # CwdDir /\ from # ROOTDIR
      BY DirFacts
    <3>. QED BY <3>1
  <2>3. Loaded(from, p) = obj
    BY <2>2 DEF Loaded
  <2>4. IsWalk(f[0]) /\ InDir(f[0], g[0]) /\ f[0].dir = from
    BY <2>1, <2>3 DEF IsWalk, InDir, Begin
  <2>. QED BY <2>4
<1>4. ASSUME NEW k \in 1 .. n, At(k - 1)
      PROVE  At(k)
  <2>1. f[k] = Pass(f[k - 1], names[k], bad) /\ g[k] = Enter(g[k - 1], names[k])
    <3>1. k \in 0 .. n /\ k # 0
      BY <1>0
    <3>. QED BY <1>1, <1>2, <3>1 DEF WalkSteps, ResolveSteps
  <2>2. IsWalk(f[k - 1])
    BY <1>4
  <2>3. CASE InDir(f[k - 1], g[k - 1])
    <3> DEFINE w == f[k - 1]
    <3>1. w.err = "none" /\ w.dir # NoDir
      BY <2>3, DirFacts DEF InDir
    <3>2. f[k] = Component(w, names[k], bad)
      BY <2>1, <3>1 DEF Pass
    <3>. QED BY <2>1, <2>2, <2>3, <3>2, ComponentFacts
  <2>4. CASE AtFile(f[k - 1], g[k - 1])
    <3>1. f[k - 1].err = "none" /\ f[k - 1].dir = NoDir /\ f[k - 1].obj = obj
      BY <2>4 DEF AtFile
    <3>2. f[k] = [f[k - 1] EXCEPT !.err = "ENOTDIR"]
      BY <2>1, <3>1 DEF Pass
    <3>3. f[k] = [dir |-> NoDir, obj |-> obj, err |-> "ENOTDIR", dent |-> f[k - 1].dent]
      BY <2>2, <3>1, <3>2 DEF IsWalk
    <3>. QED BY <3>3 DEF IsWalk, GaveUp
  <2>5. CASE GaveUp(f[k - 1])
    <3>1. f[k] = f[k - 1]
      BY <2>1, <2>5 DEF Pass, GaveUp
    <3>. QED BY <2>2, <2>5, <3>1
  <2>. QED BY <1>4, <2>3, <2>4, <2>5
<1>5. At(n)
  <2> HIDE DEF At
  <2> DEFINE T == { k \in 0 .. n : ~At(k) }
  <2>1. SUFFICES ASSUME T # {} PROVE FALSE
    BY <1>0
  <2>2. T \in SUBSET Nat
    OBVIOUS
  <2>3. PICK k \in T : \A j \in T : k <= j
    BY <2>1, <2>2, Least
  <2>4. k \in 1 .. n /\ k - 1 \in 0 .. n /\ ~(k <= k - 1)
    BY <1>0, <1>3
  <2>5. At(k - 1)
    BY <2>3, <2>4
  <2>. QED BY <1>4, <2>4, <2>5
<1>. QED BY <1>1, <1>2, <1>5
-----------------------------------------------------------------------------
(* What open gives for the place that a path names *)
FoundNone(r) ==
  /\ r.node = NoNode
  /\ \/ ~r.lost /\ r.obj = obj
     \/ r.lost /\ \E o \in FreeObjs(obj), p \in FatDirs : r.obj = [obj EXCEPT ![o] = [of |-> p, ref |-> 0]]
FoundMem(r, to) ==
  /\ r.node = [type |-> "mem_dir", at |-> to] /\ to \in MemDirs
  /\ r.obj = obj /\ ~r.lost
FoundFile(r, to) ==
  /\ r.node = [type |-> "file", at |-> to]
  /\ r.obj = obj /\ ~r.lost
FoundDir(r, to) ==
  /\ ~r.lost /\ to \in FatDirs
  /\ \E o \in Objs :
       /\ r.node = [type |-> "fat_dir", at |-> o]
       /\ \/ o \in FreeObjs(obj) /\ r.obj = [obj EXCEPT ![o] = [of |-> to, ref |-> 1]]
          \/ o = CwdDir /\ obj[o].of = to /\ r.obj = [obj EXCEPT ![o] = [of |-> to, ref |-> obj[o].ref + 1]]
Opened(r, to) ==
  FoundNone(r) \/ FoundMem(r, to) \/ FoundFile(r, to) \/ FoundDir(r, to)

LEMMA WalkOpened ==
  ASSUME ObjsOK, NodeOK(cwdnode), Room, NEW from, NEW p, from \in {ROOTDIR, CwdDir}, DirAt(from, p),
         NEW names \in Seq(Tokens), NEW bad
  PROVE  Opened(Node(Walk(from, names, bad)), Resolve(p, names))
<1> DEFINE w == Walk(from, names, bad)
           to == Resolve(p, names)
           r == Node(w)
<1>1. IsWalk(w) /\ (InDir(w, to) \/ AtFile(w, to) \/ GaveUp(w))
  BY WalkFacts
<1>3. obj \in [Objs -> [of : FatDirs \cup {Missing}, ref : Nat]]
  BY DEF ObjsOK
<1> SUFFICES Opened(r, to)
  OBVIOUS
<1> HIDE DEF w, to
<1>4. CASE GaveUp(w)
  <2>1. r = Failed(w)
    BY <1>4 DEF Node, GaveUp
  <2>2. r.node = NoNode /\ r.obj = w.obj /\ r.lost = (w.dir \notin {NoDir, ROOTDIR, CwdDir})
    BY <2>1 DEF Failed
  <2>3. CASE w.dir = NoDir /\ w.obj = obj
    BY <1>4, <2>2, <2>3 DEF Opened, FoundNone
  <2>4. CASE \E a \in FatDirs : DirAt(w.dir, a) /\ w.obj = Loaded(w.dir, a)
    <3>1. PICK a \in FatDirs : DirAt(w.dir, a) /\ w.obj = Loaded(w.dir, a)
      BY <2>4
    <3>2. /\ w.dir # NoDir
          /\ w.dir \in FreeObjs(obj) => w.dir # CwdDir /\ w.dir # ROOTDIR
          /\ w.dir \notin FreeObjs(obj) => w.dir \in {ROOTDIR, CwdDir}
      BY <3>1, DirFacts
    <3>3. r.lost <=> w.dir \in FreeObjs(obj)
      BY <2>2, <3>2
    <3>4. CASE w.dir \in FreeObjs(obj)
      <4>1. w.obj = [obj EXCEPT ![w.dir] = [of |-> a, ref |-> 0]]
        BY <3>1, <3>4 DEF Loaded
      <4>2. r.lost /\ r.obj = [obj EXCEPT ![w.dir] = [of |-> a, ref |-> 0]]
        BY <2>2, <3>3, <3>4, <4>1
      <4>3. FoundNone(r)
        BY <2>2, <3>4, <4>2 DEF FoundNone
      <4>. QED BY <1>4, <2>2, <4>3 DEF Opened
    <3>5. CASE w.dir \notin FreeObjs(obj)
      <4>1. w.obj = obj
        BY <3>1, <3>5 DEF Loaded
      <4>2. FoundNone(r)
        BY <2>2, <3>3, <3>5, <4>1 DEF FoundNone
      <4>. QED BY <1>4, <2>2, <4>2 DEF Opened
    <3>. QED BY <3>4, <3>5
  <2>. QED BY <1>4, <2>3, <2>4 DEF GaveUp
<1>5. CASE AtFile(w, to)
  <2>1. w.err = "none" /\ w.dir = NoDir /\ w.obj = obj /\ w.dent.place = to
    BY <1>5 DEF AtFile
  <2>2. r = OnFile(w)
    BY <2>1 DEF Node
  <2>3. r.node = [type |-> "file", at |-> to] /\ r.obj = obj /\ r.lost = FALSE
    BY <2>1, <2>2 DEF OnFile
  <2>4. FoundFile(r, to)
    BY <2>3 DEF FoundFile
  <2>. QED BY <2>4 DEF Opened
<1>6. CASE InDir(w, to)
  <2> DEFINE d == w.dir
  <2>1. w.err = "none" /\ DirAt(d, to) /\ w.obj = Loaded(d, to)
    BY <1>6 DEF InDir
  <2>2. /\ to \in FatDirs /\ d # NoDir
        /\ d \in FreeObjs(obj) => d \in Objs /\ d # CwdDir /\ d # ROOTDIR
        /\ d \notin FreeObjs(obj) => d \in {ROOTDIR, CwdDir}
        /\ d = ROOTDIR => to = FatRoot
    BY <2>1, DirFacts
  <2> DEFINE l == Loaded(d, to)
  <2>5. /\ l \in [Objs -> [of : FatDirs \cup {Missing}, ref : Nat]]
        /\ (IF d = ROOTDIR THEN FatRoot ELSE l[d].of) = to
        /\ d \notin FreeObjs(obj) => l = obj
    BY <2>1, LoadedFacts
  <2>6. w.obj = l
    BY <2>1
  <2> HIDE DEF l
  <2>3. CASE d = ROOTDIR
    <3> DEFINE copy == NewObj(w.obj)
               rec == [of |-> FatRoot, ref |-> 0]
               ob == [w.obj EXCEPT ![copy] = rec]
               held == [w EXCEPT !.obj = ob]
               o1 == [ob EXCEPT ![copy].ref = @ + 1]
    <3>1. w.obj = obj
      BY <2>2, <2>3, <2>5, <2>6
    <3>2. copy \in FreeObjs(obj) /\ copy \in Objs
      <4>1. FreeObjs(obj) # {}
        BY OtherFree
      <4>. QED BY <3>1, <4>1, NewObjIs DEF FreeObjs
    <3>3. r = OnDir(held, copy)
      BY <2>1, <2>2, <2>3 DEF Node
    <3>4. held.obj = ob
      BY <1>1 DEF IsWalk
    <3>5. o1 = [obj EXCEPT ![copy] = [of |-> FatRoot, ref |-> 1]]
      <4>1. ob[copy] = rec
        BY <1>3, <3>1, <3>2
      <4>2. [rec EXCEPT !.ref = @ + 1] = [of |-> FatRoot, ref |-> 1]
        OBVIOUS
      <4>3. o1 = [ob EXCEPT ![copy] = [ob[copy] EXCEPT !.ref = @ + 1]]
        <5> HIDE DEF ob, copy
        <5>. QED OBVIOUS
      <4> HIDE DEF rec, copy
      <4>4. o1 = [ob EXCEPT ![copy] = [of |-> FatRoot, ref |-> 1]]
        BY <4>1, <4>2, <4>3
      <4>. QED BY <1>3, <3>1, <3>2, <4>4
    <3> HIDE DEF copy, ob, held
    <3>6. r.node = [type |-> "fat_dir", at |-> copy] /\ r.obj = o1 /\ r.lost = FALSE
      BY <3>3, <3>4 DEF OnDir
    <3>7. FoundDir(r, to)
      BY <2>2, <2>3, <3>2, <3>5, <3>6 DEF FoundDir
    <3>. QED BY <3>6, <3>7 DEF Opened
  <2>4. CASE d # ROOTDIR
    <3> DEFINE ob == w.obj
               o1 == [ob EXCEPT ![d].ref = @ + 1]
    <3>1. r = OnDir(w, d)
      BY <2>1, <2>2, <2>4 DEF Node
    <3>2. r.node = [type |-> "fat_dir", at |-> d] /\ r.obj = o1 /\ r.lost = FALSE
      BY <3>1 DEF OnDir
    <3>3. d \in Objs /\ ob \in [Objs -> [of : FatDirs \cup {Missing}, ref : Nat]]
      BY <2>1, <2>2, <2>4, <2>5, <2>6 DEF DirAt
    <3>4. ob[d].of = to /\ ob[d] = [of |-> to, ref |-> ob[d].ref] /\ ob[d].ref \in Nat
      <4>1. ob[d].of = to
        BY <2>4, <2>5, <2>6
      <4>. QED BY <3>3, <4>1
    <3>5. o1 = [ob EXCEPT ![d] = [of |-> to, ref |-> ob[d].ref + 1]]
      <4> DEFINE v == ob[d].ref
      <4>1. ob[d] = [of |-> to, ref |-> v]
        BY <3>4
      <4> HIDE DEF v, ob, d
      <4>2. o1 = [ob EXCEPT ![d] = [ob[d] EXCEPT !.ref = @ + 1]]
        OBVIOUS
      <4>3. [ob[d] EXCEPT !.ref = @ + 1] = [of |-> to, ref |-> v + 1]
        BY <4>1
      <4>4. o1 = [ob EXCEPT ![d] = [of |-> to, ref |-> v + 1]]
        BY <4>2, <4>3
      <4>. QED BY <4>4 DEF v
    <3>6. CASE d \in FreeObjs(obj)
      <4>1. ob = [obj EXCEPT ![d] = [of |-> to, ref |-> 0]] /\ ob[d].ref = 0
        BY <1>3, <2>1, <3>3, <3>6 DEF Loaded
      <4> HIDE DEF ob, d
      <4>2. o1 = [obj EXCEPT ![d] = [of |-> to, ref |-> 1]]
        <5>1. o1 = [ob EXCEPT ![d] = [of |-> to, ref |-> 1]]
          <6>1. ob[d].ref + 1 = 1
            BY <4>1
          <6>. QED BY <3>5, <6>1
        <5> HIDE DEF o1
        <5>. QED BY <1>3, <3>3, <4>1, <5>1
      <4> HIDE DEF o1
      <4>3. FoundDir(r, to)
        BY <2>2, <3>2, <3>3, <3>6, <4>2 DEF FoundDir
      <4>. QED BY <3>2, <4>3 DEF Opened
    <3>7. CASE d \notin FreeObjs(obj)
      <4>1. ob = obj /\ d = CwdDir
        BY <2>2, <2>4, <2>5, <2>6, <3>7
      <4> HIDE DEF ob, d
      <4>2. o1 = [obj EXCEPT ![d] = [of |-> to, ref |-> obj[d].ref + 1]] /\ obj[d].of = to
        BY <3>4, <3>5, <4>1
      <4> HIDE DEF o1
      <4>3. FoundDir(r, to)
        BY <2>2, <3>2, <3>3, <4>1, <4>2 DEF FoundDir
      <4>. QED BY <3>2, <4>3 DEF Opened
    <3>. QED BY <3>6, <3>7
  <2>. QED BY <2>3, <2>4
<1>. QED BY <1>1, <1>4, <1>5, <1>6
-----------------------------------------------------------------------------
(* A path split in two *)
LEMMA Split ==
  ASSUME NEW s \in Seq(Tokens), NEW k \in 0 .. Len(s)
  PROVE  /\ SubSeq(s, 1, k) \in Seq(Tokens) /\ SubSeq(s, k + 1, Len(s)) \in Seq(Tokens)
         /\ s = SubSeq(s, 1, k) \o SubSeq(s, k + 1, Len(s))
<1>1. Len(s) \in Nat
  OBVIOUS
<1>2. 1 \in 1 .. Len(s) + 1 /\ k \in 1 - 1 .. Len(s) /\ Len(s) \in k .. Len(s)
  BY <1>1
<1>3. SubSeq(s, 1, k) \o SubSeq(s, k + 1, Len(s)) = SubSeq(s, 1, Len(s))
  BY <1>2, ConcatAdjacentSubSeq
<1>4. SubSeq(s, 1, Len(s)) = s
  OBVIOUS
<1>5. SubSeq(s, 1, k) \in Seq(Tokens) /\ SubSeq(s, k + 1, Len(s)) \in Seq(Tokens)
  BY <1>1
<1>. QED BY <1>3, <1>4, <1>5

LEMMA ResolveEmpty ==
  ASSUME NEW p, NEW s \in Seq(Tokens), Len(s) = 0
  PROVE  Resolve(p, s) = p
<1>1. PICK g : ResolveSteps(g, p, s) /\ Resolve(p, s) = g[Len(s)]
  BY ResolveRun
<1>. QED BY <1>1 DEF ResolveSteps

LEMMA Prefix ==
  ASSUME NEW s \in Seq(Tokens), NEW m \in 0 .. Len(s)
  PROVE  /\ SubSeq(s, 1, m) \in Seq(Tokens) /\ Len(SubSeq(s, 1, m)) = m
         /\ \A j \in 1 .. m : SubSeq(s, 1, m)[j] = s[j]
OBVIOUS

LEMMA MemOpened ==
  ASSUME ObjsOK, NodeOK(cwdnode), Room, NEW from \in MemDirs, NEW names \in Seq(Tokens),
         NEW bad
  PROVE  Opened(OpenMem(from, names, bad), Resolve(from, names))
<1> DEFINE to == Resolve(from, names)
           n == Len(names)
<1>0. n \in Nat
  OBVIOUS
<1>1. CASE Crossing(from, names) = {}
  <2> DEFINE r == OpenMem(from, names, bad)
  <2>1. r.node = MemNode(to) /\ r.obj = obj /\ ~r.lost
    BY <1>1 DEF OpenMem
  <2>2. Missing \notin MemDirs
    BY WorkDirAssumption
  <2> SUFFICES Opened(r, to)
    OBVIOUS
  <2> HIDE DEF r, to
  <2>3. CASE to = Missing
    BY <2>1, <2>3 DEF MemNode, Opened, FoundNone
  <2>4. CASE to \in MemDirs
    BY <2>1, <2>2, <2>4 DEF MemNode, Opened, FoundMem
  <2>5. CASE to \notin MemDirs \cup {Missing}
    BY <2>1, <2>5 DEF MemNode, Opened, FoundFile
  <2>. QED BY <2>3, <2>4, <2>5
<1>2. CASE Crossing(from, names) # {}
  <2> DEFINE k == CHOOSE k \in Crossing(from, names) : \A j \in Crossing(from, names) : k <= j
             pre == SubSeq(names, 1, k)
             rest == SubSeq(names, k + 1, n)
  <2>1. Crossing(from, names) \in SUBSET Nat
    BY DEF Crossing
  <2>2. \E i \in Crossing(from, names) : \A j \in Crossing(from, names) : i <= j
    BY <1>2, <2>1, Least
  <2>3. k \in Crossing(from, names)
    BY <2>2
  <2>4. OpenMem(from, names, bad) = Node(Walk(ROOTDIR, rest, bad))
    BY <1>2 DEF OpenMem
  <2> HIDE DEF k
  <2>5. k \in 0 .. n /\ Resolve(from, pre) = FatRoot
    BY <2>3 DEF Crossing
  <2>6. pre \in Seq(Tokens) /\ rest \in Seq(Tokens) /\ names = pre \o rest
    BY <2>5, Split
  <2>7. to = Resolve(FatRoot, rest)
    <3> HIDE DEF pre, rest
    <3>1. Resolve(from, pre \o rest) = Resolve(Resolve(from, pre), rest)
      BY <2>6, ResolveJoin
    <3>. QED BY <2>5, <2>6, <3>1
  <2>9. DirAt(ROOTDIR, FatRoot)
    BY DEF DirAt
  <2> HIDE DEF rest
  <2>10. Opened(Node(Walk(ROOTDIR, rest, bad)), Resolve(FatRoot, rest))
    BY <2>6, <2>9, WalkOpened
  <2>. QED BY <2>4, <2>7, <2>10
<1>. QED BY <1>1, <1>2

(* CwdDir and the place of the working directory                            *)
LEMMA CwdFacts ==
  ASSUME NodeOK(cwdnode), cwdnode.type \in {"fat_dir", "mem_dir"}
  PROVE  /\ cwdnode.type = "fat_dir" => /\ CwdDir = cwdnode.at /\ DirAt(cwdnode.at, Place(cwdnode))
                                        /\ Place(cwdnode) = obj[cwdnode.at].of
         /\ cwdnode.type = "mem_dir" => Place(cwdnode) = cwdnode.at /\ Place(cwdnode) \in MemDirs
         /\ Place(cwdnode) \in FatDirs \cup MemDirs
<1>1. CASE cwdnode.type = "fat_dir"
  <2>1. cwdnode.at \in Objs /\ obj[cwdnode.at].of \in FatDirs /\ CwdDir = cwdnode.at
    BY <1>1 DEF NodeOK, CwdDir
  <2>2. Place(cwdnode) = obj[cwdnode.at].of
    BY <1>1, <2>1, ObjFacts DEF Place, PlaceOf
  <2>. QED BY <1>1, <2>1, <2>2 DEF DirAt
<1>2. CASE cwdnode.type = "mem_dir"
  BY <1>2 DEF NodeOK, Place
<1>. QED BY <1>1, <1>2

LEMMA FsOpened ==
  ASSUME ObjsOK, NodesOK, Room, NEW path \in Seq(Tokens), NEW bad
  PROVE  Opened(fs_open(path, bad), Resolve(Start(path), Names(path)))
<1>1. Names(path) \in Seq(Tokens)
  BY NamesType
<1>2. NodeOK(cwdnode) /\ cwdnode.type \in {"fat_dir", "mem_dir"}
  BY DEF NodesOK
<1>3. CASE IsAbsolute(path)
  <2>1. Start(path) = MemRoot /\ MemRoot \in MemDirs
    BY <1>3, WorkDirAssumption DEF Start
  <2>2. fs_open(path, bad) = OpenMem(MemRoot, Names(path), bad)
    BY <1>3 DEF fs_open
  <2>. QED BY <1>1, <1>2, <2>1, <2>2, MemOpened
<1>4. CASE ~IsAbsolute(path) /\ cwdnode.type = "fat_dir"
  <2>1. Start(path) = Place(cwdnode)
    BY <1>4 DEF Start
  <2>2. fs_open(path, bad) = Node(Walk(cwdnode.at, Names(path), bad))
    BY <1>4 DEF fs_open
  <2>3. CwdDir = cwdnode.at /\ DirAt(cwdnode.at, Place(cwdnode))
    BY <1>2, <1>4, CwdFacts
  <2>. QED BY <1>1, <1>2, <2>1, <2>2, <2>3, WalkOpened
<1>5. CASE ~IsAbsolute(path) /\ cwdnode.type = "mem_dir"
  <2>1. Start(path) = cwdnode.at /\ cwdnode.at \in MemDirs
    BY <1>2, <1>5, CwdFacts DEF Start
  <2>2. fs_open(path, bad) = OpenMem(cwdnode.at, Names(path), bad)
    BY <1>5 DEF fs_open
  <2>. QED BY <1>1, <1>2, <2>1, <2>2, MemOpened
<1>. QED BY <1>2, <1>3, <1>4, <1>5
-----------------------------------------------------------------------------
(* What open and close do to the references *)
Typed(ob) ==
  /\ ob \in [Objs -> [of : FatDirs \cup {Missing}, ref : Nat]]
  /\ \A o \in Objs : ob[o].of = Missing => ob[o] = Free
On(node, o) == IF node.type = "fat_dir" /\ node.at = o THEN 1 ELSE 0
LostIn(ob) == { o \in Objs : ob[o] # Free /\ ob[o].ref = 0 }

LEMMA Openings ==
  ASSUME ObjsOK, NodesOK, Counted, NEW r, NEW to, Opened(r, to)
  PROVE  /\ Typed(r.obj)
         /\ \A o \in Objs : r.obj[o].ref = obj[o].ref + On(r.node, o)
         /\ \A o \in Objs : obj[o] # Free => r.obj[o].of = obj[o].of
         /\ r.node = NoNode \/ r.node.type \in {"fat_dir", "mem_dir", "file"}
         /\ r.node.type = "fat_dir" => r.node.at \in Objs /\ r.obj[r.node.at].of = to /\ to \in FatDirs
         /\ r.node.type = "mem_dir" => r.node.at = to /\ to \in MemDirs
         /\ r.node.type = "file" => r.node.at = to
         /\ ~r.lost => LostIn(r.obj) = LostIn(obj)
         /\ r.lost => \E o \in Objs \ LostIn(obj) : LostIn(r.obj) = LostIn(obj) \cup {o}
<1>1. obj \in [Objs -> [of : FatDirs \cup {Missing}, ref : Nat]] /\ \A o \in Objs : obj[o].of = Missing => obj[o] = Free
  BY DEF ObjsOK
<1>2. Missing \notin FatDirs /\ Free.of = Missing /\ Free.ref = 0
  BY WorkDirAssumption DEF Free
<1>3. ASSUME r.obj = obj, r.node.type # "fat_dir"
      PROVE  /\ Typed(r.obj) /\ \A o \in Objs : r.obj[o].ref = obj[o].ref + On(r.node, o)
             /\ \A o \in Objs : obj[o] # Free => r.obj[o].of = obj[o].of
             /\ LostIn(r.obj) = LostIn(obj)
  <2>1. \A o \in Objs : On(r.node, o) = 0 /\ obj[o].ref \in Nat
    BY <1>1, <1>3 DEF On
  <2>. QED BY <1>1, <1>3, <2>1 DEF Typed
<1>4. CASE FoundNone(r)
  <2>1. r.node = NoNode /\ r.node.type = "none"
    BY <1>4 DEF FoundNone, NoNode
  <2>2. CASE ~r.lost /\ r.obj = obj
    BY <1>3, <2>1, <2>2
  <2>3. CASE r.lost /\ \E o \in FreeObjs(obj), p \in FatDirs : r.obj = [obj EXCEPT ![o] = [of |-> p, ref |-> 0]]
    <3>1. PICK o \in FreeObjs(obj), p \in FatDirs : r.obj = [obj EXCEPT ![o] = [of |-> p, ref |-> 0]]
      BY <2>3
    <3> DEFINE q == [of |-> p, ref |-> 0]
    <3>2. q \in [of : FatDirs \cup {Missing}, ref : Nat] /\ q.of = p /\ q.ref = 0 /\ q # Free
      BY <1>2
    <3>3. o \in Objs /\ obj[o] = Free
      BY DEF FreeObjs
    <3> HIDE DEF q
    <3>4. r.obj = [obj EXCEPT ![o] = q]
      BY <3>1 DEF q
    <3>5. r.obj[o] = q /\ \A x \in Objs \ {o} : r.obj[x] = obj[x]
      BY <1>1, <3>3, <3>4
    <3>6. r.obj \in [Objs -> [of : FatDirs \cup {Missing}, ref : Nat]]
      BY <1>1, <3>2, <3>3, <3>4
    <3>7. Typed(r.obj)
      BY <1>1, <1>2, <3>2, <3>5, <3>6 DEF Typed
    <3>8. \A x \in Objs : On(r.node, x) = 0 /\ obj[x].ref \in Nat
      BY <1>1, <2>1 DEF On
    <3>9. \A x \in Objs : r.obj[x].ref = obj[x].ref + On(r.node, x)
      BY <1>2, <3>2, <3>3, <3>5, <3>8
    <3>10. \A x \in Objs : obj[x] # Free => r.obj[x].of = obj[x].of
      BY <3>3, <3>5
    <3>11. o \in Objs \ LostIn(obj) /\ LostIn(r.obj) = LostIn(obj) \cup {o}
      BY <3>2, <3>3, <3>5 DEF LostIn
    <3>. QED BY <2>1, <2>3, <3>7, <3>9, <3>10, <3>11
  <2>. QED BY <1>4, <2>2, <2>3 DEF FoundNone
<1>5. CASE FoundMem(r, to)
  <2>1. r.node.type = "mem_dir" /\ r.node.at = to /\ to \in MemDirs /\ r.obj = obj /\ ~r.lost
    BY <1>5 DEF FoundMem
  <2>. QED BY <1>3, <2>1
<1>6. CASE FoundFile(r, to)
  <2>1. r.node.type = "file" /\ r.node.at = to /\ r.obj = obj /\ ~r.lost
    BY <1>6 DEF FoundFile
  <2>. QED BY <1>3, <2>1
<1>7. CASE FoundDir(r, to)
  <2>1. PICK o \in Objs :
          /\ r.node = [type |-> "fat_dir", at |-> o]
          /\ \/ o \in FreeObjs(obj) /\ r.obj = [obj EXCEPT ![o] = [of |-> to, ref |-> 1]]
             \/ o = CwdDir /\ obj[o].of = to /\ r.obj = [obj EXCEPT ![o] = [of |-> to, ref |-> obj[o].ref + 1]]
    BY <1>7 DEF FoundDir
  <2>2. r.node.type = "fat_dir" /\ r.node.at = o /\ ~r.lost /\ to \in FatDirs
    BY <1>7, <2>1 DEF FoundDir
  <2> DEFINE q == [of |-> to, ref |-> obj[o].ref + 1]
  <2>3. obj[o].ref \in Nat /\ obj[o].ref + 1 \in Nat /\ obj[o].ref + 1 # 0
    BY <1>1
  <2>4. q \in [of : FatDirs \cup {Missing}, ref : Nat] /\ q.of = to /\ q.ref = obj[o].ref + 1 /\ q # Free
    BY <1>2, <2>2, <2>3
  <2>5. r.obj = [obj EXCEPT ![o] = q]
    <3>1. o \in FreeObjs(obj) => obj[o].ref + 1 = 1
      BY <1>2 DEF FreeObjs
    <3>. QED BY <2>1, <3>1
  <2> HIDE DEF q
  <2>6. r.obj[o] = q /\ \A x \in Objs \ {o} : r.obj[x] = obj[x]
    BY <1>1, <2>5
  <2>7. r.obj \in [Objs -> [of : FatDirs \cup {Missing}, ref : Nat]]
    BY <1>1, <2>4, <2>5
  <2>8. Typed(r.obj)
    BY <1>1, <1>2, <2>2, <2>4, <2>6, <2>7 DEF Typed
  <2>9. \A x \in Objs : On(r.node, x) = (IF x = o THEN 1 ELSE 0) /\ obj[x].ref \in Nat
    BY <1>1, <2>2 DEF On
  <2>10. \A x \in Objs : r.obj[x].ref = obj[x].ref + On(r.node, x)
    BY <2>4, <2>6, <2>9
  <2>11. obj[o] # Free => obj[o].of = to
    BY <2>1 DEF FreeObjs
  <2>12. \A x \in Objs : obj[x] # Free => r.obj[x].of = obj[x].of
    BY <2>4, <2>6, <2>11
  <2>13. o \notin LostIn(obj)
    <3>1. o \in FreeObjs(obj) => obj[o] = Free
      BY DEF FreeObjs
    <3>2. CASE o \notin FreeObjs(obj)
      <4>1. o = CwdDir /\ o # NoDir
        BY <2>1, <3>2, ObjFacts
      <4>2. cwdnode.type = "fat_dir" /\ cwdnode.at = o
        BY <4>1 DEF CwdDir
      <4>3. obj[o].ref = RefsTo(o)
        BY DEF Counted
      <4>4. RefsTo(o) # 0
        BY <4>2 DEF RefsTo
      <4>. QED BY <4>3, <4>4 DEF LostIn
    <3>. QED BY <3>1, <3>2 DEF LostIn
  <2>14. LostIn(r.obj) = LostIn(obj)
    <3>1. o \notin LostIn(r.obj)
      BY <2>3, <2>4, <2>6 DEF LostIn
    <3>. QED BY <2>6, <2>13, <3>1 DEF LostIn
  <2>15. r.obj[r.node.at].of = to
    BY <2>2, <2>4, <2>6
  <2>. QED BY <2>2, <2>8, <2>10, <2>12, <2>14, <2>15
<1>. QED BY <1>4, <1>5, <1>6, <1>7 DEF Opened

LEMMA Closings ==
  ASSUME NEW ob, Typed(ob), NEW node, node.type = "fat_dir" => node.at \in Objs /\ ob[node.at].ref > 0
  PROVE  LET c == fs_close(ob, node) IN
         /\ Typed(c)
         /\ \A o \in Objs : c[o].ref = ob[o].ref - On(node, o)
         /\ \A o \in Objs : c[o].ref > 0 => c[o].of = ob[o].of
         /\ LostIn(c) = LostIn(ob)
<1> DEFINE c == fs_close(ob, node)
<1>1. ob \in [Objs -> [of : FatDirs \cup {Missing}, ref : Nat]] /\ \A o \in Objs : ob[o].of = Missing => ob[o] = Free
  BY DEF Typed
<1>2. Free \in [of : FatDirs \cup {Missing}, ref : Nat] /\ Free.of = Missing /\ Free.ref = 0
  BY DEF Free
<1>3. CASE node.type # "fat_dir"
  <2>1. c = ob
    BY <1>3 DEF fs_close
  <2>2. \A o \in Objs : On(node, o) = 0 /\ ob[o].ref \in Nat
    BY <1>1, <1>3 DEF On
  <2>. QED BY <2>1, <2>2
<1>4. CASE node.type = "fat_dir"
  <2> DEFINE o == node.at
             n == ob[o].ref
             p == ob[o].of
  <2>1. o \in Objs /\ n \in Nat /\ n > 0 /\ ob[o] = [of |-> p, ref |-> n] /\ p \in FatDirs
    <3>1. o \in Objs /\ n > 0
      BY <1>4
    <3>2. ob[o] # Free
      BY <1>2, <3>1
    <3>. QED BY <1>1, <3>1, <3>2
  <2>2. c = IF n - 1 > 0 THEN [ob EXCEPT ![o].ref = @ - 1] ELSE [ob EXCEPT ![o] = Free]
    BY <1>4 DEF fs_close, free_dir
  <2>3. \A x \in Objs : On(node, x) = (IF x = o THEN 1 ELSE 0) /\ ob[x].ref \in Nat
    BY <1>1, <1>4 DEF On
  <2> DEFINE q == IF n - 1 > 0 THEN [of |-> p, ref |-> n - 1] ELSE Free
  <2>4. c = [ob EXCEPT ![o] = q]
    <3>1. [ob EXCEPT ![o].ref = @ - 1] = [ob EXCEPT ![o] = [ob[o] EXCEPT !.ref = @ - 1]]
      <4> HIDE DEF o
      <4>. QED OBVIOUS
    <3>2. [ob[o] EXCEPT !.ref = @ - 1] = [of |-> p, ref |-> n - 1]
      <4>1. ob[o] = [of |-> p, ref |-> n]
        BY <2>1
      <4> HIDE DEF o, p, n
      <4>. QED BY <4>1
    <3> HIDE DEF c, o, p, n
    <3>. QED BY <2>2, <3>1, <3>2
  <2>5. q \in [of : FatDirs \cup {Missing}, ref : Nat] /\ q.ref = n - 1 /\ (q.ref > 0 => q.of = p) /\ (q.of = Missing => q = Free)
        /\ (q = Free \/ q.ref # 0)
    <3> HIDE DEF n, p
    <3>1. CASE n - 1 > 0
      BY <2>1, <3>1, WorkDirAssumption
    <3>2. CASE ~(n - 1 > 0)
      BY <1>2, <2>1, <3>2
    <3>. QED BY <3>1, <3>2
  <2> HIDE DEF q, c
  <2>6. c[o] = q /\ \A x \in Objs \ {o} : c[x] = ob[x]
    BY <1>1, <2>1, <2>4
  <2>7. c \in [Objs -> [of : FatDirs \cup {Missing}, ref : Nat]]
    BY <1>1, <2>1, <2>4, <2>5
  <2>8. Typed(c)
    BY <1>1, <2>1, <2>5, <2>6, <2>7 DEF Typed
  <2>9. \A x \in Objs : c[x].ref = ob[x].ref - On(node, x)
    BY <2>1, <2>3, <2>5, <2>6
  <2>10. \A x \in Objs : c[x].ref > 0 => c[x].of = ob[x].of
    BY <2>1, <2>5, <2>6
  <2>11. LostIn(c) = LostIn(ob)
    <3>1. o \notin LostIn(c) /\ o \notin LostIn(ob)
      BY <2>1, <2>5, <2>6 DEF LostIn
    <3>. QED BY <2>6, <3>1 DEF LostIn
  <2>. QED BY <2>8, <2>9, <2>10, <2>11 DEF c
<1>. QED BY <1>3, <1>4
-----------------------------------------------------------------------------
(* The steps *)
LEMMA LostCount ==
  ASSUME LostOK, NEW after,
         after = LostObjs \/ \E o \in Objs \ LostObjs : after = LostObjs \cup {o}
  PROVE  /\ after = LostObjs => Cardinality(after) = lost
         /\ (\E o \in Objs \ LostObjs : after = LostObjs \cup {o}) => Cardinality(after) = lost + 1
<1>1. IsFiniteSet(LostObjs)
  BY WorkDirAssumption, FS_Subset DEF LostObjs
<1>2. ASSUME NEW o \in Objs \ LostObjs
      PROVE  Cardinality(LostObjs \cup {o}) = lost + 1
  BY <1>1, FS_AddElement DEF LostOK
<1>. QED BY <1>2 DEF LostOK

LEMMA OpenKeeps ==
  ASSUME IInv, NEW path \in Paths, NEW bad, open(path, bad)
  PROVE  IInv'
<1> DEFINE r == fs_open(path, bad)
           to == Resolve(Start(path), Names(path))
<1>1. path \in Seq(Tokens) /\ ObjsOK /\ NodesOK /\ Counted /\ Room
  BY WorkDirAssumption DEF IInv, open
<1>3. Opened(r, to)
  BY <1>1, FsOpened
<1>4. /\ handle = NoNode /\ handle' = r.node /\ obj' = r.obj
      /\ asked' = IF r.node = NoNode THEN Missing ELSE to
      /\ lost' = IF r.lost THEN lost + 1 ELSE lost
      /\ UNCHANGED << cwdnode, cwdpath >>
  BY DEF open
<1> HIDE DEF r, to
<1>5. /\ Typed(r.obj)
      /\ \A o \in Objs : r.obj[o].ref = obj[o].ref + On(r.node, o)
      /\ \A o \in Objs : obj[o] # Free => r.obj[o].of = obj[o].of
      /\ r.node = NoNode \/ r.node.type \in {"fat_dir", "mem_dir", "file"}
      /\ r.node.type = "fat_dir" => r.node.at \in Objs /\ r.obj[r.node.at].of = to /\ to \in FatDirs
      /\ r.node.type = "mem_dir" => r.node.at = to /\ to \in MemDirs
      /\ r.node.type = "file" => r.node.at = to
      /\ ~r.lost => LostIn(r.obj) = LostIn(obj)
      /\ r.lost => \E o \in Objs \ LostIn(obj) : LostIn(r.obj) = LostIn(obj) \cup {o}
  BY <1>1, <1>3, Openings
<1>6. NodeOK(cwdnode) /\ cwdnode.type \in {"fat_dir", "mem_dir"} /\ LostOK
  BY DEF IInv, NodesOK
<1>7. cwdnode.type = "fat_dir" => cwdnode.at \in Objs /\ obj[cwdnode.at] # Free /\ r.obj[cwdnode.at].of = obj[cwdnode.at].of
  <2>1. Missing \notin FatDirs /\ Free.of = Missing
    BY WorkDirAssumption DEF Free
  <2>. QED BY <1>5, <1>6, <2>1 DEF NodeOK
<1>8. ObjsOK'
  BY <1>4, <1>5 DEF ObjsOK, Typed
<1>9. NodesOK'
  <2>1. NodeOK(cwdnode)'
    BY <1>4, <1>6, <1>7 DEF NodeOK
  <2>2. NodeOK(handle)'
    BY <1>4, <1>5 DEF NodeOK
  <2>3. handle'.type \in {"none", "fat_dir", "mem_dir", "file"}
    BY <1>4, <1>5 DEF NoNode
  <2>. QED BY <1>4, <1>6, <2>1, <2>2, <2>3 DEF NodesOK
<1>10. Counted'
  <2> SUFFICES ASSUME NEW o \in Objs PROVE obj'[o].ref = RefsTo(o)'
    BY DEF Counted
  <2>1. obj[o].ref = On(cwdnode, o) + On(handle, o) /\ On(handle, o) = 0
    BY <1>1, <1>4 DEF Counted, RefsTo, On, NoNode
  <2>2. RefsTo(o)' = On(cwdnode, o) + On(r.node, o)
    BY <1>4 DEF RefsTo, On
  <2>3. obj'[o].ref = obj[o].ref + On(r.node, o)
    BY <1>4, <1>5
  <2>4. On(cwdnode, o) \in Nat /\ On(r.node, o) \in Nat
    BY DEF On
  <2>. QED BY <2>1, <2>2, <2>3, <2>4
<1>11. LostOK'
  <2>1. LostObjs = LostIn(obj) /\ LostObjs' = LostIn(r.obj)
    BY <1>4 DEF LostObjs, LostIn
  <2>2. lost \in Nat
    BY <1>6 DEF LostOK
  <2>3. CASE ~r.lost
    BY <1>4, <1>5, <1>6, <2>1, <2>2, <2>3, LostCount DEF LostOK
  <2>4. CASE r.lost
    <3>1. Cardinality(LostIn(r.obj)) = lost + 1
      BY <1>5, <1>6, <2>1, <2>4, LostCount
    <3>. QED BY <1>4, <2>1, <2>2, <2>4, <3>1 DEF LostOK
  <2>. QED BY <2>3, <2>4
<1>12. PathOK'
  BY <1>4 DEF IInv, PathOK
<1>13. OpenIsRight'
  <2> SUFFICES ASSUME r.node # NoNode PROVE Place(handle)' = to
    BY <1>4 DEF OpenIsRight
  <2>1. CASE r.node.type = "fat_dir"
    <3>1. r.node.at # ROOTDIR
      BY <1>5, <2>1, ObjFacts
    <3>. QED BY <1>4, <1>5, <2>1, <3>1 DEF Place, PlaceOf
  <2>2. CASE r.node.type # "fat_dir"
    BY <1>4, <1>5, <2>2 DEF Place
  <2>. QED BY <2>1, <2>2
<1>14. CwdPathNamesCwd'
  <2>1. Place(cwdnode)' = Place(cwdnode)
    BY <1>4, <1>7 DEF Place, PlaceOf
  <2>. QED BY <1>4, <2>1 DEF IInv, CwdPathNamesCwd
<1>. QED BY <1>8, <1>9, <1>10, <1>11, <1>12, <1>13, <1>14 DEF IInv

LEMMA GoKeeps ==
  ASSUME IInv, NEW path \in Seq(Tokens), NEW text \in Seq(Tokens), NEW bad,
         Go(path, text, bad), text # << >>, text[1] = "/",
         Resolve(MemRoot, Names(text)) = Resolve(Start(path), Names(path))
  PROVE  IInv'
<1> DEFINE r == fs_open(path, bad)
           to == Resolve(Start(path), Names(path))
           isDir == r.node.type \in {"fat_dir", "mem_dir"}
           c == fs_close(r.obj, cwdnode)
<1>1. ObjsOK /\ NodesOK /\ Counted /\ Room /\ LostOK
  BY DEF IInv, Go
<1>2. Opened(r, to)
  BY <1>1, FsOpened
<1>3. /\ lost' = IF r.lost THEN lost + 1 ELSE lost
      /\ isDir => cwdpath' = text /\ obj' = c /\ cwdnode' = r.node
      /\ ~isDir => obj' = r.obj /\ UNCHANGED << cwdpath, cwdnode >>
      /\ UNCHANGED << handle, asked, stale >>
  BY DEF Go
<1>4. Resolve(MemRoot, Names(text)) = to
  OBVIOUS
<1> HIDE DEF r, to
<1>5. /\ Typed(r.obj)
      /\ \A o \in Objs : r.obj[o].ref = obj[o].ref + On(r.node, o)
      /\ \A o \in Objs : obj[o] # Free => r.obj[o].of = obj[o].of
      /\ r.node = NoNode \/ r.node.type \in {"fat_dir", "mem_dir", "file"}
      /\ r.node.type = "fat_dir" => r.node.at \in Objs /\ r.obj[r.node.at].of = to /\ to \in FatDirs
      /\ r.node.type = "mem_dir" => r.node.at = to /\ to \in MemDirs
      /\ r.node.type = "file" => r.node.at = to
      /\ ~r.lost => LostIn(r.obj) = LostIn(obj)
      /\ r.lost => \E o \in Objs \ LostIn(obj) : LostIn(r.obj) = LostIn(obj) \cup {o}
  BY <1>1, <1>2, Openings
<1>6. NodeOK(cwdnode) /\ cwdnode.type \in {"fat_dir", "mem_dir"} /\ NodeOK(handle)
      /\ handle.type \in {"none", "fat_dir", "mem_dir", "file"}
  BY <1>1 DEF NodesOK
<1>7. Missing \notin FatDirs /\ Free.of = Missing
  BY WorkDirAssumption DEF Free
<1>8. /\ cwdnode.type = "fat_dir" => cwdnode.at \in Objs /\ obj[cwdnode.at] # Free
      /\ handle.type = "fat_dir" => handle.at \in Objs /\ obj[handle.at] # Free /\ obj[handle.at].of \in FatDirs
  BY <1>6, <1>7 DEF NodeOK
<1>9. \A o \in Objs : obj[o].ref \in Nat /\ obj[o].ref = On(cwdnode, o) + On(handle, o)
                      /\ On(cwdnode, o) \in Nat /\ On(handle, o) \in Nat /\ On(r.node, o) \in Nat
  BY <1>1 DEF Counted, RefsTo, On, ObjsOK
<1>10. cwdnode.type = "fat_dir" => cwdnode.at \in Objs /\ r.obj[cwdnode.at].ref > 0
  <2> SUFFICES ASSUME cwdnode.type = "fat_dir" PROVE cwdnode.at \in Objs /\ r.obj[cwdnode.at].ref > 0
    OBVIOUS
  <2>1. On(cwdnode, cwdnode.at) = 1
    BY DEF On
  <2>. QED BY <1>5, <1>8, <1>9, <2>1
<1>11. /\ Typed(c)
       /\ \A o \in Objs : c[o].ref = r.obj[o].ref - On(cwdnode, o)
       /\ \A o \in Objs : c[o].ref > 0 => c[o].of = r.obj[o].of
       /\ LostIn(c) = LostIn(r.obj)
  BY <1>5, <1>10, Closings
<1> HIDE DEF c
<1>12. \A o \in Objs : /\ ~isDir => On(r.node, o) = 0
                       /\ isDir => c[o].ref = On(handle, o) + On(r.node, o)
  <2> SUFFICES ASSUME NEW o \in Objs
               PROVE  /\ ~isDir => On(r.node, o) = 0
                      /\ isDir => c[o].ref = On(handle, o) + On(r.node, o)
    OBVIOUS
  <2>1. ~isDir => On(r.node, o) = 0
    BY DEF On
  <2>2. /\ obj[o].ref = On(cwdnode, o) + On(handle, o)
        /\ On(cwdnode, o) \in Nat /\ On(handle, o) \in Nat /\ On(r.node, o) \in Nat
    BY <1>9
  <2>3. c[o].ref = r.obj[o].ref - On(cwdnode, o) /\ r.obj[o].ref = obj[o].ref + On(r.node, o)
    BY <1>5, <1>11
  <2>4. c[o].ref = On(handle, o) + On(r.node, o)
    BY <2>2, <2>3
  <2>. QED BY <2>1, <2>4
<1>13. ObjsOK'
  <2>1. Typed(obj')
    BY <1>3, <1>5, <1>11
  <2>. QED BY <2>1 DEF ObjsOK, Typed
<1>14. Counted'
  <2> SUFFICES ASSUME NEW o \in Objs PROVE obj'[o].ref = RefsTo(o)'
    BY DEF Counted
  <2>1. CASE isDir
    <3>1. RefsTo(o)' = On(r.node, o) + On(handle, o)
      BY <1>3, <2>1 DEF RefsTo, On
    <3>2. obj'[o].ref = On(handle, o) + On(r.node, o)
      BY <1>3, <1>12, <2>1
    <3> HIDE DEF isDir
    <3>. QED BY <1>9, <3>1, <3>2
  <2>2. CASE ~isDir
    <3>1. RefsTo(o)' = On(cwdnode, o) + On(handle, o)
      BY <1>3, <2>2 DEF RefsTo, On
    <3>2. obj'[o].ref = obj[o].ref + 0
      BY <1>3, <1>5, <1>12, <2>2
    <3> HIDE DEF isDir
    <3>. QED BY <1>9, <3>1, <3>2
  <2>. QED BY <2>1, <2>2
<1>15. handle.type = "fat_dir" => obj'[handle.at].of = obj[handle.at].of
  <2> SUFFICES ASSUME handle.type = "fat_dir" PROVE obj'[handle.at].of = obj[handle.at].of
    OBVIOUS
  <2>1. On(handle, handle.at) = 1 /\ handle.at \in Objs
    BY <1>8 DEF On
  <2>2. r.obj[handle.at].of = obj[handle.at].of
    BY <1>5, <1>8
  <2>3. isDir => c[handle.at].ref > 0
    BY <1>9, <1>12, <2>1
  <2>. QED BY <1>3, <1>11, <2>1, <2>2, <2>3
<1>16. /\ cwdnode'.type \in {"fat_dir", "mem_dir"}
       /\ NodeOK(cwdnode)'
       /\ Resolve(MemRoot, Names(cwdpath')) = Place(cwdnode)'
  <2>1. CASE isDir
    <3>1. CASE r.node.type = "fat_dir"
      <4>1. On(r.node, r.node.at) = 1 /\ r.node.at \in Objs
        BY <1>5, <3>1 DEF On
      <4>2. c[r.node.at].ref > 0
        BY <1>9, <1>12, <2>1, <4>1
      <4>3. obj'[r.node.at].of = to /\ to \in FatDirs
        BY <1>3, <1>5, <1>11, <2>1, <3>1, <4>1, <4>2
      <4>4. r.node.at # ROOTDIR
        BY <4>1, ObjFacts
      <4>5. Place(cwdnode)' = to
        BY <1>3, <2>1, <3>1, <4>3, <4>4 DEF Place, PlaceOf
      <4>6. NodeOK(cwdnode)'
        BY <1>3, <2>1, <3>1, <4>1, <4>3 DEF NodeOK
      <4>. QED BY <1>3, <1>4, <2>1, <4>5, <4>6
    <3>2. CASE r.node.type = "mem_dir"
      <4>1. Place(cwdnode)' = to /\ NodeOK(cwdnode)'
        BY <1>3, <1>5, <2>1, <3>2 DEF Place, NodeOK
      <4>. QED BY <1>3, <1>4, <2>1, <4>1
    <3>. QED BY <2>1, <3>1, <3>2
  <2>2. CASE ~isDir
    <3>1. obj' = r.obj /\ cwdpath' = cwdpath /\ cwdnode' = cwdnode
      BY <1>3, <2>2
    <3>2. cwdnode.type = "fat_dir" => r.obj[cwdnode.at].of = obj[cwdnode.at].of
      BY <1>5, <1>8
    <3>3. Place(cwdnode)' = Place(cwdnode)
      BY <3>1, <3>2 DEF Place, PlaceOf
    <3>4. NodeOK(cwdnode)'
      BY <1>6, <3>1, <3>2 DEF NodeOK
    <3>5. CwdPathNamesCwd
      BY DEF IInv
    <3>. QED BY <1>6, <3>1, <3>3, <3>4, <3>5 DEF CwdPathNamesCwd
  <2>. QED BY <2>1, <2>2
<1>17. NodesOK'
  <2>1. NodeOK(handle)'
    BY <1>3, <1>6, <1>8, <1>15 DEF NodeOK
  <2>. QED BY <1>3, <1>6, <1>16, <2>1 DEF NodesOK
<1>18. LostOK'
  <2>1. LostObjs = LostIn(obj) /\ LostObjs' = LostIn(r.obj)
    BY <1>3, <1>11 DEF LostObjs, LostIn
  <2>2. lost \in Nat
    BY <1>1 DEF LostOK
  <2>3. CASE ~r.lost
    BY <1>1, <1>3, <1>5, <2>1, <2>2, <2>3, LostCount DEF LostOK
  <2>4. CASE r.lost
    <3>1. Cardinality(LostIn(r.obj)) = lost + 1
      BY <1>1, <1>5, <2>1, <2>4, LostCount
    <3>. QED BY <1>3, <2>1, <2>2, <2>4, <3>1 DEF LostOK
  <2>. QED BY <2>3, <2>4
<1>19. PathOK'
  BY <1>3 DEF IInv, PathOK
<1>20. OpenIsRight'
  <2>1. Place(handle)' = Place(handle)
    BY <1>3, <1>15 DEF Place, PlaceOf
  <2>. QED BY <1>3, <2>1 DEF IInv, OpenIsRight
<1>21. CwdPathNamesCwd'
  BY <1>16 DEF CwdPathNamesCwd
<1>. QED BY <1>13, <1>14, <1>17, <1>18, <1>19, <1>20, <1>21 DEF IInv
LEMMA ChdirKeeps ==
  ASSUME IInv, NEW path \in Paths, NEW bad, chdir(path, bad)
  PROVE  IInv'
<1> DEFINE text == Append_(cwdpath, path)
           s == << "/" >>
<1>1. path \in Seq(Tokens) /\ path # << >>
  BY WorkDirAssumption
<1>2. cwdpath \in Seq(Tokens) /\ cwdpath # << >> /\ cwdpath[1] = "/"
  BY DEF IInv, PathOK
<1>3. Go(path, text, bad)
  BY DEF chdir
<1>5. s \in Seq(Tokens) /\ Names(s) = << >>
  <2>1. "/" \in Tokens
    BY WorkDirAssumption
  <2>2. \A x \in Tokens : << x >> \in Seq(Tokens)
    OBVIOUS
  <2>. QED BY <2>1, <2>2, NamesSlash
<1> HIDE DEF s
<1>6. CASE IsAbsolute(path)
  <2>1. text = path
    BY <1>6 DEF Append_
  <2>2. path[1] = "/"
    BY <1>6 DEF IsAbsolute
  <2>3. Start(path) = MemRoot
    BY <1>6 DEF Start
  <2> HIDE DEF text
  <2>. QED BY <1>1, <1>3, <2>1, <2>2, <2>3, GoKeeps
<1>7. CASE ~IsAbsolute(path)
  <2> DEFINE pre == IF Len(cwdpath) > 1 THEN cwdpath \o s ELSE cwdpath
  <2>1. text = pre \o path
    BY <1>1, <1>2, <1>5, <1>7 DEF Append_, s
  <2>2. pre \in Seq(Tokens) /\ pre # << >> /\ pre[1] = "/"
    BY <1>2, <1>5
  <2>3. Names(pre) = Names(cwdpath)
    <3>1. Names(cwdpath) \in Seq(Tokens)
      BY <1>2, NamesType
    <3>2. Names(cwdpath \o s) = Names(cwdpath) \o << >>
      BY <1>2, <1>5, NamesJoin
    <3>3. Names(cwdpath) \o << >> = Names(cwdpath)
      BY <3>1
    <3>. QED BY <3>2, <3>3
  <2> HIDE DEF pre, text
  <2>4. text \in Seq(Tokens) /\ text # << >> /\ text[1] = "/"
    BY <1>1, <2>1, <2>2
  <2>5. Names(text) = Names(cwdpath) \o Names(path)
    BY <1>1, <2>1, <2>2, <2>3, NamesJoin
  <2>6. Resolve(MemRoot, Names(cwdpath)) = Place(cwdnode) /\ Start(path) = Place(cwdnode)
    BY <1>7 DEF IInv, CwdPathNamesCwd, Start
  <2>7. Names(cwdpath) \in Seq(Tokens) /\ Names(path) \in Seq(Tokens)
    BY <1>1, <1>2, NamesType
  <2>8. Resolve(MemRoot, Names(text)) = Resolve(Start(path), Names(path))
    BY <2>5, <2>6, <2>7, ResolveJoin
  <2>. QED BY <1>1, <1>3, <2>4, <2>8, GoKeeps
<1>. QED BY <1>6, <1>7

LEMMA ChdirUpKeeps ==
  ASSUME IInv, NEW bad, chdir_up(bad)
  PROVE  IInv'
<1> DEFINE path == Up(cwdpath)
           n == Len(cwdpath)
           k == IF LastSlash(cwdpath) = 1 THEN 1 ELSE LastSlash(cwdpath) - 1
<1>1. cwdpath \in Seq(Tokens) /\ cwdpath # << >> /\ cwdpath[1] = "/" /\ n \in Nat /\ n > 0
  BY DEF IInv, PathOK
<1>2. Go(path, path, bad)
  BY DEF chdir_up
<1>3. k \in 1 .. n
  <2>1. Slashes(cwdpath) \subseteq 1 .. n /\ 1 \in Slashes(cwdpath)
    BY <1>1 DEF Slashes
  <2> DEFINE T == { n - i : i \in Slashes(cwdpath) }
  <2>2. T \in SUBSET Nat /\ T # {}
    BY <1>1, <2>1
  <2>3. PICK m \in T : \A j \in T : m <= j
    BY <2>2, Least
  <2>4. PICK i \in Slashes(cwdpath) : m = n - i
    OBVIOUS
  <2>5. ASSUME NEW j \in Slashes(cwdpath) PROVE j <= i
    <3>1. n - j \in T
      OBVIOUS
    <3>2. n - i <= n - j /\ i \in 1 .. n /\ j \in 1 .. n
      BY <2>1, <2>3, <2>4, <3>1
    <3>. QED BY <1>1, <3>2
  <2>6. LastSlash(cwdpath) \in Slashes(cwdpath)
    BY <2>5 DEF LastSlash
  <2> DEFINE l == LastSlash(cwdpath)
  <2>7. l \in 1 .. n
    BY <2>1, <2>6
  <2> HIDE DEF l
  <2>8. k = IF l = 1 THEN 1 ELSE l - 1
    BY DEF l
  <2> HIDE DEF k
  <2>. QED BY <1>1, <2>7, <2>8
<1>4. path = SubSeq(cwdpath, 1, k)
  BY DEF Up
<1> HIDE DEF k
<1>5. path \in Seq(Tokens)
  <2>1. k \in 0 .. n
    BY <1>3
  <2>. QED BY <1>1, <1>4, <2>1, Prefix
<1>6. path # << >> /\ path[1] = "/"
  <2>1. Len(path) = k /\ path[1] = cwdpath[1]
    <3>1. k \in 0 .. n /\ 1 \in 1 .. k
      BY <1>1, <1>3
    <3>. QED BY <1>1, <1>4, <3>1, Prefix
  <2>2. Len(path) # 0
    BY <1>3, <2>1
  <2> HIDE DEF path
  <2>. QED BY <1>1, <1>5, <2>1, <2>2
<1> HIDE DEF path
<1>7. Start(path) = MemRoot
  BY <1>6 DEF Start, IsAbsolute
<1>. QED BY <1>2, <1>5, <1>6, <1>7, GoKeeps

LEMMA CloseKeeps ==
  ASSUME IInv, close
  PROVE  IInv'
<1> DEFINE c == fs_close(obj, handle)
<1>1. ObjsOK /\ NodesOK /\ Counted /\ LostOK
  BY DEF IInv
<1>2. handle' = NoNode /\ asked' = Missing /\ obj' = c /\ UNCHANGED << cwdnode, cwdpath, errno, lost >>
  BY DEF close
<1>3. Typed(obj)
  BY <1>1 DEF ObjsOK, Typed
<1>4. NodeOK(cwdnode) /\ cwdnode.type \in {"fat_dir", "mem_dir"} /\ NodeOK(handle)
  BY <1>1 DEF NodesOK
<1>5. \A o \in Objs : obj[o].ref = On(cwdnode, o) + On(handle, o)
                      /\ On(cwdnode, o) \in Nat /\ On(handle, o) \in Nat
  BY <1>1 DEF Counted, RefsTo, On
<1>6. handle.type = "fat_dir" => handle.at \in Objs /\ obj[handle.at].ref > 0
  <2> SUFFICES ASSUME handle.type = "fat_dir" PROVE handle.at \in Objs /\ obj[handle.at].ref > 0
    OBVIOUS
  <2>1. On(handle, handle.at) = 1 /\ handle.at \in Objs
    BY <1>4 DEF On, NodeOK
  <2>. QED BY <1>5, <2>1
<1>7. /\ Typed(c)
      /\ \A o \in Objs : c[o].ref = obj[o].ref - On(handle, o)
      /\ \A o \in Objs : c[o].ref > 0 => c[o].of = obj[o].of
      /\ LostIn(c) = LostIn(obj)
  BY <1>3, <1>6, Closings
<1> HIDE DEF c
<1>8. \A o \in Objs : c[o].ref = On(cwdnode, o)
  <2> SUFFICES ASSUME NEW o \in Objs PROVE c[o].ref = On(cwdnode, o)
    OBVIOUS
  <2>1. obj[o].ref = On(cwdnode, o) + On(handle, o) /\ On(cwdnode, o) \in Nat /\ On(handle, o) \in Nat
    BY <1>5
  <2>2. c[o].ref = obj[o].ref - On(handle, o)
    BY <1>7
  <2>. QED BY <2>1, <2>2
<1>9. ObjsOK'
  BY <1>2, <1>7 DEF ObjsOK, Typed
<1>10. Counted'
  <2> SUFFICES ASSUME NEW o \in Objs PROVE obj'[o].ref = RefsTo(o)'
    BY DEF Counted
  <2>1. RefsTo(o)' = On(cwdnode, o) + 0
    BY <1>2 DEF RefsTo, On, NoNode
  <2>2. obj'[o].ref = On(cwdnode, o) /\ On(cwdnode, o) \in Nat
    BY <1>2, <1>5, <1>8
  <2>. QED BY <2>1, <2>2
<1>11. cwdnode.type = "fat_dir" => cwdnode.at \in Objs /\ obj'[cwdnode.at].of = obj[cwdnode.at].of
  <2> SUFFICES ASSUME cwdnode.type = "fat_dir"
               PROVE  cwdnode.at \in Objs /\ obj'[cwdnode.at].of = obj[cwdnode.at].of
    OBVIOUS
  <2>1. On(cwdnode, cwdnode.at) = 1 /\ cwdnode.at \in Objs
    BY <1>4 DEF On, NodeOK
  <2>2. c[cwdnode.at].ref > 0
    BY <1>8, <2>1
  <2>. QED BY <1>2, <1>7, <2>1, <2>2
<1>12. NodesOK'
  <2>1. NodeOK(cwdnode)'
    BY <1>2, <1>4, <1>11 DEF NodeOK
  <2>2. NodeOK(handle)' /\ handle'.type = "none"
    BY <1>2 DEF NodeOK, NoNode
  <2>. QED BY <1>2, <1>4, <2>1, <2>2 DEF NodesOK
<1>13. LostOK'
  BY <1>1, <1>2, <1>7 DEF LostOK, LostObjs, LostIn
<1>14. CwdPathNamesCwd'
  <2>1. Place(cwdnode)' = Place(cwdnode)
    BY <1>2, <1>11 DEF Place, PlaceOf
  <2>. QED BY <1>2, <2>1 DEF IInv, CwdPathNamesCwd
<1>15. PathOK' /\ OpenIsRight'
  BY <1>2 DEF IInv, PathOK, OpenIsRight
<1>. QED BY <1>9, <1>10, <1>12, <1>13, <1>14, <1>15 DEF IInv

-----------------------------------------------------------------------------
LEMMA InitOK == Init => IInv
<1> SUFFICES ASSUME Init PROVE IInv
  OBVIOUS
<1>1. /\ obj = [o \in Objs |-> Free] /\ handle = NoNode /\ asked = Missing
      /\ cwdnode = [type |-> "mem_dir", at |-> MemRoot] /\ cwdpath = << "/" >>
      /\ lost = 0
  BY DEF Init
<1>2. cwdnode.type = "mem_dir" /\ cwdnode.at = MemRoot /\ MemRoot \in MemDirs /\ handle.type = "none"
  BY <1>1, WorkDirAssumption DEF NoNode
<1>3. ObjsOK
  <2>1. Free \in [of : FatDirs \cup {Missing}, ref : Nat]
    BY DEF Free
  <2> HIDE DEF Free
  <2>. QED BY <1>1, <2>1 DEF ObjsOK
<1>4. NodesOK
  BY <1>2 DEF NodesOK, NodeOK
<1>5. Counted
  BY <1>1, <1>2 DEF Counted, RefsTo, Free
<1>6. LostOK
  <2>1. LostObjs = {}
    BY <1>1 DEF LostObjs
  <2>. QED BY <1>1, <2>1, FS_EmptySet DEF LostOK
<1>7. PathOK
  <2>1. "/" \in Tokens
    BY WorkDirAssumption
  <2>2. \A x \in Tokens : << x >> \in Seq(Tokens) /\ << x >> # << >> /\ << x >>[1] = x
    OBVIOUS
  <2>. QED BY <1>1, <2>1, <2>2 DEF PathOK
<1>8. OpenIsRight
  BY <1>1 DEF OpenIsRight
<1>9. CwdPathNamesCwd
  <2> DEFINE e == << >>
  <2>1. e \in Seq(Tokens) /\ Len(e) = 0
    OBVIOUS
  <2> HIDE DEF e
  <2>2. Resolve(MemRoot, e) = MemRoot
    BY <2>1, ResolveEmpty
  <2>3. Names(cwdpath) = e
    BY <1>1, NamesSlash DEF e
  <2>4. Place(cwdnode) = MemRoot
    BY <1>2 DEF Place
  <2>. QED BY <2>2, <2>3, <2>4 DEF CwdPathNamesCwd
<1>. QED BY <1>3, <1>4, <1>5, <1>6, <1>7, <1>8, <1>9 DEF IInv

LEMMA NextKeeps == IInv /\ [Careful]_vars => IInv'
<1> SUFFICES ASSUME IInv, [Careful]_vars PROVE IInv'
  OBVIOUS
<1>1. CASE \E bad \in FatDirs \cup {NoBad}, p \in Paths : open(p, bad)
  BY <1>1, OpenKeeps
<1>2. CASE \E bad \in FatDirs \cup {NoBad}, p \in Paths : Fits(p) /\ chdir(p, bad)
  BY <1>2, ChdirKeeps
<1>3. CASE \E bad \in FatDirs \cup {NoBad} : chdir_up(bad)
  BY <1>3, ChdirUpKeeps
<1>4. CASE close
  BY <1>4, CloseKeeps
<1>5. CASE UNCHANGED vars
  <2>1. /\ obj' = obj /\ handle' = handle /\ asked' = asked /\ cwdnode' = cwdnode /\ cwdpath' = cwdpath
        /\ errno' = errno /\ stale' = stale /\ lost' = lost
    BY <1>5 DEF vars
  <2>2. ObjsOK' /\ NodesOK' /\ Counted' /\ LostOK' /\ PathOK'
    BY <2>1 DEF IInv, ObjsOK, NodesOK, NodeOK, Counted, RefsTo, LostOK, LostObjs, PathOK
  <2>3. OpenIsRight' /\ CwdPathNamesCwd'
    BY <2>1 DEF IInv, OpenIsRight, CwdPathNamesCwd, Place, PlaceOf
  <2>. QED BY <2>2, <2>3 DEF IInv
<1>. QED BY <1>1, <1>2, <1>3, <1>4, <1>5 DEF Careful, AnyCall

(* The inductive invariant holds of the calls that CarefulSpec allows.      *)
THEOREM Inductive == CarefulSpec => []IInv
BY InitOK, NextKeeps, PTL DEF CarefulSpec

(* No directory that a node is open on is freed (free_dir), each counts its *)
(* nodes, and what open has loaded and no node is open on is what it lost   *)
(* when it failed, with any directory that the disk fails to give.          *)
THEOREM DirectoriesCountReferences == CarefulSpec => []RefsCount
<1>1. IInv => RefsCount
  <2> SUFFICES ASSUME IInv PROVE RefsCount
    OBVIOUS
  <2>1. NodeOK(cwdnode) /\ cwdnode.type \in {"fat_dir", "mem_dir"} /\ NodeOK(handle)
        /\ handle.type \in {"none", "fat_dir", "mem_dir", "file"}
    BY DEF IInv, NodesOK
  <2>2. \A o \in Objs : obj[o].of \in FatDirs \cup {Missing} /\ obj[o].ref = RefsTo(o)
    BY DEF IInv, ObjsOK, Counted
  <2>3. \A o \in Objs : RefsTo(o) \in 0 .. 2
    BY DEF RefsTo
  <2>4. TypeOK
    BY <2>1, <2>2, <2>3 DEF TypeOK, Nodes, NodeOK
  <2>5. \A n \in Nodes : n.type = "fat_dir" => obj[n.at] # Free
    BY <2>1, WorkDirAssumption DEF Nodes, NodeOK, Free
  <2>6. Cardinality({ o \in Objs : obj[o] # Free /\ obj[o].ref = 0 }) = lost
    BY DEF IInv, LostOK, LostObjs
  <2>. QED BY <2>2, <2>4, <2>5, <2>6 DEF RefsCount
<1>. QED BY <1>1, Inductive, PTL

(* fs_open gives a node on the place that the path names, through mount     *)
(* points, "." and "..", and closes and chdirs leave it there; unless it is *)
(* a file whose entry was read in a directory that open had freed.          *)
THEOREM NodesAreWherePathsLead == CarefulSpec => []OpenIsRight
<1>1. IInv => OpenIsRight
  BY DEF IInv
<1>. QED BY <1>1, Inductive, PTL

(* fs_chdir keeps cwdpath a path of the directory that cwdnode is open on.  *)
THEOREM CwdPathIsRight == CarefulSpec => []CwdPathNamesCwd
<1>1. IInv => CwdPathNamesCwd
  BY DEF IInv
<1>. QED BY <1>1, Inductive, PTL
=============================================================================
